--------------------------- MODULE MCTaskIoService ---------------------------
(* Three threads in run and a user.  A read and a write on a socket, and an   *)
(* accept on another descriptor that the read's handler starts.  The write is *)
(* started by the user or by that handler, which may close the socket.        *)
EXTENDS TaskIoService

CONSTANTS accept, read, write, listener, socket

MCDescriptor == accept :> listener @@ read :> socket @@ write :> socket
MCKind == accept :> "accept" @@ read :> "read" @@ write :> "write"
MCStarts == {<<User, read>>, <<User, write>>, <<read, write>>, <<read, accept>>}
MCCloses == {<<read, socket>>}
MCThreads == Permutations(Threads)
=============================================================================
