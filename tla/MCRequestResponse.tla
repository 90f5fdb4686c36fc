------------------------- MODULE MCRequestResponse -------------------------
(* Who makes the streams: one thread of the client, or one of each side.     *)
EXTENDS RequestResponse, TLC

CONSTANTS p, q, r

OneThread == p :> 1 @@ q :> 1 @@ r :> 1
ClientOnly == <<"client">>

TwoThreads == p :> 1 @@ q :> 2
BothSides == <<"client", "server">>
=============================================================================
