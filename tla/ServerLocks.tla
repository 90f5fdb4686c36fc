----------------------------- MODULE ServerLocks -----------------------------
(***************************************************************************)
(* The mutexes of a server and the order in which its threads take them.   *)
(* Emitting a signal holds the mutex of the signal while its slots run, so *)
(* the slots of the server, and the users' slots inside them, nest: closed *)
(* of a connection, disconnected of the server, the user's slot, and what  *)
(* that slot calls.  None of the mutexes is recursive.                     *)
(*                                                                         *)
(* The signal of a session is emitted around add_connection and the next   *)
(* session's creation, and its mutex is taken again by whoever destroys    *)
(* the session: remove_connection, which has server::_mutex, or the        *)
(* parameter of add_connection, which dies inside the emission itself.     *)
(*                                                                         *)
(* A thread is the agenda of the instructions it still has to execute.     *)
(* What the instructions do besides locking is left out, but for what      *)
(* decides which handlers may run.  The signals of a stream, and that of a *)
(* session whose accept has failed, are known to one thread only and left  *)
(* out.  Users keep a pointer to every connection, so none is destroyed    *)
(* inside an emission: what becomes of the others is the subject of module *)
(* Server.                                                                 *)
(***************************************************************************)
EXTENDS Naturals, Sequences

CONSTANTS Connections,      \* positive numbers
          Workers,          \* threads of the service
          Users,            \* other threads of the program
          Free,             \* a mutex nobody holds
          UserMay,          \* what users' slots call, per signal of the server
          MaxPackages,      \* bound: packages read by each connection
          MaxCalls          \* bound: calls made by users in all

Calls == {"close", "connections", "send"}

ServerSignals == {"connected", "disconnected", "error", "received"}

ASSUME LocksAssumption ==
    /\ Connections \subseteq Nat \ {0}
    /\ Workers \cap Users = {}
    /\ Free \notin Workers \cup Users
    /\ UserMay \in [ServerSignals -> SUBSET Calls]
    /\ MaxPackages \in Nat /\ MaxCalls \in Nat

Threads == Workers \cup Users

(***************************************************************************)
(* A mutex is named by what it protects and its owner, 0 for the server:   *)
(* a signal, or list for server::_mutex, or write for connection::_mutex.  *)
(* Session is the signal of the session that accepted the connection.      *)
(***************************************************************************)
ConnectionSignals == {"closed", "error", "received"}

Locks == (ServerSignals \cup {"list"}) \X {0}
           \cup (ConnectionSignals \cup {"write", "session"}) \X Connections

List == <<"list", 0>>

Session(c) == <<"session", c>>

VARIABLES
    agenda,     \* what each thread has still to do
    holder,     \* the thread that holds each mutex
    slots,      \* signals of connections to which the server's slot is connected
    known,      \* connections that have been in the server's list
    owners,     \* what points to the session of each connection
    listening,  \* is there a session that accepts?
    open,       \* connections whose socket has not been closed on this side
    reader,     \* what the read loop of each connection does
    writer,     \* what the write of each connection does
    packages,   \* number of packages each connection has read
    calls       \* number of calls by users

server == <<slots, known, owners, listening>>

io == <<open, reader, writer, packages>>

vars == <<agenda, holder, server, io, calls>>

Init ==
    /\ agenda = [t \in Threads |-> <<>>]
    /\ holder = [l \in Locks |-> Free]
    /\ slots = {}
    /\ known = {}
    /\ owners = [c \in Connections |-> {}]
    /\ listening = TRUE
    /\ open = Connections
    /\ reader = [c \in Connections |-> "none"]
    /\ writer = [c \in Connections |-> "idle"]
    /\ packages = [c \in Connections |-> 0]
    /\ calls = 0

-----------------------------------------------------------------------------
(***************************************************************************)
(* Instructions: lock and unlock a mutex, emit or connect to or destroy    *)
(* the signal with a mutex, call the user's slot of a signal, start a read *)
(* or write; push adds a connection to the list and its session to the     *)
(* map, erase removes the session, drop ends the parameter that points to  *)
(* it, next creates the next session.                                      *)
(***************************************************************************)
Ops == {"lock", "unlock", "emit", "connect", "destroy", "user", "read", "write",
        "push", "erase", "drop", "next"}

Do(op, l) == [op |-> op, on |-> l]

Locked(l, body) == <<Do("lock", l)>> \o body \o <<Do("unlock", l)>>

\* wait_package, with which the constructor of a connection ends.
WaitPackage(c) == Locked(<<"write", c>>, <<Do("read", <<"write", c>>)>>)

\* Mutant: the server's own received is connected instead of the connection's.
AddConnectionOwn(c) ==
    <<Do("connect", <<"closed", c>>), Do("connect", <<"error", c>>),
      Do("connect", <<"received", 0>>)>>
        \o Locked(List, <<Do("push", <<"write", c>>),
                          Do("emit", <<"connected", 0>>)>>)

\* add_connection: the slots, then connected under server::_mutex.
AddConnection(c) ==
    <<Do("connect", <<"closed", c>>), Do("connect", <<"error", c>>),
      Do("connect", <<"received", c>>)>>
        \o Locked(List, <<Do("push", <<"write", c>>),
                          Do("emit", <<"connected", 0>>)>>)

\* connected_handler, the slot of a session.
Admit(c) == AddConnection(c) \o <<Do("drop", Session(c)), Do("next", List)>>

\* remove_connection.
RemoveConnection(c) == Locked(List, <<Do("erase", Session(c))>>)

\* Mutant: disconnected is emitted under server::_mutex, as connected is.
ClosedSlotLocked(c) ==
    Locked(List, <<Do("emit", <<"disconnected", 0>>), Do("erase", Session(c))>>)

\* closed_slot: disconnected, then remove_connection.
ClosedSlot(c) == <<Do("emit", <<"disconnected", 0>>)>> \o RemoveConnection(c)

\* What the slots of signal l do.
Body(l) ==
    CASE l[2] = 0                       -> <<Do("user", l)>>
      [] l[1] = "session"               -> Admit(l[2])
      [] l \in slots /\ l[1] = "closed" -> ClosedSlot(l[2])
      [] l \in slots /\ l[1] # "closed" -> <<Do("emit", <<l[1], 0>>)>>
      [] OTHER                          -> <<>>

\* read_package_body_handler: what it does with the package, then wait_package.
\* A response callback is a user's function as the slot of received is.
ReadHandler(c) ==
    {<<Do(op, <<"received", c>>)>> \o WaitPackage(c) : op \in {"emit", "user"}}

\* Mutant: connections does not release server::_mutex.
CallConnectionsKept == <<Do("lock", List)>>

\* server::connections.
CallConnections == Locked(List, <<>>)

\* The dispatch slot of a stream, when no other write is under way.
DispatchSlot(c) == Locked(<<"write", c>>, <<Do("write", <<"write", c>>)>>)

-----------------------------------------------------------------------------
Instruction(t) == Head(agenda[t])

Ready(t, op) == agenda[t] # <<>> /\ Instruction(t).op = op

Continue(t, more) == agenda' = [agenda EXCEPT ![t] = more \o Tail(@)]

Lock(t) ==
    /\ Ready(t, "lock")
    /\ holder[Instruction(t).on] = Free
    /\ holder' = [holder EXCEPT ![Instruction(t).on] = t]
    /\ Continue(t, <<>>)
    /\ UNCHANGED <<server, io, calls>>

Unlock(t) ==
    /\ Ready(t, "unlock")
    /\ holder' = [holder EXCEPT ![Instruction(t).on] = Free]
    /\ Continue(t, <<>>)
    /\ UNCHANGED <<server, io, calls>>

\* Mutant: the mutex is not released after the slots.
EmitKeepsLock(t) ==
    /\ Ready(t, "emit")
    /\ LET l == Instruction(t).on
       IN  /\ holder[l] = Free
           /\ holder' = [holder EXCEPT ![l] = t]
           /\ Continue(t, Body(l))
    /\ UNCHANGED <<server, io, calls>>

\* signal::operator().
Emit(t) ==
    /\ Ready(t, "emit")
    /\ LET l == Instruction(t).on
       IN  /\ holder[l] = Free
           /\ holder' = [holder EXCEPT ![l] = t]
           /\ Continue(t, Body(l) \o <<Do("unlock", l)>>)
    /\ UNCHANGED <<server, io, calls>>

\* signal::connect, which has the mutex only for a moment.
ConnectSlot(t) ==
    /\ Ready(t, "connect")
    /\ holder[Instruction(t).on] = Free
    /\ slots' = slots \cup {Instruction(t).on}
    /\ Continue(t, <<>>)
    /\ UNCHANGED <<holder, known, owners, listening, io, calls>>

\* A pointer to a session goes: from the map, or the parameter of
\* add_connection.  The last one destroys the session.
Release(t) ==
    /\ Ready(t, "erase") \/ Ready(t, "drop")
    /\ LET c    == Instruction(t).on[2]
           left == owners[c] \ {IF Ready(t, "erase") THEN "map" ELSE "parameter"}
       IN  /\ owners' = [owners EXCEPT ![c] = left]
           /\ Continue(t, IF owners[c] # {} /\ left = {}
                          THEN <<Do("destroy", Session(c))>> ELSE <<>>)
    /\ UNCHANGED <<holder, slots, known, listening, io, calls>>

\* ~signal of a session, which has the mutex only for a moment.
DestroySession(t) ==
    /\ Ready(t, "destroy")
    /\ holder[Instruction(t).on] = Free
    /\ Continue(t, <<>>)
    /\ UNCHANGED <<holder, server, io, calls>>

\* async_read or async_write.
Initiate(t) ==
    /\ \/ /\ Ready(t, "read")
          /\ reader' = [reader EXCEPT ![Instruction(t).on[2]] = "reading"]
          /\ UNCHANGED writer
       \/ /\ Ready(t, "write")
          /\ writer' = [writer EXCEPT ![Instruction(t).on[2]] = "writing"]
          /\ UNCHANGED reader
    /\ Continue(t, <<>>)
    /\ UNCHANGED <<holder, server, open, packages, calls>>

-----------------------------------------------------------------------------
(***************************************************************************)
(* Calls by users, from their slots or from threads of their own.  They    *)
(* know the connections that connected or connections has given to them.   *)
(***************************************************************************)

\* Do one of the calls in allowed and then what rest says.
Call(t, allowed, rest) ==
    /\ calls < MaxCalls
    /\ calls' = calls + 1
    /\ \/ /\ "connections" \in allowed
          /\ agenda' = [agenda EXCEPT ![t] = CallConnections \o rest]
          /\ UNCHANGED <<open, writer>>
       \/ \E c \in known \cap open :
            \/ /\ "close" \in allowed
               /\ open' = open \ {c}
               /\ agenda' = [agenda EXCEPT ![t] =
                               <<Do("emit", <<"closed", c>>)>> \o rest]
               /\ UNCHANGED writer
            \/ /\ "send" \in allowed
               /\ writer[c] = "idle"
               /\ writer' = [writer EXCEPT ![c] = "sending"]
               /\ agenda' = [agenda EXCEPT ![t] = DispatchSlot(c) \o rest]
               /\ UNCHANGED open
    /\ UNCHANGED <<holder, server, reader, packages>>

\* The rest of what server and session do, which takes no mutex.
Serve(t) ==
    /\ \/ /\ Ready(t, "push")
          /\ known' = known \cup {Instruction(t).on[2]}
          /\ owners' = [owners EXCEPT ![Instruction(t).on[2]] = @ \cup {"map"}]
          /\ UNCHANGED listening
       \/ /\ Ready(t, "next")
          /\ listening' = TRUE
          /\ UNCHANGED <<known, owners>>
    /\ Continue(t, <<>>)
    /\ UNCHANGED <<holder, slots, io, calls>>

UserSlotReturns(t) ==
    /\ Ready(t, "user")
    /\ Continue(t, <<>>)
    /\ UNCHANGED <<holder, server, io, calls>>

\* A slot calls at most once and returns.
UserSlotCalls(t) ==
    /\ Ready(t, "user")
    /\ Call(t, UserMay[Instruction(t).on[1]], Tail(agenda[t]))

UserThread(t) ==
    /\ agenda[t] = <<>>
    /\ Call(t, Calls, <<>>)

-----------------------------------------------------------------------------
(***************************************************************************)
(* Handlers, begun by a thread of the service.                             *)
(***************************************************************************)

Begin(t, program) ==
    /\ agenda[t] = <<>>
    /\ agenda' = [agenda EXCEPT ![t] = program]

\* The session's handler constructs the connection, which reads before it is
\* added, and emits connected.  The parameter of add_connection will be the
\* first to own the session.
Accepted(t, c) ==
    /\ listening /\ reader[c] = "none"
    /\ listening' = FALSE
    /\ Begin(t, WaitPackage(c) \o <<Do("emit", Session(c))>>)
    /\ owners' = [owners EXCEPT ![c] = {"parameter"}]
    /\ reader' = [reader EXCEPT ![c] = "handling"]
    /\ UNCHANGED <<holder, slots, known, open, writer, packages, calls>>

AcceptFails(t) ==
    /\ listening
    /\ listening' = FALSE
    /\ Begin(t, <<Do("emit", <<"error", 0>>)>>)
    /\ UNCHANGED <<holder, slots, known, owners, io, calls>>

\* A package has been read.
ReadDone(t, c) ==
    /\ reader[c] = "reading"
    /\ packages[c] < MaxPackages
    /\ packages' = [packages EXCEPT ![c] = @ + 1]
    /\ reader' = [reader EXCEPT ![c] = "handling"]
    /\ \E handler \in ReadHandler(c) : Begin(t, handler)
    /\ UNCHANGED <<holder, server, open, writer, calls>>

\* The read ended otherwise: check_error emits closed or error, or is silent
\* about a read that close has cancelled.
ReadEnds(t, c) ==
    /\ reader[c] = "reading"
    /\ reader' = [reader EXCEPT ![c] = "ended"]
    /\ \/ Begin(t, <<Do("emit", <<"closed", c>>)>>)
       \/ Begin(t, <<Do("emit", <<"error", c>>)>>)
       \/ c \notin open /\ Begin(t, <<>>)
    /\ UNCHANGED <<holder, server, open, writer, packages, calls>>

\* The write handler: a failure emits error, a success looks at the queue.
WriteEnds(t, c) ==
    /\ writer[c] = "writing"
    /\ writer' = [writer EXCEPT ![c] = "ended"]
    /\ \/ Begin(t, <<Do("emit", <<"error", c>>)>>)
       \/ Begin(t, Locked(<<"write", c>>, <<>>))
       \/ c \notin open /\ Begin(t, <<>>)
    /\ UNCHANGED <<holder, server, open, reader, packages, calls>>

-----------------------------------------------------------------------------
Step(t) ==
    \/ Lock(t) \/ Unlock(t) \/ Emit(t) \/ ConnectSlot(t) \/ Initiate(t)
    \/ Release(t) \/ DestroySession(t) \/ Serve(t) \/ UserSlotReturns(t) \/ UserSlotCalls(t)

Next ==
    \/ \E t \in Threads : Step(t)
    \/ \E t \in Users : UserThread(t)
    \/ \E t \in Workers : AcceptFails(t)
    \/ \E t \in Workers, c \in Connections :
         Accepted(t, c) \/ ReadDone(t, c) \/ ReadEnds(t, c) \/ WriteEnds(t, c)

Spec == Init /\ [][Next]_vars

\* A thread that has something to do goes on; users' slots return.
FairSpec == Spec /\ \A t \in Threads : WF_vars(Step(t))

-----------------------------------------------------------------------------
(***************************************************************************)
(* Properties.                                                             *)
(***************************************************************************)

TypeOK ==
    /\ agenda \in [Threads -> Seq([op : Ops, on : Locks])]
    /\ holder \in [Locks -> Threads \cup {Free}]
    /\ slots \subseteq ConnectionSignals \X Connections
    /\ known \subseteq Connections
    /\ owners \in [Connections -> SUBSET {"map", "parameter"}]
    /\ listening \in BOOLEAN
    /\ open \subseteq Connections
    /\ reader \in [Connections -> {"none", "reading", "handling", "ended"}]
    /\ writer \in [Connections -> {"idle", "sending", "writing", "ended"}]
    /\ packages \in [Connections -> 0 .. MaxPackages]
    /\ calls \in 0 .. MaxCalls

Wants(t, l) ==
    /\ agenda[t] # <<>>
    /\ Instruction(t).op \in {"lock", "emit", "connect", "destroy"}
    /\ Instruction(t).on = l

\* The thread destroys a session inside the session's own emission, because
\* another has removed the connection before the parameter of add_connection
\* died, and waits for itself for ever.
Trapped(t) ==
    \E c \in Connections : Wants(t, Session(c)) /\ holder[Session(c)] = t

\* Threads never wait for each other in a circle, as long as slots make only the
\* calls of UserMay, and none waits for itself but one that is Trapped; nor does
\* any thread ever wait for one of those, directly or in the end.
NoCircularWait ==
    \A waiting \in (SUBSET {t \in Threads : ~ Trapped(t)}) \ {{}} :
        \E t \in waiting : \A l \in Locks :
            Wants(t, l) =>
                ~ \E u \in Threads : /\ holder[l] = u
                                     /\ u \in waiting \/ Trapped(u)

\* A thread that has returned to the service or to the user has no mutex left,
\* whichever slots were connected and whatever they called.
IdleHoldsNothing ==
    \A t \in Threads, l \in Locks : agenda[t] = <<>> => holder[l] # t

\* Every handler and every call comes to its end, but for the handler of an
\* accepted connection whose thread is Trapped.
EverythingReturns ==
    \A t \in Threads : agenda[t] # <<>> ~> (agenda[t] = <<>> \/ Trapped(t))
=============================================================================
