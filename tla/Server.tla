------------------------------- MODULE Server -------------------------------
(***************************************************************************)
(* The server: starting and stopping, the threads of the service, the      *)
(* sessions that accept one connection each, the list of connections, and  *)
(* who keeps a connection alive.  Connections are numbered in the order    *)
(* their sessions are created.  Of a connection only the end of its read   *)
(* loop is kept.                                                           *)
(*                                                                         *)
(* A connection is destroyed with the last shared_ptr to it.  The pointer  *)
(* given to a signal dies in the innermost slot, while the signal's mutex  *)
(* is locked, and the destructor of a signal locks that mutex: a thread    *)
(* that drops the last pointer inside an emission of that connection waits *)
(* for itself for ever and is "stuck".  A session is shared by the map of  *)
(* the server and, until add_connection has returned, by its parameter;    *)
(* the thread that drops the parameter last destroys the session inside    *)
(* the session's emission of connected, and "hangs" the same way.          *)
(*                                                                         *)
(* Threads 1, 2, ... run handlers of the shared service; thread User is a  *)
(* user of the server that closes connections.  A thread in "run" waits    *)
(* inside io_service::run for a handler.                                   *)
(***************************************************************************)
EXTENDS Naturals, Sequences, FiniteSets, FiniteSetsExt

CONSTANTS Policies,         \* the thread policies a user may choose
          Secure,           \* encryption is enabled
          MaxClients,       \* bound: clients that connect
          MaxStarts         \* bound: calls of start on a server at rest

\* count is the number of threads of fixed_count; 0 runs the service in start.
OnePerConnection == [kind |-> "one_per_connection", count |-> 0]
Fixed(n) == [kind |-> "fixed_count", count |-> n]

\* A thread count is a number of the machine: there are finitely many.
ASSUME ServerAssumption ==
    /\ \A p \in Policies :
         p = OnePerConnection \/ (p.count \in Nat /\ p = Fixed(p.count))
    /\ IsFiniteSet(Policies)
    /\ Secure \in BOOLEAN
    /\ MaxClients \in Nat /\ MaxStarts \in Nat

\* Each start creates a session, and so does each connection.
Sessions == 1 .. MaxClients + MaxStarts

\* The threads start creates, and those that run the service after it, which
\* the caller of start does when none is created.
Spawned(p) == IF p.kind = "one_per_connection" THEN 1 ELSE p.count

StartThreads(p) == IF Spawned(p) = 0 THEN 1 ELSE Spawned(p)

MaxThreads == MaxStarts * Max({StartThreads(p) : p \in Policies}) + MaxClients

Threads == 1 .. MaxThreads

User == 0

Free == MaxThreads + 1

VARIABLES
    policy,     \* _thread_policy and _thread_count
    running,    \* server::_running
    starts,     \* number of those calls
    stopped,    \* the service has been stopped
    session,    \* the state of each session
    at, on,     \* what each thread does, and for which connection
    reader,     \* the read loop of each connection
    slots,      \* connections whose signals have the server's slots
    list,       \* server::_connections and the keys of _sessions
    held,       \* connections to which a user keeps a shared_ptr
    mutex,      \* the thread that holds server::_mutex, or Free
    signals     \* history: the signals emitted

config == <<policy, running, starts>>
threads == <<at, on>>
vars == <<config, stopped, session, threads, reader, slots, list, held, mutex,
          signals>>

\* The user has chosen a policy; without set_thread_policy it is
\* OnePerConnection.
Init ==
    /\ policy \in Policies
    /\ running = FALSE
    /\ starts = 0
    /\ stopped = FALSE
    /\ session = [c \in Sessions |-> "none"]
    /\ at = [t \in Threads \cup {User} |-> IF t = User THEN "user" ELSE "none"]
    /\ on = [t \in Threads \cup {User} |-> 0]
    /\ reader = [c \in Sessions |-> "none"]
    /\ slots = {}
    /\ list = {}
    /\ held = {}
    /\ mutex = Free
    /\ signals = <<>>

-----------------------------------------------------------------------------
(***************************************************************************)
(* Starting and stopping.                                                  *)
(***************************************************************************)

\* create_session takes the first number that is free ...
NewSession(s) ==
    LET new == CHOOSE c \in Sessions :
                 /\ s[c] = "none"
                 /\ \A d \in 1 .. c - 1 : s[d] # "none"
    IN  [s EXCEPT ![new] = "accepting"]

\* ... and create_service_thread the first n threads that do not exist.
NewThreads(a, n) ==
    LET old == Cardinality({t \in Threads : a[t] # "none"})
    IN  [t \in DOMAIN a |-> IF t \in old + 1 .. old + n THEN "run" ELSE a[t]]

\* set_thread_policy, which a running server ignores.  Not after the last start.
SetThreadPolicy(p) ==
    /\ ~ running
    /\ starts < MaxStarts
    /\ policy' = p
    /\ UNCHANGED <<running, starts, stopped, session, threads, reader, slots,
                   list, held, mutex, signals>>

\* start.  It only emits error when the encryption is not in order or the
\* acceptor cannot listen.  With thread count 0 the caller itself becomes the
\* one thread that runs the service.
Start(listens) ==
    /\ ~ running
    /\ starts < MaxStarts
    /\ starts' = starts + 1
    /\ IF listens
       THEN /\ running' = TRUE
            /\ session' = NewSession(session)
            /\ at' = NewThreads(at, StartThreads(policy))
            /\ UNCHANGED signals
       ELSE /\ signals' = Append(signals, <<"error", 0>>)
            /\ UNCHANGED <<running, session, at>>
    /\ UNCHANGED <<policy, stopped, on, reader, slots, list, held, mutex>>

\* start, when the session or one of the threads cannot be created: error is
\* emitted, and the server is running with what there is.
StartBreaksOff ==
    /\ ~ running
    /\ starts < MaxStarts
    /\ starts' = starts + 1
    /\ running' = TRUE
    /\ \/ Secure /\ UNCHANGED <<session, at>>
       \/ /\ session' = NewSession(session)
          /\ \E n \in 0 .. Spawned(policy) - 1 : at' = NewThreads(at, n)
    /\ signals' = Append(signals, <<"error", 0>>)
    /\ UNCHANGED <<policy, stopped, on, reader, slots, list, held, mutex>>

\* stop.  The service is not reset when the server starts again.
Stop ==
    /\ running
    /\ stopped' = TRUE
    /\ running' = FALSE
    /\ UNCHANGED <<policy, starts, session, threads, reader, slots, list,
                   held, mutex, signals>>

\* A thread inside a handler.
Busy(t) == at[t] \notin {"none", "run", "exited"}

\* Operations that have not completed and handlers that have not returned.
Outstanding ==
    \/ \E c \in Sessions :
         \/ session[c] \notin {"none", "done", "lost"}
         \/ reader[c] \notin {"none", "done", "lost"}
    \/ \E t \in Threads : Busy(t)

\* Mutant: run leaves only when there is nothing to do.
ExitWhenIdle(t) ==
    /\ at[t] = "run"
    /\ ~ Outstanding
    /\ stopped' = TRUE
    /\ at' = [at EXCEPT ![t] = "exited"]
    /\ UNCHANGED <<config, session, on, reader, slots, list, held, mutex,
                   signals>>

\* run returns when the service is stopped; running out of work stops it.
Exit(t) ==
    /\ at[t] = "run"
    /\ stopped \/ ~ Outstanding
    /\ stopped' = TRUE
    /\ at' = [at EXCEPT ![t] = "exited"]
    /\ UNCHANGED <<config, session, on, reader, slots, list, held, mutex,
                   signals>>

-----------------------------------------------------------------------------
(***************************************************************************)
(* The network.                                                            *)
(***************************************************************************)

Clients == {c \in Sessions : session[c] \notin {"none", "accepting"}}

\* A client connects, or the accept fails.
Accept(c, outcome) ==
    /\ session[c] = "accepting"
    /\ Cardinality(Clients) < MaxClients
    /\ session' = [session EXCEPT ![c] = outcome]
    /\ UNCHANGED <<config, stopped, threads, reader, slots, list, held, mutex,
                   signals>>

Handshake(c, outcome) ==
    /\ session[c] = "handshaking"
    /\ session' = [session EXCEPT ![c] = outcome]
    /\ UNCHANGED <<config, stopped, threads, reader, slots, list, held, mutex,
                   signals>>

\* The peer of c closes or the connection breaks, and the pending read completes
\* with the end of file or another error.
PeerEnds(c, end) ==
    /\ reader[c] = "reading"
    /\ reader' = [reader EXCEPT ![c] = end]
    /\ UNCHANGED <<config, stopped, session, threads, slots, list, held, mutex,
                   signals>>

-----------------------------------------------------------------------------
(***************************************************************************)
(* Accepting a connection.                                                 *)
(***************************************************************************)

Goto(t, step, c) ==
    /\ at' = [at EXCEPT ![t] = step]
    /\ on' = [on EXCEPT ![t] = c]

\* server_session_ssl::accept_handler goes on to the handshake.
AcceptHandler(t, c) ==
    /\ at[t] = "run" /\ ~ stopped
    /\ Secure /\ session[c] = "accepted"
    /\ session' = [session EXCEPT ![c] = "handshaking"]
    /\ UNCHANGED <<config, stopped, threads, reader, slots, list, held, mutex,
                   signals>>

\* accept_handler without encryption, handshake_handler with it: they make the
\* connection, whose constructor starts to read.
Construct(t, c) ==
    /\ at[t] = "run" /\ ~ stopped
    /\ session[c] = IF Secure THEN "ready" ELSE "accepted"
    /\ session' = [session EXCEPT ![c] = "done"]
    /\ reader' = [reader EXCEPT ![c] = "reading"]
    /\ Goto(t, "slots", c)
    /\ UNCHANGED <<config, stopped, slots, list, held, mutex, signals>>

\* connected_handler after a failure: error is emitted and no other session is
\* created.
AcceptError(t, c) ==
    /\ at[t] = "run" /\ ~ stopped
    /\ session[c] = "failed"
    /\ session' = [session EXCEPT ![c] = "lost"]
    /\ signals' = Append(signals, <<"error", c>>)
    /\ UNCHANGED <<config, stopped, threads, reader, slots, list, held, mutex>>

\* Mutant: the slots are forgotten.
ConnectSlotsForgotten(t) ==
    /\ at[t] = "slots"
    /\ Goto(t, "add", on[t])
    /\ UNCHANGED <<config, stopped, session, reader, slots, list, held, mutex,
                   signals>>

\* add_connection connects its slots ...
ConnectSlots(t) ==
    /\ at[t] = "slots"
    /\ slots' = slots \cup {on[t]}
    /\ Goto(t, "add", on[t])
    /\ UNCHANGED <<config, stopped, session, reader, list, held, mutex,
                   signals>>

\* Mutant: the mutex is not kept until connected is emitted.
AddConnectionUnlocked(t) ==
    /\ at[t] = "add"
    /\ mutex = Free
    /\ list' = list \cup {on[t]}
    /\ Goto(t, "emit", on[t])
    /\ UNCHANGED <<config, stopped, session, reader, slots, held, mutex,
                   signals>>

\* ... enters the connection under the mutex ...
AddConnection(t) ==
    /\ at[t] = "add"
    /\ mutex = Free
    /\ mutex' = t
    /\ list' = list \cup {on[t]}
    /\ Goto(t, "emit", on[t])
    /\ UNCHANGED <<config, stopped, session, reader, slots, held, signals>>

\* ... and emits connected before it releases the mutex.  The user's slot may
\* keep the pointer it is given.
EmitConnected(t) ==
    /\ at[t] = "emit"
    /\ signals' = Append(signals, <<"connected", on[t]>>)
    /\ held' \in {held, held \cup {on[t]}}
    /\ mutex' = Free
    /\ Goto(t, "drop", on[t])
    /\ UNCHANGED <<config, stopped, session, reader, slots, list>>

\* The parameters of add_connection die after the mutex has been released.  If
\* the connection has been removed in between, the session dies with them.
DropSession(t) ==
    /\ at[t] = "drop"
    /\ Goto(t, IF on[t] \in list THEN "next" ELSE "hung", on[t])
    /\ UNCHANGED <<config, stopped, session, reader, slots, list, held, mutex,
                   signals>>

\* Mutant: the next session is forgotten.
WaitWithoutSession(t) ==
    /\ at[t] = "next"
    /\ at' = NewThreads([at EXCEPT ![t] = "return"],
                        IF policy = OnePerConnection THEN 1 ELSE 0)
    /\ UNCHANGED <<config, stopped, session, on, reader, slots, list, held,
                   mutex, signals>>

\* Mutant: the thread for the next connection is forgotten.
WaitWithoutThread(t) ==
    /\ at[t] = "next"
    /\ session' = NewSession(session)
    /\ at' = [at EXCEPT ![t] = "return"]
    /\ UNCHANGED <<config, stopped, on, reader, slots, list, held, mutex,
                   signals>>

\* wait_next_connection creates the next session and perhaps its thread.
WaitNextConnection(t) ==
    /\ at[t] = "next"
    /\ session' = NewSession(session)
    /\ at' = NewThreads([at EXCEPT ![t] = "return"],
                        IF policy = OnePerConnection THEN 1 ELSE 0)
    /\ UNCHANGED <<config, stopped, on, reader, slots, list, held, mutex,
                   signals>>

\* The handler of the session drops its pointer to the connection, outside of
\* any emission.
ReturnFromAccept(t) ==
    /\ at[t] = "return"
    /\ Goto(t, "run", 0)
    /\ UNCHANGED <<config, stopped, session, reader, slots, list, held, mutex,
                   signals>>

-----------------------------------------------------------------------------
(***************************************************************************)
(* The end of a connection.                                                *)
(***************************************************************************)

\* Mutant: the slot goes on to remove_connection without emitting disconnected.
ReadEndRemovesOnly(t, c) ==
    /\ at[t] = "run" /\ ~ stopped
    /\ reader[c] = "ended"
    /\ reader' = [reader EXCEPT ![c] = "done"]
    /\ IF c \in slots THEN Goto(t, "remove", c) ELSE UNCHANGED <<at, on>>
    /\ UNCHANGED <<config, stopped, session, slots, list, held, mutex,
                   signals>>

\* check_error emits closed; the server's slot, if it is there, emits
\* disconnected and goes on to remove_connection.
ReadEnd(t, c) ==
    /\ at[t] = "run" /\ ~ stopped
    /\ reader[c] = "ended"
    /\ reader' = [reader EXCEPT ![c] = "done"]
    /\ IF c \in slots
       THEN /\ signals' = Append(signals, <<"disconnected", c>>)
            /\ Goto(t, "remove", c)
       ELSE UNCHANGED <<signals, at, on>>
    /\ UNCHANGED <<config, stopped, session, slots, list, held, mutex>>

\* Any other error is passed on; the connection stays in the list.
ReadError(t, c) ==
    /\ at[t] = "run" /\ ~ stopped
    /\ reader[c] = "broken"
    /\ reader' = [reader EXCEPT ![c] = "lost"]
    /\ signals' = IF c \in slots THEN Append(signals, <<"error", c>>)
                                 ELSE signals
    /\ UNCHANGED <<config, stopped, session, threads, slots, list, held,
                   mutex>>

\* The handler of a cancelled read is silent.
ReadAborted(t, c) ==
    /\ at[t] = "run" /\ ~ stopped
    /\ reader[c] = "aborted"
    /\ reader' = [reader EXCEPT ![c] = "done"]
    /\ UNCHANGED <<config, stopped, session, threads, slots, list, held, mutex,
                   signals>>

\* A user takes a connection from connections() and closes it: a pending read is
\* cancelled or meets the shutdown, one that has completed is not undone, and
\* closed is emitted.  The user keeps the pointer; otherwise the read handler
\* that is still to come would run on a destroyed connection.
UserCloses(c) ==
    /\ at[User] = "user"
    /\ mutex = Free
    /\ c \in list /\ reader[c] # "handling"
    /\ IF reader[c] = "reading"
       THEN \E r \in {"aborted", "ended"} : reader' = [reader EXCEPT ![c] = r]
       ELSE UNCHANGED reader
    /\ held' = held \cup {c}
    /\ signals' = Append(signals, <<"disconnected", c>>)
    /\ Goto(User, "remove", c)
    /\ UNCHANGED <<config, stopped, session, slots, list, mutex>>

\* A package arrives and the user's slot of received closes the connection, if
\* nobody else is busy with it.
SlotCloses(t, c) ==
    /\ at[t] = "run" /\ ~ stopped
    /\ reader[c] = "reading" /\ c \in slots
    /\ \A u \in DOMAIN on : on[u] # c
    /\ reader' = [reader EXCEPT ![c] = "handling"]
    /\ signals' = Append(signals, <<"disconnected", c>>)
    /\ Goto(t, "remove", c)
    /\ UNCHANGED <<config, stopped, session, slots, list, held, mutex>>

\* Thread t has the last pointer to its connection once the list gives up its own.
HoldsLast(t) ==
    on[t] \notin held /\ \A u \in DOMAIN on \ {t} : on[u] # on[t]

\* After remove_connection the slots return.  The last pointer dies inside the
\* emission of closed or received.  If it is not the last, and the slot has
\* closed the connection, the read handler goes on to wait_package, which meets
\* a closed socket.
LeaveEmission(t) ==
    /\ IF t = User THEN Goto(t, "user", 0)
       ELSE IF HoldsLast(t) THEN Goto(t, "stuck", on[t])
       ELSE Goto(t, "run", 0)
    /\ reader' = IF reader[on[t]] = "handling" /\ ~ HoldsLast(t)
                 THEN [reader EXCEPT ![on[t]] = "broken"]
                 ELSE reader

\* Mutant: only the session leaves, the connection stays in the list.
RemoveSessionOnly(t) ==
    /\ at[t] = "remove"
    /\ mutex = Free
    /\ Goto(t, IF t = User THEN "user" ELSE "run", 0)
    /\ UNCHANGED <<config, stopped, session, reader, slots, list, held, mutex,
                   signals>>

\* Mutant: the mutex is locked and never unlocked.
RemoveKeepsMutex(t) ==
    /\ at[t] = "remove"
    /\ mutex = Free
    /\ mutex' = t
    /\ list' = list \ {on[t]}
    /\ LeaveEmission(t)
    /\ UNCHANGED <<config, stopped, session, slots, held, signals>>

\* The thread that accepted c has dropped its pointer to the session, whose
\* emission it has not yet left.
InEmission(c) == \E u \in Threads : at[u] = "next" /\ on[u] = c

\* remove_connection, under the mutex.  If the map has the last pointer to the
\* session and the session's emission is under way, its destructor must wait.
RemoveConnection(t) ==
    /\ at[t] = "remove"
    /\ mutex = Free
    /\ list' = list \ {on[t]}
    /\ IF on[t] \in list /\ InEmission(on[t])
       THEN /\ mutex' = t
            /\ Goto(t, "destroy", on[t])
            /\ UNCHANGED reader
       ELSE /\ LeaveEmission(t)
            /\ UNCHANGED mutex
    /\ UNCHANGED <<config, stopped, session, slots, held, signals>>

\* The destructor goes on when the emission has ended.
DestroySession(t) ==
    /\ at[t] = "destroy"
    /\ ~ InEmission(on[t])
    /\ mutex' = Free
    /\ LeaveEmission(t)
    /\ UNCHANGED <<config, stopped, session, slots, list, held, signals>>

-----------------------------------------------------------------------------
Handler(t) ==
    \/ \E c \in Sessions : \/ AcceptHandler(t, c) \/ Construct(t, c)
                           \/ AcceptError(t, c)
                           \/ ReadEnd(t, c) \/ ReadError(t, c)
                           \/ ReadAborted(t, c)
    \/ ConnectSlots(t) \/ AddConnection(t) \/ EmitConnected(t)
    \/ DropSession(t) \/ WaitNextConnection(t) \/ ReturnFromAccept(t)
    \/ RemoveConnection(t) \/ DestroySession(t)

Network ==
    \E c \in Sessions :
        \/ \E o \in {"accepted", "failed"} : Accept(c, o)
        \/ \E o \in {"ready", "failed"} : Handshake(c, o)
        \/ \E e \in {"ended", "broken"} : PeerEnds(c, e)

Next ==
    \/ \E p \in Policies : SetThreadPolicy(p)
    \/ \E b \in BOOLEAN : Start(b)
    \/ StartBreaksOff \/ Stop \/ Network
    \/ \E t \in Threads : Handler(t) \/ Exit(t)
    \/ RemoveConnection(User) \/ DestroySession(User)
    \/ \E c \in Sessions : UserCloses(c) \/ \E t \in Threads : SlotCloses(t, c)

Spec == Init /\ [][Next]_vars

\* Threads run what is ready and slots return.  Clients, users and the network
\* are free to do nothing.
FairSpec ==
    /\ Spec
    /\ WF_vars(\E t \in Threads : Handler(t))
    /\ \A t \in Threads : WF_vars(Exit(t))
    /\ WF_vars(RemoveConnection(User) \/ DestroySession(User))

-----------------------------------------------------------------------------
(***************************************************************************)
(* Properties.                                                             *)
(***************************************************************************)

TypeOK ==
    /\ policy \in Policies
    /\ running \in BOOLEAN /\ stopped \in BOOLEAN
    /\ starts \in 0 .. MaxStarts
    /\ session \in [Sessions -> {"none", "accepting", "accepted", "handshaking",
                                 "ready", "failed", "done", "lost"}]
    /\ at \in [Threads \cup {User} -> {"none", "run", "slots", "add", "emit",
                                       "drop", "next", "return", "remove",
                                       "destroy", "stuck", "hung", "user",
                                       "exited"}]
    /\ on \in [Threads \cup {User} -> Sessions \cup {0}]
    /\ reader \in [Sessions -> {"none", "reading", "handling", "ended", "broken",
                             "aborted", "done", "lost"}]
    /\ slots \subseteq Sessions
    /\ list \subseteq slots
    /\ held \subseteq Sessions
    /\ mutex \in Threads \cup {User, Free}
    /\ signals \in
         Seq({"connected", "disconnected", "error"} \X (Sessions \cup {0}))

Emitted(s, c) == \E k \in 1 .. Len(signals) : signals[k] = <<s, c>>

\* At most one thread has ever run the service.
OneThread == Cardinality({t \in Threads : at[t] # "none"}) <= 1

\* What the server promises about the end of a connection: once the handler that
\* saw it has emitted closed, disconnected has been emitted.
ClosedIsSignalled ==
    \A c \in Sessions : reader[c] = "done" => Emitted("disconnected", c)

\* One thread keeps this promise: no connection ends before add_connection is
\* through with it.
OneThreadSignals == OneThread => ClosedIsSignalled

\* With one thread a connection that has ended is in the list only while somebody
\* is about to remove it: the list does not keep dead connections.
EndedLeavesList ==
    OneThread =>
        \A c \in list : reader[c] = "done" =>
            \E t \in DOMAIN at : at[t] = "remove" /\ on[t] = c

\* With one thread the user hears of a connection before it hears of its end.
ConnectedComesFirst ==
    OneThread =>
        \A c \in Sessions, k \in 1 .. Len(signals) :
            signals[k] = <<"disconnected", c>>
                => \E j \in 1 .. k - 1 : signals[j] = <<"connected", c>>

Failure == \E c \in Sessions : session[c] \in {"failed", "lost"}

StartFailed == Emitted("error", 0)

\* A thread hangs in the destructor of the session of a connection that was
\* removed, by a thread that had emitted disconnected for it.
HangsInSession ==
    \E t \in Threads : at[t] = "hung" /\ Emitted("disconnected", on[t])

\* A running server listens: a session waits for a client or a thread is on its
\* way to create one.  What ends this for good is known: a failed accept or
\* handshake, and a thread that hangs in the destructor of its session, which
\* takes somebody who ends the connection while it is being announced.
KeepsListening ==
    running /\ ~ StartFailed /\ ~ Failure =>
        \/ \E c \in Sessions :
             session[c] \in {"accepting", "accepted", "handshaking", "ready"}
        \/ \E t \in Threads : at[t] \in {"slots", "add", "emit", "drop", "next"}
        \/ HangsInSession

\* A thread that runs handlers, or will again.
Serves(t) == at[t] \notin {"none", "stuck", "hung", "exited"}

\* one_per_connection: besides a serving thread for each connection in the list
\* there is one for the next, or a thread is on its way to create it.  A thread is
\* lost to the destructor of a connection only together with that connection; one
\* lost to that of a session costs the thread for the next client, never that of
\* a connection in the list.
ThreadPerConnection ==
    policy = OnePerConnection /\ running /\ ~ stopped /\ ~ StartFailed =>
        Cardinality({t \in Threads : Serves(t)})
            + Cardinality({t \in Threads : at[t] \in {"emit", "drop", "next"}})
            + Cardinality({t \in Threads : at[t] = "hung"})
            >= Cardinality(list) + 1

\* A client that has connected, and finished its handshake.
Accepted(c) == session[c] = IF Secure THEN "ready" ELSE "accepted"


\* one_per_connection keeps this promise to every client that a session accepts,
\* however many threads are lost to destructors: a thread that would be short
\* makes no session either.  A start that reported an error may have no thread.
NextClientIsConnected ==
    \A c \in Sessions :
        policy = OnePerConnection /\ Accepted(c)
            ~> Emitted("connected", c) \/ stopped \/ StartFailed

\* After stop every thread leaves the service, whatever it was doing, unless it is
\* stuck in the destructor of a connection or hangs in that of its session.
StopEndsThreads == stopped ~> \A t \in Threads : ~ Serves(t)
=============================================================================
