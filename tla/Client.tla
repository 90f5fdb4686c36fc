------------------------------- MODULE Client -------------------------------
(***************************************************************************)
(* The client: connecting, disconnecting and the thread each attempt makes *)
(* to run the service.  Attempts are numbered; session, thread, connection *)
(* and read loop of an attempt have its number.  Of a connection only the  *)
(* end of its read loop and its close are kept.                            *)
(***************************************************************************)
EXTENDS Naturals, Sequences

CONSTANTS Secure,           \* encryption is enabled
          MaxAttempts       \* bound: calls of connect on a client at rest

ASSUME ClientAssumption == Secure \in BOOLEAN /\ MaxAttempts \in Nat

Attempts == 1 .. MaxAttempts

VARIABLES
    running,    \* client::_running
    attempts,   \* number of attempts so far
    stopped,    \* the service has been stopped
    session,    \* the state of each attempt
    at, on,     \* what each thread does, and for which attempt
    reader,     \* the read loop of each connection
    conn,       \* client::_connection, the attempt it came from, 0 for none
    closed,     \* connections the user has closed
    signals     \* history: the signals emitted, with their attempt; the error
                \* of a connection is "broken", that of connecting "error"

vars == <<running, attempts, stopped, session, at, on, reader, conn, closed,
          signals>>

Init ==
    /\ running = FALSE
    /\ attempts = 0
    /\ stopped = FALSE
    /\ session = [k \in Attempts |-> "none"]
    /\ at = [t \in Attempts |-> "none"]
    /\ on = [t \in Attempts |-> 0]
    /\ reader = [k \in Attempts |-> "none"]
    /\ conn = 0
    /\ closed = {}
    /\ signals = <<>>

-----------------------------------------------------------------------------
\* try_connect for attempt k: a session that connects and a detached thread.
TryConnect(k) ==
    /\ session' = [session EXCEPT ![k] = "connecting"]
    /\ at' = [at EXCEPT ![k] = "run"]

\* connect.  It only emits error when the encryption is not in order.  A name
\* that does not resolve leaves it with an exception, after _running was set.
Connect(outcome) ==
    /\ ~ running
    /\ attempts < MaxAttempts
    /\ attempts' = attempts + 1
    /\ running' = (outcome # "insecure")
    /\ signals' = IF outcome = "insecure"
                  THEN Append(signals, <<"error", attempts'>>) ELSE signals
    /\ IF outcome = "started"
       THEN TryConnect(attempts + 1)
       ELSE UNCHANGED <<session, at>>
    /\ UNCHANGED <<stopped, on, reader, conn, closed>>

\* disconnect stops the service.  It closes nothing, and the service is not
\* reset when the client connects again.
Disconnect ==
    /\ running
    /\ running' = FALSE
    /\ stopped' = TRUE
    /\ UNCHANGED <<attempts, session, at, on, reader, conn, closed,
                   signals>>

\* What can be waiting for the session's next handler.
Outcomes == {"reached", "ready", "refused", "failed"}

Outstanding ==
    \/ \E k \in Attempts : \/ session[k] \notin {"none", "done"}
                           \/ reader[k] \notin {"none", "done"}
    \/ \E t \in Attempts : at[t] \notin {"none", "run", "exited"}

\* run returns when the service is stopped; running out of work stops it.
Exit(t) ==
    /\ at[t] = "run"
    /\ stopped \/ ~ Outstanding
    /\ stopped' = TRUE
    /\ at' = [at EXCEPT ![t] = "exited"]
    /\ UNCHANGED <<running, attempts, session, on, reader, conn, closed,
                   signals>>

-----------------------------------------------------------------------------
(***************************************************************************)
(* The network.                                                            *)
(***************************************************************************)

\* async_connect of attempt k completes ...
Answer(k, outcome) ==
    /\ session[k] = "connecting"
    /\ session' = [session EXCEPT ![k] = outcome]
    /\ UNCHANGED <<running, attempts, stopped, at, on, reader, conn, closed,
                   signals>>

\* ... and async_handshake.
Handshake(k, outcome) ==
    /\ session[k] = "handshaking"
    /\ session' = [session EXCEPT ![k] = outcome]
    /\ UNCHANGED <<running, attempts, stopped, at, on, reader, conn, closed,
                   signals>>

\* The pending read completes with the end of file or another error.
PeerEnds(k, end) ==
    /\ reader[k] = "reading"
    /\ reader' = [reader EXCEPT ![k] = end]
    /\ UNCHANGED <<running, attempts, stopped, session, at, on, conn, closed,
                   signals>>

-----------------------------------------------------------------------------
(***************************************************************************)
(* Handlers.                                                               *)
(***************************************************************************)

Goto(t, step, k) ==
    /\ at' = [at EXCEPT ![t] = step]
    /\ on' = [on EXCEPT ![t] = k]

\* client_session_ssl::connect_handler goes on to the handshake.
ConnectHandler(t, k) ==
    /\ at[t] = "run" /\ ~ stopped
    /\ Secure /\ session[k] = "reached"
    /\ session' = [session EXCEPT ![k] = "handshaking"]
    /\ UNCHANGED <<running, attempts, stopped, at, on, reader, conn, closed,
                   signals>>

ErrorSignal(outcome) == IF outcome = "refused" THEN "refused" ELSE "error"

\* Mutant: the old session of a failed attempt tries again.
ConnectErrorRepeats(t, k) ==
    /\ at[t] = "run" /\ ~ stopped
    /\ session[k] \in {"refused", "failed"}
    /\ Len(signals) < 3
    /\ session' = [session EXCEPT ![k] = "connecting"]
    /\ signals' = Append(signals, <<ErrorSignal(session[k]), k>>)
    /\ UNCHANGED <<running, attempts, stopped, at, on, reader, conn, closed>>

\* Mutant: only a refused connection is answered.
ConnectErrorSwallowed(t, k) ==
    /\ at[t] = "run" /\ ~ stopped
    /\ session[k] \in {"refused", "failed"}
    /\ session' = [session EXCEPT ![k] = "done"]
    /\ signals' = IF session[k] = "refused"
                  THEN Append(signals, <<"refused", k>>) ELSE signals
    /\ UNCHANGED <<running, attempts, stopped, at, on, reader, conn, closed>>

\* connected_handler after a failure.  _running stays set.
ConnectError(t, k) ==
    /\ at[t] = "run" /\ ~ stopped
    /\ session[k] \in {"refused", "failed"}
    /\ session' = [session EXCEPT ![k] = "done"]
    /\ signals' = Append(signals, <<ErrorSignal(session[k]), k>>)
    /\ UNCHANGED <<running, attempts, stopped, at, on, reader, conn, closed>>

\* Mutant: the completion is not consumed.
ConstructKeepsSession(t, k) ==
    /\ at[t] = "run" /\ ~ stopped
    /\ session[k] = IF Secure THEN "ready" ELSE "reached"
    /\ reader' = [reader EXCEPT ![k] = "reading"]
    /\ Goto(t, "slots", k)
    /\ UNCHANGED <<running, attempts, stopped, session, conn, closed, signals>>

\* The session's last handler makes the connection, whose constructor starts to
\* read.
Construct(t, k) ==
    /\ at[t] = "run" /\ ~ stopped
    /\ session[k] = IF Secure THEN "ready" ELSE "reached"
    /\ session' = [session EXCEPT ![k] = "done"]
    /\ reader' = [reader EXCEPT ![k] = "reading"]
    /\ Goto(t, "slots", k)
    /\ UNCHANGED <<running, attempts, stopped, conn, closed, signals>>

\* connected_handler keeps the connection, connects its slots and emits.
ConnectedHandler(t) ==
    /\ at[t] = "slots"
    /\ conn' = on[t]
    /\ signals' = Append(signals, <<"connected", on[t]>>)
    /\ Goto(t, "run", 0)
    /\ UNCHANGED <<running, attempts, stopped, session, reader, closed>>

Emitted(s, k) == \E i \in 1 .. Len(signals) : signals[i] = <<s, k>>

\* Mutant: the end of the stream is as silent as an aborted read.
ReadEndSilent(t, k) ==
    /\ at[t] = "run" /\ ~ stopped
    /\ reader[k] \in {"ended", "broken", "aborted"}
    /\ reader' = [reader EXCEPT ![k] = "done"]
    /\ signals' = IF reader[k] = "broken" /\ Emitted("connected", k)
                  THEN Append(signals, <<"broken", k>>) ELSE signals
    /\ UNCHANGED <<running, attempts, stopped, session, at, on, conn, closed>>

\* check_error emits closed or error or nothing.  The client's slots, there
\* since connected was emitted, pass it on.
ReadEnd(t, k) ==
    /\ at[t] = "run" /\ ~ stopped
    /\ reader[k] \in {"ended", "broken", "aborted"}
    /\ reader' = [reader EXCEPT ![k] = "done"]
    /\ signals' = IF reader[k] = "aborted" \/ ~ Emitted("connected", k)
                  THEN signals
                  ELSE IF reader[k] = "ended"
                  THEN Append(signals, <<"disconnected", k>>)
                  ELSE Append(signals, <<"broken", k>>)
    /\ UNCHANGED <<running, attempts, stopped, session, at, on, conn, closed>>

\* The user closes conn(): a pending read is cancelled or meets the shutdown,
\* one that has completed is not undone, and closed is emitted.
UserCloses ==
    /\ conn # 0 /\ Emitted("connected", conn)
    /\ conn \notin closed
    /\ closed' = closed \cup {conn}
    /\ IF reader[conn] = "reading"
       THEN \E r \in {"aborted", "ended"} :
              reader' = [reader EXCEPT ![conn] = r]
       ELSE UNCHANGED reader
    /\ signals' = Append(signals, <<"disconnected", conn>>)
    /\ UNCHANGED <<running, attempts, stopped, session, at, on, conn>>

-----------------------------------------------------------------------------
Handler(t) ==
    \/ \E k \in Attempts : \/ ConnectHandler(t, k) \/ ConnectError(t, k)
                           \/ Construct(t, k) \/ ReadEnd(t, k)
    \/ ConnectedHandler(t)

Next ==
    \/ \E o \in {"insecure", "unresolved", "started"} : Connect(o)
    \/ Disconnect
    \/ \E k \in Attempts :
         \/ \E o \in {"reached", "refused", "failed"} : Answer(k, o)
         \/ \E o \in {"ready", "failed"} : Handshake(k, o)
         \/ \E e \in {"ended", "broken"} : PeerEnds(k, e)
    \/ UserCloses
    \/ \E t \in Attempts : Handler(t) \/ Exit(t)

Spec == Init /\ [][Next]_vars

\* Threads run what is ready.  The network and the user may do nothing.
FairSpec ==
    Spec /\ \A t \in Attempts : WF_vars(Handler(t)) /\ WF_vars(Exit(t))

-----------------------------------------------------------------------------
(***************************************************************************)
(* Properties.                                                             *)
(***************************************************************************)

TypeOK ==
    /\ running \in BOOLEAN /\ stopped \in BOOLEAN
    /\ attempts \in 0 .. MaxAttempts
    /\ session \in [Attempts -> {"none", "connecting", "handshaking", "done"}
                                 \cup Outcomes]
    /\ at \in [Attempts -> {"none", "run", "slots", "exited"}]
    /\ on \in [Attempts -> Attempts \cup {0}]
    /\ reader \in [Attempts -> {"none", "reading", "ended", "broken", "aborted",
                                "done"}]
    /\ \A k \in Attempts : reader[k] # "none" => session[k] = "done"
    /\ conn \in Attempts \cup {0}
    /\ closed \subseteq Attempts
    /\ signals \in Seq({"connected", "disconnected", "refused", "error",
                        "broken"} \X Attempts)

\* Once the read loop of a connection has come to an end, whoever ended it, the
\* user has been told: by disconnected, or by error when the connection broke.
EndIsSignalled ==
    \A k \in Attempts :
        reader[k] = "done" => Emitted("disconnected", k) \/ Emitted("broken", k)

Answers == {"connected", "refused", "error"}

\* An attempt has at most one answer, and nothing is heard of the end of a
\* connection before connected.
AnsweredOnceAndFirst ==
    \A i, j \in 1 .. Len(signals) :
        /\ signals[i][1] \in Answers
        /\ signals[i][2] = signals[j][2]
        => i <= j /\ (signals[j][1] \in Answers => i = j)

Answered(k) == \E s \in Answers : Emitted(s, k)

\* The first attempt that gets through or fails is answered, unless the user
\* disconnects.
FirstAttemptIsAnswered ==
    running /\ attempts = 1 /\ session[1] \in Outcomes
        ~> Answered(1) \/ session[1] = "handshaking" \/ ~ running

\* A connection that the server refuses is reported, whichever attempt it is,
\* unless the user disconnects before.
RefusedIsSignalled ==
    \A k \in Attempts :
        running /\ k = attempts /\ session[k] = "refused"
            ~> Emitted("refused", k) \/ ~ running
=============================================================================
