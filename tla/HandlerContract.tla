--------------------------- MODULE HandlerContract ---------------------------
(***************************************************************************)
(* What an io_service promises to those who start asynchronous operations  *)
(* and to the threads that call run.  An operation that has been started   *)
(* and can complete has its handler invoked, once, by a thread inside run; *)
(* threads leave run only after the service has stopped, and all of them.  *)
(***************************************************************************)
CONSTANTS Ops, Threads

VARIABLES
    op,         \* "none", "started", "running" (its handler) or "done"
    able,       \* operations that can complete: ready, or cancelled
    stopped,
    thread      \* "out", "in" or "left"

vars == <<op, able, stopped, thread>>

Init ==
    /\ op = [h \in Ops |-> "none"]
    /\ able = {}
    /\ stopped = FALSE
    /\ thread = [t \in Threads |-> "out"]

Start(h) ==
    /\ op[h] = "none"
    /\ op' = [op EXCEPT ![h] = "started"]
    /\ UNCHANGED <<able, stopped, thread>>

BecomeAble ==
    /\ able' \in SUBSET Ops
    /\ able \subseteq able'
    /\ UNCHANGED <<op, stopped, thread>>

\* A handler picked before the service stopped may still be invoked after it.
Invoke(h) ==
    /\ op[h] = "started" /\ h \in able
    /\ \E t \in Threads : thread[t] = "in"
    /\ op' = [op EXCEPT ![h] = "running"]
    /\ UNCHANGED <<able, stopped, thread>>

Return(h) ==
    /\ op[h] = "running"
    /\ op' = [op EXCEPT ![h] = "done"]
    /\ UNCHANGED <<able, stopped, thread>>

\* A thread that finds nothing to do stops the service and is out with it.
Stop ==
    /\ stopped' = TRUE
    /\ \/ UNCHANGED thread
       \/ \E t \in Threads : /\ thread[t] = "in"
                             /\ thread' = [thread EXCEPT ![t] = "left"]
    /\ UNCHANGED <<op, able>>

Enter(t) ==
    /\ thread[t] = "out"
    /\ thread' = [thread EXCEPT ![t] = "in"]
    /\ UNCHANGED <<op, able, stopped>>

Leave(t) ==
    /\ thread[t] = "in"
    /\ stopped
    /\ thread' = [thread EXCEPT ![t] = "left"]
    /\ UNCHANGED <<op, able, stopped>>

Next ==
    \/ \E h \in Ops : Start(h) \/ Invoke(h) \/ Return(h)
    \/ \E t \in Threads : Enter(t) \/ Leave(t)
    \/ BecomeAble
    \/ Stop

Spec == Init /\ [][Next]_vars
=============================================================================
