---------------------------- MODULE TaskIoService ----------------------------
(***************************************************************************)
(* The io_service under every server and client, as asio builds it on      *)
(* Linux: the queue of task_io_service, the event its idle threads wait    *)
(* for, and the epoll reactor, which runs as a task inside the queue.      *)
(*                                                                         *)
(* One thread at a time has the task and waits in epoll_wait; the others   *)
(* wait for the event, or run handlers.  Who adds to the queue must wake   *)
(* one of them, and the count of outstanding work must never be short, or  *)
(* the service stops under its users.                                      *)
(*                                                                         *)
(* task_io_service::mutex_ is held across two steps only where the code    *)
(* goes back to the queue with it; elsewhere a critical section is a step. *)
(* Left out: timers, the optimisations for a concurrency hint of 1, poll,  *)
(* and registration: descriptors are registered from the beginning, and    *)
(* the state of one that has been deregistered is not used for another.    *)
(* In the code it may be before the first is out of epoll, and one         *)
(* epoll_wait then links that state twice.                                 *)
(***************************************************************************)
EXTENDS Naturals, Sequences, FiniteSets, SequencesExt, Functions

CONSTANTS Ops,          \* the asynchronous operations, each started once
          Descriptor,   \* the descriptor each belongs to
          Kind,         \* "accept", "read" or "write"
          Starts,       \* pairs of who, an operation's handler or User, starts what
          Closes,       \* pairs of who closes which descriptor
          Threads,      \* threads that call run
          User,         \* a thread that does not
          Free,         \* mutex_ is not held
          Interrupter   \* the reactor's own descriptor

Descriptors == {Descriptor[h] : h \in Ops}

ASSUME ServiceAssumption ==
    /\ IsFiniteSet(Ops) /\ IsFiniteSet(Threads)
    /\ Kind \in [Ops -> {"accept", "read", "write"}]
    /\ Starts \subseteq (Ops \cup {User}) \X Ops
    /\ Closes \subseteq (Ops \cup {User}) \X Descriptors
    /\ User \notin Threads \cup Ops /\ Free \notin Threads
    /\ Interrupter \notin Descriptors

VARIABLES
    queue,      \* op_queue_
    mutex,      \* who has kept mutex_
    work,       \* outstanding_work_
    stopped,    \* stopped_
    signalled,  \* the event's flag (bit 0 of state_)
    woken,      \* waiting threads that pthread_cond_wait is about to release
    interrupted,\* task_interrupted_
    events,     \* descriptors with an event epoll has not delivered
    closed,     \* descriptors that have been deregistered
    closing,    \* the descriptor each thread has yet to close, if any
    able,       \* operations whose system call would succeed
    op,         \* the state of each operation
    at,         \* what each thread does
    job,        \* the queue's element a thread has taken
    push,       \* what a thread is about to put into the queue
    private,    \* private_op_queue
    credit      \* private_outstanding_work

queueVars == <<queue, mutex>>
wakeVars == <<signalled, woken, interrupted>>
ioVars == <<closed, closing, able>>
threadVars == <<at, job, push, private, credit>>
vars == <<queueVars, work, stopped, wakeVars, events, ioVars, op, threadVars>>

\* Elements of the queue: the task, operations that have completed, and
\* descriptors with the operations their events allow.
Task == <<"task">>
Completed(h) == <<"op", h>>
Io(d, ready) == <<"io", d, ready>>

OpsOf(d) == {h \in Ops : Descriptor[h] = d}

\* The reactor leaves its interrupter readable, so the first epoll_wait returns.
InitReactor ==
    /\ events = {Interrupter} /\ closed = {}
    /\ closing = [t \in Threads \cup {User} |-> {}]

\* The task is queued and one thread is woken for it.
InitTask == queue = <<Task>> /\ signalled = TRUE /\ interrupted = TRUE

Init ==
    /\ InitReactor
    /\ InitTask
    /\ mutex = Free
    /\ work = 0
    /\ stopped = FALSE
    /\ woken = {}
    /\ able = {}
    /\ op = [h \in Ops |-> "none"]
    /\ at = [t \in Threads \cup {User} |-> IF t = User THEN "user" ELSE "out"]
    /\ job = [t \in Threads |-> Task]
    /\ push = [t \in Threads \cup {User} |-> <<>>]
    /\ private = [t \in Threads |-> <<>>]
    /\ credit = [t \in Threads |-> 0]

Goto(t, place) == at' = [at EXCEPT ![t] = place]

-----------------------------------------------------------------------------
(***************************************************************************)
(* Waking.  The thread t that acts is awake, whatever woke it.             *)
(***************************************************************************)

Waiting(t) == {s \in Threads \ {t} : at[s] = "wait"}

\* pthread_cond_signal releases one waiter, if there is one still asleep.
SignalOne(t) ==
    LET ready == woken \ {t}
        asleep == Waiting(t) \ ready
    IN  IF asleep = {} THEN woken' = ready
                       ELSE \E s \in asleep : woken' = ready \cup {s}

Interrupt ==
    /\ interrupted' = TRUE
    /\ events' = IF interrupted THEN events ELSE events \cup {Interrupter}

\* wake_one_thread_and_unlock: an idle thread, or else the one in epoll_wait.
WakeOne(t) ==
    /\ signalled' = TRUE
    /\ IF Waiting(t) # {}
       THEN SignalOne(t) /\ UNCHANGED <<interrupted, events>>
       ELSE Interrupt /\ woken' = woken \ {t}

WakeNobody(t) ==
    /\ woken' = woken \ {t}
    /\ UNCHANGED <<signalled, interrupted, events>>

\* stop_all_threads.
StopAll ==
    /\ stopped' = TRUE
    /\ signalled' = TRUE
    /\ woken' = {s \in Threads : at[s] = "wait"}
    /\ Interrupt

-----------------------------------------------------------------------------
(***************************************************************************)
(* run and do_run_one.                                                     *)
(***************************************************************************)

\* run: nothing to do means stop.
Enter(t) ==
    /\ at[t] = "out"
    /\ Goto(t, IF work = 0 THEN "quit" ELSE "loop")
    /\ UNCHANGED <<queueVars, work, stopped, wakeVars, events, ioVars, op, job,
                   push, private, credit>>

\* stop, called by run itself or by work_finished.
StopService(t) ==
    /\ at[t] \in {"quit", "finished"}
    /\ mutex = Free
    /\ StopAll
    /\ Goto(t, IF at[t] = "quit" THEN "left" ELSE "loop")
    /\ UNCHANGED <<queueVars, work, ioVars, op, job, push, private, credit>>

\* The thread has mutex_ and is at the loop condition of do_run_one, coming from
\* outside or from the event's wait.
Looping(t) ==
    /\ mutex \in {Free, t}
    /\ \/ at[t] = "loop"
       \/ at[t] = "wait" /\ t \in woken /\ signalled

Leave(t) ==
    /\ Looping(t)
    /\ stopped
    /\ mutex' = Free
    /\ woken' = woken \ {t}
    /\ Goto(t, "left")
    /\ UNCHANGED <<queue, work, stopped, signalled, interrupted, events, ioVars,
                   op, job, push, private, credit>>

Wait(t) ==
    /\ Looping(t)
    /\ ~ stopped
    /\ queue = <<>>
    /\ mutex' = Free
    /\ signalled' = FALSE
    /\ woken' = woken \ {t}
    /\ Goto(t, "wait")
    /\ UNCHANGED <<queue, work, stopped, interrupted, events, ioVars, op, job,
                   push, private, credit>>

\* pthread_cond_wait may return without a signal; if the flag is down as well,
\* the thread is back in it before anyone can tell.
WakeSpuriously(t) ==
    /\ at[t] = "wait" /\ t \notin woken
    /\ signalled
    /\ woken' = woken \cup {t}
    /\ UNCHANGED <<queueVars, work, stopped, signalled, interrupted, events,
                   ioVars, op, threadVars>>

\* The loop around it, when the flag has been lowered since the signal.
WaitAgain(t) ==
    /\ at[t] = "wait" /\ t \in woken
    /\ mutex = Free
    /\ ~ signalled
    /\ woken' = woken \ {t}
    /\ UNCHANGED <<queueVars, work, stopped, signalled, interrupted, events,
                   ioVars, op, threadVars>>

Pop ==
    /\ ~ stopped
    /\ queue # <<>>
    /\ queue' = Tail(queue)
    /\ mutex' = Free

More == Len(queue) > 1

\* The thread becomes the one in epoll_wait, which blocks unless there is more.
PickTask(t) ==
    /\ Looping(t)
    /\ Pop /\ Head(queue) = Task
    /\ interrupted' = More
    /\ IF More THEN SignalOne(t) /\ signalled' = TRUE
               ELSE woken' = woken \ {t} /\ UNCHANGED signalled
    /\ Goto(t, IF More THEN "poll" ELSE "block")
    /\ UNCHANGED <<work, stopped, events, ioVars, op, job, push, private, credit>>

\* A handler may take its time, so the thread passes on that there is more.
TakeHandler(t) ==
    /\ job' = [job EXCEPT ![t] = Head(queue)]
    /\ IF Head(queue)[1] = "op"
       THEN op' = [op EXCEPT ![Head(queue)[2]] = "running"] /\ Goto(t, "run")
       ELSE UNCHANGED op /\ Goto(t, "io")

\* Mutant: it does not.
PickHandlerAlone(t) ==
    /\ Looping(t)
    /\ Pop /\ Head(queue) # Task
    /\ WakeNobody(t)
    /\ TakeHandler(t)
    /\ UNCHANGED <<work, stopped, ioVars, push, private, credit>>

PickHandler(t) ==
    /\ Looping(t)
    /\ Pop /\ Head(queue) # Task
    /\ IF More THEN WakeOne(t) ELSE WakeNobody(t)
    /\ TakeHandler(t)
    /\ UNCHANGED <<work, stopped, ioVars, push, private, credit>>

\* epoll_reactor::run: an event is delivered once, with what is possible now.
Poll(t) ==
    /\ \/ at[t] = "poll"
       \/ at[t] = "block" /\ events # {}
    /\ \E order \in SetToSeqs(events \ {Interrupter}) :
         private' = [private EXCEPT ![t] =
             [k \in 1 .. Len(order) |-> Io(order[k], able \cap OpsOf(order[k]))]]
    /\ events' = {}
    /\ Goto(t, "polled")
    /\ UNCHANGED <<queueVars, work, stopped, wakeVars, ioVars, op, job, push,
                   credit>>

\* Mutant: the task goes back to the queue before the descriptors.
TaskCleanupFirst(t) ==
    /\ at[t] = "polled"
    /\ mutex = Free
    /\ mutex' = t
    /\ interrupted' = TRUE
    /\ queue' = Append(queue, Task) \o private[t]
    /\ private' = [private EXCEPT ![t] = <<>>]
    /\ Goto(t, "loop")
    /\ UNCHANGED <<work, stopped, signalled, woken, events, ioVars, op, job,
                   push, credit>>

\* task_cleanup: the descriptors and behind them the task, keeping mutex_.
TaskCleanup(t) ==
    /\ at[t] = "polled"
    /\ mutex = Free
    /\ mutex' = t
    /\ interrupted' = TRUE
    /\ queue' = Append(queue \o private[t], Task)
    /\ private' = [private EXCEPT ![t] = <<>>]
    /\ Goto(t, "loop")
    /\ UNCHANGED <<work, stopped, signalled, woken, events, ioVars, op, job,
                   push, credit>>

-----------------------------------------------------------------------------
(***************************************************************************)
(* Running an element of the queue.                                        *)
(***************************************************************************)

\* Writing first; the order among several of one kind does not matter here.
WritesFirst(due) ==
    LET writes == {h \in due : Kind[h] = "write"}
    IN  SetToSeq(writes) \o SetToSeq(due \ writes)

\* Mutant: whatever the event is, all that wait are taken to have completed.
PerformedAll(d, ready) ==
    WritesFirst({h \in OpsOf(d) : op[h] = "pending"})

\* The operations on d that wait for one of the events in ready.
Performed(d, ready) ==
    WritesFirst({h \in OpsOf(d) \cap ready : op[h] = "pending"})

\* Mutant: the decrement that follows is not made up for.
PerformNothingUncounted(t) ==
    /\ at[t] = "io"
    /\ Performed(job[t][2], job[t][3]) = <<>>
    /\ Goto(t, "cleanup")
    /\ UNCHANGED <<queueVars, work, stopped, wakeVars, events, ioVars, op, job,
                   push, private, credit>>

\* descriptor_state::do_complete, where no operation completes: the decrement
\* that follows is made up for.
PerformNothing(t) ==
    /\ at[t] = "io"
    /\ Performed(job[t][2], job[t][3]) = <<>>
    /\ work' = work + 1
    /\ Goto(t, "cleanup")
    /\ UNCHANGED <<queueVars, stopped, wakeVars, events, ioVars, op, job, push,
                   private, credit>>

\* The first operation that completes has its handler run here, the others go to
\* the queue.
PerformIo(t) ==
    /\ at[t] = "io"
    /\ LET done == Performed(job[t][2], job[t][3])
           others == Tail(done)
       IN  /\ done # <<>>
           /\ op' = [h \in Ops |-> CASE h = done[1] -> "running"
                                      [] h \in Range(others) -> "ready"
                                      [] OTHER -> op[h]]
           /\ job' = [job EXCEPT ![t] = Completed(done[1])]
           /\ push' = [push EXCEPT ![t] =
                         [k \in 1 .. Len(others) |-> Completed(others[k])]]
           /\ Goto(t, IF others = <<>> THEN "run" ELSE "push")
    /\ UNCHANGED <<queueVars, work, stopped, wakeVars, events, ioVars, private,
                   credit>>

\* Where a handler or the user goes on.
Outside(t) == IF t = User THEN "user" ELSE "run"

\* post_immediate_completion and post_deferred_completions, past the counting.
Push(t) ==
    /\ at[t] = "push"
    /\ mutex = Free
    /\ queue' = queue \o push[t]
    /\ push' = [push EXCEPT ![t] = <<>>]
    /\ WakeOne(t)
    /\ Goto(t, IF closing[t] = {} THEN Outside(t) ELSE "shut")
    /\ UNCHANGED <<mutex, work, stopped, ioVars, op, job, private, credit>>

\* The handler returns, and work_cleanup counts: one down for it, and one up for
\* each completion in the private queue.
Return(t) ==
    /\ at[t] \in {"run", "cleanup"}
    /\ op' = [h \in Ops |-> IF job[t] = Completed(h) THEN "done" ELSE op[h]]
    /\ job' = [job EXCEPT ![t] = Task]
    /\ work' = work + credit[t] - 1
    /\ credit' = [credit EXCEPT ![t] = 0]
    /\ Goto(t, CASE credit[t] > 0 -> "flush"
                 [] credit[t] = 0 /\ work = 1 -> "finished"
                 [] OTHER -> "loop")
    /\ UNCHANGED <<queueVars, stopped, wakeVars, events, ioVars, push, private>>

\* The private queue becomes public, and the thread keeps mutex_ for it.
Flush(t) ==
    /\ at[t] = "flush"
    /\ mutex = Free
    /\ mutex' = t
    /\ queue' = queue \o private[t]
    /\ private' = [private EXCEPT ![t] = <<>>]
    /\ Goto(t, "loop")
    /\ UNCHANGED <<work, stopped, wakeVars, events, ioVars, op, job, push, credit>>

-----------------------------------------------------------------------------
(***************************************************************************)
(* What handlers and users do.                                             *)
(***************************************************************************)

Actor(t) == IF t = User THEN User ELSE job[t][2]
May(t, h) == at[t] = Outside(t) /\ <<Actor(t), h>> \in Starts /\ op[h] = "none"

\* Accepting is left to the reactor; reads and writes are tried at once.
Speculative(h) == Kind[h] # "accept"

\* epoll_reactor::start_op, where the operation completes at once.  cont tells
\* whether it continues the one whose handler runs, and then it stays with this
\* thread; start_accept_op swaps two arguments and always says so.
StartCompletes(t, h, cont) ==
    /\ May(t, h)
    /\ \/ Descriptor[h] \in closed
       \/ h \in able /\ Speculative(h)
    /\ Kind[h] = "accept" => cont
    /\ op' = [op EXCEPT ![h] = "ready"]
    /\ IF cont /\ t # User
       THEN /\ credit' = [credit EXCEPT ![t] = @ + 1]
            /\ private' = [private EXCEPT ![t] = Append(@, Completed(h))]
            /\ UNCHANGED <<work, at, push>>
       ELSE /\ work' = work + 1
            /\ push' = [push EXCEPT ![t] = <<Completed(h)>>]
            /\ Goto(t, "push")
            /\ UNCHANGED <<credit, private>>
    /\ UNCHANGED <<queueVars, stopped, wakeVars, events, ioVars, job>>

\* What could be done on d and has not been.
Possible(d) == {h \in OpsOf(d) \cap able : op[h] \in {"none", "pending"}}

\* Mutant: the registration is not renewed.
StartWaitsUnarmed(t, h) ==
    /\ May(t, h)
    /\ Descriptor[h] \notin closed
    /\ ~ (h \in able /\ Speculative(h))
    /\ op' = [op EXCEPT ![h] = "pending"]
    /\ work' = work + 1
    /\ UNCHANGED <<queueVars, stopped, wakeVars, events, ioVars, threadVars>>

\* start_op, where it has to wait.  Epoll tells only of changes, so what was not
\* tried has the registration renewed, and so has a write that was tried: both
\* get a new event for what has become possible before.
StartWaits(t, h) ==
    /\ May(t, h)
    /\ Descriptor[h] \notin closed
    /\ ~ (h \in able /\ Speculative(h))
    /\ op' = [op EXCEPT ![h] = "pending"]
    /\ work' = work + 1
    /\ events' = IF Kind[h] # "read" /\ Possible(Descriptor[h]) # {}
                 THEN events \cup {Descriptor[h]} ELSE events
    /\ UNCHANGED <<queueVars, stopped, wakeVars, ioVars, threadVars>>

\* deregister_descriptor cancels what is pending.  The descriptor stays in epoll
\* until it is closed.
Close(t, d) ==
    /\ at[t] = Outside(t)
    /\ <<Actor(t), d>> \in Closes
    /\ d \notin closed
    /\ closed' = closed \cup {d}
    /\ closing' = [closing EXCEPT ![t] = {d}]
    /\ LET pending == {h \in OpsOf(d) : op[h] = "pending"}
       IN  /\ op' = [h \in Ops |-> IF h \in pending THEN "ready" ELSE op[h]]
           /\ \E order \in SetToSeqs(pending) :
                push' = [push EXCEPT ![t] =
                           [k \in 1 .. Len(order) |-> Completed(order[k])]]
           /\ Goto(t, IF pending = {} THEN "shut" ELSE "push")
    /\ UNCHANGED <<queueVars, work, stopped, wakeVars, events, able, job, private,
                   credit>>

\* socket_ops::close, after which epoll knows the descriptor no more.
Shut(t) ==
    /\ at[t] = "shut"
    /\ events' = events \ closing[t]
    /\ closing' = [closing EXCEPT ![t] = {}]
    /\ Goto(t, Outside(t))
    /\ UNCHANGED <<queueVars, work, stopped, wakeVars, closed, able, op, job, push,
                   private, credit>>

Stop ==
    /\ at[User] = "user"
    /\ mutex = Free
    /\ StopAll
    /\ UNCHANGED <<queueVars, work, ioVars, op, threadVars>>

\* The descriptors epoll knows.
Watched ==
    (Descriptors \ closed) \cup UNION {closing[t] : t \in Threads \cup {User}}

\* The peer or the network makes an operation possible.  epoll watches for
\* writing only from the first write that had to wait.
BecomeAble(h) ==
    /\ h \notin able
    /\ Descriptor[h] \in Watched
    /\ able' = able \cup {h}
    /\ events' = IF Kind[h] # "write" \/ op[h] # "none"
                 THEN events \cup {Descriptor[h]} ELSE events
    /\ UNCHANGED <<queueVars, work, stopped, wakeVars, closed, closing, op, threadVars>>

-----------------------------------------------------------------------------
Step(t) ==
    \/ Enter(t) \/ StopService(t) \/ Leave(t) \/ Wait(t) \/ WaitAgain(t)
    \/ PickTask(t) \/ PickHandler(t) \/ Poll(t) \/ TaskCleanup(t)
    \/ PerformNothing(t) \/ PerformIo(t) \/ Push(t) \/ Shut(t) \/ Return(t)
    \/ Flush(t)

Optional(t) ==
    \/ \E h \in Ops : \/ \E cont \in BOOLEAN : StartCompletes(t, h, cont)
                      \/ StartWaits(t, h)
    \/ \E d \in Descriptors : Close(t, d)

Next ==
    \/ \E t \in Threads : Step(t) \/ WakeSpuriously(t)
    \/ Push(User) \/ Shut(User)
    \/ \E t \in Threads \cup {User} : Optional(t)
    \/ Stop
    \/ \E h \in Ops : BecomeAble(h)

Spec == Init /\ [][Next]_vars

-----------------------------------------------------------------------------
(***************************************************************************)
(* Properties.                                                             *)
(***************************************************************************)

Elements ==
    {Task} \cup {Completed(h) : h \in Ops}
           \cup {Io(d, ready) : d \in Descriptors, ready \in SUBSET Ops}

TypeOK ==
    /\ queue \in Seq(Elements)
    /\ mutex \in Threads \cup {Free}
    /\ work \in Nat
    /\ stopped \in BOOLEAN /\ signalled \in BOOLEAN /\ interrupted \in BOOLEAN
    /\ woken \subseteq {t \in Threads : at[t] = "wait"}
    /\ events \subseteq Descriptors \cup {Interrupter}
    /\ closed \subseteq Descriptors
    /\ closing \in [Threads \cup {User} -> SUBSET closed]
    /\ able \subseteq Ops
    /\ op \in [Ops -> {"none", "pending", "ready", "running", "done"}]
    /\ at \in [Threads \cup {User} ->
                 {"user", "out", "quit", "loop", "wait", "poll", "block",
                  "polled", "io", "push", "shut", "run", "cleanup", "finished",
                  "flush", "left"}]
    /\ job \in [Threads -> Elements]
    /\ push \in [Threads \cup {User} -> Seq(Elements)]
    /\ private \in [Threads -> Seq(Elements)]
    /\ credit \in [Threads -> Nat]

\* What started in a handler, completed at once and is still to be counted.
Uncounted == UNION {{t} \X (1 .. credit[t]) : t \in Threads}

\* The count of outstanding work is exact at every step: what has been started
\* and has not returned, the decrements still to come, and nothing else.  It
\* never reaches 0 under an operation that waits.
WorkIsCounted ==
    work + Cardinality(Uncounted) =
        Cardinality({h \in Ops : op[h] \in {"pending", "ready", "running"}})
          + Cardinality({t \in Threads : at[t] = "cleanup"})

\* What the comment in epoll_reactor::run relies on.  When a thread calls
\* epoll_wait, every descriptor that an earlier call has returned has been taken
\* from the queues, so that it may be linked into one again; and the thread alone
\* has the task.
DequeuedBeforePoll ==
    \A t \in Threads : at[t] \in {"poll", "block"} =>
        /\ \A e \in Range(queue) : e[1] = "op"
        /\ \A s \in Threads : \A e \in Range(private[s]) : e[1] = "op"
        /\ \A s \in Threads \ {t} : at[s] \notin {"poll", "block", "polled"}

Asleep(t) ==
    \/ at[t] = "wait" /\ ~ (t \in woken /\ signalled)
    \/ at[t] = "block" /\ events = {}

OnItsWay(t) ==
    /\ ~ Asleep(t)
    /\ at[t] \notin {"out", "quit", "left", "push", "shut", "run"}

\* No wakeup is lost.  While anything is queued, the task included, and a thread
\* sleeps, another is on its way to the queue and does not run a handler, which
\* could take any time.  After stop no thread sleeps.
NoLostWakeup ==
    /\ queue # <<>> /\ (\E t \in Threads : Asleep(t))
         => \E t \in Threads : OnItsWay(t)
    /\ stopped => \A t \in Threads : ~ Asleep(t)

\* epoll tells of a change once.  An operation that waits and could complete has
\* an event that is still to be delivered, or one that has been and names it.
NoLostEvent ==
    \A h \in Ops : op[h] = "pending" /\ h \in able =>
        LET Names(e) == e[1] = "io" /\ e[2] = Descriptor[h] /\ h \in e[3]
        IN  \/ Descriptor[h] \in events
            \/ \E e \in Range(queue) : Names(e)
            \/ \E t \in Threads : \/ \E e \in Range(private[t]) : Names(e)
                                  \/ Names(job[t])

\* The service as its users know it.
Contract == INSTANCE HandlerContract WITH
    op <- [h \in Ops |-> CASE op[h] \in {"pending", "ready"} -> "started"
                           [] OTHER -> op[h]],
    able <- able \cup {h \in Ops : Descriptor[h] \in closed},
    thread <- [t \in Threads |-> CASE at[t] = "out" -> "out"
                                   [] at[t] = "left" -> "left"
                                   [] OTHER -> "in"]

\* Handlers are invoked once, by threads inside run, for operations that can
\* complete, and a thread leaves run only when the service has stopped.
KeepsContract == Contract!Spec
=============================================================================
