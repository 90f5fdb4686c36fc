--------------------------- MODULE ConnectionSend ---------------------------
(***************************************************************************)
(* The sending half of a connection: output streams, the dispatch slot     *)
(* that hands their packages over, the write handler that runs on a        *)
(* service thread, and the composed write of one frame.                    *)
(*                                                                         *)
(* Every package has an activity of its own, described by its stage: first *)
(* the thread that calls ostream::send or destroys the stream, later the   *)
(* asynchronous write and the service thread that runs its handler.  The   *)
(* activities of different packages interleave freely; only the mutex and  *)
(* the flag _socket_locked keep their writes apart.                        *)
(*                                                                         *)
(* A frame is FrameLength units: unit 1 is the size field, the others are  *)
(* the body.  The socket takes any positive number of units at a time.     *)
(***************************************************************************)
EXTENDS Naturals, Sequences, FiniteSets, Selection

CONSTANTS Packages,         \* one package per output stream
          FrameLength,      \* units of the frame of each package
          NoHolder          \* the mutex is free

ASSUME FrameAssumption == FrameLength \in [Packages -> Nat \ {0, 1}]

ASSUME HolderAssumption == NoHolder \notin Packages

VARIABLES
    sended,     \* ostream::_sended, per stream
    alive,      \* the stream has not been destroyed
    stage,      \* where the activity of the package is
    err,        \* the error code its write completed with
    sent,       \* units of its frame the socket has taken
    mutex,      \* the holder of connection::_mutex
    locked,     \* connection::_socket_locked
    packages,   \* connection::_packages, the queue
    socket,     \* "open" or "closed"
    wire,       \* all units the socket has taken: <<package, unit>>
    order,      \* history: packages in the order their dispatch took the mutex
    started,    \* history: packages in the order their write was initiated
    signals     \* history: the signals emitted by this half

vars == <<sended, alive, stage, err, sent, mutex, locked, packages, socket,
          wire, order, started, signals>>

(***************************************************************************)
(* idle       send has not been called                                     *)
(* acquire    in the dispatch slot, waiting for the mutex                  *)
(* check      in the dispatch slot, holding the mutex                      *)
(* queued     in _packages                                                 *)
(* writing    async_write is under way                                     *)
(* completed  the write has completed and its handler has not run          *)
(* handler    in the write handler after check_error, waiting for mutex    *)
(* pop        in the write handler, holding the mutex                      *)
(* done       the handler has returned                                     *)
(***************************************************************************)
Stage == {"idle", "acquire", "check", "queued", "writing", "completed",
          "handler", "pop", "done"}

\* The classes of error codes check_error tells apart on this half: none,
\* operation_aborted and every other one.
Errors == {"none", "aborted", "other"}

\* Stages in which the package owns the socket's write side.
Writing == {"writing", "completed", "handler", "pop"}

Busy == {p \in Packages : stage[p] \in Writing}

Init ==
    /\ sended = [p \in Packages |-> FALSE]
    /\ alive = [p \in Packages |-> TRUE]
    /\ stage = [p \in Packages |-> "idle"]
    /\ err = [p \in Packages |-> "none"]
    /\ sent = [p \in Packages |-> 0]
    /\ mutex = NoHolder
    /\ locked = FALSE
    /\ packages = <<>>
    /\ socket = "open"
    /\ wire = <<>>
    /\ order = <<>>
    /\ started = <<>>
    /\ signals = <<>>

-----------------------------------------------------------------------------
(***************************************************************************)
(* Output streams.                                                         *)
(***************************************************************************)

\* ostream::send: the first call hands the buffer to the dispatch slot, every
\* later one returns at once (which changes nothing and is no step here).
Send(p) ==
    /\ alive[p]
    /\ ~ sended[p]
    /\ sended' = [sended EXCEPT ![p] = TRUE]
    /\ stage' = [stage EXCEPT ![p] = "acquire"]
    /\ UNCHANGED <<alive, err, sent, mutex, locked, packages, socket, wire,
                   order, started, signals>>

\* ostream::~ostream calls send.  The thread that owns the stream destroys it,
\* so it is not inside an earlier call of send.
Destroy(p) ==
    /\ alive[p]
    /\ stage[p] \notin {"acquire", "check"}
    /\ alive' = [alive EXCEPT ![p] = FALSE]
    /\ sended' = [sended EXCEPT ![p] = TRUE]
    /\ stage' = IF sended[p] THEN stage ELSE [stage EXCEPT ![p] = "acquire"]
    /\ UNCHANGED <<err, sent, mutex, locked, packages, socket, wire, order,
                   started, signals>>

-----------------------------------------------------------------------------
(***************************************************************************)
(* The dispatch slot: take the mutex, then queue the package or write it.  *)
(***************************************************************************)

Acquire(p) ==
    /\ stage[p] = "acquire"
    /\ mutex = NoHolder
    /\ mutex' = p
    /\ stage' = [stage EXCEPT ![p] = "check"]
    /\ order' = Append(order, p)
    /\ UNCHANGED <<sended, alive, err, sent, locked, packages, socket, wire,
                   started, signals>>

Enqueue(p) ==
    /\ stage[p] = "check"
    /\ locked
    /\ packages' = Append(packages, p)
    /\ stage' = [stage EXCEPT ![p] = "queued"]
    /\ mutex' = NoHolder
    /\ UNCHANGED <<sended, alive, err, sent, locked, socket, wire, order,
                   started, signals>>

\* send_package(q), called with the mutex held by an activity that continues
\* as rest describes.  A write initiated on a closed socket completes at once
\* with bad_descriptor.
SendPackage(q, rest) ==
    /\ locked' = TRUE
    /\ started' = Append(started, q)
    /\ stage' = [rest EXCEPT ![q] = IF socket = "open" THEN "writing"
                                                       ELSE "completed"]
    /\ err' = [err EXCEPT ![q] = IF socket = "open" THEN "none" ELSE "other"]

\* Mutant: the dispatch slot writes without testing _socket_locked.
StartWriteUntested(p) ==
    /\ stage[p] = "check"
    /\ SendPackage(p, stage)
    /\ mutex' = NoHolder
    /\ UNCHANGED <<sended, alive, sent, packages, socket, wire, order, signals>>

StartWrite(p) ==
    /\ stage[p] = "check"
    /\ ~ locked
    /\ SendPackage(p, stage)
    /\ mutex' = NoHolder
    /\ UNCHANGED <<sended, alive, sent, packages, socket, wire, order, signals>>

-----------------------------------------------------------------------------
(***************************************************************************)
(* The composed write: write_op repeats async_write_some until the whole   *)
(* frame is taken or one of them fails.                                    *)
(***************************************************************************)

\* The next n units of the frame of p.
Units(p, n) == [i \in 1 .. n |-> <<p, sent[p] + i>>]

Transfer(p, n) ==
    /\ stage[p] = "writing"
    /\ socket = "open"
    /\ n \in 1 .. FrameLength[p] - sent[p]
    /\ wire' = wire \o Units(p, n)
    /\ sent' = [sent EXCEPT ![p] = @ + n]
    /\ stage' = [stage EXCEPT ![p] = IF sent[p] + n = FrameLength[p]
                                     THEN "completed" ELSE "writing"]
    /\ UNCHANGED <<sended, alive, err, mutex, locked, packages, socket, order,
                   started, signals>>

\* Mutant: a failed write reports the end of the stream.
WriteFailsWithEof(p) ==
    /\ stage[p] = "writing"
    /\ err' = [err EXCEPT ![p] = "eof"]
    /\ stage' = [stage EXCEPT ![p] = "completed"]
    /\ UNCHANGED <<sended, alive, sent, mutex, locked, packages, socket, wire,
                   order, started, signals>>

\* The peer has gone or the network is down: reset, broken pipe, timeout.
WriteFails(p) ==
    /\ stage[p] = "writing"
    /\ err' = [err EXCEPT ![p] = "other"]
    /\ stage' = [stage EXCEPT ![p] = "completed"]
    /\ UNCHANGED <<sended, alive, sent, mutex, locked, packages, socket, wire,
                   order, started, signals>>

\* connection::close, called by any thread and without the mutex: it shuts the
\* socket down, closes it and emits closed.  A write under way is cancelled with
\* operation_aborted, or fails with another code when it meets the shutdown
\* or the invalid descriptor first.  A call whose shutdown fails, because
\* the socket is closed already or the peer has reset it, throws and changes
\* nothing.
Close ==
    /\ socket = "open"
    /\ socket' = "closed"
    /\ signals' = Append(signals, "closed")
    /\ \E e \in {"aborted", "other"} :
         /\ stage' = [p \in Packages |->
                        IF stage[p] = "writing" THEN "completed" ELSE stage[p]]
         /\ err' = [p \in Packages |->
                        IF stage[p] = "writing" THEN e ELSE err[p]]
    /\ UNCHANGED <<sended, alive, sent, mutex, locked, packages, wire, order,
                   started>>

-----------------------------------------------------------------------------
(***************************************************************************)
(* The write handler of send_package, run by a service thread.             *)
(***************************************************************************)

\* Mutant: a failed write resets _socket_locked.
CheckWriteErrorUnlocks(p) ==
    /\ stage[p] = "completed"
    /\ stage' = [stage EXCEPT ![p] = IF err[p] = "none" THEN "handler"
                                                        ELSE "done"]
    /\ signals' = IF err[p] = "other" THEN Append(signals, "error")
                                      ELSE signals
    /\ locked' = (locked /\ err[p] = "none")
    /\ UNCHANGED <<sended, alive, err, sent, mutex, packages, socket, wire,
                   order, started>>

\* Mutant: the handler goes on after an error.
CheckWriteErrorGoesOn(p) ==
    /\ stage[p] = "completed"
    /\ stage' = [stage EXCEPT ![p] = "handler"]
    /\ signals' = IF err[p] = "other" THEN Append(signals, "error")
                                      ELSE signals
    /\ UNCHANGED <<sended, alive, err, sent, mutex, locked, packages, socket,
                   wire, order, started>>

\* check_error: an aborted write is silent, every other failure emits error;
\* after either the handler returns and leaves _socket_locked and _packages
\* as they are.
CheckWriteError(p) ==
    /\ stage[p] = "completed"
    /\ stage' = [stage EXCEPT ![p] = IF err[p] = "none" THEN "handler"
                                                        ELSE "done"]
    /\ signals' = IF err[p] = "other" THEN Append(signals, "error")
                                      ELSE signals
    /\ UNCHANGED <<sended, alive, err, sent, mutex, locked, packages, socket,
                   wire, order, started>>

HandlerLock(p) ==
    /\ stage[p] = "handler"
    /\ mutex = NoHolder
    /\ mutex' = p
    /\ stage' = [stage EXCEPT ![p] = "pop"]
    /\ UNCHANGED <<sended, alive, err, sent, locked, packages, socket, wire,
                   order, started, signals>>

\* Mutant: the queue is used as a stack.
PopNextLast(p) ==
    /\ stage[p] = "pop"
    /\ packages # <<>>
    /\ packages' = SubSeq(packages, 1, Len(packages) - 1)
    /\ SendPackage(packages[Len(packages)], [stage EXCEPT ![p] = "done"])
    /\ mutex' = NoHolder
    /\ UNCHANGED <<sended, alive, sent, socket, wire, order, signals>>

\* The queue is not empty: its front is written next.
PopNext(p) ==
    /\ stage[p] = "pop"
    /\ packages # <<>>
    /\ packages' = Tail(packages)
    /\ SendPackage(Head(packages), [stage EXCEPT ![p] = "done"])
    /\ mutex' = NoHolder
    /\ UNCHANGED <<sended, alive, sent, socket, wire, order, signals>>

\* Mutant: the handler does not look at the queue.
UnlockUntested(p) ==
    /\ stage[p] = "pop"
    /\ locked' = FALSE
    /\ stage' = [stage EXCEPT ![p] = "done"]
    /\ mutex' = NoHolder
    /\ UNCHANGED <<sended, alive, err, sent, packages, socket, wire, order,
                   started, signals>>

\* Mutant: _socket_locked is not reset.
UnlockForgotten(p) ==
    /\ stage[p] = "pop"
    /\ packages = <<>>
    /\ stage' = [stage EXCEPT ![p] = "done"]
    /\ mutex' = NoHolder
    /\ UNCHANGED <<sended, alive, err, sent, locked, packages, socket, wire,
                   order, started, signals>>

Unlock(p) ==
    /\ stage[p] = "pop"
    /\ packages = <<>>
    /\ locked' = FALSE
    /\ stage' = [stage EXCEPT ![p] = "done"]
    /\ mutex' = NoHolder
    /\ UNCHANGED <<sended, alive, err, sent, packages, socket, wire, order,
                   started, signals>>

-----------------------------------------------------------------------------
\* Steps of threads that are inside the library; they do not stop half way.
Progress(p) ==
    \/ Acquire(p) \/ Enqueue(p) \/ StartWrite(p)
    \/ \E n \in 1 .. FrameLength[p] : Transfer(p, n)
    \/ CheckWriteError(p) \/ HandlerLock(p) \/ PopNext(p) \/ Unlock(p)

Next ==
    \/ Close
    \/ \E p \in Packages : Send(p) \/ Destroy(p) \/ WriteFails(p) \/ Progress(p)

Spec == Init /\ [][Next]_vars

\* Service threads keep running handlers, a thread that waits for the mutex
\* gets it, and a peer that reads lets the socket take units.  Users need not
\* send, destroy or close anything, and writes need not fail.
FairSpec == Spec /\ \A p \in Packages : WF_vars(Progress(p))

-----------------------------------------------------------------------------
(***************************************************************************)
(* Properties.                                                             *)
(***************************************************************************)

TypeOK ==
    /\ sended \in [Packages -> BOOLEAN]
    /\ alive \in [Packages -> BOOLEAN]
    /\ stage \in [Packages -> Stage]
    /\ err \in [Packages -> Errors]
    /\ sent \in [Packages -> Nat]
    /\ mutex \in Packages \cup {NoHolder}
    /\ locked \in BOOLEAN
    /\ packages \in Seq(Packages)
    /\ socket \in {"open", "closed"}
    /\ wire \in Seq(Packages \X Nat)
    /\ order \in Seq(Packages)
    /\ started \in Seq(Packages)
    /\ signals \in Seq({"closed", "error"})

\* asio allows one composed write per stream at a time.  However many threads
\* send, and whichever handlers run meanwhile, at most one package is between
\* the initiation of its write and the end of its write handler.
OneWriteInFlight ==
    \A p, q \in Packages : p \in Busy /\ q \in Busy => p = q

\* The package whose dispatch slot has the mutex and has not queued or written
\* it yet, as a sequence.
Dispatching ==
    IF \E p \in Packages : stage[p] = "check" THEN <<mutex>> ELSE <<>>

\* No package is lost, duplicated or overtaken between the dispatch slot and
\* the socket: the packages in the order of their dispatch are those whose
\* write was initiated, then those in the queue, then the one being dispatched.
NothingLost == order = started \o packages \o Dispatching

Failed == {p \in Packages : err[p] # "none"}

\* No lost wakeup: a package left in the queue has a write in flight whose
\* handler will pop it, unless a write has failed.
QueueIsDrained == packages # <<>> => Busy # {} \/ Failed # {}

LastUnit(u) == u[2] = FrameLength[u[1]]

\* What the receiver relies on: on the wire every unit of a frame follows its
\* predecessor directly and a frame only starts after the end of the last one.
FramesContiguous ==
    \A k \in 1 .. Len(wire) :
        IF wire[k][2] = 1
        THEN k = 1 \/ LastUnit(wire[k - 1])
        ELSE k > 1 /\ wire[k - 1] = <<wire[k][1], wire[k][2] - 1>>

\* Write failures are reported once: the lock that a failed write leaves behind
\* keeps later packages from being tried and from failing in their turn.
AtMostOneError ==
    \A j, k \in 1 .. Len(signals) :
        signals[j] = "error" /\ signals[k] = "error" => j = k

\* After a write has failed no unit ever reaches the wire again, so the peer
\* never takes the middle of a stream for the beginning of a frame.
SilentAfterFailure == [][Failed # {} => wire' = wire]_vars

\* The packages whose frame is complete on the wire.
Transmitted == Selected(started, {p \in Packages : sent[p] = FrameLength[p]})

\* The sending half implements the abstract channel: packages leave in the
\* order of their dispatch and, while nothing failed, all of them leave.
Channel == INSTANCE PackageChannel WITH
    accepted <- order,
    transmitted <- Transmitted,
    broken <- socket = "closed" \/ Failed # {}

ImplementsChannel == Channel!FairSpec
=============================================================================
