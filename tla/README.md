# A verification project for lnetlib

lnetlib is a C++11 library for client/server programs: packages ("streams") go
back and forth over TCP or TLS connections, and everything that happens is told
to the user by signals. It is built on asio (vendored, `src/lnetlib/lnetlib/asio/`)
and on its own signal/slot header `lsignal.h`.

This directory holds TLA+ models of the library, TLC configurations that check
them on small instances, and TLAPS proofs about both halves of a connection,
requests, the server, the mutexes, the client and the service. File names without a directory below are those of
`src/lnetlib/lnetlib/`.

## 1. Inventory

| Part | Sources | State | Operations |
|---|---|---|---|
| output stream | `ostream.*` | buffer, `_sended` | `write_*`, `send`, destruction |
| input stream | `istream.*` | buffer, command, uid | `read_*`, `create_response` |
| connection | `connection.*` | `_mutex`, `_socket_locked`, `_packages`, `_uid_counter`, `_callbacks`, the pending read and write | `create_stream`, `close`, dispatch slot, read handlers, write handler |
| socket | `socket*.{h,cpp}` | an asio socket or TLS stream | `async_read`, `async_write`, `close` |
| server | `server.*` | `_running`, `_service`, `_acceptor`, `_connections`, `_sessions`, `_mutex`, thread policy | `start`, `stop`, `connections`, `connected_handler`, the slots of each connection |
| server session | `server_session*.{h,cpp}` | acceptor, socket | accept, handshake, make the connection |
| client | `client.*` | `_running`, `_service`, `_connection`, `_session` | `connect`, `disconnect`, `connected_handler`, the slots |
| client session | `client_session*.{h,cpp}` | endpoint, socket | connect, handshake, make the connection |
| signals | `lsignal/lsignal.h` | slots, chained signals, a mutex | `connect`, `disconnect`, emission |
| encryption | `encryption.*` | an SSL context, `_last_error` | setters before start |
| service | `asio/detail/impl/task_io_service.ipp`, `epoll_reactor.ipp`, `asio/detail/posix_event.hpp` | queue of handlers, outstanding work, the event idle threads wait for, operations that wait on descriptors | `run`, `stop`, starting, completing and cancelling operations |
| TLS | `asio/ssl/` | an OpenSSL engine and its buffers | handshake, read, write |

**How they interact.** A user creates a stream from a connection, fills it and
sends (or destroys) it. The stream's signal `dispatch` calls the connection's
dispatch slot, which either starts an asynchronous write or queues the package;
the write handler starts the next write. In the other direction each connection
always has one read pending: of the 8-byte size, then of the body. The body's
handler makes an input stream and gives it to the response callback registered
under its uid, or emits `received`. The server's and the client's slots pass the
signals of a connection on to their own. All handlers run on threads that call
`run` of one service: one thread per connection, a fixed number, or the thread
that called `start`.

**What is hard.**

* *Concurrency.* `send`, `close` and `create_stream` may be called from any
  thread while handlers of the same connection run on others. The mutex covers
  the queue and the flag, not the uid counter, the callbacks or `close`.
* *Failure.* Writes fail in the middle of a frame with packages queued behind
  them; the peer stops in the middle of a frame; accept, handshake and connect
  fail.
* *Ordering.* A connection reads before anybody listens to its signals. Both
  peers number their streams alike. Callbacks are registered after creation.
* *Lifetime.* Handlers and slots hold raw pointers. The list of the server may
  have the last shared pointer to a connection and gives it up in a slot of that
  connection. A session is destroyed by whoever drops its last pointer, perhaps
  inside the emission of its own signal.
* *Waking.* Threads sleep on an event or in `epoll_wait`, which reports a change
  once; a forgotten wakeup or event leaves a completed operation waiting.
* *Restart.* The service is stopped by `stop`/`disconnect` and never reset.
* *Locks.* Emission holds the signal's mutex while slots run; the server holds
  its own one while it emits `connected`.

**What makes each part correct.** These are the aims; section 3 says which of them
the code reaches, and when. *Connection, sending:* one write at a time,
frames whole and in dispatch order, no package lost, no package stuck behind a
write that has ended, silence after a failure. *Connection, receiving:* exactly
the bodies the peer completed, and word of the end. *Requests:* each callback
called with the response to its own stream, at most once. *Server:* it keeps
accepting, announces every connection and its end in this order, forgets ended
connections, always has a thread for the next client, and its threads leave
after `stop`. *Client:* one answer to each
attempt, and word of the end of the connection. *Signals:* no deadlock. *Service:* an
operation that can complete has its handler invoked, once; the count of work is
exact; no thread sleeps while something is queued, nor after `stop`; what `epoll_wait`
returns is not in a queue any more.

## 2. Modules

| Module | Models | State | Actions |
|---|---|---|---|
| `PackageChannel` | nothing; the abstract promise of one direction | accepted, transmitted, broken | `Accept`, `Transmit`, `Break` |
| `ConnectionSend` | streams, dispatch slot, write handler, composed write, `close` | one activity per package (`stage`), `mutex`, `locked`, `packages`, `wire` | one per critical section or handler step |
| `ConnectionReceive` | read loop, `check_error`, callbacks, `close` | `stage` of the loop, `buffer`, `want`, `err`, `callbacks` | one per handler or partial read |
| `ConnectionLink` | both of the above joined by a wire | their variables | their actions |
| `RequestResponse` | uids, callbacks and responses of both peers | counters, callbacks, inboxes | `ReadCounter`, `WriteCounter`, `Register`, `Send`, `Handle`, `Respond` |
| `Server` | server, its sessions, threads of the service, the lifetime of connections and of their sessions | `policy`, sessions, threads (`at`, `on`), read loops, `list`, `held`, `mutex` | `SetThreadPolicy`, `Start`, `StartBreaksOff`, `Stop`, one per handler step |
| `ServerLocks` | mutexes of signals (those of sessions too), server and connections | `agenda` of each thread, `holder` of each mutex, `owners` of each session | one per instruction that locks, emits, connects, destroys, drops a pointer or starts an operation; one per handler and call |
| `Client` | client, its sessions, threads | attempts, threads, read loops, `conn` | `Connect`, `Disconnect`, one per handler step |
| `HandlerContract` | nothing; what a service promises to who starts operations and who calls `run` | state of each operation and thread, `able`, `stopped` | `Start`, `Invoke`, `Return`, `Enter`, `Leave`, `Stop` |
| `TaskIoService` | asio's service and epoll reactor | `queue`, `work`, the event, `events` of epoll, what each thread does | one per critical section of `do_run_one`, of the reactor and of posting |
| `Selection` | nothing; the elements of a sequence that belong to a set | | |
| `SelectionProofs` | lemmas about `Selected`, and two principles of induction | | |
| `ConnectionSendProofs`, `ConnectionReceiveProofs`, `RequestResponseProofs`, `ServerProofs`, `ServerLocksProofs`, `ClientProofs`, `TaskIoServiceProofs` | theorems about the module each is named for | | |

`MC...` modules and the `.cfg` files of the same name are the instances for TLC.
Operators whose comment begins with "Mutant:" stand for plausible mistakes in
the definition that follows them. They are not used by the specifications; each
one replaced for its original must make a property fail.

**Atomicity.** A step is a stretch of code between two points where another
thread could interfere visibly: taking the mutex, the unlocked test of the error
code, the start or completion of an asynchronous operation, the emission of a
signal. `_uid_counter++` is two steps, because nothing protects it.

**Data.** A frame is a sequence of units `<<package, k>>`. The first
`HeaderLength` ones stand for the size field, the rest for the body (8 bytes of
command, 8 of uid, payload). Sockets take and return any positive number of
units. Error codes are the classes `check_error` tells apart. In
`RequestResponse` a package has a uid and ghost fields no action looks at.

**Histories.** Variables marked "history" in the modules (`order`, `started`,
`signals`, `delivered`, `calls`, ...) record what happened. Only properties read
them, with two exceptions: in `Client` the emission of `connected` in the
history tells that the slots are there, since they are connected just before in
the same step, and a mutant bounds itself by the history's length.

### Correspondence

* `ConnectionSend`: the stages of a package follow `ostream::send` (`idle`,
  `acquire`), the dispatch slot of `connection.cpp:213-232` (`check`, then
  `queued` or `writing`), asio's `write_op` (`writing`, `completed`) and the
  write handler of `connection.cpp:180-204` (`handler`, `pop`, `done`).
  `SendPackage` is `send_package`, called from two places with the mutex held.
* `ConnectionReceive`: `StartRead` is `wait_package`/`wait_package_body`,
  `SizeHandler` and `BodyHandler`/`Dispatch`/`WaitPackage` are the two read
  handlers. A read of nothing completes at once, which is how an empty body ends
  the loop at `connection.cpp:130`.
* `Server`: a session is `accepting`, then `accepted` (and `handshaking`,
  `ready` with encryption) or `failed`, then `done` or `lost`. The thread that
  constructs a connection walks through `slots`, `add`, `emit`, `drop`, `next`, the
  parts of `connected_handler`, and `return`, where the session's handler drops
  its pointer; other threads may run handlers in between. `remove` is
  `remove_connection`, called from the closed slot. A start that finds bad
  encryption settings or cannot listen only emits `error` (`Start(FALSE)`); one whose
  session or threads cannot be created emits it with `_running` set, and leaves a
  server that has what had been created by then (`StartBreaksOff`).
  `HoldsLast` counts the pointers to a connection: the list's, those that users
  keep (`held`), and those in the frames of threads (`on`). `signal::operator()`
  takes its arguments by value and forwards them, so the pointer that was emitted
  dies in the slot. If it is the last one, `~signal` of the connection locks the
  mutex that the emission in the same thread holds, and the thread is `stuck`.
  A session has two pointers: one in `_sessions`, which is there as long as the
  connection is in `list`, and the parameter of `add_connection`, which dies in step
  `drop`, after `server::_mutex` has been released (`server.cpp:168`, `204`). Whoever
  gives up the second one destroys the session. If that is the accepting thread, it is
  inside the emission of the session's `connected` and waits for itself for ever
  (`hung`). If it is the remover, in `destroy`, it has `server::_mutex`, and waits
  until the accepting thread has left that emission (`InEmission`).
* `TaskIoService`: the places of a thread are those of `do_run_one`: at the loop's
  condition (`loop`), in the event's wait (`wait`), in `epoll_wait` without or with
  blocking (`poll`, `block`), between it and `task_cleanup` (`polled`), in
  `descriptor_state::do_complete` (`io`), in a handler (`run`), on the way to
  `post_...` (`push`), between the deregistration of a descriptor and the system's
  `close` (`shut`), in `work_cleanup` (`cleanup`, `finished`, `flush`). `mutex` is
  only kept from one step to the next where `task_cleanup` and `work_cleanup` go
  back to the loop with it. The count `work` is atomic and changes without it.
  `able` is what system calls would succeed now; `events` what epoll will report. A
  close takes up to three steps: `Close` deregisters and cancels, `Push` posts what was
  cancelled, `Shut` is `socket_ops::close`. Until then epoll knows the descriptor
  (`Watched`) and may report events of it.
* `Client`: the same for attempts; `connected_handler` is one step after the
  construction of the connection.
* `ServerLocks`: the agenda of a thread is what its call stack has still to do.
  `Emit` puts the body of the slots (`Body`) in front, followed by the unlock; the
  mutex is therefore held while slots run, as the `lock_guard` of
  `lsignal.h:376` does. The server's `connected_handler` (`Admit`), `closed_slot`,
  `add_connection` and `remove_connection` are agendas; the user's slot may make one
  call from a table. `owners` are the pointers to a session; `Release` drops one, and
  after the last `DestroySession` locks the session's mutex, as `~signal` does. A
  thread that does this inside the session's own emission is `Trapped`.
  The table (`UserMay`) is a condition on users that no document states: while
  `connected` is emitted nothing that needs `server::_mutex` (`connections`, and
  `close`, whose slots remove the connection), while `disconnected` is emitted no
  `close`. Any of these three makes a thread wait for itself.

## 3. Runs

| Run | Instance | Shows |
|---|---|---|
| `connection_send` | 3 packages, frames of 2, 2 and 3 units, under fairness | the safety properties of section 1, and that the sending half implements `PackageChannel`, liveness included |
| `connection_receive` | 3 packages, one with an empty body, 2-unit size field, 2 local streams | exact bodies whatever the cuts; the end is signalled; what arrives is delivered |
| `connection_link` | 2 packages, under fairness | end to end: `PackageChannel` again, a close reaches the other side |
| `request_response` | 3 streams by one thread of one peer, 3 responses | each callback gets its own response, once, and gets it |
| `request_response_both_sides` | one stream by each peer | **violated**: a callback gets the peer's request |
| `server` | 2 clients, TLS, the policies `one_per_connection` and `fixed_count` with 0 threads, users that close connections and keep or drop pointers, under fairness | one thread: signals come in order and for every end, ended connections leave the list; default policy: the server keeps listening, has a thread for the next client and announces it, up to the hang described below; `stop` ends all threads but those in a destructor |
| `server_race` | 2 clients, default policy, no encryption | **violated**: a connection that ends early is never reported |
| `server_fixed_count` | 2 clients, `fixed_count` with 1 thread, no encryption, under fairness | **violated**: after the first connection has ended the next client is not announced |
| `server_locks` | 2 connections, one thread of the service, one of the user, 2 calls, under fairness | nobody waits in a circle, and nobody for a thread that waits for itself; a thread that returns has released everything; every handler and call returns, but for a trapped one |
| `client` | 2 attempts, TLS, under fairness | one answer per attempt, before anything else; the end is signalled; the first attempt is answered |
| `client_again` | 2 attempts, under fairness | **violated**: a refused second attempt is not reported |
| `io_service` | 3 threads in `run`, a user, a read, a write and an accept on two descriptors | no lost wakeup or event; exact count of work; one thread in `epoll_wait`, which finds nothing queued that it could return; implements `HandlerContract` |

The violated runs are disagreements between the repository's README and the
code; `PROJECT.json` quotes both. The passing runs of the same models say what is
left: `request_response` with one peer that makes streams, `server` with one
thread (`OneThreadSignals`) or with a thread for each connection
(`NextClientIsConnected`).

*The destructor that waits for itself* (`server_fixed_count`). A client
disconnects, `check_error` emits `closed`, the server's slot emits `disconnected`
and removes the connection from the list. Unless a user has kept a pointer, the
one that was forwarded into the slot is the last, the connection dies inside the
emission of its own signal, and `~signal` (`lsignal.h:230`) locks a mutex that this
thread holds already. With one thread nothing is handled any more. With
`one_per_connection` the thread is lost together with its connection, which has a
thread of its own, so the next client is served: that is what
`ThreadPerConnection` says.

*The session that is destroyed in its own emission* (a behaviour of `server` and of
`server_locks`). It takes two threads, of which one may be a user's. One accepts: it
emits the session's `connected`, and inside it `add_connection` announces the connection and releases
`server::_mutex`. Another ends the connection (its peer has gone, or a user closes
it) and now finds it in the list: it erases the map's pointer to the session. The
first still has the parameter of `add_connection`, now the last pointer, and
drops it: `~server_session` locks the mutex of the emission it is in. It never reaches
`wait_next_connection`, so there is no next session and no next thread, and no
`error` is emitted. The promises of the server except exactly this:
`KeepsListening` has the disjunct `HangsInSession`, which besides the thread demands that
`disconnected` was emitted for its connection; `ThreadPerConnection` counts such a
thread as the one for the next client, so that none is missing from those the listed
connections need; `StopEndsThreads` and `EverythingReturns` except it. `NoCircularWait`
adds that it does no more harm than that: it holds only the session's mutex, and
nobody waits for this one; the remover has not destroyed the session and goes on.
In the opposite order the remover destroys the session and waits, with
`server::_mutex` held, until the accepting thread, which takes no mutex any more, has
left the emission. `KeepsListening` also excepts a failed accept or handshake, after
which the code creates no session (`server.cpp:162`).

**Bounds.** Three packages are the fewest for one being written, one queued and
one arriving at the dispatch slot; the fourth would only lengthen the queue, and
the theorems of section 5 hold for any number. Frames of 2 and 3 units have a
first, a middle and a last unit and can be cut at every kind of place. Two
responses to one stream besides one to another are the fewest that show a late
duplicate. Two clients and the policy "one thread per connection" give three
threads: one that adds a connection, one that handles its end, one that accepts.
A second client is also what `server_fixed_count` needs: one that comes after the
first has gone. In `server_locks` one user's call and one handler overlap on different
connections or on the same one, and two calls allow a slot that calls inside a
call; it is also enough for a connection to be removed while its session emits. Two attempts are one restart. `MaxStarts` of `Server` is 1 in its runs: a second
start finds a stopped service, as the second attempt of `client_again` does.
In `io_service` three threads are the fewest of which one is in `epoll_wait`, one runs a
handler and one sleeps; read and write on one descriptor complete in one event,
so that one is posted; the accept is the kind of operation that is not tried
before it waits. Every operation is started once. The distinct states are 186011 for `server`,
352486 for `server_locks` and 537843 for `io_service`. `CHECK_DEADLOCK FALSE` is set because all
these systems may come to rest: users need not do anything more.

**Fairness.** In `ConnectionSend`, `Progress` is weakly fair for each package:
threads inside the library are scheduled, the mutex is granted, and a peer that
reads lets the socket take units. In `ConnectionReceive`, `Progress`: what has
arrived is read and completed reads are handled by a thread in `run`. In
`RequestResponse`, `Handle`. In `Server`, some thread runs what is ready, and a
thread that may leave does. In `Client`, the thread of an attempt. In
`Server`, `stuck` and `hung` are no steps: a thread in such a destructor stays there. In
`ServerLocks`, each thread that has something left to do; a free mutex is
eventually granted, which weak fairness only says because calls are bounded. Who is
`Trapped` has a step that is never enabled.
`TaskIoService` states no fairness: that somebody is always on the way to what is
queued is the invariant `NoLostWakeup`; that a handler is eventually invoked is not
checked, and `HandlerContract` does not say it. Never fair:
users, peers that send, close or refuse, failures. asio's service and the
operating system's scheduler justify these; user slots are assumed to return.

## 4. What the models leave out

* `write_*` and `read_*` of streams, which work on private buffers. `istream`
  reads sizes the peer wrote without looking at what is left in the buffer.
* TLS inside the socket. A handshake is one operation; a read ends as over TCP,
  because `check_error` takes a short read of TLS for the end of the stream.
  asio's coordination of the reads and writes of one TLS stream (`ssl/detail/io.hpp`)
  only matters when the engine wants both at once, and calling one stream from
  several threads, which lnetlib does, is a data race.
* Exceptions that leave a handler (a shutdown that fails, a body larger than the
  stream buffer may become).
* Undefined behaviour: concurrent access to `_callbacks`, and the use of destroyed
  objects. `Server` says when a connection or a session is destroyed inside an emission. It
  assumes of users that whoever closes a connection from outside of its slots keeps
  the pointer, and that a slot of `received` closes its connection only while
  nobody else is busy with it. `ServerLocks` assumes that users keep a pointer to every
  connection, so in it only sessions are destroyed; the other modules look at one
  connection while it lives.
* Emission of a signal and its mutex, except in `ServerLocks`: elsewhere it is part
  of the emitting step. Several slots of one signal, chained signals, owners,
  disconnection and aggregates, which the library itself does not use. (Arguments
  are forwarded to each slot, so all but the first get null pointers.)
* The two directions of a connection at once. They share the socket and the
  signals only, and each half has every outcome that a close by the other allows.
  Composed, an instance with two packages in one direction is too large.
* The reuse of descriptor states in the reactor. `deregister_descriptor` gives the
  state of a descriptor back to a pool (`epoll_reactor.ipp:337`) before the descriptor is
  closed and leaves epoll (`reactive_socket_service_base.ipp:106`). A socket accepted in
  between can get the same state, and one `epoll_wait` that reports both
  descriptors links that state into its queue twice. In `TaskIoService` each descriptor
  has a state of its own: it shows that events of a descriptor that is being
  closed do no harm, and nothing about states that are shared.
* In asio: timers, `poll`, registration, `dispatch`, `reset`, the shutdown of a service, other
  reactors than epoll, and the functions of sockets and buffers that only pass
  calls to the system.
* `encryption` and `helper`, which are settings and file input.

## 5. Proofs

The theorems hold for **every** value of the constants that the assumptions of the
modules admit: any set of packages, threads, connections or streams, any frame
lengths, any numbers of clients, starts and attempts, every interleaving. TLC checks
the same properties, and the inductive invariants behind them, on the instances of
section 3.

| Module | Theorem | Statement |
|---|---|---|
| `ConnectionSendProofs` | `TypeCorrect` | `Spec => []TypeOK` |
| | `WritesNeverOverlap` | `Spec => []OneWriteInFlight` |
| | `QueueLosesNothing` | `Spec => []NothingLost` |
| | `QueueHasDrainer` | `Spec => []QueueIsDrained` |
| | `FailureSilencesWire` | `Spec => SilentAfterFailure` |
| | `FramesStayWhole` | `Spec => []FramesContiguous` |
| | `OneErrorReported` | `Spec => []AtMostOneError` |
| | `SendingRefinesChannel` | `Spec => Channel!Spec` |
| `ConnectionReceiveProofs` | `TypeCorrect` | `Spec => []TypeOK` |
| | `BodiesStayIntact` | `Spec => []DeliveredIntact` |
| `RequestResponseProofs` | `TypeCorrect` | `Spec => []TypeOK` |
| | `CallbackCalledOnce` | `Spec => []CalledOnce` |
| | `CallbackGetsOwnResponse` | `SingleThread` implies `Spec => []OwnResponse` |
| `ServerProofs` | `TypeCorrect` | `Spec => []TypeOK` |
| | `EndIsSignalledByOneThread` | `Spec => []OneThreadSignals` |
| | `EndedConnectionsLeave` | `Spec => []EndedLeavesList` |
| | `ConnectedIsFirst` | `Spec => []ConnectedComesFirst` |
| | `ServerKeepsListening` | `Spec => []KeepsListening` |
| | `NextClientHasThread` | `Spec => []ThreadPerConnection` |
| `ServerLocksProofs` | `TypeCorrect` | `Spec => []TypeOK` |
| | `MutexesAreReleased` | `Spec => []IdleHoldsNothing` |
| | `ThreadsNeverDeadlock` | `OrderedSlots` implies `Spec => []NoCircularWait` |
| `ClientProofs` | `TypeCorrect` | `Spec => []TypeOK` |
| | `EndReachesUser` | `Spec => []EndIsSignalled` |
| | `AnswerComesFirst` | `Spec => []AnsweredOnceAndFirst` |
| `TaskIoServiceProofs` | `TypeCorrect` | `Spec => []TypeOK` |
| | `WorkIsExact` | `Spec => []WorkIsCounted` |
| | `PollFindsNothingQueued` | `Spec => []DequeuedBeforePoll` |
| | `WakeupsArrive` | `Spec => []NoLostWakeup` |
| | `EventsArrive` | `Spec => []NoLostEvent` |
| | `ServiceKeepsContract` | `Spec => KeepsContract`, which is `Contract!Spec` |

Besides the assumptions the modules state for their constants (frames have a header
and a body, the value for a free mutex is no thread, a `Server` has finitely many
policies to choose from, a service has finitely many threads and operations, without
which its count of work would mean nothing), two theorems have one of their own:

* `SingleThread`: one thread creates all streams, and so of one peer only. Without
  it the property is false; `request_response_both_sides` is a counterexample with
  two peers, and the unprotected `_uid_counter++` is one with two threads.
* `OrderedSlots`: a slot of `connected` at most sends, one of `disconnected` at most
  sends or calls `connections`; slots of `error` and `received` may do anything. It
  is the table of `server_locks`; each call beyond it makes a thread wait for itself.

### Arguments

**Sending.** That writes do not overlap is not inductive: one needs to know
what the flag means. `IInv` is a conjunction of named parts:

* `SendedInv`: a stream at rest has not called `send`, one that has is past it.
* `MutexInv`: the holder of the mutex is exactly the package in stage `check` or
  `pop`; so dispatch slots and handlers exclude each other.
* `LockInv`: a package between the start of its write and the end of its handler
  implies `_socket_locked`, and so does a queued package. With `MutexInv` this gives `OneWriteInFlight`: a
  dispatch slot that writes has found the flag clear, and a handler that writes
  gives up its own place in the same step.
* `QueueInv`: the queue holds only packages in stage `queued`, each once.
* `ErrInv`, `FailureInv`, `OwnerInv`: an error code belongs to a completed write;
  once a write has failed nothing is being written, since the flag stays set
  and the failed handler returns before it looks at the queue; and a set flag
  has an owner or a failure behind it. The last one is the absence of lost
  wakeups, hence `QueueIsDrained`.
* `NothingLost`: the order of dispatch is the writes started, then the queue,
  then the package in a dispatch slot. Each action moves the boundary between
  two of these sequences or leaves all of them alone.

A second layer, `Wired`, relates the wire to the packages. `SentInv` says how much of
each package has gone out by its stage, `WireInv` that the wire ends where the package
being written stands, and at the end of a frame if none is and nothing has failed; as
only one is being written, its next unit fits. `ErrorInv` counts packages that are done with an error: there is
one at most, because nothing starts after it. `StartedInv` and `OrderInv` tie the
histories to the stages. From these the refinement follows step by step: the start of a write
stutters, a portion taken by the socket that completes a frame is `Transmit`, the
dispatch slot is `Accept`, the first failure or the close is `Break`.

**Receiving.** The invariant names a position `b` of the wire at which the frame
being read begins. `WireInv`: what arrives is frames, one after another, the last perhaps
cut. `Holds(b)`: the buffer has exactly the units of the wire from the beginning of
the frame (while the size is read) or of its body on, and `want` is what its size field says.
`DeliveredUpTo(b)`: the bodies delivered are those of the frames that end at or
before `b`. A size that has been read in full fixes the end of the body, so the next
frame begins where this one ends, whatever portions the network makes.

**Requests.** `CallbackInv` says that a registered callback belongs to a stream that
has not been answered: so no response is taken twice. `OwnResponse` needs that uids of the one thread that
creates streams are different (`UidInv`: the counter is above all of them, and it
is not read again before it is written) and that each package under way has the uid of
its stream and, on the side that created the stream, is a response (`PackageInv`).

**Server.** The bounds on sessions and threads enter the model only as sets of numbers,
so the first part, `InOrder` and `NumbersLeft`, says that these never run out: each
session created is accounted for by a start or a connection whose thread has passed
`wait_next_connection`, and threads likewise. Then `Places`, `Progress` and
`CloseIsSignalled` follow one connection from its constructor to its signals:
whoever has a read loop has the slots or a thread that is about to connect them;
what has slots has been announced or is being announced by the thread that
has the mutex. With one thread (`OneThreadOrder`) that thread cannot at the same
time handle an end: so `disconnected` comes after `connected` and is never forgotten.
`KeepsListening` is inductive on top of `NumbersLeft`. `ThreadPerConnection` compares three
numbers, serving threads, threads about to create one, and connections in the list:
`RemovedOnce` says that a thread that dies in the destructor of a connection is the only
one that removes it and finds it in the list, so both numbers fall together. Sessions
bring three more parts. `Locking`: who destroys a session has `server::_mutex`.
`AddedOnce`: a connection is added by one thread, so a remover that waits for its
emission to end waits for a thread in `next`, not in `drop`. `RemovalIsSignalled`: whose
connection has left the list before the parameter dies, has been told of its end; with
it `HangsInSession` is no more than the code allows. For the inductive form of
`ThreadPerConnection` (`EnoughThreads`) a thread in `drop` counts as about to create
the next thread only while its connection is listed, for then it cannot hang: when
the connection is removed this number and the list fall together. A hung thread keeps counting
as one that is there.

**Mutexes.** Agendas are well bracketed: `Closing` says that each lock is followed by
its unlock, hence `HolderInv` and `IdleHoldsNothing`. Against circles, mutexes have ranks:
a connection's `error` and `received` 1, the server's `error` and `received` 2, `closed` 3,
`disconnected` 4, `server::_mutex` 5, `connected` 6, a connection's write mutex 7.
`OrderInv` says that what a thread locks while it has a mutex outranks that mutex;
that it has one, or will, is read off its agenda, where the next thing done with the mutex is
to unlock it. In a set of waiting threads, the one
that waits for the mutex of the highest rank waits for nobody in the set.
The mutex of a session does not fit: it is taken first of all, around
`connected_handler`, and last, by the destructor, with `server::_mutex` or itself held. So it has
rank 0 and its destruction is exempt from the order, and `SessionInv` makes up for it. It
says what an agenda can be with respect to a session: apart from it; destroying it
from outside; ahead of its emission; inside it; destroying it from inside; or leaving it,
with nothing to do but `wait_next_connection` and the unlock. Somebody whose parameter
has still to die is an owner, so nobody else destroys that session; at most one thread does, and
when it does the emission is over or its thread is leaving. Hence a thread that waits
for the mutex of a session from outside waits for one that takes no mutex any more,
and one that is `Trapped` has nothing but that mutex, for which nobody else asks.

**Client.** Until the service is stopped only one attempt has a thread (`ThreadInv`), and a
thread connects the slots and emits `connected` before it goes back to the service (`SlotsInv`),
so the handler of the connection's end finds the slots there (`ReaderInv`). An attempt is silent until
its session ends (`SessionInv`, `FutureInv`), and a session ends once.

**Service.** `Inv` begins with what a thread has, by where it is (`Locals`): an element of
the queue to work on, a private queue, completions it has still to count, `mutex_` only on the
way back to the loop. The other parts rest on it.

* `Once`: an operation that is ready is in one list, once, and one whose handler runs is
  the job of one thread (`OncePlaced`). While a thread polls, the queue has handlers
  only, and in the queue every descriptor is in front of the task (`OneTask`); so when
  the task is taken no descriptor is linked, and the events of `epoll_wait` can be. This
  order is what `task_cleanup` sees to, and it gives `DequeuedBeforePoll`.
* `Wakeful` strengthens `NoLostWakeup`. A thread in `epoll_wait` counts as asleep (`Idle`) until
  the interrupter has an event: an event of a socket may come, but nobody
  has to send one. Who makes up for the sleepers (`Sure`) is at the loop, in front of `epoll_wait`
  without blocking, or past it. `InterruptedOnce` says that a thread that blocks
  after `task_interrupted_` was set has been interrupted, so that one flag is enough.
* `Awaited` and `ClosedIsQuiet`: an operation that waits is not on a closed descriptor, and if it
  could complete, its event or an element that names it is still to be worked on. `Shut` takes
  the events of its descriptor away, on which nothing waits, as it is among the closed ones.
* `Counted`: `work_` is the number of operations under way and of threads about
  to count down for nothing, less what threads still have to count up. The sets are compared, so
  each action moves one element between two of them; only `work_cleanup` moves many. A
  completion that is not counted yet is one of the operations under way, so the
  count is never negative.
* `Deliverable`: a completed operation could complete or its descriptor was closed. It is
  what the contract asks of an invocation. The refinement maps starting, completing at
  once or waiting, to `Start`; `PickHandler` and `PerformIo` to `Invoke`; `Close` to
  `BecomeAble`; `run` that finds no work to `Stop`; what threads do among themselves to stutters.

**Sequences.** `SelectSeq` of the standard module is recursive and out of the provers'
reach. `Selected` is defined by a recursive function, which `SelectionProofs`
unfolds (`SelectedAppend` and others) by an induction over sets: a set of
naturals has a least element, a set of sequences that has the empty one and is closed
under `Append` has all of them.

### What is only model-checked

Everything about `ConnectionLink`, whose halves are proved; the liveness properties and the fairness
part of the refinements, which are out of this prover's reach.

For the provers' sake guards of a `CASE` are disjoint, and a set difference of a powerset is
parenthesised, as tlapm and SANY group it differently.

## 6. Plan

The models cover what the library does with its connections, its threads and the
service, and the proofs cover all safety invariants of the runs that pass. What is
left:

1. The safety part of the refinement of `PackageChannel` by `ConnectionLink`: the invariants
   of its two halves carry over, and what is missing is that the bytes in the
   receiver's hands are those that left the sender, in this order.
2. Action properties of the client and of the receiving half (what a closed connection may
   never do again), checked first and then proved from `LoopInv` and `IInv`.

A module of `lsignal` with several slots and disconnection, and one of the TLS
stream, would come after these.
