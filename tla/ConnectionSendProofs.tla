------------------------ MODULE ConnectionSendProofs ------------------------
(***************************************************************************)
(* Theorems about ConnectionSend: for any set of packages and any frame    *)
(* lengths, types are correct, writes never overlap, no package is lost,   *)
(* the queue is always being drained, a failed write silences the wire and *)
(* is reported once, frames stay whole, and the half implements the        *)
(* abstract channel.                                                       *)
(***************************************************************************)
EXTENDS ConnectionSend, SelectionProofs, TLAPS

-----------------------------------------------------------------------------
(***************************************************************************)
(* Type correctness.                                                       *)
(***************************************************************************)

\* The units a part of a write puts on the wire are units.
LEMMA UnitsType ==
    ASSUME TypeOK, NEW p \in Packages, NEW n \in Nat
    PROVE  Units(p, n) \in Seq(Packages \X Nat)
<1>1. \A i \in 1 .. n : <<p, sent[p] + i>> \in Packages \X Nat
    BY DEF TypeOK
<1> QED BY <1>1, IsASeq DEF Units

\* Initiating a write keeps the types, whatever the activity does next.
LEMMA SendPackageType ==
    ASSUME TypeOK, NEW q \in Packages, NEW rest \in [Packages -> Stage],
           SendPackage(q, rest)
    PROVE  /\ stage' \in [Packages -> Stage]
           /\ err' \in [Packages -> Errors]
           /\ locked' \in BOOLEAN
           /\ started' \in Seq(Packages)
BY AppendProperties DEF TypeOK, SendPackage, Stage, Errors

LEMMA TypeInit == Init => TypeOK
<1> SUFFICES ASSUME Init PROVE TypeOK
    OBVIOUS
<1>1. /\ packages \in Seq(Packages)
      /\ wire \in Seq(Packages \X Nat)
      /\ order \in Seq(Packages)
      /\ started \in Seq(Packages)
      /\ signals \in Seq({"closed", "error"})
    BY EmptySeq DEF Init
<1>2. /\ sended \in [Packages -> BOOLEAN]
      /\ alive \in [Packages -> BOOLEAN]
      /\ stage \in [Packages -> Stage]
      /\ err \in [Packages -> Errors]
      /\ sent \in [Packages -> Nat]
    BY DEF Init, Stage, Errors
<1> QED BY <1>1, <1>2 DEF Init, TypeOK

LEMMA TypeNext == TypeOK /\ [Next]_vars => TypeOK'
<1> SUFFICES ASSUME TypeOK, [Next]_vars PROVE TypeOK'
    OBVIOUS
<1>1. CASE Close
    <2>1. signals' \in Seq({"closed", "error"})
        BY <1>1, AppendProperties DEF TypeOK, Close
    <2>2. stage' \in [Packages -> Stage] /\ err' \in [Packages -> Errors]
        BY <1>1 DEF TypeOK, Close, Stage, Errors
    <2> QED BY <1>1, <2>1, <2>2 DEF TypeOK, Close
<1>2. ASSUME NEW p \in Packages, Send(p) PROVE TypeOK'
    BY <1>2 DEF TypeOK, Send, Stage
<1>3. ASSUME NEW p \in Packages, Destroy(p) PROVE TypeOK'
    BY <1>3 DEF TypeOK, Destroy, Stage
<1>4. ASSUME NEW p \in Packages, WriteFails(p) PROVE TypeOK'
    BY <1>4 DEF TypeOK, WriteFails, Stage, Errors
<1>5. ASSUME NEW p \in Packages, Acquire(p) PROVE TypeOK'
    BY <1>5, AppendProperties DEF TypeOK, Acquire, Stage
<1>6. ASSUME NEW p \in Packages, Enqueue(p) PROVE TypeOK'
    BY <1>6, AppendProperties DEF TypeOK, Enqueue, Stage
<1>7. ASSUME NEW p \in Packages, StartWrite(p) PROVE TypeOK'
    <2>1. SendPackage(p, stage) /\ stage \in [Packages -> Stage]
        BY <1>7 DEF StartWrite, TypeOK
    <2> QED BY <1>7, <2>1, SendPackageType DEF TypeOK, StartWrite
<1>8. ASSUME NEW p \in Packages, NEW n \in Nat, Transfer(p, n) PROVE TypeOK'
    <2>1. wire' \in Seq(Packages \X Nat)
        BY <1>8, UnitsType, ConcatProperties DEF TypeOK, Transfer
    <2>2. sent' \in [Packages -> Nat] /\ stage' \in [Packages -> Stage]
        BY <1>8 DEF TypeOK, Transfer, Stage
    <2> QED BY <1>8, <2>1, <2>2 DEF TypeOK, Transfer
<1>9. ASSUME NEW p \in Packages, CheckWriteError(p) PROVE TypeOK'
    <2>1. signals' \in Seq({"closed", "error"})
        BY <1>9, AppendProperties DEF TypeOK, CheckWriteError
    <2> QED BY <1>9, <2>1 DEF TypeOK, CheckWriteError, Stage
<1>10. ASSUME NEW p \in Packages, HandlerLock(p) PROVE TypeOK'
    BY <1>10 DEF TypeOK, HandlerLock, Stage
<1>11. ASSUME NEW p \in Packages, PopNext(p) PROVE TypeOK'
    <2>1. Head(packages) \in Packages /\ Tail(packages) \in Seq(Packages)
        BY <1>11, HeadTailProperties DEF TypeOK, PopNext
    <2>2. [stage EXCEPT ![p] = "done"] \in [Packages -> Stage]
        BY DEF TypeOK, Stage
    <2>3. SendPackage(Head(packages), [stage EXCEPT ![p] = "done"])
        BY <1>11 DEF PopNext
    <2> QED BY <1>11, <2>1, <2>2, <2>3, SendPackageType DEF TypeOK, PopNext
<1>12. ASSUME NEW p \in Packages, Unlock(p) PROVE TypeOK'
    BY <1>12 DEF TypeOK, Unlock, Stage
<1>13. CASE UNCHANGED vars
    BY <1>13 DEF TypeOK, vars
<1> QED
    <2>1. ASSUME NEW p \in Packages, NEW n \in 1 .. FrameLength[p],
        Transfer(p, n)
          PROVE  TypeOK'
        BY <2>1, <1>8
    <2> QED
    BY <2>1, <1>1, <1>2, <1>3, <1>4, <1>5, <1>6, <1>7, <1>9, <1>10, <1>11,
       <1>12, <1>13 DEF Next, Progress

\* Every variable keeps its type, for any packages and frame lengths.
THEOREM TypeCorrect == Spec => []TypeOK
BY TypeInit, TypeNext, PTL DEF Spec

-----------------------------------------------------------------------------
(***************************************************************************)
(* The inductive invariant.                                                *)
(***************************************************************************)

\* A stream that has not been sent has no activity.
SendedInv == \A p \in Packages : ~ sended[p] => stage[p] = "idle"

\* The holder of the mutex is the activity that is inside a locked region.
MutexInv == \A p \in Packages : stage[p] \in {"check", "pop"} <=> mutex = p

\* _socket_locked is set while a write is in flight or packages are queued.
LockInv ==
    /\ \A p \in Packages : stage[p] \in Writing => locked
    /\ packages # <<>> => locked

\* The queue holds queued packages, each once.
QueueInv ==
    /\ \A i \in 1 .. Len(packages) : stage[packages[i]] = "queued"
    /\ \A i, j \in 1 .. Len(packages) : packages[i] = packages[j] => i = j

\* Only a completed write has an error code.
ErrInv == \A p \in Packages :
    err[p] # "none" => stage[p] \in {"completed", "done"}

\* A failed write leaves _socket_locked set and nobody to reset it.
FailureInv == Failed # {} => locked /\ Busy \subseteq Failed

\* Without a failure, _socket_locked has somebody who will reset it.
OwnerInv == locked => Busy # {} \/ Failed # {}

IInv ==
    /\ TypeOK
    /\ SendedInv
    /\ MutexInv
    /\ LockInv
    /\ OneWriteInFlight
    /\ QueueInv
    /\ ErrInv
    /\ FailureInv
    /\ OwnerInv
    /\ NothingLost

-----------------------------------------------------------------------------
(***************************************************************************)
(* The locks: at most one write in flight and a lock that matches it.      *)
(***************************************************************************)

Locking ==
    /\ SendedInv
    /\ MutexInv
    /\ LockInv
    /\ OneWriteInFlight
    /\ ErrInv
    /\ FailureInv
    /\ OwnerInv

\* The front of the queue is a queued package.
LEMMA FrontIsQueued ==
    ASSUME TypeOK, QueueInv, packages # <<>>
    PROVE  /\ Head(packages) \in Packages
           /\ Head(packages) = packages[1]
           /\ stage[Head(packages)] = "queued"
<1>1. Len(packages) \in Nat /\ Len(packages) # 0
    BY EmptySeq DEF TypeOK
<1>2. Head(packages) = packages[1] /\ Head(packages) \in Packages
    BY HeadTailProperties DEF TypeOK
<1>3. 1 \in 1 .. Len(packages)
    BY <1>1
<1> QED BY <1>2, <1>3 DEF QueueInv

LEMMA LockingInit == Init => Locking
BY HolderAssumption DEF Init, Locking, SendedInv, MutexInv, LockInv,
                        OneWriteInFlight,
   ErrInv, FailureInv, OwnerInv, Busy, Writing, Failed

LEMMA LockingNext ==
    ASSUME TypeOK, TypeOK', QueueInv, Locking, [Next]_vars
    PROVE  Locking'
<1> USE HolderAssumption DEF Locking
<1>1. CASE Close
    <2>1. SendedInv' /\ MutexInv' /\ ErrInv'
        BY <1>1 DEF Close, TypeOK, SendedInv, MutexInv, ErrInv
    <2>2. LockInv' /\ OneWriteInFlight'
        BY <1>1 DEF Close, TypeOK, LockInv, OneWriteInFlight, Busy, Writing
    <2>3. FailureInv'
        BY <1>1 DEF Close, TypeOK, LockInv, OneWriteInFlight, FailureInv, Busy,
           Writing, Failed
    <2>4. OwnerInv'
        <3>1. Busy' = Busy
            BY <1>1 DEF Close, TypeOK, Busy, Writing
        <3>2. Failed \subseteq Failed'
            BY <1>1, <3>1 DEF Close, TypeOK, Failed
        <3> QED BY <1>1, <3>1, <3>2 DEF Close, OwnerInv
    <2> QED BY <2>1, <2>2, <2>3, <2>4
<1>2. ASSUME NEW p \in Packages, Send(p) PROVE Locking'
    <2>1. Busy' = Busy /\ Failed' = Failed
        BY <1>2 DEF Send, TypeOK, SendedInv, Busy, Writing, Failed
    <2>2. SendedInv' /\ MutexInv' /\ ErrInv'
        BY <1>2 DEF Send, TypeOK, SendedInv, MutexInv, ErrInv
    <2>3. LockInv' /\ OneWriteInFlight'
        BY <1>2, <2>1 DEF Send, TypeOK, LockInv, OneWriteInFlight, Writing
    <2> QED BY <1>2, <2>1, <2>2, <2>3 DEF Send, FailureInv, OwnerInv
<1>3. ASSUME NEW p \in Packages, Destroy(p) PROVE Locking'
    BY <1>3 DEF Destroy, TypeOK, SendedInv, MutexInv, LockInv,
                OneWriteInFlight, ErrInv,
       FailureInv, OwnerInv, Busy, Writing, Failed
<1>4. ASSUME NEW p \in Packages, WriteFails(p) PROVE Locking'
    BY <1>4 DEF WriteFails, TypeOK, SendedInv, MutexInv, LockInv,
                OneWriteInFlight, ErrInv,
       FailureInv, OwnerInv, Busy, Writing, Failed
<1>5. ASSUME NEW p \in Packages, Acquire(p) PROVE Locking'
    BY <1>5 DEF Acquire, TypeOK, SendedInv, MutexInv, LockInv,
                OneWriteInFlight, ErrInv,
       FailureInv, OwnerInv, Busy, Writing, Failed
<1>6. ASSUME NEW p \in Packages, Enqueue(p) PROVE Locking'
    BY <1>6 DEF Enqueue, TypeOK, SendedInv, MutexInv, LockInv,
                OneWriteInFlight, ErrInv,
       FailureInv, OwnerInv, Busy, Writing, Failed
<1>7. ASSUME NEW p \in Packages, StartWrite(p) PROVE Locking'
    BY <1>7 DEF StartWrite, SendPackage, TypeOK, SendedInv, MutexInv, LockInv,
       OneWriteInFlight, ErrInv, FailureInv, OwnerInv, Busy, Writing, Failed
<1>8. ASSUME NEW p \in Packages, NEW n \in Nat, Transfer(p, n) PROVE Locking'
    BY <1>8 DEF Transfer, TypeOK, SendedInv, MutexInv, LockInv,
                OneWriteInFlight, ErrInv,
       FailureInv, OwnerInv, Busy, Writing, Failed
<1>9. ASSUME NEW p \in Packages, CheckWriteError(p) PROVE Locking'
    BY <1>9 DEF CheckWriteError, TypeOK, SendedInv, MutexInv, LockInv,
                OneWriteInFlight,
       ErrInv, FailureInv, OwnerInv, Busy, Writing, Failed
<1>10. ASSUME NEW p \in Packages, HandlerLock(p) PROVE Locking'
    BY <1>10 DEF HandlerLock, TypeOK, SendedInv, MutexInv, LockInv,
                 OneWriteInFlight,
       ErrInv, FailureInv, OwnerInv, Busy, Writing, Failed
<1>11. ASSUME NEW p \in Packages, PopNext(p) PROVE Locking'
    <2> DEFINE q == Head(packages)
    <2>1. q \in Packages /\ stage[q] = "queued" /\ stage[p] = "pop" /\ q # p
        BY <1>11, FrontIsQueued DEF PopNext
    <2>2. /\ locked' = TRUE
          /\ mutex' = NoHolder
          /\ UNCHANGED <<sended, socket>>
          /\ stage' = [stage EXCEPT ![p] = "done",
                        ![q] = IF socket = "open" THEN "writing"
                                                  ELSE "completed"]
          /\ err' = [err EXCEPT ![q] = IF socket = "open" THEN "none"
                                                          ELSE "other"]
        BY <1>11 DEF PopNext, SendPackage
    <2> HIDE DEF q
    <2>3. Failed = {} /\ Busy = {p}
        <3>1. p \in Busy /\ p \notin Failed
            BY <2>1 DEF ErrInv, Busy, Writing, Failed
        <3>2. Failed = {}
            BY <3>1 DEF FailureInv
        <3>3. \A r \in Busy : r = p
            BY <3>1 DEF OneWriteInFlight, Busy
        <3> QED BY <3>1, <3>2, <3>3
    <2>4. Busy' = {q}
        <3>1. stage'[q] \in Writing /\ stage'[p] = "done"
            BY <2>1, <2>2 DEF TypeOK, Writing
        <3>2. \A r \in Packages \ {p, q} : stage'[r] = stage[r]
            BY <2>2 DEF TypeOK
        <3>3. \A r \in Packages \ {p, q} : stage[r] \notin Writing
            BY <2>3 DEF Busy
        <3>4. "done" \notin Writing
            BY DEF Writing
        <3> QED BY <2>1, <3>1, <3>2, <3>3, <3>4 DEF Busy
    <2>5. Failed' \subseteq {q}
        BY <2>1, <2>2, <2>3 DEF TypeOK, Failed
    <2>6. SendedInv' /\ MutexInv'
        BY <2>1, <2>2 DEF TypeOK, SendedInv, MutexInv
    <2>7. LockInv' /\ OneWriteInFlight' /\ OwnerInv'
        BY <2>2, <2>4 DEF LockInv, OneWriteInFlight, OwnerInv
    <2>8. ErrInv' /\ FailureInv'
        BY <2>1, <2>2, <2>3, <2>4, <2>5 DEF TypeOK, ErrInv, FailureInv, Failed
    <2> QED BY <2>6, <2>7, <2>8
<1>12. ASSUME NEW p \in Packages, Unlock(p) PROVE Locking'
    <2>1. Failed = {} /\ Busy = {p}
        BY <1>12 DEF Unlock, ErrInv, FailureInv, OneWriteInFlight, Busy,
           Writing, Failed
    <2>2. Failed' = {} /\ Busy' = {}
        BY <1>12, <2>1 DEF Unlock, TypeOK, Busy, Writing, Failed
    <2>3. SendedInv' /\ MutexInv' /\ ErrInv'
        BY <1>12 DEF Unlock, TypeOK, SendedInv, MutexInv, ErrInv
    <2>4. LockInv' /\ OneWriteInFlight'
        BY <1>12, <2>2 DEF Unlock, LockInv, OneWriteInFlight, Busy
    <2> QED BY <1>12, <2>2, <2>3, <2>4 DEF Unlock, FailureInv, OwnerInv
<1>13. CASE UNCHANGED vars
    BY <1>13 DEF vars, SendedInv, MutexInv, LockInv, OneWriteInFlight, ErrInv,
                 FailureInv,
       OwnerInv, Busy, Writing, Failed
<1>14. ASSUME NEW p \in Packages, NEW n \in 1 .. FrameLength[p], Transfer(p, n)
      PROVE  Locking'
    BY <1>14, <1>8
<1> QED
    BY <1>1, <1>2, <1>3, <1>4, <1>5, <1>6, <1>7, <1>9, <1>10, <1>11, <1>12,
       <1>13, <1>14 DEF Next, Progress

-----------------------------------------------------------------------------
(***************************************************************************)
(* The queue.                                                              *)
(***************************************************************************)

\* A step that leaves the queue and its packages alone keeps the invariant.
LEMMA QueueUntouched ==
    ASSUME TypeOK, QueueInv, packages' = packages,
           \A r \in Packages : stage[r] = "queued" => stage'[r] = "queued"
    PROVE  QueueInv'
<1>1. \A i \in 1 .. Len(packages) : packages[i] \in Packages
    BY ElementOfSeq DEF TypeOK
<1> QED BY <1>1 DEF QueueInv

LEMMA QueueInit == Init => QueueInv
BY EmptySeq DEF Init, QueueInv

LEMMA QueueNext ==
    ASSUME TypeOK, Locking, QueueInv, [Next]_vars
    PROVE  QueueInv'
<1>1. CASE Close \/ UNCHANGED vars
    BY <1>1, QueueUntouched DEF Close, vars, TypeOK
<1>2. ASSUME NEW p \in Packages,
             \/ Send(p) \/ Destroy(p) \/ WriteFails(p) \/ Acquire(p)
             \/ StartWrite(p) \/ \E n \in 1 .. FrameLength[p] : Transfer(p, n)
             \/ CheckWriteError(p) \/ HandlerLock(p) \/ Unlock(p)
      PROVE  QueueInv'
    BY <1>2, QueueUntouched DEF TypeOK, Locking, SendedInv, Send, Destroy,
       WriteFails, Acquire, StartWrite, SendPackage, Transfer, CheckWriteError,
       HandlerLock, Unlock
<1>3. ASSUME NEW p \in Packages, Enqueue(p) PROVE QueueInv'
    <2>1. stage[p] = "check" /\ stage' = [stage EXCEPT ![p] = "queued"]
        BY <1>3 DEF Enqueue
    <2>2. /\ Len(packages) \in Nat
          /\ Len(packages') = Len(packages) + 1
          /\ packages'[Len(packages) + 1] = p
          /\ \A i \in 1 .. Len(packages) :
                packages'[i] = packages[i] /\ packages[i] \in Packages
        BY <1>3, AppendProperties, ElementOfSeq, LenProperties
           DEF Enqueue, TypeOK
    <2>3. \A i \in 1 .. Len(packages) : packages'[i] # p
        BY <2>1, <2>2 DEF QueueInv
    <2>4. ASSUME NEW i \in 1 .. Len(packages')
          PROVE  stage'[packages'[i]] = "queued"
        <3>1. \A r \in Packages : stage[r] = "queued" => stage'[r] = "queued"
            BY <2>1 DEF TypeOK
        <3>2. stage'[p] = "queued"
            BY <2>1 DEF TypeOK
        <3>3. CASE i = Len(packages) + 1
            BY <3>2, <3>3, <2>2
        <3>4. CASE i \in 1 .. Len(packages)
            BY <3>1, <3>4, <2>2 DEF QueueInv
        <3> QED BY <3>3, <3>4, <2>2
    <2>5. ASSUME NEW i \in 1 .. Len(packages'), NEW j \in 1 .. Len(packages'),
                 packages'[i] = packages'[j]
          PROVE  i = j
        BY <2>2, <2>3, <2>5 DEF QueueInv
    <2> QED BY <2>4, <2>5 DEF QueueInv
<1>4. ASSUME NEW p \in Packages, PopNext(p) PROVE QueueInv'
    <2>1. /\ packages # <<>>
          /\ stage[p] = "pop"
          /\ packages' = Tail(packages)
          /\ \A r \in Packages \ {p, Head(packages)} : stage'[r] = stage[r]
        BY <1>4 DEF PopNext, SendPackage, TypeOK
    <2>2. /\ Head(packages) = packages[1]
          /\ Len(packages) \in Nat
          /\ Len(packages') = Len(packages) - 1
          /\ \A i \in 1 .. Len(packages') :
                packages'[i] = packages[i + 1] /\ i + 1 \in 1 .. Len(packages)
        BY <2>1, FrontIsQueued, HeadTailProperties, LenProperties DEF TypeOK
    <2>3. ASSUME NEW i \in 1 .. Len(packages')
          PROVE  stage'[packages'[i]] = "queued"
        <3>1. packages'[i] = packages[i + 1] /\ packages[i + 1] \in Packages
            BY <2>2, ElementOfSeq DEF TypeOK
        <3>2. stage[packages[i + 1]] = "queued" /\ packages[i + 1] # packages[1]
            BY <2>2 DEF QueueInv
        <3> QED BY <2>1, <2>2, <3>1, <3>2
    <2>4. ASSUME NEW i \in 1 .. Len(packages'), NEW j \in 1 .. Len(packages'),
                 packages'[i] = packages'[j]
          PROVE  i = j
        <3>1. i + 1 = j + 1
            BY <2>2, <2>4 DEF QueueInv
        <3> QED BY <3>1, <2>2
    <2> QED BY <2>3, <2>4 DEF QueueInv
<1> QED
    BY <1>1, <1>2, <1>3, <1>4 DEF Next, Progress

-----------------------------------------------------------------------------
(***************************************************************************)
(* Nothing is lost between the dispatch slot and the socket.               *)
(***************************************************************************)

\* A step that leaves the histories, the queue and the package being dispatched
\* alone keeps the invariant.
LEMMA NothingLostUntouched ==
    ASSUME NothingLost, UNCHANGED <<order, started, packages>>,
           \A r \in Packages : stage'[r] = "check" <=> stage[r] = "check",
           \A r \in Packages : stage[r] = "check" => mutex' = mutex
    PROVE  NothingLost'
BY DEF NothingLost, Dispatching

LEMMA NothingLostInit == Init => NothingLost
BY ConcatEmptySeq, EmptySeq DEF Init, NothingLost, Dispatching

\* What is in the invariant while package p is being dispatched, and while
\* no package is.
LEMMA DispatchingOne ==
    ASSUME MutexInv, NEW p \in Packages, stage[p] = "check"
    PROVE  Dispatching = <<p>> /\ \A r \in Packages \ {p} : stage[r] # "check"
BY DEF MutexInv, Dispatching

LEMMA DispatchingNone ==
    ASSUME \A p \in Packages : stage[p] # "check"
    PROVE  Dispatching = <<>>
BY DEF Dispatching

\* Moving the front of one sequence to the end of another keeps what both are
\* together.
LEMMA MoveHead ==
    ASSUME NEW S, NEW s \in Seq(S), NEW t \in Seq(S), t # <<>>
    PROVE  Append(s, Head(t)) \o Tail(t) = s \o t
<1>1. Head(t) \in S /\ Tail(t) \in Seq(S)
    BY HeadTailProperties
<1>2. <<Head(t)>> \in Seq(S)
    BY <1>1
<1>3. Append(s, Head(t)) = s \o <<Head(t)>>
    BY <1>1, AppendIsConcat
<1>4. (s \o <<Head(t)>>) \o Tail(t) = s \o (<<Head(t)>> \o Tail(t))
    <2> DEFINE u == <<Head(t)>>
               v == Tail(t)
    <2>1. u \in Seq(S) /\ v \in Seq(S)
        BY <1>1, <1>2
    <2> HIDE DEF u, v
    <2>2. (s \o u) \o v = s \o (u \o v)
        BY <2>1, ConcatAssociative
    <2> QED BY <2>2 DEF u, v
<1>5. t = <<Head(t)>> \o Tail(t)
    BY <1>1
<1> QED BY <1>3, <1>4, <1>5

LEMMA NothingLostNext ==
    ASSUME TypeOK, Locking, Locking', NothingLost, [Next]_vars
    PROVE  NothingLost'
<1> USE DEF Locking
<1>1. CASE Close \/ UNCHANGED vars
    BY <1>1, NothingLostUntouched DEF Close, vars, TypeOK
<1>2. ASSUME NEW p \in Packages,
             \/ Send(p) \/ Destroy(p) \/ WriteFails(p)
             \/ \E n \in 1 .. FrameLength[p] : Transfer(p, n)
             \/ CheckWriteError(p)
      PROVE  NothingLost'
    BY <1>2, NothingLostUntouched DEF TypeOK, SendedInv, Send, Destroy,
       WriteFails, Transfer, CheckWriteError
<1>3. ASSUME NEW p \in Packages, HandlerLock(p) \/ Unlock(p) PROVE NothingLost'
    BY <1>3, NothingLostUntouched, HolderAssumption DEF TypeOK, MutexInv,
       HandlerLock, Unlock
<1>4. ASSUME NEW p \in Packages, Acquire(p) PROVE NothingLost'
    <2>1. Dispatching = <<>>
        BY <1>4, DispatchingNone, HolderAssumption DEF Acquire, MutexInv
    <2>2. Dispatching' = <<p>>
        BY <1>4 DEF Acquire, TypeOK, Dispatching
    <2>3. started \o packages \in Seq(Packages)
        BY ConcatProperties DEF TypeOK
    <2>4. order = started \o packages
        BY <2>1, <2>3, ConcatEmptySeq DEF NothingLost, TypeOK
    <2>5. order' = (started \o packages) \o <<p>>
        BY <1>4, <2>3, <2>4, AppendIsConcat DEF Acquire
    <2> QED BY <1>4, <2>2, <2>5 DEF Acquire, NothingLost
<1>5. ASSUME NEW p \in Packages, Enqueue(p) PROVE NothingLost'
    <2>1. Dispatching = <<p>> /\ \A r \in Packages \ {p} : stage[r] # "check"
        BY <1>5, DispatchingOne DEF Enqueue
    <2>2. Dispatching' = <<>>
        BY <1>5, <2>1 DEF Enqueue, TypeOK, Dispatching
    <2>3. packages' = packages \o <<p>> /\ packages' \in Seq(Packages)
        BY <1>5, AppendIsConcat, AppendProperties DEF Enqueue, TypeOK
    <2>4. <<p>> \in Seq(Packages)
        OBVIOUS
    <2>5. started \o packages' = (started \o packages) \o <<p>>
        BY <2>3, <2>4, ConcatAssociative DEF TypeOK
    <2>6. (started \o packages') \o <<>> = started \o packages'
        BY <2>3, ConcatProperties, ConcatEmptySeq DEF TypeOK
    <2> QED BY <1>5, <2>1, <2>2, <2>5, <2>6 DEF Enqueue, NothingLost
<1>6. ASSUME NEW p \in Packages, StartWrite(p) PROVE NothingLost'
    <2>1. Dispatching = <<p>> /\ \A r \in Packages \ {p} : stage[r] # "check"
        BY <1>6, DispatchingOne DEF StartWrite
    <2>2. Dispatching' = <<>>
        BY <1>6, <2>1 DEF StartWrite, SendPackage, TypeOK, Dispatching
    <2>3. packages = <<>> /\ packages' = <<>>
        BY <1>6 DEF StartWrite, LockInv
    <2>4. started' = started \o <<p>> /\ started' \in Seq(Packages)
        BY <1>6, AppendIsConcat, AppendProperties
           DEF StartWrite, SendPackage, TypeOK
    <2>5. order = started \o <<p>>
        BY <2>1, <2>3, ConcatEmptySeq DEF NothingLost, TypeOK
    <2>6. (started' \o packages') \o <<>> = started'
        BY <2>3, <2>4, ConcatEmptySeq
    <2> QED BY <1>6, <2>2, <2>4, <2>5, <2>6 DEF StartWrite, NothingLost
<1>7. ASSUME NEW p \in Packages, PopNext(p) PROVE NothingLost'
    <2>1. /\ packages # <<>>
          /\ packages' = Tail(packages)
          /\ started' = Append(started, Head(packages))
          /\ order' = order
          /\ stage[p] = "pop"
        BY <1>7 DEF PopNext, SendPackage
    <2>2. \A r \in Packages : stage[r] # "check"
        BY <2>1 DEF MutexInv
    <2>3. \A r \in Packages : stage'[r] # "check"
        BY <1>7, <2>2 DEF PopNext, SendPackage, TypeOK
    <2>4. Dispatching = <<>> /\ Dispatching' = <<>>
        BY <2>2, <2>3 DEF Dispatching
    <2>5. started' \o packages' = started \o packages
        BY <2>1, MoveHead DEF TypeOK
    <2> QED BY <2>1, <2>4, <2>5 DEF NothingLost
<1> QED
    BY <1>1, <1>2, <1>3, <1>4, <1>5, <1>6, <1>7 DEF Next, Progress

-----------------------------------------------------------------------------
(***************************************************************************)
(* The theorems.                                                           *)
(***************************************************************************)

\* The conjunction of the parts is inductive.
THEOREM InvariantHolds == Spec => []IInv
<1>1. Init => IInv
    BY TypeInit, LockingInit, QueueInit, NothingLostInit DEF IInv, Locking
<1>2. IInv /\ [Next]_vars => IInv'
    BY TypeNext, LockingNext, QueueNext, NothingLostNext DEF IInv, Locking
<1> QED BY <1>1, <1>2, PTL DEF Spec

\* However many threads send, at most one package is between the initiation of
\* its write and the end of its write handler, as asio demands of a stream.
THEOREM WritesNeverOverlap == Spec => []OneWriteInFlight
BY InvariantHolds, PTL DEF IInv

\* The packages written and the packages queued are, in order, those whose
\* dispatch slot took the mutex.
THEOREM QueueLosesNothing == Spec => []NothingLost
BY InvariantHolds, PTL DEF IInv

\* While a package waits in the queue a write is in flight that will pop it,
\* unless a write has failed.
THEOREM QueueHasDrainer == Spec => []QueueIsDrained
<1>1. IInv => QueueIsDrained
    BY DEF IInv, LockInv, OwnerInv, QueueIsDrained
<1> QED BY <1>1, InvariantHolds, PTL

\* After a write has failed, no unit reaches the wire.
THEOREM FailureSilencesWire == Spec => SilentAfterFailure
<1>1. IInv /\ [Next]_vars => [Failed # {} => wire' = wire]_vars
    <2> SUFFICES ASSUME IInv, Next, Failed # {} PROVE wire' = wire
        BY DEF vars
    <2>1. ASSUME NEW p \in Packages, NEW n \in 1 .. FrameLength[p],
                 Transfer(p, n)
          PROVE  FALSE
        BY <2>1 DEF Transfer, IInv, FailureInv, ErrInv, Busy, Writing, Failed
    <2> QED BY <2>1 DEF Next, Progress, Close, Send, Destroy, WriteFails,
                        Acquire,
            Enqueue, StartWrite, CheckWriteError, HandlerLock, PopNext, Unlock
<1> QED BY <1>1, InvariantHolds, PTL DEF Spec, SilentAfterFailure

-----------------------------------------------------------------------------
(***************************************************************************)
(* Frames on the wire.                                                     *)
(***************************************************************************)

\* How much of a frame is on the wire, by the stage of its package.
SentInv ==
    \A p \in Packages :
        /\ sent[p] <= FrameLength[p]
        /\ stage[p] \in {"idle", "acquire", "check", "queued"} => sent[p] = 0
        /\ stage[p] = "writing" => sent[p] < FrameLength[p]
        /\ stage[p] \in {"completed", "handler", "pop", "done"}
             /\ err[p] = "none" => sent[p] = FrameLength[p]

\* The wire does not stop within a frame.
WireEnded == wire = <<>> \/ LastUnit(wire[Len(wire)])

\* The wire stops where the package being written stands, and at the end of a
\* frame when none is and nothing has failed.
WireInv ==
    /\ \A p \in Packages :
         stage[p] = "writing" =>
             IF sent[p] = 0 THEN WireEnded
             ELSE wire # <<>> /\ wire[Len(wire)] = <<p, sent[p]>>
    /\ Failed = {} /\ (\A p \in Packages : stage[p] # "writing") => WireEnded

\* A package goes on the wire only while nothing has failed, and then the write
\* side of the socket is free but for the handler that starts the write.
LEMMA StartingIsSafe ==
    ASSUME TypeOK, Locking, NEW p \in Packages,
           (stage[p] = "check" /\ ~ locked) \/ stage[p] = "pop"
    PROVE  /\ Failed = {}
           /\ \A r \in Packages \ {p} : stage[r] \notin Writing
           /\ stage[p] # "writing"
           /\ err[p] = "none"
BY DEF Locking, LockInv, FailureInv, OneWriteInFlight, ErrInv, Busy, Writing,
       Failed

\* What a step that starts the write of q does to the stages.
Starting(p, q) ==
    /\ p \in Packages /\ q \in Packages
    /\ \/ stage[p] = "pop" /\ stage[q] = "queued" /\ stage'[p] = "done"
       \/ p = q /\ stage[p] = "check" /\ ~ locked
    /\ stage'[q] = IF socket = "open" THEN "writing" ELSE "completed"
    /\ err'[q] = IF socket = "open" THEN "none" ELSE "other"
    /\ \A r \in Packages \ {p, q} : stage'[r] = stage[r]
    /\ \A r \in Packages \ {q} : err'[r] = err[r]
    /\ started' = Append(started, q)
    /\ UNCHANGED <<sent, wire, order, signals, socket>>

LEMMA StartWriteStarts ==
    ASSUME TypeOK, NEW p \in Packages, StartWrite(p)
    PROVE  Starting(p, p)
BY DEF StartWrite, SendPackage, Starting, TypeOK

LEMMA PopNextStarts ==
    ASSUME TypeOK, QueueInv, NEW p \in Packages, PopNext(p)
    PROVE  Starting(p, Head(packages))
<1> DEFINE q == Head(packages)
<1>1. q \in Packages /\ stage[q] = "queued" /\ stage[p] = "pop" /\ q # p
    BY FrontIsQueued DEF PopNext
<1>2. /\ UNCHANGED <<sent, wire, order, signals, socket>>
      /\ started' = Append(started, q)
      /\ stage' = [stage EXCEPT ![p] = "done",
                    ![q] = IF socket = "open" THEN "writing" ELSE "completed"]
      /\ err' = [err EXCEPT ![q] = IF socket = "open" THEN "none" ELSE "other"]
    BY DEF PopNext, SendPackage
<1> HIDE DEF q
<1>3. Starting(p, q)
    BY <1>1, <1>2 DEF Starting, TypeOK
<1> QED BY <1>3 DEF q

LEMMA SentNext ==
    ASSUME TypeOK, Locking, QueueInv, SentInv, [Next]_vars
    PROVE  SentInv'
<1> USE FrameAssumption
<1>1. CASE Close
    <2>1. PICK e \in {"aborted", "other"} :
            /\ stage' = [p \in Packages |->
                 IF stage[p] = "writing" THEN "completed" ELSE stage[p]]
            /\ err' = [p \in Packages |->
                 IF stage[p] = "writing" THEN e ELSE err[p]]
        BY <1>1 DEF Close
    <2>2. \A p \in Packages :
            /\ stage'[p] =
                 IF stage[p] = "writing" THEN "completed" ELSE stage[p]
            /\ err'[p] = IF stage[p] = "writing" THEN e ELSE err[p]
        BY <2>1
    <2>3. e # "none" /\ sent' = sent
        BY <1>1 DEF Close
    <2> QED BY <2>2, <2>3 DEF SentInv
<1>2. ASSUME NEW p \in Packages, NEW q \in Packages, Starting(p, q)
      PROVE  SentInv'
    <2>1. \A r \in Packages : sent'[r] = sent[r] /\ FrameLength[r] \in Nat \ {0}
        BY <1>2 DEF Starting
    <2>2. /\ sent[q] = 0
          /\ stage'[q] = IF socket = "open" THEN "writing" ELSE "completed"
          /\ err'[q] = IF socket = "open" THEN "none" ELSE "other"
        BY <1>2 DEF Starting, SentInv
    <2>3. p # q => /\ stage[p] = "pop" /\ stage'[p] = "done"
                   /\ err'[p] = err[p]
        BY <1>2 DEF Starting
    <2>4. \A r \in Packages \ {p, q} : stage'[r] = stage[r] /\ err'[r] = err[r]
        BY <1>2 DEF Starting
    <2> QED BY <2>1, <2>2, <2>3, <2>4 DEF SentInv
<1>3. ASSUME NEW p \in Packages, NEW n \in 1 .. FrameLength[p], Transfer(p, n)
      PROVE  SentInv'
    <2>1. /\ n \in Nat /\ n # 0 /\ sent[p] \in Nat /\ FrameLength[p] \in Nat
          /\ sent[p] + n <= FrameLength[p]
          /\ sent'[p] = sent[p] + n
          /\ stage'[p] = IF sent[p] + n = FrameLength[p] THEN "completed"
                                                         ELSE "writing"
          /\ err' = err
          /\ \A r \in Packages \ {p} : sent'[r] = sent[r] /\ stage'[r] = stage[r]
        BY <1>3 DEF Transfer, TypeOK
    <2> QED BY <2>1 DEF SentInv
<1>4. ASSUME NEW p \in Packages,
             \/ Send(p) \/ Destroy(p) \/ WriteFails(p) \/ Acquire(p)
             \/ Enqueue(p) \/ CheckWriteError(p) \/ HandlerLock(p) \/ Unlock(p)
      PROVE  SentInv'
    BY <1>4 DEF Send, Destroy, WriteFails, Acquire, Enqueue, CheckWriteError,
       HandlerLock, Unlock, TypeOK, Locking, SendedInv, SentInv
<1>5. CASE UNCHANGED vars
    BY <1>5 DEF vars, SentInv
<1> QED
    BY <1>1, <1>2, <1>3, <1>4, <1>5, StartWriteStarts, PopNextStarts,
       FrontIsQueued DEF Next, Progress, PopNext

\* The units that a transfer adds to the wire.
LEMMA TransferWire ==
    ASSUME TypeOK, NEW p \in Packages, NEW n \in Nat \ {0}, Transfer(p, n)
    PROVE  /\ Len(wire) \in Nat
           /\ Len(wire') = Len(wire) + n
           /\ \A k \in 1 .. Len(wire) : wire'[k] = wire[k]
           /\ \A i \in 1 .. n : wire'[Len(wire) + i] = <<p, sent[p] + i>>
<1> DEFINE u == Units(p, n)
<1>1. /\ u \in Seq(Packages \X Nat) /\ wire \in Seq(Packages \X Nat)
      /\ wire' = wire \o u
    BY UnitsType DEF Transfer, TypeOK
<1>2. Len(u) = n /\ \A i \in 1 .. n : u[i] = <<p, sent[p] + i>>
    BY DEF Units
<1> HIDE DEF u
<1>3. Len(wire) \in Nat
    BY <1>1, LenProperties
<1>4. /\ Len(wire') = Len(wire) + n
      /\ \A k \in 1 .. Len(wire) + n : wire'[k] =
            IF k <= Len(wire) THEN wire[k] ELSE u[k - Len(wire)]
    BY <1>1, <1>2, ConcatProperties
<1>5. \A i \in 1 .. n : /\ Len(wire) + i \in 1 .. Len(wire) + n
                        /\ ~ (Len(wire) + i <= Len(wire))
                        /\ (Len(wire) + i) - Len(wire) = i
    BY <1>3
<1> QED BY <1>2, <1>3, <1>4, <1>5

LEMMA WireNext ==
    ASSUME TypeOK, Locking, QueueInv, SentInv, WireInv, FramesContiguous,
           [Next]_vars
    PROVE  WireInv' /\ FramesContiguous'
<1> USE FrameAssumption
<1>1. CASE Close
    <2>1. FramesContiguous' /\ (WireEnded' <=> WireEnded)
        BY <1>1 DEF Close, FramesContiguous, WireEnded, LastUnit
    <2>2. \A p \in Packages : stage'[p] # "writing"
        BY <1>1 DEF Close, TypeOK
    <2>3. Failed' = {} => Failed = {} /\ \A p \in Packages : stage[p] # "writing"
        BY <1>1 DEF Close, TypeOK, Failed
    <2> QED BY <2>1, <2>2, <2>3 DEF WireInv
<1>2. ASSUME NEW p \in Packages, NEW q \in Packages, Starting(p, q)
      PROVE  WireInv' /\ FramesContiguous'
    <2>1. /\ Failed = {}
          /\ \A r \in Packages \ {p} : stage[r] \notin Writing
          /\ stage[p] # "writing"
        BY <1>2, StartingIsSafe DEF Starting
    <2>2. WireEnded
        BY <2>1 DEF WireInv, Writing
    <2>3. sent'[q] = 0
        BY <1>2 DEF Starting, SentInv
    <2>4. \A r \in Packages \ {q} : stage'[r] # "writing"
        BY <1>2, <2>1 DEF Starting, Writing
    <2>5. WireEnded' /\ FramesContiguous'
        BY <1>2, <2>2 DEF Starting, WireEnded, LastUnit, FramesContiguous
    <2> QED BY <2>3, <2>4, <2>5 DEF WireInv
<1>3. ASSUME NEW p \in Packages, NEW n \in 1 .. FrameLength[p], Transfer(p, n)
      PROVE  WireInv' /\ FramesContiguous'
    <2>1. /\ n \in Nat \ {0} /\ sent[p] \in Nat
          /\ stage[p] = "writing" /\ err' = err
          /\ sent'[p] = sent[p] + n
          /\ stage'[p] = IF sent[p] + n = FrameLength[p] THEN "completed"
                                                         ELSE "writing"
          /\ \A r \in Packages \ {p} : stage'[r] = stage[r]
        BY <1>3 DEF Transfer, TypeOK
    <2> DEFINE L == Len(wire)
    <2>2. /\ L \in Nat
          /\ Len(wire') = L + n
          /\ \A k \in 1 .. L : wire'[k] = wire[k]
          /\ \A i \in 1 .. n : wire'[L + i] = <<p, sent[p] + i>>
        BY <1>3, <2>1, TransferWire
    <2>3. IF sent[p] = 0 THEN L = 0 \/ LastUnit(wire[L])
                         ELSE L # 0 /\ wire[L] = <<p, sent[p]>>
        BY <2>1, EmptySeq DEF WireInv, WireEnded, TypeOK
    <2>4. \A r \in Packages \ {p} : stage'[r] # "writing"
        BY <2>1 DEF Locking, OneWriteInFlight, Busy, Writing
    <2>5. wire' # <<>> /\ wire'[Len(wire')] = <<p, sent[p] + n>>
        BY <2>1, <2>2
    <2>6. WireInv'
        BY <2>1, <2>4, <2>5 DEF WireInv, WireEnded, LastUnit
    <2>7. ASSUME NEW k \in 1 .. Len(wire')
          PROVE  IF wire'[k][2] = 1
                 THEN k = 1 \/ LastUnit(wire'[k - 1])
                 ELSE k > 1 /\ wire'[k - 1] = <<wire'[k][1], wire'[k][2] - 1>>
        <3> HIDE DEF L
        <3>1. CASE k \in 1 .. L
            <4>1. k # 1 => k - 1 \in 1 .. L
                BY <3>1, <2>2
            <4>2. IF wire[k][2] = 1
                  THEN k = 1 \/ LastUnit(wire[k - 1])
                  ELSE k > 1 /\ wire[k - 1] = <<wire[k][1], wire[k][2] - 1>>
                BY <3>1 DEF FramesContiguous, L
            <4>3. k > 1 => k # 1
                OBVIOUS
            <4> QED BY <3>1, <4>1, <4>2, <4>3, <2>2
        <3>2. CASE k = L + 1
            <4>1. wire'[k] = <<p, sent[p] + 1>> /\ k - 1 = L
                <5>1. 1 \in 1 .. n
                    BY <2>1
                <5> QED BY <5>1, <3>2, <2>2
            <4>2. L # 0 => wire'[L] = wire[L]
                BY <2>2
            <4>3. CASE sent[p] = 0
                <5>1. wire'[k] = <<p, 1>> /\ wire'[k][2] = 1
                    <6>1. sent[p] + 1 = 1
                        BY <4>3
                    <6> QED BY <4>1, <6>1
                <5>2. k = 1 \/ LastUnit(wire'[k - 1])
                    BY <3>2, <4>1, <4>2, <4>3, <2>2, <2>3
                <5> QED BY <5>1, <5>2
            <4>4. CASE sent[p] # 0
                <5>1. sent[p] + 1 # 1 /\ (sent[p] + 1) - 1 = sent[p]
                    BY <2>1, <4>4
                <5>2. k > 1 /\ wire'[k - 1] = <<p, sent[p]>>
                    BY <3>2, <4>1, <4>2, <4>4, <2>2, <2>3
                <5> QED BY <4>1, <5>1, <5>2
            <4> QED BY <4>3, <4>4
        <3>3. CASE k \in L + 2 .. L + n
            <4>1. PICK i \in 2 .. n : k = L + i
                <5>1. k - L \in 2 .. n /\ k = L + (k - L)
                    BY <3>3, <2>1, <2>2
                <5> QED BY <5>1
            <4>2. /\ i \in 1 .. n /\ i - 1 \in 1 .. n /\ k - 1 = L + (i - 1)
                  /\ k > 1
                BY <4>1, <2>1, <2>2
            <4>3. /\ wire'[k] = <<p, sent[p] + i>>
                  /\ wire'[k - 1] = <<p, sent[p] + (i - 1)>>
                BY <4>1, <4>2, <2>2
            <4>4. sent[p] + i # 1 /\ sent[p] + (i - 1) = (sent[p] + i) - 1
                BY <4>1, <2>1
            <4> QED BY <4>2, <4>3, <4>4
        <3> QED BY <3>1, <3>2, <3>3, <2>1, <2>2
    <2>8. FramesContiguous'
        BY <2>7 DEF FramesContiguous, LastUnit
    <2> QED BY <2>6, <2>8
<1>4. ASSUME NEW p \in Packages,
             \/ Send(p) \/ Destroy(p) \/ WriteFails(p) \/ Acquire(p)
             \/ Enqueue(p) \/ CheckWriteError(p) \/ HandlerLock(p) \/ Unlock(p)
      PROVE  WireInv' /\ FramesContiguous'
    <2>1. UNCHANGED <<wire, sent>>
        BY <1>4 DEF Send, Destroy, WriteFails, Acquire, Enqueue,
           CheckWriteError, HandlerLock, Unlock
    <2>2. FramesContiguous' /\ (WireEnded' <=> WireEnded)
        BY <2>1 DEF FramesContiguous, WireEnded, LastUnit
    <2>3. \A r \in Packages : stage'[r] = "writing" => stage[r] = "writing"
        BY <1>4 DEF Send, Destroy, WriteFails, Acquire, Enqueue,
           CheckWriteError, HandlerLock, Unlock, TypeOK
    <2>4. Failed' = {} => /\ Failed = {}
                          /\ \A r \in Packages :
                                stage[r] = "writing" => stage'[r] = "writing"
        BY <1>4 DEF Send, Destroy, WriteFails, Acquire, Enqueue,
           CheckWriteError, HandlerLock, Unlock, TypeOK, Failed, Locking,
           SendedInv, ErrInv
    <2> QED BY <2>1, <2>2, <2>3, <2>4 DEF WireInv
<1>5. CASE UNCHANGED vars
    BY <1>5 DEF vars, WireInv, FramesContiguous, WireEnded, LastUnit, Failed
<1> QED
    BY <1>1, <1>2, <1>3, <1>4, <1>5, StartWriteStarts, PopNextStarts,
       FrontIsQueued DEF Next, Progress, PopNext

-----------------------------------------------------------------------------
(***************************************************************************)
(* Error signals.                                                          *)
(***************************************************************************)

\* The packages whose failed write has been reported or passed over.
DoneFailed == {p \in Packages : stage[p] = "done" /\ err[p] # "none"}

\* An error signal leaves such a package behind, and nothing is written after.
ErrorInv ==
    /\ \A k \in 1 .. Len(signals) : signals[k] = "error" => DoneFailed # {}
    /\ DoneFailed # {} => Busy = {}

LEMMA ErrorNext ==
    ASSUME TypeOK, Locking, QueueInv, ErrorInv, AtMostOneError, [Next]_vars
    PROVE  ErrorInv' /\ AtMostOneError'
<1>1. CASE Close
    <2>1. Busy' = Busy
        BY <1>1 DEF Close, TypeOK, Busy, Writing
    <2>2. DoneFailed' = DoneFailed
        BY <1>1 DEF Close, TypeOK, DoneFailed
    <2>3. /\ Len(signals) \in Nat
          /\ Len(signals') = Len(signals) + 1
          /\ signals'[Len(signals) + 1] = "closed"
          /\ \A k \in 1 .. Len(signals) : signals'[k] = signals[k]
        BY <1>1, AppendProperties, LenProperties DEF Close, TypeOK
    <2> QED BY <2>1, <2>2, <2>3 DEF ErrorInv, AtMostOneError
<1>2. ASSUME NEW p \in Packages, NEW q \in Packages, Starting(p, q)
      PROVE  ErrorInv' /\ AtMostOneError'
    <2>1. Failed = {} /\ err[p] = "none"
        BY <1>2, StartingIsSafe DEF Starting
    <2>2. DoneFailed = {}
        BY <2>1 DEF Failed, DoneFailed
    <2>3. DoneFailed' = {}
        BY <1>2, <2>1 DEF Starting, Failed, DoneFailed
    <2> QED BY <1>2, <2>2, <2>3 DEF Starting, ErrorInv, AtMostOneError
<1>3. ASSUME NEW p \in Packages, CheckWriteError(p)
      PROVE  ErrorInv' /\ AtMostOneError'
    <2>1. Busy = {p}
        BY <1>3 DEF CheckWriteError, Locking, OneWriteInFlight, Busy, Writing
    <2>2. DoneFailed = {}
        BY <2>1 DEF ErrorInv
    <2>3. \A k \in 1 .. Len(signals) : signals[k] # "error"
        BY <2>2 DEF ErrorInv
    <2>4. /\ DoneFailed' = IF err[p] = "none" THEN {} ELSE {p}
          /\ err[p] # "none" => Busy' = {}
        BY <1>3, <2>1, <2>2 DEF CheckWriteError, TypeOK, DoneFailed, Busy,
           Writing
    <2>5. CASE err[p] = "other"
        <3>1. /\ Len(signals) \in Nat
              /\ Len(signals') = Len(signals) + 1
              /\ \A k \in 1 .. Len(signals) : signals'[k] = signals[k]
            BY <1>3, <2>5, AppendProperties, LenProperties
               DEF CheckWriteError, TypeOK
        <3> QED BY <2>3, <2>4, <2>5, <3>1 DEF ErrorInv, AtMostOneError
    <2>6. CASE err[p] # "other"
        BY <1>3, <2>3, <2>4, <2>6
           DEF CheckWriteError, ErrorInv, AtMostOneError
    <2> QED BY <2>5, <2>6
<1>4. ASSUME NEW p \in Packages,
             \/ Send(p) \/ Destroy(p) \/ WriteFails(p) \/ Acquire(p)
             \/ Enqueue(p) \/ HandlerLock(p) \/ Unlock(p)
             \/ \E n \in 1 .. FrameLength[p] : Transfer(p, n)
      PROVE  ErrorInv' /\ AtMostOneError'
    <2>1. signals' = signals /\ Busy' \subseteq Busy
        BY <1>4 DEF Send, Destroy, WriteFails, Acquire, Enqueue, HandlerLock,
           Unlock, Transfer, TypeOK, Locking, SendedInv, Busy, Writing
    <2>2. DoneFailed' = DoneFailed
        BY <1>4 DEF Send, Destroy, WriteFails, Acquire, Enqueue, HandlerLock,
           Unlock, Transfer, TypeOK, Locking, SendedInv, ErrInv, DoneFailed
    <2> QED BY <2>1, <2>2 DEF ErrorInv, AtMostOneError
<1>5. CASE UNCHANGED vars
    BY <1>5 DEF vars, ErrorInv, AtMostOneError, DoneFailed, Busy
<1> QED
    BY <1>1, <1>2, <1>3, <1>4, <1>5, StartWriteStarts, PopNextStarts,
       FrontIsQueued DEF Next, Progress, PopNext

-----------------------------------------------------------------------------
(***************************************************************************)
(* The histories of writes and of dispatches.                              *)
(***************************************************************************)

\* The writes initiated are those of distinct packages, all but the last are
\* complete, and the last is the one in flight if any is.
StartedInv ==
    /\ \A i \in 1 .. Len(started) : stage[started[i]] \in Writing \cup {"done"}
    /\ \A i, j \in 1 .. Len(started) : started[i] = started[j] => i = j
    /\ \A i \in 1 .. Len(started) :
         i < Len(started) => sent[started[i]] = FrameLength[started[i]]
    /\ \A p \in Packages : stage[p] \in Writing =>
         started # <<>> /\ started[Len(started)] = p

\* Packages are in the order of their dispatch once they are past the mutex.
OrderInv == \A i \in 1 .. Len(order) : stage[order[i]] \notin {"idle", "acquire"}

\* A step that starts nothing and takes nothing back keeps the invariant.
LEMMA StartedUntouched ==
    ASSUME TypeOK, StartedInv, started' = started,
           \A r \in Packages :
             /\ stage[r] \in Writing => stage'[r] \in Writing \cup {"done"}
             /\ stage[r] = "done" => stage'[r] = "done"
             /\ stage'[r] \in Writing => stage[r] \in Writing
             /\ sent[r] = FrameLength[r] => sent'[r] = sent[r]
    PROVE  StartedInv'
<1>1. \A i \in 1 .. Len(started) : started[i] \in Packages
    BY ElementOfSeq DEF TypeOK
<1> QED BY <1>1 DEF StartedInv

LEMMA StartedNext ==
    ASSUME TypeOK, Locking, QueueInv, SentInv, StartedInv, [Next]_vars
    PROVE  StartedInv'
<1>1. CASE Close \/ UNCHANGED vars
    BY <1>1, StartedUntouched DEF Close, vars, TypeOK, Writing
<1>2. ASSUME NEW p \in Packages, NEW q \in Packages, Starting(p, q)
      PROVE  StartedInv'
    <2> DEFINE n == Len(started)
    <2>1. /\ Failed = {}
          /\ \A r \in Packages \ {p} : stage[r] \notin Writing
        BY <1>2, StartingIsSafe DEF Starting
    <2>2. /\ n \in Nat /\ Len(started') = n + 1 /\ started'[n + 1] = q
          /\ \A i \in 1 .. n : /\ started'[i] = started[i]
                               /\ started[i] \in Packages
        BY <1>2, AppendProperties, LenProperties, ElementOfSeq
           DEF Starting, TypeOK
    <2>3. stage[q] \in {"check", "queued"} /\ stage'[q] \in Writing
        BY <1>2 DEF Starting, Writing
    <2>4. \A i \in 1 .. n : started[i] # q
        BY <2>3 DEF StartedInv, Writing
    <2>5. ASSUME NEW i \in 1 .. n
          PROVE  stage[started[i]] \in {"pop", "done"} /\ stage'[started[i]] = "done"
        <3>1. started[i] # q /\ stage[started[i]] \in Writing \cup {"done"}
            BY <2>4 DEF StartedInv
        <3>2. CASE started[i] = p
            BY <1>2, <3>1, <3>2 DEF Starting, Writing
        <3>3. CASE started[i] # p
            BY <1>2, <2>1, <2>2, <3>1, <3>3 DEF Starting
        <3> QED BY <3>2, <3>3
    <2>6. ASSUME NEW i \in 1 .. n
          PROVE  sent'[started[i]] = FrameLength[started[i]]
        BY <1>2, <2>1, <2>2, <2>5 DEF Starting, SentInv, Failed
    <2>7. \A r \in Packages \ {q} : stage'[r] \notin Writing
        BY <1>2, <2>1 DEF Starting, Writing
    <2> HIDE DEF n
    <2>8. started' # <<>>
        BY <2>2
    <2>9. ASSUME NEW i \in 1 .. Len(started')
          PROVE  /\ stage'[started'[i]] \in Writing \cup {"done"}
                 /\ i < Len(started') =>
                      sent'[started'[i]] = FrameLength[started'[i]]
        <3>1. CASE i = n + 1
            BY <3>1, <2>2, <2>3
        <3>2. CASE i \in 1 .. n
            BY <3>2, <2>2, <2>5, <2>6
        <3> QED BY <3>1, <3>2, <2>2
    <2>10. ASSUME NEW i \in 1 .. Len(started'), NEW j \in 1 .. Len(started'),
                  started'[i] = started'[j]
           PROVE  i = j
        BY <2>2, <2>4, <2>10 DEF StartedInv, n
    <2> QED BY <2>2, <2>7, <2>8, <2>9, <2>10 DEF StartedInv
<1>3. ASSUME NEW p \in Packages, NEW n \in 1 .. FrameLength[p], Transfer(p, n)
      PROVE  StartedInv'
    <2>1. sent[p] # FrameLength[p]
        BY <1>3, FrameAssumption DEF Transfer, SentInv, TypeOK
    <2> QED BY <1>3, <2>1, StartedUntouched DEF Transfer, TypeOK, Writing
<1>4. ASSUME NEW p \in Packages,
             \/ Send(p) \/ Destroy(p) \/ WriteFails(p) \/ Acquire(p)
             \/ Enqueue(p) \/ CheckWriteError(p) \/ HandlerLock(p) \/ Unlock(p)
      PROVE  StartedInv'
    BY <1>4, StartedUntouched DEF Send, Destroy, WriteFails, Acquire, Enqueue,
       CheckWriteError, HandlerLock, Unlock, TypeOK, Locking, SendedInv,
       Writing
<1> QED
    BY <1>1, <1>2, <1>3, <1>4, StartWriteStarts, PopNextStarts,
       FrontIsQueued DEF Next, Progress, PopNext

LEMMA OrderNext ==
    ASSUME TypeOK, Locking, QueueInv, OrderInv, [Next]_vars
    PROVE  OrderInv'
<1>1. ASSUME order' = order,
             \A r \in Packages : stage[r] \notin {"idle", "acquire"} =>
                stage'[r] \notin {"idle", "acquire"}
      PROVE  OrderInv'
    <2>1. \A i \in 1 .. Len(order) : order[i] \in Packages
        BY ElementOfSeq DEF TypeOK
    <2> QED BY <1>1, <2>1 DEF OrderInv
<1>2. ASSUME NEW p \in Packages, Acquire(p) PROVE OrderInv'
    <2>1. /\ Len(order) \in Nat /\ Len(order') = Len(order) + 1
          /\ order'[Len(order) + 1] = p
          /\ \A i \in 1 .. Len(order) : /\ order'[i] = order[i]
                                      /\ order[i] \in Packages
        BY <1>2, AppendProperties, LenProperties, ElementOfSeq
           DEF Acquire, TypeOK
    <2>2. /\ stage'[p] = "check"
          /\ \A r \in Packages \ {p} : stage'[r] = stage[r]
        BY <1>2 DEF Acquire, TypeOK
    <2> QED BY <2>1, <2>2 DEF OrderInv
<1>3. ASSUME NEW p \in Packages, NEW q \in Packages, Starting(p, q)
      PROVE  OrderInv'
    BY <1>1, <1>3 DEF Starting
<1>4. CASE Close \/ UNCHANGED vars
    BY <1>1, <1>4 DEF Close, vars, TypeOK
<1>5. ASSUME NEW p \in Packages,
             \/ Send(p) \/ Destroy(p) \/ WriteFails(p) \/ Enqueue(p)
             \/ CheckWriteError(p) \/ HandlerLock(p) \/ Unlock(p)
             \/ \E n \in 1 .. FrameLength[p] : Transfer(p, n)
      PROVE  OrderInv'
    BY <1>1, <1>5 DEF Send, Destroy, WriteFails, Enqueue, CheckWriteError,
       HandlerLock, Unlock, Transfer, TypeOK, Locking, SendedInv
<1> QED
    BY <1>2, <1>3, <1>4, <1>5, StartWriteStarts, PopNextStarts,
       FrontIsQueued DEF Next, Progress, PopNext

-----------------------------------------------------------------------------
(***************************************************************************)
(* The invariants of the wire and of the histories, together with IInv.    *)
(***************************************************************************)

\* Inductive, with the locks and the queue it rests on.
Wired ==
    /\ IInv
    /\ SentInv
    /\ WireInv
    /\ FramesContiguous
    /\ ErrorInv
    /\ AtMostOneError
    /\ StartedInv
    /\ OrderInv

LEMMA WiredHolds == Spec => []Wired
<1>1. Init => Wired
    <2> SUFFICES ASSUME Init PROVE Wired
        OBVIOUS
    <2>1. IInv
        BY TypeInit, LockingInit, QueueInit, NothingLostInit DEF IInv, Locking
    <2>2. Busy = {} /\ DoneFailed = {}
        BY DEF Init, Busy, Writing, DoneFailed
    <2>3. SentInv
        BY FrameAssumption DEF Init, SentInv
    <2>4. /\ Len(wire) = 0 /\ Len(signals) = 0
          /\ Len(started) = 0 /\ Len(order) = 0
        BY EmptySeq DEF Init
    <2>5. WireInv /\ FramesContiguous
        BY <2>4 DEF Init, WireInv, WireEnded, FramesContiguous
    <2>6. ErrorInv /\ AtMostOneError /\ OrderInv
        BY <2>2, <2>4 DEF ErrorInv, AtMostOneError, OrderInv
    <2>7. StartedInv
        BY <2>2, <2>4 DEF StartedInv, Busy
    <2> QED BY <2>1, <2>3, <2>5, <2>6, <2>7 DEF Wired
<1>2. Wired /\ [Next]_vars => Wired'
    <2>1. IInv /\ [Next]_vars => IInv'
        BY TypeNext, LockingNext, QueueNext, NothingLostNext DEF IInv, Locking
    <2> QED BY <2>1, SentNext, WireNext, ErrorNext, StartedNext, OrderNext
            DEF Wired, IInv, Locking
<1> QED BY <1>1, <1>2, PTL DEF Spec

\* What the socket takes is frame after frame, each whole but perhaps the last
\* one, whatever threads send and wherever writes stop.
THEOREM FramesStayWhole == Spec => []FramesContiguous
BY WiredHolds, PTL DEF Wired

\* However many packages are sent, at most one failed write is reported.
THEOREM OneErrorReported == Spec => []AtMostOneError
BY WiredHolds, PTL DEF Wired

-----------------------------------------------------------------------------
(***************************************************************************)
(* The abstract channel.                                                   *)
(***************************************************************************)

\* The packages whose frame is complete on the wire, as a set.
Complete == {p \in Packages : sent[p] = FrameLength[p]}

LEMMA TransmittedUntouched ==
    ASSUME TypeOK, TypeOK', started' = started, sent' = sent
    PROVE  Transmitted' = Transmitted
BY DEF Transmitted

\* Starting a write transmits nothing yet.
LEMMA TransmittedStarting ==
    ASSUME TypeOK, SentInv, NEW p \in Packages, NEW q \in Packages,
           Starting(p, q)
    PROVE  Transmitted' = Transmitted
<1>1. sent' = sent /\ started' = Append(started, q) /\ sent[q] = 0
    BY DEF Starting, SentInv
<1>2. q \notin Complete
    BY <1>1, FrameAssumption DEF Complete
<1>3. Transmitted = Selected(started, Complete)
    BY DEF Transmitted, Complete
<1>4. Transmitted' = Selected(started', Complete)
    BY <1>1 DEF Transmitted, Complete
<1>5. Selected(Append(started, q), Complete) = Selected(started, Complete)
    BY <1>2, SelectedAppend DEF TypeOK
<1> QED BY <1>1, <1>3, <1>4, <1>5

\* The part of a write that completes a frame transmits the package that is next
\* in the order of dispatch; any other part transmits nothing.
LEMMA TransmittedTransfer ==
    ASSUME TypeOK, Wired, NEW p \in Packages, NEW n \in Nat \ {0},
           n <= FrameLength[p], Transfer(p, n)
    PROVE  \/ Transmitted' = Transmitted
           \/ /\ Len(Transmitted) < Len(order)
              /\ Transmitted' = Append(Transmitted, order[Len(Transmitted) + 1])
<1> DEFINE m == Len(started) - 1
           f == SubSeq(started, 1, m)
<1>1. /\ stage[p] = "writing" /\ sent[p] # FrameLength[p]
      /\ started' = started
      /\ sent'[p] = sent[p] + n
      /\ \A r \in Packages \ {p} : sent'[r] = sent[r]
    BY FrameAssumption DEF Transfer, Wired, SentInv, TypeOK
<1>2. /\ m \in Nat /\ Len(started) \in Nat /\ Len(started) = m + 1
      /\ m + 1 \in 1 .. Len(started)
      /\ started[m + 1] = p
    BY <1>1, EmptySeq, LenProperties DEF Wired, StartedInv, TypeOK, Writing
<1>3. \A i \in 1 .. m : /\ started[i] \in Packages
                        /\ started[i] # p
                        /\ sent[started[i]] = FrameLength[started[i]]
    <2>1. ASSUME NEW i \in 1 .. m
          PROVE  /\ i \in 1 .. Len(started) /\ i < Len(started)
                 /\ i # Len(started) /\ Len(started) \in 1 .. Len(started)
                 /\ started[Len(started)] = p
        <3> HIDE DEF m
        <3> QED BY <1>2
    <2> QED BY <2>1, ElementOfSeq DEF Wired, StartedInv, TypeOK
<1>4. /\ f \in Seq(Packages) /\ Len(f) = m
      /\ \A i \in 1 .. m : f[i] = started[i]
    <2>1. \A i \in 1 .. m : started[i] \in Packages
        BY <1>3
    <2>2. 1 \in Int /\ m \in Int /\ m - 1 + 1 = m /\ (m < 1 => m = 0)
        BY <1>2
    <2> HIDE DEF m
    <2>3. /\ f \in Seq(Packages)
          /\ Len(f) = IF 1 <= m THEN m - 1 + 1 ELSE 0
          /\ \A i \in 1 .. m - 1 + 1 : f[i] = started[1 + i - 1]
        BY <2>1, <2>2, SubSeqProperties
    <2>4. \A i \in 1 .. m : started[1 + i - 1] = started[i]
        OBVIOUS
    <2> QED BY <2>2, <2>3, <2>4
<1>5. started = Append(f, p)
    <2>1. /\ Append(f, p) \in Seq(Packages)
          /\ Len(Append(f, p)) = m + 1
          /\ \A i \in 1 .. m : Append(f, p)[i] = f[i]
          /\ Append(f, p)[m + 1] = p
        BY <1>4, AppendProperties
    <2> HIDE DEF f, m
    <2>2. \A i \in 1 .. Len(started) : started[i] = Append(f, p)[i]
        BY <1>2, <1>4, <2>1
    <2>3. started \in Seq(Packages) /\ Len(started) = Len(Append(f, p))
        BY <1>2, <2>1 DEF TypeOK
    <2> QED BY <2>1, <2>2, <2>3, SeqEqual
<1> HIDE DEF f, m
<1>6. Selected(f, Complete) = f
    <2>1. \A i \in 1 .. Len(f) : f[i] \in Complete
        BY <1>3, <1>4 DEF Complete
    <2> QED BY <1>4, <2>1, SelectedAll
<1>7. Transmitted = f
    <2>1. p \notin Complete
        BY <1>1 DEF Complete
    <2> QED BY <1>4, <1>5, <1>6, <2>1, SelectedAppend DEF Transmitted, Complete
<1>8. Selected(f, Complete') = f
    <2>1. \A i \in 1 .. Len(f) : f[i] \in Complete'
        BY <1>1, <1>3, <1>4 DEF Complete
    <2> QED BY <1>4, <2>1, SelectedAll
<1>9. Transmitted' = Selected(Append(f, p), Complete')
    BY <1>1, <1>5 DEF Transmitted, Complete
<1>10. CASE p \notin Complete'
    BY <1>4, <1>7, <1>8, <1>9, <1>10, SelectedAppend
<1>11. CASE p \in Complete'
    <2>1. Transmitted' = Append(f, p)
        BY <1>4, <1>8, <1>9, <1>11, SelectedAppend
    <2>2. m + 1 <= Len(order) /\ order[m + 1] = p
        <3>1. Dispatching \in Seq(Packages)
            BY EmptySeq DEF Dispatching, Wired, IInv, MutexInv, TypeOK
        <3> DEFINE sp == started \o packages
        <3>2. /\ sp \in Seq(Packages)
              /\ Len(sp) = Len(started) + Len(packages)
              /\ \A i \in 1 .. Len(started) + Len(packages) : sp[i] =
                    IF i <= Len(started) THEN started[i]
                    ELSE packages[i - Len(started)]
            BY ConcatProperties DEF TypeOK
        <3>3. Len(packages) \in Nat /\ Len(Dispatching) \in Nat
            BY <3>1, LenProperties DEF TypeOK
        <3>4. order = sp \o Dispatching
            BY DEF Wired, IInv, NothingLost
        <3> HIDE DEF sp
        <3>5. /\ Len(order) = Len(sp) + Len(Dispatching)
              /\ \A i \in 1 .. Len(sp) + Len(Dispatching) : order[i] =
                    IF i <= Len(sp) THEN sp[i] ELSE Dispatching[i - Len(sp)]
            BY <3>1, <3>2, <3>4, ConcatProperties
        <3>6. /\ m + 1 \in 1 .. Len(sp) + Len(Dispatching)
              /\ m + 1 \in 1 .. Len(started) + Len(packages)
              /\ m + 1 <= Len(sp) /\ m + 1 <= Len(started)
            BY <1>2, <3>2, <3>3
        <3> QED BY <1>2, <3>2, <3>3, <3>5, <3>6
    <2>3. m < Len(order)
        <3>1. Len(order) \in Nat
            BY LenProperties DEF TypeOK
        <3> QED BY <3>1, <2>2, <1>2
    <2> QED BY <1>4, <1>7, <2>1, <2>2, <2>3
<1> QED BY <1>10, <1>11

\* Every step of the sending half is a step of the abstract channel or leaves
\* the channel as it is.
LEMMA StepRefines ==
    ASSUME Wired, Wired', [Next]_vars
    PROVE  [Channel!Next]_(Channel!vars)
<1> DEFINE Broken == socket = "closed" \/ Failed # {}
<1> USE DEF Channel!Next, Channel!vars
<1>1. TypeOK /\ TypeOK' /\ Locking /\ QueueInv /\ SentInv
    BY DEF Wired, IInv, Locking
<1>2. ASSUME UNCHANGED <<order, Transmitted>>, Broken => Broken'
      PROVE  [Channel!Next]_(Channel!vars)
    <2>1. Broken \in BOOLEAN /\ Broken' \in BOOLEAN
        OBVIOUS
    <2> QED BY <1>2, <2>1, Zenon DEF Channel!Break
<1>3. ASSUME UNCHANGED <<started, sent, order>>, Failed = Failed' \/ Failed' # {},
             socket = "closed" => socket' = "closed"
      PROVE  [Channel!Next]_(Channel!vars)
    BY <1>1, <1>2, <1>3, TransmittedUntouched
<1>4. CASE Close
    <2>1. Failed \subseteq Failed'
        BY <1>1, <1>4 DEF Close, TypeOK, Failed
    <2> QED BY <1>3, <1>4, <2>1 DEF Close
<1>5. ASSUME NEW p \in Packages, NEW q \in Packages, Starting(p, q)
      PROVE  [Channel!Next]_(Channel!vars)
    <2>1. Failed = {} /\ UNCHANGED <<socket, order>>
        BY <1>1, <1>5, StartingIsSafe DEF Starting
    <2> QED BY <1>1, <1>2, <1>5, <2>1, TransmittedStarting
<1>6. ASSUME NEW p \in Packages, NEW n \in 1 .. FrameLength[p], Transfer(p, n)
      PROVE  [Channel!Next]_(Channel!vars)
    <2>1. n \in Nat \ {0} /\ n <= FrameLength[p]
        BY FrameAssumption
    <2>2. UNCHANGED <<order, err, socket>> /\ socket = "open"
        BY <1>6 DEF Transfer
    <2>3. Failed = {}
        BY <1>6 DEF Transfer, Wired, IInv, FailureInv, ErrInv, Busy, Writing,
           Failed
    <2>4. Broken = FALSE /\ Broken' = FALSE
        BY <2>2, <2>3 DEF Failed
    <2>5. CASE Transmitted' = Transmitted
        BY <1>2, <2>2, <2>4, <2>5
    <2>6. CASE /\ Len(Transmitted) < Len(order)
               /\ Transmitted' = Append(Transmitted, order[Len(Transmitted) + 1])
        BY <2>2, <2>4, <2>6 DEF Channel!Transmit
    <2> QED BY <1>1, <1>6, <2>1, <2>5, <2>6, TransmittedTransfer
<1>7. ASSUME NEW p \in Packages, Acquire(p)
      PROVE  [Channel!Next]_(Channel!vars)
    <2>1. \A i \in 1 .. Len(order) : order[i] # p
        BY <1>7 DEF Acquire, Wired, OrderInv
    <2>2. /\ order' = Append(order, p)
          /\ UNCHANGED <<started, sent, err, socket>>
        BY <1>7 DEF Acquire
    <2>3. Transmitted' = Transmitted /\ Broken' = Broken
        BY <1>1, <2>2, TransmittedUntouched DEF Failed
    <2> QED BY <2>1, <2>2, <2>3 DEF Channel!Accept
<1>8. ASSUME NEW p \in Packages,
             \/ Send(p) \/ Destroy(p) \/ Enqueue(p) \/ CheckWriteError(p)
             \/ HandlerLock(p) \/ Unlock(p)
      PROVE  [Channel!Next]_(Channel!vars)
    <2>1. UNCHANGED <<started, sent, order, socket, err>>
        BY <1>8 DEF Send, Destroy, Enqueue, CheckWriteError, HandlerLock, Unlock
    <2> QED BY <1>3, <2>1 DEF Failed
<1>9. ASSUME NEW p \in Packages, WriteFails(p)
      PROVE  [Channel!Next]_(Channel!vars)
    <2>1. p \in Failed' /\ UNCHANGED <<started, sent, order, socket>>
        BY <1>1, <1>9 DEF WriteFails, TypeOK, Failed
    <2> QED BY <1>3, <2>1
<1>10. CASE UNCHANGED vars
    BY <1>3, <1>10 DEF vars, Failed
<1> QED
    BY <1>1, <1>4, <1>5, <1>6, <1>7, <1>8, <1>9, <1>10, StartWriteStarts,
       PopNextStarts, FrontIsQueued DEF Next, Progress, PopNext

\* The sending half implements the safety part of the abstract channel: the
\* packages leave whole, in the order of their dispatch, each once, and nothing
\* leaves after a failure or close.
THEOREM SendingRefinesChannel == Spec => Channel!Spec
<1>1. Init => Channel!Init
    <2> SUFFICES ASSUME Init PROVE Channel!Init
        OBVIOUS
    <2>1. Transmitted = <<>>
        BY SelectedEmpty DEF Init, Transmitted
    <2>2. (socket = "closed" \/ Failed # {}) = FALSE
        BY DEF Init, Failed
    <2> QED BY <2>1, <2>2 DEF Init, Channel!Init
<1>2. Wired /\ Wired' /\ [Next]_vars => [Channel!Next]_(Channel!vars)
    BY StepRefines
<1> QED BY <1>1, <1>2, WiredHolds, PTL DEF Spec, Channel!Spec
=============================================================================
