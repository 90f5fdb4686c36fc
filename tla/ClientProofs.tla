---------------------------- MODULE ClientProofs ----------------------------
(***************************************************************************)
(* Theorems about Client: for any number of attempts, with and without     *)
(* encryption, types are correct, every end of a connection is signalled,  *)
(* and an attempt is answered once and before anything else is heard of    *)
(* it.                                                                     *)
(***************************************************************************)
EXTENDS Client, SequenceTheorems, TLAPS

-----------------------------------------------------------------------------
(***************************************************************************)
(* Signals.                                                                *)
(***************************************************************************)

SignalName == {"connected", "disconnected", "refused", "error", "broken"}

\* Nothing has been heard of attempt k.
Silent(k) == \A i \in 1 .. Len(signals) : signals[i][2] # k

\* What one more signal changes.
LEMMA AppendSignal ==
    ASSUME TypeOK, NEW s \in SignalName, NEW k \in Attempts,
           signals' = Append(signals, <<s, k>>)
    PROVE  /\ signals' \in Seq(SignalName \X Attempts)
           /\ Len(signals) \in Nat /\ Len(signals') = Len(signals) + 1
           /\ signals'[Len(signals) + 1] = <<s, k>>
           /\ \A i \in 1 .. Len(signals) : signals'[i] = signals[i]
           /\ Emitted(s, k)'
           /\ \A x, m : Emitted(x, m) => Emitted(x, m)'
           /\ \A m : Silent(m) /\ m # k => Silent(m)'
<1> DEFINE n == Len(signals)
<1>1. signals \in Seq(SignalName \X Attempts) /\ <<s, k>> \in SignalName \X Attempts
    BY DEF TypeOK, SignalName
<1>2. /\ signals' \in Seq(SignalName \X Attempts)
      /\ n \in Nat /\ Len(signals') = n + 1
      /\ signals'[n + 1] = <<s, k>>
      /\ \A i \in 1 .. n : signals'[i] = signals[i]
    BY <1>1, AppendProperties, LenProperties
<1>3. n + 1 \in 1 .. Len(signals') /\ 1 .. n \subseteq 1 .. Len(signals')
    BY <1>2
<1>4. Emitted(s, k)'
    BY <1>2, <1>3 DEF Emitted
<1>5. \A x, m : Emitted(x, m) => Emitted(x, m)'
    BY <1>2, <1>3 DEF Emitted
<1>6. ASSUME NEW m, Silent(m), m # k PROVE Silent(m)'
    <2>1. \A i \in 1 .. Len(signals') : i \in 1 .. n \/ i = n + 1
        BY <1>2
    <2> QED BY <1>2, <1>6, <2>1 DEF Silent
<1> QED BY <1>2, <1>4, <1>5, <1>6

\* An answer to an attempt of which nothing has been heard, and news of one
\* that are no answer, keep answers single and first.
LEMMA AppendAnswer ==
    ASSUME TypeOK, AnsweredOnceAndFirst, NEW s \in SignalName,
           NEW k \in Attempts, signals' = Append(signals, <<s, k>>),
           s \in Answers => Silent(k)
    PROVE  AnsweredOnceAndFirst'
<1> DEFINE n == Len(signals)
<1>1. /\ n \in Nat /\ Len(signals') = n + 1
      /\ signals'[n + 1] = <<s, k>>
      /\ \A i \in 1 .. n : signals'[i] = signals[i]
    BY AppendSignal
<1> SUFFICES ASSUME NEW i \in 1 .. Len(signals'), NEW j \in 1 .. Len(signals'),
                    signals'[i][1] \in Answers, signals'[i][2] = signals'[j][2]
             PROVE  i <= j /\ (signals'[j][1] \in Answers => i = j)
    BY DEF AnsweredOnceAndFirst
<1>2. CASE i \in 1 .. n /\ j \in 1 .. n
    BY <1>1, <1>2 DEF AnsweredOnceAndFirst
<1>3. CASE i = n + 1
    <2>1. s \in Answers /\ Silent(k) /\ signals'[j][2] = k
        BY <1>1, <1>3
    <2>2. j \notin 1 .. n
        BY <1>1, <2>1 DEF Silent
    <2> QED BY <1>1, <1>3, <2>2
<1>4. CASE i \in 1 .. n /\ j = n + 1
    <2>1. ~ Silent(k)
        BY <1>1, <1>4 DEF Silent
    <2>2. s \notin Answers /\ signals'[j][1] = s
        BY <1>1, <1>4, <2>1
    <2> QED BY <1>1, <1>4, <2>2
<1> QED BY <1>1, <1>2, <1>3, <1>4

-----------------------------------------------------------------------------
(***************************************************************************)
(* The inductive invariant.                                                *)
(***************************************************************************)

\* The service is shared by all attempts and stopping it is final: until then
\* at most one attempt has a thread, and none while the client is at rest.
ThreadInv ==
    ~ stopped =>
        /\ \A t, u \in Attempts : at[t] # "none" /\ at[u] # "none" => t = u
        /\ ~ running => \A t \in Attempts : at[t] = "none"

\* Attempts that have not been made have left no trace.
FutureInv ==
    \A k \in Attempts :
        k > attempts => session[k] = "none" /\ at[k] = "none" /\ Silent(k)

\* Nothing is heard of an attempt before its session ends ...
SessionInv ==
    \A k \in Attempts : session[k] \notin {"none", "done"} => Silent(k)

\* ... and before the thread that has made its connection has emitted connected.
SlotsInv ==
    \A t \in Attempts : at[t] = "slots" =>
        /\ on[t] \in Attempts
        /\ session[on[t]] = "done"
        /\ Silent(on[t])
        /\ \A u \in Attempts : at[u] = "slots" /\ on[u] = on[t] => u = t

\* A read loop belongs to a connection that has been announced or is about to
\* be; the user who cancelled a read has been told.
ReaderInv ==
    \A k \in Attempts :
        /\ reader[k] # "none" => \/ Emitted("connected", k)
                                 \/ \E t \in Attempts : at[t] = "slots" /\ on[t] = k
        /\ reader[k] = "aborted" => Emitted("disconnected", k)

IInv ==
    /\ TypeOK
    /\ ThreadInv
    /\ FutureInv
    /\ SessionInv
    /\ SlotsInv
    /\ ReaderInv
    /\ EndIsSignalled
    /\ AnsweredOnceAndFirst

LEMMA IInvInit == Init => IInv
<1> SUFFICES ASSUME Init PROVE IInv
    OBVIOUS
<1>1. Len(signals) = 0 /\ signals \in Seq(SignalName \X Attempts)
    BY EmptySeq DEF Init
<1>2. TypeOK
    <2>1. 0 \in 0 .. MaxAttempts
        BY ClientAssumption
    <2> QED BY <1>1, <2>1 DEF Init, TypeOK, SignalName
<1>3. \A k \in Attempts : Silent(k)
    BY <1>1 DEF Silent
<1>4. AnsweredOnceAndFirst
    BY <1>1 DEF AnsweredOnceAndFirst
<1> QED BY <1>2, <1>3, <1>4 DEF Init, IInv, ThreadInv, FutureInv, SessionInv,
           SlotsInv, ReaderInv, EndIsSignalled

\* A step that emits nothing leaves the signals as they are.
LEMMA SameSignals ==
    ASSUME signals' = signals
    PROVE  /\ \A x, m : Emitted(x, m)' <=> Emitted(x, m)
           /\ \A m : Silent(m)' <=> Silent(m)
           /\ AnsweredOnceAndFirst => AnsweredOnceAndFirst'
BY DEF Emitted, Silent, AnsweredOnceAndFirst

LEMMA ConnectStep ==
    ASSUME IInv, NEW o \in {"insecure", "unresolved", "started"}, Connect(o)
    PROVE  IInv'
<1>1. /\ attempts \in Nat /\ attempts + 1 \in Attempts
      /\ attempts' = attempts + 1 /\ attempts' \in 0 .. MaxAttempts
    <2>1. attempts \in 0 .. MaxAttempts /\ attempts < MaxAttempts
          /\ attempts' = attempts + 1
        BY DEF Connect, IInv, TypeOK
    <2>2. MaxAttempts \in Nat
        BY ClientAssumption
    <2> QED BY <2>1, <2>2 DEF Attempts
<1>2. PICK k \in Attempts : k = attempts + 1
    BY <1>1
<1>3. /\ session[k] = "none" /\ at[k] = "none" /\ Silent(k)
      /\ reader[k] = "none"
    <2>1. k > attempts
        BY <1>1, <1>2
    <2> QED BY <2>1 DEF IInv, FutureInv, TypeOK
<1>4. \A m \in Attempts : m > attempts' => m > attempts /\ m # k
    BY <1>1, <1>2 DEF Attempts
<1>5. /\ ~ running /\ running' = (o # "insecure") /\ running' \in BOOLEAN
      /\ UNCHANGED <<stopped, on, reader, conn, closed>>
      /\ IF o = "started"
         THEN /\ session' = [session EXCEPT ![k] = "connecting"]
              /\ at' = [at EXCEPT ![k] = "run"]
         ELSE UNCHANGED <<session, at>>
      /\ signals' = IF o = "insecure"
                    THEN Append(signals, <<"error", k>>) ELSE signals
    BY <1>1, <1>2 DEF Connect, TryConnect
<1>6. CASE o = "insecure"
    <2>1. /\ signals' = Append(signals, <<"error", k>>)
          /\ UNCHANGED <<session, at>> /\ ~ running'
        BY <1>5, <1>6
    <2>2. "error" \in SignalName /\ TypeOK /\ AnsweredOnceAndFirst
        BY DEF SignalName, IInv
    <2>3. /\ signals' \in Seq(SignalName \X Attempts)
          /\ \A x, m : Emitted(x, m) => Emitted(x, m)'
          /\ \A m : Silent(m) /\ m # k => Silent(m)'
        BY <2>1, <2>2, AppendSignal
    <2>4. AnsweredOnceAndFirst'
        BY <1>3, <2>1, <2>2, AppendAnswer
    <2>5. TypeOK'
        BY <1>1, <1>5, <2>1, <2>2, <2>3 DEF TypeOK, SignalName
    <2>6. ThreadInv'
        BY <1>5, <2>1 DEF IInv, ThreadInv
    <2>7. FutureInv'
        BY <1>4, <2>1, <2>3 DEF IInv, FutureInv
    <2>8. SessionInv'
        BY <1>3, <2>1, <2>3 DEF IInv, SessionInv
    <2>9. SlotsInv'
        BY <1>3, <1>5, <2>1, <2>3 DEF IInv, SlotsInv
    <2>10. ReaderInv' /\ EndIsSignalled'
        BY <1>5, <2>1, <2>3 DEF IInv, ReaderInv, EndIsSignalled
    <2> QED BY <2>4, <2>5, <2>6, <2>7, <2>8, <2>9, <2>10 DEF IInv
<1>7. CASE o # "insecure"
    <2>1. signals' = signals /\ running' = TRUE
        BY <1>5, <1>7
    <2>2. /\ session'[k] \in {"none", "connecting"} /\ at'[k] \in {"none", "run"}
          /\ \A m \in Attempts \ {k} : session'[m] = session[m] /\ at'[m] = at[m]
        BY <1>3, <1>5 DEF IInv, TypeOK
    <2>3. TypeOK'
        BY <1>1, <1>3, <1>5, <2>1 DEF IInv, TypeOK
    <2>4. ThreadInv'
        BY <1>3, <1>5, <2>1, <2>2 DEF IInv, ThreadInv
    <2>5. FutureInv' /\ SessionInv'
        BY <1>3, <1>4, <2>1, <2>2, SameSignals DEF IInv, FutureInv, SessionInv
    <2>6. SlotsInv'
        BY <1>3, <1>5, <2>1, <2>2, SameSignals DEF IInv, SlotsInv
    <2>7. ReaderInv' /\ EndIsSignalled'
        <3>1. \A t \in Attempts : at[t] = "slots" => at'[t] = "slots" /\ on'[t] = on[t]
            BY <1>3, <1>5, <2>2
        <3> QED BY <1>5, <2>1, <3>1, SameSignals DEF IInv, ReaderInv, EndIsSignalled
    <2> QED BY <2>1, <2>3, <2>4, <2>5, <2>6, <2>7, SameSignals DEF IInv
<1> QED BY <1>6, <1>7

LEMMA ConnectErrorStep ==
    ASSUME IInv, NEW t \in Attempts, NEW k \in Attempts, ConnectError(t, k)
    PROVE  IInv'
<1> DEFINE s == ErrorSignal(session[k])
<1>1. /\ s \in SignalName
      /\ session[k] \in {"refused", "failed"}
      /\ signals' = Append(signals, <<s, k>>)
      /\ session'[k] = "done"
      /\ \A m \in Attempts \ {k} : session'[m] = session[m]
      /\ UNCHANGED <<running, attempts, stopped, at, on, reader, conn, closed>>
    BY DEF ConnectError, ErrorSignal, SignalName, IInv, TypeOK
<1>2. Silent(k)
    BY <1>1 DEF IInv, SessionInv
<1> HIDE DEF s
<1>3. /\ signals' \in Seq(SignalName \X Attempts)
      /\ \A x, m : Emitted(x, m) => Emitted(x, m)'
      /\ \A m : Silent(m) /\ m # k => Silent(m)'
    BY <1>1, AppendSignal DEF IInv
<1>4. AnsweredOnceAndFirst'
    BY <1>1, <1>2, AppendAnswer DEF IInv
<1>5. TypeOK'
    BY <1>1, <1>3 DEF ConnectError, IInv, TypeOK, SignalName
<1>6. k <= attempts
    BY <1>1 DEF IInv, FutureInv, TypeOK, Attempts
<1>7. ThreadInv' /\ FutureInv' /\ SessionInv'
    BY <1>1, <1>3, <1>6 DEF IInv, ThreadInv, FutureInv, SessionInv, TypeOK,
       Attempts
<1>8. SlotsInv' /\ ReaderInv' /\ EndIsSignalled'
    BY <1>1, <1>3 DEF IInv, SlotsInv, ReaderInv, EndIsSignalled
<1> QED BY <1>4, <1>5, <1>7, <1>8 DEF IInv

LEMMA ConstructStep ==
    ASSUME IInv, NEW t \in Attempts, NEW k \in Attempts, Construct(t, k)
    PROVE  IInv'
<1>1. /\ at[t] = "run" /\ at'[t] = "slots" /\ on'[t] = k
      /\ session[k] \in {"ready", "reached"} /\ session'[k] = "done"
      /\ reader'[k] = "reading"
      /\ \A m \in Attempts \ {k} : session'[m] = session[m] /\ reader'[m] = reader[m]
      /\ \A u \in Attempts \ {t} : at'[u] = at[u] /\ on'[u] = on[u]
      /\ UNCHANGED <<running, attempts, stopped, conn, closed, signals>>
    BY DEF Construct, Goto, IInv, TypeOK
<1>2. Silent(k)
    BY <1>1 DEF IInv, SessionInv
<1>3. TypeOK'
    BY <1>1 DEF Construct, Goto, IInv, TypeOK
<1>4. ThreadInv' /\ FutureInv' /\ SessionInv'
    BY <1>1, SameSignals DEF IInv, ThreadInv, FutureInv, SessionInv
<1>5. SlotsInv'
    BY <1>1, <1>2, SameSignals DEF IInv, SlotsInv
<1>6. ReaderInv' /\ EndIsSignalled'
    BY <1>1, SameSignals DEF IInv, ReaderInv, EndIsSignalled
<1> QED BY <1>1, <1>3, <1>4, <1>5, <1>6, SameSignals DEF IInv

LEMMA ConnectedHandlerStep ==
    ASSUME IInv, NEW t \in Attempts, ConnectedHandler(t)
    PROVE  IInv'
<1>1. PICK k \in Attempts : k = on[t]
    BY DEF ConnectedHandler, IInv, SlotsInv
<1>2. /\ session[k] = "done" /\ Silent(k)
      /\ \A u \in Attempts : at[u] = "slots" /\ on[u] = k => u = t
    BY <1>1 DEF ConnectedHandler, IInv, SlotsInv
<1>3. /\ at' = [at EXCEPT ![t] = "run"] /\ on' = [on EXCEPT ![t] = 0]
      /\ signals' = Append(signals, <<"connected", k>>) /\ conn' = k
      /\ UNCHANGED <<running, attempts, stopped, session, reader, closed>>
    BY <1>1 DEF ConnectedHandler, Goto
<1>4. /\ at[t] = "slots" /\ at'[t] = "run"
      /\ \A u \in Attempts \ {t} : at'[u] = at[u] /\ on'[u] = on[u]
    BY <1>3 DEF ConnectedHandler, IInv, TypeOK
<1>5. "connected" \in SignalName /\ TypeOK /\ AnsweredOnceAndFirst
    BY DEF SignalName, IInv
<1>6. /\ signals' \in Seq(SignalName \X Attempts)
      /\ Emitted("connected", k)'
      /\ \A x, m : Emitted(x, m) => Emitted(x, m)'
      /\ \A m : Silent(m) /\ m # k => Silent(m)'
    BY <1>3, <1>5, AppendSignal
<1>7. AnsweredOnceAndFirst'
    BY <1>2, <1>3, <1>5, AppendAnswer
<1>8. TypeOK'
    BY <1>3, <1>5, <1>6 DEF TypeOK, SignalName
<1>9. k <= attempts
    BY <1>2 DEF IInv, FutureInv, TypeOK, Attempts
<1>10. ThreadInv' /\ FutureInv' /\ SessionInv'
    BY <1>2, <1>3, <1>4, <1>6, <1>9
       DEF IInv, TypeOK, ThreadInv, FutureInv, SessionInv, Attempts
<1>11. SlotsInv'
    BY <1>2, <1>3, <1>4, <1>6 DEF IInv, SlotsInv
<1>12. ReaderInv' /\ EndIsSignalled'
    <2>1. \A m \in Attempts : m # k =>
            \A u \in Attempts : at[u] = "slots" /\ on[u] = m => u # t
        BY <1>1
    <2> QED BY <1>3, <1>4, <1>6, <2>1 DEF IInv, ReaderInv, EndIsSignalled
<1> QED BY <1>7, <1>8, <1>10, <1>11, <1>12 DEF IInv

LEMMA ReadEndStep ==
    ASSUME IInv, NEW t \in Attempts, NEW k \in Attempts, ReadEnd(t, k)
    PROVE  IInv'
<1>1. /\ at[t] = "run" /\ ~ stopped
      /\ reader[k] \in {"ended", "broken", "aborted"}
      /\ reader'[k] = "done"
      /\ \A m \in Attempts \ {k} : reader'[m] = reader[m]
      /\ UNCHANGED <<running, attempts, stopped, session, at, on, conn, closed>>
    BY DEF ReadEnd, IInv, TypeOK
<1>2. Emitted("connected", k)
    BY <1>1 DEF IInv, ThreadInv, ReaderInv
<1>3. ~ Silent(k)
    BY <1>2 DEF Emitted, Silent
<1>4. k <= attempts
    BY <1>3 DEF IInv, FutureInv, TypeOK, Attempts
<1>5. CASE signals' = signals
    <2>1. reader[k] = "aborted"
        <3>1. ASSUME NEW x, signals' = Append(signals, x) PROVE FALSE
            <4>1. Len(Append(signals, x)) = Len(signals) + 1
                BY DEF IInv, TypeOK
            <4>2. Len(signals) \in Nat
                BY LenProperties DEF IInv, TypeOK
            <4> QED BY <1>5, <3>1, <4>1, <4>2
        <3> QED BY <1>2, <3>1 DEF ReadEnd
    <2>2. TypeOK'
        BY <1>1, <1>5 DEF ReadEnd, IInv, TypeOK
    <2>3. ThreadInv' /\ FutureInv' /\ SessionInv' /\ SlotsInv'
        BY <1>1, <1>5, SameSignals
           DEF IInv, ThreadInv, FutureInv, SessionInv, SlotsInv
    <2>4. ReaderInv' /\ EndIsSignalled'
        BY <1>1, <1>2, <1>5, <2>1, SameSignals
           DEF IInv, ReaderInv, EndIsSignalled
    <2> QED BY <1>5, <2>2, <2>3, <2>4, SameSignals DEF IInv
<1>6. ASSUME NEW s \in {"disconnected", "broken"},
             signals' = Append(signals, <<s, k>>)
      PROVE  IInv'
    <2>1. /\ signals' \in Seq(SignalName \X Attempts)
          /\ Emitted(s, k)'
          /\ \A x, m : Emitted(x, m) => Emitted(x, m)'
          /\ \A m : Silent(m) /\ m # k => Silent(m)'
        BY <1>6, AppendSignal DEF IInv, SignalName
    <2>2. AnsweredOnceAndFirst'
        BY <1>6, AppendAnswer DEF IInv, SignalName, Answers
    <2>3. TypeOK'
        BY <1>1, <2>1 DEF ReadEnd, IInv, TypeOK, SignalName
    <2>4. ThreadInv' /\ FutureInv' /\ SessionInv' /\ SlotsInv'
        BY <1>1, <1>3, <1>4, <2>1
           DEF IInv, ThreadInv, FutureInv, SessionInv, SlotsInv, TypeOK, Attempts
    <2>5. ReaderInv' /\ EndIsSignalled'
        BY <1>1, <1>2, <1>6, <2>1 DEF IInv, ReaderInv, EndIsSignalled
    <2> QED BY <2>2, <2>3, <2>4, <2>5 DEF IInv
<1> QED BY <1>5, <1>6 DEF ReadEnd

LEMMA UserClosesStep ==
    ASSUME IInv, UserCloses
    PROVE  IInv'
<1>1. PICK k \in Attempts : k = conn
    BY DEF UserCloses, IInv, TypeOK
<1>2. /\ Emitted("connected", k)
      /\ closed' = closed \cup {k}
      /\ signals' = Append(signals, <<"disconnected", k>>)
      /\ UNCHANGED <<running, attempts, stopped, session, at, on, conn>>
    BY <1>1 DEF UserCloses
<1>3. /\ reader' \in [Attempts -> {"none", "reading", "ended", "broken", "aborted",
                                  "done"}]
      /\ reader[k] = "reading" => reader'[k] \in {"aborted", "ended"}
      /\ reader[k] # "reading" => reader'[k] = reader[k]
      /\ \A m \in Attempts \ {k} : reader'[m] = reader[m]
    BY <1>1 DEF UserCloses, IInv, TypeOK
<1>4. ~ Silent(k)
    BY <1>2 DEF Emitted, Silent
<1>5. "disconnected" \in SignalName /\ TypeOK /\ AnsweredOnceAndFirst
      /\ "disconnected" \notin Answers
    BY DEF SignalName, IInv, Answers
<1>6. /\ signals' \in Seq(SignalName \X Attempts)
      /\ Emitted("disconnected", k)'
      /\ \A x, m : Emitted(x, m) => Emitted(x, m)'
      /\ \A m : Silent(m) /\ m # k => Silent(m)'
    BY <1>2, <1>5, AppendSignal
<1>7. AnsweredOnceAndFirst'
    BY <1>2, <1>5, AppendAnswer
<1>8. TypeOK'
    BY <1>2, <1>3, <1>5, <1>6 DEF TypeOK, SignalName
<1>9. ThreadInv' /\ FutureInv' /\ SessionInv' /\ SlotsInv'
    BY <1>2, <1>4, <1>6 DEF IInv, ThreadInv, FutureInv, SessionInv, SlotsInv
<1>10. ReaderInv' /\ EndIsSignalled'
    BY <1>2, <1>3, <1>6 DEF IInv, ReaderInv, EndIsSignalled
<1> QED BY <1>7, <1>8, <1>9, <1>10 DEF IInv

LEMMA IInvNext == IInv /\ [Next]_vars => IInv'
<1> SUFFICES ASSUME IInv, [Next]_vars PROVE IInv'
    OBVIOUS
<1>1. CASE Disconnect
    <2>1. TypeOK'
        BY <1>1 DEF Disconnect, IInv, TypeOK
    <2> QED BY <1>1, <2>1, SameSignals DEF Disconnect, IInv, ThreadInv, FutureInv,
            SessionInv, SlotsInv, ReaderInv, EndIsSignalled
<1>2. ASSUME NEW t \in Attempts, Exit(t) PROVE IInv'
    <2>1. TypeOK'
        BY <1>2 DEF Exit, IInv, TypeOK
    <2> QED BY <1>2, <2>1, SameSignals DEF Exit, IInv, TypeOK, ThreadInv,
            FutureInv, SessionInv, SlotsInv, ReaderInv, EndIsSignalled
<1>3. ASSUME NEW k \in Attempts, NEW o \in Outcomes,
             Answer(k, o) \/ Handshake(k, o)
      PROVE  IInv'
    <2>1. TypeOK'
        BY <1>3 DEF Answer, Handshake, IInv, TypeOK, Outcomes
    <2> QED BY <1>3, <2>1, SameSignals DEF Answer, Handshake, IInv, TypeOK,
            ThreadInv, FutureInv, SessionInv, SlotsInv, ReaderInv,
            EndIsSignalled, Outcomes
<1>4. ASSUME NEW k \in Attempts, NEW e \in {"ended", "broken"}, PeerEnds(k, e)
      PROVE  IInv'
    BY <1>4, SameSignals DEF PeerEnds, IInv, TypeOK, ThreadInv, FutureInv,
       SessionInv, SlotsInv, ReaderInv, EndIsSignalled
<1>5. ASSUME NEW t \in Attempts, NEW k \in Attempts, ConnectHandler(t, k)
      PROVE  IInv'
    <2>1. TypeOK'
        BY <1>5 DEF ConnectHandler, IInv, TypeOK
    <2> QED BY <1>5, <2>1, SameSignals DEF ConnectHandler, IInv, TypeOK,
            ThreadInv, FutureInv, SessionInv, SlotsInv, ReaderInv,
            EndIsSignalled
<1>6. CASE UNCHANGED vars
    BY <1>6, SameSignals DEF vars, IInv, TypeOK, ThreadInv, FutureInv,
       SessionInv, SlotsInv, ReaderInv, EndIsSignalled
<1>7. {"reached", "refused", "failed", "ready"} \subseteq Outcomes
    BY DEF Outcomes
<1> QED
    BY <1>1, <1>2, <1>3, <1>4, <1>5, <1>6, <1>7, ConnectStep, ConnectErrorStep,
       ConstructStep, ConnectedHandlerStep, ReadEndStep, UserClosesStep
       DEF Next, Handler

-----------------------------------------------------------------------------
(***************************************************************************)
(* The theorems.                                                           *)
(***************************************************************************)

\* The conjunction of the parts is inductive.
THEOREM InvariantHolds == Spec => []IInv
BY IInvInit, IInvNext, PTL DEF Spec

\* Every variable keeps its type, and only a session that is done has a
\* connection that reads.
THEOREM TypeCorrect == Spec => []TypeOK
BY InvariantHolds, PTL DEF IInv

\* The end of a connection's read loop is signalled, whoever ended it: no thread
\* handles it before connected has been emitted, because until the service is
\* stopped only one thread runs it.
THEOREM EndReachesUser == Spec => []EndIsSignalled
BY InvariantHolds, PTL DEF IInv

\* No attempt is answered twice, and its answer is the first the user hears of
\* it.
THEOREM AnswerComesFirst == Spec => []AnsweredOnceAndFirst
BY InvariantHolds, PTL DEF IInv
=============================================================================
