---------------------------- MODULE ServerProofs ----------------------------
(***************************************************************************)
(* Theorems about Server: for any number of clients and of starts and for  *)
(* every choice of thread policies, types are correct, the promises about  *)
(* a connection's signals hold as long as one thread runs the service, a   *)
(* running server listens, and one_per_connection keeps a thread for the   *)
(* next client.                                                            *)
(***************************************************************************)
EXTENDS Server, SelectionProofs, FiniteSetTheorems

-----------------------------------------------------------------------------
(***************************************************************************)
(* The inductive invariant, in parts.                                      *)
(***************************************************************************)

Created == {c \in Sessions : session[c] # "none"}
Made == {t \in Threads : at[t] # "none"}
Done == {c \in Sessions : session[c] = "done"}

\* On the way from a connection that is constructed to the next session, on which
\* a thread may hang for ever.
Adding(t) == at[t] \in {"slots", "add", "emit", "drop", "next", "hung"}

MostThreads == Max({StartThreads(p) : p \in Policies})

\* Sessions and threads are numbered in the order they are made.
InOrder ==
    /\ Created = 1 .. Cardinality(Created)
    /\ Made = 1 .. Cardinality(Made)

\* There are never more of them than the bounds allow for, so that a number is
\* always left for the next.
NumbersLeft ==
    /\ Cardinality(Clients) <= MaxClients
    /\ Cardinality(Created) + Cardinality({t \in Threads : Adding(t)})
         <= starts + Cardinality(Done)
    /\ Cardinality(Made) + Cardinality({t \in Threads : Adding(t)})
         <= starts * MostThreads + Cardinality(Done)

\* A thread has a connection while it is busy with one, and that connection has
\* left its session.  The user is no thread of the service.
Places ==
    /\ \A t \in Threads : at[t] # "user"
    /\ at[User] \in {"user", "remove", "destroy"}
    /\ \A t \in Threads \cup {User} :
         IF at[t] \in {"none", "run", "exited", "user"} THEN on[t] = 0
         ELSE on[t] \in Done

\* How far a connection is between its construction and its signal.
Progress ==
    /\ \A c \in Sessions : reader[c] # "none" => c \in Done
    /\ slots \subseteq Done
    /\ \A c \in Sessions : reader[c] # "none" =>
         c \in slots \/ \E t \in Threads : at[t] = "slots" /\ on[t] = c
    /\ \A c \in slots :
         \/ Emitted("connected", c)
         \/ \E t \in Threads : at[t] \in {"add", "emit"} /\ on[t] = c
    /\ \A c \in list :
         \/ Emitted("connected", c)
         \/ \E t \in Threads : at[t] = "emit" /\ on[t] = c

\* Who emits connected or destroys a session holds the mutex; a connection is in
\* the list while it is announced.
Locking ==
    /\ \A t \in Threads \cup {User} : at[t] \in {"emit", "destroy"} => mutex = t
    /\ \A t \in Threads : at[t] = "emit" => on[t] \in list

\* A connection that is closed on this side has been signalled.
CloseIsSignalled ==
    \A c \in Sessions :
        reader[c] \in {"aborted", "handling"} => Emitted("disconnected", c)

\* A connection is added by one thread.
AddedOnce ==
    \A t, u \in Threads : Adding(t) /\ Adding(u) /\ on[t] = on[u] => t = u

Told == {c \in Sessions : Emitted("disconnected", c)}

\* Whoever removes a connection has signalled its end, and it is for a connection
\* so removed that a thread hangs in the destructor of its session.
RemovalIsSignalled ==
    /\ \A t \in Threads \cup {User} :
         at[t] \in {"remove", "destroy"} => on[t] \in Told
    /\ \A t \in Threads : at[t] = "drop" => on[t] \in list \/ on[t] \in Told
    /\ \A t \in Threads : at[t] = "hung" => on[t] \in Told

\* With one thread, a connection whose end is taken note of is being removed, and
\* one that is being added has not ended.
OneThreadOrder ==
    OneThread =>
        /\ \A c \in list : reader[c] \in {"done", "aborted", "handling"} =>
             \E t \in Threads \cup {User} : at[t] = "remove" /\ on[t] = c
        /\ \A t \in Threads : at[t] \in {"slots", "add"} =>
             /\ on[t] \notin list
             /\ reader[on[t]] \in {"reading", "ended", "broken"}

\* Before the first start there is nothing.
BeforeStart ==
    ~ running /\ ~ stopped => list = {} /\ Made = {}

\* What a user does not keep is removed once, by a thread that finds it in the
\* list or still on its way there.
RemovedOnce ==
    /\ at[User] \in {"remove", "destroy"} => on[User] \in held
    /\ \A t \in Threads : at[t] \in {"remove", "destroy"} /\ on[t] \notin held =>
         /\ reader[on[t]] \in {"done", "handling"}
         /\ at[t] = "remove" =>
              \/ on[t] \in list
              \/ \E u \in Threads : at[u] \in {"slots", "add"} /\ on[u] = on[t]
         /\ \A u \in Threads :
              at[u] \in {"remove", "destroy"} /\ on[u] = on[t] => u = t
    /\ \A c \in slots \ held : reader[c] \in {"reading", "ended"} =>
         c \in list \/ \E t \in Threads : at[t] = "add" /\ on[t] = c

\* The threads that are not lost, except one in the destructor of a session that
\* may yet be; and those that have listed their connection and make the next
\* session.  Those of one_per_connection are more than the connections listed.
Alive == {t \in Threads : at[t] \notin {"none", "stuck", "exited", "destroy"}}
Fetching == {t \in Threads : \/ at[t] \in {"emit", "next"}
                             \/ at[t] = "drop" /\ on[t] \in list}

EnoughThreads ==
    policy = OnePerConnection /\ running /\ ~ stopped /\ ~ StartFailed =>
        Cardinality(Alive) + Cardinality(Fetching) >= Cardinality(list) + 1

-----------------------------------------------------------------------------
(***************************************************************************)
(* The bounds.                                                             *)
(***************************************************************************)

\* A finite set of naturals has a greatest element: if each had one above it,
\* the least of those would map the set into itself one to one, and nothing
\* would be mapped to the least of all.
LEMMA FiniteMax ==
    ASSUME NEW T \in SUBSET Nat, T # {}, IsFiniteSet(T)
    PROVE  Max(T) \in T /\ \A y \in T : Max(T) >= y
<1> SUFFICES \E x \in T : \A y \in T : x >= y
    BY DEF Max
<1> SUFFICES ASSUME \A x \in T : \E y \in T : ~ (x >= y) PROVE FALSE
    OBVIOUS
<1> DEFINE Above(x) == {y \in T : y > x}
           Least(x, z) == z \in Above(x) /\ \A y \in Above(x) : z <= y
           f == [x \in T |-> CHOOSE z \in T : Least(x, z)]
<1>1. ASSUME NEW x \in T PROVE f[x] \in T /\ Least(x, f[x])
    <2>1. Above(x) \in SUBSET Nat /\ Above(x) # {}
        <3>1. PICK y \in T : ~ (x >= y)
            OBVIOUS
        <3>2. x \in Nat /\ y \in Nat
            OBVIOUS
        <3>3. y > x
            BY <3>1, <3>2
        <3> QED BY <3>3
    <2>2. PICK z \in Above(x) : \A y \in Above(x) : z <= y
        <3> HIDE DEF Above
        <3> QED BY <2>1, NatMin
    <2>3. z \in T /\ Least(x, z)
        BY <2>2
    <2>4. f[x] = CHOOSE w \in T : Least(x, w)
        OBVIOUS
    <2> HIDE DEF f, Least
    <2> QED BY <2>3, <2>4
<1>2. f \in [T -> T]
    <2>1. \A x \in T : f[x] \in T
        BY <1>1
    <2> QED BY <2>1
<1>3. ASSUME NEW x \in T, NEW y \in T, f[x] = f[y] PROVE x = y
    <2>1. /\ f[x] > x /\ \A w \in Above(x) : f[x] <= w
          /\ f[y] > y /\ \A w \in Above(y) : f[y] <= w
          /\ f[x] \in Nat
        BY <1>1
    <2> HIDE DEF f
    <2>2. ~ (x < y)
        BY <1>3, <2>1
    <2>3. ~ (y < x)
        BY <1>3, <2>1
    <2> QED BY <2>2, <2>3
<1>4. f \in Injection(T, T)
    <2> HIDE DEF f
    <2> QED BY <1>2, <1>3 DEF Injection, IsInjective
<1>5. f \in Surjection(T, T)
    <2> HIDE DEF f
    <2> QED BY <1>4, FS_Injection
<1>6. PICK m \in T : \A y \in T : m <= y
    BY NatMin
<1>7. PICK x \in T : f[x] = m
    <2> HIDE DEF f
    <2> QED BY <1>5 DEF Surjection
<1>8. f[x] > x /\ m <= x
    BY <1>1, <1>6
<1>9. x \in Nat /\ m \in Nat
    OBVIOUS
<1> HIDE DEF f
<1> QED BY <1>7, <1>8, <1>9

LEMMA StartsOneThread == \A p \in Policies : StartThreads(p) \in Nat \ {0}
BY ServerAssumption DEF StartThreads, Spawned, OnePerConnection, Fixed

\* A start that breaks off creates no more.
LEMMA SpawnedFewer ==
    \A p \in Policies : Spawned(p) \in Nat /\ Spawned(p) <= StartThreads(p)
BY ServerAssumption DEF StartThreads, Spawned, OnePerConnection, Fixed

LEMMA MostThreadsOfAll ==
    ASSUME NEW p \in Policies
    PROVE  MostThreads \in Nat \ {0} /\ StartThreads(p) <= MostThreads
<1> DEFINE T == {StartThreads(q) : q \in Policies}
           f == [q \in Policies |-> StartThreads(q)]
<1>1. T \in SUBSET Nat /\ T # {} /\ 0 \notin T
    BY StartsOneThread
<1>2. f \in Surjection(Policies, T)
    BY DEF Surjection
<1>3. IsFiniteSet(Policies)
    BY ServerAssumption
<1>4. IsFiniteSet(T)
    <2> HIDE DEF f, T
    <2> QED BY <1>2, <1>3, FS_Surjection
<1>5. MostThreads \in T /\ \A y \in T : MostThreads >= y
    <2>1. MostThreads = Max(T)
        BY DEF MostThreads
    <2> HIDE DEF T
    <2> QED BY <1>1, <1>4, <2>1, FiniteMax
<1>6. StartThreads(p) \in T
    OBVIOUS
<1> QED BY <1>1, <1>5, <1>6

\* What the sets of numbers are.
LEMMA Numbers ==
    ASSUME TypeOK
    PROVE  /\ MostThreads \in Nat \ {0}
           /\ MaxThreads = MaxStarts * MostThreads + MaxClients
           /\ MaxThreads \in Nat /\ MaxClients \in Nat /\ MaxStarts \in Nat
           /\ Threads \subseteq Nat \ {0} /\ Sessions \subseteq Nat \ {0}
           /\ Free \notin Threads /\ Free # User /\ User \notin Threads
<1>1. MostThreads \in Nat \ {0}
    BY MostThreadsOfAll DEF TypeOK
<1>2. MaxClients \in Nat /\ MaxStarts \in Nat
    BY ServerAssumption
<1>3. MaxThreads = MaxStarts * MostThreads + MaxClients
    BY DEF MaxThreads, MostThreads
<1>4. MaxStarts * MostThreads \in Nat
    BY <1>1, <1>2
<1>5. MaxThreads \in Nat
    BY <1>2, <1>3, <1>4
<1> QED BY <1>1, <1>2, <1>3, <1>5 DEF Threads, Sessions, Free, User

-----------------------------------------------------------------------------
(***************************************************************************)
(* The steps, and type correctness.                                        *)
(***************************************************************************)

\* Everybody who runs handlers or closes connections.
Actors == Threads \cup {User}

\* One disjunct per action.
LEMMA StepShape ==
    ASSUME Next
    PROVE  \/ \E p \in Policies : SetThreadPolicy(p)
           \/ \E b \in BOOLEAN : Start(b)
           \/ StartBreaksOff \/ Stop
           \/ \E c \in Sessions : \/ \E o \in {"accepted", "failed"} : Accept(c, o)
                                  \/ \E o \in {"ready", "failed"} : Handshake(c, o)
                                  \/ \E e \in {"ended", "broken"} : PeerEnds(c, e)
           \/ \E t \in Threads, c \in Sessions :
                \/ AcceptHandler(t, c) \/ Construct(t, c) \/ AcceptError(t, c)
                \/ ReadEnd(t, c) \/ ReadError(t, c) \/ ReadAborted(t, c)
                \/ SlotCloses(t, c)
           \/ \E t \in Threads :
                \/ ConnectSlots(t) \/ AddConnection(t) \/ EmitConnected(t)
                \/ DropSession(t) \/ WaitNextConnection(t) \/ ReturnFromAccept(t)
                \/ Exit(t)
           \/ \E t \in Actors : RemoveConnection(t) \/ DestroySession(t)
           \/ \E c \in Sessions : UserCloses(c)
BY DEF Next, Network, Handler, Actors

\* The values of the variables, by name.
SessionState == {"none", "accepting", "accepted", "handshaking", "ready", "failed",
                 "done", "lost"}
Step == {"none", "run", "slots", "add", "emit", "drop", "next", "return",
         "remove", "destroy", "stuck", "hung", "user", "exited"}
ReadState == {"none", "reading", "handling", "ended", "broken", "aborted", "done",
              "lost"}
Signal == {"connected", "disconnected", "error"} \X (Sessions \cup {0})

Types ==
    /\ policy \in Policies /\ running \in BOOLEAN /\ stopped \in BOOLEAN
    /\ starts \in 0 .. MaxStarts
    /\ session \in [Sessions -> SessionState]
    /\ at \in [Actors -> Step] /\ on \in [Actors -> Sessions \cup {0}]
    /\ reader \in [Sessions -> ReadState]
    /\ slots \subseteq Sessions /\ list \subseteq slots /\ held \subseteq Sessions
    /\ mutex \in Threads \cup {User, Free}
    /\ signals \in Seq(Signal)

\* A connection that is being added has a number, and its slots before its place
\* in the list.
Sites ==
    \A t \in Threads :
        /\ Adding(t) => on[t] \in Sessions
        /\ at[t] = "add" => on[t] \in slots

LEMMA TypesNamed == TypeOK <=> Types
BY DEF TypeOK, Types, SessionState, Step, ReadState, Signal, Actors

LEMMA ActorsAre == Threads \subseteq Actors /\ User \in Actors
BY DEF Actors

\* A new session and new threads change nothing else.
LEMMA NewSessionType ==
    ASSUME Types
    PROVE  NewSession(session) \in [Sessions -> SessionState]
BY DEF NewSession, Types, SessionState

LEMMA NewThreadsType ==
    ASSUME NEW a \in [Actors -> Step], NEW n
    PROVE  NewThreads(a, n) \in [Actors -> Step]
BY DEF NewThreads, Step

LEMMA GotoType ==
    ASSUME Types, NEW t \in Actors, NEW s \in Step, NEW c \in Sessions \cup {0},
           Goto(t, s, c)
    PROVE  at' \in [Actors -> Step] /\ on' \in [Actors -> Sessions \cup {0}]
BY DEF Types, Goto

\* What one more signal changes.
LEMMA AppendSignal ==
    ASSUME Types, NEW s \in {"connected", "disconnected", "error"},
           NEW c \in Sessions \cup {0}, signals' = Append(signals, <<s, c>>)
    PROVE  /\ signals' \in Seq(Signal)
           /\ Len(signals) \in Nat /\ Len(signals') = Len(signals) + 1
           /\ signals'[Len(signals) + 1] = <<s, c>>
           /\ \A i \in 1 .. Len(signals) : signals'[i] = signals[i]
           /\ Emitted(s, c)'
           /\ \A x, d : Emitted(x, d) => Emitted(x, d)'
<1> DEFINE n == Len(signals)
<1>1. signals \in Seq(Signal) /\ <<s, c>> \in Signal
    BY DEF Types, Signal
<1>2. /\ signals' \in Seq(Signal)
      /\ n \in Nat /\ Len(signals') = n + 1
      /\ signals'[n + 1] = <<s, c>>
      /\ \A i \in 1 .. n : signals'[i] = signals[i]
    BY <1>1, AppendProperties, LenProperties
<1>3. n + 1 \in 1 .. Len(signals') /\ 1 .. n \subseteq 1 .. Len(signals')
    BY <1>2
<1>4. Emitted(s, c)'
    BY <1>2, <1>3 DEF Emitted
<1>5. \A x, d : Emitted(x, d) => Emitted(x, d)'
    BY <1>2, <1>3 DEF Emitted
<1> QED BY <1>2, <1>4, <1>5

LEMMA TypesNext == Types /\ Sites /\ [Next]_vars => Types'
<1> SUFFICES ASSUME Types, Sites, [Next]_vars PROVE Types'
    OBVIOUS
<1>1. CASE UNCHANGED vars
    BY <1>1 DEF Types, vars, config, threads
<1>2. ASSUME NEW p \in Policies, SetThreadPolicy(p) PROVE Types'
    BY <1>2 DEF SetThreadPolicy, Types, threads
<1>3. ASSUME NEW b \in BOOLEAN, Start(b) PROVE Types'
    <2>1. starts' \in 0 .. MaxStarts
        BY <1>3, ServerAssumption DEF Start, Types
    <2>2. CASE b
        <3>1. session' \in [Sessions -> SessionState]
            BY <1>3, <2>2, NewSessionType DEF Start
        <3>2. at' \in [Actors -> Step]
            BY <1>3, <2>2, NewThreadsType DEF Start, Types
        <3> QED BY <1>3, <2>1, <2>2, <3>1, <3>2 DEF Start, Types
    <2>3. CASE ~ b
        <3>1. signals' = Append(signals, <<"error", 0>>)
            BY <1>3, <2>3 DEF Start
        <3>2. signals' \in Seq(Signal)
            BY <3>1, AppendSignal
        <3> QED BY <1>3, <2>1, <2>3, <3>2 DEF Start, Types
    <2> QED BY <2>2, <2>3
<1>4. CASE StartBreaksOff
    <2>1. starts' \in 0 .. MaxStarts /\ running' \in BOOLEAN
        BY <1>4, ServerAssumption DEF StartBreaksOff, Types
    <2>2. session' \in [Sessions -> SessionState] /\ at' \in [Actors -> Step]
        BY <1>4, NewSessionType, NewThreadsType DEF StartBreaksOff, Types
    <2>3. signals' = Append(signals, <<"error", 0>>)
        BY <1>4 DEF StartBreaksOff
    <2>4. signals' \in Seq(Signal)
        BY <2>3, AppendSignal
    <2> QED BY <1>4, <2>1, <2>2, <2>4 DEF StartBreaksOff, Types
<1>5. CASE Stop
    BY <1>5 DEF Stop, Types, threads
<1>6. ASSUME NEW c \in Sessions, NEW o \in {"accepted", "failed", "ready"},
             Accept(c, o) \/ Handshake(c, o)
      PROVE  Types'
    <2>1. session' \in [Sessions -> SessionState]
        BY <1>6 DEF Accept, Handshake, Types, SessionState
    <2> QED BY <1>6, <2>1 DEF Accept, Handshake, Types, threads, config
<1>7. ASSUME NEW c \in Sessions, NEW e \in {"ended", "broken"}, PeerEnds(c, e)
      PROVE  Types'
    <2>1. reader' \in [Sessions -> ReadState]
        BY <1>7 DEF PeerEnds, Types, ReadState
    <2> QED BY <1>7, <2>1 DEF PeerEnds, Types, threads, config
<1>8. ASSUME NEW t \in Threads, NEW c \in Sessions,
             AcceptHandler(t, c) \/ Construct(t, c) \/ AcceptError(t, c)
      PROVE  Types'
    <2>1. session' \in [Sessions -> SessionState]
        BY <1>8 DEF AcceptHandler, Construct, AcceptError, Types, SessionState
    <2>2. CASE AcceptHandler(t, c)
        BY <2>1, <2>2 DEF AcceptHandler, Types, threads, config
    <2>3. CASE Construct(t, c)
        <3>1. reader' \in [Sessions -> ReadState]
            BY <2>3 DEF Construct, Types, ReadState
        <3>2. at' \in [Actors -> Step] /\ on' \in [Actors -> Sessions \cup {0}]
            BY <2>3, ActorsAre, GotoType DEF Construct, Step
        <3> QED BY <2>1, <2>3, <3>1, <3>2 DEF Construct, Types, config
    <2>4. CASE AcceptError(t, c)
        <3>1. signals' \in Seq(Signal)
            BY <2>4, AppendSignal DEF AcceptError
        <3> QED BY <2>1, <2>4, <3>1 DEF AcceptError, Types, threads, config
    <2> QED BY <1>8, <2>2, <2>3, <2>4
<1>9. ASSUME NEW t \in Threads, NEW c \in Sessions,
             \/ ReadEnd(t, c) \/ ReadError(t, c) \/ ReadAborted(t, c)
             \/ SlotCloses(t, c)
      PROVE  Types'
    <2>1. reader' \in [Sessions -> ReadState]
        BY <1>9 DEF ReadEnd, ReadError, ReadAborted, SlotCloses, Types, ReadState
    <2>2. signals' \in Seq(Signal)
        <3>1. signals' = signals \/ signals' = Append(signals, <<"disconnected", c>>)
                \/ signals' = Append(signals, <<"error", c>>)
            BY <1>9 DEF ReadEnd, ReadError, ReadAborted, SlotCloses
        <3>2. signals \in Seq(Signal)
            BY DEF Types
        <3> QED BY <3>1, <3>2, AppendSignal
    <2>3. at' \in [Actors -> Step] /\ on' \in [Actors -> Sessions \cup {0}]
        <3>1. Goto(t, "remove", c) \/ UNCHANGED <<at, on>>
            BY <1>9 DEF ReadEnd, ReadError, ReadAborted, SlotCloses, threads
        <3>2. "remove" \in Step
            BY DEF Step
        <3> QED BY <3>1, <3>2, ActorsAre, GotoType DEF Types
    <2>4. UNCHANGED <<config, stopped, session, slots, list, held, mutex>>
        BY <1>9 DEF ReadEnd, ReadError, ReadAborted, SlotCloses
    <2> QED BY <2>1, <2>2, <2>3, <2>4 DEF Types, config
<1>10. ASSUME NEW t \in Threads,
             \/ ConnectSlots(t) \/ AddConnection(t) \/ EmitConnected(t)
             \/ DropSession(t) \/ ReturnFromAccept(t)
      PROVE  Types'
    <2>1. t \in Actors /\ on[t] \in Sessions \cup {0}
        BY ActorsAre DEF Types
    <2>2. at' \in [Actors -> Step] /\ on' \in [Actors -> Sessions \cup {0}]
        <3>1. \E s \in {"add", "emit", "drop", "next", "hung", "run"}, c \in Sessions \cup {0} :
                Goto(t, s, c)
            BY <1>10, <2>1
               DEF ConnectSlots, AddConnection, EmitConnected, DropSession,
                   ReturnFromAccept
        <3>2. {"add", "emit", "drop", "next", "hung", "run"} \subseteq Step
            BY DEF Step
        <3> QED BY <2>1, <3>1, <3>2, GotoType
    <2>3. signals' \in Seq(Signal)
        <3>1. signals' = signals \/ signals' = Append(signals, <<"connected", on[t]>>)
            BY <1>10
               DEF ConnectSlots, AddConnection, EmitConnected, DropSession,
                   ReturnFromAccept
        <3>2. signals \in Seq(Signal)
            BY DEF Types
        <3> QED BY <2>1, <3>1, <3>2, AppendSignal
    <2>4. slots' \subseteq Sessions /\ list' \subseteq slots' /\ held' \subseteq Sessions
        BY <1>10 DEF ConnectSlots, AddConnection, EmitConnected, DropSession,
                    ReturnFromAccept, Types, Sites, Adding
    <2>5. mutex' \in Threads \cup {User, Free}
        BY <1>10 DEF ConnectSlots, AddConnection, EmitConnected, DropSession,
                    ReturnFromAccept, Types
    <2>6. UNCHANGED <<config, stopped, session, reader>>
        BY <1>10 DEF ConnectSlots, AddConnection, EmitConnected, DropSession,
                    ReturnFromAccept
    <2> QED BY <2>2, <2>3, <2>4, <2>5, <2>6 DEF Types, config
<1>11. ASSUME NEW t \in Threads, WaitNextConnection(t) PROVE Types'
    <2>1. [at EXCEPT ![t] = "return"] \in [Actors -> Step]
        BY DEF Types, Step
    <2>2. at' \in [Actors -> Step]
        BY <1>11, <2>1, NewThreadsType DEF WaitNextConnection
    <2>3. session' \in [Sessions -> SessionState]
        BY <1>11, NewSessionType DEF WaitNextConnection
    <2> QED BY <1>11, <2>2, <2>3 DEF WaitNextConnection, Types, config
<1>12. ASSUME NEW t \in Threads, Exit(t) PROVE Types'
    <2>1. at' \in [Actors -> Step]
        BY <1>12 DEF Exit, Types, Step
    <2> QED BY <1>12, <2>1 DEF Exit, Types, config
<1>13. ASSUME NEW t \in Actors, RemoveConnection(t) \/ DestroySession(t)
       PROVE  Types'
    <2>1. at' \in [Actors -> Step] /\ on' \in [Actors -> Sessions \cup {0}]
        <3>1. on[t] \in Sessions \cup {0}
            BY DEF Types
        <3>2. \E s \in {"user", "stuck", "run", "destroy"}, c \in Sessions \cup {0} :
                Goto(t, s, c)
            BY <1>13, <3>1 DEF RemoveConnection, DestroySession, LeaveEmission
        <3>3. {"user", "stuck", "run", "destroy"} \subseteq Step
            BY DEF Step
        <3> QED BY <3>2, <3>3, GotoType
    <2>2. reader' \in [Sessions -> ReadState]
        <3>1. reader' \in {reader, [reader EXCEPT ![on[t]] = "broken"]}
            BY <1>13 DEF RemoveConnection, DestroySession, LeaveEmission
        <3> QED BY <3>1 DEF Types, ReadState
    <2>3. /\ list' \subseteq list /\ mutex' \in {mutex, t, Free}
          /\ UNCHANGED <<config, stopped, session, slots, held, signals>>
        BY <1>13 DEF RemoveConnection, DestroySession
    <2> QED BY <2>1, <2>2, <2>3 DEF Types, config, Actors
<1>14. ASSUME NEW c \in Sessions, UserCloses(c) PROVE Types'
    <2>1. at' \in [Actors -> Step] /\ on' \in [Actors -> Sessions \cup {0}]
        BY <1>14, ActorsAre, GotoType DEF UserCloses, Step
    <2>2. signals' \in Seq(Signal)
        BY <1>14, AppendSignal DEF UserCloses
    <2>3. reader' \in [Sessions -> ReadState]
        BY <1>14 DEF UserCloses, Types, ReadState
    <2>4. /\ held' = held \cup {c}
          /\ UNCHANGED <<config, stopped, session, slots, list, mutex>>
        BY <1>14 DEF UserCloses
    <2> QED BY <2>1, <2>2, <2>3, <2>4 DEF Types, config
<1> QED BY <1>1, <1>2, <1>3, <1>5, <1>6, <1>7, <1>8, <1>9, <1>10, <1>11, <1>12,
           <1>13, <1>14, <1>4, StepShape

\* Goto moves one thread.
LEMMA GotoMoves ==
    ASSUME Types, NEW t \in Actors, NEW s, NEW c, Goto(t, s, c)
    PROVE  /\ at'[t] = s /\ on'[t] = c
           /\ \A u \in Actors \ {t} : at'[u] = at[u] /\ on'[u] = on[u]
BY DEF Types, Goto

\* New threads wait for handlers, the others stay where they are.
LEMMA NewThreadsMove ==
    ASSUME NEW a \in [Actors -> Step], NEW n, NEW u \in Actors
    PROVE  NewThreads(a, n)[u] \in {a[u], "run"}
BY DEF NewThreads

\* The steps as far as threads go: where one that moves comes from.
LEMMA Moves ==
    ASSUME Types, [Next]_vars
    PROVE  \/ UNCHANGED <<at, on>>
           \/ \E n : at' = NewThreads(at, n) /\ on' = on
           \/ \E t \in Threads : \E n :
                /\ at[t] = "next"
                /\ at' = NewThreads([at EXCEPT ![t] = "return"], n) /\ on' = on
           \/ \E t \in Threads : at' = [at EXCEPT ![t] = "exited"] /\ on' = on
           \/ \E t \in Threads, c \in Sessions : Construct(t, c)
           \/ \E t \in Threads :
                \/ ConnectSlots(t) \/ AddConnection(t) \/ EmitConnected(t)
                \/ DropSession(t) \/ ReturnFromAccept(t)
           \/ \E t \in Actors, c \in Sessions : Goto(t, "remove", c)
           \/ \E t \in Actors : RemoveConnection(t) \/ DestroySession(t)
<1>1. CASE UNCHANGED vars
    BY <1>1 DEF vars, threads
<1>2. ASSUME NEW b \in BOOLEAN, Start(b) \/ StartBreaksOff
      PROVE  UNCHANGED <<at, on>> \/ \E n : at' = NewThreads(at, n) /\ on' = on
    BY <1>2 DEF Start, StartBreaksOff
<1>3. ASSUME NEW t, NEW c \in Sessions,
             \/ t \in Threads /\ (ReadEnd(t, c) \/ SlotCloses(t, c))
             \/ UserCloses(c)
      PROVE  UNCHANGED <<at, on>> \/ \E u \in Actors : Goto(u, "remove", c)
    BY <1>3, ActorsAre DEF ReadEnd, SlotCloses, UserCloses
<1>4. ASSUME NEW p \in Policies, SetThreadPolicy(p) PROVE UNCHANGED <<at, on>>
    BY <1>4 DEF SetThreadPolicy, threads
<1>5. ASSUME NEW c, NEW t, NEW o,
             \/ Stop \/ Accept(c, o) \/ Handshake(c, o) \/ PeerEnds(c, o)
             \/ AcceptHandler(t, c) \/ AcceptError(t, c) \/ ReadError(t, c)
             \/ ReadAborted(t, c)
      PROVE  UNCHANGED <<at, on>>
    BY <1>5 DEF Stop, Accept, Handshake, PeerEnds, AcceptHandler, AcceptError,
                ReadError, ReadAborted, threads
<1>6. ASSUME NEW t, Exit(t)
      PROVE  at' = [at EXCEPT ![t] = "exited"] /\ on' = on
    BY <1>6 DEF Exit, config
<1>7. ASSUME NEW t, WaitNextConnection(t)
      PROVE  \E n : /\ at[t] = "next"
                    /\ at' = NewThreads([at EXCEPT ![t] = "return"], n) /\ on' = on
    BY <1>7 DEF WaitNextConnection
<1> QED BY <1>1, <1>2, <1>3, <1>4, <1>5, <1>6, <1>7, StepShape

\* A slot that is connected stays, and what has been given to the user.
LEMMA SlotsStay ==
    ASSUME [Next]_vars
    PROVE  slots \subseteq slots' /\ held \subseteq held'
<1>1. CASE UNCHANGED vars
    BY <1>1 DEF vars
<1>2. ASSUME NEW p, SetThreadPolicy(p) \/ Start(p) \/ StartBreaksOff
      PROVE  slots' = slots /\ held' = held
    BY <1>2 DEF SetThreadPolicy, Start, StartBreaksOff
<1>3. ASSUME NEW c, NEW t, NEW o,
             \/ Stop \/ Accept(c, o) \/ Handshake(c, o) \/ PeerEnds(c, o)
             \/ AcceptHandler(t, c) \/ Construct(t, c) \/ AcceptError(t, c)
             \/ ReadEnd(t, c) \/ ReadError(t, c) \/ ReadAborted(t, c)
             \/ SlotCloses(t, c)
      PROVE  slots' = slots /\ held' = held
    BY <1>3 DEF Stop, Accept, Handshake, PeerEnds, AcceptHandler, Construct,
                AcceptError, ReadEnd, ReadError, ReadAborted, SlotCloses
<1>4. ASSUME NEW t,
             \/ ConnectSlots(t) \/ AddConnection(t) \/ EmitConnected(t)
             \/ DropSession(t) \/ WaitNextConnection(t) \/ ReturnFromAccept(t)
             \/ Exit(t) \/ RemoveConnection(t) \/ DestroySession(t) \/ UserCloses(t)
      PROVE  slots \subseteq slots' /\ held \subseteq held'
    BY <1>4 DEF ConnectSlots, AddConnection, EmitConnected, DropSession,
                WaitNextConnection, ReturnFromAccept, Exit, RemoveConnection,
                DestroySession, UserCloses
<1> QED BY <1>1, <1>2, <1>3, <1>4, StepShape

LEMMA SitesNext == Types /\ Sites /\ [Next]_vars => Sites'
<1> SUFFICES ASSUME Types, Sites, [Next]_vars, NEW u \in Threads
             PROVE  /\ Adding(u)' => on'[u] \in Sessions
                    /\ at'[u] = "add" => on'[u] \in slots'
    BY DEF Sites
<1> USE DEF Adding
<1>1. slots \subseteq slots'
    BY SlotsStay
<1>2. /\ u \in Actors
      /\ Adding(u) => on[u] \in Sessions
      /\ at[u] = "add" => on[u] \in slots
    BY ActorsAre DEF Sites
<1>3. CASE \/ UNCHANGED <<at, on>>
           \/ \E n : at' = NewThreads(at, n) /\ on' = on
           \/ \E t \in Threads : \E n :
                /\ at[t] = "next"
                /\ at' = NewThreads([at EXCEPT ![t] = "return"], n) /\ on' = on
           \/ \E t \in Threads : at' = [at EXCEPT ![t] = "exited"] /\ on' = on
    <2>1. on'[u] = on[u] /\ at'[u] \in {at[u], "run", "return", "exited"}
        <3>1. \A t \in Threads : [at EXCEPT ![t] = "return"] \in [Actors -> Step]
            BY DEF Types, Step
        <3>2. at \in [Actors -> Step] /\ u \in Actors
            BY <1>2 DEF Types
        <3>3. ASSUME NEW n, at' = NewThreads(at, n)
              PROVE  at'[u] \in {at[u], "run"}
            BY <3>2, <3>3, NewThreadsMove
        <3>4. ASSUME NEW t \in Threads, NEW n,
                     at' = NewThreads([at EXCEPT ![t] = "return"], n)
              PROVE  at'[u] \in {at[u], "return", "run"}
            <4>1. at'[u] \in {[at EXCEPT ![t] = "return"][u], "run"}
                BY <3>1, <3>2, <3>4, NewThreadsMove
            <4> QED BY <3>2, <4>1
        <3>5. ASSUME NEW t, at' = [at EXCEPT ![t] = "exited"]
              PROVE  at'[u] \in {at[u], "exited"}
            BY <3>2, <3>5
        <3> QED BY <1>3, <3>3, <3>4, <3>5
    <2> QED BY <1>1, <1>2, <2>1
<1>4. ASSUME NEW t \in Threads, NEW c \in Sessions, Construct(t, c)
      PROVE  /\ Adding(u)' => on'[u] \in Sessions
             /\ at'[u] = "add" => on'[u] \in slots'
    BY <1>1, <1>2, <1>4, GotoMoves, ActorsAre DEF Construct
<1>5. ASSUME NEW t \in Threads,
             \/ ConnectSlots(t) \/ AddConnection(t) \/ EmitConnected(t)
             \/ DropSession(t) \/ ReturnFromAccept(t)
      PROVE  /\ Adding(u)' => on'[u] \in Sessions
             /\ at'[u] = "add" => on'[u] \in slots'
    BY <1>1, <1>2, <1>5, GotoMoves, ActorsAre
       DEF ConnectSlots, AddConnection, EmitConnected, DropSession, ReturnFromAccept,
           Sites
<1>6. ASSUME NEW t \in Actors, NEW c \in Sessions, Goto(t, "remove", c)
      PROVE  /\ Adding(u)' => on'[u] \in Sessions
             /\ at'[u] = "add" => on'[u] \in slots'
    BY <1>1, <1>2, <1>6, GotoMoves
<1>7. ASSUME NEW t \in Actors, RemoveConnection(t) \/ DestroySession(t)
      PROVE  /\ Adding(u)' => on'[u] \in Sessions
             /\ at'[u] = "add" => on'[u] \in slots'
    BY <1>1, <1>2, <1>7, GotoMoves
       DEF RemoveConnection, DestroySession, LeaveEmission
<1> QED BY <1>3, <1>4, <1>5, <1>6, <1>7, Moves

LEMMA TypesInit == Init => Types /\ Sites
<1> SUFFICES ASSUME Init PROVE Types /\ Sites
    OBVIOUS
<1>1. signals \in Seq(Signal)
    BY EmptySeq DEF Init
<1>2. at \in [Actors -> Step] /\ on \in [Actors -> Sessions \cup {0}]
    BY DEF Init, Actors, Step
<1>3. session \in [Sessions -> SessionState] /\ reader \in [Sessions -> ReadState]
    BY DEF Init, SessionState, ReadState
<1>4. 0 \in 0 .. MaxStarts
    BY ServerAssumption
<1>5. Types
    BY <1>1, <1>2, <1>3, <1>4 DEF Init, Types
<1>6. Sites
    BY DEF Init, Sites, Adding
<1> QED BY <1>5, <1>6

\* Every step keeps the types, for any policies and any numbers of clients and
\* starts.
THEOREM TypeCorrect == Spec => []TypeOK
<1>1. Spec => [](Types /\ Sites)
    BY TypesInit, TypesNext, SitesNext, PTL DEF Spec
<1> QED BY <1>1, TypesNamed, PTL

-----------------------------------------------------------------------------
(***************************************************************************)
(* Numbers never run out.                                                  *)
(***************************************************************************)

LEMMA Counted ==
    ASSUME Types
    PROVE  /\ IsFiniteSet(Threads) /\ Cardinality(Threads) = MaxThreads
           /\ \A S \in SUBSET Threads :
                IsFiniteSet(S) /\ Cardinality(S) \in Nat /\ Cardinality(S) <= MaxThreads
           /\ \A S \in SUBSET Sessions : IsFiniteSet(S) /\ Cardinality(S) \in Nat
<1>1. MaxThreads \in Nat /\ MaxClients + MaxStarts \in Nat
    BY Numbers, TypesNamed
<1>2. /\ IsFiniteSet(Threads) /\ Cardinality(Threads) = MaxThreads
      /\ IsFiniteSet(Sessions)
    BY <1>1, FS_Interval DEF Threads, Sessions
<1>3. ASSUME NEW S \in SUBSET Threads
      PROVE  IsFiniteSet(S) /\ Cardinality(S) \in Nat /\ Cardinality(S) <= MaxThreads
    BY <1>2, FS_Subset, FS_CardinalityType
<1>4. ASSUME NEW S \in SUBSET Sessions
      PROVE  IsFiniteSet(S) /\ Cardinality(S) \in Nat
    BY <1>2, FS_Subset, FS_CardinalityType
<1> QED BY <1>2, <1>3, <1>4

\* As long as there is room, the next session gets the next number.
LEMMA FreshSession ==
    ASSUME Types, InOrder, NEW k, k = Cardinality(Created) + 1,
           k <= MaxClients + MaxStarts
    PROVE  /\ k \in Sessions /\ session[k] = "none" /\ Created \cup {k} = 1 .. k
           /\ NewSession(session) = [session EXCEPT ![k] = "accepting"]
<1> DEFINE P(c) == /\ session[c] = "none"
                   /\ \A d \in 1 .. c - 1 : session[d] # "none"
<1>1. Created \in SUBSET Sessions /\ Cardinality(Created) \in Nat
    BY Counted DEF Created
<1>2. Created = 1 .. k - 1 /\ k \in Nat \ {0}
    BY <1>1 DEF InOrder
<1>3. k \in Sessions /\ MaxClients + MaxStarts \in Nat
    BY <1>2, Numbers, TypesNamed DEF Sessions
<1>4. P(k)
    BY <1>2, <1>3 DEF Created, Sessions
<1>5. ASSUME NEW c \in Sessions, P(c) PROVE c = k
    <2>1. c \in Nat \ {0} /\ c \notin 1 .. k - 1
        BY <1>2, <1>5 DEF Created, Sessions
    <2>2. ASSUME k < c PROVE FALSE
        <3>1. k \in 1 .. c - 1
            BY <1>2, <2>1, <2>2
        <3> QED BY <1>4, <1>5, <3>1
    <2> QED BY <1>2, <2>1, <2>2
<1>6. (CHOOSE c \in Sessions : P(c)) = k
    <2> HIDE DEF P
    <2> QED BY <1>3, <1>4, <1>5
<1>7. NewSession(session) = [session EXCEPT ![CHOOSE c \in Sessions : P(c)] = "accepting"]
    BY DEF NewSession
<1>8. session[k] = "none" /\ Created \cup {k} = 1 .. k
    <2>1. (1 .. k - 1) \cup {k} = 1 .. k
        BY <1>2
    <2> QED BY <1>2, <1>4, <2>1
<1> HIDE DEF P
<1> QED BY <1>3, <1>6, <1>7, <1>8

\* Threads that are made get the next numbers and wait; nobody else moves.
LEMMA FreshThreads ==
    ASSUME Types, NEW a \in [Actors -> Step], NEW n \in Nat, NEW k \in Nat,
           {t \in Threads : a[t] # "none"} = 1 .. k
    PROVE  /\ \A u \in Actors : NewThreads(a, n)[u] =
                IF u \in Threads /\ a[u] = "none" /\ u <= k + n THEN "run" ELSE a[u]
           /\ k + n <= MaxThreads =>
                {t \in Threads : NewThreads(a, n)[t] # "none"} = 1 .. k + n
           /\ k <= MaxThreads
<1>1. Cardinality({t \in Threads : a[t] # "none"}) = k
    <2>1. Cardinality(1 .. k) = k
        BY FS_Interval
    <2> QED BY <2>1
<1>2. Threads \subseteq Nat \ {0} /\ User \notin Threads /\ Threads = 1 .. MaxThreads
      /\ MaxThreads \in Nat /\ User = 0
    BY Numbers, TypesNamed DEF Threads, User
<1>3. ASSUME NEW u \in Actors
      PROVE  NewThreads(a, n)[u] =
                IF u \in Threads /\ a[u] = "none" /\ u <= k + n THEN "run" ELSE a[u]
    <2>1. NewThreads(a, n)[u] = IF u \in k + 1 .. k + n THEN "run" ELSE a[u]
        BY <1>1 DEF NewThreads
    <2>2. CASE u \in Threads
        <3>1. a[u] = "none" <=> ~ (u <= k)
            BY <1>2, <2>2
        <3> QED BY <1>2, <2>1, <2>2, <3>1
    <2>3. CASE u \notin Threads
        <3>1. u = 0
            BY <1>2, <2>3 DEF Actors
        <3> QED BY <2>1, <2>3, <3>1
    <2> QED BY <2>2, <2>3
<1>4. k <= MaxThreads
    <2> SUFFICES ASSUME k \in Nat \ {0} PROVE k <= MaxThreads
        BY <1>2
    <2>1. k \in {t \in Threads : a[t] # "none"}
        OBVIOUS
    <2> QED BY <1>2, <2>1
<1>5. ASSUME k + n <= MaxThreads
      PROVE  {t \in Threads : NewThreads(a, n)[t] # "none"} = 1 .. k + n
    <2>1. \A t \in Threads : a[t] # "none" <=> t <= k
        BY <1>2
    <2>2. \A t \in Threads : NewThreads(a, n)[t] # "none" <=> t <= k + n
        BY <1>2, <1>3, <2>1, ActorsAre
    <2> QED BY <1>2, <1>5, <2>2
<1> QED BY <1>3, <1>4, <1>5

Adders == {t \in Threads : Adding(t)}

\* The sets are what the numbers count.
LEMMA RoomCounts ==
    ASSUME Types, InOrder, NumbersLeft
    PROVE  /\ Cardinality(Created) \in Nat /\ Cardinality(Made) \in Nat
           /\ Cardinality(Adders) \in Nat /\ Cardinality(Done) \in Nat
           /\ Cardinality(Clients) \in Nat
           /\ Cardinality(Done) <= Cardinality(Clients)
           /\ Cardinality(Clients) <= MaxClients
           /\ Cardinality(Created) + Cardinality(Adders) <= starts + Cardinality(Done)
           /\ Cardinality(Made) + Cardinality(Adders)
                <= starts * MostThreads + Cardinality(Done)
           /\ starts * MostThreads \in Nat
           /\ starts * MostThreads <= MaxStarts * MostThreads
           /\ starts \in Nat /\ starts <= MaxStarts
           /\ starts < MaxStarts =>
                starts * MostThreads + MostThreads <= MaxStarts * MostThreads
           /\ (starts + 1) * MostThreads = starts * MostThreads + MostThreads
<1>1. /\ Created \in SUBSET Sessions /\ Done \in SUBSET Sessions
      /\ Clients \in SUBSET Sessions /\ Made \in SUBSET Threads
      /\ Adders \in SUBSET Threads
    BY DEF Created, Done, Clients, Made, Adders
<1>2. Done \in SUBSET Clients
    BY DEF Done, Clients
<1>3. /\ Cardinality(Created) \in Nat /\ Cardinality(Made) \in Nat
      /\ Cardinality(Adders) \in Nat /\ Cardinality(Done) \in Nat
      /\ Cardinality(Clients) \in Nat /\ IsFiniteSet(Clients)
    BY <1>1, Counted
<1>4. Cardinality(Done) <= Cardinality(Clients)
    BY <1>2, <1>3, FS_Subset
<1>5. starts \in Nat /\ starts <= MaxStarts /\ MaxStarts \in Nat
      /\ MostThreads \in Nat \ {0}
    BY Numbers, TypesNamed DEF Types
<1>6. ASSUME NEW x \in Nat, NEW y \in Nat, NEW m \in Nat, x <= y
      PROVE  x * m \in Nat /\ x * m <= y * m /\ (x + 1) * m = x * m + m
    <2>1. y = x + (y - x) /\ y - x \in Nat
        BY <1>6
    <2>2. (y - x) * m \in Nat
        BY <2>1
    <2>3. (x + (y - x)) * m = x * m + (y - x) * m
        BY <2>1
    <2>4. y * m = x * m + (y - x) * m
        BY <2>1, <2>3
    <2> QED BY <2>2, <2>4
<1>7. /\ starts * MostThreads \in Nat
      /\ starts * MostThreads <= MaxStarts * MostThreads
      /\ (starts + 1) * MostThreads = starts * MostThreads + MostThreads
    BY <1>5, <1>6
<1>8. starts < MaxStarts => (starts + 1) * MostThreads <= MaxStarts * MostThreads
    BY <1>5, <1>6
<1> QED BY <1>3, <1>4, <1>5, <1>7, <1>8 DEF NumbersLeft, Adders

\* What a start can add to sessions and threads.
LEMMA RoomToStart ==
    ASSUME Types, InOrder, NumbersLeft, starts < MaxStarts,
           NEW n \in Nat, n <= MostThreads
    PROVE  LET k == Cardinality(Created) + 1
               m == Cardinality(Made) + n
           IN  /\ k \in Sessions /\ session[k] = "none"
               /\ NewSession(session) = [session EXCEPT ![k] = "accepting"]
               /\ Created \cup {k} = 1 .. k
               /\ \A u \in Actors : NewThreads(at, n)[u] =
                    IF u \in Threads /\ at[u] = "none" /\ u <= m THEN "run" ELSE at[u]
               /\ {t \in Threads : NewThreads(at, n)[t] # "none"} = 1 .. m
               /\ m \in Nat /\ m <= MaxThreads
<1> DEFINE k == Cardinality(Created) + 1
           m == Cardinality(Made) + n
<1>1. MaxThreads = MaxStarts * MostThreads + MaxClients /\ MaxThreads \in Nat
      /\ MaxClients \in Nat /\ MaxStarts \in Nat /\ MostThreads \in Nat \ {0}
    BY Numbers, TypesNamed
<1>2. k <= MaxClients + MaxStarts
    BY <1>1, RoomCounts
<1>3. m <= MaxThreads /\ m \in Nat
    <2> DEFINE P == MaxStarts * MostThreads
               Q == starts * MostThreads
    <2>1. /\ Q + MostThreads <= P /\ Q \in Nat /\ Cardinality(Done) <= MaxClients
          /\ Cardinality(Made) <= Q + Cardinality(Done) /\ Cardinality(Done) \in Nat
        BY <1>1, RoomCounts
    <2>2. P \in Nat /\ MaxThreads = P + MaxClients /\ Cardinality(Made) \in Nat
        BY <1>1, RoomCounts
    <2> HIDE DEF P, Q
    <2> QED BY <1>1, <2>1, <2>2
<1>4. /\ k \in Sessions /\ session[k] = "none"
      /\ NewSession(session) = [session EXCEPT ![k] = "accepting"]
      /\ Created \cup {k} = 1 .. k
    BY <1>2, FreshSession
<1>5. at \in [Actors -> Step] /\ {t \in Threads : at[t] # "none"} = 1 .. Cardinality(Made)
    BY DEF Types, InOrder, Made
<1>6. Cardinality(Made) \in Nat
    BY RoomCounts
<1>7. /\ \A u \in Actors : NewThreads(at, n)[u] =
            IF u \in Threads /\ at[u] = "none" /\ u <= m THEN "run" ELSE at[u]
      /\ {t \in Threads : NewThreads(at, n)[t] # "none"} = 1 .. m
    BY <1>3, <1>5, <1>6, FreshThreads
<1> QED BY <1>3, <1>4, <1>7

\* What start does to sessions and threads.
LEMMA StartEffect ==
    ASSUME Types, InOrder, NumbersLeft, Start(TRUE)
    PROVE  LET k == Cardinality(Created) + 1
               m == Cardinality(Made) + StartThreads(policy)
           IN  /\ k \in Sessions /\ session[k] = "none"
               /\ session' = [session EXCEPT ![k] = "accepting"]
               /\ \A u \in Actors : at'[u] =
                    IF u \in Threads /\ at[u] = "none" /\ u <= m THEN "run" ELSE at[u]
               /\ m \in Nat /\ m <= MaxThreads
<1>1. /\ starts < MaxStarts /\ session' = NewSession(session)
      /\ at' = NewThreads(at, StartThreads(policy))
    BY DEF Start
<1>2. StartThreads(policy) \in Nat /\ StartThreads(policy) <= MostThreads
    BY MostThreadsOfAll, StartsOneThread DEF Types
<1> QED BY <1>1, <1>2, RoomToStart

NewOnes == IF policy = OnePerConnection THEN 1 ELSE 0

\* What wait_next_connection does to sessions and threads.
LEMMA WaitEffect ==
    ASSUME Types, InOrder, NumbersLeft, NEW t \in Threads, WaitNextConnection(t)
    PROVE  LET k == Cardinality(Created) + 1
               m == Cardinality(Made) + NewOnes
           IN  /\ k \in Sessions /\ session[k] = "none"
               /\ session' = [session EXCEPT ![k] = "accepting"]
               /\ Created \cup {k} = 1 .. k
               /\ at[t] = "next" /\ at'[t] = "return"
               /\ \A u \in Actors \ {t} : at'[u] =
                    IF u \in Threads /\ at[u] = "none" /\ u <= m THEN "run" ELSE at[u]
               /\ {u \in Threads : at'[u] # "none"} = 1 .. m
               /\ m \in Nat /\ m <= MaxThreads /\ NewOnes \in {0, 1}
<1> DEFINE k == Cardinality(Created) + 1
           m == Cardinality(Made) + NewOnes
           a == [at EXCEPT ![t] = "return"]
<1>1. /\ at[t] = "next" /\ session' = NewSession(session)
      /\ at' = NewThreads(a, NewOnes)
    BY DEF WaitNextConnection, NewOnes
<1>2. MaxThreads = MaxStarts * MostThreads + MaxClients /\ MaxThreads \in Nat
      /\ MaxClients \in Nat /\ MaxStarts \in Nat
    BY Numbers, TypesNamed
<1>3. Cardinality(Adders) >= 1
    <2>1. t \in Adders /\ Adders \in SUBSET Threads
        BY <1>1 DEF Adders, Adding
    <2>2. Cardinality(Adders) # 0 /\ Cardinality(Adders) \in Nat
        BY <2>1, Counted, FS_EmptySet
    <2> QED BY <2>2
<1>4. k <= MaxClients + MaxStarts
    BY <1>2, <1>3, RoomCounts
<1>5. m <= MaxThreads /\ m \in Nat /\ NewOnes \in {0, 1}
    <2> DEFINE P == MaxStarts * MostThreads
               Q == starts * MostThreads
    <2>1. /\ Q <= P /\ Q \in Nat /\ Cardinality(Done) <= MaxClients
          /\ Cardinality(Made) + Cardinality(Adders) <= Q + Cardinality(Done)
          /\ Cardinality(Done) \in Nat /\ Cardinality(Adders) \in Nat
        BY <1>2, RoomCounts
    <2>2. P \in Nat /\ MaxThreads = P + MaxClients /\ Cardinality(Made) \in Nat
        BY <1>2, Numbers, TypesNamed, RoomCounts
    <2>3. NewOnes \in {0, 1}
        BY DEF NewOnes
    <2> HIDE DEF P, Q
    <2> QED BY <1>2, <1>3, <2>1, <2>2, <2>3
<1>6. /\ k \in Sessions /\ session[k] = "none"
      /\ NewSession(session) = [session EXCEPT ![k] = "accepting"]
      /\ Created \cup {k} = 1 .. k
    BY <1>4, FreshSession
<1>7. /\ a \in [Actors -> Step] /\ a[t] = "return"
      /\ \A u \in Actors \ {t} : a[u] = at[u]
    BY ActorsAre DEF Types, Step
<1>8. {u \in Threads : a[u] # "none"} = 1 .. Cardinality(Made)
    <2>1. \A u \in Threads : a[u] # "none" <=> at[u] # "none"
        BY <1>1, <1>7, ActorsAre
    <2> QED BY <2>1 DEF InOrder, Made
<1>9. Cardinality(Made) \in Nat
    BY RoomCounts
<1> HIDE DEF a
<1>10. /\ \A u \in Actors : at'[u] =
             IF u \in Threads /\ a[u] = "none" /\ u <= m THEN "run" ELSE a[u]
       /\ {u \in Threads : at'[u] # "none"} = 1 .. m
    BY <1>1, <1>5, <1>7, <1>8, <1>9, FreshThreads
<1>11. at'[t] = "return"
    BY <1>7, <1>10, ActorsAre
<1> QED BY <1>1, <1>5, <1>6, <1>7, <1>10, <1>11

Room == InOrder /\ NumbersLeft

\* Steps that start and finish nothing keep the numbers.
LEMMA RoomFrame ==
    ASSUME Types, Room, starts' = starts,
           \A c \in Sessions : /\ session'[c] = "none" <=> session[c] = "none"
                               /\ session'[c] = "done" <=> session[c] = "done",
           Cardinality(Clients') <= MaxClients,
           \A u \in Threads : /\ at'[u] = "none" <=> at[u] = "none"
                              /\ Adding(u)' <=> Adding(u)
    PROVE  Room'
<1>1. /\ Created' = Created /\ Done' = Done /\ Made' = Made
      /\ {t \in Threads : Adding(t)}' = {t \in Threads : Adding(t)}
    BY DEF Created, Done, Made
<1> QED BY <1>1 DEF Room, InOrder, NumbersLeft

LEMMA SameClients ==
    ASSUME Room, \A c \in Sessions : session'[c] \in {"none", "accepting"} <=>
                                         session[c] \in {"none", "accepting"}
    PROVE  Cardinality(Clients') <= MaxClients
<1>1. Clients' = Clients
    BY DEF Clients
<1> QED BY <1>1 DEF Room, NumbersLeft

\* A start keeps the numbers, whatever it creates.
LEMMA RoomStarted ==
    ASSUME Types, Room, starts < MaxStarts, starts' = starts + 1,
           session' = session \/ session' = NewSession(session),
           NEW n \in Nat, n <= MostThreads, at' = at \/ at' = NewThreads(at, n)
    PROVE  Room'
<1> USE DEF Room
<1> DEFINE Q == starts * MostThreads
           k == Cardinality(Created) + 1
           m == Cardinality(Made) + n
<1>1. /\ k \in Sessions /\ session[k] = "none"
      /\ NewSession(session) = [session EXCEPT ![k] = "accepting"]
      /\ Created \cup {k} = 1 .. k
      /\ \A u \in Actors : NewThreads(at, n)[u] =
           IF u \in Threads /\ at[u] = "none" /\ u <= m THEN "run" ELSE at[u]
      /\ {t \in Threads : NewThreads(at, n)[t] # "none"} = 1 .. m
      /\ m \in Nat
    BY RoomToStart
<1>2. Cardinality(Created) \in Nat /\ Cardinality(Made) \in Nat
    BY RoomCounts
<1>3. PICK i \in Nat : i <= k /\ Created' = 1 .. i
    <2>1. CASE session' = session
        <3>1. Created' = 1 .. Cardinality(Created)
            BY <2>1 DEF Created, InOrder
        <3> QED BY <1>2, <3>1
    <2>2. CASE session' = NewSession(session)
        <3>1. Created' = Created \cup {k}
            BY <1>1, <2>2 DEF Created, Types
        <3> QED BY <1>1, <1>2, <3>1
    <2> QED BY <2>1, <2>2
<1>4. PICK j \in Nat : j <= m /\ Made' = 1 .. j
    <2>1. CASE at' = at
        <3>1. Made' = 1 .. Cardinality(Made)
            BY <2>1 DEF Made, InOrder
        <3> QED BY <1>1, <1>2, <3>1
    <2>2. CASE at' = NewThreads(at, n)
        <3>1. Made' = 1 .. m
            BY <1>1, <2>2 DEF Made
        <3> HIDE DEF m
        <3> QED BY <1>1, <3>1
    <2> QED BY <2>1, <2>2
<1>5. Done' = Done /\ Clients' = Clients
    BY <1>1 DEF Done, Clients, Types
<1>6. Adders' = Adders
    <2>1. \A u \in Threads : Adding(u)' <=> Adding(u)
        BY <1>1, ActorsAre DEF Adding
    <2> QED BY <2>1 DEF Adders
<1>7. Cardinality(1 .. i) = i /\ Cardinality(1 .. j) = j
    BY FS_Interval
<1>8. /\ Cardinality(Created') = i /\ Cardinality(Made') = j
      /\ starts' * MostThreads = Q + MostThreads /\ Q \in Nat /\ MostThreads \in Nat
    BY <1>3, <1>4, <1>7, RoomCounts, Numbers, TypesNamed
<1>9. /\ Cardinality(Made) + Cardinality(Adders) <= Q + Cardinality(Done)
      /\ Cardinality(Created) + Cardinality(Adders) <= starts + Cardinality(Done)
      /\ Cardinality(Made) \in Nat /\ Cardinality(Created) \in Nat
      /\ Cardinality(Adders) \in Nat /\ Cardinality(Done) \in Nat /\ starts \in Nat
    BY RoomCounts DEF Types
<1>10. /\ k = Cardinality(Created) + 1 /\ m = Cardinality(Made) + n
    OBVIOUS
<1> HIDE DEF Q, k, m
<1>11. j + Cardinality(Adders) <= starts' * MostThreads + Cardinality(Done)
    <2>1. j + Cardinality(Adders) <= (Q + MostThreads) + Cardinality(Done)
        <3>1. j <= Cardinality(Made) + n
            BY <1>4, <1>10
        <3>2. MostThreads \in Nat /\ Q \in Nat
            BY <1>8
        <3>3. Cardinality(Made) + Cardinality(Adders) <= Q + Cardinality(Done)
            BY <1>9
        <3>4. /\ Cardinality(Made) \in Nat /\ Cardinality(Adders) \in Nat
              /\ Cardinality(Done) \in Nat
            BY <1>9
        <3> QED BY <3>1, <3>2, <3>3, <3>4
    <2> QED BY <1>8, <2>1
<1>12. i + Cardinality(Adders) <= starts' + Cardinality(Done)
    BY <1>3, <1>9, <1>10
<1> HIDE DEF k, m
<1> QED BY <1>3, <1>4, <1>5, <1>6, <1>8, <1>11, <1>12, RoomCounts
        DEF InOrder, NumbersLeft, Adders

LEMMA RoomStart ==
    ASSUME Types, Room, NEW b \in BOOLEAN, Start(b) \/ StartBreaksOff PROVE Room'
<1>1. policy \in Policies
    BY DEF Types
<1>2. /\ StartThreads(policy) \in Nat /\ StartThreads(policy) <= MostThreads
      /\ MostThreads \in Nat
    BY <1>1, MostThreadsOfAll, StartsOneThread
<1>3. Spawned(policy) \in Nat /\ Spawned(policy) <= StartThreads(policy)
    BY <1>1, SpawnedFewer
<1>4. CASE Start(b)
    <2>1. /\ starts < MaxStarts /\ starts' = starts + 1
          /\ session' = session \/ session' = NewSession(session)
          /\ at' = at \/ at' = NewThreads(at, StartThreads(policy))
        BY <1>4 DEF Start
    <2> QED BY <1>2, <2>1, RoomStarted
<1>5. CASE StartBreaksOff
    <2>1. /\ starts < MaxStarts /\ starts' = starts + 1
          /\ session' = session \/ session' = NewSession(session)
          /\ at' = at \/ \E n \in 0 .. Spawned(policy) - 1 : at' = NewThreads(at, n)
        BY <1>5 DEF StartBreaksOff
    <2>2. CASE at' = at
        BY <1>2, <2>1, <2>2, RoomStarted
    <2>3. ASSUME NEW n \in 0 .. Spawned(policy) - 1, at' = NewThreads(at, n)
          PROVE  Room'
        <3>1. n \in Nat /\ n <= MostThreads
            BY <1>2, <1>3
        <3> QED BY <2>1, <2>3, <3>1, RoomStarted
    <2> QED BY <2>1, <2>2, <2>3
<1> QED BY <1>4, <1>5

LEMMA RoomWait ==
    ASSUME Types, Room, NEW t \in Threads, WaitNextConnection(t) PROVE Room'
<1> USE DEF Room
<1> DEFINE k == Cardinality(Created) + 1
           m == Cardinality(Made) + NewOnes
<1>1. /\ k \in Sessions /\ session[k] = "none"
      /\ session' = [session EXCEPT ![k] = "accepting"]
      /\ Created \cup {k} = 1 .. k
      /\ at[t] = "next" /\ at'[t] = "return"
      /\ \A u \in Actors \ {t} : at'[u] =
           IF u \in Threads /\ at[u] = "none" /\ u <= m THEN "run" ELSE at[u]
      /\ {u \in Threads : at'[u] # "none"} = 1 .. m
      /\ m \in Nat /\ m <= MaxThreads /\ NewOnes \in {0, 1}
    BY WaitEffect
<1>2. Created' = 1 .. k /\ k \in Nat
    <2>1. Created' = Created \cup {k}
        BY <1>1 DEF Created, Types
    <2> QED BY <1>1, <2>1, RoomCounts
<1>3. Made' = 1 .. m
    BY <1>1 DEF Made
<1>4. Done' = Done /\ Clients' = Clients
    BY <1>1 DEF Done, Clients, Types
<1>5. Adders' = Adders \ {t} /\ t \in Adders
    <2>1. \A u \in Threads : Adding(u)' <=> Adding(u) /\ u # t
        BY <1>1, ActorsAre DEF Adding
    <2> QED BY <1>1, <2>1 DEF Adders, Adding
<1>6. Cardinality(Created') = k /\ Cardinality(Made') = m
    BY <1>1, <1>2, <1>3, FS_Interval
<1>7. Cardinality(Adders') = Cardinality(Adders) - 1
    <2>1. IsFiniteSet(Adders)
        BY Counted DEF Adders
    <2> QED BY <1>5, <2>1, FS_RemoveElement
<1>8. starts' = starts
    BY DEF WaitNextConnection, config
<1>9. m + Cardinality(Adders') <= starts' * MostThreads + Cardinality(Done)
    BY <1>1, <1>7, <1>8, RoomCounts
<1>10. k + Cardinality(Adders') <= starts' + Cardinality(Done)
    BY <1>7, <1>8, RoomCounts
<1> HIDE DEF k, m
<1> QED BY <1>2, <1>3, <1>4, <1>5, <1>6, <1>9, <1>10, RoomCounts
        DEF InOrder, NumbersLeft, Adders

LEMMA RoomConstruct ==
    ASSUME Types, Room, NEW t \in Threads, NEW c \in Sessions, Construct(t, c)
    PROVE  Room'
<1> USE DEF Room
<1>1. /\ at[t] = "run" /\ session[c] \in {"ready", "accepted"}
      /\ session' = [session EXCEPT ![c] = "done"]
      /\ at'[t] = "slots" /\ \A u \in Actors \ {t} : at'[u] = at[u]
      /\ starts' = starts
    BY GotoMoves, ActorsAre DEF Construct, config
<1>2. Created' = Created /\ Clients' = Clients
    BY <1>1 DEF Created, Clients, Types
<1>3. Done' = Done \cup {c} /\ c \notin Done
    BY <1>1 DEF Done, Types
<1>4. \A u \in Threads : /\ at'[u] = "none" <=> at[u] = "none"
                         /\ Adding(u)' <=> Adding(u) \/ u = t
    BY <1>1, ActorsAre DEF Adding
<1>5. Made' = Made /\ Adders' = Adders \cup {t} /\ t \notin Adders
    BY <1>1, <1>4 DEF Made, Adders, Adding
<1>6. Cardinality(Done') = Cardinality(Done) + 1
    <2>1. IsFiniteSet(Done)
        BY Counted DEF Done
    <2> QED BY <1>3, <2>1, FS_AddElement
<1>7. Cardinality(Adders') = Cardinality(Adders) + 1
    <2>1. IsFiniteSet(Adders)
        BY Counted DEF Adders
    <2> QED BY <1>5, <2>1, FS_AddElement
<1>8. Cardinality(Made) + Cardinality(Adders') <= starts' * MostThreads + Cardinality(Done')
    BY <1>1, <1>6, <1>7, RoomCounts
<1>9. Cardinality(Created) + Cardinality(Adders') <= starts' + Cardinality(Done')
    BY <1>1, <1>6, <1>7, RoomCounts
<1> QED BY <1>2, <1>5, <1>8, <1>9, RoomCounts DEF InOrder, NumbersLeft, Adders

LEMMA RoomAccept ==
    ASSUME Types, Room, NEW c \in Sessions, NEW o \in {"accepted", "failed"},
           Accept(c, o)
    PROVE  Room'
<1>1. /\ session[c] = "accepting" /\ session' = [session EXCEPT ![c] = o]
      /\ Cardinality(Clients) < MaxClients
      /\ starts' = starts /\ at' = at
    BY DEF Accept, config, threads
<1>2. Clients' = Clients \cup {c} /\ c \notin Clients
    BY <1>1 DEF Clients, Types
<1>3. Cardinality(Clients') = Cardinality(Clients) + 1
    <2>1. IsFiniteSet(Clients)
        BY Counted DEF Clients
    <2> QED BY <1>2, <2>1, FS_AddElement
<1>4. Cardinality(Clients') <= MaxClients
    BY <1>1, <1>3, RoomCounts, Numbers, TypesNamed DEF Room
<1>5. \A d \in Sessions : /\ session'[d] = "none" <=> session[d] = "none"
                          /\ session'[d] = "done" <=> session[d] = "done"
    BY <1>1 DEF Types
<1> QED BY <1>1, <1>4, <1>5, RoomFrame DEF Adding

LEMMA RoomNext == Types /\ Room /\ [Next]_vars => Room'
<1> SUFFICES ASSUME Types, Room, [Next]_vars PROVE Room'
    OBVIOUS
<1>1. ASSUME session' = session, starts' = starts, UNCHANGED <<at, on>> PROVE Room'
    <2>1. Cardinality(Clients') <= MaxClients
        BY <1>1, SameClients
    <2> QED BY <1>1, <2>1, RoomFrame DEF Adding
<1>2. ASSUME session' = session, starts' = starts, NEW t \in Actors,
             \A u \in Actors \ {t} : at'[u] = at[u],
             at[t] # "none" /\ at'[t] # "none", Adding(t)' <=> Adding(t)
      PROVE  Room'
    <2>1. Cardinality(Clients') <= MaxClients
        BY <1>2, SameClients
    <2>2. \A u \in Threads : /\ at'[u] = "none" <=> at[u] = "none"
                             /\ Adding(u)' <=> Adding(u)
        <3> SUFFICES ASSUME NEW u \in Threads
                     PROVE  /\ at'[u] = "none" <=> at[u] = "none"
                            /\ Adding(u)' <=> Adding(u)
            OBVIOUS
        <3>1. CASE u = t
            BY <1>2, <3>1
        <3>2. CASE u # t
            <4>1. at'[u] = at[u]
                BY <1>2, <3>2, ActorsAre
            <4> QED BY <4>1 DEF Adding
        <3> QED BY <3>1, <3>2
    <2> QED BY <1>2, <2>1, <2>2, RoomFrame
<1>3. CASE UNCHANGED vars
    BY <1>1, <1>3 DEF vars, config, threads
<1>4. ASSUME NEW p \in Policies, SetThreadPolicy(p) PROVE Room'
    BY <1>1, <1>4 DEF SetThreadPolicy, threads
<1>5. CASE Stop
    BY <1>1, <1>5 DEF Stop, threads
<1>6. ASSUME NEW c \in Sessions, NEW e, PeerEnds(c, e) PROVE Room'
    BY <1>1, <1>6 DEF PeerEnds, threads, config
<1>7. ASSUME NEW t \in Threads, NEW c \in Sessions, ReadError(t, c) \/ ReadAborted(t, c)
      PROVE  Room'
    BY <1>1, <1>7 DEF ReadError, ReadAborted, threads, config
<1>8. ASSUME NEW c \in Sessions, NEW t,
             \/ \E o \in {"ready", "failed"} : Handshake(c, o)
             \/ AcceptHandler(t, c) \/ AcceptError(t, c)
      PROVE  Room'
    <2>1. /\ UNCHANGED <<at, on>> /\ starts' = starts
          /\ \E s, r \in {"accepted", "handshaking", "ready", "failed", "lost"} :
               session[c] = s /\ session' = [session EXCEPT ![c] = r]
        BY <1>8 DEF Handshake, AcceptHandler, AcceptError, threads, config
    <2>2. PICK s, r \in {"accepted", "handshaking", "ready", "failed", "lost"} :
               session[c] = s /\ session' = [session EXCEPT ![c] = r]
        BY <2>1
    <2>3. \A d \in Sessions :
            /\ session'[d] = "none" <=> session[d] = "none"
            /\ session'[d] = "done" <=> session[d] = "done"
            /\ session'[d] \in {"none", "accepting"} <=> session[d] \in {"none", "accepting"}
        BY <2>2 DEF Types
    <2>4. Cardinality(Clients') <= MaxClients
        BY <2>3, SameClients
    <2> QED BY <2>1, <2>3, <2>4, RoomFrame DEF Adding
<1>9. ASSUME NEW t \in Actors,
             \/ t \in Threads /\ (\/ ConnectSlots(t) \/ AddConnection(t)
                                  \/ EmitConnected(t) \/ DropSession(t)
                                  \/ ReturnFromAccept(t))
             \/ RemoveConnection(t) \/ DestroySession(t)
      PROVE  Room'
    <2>1. session' = session /\ starts' = starts
        BY <1>9 DEF ConnectSlots, AddConnection, EmitConnected, DropSession,
                    ReturnFromAccept, RemoveConnection, DestroySession, config
    <2>2. \A u \in Actors \ {t} : at'[u] = at[u]
        BY <1>9, GotoMoves
           DEF ConnectSlots, AddConnection, EmitConnected, DropSession,
               ReturnFromAccept, RemoveConnection, DestroySession, LeaveEmission
    <2>3. at[t] # "none" /\ at'[t] # "none" /\ (Adding(t)' <=> Adding(t))
        BY <1>9, GotoMoves
           DEF ConnectSlots, AddConnection, EmitConnected, DropSession,
               ReturnFromAccept, RemoveConnection, DestroySession, LeaveEmission, Adding
    <2> QED BY <1>2, <2>1, <2>2, <2>3
<1>10. ASSUME NEW t \in Threads, Exit(t) PROVE Room'
    <2>1. /\ session' = session /\ starts' = starts /\ at[t] = "run"
          /\ at'[t] = "exited" /\ \A u \in Actors \ {t} : at'[u] = at[u]
        BY <1>10, ActorsAre DEF Exit, Types, config
    <2> QED BY <1>2, <2>1, ActorsAre DEF Adding
<1>11. ASSUME NEW t \in Actors, NEW c \in Sessions,
              \/ t \in Threads /\ (ReadEnd(t, c) \/ SlotCloses(t, c))
              \/ t = User /\ UserCloses(c)
       PROVE  Room'
    <2>1. session' = session /\ starts' = starts
        BY <1>11 DEF ReadEnd, SlotCloses, UserCloses, config
    <2>2. UNCHANGED <<at, on>> \/ (Goto(t, "remove", c) /\ at[t] \in {"run", "user"})
        BY <1>11 DEF ReadEnd, SlotCloses, UserCloses
    <2>3. CASE Goto(t, "remove", c) /\ at[t] \in {"run", "user"}
        <3>1. at'[t] = "remove" /\ \A u \in Actors \ {t} : at'[u] = at[u]
            BY <2>3, GotoMoves
        <3> QED BY <1>2, <2>1, <2>3, <3>1 DEF Adding
    <2> QED BY <1>1, <2>1, <2>2, <2>3
<1> QED BY <1>3, <1>4, <1>5, <1>6, <1>7, <1>8, <1>9, <1>10, <1>11, RoomStart,
           RoomWait, RoomConstruct, RoomAccept, ActorsAre, StepShape

LEMMA RoomInit == Init => Room
<1> SUFFICES ASSUME Init PROVE Room
    OBVIOUS
<1>1. /\ Created = {} /\ Made = {} /\ Done = {} /\ Clients = {}
      /\ {t \in Threads : Adding(t)} = {}
    BY TypesInit, TypesNamed, Numbers DEF Init, Created, Made, Done, Clients, Adding
<1>2. Cardinality({}) = 0 /\ 1 .. 0 = {}
    BY FS_EmptySet
<1>3. MostThreads \in Nat /\ MaxClients \in Nat /\ 0 * MostThreads = 0 /\ starts = 0
    BY TypesInit, TypesNamed, Numbers DEF Init
<1> QED BY <1>1, <1>2, <1>3 DEF Room, InOrder, NumbersLeft

-----------------------------------------------------------------------------
(***************************************************************************)
(* What each step does, thread by thread and connection by connection.     *)
(***************************************************************************)

\* u stays where it is, unless it is a thread that is made.
Stays(u) ==
    /\ on'[u] = on[u]
    /\ at'[u] = at[u] \/ (u \in Threads /\ at[u] = "none" /\ at'[u] = "run")

Moved(t, s, r) ==
    /\ at[t] = s /\ at'[t] = r
    /\ \A u \in Actors \ {t} : Stays(u)

SameDone == \A c \in Sessions : session'[c] = "done" <=> session[c] = "done"

NoNews == signals' = signals \/ \E c \in Sessions \cup {0} :
                                    signals' = Append(signals, <<"error", c>>)

\* Steps that have to do with no connection that is constructed.
Background ==
    /\ \A u \in Actors : Stays(u)
    /\ SameDone /\ NoNews
    /\ UNCHANGED <<reader, slots, list, held, mutex>>

\* Steps of a read loop that have no consequences.
ReaderOnly(c, s, r) ==
    /\ reader[c] = s /\ reader'[c] = r
    /\ \A d \in Sessions \ {c} : reader'[d] = reader[d]
    /\ SameDone /\ NoNews
    /\ UNCHANGED <<at, on, slots, list, held, mutex>>

Quiet ==
    \E c \in Sessions :
        \/ ReaderOnly(c, "reading", "ended") \/ ReaderOnly(c, "reading", "broken")
        \/ /\ \/ ReaderOnly(c, "broken", "lost") \/ ReaderOnly(c, "aborted", "done")
              \/ ReaderOnly(c, "ended", "done") /\ c \notin slots
           /\ \E t \in Threads : at[t] = "run"

ConstructEffect(t, c) ==
    /\ Moved(t, "run", "slots") /\ on'[t] = c
    /\ session[c] # "done" /\ session'[c] = "done"
    /\ \A d \in Sessions \ {c} : session'[d] = session[d]
    /\ reader'[c] = "reading" /\ \A d \in Sessions \ {c} : reader'[d] = reader[d]
    /\ UNCHANGED <<slots, list, held, mutex, signals>>

\* one_per_connection has a thread made.
ThreadIsMade ==
    policy = OnePerConnection =>
        \E u \in Threads : at[u] = "none" /\ at'[u] = "run"

\* A thread adds its connection, and goes on.
AddEffect(t) ==
    /\ on'[t] = on[t] /\ SameDone /\ UNCHANGED reader
    /\ \/ /\ Moved(t, "slots", "add")
          /\ slots' = slots \cup {on[t]}
          /\ UNCHANGED <<list, held, mutex, signals>>
       \/ /\ Moved(t, "add", "emit")
          /\ list' = list \cup {on[t]}
          /\ mutex = Free /\ mutex' = t
          /\ UNCHANGED <<slots, held, signals>>
       \/ /\ Moved(t, "emit", "drop")
          /\ signals' = Append(signals, <<"connected", on[t]>>)
          /\ held \subseteq held' /\ mutex' = Free
          /\ UNCHANGED <<slots, list>>
       \/ /\ \/ Moved(t, "drop", "next") /\ on[t] \in list
             \/ Moved(t, "drop", "hung") /\ on[t] \notin list
          /\ UNCHANGED <<slots, list, held, mutex, signals>>
       \/ /\ Moved(t, "next", "return")
          /\ ThreadIsMade
          /\ UNCHANGED <<slots, list, held, mutex, signals>>

\* A thread goes back to the service, or leaves it.
LeaveEffect(t) ==
    /\ \/ Moved(t, "return", "run") /\ on'[t] = 0
       \/ Moved(t, "run", "exited") /\ on'[t] = on[t] /\ stopped' = TRUE
    /\ SameDone /\ UNCHANGED <<reader, slots, list, held, mutex, signals>>

\* A connection is closed, or its end is noticed.
CloseEffect(t, c) ==
    /\ on'[t] = c /\ SameDone
    /\ signals' = Append(signals, <<"disconnected", c>>)
    /\ \A d \in Sessions \ {c} : reader'[d] = reader[d]
    /\ UNCHANGED <<slots, list, mutex>>
    /\ \/ /\ t \in Threads /\ Moved(t, "run", "remove")
          /\ reader[c] = "ended" /\ reader'[c] = "done"
          /\ c \in slots /\ held' = held
       \/ /\ t \in Threads /\ Moved(t, "run", "remove")
          /\ reader[c] = "reading" /\ reader'[c] = "handling"
          /\ c \in slots /\ held' = held
          /\ \A u \in Actors : on[u] # c
       \/ /\ t = User /\ Moved(t, "user", "remove")
          /\ mutex = Free /\ c \in list
          /\ \/ reader[c] = "reading" /\ reader'[c] \in {"aborted", "ended"}
             \/ reader[c] \notin {"reading", "handling"} /\ reader'[c] = reader[c]
          /\ held' = held \cup {c}

\* A connection's end has been dealt with.
EndEffect(t, s) ==
    /\ \/ Moved(t, s, "user") /\ on'[t] = 0 /\ t = User
       \/ Moved(t, s, "run") /\ on'[t] = 0 /\ t # User /\ ~ HoldsLast(t)
       \/ Moved(t, s, "stuck") /\ on'[t] = on[t] /\ t # User /\ HoldsLast(t)
    /\ \A d \in Sessions :
         reader'[d] = IF d = on[t] /\ reader[d] = "handling" /\ ~ HoldsLast(t)
                      THEN "broken" ELSE reader[d]

\* A connection is removed, and with it perhaps its session.
RemoveEffect(t) ==
    /\ SameDone /\ UNCHANGED <<slots, held, signals>>
    /\ \/ /\ mutex = Free /\ list' = list \ {on[t]}
          /\ \/ EndEffect(t, "remove") /\ UNCHANGED mutex
             \/ /\ Moved(t, "remove", "destroy")
                /\ on[t] \in list /\ InEmission(on[t]) /\ on'[t] = on[t]
                /\ mutex' = t /\ UNCHANGED reader
       \/ EndEffect(t, "destroy") /\ mutex' = Free /\ UNCHANGED list

LEMMA BackgroundSteps ==
    ASSUME Types, Room, NEW c, NEW t,
           \/ \E p \in Policies : SetThreadPolicy(p)
           \/ \E b \in BOOLEAN : Start(b)
           \/ StartBreaksOff \/ Stop \/ UNCHANGED vars
           \/ \E o \in {"accepted", "failed"} : Accept(c, o)
           \/ \E o \in {"ready", "failed"} : Handshake(c, o)
           \/ AcceptHandler(t, c) \/ (c \in Sessions /\ AcceptError(t, c))
    PROVE  Background
<1>1. ASSUME UNCHANGED <<at, on>> PROVE \A u \in Actors : Stays(u)
    BY <1>1 DEF Stays
<1>2. ASSUME session' = session PROVE SameDone
    BY <1>2 DEF SameDone
<1>3. ASSUME NEW p \in Policies, SetThreadPolicy(p) PROVE Background
    BY <1>1, <1>2, <1>3 DEF SetThreadPolicy, Background, NoNews, threads
<1>4. CASE Stop
    BY <1>1, <1>2, <1>4 DEF Stop, Background, NoNews, threads
<1>5. CASE UNCHANGED vars
    BY <1>1, <1>2, <1>5 DEF vars, Background, NoNews, threads
<1>6. CASE Start(TRUE)
    <2>1. SameDone
        BY <1>6, StartEffect DEF SameDone, Types, Room
    <2>2. on' = on
        BY <1>6 DEF Start
    <2>3. \A u \in Actors : Stays(u)
        BY <1>6, <2>2, StartEffect DEF Stays, Room
    <2>4. UNCHANGED <<reader, slots, list, held, mutex, signals>>
        BY <1>6 DEF Start
    <2> QED BY <2>1, <2>3, <2>4 DEF Background, NoNews
<1>7. CASE Start(FALSE)
    BY <1>1, <1>2, <1>7 DEF Start, Background, NoNews
<1>8. ASSUME NEW s, NEW r, s # "done", r # "done", session[c] = s,
             session' = [session EXCEPT ![c] = r]
      PROVE  SameDone
    BY <1>8 DEF SameDone, Types
<1>9. ASSUME NEW o \in {"accepted", "failed"}, Accept(c, o) PROVE Background
    <2>1. SameDone
        BY <1>8, <1>9 DEF Accept
    <2> QED BY <1>1, <1>9, <2>1 DEF Accept, Background, NoNews, threads
<1>10. ASSUME NEW o \in {"ready", "failed"}, Handshake(c, o) PROVE Background
    <2>1. SameDone
        BY <1>8, <1>10 DEF Handshake
    <2> QED BY <1>1, <1>10, <2>1 DEF Handshake, Background, NoNews, threads
<1>11. CASE AcceptHandler(t, c)
    <2>1. SameDone
        BY <1>8, <1>11 DEF AcceptHandler
    <2> QED BY <1>1, <1>11, <2>1 DEF AcceptHandler, Background, NoNews, threads
<1>12. CASE c \in Sessions /\ AcceptError(t, c)
    <2>1. SameDone
        BY <1>8, <1>12 DEF AcceptError
    <2> QED BY <1>1, <1>12, <2>1 DEF AcceptError, Background, NoNews, threads
<1>13. CASE StartBreaksOff
    <2>1. policy \in Policies
        BY DEF Types
    <2>2. /\ MostThreads \in Nat /\ Spawned(policy) \in Nat
          /\ Spawned(policy) <= MostThreads
        BY <2>1, MostThreadsOfAll, StartsOneThread, SpawnedFewer
    <2>3. starts < MaxStarts /\ InOrder /\ NumbersLeft
        BY <1>13 DEF StartBreaksOff, Room
    <2>4. ASSUME NEW n \in 0 .. Spawned(policy) - 1
          PROVE  /\ NewSession(session) = session \/ \E k \in Sessions :
                      /\ session[k] = "none"
                      /\ NewSession(session) = [session EXCEPT ![k] = "accepting"]
                 /\ \A u \in Actors : NewThreads(at, n)[u] = at[u] \/
                      (u \in Threads /\ at[u] = "none" /\ NewThreads(at, n)[u] = "run")
        <3>1. n \in Nat /\ n <= MostThreads
            BY <2>2
        <3> QED BY <2>3, <3>1, RoomToStart
    <2>5. 0 \in 0 .. Spawned(policy) - 1 \/ session' = session
        <3>1. session' = session \/ \E n \in 0 .. Spawned(policy) - 1 : TRUE
            BY <1>13 DEF StartBreaksOff
        <3> QED BY <2>2, <3>1
    <2>6. SameDone
        <3>1. session' = session \/ session' = NewSession(session)
            BY <1>13 DEF StartBreaksOff
        <3> QED BY <1>8, <2>4, <2>5, <3>1 DEF SameDone, Types
    <2>7. /\ on' = on /\ NoNews /\ UNCHANGED <<reader, slots, list, held, mutex>>
          /\ at' = at \/ \E n \in 0 .. Spawned(policy) - 1 : at' = NewThreads(at, n)
        BY <1>13 DEF StartBreaksOff, NoNews
    <2>8. \A u \in Actors : Stays(u)
        BY <2>4, <2>7 DEF Stays
    <2> QED BY <2>6, <2>7, <2>8 DEF Background
<1> QED BY <1>3, <1>4, <1>5, <1>6, <1>7, <1>9, <1>10, <1>11, <1>12, <1>13

LEMMA GotoStays ==
    ASSUME Types, NEW t \in Actors, NEW s, NEW c, Goto(t, s, c)
    PROVE  at'[t] = s /\ on'[t] = c /\ \A u \in Actors \ {t} : Stays(u)
BY GotoMoves DEF Stays

LEMMA Effects ==
    ASSUME Types, Room, [Next]_vars
    PROVE  \/ Background \/ Quiet
           \/ \E t \in Threads, c \in Sessions : ConstructEffect(t, c)
           \/ \E t \in Threads : AddEffect(t) \/ LeaveEffect(t)
           \/ \E t \in Actors, c \in Sessions : CloseEffect(t, c)
           \/ \E t \in Actors : RemoveEffect(t)
<1>1. session' = session => SameDone
    BY DEF SameDone
<1>2. ASSUME NEW c \in Sessions, NEW r \in ReadState, reader' = [reader EXCEPT ![c] = r]
      PROVE  reader'[c] = r /\ \A d \in Sessions \ {c} : reader'[d] = reader[d]
    BY <1>2 DEF Types
<1>3. ASSUME NEW c \in Sessions, NEW t,
             \/ \E e \in {"ended", "broken"} : PeerEnds(c, e)
             \/ /\ t \in Threads
                /\ \/ ReadError(t, c) \/ ReadAborted(t, c)
                   \/ ReadEnd(t, c) /\ c \notin slots
      PROVE  Quiet
    <2>1. \E s, r \in ReadState :
            /\ \/ s = "reading" /\ r \in {"ended", "broken"}
               \/ /\ \/ s = "broken" /\ r = "lost"
                     \/ s = "aborted" /\ r = "done"
                     \/ s = "ended" /\ r = "done" /\ c \notin slots
                  /\ t \in Threads /\ at[t] = "run"
            /\ reader[c] = s /\ reader' = [reader EXCEPT ![c] = r]
        BY <1>3 DEF PeerEnds, ReadError, ReadAborted, ReadEnd, ReadState
    <2>2. /\ session' = session /\ NoNews
          /\ UNCHANGED <<at, on, slots, list, held, mutex>>
        BY <1>3 DEF PeerEnds, ReadError, ReadAborted, ReadEnd, threads, NoNews
    <2>3. PICK s, r \in ReadState :
            /\ \/ s = "reading" /\ r \in {"ended", "broken"}
               \/ /\ \/ s = "broken" /\ r = "lost"
                     \/ s = "aborted" /\ r = "done"
                     \/ s = "ended" /\ r = "done" /\ c \notin slots
                  /\ t \in Threads /\ at[t] = "run"
            /\ reader[c] = s /\ reader' = [reader EXCEPT ![c] = r]
        BY <2>1
    <2>4. ReaderOnly(c, s, r)
        BY <1>1, <1>2, <2>2, <2>3 DEF ReaderOnly
    <2> QED BY <2>3, <2>4 DEF Quiet
<1>4. ASSUME NEW t \in Threads, NEW c \in Sessions, Construct(t, c)
      PROVE  ConstructEffect(t, c)
    <2>1. /\ at'[t] = "slots" /\ on'[t] = c /\ at[t] = "run"
          /\ \A u \in Actors \ {t} : Stays(u)
        BY <1>4, GotoStays, ActorsAre DEF Construct
    <2>2. /\ session[c] # "done" /\ session'[c] = "done"
          /\ \A d \in Sessions \ {c} : session'[d] = session[d]
        BY <1>4 DEF Construct, Types
    <2>3. reader'[c] = "reading" /\ \A d \in Sessions \ {c} : reader'[d] = reader[d]
        BY <1>4 DEF Construct, Types
    <2>4. UNCHANGED <<slots, list, held, mutex, signals>>
        BY <1>4 DEF Construct
    <2> QED BY <2>1, <2>2, <2>3, <2>4 DEF ConstructEffect, Moved
<1>5. ASSUME NEW t \in Threads, ConnectSlots(t) \/ AddConnection(t) \/ EmitConnected(t)
             \/ DropSession(t)
      PROVE  AddEffect(t)
    <2>1. on'[t] = on[t] /\ \A u \in Actors \ {t} : Stays(u)
        BY <1>5, GotoStays, ActorsAre DEF ConnectSlots, AddConnection, EmitConnected,
                                                DropSession
    <2>2. SameDone
        BY <1>1, <1>5 DEF ConnectSlots, AddConnection, EmitConnected,
                                                DropSession
    <2>3. CASE ConnectSlots(t)
        <3>1. Moved(t, "slots", "add")
            BY <2>1, <2>3, GotoStays, ActorsAre DEF ConnectSlots, Moved
        <3> QED BY <2>1, <2>2, <2>3, <3>1 DEF ConnectSlots, AddEffect
    <2>4. CASE AddConnection(t)
        <3>1. Moved(t, "add", "emit")
            BY <2>1, <2>4, GotoStays, ActorsAre DEF AddConnection, Moved
        <3> QED BY <2>1, <2>2, <2>4, <3>1 DEF AddConnection, AddEffect
    <2>5. CASE EmitConnected(t)
        <3>1. Moved(t, "emit", "drop")
            BY <2>1, <2>5, GotoStays, ActorsAre DEF EmitConnected, Moved
        <3> QED BY <2>1, <2>2, <2>5, <3>1 DEF EmitConnected, AddEffect
    <2>6. CASE DropSession(t)
        <3>1. \/ Moved(t, "drop", "next") /\ on[t] \in list
              \/ Moved(t, "drop", "hung") /\ on[t] \notin list
            BY <2>1, <2>6, GotoStays, ActorsAre DEF DropSession, Moved
        <3> QED BY <2>1, <2>2, <2>6, <3>1 DEF DropSession, AddEffect
    <2> QED BY <1>5, <2>3, <2>4, <2>5, <2>6
<1>6. ASSUME NEW t \in Threads, WaitNextConnection(t) PROVE AddEffect(t)
    <2>1. on' = on /\ UNCHANGED <<reader, slots, list, held, mutex, signals>>
        BY <1>6 DEF WaitNextConnection
    <2>2. SameDone
        BY <1>6, WaitEffect DEF SameDone, Types, Room
    <2>3. Moved(t, "next", "return")
        BY <1>6, <2>1, WaitEffect DEF Moved, Stays, Room
    <2>4. ThreadIsMade
        <3> SUFFICES ASSUME NewOnes = 1
                     PROVE  \E u \in Threads : at[u] = "none" /\ at'[u] = "run"
            BY DEF ThreadIsMade, NewOnes
        <3> DEFINE m == Cardinality(Made) + 1
        <3>1. /\ m \in Nat /\ m <= MaxThreads /\ at[t] = "next"
              /\ \A u \in Actors \ {t} : at'[u] =
                    IF u \in Threads /\ at[u] = "none" /\ u <= m THEN "run" ELSE at[u]
            BY <1>6, WaitEffect DEF Room
        <3>2. m \in Threads /\ m \notin Made
            <4>1. Made = 1 .. Cardinality(Made) /\ Cardinality(Made) \in Nat
                BY RoomCounts DEF Room, InOrder
            <4> QED BY <3>1, <4>1, Numbers, TypesNamed DEF Threads
        <3>3. at[m] = "none" /\ m \in Actors \ {t} /\ m <= m
            BY <3>1, <3>2, ActorsAre DEF Made
        <3> HIDE DEF m
        <3> QED BY <3>1, <3>2, <3>3
    <2> QED BY <2>1, <2>2, <2>3, <2>4 DEF AddEffect
<1>7. ASSUME NEW t \in Threads, ReturnFromAccept(t) PROVE LeaveEffect(t)
    <2>1. Moved(t, "return", "run") /\ on'[t] = 0
        BY <1>7, GotoStays, ActorsAre DEF ReturnFromAccept, Moved
    <2> QED BY <1>1, <1>7, <2>1 DEF ReturnFromAccept, LeaveEffect
<1>8. ASSUME NEW t \in Threads, Exit(t) PROVE LeaveEffect(t)
    <2>1. Moved(t, "run", "exited") /\ on'[t] = on[t] /\ stopped' = TRUE
        BY <1>8, ActorsAre DEF Exit, Moved, Stays, Types
    <2> QED BY <1>1, <1>8, <2>1 DEF Exit, LeaveEffect
<1>9. ASSUME NEW t \in Threads, NEW c \in Sessions,
             \/ ReadEnd(t, c) /\ c \in slots
             \/ SlotCloses(t, c)
      PROVE  CloseEffect(t, c)
    <2>1. Moved(t, "run", "remove") /\ on'[t] = c
        BY <1>9, GotoStays, ActorsAre DEF ReadEnd, SlotCloses, Moved
    <2>2. /\ \/ reader[c] = "ended" /\ reader'[c] = "done"
             \/ /\ reader[c] = "reading" /\ reader'[c] = "handling"
                /\ \A u \in Actors : on[u] # c
          /\ \A d \in Sessions \ {c} : reader'[d] = reader[d]
        BY <1>9 DEF ReadEnd, SlotCloses, Types
    <2>3. /\ c \in slots /\ session' = session
          /\ signals' = Append(signals, <<"disconnected", c>>)
          /\ UNCHANGED <<slots, list, held, mutex>>
        BY <1>9 DEF ReadEnd, SlotCloses
    <2> QED BY <1>1, <2>1, <2>2, <2>3 DEF CloseEffect
<1>10. ASSUME NEW c \in Sessions, UserCloses(c) PROVE CloseEffect(User, c)
    <2>1. Moved(User, "user", "remove") /\ on'[User] = c
        BY <1>10, GotoStays, ActorsAre DEF UserCloses, Moved
    <2>2. /\ \/ reader[c] = "reading" /\ reader'[c] \in {"aborted", "ended"}
             \/ reader[c] \notin {"reading", "handling"} /\ reader'[c] = reader[c]
          /\ \A d \in Sessions \ {c} : reader'[d] = reader[d]
        BY <1>10 DEF UserCloses, Types
    <2>3. /\ mutex = Free /\ c \in list /\ session' = session
          /\ held' = held \cup {c}
          /\ signals' = Append(signals, <<"disconnected", c>>)
          /\ UNCHANGED <<slots, list, mutex>>
        BY <1>10 DEF UserCloses
    <2> QED BY <1>1, <2>1, <2>2, <2>3 DEF CloseEffect
<1>11. ASSUME NEW t \in Actors, NEW s, at[t] = s, LeaveEmission(t)
       PROVE  EndEffect(t, s)
    <2>1. \/ Moved(t, s, "user") /\ on'[t] = 0 /\ t = User
          \/ Moved(t, s, "run") /\ on'[t] = 0 /\ t # User /\ ~ HoldsLast(t)
          \/ Moved(t, s, "stuck") /\ on'[t] = on[t] /\ t # User /\ HoldsLast(t)
        <3>1. \/ Goto(t, "user", 0) /\ t = User
              \/ Goto(t, "run", 0) /\ t # User /\ ~ HoldsLast(t)
              \/ Goto(t, "stuck", on[t]) /\ t # User /\ HoldsLast(t)
            BY <1>11 DEF LeaveEmission
        <3> QED BY <1>11, <3>1, GotoStays DEF Moved
    <2>2. \A d \in Sessions :
            reader'[d] = IF d = on[t] /\ reader[d] = "handling" /\ ~ HoldsLast(t)
                         THEN "broken" ELSE reader[d]
        <3>1. reader' = IF reader[on[t]] = "handling" /\ ~ HoldsLast(t)
                        THEN [reader EXCEPT ![on[t]] = "broken"] ELSE reader
            BY <1>11 DEF LeaveEmission
        <3> HIDE DEF HoldsLast
        <3> QED BY <3>1 DEF Types
    <2> QED BY <2>1, <2>2 DEF EndEffect
<1>12. ASSUME NEW t \in Actors, RemoveConnection(t) PROVE RemoveEffect(t)
    <2>1. /\ at[t] = "remove" /\ list' = list \ {on[t]} /\ mutex = Free
          /\ session' = session /\ UNCHANGED <<slots, held, signals>>
        BY <1>12 DEF RemoveConnection
    <2>2. \/ LeaveEmission(t) /\ UNCHANGED mutex
          \/ /\ Goto(t, "destroy", on[t]) /\ on[t] \in list /\ InEmission(on[t])
             /\ mutex' = t /\ UNCHANGED reader
        BY <1>12 DEF RemoveConnection
    <2>3. CASE LeaveEmission(t) /\ UNCHANGED mutex
        BY <1>1, <1>11, <2>1, <2>3 DEF RemoveEffect
    <2>4. CASE /\ Goto(t, "destroy", on[t]) /\ on[t] \in list /\ InEmission(on[t])
               /\ mutex' = t /\ UNCHANGED reader
        <3>1. Moved(t, "remove", "destroy") /\ on'[t] = on[t]
            BY <2>1, <2>4, GotoStays DEF Moved
        <3> QED BY <1>1, <2>1, <2>4, <3>1 DEF RemoveEffect
    <2> QED BY <2>2, <2>3, <2>4
<1>13. ASSUME NEW t \in Actors, DestroySession(t) PROVE RemoveEffect(t)
    <2>1. EndEffect(t, "destroy")
        BY <1>11, <1>13 DEF DestroySession
    <2> QED BY <1>1, <1>13, <2>1 DEF DestroySession, RemoveEffect
<1>14. CASE UNCHANGED vars
    BY <1>14, BackgroundSteps
<1> QED BY <1>3, <1>4, <1>5, <1>6, <1>7, <1>8, <1>9, <1>10, <1>12, <1>14, <1>13,
           BackgroundSteps, ActorsAre, StepShape

-----------------------------------------------------------------------------
(***************************************************************************)
(* The way of a connection into the list.                                  *)
(***************************************************************************)

\* What has been signalled stays signalled, and a session that is done stays so.
LEMMA PastStays ==
    ASSUME Types, Room, [Next]_vars
    PROVE  /\ \A x, d : Emitted(x, d) => Emitted(x, d)'
           /\ Done \subseteq Done'
<1>1. /\ signals' = signals => \A x, d : Emitted(x, d) => Emitted(x, d)'
      /\ SameDone => Done \subseteq Done'
    BY DEF Emitted, SameDone, Done
<1>2. ASSUME NEW x \in {"connected", "disconnected", "error"},
             NEW e \in Sessions \cup {0}, signals' = Append(signals, <<x, e>>)
      PROVE  \A y, d : Emitted(y, d) => Emitted(y, d)'
    BY <1>2, AppendSignal
<1>3. NoNews => \A y, d : Emitted(y, d) => Emitted(y, d)'
    BY <1>1, <1>2 DEF NoNews
<1>4. ASSUME NEW t \in Threads, NEW c \in Sessions, ConstructEffect(t, c)
      PROVE  Done \subseteq Done'
    BY <1>4 DEF ConstructEffect, Done
<1>5. \A t \in Actors : on[t] \in Sessions \cup {0}
    BY DEF Types
<1>6. CASE Background \/ Quiet
    BY <1>1, <1>3, <1>6 DEF Background, Quiet, ReaderOnly
<1>7. ASSUME NEW t \in Threads, NEW c \in Sessions, ConstructEffect(t, c)
      PROVE  signals' = signals
    BY <1>7 DEF ConstructEffect
<1>8. ASSUME NEW t \in Threads, AddEffect(t) \/ LeaveEffect(t)
      PROVE  SameDone /\ (signals' = signals \/ signals' = Append(signals, <<"connected", on[t]>>))
    BY <1>8 DEF AddEffect, LeaveEffect
<1>9. ASSUME NEW t \in Actors, NEW c \in Sessions, CloseEffect(t, c)
      PROVE  SameDone /\ signals' = Append(signals, <<"disconnected", c>>)
    BY <1>9 DEF CloseEffect
<1>10. ASSUME NEW t \in Actors, RemoveEffect(t) PROVE SameDone /\ signals' = signals
    BY <1>10 DEF RemoveEffect
<1> QED BY <1>1, <1>2, <1>4, <1>5, <1>6, <1>7, <1>8, <1>9, <1>10, Effects, ActorsAre

Placed(u) ==
    IF at[u] \in {"none", "run", "exited", "user"} THEN on[u] = 0 ELSE on[u] \in Done

LEMMA PlacesNext ==
    ASSUME Types, Room, Places, Progress, [Next]_vars
    PROVE  Places'
<1> DEFINE Fits(u) == /\ u \in Threads => at'[u] # "user"
                      /\ u = User => at'[u] \in {"user", "remove", "destroy"}
                      /\ Placed(u)'
<1>1. Done \subseteq Done' /\ slots \subseteq Done /\ list \subseteq Done
    BY PastStays DEF Progress, Types
<1>2. ASSUME NEW u \in Actors, Stays(u) PROVE Fits(u)
    <2>1. User \notin Threads
        BY Numbers, TypesNamed
    <2>2. Placed(u) /\ (u \in Threads => at[u] # "user")
          /\ (u = User => at[u] \in {"user", "remove", "destroy"})
        BY DEF Places, Placed, Actors
    <2> QED BY <1>1, <1>2, <2>1, <2>2 DEF Stays, Placed
<1>3. (\A u \in Actors : Fits(u)) => Places'
    BY DEF Places, Placed, Actors
<1> HIDE DEF Fits
<1>4. ASSUME NEW t \in Actors, NEW s, NEW r, Moved(t, s, r), Fits(t)
      PROVE  Places'
    BY <1>2, <1>3, <1>4 DEF Moved
<1>5. CASE Background
    BY <1>2, <1>3, <1>5 DEF Background
<1>6. CASE Quiet
    <2>1. \A u \in Actors : Stays(u)
        BY <1>6 DEF Quiet, ReaderOnly, Stays
    <2> QED BY <1>2, <1>3, <2>1
<1>7. \A t \in Threads : t \in Actors /\ t # User
    BY ActorsAre, Numbers, TypesNamed
<1>8. ASSUME NEW t \in Threads, NEW c \in Sessions, ConstructEffect(t, c)
      PROVE  Places'
    <2>1. Fits(t)
        BY <1>7, <1>8 DEF ConstructEffect, Moved, Fits, Placed, Done
    <2> QED BY <1>4, <1>7, <1>8, <2>1 DEF ConstructEffect
<1>9. ASSUME NEW t \in Threads, AddEffect(t) PROVE Places'
    <2>1. /\ at[t] \in {"slots", "add", "emit", "drop", "next"} /\ on'[t] = on[t]
          /\ at'[t] \in {"add", "emit", "drop", "next", "hung", "return"}
          /\ Moved(t, at[t], at'[t])
        BY <1>9 DEF AddEffect, Moved
    <2>2. on[t] \in Done
        BY <2>1 DEF Places
    <2>3. Fits(t)
        BY <1>1, <1>7, <2>1, <2>2 DEF Fits, Placed
    <2> QED BY <1>4, <1>7, <2>1, <2>3
<1>10. ASSUME NEW t \in Threads, LeaveEffect(t) PROVE Places'
    <2>1. /\ at'[t] \in {"run", "exited"} /\ on'[t] = 0
          /\ Moved(t, at[t], at'[t])
        BY <1>10 DEF LeaveEffect, Moved, Places
    <2>2. Fits(t)
        BY <1>7, <2>1 DEF Fits, Placed
    <2> QED BY <1>4, <1>7, <2>1, <2>2
<1>11. ASSUME NEW t \in Actors, NEW c \in Sessions, CloseEffect(t, c) PROVE Places'
    <2>1. /\ at'[t] = "remove" /\ on'[t] = c /\ c \in slots
          /\ Moved(t, at[t], at'[t])
        BY <1>11 DEF CloseEffect, Moved, Types
    <2>2. Fits(t)
        BY <1>1, <2>1 DEF Fits, Placed
    <2> QED BY <1>4, <2>1, <2>2
<1>12. ASSUME NEW t \in Actors, RemoveEffect(t) PROVE Places'
    <2>1. /\ at[t] \in {"remove", "destroy"} /\ Moved(t, at[t], at'[t])
          /\ \/ at'[t] = "user" /\ on'[t] = 0 /\ t = User
             \/ at'[t] = "run" /\ on'[t] = 0 /\ t # User
             \/ at'[t] = "stuck" /\ on'[t] = on[t] /\ t # User
             \/ at'[t] = "destroy" /\ on'[t] = on[t]
        BY <1>12 DEF RemoveEffect, EndEffect, Moved
    <2>2. on[t] \in Done
        BY <2>1 DEF Places, Actors
    <2>3. Fits(t)
        BY <1>1, <1>7, <2>1, <2>2 DEF Fits, Placed
    <2> QED BY <1>4, <2>1, <2>3
<1> QED BY <1>5, <1>6, <1>8, <1>9, <1>10, <1>11, <1>12, Effects

LEMMA ProgressNext ==
    ASSUME Types, Room, Places, Progress, [Next]_vars
    PROVE  Progress'
<1>1. /\ Done \subseteq Done'
      /\ \A x, d : Emitted(x, d) => Emitted(x, d)'
    BY PastStays
<1>2. ASSUME NEW u \in Threads, Stays(u)
      PROVE  /\ at[u] # "none" => at'[u] = at[u] /\ on'[u] = on[u]
             /\ at'[u] # "run" => at'[u] = at[u] /\ on'[u] = on[u]
    BY <1>2 DEF Stays
<1>3. \A t \in Threads : t \in Actors /\ t # User /\ t # Free
    BY ActorsAre, Numbers, TypesNamed
<1>4. CASE Background
    BY <1>1, <1>2, <1>3, <1>4 DEF Background, Progress
<1>5. CASE Quiet
    BY <1>1, <1>3, <1>5 DEF Quiet, ReaderOnly, Progress
<1>6. ASSUME NEW t \in Threads, NEW c \in Sessions, ConstructEffect(t, c)
      PROVE  Progress'
    <2>1. c \in Done'
        BY <1>6 DEF ConstructEffect, Done
    <2> QED BY <1>1, <1>2, <1>3, <1>6, <2>1 DEF ConstructEffect, Moved, Progress
<1>7. ASSUME NEW t \in Threads, AddEffect(t) PROVE Progress'
    <2>1. on[t] \in Done
        BY <1>7 DEF AddEffect, Moved, Places
    <2>2. on[t] \in Sessions
        BY <2>1 DEF Done
    <2>3. CASE Moved(t, "slots", "add")
        BY <1>1, <1>2, <1>3, <1>7, <2>1, <2>2, <2>3 DEF AddEffect, Moved, Progress
    <2>4. CASE Moved(t, "add", "emit")
        BY <1>1, <1>2, <1>3, <1>7, <2>1, <2>2, <2>4 DEF AddEffect, Moved, Progress
    <2>5. CASE Moved(t, "emit", "drop")
        BY <1>1, <1>2, <1>3, <1>7, <2>1, <2>2, <2>5, AppendSignal
           DEF AddEffect, Moved, Progress
    <2>6. CASE Moved(t, "next", "return")
        BY <1>1, <1>2, <1>3, <1>7, <2>1, <2>2, <2>6 DEF AddEffect, Moved, Progress
    <2>7. CASE Moved(t, "drop", "next") \/ Moved(t, "drop", "hung")
        BY <1>1, <1>2, <1>3, <1>7, <2>1, <2>2, <2>7 DEF AddEffect, Moved, Progress
    <2> QED BY <1>7, <2>3, <2>4, <2>5, <2>6, <2>7 DEF AddEffect
<1>8. ASSUME NEW t \in Threads, LeaveEffect(t) PROVE Progress'
    BY <1>1, <1>2, <1>3, <1>8 DEF LeaveEffect, Moved, Progress
<1>9. ASSUME NEW t \in Actors, NEW c \in Sessions, CloseEffect(t, c) PROVE Progress'
    BY <1>1, <1>2, <1>3, <1>9 DEF CloseEffect, Moved, Progress
<1>10. ASSUME NEW t \in Actors, RemoveEffect(t) PROVE Progress'
    BY <1>1, <1>2, <1>3, <1>10 DEF RemoveEffect, EndEffect, Moved, Progress
<1> QED BY <1>4, <1>5, <1>6, <1>7, <1>8, <1>9, <1>10, Effects

LEMMA LockingNext ==
    ASSUME Types, Room, Locking, [Next]_vars
    PROVE  Locking'
<1>1. /\ \A t \in Actors : at[t] \in {"emit", "destroy"} => mutex = t
      /\ \A t \in Threads : t \in Actors /\ (at[t] = "emit" => on[t] \in list)
    BY ActorsAre DEF Locking, Actors
<1>2. \A t \in Actors : t # Free
    BY Numbers, TypesNamed DEF Actors
<1>3. ASSUME /\ \A t \in Actors : at'[t] \in {"emit", "destroy"} => mutex' = t
             /\ \A t \in Threads : at'[t] = "emit" => on'[t] \in list'
      PROVE  Locking'
    BY <1>3 DEF Locking, Actors
<1>4. ASSUME NEW u \in Actors, Stays(u)
      PROVE  at'[u] \in {"emit", "destroy"} => at'[u] = at[u] /\ on'[u] = on[u]
    BY <1>4 DEF Stays
<1>5. CASE Background \/ Quiet
    <2>1. /\ \A u \in Actors : Stays(u)
          /\ list' = list /\ mutex' = mutex
        BY <1>5 DEF Background, Quiet, ReaderOnly, Stays
    <2> QED BY <1>1, <1>3, <1>4, <2>1
<1>6. ASSUME NEW t \in Actors, \A u \in Actors \ {t} : Stays(u),
             list' = list, mutex' = mutex, at'[t] \notin {"emit", "destroy"}
      PROVE  Locking'
    BY <1>1, <1>3, <1>4, <1>6
<1>7. ASSUME NEW t \in Threads, NEW c \in Sessions, ConstructEffect(t, c)
      PROVE  Locking'
    BY <1>1, <1>6, <1>7 DEF ConstructEffect, Moved
<1>8. ASSUME NEW t \in Threads, LeaveEffect(t) PROVE Locking'
    BY <1>1, <1>6, <1>8 DEF LeaveEffect, Moved
<1>9. ASSUME NEW t \in Actors, NEW c \in Sessions, CloseEffect(t, c) PROVE Locking'
    BY <1>6, <1>9 DEF CloseEffect, Moved
<1>10. ASSUME NEW t \in Threads, AddEffect(t) PROVE Locking'
    <2>1. \A u \in Actors \ {t} : Stays(u)
        BY <1>10 DEF AddEffect, Moved
    <2>2. CASE at'[t] \notin {"emit", "destroy"} /\ list' = list /\ mutex' = mutex
        BY <1>1, <1>6, <2>1, <2>2
    <2>3. CASE /\ at'[t] = "emit" /\ on'[t] = on[t] /\ list' = list \cup {on[t]}
               /\ mutex = Free /\ mutex' = t
        BY <1>1, <1>2, <1>3, <1>4, <2>1, <2>3
    <2>4. CASE at[t] = "emit" /\ at'[t] = "drop" /\ list' = list
        <3>1. \A u \in Actors \ {t} : at[u] \notin {"emit", "destroy"}
            BY <1>1, <2>4
        <3> QED BY <1>1, <1>3, <1>4, <2>1, <2>4, <3>1
    <2> QED BY <1>10, <2>2, <2>3, <2>4 DEF AddEffect, Moved
<1>11. ASSUME NEW t \in Actors, RemoveEffect(t) PROVE Locking'
    <2>1. \A u \in Actors \ {t} : Stays(u)
        BY <1>11 DEF RemoveEffect, EndEffect, Moved
    <2>2. /\ \/ mutex = Free
             \/ at[t] = "destroy"
          /\ at'[t] \in {"user", "run", "stuck"} \/ (at'[t] = "destroy" /\ mutex' = t)
        BY <1>11 DEF RemoveEffect, EndEffect, Moved
    <2>3. \A u \in Actors \ {t} : at[u] \notin {"emit", "destroy"}
        BY <1>1, <1>2, <2>2
    <2> QED BY <1>1, <1>3, <1>4, <2>1, <2>2, <2>3
<1> QED BY <1>5, <1>7, <1>9, <1>10, <1>11, <1>8, Effects, ActorsAre

LEMMA CloseNext ==
    ASSUME Types, Room, CloseIsSignalled, [Next]_vars
    PROVE  CloseIsSignalled'
<1>1. \A x, d : Emitted(x, d) => Emitted(x, d)'
    BY PastStays
<1>2. CASE Background \/ Quiet
    BY <1>1, <1>2 DEF Background, Quiet, ReaderOnly, CloseIsSignalled
<1>3. ASSUME NEW t \in Threads, NEW c \in Sessions, ConstructEffect(t, c)
      PROVE  CloseIsSignalled'
    BY <1>1, <1>3 DEF ConstructEffect, CloseIsSignalled
<1>4. ASSUME NEW t \in Threads, AddEffect(t) \/ LeaveEffect(t)
      PROVE  CloseIsSignalled'
    BY <1>1, <1>4 DEF AddEffect, LeaveEffect, CloseIsSignalled
<1>5. ASSUME NEW t \in Actors, NEW c \in Sessions, CloseEffect(t, c)
      PROVE  CloseIsSignalled'
    <2>1. signals' = Append(signals, <<"disconnected", c>>)
        BY <1>5 DEF CloseEffect
    <2>2. Emitted("disconnected", c)'
        BY <2>1, AppendSignal
    <2> QED BY <1>1, <1>5, <2>2 DEF CloseEffect, CloseIsSignalled
<1>6. ASSUME NEW t \in Actors, RemoveEffect(t) PROVE CloseIsSignalled'
    BY <1>1, <1>6 DEF RemoveEffect, EndEffect, CloseIsSignalled
<1> QED BY <1>2, <1>3, <1>4, <1>5, <1>6, Effects

LEMMA AddedOnceNext ==
    ASSUME Types, Room, Places, AddedOnce, [Next]_vars
    PROVE  AddedOnce'
<1> SUFFICES ASSUME NEW v \in Threads, NEW w \in Threads,
                    Adding(v)', Adding(w)', on'[v] = on'[w]
             PROVE  v = w
    BY DEF AddedOnce
<1>1. ASSUME NEW u \in Threads, Stays(u), Adding(u)'
      PROVE  Adding(u) /\ on'[u] = on[u]
    BY <1>1 DEF Stays, Adding
<1>2. \A u \in Threads : u \in Actors /\ (Adding(u) => on[u] \in Done)
    BY ActorsAre DEF Adding, Places
<1>3. Adding(v) /\ Adding(w) /\ on[v] = on[w] => v = w
    BY DEF AddedOnce
<1>4. CASE Background
    BY <1>1, <1>2, <1>3, <1>4 DEF Background
<1>5. CASE Quiet
    BY <1>3, <1>5 DEF Quiet, ReaderOnly, Adding
<1>6. ASSUME NEW t \in Threads, NEW c \in Sessions, ConstructEffect(t, c)
      PROVE  v = w
    <2>1. on'[t] = c /\ c \notin Done /\ \A u \in Actors \ {t} : Stays(u)
        BY <1>6 DEF ConstructEffect, Moved, Done
    <2> QED BY <1>1, <1>2, <1>3, <2>1
<1>7. ASSUME NEW t \in Actors, \A u \in Actors \ {t} : Stays(u),
             t \in Threads /\ Adding(t)' => Adding(t) /\ on'[t] = on[t]
      PROVE  v = w
    BY <1>1, <1>2, <1>3, <1>7
<1>8. ASSUME NEW t \in Threads, AddEffect(t) \/ LeaveEffect(t) PROVE v = w
    BY <1>2, <1>7, <1>8 DEF AddEffect, LeaveEffect, Moved, Adding
<1>9. ASSUME NEW t \in Actors, NEW c \in Sessions, CloseEffect(t, c) PROVE v = w
    BY <1>7, <1>9 DEF CloseEffect, Moved, Adding
<1>10. ASSUME NEW t \in Actors, RemoveEffect(t) PROVE v = w
    BY <1>7, <1>10 DEF RemoveEffect, EndEffect, Moved, Adding
<1> QED BY <1>4, <1>5, <1>6, <1>8, <1>9, <1>10, Effects

LEMMA RemovalNext ==
    ASSUME Types, Room, Locking, RemovalIsSignalled, [Next]_vars
    PROVE  RemovalIsSignalled'
<1> DEFINE Well(u) == /\ at'[u] \in {"remove", "destroy"} => on'[u] \in Told'
                      /\ u \in Threads /\ at'[u] = "drop" =>
                           on'[u] \in list' \/ on'[u] \in Told'
                      /\ u \in Threads /\ at'[u] = "hung" => on'[u] \in Told'
<1>1. (\A u \in Actors : Well(u)) => RemovalIsSignalled'
    BY DEF RemovalIsSignalled, Actors
<1>2. Told \subseteq Told'
    BY PastStays DEF Told
<1>3. ASSUME list \subseteq list' \cup Told', NEW u \in Actors, Stays(u)
      PROVE  Well(u)
    BY <1>2, <1>3 DEF Stays, RemovalIsSignalled, Actors
<1> HIDE DEF Well
<1>4. ASSUME list \subseteq list' \cup Told', NEW t \in Actors, Well(t),
             \A u \in Actors \ {t} : Stays(u)
      PROVE  RemovalIsSignalled'
    BY <1>1, <1>3, <1>4
<1> USE DEF Well
<1>5. CASE Background \/ Quiet
    <2>1. list' = list /\ \A u \in Actors : Stays(u)
        BY <1>5 DEF Background, Quiet, ReaderOnly, Stays
    <2> HIDE DEF Well
    <2> QED BY <1>1, <1>3, <2>1
<1>6. ASSUME NEW t \in Threads, NEW c \in Sessions, ConstructEffect(t, c)
      PROVE  RemovalIsSignalled'
    <2>1. Well(t) /\ list' = list /\ \A u \in Actors \ {t} : Stays(u)
        BY <1>6 DEF ConstructEffect, Moved
    <2> HIDE DEF Well
    <2> QED BY <1>4, <2>1, ActorsAre
<1>7. ASSUME NEW t \in Threads, AddEffect(t) PROVE RemovalIsSignalled'
    <2>1. list \subseteq list' /\ on'[t] = on[t] /\ \A u \in Actors \ {t} : Stays(u)
        BY <1>7 DEF AddEffect, Moved
    <2>2. Well(t)
        <3>1. CASE Moved(t, "emit", "drop") /\ UNCHANGED list
            BY <2>1, <3>1 DEF Moved, Locking
        <3>2. CASE Moved(t, "drop", "hung") /\ on[t] \notin list
            BY <1>2, <2>1, <3>2 DEF Moved, RemovalIsSignalled
        <3>3. CASE at'[t] \in {"add", "emit", "next", "return"}
            BY <3>3
        <3> QED BY <1>7, <3>1, <3>2, <3>3 DEF AddEffect, Moved
    <2> HIDE DEF Well
    <2> QED BY <1>4, <2>1, <2>2, ActorsAre
<1>8. ASSUME NEW t \in Threads, LeaveEffect(t) PROVE RemovalIsSignalled'
    <2>1. Well(t) /\ list' = list /\ \A u \in Actors \ {t} : Stays(u)
        BY <1>8 DEF LeaveEffect, Moved
    <2> HIDE DEF Well
    <2> QED BY <1>4, <2>1, ActorsAre
<1>9. ASSUME NEW t \in Actors, NEW c \in Sessions, CloseEffect(t, c)
      PROVE  RemovalIsSignalled'
    <2>1. /\ signals' = Append(signals, <<"disconnected", c>>)
          /\ at'[t] = "remove" /\ on'[t] = c
          /\ list' = list /\ \A u \in Actors \ {t} : Stays(u)
        BY <1>9 DEF CloseEffect, Moved
    <2>2. c \in Told'
        BY <2>1, AppendSignal DEF Told
    <2>3. Well(t)
        BY <2>1, <2>2
    <2> HIDE DEF Well
    <2> QED BY <1>4, <2>1, <2>3
<1>10. ASSUME NEW t \in Actors, RemoveEffect(t) PROVE RemovalIsSignalled'
    <2>1. /\ at[t] \in {"remove", "destroy"} /\ list \subseteq list' \cup {on[t]}
          /\ \/ at'[t] \in {"user", "run", "stuck"}
             \/ at'[t] = "destroy" /\ on'[t] = on[t]
          /\ \A u \in Actors \ {t} : Stays(u)
        BY <1>10 DEF RemoveEffect, EndEffect, Moved
    <2>2. on[t] \in Told'
        BY <1>2, <2>1 DEF RemovalIsSignalled, Actors
    <2>3. Well(t)
        BY <2>1, <2>2
    <2> HIDE DEF Well
    <2> QED BY <1>4, <2>1, <2>2, <2>3
<1> QED BY <1>5, <1>6, <1>7, <1>8, <1>9, <1>10, Effects

-----------------------------------------------------------------------------
(***************************************************************************)
(* One thread.                                                             *)
(***************************************************************************)

\* As long as one thread has run the service, a thread that does something is
\* the only one.
LEMMA OnlyThread ==
    ASSUME Types, OneThread, NEW t \in Threads, NEW u \in Threads,
           at[t] # "none", at[u] # "none"
    PROVE  u = t
<1>1. Made \in SUBSET Threads /\ t \in Made /\ u \in Made
    BY DEF Made
<1>2. IsFiniteSet(Made) /\ Cardinality(Made) \in Nat /\ Cardinality(Made) <= 1
    BY <1>1, Counted DEF OneThread, Made
<1>3. Cardinality(Made) # 0
    BY <1>1, <1>2, FS_EmptySet
<1>4. \E x : Made = {x}
    <2>1. Cardinality(Made) = 1
        BY <1>2, <1>3
    <2> QED BY <1>2, <2>1, FS_Singleton
<1> QED BY <1>1, <1>4

LEMMA OneThreadBefore ==
    ASSUME Types, Room, [Next]_vars, OneThread' PROVE OneThread
<1>1. Made \subseteq Made'
    <2> SUFFICES ASSUME NEW u \in Threads, at[u] # "none" PROVE at'[u] # "none"
        BY DEF Made
    <2>1. Stays(u) => at'[u] # "none"
        BY DEF Stays
    <2>2. u \in Actors
        BY ActorsAre
    <2>3. CASE Background \/ Quiet
        BY <2>1, <2>2, <2>3 DEF Background, Quiet, ReaderOnly
    <2>4. ASSUME NEW t \in Actors, NEW s, NEW r, Moved(t, s, r), r # "none"
          PROVE  at'[u] # "none"
        BY <2>1, <2>2, <2>4 DEF Moved
    <2> QED BY <2>3, <2>4, Effects, ActorsAre
            DEF ConstructEffect, AddEffect, LeaveEffect, CloseEffect, RemoveEffect,
                EndEffect
<1>2. Made \in SUBSET Made' /\ Made' \in SUBSET Threads
    BY <1>1 DEF Made
<1>3. /\ IsFiniteSet(Made') /\ Cardinality(Made') \in Nat
      /\ Cardinality(Made) \in Nat
    BY <1>2, Counted
<1>4. Cardinality(Made) <= Cardinality(Made')
    BY <1>2, <1>3, FS_Subset
<1>5. Cardinality(Made') <= 1
    BY DEF OneThread, Made
<1>6. Cardinality(Made) <= 1
    BY <1>3, <1>4, <1>5
<1> QED BY <1>6 DEF OneThread, Made

\* The thread, when it waits for a handler, has nothing half done.
LEMMA NothingHalfDone ==
    ASSUME Types, Progress, OneThread, NEW t \in Threads, at[t] = "run"
    PROVE  /\ \A u \in Threads : at[u] \in {"none", "run"}
           /\ \A c \in Sessions : reader[c] # "none" => c \in slots
           /\ \A c \in slots : Emitted("connected", c)
<1>1. \A u \in Threads : at[u] \in {"none", "run"}
    BY OnlyThread
<1> QED BY <1>1 DEF Progress

LEMMA OneThreadOrderNext ==
    ASSUME Types, Room, Places, Progress, OneThreadOrder, [Next]_vars
    PROVE  OneThreadOrder'
<1> SUFFICES ASSUME OneThread'
             PROVE  /\ \A c \in list' :
                         reader'[c] \in {"done", "aborted", "handling"} =>
                           \E t \in Threads \cup {User} :
                             at'[t] = "remove" /\ on'[t] = c
                    /\ \A t \in Threads : at'[t] \in {"slots", "add"} =>
                         /\ on'[t] \notin list'
                         /\ reader'[on'[t]] \in {"reading", "ended", "broken"}
    BY DEF OneThreadOrder
<1>1. /\ OneThread
      /\ \A c \in list : reader[c] \in {"done", "aborted", "handling"} =>
           \E t \in Actors : at[t] = "remove" /\ on[t] = c
      /\ \A t \in Threads : at[t] \in {"slots", "add"} =>
           /\ on[t] \notin list
           /\ reader[on[t]] \in {"reading", "ended", "broken"}
    BY OneThreadBefore DEF OneThreadOrder, Actors
<1>2. ASSUME NEW u \in Actors, Stays(u)
      PROVE  /\ at[u] # "none" => at'[u] = at[u] /\ on'[u] = on[u]
             /\ at'[u] # "run" => at'[u] = at[u] /\ on'[u] = on[u]
    BY <1>2 DEF Stays
<1>3. /\ \A t \in Threads : t \in Actors /\ t # User
      /\ list \subseteq Sessions /\ list \subseteq Done /\ Threads \cup {User} = Actors
    BY Numbers, TypesNamed DEF Actors, Types, Progress
<1>4. ASSUME NEW t \in Threads, at[t] \in {"slots", "add"}
      PROVE  on[t] \in Sessions /\ on[t] \in Done
    BY <1>4 DEF Places, Done
<1>5. CASE Background
    BY <1>1, <1>2, <1>3, <1>5 DEF Background
<1>6. ASSUME NEW t \in Threads, at[t] = "run"
      PROVE  /\ \A u \in Threads : at[u] \in {"none", "run"}
             /\ \A c \in Sessions : reader[c] # "none" => c \in slots
    BY <1>1, <1>6, NothingHalfDone
<1>7. CASE Quiet
    <2>1. PICK c \in Sessions :
            \/ ReaderOnly(c, "reading", "ended") \/ ReaderOnly(c, "reading", "broken")
            \/ /\ \/ ReaderOnly(c, "broken", "lost") \/ ReaderOnly(c, "aborted", "done")
                  \/ ReaderOnly(c, "ended", "done") /\ c \notin slots
               /\ \E t \in Threads : at[t] = "run"
        BY <1>7 DEF Quiet
    <2>2. /\ UNCHANGED <<at, on, list>>
          /\ \A d \in Sessions \ {c} : reader'[d] = reader[d]
        BY <2>1 DEF ReaderOnly
    <2>3. CASE ReaderOnly(c, "reading", "ended") \/ ReaderOnly(c, "reading", "broken")
        BY <1>1, <1>3, <1>4, <2>2, <2>3 DEF ReaderOnly
    <2>4. CASE \E t \in Threads : at[t] = "run"
        <3>1. \A u \in Threads : at[u] \notin {"slots", "add"}
            BY <1>6, <2>4
        <3>2. ~ ReaderOnly(c, "ended", "done") \/ c \in slots
            BY <1>6, <2>4 DEF ReaderOnly
        <3>3. reader'[c] = "done" => reader[c] = "aborted"
            BY <2>1, <3>2 DEF ReaderOnly
        <3>4. reader'[c] \in {"ended", "broken", "lost", "done"}
            BY <2>1 DEF ReaderOnly
        <3> QED BY <1>1, <1>3, <2>2, <3>1, <3>3, <3>4
    <2> QED BY <2>1, <2>3, <2>4
<1>8. ASSUME NEW t \in Threads, NEW c \in Sessions, ConstructEffect(t, c)
      PROVE  /\ \A d \in list' : reader'[d] \in {"done", "aborted", "handling"} =>
                  \E u \in Actors : at'[u] = "remove" /\ on'[u] = d
             /\ \A u \in Threads : at'[u] \in {"slots", "add"} =>
                  /\ on'[u] \notin list'
                  /\ reader'[on'[u]] \in {"reading", "ended", "broken"}
    <2>1. c \notin list
        BY <1>3, <1>8 DEF ConstructEffect, Done
    <2>2. \A u \in Threads : at[u] \in {"none", "run"}
        BY <1>6, <1>8 DEF ConstructEffect, Moved
    <2> QED BY <1>1, <1>2, <1>3, <1>8, <2>1, <2>2 DEF ConstructEffect, Moved
<1>9. ASSUME NEW t \in Threads, AddEffect(t)
      PROVE  /\ \A d \in list' : reader'[d] \in {"done", "aborted", "handling"} =>
                  \E u \in Actors : at'[u] = "remove" /\ on'[u] = d
             /\ \A u \in Threads : at'[u] \in {"slots", "add"} =>
                  /\ on'[u] \notin list'
                  /\ reader'[on'[u]] \in {"reading", "ended", "broken"}
    <2>1. at[t] \in {"slots", "add", "emit", "drop", "next"} /\ \A u \in Threads \ {t} : at[u] = "none"
        BY <1>1, <1>9, OnlyThread DEF AddEffect, Moved
    <2>2. \A u \in Threads \ {t} : at'[u] \in {"none", "run"}
        BY <1>2, <1>3, <1>9, <2>1 DEF AddEffect, Moved
    <2>3. UNCHANGED reader /\ on'[t] = on[t]
        BY <1>9 DEF AddEffect
    <2>4. \A u \in Actors \ {t} : at[u] = "remove" => at'[u] = "remove" /\ on'[u] = on[u]
        BY <1>2, <1>9 DEF AddEffect, Moved
    <2>5. \/ list' = list
          \/ at[t] = "add" /\ at'[t] = "emit" /\ list' = list \cup {on[t]}
        BY <1>9 DEF AddEffect, Moved
    <2>6. at'[t] \in {"slots", "add"} => at[t] = "slots" /\ list' = list
        BY <1>9 DEF AddEffect, Moved
    <2> QED BY <1>1, <1>3, <2>1, <2>2, <2>3, <2>4, <2>5, <2>6
<1>10. ASSUME NEW t \in Threads, LeaveEffect(t)
       PROVE  /\ \A d \in list' : reader'[d] \in {"done", "aborted", "handling"} =>
                   \E u \in Actors : at'[u] = "remove" /\ on'[u] = d
              /\ \A u \in Threads : at'[u] \in {"slots", "add"} =>
                   /\ on'[u] \notin list'
                   /\ reader'[on'[u]] \in {"reading", "ended", "broken"}
    BY <1>1, <1>2, <1>3, <1>10 DEF LeaveEffect, Moved
<1>11. ASSUME NEW t \in Actors, NEW c \in Sessions, CloseEffect(t, c)
       PROVE  /\ \A d \in list' : reader'[d] \in {"done", "aborted", "handling"} =>
                   \E u \in Actors : at'[u] = "remove" /\ on'[u] = d
              /\ \A u \in Threads : at'[u] \in {"slots", "add"} =>
                   /\ on'[u] \notin list'
                   /\ reader'[on'[u]] \in {"reading", "ended", "broken"}
    <2>1. /\ at'[t] = "remove" /\ on'[t] = c /\ list' = list
          /\ \A d \in Sessions \ {c} : reader'[d] = reader[d]
          /\ at[t] # "remove" /\ \A u \in Actors \ {t} : Stays(u)
        BY <1>11 DEF CloseEffect, Moved
    <2>2. \A d \in list : reader'[d] \in {"done", "aborted", "handling"} =>
            \E u \in Actors : at'[u] = "remove" /\ on'[u] = d
        BY <1>1, <1>2, <1>3, <2>1
    <2>3. CASE t \in Threads
        <3>1. at[t] = "run"
            BY <1>3, <1>11, <2>3 DEF CloseEffect, Moved
        <3>2. \A u \in Threads : at'[u] \notin {"slots", "add"}
            BY <1>2, <1>3, <1>6, <2>1, <2>3, <3>1
        <3> QED BY <2>1, <2>2, <3>2
    <2>4. CASE t \notin Threads
        <3>1. c \in list
            BY <1>11, <2>4 DEF CloseEffect
        <3>2. \A u \in Threads : at'[u] \in {"slots", "add"} =>
                at[u] = at'[u] /\ on[u] = on'[u] /\ on[u] # c
            BY <1>1, <1>2, <1>3, <2>1, <2>4, <3>1
        <3> QED BY <1>1, <1>4, <2>1, <2>2, <3>2
    <2> QED BY <2>3, <2>4
<1>12. ASSUME NEW t \in Actors, RemoveEffect(t)
       PROVE  /\ \A d \in list' : reader'[d] \in {"done", "aborted", "handling"} =>
                   \E u \in Actors : at'[u] = "remove" /\ on'[u] = d
              /\ \A u \in Threads : at'[u] \in {"slots", "add"} =>
                   /\ on'[u] \notin list'
                   /\ reader'[on'[u]] \in {"reading", "ended", "broken"}
    <2>1. /\ \/ list' = list \ {on[t]}
             \/ list' = list /\ at[t] = "destroy"
          /\ at'[t] \in {"user", "run", "stuck", "destroy"}
          /\ \A u \in Actors \ {t} : Stays(u)
          /\ \A d \in Sessions : reader'[d] = reader[d]
                \/ (reader[d] = "handling" /\ reader'[d] = "broken")
        BY <1>12 DEF RemoveEffect, EndEffect, Moved
    <2>2. \A u \in Threads : at'[u] \in {"slots", "add"} =>
            at[u] = at'[u] /\ on[u] = on'[u]
        BY <1>2, <1>3, <2>1
    <2> QED BY <1>1, <1>2, <1>3, <1>4, <2>1, <2>2
<1> QED BY <1>3, <1>5, <1>7, <1>8, <1>9, <1>10, <1>11, <1>12, Effects

LEMMA ClosedNext ==
    ASSUME Types, Room, Progress, CloseIsSignalled, OneThreadSignals, [Next]_vars
    PROVE  OneThreadSignals'
<1> SUFFICES ASSUME OneThread', NEW c \in Sessions, reader'[c] = "done"
             PROVE  Emitted("disconnected", c)'
    BY DEF OneThreadSignals, ClosedIsSignalled
<1>1. OneThread
    BY OneThreadBefore
<1>2. Emitted("disconnected", c) => Emitted("disconnected", c)'
    BY PastStays
<1>3. reader[c] \in {"done", "aborted", "handling"} => Emitted("disconnected", c)
    BY <1>1 DEF OneThreadSignals, ClosedIsSignalled, CloseIsSignalled
<1>4. CASE Background
    BY <1>2, <1>3, <1>4 DEF Background
<1>5. CASE Quiet
    <2>1. PICK d \in Sessions :
            \/ ReaderOnly(d, "reading", "ended") \/ ReaderOnly(d, "reading", "broken")
            \/ /\ \/ ReaderOnly(d, "broken", "lost") \/ ReaderOnly(d, "aborted", "done")
                  \/ ReaderOnly(d, "ended", "done") /\ d \notin slots
               /\ \E t \in Threads : at[t] = "run"
        BY <1>5 DEF Quiet
    <2>2. ~ (ReaderOnly(d, "ended", "done") /\ d \notin slots)
            \/ ~ \E t \in Threads : at[t] = "run"
        BY <1>1, NothingHalfDone DEF ReaderOnly
    <2> QED BY <1>2, <1>3, <2>1, <2>2 DEF ReaderOnly
<1>6. ASSUME NEW t \in Threads, NEW d \in Sessions, ConstructEffect(t, d)
      PROVE  reader[c] = "done"
    BY <1>6 DEF ConstructEffect
<1>7. ASSUME NEW t \in Threads, AddEffect(t) \/ LeaveEffect(t)
      PROVE  reader[c] = "done"
    BY <1>7 DEF AddEffect, LeaveEffect
<1>8. ASSUME NEW t \in Actors, NEW d \in Sessions, CloseEffect(t, d)
      PROVE  reader[c] = "done" \/ (c = d /\ Emitted("disconnected", c)')
    <2>1. signals' = Append(signals, <<"disconnected", d>>)
        BY <1>8 DEF CloseEffect
    <2>2. Emitted("disconnected", d)'
        BY <2>1, AppendSignal
    <2> QED BY <1>8, <2>2 DEF CloseEffect
<1>9. ASSUME NEW t \in Actors, RemoveEffect(t) PROVE reader[c] = "done"
    BY <1>9 DEF RemoveEffect, EndEffect
<1> QED BY <1>2, <1>3, <1>4, <1>5, <1>6, <1>7, <1>8, <1>9, Effects

\* News other than the end of a connection of which the user has not heard.
LEMMA AppendInOrder ==
    ASSUME Types, NEW s \in {"connected", "disconnected", "error"},
           NEW c \in Sessions \cup {0}, signals' = Append(signals, <<s, c>>),
           s = "disconnected" => Emitted("connected", c),
           \A d \in Sessions, k \in 1 .. Len(signals) :
             signals[k] = <<"disconnected", d>>
                => \E j \in 1 .. k - 1 : signals[j] = <<"connected", d>>
    PROVE  \A d \in Sessions, k \in 1 .. Len(signals') :
             signals'[k] = <<"disconnected", d>>
                => \E j \in 1 .. k - 1 : signals'[j] = <<"connected", d>>
<1> DEFINE n == Len(signals)
<1>1. /\ n \in Nat /\ Len(signals') = n + 1 /\ signals'[n + 1] = <<s, c>>
      /\ \A i \in 1 .. n : signals'[i] = signals[i]
    BY AppendSignal
<1> SUFFICES ASSUME NEW d \in Sessions, NEW k \in 1 .. n + 1,
                    signals'[k] = <<"disconnected", d>>
             PROVE  \E j \in 1 .. k - 1 : signals'[j] = <<"connected", d>>
    BY <1>1
<1>2. CASE k = n + 1
    <2>1. s = "disconnected" /\ c = d
        BY <1>1, <1>2
    <2>2. PICK j \in 1 .. n : signals[j] = <<"connected", d>>
        BY <2>1 DEF Emitted
    <2> QED BY <1>1, <1>2, <2>2
<1>3. CASE k # n + 1
    <2>1. k \in 1 .. n /\ signals[k] = <<"disconnected", d>>
        BY <1>1, <1>3
    <2>2. PICK j \in 1 .. k - 1 : signals[j] = <<"connected", d>>
        BY <2>1
    <2>3. j \in 1 .. n
        BY <1>1, <2>1
    <2> QED BY <1>1, <2>2, <2>3
<1> QED BY <1>2, <1>3

LEMMA ConnectedFirstNext ==
    ASSUME Types, Room, Progress, Locking, ConnectedComesFirst, [Next]_vars
    PROVE  ConnectedComesFirst'
<1> SUFFICES ASSUME OneThread'
             PROVE  \A d \in Sessions, k \in 1 .. Len(signals') :
                      signals'[k] = <<"disconnected", d>>
                        => \E j \in 1 .. k - 1 : signals'[j] = <<"connected", d>>
    BY DEF ConnectedComesFirst
<1>1. /\ OneThread
      /\ \A d \in Sessions, k \in 1 .. Len(signals) :
           signals[k] = <<"disconnected", d>>
             => \E j \in 1 .. k - 1 : signals[j] = <<"connected", d>>
    BY OneThreadBefore DEF ConnectedComesFirst
<1>2. \/ signals' = signals
      \/ \E s \in {"connected", "error"}, c \in Sessions \cup {0} :
           signals' = Append(signals, <<s, c>>)
      \/ \E c \in Sessions : /\ signals' = Append(signals, <<"disconnected", c>>)
                             /\ Emitted("connected", c)
    <2>1. CASE Background \/ Quiet
        BY <2>1 DEF Background, Quiet, ReaderOnly, NoNews
    <2>2. ASSUME NEW t \in Threads, NEW c \in Sessions,
                 ConstructEffect(t, c) \/ LeaveEffect(t)
          PROVE  signals' = signals
        BY <2>2 DEF ConstructEffect, LeaveEffect
    <2>3. ASSUME NEW t \in Threads, LeaveEffect(t) PROVE signals' = signals
        BY <2>3 DEF LeaveEffect
    <2>4. ASSUME NEW t \in Actors, RemoveEffect(t) PROVE signals' = signals
        BY <2>4 DEF RemoveEffect
    <2>5. ASSUME NEW t \in Threads, AddEffect(t)
          PROVE  \/ signals' = signals
                 \/ /\ signals' = Append(signals, <<"connected", on[t]>>)
                    /\ on[t] \in Sessions \cup {0}
        BY <2>5, ActorsAre DEF AddEffect, Types
    <2>6. ASSUME NEW t \in Actors, NEW c \in Sessions, CloseEffect(t, c)
          PROVE  /\ signals' = Append(signals, <<"disconnected", c>>)
                 /\ Emitted("connected", c)
        <3>1. signals' = Append(signals, <<"disconnected", c>>)
            BY <2>6 DEF CloseEffect
        <3>2. CASE t \in Threads
            <4>1. at[t] = "run" /\ c \in slots
                BY <2>6, <3>2, Numbers, TypesNamed DEF CloseEffect, Moved
            <4> QED BY <1>1, <3>1, <3>2, <4>1, NothingHalfDone
        <3>3. CASE t \notin Threads
            <4>1. mutex = Free /\ c \in list
                BY <2>6, <3>3 DEF CloseEffect
            <4>2. \A u \in Threads : at[u] # "emit"
                BY <4>1, Numbers, TypesNamed DEF Locking
            <4> QED BY <3>1, <4>1, <4>2 DEF Progress
        <3> QED BY <3>2, <3>3
    <2> QED BY <2>1, <2>2, <2>3, <2>4, <2>5, <2>6, Effects
<1>3. CASE signals' = signals
    BY <1>1, <1>3
<1>4. ASSUME NEW s \in {"connected", "error"}, NEW c \in Sessions \cup {0},
             signals' = Append(signals, <<s, c>>)
      PROVE  \A d \in Sessions, k \in 1 .. Len(signals') :
               signals'[k] = <<"disconnected", d>>
                 => \E j \in 1 .. k - 1 : signals'[j] = <<"connected", d>>
    BY <1>1, <1>4, AppendInOrder
<1>5. ASSUME NEW c \in Sessions, signals' = Append(signals, <<"disconnected", c>>),
             Emitted("connected", c)
      PROVE  \A d \in Sessions, k \in 1 .. Len(signals') :
               signals'[k] = <<"disconnected", d>>
                 => \E j \in 1 .. k - 1 : signals'[j] = <<"connected", d>>
    BY <1>1, <1>5, AppendInOrder
<1> QED BY <1>2, <1>3, <1>4, <1>5

LEMMA EndedLeaves ==
    ASSUME Types, OneThreadOrder PROVE EndedLeavesList
<1>1. DOMAIN at = Threads \cup {User}
    BY DEF Types, Actors
<1> QED BY <1>1 DEF OneThreadOrder, EndedLeavesList

-----------------------------------------------------------------------------
(***************************************************************************)
(* A running server listens.                                               *)
(***************************************************************************)

LEMMA ListeningNext ==
    ASSUME Types, Room, KeepsListening, RemovalIsSignalled', [Next]_vars
    PROVE  KeepsListening'
<1> DEFINE Waits(s) == s \in {"accepting", "accepted", "handshaking", "ready"}
           Comes(s) == s \in {"slots", "add", "emit", "drop", "next", "hung"}
<1> SUFFICES ASSUME running', \A c \in Sessions : session'[c] \notin {"failed", "lost"},
                    \A c \in Sessions : ~ Waits(session'[c]),
                    \A t \in Threads : ~ Comes(at'[t]), ~ StartFailed'
             PROVE  FALSE
    BY DEF KeepsListening, Failure, HangsInSession, RemovalIsSignalled, Told
<1>1. ~ StartFailed
    BY PastStays DEF StartFailed
<1>2. ASSUME running' = running, session' = session,
             \A t \in Threads : Comes(at[t]) => at'[t] = at[t]
      PROVE  FALSE
    BY <1>2, <1>1 DEF KeepsListening, Failure, HangsInSession
<1>3. CASE UNCHANGED vars
    BY <1>2, <1>3 DEF vars, config, threads
<1>4. ASSUME NEW p, SetThreadPolicy(p) PROVE FALSE
    BY <1>2, <1>4 DEF SetThreadPolicy, threads
<1>5. CASE Start(TRUE)
    BY <1>5, StartEffect DEF Types, Room
<1>6. CASE Start(FALSE)
    BY <1>6 DEF Start
<1>7. CASE Stop
    BY <1>7 DEF Stop
<1>8. CASE StartBreaksOff
    BY <1>8, AppendSignal DEF StartBreaksOff, StartFailed
<1>9. ASSUME NEW c \in Sessions, NEW s, NEW t,
             \/ s \in {"accepted", "failed"} /\ Accept(c, s)
             \/ s \in {"ready", "failed"} /\ Handshake(c, s)
             \/ AcceptHandler(t, c) \/ AcceptError(t, c)
      PROVE  FALSE
    BY <1>9 DEF Accept, Handshake, AcceptHandler, AcceptError, Types
<1>10. ASSUME NEW t \in Threads, NEW c \in Sessions, Construct(t, c) PROVE FALSE
    BY <1>10, GotoMoves, ActorsAre DEF Construct
<1>11. ASSUME NEW t \in Threads, ConnectSlots(t) \/ AddConnection(t) \/ EmitConnected(t)
             \/ DropSession(t)
      PROVE  FALSE
    BY <1>11, GotoMoves, ActorsAre
       DEF ConnectSlots, AddConnection, EmitConnected, DropSession
<1>12. ASSUME NEW t \in Threads, WaitNextConnection(t) PROVE FALSE
    BY <1>12, WaitEffect DEF Types, Room
<1>13. ASSUME NEW c \in Sessions, NEW t, NEW e,
              PeerEnds(c, e) \/ ReadError(t, c) \/ ReadAborted(t, c)
       PROVE  FALSE
    BY <1>2, <1>13 DEF PeerEnds, ReadError, ReadAborted, config, threads
<1>14. ASSUME NEW t \in Actors, NEW s, NEW c, ~ Comes(at[t]), Goto(t, s, c),
              running' = running, session' = session
       PROVE  FALSE
    BY <1>2, <1>14, GotoMoves, ActorsAre
<1>15. ASSUME NEW t \in Actors, NEW c \in Sessions,
              \/ t \in Threads /\ (ReadEnd(t, c) \/ SlotCloses(t, c))
              \/ t = User /\ UserCloses(c)
       PROVE  FALSE
    <2>1. running' = running /\ session' = session
        BY <1>15 DEF ReadEnd, SlotCloses, UserCloses, config
    <2>2. (~ Comes(at[t]) /\ Goto(t, "remove", c)) \/ UNCHANGED <<at, on>>
        BY <1>15 DEF ReadEnd, SlotCloses, UserCloses
    <2> QED BY <1>2, <1>14, <2>1, <2>2
<1>16. ASSUME NEW t \in Actors,
              \/ RemoveConnection(t) \/ DestroySession(t)
              \/ t \in Threads /\ ReturnFromAccept(t)
       PROVE  FALSE
    <2>1. running' = running /\ session' = session /\ ~ Comes(at[t])
        BY <1>16 DEF RemoveConnection, DestroySession, ReturnFromAccept, config
    <2>2. \E s, c : Goto(t, s, c)
        BY <1>16 DEF RemoveConnection, DestroySession, LeaveEmission, ReturnFromAccept
    <2> QED BY <1>14, <2>1, <2>2
<1>17. ASSUME NEW t \in Threads, Exit(t) PROVE FALSE
    <2>1. /\ running' = running /\ session' = session
          /\ at[t] = "run" /\ at' = [at EXCEPT ![t] = "exited"]
        BY <1>17 DEF Exit, config
    <2>2. \A u \in Threads : u # t => at'[u] = at[u]
        BY <2>1, ActorsAre DEF Types
    <2> QED BY <1>2, <2>1, <2>2
<1> QED BY <1>3, <1>4, <1>5, <1>6, <1>7, <1>9, <1>10, <1>11, <1>12, <1>13, <1>15,
           <1>16, <1>17, <1>8, ActorsAre, StepShape

-----------------------------------------------------------------------------
(***************************************************************************)
(* One thread per connection.                                              *)
(***************************************************************************)

LEMMA BeforeStartNext ==
    ASSUME Types, BeforeStart, [Next]_vars
    PROVE  BeforeStart'
<1> SUFFICES ASSUME ~ running', ~ stopped' PROVE list' = {} /\ Made' = {}
    BY DEF BeforeStart
<1>1. ASSUME ~ running, ~ stopped, at' = at, list' \subseteq list
      PROVE  list' = {} /\ Made' = {}
    BY <1>1 DEF BeforeStart, Made
<1>2. ~ running /\ ~ stopped => list = {} /\ \A t \in Threads : at[t] = "none"
    BY DEF BeforeStart, Made
<1>3. CASE UNCHANGED vars
    BY <1>1, <1>3 DEF vars, config, threads
<1>4. ASSUME NEW p,
             \/ SetThreadPolicy(p) \/ (p \in BOOLEAN /\ Start(p))
             \/ StartBreaksOff \/ Stop
      PROVE  list' = {} /\ Made' = {}
    BY <1>1, <1>4 DEF SetThreadPolicy, Start, StartBreaksOff, Stop, threads
<1>5. ASSUME NEW c \in Sessions, NEW o,
             Accept(c, o) \/ Handshake(c, o) \/ PeerEnds(c, o)
      PROVE  list' = {} /\ Made' = {}
    BY <1>1, <1>5 DEF Accept, Handshake, PeerEnds, config, threads
<1>6. ASSUME NEW t \in Threads, NEW c \in Sessions,
             \/ AcceptHandler(t, c) \/ Construct(t, c) \/ AcceptError(t, c)
             \/ ReadEnd(t, c) \/ ReadError(t, c) \/ ReadAborted(t, c)
             \/ SlotCloses(t, c)
      PROVE  FALSE
    BY <1>2, <1>6 DEF AcceptHandler, Construct, AcceptError, ReadEnd, ReadError,
                      ReadAborted, SlotCloses, config
<1>7. ASSUME NEW t \in Threads,
             \/ ConnectSlots(t) \/ AddConnection(t) \/ EmitConnected(t)
             \/ DropSession(t) \/ WaitNextConnection(t) \/ ReturnFromAccept(t)
             \/ Exit(t) \/ RemoveConnection(t) \/ DestroySession(t)
      PROVE  FALSE
    BY <1>2, <1>7 DEF ConnectSlots, AddConnection, EmitConnected, DropSession,
                      WaitNextConnection, ReturnFromAccept, Exit,
                      RemoveConnection, DestroySession, config
<1>8. ASSUME RemoveConnection(User) \/ DestroySession(User)
      PROVE  list' = {} /\ Made' = {}
    <2>1. ~ running /\ ~ stopped /\ list' \subseteq list
        BY <1>8 DEF RemoveConnection, DestroySession, config
    <2>2. \A t \in Threads : at'[t] = at[t]
        <3>1. \E s, c : Goto(User, s, c)
            BY <1>8 DEF RemoveConnection, DestroySession, LeaveEmission
        <3> QED BY <3>1, GotoMoves, ActorsAre, Numbers, TypesNamed
    <2> QED BY <1>2, <2>1, <2>2 DEF Made
<1>9. ASSUME NEW c \in Sessions, UserCloses(c) PROVE FALSE
    BY <1>2, <1>9 DEF UserCloses, config
<1> QED BY <1>3, <1>4, <1>5, <1>6, <1>7, <1>8, <1>9, StepShape DEF Actors

LEMMA RemovedOnceNext ==
    ASSUME Types, Room, Places, Progress, RemovedOnce, [Next]_vars
    PROVE  RemovedOnce'
<1> DEFINE First == at'[User] \in {"remove", "destroy"} => on'[User] \in held'
           Second(t) ==
             at'[t] \in {"remove", "destroy"} /\ on'[t] \notin held' =>
               /\ reader'[on'[t]] \in {"done", "handling"}
               /\ at'[t] = "remove" =>
                    \/ on'[t] \in list'
                    \/ \E u \in Threads : at'[u] \in {"slots", "add"} /\ on'[u] = on'[t]
               /\ \A u \in Threads :
                    at'[u] \in {"remove", "destroy"} /\ on'[u] = on'[t] => u = t
           Third(c) ==
             reader'[c] \in {"reading", "ended"} =>
               c \in list' \/ \E t \in Threads : at'[t] = "add" /\ on'[t] = c
<1>1. ASSUME First, \A t \in Threads : Second(t), \A c \in slots' \ held' : Third(c)
      PROVE  RemovedOnce'
    BY <1>1 DEF RemovedOnce
<1> HIDE DEF First, Second, Third
<1>2. ASSUME NEW u \in Actors, Stays(u)
      PROVE  /\ at[u] # "none" => at'[u] = at[u] /\ on'[u] = on[u]
             /\ at'[u] # "run" => at'[u] = at[u] /\ on'[u] = on[u]
    BY <1>2 DEF Stays
<1>3. /\ held \subseteq held' /\ slots \subseteq slots'
      /\ \A t \in Threads : t \in Actors /\ t # User
      /\ User \in Actors /\ slots \subseteq Sessions /\ slots \subseteq Done
      /\ list \subseteq slots /\ Done \subseteq Sessions
    BY SlotsStay, ActorsAre, Numbers, TypesNamed DEF Types, Progress, Done
<1>4. \A u \in Actors : at[u] \in {"slots", "add", "remove", "destroy"} => on[u] \in Done
    BY DEF Places, Actors
<1>5. ASSUME \A u \in Actors : Stays(u), slots' = slots, held' = held, list' = list,
             \A c \in Sessions : reader'[c] = reader[c] \/
               /\ reader[c] \notin {"done", "handling"}
               /\ reader'[c] \in {"reading", "ended"} => reader[c] \in {"reading", "ended"}
      PROVE  RemovedOnce'
    <2>1. First
        BY <1>2, <1>3, <1>5 DEF RemovedOnce, First
    <2>2. ASSUME NEW t \in Threads PROVE Second(t)
        BY <1>2, <1>3, <1>4, <1>5, <2>2 DEF RemovedOnce, Second
    <2>3. ASSUME NEW c \in slots' \ held' PROVE Third(c)
        BY <1>2, <1>3, <1>5, <2>3 DEF RemovedOnce, Third
    <2> QED BY <1>1, <2>1, <2>2, <2>3
<1>6. CASE Background
    BY <1>5, <1>6 DEF Background
<1>7. CASE Quiet
    <2>1. PICK c \in Sessions :
            \/ ReaderOnly(c, "reading", "ended") \/ ReaderOnly(c, "reading", "broken")
            \/ ReaderOnly(c, "broken", "lost") \/ ReaderOnly(c, "aborted", "done")
            \/ ReaderOnly(c, "ended", "done")
        BY <1>7 DEF Quiet
    <2>2. UNCHANGED <<at, on, slots, held, list>>
        BY <2>1 DEF ReaderOnly
    <2>3. \A u \in Actors : Stays(u)
        BY <2>2 DEF Stays
    <2>4. \A d \in Sessions : reader'[d] = reader[d] \/
               /\ reader[d] \notin {"done", "handling"}
               /\ reader'[d] \in {"reading", "ended"} => reader[d] \in {"reading", "ended"}
        BY <2>1 DEF ReaderOnly
    <2> QED BY <1>5, <2>2, <2>3, <2>4
<1>8. ASSUME NEW t \in Threads, NEW c \in Sessions, ConstructEffect(t, c)
      PROVE  RemovedOnce'
    <2>1. /\ at[t] = "run" /\ at'[t] = "slots" /\ \A u \in Actors \ {t} : Stays(u)
          /\ UNCHANGED <<slots, held, list>> /\ c \notin Done
          /\ \A d \in Sessions \ {c} : reader'[d] = reader[d]
        BY <1>8 DEF ConstructEffect, Moved, Done
    <2>2. First
        BY <1>2, <1>3, <2>1 DEF RemovedOnce, First
    <2>3. ASSUME NEW u \in Threads PROVE Second(u)
        BY <1>2, <1>3, <1>4, <2>1, <2>3 DEF RemovedOnce, Second
    <2>4. ASSUME NEW d \in slots' \ held' PROVE Third(d)
        BY <1>2, <1>3, <2>1, <2>4 DEF RemovedOnce, Third
    <2> QED BY <1>1, <2>2, <2>3, <2>4
<1>9. ASSUME NEW t \in Threads, AddEffect(t) PROVE RemovedOnce'
    <2>1. /\ at[t] \in {"slots", "add", "emit", "drop", "next"}
          /\ at'[t] \in {"add", "emit", "drop", "next", "hung", "return"}
          /\ \A u \in Actors \ {t} : Stays(u)
          /\ on'[t] = on[t] /\ reader' = reader /\ list \subseteq list'
          /\ at[t] \in {"slots", "add"} => at'[t] = "add" \/ on[t] \in list'
          /\ slots' = slots \/ (slots' = slots \cup {on[t]} /\ at'[t] = "add")
        BY <1>9 DEF AddEffect, Moved
    <2>2. First
        BY <1>2, <1>3, <2>1 DEF RemovedOnce, First
    <2>3. ASSUME NEW u \in Threads PROVE Second(u)
        BY <1>2, <1>3, <1>4, <2>1, <2>3 DEF RemovedOnce, Second
    <2>4. ASSUME NEW d \in slots' \ held' PROVE Third(d)
        BY <1>2, <1>3, <2>1, <2>4 DEF RemovedOnce, Third
    <2> QED BY <1>1, <2>2, <2>3, <2>4
<1>10. ASSUME NEW t \in Threads, LeaveEffect(t) PROVE RemovedOnce'
    <2>1. /\ at[t] \in {"return", "run"} /\ at'[t] \in {"run", "exited"}
          /\ \A u \in Actors \ {t} : Stays(u)
          /\ UNCHANGED <<reader, slots, list, held>>
        BY <1>10 DEF LeaveEffect, Moved
    <2>2. First
        BY <1>2, <1>3, <2>1 DEF RemovedOnce, First
    <2>3. ASSUME NEW u \in Threads PROVE Second(u)
        BY <1>2, <1>3, <1>4, <2>1, <2>3 DEF RemovedOnce, Second
    <2>4. ASSUME NEW d \in slots' \ held' PROVE Third(d)
        BY <1>2, <1>3, <2>1, <2>4 DEF RemovedOnce, Third
    <2> QED BY <1>1, <2>2, <2>3, <2>4
<1>11. ASSUME NEW t \in Threads, NEW c \in Sessions, CloseEffect(t, c)
       PROVE  RemovedOnce'
    <2>1. /\ at[t] = "run" /\ at'[t] = "remove" /\ on'[t] = c
          /\ \A u \in Actors \ {t} : Stays(u)
          /\ reader[c] \in {"reading", "ended"} /\ reader'[c] \in {"done", "handling"}
          /\ \A d \in Sessions \ {c} : reader'[d] = reader[d]
          /\ c \in slots /\ UNCHANGED <<slots, list, held>>
        BY <1>3, <1>11 DEF CloseEffect, Moved
    <2>2. First
        BY <1>2, <1>3, <2>1 DEF RemovedOnce, First
    <2>3. \A u \in Threads : at[u] \in {"remove", "destroy"} /\ on[u] = c => c \in held
        BY <2>1 DEF RemovedOnce
    <2>4. ASSUME NEW u \in Threads PROVE Second(u)
        <3>1. CASE u = t
            <4>1. c \notin held => c \in list \/
                    \E v \in Threads : at'[v] = "add" /\ on'[v] = c
                BY <1>2, <1>3, <2>1 DEF RemovedOnce
            <4>2. c \notin held => \A v \in Threads :
                    at'[v] \in {"remove", "destroy"} /\ on'[v] = c => v = t
                BY <1>2, <1>3, <2>1, <2>3
            <4> QED BY <2>1, <3>1, <4>1, <4>2 DEF Second
        <3>2. CASE u # t
            BY <1>2, <1>3, <1>4, <2>1, <2>3, <2>4, <3>2 DEF RemovedOnce, Second
        <3> QED BY <3>1, <3>2
    <2>5. ASSUME NEW d \in slots' \ held' PROVE Third(d)
        BY <1>2, <1>3, <2>1, <2>5 DEF RemovedOnce, Third
    <2> QED BY <1>1, <2>2, <2>4, <2>5
<1>12. ASSUME NEW c \in Sessions, CloseEffect(User, c) PROVE RemovedOnce'
    <2>1. /\ at'[User] = "remove" /\ on'[User] = c /\ held' = held \cup {c}
          /\ \A u \in Actors \ {User} : Stays(u)
          /\ \A d \in Sessions \ {c} : reader'[d] = reader[d]
          /\ UNCHANGED <<slots, list>>
        BY <1>3, <1>12 DEF CloseEffect, Moved
    <2>2. First
        BY <2>1 DEF First
    <2>3. ASSUME NEW u \in Threads PROVE Second(u)
        BY <1>2, <1>3, <1>4, <2>1, <2>3 DEF RemovedOnce, Second
    <2>4. ASSUME NEW d \in slots' \ held' PROVE Third(d)
        BY <1>2, <1>3, <2>1, <2>4 DEF RemovedOnce, Third
    <2> QED BY <1>1, <2>2, <2>3, <2>4
<1>13. ASSUME NEW t \in Actors, RemoveEffect(t) PROVE RemovedOnce'
    <2>1. /\ at[t] \in {"remove", "destroy"}
          /\ \/ at'[t] \in {"user", "run", "stuck"}
             \/ at'[t] = "destroy" /\ on'[t] = on[t] /\ reader' = reader
          /\ \A u \in Actors \ {t} : Stays(u)
          /\ list \ {on[t]} \subseteq list' /\ UNCHANGED <<slots, held>>
          /\ \A d \in Sessions : reader'[d] = reader[d] \/
               (d = on[t] /\ reader[d] = "handling" /\ reader'[d] = "broken")
        BY <1>13 DEF RemoveEffect, EndEffect, Moved
    <2>2. First
        BY <1>2, <1>3, <2>1 DEF RemovedOnce, First
    <2>3. on[t] \notin held => t \in Threads /\ reader[on[t]] \in {"done", "handling"}
             /\ \A u \in Threads :
                  at[u] \in {"remove", "destroy"} /\ on[u] = on[t] => u = t
        BY <2>1 DEF RemovedOnce, Actors
    <2>4. ASSUME NEW u \in Threads PROVE Second(u)
        BY <1>2, <1>3, <1>4, <2>1, <2>3, <2>4 DEF RemovedOnce, Second
    <2>5. ASSUME NEW d \in slots' \ held' PROVE Third(d)
        BY <1>2, <1>3, <2>1, <2>3, <2>5 DEF RemovedOnce, Third
    <2> QED BY <1>1, <2>2, <2>4, <2>5
<1> QED BY <1>6, <1>7, <1>8, <1>9, <1>10, <1>11, <1>12, <1>13, Effects DEF Actors

LEMMA OneMoreOrLess ==
    ASSUME NEW A, IsFiniteSet(A), NEW x
    PROVE  /\ IsFiniteSet(A \cup {x}) /\ Cardinality(A \cup {x}) <= Cardinality(A) + 1
           /\ x \notin A => Cardinality(A \cup {x}) = Cardinality(A) + 1
           /\ IsFiniteSet(A \ {x}) /\ Cardinality(A \ {x}) >= Cardinality(A) - 1
           /\ x \in A => Cardinality(A \ {x}) = Cardinality(A) - 1
<1>1. Cardinality(A) \in Nat
    BY FS_CardinalityType
<1>2. /\ IsFiniteSet(A \cup {x})
      /\ Cardinality(A \cup {x}) = IF x \in A THEN Cardinality(A) ELSE Cardinality(A) + 1
    BY FS_AddElement
<1>3. /\ IsFiniteSet(A \ {x})
      /\ Cardinality(A \ {x}) = IF x \in A THEN Cardinality(A) - 1 ELSE Cardinality(A)
    BY FS_RemoveElement
<1> QED BY <1>1, <1>2, <1>3

Enough(S, F, L) == Cardinality(S) + Cardinality(F) >= Cardinality(L) + 1

LEMMA Sizes ==
    ASSUME NEW A, NEW B, A \subseteq B, IsFiniteSet(B)
    PROVE  /\ Cardinality(A) <= Cardinality(B)
           /\ Cardinality(A) \in Nat /\ Cardinality(B) \in Nat
BY FS_Subset, FS_CardinalityType

\* Ways for the three sets to change without a connection too many.
LEMMA NoneMore ==
    ASSUME NEW S, NEW F, NEW L, NEW S2, NEW F2, NEW L2,
           IsFiniteSet(S), IsFiniteSet(F), IsFiniteSet(L),
           IsFiniteSet(S2), IsFiniteSet(F2), Enough(S, F, L),
           S \subseteq S2, F \subseteq F2, L2 \subseteq L
    PROVE  Enough(S2, F2, L2)
<1>1. /\ Cardinality(S) \in Nat /\ Cardinality(F) \in Nat /\ Cardinality(L) \in Nat
      /\ Cardinality(S2) \in Nat /\ Cardinality(F2) \in Nat
      /\ Cardinality(S) + Cardinality(F) >= Cardinality(L) + 1
    BY FS_CardinalityType DEF Enough
<1>2. /\ Cardinality(S) <= Cardinality(S2) /\ Cardinality(F) <= Cardinality(F2)
      /\ Cardinality(L2) <= Cardinality(L) /\ Cardinality(L2) \in Nat
    BY Sizes
<1> QED BY <1>1, <1>2 DEF Enough

LEMMA OneMoreListed ==
    ASSUME NEW S, NEW F, NEW L, NEW S2, NEW F2, NEW L2,
           IsFiniteSet(S), IsFiniteSet(F), IsFiniteSet(L),
           IsFiniteSet(S2), IsFiniteSet(F2), Enough(S, F, L),
           NEW x, NEW c, x \notin F, S \subseteq S2, F \cup {x} \subseteq F2,
           L2 \subseteq L \cup {c}
    PROVE  Enough(S2, F2, L2)
<1>1. /\ Cardinality(S) \in Nat /\ Cardinality(F) \in Nat /\ Cardinality(L) \in Nat
      /\ Cardinality(S2) \in Nat /\ Cardinality(F2) \in Nat
      /\ Cardinality(S) + Cardinality(F) >= Cardinality(L) + 1
    BY FS_CardinalityType DEF Enough
<1>2. /\ Cardinality(F \cup {x}) = Cardinality(F) + 1
      /\ IsFiniteSet(L \cup {c}) /\ Cardinality(L \cup {c}) <= Cardinality(L) + 1
    BY <1>1, OneMoreOrLess
<1>3. /\ Cardinality(S) <= Cardinality(S2)
      /\ Cardinality(F \cup {x}) <= Cardinality(F2)
      /\ Cardinality(L2) <= Cardinality(L \cup {c})
      /\ Cardinality(L2) \in Nat /\ Cardinality(L \cup {c}) \in Nat
    BY Sizes, <1>2
<1> QED BY <1>1, <1>2, <1>3 DEF Enough

LEMMA OneMoreServes ==
    ASSUME NEW S, NEW F, NEW L, NEW S2, NEW F2, NEW L2,
           IsFiniteSet(S), IsFiniteSet(F), IsFiniteSet(L),
           IsFiniteSet(S2), IsFiniteSet(F2), Enough(S, F, L),
           NEW x, NEW y, x \notin S, S \cup {x} \subseteq S2, F \ {y} \subseteq F2,
           L2 \subseteq L
    PROVE  Enough(S2, F2, L2)
<1>1. /\ Cardinality(S) \in Nat /\ Cardinality(F) \in Nat /\ Cardinality(L) \in Nat
      /\ Cardinality(S2) \in Nat /\ Cardinality(F2) \in Nat
      /\ Cardinality(S) + Cardinality(F) >= Cardinality(L) + 1
    BY FS_CardinalityType DEF Enough
<1>2. /\ Cardinality(S \cup {x}) = Cardinality(S) + 1
      /\ Cardinality(F \ {y}) >= Cardinality(F) - 1
    BY <1>1, OneMoreOrLess
<1>3. /\ Cardinality(S \cup {x}) <= Cardinality(S2)
      /\ Cardinality(F \ {y}) <= Cardinality(F2) /\ Cardinality(F \ {y}) \in Nat
      /\ Cardinality(L2) <= Cardinality(L) /\ Cardinality(L2) \in Nat
    BY Sizes
<1> QED BY <1>1, <1>2, <1>3 DEF Enough

LEMMA BothLost ==
    ASSUME NEW S, NEW F, NEW L, NEW S2, NEW F2, NEW L2,
           IsFiniteSet(S), IsFiniteSet(F), IsFiniteSet(L),
           IsFiniteSet(S2), IsFiniteSet(F2), Enough(S, F, L),
           NEW x, NEW c, c \in L, S \ {x} \subseteq S2, F \subseteq F2,
           L2 \subseteq L \ {c}
    PROVE  Enough(S2, F2, L2)
<1>1. /\ Cardinality(S) \in Nat /\ Cardinality(F) \in Nat /\ Cardinality(L) \in Nat
      /\ Cardinality(S2) \in Nat /\ Cardinality(F2) \in Nat
      /\ Cardinality(S) + Cardinality(F) >= Cardinality(L) + 1
    BY FS_CardinalityType DEF Enough
<1>2. /\ Cardinality(S \ {x}) >= Cardinality(S) - 1
      /\ IsFiniteSet(L \ {c}) /\ Cardinality(L \ {c}) = Cardinality(L) - 1
    BY <1>1, OneMoreOrLess
<1>3. /\ Cardinality(S \ {x}) <= Cardinality(S2) /\ Cardinality(S \ {x}) \in Nat
      /\ Cardinality(F) <= Cardinality(F2)
      /\ Cardinality(L2) <= Cardinality(L \ {c})
      /\ Cardinality(L2) \in Nat /\ Cardinality(L \ {c}) \in Nat
    BY Sizes, <1>2
<1> QED BY <1>1, <1>2, <1>3 DEF Enough

LEMMA FetcherLost ==
    ASSUME NEW S, NEW F, NEW L, NEW S2, NEW F2, NEW L2,
           IsFiniteSet(S), IsFiniteSet(F), IsFiniteSet(L),
           IsFiniteSet(S2), IsFiniteSet(F2), Enough(S, F, L),
           NEW x, NEW c, c \in L, S \subseteq S2, F \ {x} \subseteq F2,
           L2 \subseteq L \ {c}
    PROVE  Enough(S2, F2, L2)
<1>1. /\ Cardinality(S) \in Nat /\ Cardinality(F) \in Nat /\ Cardinality(L) \in Nat
      /\ Cardinality(S2) \in Nat /\ Cardinality(F2) \in Nat
      /\ Cardinality(S) + Cardinality(F) >= Cardinality(L) + 1
    BY FS_CardinalityType DEF Enough
<1>2. /\ Cardinality(F \ {x}) >= Cardinality(F) - 1
      /\ IsFiniteSet(L \ {c}) /\ Cardinality(L \ {c}) = Cardinality(L) - 1
    BY <1>1, OneMoreOrLess
<1>3. /\ Cardinality(F \ {x}) <= Cardinality(F2) /\ Cardinality(F \ {x}) \in Nat
      /\ Cardinality(S) <= Cardinality(S2)
      /\ Cardinality(L2) <= Cardinality(L \ {c})
      /\ Cardinality(L2) \in Nat /\ Cardinality(L \ {c}) \in Nat
    BY Sizes, <1>2
<1> QED BY <1>1, <1>2, <1>3 DEF Enough

\* A server that runs has started in this step or ran before.
LEMMA RanBefore ==
    ASSUME Types, [Next]_vars, running', ~ stopped', ~ StartFailed'
    PROVE  ~ stopped /\ (Start(TRUE) \/ (running /\ policy' = policy))
<1>1. CASE UNCHANGED vars
    BY <1>1 DEF vars, config
<1>2. ASSUME NEW p, SetThreadPolicy(p) PROVE FALSE
    BY <1>2 DEF SetThreadPolicy
<1>3. ~ Start(FALSE) /\ ~ Stop
    BY DEF Start, Stop
<1>4. ~ StartBreaksOff
    BY AppendSignal DEF StartBreaksOff, StartFailed
<1>5. CASE Start(TRUE)
    BY <1>5 DEF Start
<1>6. ASSUME NEW c, NEW t, NEW o,
             \/ Accept(c, o) \/ Handshake(c, o) \/ PeerEnds(c, o)
             \/ AcceptHandler(t, c) \/ Construct(t, c) \/ AcceptError(t, c)
             \/ ReadEnd(t, c) \/ ReadError(t, c) \/ ReadAborted(t, c)
             \/ SlotCloses(t, c)
      PROVE  stopped' = stopped /\ running' = running /\ policy' = policy
    BY <1>6 DEF Accept, Handshake, PeerEnds, AcceptHandler, Construct, AcceptError,
                ReadEnd, ReadError, ReadAborted, SlotCloses, config
<1>7. ASSUME NEW t,
             \/ ConnectSlots(t) \/ AddConnection(t) \/ EmitConnected(t)
             \/ DropSession(t) \/ WaitNextConnection(t) \/ ReturnFromAccept(t)
             \/ RemoveConnection(t) \/ DestroySession(t) \/ UserCloses(t)
      PROVE  stopped' = stopped /\ running' = running /\ policy' = policy
    BY <1>7 DEF ConnectSlots, AddConnection, EmitConnected, DropSession,
                WaitNextConnection, ReturnFromAccept, RemoveConnection,
                DestroySession, UserCloses, config
<1>8. ASSUME NEW t, Exit(t) PROVE FALSE
    BY <1>8 DEF Exit
<1> QED BY <1>1, <1>2, <1>3, <1>5, <1>6, <1>7, <1>8, <1>4, StepShape

LEMMA EnoughNext ==
    ASSUME Types, Room, Places, Locking, AddedOnce, BeforeStart, RemovedOnce,
           EnoughThreads, [Next]_vars
    PROVE  EnoughThreads'
<1> SUFFICES ASSUME policy' = OnePerConnection, running', ~ stopped', ~ StartFailed'
             PROVE  Enough(Alive, Fetching, list)'
    BY DEF EnoughThreads, Enough
<1>1. /\ IsFiniteSet(Alive) /\ IsFiniteSet(Fetching) /\ IsFiniteSet(list)
      /\ IsFiniteSet(Alive') /\ IsFiniteSet(Fetching')
    BY Counted DEF Alive, Fetching, Types
<1>2. ASSUME NEW u \in Threads, Stays(u)
      PROVE  /\ u \in Alive => u \in Alive'
             /\ u \in Fetching /\ (at[u] = "drop" => on[u] \in list') => u \in Fetching'
    BY <1>2 DEF Stays, Alive, Fetching
<1>3. \A t \in Threads : t \in Actors /\ t # User
    BY ActorsAre, Numbers, TypesNamed
<1>4. CASE Start(TRUE)
    <2>1. ~ running /\ ~ stopped /\ policy' = policy /\ list' = list
        BY <1>4, RanBefore DEF Start
    <2>2. list' = {} /\ Made = {}
        BY <2>1 DEF BeforeStart
    <2>3. StartThreads(policy) = 1
        BY <2>1 DEF StartThreads, Spawned, OnePerConnection
    <2>4. /\ Cardinality(Made) + 1 \in Nat /\ Cardinality(Made) + 1 <= MaxThreads
          /\ \A u \in Actors : at'[u] =
               IF u \in Threads /\ at[u] = "none" /\ u <= Cardinality(Made) + 1
               THEN "run" ELSE at[u]
        BY <1>4, <2>3, StartEffect DEF Room
    <2>5. Cardinality(Made) = 0 /\ Cardinality(list') = 0
        BY <2>2, FS_EmptySet
    <2>6. 1 \in Threads /\ 1 \in Actors
        BY <1>3, <2>4, <2>5, Numbers, TypesNamed DEF Threads
    <2>7. at'[1] = "run"
        BY <2>2, <2>4, <2>5, <2>6 DEF Made
    <2>8. 1 \in Alive'
        BY <2>6, <2>7 DEF Alive
    <2>9. Cardinality(Alive') \in Nat /\ Cardinality(Fetching') \in Nat
        BY <1>1, FS_CardinalityType
    <2>10. Cardinality(Alive') # 0
        BY <1>1, <2>8, FS_EmptySet
    <2> QED BY <2>5, <2>9, <2>10 DEF Enough
<1>5. CASE running /\ ~ stopped /\ policy = OnePerConnection
    <2>1. Enough(Alive, Fetching, list)
        <3>1. ~ StartFailed
            BY PastStays DEF StartFailed
        <3> QED BY <1>5, <3>1 DEF EnoughThreads, Enough
    <2> DEFINE S2 == Alive'
               F2 == Fetching'
               L2 == list'
    <2> HIDE DEF S2, F2, L2
    <2>2. /\ Enough(S2, F2, L2) => Enough(Alive, Fetching, list)'
          /\ IsFiniteSet(S2) /\ IsFiniteSet(F2)
        BY <1>1 DEF S2, F2, L2, Enough
    <2>3. ASSUME Alive \subseteq S2, Fetching \subseteq F2, L2 \subseteq list
          PROVE  Enough(Alive, Fetching, list)'
        BY <1>1, <2>1, <2>2, <2>3, NoneMore
    <2>4. ASSUME NEW x, NEW c, x \notin Fetching, Alive \subseteq S2,
                 Fetching \cup {x} \subseteq F2, L2 \subseteq list \cup {c}
          PROVE  Enough(Alive, Fetching, list)'
        BY <1>1, <2>1, <2>2, <2>4, OneMoreListed
    <2>5. ASSUME NEW x, NEW y, x \notin Alive, Alive \cup {x} \subseteq S2,
                 Fetching \ {y} \subseteq F2, L2 \subseteq list
          PROVE  Enough(Alive, Fetching, list)'
        BY <1>1, <2>1, <2>2, <2>5, OneMoreServes
    <2>6. ASSUME NEW x, NEW c, c \in list, Alive \ {x} \subseteq S2,
                 Fetching \subseteq F2, L2 \subseteq list \ {c}
          PROVE  Enough(Alive, Fetching, list)'
        BY <1>1, <2>1, <2>2, <2>6, BothLost
    <2>7. ASSUME NEW x, NEW c, c \in list, Alive \subseteq S2,
                  Fetching \ {x} \subseteq F2, L2 \subseteq list \ {c}
           PROVE  Enough(Alive, Fetching, list)'
        BY <1>1, <2>1, <2>2, <2>7, FetcherLost
    <2>8. Alive \subseteq Threads /\ Fetching \subseteq Threads
        BY DEF Alive, Fetching
    <2>9. ASSUME NEW t \in Actors, NEW s, NEW r, Moved(t, s, r)
          PROVE  /\ Alive \ {t} \subseteq Alive'
                 /\ \A u \in Fetching \ {t} :
                      (at[u] = "drop" => on[u] \in list') => u \in Fetching'
        BY <1>2, <1>3, <2>8, <2>9 DEF Moved
    <2>10. \A u \in Fetching : at[u] = "drop" => on[u] \in list
        BY DEF Fetching
    <2>11. ASSUME NEW t \in Actors, NEW s, NEW r, Moved(t, s, r), list \subseteq list',
                 \/ s \notin {"emit", "drop", "next"} \/ r = "next"
                 \/ s = "drop" /\ on[t] \notin list
                 \/ r = "drop" /\ on'[t] \in list',
                 r \notin {"none", "stuck", "exited", "destroy"}
          PROVE  Alive \subseteq Alive' /\ Fetching \subseteq Fetching'
        <3>1. at[t] = s /\ at'[t] = r
            BY <2>11 DEF Moved
        <3>2. t \in Alive => t \in Alive'
            BY <2>11, <3>1 DEF Alive
        <3>3. t \in Fetching => t \in Fetching'
            BY <2>11, <3>1 DEF Fetching
        <3>4. \A u \in Fetching \ {t} : u \in Fetching'
            BY <2>9, <2>11, <2>10
        <3> QED BY <2>9, <2>11, <3>2, <3>3, <3>4
    <2>12. CASE Background \/ Quiet
        <3>1. (\A u \in Actors : Stays(u)) /\ list' = list
            BY <2>12 DEF Background, Quiet, ReaderOnly, Stays
        <3> QED BY <1>2, <1>3, <2>3, <2>8, <2>10, <3>1 DEF S2, F2, L2
    <2>13. ASSUME NEW t \in Threads, NEW c \in Sessions, ConstructEffect(t, c)
          PROVE  Enough(Alive, Fetching, list)'
        <3>1. Moved(t, "run", "slots") /\ list' = list
            BY <2>13 DEF ConstructEffect
        <3> QED BY <1>3, <2>3, <2>11, <3>1 DEF S2, F2, L2
    <2>14. ASSUME NEW t \in Threads, AddEffect(t) PROVE Enough(Alive, Fetching, list)'
        <3>1. CASE Moved(t, "slots", "add") /\ list' = list
            BY <1>3, <2>3, <2>11, <3>1 DEF S2, F2, L2
        <3>2. CASE Moved(t, "add", "emit") /\ list' = list \cup {on[t]}
            <4>1. t \notin Fetching /\ t \in Fetching'
                BY <3>2 DEF Moved, Fetching
            <4>2. Alive \subseteq Alive' /\ Fetching \subseteq Fetching'
                BY <1>3, <2>11, <3>2
            <4> QED BY <2>4, <3>2, <4>1, <4>2 DEF S2, F2, L2
        <3>3. CASE Moved(t, "emit", "drop") /\ list' = list /\ on'[t] = on[t]
            <4>1. on'[t] \in list'
                BY <3>3 DEF Locking, Moved
            <4> QED BY <1>3, <2>3, <2>11, <3>3, <4>1 DEF S2, F2, L2
        <3>4. CASE \/ Moved(t, "drop", "next") /\ list' = list
                   \/ Moved(t, "drop", "hung") /\ on[t] \notin list /\ list' = list
            BY <1>3, <2>3, <2>11, <3>4 DEF S2, F2, L2
        <3>5. CASE Moved(t, "next", "return") /\ ThreadIsMade /\ list' = list
            <4>1. PICK u \in Threads : at[u] = "none" /\ at'[u] = "run"
                BY <1>5, <3>5 DEF ThreadIsMade
            <4>2. u \notin Alive /\ u \in Alive' /\ t \in Alive'
                BY <3>5, <4>1 DEF Alive, Moved
            <4>3. Alive \ {t} \subseteq Alive' /\ Fetching \ {t} \subseteq Fetching'
                BY <1>3, <2>9, <2>10, <3>5
            <4> QED BY <2>5, <3>5, <4>2, <4>3 DEF S2, F2, L2
        <3> QED BY <2>14, <3>1, <3>2, <3>3, <3>4, <3>5 DEF AddEffect
    <2>15. ASSUME NEW t \in Threads, LeaveEffect(t) PROVE Enough(Alive, Fetching, list)'
        <3>1. Moved(t, "return", "run") /\ list' = list
            BY <2>15 DEF LeaveEffect
        <3> QED BY <1>3, <2>3, <2>11, <3>1 DEF S2, F2, L2
    <2>16. ASSUME NEW t \in Actors, NEW c \in Sessions, CloseEffect(t, c)
           PROVE  Enough(Alive, Fetching, list)'
        <3>1. /\ Moved(t, "run", "remove") \/ Moved(t, "user", "remove")
              /\ list' = list
            BY <2>16 DEF CloseEffect
        <3> QED BY <2>3, <2>11, <3>1 DEF S2, F2, L2
    <2>17. ASSUME NEW t \in Actors, RemoveEffect(t) PROVE Enough(Alive, Fetching, list)'
        <3>1. CASE EndEffect(t, "destroy") /\ list' = list
            <4>1. /\ at[t] = "destroy"
                  /\ \E r : Moved(t, "destroy", r)
                BY <3>1 DEF EndEffect, Moved
            <4>2. t \notin Alive /\ t \notin Fetching
                BY <4>1 DEF Alive, Fetching
            <4> QED BY <2>3, <2>9, <2>10, <3>1, <4>1, <4>2 DEF S2, F2, L2
        <3>2. CASE list' = list \ {on[t]} /\ at[t] = "remove"
            <4>1. t \notin Fetching
                BY <3>2 DEF Fetching
            <4>2. PICK r : Moved(t, "remove", r)
                BY <2>17, <3>2 DEF RemoveEffect, EndEffect, Moved
            <4>3. ASSUME \A u \in Threads : at[u] = "drop" => on[u] # on[t]
                  PROVE  Fetching \subseteq Fetching'
                BY <2>8, <2>9, <2>10, <3>2, <4>1, <4>2, <4>3
            <4>4. CASE at'[t] \in {"user", "run"}
                <5>1. Alive \subseteq Alive'
                    <6>1. t \in Alive => t \in Alive'
                        BY <4>4 DEF Alive
                    <6> QED BY <2>9, <4>2, <6>1
                <5>2. CASE on[t] \notin list
                    <6>1. list' = list
                        BY <3>2, <5>2
                    <6>2. Fetching \subseteq Fetching'
                        BY <2>9, <2>10, <4>1, <4>2, <6>1
                    <6> QED BY <2>3, <5>1, <6>1, <6>2 DEF S2, F2, L2
                <5>3. CASE on[t] \in list
                    <6>1. PICK x : Fetching \ {x} \subseteq Fetching'
                        <7>1. CASE \A u \in Threads : at[u] = "drop" => on[u] # on[t]
                            BY <4>3, <7>1
                        <7>2. ASSUME NEW x \in Threads, at[x] = "drop", on[x] = on[t]
                              PROVE  Fetching \ {x} \subseteq Fetching'
                            <8>1. \A u \in Threads :
                                    at[u] = "drop" /\ on[u] = on[t] => u = x
                                BY <7>2 DEF AddedOnce, Adding
                            <8> QED BY <2>8, <2>9, <2>10, <3>2, <4>1, <4>2, <8>1
                        <7> QED BY <7>1, <7>2
                    <6> QED BY <2>7, <3>2, <5>1, <5>3, <6>1 DEF S2, F2, L2
                <5> QED BY <5>2, <5>3
            <4>5. CASE at'[t] = "stuck"
                <5>1. t \in Threads /\ HoldsLast(t)
                    BY <2>17, <3>2, <4>5 DEF RemoveEffect, EndEffect, Moved, Actors
                <5>2. /\ on[t] \notin held
                      /\ \A u \in Threads \ {t} : on[u] # on[t]
                    BY <1>3, <5>1 DEF HoldsLast, Types
                <5>3. on[t] \in list
                    BY <3>2, <5>1, <5>2 DEF RemovedOnce
                <5>4. Fetching \subseteq Fetching'
                    BY <3>2, <4>3, <5>2
                <5> QED BY <2>6, <2>9, <3>2, <4>2, <5>3, <5>4 DEF S2, F2, L2
            <4>6. CASE at'[t] = "destroy"
                <5>1. on[t] \in list /\ InEmission(on[t])
                    BY <2>17, <3>2, <4>6 DEF RemoveEffect, EndEffect, Moved
                <5>2. \A u \in Threads : at[u] = "drop" => on[u] # on[t]
                    BY <5>1 DEF InEmission, AddedOnce, Adding
                <5>3. Fetching \subseteq Fetching'
                    BY <4>3, <5>2
                <5> QED BY <2>6, <2>9, <3>2, <4>2, <5>1, <5>3 DEF S2, F2, L2
            <4> QED BY <2>17, <3>2, <4>4, <4>5, <4>6 DEF RemoveEffect, EndEffect, Moved
        <3> QED BY <2>17, <3>1, <3>2 DEF RemoveEffect, EndEffect, Moved
    <2> QED BY <2>12, <2>13, <2>14, <2>15, <2>16, <2>17, Effects
<1> QED BY <1>4, <1>5, RanBefore

\* The threads that are not lost serve or hang, and those on their way to the next
\* session are all that have left the list's mutex behind.
LEMMA EnoughIsPromised ==
    ASSUME Types, EnoughThreads PROVE ThreadPerConnection
<1> DEFINE S == {t \in Threads : Serves(t)}
           H == {t \in Threads : at[t] = "hung"}
           F == {t \in Threads : at[t] \in {"emit", "drop", "next"}}
<1>1. S \in SUBSET Threads /\ H \in SUBSET Threads /\ F \in SUBSET Threads
    OBVIOUS
<1>2. Alive \subseteq S \cup H /\ Fetching \subseteq F /\ S \cap H = {}
    BY DEF Alive, Fetching, Serves
<1> HIDE DEF S, H, F
<1>3. /\ IsFiniteSet(S) /\ IsFiniteSet(H) /\ IsFiniteSet(F)
      /\ Cardinality(S) \in Nat /\ Cardinality(H) \in Nat /\ Cardinality(F) \in Nat
    BY <1>1, Counted
<1>4. /\ IsFiniteSet(S \cup H)
      /\ Cardinality(S \cup H) = Cardinality(S) + Cardinality(H)
    <2>1. /\ IsFiniteSet(S \cup H)
          /\ Cardinality(S \cup H) =
               Cardinality(S) + Cardinality(H) - Cardinality(S \cap H)
        BY <1>3, FS_Union
    <2>2. Cardinality(S \cap H) = 0
        BY <1>2, FS_EmptySet
    <2> QED BY <1>3, <2>1, <2>2
<1>5. /\ Cardinality(Alive) <= Cardinality(S) + Cardinality(H)
      /\ Cardinality(Alive) \in Nat
    BY <1>2, <1>4, Sizes
<1>6. Cardinality(Fetching) <= Cardinality(F) /\ Cardinality(Fetching) \in Nat
    BY <1>2, <1>3, Sizes
<1>7. Cardinality(list) \in Nat
    BY Counted DEF Types
<1>8. Cardinality(Alive) + Cardinality(Fetching) >= Cardinality(list) + 1
        => Cardinality(S) + Cardinality(F) + Cardinality(H) >= Cardinality(list) + 1
    BY <1>3, <1>5, <1>6, <1>7
<1> QED BY <1>8 DEF EnoughThreads, ThreadPerConnection, S, F, H

-----------------------------------------------------------------------------
(***************************************************************************)
(* The theorems.                                                           *)
(***************************************************************************)

IInv ==
    /\ Types /\ Sites /\ Room
    /\ Places /\ Progress /\ Locking /\ AddedOnce /\ CloseIsSignalled
    /\ RemovalIsSignalled /\ OneThreadOrder /\ BeforeStart /\ RemovedOnce

Promises ==
    /\ OneThreadSignals /\ ConnectedComesFirst
    /\ KeepsListening /\ EnoughThreads

LEMMA InvInit == Init => IInv /\ Promises
<1> SUFFICES ASSUME Init PROVE IInv /\ Promises
    OBVIOUS
<1>1. Types /\ Sites /\ Room
    BY TypesInit, RoomInit
<1>2. User \notin Threads /\ User \in Actors
    BY <1>1, Numbers, TypesNamed DEF Actors
<1>3. /\ \A t \in Threads : at[t] = "none" /\ on[t] = 0
      /\ at[User] = "user" /\ on[User] = 0
      /\ \A c \in Sessions : reader[c] = "none"
      /\ slots = {} /\ list = {} /\ signals = <<>> /\ running = FALSE
    BY <1>2 DEF Init
<1>4. Places /\ Progress /\ CloseIsSignalled /\ BeforeStart /\ RemovedOnce
    BY <1>2, <1>3 DEF Places, Progress, CloseIsSignalled, BeforeStart, Made,
                      RemovedOnce
<1>5. OneThreadOrder /\ Locking /\ AddedOnce /\ RemovalIsSignalled
    BY <1>3 DEF OneThreadOrder, Locking, AddedOnce, Adding, RemovalIsSignalled
<1>6. OneThreadSignals /\ KeepsListening /\ EnoughThreads
    BY <1>3 DEF OneThreadSignals, ClosedIsSignalled, KeepsListening, EnoughThreads
<1>7. ConnectedComesFirst
    <2>1. Len(signals) = 0
        BY <1>3
    <2>2. 1 .. Len(signals) = {}
        BY <2>1
    <2> QED BY <2>2 DEF ConnectedComesFirst
<1> QED BY <1>1, <1>4, <1>5, <1>6, <1>7 DEF IInv, Promises

LEMMA InvNext == IInv /\ [Next]_vars => IInv'
<1> SUFFICES ASSUME IInv, [Next]_vars PROVE IInv'
    OBVIOUS
<1> USE DEF IInv
<1>1. Types' /\ Sites' /\ Room'
    BY TypesNext, SitesNext, RoomNext
<1>2. Places' /\ Progress' /\ CloseIsSignalled'
    BY PlacesNext, ProgressNext, CloseNext
<1>3. Locking' /\ AddedOnce' /\ RemovalIsSignalled'
    BY LockingNext, AddedOnceNext, RemovalNext
<1>4. OneThreadOrder'
    BY OneThreadOrderNext
<1>5. BeforeStart' /\ RemovedOnce'
    BY BeforeStartNext, RemovedOnceNext
<1> QED BY <1>1, <1>2, <1>4, <1>5, <1>3

LEMMA PromisesNext == IInv /\ Promises /\ [Next]_vars => Promises'
<1> SUFFICES ASSUME IInv, Promises, [Next]_vars PROVE Promises'
    OBVIOUS
<1>1. OneThreadSignals'
    BY ClosedNext DEF IInv, Promises
<1>2. ConnectedComesFirst'
    BY ConnectedFirstNext DEF IInv, Promises
<1>3. KeepsListening'
    <2>1. RemovalIsSignalled'
        BY RemovalNext DEF IInv
    <2> QED BY <2>1, ListeningNext DEF IInv, Promises
<1>4. EnoughThreads'
    BY EnoughNext DEF IInv, Promises
<1> QED BY <1>1, <1>2, <1>3, <1>4 DEF Promises

\* Whatever clients, peers and users do, sessions and threads never run out of
\* numbers, and a connection goes its way: slots, the list, connected.
THEOREM InvariantHolds == Spec => [](IInv /\ Promises)
<1>1. Init => IInv /\ Promises
    BY InvInit
<1>2. IInv /\ Promises /\ [Next]_vars => (IInv /\ Promises)'
    BY InvNext, PromisesNext
<1> QED BY <1>1, <1>2, PTL DEF Spec

\* As long as at most one thread has run the service, the end of every connection
\* is signalled to the user: disconnected has been emitted by the time the read
\* loop is over.
THEOREM EndIsSignalledByOneThread == Spec => []OneThreadSignals
<1>1. IInv /\ Promises => OneThreadSignals
    BY DEF Promises
<1> QED BY <1>1, InvariantHolds, PTL

\* ... a connection that has ended is not kept in the list, but for the time it
\* takes remove_connection to get at it ...
THEOREM EndedConnectionsLeave == Spec => []EndedLeavesList
<1>1. IInv /\ Promises => EndedLeavesList
    BY EndedLeaves DEF IInv
<1> QED BY <1>1, InvariantHolds, PTL

\* ... and connected is emitted before disconnected.
THEOREM ConnectedIsFirst == Spec => []ConnectedComesFirst
<1>1. IInv /\ Promises => ConnectedComesFirst
    BY DEF Promises
<1> QED BY <1>1, InvariantHolds, PTL

\* With any number of threads, a running server has a session that waits for a
\* client or a thread that is to make one, unless its start reported an error, an
\* accept or a handshake failed, or a thread hangs in the destructor of the session
\* of a connection whose end had been signalled before it was announced to the end.
THEOREM ServerKeepsListening == Spec => []KeepsListening
<1>1. IInv /\ Promises => KeepsListening
    BY DEF Promises
<1> QED BY <1>1, InvariantHolds, PTL

\* one_per_connection has a thread for every connection in the list and one more,
\* or one that will make it, although threads are lost to destructors; only those
\* that hang in the destructor of a session are counted with them.
THEOREM NextClientHasThread == Spec => []ThreadPerConnection
<1>1. IInv /\ Promises => ThreadPerConnection
    BY EnoughIsPromised DEF IInv, Promises
<1> QED BY <1>1, InvariantHolds, PTL
=============================================================================
