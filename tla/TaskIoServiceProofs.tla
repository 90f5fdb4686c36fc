------------------------- MODULE TaskIoServiceProofs -------------------------
(***************************************************************************)
(* Theorems about TaskIoService, for any operations, descriptors and       *)
(* threads.                                                                *)
(***************************************************************************)
EXTENDS TaskIoService, Integers, SequenceTheorems, FiniteSetTheorems, TLAPS

-----------------------------------------------------------------------------
(***************************************************************************)
(* Elements of the queue, and lists of them.                               *)
(***************************************************************************)

Completions == {Completed(h) : h \in Ops}
Readies == {Io(d, ready) : d \in Descriptors, ready \in SUBSET Ops}

\* What an element is about: the task, an operation or a descriptor.
IoKey(d) == <<"io", d>>
Key(e) == IF e = Task THEN Task ELSE IF e[1] = "op" THEN e ELSE IoKey(e[2])

LEMMA ElementKinds ==
    /\ Elements = {Task} \cup Completions \cup Readies
    /\ \A e \in Completions : e[1] = "op" /\ e[2] \in Ops /\ e = Completed(e[2])
    /\ \A e \in Readies :
         e[1] = "io" /\ e[2] \in Descriptors /\ e[3] \in SUBSET Ops
           /\ e = Io(e[2], e[3])
    /\ Task \notin Completions /\ Task \notin Readies
    /\ Completions \cap Readies = {}
<1>1. Elements = {Task} \cup Completions \cup Readies
    BY DEF Elements, Completions, Readies
<1>2. \A e \in Completions : e[1] = "op" /\ e[2] \in Ops /\ e = Completed(e[2])
    BY DEF Completions, Completed
<1>3. \A e \in Readies :
        e[1] = "io" /\ e[2] \in Descriptors /\ e[3] \in SUBSET Ops
          /\ e = Io(e[2], e[3])
    BY DEF Readies, Io
<1>4. Task[1] = "task"
    BY DEF Task
<1> QED BY <1>1, <1>2, <1>3, <1>4

LEMMA ElementFields ==
    /\ \A h : Completed(h)[1] = "op" /\ Completed(h)[2] = h
    /\ \A d, r : Io(d, r)[1] = "io" /\ Io(d, r)[2] = d /\ Io(d, r)[3] = r
    /\ \A d : IoKey(d)[1] = "io" /\ IoKey(d)[2] = d
    /\ Task[1] = "task"
    /\ \A h \in Ops : Completed(h) \in Completions
    /\ \A d \in Descriptors : \A r \in SUBSET Ops : Io(d, r) \in Readies
BY DEF Completed, Io, IoKey, Task, Completions, Readies

LEMMA Keys ==
    /\ Key(Task) = Task
    /\ \A h : Key(Completed(h)) = Completed(h)
    /\ \A d, r : Key(Io(d, r)) = IoKey(d)
    /\ \A g, h : Completed(g) = Completed(h) => g = h
    /\ \A c, d : IoKey(c) = IoKey(d) => c = d
    /\ \A h : Completed(h) # Task
    /\ \A d : IoKey(d) # Task
    /\ \A d, h : IoKey(d) # Completed(h)
<1>1. \A h : Completed(h) # Task /\ \A d : IoKey(d) # Completed(h)
    BY ElementFields
<1>2. \A d, r : IoKey(d) # Task /\ Io(d, r) # Task
    BY ElementFields
<1>3. \A g, h : Completed(g) = Completed(h) => g = h
    BY ElementFields
<1>4. \A c, d : IoKey(c) = IoKey(d) => c = d
    BY ElementFields
<1>5. \A d, r : Key(Io(d, r)) = IoKey(d)
    BY <1>2, ElementFields DEF Key
<1>6. \A h : Key(Completed(h)) = Completed(h)
    BY <1>1, ElementFields DEF Key
<1> QED BY <1>1, <1>2, <1>3, <1>4, <1>5, <1>6 DEF Key

\* A list holds an element that is about x.
Holds(s, x) == \E i \in 1 .. Len(s) : Key(s[i]) = x

\* No two elements of a list are about the same.
OnceIn(s) == \A i, j \in 1 .. Len(s) : Key(s[i]) = Key(s[j]) => i = j

LEMMA NothingHeld == OnceIn(<<>>) /\ \A x : ~ Holds(<<>>, x)
BY DEF OnceIn, Holds

LEMMA OneHeld ==
    ASSUME NEW e
    PROVE  OnceIn(<<e>>) /\ \A x : Holds(<<e>>, x) <=> x = Key(e)
<1>1. Len(<<e>>) = 1 /\ <<e>>[1] = e
    OBVIOUS
<1> QED BY <1>1 DEF OnceIn, Holds

LEMMA ConcatHolds ==
    ASSUME NEW S, NEW s \in Seq(S), NEW u \in Seq(S)
    PROVE  \A x : Holds(s \o u, x) <=> Holds(s, x) \/ Holds(u, x)
<1>1. /\ Len(s) \in Nat /\ Len(u) \in Nat
      /\ Len(s \o u) = Len(s) + Len(u)
      /\ \A i \in 1 .. Len(s) : (s \o u)[i] = s[i]
      /\ \A i \in 1 .. Len(u) : (s \o u)[Len(s) + i] = u[i]
      /\ \A i \in 1 .. Len(s) + Len(u) :
           (s \o u)[i] = IF i <= Len(s) THEN s[i] ELSE u[i - Len(s)]
    BY ConcatProperties, LenProperties
<1>2. ASSUME NEW x, Holds(s \o u, x)
      PROVE  Holds(s, x) \/ Holds(u, x)
    <2>1. PICK i \in 1 .. Len(s) + Len(u) : Key((s \o u)[i]) = x
        BY <1>1, <1>2 DEF Holds
    <2>2. CASE i <= Len(s)
        BY <1>1, <2>1, <2>2 DEF Holds
    <2>3. CASE ~ (i <= Len(s))
        <3>1. i - Len(s) \in 1 .. Len(u) /\ (s \o u)[i] = u[i - Len(s)]
            BY <1>1, <2>3
        <3> QED BY <2>1, <3>1 DEF Holds
    <2> QED BY <2>2, <2>3
<1>3. ASSUME NEW x, Holds(s, x)
      PROVE  Holds(s \o u, x)
    <2>1. PICK i \in 1 .. Len(s) : Key(s[i]) = x
        BY <1>3 DEF Holds
    <2>2. i \in 1 .. Len(s \o u) /\ (s \o u)[i] = s[i]
        BY <1>1
    <2> QED BY <2>1, <2>2 DEF Holds
<1>4. ASSUME NEW x, Holds(u, x)
      PROVE  Holds(s \o u, x)
    <2>1. PICK i \in 1 .. Len(u) : Key(u[i]) = x
        BY <1>4 DEF Holds
    <2>2. Len(s) + i \in 1 .. Len(s \o u) /\ (s \o u)[Len(s) + i] = u[i]
        BY <1>1
    <2> QED BY <2>1, <2>2 DEF Holds
<1> QED BY <1>2, <1>3, <1>4

LEMMA ConcatOnce ==
    ASSUME NEW S, NEW s \in Seq(S), NEW u \in Seq(S), OnceIn(s), OnceIn(u),
           \A x : ~ (Holds(s, x) /\ Holds(u, x))
    PROVE  OnceIn(s \o u)
<1>1. /\ Len(s) \in Nat /\ Len(u) \in Nat
      /\ Len(s \o u) = Len(s) + Len(u)
      /\ \A i \in 1 .. Len(s) + Len(u) :
           (s \o u)[i] = IF i <= Len(s) THEN s[i] ELSE u[i - Len(s)]
    BY ConcatProperties, LenProperties
<1> SUFFICES ASSUME NEW i \in 1 .. Len(s) + Len(u),
                    NEW j \in 1 .. Len(s) + Len(u),
                    Key((s \o u)[i]) = Key((s \o u)[j])
             PROVE  i = j
    BY <1>1 DEF OnceIn
<1>2. \A k \in 1 .. Len(s) + Len(u) : ~ (k <= Len(s)) => k - Len(s) \in 1 .. Len(u)
    BY <1>1
<1>3. \A k \in 1 .. Len(s) + Len(u) : k <= Len(s) => Holds(s, Key((s \o u)[k]))
    BY <1>1 DEF Holds
<1>4. \A k \in 1 .. Len(s) + Len(u) :
        ~ (k <= Len(s)) => Holds(u, Key((s \o u)[k]))
    BY <1>1, <1>2 DEF Holds
<1>5. CASE i <= Len(s) /\ j <= Len(s)
    BY <1>1, <1>5 DEF OnceIn
<1>6. CASE ~ (i <= Len(s)) /\ ~ (j <= Len(s))
    <2>1. i - Len(s) = j - Len(s)
        BY <1>1, <1>2, <1>6 DEF OnceIn
    <2> QED BY <1>1, <2>1
<1> QED BY <1>3, <1>4, <1>5, <1>6

LEMMA TailHolds ==
    ASSUME NEW S, NEW s \in Seq(S), s # <<>>
    PROVE  /\ Holds(s, Key(Head(s)))
           /\ \A x : Holds(s, x) => x = Key(Head(s)) \/ Holds(Tail(s), x)
           /\ \A x : Holds(Tail(s), x) => Holds(s, x)
           /\ OnceIn(s) => OnceIn(Tail(s)) /\ ~ Holds(Tail(s), Key(Head(s)))
<1>1. /\ Len(s) \in Nat /\ Len(s) >= 1
      /\ Len(Tail(s)) = Len(s) - 1
      /\ \A i \in 1 .. Len(s) - 1 : Tail(s)[i] = s[i + 1]
      /\ Head(s) = s[1]
    BY HeadTailProperties, EmptySeq, LenProperties
<1>2. Holds(s, Key(Head(s)))
    BY <1>1 DEF Holds
<1>3. ASSUME NEW x, Holds(s, x), x # Key(Head(s))
      PROVE  Holds(Tail(s), x)
    <2>1. PICK i \in 1 .. Len(s) : Key(s[i]) = x
        BY <1>3 DEF Holds
    <2>2. i - 1 \in 1 .. Len(s) - 1 /\ (i - 1) + 1 = i
        BY <1>1, <1>3, <2>1
    <2> QED BY <1>1, <2>1, <2>2 DEF Holds
<1>4. ASSUME NEW x, Holds(Tail(s), x)
      PROVE  Holds(s, x)
    <2>1. PICK i \in 1 .. Len(s) - 1 : Key(Tail(s)[i]) = x
        BY <1>1, <1>4 DEF Holds
    <2>2. i + 1 \in 1 .. Len(s) /\ Key(s[i + 1]) = x
        BY <1>1, <2>1
    <2> QED BY <2>2 DEF Holds
<1>5. ASSUME OnceIn(s)
      PROVE  OnceIn(Tail(s))
    <2> SUFFICES ASSUME NEW i \in 1 .. Len(s) - 1, NEW j \in 1 .. Len(s) - 1,
                        Key(Tail(s)[i]) = Key(Tail(s)[j])
                 PROVE  i = j
        BY <1>1 DEF OnceIn
    <2>1. /\ i + 1 \in 1 .. Len(s) /\ j + 1 \in 1 .. Len(s)
          /\ Key(s[i + 1]) = Key(s[j + 1])
        BY <1>1
    <2>2. i + 1 = j + 1
        BY <1>5, <2>1 DEF OnceIn
    <2> QED BY <1>1, <2>2
<1>6. ASSUME OnceIn(s), Holds(Tail(s), Key(Head(s)))
      PROVE  FALSE
    <2>1. PICK i \in 1 .. Len(s) - 1 : Key(Tail(s)[i]) = Key(Head(s))
        BY <1>1, <1>6 DEF Holds
    <2>2. i + 1 \in 1 .. Len(s) /\ 1 \in 1 .. Len(s) /\ Key(s[i + 1]) = Key(s[1])
        BY <1>1, <2>1
    <2>3. i + 1 = 1
        BY <1>6, <2>2 DEF OnceIn
    <2> QED BY <1>1, <2>3
<1> QED BY <1>2, <1>3, <1>4, <1>5, <1>6

\* The sequences of a set's elements, and what they cover.
LEMMA SetSeqs ==
    ASSUME NEW S, IsFiniteSet(S), NEW s \in SetToSeqs(S)
    PROVE  /\ s \in Seq(S) /\ Len(s) = Cardinality(S)
           /\ \A x \in S : \E k \in 1 .. Len(s) : s[k] = x
           /\ \A i, j \in 1 .. Len(s) : s[i] = s[j] => i = j
<1> DEFINE D == 1 .. Cardinality(S)
<1>1. Cardinality(S) \in Nat
    BY FS_CardinalityType
<1>2. s \in [D -> S] /\ \A i, j \in D : i # j => s[i] # s[j]
    BY DEF SetToSeqs
<1>3. s \in Seq(S) /\ Len(s) = Cardinality(S)
    BY <1>1, <1>2
<1>4. s \in Injection(D, S)
    BY <1>2 DEF Injection, IsInjective
<1>5. IsFiniteSet(D) /\ Cardinality(D) = Cardinality(S)
    BY <1>1, FS_Interval
<1>6. s \in Surjection(D, S)
    BY <1>4, <1>5, FS_Injection
<1>7. \A x \in S : \E k \in D : s[k] = x
    BY <1>6 DEF Surjection
<1> QED BY <1>2, <1>3, <1>7

LEMMA SetSeq ==
    ASSUME NEW S, IsFiniteSet(S)
    PROVE  LET s == SetToSeq(S)
           IN  /\ s \in Seq(S)
               /\ \A x \in S : \E k \in 1 .. Len(s) : s[k] = x
               /\ \A i, j \in 1 .. Len(s) : s[i] = s[j] => i = j
<1> DEFINE D == 1 .. Cardinality(S)
<1>1. PICK f : f \in Bijection(D, S)
    BY FS_CardinalityType DEF ExistsBijection
<1>2. f \in [D -> S] /\ IsInjective(f)
    BY <1>1 DEF Bijection, Injection
<1>3. SetToSeq(S) \in [D -> S] /\ IsInjective(SetToSeq(S))
    BY <1>2 DEF SetToSeq
<1>4. SetToSeq(S) \in SetToSeqs(S)
    BY <1>3 DEF SetToSeqs, IsInjective
<1> HIDE DEF D
<1> QED BY <1>4, SetSeqs

\* Writes come before the others, and every operation once.
LEMMA WritesFirstSeq ==
    ASSUME NEW due \in SUBSET Ops
    PROVE  /\ WritesFirst(due) \in Seq(due)
           /\ \A h \in due : \E k \in 1 .. Len(WritesFirst(due)) :
                WritesFirst(due)[k] = h
           /\ \A i, j \in 1 .. Len(WritesFirst(due)) :
                WritesFirst(due)[i] = WritesFirst(due)[j] => i = j
<1> DEFINE writes == {h \in due : Kind[h] = "write"}
           others == due \ writes
           s == SetToSeq(writes)
           u == SetToSeq(others)
<1>1. IsFiniteSet(writes) /\ IsFiniteSet(others)
    BY ServiceAssumption, FS_Subset
<1>2. /\ writes \subseteq due /\ others \subseteq due
      /\ \A h \in due : h \in writes \/ h \in others
      /\ writes \cap others = {}
    OBVIOUS
<1>3. WritesFirst(due) = s \o u
    BY DEF WritesFirst
<1> HIDE DEF writes, others
<1>4. /\ s \in Seq(writes) /\ \A h \in writes : \E k \in 1 .. Len(s) : s[k] = h
      /\ \A i, j \in 1 .. Len(s) : s[i] = s[j] => i = j
    BY <1>1, SetSeq
<1>5. /\ u \in Seq(others) /\ \A h \in others : \E k \in 1 .. Len(u) : u[k] = h
      /\ \A i, j \in 1 .. Len(u) : u[i] = u[j] => i = j
    BY <1>1, SetSeq
<1> HIDE DEF s, u
<1>6. s \in Seq(due) /\ u \in Seq(due)
    BY <1>4, <1>5, <1>2, SeqMonotonic
<1>7. /\ s \o u \in Seq(due) /\ Len(s) \in Nat /\ Len(u) \in Nat
      /\ Len(s \o u) = Len(s) + Len(u)
      /\ \A i \in 1 .. Len(s) + Len(u) :
           (s \o u)[i] = IF i <= Len(s) THEN s[i] ELSE u[i - Len(s)]
    BY <1>6, ConcatProperties, LenProperties
<1>8. \A i \in 1 .. Len(s) : s[i] \in writes
    BY <1>4, ElementOfSeq
<1>9. \A i \in 1 .. Len(u) : u[i] \in others
    BY <1>5, ElementOfSeq
<1>10. ASSUME NEW h \in due PROVE \E k \in 1 .. Len(s \o u) : (s \o u)[k] = h
    <2>1. CASE h \in writes
        <3>1. PICK k \in 1 .. Len(s) : s[k] = h
            BY <1>4, <2>1
        <3>2. k \in 1 .. Len(s \o u) /\ (s \o u)[k] = h
            BY <1>7, <3>1
        <3> QED BY <3>2
    <2>2. CASE h \in others
        <3>1. PICK k \in 1 .. Len(u) : u[k] = h
            BY <1>5, <2>2
        <3>2. Len(s) + k \in 1 .. Len(s \o u) /\ (s \o u)[Len(s) + k] = h
            BY <1>7, <3>1
        <3> QED BY <3>2
    <2> QED BY <1>2, <2>1, <2>2
<1>11. ASSUME NEW i \in 1 .. Len(s \o u), NEW j \in 1 .. Len(s \o u),
              (s \o u)[i] = (s \o u)[j]
       PROVE  i = j
    <2>1. CASE i <= Len(s) /\ j <= Len(s)
        BY <1>4, <1>7, <1>11, <2>1
    <2>2. CASE ~ (i <= Len(s)) /\ ~ (j <= Len(s))
        <3>1. i - Len(s) \in 1 .. Len(u) /\ j - Len(s) \in 1 .. Len(u)
              /\ u[i - Len(s)] = u[j - Len(s)]
            BY <1>7, <1>11, <2>2
        <3>2. i - Len(s) = j - Len(s)
            BY <1>5, <3>1
        <3> QED BY <1>7, <3>2
    <2>3. CASE i <= Len(s) /\ ~ (j <= Len(s))
        <3>1. i \in 1 .. Len(s) /\ j - Len(s) \in 1 .. Len(u)
              /\ s[i] = u[j - Len(s)]
            BY <1>7, <1>11, <2>3
        <3> QED BY <1>2, <1>8, <1>9, <3>1
    <2>4. CASE ~ (i <= Len(s)) /\ j <= Len(s)
        <3>1. j \in 1 .. Len(s) /\ i - Len(s) \in 1 .. Len(u)
              /\ s[j] = u[i - Len(s)]
            BY <1>7, <1>11, <2>4
        <3> QED BY <1>2, <1>8, <1>9, <3>1
    <2> QED BY <2>1, <2>2, <2>3, <2>4
<1> QED BY <1>7, <1>10, <1>11, <1>3

-----------------------------------------------------------------------------
(***************************************************************************)
(* Types.  That work is not negative needs the count of it, further down.  *)
(***************************************************************************)

Actors == Threads \cup {User}

Locations == {"user", "out", "quit", "loop", "wait", "poll", "block", "polled",
              "io", "push", "shut", "run", "cleanup", "finished", "flush",
              "left"}

States == {"none", "pending", "ready", "running", "done"}

ListTypes ==
    /\ queue \in Seq(Elements)
    /\ push \in [Actors -> Seq(Completions)]
    /\ private \in [Threads -> Seq(Completions \cup Readies)]

WakeTypes ==
    /\ stopped \in BOOLEAN /\ signalled \in BOOLEAN /\ interrupted \in BOOLEAN
    /\ woken \subseteq Threads
    /\ \A t \in woken : at[t] = "wait"
    /\ events \subseteq Descriptors \cup {Interrupter}

OtherTypes ==
    /\ mutex \in Threads \cup {Free}
    /\ work \in Int
    /\ closed \subseteq Descriptors
    /\ closing \in [Actors -> SUBSET closed]
    /\ able \subseteq Ops
    /\ op \in [Ops -> States]
    /\ at \in [Actors -> Locations]
    /\ at[User] \in {"user", "push", "shut"}
    /\ \A t \in Threads : at[t] # "user"
    /\ job \in [Threads -> Elements]
    /\ credit \in [Threads -> Nat]

Types == ListTypes /\ WakeTypes /\ OtherTypes

LEMMA SomeTypes ==
    /\ Actors = Threads \cup {User} /\ User \notin Threads /\ User \notin Ops
    /\ Interrupter \notin Descriptors
    /\ \A h \in Ops : Descriptor[h] \in Descriptors
    /\ \A d : OpsOf(d) \subseteq Ops
BY ServiceAssumption DEF Actors, Descriptors, OpsOf

LEMMA FiniteDescriptors == IsFiniteSet(Descriptors)
<1> DEFINE f == [h \in Ops |-> Descriptor[h]]
<1>1. f \in Surjection(Ops, Descriptors)
    BY DEF Surjection, Descriptors
<1>2. IsFiniteSet(Ops)
    BY ServiceAssumption
<1> QED BY <1>1, <1>2, FS_Surjection

\* What epoll_wait has delivered, as elements of the queue.
LEMMA PollSeq ==
    ASSUME Types, NEW order \in SetToSeqs(events \ {Interrupter})
    PROVE  LET s == [k \in 1 .. Len(order) |-> Io(order[k], able \cap OpsOf(order[k]))]
           IN  /\ s \in Seq(Readies)
               /\ \A d \in events : d # Interrupter =>
                    \E k \in 1 .. Len(s) : s[k] = Io(d, able \cap OpsOf(d))
               /\ OnceIn(s)
               /\ \A k \in 1 .. Len(s) : s[k][3] \subseteq able
               /\ \A x : Holds(s, x) => \E d \in Descriptors : x = IoKey(d)
<1> DEFINE D == events \ {Interrupter}
           s == [k \in 1 .. Len(order) |-> Io(order[k], able \cap OpsOf(order[k]))]
<1>1. D \subseteq Descriptors /\ able \subseteq Ops
    BY DEF Types, WakeTypes, OtherTypes
<1>2. IsFiniteSet(D)
    BY <1>1, FiniteDescriptors, FS_Subset
<1>3. \A d \in events : d # Interrupter => d \in D
    OBVIOUS
<1>4. order \in SetToSeqs(D)
    OBVIOUS
<1> HIDE DEF D
<1>5. /\ order \in Seq(D) /\ \A d \in D : \E k \in 1 .. Len(order) : order[k] = d
      /\ \A i, j \in 1 .. Len(order) : order[i] = order[j] => i = j
    BY <1>2, <1>4, SetSeqs, SMTT(20)
<1>6. Len(order) \in Nat /\ \A k \in 1 .. Len(order) : order[k] \in Descriptors
    BY <1>1, <1>5, LenProperties, ElementOfSeq
<1>7. \A k \in 1 .. Len(order) : Io(order[k], able \cap OpsOf(order[k])) \in Readies
    BY <1>1, <1>6, ElementFields, SomeTypes
<1>8. s \in [1 .. Len(order) -> Readies]
    BY <1>7
<1>9. \A k \in 1 .. Len(order) : s[k] = Io(order[k], able \cap OpsOf(order[k]))
    OBVIOUS
<1> HIDE DEF s
<1>10. s \in Seq(Readies) /\ Len(s) = Len(order)
    BY <1>6, <1>8
<1>11. ASSUME NEW k \in 1 .. Len(order)
       PROVE  Key(s[k]) = IoKey(order[k]) /\ s[k][3] = able \cap OpsOf(order[k])
    <2> DEFINE r == able \cap OpsOf(order[k])
    <2>1. s[k] = Io(order[k], r)
        BY <1>9
    <2> HIDE DEF r
    <2>2. Key(s[k]) = IoKey(order[k]) /\ s[k][3] = r
        BY <2>1, Keys, ElementFields
    <2> QED BY <2>2 DEF r
<1>12. OnceIn(s)
    BY <1>5, <1>10, <1>11, Keys DEF OnceIn
<1>13. \A x : Holds(s, x) => \E d \in Descriptors : x = IoKey(d)
    BY <1>6, <1>10, <1>11 DEF Holds
<1>14. \A d \in events : d # Interrupter =>
         \E k \in 1 .. Len(s) : s[k] = Io(d, able \cap OpsOf(d))
    <2> SUFFICES ASSUME NEW d \in D
                 PROVE  \E k \in 1 .. Len(s) : s[k] = Io(d, able \cap OpsOf(d))
        BY <1>3
    <2>1. PICK k \in 1 .. Len(order) : order[k] = d
        BY <1>5
    <2> QED BY <1>9, <1>10, <2>1
<1>15. \A k \in 1 .. Len(s) : s[k][3] \subseteq able
    BY <1>10, <1>11
<1> QED BY <1>10, <1>12, <1>13, <1>14, <1>15 DEF s

\* A list of completions, made from a list of operations.
LEMMA CompletedSeq ==
    ASSUME NEW hs \in Seq(Ops), \A i, j \in 1 .. Len(hs) : hs[i] = hs[j] => i = j
    PROVE  LET s == [k \in 1 .. Len(hs) |-> Completed(hs[k])]
           IN  /\ s \in Seq(Completions)
               /\ OnceIn(s)
               /\ \A x : Holds(s, x) <=> \E k \in 1 .. Len(hs) : x = Completed(hs[k])
<1> DEFINE s == [k \in 1 .. Len(hs) |-> Completed(hs[k])]
<1>1. Len(hs) \in Nat /\ \A k \in 1 .. Len(hs) : hs[k] \in Ops
    BY LenProperties, ElementOfSeq
<1>2. s \in Seq(Completions) /\ Len(s) = Len(hs)
    BY <1>1, ElementFields, IsASeq
<1>3. \A k \in 1 .. Len(hs) : s[k] = Completed(hs[k]) /\ Key(s[k]) = Completed(hs[k])
    BY Keys
<1> HIDE DEF s
<1>4. OnceIn(s)
    BY <1>2, <1>3, Keys DEF OnceIn
<1>5. \A x : Holds(s, x) <=> \E k \in 1 .. Len(hs) : x = Completed(hs[k])
    BY <1>2, <1>3 DEF Holds
<1> QED BY <1>2, <1>4, <1>5 DEF s

\* What an event completes: the first of them, and the others.
LEMMA PerformedSeq ==
    ASSUME Types, NEW d, NEW ready
    PROVE  LET done == Performed(d, ready)
               others == Tail(done)
               due == {h \in OpsOf(d) \cap ready : op[h] = "pending"}
           IN  /\ done \in Seq(due)
               /\ done = <<>> <=> due = {}
               /\ done # <<>> =>
                    /\ done[1] \in due /\ others \in Seq(due)
                    /\ \A i, j \in 1 .. Len(others) : others[i] = others[j] => i = j
                    /\ \A h : h \in due <=> h = done[1] \/ h \in Range(others)
                    /\ done[1] \notin Range(others)
                    /\ \A h : h \in Range(others) <=>
                         \E k \in 1 .. Len(others) : h = others[k]
<1> DEFINE due == {h \in OpsOf(d) \cap ready : op[h] = "pending"}
           done == WritesFirst(due)
           others == Tail(done)
<1>1. due \in SUBSET Ops
    BY SomeTypes
<1>2. Performed(d, ready) = done
    BY DEF Performed
<1> HIDE DEF due
<1>3. /\ done \in Seq(due) /\ \A h \in due : \E k \in 1 .. Len(done) : done[k] = h
      /\ \A i, j \in 1 .. Len(done) : done[i] = done[j] => i = j
    BY <1>1, WritesFirstSeq
<1> HIDE DEF done
<1>4. /\ Len(done) \in Nat /\ \A k \in 1 .. Len(done) : done[k] \in due
      /\ done = <<>> => Len(done) = 0
    BY <1>3, LenProperties, ElementOfSeq, EmptySeq
<1>5. done = <<>> <=> due = {}
    <2>1. done # <<>> => 1 \in 1 .. Len(done)
        BY <1>3, <1>4, EmptySeq
    <2> QED BY <1>3, <1>4, <2>1
<1>6. ASSUME done # <<>>
      PROVE  /\ done[1] \in due /\ others \in Seq(due)
             /\ \A i, j \in 1 .. Len(others) : others[i] = others[j] => i = j
             /\ \A h : h \in due <=> h = done[1] \/ h \in Range(others)
             /\ done[1] \notin Range(others)
             /\ \A h : h \in Range(others) <=>
                  \E k \in 1 .. Len(others) : h = others[k]
    <2>1. /\ others \in Seq(due) /\ Len(done) >= 1 /\ Len(others) = Len(done) - 1
          /\ \A k \in 1 .. Len(done) - 1 : others[k] = done[k + 1]
        BY <1>3, <1>4, <1>6, HeadTailProperties, EmptySeq
    <2> HIDE DEF others
    <2>2. \A h : h \in Range(others) <=> \E k \in 1 .. Len(others) : h = others[k]
        BY <2>1, LenProperties DEF Range
    <2>3. ASSUME NEW i \in 1 .. Len(others), NEW j \in 1 .. Len(others),
                 others[i] = others[j]
          PROVE  i = j
        <3>1. i + 1 \in 1 .. Len(done) /\ j + 1 \in 1 .. Len(done)
              /\ done[i + 1] = done[j + 1]
            BY <1>4, <2>1, <2>3
        <3>2. i + 1 = j + 1
            BY <1>3, <3>1
        <3> QED BY <1>4, <2>1, <3>2
    <2>4. done[1] \in due
        BY <1>4, <2>1
    <2>5. ASSUME done[1] \in Range(others)
          PROVE  FALSE
        <3>1. PICK k \in 1 .. Len(done) - 1 : done[1] = done[k + 1]
            BY <2>1, <2>2, <2>5
        <3>2. 1 \in 1 .. Len(done) /\ k + 1 \in 1 .. Len(done)
            BY <1>4, <2>1
        <3>3. 1 = k + 1
            BY <1>3, <3>1, <3>2
        <3> QED BY <3>3
    <2>6. ASSUME NEW h \in due, h # done[1]
          PROVE  h \in Range(others)
        <3>1. PICK k \in 1 .. Len(done) : done[k] = h
            BY <1>3
        <3>2. k - 1 \in 1 .. Len(others) /\ (k - 1) + 1 = k
            BY <1>4, <2>1, <2>6, <3>1
        <3>3. others[k - 1] = h
            BY <2>1, <3>1, <3>2
        <3> QED BY <2>2, <3>2, <3>3
    <2>7. \A h : h \in Range(others) => h \in due
        BY <2>1, <2>2, ElementOfSeq
    <2> QED BY <2>1, <2>2, <2>3, <2>4, <2>5, <2>6, <2>7
<1> QED BY <1>2, <1>3, <1>5, <1>6 DEF due

\* The steps that leave every list alone.
Quiet(t) ==
    \/ Enter(t) \/ StopService(t) \/ Leave(t) \/ Wait(t) \/ WaitAgain(t)
    \/ WakeSpuriously(t) \/ PerformNothing(t) \/ Return(t)

QuietElse ==
    \/ \E t \in Actors, h \in Ops : StartWaits(t, h)
    \/ Stop
    \/ \E h \in Ops : BecomeAble(h)
    \/ \E t \in Actors : Shut(t)

LEMMA QuietLists ==
    ASSUME QuietElse \/ \E t \in Threads : Quiet(t)
    PROVE  UNCHANGED <<queue, push, private>>
<1>1. ASSUME NEW t \in Threads, Quiet(t)
      PROVE  UNCHANGED <<queue, push, private>>
    BY <1>1 DEF Quiet, Enter, StopService, Leave, Wait, WaitAgain, WakeSpuriously,
                PerformNothing, Return, queueVars, threadVars
<1>2. ASSUME QuietElse
      PROVE  UNCHANGED <<queue, push, private>>
    BY <1>2 DEF QuietElse, StartWaits, Stop, BecomeAble, Shut, queueVars, threadVars
<1> QED BY <1>1, <1>2

\* Shut: epoll loses what is no longer registered, and the handler goes on.
LEMMA ShutEffect ==
    ASSUME Types, NEW t \in Actors, Shut(t)
    PROVE  /\ at[t] = "shut" /\ at' = [at EXCEPT ![t] = Outside(t)]
           /\ closing' = [closing EXCEPT ![t] = {}]
           /\ events' \subseteq events
           /\ \A d \in events : d \notin events' => d \in closed
           /\ UNCHANGED <<queueVars, work, stopped, wakeVars, closed, able, op, job,
                          push, private, credit>>
BY DEF Shut, Goto, Types, OtherTypes

\* Every step is quiet or one of those that move elements.
LEMMA Steps ==
    ASSUME Next
    PROVE  \/ QuietElse \/ \E t \in Threads : Quiet(t)
           \/ \E t \in Threads : PickTask(t) \/ PickHandler(t)
           \/ \E t \in Threads : Poll(t)
           \/ \E t \in Threads : TaskCleanup(t)
           \/ \E t \in Threads : PerformIo(t)
           \/ \E t \in Actors : Push(t)
           \/ \E t \in Threads : Flush(t)
           \/ \E t \in Actors, h \in Ops : \E cont \in BOOLEAN : StartCompletes(t, h, cont)
           \/ \E t \in Actors, d \in Descriptors : Close(t, d)
BY DEF Next, Step, Optional, Quiet, QuietElse, Actors

\* PerformIo, by what each operation becomes: first has its handler run, those
\* in s go to the queue.
PerformEffect(t, first, s) ==
    /\ at[t] = "io"
    /\ s \in Seq(Completions) /\ OnceIn(s) /\ ~ Holds(s, Completed(first))
    /\ \A x : Holds(s, x) => \E h \in Ops : x = Completed(h)
    /\ \A h \in Ops :
         (h = first \/ Holds(s, Completed(h)))
           <=> h \in OpsOf(job[t][2]) /\ h \in job[t][3] /\ op[h] = "pending"
    /\ op' = [h \in Ops |-> IF h = first THEN "running"
                            ELSE IF Holds(s, Completed(h)) THEN "ready" ELSE op[h]]
    /\ job' = [job EXCEPT ![t] = Completed(first)]
    /\ push' = [push EXCEPT ![t] = s]
    /\ at' = [at EXCEPT ![t] = IF s = <<>> THEN "run" ELSE "push"]
    /\ UNCHANGED <<queueVars, work, stopped, wakeVars, events, ioVars, private,
                   credit>>

LEMMA PerformIoEffect ==
    ASSUME Types, NEW t \in Threads, PerformIo(t)
    PROVE  \E first \in Ops, s \in Seq(Completions) : PerformEffect(t, first, s)
<1> DEFINE due == {h \in OpsOf(job[t][2]) \cap job[t][3] : op[h] = "pending"}
           done == Performed(job[t][2], job[t][3])
           others == Tail(done)
           s == [k \in 1 .. Len(others) |-> Completed(others[k])]
<1>1. /\ at[t] = "io" /\ done # <<>>
      /\ op' = [h \in Ops |-> CASE h = done[1] -> "running"
                                 [] h \in Range(others) -> "ready"
                                 [] OTHER -> op[h]]
      /\ job' = [job EXCEPT ![t] = Completed(done[1])]
      /\ push' = [push EXCEPT ![t] = s]
      /\ at' = [at EXCEPT ![t] = IF others = <<>> THEN "run" ELSE "push"]
      /\ UNCHANGED <<queueVars, work, stopped, wakeVars, events, ioVars, private,
                     credit>>
    BY DEF PerformIo, Goto
<1>2. due \subseteq Ops
    BY SomeTypes
<1>3. /\ done[1] \in due /\ others \in Seq(due)
      /\ \A i, j \in 1 .. Len(others) : others[i] = others[j] => i = j
      /\ \A h : h \in due <=> h = done[1] \/ h \in Range(others)
      /\ done[1] \notin Range(others)
      /\ \A h : h \in Range(others) <=> \E k \in 1 .. Len(others) : h = others[k]
    BY <1>1, PerformedSeq
<1>4. \A h \in Ops : h \in due <=> h \in OpsOf(job[t][2]) /\ h \in job[t][3]
                                     /\ op[h] = "pending"
    OBVIOUS
<1> HIDE DEF due, done
<1> DEFINE first == done[1]
<1> HIDE DEF others
<1>5. others \in Seq(Ops) /\ first \in Ops
    BY <1>2, <1>3, SeqMonotonic
<1>6. /\ s \in Seq(Completions) /\ OnceIn(s)
      /\ \A x : Holds(s, x) <=> \E k \in 1 .. Len(others) : x = Completed(others[k])
    BY <1>3, <1>5, CompletedSeq
<1>7. Len(others) \in Nat /\ \A k \in 1 .. Len(others) : others[k] \in Ops
    BY <1>5, LenProperties, ElementOfSeq
<1>8. s = <<>> <=> others = <<>>
    BY <1>5, <1>7
<1> HIDE DEF s, first
<1>9. \A h : Holds(s, Completed(h)) <=> h \in Range(others)
    BY <1>3, <1>6, Keys
<1>10. \A x : Holds(s, x) => \E h \in Ops : x = Completed(h)
    BY <1>6, <1>7
<1>11. \A h : h \in due <=> h = first \/ h \in Range(others)
    BY <1>3 DEF first
<1>12. first \notin Range(others)
    BY <1>3 DEF first
<1>13. op' = [h \in Ops |-> IF h = first THEN "running"
                            ELSE IF Holds(s, Completed(h)) THEN "ready" ELSE op[h]]
    <2>1. op' = [h \in Ops |-> CASE h = first -> "running"
                                 [] h \in Range(others) -> "ready"
                                 [] OTHER -> op[h]]
        BY <1>1 DEF first
    <2>2. ASSUME NEW h \in Ops
          PROVE  (CASE h = first -> "running"
                    [] h \in Range(others) -> "ready"
                    [] OTHER -> op[h])
                 = IF h = first THEN "running"
                   ELSE IF Holds(s, Completed(h)) THEN "ready" ELSE op[h]
        BY <1>9, <1>12
    <2> QED BY <2>1, <2>2
<1>14. \A h \in Ops :
         (h = first \/ Holds(s, Completed(h)))
           <=> h \in OpsOf(job[t][2]) /\ h \in job[t][3] /\ op[h] = "pending"
    BY <1>4, <1>9, <1>11
<1>15. PerformEffect(t, first, s)
    BY <1>1, <1>6, <1>8, <1>9, <1>10, <1>12, <1>13, <1>14 DEF PerformEffect, first
<1> QED BY <1>5, <1>6, <1>15

\* Close: what is pending on d goes to the queue.
CloseEffect(t, d, s) ==
    /\ at[t] = Outside(t)
    /\ s \in Seq(Completions) /\ OnceIn(s)
    /\ \A x : Holds(s, x) => \E h \in Ops : x = Completed(h)
    /\ \A h \in Ops : Holds(s, Completed(h)) <=> h \in OpsOf(d) /\ op[h] = "pending"
    /\ d \notin closed /\ closed' = closed \cup {d}
    /\ closing' = [closing EXCEPT ![t] = {d}]
    /\ op' = [h \in Ops |-> IF Holds(s, Completed(h)) THEN "ready" ELSE op[h]]
    /\ push' = [push EXCEPT ![t] = s]
    /\ at' = [at EXCEPT ![t] = IF s = <<>> THEN "shut" ELSE "push"]
    /\ UNCHANGED <<queueVars, work, stopped, wakeVars, events, able, job, private,
                   credit>>

LEMMA CloseEffects ==
    ASSUME Types, NEW t \in Actors, NEW d \in Descriptors, Close(t, d)
    PROVE  \E s \in Seq(Completions) : CloseEffect(t, d, s)
<1> DEFINE pending == {h \in OpsOf(d) : op[h] = "pending"}
<1>1. /\ op' = [h \in Ops |-> IF h \in pending THEN "ready" ELSE op[h]]
      /\ \E order \in SetToSeqs(pending) :
           push' = [push EXCEPT ![t] = [k \in 1 .. Len(order) |-> Completed(order[k])]]
      /\ at' = [at EXCEPT ![t] = IF pending = {} THEN "shut" ELSE "push"]
      /\ at[t] = Outside(t) /\ d \notin closed /\ closed' = closed \cup {d}
      /\ closing' = [closing EXCEPT ![t] = {d}]
      /\ UNCHANGED <<queueVars, work, stopped, wakeVars, events, able, job, private,
                     credit>>
    BY DEF Close, Goto
<1>2. pending \subseteq Ops /\ IsFiniteSet(pending)
      /\ \A h : h \in pending <=> h \in OpsOf(d) /\ op[h] = "pending"
    BY SomeTypes, ServiceAssumption, FS_Subset
<1> HIDE DEF pending
<1>3. PICK order \in SetToSeqs(pending) :
        push' = [push EXCEPT ![t] = [k \in 1 .. Len(order) |-> Completed(order[k])]]
    BY <1>1
<1> DEFINE s == [k \in 1 .. Len(order) |-> Completed(order[k])]
<1>4. /\ order \in Seq(pending) /\ \A h \in pending : \E k \in 1 .. Len(order) : order[k] = h
      /\ \A i, j \in 1 .. Len(order) : order[i] = order[j] => i = j
    BY <1>2, SetSeqs, SMTT(20)
<1>5. order \in Seq(Ops) /\ Len(order) \in Nat
      /\ \A k \in 1 .. Len(order) : order[k] \in pending
    BY <1>2, <1>4, SeqMonotonic, LenProperties, ElementOfSeq
<1>6. /\ s \in Seq(Completions) /\ OnceIn(s)
      /\ \A x : Holds(s, x) <=> \E k \in 1 .. Len(order) : x = Completed(order[k])
    BY <1>4, <1>5, CompletedSeq
<1>7. s = <<>> <=> pending = {}
    <2>1. s = <<>> <=> Len(order) = 0
        BY <1>5
    <2> HIDE DEF s
    <2>2. Len(order) # 0 => 1 \in 1 .. Len(order)
        BY <1>5
    <2> QED BY <1>4, <1>5, <2>1, <2>2
<1>8. push' = [push EXCEPT ![t] = s]
    BY <1>3
<1> HIDE DEF s
<1>9. \A h : Holds(s, Completed(h)) <=> h \in pending
    <2>1. \A h : Holds(s, Completed(h)) => h \in pending
        BY <1>5, <1>6, Keys
    <2>2. ASSUME NEW h \in pending
          PROVE  Holds(s, Completed(h))
        <3>1. PICK k \in 1 .. Len(order) : order[k] = h
            BY <1>4
        <3> QED BY <1>6, <3>1
    <2> QED BY <2>1, <2>2
<1>10. \A x : Holds(s, x) => \E h \in Ops : x = Completed(h)
    BY <1>2, <1>5, <1>6
<1>11. op' = [h \in Ops |-> IF Holds(s, Completed(h)) THEN "ready" ELSE op[h]]
    BY <1>1, <1>9
<1>12. CloseEffect(t, d, s)
    BY <1>1, <1>2, <1>6, <1>7, <1>8, <1>9, <1>10, <1>11 DEF CloseEffect
<1> QED BY <1>6, <1>12

\* Poll: a list of descriptors with what is possible now.
PollEffect(t, s) ==
    /\ at[t] \in {"poll", "block"}
    /\ s \in Seq(Readies) /\ OnceIn(s)
    /\ \A d \in events : d # Interrupter =>
         \E k \in 1 .. Len(s) : s[k] = Io(d, able \cap OpsOf(d))
    /\ \A k \in 1 .. Len(s) : s[k][3] \subseteq able
    /\ \A x : Holds(s, x) => \E d \in Descriptors : x = IoKey(d)
    /\ private' = [private EXCEPT ![t] = s]
    /\ events' = {}
    /\ at' = [at EXCEPT ![t] = "polled"]
    /\ UNCHANGED <<queueVars, work, stopped, wakeVars, ioVars, op, job, push,
                   credit>>

LEMMA PollEffects ==
    ASSUME Types, NEW t \in Threads, Poll(t)
    PROVE  \E s \in Seq(Readies) : PollEffect(t, s)
<1>1. PICK order \in SetToSeqs(events \ {Interrupter}) :
        private' = [private EXCEPT ![t] =
            [k \in 1 .. Len(order) |-> Io(order[k], able \cap OpsOf(order[k]))]]
    BY DEF Poll
<1> DEFINE s == [k \in 1 .. Len(order) |-> Io(order[k], able \cap OpsOf(order[k]))]
<1>2. /\ s \in Seq(Readies)
      /\ \A d \in events : d # Interrupter =>
           \E k \in 1 .. Len(s) : s[k] = Io(d, able \cap OpsOf(d))
      /\ OnceIn(s)
      /\ \A k \in 1 .. Len(s) : s[k][3] \subseteq able
      /\ \A x : Holds(s, x) => \E d \in Descriptors : x = IoKey(d)
    BY PollSeq
<1>3. private' = [private EXCEPT ![t] = s]
    BY <1>1
<1> HIDE DEF s
<1>4. PollEffect(t, s)
    BY <1>2, <1>3 DEF PollEffect, Poll, Goto
<1> QED BY <1>2, <1>4

LEMMA ListTypesNext ==
    ASSUME Types, Next
    PROVE  ListTypes'
<1> USE DEF ListTypes
<1>1. /\ queue \in Seq(Elements)
      /\ push \in [Actors -> Seq(Completions)]
      /\ private \in [Threads -> Seq(Completions \cup Readies)]
      /\ Completions \subseteq Elements /\ Readies \subseteq Elements
      /\ Task \in Elements
      /\ User \in Actors /\ Threads \subseteq Actors
    BY ElementKinds DEF Types, Actors
<1>2. ASSUME UNCHANGED <<queue, push, private>>
      PROVE  ListTypes'
    BY <1>1, <1>2
<1>3. ASSUME NEW t \in Threads, PickTask(t) \/ PickHandler(t)
      PROVE  ListTypes'
    <2>1. queue # <<>> /\ queue' = Tail(queue) /\ UNCHANGED <<push, private>>
        BY <1>3 DEF PickTask, PickHandler, Pop, threadVars
    <2> QED BY <1>1, <2>1, HeadTailProperties
<1>4. ASSUME NEW t \in Threads, Poll(t)
      PROVE  ListTypes'
    <2>1. PICK s \in Seq(Readies) : PollEffect(t, s)
        BY <1>4, PollEffects
    <2>2. s \in Seq(Completions \cup Readies)
        BY SeqMonotonic
    <2> QED BY <1>1, <2>1, <2>2 DEF PollEffect, queueVars
<1>5. ASSUME NEW t \in Threads, TaskCleanup(t)
      PROVE  ListTypes'
    <2>1. private[t] \in Seq(Elements)
        BY <1>1, SeqMonotonic, ElementKinds
    <2>2. queue \o private[t] \in Seq(Elements)
        BY <1>1, <2>1, ConcatProperties
    <2>3. Append(queue \o private[t], Task) \in Seq(Elements)
        BY <1>1, <2>2
    <2> QED BY <1>1, <1>5, <2>3, EmptySeq DEF TaskCleanup
<1>6. ASSUME NEW t \in Threads, PerformIo(t)
      PROVE  ListTypes'
    <2>1. PICK first \in Ops, s \in Seq(Completions) : PerformEffect(t, first, s)
        BY <1>6, PerformIoEffect
    <2> QED BY <1>1, <2>1 DEF PerformEffect, queueVars
<1>7. ASSUME NEW t \in Actors, Push(t)
      PROVE  ListTypes'
    <2>1. push[t] \in Seq(Elements)
        BY <1>1, SeqMonotonic
    <2>2. queue \o push[t] \in Seq(Elements)
        BY <1>1, <2>1, ConcatProperties
    <2> QED BY <1>1, <1>7, <2>2, EmptySeq DEF Push
<1>8. ASSUME NEW t \in Threads, Flush(t)
      PROVE  ListTypes'
    <2>1. private[t] \in Seq(Elements)
        BY <1>1, SeqMonotonic, ElementKinds
    <2>2. queue \o private[t] \in Seq(Elements)
        BY <1>1, <2>1, ConcatProperties
    <2> QED BY <1>1, <1>8, <2>2, EmptySeq DEF Flush
<1>9. ASSUME NEW t \in Actors, NEW h \in Ops, NEW cont \in BOOLEAN,
             StartCompletes(t, h, cont)
      PROVE  ListTypes'
    <2>1. Completed(h) \in Completions /\ UNCHANGED queue
        BY <1>9, ElementFields DEF StartCompletes, queueVars
    <2>2. CASE cont /\ t # User
        <3>1. private' = [private EXCEPT ![t] = Append(@, Completed(h))]
              /\ UNCHANGED push /\ t \in Threads
            BY <1>9, <2>2 DEF StartCompletes, Actors
        <3>2. Append(private[t], Completed(h)) \in Seq(Completions \cup Readies)
            BY <1>1, <2>1, <3>1
        <3> QED BY <1>1, <2>1, <3>1, <3>2
    <2>3. CASE ~ (cont /\ t # User)
        <3>1. push' = [push EXCEPT ![t] = <<Completed(h)>>] /\ UNCHANGED private
            BY <1>9, <2>3 DEF StartCompletes
        <3>2. <<Completed(h)>> \in Seq(Completions)
            BY <2>1
        <3> QED BY <1>1, <2>1, <3>1, <3>2
    <2> QED BY <2>2, <2>3
<1>10. ASSUME NEW t \in Actors, NEW d \in Descriptors, Close(t, d)
       PROVE  ListTypes'
    <2>1. PICK s \in Seq(Completions) : CloseEffect(t, d, s)
        BY <1>10, CloseEffects
    <2> QED BY <1>1, <2>1 DEF CloseEffect, queueVars
<1> QED BY <1>2, <1>3, <1>4, <1>5, <1>6, <1>7, <1>8, <1>9, <1>10, Steps, QuietLists

LEMMA WakeOneEffect ==
    ASSUME Types, NEW t \in Actors, WakeOne(t)
    PROVE  /\ signalled' = TRUE
           /\ woken \ {t} \subseteq woken'
           /\ \A s \in woken' : s \in Threads /\ s # t /\ at[s] = "wait"
           /\ \/ (\E s \in woken' : TRUE) /\ UNCHANGED <<interrupted, events>>
              \/ Interrupt /\ \A s \in Threads : at[s] = "wait" => s = t
<1>1. signalled' = TRUE /\ \A s \in woken : s \in Threads /\ at[s] = "wait"
    BY DEF WakeOne, Types, WakeTypes
<1>2. CASE Waiting(t) = {}
    <2>1. Interrupt /\ woken' = woken \ {t}
        BY <1>2 DEF WakeOne
    <2>2. \A s \in Threads : at[s] = "wait" => s = t
        BY <1>2 DEF Waiting
    <2> QED BY <1>1, <2>1, <2>2
<1>3. CASE Waiting(t) # {}
    <2>1. SignalOne(t) /\ UNCHANGED <<interrupted, events>>
        BY <1>3 DEF WakeOne
    <2>2. CASE Waiting(t) \ (woken \ {t}) = {}
        <3>1. woken' = woken \ {t}
            BY <2>1, <2>2 DEF SignalOne
        <3>2. PICK s : s \in Waiting(t)
            BY <1>3
        <3>3. s \in woken'
            BY <2>2, <3>1, <3>2
        <3> QED BY <1>1, <2>1, <3>1, <3>3
    <2>3. CASE Waiting(t) \ (woken \ {t}) # {}
        <3>1. PICK s \in Waiting(t) : woken' = (woken \ {t}) \cup {s}
            BY <2>1, <2>3 DEF SignalOne
        <3> QED BY <1>1, <2>1, <3>1 DEF Waiting
    <2> QED BY <2>2, <2>3
<1> QED BY <1>2, <1>3

LEMMA SignalOneEffect ==
    ASSUME Types, NEW t \in Threads, SignalOne(t)
    PROVE  /\ woken \ {t} \subseteq woken'
           /\ \A s \in woken' : s \in Threads /\ s # t /\ at[s] = "wait"
<1>1. \A s \in woken : s \in Threads /\ at[s] = "wait"
    BY DEF Types, WakeTypes
<1>2. \/ woken' = woken \ {t}
      \/ \E s \in Waiting(t) : woken' = (woken \ {t}) \cup {s}
    BY DEF SignalOne
<1> QED BY <1>1, <1>2 DEF Waiting

LEMMA OtherTypesNext ==
    ASSUME Types, Next
    PROVE  OtherTypes'
<1> USE DEF OtherTypes, Goto, queueVars, wakeVars, ioVars, threadVars
<1>1. /\ OtherTypes /\ User \in Actors /\ User \notin Threads /\ Threads \subseteq Actors
      /\ \A h \in Ops : Descriptor[h] \in Descriptors
    BY SomeTypes DEF Types, Actors
<1>2. ASSUME NEW t \in Threads, Quiet(t)
      PROVE  OtherTypes'
    <2>1. CASE Enter(t) \/ StopService(t)
        BY <1>1, <2>1 DEF Enter, StopService, Locations
    <2>2. CASE Leave(t) \/ Wait(t)
        BY <1>1, <2>2 DEF Leave, Wait, Locations
    <2>3. CASE WaitAgain(t) \/ WakeSpuriously(t)
        BY <1>1, <2>3 DEF WaitAgain, WakeSpuriously
    <2>4. CASE PerformNothing(t)
        BY <1>1, <2>4 DEF PerformNothing, Locations
    <2>5. CASE Return(t)
        <3>1. /\ op' = [h \in Ops |-> IF job[t] = Completed(h) THEN "done" ELSE op[h]]
              /\ job' = [job EXCEPT ![t] = Task]
              /\ work' = work + credit[t] - 1
              /\ credit' = [credit EXCEPT ![t] = 0]
              /\ UNCHANGED <<mutex, ioVars>>
            BY <2>5 DEF Return
        <3>2. PICK place \in {"flush", "finished", "loop"} : at' = [at EXCEPT ![t] = place]
            <4>1. Goto(t, CASE credit[t] > 0 -> "flush"
                            [] credit[t] = 0 /\ work = 1 -> "finished"
                            [] OTHER -> "loop")
                BY <2>5 DEF Return
            <4>2. CASE credit[t] > 0
                <5>1. ~ (credit[t] = 0)
                    BY <1>1, <4>2
                <5>2. Goto(t, "flush")
                    BY <4>1, <4>2, <5>1
                <5> QED BY <5>2
            <4>3. CASE ~ (credit[t] > 0) /\ credit[t] = 0 /\ work = 1
                BY <1>1, <4>1, <4>3
            <4>4. CASE ~ (credit[t] > 0) /\ ~ (credit[t] = 0 /\ work = 1)
                BY <1>1, <4>1, <4>4
            <4> QED BY <4>2, <4>3, <4>4
        <3>3. Task \in Elements
            BY ElementKinds
        <3>4. op' \in [Ops -> States]
            BY <1>1, <3>1 DEF States
        <3>5. at' \in [Actors -> Locations] /\ at'[User] \in {"user", "push", "shut"}
              /\ \A s \in Threads : at'[s] # "user"
            BY <1>1, <3>2 DEF Locations
        <3>6. credit' \in [Threads -> Nat] /\ work' \in Int
            BY <1>1, <3>1
        <3> QED BY <1>1, <3>1, <3>3, <3>4, <3>5, <3>6
    <2> QED BY <1>2, <2>1, <2>2, <2>3, <2>4, <2>5 DEF Quiet
<1>3. ASSUME QuietElse
      PROVE  OtherTypes'
    <2>1. ASSUME NEW t \in Actors, NEW h \in Ops, StartWaits(t, h)
          PROVE  OtherTypes'
        BY <1>1, <2>1 DEF StartWaits, States
    <2>2. CASE Stop
        BY <1>1, <2>2 DEF Stop
    <2>3. ASSUME NEW h \in Ops, BecomeAble(h)
          PROVE  OtherTypes'
        BY <1>1, <2>3 DEF BecomeAble
    <2>4. ASSUME NEW t \in Actors, Shut(t)
          PROVE  OtherTypes'
        <3>1. \E place \in {"user", "run"} :
                at' = [at EXCEPT ![t] = place] /\ (place = "user" => t = User)
                  /\ (place = "run" => t # User)
            BY <2>4, ShutEffect DEF Outside
        <3>2. closing' = [closing EXCEPT ![t] = {}]
              /\ UNCHANGED <<mutex, work, closed, able, op, job, credit>>
            BY <2>4, ShutEffect
        <3> QED BY <1>1, <3>1, <3>2 DEF Locations
    <2> QED BY <1>3, <2>1, <2>2, <2>3, <2>4 DEF QuietElse
<1>4. ASSUME NEW t \in Threads, PickTask(t)
      PROVE  OtherTypes'
    BY <1>1, <1>4 DEF PickTask, Pop, Locations
<1>5. ASSUME NEW t \in Threads, PickHandler(t)
      PROVE  OtherTypes'
    <2>1. /\ job' = [job EXCEPT ![t] = Head(queue)] /\ queue # <<>>
          /\ \/ op' = [op EXCEPT ![Head(queue)[2]] = "running"] /\ Goto(t, "run")
             \/ UNCHANGED op /\ Goto(t, "io")
          /\ mutex' = Free
          /\ UNCHANGED <<work, ioVars, credit>>
        BY <1>5 DEF PickHandler, Pop, TakeHandler
    <2>2. Head(queue) \in Elements
        BY <2>1, HeadTailProperties DEF Types, ListTypes
    <2>3. op' \in [Ops -> States]
        BY <1>1, <2>1 DEF States
    <2> QED BY <1>1, <2>1, <2>2, <2>3 DEF Locations
<1>6. ASSUME NEW t \in Threads, Poll(t)
      PROVE  OtherTypes'
    BY <1>1, <1>6 DEF Poll, Locations
<1>7. ASSUME NEW t \in Threads, TaskCleanup(t) \/ Flush(t)
      PROVE  OtherTypes'
    BY <1>1, <1>7 DEF TaskCleanup, Flush, Locations
<1>8. ASSUME NEW t \in Threads, PerformIo(t)
      PROVE  OtherTypes'
    <2>1. PICK first \in Ops, s \in Seq(Completions) : PerformEffect(t, first, s)
        BY <1>8, PerformIoEffect
    <2>2. Completed(first) \in Elements
        BY ElementKinds, ElementFields
    <2>3. op' \in [Ops -> States]
        BY <1>1, <2>1 DEF PerformEffect, States
    <2>4. \E place \in {"run", "push"} : at' = [at EXCEPT ![t] = place]
        BY <2>1 DEF PerformEffect
    <2>5. job' = [job EXCEPT ![t] = Completed(first)]
          /\ UNCHANGED <<mutex, work, ioVars, credit>>
        BY <2>1 DEF PerformEffect
    <2> QED BY <1>1, <2>2, <2>3, <2>4, <2>5 DEF Locations
<1>9. ASSUME NEW t \in Actors, Push(t)
      PROVE  OtherTypes'
    BY <1>1, <1>9 DEF Push, Outside, Locations, Actors
<1>10. ASSUME NEW t \in Actors, NEW h \in Ops, NEW cont \in BOOLEAN,
              StartCompletes(t, h, cont)
       PROVE  OtherTypes'
    <2>1. op' = [op EXCEPT ![h] = "ready"] /\ UNCHANGED <<mutex, ioVars, job>>
        BY <1>10 DEF StartCompletes
    <2>2. op' \in [Ops -> States]
        BY <1>1, <2>1 DEF States
    <2>3. CASE cont /\ t # User
        BY <1>1, <1>10, <2>1, <2>2, <2>3 DEF StartCompletes, Actors
    <2>4. CASE ~ (cont /\ t # User)
        <3>1. work' = work + 1 /\ at' = [at EXCEPT ![t] = "push"] /\ UNCHANGED credit
            BY <1>10, <2>4 DEF StartCompletes
        <3> QED BY <1>1, <2>1, <2>2, <3>1 DEF Locations
    <2> QED BY <2>3, <2>4
<1>11. ASSUME NEW t \in Actors, NEW d \in Descriptors, Close(t, d)
       PROVE  OtherTypes'
    <2>1. PICK s \in Seq(Completions) : CloseEffect(t, d, s)
        BY <1>11, CloseEffects
    <2>2. op' \in [Ops -> States]
        BY <1>1, <2>1 DEF CloseEffect, States
    <2>3. \E place \in {"shut", "push"} : at' = [at EXCEPT ![t] = place]
        BY <2>1 DEF CloseEffect
    <2>4. /\ closed' = closed \cup {d} /\ closing' = [closing EXCEPT ![t] = {d}]
          /\ UNCHANGED <<mutex, work, able, job, credit>>
        BY <2>1 DEF CloseEffect
    <2>5. closing' \in [Actors -> SUBSET closed'] /\ closed' \subseteq Descriptors
        BY <1>1, <2>4
    <2> QED BY <1>1, <2>2, <2>3, <2>4, <2>5 DEF Locations
<1> QED BY <1>2, <1>3, <1>4, <1>5, <1>6, <1>7, <1>8, <1>9, <1>10, <1>11, Steps

LEMMA WakeTypesNext ==
    ASSUME Types, Next
    PROVE  WakeTypes'
<1> USE DEF Goto, queueVars, wakeVars, ioVars, threadVars
<1>1. /\ stopped \in BOOLEAN /\ signalled \in BOOLEAN /\ interrupted \in BOOLEAN
      /\ \A s \in woken : s \in Threads /\ at[s] = "wait"
      /\ events \subseteq Descriptors \cup {Interrupter}
      /\ at \in [Actors -> Locations]
      /\ User \in Actors /\ User \notin Threads /\ Threads \subseteq Actors
      /\ \A h \in Ops : Descriptor[h] \in Descriptors
    BY SomeTypes DEF Types, WakeTypes, OtherTypes, Actors
\* The flags are Booleans, and who is woken still waits.
<1>2. ASSUME stopped' \in BOOLEAN, signalled' \in BOOLEAN, interrupted' \in BOOLEAN,
             events' \subseteq Descriptors \cup {Interrupter},
             \A s \in woken' : s \in Threads /\ at'[s] = "wait"
      PROVE  WakeTypes'
    BY <1>2 DEF WakeTypes
<1>3. ASSUME Interrupt
      PROVE  interrupted' \in BOOLEAN /\ events' \subseteq Descriptors \cup {Interrupter}
    BY <1>1, <1>3 DEF Interrupt
<1>4. ASSUME NEW t \in Threads, Quiet(t)
      PROVE  WakeTypes'
    <2>1. CASE Enter(t)
        BY <1>1, <1>2, <2>1 DEF Enter
    <2>2. CASE StopService(t)
        <3>1. interrupted' \in BOOLEAN /\ events' \subseteq Descriptors \cup {Interrupter}
            BY <1>3, <2>2 DEF StopService, StopAll
        <3> QED BY <1>1, <1>2, <2>2, <3>1 DEF StopService, StopAll
    <2>3. CASE Leave(t) \/ Wait(t)
        BY <1>1, <1>2, <2>3 DEF Leave, Wait
    <2>4. CASE WaitAgain(t) \/ WakeSpuriously(t)
        BY <1>1, <1>2, <2>4 DEF WaitAgain, WakeSpuriously
    <2>5. CASE PerformNothing(t)
        BY <1>1, <1>2, <2>5 DEF PerformNothing
    <2>6. CASE Return(t)
        <3>1. at[t] # "wait" /\ \E place : at' = [at EXCEPT ![t] = place]
            BY <2>6 DEF Return
        <3>2. UNCHANGED <<stopped, wakeVars, events>>
            BY <2>6 DEF Return
        <3> QED BY <1>1, <1>2, <3>1, <3>2
    <2> QED BY <1>4, <2>1, <2>2, <2>3, <2>4, <2>5, <2>6 DEF Quiet
<1>5. ASSUME QuietElse
      PROVE  WakeTypes'
    <2>1. ASSUME NEW t \in Actors, NEW h \in Ops, StartWaits(t, h)
          PROVE  WakeTypes'
        BY <1>1, <1>2, <2>1 DEF StartWaits
    <2>2. CASE Stop
        <3>1. interrupted' \in BOOLEAN /\ events' \subseteq Descriptors \cup {Interrupter}
            BY <1>3, <2>2 DEF Stop, StopAll
        <3> QED BY <1>1, <1>2, <2>2, <3>1 DEF Stop, StopAll
    <2>3. ASSUME NEW h \in Ops, BecomeAble(h)
          PROVE  WakeTypes'
        BY <1>1, <1>2, <2>3 DEF BecomeAble
    <2>4. ASSUME NEW t \in Actors, Shut(t)
          PROVE  WakeTypes'
        <3>1. at[t] = "shut" /\ \E place : at' = [at EXCEPT ![t] = place]
            BY <2>4, ShutEffect
        <3>2. events' \subseteq events /\ UNCHANGED <<stopped, wakeVars>>
            BY <2>4, ShutEffect
        <3> QED BY <1>1, <1>2, <3>1, <3>2
    <2> QED BY <1>5, <2>1, <2>2, <2>3, <2>4 DEF QuietElse
<1>6. ASSUME NEW t \in Threads, PickTask(t)
      PROVE  WakeTypes'
    <2>1. /\ stopped' = stopped /\ interrupted' \in BOOLEAN /\ events' = events
          /\ \E place : at' = [at EXCEPT ![t] = place]
          /\ \/ SignalOne(t) /\ signalled' = TRUE
             \/ woken' = woken \ {t} /\ UNCHANGED signalled
        <3>1. interrupted' = More /\ More \in BOOLEAN
            BY <1>6 DEF PickTask, More
        <3>2. CASE More
            BY <1>6, <3>1, <3>2 DEF PickTask
        <3>3. CASE ~ More
            BY <1>6, <3>1, <3>3 DEF PickTask
        <3> QED BY <3>1, <3>2, <3>3
    <2>2. \A s \in woken' : s \in Threads /\ s # t /\ at[s] = "wait"
        BY <1>1, <2>1, SignalOneEffect
    <2> QED BY <1>1, <1>2, <2>1, <2>2
<1>7. ASSUME NEW t \in Threads, PickHandler(t)
      PROVE  WakeTypes'
    <2>1. /\ stopped' = stopped
          /\ \E place : at' = [at EXCEPT ![t] = place]
          /\ WakeOne(t) \/ WakeNobody(t)
        BY <1>7 DEF PickHandler, TakeHandler
    <2>2. CASE WakeOne(t)
        <3>1. interrupted' \in BOOLEAN /\ events' \subseteq Descriptors \cup {Interrupter}
            BY <1>1, <1>3, <2>2, WakeOneEffect
        <3> QED BY <1>1, <1>2, <2>1, <2>2, <3>1, WakeOneEffect
    <2>3. CASE WakeNobody(t)
        BY <1>1, <1>2, <2>1, <2>3 DEF WakeNobody
    <2> QED BY <2>1, <2>2, <2>3
<1>8. ASSUME NEW t \in Threads, Poll(t) \/ TaskCleanup(t) \/ Flush(t)
      PROVE  WakeTypes'
    BY <1>1, <1>2, <1>8 DEF Poll, TaskCleanup, Flush
<1>9. ASSUME NEW t \in Threads, PerformIo(t)
      PROVE  WakeTypes'
    <2>1. PICK first \in Ops, s \in Seq(Completions) : PerformEffect(t, first, s)
        BY <1>9, PerformIoEffect
    <2> QED BY <1>1, <1>2, <2>1 DEF PerformEffect
<1>10. ASSUME NEW t \in Actors, Push(t)
       PROVE  WakeTypes'
    <2>1. /\ at[t] = "push" /\ WakeOne(t) /\ stopped' = stopped
          /\ \E place : at' = [at EXCEPT ![t] = place]
        BY <1>10 DEF Push
    <2>2. interrupted' \in BOOLEAN /\ events' \subseteq Descriptors \cup {Interrupter}
        BY <1>1, <1>3, <2>1, WakeOneEffect
    <2> QED BY <1>1, <1>2, <2>1, <2>2, WakeOneEffect
<1>11. ASSUME NEW t \in Actors, NEW h \in Ops, NEW cont \in BOOLEAN,
              StartCompletes(t, h, cont)
       PROVE  WakeTypes'
    BY <1>1, <1>2, <1>11 DEF StartCompletes, May, Outside
<1>12. ASSUME NEW t \in Actors, NEW d \in Descriptors, Close(t, d)
       PROVE  WakeTypes'
    <2>1. PICK s \in Seq(Completions) : CloseEffect(t, d, s)
        BY <1>12, CloseEffects
    <2> QED BY <1>1, <1>2, <2>1 DEF CloseEffect, Outside
<1> QED BY <1>4, <1>5, <1>6, <1>7, <1>8, <1>9, <1>10, <1>11, <1>12, Steps

LEMMA TypesNext ==
    ASSUME Types, Next
    PROVE  Types'
BY ListTypesNext, WakeTypesNext, OtherTypesNext DEF Types

-----------------------------------------------------------------------------
(***************************************************************************)
(* What a thread has, by where it is: an element of the queue it works on, *)
(* a private queue, and mutex_ only on the way back to the queue.          *)
(***************************************************************************)

Local(t) ==
    /\ at[t] \in {"run", "push", "shut"} <=> job[t] \in Completions
    /\ at[t] = "io" => job[t] \in Readies
    /\ mutex = t => at[t] = "loop"
    /\ at[t] \in {"run", "push", "shut"} => Len(private[t]) = credit[t]
    /\ at[t] \in {"run", "push", "shut", "flush"} => private[t] \in Seq(Completions)
    /\ at[t] = "polled" => private[t] \in Seq(Readies)
    /\ at[t] \notin {"run", "push", "shut", "flush", "polled"} => private[t] = <<>>
    /\ at[t] \notin {"run", "push", "shut"} => credit[t] = 0

Locals == /\ \A t \in Threads : Local(t)
          /\ \A t \in Actors : at[t] # "push" => push[t] = <<>>

\* The queue loses its head, and thread t gets it unless it is the task.
LEMMA PickEffect ==
    ASSUME Types, NEW t \in Threads, PickTask(t) \/ PickHandler(t)
    PROVE  /\ Looping(t) /\ ~ stopped /\ stopped' = stopped
           /\ queue # <<>> /\ queue' = Tail(queue) /\ Head(queue) \in Elements
           /\ mutex' = Free
           /\ UNCHANGED <<work, ioVars, push, private, credit>>
           /\ \/ /\ Head(queue) = Task
                 /\ \E place \in {"poll", "block"} : at' = [at EXCEPT ![t] = place]
                 /\ UNCHANGED <<job, op, events>>
              \/ /\ Head(queue) \in Completions
                 /\ job' = [job EXCEPT ![t] = Head(queue)]
                 /\ op' = [op EXCEPT ![Head(queue)[2]] = "running"]
                 /\ at' = [at EXCEPT ![t] = "run"]
              \/ /\ Head(queue) \in Readies
                 /\ job' = [job EXCEPT ![t] = Head(queue)]
                 /\ op' = op
                 /\ at' = [at EXCEPT ![t] = "io"]
<1>1. /\ Looping(t) /\ Pop
      /\ UNCHANGED <<work, stopped, ioVars, push, private, credit>>
    BY DEF PickTask, PickHandler, threadVars
<1>2. /\ ~ stopped /\ queue # <<>> /\ queue' = Tail(queue) /\ mutex' = Free
    BY <1>1 DEF Pop
<1>3. Head(queue) \in Elements
    BY <1>2, HeadTailProperties DEF Types, ListTypes
<1>4. CASE PickTask(t)
    <2>1. Head(queue) = Task /\ UNCHANGED <<job, op, events>>
        BY <1>4 DEF PickTask, threadVars
    <2>2. at' = [at EXCEPT ![t] = IF More THEN "poll" ELSE "block"]
        BY <1>4 DEF PickTask, Goto
    <2>3. \E place \in {"poll", "block"} : at' = [at EXCEPT ![t] = place]
        BY <2>2
    <2> QED BY <1>1, <1>2, <1>3, <2>1, <2>3
<1>5. CASE PickHandler(t)
    <2>1. Head(queue) # Task /\ TakeHandler(t)
        BY <1>5 DEF PickHandler
    <2>2. job' = [job EXCEPT ![t] = Head(queue)]
        BY <2>1 DEF TakeHandler
    <2>3. CASE Head(queue) \in Completions
        <3>1. Head(queue)[1] = "op"
            BY <2>3, ElementKinds
        <3>2. op' = [op EXCEPT ![Head(queue)[2]] = "running"]
              /\ at' = [at EXCEPT ![t] = "run"]
            BY <2>1, <3>1 DEF TakeHandler, Goto
        <3> QED BY <1>1, <1>2, <1>3, <2>2, <2>3, <3>2
    <2>4. CASE Head(queue) \in Readies
        <3>1. Head(queue)[1] # "op"
            BY <2>4, ElementKinds
        <3>2. op' = op /\ at' = [at EXCEPT ![t] = "io"]
            BY <2>1, <3>1 DEF TakeHandler, Goto
        <3> QED BY <1>1, <1>2, <1>3, <2>2, <2>4, <3>2
    <2> QED BY <1>3, <2>1, <2>3, <2>4, ElementKinds
<1> QED BY <1>4, <1>5

\* Return, by cases of where the thread goes.
LEMMA ReturnEffect ==
    ASSUME Types, NEW t \in Threads, Return(t)
    PROVE  /\ at[t] \in {"run", "cleanup"}
           /\ op' = [h \in Ops |-> IF job[t] = Completed(h) THEN "done" ELSE op[h]]
           /\ job' = [job EXCEPT ![t] = Task]
           /\ work' = work + credit[t] - 1
           /\ credit' = [credit EXCEPT ![t] = 0]
           /\ \/ credit[t] > 0 /\ at' = [at EXCEPT ![t] = "flush"]
              \/ /\ credit[t] = 0
                 /\ \E place \in {"finished", "loop"} : at' = [at EXCEPT ![t] = place]
           /\ UNCHANGED <<queueVars, stopped, wakeVars, events, ioVars, push, private>>
<1>1. /\ at[t] \in {"run", "cleanup"}
      /\ op' = [h \in Ops |-> IF job[t] = Completed(h) THEN "done" ELSE op[h]]
      /\ job' = [job EXCEPT ![t] = Task]
      /\ work' = work + credit[t] - 1
      /\ credit' = [credit EXCEPT ![t] = 0]
      /\ Goto(t, CASE credit[t] > 0 -> "flush"
                   [] credit[t] = 0 /\ work = 1 -> "finished"
                   [] OTHER -> "loop")
      /\ UNCHANGED <<queueVars, stopped, wakeVars, events, ioVars, push, private>>
    BY DEF Return
<1>2. credit[t] \in Nat
    BY DEF Types, OtherTypes
<1>3. CASE credit[t] > 0
    <2>1. ~ (credit[t] = 0)
        BY <1>2, <1>3
    <2>2. at' = [at EXCEPT ![t] = "flush"]
        BY <1>1, <1>3, <2>1 DEF Goto
    <2> QED BY <1>1, <1>3, <2>2
<1>4. CASE credit[t] = 0
    <2>1. ~ (credit[t] > 0)
        BY <1>4
    <2>2. CASE work = 1
        <3>1. at' = [at EXCEPT ![t] = "finished"]
            BY <1>1, <1>4, <2>1, <2>2 DEF Goto
        <3> QED BY <1>1, <1>4, <3>1
    <2>3. CASE work # 1
        <3>1. at' = [at EXCEPT ![t] = "loop"]
            BY <1>1, <1>4, <2>1, <2>3 DEF Goto
        <3> QED BY <1>1, <1>4, <3>1
    <2> QED BY <2>2, <2>3
<1> QED BY <1>2, <1>3, <1>4

LEMMA LocalNext ==
    ASSUME Types, Locals, Next, NEW s \in Threads
    PROVE  Local(s)'
<1> USE DEF Local, Goto, queueVars, wakeVars, ioVars, threadVars
<1>1. /\ Local(s) /\ at \in [Actors -> Locations] /\ job \in [Threads -> Elements]
      /\ credit \in [Threads -> Nat]
      /\ private \in [Threads -> Seq(Completions \cup Readies)]
      /\ User \notin Threads /\ Threads \subseteq Actors /\ Free \notin Threads
      /\ Task \notin Completions /\ Task \notin Readies
      /\ Completions \cap Readies = {}
    BY SomeTypes, ElementKinds, ServiceAssumption
       DEF Locals, Types, OtherTypes, ListTypes, Actors
<1>2. ASSUME at'[s] = at[s], job'[s] = job[s], private'[s] = private[s],
             credit'[s] = credit[s], mutex' = s => mutex = s
      PROVE  Local(s)'
    BY <1>1, <1>2
<1>3. ASSUME NEW t \in Threads, Quiet(t)
      PROVE  Local(s)'
    <2>1. CASE Enter(t) \/ StopService(t)
        BY <1>1, <2>1 DEF Enter, StopService
    <2>2. CASE Leave(t) \/ Wait(t)
        BY <1>1, <2>2 DEF Leave, Wait, Looping
    <2>3. CASE WaitAgain(t) \/ WakeSpuriously(t)
        BY <1>2, <2>3 DEF WaitAgain, WakeSpuriously
    <2>4. CASE PerformNothing(t)
        BY <1>1, <2>4 DEF PerformNothing
    <2>5. CASE Return(t)
        <3>1. CASE s # t
            BY <1>1, <1>2, <2>5, <3>1, ReturnEffect
        <3>2. CASE s = t
            <4>1. /\ at[s] \in {"run", "cleanup"} /\ job'[s] = Task
                  /\ credit'[s] = 0 /\ private'[s] = private[s] /\ mutex' = mutex
                  /\ \/ credit[s] > 0 /\ at'[s] = "flush"
                     \/ credit[s] = 0 /\ at'[s] \in {"finished", "loop"}
                BY <1>1, <2>5, <3>2, ReturnEffect
            <4>2. credit[s] = 0 => private[s] = <<>>
                BY <1>1, <4>1, EmptySeq
            <4>3. credit[s] > 0 => at[s] = "run"
                BY <1>1, <4>1
            <4> QED BY <1>1, <4>1, <4>2, <4>3
        <3> QED BY <3>1, <3>2
    <2> QED BY <1>3, <2>1, <2>2, <2>3, <2>4, <2>5 DEF Quiet
<1>4. ASSUME QuietElse
      PROVE  Local(s)'
    <2>1. ASSUME NEW t \in Actors, Shut(t)
          PROVE  Local(s)'
        <3>1. at[t] = "shut" /\ at' = [at EXCEPT ![t] = Outside(t)]
              /\ UNCHANGED <<mutex, job, private, credit>>
            BY <2>1, ShutEffect
        <3> QED BY <1>1, <3>1 DEF Outside
    <2> QED BY <1>2, <1>4, <2>1 DEF QuietElse, StartWaits, Stop, BecomeAble
<1>5. ASSUME NEW t \in Threads, PickTask(t) \/ PickHandler(t)
      PROVE  Local(s)'
    <2>1. at[t] \in {"loop", "wait"}
        BY <1>5, PickEffect DEF Looping
    <2>2. CASE s # t
        BY <1>1, <1>2, <1>5, <2>2, PickEffect
    <2>3. CASE s = t
        <3>1. /\ mutex' = Free /\ private'[s] = <<>> /\ credit'[s] = 0
              /\ job[s] \notin Completions
            BY <1>1, <1>5, <2>1, <2>3, PickEffect
        <3>2. \/ at'[s] \in {"poll", "block"} /\ job'[s] = job[s]
              \/ at'[s] = "run" /\ job'[s] \in Completions
              \/ at'[s] = "io" /\ job'[s] \in Readies
            BY <1>1, <1>5, <2>3, PickEffect, SMTT(20)
        <3>3. <<>> \in Seq(Completions) /\ Len(<<>>) = 0
            BY EmptySeq
        <3> QED BY <1>1, <3>1, <3>2, <3>3
    <2> QED BY <2>2, <2>3
<1>6. ASSUME NEW t \in Threads, Poll(t)
      PROVE  Local(s)'
    <2>1. PICK u \in Seq(Readies) : PollEffect(t, u)
        BY <1>6, PollEffects
    <2> QED BY <1>1, <2>1 DEF PollEffect
<1>7. ASSUME NEW t \in Threads, TaskCleanup(t) \/ Flush(t)
      PROVE  Local(s)'
    BY <1>1, <1>7 DEF TaskCleanup, Flush
<1>8. ASSUME NEW t \in Threads, PerformIo(t)
      PROVE  Local(s)'
    <2>1. PICK first \in Ops, u \in Seq(Completions) : PerformEffect(t, first, u)
        BY <1>8, PerformIoEffect
    <2>2. CASE s # t
        BY <1>1, <1>2, <2>1, <2>2 DEF PerformEffect
    <2>3. CASE s = t
        <3>1. /\ at[s] = "io" /\ at'[s] \in {"run", "push"}
              /\ job'[s] = Completed(first) /\ Completed(first) \in Completions
              /\ UNCHANGED <<private, credit, mutex>>
            BY <1>1, <2>1, <2>3, ElementFields DEF PerformEffect
        <3>2. <<>> \in Seq(Completions) /\ Len(<<>>) = 0
            BY EmptySeq
        <3> QED BY <1>1, <3>1, <3>2
    <2> QED BY <2>2, <2>3
<1>9. ASSUME NEW t \in Actors, Push(t)
      PROVE  Local(s)'
    BY <1>1, <1>9 DEF Push, Outside
<1>10. ASSUME NEW t \in Actors, NEW h \in Ops, NEW cont \in BOOLEAN,
              StartCompletes(t, h, cont)
       PROVE  Local(s)'
    <2>1. CASE cont /\ t # User /\ s = t
        <3>1. /\ at[s] = "run"
              /\ private' = [private EXCEPT ![t] = Append(@, Completed(h))]
              /\ credit' = [credit EXCEPT ![t] = @ + 1]
              /\ UNCHANGED <<at, job, mutex>>
            BY <1>10, <2>1 DEF StartCompletes, May, Outside
        <3>2. private'[s] = Append(private[s], Completed(h))
              /\ credit'[s] = credit[s] + 1
            BY <1>1, <2>1, <3>1
        <3>3. private[s] \in Seq(Completions) /\ Len(private[s]) = credit[s]
            BY <1>1, <3>1
        <3>4. Completed(h) \in Completions
            BY ElementFields
        <3>5. private'[s] \in Seq(Completions) /\ Len(private'[s]) = credit'[s]
            BY <3>2, <3>3, <3>4
        <3> QED BY <1>1, <3>1, <3>5
    <2>2. CASE cont /\ t # User /\ s # t
        BY <1>1, <1>2, <1>10, <2>2 DEF StartCompletes, Actors
    <2>3. CASE ~ (cont /\ t # User)
        <3>1. at' = [at EXCEPT ![t] = "push"] /\ UNCHANGED <<job, mutex, private, credit>>
              /\ at[t] = Outside(t)
            BY <1>10, <2>3 DEF StartCompletes, May
        <3> QED BY <1>1, <3>1 DEF Outside
    <2> QED BY <2>1, <2>2, <2>3
<1>11. ASSUME NEW t \in Actors, NEW d \in Descriptors, Close(t, d)
       PROVE  Local(s)'
    <2>1. PICK u \in Seq(Completions) : CloseEffect(t, d, u)
        BY <1>11, CloseEffects
    <2> QED BY <1>1, <2>1 DEF CloseEffect, Outside
<1> QED BY <1>3, <1>4, <1>5, <1>6, <1>7, <1>8, <1>9, <1>10, <1>11, Steps

LEMMA LocalsNext ==
    ASSUME Types, Locals, Next
    PROVE  Locals'
<1> USE DEF Goto, queueVars, wakeVars, ioVars, threadVars
<1>1. /\ at \in [Actors -> Locations]
      /\ push \in [Actors -> Seq(Completions)]
      /\ \A t \in Actors : at[t] # "push" => push[t] = <<>>
      /\ User \notin Threads /\ Threads \subseteq Actors
    BY SomeTypes DEF Locals, Types, OtherTypes, ListTypes, Actors
<1> DEFINE Fits == \A t \in Actors : at'[t] # "push" => push'[t] = <<>>
<1>2. ASSUME UNCHANGED push, NEW t \in Actors, at[t] # "push",
             \A s \in Actors : s # t => at'[s] = at[s]
      PROVE  Fits
    BY <1>1, <1>2
<1>3. ASSUME NEW t \in Threads, Quiet(t)
      PROVE  Fits
    <2>1. UNCHANGED push
        BY <1>3, QuietLists
    <2>2. at[t] # "push"
        BY <1>3 DEF Quiet, Enter, StopService, Leave, Wait, Looping, WaitAgain,
                    WakeSpuriously, PerformNothing, Return
    <2>3. \E place : at' = [at EXCEPT ![t] = place]
        <3>1. CASE WaitAgain(t) \/ WakeSpuriously(t)
            <4>1. at' = [at EXCEPT ![t] = at[t]]
                BY <1>1, <3>1 DEF WaitAgain, WakeSpuriously
            <4> QED BY <4>1
        <3>2. CASE Return(t)
            BY <3>2 DEF Return
        <3>3. CASE ~ (WaitAgain(t) \/ WakeSpuriously(t)) /\ ~ Return(t)
            BY <1>3, <3>3 DEF Quiet, Enter, StopService, Leave, Wait, PerformNothing
        <3> QED BY <3>1, <3>2, <3>3
    <2> QED BY <1>1, <1>2, <2>1, <2>2, <2>3
<1>4. ASSUME QuietElse
      PROVE  Fits
    BY <1>1, <1>4 DEF QuietElse, StartWaits, Stop, BecomeAble, Shut, Outside
<1>5. ASSUME NEW t \in Threads, PickTask(t) \/ PickHandler(t)
      PROVE  Fits
    <2>1. at[t] # "push"
        BY <1>5, PickEffect DEF Looping
    <2>2. UNCHANGED push /\ \E place : at' = [at EXCEPT ![t] = place]
        BY <1>5, PickEffect
    <2> QED BY <1>1, <1>2, <2>1, <2>2
<1>6. ASSUME NEW t \in Threads, Poll(t) \/ TaskCleanup(t) \/ Flush(t)
      PROVE  Fits
    BY <1>1, <1>6 DEF Poll, TaskCleanup, Flush
<1>7. ASSUME NEW t \in Threads, PerformIo(t)
      PROVE  Fits
    <2>1. PICK first \in Ops, u \in Seq(Completions) : PerformEffect(t, first, u)
        BY <1>7, PerformIoEffect
    <2>2. push' = [push EXCEPT ![t] = u]
          /\ at' = [at EXCEPT ![t] = IF u = <<>> THEN "run" ELSE "push"]
        BY <2>1 DEF PerformEffect
    <2> QED BY <1>1, <2>2
<1>8. ASSUME NEW t \in Actors, Push(t)
      PROVE  Fits
    BY <1>1, <1>8 DEF Push, Outside
<1>9. ASSUME NEW t \in Actors, NEW h \in Ops, NEW cont \in BOOLEAN,
             StartCompletes(t, h, cont)
      PROVE  Fits
    BY <1>1, <1>9 DEF StartCompletes
<1>10. ASSUME NEW t \in Actors, NEW d \in Descriptors, Close(t, d)
       PROVE  Fits
    <2>1. PICK u \in Seq(Completions) : CloseEffect(t, d, u)
        BY <1>10, CloseEffects
    <2>2. /\ push' = [push EXCEPT ![t] = u]
          /\ at' = [at EXCEPT ![t] = IF u = <<>> THEN "shut" ELSE "push"]
        BY <2>1 DEF CloseEffect
    <2> QED BY <1>1, <2>2
<1>11. Fits
    BY <1>3, <1>4, <1>5, <1>6, <1>7, <1>8, <1>9, <1>10, Steps
<1> QED BY <1>11, LocalNext DEF Locals

-----------------------------------------------------------------------------
(***************************************************************************)
(* The task exists once: at one thread or in the queue, and in the queue   *)
(* every descriptor is in front of it.                                     *)
(***************************************************************************)

Polls(t) == at[t] \in {"poll", "block", "polled"}

TaskLast(s) == \A i, j \in 1 .. Len(s) : s[i] = Task /\ s[j] \in Readies => j < i

\* A list without the task and without descriptors.
JustHandlers(s) == \A x : Holds(s, x) => \E h \in Ops : x = Completed(h)

OneTask ==
    /\ \A t, u \in Threads : Polls(t) /\ Polls(u) => t = u
    /\ (\E t \in Threads : Polls(t)) => JustHandlers(queue)
    /\ TaskLast(queue)

LEMMA HoldsElement ==
    ASSUME NEW s, NEW i \in 1 .. Len(s)
    PROVE  Holds(s, Key(s[i]))
BY DEF Holds

LEMMA CompletionsOnly ==
    ASSUME NEW s \in Seq(Completions)
    PROVE  JustHandlers(s)
<1>1. \A i \in 1 .. Len(s) : \E h \in Ops : Key(s[i]) = Completed(h)
    BY ElementOfSeq, ElementKinds, Keys
<1> QED BY <1>1 DEF JustHandlers, Holds

\* In such a list nothing is the task or a descriptor.
LEMMA NoTaskHere ==
    ASSUME NEW s, JustHandlers(s), NEW i \in 1 .. Len(s)
    PROVE  s[i] # Task /\ s[i] \notin Readies
<1>1. PICK h \in Ops : Key(s[i]) = Completed(h)
    BY HoldsElement DEF JustHandlers
<1>2. s[i] # Task
    BY <1>1, Keys
<1>3. s[i] \notin Readies
    BY <1>1, Keys, ElementKinds
<1> QED BY <1>2, <1>3

LEMMA TaskLastTail ==
    ASSUME NEW s \in Seq(Elements), s # <<>>, TaskLast(s)
    PROVE  /\ TaskLast(Tail(s))
           /\ \A i \in 1 .. Len(Tail(s)) : Head(s) = Task => Tail(s)[i] \notin Readies
<1>1. /\ Len(s) \in Nat /\ Len(s) >= 1
      /\ Len(Tail(s)) = Len(s) - 1
      /\ \A i \in 1 .. Len(s) - 1 : Tail(s)[i] = s[i + 1]
      /\ Head(s) = s[1]
    BY HeadTailProperties, EmptySeq, LenProperties
<1>2. \A i \in 1 .. Len(s) - 1 : i + 1 \in 1 .. Len(s)
    BY <1>1
<1>3. ASSUME NEW i \in 1 .. Len(s) - 1, NEW j \in 1 .. Len(s) - 1,
             Tail(s)[i] = Task, Tail(s)[j] \in Readies
      PROVE  j < i
    <2>1. j + 1 < i + 1
        BY <1>1, <1>2, <1>3 DEF TaskLast
    <2> QED BY <2>1
<1>4. ASSUME NEW i \in 1 .. Len(s) - 1, Head(s) = Task
      PROVE  Tail(s)[i] \notin Readies
    <2>1. 1 \in 1 .. Len(s)
        BY <1>1
    <2> QED BY <1>1, <1>2, <1>4, <2>1 DEF TaskLast
<1> QED BY <1>1, <1>3, <1>4 DEF TaskLast

\* Handlers can be added behind.
LEMMA TaskLastHandlers ==
    ASSUME NEW s \in Seq(Elements), NEW u \in Seq(Elements),
           TaskLast(s), JustHandlers(u)
    PROVE  TaskLast(s \o u)
<1>1. /\ Len(s) \in Nat /\ Len(u) \in Nat
      /\ Len(s \o u) = Len(s) + Len(u)
      /\ \A i \in 1 .. Len(s) + Len(u) :
           (s \o u)[i] = IF i <= Len(s) THEN s[i] ELSE u[i - Len(s)]
    BY ConcatProperties, LenProperties
<1>2. \A i \in 1 .. Len(s) + Len(u) : ~ (i <= Len(s)) =>
        i - Len(s) \in 1 .. Len(u)
    BY <1>1
<1>3. \A i \in 1 .. Len(s) + Len(u) : ~ (i <= Len(s)) =>
        (s \o u)[i] # Task /\ (s \o u)[i] \notin Readies
    BY <1>1, <1>2, NoTaskHere
<1>4. \A i \in 1 .. Len(s) + Len(u) : i <= Len(s) =>
        i \in 1 .. Len(s) /\ (s \o u)[i] = s[i]
    BY <1>1
<1> QED BY <1>1, <1>3, <1>4 DEF TaskLast

\* And so can the task.
LEMMA TaskLastTask ==
    ASSUME NEW s \in Seq(Elements), \A i \in 1 .. Len(s) : s[i] # Task
    PROVE  TaskLast(Append(s, Task))
<1>1. /\ Len(s) \in Nat /\ Len(Append(s, Task)) = Len(s) + 1
      /\ \A i \in 1 .. Len(s) : Append(s, Task)[i] = s[i]
      /\ Append(s, Task)[Len(s) + 1] = Task
    BY LenProperties, AppendProperties
<1>2. Task \notin Readies
    BY ElementKinds
<1>3. \A i \in 1 .. Len(s) + 1 : i \in 1 .. Len(s) \/ i = Len(s) + 1
    BY <1>1
<1>4. \A i \in 1 .. Len(s) : i < Len(s) + 1
    BY <1>1
<1> QED BY <1>1, <1>2, <1>3, <1>4 DEF TaskLast

LEMMA ReadiesOnly ==
    ASSUME NEW s \in Seq(Readies)
    PROVE  \A x : Holds(s, x) => \E d \in Descriptors : x = IoKey(d)
<1>1. \A i \in 1 .. Len(s) : \E d \in Descriptors : Key(s[i]) = IoKey(d)
    BY ElementOfSeq, ElementKinds, Keys
<1> QED BY <1>1 DEF Holds

LEMMA AppendHolds ==
    ASSUME NEW S, NEW s \in Seq(S), NEW e \in S
    PROVE  /\ \A x : Holds(Append(s, e), x) <=> Holds(s, x) \/ x = Key(e)
           /\ OnceIn(s) /\ ~ Holds(s, Key(e)) => OnceIn(Append(s, e))
<1>1. <<e>> \in Seq(S) /\ Append(s, e) = s \o <<e>>
    BY AppendIsConcat
<1>2. \A x : Holds(<<e>>, x) <=> x = Key(e)
    BY OneHeld
<1>3. OnceIn(<<e>>)
    BY OneHeld
<1>4. \A x : Holds(s \o <<e>>, x) <=> Holds(s, x) \/ Holds(<<e>>, x)
    BY <1>1, ConcatHolds
<1>5. OnceIn(s) /\ ~ Holds(s, Key(e)) => OnceIn(s \o <<e>>)
    BY <1>1, <1>2, <1>3, ConcatOnce
<1> QED BY <1>1, <1>2, <1>4, <1>5

-----------------------------------------------------------------------------
(***************************************************************************)
(* An operation that is ready is in one list, once, and one whose handler  *)
(* runs is the job of one thread.                                          *)
(***************************************************************************)

Queued(h) == Holds(queue, Completed(h))
Pushed(t, h) == Holds(push[t], Completed(h))
Kept(t, h) == Holds(private[t], Completed(h))
Runs(t, h) == job[t] = Completed(h)

OncePlaced(h) ==
    /\ Queued(h) => op[h] = "ready"
    /\ \A t \in Actors : Pushed(t, h) => op[h] = "ready" /\ ~ Queued(h)
    /\ \A t \in Threads : Kept(t, h) => op[h] = "ready" /\ ~ Queued(h)
    /\ \A t, u \in Actors : Pushed(t, h) /\ Pushed(u, h) => t = u
    /\ \A t, u \in Threads : Kept(t, h) /\ Kept(u, h) => t = u
    /\ \A t \in Actors, u \in Threads : ~ (Pushed(t, h) /\ Kept(u, h))
    /\ \A t \in Threads : Runs(t, h) => op[h] = "running"
    /\ \A t, u \in Threads : Runs(t, h) /\ Runs(u, h) => t = u

OnceLists ==
    /\ OnceIn(queue)
    /\ \A t \in Actors : OnceIn(push[t])
    /\ \A t \in Threads : OnceIn(private[t])

Once == OnceLists /\ OneTask /\ \A h \in Ops : OncePlaced(h)

\* Two lists of a step have nothing in common.
LEMMA Apart ==
    ASSUME Types, Once
    PROVE  /\ \A t \in Actors : \A x : ~ (Holds(queue, x) /\ Holds(push[t], x))
           /\ \A t \in Threads : private[t] \in Seq(Completions) =>
                \A x : ~ (Holds(queue, x) /\ Holds(private[t], x))
           /\ \A t \in Threads : Polls(t) /\ private[t] \in Seq(Readies) =>
                \A x : ~ (Holds(queue, x) /\ Holds(private[t], x))
<1>1. ASSUME NEW t \in Actors, NEW x, Holds(push[t], x)
      PROVE  ~ Holds(queue, x)
    <2>1. push[t] \in Seq(Completions)
        BY DEF Types, ListTypes
    <2>2. PICK h \in Ops : x = Completed(h)
        BY <1>1, <2>1, CompletionsOnly DEF JustHandlers
    <2> QED BY <1>1, <2>2 DEF Once, OncePlaced, Pushed, Queued
<1>2. ASSUME NEW t \in Threads, private[t] \in Seq(Completions), NEW x,
             Holds(private[t], x)
      PROVE  ~ Holds(queue, x)
    <2>1. PICK h \in Ops : x = Completed(h)
        BY <1>2, CompletionsOnly DEF JustHandlers
    <2> QED BY <1>2, <2>1 DEF Once, OncePlaced, Kept, Queued
<1>3. ASSUME NEW t \in Threads, Polls(t), private[t] \in Seq(Readies), NEW x,
             Holds(private[t], x)
      PROVE  ~ Holds(queue, x)
    <2>1. PICK d \in Descriptors : x = IoKey(d)
        BY <1>3, ReadiesOnly
    <2>2. JustHandlers(queue)
        BY <1>3 DEF Once, OneTask
    <2> QED BY <2>1, <2>2, Keys DEF JustHandlers
<1> QED BY <1>1, <1>2, <1>3

LEMMA PlacedUnchanged ==
    ASSUME NEW h \in Ops, OncePlaced(h),
           UNCHANGED <<queue, push, private, job>>,
           op[h] \in {"ready", "running"} => op'[h] = op[h]
    PROVE  OncePlaced(h)'
BY DEF OncePlaced, Queued, Pushed, Kept, Runs

LEMMA QuietPlaced ==
    ASSUME Types, Locals, Once, NEW h \in Ops,
           QuietElse \/ \E t \in Threads : Quiet(t)
    PROVE  OncePlaced(h)'
<1> USE DEF queueVars, wakeVars, ioVars, threadVars
<1>1. UNCHANGED <<queue, push, private>> /\ OncePlaced(h)
      /\ op \in [Ops -> States] /\ job \in [Threads -> Elements]
    BY QuietLists DEF Once, Types, OtherTypes
<1>2. ASSUME UNCHANGED <<op, job>>
      PROVE  OncePlaced(h)'
    BY <1>1, <1>2, PlacedUnchanged
<1>3. ASSUME NEW t \in Threads, Quiet(t)
      PROVE  OncePlaced(h)'
    <2>1. CASE ~ Return(t)
        BY <1>2, <1>3, <2>1 DEF Quiet, Enter, StopService, Leave, Wait, WaitAgain,
                                WakeSpuriously, PerformNothing
    <2>2. CASE Return(t)
        <3>1. /\ op'[h] = (IF Runs(t, h) THEN "done" ELSE op[h])
              /\ job' = [job EXCEPT ![t] = Task]
            BY <2>2, ReturnEffect DEF Runs
        <3>2. /\ \A s \in Threads : Runs(s, h)' <=> s # t /\ Runs(s, h)
            BY <1>1, <3>1, Keys DEF Runs
        <3>3. UNCHANGED <<Queued(h)>>
            BY <1>1 DEF Queued
        <3>4. \A s \in Actors : Pushed(s, h)' <=> Pushed(s, h)
            BY <1>1 DEF Pushed
        <3>5. \A s \in Threads : Kept(s, h)' <=> Kept(s, h)
            BY <1>1 DEF Kept
        <3> QED BY <1>1, <3>1, <3>2, <3>3, <3>4, <3>5 DEF OncePlaced
    <2> QED BY <2>1, <2>2
<1>4. ASSUME QuietElse
      PROVE  OncePlaced(h)'
    <2>1. ASSUME NEW t \in Actors, NEW g \in Ops, StartWaits(t, g)
          PROVE  OncePlaced(h)'
        <3>1. UNCHANGED job /\ op[g] = "none" /\ op' = [op EXCEPT ![g] = "pending"]
            BY <2>1 DEF StartWaits, May
        <3> QED BY <1>1, <3>1, PlacedUnchanged
    <2>2. CASE Stop \/ (\E g \in Ops : BecomeAble(g)) \/ \E t \in Actors : Shut(t)
        BY <1>2, <2>2 DEF Stop, BecomeAble, Shut
    <2> QED BY <1>4, <2>1, <2>2 DEF QuietElse
<1> QED BY <1>3, <1>4

LEMMA PlacedNext ==
    ASSUME Types, Locals, Once, Next, NEW h \in Ops
    PROVE  OncePlaced(h)'
<1> USE DEF queueVars, wakeVars, ioVars, threadVars
<1>1. /\ OncePlaced(h) /\ OnceIn(queue)
      /\ op \in [Ops -> States] /\ job \in [Threads -> Elements]
      /\ at \in [Actors -> Locations] /\ at[User] \in {"user", "push", "shut"}
      /\ queue \in Seq(Elements)
      /\ push \in [Actors -> Seq(Completions)]
      /\ private \in [Threads -> Seq(Completions \cup Readies)]
      /\ Actors = Threads \cup {User} /\ User \notin Threads
    BY SomeTypes DEF Once, OnceLists, Types, OtherTypes, ListTypes
<1>2. \A x : ~ Holds(<<>>, x)
    BY NothingHeld
<1>3. \A s \in Actors : at[s] # "push" => ~ Pushed(s, h)
    BY <1>2 DEF Locals, Pushed
<1>4. \A s \in Threads :
        /\ at[s] \notin {"run", "push", "shut", "flush", "polled"} => ~ Kept(s, h)
        /\ at[s] \notin {"run", "push", "shut"} => ~ Runs(s, h)
        /\ at[s] = "polled" => ~ Kept(s, h)
    <2> TAKE s \in Threads
    <2>1. Local(s) /\ Completed(h) \in Completions
        BY ElementFields DEF Locals
    <2>2. at[s] \notin {"run", "push", "shut", "flush", "polled"} => ~ Kept(s, h)
        BY <1>2, <2>1 DEF Local, Kept
    <2>3. at[s] \notin {"run", "push", "shut"} => ~ Runs(s, h)
        BY <2>1 DEF Local, Runs
    <2>4. at[s] = "polled" => ~ Kept(s, h)
        BY <2>1, ReadiesOnly, Keys DEF Local, Kept
    <2> QED BY <2>2, <2>3, <2>4
<1>5. ASSUME NEW t \in Threads, PickTask(t) \/ PickHandler(t)
      PROVE  OncePlaced(h)'
    <2>1. /\ queue # <<>> /\ queue' = Tail(queue) /\ UNCHANGED <<push, private>>
          /\ Looping(t)
        BY <1>5, PickEffect
    <2>2. /\ Queued(h) => Key(Head(queue)) = Completed(h) \/ Queued(h)'
          /\ Queued(h)' => Queued(h) /\ Key(Head(queue)) # Completed(h)
        BY <1>1, <2>1, TailHolds DEF Queued
    <2>3. Key(Head(queue)) = Completed(h) => Queued(h)
        BY <1>1, <2>1, TailHolds DEF Queued
    <2>4. (\A s \in Actors : Pushed(s, h)' <=> Pushed(s, h))
          /\ (\A s \in Threads : Kept(s, h)' <=> Kept(s, h))
        BY <2>1 DEF Pushed, Kept
    <2>5. ~ Runs(t, h)
        BY <1>4, <2>1 DEF Looping
    <2>6. CASE Head(queue) = Task \/ Head(queue) \in Readies
        <3>1. /\ Key(Head(queue)) # Completed(h) /\ Head(queue) # Completed(h)
            BY <2>6, Keys, ElementKinds, ElementFields
        <3>2. op' = op /\ (job' = job \/ job' = [job EXCEPT ![t] = Head(queue)])
            BY <1>5, <2>6, PickEffect, ElementKinds
        <3>3. \A s \in Threads : Runs(s, h)' <=> Runs(s, h)
            BY <1>1, <2>5, <3>1, <3>2 DEF Runs
        <3> QED BY <1>1, <2>2, <2>4, <3>1, <3>2, <3>3 DEF OncePlaced
    <2>7. CASE Head(queue) \in Completions
        <3>1. PICK g \in Ops : Head(queue) = Completed(g) /\ Head(queue)[2] = g
            BY <2>7, ElementKinds
        <3>2. /\ job' = [job EXCEPT ![t] = Completed(g)]
              /\ op' = [op EXCEPT ![g] = "running"]
            BY <1>5, <2>7, <3>1, PickEffect, ElementKinds
        <3>3. Key(Head(queue)) = Completed(g)
            BY <3>1, Keys
        <3>4. /\ \A s \in Threads : s # t => (Runs(s, h)' <=> Runs(s, h))
              /\ Runs(t, h)' <=> h = g
            BY <1>1, <3>2, Keys DEF Runs
        <3>5. CASE h = g
            <4>1. Queued(h) /\ ~ Queued(h)' /\ op'[h] = "running"
                BY <1>1, <2>2, <2>3, <3>2, <3>3, <3>5
            <4> QED BY <1>1, <2>4, <3>4, <3>5, <4>1 DEF OncePlaced
        <3>6. CASE h # g
            <4>1. Key(Head(queue)) # Completed(h) /\ op'[h] = op[h]
                BY <1>1, <3>2, <3>3, <3>6, Keys
            <4> QED BY <1>1, <2>2, <2>4, <2>5, <3>4, <3>6, <4>1 DEF OncePlaced
        <3> QED BY <3>5, <3>6
    <2> QED BY <1>5, <2>6, <2>7, PickEffect
<1>6. ASSUME NEW t \in Threads, Poll(t)
      PROVE  OncePlaced(h)'
    <2>1. PICK u \in Seq(Readies) : PollEffect(t, u)
        BY <1>6, PollEffects
    <2>2. ~ Holds(u, Completed(h))
        BY ReadiesOnly, Keys
    <2>3. /\ at[t] \in {"poll", "block"} /\ private' = [private EXCEPT ![t] = u]
          /\ UNCHANGED <<queue, push, op, job>>
        BY <2>1 DEF PollEffect
    <2>4. \A s \in Threads : Kept(s, h)' <=> Kept(s, h)
        BY <1>1, <1>4, <2>2, <2>3 DEF Kept
    <2> QED BY <1>1, <2>3, <2>4 DEF OncePlaced, Queued, Pushed, Runs
<1>7. ASSUME NEW t \in Threads, TaskCleanup(t)
      PROVE  OncePlaced(h)'
    <2>1. /\ at[t] = "polled" /\ queue' = Append(queue \o private[t], Task)
          /\ private' = [private EXCEPT ![t] = <<>>]
          /\ UNCHANGED <<push, op, job>>
        BY <1>7 DEF TaskCleanup
    <2>2. private[t] \in Seq(Elements)
        BY <1>1, SeqMonotonic, ElementKinds
    <2>3. queue \o private[t] \in Seq(Elements) /\ Task \in Elements
        BY <1>1, <2>2, ConcatProperties, ElementKinds
    <2>4. Queued(h)' <=> Queued(h)
        <3>1. Queued(h)' <=> Holds(queue \o private[t], Completed(h)) \/ Completed(h) = Key(Task)
            BY <2>1, <2>3, AppendHolds DEF Queued
        <3>2. Holds(queue \o private[t], Completed(h)) <=> Queued(h) \/ Kept(t, h)
            BY <1>1, <2>2, ConcatHolds DEF Queued, Kept
        <3> QED BY <1>4, <2>1, <3>1, <3>2, Keys
    <2>5. \A s \in Threads : Kept(s, h)' <=> Kept(s, h)
        BY <1>1, <1>2, <1>4, <2>1 DEF Kept
    <2> QED BY <1>1, <2>1, <2>4, <2>5 DEF OncePlaced, Pushed, Runs
<1>8. ASSUME NEW t \in Threads, PerformIo(t)
      PROVE  OncePlaced(h)'
    <2>1. PICK first \in Ops, u \in Seq(Completions) : PerformEffect(t, first, u)
        BY <1>8, PerformIoEffect
    <2>2. /\ at[t] = "io" /\ ~ Holds(u, Completed(first))
          /\ h = first \/ Holds(u, Completed(h)) => op[h] = "pending"
          /\ op'[h] = IF h = first THEN "running"
                      ELSE IF Holds(u, Completed(h)) THEN "ready" ELSE op[h]
          /\ job' = [job EXCEPT ![t] = Completed(first)]
          /\ push' = [push EXCEPT ![t] = u]
          /\ UNCHANGED <<queue, private>>
        BY <2>1 DEF PerformEffect
    <2>3. /\ \A s \in Threads : s # t => (Runs(s, h)' <=> Runs(s, h))
          /\ Runs(t, h)' <=> h = first
        BY <1>1, <2>2, Keys DEF Runs
    <2>4. /\ \A s \in Actors : s # t => (Pushed(s, h)' <=> Pushed(s, h))
          /\ Pushed(t, h)' <=> Holds(u, Completed(h))
        BY <1>1, <2>2 DEF Pushed
    <2>5. (Queued(h)' <=> Queued(h)) /\ \A s \in Threads : Kept(s, h)' <=> Kept(s, h)
        BY <2>2 DEF Queued, Kept
    <2>6. ~ Runs(t, h) /\ ~ Pushed(t, h)
        BY <1>1, <1>3, <1>4, <2>2
    <2>7. CASE h = first
        BY <1>1, <2>2, <2>3, <2>4, <2>5, <2>6, <2>7 DEF OncePlaced
    <2>8. CASE h # first /\ Holds(u, Completed(h))
        BY <1>1, <2>2, <2>3, <2>4, <2>5, <2>6, <2>8 DEF OncePlaced
    <2>9. CASE h # first /\ ~ Holds(u, Completed(h))
        <3>1. op'[h] = op[h] /\ \A s \in Threads : Runs(s, h)' => Runs(s, h)
            BY <2>2, <2>3, <2>9
        <3>2. \A s \in Actors : Pushed(s, h)' => Pushed(s, h)
            BY <2>4, <2>9
        <3> QED BY <1>1, <2>5, <3>1, <3>2 DEF OncePlaced
    <2> QED BY <2>7, <2>8, <2>9
<1>9. ASSUME NEW t \in Actors, Push(t)
      PROVE  OncePlaced(h)'
    <2>1. /\ queue' = queue \o push[t] /\ push' = [push EXCEPT ![t] = <<>>]
          /\ UNCHANGED <<private, op, job>>
        BY <1>9 DEF Push
    <2>2. push[t] \in Seq(Elements)
        BY <1>1, SeqMonotonic, ElementKinds
    <2>3. Queued(h)' <=> Queued(h) \/ Pushed(t, h)
        BY <1>1, <2>1, <2>2, ConcatHolds DEF Queued, Pushed
    <2>4. \A s \in Actors : Pushed(s, h)' <=> s # t /\ Pushed(s, h)
        BY <1>1, <1>2, <2>1 DEF Pushed
    <2>5. /\ \A s \in Threads : Kept(s, h)' <=> Kept(s, h)
          /\ \A s \in Threads : Runs(s, h)' <=> Runs(s, h)
        BY <2>1 DEF Kept, Runs
    <2> QED BY <1>1, <2>1, <2>3, <2>4, <2>5 DEF OncePlaced
<1>10. ASSUME NEW t \in Threads, Flush(t)
       PROVE  OncePlaced(h)'
    <2>1. /\ queue' = queue \o private[t] /\ private' = [private EXCEPT ![t] = <<>>]
          /\ UNCHANGED <<push, op, job>>
        BY <1>10 DEF Flush
    <2>2. private[t] \in Seq(Elements)
        BY <1>1, SeqMonotonic, ElementKinds
    <2>3. Queued(h)' <=> Queued(h) \/ Kept(t, h)
        BY <1>1, <2>1, <2>2, ConcatHolds DEF Queued, Kept
    <2>4. \A s \in Threads : Kept(s, h)' <=> s # t /\ Kept(s, h)
        BY <1>1, <1>2, <2>1 DEF Kept
    <2>5. /\ \A s \in Actors : Pushed(s, h)' <=> Pushed(s, h)
          /\ \A s \in Threads : Runs(s, h)' <=> Runs(s, h)
        BY <2>1 DEF Pushed, Runs
    <2> QED BY <1>1, <2>1, <2>3, <2>4, <2>5 DEF OncePlaced
<1>11. ASSUME NEW t \in Actors, NEW g \in Ops, NEW cont \in BOOLEAN,
              StartCompletes(t, g, cont)
       PROVE  OncePlaced(h)'
    <2>1. /\ op[g] = "none" /\ op' = [op EXCEPT ![g] = "ready"] /\ at[t] = Outside(t)
          /\ UNCHANGED <<queue, job>>
        BY <1>11 DEF StartCompletes, May
    <2>2. /\ (Queued(h)' <=> Queued(h)) /\ \A s \in Threads : Runs(s, h)' <=> Runs(s, h)
        BY <2>1 DEF Queued, Runs
    <2>3. Key(Completed(g)) = Completed(g) /\ (Completed(h) = Completed(g) <=> h = g)
          /\ Completed(g) \in Completions
        BY Keys, ElementFields
    <2>4. CASE cont /\ t # User
        <3>1. private' = [private EXCEPT ![t] = Append(@, Completed(g))]
              /\ t \in Threads /\ UNCHANGED push
            BY <1>1, <1>11, <2>4 DEF StartCompletes
        <3>2. Holds(Append(private[t], Completed(g)), Completed(h))
                <=> Kept(t, h) \/ h = g
            <4>1. private[t] \in Seq(Completions \cup Readies)
                  /\ Completed(g) \in Completions \cup Readies
                BY <1>1, <2>3, <3>1
            <4>2. \A x : Holds(Append(private[t], Completed(g)), x)
                           <=> Holds(private[t], x) \/ x = Key(Completed(g))
                BY <4>1, AppendHolds
            <4> QED BY <2>3, <4>2 DEF Kept
        <3>3. \A s \in Threads : Kept(s, h)' <=> Kept(s, h) \/ (s = t /\ h = g)
            BY <1>1, <3>1, <3>2 DEF Kept
        <3>4. \A s \in Actors : Pushed(s, h)' <=> Pushed(s, h)
            BY <3>1 DEF Pushed
        <3>5. CASE h = g
            BY <1>1, <2>1, <2>2, <3>3, <3>4, <3>5 DEF OncePlaced
        <3>6. CASE h # g
            BY <1>1, <2>1, <2>2, <3>3, <3>4, <3>6 DEF OncePlaced
        <3> QED BY <3>5, <3>6
    <2>5. CASE ~ (cont /\ t # User)
        <3>1. push' = [push EXCEPT ![t] = <<Completed(g)>>] /\ UNCHANGED private
            BY <1>11, <2>5 DEF StartCompletes
        <3>2. Holds(<<Completed(g)>>, Completed(h)) <=> h = g
            BY <2>3, OneHeld
        <3>3. ~ Pushed(t, h)
            BY <1>1, <1>3, <2>1 DEF Outside
        <3>4. \A s \in Actors : Pushed(s, h)' <=> Pushed(s, h) \/ (s = t /\ h = g)
            BY <1>1, <3>1, <3>2, <3>3 DEF Pushed
        <3>5. \A s \in Threads : Kept(s, h)' <=> Kept(s, h)
            BY <3>1 DEF Kept
        <3>6. CASE h = g
            BY <1>1, <2>1, <2>2, <3>4, <3>5, <3>6 DEF OncePlaced
        <3>7. CASE h # g
            BY <1>1, <2>1, <2>2, <3>4, <3>5, <3>7 DEF OncePlaced
        <3> QED BY <3>6, <3>7
    <2> QED BY <2>4, <2>5
<1>12. ASSUME NEW t \in Actors, NEW d \in Descriptors, Close(t, d)
       PROVE  OncePlaced(h)'
    <2>1. PICK u \in Seq(Completions) : CloseEffect(t, d, u)
        BY <1>12, CloseEffects
    <2>2. /\ at[t] = Outside(t)
          /\ Holds(u, Completed(h)) => op[h] = "pending"
          /\ op'[h] = IF Holds(u, Completed(h)) THEN "ready" ELSE op[h]
          /\ push' = [push EXCEPT ![t] = u]
          /\ UNCHANGED <<queue, private, job>>
        BY <2>1 DEF CloseEffect
    <2>3. ~ Pushed(t, h)
        BY <1>1, <1>3, <2>2 DEF Outside
    <2>4. /\ \A s \in Actors : s # t => (Pushed(s, h)' <=> Pushed(s, h))
          /\ Pushed(t, h)' <=> Holds(u, Completed(h))
        BY <1>1, <2>2 DEF Pushed
    <2>5. /\ Queued(h)' <=> Queued(h)
          /\ \A s \in Threads : Kept(s, h)' <=> Kept(s, h)
          /\ \A s \in Threads : Runs(s, h)' <=> Runs(s, h)
        BY <2>2 DEF Queued, Kept, Runs
    <2>6. CASE Holds(u, Completed(h))
        BY <1>1, <2>2, <2>3, <2>4, <2>5, <2>6 DEF OncePlaced
    <2>7. CASE ~ Holds(u, Completed(h))
        BY <1>1, <2>2, <2>3, <2>4, <2>5, <2>7 DEF OncePlaced
    <2> QED BY <2>6, <2>7
<1> QED BY <1>5, <1>6, <1>7, <1>8, <1>9, <1>10, <1>11, <1>12, Steps, QuietPlaced

LEMMA TaskNotHeld ==
    ASSUME NEW s, ~ Holds(s, Task)
    PROVE  \A i \in 1 .. Len(s) : s[i] # Task
BY Keys DEF Holds

LEMMA ListsNext ==
    ASSUME Types, Locals, Once, Next
    PROVE  OnceLists'
<1> USE DEF queueVars, wakeVars, ioVars, threadVars
<1>1. /\ OnceIn(queue)
      /\ \A t \in Actors : OnceIn(push[t])
      /\ \A t \in Threads : OnceIn(private[t])
      /\ queue \in Seq(Elements)
      /\ push \in [Actors -> Seq(Completions)]
      /\ private \in [Threads -> Seq(Completions \cup Readies)]
      /\ at \in [Actors -> Locations]
      /\ Actors = Threads \cup {User} /\ User \notin Threads
    BY SomeTypes DEF Once, OnceLists, Types, ListTypes, OtherTypes
<1>2. OnceIn(<<>>)
    BY NothingHeld
<1>3. \A t \in Actors : push[t] \in Seq(Elements)
    BY <1>1, SeqMonotonic, ElementKinds
<1>4. \A t \in Threads : private[t] \in Seq(Elements)
    BY <1>1, SeqMonotonic, ElementKinds
<1>5. ASSUME UNCHANGED <<queue, push, private>>
      PROVE  OnceLists'
    BY <1>1, <1>5 DEF OnceLists
<1>6. ASSUME NEW t \in Threads, PickTask(t) \/ PickHandler(t)
      PROVE  OnceLists'
    <2>1. queue # <<>> /\ queue' = Tail(queue) /\ UNCHANGED <<push, private>>
        BY <1>6, PickEffect
    <2>2. OnceIn(Tail(queue))
        BY <1>1, <2>1, TailHolds
    <2> QED BY <1>1, <2>1, <2>2 DEF OnceLists
<1>7. ASSUME NEW t \in Threads, Poll(t)
      PROVE  OnceLists'
    <2>1. PICK u \in Seq(Readies) : PollEffect(t, u)
        BY <1>7, PollEffects
    <2>2. OnceIn(u) /\ private' = [private EXCEPT ![t] = u] /\ UNCHANGED <<queue, push>>
        BY <2>1 DEF PollEffect
    <2> QED BY <1>1, <2>2 DEF OnceLists
<1>8. ASSUME NEW t \in Threads, TaskCleanup(t)
      PROVE  OnceLists'
    <2>1. /\ Polls(t) /\ queue' = Append(queue \o private[t], Task)
          /\ private' = [private EXCEPT ![t] = <<>>] /\ UNCHANGED push
        BY <1>8 DEF TaskCleanup, Polls
    <2>2. private[t] \in Seq(Readies)
        BY <1>8 DEF TaskCleanup, Locals, Local
    <2>3. OnceIn(queue \o private[t])
        BY <1>1, <1>4, <2>1, <2>2, Apart, ConcatOnce
    <2>4. queue \o private[t] \in Seq(Elements) /\ Task \in Elements
        BY <1>1, <1>4, ConcatProperties, ElementKinds
    <2>5. JustHandlers(queue)
        BY <2>1 DEF Once, OneTask
    <2>6. ~ Holds(queue \o private[t], Task)
        <3>1. ~ Holds(queue, Task)
            BY <2>5, Keys DEF JustHandlers
        <3>2. ~ Holds(private[t], Task)
            BY <2>2, ReadiesOnly, Keys
        <3> QED BY <1>1, <1>4, <3>1, <3>2, ConcatHolds
    <2>7. OnceIn(Append(queue \o private[t], Task))
        BY <2>3, <2>4, <2>6, AppendHolds, Keys
    <2> QED BY <1>1, <1>2, <2>1, <2>7 DEF OnceLists
<1>9. ASSUME NEW t \in Threads, PerformIo(t)
      PROVE  OnceLists'
    <2>1. PICK first \in Ops, u \in Seq(Completions) : PerformEffect(t, first, u)
        BY <1>9, PerformIoEffect
    <2>2. OnceIn(u) /\ push' = [push EXCEPT ![t] = u] /\ UNCHANGED <<queue, private>>
        BY <2>1 DEF PerformEffect
    <2> QED BY <1>1, <2>2 DEF OnceLists
<1>10. ASSUME NEW t \in Actors, Push(t)
       PROVE  OnceLists'
    <2>1. /\ queue' = queue \o push[t] /\ push' = [push EXCEPT ![t] = <<>>]
          /\ UNCHANGED private
        BY <1>10 DEF Push
    <2>2. OnceIn(queue \o push[t])
        BY <1>1, <1>3, Apart, ConcatOnce
    <2> QED BY <1>1, <1>2, <2>1, <2>2 DEF OnceLists
<1>11. ASSUME NEW t \in Threads, Flush(t)
       PROVE  OnceLists'
    <2>1. /\ queue' = queue \o private[t] /\ private' = [private EXCEPT ![t] = <<>>]
          /\ UNCHANGED push
        BY <1>11 DEF Flush
    <2>2. private[t] \in Seq(Completions)
        BY <1>11 DEF Flush, Locals, Local
    <2>3. OnceIn(queue \o private[t])
        BY <1>1, <1>4, <2>2, Apart, ConcatOnce
    <2> QED BY <1>1, <1>2, <2>1, <2>3 DEF OnceLists
<1>12. ASSUME NEW t \in Actors, NEW g \in Ops, NEW cont \in BOOLEAN,
              StartCompletes(t, g, cont)
       PROVE  OnceLists'
    <2>1. UNCHANGED queue /\ op[g] = "none"
        BY <1>12 DEF StartCompletes, May
    <2>2. Key(Completed(g)) = Completed(g) /\ Completed(g) \in Completions
        BY Keys, ElementFields
    <2>3. CASE cont /\ t # User
        <3>1. private' = [private EXCEPT ![t] = Append(@, Completed(g))]
              /\ t \in Threads /\ UNCHANGED push
            BY <1>1, <1>12, <2>3 DEF StartCompletes
        <3>2. ~ Holds(private[t], Key(Completed(g)))
            BY <2>1, <2>2, <3>1 DEF Once, OncePlaced, Kept
        <3>3. private[t] \in Seq(Completions \cup Readies) /\ OnceIn(private[t])
              /\ Completed(g) \in Completions \cup Readies
            BY <1>1, <2>2, <3>1
        <3>4. OnceIn(Append(private[t], Completed(g)))
            BY <3>2, <3>3, AppendHolds
        <3> QED BY <1>1, <2>1, <3>1, <3>4 DEF OnceLists
    <2>4. CASE ~ (cont /\ t # User)
        <3>1. push' = [push EXCEPT ![t] = <<Completed(g)>>] /\ UNCHANGED private
            BY <1>12, <2>4 DEF StartCompletes
        <3>2. OnceIn(<<Completed(g)>>)
            BY OneHeld
        <3> QED BY <1>1, <2>1, <3>1, <3>2 DEF OnceLists
    <2> QED BY <2>3, <2>4
<1>13. ASSUME NEW t \in Actors, NEW d \in Descriptors, Close(t, d)
       PROVE  OnceLists'
    <2>1. PICK u \in Seq(Completions) : CloseEffect(t, d, u)
        BY <1>13, CloseEffects
    <2>2. OnceIn(u) /\ push' = [push EXCEPT ![t] = u] /\ UNCHANGED <<queue, private>>
        BY <2>1 DEF CloseEffect
    <2> QED BY <1>1, <2>2 DEF OnceLists
<1> QED BY <1>5, <1>6, <1>7, <1>8, <1>9, <1>10, <1>11, <1>12, <1>13, Steps, QuietLists

LEMMA OneTaskNext ==
    ASSUME Types, Locals, Once, Next
    PROVE  OneTask'
<1> USE DEF queueVars, wakeVars, ioVars, threadVars
<1>1. /\ OneTask /\ OnceIn(queue)
      /\ queue \in Seq(Elements)
      /\ push \in [Actors -> Seq(Completions)]
      /\ private \in [Threads -> Seq(Completions \cup Readies)]
      /\ at \in [Actors -> Locations]
      /\ Actors = Threads \cup {User} /\ User \notin Threads
    BY SomeTypes DEF Once, OnceLists, Types, ListTypes, OtherTypes
<1>2. ASSUME UNCHANGED queue, \A t \in Threads : Polls(t)' => Polls(t)
      PROVE  OneTask'
    BY <1>1, <1>2 DEF OneTask
<1>3. ASSUME NEW t \in Threads, Quiet(t)
      PROVE  OneTask'
    <2>1. UNCHANGED queue
        BY <1>3, QuietLists
    <2>2. CASE Return(t)
        <3>1. \E place \in {"flush", "finished", "loop"} : at' = [at EXCEPT ![t] = place]
            BY <2>2, ReturnEffect
        <3> QED BY <1>1, <1>2, <2>1, <3>1 DEF Polls
    <2>3. CASE ~ Return(t)
        <3>1. \A s \in Threads : Polls(s)' => Polls(s)
            BY <1>1, <1>3, <2>3 DEF Quiet, Enter, StopService, Leave, Wait, WaitAgain,
                WakeSpuriously, PerformNothing, Goto, Polls
        <3> QED BY <1>2, <2>1, <3>1
    <2> QED BY <2>2, <2>3
<1>4. ASSUME QuietElse
      PROVE  OneTask'
    BY <1>1, <1>2, <1>4 DEF QuietElse, StartWaits, Stop, BecomeAble, Shut, Goto, Outside,
                           Polls
<1>5. ASSUME NEW t \in Threads, PickTask(t) \/ PickHandler(t)
      PROVE  OneTask'
    <2>1. /\ queue # <<>> /\ queue' = Tail(queue) /\ Looping(t)
          /\ Head(queue) \in Elements
        BY <1>5, PickEffect
    <2>2. /\ TaskLast(Tail(queue))
          /\ \A i \in 1 .. Len(Tail(queue)) : Head(queue) = Task => Tail(queue)[i] \notin Readies
        BY <1>1, <2>1, TaskLastTail DEF OneTask
    <2>3. /\ \A x : Holds(Tail(queue), x) => Holds(queue, x)
          /\ ~ Holds(Tail(queue), Key(Head(queue))) /\ Holds(queue, Key(Head(queue)))
        BY <1>1, <2>1, TailHolds
    <2>4. CASE Head(queue) # Task
        <3>1. \A s \in Threads : Polls(s)' => Polls(s)
            <4>1. \E place \in {"run", "io"} : at' = [at EXCEPT ![t] = place]
                BY <1>5, <2>4, PickEffect
            <4> QED BY <1>1, <4>1 DEF Polls
        <3>2. JustHandlers(queue) => JustHandlers(Tail(queue))
            BY <2>3 DEF JustHandlers
        <3> QED BY <1>1, <2>1, <2>2, <3>1, <3>2 DEF OneTask
    <2>5. CASE Head(queue) = Task
        <3>1. Key(Head(queue)) = Task /\ Holds(queue, Task)
            BY <2>3, <2>5, Keys
        <3>2. ~ JustHandlers(queue)
            BY <3>1, Keys DEF JustHandlers
        <3>3. \A s \in Threads : ~ Polls(s)
            BY <1>1, <3>2 DEF OneTask
        <3>4. \A s \in Threads : Polls(s)' => s = t
            <4>1. Task \notin Completions /\ Task \notin Readies
                BY ElementKinds
            <4>2. \E place \in {"poll", "block"} : at' = [at EXCEPT ![t] = place]
                BY <1>5, <2>5, <4>1, PickEffect
            <4> QED BY <1>1, <3>3, <4>2 DEF Polls
        <3>5. JustHandlers(Tail(queue))
            <4> SUFFICES ASSUME NEW i \in 1 .. Len(Tail(queue))
                         PROVE  \E h \in Ops : Key(Tail(queue)[i]) = Completed(h)
                BY DEF JustHandlers, Holds
            <4>1. Tail(queue)[i] \in Elements /\ Tail(queue)[i] \notin Readies
                BY <1>1, <2>1, <2>2, <2>5, HeadTailProperties, ElementOfSeq
            <4>2. Tail(queue)[i] # Task
                BY <2>3, <3>1, TaskNotHeld
            <4>3. Tail(queue)[i] \in Completions
                BY <4>1, <4>2, ElementKinds
            <4> QED BY <4>3, ElementKinds, Keys
        <3> QED BY <2>1, <2>2, <3>4, <3>5 DEF OneTask
    <2> QED BY <2>4, <2>5
<1>6. ASSUME NEW t \in Threads, Poll(t)
      PROVE  OneTask'
    <2>1. UNCHANGED queue /\ at[t] \in {"poll", "block"} /\ at' = [at EXCEPT ![t] = "polled"]
        BY <1>6 DEF Poll, Goto
    <2>2. \A s \in Threads : Polls(s)' => Polls(s)
        BY <1>1, <2>1 DEF Polls
    <2> QED BY <1>2, <2>1, <2>2
<1>7. ASSUME NEW t \in Threads, TaskCleanup(t)
      PROVE  OneTask'
    <2>1. /\ Polls(t) /\ queue' = Append(queue \o private[t], Task)
          /\ at' = [at EXCEPT ![t] = "loop"]
        BY <1>7 DEF TaskCleanup, Polls, Goto
    <2>2. private[t] \in Seq(Readies)
        BY <1>7 DEF TaskCleanup, Locals, Local
    <2>3. \A s \in Threads : ~ Polls(s)'
        BY <1>1, <2>1 DEF OneTask, Polls
    <2>4. JustHandlers(queue)
        BY <1>1, <2>1 DEF OneTask
    <2>5. private[t] \in Seq(Elements)
        BY <2>2, SeqMonotonic, ElementKinds
    <2>6. queue \o private[t] \in Seq(Elements)
        BY <1>1, <2>5, ConcatProperties
    <2>7. ~ Holds(queue \o private[t], Task)
        <3>1. ~ Holds(queue, Task)
            BY <2>4, Keys DEF JustHandlers
        <3>2. ~ Holds(private[t], Task)
            BY <2>2, ReadiesOnly, Keys
        <3> QED BY <1>1, <2>5, <3>1, <3>2, ConcatHolds
    <2>8. TaskLast(Append(queue \o private[t], Task))
        BY <2>6, <2>7, TaskLastTask, TaskNotHeld
    <2> QED BY <2>1, <2>3, <2>8 DEF OneTask
<1>8. ASSUME NEW t \in Threads, PerformIo(t)
      PROVE  OneTask'
    <2>1. PICK first \in Ops, u \in Seq(Completions) : PerformEffect(t, first, u)
        BY <1>8, PerformIoEffect
    <2>2. UNCHANGED queue /\ \E place \in {"run", "push"} : at' = [at EXCEPT ![t] = place]
        BY <2>1 DEF PerformEffect
    <2>3. \A s \in Threads : Polls(s)' => Polls(s)
        BY <1>1, <2>2 DEF Polls
    <2> QED BY <1>2, <2>2, <2>3
\* Handlers are added behind.
<1>9. ASSUME NEW u \in Seq(Completions), queue' = queue \o u,
             \A s \in Threads : Polls(s)' => Polls(s)
      PROVE  OneTask'
    <2>1. u \in Seq(Elements)
        BY SeqMonotonic, ElementKinds
    <2>2. JustHandlers(u)
        BY CompletionsOnly
    <2>3. JustHandlers(queue) => JustHandlers(queue \o u)
        BY <1>1, <2>1, <2>2, ConcatHolds DEF JustHandlers
    <2>4. TaskLast(queue \o u)
        BY <1>1, <2>1, <2>2, TaskLastHandlers DEF OneTask
    <2> QED BY <1>1, <1>9, <2>3, <2>4 DEF OneTask
<1>10. ASSUME NEW t \in Actors, Push(t)
       PROVE  OneTask'
    <2>1. queue' = queue \o push[t] /\ push[t] \in Seq(Completions)
        BY <1>1, <1>10 DEF Push
    <2>2. \A s \in Threads : Polls(s)' => Polls(s)
        BY <1>1, <1>10 DEF Push, Outside, Goto, Polls
    <2> QED BY <1>9, <2>1, <2>2
<1>11. ASSUME NEW t \in Threads, Flush(t)
       PROVE  OneTask'
    <2>1. queue' = queue \o private[t] /\ private[t] \in Seq(Completions)
        BY <1>11 DEF Flush, Locals, Local
    <2>2. \A s \in Threads : Polls(s)' => Polls(s)
        BY <1>1, <1>11 DEF Flush, Goto, Polls
    <2> QED BY <1>9, <2>1, <2>2
<1>12. ASSUME NEW t \in Actors, NEW g \in Ops, NEW cont \in BOOLEAN,
              StartCompletes(t, g, cont)
       PROVE  OneTask'
    <2>1. UNCHANGED queue /\ \A s \in Threads : Polls(s)' => Polls(s)
        BY <1>1, <1>12 DEF StartCompletes, Goto, Polls
    <2> QED BY <1>2, <2>1
<1>13. ASSUME NEW t \in Actors, NEW d \in Descriptors, Close(t, d)
       PROVE  OneTask'
    <2>1. UNCHANGED queue /\ \A s \in Threads : Polls(s)' => Polls(s)
        BY <1>1, <1>13 DEF Close, Goto, Polls
    <2> QED BY <1>2, <2>1
<1> QED BY <1>3, <1>4, <1>5, <1>6, <1>7, <1>8, <1>10, <1>11, <1>12, <1>13, Steps

LEMMA OnceNext ==
    ASSUME Types, Locals, Once, Next
    PROVE  Once'
BY ListsNext, OneTaskNext, PlacedNext DEF Once

-----------------------------------------------------------------------------
(***************************************************************************)
(* No wakeup is lost.                                                      *)
(***************************************************************************)

\* Asleep or as good as asleep: what wakes the thread is still to come.
Idle(t) ==
    \/ at[t] = "wait" /\ ~ (t \in woken /\ signalled)
    \/ at[t] = "block" /\ Interrupter \notin events

\* At the queue before it does anything that takes time.
Sure(t) ==
    \/ at[t] \in {"loop", "poll", "polled", "cleanup", "finished", "flush"}
    \/ at[t] \in {"wait", "block"} /\ ~ Idle(t)

SomeoneSure == queue # <<>> /\ (\E t \in Threads : Idle(t)) => \E t \in Threads : Sure(t)
StoppedWakesAll == stopped => \A t \in Threads : ~ Idle(t)
InterruptedOnce == \A t \in Threads : at[t] = "block" /\ interrupted => Interrupter \in events

Wakeful == SomeoneSure /\ StoppedWakesAll /\ InterruptedOnce

\* After stop_all_threads, and after the one that blocks has been interrupted,
\* it does not block.
LEMMA InterruptEffect ==
    ASSUME Wakeful, Interrupt, NEW t \in Threads, at[t] = "block"
    PROVE  Interrupter \in events'
BY DEF Wakeful, InterruptedOnce, Interrupt

LEMMA WakefulNext ==
    ASSUME Types, Locals, Once, Wakeful, Next
    PROVE  Wakeful'
<1> USE DEF queueVars, wakeVars, ioVars, threadVars
<1>1. /\ SomeoneSure /\ StoppedWakesAll /\ InterruptedOnce
      /\ at \in [Actors -> Locations]
      /\ stopped \in BOOLEAN /\ signalled \in BOOLEAN /\ interrupted \in BOOLEAN
      /\ \A s \in woken : s \in Threads /\ at[s] = "wait"
      /\ \A s, u \in Threads : Polls(s) /\ Polls(u) => s = u
      /\ Actors = Threads \cup {User} /\ User \notin Threads
      /\ Interrupter \notin Descriptors
      /\ \A h \in Ops : Descriptor[h] \in Descriptors
    BY SomeTypes DEF Wakeful, Once, OneTask, Types, WakeTypes, OtherTypes
\* Nobody falls asleep, and whoever is sure stays so.
<1>2. ASSUME queue' # <<>> => queue # <<>>, stopped' => stopped,
             \A s \in Threads : Idle(s)' => Idle(s),
             \A s \in Threads : Sure(s) => Sure(s)',
             \A s \in Threads : at'[s] = "block" => at[s] = "block",
             events \subseteq events' \/ (\A s \in Threads : at'[s] # "block")
               \/ (Interrupter \in events => Interrupter \in events'),
             interrupted' = interrupted
      PROVE  Wakeful'
    BY <1>1, <1>2 DEF Wakeful, SomeoneSure, StoppedWakesAll, InterruptedOnce
\* The thread that acts is sure, and nobody falls asleep.
<1>3. ASSUME NEW t \in Threads, Sure(t)', stopped' = stopped,
             \A s \in Threads : Idle(s)' => Idle(s),
             InterruptedOnce'
      PROVE  Wakeful'
    BY <1>1, <1>3 DEF Wakeful, SomeoneSure, StoppedWakesAll
\* Nobody sleeps.
<1>4. ASSUME \A s \in Threads : ~ Idle(s)', InterruptedOnce'
      PROVE  Wakeful'
    BY <1>4 DEF Wakeful, SomeoneSure, StoppedWakesAll
<1>5. ASSUME NEW t \in Actors, StopAll, at[t] # "block",
             at' = at \/ \E place \in {"left", "loop"} : at' = [at EXCEPT ![t] = place]
      PROVE  Wakeful'
    <2>1. /\ signalled' = TRUE /\ woken' = {s \in Threads : at[s] = "wait"}
          /\ Interrupt /\ interrupted' = TRUE
        BY <1>5 DEF StopAll, Interrupt
    <2>2. \A s \in Threads : at'[s] = "block" => at[s] = "block"
        BY <1>1, <1>5
    <2>3. \A s \in Threads : at'[s] = "wait" => at[s] = "wait"
        BY <1>1, <1>5
    <2>4. \A s \in Threads : at'[s] = "block" => Interrupter \in events'
        BY <2>1, <2>2, InterruptEffect
    <2>5. \A s \in Threads : ~ Idle(s)'
        BY <2>1, <2>3, <2>4 DEF Idle
    <2> QED BY <1>4, <2>4, <2>5 DEF InterruptedOnce
<1>6. ASSUME NEW t \in Threads, Quiet(t)
      PROVE  Wakeful'
    <2>1. UNCHANGED queue
        BY <1>6, QuietLists
    <2>2. CASE Enter(t)
        BY <1>1, <1>2, <2>1, <2>2 DEF Enter, Goto, Idle, Sure
    <2>3. CASE StopService(t)
        <3>1. StopAll /\ at[t] # "block" /\ t \in Actors
              /\ \E place \in {"left", "loop"} : at' = [at EXCEPT ![t] = place]
            BY <1>1, <2>3 DEF StopService, Goto
        <3> QED BY <1>5, <3>1
    <2>4. CASE Leave(t)
        <3>1. /\ stopped /\ signalled' = signalled /\ interrupted' = interrupted
              /\ events' = events /\ woken' = woken \ {t} /\ at' = [at EXCEPT ![t] = "left"]
            BY <2>4 DEF Leave, Goto
        <3>2. \A s \in Threads : ~ Idle(s)'
            BY <1>1, <3>1 DEF StoppedWakesAll, Idle
        <3>3. InterruptedOnce'
            BY <1>1, <3>1 DEF InterruptedOnce
        <3> QED BY <1>4, <3>2, <3>3
    <2>5. CASE Wait(t)
        <3>1. /\ ~ stopped /\ stopped' = stopped /\ queue' = <<>>
              /\ interrupted' = interrupted /\ events' = events
              /\ at' = [at EXCEPT ![t] = "wait"]
            BY <2>5 DEF Wait, Goto
        <3> QED BY <1>1, <3>1 DEF Wakeful, SomeoneSure, StoppedWakesAll, InterruptedOnce
    <2>6. CASE WakeSpuriously(t)
        BY <1>1, <1>2, <2>1, <2>6 DEF WakeSpuriously, Idle, Sure
    <2>7. CASE WaitAgain(t)
        BY <1>1, <1>2, <2>1, <2>7 DEF WaitAgain, Idle, Sure
    <2>8. CASE PerformNothing(t)
        <3>1. /\ at' = [at EXCEPT ![t] = "cleanup"]
              /\ UNCHANGED <<stopped, signalled, woken, interrupted, events>>
            BY <2>8 DEF PerformNothing, Goto
        <3>2. /\ \A s \in Threads : Idle(s)' => Idle(s)
              /\ Sure(t)'
            BY <1>1, <3>1 DEF Idle, Sure
        <3>3. InterruptedOnce'
            BY <1>1, <3>1 DEF InterruptedOnce
        <3> QED BY <1>3, <3>1, <3>2, <3>3
    <2>9. CASE Return(t)
        <3>1. /\ \E place \in {"flush", "finished", "loop"} : at' = [at EXCEPT ![t] = place]
              /\ UNCHANGED <<stopped, signalled, woken, interrupted, events>>
            BY <2>9, ReturnEffect
        <3>2. /\ \A s \in Threads : Idle(s)' => Idle(s)
              /\ Sure(t)'
            BY <1>1, <3>1 DEF Idle, Sure
        <3>3. InterruptedOnce'
            BY <1>1, <3>1 DEF InterruptedOnce
        <3> QED BY <1>3, <3>1, <3>2, <3>3
    <2> QED BY <1>6, <2>2, <2>3, <2>4, <2>5, <2>6, <2>7, <2>8, <2>9 DEF Quiet
<1>7. ASSUME QuietElse
      PROVE  Wakeful'
    <2>1. UNCHANGED queue
        BY <1>7, QuietLists
    <2>2. ASSUME NEW t \in Actors, NEW h \in Ops, StartWaits(t, h)
          PROVE  Wakeful'
        <3>1. /\ UNCHANGED <<stopped, signalled, woken, interrupted, at>>
              /\ events \subseteq events'
            BY <2>2 DEF StartWaits
        <3> QED BY <1>2, <2>1, <3>1 DEF Idle, Sure
    <2>3. ASSUME NEW h \in Ops, BecomeAble(h)
          PROVE  Wakeful'
        <3>1. /\ UNCHANGED <<stopped, signalled, woken, interrupted, at>>
              /\ events \subseteq events'
            BY <2>3 DEF BecomeAble
        <3> QED BY <1>2, <2>1, <3>1 DEF Idle, Sure
    <2>4. CASE Stop
        <3>1. StopAll /\ at[User] # "block" /\ User \in Actors /\ at' = at
            BY <1>1, <2>4 DEF Stop
        <3> QED BY <1>5, <3>1
    <2>5. ASSUME NEW t \in Actors, Shut(t)
          PROVE  Wakeful'
        <3>1. /\ UNCHANGED <<stopped, signalled, woken, interrupted>>
              /\ at[t] = "shut" /\ \E place \in {"user", "run"} : at' = [at EXCEPT ![t] = place]
            BY <2>5, ShutEffect DEF Outside
        <3>2. Interrupter \in events <=> Interrupter \in events'
            BY <1>1, <2>5, ShutEffect DEF Types, OtherTypes
        <3>3. \A s \in Threads : (Idle(s)' => Idle(s)) /\ (Sure(s) => Sure(s)')
            BY <1>1, <3>1, <3>2 DEF Idle, Sure
        <3>4. \A s \in Threads : at'[s] = "block" => at[s] = "block"
            BY <1>1, <3>1
        <3> QED BY <1>2, <2>1, <3>1, <3>2, <3>3, <3>4
    <2> QED BY <1>7, <2>2, <2>3, <2>4, <2>5 DEF QuietElse
\* Once one thread has been woken, somebody is sure or nobody sleeps.
<1>8. ASSUME NEW t \in Actors, WakeOne(t), stopped' = stopped, at[t] # "block",
             NEW place, place \notin {"wait", "block"}, at' = [at EXCEPT ![t] = place]
      PROVE  Wakeful'
    <2>1. /\ signalled' = TRUE
          /\ woken \ {t} \subseteq woken'
          /\ \A s \in woken' : s \in Threads /\ s # t /\ at[s] = "wait"
          /\ \/ (\E s \in woken' : TRUE) /\ UNCHANGED <<interrupted, events>>
             \/ Interrupt /\ \A s \in Threads : at[s] = "wait" => s = t
        BY <1>8, WakeOneEffect
    <2>2. \A s \in Threads : (at'[s] = "block" => at[s] = "block")
                               /\ (at'[s] = "wait" => at[s] = "wait" /\ s # t)
        BY <1>1, <1>8
    <2>3. CASE Interrupt /\ \A s \in Threads : at[s] = "wait" => s = t
        <3>1. \A s \in Threads : at'[s] = "block" => Interrupter \in events'
            BY <2>2, <2>3, InterruptEffect
        <3>2. \A s \in Threads : ~ Idle(s)'
            BY <2>2, <2>3, <3>1 DEF Idle
        <3> QED BY <1>4, <3>1, <3>2 DEF InterruptedOnce
    <2>4. CASE (\E s \in woken' : TRUE) /\ UNCHANGED <<interrupted, events>>
        <3>1. PICK s \in woken' : TRUE
            BY <2>4
        <3>2. s \in Threads /\ s # t /\ at[s] = "wait"
            BY <2>1, <3>1
        <3>3. at'[s] = "wait" /\ s \in woken' /\ signalled'
            BY <1>1, <1>8, <2>1, <3>1, <3>2
        <3>4. Sure(s)'
            BY <3>3 DEF Sure, Idle
        <3>5. \A u \in Threads : Idle(u)' => Idle(u)
            BY <2>1, <2>2, <2>4 DEF Idle
        <3>6. InterruptedOnce'
            BY <1>1, <2>2, <2>4 DEF InterruptedOnce
        <3> QED BY <1>3, <1>8, <3>2, <3>4, <3>5, <3>6
    <2> QED BY <2>1, <2>3, <2>4
\* The queue is empty when the last element has been taken.
<1>9. ASSUME queue # <<>>, ~ More
      PROVE  Tail(queue) = <<>>
    <2>1. queue \in Seq(Elements)
        BY DEF Types, ListTypes
    <2>2. Len(queue) \in Nat /\ Len(queue) # 0 /\ ~ (Len(queue) > 1)
        BY <1>9, <2>1, EmptySeq, LenProperties DEF More
    <2>3. Tail(queue) \in Seq(Elements) /\ Len(Tail(queue)) = 0
        <3>1. Len(queue) = 1
            BY <2>2
        <3>2. Tail(queue) \in Seq(Elements) /\ Len(Tail(queue)) = Len(queue) - 1
            BY <1>9, <2>1, HeadTailProperties
        <3> QED BY <3>1, <3>2
    <2> QED BY <2>3, EmptySeq
<1>10. ASSUME NEW t \in Threads, PickTask(t)
       PROVE  Wakeful'
    <2>1. /\ Looping(t) /\ ~ stopped /\ stopped' = stopped /\ queue # <<>>
          /\ queue' = Tail(queue) /\ events' = events /\ interrupted' = More
          /\ at' = [at EXCEPT ![t] = IF More THEN "poll" ELSE "block"]
        BY <1>10 DEF PickTask, Pop, Goto
    <2>2. \A s \in Threads : ~ Polls(s)
        <3>1. Head(queue) = Task /\ queue \in Seq(Elements)
            BY <1>10 DEF PickTask, Types, ListTypes
        <3>2. Holds(queue, Task)
            BY <2>1, <3>1, TailHolds, Keys
        <3>3. ~ JustHandlers(queue)
            BY <3>2, Keys DEF JustHandlers
        <3> QED BY <3>3 DEF Once, OneTask
    <2>3. CASE More
        <3>1. signalled' = TRUE /\ at' = [at EXCEPT ![t] = "poll"] /\ SignalOne(t)
            BY <1>10, <2>1, <2>3 DEF PickTask
        <3>2. woken \ {t} \subseteq woken'
            BY <3>1, SignalOneEffect
        <3>3. /\ \A s \in Threads : Idle(s)' => Idle(s)
              /\ Sure(t)'
            BY <1>1, <2>1, <3>1, <3>2 DEF Idle, Sure
        <3>4. InterruptedOnce'
            BY <1>1, <2>2, <3>1 DEF InterruptedOnce, Polls
        <3> QED BY <1>3, <2>1, <3>3, <3>4
    <2>4. CASE ~ More
        <3>1. queue' = <<>> /\ ~ interrupted'
            BY <1>9, <2>1, <2>4
        <3> QED BY <2>1, <3>1 DEF Wakeful, SomeoneSure, StoppedWakesAll, InterruptedOnce
    <2> QED BY <2>3, <2>4
<1>11. ASSUME NEW t \in Threads, PickHandler(t)
       PROVE  Wakeful'
    <2>1. /\ Looping(t) /\ ~ stopped /\ stopped' = stopped /\ queue # <<>>
          /\ queue' = Tail(queue)
          /\ \E place \in {"run", "io"} : at' = [at EXCEPT ![t] = place]
        BY <1>11 DEF PickHandler, Pop, TakeHandler, Goto
    <2>2. CASE More
        <3>1. WakeOne(t)
            BY <1>11, <2>2 DEF PickHandler
        <3>2. at[t] # "block" /\ t \in Actors
            BY <1>1, <2>1 DEF Looping
        <3> QED BY <1>8, <2>1, <3>1, <3>2
    <2>3. CASE ~ More
        <3>1. queue' = <<>> /\ UNCHANGED <<interrupted, events>>
            BY <1>9, <1>11, <2>1, <2>3 DEF PickHandler, WakeNobody
        <3>2. InterruptedOnce'
            BY <1>1, <2>1, <3>1 DEF InterruptedOnce
        <3> QED BY <2>1, <3>1, <3>2 DEF Wakeful, SomeoneSure, StoppedWakesAll
    <2> QED BY <2>2, <2>3
<1>12. ASSUME NEW t \in Threads, Poll(t)
       PROVE  Wakeful'
    <2>1. /\ UNCHANGED <<queue, stopped, signalled, woken, interrupted>>
          /\ at[t] \in {"poll", "block"} /\ at' = [at EXCEPT ![t] = "polled"]
        BY <1>12 DEF Poll, Goto
    <2>2. \A s \in Threads : at'[s] # "block"
        BY <1>1, <2>1 DEF Polls
    <2>3. /\ \A s \in Threads : Idle(s)' => Idle(s)
          /\ Sure(t)'
        BY <1>1, <2>1, <2>2 DEF Idle, Sure
    <2> QED BY <1>3, <2>1, <2>2, <2>3 DEF InterruptedOnce
<1>13. ASSUME NEW t \in Threads, TaskCleanup(t)
       PROVE  Wakeful'
    <2>1. /\ UNCHANGED <<stopped, signalled, woken, events>>
          /\ at[t] = "polled" /\ at' = [at EXCEPT ![t] = "loop"]
        BY <1>13 DEF TaskCleanup, Goto
    <2>2. \A s \in Threads : at'[s] # "block"
        BY <1>1, <2>1 DEF Polls
    <2>3. /\ \A s \in Threads : Idle(s)' => Idle(s)
          /\ Sure(t)'
        BY <1>1, <2>1 DEF Idle, Sure
    <2> QED BY <1>3, <2>1, <2>2, <2>3 DEF InterruptedOnce
<1>14. ASSUME NEW t \in Threads, Flush(t)
       PROVE  Wakeful'
    <2>1. /\ UNCHANGED <<stopped, signalled, woken, interrupted, events>>
          /\ at' = [at EXCEPT ![t] = "loop"]
        BY <1>14 DEF Flush, Goto
    <2>2. /\ \A s \in Threads : Idle(s)' => Idle(s)
          /\ Sure(t)'
        BY <1>1, <2>1 DEF Idle, Sure
    <2>3. InterruptedOnce'
        BY <1>1, <2>1 DEF InterruptedOnce
    <2> QED BY <1>3, <2>1, <2>2, <2>3
<1>15. ASSUME NEW t \in Threads, PerformIo(t)
       PROVE  Wakeful'
    <2>1. PICK first \in Ops, u \in Seq(Completions) : PerformEffect(t, first, u)
        BY <1>15, PerformIoEffect
    <2>2. /\ UNCHANGED <<queue, stopped, signalled, woken, interrupted, events>>
          /\ at[t] = "io"
          /\ \E place \in {"run", "push"} : at' = [at EXCEPT ![t] = place]
        BY <2>1 DEF PerformEffect
    <2>3. \A s \in Threads : (Idle(s)' => Idle(s)) /\ (Sure(s) => Sure(s)')
        BY <1>1, <2>2 DEF Idle, Sure
    <2> QED BY <1>1, <1>2, <2>2, <2>3
<1>16. ASSUME NEW t \in Actors, Push(t)
       PROVE  Wakeful'
    <2>1. /\ at[t] = "push" /\ WakeOne(t) /\ stopped' = stopped
          /\ \E place \in {"user", "run", "shut"} : at' = [at EXCEPT ![t] = place]
        BY <1>16 DEF Push, Outside, Goto
    <2> QED BY <1>8, <2>1
<1>17. ASSUME NEW t \in Actors, NEW h \in Ops, NEW cont \in BOOLEAN,
              StartCompletes(t, h, cont)
       PROVE  Wakeful'
    <2>1. /\ UNCHANGED <<queue, stopped, signalled, woken, interrupted, events>>
          /\ at[t] \in {"user", "run"}
          /\ at' = at \/ at' = [at EXCEPT ![t] = "push"]
        BY <1>17 DEF StartCompletes, May, Outside, Goto
    <2>2. \A s \in Threads : (Idle(s)' => Idle(s)) /\ (Sure(s) => Sure(s)')
        BY <1>1, <2>1 DEF Idle, Sure
    <2> QED BY <1>1, <1>2, <2>1, <2>2
<1>18. ASSUME NEW t \in Actors, NEW d \in Descriptors, Close(t, d)
       PROVE  Wakeful'
    <2>1. /\ UNCHANGED <<queue, stopped, signalled, woken, interrupted, events>>
          /\ at[t] \in {"user", "run"}
          /\ \E place \in {"shut", "push"} : at' = [at EXCEPT ![t] = place]
        BY <1>18 DEF Close, Outside, Goto
    <2>2. \A s \in Threads : (Idle(s)' => Idle(s)) /\ (Sure(s) => Sure(s)')
        BY <1>1, <2>1 DEF Idle, Sure
    <2> QED BY <1>1, <1>2, <2>1, <2>2
<1> QED BY <1>6, <1>7, <1>10, <1>11, <1>12, <1>13, <1>14, <1>15, <1>16, <1>17, <1>18,
           Steps

-----------------------------------------------------------------------------
(***************************************************************************)
(* No event of epoll is lost.                                              *)
(***************************************************************************)

Names(e, h) == e[1] = "io" /\ e[2] = Descriptor[h] /\ h \in e[3]
NamedIn(s, h) == \E i \in 1 .. Len(s) : Names(s[i], h)

\* An event that is still to come, or an element of the queue that names h and
\* has not been worked on.
Expected(h) ==
    \/ Descriptor[h] \in events
    \/ NamedIn(queue, h)
    \/ \E t \in Threads : NamedIn(private[t], h)
    \/ \E t \in Threads : at[t] = "io" /\ Names(job[t], h)

Awaited == \A h \in Ops : op[h] = "pending" /\ h \in able => Expected(h)

\* A descriptor that has been closed has nothing waiting.
ClosedIsQuiet == \A h \in Ops : op[h] = "pending" => Descriptor[h] \notin closed

LEMMA ConcatNames ==
    ASSUME NEW S, NEW s \in Seq(S), NEW u \in Seq(S), NEW h
    PROVE  NamedIn(s, h) \/ NamedIn(u, h) => NamedIn(s \o u, h)
<1>1. /\ Len(s) \in Nat /\ Len(u) \in Nat
      /\ Len(s \o u) = Len(s) + Len(u)
      /\ \A i \in 1 .. Len(s) + Len(u) :
           (s \o u)[i] = IF i <= Len(s) THEN s[i] ELSE u[i - Len(s)]
    BY ConcatProperties, LenProperties
<1>2. ASSUME NEW i \in 1 .. Len(s), Names(s[i], h)
      PROVE  NamedIn(s \o u, h)
    <2>1. i \in 1 .. Len(s) + Len(u) /\ (s \o u)[i] = s[i]
        BY <1>1
    <2> QED BY <1>1, <1>2, <2>1 DEF NamedIn
<1>3. ASSUME NEW i \in 1 .. Len(u), Names(u[i], h)
      PROVE  NamedIn(s \o u, h)
    <2>1. Len(s) + i \in 1 .. Len(s) + Len(u) /\ (s \o u)[Len(s) + i] = u[i]
        BY <1>1
    <2> QED BY <1>1, <1>3, <2>1 DEF NamedIn
<1> QED BY <1>2, <1>3 DEF NamedIn

LEMMA TailNames ==
    ASSUME NEW S, NEW s \in Seq(S), s # <<>>, NEW h, NamedIn(s, h)
    PROVE  Names(Head(s), h) \/ NamedIn(Tail(s), h)
<1>1. /\ Len(s) \in Nat /\ Len(s) >= 1
      /\ Len(Tail(s)) = Len(s) - 1
      /\ \A i \in 1 .. Len(s) - 1 : Tail(s)[i] = s[i + 1]
      /\ Head(s) = s[1]
    BY HeadTailProperties, EmptySeq, LenProperties
<1>2. PICK i \in 1 .. Len(s) : Names(s[i], h)
    BY DEF NamedIn
<1>3. CASE i = 1
    BY <1>1, <1>2, <1>3
<1>4. CASE i # 1
    <2>1. i - 1 \in 1 .. Len(s) - 1 /\ (i - 1) + 1 = i
        BY <1>1, <1>4
    <2>2. Names(Tail(s)[i - 1], h)
        BY <1>1, <1>2, <2>1
    <2> QED BY <1>1, <2>1, <2>2 DEF NamedIn
<1> QED BY <1>3, <1>4

LEMMA ClosedNext ==
    ASSUME Types, ClosedIsQuiet, Next
    PROVE  ClosedIsQuiet'
<1> USE DEF queueVars, wakeVars, ioVars, threadVars
<1>1. op \in [Ops -> States]
    BY DEF Types, OtherTypes
<1> SUFFICES ASSUME NEW h \in Ops, op'[h] = "pending"
             PROVE  Descriptor[h] \notin closed'
    BY DEF ClosedIsQuiet
<1>2. ASSUME closed' = closed, op[h] = "pending"
      PROVE  Descriptor[h] \notin closed'
    BY <1>2 DEF ClosedIsQuiet
<1>3. ASSUME NEW t \in Threads, Quiet(t)
      PROVE  Descriptor[h] \notin closed'
    <2>1. CASE Return(t)
        <3>1. closed' = closed /\ op[h] = "pending"
            BY <2>1, ReturnEffect
        <3> QED BY <1>2, <3>1
    <2>2. CASE ~ Return(t)
        BY <1>2, <1>3, <2>2 DEF Quiet, Enter, StopService, Leave, Wait, WaitAgain,
                                WakeSpuriously, PerformNothing
    <2> QED BY <2>1, <2>2
<1>4. ASSUME QuietElse
      PROVE  Descriptor[h] \notin closed'
    <2>1. ASSUME NEW t \in Actors, NEW g \in Ops, StartWaits(t, g)
          PROVE  Descriptor[h] \notin closed'
        <3>1. /\ closed' = closed /\ Descriptor[g] \notin closed
              /\ op' = [op EXCEPT ![g] = "pending"]
            BY <2>1 DEF StartWaits
        <3> QED BY <1>1, <1>2, <3>1
    <2>2. CASE Stop \/ (\E g \in Ops : BecomeAble(g)) \/ \E t \in Actors : Shut(t)
        BY <1>2, <2>2 DEF Stop, BecomeAble, Shut
    <2> QED BY <1>4, <2>1, <2>2 DEF QuietElse
<1>5. ASSUME NEW t \in Threads, PickTask(t) \/ PickHandler(t)
      PROVE  Descriptor[h] \notin closed'
    <2>1. closed' = closed /\ (op' = op \/ op' = [op EXCEPT ![Head(queue)[2]] = "running"])
        BY <1>5, PickEffect
    <2> QED BY <1>1, <1>2, <2>1
<1>6. ASSUME NEW t \in Actors, Push(t)
      PROVE  Descriptor[h] \notin closed'
    BY <1>2, <1>6 DEF Push
<1>7. ASSUME NEW t \in Threads, Poll(t) \/ TaskCleanup(t) \/ Flush(t)
      PROVE  Descriptor[h] \notin closed'
    BY <1>2, <1>7 DEF Poll, TaskCleanup, Flush
<1>8. ASSUME NEW t \in Threads, PerformIo(t)
      PROVE  Descriptor[h] \notin closed'
    <2>1. PICK first \in Ops, u \in Seq(Completions) : PerformEffect(t, first, u)
        BY <1>8, PerformIoEffect
    <2>2. closed' = closed /\ op[h] = "pending"
        BY <2>1 DEF PerformEffect
    <2> QED BY <1>2, <2>2
<1>9. ASSUME NEW t \in Actors, NEW g \in Ops, NEW cont \in BOOLEAN,
             StartCompletes(t, g, cont)
      PROVE  Descriptor[h] \notin closed'
    <2>1. closed' = closed /\ op' = [op EXCEPT ![g] = "ready"]
        BY <1>9 DEF StartCompletes
    <2> QED BY <1>1, <1>2, <2>1
<1>10. ASSUME NEW t \in Actors, NEW d \in Descriptors, Close(t, d)
       PROVE  Descriptor[h] \notin closed'
    <2>1. PICK u \in Seq(Completions) : CloseEffect(t, d, u)
        BY <1>10, CloseEffects
    <2>2. /\ op[h] = "pending" /\ ~ Holds(u, Completed(h)) /\ closed' = closed \cup {d}
        BY <2>1 DEF CloseEffect
    <2>3. h \notin OpsOf(d)
        BY <2>1, <2>2 DEF CloseEffect
    <2> QED BY <2>2, <2>3 DEF OpsOf, ClosedIsQuiet
<1> QED BY <1>3, <1>4, <1>5, <1>6, <1>7, <1>8, <1>9, <1>10, Steps

LEMMA AwaitedNext ==
    ASSUME Types, Locals, ClosedIsQuiet, Awaited, Next
    PROVE  Awaited'
<1> USE DEF queueVars, wakeVars, ioVars, threadVars
<1> SUFFICES ASSUME NEW h \in Ops, op'[h] = "pending", h \in able'
             PROVE  Expected(h)'
    BY DEF Awaited
<1>1. /\ op \in [Ops -> States] /\ at \in [Actors -> Locations]
      /\ job \in [Threads -> Elements]
      /\ queue \in Seq(Elements)
      /\ push \in [Actors -> Seq(Completions)]
      /\ private \in [Threads -> Seq(Completions \cup Readies)]
      /\ Actors = Threads \cup {User} /\ User \notin Threads
      /\ Descriptor[h] \in Descriptors /\ Interrupter \notin Descriptors
    BY SomeTypes DEF Types, OtherTypes, ListTypes
<1>2. op[h] = "pending" /\ h \in able => Expected(h)
    BY DEF Awaited
<1>3. ASSUME Expected(h), Descriptor[h] \in events => Descriptor[h] \in events',
             NamedIn(queue, h) => NamedIn(queue, h)',
             \A s \in Threads : NamedIn(private[s], h) => NamedIn(private[s], h)',
             \A s \in Threads : at[s] = "io" /\ Names(job[s], h)
                                  => (at[s] = "io" /\ Names(job[s], h))'
      PROVE  Expected(h)'
    BY <1>3 DEF Expected
<1>4. ASSUME Expected(h), events \subseteq events', UNCHANGED <<queue, private, job>>,
             NEW t \in Actors, at[t] # "io", \A s \in Actors : s # t => at'[s] = at[s]
      PROVE  Expected(h)'
    BY <1>1, <1>3, <1>4
<1>5. ASSUME Interrupt
      PROVE  events \subseteq events'
    BY <1>5 DEF Interrupt
<1>6. ~ NamedIn(<<>>, h)
    BY DEF NamedIn
<1>7. ASSUME NEW t \in Threads, Quiet(t)
      PROVE  Expected(h)'
    <2>1. UNCHANGED <<queue, private>>
        BY <1>7, QuietLists
    <2>2. CASE Enter(t) \/ Leave(t) \/ Wait(t) \/ WaitAgain(t) \/ WakeSpuriously(t)
        <3>1. /\ UNCHANGED <<op, able, job, events>> /\ at[t] # "io"
            BY <2>2 DEF Enter, Leave, Wait, WaitAgain, WakeSpuriously, Looping
        <3>2. \A s \in Actors : s # t => at'[s] = at[s]
            BY <1>1, <2>2 DEF Enter, Leave, Wait, WaitAgain, WakeSpuriously, Goto
        <3> QED BY <1>1, <1>2, <1>4, <2>1, <3>1, <3>2
    <2>3. CASE StopService(t)
        <3>1. /\ UNCHANGED <<op, able, job>> /\ at[t] # "io" /\ events \subseteq events'
            BY <1>5, <2>3 DEF StopService, StopAll
        <3>2. \A s \in Actors : s # t => at'[s] = at[s]
            BY <1>1, <2>3 DEF StopService, Goto
        <3> QED BY <1>1, <1>2, <1>4, <2>1, <3>1, <3>2
    <2>4. CASE PerformNothing(t)
        <3>1. /\ at[t] = "io" /\ Performed(job[t][2], job[t][3]) = <<>>
              /\ at' = [at EXCEPT ![t] = "cleanup"]
              /\ UNCHANGED <<op, able, job, events>>
            BY <2>4 DEF PerformNothing, Goto
        <3>2. h \notin {g \in OpsOf(job[t][2]) \cap job[t][3] : op[g] = "pending"}
            BY <3>1, PerformedSeq
        <3>3. ~ Names(job[t], h)
            BY <3>1, <3>2 DEF Names, OpsOf
        <3>4. \A s \in Threads : at[s] = "io" /\ Names(job[s], h) => at'[s] = "io"
            BY <1>1, <3>1, <3>3
        <3> QED BY <1>2, <1>3, <2>1, <3>1, <3>4
    <2>5. CASE Return(t)
        <3>1. /\ at[t] # "io" /\ UNCHANGED <<able, events>>
              /\ op'[h] # op[h] => op'[h] = "done"
              /\ job' = [job EXCEPT ![t] = Task]
              /\ \E place : at' = [at EXCEPT ![t] = place]
            BY <2>5, ReturnEffect
        <3>2. op[h] = "pending" /\ h \in able
            BY <3>1
        <3>3. \A s \in Threads : at[s] = "io" => at'[s] = "io" /\ job'[s] = job[s]
            BY <1>1, <3>1
        <3> QED BY <1>2, <1>3, <2>1, <3>1, <3>2, <3>3
    <2> QED BY <1>7, <2>2, <2>3, <2>4, <2>5 DEF Quiet
<1>8. ASSUME QuietElse
      PROVE  Expected(h)'
    <2>1. UNCHANGED <<queue, private>>
        BY <1>8, QuietLists
    <2>2. ASSUME NEW t \in Actors, NEW g \in Ops, StartWaits(t, g)
          PROVE  Expected(h)'
        <3>1. /\ op[g] = "none" /\ op' = [op EXCEPT ![g] = "pending"]
              /\ ~ (g \in able /\ Speculative(g))
              /\ events' = IF Kind[g] # "read" /\ Possible(Descriptor[g]) # {}
                           THEN events \cup {Descriptor[g]} ELSE events
              /\ UNCHANGED <<able, job, at>>
            BY <2>2 DEF StartWaits, May
        <3>2. CASE h = g
            <4>1. Kind[g] = "accept"
                BY <3>1, <3>2 DEF Speculative
            <4>2. g \in Possible(Descriptor[g])
                BY <3>1, <3>2 DEF Possible, OpsOf
            <4>3. Descriptor[h] \in events'
                BY <3>1, <3>2, <4>1, <4>2
            <4> QED BY <4>3 DEF Expected
        <3>3. CASE h # g
            <4>1. op[h] = "pending" /\ h \in able /\ events \subseteq events'
                BY <1>1, <3>1, <3>3
            <4> QED BY <1>2, <1>3, <2>1, <3>1, <4>1
        <3> QED BY <3>2, <3>3
    <2>3. CASE Stop
        <3>1. UNCHANGED <<op, able, job, at>> /\ events \subseteq events'
            BY <1>5, <2>3 DEF Stop, StopAll
        <3> QED BY <1>2, <1>3, <2>1, <3>1
    <2>4. ASSUME NEW g \in Ops, BecomeAble(g)
          PROVE  Expected(h)'
        <3>1. /\ able' = able \cup {g} /\ UNCHANGED <<op, job, at>>
              /\ events' = IF Kind[g] # "write" \/ op[g] # "none"
                           THEN events \cup {Descriptor[g]} ELSE events
            BY <2>4 DEF BecomeAble
        <3>2. CASE h = g
            BY <3>1, <3>2 DEF Expected
        <3>3. CASE h # g
            BY <1>2, <1>3, <2>1, <3>1, <3>3
        <3> QED BY <3>2, <3>3
    <2>5. ASSUME NEW t \in Actors, Shut(t)
          PROVE  Expected(h)'
        <3>1. /\ at[t] = "shut" /\ \E place : at' = [at EXCEPT ![t] = place]
              /\ UNCHANGED <<op, able, job>>
            BY <2>5, ShutEffect
        <3>2. Descriptor[h] \notin closed
            BY <3>1 DEF ClosedIsQuiet
        <3>3. Descriptor[h] \in events => Descriptor[h] \in events'
            BY <2>5, <3>2, ShutEffect
        <3>4. \A s \in Threads : at[s] = "io" => at'[s] = "io"
            BY <1>1, <3>1
        <3> QED BY <1>2, <1>3, <2>1, <3>1, <3>3, <3>4
    <2> QED BY <1>8, <2>2, <2>3, <2>4, <2>5 DEF QuietElse
<1>9. ASSUME NEW t \in Threads, PickTask(t) \/ PickHandler(t)
      PROVE  Expected(h)'
    <2>1. /\ Looping(t) /\ queue # <<>> /\ queue' = Tail(queue)
          /\ UNCHANGED <<able, private>>
          /\ events \subseteq events'
        <3>1. events \subseteq events'
            <4>1. CASE PickTask(t)
                BY <4>1 DEF PickTask
            <4>2. CASE PickHandler(t)
                BY <1>5, <4>2 DEF PickHandler, WakeOne, WakeNobody
            <4> QED BY <1>9, <4>1, <4>2
        <3> QED BY <1>9, <3>1, PickEffect
    <2>2. at[t] # "io"
        BY <2>1 DEF Looping
    <2>3. NamedIn(queue, h) => Names(Head(queue), h) \/ NamedIn(queue, h)'
        BY <1>1, <2>1, TailNames
    <2>4. \A s \in Threads : at[s] = "io" => at'[s] = "io" /\ job'[s] = job[s]
        <3>1. (job' = job \/ job' = [job EXCEPT ![t] = Head(queue)])
              /\ \E place : at' = [at EXCEPT ![t] = place]
            BY <1>9, PickEffect
        <3> QED BY <1>1, <2>2, <3>1
    <2>5. op[h] = "pending" /\ h \in able
        <3>1. op' = op \/ op' = [op EXCEPT ![Head(queue)[2]] = "running"]
            BY <1>9, PickEffect
        <3> QED BY <1>1, <2>1, <3>1
    <2>6. CASE Names(Head(queue), h)
        <3>1. Head(queue) # Task /\ Head(queue) \notin Completions
            BY <2>6, ElementFields, ElementKinds DEF Names
        <3>2. job'[t] = Head(queue) /\ at'[t] = "io"
            BY <1>1, <1>9, <3>1, PickEffect
        <3> QED BY <2>6, <3>2 DEF Expected
    <2>7. CASE ~ Names(Head(queue), h)
        BY <1>2, <1>3, <2>1, <2>3, <2>4, <2>5, <2>7
    <2> QED BY <2>6, <2>7
<1>10. ASSUME NEW t \in Threads, Poll(t)
       PROVE  Expected(h)'
    <2>1. PICK u \in Seq(Readies) : PollEffect(t, u)
        BY <1>10, PollEffects
    <2>2. /\ at[t] \in {"poll", "block"} /\ private' = [private EXCEPT ![t] = u]
          /\ at' = [at EXCEPT ![t] = "polled"]
          /\ UNCHANGED <<queue, able, op, job>>
        BY <2>1 DEF PollEffect
    <2>3. private[t] = <<>>
        BY <2>2 DEF Locals, Local
    <2>4. \A s \in Threads : NamedIn(private[s], h) => NamedIn(private[s], h)'
        BY <1>1, <1>6, <2>2, <2>3
    <2>5. \A s \in Threads : at[s] = "io" => at'[s] = "io"
        BY <1>1, <2>2
    <2>6. CASE Descriptor[h] \in events
        <3>1. PICK k \in 1 .. Len(u) :
                u[k] = Io(Descriptor[h], able \cap OpsOf(Descriptor[h]))
            BY <1>1, <2>1, <2>6 DEF PollEffect
        <3>2. h \in able \cap OpsOf(Descriptor[h])
            BY <2>2 DEF OpsOf
        <3>3. Names(u[k], h)
            BY <3>1, <3>2, ElementFields DEF Names
        <3>4. NamedIn(private[t], h)'
            BY <1>1, <2>2, <3>3 DEF NamedIn
        <3> QED BY <3>4 DEF Expected
    <2>7. CASE Descriptor[h] \notin events
        BY <1>2, <1>3, <2>2, <2>4, <2>5, <2>7
    <2> QED BY <2>6, <2>7
<1>11. ASSUME NEW t \in Threads, TaskCleanup(t) \/ Flush(t)
       PROVE  Expected(h)'
    <2>1. /\ at[t] # "io" /\ at' = [at EXCEPT ![t] = "loop"]
          /\ private' = [private EXCEPT ![t] = <<>>]
          /\ UNCHANGED <<op, able, events, job>>
          /\ \/ queue' = queue \o private[t]
             \/ queue' = (queue \o private[t]) \o <<Task>>
        <3>1. /\ at[t] # "io" /\ at' = [at EXCEPT ![t] = "loop"]
              /\ private' = [private EXCEPT ![t] = <<>>]
              /\ UNCHANGED <<op, able, events, job>>
              /\ \/ queue' = queue \o private[t]
                 \/ queue' = Append(queue \o private[t], Task)
            BY <1>11 DEF TaskCleanup, Flush, Goto
        <3>2. private[t] \in Seq(Elements)
            BY <1>1, SeqMonotonic, ElementKinds
        <3>3. queue \o private[t] \in Seq(Elements) /\ Task \in Elements
            BY <1>1, <3>2, ConcatProperties, ElementKinds
        <3>4. Append(queue \o private[t], Task) = (queue \o private[t]) \o <<Task>>
            BY <3>3, AppendIsConcat
        <3> QED BY <3>1, <3>4
    <2>2. private[t] \in Seq(Elements) /\ <<Task>> \in Seq(Elements)
        BY <1>1, SeqMonotonic, ElementKinds
    <2>3. queue \o private[t] \in Seq(Elements)
        BY <1>1, <2>2, ConcatProperties
    <2>4. NamedIn(queue, h) \/ NamedIn(private[t], h) => NamedIn(queue \o private[t], h)
        BY <1>1, <2>2, ConcatNames
    <2>5. NamedIn(queue \o private[t], h) => NamedIn((queue \o private[t]) \o <<Task>>, h)
        BY <2>2, <2>3, ConcatNames
    <2>6. NamedIn(queue, h) \/ NamedIn(private[t], h) => NamedIn(queue, h)'
        BY <2>1, <2>4, <2>5
    <2>7. \A s \in Threads : s # t => private'[s] = private[s]
        BY <1>1, <2>1
    <2>8. \A s \in Threads : at[s] = "io" => at'[s] = "io"
        BY <1>1, <2>1
    <2> QED BY <1>2, <2>1, <2>6, <2>7, <2>8 DEF Expected
<1>12. ASSUME NEW t \in Threads, PerformIo(t)
       PROVE  Expected(h)'
    <2>1. PICK first \in Ops, u \in Seq(Completions) : PerformEffect(t, first, u)
        BY <1>12, PerformIoEffect
    <2>2. /\ at[t] = "io" /\ UNCHANGED <<queue, private, able, events>>
          /\ job' = [job EXCEPT ![t] = Completed(first)]
          /\ \E place : at' = [at EXCEPT ![t] = place]
          /\ h # first /\ ~ Holds(u, Completed(h)) /\ op[h] = "pending"
        BY <2>1 DEF PerformEffect
    <2>3. ~ Names(job[t], h)
        BY <2>1, <2>2 DEF PerformEffect, Names, OpsOf
    <2>4. \A s \in Threads : at[s] = "io" /\ Names(job[s], h)
                               => at'[s] = "io" /\ job'[s] = job[s]
        BY <1>1, <2>2, <2>3
    <2> QED BY <1>2, <1>3, <2>2, <2>4
<1>13. ASSUME NEW t \in Actors, Push(t)
       PROVE  Expected(h)'
    <2>1. /\ at[t] = "push" /\ queue' = queue \o push[t] /\ events \subseteq events'
          /\ \E place : at' = [at EXCEPT ![t] = place]
          /\ UNCHANGED <<private, op, able, job>>
        BY <1>5, <1>13 DEF Push, WakeOne, Goto
    <2>2. push[t] \in Seq(Elements)
        BY <1>1, SeqMonotonic, ElementKinds
    <2>3. NamedIn(queue, h) => NamedIn(queue, h)'
        BY <1>1, <2>1, <2>2, ConcatNames
    <2>4. \A s \in Threads : at[s] = "io" => at'[s] = "io"
        BY <1>1, <2>1
    <2> QED BY <1>2, <1>3, <2>1, <2>3, <2>4
<1>14. ASSUME NEW t \in Actors, NEW g \in Ops, NEW cont \in BOOLEAN,
              StartCompletes(t, g, cont)
       PROVE  Expected(h)'
    <2>1. /\ UNCHANGED <<queue, events, able, job>> /\ op' = [op EXCEPT ![g] = "ready"]
          /\ at[t] # "io"
          /\ at' = at \/ at' = [at EXCEPT ![t] = "push"]
        BY <1>14 DEF StartCompletes, May, Outside, Goto
    <2>2. op[h] = "pending" /\ h \in able
        BY <1>1, <2>1
    <2>3. \A s \in Threads : at[s] = "io" => at'[s] = "io"
        BY <1>1, <2>1
    <2>4. \A s \in Threads : NamedIn(private[s], h) => NamedIn(private[s], h)'
        <3>1. CASE UNCHANGED private
            BY <3>1
        <3>2. CASE t # User /\ private' = [private EXCEPT ![t] = Append(@, Completed(g))]
            <4>1. Completed(g) \in Completions \cup Readies
                BY ElementFields
            <4>2. \A s \in Threads : Append(private[s], Completed(g))
                                       = private[s] \o <<Completed(g)>>
                BY <1>1, <4>1, AppendIsConcat
            <4>3. \A s \in Threads : NamedIn(private[s], h)
                                       => NamedIn(private[s] \o <<Completed(g)>>, h)
                <5> DEFINE S == Completions \cup Readies
                <5>1. /\ \A s \in Threads : private[s] \in Seq(S)
                      /\ <<Completed(g)>> \in Seq(S)
                    BY <1>1, <4>1
                <5> HIDE DEF S
                <5> QED BY <5>1, ConcatNames
            <4>4. \A s \in Threads : private'[s] = private[s]
                                       \/ private'[s] = Append(private[s], Completed(g))
                BY <1>1, <3>2
            <4> QED BY <4>2, <4>3, <4>4
        <3> QED BY <1>14, <3>1, <3>2 DEF StartCompletes
    <2> QED BY <1>2, <1>3, <2>1, <2>2, <2>3, <2>4
<1>15. ASSUME NEW t \in Actors, NEW d \in Descriptors, Close(t, d)
       PROVE  Expected(h)'
    <2>1. PICK u \in Seq(Completions) : CloseEffect(t, d, u)
        BY <1>15, CloseEffects
    <2>2. /\ UNCHANGED <<queue, private, events, able, job>>
          /\ op[h] = "pending"
          /\ at[t] # "io"
          /\ \E place : at' = [at EXCEPT ![t] = place]
        BY <2>1 DEF CloseEffect, Outside
    <2>3. \A s \in Threads : at[s] = "io" => at'[s] = "io"
        BY <1>1, <2>2
    <2> QED BY <1>2, <1>3, <2>2, <2>3
<1> QED BY <1>7, <1>8, <1>9, <1>10, <1>11, <1>12, <1>13, <1>14, <1>15, Steps

-----------------------------------------------------------------------------
(***************************************************************************)
(* The count of outstanding work.                                          *)
(***************************************************************************)

Live == {h \in Ops : op[h] \in {"pending", "ready", "running"}}
Cleaning == {t \in Threads : at[t] = "cleanup"}

Counted ==
    /\ IsFiniteSet(Uncounted)
    /\ work + Cardinality(Uncounted) = Cardinality(Live) + Cardinality(Cleaning)

LEMMA UncountedElements ==
    \A x : x \in Uncounted <=> \E t \in Threads : \E k \in 1 .. credit[t] : x = <<t, k>>
BY DEF Uncounted

LEMMA CountTypes ==
    /\ IsFiniteSet(Live) /\ Cardinality(Live) \in Nat
    /\ IsFiniteSet(Cleaning) /\ Cardinality(Cleaning) \in Nat
    /\ IsFiniteSet(Live') /\ IsFiniteSet(Cleaning')
    /\ Live \subseteq Ops /\ Live' \subseteq Ops
<1>1. /\ Live \subseteq Ops /\ Cleaning \subseteq Threads
      /\ Live' \subseteq Ops /\ Cleaning' \subseteq Threads
    BY DEF Live, Cleaning
<1>2. IsFiniteSet(Ops) /\ IsFiniteSet(Threads)
    BY ServiceAssumption
<1> HIDE DEF Live, Cleaning
<1>3. /\ IsFiniteSet(Live) /\ IsFiniteSet(Cleaning)
      /\ IsFiniteSet(Live') /\ IsFiniteSet(Cleaning')
    <2> DEFINE L2 == Live'
               C2 == Cleaning'
    <2> HIDE DEF L2, C2
    <2>1. L2 \subseteq Ops /\ C2 \subseteq Threads
        BY <1>1 DEF L2, C2
    <2>2. IsFiniteSet(L2) /\ IsFiniteSet(C2)
        BY <1>2, <2>1, FS_Subset
    <2>3. IsFiniteSet(Live) /\ IsFiniteSet(Cleaning)
        BY <1>1, <1>2, FS_Subset
    <2> QED BY <2>2, <2>3 DEF L2, C2
<1> QED BY <1>1, <1>3, FS_CardinalityType

\* How the sets whose elements are counted change, and the count with them.
LEMMA CountChanges ==
    ASSUME NEW L, NEW C, NEW U, NEW L2, NEW C2, NEW U2, NEW w \in Int, NEW w2,
           IsFiniteSet(L), IsFiniteSet(C), IsFiniteSet(U),
           w + Cardinality(U) = Cardinality(L) + Cardinality(C),
           \/ L2 = L /\ C2 = C /\ U2 = U /\ w2 = w
           \/ \E h : h \notin L /\ L2 = L \cup {h} /\ C2 = C /\ U2 = U /\ w2 = w + 1
           \/ \E h, x : /\ h \notin L /\ L2 = L \cup {h} /\ C2 = C
                        /\ x \notin U /\ U2 = U \cup {x} /\ w2 = w
           \/ \E t : t \notin C /\ C2 = C \cup {t} /\ L2 = L /\ U2 = U /\ w2 = w + 1
           \/ \E t : t \in C /\ C2 = C \ {t} /\ L2 = L /\ U2 = U /\ w2 = w - 1
    PROVE  IsFiniteSet(U2) /\ w2 + Cardinality(U2) = Cardinality(L2) + Cardinality(C2)
<1>1. Cardinality(L) \in Nat /\ Cardinality(C) \in Nat /\ Cardinality(U) \in Nat
    BY FS_CardinalityType
<1>2. CASE L2 = L /\ C2 = C /\ U2 = U /\ w2 = w
    BY <1>2
<1>3. CASE \E h : h \notin L /\ L2 = L \cup {h} /\ C2 = C /\ U2 = U /\ w2 = w + 1
    <2>1. PICK h : h \notin L /\ L2 = L \cup {h} /\ C2 = C /\ U2 = U /\ w2 = w + 1
        BY <1>3
    <2>2. Cardinality(L2) = Cardinality(L) + 1
        BY <2>1, FS_AddElement
    <2> QED BY <1>1, <2>1, <2>2
<1>4. CASE \E h, x : /\ h \notin L /\ L2 = L \cup {h} /\ C2 = C
                     /\ x \notin U /\ U2 = U \cup {x} /\ w2 = w
    <2>1. PICK h, x : /\ h \notin L /\ L2 = L \cup {h} /\ C2 = C
                      /\ x \notin U /\ U2 = U \cup {x} /\ w2 = w
        BY <1>4
    <2>2. Cardinality(L2) = Cardinality(L) + 1
        BY <2>1, FS_AddElement
    <2>3. IsFiniteSet(U2) /\ Cardinality(U2) = Cardinality(U) + 1
        BY <2>1, FS_AddElement
    <2> QED BY <1>1, <2>1, <2>2, <2>3
<1>5. CASE \E t : t \notin C /\ C2 = C \cup {t} /\ L2 = L /\ U2 = U /\ w2 = w + 1
    <2>1. PICK t : t \notin C /\ C2 = C \cup {t} /\ L2 = L /\ U2 = U /\ w2 = w + 1
        BY <1>5
    <2>2. Cardinality(C2) = Cardinality(C) + 1
        BY <2>1, FS_AddElement
    <2> QED BY <1>1, <2>1, <2>2
<1>6. CASE \E t : t \in C /\ C2 = C \ {t} /\ L2 = L /\ U2 = U /\ w2 = w - 1
    <2>1. PICK t : t \in C /\ C2 = C \ {t} /\ L2 = L /\ U2 = U /\ w2 = w - 1
        BY <1>6
    <2>2. Cardinality(C2) = Cardinality(C) - 1
        BY <2>1, FS_RemoveElement
    <2> QED BY <1>1, <2>1, <2>2
<1> QED BY <1>2, <1>3, <1>4, <1>5, <1>6

\* work_cleanup counts what a handler has left in the private queue.
LEMMA CountsPrivate ==
    ASSUME NEW t, NEW n \in Nat
    PROVE  Cardinality({t} \X (1 .. n)) = n
<1>1. IsFiniteSet(1 .. n) /\ Cardinality(1 .. n) = n
    BY FS_Interval
<1>2. IsFiniteSet({t}) /\ Cardinality({t}) = 1
    BY FS_Singleton
<1> DEFINE I == 1 .. n
           T == {t}
<1>3. IsFiniteSet(T) /\ IsFiniteSet(I) /\ Cardinality(T) = 1 /\ Cardinality(I) = n
    BY <1>1, <1>2
<1> HIDE DEF I, T
<1>4. Cardinality(T \X I) = Cardinality(T) * Cardinality(I)
    BY <1>3, FS_Product
<1>5. Cardinality(T \X I) = n
    BY <1>3, <1>4
<1> QED BY <1>5 DEF I, T

LEMMA CountedNext ==
    ASSUME Types, Locals, Once, Counted, Next
    PROVE  Counted'
<1> USE DEF queueVars, wakeVars, ioVars, threadVars
<1>1. /\ op \in [Ops -> States] /\ at \in [Actors -> Locations] /\ work \in Int
      /\ job \in [Threads -> Elements] /\ credit \in [Threads -> Nat]
      /\ Actors = Threads \cup {User} /\ User \notin Threads
    BY SomeTypes DEF Types, OtherTypes
<1>2. ASSUME \/ Live' = Live /\ Cleaning' = Cleaning /\ Uncounted' = Uncounted /\ work' = work
             \/ \E h : /\ h \notin Live /\ Live' = Live \cup {h} /\ Cleaning' = Cleaning
                       /\ Uncounted' = Uncounted /\ work' = work + 1
             \/ \E h, x : /\ h \notin Live /\ Live' = Live \cup {h} /\ Cleaning' = Cleaning
                          /\ x \notin Uncounted /\ Uncounted' = Uncounted \cup {x}
                          /\ work' = work
             \/ \E t : /\ t \notin Cleaning /\ Cleaning' = Cleaning \cup {t} /\ Live' = Live
                       /\ Uncounted' = Uncounted /\ work' = work + 1
             \/ \E t : /\ t \in Cleaning /\ Cleaning' = Cleaning \ {t} /\ Live' = Live
                       /\ Uncounted' = Uncounted /\ work' = work - 1
      PROVE  Counted'
    <2> DEFINE L2 == Live'
               C2 == Cleaning'
               U2 == Uncounted'
               w2 == work'
    <2>1. IsFiniteSet(Live) /\ IsFiniteSet(Cleaning) /\ IsFiniteSet(Uncounted)
          /\ work + Cardinality(Uncounted) = Cardinality(Live) + Cardinality(Cleaning)
        BY CountTypes DEF Counted
    <2>2. \/ L2 = Live /\ C2 = Cleaning /\ U2 = Uncounted /\ w2 = work
          \/ \E h : /\ h \notin Live /\ L2 = Live \cup {h} /\ C2 = Cleaning
                    /\ U2 = Uncounted /\ w2 = work + 1
          \/ \E h, x : /\ h \notin Live /\ L2 = Live \cup {h} /\ C2 = Cleaning
                       /\ x \notin Uncounted /\ U2 = Uncounted \cup {x} /\ w2 = work
          \/ \E t : /\ t \notin Cleaning /\ C2 = Cleaning \cup {t} /\ L2 = Live
                    /\ U2 = Uncounted /\ w2 = work + 1
          \/ \E t : /\ t \in Cleaning /\ C2 = Cleaning \ {t} /\ L2 = Live
                    /\ U2 = Uncounted /\ w2 = work - 1
        BY <1>2
    <2> HIDE DEF L2, C2, U2, w2
    <2>3. IsFiniteSet(U2) /\ w2 + Cardinality(U2) = Cardinality(L2) + Cardinality(C2)
        BY <1>1, <2>1, <2>2, CountChanges
    <2> QED BY <2>3 DEF L2, C2, U2, w2, Counted
<1>3. credit' = credit => Uncounted' = Uncounted
    BY DEF Uncounted
<1>4. (\A h \in Ops : h \in Live' <=> h \in Live) => Live' = Live
    BY CountTypes
<1>5. (\A t \in Threads : at'[t] = "cleanup" <=> at[t] = "cleanup") => Cleaning' = Cleaning
    BY DEF Cleaning
<1>6. ASSUME NEW t \in Actors, at[t] # "cleanup", NEW place, place # "cleanup",
             at' = [at EXCEPT ![t] = place]
      PROVE  Cleaning' = Cleaning
    BY <1>1, <1>5, <1>6
<1>7. op' = op => Live' = Live
    BY DEF Live
<1>8. ASSUME NEW t \in Threads, Quiet(t)
      PROVE  Counted'
    <2>1. CASE Enter(t) \/ StopService(t) \/ Leave(t) \/ Wait(t)
        <3>1. op' = op /\ credit' = credit /\ work' = work /\ at[t] # "cleanup" /\ t \in Actors
            BY <1>1, <2>1 DEF Enter, StopService, Leave, Wait, Looping
        <3>2. \E place \in {"quit", "loop", "left", "wait"} : at' = [at EXCEPT ![t] = place]
            BY <2>1 DEF Enter, StopService, Leave, Wait, Goto
        <3>3. Cleaning' = Cleaning
            BY <1>6, <3>1, <3>2
        <3> QED BY <1>2, <1>3, <1>7, <3>1, <3>3
    <2>2. CASE WaitAgain(t) \/ WakeSpuriously(t)
        <3>1. UNCHANGED <<op, credit, work, at>>
            BY <2>2 DEF WaitAgain, WakeSpuriously
        <3> QED BY <1>2, <1>3, <1>5, <1>7, <3>1
    <2>3. CASE PerformNothing(t)
        <3>1. /\ at[t] = "io" /\ work' = work + 1 /\ at' = [at EXCEPT ![t] = "cleanup"]
              /\ op' = op /\ credit' = credit
            BY <2>3 DEF PerformNothing, Goto
        <3>2. t \notin Cleaning /\ Cleaning' = Cleaning \cup {t}
            BY <1>1, <3>1 DEF Cleaning
        <3> QED BY <1>2, <1>3, <1>7, <3>1, <3>2
    <2>4. CASE Return(t) /\ at[t] = "cleanup"
        <3>1. credit[t] = 0 /\ job[t] \notin Completions
            BY <2>4 DEF Locals, Local
        <3>2. /\ op' = [h \in Ops |-> IF job[t] = Completed(h) THEN "done" ELSE op[h]]
              /\ work' = work + credit[t] - 1 /\ credit' = [credit EXCEPT ![t] = 0]
              /\ \E place \in {"finished", "loop"} : at' = [at EXCEPT ![t] = place]
            BY <2>4, <3>1, ReturnEffect
        <3>3. op' = op
            BY <1>1, <3>1, <3>2, ElementFields
        <3>4. credit' = credit /\ work' = work - 1
            BY <1>1, <3>1, <3>2
        <3>5. t \in Cleaning /\ Cleaning' = Cleaning \ {t}
            BY <1>1, <2>4, <3>2 DEF Cleaning
        <3> QED BY <1>2, <1>3, <1>7, <3>3, <3>4, <3>5
    <2>5. CASE Return(t) /\ at[t] # "cleanup"
        <3>1. /\ at[t] = "run"
              /\ op' = [h \in Ops |-> IF job[t] = Completed(h) THEN "done" ELSE op[h]]
              /\ work' = work + credit[t] - 1 /\ credit' = [credit EXCEPT ![t] = 0]
              /\ \E place \in {"flush", "finished", "loop"} : at' = [at EXCEPT ![t] = place]
            BY <2>5, ReturnEffect
        <3>2. PICK h \in Ops : job[t] = Completed(h)
            BY <3>1 DEF Locals, Local, Completions
        <3>3. op[h] = "running"
            BY <3>2 DEF Once, OncePlaced, Runs
        <3>4. h \in Live /\ Live' = Live \ {h}
            <4>1. \A g \in Ops : job[t] = Completed(g) <=> g = h
                BY <3>2, Keys
            <4>2. \A g \in Ops : op'[g] = IF g = h THEN "done" ELSE op[g]
                BY <3>1, <4>1
            <4> QED BY <3>3, <4>2 DEF Live
        <3>5. Cleaning' = Cleaning
            BY <1>1, <1>6, <3>1
        <3> DEFINE n == credit[t]
                   P == {t} \X (1 .. n)
        <3>6. P \subseteq Uncounted /\ Uncounted' = Uncounted \ P
            <4>1. \A s \in Threads : credit'[s] = IF s = t THEN 0 ELSE credit[s]
                BY <1>1, <3>1
            <4>2. \A x : x \in Uncounted'
                     <=> \E s \in Threads : \E k \in 1 .. credit'[s] : x = <<s, k>>
                BY DEF Uncounted
            <4>3. \A x : x \in P <=> \E k \in 1 .. credit[t] : x = <<t, k>>
                OBVIOUS
            <4> HIDE DEF P
            <4>4. \A x : x \in P => x \in Uncounted
                BY <4>3, UncountedElements
            <4>5. \A x : x \in Uncounted' <=> x \in Uncounted /\ x \notin P
                <5>1. ASSUME NEW s \in Threads, NEW k \in 1 .. credit'[s]
                      PROVE  s # t /\ <<s, k>> \in Uncounted /\ <<s, k>> \notin P
                    BY <4>1, <4>3, <5>1, UncountedElements
                <5>2. ASSUME NEW s \in Threads, NEW k \in 1 .. credit[s], <<s, k>> \notin P
                      PROVE  k \in 1 .. credit'[s]
                    BY <4>1, <4>3, <5>2
                <5> QED BY <4>2, <5>1, <5>2, UncountedElements
            <4> QED BY <4>4, <4>5
        <3>7. n \in Nat
            BY <1>1
        <3> DEFINE L == Live
                   C == Cleaning
                   U == Uncounted
                   L2 == Live'
                   U2 == Uncounted'
                   w == work
        <3>8. h \in L /\ L2 = L \ {h}
            BY <3>4
        <3>9. P \subseteq U /\ U2 = U \ P
            BY <3>6
        <3>10. IsFiniteSet(L) /\ IsFiniteSet(C) /\ IsFiniteSet(U)
               /\ w + Cardinality(U) = Cardinality(L) + Cardinality(C)
            BY CountTypes DEF Counted
        <3>11. work' = w + n - 1 /\ w \in Int
            BY <1>1, <3>1
        <3>12. Cardinality(P) = n
            BY <3>7, CountsPrivate
        <3> HIDE DEF n, P, L, C, U, L2, U2, w
        <3>13. /\ Cardinality(L) \in Nat /\ Cardinality(C) \in Nat
               /\ Cardinality(U) \in Nat
            BY <3>10, FS_CardinalityType
        <3>14. Cardinality(L2) = Cardinality(L) - 1
            BY <3>8, <3>10, FS_RemoveElement
        <3>15. U \cap P = P
            BY <3>9
        <3>16. /\ IsFiniteSet(U \ P)
               /\ Cardinality(U \ P) = Cardinality(U) - Cardinality(U \cap P)
            BY <3>10, FS_Difference
        <3>17. /\ IsFiniteSet(U2)
               /\ (w + n - 1) + Cardinality(U2) = Cardinality(L2) + Cardinality(C)
            <4>1. U2 = U \ P
                BY <3>9
            <4>2. IsFiniteSet(U2) /\ Cardinality(U2) = Cardinality(U) - n
                BY <3>12, <3>15, <3>16, <4>1
            <4> QED BY <3>7, <3>10, <3>11, <3>13, <3>14, <4>2
        <3>18. Cardinality(C) = Cardinality(Cleaning')
            BY <3>5 DEF C
        <3> QED BY <3>11, <3>17, <3>18 DEF Counted, L2, U2
    <2> QED BY <1>8, <2>1, <2>2, <2>3, <2>4, <2>5 DEF Quiet
<1>9. ASSUME QuietElse
      PROVE  Counted'
    <2>1. ASSUME NEW t \in Actors, NEW h \in Ops, StartWaits(t, h)
          PROVE  Counted'
        <3>1. /\ op[h] = "none" /\ op' = [op EXCEPT ![h] = "pending"] /\ work' = work + 1
              /\ UNCHANGED <<at, credit>>
            BY <2>1 DEF StartWaits, May
        <3>2. h \notin Live /\ Live' = Live \cup {h}
            BY <1>1, <3>1 DEF Live
        <3> QED BY <1>2, <1>3, <1>5, <3>1, <3>2
    <2>2. CASE Stop \/ \E h \in Ops : BecomeAble(h)
        <3>1. UNCHANGED <<op, credit, work, at>>
            BY <2>2 DEF Stop, BecomeAble
        <3> QED BY <1>2, <1>3, <1>5, <1>7, <3>1
    <2>3. ASSUME NEW t \in Actors, Shut(t)
          PROVE  Counted'
        <3>1. /\ at[t] = "shut" /\ UNCHANGED <<op, credit, work>>
              /\ \E place \in {"user", "run"} : at' = [at EXCEPT ![t] = place]
            BY <2>3, ShutEffect DEF Outside
        <3>2. Cleaning' = Cleaning
            BY <1>6, <3>1
        <3> QED BY <1>2, <1>3, <1>7, <3>1, <3>2
    <2> QED BY <1>9, <2>1, <2>2, <2>3 DEF QuietElse
<1>10. ASSUME NEW t \in Threads, PickTask(t) \/ PickHandler(t)
       PROVE  Counted'
    <2>1. /\ at[t] \in {"loop", "wait"} /\ queue # <<>> /\ queue \in Seq(Elements)
          /\ UNCHANGED <<work, credit>>
          /\ \E place \in {"poll", "block", "run", "io"} : at' = [at EXCEPT ![t] = place]
        BY <1>10, PickEffect DEF Looping, Types, ListTypes
    <2>2. Cleaning' = Cleaning
        BY <1>1, <1>6, <2>1
    <2>3. CASE op' = op
        BY <1>2, <1>3, <1>7, <2>1, <2>2, <2>3
    <2>4. CASE Head(queue) \in Completions /\ op' = [op EXCEPT ![Head(queue)[2]] = "running"]
        <3>1. PICK g \in Ops : Head(queue) = Completed(g) /\ Head(queue)[2] = g
            BY <2>4, ElementKinds
        <3>2. Queued(g)
            BY <2>1, <3>1, TailHolds, Keys DEF Queued
        <3>3. op[g] = "ready"
            BY <3>2 DEF Once, OncePlaced
        <3>4. Live' = Live
            BY <1>1, <2>4, <3>1, <3>3 DEF Live
        <3> QED BY <1>2, <1>3, <2>1, <2>2, <3>4
    <2> QED BY <1>10, <2>3, <2>4, PickEffect
<1>11. ASSUME NEW t \in Threads, Poll(t) \/ TaskCleanup(t) \/ Flush(t)
       PROVE  Counted'
    <2>1. UNCHANGED <<op, work, credit>> /\ at[t] # "cleanup" /\ t \in Actors
        BY <1>1, <1>11 DEF Poll, TaskCleanup, Flush
    <2>2. \E place \in {"polled", "loop"} : at' = [at EXCEPT ![t] = place]
        BY <1>11 DEF Poll, TaskCleanup, Flush, Goto
    <2>3. Cleaning' = Cleaning
        BY <1>6, <2>1, <2>2
    <2> QED BY <1>2, <1>3, <1>7, <2>1, <2>3
<1>12. ASSUME NEW t \in Threads, PerformIo(t)
       PROVE  Counted'
    <2>1. PICK first \in Ops, u \in Seq(Completions) : PerformEffect(t, first, u)
        BY <1>12, PerformIoEffect
    <2>2. /\ at[t] = "io" /\ UNCHANGED <<work, credit>> /\ t \in Actors
          /\ \E place \in {"run", "push"} : at' = [at EXCEPT ![t] = place]
        BY <1>1, <2>1 DEF PerformEffect
    <2>3. Cleaning' = Cleaning
        BY <1>6, <2>2
    <2>4. \A h \in Ops : op'[h] = op[h]
                           \/ (op[h] = "pending" /\ op'[h] \in {"ready", "running"})
        BY <2>1 DEF PerformEffect
    <2>5. Live' = Live
        BY <2>4 DEF Live
    <2> QED BY <1>2, <1>3, <2>2, <2>3, <2>5
<1>13. ASSUME NEW t \in Actors, Push(t)
       PROVE  Counted'
    <2>1. /\ UNCHANGED <<op, work, credit>> /\ at[t] = "push"
          /\ \E place \in {"user", "run", "shut"} : at' = [at EXCEPT ![t] = place]
        BY <1>13 DEF Push, Outside, Goto
    <2>2. Cleaning' = Cleaning
        BY <1>6, <2>1
    <2> QED BY <1>2, <1>3, <1>7, <2>1, <2>2
<1>14. ASSUME NEW t \in Actors, NEW h \in Ops, NEW cont \in BOOLEAN,
              StartCompletes(t, h, cont)
       PROVE  Counted'
    <2>1. op[h] = "none" /\ op' = [op EXCEPT ![h] = "ready"] /\ at[t] = Outside(t)
        BY <1>14 DEF StartCompletes, May
    <2>2. h \notin Live /\ Live' = Live \cup {h}
        BY <1>1, <2>1 DEF Live
    <2>3. CASE cont /\ t # User
        <3>1. credit' = [credit EXCEPT ![t] = @ + 1] /\ UNCHANGED <<work, at>> /\ t \in Threads
            BY <1>1, <1>14, <2>3 DEF StartCompletes
        <3> DEFINE x == <<t, credit[t] + 1>>
        <3>2. x \notin Uncounted
            BY <1>1, <3>1, UncountedElements
        <3>3. Uncounted' = Uncounted \cup {x}
            <4>1. \A s \in Threads : credit'[s] = IF s = t THEN credit[t] + 1 ELSE credit[s]
                BY <1>1, <3>1
            <4>2. \A y : y \in Uncounted'
                     <=> \E s \in Threads : \E k \in 1 .. credit'[s] : y = <<s, k>>
                BY DEF Uncounted
            <4>3. \A k : k \in 1 .. credit[t] + 1 <=> k \in 1 .. credit[t] \/ k = credit[t] + 1
                BY <1>1, <3>1
            <4>4. \A y : y \in Uncounted' <=> y \in Uncounted \/ y = x
                <5>1. ASSUME NEW s \in Threads, NEW k \in 1 .. credit'[s]
                      PROVE  <<s, k>> \in Uncounted \/ <<s, k>> = x
                    BY <4>1, <4>3, UncountedElements
                <5>2. ASSUME NEW s \in Threads, NEW k \in 1 .. credit[s]
                      PROVE  k \in 1 .. credit'[s]
                    BY <4>1, <4>3
                <5>3. credit[t] + 1 \in 1 .. credit'[t]
                    BY <1>1, <3>1, <4>1
                <5> QED BY <3>1, <4>2, <5>1, <5>2, <5>3, UncountedElements
            <4> HIDE DEF x
            <4> QED BY <4>4
        <3>4. Cleaning' = Cleaning
            BY <1>5, <3>1
        <3> QED BY <1>2, <2>2, <3>1, <3>2, <3>3, <3>4
    <2>4. CASE ~ (cont /\ t # User)
        <3>1. /\ work' = work + 1 /\ at' = [at EXCEPT ![t] = "push"] /\ credit' = credit
              /\ at[t] # "cleanup"
            BY <1>14, <2>1, <2>4 DEF StartCompletes, Goto, Outside
        <3>2. Cleaning' = Cleaning
            BY <1>6, <3>1
        <3> QED BY <1>2, <1>3, <2>2, <3>1, <3>2
    <2> QED BY <2>3, <2>4
<1>15. ASSUME NEW t \in Actors, NEW d \in Descriptors, Close(t, d)
       PROVE  Counted'
    <2>1. PICK u \in Seq(Completions) : CloseEffect(t, d, u)
        BY <1>15, CloseEffects
    <2>2. /\ UNCHANGED <<work, credit>> /\ at[t] # "cleanup"
          /\ \E place \in {"shut", "push"} : at' = [at EXCEPT ![t] = place]
        BY <2>1 DEF CloseEffect, Outside
    <2>3. Cleaning' = Cleaning
        BY <1>5, <1>6, <2>2
    <2>4. \A h \in Ops : op'[h] = op[h] \/ (op[h] = "pending" /\ op'[h] = "ready")
        BY <2>1 DEF CloseEffect
    <2>5. Live' = Live
        BY <2>4 DEF Live
    <2> QED BY <1>2, <1>3, <2>2, <2>3, <2>5
<1> QED BY <1>8, <1>9, <1>10, <1>11, <1>12, <1>13, <1>14, <1>15, Steps

\* What is still to be counted has been started.
LEMMA UncountedIsLive ==
    ASSUME Types, Locals, Once, IsFiniteSet(Uncounted)
    PROVE  Cardinality(Uncounted) <= Cardinality(Live)
<1> DEFINE f == [x \in Uncounted |-> private[x[1]][x[2]][2]]
<1>1. ASSUME NEW t \in Threads, NEW k \in 1 .. credit[t]
      PROVE  \E h \in Live : private[t][k] = Completed(h) /\ Kept(t, h)
    <2>1. credit[t] \in Nat /\ credit[t] # 0
        BY <1>1 DEF Types, OtherTypes
    <2>2. private[t] \in Seq(Completions) /\ Len(private[t]) = credit[t]
        BY <2>1 DEF Locals, Local
    <2>3. private[t][k] \in Completions
        BY <2>2, ElementOfSeq
    <2>4. PICK h \in Ops : private[t][k] = Completed(h)
        BY <2>3, ElementKinds
    <2>5. Kept(t, h)
        BY <2>2, <2>4, Keys DEF Kept, Holds
    <2>6. h \in Live
        BY <2>5 DEF Once, OncePlaced, Live
    <2> QED BY <2>4, <2>5, <2>6
<1>2. ASSUME NEW t \in Threads, NEW k \in 1 .. credit[t]
      PROVE  f[<<t, k>>] \in Live /\ private[t][k] = Completed(f[<<t, k>>])
               /\ Kept(t, f[<<t, k>>])
    <2>1. PICK h \in Live : private[t][k] = Completed(h) /\ Kept(t, h)
        BY <1>1
    <2>2. <<t, k>> \in Uncounted
        BY UncountedElements
    <2>3. f[<<t, k>>] = private[t][k][2]
        BY <2>2
    <2>4. f[<<t, k>>] = h
        BY <2>1, <2>3, ElementFields
    <2> HIDE DEF f
    <2> QED BY <2>1, <2>4
<1> HIDE DEF f
<1>3. ASSUME NEW t \in Threads, NEW k \in 1 .. credit[t],
             NEW u \in Threads, NEW l \in 1 .. credit[u], f[<<t, k>>] = f[<<u, l>>]
      PROVE  <<t, k>> = <<u, l>>
    <2>1. t = u
        BY <1>2, <1>3, CountTypes DEF Once, OncePlaced
    <2>2. Len(private[t]) = credit[t]
        <3>1. credit[t] \in Nat /\ credit[t] # 0
            BY <1>3 DEF Types, OtherTypes
        <3> QED BY <3>1 DEF Locals, Local
    <2>3. Key(private[t][k]) = Key(private[t][l])
        BY <1>2, <1>3, <2>1
    <2>4. k = l
        BY <2>1, <2>2, <2>3 DEF Once, OnceLists, OnceIn
    <2> QED BY <2>1, <2>4
<1>4. f \in [Uncounted -> Live]
    <2>1. \A x \in Uncounted : f[x] \in Live
        BY <1>2, UncountedElements
    <2> QED BY <2>1 DEF f
<1>5. \A x, y \in Uncounted : f[x] = f[y] => x = y
    <2> SUFFICES ASSUME NEW x \in Uncounted, NEW y \in Uncounted, f[x] = f[y]
                 PROVE  x = y
        OBVIOUS
    <2>1. PICK t \in Threads : \E k \in 1 .. credit[t] : x = <<t, k>>
        BY UncountedElements
    <2>2. PICK k \in 1 .. credit[t] : x = <<t, k>>
        BY <2>1
    <2>3. PICK u \in Threads : \E l \in 1 .. credit[u] : y = <<u, l>>
        BY UncountedElements
    <2>4. PICK l \in 1 .. credit[u] : y = <<u, l>>
        BY <2>3
    <2> QED BY <1>3, <2>2, <2>4
<1>6. f \in Injection(Uncounted, Live)
    BY <1>4, <1>5 DEF Injection, IsInjective
<1> QED BY <1>6, CountTypes, FS_Injection

-----------------------------------------------------------------------------
(***************************************************************************)
(* What is about to have its handler invoked can complete.                 *)
(***************************************************************************)

CanComplete(h) == h \in able \/ Descriptor[h] \in closed

\* Descriptors with operations that are possible.
AbleReadies == {Io(d, ready) : d \in Descriptors, ready \in SUBSET able}
Passed == Completions \cup AbleReadies
Due == {Task} \cup Passed

Deliverable ==
    /\ \A h \in Ops : op[h] = "ready" => CanComplete(h)
    /\ queue \in Seq(Due)
    /\ \A t \in Threads : private[t] \in Seq(Passed)
    /\ \A t \in Threads : at[t] = "io" => job[t][3] \subseteq able

LEMMA MoreAble ==
    ASSUME able \subseteq able'
    PROVE  Passed \subseteq Passed' /\ Due \subseteq Due'
<1>1. AbleReadies \subseteq AbleReadies'
    <2>1. SUBSET able \subseteq SUBSET (able')
        OBVIOUS
    <2> QED BY <2>1 DEF AbleReadies
<1> QED BY <1>1 DEF Passed, Due

LEMMA DeliverableNext ==
    ASSUME Types, Locals, Once, Deliverable, Next
    PROVE  Deliverable'
<1> USE DEF queueVars, wakeVars, ioVars, threadVars
<1>1. /\ op \in [Ops -> States] /\ at \in [Actors -> Locations]
      /\ job \in [Threads -> Elements]
      /\ private \in [Threads -> Seq(Completions \cup Readies)]
      /\ Actors = Threads \cup {User} /\ User \notin Threads
      /\ at[User] \in {"user", "push", "shut"}
    BY SomeTypes DEF Types, ListTypes, OtherTypes
<1>2. /\ \A h \in Ops : op[h] = "ready" => CanComplete(h)
      /\ queue \in Seq(Due)
      /\ \A t \in Threads : private[t] \in Seq(Passed)
      /\ \A t \in Threads : at[t] = "io" => job[t][3] \subseteq able
      /\ Passed \subseteq Due /\ Completions \subseteq Passed /\ Task \in Due
    BY DEF Deliverable, Passed, Due
<1>3. ASSUME UNCHANGED <<able, closed>>,
             \A h \in Ops : op'[h] = "ready" => CanComplete(h),
             queue' \in Seq(Due),
             \A t \in Threads : private'[t] \in Seq(Passed),
             \A t \in Threads : at'[t] = "io" => job'[t][3] \subseteq able
      PROVE  Deliverable'
    <2>1. Due' = Due /\ Passed' = Passed
        BY <1>3 DEF Due, Passed, AbleReadies
    <2> QED BY <1>3, <2>1 DEF Deliverable, CanComplete
<1>4. ASSUME NEW t \in Actors, NEW place, place # "io", at' = [at EXCEPT ![t] = place]
      PROVE  \A s \in Threads : at'[s] = "io" => s # t /\ at[s] = "io"
    BY <1>1, <1>4
<1>5. ASSUME NEW t \in Threads, Quiet(t)
      PROVE  Deliverable'
    <2>1. UNCHANGED <<queue, push, private>>
        BY <1>5, QuietLists
    <2>2. CASE Return(t)
        <3>1. /\ op' = [h \in Ops |-> IF job[t] = Completed(h) THEN "done" ELSE op[h]]
              /\ job' = [job EXCEPT ![t] = Task]
              /\ \E place \in {"flush", "finished", "loop"} : at' = [at EXCEPT ![t] = place]
              /\ UNCHANGED <<able, closed>>
            BY <2>2, ReturnEffect
        <3>2. \A s \in Threads : at'[s] = "io" => at[s] = "io" /\ job'[s] = job[s]
            BY <1>1, <3>1
        <3> QED BY <1>2, <1>3, <2>1, <3>1, <3>2
    <2>3. CASE ~ Return(t)
        <3>1. UNCHANGED <<op, job, able, closed>>
            BY <1>5, <2>3 DEF Quiet, Enter, StopService, Leave, Wait, WaitAgain,
                              WakeSpuriously, PerformNothing
        <3>2. at' = at \/ \E place \in Locations : place # "io"
                                              /\ at' = [at EXCEPT ![t] = place]
            BY <1>5, <2>3 DEF Quiet, Enter, StopService, Leave, Wait, WaitAgain,
                              WakeSpuriously, PerformNothing, Goto, Locations
        <3>3. \A s \in Threads : at'[s] = "io" => at[s] = "io"
            BY <1>1, <3>2
        <3> QED BY <1>2, <1>3, <2>1, <3>1, <3>3
    <2> QED BY <2>2, <2>3
<1>6. ASSUME QuietElse
      PROVE  Deliverable'
    <2>1. UNCHANGED <<queue, push, private, job, closed>>
        BY <1>6 DEF QuietElse, StartWaits, Stop, BecomeAble, Shut
    <2>2. able \subseteq able'
          /\ \A h \in Ops : op'[h] = op[h] \/ op'[h] = "pending"
        BY <1>1, <1>6 DEF QuietElse, StartWaits, Stop, BecomeAble, Shut
    <2>3. Passed \subseteq Passed' /\ Due \subseteq Due'
        BY <2>2, MoreAble
    <2>4. queue \in Seq(Due') /\ \A t \in Threads : private[t] \in Seq(Passed')
        BY <1>2, <2>3, SeqMonotonic
    <2>5. \A t \in Threads : at'[t] = "io" => at[t] = "io"
        BY <1>1, <1>6 DEF QuietElse, StartWaits, Stop, BecomeAble, Shut, Goto, Outside
    <2>6. \A t \in Threads : at'[t] = "io" => job[t][3] \subseteq able'
        BY <1>2, <2>2, <2>5
    <2>7. \A h \in Ops : op'[h] = "ready" => CanComplete(h)'
        BY <1>2, <2>1, <2>2 DEF CanComplete
    <2> QED BY <2>1, <2>4, <2>6, <2>7 DEF Deliverable
<1>7. ASSUME NEW t \in Threads, PickTask(t) \/ PickHandler(t)
      PROVE  Deliverable'
    <2>1. /\ queue # <<>> /\ queue' = Tail(queue)
          /\ UNCHANGED <<able, closed, private>>
        BY <1>7, PickEffect
    <2>2. Tail(queue) \in Seq(Due) /\ Head(queue) \in Due
        BY <1>2, <2>1, HeadTailProperties
    <2>3. CASE UNCHANGED <<job, op>> /\ \E place \in {"poll", "block"} :
                                          at' = [at EXCEPT ![t] = place]
        <3>1. \A s \in Threads : at'[s] = "io" => at[s] = "io"
            BY <1>1, <2>3
        <3> QED BY <1>2, <1>3, <2>1, <2>2, <2>3, <3>1
    <2>4. CASE /\ job' = [job EXCEPT ![t] = Head(queue)]
               /\ op' = [op EXCEPT ![Head(queue)[2]] = "running"]
               /\ at' = [at EXCEPT ![t] = "run"]
        <3>1. \A s \in Threads : at'[s] = "io" => at[s] = "io" /\ job'[s] = job[s]
            BY <1>1, <2>4
        <3>2. \A h \in Ops : op'[h] = "ready" => op[h] = "ready"
            BY <1>1, <2>4
        <3> QED BY <1>2, <1>3, <2>1, <2>2, <3>1, <3>2
    <2>5. CASE /\ Head(queue) \in Readies
               /\ job' = [job EXCEPT ![t] = Head(queue)]
               /\ op' = op
               /\ at' = [at EXCEPT ![t] = "io"]
        <3>1. Head(queue)[3] \subseteq able
            <4>1. Head(queue) \in AbleReadies
                BY <2>2, <2>5, ElementKinds DEF Due, Passed
            <4>2. \A e \in AbleReadies : e[3] \subseteq able
                BY DEF AbleReadies, Io
            <4> QED BY <4>1, <4>2
        <3>2. \A s \in Threads : job'[s] = (IF s = t THEN Head(queue) ELSE job[s])
                                   /\ (s # t => at'[s] = at[s])
            BY <1>1, <2>5
        <3> QED BY <1>2, <1>3, <2>1, <2>2, <2>5, <3>1, <3>2
    <2> QED BY <1>7, <2>3, <2>4, <2>5, PickEffect
<1>8. ASSUME NEW t \in Threads, Poll(t)
      PROVE  Deliverable'
    <2>1. PICK u \in Seq(Readies) : PollEffect(t, u)
        BY <1>8, PollEffects
    <2>2. /\ private' = [private EXCEPT ![t] = u] /\ at' = [at EXCEPT ![t] = "polled"]
          /\ UNCHANGED <<queue, op, job, able, closed>>
          /\ \A k \in 1 .. Len(u) : u[k][3] \subseteq able
        BY <2>1 DEF PollEffect
    <2>3. u \in Seq(Passed)
        <3>1. ASSUME NEW k \in 1 .. Len(u)
              PROVE  u[k] \in Passed
            <4>1. u[k] \in Readies
                BY ElementOfSeq
            <4>2. u[k][2] \in Descriptors /\ u[k] = Io(u[k][2], u[k][3])
                BY <4>1, ElementKinds
            <4> QED BY <2>2, <4>2 DEF Passed, AbleReadies
        <3>2. Len(u) \in Nat /\ u = [k \in 1 .. Len(u) |-> u[k]]
            BY LenProperties
        <3>3. u \in [1 .. Len(u) -> Passed]
            BY <3>1, <3>2
        <3> QED BY <3>2, <3>3
    <2>4. \A s \in Threads : at'[s] = "io" => at[s] = "io"
        BY <1>1, <2>2
    <2>5. \A s \in Threads : private'[s] = IF s = t THEN u ELSE private[s]
        BY <1>1, <2>2
    <2> QED BY <1>2, <1>3, <2>2, <2>3, <2>4, <2>5
<1>9. ASSUME NEW t \in Threads, TaskCleanup(t) \/ Flush(t)
      PROVE  Deliverable'
    <2>1. /\ private' = [private EXCEPT ![t] = <<>>]
          /\ \/ queue' = Append(queue \o private[t], Task)
             \/ queue' = queue \o private[t]
          /\ at' = [at EXCEPT ![t] = "loop"]
          /\ UNCHANGED <<op, job, able, closed>>
        BY <1>9 DEF TaskCleanup, Flush, Goto
    <2>2. private[t] \in Seq(Due)
        BY <1>2, SeqMonotonic
    <2>3. queue \o private[t] \in Seq(Due)
        BY <1>2, <2>2, ConcatProperties
    <2>4. Append(queue \o private[t], Task) \in Seq(Due)
        BY <1>2, <2>3
    <2>5. \A s \in Threads : private'[s] \in Seq(Passed)
        BY <1>1, <1>2, <2>1
    <2>6. \A s \in Threads : at'[s] = "io" => at[s] = "io"
        BY <1>1, <2>1
    <2> QED BY <1>2, <1>3, <2>1, <2>3, <2>4, <2>5, <2>6
<1>10. ASSUME NEW t \in Threads, PerformIo(t)
       PROVE  Deliverable'
    <2>1. PICK first \in Ops, u \in Seq(Completions) : PerformEffect(t, first, u)
        BY <1>10, PerformIoEffect
    <2>2. /\ at[t] = "io" /\ job' = [job EXCEPT ![t] = Completed(first)]
          /\ \E place \in {"run", "push"} : at' = [at EXCEPT ![t] = place]
          /\ UNCHANGED <<queue, private, able, closed>>
        BY <2>1 DEF PerformEffect
    <2>3. \A h \in Ops : op'[h] = "ready" => op[h] = "ready" \/ h \in job[t][3]
        BY <2>1 DEF PerformEffect
    <2>4. \A h \in Ops : op'[h] = "ready" => CanComplete(h)
        BY <1>2, <2>2, <2>3 DEF CanComplete
    <2>5. \A s \in Threads : at'[s] = "io" => at[s] = "io" /\ job'[s] = job[s]
        BY <1>1, <2>2
    <2> QED BY <1>2, <1>3, <2>2, <2>4, <2>5
<1>11. ASSUME NEW t \in Actors, Push(t)
       PROVE  Deliverable'
    <2>1. /\ queue' = queue \o push[t] /\ UNCHANGED <<op, job, able, closed, private>>
          /\ \E place \in {"user", "run", "shut"} : at' = [at EXCEPT ![t] = place]
        BY <1>11 DEF Push, Outside, Goto
    <2>2. push[t] \in Seq(Completions) /\ Completions \subseteq Due
        BY <1>2 DEF Types, ListTypes
    <2>3. push[t] \in Seq(Due)
        BY <2>2, SeqMonotonic
    <2>4. queue \o push[t] \in Seq(Due)
        BY <1>2, <2>3, ConcatProperties
    <2>5. \A s \in Threads : at'[s] = "io" => at[s] = "io"
        BY <1>1, <2>1
    <2> QED BY <1>2, <1>3, <2>1, <2>4, <2>5
<1>12. ASSUME NEW t \in Actors, NEW g \in Ops, NEW cont \in BOOLEAN,
              StartCompletes(t, g, cont)
       PROVE  Deliverable'
    <2>1. /\ op' = [op EXCEPT ![g] = "ready"] /\ CanComplete(g)
          /\ UNCHANGED <<queue, job, able, closed>>
          /\ at' = at \/ at' = [at EXCEPT ![t] = "push"]
        BY <1>12 DEF StartCompletes, CanComplete, Goto
    <2>2. \A s \in Threads : at'[s] = "io" => at[s] = "io"
        BY <1>1, <2>1
    <2>3. \A s \in Threads : private'[s] \in Seq(Passed)
        <3>1. CASE UNCHANGED private
            BY <1>2, <3>1
        <3>2. CASE t # User /\ private' = [private EXCEPT ![t] = Append(@, Completed(g))]
            <4>1. Completed(g) \in Passed
                BY <1>2, ElementFields
            <4>2. Append(private[t], Completed(g)) \in Seq(Passed)
                BY <1>1, <1>2, <3>2, <4>1
            <4> QED BY <1>1, <1>2, <3>2, <4>2
        <3> QED BY <1>12, <3>1, <3>2 DEF StartCompletes
    <2>4. \A h \in Ops : op'[h] = "ready" => CanComplete(h)
        BY <1>1, <1>2, <2>1
    <2> QED BY <1>2, <1>3, <2>1, <2>2, <2>3, <2>4
<1>13. ASSUME NEW t \in Actors, NEW d \in Descriptors, Close(t, d)
       PROVE  Deliverable'
    <2>1. PICK u \in Seq(Completions) : CloseEffect(t, d, u)
        BY <1>13, CloseEffects
    <2>2. /\ UNCHANGED <<queue, private, able, job>> /\ closed' = closed \cup {d}
          /\ \E place \in {"shut", "push"} : at' = [at EXCEPT ![t] = place]
        BY <2>1 DEF CloseEffect
    <2>3. \A h \in Ops : op'[h] = "ready" => op[h] = "ready" \/ Descriptor[h] = d
        BY <2>1 DEF CloseEffect, OpsOf
    <2>4. \A h \in Ops : op'[h] = "ready" => CanComplete(h)'
        BY <1>2, <2>2, <2>3 DEF CanComplete
    <2>5. \A s \in Threads : at'[s] = "io" => at[s] = "io"
        BY <1>1, <2>2
    <2>6. Due' = Due /\ Passed' = Passed
        BY <2>2 DEF Due, Passed, AbleReadies
    <2> QED BY <1>2, <2>2, <2>4, <2>5, <2>6 DEF Deliverable
<1> QED BY <1>5, <1>6, <1>7, <1>8, <1>9, <1>10, <1>11, <1>12, <1>13, Steps

-----------------------------------------------------------------------------
(***************************************************************************)
(* The invariant.                                                          *)
(***************************************************************************)

Inv ==
    /\ Types /\ Locals /\ Once
    /\ Wakeful
    /\ ClosedIsQuiet /\ Awaited
    /\ Deliverable
    /\ Counted

LEMMA InvInit ==
    ASSUME Init
    PROVE  Inv
<1> USE DEF Init, InitReactor, InitTask
<1>1. /\ at \in [Actors -> Locations] /\ at[User] = "user"
      /\ \A t \in Threads : at[t] = "out"
      /\ push = [t \in Actors |-> <<>>]
    BY SomeTypes DEF Actors, Locations
<1>2. \A S : <<>> \in Seq(S)
    OBVIOUS
<1>3. Task \in Elements /\ queue \in Seq(Elements)
    BY DEF Elements
<1>4. Types
    <2>1. ListTypes
        BY <1>1, <1>2, <1>3 DEF ListTypes
    <2>2. WakeTypes
        BY DEF WakeTypes
    <2>3. OtherTypes
        BY <1>1, <1>3 DEF OtherTypes, States, Actors
    <2> QED BY <2>1, <2>2, <2>3 DEF Types
<1>5. Locals
    <2>1. Task \notin Completions /\ Free \notin Threads
        BY ElementKinds, ServiceAssumption
    <2>2. \A t \in Threads : Local(t)
        BY <1>1, <2>1 DEF Local
    <2> QED BY <1>1, <2>2 DEF Locals
<1>6. Once
    <2>1. OnceLists
        BY <1>1, NothingHeld, OneHeld DEF OnceLists
    <2>2. OneTask
        <3>1. \A t \in Threads : ~ Polls(t)
            BY <1>1 DEF Polls
        <3>2. Len(queue) = 1 /\ queue[1] = Task /\ Task \notin Readies
            BY ElementKinds
        <3> QED BY <3>1, <3>2 DEF OneTask, TaskLast
    <2>3. ASSUME NEW h \in Ops
          PROVE  OncePlaced(h)
        <3>1. ~ Queued(h)
            BY OneHeld, Keys DEF Queued
        <3>2. \A t \in Actors : ~ Pushed(t, h)
            BY <1>1, NothingHeld DEF Pushed
        <3>3. \A t \in Threads : ~ Kept(t, h)
            BY NothingHeld DEF Kept
        <3>4. \A t \in Threads : ~ Runs(t, h)
            BY Keys DEF Runs
        <3> QED BY <3>1, <3>2, <3>3, <3>4 DEF OncePlaced
    <2> QED BY <2>1, <2>2, <2>3 DEF Once
<1>7. Wakeful
    BY <1>1 DEF Wakeful, SomeoneSure, StoppedWakesAll, InterruptedOnce, Idle
<1>8. ClosedIsQuiet /\ Awaited
    BY DEF ClosedIsQuiet, Awaited
<1>9. Counted
    <2>1. Live = {} /\ Cleaning = {}
        BY <1>1 DEF Live, Cleaning
    <2>2. \A x : x \notin Uncounted
        BY UncountedElements
    <2>3. Uncounted = {}
        BY <2>2
    <2>4. IsFiniteSet({}) /\ Cardinality({}) = 0
        BY FS_EmptySet
    <2> QED BY <2>1, <2>3, <2>4 DEF Counted
<1>10. Deliverable
    BY <1>1, <1>2 DEF Deliverable, Due
<1> QED BY <1>4, <1>5, <1>6, <1>7, <1>8, <1>9, <1>10 DEF Inv

LEMMA InvNext ==
    ASSUME Inv, [Next]_vars
    PROVE  Inv'
<1>1. CASE Next
    BY <1>1, TypesNext, LocalsNext, OnceNext, WakefulNext, ClosedNext, AwaitedNext,
       CountedNext, DeliverableNext DEF Inv
<1>2. CASE UNCHANGED vars
    <2> USE <1>2 DEF vars, queueVars, wakeVars, ioVars, threadVars
    <2>1. Types'
        BY DEF Inv, Types, ListTypes, WakeTypes, OtherTypes
    <2>2. Locals'
        BY DEF Inv, Locals, Local
    <2>3. Once'
        BY DEF Inv, Once, OnceLists, OneTask, Polls, OncePlaced, Queued, Pushed, Kept,
               Runs
    <2>4. Wakeful'
        BY DEF Inv, Wakeful, SomeoneSure, StoppedWakesAll, InterruptedOnce, Idle, Sure
    <2>5. ClosedIsQuiet' /\ Awaited'
        BY DEF Inv, ClosedIsQuiet, Awaited, Expected
    <2>6. Counted'
        BY DEF Inv, Counted, Live, Cleaning, Uncounted
    <2>7. Deliverable'
        BY DEF Inv, Deliverable, CanComplete, Due, Passed, AbleReadies
    <2> QED BY <2>1, <2>2, <2>3, <2>4, <2>5, <2>6, <2>7 DEF Inv
<1> QED BY <1>1, <1>2

\* What the properties rest on: the lists and their elements, the place of every
\* operation, who sleeps, what epoll has still to tell, and the count.
THEOREM InvariantHolds == Spec => []Inv
BY InvInit, InvNext, PTL DEF Spec

-----------------------------------------------------------------------------
(***************************************************************************)
(* The properties.                                                         *)
(***************************************************************************)

\* Every variable has its type throughout; the counts never become negative,
\* although work_cleanup subtracts from them.
THEOREM TypeCorrect == Spec => []TypeOK
<1>1. Inv => TypeOK
    <2> SUFFICES ASSUME Inv PROVE TypeOK
        OBVIOUS
    <2>1. Types /\ Locals /\ Once /\ Counted
        BY DEF Inv
    <2>2. Completions \subseteq Elements /\ Completions \cup Readies \subseteq Elements
        BY ElementKinds
    <2>3. \A S, T : S \subseteq T => Seq(S) \subseteq Seq(T)
        OBVIOUS
    <2>4. work \in Nat
        <3>1. /\ Cardinality(Live) \in Nat /\ Cardinality(Cleaning) \in Nat
              /\ Cardinality(Uncounted) \in Nat
            BY <2>1, CountTypes, FS_CardinalityType DEF Counted
        <3>2. Cardinality(Uncounted) <= Cardinality(Live)
            BY <2>1, UncountedIsLive DEF Counted
        <3>3. work \in Int
            BY <2>1 DEF Types, OtherTypes
        <3> QED BY <2>1, <3>1, <3>2, <3>3 DEF Counted
    <2>5. /\ push \in [Threads \cup {User} -> Seq(Elements)]
          /\ private \in [Threads -> Seq(Elements)]
        BY <2>1, <2>2, <2>3 DEF Types, ListTypes, Actors
    <2> QED BY <2>1, <2>4, <2>5
            DEF TypeOK, Types, ListTypes, WakeTypes, OtherTypes, Actors, Locations, States
<1> QED BY <1>1, InvariantHolds, PTL

\* The count of outstanding work is exact at every step, so run never returns
\* while an operation waits.
THEOREM WorkIsExact == Spec => []WorkIsCounted
<1>1. Inv => WorkIsCounted
    BY DEF Inv, Counted, WorkIsCounted, Live, Cleaning
<1> QED BY <1>1, InvariantHolds, PTL

\* While anything is queued and a thread sleeps, another thread is on its way to
\* the queue and runs no handler before it gets there; after stop no thread
\* sleeps.
THEOREM WakeupsArrive == Spec => []NoLostWakeup
<1>1. Inv => NoLostWakeup
    <2> SUFFICES ASSUME Inv PROVE NoLostWakeup
        OBVIOUS
    <2>1. \A t \in Threads : Asleep(t) => Idle(t)
        BY SomeTypes DEF Asleep, Idle
    <2>2. SomeoneSure /\ StoppedWakesAll
        BY DEF Inv, Wakeful
    <2>3. ASSUME NEW t \in Threads, Sure(t)
          PROVE  OnItsWay(t)
        <3>1. ~ Idle(t)
            BY <2>3 DEF Sure, Idle
        <3> QED BY <2>1, <2>3, <3>1 DEF Sure, OnItsWay
    <2> QED BY <2>1, <2>2, <2>3 DEF NoLostWakeup, SomeoneSure, StoppedWakesAll
<1> QED BY <1>1, InvariantHolds, PTL

\* An operation that waits and could complete has an event of epoll still to come,
\* or an element of the queue that names it.
THEOREM EventsArrive == Spec => []NoLostEvent
<1>1. Inv => NoLostEvent
    <2> SUFFICES ASSUME Inv, NEW h \in Ops, op[h] = "pending", h \in able
                 PROVE  \/ Descriptor[h] \in events
                        \/ \E e \in Range(queue) : Names(e, h)
                        \/ \E t \in Threads : \/ \E e \in Range(private[t]) : Names(e, h)
                                              \/ Names(job[t], h)
        BY DEF NoLostEvent, Names
    <2>1. Expected(h)
        BY DEF Inv, Awaited
    <2>2. ASSUME NEW S, NEW s \in Seq(S), NamedIn(s, h)
          PROVE  \E e \in Range(s) : Names(e, h)
        <3>1. DOMAIN s = 1 .. Len(s)
            OBVIOUS
        <3> QED BY <2>2, <3>1 DEF NamedIn, Range
    <2>3. /\ queue \in Seq(Elements)
          /\ \A t \in Threads : private[t] \in Seq(Completions \cup Readies)
        BY DEF Inv, Types, ListTypes
    <2> QED BY <2>1, <2>2, <2>3 DEF Expected
<1> QED BY <1>1, InvariantHolds, PTL

\* When a thread calls epoll_wait, no descriptor is left in any queue, and no other
\* thread has the task: what epoll_wait returns may be linked into a queue again.
THEOREM PollFindsNothingQueued == Spec => []DequeuedBeforePoll
<1>1. ASSUME Inv, NEW t \in Threads, at[t] \in {"poll", "block"}
      PROVE  /\ \A e \in Range(queue) : e[1] = "op"
             /\ \A s \in Threads : \A e \in Range(private[s]) : e[1] = "op"
             /\ \A s \in Threads \ {t} : at[s] \notin {"poll", "block", "polled"}
    <2>1. OneTask /\ Locals /\ Types /\ Polls(t)
        BY <1>1 DEF Inv, Once, Polls
    <2>2. \A s \in Threads \ {t} : at[s] \notin {"poll", "block", "polled"}
        BY <2>1 DEF OneTask, Polls
    \* The task is in front of no descriptor, and it is gone from the queue.
    <2>3. ASSUME NEW i \in 1 .. Len(queue)
          PROVE  queue[i][1] = "op"
        <3>1. queue[i] \in Elements
            BY <2>1, ElementOfSeq DEF Types, ListTypes
        <3>2. queue[i] # Task /\ queue[i] \notin Readies
            BY <2>1, NoTaskHere DEF OneTask
        <3> QED BY <3>1, <3>2, ElementKinds
    \* Only the thread that returns from epoll_wait keeps descriptors to itself.
    <2>4. ASSUME NEW s \in Threads
          PROVE  private[s] \in Seq(Completions)
        <3>1. Local(s) /\ at[s] # "polled"
            BY <1>1, <2>1, <2>2 DEF Locals
        <3> QED BY <3>1, EmptySeq DEF Local
    <2>5. \A S : \A s \in Seq(S) : DOMAIN s = 1 .. Len(s)
        OBVIOUS
    <2>6. ASSUME NEW s \in Threads, NEW k \in 1 .. Len(private[s])
          PROVE  private[s][k][1] = "op"
        <3>1. private[s][k] \in Completions
            BY <2>4, ElementOfSeq
        <3> QED BY <3>1, ElementKinds
    <2>7. queue \in Seq(Elements)
        BY <2>1 DEF Types, ListTypes
    <2> QED BY <2>2, <2>3, <2>4, <2>5, <2>6, <2>7 DEF Range
<1>2. Inv => DequeuedBeforePoll
    BY <1>1 DEF DequeuedBeforePoll
<1> QED BY <1>2, InvariantHolds, PTL

-----------------------------------------------------------------------------
(***************************************************************************)
(* The contract with those who start operations and call run.              *)
(***************************************************************************)

OpBar == [h \in Ops |-> CASE op[h] \in {"pending", "ready"} -> "started"
                          [] OTHER -> op[h]]
AbleBar == able \cup {h \in Ops : Descriptor[h] \in closed}
ThreadBar == [t \in Threads |-> CASE at[t] = "out" -> "out"
                                  [] at[t] = "left" -> "left"
                                  [] OTHER -> "in"]

\* The contract's actions, of the mapped variables.
LEMMA ContractSteps ==
    /\ Contract!Init <=> /\ OpBar = [h \in Ops |-> "none"]
                         /\ AbleBar = {} /\ stopped = FALSE
                         /\ ThreadBar = [t \in Threads |-> "out"]
    /\ \A h \in Ops :
         Contract!Start(h) <=> /\ OpBar[h] = "none"
                               /\ OpBar' = [OpBar EXCEPT ![h] = "started"]
                               /\ UNCHANGED <<AbleBar, stopped, ThreadBar>>
    /\ \A h \in Ops :
         Contract!Invoke(h) <=> /\ OpBar[h] = "started" /\ h \in AbleBar
                                /\ \E t \in Threads : ThreadBar[t] = "in"
                                /\ OpBar' = [OpBar EXCEPT ![h] = "running"]
                                /\ UNCHANGED <<AbleBar, stopped, ThreadBar>>
    /\ \A h \in Ops :
         Contract!Return(h) <=> /\ OpBar[h] = "running"
                                /\ OpBar' = [OpBar EXCEPT ![h] = "done"]
                                /\ UNCHANGED <<AbleBar, stopped, ThreadBar>>
    /\ Contract!BecomeAble <=> /\ AbleBar' \in SUBSET Ops
                               /\ AbleBar \subseteq AbleBar'
                               /\ UNCHANGED <<OpBar, stopped, ThreadBar>>
    /\ Contract!Stop <=> /\ stopped' = TRUE
                         /\ \/ UNCHANGED ThreadBar
                            \/ \E t \in Threads :
                                 /\ ThreadBar[t] = "in"
                                 /\ ThreadBar' = [ThreadBar EXCEPT ![t] = "left"]
                         /\ UNCHANGED <<OpBar, AbleBar>>
    /\ \A t \in Threads :
         Contract!Enter(t) <=> /\ ThreadBar[t] = "out"
                               /\ ThreadBar' = [ThreadBar EXCEPT ![t] = "in"]
                               /\ UNCHANGED <<OpBar, AbleBar, stopped>>
    /\ \A t \in Threads :
         Contract!Leave(t) <=> /\ ThreadBar[t] = "in" /\ stopped
                               /\ ThreadBar' = [ThreadBar EXCEPT ![t] = "left"]
                               /\ UNCHANGED <<OpBar, AbleBar, stopped>>
BY DEF Contract!Init, Contract!Start, Contract!Invoke, Contract!Return,
       Contract!BecomeAble, Contract!Stop, Contract!Enter, Contract!Leave,
       OpBar, AbleBar, ThreadBar

LEMMA Bars ==
    ASSUME Types
    PROVE  /\ \A h \in Ops : op[h] \in {"pending", "ready"} => OpBar[h] = "started"
           /\ \A h \in Ops : op[h] \notin {"pending", "ready"} => OpBar[h] = op[h]
           /\ \A h \in Ops : h \in AbleBar <=> CanComplete(h)
           /\ AbleBar \subseteq Ops
           /\ \A t \in Threads : at[t] \in {"out", "left"} => ThreadBar[t] = at[t]
           /\ \A t \in Threads : at[t] \notin {"out", "left"} => ThreadBar[t] = "in"
           /\ OpBar = [h \in Ops |-> OpBar[h]]
           /\ ThreadBar = [t \in Threads |-> ThreadBar[t]]
<1>1. /\ \A h \in Ops : op[h] \in {"pending", "ready"} => OpBar[h] = "started"
      /\ \A h \in Ops : op[h] \notin {"pending", "ready"} => OpBar[h] = op[h]
    BY DEF OpBar
<1>2. \A t \in Threads : at[t] \in {"out", "left"} => ThreadBar[t] = at[t]
    <2>1. \A t \in Threads : at[t] = "out" => ThreadBar[t] = "out"
        BY DEF ThreadBar
    <2>2. \A t \in Threads : at[t] = "left" => ThreadBar[t] = "left"
        BY DEF ThreadBar
    <2> QED BY <2>1, <2>2
<1>3. \A t \in Threads : at[t] \notin {"out", "left"} => ThreadBar[t] = "in"
    BY DEF ThreadBar
<1>4. (\A h \in Ops : h \in AbleBar <=> CanComplete(h)) /\ AbleBar \subseteq Ops
    BY DEF AbleBar, CanComplete, Types, OtherTypes
<1>5. OpBar = [h \in Ops |-> OpBar[h]] /\ ThreadBar = [t \in Threads |-> ThreadBar[t]]
    BY DEF OpBar, ThreadBar
<1> QED BY <1>1, <1>2, <1>3, <1>4, <1>5

LEMMA StepRefines ==
    ASSUME Inv, Inv', [Next]_vars
    PROVE  [Contract!Next]_(Contract!vars)
<1> USE DEF queueVars, wakeVars, ioVars, threadVars
<1>1. /\ Types /\ Types' /\ Locals /\ Once
      /\ op \in [Ops -> States] /\ at \in [Actors -> Locations]
      /\ Actors = Threads \cup {User} /\ User \notin Threads
      /\ \A h \in Ops : op[h] = "ready" => CanComplete(h)
      /\ \A t \in Threads : at[t] = "io" => job[t][3] \subseteq able
    BY SomeTypes DEF Inv, Deliverable, Types, OtherTypes
<1> DEFINE Same == UNCHANGED <<OpBar, AbleBar, stopped, ThreadBar>>
           Goal == [Contract!Next]_(Contract!vars)
<1>2. Same => Goal
    BY DEF Contract!vars, OpBar, AbleBar, ThreadBar
<1>3. /\ \A h \in Ops : Contract!Start(h) \/ Contract!Invoke(h) \/ Contract!Return(h) => Goal
      /\ Contract!BecomeAble \/ Contract!Stop => Goal
      /\ \A t \in Threads : Contract!Enter(t) \/ Contract!Leave(t) => Goal
    BY DEF Contract!Next
<1> HIDE DEF Goal
<1>4. (\A h \in Ops : op'[h] = op[h] \/ (op[h] \in {"pending", "ready"}
                                          /\ op'[h] \in {"pending", "ready"}))
        => OpBar' = OpBar
    BY DEF OpBar
<1>5. UNCHANGED <<able, closed>> => AbleBar' = AbleBar
    BY DEF AbleBar
<1>6. (\A t \in Threads : (at'[t] = "out" <=> at[t] = "out")
                            /\ (at'[t] = "left" <=> at[t] = "left"))
        => ThreadBar' = ThreadBar
    BY DEF ThreadBar
<1>7. ASSUME NEW t \in Actors, at[t] \notin {"out", "left"},
             NEW place, place \notin {"out", "left"}, at' = [at EXCEPT ![t] = place]
      PROVE  ThreadBar' = ThreadBar
    BY <1>1, <1>6, <1>7
<1>8. ASSUME NEW t \in Threads, NEW place, at' = [at EXCEPT ![t] = place]
      PROVE  ThreadBar' = [ThreadBar EXCEPT ![t] =
                             IF place = "left" THEN "left"
                             ELSE IF place = "out" THEN "out" ELSE "in"]
    <2>1. at'[t] = place /\ \A s \in Threads : s # t => at'[s] = at[s]
        BY <1>1, <1>8
    <2>2. ThreadBar'[t] = IF place = "left" THEN "left"
                          ELSE IF place = "out" THEN "out" ELSE "in"
        <3>1. CASE place = "left"
            BY <2>1, <3>1 DEF ThreadBar
        <3>2. CASE place = "out"
            BY <2>1, <3>2 DEF ThreadBar
        <3>3. CASE place # "left" /\ place # "out"
            BY <2>1, <3>3 DEF ThreadBar
        <3> QED BY <3>1, <3>2, <3>3
    <2>3. \A s \in Threads : s # t => ThreadBar'[s] = ThreadBar[s]
        BY <2>1 DEF ThreadBar
    <2> QED BY <2>2, <2>3 DEF ThreadBar
<1>9. ASSUME NEW h \in Ops, NEW state, state \notin {"pending", "ready"},
             \A g \in Ops : \/ g = h /\ op'[g] = state
                            \/ g # h /\ op'[g] = op[g]
                            \/ /\ g # h
                               /\ op[g] \in {"pending", "ready"}
                               /\ op'[g] \in {"pending", "ready"}
      PROVE  OpBar' = [OpBar EXCEPT ![h] = state]
    <2>1. OpBar'[h] = state
        BY <1>9 DEF OpBar
    <2>2. \A g \in Ops : g # h => OpBar'[g] = OpBar[g]
        BY <1>9 DEF OpBar
    <2> QED BY <2>1, <2>2 DEF OpBar
<1>10. ASSUME NEW h \in Ops, NEW state \in {"pending", "ready"},
              op' = [op EXCEPT ![h] = state]
       PROVE  OpBar' = [OpBar EXCEPT ![h] = "started"]
    <2>1. op'[h] \in {"pending", "ready"} /\ \A g \in Ops : g # h => op'[g] = op[g]
        BY <1>1, <1>10
    <2>2. OpBar'[h] = "started"
        BY <2>1 DEF OpBar
    <2>3. \A g \in Ops : g # h => OpBar'[g] = OpBar[g]
        BY <2>1 DEF OpBar
    <2> QED BY <2>2, <2>3 DEF OpBar
<1>11. \A t \in Threads : at[t] \notin {"out", "left"} => ThreadBar[t] = "in"
    BY <1>1, Bars
<1>12. ASSUME NEW t \in Threads, Enter(t)
       PROVE  Goal
    <2>1. /\ at[t] = "out" /\ UNCHANGED <<op, able, closed, stopped>>
          /\ \E place \in {"quit", "loop"} : at' = [at EXCEPT ![t] = place]
        BY <1>12 DEF Enter, Goto
    <2>2. ThreadBar' = [ThreadBar EXCEPT ![t] = "in"]
        BY <1>8, <2>1
    <2>3. ThreadBar[t] = "out"
        BY <1>1, <2>1, Bars
    <2>4. Contract!Enter(t)
        BY <1>4, <1>5, <2>1, <2>2, <2>3, ContractSteps
    <2> QED BY <1>3, <2>4
<1>13. ASSUME NEW t \in Threads, StopService(t)
       PROVE  Goal
    <2>1. /\ at[t] \in {"quit", "finished"} /\ stopped' = TRUE
          /\ UNCHANGED <<op, able, closed>>
          /\ at' = [at EXCEPT ![t] = IF at[t] = "quit" THEN "left" ELSE "loop"]
        BY <1>13 DEF StopService, StopAll, Goto
    <2>2. UNCHANGED <<OpBar, AbleBar>> /\ ThreadBar[t] = "in"
        BY <1>4, <1>5, <1>11, <2>1
    <2>3. CASE at[t] = "quit"
        <3>1. ThreadBar' = [ThreadBar EXCEPT ![t] = "left"]
            BY <1>8, <2>1, <2>3
        <3>2. Contract!Stop
            BY <2>1, <2>2, <3>1, ContractSteps
        <3> QED BY <1>3, <3>2
    <2>4. CASE at[t] = "finished"
        <3>1. at' = [at EXCEPT ![t] = "loop"] /\ t \in Actors
            BY <1>1, <2>1, <2>4
        <3>2. ThreadBar' = ThreadBar
            BY <1>7, <2>4, <3>1
        <3>3. Contract!Stop
            BY <2>1, <2>2, <3>2, ContractSteps
        <3> QED BY <1>3, <3>3
    <2> QED BY <2>1, <2>3, <2>4
<1>14. ASSUME NEW t \in Threads, Leave(t)
       PROVE  Goal
    <2>1. /\ at[t] \in {"loop", "wait"} /\ stopped /\ stopped' = stopped
          /\ UNCHANGED <<op, able, closed>> /\ at' = [at EXCEPT ![t] = "left"]
        BY <1>14 DEF Leave, Looping, Goto
    <2>2. ThreadBar' = [ThreadBar EXCEPT ![t] = "left"]
        BY <1>8, <2>1
    <2>3. Contract!Leave(t)
        BY <1>4, <1>5, <1>11, <2>1, <2>2, ContractSteps
    <2> QED BY <1>3, <2>3
<1>15. ASSUME NEW t \in Threads, Wait(t)
       PROVE  Goal
    <2>1. /\ at[t] \in {"loop", "wait"} /\ UNCHANGED <<op, able, closed, stopped>>
          /\ at' = [at EXCEPT ![t] = "wait"] /\ t \in Actors
        BY <1>1, <1>15 DEF Wait, Looping, Goto
    <2>2. ThreadBar' = ThreadBar
        BY <1>7, <2>1
    <2> QED BY <1>2, <1>4, <1>5, <2>1, <2>2
<1>16. ASSUME NEW t \in Threads, WaitAgain(t) \/ WakeSpuriously(t)
       PROVE  Goal
    <2>1. UNCHANGED <<op, able, closed, stopped, at>>
        BY <1>16 DEF WaitAgain, WakeSpuriously
    <2> QED BY <1>2, <1>4, <1>5, <1>6, <2>1
<1>17. ASSUME NEW t \in Threads, PerformNothing(t)
       PROVE  Goal
    <2>1. /\ at[t] = "io" /\ UNCHANGED <<op, able, closed, stopped>>
          /\ at' = [at EXCEPT ![t] = "cleanup"] /\ t \in Actors
        BY <1>1, <1>17 DEF PerformNothing, Goto
    <2>2. ThreadBar' = ThreadBar
        BY <1>7, <2>1
    <2> QED BY <1>2, <1>4, <1>5, <2>1, <2>2
<1>18. ASSUME NEW t \in Threads, Return(t)
       PROVE  Goal
    <2>1. /\ at[t] \in {"run", "cleanup"} /\ t \in Actors
          /\ op' = [h \in Ops |-> IF job[t] = Completed(h) THEN "done" ELSE op[h]]
          /\ \E place \in {"flush", "finished", "loop"} : at' = [at EXCEPT ![t] = place]
          /\ UNCHANGED <<able, closed, stopped>>
        BY <1>1, <1>18, ReturnEffect
    <2>2. ThreadBar' = ThreadBar
        BY <1>7, <2>1
    <2>3. CASE \E h \in Ops : job[t] = Completed(h)
        <3>1. PICK h \in Ops : job[t] = Completed(h)
            BY <2>3
        <3>2. op[h] = "running"
            BY <1>1, <3>1 DEF Once, OncePlaced, Runs
        <3>3. \A g \in Ops : op'[g] = IF g = h THEN "done" ELSE op[g]
            BY <2>1, <3>1, Keys
        <3>4. OpBar' = [OpBar EXCEPT ![h] = "done"]
            BY <1>9, <3>3
        <3>5. OpBar[h] = "running"
            BY <1>1, <3>2, Bars
        <3>6. Contract!Return(h)
            BY <1>5, <2>1, <2>2, <3>4, <3>5, ContractSteps
        <3> QED BY <1>3, <3>6
    <2>4. CASE ~ \E h \in Ops : job[t] = Completed(h)
        <3>1. \A h \in Ops : op'[h] = op[h]
            BY <2>1, <2>4
        <3> QED BY <1>2, <1>4, <1>5, <2>1, <2>2, <3>1
    <2> QED BY <2>3, <2>4
<1>19. ASSUME NEW h \in Ops, CanComplete(h), op[h] \in {"pending", "ready"},
              NEW t \in Threads, at[t] \notin {"out", "left"},
              UNCHANGED <<able, closed, stopped>>, ThreadBar' = ThreadBar,
              OpBar' = [OpBar EXCEPT ![h] = "running"]
       PROVE  Goal
    <2>1. OpBar[h] = "started" /\ h \in AbleBar
        BY <1>1, <1>19, Bars
    <2>2. Contract!Invoke(h)
        BY <1>5, <1>11, <1>19, <2>1, ContractSteps
    <2> QED BY <1>3, <2>2
<1>20. ASSUME NEW t \in Threads, PickTask(t) \/ PickHandler(t)
       PROVE  Goal
    <2>1. /\ at[t] \in {"loop", "wait"} /\ t \in Actors
          /\ queue # <<>> /\ queue \in Seq(Elements)
          /\ \E place \in {"poll", "block", "run", "io"} : at' = [at EXCEPT ![t] = place]
          /\ UNCHANGED <<able, closed, stopped>>
        BY <1>1, <1>20, PickEffect DEF Looping, Types, ListTypes
    <2>2. ThreadBar' = ThreadBar
        BY <1>7, <2>1
    <2>3. CASE op' = op
        BY <1>2, <1>4, <1>5, <2>1, <2>2, <2>3
    <2>4. CASE Head(queue) \in Completions /\ op' = [op EXCEPT ![Head(queue)[2]] = "running"]
        <3>1. PICK h \in Ops : Head(queue) = Completed(h) /\ Head(queue)[2] = h
            BY <2>4, ElementKinds
        <3>2. Queued(h)
            BY <2>1, <3>1, TailHolds, Keys DEF Queued
        <3>3. op[h] = "ready"
            BY <1>1, <3>2 DEF Once, OncePlaced
        <3>4. \A g \in Ops : op'[g] = IF g = h THEN "running" ELSE op[g]
            BY <1>1, <2>4, <3>1
        <3>5. OpBar' = [OpBar EXCEPT ![h] = "running"]
            BY <1>9, <3>4
        <3> QED BY <1>1, <1>19, <2>1, <2>2, <3>3, <3>5
    <2> QED BY <1>1, <1>20, <2>3, <2>4, PickEffect
<1>21. ASSUME NEW t \in Threads, PerformIo(t)
       PROVE  Goal
    <2>1. PICK first \in Ops, u \in Seq(Completions) : PerformEffect(t, first, u)
        BY <1>1, <1>21, PerformIoEffect
    <2>2. /\ at[t] = "io" /\ t \in Actors
          /\ \E place \in {"run", "push"} : at' = [at EXCEPT ![t] = place]
          /\ UNCHANGED <<able, closed, stopped>>
        BY <1>1, <2>1 DEF PerformEffect
    <2>3. ThreadBar' = ThreadBar
        BY <1>7, <2>2
    <2>4. op[first] = "pending" /\ CanComplete(first)
        BY <1>1, <2>1, <2>2 DEF PerformEffect, CanComplete
    <2>5. \A g \in Ops : \/ g = first /\ op'[g] = "running"
                         \/ g # first /\ op'[g] = op[g]
                         \/ /\ g # first
                            /\ op[g] \in {"pending", "ready"}
                            /\ op'[g] \in {"pending", "ready"}
        BY <2>1 DEF PerformEffect
    <2>6. OpBar' = [OpBar EXCEPT ![first] = "running"]
        BY <1>9, <2>5
    <2> QED BY <1>19, <2>2, <2>3, <2>4, <2>6
<1>22. ASSUME NEW t \in Threads, Poll(t) \/ TaskCleanup(t) \/ Flush(t)
       PROVE  Goal
    <2>1. /\ at[t] \in {"poll", "block", "polled", "flush"} /\ t \in Actors
          /\ UNCHANGED <<op, able, closed, stopped>>
        BY <1>1, <1>22 DEF Poll, TaskCleanup, Flush
    <2>2. \E place \in {"polled", "loop"} : at' = [at EXCEPT ![t] = place]
        BY <1>22 DEF Poll, TaskCleanup, Flush, Goto
    <2>3. ThreadBar' = ThreadBar
        BY <1>7, <2>1, <2>2
    <2> QED BY <1>2, <1>4, <1>5, <2>1, <2>3
<1>23. ASSUME NEW t \in Actors, Push(t)
       PROVE  Goal
    <2>1. /\ at[t] = "push" /\ UNCHANGED <<op, able, closed, stopped>>
          /\ \E place \in {"user", "run", "shut"} : at' = [at EXCEPT ![t] = place]
        BY <1>23 DEF Push, Outside, Goto
    <2>2. ThreadBar' = ThreadBar
        BY <1>7, <2>1
    <2> QED BY <1>2, <1>4, <1>5, <2>1, <2>2
<1>24. ASSUME NEW t \in Actors, NEW h \in Ops, op[h] = "none", at[t] = Outside(t),
              NEW state \in {"pending", "ready"}, op' = [op EXCEPT ![h] = state],
              UNCHANGED <<able, closed, stopped>>,
              at' = at \/ at' = [at EXCEPT ![t] = "push"]
       PROVE  Goal
    <2>1. OpBar' = [OpBar EXCEPT ![h] = "started"]
        BY <1>10, <1>24
    <2>2. OpBar[h] = "none"
        BY <1>1, <1>24, Bars
    <2>3. ThreadBar' = ThreadBar
        BY <1>6, <1>7, <1>24 DEF Outside
    <2>4. Contract!Start(h)
        BY <1>5, <1>24, <2>1, <2>2, <2>3, ContractSteps
    <2> QED BY <1>3, <2>4
<1>25. ASSUME NEW t \in Actors, NEW h \in Ops, NEW cont \in BOOLEAN,
              StartCompletes(t, h, cont)
       PROVE  Goal
    <2>1. /\ op[h] = "none" /\ at[t] = Outside(t) /\ op' = [op EXCEPT ![h] = "ready"]
          /\ UNCHANGED <<able, closed, stopped>>
          /\ at' = at \/ at' = [at EXCEPT ![t] = "push"]
        BY <1>25 DEF StartCompletes, May, Goto
    <2> QED BY <1>24, <2>1
<1>26. ASSUME QuietElse
       PROVE  Goal
    <2>1. ASSUME NEW t \in Actors, NEW h \in Ops, StartWaits(t, h)
          PROVE  Goal
        <3>1. /\ op[h] = "none" /\ at[t] = Outside(t) /\ op' = [op EXCEPT ![h] = "pending"]
              /\ UNCHANGED <<able, closed, stopped, at>>
            BY <2>1 DEF StartWaits, May
        <3> QED BY <1>24, <3>1
    <2>2. CASE Stop
        <3>1. stopped' = TRUE /\ UNCHANGED <<op, able, closed, at>>
            BY <2>2 DEF Stop, StopAll
        <3>2. Contract!Stop
            BY <1>4, <1>5, <1>6, <3>1, ContractSteps
        <3> QED BY <1>3, <3>2
    <2>3. ASSUME NEW h \in Ops, BecomeAble(h)
          PROVE  Goal
        <3>1. able' = able \cup {h} /\ UNCHANGED <<op, closed, stopped, at>>
            BY <2>3 DEF BecomeAble
        <3>2. AbleBar \subseteq AbleBar' /\ AbleBar' \subseteq Ops
            BY <1>1, <3>1 DEF AbleBar, Types, OtherTypes
        <3>3. Contract!BecomeAble
            BY <1>4, <1>6, <3>1, <3>2, ContractSteps
        <3> QED BY <1>3, <3>3
    <2>4. ASSUME NEW t \in Actors, Shut(t)
          PROVE  Goal
        <3>1. /\ at[t] = "shut" /\ UNCHANGED <<op, able, closed, stopped>>
              /\ \E place \in {"user", "run"} : at' = [at EXCEPT ![t] = place]
            BY <1>1, <2>4, ShutEffect DEF Outside
        <3>2. ThreadBar' = ThreadBar
            BY <1>7, <3>1
        <3> QED BY <1>2, <1>4, <1>5, <3>1, <3>2
    <2> QED BY <1>26, <2>1, <2>2, <2>3, <2>4 DEF QuietElse
<1>27. ASSUME NEW t \in Actors, NEW d \in Descriptors, Close(t, d)
       PROVE  Goal
    <2>1. PICK u \in Seq(Completions) : CloseEffect(t, d, u)
        BY <1>1, <1>27, CloseEffects
    <2>2. /\ at[t] = Outside(t) /\ closed' = closed \cup {d} /\ UNCHANGED <<able, stopped>>
          /\ \E place \in {"shut", "push"} : at' = [at EXCEPT ![t] = place]
        BY <2>1 DEF CloseEffect
    <2>3. \A h \in Ops : op'[h] = op[h] \/ (op[h] \in {"pending", "ready"}
                                             /\ op'[h] \in {"pending", "ready"})
        BY <2>1 DEF CloseEffect
    <2>4. ThreadBar' = ThreadBar
        BY <1>7, <2>2 DEF Outside
    <2>5. AbleBar \subseteq AbleBar' /\ AbleBar' \subseteq Ops
        BY <1>1, <2>2 DEF AbleBar, Types, OtherTypes
    <2>6. Contract!BecomeAble
        BY <1>4, <2>2, <2>3, <2>4, <2>5, ContractSteps
    <2> QED BY <1>3, <2>6
<1>28. ASSUME UNCHANGED vars
       PROVE  Goal
    <2>1. UNCHANGED <<op, able, closed, stopped, at>>
        BY <1>28 DEF vars
    <2> QED BY <1>2, <1>4, <1>5, <1>6, <2>1
<1>29. ASSUME NEW t \in Threads, Quiet(t)
       PROVE  Goal
    BY <1>12, <1>13, <1>14, <1>15, <1>16, <1>17, <1>18, <1>29 DEF Quiet
<1>30. ASSUME Next
       PROVE  Goal
    BY <1>20, <1>21, <1>22, <1>23, <1>25, <1>26, <1>27, <1>29, <1>30, Steps
<1> QED BY <1>28, <1>30 DEF Goal

\* Handlers are invoked once, by threads inside run, for operations that have been
\* started and can complete or were cancelled, and a thread leaves run only when
\* the service has stopped.
THEOREM ServiceKeepsContract == Spec => KeepsContract
<1>1. Init => Contract!Init
    <2> SUFFICES ASSUME Init PROVE Contract!Init
        OBVIOUS
    <2>1. Types /\ \A t \in Threads : at[t] = "out"
        BY SomeTypes, InvInit DEF Inv, Init
    <2>2. OpBar = [h \in Ops |-> "none"]
        BY DEF Init, OpBar
    <2>3. ThreadBar = [t \in Threads |-> "out"]
        BY <2>1 DEF ThreadBar
    <2>4. AbleBar = {} /\ stopped = FALSE
        BY DEF Init, InitReactor, AbleBar
    <2> QED BY <2>2, <2>3, <2>4, ContractSteps
<1>2. Inv /\ Inv' /\ [Next]_vars => [Contract!Next]_(Contract!vars)
    BY StepRefines
<1> QED BY <1>1, <1>2, InvariantHolds, PTL DEF Spec, Contract!Spec, KeepsContract
=============================================================================
