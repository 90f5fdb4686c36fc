-------------------------- MODULE SelectionProofs --------------------------
(***************************************************************************)
(* Facts about Selected, for every sequence and every set, and the two     *)
(* forms of induction the proofs of this project use.  They are stated for *)
(* sets, so that they need no operator as a parameter: a claim about all   *)
(* sequences is the claim that the set of those that satisfy it has the    *)
(* empty sequence and is closed under Append.                              *)
(***************************************************************************)
EXTENDS Selection, Integers, SequenceTheorems, WellFoundedInduction, TLAPS

-----------------------------------------------------------------------------
(***************************************************************************)
(* Induction.                                                              *)
(***************************************************************************)

\* A nonempty set of naturals has a least element.
LEMMA NatMin ==
        ASSUME NEW T \in SUBSET Nat, T # {}
        PROVE  \E x \in T : \A y \in T : x <= y
<1> DEFINE R == OpToRel(<, Nat)
<1>1. IsWellFoundedOn(R, Nat)
    BY NatLessThanWellFounded
<1>2. \A x, y \in Nat : x < y => <<x, y>> \in R
    BY DEF OpToRel
<1> HIDE DEF R
<1>3. PICK x \in T : \A y \in T : ~ (<<y, x>> \in R)
    BY <1>1, WFMin
<1>4. ASSUME NEW y \in T PROVE x <= y
    <2>1. x \in Nat /\ y \in Nat
        OBVIOUS
    <2>2. ~ (y < x)
        BY <1>2, <1>3, <2>1, Zenon
    <2> QED BY <2>1, <2>2
<1> QED BY <1>4

\* A set of sequences that holds the empty sequence and is closed under Append
\* holds them all.
LEMMA SeqInduction ==
        ASSUME NEW S, NEW G, <<>> \in G,
           \A s \in Seq(S) : \A e \in S : s \in G => Append(s, e) \in G
        PROVE  \A s \in Seq(S) : s \in G
<1> DEFINE Bad == {n \in Nat : \E s \in Seq(S) : s \notin G /\ Len(s) = n}
<1> SUFFICES ASSUME NEW s0 \in Seq(S), s0 \notin G PROVE FALSE
    OBVIOUS
<1>1. Bad # {}
    BY LenProperties
<1>2. PICK n \in Bad : \A m \in Bad : n <= m
    <2>1. Bad \in SUBSET Nat
        OBVIOUS
    <2> HIDE DEF Bad
    <2> QED BY <1>1, <2>1, NatMin
<1>3. PICK s \in Seq(S) : s \notin G /\ Len(s) = n
    OBVIOUS
<1>4. PICK t \in Seq(S), e \in S : s = Append(t, e)
    BY <1>3, SequenceEmptyOrAppend
<1>5. Len(t) \in Nat /\ Len(t) = n - 1
    BY <1>3, <1>4, AppendProperties, LenProperties
<1>6. t \in G
    BY <1>2, <1>5
<1> QED BY <1>3, <1>4, <1>6

-----------------------------------------------------------------------------
(***************************************************************************)
(* The recursive function that defines Selected.                           *)
(***************************************************************************)

\* f satisfies the equation of the function upTo of Selected, up to n.
SelEq(s, T, n, f) ==
    f = [i \in 0 .. n |->
            IF i = 0 THEN <<>>
            ELSE IF s[i] \in T THEN Append(f[i - 1], s[i]) ELSE f[i - 1]]

\* Some function satisfies the equation.
LEMMA SelExists ==
    ASSUME NEW s, NEW T, NEW n \in Nat
    PROVE  \E f : SelEq(s, T, n, f)
<1> DEFINE Bad == {m \in Nat : ~ \E f : SelEq(s, T, m, f)}
<1> SUFFICES ASSUME Bad # {} PROVE FALSE
    OBVIOUS
<1>1. PICK m \in Bad : \A k \in Bad : m <= k
    <2>1. Bad \in SUBSET Nat
        OBVIOUS
    <2> HIDE DEF Bad
    <2> QED BY NatMin, <2>1
<1>2. m # 0
    <2> DEFINE f == [i \in 0 .. 0 |-> <<>>]
    <2>1. SelEq(s, T, 0, f)
        BY DEF SelEq
    <2> QED BY <2>1
<1>3. m - 1 \in Nat /\ m - 1 \notin Bad
    BY <1>1, <1>2
<1>4. PICK f : SelEq(s, T, m - 1, f)
    BY <1>3
<1> DEFINE g == [i \in 0 .. m |->
                    IF i < m THEN f[i]
                    ELSE IF s[m] \in T THEN Append(f[m - 1], s[m])
                    ELSE f[m - 1]]
<1>5. SelEq(s, T, m, g)
    <2> DEFINE h == [i \in 0 .. m |->
                        IF i = 0 THEN <<>>
                        ELSE IF s[i] \in T THEN Append(g[i - 1], s[i]) ELSE g[i - 1]]
    <2>1. ASSUME NEW i \in 0 .. m PROVE g[i] = h[i]
        <3>1. m \in Nat
            OBVIOUS
        <3>2. CASE i = m
            BY <3>1, <3>2, <1>2
        <3>3. CASE i # m
            <4>1. i \in 0 .. m - 1 /\ g[i] = f[i]
                BY <3>3
            <4>2. i # 0 => i - 1 \in 0 .. m - 1 /\ g[i-1] = f[i-1]
                BY <3>1, <4>1
            <4>3. f[i] = IF i = 0 THEN <<>>
                         ELSE IF s[i] \in T THEN Append(f[i - 1], s[i]) ELSE f[i - 1]
                BY <1>4, <4>1 DEF SelEq
            <4> QED BY <4>1, <4>2, <4>3
        <3> QED BY <3>2, <3>3
    <2>2. g = h
        <3>1. g = [i \in 0 .. m |-> g[i]]
            OBVIOUS
        <3> HIDE DEF g
        <3> QED BY <2>1, <3>1
    <2> HIDE DEF g
    <2> QED BY <2>2 DEF SelEq
<1> QED BY <1>5

\* What the equation says at each argument.
LEMMA SelStep ==
    ASSUME NEW s, NEW T, NEW n \in Nat, NEW f, SelEq(s, T, n, f)
    PROVE  /\ f[0] = <<>>
           /\ \A i \in 1 .. n :
                f[i] = IF s[i] \in T THEN Append(f[i - 1], s[i]) ELSE f[i - 1]
<1>1. \A i \in 0 .. n : f[i] = IF i = 0 THEN <<>>
                                ELSE IF s[i] \in T THEN Append(f[i - 1], s[i]) ELSE f[i - 1]
    BY DEF SelEq
<1> QED BY <1>1

\* Functions that satisfy the equation for sequences and sets that agree up to
\* k agree at k.
LEMMA SelUnique ==
    ASSUME NEW s, NEW t, NEW T, NEW U, NEW n \in Nat, NEW m \in Nat,
           NEW f, NEW g,
           SelEq(s, T, n, f), SelEq(t, U, m, g),
           NEW k \in Nat, k <= n, k <= m,
           \A i \in 1 .. k : s[i] = t[i] /\ (s[i] \in T <=> s[i] \in U)
    PROVE  f[k] = g[k]
<1> DEFINE Bad == {i \in 0 .. k : f[i] # g[i]}
<1> SUFFICES ASSUME Bad # {} PROVE FALSE
    OBVIOUS
<1>1. PICK i \in Bad : \A j \in Bad : i <= j
    <2>1. Bad \in SUBSET Nat
        OBVIOUS
    <2> HIDE DEF Bad
    <2> QED BY NatMin, <2>1
<1>2. i # 0
    BY SelStep
<1>3. i - 1 \in 0 .. k /\ f[i - 1] = g[i - 1]
    BY <1>1, <1>2
<1>4. i \in 1 .. k /\ i \in 1 .. n /\ i \in 1 .. m
    BY <1>2
<1>5. f[i] = IF s[i] \in T THEN Append(f[i - 1], s[i]) ELSE f[i - 1]
    BY <1>4, SelStep
<1>6. g[i] = IF t[i] \in U THEN Append(g[i - 1], t[i]) ELSE g[i - 1]
    BY <1>4, SelStep
<1>7. f[i] = g[i]
    BY <1>3, <1>4, <1>5, <1>6
<1> QED BY <1>7

\* Selected is the value of such a function.
LEMMA SelectedIs ==
    ASSUME NEW s, NEW T, Len(s) \in Nat
    PROVE  \E f : SelEq(s, T, Len(s), f) /\ Selected(s, T) = f[Len(s)]
<1> DEFINE F == CHOOSE f : SelEq(s, T, Len(s), f)
<1>1. SelEq(s, T, Len(s), F)
    BY SelExists
<1>2. Selected(s, T) = F[Len(s)]
    BY Zenon DEF Selected, SelEq
<1> QED BY <1>1, <1>2

-----------------------------------------------------------------------------
(***************************************************************************)
(* Facts to cite.                                                          *)
(***************************************************************************)

\* Nothing is selected from the empty sequence.
LEMMA SelectedEmpty == ASSUME NEW T PROVE Selected(<<>>, T) = <<>>
BY SelectedIs, EmptySeq DEF SelEq

\* An appended element is selected if it is in the set.
LEMMA SelectedAppend ==
    ASSUME NEW S, NEW s \in Seq(S), NEW e \in S, NEW T
    PROVE  Selected(Append(s, e), T) =
              IF e \in T THEN Append(Selected(s, T), e) ELSE Selected(s, T)
<1> DEFINE t == Append(s, e)
<1>1. /\ Len(s) \in Nat /\ Len(t) = Len(s) + 1 /\ t[Len(s) + 1] = e
      /\ \A i \in 1 .. Len(s) : t[i] = s[i]
    BY AppendProperties, LenProperties
<1> HIDE DEF t
<1>2. PICK f : SelEq(s, T, Len(s), f) /\ Selected(s, T) = f[Len(s)]
    BY SelectedIs, <1>1
<1>3. PICK g : SelEq(t, T, Len(t), g) /\ Selected(t, T) = g[Len(t)]
    BY SelectedIs, <1>1
<1> DEFINE n == Len(s)
<1>4. f[n] = g[n]
    <2>1. n \in Nat /\ n <= n /\ n <= Len(t) /\ Len(t) \in Nat
        BY <1>1
    <2>2. \A i \in 1 .. n : s[i] = t[i] /\ (s[i] \in T <=> s[i] \in T)
        BY <1>1
    <2>3. SelEq(s, T, n, f) /\ SelEq(t, T, Len(t), g)
        BY <1>2, <1>3
    <2> HIDE DEF n
    <2> QED BY <2>1, <2>2, <2>3, SelUnique
<1>5. g[Len(t)] = IF e \in T THEN Append(g[Len(s)], e) ELSE g[Len(s)]
    <2>1. Len(t) \in Nat /\ Len(t) \in 1 .. Len(t) /\ Len(t) - 1 = Len(s)
          /\ t[Len(t)] = e
        BY <1>1
    <2>2. g[Len(t)] = IF t[Len(t)] \in T
                          THEN Append(g[Len(t) - 1], t[Len(t)])
                          ELSE g[Len(t) - 1]
        BY <1>3, <2>1, SelStep
    <2> QED BY <2>1, <2>2
<1> QED BY <1>2, <1>3, <1>4, <1>5 DEF t

\* What is selected from a sequence over S is a sequence over S.
LEMMA SelectedType ==
    ASSUME NEW S, NEW T, NEW s \in Seq(S)
    PROVE  Selected(s, T) \in Seq(S)
<1> DEFINE G == {t \in Seq(S) : Selected(t, T) \in Seq(S)}
<1>1. <<>> \in G
    BY EmptySeq, SelectedEmpty
<1>2. ASSUME NEW t \in Seq(S), NEW e \in S, t \in G PROVE Append(t, e) \in G
    <2>1. /\ Append(t, e) \in Seq(S)
          /\ Selected(t, T) \in Seq(S)
          /\ Append(Selected(t, T), e) \in Seq(S)
        BY <1>2, AppendProperties
    <2>2. Selected(Append(t, e), T)
            \in {Selected(t, T), Append(Selected(t, T), e)}
        BY SelectedAppend
    <2> QED BY <2>1, <2>2
<1> HIDE DEF G
<1>3. s \in G
    BY <1>1, <1>2, SeqInduction
<1> QED BY <1>3 DEF G

\* Sets that agree on the elements of a sequence select the same ones.
LEMMA SelectedSame ==
    ASSUME NEW S, NEW T, NEW U, NEW s \in Seq(S),
           \A i \in 1 .. Len(s) : s[i] \in T <=> s[i] \in U
    PROVE  Selected(s, T) = Selected(s, U)
<1>1. Len(s) \in Nat
    BY LenProperties
<1>2. PICK f : SelEq(s, T, Len(s), f) /\ Selected(s, T) = f[Len(s)]
    BY SelectedIs, <1>1
<1>3. PICK g : SelEq(s, U, Len(s), g) /\ Selected(s, U) = g[Len(s)]
    BY SelectedIs, <1>1
<1>4. f[Len(s)] = g[Len(s)]
    BY <1>1, <1>2, <1>3, SelUnique
<1> QED BY <1>2, <1>3, <1>4

\* A set that holds all elements selects the whole sequence.
LEMMA SelectedAll ==
    ASSUME NEW S, NEW T, NEW s \in Seq(S), \A i \in 1 .. Len(s) : s[i] \in T
    PROVE  Selected(s, T) = s
<1> DEFINE G == {t \in Seq(S) :
                   (\A i \in 1 .. Len(t) : t[i] \in T) => Selected(t, T) = t}
<1>1. <<>> \in G
    BY EmptySeq, SelectedEmpty
<1>2. ASSUME NEW t \in Seq(S), NEW e \in S, t \in G PROVE Append(t, e) \in G
    <2>1. /\ Append(t, e) \in Seq(S)
                /\ Len(t) \in Nat /\ Len(Append(t, e)) = Len(t) + 1
                /\ \A i \in 1 .. Len(t) : Append(t, e)[i] = t[i]
                /\ Append(t, e)[Len(t) + 1] = e
        BY AppendProperties, LenProperties
    <2>2. ASSUME \A i \in 1 .. Len(Append(t, e)) : Append(t, e)[i] \in T
                PROVE  Selected(Append(t, e), T) = Append(t, e)
        <3>1. e \in T /\ \A i \in 1 .. Len(t) : t[i] \in T
            BY <2>1, <2>2
        <3>2. Selected(t, T) = t
            BY <1>2, <3>1
        <3> QED BY <3>1, <3>2, SelectedAppend
    <2> QED BY <2>1, <2>2
<1> HIDE DEF G
<1>3. s \in G
    BY <1>1, <1>2, SeqInduction
<1> QED BY <1>3 DEF G

-----------------------------------------------------------------------------
(***************************************************************************)
(* What is selected from the first k elements of a sequence.               *)
(***************************************************************************)

\* The first elements of a sequence stay when it grows.
LEMMA PrefixOfAppend ==
    ASSUME NEW S, NEW s \in Seq(S), NEW e \in S, NEW k \in 0 .. Len(s)
    PROVE  SubSeq(Append(s, e), 1, k) = SubSeq(s, 1, k)
<1>1. /\ Len(s) \in Nat /\ k \in Int /\ 1 \in Int
      /\ Append(s, e) \in Seq(S)
      /\ \A i \in 1 .. Len(s) : Append(s, e)[i] = s[i] /\ s[i] \in S
    BY AppendProperties, LenProperties, ElementOfSeq
<1>2. \A i \in 1 .. k : s[i] \in S /\ Append(s, e)[i] \in S
    BY <1>1
<1> DEFINE a == SubSeq(Append(s, e), 1, k)
           b == SubSeq(s, 1, k)
<1>3. /\ a \in Seq(S) /\ Len(a) = IF 1 <= k THEN k - 1 + 1 ELSE 0
      /\ \A i \in 1 .. k - 1 + 1 : a[i] = Append(s, e)[1 + i - 1]
    BY <1>1, <1>2, SubSeqProperties
<1>4. /\ b \in Seq(S) /\ Len(b) = IF 1 <= k THEN k - 1 + 1 ELSE 0
      /\ \A i \in 1 .. k - 1 + 1 : b[i] = s[1 + i - 1]
    BY <1>1, <1>2, SubSeqProperties
<1> HIDE DEF a, b
<1>5. k - 1 + 1 = k /\ \A i \in 1 .. k : 1 + i - 1 = i
    BY <1>1
<1>6. \A i \in 1 .. k : a[i] = b[i]
    BY <1>1, <1>3, <1>4, <1>5
<1>7. Len(a) = Len(b) /\ (Len(a) = k \/ Len(a) = 0)
    BY <1>3, <1>4, <1>5
<1>8. \A i \in 1 .. Len(a) : a[i] = b[i]
    BY <1>6, <1>7
<1>9. a = b
    BY <1>3, <1>4, <1>7, <1>8, SeqEqual
<1> QED BY <1>9 DEF a, b

\* The first k elements are the first k - 1 and one more.
LEMMA PrefixStep ==
    ASSUME NEW S, NEW s \in Seq(S), NEW k \in 1 .. Len(s)
    PROVE  /\ SubSeq(s, 1, k - 1) \in Seq(S) /\ s[k] \in S
           /\ SubSeq(s, 1, k) = Append(SubSeq(s, 1, k - 1), s[k])
<1>1. /\ Len(s) \in Nat /\ k - 1 \in Int /\ 1 \in Int /\ s[k] \in S
      /\ \A i \in 1 .. k - 1 : s[i] \in S
    BY LenProperties, ElementOfSeq
<1>2. SubSeq(s, 1, k - 1) \in Seq(S)
    BY <1>1, SubSeqProperties
<1>3. 1 \in 1 .. Len(s) /\ k \in 1 .. Len(s)
    BY <1>1
<1>4. SubSeq(s, 1, k) = SubSeq(s, 1, k - 1) \o <<s[k]>>
    BY <1>3, SubSeqRecursiveSecond
<1> QED BY <1>1, <1>2, <1>4, AppendIsConcat

\* One more element is selected if it is in the set.
LEMMA SelectedStep ==
    ASSUME NEW S, NEW T, NEW s \in Seq(S), NEW k \in 1 .. Len(s)
    PROVE  Selected(SubSeq(s, 1, k), T) =
              IF s[k] \in T THEN Append(Selected(SubSeq(s, 1, k - 1), T), s[k])
                            ELSE Selected(SubSeq(s, 1, k - 1), T)
<1>1. /\ SubSeq(s, 1, k - 1) \in Seq(S) /\ s[k] \in S
      /\ SubSeq(s, 1, k) = Append(SubSeq(s, 1, k - 1), s[k])
    BY PrefixStep
<1> DEFINE t == SubSeq(s, 1, k - 1)
           e == s[k]
<1> HIDE DEF t, e
<1>2. t \in Seq(S) /\ e \in S /\ SubSeq(s, 1, k) = Append(t, e)
    BY <1>1 DEF t, e
<1>3. Selected(Append(t, e), T) =
         IF e \in T THEN Append(Selected(t, T), e) ELSE Selected(t, T)
    BY <1>2, SelectedAppend
<1> QED BY <1>2, <1>3 DEF t, e

\* Elements that are not in the set add nothing.
LEMMA SelectedSkip ==
    ASSUME NEW S, NEW T, NEW s \in Seq(S),
           NEW a \in Nat, NEW b \in Nat, a <= b, b <= Len(s),
           \A i \in a + 1 .. b : s[i] \notin T
    PROVE  Selected(SubSeq(s, 1, b), T) = Selected(SubSeq(s, 1, a), T)
<1> DEFINE Bad == {k \in a .. b : Selected(SubSeq(s, 1, k), T)
                                    # Selected(SubSeq(s, 1, a), T)}
<1> SUFFICES ASSUME Bad # {} PROVE FALSE
    OBVIOUS
<1>1. PICK k \in Bad : \A j \in Bad : k <= j
    <2>1. Bad \in SUBSET Nat
        OBVIOUS
    <2> HIDE DEF Bad
    <2> QED BY <2>1, NatMin
<1>2. k # a
    OBVIOUS
<1>3. Len(s) \in Nat
    BY LenProperties
<1>4. k \in 1 .. Len(s) /\ k \in a + 1 .. b /\ k - 1 \in a .. b
    BY <1>2, <1>3
<1>5. k - 1 \notin Bad
    BY <1>1, <1>4
<1>6. Selected(SubSeq(s, 1, k), T) = Selected(SubSeq(s, 1, k - 1), T)
    BY <1>4, SelectedStep
<1> QED BY <1>4, <1>5, <1>6

\* Sequence b begins with sequence a.
Begins(a, b) ==
    /\ Len(a) \in Nat /\ Len(b) \in Nat /\ Len(a) <= Len(b)
    /\ \A i \in 1 .. Len(a) : b[i] = a[i]

\* What is selected from the first elements comes first in what is selected.
LEMMA SelectedPrefix ==
    ASSUME NEW S, NEW T, NEW s \in Seq(S), NEW k \in 0 .. Len(s)
    PROVE  Begins(Selected(SubSeq(s, 1, k), T), Selected(s, T))
<1> DEFINE P(t, j) == Begins(Selected(SubSeq(t, 1, j), T), Selected(t, T))
           G == {t \in Seq(S) : \A j \in 0 .. Len(t) : P(t, j)}
<1>1. ASSUME NEW t \in Seq(S) PROVE P(t, Len(t))
    <2>1. Len(Selected(t, T)) \in Nat
        BY SelectedType, LenProperties
    <2>2. SubSeq(t, 1, Len(t)) = t
        BY SubSeqFull
    <2>3. Begins(Selected(t, T), Selected(t, T))
        BY <2>1 DEF Begins
    <2> QED BY <2>2, <2>3
<1>2. <<>> \in G
    <2>1. <<>> \in Seq(S) /\ Len(<<>>) = 0
        BY EmptySeq
    <2>2. P(<<>>, Len(<<>>))
        BY <1>1, <2>1
    <2>3. \A j \in 0 .. Len(<<>>) : j = Len(<<>>)
        BY <2>1
    <2> HIDE DEF P
    <2> QED BY <2>1, <2>2, <2>3
<1>3. ASSUME NEW t \in Seq(S), NEW e \in S, t \in G PROVE Append(t, e) \in G
    <2> DEFINE u == Append(t, e)
    <2>1. u \in Seq(S) /\ Len(u) = Len(t) + 1 /\ Len(t) \in Nat
        BY AppendProperties, LenProperties
    <2>2. ASSUME NEW j \in 0 .. Len(u) PROVE P(u, j)
        <3>1. CASE j = Len(u)
            BY <1>1, <2>1, <3>1
        <3>2. CASE j # Len(u)
            <4>1. j \in 0 .. Len(t)
                BY <2>1, <3>2
            <4>2. P(t, j)
                BY <1>3, <4>1
            <4> DEFINE a == Selected(SubSeq(t, 1, j), T)
                       b == Selected(t, T)
                       c == Selected(u, T)
            <4>3. a = Selected(SubSeq(u, 1, j), T)
                BY <4>1, PrefixOfAppend
            <4>4. b \in Seq(S) /\ c = IF e \in T THEN Append(b, e) ELSE b
                BY SelectedAppend, SelectedType
            <4>5. Begins(a, b)
                BY <4>2
            <4> HIDE DEF a, b, c
            <4>6. Begins(b, c)
                BY <4>4, <4>5, AppendProperties DEF Begins
            <4>7. Begins(a, c)
                BY <4>5, <4>6 DEF Begins
            <4> QED BY <4>3, <4>7 DEF a, c
        <3> QED BY <3>1, <3>2
    <2> HIDE DEF P, u
    <2>3. u \in G
        BY <2>1, <2>2
    <2> QED BY <2>3 DEF u
<1> HIDE DEF G
<1>4. s \in G
    BY <1>2, <1>3, SeqInduction
<1> QED BY <1>4 DEF G
=============================================================================
