----------------------- MODULE ConnectionReceiveProofs -----------------------
(***************************************************************************)
(* Theorems about ConnectionReceive: for any packages, sizes and uids, and *)
(* however the network cuts the frames, types are correct and the user     *)
(* gets exactly the bodies of the frames that arrived completely.          *)
(***************************************************************************)
EXTENDS ConnectionReceive, SelectionProofs, TLAPS

-----------------------------------------------------------------------------
(***************************************************************************)
(* Type correctness.                                                       *)
(***************************************************************************)

Delivery == [body : Seq(Units), to : {"callback", "received"}]

LEMMA TypeInit == Init => TypeOK
<1> SUFFICES ASSUME Init PROVE TypeOK
    OBVIOUS
<1>1. /\ wire \in Seq(Units) /\ buffer \in Seq(Units)
      /\ delivered \in Seq(Delivery)
      /\ signals \in Seq({"closed", "error"})
      /\ Len(wire) = 0
    BY EmptySeq DEF Init
<1> QED BY <1>1, LengthAssumption, UidAssumption
        DEF Init, TypeOK, Stage, Errors, Delivery

LEMMA NoticeType == \A e : Notice(e) \in Seq({"closed", "error"})
<1>1. /\ <<"closed">> \in Seq({"closed", "error"})
      /\ <<"error">> \in Seq({"closed", "error"})
      /\ <<>> \in Seq({"closed", "error"})
    BY EmptySeq
<1> QED BY <1>1 DEF Notice

\* A read gets the units of the wire that follow those consumed.
LEMMA ReceiveTakes ==
    ASSUME TypeOK, NEW n \in Nat \ {0}, Receive(n)
    PROVE  /\ buffer' \in Seq(Units)
           /\ Len(buffer) \in Nat /\ Len(buffer') = Len(buffer) + n
           /\ \A i \in 1 .. Len(buffer) : buffer'[i] = buffer[i]
           /\ \A i \in Len(buffer) + 1 .. Len(buffer') :
                buffer'[i] = wire[consumed + (i - Len(buffer))]
           /\ Len(buffer') <= want
           /\ consumed \in Nat /\ Len(wire) \in Nat
           /\ consumed' = consumed + n /\ consumed' <= Len(wire)
           /\ wire' = wire
           /\ stage' = IF Len(buffer') = want THEN DoneStage(stage) ELSE stage
<1>1. /\ wire \in Seq(Units) /\ Len(wire) \in Nat
      /\ buffer \in Seq(Units) /\ Len(buffer) \in Nat
      /\ consumed \in Nat /\ want \in Nat
    BY LenProperties DEF TypeOK
<1>2. /\ consumed + n <= Len(wire) /\ wire' = wire
      /\ consumed' = consumed + n
      /\ n <= want - Len(buffer)
      /\ stage' = IF Len(buffer) + n = want THEN DoneStage(stage) ELSE stage
    BY DEF Receive
<1> DEFINE a == consumed + 1
           b == consumed + n
           new == SubSeq(wire, a, b)
<1>3. /\ a \in Int /\ b \in Int /\ b - a + 1 = n /\ a <= b
      /\ \A i \in 1 .. n : a + i - 1 = consumed + i
      /\ \A i \in a .. b : wire[i] \in Units
    BY <1>1, <1>2, ElementOfSeq
<1>4. buffer' = buffer \o new
    BY DEF Receive
<1> HIDE DEF a, b
<1>5. /\ new \in Seq(Units) /\ Len(new) = n
      /\ \A i \in 1 .. n : new[i] = wire[consumed + i]
    <2>1. /\ new \in Seq(Units) /\ Len(new) = IF a <= b THEN b - a + 1 ELSE 0
          /\ \A i \in 1 .. b - a + 1 : new[i] = wire[a + i - 1]
        BY <1>3, SubSeqProperties
    <2> QED BY <2>1, <1>3
<1> HIDE DEF new
<1>6. /\ buffer' \in Seq(Units) /\ Len(buffer') = Len(buffer) + n
      /\ \A i \in 1 .. Len(buffer) + n : buffer'[i] =
            IF i <= Len(buffer) THEN buffer[i] ELSE new[i - Len(buffer)]
    BY <1>1, <1>4, <1>5, ConcatProperties
<1>7. ASSUME NEW i \in Len(buffer) + 1 .. Len(buffer')
      PROVE  buffer'[i] = wire[consumed + (i - Len(buffer))]
    <2>1. /\ i \in 1 .. Len(buffer) + n /\ ~ (i <= Len(buffer))
          /\ i - Len(buffer) \in 1 .. n
        BY <1>1, <1>6
    <2> QED BY <2>1, <1>5, <1>6
<1> QED BY <1>1, <1>2, <1>6, <1>7

LEMMA TypeNext == TypeOK /\ [Next]_vars => TypeOK'
<1> SUFFICES ASSUME TypeOK, [Next]_vars PROVE TypeOK'
    OBVIOUS
<1> USE LengthAssumption, UidAssumption
<1>1. ASSUME NEW n \in 1 .. want, Receive(n) PROVE TypeOK'
    <2>1. n \in Nat \ {0}
        BY DEF TypeOK
    <2>2. buffer' \in Seq(Units) /\ consumed' \in 0 .. Len(wire')
        BY <1>1, <2>1, ReceiveTakes
    <2> QED BY <1>1, <2>2 DEF Receive, Reading, DoneStage, TypeOK, Stage
<1>2. ASSUME NEW e \in Errors, ReadFails(e) PROVE TypeOK'
    BY <1>2 DEF ReadFails, Reading, DoneStage, TypeOK, Stage
<1>3. ReadEof => ReadFails("eof")
    BY DEF ReadEof
<1>4. ReadBroken => ReadFails("other")
    BY DEF ReadBroken
<1>5. ASSUME NEW s \in {"size", "body"}, NEW n \in Nat, StartRead(s, n)
      PROVE  /\ stage' \in Stage /\ err' \in Errors
             /\ buffer' \in Seq(Units) /\ want' \in Nat
    BY <1>5, EmptySeq DEF StartRead, DoneStage, Stage, Errors
<1>6. CASE SizeHandler
    <2>1. signals' \in Seq({"closed", "error"})
        BY <1>6, NoticeType, ConcatProperties DEF SizeHandler, TypeOK
    <2>2. DecodedSizes(buffer) \subseteq Nat
        <3>1. ASSUME NEW p \in Packages, buffer = Header(p)
              PROVE  buffer[1][1] \in Packages
            BY <3>1 DEF Header
        <3> QED BY <3>1 DEF DecodedSizes
    <2>3. /\ stage' \in Stage /\ err' \in Errors
          /\ buffer' \in Seq(Units) /\ want' \in Nat
        BY <1>5, <1>6, <2>2 DEF SizeHandler, TypeOK, Stage
    <2> QED BY <1>6, <2>1, <2>3 DEF SizeHandler, TypeOK
<1>7. CASE BodyHandler
    <2>1. signals' \in Seq({"closed", "error"})
        BY <1>7, NoticeType, ConcatProperties DEF BodyHandler, TypeOK
    <2> QED BY <1>7, <2>1 DEF BodyHandler, TypeOK, Stage
<1>8. CASE Dispatch
    <2> DEFINE d == [body |-> buffer,
                     to |-> IF UidOf(buffer) \in callbacks THEN "callback"
                                                           ELSE "received"]
    <2>1. d \in Delivery
        BY DEF Delivery, TypeOK
    <2>2. delivered \in Seq(Delivery) /\ delivered' = Append(delivered, d)
        BY <1>8 DEF Dispatch, TypeOK, Delivery
    <2> HIDE DEF d
    <2>3. delivered' \in Seq(Delivery)
        BY <2>1, <2>2, AppendProperties
    <2> QED BY <1>8, <2>3 DEF Dispatch, TypeOK, Stage, Delivery
<1>9. CASE WaitPackage
    <2>1. /\ stage' \in Stage /\ err' \in Errors
          /\ buffer' \in Seq(Units) /\ want' \in Nat
        BY <1>5, <1>9 DEF WaitPackage
    <2> QED BY <1>9, <2>1 DEF WaitPackage, TypeOK
<1>10. ASSUME NEW b \in BOOLEAN, CreateStream(b) PROVE TypeOK'
    BY <1>10 DEF CreateStream, TypeOK
<1>11. CASE Close
    <2>1. signals' \in Seq({"closed", "error"})
        BY <1>11, AppendProperties DEF Close, TypeOK
    <2> QED BY <1>11, <2>1 DEF Close, DoneStage, TypeOK, Stage, Errors
<1>12. CASE PeerSends
    <2>1. PICK u \in NextUnits : wire' = Append(wire, u)
        BY <1>12 DEF PeerSends
    <2>2. u \in Units
        <3>1. wire # <<>> => wire[Len(wire)] \in Units
            BY EmptySeq, ElementOfSeq DEF TypeOK
        <3> QED BY <3>1 DEF NextUnits, Units
    <2>3. wire' \in Seq(Units) /\ consumed \in 0 .. Len(wire')
        BY <2>1, <2>2, AppendProperties, LenProperties DEF TypeOK
    <2> QED BY <1>12, <2>3 DEF PeerSends, TypeOK
<1>13. CASE PeerCloses
    BY <1>13 DEF PeerCloses, TypeOK
<1>14. CASE UNCHANGED vars
    BY <1>14 DEF vars, TypeOK
<1>15. "eof" \in Errors /\ "other" \in Errors
    BY DEF Errors
<1> QED
    BY <1>1, <1>2, <1>3, <1>4, <1>6, <1>7, <1>8, <1>9, <1>10, <1>11, <1>12,
       <1>13, <1>14, <1>15 DEF Next, ThisSide, Progress

\* Every variable keeps its type, whatever bytes arrive and in what portions.
THEOREM TypeCorrect == Spec => []TypeOK
BY TypeInit, TypeNext, PTL DEF Spec

-----------------------------------------------------------------------------
(***************************************************************************)
(* The wire.                                                               *)
(***************************************************************************)

LastUnits == {<<p, FrameLength(p)>> : p \in Packages}

\* Unit k is the first of a frame at the start of the wire or after the last of
\* another, or it follows its predecessor.
WireInv ==
    \A k \in 1 .. Len(wire) :
        /\ wire[k][2] \in 1 .. FrameLength(wire[k][1])
        /\ IF wire[k][2] = 1
           THEN k = 1 \/ wire[k - 1] \in LastUnits
           ELSE k > 1 /\ wire[k - 1] = <<wire[k][1], wire[k][2] - 1>>

\* The units before position b + 1 are whole frames.
AtFrame(b) == b = 0 \/ wire[b] \in LastUnits

LEMMA FrameLengthNat ==
    \A p \in Packages : /\ FrameLength(p) \in Nat
                        /\ HeaderLength \in Nat /\ 1 <= HeaderLength
                        /\ BodyLength[p] \in Nat
                        /\ FrameLength(p) = HeaderLength + BodyLength[p]
BY LengthAssumption DEF FrameLength

LEMMA UnitIsPair ==
    ASSUME TypeOK, NEW k \in 1 .. Len(wire)
    PROVE  /\ wire[k] = <<wire[k][1], wire[k][2]>>
           /\ wire[k][1] \in Packages /\ wire[k][2] \in Nat
<1>1. wire[k] \in Packages \X Nat
    BY ElementOfSeq DEF TypeOK, Units
<1> QED BY <1>1

LEMMA WireNext ==
    ASSUME TypeOK, WireInv, [Next]_vars
    PROVE  WireInv'
<1>1. CASE wire' = wire
    BY <1>1 DEF WireInv
<1>2. CASE PeerSends
    <2> DEFINE L == Len(wire)
    <2>1. PICK u \in NextUnits : wire' = Append(wire, u)
        BY <1>2 DEF PeerSends
    <2>2. L \in Nat
        BY LenProperties DEF TypeOK
    <2>3. L # 0 => /\ wire # <<>>
                   /\ wire[L] = <<wire[L][1], wire[L][2]>>
                   /\ wire[L][1] \in Packages
                   /\ wire[L][2] \in 1 .. FrameLength(wire[L][1])
                   /\ FrameLength(wire[L][1]) \in Nat
        BY <2>2, UnitIsPair, EmptySeq, FrameLengthNat DEF WireInv
    <2>4. L = 0 => wire = <<>>
        BY EmptySeq DEF TypeOK
    <2>5. /\ u \in Units
          /\ u[2] \in 1 .. FrameLength(u[1])
          /\ IF u[2] = 1 THEN L = 0 \/ wire[L] \in LastUnits
                         ELSE L # 0 /\ wire[L] = <<u[1], u[2] - 1>>
        <3>1. CASE L # 0 /\ wire[L][2] < FrameLength(wire[L][1])
            <4>1. u = <<wire[L][1], wire[L][2] + 1>>
                BY <2>3, <3>1 DEF NextUnits
            <4>2. /\ wire[L][2] + 1 # 1 /\ (wire[L][2] + 1) - 1 = wire[L][2]
                  /\ wire[L][2] + 1 \in 1 .. FrameLength(wire[L][1])
                BY <2>3, <3>1
            <4> QED BY <2>3, <3>1, <4>1, <4>2 DEF Units
        <3>2. CASE ~ (L # 0 /\ wire[L][2] < FrameLength(wire[L][1]))
            <4>1. PICK p \in Packages : u = <<p, 1>>
                BY <2>4, <3>2 DEF NextUnits
            <4>2. L # 0 => wire[L][2] = FrameLength(wire[L][1])
                BY <2>3, <3>2
            <4>3. L # 0 => wire[L] \in LastUnits
                BY <2>3, <4>2 DEF LastUnits
            <4>4. 1 \in 1 .. FrameLength(p)
                BY FrameLengthNat
            <4> QED BY <4>1, <4>3, <4>4 DEF Units
        <3> QED BY <3>1, <3>2
    <2>6. /\ Len(wire') = L + 1 /\ wire'[L + 1] = u
          /\ \A k \in 1 .. L : wire'[k] = wire[k]
        BY <2>1, <2>5, AppendProperties DEF TypeOK
    <2> HIDE DEF L
    <2>7. ASSUME NEW k \in 1 .. Len(wire')
          PROVE  /\ wire'[k][2] \in 1 .. FrameLength(wire'[k][1])
                 /\ IF wire'[k][2] = 1
                    THEN k = 1 \/ wire'[k - 1] \in LastUnits
                    ELSE k > 1 /\ wire'[k - 1] = <<wire'[k][1], wire'[k][2] - 1>>
        <3>1. CASE k \in 1 .. L
            <4>1. k # 1 => wire'[k - 1] = wire[k - 1]
                BY <2>2, <2>6, <3>1
            <4>2. /\ wire[k][2] \in 1 .. FrameLength(wire[k][1])
                  /\ IF wire[k][2] = 1
                     THEN k = 1 \/ wire[k - 1] \in LastUnits
                     ELSE k > 1 /\ wire[k - 1] = <<wire[k][1], wire[k][2] - 1>>
                BY <3>1 DEF WireInv, L
            <4>3. k > 1 => k # 1
                OBVIOUS
            <4>4. wire'[k] = wire[k]
                BY <2>6, <3>1
            <4> QED BY <4>1, <4>2, <4>3, <4>4
        <3>2. CASE k = L + 1
            <4>1. wire'[k] = u /\ k - 1 = L /\ (L # 0 => k > 1)
                BY <2>2, <2>6, <3>2
            <4>2. L # 0 => wire'[k - 1] = wire[L]
                BY <2>2, <2>6, <4>1
            <4>3. L = 0 => k = 1
                BY <3>2
            <4> QED BY <2>5, <4>1, <4>2, <4>3
        <3> QED BY <2>2, <2>6, <3>1, <3>2
    <2> QED BY <2>7 DEF WireInv, LastUnits, FrameLength
<1> QED
    BY <1>1, <1>2 DEF Next, ThisSide, Progress, Receive, ReadEof, ReadBroken,
       ReadFails, SizeHandler, BodyHandler, Dispatch, WaitPackage, Close,
       CreateStream, PeerCloses, vars

\* After whole frames comes a frame of one package, unit by unit.
LEMMA FrameFollows ==
    ASSUME TypeOK, WireInv, NEW b \in Nat, b + 1 <= Len(wire), AtFrame(b)
    PROVE  /\ wire[b + 1][1] \in Packages
           /\ \A i \in 1 .. FrameLength(wire[b + 1][1]) :
                b + i <= Len(wire) => wire[b + i] = <<wire[b + 1][1], i>>
<1> DEFINE p == wire[b + 1][1]
           Bad == {i \in 1 .. FrameLength(p) :
                     b + i <= Len(wire) /\ wire[b + i] # <<p, i>>}
<1>1. Len(wire) \in Nat /\ b + 1 \in 1 .. Len(wire)
    BY LenProperties DEF TypeOK
<1>2. p \in Packages /\ wire[b + 1] = <<p, wire[b + 1][2]>>
    BY <1>1, UnitIsPair
<1>3. wire[b + 1] = <<p, 1>>
    <2>1. CASE wire[b + 1][2] = 1
        BY <1>2, <2>1
    <2>2. CASE wire[b + 1][2] # 1
        <3>1. /\ b + 1 > 1 /\ wire[(b + 1) - 1] = <<p, wire[b + 1][2] - 1>>
              /\ wire[b + 1][2] \in 1 .. FrameLength(p)
            BY <1>1, <2>2 DEF WireInv
        <3>2. b # 0 /\ (b + 1) - 1 = b
            BY <3>1
        <3>3. PICK q \in Packages : wire[b] = <<q, FrameLength(q)>>
            BY <3>2 DEF AtFrame, LastUnits
        <3>4. q = p /\ FrameLength(q) = wire[b + 1][2] - 1
            BY <3>1, <3>2, <3>3
        <3> QED BY <1>2, <3>1, <3>4, FrameLengthNat
    <2> QED BY <2>1, <2>2
<1> SUFFICES ASSUME Bad # {} PROVE FALSE
    BY <1>2
<1>4. PICK i \in Bad : \A j \in Bad : i <= j
    <2>1. Bad \in SUBSET Nat
        OBVIOUS
    <2> HIDE DEF Bad
    <2> QED BY <2>1, NatMin
<1>5. i # 1
    BY <1>3
<1>6. FrameLength(p) \in Nat
    BY <1>2, FrameLengthNat
<1>7. /\ i \in 2 .. FrameLength(p) /\ b + i \in 1 .. Len(wire)
      /\ i - 1 \in 1 .. FrameLength(p) /\ b + (i - 1) <= Len(wire)
      /\ (b + i) - 1 = b + (i - 1) /\ i - 1 # FrameLength(p)
      /\ b + (i - 1) \in 1 .. Len(wire)
    BY <1>1, <1>4, <1>5, <1>6
<1>8. wire[b + (i - 1)] = <<p, i - 1>>
    <2>1. i - 1 \notin Bad
        BY <1>4, <1>7
    <2> QED BY <1>7, <2>1
<1>9. wire[b + (i - 1)] \notin LastUnits
    BY <1>7, <1>8 DEF LastUnits
<1>10. wire[b + (i - 1)] = <<wire[b + i][1], wire[b + i][2] - 1>>
    <2>1. IF wire[b + i][2] = 1
          THEN b + i = 1 \/ wire[(b + i) - 1] \in LastUnits
          ELSE b + i > 1 /\ wire[(b + i) - 1] = <<wire[b + i][1], wire[b + i][2] - 1>>
        BY <1>7 DEF WireInv
    <2>2. b + i # 1
        BY <1>7
    <2> QED BY <1>7, <1>9, <2>1, <2>2
<1>11. wire[b + i] = <<p, i>>
    <2>1. wire[b + i] = <<wire[b + i][1], wire[b + i][2]>> /\ wire[b + i][2] \in Nat
        BY <1>7, UnitIsPair
    <2>2. wire[b + i][1] = p /\ wire[b + i][2] - 1 = i - 1
        BY <1>8, <1>10
    <2>3. wire[b + i][2] = i
        BY <1>7, <2>1, <2>2
    <2> QED BY <2>1, <2>2, <2>3
<1> QED BY <1>4, <1>11

-----------------------------------------------------------------------------
(***************************************************************************)
(* The read loop.                                                          *)
(***************************************************************************)

\* The last units of the frames that end within the first b units.
Ends(b) == Selected(SubSeq(wire, 1, b), LastUnits)

\* The user has got exactly the bodies of the frames within the first b units.
DeliveredUpTo(b) ==
    /\ Len(delivered) = Len(Ends(b))
    /\ \A k \in 1 .. Len(delivered) : delivered[k].body = Body(Ends(b)[k][1])

\* The loop may still hand a body to the user.
Active ==
    \/ stage \in {"size", "body", "dispatch", "rearm"}
    \/ stage \in {"sizeDone", "bodyDone"} /\ err = "none"

InSize == stage \in {"size", "sizeDone"}

\* Position b is where the frame being read starts, and where the next one
\* will when the loop is between two frames.
FrameStartsAt(b) ==
    /\ b \in Nat
    /\ consumed = IF stage = "rearm" THEN b
                  ELSE IF InSize THEN b + Len(buffer)
                  ELSE b + HeaderLength + Len(buffer)

\* What the loop has of the frame that starts at b: the units that follow the
\* size field or precede the body, as many as are wanted once it has them all.
Holds(b) ==
    /\ AtFrame(b)
    /\ DeliveredUpTo(b)
    /\ stage # "rearm" =>
         /\ \A i \in 1 .. Len(buffer) : buffer[i] =
              IF InSize THEN wire[b + i] ELSE wire[b + HeaderLength + i]
         /\ want = IF InSize THEN HeaderLength ELSE BodyLength[wire[b + 1][1]]
         /\ Len(buffer) <= want
         /\ stage \notin {"size", "body"} => Len(buffer) = want

ReadInv == Active => \E b \in 0 .. Len(wire) : FrameStartsAt(b) /\ Holds(b)

\* The loop has stopped or not, what the user has got are the first frames.
DeliveredInv == \E b \in 0 .. Len(wire) : DeliveredUpTo(b)

\* A longer wire begins with the same frames.
LEMMA EndsStay ==
    ASSUME TypeOK, NEW u \in Units, wire' = Append(wire, u),
           NEW b \in 0 .. Len(wire)
    PROVE  Ends(b)' = Ends(b)
<1>1. SubSeq(wire', 1, b) = SubSeq(wire, 1, b)
    BY PrefixOfAppend DEF TypeOK
<1> QED BY <1>1 DEF Ends, LastUnits, FrameLength

LEMMA DeliveredStays ==
    ASSUME TypeOK, NEW u \in Units, wire' = Append(wire, u),
           delivered' = delivered,
           NEW b \in 0 .. Len(wire), DeliveredUpTo(b)
    PROVE  DeliveredUpTo(b)'
<1>1. Ends(b)' = Ends(b)
    BY EndsStay
<1> QED BY <1>1 DEF DeliveredUpTo, Body

\* One whole frame more adds its last unit to the ends.
LEMMA EndsOfFrame ==
    ASSUME TypeOK, WireInv, NEW b \in Nat, AtFrame(b), b + 1 <= Len(wire),
           NEW p \in Packages, p = wire[b + 1][1],
           b + FrameLength(p) <= Len(wire)
    PROVE  Ends(b + FrameLength(p)) = Append(Ends(b), <<p, FrameLength(p)>>)
<1> DEFINE n == FrameLength(p)
<1>1. n \in Nat \ {0} /\ Len(wire) \in Nat /\ wire \in Seq(Units)
    <2>1. n \in Nat \ {0}
        BY FrameLengthNat
    <2>2. wire \in Seq(Units)
        BY DEF TypeOK
    <2> QED BY <2>1, <2>2, LenProperties
<1>2. \A i \in 1 .. n : b + i <= Len(wire) => wire[b + i] = <<p, i>>
    BY FrameFollows
<1>3. n = FrameLength(p) /\ b + n <= Len(wire)
    OBVIOUS
<1> HIDE DEF n
<1>4. \A i \in b + 1 .. b + n : wire[i] = <<p, i - b>>
    <2>1. ASSUME NEW i \in b + 1 .. b + n PROVE wire[i] = <<p, i - b>>
        <3>1. i - b \in 1 .. n /\ b + (i - b) = i /\ i <= Len(wire)
            BY <1>1, <1>3
        <3> QED BY <1>2, <3>1
    <2> QED BY <2>1
<1>5. \A i \in b + 1 .. b + n - 1 : wire[i] \notin LastUnits
    <2>1. ASSUME NEW i \in b + 1 .. b + n - 1 PROVE wire[i] \notin LastUnits
        <3>1. wire[i] = <<p, i - b>> /\ i - b # n
            BY <1>1, <1>4
        <3> QED BY <1>3, <3>1 DEF LastUnits
    <2> QED BY <2>1
<1>6. Ends(b + n - 1) = Ends(b)
    <2>1. b + n - 1 \in Nat /\ b <= b + n - 1 /\ b + n - 1 <= Len(wire)
        BY <1>1, <1>3
    <2> QED BY <1>1, <1>5, <2>1, SelectedSkip DEF Ends
<1>7. wire[b + n] = <<p, n>> /\ wire[b + n] \in LastUnits
    <2>1. b + n \in b + 1 .. b + n /\ (b + n) - b = n
        BY <1>1
    <2> QED BY <1>3, <1>4, <2>1 DEF LastUnits
<1>8. Ends(b + n) = Append(Ends(b + n - 1), wire[b + n])
    <2>1. b + n \in 1 .. Len(wire) /\ (b + n) - 1 = b + n - 1
        BY <1>1, <1>3
    <2> QED BY <1>1, <1>7, <2>1, SelectedStep DEF Ends
<1> QED BY <1>3, <1>6, <1>7, <1>8

\* What has been delivered is what it was as long as nothing arrives.
LEMMA DeliveredSame ==
    ASSUME UNCHANGED <<wire, delivered>>
    PROVE  \A b : /\ Ends(b)' = Ends(b)
                  /\ DeliveredUpTo(b) => DeliveredUpTo(b)'
                  /\ AtFrame(b) => AtFrame(b)'
BY DEF DeliveredUpTo, AtFrame, Ends, LastUnits, FrameLength, Body

\* A step that changes neither the wire, the deliveries nor the read leaves the
\* loop as it was or stops it.
LEMMA ReadUntouched ==
    ASSUME UNCHANGED <<wire, delivered, buffer, want, consumed>>,
           ReadInv, DeliveredInv,
           Active' => UNCHANGED <<stage, err>>
    PROVE  ReadInv' /\ DeliveredInv'
<1>1. \A b : DeliveredUpTo(b) => DeliveredUpTo(b)'
    BY DeliveredSame
<1>2. DeliveredInv'
    BY <1>1 DEF DeliveredInv
<1>3. ASSUME Active' PROVE \E b \in 0 .. Len(wire') : (FrameStartsAt(b) /\ Holds(b))'
    <2>1. Active
        BY <1>3 DEF Active
    <2>2. PICK b \in 0 .. Len(wire) : FrameStartsAt(b) /\ Holds(b)
        BY <2>1 DEF ReadInv
    <2>3. (FrameStartsAt(b) /\ Holds(b))'
        BY <1>3, <2>2, DeliveredSame DEF FrameStartsAt, Holds, InSize
    <2> QED BY <2>3
<1> QED BY <1>2, <1>3 DEF ReadInv

LEMMA ReadNext ==
    ASSUME TypeOK, WireInv, ReadInv, DeliveredInv, [Next]_vars
    PROVE  ReadInv' /\ DeliveredInv'
<1> USE LengthAssumption
<1>1. ASSUME NEW n \in 1 .. want, Receive(n) PROVE ReadInv' /\ DeliveredInv'
    <2>1. n \in Nat \ {0}
        BY DEF TypeOK
    <2>2. /\ Len(buffer) \in Nat /\ Len(buffer') = Len(buffer) + n
          /\ \A i \in 1 .. Len(buffer) : buffer'[i] = buffer[i]
          /\ \A i \in Len(buffer) + 1 .. Len(buffer') :
                buffer'[i] = wire[consumed + (i - Len(buffer))]
          /\ Len(buffer') <= want
          /\ consumed \in Nat /\ Len(wire) \in Nat
          /\ consumed' = consumed + n
          /\ stage' = IF Len(buffer') = want THEN DoneStage(stage) ELSE stage
        BY <1>1, <2>1, ReceiveTakes
    <2>3. /\ UNCHANGED <<wire, delivered, want, err>>
          /\ stage \in {"size", "body"}
        BY <1>1 DEF Receive, Reading
    <2>4. PICK b \in 0 .. Len(wire) : FrameStartsAt(b) /\ Holds(b)
        BY <2>3 DEF ReadInv, Active
    <2>5. DeliveredUpTo(b)' /\ AtFrame(b)'
        BY <2>3, <2>4, DeliveredSame DEF Holds
    <2>6. /\ InSize' <=> InSize
          /\ stage' # "rearm" /\ stage # "rearm"
          /\ stage' \notin {"size", "body"} => Len(buffer') = want
        BY <2>2, <2>3 DEF InSize, DoneStage
    <2> DEFINE o == IF InSize THEN 0 ELSE HeaderLength
    <2>7. o \in Nat /\ b \in Nat
        OBVIOUS
    <2>8. /\ consumed = b + o + Len(buffer)
          /\ \A i \in 1 .. Len(buffer) : buffer[i] = wire[b + o + i]
        BY <2>2, <2>4, <2>6 DEF FrameStartsAt, Holds
    <2>9. FrameStartsAt(b)'
        <3>1. consumed' = b + o + Len(buffer')
            BY <2>2, <2>7, <2>8
        <3>2. InSize => consumed' = b + Len(buffer')
            BY <2>2, <2>7, <3>1
        <3>3. ~ InSize => consumed' = b + HeaderLength + Len(buffer')
            BY <3>1
        <3> QED BY <2>6, <2>7, <3>2, <3>3 DEF FrameStartsAt
    <2> HIDE DEF o
    <2>10. ASSUME NEW i \in 1 .. Len(buffer') PROVE buffer'[i] = wire[b + o + i]
        <3>1. CASE i \in 1 .. Len(buffer)
            BY <2>2, <2>8, <3>1
        <3>2. CASE i \in Len(buffer) + 1 .. Len(buffer')
            <4>1. consumed + (i - Len(buffer)) = b + o + i
                BY <2>2, <2>7, <2>8, <3>2
            <4> QED BY <2>2, <3>2, <4>1
        <3> QED BY <2>1, <2>2, <3>1, <3>2
    <2>11. Holds(b)'
        <3>1. \A i \in 1 .. Len(buffer') : buffer'[i] =
                IF InSize THEN wire[b + i] ELSE wire[b + HeaderLength + i]
            <4>1. CASE InSize
                BY <2>7, <2>10, <4>1 DEF o
            <4>2. CASE ~ InSize
                BY <2>7, <2>10, <4>2 DEF o
            <4> QED BY <4>1, <4>2
        <3> QED BY <2>2, <2>3, <2>4, <2>5, <2>6, <3>1 DEF Holds
    <2>12. b \in 0 .. Len(wire')
        BY <2>3
    <2> QED BY <2>5, <2>9, <2>11, <2>12 DEF ReadInv, DeliveredInv
<1>2. ASSUME NEW e \in {"eof", "other"}, ReadFails(e)
      PROVE  ReadInv' /\ DeliveredInv'
    BY <1>2, ReadUntouched DEF ReadFails, Reading, DoneStage, Active
<1>3. CASE SizeHandler
    <2>1. UNCHANGED <<wire, delivered, consumed>> /\ stage = "sizeDone"
        BY <1>3 DEF SizeHandler
    <2>2. DeliveredInv'
        BY <2>1, DeliveredSame DEF DeliveredInv
    <2>3. CASE err # "none"
        BY <1>3, <2>3, ReadUntouched DEF SizeHandler, Active
    <2>4. CASE err = "none"
        <3>1. PICK n \in DecodedSizes(buffer) : StartRead("body", n)
            BY <1>3, <2>4 DEF SizeHandler
        <3>2. PICK b \in 0 .. Len(wire) : FrameStartsAt(b) /\ Holds(b)
            BY <2>1, <2>4 DEF ReadInv, Active
        <3>3. /\ Len(buffer) = HeaderLength
              /\ \A i \in 1 .. HeaderLength : buffer[i] = wire[b + i]
              /\ consumed = b + HeaderLength
              /\ buffer \in Seq(Units) /\ Len(wire) \in Nat
              /\ consumed <= Len(wire)
            <4>1. InSize /\ stage # "rearm" /\ stage \notin {"size", "body"}
                BY <2>1 DEF InSize
            <4>2. buffer \in Seq(Units) /\ Len(wire) \in Nat
                    /\ consumed <= Len(wire)
                BY LenProperties DEF TypeOK
            <4> QED BY <3>2, <4>1, <4>2 DEF FrameStartsAt, Holds
        <3>4. b \in Nat /\ b + 1 <= Len(wire) /\ b + HeaderLength <= Len(wire)
            BY <3>3
        <3> DEFINE p == wire[b + 1][1]
        <3>5. /\ p \in Packages
              /\ \A i \in 1 .. FrameLength(p) :
                   b + i <= Len(wire) => wire[b + i] = <<p, i>>
            BY <3>2, <3>4, FrameFollows DEF Holds
        <3> HIDE DEF p
        <3>6. buffer = Header(p)
            <4>1. \A i \in 1 .. HeaderLength :
                    /\ i \in 1 .. FrameLength(p) /\ b + i <= Len(wire)
                BY <3>4, <3>5, FrameLengthNat
            <4>2. \A i \in 1 .. HeaderLength : buffer[i] = <<p, i>>
                BY <3>3, <3>5, <4>1
            <4>3. buffer \in [1 .. HeaderLength -> Units]
                BY <3>3, LenProperties
            <4> QED BY <4>2, <4>3 DEF Header
        <3>7. n = BodyLength[p]
            <4>1. buffer[1][1] = p
                BY <3>5, <3>6 DEF Header
            <4>2. DecodedSizes(buffer) = {BodyLength[p]}
                BY <3>5, <3>6, <4>1 DEF DecodedSizes
            <4> QED BY <3>1, <4>2
        <3>8. /\ want' = n /\ buffer' = <<>> /\ Len(buffer') = 0
              /\ stage' \in {"body", "bodyDone"}
              /\ stage' = "bodyDone" /\ err' = "none" => n = 0
              /\ n \in Nat
            <4>1. n \in Nat
                BY <3>5, <3>7
            <4> QED BY <3>1, <4>1, EmptySeq DEF StartRead, DoneStage
        <3>9. DeliveredUpTo(b)' /\ AtFrame(b)'
            BY <2>1, <3>2, DeliveredSame DEF Holds
        <3>10. FrameStartsAt(b)'
            BY <2>1, <3>3, <3>4, <3>8 DEF FrameStartsAt, InSize
        <3>11. ASSUME Active' PROVE Holds(b)'
            BY <2>1, <3>7, <3>8, <3>9, <3>11 DEF Holds, InSize, Active, p
        <3>12. b \in 0 .. Len(wire')
            BY <2>1
        <3> QED BY <2>2, <3>10, <3>11, <3>12 DEF ReadInv
    <2> QED BY <2>3, <2>4
<1>4. CASE BodyHandler
    <2>1. UNCHANGED <<wire, delivered, consumed, buffer, want, err>>
          /\ stage = "bodyDone" /\ stage' \in {"dispatch", "stopped"}
        BY <1>4 DEF BodyHandler
    <2>2. CASE stage' = "stopped"
        BY <2>1, <2>2, ReadUntouched DEF Active
    <2>3. CASE stage' = "dispatch"
        <3>1. err = "none"
            BY <1>4, <2>3 DEF BodyHandler
        <3>2. PICK b \in 0 .. Len(wire) : FrameStartsAt(b) /\ Holds(b)
            BY <2>1, <3>1 DEF ReadInv, Active
        <3>3. DeliveredUpTo(b)' /\ AtFrame(b)'
            BY <2>1, <3>2, DeliveredSame DEF Holds
        <3>4. FrameStartsAt(b)' /\ Holds(b)'
            BY <2>1, <2>3, <3>2, <3>3 DEF FrameStartsAt, Holds, InSize
        <3>5. b \in 0 .. Len(wire')
            BY <2>1
        <3> QED BY <3>3, <3>4, <3>5 DEF ReadInv, DeliveredInv
    <2> QED BY <2>1, <2>2, <2>3
<1>5. CASE Dispatch
    <2> DEFINE d == [body |-> buffer,
                     to |-> IF UidOf(buffer) \in callbacks THEN "callback"
                                                           ELSE "received"]
    <2>1. /\ UNCHANGED <<wire, consumed, buffer>>
          /\ stage = "dispatch" /\ stage' = "rearm"
          /\ delivered' = Append(delivered, d)
        BY <1>5 DEF Dispatch
    <2>2. d \in Delivery /\ delivered \in Seq(Delivery) /\ d.body = buffer
        BY DEF Delivery, TypeOK
    <2> HIDE DEF d
    <2>3. /\ Len(delivered) \in Nat /\ Len(delivered') = Len(delivered) + 1
          /\ delivered'[Len(delivered) + 1] = d
          /\ \A k \in 1 .. Len(delivered) : delivered'[k] = delivered[k]
        BY <2>1, <2>2, AppendProperties, LenProperties
    <2>4. PICK b \in 0 .. Len(wire) : FrameStartsAt(b) /\ Holds(b)
        BY <2>1 DEF ReadInv, Active
    <2>5. /\ consumed = b + HeaderLength + Len(buffer) /\ b \in Nat
          /\ Len(buffer) = BodyLength[wire[b + 1][1]]
          /\ \A i \in 1 .. Len(buffer) : buffer[i] = wire[b + HeaderLength + i]
          /\ AtFrame(b) /\ DeliveredUpTo(b)
        BY <2>1, <2>4 DEF FrameStartsAt, Holds, InSize
    <2>6. /\ consumed <= Len(wire) /\ Len(wire) \in Nat /\ Len(buffer) \in Nat
          /\ buffer \in Seq(Units)
        BY LenProperties DEF TypeOK
    <2>7. b + 1 <= Len(wire)
        BY <2>5, <2>6
    <2>8. PICK p \in Packages :
            /\ p = wire[b + 1][1]
            /\ \A i \in 1 .. FrameLength(p) :
                 b + i <= Len(wire) => wire[b + i] = <<p, i>>
        BY <2>5, <2>7, FrameFollows
    <2>9. PICK c \in Nat : c = b + FrameLength(p)
        BY <2>5, FrameLengthNat
    <2>10. c = consumed /\ c <= Len(wire)
        BY <2>5, <2>6, <2>8, <2>9, FrameLengthNat
    <2>11. Ends(c) = Append(Ends(b), <<p, FrameLength(p)>>)
        BY <2>5, <2>7, <2>8, <2>9, <2>10, EndsOfFrame
    <2>12. c \in 0 .. Len(wire) /\ wire[c] \in LastUnits
        <3>1. FrameLength(p) \in 1 .. FrameLength(p) /\ FrameLength(p) \in Nat
            BY <2>8, FrameLengthNat
        <3>2. wire[c] = <<p, FrameLength(p)>>
            BY <2>8, <2>9, <2>10, <3>1
        <3> QED BY <2>10, <3>2 DEF LastUnits
    <2>13. buffer = Body(p)
        <3>1. ASSUME NEW i \in 1 .. BodyLength[p]
              PROVE  buffer[i] = <<p, HeaderLength + i>>
            <4>1. /\ HeaderLength + i \in 1 .. FrameLength(p)
                  /\ b + (HeaderLength + i) <= Len(wire)
                  /\ b + (HeaderLength + i) = b + HeaderLength + i
                BY <2>5, <2>6, <2>8, FrameLengthNat
            <4> QED BY <2>5, <2>8, <4>1
        <3>2. buffer \in [1 .. BodyLength[p] -> Units]
            BY <2>5, <2>6, <2>8, LenProperties
        <3> QED BY <3>1, <3>2 DEF Body
    <2>14. Ends(b) \in Seq(Units) /\ <<p, FrameLength(p)>> \in Units
        <3>1. SubSeq(wire, 1, b) \in Seq(Units)
            <4>1. \A i \in 1 .. b : wire[i] \in Units
                BY <2>5, <2>6, ElementOfSeq DEF TypeOK
            <4>2. 1 \in Int /\ b \in Int
                BY <2>5
            <4> QED BY <4>1, <4>2, SubSeqProperties
        <3> QED BY <2>8, <3>1, SelectedType, FrameLengthNat DEF Ends, Units
    <2>15. /\ Len(Ends(b)) = Len(delivered)
           /\ Len(Ends(c)) = Len(delivered) + 1
           /\ Ends(c)[Len(delivered) + 1] = <<p, FrameLength(p)>>
           /\ \A k \in 1 .. Len(delivered) : Ends(c)[k] = Ends(b)[k]
        <3>1. Len(Ends(b)) = Len(delivered)
            BY <2>5 DEF DeliveredUpTo
        <3> DEFINE e == <<p, FrameLength(p)>>
                   s == Ends(b)
        <3>2. s \in Seq(Units) /\ e \in Units /\ Ends(c) = Append(s, e)
            BY <2>11, <2>14
        <3> HIDE DEF e, s
        <3>3. /\ Len(Ends(c)) = Len(s) + 1
              /\ Ends(c)[Len(s) + 1] = e
              /\ \A k \in 1 .. Len(s) : Ends(c)[k] = s[k]
            BY <3>2, AppendProperties
        <3> QED BY <3>1, <3>3 DEF e, s
    <2>16. ASSUME NEW k \in 1 .. Len(delivered')
           PROVE  delivered'[k].body = Body(Ends(c)[k][1])
        <3>1. CASE k = Len(delivered) + 1
            BY <2>2, <2>3, <2>13, <2>15, <3>1
        <3>2. CASE k \in 1 .. Len(delivered)
            <4>1. delivered[k].body = Body(Ends(b)[k][1])
                BY <2>5, <3>2 DEF DeliveredUpTo
            <4> QED BY <2>3, <2>15, <3>2, <4>1
        <3> QED BY <2>3, <3>1, <3>2
    <2>17. DeliveredUpTo(c)'
        <3>1. Ends(c)' = Ends(c)
            BY <1>5, <2>3 DEF Dispatch, Ends, LastUnits, FrameLength
        <3> QED BY <2>3, <2>15, <2>16, <3>1 DEF DeliveredUpTo, Body
    <2>18. FrameStartsAt(c)' /\ Holds(c)'
        BY <2>1, <2>10, <2>12, <2>17
           DEF FrameStartsAt, Holds, AtFrame, LastUnits, FrameLength
    <2>19. c \in 0 .. Len(wire')
        BY <2>1, <2>12
    <2> QED BY <2>17, <2>18, <2>19 DEF ReadInv, DeliveredInv
<1>6. CASE WaitPackage
    <2>1. /\ UNCHANGED <<wire, delivered, consumed>> /\ stage = "rearm"
          /\ want' = HeaderLength /\ buffer' = <<>> /\ Len(buffer') = 0
          /\ stage' \in {"size", "sizeDone"}
          /\ stage' = "sizeDone" => err' # "none"
        BY <1>6, EmptySeq DEF WaitPackage, StartRead, DoneStage
    <2>2. PICK b \in 0 .. Len(wire) : FrameStartsAt(b) /\ Holds(b)
        BY <2>1 DEF ReadInv, Active
    <2>3. DeliveredUpTo(b)' /\ AtFrame(b)'
        BY <2>1, <2>2, DeliveredSame DEF Holds
    <2>4. FrameStartsAt(b)'
        BY <2>1, <2>2 DEF FrameStartsAt, InSize
    <2>5. ASSUME Active' PROVE Holds(b)'
        BY <2>1, <2>3, <2>5 DEF Holds, InSize, Active
    <2>6. b \in 0 .. Len(wire')
        BY <2>1
    <2> QED BY <2>3, <2>4, <2>5, <2>6 DEF ReadInv, DeliveredInv
<1>7. ASSUME NEW called \in BOOLEAN, CreateStream(called)
      PROVE  ReadInv' /\ DeliveredInv'
    BY <1>7, ReadUntouched DEF CreateStream
<1>8. CASE Close
    BY <1>8, ReadUntouched DEF Close, Reading, DoneStage, Active
<1>9. CASE PeerSends
    <2>1. PICK u \in NextUnits : wire' = Append(wire, u)
        BY <1>9 DEF PeerSends
    <2>2. u \in Units
        <3>1. wire # <<>> => wire[Len(wire)] \in Units
            BY EmptySeq, ElementOfSeq DEF TypeOK
        <3> QED BY <3>1 DEF NextUnits, Units
    <2>3. /\ Len(wire) \in Nat /\ Len(wire') = Len(wire) + 1
          /\ \A k \in 1 .. Len(wire) : wire'[k] = wire[k]
        BY <2>1, <2>2, AppendProperties, LenProperties DEF TypeOK
    <2>4. UNCHANGED <<consumed, stage, err, buffer, want, delivered>>
        BY <1>9 DEF PeerSends
    <2>5. \A b \in 0 .. Len(wire) : DeliveredUpTo(b) => DeliveredUpTo(b)'
        BY <2>1, <2>2, <2>4, DeliveredStays
    <2>6. DeliveredInv'
        BY <2>3, <2>5 DEF DeliveredInv
    <2>7. ASSUME Active'
          PROVE  \E b \in 0 .. Len(wire') : (FrameStartsAt(b) /\ Holds(b))'
        <3>1. PICK b \in 0 .. Len(wire) : FrameStartsAt(b) /\ Holds(b)
            BY <2>4, <2>7 DEF ReadInv, Active
        <3>2. FrameStartsAt(b)'
            BY <2>4, <3>1 DEF FrameStartsAt, InSize
        <3>3. AtFrame(b)'
            BY <2>3, <3>1 DEF Holds, AtFrame, LastUnits, FrameLength
        <3>4. /\ consumed <= Len(wire) /\ consumed \in Nat /\ b \in Nat
              /\ Len(buffer) \in Nat
            BY <3>1, LenProperties DEF TypeOK
        <3>5. \A i \in 1 .. Len(buffer) :
                /\ InSize => b + i \in 1 .. Len(wire)
                /\ (~ InSize /\ stage # "rearm") =>
                     b + HeaderLength + i \in 1 .. Len(wire)
            BY <2>3, <3>1, <3>4 DEF FrameStartsAt, InSize
        <3>6. (~ InSize /\ stage # "rearm") => b + 1 \in 1 .. Len(wire)
            BY <2>3, <3>1, <3>4 DEF FrameStartsAt
        <3>7. Holds(b)'
            <4>1. stage # "rearm" =>
                    \A i \in 1 .. Len(buffer') : buffer'[i] =
                       IF InSize THEN wire'[b + i]
                                 ELSE wire'[b + HeaderLength + i]
                BY <2>3, <2>4, <3>1, <3>5 DEF Holds
            <4>2. stage # "rearm" => want = IF InSize THEN HeaderLength
                                           ELSE BodyLength[wire'[b + 1][1]]
                BY <2>3, <3>1, <3>6 DEF Holds
            <4>3. InSize' <=> InSize
                BY <2>4 DEF InSize
            <4>4. DeliveredUpTo(b)'
                BY <2>5, <3>1 DEF Holds
            <4> QED BY <2>4, <3>1, <3>3, <4>1, <4>2, <4>3, <4>4 DEF Holds
        <3> QED BY <2>3, <3>2, <3>7
    <2> QED BY <2>6, <2>7 DEF ReadInv
<1>10. CASE PeerCloses \/ UNCHANGED vars
    BY <1>10, ReadUntouched DEF PeerCloses, vars
<1> QED
    BY <1>1, <1>2, <1>3, <1>4, <1>5, <1>6, <1>7, <1>8, <1>9, <1>10
       DEF Next, ThisSide, Progress, ReadEof, ReadBroken

-----------------------------------------------------------------------------
(***************************************************************************)
(* The theorem.                                                            *)
(***************************************************************************)

LoopInv == TypeOK /\ WireInv /\ ReadInv /\ DeliveredInv

LEMMA LoopInit == Init => LoopInv
<1> SUFFICES ASSUME Init PROVE LoopInv
    OBVIOUS
<1>1. /\ TypeOK /\ Len(wire) = 0 /\ Len(buffer) = 0 /\ Len(delivered) = 0
      /\ stage = "size" /\ consumed = 0 /\ want = HeaderLength
    BY TypeInit, EmptySeq DEF Init
<1>2. Ends(0) = <<>> /\ Len(Ends(0)) = 0
    <2>1. SubSeq(wire, 1, 0) = <<>>
        BY SubSeqEmpty
    <2> QED BY <2>1, SelectedEmpty, EmptySeq DEF Ends
<1>3. DeliveredUpTo(0) /\ AtFrame(0) /\ 0 \in 0 .. Len(wire)
    BY <1>1, <1>2 DEF DeliveredUpTo, AtFrame
<1>4. FrameStartsAt(0) /\ Holds(0)
    BY <1>1, <1>3, LengthAssumption DEF FrameStartsAt, Holds, InSize
<1> QED BY <1>1, <1>3, <1>4 DEF LoopInv, WireInv, ReadInv, DeliveredInv

LEMMA IntactFollows ==
    ASSUME TypeOK, DeliveredInv
    PROVE  DeliveredIntact
<1> DEFINE E == Selected(wire, LastUnits)
<1>1. PICK b \in 0 .. Len(wire) : DeliveredUpTo(b)
    BY DEF DeliveredInv
<1>2. Begins(Ends(b), E)
    BY SelectedPrefix DEF Ends, TypeOK
<1>3. Arrived = [k \in 1 .. Len(E) |-> E[k][1]]
    BY DEF Arrived, LastUnits
<1> HIDE DEF E
<1>4. Len(Arrived) = Len(E)
    BY <1>2, <1>3 DEF Begins
<1>5. ASSUME NEW k \in 1 .. Len(delivered)
      PROVE  delivered[k].body = Body(Arrived[k])
    <2>1. /\ k \in 1 .. Len(Ends(b)) /\ k \in 1 .. Len(E)
          /\ E[k] = Ends(b)[k]
        BY <1>1, <1>2 DEF Begins, DeliveredUpTo
    <2>2. Arrived[k] = Ends(b)[k][1]
        BY <1>3, <2>1
    <2> QED BY <1>1, <2>2 DEF DeliveredUpTo
<1>6. Len(delivered) <= Len(Arrived)
    BY <1>1, <1>2, <1>4 DEF Begins, DeliveredUpTo
<1> QED BY <1>5, <1>6 DEF DeliveredIntact

\* However the network cuts the frames and wherever the connection ends, the k-th
\* body the user gets is the body of the k-th frame that arrived completely.
THEOREM BodiesStayIntact == Spec => []DeliveredIntact
<1>1. LoopInv /\ [Next]_vars => LoopInv'
    BY TypeNext, WireNext, ReadNext DEF LoopInv
<1>2. LoopInv => DeliveredIntact
    BY IntactFollows DEF LoopInv
<1> QED BY <1>1, <1>2, LoopInit, PTL DEF Spec
=============================================================================
