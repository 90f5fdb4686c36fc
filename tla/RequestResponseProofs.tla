----------------------- MODULE RequestResponseProofs ------------------------
(***************************************************************************)
(* Theorems about RequestResponse: for any streams and threads, types are  *)
(* correct and no callback is called twice; as long as one thread creates  *)
(* all streams, every callback gets a response to its own stream.          *)
(***************************************************************************)
EXTENDS RequestResponse, SequenceTheorems, TLAPS

\* Every stream belongs to a side, and the peer of a side is the other one.
LEMMA Sides ==
    /\ \A r \in Requests : Owner(r) \in Side
    /\ \A s \in Side : Peer(s) \in Side /\ Peer(s) # s
BY RequestAssumption DEF Owner, Side, Peer

-----------------------------------------------------------------------------
(***************************************************************************)
(* Type correctness.                                                       *)
(***************************************************************************)

\* What TypeOK does not say: each side has a map.
Types == TypeOK /\ DOMAIN callbacks = Side

\* Putting a package into an inbox.
LEMMA InboxAppend ==
    ASSUME Types, NEW s \in Side, NEW m \in Package,
           inbox' = [inbox EXCEPT ![s] = Append(@, m)]
    PROVE  /\ inbox' \in [Side -> Seq(Package)]
           /\ \A t \in Side \ {s} : inbox'[t] = inbox[t]
           /\ Len(inbox[s]) \in Nat
           /\ Len(inbox'[s]) = Len(inbox[s]) + 1
           /\ inbox'[s][Len(inbox[s]) + 1] = m
           /\ \A k \in 1 .. Len(inbox[s]) : inbox'[s][k] = inbox[s][k]
<1>1. inbox \in [Side -> Seq(Package)] /\ inbox[s] \in Seq(Package)
    BY DEF Types, TypeOK
<1>2. inbox'[s] = Append(inbox[s], m)
    BY <1>1
<1> QED BY <1>1, <1>2, AppendProperties, LenProperties

\* What the read handler takes out of the inbox of side s.
LEMMA InboxHead ==
    ASSUME Types, NEW s \in Side, inbox[s] # <<>>
    PROVE  /\ Head(inbox[s]) \in Package
           /\ Tail(inbox[s]) \in Seq(Package)
           /\ Len(inbox[s]) \in Nat
           /\ 1 \in 1 .. Len(inbox[s])
           /\ Head(inbox[s]) = inbox[s][1]
           /\ Len(Tail(inbox[s])) = Len(inbox[s]) - 1
           /\ \A k \in 1 .. Len(Tail(inbox[s])) :
                /\ k + 1 \in 1 .. Len(inbox[s])
                /\ Tail(inbox[s])[k] = inbox[s][k + 1]
<1>1. inbox[s] \in Seq(Package)
    BY DEF Types, TypeOK
<1>2. Len(inbox[s]) \in Nat \ {0}
    BY <1>1, EmptySeq
<1> QED BY <1>1, <1>2, HeadTailProperties

LEMMA TypesInit == Init => Types
<1> SUFFICES ASSUME Init PROVE Types
    OBVIOUS
<1>1. inbox \in [Side -> Seq(Package)]
    BY EmptySeq DEF Init
<1>2. calls \in Seq([request : registered, stream : Package])
    BY EmptySeq DEF Init
<1> QED
    BY <1>1, <1>2, RequestAssumption
       DEF Init, Types, TypeOK, NoCallbacks, Requested

LEMMA TypesNext == Types /\ [Next]_vars => Types'
<1> SUFFICES ASSUME Types, [Next]_vars PROVE Types'
    OBVIOUS
<1> USE Sides, RequestAssumption
<1>1. ASSUME NEW r \in Requests, ReadCounter(r) PROVE Types'
    BY <1>1 DEF Types, TypeOK, ReadCounter, Requested
<1>2. ASSUME NEW r \in Requests, WriteCounter(r) PROVE Types'
    BY <1>2 DEF Types, TypeOK, WriteCounter, Requested
<1>3. ASSUME NEW r \in Requests, Register(r) PROVE Types'
    <2>1. calls' \in Seq([request : registered', stream : Package])
        <3>1. registered' = registered \cup {r} /\ calls' = calls
            BY <1>3 DEF Register
        <3>2. [request : registered, stream : Package]
                \subseteq [request : registered', stream : Package]
            BY <3>1
        <3>3. calls \in Seq([request : registered, stream : Package])
            BY DEF Types, TypeOK
        <3>4. calls \in Seq([request : registered', stream : Package])
            BY <3>2, <3>3, SeqMonotonic
        <3> QED BY <3>1, <3>4
    <2>2. registered' \subseteq Requested'
        BY <1>3 DEF Register, Types, TypeOK, Requested
    <2>3. \A s \in Side :
            /\ DOMAIN callbacks'[s] \subseteq Nat
            /\ \A u \in DOMAIN callbacks'[s] : callbacks'[s][u] \in registered'
        BY <1>3 DEF Register, Types, TypeOK, Assign
    <2> QED BY <1>3, <2>1, <2>2, <2>3 DEF Register, Types, TypeOK
<1>4. ASSUME NEW r \in Requests, Send(r) PROVE Types'
    <2> DEFINE m == [uid |-> uid[r], kind |-> "request", request |-> r]
    <2>1. m \in Package
        BY DEF Types, TypeOK, Package
    <2>2. inbox' \in [Side -> Seq(Package)]
        BY <1>4, <2>1, InboxAppend DEF Send
    <2> QED BY <1>4, <2>2 DEF Send, Types, TypeOK, Requested
<1>5. ASSUME NEW s \in Side, Handle(s) PROVE Types'
    <2> DEFINE m == Head(inbox[s])
    <2>1. m \in Package /\ Tail(inbox[s]) \in Seq(Package)
        BY <1>5, InboxHead DEF Handle
    <2>2. inbox' \in [Side -> Seq(Package)]
        BY <1>5, <2>1 DEF Handle, Types, TypeOK
    <2>3. calls' \in Seq([request : registered, stream : Package])
        BY <1>5, <2>1, AppendProperties DEF Handle, Types, TypeOK
    <2>4. streams' \in [Side -> SUBSET Package]
        BY <1>5, <2>1 DEF Handle, Types, TypeOK
    <2>5. \A t \in Side :
            /\ DOMAIN callbacks'[t] \subseteq Nat
            /\ \A u \in DOMAIN callbacks'[t] : callbacks'[t][u] \in registered
        BY <1>5 DEF Handle, Types, TypeOK, Erase
    <2> QED
        BY <1>5, <2>2, <2>3, <2>4, <2>5 DEF Handle, Types, TypeOK, Requested
<1>6. ASSUME NEW s \in Side, NEW m \in streams[s], Respond(s, m) PROVE Types'
    <2>1. m \in Package
        BY DEF Types, TypeOK
    <2>2. Response(m) \in Package
        BY <2>1 DEF Package, Response
    <2>3. inbox' \in [Side -> Seq(Package)]
        BY <1>6, <2>2, InboxAppend DEF Respond
    <2> QED BY <1>6, <2>3 DEF Respond, Types, TypeOK, Requested
<1>7. CASE UNCHANGED vars
    BY <1>7 DEF vars, Types, TypeOK, Requested
<1> QED BY <1>1, <1>2, <1>3, <1>4, <1>5, <1>6, <1>7 DEF Next, Create

\* Every variable keeps its type, for any streams, threads and bound.
THEOREM TypeCorrect == Spec => []TypeOK
<1>1. Types => TypeOK
    BY DEF Types
<1> QED BY <1>1, TypesInit, TypesNext, PTL DEF Spec

-----------------------------------------------------------------------------
(***************************************************************************)
(* Callbacks are called once.                                              *)
(***************************************************************************)

\* A registered callback is under the uid of its stream on the side of its
\* stream and has not been called.
CallbackInv ==
    \A s \in Side : \A u \in DOMAIN callbacks[s] :
        /\ Owner(callbacks[s][u]) = s
        /\ uid[callbacks[s][u]] = u
        /\ ~ Called(callbacks[s][u])

OnceInv == Types /\ CallbackInv /\ CalledOnce

\* Only a stream that has been registered is called.
LEMMA CalledIsRegistered ==
    ASSUME Types
    PROVE  \A k \in 1 .. Len(calls) :
             /\ calls[k].request \in registered
             /\ calls[k].stream \in Package
<1>1. calls \in Seq([request : registered, stream : Package])
    BY DEF Types, TypeOK
<1>2. \A k \in 1 .. Len(calls) :
        calls[k] \in [request : registered, stream : Package]
    BY <1>1, ElementOfSeq
<1> QED BY <1>2

LEMMA OnceInit == Init => CallbackInv /\ CalledOnce
BY EmptySeq DEF Init, CallbackInv, CalledOnce, NoCallbacks

\* What Handle adds to the calls.
LEMMA HandleCalls ==
    ASSUME Types, NEW s \in Side, Handle(s)
    PROVE  LET m == Head(inbox[s])
               called == m.uid \in DOMAIN callbacks[s]
           IN  /\ Len(calls) \in Nat
               /\ called =>
                    /\ Len(calls') = Len(calls) + 1
                    /\ calls'[Len(calls) + 1] =
                         [request |-> callbacks[s][m.uid], stream |-> m]
                    /\ \A k \in 1 .. Len(calls) : calls'[k] = calls[k]
               /\ ~ called => calls' = calls
<1> DEFINE m == Head(inbox[s])
           c == [request |-> callbacks[s][m.uid], stream |-> m]
<1>1. calls \in Seq([request : registered, stream : Package])
    BY DEF Types, TypeOK
<1>2. m \in Package
    BY InboxHead DEF Handle
<1>3. CASE m.uid \in DOMAIN callbacks[s]
    <2>1. c \in [request : registered, stream : Package]
        BY <1>2, <1>3 DEF Types, TypeOK
    <2>2. calls' = Append(calls, c)
        BY <1>3 DEF Handle
    <2> HIDE DEF c
    <2>3. /\ Len(calls') = Len(calls) + 1
          /\ calls'[Len(calls) + 1] = c
          /\ \A k \in 1 .. Len(calls) : calls'[k] = calls[k]
        BY <1>1, <2>1, <2>2, AppendProperties
    <2> QED BY <1>1, <1>3, <2>3, LenProperties DEF c
<1>4. CASE m.uid \notin DOMAIN callbacks[s]
    BY <1>1, <1>4, LenProperties DEF Handle
<1> QED BY <1>3, <1>4

LEMMA OnceNext ==
    ASSUME Types, CallbackInv, CalledOnce, [Next]_vars
    PROVE  CallbackInv' /\ CalledOnce'
<1> USE Sides
<1>1. ASSUME NEW r \in Requests, ReadCounter(r)
      PROVE  CallbackInv' /\ CalledOnce'
    BY <1>1 DEF ReadCounter, Types, TypeOK, Requested, CallbackInv, CalledOnce,
                Called
<1>2. ASSUME NEW r \in Requests,
             WriteCounter(r) \/ Send(r)
      PROVE  CallbackInv' /\ CalledOnce'
    BY <1>2 DEF WriteCounter, Send, CallbackInv, CalledOnce, Called
<1>3. ASSUME NEW r \in Requests, Register(r)
      PROVE  CallbackInv' /\ CalledOnce'
    <2>1. ~ Called(r)
        BY <1>3, CalledIsRegistered DEF Register, Called
    <2>2. /\ callbacks'[Owner(r)] = Assign(callbacks[Owner(r)], uid[r], r)
          /\ \A s \in Side \ {Owner(r)} : callbacks'[s] = callbacks[s]
          /\ UNCHANGED <<uid, calls>>
        BY <1>3 DEF Register, Types
    <2> QED BY <2>1, <2>2 DEF CallbackInv, CalledOnce, Called, Assign
<1>4. ASSUME NEW s \in Side, Handle(s)
      PROVE  CallbackInv' /\ CalledOnce'
    <2> DEFINE m == Head(inbox[s])
               u == m.uid
               r == callbacks[s][u]
               c == [request |-> r, stream |-> m]
    <2>1. /\ callbacks'[s] = Erase(callbacks[s], u)
          /\ \A t \in Side \ {s} : callbacks'[t] = callbacks[t]
          /\ UNCHANGED uid
        BY <1>4 DEF Handle, Types
    <2>2. CASE u \in DOMAIN callbacks[s]
        <3>1. /\ Len(calls) \in Nat
              /\ Len(calls') = Len(calls) + 1
              /\ calls'[Len(calls) + 1] = c
              /\ \A k \in 1 .. Len(calls) : calls'[k] = calls[k]
            BY <1>4, <2>2, HandleCalls
        <3>2. calls'[Len(calls) + 1].request = r
            BY <3>1
        <3>3. ~ Called(r) /\ Owner(r) = s /\ uid[r] = u
            BY <2>2 DEF CallbackInv
        <3> HIDE DEF m, u, r, c
        <3>4. CalledOnce'
            BY <3>1, <3>2, <3>3 DEF CalledOnce, Called
        <3>5. \A q : Called(q)' => Called(q) \/ q = r
            BY <3>1, <3>2 DEF Called
        <3>6. ASSUME NEW t \in Side, NEW v \in DOMAIN callbacks'[t]
              PROVE  /\ v \in DOMAIN callbacks[t]
                     /\ callbacks'[t][v] = callbacks[t][v]
                     /\ callbacks[t][v] # r
            BY <2>1, <3>3 DEF Erase, CallbackInv
        <3> QED BY <2>1, <3>4, <3>5, <3>6 DEF CallbackInv
    <2>3. CASE u \notin DOMAIN callbacks[s]
        <3>1. calls' = calls
            BY <1>4, <2>3, HandleCalls
        <3> QED BY <2>1, <3>1 DEF CallbackInv, CalledOnce, Called, Erase
    <2> QED BY <2>2, <2>3
<1>5. ASSUME NEW s \in Side, NEW m \in streams[s], Respond(s, m)
      PROVE  CallbackInv' /\ CalledOnce'
    BY <1>5 DEF Respond, CallbackInv, CalledOnce, Called
<1>6. CASE UNCHANGED vars
    BY <1>6 DEF vars, CallbackInv, CalledOnce, Called
<1> QED BY <1>1, <1>2, <1>3, <1>4, <1>5, <1>6 DEF Next, Create

LEMMA OnceHolds == Spec => []OnceInv
<1>1. Init => OnceInv
    BY TypesInit, OnceInit DEF OnceInv
<1>2. OnceInv /\ [Next]_vars => OnceInv'
    BY TypesNext, OnceNext DEF OnceInv
<1> QED BY <1>1, <1>2, PTL DEF Spec

\* However many threads of both peers create streams, and however often the
\* other peer answers, no response callback is called twice.
THEOREM CallbackCalledOnce == Spec => []CalledOnce
BY OnceHolds, PTL DEF OnceInv

-----------------------------------------------------------------------------
(***************************************************************************)
(* Callbacks get their own responses.  The source numbers streams per peer *)
(* and without a lock, so this needs what run request_response_both_sides  *)
(* does without: that one thread creates all streams that are created.     *)
(***************************************************************************)

SingleThread == \A q, r \in Requests : ThreadOf[q] = ThreadOf[r]

Has(r, places) == stage[r] \in places

\* The uids of streams differ, and the next one is not in use.
UidInv ==
    /\ \A r \in Requests :
         /\ Has(r, {"read"}) => uid[r] = uidCounter[Owner(r)]
         /\ Has(r, {"created", "sent"}) => uid[r] < uidCounter[Owner(r)]
    /\ \A q, r \in Requests :
         /\ Has(q, {"read", "created"}) /\ Has(r, {"read", "created"}) => q = r
         /\ stage[q] # "idle" /\ stage[r] # "idle" /\ uid[q] = uid[r] => q = r

\* A package on side s, under way or with the user, has the uid of its stream,
\* and is a response if the stream was created on s.
FromStream(m, s) ==
    /\ m.uid = uid[m.request]
    /\ Has(m.request, {"sent"})
    /\ Owner(m.request) = s => m.kind = "response"

PackageInv ==
    \A s \in Side :
        /\ \A k \in 1 .. Len(inbox[s]) : FromStream(inbox[s][k], s)
        /\ \A m \in streams[s] : FromStream(m, s)

OwnInv == OnceInv /\ UidInv /\ PackageInv /\ OwnResponse

LEMMA OwnInit == Init => UidInv /\ PackageInv /\ OwnResponse
BY EmptySeq DEF Init, UidInv, PackageInv, OwnResponse, Has

\* Sent streams keep their uid, so packages stay what they are.
LEMMA PackagesStay ==
    ASSUME Types,
           \A r \in Requests :
             Has(r, {"sent"}) => Has(r, {"sent"})' /\ uid'[r] = uid[r],
           NEW m \in Package, NEW s \in Side, FromStream(m, s)
    PROVE  FromStream(m, s)'
BY DEF FromStream, Package, Owner

LEMMA UidNext ==
    ASSUME SingleThread, Types, UidInv, [Next]_vars
    PROVE  UidInv'
<1> USE Sides
<1>1. ASSUME NEW r \in Requests, ReadCounter(r) PROVE UidInv'
    <2>1. \A q \in Requests : stage[q] \in {"idle", "sent"}
        BY <1>1 DEF ReadCounter, ThreadIsFree, SingleThread
    <2>2. \A q \in Requests : Owner(q) = Owner(r)
        BY DEF SingleThread, Owner
    <2>3. /\ stage[r] = "idle" /\ stage'[r] = "read"
          /\ uid'[r] = uidCounter[Owner(r)]
          /\ \A q \in Requests \ {r} : stage'[q] = stage[q] /\ uid'[q] = uid[q]
          /\ uidCounter' = uidCounter
        BY <1>1 DEF ReadCounter, Types, TypeOK
    <2>4. \A q \in Requests : uid[q] \in Nat /\ uidCounter[Owner(q)] \in Nat
        BY DEF Types, TypeOK
    <2> QED BY <2>1, <2>2, <2>3, <2>4 DEF UidInv, Has
<1>2. ASSUME NEW r \in Requests, WriteCounter(r) PROVE UidInv'
    <2>1. /\ stage[r] = "read" /\ stage'[r] = "created"
          /\ \A q \in Requests \ {r} : stage'[q] = stage[q]
          /\ uid' = uid
          /\ uidCounter'[Owner(r)] = uid[r] + 1
        BY <1>2 DEF WriteCounter, Types, TypeOK
    <2>2. uid[r] = uidCounter[Owner(r)]
        BY <2>1 DEF UidInv, Has
    <2>3. \A q \in Requests : Owner(q) = Owner(r)
        BY DEF SingleThread, Owner
    <2>4. \A q \in Requests : uid[q] \in Nat /\ uidCounter[Owner(q)] \in Nat
        BY DEF Types, TypeOK
    <2> QED BY <2>1, <2>2, <2>3, <2>4 DEF UidInv, Has
<1>3. ASSUME NEW r \in Requests, Send(r) PROVE UidInv'
    <2>1. /\ stage[r] = "created" /\ stage'[r] = "sent"
          /\ \A q \in Requests \ {r} : stage'[q] = stage[q]
          /\ UNCHANGED <<uid, uidCounter>>
        BY <1>3 DEF Send, Types, TypeOK
    <2> QED BY <2>1 DEF UidInv, Has
<1>4. ASSUME NEW r \in Requests, Register(r) PROVE UidInv'
    BY <1>4 DEF Register, UidInv, Has
<1>5. ASSUME NEW s \in Side, Handle(s) PROVE UidInv'
    BY <1>5 DEF Handle, UidInv, Has
<1>6. ASSUME NEW s \in Side, NEW m \in streams[s], Respond(s, m) PROVE UidInv'
    BY <1>6 DEF Respond, UidInv, Has
<1>7. CASE UNCHANGED vars
    BY <1>7 DEF vars, UidInv, Has
<1> QED BY <1>1, <1>2, <1>3, <1>4, <1>5, <1>6, <1>7 DEF Next, Create

LEMMA PackagesAreTyped ==
    ASSUME Types, NEW s \in Side
    PROVE  /\ \A k \in 1 .. Len(inbox[s]) : inbox[s][k] \in Package
           /\ \A m \in streams[s] : m \in Package
<1>1. inbox[s] \in Seq(Package)
    BY DEF Types, TypeOK
<1> QED BY <1>1, ElementOfSeq DEF Types, TypeOK

\* Package n is in the inbox or the streams of side t.
On(t, n) ==
    \/ n \in streams[t]
    \/ \E k \in 1 .. Len(inbox[t]) : n = inbox[t][k]

LEMMA OnAppend ==
    ASSUME Types, NEW s \in Side, NEW m \in Package,
           inbox' = [inbox EXCEPT ![s] = Append(@, m)], streams' = streams
    PROVE  \A t \in Side : \A n : On(t, n)' => On(t, n) \/ (t = s /\ n = m)
<1>1. /\ \A t \in Side \ {s} : inbox'[t] = inbox[t]
      /\ Len(inbox[s]) \in Nat
      /\ Len(inbox'[s]) = Len(inbox[s]) + 1
      /\ inbox'[s][Len(inbox[s]) + 1] = m
      /\ \A k \in 1 .. Len(inbox[s]) : inbox'[s][k] = inbox[s][k]
    BY InboxAppend
<1>2. ASSUME NEW n, On(s, n)' PROVE On(s, n) \/ n = m
    BY <1>1, <1>2 DEF On
<1>3. ASSUME NEW t \in Side \ {s}, NEW n, On(t, n)' PROVE On(t, n)
    BY <1>1, <1>3 DEF On
<1> QED BY <1>2, <1>3

\* Streams and packages are what they were, but for packages that are right.
LEMMA PackagesKept ==
    ASSUME Types, PackageInv,
           \A r \in Requests :
             Has(r, {"sent"}) => Has(r, {"sent"})' /\ uid'[r] = uid[r],
           \A t \in Side : \A n :
             On(t, n)' => On(t, n) \/ FromStream(n, t)'
    PROVE  PackageInv'
<1>1. ASSUME NEW t \in Side, NEW n, On(t, n)' PROVE FromStream(n, t)'
    <2>1. CASE On(t, n)
        <3>1. n \in Package /\ FromStream(n, t)
            BY <2>1, PackagesAreTyped DEF PackageInv, On
        <3> QED BY <3>1, PackagesStay
    <2> QED BY <1>1, <2>1
<1> QED BY <1>1 DEF PackageInv, FromStream, On

LEMMA PackageNext ==
    ASSUME Types, PackageInv, [Next]_vars
    PROVE  PackageInv'
<1> USE Sides
<1>1. ASSUME NEW r \in Requests, ReadCounter(r) \/ WriteCounter(r) \/ Register(r)
      PROVE  PackageInv'
    <2>1. UNCHANGED <<inbox, streams>>
        BY <1>1 DEF ReadCounter, WriteCounter, Register
    <2>2. \A q \in Requests :
            Has(q, {"sent"}) => Has(q, {"sent"})' /\ uid'[q] = uid[q]
        BY <1>1 DEF ReadCounter, WriteCounter, Register, Types, TypeOK, Has
    <2> QED BY <2>1, <2>2, PackagesKept DEF On
<1>2. ASSUME NEW r \in Requests, Send(r) PROVE PackageInv'
    <2> DEFINE m == [uid |-> uid[r], kind |-> "request", request |-> r]
               s == Peer(Owner(r))
    <2>1. m \in Package /\ s \in Side
        BY DEF Types, TypeOK, Package
    <2>2. /\ m.uid = uid[r] /\ m.request = r
          /\ inbox' = [inbox EXCEPT ![s] = Append(@, m)]
          /\ UNCHANGED <<streams, uid>>
          /\ stage'[r] = "sent"
        BY <1>2 DEF Send, Types, TypeOK
    <2>3. \A q \in Requests :
            Has(q, {"sent"}) => Has(q, {"sent"})' /\ uid'[q] = uid[q]
        BY <1>2 DEF Send, Types, TypeOK, Has
    <2>4. Owner(r) # s
        OBVIOUS
    <2> HIDE DEF m, s
    <2>5. \A t \in Side : \A n : On(t, n)' => On(t, n) \/ (t = s /\ n = m)
        BY <2>1, <2>2, OnAppend
    <2>6. ASSUME NEW n, n = m PROVE FromStream(n, s)'
        BY <2>2, <2>4, <2>6 DEF FromStream, Has, Owner
    <2> QED BY <2>3, <2>5, <2>6, PackagesKept
<1>3. ASSUME NEW s \in Side, Handle(s) PROVE PackageInv'
    <2>1. /\ Head(inbox[s]) = inbox[s][1] /\ 1 \in 1 .. Len(inbox[s])
          /\ \A k \in 1 .. Len(Tail(inbox[s])) :
               /\ k + 1 \in 1 .. Len(inbox[s])
               /\ Tail(inbox[s])[k] = inbox[s][k + 1]
        BY <1>3, InboxHead DEF Handle
    <2>2. /\ inbox'[s] = Tail(inbox[s])
          /\ streams'[s] = streams[s] \cup {Head(inbox[s])}
          /\ \A t \in Side \ {s} : inbox'[t] = inbox[t] /\ streams'[t] = streams[t]
          /\ UNCHANGED <<stage, uid>>
        BY <1>3 DEF Handle, Types, TypeOK
    <2>3. ASSUME NEW n, On(s, n)' PROVE On(s, n)
        BY <2>1, <2>2, <2>3 DEF On
    <2>4. ASSUME NEW t \in Side \ {s}, NEW n, On(t, n)' PROVE On(t, n)
        BY <2>2, <2>4 DEF On
    <2>5. \A q \in Requests :
            Has(q, {"sent"}) => Has(q, {"sent"})' /\ uid'[q] = uid[q]
        BY <2>2 DEF Has
    <2> QED BY <2>3, <2>4, <2>5, PackagesKept
<1>4. ASSUME NEW s \in Side, NEW m \in streams[s], Respond(s, m)
      PROVE  PackageInv'
    <2> DEFINE a == Response(m)
    <2>1. m \in Package /\ FromStream(m, s)
        BY PackagesAreTyped DEF PackageInv
    <2>2. a \in Package /\ a.uid = m.uid /\ a.kind = "response"
          /\ a.request = m.request
        BY <2>1 DEF Response, Package
    <2>3. /\ inbox' = [inbox EXCEPT ![Peer(s)] = Append(@, a)]
          /\ UNCHANGED <<streams, uid, stage>>
        BY <1>4 DEF Respond
    <2> HIDE DEF a
    <2>4. \A t \in Side : \A n : On(t, n)' => On(t, n) \/ (t = Peer(s) /\ n = a)
        BY <2>2, <2>3, OnAppend
    <2>5. ASSUME NEW n, n = a PROVE FromStream(n, Peer(s))'
        BY <2>1, <2>2, <2>3, <2>5 DEF FromStream, Has
    <2>6. \A q \in Requests :
            Has(q, {"sent"}) => Has(q, {"sent"})' /\ uid'[q] = uid[q]
        BY <2>3 DEF Has
    <2> QED BY <2>4, <2>5, <2>6, PackagesKept
<1>5. CASE UNCHANGED vars
    BY <1>5 DEF vars, PackageInv, FromStream, Has, Owner
<1> QED BY <1>1, <1>2, <1>3, <1>4, <1>5 DEF Next, Create

LEMMA OwnNext ==
    ASSUME SingleThread, OnceInv, UidInv, PackageInv, OwnResponse, [Next]_vars
    PROVE  OwnResponse'
<1> USE Sides
<1>1. ASSUME NEW s \in Side, Handle(s) PROVE OwnResponse'
    <2> DEFINE m == Head(inbox[s])
               r == callbacks[s][m.uid]
               c == [request |-> r, stream |-> m]
    <2>1. m \in Package /\ FromStream(m, s)
        BY <1>1, InboxHead DEF Handle, OnceInv, PackageInv
    <2>2. CASE m.uid \in DOMAIN callbacks[s]
        <3>1. /\ Len(calls) \in Nat
              /\ Len(calls') = Len(calls) + 1
              /\ calls'[Len(calls) + 1] = c
              /\ \A k \in 1 .. Len(calls) : calls'[k] = calls[k]
            BY <1>1, <2>2, HandleCalls DEF OnceInv
        <3>2. /\ r \in Requests /\ stage[r] # "idle"
              /\ Owner(r) = s /\ uid[r] = m.uid
            BY <2>2 DEF OnceInv, CallbackInv, Types, TypeOK, Requested
        <3>3. m.request \in Requests /\ stage[m.request] = "sent"
              /\ uid[m.request] = uid[r]
            BY <2>1, <3>2 DEF FromStream, Has, Package
        <3>4. m.request = r
            BY <3>2, <3>3 DEF UidInv
        <3>5. m.kind = "response"
            BY <2>1, <3>2, <3>4 DEF FromStream
        <3>6. c.request = r /\ c.stream = m
            OBVIOUS
        <3> HIDE DEF m, r, c
        <3> QED BY <3>1, <3>4, <3>5, <3>6 DEF OwnResponse
    <2>3. CASE m.uid \notin DOMAIN callbacks[s]
        <3>1. calls' = calls
            BY <1>1, <2>3, HandleCalls DEF OnceInv
        <3> QED BY <3>1 DEF OwnResponse
    <2> QED BY <2>2, <2>3
<1>2. CASE calls' = calls
    BY <1>2 DEF OwnResponse
<1> QED
    BY <1>1, <1>2 DEF Next, Create, ReadCounter, WriteCounter, Register, Send,
                      Respond, vars

\* As long as one thread creates all streams, a response callback is called
\* with a response to its own stream, however late or often the peer answers.
THEOREM CallbackGetsOwnResponse ==
    ASSUME SingleThread
    PROVE  Spec => []OwnResponse
<1>1. Init => OwnInv
    BY TypesInit, OnceInit, OwnInit DEF OwnInv, OnceInv
<1>2. OwnInv /\ [Next]_vars => OwnInv'
    BY TypesNext, OnceNext, UidNext, PackageNext, OwnNext DEF OwnInv, OnceInv
<1>3. OwnInv => OwnResponse
    BY DEF OwnInv
<1> QED BY <1>1, <1>2, <1>3, PTL DEF Spec
=============================================================================
