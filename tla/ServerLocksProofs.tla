-------------------------- MODULE ServerLocksProofs --------------------------
(***************************************************************************)
(* Theorems about ServerLocks: for any number of threads and connections,  *)
(* a thread that has returned holds no mutex, whatever users' slots call,  *)
(* and there is never a circle of waiting threads if they keep to an order *)
(* of the mutexes, which is stated here.  A thread that destroys a session *)
(* does not keep to it; why nobody waits in a circle all the same is the   *)
(* subject of the last part.                                               *)
(***************************************************************************)
EXTENDS ServerLocks, SelectionProofs

-----------------------------------------------------------------------------
(***************************************************************************)
(* Programs: the agendas a thread can have.                                *)
(***************************************************************************)

Sessions == {"session"} \X Connections

Signals ==
    ServerSignals \X {0} \cup ConnectionSignals \X Connections \cup Sessions

\* The instructions, and what each can be about.
Instructions ==
    [op : {"lock", "unlock"}, on : Locks]
        \cup [op : {"emit"}, on : Signals]
        \cup [op : {"connect"}, on : ConnectionSignals \X Connections]
        \cup [op : {"destroy", "erase", "drop"}, on : Sessions]
        \cup [op : {"user"}, on : ServerSignals \X {0} \cup {"received"} \X Connections]
        \cup [op : {"read", "write", "push"}, on : {"write"} \X Connections]
        \cup [op : {"next"}, on : {List}]

\* Every mutex that is locked is unlocked later.
Closing(a) ==
    \A i \in 1 .. Len(a) :
        a[i].op = "lock" =>
            \E j \in i + 1 .. Len(a) : a[j] = Do("unlock", a[i].on)

Programs == {a \in Seq(Instructions) : Closing(a)}

LEMMA NoProgram == <<>> \in Programs
BY EmptySeq DEF Programs, Closing

LEMMA OneInstruction ==
    ASSUME NEW d \in Instructions, d.op # "lock"
    PROVE  <<d>> \in Programs
<1>1. <<d>> \in Seq(Instructions) /\ Len(<<d>>) = 1 /\ <<d>>[1] = d
    OBVIOUS
<1> QED BY <1>1 DEF Programs, Closing

LEMMA OneDo ==
    ASSUME NEW op, NEW l, op # "lock", Do(op, l) \in Instructions
    PROVE  <<Do(op, l)>> \in Programs
<1>1. Do(op, l).op # "lock"
    BY DEF Do
<1> QED BY <1>1, OneInstruction

LEMMA ConcatPrograms ==
    ASSUME NEW x \in Programs, NEW y \in Programs
    PROVE  x \o y \in Programs
<1>1. x \in Seq(Instructions) /\ y \in Seq(Instructions) /\ Closing(x) /\ Closing(y)
    BY DEF Programs
<1>2. /\ x \o y \in Seq(Instructions)
      /\ Len(x) \in Nat /\ Len(y) \in Nat
      /\ Len(x \o y) = Len(x) + Len(y)
      /\ \A i \in 1 .. Len(x) : (x \o y)[i] = x[i]
      /\ \A i \in 1 .. Len(y) : (x \o y)[Len(x) + i] = y[i]
    BY <1>1, ConcatProperties, LenProperties
<1>3. ASSUME NEW i \in 1 .. Len(x \o y), (x \o y)[i].op = "lock"
      PROVE  \E j \in i + 1 .. Len(x \o y) :
               (x \o y)[j] = Do("unlock", (x \o y)[i].on)
    <2>1. CASE i \in 1 .. Len(x)
        <3>1. PICK j \in i + 1 .. Len(x) : x[j] = Do("unlock", x[i].on)
            BY <1>1, <1>2, <1>3, <2>1 DEF Closing
        <3> QED BY <1>2, <2>1, <3>1
    <2>2. CASE i \notin 1 .. Len(x)
        <3>1. PICK k \in 1 .. Len(y) : i = Len(x) + k
            <4>1. i - Len(x) \in 1 .. Len(y) /\ i = Len(x) + (i - Len(x))
                BY <1>2, <2>2
            <4> QED BY <4>1
        <3>2. PICK j \in k + 1 .. Len(y) : y[j] = Do("unlock", y[k].on)
            BY <1>1, <1>2, <1>3, <3>1 DEF Closing
        <3>3. Len(x) + j \in i + 1 .. Len(x \o y) /\ j \in 1 .. Len(y)
            BY <1>2, <3>1, <3>2
        <3> QED BY <1>2, <3>1, <3>2, <3>3
    <2> QED BY <2>1, <2>2
<1> QED BY <1>2, <1>3 DEF Programs, Closing

LEMMA LockedProgram ==
    ASSUME NEW l \in Locks, NEW x \in Programs
    PROVE  Locked(l, x) \in Programs
<1> DEFINE d == Do("lock", l)
           u == Do("unlock", l)
           y == x \o <<u>>
<1>1. d \in Instructions /\ u \in Instructions /\ u.op # "lock"
    BY DEF Instructions, Do
<1>2. x \in Seq(Instructions) /\ y \in Programs /\ y \in Seq(Instructions)
      /\ Closing(y) /\ <<u>> \in Seq(Instructions)
    BY <1>1, OneInstruction, ConcatPrograms DEF Programs
<1>3. /\ <<d>> \in Seq(Instructions) /\ Len(<<d>>) = 1 /\ <<d>>[1] = d
      /\ Len(<<u>>) = 1 /\ <<u>>[1] = u
    BY <1>1
<1>4. Locked(l, x) = <<d>> \o y
    BY <1>2, <1>3, ConcatAssociative DEF Locked
<1>5. Len(x) \in Nat /\ Len(y) = Len(x) + 1 /\ y[Len(y)] = u
    BY <1>2, <1>3, ConcatProperties, LenProperties
<1> HIDE DEF y, d, u
<1>6. /\ <<d>> \o y \in Seq(Instructions)
      /\ Len(<<d>> \o y) = Len(y) + 1
      /\ (<<d>> \o y)[1] = d
      /\ \A i \in 1 .. Len(y) : (<<d>> \o y)[i + 1] = y[i]
    BY <1>2, <1>3, <1>5, ConcatProperties
<1>7. ASSUME NEW i \in 1 .. Len(y) + 1, (<<d>> \o y)[i].op = "lock"
      PROVE  \E j \in i + 1 .. Len(y) + 1 :
               (<<d>> \o y)[j] = Do("unlock", (<<d>> \o y)[i].on)
    <2>1. CASE i = 1
        <3>1. (<<d>> \o y)[Len(y) + 1] = u /\ Len(y) + 1 \in i + 1 .. Len(y) + 1
            BY <1>5, <1>6, <2>1
        <3>2. u = Do("unlock", d.on)
            BY DEF Do, d, u
        <3> QED BY <1>6, <2>1, <3>1, <3>2
    <2>2. CASE i # 1
        <3>1. PICK k \in 1 .. Len(y) : i = k + 1
            <4>1. i - 1 \in 1 .. Len(y) /\ i = (i - 1) + 1
                BY <1>5, <2>2
            <4> QED BY <4>1
        <3>2. PICK j \in k + 1 .. Len(y) : y[j] = Do("unlock", y[k].on)
            BY <1>2, <1>6, <1>7, <3>1 DEF Closing
        <3>3. j + 1 \in i + 1 .. Len(y) + 1 /\ j \in 1 .. Len(y)
            BY <1>5, <3>1, <3>2
        <3> QED BY <1>6, <3>1, <3>2, <3>3
    <2> QED BY <2>1, <2>2
<1> QED BY <1>4, <1>6, <1>7 DEF Programs, Closing

\* Taking the first instruction.
LEMMA ProgramTail ==
    ASSUME NEW a \in Programs, a # <<>>
    PROVE  /\ Head(a) \in Instructions /\ Head(a) = a[1]
           /\ Tail(a) \in Programs
           /\ Len(a) \in Nat \ {0} /\ Len(Tail(a)) = Len(a) - 1
           /\ \A i \in 1 .. Len(Tail(a)) : Tail(a)[i] = a[i + 1]
<1>1. a \in Seq(Instructions) /\ Closing(a)
    BY DEF Programs
<1>2. /\ Head(a) \in Instructions /\ Head(a) = a[1]
      /\ Tail(a) \in Seq(Instructions)
      /\ Len(a) \in Nat \ {0} /\ Len(Tail(a)) = Len(a) - 1
      /\ \A i \in 1 .. Len(Tail(a)) : Tail(a)[i] = a[i + 1]
    BY <1>1, HeadTailProperties, EmptySeq
<1>3. ASSUME NEW i \in 1 .. Len(Tail(a)), Tail(a)[i].op = "lock"
      PROVE  \E j \in i + 1 .. Len(Tail(a)) :
               Tail(a)[j] = Do("unlock", Tail(a)[i].on)
    <2>1. PICK j \in (i + 1) + 1 .. Len(a) : a[j] = Do("unlock", a[i + 1].on)
        BY <1>1, <1>2, <1>3 DEF Closing
    <2>2. j - 1 \in i + 1 .. Len(Tail(a)) /\ j - 1 \in 1 .. Len(Tail(a))
          /\ (j - 1) + 1 = j
        BY <1>2, <2>1
    <2> QED BY <1>2, <2>1, <2>2
<1> QED BY <1>2, <1>3 DEF Programs, Closing

-----------------------------------------------------------------------------
(***************************************************************************)
(* The programs of the module.                                             *)
(***************************************************************************)

\* Calls of a user who may make those in allowed.
MayCall(allowed, p) ==
    \/ "connections" \in allowed /\ p = CallConnections
    \/ \E c \in Connections :
         \/ "close" \in allowed /\ p = <<Do("emit", <<"closed", c>>)>>
         \/ "send" \in allowed /\ p = DispatchSlot(c)

Handles(p) ==
    \/ p \in {<<>>, <<Do("emit", <<"error", 0>>)>>}
    \/ \E c \in Connections :
         \/ p = WaitPackage(c) \o <<Do("emit", Session(c))>>
         \/ p \in ReadHandler(c)
         \/ p \in {<<Do("emit", <<"closed", c>>)>>, <<Do("emit", <<"error", c>>)>>}
         \/ p = Locked(<<"write", c>>, <<>>)

\* Instructions about the connection c, and about the server.
LEMMA InstructionsOf ==
    /\ \A c \in Connections :
         /\ <<"write", c>> \in Locks /\ c # 0
         /\ \A op \in {"read", "write", "push"} : Do(op, <<"write", c>>) \in Instructions
         /\ \A s \in ConnectionSignals :
              /\ Do("emit", <<s, c>>) \in Instructions
              /\ Do("connect", <<s, c>>) \in Instructions
         /\ Do("user", <<"received", c>>) \in Instructions
         /\ Session(c) \in Locks /\ Do("emit", Session(c)) \in Instructions
         /\ \A op \in {"destroy", "erase", "drop"} :
              Do(op, Session(c)) \in Instructions
    /\ List \in Locks /\ Do("next", List) \in Instructions
    /\ \A s \in ServerSignals : /\ Do("emit", <<s, 0>>) \in Instructions
                                /\ Do("user", <<s, 0>>) \in Instructions
    /\ \A l \in Locks : Do("unlock", l) \in Instructions
    /\ \A op, l : Do(op, l).op = op /\ Do(op, l).on = l
<1>1. \A c \in Connections : c # 0
    BY LocksAssumption
<1>2. \A c \in Connections : <<"write", c>> \in Locks
    BY DEF Locks
<1>3. ASSUME NEW c \in Connections
      PROVE  /\ \A op \in {"read", "write", "push"} :
                    Do(op, <<"write", c>>) \in Instructions
             /\ \A s \in ConnectionSignals :
                  /\ Do("emit", <<s, c>>) \in Instructions
                  /\ Do("connect", <<s, c>>) \in Instructions
             /\ Do("user", <<"received", c>>) \in Instructions
    BY DEF Instructions, Do, Signals
<1>4. List \in Locks /\ Do("next", List) \in Instructions
    BY DEF List, Locks, Instructions, Do
<1>5. \A s \in ServerSignals : /\ Do("emit", <<s, 0>>) \in Instructions
                               /\ Do("user", <<s, 0>>) \in Instructions
    BY DEF Instructions, Do, Signals
<1>6. \A l \in Locks : Do("unlock", l) \in Instructions
    BY DEF Instructions, Do
<1>7. \A op, l : Do(op, l).op = op /\ Do(op, l).on = l
    BY DEF Do
<1>8. ASSUME NEW c \in Connections
      PROVE  /\ Session(c) \in Locks /\ Do("emit", Session(c)) \in Instructions
             /\ \A op \in {"destroy", "erase", "drop"} :
                  Do(op, Session(c)) \in Instructions
    <2>1. Session(c) \in Locks /\ Session(c) \in Sessions
        BY DEF Session, Locks, Sessions
    <2> QED BY <2>1 DEF Instructions, Do, Signals
<1> QED BY <1>1, <1>2, <1>3, <1>4, <1>5, <1>6, <1>7, <1>8

LEMMA WaitPackageProgram ==
    ASSUME NEW c \in Connections
    PROVE  WaitPackage(c) \in Programs
<1>1. <<Do("read", <<"write", c>>)>> \in Programs
    BY InstructionsOf, OneDo
<1> QED BY <1>1, InstructionsOf, LockedProgram DEF WaitPackage

LEMMA AddConnectionProgram ==
    ASSUME NEW c \in Connections
    PROVE  AddConnection(c) \in Programs
<1>1. /\ <<Do("connect", <<"closed", c>>)>> \in Programs
      /\ <<Do("connect", <<"error", c>>)>> \in Programs
      /\ <<Do("connect", <<"received", c>>)>> \in Programs
      /\ <<Do("push", <<"write", c>>)>> \in Programs
      /\ <<Do("emit", <<"connected", 0>>)>> \in Programs
    <2>1. ASSUME NEW s \in ConnectionSignals
          PROVE  <<Do("connect", <<s, c>>)>> \in Programs
        <3>1. Do("connect", <<s, c>>) \in Instructions
            BY InstructionsOf
        <3> QED BY <3>1, OneDo
    <2>2. {"closed", "error", "received"} \subseteq ConnectionSignals
        BY DEF ConnectionSignals
    <2>3. <<Do("push", <<"write", c>>)>> \in Programs
        <3>1. Do("push", <<"write", c>>) \in Instructions
            BY InstructionsOf
        <3> QED BY <3>1, OneDo
    <2>4. "connected" \in ServerSignals
        BY DEF ServerSignals
    <2>5. <<Do("emit", <<"connected", 0>>)>> \in Programs
        BY <2>4, InstructionsOf, OneDo
    <2> QED BY <2>1, <2>2, <2>3, <2>5
<1>2. <<Do("connect", <<"closed", c>>), Do("connect", <<"error", c>>),
        Do("connect", <<"received", c>>)>>
        = (<<Do("connect", <<"closed", c>>)>> \o <<Do("connect", <<"error", c>>)>>)
            \o <<Do("connect", <<"received", c>>)>>
    OBVIOUS
<1>3. <<Do("push", <<"write", c>>), Do("emit", <<"connected", 0>>)>>
        = <<Do("push", <<"write", c>>)>> \o <<Do("emit", <<"connected", 0>>)>>
    OBVIOUS
<1>4. Locked(List, <<Do("push", <<"write", c>>), Do("emit", <<"connected", 0>>)>>)
        \in Programs
    BY <1>1, <1>3, ConcatPrograms, LockedProgram, InstructionsOf
<1> QED BY <1>1, <1>2, <1>4, ConcatPrograms DEF AddConnection

LEMMA AdmitProgram ==
    ASSUME NEW c \in Connections
    PROVE  /\ <<Do("drop", Session(c)), Do("next", List)>> \in Programs
           /\ Admit(c) \in Programs
<1>1. <<Do("drop", Session(c))>> \in Programs /\ <<Do("next", List)>> \in Programs
    BY InstructionsOf, OneDo
<1>2. <<Do("drop", Session(c)), Do("next", List)>>
        = <<Do("drop", Session(c))>> \o <<Do("next", List)>>
    OBVIOUS
<1>3. <<Do("drop", Session(c)), Do("next", List)>> \in Programs
    BY <1>1, <1>2, ConcatPrograms
<1> QED BY <1>3, AddConnectionProgram, ConcatPrograms DEF Admit

LEMMA RemoveProgram ==
    ASSUME NEW c \in Connections
    PROVE  /\ <<Do("erase", Session(c))>> \in Programs
           /\ RemoveConnection(c) \in Programs
           /\ <<Do("destroy", Session(c))>> \in Programs
<1>1. /\ <<Do("erase", Session(c))>> \in Programs
      /\ <<Do("destroy", Session(c))>> \in Programs
    BY InstructionsOf, OneDo
<1> QED BY <1>1, InstructionsOf, LockedProgram DEF RemoveConnection

LEMMA DispatchProgram ==
    ASSUME NEW c \in Connections
    PROVE  DispatchSlot(c) \in Programs
<1>1. <<Do("write", <<"write", c>>)>> \in Programs
    BY InstructionsOf, OneDo
<1> QED BY <1>1, InstructionsOf, LockedProgram DEF DispatchSlot

LEMMA BodyProgram ==
    ASSUME NEW l \in Signals, slots \subseteq ConnectionSignals \X Connections
    PROVE  Body(l) \in Programs
<1>1. CASE l[2] = 0
    <2>1. l \in ServerSignals \X {0} /\ l[1] # "session"
        <3>1. l \in ServerSignals \X {0}
            BY <1>1, InstructionsOf DEF Signals, Sessions
        <3> QED BY <3>1 DEF ServerSignals
    <2>2. <<Do("user", l)>> \in Programs
        BY <2>1, InstructionsOf, OneDo
    <2>3. l \notin slots
        BY <1>1, InstructionsOf
    <2>4. Body(l) = <<Do("user", l)>>
        BY <1>1, <2>1, <2>3 DEF Body
    <2> QED BY <2>2, <2>4
<1>2. CASE l[2] # 0
    <2>1. /\ l = <<l[1], l[2]>> /\ l[2] \in Connections
          /\ l[1] \in ConnectionSignals \cup {"session"}
          /\ l \in slots => l[1] \in ConnectionSignals
        BY <1>2 DEF Signals, Sessions
    <2>2. CASE l \notin slots /\ l[1] # "session"
        <3>1. Body(l) = <<>>
            BY <1>2, <2>2 DEF Body
        <3> QED BY <3>1, NoProgram
    <2>3. CASE l[1] = "session"
        <3>1. Body(l) = Admit(l[2])
            BY <1>2, <2>1, <2>3 DEF Body, ConnectionSignals
        <3> QED BY <2>1, <3>1, AdmitProgram
    <2>4. CASE l \in slots /\ l[1] = "closed"
        <3>1. <<Do("emit", <<"disconnected", 0>>)>> \in Programs
            BY InstructionsOf, OneDo DEF ServerSignals
        <3>2. ClosedSlot(l[2]) \in Programs
            BY <2>1, <3>1, RemoveProgram, ConcatPrograms DEF ClosedSlot
        <3>3. Body(l) = ClosedSlot(l[2])
            BY <1>2, <2>1, <2>4 DEF Body
        <3> QED BY <3>2, <3>3
    <2>5. CASE l \in slots /\ l[1] # "closed" /\ l[1] # "session"
        <3>1. l[1] \in ServerSignals
            BY <2>1, <2>5 DEF ConnectionSignals, ServerSignals
        <3>2. <<Do("emit", <<l[1], 0>>)>> \in Programs
            BY <3>1, InstructionsOf, OneDo
        <3>3. Body(l) = <<Do("emit", <<l[1], 0>>)>>
            BY <1>2, <2>1, <2>5 DEF Body
        <3> QED BY <3>2, <3>3
    <2> QED BY <2>2, <2>4, <2>5, <2>3
<1> QED BY <1>1, <1>2

LEMMA CallProgram ==
    ASSUME NEW p, NEW allowed, MayCall(allowed, p)
    PROVE  p \in Programs
<1>1. CallConnections \in Programs
    BY NoProgram, LockedProgram, InstructionsOf DEF CallConnections
<1>2. \A c \in Connections : <<Do("emit", <<"closed", c>>)>> \in Programs
    BY OneDo, InstructionsOf DEF ConnectionSignals
<1> QED BY <1>1, <1>2, DispatchProgram DEF MayCall

LEMMA HandlerProgram ==
    ASSUME NEW p, Handles(p)
    PROVE  p \in Programs
<1>1. <<Do("emit", <<"error", 0>>)>> \in Programs
    BY OneDo, InstructionsOf DEF ServerSignals
<1>2. ASSUME NEW c \in Connections
      PROVE  WaitPackage(c) \o <<Do("emit", Session(c))>> \in Programs
    <2>1. <<Do("emit", Session(c))>> \in Programs
        BY OneDo, InstructionsOf
    <2> QED BY <2>1, WaitPackageProgram, ConcatPrograms
<1>3. ASSUME NEW c \in Connections, p \in ReadHandler(c)
      PROVE  p \in Programs
    <2>1. PICK op \in {"emit", "user"} :
            p = <<Do(op, <<"received", c>>)>> \o WaitPackage(c)
        BY <1>3 DEF ReadHandler
    <2>2. <<Do(op, <<"received", c>>)>> \in Programs
        BY OneDo, InstructionsOf DEF ConnectionSignals
    <2> QED BY <2>1, <2>2, WaitPackageProgram, ConcatPrograms
<1>4. ASSUME NEW c \in Connections
      PROVE  /\ <<Do("emit", <<"closed", c>>)>> \in Programs
             /\ <<Do("emit", <<"error", c>>)>> \in Programs
             /\ Locked(<<"write", c>>, <<>>) \in Programs
    <2>1. ASSUME NEW s \in ConnectionSignals
          PROVE  <<Do("emit", <<s, c>>)>> \in Programs
        <3>1. Do("emit", <<s, c>>) \in Instructions
            BY InstructionsOf
        <3> QED BY <3>1, OneDo
    <2>2. {"closed", "error"} \subseteq ConnectionSignals
        BY DEF ConnectionSignals
    <2>3. Locked(<<"write", c>>, <<>>) \in Programs
        BY InstructionsOf, NoProgram, LockedProgram
    <2> QED BY <2>1, <2>2, <2>3
<1> QED BY <1>1, <1>2, <1>3, <1>4, NoProgram DEF Handles

-----------------------------------------------------------------------------
(***************************************************************************)
(* What a step does to the agendas.                                        *)
(***************************************************************************)

\* The steps that neither lock nor unlock.
Quiet(t) ==
    /\ holder' = holder
    /\ \/ /\ agenda[t] # <<>>
          /\ Instruction(t).op \in {"connect", "destroy", "user", "read", "write",
                                    "push", "erase", "drop", "next"}
          /\ Continue(t, <<>>)
       \/ /\ Ready(t, "erase") \/ Ready(t, "drop")
          /\ Continue(t, <<Do("destroy", Session(Instruction(t).on[2]))>>)
       \/ /\ Ready(t, "user")
          /\ \E p : /\ MayCall(UserMay[Instruction(t).on[1]], p)
                    /\ Continue(t, p)
       \/ /\ agenda[t] = <<>>
          /\ \E p : /\ MayCall(Calls, p) \/ Handles(p)
                    /\ agenda' = [agenda EXCEPT ![t] = p]

LEMMA CallShape ==
    ASSUME NEW t, NEW allowed, NEW rest, Call(t, allowed, rest), known \subseteq Connections
    PROVE  \E p : MayCall(allowed, p) /\ agenda' = [agenda EXCEPT ![t] = p \o rest]
BY DEF Call, MayCall

LEMMA StepShape ==
    ASSUME agenda \in [Threads -> Programs], known \subseteq Connections, Next
    PROVE  \E t \in Threads : Lock(t) \/ Unlock(t) \/ Emit(t) \/ Quiet(t)
<1>1. ASSUME NEW t \in Threads, Step(t)
      PROVE  Lock(t) \/ Unlock(t) \/ Emit(t) \/ Quiet(t)
    <2>1. CASE \/ ConnectSlot(t) \/ Initiate(t) \/ DestroySession(t) \/ Serve(t)
               \/ UserSlotReturns(t)
        BY <2>1 DEF ConnectSlot, Initiate, DestroySession, Serve, UserSlotReturns,
                    Ready, Quiet, server
    <2>2. CASE Release(t)
        <3>1. \/ Continue(t, <<>>)
              \/ Continue(t, <<Do("destroy", Session(Instruction(t).on[2]))>>)
            BY <2>2 DEF Release
        <3> QED BY <2>2, <3>1 DEF Release, Quiet, Ready
    <2>3. CASE UserSlotCalls(t)
        <3>1. PICK p : /\ MayCall(UserMay[Instruction(t).on[1]], p)
                       /\ agenda' = [agenda EXCEPT ![t] = p \o Tail(agenda[t])]
            BY <2>3, CallShape DEF UserSlotCalls
        <3>2. Continue(t, p)
            BY <3>1 DEF Continue
        <3> QED BY <2>3, <3>1, <3>2 DEF UserSlotCalls, Call, Quiet
    <2> QED BY <1>1, <2>1, <2>3, <2>2 DEF Step
<1>2. ASSUME NEW t \in Users, UserThread(t) PROVE Quiet(t)
    <2>1. PICK p : MayCall(Calls, p) /\ agenda' = [agenda EXCEPT ![t] = p \o <<>>]
        BY <1>2, CallShape DEF UserThread
    <2>2. p \o <<>> = p
        <3>1. p \in Seq(Instructions)
            BY <2>1, CallProgram DEF Programs
        <3> QED BY <3>1, ConcatEmptySeq
    <2> QED BY <1>2, <2>1, <2>2 DEF UserThread, Call, Quiet
<1>3. ASSUME NEW t \in Workers, NEW p, Begin(t, p), Handles(p), holder' = holder
      PROVE  Quiet(t)
    BY <1>3 DEF Begin, Quiet
<1>4. ASSUME NEW t \in Workers, AcceptFails(t) PROVE Quiet(t)
    BY <1>3, <1>4 DEF AcceptFails, Handles
<1>5. ASSUME NEW t \in Workers, NEW c \in Connections,
             Accepted(t, c) \/ ReadDone(t, c) \/ ReadEnds(t, c) \/ WriteEnds(t, c)
      PROVE  Quiet(t)
    <2>1. CASE Accepted(t, c)
        BY <1>3, <2>1 DEF Accepted, Handles
    <2>2. CASE ReadDone(t, c)
        BY <1>3, <2>2 DEF ReadDone, Handles
    <2>3. CASE ReadEnds(t, c)
        BY <1>3, <2>3 DEF ReadEnds, Handles
    <2>4. CASE WriteEnds(t, c)
        BY <1>3, <2>4 DEF WriteEnds, Handles
    <2> QED BY <1>5, <2>1, <2>2, <2>3, <2>4
<1> QED BY <1>1, <1>2, <1>4, <1>5 DEF Next, Threads

-----------------------------------------------------------------------------
(***************************************************************************)
(* Type correctness.                                                       *)
(***************************************************************************)

\* TypeOK, and agendas are programs.
Types == TypeOK /\ agenda \in [Threads -> Programs]

LEMMA SignalsAreLocks ==
    /\ Signals \subseteq Locks /\ List \in Locks
    /\ ServerSignals \X {0} \cup {"received"} \X Connections \subseteq Locks
    /\ ConnectionSignals \X Connections \subseteq Locks
    /\ {"write"} \X Connections \subseteq Locks /\ Sessions \subseteq Locks
<1>1. Signals \subseteq Locks /\ List \in Locks
    BY DEF Signals, Sessions, Locks, List
<1>2. ServerSignals \X {0} \subseteq Locks
    BY DEF Locks
<1>3. ConnectionSignals \X Connections \subseteq Locks
    BY DEF Locks
<1>4. {"received"} \X Connections \subseteq Locks
    BY DEF Locks, ConnectionSignals
<1>5. {"write"} \X Connections \subseteq Locks /\ Sessions \subseteq Locks
    BY DEF Locks, Sessions
<1> QED BY <1>1, <1>2, <1>3, <1>4, <1>5

LEMMA ProgramsTyped == Programs \subseteq Seq([op : Ops, on : Locks])
<1>1. Instructions \subseteq [op : Ops, on : Locks]
    BY SignalsAreLocks DEF Instructions, Ops
<1> QED BY <1>1, SeqMonotonic DEF Programs

LEMMA AgendaType ==
    ASSUME Types, NEW t \in Threads, NEW p \in Programs,
           \/ agenda[t] # <<>> /\ Continue(t, p)
           \/ agenda' = [agenda EXCEPT ![t] = p]
    PROVE  agenda' \in [Threads -> Programs]
<1>1. agenda \in [Threads -> Programs] /\ agenda[t] \in Programs
    BY DEF Types
<1>2. CASE agenda' = [agenda EXCEPT ![t] = p]
    BY <1>1, <1>2
<1>3. CASE agenda[t] # <<>> /\ Continue(t, p)
    <2>1. p \o Tail(agenda[t]) \in Programs
        BY <1>1, <1>3, ProgramTail, ConcatPrograms
    <2>2. agenda' = [agenda EXCEPT ![t] = p \o Tail(agenda[t])]
        BY <1>1, <1>3 DEF Continue
    <2> QED BY <1>1, <2>1, <2>2
<1> QED BY <1>2, <1>3

\* The first instruction of a thread.
LEMMA InstructionType ==
    ASSUME Types, NEW t \in Threads, agenda[t] # <<>>
    PROVE  /\ Instruction(t) \in Instructions
           /\ Instruction(t).on \in Locks
           /\ Instruction(t).op = "emit" => Instruction(t).on \in Signals
           /\ Instruction(t).op = "connect" =>
                Instruction(t).on \in ConnectionSignals \X Connections
           /\ Instruction(t).op = "push" => Instruction(t).on[2] \in Connections
           /\ Instruction(t).op \in {"destroy", "erase", "drop"} =>
                /\ Instruction(t).on[2] \in Connections
                /\ Instruction(t).on = Session(Instruction(t).on[2])
<1>1. Instruction(t) \in Instructions
    BY ProgramTail DEF Types, Instruction
<1>2. Instruction(t).on \in Locks
    BY <1>1, SignalsAreLocks DEF Instructions
<1> QED BY <1>1, <1>2 DEF Instructions, Sessions, Session

LEMMA TypesInit == Init => Types
<1> SUFFICES ASSUME Init PROVE Types
    OBVIOUS
<1>1. agenda \in [Threads -> Programs]
    BY NoProgram DEF Init
<1>2. agenda \in [Threads -> Seq([op : Ops, on : Locks])]
    BY <1>1, ProgramsTyped
<1> QED BY <1>1, <1>2, LocksAssumption DEF Init, Types, TypeOK

LEMMA AgendaNext ==
    ASSUME Types, Next
    PROVE  agenda' \in [Threads -> Programs]
<1>1. PICK t \in Threads : Lock(t) \/ Unlock(t) \/ Emit(t) \/ Quiet(t)
    BY StepShape DEF Types, TypeOK
<1>2. CASE Lock(t) \/ Unlock(t)
    BY <1>2, NoProgram, AgendaType DEF Lock, Unlock, Ready
<1>3. CASE Emit(t)
    <2> DEFINE l == Instruction(t).on
    <2>1. agenda[t] # <<>> /\ l \in Signals /\ l \in Locks
        BY <1>3, InstructionType DEF Emit, Ready
    <2>2. Body(l) \in Programs
        BY <2>1, BodyProgram DEF Types, TypeOK
    <2>3. <<Do("unlock", l)>> \in Programs
        BY <2>1, InstructionsOf, OneDo
    <2>4. Continue(t, Body(l) \o <<Do("unlock", l)>>)
        BY <1>3 DEF Emit
    <2> QED BY <2>1, <2>2, <2>3, <2>4, ConcatPrograms, AgendaType
<1>4. CASE Quiet(t)
    <2>1. CASE /\ Ready(t, "erase") \/ Ready(t, "drop")
               /\ Continue(t, <<Do("destroy", Session(Instruction(t).on[2]))>>)
        <3>1. agenda[t] # <<>> /\ Instruction(t).on[2] \in Connections
            BY <2>1, InstructionType DEF Ready
        <3> QED BY <2>1, <3>1, RemoveProgram, AgendaType
    <2> QED BY <1>4, <2>1, NoProgram, CallProgram, HandlerProgram, AgendaType
            DEF Quiet, Ready
<1> QED BY <1>1, <1>2, <1>3, <1>4

LEMMA CallTypes ==
    ASSUME TypeOK, NEW t, NEW allowed, NEW rest, Call(t, allowed, rest)
    PROVE  /\ holder' \in [Locks -> Threads \cup {Free}]
           /\ slots' \subseteq ConnectionSignals \X Connections
           /\ known' \subseteq Connections /\ listening' \in BOOLEAN
           /\ owners' \in [Connections -> SUBSET {"map", "parameter"}]
           /\ open' \subseteq Connections
           /\ reader' \in [Connections -> {"none", "reading", "handling", "ended"}]
           /\ writer' \in [Connections -> {"idle", "sending", "writing", "ended"}]
           /\ packages' \in [Connections -> 0 .. MaxPackages]
           /\ calls' \in 0 .. MaxCalls
<1>1. calls' \in 0 .. MaxCalls
    BY LocksAssumption DEF Call, TypeOK
<1> QED BY <1>1 DEF Call, TypeOK, server

LEMMA TypesNext == Types /\ [Next]_vars => Types'
<1> SUFFICES ASSUME Types, Next PROVE Types'
    BY DEF vars, server, io, Types, TypeOK
<1>1. agenda' \in [Threads -> Programs]
    BY AgendaNext
<1>2. agenda' \in [Threads -> Seq([op : Ops, on : Locks])]
    BY <1>1, ProgramsTyped
<1> DEFINE Rest == /\ holder \in [Locks -> Threads \cup {Free}]
                   /\ slots \subseteq ConnectionSignals \X Connections
                   /\ known \subseteq Connections /\ listening \in BOOLEAN
                   /\ owners \in [Connections -> SUBSET {"map", "parameter"}]
                   /\ open \subseteq Connections
                   /\ reader \in [Connections -> {"none", "reading", "handling", "ended"}]
                   /\ writer \in [Connections -> {"idle", "sending", "writing", "ended"}]
                   /\ packages \in [Connections -> 0 .. MaxPackages]
                   /\ calls \in 0 .. MaxCalls
<1>3. ASSUME NEW t \in Threads, Step(t) PROVE Rest'
    <2>1. CASE Lock(t) \/ Unlock(t) \/ Emit(t)
        BY <2>1, InstructionType DEF Lock, Unlock, Emit, Ready, Types, TypeOK, server, io
    <2>2. CASE ConnectSlot(t)
        BY <2>2, InstructionType DEF ConnectSlot, Ready, Types, TypeOK, io
    <2>3. CASE Initiate(t)
        BY <2>3 DEF Initiate, Types, TypeOK, server
    <2>4. CASE Serve(t)
        <3>1. CASE Ready(t, "next") /\ UNCHANGED <<known, owners>> /\ listening' = TRUE
            BY <2>4, <3>1 DEF Serve, Types, TypeOK, io
        <3>2. ASSUME Ready(t, "push"), NEW c \in Connections,
                     known' = known \cup {c}, UNCHANGED listening,
                     owners' = [owners EXCEPT ![c] = @ \cup {"map"}]
              PROVE  Rest'
            <4>1. owners[c] \cup {"map"} \in SUBSET {"map", "parameter"}
                BY DEF Types, TypeOK
            <4> QED BY <2>4, <3>2, <4>1 DEF Serve, Types, TypeOK, io
        <3> QED BY <2>4, <3>1, <3>2, InstructionType DEF Serve, Ready
    <2>5. CASE UserSlotReturns(t) \/ DestroySession(t)
        BY <2>5 DEF UserSlotReturns, DestroySession, Types, TypeOK, server, io
    <2>6. CASE Release(t)
        BY <2>6, InstructionType DEF Release, Ready, Types, TypeOK, io
    <2>7. CASE UserSlotCalls(t)
        BY <2>7, CallTypes DEF UserSlotCalls, Types
    <2> QED BY <1>3, <2>1, <2>2, <2>3, <2>4, <2>5, <2>7, <2>6 DEF Step
<1>4. ASSUME NEW t \in Users, UserThread(t) PROVE Rest'
    BY <1>4, CallTypes DEF UserThread, Types
<1>5. ASSUME NEW t \in Workers, AcceptFails(t) PROVE Rest'
    BY <1>5 DEF AcceptFails, Types, TypeOK, io
<1>6. ASSUME NEW t \in Workers, NEW c \in Connections,
             Accepted(t, c) \/ ReadDone(t, c) \/ ReadEnds(t, c) \/ WriteEnds(t, c)
      PROVE  Rest'
    <2>1. CASE Accepted(t, c)
        BY <2>1 DEF Accepted, Types, TypeOK
    <2>2. CASE ReadDone(t, c)
        <3>1. packages[c] + 1 \in 0 .. MaxPackages
            BY <2>2, LocksAssumption DEF ReadDone, Types, TypeOK
        <3> QED BY <2>2, <3>1 DEF ReadDone, Types, TypeOK, server
    <2>3. CASE ReadEnds(t, c)
        BY <2>3 DEF ReadEnds, Types, TypeOK, server
    <2>4. CASE WriteEnds(t, c)
        BY <2>4 DEF WriteEnds, Types, TypeOK, server
    <2> QED BY <1>6, <2>1, <2>2, <2>3, <2>4
<1>7. Rest'
    BY <1>3, <1>4, <1>5, <1>6 DEF Next
<1> QED BY <1>1, <1>2, <1>7 DEF Types, TypeOK

LEMMA TypesHold == Spec => []Types
BY TypesInit, TypesNext, PTL DEF Spec

\* Every variable keeps its type, whatever the users' slots call.
THEOREM TypeCorrect == Spec => []TypeOK
BY TypesHold, PTL DEF Types

-----------------------------------------------------------------------------
(***************************************************************************)
(* Every mutex is released.                                                *)
(***************************************************************************)

\* The agenda a still unlocks l.
Owes(a, l) == \E j \in 1 .. Len(a) : a[j] = Do("unlock", l)

HolderInv == \A t \in Threads, l \in Locks : holder[l] = t => Owes(agenda[t], l)

LEMMA OwesConcat ==
    ASSUME NEW x \in Programs, NEW y \in Programs, NEW l, Owes(x, l) \/ Owes(y, l)
    PROVE  Owes(x \o y, l)
<1>1. x \in Seq(Instructions) /\ y \in Seq(Instructions)
    BY DEF Programs
<1>2. /\ Len(x) \in Nat /\ Len(y) \in Nat
      /\ Len(x \o y) = Len(x) + Len(y)
      /\ \A i \in 1 .. Len(x) : (x \o y)[i] = x[i]
      /\ \A i \in 1 .. Len(y) : (x \o y)[Len(x) + i] = y[i]
    BY <1>1, ConcatProperties, LenProperties
<1>3. CASE Owes(x, l)
    <2>1. PICK j \in 1 .. Len(x) : x[j] = Do("unlock", l)
        BY <1>3 DEF Owes
    <2>2. j \in 1 .. Len(x \o y) /\ (x \o y)[j] = Do("unlock", l)
        BY <1>2, <2>1
    <2> QED BY <2>2 DEF Owes
<1>4. CASE Owes(y, l)
    <2>1. PICK j \in 1 .. Len(y) : y[j] = Do("unlock", l)
        BY <1>4 DEF Owes
    <2>2. Len(x) + j \in 1 .. Len(x \o y) /\ (x \o y)[Len(x) + j] = Do("unlock", l)
        BY <1>2, <2>1
    <2> QED BY <2>2 DEF Owes
<1> QED BY <1>3, <1>4

\* Taking the first instruction pays one debt, locking makes one.
LEMMA OwesTail ==
    ASSUME NEW a \in Programs, a # <<>>, NEW l
    PROVE  /\ Owes(a, l) /\ Head(a) # Do("unlock", l) => Owes(Tail(a), l)
           /\ Head(a) = Do("lock", l) => Owes(Tail(a), l)
<1>1. ASSUME NEW j \in 2 .. Len(a), a[j] = Do("unlock", l) PROVE Owes(Tail(a), l)
    <2>1. j - 1 \in 1 .. Len(Tail(a)) /\ Tail(a)[j - 1] = a[j]
        BY ProgramTail
    <2> QED BY <1>1, <2>1 DEF Owes
<1>2. ASSUME Owes(a, l), Head(a) # Do("unlock", l) PROVE Owes(Tail(a), l)
    <2>1. PICK j \in 1 .. Len(a) : a[j] = Do("unlock", l)
        BY <1>2 DEF Owes
    <2>2. j \in 2 .. Len(a)
        BY <1>2, <2>1, ProgramTail
    <2> QED BY <1>1, <2>1, <2>2
<1>3. ASSUME Head(a) = Do("lock", l) PROVE Owes(Tail(a), l)
    <2>1. Closing(a) /\ 1 \in 1 .. Len(a) /\ a[1].op = "lock" /\ a[1].on = l
        BY <1>3, ProgramTail, InstructionsOf DEF Programs
    <2>2. PICK j \in 1 + 1 .. Len(a) : a[j] = Do("unlock", l)
        BY <2>1 DEF Closing
    <2> QED BY <1>1, <2>2
<1> QED BY <1>2, <1>3

LEMMA HolderNext ==
    ASSUME Types, HolderInv, Next
    PROVE  HolderInv'
<1>1. PICK t \in Threads : Lock(t) \/ Unlock(t) \/ Emit(t) \/ Quiet(t)
    BY StepShape DEF Types, TypeOK
<1>2. /\ \A u \in Threads : u # Free
      /\ agenda \in [Threads -> Programs] /\ agenda[t] \in Programs
      /\ holder \in [Locks -> Threads \cup {Free}]
    BY LocksAssumption DEF Threads, Types, TypeOK
<1>3. \A u \in Threads \ {t} : agenda'[u] = agenda[u]
    BY <1>1, <1>2 DEF Lock, Unlock, Emit, Quiet, Continue
<1>4. agenda[t] # <<>> => Instruction(t) = Do(Instruction(t).op, Instruction(t).on)
    BY InstructionType DEF Instructions, Do
<1>5. ASSUME NEW p \in Programs, Continue(t, p), agenda[t] # <<>>, NEW l,
             Owes(p, l) \/ Owes(Tail(agenda[t]), l)
      PROVE  Owes(agenda'[t], l)
    <2>1. agenda'[t] = p \o Tail(agenda[t])
        BY <1>2, <1>5 DEF Continue
    <2> QED BY <1>2, <1>5, <2>1, ProgramTail, OwesConcat
<1>6. CASE Lock(t)
    <2> DEFINE m == Instruction(t).on
    <2>1. /\ agenda[t] # <<>> /\ Head(agenda[t]) = Do("lock", m) /\ m \in Locks
          /\ holder' = [holder EXCEPT ![m] = t] /\ Continue(t, <<>>)
        BY <1>4, <1>6, InstructionType DEF Lock, Ready, Instruction
    <2>2. \A l \in Locks : holder'[l] = t => Owes(agenda'[t], l)
        <3> SUFFICES ASSUME NEW l \in Locks, holder'[l] = t
                     PROVE  Owes(Tail(agenda[t]), l)
            BY <1>5, <2>1, NoProgram
        <3>1. CASE l = m
            BY <1>2, <2>1, <3>1, OwesTail
        <3>2. CASE l # m
            <4>1. holder[l] = t
                BY <1>2, <2>1, <3>2
            <4>2. Do("lock", m) # Do("unlock", l)
                BY DEF Do
            <4> QED BY <1>2, <2>1, <4>1, <4>2, OwesTail DEF HolderInv
        <3> QED BY <3>1, <3>2
    <2>3. \A u \in Threads \ {t}, l \in Locks : holder'[l] = u => holder[l] = u
        BY <1>2, <2>1
    <2> QED BY <1>3, <2>2, <2>3 DEF HolderInv
<1>7. CASE Unlock(t)
    <2> DEFINE m == Instruction(t).on
    <2>1. /\ agenda[t] # <<>> /\ Head(agenda[t]) = Do("unlock", m) /\ m \in Locks
          /\ holder' = [holder EXCEPT ![m] = Free] /\ Continue(t, <<>>)
        BY <1>4, <1>7, InstructionType DEF Unlock, Ready, Instruction
    <2>2. \A u \in Threads, l \in Locks : holder'[l] = u => l # m /\ holder[l] = u
        BY <1>2, <2>1
    <2>3. \A l : l # m => Do("unlock", m) # Do("unlock", l)
        BY DEF Do
    <2>4. \A l \in Locks : holder'[l] = t => Owes(Tail(agenda[t]), l)
        BY <1>2, <2>1, <2>2, <2>3, OwesTail DEF HolderInv
    <2>5. \A l \in Locks : holder'[l] = t => Owes(agenda'[t], l)
        BY <1>5, <2>1, <2>4, NoProgram
    <2> QED BY <1>3, <2>2, <2>5 DEF HolderInv
<1>8. CASE Emit(t)
    <2> DEFINE m == Instruction(t).on
               p == Body(m) \o <<Do("unlock", m)>>
    <2>1. /\ agenda[t] # <<>> /\ Head(agenda[t]) = Do("emit", m)
          /\ m \in Locks /\ m \in Signals
          /\ holder' = [holder EXCEPT ![m] = t] /\ Continue(t, p)
        BY <1>4, <1>8, InstructionType DEF Emit, Ready, Instruction
    <2>2. Body(m) \in Programs /\ <<Do("unlock", m)>> \in Programs
        BY <2>1, BodyProgram, InstructionsOf, OneDo DEF Types, TypeOK
    <2>3. Owes(<<Do("unlock", m)>>, m)
        BY DEF Owes
    <2>4. p \in Programs /\ Owes(p, m)
        BY <2>2, <2>3, ConcatPrograms, OwesConcat
    <2>5. \A l \in Locks : holder'[l] = t => Owes(agenda'[t], l)
        <3> SUFFICES ASSUME NEW l \in Locks, holder'[l] = t
                     PROVE  Owes(p, l) \/ Owes(Tail(agenda[t]), l)
            BY <1>5, <2>1, <2>4
        <3>1. CASE l = m
            BY <2>4, <3>1
        <3>2. CASE l # m
            <4>1. holder[l] = t
                BY <1>2, <2>1, <3>2
            <4>2. Do("emit", m) # Do("unlock", l)
                BY DEF Do
            <4> QED BY <1>2, <2>1, <4>1, <4>2, OwesTail DEF HolderInv
        <3> QED BY <3>1, <3>2
    <2>6. \A u \in Threads \ {t}, l \in Locks : holder'[l] = u => holder[l] = u
        BY <1>2, <2>1
    <2> QED BY <1>3, <2>5, <2>6 DEF HolderInv
<1>9. CASE Quiet(t)
    <2>1. ASSUME NEW l \in Locks, holder'[l] = t PROVE Owes(agenda'[t], l)
        <3>1. Owes(agenda[t], l)
            BY <1>9, <2>1 DEF Quiet, HolderInv
        <3>2. agenda[t] # <<>>
            BY <3>1, EmptySeq DEF Owes
        <3>3. Instruction(t).op # "unlock"
            BY <1>9, <3>2 DEF Quiet, Ready
        <3>4. Head(agenda[t]) # Do("unlock", l)
            BY <3>3 DEF Instruction, Do
        <3>5. Owes(Tail(agenda[t]), l)
            BY <1>2, <3>1, <3>2, <3>4, OwesTail
        <3>6. \E p \in Programs : Continue(t, p)
            <4>1. Ready(t, "erase") \/ Ready(t, "drop") =>
                    Instruction(t).on[2] \in Connections
                BY <3>2, InstructionType DEF Ready
            <4> QED BY <1>9, <3>2, <4>1, NoProgram, CallProgram, RemoveProgram DEF Quiet
        <3> QED BY <1>5, <3>2, <3>5, <3>6
    <2> QED BY <1>3, <1>9, <2>1 DEF Quiet, HolderInv
<1> QED BY <1>1, <1>6, <1>7, <1>8, <1>9

LEMMA HolderHolds == Spec => [](Types /\ HolderInv)
<1>1. Init => Types /\ HolderInv
    <2>1. Init => HolderInv
        BY LocksAssumption DEF Init, HolderInv, Threads
    <2> QED BY <2>1, TypesInit
<1>2. Types /\ HolderInv /\ [Next]_vars => (Types /\ HolderInv)'
    <2>1. CASE UNCHANGED vars
        BY <2>1, TypesNext DEF vars, HolderInv, Owes
    <2> QED BY <2>1, TypesNext, HolderNext
<1> QED BY <1>1, <1>2, PTL DEF Spec

\* A thread that has returned to the service or to the user holds no mutex,
\* whatever the users' slots have called.
THEOREM MutexesAreReleased == Spec => []IdleHoldsNothing
<1>1. Types /\ HolderInv => IdleHoldsNothing
    BY EmptySeq DEF HolderInv, IdleHoldsNothing, Owes
<1> QED BY <1>1, HolderHolds, PTL

-----------------------------------------------------------------------------
(***************************************************************************)
(* The order of the mutexes.                                               *)
(***************************************************************************)

\* Threads that hold a mutex lock only mutexes of a higher rank.
Rank(l) ==
    CASE l[1] = "write"        -> 7     \* connection::_mutex
      [] l[1] = "connected"    -> 6
      [] l[1] = "list"         -> 5     \* server::_mutex
      [] l[1] = "disconnected" -> 4
      [] l[1] = "closed"       -> 3
      [] l[1] \in {"error", "received"} /\ l[2] = 0 -> 2
      [] l[1] \in {"error", "received"} /\ l[2] # 0 -> 1
      [] l[1] = "session"      -> 0

\* What users' slots may call: one that runs under server::_mutex, as the slot
\* of connected does, nothing that needs it, and one that runs inside closed
\* nothing that emits it.
OrderedSlots ==
    /\ UserMay["connected"] \subseteq {"send"}
    /\ UserMay["disconnected"] \subseteq {"connections", "send"}

\* The lowest rank a user's slot of the signal s may lock, and an instruction.
SlotLeast(s) ==
    CASE s = "connected"    -> 7
      [] s = "disconnected" -> 5
      [] s \in {"error", "received"} -> 3

Least(d) ==
    CASE d.op \in {"lock", "emit", "connect"} -> Rank(d.on)
      [] d.op = "user" -> SlotLeast(d.on[1])
      [] d.op \in {"unlock", "destroy", "read", "write", "push", "erase", "drop",
                   "next"} -> 8

Above(a, r) == \A i \in 1 .. Len(a) : Least(a[i]) >= r

\* Before its instruction i, the agenda a has l to unlock: l is held there.
Opens(a, i, l) ==
    \E j \in i .. Len(a) : /\ a[j] = Do("unlock", l)
                           /\ \A k \in i .. j - 1 : a[k] # Do("lock", l)

\* What is held after an instruction it has locked itself, or it ranks lower than
\* what the instruction locks; and what it has locked is held.
Nested(a) ==
    \A i \in 1 .. Len(a), l \in Locks :
        /\ Opens(a, i + 1, l) => a[i] = Do("lock", l) \/ Rank(l) < Least(a[i])
        /\ a[i] = Do("lock", l) => Opens(a, i + 1, l)

\* A program begins with nothing held and locks nothing below r.
Orderly(a, r) ==
    /\ Nested(a)
    /\ Above(a, r)
    /\ \A l \in Locks : ~ Opens(a, 1, l)

LEMMA RankType == \A l \in Locks : Rank(l) \in 0 .. 7
BY DEF Locks, ServerSignals, ConnectionSignals, Rank

LEMMA RanksOf ==
    /\ \A c \in Connections : /\ Rank(<<"write", c>>) = 7
                              /\ Rank(<<"closed", c>>) = 3
                              /\ Rank(<<"error", c>>) = 1
                              /\ Rank(<<"received", c>>) = 1
                              /\ Rank(Session(c)) = 0
    /\ Rank(<<"connected", 0>>) = 6 /\ Rank(List) = 5
    /\ Rank(<<"disconnected", 0>>) = 4
    /\ Rank(<<"error", 0>>) = 2 /\ Rank(<<"received", 0>>) = 2
<1>1. \A c \in Connections : c # 0
    BY LocksAssumption
<1> QED BY <1>1 DEF Rank, List, Session

LEMMA LeastType == \A d \in Instructions : Least(d) \in 0 .. 8
<1> SUFFICES ASSUME NEW d \in Instructions PROVE Least(d) \in 0 .. 8
    OBVIOUS
<1>1. CASE d.op \in {"lock", "emit", "connect"}
    <2>1. d.on \in Locks
        BY <1>1, SignalsAreLocks DEF Instructions
    <2>2. Least(d) = Rank(d.on)
        BY <1>1 DEF Least
    <2> QED BY <2>1, <2>2, RankType
<1>2. CASE d.op = "user"
    <2>1. d.on[1] \in ServerSignals
        BY <1>2 DEF Instructions, ServerSignals
    <2>2. Least(d) = SlotLeast(d.on[1])
        BY <1>2 DEF Least
    <2>3. SlotLeast(d.on[1]) \in {3, 5, 7}
        BY <2>1 DEF SlotLeast, ServerSignals
    <2> QED BY <2>2, <2>3
<1>3. CASE d.op \in {"unlock", "destroy", "read", "write", "push", "erase", "drop",
                     "next"}
    <2>1. Least(d) = 8
        BY <1>3 DEF Least
    <2> QED BY <2>1
<1> QED BY <1>1, <1>2, <1>3 DEF Instructions

LEMMA LeastOf ==
    /\ \A l : /\ Least(Do("lock", l)) = Rank(l)
              /\ Least(Do("emit", l)) = Rank(l)
              /\ Least(Do("connect", l)) = Rank(l)
              /\ Least(Do("unlock", l)) = 8 /\ Least(Do("next", l)) = 8
              /\ Least(Do("read", l)) = 8 /\ Least(Do("write", l)) = 8
              /\ Least(Do("push", l)) = 8 /\ Least(Do("destroy", l)) = 8
              /\ Least(Do("erase", l)) = 8 /\ Least(Do("drop", l)) = 8
    /\ \A x : /\ Least(Do("user", <<"connected", x>>)) = 7
              /\ Least(Do("user", <<"disconnected", x>>)) = 5
              /\ Least(Do("user", <<"error", x>>)) = 3
              /\ Least(Do("user", <<"received", x>>)) = 3
<1>1. ASSUME NEW l, NEW op \in {"lock", "emit", "connect"}
      PROVE  Least(Do(op, l)) = Rank(l)
    <2>1. Do(op, l).op = op /\ Do(op, l).on = l
        BY DEF Do
    <2> QED BY <2>1 DEF Least
<1>2. ASSUME NEW l, NEW op \in {"unlock", "destroy", "read", "write", "push",
                                "erase", "drop", "next"}
      PROVE  Least(Do(op, l)) = 8
    <2>1. Do(op, l).op = op
        BY DEF Do
    <2> QED BY <2>1 DEF Least
<1>3. \A x : /\ Least(Do("user", <<"connected", x>>)) = 7
             /\ Least(Do("user", <<"disconnected", x>>)) = 5
             /\ Least(Do("user", <<"error", x>>)) = 3
             /\ Least(Do("user", <<"received", x>>)) = 3
    BY DEF Least, SlotLeast, Do
<1> QED BY <1>1, <1>2, <1>3

\* What is held in a concatenation.
LEMMA OpensConcat ==
    ASSUME NEW x \in Programs, NEW y \in Programs, NEW l
    PROVE  /\ \A i \in 1 .. Len(x) + 1 :
                /\ Opens(x \o y, i, l) => Opens(x, i, l) \/ Opens(y, 1, l)
                /\ Opens(x, i, l) => Opens(x \o y, i, l)
           /\ \A k \in 1 .. Len(y) + 1 :
                Opens(x \o y, Len(x) + k, l) <=> Opens(y, k, l)
           /\ /\ Opens(y, 1, l)
              /\ \A i \in 1 .. Len(x) : x[i] # Do("lock", l)
              => Opens(x \o y, 1, l)
<1>1. x \in Seq(Instructions) /\ y \in Seq(Instructions)
    BY DEF Programs
<1>2. /\ Len(x) \in Nat /\ Len(y) \in Nat
      /\ Len(x \o y) = Len(x) + Len(y)
      /\ \A i \in 1 .. Len(x) : (x \o y)[i] = x[i]
      /\ \A i \in 1 .. Len(y) : (x \o y)[Len(x) + i] = y[i]
    BY <1>1, ConcatProperties, LenProperties
<1>3. ASSUME NEW i \in 1 .. Len(x) + 1, Opens(x, i, l) PROVE Opens(x \o y, i, l)
    <2>1. PICK j \in i .. Len(x) : /\ x[j] = Do("unlock", l)
                                   /\ \A k \in i .. j - 1 : x[k] # Do("lock", l)
        BY <1>3 DEF Opens
    <2>2. j \in i .. Len(x \o y) /\ (x \o y)[j] = x[j]
        BY <1>2, <2>1
    <2>3. \A k \in i .. j - 1 : (x \o y)[k] = x[k]
        BY <1>2, <2>1
    <2> QED BY <2>1, <2>2, <2>3 DEF Opens
<1>4. ASSUME NEW k \in 1 .. Len(y) + 1, Opens(y, k, l)
      PROVE  Opens(x \o y, Len(x) + k, l)
    <2>1. PICK j \in k .. Len(y) : /\ y[j] = Do("unlock", l)
                                   /\ \A m \in k .. j - 1 : y[m] # Do("lock", l)
        BY <1>4 DEF Opens
    <2>2. Len(x) + j \in Len(x) + k .. Len(x \o y) /\ (x \o y)[Len(x) + j] = y[j]
        BY <1>2, <2>1
    <2>3. ASSUME NEW m \in Len(x) + k .. (Len(x) + j) - 1
          PROVE  (x \o y)[m] # Do("lock", l)
        <3>1. m - Len(x) \in k .. j - 1 /\ m - Len(x) \in 1 .. Len(y)
              /\ Len(x) + (m - Len(x)) = m
            BY <1>2, <2>1
        <3> QED BY <1>2, <2>1, <3>1
    <2> QED BY <2>1, <2>2, <2>3 DEF Opens
<1>5. ASSUME NEW k \in 1 .. Len(y) + 1, Opens(x \o y, Len(x) + k, l)
      PROVE  Opens(y, k, l)
    <2>1. PICK j \in Len(x) + k .. Len(x \o y) :
            /\ (x \o y)[j] = Do("unlock", l)
            /\ \A m \in Len(x) + k .. j - 1 : (x \o y)[m] # Do("lock", l)
        BY <1>5 DEF Opens
    <2>2. j - Len(x) \in k .. Len(y) /\ j - Len(x) \in 1 .. Len(y)
          /\ Len(x) + (j - Len(x)) = j
        BY <1>2, <2>1
    <2>3. ASSUME NEW m \in k .. (j - Len(x)) - 1
          PROVE  y[m] # Do("lock", l)
        <3>1. Len(x) + m \in Len(x) + k .. j - 1 /\ m \in 1 .. Len(y)
            BY <1>2, <2>1
        <3> QED BY <1>2, <2>1, <3>1
    <2>4. y[j - Len(x)] = Do("unlock", l)
        BY <1>2, <2>1, <2>2
    <2> QED BY <2>2, <2>3, <2>4 DEF Opens
<1>6. ASSUME NEW i \in 1 .. Len(x) + 1, Opens(x \o y, i, l)
      PROVE  Opens(x, i, l) \/ Opens(y, 1, l)
    <2>1. PICK j \in i .. Len(x \o y) :
            /\ (x \o y)[j] = Do("unlock", l)
            /\ \A m \in i .. j - 1 : (x \o y)[m] # Do("lock", l)
        BY <1>6 DEF Opens
    <2>2. CASE j <= Len(x)
        <3>1. j \in i .. Len(x) /\ x[j] = Do("unlock", l)
            BY <1>2, <2>1, <2>2
        <3>2. \A m \in i .. j - 1 : x[m] # Do("lock", l)
            BY <1>2, <2>1, <2>2
        <3> QED BY <3>1, <3>2 DEF Opens
    <2>3. CASE j > Len(x)
        <3>1. j \in Len(x) + 1 .. Len(x \o y)
            BY <1>2, <2>1, <2>3
        <3>2. \A m \in Len(x) + 1 .. j - 1 : (x \o y)[m] # Do("lock", l)
            BY <1>2, <2>1
        <3>3. Opens(x \o y, Len(x) + 1, l)
            BY <2>1, <3>1, <3>2 DEF Opens
        <3> QED BY <1>2, <1>5, <3>3
    <2> QED BY <1>2, <2>1, <2>2, <2>3
<1>7. ASSUME Opens(y, 1, l), \A i \in 1 .. Len(x) : x[i] # Do("lock", l)
      PROVE  Opens(x \o y, 1, l)
    <2>1. Opens(x \o y, Len(x) + 1, l)
        BY <1>2, <1>4, <1>7
    <2>2. PICK j \in Len(x) + 1 .. Len(x \o y) :
            /\ (x \o y)[j] = Do("unlock", l)
            /\ \A m \in Len(x) + 1 .. j - 1 : (x \o y)[m] # Do("lock", l)
        BY <2>1 DEF Opens
    <2>3. \A m \in 1 .. j - 1 : m \in 1 .. Len(x) \/ m \in Len(x) + 1 .. j - 1
        BY <1>2, <2>2
    <2>4. j \in 1 .. Len(x \o y)
        BY <1>2, <2>2
    <2>5. \A m \in 1 .. j - 1 : (x \o y)[m] # Do("lock", l)
        BY <1>2, <1>7, <2>2, <2>3
    <2> QED BY <2>2, <2>4, <2>5 DEF Opens
<1>8. \A k \in 1 .. Len(y) + 1 : Opens(x \o y, Len(x) + k, l) <=> Opens(y, k, l)
    BY <1>4, <1>5
<1> QED BY <1>3, <1>6, <1>7, <1>8

-----------------------------------------------------------------------------
(***************************************************************************)
(* Orderly programs.                                                       *)
(***************************************************************************)

LEMMA OrderlyNone == \A r : Orderly(<<>>, r)
BY EmptySeq DEF Orderly, Nested, Above, Opens

LEMMA OrderlyOne ==
    ASSUME NEW op, NEW l, NEW r, op \notin {"lock", "unlock"},
           Least(Do(op, l)) >= r
    PROVE  Orderly(<<Do(op, l)>>, r)
<1> DEFINE a == <<Do(op, l)>>
<1>1. Len(a) = 1 /\ a[1] = Do(op, l)
    OBVIOUS
<1>2. \A m : Do(op, l) # Do("lock", m) /\ Do(op, l) # Do("unlock", m)
    BY DEF Do
<1> HIDE DEF a
<1>3. \A m : \A i \in Nat \ {0} : ~ Opens(a, i, m)
    BY <1>1, <1>2 DEF Opens
<1>4. Nested(a)
    BY <1>1, <1>2, <1>3 DEF Nested
<1>5. Above(a, r)
    BY <1>1 DEF Above
<1> QED BY <1>3, <1>4, <1>5 DEF Orderly, a

\* The mutexes that the second part has to unlock must rank lower than what the
\* first one locks.
LEMMA NestedConcat ==
    ASSUME NEW x \in Programs, NEW y \in Programs, Nested(x), Nested(y),
           \A i \in 1 .. Len(x), l \in Locks :
               Opens(y, 1, l) => Rank(l) < Least(x[i])
    PROVE  Nested(x \o y)
<1>1. x \in Seq(Instructions) /\ y \in Seq(Instructions)
    BY DEF Programs
<1>2. /\ Len(x) \in Nat /\ Len(y) \in Nat
      /\ Len(x \o y) = Len(x) + Len(y)
      /\ \A i \in 1 .. Len(x) : (x \o y)[i] = x[i]
      /\ \A i \in 1 .. Len(y) : (x \o y)[Len(x) + i] = y[i]
    BY <1>1, ConcatProperties, LenProperties
<1> SUFFICES ASSUME NEW i \in 1 .. Len(x \o y), NEW l \in Locks
             PROVE  /\ Opens(x \o y, i + 1, l) =>
                         \/ (x \o y)[i] = Do("lock", l)
                         \/ Rank(l) < Least((x \o y)[i])
                    /\ (x \o y)[i] = Do("lock", l) => Opens(x \o y, i + 1, l)
    BY DEF Nested
<1>3. CASE i \in 1 .. Len(x)
    <2>1. i + 1 \in 1 .. Len(x) + 1
        BY <1>2, <1>3
    <2>2. /\ Opens(x \o y, i + 1, l) => Opens(x, i + 1, l) \/ Opens(y, 1, l)
          /\ Opens(x, i + 1, l) => Opens(x \o y, i + 1, l)
        BY <2>1, OpensConcat
    <2>3. /\ Opens(x, i + 1, l) => x[i] = Do("lock", l) \/ Rank(l) < Least(x[i])
          /\ x[i] = Do("lock", l) => Opens(x, i + 1, l)
        BY <1>3 DEF Nested
    <2> QED BY <1>2, <1>3, <2>2, <2>3
<1>4. CASE i \notin 1 .. Len(x)
    <2>1. PICK k \in 1 .. Len(y) : i = Len(x) + k
        <3>1. i - Len(x) \in 1 .. Len(y) /\ i = Len(x) + (i - Len(x))
            BY <1>2, <1>4
        <3> QED BY <3>1
    <2>2. k + 1 \in 1 .. Len(y) + 1 /\ i + 1 = Len(x) + (k + 1)
        BY <1>2, <2>1
    <2>3. Opens(x \o y, i + 1, l) <=> Opens(y, k + 1, l)
        BY <2>2, OpensConcat
    <2>4. /\ Opens(y, k + 1, l) => y[k] = Do("lock", l) \/ Rank(l) < Least(y[k])
          /\ y[k] = Do("lock", l) => Opens(y, k + 1, l)
        BY <2>1 DEF Nested
    <2> QED BY <1>2, <2>1, <2>3, <2>4
<1> QED BY <1>3, <1>4

LEMMA AboveConcat ==
    ASSUME NEW x \in Programs, NEW y \in Programs, NEW r, Above(x, r), Above(y, r)
    PROVE  Above(x \o y, r)
<1>1. x \in Seq(Instructions) /\ y \in Seq(Instructions)
    BY DEF Programs
<1>2. /\ Len(x) \in Nat /\ Len(y) \in Nat
      /\ Len(x \o y) = Len(x) + Len(y)
      /\ \A i \in 1 .. Len(x) : (x \o y)[i] = x[i]
      /\ \A i \in 1 .. Len(y) : (x \o y)[Len(x) + i] = y[i]
    BY <1>1, ConcatProperties, LenProperties
<1> SUFFICES ASSUME NEW i \in 1 .. Len(x \o y) PROVE Least((x \o y)[i]) >= r
    BY DEF Above
<1>3. CASE i \in 1 .. Len(x)
    BY <1>2, <1>3 DEF Above
<1>4. CASE i \notin 1 .. Len(x)
    <2>1. i - Len(x) \in 1 .. Len(y) /\ i = Len(x) + (i - Len(x))
        BY <1>2, <1>4
    <2>2. (x \o y)[i] = y[i - Len(x)]
        BY <1>2, <2>1
    <2> QED BY <2>1, <2>2 DEF Above
<1> QED BY <1>3, <1>4

LEMMA OrderlyConcat ==
    ASSUME NEW x \in Programs, NEW y \in Programs, NEW r, Orderly(x, r), Orderly(y, r)
    PROVE  Orderly(x \o y, r)
<1>1. Nested(x \o y)
    BY NestedConcat DEF Orderly
<1>2. Above(x \o y, r)
    BY AboveConcat DEF Orderly
<1>3. \A l \in Locks : ~ Opens(x \o y, 1, l)
    <2>1. 1 \in 1 .. Len(x) + 1
        BY LenProperties DEF Programs
    <2> QED BY <2>1, OpensConcat DEF Orderly
<1> QED BY <1>1, <1>2, <1>3 DEF Orderly

\* An instruction that unlocks l, after a program that leaves l and what ranks
\* below it alone.
LEMMA ClosedProgram ==
    ASSUME NEW l \in Locks, NEW x \in Programs, Orderly(x, Rank(l) + 1)
    PROVE  /\ x \o <<Do("unlock", l)>> \in Programs
           /\ Nested(x \o <<Do("unlock", l)>>)
           /\ Above(x \o <<Do("unlock", l)>>, Rank(l) + 1)
           /\ Opens(x \o <<Do("unlock", l)>>, 1, l)
           /\ \A m \in Locks : Opens(x \o <<Do("unlock", l)>>, 1, m) => m = l
           /\ \A i \in 1 .. Len(x) : x[i] # Do("lock", l)
<1> DEFINE y == <<Do("unlock", l)>>
<1>1. y \in Programs /\ Len(y) = 1 /\ y[1] = Do("unlock", l)
    BY InstructionsOf, OneDo
<1>2. /\ \A m : Do("unlock", l) # Do("lock", m)
      /\ \A m : Do("unlock", l) = Do("unlock", m) => m = l
    BY DEF Do
<1>3. Least(y[1]) = 8 /\ Rank(l) \in 0 .. 7
    BY <1>1, LeastOf, RankType
<1> HIDE DEF y
<1>4. Opens(y, 1, l) /\ \A m : Opens(y, 1, m) => m = l
    BY <1>1, <1>2 DEF Opens
<1>5. \A m : ~ Opens(y, 2, m)
    BY <1>1 DEF Opens
<1>6. Nested(y) /\ Above(y, Rank(l) + 1)
    BY <1>1, <1>2, <1>3, <1>5 DEF Nested, Above
<1>7. \A i \in 1 .. Len(x) : Rank(l) < Least(x[i])
    <2>1. ASSUME NEW i \in 1 .. Len(x) PROVE Rank(l) < Least(x[i])
        <3>1. Least(x[i]) >= Rank(l) + 1
            BY DEF Orderly, Above
        <3>2. x[i] \in Instructions
            BY ElementOfSeq DEF Programs
        <3>3. Least(x[i]) \in 0 .. 8
            BY <3>2, LeastType
        <3> QED BY <1>3, <3>1, <3>3
    <2> QED BY <2>1
<1>8. Nested(x \o y)
    BY <1>1, <1>4, <1>6, <1>7, NestedConcat DEF Orderly
<1>9. \A i \in 1 .. Len(x) : x[i] # Do("lock", l)
    BY <1>3, <1>7, LeastOf
<1>10. Opens(x \o y, 1, l)
    BY <1>1, <1>4, <1>9, OpensConcat
<1>11. \A m \in Locks : Opens(x \o y, 1, m) => m = l
    <2>1. 1 \in 1 .. Len(x) + 1
        BY LenProperties DEF Programs
    <2> QED BY <1>1, <1>4, <2>1, OpensConcat DEF Orderly
<1> QED BY <1>1, <1>6, <1>8, <1>9, <1>10, <1>11, ConcatPrograms, AboveConcat
        DEF Orderly, y

LEMMA OrderlyLocked ==
    ASSUME NEW l \in Locks, NEW x \in Programs, Orderly(x, Rank(l) + 1),
           NEW r \in Nat, r <= Rank(l)
    PROVE  Orderly(Locked(l, x), r)
<1> DEFINE d == Do("lock", l)
           u == Do("unlock", l)
           y == x \o <<u>>
           a == <<d>> \o y
<1>1. y \in Programs /\ y \in Seq(Instructions) /\ x \in Seq(Instructions)
    BY ClosedProgram DEF Programs
<1>2. d \in Instructions /\ u \in Instructions
    BY DEF Instructions, Do
<1>3. <<d>> \in Seq(Instructions) /\ <<u>> \in Seq(Instructions)
      /\ Len(<<d>>) = 1 /\ <<d>>[1] = d
    BY <1>2
<1>4. Locked(l, x) = a
    BY <1>1, <1>3, ConcatAssociative DEF Locked
<1>5. a \in Programs /\ a # <<>> /\ a[1] = d /\ Len(a) = Len(y) + 1
      /\ Len(y) \in Nat
      /\ \A i \in 1 .. Len(y) : a[i + 1] = y[i]
    <2>1. a \in Programs
        BY <1>4, LockedProgram
    <2>2. /\ Len(a) = Len(y) + 1 /\ Len(y) \in Nat /\ a[1] = d
          /\ \A i \in 1 .. Len(y) : a[i + 1] = y[i]
        BY <1>1, <1>3, ConcatProperties, LenProperties
    <2> QED BY <2>1, <2>2, EmptySeq
<1>6. /\ Nested(y) /\ Above(y, Rank(l) + 1) /\ Opens(y, 1, l)
      /\ \A m \in Locks : Opens(y, 1, m) => m = l
    BY ClosedProgram
<1>7. Rank(l) \in 0 .. 7 /\ Least(d) = Rank(l)
    BY RankType, LeastOf
<1> HIDE DEF d, u, y, a
<1>8. \A m : \A i \in 1 .. Len(y) + 1 : Opens(a, i + 1, m) <=> Opens(y, i, m)
    <2> SUFFICES ASSUME NEW i \in 1 .. Len(y) + 1, NEW m
                 PROVE  Opens(a, i + 1, m) <=> Opens(y, i, m)
        OBVIOUS
    <2>1. ASSUME NEW j \in i .. Len(y), y[j] = Do("unlock", m),
                 \A k \in i .. j - 1 : y[k] # Do("lock", m)
          PROVE  Opens(a, i + 1, m)
        <3>1. j + 1 \in i + 1 .. Len(a) /\ a[j + 1] = Do("unlock", m)
            BY <1>5, <2>1
        <3>2. ASSUME NEW k \in i + 1 .. (j + 1) - 1 PROVE a[k] # Do("lock", m)
            <4>1. k - 1 \in i .. j - 1 /\ k - 1 \in 1 .. Len(y) /\ (k - 1) + 1 = k
                BY <1>5, <2>1
            <4> QED BY <1>5, <2>1, <4>1
        <3> QED BY <3>1, <3>2 DEF Opens
    <2>2. ASSUME NEW j \in i + 1 .. Len(a), a[j] = Do("unlock", m),
                 \A k \in i + 1 .. j - 1 : a[k] # Do("lock", m)
          PROVE  Opens(y, i, m)
        <3>1. j - 1 \in i .. Len(y) /\ j - 1 \in 1 .. Len(y) /\ (j - 1) + 1 = j
            BY <1>5, <2>2
        <3>2. y[j - 1] = Do("unlock", m)
            BY <1>5, <2>2, <3>1
        <3>3. ASSUME NEW k \in i .. (j - 1) - 1 PROVE y[k] # Do("lock", m)
            <4>1. k + 1 \in i + 1 .. j - 1 /\ k \in 1 .. Len(y)
                BY <1>5, <2>2
            <4> QED BY <1>5, <2>2, <4>1
        <3> QED BY <3>1, <3>2, <3>3 DEF Opens
    <2> QED BY <2>1, <2>2 DEF Opens
<1>9. Nested(a)
    <2> SUFFICES ASSUME NEW i \in 1 .. Len(a), NEW m \in Locks
                 PROVE  /\ Opens(a, i + 1, m) =>
                             a[i] = Do("lock", m) \/ Rank(m) < Least(a[i])
                        /\ a[i] = Do("lock", m) => Opens(a, i + 1, m)
        BY DEF Nested
    <2>1. CASE i = 1
        <3>1. Opens(a, 2, m) <=> Opens(y, 1, m)
            BY <1>5, <1>8
        <3>2. d = Do("lock", m) <=> m = l
            BY DEF d, Do
        <3> QED BY <1>5, <1>6, <2>1, <3>1, <3>2
    <2>2. CASE i # 1
        <3>1. PICK k \in 1 .. Len(y) : i = k + 1
            <4>1. i - 1 \in 1 .. Len(y) /\ i = (i - 1) + 1
                BY <1>5, <2>2
            <4> QED BY <4>1
        <3>2. Opens(a, i + 1, m) <=> Opens(y, k + 1, m)
            <4>1. k + 1 \in 1 .. Len(y) + 1 /\ i + 1 = (k + 1) + 1
                BY <1>5, <3>1
            <4> QED BY <1>8, <4>1
        <3> QED BY <1>5, <1>6, <3>1, <3>2 DEF Nested
    <2> QED BY <2>1, <2>2
<1>10. Above(a, r)
    <2> SUFFICES ASSUME NEW i \in 1 .. Len(a) PROVE Least(a[i]) >= r
        BY DEF Above
    <2>1. CASE i = 1
        BY <1>5, <1>7, <2>1
    <2>2. CASE i # 1
        <3>1. i - 1 \in 1 .. Len(y) /\ i = (i - 1) + 1
            BY <1>5, <2>2
        <3>2. a[i] = y[i - 1] /\ y[i - 1] \in Instructions
            BY <1>1, <1>5, <3>1, ElementOfSeq
        <3>3. Least(y[i - 1]) \in 0 .. 8 /\ Least(y[i - 1]) >= Rank(l) + 1
            BY <1>6, <3>1, <3>2, LeastType DEF Above
        <3> QED BY <1>7, <3>2, <3>3
    <2> QED BY <2>1, <2>2
<1>11. \A m \in Locks : ~ Opens(a, 1, m)
    <2> SUFFICES ASSUME NEW m \in Locks, Opens(a, 1, m) PROVE FALSE
        OBVIOUS
    <2>1. PICK j \in 1 .. Len(a) : /\ a[j] = Do("unlock", m)
                                   /\ \A k \in 1 .. j - 1 : a[k] # Do("lock", m)
        BY DEF Opens
    <2>2. j # 1
        BY <1>5, <2>1 DEF d, Do
    <2>3. Opens(a, 1 + 1, m) /\ d # Do("lock", m)
        <3>1. j \in 1 + 1 .. Len(a) /\ 1 \in 1 .. j - 1
            BY <2>1, <2>2
        <3>2. \A k \in 1 + 1 .. j - 1 : a[k] # Do("lock", m)
            BY <2>1
        <3> QED BY <1>5, <2>1, <3>1, <3>2 DEF Opens
    <2>4. 1 \in 1 .. Len(y) + 1
        BY <1>5
    <2>5. Opens(y, 1, m)
        BY <1>8, <2>3, <2>4
    <2> QED BY <1>6, <2>3, <2>5 DEF d
<1> QED BY <1>4, <1>9, <1>10, <1>11 DEF Orderly

LEMMA OrderlyWeaker ==
    ASSUME NEW x \in Programs, NEW r \in Nat, NEW s \in Nat, r <= s, Orderly(x, s)
    PROVE  Orderly(x, r)
<1>1. ASSUME NEW i \in 1 .. Len(x) PROVE Least(x[i]) >= r
    <2>1. x[i] \in Instructions
        BY ElementOfSeq DEF Programs
    <2>2. Least(x[i]) \in 0 .. 8 /\ Least(x[i]) >= s
        BY <2>1, LeastType DEF Orderly, Above
    <2> QED BY <2>2
<1> QED BY <1>1 DEF Orderly, Above

-----------------------------------------------------------------------------
(***************************************************************************)
(* The programs of the module keep to the order.                           *)
(***************************************************************************)

LEMMA OrderlyWait ==
    ASSUME NEW c \in Connections
    PROVE  Orderly(WaitPackage(c), 7)
<1>1. <<"write", c>> \in Locks /\ Rank(<<"write", c>>) = 7
    BY InstructionsOf, RanksOf
<1>2. Least(Do("read", <<"write", c>>)) >= 8
    BY LeastOf
<1>3. Orderly(<<Do("read", <<"write", c>>)>>, 7 + 1)
    BY <1>2, OrderlyOne
<1>4. <<Do("read", <<"write", c>>)>> \in Programs
    BY InstructionsOf, OneDo
<1> QED BY <1>1, <1>3, <1>4, OrderlyLocked DEF WaitPackage

LEMMA OrderlyDispatch ==
    ASSUME NEW c \in Connections
    PROVE  Orderly(DispatchSlot(c), 7)
<1>1. <<"write", c>> \in Locks /\ Rank(<<"write", c>>) = 7
    BY InstructionsOf, RanksOf
<1>2. Least(Do("write", <<"write", c>>)) >= 8
    BY LeastOf
<1>3. Orderly(<<Do("write", <<"write", c>>)>>, 7 + 1)
    BY <1>2, OrderlyOne
<1>4. <<Do("write", <<"write", c>>)>> \in Programs
    BY InstructionsOf, OneDo
<1> QED BY <1>1, <1>3, <1>4, OrderlyLocked DEF DispatchSlot

\* The short programs made of one instruction, and of an empty critical section.
LEMMA OrderlyShort ==
    /\ \A c \in Connections : Orderly(Locked(<<"write", c>>, <<>>), 7)
    /\ \A r \in Nat : r <= 5 => Orderly(Locked(List, <<>>), r)
    /\ \A c \in Connections : Orderly(RemoveConnection(c), 4)
    /\ \A c \in Connections : Orderly(<<Do("destroy", Session(c))>>, 8)
    /\ \A s, c, r : Rank(<<s, c>>) >= r => Orderly(<<Do("emit", <<s, c>>)>>, r)
<1>1. ASSUME NEW c \in Connections PROVE Orderly(Locked(<<"write", c>>, <<>>), 7)
    <2>1. <<"write", c>> \in Locks /\ Rank(<<"write", c>>) = 7
        BY InstructionsOf, RanksOf
    <2> QED BY <2>1, OrderlyNone, NoProgram, OrderlyLocked
<1>2. ASSUME NEW r \in Nat, r <= 5 PROVE Orderly(Locked(List, <<>>), r)
    <2>1. List \in Locks /\ Rank(List) = 5
        BY InstructionsOf, RanksOf
    <2> QED BY <1>2, <2>1, OrderlyNone, NoProgram, OrderlyLocked
<1>3. ASSUME NEW s, NEW c, NEW r, Rank(<<s, c>>) >= r
      PROVE  Orderly(<<Do("emit", <<s, c>>)>>, r)
    <2>1. Least(Do("emit", <<s, c>>)) >= r
        BY <1>3, LeastOf
    <2> QED BY <2>1, OrderlyOne
<1>4. ASSUME NEW c \in Connections PROVE Orderly(RemoveConnection(c), 4)
    <2>1. Least(Do("erase", Session(c))) >= 5 + 1
        BY LeastOf
    <2>2. Orderly(<<Do("erase", Session(c))>>, 5 + 1)
        BY <2>1, OrderlyOne
    <2>3. List \in Locks /\ Rank(List) = 5 /\ 4 \in Nat /\ 4 <= Rank(List)
        BY InstructionsOf, RanksOf
    <2>4. Orderly(<<Do("erase", Session(c))>>, Rank(List) + 1)
        BY <2>2, <2>3
    <2> QED BY <2>3, <2>4, RemoveProgram, OrderlyLocked DEF RemoveConnection
<1>5. ASSUME NEW c \in Connections PROVE Orderly(<<Do("destroy", Session(c))>>, 8)
    <2>1. Least(Do("destroy", Session(c))) >= 8
        BY LeastOf
    <2> QED BY <2>1, OrderlyOne
<1> QED BY <1>1, <1>2, <1>3, <1>4, <1>5

LEMMA OrderlyAdd ==
    ASSUME NEW c \in Connections
    PROVE  Orderly(AddConnection(c), 1)
<1> DEFINE x1 == <<Do("connect", <<"closed", c>>)>>
           x2 == <<Do("connect", <<"error", c>>)>>
           x3 == <<Do("connect", <<"received", c>>)>>
           y1 == <<Do("push", <<"write", c>>)>>
           y2 == <<Do("emit", <<"connected", 0>>)>>
<1>1. x1 \in Programs /\ x2 \in Programs /\ x3 \in Programs
    <2>1. ASSUME NEW s \in ConnectionSignals
          PROVE  <<Do("connect", <<s, c>>)>> \in Programs
        <3>1. Do("connect", <<s, c>>) \in Instructions
            BY InstructionsOf
        <3> QED BY <3>1, OneDo
    <2>2. {"closed", "error", "received"} \subseteq ConnectionSignals
        BY DEF ConnectionSignals
    <2> QED BY <2>1, <2>2
<1>2. y1 \in Programs /\ y2 \in Programs
    <2>1. Do("push", <<"write", c>>) \in Instructions
        BY InstructionsOf
    <2>2. "connected" \in ServerSignals
        BY DEF ServerSignals
    <2>3. Do("emit", <<"connected", 0>>) \in Instructions
        BY <2>2, InstructionsOf
    <2> QED BY <2>1, <2>3, OneDo
<1>3. Orderly(x1, 1) /\ Orderly(x2, 1) /\ Orderly(x3, 1)
    <2>1. ASSUME NEW s, Rank(<<s, c>>) >= 1
          PROVE  Orderly(<<Do("connect", <<s, c>>)>>, 1)
        <3>1. Least(Do("connect", <<s, c>>)) >= 1
            BY <2>1, LeastOf
        <3> QED BY <3>1, OrderlyOne
    <2>2. /\ Rank(<<"closed", c>>) >= 1 /\ Rank(<<"error", c>>) >= 1
          /\ Rank(<<"received", c>>) >= 1
        <3>1. /\ Rank(<<"closed", c>>) = 3 /\ Rank(<<"error", c>>) = 1
              /\ Rank(<<"received", c>>) = 1
            BY RanksOf
        <3> QED BY <3>1
    <2> QED BY <2>1, <2>2
<1>4. Orderly(y1, 6) /\ Orderly(y2, 6)
    <2>1. Least(Do("push", <<"write", c>>)) >= 6
        BY LeastOf
    <2>2. Orderly(y1, 6)
        BY <2>1, OrderlyOne
    <2>3. Rank(<<"connected", 0>>) >= 6
        BY RanksOf
    <2> QED BY <2>2, <2>3, OrderlyShort
<1>5. Orderly(Locked(List, y1 \o y2), 1)
    <2>1. y1 \o y2 \in Programs /\ Orderly(y1 \o y2, 6)
        BY <1>2, <1>4, ConcatPrograms, OrderlyConcat
    <2>2. List \in Locks /\ Rank(List) = 5
        BY InstructionsOf, RanksOf
    <2> QED BY <2>1, <2>2, OrderlyLocked
<1>6. Locked(List, y1 \o y2) \in Programs
    BY <1>2, ConcatPrograms, LockedProgram, InstructionsOf
<1>7. AddConnection(c) = ((x1 \o x2) \o x3) \o Locked(List, y1 \o y2)
    <2>1. <<Do("connect", <<"closed", c>>), Do("connect", <<"error", c>>),
            Do("connect", <<"received", c>>)>> = (x1 \o x2) \o x3
        OBVIOUS
    <2>2. <<Do("push", <<"write", c>>), Do("emit", <<"connected", 0>>)>> = y1 \o y2
        OBVIOUS
    <2> QED BY <2>1, <2>2 DEF AddConnection
<1> HIDE DEF x1, x2, x3, y1, y2
<1>8. x1 \o x2 \in Programs /\ Orderly(x1 \o x2, 1)
    BY <1>1, <1>3, ConcatPrograms, OrderlyConcat
<1>9. (x1 \o x2) \o x3 \in Programs /\ Orderly((x1 \o x2) \o x3, 1)
    BY <1>1, <1>3, <1>8, ConcatPrograms, OrderlyConcat
<1> QED BY <1>5, <1>6, <1>7, <1>9, OrderlyConcat

LEMMA OrderlyAdmit ==
    ASSUME NEW c \in Connections
    PROVE  Orderly(Admit(c), 1)
<1>1. <<Do("drop", Session(c))>> \in Programs /\ <<Do("next", List)>> \in Programs
    BY InstructionsOf, OneDo
<1>2. Least(Do("drop", Session(c))) >= 1 /\ Least(Do("next", List)) >= 1
    BY LeastOf
<1>3. Orderly(<<Do("drop", Session(c))>>, 1) /\ Orderly(<<Do("next", List)>>, 1)
    BY <1>2, OrderlyOne
<1>4. <<Do("drop", Session(c)), Do("next", List)>>
        = <<Do("drop", Session(c))>> \o <<Do("next", List)>>
    OBVIOUS
<1>5. Orderly(<<Do("drop", Session(c)), Do("next", List)>>, 1)
    BY <1>1, <1>3, <1>4, OrderlyConcat
<1> QED BY <1>5, AddConnectionProgram, AdmitProgram, OrderlyAdd, OrderlyConcat
        DEF Admit

LEMMA OrderlyHandler ==
    ASSUME NEW p, Handles(p)
    PROVE  Nested(p) /\ \A l \in Locks : ~ Opens(p, 1, l)
<1>1. ASSUME NEW r, Orderly(p, r)
      PROVE  Nested(p) /\ \A l \in Locks : ~ Opens(p, 1, l)
    BY <1>1 DEF Orderly
<1>2. ASSUME NEW c \in Connections, NEW r \in {0, 1}
      PROVE  WaitPackage(c) \in Programs /\ Orderly(WaitPackage(c), r)
    <2>1. WaitPackage(c) \in Programs
        BY WaitPackageProgram
    <2>2. Orderly(WaitPackage(c), 7) /\ r \in Nat /\ 7 \in Nat /\ r <= 7
        BY OrderlyWait
    <2> QED BY <2>1, <2>2, OrderlyWeaker
<1>3. Orderly(<<Do("emit", <<"error", 0>>)>>, 1)
    BY RanksOf, OrderlyShort
<1>4. ASSUME NEW c \in Connections
      PROVE  Orderly(WaitPackage(c) \o <<Do("emit", Session(c))>>, 0)
    <2>1. <<Do("emit", Session(c))>> \in Programs
        BY OneDo, InstructionsOf
    <2>2. Least(Do("emit", Session(c))) >= 0
        <3>1. Least(Do("emit", Session(c))) = Rank(Session(c))
            BY LeastOf
        <3>2. Rank(Session(c)) = 0
            BY RanksOf
        <3> QED BY <3>1, <3>2
    <2>3. Orderly(<<Do("emit", Session(c))>>, 0)
        BY <2>2, OrderlyOne
    <2> QED BY <1>2, <2>1, <2>3, OrderlyConcat
<1>5. ASSUME NEW c \in Connections, p \in ReadHandler(c) PROVE Orderly(p, 1)
    <2>1. PICK op \in {"emit", "user"} :
            p = <<Do(op, <<"received", c>>)>> \o WaitPackage(c)
        BY <1>5 DEF ReadHandler
    <2>2. <<Do(op, <<"received", c>>)>> \in Programs
        BY OneDo, InstructionsOf DEF ConnectionSignals
    <2>3. Least(Do(op, <<"received", c>>)) >= 1
        <3>1. Least(Do("emit", <<"received", c>>)) = Rank(<<"received", c>>)
            BY LeastOf
        <3>2. Least(Do("user", <<"received", c>>)) = 3
            BY LeastOf
        <3>3. Rank(<<"received", c>>) = 1
            BY RanksOf
        <3> QED BY <3>1, <3>2, <3>3
    <2>4. Orderly(<<Do(op, <<"received", c>>)>>, 1)
        BY <2>3, OrderlyOne
    <2> QED BY <1>2, <2>1, <2>2, <2>4, OrderlyConcat
<1>6. ASSUME NEW c \in Connections
      PROVE  /\ Orderly(<<Do("emit", <<"closed", c>>)>>, 1)
             /\ Orderly(<<Do("emit", <<"error", c>>)>>, 1)
             /\ Orderly(Locked(<<"write", c>>, <<>>), 1)
    <2>1. Locked(<<"write", c>>, <<>>) \in Programs
        BY InstructionsOf, NoProgram, LockedProgram
    <2>2. Orderly(Locked(<<"write", c>>, <<>>), 1)
        BY <2>1, OrderlyShort, OrderlyWeaker
    <2>3. Rank(<<"closed", c>>) >= 1 /\ Rank(<<"error", c>>) >= 1
        <3>1. Rank(<<"closed", c>>) = 3 /\ Rank(<<"error", c>>) = 1
            BY RanksOf
        <3> QED BY <3>1
    <2> QED BY <2>2, <2>3, OrderlyShort
<1>7. Orderly(<<>>, 1)
    BY OrderlyNone
<1> QED BY <1>1, <1>3, <1>4, <1>5, <1>6, <1>7 DEF Handles

\* A call from a slot locks nothing below the slot's rank.
LEMMA OrderlyCall ==
    ASSUME NEW p, NEW allowed, MayCall(allowed, p)
    PROVE  /\ Orderly(p, 3)
           /\ allowed \subseteq {"connections", "send"} => Orderly(p, 5)
           /\ allowed \subseteq {"send"} => Orderly(p, 7)
<1>1. p \in Programs
    BY CallProgram
<1>2. CASE "connections" \in allowed /\ p = CallConnections
    <2>1. Orderly(p, 3) /\ Orderly(p, 5)
        BY <1>2, OrderlyShort DEF CallConnections
    <2> QED BY <1>2, <2>1
<1>3. ASSUME NEW c \in Connections, "close" \in allowed,
             p = <<Do("emit", <<"closed", c>>)>>
      PROVE  /\ Orderly(p, 3)
             /\ "close" \in allowed
    <2>1. Rank(<<"closed", c>>) >= 3
        <3>1. Rank(<<"closed", c>>) = 3
            BY RanksOf
        <3> QED BY <3>1
    <2> QED BY <1>3, <2>1, OrderlyShort
<1>4. ASSUME NEW c \in Connections, p = DispatchSlot(c)
      PROVE  Orderly(p, 3) /\ Orderly(p, 5) /\ Orderly(p, 7)
    BY <1>1, <1>4, OrderlyDispatch, OrderlyWeaker
<1> QED BY <1>2, <1>3, <1>4 DEF MayCall

\* A slot locks only what ranks above its signal.
LEMMA OrderlyBody ==
    ASSUME NEW l \in Signals, slots \subseteq ConnectionSignals \X Connections
    PROVE  Orderly(Body(l), Rank(l) + 1)
<1>1. CASE l[2] = 0
    <2>1. l \in ServerSignals \X {0} /\ l = <<l[1], 0>>
        <3>1. \A c \in Connections : c # 0
            BY InstructionsOf
        <3>2. l \in ServerSignals \X {0}
            BY <1>1, <3>1 DEF Signals, Sessions
        <3> QED BY <3>2
    <2>2. Body(l) = <<Do("user", l)>>
        <3>1. l \notin slots /\ l[1] # "session"
            BY <1>1, <2>1, InstructionsOf DEF ServerSignals
        <3> QED BY <1>1, <3>1 DEF Body
    <2>3. Least(Do("user", l)) >= Rank(l) + 1
        <3>1. CASE l[1] = "connected"
            BY <2>1, <3>1, RanksOf, LeastOf
        <3>2. CASE l[1] = "disconnected"
            BY <2>1, <3>2, RanksOf, LeastOf
        <3>3. CASE l[1] = "error"
            BY <2>1, <3>3, RanksOf, LeastOf
        <3>4. CASE l[1] = "received"
            BY <2>1, <3>4, RanksOf, LeastOf
        <3> QED BY <2>1, <3>1, <3>2, <3>3, <3>4 DEF ServerSignals
    <2> QED BY <2>2, <2>3, OrderlyOne
<1>2. CASE l[2] # 0
    <2>1. /\ l = <<l[1], l[2]>> /\ l[2] \in Connections
          /\ l[1] \in ConnectionSignals \cup {"session"}
          /\ l \in slots => l[1] \in ConnectionSignals
        BY <1>2 DEF Signals, Sessions
    <2>2. CASE l[1] = "session"
        <3>1. Body(l) = Admit(l[2]) /\ l = Session(l[2])
            BY <1>2, <2>1, <2>2 DEF Body, ConnectionSignals, Session
        <3>2. Rank(l) = 0
            BY <2>1, <3>1, RanksOf
        <3> QED BY <2>1, <3>1, <3>2, OrderlyAdmit
    <2>3. CASE l \notin slots /\ l[1] # "session"
        <3>1. Body(l) = <<>>
            BY <1>2, <2>3 DEF Body
        <3> QED BY <3>1, OrderlyNone
    <2>4. CASE l \in slots /\ l[1] = "closed"
        <3>1. Body(l) = <<Do("emit", <<"disconnected", 0>>)>> \o RemoveConnection(l[2])
            BY <1>2, <2>1, <2>4 DEF Body, ClosedSlot
        <3>2. "disconnected" \in ServerSignals
            BY DEF ServerSignals
        <3>3. <<Do("emit", <<"disconnected", 0>>)>> \in Programs
            BY <3>2, InstructionsOf, OneDo
        <3>4. RemoveConnection(l[2]) \in Programs
            BY <2>1, RemoveProgram
        <3>5. Orderly(<<Do("emit", <<"disconnected", 0>>)>>, 4)
            BY RanksOf, OrderlyShort
        <3>6. Orderly(RemoveConnection(l[2]), 4)
            BY <2>1, OrderlyShort
        <3>7. Rank(l) = 3
            BY <2>1, <2>4, RanksOf
        <3> QED BY <3>1, <3>3, <3>4, <3>5, <3>6, <3>7, OrderlyConcat
    <2>5. CASE l \in slots /\ l[1] # "closed" /\ l[1] # "session"
        <3>1. Body(l) = <<Do("emit", <<l[1], 0>>)>>
            BY <1>2, <2>1, <2>5 DEF Body
        <3>2. l[1] \in {"error", "received"}
            BY <2>1, <2>5 DEF ConnectionSignals
        <3>3. Rank(<<l[1], 0>>) >= Rank(l) + 1
            <4>1. Rank(l) = 1
                BY <2>1, <3>2, RanksOf
            <4>2. Rank(<<l[1], 0>>) = 2
                BY <3>2, RanksOf
            <4> QED BY <4>1, <4>2
        <3> QED BY <3>1, <3>3, OrderlyShort
    <2> QED BY <2>3, <2>4, <2>5, <2>2
<1> QED BY <1>1, <1>2

-----------------------------------------------------------------------------
(***************************************************************************)
(* No circle of waiting threads.                                           *)
(***************************************************************************)

\* The agendas keep to the order, and what a thread holds it has to unlock.
OrderInv ==
    \A t \in Threads :
        /\ Nested(agenda[t])
        /\ \A l \in Locks : holder[l] = t => Opens(agenda[t], 1, l)

\* Executing the first instruction of an agenda.
LEMMA OpensTail ==
    ASSUME NEW a \in Programs, a # <<>>, NEW l
    PROVE  /\ \A i \in Nat \ {0} : Opens(Tail(a), i, l) <=> Opens(a, i + 1, l)
           /\ Opens(a, 1, l) => /\ Head(a) # Do("lock", l)
                                /\ Head(a) = Do("unlock", l) \/ Opens(Tail(a), 1, l)
<1>1. /\ Head(a) = a[1]
      /\ Len(a) \in Nat \ {0} /\ Len(Tail(a)) = Len(a) - 1
      /\ \A i \in 1 .. Len(Tail(a)) : Tail(a)[i] = a[i + 1]
    BY ProgramTail
<1>2. ASSUME NEW i \in Nat \ {0}, Opens(Tail(a), i, l) PROVE Opens(a, i + 1, l)
    <2>1. PICK j \in i .. Len(Tail(a)) :
            /\ Tail(a)[j] = Do("unlock", l)
            /\ \A k \in i .. j - 1 : Tail(a)[k] # Do("lock", l)
        BY <1>2 DEF Opens
    <2>2. j + 1 \in i + 1 .. Len(a) /\ a[j + 1] = Do("unlock", l)
        BY <1>1, <2>1
    <2>3. ASSUME NEW k \in i + 1 .. (j + 1) - 1 PROVE a[k] # Do("lock", l)
        <3>1. k - 1 \in i .. j - 1 /\ k - 1 \in 1 .. Len(Tail(a)) /\ (k - 1) + 1 = k
            BY <1>1, <2>1
        <3> QED BY <1>1, <2>1, <3>1
    <2> QED BY <2>2, <2>3 DEF Opens
<1>3. ASSUME NEW i \in Nat \ {0}, Opens(a, i + 1, l) PROVE Opens(Tail(a), i, l)
    <2>1. PICK j \in i + 1 .. Len(a) :
            /\ a[j] = Do("unlock", l)
            /\ \A k \in i + 1 .. j - 1 : a[k] # Do("lock", l)
        BY <1>3 DEF Opens
    <2>2. j - 1 \in i .. Len(Tail(a)) /\ j - 1 \in 1 .. Len(Tail(a))
          /\ (j - 1) + 1 = j
        BY <1>1, <2>1
    <2>3. Tail(a)[j - 1] = Do("unlock", l)
        BY <1>1, <2>1, <2>2
    <2>4. ASSUME NEW k \in i .. (j - 1) - 1 PROVE Tail(a)[k] # Do("lock", l)
        <3>1. k + 1 \in i + 1 .. j - 1 /\ k \in 1 .. Len(Tail(a))
            BY <1>1, <2>1
        <3> QED BY <1>1, <2>1, <3>1
    <2> QED BY <2>2, <2>3, <2>4 DEF Opens
<1>4. ASSUME Opens(a, 1, l)
      PROVE  /\ Head(a) # Do("lock", l)
             /\ Head(a) = Do("unlock", l) \/ Opens(Tail(a), 1, l)
    <2>1. PICK j \in 1 .. Len(a) : /\ a[j] = Do("unlock", l)
                                   /\ \A k \in 1 .. j - 1 : a[k] # Do("lock", l)
        BY <1>4 DEF Opens
    <2>2. Do("unlock", l) # Do("lock", l)
        BY DEF Do
    <2>3. CASE j = 1
        BY <1>1, <2>1, <2>2, <2>3
    <2>4. CASE j # 1
        <3>1. j \in 1 + 1 .. Len(a) /\ 1 \in 1 .. j - 1
            BY <2>1, <2>4
        <3>2. \A k \in 1 + 1 .. j - 1 : a[k] # Do("lock", l)
            BY <2>1
        <3>3. Opens(a, 1 + 1, l)
            BY <2>1, <3>1, <3>2 DEF Opens
        <3> QED BY <1>1, <1>3, <2>1, <3>1, <3>3
    <2> QED BY <2>3, <2>4
<1> QED BY <1>2, <1>3, <1>4

\* The rest of an agenda, with a program in front of it that locks nothing below
\* what its first instruction might have locked.
LEMMA NestedContinue ==
    ASSUME NEW a \in Programs, a # <<>>, Nested(a),
           NEW p \in Programs, Nested(p),
           p = <<>> \/ (Above(p, Least(Head(a))) /\ Head(a).op # "lock")
    PROVE  /\ Nested(p \o Tail(a))
           /\ \A l \in Locks : Opens(p, 1, l) => Opens(p \o Tail(a), 1, l)
           /\ \A l \in Locks : Opens(Tail(a), 1, l) => Opens(p \o Tail(a), 1, l)
<1>1. /\ Head(a) \in Instructions /\ Head(a) = a[1] /\ Tail(a) \in Programs
      /\ Len(a) \in Nat \ {0} /\ Len(Tail(a)) = Len(a) - 1
      /\ \A i \in 1 .. Len(Tail(a)) : Tail(a)[i] = a[i + 1]
    BY ProgramTail
<1>2. Nested(Tail(a))
    <2> SUFFICES ASSUME NEW i \in 1 .. Len(Tail(a)), NEW l \in Locks
                 PROVE  /\ Opens(Tail(a), i + 1, l) =>
                             \/ Tail(a)[i] = Do("lock", l)
                             \/ Rank(l) < Least(Tail(a)[i])
                        /\ Tail(a)[i] = Do("lock", l) => Opens(Tail(a), i + 1, l)
        BY DEF Nested
    <2>1. i + 1 \in 1 .. Len(a) /\ i + 1 \in Nat \ {0} /\ Tail(a)[i] = a[i + 1]
        BY <1>1
    <2>2. Opens(Tail(a), i + 1, l) <=> Opens(a, (i + 1) + 1, l)
        BY <2>1, OpensTail
    <2> QED BY <2>1, <2>2 DEF Nested
<1>3. ASSUME NEW l \in Locks, Opens(Tail(a), 1, l), NEW i \in 1 .. Len(p)
      PROVE  Rank(l) < Least(p[i]) /\ p[i] # Do("lock", l)
    <2>1. p # <<>> /\ p[i] \in Instructions
        BY EmptySeq, ElementOfSeq DEF Programs
    <2>2. Above(p, Least(Head(a))) /\ Head(a).op # "lock"
        BY <2>1
    <2>3. 1 \in 1 .. Len(a) /\ Opens(a, 1 + 1, l)
        BY <1>1, <1>3, OpensTail
    <2>4. a[1] # Do("lock", l)
        BY <1>1, <2>2 DEF Do
    <2>5. Rank(l) < Least(a[1])
        BY <2>3, <2>4 DEF Nested
    <2>6. Least(p[i]) >= Least(a[1])
        BY <1>1, <2>2 DEF Above
    <2>7. Rank(l) \in 0 .. 7 /\ Least(p[i]) \in 0 .. 8 /\ Least(a[1]) \in 0 .. 8
        BY <1>1, <2>1, RankType, LeastType
    <2>8. Rank(l) < Least(p[i])
        BY <2>5, <2>6, <2>7
    <2>9. Least(Do("lock", l)) = Rank(l)
        BY LeastOf
    <2> QED BY <2>7, <2>8, <2>9
<1>4. Nested(p \o Tail(a))
    BY <1>1, <1>2, <1>3, NestedConcat
<1>5. ASSUME NEW l \in Locks, Opens(p, 1, l) PROVE Opens(p \o Tail(a), 1, l)
    <2>1. 1 \in 1 .. Len(p) + 1
        BY LenProperties DEF Programs
    <2> QED BY <1>1, <1>5, <2>1, OpensConcat
<1>6. ASSUME NEW l \in Locks, Opens(Tail(a), 1, l)
      PROVE  Opens(p \o Tail(a), 1, l)
    BY <1>1, <1>3, <1>6, OpensConcat
<1> QED BY <1>4, <1>5, <1>6

LEMMA OrderNext ==
    ASSUME OrderedSlots, Types, OrderInv, Next
    PROVE  OrderInv'
<1>1. PICK t \in Threads : Lock(t) \/ Unlock(t) \/ Emit(t) \/ Quiet(t)
    BY StepShape DEF Types, TypeOK
<1>2. /\ \A u \in Threads : u # Free
      /\ agenda \in [Threads -> Programs] /\ agenda[t] \in Programs
      /\ holder \in [Locks -> Threads \cup {Free}]
      /\ Nested(agenda[t])
    BY LocksAssumption DEF Threads, Types, TypeOK, OrderInv
<1>3. \A u \in Threads \ {t} : agenda'[u] = agenda[u]
    BY <1>1, <1>2 DEF Lock, Unlock, Emit, Quiet, Continue
<1>4. agenda[t] # <<>> => Instruction(t) = Do(Instruction(t).op, Instruction(t).on)
    BY InstructionType DEF Instructions, Do
<1>5. ASSUME \A u \in Threads \ {t}, l \in Locks : holder'[l] = u => holder[l] = u,
             Nested(agenda'[t]),
             \A l \in Locks : holder'[l] = t => Opens(agenda'[t], 1, l)
      PROVE  OrderInv'
    BY <1>3, <1>5 DEF OrderInv
<1>6. ASSUME NEW p, Continue(t, p) PROVE agenda'[t] = p \o Tail(agenda[t])
    BY <1>2, <1>6 DEF Continue
<1>7. Nested(<<>>)
    BY OrderlyNone DEF Orderly
<1>8. CASE Lock(t)
    <2> DEFINE m == Instruction(t).on
    <2>1. /\ agenda[t] # <<>> /\ Head(agenda[t]) = Do("lock", m) /\ m \in Locks
          /\ holder' = [holder EXCEPT ![m] = t] /\ Continue(t, <<>>)
        BY <1>4, <1>8, InstructionType DEF Lock, Ready, Instruction
    <2>2. /\ Nested(agenda'[t])
          /\ \A l \in Locks : Opens(Tail(agenda[t]), 1, l) => Opens(agenda'[t], 1, l)
        <3>1. agenda'[t] = <<>> \o Tail(agenda[t])
            BY <1>6, <2>1
        <3>2. /\ Nested(<<>> \o Tail(agenda[t]))
              /\ \A l \in Locks : Opens(Tail(agenda[t]), 1, l) =>
                    Opens(<<>> \o Tail(agenda[t]), 1, l)
            BY <1>2, <1>7, <2>1, NoProgram, NestedContinue
        <3> QED BY <3>1, <3>2
    <2>3. \A l \in Locks : holder'[l] = t => Opens(agenda'[t], 1, l)
        <3> SUFFICES ASSUME NEW l \in Locks, holder'[l] = t
                     PROVE  Opens(Tail(agenda[t]), 1, l)
            BY <2>2
        <3>1. CASE l = m
            <4>1. agenda[t][1] = Do("lock", m) /\ 1 \in 1 .. Len(agenda[t])
                BY <1>2, <2>1, ProgramTail
            <4>2. Opens(agenda[t], 1 + 1, m)
                BY <1>2, <2>1, <4>1 DEF Nested
            <4> QED BY <1>2, <2>1, <3>1, <4>2, OpensTail
        <3>2. CASE l # m
            <4>1. holder[l] = t
                BY <1>2, <2>1, <3>2
            <4>2. Do("lock", m) # Do("unlock", l)
                BY DEF Do
            <4> QED BY <1>2, <2>1, <4>1, <4>2, OpensTail DEF OrderInv
        <3> QED BY <3>1, <3>2
    <2>4. \A u \in Threads \ {t}, l \in Locks : holder'[l] = u => holder[l] = u
        BY <1>2, <2>1
    <2> QED BY <1>5, <2>2, <2>3, <2>4
<1>9. CASE Unlock(t)
    <2> DEFINE m == Instruction(t).on
    <2>1. /\ agenda[t] # <<>> /\ Head(agenda[t]) = Do("unlock", m) /\ m \in Locks
          /\ holder' = [holder EXCEPT ![m] = Free] /\ Continue(t, <<>>)
        BY <1>4, <1>9, InstructionType DEF Unlock, Ready, Instruction
    <2>2. /\ Nested(agenda'[t])
          /\ \A l \in Locks : Opens(Tail(agenda[t]), 1, l) => Opens(agenda'[t], 1, l)
        <3>1. agenda'[t] = <<>> \o Tail(agenda[t])
            BY <1>6, <2>1
        <3>2. /\ Nested(<<>> \o Tail(agenda[t]))
              /\ \A l \in Locks : Opens(Tail(agenda[t]), 1, l) =>
                    Opens(<<>> \o Tail(agenda[t]), 1, l)
            BY <1>2, <1>7, <2>1, NoProgram, NestedContinue
        <3> QED BY <3>1, <3>2
    <2>3. \A u \in Threads, l \in Locks : holder'[l] = u => l # m /\ holder[l] = u
        BY <1>2, <2>1
    <2>4. \A l : l # m => Do("unlock", m) # Do("unlock", l)
        BY DEF Do
    <2>5. \A l \in Locks : holder'[l] = t => Opens(Tail(agenda[t]), 1, l)
        BY <1>2, <2>1, <2>3, <2>4, OpensTail DEF OrderInv
    <2> QED BY <1>5, <2>2, <2>3, <2>5
<1>10. CASE Emit(t)
    <2> DEFINE m == Instruction(t).on
               p == Body(m) \o <<Do("unlock", m)>>
    <2>1. /\ agenda[t] # <<>> /\ Head(agenda[t]) = Do("emit", m)
          /\ m \in Locks /\ m \in Signals
          /\ holder' = [holder EXCEPT ![m] = t] /\ Continue(t, p)
        BY <1>4, <1>10, InstructionType DEF Emit, Ready, Instruction
    <2>2. Body(m) \in Programs /\ Orderly(Body(m), Rank(m) + 1)
        BY <2>1, BodyProgram, OrderlyBody DEF Types, TypeOK
    <2>3. /\ p \in Programs /\ Nested(p) /\ Above(p, Rank(m) + 1)
          /\ Opens(p, 1, m)
        BY <2>1, <2>2, ClosedProgram
    <2>4. Head(agenda[t]).op # "lock" /\ Least(Head(agenda[t])) = Rank(m)
        BY <2>1, LeastOf, InstructionsOf
    <2>5. Above(p, Rank(m))
        <3> SUFFICES ASSUME NEW i \in 1 .. Len(p) PROVE Least(p[i]) >= Rank(m)
            BY DEF Above
        <3>1. p[i] \in Instructions
            BY <2>3, ElementOfSeq DEF Programs
        <3>2. Least(p[i]) >= Rank(m) + 1
            BY <2>3 DEF Above
        <3>3. Rank(m) \in 0 .. 7 /\ Least(p[i]) \in 0 .. 8
            BY <2>1, <3>1, RankType, LeastType
        <3> QED BY <3>2, <3>3
    <2>6. agenda'[t] = p \o Tail(agenda[t])
        BY <1>6, <2>1
    <2> HIDE DEF p
    <2>7. /\ Nested(agenda'[t])
          /\ \A l \in Locks : Opens(p, 1, l) => Opens(agenda'[t], 1, l)
          /\ \A l \in Locks : Opens(Tail(agenda[t]), 1, l) => Opens(agenda'[t], 1, l)
        BY <1>2, <2>1, <2>3, <2>4, <2>5, <2>6, NestedContinue
    <2>8. \A l \in Locks : holder'[l] = t => Opens(agenda'[t], 1, l)
        <3> SUFFICES ASSUME NEW l \in Locks, holder'[l] = t, l # m
                     PROVE  Opens(Tail(agenda[t]), 1, l)
            BY <2>1, <2>3, <2>7
        <3>1. holder[l] = t
            BY <1>2, <2>1
        <3>2. Do("emit", m) # Do("unlock", l)
            BY DEF Do
        <3> QED BY <1>2, <2>1, <3>1, <3>2, OpensTail DEF OrderInv
    <2>9. \A u \in Threads \ {t}, l \in Locks : holder'[l] = u => holder[l] = u
        BY <1>2, <2>1
    <2> QED BY <1>5, <2>7, <2>8, <2>9
<1>11. CASE Quiet(t)
    <2>1. holder' = holder
        BY <1>11 DEF Quiet
    <2>2. CASE agenda[t] # <<>>
        <3>1. \E p \in Programs :
                /\ Continue(t, p) /\ Nested(p)
                /\ p = <<>> \/ (Above(p, Least(Head(agenda[t]))) /\ Head(agenda[t]).op # "lock")
            <4>1. CASE Continue(t, <<>>)
                BY <1>7, <4>1, NoProgram
            <4>2. CASE /\ Ready(t, "erase") \/ Ready(t, "drop")
                       /\ Continue(t, <<Do("destroy", Session(Instruction(t).on[2]))>>)
                <5> DEFINE p == <<Do("destroy", Session(Instruction(t).on[2]))>>
                <5>1. /\ Instruction(t).on[2] \in Connections
                      /\ Head(agenda[t]) = Instruction(t)
                      /\ Instruction(t).op \in {"erase", "drop"}
                    BY <2>2, <4>2, InstructionType DEF Ready, Instruction
                <5>2. Least(Head(agenda[t])) = 8
                    BY <5>1 DEF Least
                <5>3. p \in Programs /\ Orderly(p, 8)
                    BY <5>1, RemoveProgram, OrderlyShort
                <5> HIDE DEF p
                <5>4. Nested(p) /\ Above(p, Least(Head(agenda[t])))
                    BY <5>2, <5>3 DEF Orderly
                <5> QED BY <4>2, <5>1, <5>3, <5>4 DEF p
            <4>3. CASE /\ ~ Continue(t, <<>>)
                       /\ ~ /\ Ready(t, "erase") \/ Ready(t, "drop")
                            /\ Continue(t, <<Do("destroy", Session(Instruction(t).on[2]))>>)
                <5>1. PICK p : /\ Ready(t, "user")
                               /\ MayCall(UserMay[Instruction(t).on[1]], p)
                               /\ Continue(t, p)
                    BY <1>11, <2>2, <4>3 DEF Quiet
                <5> DEFINE s == Instruction(t).on[1]
                <5>2. /\ Instruction(t) \in Instructions /\ Instruction(t).op = "user"
                      /\ Head(agenda[t]) = Instruction(t)
                    BY <2>2, <5>1, InstructionType DEF Ready, Instruction
                <5>3. s \in ServerSignals
                    BY <5>2 DEF Instructions, ServerSignals
                <5>4. Least(Instruction(t)) = SlotLeast(s)
                    BY <5>2 DEF Least
                <5>5. /\ Orderly(p, 3)
                      /\ UserMay[s] \subseteq {"connections", "send"} => Orderly(p, 5)
                      /\ UserMay[s] \subseteq {"send"} => Orderly(p, 7)
                    BY <5>1, OrderlyCall
                <5>6. Orderly(p, SlotLeast(s))
                    <6>1. CASE s = "connected"
                        <7>1. SlotLeast(s) = 7
                            BY <6>1 DEF SlotLeast
                        <7> QED BY <5>5, <6>1, <7>1 DEF OrderedSlots
                    <6>2. CASE s = "disconnected"
                        <7>1. SlotLeast(s) = 5
                            BY <6>2 DEF SlotLeast
                        <7> QED BY <5>5, <6>2, <7>1 DEF OrderedSlots
                    <6>3. CASE s \in {"error", "received"}
                        <7>1. SlotLeast(s) = 3
                            BY <6>3 DEF SlotLeast
                        <7> QED BY <5>5, <7>1
                    <6> QED BY <5>3, <6>1, <6>2, <6>3 DEF ServerSignals
                <5>7. p \in Programs
                    BY <5>1, CallProgram
                <5>8. Nested(p) /\ Above(p, Least(Head(agenda[t])))
                    BY <5>2, <5>4, <5>6 DEF Orderly
                <5>9. Head(agenda[t]).op # "lock"
                    BY <5>2
                <5> QED BY <5>1, <5>7, <5>8, <5>9
            <4> QED BY <4>1, <4>3, <4>2
        <3>2. PICK p \in Programs :
                /\ Continue(t, p) /\ Nested(p)
                /\ p = <<>> \/ (Above(p, Least(Head(agenda[t]))) /\ Head(agenda[t]).op # "lock")
            BY <3>1
        <3>3. agenda'[t] = p \o Tail(agenda[t])
            BY <1>6, <3>2
        <3>4. /\ Nested(agenda'[t])
              /\ \A l \in Locks : Opens(Tail(agenda[t]), 1, l) => Opens(agenda'[t], 1, l)
            BY <1>2, <2>2, <3>2, <3>3, NestedContinue
        <3>5. Instruction(t).op # "unlock"
            BY <1>11, <2>2 DEF Quiet, Ready
        <3>6. \A l : Head(agenda[t]) # Do("unlock", l)
            BY <3>5 DEF Instruction, Do
        <3>7. \A l \in Locks : holder'[l] = t => Opens(agenda'[t], 1, l)
            BY <1>2, <2>1, <2>2, <3>4, <3>6, OpensTail DEF OrderInv
        <3> QED BY <1>5, <2>1, <3>4, <3>7
    <2>3. CASE agenda[t] = <<>>
        <3>1. PICK p : /\ MayCall(Calls, p) \/ Handles(p)
                       /\ agenda' = [agenda EXCEPT ![t] = p]
            BY <1>11, <2>3 DEF Quiet, Ready
        <3>2. agenda'[t] = p /\ Nested(p)
            BY <1>2, <3>1, OrderlyCall, OrderlyHandler DEF Orderly
        <3>3. \A l \in Locks : holder[l] # t
            BY <2>3, EmptySeq DEF OrderInv, Opens
        <3> QED BY <1>5, <2>1, <3>2, <3>3
    <2> QED BY <2>2, <2>3
<1> QED BY <1>1, <1>8, <1>9, <1>10, <1>11

\* Whoever waits wants a mutex that ranks higher than all those it holds.
LEMMA WaitersRank ==
    ASSUME Types, OrderInv, NEW t \in Threads, NEW l \in Locks \ Sessions,
           Wants(t, l), NEW m \in Locks, holder[m] = t
    PROVE  Rank(m) < Rank(l)
<1>1. /\ agenda[t] # <<>> /\ agenda[t] \in Programs
      /\ Instruction(t).op \in {"lock", "emit", "connect"}
      /\ Instruction(t).on = l /\ Instruction(t) = Head(agenda[t])
    <2>1. Instruction(t) \in Instructions
        BY InstructionType DEF Wants
    <2> QED BY <2>1 DEF Wants, Types, Instruction, Instructions
<1>2. Opens(agenda[t], 1, m) /\ Nested(agenda[t])
    BY DEF OrderInv
<1>3. Head(agenda[t]) # Do("lock", m) /\ Head(agenda[t]) # Do("unlock", m)
    BY <1>1, <1>2, OpensTail DEF Do
<1>4. Opens(Tail(agenda[t]), 1, m)
    BY <1>1, <1>2, <1>3, OpensTail
<1>5. Opens(agenda[t], 1 + 1, m)
    BY <1>1, <1>4, OpensTail
<1>6. Head(agenda[t]) = agenda[t][1] /\ 1 \in 1 .. Len(agenda[t])
    BY <1>1, ProgramTail
<1>7. Rank(m) < Least(Head(agenda[t]))
    BY <1>2, <1>3, <1>5, <1>6 DEF Nested
<1>8. Least(Head(agenda[t])) = Rank(l)
    BY <1>1 DEF Least
<1> QED BY <1>7, <1>8

-----------------------------------------------------------------------------
(***************************************************************************)
(* Sessions.  The emission of a session is the last thing its handler      *)
(* does, so that the agendas have one of six forms; and one thread at most *)
(* destroys a session, after both its owners have gone.                    *)
(***************************************************************************)

\* What a thread may execute outside the emission of a session, and inside or
\* ahead of that of the session of c.
Plain ==
    {d \in Instructions :
        \/ d.op \in {"lock", "unlock", "emit"} /\ d.on \notin Sessions
        \/ d.op \in {"connect", "user", "read", "write", "erase"}}

Tame(c) ==
    {d \in Instructions :
        \/ d.op \in {"lock", "unlock"} /\ d.on \notin Sessions
        \/ d.op \in {"connect", "read", "write"}
        \/ d.op \in {"emit", "user"} /\ d.on = <<"connected", 0>>
        \/ d.op = "push" /\ d.on[2] = c}

Before(P, s, a) == \E p \in Seq(P) : a = p \o s

\* The end of the emission.
Finish(c) ==
    <<Do("drop", Session(c)), Do("next", List), Do("unlock", Session(c))>>

Apart(a) == a \in Seq(Plain)
Erasing(a, c) == \E q \in Seq(Plain) : a = <<Do("destroy", Session(c))>> \o q
Ahead(a, c) == Before(Tame(c), <<Do("emit", Session(c))>>, a)
Within(a, c) == Before(Tame(c), Finish(c), a)
Dropping(a, c) ==
    a = <<Do("destroy", Session(c)), Do("next", List), Do("unlock", Session(c))>>
Leaving(a, c) ==
    a \in {<<Do("next", List), Do("unlock", Session(c))>>,
           <<Do("unlock", Session(c))>>}

Formed(a) ==
    \/ Apart(a)
    \/ \E c \in Connections :
         \/ Erasing(a, c) \/ Ahead(a, c) \/ Within(a, c) \/ Dropping(a, c)
         \/ Leaving(a, c)

\* The parameter that points to the session of c has still to die.
Pending(a, c) ==
    \/ Len(a) >= 1 /\ a[Len(a)] = Do("emit", Session(c))
    \/ Len(a) >= 3 /\ a[Len(a) - 2] = Do("drop", Session(c))

Destroys(a, c) == a # <<>> /\ Head(a) = Do("destroy", Session(c))

SessionInv ==
    /\ \A t \in Threads : Formed(agenda[t])
    /\ \A t \in Threads, c \in Connections :
         /\ Pending(agenda[t], c) => "parameter" \in owners[c]
         /\ Destroys(agenda[t], c) => owners[c] = {} /\ reader[c] # "none"
    /\ \A t, u \in Threads, c \in Connections :
         /\ Pending(agenda[t], c) /\ Pending(agenda[u], c) => t = u
         /\ Destroys(agenda[t], c) /\ Destroys(agenda[u], c) => t = u
    /\ \A c \in Connections : reader[c] = "none" => owners[c] = {}

LEMMA DoDiffers ==
    /\ \A op, l, op2, l2 : Do(op, l) = Do(op2, l2) <=> op = op2 /\ l = l2
    /\ \A c, d : Session(c) = Session(d) => c = d
    /\ \A c \in Connections : Session(c) \in Sessions
    /\ \A op, l : Do(op, l).op = op /\ Do(op, l).on = l
<1>1. \A op, l : Do(op, l).op = op /\ Do(op, l).on = l
    BY DEF Do
<1>2. \A c, d : Session(c) = Session(d) => c = d
    BY DEF Session
<1>3. \A c \in Connections : Session(c) \in Sessions
    BY DEF Session, Sessions
<1> QED BY <1>1, <1>2, <1>3

LEMMA BeforeTail ==
    ASSUME NEW P, P \subseteq Instructions, NEW s \in Seq(Instructions),
           NEW a, Before(P, s, a)
    PROVE  a = s \/ (a # <<>> /\ Head(a) \in P /\ Before(P, s, Tail(a)))
<1>1. PICK p \in Seq(P) : a = p \o s
    BY DEF Before
<1>2. p \in Seq(Instructions)
    BY <1>1, SeqMonotonic
<1>3. CASE p = <<>>
    BY <1>1, <1>3, ConcatEmptySeq
<1>4. CASE p # <<>>
    <2>1. /\ Head(p) \in P /\ Tail(p) \in Seq(P) /\ Head(p) = p[1]
          /\ Len(p) \in Nat \ {0} /\ Len(Tail(p)) = Len(p) - 1
          /\ \A i \in 1 .. Len(Tail(p)) : Tail(p)[i] = p[i + 1]
        BY <1>1, <1>4, HeadTailProperties, EmptySeq
    <2>2. Tail(p) \in Seq(Instructions)
        BY <2>1, SeqMonotonic
    <2>3. /\ a \in Seq(Instructions) /\ Len(a) = Len(p) + Len(s) /\ Len(s) \in Nat
          /\ \A i \in 1 .. Len(p) + Len(s) :
                a[i] = IF i <= Len(p) THEN p[i] ELSE s[i - Len(p)]
        BY <1>1, <1>2, ConcatProperties, LenProperties
    <2>4. a # <<>>
        BY <2>1, <2>3, EmptySeq
    <2>5. /\ Head(a) = a[1] /\ Tail(a) \in Seq(Instructions)
          /\ Len(Tail(a)) = Len(a) - 1
          /\ \A i \in 1 .. Len(Tail(a)) : Tail(a)[i] = a[i + 1]
        BY <2>3, <2>4, HeadTailProperties
    <2>6. /\ Tail(p) \o s \in Seq(Instructions)
          /\ Len(Tail(p) \o s) = Len(Tail(p)) + Len(s)
          /\ \A i \in 1 .. Len(Tail(p)) + Len(s) :
                (Tail(p) \o s)[i] =
                    IF i <= Len(Tail(p)) THEN Tail(p)[i] ELSE s[i - Len(Tail(p))]
        BY <2>2, ConcatProperties
    <2>7. ASSUME NEW i \in 1 .. Len(Tail(a)) PROVE Tail(a)[i] = (Tail(p) \o s)[i]
        <3>1. i + 1 \in 1 .. Len(p) + Len(s) /\ i \in 1 .. Len(Tail(p)) + Len(s)
              /\ Tail(a)[i] = a[i + 1]
            BY <2>1, <2>3, <2>5
        <3>2. CASE i + 1 <= Len(p)
            <4>1. i \in 1 .. Len(Tail(p)) /\ i <= Len(Tail(p))
                BY <2>1, <3>2
            <4> QED BY <2>1, <2>3, <2>6, <3>1, <3>2, <4>1
        <3>3. CASE ~ (i + 1 <= Len(p))
            <4>1. ~ (i <= Len(Tail(p))) /\ (i + 1) - Len(p) = i - Len(Tail(p))
                BY <2>1, <3>3
            <4> QED BY <2>3, <2>6, <3>1, <3>3, <4>1
        <3> QED BY <3>2, <3>3
    <2>8. Len(Tail(a)) = Len(Tail(p) \o s)
        BY <2>1, <2>3, <2>5, <2>6
    <2>9. Tail(a) = Tail(p) \o s
        BY <2>5, <2>6, <2>7, <2>8, SeqEqual
    <2>10. Head(a) = Head(p)
        BY <2>1, <2>3, <2>5
    <2> QED BY <2>1, <2>4, <2>9, <2>10 DEF Before
<1> QED BY <1>3, <1>4

LEMMA BeforeConcat ==
    ASSUME NEW P, P \subseteq Instructions, NEW s \in Seq(Instructions),
           NEW a, Before(P, s, a), NEW q \in Seq(P)
    PROVE  Before(P, s, q \o a)
<1>1. PICK p \in Seq(P) : a = p \o s
    BY DEF Before
<1>2. p \in Seq(Instructions) /\ q \in Seq(Instructions)
    BY <1>1, SeqMonotonic
<1>3. q \o a = (q \o p) \o s
    BY <1>1, <1>2, ConcatAssociative
<1>4. q \o p \in Seq(P)
    BY <1>1, ConcatProperties
<1> QED BY <1>3, <1>4 DEF Before

\* What is in the sequence.
LEMMA BeforeElements ==
    ASSUME NEW P, P \subseteq Instructions, NEW s \in Seq(Instructions),
           NEW a, Before(P, s, a)
    PROVE  /\ a \in Seq(Instructions) /\ Len(a) \in Nat /\ Len(a) >= Len(s)
           /\ Len(s) \in Nat
           /\ \A i \in 1 .. Len(a) - Len(s) : a[i] \in P
           /\ \A i \in 1 .. Len(s) : a[Len(a) - Len(s) + i] = s[i]
<1>1. PICK p \in Seq(P) : a = p \o s
    BY DEF Before
<1>2. p \in Seq(Instructions)
    BY <1>1, SeqMonotonic
<1>3. /\ a \in Seq(Instructions) /\ Len(a) = Len(p) + Len(s)
      /\ Len(s) \in Nat /\ Len(p) \in Nat
      /\ \A i \in 1 .. Len(p) + Len(s) :
            a[i] = IF i <= Len(p) THEN p[i] ELSE s[i - Len(p)]
    BY <1>1, <1>2, ConcatProperties, LenProperties
<1>4. \A i \in 1 .. Len(p) : p[i] \in P
    BY <1>1, ElementOfSeq
<1>5. ASSUME NEW i \in 1 .. Len(a) - Len(s) PROVE a[i] \in P
    <2>1. i \in 1 .. Len(p) /\ i \in 1 .. Len(p) + Len(s)
        BY <1>3
    <2> QED BY <1>3, <1>4, <2>1
<1>6. ASSUME NEW i \in 1 .. Len(s) PROVE a[Len(a) - Len(s) + i] = s[i]
    <2>1. /\ Len(a) - Len(s) + i = Len(p) + i
          /\ Len(p) + i \in 1 .. Len(p) + Len(s) /\ ~ (Len(p) + i <= Len(p))
          /\ (Len(p) + i) - Len(p) = i
        BY <1>3
    <2> QED BY <1>3, <2>1
<1>7. Len(a) \in Nat /\ Len(a) >= Len(s)
    BY <1>3
<1> QED BY <1>3, <1>5, <1>6, <1>7

LEMMA FormParts ==
    ASSUME NEW c \in Connections
    PROVE  /\ Tame(c) \subseteq Instructions /\ Plain \subseteq Instructions
           /\ <<Do("emit", Session(c))>> \in Seq(Instructions)
           /\ Finish(c) \in Seq(Instructions)
           /\ Len(<<Do("emit", Session(c))>>) = 1
           /\ <<Do("emit", Session(c))>>[1] = Do("emit", Session(c))
           /\ Len(Finish(c)) = 3
           /\ Finish(c)[1] = Do("drop", Session(c)) /\ Finish(c)[2] = Do("next", List)
           /\ Finish(c)[3] = Do("unlock", Session(c))
           /\ Do("destroy", Session(c)) \in Instructions
           /\ Do("unlock", Session(c)) \in Instructions
<1>1. /\ Tame(c) \subseteq Instructions /\ Plain \subseteq Instructions
    BY DEF Tame, Plain
<1>2. /\ Do("emit", Session(c)) \in Instructions
      /\ Do("drop", Session(c)) \in Instructions
      /\ Do("next", List) \in Instructions
      /\ Do("unlock", Session(c)) \in Instructions
      /\ Do("destroy", Session(c)) \in Instructions
    BY InstructionsOf
<1> QED BY <1>1, <1>2 DEF Finish

\* The forms exclude each other.
LEMMA FormEnds ==
    ASSUME NEW a, NEW c \in Connections, NEW d \in Connections
    PROVE  /\ Apart(a) => ~ Pending(a, d) /\ ~ Destroys(a, d)
           /\ Erasing(a, c) => ~ Pending(a, d) /\ (Destroys(a, d) <=> d = c)
           /\ Ahead(a, c) => (Pending(a, d) <=> d = c) /\ ~ Destroys(a, d)
           /\ Within(a, c) => (Pending(a, d) <=> d = c) /\ ~ Destroys(a, d)
           /\ Dropping(a, c) => ~ Pending(a, d) /\ (Destroys(a, d) <=> d = c)
           /\ Leaving(a, c) => ~ Pending(a, d) /\ ~ Destroys(a, d)
<1> DEFINE emit == Do("emit", Session(d))
           drop == Do("drop", Session(d))
           destroy == Do("destroy", Session(d))
<1>1. /\ emit.op = "emit" /\ emit.on \in Sessions /\ drop.op = "drop"
      /\ destroy.op = "destroy"
    BY DoDiffers
<1>2. /\ emit \notin Plain /\ drop \notin Plain /\ destroy \notin Plain
      /\ emit \notin Tame(c) /\ drop \notin Tame(c) /\ destroy \notin Tame(c)
    <2>1. <<"connected", 0>> \notin Sessions
        BY DEF Sessions
    <2> QED BY <1>1, <2>1 DEF Plain, Tame
<1>3. ASSUME Apart(a) PROVE ~ Pending(a, d) /\ ~ Destroys(a, d)
    <2>1. Len(a) \in Nat /\ \A i \in 1 .. Len(a) : a[i] \in Plain
        BY <1>3, ElementOfSeq, LenProperties DEF Apart
    <2>2. a # <<>> => Head(a) \in Plain
        BY <1>3, HeadTailProperties DEF Apart
    <2>3. Len(a) >= 1 => a[Len(a)] \in Plain
        BY <2>1
    <2>4. Len(a) >= 3 => a[Len(a) - 2] \in Plain
        BY <2>1
    <2> QED BY <1>2, <2>2, <2>3, <2>4 DEF Pending, Destroys
<1>4. ASSUME Erasing(a, c)
      PROVE  ~ Pending(a, d) /\ (Destroys(a, d) <=> d = c)
    <2> DEFINE h == Do("destroy", Session(c))
    <2>1. PICK q \in Seq(Plain) : a = <<h>> \o q
        BY <1>4 DEF Erasing
    <2>2. Len(q) \in Nat /\ \A i \in 1 .. Len(q) : q[i] \in Plain
        BY <2>1, ElementOfSeq, LenProperties
    <2>3. q \in Seq(Instructions) /\ <<h>> \in Seq(Instructions)
          /\ Len(<<h>>) = 1 /\ <<h>>[1] = h
        BY <2>1, FormParts, SeqMonotonic
    <2>4. /\ a \in Seq(Instructions) /\ Len(a) = 1 + Len(q)
          /\ \A i \in 1 .. 1 + Len(q) : a[i] = IF i <= 1 THEN h ELSE q[i - 1]
        <3> HIDE DEF h
        <3> QED BY <2>1, <2>2, <2>3, ConcatProperties
    <2>5. \A i \in 1 .. Len(a) : a[i] = h \/ a[i] \in Plain
        <3> SUFFICES ASSUME NEW i \in 1 .. Len(a) PROVE a[i] = h \/ a[i] \in Plain
            OBVIOUS
        <3>1. i > 1 => i - 1 \in 1 .. Len(q)
            BY <2>2, <2>4
        <3> QED BY <2>2, <2>4, <3>1
    <2>6. h # emit /\ h # drop
        BY DoDiffers
    <2>7. Len(a) \in Nat /\ Len(a) \in 1 .. Len(a) /\ (Len(a) >= 3 => Len(a) - 2 \in 1 .. Len(a))
        BY <2>2, <2>4
    <2>8. ~ Pending(a, d)
        BY <1>2, <2>5, <2>6, <2>7 DEF Pending
    <2>9. a # <<>> /\ Head(a) = h
        <3>1. a # <<>>
            BY <2>2, <2>4, EmptySeq
        <3>2. Head(a) = a[1]
            BY <2>4, <3>1, HeadTailProperties
        <3> QED BY <2>2, <2>4, <3>1, <3>2
    <2>10. h = destroy <=> d = c
        BY DoDiffers
    <2> QED BY <2>8, <2>9, <2>10 DEF Destroys
<1>5. ASSUME Ahead(a, c)
      PROVE  (Pending(a, d) <=> d = c) /\ ~ Destroys(a, d)
    <2> DEFINE s == <<Do("emit", Session(c))>>
    <2>1. /\ a \in Seq(Instructions) /\ Len(a) \in Nat /\ Len(a) >= 1
          /\ \A i \in 1 .. Len(a) - 1 : a[i] \in Tame(c)
          /\ a[Len(a)] = Do("emit", Session(c))
        <3>1. /\ Len(s) = 1 /\ s[1] = Do("emit", Session(c))
              /\ s \in Seq(Instructions) /\ Tame(c) \subseteq Instructions
            BY FormParts
        <3> HIDE DEF s
        <3>2. Before(Tame(c), s, a)
            BY <1>5 DEF Ahead, s
        <3>3. /\ a \in Seq(Instructions) /\ Len(a) \in Nat /\ Len(a) >= Len(s)
              /\ \A i \in 1 .. Len(a) - Len(s) : a[i] \in Tame(c)
              /\ \A i \in 1 .. Len(s) : a[Len(a) - Len(s) + i] = s[i]
            BY <3>1, <3>2, BeforeElements
        <3>4. Len(a) - Len(s) + 1 = Len(a) /\ 1 \in 1 .. Len(s)
            BY <3>1, <3>3
        <3> QED BY <3>1, <3>3, <3>4
    <2>2. Do("emit", Session(c)) = emit <=> d = c
        BY DoDiffers
    <2>3. Len(a) >= 3 => a[Len(a) - 2] \in Tame(c)
        BY <2>1
    <2>4. a # <<>> => Head(a) = a[1] /\ a[1] # destroy
        <3>1. Do("emit", Session(c)) # destroy
            BY DoDiffers
        <3>2. a[1] \in Tame(c) \/ a[1] = Do("emit", Session(c))
            BY <2>1
        <3> QED BY <1>2, <2>1, <3>1, <3>2, HeadTailProperties
    <2> QED BY <1>2, <2>1, <2>2, <2>3, <2>4 DEF Pending, Destroys
<1>6. ASSUME Within(a, c)
      PROVE  (Pending(a, d) <=> d = c) /\ ~ Destroys(a, d)
    <2> DEFINE s == Finish(c)
    <2>1. /\ a \in Seq(Instructions) /\ Len(a) \in Nat /\ Len(a) >= 3
          /\ \A i \in 1 .. Len(a) - 3 : a[i] \in Tame(c)
          /\ a[Len(a) - 2] = Do("drop", Session(c))
          /\ a[Len(a)] = Do("unlock", Session(c))
        <3>1. /\ Len(s) = 3 /\ s[1] = Do("drop", Session(c))
              /\ s[3] = Do("unlock", Session(c))
              /\ s \in Seq(Instructions) /\ Tame(c) \subseteq Instructions
            BY FormParts
        <3>2. Before(Tame(c), s, a)
            BY <1>6 DEF Within
        <3> HIDE DEF s
        <3>3. /\ a \in Seq(Instructions) /\ Len(a) \in Nat /\ Len(a) >= Len(s)
              /\ \A i \in 1 .. Len(a) - Len(s) : a[i] \in Tame(c)
              /\ \A i \in 1 .. Len(s) : a[Len(a) - Len(s) + i] = s[i]
            BY <3>1, <3>2, BeforeElements
        <3>4. /\ Len(a) - Len(s) + 1 = Len(a) - 2 /\ Len(a) - Len(s) + 3 = Len(a)
              /\ 1 \in 1 .. Len(s) /\ 3 \in 1 .. Len(s)
            BY <3>1, <3>3
        <3> QED BY <3>1, <3>3, <3>4
    <2>2. /\ Do("drop", Session(c)) = drop <=> d = c
          /\ Do("unlock", Session(c)) # emit /\ Do("drop", Session(c)) # destroy
        BY DoDiffers
    <2>3. a # <<>> => Head(a) = a[1] /\ a[1] # destroy
        <3>1. a[1] \in Tame(c) \/ a[1] = Do("drop", Session(c))
            BY <2>1
        <3> QED BY <1>2, <2>1, <2>2, <3>1, HeadTailProperties
    <2> QED BY <2>1, <2>2, <2>3 DEF Pending, Destroys
<1>7. ASSUME Dropping(a, c)
      PROVE  ~ Pending(a, d) /\ (Destroys(a, d) <=> d = c)
    <2>1. /\ Len(a) = 3 /\ a[1] = Do("destroy", Session(c))
          /\ a[3] = Do("unlock", Session(c)) /\ a # <<>> /\ Head(a) = a[1]
        BY <1>7 DEF Dropping
    <2>2. /\ Do("unlock", Session(c)) # emit /\ Do("destroy", Session(c)) # drop
          /\ Do("destroy", Session(c)) = destroy <=> d = c
        BY DoDiffers
    <2> QED BY <2>1, <2>2 DEF Pending, Destroys
<1>8. ASSUME Leaving(a, c) PROVE ~ Pending(a, d) /\ ~ Destroys(a, d)
    <2>1. /\ Len(a) \in {1, 2} /\ a[Len(a)] = Do("unlock", Session(c)) /\ a # <<>>
          /\ Head(a) \in {Do("next", List), Do("unlock", Session(c))}
        BY <1>8 DEF Leaving
    <2>2. /\ Do("unlock", Session(c)) # emit /\ Do("unlock", Session(c)) # destroy
          /\ Do("next", List) # destroy
        BY DoDiffers
    <2> QED BY <2>1, <2>2 DEF Pending, Destroys
<1> QED BY <1>3, <1>4, <1>5, <1>6, <1>7, <1>8

LEMMA OneIn ==
    ASSUME NEW S, NEW d \in S
    PROVE  <<d>> \in Seq(S)
OBVIOUS

LEMMA LockedIn ==
    ASSUME NEW S, NEW l, NEW x \in Seq(S), Do("lock", l) \in S, Do("unlock", l) \in S
    PROVE  Locked(l, x) \in Seq(S)
<1>1. <<Do("lock", l)>> \in Seq(S) /\ <<Do("unlock", l)>> \in Seq(S)
    OBVIOUS
<1>2. <<Do("lock", l)>> \o x \in Seq(S)
    BY <1>1, ConcatProperties
<1> QED BY <1>1, <1>2, ConcatProperties DEF Locked

\* Instructions that may be executed outside and inside an emission.
LEMMA PlainOnes ==
    /\ \A c \in Connections :
         /\ Do("lock", <<"write", c>>) \in Plain /\ Do("unlock", <<"write", c>>) \in Plain
         /\ Do("read", <<"write", c>>) \in Plain /\ Do("write", <<"write", c>>) \in Plain
         /\ Do("erase", Session(c)) \in Plain
         /\ Do("user", <<"received", c>>) \in Plain
         /\ \A s \in ConnectionSignals : Do("emit", <<s, c>>) \in Plain
    /\ Do("lock", List) \in Plain /\ Do("unlock", List) \in Plain
    /\ \A s \in ServerSignals : /\ Do("emit", <<s, 0>>) \in Plain
                                /\ Do("user", <<s, 0>>) \in Plain
    /\ \A l \in Locks \ Sessions : Do("unlock", l) \in Plain
<1>1. /\ \A c : <<"write", c>> \notin Sessions /\ List \notin Sessions
      /\ \A c : \A s \in ConnectionSignals \cup ServerSignals : <<s, c>> \notin Sessions
    BY DEF Sessions, List, ConnectionSignals, ServerSignals
<1>2. \A l \in Locks : Do("lock", l) \in Instructions /\ Do("unlock", l) \in Instructions
    BY DEF Instructions, Do
<1>3. ASSUME NEW c \in Connections
      PROVE  /\ Do("lock", <<"write", c>>) \in Plain
             /\ Do("unlock", <<"write", c>>) \in Plain
             /\ Do("read", <<"write", c>>) \in Plain
             /\ Do("write", <<"write", c>>) \in Plain
             /\ Do("erase", Session(c)) \in Plain
             /\ Do("user", <<"received", c>>) \in Plain
             /\ \A s \in ConnectionSignals : Do("emit", <<s, c>>) \in Plain
    <2>1. /\ Do("lock", <<"write", c>>) \in Instructions
          /\ Do("unlock", <<"write", c>>) \in Instructions
          /\ Do("read", <<"write", c>>) \in Instructions
          /\ Do("write", <<"write", c>>) \in Instructions
          /\ Do("erase", Session(c)) \in Instructions
          /\ Do("user", <<"received", c>>) \in Instructions
          /\ \A s \in ConnectionSignals : Do("emit", <<s, c>>) \in Instructions
        BY <1>2, InstructionsOf
    <2> QED BY <1>1, <2>1, DoDiffers DEF Plain
<1>4. Do("lock", List) \in Plain /\ Do("unlock", List) \in Plain
    <2>1. Do("lock", List) \in Instructions /\ Do("unlock", List) \in Instructions
        BY <1>2, InstructionsOf
    <2>2. List \notin Sessions
        BY DEF List, Sessions
    <2> QED BY <2>1, <2>2, DoDiffers DEF Plain
<1>5. ASSUME NEW s \in ServerSignals
      PROVE  Do("emit", <<s, 0>>) \in Plain /\ Do("user", <<s, 0>>) \in Plain
    <2>1. Do("emit", <<s, 0>>) \in Instructions /\ Do("user", <<s, 0>>) \in Instructions
        BY InstructionsOf
    <2>2. <<s, 0>> \notin Sessions
        BY <1>1
    <2> QED BY <2>1, <2>2, DoDiffers DEF Plain
<1>6. \A l \in Locks \ Sessions : Do("unlock", l) \in Plain
    BY <1>2, DoDiffers DEF Plain
<1> QED BY <1>3, <1>4, <1>5, <1>6

LEMMA TameOnes ==
    ASSUME NEW c \in Connections
    PROVE  /\ \A d \in Connections :
                /\ Do("lock", <<"write", d>>) \in Tame(c)
                /\ Do("unlock", <<"write", d>>) \in Tame(c)
                /\ Do("read", <<"write", d>>) \in Tame(c)
                /\ Do("write", <<"write", d>>) \in Tame(c)
           /\ Do("lock", List) \in Tame(c) /\ Do("unlock", List) \in Tame(c)
           /\ \A s \in ConnectionSignals : Do("connect", <<s, c>>) \in Tame(c)
           /\ Do("push", <<"write", c>>) \in Tame(c)
           /\ Do("emit", <<"connected", 0>>) \in Tame(c)
           /\ Do("user", <<"connected", 0>>) \in Tame(c)
           /\ Do("unlock", <<"connected", 0>>) \in Tame(c)
<1>1. /\ \A d : <<"write", d>> \notin Sessions /\ List \notin Sessions
      /\ <<"connected", 0>> \notin Sessions
    BY DEF Sessions, List
<1>2. \A l \in Locks : Do("lock", l) \in Instructions /\ Do("unlock", l) \in Instructions
    BY DEF Instructions, Do
<1>3. "connected" \in ServerSignals /\ <<"connected", 0>> \in Locks
    BY DEF ServerSignals, Locks
<1>4. ASSUME NEW d \in Connections
      PROVE  /\ Do("lock", <<"write", d>>) \in Tame(c)
             /\ Do("unlock", <<"write", d>>) \in Tame(c)
             /\ Do("read", <<"write", d>>) \in Tame(c)
             /\ Do("write", <<"write", d>>) \in Tame(c)
    <2>1. /\ Do("lock", <<"write", d>>) \in Instructions
          /\ Do("unlock", <<"write", d>>) \in Instructions
          /\ Do("read", <<"write", d>>) \in Instructions
          /\ Do("write", <<"write", d>>) \in Instructions
        BY <1>2, InstructionsOf
    <2> QED BY <1>1, <2>1, DoDiffers DEF Tame
<1>5. Do("lock", List) \in Tame(c) /\ Do("unlock", List) \in Tame(c)
    <2>1. Do("lock", List) \in Instructions /\ Do("unlock", List) \in Instructions
        BY <1>2, InstructionsOf
    <2>2. List \notin Sessions
        BY DEF List, Sessions
    <2> QED BY <2>1, <2>2, DoDiffers DEF Tame
<1>6. \A s \in ConnectionSignals : Do("connect", <<s, c>>) \in Tame(c)
    <2>1. \A s \in ConnectionSignals : Do("connect", <<s, c>>) \in Instructions
        BY InstructionsOf
    <2> QED BY <2>1, DoDiffers DEF Tame
<1>7. Do("push", <<"write", c>>) \in Tame(c)
    <2>1. Do("push", <<"write", c>>) \in Instructions
        BY InstructionsOf
    <2> QED BY <2>1, DoDiffers DEF Tame
<1>8. /\ Do("emit", <<"connected", 0>>) \in Tame(c)
      /\ Do("user", <<"connected", 0>>) \in Tame(c)
      /\ Do("unlock", <<"connected", 0>>) \in Tame(c)
    <2>1. /\ Do("emit", <<"connected", 0>>) \in Instructions
          /\ Do("user", <<"connected", 0>>) \in Instructions
          /\ Do("unlock", <<"connected", 0>>) \in Instructions
        BY <1>2, <1>3, InstructionsOf
    <2> QED BY <1>1, <2>1, DoDiffers DEF Tame
<1> QED BY <1>4, <1>5, <1>6, <1>7, <1>8

LEMMA ShortPlain ==
    /\ \A c \in Connections : /\ WaitPackage(c) \in Seq(Plain)
                              /\ DispatchSlot(c) \in Seq(Plain)
                              /\ Locked(<<"write", c>>, <<>>) \in Seq(Plain)
                              /\ RemoveConnection(c) \in Seq(Plain)
    /\ CallConnections \in Seq(Plain)
<1>1. <<>> \in Seq(Plain)
    BY EmptySeq
<1>2. ASSUME NEW c \in Connections
      PROVE  /\ WaitPackage(c) \in Seq(Plain)
             /\ DispatchSlot(c) \in Seq(Plain)
             /\ Locked(<<"write", c>>, <<>>) \in Seq(Plain)
             /\ RemoveConnection(c) \in Seq(Plain)
    <2>1. /\ Do("lock", <<"write", c>>) \in Plain /\ Do("unlock", <<"write", c>>) \in Plain
          /\ Do("lock", List) \in Plain /\ Do("unlock", List) \in Plain
          /\ Do("read", <<"write", c>>) \in Plain /\ Do("write", <<"write", c>>) \in Plain
          /\ Do("erase", Session(c)) \in Plain
        BY PlainOnes
    <2>2. /\ <<Do("read", <<"write", c>>)>> \in Seq(Plain)
          /\ <<Do("write", <<"write", c>>)>> \in Seq(Plain)
          /\ <<Do("erase", Session(c))>> \in Seq(Plain)
        BY <2>1, OneIn
    <2> QED BY <1>1, <2>1, <2>2, LockedIn DEF WaitPackage, DispatchSlot, RemoveConnection
<1>3. CallConnections \in Seq(Plain)
    BY <1>1, PlainOnes, LockedIn DEF CallConnections
<1> QED BY <1>2, <1>3

LEMMA ShortTame ==
    ASSUME NEW c \in Connections
    PROVE  /\ WaitPackage(c) \in Seq(Tame(c)) /\ AddConnection(c) \in Seq(Tame(c))
           /\ \A d \in Connections : DispatchSlot(d) \in Seq(Tame(c))
<1>1. ASSUME NEW d \in Connections
      PROVE  WaitPackage(d) \in Seq(Tame(c)) /\ DispatchSlot(d) \in Seq(Tame(c))
    <2>1. /\ Do("lock", <<"write", d>>) \in Tame(c) /\ Do("unlock", <<"write", d>>) \in Tame(c)
          /\ Do("read", <<"write", d>>) \in Tame(c) /\ Do("write", <<"write", d>>) \in Tame(c)
        BY TameOnes
    <2>2. /\ <<Do("read", <<"write", d>>)>> \in Seq(Tame(c))
          /\ <<Do("write", <<"write", d>>)>> \in Seq(Tame(c))
        BY <2>1, OneIn
    <2> QED BY <2>1, <2>2, LockedIn DEF WaitPackage, DispatchSlot
<1>2. AddConnection(c) \in Seq(Tame(c))
    <2> DEFINE x == <<Do("connect", <<"closed", c>>), Do("connect", <<"error", c>>),
                      Do("connect", <<"received", c>>)>>
               y == <<Do("push", <<"write", c>>), Do("emit", <<"connected", 0>>)>>
    <2>1. x \in Seq(Tame(c))
        <3>1. /\ Do("connect", <<"closed", c>>) \in Tame(c)
              /\ Do("connect", <<"error", c>>) \in Tame(c)
              /\ Do("connect", <<"received", c>>) \in Tame(c)
            BY TameOnes DEF ConnectionSignals
        <3> QED BY <3>1
    <2>2. y \in Seq(Tame(c))
        <3>1. /\ Do("push", <<"write", c>>) \in Tame(c)
              /\ Do("emit", <<"connected", 0>>) \in Tame(c)
            BY TameOnes
        <3> QED BY <3>1
    <2> HIDE DEF x, y
    <2>3. Locked(List, y) \in Seq(Tame(c))
        BY <2>2, TameOnes, LockedIn
    <2>4. x \o Locked(List, y) \in Seq(Tame(c))
        BY <2>1, <2>3, ConcatProperties
    <2> QED BY <2>4 DEF AddConnection, x, y
<1> QED BY <1>1, <1>2

LEMMA PlainCall ==
    ASSUME NEW p, NEW allowed, MayCall(allowed, p)
    PROVE  /\ p \in Seq(Plain)
           /\ \A c \in Connections : allowed \subseteq {"send"} => p \in Seq(Tame(c))
<1>1. \A c \in Connections : Do("emit", <<"closed", c>>) \in Plain
    BY PlainOnes DEF ConnectionSignals
<1>2. \A c \in Connections : <<Do("emit", <<"closed", c>>)>> \in Seq(Plain)
    BY <1>1, OneIn
<1> QED BY <1>2, <1>1, ShortPlain, ShortTame DEF MayCall

\* The handlers but that of an accepted connection.
LEMMA PlainHandlers ==
    /\ <<>> \in Seq(Plain) /\ <<Do("emit", <<"error", 0>>)>> \in Seq(Plain)
    /\ \A c \in Connections : /\ <<Do("emit", <<"closed", c>>)>> \in Seq(Plain)
                              /\ <<Do("emit", <<"error", c>>)>> \in Seq(Plain)
                              /\ ReadHandler(c) \subseteq Seq(Plain)
                              /\ Locked(<<"write", c>>, <<>>) \in Seq(Plain)
<1>1. <<>> \in Seq(Plain) /\ <<Do("emit", <<"error", 0>>)>> \in Seq(Plain)
    <2>1. Do("emit", <<"error", 0>>) \in Plain
        BY PlainOnes DEF ServerSignals
    <2> QED BY <2>1, OneIn, EmptySeq
<1>2. ASSUME NEW c \in Connections
      PROVE  /\ <<Do("emit", <<"closed", c>>)>> \in Seq(Plain)
             /\ <<Do("emit", <<"error", c>>)>> \in Seq(Plain)
             /\ \A op \in {"emit", "user"} :
                  <<Do(op, <<"received", c>>)>> \o WaitPackage(c) \in Seq(Plain)
    <2>1. /\ <<Do("emit", <<"closed", c>>)>> \in Seq(Plain)
          /\ <<Do("emit", <<"error", c>>)>> \in Seq(Plain)
          /\ <<Do("emit", <<"received", c>>)>> \in Seq(Plain)
        <3>1. /\ Do("emit", <<"closed", c>>) \in Plain
              /\ Do("emit", <<"error", c>>) \in Plain
              /\ Do("emit", <<"received", c>>) \in Plain
            BY PlainOnes DEF ConnectionSignals
        <3> QED BY <3>1, OneIn
    <2>2. <<Do("user", <<"received", c>>)>> \in Seq(Plain)
        BY PlainOnes, OneIn
    <2>3. WaitPackage(c) \in Seq(Plain)
        BY ShortPlain
    <2> QED BY <2>1, <2>2, <2>3, ConcatProperties
<1> QED BY <1>1, <1>2, ShortPlain DEF ReadHandler

\* The slots of a signal other than a session's, and the end of the emission.
LEMMA PlainBody ==
    ASSUME NEW m \in Signals \ Sessions,
           slots \subseteq ConnectionSignals \X Connections
    PROVE  /\ Body(m) \o <<Do("unlock", m)>> \in Seq(Plain)
           /\ m = <<"connected", 0>> =>
                \A c \in Connections : Body(m) \o <<Do("unlock", m)>> \in Seq(Tame(c))
<1>1. m \in Locks
    BY SignalsAreLocks
<1>2. <<Do("unlock", m)>> \in Seq(Plain)
    BY <1>1, PlainOnes, OneIn
<1>3. CASE m[2] = 0
    <2>1. m \in ServerSignals \X {0} /\ m = <<m[1], 0>> /\ m[1] # "session"
        <3>1. m \in ServerSignals \X {0}
            BY <1>3, InstructionsOf DEF Signals
        <3> QED BY <3>1 DEF ServerSignals
    <2>2. Body(m) = <<Do("user", m)>>
        <3>1. m \notin slots
            BY <1>3, InstructionsOf
        <3> QED BY <1>3, <2>1, <3>1 DEF Body
    <2>3. <<Do("user", m)>> \in Seq(Plain)
        BY <2>1, PlainOnes, OneIn
    <2>4. ASSUME m = <<"connected", 0>>, NEW c \in Connections
          PROVE  Body(m) \o <<Do("unlock", m)>> \in Seq(Tame(c))
        <3>1. <<Do("user", m)>> \in Seq(Tame(c)) /\ <<Do("unlock", m)>> \in Seq(Tame(c))
            BY <2>4, TameOnes, OneIn
        <3> QED BY <2>2, <3>1, ConcatProperties
    <2> QED BY <1>2, <2>2, <2>3, <2>4, ConcatProperties
<1>4. CASE m[2] # 0
    <2>1. /\ m = <<m[1], m[2]>> /\ m[2] \in Connections
          /\ m[1] \in ConnectionSignals /\ m[1] # "session"
        BY <1>4 DEF Signals, ConnectionSignals
    <2>2. Body(m) \in Seq(Plain)
        <3>1. CASE m \notin slots
            <4>1. Body(m) = <<>>
                BY <1>4, <2>1, <3>1 DEF Body
            <4> QED BY <4>1, EmptySeq
        <3>2. CASE m \in slots /\ m[1] = "closed"
            <4>1. <<Do("emit", <<"disconnected", 0>>)>> \in Seq(Plain)
                BY PlainOnes, OneIn DEF ServerSignals
            <4>2. ClosedSlot(m[2]) \in Seq(Plain)
                BY <2>1, <4>1, ShortPlain, ConcatProperties DEF ClosedSlot
            <4>3. Body(m) = ClosedSlot(m[2])
                BY <1>4, <2>1, <3>2 DEF Body
            <4> QED BY <4>2, <4>3
        <3>3. CASE m \in slots /\ m[1] # "closed"
            <4>1. m[1] \in ServerSignals
                BY <2>1, <3>3 DEF ConnectionSignals, ServerSignals
            <4>2. <<Do("emit", <<m[1], 0>>)>> \in Seq(Plain)
                BY <4>1, PlainOnes, OneIn
            <4>3. Body(m) = <<Do("emit", <<m[1], 0>>)>>
                BY <1>4, <2>1, <3>3 DEF Body
            <4> QED BY <4>2, <4>3
        <3> QED BY <3>1, <3>2, <3>3
    <2> QED BY <1>2, <1>4, <2>2, ConcatProperties
<1> QED BY <1>3, <1>4

LEMMA Triple ==
    ASSUME NEW S, NEW d \in S, NEW e \in S, NEW f \in S
    PROVE  <<d, e>> \o <<f>> = <<d, e, f>> /\ <<d>> \o <<e, f>> = <<d, e, f>>
<1> DEFINE r == <<d, e, f>>
<1>1. r \in Seq(S) /\ Len(r) = 3 /\ r[1] = d /\ r[2] = e /\ r[3] = f
    OBVIOUS
<1>2. ASSUME NEW x \in Seq(S), NEW y \in Seq(S), Len(x) + Len(y) = 3,
             (x \o y)[1] = d, (x \o y)[2] = e, (x \o y)[3] = f
      PROVE  x \o y = r
    <2>1. x \o y \in Seq(S) /\ Len(x \o y) = 3
        BY <1>2, ConcatProperties
    <2> HIDE DEF r
    <2>2. \A i \in 1 .. 3 : (x \o y)[i] = r[i]
        BY <1>1, <1>2
    <2> QED BY <1>1, <2>1, <2>2, SeqEqual
<1>3. <<d, e>> \o <<f>> = r
    <2> DEFINE x == <<d, e>>
               y == <<f>>
    <2>1. /\ x \in Seq(S) /\ Len(x) = 2 /\ x[1] = d /\ x[2] = e
          /\ y \in Seq(S) /\ Len(y) = 1 /\ y[1] = f
        OBVIOUS
    <2> HIDE DEF x, y, r
    <2>2. \A i \in 1 .. Len(x) + Len(y) :
             (x \o y)[i] = IF i <= Len(x) THEN x[i] ELSE y[i - Len(x)]
        BY <2>1, ConcatProperties
    <2>3. (x \o y)[1] = d /\ (x \o y)[2] = e /\ (x \o y)[3] = f
        <3>1. /\ 1 \in 1 .. Len(x) + Len(y) /\ 2 \in 1 .. Len(x) + Len(y)
              /\ 3 \in 1 .. Len(x) + Len(y)
              /\ 1 <= Len(x) /\ 2 <= Len(x) /\ ~ (3 <= Len(x)) /\ 3 - Len(x) = 1
            BY <2>1
        <3>2. (x \o y)[1] = x[1] /\ (x \o y)[2] = x[2] /\ (x \o y)[3] = y[1]
            BY <2>2, <3>1
        <3> QED BY <2>1, <3>2
    <2>4. Len(x) + Len(y) = 3
        BY <2>1
    <2>5. x \o y = r
        BY ONLY <1>2, <2>1, <2>3, <2>4
    <2> QED BY <2>5 DEF x, y
<1>4. <<d>> \o <<e, f>> = r
    <2> DEFINE x == <<d>>
               y == <<e, f>>
    <2>1. /\ x \in Seq(S) /\ Len(x) = 1 /\ x[1] = d
          /\ y \in Seq(S) /\ Len(y) = 2 /\ y[1] = e /\ y[2] = f
        OBVIOUS
    <2> HIDE DEF x, y, r
    <2>2. \A i \in 1 .. Len(x) + Len(y) :
             (x \o y)[i] = IF i <= Len(x) THEN x[i] ELSE y[i - Len(x)]
        BY <2>1, ConcatProperties
    <2>3. (x \o y)[1] = d /\ (x \o y)[2] = e /\ (x \o y)[3] = f
        <3>1. /\ 1 \in 1 .. Len(x) + Len(y) /\ 2 \in 1 .. Len(x) + Len(y)
              /\ 3 \in 1 .. Len(x) + Len(y)
              /\ 1 <= Len(x) /\ ~ (2 <= Len(x)) /\ 2 - Len(x) = 1
              /\ ~ (3 <= Len(x)) /\ 3 - Len(x) = 2
            BY <2>1
        <3>2. (x \o y)[1] = x[1] /\ (x \o y)[2] = y[1] /\ (x \o y)[3] = y[2]
            BY <2>2, <3>1
        <3> QED BY <2>1, <3>2
    <2>4. Len(x) + Len(y) = 3
        BY <2>1
    <2>5. x \o y = r
        BY ONLY <1>2, <2>1, <2>3, <2>4
    <2> QED BY <2>5 DEF x, y
<1> QED BY <1>3, <1>4

LEMMA ConsHead ==
    ASSUME NEW S, NEW d \in S, NEW q \in Seq(S)
    PROVE  <<d>> \o q # <<>> /\ Head(<<d>> \o q) = d /\ Tail(<<d>> \o q) = q
<1>1. /\ <<d>> \in Seq(S) /\ Len(<<d>>) = 1 /\ <<d>>[1] = d
    OBVIOUS
<1>2. /\ <<d>> \o q \in Seq(S) /\ Len(<<d>> \o q) = 1 + Len(q) /\ Len(q) \in Nat
      /\ \A i \in 1 .. 1 + Len(q) :
            (<<d>> \o q)[i] = IF i <= 1 THEN <<d>>[i] ELSE q[i - 1]
    BY <1>1, ConcatProperties, LenProperties
<1>3. <<d>> \o q # <<>>
    BY <1>2, EmptySeq
<1>4. /\ Head(<<d>> \o q) = (<<d>> \o q)[1] /\ Tail(<<d>> \o q) \in Seq(S)
      /\ Len(Tail(<<d>> \o q)) = Len(<<d>> \o q) - 1
      /\ \A i \in 1 .. Len(Tail(<<d>> \o q)) : Tail(<<d>> \o q)[i] = (<<d>> \o q)[i + 1]
    BY <1>2, <1>3, HeadTailProperties
<1>5. Len(Tail(<<d>> \o q)) = Len(q)
    BY <1>2, <1>4
<1>6. ASSUME NEW i \in 1 .. Len(q) PROVE Tail(<<d>> \o q)[i] = q[i]
    <2>1. i + 1 \in 1 .. 1 + Len(q) /\ ~ (i + 1 <= 1) /\ (i + 1) - 1 = i
        BY <1>2
    <2> QED BY <1>2, <1>4, <1>5, <2>1
<1>7. Tail(<<d>> \o q) = q
    BY <1>4, <1>5, <1>6, SeqEqual
<1> QED BY <1>1, <1>2, <1>3, <1>4, <1>7

\* How an agenda begins and what remains of it.
LEMMA FormHeads ==
    ASSUME NEW a \in Programs, Formed(a), a # <<>>
    PROVE  \/ Apart(a) /\ Head(a) \in Plain /\ Tail(a) \in Seq(Plain)
           \/ \E c \in Connections :
                \/ a = <<Do("emit", Session(c))>> /\ Tail(a) = <<>>
                \/ /\ Head(a) \in Tame(c)
                   /\ \/ Ahead(a, c) /\ Ahead(Tail(a), c)
                      \/ Within(a, c) /\ Within(Tail(a), c)
                \/ a = Finish(c) /\ Leaving(Tail(a), c)
                \/ Head(a) = Do("destroy", Session(c)) /\ Apart(Tail(a))
                \/ Head(a) = Do("destroy", Session(c)) /\ Leaving(Tail(a), c)
                \/ Head(a) = Do("next", List) /\ Leaving(Tail(a), c)
                \/ Head(a) = Do("unlock", Session(c)) /\ Tail(a) = <<>>
<1>1. CASE Apart(a)
    BY <1>1, HeadTailProperties DEF Apart
<1>2. ASSUME NEW c \in Connections, Erasing(a, c)
      PROVE  Head(a) = Do("destroy", Session(c)) /\ Apart(Tail(a))
    <2> DEFINE h == Do("destroy", Session(c))
    <2>1. PICK q \in Seq(Plain) : a = <<h>> \o q
        BY <1>2 DEF Erasing
    <2>2. h \in Instructions /\ q \in Seq(Instructions)
        BY <2>1, FormParts, SeqMonotonic
    <2> HIDE DEF h
    <2>3. <<h>> \o q # <<>> /\ Head(<<h>> \o q) = h /\ Tail(<<h>> \o q) = q
        BY <2>2, ConsHead
    <2> QED BY <2>1, <2>3 DEF Apart, h
<1>3. ASSUME NEW c \in Connections, Ahead(a, c)
      PROVE  \/ a = <<Do("emit", Session(c))>> /\ Tail(a) = <<>>
             \/ Head(a) \in Tame(c) /\ Ahead(Tail(a), c)
    <2> DEFINE s == <<Do("emit", Session(c))>>
    <2>1. s \in Seq(Instructions) /\ Tail(s) = <<>>
        BY FormParts
    <2>2. Tame(c) \subseteq Instructions /\ Before(Tame(c), s, a)
        BY <1>3, FormParts DEF Ahead
    <2> HIDE DEF s
    <2>3. a = s \/ (Head(a) \in Tame(c) /\ Before(Tame(c), s, Tail(a)))
        BY <2>1, <2>2, BeforeTail
    <2> QED BY <2>1, <2>3 DEF Ahead, s
<1>4. ASSUME NEW c \in Connections, Within(a, c)
      PROVE  \/ a = Finish(c) /\ Leaving(Tail(a), c)
             \/ Head(a) \in Tame(c) /\ Within(Tail(a), c)
    <2>1. Finish(c) \in Seq(Instructions) /\ Tame(c) \subseteq Instructions
        BY FormParts
    <2>2. Leaving(Tail(Finish(c)), c)
        BY DEF Finish, Leaving
    <2>3. a = Finish(c) \/ (Head(a) \in Tame(c) /\ Before(Tame(c), Finish(c), Tail(a)))
        BY <1>4, <2>1, BeforeTail DEF Within
    <2> QED BY <2>2, <2>3 DEF Within
<1>5. ASSUME NEW c \in Connections, Dropping(a, c)
      PROVE  Head(a) = Do("destroy", Session(c)) /\ Leaving(Tail(a), c)
    BY <1>5 DEF Dropping, Leaving
<1>6. ASSUME NEW c \in Connections, Leaving(a, c)
      PROVE  \/ Head(a) = Do("next", List) /\ Leaving(Tail(a), c)
             \/ Head(a) = Do("unlock", Session(c)) /\ Tail(a) = <<>>
    <2> DEFINE n == Do("next", List)
               u == Do("unlock", Session(c))
    <2>1. a = <<n, u>> \/ a = <<u>>
        BY <1>6 DEF Leaving
    <2>2. Leaving(<<u>>, c)
        BY DEF Leaving
    <2> HIDE DEF n, u
    <2>3. Head(<<n, u>>) = n /\ Tail(<<n, u>>) = <<u>> /\ Head(<<u>>) = u /\ Tail(<<u>>) = <<>>
        OBVIOUS
    <2>4. (Head(a) = n /\ Leaving(Tail(a), c)) \/ (Head(a) = u /\ Tail(a) = <<>>)
        BY <2>1, <2>2, <2>3
    <2> QED BY <2>4 DEF n, u
<1> QED BY <1>1, <1>2, <1>3, <1>4, <1>5, <1>6 DEF Formed

\* The steps that leave the session alone.
LEMMA FormStep ==
    ASSUME NEW a \in Programs, Formed(a), a # <<>>, NEW p,
           Head(a).op \notin {"destroy", "drop", "next"},
           Head(a).op \in {"emit", "unlock"} => Head(a).on \notin Sessions,
           Head(a) \in Plain => p \in Seq(Plain),
           \A c \in Connections : Head(a) \in Tame(c) => p \in Seq(Tame(c))
    PROVE  /\ Formed(p \o Tail(a))
           /\ \A c \in Connections : /\ Pending(p \o Tail(a), c) <=> Pending(a, c)
                                     /\ ~ Destroys(p \o Tail(a), c)
<1>1. CASE Apart(a) /\ Head(a) \in Plain /\ Tail(a) \in Seq(Plain)
    <2>1. Apart(p \o Tail(a))
        BY <1>1, ConcatProperties DEF Apart
    <2> QED BY <1>1, <2>1, FormEnds DEF Formed
<1>2. ASSUME NEW c \in Connections, Head(a) \in Tame(c), Ahead(a, c), Ahead(Tail(a), c)
      PROVE  /\ Formed(p \o Tail(a))
             /\ \A d \in Connections : /\ Pending(p \o Tail(a), d) <=> Pending(a, d)
                                       /\ ~ Destroys(p \o Tail(a), d)
    <2> DEFINE s == <<Do("emit", Session(c))>>
    <2>1. s \in Seq(Instructions) /\ Tame(c) \subseteq Instructions /\ p \in Seq(Tame(c))
          /\ Before(Tame(c), s, Tail(a))
        BY <1>2, FormParts DEF Ahead
    <2> HIDE DEF s
    <2>2. Before(Tame(c), s, p \o Tail(a))
        BY <2>1, BeforeConcat
    <2>3. Ahead(p \o Tail(a), c)
        BY <2>2 DEF Ahead, s
    <2> QED BY <1>2, <2>3, FormEnds DEF Formed
<1>3. ASSUME NEW c \in Connections, Head(a) \in Tame(c), Within(a, c), Within(Tail(a), c)
      PROVE  /\ Formed(p \o Tail(a))
             /\ \A d \in Connections : /\ Pending(p \o Tail(a), d) <=> Pending(a, d)
                                       /\ ~ Destroys(p \o Tail(a), d)
    <2>1. /\ Finish(c) \in Seq(Instructions) /\ Tame(c) \subseteq Instructions
          /\ p \in Seq(Tame(c)) /\ Before(Tame(c), Finish(c), Tail(a))
        BY <1>3, FormParts DEF Within
    <2>2. Within(p \o Tail(a), c)
        BY <2>1, BeforeConcat DEF Within
    <2> QED BY <1>3, <2>2, FormEnds DEF Formed
<1>4. ASSUME NEW c \in Connections PROVE a # <<Do("emit", Session(c))>>
    <2>1. Head(<<Do("emit", Session(c))>>) = Do("emit", Session(c))
        OBVIOUS
    <2> QED BY <2>1, DoDiffers
<1>5. ASSUME NEW c \in Connections PROVE a # Finish(c)
    <2>1. Head(Finish(c)) = Do("drop", Session(c))
        BY DEF Finish
    <2> QED BY <2>1, DoDiffers
<1>6. /\ \A c \in Connections : /\ Head(a) # Do("destroy", Session(c))
                                /\ Head(a) # Do("unlock", Session(c))
      /\ Head(a) # Do("next", List)
    BY DoDiffers
<1> QED BY <1>1, <1>2, <1>3, <1>4, <1>5, <1>6, FormHeads

\* The steps of a session: its emission, the death of its parameter, its
\* destruction and the end.
LEMMA SessionSteps ==
    ASSUME NEW a \in Programs, Formed(a), a # <<>>, NEW c \in Connections
    PROVE  /\ Head(a) = Do("emit", Session(c)) =>
                /\ Ahead(a, c) /\ Tail(a) = <<>>
                /\ Within((Admit(c) \o <<Do("unlock", Session(c))>>) \o Tail(a), c)
           /\ Head(a) = Do("drop", Session(c)) =>
                /\ Within(a, c) /\ Leaving(Tail(a), c)
                /\ Dropping(<<Do("destroy", Session(c))>> \o Tail(a), c)
           /\ Head(a) = Do("erase", Session(c)) =>
                /\ Apart(a) /\ Apart(Tail(a))
                /\ Erasing(<<Do("destroy", Session(c))>> \o Tail(a), c)
           /\ Head(a) = Do("unlock", Session(c)) => Tail(a) = <<>>
           /\ Head(a) = Do("destroy", Session(c)) \/ Head(a) = Do("next", List) =>
                Apart(Tail(a)) \/ \E d \in Connections : Leaving(Tail(a), d)
           /\ Head(a) = Do("push", <<"write", c>>) => Pending(a, c)
<1>1. /\ \A op \in {"emit", "drop", "destroy", "unlock"} : Do(op, Session(c)) \notin Plain
      /\ Do("next", List) \notin Plain /\ Do("push", <<"write", c>>) \notin Plain
    BY DoDiffers DEF Plain
<1>2. ASSUME NEW d \in Connections
      PROVE  /\ \A op \in {"emit", "drop", "erase", "destroy", "unlock"} :
                    Do(op, Session(c)) \notin Tame(d)
             /\ Do("next", List) \notin Tame(d)
             /\ Do("push", <<"write", c>>) \in Tame(d) => d = c
    <2>1. <<"connected", 0>> \notin Sessions
        BY DEF Sessions
    <2> QED BY <2>1, DoDiffers DEF Tame
<1>3. \A d \in Connections : Head(<<Do("emit", Session(d))>>) = Do("emit", Session(d))
    OBVIOUS
<1>4. \A d \in Connections : Head(Finish(d)) = Do("drop", Session(d))
    BY DEF Finish
<1>5. ASSUME Head(a) = Do("emit", Session(c))
      PROVE  /\ Ahead(a, c) /\ Tail(a) = <<>>
             /\ Within((Admit(c) \o <<Do("unlock", Session(c))>>) \o Tail(a), c)
    <2>1. a = <<Do("emit", Session(c))>> /\ Tail(a) = <<>>
        BY <1>1, <1>2, <1>3, <1>4, <1>5, FormHeads, DoDiffers
    <2>2. Ahead(a, c)
        <3> DEFINE s == <<Do("emit", Session(c))>>
        <3>1. s \in Seq(Instructions) /\ <<>> \in Seq(Tame(c))
            BY FormParts, EmptySeq
        <3> HIDE DEF s
        <3>2. <<>> \o s = s
            BY <3>1, ConcatEmptySeq
        <3>3. Before(Tame(c), s, s)
            BY <3>1, <3>2 DEF Before
        <3> QED BY <2>1, <3>3 DEF Ahead, s
    <2> DEFINE x == <<Do("drop", Session(c)), Do("next", List)>>
               y == <<Do("unlock", Session(c))>>
    <2>3. x \in Seq(Instructions) /\ y \in Seq(Instructions) /\ x \o y = Finish(c)
        <3>1. /\ Do("drop", Session(c)) \in Instructions
              /\ Do("next", List) \in Instructions
              /\ Do("unlock", Session(c)) \in Instructions
            BY InstructionsOf
        <3>2. x \in Seq(Instructions) /\ y \in Seq(Instructions)
            BY <3>1
        <3>3. x \o y = <<Do("drop", Session(c)), Do("next", List), Do("unlock", Session(c))>>
            BY <3>1, Triple
        <3> QED BY <3>2, <3>3 DEF Finish
    <2>4. Admit(c) = AddConnection(c) \o x
        BY DEF Admit
    <2> HIDE DEF x, y
    <2>5. AddConnection(c) \in Seq(Tame(c)) /\ AddConnection(c) \in Seq(Instructions)
        BY ShortTame, FormParts, SeqMonotonic
    <2>6. Admit(c) \o y = AddConnection(c) \o Finish(c)
        <3> DEFINE w == AddConnection(c)
        <3>1. w \in Seq(Instructions) /\ x \in Seq(Instructions) /\ y \in Seq(Instructions)
            BY <2>3, <2>5
        <3> HIDE DEF w
        <3>2. (w \o x) \o y = w \o (x \o y)
            BY ONLY <3>1, ConcatAssociative
        <3> QED BY <2>3, <2>4, <3>2 DEF w
    <2>7. AddConnection(c) \o Finish(c) \in Seq(Instructions)
        BY <2>5, FormParts, ConcatProperties
    <2>8. (Admit(c) \o y) \o Tail(a) = AddConnection(c) \o Finish(c)
        BY <2>1, <2>6, <2>7, ConcatEmptySeq
    <2>9. Within(AddConnection(c) \o Finish(c), c)
        BY <2>5 DEF Within, Before
    <2> QED BY <2>1, <2>2, <2>8, <2>9 DEF y
<1>6. ASSUME Head(a) = Do("drop", Session(c))
      PROVE  /\ Within(a, c) /\ Leaving(Tail(a), c)
             /\ Dropping(<<Do("destroy", Session(c))>> \o Tail(a), c)
    <2>1. a = Finish(c) /\ Leaving(Tail(a), c)
        BY <1>1, <1>2, <1>3, <1>4, <1>6, FormHeads, DoDiffers
    <2>2. Within(Finish(c), c)
        <3>1. Finish(c) \in Seq(Instructions) /\ <<>> \in Seq(Tame(c))
            BY FormParts, EmptySeq
        <3>2. <<>> \o Finish(c) = Finish(c)
            BY <3>1, ConcatEmptySeq
        <3> QED BY <3>1, <3>2 DEF Within, Before
    <2>3. <<Do("destroy", Session(c))>> \o Tail(Finish(c))
            = <<Do("destroy", Session(c)), Do("next", List), Do("unlock", Session(c))>>
        <3>1. /\ Do("destroy", Session(c)) \in Instructions
              /\ Do("next", List) \in Instructions
              /\ Do("unlock", Session(c)) \in Instructions
            BY InstructionsOf
        <3>2. Tail(Finish(c)) = <<Do("next", List), Do("unlock", Session(c))>>
            BY DEF Finish
        <3>3. <<Do("destroy", Session(c))>> \o <<Do("next", List), Do("unlock", Session(c))>>
                = <<Do("destroy", Session(c)), Do("next", List), Do("unlock", Session(c))>>
            BY <3>1, Triple
        <3> QED BY <3>2, <3>3
    <2> QED BY <2>1, <2>2, <2>3 DEF Dropping
<1>7. ASSUME Head(a) = Do("erase", Session(c))
      PROVE  /\ Apart(a) /\ Apart(Tail(a))
             /\ Erasing(<<Do("destroy", Session(c))>> \o Tail(a), c)
    <2>1. Apart(a) /\ Tail(a) \in Seq(Plain)
        BY <1>1, <1>2, <1>3, <1>4, <1>7, FormHeads, DoDiffers
    <2> QED BY <2>1 DEF Erasing, Apart
<1>8. ASSUME Head(a) = Do("unlock", Session(c)) PROVE Tail(a) = <<>>
    BY <1>1, <1>2, <1>3, <1>4, <1>8, FormHeads, DoDiffers
<1>9. ASSUME Head(a) = Do("destroy", Session(c)) \/ Head(a) = Do("next", List)
      PROVE  Apart(Tail(a)) \/ \E d \in Connections : Leaving(Tail(a), d)
    BY <1>1, <1>2, <1>3, <1>4, <1>9, FormHeads, DoDiffers
<1>10. ASSUME Head(a) = Do("push", <<"write", c>>) PROVE Pending(a, c)
    <2>1. Ahead(a, c) \/ Within(a, c)
        BY <1>1, <1>2, <1>3, <1>4, <1>10, FormHeads, DoDiffers
    <2> QED BY <2>1, FormEnds
<1> QED BY <1>5, <1>6, <1>7, <1>8, <1>9, <1>10

\* What a step does to the sessions: how the agenda of the thread t and the
\* owners of the session of c change.
Share(t, c) ==
    LET before == agenda[t]
        after  == agenda'[t]
    IN  \/ /\ owners'[c] = owners[c]
           /\ Pending(after, c) => Pending(before, c)
           /\ ~ Destroys(after, c)
        \/ /\ reader[c] = "none" /\ reader'[c] # "none"
           /\ owners'[c] = {"parameter"} /\ ~ Destroys(after, c)
        \/ /\ Pending(before, c) /\ owners'[c] = owners[c] \cup {"map"}
           /\ ~ Destroys(after, c)
        \/ /\ owners'[c] = owners[c] \ {"map"}
           /\ Pending(after, c) => Pending(before, c)
           /\ Destroys(after, c) => owners[c] # {} /\ owners'[c] = {}
        \/ /\ Pending(before, c) /\ ~ Pending(after, c)
           /\ owners'[c] = owners[c] \ {"parameter"}
           /\ Destroys(after, c) => owners[c] # {} /\ owners'[c] = {}

Effect(t) ==
    /\ \A u \in Threads \ {t} : agenda'[u] = agenda[u]
    /\ Formed(agenda'[t])
    /\ \A c \in Connections : /\ reader'[c] = "none" => reader[c] = "none"
                              /\ Share(t, c)

LEMMA SessionNext ==
    ASSUME SessionInv, NEW t \in Threads, Effect(t)
    PROVE  SessionInv'
<1>1. ASSUME NEW u \in Threads PROVE Formed(agenda'[u])
    BY DEF SessionInv, Effect
<1>2. ASSUME NEW u \in Threads, NEW c \in Connections, Pending(agenda'[u], c)
      PROVE  "parameter" \in owners'[c]
    <2>1. CASE u = t
        BY <1>2, <2>1 DEF SessionInv, Effect, Share
    <2>2. CASE u # t
        <3>1. Pending(agenda[u], c) /\ "parameter" \in owners[c] /\ reader[c] # "none"
            BY <1>2, <2>2 DEF SessionInv, Effect
        <3> QED BY <2>2, <3>1 DEF SessionInv, Effect, Share
    <2> QED BY <2>1, <2>2
<1>3. ASSUME NEW u \in Threads, NEW c \in Connections, Destroys(agenda'[u], c)
      PROVE  owners'[c] = {} /\ reader'[c] # "none"
    <2>1. CASE u = t
        <3>1. owners[c] # {} /\ owners'[c] = {}
            BY <1>3, <2>1 DEF Effect, Share
        <3> QED BY <3>1 DEF SessionInv, Effect
    <2>2. CASE u # t
        <3>1. Destroys(agenda[u], c) /\ owners[c] = {} /\ reader[c] # "none"
            BY <1>3, <2>2 DEF SessionInv, Effect
        <3> QED BY <3>1 DEF SessionInv, Effect, Share
    <2> QED BY <2>1, <2>2
<1>4. ASSUME NEW u \in Threads, u # t, NEW c \in Connections,
             Pending(agenda'[t], c), Pending(agenda'[u], c)
      PROVE  FALSE
    <2>1. Pending(agenda[u], c) /\ "parameter" \in owners[c] /\ reader[c] # "none"
        BY <1>4 DEF SessionInv, Effect
    <2>2. Pending(agenda[t], c)
        BY <1>4, <2>1 DEF Effect, Share
    <2> QED BY <1>4, <2>1, <2>2 DEF SessionInv
<1>5. ASSUME NEW u \in Threads, u # t, NEW c \in Connections,
             Destroys(agenda'[t], c), Destroys(agenda'[u], c)
      PROVE  FALSE
    <2>1. Destroys(agenda[u], c) /\ owners[c] = {}
        BY <1>5 DEF SessionInv, Effect
    <2> QED BY <1>5, <2>1 DEF Effect, Share
<1>6. ASSUME NEW c \in Connections, reader'[c] = "none" PROVE owners'[c] = {}
    <2>1. reader[c] = "none" /\ owners[c] = {}
        BY <1>6 DEF SessionInv, Effect
    <2>2. ~ Pending(agenda[t], c)
        BY <2>1 DEF SessionInv
    <2> QED BY <1>6, <2>1, <2>2 DEF Effect, Share
<1>7. ASSUME NEW u \in Threads, NEW v \in Threads, NEW c \in Connections
      PROVE  /\ Pending(agenda'[u], c) /\ Pending(agenda'[v], c) => u = v
             /\ Destroys(agenda'[u], c) /\ Destroys(agenda'[v], c) => u = v
    <2>1. CASE u # t /\ v # t
        BY <2>1 DEF SessionInv, Effect
    <2>2. CASE u = t \/ v = t
        BY <1>4, <1>5, <2>2
    <2> QED BY <2>1, <2>2
<1> QED BY <1>1, <1>2, <1>3, <1>6, <1>7 DEF SessionInv

\* The steps that leave the owners alone.
LEMMA EffectQuiet ==
    ASSUME NEW t \in Threads, \A u \in Threads \ {t} : agenda'[u] = agenda[u],
           Formed(agenda'[t]), owners' = owners,
           \A c \in Connections :
               /\ Pending(agenda'[t], c) => Pending(agenda[t], c)
               /\ ~ Destroys(agenda'[t], c)
               /\ reader'[c] = "none" => reader[c] = "none"
    PROVE  Effect(t)
BY DEF Effect, Share

LEMMA SessionLocks ==
    /\ \A l \in Sessions : \E c \in Connections : l = Session(c)
    /\ \A l \in {"write"} \X Connections : \E c \in Connections : l = <<"write", c>>
BY DEF Sessions, Session

LEMMA EffectOfStep ==
    ASSUME OrderedSlots, Types, NEW t \in Threads, Formed(agenda[t]), Step(t)
    PROVE  Effect(t)
<1> DEFINE a == agenda[t]
           d == Head(a)
<1>1. /\ agenda \in [Threads -> Programs] /\ a \in Programs /\ a # <<>>
      /\ d = Instruction(t) /\ d \in Instructions /\ d = Do(d.op, d.on)
      /\ owners \in [Connections -> SUBSET {"map", "parameter"}]
      /\ reader \in [Connections -> {"none", "reading", "handling", "ended"}]
      /\ slots \subseteq ConnectionSignals \X Connections
    <2>1. a # <<>>
        BY DEF Step, Lock, Unlock, Emit, ConnectSlot, Initiate, Release, DestroySession,
               Serve, UserSlotReturns, UserSlotCalls, Ready
    <2>2. agenda \in [Threads -> Programs] /\ a \in Programs
        BY DEF Types
    <2>3. d \in Instructions
        BY <2>1, <2>2, ProgramTail
    <2>4. d = Do(d.op, d.on)
        BY <2>3 DEF Instructions, Do
    <2> QED BY <2>1, <2>2, <2>3, <2>4 DEF Types, TypeOK, Instruction
<1>2. ASSUME NEW p, Continue(t, p)
      PROVE  /\ agenda'[t] = p \o Tail(a)
             /\ \A u \in Threads \ {t} : agenda'[u] = agenda[u]
    BY <1>1, <1>2 DEF Continue
<1>3. ASSUME NEW p, Continue(t, p), owners' = owners,
             \A c \in Connections : reader'[c] = "none" => reader[c] = "none",
             d.op \notin {"destroy", "drop", "next"},
             d.op \in {"emit", "unlock"} => d.on \notin Sessions,
             d \in Plain => p \in Seq(Plain),
             \A c \in Connections : d \in Tame(c) => p \in Seq(Tame(c))
      PROVE  Effect(t)
    <2>1. /\ Formed(p \o Tail(a))
          /\ \A c \in Connections : /\ Pending(p \o Tail(a), c) <=> Pending(a, c)
                                    /\ ~ Destroys(p \o Tail(a), c)
        BY <1>1, <1>3, FormStep
    <2> QED BY <1>2, <1>3, <2>1, EffectQuiet
<1>4. <<>> \in Seq(Plain) /\ \A c \in Connections : <<>> \in Seq(Tame(c))
    BY EmptySeq
<1>5. CASE Lock(t) \/ ConnectSlot(t) \/ UserSlotReturns(t)
    <2>1. /\ Continue(t, <<>>) /\ owners' = owners /\ reader' = reader
          /\ d.op \in {"lock", "connect", "user"}
        BY <1>1, <1>5 DEF Lock, ConnectSlot, UserSlotReturns, Ready, server, io
    <2> QED BY <1>3, <1>4, <2>1
<1>6. CASE Initiate(t)
    <2>1. Continue(t, <<>>) /\ owners' = owners /\ d.op \in {"read", "write"}
        BY <1>1, <1>6 DEF Initiate, Ready, server
    <2>2. \A c \in Connections : reader'[c] = "none" => reader[c] = "none"
        BY <1>1, <1>6 DEF Initiate
    <2> QED BY <1>3, <1>4, <2>1, <2>2
<1>7. CASE Unlock(t)
    <2>1. /\ Continue(t, <<>>) /\ owners' = owners /\ reader' = reader /\ d.op = "unlock"
        BY <1>1, <1>7 DEF Unlock, Ready, server, io
    <2>2. CASE d.on \notin Sessions
        BY <1>3, <1>4, <2>1, <2>2
    <2>3. ASSUME NEW c \in Connections, d = Do("unlock", Session(c)) PROVE Effect(t)
        <3>1. Tail(a) = <<>>
            BY <1>1, <2>3, SessionSteps
        <3>2. agenda'[t] = <<>>
            <4>1. <<>> \o Tail(a) = <<>>
                BY <1>4, <3>1, ConcatEmptySeq
            <4> QED BY <1>2, <2>1, <4>1
        <3>3. Apart(agenda'[t])
            BY <1>4, <3>2 DEF Apart
        <3> QED BY <1>2, <2>1, <3>3, FormEnds, EffectQuiet DEF Formed
    <2>4. d.on \in Sessions => \E c \in Connections : d = Do("unlock", Session(c))
        BY <1>1, <2>1, SessionLocks
    <2> QED BY <2>2, <2>3, <2>4
<1>8. CASE Emit(t)
    <2>1. /\ Continue(t, Body(d.on) \o <<Do("unlock", d.on)>>)
          /\ owners' = owners /\ reader' = reader /\ d.op = "emit" /\ d.on \in Signals
        BY <1>1, <1>8, InstructionType DEF Emit, Ready, server, io
    <2>2. CASE d.on \notin Sessions
        <3>1. \A c \in Connections : d \in Tame(c) => d.on = <<"connected", 0>>
            BY <2>1 DEF Tame
        <3> QED BY <1>1, <1>3, <2>1, <2>2, <3>1, PlainBody
    <2>3. ASSUME NEW c \in Connections, d = Do("emit", Session(c)) PROVE Effect(t)
        <3>1. d.on = Session(c)
            BY <2>3, DoDiffers
        <3>2. Body(Session(c)) = Admit(c)
            <4>1. Session(c)[1] = "session" /\ Session(c)[2] = c /\ c # 0
                BY InstructionsOf DEF Session
            <4>2. Session(c) \notin slots
                BY <1>1, <4>1 DEF ConnectionSignals
            <4> QED BY <4>1, <4>2 DEF Body
        <3>3. Ahead(a, c) /\ Within(agenda'[t], c)
            BY <1>1, <1>2, <2>1, <2>3, <3>1, <3>2, SessionSteps
        <3> QED BY <1>2, <2>1, <3>3, FormEnds, EffectQuiet DEF Formed
    <2>4. d.on \in Sessions => \E c \in Connections : d = Do("emit", Session(c))
        BY <1>1, <2>1, SessionLocks
    <2> QED BY <2>2, <2>3, <2>4
<1>9. CASE DestroySession(t) \/ (Serve(t) /\ d.op = "next")
    <2>1. /\ Continue(t, <<>>) /\ owners' = owners /\ reader' = reader
          /\ d.op \in {"destroy", "next"}
        BY <1>1, <1>9 DEF DestroySession, Serve, Ready, server, io
    <2>2. d = Do("next", List) \/ \E c \in Connections : d = Do("destroy", Session(c))
        <3>1. d.op = "next" => d.on = List
            BY <1>1 DEF Instructions
        <3>2. d.op = "destroy" => d.on[2] \in Connections /\ d.on = Session(d.on[2])
            BY <1>1, InstructionType
        <3> QED BY <1>1, <2>1, <3>1, <3>2
    <2>3. agenda'[t] = Tail(a)
        <3>1. Tail(a) \in Seq(Instructions)
            BY <1>1, ProgramTail DEF Programs
        <3> QED BY <1>2, <2>1, <3>1, ConcatEmptySeq
    <2>4. Apart(Tail(a)) \/ \E c \in Connections : Leaving(Tail(a), c)
        <3>1. CASE d = Do("next", List)
            <4>1. d \notin Plain
                BY <3>1, DoDiffers DEF Plain
            <4>2. PICK c \in Connections : TRUE
                BY <1>1, <4>1, FormHeads
            <4> QED BY <1>1, <3>1, <4>2, SessionSteps
        <3> QED BY <1>1, <2>2, <3>1, SessionSteps
    <2>5. /\ Formed(agenda'[t])
          /\ \A e \in Connections : ~ Pending(agenda'[t], e) /\ ~ Destroys(agenda'[t], e)
        BY <2>3, <2>4, FormEnds DEF Formed
    <2>6. \A u \in Threads \ {t} : agenda'[u] = agenda[u]
        BY <1>2, <2>1
    <2> QED BY <2>1, <2>5, <2>6, EffectQuiet
<1>10. CASE Serve(t) /\ d.op # "next"
    <2>1. /\ Continue(t, <<>>) /\ reader' = reader /\ d.op = "push"
          /\ owners' = [owners EXCEPT ![d.on[2]] = @ \cup {"map"}]
        BY <1>1, <1>10 DEF Serve, Ready, io
    <2>2. PICK c \in Connections : d = Do("push", <<"write", c>>)
        <3>1. d.on \in {"write"} \X Connections
            BY <1>1, <2>1 DEF Instructions
        <3> QED BY <1>1, <2>1, <3>1, SessionLocks
    <2>3. Pending(a, c) /\ d.on[2] = c
        <3>1. d.on = <<"write", c>>
            BY <2>2, DoDiffers
        <3>2. d.on[2] = c
            BY <3>1
        <3>3. Pending(a, c)
            BY <1>1, <2>2, SessionSteps
        <3> QED BY <3>2, <3>3
    <2>4. /\ Formed(agenda'[t])
          /\ \A e \in Connections : /\ Pending(agenda'[t], e) <=> Pending(a, e)
                                    /\ ~ Destroys(agenda'[t], e)
        <3>1. /\ Formed(<<>> \o Tail(a))
              /\ \A e \in Connections : /\ Pending(<<>> \o Tail(a), e) <=> Pending(a, e)
                                        /\ ~ Destroys(<<>> \o Tail(a), e)
            BY <1>1, <1>4, <2>1, FormStep
        <3>2. agenda'[t] = <<>> \o Tail(a)
            BY <1>2, <2>1
        <3> QED BY <3>1, <3>2
    <2>5. /\ owners'[c] = owners[c] \cup {"map"}
          /\ \A e \in Connections \ {c} : owners'[e] = owners[e]
        BY <1>1, <2>1, <2>3
    <2> QED BY <1>2, <2>1, <2>3, <2>4, <2>5 DEF Effect, Share
<1>11. CASE UserSlotCalls(t)
    <2>1. /\ Call(t, UserMay[d.on[1]], Tail(a)) /\ d.op = "user"
          /\ owners' = owners /\ reader' = reader
        BY <1>1, <1>11 DEF UserSlotCalls, Ready, Call, server
    <2>2. PICK p : /\ MayCall(UserMay[d.on[1]], p)
                   /\ agenda' = [agenda EXCEPT ![t] = p \o Tail(a)]
        BY <2>1, CallShape DEF Types, TypeOK
    <2>3. Continue(t, p)
        BY <2>2 DEF Continue
    <2>4. \A c \in Connections : d \in Tame(c) => UserMay[d.on[1]] \subseteq {"send"}
        BY <2>1 DEF Tame, OrderedSlots
    <2>5. p \in Seq(Plain) /\ \A c \in Connections : d \in Tame(c) => p \in Seq(Tame(c))
        BY <2>2, <2>4, PlainCall
    <2> QED BY <1>3, <2>1, <2>3, <2>5
<1>12. CASE Release(t)
    <2> DEFINE c == d.on[2]
               left == owners[c] \ {IF d.op = "erase" THEN "map" ELSE "parameter"}
               gone == owners[c] # {} /\ left = {}
               p == IF gone THEN <<Do("destroy", Session(c))>> ELSE <<>>
    <2>1. /\ d.op \in {"erase", "drop"} /\ owners' = [owners EXCEPT ![c] = left]
          /\ Continue(t, p) /\ reader' = reader
        BY <1>1, <1>12 DEF Release, Ready, io
    <2>2. c \in Connections /\ d.on = Session(c)
        BY <1>1, <2>1, InstructionType
    <2> HIDE DEF c, left, gone
    <2>3. owners'[c] = left /\ \A e \in Connections \ {c} : owners'[e] = owners[e]
        BY <1>1, <2>1, <2>2
    <2>4. <<>> \o Tail(a) = Tail(a)
        <3>1. Tail(a) \in Seq(Instructions)
            BY <1>1, ProgramTail DEF Programs
        <3> QED BY <3>1, ConcatEmptySeq
    <2>5. /\ gone => agenda'[t] = <<Do("destroy", Session(c))>> \o Tail(a)
          /\ ~ gone => agenda'[t] = Tail(a)
        BY <1>2, <2>1, <2>4
    <2>6. CASE d.op = "erase"
        <3>1. d = Do("erase", Session(c)) /\ left = owners[c] \ {"map"}
            BY <1>1, <2>2, <2>6 DEF left
        <3>2. /\ Apart(a) /\ Apart(Tail(a))
              /\ Erasing(<<Do("destroy", Session(c))>> \o Tail(a), c)
            BY <1>1, <2>2, <3>1, SessionSteps
        <3>3. /\ Formed(agenda'[t])
              /\ \A e \in Connections : /\ ~ Pending(agenda'[t], e)
                                        /\ Destroys(agenda'[t], e) => gone /\ e = c
            BY <2>2, <2>5, <3>2, FormEnds DEF Formed
        <3> QED BY <1>2, <2>1, <2>2, <2>3, <3>1, <3>3 DEF Effect, Share, gone
    <2>7. CASE d.op = "drop"
        <3>1. d = Do("drop", Session(c)) /\ left = owners[c] \ {"parameter"}
            BY <1>1, <2>2, <2>7 DEF left
        <3>2. /\ Within(a, c) /\ Leaving(Tail(a), c)
              /\ Dropping(<<Do("destroy", Session(c))>> \o Tail(a), c)
            BY <1>1, <2>2, <3>1, SessionSteps
        <3>3. /\ Formed(agenda'[t]) /\ Pending(a, c)
              /\ \A e \in Connections : /\ ~ Pending(agenda'[t], e)
                                        /\ Destroys(agenda'[t], e) => gone /\ e = c
            BY <2>2, <2>5, <3>2, FormEnds DEF Formed
        <3> QED BY <1>2, <2>1, <2>2, <2>3, <3>1, <3>3 DEF Effect, Share, gone
    <2> QED BY <2>1, <2>6, <2>7
<1> QED BY <1>5, <1>6, <1>7, <1>8, <1>9, <1>10, <1>11, <1>12 DEF Step

LEMMA EffectOf ==
    ASSUME OrderedSlots, Types, \A u \in Threads : Formed(agenda[u]), Next
    PROVE  \E t \in Threads : Effect(t)
<1>1. ASSUME NEW t \in Threads, Step(t) PROVE Effect(t)
    BY <1>1, EffectOfStep
<1>2. /\ agenda \in [Threads -> Programs] /\ known \subseteq Connections
      /\ owners \in [Connections -> SUBSET {"map", "parameter"}]
      /\ reader \in [Connections -> {"none", "reading", "handling", "ended"}]
    BY DEF Types, TypeOK
<1>3. ASSUME NEW t \in Threads, NEW p \in Seq(Plain), owners' = owners,
             agenda' = [agenda EXCEPT ![t] = p],
             \A c \in Connections : reader'[c] = "none" => reader[c] = "none"
      PROVE  Effect(t)
    <2>1. agenda'[t] = p /\ \A u \in Threads \ {t} : agenda'[u] = agenda[u]
        BY <1>2, <1>3
    <2>2. Apart(p)
        BY DEF Apart
    <2>3. \A c \in Connections : ~ Pending(p, c) /\ ~ Destroys(p, c)
        BY <2>2, FormEnds
    <2> QED BY <1>3, <2>1, <2>2, <2>3, EffectQuiet DEF Formed
<1>4. ASSUME NEW t \in Users, UserThread(t) PROVE Effect(t)
    <2>1. PICK p : MayCall(Calls, p) /\ agenda' = [agenda EXCEPT ![t] = p \o <<>>]
        BY <1>2, <1>4, CallShape DEF UserThread
    <2>2. p \in Seq(Plain)
        BY <2>1, PlainCall
    <2>3. p \o <<>> = p
        BY <2>2, ConcatEmptySeq
    <2> QED BY <1>3, <1>4, <2>1, <2>2, <2>3 DEF UserThread, Call, server, Threads
<1>5. ASSUME NEW t \in Workers, NEW p \in Seq(Plain), Begin(t, p), owners' = owners,
             \A c \in Connections : reader'[c] = "none" => reader[c] = "none"
      PROVE  Effect(t)
    BY <1>3, <1>5 DEF Begin, Threads
<1>6. ASSUME NEW t \in Workers, AcceptFails(t) PROVE Effect(t)
    BY <1>5, <1>6, PlainHandlers DEF AcceptFails, io
<1>7. ASSUME NEW t \in Workers, NEW c \in Connections, Accepted(t, c)
      PROVE  Effect(t)
    <2> DEFINE p == WaitPackage(c) \o <<Do("emit", Session(c))>>
    <2>1. /\ agenda' = [agenda EXCEPT ![t] = p] /\ t \in Threads
          /\ owners' = [owners EXCEPT ![c] = {"parameter"}]
          /\ reader[c] = "none" /\ reader' = [reader EXCEPT ![c] = "handling"]
        BY <1>7 DEF Accepted, Begin, Threads
    <2>2. Ahead(p, c)
        BY ShortTame DEF Ahead, Before
    <2> HIDE DEF p
    <2>3. agenda'[t] = p /\ \A u \in Threads \ {t} : agenda'[u] = agenda[u]
        BY <1>2, <2>1
    <2>4. \A d \in Connections : (Pending(p, d) => d = c) /\ ~ Destroys(p, d)
        BY <2>2, FormEnds
    <2>5. /\ owners'[c] = {"parameter"} /\ reader'[c] # "none"
          /\ \A d \in Connections \ {c} : owners'[d] = owners[d] /\ reader'[d] = reader[d]
        BY <1>2, <2>1
    <2> QED BY <2>1, <2>2, <2>3, <2>4, <2>5 DEF Effect, Share, Formed
<1>8. ASSUME NEW t \in Workers, NEW c \in Connections,
             ReadDone(t, c) \/ ReadEnds(t, c) \/ WriteEnds(t, c)
      PROVE  Effect(t)
    <2>1. /\ \E p \in Seq(Plain) : Begin(t, p)
          /\ owners' = owners
        BY <1>8, PlainHandlers DEF ReadDone, ReadEnds, WriteEnds, server
    <2>2. \A d \in Connections : reader'[d] = "none" => reader[d] = "none"
        BY <1>2, <1>8 DEF ReadDone, ReadEnds, WriteEnds
    <2> QED BY <1>5, <2>1, <2>2
<1> QED BY <1>1, <1>4, <1>6, <1>7, <1>8 DEF Next, Threads

LEMMA SessionInit == Init => SessionInv
<1> SUFFICES ASSUME Init PROVE SessionInv
    OBVIOUS
<1>1. \A t \in Threads : Apart(agenda[t])
    BY EmptySeq DEF Init, Apart
<1>2. \A t \in Threads, c \in Connections :
        ~ Pending(agenda[t], c) /\ ~ Destroys(agenda[t], c)
    BY <1>1, FormEnds
<1>3. \A c \in Connections : owners[c] = {}
    BY DEF Init
<1> QED BY <1>1, <1>2, <1>3 DEF SessionInv, Formed

-----------------------------------------------------------------------------
(***************************************************************************)
(* Who waits.                                                              *)
(***************************************************************************)

\* A thread that has the signal of a session is in its emission, and so either
\* keeps to the order or destroys the session.
LEMMA SessionHolder ==
    ASSUME NEW a \in Programs, Formed(a), NEW c \in Connections, Opens(a, 1, Session(c))
    PROVE  Within(a, c) \/ Dropping(a, c) \/ Leaving(a, c)
<1> DEFINE u == Do("unlock", Session(c))
<1>1. PICK j \in 1 .. Len(a) : a[j] = u
    BY DEF Opens
<1>2. /\ u \notin Plain
      /\ \A d \in Connections : /\ u \notin Tame(d)
                                /\ u \notin {Do("emit", Session(d)), Do("drop", Session(d)),
                                            Do("destroy", Session(d)), Do("next", List)}
                                /\ u = Do("unlock", Session(d)) => d = c
    BY DoDiffers DEF Plain, Tame
<1> HIDE DEF u
<1>3. CASE Apart(a)
    BY <1>1, <1>2, <1>3, ElementOfSeq DEF Apart
<1>4. ASSUME NEW d \in Connections, Erasing(a, d) PROVE FALSE
    <2> DEFINE h == Do("destroy", Session(d))
    <2>1. PICK q \in Seq(Plain) : a = <<h>> \o q
        BY <1>4 DEF Erasing
    <2>2. /\ h \in Instructions /\ q \in Seq(Instructions)
          /\ Len(q) \in Nat /\ \A i \in 1 .. Len(q) : q[i] \in Plain
        BY <2>1, FormParts, SeqMonotonic, ElementOfSeq, LenProperties
    <2>3. Head(a) = h /\ Tail(a) = q /\ a # <<>>
        <3> HIDE DEF h
        <3> QED BY <2>1, <2>2, ConsHead
    <2>4. a[1] = h /\ Len(q) = Len(a) - 1 /\ Len(a) \in Nat
          /\ \A i \in 1 .. Len(q) : q[i] = a[i + 1]
        BY <2>3, ProgramTail
    <2>5. CASE j = 1
        BY <1>1, <1>2, <2>4, <2>5
    <2>6. CASE j # 1
        <3>1. j - 1 \in 1 .. Len(q) /\ (j - 1) + 1 = j
            BY <1>1, <2>4, <2>6
        <3>2. a[j] \in Plain
            BY <2>2, <2>4, <3>1
        <3> QED BY <1>1, <1>2, <3>2
    <2> QED BY <2>5, <2>6
<1>5. ASSUME NEW d \in Connections, Ahead(a, d) PROVE FALSE
    <2> DEFINE s == <<Do("emit", Session(d))>>
    <2>1. /\ s \in Seq(Instructions) /\ Len(s) = 1 /\ s[1] = Do("emit", Session(d))
          /\ Tame(d) \subseteq Instructions /\ Before(Tame(d), s, a)
        BY <1>5, FormParts DEF Ahead
    <2> HIDE DEF s
    <2>2. /\ Len(a) \in Nat /\ Len(a) >= 1
          /\ \A i \in 1 .. Len(a) - Len(s) : a[i] \in Tame(d)
          /\ \A i \in 1 .. Len(s) : a[Len(a) - Len(s) + i] = s[i]
        BY <2>1, BeforeElements
    <2>3. CASE j \in 1 .. Len(a) - Len(s)
        BY <1>1, <1>2, <2>2, <2>3
    <2>4. CASE j \notin 1 .. Len(a) - Len(s)
        <3>1. j = Len(a) - Len(s) + 1 /\ 1 \in 1 .. Len(s)
            BY <2>1, <2>2, <2>4
        <3> QED BY <1>1, <1>2, <2>1, <2>2, <3>1
    <2> QED BY <2>3, <2>4
<1>6. ASSUME NEW d \in Connections, Within(a, d) PROVE d = c
    <2> DEFINE s == Finish(d)
    <2>1. /\ s \in Seq(Instructions) /\ Len(s) = 3 /\ s[1] = Do("drop", Session(d))
          /\ s[2] = Do("next", List) /\ s[3] = Do("unlock", Session(d))
          /\ Tame(d) \subseteq Instructions /\ Before(Tame(d), s, a)
        BY <1>6, FormParts DEF Within
    <2> HIDE DEF s
    <2>2. /\ Len(a) \in Nat /\ Len(a) >= 3
          /\ \A i \in 1 .. Len(a) - Len(s) : a[i] \in Tame(d)
          /\ \A i \in 1 .. Len(s) : a[Len(a) - Len(s) + i] = s[i]
        BY <2>1, BeforeElements
    <2>3. CASE j \in 1 .. Len(a) - Len(s)
        BY <1>1, <1>2, <2>2, <2>3
    <2>4. CASE j \notin 1 .. Len(a) - Len(s)
        <3>1. PICK i \in 1 .. Len(s) : j = Len(a) - Len(s) + i
            <4>1. j - (Len(a) - Len(s)) \in 1 .. Len(s)
                  /\ j = Len(a) - Len(s) + (j - (Len(a) - Len(s)))
                BY <2>1, <2>2, <2>4
            <4> QED BY <4>1
        <3>2. u = s[i] /\ i \in {1, 2, 3}
            BY <1>1, <2>1, <2>2, <3>1
        <3> QED BY <1>2, <2>1, <3>2
    <2> QED BY <2>3, <2>4
<1>7. ASSUME NEW d \in Connections, Dropping(a, d) PROVE d = c
    <2>1. a[j] \in {Do("destroy", Session(d)), Do("next", List), Do("unlock", Session(d))}
        BY <1>7 DEF Dropping
    <2> QED BY <1>1, <1>2, <2>1
<1>8. ASSUME NEW d \in Connections, Leaving(a, d) PROVE d = c
    <2>1. a[j] \in {Do("next", List), Do("unlock", Session(d))}
        BY <1>8 DEF Leaving
    <2> QED BY <1>1, <1>2, <2>1
<1> QED BY <1>3, <1>4, <1>5, <1>6, <1>7, <1>8 DEF Formed

\* Who waits for the signal of a session will emit it, or destroys it.
LEMMA SessionWants ==
    ASSUME Types, SessionInv, NEW t \in Threads, NEW c \in Connections,
           Wants(t, Session(c))
    PROVE  \/ /\ Head(agenda[t]) = Do("emit", Session(c))
              /\ Pending(agenda[t], c) /\ Tail(agenda[t]) = <<>>
           \/ Destroys(agenda[t], c)
<1> DEFINE a == agenda[t]
           d == Head(a)
<1>1. /\ a \in Programs /\ a # <<>> /\ Formed(a) /\ d \in Instructions
      /\ d.op \in {"lock", "emit", "connect", "destroy"} /\ d.on = Session(c)
      /\ d = Do(d.op, d.on)
    <2>1. a \in Programs /\ a # <<>> /\ Formed(a)
          /\ d.op \in {"lock", "emit", "connect", "destroy"} /\ d.on = Session(c)
        BY DEF Types, SessionInv, Wants, Instruction
    <2>2. d \in Instructions
        BY <2>1, ProgramTail
    <2>3. d = Do(d.op, d.on)
        BY <2>2 DEF Instructions, Do
    <2> QED BY <2>1, <2>2, <2>3
<1>2. d.op # "connect"
    <2>1. d.on[1] = "session"
        BY <1>1 DEF Session
    <2> QED BY <1>1, <2>1 DEF Instructions, ConnectionSignals
<1>3. d.op # "lock"
    <2>1. Do("lock", Session(c)) \notin Plain
        BY DoDiffers DEF Plain
    <2>2. ASSUME NEW e \in Connections
          PROVE  /\ Do("lock", Session(c)) \notin Tame(e)
                 /\ Do("lock", Session(c)) # Head(<<Do("emit", Session(e))>>)
                 /\ Do("lock", Session(c)) # Head(Finish(e))
        <3>1. Head(<<Do("emit", Session(e))>>) = Do("emit", Session(e))
              /\ Head(Finish(e)) = Do("drop", Session(e))
            BY DEF Finish
        <3> QED BY <3>1, DoDiffers DEF Tame
    <2>3. SUFFICES ASSUME d = Do("lock", Session(c)) PROVE FALSE
        BY <1>1
    <2> QED BY <1>1, <2>1, <2>2, <2>3, FormHeads, DoDiffers
<1>4. CASE d.op = "emit"
    <2>1. d = Do("emit", Session(c))
        BY <1>1, <1>4
    <2>2. Ahead(a, c) /\ Tail(a) = <<>>
        BY <1>1, <2>1, SessionSteps
    <2> QED BY <2>1, <2>2, FormEnds
<1>5. CASE d.op = "destroy"
    BY <1>1, <1>5 DEF Destroys
<1> QED BY <1>1, <1>2, <1>3, <1>4, <1>5

\* A thread for whose session another waits is about to leave the emission.
LEMMA SessionAwaited ==
    ASSUME Types, SessionInv, OrderInv,
           NEW t \in Threads, NEW u \in Threads, NEW c \in Connections,
           Wants(t, Session(c)), holder[Session(c)] = u, ~ Trapped(t)
    PROVE  ~ Trapped(u) /\ \A l \in Locks : ~ Wants(u, l)
<1>1. t # u
    BY DEF Trapped
<1>2. Pending(agenda[t], c) \/ Destroys(agenda[t], c)
    BY SessionWants
<1>3. Opens(agenda[u], 1, Session(c)) /\ agenda[u] \in Programs /\ Formed(agenda[u])
    <2>1. Session(c) \in Locks
        BY InstructionsOf
    <2> QED BY <2>1 DEF OrderInv, Types, SessionInv
<1>4. ~ Within(agenda[u], c)
    <2>1. Within(agenda[u], c) => Pending(agenda[u], c)
        BY FormEnds
    <2> QED BY <1>1, <1>2, <2>1 DEF SessionInv
<1>5. ~ Dropping(agenda[u], c)
    <2>1. Dropping(agenda[u], c) => Destroys(agenda[u], c)
        BY FormEnds
    <2> QED BY <1>1, <1>2, <2>1 DEF SessionInv
<1>6. Leaving(agenda[u], c)
    BY <1>3, <1>4, <1>5, SessionHolder
<1>7. Head(agenda[u]).op \in {"next", "unlock"}
    <2>1. Head(agenda[u]) \in {Do("next", List), Do("unlock", Session(c))}
        BY <1>6 DEF Leaving
    <2> QED BY <2>1, DoDiffers
<1>8. \A l : ~ Wants(u, l)
    BY <1>7 DEF Wants, Instruction
<1> QED BY <1>8 DEF Trapped

\* A thread that is Trapped has nothing but the session.
LEMMA TrappedHolds ==
    ASSUME Types, SessionInv, OrderInv,
           NEW t \in Threads, Trapped(t), NEW l \in Locks, holder[l] = t
    PROVE  l \in Sessions
<1>1. PICK c \in Connections : Wants(t, Session(c)) /\ holder[Session(c)] = t
    BY DEF Trapped
<1>2. /\ Opens(agenda[t], 1, Session(c)) /\ Opens(agenda[t], 1, l)
      /\ agenda[t] \in Programs /\ agenda[t] # <<>> /\ Formed(agenda[t])
    <2>1. Session(c) \in Locks
        BY InstructionsOf
    <2> QED BY <1>1, <2>1 DEF OrderInv, Types, SessionInv, Wants
<1>3. Destroys(agenda[t], c)
    <2> SUFFICES ASSUME Head(agenda[t]) = Do("emit", Session(c)), Tail(agenda[t]) = <<>>
                 PROVE  FALSE
        BY <1>1, SessionWants
    <2>1. Opens(Tail(agenda[t]), 1, Session(c))
        <3>1. Head(agenda[t]) # Do("unlock", Session(c))
            BY DoDiffers
        <3> QED BY <1>2, <3>1, OpensTail
    <2>2. PICK j \in 1 .. Len(Tail(agenda[t])) : TRUE
        BY <2>1 DEF Opens
    <2>3. Len(Tail(agenda[t])) = 0
        OBVIOUS
    <2> QED BY <2>2, <2>3
<1>4. Dropping(agenda[t], c)
    BY <1>2, <1>3, SessionHolder, FormEnds
<1>5. PICK j \in 1 .. Len(agenda[t]) : agenda[t][j] = Do("unlock", l)
    BY <1>2 DEF Opens
<1>6. Do("unlock", l) \in {Do("destroy", Session(c)), Do("next", List),
                           Do("unlock", Session(c))}
    BY <1>4, <1>5 DEF Dropping
<1> QED BY <1>6, DoDiffers

LEMMA CircleImpossible == Types /\ OrderInv /\ SessionInv => NoCircularWait
<1> SUFFICES ASSUME Types, OrderInv, SessionInv,
                    NEW waiting \in (SUBSET {t \in Threads : ~ Trapped(t)}) \ {{}},
                    \A t \in waiting : \E l \in Locks :
                        /\ Wants(t, l)
                        /\ \E u \in Threads : /\ holder[l] = u
                                              /\ u \in waiting \/ Trapped(u)
             PROVE  FALSE
    BY DEF NoCircularWait
<1>1. ASSUME NEW t \in waiting
      PROVE  \E l \in Locks \ Sessions : Wants(t, l) /\ holder[l] \in waiting
    <2>1. PICK l \in Locks, u \in Threads :
            Wants(t, l) /\ holder[l] = u /\ (u \in waiting \/ Trapped(u))
        OBVIOUS
    <2>2. t \in Threads /\ ~ Trapped(t)
        OBVIOUS
    <2>3. l \notin Sessions
        <3> SUFFICES ASSUME NEW c \in Connections, l = Session(c) PROVE FALSE
            BY SessionLocks
        <3>1. ~ Trapped(u) /\ \A m \in Locks : ~ Wants(u, m)
            BY <2>1, <2>2, SessionAwaited
        <3> QED BY <2>1, <3>1
    <2>4. ~ Trapped(u)
        BY <2>1, <2>3, TrappedHolds
    <2> QED BY <2>1, <2>3, <2>4
<1> DEFINE Wanted == {l \in Locks \ Sessions :
                        \E t \in waiting : Wants(t, l) /\ holder[l] \in waiting}
           Heights == {8 - Rank(l) : l \in Wanted}
<1>2. Heights \in SUBSET Nat /\ Heights # {}
    <2>1. \A l \in Locks : 8 - Rank(l) \in Nat
        BY RankType
    <2>2. PICK t \in waiting : TRUE
        OBVIOUS
    <2>3. PICK l \in Locks \ Sessions : Wants(t, l) /\ holder[l] \in waiting
        BY <1>1, <2>2
    <2>4. l \in Wanted
        BY <2>2, <2>3
    <2> QED BY <2>1, <2>4
<1>3. PICK n \in Heights : \A k \in Heights : n <= k
    BY <1>2, NatMin
<1>4. PICK l \in Wanted : n = 8 - Rank(l)
    BY <1>3
<1>5. holder[l] \in waiting /\ holder[l] \in Threads /\ l \in Locks \ Sessions
    BY <1>4
<1>6. PICK m \in Locks \ Sessions : Wants(holder[l], m) /\ holder[m] \in waiting
    BY <1>1, <1>5
<1>7. Rank(l) < Rank(m)
    BY <1>5, <1>6, WaitersRank
<1>8. m \in Wanted
    BY <1>5, <1>6
<1>9. 8 - Rank(m) \in Heights
    BY <1>8
<1>10. n <= 8 - Rank(m)
    BY <1>3, <1>9
<1>11. Rank(l) \in 0 .. 7 /\ Rank(m) \in 0 .. 7
    BY <1>5, <1>6, RankType
<1> QED BY <1>4, <1>7, <1>10, <1>11

\* As long as users' slots keep to the order, threads never wait for each other
\* in a circle, however many there are and however the handlers, the calls and
\* the slots nest; none waits for itself but one that destroys a session inside
\* the session's own emission, and for that one nobody else ever waits.
THEOREM ThreadsNeverDeadlock ==
    ASSUME OrderedSlots
    PROVE  Spec => []NoCircularWait
<1> DEFINE IInv == Types /\ OrderInv /\ SessionInv
<1>1. Init => IInv
    <2>1. Init => OrderInv
        BY OrderlyNone, LocksAssumption DEF Init, OrderInv, Orderly, Threads
    <2> QED BY <2>1, TypesInit, SessionInit
<1>2. IInv /\ [Next]_vars => IInv'
    <2>1. CASE UNCHANGED vars
        <3>1. ASSUME IInv PROVE IInv'
            <4>1. /\ agenda' = agenda /\ holder' = holder /\ owners' = owners
                  /\ reader' = reader
                BY <2>1 DEF vars, server, io
            <4>2. OrderInv'
                BY <3>1, <4>1 DEF OrderInv, Nested, Opens
            <4>3. SessionInv'
                BY <3>1, <4>1 DEF SessionInv
            <4> QED BY <2>1, <3>1, <4>2, <4>3, TypesNext
        <3> QED BY <3>1
    <2>2. ASSUME IInv, Next PROVE IInv'
        <3>1. \A u \in Threads : Formed(agenda[u])
            BY <2>2 DEF SessionInv
        <3>2. SessionInv'
            BY <2>2, <3>1, EffectOf, SessionNext
        <3> QED BY <2>2, <3>2, TypesNext, OrderNext
    <2> QED BY <2>1, <2>2
<1>3. IInv => NoCircularWait
    BY CircleImpossible
<1> HIDE DEF IInv
<1> QED BY <1>1, <1>2, <1>3, PTL DEF Spec
=============================================================================
