--------------------------- MODULE ConnectionLink ---------------------------
(***************************************************************************)
(* One direction of a connection end to end: the sending half of one       *)
(* process (ConnectionSend), the network, and the receiving half of the    *)
(* other (ConnectionReceive).  The units the sender's socket has taken are *)
(* the units the receiver reads, and the receiver sees the end of the      *)
(* stream after the sender has closed.                                     *)
(***************************************************************************)
EXTENDS Naturals, Sequences

CONSTANTS Packages, HeaderLength, BodyLength, Uid, MaxStreams, NoHolder

VARIABLES
    \* the sender
    sended, alive, stage, err, sent, mutex, locked, packages, socket, order,
    started, signals,
    \* the network
    wire,
    \* the receiver
    consumed, readSocket, readStage, readErr, buffer, want, uidCounter,
    callbacks, delivered, readSignals

sendVars == <<sended, alive, stage, err, sent, mutex, locked, packages, socket,
              order, started, signals>>

readVars == <<consumed, readSocket, readStage, readErr, buffer, want,
              uidCounter, callbacks, delivered, readSignals>>

vars == <<sendVars, wire, readVars>>

Sender == INSTANCE ConnectionSend WITH
    FrameLength <- [p \in Packages |-> HeaderLength + BodyLength[p]]

Receiver == INSTANCE ConnectionReceive WITH
    peer <- socket, socket <- readSocket, stage <- readStage, err <- readErr,
    signals <- readSignals

Init == Sender!Init /\ Receiver!Init

\* The receiver's environment actions are replaced by the sender.
Next ==
    \/ Sender!Next /\ UNCHANGED readVars
    \/ Receiver!ThisSide /\ UNCHANGED sendVars

Spec == Init /\ [][Next]_vars

FairSpec ==
    /\ Spec
    /\ \A p \in Packages : WF_vars(Sender!Progress(p) /\ UNCHANGED readVars)
    /\ WF_vars(Receiver!Progress /\ UNCHANGED sendVars)

-----------------------------------------------------------------------------
\* The packages whose bodies the receiver's user has got.
DeliveredPackages ==
    [k \in 1 .. Len(delivered) |-> delivered[k].body[1][1]]

\* Nothing more will be delivered: the receiver has stopped, or the sender has
\* failed or closed and all it had sent completely is delivered.
LinkBroken ==
    \/ readStage = "stopped"
    \/ /\ socket = "closed" \/ Sender!Failed # {}
       /\ Len(delivered) = Len(Sender!Transmitted)

\* The direction as a whole implements the abstract channel: the packages come
\* out of the receiver's read loop in the order in which the sender's dispatch
\* slots took the mutex, each once, and all of them unless the link breaks.
Channel == INSTANCE PackageChannel WITH
    accepted <- order,
    transmitted <- DeliveredPackages,
    broken <- LinkBroken

ImplementsChannel == Channel!FairSpec

\* After the sender has closed, the receiver's user is told of the end, whatever
\* part of a frame was the last to arrive.
CloseReachesReceiver == socket = "closed" ~> readSignals # <<>>
=============================================================================
