-------------------------- MODULE ConnectionReceive --------------------------
(***************************************************************************)
(* The receiving half of a connection: the loop that reads the size field  *)
(* of a frame, then its body, hands the body to a response callback or to  *)
(* the signal received, and reads on.                                      *)
(*                                                                         *)
(* The peer is the environment: it puts units on the wire, frame after     *)
(* frame, and may close its side or vanish at any point, also within a     *)
(* frame.  HeaderLength units of a frame are the size field.  Reads return *)
(* any positive number of the units that have arrived.                     *)
(*                                                                         *)
(* connection::_mutex is left out: on this half it only guards the         *)
(* initiation of one read, which is a single step here.                    *)
(***************************************************************************)
EXTENDS Naturals, Sequences, FiniteSets, Selection

CONSTANTS Packages,         \* the packages of the peer
          HeaderLength,     \* units of the size field
          BodyLength,       \* units of the body of each package
          Uid,              \* the uid in the body of each package
          MaxStreams        \* bound: streams created on this side

ASSUME LengthAssumption ==
    /\ HeaderLength \in Nat \ {0}
    /\ BodyLength \in [Packages -> Nat]

ASSUME UidAssumption == Uid \in [Packages -> Nat] /\ MaxStreams \in Nat

VARIABLES
    wire,       \* all units the peer's socket has taken
    peer,       \* the peer's side: "open" or "closed"
    consumed,   \* number of units of the wire read so far
    socket,     \* this side: "open" or "closed"
    stage,      \* where the read loop is
    err,        \* the error code the last read completed with
    buffer,     \* the stream buffer of the current read
    want,       \* units the current read has to transfer
    uidCounter, \* connection::_uid_counter
    callbacks,  \* the keys of connection::_callbacks
    delivered,  \* history: the bodies handed to the user, and how
    signals     \* history: the signals emitted by this half

vars == <<wire, peer, consumed, socket, stage, err, buffer, want, uidCounter,
          callbacks, delivered, signals>>

(***************************************************************************)
(* size, body          a read of the size field or of the body is pending  *)
(* sizeDone, bodyDone  it has completed and its handler has not run        *)
(* dispatch            the body handler is past check_error                *)
(* rearm               the callback or slots have returned                 *)
(* stopped             a handler returned without starting another read    *)
(***************************************************************************)
Stage == {"size", "sizeDone", "body", "bodyDone", "dispatch", "rearm",
          "stopped"}

\* The classes of error codes check_error tells apart.
Errors == {"none", "aborted", "eof", "other"}

Reading == stage \in {"size", "body"}

FrameLength(p) == HeaderLength + BodyLength[p]

Header(p) == [i \in 1 .. HeaderLength |-> <<p, i>>]

Body(p) == [i \in 1 .. BodyLength[p] |-> <<p, HeaderLength + i>>]

\* The constructor starts the first read.
Init ==
    /\ wire = <<>>
    /\ peer = "open"
    /\ consumed = 0
    /\ socket = "open"
    /\ stage = "size"
    /\ err = "none"
    /\ buffer = <<>>
    /\ want = HeaderLength
    /\ uidCounter = 0
    /\ callbacks = {}
    /\ delivered = <<>>
    /\ signals = <<>>

readVars == <<stage, err, buffer, want>>

-----------------------------------------------------------------------------
(***************************************************************************)
(* The composed read: read_streambuf_op repeats async_read_some until the  *)
(* wanted number of units is there or one of them fails.                   *)
(***************************************************************************)

DoneStage(s) == IF s = "size" THEN "sizeDone" ELSE "bodyDone"

\* async_read of n units, s naming what is read.  A read of nothing completes
\* at once, and so does one on a closed socket, with bad_descriptor.
StartRead(s, n) ==
    /\ want' = n
    /\ buffer' = <<>>
    /\ stage' = IF n = 0 \/ socket = "closed" THEN DoneStage(s) ELSE s
    /\ err' = IF n > 0 /\ socket = "closed" THEN "other" ELSE "none"

Receive(n) ==
    /\ Reading
    /\ socket = "open"
    /\ n \in 1 .. want - Len(buffer)
    /\ consumed + n <= Len(wire)
    /\ buffer' = buffer \o SubSeq(wire, consumed + 1, consumed + n)
    /\ consumed' = consumed + n
    /\ stage' = IF Len(buffer) + n = want THEN DoneStage(stage) ELSE stage
    /\ UNCHANGED <<wire, peer, socket, err, want, uidCounter, callbacks,
                   delivered, signals>>

ReadFails(e) ==
    /\ Reading
    /\ socket = "open"
    /\ err' = e
    /\ stage' = DoneStage(stage)
    /\ UNCHANGED <<wire, peer, consumed, socket, buffer, want, uidCounter,
                   callbacks, delivered, signals>>

\* The peer closed its side and everything it had sent has been read.
ReadEof == peer = "closed" /\ consumed = Len(wire) /\ ReadFails("eof")

\* The connection was reset or timed out.
ReadBroken == ReadFails("other")

-----------------------------------------------------------------------------
(***************************************************************************)
(* The handlers, run by a service thread.                                  *)
(***************************************************************************)

\* Mutant: the end of the stream is not signalled.
NoticeWithoutEof(e) == IF e = "other" THEN <<"error">> ELSE <<>>

\* What check_error emits for error code e: nothing for an aborted operation,
\* closed for the end of the stream and error for everything else.
Notice(e) == CASE e = "eof" -> <<"closed">>
               [] e = "other" -> <<"error">>
               [] OTHER -> <<>>

\* Mutant: the size field counts itself.
DecodedSizesOfFrame(units) ==
    IF \E p \in Packages : units = Header(p)
    THEN {HeaderLength + BodyLength[units[1][1]]}
    ELSE {BodyLength[p] : p \in Packages}

\* The size that HeaderLength units decode to: the size of the body when they
\* are the size field of a frame, and anything when they are other bytes.
DecodedSizes(units) ==
    IF \E p \in Packages : units = Header(p)
    THEN {BodyLength[units[1][1]]}
    ELSE {BodyLength[p] : p \in Packages}

\* read_package_size_handler, with wait_package_body.
SizeHandler ==
    /\ stage = "sizeDone"
    /\ signals' = signals \o Notice(err)
    /\ IF err = "none"
       THEN \E n \in DecodedSizes(buffer) : StartRead("body", n)
       ELSE stage' = "stopped" /\ UNCHANGED <<err, buffer, want>>
    /\ UNCHANGED <<wire, peer, consumed, socket, uidCounter, callbacks,
                   delivered>>

\* read_package_body_handler up to the check of the number of bytes: an empty
\* body ends the loop without a signal.
BodyHandler ==
    /\ stage = "bodyDone"
    /\ signals' = signals \o Notice(err)
    /\ stage' = IF err = "none" /\ buffer # <<>> THEN "dispatch" ELSE "stopped"
    /\ UNCHANGED <<wire, peer, consumed, socket, err, buffer, want, uidCounter,
                   callbacks, delivered>>

\* The uid istream's constructor takes from the leading bytes of a body.
UidOf(units) == Uid[units[1][1]]

\* Mutant: after a callback the handler returns without reading on.
DispatchThenReturn ==
    /\ stage = "dispatch"
    /\ callbacks' = callbacks \ {UidOf(buffer)}
    /\ delivered' = Append(delivered,
          [body |-> buffer,
           to |-> IF UidOf(buffer) \in callbacks THEN "callback"
                                                 ELSE "received"])
    /\ stage' = IF UidOf(buffer) \in callbacks THEN "stopped" ELSE "rearm"
    /\ UNCHANGED <<wire, peer, consumed, socket, err, buffer, want, uidCounter,
                   signals>>

\* The rest of read_package_body_handler: a registered callback is taken out
\* of the map and called, otherwise received is emitted.
Dispatch ==
    /\ stage = "dispatch"
    /\ callbacks' = callbacks \ {UidOf(buffer)}
    /\ delivered' = Append(delivered,
          [body |-> buffer,
           to |-> IF UidOf(buffer) \in callbacks THEN "callback"
                                                 ELSE "received"])
    /\ stage' = "rearm"
    /\ UNCHANGED <<wire, peer, consumed, socket, err, buffer, want, uidCounter,
                   signals>>

\* wait_package, after the callback or the slots of received have returned.
WaitPackage ==
    /\ stage = "rearm"
    /\ StartRead("size", HeaderLength)
    /\ UNCHANGED <<wire, peer, consumed, socket, uidCounter, callbacks,
                   delivered, signals>>

-----------------------------------------------------------------------------
(***************************************************************************)
(* The users of this side.                                                 *)
(***************************************************************************)

\* Mutant: the callback is registered under the incremented counter.
CreateStreamPreIncrement(called) ==
    /\ uidCounter < MaxStreams
    /\ uidCounter' = uidCounter + 1
    /\ callbacks' = IF called THEN callbacks \cup {uidCounter + 1}
                              ELSE callbacks
    /\ UNCHANGED <<wire, peer, consumed, socket, stage, err, buffer, want,
                   delivered, signals>>

\* connection::create_stream with a callback (called is TRUE) or without one.
CreateStream(called) ==
    /\ uidCounter < MaxStreams
    /\ uidCounter' = uidCounter + 1
    /\ callbacks' = IF called THEN callbacks \cup {uidCounter} ELSE callbacks
    /\ UNCHANGED <<wire, peer, consumed, socket, stage, err, buffer, want,
                   delivered, signals>>

\* connection::close.  A pending read ends with operation_aborted, or with the
\* end of the stream when it meets the shutdown, or with bad_descriptor when it
\* is between two parts.  A call whose shutdown fails throws and changes nothing.
Close ==
    /\ socket = "open"
    /\ socket' = "closed"
    /\ signals' = Append(signals, "closed")
    /\ IF Reading
       THEN /\ err' \in {"aborted", "eof", "other"}
            /\ stage' = DoneStage(stage)
       ELSE UNCHANGED <<err, stage>>
    /\ UNCHANGED <<wire, peer, consumed, buffer, want, uidCounter, callbacks,
                   delivered>>

-----------------------------------------------------------------------------
(***************************************************************************)
(* The peer.                                                               *)
(***************************************************************************)

OnWire == {wire[k][1] : k \in 1 .. Len(wire)}

\* The next unit of the frame being sent, or the first one of a new frame.
NextUnits ==
    LET last == wire[Len(wire)]
    IN  IF wire # <<>> /\ last[2] < FrameLength(last[1])
        THEN {<<last[1], last[2] + 1>>}
        ELSE {<<p, 1>> : p \in Packages \ OnWire}

PeerSends ==
    /\ peer = "open"
    /\ \E u \in NextUnits : wire' = Append(wire, u)
    /\ UNCHANGED <<peer, consumed, socket, stage, err, buffer, want,
                   uidCounter, callbacks, delivered, signals>>

PeerCloses ==
    /\ peer = "open"
    /\ peer' = "closed"
    /\ UNCHANGED <<wire, consumed, socket, stage, err, buffer, want,
                   uidCounter, callbacks, delivered, signals>>

-----------------------------------------------------------------------------
\* Steps of the service threads and of the network on behalf of this side.
Progress ==
    \/ \E n \in 1 .. want : Receive(n)
    \/ ReadEof
    \/ SizeHandler \/ BodyHandler \/ Dispatch \/ WaitPackage

ThisSide == Progress \/ ReadBroken \/ Close \/ \E b \in BOOLEAN : CreateStream(b)

Next == ThisSide \/ PeerSends \/ PeerCloses

Spec == Init /\ [][Next]_vars

\* Completed operations have their handlers run, and what has arrived is read.
\* Nobody has to close, and the peer need not send.
FairSpec == Spec /\ WF_vars(Progress)

-----------------------------------------------------------------------------
(***************************************************************************)
(* Properties.                                                             *)
(***************************************************************************)

Units == Packages \X Nat

TypeOK ==
    /\ wire \in Seq(Units)
    /\ peer \in {"open", "closed"}
    /\ consumed \in 0 .. Len(wire)
    /\ socket \in {"open", "closed"}
    /\ stage \in Stage
    /\ err \in Errors
    /\ buffer \in Seq(Units)
    /\ want \in Nat
    /\ uidCounter \in 0 .. MaxStreams
    /\ callbacks \subseteq 0 .. MaxStreams - 1
    /\ delivered \in Seq([body : Seq(Units), to : {"callback", "received"}])
    /\ signals \in Seq({"closed", "error"})

\* The packages whose frame is complete on the wire, in wire order.
Arrived ==
    LET ends == Selected(wire, {<<p, FrameLength(p)>> : p \in Packages})
    IN  [k \in 1 .. Len(ends) |-> ends[k][1]]

\* However the network cuts the frames, wherever the peer stops and whatever
\* the sizes are: the k-th body the user gets is exactly the body of the k-th
\* complete frame, whole and with nothing of its neighbours.
DeliveredIntact ==
    /\ Len(delivered) <= Len(Arrived)
    /\ \A k \in 1 .. Len(delivered) : delivered[k].body = Body(Arrived[k])

\* An empty body has ended the loop: its read was of nothing.
EmptyBody == stage = "stopped" /\ want = 0

\* The end of the connection reaches the user: after either side has closed,
\* closed or error is emitted, unless an empty body had ended the loop.
EndIsSignalled ==
    peer = "closed" \/ socket = "closed" ~> signals # <<>> \/ EmptyBody

\* Every frame that arrives completely is handed to the user, unless the user is
\* told that the connection has ended or an empty body has ended the loop.
ArrivedIsDelivered ==
    \A k \in 1 .. Cardinality(Packages) :
        Len(Arrived) >= k
            ~> Len(delivered) >= k \/ signals # <<>> \/ EmptyBody
=============================================================================
