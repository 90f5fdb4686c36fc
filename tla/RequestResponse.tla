-------------------------- MODULE RequestResponse ---------------------------
(***************************************************************************)
(* Requests, responses and response callbacks over one connection.  Both   *)
(* peers have the same code: create_stream numbers a stream with the       *)
(* peer's own counter and may register a callback under that number; an    *)
(* incoming package whose uid has a callback goes to it, any other one to  *)
(* the signal received; a response carries the uid of the stream it        *)
(* answers.                                                                *)
(*                                                                         *)
(* Each direction is a first-in first-out queue of packages: that is what  *)
(* ConnectionLink shows of one that does not break.  The counter is        *)
(* incremented without a lock, so its read and its write are separate      *)
(* steps.  Operations of the map of callbacks are single steps.            *)
(***************************************************************************)
EXTENDS Naturals, Sequences

CONSTANTS Requests,         \* the streams made by create_stream
          ThreadOf,         \* the thread that makes each of them
          Threads,
          SideOf,           \* the peer each thread belongs to
          MaxResponses      \* bound: responses created in all

Side == {"client", "server"}

ASSUME RequestAssumption ==
    /\ ThreadOf \in [Requests -> Threads]
    /\ SideOf \in [Threads -> Side]
    /\ MaxResponses \in Nat

VARIABLES
    uidCounter, \* connection::_uid_counter of each side
    callbacks,  \* connection::_callbacks: the request under each uid
    stage,      \* where the creation of each stream is
    uid,        \* ostream::_uid of each stream
    inbox,      \* packages on their way to each side
    streams,    \* input streams given to the user of each side
    registered, \* history: requests with a callback
    calls,      \* history: callbacks called, and with which stream
    responses   \* number of responses created

vars == <<uidCounter, callbacks, stage, uid, inbox, streams, registered, calls,
          responses>>

Peer(s) == IF s = "client" THEN "server" ELSE "client"

Owner(r) == SideOf[ThreadOf[r]]

(***************************************************************************)
(* A package on the wire has a uid and nothing that tells a request from a *)
(* response.  The fields kind and request are only there for the           *)
(* properties; no action looks at them.                                    *)
(***************************************************************************)
Package == [uid : Nat, kind : {"request", "response"}, request : Requests]

NoCallbacks == [u \in {} |-> u]

Init ==
    /\ uidCounter = [s \in Side |-> 0]
    /\ callbacks = [s \in Side |-> NoCallbacks]
    /\ stage = [r \in Requests |-> "idle"]
    /\ uid = [r \in Requests |-> 0]
    /\ inbox = [s \in Side |-> <<>>]
    /\ streams = [s \in Side |-> {}]
    /\ registered = {}
    /\ calls = <<>>
    /\ responses = 0

-----------------------------------------------------------------------------
(***************************************************************************)
(* connection::create_stream and ostream::send.                            *)
(***************************************************************************)

\* A thread finishes one stream before it creates the next.
ThreadIsFree(r) ==
    \A q \in Requests : ThreadOf[q] = ThreadOf[r] => stage[q] \in {"idle", "sent"}

\* _uid_counter++ : the old value is read ...
ReadCounter(r) ==
    /\ stage[r] = "idle"
    /\ ThreadIsFree(r)
    /\ uid' = [uid EXCEPT ![r] = uidCounter[Owner(r)]]
    /\ stage' = [stage EXCEPT ![r] = "read"]
    /\ UNCHANGED <<uidCounter, callbacks, inbox, streams, registered, calls,
                   responses>>

\* Mutant: the counter keeps its value.
WriteCounterUnchanged(r) ==
    /\ stage[r] = "read"
    /\ stage' = [stage EXCEPT ![r] = "created"]
    /\ UNCHANGED <<uidCounter, callbacks, uid, inbox, streams, registered,
                   calls, responses>>

\* ... and the new one is written back.
WriteCounter(r) ==
    /\ stage[r] = "read"
    /\ uidCounter' = [uidCounter EXCEPT ![Owner(r)] = uid[r] + 1]
    /\ stage' = [stage EXCEPT ![r] = "created"]
    /\ UNCHANGED <<callbacks, uid, inbox, streams, registered, calls, responses>>

Assign(f, u, r) == [v \in DOMAIN f \cup {u} |-> IF v = u THEN r ELSE f[v]]

\* Mutant: the callback is registered before the stream exists.
RegisterEarly(r) ==
    /\ stage[r] = "idle"
    /\ r \notin registered
    /\ callbacks' = [callbacks EXCEPT ![Owner(r)] = Assign(@, uid[r], r)]
    /\ registered' = registered \cup {r}
    /\ UNCHANGED <<uidCounter, stage, uid, inbox, streams, calls, responses>>

\* create_stream with a callback assigns _callbacks[uid].
Register(r) ==
    /\ stage[r] = "created"
    /\ r \notin registered
    /\ callbacks' = [callbacks EXCEPT ![Owner(r)] = Assign(@, uid[r], r)]
    /\ registered' = registered \cup {r}
    /\ UNCHANGED <<uidCounter, stage, uid, inbox, streams, calls, responses>>

\* The stream is sent; without Register before, it was created without one.
Send(r) ==
    /\ stage[r] = "created"
    /\ stage' = [stage EXCEPT ![r] = "sent"]
    /\ inbox' = [inbox EXCEPT ![Peer(Owner(r))] =
                   Append(@, [uid |-> uid[r], kind |-> "request", request |-> r])]
    /\ UNCHANGED <<uidCounter, callbacks, uid, streams, registered, calls,
                   responses>>

-----------------------------------------------------------------------------
(***************************************************************************)
(* connection::read_package_body_handler of side s.  The read loop handles *)
(* one package at a time.                                                  *)
(***************************************************************************)

Erase(f, u) == [v \in DOMAIN f \ {u} |-> f[v]]

\* Mutant: the callback is not erased.
HandleWithoutErase(s) ==
    /\ inbox[s] # <<>>
    /\ LET m == Head(inbox[s])
       IN  /\ calls' = IF m.uid \in DOMAIN callbacks[s]
                       THEN Append(calls, [request |-> callbacks[s][m.uid],
                                           stream |-> m])
                       ELSE calls
           /\ streams' = [streams EXCEPT ![s] = @ \cup {m}]
    /\ inbox' = [inbox EXCEPT ![s] = Tail(@)]
    /\ UNCHANGED <<uidCounter, callbacks, stage, uid, registered, responses>>

\* The stream goes to the callback under its uid, which is erased first, or to
\* received.  Either way the user now has it.
Handle(s) ==
    /\ inbox[s] # <<>>
    /\ LET m == Head(inbox[s])
       IN  /\ callbacks' = [callbacks EXCEPT ![s] = Erase(@, m.uid)]
           /\ calls' = IF m.uid \in DOMAIN callbacks[s]
                       THEN Append(calls, [request |-> callbacks[s][m.uid],
                                           stream |-> m])
                       ELSE calls
           /\ streams' = [streams EXCEPT ![s] = @ \cup {m}]
    /\ inbox' = [inbox EXCEPT ![s] = Tail(@)]
    /\ UNCHANGED <<uidCounter, stage, uid, registered, responses>>

\* What create_response makes of stream m: another stream with the same uid.
Response(m) == [uid |-> m.uid, kind |-> "response", request |-> m.request]

\* Mutant: the response gets a uid of the side that answers.
RespondWithOwnUid(s, m) ==
    /\ responses < MaxResponses
    /\ responses' = responses + 1
    /\ inbox' = [inbox EXCEPT ![Peer(s)] =
                   Append(@, [Response(m) EXCEPT !.uid = uidCounter[s]])]
    /\ UNCHANGED <<uidCounter, callbacks, stage, uid, streams, registered, calls>>

\* istream::create_response and send: a user may answer any stream it was
\* given, at any time and more than once.
Respond(s, m) ==
    /\ responses < MaxResponses
    /\ responses' = responses + 1
    /\ inbox' = [inbox EXCEPT ![Peer(s)] = Append(@, Response(m))]
    /\ UNCHANGED <<uidCounter, callbacks, stage, uid, streams, registered, calls>>

-----------------------------------------------------------------------------
Create(r) == ReadCounter(r) \/ WriteCounter(r) \/ Register(r) \/ Send(r)

Next ==
    \/ \E r \in Requests : Create(r)
    \/ \E s \in Side : Handle(s) \/ \E m \in streams[s] : Respond(s, m)

Spec == Init /\ [][Next]_vars

\* The read loops go on handling what arrives; users need not do anything.
FairSpec == Spec /\ \A s \in Side : WF_vars(Handle(s))

-----------------------------------------------------------------------------
(***************************************************************************)
(* Properties.                                                             *)
(***************************************************************************)

Requested == {r \in Requests : stage[r] # "idle"}

TypeOK ==
    /\ uidCounter \in [Side -> Nat]
    /\ \A s \in Side : /\ DOMAIN callbacks[s] \subseteq Nat
                       /\ \A u \in DOMAIN callbacks[s] :
                            callbacks[s][u] \in registered
    /\ stage \in [Requests -> {"idle", "read", "created", "sent"}]
    /\ uid \in [Requests -> Nat]
    /\ inbox \in [Side -> Seq(Package)]
    /\ streams \in [Side -> SUBSET Package]
    /\ registered \subseteq Requested
    /\ calls \in Seq([request : registered, stream : Package])
    /\ responses \in 0 .. MaxResponses

\* A response callback is called with a response to its own stream, never with
\* a request of the peer or with the answer to another stream.
OwnResponse ==
    \A k \in 1 .. Len(calls) :
        /\ calls[k].stream.kind = "response"
        /\ calls[k].stream.request = calls[k].request

\* A response callback is called at most once, also when the peer answers the
\* same stream several times.
CalledOnce ==
    \A j, k \in 1 .. Len(calls) : calls[j].request = calls[k].request => j = k

Called(r) == \E k \in 1 .. Len(calls) : calls[k].request = r

\* Once the peer has created a response of a stream, the callback of that
\* stream is eventually called, whatever other traffic there is.
ResponseReachesCallback ==
    \A r \in Requests :
        (/\ r \in registered
         /\ \E k \in 1 .. Len(inbox[Owner(r)]) :
              /\ inbox[Owner(r)][k].kind = "response"
              /\ inbox[Owner(r)][k].request = r)
        ~> Called(r)
=============================================================================
