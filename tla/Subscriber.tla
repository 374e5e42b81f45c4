----------------------------- MODULE Subscriber -----------------------------
(***************************************************************************)
(* The subscriber side of one Peer object, internal/sfu/peer.go: the       *)
(* connection over which the server forwards to a client the tracks of the *)
(* others, and its negotiation.  Every operation runs under Peer.subMu, so *)
(* each is an operator from the state before to the states it may end in.  *)
(*                                                                         *)
(* The pion library is external.  Of it the model assumes: AddTrack makes  *)
(* a new RTPSender on every call; RemoveTrack on a closed connection is an *)
(* error; an offer can be made only in "stable" and an answer applied only *)
(* in "have-local-offer".                                                  *)
(***************************************************************************)
EXTENDS Naturals, Sequences

CONSTANTS
    Peer,       \* the Peer objects: one per websocket session
    PeerId,     \* the peer identifiers, the keys of Room.peers
    IdOf,       \* [Peer -> PeerId]: Peer.ID
    KeyPrefix,  \* [PeerId -> SUBSET PeerId]: the ids o for which the key
                \*   "<o>:<track>" has the prefix "<id>:"
    Track,      \* the tracks that clients may publish
    Owner,      \* [Track -> Peer]: the object whose publisher connection
                \*   the track arrives on
    Faults      \* which failures happen: "pion" (a call returns an error),
                \*   "overflow" (the send buffer of a client is full)

ASSUME PeersAssumption  == IdOf \in [Peer -> PeerId]
ASSUME TracksAssumption == Owner \in [Track -> Peer]
ASSUME PrefixAssumption == /\ KeyPrefix \in [PeerId -> SUBSET PeerId]
                           /\ \A i \in PeerId : i \in KeyPrefix[i]
ASSUME FaultsAssumption == Faults \subseteq {"pion", "overflow"}

(***************************************************************************)
(* The state of the connection.  A sender is one RTPSender: the track it   *)
(* carries and the loop that added it.                                     *)
(***************************************************************************)
Sender == [track : Track, via : {"join", "fanout"}]

SubState ==
    [sig        : {"none", "stable", "have-local-offer", "closed"},
                                      \* subPC is nil, or its SignalingState
     senders    : SUBSET Sender,      \* the senders attached to subPC
     mapped     : SUBSET Sender,      \* the values of subscribedSenders
     needsOffer : BOOLEAN,            \* subNeedsOffer
     offered    : SUBSET Sender,      \* the senders in the last offer made
     toClient   : Seq(SUBSET Sender), \* sub-offers on their way to the client
     answers    : Nat,                \* sub-answers on their way back
     view       : SUBSET Sender,      \* the senders the client has applied
     connected  : BOOLEAN,            \* the websocket is open
     faulted    : BOOLEAN]            \* history: a pion call has failed here

InitSub ==
    [sig |-> "none", senders |-> {}, mapped |-> {}, needsOffer |-> FALSE,
     offered |-> {}, toClient |-> <<>>, answers |-> 0, view |-> {},
     connected |-> TRUE, faulted |-> FALSE]

-----------------------------------------------------------------------------
\* The state kept when a pion call returns an error; none without the fault.
PionFails(s) ==
    IF "pion" \in Faults THEN {[s EXCEPT !.faulted = TRUE]} ELSE {}

\* The websocket is gone, with what was in flight on it and the client.
HangUp(s) == [s EXCEPT !.connected = FALSE, !.toClient = <<>>, !.answers = 0,
                       !.view = {}]

\* Client.Send: queue the message, or close a consumer whose buffer is full.
Send(s, offer) ==
    IF ~s.connected
    THEN {s}
    ELSE {[s EXCEPT !.toClient = Append(@, offer)]}
         \cup (IF "overflow" \in Faults THEN {HangUp(s)} ELSE {})

\* Mutant of Renegotiate: offers without looking at the signaling state.
RenegotiateAlways(s) ==
    IF s.sig = "closed"
    THEN {s}
    ELSE Send([s EXCEPT !.needsOffer = FALSE, !.sig = "have-local-offer",
                        !.offered = s.senders], s.senders)

\* Mutant of Renegotiate: gives up while an offer is outstanding.
RenegotiateForgets(s) ==
    IF s.sig # "stable"
    THEN {s}
    ELSE Send([s EXCEPT !.sig = "have-local-offer", !.offered = s.senders],
              s.senders)

\* renegotiateSubscriberLocked: at most one offer is outstanding.  A failed
\* CreateOffer or SetLocalDescription leaves subNeedsOffer cleared.
Renegotiate(s) ==
    LET cleared == [s EXCEPT !.needsOffer = FALSE]
        offer   == [cleared EXCEPT !.sig = "have-local-offer",
                                   !.offered = s.senders]
    IN  IF s.sig # "stable"
        THEN {[s EXCEPT !.needsOffer = TRUE]}
        ELSE Send(offer, s.senders) \cup PionFails(cleared)

\* Mutant of Subscribe: does not look at the closed flag.
SubscribeUnchecked(s, t, via, isClosed) ==
    LET new == [track |-> t, via |-> via]
    IN  Renegotiate([s EXCEPT !.sig = IF @ = "none" THEN "stable" ELSE @,
                              !.senders = @ \cup {new},
                              !.mapped  = @ \cup {new}])

\* AddSubscriberTrack on an object whose closed flag is isClosed: the entry
\* of subscribedSenders for the track, if there is one, is overwritten.
Subscribe(s, t, via, isClosed) ==
    LET new   == [track |-> t, via |-> via]
        open  == [s EXCEPT !.sig = IF @ = "none" THEN "stable" ELSE @]
        added == [open EXCEPT
                    !.senders = @ \cup {new},
                    !.mapped  = {x \in @ : x.track # t} \cup {new}]
    IN  IF isClosed
        THEN {s}
        ELSE Renegotiate(added) \cup PionFails(s) \cup PionFails(open)

\* Mutant of Unsubscribe: does not compare the prefix of the key.
UnsubscribeAll(s, id) ==
    IF s.sig = "none" \/ s.mapped = {}
    THEN {s}
    ELSE Renegotiate([s EXCEPT !.mapped = {}, !.senders = {}])

\* Mutant of Unsubscribe: does nothing while an offer is outstanding.
UnsubscribeStable(s, id) ==
    LET found == {x \in s.mapped : IdOf[Owner[x.track]] \in KeyPrefix[id]}
    IN  IF s.sig # "stable" \/ found = {}
        THEN {s}
        ELSE Renegotiate([s EXCEPT !.mapped = @ \ found, !.senders = @ \ found])

\* RemoveSubscriberTracksFrom: only senders in the map are found, by prefix.
Unsubscribe(s, id) ==
    LET found == {x \in s.mapped : IdOf[Owner[x.track]] \in KeyPrefix[id]}
        left  == [s EXCEPT
                    !.mapped  = @ \ found,
                    !.senders = IF s.sig = "closed" THEN @ ELSE @ \ found]
    IN  IF s.sig = "none" \/ found = {} THEN {s} ELSE Renegotiate(left)

\* The client applies the offer that arrives and sends its answer.
Apply(s) == [s EXCEPT !.view = Head(s.toClient), !.toClient = Tail(@),
                      !.answers = @ + 1]

\* Mutant of Answer: does not come back to a change that had to wait.
AnswerOnly(s) ==
    IF s.sig = "have-local-offer" THEN {[s EXCEPT !.sig = "stable"]} ELSE {s}

\* handleSubAnswer: SetRemoteDescription fails outside have-local-offer.
Answer(s) ==
    LET stable == [s EXCEPT !.sig = "stable"]
    IN  IF s.sig # "have-local-offer"
        THEN {s}
        ELSE (IF s.needsOffer THEN Renegotiate(stable) ELSE {stable})
             \cup PionFails(s)

\* The second half of Close, under subMu.
Shut(s) == IF s.sig = "none" THEN s ELSE [s EXCEPT !.sig = "closed"]

-----------------------------------------------------------------------------
(***************************************************************************)
(* What every operation keeps true.  At most one offer or its answer is    *)
(* under way, and its content is the last offer ...                        *)
(***************************************************************************)
Exchange(s) ==
    /\ s.sig = "none" => s.senders = {} /\ s.offered = {}
    /\ s.sig \in {"none", "stable"} => s.toClient = <<>> /\ s.answers = 0
    /\ s.sig \in {"none", "stable"} /\ s.connected => s.view = s.offered
    /\ s.toClient \in {<<>>, <<s.offered>>}
    /\ s.toClient # <<>> => s.answers = 0
    /\ s.answers \in {0, 1}
    /\ s.answers = 1 => s.view = s.offered
    /\ ~s.connected => s.toClient = <<>> /\ s.answers = 0

\* ... and a change the last offer does not carry is remembered.
Remembered(s) ==
    /\ s.sig = "stable" /\ ~s.faulted => s.offered = s.senders
    /\ s.sig = "have-local-offer" /\ s.offered # s.senders => s.needsOffer

SubInv(s) == Exchange(s) /\ Remembered(s)

(***************************************************************************)
(* What the module Negotiation sees of a connection: nothing once the      *)
(* client or the connection is gone.  "stuck" is the place where a failed  *)
(* SetRemoteDescription leaves the exchange.                               *)
(***************************************************************************)
Over(s) == ~s.connected \/ s.sig = "closed"

Stage(s) ==
    IF Over(s) THEN "over"
    ELSE IF s.sig \in {"none", "stable"} THEN "idle"
    ELSE IF s.toClient # <<>> THEN "offered"
    ELSE IF s.answers > 0 THEN "answered" ELSE "stuck"

Unless(s, set) == IF Over(s) THEN {} ELSE set

=============================================================================
