------------------------------ MODULE SfuRoom ------------------------------
(***************************************************************************)
(* One room of the selective forwarding unit: internal/sfu/room.go and     *)
(* internal/sfu/peer.go, with the lifecycle ServeWS gives every websocket  *)
(* session (internal/signaling/client.go).                                 *)
(*                                                                         *)
(* Goroutines and where they interleave:                                   *)
(*  - the session goroutine of a client p: Room.AddPeer, then the read     *)
(*    loop, then Room.RemovePeer.  Its program counter is phase[p].        *)
(*  - one goroutine per incoming track t, started by pion's OnTrack:       *)
(*    handleIncomingTrack.  Its program counter is trackState[t].          *)
(*  - the clients, at the other end of the websocket.                      *)
(* A section under Room.mu, Peer.subMu or Peer.pubMu is one action.  The   *)
(* loops of AddPeer, RemovePeer and fanoutNewTrack take their snapshot     *)
(* under Room.mu and release it, so every iteration is an action.          *)
(***************************************************************************)
EXTENDS Subscriber

CONSTANT NoPeer   \* no object: an absent key of Room.peers

ASSUME NoPeerAssumption == NoPeer \notin Peer

(***************************************************************************)
(* What ServeWS guarantees in open mode, where every session gets a fresh  *)
(* UUID: identifiers are not shared and none is a prefix of another.  With *)
(* room tokens the client (or the token's subject) chooses the identifier. *)
(***************************************************************************)
UniqueIds == /\ \A p, q \in Peer : IdOf[p] = IdOf[q] => p = q
             /\ \A i \in PeerId : KeyPrefix[i] = {i}

VARIABLES
    roomPeers,   \* Room.peers
    phase,       \* per session: where its goroutine is
    victim,      \* per session: the object RemovePeer took out of the map
    todo,        \* per session: the rest of `existing` (AddPeer) or of
                 \*   `others` (RemovePeer)
    joinTracks,  \* per session: the rest of the PublishedTracks() copy that
                 \*   the inner loop of AddPeer ranges over
    pubReady,    \* per object: its publisher connection is negotiated
    closed,      \* per object: Peer.closed
    trackState,  \* per track: where its handleIncomingTrack is
    fanTodo,     \* per track: the rest of `others` in fanoutNewTrack
    sub          \* per object: its subscriber connection, see Subscriber

sessionVars == <<phase, victim, todo, joinTracks>>
trackVars   == <<trackState, fanTodo>>
vars == <<roomPeers, sessionVars, pubReady, closed, trackVars, sub>>

-----------------------------------------------------------------------------
\* Mutant of Members: RemovePeer leaves a nil entry in the map.
MembersAndNil == {roomPeers[i] : i \in PeerId}

\* Every peer object in the map.
Members == {roomPeers[i] : i \in PeerId} \ {NoPeer}

\* Mutant of PublishedTracks: the track is appended after its fan-out.
FannedOutTracks(q) == {t \in Track : Owner[t] = q /\ trackState[t] = "forwarding"}

\* Peer.PublishedTracks: handleIncomingTrack has appended the track; nothing
\* ever takes it off the list again.
PublishedTracks(q) ==
    {t \in Track : /\ Owner[t] = q
                   /\ trackState[t] \in {"published", "fanning", "forwarding"}}

Init ==
    /\ roomPeers  = [i \in PeerId |-> NoPeer]
    /\ phase      = [p \in Peer |-> "new"]
    /\ victim     = [p \in Peer |-> NoPeer]
    /\ todo       = [p \in Peer |-> {}]
    /\ joinTracks = [p \in Peer |-> {}]
    /\ pubReady   = [p \in Peer |-> FALSE]
    /\ closed     = [p \in Peer |-> FALSE]
    /\ trackState = [t \in Track |-> "absent"]
    /\ fanTodo    = [t \in Track |-> {}]
    /\ sub        = [p \in Peer |-> InitSub]

-----------------------------------------------------------------------------
(* Room.AddPeer, on the session goroutine. *)

\* The section under Room.mu: copy the members, then store the new peer.
AddPeer(p) ==
    /\ phase[p] = "new"
    /\ todo' = [todo EXCEPT ![p] = Members]
    /\ roomPeers' = [roomPeers EXCEPT ![IdOf[p]] = p]
    /\ phase' = [phase EXCEPT ![p] = "joining"]
    /\ UNCHANGED <<victim, joinTracks, pubReady, closed, trackVars, sub>>

\* Outer loop: copy the tracks of the next existing peer.
JoinNext(p) ==
    /\ phase[p] = "joining" /\ joinTracks[p] = {}
    /\ \E other \in todo[p] :
          /\ todo' = [todo EXCEPT ![p] = @ \ {other}]
          /\ joinTracks' = [joinTracks EXCEPT ![p] = PublishedTracks(other)]
    /\ UNCHANGED <<roomPeers, phase, victim, pubReady, closed, trackVars, sub>>

\* Inner loop: subscribe the new peer to one of them.
JoinSubscribe(p) ==
    /\ phase[p] = "joining"
    /\ \E t \in joinTracks[p] :
          /\ joinTracks' = [joinTracks EXCEPT ![p] = @ \ {t}]
          /\ \E s \in Subscribe(sub[p], t, "join", closed[p]) :
                sub' = [sub EXCEPT ![p] = s]
    /\ UNCHANGED <<roomPeers, phase, victim, todo, pubReady, closed, trackVars>>

\* OnPeerJoin returns; ServeWS starts the write pump and the read loop.
JoinDone(p) ==
    /\ phase[p] = "joining" /\ todo[p] = {} /\ joinTracks[p] = {}
    /\ phase' = [phase EXCEPT ![p] = "live"]
    /\ UNCHANGED <<roomPeers, victim, todo, joinTracks, pubReady, closed,
                   trackVars, sub>>

-----------------------------------------------------------------------------
(* The read loop of a session: Room.HandleMessage looks the peer up by its *)
(* id, so the message goes to the object the map holds now.                *)

Reading(p) == phase[p] = "live" /\ sub[p].connected

\* handlePubOffer; when pion refuses the offer nothing changes.
HandlePubOffer(p) ==
    LET target == roomPeers[IdOf[p]]
    IN  /\ Reading(p) /\ target # NoPeer
        /\ pubReady' = [pubReady EXCEPT ![target] = TRUE]
        /\ UNCHANGED <<roomPeers, sessionVars, closed, trackVars, sub>>

\* The client applies the next sub-offer and answers it (the write pump
\* delivers nothing before the session is live).
ClientAnswer(p) ==
    /\ Reading(p) /\ sub[p].toClient # <<>>
    /\ sub' = [sub EXCEPT ![p] = Apply(@)]
    /\ UNCHANGED <<roomPeers, sessionVars, pubReady, closed, trackVars>>

\* The lookup and handleSubAnswer are one action: in between, only p's own
\* session goroutine or a session with the same id could change the map.
HandleSubAnswer(p) ==
    /\ Reading(p) /\ sub[p].answers > 0
    /\ LET read   == [sub EXCEPT ![p].answers = @ - 1]
           target == roomPeers[IdOf[p]]
       IN  IF target = NoPeer
           THEN sub' = read
           ELSE \E s \in Answer(read[target]) :
                   sub' = [read EXCEPT ![target] = s]
    /\ UNCHANGED <<roomPeers, sessionVars, pubReady, closed, trackVars>>

\* The client leaves, or the network fails.
Disconnect(p) ==
    /\ phase[p] \in {"joining", "live"} /\ sub[p].connected
    /\ sub' = [sub EXCEPT ![p] = HangUp(@)]
    /\ UNCHANGED <<roomPeers, sessionVars, pubReady, closed, trackVars>>

-----------------------------------------------------------------------------
(* handleIncomingTrack, on the goroutine pion starts for the track. *)

\* External: the first packet of the track arrives, pion calls OnTrack.
DispatchTrack(t) ==
    /\ trackState[t] = "absent"
    /\ pubReady[Owner[t]] /\ ~closed[Owner[t]]
    /\ trackState' = [trackState EXCEPT ![t] = "dispatched"]
    /\ UNCHANGED <<roomPeers, sessionVars, pubReady, closed, fanTodo, sub>>

\* Under pubMu: append to publishedTracks.
PublishTrack(t) ==
    /\ trackState[t] = "dispatched"
    /\ trackState' = [trackState EXCEPT ![t] = "published"]
    /\ UNCHANGED <<roomPeers, sessionVars, pubReady, closed, fanTodo, sub>>

\* Mutant of FanoutSnapshot: peers that are still joining are passed over.
FanoutSnapshotLive(t) ==
    /\ trackState[t] = "published"
    /\ trackState' = [trackState EXCEPT ![t] = "fanning"]
    /\ fanTodo' = [fanTodo EXCEPT
                     ![t] = {p \in Members : /\ IdOf[p] # IdOf[Owner[t]]
                                            /\ phase[p] = "live"}]
    /\ UNCHANGED <<roomPeers, sessionVars, pubReady, closed, sub>>

\* fanoutNewTrack, under Room.mu: every member with another id.
FanoutSnapshot(t) ==
    /\ trackState[t] = "published"
    /\ trackState' = [trackState EXCEPT ![t] = "fanning"]
    /\ fanTodo' = [fanTodo EXCEPT
                     ![t] = {p \in Members : IdOf[p] # IdOf[Owner[t]]}]
    /\ UNCHANGED <<roomPeers, sessionVars, pubReady, closed, sub>>

FanoutTo(t) ==
    /\ trackState[t] = "fanning"
    /\ \E p \in fanTodo[t] :
          /\ fanTodo' = [fanTodo EXCEPT ![t] = @ \ {p}]
          /\ \E s \in Subscribe(sub[p], t, "fanout", closed[p]) :
                sub' = [sub EXCEPT ![p] = s]
    /\ UNCHANGED <<roomPeers, sessionVars, pubReady, closed, trackState>>

\* The RTP forwarding loop starts.
FanoutDone(t) ==
    /\ trackState[t] = "fanning" /\ fanTodo[t] = {}
    /\ trackState' = [trackState EXCEPT ![t] = "forwarding"]
    /\ UNCHANGED <<roomPeers, sessionVars, pubReady, closed, fanTodo, sub>>

-----------------------------------------------------------------------------
(* Room.RemovePeer, deferred by ServeWS until the read loop has returned. *)

\* The section under Room.mu; nothing to do if the id is not in the map.
LeaveRemove(p) ==
    /\ phase[p] = "live" /\ ~sub[p].connected
    /\ IF roomPeers[IdOf[p]] = NoPeer
       THEN /\ phase' = [phase EXCEPT ![p] = "gone"]
            /\ UNCHANGED <<roomPeers, victim, todo>>
       ELSE /\ phase' = [phase EXCEPT ![p] = "closing"]
            /\ victim' = [victim EXCEPT ![p] = roomPeers[IdOf[p]]]
            /\ roomPeers' = [roomPeers EXCEPT ![IdOf[p]] = NoPeer]
            /\ todo' = [todo EXCEPT ![p] = Members \ {roomPeers[IdOf[p]]}]
    /\ UNCHANGED <<joinTracks, pubReady, closed, trackVars, sub>>

\* Close: first the flag ...
CloseFlag(p) ==
    /\ phase[p] = "closing"
    /\ closed' = [closed EXCEPT ![victim[p]] = TRUE]
    /\ phase' = [phase EXCEPT ![p] = "closingSub"]
    /\ UNCHANGED <<roomPeers, victim, todo, joinTracks, pubReady, trackVars, sub>>

\* ... then, under subMu, the subscriber connection.
CloseSub(p) ==
    /\ phase[p] = "closingSub"
    /\ sub' = [sub EXCEPT ![victim[p]] = Shut(@)]
    /\ phase' = [phase EXCEPT ![p] = "unsubscribing"]
    /\ UNCHANGED <<roomPeers, victim, todo, joinTracks, pubReady, closed,
                   trackVars>>

\* Mutant of LeaveUnsubscribe: waits for a peer that is itself closing.
LeaveUnsubscribeWaits(p) ==
    /\ phase[p] = "unsubscribing"
    /\ \E other \in todo[p] :
          /\ ~closed[other]
          /\ todo' = [todo EXCEPT ![p] = @ \ {other}]
          /\ \E s \in Unsubscribe(sub[other], IdOf[p]) :
                sub' = [sub EXCEPT ![other] = s]
    /\ UNCHANGED <<roomPeers, phase, victim, joinTracks, pubReady, closed,
                   trackVars>>

\* The rest of the loop: take the leaver's tracks from every other member.
LeaveUnsubscribe(p) ==
    /\ phase[p] = "unsubscribing"
    /\ \E other \in todo[p] :
          /\ todo' = [todo EXCEPT ![p] = @ \ {other}]
          /\ \E s \in Unsubscribe(sub[other], IdOf[p]) :
                sub' = [sub EXCEPT ![other] = s]
    /\ UNCHANGED <<roomPeers, phase, victim, joinTracks, pubReady, closed,
                   trackVars>>

LeaveDone(p) ==
    /\ phase[p] = "unsubscribing" /\ todo[p] = {}
    /\ phase' = [phase EXCEPT ![p] = "gone"]
    /\ UNCHANGED <<roomPeers, victim, todo, joinTracks, pubReady, closed,
                   trackVars, sub>>

-----------------------------------------------------------------------------
\* Every session is over and no fan-out is under way: the room may stop.
Finished ==
    /\ \A p \in Peer : phase[p] = "gone"
    /\ \A t \in Track : trackState[t] \in {"absent", "forwarding"}
    /\ UNCHANGED vars

SessionStep(p) ==
    \/ AddPeer(p) \/ JoinNext(p) \/ JoinSubscribe(p) \/ JoinDone(p)
    \/ HandlePubOffer(p) \/ ClientAnswer(p) \/ HandleSubAnswer(p)
    \/ Disconnect(p)
    \/ LeaveRemove(p) \/ CloseFlag(p) \/ CloseSub(p)
    \/ LeaveUnsubscribe(p) \/ LeaveDone(p)

TrackStep(t) ==
    \/ DispatchTrack(t) \/ PublishTrack(t) \/ FanoutSnapshot(t)
    \/ FanoutTo(t) \/ FanoutDone(t)

Next == \/ \E p \in Peer : SessionStep(p)
        \/ \E t \in Track : TrackStep(t)
        \/ Finished

Spec == Init /\ [][Next]_vars

(***************************************************************************)
(* What the code's scheduling justifies: a goroutine that can run runs,    *)
(* and a connected client answers an offer.  Nothing is assumed of clients *)
(* that join, publish or leave.                                            *)
(***************************************************************************)
Fairness ==
    /\ \A p \in Peer :
          WF_vars(\/ JoinNext(p) \/ JoinSubscribe(p) \/ JoinDone(p)
                  \/ LeaveRemove(p) \/ CloseFlag(p) \/ CloseSub(p)
                  \/ LeaveUnsubscribe(p) \/ LeaveDone(p))
    /\ \A p \in Peer : WF_vars(ClientAnswer(p)) /\ WF_vars(HandleSubAnswer(p))
    /\ \A t \in Track :
          WF_vars(PublishTrack(t) \/ FanoutSnapshot(t) \/ FanoutTo(t)
                  \/ FanoutDone(t))

LiveSpec == Spec /\ Fairness

-----------------------------------------------------------------------------
(* Properties. *)

Phase == {"new", "joining", "live", "closing", "closingSub", "unsubscribing",
          "gone"}

TypeOK ==
    /\ roomPeers  \in [PeerId -> Peer \cup {NoPeer}]
    /\ phase      \in [Peer -> Phase]
    /\ victim     \in [Peer -> Peer \cup {NoPeer}]
    /\ todo       \in [Peer -> SUBSET Peer]
    /\ joinTracks \in [Peer -> SUBSET Track]
    /\ pubReady   \in [Peer -> BOOLEAN]
    /\ closed     \in [Peer -> BOOLEAN]
    /\ trackState \in [Track -> {"absent", "dispatched", "published",
                                 "fanning", "forwarding"}]
    /\ fanTodo    \in [Track -> SUBSET Peer]
    /\ sub        \in [Peer -> SubState]

(***************************************************************************)
(* Negotiation of the subscriber connection (renegotiateSubscriberLocked,  *)
(* handleSubAnswer).                                                       *)
(***************************************************************************)

\* At most one sub-offer or its answer is under way, and only while the
\* server waits for it: the client never gets an offer it must roll back.
OneOutstandingOffer ==
    \A p \in Peer :
        /\ Len(sub[p].toClient) + sub[p].answers <= 1
        /\ sub[p].sig \in {"none", "stable"} =>
              sub[p].toClient = <<>> /\ sub[p].answers = 0

\* A change made while an offer was outstanding is remembered, and when the
\* exchange is over the client receives exactly the senders that the server
\* sends: no change is lost between subNeedsOffer and the next offer.
NoLostChange ==
    \A p \in Peer :
        LET s == sub[p]
        IN  /\ s.sig = "have-local-offer" /\ s.offered # s.senders
                => s.needsOffer
            /\ s.sig = "stable" /\ s.connected /\ ~s.faulted
                => s.view = s.senders

(***************************************************************************)
(* AddPeer and fanoutNewTrack race for every pair of a joining peer and a  *)
(* new track, each with a snapshot taken before the other's lock.          *)
(***************************************************************************)
HasTrack(p, t) == \E x \in sub[p].senders : x.track = t

\* A track that is being forwarded reaches every member that has joined,
\* whichever of the two loops was the one to see it.
FullMesh ==
    \A p \in Members, t \in Track :
        /\ phase[p] = "live" /\ ~sub[p].faulted
        /\ trackState[t] = "forwarding"
        /\ Owner[t] \in Members \ {p}
        => HasTrack(p, t)

\* A member keeps receiving the tracks of the other members: senders are
\* taken from it only for peers that have left the map.
KeepsMembersTracks ==
    [][\A p \in Peer : \A x \in sub[p].senders \ sub'[p].senders :
          Owner[x.track] \notin Members']_vars

(***************************************************************************)
(* RemovePeer: "tears down the peer's PCs and removes its tracks from      *)
(* every other peer's subscriber PC" (room.go:64).                         *)
(***************************************************************************)

\* When the session of p is over the connection of its own peer object is
\* closed for good, and none is opened by a call that was already under way.
LeaverTornDown ==
    \A p \in Peer :
        phase[p] = "gone" => closed[p] /\ sub[p].sig \in {"none", "closed"}

\* "removes every track owned by `publisherID`" (peer.go:284): of the leaver
\* the call leaves the other peer nothing but a sender that a second
\* subscription to the same track, by the other loop, has pushed out of the
\* map; the one that replaced it is removed.
RemoveLeavesOnlyDuplicates ==
    [][\A p \in Peer : phase[p] = "unsubscribing" =>
          \A other \in todo[p] \ todo'[p] :
              \A x \in sub'[other].senders :
                  \/ sub'[other].sig = "closed"
                  \/ IdOf[Owner[x.track]] # IdOf[p]
                  \/ /\ x \notin sub[other].mapped
                     /\ \E y \in sub[other].mapped \ sub'[other].mapped :
                            y.track = x.track
      ]_vars

Quiet == /\ \A p \in Peer : phase[p] \in {"new", "live", "gone"}
         /\ \A t \in Track : trackState[t] \in {"absent", "forwarding"}

\* With nobody joining, leaving or publishing, no member is still subscribed
\* to a track of a peer that has left.
NoGhostTrack ==
    Quiet => \A p \in Members : \A x \in sub[p].mapped :
                Owner[x.track] \in Members

(***************************************************************************)
(* Every subscriber connection implements Negotiation, as long as its      *)
(* client is there and its peer object is not closed.                      *)
(***************************************************************************)
Negotiating(p) == INSTANCE Negotiation WITH
    Item   <- Sender,
    want   <- Unless(sub[p], sub[p].senders),
    offer  <- Unless(sub[p], sub[p].offered),
    have   <- Unless(sub[p], sub[p].view),
    stage  <- Stage(sub[p]),
    failed <- Over(sub[p]) \/ sub[p].faulted

\* Whatever loops subscribe and unsubscribe a peer at the same time, and
\* however pion calls fail, its client sees the promised negotiation.  (This
\* is \A p \in Peer : Negotiating(p)!Spec, in a form that TLC can check.)
NegotiationImplemented ==
    /\ \A p \in Peer : Negotiating(p)!Init
    /\ [][\A p \in Peer :
             [Negotiating(p)!Next]_(Negotiating(p)!vars)]_vars

(***************************************************************************)
(* The inductive invariant behind the safety properties, for UniqueIds.    *)
(***************************************************************************)

\* The map holds exactly the objects whose session is between the two
\* sections under Room.mu, each under its own identifier.
MapInv ==
    \A i \in PeerId, p \in Peer :
        roomPeers[i] = p <=> IdOf[p] = i /\ phase[p] \in {"joining", "live"}

\* A session closes its own object, and closes it before it goes on.
CloseInv ==
    \A p \in Peer :
        /\ phase[p] \in {"closing", "closingSub", "unsubscribing"}
              => victim[p] = p
        /\ closed[p] <=> phase[p] \in {"closingSub", "unsubscribing", "gone"}
        /\ phase[p] \in {"unsubscribing", "gone"}
              => sub[p].sig \in {"none", "closed"}

\* Tracks come only from objects whose session has been live; a finished
\* fan-out has nobody left.
TrackInv ==
    /\ \A p \in Peer : pubReady[p] => phase[p] \notin {"new", "joining"}
    /\ \A t \in Track :
          /\ trackState[t] # "absent" => pubReady[Owner[t]]
          /\ trackState[t] = "forwarding" => fanTodo[t] = {}

\* While both are members, a track that is past its snapshot has been given
\* to the other peer, or one of the two loops still has it to give.
MeshInv ==
    \A p \in Peer, t \in Track :
        /\ p # Owner[t]
        /\ phase[p] \in {"joining", "live"}
        /\ phase[Owner[t]] \in {"joining", "live"}
        /\ trackState[t] \in {"fanning", "forwarding"}
        /\ ~sub[p].faulted
        => \/ HasTrack(p, t)
           \/ p \in fanTodo[t]
           \/ phase[p] = "joining" /\ (Owner[t] \in todo[p] \/ t \in joinTracks[p])

\* Each negotiation is in a consistent state (SubInv, module Subscriber).
NegotiationInv == \A p \in Peer : SubInv(sub[p])

RoomInv == TypeOK /\ MapInv /\ CloseInv /\ TrackInv /\ MeshInv /\ NegotiationInv

\* Every sender has an entry of subscribedSenders for its track, its own or
\* that of the one that replaced it, until RemovePeer of the track's owner has
\* been at this peer.
SenderInv ==
    \A p \in Peer : \A x \in sub[p].senders :
        \/ sub[p].sig = "closed"
        \/ \E y \in sub[p].mapped : y.track = x.track
        \/ /\ phase[Owner[x.track]] \in {"unsubscribing", "gone"}
           /\ p \notin todo[Owner[x.track]]

IndInv == RoomInv /\ SenderInv

(***************************************************************************)
(* Liveness, under LiveSpec.                                               *)
(***************************************************************************)

\* A connected client catches up with the senders of its peer object, unless
\* a pion call has failed for it: after that the code may make no other offer.
ClientConverges ==
    \A p \in Peer :
        (phase[p] = "live" /\ sub[p].view # sub[p].senders) ~>
            \/ sub[p].view = sub[p].senders
            \/ ~sub[p].connected \/ sub[p].faulted

\* A session whose websocket is gone is removed from the room.
LeaverGoes ==
    \A p \in Peer :
        (phase[p] # "new" /\ ~sub[p].connected) ~> phase[p] = "gone"

=============================================================================
