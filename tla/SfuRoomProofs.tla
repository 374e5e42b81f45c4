--------------------------- MODULE SfuRoomProofs ---------------------------
(***************************************************************************)
(* The safety of SfuRoom for every number of sessions, every set of tracks *)
(* and every combination of faults, when sessions have identifiers of      *)
(* their own (UniqueIds).  RoomInv is inductive by itself, with one lemma  *)
(* per action and one step per conjunct the action can disturb; SenderInv  *)
(* is kept where RoomInv holds.  The last part maps every step to one of   *)
(* Negotiation or to a stutter.                                            *)
(***************************************************************************)
EXTENDS SfuRoom, SubscriberProofs

USE PeersAssumption, TracksAssumption, NoPeerAssumption
USE DEF sessionVars, trackVars

Present(p) == phase[p] \in {"joining", "live"}

\* Room.peers holds the present sessions and nothing else.
LEMMA MembersArePresent ==
  ASSUME UniqueIds, TypeOK, MapInv
  PROVE  Members = {p \in Peer : Present(p)}
<1>1. ASSUME NEW p \in Members PROVE p \in Peer /\ Present(p)
  <2>1. PICK i \in PeerId : p = roomPeers[i]
    BY DEF Members
  <2>2. p \in Peer
    BY <2>1 DEF Members, TypeOK
  <2> QED
    BY <2>1, <2>2 DEF MapInv, Present
<1>2. ASSUME NEW p \in Peer, Present(p) PROVE p \in Members
  <2>1. IdOf[p] \in PeerId /\ roomPeers[IdOf[p]] = p
    BY <1>2 DEF MapInv, Present
  <2> QED
    BY <2>1 DEF Members
<1> QED
  BY <1>1, <1>2

LEMMA MembersArePresentNext ==
  ASSUME UniqueIds, RoomInv' PROVE Members' = {p \in Peer : Present(p)'}
<1>1. ASSUME NEW p \in Members' PROVE p \in Peer /\ Present(p)'
  <2>1. PICK i \in PeerId : p = roomPeers'[i] /\ p # NoPeer
    BY DEF Members
  <2>2. p \in Peer
    BY <2>1 DEF RoomInv, TypeOK
  <2> QED
    BY <2>1, <2>2 DEF RoomInv, MapInv, Present
<1>2. ASSUME NEW p \in Peer, Present(p)' PROVE p \in Members'
  <2>1. IdOf[p] \in PeerId /\ roomPeers'[IdOf[p]] = p
    BY <1>2 DEF RoomInv, MapInv, Present
  <2> QED
    BY <2>1 DEF Members
<1> QED
  BY <1>1, <1>2

LEMMA InitInd == Init => RoomInv
<1> SUFFICES ASSUME Init PROVE RoomInv
  OBVIOUS
<1>1. InitSub \in SubState /\ SubInv(InitSub)
  BY InitSubGood
<1>2. TypeOK
  BY <1>1 DEF Init, TypeOK, Phase
<1>3. MapInv
  BY DEF Init, MapInv
<1>4. CloseInv
  BY DEF Init, CloseInv
<1>5. TrackInv
  BY DEF Init, TrackInv
<1>6. MeshInv
  BY DEF Init, MeshInv
<1>7. NegotiationInv
  BY <1>1 DEF Init, NegotiationInv
<1> QED
  BY <1>2, <1>3, <1>4, <1>5, <1>6, <1>7 DEF RoomInv

(***************************************************************************)
(* The actions that change one connection and no program counter of a      *)
(* session: what is left to show of them is MeshInv.                       *)
(***************************************************************************)
LEMMA OneConnection ==
  ASSUME RoomInv, NEW x \in Peer, NEW r \in SubState, SubInv(r),
         sub' = [sub EXCEPT ![x] = r],
         UNCHANGED <<roomPeers, phase, victim, closed>>,
         ~closed[x] \/ (sub[x].sig \in {"none", "closed"} => r.sig \in {"none", "closed"})
  PROVE  /\ sub' \in [Peer -> SubState]
         /\ MapInv' /\ CloseInv' /\ NegotiationInv'
<1> USE DEF RoomInv
<1>1. sub' \in [Peer -> SubState]
  BY DEF TypeOK
<1>2. \A p \in Peer : sub'[p] = IF p = x THEN r ELSE sub[p]
  BY DEF TypeOK
<1>3. MapInv'
  BY DEF MapInv
<1>4. CloseInv'
  BY <1>2 DEF CloseInv
<1>5. NegotiationInv'
  BY <1>2 DEF NegotiationInv
<1> QED
  BY <1>1, <1>3, <1>4, <1>5

\* MeshInv when a connection loses no sender and no loop forgets a peer.
LEMMA MeshKept ==
  ASSUME TypeOK, MeshInv, NEW x \in Peer, NEW r \in SubState,
         sub' = [sub EXCEPT ![x] = r],
         sub[x].senders \subseteq r.senders, sub[x].faulted => r.faulted,
         UNCHANGED <<phase, trackState, todo, joinTracks, fanTodo>>
  PROVE  MeshInv'
<1>1. \A p \in Peer : /\ sub[p].senders \subseteq sub'[p].senders
                      /\ sub[p].faulted => sub'[p].faulted
  BY DEF TypeOK
<1>2. \A p \in Peer, t \in Track : HasTrack(p, t) => HasTrack(p, t)'
  BY <1>1 DEF HasTrack
<1> QED
  BY <1>1, <1>2 DEF MeshInv

-----------------------------------------------------------------------------
LEMMA AddPeerKeeps ==
  ASSUME UniqueIds, RoomInv, NEW p \in Peer, AddPeer(p) PROVE RoomInv'
<1> USE DEF RoomInv, AddPeer
<1>1. Members = {q \in Peer : Present(q)}
  BY MembersArePresent
<1>2. TypeOK'
  BY <1>1 DEF TypeOK, Phase
<1>3. MapInv'
  BY DEF MapInv, TypeOK, UniqueIds
<1>4. CloseInv'
  BY DEF CloseInv, TypeOK
<1>5. TrackInv'
  BY DEF TrackInv, TypeOK
<1>6. MeshInv'
  <2> SUFFICES ASSUME NEW q \in Peer, NEW t \in Track,
                      q # Owner[t], Present(q)', Present(Owner[t])',
                      trackState[t] \in {"fanning", "forwarding"},
                      ~sub[q].faulted
               PROVE  (\/ HasTrack(q, t)
                       \/ q \in fanTodo[t]
                       \/ phase[q] = "joining" /\ (Owner[t] \in todo[q] \/ t \in joinTracks[q]))'
    BY DEF MeshInv, Present
  <2>1. Owner[t] \in Peer /\ Owner[t] # p
    BY DEF TrackInv
  <2>2. Present(Owner[t])
    BY <2>1 DEF Present, TypeOK
  <2>3. CASE q = p
    BY <1>1, <2>1, <2>2, <2>3 DEF TypeOK
  <2>4. CASE q # p
    BY <2>1, <2>2, <2>4 DEF MeshInv, TypeOK, Present, HasTrack
  <2> QED
    BY <2>3, <2>4
<1>7. NegotiationInv'
  BY DEF NegotiationInv
<1> QED
  BY <1>2, <1>3, <1>4, <1>5, <1>6, <1>7

LEMMA JoinNextKeeps ==
  ASSUME RoomInv, NEW p \in Peer, JoinNext(p) PROVE RoomInv'
<1> USE DEF RoomInv, JoinNext
<1>1. PICK other \in todo[p] :
        /\ todo' = [todo EXCEPT ![p] = todo[p] \ {other}]
        /\ joinTracks' = [joinTracks EXCEPT ![p] = PublishedTracks(other)]
  BY DEF TypeOK
<1>2. TypeOK'
  BY <1>1 DEF TypeOK, PublishedTracks
<1>3. MapInv' /\ CloseInv' /\ TrackInv' /\ NegotiationInv'
  BY DEF MapInv, CloseInv, TrackInv, NegotiationInv
<1>4. MeshInv'
  <2>1. \A t \in Track : /\ trackState[t] \in {"fanning", "forwarding"}
                         /\ Owner[t] \in todo[p]
                         => Owner[t] \in todo'[p] \/ t \in joinTracks'[p]
    BY <1>1 DEF TypeOK, PublishedTracks
  <2>2. \A q \in Peer : q # p => todo'[q] = todo[q] /\ joinTracks'[q] = joinTracks[q]
    BY <1>1 DEF TypeOK
  <2> QED
    BY <2>1, <2>2 DEF MeshInv, HasTrack
<1> QED
  BY <1>2, <1>3, <1>4

LEMMA JoinSubscribeKeeps ==
  ASSUME RoomInv, NEW p \in Peer, JoinSubscribe(p) PROVE RoomInv'
<1> USE DEF RoomInv, JoinSubscribe
<1>1. PICK t \in joinTracks[p] :
        /\ joinTracks' = [joinTracks EXCEPT ![p] = joinTracks[p] \ {t}]
        /\ \E s \in Subscribe(sub[p], t, "join", closed[p]) :
              sub' = [sub EXCEPT ![p] = s]
  BY DEF TypeOK
<1>2. PICK r \in Subscribe(sub[p], t, "join", closed[p]) :
        sub' = [sub EXCEPT ![p] = r]
  BY <1>1
<1>3. /\ t \in Track /\ sub[p] \in SubState /\ SubInv(sub[p])
      /\ closed[p] \in BOOLEAN /\ ~closed[p]
  BY DEF TypeOK, NegotiationInv, CloseInv
<1>4. /\ r \in SubState /\ SubInv(r) /\ sub[p].senders \subseteq r.senders
      /\ sub[p].faulted => r.faulted
      /\ r.faulted \/ \E x \in r.senders : x.track = t
  BY <1>2, <1>3, SubscribeGood
<1>5. sub' \in [Peer -> SubState] /\ MapInv' /\ CloseInv' /\ NegotiationInv'
  BY <1>2, <1>3, <1>4, OneConnection
<1>6. TypeOK'
  BY <1>1, <1>5 DEF TypeOK
<1>7. TrackInv'
  BY DEF TrackInv
<1>8. MeshInv'
  <2>1. /\ sub'[p] = r
        /\ \A q \in Peer : q # p => sub'[q] = sub[q] /\ joinTracks'[q] = joinTracks[q]
    BY <1>1, <1>2 DEF TypeOK
  <2>2. joinTracks'[p] = joinTracks[p] \ {t}
    BY <1>1 DEF TypeOK
  <2> QED
    BY <1>4, <2>1, <2>2 DEF MeshInv, HasTrack
<1> QED
  BY <1>5, <1>6, <1>7, <1>8

LEMMA JoinDoneKeeps ==
  ASSUME RoomInv, NEW p \in Peer, JoinDone(p) PROVE RoomInv'
<1> USE DEF RoomInv, JoinDone
<1>1. TypeOK'
  BY DEF TypeOK, Phase
<1>2. MapInv'
  BY DEF MapInv, TypeOK
<1>3. CloseInv'
  BY DEF CloseInv, TypeOK
<1>4. TrackInv'
  BY DEF TrackInv, TypeOK
<1>5. MeshInv'
  <2>1. \A q \in Peer : /\ q # p => phase'[q] = phase[q]
                        /\ phase'[q] \in {"joining", "live"} => phase[q] \in {"joining", "live"}
    BY DEF TypeOK
  <2> QED
    BY <2>1 DEF MeshInv, HasTrack
<1>6. NegotiationInv'
  BY DEF NegotiationInv
<1> QED
  BY <1>1, <1>2, <1>3, <1>4, <1>5, <1>6

-----------------------------------------------------------------------------
\* A reading session is in the map, so the lookup finds its own object.
LEMMA TargetIsOwn ==
  ASSUME RoomInv, NEW p \in Peer, Reading(p) PROVE roomPeers[IdOf[p]] = p /\ ~closed[p]
  BY DEF RoomInv, Reading, MapInv, CloseInv

LEMMA HandlePubOfferKeeps ==
  ASSUME RoomInv, NEW p \in Peer, HandlePubOffer(p) PROVE RoomInv'
<1> USE DEF RoomInv, HandlePubOffer
<1>1. roomPeers[IdOf[p]] = p /\ phase[p] = "live"
  BY TargetIsOwn DEF Reading
<1>2. pubReady' = [pubReady EXCEPT ![p] = TRUE]
  BY <1>1
<1>3. TypeOK'
  BY <1>2 DEF TypeOK
<1>4. MapInv' /\ CloseInv' /\ NegotiationInv'
  BY DEF MapInv, CloseInv, NegotiationInv
<1>5. TrackInv'
  BY <1>1, <1>2 DEF TrackInv, TypeOK
<1>6. MeshInv'
  BY DEF MeshInv, HasTrack
<1> QED
  BY <1>3, <1>4, <1>5, <1>6

\* ClientAnswer, HandleSubAnswer and Disconnect.
LEMMA ConnectionStepKeeps ==
  ASSUME RoomInv, NEW p \in Peer, NEW r \in SubState, SubInv(r),
         sub' = [sub EXCEPT ![p] = r],
         UNCHANGED <<roomPeers, sessionVars, pubReady, closed, trackVars>>,
         sub[p].senders \subseteq r.senders, sub[p].faulted => r.faulted,
         sub[p].sig \in {"none", "closed"} => r.sig \in {"none", "closed"}
  PROVE  RoomInv'
<1> USE DEF RoomInv
<1>1. sub' \in [Peer -> SubState] /\ MapInv' /\ CloseInv' /\ NegotiationInv'
  BY OneConnection
<1>2. TypeOK'
  BY <1>1 DEF TypeOK
<1>3. TrackInv'
  BY DEF TrackInv
<1>4. MeshInv'
  BY MeshKept
<1> QED
  BY <1>1, <1>2, <1>3, <1>4

LEMMA ClientAnswerKeeps ==
  ASSUME RoomInv, NEW p \in Peer, ClientAnswer(p) PROVE RoomInv'
<1>1. sub[p] \in SubState /\ SubInv(sub[p]) /\ sub[p].connected /\ sub[p].toClient # <<>>
  BY DEF RoomInv, TypeOK, NegotiationInv, ClientAnswer, Reading
<1>2. sub' = [sub EXCEPT ![p] = Apply(sub[p])]
  BY DEF ClientAnswer
<1>3. /\ Apply(sub[p]) \in SubState /\ SubInv(Apply(sub[p]))
      /\ Apply(sub[p]).senders = sub[p].senders /\ Apply(sub[p]).sig = sub[p].sig
      /\ Apply(sub[p]).faulted = sub[p].faulted
  BY <1>1, ApplyGood
<1> QED
  BY <1>2, <1>3, ConnectionStepKeeps DEF ClientAnswer

LEMMA DisconnectKeeps ==
  ASSUME RoomInv, NEW p \in Peer, Disconnect(p) PROVE RoomInv'
<1>1. sub[p] \in SubState /\ SubInv(sub[p])
  BY DEF RoomInv, TypeOK, NegotiationInv
<1>2. sub' = [sub EXCEPT ![p] = HangUp(sub[p])]
  BY DEF Disconnect
<1>3. /\ HangUp(sub[p]) \in SubState /\ SubInv(HangUp(sub[p]))
      /\ HangUp(sub[p]).senders = sub[p].senders /\ HangUp(sub[p]).sig = sub[p].sig
      /\ HangUp(sub[p]).faulted = sub[p].faulted
  BY <1>1, HangUpGood
<1> QED
  BY <1>2, <1>3, ConnectionStepKeeps DEF Disconnect

\* The answer reaches the connection of the session that sent it.
LEMMA SubAnswerOutcome ==
  ASSUME RoomInv, NEW p \in Peer, HandleSubAnswer(p)
  PROVE  \E r \in SubState :
           /\ sub' = [sub EXCEPT ![p] = r]
           /\ SubInv(r) /\ r.senders = sub[p].senders
           /\ sub[p].faulted => r.faulted
           /\ sub[p].sig \in {"none", "closed"} => r.sig \in {"none", "closed"}
<1> DEFINE s == sub[p]
           read == [s EXCEPT !.answers = s.answers - 1]
<1>1. /\ s \in SubState /\ SubInv(s) /\ s.answers > 0 /\ roomPeers[IdOf[p]] = p
      /\ sub \in [Peer -> SubState] /\ p # NoPeer
  BY TargetIsOwn DEF RoomInv, TypeOK, NegotiationInv, HandleSubAnswer
<1>2. [sub EXCEPT ![p].answers = @ - 1][p] = read
  BY <1>1
<1>3. PICK r \in Answer(read) :
        sub' = [[sub EXCEPT ![p].answers = @ - 1] EXCEPT ![p] = r]
  BY <1>1, <1>2 DEF HandleSubAnswer
<1>4. sub' = [sub EXCEPT ![p] = r]
  BY <1>1, <1>3
<1>5. /\ r \in SubState /\ SubInv(r) /\ r.senders = s.senders
      /\ s.faulted => r.faulted
      /\ s.sig \in {"none", "closed"} => r.sig \in {"none", "closed"}
  BY <1>1, <1>3, AnswerGood
<1> QED
  BY <1>4, <1>5

LEMMA HandleSubAnswerKeeps ==
  ASSUME RoomInv, NEW p \in Peer, HandleSubAnswer(p) PROVE RoomInv'
<1>1. PICK r \in SubState :
        /\ sub' = [sub EXCEPT ![p] = r]
        /\ SubInv(r) /\ r.senders = sub[p].senders
        /\ sub[p].faulted => r.faulted
        /\ sub[p].sig \in {"none", "closed"} => r.sig \in {"none", "closed"}
  BY SubAnswerOutcome
<1> QED
  BY <1>1, ConnectionStepKeeps DEF HandleSubAnswer

-----------------------------------------------------------------------------
LEMMA DispatchTrackKeeps ==
  ASSUME RoomInv, NEW t \in Track, DispatchTrack(t) PROVE RoomInv'
<1> USE DEF RoomInv, DispatchTrack
<1>1. TypeOK'
  BY DEF TypeOK
<1>2. MapInv' /\ CloseInv' /\ NegotiationInv'
  BY DEF MapInv, CloseInv, NegotiationInv
<1>3. TrackInv'
  BY DEF TrackInv, TypeOK
<1>4. MeshInv'
  BY DEF MeshInv, HasTrack, TypeOK
<1> QED
  BY <1>1, <1>2, <1>3, <1>4

LEMMA PublishTrackKeeps ==
  ASSUME RoomInv, NEW t \in Track, PublishTrack(t) PROVE RoomInv'
<1> USE DEF RoomInv, PublishTrack
<1>1. TypeOK'
  BY DEF TypeOK
<1>2. MapInv' /\ CloseInv' /\ NegotiationInv'
  BY DEF MapInv, CloseInv, NegotiationInv
<1>3. TrackInv'
  BY DEF TrackInv, TypeOK
<1>4. MeshInv'
  BY DEF MeshInv, HasTrack, TypeOK
<1> QED
  BY <1>1, <1>2, <1>3, <1>4

LEMMA FanoutSnapshotKeeps ==
  ASSUME UniqueIds, RoomInv, NEW t \in Track, FanoutSnapshot(t) PROVE RoomInv'
<1> USE DEF RoomInv, FanoutSnapshot
<1>1. Members = {q \in Peer : Present(q)}
  BY MembersArePresent
<1>2. fanTodo' = [fanTodo EXCEPT ![t] = {q \in Peer : Present(q) /\ q # Owner[t]}]
  <2>1. \A q \in Peer : IdOf[q] # IdOf[Owner[t]] <=> q # Owner[t]
    BY DEF UniqueIds
  <2>2. {q \in Members : IdOf[q] # IdOf[Owner[t]]} = {q \in Peer : Present(q) /\ q # Owner[t]}
    BY <1>1, <2>1
  <2> QED
    BY <2>2
<1>3. TypeOK'
  BY <1>2 DEF TypeOK
<1>4. MapInv' /\ CloseInv' /\ NegotiationInv'
  BY DEF MapInv, CloseInv, NegotiationInv
<1>5. TrackInv'
  BY DEF TrackInv, TypeOK
<1>6. MeshInv'
  <2>1. \A q \in Peer : Present(q) /\ q # Owner[t] => q \in fanTodo'[t]
    BY <1>2 DEF TypeOK
  <2>2. \A u \in Track : u # t => /\ fanTodo'[u] = fanTodo[u]
                                  /\ trackState'[u] = trackState[u]
    BY DEF TypeOK
  <2> QED
    BY <2>1, <2>2 DEF MeshInv, HasTrack, Present
<1> QED
  BY <1>3, <1>4, <1>5, <1>6

LEMMA FanoutToKeeps ==
  ASSUME RoomInv, NEW t \in Track, FanoutTo(t) PROVE RoomInv'
<1> USE DEF RoomInv, FanoutTo
<1>1. PICK p \in fanTodo[t] :
        /\ fanTodo' = [fanTodo EXCEPT ![t] = fanTodo[t] \ {p}]
        /\ \E s \in Subscribe(sub[p], t, "fanout", closed[p]) :
              sub' = [sub EXCEPT ![p] = s]
  BY DEF TypeOK
<1>2. PICK r \in Subscribe(sub[p], t, "fanout", closed[p]) :
        sub' = [sub EXCEPT ![p] = r]
  BY <1>1
<1>3. /\ p \in Peer /\ sub[p] \in SubState /\ SubInv(sub[p])
      /\ closed[p] \in BOOLEAN
  BY DEF TypeOK, NegotiationInv
<1>4. /\ r \in SubState /\ SubInv(r) /\ sub[p].senders \subseteq r.senders
      /\ sub[p].faulted => r.faulted
      /\ closed[p] => r = sub[p]
      /\ ~closed[p] => r.faulted \/ \E x \in r.senders : x.track = t
  BY <1>2, <1>3, SubscribeGood
<1>5. sub' \in [Peer -> SubState] /\ MapInv' /\ CloseInv' /\ NegotiationInv'
  BY <1>2, <1>3, <1>4, OneConnection
<1>6. TypeOK'
  BY <1>1, <1>5 DEF TypeOK
<1>7. TrackInv'
  BY <1>1 DEF TrackInv, TypeOK
<1>8. MeshInv'
  <2>1. sub'[p] = r /\ \A q \in Peer : q # p => sub'[q] = sub[q]
    BY <1>2, <1>3 DEF TypeOK
  <2>2. /\ fanTodo'[t] = fanTodo[t] \ {p}
        /\ \A u \in Track : u # t => fanTodo'[u] = fanTodo[u]
    BY <1>1 DEF TypeOK
  <2>3. phase[p] \in {"joining", "live"} => ~closed[p]
    BY <1>3 DEF CloseInv
  <2> QED
    BY <1>4, <2>1, <2>2, <2>3 DEF MeshInv, HasTrack
<1> QED
  BY <1>5, <1>6, <1>7, <1>8

LEMMA FanoutDoneKeeps ==
  ASSUME RoomInv, NEW t \in Track, FanoutDone(t) PROVE RoomInv'
<1> USE DEF RoomInv, FanoutDone
<1>1. TypeOK'
  BY DEF TypeOK
<1>2. MapInv' /\ CloseInv' /\ NegotiationInv'
  BY DEF MapInv, CloseInv, NegotiationInv
<1>3. TrackInv'
  BY DEF TrackInv, TypeOK
<1>4. MeshInv'
  BY DEF MeshInv, HasTrack, TypeOK
<1> QED
  BY <1>1, <1>2, <1>3, <1>4

-----------------------------------------------------------------------------
LEMMA LeaveRemoveKeeps ==
  ASSUME UniqueIds, RoomInv, NEW p \in Peer, LeaveRemove(p) PROVE RoomInv'
<1> USE DEF RoomInv, LeaveRemove
<1>1. roomPeers[IdOf[p]] = p /\ p # NoPeer /\ phase[p] = "live"
  BY DEF MapInv
<1>2. /\ phase' = [phase EXCEPT ![p] = "closing"]
      /\ victim' = [victim EXCEPT ![p] = p]
      /\ roomPeers' = [roomPeers EXCEPT ![IdOf[p]] = NoPeer]
      /\ todo' = [todo EXCEPT ![p] = Members \ {p}]
      /\ UNCHANGED <<joinTracks, pubReady, closed, trackVars, sub>>
  BY <1>1
<1>3. Members \subseteq Peer
  BY MembersArePresent
<1> HIDE DEF LeaveRemove
<1>4. TypeOK'
  BY <1>2, <1>3 DEF TypeOK, Phase
<1>5. MapInv'
  BY <1>1, <1>2 DEF MapInv, TypeOK, UniqueIds
<1>6. CloseInv'
  BY <1>1, <1>2 DEF CloseInv, TypeOK
<1>7. TrackInv'
  BY <1>2 DEF TrackInv, TypeOK
<1>8. MeshInv'
  <2>1. /\ phase'[p] = "closing"
        /\ \A q \in Peer : q # p => phase'[q] = phase[q] /\ todo'[q] = todo[q]
    BY <1>2 DEF TypeOK
  <2> QED
    BY <1>2, <2>1 DEF MeshInv, HasTrack
<1>9. NegotiationInv'
  BY <1>2 DEF NegotiationInv
<1> QED
  BY <1>4, <1>5, <1>6, <1>7, <1>8, <1>9

LEMMA CloseFlagKeeps ==
  ASSUME RoomInv, NEW p \in Peer, CloseFlag(p) PROVE RoomInv'
<1> USE DEF RoomInv, CloseFlag
<1>1. closed' = [closed EXCEPT ![p] = TRUE]
  BY DEF CloseInv
<1>2. TypeOK'
  BY <1>1 DEF TypeOK, Phase
<1>3. MapInv'
  BY DEF MapInv, TypeOK
<1>4. CloseInv'
  BY <1>1 DEF CloseInv, TypeOK
<1>5. TrackInv'
  BY DEF TrackInv, TypeOK
<1>6. MeshInv'
  <2>1. \A q \in Peer : /\ q # p => phase'[q] = phase[q]
                        /\ phase'[p] = "closingSub"
    BY DEF TypeOK
  <2> QED
    BY <2>1 DEF MeshInv, HasTrack
<1>7. NegotiationInv'
  BY DEF NegotiationInv
<1> QED
  BY <1>2, <1>3, <1>4, <1>5, <1>6, <1>7

LEMMA CloseSubKeeps ==
  ASSUME RoomInv, NEW p \in Peer, CloseSub(p) PROVE RoomInv'
<1> USE DEF RoomInv, CloseSub
<1> DEFINE r == Shut(sub[p])
<1>1. victim[p] = p /\ sub' = [sub EXCEPT ![p] = r]
  BY DEF CloseInv
<1>2. /\ r \in SubState /\ SubInv(r) /\ r.senders = sub[p].senders
      /\ r.faulted = sub[p].faulted /\ r.sig \in {"none", "closed"}
  BY ShutGood DEF TypeOK, NegotiationInv
<1> HIDE DEF r
<1>3. /\ sub'[p] = r /\ phase'[p] = "unsubscribing"
      /\ \A q \in Peer : q # p => sub'[q] = sub[q] /\ phase'[q] = phase[q]
  BY <1>1 DEF TypeOK
<1>4. TypeOK'
  BY <1>1, <1>2 DEF TypeOK, Phase
<1>5. MapInv'
  BY <1>3 DEF MapInv
<1>6. CloseInv'
  BY <1>1, <1>2, <1>3 DEF CloseInv
<1>7. TrackInv'
  BY <1>3 DEF TrackInv
<1>8. MeshInv'
  BY <1>3 DEF MeshInv, HasTrack
<1>9. NegotiationInv'
  BY <1>2, <1>3 DEF NegotiationInv
<1> QED
  BY <1>4, <1>5, <1>6, <1>7, <1>8, <1>9

\* RemoveSubscriberTracksFrom takes away senders of the leaver only.
LEMMA UnsubscribesLeaverOnly ==
  ASSUME UniqueIds, RoomInv, NEW p \in Peer, LeaveUnsubscribe(p)
  PROVE  /\ ~Present(p)
         /\ \A q \in Peer : \A x \in sub[q].senders :
               x \in sub'[q].senders \/ Owner[x.track] = p
<1> USE DEF RoomInv, LeaveUnsubscribe
<1>1. PICK other \in todo[p] :
        \E s \in Unsubscribe(sub[other], IdOf[p]) : sub' = [sub EXCEPT ![other] = s]
  OBVIOUS
<1>2. PICK r \in Unsubscribe(sub[other], IdOf[p]) : sub' = [sub EXCEPT ![other] = r]
  BY <1>1
<1>3. other \in Peer /\ sub[other] \in SubState /\ SubInv(sub[other]) /\ IdOf[p] \in PeerId
  BY DEF TypeOK, NegotiationInv
<1>4. \A x \in sub[other].senders : x \in r.senders \/ IdOf[Owner[x.track]] \in KeyPrefix[IdOf[p]]
  BY <1>2, <1>3, UnsubscribeGood
<1>5. \A x \in sub[other].senders : Owner[x.track] \in Peer
  BY <1>3 DEF SubState, Sender
<1>6. \A x \in sub[other].senders : x \in r.senders \/ Owner[x.track] = p
  BY <1>3, <1>4, <1>5 DEF UniqueIds
<1>7. sub'[other] = r /\ \A q \in Peer : q # other => sub'[q] = sub[q]
  BY <1>2, <1>3 DEF TypeOK
<1> QED
  BY <1>6, <1>7 DEF Present

LEMMA LeaveUnsubscribeKeeps ==
  ASSUME UniqueIds, RoomInv, NEW p \in Peer, LeaveUnsubscribe(p) PROVE RoomInv'
<1>1. PICK other \in todo[p] :
        /\ todo' = [todo EXCEPT ![p] = todo[p] \ {other}]
        /\ \E s \in Unsubscribe(sub[other], IdOf[p]) : sub' = [sub EXCEPT ![other] = s]
  BY DEF RoomInv, TypeOK, LeaveUnsubscribe
<1>2. PICK r \in Unsubscribe(sub[other], IdOf[p]) : sub' = [sub EXCEPT ![other] = r]
  BY <1>1
<1>3. other \in Peer /\ sub[other] \in SubState /\ SubInv(sub[other]) /\ IdOf[p] \in PeerId
  BY DEF RoomInv, TypeOK, NegotiationInv
<1>4. /\ r \in SubState /\ SubInv(r)
      /\ sub[other].faulted => r.faulted
      /\ sub[other].sig \in {"none", "closed"} => r.sig \in {"none", "closed"}
  BY <1>2, <1>3, UnsubscribeGood
<1>5. /\ UNCHANGED <<roomPeers, phase, victim, closed>>
      /\ UNCHANGED <<joinTracks, pubReady, trackState, fanTodo>>
  BY DEF LeaveUnsubscribe
<1>6. sub' \in [Peer -> SubState] /\ MapInv' /\ CloseInv' /\ NegotiationInv'
  BY <1>2, <1>3, <1>4, <1>5, OneConnection
<1>7. TypeOK'
  BY <1>1, <1>5, <1>6 DEF RoomInv, TypeOK
<1>8. TrackInv'
  BY <1>5 DEF RoomInv, TrackInv
<1>9. MeshInv'
  <2>1. \A q \in Peer : q # p => todo'[q] = todo[q]
    BY <1>1 DEF RoomInv, TypeOK
  <2>2. \A q \in Peer : sub[q].faulted => sub'[q].faulted
    BY <1>2, <1>3, <1>4 DEF RoomInv, TypeOK
  <2>3. ~Present(p) /\ \A q \in Peer : \A x \in sub[q].senders :
                          x \in sub'[q].senders \/ Owner[x.track] = p
    BY UnsubscribesLeaverOnly
  <2>4. \A q \in Peer, t \in Track : Owner[t] # p /\ HasTrack(q, t) => HasTrack(q, t)'
    BY <2>3 DEF HasTrack
  <2> QED
    BY <1>5, <2>1, <2>2, <2>3, <2>4 DEF RoomInv, MeshInv, Present
<1> QED
  BY <1>6, <1>7, <1>8, <1>9 DEF RoomInv

LEMMA LeaveDoneKeeps ==
  ASSUME RoomInv, NEW p \in Peer, LeaveDone(p) PROVE RoomInv'
<1> USE DEF RoomInv, LeaveDone
<1>1. TypeOK'
  BY DEF TypeOK, Phase
<1>2. MapInv'
  BY DEF MapInv, TypeOK
<1>3. CloseInv'
  BY DEF CloseInv, TypeOK
<1>4. TrackInv'
  BY DEF TrackInv, TypeOK
<1>5. MeshInv'
  <2>1. phase'[p] = "gone" /\ \A q \in Peer : q # p => phase'[q] = phase[q]
    BY DEF TypeOK
  <2> QED
    BY <2>1 DEF MeshInv, HasTrack
<1>6. NegotiationInv'
  BY DEF NegotiationInv
<1> QED
  BY <1>1, <1>2, <1>3, <1>4, <1>5, <1>6

-----------------------------------------------------------------------------
LEMMA StepInd ==
  ASSUME UniqueIds, RoomInv, [Next]_vars PROVE RoomInv'
<1>1. CASE UNCHANGED vars
  BY <1>1 DEF vars, RoomInv, TypeOK, MapInv, CloseInv, TrackInv, MeshInv,
              HasTrack, NegotiationInv
<1>2. ASSUME NEW p \in Peer, SessionStep(p) PROVE RoomInv'
  BY <1>2, AddPeerKeeps, JoinNextKeeps, JoinSubscribeKeeps, JoinDoneKeeps,
     HandlePubOfferKeeps, ClientAnswerKeeps, HandleSubAnswerKeeps,
     DisconnectKeeps, LeaveRemoveKeeps, CloseFlagKeeps, CloseSubKeeps,
     LeaveUnsubscribeKeeps, LeaveDoneKeeps
     DEF SessionStep
<1>3. ASSUME NEW t \in Track, TrackStep(t) PROVE RoomInv'
  BY <1>3, DispatchTrackKeeps, PublishTrackKeeps, FanoutSnapshotKeeps,
     FanoutToKeeps, FanoutDoneKeeps
     DEF TrackStep
<1> QED
  BY <1>1, <1>2, <1>3 DEF Next, Finished

\* Every action but LeaveUnsubscribe takes no sender away.
LEMMA SendersKept ==
  ASSUME RoomInv, NEW x \in Peer, NEW r, sub' = [sub EXCEPT ![x] = r],
         sub[x].senders \subseteq r.senders
  PROVE  \A q \in Peer : sub[q].senders \subseteq sub'[q].senders
  BY DEF RoomInv, TypeOK

LEMMA SessionKeepsSenders ==
  ASSUME RoomInv, NEW p \in Peer, SessionStep(p), ~LeaveUnsubscribe(p)
  PROVE  \A q \in Peer : sub[q].senders \subseteq sub'[q].senders
<1>1. sub[p] \in SubState /\ SubInv(sub[p]) /\ sub \in [Peer -> SubState]
  BY DEF RoomInv, TypeOK, NegotiationInv
<1>2. CASE UNCHANGED sub
  BY <1>2
<1>3. CASE JoinSubscribe(p)
  <2>1. PICK t \in Track : \E r \in Subscribe(sub[p], t, "join", closed[p]) :
          sub' = [sub EXCEPT ![p] = r]
    BY <1>3 DEF JoinSubscribe, RoomInv, TypeOK
  <2>2. closed[p] \in BOOLEAN
    BY DEF RoomInv, TypeOK
  <2> QED
    BY <1>1, <2>1, <2>2, SubscribeGood, SendersKept
<1>4. CASE ClientAnswer(p)
  <2>1. Apply(sub[p]).senders = sub[p].senders
    BY <1>1, <1>4, ApplyGood DEF ClientAnswer, Reading
  <2> QED
    BY <1>4, <2>1, SendersKept DEF ClientAnswer
<1>5. CASE HandleSubAnswer(p)
  <2>1. PICK r \in SubState : sub' = [sub EXCEPT ![p] = r] /\ r.senders = sub[p].senders
    BY <1>5, SubAnswerOutcome
  <2> QED
    BY <2>1, SendersKept
<1>6. CASE Disconnect(p)
  BY <1>1, <1>6, HangUpGood, SendersKept DEF Disconnect
<1>7. CASE CloseSub(p)
  <2>1. victim[p] = p
    BY <1>7 DEF RoomInv, CloseInv, CloseSub
  <2> QED
    BY <1>1, <1>7, <2>1, ShutGood, SendersKept DEF CloseSub
<1> QED
  BY <1>2, <1>3, <1>4, <1>5, <1>6, <1>7
  DEF SessionStep, AddPeer, JoinNext, JoinDone, HandlePubOffer, LeaveRemove,
      CloseFlag, LeaveDone

LEMMA TrackKeepsSenders ==
  ASSUME RoomInv, NEW t \in Track, TrackStep(t)
  PROVE  \A q \in Peer : sub[q].senders \subseteq sub'[q].senders
<1>1. CASE UNCHANGED sub
  BY <1>1
<1>2. CASE FanoutTo(t)
  <2>1. PICK p \in Peer : \E r \in Subscribe(sub[p], t, "fanout", closed[p]) :
          sub' = [sub EXCEPT ![p] = r]
    BY <1>2 DEF FanoutTo, RoomInv, TypeOK
  <2>2. sub[p] \in SubState /\ SubInv(sub[p]) /\ closed[p] \in BOOLEAN
    BY DEF RoomInv, TypeOK, NegotiationInv
  <2> QED
    BY <2>1, <2>2, SubscribeGood, SendersKept
<1> QED
  BY <1>1, <1>2 DEF TrackStep, DispatchTrack, PublishTrack, FanoutSnapshot, FanoutDone

(***************************************************************************)
(* A step of the room changes a connection by one of the operations of     *)
(* Subscriber.  The rest follows from the lemmas about these.              *)
(***************************************************************************)
Operation(p, s, r) ==
  \/ r = s
  \/ \E t \in Track, via \in {"join", "fanout"} : r \in Subscribe(s, t, via, closed[p])
  \/ \E q \in Peer : /\ LeaveUnsubscribe(q) /\ p \in todo[q] /\ p \notin todo'[q]
                     /\ r \in Unsubscribe(s, IdOf[q])
  \/ s.connected /\ s.toClient # <<>> /\ r = Apply(s)
  \/ s.answers > 0 /\ r \in Answer([s EXCEPT !.answers = s.answers - 1])
  \/ r = HangUp(s)
  \/ r = Shut(s)

\* One connection is replaced.
LEMMA OneOperation ==
  ASSUME RoomInv, NEW q \in Peer, NEW r, sub' = [sub EXCEPT ![q] = r],
         Operation(q, sub[q], r), NEW p \in Peer
  PROVE  Operation(p, sub[p], sub'[p])
<1>1. sub \in [Peer -> SubState]
  BY DEF RoomInv, TypeOK
<1>2. CASE p = q
  <2>1. sub'[p] = r
    BY <1>1, <1>2
  <2> QED
    BY <1>2, <2>1
<1>3. CASE p # q
  <2>1. sub'[p] = sub[p]
    BY <1>1, <1>3
  <2> QED
    BY <2>1 DEF Operation
<1> QED
  BY <1>2, <1>3

LEMMA SessionOperation ==
  ASSUME RoomInv, NEW q \in Peer, SessionStep(q), NEW p \in Peer
  PROVE  Operation(p, sub[p], sub'[p])
<1>1. sub \in [Peer -> SubState] /\ sub[q] \in SubState /\ SubInv(sub[q])
  BY DEF RoomInv, TypeOK, NegotiationInv
<1>2. CASE UNCHANGED sub
  BY <1>2 DEF Operation
<1>3. CASE JoinSubscribe(q)
  <2>1. joinTracks[q] \subseteq Track
    BY DEF RoomInv, TypeOK
  <2>2. PICK t \in Track : \E r \in Subscribe(sub[q], t, "join", closed[q]) :
          sub' = [sub EXCEPT ![q] = r]
    BY <1>3, <2>1 DEF JoinSubscribe
  <2>3. PICK r \in Subscribe(sub[q], t, "join", closed[q]) : sub' = [sub EXCEPT ![q] = r]
    BY <2>2
  <2>4. Operation(q, sub[q], r)
    BY <2>3 DEF Operation
  <2> QED
    BY <2>3, <2>4, OneOperation
<1>4. CASE ClientAnswer(q)
  <2>1. Operation(q, sub[q], Apply(sub[q])) /\ sub' = [sub EXCEPT ![q] = Apply(sub[q])]
    BY <1>4 DEF ClientAnswer, Reading, Operation
  <2> QED
    BY <2>1, OneOperation
<1>5. CASE HandleSubAnswer(q)
  <2> DEFINE read == [sub[q] EXCEPT !.answers = sub[q].answers - 1]
  <2>1. roomPeers[IdOf[q]] = q /\ q # NoPeer /\ sub[q].answers > 0
    BY <1>5, TargetIsOwn DEF HandleSubAnswer
  <2>2. [sub EXCEPT ![q].answers = @ - 1][q] = read
    BY <1>1
  <2>3. PICK r \in Answer(read) :
          sub' = [[sub EXCEPT ![q].answers = @ - 1] EXCEPT ![q] = r]
    BY <1>5, <2>1, <2>2 DEF HandleSubAnswer
  <2>4. sub' = [sub EXCEPT ![q] = r]
    BY <1>1, <2>3
  <2>5. Operation(q, sub[q], r)
    BY <2>1, <2>3 DEF Operation
  <2> QED
    BY <2>4, <2>5, OneOperation
<1>6. CASE Disconnect(q)
  <2>1. Operation(q, sub[q], HangUp(sub[q])) /\ sub' = [sub EXCEPT ![q] = HangUp(sub[q])]
    BY <1>6 DEF Disconnect, Operation
  <2> QED
    BY <2>1, OneOperation
<1>7. CASE CloseSub(q)
  <2>1. Operation(q, sub[q], Shut(sub[q])) /\ sub' = [sub EXCEPT ![q] = Shut(sub[q])]
    BY <1>7 DEF CloseSub, RoomInv, CloseInv, Operation
  <2> QED
    BY <2>1, OneOperation
<1>8. CASE LeaveUnsubscribe(q)
  <2>1. PICK other \in todo[q] :
          /\ todo' = [todo EXCEPT ![q] = todo[q] \ {other}]
          /\ \E r \in Unsubscribe(sub[other], IdOf[q]) : sub' = [sub EXCEPT ![other] = r]
    BY <1>8 DEF LeaveUnsubscribe, RoomInv, TypeOK
  <2>2. PICK r \in Unsubscribe(sub[other], IdOf[q]) : sub' = [sub EXCEPT ![other] = r]
    BY <2>1
  <2>3. other \in Peer /\ other \notin todo'[q]
    BY <2>1 DEF RoomInv, TypeOK
  <2>4. Operation(other, sub[other], r)
    BY <1>8, <2>1, <2>2, <2>3 DEF Operation
  <2> QED
    BY <2>2, <2>3, <2>4, OneOperation
<1> QED
  BY <1>2, <1>3, <1>4, <1>5, <1>6, <1>7, <1>8
  DEF SessionStep, AddPeer, JoinNext, JoinDone, HandlePubOffer, LeaveRemove,
      CloseFlag, LeaveDone

LEMMA TrackOperation ==
  ASSUME RoomInv, NEW t \in Track, TrackStep(t), NEW p \in Peer
  PROVE  Operation(p, sub[p], sub'[p])
<1>1. CASE UNCHANGED sub
  BY <1>1 DEF Operation
<1>2. CASE FanoutTo(t)
  <2>1. fanTodo[t] \subseteq Peer
    BY DEF RoomInv, TypeOK
  <2>2. PICK q \in Peer : \E r \in Subscribe(sub[q], t, "fanout", closed[q]) :
          sub' = [sub EXCEPT ![q] = r]
    BY <1>2, <2>1 DEF FanoutTo
  <2>3. PICK r \in Subscribe(sub[q], t, "fanout", closed[q]) : sub' = [sub EXCEPT ![q] = r]
    BY <2>2
  <2>4. Operation(q, sub[q], r)
    BY <2>3 DEF Operation
  <2> QED
    BY <2>3, <2>4, OneOperation
<1> QED
  BY <1>1, <1>2 DEF TrackStep, DispatchTrack, PublishTrack, FanoutSnapshot, FanoutDone

LEMMA StepIsOperation ==
  ASSUME RoomInv, [Next]_vars, NEW p \in Peer
  PROVE  Operation(p, sub[p], sub'[p])
<1>1. CASE UNCHANGED sub
  BY <1>1 DEF Operation
<1> QED
  BY <1>1, SessionOperation, TrackOperation DEF Next, Finished, vars

-----------------------------------------------------------------------------
\* An operation is a step of the negotiation that the server promises.
LEMMA OperationIsStep ==
  ASSUME RoomInv, NEW p \in Peer, Operation(p, sub[p], sub'[p])
  PROVE  NegotiationStep(sub[p], sub'[p])
<1>1. sub[p] \in SubState /\ SubInv(sub[p]) /\ closed[p] \in BOOLEAN
  BY DEF RoomInv, TypeOK, NegotiationInv
<1>2. CASE sub'[p] = sub[p]
  BY <1>2 DEF NegotiationStep
<1>3. CASE \E q \in Peer : sub'[p] \in Unsubscribe(sub[p], IdOf[q])
  BY <1>1, <1>3, UnsubscribeIsStep
<1>4. CASE \E t \in Track, via \in {"join", "fanout"} :
             sub'[p] \in Subscribe(sub[p], t, via, closed[p])
  BY <1>1, <1>4, SubscribeIsStep
<1>5. CASE \/ sub[p].connected /\ sub[p].toClient # <<>> /\ sub'[p] = Apply(sub[p])
           \/ sub'[p] = HangUp(sub[p])
           \/ sub'[p] = Shut(sub[p])
  BY <1>1, <1>5, ClientIsStep
<1>6. CASE /\ sub[p].answers > 0
           /\ sub'[p] \in Answer([sub[p] EXCEPT !.answers = sub[p].answers - 1])
  BY <1>1, <1>6, AnswerIsStep
<1> QED
  BY <1>2, <1>3, <1>4, <1>5, <1>6 DEF Operation

\* A step seen from the states of the connection is one of Negotiation.
LEMMA StepIsNegotiation ==
  ASSUME RoomInv, RoomInv', NEW p \in Peer, NegotiationStep(sub[p], sub'[p])
  PROVE  [Negotiating(p)!Next]_(Negotiating(p)!vars)
<1> DEFINE s == sub[p]
           r == sub'[p]
<1>1. r \in SubState /\ r.senders \in SUBSET Sender
  BY DEF RoomInv, TypeOK, SubState
<1>2. /\ s.faulted \in BOOLEAN /\ r.faulted \in BOOLEAN
      /\ Over(s) \in BOOLEAN /\ Over(r) \in BOOLEAN
  BY DEF RoomInv, TypeOK, SubState, Over
<1>3. /\ \A set : Unless(s, set) = IF Over(s) THEN {} ELSE set
      /\ \A set : Unless(r, set) = IF Over(r) THEN {} ELSE set
      /\ (Over(s) <=> Stage(s) = "over") /\ (Over(r) <=> Stage(r) = "over")
  BY DEF Unless, Stage
<1>4. /\ Unless(sub[p], sub[p].senders)' = Unless(r, r.senders)
      /\ Unless(sub[p], sub[p].offered)' = Unless(r, r.offered)
      /\ Unless(sub[p], sub[p].view)' = Unless(r, r.view)
      /\ Stage(sub[p])' = Stage(r) /\ Over(sub[p])' = Over(r)
  OBVIOUS
<1> USE DEF Negotiating!Next, Negotiating!vars
<1>5. CASE Over(s) /\ Over(r)
  BY <1>2, <1>3, <1>4, <1>5
<1>6. CASE ~Over(s) /\ Over(r)
  BY <1>2, <1>3, <1>4, <1>6 DEF Negotiating!End
<1>7. CASE ~Over(s) /\ ~Over(r)
  <2>1. CASE /\ r.senders = s.senders /\ r.offered = s.offered /\ r.view = s.view
             /\ Stage(r) = Stage(s) /\ r.faulted = s.faulted
    BY <1>2, <1>3, <1>4, <1>7, <2>1
  <2>2. CASE /\ r.view = s.view /\ r.faulted = s.faulted
             /\ \/ Stage(s) = "idle" /\ Stage(r) = "offered" /\ r.offered = r.senders
                \/ /\ Stage(s) \in {"offered", "answered", "stuck"}
                   /\ Stage(r) = Stage(s) /\ r.offered = s.offered
    BY <1>1, <1>2, <1>3, <1>4, <1>7, <2>2 DEF Negotiating!Change, Negotiating!MakeOffer
  <2>3. CASE /\ Stage(s) = "offered" /\ Stage(r) = "answered" /\ r.view = s.offered
             /\ r.senders = s.senders /\ r.offered = s.offered /\ r.faulted = s.faulted
    BY <1>2, <1>3, <1>4, <1>7, <2>3 DEF Negotiating!Apply
  <2>4. CASE /\ Stage(s) = "answered"
             /\ r.senders = s.senders /\ r.view = s.view /\ r.faulted = s.faulted
             /\ \/ s.senders = s.offered /\ Stage(r) = "idle" /\ r.offered = s.offered
                \/ Stage(r) = "offered" /\ r.offered = r.senders
    BY <1>2, <1>3, <1>4, <1>7, <2>4 DEF Negotiating!Settle, Negotiating!MakeOffer
  <2>5. CASE /\ r.faulted /\ r.offered = s.offered /\ r.view = s.view
             /\ \/ Stage(s) = "idle" /\ Stage(r) = "idle"
                \/ Stage(s) = "answered" /\ Stage(r) \in {"idle", "stuck"}
                   /\ r.senders = s.senders
                \/ Stage(s) \in {"offered", "answered", "stuck"}
                   /\ Stage(r) = Stage(s) /\ r.senders = s.senders
    BY <1>1, <1>2, <1>3, <1>4, <1>7, <2>5 DEF Negotiating!Fail
  <2> QED
    BY <1>7, <2>1, <2>2, <2>3, <2>4, <2>5 DEF NegotiationStep
<1> QED
  BY <1>5, <1>6, <1>7 DEF NegotiationStep

LEMMA InitIsNegotiation ==
  ASSUME Init, NEW p \in Peer PROVE Negotiating(p)!Init
<1>1. sub[p] = InitSub
  BY DEF Init
<1>2. /\ sub[p].sig = "none" /\ sub[p].connected /\ ~sub[p].faulted
      /\ sub[p].senders = {} /\ sub[p].offered = {} /\ sub[p].view = {}
  BY <1>1 DEF InitSub
<1> QED
  BY <1>2 DEF Negotiating!Init, Unless, Stage, Over

\* Without a failure, an answer says that the last offer was applied, and the
\* exchange is over only when that offer is what the server sends.
Agrees(p) ==
    ~(Over(sub[p]) \/ sub[p].faulted) =>
        /\ Stage(sub[p]) = "answered" =>
              Unless(sub[p], sub[p].view) = Unless(sub[p], sub[p].offered)
        /\ Stage(sub[p]) = "idle" =>
              /\ Unless(sub[p], sub[p].view) = Unless(sub[p], sub[p].offered)
              /\ Unless(sub[p], sub[p].offered) = Unless(sub[p], sub[p].senders)

LEMMA NextAgrees ==
  ASSUME NEW p \in Peer, Agrees(p), [Negotiating(p)!Next]_(Negotiating(p)!vars)
  PROVE  Agrees(p)'
<1>1. CASE Negotiating(p)!Change
  BY <1>1 DEF Agrees, Negotiating!Change, Negotiating!MakeOffer
<1>2. CASE Negotiating(p)!Apply
  BY <1>2 DEF Agrees, Negotiating!Apply
<1>3. CASE Negotiating(p)!Settle
  BY <1>3 DEF Agrees, Negotiating!Settle, Negotiating!MakeOffer
<1>4. CASE Negotiating(p)!Fail
  BY <1>4 DEF Agrees, Negotiating!Fail
<1>5. CASE Negotiating(p)!End
  BY <1>5 DEF Agrees, Negotiating!End
<1>6. CASE UNCHANGED Negotiating(p)!vars
  BY <1>6 DEF Agrees, Negotiating!vars
<1> QED
  BY <1>1, <1>2, <1>3, <1>4, <1>5, <1>6 DEF Negotiating!Next

-----------------------------------------------------------------------------
(***************************************************************************)
(* The map of the senders.                                                 *)
(***************************************************************************)

\* RemovePeer of p has been at the peer o; its loop does not come back to it.
Passed(p, o) == phase[p] \in {"unsubscribing", "gone"} /\ o \notin todo[p]

LEMMA PassedForGood ==
  ASSUME RoomInv, [Next]_vars, NEW p \in Peer, NEW o \in Peer, Passed(p, o)
  PROVE  Passed(p, o)'
<1>1. TypeOK
  BY DEF RoomInv
<1>2. CASE UNCHANGED vars
  BY <1>2 DEF vars, Passed
<1>3. ASSUME NEW q \in Peer, SessionStep(q) PROVE Passed(p, o)'
  <2>1. CASE q # p
    <3>1. phase'[p] = phase[p] /\ todo'[p] = todo[p]
      BY <1>1, <1>3, <2>1 DEF SessionStep, AddPeer, JoinNext, JoinSubscribe,
         JoinDone, HandlePubOffer, ClientAnswer, HandleSubAnswer, Disconnect,
         LeaveRemove, CloseFlag, CloseSub, LeaveUnsubscribe, LeaveDone, TypeOK
    <3> QED
      BY <3>1 DEF Passed
  <2>2. CASE q = p
    <3>1. phase'[p] \in {"unsubscribing", "gone"} /\ todo'[p] \subseteq todo[p]
      BY <1>1, <1>3, <2>2 DEF Passed, SessionStep, AddPeer, JoinNext, JoinSubscribe,
         JoinDone, HandlePubOffer, ClientAnswer, HandleSubAnswer, Disconnect, Reading,
         LeaveRemove, CloseFlag, CloseSub, LeaveUnsubscribe, LeaveDone, TypeOK
    <3> QED
      BY <3>1 DEF Passed
  <2> QED
    BY <2>1, <2>2
<1>4. ASSUME NEW t \in Track, TrackStep(t) PROVE Passed(p, o)'
  BY <1>4 DEF Passed, TrackStep, DispatchTrack, PublishTrack, FanoutSnapshot,
              FanoutTo, FanoutDone
<1> QED
  BY <1>2, <1>3, <1>4 DEF Next, Finished

\* RemoveSubscriberTracksFrom, called for the leaver q, finds the senders in
\* the map whose tracks are of q.
LEMMA FoundAreLeavers ==
  ASSUME UniqueIds, RoomInv, NEW p \in Peer, NEW q \in Peer
  PROVE  {x \in sub[p].mapped : IdOf[Owner[x.track]] \in KeyPrefix[IdOf[q]]}
         = {x \in sub[p].mapped : Owner[x.track] = q}
<1>1. \A x \in sub[p].mapped : Owner[x.track] \in Peer
  BY DEF RoomInv, TypeOK, SubState, Sender
<1>2. \A x \in sub[p].mapped :
        IdOf[Owner[x.track]] \in KeyPrefix[IdOf[q]] <=> Owner[x.track] = q
  BY <1>1 DEF UniqueIds
<1> QED
  BY <1>2

LEMMA SenderStep ==
  ASSUME UniqueIds, RoomInv, SenderInv, [Next]_vars PROVE SenderInv'
<1> SUFFICES ASSUME NEW p \in Peer, NEW x \in sub'[p].senders, sub'[p].sig # "closed",
                    ~(\E z \in sub'[p].mapped : z.track = x.track)
             PROVE  Passed(Owner[x.track], p)'
  BY DEF SenderInv, Passed
<1>1. sub[p] \in SubState /\ SubInv(sub[p]) /\ closed[p] \in BOOLEAN
  BY DEF RoomInv, TypeOK, NegotiationInv
<1>2. ASSUME x \in sub[p].senders, sub[p].sig # "closed",
             ~(\E y \in sub[p].mapped : y.track = x.track)
      PROVE  Passed(Owner[x.track], p)'
  <2>1. Owner[x.track] \in Peer
    BY <1>1, <1>2 DEF SubState, Sender
  <2>2. Passed(Owner[x.track], p)
    BY <1>2 DEF SenderInv, Passed
  <2> QED
    BY <2>1, <2>2, PassedForGood
<1>3. CASE sub'[p] = sub[p]
  BY <1>2, <1>3
<1>4. CASE \E t \in Track, via \in {"join", "fanout"} :
             sub'[p] \in Subscribe(sub[p], t, via, closed[p])
  <2>1. /\ \A y \in sub[p].mapped : \E z \in sub'[p].mapped : z.track = y.track
        /\ x \in sub[p].senders \/ \E z \in sub'[p].mapped : z.track = x.track
        /\ sub[p].sig # "closed"
    BY <1>1, <1>4, SubscribeIsStep
  <2> QED
    BY <1>2, <2>1
<1>5. CASE \E q \in Peer : /\ LeaveUnsubscribe(q) /\ p \in todo[q] /\ p \notin todo'[q]
                           /\ sub'[p] \in Unsubscribe(sub[p], IdOf[q])
  <2>1. PICK q \in Peer : /\ LeaveUnsubscribe(q) /\ p \in todo[q] /\ p \notin todo'[q]
                          /\ sub'[p] \in Unsubscribe(sub[p], IdOf[q])
    BY <1>5
  <2>2. /\ sub[p].sig # "none" => sub'[p].mapped
                = sub[p].mapped \ {y \in sub[p].mapped : Owner[y.track] = q}
        /\ x \in sub[p].senders
        /\ sub[p].sig = "none" => sub'[p] = sub[p]
        /\ sub[p].sig # "closed"
    BY <1>1, <2>1, UnsubscribeIsStep, FoundAreLeavers
  <2>3. CASE sub[p].sig = "none"
    BY <1>2, <2>2, <2>3
  <2>4. CASE sub[p].sig # "none" /\ Owner[x.track] = q
    BY <2>1, <2>4 DEF LeaveUnsubscribe, Passed
  <2>5. CASE sub[p].sig # "none" /\ Owner[x.track] # q
    <3>1. ~(\E y \in sub[p].mapped : y.track = x.track)
      BY <2>2, <2>5
    <3> QED
      BY <1>2, <2>2, <3>1
  <2> QED
    BY <2>3, <2>4, <2>5
<1>6. CASE \/ sub[p].connected /\ sub[p].toClient # <<>> /\ sub'[p] = Apply(sub[p])
           \/ sub'[p] = HangUp(sub[p])
           \/ sub'[p] = Shut(sub[p])
  <2>1. /\ sub'[p].senders = sub[p].senders /\ sub'[p].mapped = sub[p].mapped
        /\ sub[p].sig # "closed"
    BY <1>1, <1>6, ClientIsStep
  <2> QED
    BY <1>2, <2>1
<1>7. CASE /\ sub[p].answers > 0
           /\ sub'[p] \in Answer([sub[p] EXCEPT !.answers = sub[p].answers - 1])
  <2>1. /\ sub'[p].senders = sub[p].senders /\ sub'[p].mapped = sub[p].mapped
        /\ sub[p].sig # "closed"
    BY <1>1, <1>7, AnswerIsStep
  <2> QED
    BY <1>2, <2>1
<1>8. Operation(p, sub[p], sub'[p])
  BY StepIsOperation
<1> QED
  BY <1>3, <1>4, <1>5, <1>6, <1>7, <1>8 DEF Operation

\* What a call of RemoveSubscriberTracksFrom leaves to the peer.
LEMMA LeavesOnlyDuplicates ==
  ASSUME UniqueIds, RoomInv, SenderInv, [Next]_vars,
         NEW p \in Peer, phase[p] = "unsubscribing",
         NEW other \in todo[p] \ todo'[p],
         NEW x \in sub'[other].senders, sub'[other].sig # "closed",
         IdOf[Owner[x.track]] = IdOf[p]
  PROVE  /\ x \notin sub[other].mapped
         /\ \E y \in sub[other].mapped \ sub'[other].mapped : y.track = x.track
<1>1. TypeOK /\ other \in Peer
  BY DEF RoomInv, TypeOK
<1>2. LeaveUnsubscribe(p)
  <2>1. todo'[p] # todo[p]
    OBVIOUS
  <2>2. \A q \in Peer : SessionStep(q) => LeaveUnsubscribe(p)
    <3> SUFFICES ASSUME NEW q \in Peer, SessionStep(q) PROVE LeaveUnsubscribe(p)
      OBVIOUS
    <3>1. q = p
      BY <1>1, <2>1 DEF SessionStep, AddPeer, JoinNext, JoinSubscribe,
         JoinDone, HandlePubOffer, ClientAnswer, HandleSubAnswer, Disconnect,
         LeaveRemove, CloseFlag, CloseSub, LeaveUnsubscribe, LeaveDone, TypeOK
    <3>2. ~LeaveDone(p)
      BY <2>1 DEF LeaveDone
    <3>3. SessionStep(p)
      BY <3>1
    <3> QED
      BY <2>1, <3>2, <3>3 DEF SessionStep, AddPeer, JoinNext, JoinSubscribe,
         JoinDone, HandlePubOffer, ClientAnswer, HandleSubAnswer, Disconnect,
         Reading, LeaveRemove, CloseFlag, CloseSub
  <2>3. \A t \in Track : ~TrackStep(t)
    BY <2>1 DEF TrackStep, DispatchTrack, PublishTrack, FanoutSnapshot, FanoutTo, FanoutDone
  <2> QED
    BY <2>1, <2>2, <2>3 DEF Next, Finished, vars
<1>3. sub'[other] \in Unsubscribe(sub[other], IdOf[p])
  <2>1. PICK o \in todo[p] :
          /\ todo' = [todo EXCEPT ![p] = todo[p] \ {o}]
          /\ \E r \in Unsubscribe(sub[o], IdOf[p]) : sub' = [sub EXCEPT ![o] = r]
    BY <1>1, <1>2 DEF LeaveUnsubscribe, TypeOK
  <2>2. o = other
    BY <1>1, <2>1 DEF TypeOK
  <2> QED
    BY <1>1, <2>1, <2>2 DEF TypeOK
<1>4. sub[other] \in SubState /\ SubInv(sub[other])
  BY <1>1 DEF RoomInv, TypeOK, NegotiationInv
<1> DEFINE found == {y \in sub[other].mapped : Owner[y.track] = p}
<1>5. /\ sub[other].sig # "none" => sub'[other].mapped = sub[other].mapped \ found
      /\ x \in sub[other].senders
      /\ sub[other].sig # "closed"
      /\ sub[other].sig # "none" => sub'[other].senders = sub[other].senders \ found
  BY <1>1, <1>3, <1>4, UnsubscribeIsStep, FoundAreLeavers
<1>6. sub[other].sig # "none"
  BY <1>4, <1>5 DEF SubInv, Exchange
<1>7. Owner[x.track] = p
  <2>1. Owner[x.track] \in Peer
    BY <1>4, <1>5 DEF SubState, Sender
  <2> QED
    BY <2>1 DEF UniqueIds
<1>8. PICK y \in sub[other].mapped : y.track = x.track
  BY <1>1, <1>5, <1>7 DEF SenderInv
<1> QED
  BY <1>5, <1>6, <1>7, <1>8

(***************************************************************************)
(* The theorems a reader should know of, for the runs' properties.         *)
(***************************************************************************)

LEMMA RoomInvariance == ASSUME UniqueIds PROVE Spec => []RoomInv
<1>1. RoomInv /\ [Next]_vars => RoomInv'
  BY StepInd
<1> QED
  BY <1>1, InitInd, PTL DEF Spec

\* IndInv holds in every reachable state, for every set of sessions, every
\* set of tracks and every set of faults: what AddPeer, fanoutNewTrack and
\* RemovePeer keep true between any two of their steps.
THEOREM Invariance == ASSUME UniqueIds PROVE Spec => []IndInv
<1>1. Init => SenderInv
  <2>1. InitSub.senders = {}
    BY DEF InitSub
  <2> QED
    BY <2>1 DEF Init, SenderInv
<1>2. RoomInv /\ SenderInv /\ [Next]_vars => SenderInv'
  BY SenderStep
<1> QED
  BY <1>1, <1>2, RoomInvariance, PTL DEF Spec, IndInv

\* Every variable keeps its type: the loops range over peer objects only, and
\* each subscriber connection is in a state of SubState.
THEOREM TypeCorrect == ASSUME UniqueIds PROVE Spec => []TypeOK
<1>1. RoomInv => TypeOK
  BY DEF RoomInv
<1> QED
  BY <1>1, RoomInvariance, PTL

\* renegotiateSubscriberLocked never has two offers under way.
THEOREM OneOutstandingOfferHolds ==
  ASSUME UniqueIds PROVE Spec => []OneOutstandingOffer
<1>1. RoomInv => OneOutstandingOffer
  <2> SUFFICES ASSUME RoomInv, NEW p \in Peer
               PROVE  /\ Len(sub[p].toClient) + sub[p].answers <= 1
                      /\ sub[p].sig \in {"none", "stable"} =>
                            sub[p].toClient = <<>> /\ sub[p].answers = 0
    BY DEF OneOutstandingOffer
  <2>1. Exchange(sub[p])
    BY DEF RoomInv, NegotiationInv, SubInv
  <2>2. CASE sub[p].toClient = <<>>
    <3>1. Len(sub[p].toClient) = 0
      BY <2>2
    <3> QED
      BY <2>1, <3>1 DEF Exchange
  <2>3. CASE sub[p].toClient = <<sub[p].offered>> /\ sub[p].answers = 0
    <3>1. Len(sub[p].toClient) = 1
      BY <2>3
    <3> QED
      BY <2>1, <2>3, <3>1 DEF Exchange
  <2> QED
    BY <2>1, <2>2, <2>3 DEF Exchange
<1> QED
  BY <1>1, RoomInvariance, PTL

\* No change of the senders is lost between subNeedsOffer and the next offer.
THEOREM NoLostChangeHolds == ASSUME UniqueIds PROVE Spec => []NoLostChange
<1>1. RoomInv => NoLostChange
  BY DEF RoomInv, NegotiationInv, SubInv, Exchange, Remembered, NoLostChange
<1> QED
  BY <1>1, RoomInvariance, PTL

\* Whichever of AddPeer and fanoutNewTrack sees the pair, every member that
\* has joined gets every forwarded track of every other member.
THEOREM FullMeshHolds == ASSUME UniqueIds PROVE Spec => []FullMesh
<1>1. ASSUME RoomInv PROVE FullMesh
  <2>1. Members = {p \in Peer : Present(p)}
    BY <1>1, MembersArePresent DEF RoomInv
  <2>2. SUFFICES ASSUME NEW p \in Members, NEW t \in Track,
                        phase[p] = "live", ~sub[p].faulted,
                        trackState[t] = "forwarding", Owner[t] \in Members \ {p}
                 PROVE  HasTrack(p, t)
    BY DEF FullMesh
  <2>3. p \in Peer /\ Present(Owner[t]) /\ fanTodo[t] = {}
    BY <1>1, <2>1, <2>2 DEF RoomInv, TrackInv
  <2> QED
    BY <1>1, <2>2, <2>3 DEF RoomInv, MeshInv, Present
<1> QED
  BY <1>1, RoomInvariance, PTL

\* A session that is over has closed its own peer object, and no fan-out or
\* join that was under way has opened a connection on it since.
THEOREM LeaverTornDownHolds == ASSUME UniqueIds PROVE Spec => []LeaverTornDown
<1>1. RoomInv => LeaverTornDown
  BY DEF RoomInv, CloseInv, LeaverTornDown
<1> QED
  BY <1>1, RoomInvariance, PTL

\* A member loses a sender only when the owner of its track has left the map:
\* RemovePeer of one peer leaves the tracks of the others alone.
THEOREM KeepsMembersTracksHolds ==
  ASSUME UniqueIds PROVE Spec => KeepsMembersTracks
<1> DEFINE Kept == \A p \in Peer : \A x \in sub[p].senders \ sub'[p].senders :
                      Owner[x.track] \notin Members'
<1>1. ASSUME RoomInv, RoomInv', [Next]_vars PROVE Kept
  <2>1. Members' = {p \in Peer : Present(p)'}
    BY <1>1, MembersArePresentNext
  <2>2. ASSUME NEW p \in Peer, LeaveUnsubscribe(p) PROVE Kept
    <3>1. ~Present(p) /\ phase' = phase
      BY <1>1, <2>2, UnsubscribesLeaverOnly DEF LeaveUnsubscribe
    <3>2. \A q \in Peer : \A x \in sub[q].senders :
            x \in sub'[q].senders \/ Owner[x.track] = p
      BY <1>1, <2>2, UnsubscribesLeaverOnly
    <3> QED
      BY <2>1, <3>1, <3>2 DEF Present
  <2>3. ASSUME NEW p \in Peer, SessionStep(p), ~LeaveUnsubscribe(p) PROVE Kept
    BY <1>1, <2>3, SessionKeepsSenders
  <2>4. ASSUME NEW t \in Track, TrackStep(t) PROVE Kept
    BY <1>1, <2>4, TrackKeepsSenders
  <2>5. CASE UNCHANGED vars
    BY <2>5 DEF vars
  <2> QED
    BY <1>1, <2>2, <2>3, <2>4, <2>5 DEF Next, Finished
<1>2. RoomInv /\ RoomInv' /\ [Next]_vars => [Kept]_vars
  BY <1>1
<1> QED
  BY <1>2, RoomInvariance, PTL DEF Spec, KeepsMembersTracks

\* Every subscriber connection implements Negotiation: whatever the loops of
\* AddPeer, fanoutNewTrack and RemovePeer do to it at the same time, and
\* however pion calls fail, offers and answers alternate and a change is
\* offered at once or after the exchange (renegotiateSubscriberLocked,
\* handleSubAnswer).
THEOREM NegotiationImplementedHolds ==
  ASSUME UniqueIds PROVE Spec => NegotiationImplemented
<1> DEFINE Steps == \A p \in Peer : [Negotiating(p)!Next]_(Negotiating(p)!vars)
<1>1. Init => \A p \in Peer : Negotiating(p)!Init
  BY InitIsNegotiation
<1>2. RoomInv /\ RoomInv' /\ [Next]_vars => [Steps]_vars
  BY StepIsOperation, OperationIsStep, StepIsNegotiation
<1> QED
  BY <1>1, <1>2, RoomInvariance, PTL DEF Spec, NegotiationImplemented

\* Whatever happens to a connection, an exchange is over only when its client
\* has exactly the tracks that the server sends to it, unless a pion call has
\* failed (UpToDate of the module Negotiation: handleSubAnswer).
THEOREM UpToDateHolds ==
  ASSUME UniqueIds PROVE Spec => [](\A p \in Peer : Negotiating(p)!UpToDate)
<1> DEFINE Steps == \A p \in Peer : [Negotiating(p)!Next]_(Negotiating(p)!vars)
           Agree == \A p \in Peer : Agrees(p)
           UpToDate == \A p \in Peer : Negotiating(p)!UpToDate
<1>1. Init => Agree
  BY InitIsNegotiation DEF Negotiating!Init, Agrees
<1>2. RoomInv /\ RoomInv' /\ [Next]_vars => Steps
  <2>1. UNCHANGED vars => Steps
    BY DEF vars, Negotiating!vars
  <2> QED
    BY <2>1, StepIsOperation, OperationIsStep, StepIsNegotiation
<1>3. Agree /\ Steps => Agree'
  BY NextAgrees
<1>4. Agree => UpToDate
  BY DEF Agrees, Negotiating!UpToDate
<1> QED
  BY <1>1, <1>2, <1>3, <1>4, RoomInvariance, PTL DEF Spec

\* RemovePeer takes from every other member all that the map finds, and what
\* it leaves has been pushed out of the map by a second subscription to the
\* same track (RemoveSubscriberTracksFrom).
THEOREM RemoveLeavesOnlyDuplicatesHolds ==
  ASSUME UniqueIds PROVE Spec => RemoveLeavesOnlyDuplicates
<1> DEFINE Leaves ==
      \A p \in Peer : phase[p] = "unsubscribing" =>
          \A other \in todo[p] \ todo'[p] :
              \A x \in sub'[other].senders :
                  \/ sub'[other].sig = "closed"
                  \/ IdOf[Owner[x.track]] # IdOf[p]
                  \/ /\ x \notin sub[other].mapped
                     /\ \E y \in sub[other].mapped \ sub'[other].mapped :
                            y.track = x.track
<1>1. RoomInv /\ SenderInv /\ [Next]_vars => [Leaves]_vars
  BY LeavesOnlyDuplicates
<1> QED
  BY <1>1, Invariance, PTL DEF Spec, IndInv, RemoveLeavesOnlyDuplicates

=============================================================================
