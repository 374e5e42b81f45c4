--------------------------- MODULE SignalingProofs ---------------------------
(***************************************************************************)
(* The safety properties of the hub and of its sessions, for any number of *)
(* sessions with identifiers of their own, any limits and any capacity of  *)
(* the send queues.  IndInv of Signaling is inductive: what a queue says   *)
(* of a peer is settled by lemmas about sequences of messages, what a Send *)
(* may do by SendCases, and then there is one lemma per action.            *)
(***************************************************************************)
EXTENDS Signaling, TLAPS

-----------------------------------------------------------------------------
(* What a queue says of a peer. *)

LEMMA EmptyNews ==
  ASSUME NEW i
  PROVE  ~Joins(<<>>, i) /\ ~Leaves(<<>>, i) /\ EndsGone(<<>>, i)
<1>1. \A k \in DOMAIN <<>> : FALSE
  OBVIOUS
<1> QED
  BY <1>1 DEF Joins, Leaves, EndsGone

\* A message at the end of the queue.
LEMMA AppendNews ==
  ASSUME NEW q \in Seq(Message), NEW m \in Message, NEW i
  PROVE  /\ Joins(Append(q, m), i) <=> Joins(q, i) \/ Adds(m, i)
         /\ Leaves(Append(q, m), i) <=> Leaves(q, i) \/ Removes(m, i)
         /\ Removes(m, i) => EndsGone(Append(q, m), i)
         /\ EndsGone(q, i) /\ ~Adds(m, i) => EndsGone(Append(q, m), i)
<1> DEFINE r == Append(q, m)
<1>1. /\ DOMAIN q = 1..Len(q) /\ Len(q) \in Nat
      /\ DOMAIN r = 1..(Len(q) + 1)
      /\ \A k \in 1..Len(q) : r[k] = q[k]
      /\ r[Len(q) + 1] = m
  OBVIOUS
<1> HIDE DEF r
<1>2. Joins(r, i) <=> Joins(q, i) \/ Adds(m, i)
  <2>1. \A k \in DOMAIN r : k \in DOMAIN q \/ k = Len(q) + 1
    BY <1>1
  <2>2. \A k \in DOMAIN q : k \in DOMAIN r
    BY <1>1
  <2> QED
    BY <1>1, <2>1, <2>2 DEF Joins
<1>3. Leaves(r, i) <=> Leaves(q, i) \/ Removes(m, i)
  <2>1. \A k \in DOMAIN r : k \in DOMAIN q \/ k = Len(q) + 1
    BY <1>1
  <2>2. \A k \in DOMAIN q : k \in DOMAIN r
    BY <1>1
  <2> QED
    BY <1>1, <2>1, <2>2 DEF Leaves
<1>4. ASSUME Removes(m, i)
      PROVE  EndsGone(r, i)
  <2>1. ~Adds(m, i)
    BY <1>4 DEF Adds, Removes
  <2> QED
    BY <1>1, <1>4, <2>1 DEF EndsGone
<1>5. ASSUME EndsGone(q, i), ~Adds(m, i)
      PROVE  EndsGone(r, i)
  BY <1>1, <1>5 DEF EndsGone
<1> QED
  BY <1>2, <1>3, <1>4, <1>5 DEF r

\* The message at its head.
LEMMA HeadNews ==
  ASSUME NEW q \in Seq(Message), q # <<>>, NEW i
  PROVE  /\ Head(q) \in Message /\ Tail(q) \in Seq(Message)
         /\ Len(Tail(q)) <= Len(q)
         /\ Joins(q, i) <=> Joins(Tail(q), i) \/ Adds(Head(q), i)
         /\ Leaves(q, i) <=> Leaves(Tail(q), i) \/ Removes(Head(q), i)
         /\ EndsGone(q, i) => /\ EndsGone(Tail(q), i)
                              /\ Adds(Head(q), i) => Leaves(Tail(q), i)
<1> DEFINE h == Head(q)
           r == Tail(q)
<1>1. /\ h \in Message /\ r \in Seq(Message) /\ Len(r) <= Len(q)
      /\ Len(q) \in Nat /\ Len(q) > 0
      /\ DOMAIN q = 1..Len(q) /\ DOMAIN r = 1..(Len(q) - 1)
      /\ q[1] = h /\ \A k \in 1..(Len(q) - 1) : r[k] = q[k + 1]
  OBVIOUS
<1> HIDE DEF h, r
<1>2. /\ \A k \in DOMAIN q : k = 1 \/ (k - 1 \in DOMAIN r /\ r[k - 1] = q[k])
      /\ \A k \in DOMAIN r : k + 1 \in DOMAIN q /\ q[k + 1] = r[k]
      /\ 1 \in DOMAIN q
  BY <1>1
<1>3. Joins(q, i) <=> Joins(r, i) \/ Adds(h, i)
  BY <1>1, <1>2 DEF Joins
<1>4. Leaves(q, i) <=> Leaves(r, i) \/ Removes(h, i)
  BY <1>1, <1>2 DEF Leaves
<1>5. ASSUME EndsGone(q, i)
      PROVE  EndsGone(r, i) /\ (Adds(h, i) => Leaves(r, i))
  <2>1. ASSUME NEW k \in DOMAIN r, Adds(r[k], i)
        PROVE  \E l \in DOMAIN r : k < l /\ Removes(r[l], i)
    <3>1. Adds(q[k + 1], i)
      BY <1>2, <2>1
    <3>2. PICK l \in DOMAIN q : k + 1 < l /\ Removes(q[l], i)
      BY <1>2, <1>5, <3>1 DEF EndsGone
    <3>3. l - 1 \in DOMAIN r /\ k < l - 1 /\ Removes(r[l - 1], i)
      BY <1>1, <1>2, <3>2
    <3> QED
      BY <3>3
  <2>2. ASSUME Adds(h, i)
        PROVE  Leaves(r, i)
    <3>1. PICK l \in DOMAIN q : 1 < l /\ Removes(q[l], i)
      BY <1>1, <1>2, <1>5, <2>2 DEF EndsGone
    <3> QED
      BY <1>1, <1>2, <3>1 DEF Leaves
  <2> QED
    BY <2>1, <2>2 DEF EndsGone
<1> QED
  BY <1>1, <1>3, <1>4, <1>5 DEF h, r

\* A queue without a join ends with nobody there.
LEMMA NoJoinNews ==
  ASSUME NEW q, NEW i, ~Joins(q, i)
  PROVE  EndsGone(q, i)
BY DEF Joins, EndsGone

-----------------------------------------------------------------------------
(* What a Send does, in the three cases. *)

LEMMA SendCases ==
  ASSUME TypeOK, NEW c \in Session, NEW m \in Message, Send(c, m)
  PROVE  /\ queue' \in [Session -> Seq(Message)]
         /\ open' \in [Session -> BOOLEAN]
         /\ \A s \in Session : Len(queue'[s]) <= Capacity
         /\ \A s \in Session \ {c} : queue'[s] = queue[s] /\ open'[s] = open[s]
         /\ open'[c] => open[c] /\ queue'[c] = Append(queue[c], m)
         /\ queue'[c] \in {queue[c], <<>>, Append(queue[c], m)}
<1>1. /\ queue \in [Session -> Seq(Message)] /\ open \in [Session -> BOOLEAN]
      /\ \A s \in Session : Len(queue[s]) <= Capacity
      /\ Capacity \in Nat
  BY LimitAssumption DEF TypeOK
<1>2. CASE ~open[c] /\ UNCHANGED clientVars
  BY <1>1, <1>2 DEF clientVars
<1>3. CASE /\ open[c] /\ Len(queue[c]) < Capacity
           /\ queue' = [queue EXCEPT ![c] = Append(@, m)]
           /\ UNCHANGED open
  <2>1. /\ Append(queue[c], m) \in Seq(Message)
        /\ Len(Append(queue[c], m)) <= Capacity
    BY <1>1, <1>3
  <2> QED
    BY <1>1, <1>3, <2>1
<1>4. CASE /\ open[c]
           /\ queue' = [queue EXCEPT ![c] = <<>>]
           /\ open' = [open EXCEPT ![c] = FALSE]
  <2>1. <<>> \in Seq(Message) /\ Len(<<>>) <= Capacity
    BY <1>1
  <2> QED
    BY <1>1, <1>4, <2>1
<1> QED
  BY <1>2, <1>3, <1>4 DEF Send

-----------------------------------------------------------------------------
(* Who is in the map. *)

LEMMA Members ==
  ASSUME TypeOK, HubInv, NEW i \in Present
  PROVE  room[i] \in Session /\ IdOf[room[i]] = i /\ InRoom(room[i]) /\ i \in Id
BY DEF TypeOK, HubInv, Present

LEMMA MembersArePresent ==
  ASSUME TypeOK, HubInv, NEW d \in Session
  PROVE  /\ IdOf[d] \in Id
         /\ InRoom(d) => IdOf[d] \in Present
         /\ UniqueIds /\ IdOf[d] \in Present => InRoom(d)
BY IdAssumption, NoClientAssumption, Members DEF TypeOK, HubInv, Present, UniqueIds

\* A member that still has its websocket, and every other open session that
\* has come, is in the map.
LEMMA OpenAreMembers ==
  ASSUME TypeOK, HubInv, NEW c \in Session, open[c], phase[c] # "new"
  PROVE  InRoom(c) /\ IdOf[c] \in Present
<1>1. InRoom(c)
  BY DEF TypeOK, HubInv, InRoom
<1> QED
  BY <1>1, MembersArePresent

LEMMA InitInv == Init => IndInv
<1> SUFFICES ASSUME Init PROVE IndInv
  OBVIOUS
<1>1. <<>> \in Seq(Message) /\ Len(<<>>) = 0
  OBVIOUS
<1>2. TypeOK
  <2>1. \A s \in Session : Len(queue[s]) <= Capacity
    BY <1>1, LimitAssumption DEF Init
  <2>2. [type |-> "chat", peers |-> {}] \in Message
    BY DEF Message
  <2> QED
    BY <1>1, <2>1, <2>2 DEF Init, TypeOK
<1>3. HubInv
  BY NoClientAssumption DEF Init, HubInv, InRoom
<1>4. SendingInv
  BY DEF Init, SendingInv
<1>5. HearsayInv
  <2>1. \A c \in Session, i \in Id : ~HearsOf(c, i)
    BY EmptyNews DEF Init, HearsOf
  <2>2. \A c, d \in Session : ~Leaves(queue[c], IdOf[d])
    BY EmptyNews DEF Init
  <2> QED
    BY <2>1, <2>2 DEF Init, HearsayInv
<1>6. NewsInv
  BY DEF Init, NewsInv
<1> QED
  BY <1>2, <1>3, <1>4, <1>5, <1>6 DEF IndInv

-----------------------------------------------------------------------------
(* One lemma per action. *)

\* A step that puts nothing on a queue, takes nothing off one and moves a
\* session along leaves what the clients have heard as it was.
LEMMA SilentKeepsHearsay ==
  ASSUME HearsayInv, UNCHANGED <<existing, queue, roster>>,
         \A s \in Session :
            /\ phase'[s] = "new" <=> phase[s] = "new"
            /\ phase[s] = "gone" => phase'[s] = "gone"
            /\ phase[s] \in {"joined", "listing"} => phase'[s] \in {"joined", "listing"}
  PROVE  HearsayInv'
<1>1. \A c \in Session, i \in Id : HearsOf(c, i)' <=> HearsOf(c, i)
  BY DEF HearsOf
<1>2. \A c \in Session, d \in Session :
         Leaves(queue[c], IdOf[d])' => phase'[d] = "gone"
  BY DEF HearsayInv
<1>3. \A c \in Session, i \in Id : HearsOf(c, i)' =>
         \E d \in Session \ {c} : IdOf[d] = i /\ phase'[d] # "new"
  BY <1>1 DEF HearsayInv
<1> QED
  BY <1>2, <1>3 DEF HearsayInv

LEMMA OnPeerJoinInv ==
  ASSUME IndInv, NEW s \in Session, OnPeerJoin(s)
  PROVE  IndInv'
<1>0. /\ TypeOK /\ HubInv /\ SendingInv /\ HearsayInv /\ NewsInv
      /\ phase[s] = "joined" /\ phase' = [phase EXCEPT ![s] = "listing"]
      /\ sfu' = sfu \cup {s}
      /\ UNCHANGED <<room, existing, queue, open, sending, chatted, roster, overtaken>>
  BY DEF IndInv, OnPeerJoin, hubVars, clientVars
<1>1. /\ \A d \in Session \ {s} : phase'[d] = phase[d]
      /\ phase'[s] = "listing"
  BY <1>0 DEF TypeOK
<1>2. TypeOK'
  BY <1>0 DEF TypeOK
<1>3. HubInv'
  BY <1>0, <1>1 DEF HubInv, InRoom, Present
<1>4. SendingInv'
  BY <1>0, <1>1 DEF SendingInv
<1>5. HearsayInv'
  BY <1>0, <1>1, SilentKeepsHearsay
<1>6. NewsInv'
  BY <1>0, <1>1 DEF NewsInv, InRoom, WillKnow, WillForget
<1> QED
  BY <1>2, <1>3, <1>4, <1>5, <1>6 DEF IndInv

LEMMA StartsBroadcast ==
  ASSUME TypeOK, HubInv, NEW s \in Session,
         NEW type \in {"peer-joined", "peer-left", "chat"}, StartBroadcast(s, type)
  PROVE  /\ sending' \in [Session -> [msg : Message, to : SUBSET Id]]
         /\ \A d \in Session \ {s} : sending'[d] = sending[d]
         /\ sending'[s].msg.type = type /\ sending'[s].msg.peers = {IdOf[s]}
         /\ sending'[s].to = Present \ {IdOf[s]}
<1> DEFINE new == [msg |-> [type |-> type, peers |-> {IdOf[s]}],
                   to |-> Present \ {IdOf[s]}]
<1>1. new \in [msg : Message, to : SUBSET Id]
  BY IdAssumption DEF Message, Present
<1>2. new.msg.type = type /\ new.msg.peers = {IdOf[s]} /\ new.to = Present \ {IdOf[s]}
  OBVIOUS
<1>3. sending' = [sending EXCEPT ![s] = new]
  BY DEF StartBroadcast
<1> HIDE DEF new
<1> QED
  BY <1>1, <1>2, <1>3 DEF TypeOK

LEMMA AnnounceJoinInv ==
  ASSUME UniqueIds, IndInv, NEW s \in Session, AnnounceJoin(s)
  PROVE  IndInv'
<1>0. /\ TypeOK /\ HubInv /\ SendingInv /\ HearsayInv /\ NewsInv
      /\ phase[s] = "announcing" /\ phase' = [phase EXCEPT ![s] = "live"]
      /\ StartBroadcast(s, "peer-joined")
      /\ UNCHANGED <<room, existing, queue, open, sfu, chatted, roster, overtaken>>
  BY DEF IndInv, AnnounceJoin, hubVars, clientVars
<1>1. /\ \A d \in Session \ {s} : phase'[d] = phase[d]
      /\ phase'[s] = "live"
  BY <1>0 DEF TypeOK
<1>s. /\ sending' \in [Session -> [msg : Message, to : SUBSET Id]]
      /\ \A d \in Session \ {s} : sending'[d] = sending[d]
      /\ sending'[s].msg.type = "peer-joined" /\ sending'[s].msg.peers = {IdOf[s]}
      /\ sending'[s].to = Present \ {IdOf[s]}
  BY <1>0, StartsBroadcast
<1>f. sending[s].to = {}
  BY <1>0 DEF SendingInv
<1>2. TypeOK'
  BY <1>0, <1>s DEF TypeOK
<1>3. HubInv'
  BY <1>0, <1>1, <1>s DEF HubInv, InRoom, Present
<1>4. SendingInv'
  BY <1>0, <1>1, <1>s DEF SendingInv
<1>5. HearsayInv'
  BY <1>0, <1>1, SilentKeepsHearsay
<1>6. NewsInv'
  <2> SUFFICES ASSUME NEW c \in Session, NEW d \in Session,
                      c # d, open'[c], phase'[c] # "new"
               PROVE  /\ InRoom(d)' => WillKnow(c, d)'
                      /\ phase'[d] = "gone" => WillForget(c, d)'
    BY DEF NewsInv
  <2>1. /\ InRoom(d) => WillKnow(c, d)
        /\ phase[d] = "gone" => WillForget(c, d)
    BY <1>0, <1>1 DEF NewsInv
  <2>2. CASE d = s
    <3>1. IdOf[c] \in Present /\ IdOf[c] # IdOf[s]
      BY <1>0, <1>1, <2>2, OpenAreMembers DEF UniqueIds
    <3> QED
      BY <1>1, <1>s, <2>2, <3>1 DEF WillKnow
  <2>3. CASE d # s
    BY <1>0, <1>1, <1>s, <2>1, <2>3 DEF InRoom, WillKnow, WillForget
  <2> QED
    BY <2>2, <2>3
<1> QED
  BY <1>2, <1>3, <1>4, <1>5, <1>6 DEF IndInv

LEMMA ChatInv ==
  ASSUME IndInv, NEW s \in Session, Chat(s)
  PROVE  IndInv'
<1>0. /\ TypeOK /\ HubInv /\ SendingInv /\ HearsayInv /\ NewsInv
      /\ phase[s] = "live" /\ sending[s].to = {}
      /\ s \in Talker /\ chatted' = chatted \cup {s}
      /\ StartBroadcast(s, "chat")
      /\ UNCHANGED <<room, phase, existing, queue, open, sfu, roster, overtaken>>
  BY DEF IndInv, Chat, Free, hubVars, clientVars
<1>s. /\ sending' \in [Session -> [msg : Message, to : SUBSET Id]]
      /\ \A d \in Session \ {s} : sending'[d] = sending[d]
      /\ sending'[s].msg.type = "chat" /\ sending'[s].msg.peers = {IdOf[s]}
      /\ sending'[s].to = Present \ {IdOf[s]}
  BY <1>0, StartsBroadcast
<1>2. TypeOK'
  BY <1>0, <1>s DEF TypeOK
<1>3. HubInv'
  BY <1>0, <1>s DEF HubInv, InRoom, Present
<1>4. SendingInv'
  BY <1>0, <1>s DEF SendingInv
<1>5. HearsayInv'
  BY <1>0, SilentKeepsHearsay
<1>6. NewsInv'
  <2> SUFFICES ASSUME NEW c \in Session, NEW d \in Session,
                      c # d, open'[c], phase'[c] # "new"
               PROVE  /\ InRoom(d)' => WillKnow(c, d)'
                      /\ phase'[d] = "gone" => WillForget(c, d)'
    BY DEF NewsInv
  <2>1. /\ InRoom(d) => WillKnow(c, d)
        /\ phase[d] = "gone" => WillForget(c, d)
    BY <1>0 DEF NewsInv
  <2> QED
    BY <1>0, <1>s, <2>1 DEF InRoom, WillKnow, WillForget
<1> QED
  BY <1>2, <1>3, <1>4, <1>5, <1>6 DEF IndInv

LEMMA OnPeerLeaveInv ==
  ASSUME IndInv, NEW s \in Session, OnPeerLeave(s)
  PROVE  IndInv'
<1>0. /\ TypeOK /\ HubInv /\ SendingInv /\ HearsayInv /\ NewsInv
      /\ phase[s] = "live" /\ phase' = [phase EXCEPT ![s] = "leaving"]
      /\ sending[s].to = {} /\ ~open[s] /\ sfu' = sfu \ {s}
      /\ UNCHANGED <<room, existing, queue, open, sending, chatted, roster, overtaken>>
  BY DEF IndInv, OnPeerLeave, Free, hubVars, clientVars
<1>1. /\ \A d \in Session \ {s} : phase'[d] = phase[d]
      /\ phase'[s] = "leaving"
  BY <1>0 DEF TypeOK
<1>2. TypeOK'
  BY <1>0 DEF TypeOK
<1>3. HubInv'
  <2>1. \A i \in Id, d \in Session : room'[i] = d <=> IdOf[d] = i /\ InRoom(d)'
    BY <1>0, <1>1 DEF HubInv, InRoom
  <2>2. \A d \in sfu' : phase'[d] \in {"listing", "announcing", "live"}
    BY <1>0, <1>1 DEF HubInv, TypeOK
  <2>3. \A d \in Session : sending'[d].to \subseteq Present'
    BY <1>0 DEF HubInv, Present
  <2>4. \A d \in Session : phase'[d] \in {"leaving", "left", "gone"} => ~open'[d]
    BY <1>0, <1>1 DEF HubInv
  <2> QED
    BY <2>1, <2>2, <2>3, <2>4 DEF HubInv
<1>4. SendingInv'
  BY <1>0, <1>1 DEF SendingInv
<1>5. HearsayInv'
  BY <1>0, <1>1, SilentKeepsHearsay
<1>6. NewsInv'
  BY <1>0, <1>1 DEF NewsInv, InRoom, WillKnow, WillForget
<1> QED
  BY <1>2, <1>3, <1>4, <1>5, <1>6 DEF IndInv

\* Nobody is in a broadcast, so nobody is waiting for the one who leaves.
LEMMA HubLeaveInv ==
  ASSUME UniqueIds, IndInv, NEW s \in Session, HubLeave(s)
  PROVE  IndInv'
<1>0. /\ TypeOK /\ HubInv /\ SendingInv /\ HearsayInv /\ NewsInv
      /\ phase[s] = "leaving" /\ phase' = [phase EXCEPT ![s] = "left"]
      /\ \A d \in Session : sending[d].to = {}
      /\ room' = [room EXCEPT ![IdOf[s]] = NoClient]
      /\ UNCHANGED <<existing, queue, open, sending, sfu, chatted, roster, overtaken>>
  BY DEF IndInv, HubLeave, Unlocked, Free, clientVars
<1>1. /\ \A d \in Session \ {s} : phase'[d] = phase[d]
      /\ phase'[s] = "left"
  BY <1>0 DEF TypeOK
<1>2. TypeOK'
  BY <1>0, IdAssumption DEF TypeOK
<1>3. HubInv'
  <2>1. ASSUME NEW i \in Id, NEW d \in Session
        PROVE  room'[i] = d <=> IdOf[d] = i /\ InRoom(d)'
    <3>1. room[i] = d <=> IdOf[d] = i /\ InRoom(d)
      BY <1>0 DEF HubInv
    <3>2. CASE i = IdOf[s]
      <4>1. room'[i] = NoClient
        BY <1>0, <3>2 DEF TypeOK
      <4>2. IdOf[d] = i => d = s
        BY <3>2 DEF UniqueIds
      <4> QED
        BY <1>1, <4>1, <4>2, NoClientAssumption DEF InRoom
    <3>3. CASE i # IdOf[s]
      <4>1. room'[i] = room[i]
        BY <1>0, <3>3 DEF TypeOK
      <4> QED
        BY <1>1, <3>1, <3>3, <4>1 DEF InRoom
    <3> QED
      BY <3>2, <3>3
  <2>2. \A d \in sfu' : phase'[d] \in {"listing", "announcing", "live"}
    BY <1>0, <1>1 DEF HubInv, TypeOK
  <2>3. \A d \in Session : sending'[d].to \subseteq Present'
    BY <1>0
  <2>4. \A d \in Session : phase'[d] \in {"leaving", "left", "gone"} => ~open'[d]
    BY <1>0, <1>1 DEF HubInv
  <2> QED
    BY <2>1, <2>2, <2>3, <2>4 DEF HubInv
<1>4. SendingInv'
  BY <1>0 DEF SendingInv
<1>5. HearsayInv'
  BY <1>0, <1>1, SilentKeepsHearsay
<1>6. NewsInv'
  BY <1>0, <1>1 DEF NewsInv, InRoom, WillKnow, WillForget
<1> QED
  BY <1>2, <1>3, <1>4, <1>5, <1>6 DEF IndInv

LEMMA AnnounceLeaveInv ==
  ASSUME UniqueIds, IndInv, NEW s \in Session, AnnounceLeave(s)
  PROVE  IndInv'
<1>0. /\ TypeOK /\ HubInv /\ SendingInv /\ HearsayInv /\ NewsInv
      /\ phase[s] = "left" /\ phase' = [phase EXCEPT ![s] = "gone"]
      /\ StartBroadcast(s, "peer-left")
      /\ UNCHANGED <<room, existing, queue, open, sfu, chatted, roster, overtaken>>
  BY DEF IndInv, AnnounceLeave, hubVars, clientVars
<1>1. /\ \A d \in Session \ {s} : phase'[d] = phase[d]
      /\ phase'[s] = "gone"
  BY <1>0 DEF TypeOK
<1>s. /\ sending' \in [Session -> [msg : Message, to : SUBSET Id]]
      /\ \A d \in Session \ {s} : sending'[d] = sending[d]
      /\ sending'[s].msg.type = "peer-left" /\ sending'[s].msg.peers = {IdOf[s]}
      /\ sending'[s].to = Present \ {IdOf[s]}
  BY <1>0, StartsBroadcast
<1>2. TypeOK'
  BY <1>0, <1>s DEF TypeOK
<1>3. HubInv'
  BY <1>0, <1>1, <1>s DEF HubInv, InRoom, Present
<1>4. SendingInv'
  BY <1>0, <1>1, <1>s DEF SendingInv
<1>5. HearsayInv'
  BY <1>0, <1>1, SilentKeepsHearsay
<1>6. NewsInv'
  <2> SUFFICES ASSUME NEW c \in Session, NEW d \in Session,
                      c # d, open'[c], phase'[c] # "new"
               PROVE  /\ InRoom(d)' => WillKnow(c, d)'
                      /\ phase'[d] = "gone" => WillForget(c, d)'
    BY DEF NewsInv
  <2>1. /\ InRoom(d) => WillKnow(c, d)
        /\ phase[d] = "gone" => WillForget(c, d)
    BY <1>0, <1>1 DEF NewsInv
  <2>2. CASE d = s
    <3>1. IdOf[c] \in Present /\ IdOf[c] # IdOf[s]
      BY <1>0, <1>1, <2>2, OpenAreMembers DEF UniqueIds
    <3> QED
      BY <1>1, <1>s, <2>2, <3>1 DEF WillForget, InRoom
  <2>3. CASE d # s
    BY <1>0, <1>1, <1>s, <2>1, <2>3 DEF InRoom, WillKnow, WillForget
  <2> QED
    BY <2>2, <2>3
<1> QED
  BY <1>2, <1>3, <1>4, <1>5, <1>6 DEF IndInv

\* Of a session that has not come, nobody has heard.
LEMMA NobodyHasHeard ==
  ASSUME UniqueIds, TypeOK, HearsayInv, NEW s \in Session, phase[s] = "new",
         NEW c \in Session
  PROVE  ~HearsOf(c, IdOf[s])
BY IdAssumption DEF HearsayInv, UniqueIds

LEMMA HubJoinInv ==
  ASSUME UniqueIds, IndInv, NEW s \in Session, HubJoin(s)
  PROVE  IndInv'
<1>0. /\ TypeOK /\ HubInv /\ SendingInv /\ HearsayInv /\ NewsInv
      /\ phase[s] = "new" /\ phase' = [phase EXCEPT ![s] = "joined"]
      /\ \A d \in Session : sending[d].to = {}
      /\ existing' = [existing EXCEPT ![s] = Present]
      /\ room' = [room EXCEPT ![IdOf[s]] = s]
      /\ UNCHANGED <<queue, open, sending, sfu, chatted, roster, overtaken>>
  BY DEF IndInv, HubJoin, Unlocked, Free, clientVars
<1>1. /\ \A d \in Session \ {s} : phase'[d] = phase[d] /\ existing'[d] = existing[d]
      /\ phase'[s] = "joined" /\ existing'[s] = Present /\ Present \subseteq Id
  BY <1>0 DEF TypeOK, Present
<1>n. IdOf[s] \in Id /\ IdOf[s] \notin Present
  BY <1>0, MembersArePresent DEF InRoom
<1>2. TypeOK'
  BY <1>0, <1>1, <1>n DEF TypeOK
<1>3. HubInv'
  <2>1. ASSUME NEW i \in Id, NEW d \in Session
        PROVE  room'[i] = d <=> IdOf[d] = i /\ InRoom(d)'
    <3>1. room[i] = d <=> IdOf[d] = i /\ InRoom(d)
      BY <1>0 DEF HubInv
    <3>2. CASE i = IdOf[s]
      <4>1. room'[i] = s
        BY <1>0, <3>2 DEF TypeOK
      <4>2. IdOf[d] = i => d = s
        BY <3>2 DEF UniqueIds
      <4> QED
        BY <1>1, <3>2, <4>1, <4>2 DEF InRoom
    <3>3. CASE i # IdOf[s]
      <4>1. room'[i] = room[i]
        BY <1>0, <3>3 DEF TypeOK
      <4> QED
        BY <1>1, <3>1, <3>3, <4>1 DEF InRoom
    <3> QED
      BY <3>2, <3>3
  <2>2. \A d \in sfu' : phase'[d] \in {"listing", "announcing", "live"}
    BY <1>0, <1>1 DEF HubInv, TypeOK
  <2>3. \A d \in Session : sending'[d].to \subseteq Present'
    BY <1>0
  <2>4. \A d \in Session : phase'[d] \in {"leaving", "left", "gone"} => ~open'[d]
    BY <1>0, <1>1 DEF HubInv
  <2> QED
    BY <2>1, <2>2, <2>3, <2>4 DEF HubInv
<1>4. SendingInv'
  BY <1>0 DEF SendingInv
<1>5. HearsayInv'
  <2>1. \A c \in Session : phase'[c] \notin {"joined", "listing"} => existing'[c] = {}
    BY <1>0, <1>1 DEF HearsayInv
  <2>2. \A c \in Session : phase'[c] = "new" => queue'[c] = <<>> /\ roster'[c] = {}
    BY <1>0, <1>1 DEF HearsayInv
  <2>3. ASSUME NEW c \in Session, NEW i \in Id, HearsOf(c, i)'
        PROVE  \E d \in Session \ {c} : IdOf[d] = i /\ phase'[d] # "new"
    <3>1. CASE HearsOf(c, i)
      BY <1>0, <1>1, <3>1 DEF HearsayInv
    <3>2. CASE ~HearsOf(c, i)
      <4>1. c = s /\ i \in Present
        BY <1>0, <1>1, <2>3, <3>2 DEF HearsOf
      <4>2. room[i] \in Session /\ IdOf[room[i]] = i /\ InRoom(room[i])
        BY <1>0, <4>1, Members
      <4> QED
        BY <1>0, <1>1, <4>1, <4>2 DEF InRoom
    <3> QED
      BY <3>1, <3>2
  <2>4. \A c, d \in Session : Leaves(queue[c], IdOf[d])' => phase'[d] = "gone"
    BY <1>0, <1>1 DEF HearsayInv
  <2> QED
    BY <2>1, <2>2, <2>3, <2>4 DEF HearsayInv
<1>6. NewsInv'
  <2> SUFFICES ASSUME NEW c \in Session, NEW d \in Session,
                      c # d, open'[c], phase'[c] # "new"
               PROVE  /\ InRoom(d)' => WillKnow(c, d)'
                      /\ phase'[d] = "gone" => WillForget(c, d)'
    BY DEF NewsInv
  <2>1. CASE c = s
    <3>1. InRoom(d)' => WillKnow(c, d)'
      <4> SUFFICES ASSUME InRoom(d)' PROVE IdOf[d] \in existing'[c]
        BY DEF WillKnow
      <4>1. InRoom(d)
        BY <1>1, <2>1 DEF InRoom
      <4> QED
        BY <1>0, <1>1, <2>1, <4>1, MembersArePresent
    <3>2. ASSUME phase'[d] = "gone" PROVE WillForget(c, d)'
      <4>1. phase[d] = "gone" /\ IdOf[d] \notin Present
        BY <1>0, <1>1, <2>1, <3>2, MembersArePresent DEF InRoom
      <4>2. EndsGone(queue[c], IdOf[d]) /\ IdOf[d] \notin roster[c]
        BY <1>0, <2>1, EmptyNews DEF HearsayInv
      <4> QED
        BY <1>0, <1>1, <2>1, <4>1, <4>2 DEF WillForget
    <3> QED
      BY <3>1, <3>2
  <2>2. CASE c # s
    <3>1. /\ InRoom(d) => WillKnow(c, d)
          /\ phase[d] = "gone" => WillForget(c, d)
      BY <1>0, <1>1, <2>2 DEF NewsInv
    <3> QED
      BY <1>0, <1>1, <2>2, <3>1 DEF InRoom, WillKnow, WillForget
  <2> QED
    BY <2>1, <2>2
<1> QED
  BY <1>2, <1>3, <1>4, <1>5, <1>6 DEF IndInv

LEMMA HubRejectsInv ==
  ASSUME UniqueIds, IndInv, NEW s \in Session, HubRejects(s)
  PROVE  IndInv'
<1>0. /\ TypeOK /\ HubInv /\ SendingInv /\ HearsayInv /\ NewsInv
      /\ phase[s] = "new" /\ phase' = [phase EXCEPT ![s] = "gone"]
      /\ \A d \in Session : sending[d].to = {}
      /\ open' = [open EXCEPT ![s] = FALSE]
      /\ UNCHANGED <<room, existing, queue, sending, sfu, chatted, roster, overtaken>>
  BY DEF IndInv, HubRejects, Unlocked, Free, hubVars
<1>1. /\ \A d \in Session \ {s} : phase'[d] = phase[d] /\ open'[d] = open[d]
      /\ phase'[s] = "gone" /\ ~open'[s]
  BY <1>0 DEF TypeOK
<1>2. TypeOK'
  BY <1>0 DEF TypeOK
<1>3. HubInv'
  <2>1. \A i \in Id, d \in Session : room'[i] = d <=> IdOf[d] = i /\ InRoom(d)'
    BY <1>0, <1>1 DEF HubInv, InRoom
  <2>2. \A d \in sfu' : phase'[d] \in {"listing", "announcing", "live"}
    BY <1>0, <1>1 DEF HubInv, TypeOK
  <2>3. \A d \in Session : sending'[d].to \subseteq Present'
    BY <1>0
  <2>4. \A d \in Session : phase'[d] \in {"leaving", "left", "gone"} => ~open'[d]
    BY <1>0, <1>1 DEF HubInv
  <2> QED
    BY <2>1, <2>2, <2>3, <2>4 DEF HubInv
<1>4. SendingInv'
  BY <1>0 DEF SendingInv
<1>5. HearsayInv'
  <2>1. \A c \in Session : phase'[c] \notin {"joined", "listing"} => existing'[c] = {}
    BY <1>0, <1>1 DEF HearsayInv
  <2>2. \A c \in Session : phase'[c] = "new" => queue'[c] = <<>> /\ roster'[c] = {}
    BY <1>0, <1>1 DEF HearsayInv
  <2>3. \A c \in Session, i \in Id : HearsOf(c, i)' =>
           \E d \in Session \ {c} : IdOf[d] = i /\ phase'[d] # "new"
    BY <1>0, <1>1 DEF HearsayInv, HearsOf
  <2>4. \A c, d \in Session : Leaves(queue[c], IdOf[d])' => phase'[d] = "gone"
    BY <1>0, <1>1 DEF HearsayInv
  <2> QED
    BY <2>1, <2>2, <2>3, <2>4 DEF HearsayInv
<1>6. NewsInv'
  <2> SUFFICES ASSUME NEW c \in Session, NEW d \in Session,
                      c # d, open'[c], phase'[c] # "new"
               PROVE  /\ InRoom(d)' => WillKnow(c, d)'
                      /\ phase'[d] = "gone" => WillForget(c, d)'
    BY DEF NewsInv
  <2>0. c # s /\ open[c] /\ phase[c] # "new"
    BY <1>1
  <2>1. /\ InRoom(d) => WillKnow(c, d)
        /\ phase[d] = "gone" => WillForget(c, d)
    BY <1>0, <2>0 DEF NewsInv
  <2>2. CASE d = s
    <3>1. ~HearsOf(c, IdOf[s])
      BY <1>0, NobodyHasHeard
    <3>2. EndsGone(queue[c], IdOf[s])
      BY <3>1, NoJoinNews DEF HearsOf
    <3> QED
      BY <1>0, <1>1, <2>2, <3>1, <3>2 DEF HearsOf, WillForget, InRoom
  <2>3. CASE d # s
    BY <1>0, <1>1, <2>1, <2>3 DEF InRoom, WillKnow, WillForget
  <2> QED
    BY <2>2, <2>3
<1> QED
  BY <1>2, <1>3, <1>4, <1>5, <1>6 DEF IndInv

LEMMA DisconnectInv ==
  ASSUME IndInv, NEW s \in Session, Disconnect(s)
  PROVE  IndInv'
<1>0. /\ TypeOK /\ HubInv /\ SendingInv /\ HearsayInv /\ NewsInv
      /\ phase[s] # "new"
      /\ open' = [open EXCEPT ![s] = FALSE]
      /\ queue' = [queue EXCEPT ![s] = <<>>]
      /\ UNCHANGED <<room, phase, existing, sending, sfu, chatted, roster, overtaken>>
  BY DEF IndInv, Disconnect, hubVars
<1>1. /\ \A d \in Session \ {s} : queue'[d] = queue[d] /\ open'[d] = open[d]
      /\ queue'[s] = <<>> /\ ~open'[s]
  BY <1>0 DEF TypeOK
<1>2. TypeOK'
  <2>1. <<>> \in Seq(Message) /\ Len(<<>>) <= Capacity
    BY LimitAssumption
  <2>2. queue' \in [Session -> Seq(Message)] /\ open' \in [Session -> BOOLEAN]
    BY <1>0, <2>1 DEF TypeOK
  <2>3. \A d \in Session : Len(queue'[d]) <= Capacity
    BY <1>0, <1>1, <2>1 DEF TypeOK
  <2> QED
    BY <1>0, <2>2, <2>3 DEF TypeOK
<1>3. HubInv'
  BY <1>0, <1>1 DEF HubInv, InRoom, Present
<1>4. SendingInv'
  BY <1>0 DEF SendingInv
<1>5. HearsayInv'
  <2>1. \A c \in Session, i \in Id :
           /\ Joins(queue[c], i)' => Joins(queue[c], i)
           /\ Leaves(queue[c], i)' => Leaves(queue[c], i)
    BY <1>1, EmptyNews
  <2>2. \A c \in Session, i \in Id : HearsOf(c, i)' => HearsOf(c, i)
    BY <1>0, <2>1 DEF HearsOf
  <2>3. \A c \in Session : phase'[c] = "new" => queue'[c] = <<>> /\ roster'[c] = {}
    BY <1>0, <1>1 DEF HearsayInv
  <2>4. \A c, d \in Session : Leaves(queue[c], IdOf[d])' => phase'[d] = "gone"
    BY <1>0, <2>1, IdAssumption DEF HearsayInv
  <2>5. \A c \in Session, i \in Id : HearsOf(c, i)' =>
           \E d \in Session \ {c} : IdOf[d] = i /\ phase'[d] # "new"
    BY <1>0, <2>2 DEF HearsayInv
  <2> QED
    BY <1>0, <2>3, <2>4, <2>5 DEF HearsayInv
<1>6. NewsInv'
  BY <1>0, <1>1 DEF NewsInv, InRoom, WillKnow, WillForget
<1> QED
  BY <1>2, <1>3, <1>4, <1>5, <1>6 DEF IndInv

\* The client takes the head of its queue: what it knew of a peer from the
\* queue it knows now, and only a peer that is over can be struck off.
LEMMA DeliverInv ==
  ASSUME UniqueIds, IndInv, NEW s \in Session, Deliver(s)
  PROVE  IndInv'
<1> DEFINE h == Head(queue[s])
           q == Tail(queue[s])
<1>0. /\ TypeOK /\ HubInv /\ SendingInv /\ HearsayInv /\ NewsInv
      /\ phase[s] = "live" /\ queue[s] # <<>>
      /\ roster' = [roster EXCEPT ![s] = Told(roster[s], h)]
      /\ queue' = [queue EXCEPT ![s] = q]
      /\ UNCHANGED <<room, phase, existing, open, sending, sfu, chatted, overtaken>>
  BY DEF IndInv, Deliver, hubVars
<1>1. /\ queue \in [Session -> Seq(Message)] /\ roster \in [Session -> SUBSET Id]
      /\ \A d \in Session : Len(queue[d]) <= Capacity
      /\ Capacity \in Nat /\ existing[s] = {}
  BY <1>0, LimitAssumption DEF TypeOK, HearsayInv
<1>h. /\ h \in Message /\ q \in Seq(Message) /\ Len(q) <= Len(queue[s])
      /\ \A i \in Id :
            /\ Joins(queue[s], i) <=> Joins(q, i) \/ Adds(h, i)
            /\ Leaves(queue[s], i) <=> Leaves(q, i) \/ Removes(h, i)
            /\ EndsGone(queue[s], i) => /\ EndsGone(q, i)
                                        /\ Adds(h, i) => Leaves(q, i)
  BY <1>0, <1>1, HeadNews
<1> HIDE DEF h, q
<1>t. /\ Told(roster[s], h) \subseteq Id
      /\ \A i \in Id : i \in Told(roster[s], h) <=>
            Adds(h, i) \/ (i \in roster[s] /\ ~Removes(h, i))
  BY <1>1, <1>h DEF Told, Adds, Removes, Message
<1>2. /\ \A d \in Session \ {s} : queue'[d] = queue[d] /\ roster'[d] = roster[d]
      /\ queue'[s] = q /\ roster'[s] = Told(roster[s], h)
  BY <1>0, <1>1
<1>3. TypeOK'
  <2>1. queue' \in [Session -> Seq(Message)] /\ roster' \in [Session -> SUBSET Id]
    BY <1>0, <1>1, <1>h, <1>t
  <2>2. Len(q) \in Nat /\ Len(queue[s]) \in Nat
    BY <1>1, <1>h
  <2>3. \A d \in Session : Len(queue'[d]) <= Capacity
    BY <1>1, <1>2, <1>h, <2>2
  <2> QED
    BY <1>0, <2>1, <2>3 DEF TypeOK
<1>4. HubInv'
  BY <1>0 DEF HubInv, InRoom, Present
<1>5. SendingInv'
  BY <1>0 DEF SendingInv
<1>6. HearsayInv'
  <2>1. \A c \in Session, i \in Id : Leaves(queue[c], i)' => Leaves(queue[c], i)
    BY <1>2, <1>h
  <2>2. \A c \in Session, i \in Id : HearsOf(c, i)' => HearsOf(c, i)
    BY <1>0, <1>2, <1>h, <1>t DEF HearsOf
  <2>3. \A c \in Session : phase'[c] = "new" => queue'[c] = <<>> /\ roster'[c] = {}
    BY <1>0, <1>2 DEF HearsayInv
  <2>4. \A c, d \in Session : Leaves(queue[c], IdOf[d])' => phase'[d] = "gone"
    BY <1>0, <2>1, IdAssumption DEF HearsayInv
  <2>5. \A c \in Session, i \in Id : HearsOf(c, i)' =>
           \E d \in Session \ {c} : IdOf[d] = i /\ phase'[d] # "new"
    BY <1>0, <2>2 DEF HearsayInv
  <2> QED
    BY <1>0, <2>3, <2>4, <2>5 DEF HearsayInv
<1>7. NewsInv'
  <2> SUFFICES ASSUME NEW c \in Session, NEW d \in Session,
                      c # d, open'[c], phase'[c] # "new"
               PROVE  /\ InRoom(d)' => WillKnow(c, d)'
                      /\ phase'[d] = "gone" => WillForget(c, d)'
    BY DEF NewsInv
  <2>1. /\ InRoom(d) => WillKnow(c, d)
        /\ phase[d] = "gone" => WillForget(c, d)
        /\ IdOf[d] \in Id
    BY <1>0, IdAssumption DEF NewsInv
  <2>2. CASE c = s
    <3>1. InRoom(d) => ~Leaves(queue[s], IdOf[d])
      BY <1>0 DEF HearsayInv, InRoom
    <3>2. InRoom(d)' => WillKnow(c, d)'
      BY <1>0, <1>2, <1>h, <1>t, <2>1, <2>2, <3>1 DEF WillKnow, InRoom
    <3>3. phase'[d] = "gone" => WillForget(c, d)'
      BY <1>0, <1>2, <1>h, <1>t, <2>1, <2>2 DEF WillForget
    <3> QED
      BY <3>2, <3>3
  <2>3. CASE c # s
    BY <1>0, <1>2, <2>1, <2>3 DEF InRoom, WillKnow, WillForget
  <2> QED
    BY <2>2, <2>3
<1> QED
  BY <1>3, <1>4, <1>5, <1>6, <1>7 DEF IndInv

\* The list says of the peers that the session was to hear of that they are
\* there: it moves what existing says to the queue.
LEMMA SendPeersListInv ==
  ASSUME UniqueIds, IndInv, NEW s \in Session, SendPeersList(s)
  PROVE  IndInv'
<1> DEFINE m == [type |-> "peers-list", peers |-> existing[s]]
<1>0. /\ TypeOK /\ HubInv /\ SendingInv /\ HearsayInv /\ NewsInv
      /\ phase[s] = "listing" /\ phase' = [phase EXCEPT ![s] = "announcing"]
      /\ Send(s, m)
      /\ existing' = [existing EXCEPT ![s] = {}]
      /\ UNCHANGED <<room, sending, sfu, chatted, roster, overtaken>>
  BY DEF IndInv, SendPeersList
<1>m. /\ m \in Message
      /\ \A i \in Id : (Adds(m, i) <=> i \in existing[s]) /\ ~Removes(m, i)
  BY <1>0 DEF TypeOK, Message, Adds, Removes
<1> HIDE DEF m
<1>1. /\ \A d \in Session \ {s} : phase'[d] = phase[d] /\ existing'[d] = existing[d]
      /\ phase'[s] = "announcing" /\ existing'[s] = {}
  BY <1>0 DEF TypeOK
<1>q. /\ queue' \in [Session -> Seq(Message)]
      /\ open' \in [Session -> BOOLEAN]
      /\ \A d \in Session : Len(queue'[d]) <= Capacity
      /\ \A d \in Session \ {s} : queue'[d] = queue[d] /\ open'[d] = open[d]
      /\ open'[s] => open[s] /\ queue'[s] = Append(queue[s], m)
      /\ queue'[s] \in {queue[s], <<>>, Append(queue[s], m)}
  BY <1>0, <1>m, SendCases
<1>a. \A i \in Id :
         /\ Joins(Append(queue[s], m), i) <=> Joins(queue[s], i) \/ i \in existing[s]
         /\ Leaves(Append(queue[s], m), i) <=> Leaves(queue[s], i)
         /\ EndsGone(queue[s], i) /\ i \notin existing[s]
               => EndsGone(Append(queue[s], m), i)
  <2>1. queue[s] \in Seq(Message)
    BY <1>0 DEF TypeOK
  <2> QED
    BY <1>m, <2>1, AppendNews
<1>o. \A d \in Session : open'[d] => open[d]
  BY <1>q
<1>2. TypeOK'
  <2>1. existing' \in [Session -> SUBSET Id]
    BY <1>0 DEF TypeOK
  <2> QED
    BY <1>0, <1>q, <2>1 DEF TypeOK
<1>3. HubInv'
  <2>1. \A i \in Id, d \in Session : room'[i] = d <=> IdOf[d] = i /\ InRoom(d)'
    BY <1>0, <1>1 DEF HubInv, InRoom
  <2>2. \A d \in sfu' : phase'[d] \in {"listing", "announcing", "live"}
    BY <1>0, <1>1 DEF HubInv, TypeOK
  <2>3. \A d \in Session : sending'[d].to \subseteq Present'
    BY <1>0 DEF HubInv, Present
  <2>4. \A d \in Session : phase'[d] \in {"leaving", "left", "gone"} => ~open'[d]
    BY <1>0, <1>1, <1>o DEF HubInv
  <2> QED
    BY <2>1, <2>2, <2>3, <2>4 DEF HubInv
<1>4. SendingInv'
  BY <1>0, <1>1 DEF SendingInv
<1>5. HearsayInv'
  <2>1. \A c \in Session, i \in Id :
           /\ Leaves(queue[c], i)' => Leaves(queue[c], i)
           /\ Joins(queue[c], i)' => Joins(queue[c], i) \/ i \in existing[c]
    <3> SUFFICES ASSUME NEW c \in Session, NEW i \in Id
                 PROVE  /\ Leaves(queue'[c], i) => Leaves(queue[c], i)
                        /\ Joins(queue'[c], i) => Joins(queue[c], i) \/ i \in existing[c]
      OBVIOUS
    <3>1. CASE c = s
      BY <1>q, <1>a, <3>1, EmptyNews
    <3>2. CASE c # s
      BY <1>q, <3>2
    <3> QED
      BY <3>1, <3>2
  <2>2. \A c \in Session, i \in Id : HearsOf(c, i)' => HearsOf(c, i)
    BY <1>0, <1>1, <2>1 DEF HearsOf
  <2>3. \A c \in Session : phase'[c] = "new" => queue'[c] = <<>> /\ roster'[c] = {}
    BY <1>0, <1>1, <1>q DEF HearsayInv
  <2>4. \A c, d \in Session : Leaves(queue[c], IdOf[d])' => phase'[d] = "gone"
    BY <1>0, <1>1, <2>1, IdAssumption DEF HearsayInv
  <2>5. \A c \in Session, i \in Id : HearsOf(c, i)' =>
           \E d \in Session \ {c} : IdOf[d] = i /\ phase'[d] # "new"
    BY <1>0, <1>1, <2>2 DEF HearsayInv
  <2>6. \A c \in Session : phase'[c] \notin {"joined", "listing"} => existing'[c] = {}
    BY <1>0, <1>1 DEF HearsayInv
  <2> QED
    BY <2>3, <2>4, <2>5, <2>6 DEF HearsayInv
<1>6. NewsInv'
  <2> SUFFICES ASSUME NEW c \in Session, NEW d \in Session,
                      c # d, open'[c], phase'[c] # "new"
               PROVE  /\ InRoom(d)' => WillKnow(c, d)'
                      /\ phase'[d] = "gone" => WillForget(c, d)'
    BY DEF NewsInv
  <2>1. /\ InRoom(d) => WillKnow(c, d)
        /\ phase[d] = "gone" => WillForget(c, d)
        /\ IdOf[d] \in Id
    BY <1>0, <1>1, <1>o, IdAssumption DEF NewsInv
  <2>2. /\ InRoom(d)' => InRoom(d)
        /\ phase'[d] = "gone" => phase[d] = "gone"
        /\ phase[d] \in {"joined", "listing", "announcing"}
              => phase'[d] \in {"joined", "listing", "announcing"}
    BY <1>0, <1>1 DEF InRoom
  <2>3. CASE c = s
    <3>1. /\ queue'[c] = Append(queue[c], m) /\ existing'[c] = {}
      BY <1>1, <1>q, <2>3
    <3>2. WillKnow(c, d) => WillKnow(c, d)'
      BY <1>0, <1>a, <2>1, <2>2, <2>3, <3>1 DEF WillKnow
    <3>3. WillForget(c, d) => WillForget(c, d)'
      BY <1>0, <1>a, <2>1, <2>3, <3>1 DEF WillForget
    <3> QED
      BY <2>1, <2>2, <3>2, <3>3
  <2>4. CASE c # s
    <3>1. queue'[c] = queue[c] /\ existing'[c] = existing[c]
      BY <1>1, <1>q, <2>4
    <3> QED
      BY <1>0, <2>1, <2>2, <3>1 DEF WillKnow, WillForget
  <2> QED
    BY <2>3, <2>4
<1> QED
  BY <1>2, <1>3, <1>4, <1>5, <1>6 DEF IndInv

\* One client of a broadcast is sent the news of s.  It is a member, so the
\* step that finds it before its list is the one that marks the news early.
LEMMA BroadcastToInv ==
  ASSUME UniqueIds, IndInv, NEW s \in Session, BroadcastTo(s)
  PROVE  IndInv'
<1>0. TypeOK /\ HubInv /\ SendingInv /\ HearsayInv /\ NewsInv
  BY DEF IndInv
<1> DEFINE m == sending[s].msg
<1>1. PICK i \in sending[s].to :
        LET c == room[i]
            early == /\ m.type = "peer-left"
                     /\ phase[c] \in {"joined", "listing"}
        IN  /\ Send(c, m)
            /\ sending' = [sending EXCEPT ![s].to = @ \ {i}]
            /\ overtaken' = [overtaken EXCEPT
                               ![c] = IF early THEN @ \cup (m.peers \cap existing[c])
                                               ELSE @]
            /\ UNCHANGED <<hubVars, phase, sfu, chatted, roster>>
  BY DEF BroadcastTo
<1> DEFINE b == room[i]
           early == m.type = "peer-left" /\ phase[b] \in {"joined", "listing"}
<1>2. /\ Send(b, m)
      /\ overtaken' = [overtaken EXCEPT
           ![b] = IF early THEN overtaken[b] \cup (m.peers \cap existing[b])
                           ELSE overtaken[b]]
      /\ UNCHANGED <<room, existing, phase, sfu, chatted, roster>>
  BY <1>1 DEF hubVars
<1>b. b \in Session /\ IdOf[b] = i /\ InRoom(b) /\ i \in Id
  <2>1. i \in Present
    BY <1>0 DEF HubInv
  <2> QED
    BY <1>0, <2>1, Members
<1>m. /\ m \in Message /\ m.peers = {IdOf[s]} /\ b # s /\ IdOf[s] \in Id
      /\ \/ m.type \in {"peer-joined", "chat"} /\ phase[s] = "live"
         \/ m.type = "peer-left" /\ phase[s] = "gone"
  <2>1. m \in Message
    BY <1>0 DEF TypeOK
  <2> QED
    BY <1>0, <1>b, <2>1, IdAssumption DEF SendingInv
<1>n. \A j : /\ Adds(m, j) <=> m.type = "peer-joined" /\ j = IdOf[s]
             /\ Removes(m, j) <=> m.type = "peer-left" /\ j = IdOf[s]
  BY <1>m DEF Adds, Removes
<1>s. /\ sending' \in [Session -> [msg : Message, to : SUBSET Id]]
      /\ \A d \in Session \ {s} : sending'[d] = sending[d]
      /\ sending'[s].msg = m /\ sending'[s].to = sending[s].to \ {i}
  <2> DEFINE new == [sending[s] EXCEPT !.to = sending[s].to \ {i}]
  <2>1. sending \in [Session -> [msg : Message, to : SUBSET Id]]
    BY <1>0 DEF TypeOK
  <2>2. /\ new \in [msg : Message, to : SUBSET Id]
        /\ new.msg = m /\ new.to = sending[s].to \ {i}
    BY <2>1
  <2>3. sending' = [sending EXCEPT ![s] = new]
    BY <1>1
  <2> HIDE DEF new
  <2> QED
    BY <2>1, <2>2, <2>3
<1> HIDE DEF m
<1>q. /\ queue' \in [Session -> Seq(Message)]
      /\ open' \in [Session -> BOOLEAN]
      /\ \A d \in Session : Len(queue'[d]) <= Capacity
      /\ \A d \in Session \ {b} : queue'[d] = queue[d] /\ open'[d] = open[d]
      /\ open'[b] => open[b] /\ queue'[b] = Append(queue[b], m)
      /\ queue'[b] \in {queue[b], <<>>, Append(queue[b], m)}
  BY <1>0, <1>2, <1>b, <1>m, SendCases
<1>o. \A d \in Session : open'[d] => open[d]
  BY <1>q
<1>t. /\ overtaken' \in [Session -> SUBSET Id]
      /\ \A d \in Session : overtaken[d] \subseteq overtaken'[d]
      /\ early => m.peers \cap existing[b] \subseteq overtaken'[b]
  <2>1. overtaken \in [Session -> SUBSET Id] /\ existing \in [Session -> SUBSET Id]
    BY <1>0 DEF TypeOK
  <2> QED
    BY <1>2, <1>b, <2>1
<1> HIDE DEF b
<1>a. \A j \in Id :
         /\ Joins(Append(queue[b], m), j) <=> Joins(queue[b], j) \/ Adds(m, j)
         /\ Leaves(Append(queue[b], m), j) <=> Leaves(queue[b], j) \/ Removes(m, j)
         /\ Removes(m, j) => EndsGone(Append(queue[b], m), j)
         /\ EndsGone(queue[b], j) /\ ~Adds(m, j) => EndsGone(Append(queue[b], m), j)
  <2>1. queue[b] \in Seq(Message)
    BY <1>0, <1>b DEF TypeOK
  <2> QED
    BY <1>m, <2>1, AppendNews
<1>3. TypeOK'
  BY <1>0, <1>2, <1>s, <1>q, <1>t DEF TypeOK
<1>4. HubInv'
  <2>1. \A j \in Id, d \in Session : room'[j] = d <=> IdOf[d] = j /\ InRoom(d)'
    BY <1>0, <1>2 DEF HubInv, InRoom
  <2>2. \A d \in sfu' : phase'[d] \in {"listing", "announcing", "live"}
    BY <1>0, <1>2 DEF HubInv
  <2>3. \A d \in Session : sending'[d].to \subseteq Present'
    BY <1>0, <1>2, <1>s DEF HubInv, Present
  <2>4. \A d \in Session : phase'[d] \in {"leaving", "left", "gone"} => ~open'[d]
    BY <1>0, <1>2, <1>o DEF HubInv
  <2> QED
    BY <2>1, <2>2, <2>3, <2>4 DEF HubInv
<1>5. SendingInv'
  <2> SUFFICES ASSUME NEW d \in Session, sending'[d].to # {}
               PROVE  /\ sending'[d].msg.peers = {IdOf[d]}
                      /\ IdOf[d] \notin sending'[d].to
                      /\ \/ /\ sending'[d].msg.type \in {"peer-joined", "chat"}
                            /\ phase'[d] = "live"
                         \/ sending'[d].msg.type = "peer-left" /\ phase'[d] = "gone"
    BY DEF SendingInv
  <2>1. sending[d].to # {} /\ sending'[d].msg = sending[d].msg
        /\ sending'[d].to \subseteq sending[d].to
    BY <1>s DEF m
  <2> QED
    BY <1>0, <1>2, <2>1 DEF SendingInv
<1>6. HearsayInv'
  <2>1. \A c \in Session, j \in Id :
           /\ Leaves(queue[c], j)' => \/ Leaves(queue[c], j)
                                      \/ j = IdOf[s] /\ phase[s] = "gone"
           /\ Joins(queue[c], j)' => Joins(queue[c], j) \/ (j = IdOf[s] /\ c # s)
           /\ Leaves(queue[c], j)' => Leaves(queue[c], j) \/ (j = IdOf[s] /\ c # s)
    <3> SUFFICES ASSUME NEW c \in Session, NEW j \in Id
                 PROVE  /\ Leaves(queue'[c], j) => \/ Leaves(queue[c], j)
                                                   \/ j = IdOf[s] /\ phase[s] = "gone"
                        /\ Joins(queue'[c], j) => Joins(queue[c], j) \/ (j = IdOf[s] /\ c # s)
                        /\ Leaves(queue'[c], j) => Leaves(queue[c], j) \/ (j = IdOf[s] /\ c # s)
      OBVIOUS
    <3>1. CASE c = b
      <4>1. CASE queue'[b] = queue[b]
        BY <3>1, <4>1
      <4>2. CASE queue'[b] = <<>>
        BY <3>1, <4>2, EmptyNews
      <4>3. CASE queue'[b] = Append(queue[b], m)
        BY <1>a, <1>n, <1>m, <3>1, <4>3
      <4> QED
        BY <1>q, <4>1, <4>2, <4>3
    <3>2. CASE c # b
      BY <1>q, <3>2
    <3> QED
      BY <3>1, <3>2
  <2>2. \A c \in Session, j \in Id :
           HearsOf(c, j)' => HearsOf(c, j) \/ (j = IdOf[s] /\ c # s)
    BY <1>2, <2>1 DEF HearsOf
  <2>3. \A c \in Session : phase'[c] = "new" => queue'[c] = <<>> /\ roster'[c] = {}
    <3>1. phase[b] # "new"
      BY <1>b DEF InRoom
    <3> QED
      BY <1>0, <1>2, <1>q, <3>1 DEF HearsayInv
  <2>4. \A c, d \in Session : Leaves(queue[c], IdOf[d])' => phase'[d] = "gone"
    <3> SUFFICES ASSUME NEW c \in Session, NEW d \in Session, Leaves(queue'[c], IdOf[d])
                 PROVE  phase[d] = "gone"
      BY <1>2
    <3>1. \/ Leaves(queue[c], IdOf[d])
          \/ IdOf[d] = IdOf[s] /\ phase[s] = "gone"
      BY <2>1, IdAssumption
    <3> QED
      BY <1>0, <3>1 DEF HearsayInv, UniqueIds
  <2>5. \A c \in Session, j \in Id : HearsOf(c, j)' =>
           \E d \in Session \ {c} : IdOf[d] = j /\ phase'[d] # "new"
    <3> SUFFICES ASSUME NEW c \in Session, NEW j \in Id, HearsOf(c, j)'
                 PROVE  \E d \in Session \ {c} : IdOf[d] = j /\ phase[d] # "new"
      BY <1>2
    <3>1. CASE HearsOf(c, j)
      BY <1>0, <3>1 DEF HearsayInv
    <3>2. CASE j = IdOf[s] /\ c # s
      BY <1>m, <3>2
    <3> QED
      BY <2>2, <3>1, <3>2
  <2>6. \A c \in Session : phase'[c] \notin {"joined", "listing"} => existing'[c] = {}
    BY <1>0, <1>2 DEF HearsayInv
  <2> QED
    BY <2>3, <2>4, <2>5, <2>6 DEF HearsayInv
<1>7. NewsInv'
  <2> SUFFICES ASSUME NEW c \in Session, NEW d \in Session,
                      c # d, open'[c], phase'[c] # "new"
               PROVE  /\ InRoom(d)' => WillKnow(c, d)'
                      /\ phase'[d] = "gone" => WillForget(c, d)'
    BY DEF NewsInv
  <2>1. /\ InRoom(d) => WillKnow(c, d)
        /\ phase[d] = "gone" => WillForget(c, d)
        /\ IdOf[d] \in Id
        /\ InRoom(d)' <=> InRoom(d)
    BY <1>0, <1>2, <1>o, IdAssumption DEF NewsInv, InRoom
  <2>2. CASE c = b
    <3>1. queue'[c] = Append(queue[c], m)
      BY <1>q, <2>2
    <3>2. CASE d = s
      <4>1. InRoom(d) => WillKnow(c, d)'
        <5> SUFFICES ASSUME WillKnow(c, d) PROVE WillKnow(c, d)'
          BY <2>1
        <5>1. CASE IdOf[c] \in sending[d].to /\ sending[d].msg.type = "peer-joined"
          <6>1. Adds(m, IdOf[d])
            BY <1>n, <3>2, <5>1 DEF m
          <6> QED
            BY <1>a, <2>1, <2>2, <3>1, <6>1 DEF WillKnow
        <5>2. CASE \/ IdOf[d] \in roster[c] \cup existing[c]
                   \/ Joins(queue[c], IdOf[d])
                   \/ phase[d] \in {"joined", "listing", "announcing"}
          BY <1>2, <1>a, <2>1, <2>2, <3>1, <5>2 DEF WillKnow
        <5> QED
          BY <5>1, <5>2 DEF WillKnow
      <4>2. ASSUME phase[d] = "gone" PROVE WillForget(c, d)'
        <5>1. Removes(m, IdOf[d])
          BY <1>m, <1>n, <3>2, <4>2
        <5>2. EndsGone(queue'[c], IdOf[d]) /\ Leaves(queue'[c], IdOf[d])
          BY <1>a, <2>1, <2>2, <3>1, <5>1
        <5>3. IdOf[d] \in existing[c] => IdOf[d] \in overtaken'[c]
          <6> SUFFICES ASSUME IdOf[d] \in existing[c]
                       PROVE  early /\ IdOf[d] \in m.peers
            BY <1>t, <2>2
          <6>1. phase[c] \in {"joined", "listing"}
            BY <1>0 DEF HearsayInv
          <6> QED
            BY <1>m, <2>2, <3>2, <4>2, <6>1
        <5> QED
          BY <1>2, <5>2, <5>3 DEF WillForget
      <4> QED
        BY <1>2, <2>1, <4>1, <4>2
    <3>3. CASE d # s
      <4>1. ~Adds(m, IdOf[d]) /\ sending'[d] = sending[d]
        BY <1>n, <1>s, <3>3 DEF UniqueIds
      <4>2. /\ Joins(queue[c], IdOf[d]) => Joins(queue'[c], IdOf[d])
            /\ Leaves(queue[c], IdOf[d]) => Leaves(queue'[c], IdOf[d])
            /\ EndsGone(queue[c], IdOf[d]) => EndsGone(queue'[c], IdOf[d])
        BY <1>a, <2>1, <2>2, <3>1, <4>1
      <4>3. WillKnow(c, d) => WillKnow(c, d)'
        BY <1>2, <4>1, <4>2 DEF WillKnow
      <4>4. WillForget(c, d) => WillForget(c, d)'
        BY <1>2, <1>t, <4>1, <4>2 DEF WillForget
      <4> QED
        BY <1>2, <2>1, <4>3, <4>4
    <3> QED
      BY <3>2, <3>3
  <2>3. CASE c # b
    <3>1. queue'[c] = queue[c]
      BY <1>q, <2>3
    <3>2. /\ IdOf[c] \in sending[d].to => IdOf[c] \in sending'[d].to
          /\ sending'[d].msg = sending[d].msg
      BY <1>b, <1>s, <2>3 DEF UniqueIds, m
    <3>3. WillKnow(c, d) => WillKnow(c, d)'
      BY <1>2, <3>1, <3>2 DEF WillKnow
    <3>4. WillForget(c, d) => WillForget(c, d)'
      BY <1>2, <1>t, <3>1, <3>2 DEF WillForget
    <3> QED
      BY <1>2, <2>1, <3>3, <3>4
  <2> QED
    BY <2>2, <2>3
<1> QED
  BY <1>3, <1>4, <1>5, <1>6, <1>7 DEF IndInv

-----------------------------------------------------------------------------
(* The theorems. *)

\* What the hub, the broadcasts, the queues and the clients' rosters say of
\* one another is preserved by every step of ServeWS and of the pumps.
THEOREM Invariance ==
  ASSUME UniqueIds
  PROVE  Spec => []IndInv
<1>1. Init => IndInv
  BY InitInv
<1>2. IndInv /\ [Next]_vars => IndInv'
  <2> SUFFICES ASSUME IndInv, [Next]_vars PROVE IndInv'
    OBVIOUS
  <2>1. CASE UNCHANGED vars
    <3>1. UNCHANGED <<room, existing, queue, open, phase, sending, sfu, chatted,
                      roster, overtaken>>
      BY <2>1 DEF vars, hubVars, clientVars
    <3>2. TypeOK' /\ HubInv' /\ SendingInv'
      BY <3>1 DEF IndInv, TypeOK, HubInv, SendingInv, InRoom, Present
    <3>3. HearsayInv'
      BY <3>1, SilentKeepsHearsay DEF IndInv
    <3>4. NewsInv'
      BY <3>1 DEF IndInv, NewsInv, InRoom, WillKnow, WillForget
    <3> QED
      BY <3>2, <3>3, <3>4 DEF IndInv
  <2>2. ASSUME NEW s \in Session, Proceed(s)
        PROVE  IndInv'
    BY <2>2, BroadcastToInv, OnPeerJoinInv, SendPeersListInv, AnnounceJoinInv,
       OnPeerLeaveInv, HubLeaveInv, AnnounceLeaveInv DEF Proceed
  <2>3. ASSUME NEW s \in Session,
               \/ HubJoin(s) \/ HubRejects(s)
               \/ Deliver(s) \/ Chat(s) \/ Disconnect(s)
        PROVE  IndInv'
    BY <2>3, HubJoinInv, HubRejectsInv, DeliverInv, ChatInv, DisconnectInv
  <2> QED
    BY <2>1, <2>2, <2>3 DEF Next, Finished
<1> QED
  BY <1>1, <1>2, PTL DEF Spec

\* The send queues hold messages, and never more than their capacity.
THEOREM TypeCorrect ==
  ASSUME UniqueIds
  PROVE  Spec => []TypeOK
<1>1. IndInv => TypeOK
  BY DEF IndInv
<1> QED
  BY <1>1, Invariance, PTL

\* Whoever the SFU has can be reached through the hub, and a broadcast only
\* meets ids that have a client.
THEOREM SfuPeersInHubHolds ==
  ASSUME UniqueIds
  PROVE  Spec => []SfuPeersInHub
<1>1. IndInv => SfuPeersInHub
  <2> SUFFICES ASSUME IndInv PROVE SfuPeersInHub
    OBVIOUS
  <2>1. TypeOK /\ HubInv
    BY DEF IndInv
  <2>2. ASSUME NEW d \in sfu
        PROVE  room[IdOf[d]] = d
    <3>1. d \in Session /\ IdOf[d] \in Id /\ InRoom(d)
      BY <2>1, IdAssumption DEF TypeOK, HubInv, InRoom
    <3> QED
      BY <2>1, <3>1 DEF HubInv
  <2> QED
    BY <2>1, <2>2 DEF SfuPeersInHub, HubInv
<1> QED
  BY <1>1, Invariance, PTL

\* The list of peers and the joins and leaves add up to the room, except for
\* the leaves that overtook the list.
THEOREM RosterAgreesHolds ==
  ASSUME UniqueIds
  PROVE  Spec => []RosterAgrees
<1>1. IndInv => RosterAgrees
  <2> SUFFICES ASSUME IndInv, Settled,
                      NEW c \in Session, phase[c] = "live", open[c]
               PROVE  /\ Present \ {IdOf[c]} \subseteq roster[c]
                      /\ roster[c] \ (Present \ {IdOf[c]}) \subseteq overtaken[c]
    BY DEF RosterAgrees
  <2>0. TypeOK /\ HubInv /\ HearsayInv /\ NewsInv
    BY DEF IndInv
  <2>1. /\ queue[c] = <<>> /\ existing[c] = {}
        /\ \A d \in Session : phase[d] \in {"new", "live", "gone"}
        /\ \A d \in Session : sending[d].to = {}
    BY <2>0 DEF Settled, Free, HearsayInv
  <2>2. \A i : ~Joins(queue[c], i) /\ ~Leaves(queue[c], i)
    BY <2>1, EmptyNews
  <2>3. ASSUME NEW i \in Present \ {IdOf[c]}
        PROVE  i \in roster[c]
    <3>1. /\ room[i] \in Session /\ IdOf[room[i]] = i /\ InRoom(room[i])
          /\ room[i] # c
      BY <2>0, Members
    <3>2. WillKnow(c, room[i])
      BY <2>0, <3>1 DEF NewsInv
    <3> QED
      BY <2>1, <2>2, <3>1, <3>2 DEF WillKnow
  <2>4. ASSUME NEW i \in roster[c] \ (Present \ {IdOf[c]})
        PROVE  i \in overtaken[c]
    <3>1. i \in Id /\ HearsOf(c, i)
      BY <2>0 DEF TypeOK, HearsOf
    <3>2. PICK d \in Session \ {c} : IdOf[d] = i /\ phase[d] # "new"
      BY <2>0, <3>1 DEF HearsayInv
    <3>3. i # IdOf[c]
      BY <3>2 DEF UniqueIds
    <3>4. phase[d] # "live"
      BY <2>0, <3>2, <3>3, MembersArePresent DEF InRoom
    <3>5. WillForget(c, d)
      BY <2>0, <2>1, <3>2, <3>4 DEF NewsInv
    <3> QED
      BY <2>1, <2>2, <3>2, <3>5 DEF WillForget
  <2> QED
    BY <2>3, <2>4
<1> QED
  BY <1>1, Invariance, PTL

=============================================================================
