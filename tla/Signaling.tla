------------------------------ MODULE Signaling ------------------------------
(***************************************************************************)
(* One room of the hub, internal/signaling/hub.go, and the websocket       *)
(* sessions in it, internal/signaling/client.go.                           *)
(*                                                                         *)
(* Goroutines and where they interleave:                                   *)
(*  - ServeWS of session s: hub.Join, OnPeerJoin, the list of peers, the   *)
(*    announcement, the read loop, OnPeerLeave, hub.Leave, the             *)
(*    announcement of the leave.  Its program counter is phase[s].         *)
(*  - writePump of s, which drains its send queue: Deliver(s).             *)
(* Join and Leave hold Hub.mu for writing and are actions.  Broadcast      *)
(* holds it for reading, so several go on at once, each in the middle of   *)
(* its loop, while Join and Leave wait: every Client.Send is an action.    *)
(*                                                                         *)
(* A client whose queue is full is closed by Send.  That is one action     *)
(* with the loss of the message, and what is still queued for a closed     *)
(* connection is forgotten.                                                *)
(***************************************************************************)
EXTENDS Naturals, Sequences, FiniteSets

CONSTANTS
    Session,    \* websocket sessions, each with its Client
    Id,         \* the peer identifiers
    IdOf,       \* [Session -> Id]: Client.PeerID
    NoClient,   \* an absent key of the room's map
    MaxPeers,   \* Hub.MaxPeersPerRoom, 0 for no limit
    RoomsTaken, \* TRUE: other rooms may take up Hub.MaxRooms
    Capacity,   \* sendBufferSize
    Talker      \* the sessions that send a chat message, once each

ASSUME IdAssumption       == IdOf \in [Session -> Id]
ASSUME NoClientAssumption == NoClient \notin Session
ASSUME LimitAssumption    == /\ MaxPeers \in Nat /\ RoomsTaken \in BOOLEAN
                             /\ Capacity \in Nat \ {0}

VARIABLES
    room,       \* Hub.rooms[roomID]; absent when it has no client
    phase,      \* per session: where ServeWS is
    existing,   \* per session: what hub.Join returned, until it is sent
    queue,      \* per session: Client.send
    open,       \* per session: the websocket is open
    sending,    \* per session: the Broadcast it is in
    sfu,        \* the sessions that OnPeerJoin has given to the SFU
    chatted,    \* the talkers that have talked
    roster,     \* per session: the peers its client has been told of
    overtaken   \* history, per session: the peers whose leave was queued for
                \*   it before the list that names them

hubVars    == <<room, existing>>
clientVars == <<queue, open>>
vars == <<hubVars, phase, clientVars, sending, sfu, chatted, roster, overtaken>>

Message == [type : {"peers-list", "peer-joined", "peer-left", "chat"},
            peers : SUBSET Id]

Present == {i \in Id : room[i] # NoClient}

\* Not in a broadcast; and the hub is locked for reading by nobody.
Free(s)  == sending[s].to = {}
Unlocked == \A s \in Session : Free(s)

Init ==
    /\ room = [i \in Id |-> NoClient]
    /\ phase = [s \in Session |-> "new"]
    /\ existing = [s \in Session |-> {}]
    /\ queue = [s \in Session |-> <<>>]
    /\ open = [s \in Session |-> TRUE]
    /\ sending = [s \in Session |-> [msg |-> [type |-> "chat", peers |-> {}],
                                     to |-> {}]]
    /\ sfu = {} /\ chatted = {}
    /\ roster = [s \in Session |-> {}]
    /\ overtaken = [s \in Session |-> {}]

-----------------------------------------------------------------------------
\* Mutant of Send: no limit.
SendAlways(c, m) ==
    /\ queue' = [queue EXCEPT ![c] = Append(@, m)]
    /\ UNCHANGED open

\* Mutant of Send: a message that finds the queue full is dropped, and the
\* connection stays.
SendDrops(c, m) ==
    /\ queue' = [queue EXCEPT ![c] = IF Len(@) < Capacity THEN Append(@, m) ELSE @]
    /\ UNCHANGED open

\* Mutant of Send: waits until there is room in the queue.
SendBlocks(c, m) ==
    /\ Len(queue[c]) < Capacity
    /\ queue' = [queue EXCEPT ![c] = Append(@, m)]
    /\ UNCHANGED open

\* Client.Send: queue m, or close a slow consumer.
Send(c, m) ==
    \/ /\ ~open[c]
       /\ UNCHANGED clientVars
    \/ /\ open[c] /\ Len(queue[c]) < Capacity
       /\ queue' = [queue EXCEPT ![c] = Append(@, m)]
       /\ UNCHANGED open
    \/ /\ open[c] /\ Len(queue[c]) >= Capacity
       /\ queue' = [queue EXCEPT ![c] = <<>>]
       /\ open' = [open EXCEPT ![c] = FALSE]

\* Hub.Broadcast takes the read lock, for all in the room but s's own id.
StartBroadcast(s, type) ==
    sending' = [sending EXCEPT
                  ![s] = [msg |-> [type |-> type, peers |-> {IdOf[s]}],
                          to |-> Present \ {IdOf[s]}]]

\* One iteration of its loop; the lock is released with the last.
BroadcastTo(s) ==
    \E i \in sending[s].to :
        LET c == room[i]
            m == sending[s].msg
            early == /\ m.type = "peer-left"
                     /\ phase[c] \in {"joined", "listing"}
        IN  /\ Send(c, m)
            /\ sending' = [sending EXCEPT ![s].to = @ \ {i}]
            /\ overtaken' = [overtaken EXCEPT
                               ![c] = IF early THEN @ \cup (m.peers \cap existing[c])
                                               ELSE @]
            /\ UNCHANGED <<hubVars, phase, sfu, chatted, roster>>

-----------------------------------------------------------------------------
(* ServeWS, up to the read loop. *)

Full == MaxPeers > 0 /\ Cardinality(Present) >= MaxPeers

HubJoin(s) ==
    /\ phase[s] = "new" /\ Unlocked /\ ~Full
    /\ existing' = [existing EXCEPT ![s] = Present]
    /\ room' = [room EXCEPT ![IdOf[s]] = s]
    /\ phase' = [phase EXCEPT ![s] = "joined"]
    /\ UNCHANGED <<clientVars, sending, sfu, chatted, roster, overtaken>>

\* "room is full", or "server at capacity" when the room is a new one.
HubRejects(s) ==
    /\ phase[s] = "new" /\ Unlocked
    /\ Full \/ (Present = {} /\ RoomsTaken)
    /\ open' = [open EXCEPT ![s] = FALSE]
    /\ phase' = [phase EXCEPT ![s] = "gone"]
    /\ UNCHANGED <<hubVars, queue, sending, sfu, chatted, roster, overtaken>>

OnPeerJoin(s) ==
    /\ phase[s] = "joined"
    /\ sfu' = sfu \cup {s}
    /\ phase' = [phase EXCEPT ![s] = "listing"]
    /\ UNCHANGED <<hubVars, clientVars, sending, chatted, roster, overtaken>>

\* The list is not read again.
SendPeersList(s) ==
    /\ phase[s] = "listing"
    /\ Send(s, [type |-> "peers-list", peers |-> existing[s]])
    /\ existing' = [existing EXCEPT ![s] = {}]
    /\ phase' = [phase EXCEPT ![s] = "announcing"]
    /\ UNCHANGED <<room, sending, sfu, chatted, roster, overtaken>>

AnnounceJoin(s) ==
    /\ phase[s] = "announcing"
    /\ StartBroadcast(s, "peer-joined")
    /\ phase' = [phase EXCEPT ![s] = "live"]
    /\ UNCHANGED <<hubVars, clientVars, sfu, chatted, roster, overtaken>>

-----------------------------------------------------------------------------
(* The pumps.  The write pump starts when the announcement has been made. *)

\* What a client knows that keeps every peer it is told of until it is told
\* of its leave.
Told(known, m) ==
    IF m.type = "peer-left" THEN known \ m.peers
    ELSE IF m.type = "chat" THEN known ELSE known \cup m.peers

Deliver(s) ==
    /\ phase[s] = "live" /\ open[s] /\ queue[s] # <<>>
    /\ sending[s].msg.type = "peer-joined" => Free(s)
    /\ roster' = [roster EXCEPT ![s] = Told(@, Head(queue[s]))]
    /\ queue' = [queue EXCEPT ![s] = Tail(@)]
    /\ UNCHANGED <<hubVars, phase, open, sending, sfu, chatted, overtaken>>

Chat(s) ==
    /\ phase[s] = "live" /\ Free(s) /\ open[s]
    /\ s \in Talker \ chatted
    /\ chatted' = chatted \cup {s}
    /\ StartBroadcast(s, "chat")
    /\ UNCHANGED <<hubVars, phase, clientVars, sfu, roster, overtaken>>

\* The client closes the websocket, or the network fails.
Disconnect(s) ==
    /\ phase[s] \notin {"new", "gone"} /\ open[s]
    /\ open' = [open EXCEPT ![s] = FALSE]
    /\ queue' = [queue EXCEPT ![s] = <<>>]
    /\ UNCHANGED <<hubVars, phase, sending, sfu, chatted, roster, overtaken>>

-----------------------------------------------------------------------------
(* The deferred leave of ServeWS, when the read loop has failed. *)

\* Mutant of OnPeerLeave: the SFU is not told.
OnPeerLeaveSkipped(s) ==
    /\ phase[s] = "live" /\ Free(s) /\ ~open[s]
    /\ phase' = [phase EXCEPT ![s] = "leaving"]
    /\ UNCHANGED <<hubVars, clientVars, sending, sfu, chatted, roster, overtaken>>

OnPeerLeave(s) ==
    /\ phase[s] = "live" /\ Free(s) /\ ~open[s]
    /\ sfu' = sfu \ {s}
    /\ phase' = [phase EXCEPT ![s] = "leaving"]
    /\ UNCHANGED <<hubVars, clientVars, sending, chatted, roster, overtaken>>

\* Whichever client has the id is deleted.
HubLeave(s) ==
    /\ phase[s] = "leaving" /\ Unlocked
    /\ room' = [room EXCEPT ![IdOf[s]] = NoClient]
    /\ phase' = [phase EXCEPT ![s] = "left"]
    /\ UNCHANGED <<existing, clientVars, sending, sfu, chatted, roster, overtaken>>

AnnounceLeave(s) ==
    /\ phase[s] = "left"
    /\ StartBroadcast(s, "peer-left")
    /\ phase' = [phase EXCEPT ![s] = "gone"]
    /\ UNCHANGED <<hubVars, clientVars, sfu, chatted, roster, overtaken>>

-----------------------------------------------------------------------------
\* Every session is over: the hub may rest.
Finished ==
    /\ \A s \in Session : phase[s] = "gone" /\ Free(s)
    /\ UNCHANGED vars

\* The steps that the goroutine of s takes of its own accord once it is in.
Proceed(s) ==
    \/ BroadcastTo(s)
    \/ OnPeerJoin(s) \/ SendPeersList(s) \/ AnnounceJoin(s)
    \/ OnPeerLeave(s) \/ HubLeave(s) \/ AnnounceLeave(s)

Next ==
    \/ \E s \in Session :
          \/ HubJoin(s) \/ HubRejects(s) \/ Proceed(s)
          \/ Deliver(s) \/ Chat(s) \/ Disconnect(s)
    \/ Finished

Spec == Init /\ [][Next]_vars

(***************************************************************************)
(* Goroutines go on, and so does the write pump of an open websocket (a    *)
(* write that takes more than ten seconds closes it, which is Disconnect). *)
(* Nobody need join, talk or disconnect.                                   *)
(***************************************************************************)
Fairness == \A s \in Session : WF_vars(Proceed(s)) /\ WF_vars(Deliver(s))

LiveSpec == Spec /\ Fairness

-----------------------------------------------------------------------------
(* Properties. *)

TypeOK ==
    /\ room \in [Id -> Session \cup {NoClient}]
    /\ phase \in [Session -> {"new", "joined", "listing", "announcing", "live",
                              "leaving", "left", "gone"}]
    /\ existing \in [Session -> SUBSET Id]
    /\ queue \in [Session -> Seq(Message)]
    /\ \A s \in Session : Len(queue[s]) <= Capacity
    /\ open \in [Session -> BOOLEAN]
    /\ sending \in [Session -> [msg : Message, to : SUBSET Id]]
    /\ sfu \subseteq Session /\ chatted \subseteq Talker
    /\ roster \in [Session -> SUBSET Id]
    /\ overtaken \in [Session -> SUBSET Id]

\* Every peer of the SFU can be reached through the hub, at any moment: what
\* the recording manager broadcasts reaches all whose media it records, and a
\* broadcast never meets an id without a client.
SfuPeersInHub ==
    /\ \A s \in sfu : room[IdOf[s]] = s
    /\ \A s \in Session : sending[s].to \subseteq Present

\* Nobody joins, leaves or talks, and everything has been delivered.
Settled ==
    \A s \in Session : /\ phase[s] \in {"new", "live", "gone"} /\ Free(s)
                       /\ phase[s] = "live" => queue[s] = <<>>

\* The list of peers and the joins and leaves that a client is told of add up
\* to the members of the room: nobody is missing, and a peer that has left is
\* still there only if the news of its leave overtook the list
\* (client.go:148-163, between hub.Join and the Send of the list).
RosterAgrees ==
    Settled =>
        \A c \in Session :
            phase[c] = "live" /\ open[c] =>
                LET others == Present \ {IdOf[c]}
                IN  /\ others \subseteq roster[c]
                    /\ roster[c] \ others \subseteq overtaken[c]

-----------------------------------------------------------------------------
(***************************************************************************)
(* The inductive invariant behind the safety properties, for sessions with *)
(* identifiers of their own (open mode: ServeWS makes a UUID for each).    *)
(***************************************************************************)
UniqueIds == \A c, d \in Session : IdOf[c] = IdOf[d] => c = d

\* Between hub.Join and hub.Leave.
InRoom(s) == phase[s] \in {"joined", "listing", "announcing", "live", "leaving"}

\* The map holds exactly the sessions between Join and Leave; a broadcast
\* keeps both out, so nobody it is for can go away.
HubInv ==
    /\ \A i \in Id, d \in Session : room[i] = d <=> IdOf[d] = i /\ InRoom(d)
    /\ \A d \in sfu : phase[d] \in {"listing", "announcing", "live"}
    /\ \A d \in Session : sending[d].to \subseteq Present
    /\ \A d \in Session : phase[d] \in {"leaving", "left", "gone"} => ~open[d]

\* A session announces itself, and its place says what.
SendingInv ==
    \A d \in Session : sending[d].to # {} =>
        /\ sending[d].msg.peers = {IdOf[d]} /\ IdOf[d] \notin sending[d].to
        /\ \/ sending[d].msg.type \in {"peer-joined", "chat"} /\ phase[d] = "live"
           \/ sending[d].msg.type = "peer-left" /\ phase[d] = "gone"

\* What is queued about a peer: that it is there, that it has left, and that
\* nothing after the news of its leave says that it is there.
Adds(m, i)    == m.type \in {"peers-list", "peer-joined"} /\ i \in m.peers
Removes(m, i) == m.type = "peer-left" /\ i \in m.peers

Joins(q, i)     == \E k \in DOMAIN q : Adds(q[k], i)
Leaves(q, i)    == \E k \in DOMAIN q : Removes(q[k], i)
EndsGone(q, i)  == \A k \in DOMAIN q : Adds(q[k], i) =>
                       \E l \in DOMAIN q : k < l /\ Removes(q[l], i)

\* A client hears of others only, and only of sessions that have come; of a
\* leave, only when the session has announced it.
HearsOf(c, i) == \/ i \in roster[c] \cup existing[c]
                 \/ Joins(queue[c], i) \/ Leaves(queue[c], i)

HearsayInv ==
    \A c \in Session :
        /\ phase[c] \notin {"joined", "listing"} => existing[c] = {}
        /\ phase[c] = "new" => queue[c] = <<>> /\ roster[c] = {}
        /\ \A i \in Id : HearsOf(c, i) =>
              \E d \in Session \ {c} : IdOf[d] = i /\ phase[d] # "new"
        /\ \A d \in Session : Leaves(queue[c], IdOf[d]) => phase[d] = "gone"

\* A client in the room knows of every other session in it, or will: the news
\* is queued, on the list still to be sent, or still to be announced to it.
WillKnow(c, d) ==
    \/ IdOf[d] \in roster[c] \cup existing[c] \/ Joins(queue[c], IdOf[d])
    \/ phase[d] \in {"joined", "listing", "announcing"}
    \/ IdOf[c] \in sending[d].to /\ sending[d].msg.type = "peer-joined"

\* It forgets every session that is over, or the news overtook the list.
WillForget(c, d) ==
    \/ IdOf[d] \in overtaken[c]
    \/ IdOf[c] \in sending[d].to
    \/ /\ IdOf[d] \notin existing[c]
       /\ EndsGone(queue[c], IdOf[d])
       /\ IdOf[d] \in roster[c] => Leaves(queue[c], IdOf[d])

NewsInv ==
    \A c \in Session, d \in Session :
        c # d /\ open[c] /\ phase[c] # "new" =>
            /\ InRoom(d) => WillKnow(c, d)
            /\ phase[d] = "gone" => WillForget(c, d)

IndInv == TypeOK /\ HubInv /\ SendingInv /\ HearsayInv /\ NewsInv

(***************************************************************************)
(* Liveness, under LiveSpec.                                               *)
(***************************************************************************)

\* A session that is over is told to every client that knew of it.
LeaveIsTold ==
    \A c \in Session : \A d \in Session \ {c} :
        (phase[d] = "gone" /\ IdOf[d] \in roster[c] \ overtaken[c]) ~>
            (IdOf[d] \notin roster[c] \/ ~open[c])

\* A session whose websocket is gone leaves the hub, whatever the others do.
SessionEnds ==
    \A s \in Session :
        (phase[s] # "new" /\ ~open[s]) ~> (phase[s] = "gone" /\ Free(s))

=============================================================================
