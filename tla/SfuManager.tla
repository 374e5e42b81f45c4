----------------------------- MODULE SfuManager -----------------------------
(***************************************************************************)
(* The registry of rooms, internal/sfu/manager.go: OnPeerJoin, OnPeerLeave *)
(* and OnMessage of the sessions of one room identifier.  Rooms with other *)
(* identifiers share nothing with it but Manager.mu.                       *)
(*                                                                         *)
(* A section under Manager.mu or Room.mu is one action.  OnPeerJoin        *)
(* releases Manager.mu before it calls AddPeer, and OnPeerLeave releases   *)
(* it before RemovePeer and takes it again to delete the room, so joins    *)
(* and leaves of different sessions interleave between those sections.     *)
(* Of a Room only its peers map is kept (SfuRoom has the rest), and every  *)
(* session has an identifier of its own.                                   *)
(***************************************************************************)
EXTENDS Naturals

CONSTANTS
    Session,    \* websocket sessions of clients of the room
    Room,       \* Room objects that newRoom may allocate
    NoRoom      \* the room identifier is not in Manager.rooms

ASSUME NoRoomAssumption == NoRoom \notin Room

VARIABLES
    registry,   \* Manager.rooms[roomID]
    created,    \* the Room objects allocated so far
    members,    \* per Room object: the sessions in Room.peers
    phase,      \* per session: where its goroutine is
    room,       \* per session: the local variable `room` of its handler
    empty,      \* per session: the local variable `empty` of OnPeerLeave
    told,       \* history: sessions reported to the onPeerLeave callback
    lost,       \* history: sessions one of whose messages was dropped
    raced       \* history: sessions that were between the two sections of
                \*   OnPeerJoin when their room was deleted

vars == <<registry, created, members, phase, room, empty, told, lost, raced>>

Init ==
    /\ registry = NoRoom
    /\ created = {}
    /\ members = [r \in Room |-> {}]
    /\ phase = [s \in Session |-> "idle"]
    /\ room = [s \in Session |-> NoRoom]
    /\ empty = [s \in Session |-> FALSE]
    /\ told = {} /\ lost = {} /\ raced = {}

Goto(s, where) == phase' = [phase EXCEPT ![s] = where]

-----------------------------------------------------------------------------
\* OnPeerJoin under Manager.mu: look the room up, or register a new one.
JoinLookup(s) ==
    /\ phase[s] = "idle"
    /\ \/ /\ registry # NoRoom
          /\ room' = [room EXCEPT ![s] = registry]
          /\ UNCHANGED <<registry, created>>
       \/ /\ registry = NoRoom
          /\ \E r \in Room \ created :
                /\ registry' = r
                /\ created' = created \cup {r}
                /\ room' = [room EXCEPT ![s] = r]
    /\ Goto(s, "lookedUp")
    /\ UNCHANGED <<members, empty, told, lost, raced>>

\* Room.AddPeer, under Room.mu.
JoinAdd(s) ==
    /\ phase[s] = "lookedUp"
    /\ members' = [members EXCEPT ![room[s]] = @ \cup {s}]
    /\ Goto(s, "live")
    /\ UNCHANGED <<registry, created, room, empty, told, lost, raced>>

\* The room and the peer that a message of s finds.
Reachable(s) == registry # NoRoom /\ s \in members[registry]

\* OnMessage: silently dropped when the room or the peer is not found.
OnMessage(s) ==
    /\ phase[s] = "live"
    /\ lost' = IF Reachable(s) THEN lost ELSE lost \cup {s}
    /\ UNCHANGED <<registry, created, members, phase, room, empty, told, raced>>

-----------------------------------------------------------------------------
\* Mutant of LeaveLookup: no early return when the room is not there.
LeaveLookupAlways(s) ==
    /\ phase[s] = "live"
    /\ room' = [room EXCEPT ![s] = registry]
    /\ Goto(s, "leaving")
    /\ UNCHANGED <<registry, created, members, empty, told, lost, raced>>

\* OnPeerLeave, the lookup: no room, nothing to do.
LeaveLookup(s) ==
    /\ phase[s] = "live"
    /\ room' = [room EXCEPT ![s] = registry]
    /\ Goto(s, IF registry = NoRoom THEN "gone" ELSE "leaving")
    /\ UNCHANGED <<registry, created, members, empty, told, lost, raced>>

\* Mutant of LeaveRemove: looks at the map before it deletes the peer.
LeaveRemoveLate(s) ==
    /\ phase[s] = "leaving" /\ s \in members[room[s]]
    /\ members' = [members EXCEPT ![room[s]] = @ \ {s}]
    /\ empty' = [empty EXCEPT ![s] = members[room[s]] = {}]
    /\ Goto(s, "removed")
    /\ UNCHANGED <<registry, created, room, told, lost, raced>>

\* Room.RemovePeer, under Room.mu.
LeaveRemove(s) ==
    /\ phase[s] = "leaving" /\ s \in members[room[s]]
    /\ members' = [members EXCEPT ![room[s]] = @ \ {s}]
    /\ empty' = [empty EXCEPT ![s] = members'[room[s]] = {}]
    /\ Goto(s, "removed")
    /\ UNCHANGED <<registry, created, room, told, lost, raced>>

\* RemovePeer of a peer that is not there unlocks, and then reads the length
\* of the map without the lock: whatever the map holds by then.
LeaveNotFound(s) ==
    /\ phase[s] = "leaving" /\ s \notin members[room[s]]
    /\ Goto(s, "counting")
    /\ UNCHANGED <<registry, created, members, room, empty, told, lost, raced>>

LeaveCount(s) ==
    /\ phase[s] = "counting"
    /\ empty' = [empty EXCEPT ![s] = members[room[s]] = {}]
    /\ Goto(s, "removed")
    /\ UNCHANGED <<registry, created, members, room, told, lost, raced>>

\* The onPeerLeave callback (the recording manager).
LeaveCallback(s) ==
    /\ phase[s] = "removed"
    /\ told' = told \cup {s}
    /\ Goto(s, IF empty[s] THEN "deleting" ELSE "gone")
    /\ UNCHANGED <<registry, created, members, room, empty, lost, raced>>

\* Mutant of Deletable: no second look at the room, whether it is still the
\* registered one and still empty.
DeletableUnchecked(s) == registry # NoRoom

\* Under Manager.mu again: delete the room if it is still the registered one
\* and still empty.
Deletable(s) == registry = room[s] /\ members[room[s]] = {}

LeaveDelete(s) ==
    /\ phase[s] = "deleting"
    /\ IF Deletable(s)
       THEN /\ registry' = NoRoom
            /\ raced' = raced \cup
                 {j \in Session : phase[j] = "lookedUp" /\ room[j] = room[s]}
       ELSE UNCHANGED <<registry, raced>>
    /\ Goto(s, "gone")
    /\ UNCHANGED <<created, members, room, empty, told, lost>>

\* Every session is over: the handlers have nothing left to do.
Finished == (\A s \in Session : phase[s] = "gone") /\ UNCHANGED vars

SessionStep(s) ==
    \/ JoinLookup(s) \/ JoinAdd(s) \/ OnMessage(s)
    \/ LeaveLookup(s) \/ LeaveRemove(s) \/ LeaveNotFound(s) \/ LeaveCount(s)
    \/ LeaveCallback(s) \/ LeaveDelete(s)

Next == (\E s \in Session : SessionStep(s)) \/ Finished

Spec == Init /\ [][Next]_vars

-----------------------------------------------------------------------------
Phase == {"idle", "lookedUp", "live", "leaving", "counting", "removed",
          "deleting", "gone"}

TypeOK ==
    /\ registry \in created \cup {NoRoom}
    /\ created \subseteq Room
    /\ members \in [Room -> SUBSET Session]
    /\ phase \in [Session -> Phase]
    /\ room \in [Session -> created \cup {NoRoom}]
    /\ \A s \in Session : phase[s] \notin {"idle", "gone"} => room[s] # NoRoom
    /\ empty \in [Session -> BOOLEAN]
    /\ told \subseteq Session /\ lost \subseteq Session
    /\ raced \subseteq Session

\* "Re-check under write-lock: a peer may have joined" (manager.go:168): a
\* peer that has joined is found by its messages and by its leave.
JoinedIsReachable ==
    \A s \in Session : phase[s] = "live" => Reachable(s)

\* The gap between the two sections of OnPeerJoin is the only way to get
\* lost: a session that no deletion overtook there is reachable while it is
\* live, loses no message, and when it is over it has been taken out of every
\* room and reported to the recording manager.
OnlyRacedAreLost ==
    \A s \in Session \ raced :
        /\ phase[s] = "live" => Reachable(s)
        /\ s \notin lost
        /\ phase[s] = "gone" =>
              s \in told /\ \A r \in Room : s \notin members[r]

\* When every session is over no room is left registered.
RegistryEmpties ==
    (\A s \in Session : phase[s] = "gone") => registry = NoRoom

(***************************************************************************)
(* The inductive invariant behind the two.                                 *)
(***************************************************************************)

\* A Room object is registered once, and has peers only after that.
RoomInv == \A r \in Room : members[r] # {} => r \in created

\* A session that no deletion overtook joined the registered room, is in the
\* map of that room alone, and leaves it through that room.
UnracedInv ==
    \A s \in Session \ raced :
        /\ phase[s] \in {"lookedUp", "live", "leaving"} =>
              registry # NoRoom /\ room[s] = registry
        /\ \A r \in Room : s \in members[r] <=>
              phase[s] \in {"live", "leaving"} /\ r = registry
        /\ phase[s] # "counting"
        /\ phase[s] \in {"deleting", "gone"} => s \in told
        /\ s \notin lost

\* An overtaken session is in no map or in that of an unregistered room.
RacedInv ==
    \A s \in raced :
        /\ phase[s] # "idle" /\ (registry # NoRoom => s \notin members[registry])
        /\ phase[s] \in {"lookedUp", "live"} => room[s] # registry
        /\ phase[s] = "lookedUp" => \A r \in Room : s \notin members[r]

\* While a room is registered, some session is bound to delete it.
DutyInv ==
    registry # NoRoom =>
        \E s \in Session :
            /\ room[s] = registry
            /\ \/ phase[s] \in {"lookedUp", "live"}
               \/ phase[s] = "leaving" /\ s \in members[registry]
               \/ phase[s] = "removed" /\ empty[s]
               \/ phase[s] = "deleting"

IndInv == TypeOK /\ RoomInv /\ UnracedInv /\ RacedInv /\ DutyInv

=============================================================================
