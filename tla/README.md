# Verification of roomkit-core

roomkit is a small WebRTC conferencing server in Go (a selective forwarding
unit, websocket signaling, recording) with a TypeScript SDK.  This directory
holds TLA+ models of its core, the TLC configurations that check them on small
instances, and proofs that the TLA+ proof system checks for every number of
sessions, tracks, recordings and tokens.  Sources are named relative to
`src/`; `PROJECT.json` maps every definition to the lines it models.

## 1. The system

| component | state | operations | talks to |
| --- | --- | --- | --- |
| `internal/signaling/client.go` (one `Client` per websocket) | send queue of 64 messages, connection | `ServeWS` (join, pumps, deferred leave), `Send`, `dispatch` | hub, SFU, recording |
| `internal/signaling/hub.go` | `rooms`: clients by room and peer ID | `Join`, `Leave`, `SendTo`, `Broadcast`, `BroadcastStatus` | clients |
| `internal/sfu/manager.go` | `rooms`: `Room` by room ID | `OnPeerJoin`, `OnPeerLeave`, `OnMessage`, `RequestKeyframe` | rooms, recording (callback) |
| `internal/sfu/room.go` | `peers`: `Peer` by peer ID | `AddPeer`, `RemovePeer`, `fanoutNewTrack`, `HandleMessage`, `RequestKeyframe` | peers |
| `internal/sfu/peer.go` | publisher and subscriber connection, published tracks, senders by key, `subNeedsOffer`, `closed` | `handlePubOffer`, `handleIncomingTrack`, `AddSubscriberTrack`, `RemoveSubscriberTracksFrom`, `handleSubAnswer`, `handleICE`, `Close` | pion, client |
| `internal/recording/manager.go` | active session by room ID | `Start`, `Stop`, timer, `OnPacket`, `OnPeerLeave`, `processAndFinalize` | hub (broadcast), SFU (key frames), ffmpeg, S3 |
| `internal/recording/session.go` | writers by track, `closed`, `done`, directory | `WriteRTP`, `PeerLeft`, `close`, `Tracks`, `cleanup` | files |
| `internal/recording/ffmpeg.go`, `s3.go` | none | `Mux` builds and runs one ffmpeg command; upload and presigned URL | ffmpeg, S3 |
| `internal/auth/room_token.go` | none | `ValidateRoomToken`, `ExtractBearerToken` | settings, clock |
| `internal/turn/turn.go` | allocations (pion's) | `Credentials`, `authHandler` | settings, clock |
| `internal/server/api.go` | none | `/api/features`, `/api/ice-config` | tokens, TURN |
| `internal/config`, `internal/server/server.go`, `cmd/roomkit` | set once at start | environment, wiring, routing, start and stop | all |
| `sdk/src/room.ts`, `signaling.ts` | two peer connections, local streams, peers, recording status | `join`, `leave`, devices, screen share, `handleSignal` | server |
| `sdk-react`, `sdk-vue` | view state | rendering | SDK |

How they interact.  `ServeWS` runs one goroutine per client: it joins the hub,
calls `Manager.OnPeerJoin`, and then reads messages until the websocket is
gone, when the deferred leave runs.  pion starts one goroutine per incoming
track, which publishes the track, fans it out to the room and then forwards
packets, each of which goes to the recording manager as well.  Recording adds
the goroutine of a timer and the one that muxes and uploads.  Nothing is
persisted except recorded files, so a restart of the server starts from nothing.

What is hard in it:

- snapshots: `AddPeer`, `RemovePeer` and `fanoutNewTrack` copy the members
  under `Room.mu` and work through the copy without it, while others join,
  leave and publish;
- two-section operations: `OnPeerJoin` and `OnPeerLeave` release `Manager.mu`
  in the middle, `Start` broadcasts after it has unlocked, `WriteRTP` writes
  after it has unlocked;
- negotiation: a subscriber connection may have one offer outstanding, and
  changes made meanwhile must be offered later;
- identity: objects are found by a peer ID, which a client that reconnects
  may share with its own old session when room tokens are used;
- timers: the maximum duration against a stop and a new start;
- partial failure: pion calls, full send buffers, ffmpeg, uploads;
- lost requests: a picture-loss indication (PLI) may not arrive, and a recording
  of a video begins with a key frame only;
- things that are checked once and used for long: a token at the upgrade, TURN
  credentials during a call;
- in the SDK, asynchronous methods that interleave at every `await`.

What makes each component correct:

- *room*: every track of a member reaches every other member; a leaver is torn
  down, its tracks are taken from the others, and nobody else's are;
- *negotiation*: one exchange at a time, no lost change, and the client
  converges to what its connection sends;
- *registry*: a peer that joined is found by its messages and by its leave, and
  an empty room is deleted;
- *recording*: a session ends once and is reported in order; the mux gets
  every track with every file closed; what is reported as ready is there; a
  recording ends even if nobody stops it;
- *hub*: a client's list of peers and the joins and leaves it is told of add up
  to the membership, a leave is told, and a session that is over is gone;
- *media*: a file's offset is that of its first packet; the mux takes every
  track once and mixes none up; a video that goes on gets recorded;
- *access*: who is let in was vouched for by a token that was good then; IDs are
  shared only when tokens allow it; a relay ends with its credentials;
- *SDK*: what the others receive is what is shown locally, a message is handled
  once, and what the room holds no more is stopped or closed.

## 2. The models

`MC*` modules give the constants of a module values for TLC, and `*Proofs`
modules hold the theorems about one.

### `Subscriber`: the subscriber connection of a peer

Everything in `peer.go` under `subMu`, as operators from a state to the set of
states it may end in: `Subscribe` (`AddSubscriberTrack`), `Unsubscribe`
(`RemoveSubscriberTracksFrom`), `Renegotiate`, `Answer` (`handleSubAnswer`),
`Shut` (the second half of `Close`), and `Send`, `HangUp`, `Apply` for the
websocket and the client.  An `RTPSender` is the pair of its track and of the
loop that added it, so two senders for one track differ although their key in
`subscribedSenders` is the same: `senders` is what is attached to the
connection, `mapped` what the map still knows.  The constant `Faults` allows
pion calls to fail and send buffers to overflow.

### `SfuRoom`: one room

Session goroutines (`phase`: `AddPeer`, read loop, `RemovePeer`), track
goroutines (`trackState`: `handleIncomingTrack`) and clients.  Each section
under a lock is an action, and each iteration of a loop over a snapshot is one,
so every interleaving of joins, publications and leaves that the locks allow
is a behaviour.  `IdOf` maps peer objects to identifiers: injective in open
mode, where `ServeWS` makes a fresh UUID.  `KeyPrefix` says for which
identifiers the prefix test of `RemoveSubscriberTracksFrom` succeeds.

### `Negotiation`: what a subscriber is promised

The abstract specification of one subscriber connection, without loops, maps,
queues and flags: offers and answers alternate, the first change after a quiet
time is offered at once, a change during an exchange is offered after it, and an
exchange ends only with the client up to date.  `SfuRoom` implements it for every
peer (`NegotiationImplemented`): `want` is the set of senders, `offer` the
content of the last offer, `have` the client's view, and `stage` follows from
the signaling state and from the message under way.  The stage "stuck" is
where a refused answer leaves a connection.

### `SfuManager`: the registry of rooms

`OnPeerJoin`, `OnPeerLeave` and `OnMessage` of the sessions of one room ID,
at the grain of `Manager.mu` and `Room.mu`, with the read of the length of the
map after the unlock in `RemovePeer` as an action of its own.  A room is only its
set of sessions here.  Three history variables record who was told to have
left, who lost a message and who was overtaken by a deletion.

### `Recording`: the recordings of a room

`Start`, `Stop`, the timer, `processAndFinalize`, packets, leavers and peers
that come back, each with its own program counter; each section under a lock is
an action.  `BroadcastStatus` holds the lock of the hub for reading only, so the
broadcasts of `Start` and `Stop` overlap: each client that one reaches is an
action (`AnnounceTo`, `ReportTo`), `sent` is what each client was sent of each
session, and `overtaken` are the sessions that a stop has taken out of the map
before `Start` had told every client.  A `Client` here is in the room all the time
and keeps up; the others are in `Signaling`.  A packet is four steps: its
forwarding loop has read it (`Read`; the peer may leave meanwhile), looks up the
session (`OnPacket`), finds or opens the writer under the lock (`FindWriter`)
and writes without it (`Write`), by when the file may be closed.  `ClosedWith`
says which writers the prefix test of `PeerLeft` closes.  FFmpeg and S3 succeed
or fail, and S3 is there or not (`s3`).  Which packet opens a writer is left open
here and told in `Media`.

### `Media` and `Ffmpeg`: from a track to the mux

`Media` follows the tracks of a room (`handleIncomingTrack`, `pliLoop`, the end
of a connection, `Close`), the requests for key frames of `Manager.Start`, and
one recording of them with its clock: what opens a writer, the offset it is
stamped with, what its file begins with, the order of `Tracks()`.  A packet is
two steps, the section under `Session.mu` (`Packet`) and the write (`Write`);
`held` is the packet between them.  A forwarding loop ends when `local.Write`
fails (`Stall`), a `pliLoop` when `WriteRTCP` does (`quit`).  `Ffmpeg` is `Mux` as
an operator from the sequence of tracks to a command, and what ffmpeg accepts;
the loop that sorts the tracks by kind is a function of the number of turns.
What `Recording` has in full is simplified in `Media`: a packet that was read
comes to the recording at once, and no peer's ID is the beginning of another's
keys.

### `Signaling`: the hub and its sessions

`ServeWS` of every session from `hub.Join` to the end of the deferred leave
(`phase`), the write pump (`Deliver`), and one room of the hub.  `Join` and
`Leave` hold `Hub.mu` for writing and are actions; `Broadcast` holds it for
reading, so broadcasts overlap and each `Client.Send` in one is an action, while
joins and leaves wait (`Unlocked`).  A full queue closes the client.  `MaxPeers`
and `RoomsTaken` are the two limits, `Capacity` the length of the queue.
`roster` is what a client knows that keeps the peers it is told of, `overtaken`
the leaves that were queued for it before its list of peers.

### `Access`: tokens, identifiers and TURN

The first half of `ServeWS` up to the upgrade (`Connect`), `ValidateRoomToken`,
`EffectiveRoomID`, `Bearer`, the choice of the peer ID, `/api/ice-config`, and
`authHandler` at every allocation and refresh of one TURN client.
`cfg` is any combination of the settings they read that the command starts with.
A token is a record of its claims; its decoding and its MAC are one Boolean.
`Duration` is the product of `room_token.go:103` in `Width` bits.

### `SdkRoom`: the browser client

`RoomkitRoom` and `SignalingClient`, at the grain of their awaits: `at[c]` is
the await that call `c` of `join`, `startScreenShare`, `stopScreenShare`,
`setCameraDevice` or `setMicrophoneDevice` is in, and `leave()` is one action.
`live` is what the browser captures, `open` and `sockets` what is not closed,
`chain` the `replaceTrack` operations that wait, in order, per connection.  The
history variables say what a property may not speak of: `raced` are the calls
that another call overlapped, `rejoined` a `join()` that came without a
`leave()` or while another was under way,
`endedEarly` a screen that the user stopped before `_sharing` was set, and
`refilled` a sender that had lost its track and got one from a replacement that
had waited.

The modules are composed where they share state: `SfuRoom` uses the operators of
`Subscriber` and instantiates `Negotiation`, and `Media` uses `Ffmpeg`.  The
client in `Subscriber` answers an offer as `handleSignal` does.  `Access`,
`Signaling`, `SfuManager` and `SfuRoom` are separate since they share only the
lifecycle of a session, and `Recording` since it only receives packets and
leaves from the SFU.

## 3. The runs

| run | shows | instance |
| --- | --- | --- |
| `SfuRoom_three` | `FullMesh`, `NoLostChange`, `LeaverTornDown`, `KeepsMembersTracks`, `RemoveLeavesOnlyDuplicates`, types | 3 sessions, 1 track |
| `SfuRoom_faults` | `NegotiationImplemented`, `OneOutstandingOffer`, the inductive invariant, `ClientConverges`, `LeaverGoes`, with failing calls | 2 sessions, 2 tracks |
| `SfuManager_all` | `OnlyRacedAreLost`, `RegistryEmpties`, types, the inductive invariant | 4 sessions, 4 rooms |
| `Recording_all` | `MuxComplete`, `OnceInOrder`, `ReadyHasFile`, `RecordingEnds`, types, the inductive invariant | 2 recordings in turn, 2 clients, 2 peers, one with a track, with and without S3 |
| `Media_all` | `InSync`, `BothKindsAccepted`, `MuxedOnce`, `VideoRecorded`, types | a microphone and 2 cameras of 2 peers, 2 times |
| `Signaling_all` | `SfuPeersInHub`, `RosterAgrees`, `LeaveIsTold`, `SessionEnds`, types | 3 sessions, 2 at a time, queues of 2 |
| `Access_all` | `AdmittedByToken`, `SharedIdVouched`, `RelayEnds`, types | 2 windows, 2 rooms, 5 tokens, 5 seconds |
| `SdkRoom_all` | `OnlyRacedLeak`, `SentIsShown`, `HandledOnce`, types | 4 calls, any number of leaves |

Why these bounds are enough for the cases of interest.

- *Room.*  Three sessions are a publisher, a subscriber and a third that joins
  or leaves in between, and give a subscriber two changes during one exchange;
  the two subscribers are interchangeable, hence the symmetry.  Two sessions
  with a track each make every pair of loops meet in both directions.
- *Registry.*  One session may keep a room, one leave it, one be between its
  two sections and one arrive at the next room.
- *Recording.*  Two recordings in turn are what the timer of the first and a
  late packet can confuse.  Broadcasts overlap within one recording only, and
  what can differ then is what two clients hear; of the two peers one has an ID
  that begins the keys of the other's track, so that its leave closes a file
  that is still written.  The first recording is free of bounds.  `InTurn` keeps
  the second short: its clients are told in one order, peers stay during it, no
  packet comes that was not on its way when it started, and it is followed
  from `Stop` on only after a first one that is over and empty, since its
  finalization shares nothing with that of the first.
- *Media.*  Two videos and a sound are enough for two writes that wait at the
  same time, for a loop that gives up while another goes on, for a peer that
  leaves with two files, and for an order or an index of the inputs to be wrong.
  `OneFails` lets one video have every trouble (an error that ends one of its
  loops, a request that is answered, given up or lost, and with the sound of its
  peer a failed connection and the leave); the other video stays, and nothing is
  followed after the command of ffmpeg.  Two moments tell a track that is there at the start from a late
  one.  Two sounds to mix are left to the theorems, which are about any number.
- *Hub.*  Two sessions meet, a third is rejected or takes the place of one that
  left, and the announcements of its coming and going fill a queue of two.
  Sessions do not come back: a client that reconnects is another session.
- *Access.*  Durations have 6 bits and two units per second, so that 16 seconds
  overflow; in `Access_all` one token lives for 15 and one for 4, longer than the
  maximum of 2.  The others expire during the run, name two rooms, name no peer
  or allow any, lack the join permission, or have a wrong signature.
  None overflows: what happens then is the theorem `OverflowAdmitted`.
  Credentials and allocations last a second, so five seconds see them expire
  and be renewed.
- *SDK.*  Four calls are a join, a screen share, its stop and a change of
  camera, or two joins and two shares, with leaves anywhere.

Deadlock is checked unless the system may stop for good: in `Access_all` when
the clock has reached its bound with every token expired, in `Media_all` when
everybody has left.  Elsewhere `Finished`, or `leave()`, is the step of a system
in which every session is over.

### Disagreements

Runs that fail, each a disagreement between the code and what is said of it:

| run | what happens |
| --- | --- |
| `SfuRoom_ghost` | A peer leaves between the snapshot and the subscription of a fan-out or a join; a member stays subscribed to a peer that is gone (`room.go:64`). |
| `SfuManager_gap` | A leaver deletes the room between the lookup and `AddPeer` of a joiner; no message reaches the joiner (`manager.go:146`, `manager.go:168`). |
| `Recording_timer` | A timer that fires as its session is stopped ends the next recording of the room (`recording/manager.go:142`). |
| `Sdk_leave` | `leave()` does not reach a `join()` or `startScreenShare()` that waits; what it opens afterwards nobody closes (`room.ts:98`). |

Two more are theorems, since what the code does there holds for every value of
the constants and not only in an instance:

- A token that ends between 292 and 584 years from now passes the maximum
  lifetime, "a server-side ceiling" (`SECURITY.md:26`, `room_token.go:22`): the
  product with `time.Second` wraps to a negative duration (`room_token.go:103`).
  `OverflowAdmitted` (`AccessProofs`) says that every such lifetime passes every
  maximum; `AdmittedByToken`, which states the ceiling, is proved for lifetimes
  that fit into a duration.
- A recording with tracks of one kind only fails, although a placeholder is
  generated for the other kind, "no video — generate black 1x1 placeholder"
  (`ffmpeg.go:69`, `ffmpeg.go:93`): its label is passed to `-map` like the output
  of a filter (`ffmpeg.go:71`, `ffmpeg.go:95`, `ffmpeg.go:110`).
  `SingleKindRefusedHolds` (`MediaProofs`) says that ffmpeg refuses the command
  of every such recording, whatever is in its files.

Others were met while modelling.  Most are part of the models, and a property
says how far they go:

- After a `join()` that failed, or a lost connection, the application is
  "responsible for calling join() again" (`signaling.ts:24-26`); every `join()`
  adds a listener, which only `leave()` removes (`room.ts:89`,
  `signaling.ts:97`), so without one in between every message is handled twice,
  a sub-offer among them.  `HandledOnce` says that this is the only way: it
  excepts `rejoined`, which is the use that the comment asks for.
- A join and a fan-out subscribe a peer to the same track; the second sender
  replaces the first in the map and the first is never removed
  (`peer.go:279`, `peer.go:284`).  `RemoveLeavesOnlyDuplicates` shows that
  nothing else is left behind.
- A stop overtakes the announcement of the start, and some clients or all end at
  "recording" (`recording/manager.go:123-125`): the broadcasts of the two
  overlap, whether `Start` is still before its own or in the middle of it.
  `OnceInOrder` allows it only for a session that was stopped before `Start` had
  told every client (`overtaken`).
- A leave or a stop between the stamp of an offset and the write of the packet
  leaves an empty file among the tracks of the mux (`session.go:150-152`);
  `InSync` says that there are no others.  ffmpeg refuses such a file, so
  `BothKindsAccepted` speaks of recordings without one.
- An error of `local.Write` ends the forwarding of a track to everybody, and one
  of `WriteRTCP` the requests for key frames, while the track stays published
  (`peer.go:162`, `peer.go:195`).  `VideoRecorded` names both as exceptions.
- `/api/features` says that there is TURN, and `/api/ice-config` lists none, when
  the embedded server runs and `ROOMKIT_ICE_SERVERS` lists STUN only
  (`api.go:33`, `api.go:69`); this is plain from the two handlers and no property.
- A peer comes with an ID that is in the room: the map entry is overwritten
  and the old object is closed by nobody (`room.go:48`), or the leave of the old
  session takes the new one out of the hub (`client.go:158`).  `UniqueIds`, the
  assumption of the theorems about the room, is what excludes it, and
  `SharedIdVouched` says when it can be relied on: always in open mode, and with
  tokens that name distinct subjects and have no `peer:custom`.
- A peer ID that starts with another one and a colon loses its tracks when the
  other leaves (`peer.go:297`; `KeepsMembersTracks` fails as soon as
  `KeyPrefix` says so).
- The credentials of a relay last five minutes and are checked at each refresh,
  so the relay of a longer call ends (`api.go:25`; `RelayEnds`).
- A share that ends where there is no camera takes the track from the sender,
  and `replaceVideoTrack` finds senders by their track, so the next replacement
  passes it by; if another one was still waiting, a stopped track is sent in the
  end (`room.ts:369`; `refilled` in `SentIsShown`).  It takes five overlapping
  calls.
- `leave()` does not reset `_sharing`, and after a join without a camera there
  is no sender to replace, so a shared screen is sent to nobody
  (`room.ts:369`; `SentIsShown` speaks of a connection that has one).

And in words only: the comment of `ExtractBearerToken` puts the header first
and the code the query; `session.go:203` says that `cleanup` is for a
successful upload, and `processAndFinalize` also calls it after a failed one;
`signaling.ts:25` promises an error event that nothing emits.

## 4. Fairness

`SfuRoom!Fairness`: a goroutine that can take a step takes one in the end (the
Go scheduler; a lock may be held while `Client.Send` closes the websocket of a
slow consumer, under `subMu` or `Hub.mu`, which takes seconds at most since the
closing handshake has a timeout, and under `Hub.mu` for one client after the
other), and a connected client answers an offer that has arrived (the SDK does, in
`handleSignal`).  Nothing is assumed of joins, publications and departures.
`ClientConverges` is claimed of clients for which no pion call has failed: after
a refused answer the code makes no other offer.

`Recording!Fairness`: as long as some goroutine of a recording can run, one
does; a timer goes off if it has not been stopped, and external calls return
(the context of `processAndFinalize` has a timeout of two hours).  These
goroutines have finitely many steps, so no fairness between them is needed.  No
stop request is assumed.

`Media!Fairness`: the ticker of a `pliLoop` goes on and not every PLI is lost
(it asks again every few seconds), a publisher that got one sends a key frame,
and a packet handed to a writer is written.  Nothing is assumed of the request that `Start` makes: `VideoRecorded`
holds although it may be lost, or come before the track.

`Signaling!Fairness`: the goroutine of a session that has joined goes on, and
the write pump of an open websocket does (a write has a timeout of ten seconds,
after which the websocket is closed).  A leave waits for the broadcasts under
way, of which there are finitely many here; in the program `sync.RWMutex` lets
no new reader in before a waiting writer.

`Access` and `SdkRoom` have no fairness and claim no liveness: whether a window
connects or a user answers a prompt is up to them.

## 5. The proofs

| module | theorems |
| --- | --- |
| `SubscriberProofs` | every operation keeps the invariant of a connection, `SubInv`, and is a step of `Negotiation` |
| `SfuRoomProofs` | `IndInv`, and from it types, `OneOutstandingOffer`, `NoLostChange`, `FullMesh`, `LeaverTornDown`, `KeepsMembersTracks`, `RemoveLeavesOnlyDuplicates`; `NegotiationImplemented`, and from it `UpToDate` for every connection |
| `SfuManagerProofs` | `IndInv`, types, `OnlyRacedAreLost`, `RegistryEmpties` |
| `RecordingProofs` | `IndInv`, types, `MuxComplete`, `OnceInOrder`, `ReadyHasFile` |
| `MediaProofs` | `IndInv`, types, `InSync`, `BothKindsAccepted`, `MuxedOnce`; `SingleKindRefused` |
| `SignalingProofs` | `IndInv`, types, `SfuPeersInHub`, `RosterAgrees` |
| `AccessProofs` | `IndInv`, types, `AdmittedByToken`, `SharedIdVouched`, `RelayEnds`; `OverflowAdmitted` |
| `SdkRoomProofs` | `IndInv`, types, `OnlyRacedLeak`, `SentIsShown`, `HandledOnce` |

With these every safety property that a passing run checks is a theorem.  The
runs also check the inductive invariants of `SfuRoom`, `SfuManager` and
`Recording`; those of the other modules are in the modules, proved, and no run
repeats them.

Assumptions.  The theorems of `SfuRoomProofs` and `SignalingProofs` assume
`UniqueIds` (see Disagreements): `ServeWS` gives every session of open mode a
fresh UUID.  Those of `SfuRoomProofs` hold for every set of faults.  Those of
`AccessProofs` assume `WidthAssumption`, arithmetic that the prover cannot do:
`2^Width` is twice `2^(Width-1)`; `AdmittedByTokenHolds` also assumes
`LifetimesFit`, that the lifetime of every token fits into a `time.Duration`,
without which it is false (`OverflowAdmitted`).  Those of `MediaProofs` assume
that there are finitely many tracks, none of which is called "lavfi".  The others assume only
the typing of their constants.

*Room.*  `FullMesh` is not inductive: it says nothing of the time before a loop
ends.  `MeshInv` says where the missing subscription still is: in the rest of
the fan-out, or in the rest of the join.  It needs `MapInv` (the map holds
exactly the objects between their two critical sections, so whoever takes a
snapshot sees them) and `TrackInv` (a track comes only from an object that has
joined; a finished fan-out has nobody left).  `CloseInv` orders the flag, the
connection and the loops of a leaver, which gives `LeaverTornDown`: a
subscription that comes later reads the flag under the same lock.
`NegotiationInv` is `SubInv` of every connection: at most one message is under
way, its content is the last offer, and a change it lacks is remembered.
These parts are `RoomInv`.  `SenderInv`, kept by every step where `RoomInv`
holds, is what `RemoveLeavesOnlyDuplicates` needs: the map may have lost a
sender, but not the last one for a track, until the removal of that track's
owner has been at the connection.

*Negotiation.*  What holds during an exchange is that after an answer the client
has the last offer, and that an exchange is over only when that offer is what the
server sends.  The refinement is proved operation by operation: under `SubInv`,
each of `Subscribe`, `Unsubscribe`, `Answer`, `Shut`, `Apply` and `HangUp` is a
step of `Negotiation` or a stutter, whatever pion call fails in it.  Every
action of `SfuRoom` applies such operations to the connections, one each,
so every connection implements `Negotiation`, and `UpToDate` of the abstract
specification is carried over to all of them.

*Registry.*  `UnracedInv` follows a session that no deletion overtook: it joined
the registered room and is in the map of that room alone.  `RacedInv` keeps the
overtaken ones apart from the room registered now.  `DutyInv` names, while a
room is registered, a session that is bound to delete it.

*Recording.*  `MuxComplete` needs `CloseInv` (closing is final, and comes
before the list of tracks is read, so no packet adds a writer later) and
`RegistryInv` (the session in the map has not been taken, so no second `Stop`
sets it back).  `OnceInOrder` needs `PlaceInv`: the places of `Start`, `Stop` and
`processAndFinalize`, and the clients that their broadcasts have still to reach,
say for each client what it has been told, so what it is told next is new.  That
the start comes first is kept since a session whose `Start` has not told every
client is in the map or in `overtaken`.  `ReadyHasFile` needs `PlaceOfFileInv`: until the cleanup, the file is where
the next step looks for it.

*Media.*  `InSync` needs `HeldInv`: while a file is open and empty, the packet
that its loop has still to write is the one whose arrival the offset was stamped
with, and it is one that the file keeps; and `StartInv`, that a recording begins
before anything is written.  For `BothKindsAccepted` and `MuxedOnce` the invariant says that a
command is `Mux` of the tracks in an order of `Tracks()` (`CmdInv`), since no
writer is added after the recording has ended; the rest is about `Mux` alone.
The loop over the tracks is shown to take exactly the tracks of a kind, in
their order, by a least number of turns after which it would not; so every
track has one place among the inputs, and the filters take the inputs of their
kind.  That the order has every track is a count: it names as many different
tracks as there are.

*Hub.*  `RosterAgrees` says nothing of a client with messages in its queue.
`NewsInv` says where the news is that a client lacks: in its queue, on the list
of peers that it has not been sent yet, or in a broadcast that has it still to
serve.  A leave must also come after every message that adds the same peer
(`EndsGone`), unless it overtook the list, which is the one exception of the
property.  It needs `HearsayInv` (a client hears of other sessions only, and of a
leave only when it is announced), `SendingInv` (a session announces itself, and
its place says what) and `HubInv` (the map holds the sessions between `Join` and
`Leave`, and broadcasts keep both out).

*Access.*  What a token vouched for is a fact about one moment, so the session
keeps that moment and the settings never change; the step to prove is that the
checks of `ValidateRoomToken` imply `Vouches`, and the maximum if the product
does not wrap.
`SharedIdVouched` is about pairs of sessions and follows from `OwnIds`, which is
about each alone: a fresh ID belongs to one window.  `RelayEnds` needs
`RelayInv`: a relay is extended only while its credentials are good, and a tick
removes it as soon as it is over.

*SDK.*  `LiveInv` says to whom every captured track belongs, and `OverlapInv`
what follows for two calls of `join` or two shares when neither is known to have
overlapped the other; together they give `OnlyRacedLeak`.  `HandledOnce` follows
from a part of it: where there is a listener there is a stream, and a `join()`
that finds one is `rejoined`.
`SentIsShown` speaks of a quiet room, so `SentInv` speaks of the last
replacement that waits (`Last`): it is the camera, or a screen that is shared or
about to be.  `ChainInv` keeps the calls that wait apart, and `AloneInv` adds
that a room that was not rejoined has one connection.  The attempt to prove
`SentIsShown` without `refilled` failed for a reason: it is false from five
calls on, which the run with four does not see.

Only model-checked: liveness (`ClientConverges`, `LeaverGoes`,
`RecordingEnds`, `VideoRecorded`, `LeaveIsTold`, `SessionEnds`), which is out of
the prover's reach.

## 6. Not modelled

- ICE candidates: they change no state of a room.  Those that come too early
  are refused and lost, and ICE is left with fewer pairs.
- In the hub, sessions that share an identifier, the welcome message, and
  `SendTo`, which has no caller; in `dispatch`, the permission of a record
  request, a comparison with the claims of the session.
- Tracks with codecs other than VP8 and Opus: the SFU registers no others, so
  the branches of `session.go` for them are never taken.
- Tracks that end while their publisher stays: nothing in the SFU reacts.
- The S3 driver, a wrapper of the AWS library, but for success and failure;
  the S3 diagnostic of the command.
- Parsing of the environment, routing, CORS headers, start-up but for the
  settings it refuses.
- The end of the process: nothing waits for recordings under way, and a restart
  begins with no session and reads nothing back, so there is no recovery to
  check.
- In the SDK, the lists of peers and of chat messages and muting, each updated
  in one piece; the websocket after `connect()`, which no handler watches.
- A `replaceTrack` that is rejected; the calls of `SdkRoom` wait and succeed.
- Keys that collide in a run of `SfuRoom`: `KeyPrefix` is the identity in both
  configurations, as it is for the fresh UUIDs of open mode (see Disagreements
  for what happens otherwise).
- The inside of pion's file writers: a write and a close of the same writer may
  meet, and a packet is then written or dropped.
- `/api/features`, which reads the settings and changes nothing.
- Protocol messages (data types) and the view bindings (rendering).

## 7. What is left

1. Sessions that share an identifier, in the hub and the SFU at once, with the
   tokens that allow it: the composition of `Access`, `Signaling` and `SfuRoom`
   over one session.  The theorems that assume `UniqueIds` then need a version
   that says what remains true.
2. The safety parts of the liveness arguments as theorems: that a goroutine with
   work left has a step it can take, and what every such step brings nearer.
3. `Media` with all the locks of `Recording`, so that one module has every
   interleaving of a packet with a stop, and the clock.
