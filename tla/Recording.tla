------------------------------ MODULE Recording ------------------------------
(***************************************************************************)
(* The recordings of one room: internal/recording/manager.go and           *)
(* session.go.  Rooms share nothing but Manager.mu.                        *)
(*                                                                         *)
(* Goroutines and where they interleave:                                   *)
(*  - the caller of Manager.Start for session s: starting[s];              *)
(*  - the max-duration timer of s: timer[s];                               *)
(*  - the caller of Manager.Stop that took s out of the map, and then      *)
(*    processAndFinalize, which that caller starts: stopping[s];           *)
(*  - the forwarding loop of each track, which calls OnPacket: reader[t];  *)
(*  - the session goroutine of a leaving peer, in OnPeerLeave: leaving[p]. *)
(* A section under Manager.mu or Session.mu is one action.  A broadcast    *)
(* holds the lock of the hub for reading only, so broadcasts overlap, and  *)
(* each client that one reaches is an action.  FFmpeg and S3 are external: *)
(* a call succeeds or fails, and does either in the end (the context has a *)
(* timeout of two hours).                                                  *)
(***************************************************************************)
EXTENDS Naturals, Sequences

CONSTANTS
    Session,    \* Session objects that newSession may make
    Peer,       \* peers of the room
    Track,      \* the tracks they publish, the keys of Session.writers
    PeerOf,     \* [Track -> Peer]
    ClosedWith, \* [Peer -> SUBSET Track]: the tracks whose key begins with the
                \*   ID of the peer and a colon; those of another peer, too,
                \*   when its ID begins like that
    Client,     \* clients that are in the room all the time and keep up: the
                \*   hub closes one that does not (Signaling)
    NoSession   \* no active recording

ASSUME SessionAssumption == NoSession \notin Session
ASSUME PeerOfAssumption  == PeerOf \in [Track -> Peer]
ASSUME ClosedAssumption  ==
    /\ ClosedWith \in [Peer -> SUBSET Track]
    /\ \A t \in Track : t \in ClosedWith[PeerOf[t]]

VARIABLES
    s3,         \* Manager.s3 is not nil: recordings are uploaded; else they
                \*   are kept on disk.  New decides it once
    active,     \* Manager.sessions[roomID]
    starting,   \* per session: the goroutine in Start
    timer,      \* per session: the max-duration goroutine
    stopping,   \* per session: the goroutine in Stop, then in
                \*   processAndFinalize
    sess,       \* per session: its fields, see SessionState
    sent,       \* per session and client: the states it was sent, in order
    announce,   \* per session: the clients that the broadcast of Start has
                \*   still to reach
    report,     \* per session: those that the broadcast of Stop or of
                \*   processAndFinalize has still to reach
    overtaken,  \* history: the sessions that Stop has taken out of the map
                \*   before Start had told every client of them
    present,    \* the peers that are in the room
    reader,     \* per track: the forwarding loop, in OnPacket
    leaving     \* per peer: the session OnPeerLeave has looked up

toldVars == <<sent, announce, report>>
recVars  == <<active, starting, timer, stopping, overtaken, toldVars>>
peerVars == <<present, reader, leaving>>
vars     == <<recVars, sess, peerVars, s3>>

SessionState ==
    [closed   : BOOLEAN,        \* Session.closed; Session.done is closed too
     writers  : SUBSET Track,   \* the keys of Session.writers
     open     : SUBSET Track,   \* those whose file is still open
     data     : SUBSET Track,   \* those whose file has packets in it
     input    : SUBSET Track,   \* what Tracks() returned to the mux
     read     : SUBSET Track,   \* history: data at that moment
     dir      : BOOLEAN,        \* the session directory is on disk
     uploaded : BOOLEAN]        \* the recording is in the bucket

Init ==
    /\ s3 \in BOOLEAN
    /\ active = NoSession
    /\ starting = [s \in Session |-> "unused"]
    /\ timer = [s \in Session |-> "none"]
    /\ stopping = [s \in Session |-> "no"]
    /\ sess = [s \in Session |->
                 [closed |-> FALSE, writers |-> {}, open |-> {}, data |-> {},
                  input |-> {}, read |-> {}, dir |-> FALSE, uploaded |-> FALSE]]
    /\ sent = [s \in Session |-> [c \in Client |-> <<>>]]
    /\ announce = [s \in Session |-> {}]
    /\ report = [s \in Session |-> {}]
    /\ overtaken = {}
    /\ present = Peer
    /\ reader = [t \in Track |-> [at |-> "idle", session |-> NoSession]]
    /\ leaving = [p \in Peer |-> NoSession]

\* One turn of the loop in BroadcastStatus: client c is sent the state of s.
Broadcast(s, c, state) ==
    sent' = [sent EXCEPT ![s][c] = Append(@, state)]

-----------------------------------------------------------------------------
(* Manager.Start *)

\* Under Manager.mu; an error when a recording is active.
Start(s) ==
    /\ starting[s] = "unused" /\ active = NoSession
    /\ active' = s
    /\ starting' = [starting EXCEPT ![s] = "registered"]
    /\ announce' = [announce EXCEPT ![s] = Client]
    /\ sess' = [sess EXCEPT ![s].dir = TRUE]
    /\ UNCHANGED <<timer, stopping, sent, report, overtaken, peerVars>>

\* The broadcast, after the lock is released.
AnnounceTo(s, c) ==
    /\ starting[s] = "registered" /\ c \in announce[s]
    /\ Broadcast(s, c, "recording")
    /\ announce' = [announce EXCEPT ![s] = @ \ {c}]
    /\ UNCHANGED <<active, starting, timer, stopping, report, overtaken, sess, peerVars>>

\* After it, the keyframe request and the timer's goroutine.
Announced(s) ==
    /\ starting[s] = "registered" /\ announce[s] = {}
    /\ starting' = [starting EXCEPT ![s] = "returned"]
    /\ timer' = [timer EXCEPT ![s] = "waiting"]
    /\ UNCHANGED <<active, stopping, overtaken, toldVars, sess, peerVars>>

TimerFires(s) ==
    /\ timer[s] = "waiting"
    /\ timer' = [timer EXCEPT ![s] = "fired"]
    /\ UNCHANGED <<active, starting, stopping, overtaken, toldVars, sess, peerVars>>

TimerExits(s) ==
    /\ timer[s] = "waiting" /\ sess[s].closed
    /\ timer' = [timer EXCEPT ![s] = "exited"]
    /\ UNCHANGED <<active, starting, stopping, overtaken, toldVars, sess, peerVars>>

-----------------------------------------------------------------------------
(* Manager.Stop *)

\* Mutant of Take: the session stays in the map.
TakeKeeps ==
    /\ UNCHANGED <<active, overtaken>>
    /\ stopping' = [s \in Session |-> IF s = active THEN "taken" ELSE stopping[s]]

\* The section under Manager.mu: whichever session is active is taken.
Take ==
    /\ active' = NoSession
    /\ stopping' = [s \in Session |-> IF s = active THEN "taken" ELSE stopping[s]]
    /\ overtaken' = overtaken \cup
                      {s \in Session : s = active /\ starting[s] # "returned"}

StopRequest ==
    /\ active # NoSession
    /\ Take
    /\ UNCHANGED <<starting, timer, toldVars, sess, peerVars>>

\* Mutant of TimerStop: the timer logs, and does not stop the recording.
TimerOnlyLogs(s) ==
    /\ timer[s] = "fired"
    /\ timer' = [timer EXCEPT ![s] = "exited"]
    /\ UNCHANGED <<active, starting, stopping, overtaken, toldVars, sess, peerVars>>

TimerStop(s) ==
    /\ timer[s] = "fired"
    /\ timer' = [timer EXCEPT ![s] = "exited"]
    /\ Take
    /\ UNCHANGED <<starting, toldVars, sess, peerVars>>

\* Mutant of Close: the files are closed, the session is not marked closed.
CloseFilesOnly(s) ==
    /\ stopping[s] = "taken"
    /\ sess' = [sess EXCEPT ![s].open = {}]
    /\ stopping' = [stopping EXCEPT ![s] = "closed"]
    /\ report' = [report EXCEPT ![s] = Client]
    /\ UNCHANGED <<active, starting, timer, sent, announce, overtaken, peerVars>>

\* Session.close, under Session.mu.
Close(s) ==
    /\ stopping[s] = "taken"
    /\ sess' = [sess EXCEPT ![s].closed = TRUE, ![s].open = {}]
    /\ stopping' = [stopping EXCEPT ![s] = "closed"]
    /\ report' = [report EXCEPT ![s] = Client]
    /\ UNCHANGED <<active, starting, timer, sent, announce, overtaken, peerVars>>

\* The broadcast, and what comes after it, processAndFinalize.
Processing(s) ==
    /\ stopping[s] = "closed" /\ report[s] = {}
    /\ stopping' = [stopping EXCEPT ![s] = "processing"]
    /\ UNCHANGED <<active, starting, timer, overtaken, toldVars, sess, peerVars>>

\* What the broadcast of Stop or of processAndFinalize says, by its place.
Reported == [closed |-> "processing", succeeding |-> "ready", failing |-> "failed"]

ReportTo(s, c) ==
    /\ stopping[s] \in DOMAIN Reported /\ c \in report[s]
    /\ Broadcast(s, c, Reported[stopping[s]])
    /\ report' = [report EXCEPT ![s] = @ \ {c}]
    /\ UNCHANGED <<active, starting, timer, stopping, announce, overtaken, sess, peerVars>>

-----------------------------------------------------------------------------
(* processAndFinalize *)

\* One step of it: from one place to another, with an update of the session.
\* A place where it announces begins with every client to be told.
Finalize(s, from, to, update) ==
    /\ stopping[s] = from
    /\ stopping' = [stopping EXCEPT ![s] = to]
    /\ sess' = [sess EXCEPT ![s] = update]
    /\ report' = [report EXCEPT ![s] =
                     IF to \in {"succeeding", "failing"} THEN Client ELSE {}]
    /\ UNCHANGED <<active, starting, timer, sent, announce, overtaken, peerVars>>

\* Tracks(), under Session.mu; nothing to mux is a failure.
ReadTracks(s) ==
    Finalize(s, "processing", IF sess[s].writers = {} THEN "failing" ELSE "muxing",
             [sess[s] EXCEPT !.input = sess[s].writers, !.read = sess[s].data])

\* Mutant of Mux: the files are cleaned up whether or not they are uploaded.
MuxAndClean(s) ==
    \/ Finalize(s, "muxing", IF s3 THEN "uploading" ELSE "succeeding",
                [sess[s] EXCEPT !.dir = FALSE])
    \/ Finalize(s, "muxing", "failing", sess[s])

Mux(s) ==
    \/ Finalize(s, "muxing", IF s3 THEN "uploading" ELSE "succeeding", sess[s])
    \/ Finalize(s, "muxing", "failing", sess[s])

Upload(s) ==
    \/ Finalize(s, "uploading", "presigning", [sess[s] EXCEPT !.uploaded = TRUE])
    \/ Finalize(s, "uploading", "failing", sess[s])

\* A presigned URL, and the files are deleted; an error fails the session.
Presign(s) ==
    \/ Finalize(s, "presigning", "succeeding", [sess[s] EXCEPT !.dir = FALSE])
    \/ Finalize(s, "presigning", "failing", sess[s])

Succeed(s) ==
    report[s] = {} /\ Finalize(s, "succeeding", "done", sess[s])

\* After failSession, cleanup.
Fail(s) ==
    report[s] = {} /\ Finalize(s, "failing", "done", [sess[s] EXCEPT !.dir = FALSE])

-----------------------------------------------------------------------------
(* Packets: the forwarding loop, Manager.OnPacket and Session.WriteRTP *)

Idle == [at |-> "idle", session |-> NoSession]

\* The loop has read a packet and forwarded it.
Read(t) ==
    /\ reader[t].at = "idle" /\ PeerOf[t] \in present
    /\ reader' = [reader EXCEPT ![t].at = "read"]
    /\ UNCHANGED <<recVars, sess, present, leaving>>

\* Mutant of OnPacket: no check that a recording is active.
OnPacketUnchecked(t) ==
    /\ reader[t].at = "read"
    /\ reader' = [reader EXCEPT ![t] = [at |-> "found", session |-> active]]
    /\ UNCHANGED <<recVars, sess, present, leaving>>

\* OnPacket looks the active session up, under Manager.mu.
OnPacket(t) ==
    /\ reader[t].at = "read"
    /\ reader' = [reader EXCEPT ![t] =
                     IF active = NoSession THEN Idle
                     ELSE [at |-> "found", session |-> active]]
    /\ UNCHANGED <<recVars, sess, present, leaving>>

\* WriteRTP, under Session.mu: nothing on a closed session; else the writer
\* of the track, opened if there is none.  A video packet before the first
\* key frame and a writer that cannot be created are dropped.
FindWriter(t) ==
    LET s == reader[t].session
        write == reader' = [reader EXCEPT ![t].at = "writing"]
    IN  /\ reader[t].at = "found"
        /\ \/ /\ sess[s].closed \/ t \notin sess[s].writers
              /\ reader' = [reader EXCEPT ![t] = Idle]
              /\ UNCHANGED sess
           \/ /\ ~sess[s].closed /\ t \in sess[s].writers
              /\ write /\ UNCHANGED sess
           \/ /\ ~sess[s].closed /\ t \notin sess[s].writers
              /\ write
              /\ sess' = [sess EXCEPT ![s].writers = @ \cup {t},
                                      ![s].open = @ \cup {t}]
        /\ UNCHANGED <<recVars, present, leaving>>

\* The write itself, after Session.mu is released.  The file may be closed by
\* now; then, and when the writer cannot write, the packet is lost.
Write(t) ==
    LET s == reader[t].session
    IN  /\ reader[t].at = "writing"
        /\ reader' = [reader EXCEPT ![t] = Idle]
        /\ \/ /\ t \in sess[s].open
              /\ sess' = [sess EXCEPT ![s].data = @ \cup {t}]
           \/ UNCHANGED sess
        /\ UNCHANGED <<recVars, present, leaving>>

-----------------------------------------------------------------------------
(* Peers: Manager.OnPeerLeave and Session.PeerLeft *)

\* External: the peer is out of the room and its connections are closed; then
\* OnPeerLeave looks the active session up, under Manager.mu.
Leave(p) ==
    /\ p \in present
    /\ present' = present \ {p}
    /\ leaving' = [leaving EXCEPT ![p] = active]
    /\ UNCHANGED <<recVars, sess, reader>>

\* PeerLeft, under Session.mu: the writers are closed but stay in the map.
PeerLeft(p) ==
    /\ leaving[p] # NoSession
    /\ sess' = [sess EXCEPT ![leaving[p]].open = @ \ ClosedWith[p]]
    /\ leaving' = [leaving EXCEPT ![p] = NoSession]
    /\ UNCHANGED <<recVars, present, reader>>

\* External: the peer comes back and publishes its tracks again.
Rejoin(p) ==
    /\ p \notin present /\ leaving[p] = NoSession
    /\ \A t \in Track : PeerOf[t] = p => reader[t].at = "idle"
    /\ present' = present \cup {p}
    /\ UNCHANGED <<recVars, sess, reader, leaving>>

-----------------------------------------------------------------------------
\* Every session object has been used and finalized: the manager may rest.
Finished ==
    /\ \A s \in Session : stopping[s] = "done" /\ timer[s] = "exited"
    /\ UNCHANGED vars

StartStep(s)    == \/ (\E c \in Client : AnnounceTo(s, c)) \/ Announced(s)
                   \/ TimerFires(s) \/ TimerExits(s) \/ TimerStop(s)
FinalizeStep(s) == \/ Close(s) \/ (\E c \in Client : ReportTo(s, c))
                   \/ Processing(s) \/ ReadTracks(s)
                   \/ Mux(s) \/ Upload(s) \/ Presign(s)
                   \/ Succeed(s) \/ Fail(s)
PacketStep(t)   == Read(t) \/ OnPacket(t) \/ FindWriter(t) \/ Write(t)
PeerStep(p)     == Leave(p) \/ PeerLeft(p) \/ Rejoin(p)

Next ==
    /\ \/ \E s \in Session : Start(s) \/ StartStep(s) \/ FinalizeStep(s)
       \/ StopRequest
       \/ \E t \in Track : PacketStep(t)
       \/ \E p \in Peer : PeerStep(p)
       \/ Finished
    /\ UNCHANGED s3

Spec == Init /\ [][Next]_vars

(***************************************************************************)
(* As long as one of the goroutines of a recording can run, one of them    *)
(* does; a timer goes off if it is not stopped first, and the external     *)
(* calls return.  Nothing is assumed of the requests to start and to stop, *)
(* of packets and of peers.  (Fairness for each goroutine is not needed:   *)
(* together they have finitely many steps to take.)                        *)
(***************************************************************************)
Fairness ==
    WF_vars(/\ \E s \in Session : StartStep(s) \/ FinalizeStep(s)
            /\ UNCHANGED s3)

LiveSpec == Spec /\ Fairness

-----------------------------------------------------------------------------
(* Properties. *)

TypeOK ==
    /\ s3 \in BOOLEAN
    /\ active \in Session \cup {NoSession}
    /\ starting \in [Session -> {"unused", "registered", "returned"}]
    /\ timer \in [Session -> {"none", "waiting", "fired", "exited"}]
    /\ stopping \in [Session ->
          {"no", "taken", "closed", "processing", "muxing", "uploading",
           "presigning", "succeeding", "failing", "done"}]
    /\ sess \in [Session -> SessionState]
    /\ sent \in [Session -> [Client -> Seq({"recording", "processing", "ready", "failed"})]]
    /\ announce \in [Session -> SUBSET Client] /\ report \in [Session -> SUBSET Client]
    /\ overtaken \subseteq Session
    /\ present \subseteq Peer
    /\ reader \in [Track -> [at : {"idle", "read", "found", "writing"},
                             session : Session \cup {NoSession}]]
    /\ leaving \in [Peer -> Session \cup {NoSession}]
    /\ \A t \in Track : reader[t].at \in {"found", "writing"} => reader[t].session # NoSession

\* From the moment the mux has read the list of tracks every file of the
\* session is closed, and no packet that was on its way adds another file, or
\* anything to a file: no track is recorded that the result leaves out, and
\* nothing is written that ffmpeg may or may not read.
MuxComplete ==
    \A s \in Session :
        stopping[s] \notin {"no", "taken", "closed", "processing"} =>
            /\ sess[s].open = {} /\ sess[s].input = sess[s].writers
            /\ sess[s].read = sess[s].data

\* What Manager.mu keeps: the session in the map was started and has not been
\* taken out, so no two calls of Stop get the same session.
RegistryInv ==
    \A s \in Session :
        /\ active = s => starting[s] # "unused" /\ stopping[s] = "no"
        /\ starting[s] = "unused" => stopping[s] = "no" /\ s \notin overtaken
        /\ stopping[s] # "no" /\ s \notin overtaken => starting[s] = "returned"

\* What Session.mu keeps: closing comes before processing and is final.
CloseInv ==
    \A s \in Session :
        /\ sess[s].closed <=> stopping[s] \notin {"no", "taken"}
        /\ sess[s].closed => sess[s].open = {}

\* MuxComplete is not inductive alone, since a packet that finds a session
\* unmarked adds a writer to it.
FilesInv == TypeOK /\ RegistryInv /\ CloseInv /\ MuxComplete

\* Client c has been sent the state st of s.
Told(s, c, st) == \E i \in DOMAIN sent[s][c] : sent[s][c][i] = st

\* What a client is sent of one session, in order: no state twice, an end after
\* "processing" only, and "recording" first, unless the session was overtaken.
Orderly(s, log) ==
    /\ \A i, j \in DOMAIN log : log[i] = log[j] => i = j
    /\ \A i \in DOMAIN log : log[i] = "recording" => i = 1 \/ s \in overtaken
    /\ \A i \in DOMAIN log : log[i] \in {"ready", "failed"} =>
          \E j \in 1 .. (i - 1) : log[j] = "processing"

\* "RecordingState reflects the lifecycle of a single recording session"
\* (proto/message.go:32): every client hears of a session once that it starts,
\* then that it is processed, and then how it ended, and they all hear the
\* same end.  Only the announcement of the start may come out of order, and
\* only of a session that a Stop has taken out of the map before Start had
\* told every client of it: from then on the broadcasts of the two overlap
\* (manager.go:125, manager.go:164; hub.go:106).
OnceInOrder ==
    \A s \in Session :
        /\ \A c \in Client : Orderly(s, sent[s][c])
        /\ \A c, d \in Client : ~(Told(s, c, "ready") /\ Told(s, d, "failed"))
        /\ active = s => \A c \in Client : \A i \in DOMAIN sent[s][c] :
                             sent[s][c][i] = "recording"

\* The places of Start, Stop and processAndFinalize say who has been told what.
PlaceInv ==
    \A s \in Session, c \in Client :
        /\ Told(s, c, "recording") <=>
              starting[s] = "returned" \/ (starting[s] = "registered" /\ c \notin announce[s])
        /\ Told(s, c, "processing") <=>
              \/ stopping[s] \notin {"no", "taken", "closed"}
              \/ stopping[s] = "closed" /\ c \notin report[s]
        /\ Told(s, c, "ready") =>
              stopping[s] = "done" \/ (stopping[s] = "succeeding" /\ c \notin report[s])
        /\ Told(s, c, "failed") =>
              stopping[s] = "done" \/ (stopping[s] = "failing" /\ c \notin report[s])

\* A recording that a client is told is ready can be fetched: its file is in
\* the bucket, or still on disk.
HasFile(s) == IF s3 THEN sess[s].uploaded ELSE sess[s].dir

ReadyHasFile ==
    \A s \in Session, c \in Client : Told(s, c, "ready") => HasFile(s)

\* The file is where the next step of processAndFinalize looks for it.
PlaceOfFileInv ==
    \A s \in Session :
        /\ starting[s] # "unused"
              /\ stopping[s] \in {"no", "taken", "closed", "processing", "muxing"}
           => sess[s].dir
        /\ stopping[s] \in {"uploading", "presigning"} => s3
        /\ stopping[s] = "presigning" => sess[s].uploaded
        /\ stopping[s] = "succeeding" => HasFile(s)

\* The inductive invariant.
IndInv ==
    FilesInv /\ OnceInOrder /\ PlaceInv /\ ReadyHasFile /\ PlaceOfFileInv

\* "Exits early when the session is stopped normally" (manager.go:135): the
\* timer of a session never ends another one.
TimerStopsItsOwn ==
    [][\A s \in Session : timer[s] = "fired" /\ timer'[s] = "exited" =>
          active \in {s, NoSession}]_vars

\* Every recording that is started ends, and every client of the room is told
\* how, even if nobody asks for it to stop.
RecordingEnds ==
    \A s \in Session, c \in Client :
        starting[s] # "unused" ~> Told(s, c, "ready") \/ Told(s, c, "failed")

=============================================================================
