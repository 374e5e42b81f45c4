-------------------------------- MODULE Media --------------------------------
(***************************************************************************)
(* From a published track to the recording: handleIncomingTrack, pliLoop   *)
(* and RequestKeyframe of internal/sfu/peer.go, WriteRTP, PeerLeft and     *)
(* Tracks of internal/recording/session.go, and the mux of ffmpeg.go, for  *)
(* one recording of one room.                                              *)
(*                                                                         *)
(* Goroutines: the forwarding loop of each track (Packet, Write), its      *)
(* pliLoop (PliTick), the caller of Manager.Start between its two steps    *)
(* (StartRecording, RequestKeyframe), and Manager.Stop with                *)
(* processAndFinalize (Stop, Finalize).                                    *)
(*                                                                         *)
(* Simplified here and in full in module Recording: a loop reads a packet, *)
(* forwards it, looks the recording up and passes the locked section of    *)
(* WriteRTP in one step, so a packet does not come to the recording after  *)
(* its peer has left; and the keys of a peer begin with no other's ID.     *)
(*                                                                         *)
(* External: the publisher sends packets, and a key frame when a picture-  *)
(* loss indication (PLI) reaches it; a PLI may be lost.  The IVF writer    *)
(* drops what comes before the first key frame, a closed writer drops      *)
(* everything, and a disk that refuses a write is left out.  The SFU       *)
(* registers VP8 and Opus only, so a track never has a codec that the      *)
(* recording refuses.                                                      *)
(***************************************************************************)
EXTENDS Naturals, Sequences, SequencesExt, Ffmpeg

CONSTANTS
    Track,      \* published tracks
    KindOf,     \* [Track -> {"audio", "video"}]
    PeerOf,     \* [Track -> Nat]: their peers, in the order of their IDs
    None,       \* no time, no command
    MaxNow      \* bound of the clock, in milliseconds

ASSUME TrackAssumption ==
    /\ IsFiniteSet(Track)
    /\ "lavfi" \notin Track   \* the name of what is not a track for ffmpeg
    /\ KindOf \in [Track -> {"audio", "video"}]
    /\ PeerOf \in [Track -> Nat]
ASSUME NoneAssumption ==
    None \notin Nat /\ None \notin [time : Nat, key : BOOLEAN] /\ MaxNow \in Nat

VARIABLES
    now,
    track,      \* per track: "absent", "published" (subscribers get offers),
                \*   "forwarding" (its loops run), "stalled" (the forwarding
                \*   loop has returned on an error), "broken" (the publisher
                \*   connection has failed), "gone" (its peer has left)
    pli,        \* the tracks whose pliLoop runs
    quit,       \* history: those whose pliLoop has returned by itself
    asked,      \* the tracks whose publisher got a PLI it has not answered
    rec,        \* "off", "on", "closed", "done"
    starting,   \* Start has registered the recording, and has not asked for
                \*   key frames yet
    startedAt,  \* Session.StartedAt
    offset,     \* per track: StartOffsetMs of its writer, or None
    held,       \* per track: the packet that its loop has handed to a writer
                \*   and not written yet, with its time of arrival, or None
    closed,     \* the tracks whose file PeerLeft or close has closed
    first,      \* per track: when the first packet in its file came, or None
    cmd         \* the command line of ffmpeg, or None

pliVars == <<pli, quit>>
recVars == <<rec, starting, startedAt, offset, held, closed, first, cmd>>
vars    == <<now, track, pliVars, asked, recVars>>

Video   == {t \in Track : KindOf[t] = "video"}
Writers == {t \in Track : offset[t] # None}

Init ==
    /\ now = 0
    /\ track = [t \in Track |-> "absent"]
    /\ pli = {} /\ quit = {} /\ asked = {}
    /\ rec = "off" /\ starting = FALSE /\ startedAt = None
    /\ offset = [t \in Track |-> None]
    /\ held = [t \in Track |-> None]
    /\ closed = {}
    /\ first = [t \in Track |-> None]
    /\ cmd = None

Tick ==
    /\ now < MaxNow
    /\ now' = now + 1
    /\ UNCHANGED <<track, pliVars, asked, recVars>>

-----------------------------------------------------------------------------
(* The publisher's side of the SFU *)

\* handleIncomingTrack up to the fan-out.
Publish(t) ==
    /\ track[t] = "absent"
    /\ track' = [track EXCEPT ![t] = "published"]
    /\ UNCHANGED <<now, pliVars, asked, recVars>>

\* Mutant of Forward: an audio track gets a pliLoop too.
ForwardAll(t) ==
    /\ track[t] = "published"
    /\ track' = [track EXCEPT ![t] = "forwarding"]
    /\ pli' = pli \cup {t}
    /\ UNCHANGED <<now, quit, asked, recVars>>

\* Mutant of Forward: no pliLoop is started.
ForwardOnly(t) ==
    /\ track[t] = "published"
    /\ track' = [track EXCEPT ![t] = "forwarding"]
    /\ UNCHANGED <<now, pliVars, asked, recVars>>

\* The rest of it: a video is remembered in videoRemotes and gets a pliLoop.
Forward(t) ==
    /\ track[t] = "published"
    /\ track' = [track EXCEPT ![t] = "forwarding"]
    /\ pli' = pli \cup ({t} \cap Video)
    /\ UNCHANGED <<now, quit, asked, recVars>>

\* local.Write fails (writing to the connection of a subscriber): the loop
\* that forwards t returns, for good.
Stall(t) ==
    /\ track[t] = "forwarding" /\ held[t] = None
    /\ track' = [track EXCEPT ![t] = "stalled"]
    /\ asked' = asked \ {t}
    /\ UNCHANGED <<now, pliVars, recVars>>

Live(p) == {t \in Track : /\ PeerOf[t] = p
                          /\ track[t] \in {"published", "forwarding", "stalled"}}

\* The connection of the publisher p fails: nothing comes in any more.
Break(p) ==
    /\ Live(p) # {}
    /\ track' = [t \in Track |-> IF t \in Live(p) THEN "broken" ELSE track[t]]
    /\ asked' = asked \ Live(p)
    /\ UNCHANGED <<now, pliVars, recVars>>

\* pliLoop, at its ticker: it ends when the connection has failed and when
\* WriteRTCP returns an error, else it asks for a key frame.
PliTick(t, outcome) ==
    /\ t \in pli
    /\ IF outcome = "fails" \/ track[t] = "broken"
       THEN pli' = pli \ {t} /\ quit' = quit \cup {t} /\ UNCHANGED asked
       ELSE /\ asked' = IF outcome = "arrives" /\ track[t] = "forwarding"
                        THEN asked \cup {t} ELSE asked
            /\ UNCHANGED pliVars
    /\ UNCHANGED <<now, track, recVars>>

\* The peer leaves: Peer.Close ends the loops, PeerLeft closes the files.
PeerLeaves(p) ==
    LET Own == {t \in Track : PeerOf[t] = p /\ track[t] # "absent"}
    IN  /\ \E t \in Own : track[t] # "gone"
        /\ track' = [t \in Track |-> IF t \in Own THEN "gone" ELSE track[t]]
        /\ pli' = pli \ Own
        /\ asked' = asked \ Own
        /\ closed' = IF rec = "on" THEN closed \cup (Own \cap Writers) ELSE closed
        /\ UNCHANGED <<now, quit, rec, starting, startedAt, offset, held, first, cmd>>

-----------------------------------------------------------------------------
(* Session.WriteRTP *)

\* Mutant of MayOpen: the first packet opens the writer, key frame or not.
MayOpenAtOnce(t, key) == TRUE

\* The packet may open the writer of its track.
MayOpen(t, key) == t \in Video => key

\* The loop of t reads a packet and hands it to the recording.  The section
\* under Session.mu finds the writer, or opens one and stamps the offset.
Packet(t, key) ==
    LET open  == rec = "on" /\ t \notin Writers /\ MayOpen(t, key)
        found == open \/ (rec = "on" /\ t \in Writers)
    IN  /\ track[t] = "forwarding" /\ held[t] = None
        /\ key => t \in Video
        /\ offset' = IF open THEN [offset EXCEPT ![t] = now - startedAt] ELSE offset
        /\ held' = IF found THEN [held EXCEPT ![t] = [time |-> now, key |-> key]] ELSE held
        /\ asked' = IF key THEN asked \ {t} ELSE asked
        /\ UNCHANGED <<now, track, pliVars, rec, starting, startedAt, closed, first, cmd>>

\* The write, after the lock is released: the file may be closed by now.  A
\* file keeps its packets from the first key frame on.
Write(t) ==
    LET kept == t \notin closed /\ (t \in Video => held[t].key)
    IN  /\ held[t] # None
        /\ held' = [held EXCEPT ![t] = None]
        /\ first' = IF kept /\ first[t] = None
                    THEN [first EXCEPT ![t] = held[t].time] ELSE first
        /\ UNCHANGED <<now, track, pliVars, asked, rec, starting, startedAt, offset,
                       closed, cmd>>

-----------------------------------------------------------------------------
(* The recording *)

\* Manager.Start under its lock.
StartRecording ==
    /\ rec = "off"
    /\ rec' = "on" /\ starting' = TRUE /\ startedAt' = now
    /\ UNCHANGED <<now, track, pliVars, asked, offset, held, closed, first, cmd>>

\* Start asks the SFU for key frames: those of the videos in videoRemotes at
\* that moment whose connection works, of which some arrive.
RequestKeyframe ==
    /\ starting
    /\ starting' = FALSE
    /\ \E arrive \in SUBSET {t \in Video : track[t] = "forwarding"} :
         asked' = asked \cup arrive
    /\ UNCHANGED <<now, track, pliVars, rec, startedAt, offset, held, closed, first, cmd>>

\* Manager.Stop: every file is closed.
Stop ==
    /\ rec = "on"
    /\ rec' = "closed"
    /\ closed' = closed \cup Writers
    /\ UNCHANGED <<now, track, pliVars, asked, starting, startedAt, offset, held, first, cmd>>

\* The order of Tracks(): audio first, then by peer; beyond that, that of the
\* map.
Before(t, u) ==
    IF KindOf[t] = KindOf[u] THEN PeerOf[t] <= PeerOf[u] ELSE KindOf[t] = "audio"

TrackOrders ==
    {order \in SetToSeqs(Writers) :
       \A i, j \in DOMAIN order : i < j => Before(order[i], order[j])}

\* What Tracks() tells of them.
Recorded(order) ==
    [i \in DOMAIN order |->
       [track |-> order[i], kind |-> KindOf[order[i]], offset |-> offset[order[i]]]]

\* processAndFinalize up to ffmpeg; without tracks there is no mux.
Finalize ==
    /\ rec = "closed"
    /\ rec' = "done"
    /\ IF Writers = {}
       THEN cmd' = None
       ELSE \E order \in TrackOrders : cmd' = Mux(Recorded(order))
    /\ UNCHANGED <<now, track, pliVars, asked, starting, startedAt, offset, held, closed, first>>

-----------------------------------------------------------------------------

Next ==
    \/ Tick
    \/ \E t \in Track :
         \/ Publish(t) \/ Forward(t) \/ Stall(t) \/ Write(t)
         \/ \E key \in BOOLEAN : Packet(t, key)
         \/ \E outcome \in {"arrives", "lost", "fails"} : PliTick(t, outcome)
    \/ \E p \in {PeerOf[t] : t \in Track} : Break(p) \/ PeerLeaves(p)
    \/ StartRecording \/ RequestKeyframe \/ Stop \/ Finalize

\* A key frame asked for is sent.
Answer(t) == t \in asked /\ Packet(t, TRUE)

(***************************************************************************)
(* The ticker of a pliLoop goes on, and not every PLI is lost; a publisher *)
(* that got one sends a key frame; a loop that has a packet to write writes*)
(* it.  Nothing is assumed of the rest.                                    *)
(***************************************************************************)
Fairness ==
    \A t \in Track :
        WF_vars(PliTick(t, "arrives")) /\ WF_vars(Answer(t)) /\ WF_vars(Write(t))

Spec     == Init /\ [][Next]_vars
LiveSpec == Spec /\ Fairness

-----------------------------------------------------------------------------
(* Properties *)

Time == 0 .. MaxNow

\* Type invariant; the loops that ask for key frames are those of videos.
TypeOK ==
    /\ now \in Time
    /\ track \in [Track -> {"absent", "published", "forwarding", "stalled",
                         "broken", "gone"}]
    /\ pli \subseteq Video /\ quit \subseteq Video /\ asked \subseteq Video
    /\ rec \in {"off", "on", "closed", "done"} /\ starting \in BOOLEAN
    /\ startedAt \in Time \cup {None}
    /\ offset \in [Track -> Time \cup {None}]
    /\ held \in [Track -> [time : Time, key : BOOLEAN] \cup {None}]
    /\ closed \subseteq Writers
    /\ first \in [Track -> Time \cup {None}]

\* "keeps the tracks in sync" (session.go:126): the offset that a track has in
\* the mux is that of the first packet in its file.  A file without a packet
\* has a writer that waits for the one that opened it (session.go:152), or was
\* closed by a leave or a stop before that was written.
InSync ==
    \A t \in Track :
        /\ first[t] # None => offset[t] # None /\ startedAt + offset[t] = first[t]
        /\ offset[t] # None /\ first[t] = None => held[t] # None \/ t \in closed

\* The recorded files without a packet.
Empty == {t \in Writers : first[t] = None}

\* A recording with sound and with pictures, and with a packet in each file,
\* gives a command that ffmpeg accepts, however many tracks there are.
BothKindsAccepted ==
    cmd # None /\ {KindOf[t] : t \in Writers} = {"audio", "video"} /\ Empty = {}
        => Accepts(cmd, Empty)

\* The inputs of the command that come from track t.
InputsOf(t) == {i \in DOMAIN cmd.inputs : cmd.inputs[i].source = t}

\* Every recorded track is in the result once, delayed by its offset, in the
\* filter of its kind, and the pictures are in the order of the peers.
MuxedOnce ==
    cmd # None =>
      /\ \A t \in Writers : \E i \in InputsOf(t) :
           /\ InputsOf(t) = {i}
           /\ cmd.inputs[i].delay = offset[t]
           /\ \A f \in cmd.filters : i - 1 \in Range(f.in) <=> f.kind = KindOf[t]
      /\ \A t, u \in Video \cap Writers : PeerOf[t] < PeerOf[u] =>
           \A i \in InputsOf(t), j \in InputsOf(u) : i < j

\* A video that is forwarded while the recording runs gets into its file,
\* although the key frame that Start asks for may be lost, and although the
\* track may come too late for that request: unless the recording, the track,
\* its connection or its forwarding ends first, or its pliLoop has given up on
\* a WriteRTCP that failed (peer.go:195).
VideoRecorded ==
    \A t \in Video :
        (rec = "on" /\ track[t] = "forwarding") ~>
            \/ first[t] # None
            \/ rec # "on" \/ track[t] # "forwarding" \/ t \in quit

-----------------------------------------------------------------------------
(***************************************************************************)
(* The inductive invariant behind TypeOK, InSync, BothKindsAccepted and    *)
(* MuxedOnce.                                                              *)
(***************************************************************************)

\* The time of the recording runs from its start, and before it nothing is
\* written.
StartInv ==
    /\ rec = "off" <=> startedAt = None
    /\ startedAt # None => startedAt <= now
    /\ rec = "off" => Writers = {}

\* A packet on its way has a writer.  As long as the file is open and empty, it
\* is the packet that opened it, which the file will keep.
HeldInv ==
    \A t \in Track : held[t] # None =>
        /\ offset[t] # None
        /\ first[t] = None /\ t \notin closed =>
              /\ startedAt + offset[t] = held[t].time
              /\ t \in Video => held[t].key

\* A command comes from the tracks, and they do not change after it.
CmdInv ==
    /\ rec # "done" => cmd = None
    /\ cmd # None => \E order \in TrackOrders : cmd = Mux(Recorded(order))

IndInv == TypeOK /\ StartInv /\ InSync /\ HeldInv /\ CmdInv

=============================================================================
