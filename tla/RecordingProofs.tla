--------------------------- MODULE RecordingProofs ---------------------------
(***************************************************************************)
(* The inductive invariant of Recording, for any number of sessions, peers,*)
(* tracks and clients: the types hold; the mux reads a list of tracks and  *)
(* files that do not change any more; each client hears of a recording in  *)
(* order; and what is announced as ready has its file.                     *)
(***************************************************************************)
EXTENDS Recording, TLAPS

\* The steps that leave the sessions and the place of Stop alone keep the
\* invariant as soon as they keep the types and the registry.
LEMMA Frame ==
    ASSUME FilesInv, s3' = s3, TypeOK', RegistryInv', UNCHANGED <<sess, stopping>>
    PROVE  FilesInv'
<1>1. sess' = sess /\ stopping' = stopping
  OBVIOUS
<1>2. CloseInv'
  BY <1>1, Zenon DEF FilesInv, CloseInv
<1>3. MuxComplete'
  BY <1>1, Zenon DEF FilesInv, MuxComplete
<1> QED BY <1>2, <1>3 DEF FilesInv

\* An update of the files of a session that is not closed, or of no file: those
\* of a closed session stay closed and as they are.
LEMMA WritersPreserve ==
    ASSUME FilesInv, s3' = s3, NEW s \in Session, NEW writers \in SUBSET Track,
           NEW open \in SUBSET Track, NEW data \in SUBSET Track,
           sess' = [sess EXCEPT ![s].writers = writers, ![s].open = open,
                                ![s].data = data],
           stopping' = stopping,
           sess[s].closed => /\ writers = sess[s].writers /\ open = {}
                             /\ data = sess[s].data
    PROVE  /\ sess' \in [Session -> SessionState]
           /\ CloseInv' /\ MuxComplete'
<1> USE DEF FilesInv
<1> DEFINE new == [sess[s] EXCEPT !.writers = writers, !.open = open, !.data = data]
<1>1. sess \in [Session -> SessionState] /\ sess[s] \in SessionState
  BY DEF TypeOK
<1>2. /\ new \in SessionState /\ new.closed = sess[s].closed
      /\ new.writers = writers /\ new.open = open /\ new.data = data
      /\ new.input = sess[s].input /\ new.read = sess[s].read
  BY <1>1 DEF SessionState
<1>3. sess' = [sess EXCEPT ![s] = new]
  BY <1>1
<1> HIDE DEF new
<1>4. \A r \in Session : sess'[r] = IF r = s THEN new ELSE sess[r]
  BY <1>1, <1>3
<1>5. CloseInv'
  BY <1>2, <1>4 DEF CloseInv
<1>6. MuxComplete'
  <2> SUFFICES ASSUME NEW r \in Session,
                      stopping[r] \notin {"no", "taken", "closed", "processing"}
               PROVE  /\ sess'[r].open = {} /\ sess'[r].input = sess'[r].writers
                      /\ sess'[r].read = sess'[r].data
    BY DEF MuxComplete
  <2>1. /\ sess[r].open = {} /\ sess[r].input = sess[r].writers /\ sess[r].closed
        /\ sess[r].read = sess[r].data
    BY DEF MuxComplete, CloseInv
  <2> QED BY <1>2, <1>4, <2>1
<1>7. sess' \in [Session -> SessionState]
  BY <1>1, <1>2, <1>3
<1> QED BY <1>5, <1>6, <1>7

LEMMA StartPreserves ==
    ASSUME FilesInv, s3' = s3, NEW s \in Session, Start(s)
    PROVE  FilesInv'
<1> USE DEF FilesInv, Start, peerVars
<1>1. TypeOK'
  <2>0. sess[s] \in SessionState
    BY DEF TypeOK
  <2>1. [sess[s] EXCEPT !.dir = TRUE] \in SessionState
    BY <2>0 DEF SessionState
  <2>2. sess' = [sess EXCEPT ![s] = [sess[s] EXCEPT !.dir = TRUE]]
    OBVIOUS
  <2>3. sess' \in [Session -> SessionState]
    BY <2>1, <2>2 DEF TypeOK
  <2> QED BY <2>3 DEF TypeOK
<1>2. RegistryInv'
  BY DEF RegistryInv, TypeOK
<1>3. CloseInv' /\ MuxComplete'
  BY DEF CloseInv, MuxComplete, TypeOK, SessionState
<1> QED BY <1>1, <1>2, <1>3

State == {"recording", "processing", "ready", "failed"}

\* A turn of a broadcast adds one state to what one client was sent of one
\* session.
LEMMA BroadcastSends ==
    ASSUME TypeOK, NEW s \in Session, NEW c \in Client, NEW st \in State,
           Broadcast(s, c, st)
    PROVE  /\ sent' \in [Session -> [Client -> Seq(State)]]
           /\ sent'[s][c] = Append(sent[s][c], st)
           /\ \A r \in Session, d \in Client :
                 r # s \/ d # c => sent'[r][d] = sent[r][d]
<1>1. sent \in [Session -> [Client -> Seq(State)]]
  BY DEF TypeOK, State
<1> HIDE DEF State
<1> DEFINE more == [sent[s] EXCEPT ![c] = Append(sent[s][c], st)]
<1>2. sent' = [sent EXCEPT ![s] = more]
  BY DEF Broadcast
<1>3. sent[s] \in [Client -> Seq(State)] /\ sent[s][c] \in Seq(State)
  BY <1>1
<1>4. Append(sent[s][c], st) \in Seq(State)
  BY <1>3
<1>5. /\ more \in [Client -> Seq(State)] /\ more[c] = Append(sent[s][c], st)
      /\ \A d \in Client : d # c => more[d] = sent[s][d]
  BY <1>3, <1>4
<1> HIDE DEF more
<1> QED BY <1>1, <1>2, <1>5

LEMMA StartStepPreserves ==
    ASSUME FilesInv, s3' = s3, NEW s \in Session, StartStep(s)
    PROVE  FilesInv'
<1> USE DEF FilesInv, peerVars, toldVars
<1>0. CASE \E c \in Client : AnnounceTo(s, c)
  <2>1. PICK c \in Client : AnnounceTo(s, c)
    BY <1>0
  <2>2. sent' \in [Session -> [Client -> Seq(State)]]
    BY <2>1, BroadcastSends DEF AnnounceTo, State
  <2>3. TypeOK'
    BY <2>1, <2>2 DEF AnnounceTo, TypeOK, State
  <2>4. RegistryInv'
    BY <2>1 DEF AnnounceTo, RegistryInv, TypeOK
  <2> QED BY <2>1, <2>3, <2>4, Frame DEF AnnounceTo
<1>1. CASE Announced(s)
  <2>1. TypeOK'
    BY <1>1 DEF Announced, TypeOK
  <2>2. RegistryInv'
    BY <1>1 DEF Announced, RegistryInv, TypeOK
  <2> QED BY <1>1, <2>1, <2>2, Frame DEF Announced
<1>2. CASE TimerFires(s)
  <2>1. TypeOK' /\ RegistryInv'
    BY <1>2 DEF TimerFires, TypeOK, RegistryInv
  <2> QED BY <1>2, <2>1, Frame DEF TimerFires
<1>3. CASE TimerExits(s)
  <2>1. TypeOK' /\ RegistryInv'
    BY <1>3 DEF TimerExits, TypeOK, RegistryInv
  <2> QED BY <1>3, <2>1, Frame DEF TimerExits
<1>4. CASE TimerStop(s)
  <2>1. TypeOK'
    BY <1>4 DEF TimerStop, Take, TypeOK
  <2>2. RegistryInv'
    BY <1>4, SessionAssumption DEF TimerStop, Take, TypeOK, RegistryInv
  <2>3. CloseInv' /\ MuxComplete'
    BY <1>4 DEF TimerStop, Take, TypeOK, CloseInv, MuxComplete, RegistryInv
  <2> QED BY <2>1, <2>2, <2>3
<1> QED BY <1>0, <1>1, <1>2, <1>3, <1>4 DEF StartStep

LEMMA StopRequestPreserves ==
    ASSUME FilesInv, s3' = s3, StopRequest
    PROVE  FilesInv'
<1> USE DEF FilesInv, StopRequest, Take, peerVars, toldVars
<1>1. TypeOK'
  BY DEF TypeOK
<1>2. RegistryInv'
  BY SessionAssumption DEF TypeOK, RegistryInv
<1>3. CloseInv' /\ MuxComplete'
  BY DEF TypeOK, CloseInv, MuxComplete, RegistryInv
<1> QED BY <1>1, <1>2, <1>3

\* The broadcasts of Stop and of processAndFinalize.
LEMMA ReportPreserves ==
    ASSUME FilesInv, s3' = s3, NEW s \in Session, NEW c \in Client, ReportTo(s, c)
    PROVE  FilesInv'
<1> USE DEF FilesInv, peerVars, ReportTo
<1>1. Reported[stopping[s]] \in State
  BY DEF Reported, State
<1>2. sent' \in [Session -> [Client -> Seq(State)]]
  BY <1>1, BroadcastSends
<1>3. TypeOK'
  BY <1>2 DEF TypeOK, State
<1>4. RegistryInv'
  BY DEF TypeOK, RegistryInv
<1> QED BY <1>3, <1>4, Frame

LEMMA ProcessingPreserves ==
    ASSUME FilesInv, s3' = s3, NEW s \in Session, Processing(s)
    PROVE  FilesInv'
<1> USE DEF FilesInv, peerVars, toldVars, Processing
<1>1. TypeOK'
  BY DEF TypeOK
<1>2. RegistryInv'
  BY DEF TypeOK, RegistryInv
<1>3. CloseInv' /\ MuxComplete'
  BY DEF TypeOK, CloseInv, MuxComplete
<1> QED BY <1>1, <1>2, <1>3

LEMMA ClosePreserves ==
    ASSUME FilesInv, s3' = s3, NEW s \in Session, Close(s)
    PROVE  FilesInv'
<1> USE DEF FilesInv, peerVars, Close
<1>1. TypeOK'
  <2>0. sess[s] \in SessionState
    BY DEF TypeOK
  <2>1. [sess[s] EXCEPT !.closed = TRUE, !.open = {}] \in SessionState
    BY <2>0 DEF SessionState
  <2>2. sess' = [sess EXCEPT ![s] = [sess[s] EXCEPT !.closed = TRUE, !.open = {}]]
    BY DEF TypeOK
  <2>3. sess' \in [Session -> SessionState]
    BY <2>1, <2>2 DEF TypeOK
  <2> QED BY <2>3 DEF TypeOK
<1>2. RegistryInv'
  BY DEF TypeOK, RegistryInv
<1>3. CloseInv' /\ MuxComplete'
  BY DEF TypeOK, SessionState, CloseInv, MuxComplete
<1> QED BY <1>1, <1>2, <1>3

\* Past the reading of the tracks, a step of processAndFinalize that leaves
\* the writers as they are.
LEMMA FinalizePreserves ==
    ASSUME FilesInv, s3' = s3, NEW s \in Session,
           NEW from \in {"muxing", "uploading", "presigning", "succeeding", "failing"},
           NEW to \in {"uploading", "presigning", "succeeding", "failing", "done"},
           NEW update \in SessionState, Finalize(s, from, to, update),
           update.closed = sess[s].closed, update.writers = sess[s].writers,
           update.open = sess[s].open, update.input = sess[s].input,
           update.data = sess[s].data, update.read = sess[s].read
    PROVE  FilesInv'
<1> USE DEF FilesInv, peerVars, Finalize
<1>1. TypeOK'
  BY DEF TypeOK
<1>2. RegistryInv'
  BY DEF TypeOK, RegistryInv
<1>3. CloseInv' /\ MuxComplete'
  BY DEF TypeOK, CloseInv, MuxComplete
<1> QED BY <1>1, <1>2, <1>3

LEMMA ReadTracksPreserves ==
    ASSUME FilesInv, s3' = s3, NEW s \in Session, ReadTracks(s)
    PROVE  FilesInv'
<1> USE DEF FilesInv, peerVars, ReadTracks, Finalize
<1>1. TypeOK'
  <2>0. sess[s] \in SessionState
    BY DEF TypeOK
  <2>1. [sess[s] EXCEPT !.input = sess[s].writers, !.read = sess[s].data] \in SessionState
    BY <2>0 DEF SessionState
  <2>2. sess' \in [Session -> SessionState]
    BY <2>1 DEF TypeOK
  <2> QED BY <2>2 DEF TypeOK
<1>2. RegistryInv'
  BY DEF TypeOK, RegistryInv
<1>3. CloseInv' /\ MuxComplete'
  BY DEF TypeOK, SessionState, CloseInv, MuxComplete
<1> QED BY <1>1, <1>2, <1>3

LEMMA FinalizeStepPreserves ==
    ASSUME FilesInv, s3' = s3, NEW s \in Session, FinalizeStep(s)
    PROVE  FilesInv'
<1>1. sess[s] \in SessionState
  BY DEF FilesInv, TypeOK
<1>2. CASE Close(s)
  BY <1>2, ClosePreserves
<1>3. CASE Processing(s) \/ \E c \in Client : ReportTo(s, c)
  BY <1>3, ProcessingPreserves, ReportPreserves
<1>4. CASE ReadTracks(s)
  BY <1>4, ReadTracksPreserves
<1>5. CASE Mux(s)
  BY <1>1, <1>5, FinalizePreserves DEF Mux
<1>6. CASE Upload(s)
  <2>1. [sess[s] EXCEPT !.uploaded = TRUE] \in SessionState
    BY <1>1 DEF SessionState
  <2> QED BY <1>1, <1>6, <2>1, FinalizePreserves DEF Upload, SessionState
<1>7. CASE Presign(s)
  <2>1. [sess[s] EXCEPT !.dir = FALSE] \in SessionState
    BY <1>1 DEF SessionState
  <2> QED BY <1>1, <1>7, <2>1, FinalizePreserves DEF Presign, SessionState
<1>8. CASE Succeed(s)
  BY <1>1, <1>8, FinalizePreserves DEF Succeed
<1>9. CASE Fail(s)
  <2>1. [sess[s] EXCEPT !.dir = FALSE] \in SessionState
    BY <1>1 DEF SessionState
  <2> QED BY <1>1, <1>9, <2>1, FinalizePreserves DEF Fail, SessionState
<1> QED BY <1>2, <1>3, <1>4, <1>5, <1>6, <1>7, <1>8, <1>9 DEF FinalizeStep

LEMMA PacketStepPreserves ==
    ASSUME FilesInv, s3' = s3, NEW t \in Track, PacketStep(t)
    PROVE  FilesInv'
<1> USE DEF FilesInv, recVars, toldVars
<1>0. CASE Read(t)
  <2>1. TypeOK' /\ RegistryInv'
    BY <1>0 DEF Read, TypeOK, RegistryInv, toldVars
  <2> QED BY <1>0, <2>1, Frame DEF Read
<1>1. CASE OnPacket(t)
  <2>1. TypeOK' /\ RegistryInv'
    BY <1>1 DEF OnPacket, TypeOK, RegistryInv, Idle, toldVars
  <2> QED BY <1>1, <2>1, Frame DEF OnPacket
<1>2. CASE FindWriter(t)
  <2> DEFINE s == reader[t].session
  <2>1. s \in Session
    BY <1>2 DEF FindWriter, TypeOK
  <2>2. reader' \in [Track -> [at : {"idle", "read", "found", "writing"},
                               session : Session \cup {NoSession}]]
        /\ \A u \in Track : reader'[u].at \in {"found", "writing"} =>
              reader'[u].session # NoSession
    <3>1. CASE reader' = [reader EXCEPT ![t] = Idle]
      BY <3>1 DEF TypeOK, Idle
    <3>2. CASE reader' = [reader EXCEPT ![t].at = "writing"]
      <4>1. /\ reader \in [Track -> [at : {"idle", "read", "found", "writing"},
                                     session : Session \cup {NoSession}]]
            /\ reader[t] = [at |-> reader[t].at, session |-> s]
        BY DEF TypeOK
      <4>2. [reader[t] EXCEPT !.at = "writing"] = [at |-> "writing", session |-> s]
        BY <4>1
      <4>4. reader' = [reader EXCEPT ![t] = [at |-> "writing", session |-> s]]
        BY <3>2, <4>2
      <4>3. s # NoSession
        BY <2>1, SessionAssumption
      <4> QED BY <2>1, <4>3, <4>4 DEF TypeOK
    <3> QED BY <1>2, <3>1, <3>2 DEF FindWriter
  <2>3. CASE sess' = sess
    <3>1. TypeOK' /\ RegistryInv'
      BY <1>2, <2>2, <2>3 DEF FindWriter, TypeOK, RegistryInv
    <3> QED BY <1>2, <2>3, <3>1, Frame DEF FindWriter
  <2>4. CASE /\ ~sess[s].closed
             /\ sess' = [sess EXCEPT ![s].writers = sess[s].writers \cup {t},
                                     ![s].open = sess[s].open \cup {t}]
    <3>1. /\ sess[s].writers \cup {t} \in SUBSET Track /\ sess[s].open \cup {t} \in SUBSET Track
          /\ sess[s].data \in SUBSET Track /\ sess[s] \in SessionState
      BY <2>1 DEF TypeOK, SessionState
    <3>0. sess' = [sess EXCEPT ![s].writers = sess[s].writers \cup {t},
                               ![s].open = sess[s].open \cup {t},
                               ![s].data = sess[s].data]
      BY <2>1, <2>4, <3>1 DEF TypeOK, SessionState
    <3>2. stopping' = stopping
      BY <1>2 DEF FindWriter
    <3> DEFINE writers == sess[s].writers \cup {t}
               open == sess[s].open \cup {t}
               data == sess[s].data
    <3>5. /\ writers \in SUBSET Track /\ open \in SUBSET Track
          /\ data \in SUBSET Track /\ s \in Session /\ ~sess[s].closed
          /\ sess' = [sess EXCEPT ![s].writers = writers, ![s].open = open,
                                  ![s].data = data]
      BY <2>1, <2>4, <3>0, <3>1
    <3> HIDE DEF writers, open, data, s
    <3>3. sess' \in [Session -> SessionState] /\ CloseInv' /\ MuxComplete'
      BY <3>2, <3>5, WritersPreserve
    <3>4. TypeOK' /\ RegistryInv'
      BY <1>2, <2>2, <3>3 DEF FindWriter, TypeOK, RegistryInv
    <3> QED BY <3>3, <3>4
  <2> QED BY <1>2, <2>3, <2>4 DEF FindWriter
<1>3. CASE Write(t)
  <2> DEFINE s == reader[t].session
  <2>1. /\ s \in Session /\ reader' = [reader EXCEPT ![t] = Idle]
        /\ sess[s] \in SessionState /\ sess \in [Session -> SessionState]
    BY <1>3 DEF Write, TypeOK
  <2>2. /\ reader' \in [Track -> [at : {"idle", "read", "found", "writing"},
                                 session : Session \cup {NoSession}]]
        /\ \A u \in Track : reader'[u].at \in {"found", "writing"} =>
              reader'[u].session # NoSession
    BY <2>1 DEF TypeOK, Idle
  <2>3. CASE sess' = sess
    <3>1. TypeOK' /\ RegistryInv'
      BY <1>3, <2>2, <2>3 DEF Write, TypeOK, RegistryInv, toldVars
    <3> QED BY <1>3, <2>3, <3>1, Frame DEF Write
  <2>4. CASE t \in sess[s].open /\ sess' = [sess EXCEPT ![s].data = sess[s].data \cup {t}]
    <3>1. /\ sess[s].writers \in SUBSET Track /\ sess[s].open \in SUBSET Track
          /\ sess[s].data \cup {t} \in SUBSET Track
      BY <2>1 DEF SessionState
    <3>2. sess' = [sess EXCEPT ![s].writers = sess[s].writers, ![s].open = sess[s].open,
                               ![s].data = sess[s].data \cup {t}]
      BY <2>1, <2>4 DEF SessionState
    <3>3. ~sess[s].closed /\ stopping' = stopping
      BY <1>3, <2>1, <2>4 DEF Write, CloseInv
    <3>4. sess' \in [Session -> SessionState] /\ CloseInv' /\ MuxComplete'
      BY <2>1, <3>1, <3>2, <3>3, WritersPreserve
    <3>5. TypeOK' /\ RegistryInv'
      BY <1>3, <2>2, <3>4 DEF Write, TypeOK, RegistryInv, toldVars
    <3> QED BY <3>4, <3>5
  <2> QED BY <1>3, <2>3, <2>4 DEF Write
<1> QED BY <1>0, <1>1, <1>2, <1>3 DEF PacketStep

LEMMA PeerStepPreserves ==
    ASSUME FilesInv, s3' = s3, NEW p \in Peer, PeerStep(p)
    PROVE  FilesInv'
<1> USE DEF FilesInv, recVars, toldVars
<1>1. CASE Leave(p)
  <2>1. TypeOK' /\ RegistryInv'
    BY <1>1 DEF Leave, TypeOK, RegistryInv
  <2> QED BY <1>1, <2>1, Frame DEF Leave
<1>2. CASE PeerLeft(p)
  <2> DEFINE s == leaving[p]
  <2>1. s \in Session
    BY <1>2 DEF PeerLeft, TypeOK
  <2> DEFINE others == sess[s].open \ ClosedWith[p]
  <2>2. sess[s] \in SessionState /\ sess[s].writers \in SUBSET Track
        /\ others \in SUBSET Track /\ sess[s].data \in SUBSET Track
    BY <2>1 DEF TypeOK, SessionState
  <2>3. sess' = [sess EXCEPT ![s].writers = sess[s].writers, ![s].open = others,
                             ![s].data = sess[s].data]
    BY <1>2, <2>1, <2>2 DEF PeerLeft, TypeOK, SessionState
  <2>4. stopping' = stopping
    BY <1>2 DEF PeerLeft
  <2>5. sess[s].closed => others = {}
    BY <2>1 DEF CloseInv
  <2> HIDE DEF others
  <2>6. sess' \in [Session -> SessionState] /\ CloseInv' /\ MuxComplete'
    BY <2>1, <2>2, <2>3, <2>4, <2>5, WritersPreserve
  <2>7. TypeOK' /\ RegistryInv'
    BY <1>2, <2>6 DEF PeerLeft, TypeOK, RegistryInv
  <2> QED BY <2>6, <2>7
<1>3. CASE Rejoin(p)
  <2>1. TypeOK' /\ RegistryInv'
    BY <1>3 DEF Rejoin, TypeOK, RegistryInv
  <2> QED BY <1>3, <2>1, Frame DEF Rejoin
<1> QED BY <1>1, <1>2, <1>3 DEF PeerStep

LEMMA InitFilesInv == Init => FilesInv
<1> SUFFICES ASSUME Init PROVE FilesInv
  OBVIOUS
<1> USE DEF Init
<1>1. sent \in [Session -> [Client -> Seq({"recording", "processing", "ready", "failed"})]]
  <2>1. <<>> \in Seq({"recording", "processing", "ready", "failed"})
    OBVIOUS
  <2> QED BY <2>1
<1>2. TypeOK
  BY <1>1 DEF TypeOK, SessionState
<1>3. RegistryInv /\ CloseInv /\ MuxComplete
  BY SessionAssumption DEF RegistryInv, CloseInv, MuxComplete
<1> QED BY <1>2, <1>3 DEF FilesInv

LEMMA NextFilesInv == FilesInv /\ [Next]_vars => FilesInv'
<1> SUFFICES ASSUME FilesInv, [Next]_vars PROVE FilesInv'
  OBVIOUS
<1>1. CASE UNCHANGED vars
  BY <1>1 DEF FilesInv, TypeOK, RegistryInv, CloseInv, MuxComplete,
              vars, recVars, peerVars, toldVars
<1>2. CASE Next
  <2>0. s3' = s3
    BY <1>2 DEF Next
  <2>1. CASE \E s \in Session : Start(s) \/ StartStep(s) \/ FinalizeStep(s)
    BY <2>0, <2>1, StartPreserves, StartStepPreserves, FinalizeStepPreserves
  <2>2. CASE StopRequest
    BY <2>0, <2>2, StopRequestPreserves
  <2>3. CASE \E t \in Track : PacketStep(t)
    BY <2>0, <2>3, PacketStepPreserves
  <2>4. CASE \E p \in Peer : PeerStep(p)
    BY <2>0, <2>4, PeerStepPreserves
  <2>5. CASE Finished
    BY <1>1, <2>0, <2>5 DEF Finished
  <2> QED BY <1>2, <2>1, <2>2, <2>3, <2>4, <2>5 DEF Next
<1> QED BY <1>1, <1>2

-----------------------------------------------------------------------------
(***************************************************************************)
(* The announcements.  A turn of a broadcast appends one state to what one *)
(* client was sent; everything else follows from where the goroutines are. *)
(***************************************************************************)

\* Every entry of a log has been told, and is one of the four states.
LEMMA LogTyped ==
    ASSUME FilesInv, NEW s \in Session, NEW c \in Client
    PROVE  /\ Len(sent[s][c]) \in Nat /\ DOMAIN sent[s][c] = 1 .. Len(sent[s][c])
           /\ \A i \in DOMAIN sent[s][c] :
                 sent[s][c][i] \in State /\ Told(s, c, sent[s][c][i])
<1>1. sent[s][c] \in Seq(State)
  BY DEF FilesInv, TypeOK, State
<1>2. Len(sent[s][c]) \in Nat /\ DOMAIN sent[s][c] = 1 .. Len(sent[s][c])
  BY <1>1
<1>3. \A i \in DOMAIN sent[s][c] : sent[s][c][i] \in State
  BY <1>1, <1>2
<1> QED BY <1>2, <1>3 DEF Told

LEMMA BroadcastAppends ==
    ASSUME FilesInv, NEW s \in Session, NEW c \in Client, NEW st \in State,
           Broadcast(s, c, st)
    PROVE  /\ DOMAIN sent'[s][c] = 1 .. (Len(sent[s][c]) + 1)
           /\ \A i \in DOMAIN sent[s][c] : sent'[s][c][i] = sent[s][c][i]
           /\ sent'[s][c][Len(sent[s][c]) + 1] = st
           /\ \A r \in Session, d \in Client :
                 r # s \/ d # c => sent'[r][d] = sent[r][d]
<1>1. /\ sent'[s][c] = Append(sent[s][c], st)
      /\ \A r \in Session, d \in Client :
            r # s \/ d # c => sent'[r][d] = sent[r][d]
  BY BroadcastSends DEF FilesInv
<1>2. sent[s][c] \in Seq(State)
  BY DEF FilesInv, TypeOK, State
<1> HIDE DEF State
<1>3. /\ DOMAIN Append(sent[s][c], st) = 1 .. (Len(sent[s][c]) + 1)
      /\ \A i \in 1 .. Len(sent[s][c]) : Append(sent[s][c], st)[i] = sent[s][c][i]
      /\ Append(sent[s][c], st)[Len(sent[s][c]) + 1] = st
      /\ DOMAIN sent[s][c] = 1 .. Len(sent[s][c])
  BY <1>2
<1> QED BY <1>1, <1>3

\* What has been told after a turn of a broadcast.
LEMMA ToldAfter ==
    ASSUME FilesInv, NEW s \in Session, NEW c \in Client, NEW st \in State,
           Broadcast(s, c, st),
           NEW r \in Session, NEW d \in Client, NEW x \in State
    PROVE  Told(r, d, x)' <=> Told(r, d, x) \/ (r = s /\ d = c /\ x = st)
<1> DEFINE n == Len(sent[s][c])
           log == sent[s][c]
           more == sent'[s][c]
<1>1. /\ n \in Nat /\ DOMAIN log = 1 .. n /\ DOMAIN more = 1 .. (n + 1)
      /\ \A i \in 1 .. n : more[i] = log[i]
      /\ more[n + 1] = st
      /\ r # s \/ d # c => sent'[r][d] = sent[r][d]
  BY LogTyped, BroadcastAppends
<1>2. CASE r = s /\ d = c
  <2>1. Told(s, c, x)' <=> \E i \in DOMAIN more : more[i] = x
    BY DEF Told
  <2>2. Told(s, c, x) <=> \E i \in DOMAIN log : log[i] = x
    BY DEF Told
  <2> HIDE DEF n, log, more
  <2>3. n + 1 \in 1 .. (n + 1) /\ \A i \in 1 .. n : i \in 1 .. (n + 1)
    BY <1>1
  <2>4. \A i \in 1 .. (n + 1) : i \in 1 .. n \/ i = n + 1
    BY <1>1
  <2> QED BY <1>1, <1>2, <2>1, <2>2, <2>3, <2>4
<1>3. CASE r # s \/ d # c
  BY <1>1, <1>3 DEF Told
<1> QED BY <1>2, <1>3

\* A state that is new to the log, that is not an end before "processing", and
\* that is not "recording" after another state unless the session was
\* overtaken, may be announced.
LEMMA BroadcastOrderly ==
    ASSUME FilesInv, NEW s \in Session, NEW c \in Client, NEW st \in State,
           Broadcast(s, c, st), UNCHANGED overtaken,
           \A r \in Session, d \in Client : Orderly(r, sent[r][d]),
           ~Told(s, c, st),
           st \in {"ready", "failed"} => Told(s, c, "processing"),
           st = "recording" => s \in overtaken \/ Len(sent[s][c]) = 0
    PROVE  \A r \in Session, d \in Client : Orderly(r, sent[r][d])'
<1> DEFINE n == Len(sent[s][c])
           log == sent[s][c]
           more == sent'[s][c]
<1>1. /\ n \in Nat /\ DOMAIN log = 1 .. n /\ DOMAIN more = 1 .. (n + 1)
      /\ \A i \in 1 .. n : more[i] = log[i]
      /\ more[n + 1] = st
  BY LogTyped, BroadcastAppends
<1>2. ASSUME NEW r \in Session, NEW d \in Client, r # s \/ d # c
      PROVE  Orderly(r, sent[r][d])'
  <2>1. sent'[r][d] = sent[r][d]
    BY <1>2, BroadcastAppends
  <2> QED BY <2>1 DEF Orderly
<1>3. Orderly(s, log)
  OBVIOUS
<1>4. \A i \in 1 .. n : log[i] # st
  BY <1>1 DEF Told
<1>5. st \in {"ready", "failed"} => \E i \in 1 .. n : log[i] = "processing"
  BY <1>1 DEF Told
<1>6. st = "recording" => s \in overtaken \/ n = 0
  OBVIOUS
<1>7. Orderly(s, sent[s][c])' <=> Orderly(s, more)
  BY DEF Orderly
<1> HIDE DEF n, log, more
<1>8. \A i \in 1 .. (n + 1) : i \in 1 .. n \/ i = n + 1
  BY <1>1
<1>9. \A i, j \in 1 .. (n + 1) : more[i] = more[j] => i = j
  <2>1. \A i, j \in 1 .. n : log[i] = log[j] => i = j
    BY <1>1, <1>3 DEF Orderly
  <2> QED BY <1>1, <1>4, <1>8, <2>1
<1>10. \A i \in 1 .. (n + 1) : more[i] = "recording" => i = 1 \/ s \in overtaken
  <2>1. \A i \in 1 .. n : log[i] = "recording" => i = 1 \/ s \in overtaken
    BY <1>1, <1>3 DEF Orderly
  <2>2. n = 0 => n + 1 = 1
    OBVIOUS
  <2> QED BY <1>1, <1>6, <1>8, <2>1, <2>2
<1>11. ASSUME NEW i \in 1 .. (n + 1), more[i] \in {"ready", "failed"}
       PROVE  \E j \in 1 .. (i - 1) : more[j] = "processing"
  <2>1. CASE i \in 1 .. n
    <3>1. PICK j \in 1 .. (i - 1) : log[j] = "processing"
      BY <1>1, <1>3, <1>11, <2>1 DEF Orderly
    <3>2. j \in 1 .. n
      BY <1>1, <2>1, <3>1
    <3> QED BY <1>1, <3>1, <3>2
  <2>2. CASE i = n + 1
    <3>1. PICK j \in 1 .. n : log[j] = "processing"
      BY <1>1, <1>5, <1>11, <2>2
    <3>2. j \in 1 .. (i - 1)
      BY <1>1, <2>2, <3>1
    <3> QED BY <1>1, <3>1, <3>2
  <2> QED BY <1>8, <2>1, <2>2
<1>12. Orderly(s, more)
  BY <1>1, <1>9, <1>10, <1>11 DEF Orderly
<1> QED BY <1>2, <1>7, <1>12

\* OnceInOrder, in terms of Told.
LogInv ==
    \A s \in Session :
        /\ \A c \in Client : Orderly(s, sent[s][c])
        /\ \A c, d \in Client : ~(Told(s, c, "ready") /\ Told(s, d, "failed"))
        /\ active = s => \A c \in Client, x \in State \ {"recording"} : ~Told(s, c, x)

LEMMA LogInvIsOnceInOrder == FilesInv => (OnceInOrder <=> LogInv)
<1> SUFFICES ASSUME FilesInv PROVE OnceInOrder <=> LogInv
  OBVIOUS
<1>1. \A s \in Session, c \in Client :
         (\A i \in DOMAIN sent[s][c] : sent[s][c][i] = "recording")
         <=> \A x \in State \ {"recording"} : ~Told(s, c, x)
  BY LogTyped DEF Told
<1> QED BY <1>1 DEF OnceInOrder, LogInv

\* What PlaceInv says of each state.
SaidRecording(s, c) ==
    starting[s] = "returned" \/ (starting[s] = "registered" /\ c \notin announce[s])
SaidProcessing(s, c) ==
    \/ stopping[s] \notin {"no", "taken", "closed"}
    \/ stopping[s] = "closed" /\ c \notin report[s]
MaySayReady(s, c) ==
    stopping[s] = "done" \/ (stopping[s] = "succeeding" /\ c \notin report[s])
MaySayFailed(s, c) ==
    stopping[s] = "done" \/ (stopping[s] = "failing" /\ c \notin report[s])

LEMMA PlaceInvIs ==
    PlaceInv <=> \A s \in Session, c \in Client :
        /\ Told(s, c, "recording") <=> SaidRecording(s, c)
        /\ Told(s, c, "processing") <=> SaidProcessing(s, c)
        /\ Told(s, c, "ready") => MaySayReady(s, c)
        /\ Told(s, c, "failed") => MaySayFailed(s, c)
BY DEF PlaceInv, SaidRecording, SaidProcessing, MaySayReady, MaySayFailed

\* The steps that announce nothing.
SilentStep ==
    \/ \E s \in Session :
          Start(s) \/ Announced(s) \/ TimerFires(s) \/ TimerExits(s) \/ TimerStop(s)
    \/ \E s \in Session :
          Close(s) \/ Processing(s) \/ ReadTracks(s) \/ Mux(s) \/ Upload(s)
          \/ Presign(s) \/ Succeed(s) \/ Fail(s)
    \/ StopRequest
    \/ UNCHANGED recVars

\* They begin and end a broadcast where it has reached nobody and everybody.
LEMMA SilentPlaces ==
    ASSUME FilesInv, SilentStep, NEW s \in Session, NEW c \in Client
    PROVE  /\ UNCHANGED sent /\ overtaken \subseteq overtaken'
           /\ active' = s => active = s \/ (starting[s] = "unused" /\ stopping[s] = "no")
           /\ SaidRecording(s, c)' <=> SaidRecording(s, c)
           /\ SaidProcessing(s, c)' <=> SaidProcessing(s, c)
           /\ MaySayReady(s, c) => MaySayReady(s, c)' \/ stopping[s] = "failing"
           /\ MaySayFailed(s, c) => MaySayFailed(s, c)'
<1> USE DEF toldVars, SaidRecording, SaidProcessing, MaySayReady, MaySayFailed
<1>1. /\ starting \in [Session -> {"unused", "registered", "returned"}]
      /\ stopping \in [Session ->
            {"no", "taken", "closed", "processing", "muxing", "uploading",
             "presigning", "succeeding", "failing", "done"}]
      /\ announce \in [Session -> SUBSET Client] /\ report \in [Session -> SUBSET Client]
      /\ active \in Session \cup {NoSession} /\ NoSession \notin Session
      /\ RegistryInv
  BY SessionAssumption DEF FilesInv, TypeOK
<1>2. CASE \E r \in Session : Start(r) \/ Announced(r)
  BY <1>1, <1>2 DEF Start, Announced, RegistryInv
<1>3. CASE \E r \in Session : TimerFires(r) \/ TimerExits(r)
  BY <1>1, <1>3 DEF TimerFires, TimerExits
<1>4. CASE StopRequest \/ \E r \in Session : TimerStop(r)
  BY <1>1, <1>4 DEF StopRequest, TimerStop, Take, RegistryInv
<1>5. CASE \E r \in Session : Close(r) \/ Processing(r)
  BY <1>1, <1>5 DEF Close, Processing
<1>6. CASE \E r \in Session : ReadTracks(r) \/ Mux(r) \/ Upload(r) \/ Presign(r)
  BY <1>1, <1>6 DEF ReadTracks, Mux, Upload, Presign, Finalize
<1>7. CASE \E r \in Session : Succeed(r) \/ Fail(r)
  BY <1>1, <1>7 DEF Succeed, Fail, Finalize
<1>8. CASE UNCHANGED recVars
  BY <1>8 DEF recVars
<1> QED BY <1>2, <1>3, <1>4, <1>5, <1>6, <1>7, <1>8 DEF SilentStep

LEMMA SilentLog ==
    ASSUME FilesInv, LogInv, PlaceInv, SilentStep
    PROVE  LogInv' /\ PlaceInv'
<1> DEFINE Was(s, c, x) == Told(s, c, x)
<1>1. \A s \in Session, c \in Client, x \in State : Told(s, c, x)' <=> Was(s, c, x)
  BY SilentPlaces DEF Told
<1>2. ASSUME NEW s \in Session, NEW c \in Client
      PROVE  Orderly(s, sent[s][c])'
  <2>1. sent'[s][c] = sent[s][c] /\ overtaken \subseteq overtaken'
    BY SilentPlaces
  <2>2. Orderly(s, sent[s][c])
    BY DEF LogInv
  <2> QED BY <2>1, <2>2 DEF Orderly
<1>3. \A s \in Session, c \in Client :
        /\ Was(s, c, "recording") <=> SaidRecording(s, c)
        /\ Was(s, c, "processing") <=> SaidProcessing(s, c)
        /\ Was(s, c, "ready") => MaySayReady(s, c)
        /\ Was(s, c, "failed") => MaySayFailed(s, c)
  BY PlaceInvIs
<1>4. \A s \in Session :
        /\ \A c, d \in Client : ~(Was(s, c, "ready") /\ Was(s, d, "failed"))
        /\ active = s => \A c \in Client, x \in State \ {"recording"} : ~Was(s, c, x)
  BY DEF LogInv
<1> HIDE DEF Was
<1>5. {"recording", "processing", "ready", "failed"} = State
  BY DEF State
<1>6. \A s \in Session, c \in Client :
         stopping[s] = "no" => \A x \in State \ {"recording"} : ~Was(s, c, x)
  BY <1>3, <1>5 DEF SaidProcessing, MaySayReady, MaySayFailed
<1>7. LogInv'
  <2>1. ASSUME NEW s \in Session, active' = s, NEW c \in Client,
               NEW x \in State \ {"recording"}
        PROVE  ~Was(s, c, x)
    BY <1>4, <1>6, <2>1, SilentPlaces
  <2>2. \A s \in Session : \A c, d \in Client :
           ~(Told(s, c, "ready")' /\ Told(s, d, "failed")')
    BY <1>1, <1>4, <1>5
  <2>3. \A s \in Session : active' = s =>
           \A c \in Client, x \in State \ {"recording"} : ~Told(s, c, x)'
    BY <1>1, <2>1
  <2> QED BY <1>2, <2>2, <2>3 DEF LogInv, State
<1>8. ASSUME NEW s \in Session, NEW c \in Client
      PROVE  /\ Told(s, c, "recording")' <=> SaidRecording(s, c)'
             /\ Told(s, c, "processing")' <=> SaidProcessing(s, c)'
             /\ Told(s, c, "ready")' => MaySayReady(s, c)'
             /\ Told(s, c, "failed")' => MaySayFailed(s, c)'
  <2>1. stopping[s] = "failing" => ~MaySayReady(s, c)
    BY DEF MaySayReady
  <2> QED BY <1>1, <1>3, <1>5, <2>1, SilentPlaces
<1>9. PlaceInv'
  BY <1>8 DEF PlaceInv, SaidRecording, SaidProcessing, MaySayReady, MaySayFailed
<1> QED BY <1>7, <1>9

\* A turn of a broadcast: what is said, and where it can be said.
LEMMA Turn ==
    ASSUME NEW s \in Session, NEW c \in Client, AnnounceTo(s, c) \/ ReportTo(s, c)
    PROVE  /\ UNCHANGED <<active, starting, stopping, overtaken>>
           /\ \E st \in State :
                 /\ Broadcast(s, c, st)
                 /\ \/ /\ st = "recording" /\ starting[s] = "registered"
                       /\ c \in announce[s] /\ report' = report
                       /\ announce' = [announce EXCEPT ![s] = @ \ {c}]
                    \/ /\ \/ st = "processing" /\ stopping[s] = "closed"
                          \/ st = "ready" /\ stopping[s] = "succeeding"
                          \/ st = "failed" /\ stopping[s] = "failing"
                       /\ c \in report[s] /\ announce' = announce
                       /\ report' = [report EXCEPT ![s] = @ \ {c}]
<1>1. CASE AnnounceTo(s, c)
  BY <1>1 DEF AnnounceTo, State
<1>2. CASE ReportTo(s, c)
  <2>1. /\ Reported[stopping[s]] \in State
        /\ \/ Reported[stopping[s]] = "processing" /\ stopping[s] = "closed"
           \/ Reported[stopping[s]] = "ready" /\ stopping[s] = "succeeding"
           \/ Reported[stopping[s]] = "failed" /\ stopping[s] = "failing"
    BY <1>2 DEF ReportTo, Reported, State
  <2> QED BY <1>2, <2>1 DEF ReportTo
<1> QED BY <1>1, <1>2

LEMMA TurnLog ==
    ASSUME FilesInv, LogInv, PlaceInv, NEW s \in Session, NEW c \in Client,
           AnnounceTo(s, c) \/ ReportTo(s, c)
    PROVE  LogInv' /\ PlaceInv'
<1> DEFINE Was(r, d, x) == Told(r, d, x)
<1>1. /\ UNCHANGED <<active, starting, stopping, overtaken>>
      /\ announce \in [Session -> SUBSET Client] /\ report \in [Session -> SUBSET Client]
      /\ RegistryInv
  BY Turn DEF FilesInv, TypeOK
<1>2. PICK st \in State :
        /\ Broadcast(s, c, st)
        /\ \/ /\ st = "recording" /\ starting[s] = "registered"
              /\ c \in announce[s] /\ report' = report
              /\ announce' = [announce EXCEPT ![s] = @ \ {c}]
           \/ /\ \/ st = "processing" /\ stopping[s] = "closed"
                 \/ st = "ready" /\ stopping[s] = "succeeding"
                 \/ st = "failed" /\ stopping[s] = "failing"
              /\ c \in report[s] /\ announce' = announce
              /\ report' = [report EXCEPT ![s] = @ \ {c}]
  BY Turn
<1>3. \A r \in Session, d \in Client, x \in State :
         Told(r, d, x)' <=> Was(r, d, x) \/ (r = s /\ d = c /\ x = st)
  BY <1>2, ToldAfter
<1>4. \A r \in Session, d \in Client :
        /\ Was(r, d, "recording") <=> SaidRecording(r, d)
        /\ Was(r, d, "processing") <=> SaidProcessing(r, d)
        /\ Was(r, d, "ready") => MaySayReady(r, d)
        /\ Was(r, d, "failed") => MaySayFailed(r, d)
  BY PlaceInvIs
<1>5. \A r \in Session :
        /\ \A d, e \in Client : ~(Was(r, d, "ready") /\ Was(r, e, "failed"))
        /\ active = r => \A d \in Client, x \in State \ {"recording"} : ~Was(r, d, x)
  BY DEF LogInv
<1>6. st = "recording" => s \in overtaken \/ Len(sent[s][c]) = 0
  <2> SUFFICES ASSUME st = "recording", s \notin overtaken
               PROVE  Len(sent[s][c]) = 0
    OBVIOUS
  <2>1. starting[s] = "registered" /\ stopping[s] = "no" /\ c \in announce[s]
    BY <1>1, <1>2 DEF RegistryInv
  <2>2. \A x \in State : ~Was(s, c, x)
    BY <1>4, <2>1 DEF State, SaidRecording, SaidProcessing, MaySayReady, MaySayFailed
  <2>3. ~\E i \in DOMAIN sent[s][c] : TRUE
    BY <2>2, LogTyped
  <2>4. Len(sent[s][c]) \in Nat /\ DOMAIN sent[s][c] = 1 .. Len(sent[s][c])
    BY LogTyped
  <2>5. Len(sent[s][c]) # 0 => 1 \in 1 .. Len(sent[s][c])
    BY <2>4
  <2> QED BY <2>3, <2>4, <2>5
<1>7. \A r \in Session, d \in Client : Orderly(r, sent[r][d])
  BY DEF LogInv
<1> HIDE DEF Was
<1>8. ~Was(s, c, st) /\ (st \in {"ready", "failed"} => Was(s, c, "processing"))
  BY <1>2, <1>4 DEF SaidRecording, SaidProcessing, MaySayReady, MaySayFailed
<1>9. \A r \in Session, d \in Client : Orderly(r, sent[r][d])'
  BY <1>1, <1>2, <1>6, <1>7, <1>8, BroadcastOrderly DEF Was
<1>10. {"recording", "processing", "ready", "failed"} = State
  BY DEF State
<1>11. LogInv'
  <2>1. \A r \in Session : \A d, e \in Client :
           ~(Told(r, d, "ready")' /\ Told(r, e, "failed")')
    BY <1>2, <1>3, <1>4, <1>5, <1>10 DEF MaySayReady, MaySayFailed
  <2>2. active = s => stopping[s] = "no"
    BY <1>1 DEF RegistryInv
  <2>3. \A r \in Session : active' = r =>
           \A d \in Client, x \in State \ {"recording"} : ~Told(r, d, x)'
    BY <1>1, <1>2, <1>3, <1>5, <2>2
  <2> QED BY <1>9, <2>1, <2>3 DEF LogInv, State
<1>12. ASSUME NEW r \in Session, NEW d \in Client
       PROVE  /\ Told(r, d, "recording")' <=> SaidRecording(r, d)'
              /\ Told(r, d, "processing")' <=> SaidProcessing(r, d)'
              /\ Told(r, d, "ready")' => MaySayReady(r, d)'
              /\ Told(r, d, "failed")' => MaySayFailed(r, d)'
  <2>1. r # s \/ d # c => (d \in announce'[r] <=> d \in announce[r])
                          /\ (d \in report'[r] <=> d \in report[r])
    BY <1>1, <1>2
  <2>2. st = "recording" => c \notin announce'[s] /\ report' = report
    BY <1>1, <1>2
  <2>3. st # "recording" => c \notin report'[s] /\ announce' = announce
    BY <1>1, <1>2
  <2>4. CASE r # s \/ d # c
    BY <1>1, <1>3, <1>4, <1>10, <2>1, <2>4
       DEF SaidRecording, SaidProcessing, MaySayReady, MaySayFailed
  <2>5. CASE r = s /\ d = c
    BY <1>1, <1>2, <1>3, <1>4, <1>10, <2>2, <2>3, <2>5
       DEF SaidRecording, SaidProcessing, MaySayReady, MaySayFailed
  <2> QED BY <2>4, <2>5
<1>13. PlaceInv'
  BY <1>12 DEF PlaceInv, SaidRecording, SaidProcessing, MaySayReady, MaySayFailed
<1> QED BY <1>11, <1>13

\* Each step announces nothing, or takes a turn of a broadcast.
LEMMA Steps ==
    ASSUME [Next]_vars
    PROVE  SilentStep \/ \E s \in Session, c \in Client : AnnounceTo(s, c) \/ ReportTo(s, c)
<1>1. CASE \/ \E t \in Track : PacketStep(t)
           \/ \E p \in Peer : PeerStep(p)
           \/ Finished \/ UNCHANGED vars
  BY <1>1 DEF PacketStep, Read, OnPacket, FindWriter, Write, PeerStep, Leave,
              PeerLeft, Rejoin, Finished, vars, SilentStep
<1>2. CASE \E s \in Session : Start(s) \/ StartStep(s) \/ FinalizeStep(s)
  BY <1>2 DEF StartStep, FinalizeStep, SilentStep
<1> QED BY <1>1, <1>2 DEF Next, SilentStep

LEMMA NextLog ==
    ASSUME FilesInv, LogInv, PlaceInv, [Next]_vars
    PROVE  LogInv' /\ PlaceInv'
BY Steps, SilentLog, TurnLog

-----------------------------------------------------------------------------
(***************************************************************************)
(* The files.  Seen from one session, a step is one of the moves below:    *)
(* the place of Stop and processAndFinalize, the directory and the object  *)
(* in the bucket change together.                                          *)
(***************************************************************************)
FileInv == ReadyHasFile /\ PlaceOfFileInv

ToldReady(s) == \E c \in Client : Told(s, c, "ready")
SameFile(s) == sess'[s].dir = sess[s].dir /\ sess'[s].uploaded = sess[s].uploaded
SameTold(s) == ToldReady(s)' <=> ToldReady(s)
Goes(s, from, to) == stopping[s] = from /\ stopping'[s] = to
Early == {"no", "taken", "closed", "processing", "muxing"}

FileMove(s) ==
    \/ /\ starting[s] = "unused" /\ stopping[s] = "no" /\ stopping'[s] = "no"
       /\ sess'[s].dir /\ SameTold(s)
    \/ /\ starting'[s] = "unused" <=> starting[s] = "unused"
       /\ \/ stopping'[s] = stopping[s] /\ SameFile(s) /\ SameTold(s)
          \/ Goes(s, "succeeding", "succeeding") /\ SameFile(s)
          \/ {stopping[s], stopping'[s]} \subseteq Early /\ SameFile(s) /\ SameTold(s)
          \/ stopping'[s] = "failing" /\ SameFile(s) /\ SameTold(s)
          \/ Goes(s, "muxing", IF s3 THEN "uploading" ELSE "succeeding")
             /\ SameFile(s) /\ SameTold(s)
          \/ Goes(s, "uploading", "presigning") /\ sess'[s].uploaded /\ SameTold(s)
          \/ Goes(s, "presigning", "succeeding")
             /\ sess'[s].uploaded = sess[s].uploaded /\ SameTold(s)
          \/ Goes(s, "succeeding", "done") /\ SameFile(s)
          \/ Goes(s, "failing", "done") /\ SameTold(s)

\* A move keeps the file where the next step looks for it.
LEMMA MoveKeepsFile ==
    ASSUME FilesInv, PlaceInv, FileInv, s3' = s3, \A s \in Session : FileMove(s)
    PROVE  FileInv'
<1> SUFFICES ASSUME NEW s \in Session
             PROVE  /\ ToldReady(s)' => HasFile(s)'
                    /\ starting'[s] # "unused" /\ stopping'[s] \in Early => sess'[s].dir
                    /\ stopping'[s] \in {"uploading", "presigning"} => s3
                    /\ stopping'[s] = "presigning" => sess'[s].uploaded
                    /\ stopping'[s] = "succeeding" => HasFile(s)'
  BY DEF FileInv, ReadyHasFile, PlaceOfFileInv, Early, ToldReady
<1> DEFINE told == ToldReady(s)
           toldNext == ToldReady(s)'
<1>1. /\ told => stopping[s] \in {"succeeding", "done"} /\ HasFile(s)
      /\ starting[s] # "unused" /\ stopping[s] \in Early => sess[s].dir
      /\ stopping[s] \in {"uploading", "presigning"} => s3
      /\ stopping[s] = "presigning" => sess[s].uploaded
      /\ stopping[s] = "succeeding" => HasFile(s)
      /\ starting[s] = "unused" => stopping[s] = "no"
  BY DEF FilesInv, RegistryInv, PlaceInv, FileInv, ReadyHasFile, PlaceOfFileInv, Early,
         ToldReady
<1>2. FileMove(s) /\ (SameTold(s) <=> (toldNext <=> told))
  BY DEF SameTold
<1>3. s3 \in BOOLEAN /\ sess[s] \in SessionState
  BY DEF FilesInv, TypeOK
<1>4. HasFile(s)' <=> IF s3 THEN sess'[s].uploaded ELSE sess'[s].dir
  BY DEF HasFile
<1> HIDE DEF told, toldNext
<1>5. HasFile(s) <=> IF s3 THEN sess[s].uploaded ELSE sess[s].dir
  BY DEF HasFile
<1>6. SameFile(s) => (HasFile(s)' <=> HasFile(s))
  BY <1>4, <1>5 DEF SameFile
<1>7. toldNext => HasFile(s)'
  BY <1>1, <1>2, <1>6 DEF FileMove, Goes, Early
<1>8. starting'[s] # "unused" /\ stopping'[s] \in Early => sess'[s].dir
  BY <1>1, <1>2 DEF FileMove, SameFile, Goes, Early
<1>9. stopping'[s] \in {"uploading", "presigning"} => s3
  BY <1>1, <1>2 DEF FileMove, Goes, Early
<1>10. stopping'[s] = "presigning" => sess'[s].uploaded
  BY <1>1, <1>2 DEF FileMove, SameFile, Goes, Early
<1>11. stopping'[s] = "succeeding" => HasFile(s)'
  <2>1. stopping[s] = "muxing" => sess[s].dir
    BY <1>1 DEF Early
  <2> QED BY <1>1, <1>2, <1>3, <1>4, <1>5, <1>6, <2>1 DEF FileMove, Goes, Early
<1> QED BY <1>7, <1>8, <1>9, <1>10, <1>11 DEF toldNext

\* The steps of the callers of Start and Stop and of the timers.
LEMMA ManagerMove ==
    ASSUME FilesInv, UNCHANGED sent, NEW s \in Session,
           \/ \E r \in Session :
                 Start(r) \/ Announced(r) \/ TimerFires(r) \/ TimerExits(r) \/ TimerStop(r)
           \/ StopRequest
    PROVE  FileMove(s)
<1>1. SameTold(s)
  BY DEF SameTold, ToldReady, Told
<1>2. /\ starting \in [Session -> {"unused", "registered", "returned"}]
      /\ stopping \in [Session ->
            {"no", "taken", "closed", "processing", "muxing", "uploading",
             "presigning", "succeeding", "failing", "done"}]
      /\ sess \in [Session -> SessionState] /\ RegistryInv /\ sess[s] \in SessionState
  BY DEF FilesInv, TypeOK
<1>3. CASE \E r \in Session : Start(r)
  <2>1. PICK r \in Session : Start(r)
    BY <1>3
  <2>2. /\ starting[r] = "unused" /\ stopping[r] = "no" /\ stopping' = stopping
        /\ starting' = [starting EXCEPT ![r] = "registered"]
        /\ sess' = [sess EXCEPT ![r] = [sess[r] EXCEPT !.dir = TRUE]]
    BY <2>1, <1>2 DEF Start, RegistryInv
  <2>3. s = r => sess'[s].dir
    BY <1>2, <2>2 DEF SessionState
  <2>4. s # r => SameFile(s) /\ starting'[s] = starting[s]
    BY <1>2, <2>2 DEF SameFile
  <2> QED BY <1>1, <2>2, <2>3, <2>4 DEF FileMove
<1>4. CASE \E r \in Session : Announced(r) \/ TimerFires(r) \/ TimerExits(r)
  BY <1>1, <1>2, <1>4 DEF Announced, TimerFires, TimerExits, FileMove, SameFile
<1>5. CASE StopRequest \/ \E r \in Session : TimerStop(r)
  BY <1>1, <1>2, <1>5 DEF StopRequest, TimerStop, Take, FileMove, SameFile, RegistryInv, Early
<1> QED BY <1>3, <1>4, <1>5

\* The steps of the finalizers that announce nothing.
LEMMA FinalizerMove ==
    ASSUME FilesInv, UNCHANGED sent, NEW s \in Session, NEW r \in Session,
           \/ Close(r) \/ Processing(r) \/ ReadTracks(r) \/ Mux(r)
           \/ Upload(r) \/ Presign(r) \/ Succeed(r) \/ Fail(r)
    PROVE  FileMove(s)
<1>1. SameTold(s)
  BY DEF SameTold, ToldReady, Told
<1>2. /\ stopping \in [Session ->
            {"no", "taken", "closed", "processing", "muxing", "uploading",
             "presigning", "succeeding", "failing", "done"}]
      /\ sess \in [Session -> SessionState]
      /\ sess[s] \in SessionState /\ sess[r] \in SessionState
  BY DEF FilesInv, TypeOK
<1>3. starting' = starting
  BY DEF Close, Processing, ReadTracks, Mux, Upload, Presign, Succeed, Fail, Finalize
<1>4. CASE s # r
  BY <1>1, <1>2, <1>3, <1>4 DEF Close, Processing, ReadTracks, Mux, Upload, Presign,
     Succeed, Fail, Finalize, FileMove, SameFile
<1>5. CASE s = r /\ (Close(s) \/ Processing(s))
  <2>1. SameFile(s)
    BY <1>2, <1>5 DEF Close, Processing, SameFile, SessionState
  <2> QED BY <1>1, <1>2, <1>3, <1>5, <2>1 DEF Close, Processing, FileMove, Early
<1>6. CASE s = r /\ ReadTracks(s)
  <2> DEFINE new == [sess[s] EXCEPT !.input = sess[s].writers, !.read = sess[s].data]
  <2>1. new.dir = sess[s].dir /\ new.uploaded = sess[s].uploaded
    BY <1>2 DEF SessionState
  <2>2. sess' = [sess EXCEPT ![s] = new]
    BY <1>6 DEF ReadTracks, Finalize
  <2> HIDE DEF new
  <2>3. SameFile(s)
    BY <1>2, <2>1, <2>2 DEF SameFile
  <2>4. stopping[s] = "processing" /\ stopping'[s] \in {"failing", "muxing"}
    BY <1>2, <1>6 DEF ReadTracks, Finalize
  <2> QED BY <1>1, <1>3, <2>3, <2>4 DEF FileMove, Early
<1>7. CASE s = r /\ (Mux(s) \/ Succeed(s))
  BY <1>1, <1>2, <1>3, <1>7 DEF Mux, Succeed, Finalize, FileMove, SameFile, Goes
<1>8. CASE s = r /\ Upload(s)
  <2>1. \/ Goes(s, "uploading", "presigning") /\ sess'[s].uploaded
        \/ Goes(s, "uploading", "failing") /\ sess' = sess
    BY <1>2, <1>8 DEF Upload, Finalize, Goes, SessionState
  <2> QED BY <1>1, <1>3, <2>1 DEF FileMove, SameFile, Goes
<1>9. CASE s = r /\ Presign(s)
  <2>1. \/ Goes(s, "presigning", "succeeding") /\ sess'[s].uploaded = sess[s].uploaded
        \/ Goes(s, "presigning", "failing") /\ sess' = sess
    BY <1>2, <1>9 DEF Presign, Finalize, Goes, SessionState
  <2> QED BY <1>1, <1>3, <2>1 DEF FileMove, SameFile, Goes
<1>10. CASE s = r /\ Fail(s)
  <2>1. Goes(s, "failing", "done")
    BY <1>2, <1>10 DEF Fail, Finalize, Goes
  <2> QED BY <1>1, <1>3, <2>1 DEF FileMove
<1> QED BY <1>4, <1>5, <1>6, <1>7, <1>8, <1>9, <1>10

\* The turns of the broadcasts.
LEMMA TurnMove ==
    ASSUME FilesInv, NEW r \in Session, NEW c \in Client,
           AnnounceTo(r, c) \/ ReportTo(r, c),
           NEW s \in Session
    PROVE  FileMove(s)
<1>1. UNCHANGED <<starting, stopping, sess>>
  BY Turn DEF AnnounceTo, ReportTo
<1>2. PICK st \in State : Broadcast(r, c, st) /\ (st = "ready" => stopping[r] = "succeeding")
  BY Turn
<1>3. s # r \/ st # "ready" => SameTold(s)
  <2>1. "ready" \in State
    BY DEF State
  <2>2. \A d \in Client : Told(s, d, "ready")' <=>
           Told(s, d, "ready") \/ (s = r /\ d = c /\ st = "ready")
    BY <1>2, <2>1, ToldAfter
  <2> QED BY <2>2 DEF SameTold, ToldReady
<1> QED BY <1>1, <1>2, <1>3 DEF FileMove, SameFile, Goes

\* Packets and peers touch the writers, the files that are open and what is in
\* them.
LEMMA WriterMove ==
    ASSUME FilesInv, UNCHANGED recVars,
           \/ \E t \in Track : PacketStep(t)
           \/ \E p \in Peer : PeerStep(p)
           \/ UNCHANGED sess,
           NEW s \in Session
    PROVE  FileMove(s)
<1>1. SameTold(s)
  BY DEF SameTold, ToldReady, Told, recVars, toldVars
<1>2. sess \in [Session -> SessionState] /\ sess[s] \in SessionState
  BY DEF FilesInv, TypeOK
<1>3. ASSUME NEW r \in Session, NEW new, sess' = [sess EXCEPT ![r] = new],
             new.dir = sess[r].dir, new.uploaded = sess[r].uploaded
      PROVE  SameFile(s)
  BY <1>2, <1>3 DEF SameFile
<1>4. SameFile(s)
  <2>1. CASE UNCHANGED sess
    BY <2>1 DEF SameFile
  <2>2. ASSUME NEW t \in Track, FindWriter(t), sess' # sess
        PROVE  SameFile(s)
    <3> DEFINE r == reader[t].session
               new == [sess[r] EXCEPT !.writers = @ \cup {t}, !.open = @ \cup {t}]
    <3>1. r \in Session /\ sess[r] \in SessionState
      BY <2>2 DEF FilesInv, TypeOK, FindWriter
    <3>2. sess' = [sess EXCEPT ![r].writers = @ \cup {t}, ![r].open = @ \cup {t}]
      BY <2>2 DEF FindWriter
    <3>3. sess' = [sess EXCEPT ![r] = new]
      BY <1>2, <3>1, <3>2
    <3>4. new.dir = sess[r].dir /\ new.uploaded = sess[r].uploaded
      BY <3>1 DEF SessionState
    <3> HIDE DEF new
    <3> QED BY <1>3, <3>1, <3>3, <3>4
  <2>3. ASSUME NEW t \in Track, Write(t), sess' # sess
        PROVE  SameFile(s)
    <3> DEFINE r == reader[t].session
               new == [sess[r] EXCEPT !.data = @ \cup {t}]
    <3>1. r \in Session /\ sess[r] \in SessionState
      BY <2>3 DEF FilesInv, TypeOK, Write
    <3>2. sess' = [sess EXCEPT ![r] = new]
      BY <2>3 DEF Write
    <3>3. new.dir = sess[r].dir /\ new.uploaded = sess[r].uploaded
      BY <3>1 DEF SessionState
    <3> HIDE DEF new
    <3> QED BY <1>3, <3>1, <3>2, <3>3
  <2>4. ASSUME NEW p \in Peer, PeerLeft(p)
        PROVE  SameFile(s)
    <3> DEFINE r == leaving[p]
               new == [sess[r] EXCEPT !.open = @ \ ClosedWith[p]]
    <3>1. r \in Session /\ sess[r] \in SessionState
      BY <2>4 DEF FilesInv, TypeOK, PeerLeft
    <3>2. sess' = [sess EXCEPT ![r] = new]
      BY <2>4 DEF PeerLeft
    <3>3. new.dir = sess[r].dir /\ new.uploaded = sess[r].uploaded
      BY <3>1 DEF SessionState
    <3> HIDE DEF new
    <3> QED BY <1>3, <3>1, <3>2, <3>3
  <2> QED BY <2>1, <2>2, <2>3, <2>4
          DEF PacketStep, Read, OnPacket, PeerStep, Leave, Rejoin
<1> QED BY <1>1, <1>4 DEF FileMove, recVars

LEMMA NextFile ==
    ASSUME FilesInv, PlaceInv, FileInv, [Next]_vars
    PROVE  FileInv'
<1>0. s3' = s3
  BY DEF Next, vars
<1>1. CASE \E s \in Session, c \in Client : AnnounceTo(s, c) \/ ReportTo(s, c)
  BY <1>0, <1>1, TurnMove, MoveKeepsFile
<1>2. CASE \/ \E r \in Session :
                 Start(r) \/ Announced(r) \/ TimerFires(r) \/ TimerExits(r) \/ TimerStop(r)
           \/ StopRequest
  <2>1. UNCHANGED sent
    BY <1>2 DEF Start, Announced, TimerFires, TimerExits, TimerStop, StopRequest, toldVars
  <2> QED BY <1>0, <1>2, <2>1, ManagerMove, MoveKeepsFile
<1>3. CASE \E r \in Session :
              \/ Close(r) \/ Processing(r) \/ ReadTracks(r) \/ Mux(r)
              \/ Upload(r) \/ Presign(r) \/ Succeed(r) \/ Fail(r)
  <2>1. UNCHANGED sent
    BY <1>3 DEF Close, Processing, ReadTracks, Mux, Upload, Presign, Succeed, Fail,
                Finalize, toldVars
  <2> QED BY <1>0, <1>3, <2>1, FinalizerMove, MoveKeepsFile
<1>4. CASE \/ \E t \in Track : PacketStep(t)
           \/ \E p \in Peer : PeerStep(p)
           \/ Finished \/ UNCHANGED vars
  <2>1. UNCHANGED recVars
    BY <1>4 DEF PacketStep, Read, OnPacket, FindWriter, Write, PeerStep, Leave,
                PeerLeft, Rejoin, Finished, vars
  <2>2. \/ \E t \in Track : PacketStep(t)
        \/ \E p \in Peer : PeerStep(p)
        \/ UNCHANGED sess
    BY <1>4 DEF Finished, vars
  <2> QED BY <1>0, <2>1, <2>2, WriterMove, MoveKeepsFile
<1> QED BY <1>1, <1>2, <1>3, <1>4 DEF Next, StartStep, FinalizeStep

LEMMA InitLog == Init => LogInv /\ PlaceInv /\ FileInv
<1> SUFFICES ASSUME Init PROVE LogInv /\ PlaceInv /\ FileInv
  OBVIOUS
<1>1. \A s \in Session, c \in Client : \A i \in DOMAIN sent[s][c] : FALSE
  <2>1. \A s \in Session, c \in Client : Len(sent[s][c]) = 0
    BY DEF Init
  <2>2. FilesInv
    BY InitFilesInv
  <2>3. \A s \in Session, c \in Client : DOMAIN sent[s][c] = 1 .. Len(sent[s][c])
    BY <2>2, LogTyped
  <2> QED BY <2>1, <2>3
<1>2. \A s \in Session, c \in Client : \A x : ~Told(s, c, x)
  BY <1>1 DEF Told
<1>3. LogInv
  BY <1>1, <1>2, SessionAssumption DEF Init, LogInv, Orderly
<1>4. PlaceInv /\ FileInv
  BY <1>2 DEF Init, PlaceInv, FileInv, ReadyHasFile, PlaceOfFileInv
<1> QED BY <1>3, <1>4

-----------------------------------------------------------------------------
\* Whatever the interleaving of Start, Stop, timers, packets and leavers, and
\* for any number of them, the invariant of recording/manager.go and
\* session.go holds.
THEOREM Invariance == Spec => []IndInv
<1>1. Init => FilesInv /\ LogInv /\ PlaceInv /\ FileInv
  BY InitFilesInv, InitLog
<1>2. FilesInv /\ LogInv /\ PlaceInv /\ FileInv /\ [Next]_vars
      => (FilesInv /\ LogInv /\ PlaceInv /\ FileInv)'
  BY NextFilesInv, NextLog, NextFile
<1>3. FilesInv /\ LogInv /\ PlaceInv /\ FileInv => IndInv
  BY LogInvIsOnceInOrder DEF IndInv, FileInv
<1> QED BY <1>1, <1>2, <1>3, PTL DEF Spec

\* The state keeps its types.
THEOREM TypeCorrect == Spec => []TypeOK
<1>1. IndInv => TypeOK
  BY DEF IndInv, FilesInv
<1> QED BY <1>1, Invariance, PTL

\* What Mux is given (manager.go:185) is every track the session ever has a
\* file for, and nothing is written to a file of it any more: the write of a
\* packet that has found its writer before the close (session.go:152) is lost.
THEOREM MuxCompleteHolds == Spec => []MuxComplete
<1>1. IndInv => MuxComplete
  BY DEF IndInv, FilesInv
<1> QED BY <1>1, Invariance, PTL

\* Every client of a room hears of each recording once that it starts, then
\* that it is processed, then how it ended, and all of them hear the same end,
\* although the broadcasts of Start and Stop overlap (hub.go:106); only of a
\* session that was stopped before it was announced may the start come late.
THEOREM OnceInOrderHolds == Spec => []OnceInOrder
<1>1. IndInv => OnceInOrder
  BY DEF IndInv
<1> QED BY <1>1, Invariance, PTL

\* A recording the room has been told is ready (manager.go:220) has its file:
\* no cleanup, of this session or of another, takes it away.
THEOREM ReadyHasFileHolds == Spec => []ReadyHasFile
<1>1. IndInv => ReadyHasFile
  BY DEF IndInv
<1> QED BY <1>1, Invariance, PTL

=============================================================================
