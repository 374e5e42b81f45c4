---------------------------- MODULE MCRecording ----------------------------
(* Instances of Recording for TLC: the track t1 belongs to p1. *)
EXTENDS Recording

CONSTANTS p1, s1, s2, c2

TrackPeer == [t \in Track |-> p1]
AllTracks == [p \in Peer |-> Track]

\* s is over and has recorded nothing.
WasEmpty(s) == stopping[s] = "done" /\ timer[s] = "exited" /\ sess[s].writers = {}

\* Bounds of Recording_all: s2 is the second recording, of which c2 is the last
\* to be told.  Meanwhile the peers stay, and packets are those that were on
\* their way; and s2 is followed from Stop on only after a first recording that
\* is over and empty.
InTurn ==
    starting[s2] # "unused" =>
        /\ starting[s1] # "unused"
        /\ {announce[s2], report[s2]} \subseteq {{}, {c2}, Client}
        /\ stopping[s2] = "no" \/ WasEmpty(s1)
        /\ present = Peer
        /\ \A t \in Track : reader[t].at # "read" /\ reader[t].session # s2
=============================================================================
