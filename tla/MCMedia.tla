------------------------------- MODULE MCMedia -------------------------------
(* Instances of Media for TLC: a1 and v1 are tracks of one peer, v2 of another. *)
EXTENDS Media

CONSTANTS a1, v1, v2

MCKindOf == [t \in Track |-> IF t = a1 THEN "audio" ELSE "video"]
MCPeerOf == [t \in Track |-> IF t = v2 THEN 2 ELSE 1]

\* Bound of Media_all: what may go wrong with a track goes wrong with v1, and
\* key frames are asked of it only; a1 has its peer in common with v1, and with
\* it the leave and the failed connection.  After the command, and after a leave
\* of the other peer, nothing is followed.
OneFails ==
    /\ track[v2] \notin {"stalled", "broken", "gone"} /\ track[a1] # "stalled"
    /\ quit \subseteq {v1} /\ asked \subseteq {v1}
    /\ rec # "done"
=============================================================================
