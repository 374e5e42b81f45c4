----------------------------- MODULE MCSfuRoom -----------------------------
(***************************************************************************)
(* Instances of SfuRoom for TLC: sessions p1, p2, p3; the tracks t1, t2    *)
(* belong to p1, p2.                                                       *)
(***************************************************************************)
EXTENDS SfuRoom, TLC

CONSTANTS p1, p2, p3, t1, t2

\* Every session its own identifier: open mode.
FreshIdOf   == [p \in Peer |-> p]
FreshPrefix == [i \in PeerId |-> {i}]

TrackOwner == [t \in Track |-> IF t = t1 THEN p1 ELSE p2]

\* With t1 alone, p2 and p3 are interchangeable.
Subscribers == Permutations({p2, p3})

=============================================================================
