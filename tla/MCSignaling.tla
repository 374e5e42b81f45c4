---------------------------- MODULE MCSignaling ----------------------------
(* Instances of Signaling for TLC: every session has an id of its own. *)
EXTENDS Signaling

CONSTANTS c1, c2, c3

FreshIdOf == [s \in Session |-> s]

=============================================================================
