---------------------------- MODULE MCSfuManager ----------------------------
(* Instances of SfuManager for TLC. *)
EXTENDS SfuManager, TLC

Anonymous == Permutations(Session) \cup Permutations(Room)

=============================================================================
