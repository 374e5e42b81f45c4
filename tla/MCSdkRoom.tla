----------------------------- MODULE MCSdkRoom -----------------------------
(* Instances of SdkRoom for TLC: the calls are interchangeable. *)
EXTENDS SdkRoom, TLC

Calls == Permutations(Call)

=============================================================================
