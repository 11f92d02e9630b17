-------------------------- MODULE MCRefreshRotation --------------------------
(* Instances of RefreshRotation for TLC: requests are interchangeable. *)
EXTENDS RefreshRotation, TLC

Symmetry == Permutations(Req) \cup Permutations(Account)
=============================================================================
