---------------------------- MODULE MCMMRVerify ----------------------------
(* Small instances of the verifier for TLC. *)
EXTENDS MMRVerify

Symmetry == Permutations(Values)

=============================================================================
