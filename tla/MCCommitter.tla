---------------------------- MODULE MCCommitter ----------------------------
(* Small instances of the committer for TLC. *)
EXTENDS Committer, TLC

Symmetry == Permutations(Writers)

=============================================================================
