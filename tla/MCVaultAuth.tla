----------------------------- MODULE MCVaultAuth -----------------------------
(* Instances of VaultAuth for TLC: goroutines and tokens are symmetric. *)
EXTENDS VaultAuthProofs, TLC

(* The passing instances satisfy the arithmetic the theorems assume. *)
ASSUME MCMargin == ReplyBound =< Margin => MarginSuffices

Symmetry == Permutations(Procs) \cup Permutations(Tokens)
=============================================================================
