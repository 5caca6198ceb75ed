---------------------------- MODULE MCWAFManager ----------------------------
(* Small instances of WAFManager for TLC. *)
EXTENDS WAFManager, TLC

Symmetry == Permutations(Requests) \cup Permutations(Handlers) \cup Permutations(Workers)
=============================================================================
