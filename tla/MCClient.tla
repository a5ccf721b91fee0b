------------------------------ MODULE MCClient ------------------------------
(* Small instances of Client for TLC. *)
EXTENDS ClientInvariants, TLC

Symmetry == Permutations(Calls)
=============================================================================
