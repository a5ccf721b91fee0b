----------------------------- MODULE MCCommands -----------------------------
(* Values of Commands for TLC. *)
EXTENDS CommandsInvariants, TLC

Symmetry == Permutations(Controllers)
=============================================================================
