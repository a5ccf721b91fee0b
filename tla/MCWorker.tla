------------------------------ MODULE MCWorker ------------------------------
(* Small instances of Worker for TLC. *)
EXTENDS WorkerInvariants, TLC

(* Readings on both sides of each threshold: safe to load, exactly at the  *)
(* cancellation threshold, just above it, and at the hard stop.            *)
MCTemps == {CancelAt - 1, CancelAt, CancelAt + 1, TerminateAt}

(* Memory just short of and exactly at the requirement. *)
MCMemory == {RequiredMemory - 1, RequiredMemory}

(* For liveness one reading of each band and enough memory will do: the    *)
(* refusals are answered like any other failure.                           *)
LiveTemps == {CancelAt - 1, CancelAt + 1, TerminateAt}
LiveMemory == {RequiredMemory}

Symmetry == Permutations(Requests)
=============================================================================
