------------------------------ MODULE ModelLease ------------------------------
(***************************************************************************)
(* The promise of the pid file to the commands of a records directory: it  *)
(* is a lease on the right to hold a model.  A worker that is killed, or   *)
(* whose controller is, keeps its lease as long as it lives.  Commands     *)
(* implements it.                                                          *)
(***************************************************************************)
CONSTANTS Controllers, None

VARIABLES owner,     \* the worker the pid file names, or None
          alive,     \* the worker processes
          holding    \* those that hold or load a model

lease == <<owner, alive, holding>>

Init == owner = None /\ alive = {} /\ holding = {}

Start(c) ==
  /\ alive' = alive \cup {c}
  /\ UNCHANGED <<owner, holding>>

(* The pid file is taken when it names nobody. *)
Acquire(c) ==
  /\ owner = None /\ owner' = c
  /\ UNCHANGED <<alive, holding>>

(* It is given up, by its command or by the next one, when the worker it   *)
(* names is gone.                                                          *)
Release ==
  /\ owner \notin alive
  /\ owner' = None
  /\ UNCHANGED <<alive, holding>>

Fill(c) ==
  /\ owner = c /\ c \in alive
  /\ holding' = holding \cup {c}
  /\ UNCHANGED <<owner, alive>>

Empty(c) ==
  /\ holding' = holding \ {c}
  /\ UNCHANGED <<owner, alive>>

GoDown(c) ==
  /\ alive' = alive \ {c} /\ holding' = holding \ {c}
  /\ UNCHANGED owner

Next ==
  \/ Release
  \/ \E c \in Controllers : Start(c) \/ Acquire(c) \/ Fill(c) \/ Empty(c) \/ GoDown(c)

Spec == Init /\ [][Next]_lease
=============================================================================
