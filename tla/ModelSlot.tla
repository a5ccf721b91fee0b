------------------------------ MODULE ModelSlot ------------------------------
(***************************************************************************)
(* What the worker promises about the memory it manages, with neither      *)
(* threads nor backends: there is one slot for a model and one job at a    *)
(* time, only the job in progress fills or empties the slot, and a request *)
(* is answered once, when it is no longer the job.                         *)
(***************************************************************************)
CONSTANTS Requests, None

VARIABLES job,       \* the load, run, unload or stop in progress
          model,     \* the model in memory, named by the load that made it
          replied    \* the requests that have their reply

slot == <<job, model, replied>>

Init == job = None /\ model = None /\ replied = {}

Begin(r) ==
  /\ job = None /\ r \notin replied
  /\ job' = r
  /\ UNCHANGED <<model, replied>>

(* Only a load fills the slot, only an empty slot is filled. *)
Fill(r) ==
  /\ job = r /\ model = None
  /\ model' = r
  /\ UNCHANGED <<job, replied>>

Empty(r) ==
  /\ job = r
  /\ model' = None
  /\ UNCHANGED <<job, replied>>

End(r) ==
  /\ job = r
  /\ job' = None
  /\ UNCHANGED <<model, replied>>

Answer(r) ==
  /\ job # r /\ r \notin replied
  /\ replied' = replied \cup {r}
  /\ UNCHANGED <<job, model>>

(* unload and stop empty the slot and answer as they end. *)
Release(r) ==
  /\ job = r /\ r \notin replied
  /\ model' = None /\ job' = None
  /\ replied' = replied \cup {r}

Next == \E r \in Requests :
          Begin(r) \/ Fill(r) \/ Empty(r) \/ End(r) \/ Answer(r) \/ Release(r)

Spec == Init /\ [][Next]_slot
=============================================================================
