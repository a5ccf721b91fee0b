------------------------------- MODULE Backend -------------------------------
(***************************************************************************)
(* The model backends: src/agentworldlab/backends/{base,mock,transformers, *)
(* vllm}.py.  Every load request creates its own Backend object            *)
(* (create_backend), so an object is named by the request that made it.    *)
(*                                                                         *)
(* An object is its model reference (self.model or self.engine, here       *)
(* loaded) and its cancellation threading.Event (self._cancel, here        *)
(* event).  Prompts, tokens and metrics are abstracted; the one datum of a *)
(* generation that survives is its "cancelled" flag.                       *)
(***************************************************************************)
CONSTANTS Requests,   \* the lines a controller may write to the worker
          Kind,       \* ModelConfig.backend of the configured model
          Faults      \* the environment faults a run admits

ASSUME KindAssumption == Kind \in {"mock", "transformers", "vllm"}

(* pipelined_load: a client sends load before an earlier load is answered; *)
(* late_join: a monitor thread outlives the bounded join of its stop();    *)
(* unload_raises: releasing the torch device cache raises;                 *)
(* oversize_result: a run's result is larger than the protocol's cap.      *)
ASSUME FaultsAssumption ==
  Faults \subseteq {"pipelined_load", "late_join", "unload_raises", "oversize_result"}

VARIABLES loaded,   \* loaded[b]: object b holds a model
          event     \* event[b]: b._cancel is set

backendVars == <<loaded, event>>

BackendTypeOK ==
  /\ loaded \in [Requests -> BOOLEAN]
  /\ event \in [Requests -> BOOLEAN]

BackendInit ==
  /\ loaded = [b \in Requests |-> FALSE]
  /\ event = [b \in Requests |-> FALSE]

(* Backend.load, when it succeeds.  mock and transformers clear the event, *)
(* vllm never does.                                                        *)
BackendLoad(b) ==
  /\ loaded' = [loaded EXCEPT ![b] = TRUE]
  /\ event' = [event EXCEPT ![b] = (Kind = "vllm") /\ @]

(* Can Backend.load raise?  A missing package, a probe that did not pass,  *)
(* a broken checkpoint; the mock's, on a fresh object, has no reason to.   *)
(* What follows the checkpoint's load (transformers.py:81-93) may raise as *)
(* well, with the model in the object; the worker drops that object with   *)
(* the exception, so it counts as one that holds none.                     *)
LoadMayRaise == Kind # "mock"

(* Mutant: generate forgets to clear the event. *)
EnterGenerate_NoClear(b) == loaded[b] /\ UNCHANGED <<loaded, event>>

(* The first lines of Backend.generate, once the object is seen to hold a  *)
(* model: mock and transformers clear the event here as well.              *)
EnterGenerate(b) ==
  /\ loaded[b]
  /\ event' = [event EXCEPT ![b] = (Kind = "vllm") /\ @]
  /\ UNCHANGED loaded

(* The values result["cancelled"] may take when generate returns now.  The *)
(* real backends read the event as they build the result; the mock looks   *)
(* at it only inside its slow loop, so an event set later is not seen.     *)
CancelledFlag(b) ==
  {c \in BOOLEAN : IF Kind = "mock" THEN c => event[b] ELSE c <=> event[b]}

(* Backend.cancel *)
SetCancel(b) == event' = [event EXCEPT ![b] = TRUE]

(* Backend.unload: the references are dropped and the event is set before  *)
(* the torch device cache is released, the call that may raise.            *)
BackendUnload(b) ==
  /\ loaded' = [loaded EXCEPT ![b] = FALSE]
  /\ event' = [event EXCEPT ![b] = TRUE]

(* Can Backend.unload raise once the model is dropped?  The mock's cannot. *)
UnloadRaises == IF Kind # "mock" /\ "unload_raises" \in Faults
                THEN BOOLEAN ELSE {FALSE}
=============================================================================
