--------------------------- MODULE ThermalMonitor ---------------------------
(***************************************************************************)
(* src/agentworldlab/safety.py: the admission checks of a load and the     *)
(* ThermalMonitor thread every real load and every generation runs beside. *)
(* A monitor is named by the request whose task made it; it cancels the    *)
(* backend object that task works on.                                      *)
(*                                                                         *)
(* ThermalState keeps peaks and memory extrema for the record; only        *)
(* cancellation_requested (hot) steers the program.  A sample at or above  *)
(* TerminateAt ends the process with os._exit(90).                         *)
(***************************************************************************)
EXTENDS Backend, Integers

CONSTANTS Temps,             \* control temperatures a sensor may show
          NoReading,         \* no allowlisted sensor is readable
          CancelAt,          \* thermal.cancel_celsius
          TerminateAt,       \* thermal.terminate_celsius
          Memory,            \* values of MemAvailable
          RequiredMemory     \* minimum_available + minimum_headroom

(* ThermalConfig.from_mapping enforces cancel < terminate. *)
ASSUME ThermalAssumption ==
  /\ Temps \subseteq Int
  /\ CancelAt \in Int /\ TerminateAt \in Int /\ CancelAt < TerminateAt
  /\ Memory \subseteq Int /\ RequiredMemory \in Int

VARIABLES mon,    \* mon[r]: life of the monitor thread of request r
          hot,    \* hot[r]: its ThermalState.cancellation_requested
          proc    \* the worker process

thermalVars == <<mon, hot, proc>>

ThermalTypeOK ==
  /\ mon \in [Requests -> {"none", "sampling", "late", "stopped"}]
  /\ hot \in [Requests -> BOOLEAN]
  /\ proc \in {"up", "hard_stop", "ended"}

ThermalInit ==
  /\ mon = [r \in Requests |-> "none"]
  /\ hot = [r \in Requests |-> FALSE]
  /\ proc = "up"

(* require_memory_headroom returns rather than raises *)
Headroom(m) == m # NoReading /\ m >= RequiredMemory

(* require_safe_start returns rather than raises: a load is refused at     *)
(* exactly CancelAt, where a running task is not yet cancelled.            *)
SafeStart(t) == t # NoReading /\ t < CancelAt

StartMonitor(r) == mon' = [mon EXCEPT ![r] = "sampling"]

(* stop() sets _stop and joins the thread for a bounded time.  A sample in *)
(* progress is the last one; when the join times out it is taken later.    *)
StopMonitor(r) ==
  \E m \in {"stopped"} \cup (IF "late_join" \in Faults THEN {"late"} ELSE {}) :
    mon' = [mon EXCEPT ![r] = IF @ = "sampling" THEN m ELSE @]

(* One pass of _loop with reading t, for a monitor that cancels object b.  *)
Sample(r, b, t) ==
  /\ mon[r] \in {"sampling", "late"}
  /\ mon' = [mon EXCEPT ![r] = IF @ = "late" THEN "stopped" ELSE @]
  /\ LET above      == t # NoReading /\ t > CancelAt
         atHardStop == t # NoReading /\ t >= TerminateAt
     IN /\ hot' = [hot EXCEPT ![r] = @ \/ (above /\ ~atHardStop)]
        /\ event' = [event EXCEPT ![b] = @ \/ above \/ atHardStop]
        /\ proc' = IF atHardStop THEN "hard_stop" ELSE proc
  /\ UNCHANGED loaded
=============================================================================
