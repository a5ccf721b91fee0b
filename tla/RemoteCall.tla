------------------------------ MODULE RemoteCall ------------------------------
(***************************************************************************)
(* What a thread that calls WorkerClient.request may rely on, with neither *)
(* pipes nor reader threads nor queues: how a call ends says what became   *)
(* of its line and of the worker it went to.  Client implements it.        *)
(***************************************************************************)
EXTENDS Naturals

CONSTANTS Calls

VARIABLES current,   \* the number of the last worker started, 0 before any
          up,        \* it is alive
          hard,      \* the workers that ended by a thermal hard stop
          target,    \* target[c]: the worker c's line was written to, or 0
          answers,   \* the replies the workers gave, with their calls
          result     \* result[c]: how call c ended, or "none"

call == <<current, up, hard, target, answers, result>>

Init ==
  /\ current = 0 /\ up = FALSE /\ hard = {}
  /\ target = [c \in Calls |-> 0]
  /\ answers = {}
  /\ result = [c \in Calls |-> "none"]

Answered(c) == \E reply \in {"ok", "error"} : <<c, reply>> \in answers

Gone(n) == n # 0 /\ ~(up /\ n = current)

(* No worker is started beside a live one. *)
Start ==
  /\ ~up
  /\ current' = current + 1 /\ up' = TRUE
  /\ UNCHANGED <<hard, target, answers, result>>

GoDown ==
  /\ up /\ up' = FALSE
  /\ hard' \in {hard, hard \cup {current}}
  /\ UNCHANGED <<current, target, answers, result>>

(* A call writes one line, to the live worker. *)
Write(c) ==
  /\ up /\ target[c] = 0 /\ result[c] = "none"
  /\ target' = [target EXCEPT ![c] = current]
  /\ UNCHANGED <<current, up, hard, answers, result>>

(* A worker answers a line once. *)
Answer(c, reply) ==
  /\ up /\ target[c] = current /\ ~Answered(c)
  /\ answers' = answers \cup {<<c, reply>>}
  /\ UNCHANGED <<current, up, hard, target, result>>

(* A call ends once.  What it says of the worker and of the line is so.    *)
Return(c, outcome) ==
  /\ result[c] = "none"
  /\ CASE outcome \in {"ok", "error"} -> <<c, outcome>> \in answers
       [] outcome \in {"not_running", "os_error"} -> ~up /\ target[c] = 0
       [] outcome = "too_long" -> target[c] = 0
       [] outcome = "timeout" -> target[c] # 0
       [] outcome = "worker_crash" -> Gone(target[c]) /\ ~Answered(c)
       [] outcome = "thermal_hard_stop" ->
            Gone(target[c]) /\ target[c] \in hard /\ ~Answered(c)
       [] OTHER -> FALSE
  /\ result' = [result EXCEPT ![c] = outcome]
  /\ UNCHANGED <<current, up, hard, target, answers>>

Next ==
  \/ Start \/ GoDown
  \/ \E c \in Calls : Write(c) \/ \E reply \in {"ok", "error"} : Answer(c, reply)
  \/ \E c \in Calls, outcome \in {"ok", "error", "not_running", "os_error", "too_long",
                                  "timeout", "worker_crash", "thermal_hard_stop"} :
       Return(c, outcome)

Spec == Init /\ [][Next]_call
=============================================================================
