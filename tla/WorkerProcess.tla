---------------------------- MODULE WorkerProcess ----------------------------
(***************************************************************************)
(* A worker process as its client sees it, with neither threads nor models:*)
(* it answers the lines written to it, each at most once; it leaves after  *)
(* a stop or at the end of its stdin; and it goes down.  Worker implements *)
(* it, and Client is ready for each of its steps.                          *)
(***************************************************************************)
CONSTANTS Lines

VARIABLES life,      \* running, stopping (serve has returned), closing (its
                     \* pipes are closed) or dead (it can be waited for)
          code,      \* its exit status
          inbox,     \* the lines that have no reply
          answers,   \* the reply lines it wrote, with the lines they answer
          stops      \* the stop requests it answered

process == <<life, code, inbox, answers, stops>>

Init ==
  /\ life = "running" /\ code = "none"
  /\ inbox \subseteq Lines /\ answers = {} /\ stops = {}

Live == life \in {"running", "stopping"}

(* A reply.  No stop is answered after serve has returned; a stop that is  *)
(* answered makes it return, unless it was refused, which is an error.     *)
Answer(c, reply, stop) ==
  /\ Live /\ c \in inbox
  /\ stop => life = "running"
  /\ inbox' = inbox \ {c}
  /\ answers' = answers \cup {<<c, reply>>}
  /\ stops' = stops \cup (IF stop THEN {c} ELSE {})
  /\ \/ ~(stop /\ reply = "ok") /\ UNCHANGED life
     \/ stop /\ life' = "stopping"
  /\ UNCHANGED code

(* The client closed its end of stdin. *)
EndOfInput ==
  /\ life = "running"
  /\ life' = "stopping"
  /\ UNCHANGED <<code, inbox, answers, stops>>

Exit(status) ==
  /\ Live
  /\ status = "clean" => life = "stopping"
  /\ life' = "closing"
  /\ code' = status
  /\ UNCHANGED <<inbox, answers, stops>>

BecomeWaitable ==
  /\ life = "closing"
  /\ life' = "dead"
  /\ UNCHANGED <<code, inbox, answers, stops>>

Next ==
  \/ \E c \in Lines, reply \in {"ok", "error"}, stop \in BOOLEAN : Answer(c, reply, stop)
  \/ EndOfInput
  \/ \E status \in {"clean", "crash", "hard_stop"} : Exit(status)
  \/ BecomeWaitable

Spec == Init /\ [][Next]_process
=============================================================================
