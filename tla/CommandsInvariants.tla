------------------------- MODULE CommandsInvariants -------------------------
(***************************************************************************)
(* The strengthening behind the safety theorems of Commands: an inductive  *)
(* invariant of one command and its worker, and one of the pid file when   *)
(* commands follow each other; and the mapping under which Commands        *)
(* implements ModelLease.  It is model-checked before it is proved.        *)
(***************************************************************************)
EXTENDS Commands

(* A worker that holds a model, or may still come to hold one by itself. *)
Danger(c) ==
  held[c] \/ job[c] # "none" \/ \E i \in 1 .. Len(inbox[c]) : inbox[c][i] = "load"

Begun(c) == pc[c] \notin {"idle", "gone"}

Early == {"idle", "read", "verify", "discard", "spawn"}

(* One command and its worker, under every fault. *)
DownIsEmpty == \A c \in Controllers : life[c] \in {"unborn", "closing", "dead"} => ~Danger(c)

EarlyIsUnborn == \A c \in Controllers : pc[c] \in Early => life[c] = "unborn" /\ ~process[c]

WaitsInRequest == \A c \in Controllers : wants[c] # "none" => pc[c] \in Requests

HasProcess ==
  \A c \in Controllers :
    pc[c] \in Requests \cup Waits \cup {"open", "write", "terminate", "close", "unlink"} => process[c]

ReleasedIsDead == \A c \in Controllers : pc[c] \in {"close", "unlink"} => life[c] = "dead"

WithoutProcess ==
  \A c \in Controllers :
    pc[c] # "gone" /\ ~process[c] => life[c] \in {"unborn", "dead"} /\ pidfile # c

RecordedIsReleased == \A c \in Controllers : pc[c] \in {"record", "ended"} => ~process[c]

LifecycleInv ==
  /\ TypeOK /\ DownIsEmpty /\ EarlyIsUnborn /\ WaitsInRequest /\ HasProcess
  /\ ReleasedIsDead /\ WithoutProcess /\ RecordedIsReleased

(* The pid file, for commands that follow each other. *)
OneCommand == \A c, d \in Controllers : Begun(c) /\ Begun(d) => c = d

DangerIsNamed == \A c \in Controllers : Danger(c) => pidfile = c

(* Once a command has started its worker no former one is a danger. *)
OthersAreSafe ==
  \A c, d \in Controllers : Begun(c) /\ process[c] /\ d # c => ~Danger(d)

(* What start() knows of the pid file at each of its steps. *)
StartKnows ==
  \A c \in Controllers :
    /\ pc[c] = "verify" => seen[c] = pidfile /\ pidfile \in Controllers
    /\ pc[c] = "discard" /\ pidfile \in Controllers => ~Alive(pidfile)
    /\ pc[c] \in {"spawn", "open"} => pidfile = None
    /\ pc[c] = "write" => pidfile = "garbled"
    /\ pc[c] = "load" => pidfile = c

PidfileInv == OneCommand /\ DangerIsNamed /\ OthersAreSafe /\ StartKnows

(* A command that has started its worker finds no other worker named. *)
NamesOwnOnly ==
  \A c \in Controllers : Begun(c) /\ process[c] => pidfile \in {c, None, "garbled"}

Lease == INSTANCE ModelLease
           WITH owner <- IF pidfile \in Controllers THEN pidfile ELSE None,
                alive <- {c \in Controllers : Alive(c)},
                holding <- {c \in Controllers : MayHoldModel(c)}

(* A worker comes to hold a model only while the pid file names it, and    *)
(* the file names it until it is gone: see ModelLease.                     *)
ImplementsModelLease == Lease!Spec

-----------------------------------------------------------------------------
(* How a command comes out, under every fault.                             *)

DownInbox == \A c \in Controllers : life[c] \in {"unborn", "closing", "dead"} => inbox[c] = <<>>

MailInOrder ==
  \A c \in Controllers :
    wants[c] \in {"none", pc[c]} /\ (wants[c] = "none" => mail[c] = "none")

(* Until its worker is to load and run, a command has no line on the way;  *)
(* then it has one, or a task, or a reply to it.  After heat there is no   *)
(* model for the next turn to run on.                                      *)
TurnInOrder(c) ==
  /\ pc[c] \in Early \cup {"open", "write", "load", "run"} => status[c] = "running"
  /\ pc[c] \in {"open", "write"} => inbox[c] = <<>> /\ job[c] = "none"
  /\ pc[c] \in {"load", "run"} =>
       \/ inbox[c] = <<>> /\ (mail[c] # "none" \/ wants[c] = "none" => job[c] = "none")
       \/ /\ inbox[c] = <<wants[c]>> /\ wants[c] # "none"
          /\ job[c] = "none" /\ mail[c] = "none"
  /\ pc[c] = "run" /\ mail[c] = "hot" => ~held[c]
  /\ "heat" \in mishaps[c] =>
       /\ pc[c] \notin Early \cup {"open", "write", "load"}
       /\ status[c] # "completed"
       /\ pc[c] = "run" => ~held[c] /\ job[c] = "none" /\ mail[c] \notin {"ok", "hot"}

TurnsInOrder == \A c \in Controllers : TurnInOrder(c)

(* What a command does in its try clause. *)
TryInOrder ==
  \A c \in Controllers :
    phase[c] = "try" => pc[c] \in Early \cup {"open", "write", "load", "run", "gone"}

Undisturbed(c) == pc[c] # "gone" /\ mishaps[c] \cap LosesRecord = {}

Awake == {"open", "write", "load", "run", "cancel", "health", "unload", "finally", "stop"}

Unloaded(c) == job[c] = "none" /\ ~held[c] /\ reader[c]

(* A command that nothing befell stops a worker that is up, idle and       *)
(* empty: the unload that it awaits is the last line it sent before, so    *)
(* the worker has no reason to refuse or to go down.                       *)
StopInOrder(c) ==
  /\ ~broken[c] /\ pc[c] # "raised"
  /\ process[c] /\ pc[c] \in Awake => life[c] = "up"
  /\ pc[c] \in Awake =>
       \A i \in 1 .. Len(inbox[c]) :
         /\ inbox[c][i] # "ask_stop"
         /\ inbox[c][i] = "unload" => wants[c] = "unload" /\ i = Len(inbox[c])
  /\ pc[c] = "unload" /\ mail[c] = "ok" => Unloaded(c) /\ inbox[c] = <<>>
  /\ pc[c] = "stop" /\ process[c] => Unloaded(c) /\ inbox[c] = <<>>
  /\ pc[c] = "ask_stop" =>
       /\ Unloaded(c)
       /\ \/ life[c] = "up" /\ mail[c] = "none" /\ wants[c] = "none" /\ inbox[c] = <<>>
          \/ /\ life[c] = "up" /\ mail[c] = "none" /\ wants[c] = "ask_stop"
             /\ inbox[c] = <<"ask_stop">>
          \/ mail[c] = "ok" /\ wants[c] = "ask_stop" /\ inbox[c] = <<>>

StopsInOrder == \A c \in Controllers : Undisturbed(c) => StopInOrder(c)

OutcomeInv == DownInbox /\ MailInOrder /\ TurnsInOrder /\ TryInOrder /\ StopsInOrder
=============================================================================
