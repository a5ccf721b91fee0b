------------------------------- MODULE Worker -------------------------------
(***************************************************************************)
(* The inference worker, src/agentworldlab/worker.py: the command loop     *)
(* (serve and WorkerRuntime.handle) on the main thread, the task thread a  *)
(* load or run starts, and the monitor thread beside it.                   *)
(*                                                                         *)
(* One step is what a thread does between two points at which another      *)
(* thread can see a difference: a section under state_lock, one call of a  *)
(* backend or of the monitor, one reply.  A request is a line a controller *)
(* may write; its operation is chosen when the loop reads it.              *)
(***************************************************************************)
EXTENDS ThermalMonitor

CONSTANT None   \* Python's None, where a request or an object is expected

ASSUME NoneAssumption == None \notin Requests

VARIABLES loop,      \* where the command loop is
          cur,       \* the request it is handling
          backend,   \* self.backend (self.model is set and cleared with it)
          task,      \* self.task, named by its request
          op,        \* op[r]: the operation of a request that was read
          local,     \* local[r]: the local variable `backend' of r's handler
          tpc,       \* tpc[r]: where the task thread of r is
          outcome,   \* outcome[r]: what r's reply says or will say
          answered,  \* requests whose reply was written to stdout
          acked      \* tasks a cancel was acknowledged for (history)

loopVars == <<loop, cur>>
slotVars == <<backend, task>>
replyVars == <<outcome, answered>>
vars == <<backendVars, thermalVars, loopVars, slotVars, op, local, tpc, replyVars, acked>>

Operations == {"health", "load", "run", "cancel", "unload", "stop", "malformed"}
LoopPoints == {"read", "start_load", "start_run", "release", "exited"}
TaskPoints == {"idle", "admit", "loading", "check", "publish", "seal",
               "start", "enter", "generating", "snapshot", "drop", "clear",
               "finish", "reply", "done"}

(* _run_task has set self.task to r and _task_finished has not cleared it. *)
Active(r) == tpc[r] \notin {"idle", "reply", "done"}

(* What a reply tells the properties apart: whether it is a failure, the   *)
(* `cancelled' of a run or the `cancellation_requested' of a cancel, and   *)
(* the thermal snapshot's cancellation_requested.                          *)
Outcomes == [status : {"pending", "ok", "error"}, cancelled : BOOLEAN, hot : BOOLEAN]
Pending == [status |-> "pending", cancelled |-> FALSE, hot |-> FALSE]
Error == [Pending EXCEPT !.status = "error"]
Ok == [Pending EXCEPT !.status = "ok"]

TypeOK ==
  /\ BackendTypeOK
  /\ ThermalTypeOK
  /\ loop \in LoopPoints
  /\ cur \in Requests \cup {None}
  /\ backend \in Requests \cup {None}
  /\ task \in Requests \cup {None}
  /\ op \in [Requests -> Operations \cup {"unread"}]
  /\ local \in [Requests -> Requests \cup {None}]
  /\ tpc \in [Requests -> TaskPoints]
  /\ outcome \in [Requests -> Outcomes]
  /\ answered \subseteq Requests
  /\ acked \subseteq Requests

Init ==
  /\ BackendInit
  /\ ThermalInit
  /\ loop = "read" /\ cur = None
  /\ backend = None /\ task = None
  /\ op = [r \in Requests |-> "unread"]
  /\ local = [r \in Requests |-> None]
  /\ tpc = [r \in Requests |-> "idle"]
  /\ outcome = [r \in Requests |-> Pending]
  /\ answered = {} /\ acked = {}

-----------------------------------------------------------------------------
(* Helpers.                                                                *)

(* self.send(response(r, ...)) by the command loop *)
Answer(r, result) ==
  /\ outcome' = [outcome EXCEPT ![r] = result]
  /\ answered' = answered \cup {r}

(* The loop reads the next line: decode and validate_request succeed.      *)
Read(r, o) ==
  /\ loop = "read" /\ op[r] = "unread"
  /\ op' = [op EXCEPT ![r] = o]

(* What this repository's controller does: it sends load only when every   *)
(* load it sent has been answered.                                         *)
LoadsAreSerial == \A q \in Requests : op[q] = "load" => q \in answered

(* Mutant: the busy check is missing. *)
RunTask_NoBusyCheck(r, first) ==
  /\ loop' = "read" /\ cur' = None
  /\ task' = r
  /\ tpc' = [tpc EXCEPT ![r] = first]
  /\ UNCHANGED <<replyVars, backendVars, thermalVars, backend, op, local, acked>>

(* _run_task on the main thread: refuse when a task is active, else make   *)
(* the thread of r the task.                                               *)
RunTask(r, first) ==
  /\ loop' = "read" /\ cur' = None
  /\ \/ /\ task # None
        /\ Answer(r, Error)
        /\ UNCHANGED <<task, tpc>>
     \/ /\ task = None
        /\ task' = r
        /\ tpc' = [tpc EXCEPT ![r] = first]
        /\ UNCHANGED replyVars
  /\ UNCHANGED <<backendVars, thermalVars, backend, op, local, acked>>

(* r's task thread goes from one point to another. *)
Goto(r, from, to) == tpc[r] = from /\ tpc' = [tpc EXCEPT ![r] = to]

(* Mutant: no finally clause, the monitor is left running. *)
Fail_NoFinally(r, from) ==
  /\ Goto(r, from, "finish")
  /\ outcome' = [outcome EXCEPT ![r] = Error]
  /\ UNCHANGED mon

(* Mutant: the exception escapes target() and kills the thread. *)
Fail_Escapes(r, from) ==
  /\ Goto(r, from, "done")
  /\ outcome' = [outcome EXCEPT ![r] = Error]
  /\ StopMonitor(r)

(* The task function raised: the finally clause stops the monitor and      *)
(* target() goes on with _task_finished.                                   *)
Fail(r, from) ==
  /\ Goto(r, from, "finish")
  /\ outcome' = [outcome EXCEPT ![r] = Error]
  /\ StopMonitor(r)

-----------------------------------------------------------------------------
(* The command loop: serve and handle.                                     *)

(* health: read under the lock, nothing changes but the reply. *)
Health(r) ==
  /\ Read(r, "health")
  /\ Answer(r, Ok)
  /\ UNCHANGED <<backendVars, thermalVars, loopVars, slotVars, local, tpc, acked>>

(* A well-formed line the handler refuses: unknown operation or model, a   *)
(* load without a name, generation fields out of range.                    *)
Malformed(r) ==
  /\ Read(r, "malformed")
  /\ Answer(r, Error)
  /\ UNCHANGED <<backendVars, thermalVars, loopVars, slotVars, local, tpc, acked>>

(* Mutant: the loaded check is missing. *)
LoadCheck_NoCheck(r) ==
  /\ "pipelined_load" \in Faults \/ LoadsAreSerial
  /\ Read(r, "load")
  /\ loop' = "start_load" /\ cur' = r
  /\ UNCHANGED <<replyVars, backendVars, thermalVars, slotVars, local, tpc, acked>>

(* load, first section under the lock: is a model already loaded? *)
LoadCheck(r) ==
  /\ "pipelined_load" \in Faults \/ LoadsAreSerial
  /\ Read(r, "load")
  /\ \/ /\ backend # None
        /\ Answer(r, Error)
        /\ UNCHANGED loopVars
     \/ /\ backend = None
        /\ loop' = "start_load" /\ cur' = r
        /\ UNCHANGED replyVars
  /\ UNCHANGED <<backendVars, thermalVars, slotVars, local, tpc, acked>>

(* load, second section: _run_task *)
LoadStart(r) ==
  /\ loop = "start_load" /\ cur = r
  /\ RunTask(r, "admit")

(* run, first section: capture the published backend. *)
RunCheck(r) ==
  /\ Read(r, "run")
  /\ \/ /\ backend = None
        /\ Answer(r, Error)
        /\ UNCHANGED <<loopVars, local>>
     \/ /\ backend # None
        /\ local' = [local EXCEPT ![r] = backend]
        /\ loop' = "start_run" /\ cur' = r
        /\ UNCHANGED replyVars
  /\ UNCHANGED <<backendVars, thermalVars, slotVars, tpc, acked>>

(* run, second section: _run_task *)
RunStart(r) ==
  /\ loop = "start_run" /\ cur = r
  /\ RunTask(r, "start")

(* cancel: the event of the published backend is set; the reply says       *)
(* whether a task is active.                                               *)
Cancel(r) ==
  /\ Read(r, "cancel")
  /\ IF backend # None THEN SetCancel(backend) ELSE UNCHANGED event
  /\ Answer(r, [Ok EXCEPT !.cancelled = (task # None)])
  /\ acked' = acked \cup ({task} \ {None})
  /\ UNCHANGED <<loaded, thermalVars, loopVars, slotVars, local, tpc>>

(* Mutant: the check for an active task is missing. *)
TakeBackend_NoBusyCheck(r) ==
  /\ Read(r, "unload") \/ Read(r, "stop")
  /\ local' = [local EXCEPT ![r] = backend]
  /\ backend' = None
  /\ loop' = "release" /\ cur' = r
  /\ UNCHANGED <<replyVars, backendVars, thermalVars, task, tpc, acked>>

(* unload and stop, the section under the lock: refuse while a task is     *)
(* active, else take the backend away.                                     *)
TakeBackend(r) ==
  /\ Read(r, "unload") \/ Read(r, "stop")
  /\ \/ /\ task # None
        /\ Answer(r, Error)
        /\ UNCHANGED <<loopVars, backend, local>>
     \/ /\ task = None
        /\ local' = [local EXCEPT ![r] = backend]
        /\ backend' = None
        /\ loop' = "release" /\ cur' = r
        /\ UNCHANGED replyVars
  /\ UNCHANGED <<backendVars, thermalVars, task, tpc, acked>>

(* Mutant: unload sets runtime.stopping too. *)
Release_AlwaysEnds(r) ==
  /\ loop = "release" /\ cur = r
  /\ \/ /\ local[r] = None
        /\ Answer(r, Ok)
        /\ UNCHANGED backendVars
     \/ /\ local[r] # None
        /\ BackendUnload(local[r])
        /\ \E raised \in UnloadRaises : Answer(r, IF raised THEN Error ELSE Ok)
  /\ loop' = "exited"
  /\ cur' = None
  /\ UNCHANGED <<thermalVars, slotVars, op, local, tpc, acked>>

(* unload and stop, after the lock: release what was taken and reply; stop *)
(* ends the loop even when the release raised.                             *)
Release(r) ==
  /\ loop = "release" /\ cur = r
  /\ \/ /\ local[r] = None
        /\ Answer(r, Ok)
        /\ UNCHANGED backendVars
     \/ /\ local[r] # None
        /\ BackendUnload(local[r])
        /\ \E raised \in UnloadRaises : Answer(r, IF raised THEN Error ELSE Ok)
  /\ loop' = IF op[r] = "stop" THEN "exited" ELSE "read"
  /\ cur' = None
  /\ UNCHANGED <<thermalVars, slotVars, op, local, tpc, acked>>

(* stdin is closed: the for loop of serve ends. *)
EndOfInput ==
  /\ loop = "read"
  /\ loop' = "exited"
  /\ UNCHANGED <<backendVars, thermalVars, cur, slotVars, op, local, tpc, replyVars, acked>>

(* serve has returned; the interpreter waits for the task threads, which   *)
(* are not daemons.                                                        *)
ProcessExit ==
  /\ loop = "exited"
  /\ \A r \in Requests : tpc[r] \in {"idle", "done"}
  /\ proc' = "ended"
  /\ UNCHANGED <<backendVars, mon, hot, loopVars, slotVars, op, local, tpc, replyVars, acked>>

-----------------------------------------------------------------------------
(* The task thread of a load: load_model.                                  *)

(* create_backend, and for a real backend the admission checks and the     *)
(* monitor.                                                                *)
Admit(r) ==
  /\ local' = [local EXCEPT ![r] = r]
  /\ \/ /\ Kind = "mock"
        /\ Goto(r, "admit", "loading")
        /\ UNCHANGED <<mon, outcome>>
     \/ /\ Kind # "mock"
        /\ \E m \in Memory \cup {NoReading}, t \in Temps \cup {NoReading} :
             IF Headroom(m) /\ SafeStart(t)
               THEN Goto(r, "admit", "loading") /\ StartMonitor(r) /\ UNCHANGED outcome
               ELSE Fail(r, "admit")
  /\ UNCHANGED <<backendVars, hot, proc, loopVars, slotVars, op, answered, acked>>

(* backend.load returns, or raises and takes its object, not yet           *)
(* published, and what the object holds with it (see LoadMayRaise).        *)
LoadModel(r) ==
  /\ \/ /\ Goto(r, "loading", "check")
        /\ BackendLoad(local[r])
        /\ UNCHANGED <<mon, outcome>>
     \/ /\ LoadMayRaise
        /\ Fail(r, "loading")
        /\ UNCHANGED backendVars
  /\ UNCHANGED <<hot, proc, loopVars, slotVars, op, local, answered, acked>>

(* Mutant: the load fails without unloading. *)
CheckHeat_KeepsModel(r) ==
  /\ \/ hot[r] /\ Fail(r, "check")
     \/ ~hot[r] /\ Goto(r, "check", "publish") /\ UNCHANGED <<mon, outcome>>
  /\ UNCHANGED <<backendVars, hot, proc, loopVars, slotVars, op, local, answered, acked>>

(* A load the monitor cancelled is unloaded again and fails. *)
CheckHeat(r) ==
  /\ \/ /\ hot[r]
        /\ Fail(r, "check")
        /\ BackendUnload(local[r])
     \/ /\ ~hot[r]
        /\ Goto(r, "check", "publish")
        /\ UNCHANGED <<backendVars, mon, outcome>>
  /\ UNCHANGED <<hot, proc, loopVars, slotVars, op, local, answered, acked>>

(* self.backend and self.model are set under the lock. *)
Publish(r) ==
  /\ Goto(r, "publish", "seal")
  /\ backend' = local[r]
  /\ UNCHANGED <<backendVars, thermalVars, loopVars, task, op, local, replyVars, acked>>

(* The reply takes monitor.stop()'s snapshot.  memory_sample, which comes  *)
(* first, catches what the files it reads may raise (metrics.py).          *)
Seal(r) ==
  /\ Goto(r, "seal", "finish")
  /\ StopMonitor(r)
  /\ outcome' = [outcome EXCEPT ![r] = [Ok EXCEPT !.hot = hot[r]]]
  /\ UNCHANGED <<backendVars, hot, proc, loopVars, slotVars, op, local, answered, acked>>

-----------------------------------------------------------------------------
(* The task thread of a run: run_generation.                               *)

(* monitor.start() *)
StartRun(r) ==
  /\ Goto(r, "start", "enter")
  /\ StartMonitor(r)
  /\ UNCHANGED <<backendVars, hot, proc, loopVars, slotVars, op, local, replyVars, acked>>

(* backend.generate is entered: it raises without a model, else it clears  *)
(* the event.                                                              *)
Generate(r) ==
  /\ \/ /\ Goto(r, "enter", "generating")
        /\ EnterGenerate(local[r])
        /\ UNCHANGED <<mon, outcome>>
     \/ /\ Fail(r, "enter")
        /\ ~loaded[local[r]]
        /\ UNCHANGED backendVars
  /\ UNCHANGED <<hot, proc, loopVars, slotVars, op, local, answered, acked>>

(* backend.generate returns or raises. *)
Generated(r) ==
  /\ \/ /\ Goto(r, "generating", "snapshot")
        /\ \E c \in CancelledFlag(local[r]) :
             outcome' = [outcome EXCEPT ![r] = [Ok EXCEPT !.cancelled = c]]
        /\ UNCHANGED mon
     \/ Fail(r, "generating")
  /\ UNCHANGED <<backendVars, hot, proc, loopVars, slotVars, op, local, answered, acked>>

(* Mutant: a run that was cancelled already is not unloaded again. *)
Snapshot_UnlessCancelled(r) ==
  /\ Goto(r, "snapshot", IF hot[r] /\ ~outcome[r].cancelled THEN "drop" ELSE "finish")
  /\ StopMonitor(r)
  /\ outcome' = [outcome EXCEPT ![r].hot = hot[r]]
  /\ UNCHANGED <<backendVars, hot, proc, loopVars, slotVars, op, local, answered, acked>>

(* Mutant: the model is not unloaded after a thermal cancellation. *)
Snapshot_NoUnload(r) ==
  /\ Goto(r, "snapshot", "finish")
  /\ StopMonitor(r)
  /\ outcome' = [outcome EXCEPT ![r].hot = hot[r]]
  /\ UNCHANGED <<backendVars, hot, proc, loopVars, slotVars, op, local, answered, acked>>

(* result["thermal"] = monitor.stop().to_dict(): the snapshot decides      *)
(* whether the model is unloaded.                                          *)
Snapshot(r) ==
  /\ Goto(r, "snapshot", IF hot[r] THEN "drop" ELSE "finish")
  /\ StopMonitor(r)
  /\ outcome' = [outcome EXCEPT ![r].hot = hot[r]]
  /\ UNCHANGED <<backendVars, hot, proc, loopVars, slotVars, op, local, answered, acked>>

(* The thermal unload. *)
Drop(r) ==
  /\ tpc[r] = "drop"
  /\ BackendUnload(local[r])
  /\ \E raised \in UnloadRaises :
       IF raised THEN Fail(r, "drop")
                 ELSE Goto(r, "drop", "clear") /\ UNCHANGED <<mon, outcome>>
  /\ UNCHANGED <<hot, proc, loopVars, slotVars, op, local, answered, acked>>

(* Mutant: the unloaded backend stays published. *)
Clear_KeepsSlot(r) ==
  /\ Goto(r, "clear", "finish")
  /\ UNCHANGED <<backendVars, thermalVars, loopVars, slotVars, op, local, replyVars, acked>>

(* Mutant: self.backend is assigned the comparison instead of None. *)
Clear_Assigns(r) ==
  /\ Goto(r, "clear", "finish")
  /\ backend' = (backend = local[r])
  /\ UNCHANGED <<backendVars, thermalVars, loopVars, task, op, local, replyVars, acked>>

(* ... and, under the lock, the published backend if it is this one. *)
Clear(r) ==
  /\ Goto(r, "clear", "finish")
  /\ backend' = IF backend = local[r] THEN None ELSE backend
  /\ UNCHANGED <<backendVars, thermalVars, loopVars, task, op, local, replyVars, acked>>

-----------------------------------------------------------------------------
(* The end of every task thread: target() in _run_task.                    *)

(* Mutant: the reply is sent before self.task is cleared. *)
Finish_RepliesFirst(r) ==
  /\ Goto(r, "finish", "reply")
  /\ answered' = answered \cup {r}
  /\ UNCHANGED <<backendVars, thermalVars, loopVars, slotVars, op, local, outcome, acked>>

(* _task_finished *)
Finish(r) ==
  /\ Goto(r, "finish", "reply")
  /\ task' = None
  /\ UNCHANGED <<backendVars, thermalVars, loopVars, backend, op, local, replyVars, acked>>

(* Mutant: a reply nobody reads any more blocks the thread. *)
Reply_Blocks(r) ==
  /\ loop # "exited"
  /\ Goto(r, "reply", "done")
  /\ answered' = answered \cup {r}
  /\ UNCHANGED <<backendVars, thermalVars, loopVars, slotVars, op, local, outcome, acked>>

(* The reply of the task.  encode refuses a run's result above the cap;    *)
(* raised in the else branch of target(), that ends the thread unanswered. *)
Reply(r) ==
  /\ Goto(r, "reply", "done")
  /\ \/ answered' = answered \cup {r}
     \/ /\ "oversize_result" \in Faults
        /\ op[r] = "run" /\ outcome[r].status = "ok"
        /\ UNCHANGED answered
  /\ UNCHANGED <<backendVars, thermalVars, loopVars, slotVars, op, local, outcome, acked>>

(* The monitor thread of r's task takes a sample. *)
MonitorSample(r) ==
  /\ \E t \in Temps \cup {NoReading} : Sample(r, local[r], t)
  /\ UNCHANGED <<loopVars, slotVars, op, local, tpc, replyVars, acked>>

-----------------------------------------------------------------------------
(* Lines the controller may send. *)
Receive(r) ==
  Health(r) \/ Malformed(r) \/ LoadCheck(r) \/ RunCheck(r) \/ Cancel(r) \/ TakeBackend(r)

(* Steps the command loop takes once it has read a line. *)
LoopStep(r) == LoadStart(r) \/ RunStart(r) \/ Release(r)

(* Steps of a task thread other than the return of a generation. *)
TaskStep(r) ==
  \/ Admit(r) \/ LoadModel(r) \/ CheckHeat(r) \/ Publish(r) \/ Seal(r)
  \/ StartRun(r) \/ Generate(r) \/ Snapshot(r) \/ Drop(r) \/ Clear(r)
  \/ Finish(r) \/ Reply(r)

Step ==
  \/ \E r \in Requests : Receive(r) \/ LoopStep(r) \/ TaskStep(r) \/ Generated(r) \/ MonitorSample(r)
  \/ EndOfInput
  \/ ProcessExit

(* A process that has exited takes no step. *)
Exited == proc # "up" /\ UNCHANGED vars

Next == (proc = "up" /\ Step) \/ Exited

Spec == Init /\ [][Next]_vars

(* Threads run and the backend calls other than generate return.  No       *)
(* client is obliged to send, and no sensor to be read.                    *)
Scheduling ==
  \A r \in Requests : WF_vars(proc = "up" /\ LoopStep(r)) /\ WF_vars(proc = "up" /\ TaskStep(r))

(* No generation ends by itself, but a stopping criterion looks at the     *)
(* event on every token; the process exits when its threads have ended.    *)
Fairness ==
  /\ Scheduling
  /\ \A r \in Requests :
       WF_vars(proc = "up" /\ local[r] # None /\ event[local[r]] /\ Generated(r))
  /\ WF_vars(proc = "up" /\ ProcessExit)

FairSpec == Spec /\ Fairness

(* Generations do end by themselves: max_output_tokens bounds them.        *)
GenerationsEnd == \A r \in Requests : WF_vars(proc = "up" /\ Generated(r))

-----------------------------------------------------------------------------
(* Safety.                                                                 *)

(* self.task is exactly the one load or run whose function is running:     *)
(* "Only one task may load or generate at a time" (docs/architecture.md).  *)
OneTaskAtATime == \A r \in Requests : Active(r) <=> task = r

(* Two backend objects never hold a model at once: "One model is allowed   *)
(* per worker" (docs/safety.md).  The check that protects this (handle,    *)
(* load) and the publication it guards are in different lock sections.     *)
OneModelLoaded == \A a, b \in Requests : loaded[a] /\ loaded[b] => a = b

(* The model a generation is using stays loaded and stays the published    *)
(* one until that task itself drops it, whatever unload, stop or load      *)
(* requests arrive meanwhile; run captured it in an earlier lock section.  *)
ModelInUseStays ==
  \A r \in Requests :
    /\ tpc[r] \in {"generating", "snapshot", "drop"} => loaded[local[r]]
    /\ tpc[r] \in {"generating", "snapshot", "drop", "clear"} => backend = local[r]

(* Between tasks, outside the release window of unload and stop, the only  *)
(* model in memory is the published one: no failed, cancelled or           *)
(* overwritten load leaves weights behind that no request can release.     *)
NoOrphanModel ==
  task = None /\ loop # "release" => \A b \in Requests : loaded[b] => backend = b

(* Between tasks the published backend really holds a model, so a run that *)
(* passes the loaded check of handle is not refused by generate.           *)
PublishedIsLoaded == task = None /\ backend # None => loaded[backend]

(* A reply is written when nothing of the request is left: it is neither   *)
(* the task nor the line being handled, and no monitor of it samples on to *)
(* cancel a later run (_run_task clears self.task before it replies).      *)
AnsweredIsOver ==
  \A r \in answered : task # r /\ cur # r /\ mon[r] # "sampling"

(* A run reports `cancelled' only if its own monitor saw heat or a cancel  *)
(* was acknowledged while it was the task: an event left over from an      *)
(* earlier cancel, unload or run never reaches it.                         *)
CancelHasCause ==
  \A r \in Requests : op[r] = "run" /\ outcome[r].cancelled => hot[r] \/ r \in acked

(* A cancellation that reached a generation stays until that generation    *)
(* ends: no request handled meanwhile clears the event it looks at, as the *)
(* generate of another run on the same object would.                       *)
CancelIsKept ==
  [][\A r \in Requests :
       tpc[r] = "generating" /\ tpc'[r] = "generating" /\ event[local[r]]
         => event'[local[r]]]_vars

(* A run whose reply carries a thermal cancellation has released its model *)
(* before the reply is due.                                                *)
HotReplyIsUnloaded ==
  \A r \in Requests :
    op[r] = "run" /\ outcome[r].hot /\ tpc[r] \in {"finish", "reply", "done"}
      => ~loaded[local[r]]

(* Every real load from the admission on, and every generation, runs under *)
(* a sampling monitor, and no monitor samples outside its own task.        *)
MonitorCoversTask ==
  \A r \in Requests :
    mon[r] = "sampling" <=>
      \/ tpc[r] \in {"enter", "generating", "snapshot"}
      \/ tpc[r] \in {"loading", "check", "publish", "seal"} /\ Kind # "mock"

-----------------------------------------------------------------------------
(* What the documents say of heat, as the code is read by a client; the    *)
(* run that checks it finds it violated.                                   *)

(* docs/safety.md, above 85 degrees: "automatically unload when the task   *)
(* returns".  A load decides before its last sample, and a generation that *)
(* raises skips the unload.                                                *)
HotTaskIsUnloaded ==
  \A r \in answered :
    op[r] \in {"load", "run"} /\ hot[r] => local[r] = None \/ ~loaded[local[r]]

-----------------------------------------------------------------------------
(* Liveness.                                                               *)

(* Every line the loop reads is answered, unless the process ends first.   *)
EveryRequestAnswered ==
  GenerationsEnd =>
    \A r \in Requests : op[r] # "unread" ~> r \in answered \/ proc # "up"

(* Once the loop has ended the process ends, and its memory is released:   *)
(* a task in progress delays the exit but cannot prevent it.               *)
EndOfInputEndsProcess == GenerationsEnd => (loop = "exited" ~> proc # "up")

(* Even a generation that would never end by itself is stopped by heat its *)
(* monitor sees while it runs, and its model is unloaded unless it raised. *)
HeatEndsGeneration ==
  \A r \in Requests :
    tpc[r] = "generating" /\ hot[r] /\ event[local[r]] ~>
      \/ local[r] # None /\ ~loaded[local[r]]
      \/ outcome[r].status = "error"
      \/ proc # "up"
=============================================================================
