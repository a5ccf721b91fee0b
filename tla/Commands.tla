------------------------------ MODULE Commands ------------------------------
(***************************************************************************)
(* `agentworldlab run' and `run-trajectory' (command_run and               *)
(* command_trajectory, src/agentworldlab/cli.py) over the lifecycle of     *)
(* their WorkerClient (controller.py), with the pid file that all commands *)
(* of a records directory share.                                           *)
(*                                                                         *)
(* A controller is one invocation of a command; it starts at most one      *)
(* worker, so a worker is named by its controller.  A request is a step    *)
(* that writes the line and a step that ends the wait; what decides its    *)
(* outcome inside the client is module Client, and what the worker does is *)
(* module Worker.  Here a worker is its life, its job and its model.       *)
(***************************************************************************)
EXTENDS Naturals, Sequences

CONSTANTS Controllers,   \* invocations of a command
          None,          \* no controller
          Turns,         \* bound: actions of a trajectory (5 to 10 in the code)
          Faults         \* what the environment may do, see below

ASSUME ControllersAssumption == None \notin Controllers /\ "garbled" \notin Controllers
ASSUME TurnsAssumption == Turns \in Nat \ {0}

(* concurrent: a command begins before an earlier one is over;             *)
(* kill: a controller is killed between any two of its steps;              *)
(* disk: a file of the records directory cannot be written, say on a full  *)
(* disk;                                                                   *)
(* crash: a worker goes down by itself, os._exit(90) included;             *)
(* stuck: a worker survives SIGKILL for longer than stop_timeout_seconds.  *)
ASSUME FaultsAssumption == Faults \subseteq {"concurrent", "kill", "disk", "crash", "stuck"}

VARIABLES pidfile,      \* what .worker.pid says: a controller, "garbled" or None
          pc,           \* pc[c]: where the command is
          phase,        \* phase[c]: in its try, an except or the finally clause
          kind,         \* kind[c]: "run" or "trajectory"
          turn,         \* turn[c]: the action of the trajectory
          status,       \* status[c]: record["outcome"]["completion_status"]
          seen,         \* seen[c]: what _check_stale_process read
          process,      \* process[c]: client.process is not None
          reader,       \* reader[c]: the reader thread was started
          broken,       \* broken[c]: stdin holds a line the worker never took
          wants,        \* wants[c]: the operation it waits for
          mail,         \* mail[c]: the reply in its queue
          life,         \* life[c]: its worker
          inbox,        \* inbox[c]: lines the worker has not read
          job,          \* job[c]: the worker's task
          held,         \* held[c]: the worker holds a model
          mishaps       \* mishaps[c]: what befell the command so far (history)

programVars == <<pc, phase, kind, turn, status>>
clientVars == <<seen, process, reader, broken>>
callVars == <<wants, mail>>
workerVars == <<life, inbox, job, held>>
vars == <<pidfile, programVars, clientVars, callVars, workerVars, mishaps>>

Requests == {"load", "run", "cancel", "health", "unload", "ask_stop"}
Waits == {"exit_wait", "term_wait", "kill_wait"}
Over == {"ended", "raised", "gone"}
Points == {"idle", "read", "verify", "discard", "spawn", "open", "write", "finally", "stop",
           "terminate", "close", "unlink", "record"} \cup Requests \cup Waits \cup Over
Replies == {"ok", "error", "hot", "cancelled", "busy"}

(* heat: a turn with another one to come unloaded the model; crash: the    *)
(* worker went down by itself; interrupt: Ctrl+C was pressed, left: and    *)
(* ended the worker's command loop, late: and the try clause was over;     *)
(* stuck: terminate() raised TimeoutExpired; disk: write_record raised.    *)
Mishaps == {"heat", "crash", "interrupt", "left", "late", "stuck", "disk"}

TypeOK ==
  /\ pidfile \in Controllers \cup {"garbled", None}
  /\ pc \in [Controllers -> Points]
  /\ phase \in [Controllers -> {"try", "except", "finally"}]
  /\ kind \in [Controllers -> {"run", "trajectory"}]
  /\ turn \in [Controllers -> 1 .. Turns]
  /\ status \in [Controllers -> {"running", "completed", "cancelled", "timeout", "failed"}]
  /\ seen \in [Controllers -> Controllers \cup {None}]
  /\ process \in [Controllers -> BOOLEAN]
  /\ reader \in [Controllers -> BOOLEAN]
  /\ broken \in [Controllers -> BOOLEAN]
  /\ wants \in [Controllers -> Requests \cup {"none"}]
  /\ mail \in [Controllers -> Replies \cup {"none"}]
  /\ life \in [Controllers -> {"unborn", "up", "leaving", "killed", "closing", "dead"}]
  /\ inbox \in [Controllers -> Seq(Requests)]
  /\ job \in [Controllers -> {"none", "load", "run"}]
  /\ held \in [Controllers -> BOOLEAN]
  /\ mishaps \in [Controllers -> SUBSET Mishaps]

Init ==
  /\ pidfile = None
  /\ pc = [c \in Controllers |-> "idle"]
  /\ phase = [c \in Controllers |-> "try"]
  /\ kind = [c \in Controllers |-> "run"]
  /\ turn = [c \in Controllers |-> 1]
  /\ status = [c \in Controllers |-> "running"]
  /\ seen = [c \in Controllers |-> None]
  /\ process = [c \in Controllers |-> FALSE]
  /\ reader = [c \in Controllers |-> FALSE]
  /\ broken = [c \in Controllers |-> FALSE]
  /\ wants = [c \in Controllers |-> "none"]
  /\ mail = [c \in Controllers |-> "none"]
  /\ life = [c \in Controllers |-> "unborn"]
  /\ inbox = [c \in Controllers |-> <<>>]
  /\ job = [c \in Controllers |-> "none"]
  /\ held = [c \in Controllers |-> FALSE]
  /\ mishaps = [c \in Controllers |-> {}]

(* A process that can be seen in /proc with its command line; a zombie has *)
(* none.                                                                   *)
Alive(c) == life[c] \in {"up", "leaving", "killed"}

(* The controller's end of the worker's stdin is gone. *)
Eof(c) == pc[c] = "gone"

-----------------------------------------------------------------------------
(* The worker process.                                                     *)

(* A reply reaches the queue of the request it answers; one that nobody    *)
(* waits for any more is dropped by the reader.                            *)
Reply(c, request, reply) ==
  mail' = [mail EXCEPT ![c] = IF wants[c] = request /\ reader[c] THEN reply ELSE @]

(* The command loop answers the line it read and leaves after a stop; when *)
(* the other end of stdout is gone the answer raises out of serve.         *)
Respond(c, request, reply, stopping) ==
  /\ Reply(c, request, reply)
  /\ life' = [life EXCEPT ![c] = IF Eof(c) \/ stopping THEN "leaving" ELSE @]

(* Mutant: run does not ask whether a model is loaded. *)
MayStart_AnyModel(c, request) == job[c] = "none" /\ (request = "load" => ~held[c])

(* load needs an empty worker, run a loaded one, both an idle one. *)
MayStart(c, request) == job[c] = "none" /\ (held[c] <=> request = "run")

(* The command loop handles one line.  encode measures a message without   *)
(* its newline, decode with it; the answer to a line that decode refuses   *)
(* carries the id `invalid', which no request has.                         *)
Serve(c) ==
  /\ life[c] = "up" /\ inbox[c] # <<>>
  /\ inbox' = [inbox EXCEPT ![c] = Tail(@)]
  /\ LET request == Head(inbox[c])
     IN \/ /\ request \in {"load", "run"} /\ MayStart(c, request)
           /\ job' = [job EXCEPT ![c] = request]
           /\ UNCHANGED <<mail, life, held>>
        \/ /\ request \in {"load", "run"} /\ ~MayStart(c, request)
           /\ Respond(c, request, "error", FALSE)
           /\ UNCHANGED <<job, held>>
        \/ /\ request = "run"   \* its prompt makes a line that decode refuses
           /\ Respond(c, "invalid", "error", FALSE)
           /\ UNCHANGED <<job, held>>
        \/ /\ request = "cancel"
           /\ Respond(c, request, "ok", FALSE)
           /\ UNCHANGED <<job, held>>
        \/ /\ request = "health"
           /\ Respond(c, request, IF job[c] = "none" THEN "ok" ELSE "busy", FALSE)
           /\ UNCHANGED <<job, held>>
        \/ /\ request \in {"unload", "ask_stop"} /\ job[c] # "none"
           /\ Respond(c, request, "error", FALSE)
           /\ UNCHANGED <<job, held>>
        \/ /\ request \in {"unload", "ask_stop"} /\ job[c] = "none"
           /\ \E reply \in {"ok"} \cup (IF held[c] THEN {"error"} ELSE {}) :
                Respond(c, request, reply, request = "ask_stop")
           /\ held' = [held EXCEPT ![c] = FALSE]
           /\ UNCHANGED job
  /\ UNCHANGED <<pidfile, programVars, clientVars, wants, mishaps>>

(* The task thread ends.  A heated run unloads, whether its generation     *)
(* noticed ("cancelled") or not ("hot"), and fails when that raises.       *)
EndTask(c) ==
  /\ life[c] \in {"up", "leaving"} /\ job[c] # "none"
  /\ job' = [job EXCEPT ![c] = "none"]
  /\ \E reply \in {"ok", "error"} \cup (IF job[c] = "run" THEN {"hot", "cancelled"} ELSE {}) :
       /\ Reply(c, job[c], reply)
       /\ \E kept \in {held[c], FALSE} :
            held' = [held EXCEPT ![c] = CASE reply = "ok" -> TRUE
                                         [] reply = "hot" -> FALSE
                                         [] OTHER -> kept]
  /\ UNCHANGED <<pidfile, programVars, clientVars, wants, life, inbox, mishaps>>

(* Mutant: serve does not return before its model is unloaded. *)
Leave_WhenUnloaded(c) ==
  /\ life[c] = "up" /\ Eof(c) /\ inbox[c] = <<>> /\ ~held[c]
  /\ life' = [life EXCEPT ![c] = "leaving"]
  /\ UNCHANGED <<pidfile, programVars, clientVars, callVars, inbox, job, held, mishaps>>

(* Lines are read to the end of stdin, then serve returns. *)
Leave(c) ==
  /\ life[c] = "up" /\ Eof(c) /\ inbox[c] = <<>>
  /\ life' = [life EXCEPT ![c] = "leaving"]
  /\ UNCHANGED <<pidfile, programVars, clientVars, callVars, inbox, job, held, mishaps>>

(* The process goes down, and its memory and pipes with it: serve has      *)
(* returned and no task is left; a crash or os._exit(90); a signal.        *)
GoDown(c, how) ==
  /\ \/ how = "clean" /\ life[c] = "leaving" /\ job[c] = "none"
     \/ how = "crash" /\ "crash" \in Faults /\ life[c] \in {"up", "leaving"}
     \/ how = "killed" /\ life[c] = "killed"
  /\ life' = [life EXCEPT ![c] = "closing"]
  /\ mishaps' = [mishaps EXCEPT ![c] = IF how = "crash" /\ pc[c] # "gone"
                                          THEN @ \cup {"crash"} ELSE @]
  /\ inbox' = [inbox EXCEPT ![c] = <<>>]
  /\ job' = [job EXCEPT ![c] = "none"]
  /\ held' = [held EXCEPT ![c] = FALSE]
  /\ UNCHANGED <<pidfile, programVars, clientVars, callVars>>

(* ... and can be waited for. *)
BecomeWaitable(c) ==
  /\ life[c] = "closing"
  /\ life' = [life EXCEPT ![c] = "dead"]
  /\ UNCHANGED <<pidfile, programVars, clientVars, callVars, inbox, job, held, mishaps>>

-----------------------------------------------------------------------------
(* Helpers of the command.                                                 *)

Goto(c, point) == pc' = [pc EXCEPT ![c] = point]

(* The try clause is over with this completion status. *)
Conclude(c, outcome) ==
  /\ Goto(c, "finally")
  /\ phase' = [phase EXCEPT ![c] = "finally"]
  /\ status' = [status EXCEPT ![c] = outcome]

(* A timeout or Ctrl+C: the except clause tries to cancel. *)
Recover(c, outcome) ==
  /\ Goto(c, "cancel")
  /\ phase' = [phase EXCEPT ![c] = "except"]
  /\ status' = [status EXCEPT ![c] = outcome]

(* An exception leaves the except clause, which the finally clause         *)
(* survives, or the finally clause, which nothing does.                    *)
Raise(c) ==
  /\ Goto(c, IF phase[c] = "finally" THEN "raised" ELSE "finally")
  /\ phase' = [phase EXCEPT ![c] = "finally"]
  /\ UNCHANGED status

Continue(c, point) == Goto(c, point) /\ UNCHANGED <<phase, status>>

(* Outcomes of a request that are AgentWorldLabErrors. *)
Errors == {"error", "crash", "timeout", "not_running"}

(* Mutant: the finally clause expects only timeouts of the unload. *)
AfterUnload_TimeoutOnly(c, result) ==
  \/ result = "ok" /\ Continue(c, "stop")
  \/ result = "timeout" /\ Continue(c, "terminate")
  \/ result \notin {"ok", "timeout"} /\ Raise(c)

(* What each request is followed by. *)
AfterLoad(c, result) ==
  \/ result = "ok" /\ Continue(c, "run")
  \/ result = "timeout" /\ Recover(c, "timeout")
  \/ result \in {"error", "crash", "not_running", "os_error"} /\ Conclude(c, "failed")

(* Mutant: one turn too many. *)
LastTurn_TooLate(c) == kind[c] = "run" \/ turn[c] > Turns

(* No further turn follows; `run' has one. *)
LastTurn(c) == kind[c] = "run" \/ turn[c] = Turns

AfterRun(c, result) ==
  \/ /\ result \in {"ok", "hot"}
     /\ IF LastTurn(c) THEN Conclude(c, "completed") ELSE Continue(c, "run")
  \/ result = "cancelled" /\ Conclude(c, IF kind[c] = "run" THEN "cancelled" ELSE "failed")
  \/ result = "timeout" /\ Recover(c, "timeout")
  \/ result \in {"error", "crash", "not_running", "os_error"} /\ Conclude(c, "failed")

(* client.cancel(), and then _wait_until_idle. *)
AfterCancel(c, result) ==
  \/ result = "ok" /\ Continue(c, "health")
  \/ result \in Errors /\ Continue(c, "terminate")
  \/ result = "os_error" /\ Raise(c)

AfterHealth(c, result) ==
  \/ result = "ok" /\ Conclude(c, status[c])
  \/ result = "busy" /\ Continue(c, "health")
  \/ result \in Errors /\ Continue(c, "terminate")
  \/ result = "os_error" /\ Raise(c)

AfterUnload(c, result) ==
  \/ result = "ok" /\ Continue(c, "stop")
  \/ result \in Errors /\ Continue(c, "terminate")
  \/ result = "os_error" /\ Raise(c)

(* In stop(); a WorkerRemoteError is not caught. *)
AfterStop(c, result) ==
  \/ result = "ok" /\ Continue(c, "exit_wait")
  \/ result \in {"timeout", "not_running"} /\ Continue(c, "terminate")
  \/ result \in {"error", "crash", "os_error"} /\ Raise(c)

(* request() returns or raises. *)
Return(c, result) ==
  /\ CASE pc[c] = "load" -> AfterLoad(c, result)
       [] pc[c] = "run" -> AfterRun(c, result)
       [] pc[c] = "cancel" -> AfterCancel(c, result)
       [] pc[c] = "health" -> AfterHealth(c, result)
       [] pc[c] = "unload" -> AfterUnload(c, result)
       [] pc[c] = "ask_stop" -> AfterStop(c, result)
  /\ turn' = [turn EXCEPT ![c] = IF pc[c] = "run" /\ result \in {"ok", "hot"} /\ ~LastTurn(c)
                                   THEN @ + 1 ELSE @]
  /\ mishaps' = [mishaps EXCEPT ![c] = IF pc[c] = "run" /\ result = "hot" /\ ~LastTurn(c)
                                         THEN @ \cup {"heat"} ELSE @]
  /\ UNCHANGED kind

-----------------------------------------------------------------------------
(* start()                                                                 *)

(* The command is invoked; by default one at a time. *)
Begin(c) ==
  /\ pc[c] = "idle"
  /\ "concurrent" \in Faults \/ \A d \in Controllers : pc[d] \in {"idle", "gone"}
  /\ Goto(c, "read")
  /\ \E command \in {"run", "trajectory"} : kind' = [kind EXCEPT ![c] = command]
  /\ UNCHANGED <<pidfile, phase, turn, status, clientVars, callVars, workerVars, mishaps>>

(* _check_stale_process reads the pid file. *)
ReadPidfile(c) ==
  /\ pc[c] = "read"
  /\ seen' = [seen EXCEPT ![c] = IF pidfile \in Controllers THEN pidfile ELSE None]
  /\ Goto(c, IF pidfile \in Controllers THEN "verify" ELSE "discard")
  /\ UNCHANGED <<pidfile, phase, kind, turn, status, process, reader, broken, callVars,
                 workerVars, mishaps>>

(* Mutant: a worker whose controller is gone counts as stale. *)
Verify_Orphan(c) ==
  /\ pc[c] = "verify"
  /\ IF Alive(seen[c]) /\ ~Eof(seen[c]) THEN Conclude(c, "failed") ELSE Continue(c, "discard")
  /\ seen' = [seen EXCEPT ![c] = None]
  /\ UNCHANGED <<pidfile, kind, turn, process, reader, broken, callVars, workerVars, mishaps>>

(* Start ticks and command line of that process: a live worker refuses the *)
(* start with a LifecycleError.                                            *)
Verify(c) ==
  /\ pc[c] = "verify"
  /\ IF Alive(seen[c]) THEN Conclude(c, "failed") ELSE Continue(c, "discard")
  /\ seen' = [seen EXCEPT ![c] = None]
  /\ UNCHANGED <<pidfile, kind, turn, process, reader, broken, callVars, workerVars, mishaps>>

(* A stale, unreadable or missing file is unlinked. *)
Discard(c) ==
  /\ pc[c] = "discard"
  /\ pidfile' = None
  /\ Goto(c, "spawn")
  /\ UNCHANGED <<phase, kind, turn, status, clientVars, callVars, workerVars, mishaps>>

(* Popen returns a process or raises. *)
Spawn(c) ==
  /\ pc[c] = "spawn"
  /\ \/ /\ Continue(c, "open")
        /\ process' = [process EXCEPT ![c] = TRUE]
        /\ life' = [life EXCEPT ![c] = "up"]
     \/ Conclude(c, "failed") /\ UNCHANGED <<process, life>>
  /\ UNCHANGED <<pidfile, kind, turn, seen, reader, broken, callVars, inbox, job,
                 held, mishaps>>

(* write_text truncates the file, or cannot open it; ... *)
Open(c) ==
  /\ pc[c] = "open"
  /\ \/ Continue(c, "write") /\ pidfile' = "garbled"
     \/ "disk" \in Faults /\ Conclude(c, "failed") /\ UNCHANGED pidfile
  /\ UNCHANGED <<kind, turn, clientVars, callVars, workerVars, mishaps>>

(* ... it fills the file, or cannot; then the reader threads start. *)
Write(c) ==
  /\ pc[c] = "write"
  /\ \/ /\ Continue(c, "load")
        /\ pidfile' = c
        /\ reader' = [reader EXCEPT ![c] = TRUE]
     \/ /\ "disk" \in Faults
        /\ Conclude(c, "failed")
        /\ UNCHANGED <<pidfile, reader>>
  /\ UNCHANGED <<kind, turn, seen, process, broken, callVars, workerVars, mishaps>>

-----------------------------------------------------------------------------
(* request()                                                               *)

(* The process is polled and the line written; the process may go down in  *)
(* between.                                                                *)
Send(c) ==
  /\ pc[c] \in Requests /\ wants[c] = "none"
  /\ \/ /\ Alive(c)
        /\ inbox' = [inbox EXCEPT ![c] = Append(@, pc[c])]
        /\ wants' = [wants EXCEPT ![c] = pc[c]]
        /\ UNCHANGED <<programVars, broken, mishaps>>
     \/ /\ life[c] = "dead"
        /\ Return(c, "not_running")
        /\ UNCHANGED <<inbox, wants, broken>>
     \/ /\ life[c] \in {"closing", "dead"}
        /\ Return(c, "os_error")
        /\ broken' = [broken EXCEPT ![c] = TRUE]
        /\ UNCHANGED <<inbox, wants>>
     \/ /\ pc[c] = "run"   \* its prompt makes a line that encode refuses
        /\ Return(c, "error")
        /\ UNCHANGED <<inbox, wants, broken>>
  /\ UNCHANGED <<pidfile, seen, process, reader, mail, life, job, held>>

(* The wait ends with this result. *)
EndWait(c, result) ==
  /\ wants[c] # "none"
  /\ Return(c, result)
  /\ wants' = [wants EXCEPT ![c] = "none"]
  /\ mail' = [mail EXCEPT ![c] = "none"]
  /\ UNCHANGED <<pidfile, clientVars, workerVars>>

Receive(c) == mail[c] # "none" /\ EndWait(c, mail[c])

(* The reader saw the end of stdout. *)
SeeCrash(c) ==
  mail[c] = "none" /\ reader[c] /\ life[c] \in {"closing", "dead"} /\ EndWait(c, "crash")

(* Mutant: a reply that is not there is waited for while the worker lives. *)
Timeout_WhenDead(c) == mail[c] = "none" /\ ~Alive(c) /\ EndWait(c, "timeout")

Timeout(c) == mail[c] = "none" /\ EndWait(c, "timeout")

(* The deadline of _wait_until_idle has passed. *)
Deadline(c) ==
  /\ pc[c] = "health" /\ wants[c] = "none"
  /\ Continue(c, "terminate")
  /\ UNCHANGED <<pidfile, kind, turn, clientVars, callVars, workerVars, mishaps>>

-----------------------------------------------------------------------------
(* The finally clause, stop() and terminate()                              *)

(* A worker that has not exited is asked to unload. *)
Finally(c) ==
  /\ pc[c] = "finally"
  /\ Continue(c, IF process[c] /\ life[c] # "dead" THEN "unload" ELSE "stop")
  /\ UNCHANGED <<pidfile, kind, turn, clientVars, callVars, workerVars, mishaps>>

(* Mutant: stop() of a client without a process cleans up all the same. *)
Stop_AlwaysCleansUp(c) ==
  /\ pc[c] = "stop"
  /\ Continue(c, IF ~process[c] \/ life[c] = "dead" THEN "close" ELSE "ask_stop")
  /\ UNCHANGED <<pidfile, kind, turn, clientVars, callVars, workerVars, mishaps>>

Stop(c) ==
  /\ pc[c] = "stop"
  /\ Continue(c, IF ~process[c] THEN "record"
                 ELSE IF life[c] = "dead" THEN "close" ELSE "ask_stop")
  /\ UNCHANGED <<pidfile, kind, turn, clientVars, callVars, workerVars, mishaps>>

(* SIGTERM, which the worker does not handle. *)
Terminate(c) ==
  /\ pc[c] = "terminate"
  /\ Continue(c, IF life[c] = "dead" THEN "close" ELSE "term_wait")
  /\ life' = [life EXCEPT ![c] = IF Alive(c) THEN "killed" ELSE @]
  /\ UNCHANGED <<pidfile, kind, turn, clientVars, callVars, inbox, job, held, mishaps>>

(* A wait for the exit at point `from' ends, or its time is over. *)
WaitExit(c, from, late) ==
  /\ pc[c] = from
  /\ Continue(c, IF life[c] = "dead" THEN "close" ELSE late)
  /\ UNCHANGED <<pidfile, kind, turn, clientVars, callVars, workerVars, mishaps>>

(* Mutant: stop() cleans up when the process does not exit in time. *)
ExitWait_GivesUp(c) == WaitExit(c, "exit_wait", "close")

ExitWait(c) == WaitExit(c, "exit_wait", "terminate")

(* Mutant: terminate() cleans up when SIGTERM has no effect in time. *)
TermWait_CleansUp(c) == WaitExit(c, "term_wait", "close")

(* Time to send SIGKILL. *)
TermWait(c) == WaitExit(c, "term_wait", "kill_wait")

KillWait(c) ==
  /\ pc[c] = "kill_wait"
  /\ \/ life[c] = "dead" /\ Continue(c, "close") /\ UNCHANGED mishaps
     \/ /\ "stuck" \in Faults /\ life[c] # "dead"
        /\ Raise(c)
        /\ mishaps' = [mishaps EXCEPT ![c] = @ \cup {"stuck"}]
  /\ UNCHANGED <<pidfile, kind, turn, clientVars, callVars, workerVars>>

(* _cleanup closes the pipes; the first close of a stdin that still holds  *)
(* a line raises.                                                          *)
Close(c) ==
  /\ pc[c] = "close"
  /\ IF broken[c] THEN Raise(c) ELSE Continue(c, "unlink")
  /\ broken' = [broken EXCEPT ![c] = FALSE]
  /\ UNCHANGED <<pidfile, kind, turn, seen, process, reader, callVars, workerVars, mishaps>>

(* ... unlinks the pid file and forgets the process; what is left of the   *)
(* finally clause finds none.                                              *)
Unlink(c) ==
  /\ pc[c] = "unlink"
  /\ pidfile' = None
  /\ process' = [process EXCEPT ![c] = FALSE]
  /\ Conclude(c, status[c])
  /\ UNCHANGED <<kind, turn, seen, reader, broken, callVars, workerVars, mishaps>>

(* write_record makes the directory and writes two files, or raises out of *)
(* the finally clause.                                                     *)
Record(c) ==
  /\ pc[c] = "record"
  /\ \/ Goto(c, "ended") /\ UNCHANGED mishaps
     \/ /\ "disk" \in Faults
        /\ Goto(c, "raised")
        /\ mishaps' = [mishaps EXCEPT ![c] = @ \cup {"disk"}]
  /\ UNCHANGED <<pidfile, phase, kind, turn, status, clientVars, callVars, workerVars>>

-----------------------------------------------------------------------------
(* KeyboardInterrupt, once, while the command waits.  Ctrl+C reaches the   *)
(* worker as well, whose command loop it ends unless a handler catches it. *)
Interrupt(c) ==
  /\ "interrupt" \notin mishaps[c]
  /\ wants[c] # "none" \/ pc[c] \in Waits \cup {"health"}
  /\ IF phase[c] = "try" THEN Recover(c, "cancelled") ELSE Raise(c)
  /\ wants' = [wants EXCEPT ![c] = "none"]
  /\ mail' = [mail EXCEPT ![c] = "none"]
  /\ life' \in {life} \cup (IF life[c] = "up" THEN {[life EXCEPT ![c] = "leaving"]} ELSE {})
  /\ mishaps' = [mishaps EXCEPT ![c] =
                   @ \cup {"interrupt"} \cup (IF life' = life THEN {} ELSE {"left"})
                     \cup (IF phase[c] = "try" THEN {} ELSE {"late"})]
  /\ UNCHANGED <<pidfile, kind, turn, clientVars, inbox, job, held>>

(* The controller process is gone, with all it knew and its ends of the    *)
(* pipes.                                                                  *)
Vanish(c) ==
  /\ Goto(c, "gone")
  /\ phase' = [phase EXCEPT ![c] = "try"]
  /\ kind' = [kind EXCEPT ![c] = "run"]
  /\ turn' = [turn EXCEPT ![c] = 1]
  /\ status' = [status EXCEPT ![c] = "running"]
  /\ seen' = [seen EXCEPT ![c] = None]
  /\ process' = [process EXCEPT ![c] = FALSE]
  /\ reader' = [reader EXCEPT ![c] = FALSE]
  /\ broken' = [broken EXCEPT ![c] = FALSE]
  /\ wants' = [wants EXCEPT ![c] = "none"]
  /\ mail' = [mail EXCEPT ![c] = "none"]
  /\ mishaps' = [mishaps EXCEPT ![c] = {}]
  /\ UNCHANGED <<pidfile, workerVars>>

(* The interpreter exits after the command. *)
ExitCommand(c) == pc[c] \in {"ended", "raised"} /\ Vanish(c)

(* The controller dies. *)
Kill(c) == "kill" \in Faults /\ pc[c] \notin {"idle", "gone"} /\ Vanish(c)

-----------------------------------------------------------------------------
(* Steps of a command that has begun. *)
CommandStep(c) ==
  \/ ReadPidfile(c) \/ Verify(c) \/ Discard(c) \/ Spawn(c) \/ Open(c) \/ Write(c)
  \/ Send(c) \/ Receive(c) \/ SeeCrash(c) \/ Timeout(c) \/ Deadline(c)
  \/ Finally(c) \/ Stop(c) \/ Terminate(c) \/ ExitWait(c) \/ TermWait(c) \/ KillWait(c)
  \/ Close(c) \/ Unlink(c) \/ Record(c) \/ ExitCommand(c)

(* Steps of a worker that runs on, other than a crash. *)
WorkerStep(c) == Serve(c) \/ EndTask(c) \/ Leave(c) \/ GoDown(c, "clean")

(* Steps of the operating system. *)
SystemStep(c) == GoDown(c, "killed") \/ BecomeWaitable(c)

Next ==
  \E c \in Controllers :
    \/ Begin(c) \/ CommandStep(c) \/ Interrupt(c) \/ Kill(c)
    \/ WorkerStep(c) \/ GoDown(c, "crash") \/ SystemStep(c)

Spec == Init /\ [][Next]_vars

(* A command runs on, its waits end with their timeouts and the deadline   *)
(* of _wait_until_idle passes; a killed process goes down in the end.      *)
(* Nothing is assumed of a worker: it may hang.                            *)
Fairness ==
  \A c \in Controllers :
    WF_vars(CommandStep(c)) /\ SF_vars(Deadline(c)) /\ WF_vars(SystemStep(c))

FairSpec == Spec /\ Fairness

-----------------------------------------------------------------------------
(* Safety.                                                                 *)

MayHoldModel(c) == held[c] \/ job[c] = "load"

(* At most one worker of a records directory holds or loads a model, even  *)
(* when controllers are killed and leave their workers behind: "The        *)
(* controller rejects a live matching PID" (docs/architecture.md).         *)
OneModelPerDirectory ==
  \A c, d \in Controllers : MayHoldModel(c) /\ MayHoldModel(d) => c = d

(* A worker that holds or loads a model is the one the pid file names: the *)
(* file is written before the first load and unlinked after the exit, so a *)
(* controller that dies in between leaves a worker the next one finds.     *)
ModelIsNamed == \A c \in Controllers : MayHoldModel(c) => pidfile = c

(* A command that ended in order leaves neither a worker nor a pid file    *)
(* that names it.                                                          *)
NoWorkerLeft ==
  \A c \in Controllers : pc[c] = "ended" => life[c] \in {"unborn", "dead"} /\ pidfile # c

(* What can cost a command its record: a worker that went down by itself   *)
(* or survives SIGKILL, Ctrl+C that ended the worker's command loop or     *)
(* came after the try clause, and a write_record that raises.              *)
LosesRecord == {"crash", "left", "late", "stuck", "disk"}

(* Nothing else does: a refusal, a failed request, a timeout, heat, a pid  *)
(* file that cannot be written, or Ctrl+C during a request of the try      *)
(* clause that the worker's loop survives, ends in a record (README.md,    *)
(* "The controller requests backend cancellation, unloads when possible,   *)
(* terminates an unresponsive worker, and writes a cancellation/failure    *)
(* record").                                                               *)
RecordLostByFailureOnly ==
  \A c \in Controllers : pc[c] = "raised" => mishaps[c] \cap LosesRecord # {}

(* A trajectory recorded as completed ran all its turns on one loaded      *)
(* model: after a turn whose heat unloaded it the next turn fails.         *)
CompletedOnOneModel ==
  \A c \in Controllers : status[c] = "completed" => "heat" \notin mishaps[c]

(* README.md: "Every `run` or `run-trajectory` command creates" its record *)
(* files.                                                                  *)
EveryCommandRecorded == \A c \in Controllers : pc[c] # "raised"

-----------------------------------------------------------------------------
(* Liveness.                                                               *)

(* Every command comes to an end, whatever its worker does. *)
CommandEnds == \A c \in Controllers : pc[c] # "idle" ~> pc[c] = "gone"

(* A worker that does not hang is gone some time after its command, also   *)
(* when the controller died: the end of stdin reaches it.                  *)
OrphanLeaves ==
  \A c \in Controllers :
    WF_vars(WorkerStep(c)) => (pc[c] = "gone" ~> life[c] \in {"unborn", "dead"})
=============================================================================
