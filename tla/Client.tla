------------------------------- MODULE Client -------------------------------
(***************************************************************************)
(* WorkerClient, src/agentworldlab/controller.py: threads that call        *)
(* request(), one thread that calls start(), stop() and terminate(), and   *)
(* per worker process a reader thread (_read_stdout).  They share          *)
(* self.process and self.pending.                                          *)
(*                                                                         *)
(* Worker processes are numbered in the order of their start.  A process   *)
(* is seen from outside: it answers lines, it exits, it can be waited for. *)
(* What it does inside is module Worker.  Messages are named by the call   *)
(* that sent them (uuid4 identifiers are unique).                          *)
(***************************************************************************)
EXTENDS Naturals, FiniteSets

CONSTANTS Calls,       \* calls of request()
          None,        \* no call
          MaxStarts,   \* bound: how often start() succeeds
          Faults       \* what the environment may do, see below

ASSUME MaxStartsAssumption == MaxStarts \in Nat \ {0}

(* slow_exit: after its pipes close, a process takes longer to become      *)
(* waitable than the reader allows it; late_reader: start() after a stop() *)
(* overtakes the last steps of the former reader thread.                   *)
ASSUME FaultsAssumption == Faults \subseteq {"slow_exit", "late_reader"}

Workers == 1 .. MaxStarts

VARIABLES process,   \* self.process, 0 for None
          pidfile,   \* the process the pid file names, 0 when there is none
          started,   \* number of processes started
          stdin,     \* stdin[n]: the client's end of n's stdin
          closed,    \* processes whose stdout the client has closed
          life,      \* life[n]: the worker process n
          code,      \* code[n]: its exit status
          inbox,     \* inbox[n]: lines written to n and not answered
          stdout,    \* stdout[n]: reply lines not yet read
          reader,    \* reader[n]: where the reader thread of n is
          watch,     \* watch[n]: the Popen object that reader waits on
          verdict,   \* verdict[n]: the category of its final error
          held,      \* held[n]: the call whose queue the reader looked up
          pending,   \* the keys of self.pending
          box,       \* box[c]: the queue of call c (maxsize=1)
          rpc,       \* rpc[c]: where call c is
          result,    \* result[c]: how it ends
          gen,       \* gen[c]: the process its line was written to
          lpc,       \* where the lifecycle thread is
          stops,     \* the calls stop() made
          stop,      \* the one it is waiting for
          answers    \* the reply lines ever written, with their calls (history)

clientVars == <<process, pidfile, started, stdin, closed>>
workerVars == <<life, code, inbox, stdout, answers>>
readerVars == <<reader, watch, verdict, held>>
callVars == <<pending, box, rpc, result, gen>>
lifeVars == <<lpc, stops, stop>>
vars == <<clientVars, workerVars, readerVars, callVars, lifeVars>>

Crashes == {"worker_crash", "thermal_hard_stop"}
Replies == {"ok", "error"}
Results == Replies \cup Crashes \cup {"none", "timeout", "not_running", "os_error", "too_long"}

TypeOK ==
  /\ process \in 0 .. MaxStarts /\ pidfile \in 0 .. MaxStarts /\ started \in 0 .. MaxStarts
  /\ stdin \in [Workers -> {"open", "broken", "closed"}]
  /\ closed \subseteq Workers
  /\ life \in [Workers -> {"unborn", "running", "stopping", "closing", "dead"}]
  /\ code \in [Workers -> {"none", "clean", "crash", "hard_stop"}]
  /\ inbox \in [Workers -> SUBSET Calls]
  /\ stdout \in [Workers -> SUBSET (Calls \X Replies)]
  /\ reader \in [Workers -> {"none", "reading", "put", "check", "enter", "wait", "fail", "done"}]
  /\ watch \in [Workers -> 0 .. MaxStarts]
  /\ verdict \in [Workers -> {"none"} \cup Crashes]
  /\ held \in [Workers -> (Calls \X Replies) \cup {<<>>}]
  /\ pending \subseteq Calls
  /\ box \in [Calls -> {"empty"} \cup Replies \cup Crashes]
  /\ rpc \in [Calls -> {"new", "register", "write", "waiting", "pop", "returned"}]
  /\ result \in [Calls -> Results]
  /\ gen \in [Calls -> 0 .. MaxStarts]
  /\ lpc \in {"idle", "record", "stopping", "exit_wait", "terminate", "term_wait",
              "kill_wait", "cleanup", "unlink", "raised"}
  /\ stops \subseteq Calls /\ stop \in Calls \cup {None} /\ answers \subseteq Calls \X Replies

Init ==
  /\ process = 0 /\ pidfile = 0 /\ started = 0
  /\ stdin = [n \in Workers |-> "open"] /\ closed = {}
  /\ life = [n \in Workers |-> "unborn"] /\ code = [n \in Workers |-> "none"]
  /\ inbox = [n \in Workers |-> {}] /\ stdout = [n \in Workers |-> {}]
  /\ reader = [n \in Workers |-> "none"] /\ watch = [n \in Workers |-> 0]
  /\ verdict = [n \in Workers |-> "none"] /\ held = [n \in Workers |-> <<>>]
  /\ pending = {} /\ box = [c \in Calls |-> "empty"]
  /\ rpc = [c \in Calls |-> "new"] /\ result = [c \in Calls |-> "none"]
  /\ gen = [c \in Calls |-> 0]
  /\ lpc = "idle" /\ stops = {} /\ stop = None /\ answers = {}

Idle == lpc \in {"idle", "raised"}

Live(n) == life[n] \in {"running", "stopping"}

(* The calls a worker wrote a reply for. *)
replied == {c \in Calls : \E reply \in Replies : <<c, reply>> \in answers}

(* poll() is not None: the process has exited and can be waited for. *)
Waitable(n) == life[n] = "dead"

(* Mutant: any exit that is not clean counts as a hard stop. *)
Category_AnyFailure(n) ==
  IF Waitable(n) /\ code[n] # "clean" THEN "thermal_hard_stop" ELSE "worker_crash"

(* What the reader makes of the exit status of process n. *)
Category(n) == IF Waitable(n) /\ code[n] = "hard_stop" THEN "thermal_hard_stop" ELSE "worker_crash"

-----------------------------------------------------------------------------
(* The worker process, from outside.                                       *)

(* The worker answers a line it read.  It refuses stop while a task is     *)
(* active; when it accepts, serve returns even if the unload that follows  *)
(* raises, and only the reply of a task that was finishing can still come. *)
Answer(n, c) ==
  /\ Live(n) /\ c \in inbox[n]
  /\ c \in stops => life[n] = "running"
  /\ \E reply \in Replies :
       /\ stdout' = [stdout EXCEPT ![n] = @ \cup {<<c, reply>>}]
       /\ answers' = answers \cup {<<c, reply>>}
       /\ \/ ~(c \in stops /\ reply = "ok") /\ UNCHANGED life
          \/ c \in stops /\ life' = [life EXCEPT ![n] = "stopping"]
  /\ inbox' = [inbox EXCEPT ![n] = @ \ {c}]
  /\ UNCHANGED <<clientVars, code, readerVars, callVars, lifeVars>>

(* The process ends: after stop, by itself or a signal, or by os._exit(90) *)
(* in its monitor.  Its pipes close before its status is available.        *)
Exit(n, status) ==
  /\ Live(n)
  /\ status = "clean" => life[n] = "stopping"
  /\ life' = [life EXCEPT ![n] = "closing"]
  /\ code' = [code EXCEPT ![n] = status]
  /\ UNCHANGED <<clientVars, inbox, stdout, answers, readerVars, callVars, lifeVars>>

BecomeWaitable(n) ==
  /\ life[n] = "closing"
  /\ life' = [life EXCEPT ![n] = "dead"]
  /\ UNCHANGED <<clientVars, code, inbox, stdout, answers, readerVars, callVars, lifeVars>>

-----------------------------------------------------------------------------
(* _read_stdout                                                            *)

(* The reader takes a line and looks its queue up under the lock; a reply  *)
(* nobody waits for is dropped.                                            *)
ReadLine(n, line) ==
  /\ reader[n] = "reading" /\ n \notin closed /\ line \in stdout[n]
  /\ stdout' = [stdout EXCEPT ![n] = @ \ {line}]
  /\ \/ /\ line[1] \in pending
        /\ reader' = [reader EXCEPT ![n] = "put"]
        /\ held' = [held EXCEPT ![n] = line]
     \/ line[1] \notin pending /\ UNCHANGED <<reader, held>>
  /\ UNCHANGED <<clientVars, life, code, inbox, answers, watch, verdict, callVars, lifeVars>>

(* Mutant: the queue gets the identifier instead of the value. *)
Put_Identifier(n) ==
  /\ reader[n] = "put" /\ box[held[n][1]] = "empty"
  /\ box' = [box EXCEPT ![held[n][1]] = held[n][1]]
  /\ held' = [held EXCEPT ![n] = <<>>]
  /\ reader' = [reader EXCEPT ![n] = "reading"]
  /\ UNCHANGED <<clientVars, workerVars, watch, verdict, pending, rpc, result, gen, lifeVars>>

(* Mutant: the value goes to whoever waits, not to the one it names. *)
Put_AnyCaller(n) ==
  /\ reader[n] = "put"
  /\ \E c \in pending :
       /\ box[c] = "empty"
       /\ box' = [box EXCEPT ![c] = held[n][2]]
  /\ held' = [held EXCEPT ![n] = <<>>]
  /\ reader' = [reader EXCEPT ![n] = "reading"]
  /\ UNCHANGED <<clientVars, workerVars, watch, verdict, pending, rpc, result, gen, lifeVars>>

(* destination.put(value), which waits while the queue is full *)
Put(n) ==
  /\ reader[n] = "put" /\ box[held[n][1]] = "empty"
  /\ box' = [box EXCEPT ![held[n][1]] = held[n][2]]
  /\ held' = [held EXCEPT ![n] = <<>>]
  /\ reader' = [reader EXCEPT ![n] = "reading"]
  /\ UNCHANGED <<clientVars, workerVars, watch, verdict, pending, rpc, result, gen, lifeVars>>

(* Mutant: the loop gives up at the exit, with lines still in the pipe. *)
EndOfOutput_Unread(n) ==
  /\ reader[n] = "reading" /\ ~Live(n)
  /\ reader' = [reader EXCEPT ![n] = "check"]
  /\ UNCHANGED <<clientVars, workerVars, watch, verdict, held, callVars, lifeVars>>

(* The for loop over the lines ends, or is broken by the closed file. *)
EndOfOutput(n) ==
  /\ reader[n] = "reading"
  /\ \/ /\ ~Live(n) /\ stdout[n] = {}
        /\ reader' = [reader EXCEPT ![n] = "check"]
     \/ /\ n \in closed
        /\ reader' = [reader EXCEPT ![n] = "done"]
  /\ UNCHANGED <<clientVars, workerVars, watch, verdict, held, callVars, lifeVars>>

(* if self.process: *)
CheckProcess(n) ==
  /\ reader[n] = "check"
  /\ \/ /\ process = 0
        /\ reader' = [reader EXCEPT ![n] = "fail"]
        /\ verdict' = [verdict EXCEPT ![n] = "worker_crash"]
     \/ /\ process # 0
        /\ reader' = [reader EXCEPT ![n] = "enter"]
        /\ UNCHANGED verdict
  /\ UNCHANGED <<clientVars, workerVars, watch, held, callVars, lifeVars>>

(* self.process is read again for wait(); None has no such attribute and   *)
(* ends the thread.                                                        *)
EnterWait(n) ==
  /\ reader[n] = "enter"
  /\ watch' = [watch EXCEPT ![n] = process]
  /\ reader' = [reader EXCEPT ![n] = IF process = 0 THEN "done" ELSE "wait"]
  /\ UNCHANGED <<clientVars, workerVars, verdict, held, callVars, lifeVars>>

(* Mutant: the status is polled at once. *)
WaitProcess_NoWait(n) ==
  /\ reader[n] = "wait"
  /\ verdict' = [verdict EXCEPT ![n] = Category(watch[n])]
  /\ reader' = [reader EXCEPT ![n] = "fail"]
  /\ UNCHANGED <<clientVars, workerVars, watch, held, callVars, lifeVars>>

(* wait(timeout=0.2) returns, or it times out and self.process is polled.  *)
WaitProcess(n) ==
  /\ reader[n] = "wait"
  /\ \/ /\ Waitable(watch[n])
        /\ verdict' = [verdict EXCEPT ![n] = Category(watch[n])]
        /\ reader' = [reader EXCEPT ![n] = "fail"]
     \/ /\ ~Waitable(watch[n])
        /\ watch[n] # n \/ "slow_exit" \in Faults
        /\ IF process = 0
             THEN reader' = [reader EXCEPT ![n] = "done"] /\ UNCHANGED verdict
             ELSE /\ reader' = [reader EXCEPT ![n] = "fail"]
                  /\ verdict' = [verdict EXCEPT ![n] = Category(process)]
  /\ UNCHANGED <<clientVars, workerVars, watch, held, callVars, lifeVars>>

(* Mutant: the final error is not given to anyone. *)
FailPending_Nobody(n) ==
  /\ reader[n] = "fail"
  /\ reader' = [reader EXCEPT ![n] = "done"]
  /\ UNCHANGED <<clientVars, workerVars, watch, verdict, held, callVars, lifeVars>>

(* Every pending call whose queue is not full gets the final error. *)
FailPending(n) ==
  /\ reader[n] = "fail"
  /\ box' = [c \in Calls |-> IF c \in pending /\ box[c] = "empty" THEN verdict[n] ELSE box[c]]
  /\ reader' = [reader EXCEPT ![n] = "done"]
  /\ UNCHANGED <<clientVars, workerVars, watch, verdict, held, pending, rpc, result, gen, lifeVars>>

-----------------------------------------------------------------------------
(* request()                                                               *)

Return(c, outcome) ==
  /\ rpc' = [rpc EXCEPT ![c] = "returned"]
  /\ result' = [result EXCEPT ![c] = outcome]

(* A thread calls request(): LifecycleError unless there is a process that *)
(* has not exited.                                                         *)
Poll(c) ==
  /\ rpc[c] = "new"
  /\ IF process = 0 \/ Waitable(process)
       THEN Return(c, "not_running")
       ELSE rpc' = [rpc EXCEPT ![c] = "register"] /\ UNCHANGED result
  /\ UNCHANGED <<clientVars, workerVars, readerVars, pending, box, gen, lifeVars>>

(* self.pending[id] = destination, before the line is written. *)
Register(c) ==
  /\ rpc[c] = "register"
  /\ pending' = pending \cup {c}
  /\ rpc' = [rpc EXCEPT ![c] = "write"]
  /\ UNCHANGED <<clientVars, workerVars, readerVars, box, result, gen, lifeVars>>

CanWrite == process # 0 /\ stdin[process] # "closed" /\ Live(process)

(* The line is written to the stdin of self.process.  When the process has *)
(* closed its end, BrokenPipeError is raised and the line stays in the     *)
(* buffer of the client's stdin; when the client has closed its own, or    *)
(* self.process is None again, another exception is raised.                *)
Write(c) ==
  /\ rpc[c] = "write"
  /\ \/ /\ CanWrite
        /\ inbox' = [inbox EXCEPT ![process] = @ \cup {c}]
        /\ gen' = [gen EXCEPT ![c] = process]
        /\ rpc' = [rpc EXCEPT ![c] = "waiting"]
        /\ UNCHANGED <<stdin, pending, result>>
     \/ /\ ~CanWrite
        /\ Return(c, "os_error")
        /\ pending' = pending \ {c}
        /\ stdin' = [n \in Workers |->
                       IF n = process /\ stdin[n] = "open" THEN "broken" ELSE stdin[n]]
        /\ UNCHANGED <<inbox, gen>>
  /\ UNCHANGED <<process, pidfile, started, closed, life, code, stdout, answers, readerVars,
                 box, lifeVars>>

(* encode refuses a message above the cap; a stop is never that long.      *)
TooLong(c) ==
  /\ rpc[c] = "write" /\ process # 0 /\ c \notin stops
  /\ Return(c, "too_long")
  /\ pending' = pending \ {c}
  /\ UNCHANGED <<clientVars, workerVars, readerVars, box, gen, lifeVars>>

(* destination.get returns. *)
Receive(c) ==
  /\ rpc[c] = "waiting" /\ box[c] # "empty"
  /\ result' = [result EXCEPT ![c] = box[c]]
  /\ box' = [box EXCEPT ![c] = "empty"]
  /\ rpc' = [rpc EXCEPT ![c] = "pop"]
  /\ UNCHANGED <<clientVars, workerVars, readerVars, pending, gen, lifeVars>>

(* destination.get times out. *)
Timeout(c) ==
  /\ rpc[c] = "waiting" /\ box[c] = "empty"
  /\ result' = [result EXCEPT ![c] = "timeout"]
  /\ rpc' = [rpc EXCEPT ![c] = "pop"]
  /\ UNCHANGED <<clientVars, workerVars, readerVars, pending, box, gen, lifeVars>>

(* self.pending.pop(id), and request returns or raises. *)
Pop(c) ==
  /\ rpc[c] = "pop"
  /\ pending' = pending \ {c}
  /\ rpc' = [rpc EXCEPT ![c] = "returned"]
  /\ UNCHANGED <<clientVars, workerVars, readerVars, box, result, gen, lifeVars>>

-----------------------------------------------------------------------------
(* start(), stop() and terminate()                                         *)

(* How clients use it: no start() during a request(), and, without the     *)
(* fault, none before the former reader thread has ended.                  *)
Quiet ==
  /\ \A c \in Calls : rpc[c] \in {"new", "returned"}
  /\ "late_reader" \in Faults \/ \A n \in Workers : reader[n] \in {"none", "done"}

(* Popen.  The pid file of a former process of this client is gone.        *)
Start ==
  /\ Idle /\ process = 0 /\ started < MaxStarts /\ Quiet
  /\ started' = started + 1
  /\ process' = started + 1
  /\ life' = [life EXCEPT ![started + 1] = "running"]
  /\ lpc' = "record"
  /\ UNCHANGED <<pidfile, stdin, closed, code, inbox, stdout, answers, readerVars, callVars, stops, stop>>

(* The pid file is written and the reader thread started. *)
Record ==
  /\ lpc = "record"
  /\ pidfile' = process
  /\ reader' = [reader EXCEPT ![process] = "reading"]
  /\ lpc' = "idle"
  /\ UNCHANGED <<process, started, stdin, closed, workerVars, watch, verdict, held, callVars, stops, stop>>

(* stop(): a process that has exited is cleaned up, else stop is requested *)
(* by a call of this thread.                                               *)
Stop ==
  /\ Idle /\ process # 0
  /\ \/ /\ Waitable(process)
        /\ lpc' = "cleanup"
        /\ UNCHANGED <<stops, stop>>
     \/ /\ ~Waitable(process)
        /\ lpc' = "stopping"
        /\ \E c \in Calls :
             /\ rpc[c] = "new"
             /\ stops' = stops \cup {c} /\ stop' = c
  /\ UNCHANGED <<clientVars, workerVars, readerVars, callVars>>

(* The call of stop() is over: wait for the exit; terminate after a        *)
(* LifecycleError or a timeout; any other exception leaves stop().         *)
StopReplied ==
  /\ lpc = "stopping" /\ rpc[stop] = "returned"
  /\ lpc' = CASE result[stop] = "ok" -> "exit_wait"
              [] result[stop] \in {"timeout", "not_running"} -> "terminate"
              [] OTHER -> "raised"
  /\ UNCHANGED <<clientVars, workerVars, readerVars, callVars, stops, stop>>

(* A wait(timeout=...) of this thread at point `from': it goes on to       *)
(* _cleanup when the process exited, to `late' when the time is over.      *)
Wait(from, late) ==
  /\ lpc = from
  /\ lpc' = IF Waitable(process) THEN "cleanup" ELSE late
  /\ UNCHANGED <<clientVars, workerVars, readerVars, callVars, stops, stop>>

(* Mutant: stop() cleans up when the process does not exit in time. *)
ExitWait_GivesUp == Wait("exit_wait", "cleanup")

(* Mutant: that wait has no timeout. *)
ExitWait_NoTimeout == lpc = "exit_wait" /\ Waitable(process) /\ Wait("exit_wait", "cleanup")

ExitWait == Wait("exit_wait", "terminate")

(* terminate(), called by itself *)
Terminate ==
  /\ Idle /\ process # 0
  /\ lpc' = "terminate"
  /\ UNCHANGED <<clientVars, workerVars, readerVars, callVars, stops, stop>>

(* SIGTERM unless the process has exited; the worker does not handle it.   *)
Signal == Wait("terminate", "term_wait")

(* SIGKILL after the first wait; an exception after the second.            *)
TermWait == Wait("term_wait", "kill_wait")
KillWait == Wait("kill_wait", "raised")

(* _cleanup closes the pipes.  Closing a stdin that still holds a line the *)
(* process never took raises, and the rest of _cleanup is skipped.         *)
Close ==
  /\ lpc = "cleanup"
  /\ stdin' = [stdin EXCEPT ![process] = "closed"]
  /\ IF stdin[process] = "broken"
       THEN lpc' = "raised" /\ UNCHANGED closed
       ELSE lpc' = "unlink" /\ closed' = closed \cup {process}
  /\ UNCHANGED <<process, pidfile, started, workerVars, readerVars, callVars, stops, stop>>

(* ... unlinks the pid file and forgets the process. *)
Forget ==
  /\ lpc = "unlink"
  /\ pidfile' = 0 /\ process' = 0
  /\ lpc' = "idle"
  /\ UNCHANGED <<started, stdin, closed, workerVars, readerVars, callVars, stops, stop>>

-----------------------------------------------------------------------------
WorkerStep(n) ==
  \/ \E c \in Calls : Answer(n, c)
  \/ \E status \in {"clean", "crash", "hard_stop"} : Exit(n, status)
  \/ BecomeWaitable(n)

ReaderStep(n) ==
  \/ \E line \in stdout[n] : ReadLine(n, line)
  \/ Put(n) \/ EndOfOutput(n) \/ CheckProcess(n) \/ EnterWait(n) \/ WaitProcess(n) \/ FailPending(n)

(* What a call does once it is made. *)
CallStep(c) ==
  (c \in stops /\ Poll(c)) \/ Register(c) \/ Write(c) \/ TooLong(c) \/ Receive(c) \/ Pop(c)

(* What stop() and terminate() do once they have begun. *)
LifecycleStep ==
  Record \/ StopReplied \/ ExitWait \/ Signal \/ TermWait \/ KillWait \/ Close \/ Forget

Next ==
  \/ \E n \in Workers : WorkerStep(n) \/ ReaderStep(n)
  \/ \E c \in Calls : Poll(c) \/ CallStep(c) \/ Timeout(c)
  \/ Start \/ Stop \/ Terminate \/ LifecycleStep

Spec == Init /\ [][Next]_vars

(* The client's threads run, a process whose pipes closed can be waited    *)
(* for, and the timeout of stop()'s own request expires.  No worker need   *)
(* answer or exit, and no other timeout need expire.                       *)
Fairness ==
  /\ \A n \in Workers : WF_vars(ReaderStep(n)) /\ WF_vars(BecomeWaitable(n))
  /\ \A c \in Calls : WF_vars(CallStep(c)) /\ WF_vars(c \in stops /\ Timeout(c))
  /\ WF_vars(LifecycleStep)

FairSpec == Spec /\ Fairness

-----------------------------------------------------------------------------
(* Safety.                                                                 *)

(* A reply the worker wrote before it went down is what the call returns:  *)
(* the exit of the process never overtakes it on its way through the pipe, *)
(* the reader and the queue (the lines are read to the end, then the error *)
(* is offered to queues that are not full).                                *)
AnsweredNotBlamed == \A c \in replied : result[c] \notin Crashes

(* A call that fails with worker_crash or thermal_hard_stop was written to *)
(* a process that did exit, and, for the latter, by a hard stop.           *)
CrashBlamesItsWorker ==
  \A c \in Calls : result[c] \in Crashes =>
    /\ gen[c] # 0 /\ ~Live(gen[c])
    /\ result[c] = "thermal_hard_stop" => code[gen[c]] = "hard_stop"

(* A hard stop is never recorded as a mere crash, unless stop() or         *)
(* terminate() has released the process meanwhile.                         *)
HardStopIsNamed ==
  \A c \in Calls : result[c] = "worker_crash" /\ gen[c] # 0 /\ code[gen[c]] = "hard_stop"
    => gen[c] \in closed

(* A worker process that is alive is the client's process and the one the  *)
(* pid file names, from its record on: nothing forgets a live worker, and  *)
(* the next controller finds it.                                           *)
LiveWorkerIsRecorded ==
  \A n \in Workers : Live(n) => process = n /\ (lpc = "record" \/ pidfile = n)

-----------------------------------------------------------------------------
(* Liveness.                                                               *)

(* A call that waits on a worker that has gone down returns although no    *)
(* timeout expires: the queue is registered before the line is written, so *)
(* either the reader finds it or the write fails.                          *)
CrashUnblocks ==
  \A c \in Calls, n \in Workers :
    rpc[c] = "waiting" /\ gen[c] = n /\ ~Live(n) ~> rpc[c] = "returned" \/ n \in closed

(* stop() and terminate() come to an end whatever the worker does. *)
StopReturns == ~Idle ~> Idle
=============================================================================
