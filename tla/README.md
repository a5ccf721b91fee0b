# A formal model of AgentWorldLab

AgentWorldLab runs a large model in an isolated worker process and keeps the
process that controls it responsive, whatever the model code does. This
directory models the parts that decide whether that works: the worker with its
task threads and thermal monitors, the controller that talks to it through
pipes, and the commands that drive a controller and share a pid file. TLC checks
the models on small instances; TLAPS proves their safety properties for every
instance.

## Inventory

| Component (source) | State | Operations | Interacts through |
| --- | --- | --- | --- |
| Worker (`worker.py`) | `backend`, `model`, `task`, `stopping`, two locks | health, load, run, cancel, unload, stop; the task thread's function and its end | stdin and stdout lines; calls of a backend; a monitor per task |
| Backends (`backends/*.py`) | model references, the `_cancel` event | load, generate, cancel, unload, health | called by the task thread, the command loop and the monitor |
| Safety monitor (`safety.py`) | `ThermalState`, `_stop`, its thread | start, stop, one sample; admission checks | reads sensors, calls `backend.cancel`, `os._exit(90)` |
| Controller client (`controller.py`) | `process`, `pending`, one queue per call, reader threads, the pid file | start, request, cancel, stop, terminate, `_cleanup` | pipes, signals, `waitpid` |
| Pid file (`controller.py`) | a file in the records directory | read, check, unlink, truncate, fill | shared by every controller of that directory |
| Protocol (`protocol.py`) | none | encode, decode, validate_request | both ends of the pipes |
| Run and trajectory commands (`cli.py`) | the record, the client | start, load, the runs, then unload, stop and the record; cancellation and polling after a timeout or Ctrl+C | the client; `records.py` |
| Configuration, fixtures, evaluation, records, metrics, inspection, errors | none that changes | parsing, rendering, scoring, writing, reading | called by the commands |

Where it is hard: three kinds of thread share the worker's slot; a decision taken
in one lock section is acted on in another; cancellation is an event that is
cleared as well as set; a heat sample may fall between any two steps; replies,
exits and timeouts race through the reader thread; a client may be stopped and
started again while the reader of the former worker is still there; a controller may
die between any two of its steps and leave its worker to the next one. What makes
each component correct:

- worker: one task, one model; a model in use is not released; no model is left
  where no request can reach it; every line is answered, once its work is over;
- cancellation and heat: who is reported cancelled was cancelled, who was heated
  is unloaded, and a cancellation that reached a generation is not lost;
- client: a reply in the pipe wins over the exit that follows it, a crash is
  blamed on the right worker and frees its callers, stop() ends and ends the worker;
- pid file: at most one worker of a directory holds a model, and the file names it;
- commands: every command ends, leaves a record and no worker, and what it records as
  completed ran on one model.

`PROJECT.json` lists the hazards line by line with the properties that watch them.

## Modules

| Module | Models |
| --- | --- |
| `Backend` | the backend objects: is a model held, is the event set, what a generation reports |
| `ThermalMonitor` | admission checks and the monitor thread (extends `Backend`) |
| `Worker` | command loop, task threads, process (extends `ThermalMonitor`), its properties and fairness |
| `ModelSlot` | abstract: a worker as one slot, one job, one reply per request |
| `WorkerProcess` | abstract: a worker process as its client sees it, the lines it answers and its end |
| `WorkerInvariants` | the inductive invariants of `Worker` in named parts; the refinement mappings to `ModelSlot` and `WorkerProcess` |
| `WorkerProofs`, `WorkerRefinement` | the theorems |
| `Client` | `WorkerClient`: callers, the lifecycle thread, reader threads, worker processes seen from outside |
| `RemoteCall` | abstract: what a caller of `request()` may rely on |
| `ClientInvariants` | the inductive invariants of `Client` in named parts; the mappings to `RemoteCall` and to `WorkerProcess` |
| `ClientProofs`, `ClientRefinement` | the theorems |
| `Commands` | `run` and `run-trajectory` over the pid file they share, with their clients and workers as seen from there |
| `ModelLease` | abstract: the pid file as a lease on the right to hold a model |
| `CommandsInvariants` | the inductive invariants of `Commands` in named parts; the mapping to `ModelLease` |
| `CommandsProofs`, `CommandsOutcome`, `CommandsRefinement` | the theorems about the pid file, about how a command comes out, and the refinement |
| `MCWorker`, `MCClient`, `MCCommands` | values and symmetry for TLC |

A definition that begins with "Mutant:" in its comment is a plausible bug. No
specification uses it; it stands in for the definition whose name it extends when
a property is tested for whether it can fail.

### Worker

A request line is an element of `Requests`. Its operation is chosen when the loop
reads it, so a run of TLC covers every sequence of operations of that length. A
load names the backend object it creates, a load or run names its task thread and
its monitor.

One action is what a thread does between two points where another thread can see
a difference: a `with self.state_lock` section, one call of a backend or a monitor,
one reply. So `load` is `LoadCheck` (worker.py:89-91) and then `LoadStart`
(`_run_task`, 54-71), because the lock is released in between. The task of a load
is `Admit`, `LoadModel`, `CheckHeat`, `Publish`, `Seal`; that of a run `StartRun`,
`Generate`, `Generated`, `Snapshot` and, after heat, `Drop` and `Clear`; both end
in `Finish` (`_task_finished`) and `Reply`. `Fail` is any of them raising: the
`finally` clause and the `except` of `target()`. `self.model` is set and cleared
with `self.backend` and is not a variable of its own; `task_operation` is `op[task]`.

`proc = "hard_stop"` is `os._exit(90)`: nothing steps afterwards.

`Faults` switches on what the environment may do; each is a situation the code
meets and does not exclude:

- `pipelined_load`: a client writes a load line before an earlier load is answered.
  This repository's commands never do; docs/safety.md says it would be rejected;
- `late_join`: `ThermalMonitor.stop` joins for max(1 s, two intervals), and a sample
  that reads many files may take longer;
- `unload_raises`: `empty_cache` or `synchronize` raises after the references are gone;
- `oversize_result`: the encoded result is longer than the protocol's cap.

### Client

Worker processes are numbered. `life[n]` separates the moments at which a process
that ends is seen: `closing`, its pipes are closed (the reader meets the end of
stdout, a write breaks); `dead`, `wait` and `poll` report its status. `Answer`,
`Exit` and `BecomeWaitable` are the process; what happens inside is `Worker`.
`ReadLine` and `Put` are one iteration of `_read_stdout`; `EndOfOutput`,
`CheckProcess`, `EnterWait`, `WaitProcess`, `FailPending` are its tail
(controller.py:99-125), with every separate read of `self.process`. `Poll`,
`Register`, `Write` or `TooLong` (encode refuses), `Receive` or `Timeout`, and `Pop`
are `request`. `Stop` to
`Forget` are stop(), terminate() and `_cleanup`; stop() uses a call of its own.
`lpc = "raised"` means that the last of them ended with an exception. `answers` is a
history variable, the lines a worker wrote; only properties read it, by way of `replied`.
A worker answers a line with "ok" or "error". A stop that was accepted ends its command
loop whatever the answer: when the unload of a stop raises, the answer is an error and
`serve` returns all the same (worker.py:184-220).

Bounds: `MaxStarts` starts of a worker, `Calls` calls. Assumptions on use (`Quiet`):
start() is not called during a request() of another thread and, without the fault
`late_reader`, not before the former reader thread has ended. The fault `slow_exit`
lets the exit status come later than the 0.2 s the reader waits for it.

### Commands

A controller is one invocation of `run` or `run-trajectory`. It starts at most one
worker, so a worker goes by its controller's name, and the pid file (`pidfile`) holds a
controller, `"garbled"` (truncated and not filled yet) or `None`. `pc[c]` is the statement
the command is at and `phase[c]` the clause of its `try` statement; `status[c]` is
`record["outcome"]["completion_status"]`, `turn[c]` the action of a trajectory.

`start()` is `ReadPidfile`, `Verify`, `Discard` (`_check_stale_process`), `Spawn`, `Open` and
`Write` (`write_text` truncates and then fills the file). A request is `Send` and one of
`Receive`, `SeeCrash` and `Timeout`; `Return` says what the command does with its outcome,
one operator per request (`AfterLoad` to `AfterStop`). How the outcome comes about inside
the client is `Client`, and what a worker does with a line is `Worker`; here a worker is
its life, its unread lines, its task and whether it holds a model. A worker may answer,
fail, hang or crash at any point, and the line of a run may be refused by `encode` on its
way out or by `decode` on its way in (protocol.py:47-82). `Deadline`
is the end of `_wait_until_idle`. `Finally` to `Unlink` are the `finally` clause with
stop(), terminate() and `_cleanup`; `Record` is write_record, which writes both files or
raises. `pc = "raised"` is a command whose `finally` clause was left by an exception before
the record was complete.

`mishaps[c]` is a history variable: heat that unloaded the model before a further turn
(`heat`), a worker that went down by itself (`crash`) or survived SIGKILL (`stuck`), a
write_record that raised (`disk`), and Ctrl+C (`interrupt`), with `left` when it ended the
worker's command loop and `late` when it came after the `try` clause. Only properties and the
bound on Ctrl+C read it.

`Faults` of the environment:

- `concurrent`: a command begins before an earlier one is over;
- `kill`: a controller is killed between any two of its steps;
- `disk`: a file of the records directory, the pid file or a record, cannot be written, say
  on a full disk;
- `crash`: a worker goes down by itself, by a crash or by `os._exit(90)`;
- `stuck`: a worker survives SIGKILL for longer than `stop_timeout_seconds`.

Bounds and assumptions: `Turns` turns of a trajectory; Ctrl+C comes once, while the command
waits, and reaches the worker too, whose command loop it ends unless a handler catches it;
write_record is one step, and so is each of its failures; files that can be written can be
unlinked; a pipe takes every line that is written to it; a process id the
system gives to another process is told apart by its start ticks (controller.py:47-50) and
not modelled.

## Runs

All instances use temperatures on both sides of each threshold (84, 85, 86, 90 for
85 and 90 degrees), memory just short of and at the requirement, and a sensor or
memory reading that may be missing.

| Run | Bounds | Question | Result |
| --- | --- | --- | --- |
| `worker_requests` | 4 lines, transformers | types; the model in use; the published model; causes of cancellation; a cancellation stays; replies last; monitors | holds |
| `worker_faults` | 3 lines, late joins, raising unloads, oversize results | one task, one model, no orphan, heat unloads; the worker implements `ModelSlot` and `WorkerProcess` | holds |
| `worker_answers` | 3 lines, `FairSpec` | every line is answered; end of input ends the process; heat ends a generation that would not end by itself | holds |
| `worker_two_loads` | 3 lines, pipelined loads | one model (docs/safety.md:34) | fails |
| `worker_vllm_cancel` | 4 lines, vllm | causes of cancellation (docs/protocol.md:15) | fails |
| `worker_hot_task` | 3 lines | a heated load or run is unloaded (docs/safety.md:11) | fails |
| `client_calls` | 2 calls, 2 starts | types; replies before blame; blame on the right worker; hard stops are named; no live worker forgotten; the client implements `RemoteCall` | holds |
| `client_ends` | 2 calls, 1 start, slow exits, `FairSpec` | a crash frees its callers; stop() and terminate() end | holds |
| `client_late_reader` | 2 calls, 2 starts, late reader | blame on the right worker (tests/test_worker_lifecycle.py:81) | fails |
| `commands` | 2 commands, 2 turns, kills, files that cannot be written, crashes, stuck workers, `FairSpec` | types; one model in the directory, named by the pid file; nothing left; what costs a record; what `completed` means; commands end; orphans leave; the commands implement `ModelLease` | holds |
| `commands_race` | 2 commands at once | one model in the directory (docs/architecture.md:42) | fails |
| `commands_no_record` | 2 commands, no faults but Ctrl+C | every command writes its record (README.md:280 and 291) | fails |

The findings in `PROJECT.json` say what each failing run shows. `commands_no_record` needs no
fault: Ctrl+C during the load also ends the worker's command loop, and the `cancel` of the
`except` clause and the `unload` of the `finally` clause then write to a closed pipe; both
clauses expect AgentWorldLabErrors only, so the BrokenPipeError leaves the command before
write_record. `RecordLostByFailureOnly`, in `commands`, is the other side of it: the list of
what can cost a command its record (`LosesRecord`) is complete. `worker_hot_task` has a
second case besides the one TLC prints, a generation that raises after its monitor saw
heat. With oversize results a run may stay unanswered (`Reply`); the liveness run
therefore leaves that fault out.

Are the bounds enough? The worker has one slot and one task at a time, so the
longest chain of requests that matters for safety is load, run, an intruder
(cancel, unload, stop, a second load or run) and one request that meets what is
left: four lines. The runs with faults and the liveness run use three: load, run
and an intruder; the liveness run takes one reading of each temperature band
(`LiveTemps`, `LiveMemory`). In the client two calls are two callers, or one caller and
stop(); two starts are a worker and its successor. In the commands two controllers are one
that dies, fails or ends and the one that comes after it (or, in `commands_race`, at the
same time); two turns are one whose heat unloads the model and one after it. The code asks
for five to ten turns; the theorems about commands hold for every number.

Calls and lines are interchangeable, so `worker_requests`, `worker_faults` and
`client_calls` use symmetry (their temporal properties are safety formulas,
symmetric in the calls or lines); runs with liveness do not. The client runs do not check for
deadlock: when all calls are used up and nothing was started again, a client rests. Nor
do the commands runs: when every command is over and its worker gone, nothing is left to
step. The worker's `Exited` lets an ended process stutter, so its runs do check.

### Fairness

`FairSpec` of `Worker` assumes that every thread with something to do runs on
(CPython threads are preemptive), that load, unload and cancel return (a load reads a
finite checkpoint), that a generation returns once its event is set (the stopping
criterion of transformers.py:121-123, the loop of mock.py:32-34; the vllm backend has
none), and that the interpreter exits when its threads are over. Nothing is assumed of
the client, or of the monitor: a sample need not be taken. That a generation ends by
itself is not part of it: `EveryRequestAnswered` and `EndOfInputEndsProcess` state it as
their hypothesis `GenerationsEnd` (`max_output_tokens` bounds a generation), and
`HeatEndsGeneration` does without.

`FairSpec` of `Client` assumes that the client's threads run, that a process whose
pipes are closed becomes waitable, and that the timeout of stop()'s own request
expires (`queue.get` with a finite timeout). It assumes neither that a worker answers
or exits nor that any other timeout expires, so `CrashUnblocks` rests on the reader
alone. The bounded waits of stop() and terminate() may be over at any time, so they
never hold a step back.

`FairSpec` of `Commands` assumes that a command that can step does (its waits have
timeouts, and a timeout may come at any time), that the deadline of `_wait_until_idle`
passes although the command keeps leaving and entering the point where it is looked at
(strong fairness of `Deadline`), and that a process that was killed goes down. Nothing is
assumed of a worker, so `CommandEnds` covers one that hangs; `OrphanLeaves` has the
hypothesis that the worker runs on.

## Proofs

### Worker

`WorkerProofs` and `WorkerRefinement` prove, for every set of requests, readings
and thresholds:

- for any client and any faults: `TypeOK`, `OneTaskAtATime`, `MonitorCoversTask`,
  `AnsweredIsOver`, the action property `CancelIsKept`, and that `Worker` implements
  `WorkerProcess`;
- for a client whose loads are serial (`"pipelined_load" \notin Faults`):
  `OneModelLoaded`, `ModelInUseStays`, `NoOrphanModel`, `HotReplyIsUnloaded`, and that
  `Worker` implements `ModelSlot`;
- for such a client, when unload does not raise: `PublishedIsLoaded`;
- for such a client, on a backend that clears its event and with joins that do not time
  out: `CancelHasCause`.

The violations `worker_two_loads` and `worker_vllm_cancel` and the faults `late_join` and
`unload_raises` show why these assumptions are there.

The argument. `OneModelLoaded` alone is not inductive: nothing in it says that a load
past its check finds the slot still empty. `SlotInvariant` adds where a line can be
(`Bookkeeping`), where an object can be (`Objects`), that at most one load is unanswered
(`SerialLoads`), that the slot is free from a load's check to its publication and while
a release is under way (`SlotIsFree`), and where a model in memory must therefore be
(`Located`). Between the check of a load and its publication no other load exists, no
run can capture a backend that is not there, and unload and stop are refused or find
nothing; that is why publishing overwrites nothing. `ModelInUseStays` follows from the
same places, `HeatPath` follows a heated snapshot to its unload, and `PublishedHolds`
says where the slot may name an object without a model. For the refinement each action is
mapped to a step of `ModelSlot` or to a stutter, with the job taken from `task` or from the
release in progress. `CancelIsKept` needs none of this: the only step that clears an event
is the entry of a generation, and that one is the only task.

`WorkerProcess` is what is left of a worker outside it: it answers a line it was sent, once,
with "ok" or "error"; once it has accepted a stop, or met the end of its input, it answers no
further stop; and it ends cleanly only after that. The refinement rests on
`Decided`: only loads and runs have a thread, and what a thread is about to write is
decided when its function ends.

### Client

`ClientProofs` proves, for every number of calls and starts:

- under every fault: `TypeOK` and `LiveWorkerIsRecorded`;
- when start() waits for the former reader (`"late_reader" \notin Faults`):
  `AnsweredNotBlamed` and `CrashBlamesItsWorker`;
- when, besides, exit statuses are not slow: `HardStopIsNamed`.

`RecordInv` is inductive by itself: the client's process is the last one started, and it
is forgotten only once it is dead. `BlameInv` ties four pieces together. Only the last
process has a reader at work (`ReaderIsLast`); what the reader is about to say is true of
that process (`ReaderKnows`); an error in a queue is true of the process its call was
written to (`BoxIsTrue`), which needs that a registered call belongs to the last process
(`CallsInOrder`); and a reply the worker wrote is in the pipe, in the reader's hands or in
the queue for as long as its call waits (`AnswerOnItsWay`), because the reader drains the
pipe before it offers an error and a full queue refuses the error. `client_late_reader`
shows what is left of this when a former reader is still at work.

`ClientRefinement` adds:

- under every fault, `ReplyInv`: a call has one line and one end; a line waits in one pipe
  until its reply is written; a reply in a pipe, in a reader's hands or in a queue is one
  that a worker wrote to that call; stdin of a live worker stays open;
- when start() waits for the former reader: `Client` implements `RemoteCall`. A call ends
  once, with "ok" or "error" only if its worker wrote that, with a crash or hard stop only
  if the worker that took its line went down that way and wrote no reply, and with
  "not running" only if it never reached a worker;
- `ClientAllowsWorker`: each step of `WorkerProcess` but the end of input is a step of
  `Client` for the process with that number (its reply goes into the pipe, nothing else
  moves), and a live worker never meets the end of its stdin.

The last of these connects the two components. By `WorkerImplementsProcess` what the
modelled worker does is a step of `WorkerProcess`; by `ClientAllowsWorker` that is a step
`Client` is ready for; so the theorems about the client are about no tamer a worker than
the one in `Worker`. (`Worker` has all its lines waiting from the start and reads each at
any time, which covers every time at which the client may write it.) `RemoteCall` takes both invariants: `BlameInv` for what is said of
a worker, `ReplyInv` for what is said of a line.

### Commands

`CommandsProofs` and `CommandsOutcome` prove, for every set of commands and number of turns:

- under every fault, commands that run at once included: `TypeOK`, `NoWorkerLeft`,
  `RecordLostByFailureOnly`, `CompletedOnOneModel`;
- when commands follow each other (`"concurrent" \notin Faults`), over kills at any step:
  `ModelIsNamed`, `OneModelPerDirectory`, and that `Commands` implements `ModelLease`.

`LifecycleInv` is about one command and its worker: there is none before `Spawn`, the
process is forgotten only when it is dead, and a dead worker holds nothing. `PidfileInv`
adds the directory. A worker is a *danger* when it holds a model or may come to hold one
by itself, that is with a task or an unread load line; a danger is named by the pid file
(`DangerIsNamed`), each step of start() knows what the file can say (`StartKnows`), and once
a command has started its worker no other is a danger (`OthersAreSafe`). A controller that
is killed before the file is filled leaves a live worker that no file names, but it has
sent no load, so it is no danger and leaves at the end of its stdin. `commands_race` shows
why commands must follow each other.

`ModelLease` is the directory without the commands: the lease is taken when it is free and
given up when the worker it names is gone, a worker that is killed or whose controller is
killed keeps it for as long as it lives, and only the worker it names comes to hold a
model. Each step of a command or its worker is mapped to a step of it or to a stutter; a
file that is truncated and not filled yet names nobody. Besides `PidfileInv` this takes
`NamesOwnOnly`: a command that has started its worker finds no other worker named.

`RecordLost` is the theorem about records. A worker that goes down by itself, one that survives
SIGKILL, Ctrl+C that ends the worker's command loop or comes after the `try` clause, and a
write_record that raises can each cost a command its record; nothing else does, so a refused
start, a failed request, a timeout, heat, a pid file that cannot be written and Ctrl+C during a
request of the `try` clause that the worker's command loop survives all end in a record.

`OutcomeInv` follows one command to its end. `TurnInOrder`: a turn that came out well had
its reply, so no line and no task of it is left, and after heat there is no model, so the
next turn cannot come out well. `TryInOrder`: in the `try` clause a command waits only in
a load or a run, so Ctrl+C there leads where a timeout leads. `StopInOrder`, for a command that
met nothing of `LosesRecord`: its worker is up for as long as the command talks to it, the awaited unload is the last line
before the stop, and so stop() finds an idle, empty worker with no reason to refuse, to
crash the write or to leave the line in the pipe.

### What is only model-checked

The liveness properties, which need fairness, and the runs that fail. `Client` and `Worker`
are composed by two theorems about steps (`WorkerImplementsProcess` and
`ClientAllowsWorker`) and not by a third module that holds the state of both.

Assumptions on the constants: `KindAssumption`, `ThermalAssumption` (the inequality
`ThermalConfig.from_mapping` enforces), `NoneAssumption`, and the `FaultsAssumption` and
bounds of each module; TLC evaluates them on the instances.

## Observations

Behaviour met while modelling that no run is about:

- A cancel that is acknowledged while a load or the first step of a run is under way has
  no effect: worker.py:168 sets no event when no backend is published, and `generate`
  clears the event when it begins (transformers.py:99). The command then waits until
  `_wait_until_idle` gives up and terminates the worker.
- stop() of a busy worker raises WorkerRemoteError (controller.py:184 expects only
  LifecycleError and RequestTimeoutError) and leaves the worker, the pipes and the pid file
  in place. The commands ask for a stop only after an unload that was answered, so no command
  meets that refusal; what reaches the same line there is a worker that dies over the stop.
- A backend's load may raise after it has put the model into its object
  (transformers.py:81-93). The object was not published and goes with the exception, so the
  model treats it as one that holds nothing (`LoadMayRaise`).
- command_trajectory never copies a turn's thermal cancellation into the record's
  `thermal.cancelled` (cli.py:266-277), as command_run does.

## Not modelled

Prompts, tokens, timings and memory figures, which no decision of the modelled code
depends on; peaks and extrema of `ThermalState`, which only reach the record; the
stderr reader, which collects diagnostics; `wait_for_cooldown`, which has no caller;
`Thread.start` raising; memory_sample raising (it catches what the files it reads may raise);
`unlink` raising; a pipe that is full because the worker does not read, which
blocks the write of a very long line before its timeout starts; Ctrl+C between waits, or
more than once; the contents of a record other than `completion_status`, its Markdown
summary and `parse_observation`. Configuration, fixtures, evaluation, metrics, inspection,
the other commands and the PowerShell scripts are straight-line code without state.

## Plan

What is left, in this order:

1. The workers and clients that `Commands` contains shown to be those of `Worker` and
   `Client`: its worker's steps implemented by `Worker`, its requests by `RemoteCall`.
2. `Protocol`: encode, decode and validate_request over message sizes around the cap and
   malformed lines, as operators checked against each other.
3. Records: the fields a trajectory accumulates over its turns, with the thermal ones.
