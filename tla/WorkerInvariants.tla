-------------------------- MODULE WorkerInvariants --------------------------
(***************************************************************************)
(* The inductive invariant behind the safety properties of Worker, in      *)
(* named parts, and the mapping under which Worker implements ModelSlot.   *)
(***************************************************************************)
EXTENDS Worker

LoadPoints == {"admit", "loading", "check", "publish", "seal"}
RunPoints == {"start", "enter", "generating", "snapshot", "drop", "clear"}

(* A thread runs the code of its own operation; a line that is unread, or  *)
(* still being handled, has neither a thread nor a reply; a request with a *)
(* thread has no reply until the thread writes it.                         *)
Bookkeeping ==
  /\ \A r \in Requests :
       /\ tpc[r] \in LoadPoints => op[r] = "load"
       /\ tpc[r] \in RunPoints => op[r] = "run"
       /\ op[r] = "unread" => tpc[r] = "idle" /\ r \notin answered
       /\ tpc[r] \notin {"idle", "done"} => r \notin answered
  /\ loop \in {"start_load", "start_run", "release"} =>
       /\ cur \in Requests /\ tpc[cur] = "idle" /\ cur \notin answered
       /\ loop = "start_load" => op[cur] = "load"
       /\ loop = "start_run" => op[cur] = "run"
       /\ loop = "release" => op[cur] \in {"unload", "stop"}
  /\ loop \in {"read", "exited"} => cur = None

(* Where a backend object can be: a load works on its own object, and an   *)
(* object another handler holds was published, so its load is past that.   *)
Past(b) == tpc[b] \in {"seal", "finish", "reply", "done"}

Objects ==
  \A r \in Requests :
    /\ tpc[r] \in {"loading", "check", "publish", "seal"} => local[r] = r
    /\ op[r] # "load" /\ local[r] # None => Past(local[r])
    /\ tpc[r] \in RunPoints => local[r] # None
    /\ loop = "start_run" /\ cur = r => local[r] # None
    /\ backend = r => Past(r)

(* At most one load is unanswered. *)
SerialLoads ==
  \A p, q \in Requests :
    op[p] = "load" /\ op[q] = "load" /\ p \notin answered /\ q \notin answered => p = q

(* Nothing is published from the check of a load to its publication, nor   *)
(* while unload and stop release what they took.                           *)
SlotIsFree ==
  /\ loop = "start_load" => backend = None
  /\ \A r \in Requests : tpc[r] \in {"admit", "loading", "check", "publish"} => backend = None
  /\ loop = "release" => backend = None /\ task = None

(* A model in memory is published, about to be, or being released; past    *)
(* the thermal unload it is gone.                                          *)
Located ==
  \A b \in Requests :
    /\ loaded[b] => \/ backend = b
                    \/ tpc[b] \in {"check", "publish"}
                    \/ loop = "release" /\ local[cur] = b
    /\ tpc[b] = "clear" => ~loaded[local[b]]

(* How a thermal snapshot leads to the unload. *)
HeatPath ==
  \A r \in Requests :
    /\ op[r] = "run" /\ outcome[r].hot =>
         \/ tpc[r] = "drop"
         \/ /\ tpc[r] \in {"clear", "finish", "reply", "done"}
            /\ local[r] # None /\ ~loaded[local[r]]
    /\ op[r] = "unread" => ~outcome[r].hot

(* Without the fault late_join and on a backend that clears its event, an  *)
(* event set during a generation was set for it, and so was the flag read  *)
(* from it.                                                                *)
EventHasCause ==
  /\ \A r \in Requests : mon[r] # "late"
  /\ proc = "up" =>
       \A r \in Requests : tpc[r] = "generating" /\ event[local[r]] => hot[r] \/ r \in acked
  /\ \A r \in Requests : op[r] = "unread" => ~outcome[r].cancelled

(* Without the fault unload_raises the published object has lost its model *)
(* only between a thermal unload and the section that clears the slot.     *)
PublishedHolds ==
  /\ backend # None => \/ loaded[backend]
                       \/ \E r \in Requests : tpc[r] = "clear" /\ local[r] = backend
  /\ \A r \in Requests : tpc[r] \in {"check", "publish"} => loaded[r]

(* Only loads and runs have a thread, and what it is about to write is     *)
(* decided when its function ends.                                         *)
Decided ==
  \A r \in Requests :
    /\ tpc[r] # "idle" => op[r] \in {"load", "run"}
    /\ tpc[r] \in {"snapshot", "drop", "clear"} => outcome[r].status = "ok"
    /\ tpc[r] \in {"finish", "reply"} => outcome[r].status # "pending"

(* The parts that hold whatever the client sends. *)
TaskInvariant == TypeOK /\ OneTaskAtATime /\ Bookkeeping

(* The whole invariant, for a client whose loads are serial. *)
SlotInvariant ==
  /\ TaskInvariant /\ Objects /\ SerialLoads /\ SlotIsFree /\ Located
  /\ ModelInUseStays /\ HeatPath

-----------------------------------------------------------------------------
(* Worker implements ModelSlot: the job is the task, or the unload or stop *)
(* that is releasing a backend; the model is the object that holds one.    *)
Job == IF task # None THEN task ELSE IF loop = "release" THEN cur ELSE None

Model == IF \E b \in Requests : loaded[b]
           THEN CHOOSE b \in Requests : loaded[b] ELSE None

Slot == INSTANCE ModelSlot WITH job <- Job, model <- Model, replied <- answered

(* One model, one job, one reply: see ModelSlot. *)
ImplementsModelSlot == Slot!Spec

-----------------------------------------------------------------------------
(* Worker implements WorkerProcess: every line that has no reply is on its *)
(* way, and serve has returned when the loop has ended.                    *)
SeenLife == IF proc # "up" THEN "closing" ELSE IF loop = "exited" THEN "stopping" ELSE "running"

SeenCode == CASE proc = "up" -> "none" [] proc = "ended" -> "clean" [] OTHER -> proc

Written == {<<r, outcome[r].status>> : r \in answered}

StopsAnswered == {r \in answered : op[r] = "stop"}

Seen == INSTANCE WorkerProcess
          WITH Lines <- Requests, life <- SeenLife, code <- SeenCode,
               inbox <- Requests \ answered, answers <- Written, stops <- StopsAnswered

(* No line is answered twice, no reply is changed or undecided, no stop is *)
(* answered after one that was accepted, and the process ends cleanly only *)
(* after its loop: what Client assumes of a worker (see WorkerProcess).    *)
ImplementsWorkerProcess == Seen!Spec
=============================================================================
