-------------------------- MODULE WorkerRefinement --------------------------
(***************************************************************************)
(* Worker implements ModelSlot when its client sends loads serially: every *)
(* step of its threads is a step of the job in progress, or a stutter.     *)
(* It implements WorkerProcess for any client.                             *)
(***************************************************************************)
EXTENDS WorkerProofs

USE DEF Active, LoadPoints, RunPoints

LEMMA ModelIs ==
  ASSUME OneModelLoaded
  PROVE  /\ \A b \in Requests : loaded[b] => Model = b
         /\ (\A b \in Requests : ~loaded[b]) => Model = None
  BY DEF OneModelLoaded, Model

LEMMA ModelBecomes ==
  ASSUME OneModelLoaded'
  PROVE  /\ \A b \in Requests : loaded'[b] => Model' = b
         /\ (\A b \in Requests : ~loaded'[b]) => Model' = None
  BY DEF OneModelLoaded, Model

LEMMA SlotOneModel == SlotInvariant => OneModelLoaded
  BY NoneAssumption
     DEF SlotInvariant, TaskInvariant, OneTaskAtATime, Bookkeeping, SlotIsFree, Located,
         OneModelLoaded

(* One step of the worker is one step of the slot, or none. *)
LEMMA StepRefines ==
  ASSUME SlotInvariant, SlotInvariant', [Next]_vars
  PROVE  [Slot!Next]_(Slot!slot)
<1>m. OneModelLoaded /\ OneModelLoaded'
  BY SlotOneModel, PTL
<1>u. UNCHANGED loaded => UNCHANGED Model
  BY DEF Model
<1>t. /\ tpc \in [Requests -> TaskPoints] /\ op \in [Requests -> Operations \cup {"unread"}]
      /\ task \in Requests \cup {None} /\ cur \in Requests \cup {None} /\ loop \in LoopPoints
      /\ local \in [Requests -> Requests \cup {None}] /\ backend \in Requests \cup {None}
      /\ loaded \in [Requests -> BOOLEAN]
  BY DEF SlotInvariant, TaskInvariant, TypeOK, BackendTypeOK
<1>i. TaskInvariant /\ Objects /\ SlotIsFree /\ Located /\ ModelInUseStays
  BY DEF SlotInvariant
<1> HIDE DEF Model
<1> USE <1>t, <1>i, <1>u, NoneAssumption DEF LoopPoints
<1> USE DEF vars, backendVars, thermalVars, loopVars, slotVars, replyVars
<1> USE DEF Slot!slot, Job, TaskInvariant, OneTaskAtATime, Bookkeeping
<1> DEFINE Stutter == UNCHANGED <<Job, Model, answered>>
<1>0. Stutter => [Slot!Next]_(Slot!slot)
  OBVIOUS
<1>1. CASE UNCHANGED vars
  BY <1>1
<1>2. ASSUME NEW r \in Requests, Receive(r) PROVE [Slot!Next]_(Slot!slot)
  <2>a. loop = "read" /\ op[r] = "unread" /\ Job # r /\ r \notin answered
    BY <1>2 DEF Receive, Health, Malformed, LoadCheck, RunCheck, Cancel, TakeBackend, Read
  <2>b. \/ Stutter
        \/ Slot!Answer(r)
        \/ Slot!Begin(r)
    <3> USE <2>a DEF Read, Answer, Slot!Answer, Slot!Begin
    <3>1. CASE Health(r)
      BY <3>1 DEF Health
    <3>2. CASE Malformed(r)
      BY <3>2 DEF Malformed
    <3>3. CASE LoadCheck(r)
      BY <3>3 DEF LoadCheck
    <3>4. CASE RunCheck(r)
      BY <3>4 DEF RunCheck
    <3>5. CASE Cancel(r)
      BY <3>5 DEF Cancel
    <3>6. CASE TakeBackend(r)
      BY <3>6 DEF TakeBackend
    <3> QED
      BY <1>2, <3>1, <3>2, <3>3, <3>4, <3>5, <3>6 DEF Receive
  <2> QED
    BY <2>b, <1>0 DEF Slot!Next
<1>3. ASSUME NEW r \in Requests, LoadStart(r) \/ RunStart(r) PROVE [Slot!Next]_(Slot!slot)
  <2>1. Slot!Answer(r) \/ Slot!Begin(r)
    BY <1>3 DEF LoadStart, RunStart, RunTask, Answer, Slot!Answer, Slot!Begin
  <2> QED
    BY <2>1 DEF Slot!Next
<1>4. ASSUME NEW r \in Requests, Release(r) PROVE [Slot!Next]_(Slot!slot)
  <2>1. Job = r /\ Job' = None
    BY <1>4 DEF Release, SlotIsFree
  <2>2. \A b \in Requests : loaded[b] => b = local[r]
    BY <1>4 DEF Release, SlotIsFree, Located
  <2>3. \A b \in Requests : ~loaded'[b]
    BY <1>4, <2>2 DEF Release, BackendUnload
  <2>4. Model' = None
    BY <1>m, <2>3, ModelBecomes
  <2>5. r \notin answered /\ answered' = answered \cup {r}
    BY <1>4 DEF Release, Answer
  <2> QED
    BY <2>1, <2>4, <2>5 DEF Slot!Next, Slot!Release
<1>5. ASSUME NEW r \in Requests, TaskStep(r) \/ Generated(r) PROVE [Slot!Next]_(Slot!slot)
  <2> USE DEF Goto, Fail
  <2>1. CASE Admit(r) \/ Publish(r) \/ Seal(r) \/ StartRun(r) \/ Generate(r) \/ Snapshot(r)
             \/ Clear(r) \/ Generated(r)
    <3>1. UNCHANGED <<task, loop, cur, answered, loaded>>
      BY <2>1 DEF Admit, Publish, Seal, StartRun, Generate, EnterGenerate, Snapshot, Clear,
                  Generated
    <3> QED
      BY <3>1, <1>0
  <2>2. CASE LoadModel(r)
    <3>1. CASE Fail(r, "loading") /\ UNCHANGED loaded
      BY <2>2, <3>1, <1>0 DEF LoadModel
    <3>2. CASE BackendLoad(local[r]) /\ Goto(r, "loading", "check")
      <4>1. Job = r /\ Job' = Job /\ answered' = answered /\ local[r] = r
        BY <2>2, <3>2 DEF LoadModel, Objects
      <4>2. \A b \in Requests : ~loaded[b]
        BY <3>2 DEF Located, SlotIsFree
      <4>3. loaded'[r]
        BY <3>2, <4>1 DEF BackendLoad
      <4>4. Model = None /\ Model' = r
        BY <1>m, <4>2, <4>3, ModelIs, ModelBecomes
      <4> QED
        BY <4>1, <4>4 DEF Slot!Next, Slot!Fill
    <3> QED
      BY <2>2, <3>1, <3>2 DEF LoadModel
  <2>3. CASE CheckHeat(r)
    <3>1. CASE UNCHANGED loaded
      BY <2>3, <3>1, <1>0 DEF CheckHeat
    <3>2. CASE BackendUnload(local[r])
      <4>1. Job = r /\ Job' = Job /\ answered' = answered /\ local[r] = r
        BY <2>3 DEF CheckHeat, Objects
      <4>2. \A b \in Requests : ~loaded'[b]
        BY <2>3, <3>2, <4>1 DEF CheckHeat, Located, SlotIsFree, BackendUnload
      <4>3. Model' = None
        BY <1>m, <4>2, ModelBecomes
      <4> QED
        BY <4>1, <4>3 DEF Slot!Next, Slot!Empty
    <3> QED
      BY <2>3, <3>1, <3>2 DEF CheckHeat
  <2>4. CASE Drop(r)
    <3>1. Job = r /\ Job' = Job /\ answered' = answered
      BY <2>4 DEF Drop
    <3>2. \A b \in Requests : ~loaded'[b]
      BY <2>4 DEF Drop, Located, SlotIsFree, ModelInUseStays, BackendUnload
    <3>3. Model' = None
      BY <1>m, <3>2, ModelBecomes
    <3> QED
      BY <3>1, <3>3 DEF Slot!Next, Slot!Empty
  <2>5. CASE Finish(r)
    <3>1. Slot!End(r)
      BY <2>5 DEF Finish, SlotIsFree, Slot!End
    <3> QED
      BY <3>1 DEF Slot!Next
  <2>6. CASE Reply(r)
    <3>1. Slot!Answer(r) \/ Stutter
      BY <2>6 DEF Reply, Slot!Answer
    <3> QED
      BY <3>1, <1>0 DEF Slot!Next
  <2> QED
    BY <1>5, <2>1, <2>2, <2>3, <2>4, <2>5, <2>6 DEF TaskStep
<1>6. ASSUME NEW r \in Requests, MonitorSample(r) PROVE [Slot!Next]_(Slot!slot)
  BY <1>6, <1>0 DEF MonitorSample, Sample
<1>7. CASE EndOfInput
  BY <1>7, <1>0 DEF EndOfInput
<1>8. CASE ProcessExit
  BY <1>8, <1>0 DEF ProcessExit
<1> QED
  BY <1>1, <1>2, <1>3, <1>4, <1>5, <1>6, <1>7, <1>8 DEF Next, Step, Exited, LoopStep

(* The threads of the worker, seen from outside, are one slot with one job *)
(* at a time: ModelSlot is what a client may rely on.                      *)
THEOREM WorkerImplementsModelSlot == ASSUME SerialClient PROVE Spec => ImplementsModelSlot
<1>1. Init => Slot!Init
  BY DEF Init, BackendInit, Slot!Init, Job, Model
<1>2. SlotInvariant /\ SlotInvariant' /\ [Next]_vars => [Slot!Next]_(Slot!slot)
  BY StepRefines
<1> QED
  BY <1>1, <1>2, SlotInvariantHolds, PTL DEF Spec, ImplementsModelSlot, Slot!Spec
-----------------------------------------------------------------------------
(* What is written of a line is decided before it is answered.             *)
LEMMA OutcomeStatus ==
  /\ Pending.status = "pending" /\ Error.status = "error" /\ Ok.status = "ok"
  /\ \A c : [Ok EXCEPT !.cancelled = c].status = "ok"
  /\ \A h : [Ok EXCEPT !.hot = h].status = "ok"
  /\ \A o \in Outcomes : \A h : [o EXCEPT !.hot = h].status = o.status
  BY DEF Pending, Error, Ok, Outcomes

(* No step changes the outcome or the operation of an answered line; a     *)
(* step that decides a line leaves the others alone.                       *)
LEMMA DecidedStep ==
  ASSUME TaskInvariant, Decided, [Next]_vars
  PROVE  /\ Decided'
         /\ \A a \in answered : outcome'[a] = outcome[a] /\ op'[a] = op[a]
<1> USE DEF TaskInvariant, Bookkeeping, Decided
<1> USE DEF vars, backendVars, thermalVars, loopVars, slotVars, replyVars
<1>t. /\ tpc \in [Requests -> TaskPoints] /\ op \in [Requests -> Operations \cup {"unread"}]
      /\ outcome \in [Requests -> Outcomes] /\ answered \subseteq Requests /\ loop \in LoopPoints
  BY DEF TypeOK
<1> USE <1>t, OutcomeStatus DEF LoopPoints
<1> DEFINE Kept == \A a \in answered : outcome'[a] = outcome[a] /\ op'[a] = op[a]
<1>1. CASE UNCHANGED vars
  BY <1>1
<1>2. ASSUME NEW r \in Requests, Receive(r) PROVE Decided' /\ Kept
  <2>1. /\ op[r] = "unread" /\ tpc[r] = "idle" /\ r \notin answered /\ UNCHANGED tpc
        /\ \A a \in Requests : a # r => outcome'[a] = outcome[a] /\ op'[a] = op[a]
    BY <1>2 DEF Receive, Health, Malformed, LoadCheck, RunCheck, Cancel, TakeBackend, Read, Answer
  <2> QED
    BY <2>1
<1>3. ASSUME NEW r \in Requests, LoopStep(r) PROVE Decided' /\ Kept
  <2>1. /\ cur = r /\ tpc[r] = "idle" /\ r \notin answered /\ UNCHANGED op
        /\ tpc'[r] \in {"idle", "admit", "start"}
        /\ tpc'[r] # "idle" => op[r] \in {"load", "run"}
        /\ \A a \in Requests : a # r => outcome'[a] = outcome[a] /\ tpc'[a] = tpc[a]
    BY <1>3 DEF LoopStep, LoadStart, RunStart, RunTask, Release, Answer
  <2> QED
    BY <2>1
<1>4. ASSUME NEW r \in Requests, TaskStep(r) \/ Generated(r) PROVE Decided' /\ Kept
  <2> USE DEF Goto, Fail
  <2>1. /\ tpc[r] \notin {"idle", "done"} /\ UNCHANGED op
        /\ \A a \in Requests : a # r => outcome'[a] = outcome[a] /\ tpc'[a] = tpc[a]
    BY <1>4 DEF TaskStep, Admit, LoadModel, CheckHeat, Publish, Seal, StartRun, Generate,
                Generated, Snapshot, Drop, Clear, Finish, Reply
  <2>2. r \notin answered
    BY <2>1
  <2>3. /\ tpc'[r] \in {"snapshot", "drop", "clear"} => outcome'[r].status = "ok"
        /\ tpc'[r] \in {"finish", "reply"} => outcome'[r].status # "pending"
    <3>1. CASE Admit(r)
      BY <3>1 DEF Admit
    <3>2. CASE LoadModel(r)
      BY <3>2 DEF LoadModel
    <3>3. CASE CheckHeat(r)
      BY <3>3 DEF CheckHeat
    <3>4. CASE Publish(r) \/ StartRun(r)
      BY <3>4 DEF Publish, StartRun
    <3>5. CASE Seal(r)
      BY <3>5 DEF Seal
    <3>6. CASE Generate(r)
      BY <3>6 DEF Generate
    <3>7. CASE Generated(r)
      <4>1. CASE Fail(r, "generating")
        BY <4>1
      <4>2. ASSUME NEW c \in CancelledFlag(local[r]), Goto(r, "generating", "snapshot"),
                   outcome' = [outcome EXCEPT ![r] = [Ok EXCEPT !.cancelled = c]]
            PROVE  tpc'[r] = "snapshot" /\ outcome'[r].status = "ok"
        <5>1. outcome'[r] = [Ok EXCEPT !.cancelled = c]
          BY <4>2
        <5> QED
          BY <4>2, <5>1, Zenon
      <4> QED
        BY <3>7, <4>1, <4>2 DEF Generated
    <3>8. CASE Snapshot(r)
      <4>1. outcome'[r] = [outcome[r] EXCEPT !.hot = hot[r]]
        BY <3>8 DEF Snapshot
      <4>2. outcome'[r].status = outcome[r].status
        BY <4>1
      <4> QED
        BY <3>8, <4>2 DEF Snapshot
    <3>9. CASE Drop(r)
      BY <3>9 DEF Drop
    <3>10. CASE Clear(r) \/ Finish(r) \/ Reply(r)
      BY <3>10 DEF Clear, Finish, Reply
    <3> QED
      BY <1>4, <3>1, <3>2, <3>3, <3>4, <3>5, <3>6, <3>7, <3>8, <3>9, <3>10 DEF TaskStep
  <2> QED
    BY <2>1, <2>2, <2>3
<1>5. ASSUME NEW r \in Requests, MonitorSample(r) PROVE Decided' /\ Kept
  BY <1>5 DEF MonitorSample
<1>6. CASE EndOfInput \/ ProcessExit
  BY <1>6 DEF EndOfInput, ProcessExit
<1> QED
  BY <1>1, <1>2, <1>3, <1>4, <1>5, <1>6 DEF Next, Step, Exited

(* What the client sees is unchanged while no reply is written; a reply    *)
(* adds one line, and its request when that is a stop.                     *)
LEMMA SeenKept ==
  ASSUME \A a \in answered : outcome'[a] = outcome[a] /\ op'[a] = op[a], answered' = answered
  PROVE  Written' = Written /\ StopsAnswered' = StopsAnswered
BY DEF Written, StopsAnswered

LEMMA SeenReply ==
  ASSUME NEW r, r \notin answered, answered' = answered \cup {r},
         \A a \in answered : outcome'[a] = outcome[a] /\ op'[a] = op[a]
  PROVE  /\ Written' = Written \cup {<<r, outcome'[r].status>>}
         /\ StopsAnswered' = StopsAnswered \cup (IF op'[r] = "stop" THEN {r} ELSE {})
         /\ Requests \ answered' = (Requests \ answered) \ {r}
BY DEF Written, StopsAnswered

(* A reply that was decided, by a live process, is an Answer.              *)
LEMMA ReplyIsAnswer ==
  ASSUME NEW r \in Requests, r \notin answered, answered' = answered \cup {r},
         \A a \in answered : outcome'[a] = outcome[a] /\ op'[a] = op[a],
         outcome'[r].status \in {"ok", "error"},
         proc = "up", proc' = "up",
         op'[r] = "stop" => loop # "exited",
         \/ loop' = "exited" <=> loop = "exited"
         \/ op'[r] = "stop" /\ loop' = "exited",
         op'[r] = "stop" /\ outcome'[r].status = "ok" => loop' = "exited"
  PROVE  Seen!Next
<1>1. /\ Written' = Written \cup {<<r, outcome'[r].status>>}
      /\ StopsAnswered' = StopsAnswered \cup (IF op'[r] = "stop" THEN {r} ELSE {})
      /\ Requests \ answered' = (Requests \ answered) \ {r}
  BY SeenReply
<1>2. /\ SeenLife = IF loop = "exited" THEN "stopping" ELSE "running"
      /\ SeenLife' = IF loop' = "exited" THEN "stopping" ELSE "running"
      /\ SeenCode = "none" /\ SeenCode' = "none"
  BY DEF SeenLife, SeenCode
<1> DEFINE stop == op'[r] = "stop"
<1>3. Seen!Answer(r, outcome'[r].status, stop)
  <2>1. Seen!Live
    BY <1>2 DEF Seen!Live
  <2>2. stop => SeenLife = "running"
    BY <1>2
  <2>3. \/ ~(stop /\ outcome'[r].status = "ok") /\ SeenLife' = SeenLife
        \/ stop /\ SeenLife' = "stopping"
    BY <1>2
  <2> QED
    BY <1>1, <1>2, <2>1, <2>2, <2>3 DEF Seen!Answer
<1>4. stop \in BOOLEAN
  OBVIOUS
<1> QED
  BY <1>3, <1>4 DEF Seen!Next

(* A step of the worker is one a WorkerProcess may take, or invisible.     *)
LEMMA StepSeen ==
  ASSUME TaskInvariant, Decided, [Next]_vars
  PROVE  [Seen!Next]_(Seen!process)
<1> DEFINE Quiet == UNCHANGED Seen!process
<1> USE DEF vars, backendVars, thermalVars, loopVars, slotVars, replyVars
<1>k. Decided' /\ \A a \in answered : outcome'[a] = outcome[a] /\ op'[a] = op[a]
  BY DecidedStep
<1>t. /\ tpc \in [Requests -> TaskPoints] /\ op \in [Requests -> Operations \cup {"unread"}]
      /\ outcome \in [Requests -> Outcomes] /\ answered \subseteq Requests /\ loop \in LoopPoints
      /\ proc \in {"up", "hard_stop", "ended"}
  BY DEF TaskInvariant, TypeOK, ThermalTypeOK
<1>q. ASSUME answered' = answered, proc' = proc, loop' = "exited" <=> loop = "exited"
      PROVE  Quiet
  BY <1>q, <1>k, SeenKept DEF Seen!process, SeenLife, SeenCode
<1>1. CASE UNCHANGED vars
  BY <1>1, <1>q
<1>2. ASSUME NEW r \in Requests, Receive(r), proc = "up" PROVE Seen!Next \/ Quiet
  <2>1. /\ loop = "read" /\ op[r] = "unread" /\ r \notin answered /\ proc' = proc
        /\ \/ answered' = answered /\ loop' # "exited"
           \/ /\ answered' = answered \cup {r} /\ loop' = loop
              /\ \/ outcome'[r] = Error
                 \/ /\ op'[r] # "stop"
                    /\ \/ outcome'[r] = Ok
                       \/ \E c \in BOOLEAN : outcome'[r] = [Ok EXCEPT !.cancelled = c]
    <3> USE <1>t, <1>2 DEF TaskInvariant, Bookkeeping, Read, Answer
    <3>1. CASE Health(r) \/ Malformed(r)
      BY <3>1 DEF Health, Malformed
    <3>2. CASE LoadCheck(r) \/ RunCheck(r)
      BY <3>2 DEF LoadCheck, RunCheck
    <3>3. CASE Cancel(r)
      BY <3>3 DEF Cancel
    <3>4. CASE TakeBackend(r)
      BY <3>4 DEF TakeBackend
    <3> QED
      BY <1>2, <3>1, <3>2, <3>3, <3>4 DEF Receive
  <2>2. CASE answered' = answered
    BY <2>1, <2>2, <1>q
  <2>3. CASE answered' = answered \cup {r} /\ answered' # answered
    <3>1. loop' = loop /\ outcome'[r].status \in {"ok", "error"}
          /\ (op'[r] = "stop" => outcome'[r].status = "error")
      <4>1. CASE \E c \in BOOLEAN : outcome'[r] = [Ok EXCEPT !.cancelled = c] /\ op'[r] # "stop"
        <5>1. outcome'[r].status = "ok"
          BY <4>1, OutcomeStatus, Zenon
        <5> QED
          BY <2>1, <2>3, <4>1, <5>1
      <4> QED
        BY <2>1, <2>3, <4>1, OutcomeStatus
    <3> QED
      BY <1>2, <1>k, <2>1, <2>3, <3>1, ReplyIsAnswer
  <2> QED
    BY <2>1, <2>2, <2>3
<1>3. ASSUME NEW r \in Requests, LoopStep(r), proc = "up" PROVE Seen!Next \/ Quiet
  <2>1. /\ loop # "exited" /\ r \notin answered /\ proc' = proc /\ op' = op
        /\ \/ answered' = answered /\ loop' # "exited"
           \/ /\ answered' = answered \cup {r}
              /\ \E o \in {Ok, Error} : outcome'[r] = o
              /\ IF op[r] = "stop" THEN loop' = "exited" ELSE loop' # "exited"
    <3> USE <1>t, <1>3 DEF TaskInvariant, Bookkeeping, Answer
    <3>1. CASE LoadStart(r) \/ RunStart(r)
      BY <3>1 DEF LoadStart, RunStart, RunTask
    <3>2. CASE Release(r)
      BY <3>2 DEF Release
    <3> QED
      BY <1>3, <3>1, <3>2 DEF LoopStep
  <2>2. CASE answered' = answered
    BY <2>1, <2>2, <1>q
  <2>3. CASE answered' = answered \cup {r} /\ answered' # answered
    <3>1. outcome'[r].status \in {"ok", "error"}
      BY <2>1, <2>3, OutcomeStatus
    <3> QED
      BY <1>3, <1>k, <2>1, <2>3, <3>1, ReplyIsAnswer
  <2> QED
    BY <2>1, <2>2, <2>3
<1>4. ASSUME NEW r \in Requests, Reply(r), proc = "up" PROVE Seen!Next \/ Quiet
  <2>1. /\ r \notin answered /\ proc' = proc /\ op' = op /\ outcome' = outcome /\ loop' = loop
        /\ tpc[r] = "reply"
        /\ \/ answered' = answered
           \/ answered' = answered \cup {r}
    BY <1>4, <1>t DEF TaskInvariant, Bookkeeping, Reply, Goto
  <2>2. outcome[r].status \in {"ok", "error"} /\ op[r] # "stop"
    BY <2>1, <1>t, <1>4 DEF Decided, Outcomes
  <2>3. CASE answered' = answered \cup {r} /\ answered' # answered
    BY <1>4, <1>k, <2>1, <2>2, <2>3, ReplyIsAnswer
  <2> QED
    BY <2>1, <2>3, <1>q
<1>5. ASSUME NEW r \in Requests, (TaskStep(r) /\ ~Reply(r)) \/ Generated(r) PROVE Quiet
  <2>1. answered' = answered /\ proc' = proc /\ loop' = loop
    BY <1>5 DEF TaskStep, Admit, LoadModel, CheckHeat, Publish, Seal, StartRun, Generate,
                Generated, Snapshot, Drop, Clear, Finish
  <2> QED
    BY <2>1, <1>q
<1>6. ASSUME NEW r \in Requests, MonitorSample(r), proc = "up" PROVE Seen!Next \/ Quiet
  <2>1. /\ answered' = answered /\ outcome' = outcome /\ op' = op /\ loop' = loop
        /\ proc' \in {proc, "hard_stop"}
    BY <1>6 DEF MonitorSample, Sample
  <2>2. CASE proc' = "hard_stop"
    <3>1. Seen!Exit("hard_stop")
      BY <1>6, <1>k, <2>1, <2>2, SeenKept DEF Seen!Exit, Seen!Live, SeenLife, SeenCode
    <3> QED
      BY <3>1 DEF Seen!Next
  <2> QED
    BY <2>1, <2>2, <1>q
<1>7. CASE EndOfInput /\ proc = "up"
  <2>1. Seen!EndOfInput
    BY <1>7, <1>k, SeenKept DEF EndOfInput, Seen!EndOfInput, SeenLife, SeenCode
  <2> QED
    BY <2>1 DEF Seen!Next
<1>8. CASE ProcessExit /\ proc = "up"
  <2>1. Seen!Exit("clean")
    BY <1>8, <1>k, SeenKept DEF ProcessExit, Seen!Exit, Seen!Live, SeenLife, SeenCode
  <2> QED
    BY <2>1 DEF Seen!Next
<1> QED
  BY <1>1, <1>2, <1>3, <1>4, <1>5, <1>6, <1>7, <1>8 DEF Next, Step, Exited

(* Every line gets at most one reply, which never changes; only a stop or  *)
(* the end of stdin ends serve; a process ends cleanly after that alone.   *)
(* Whatever the client sends and whatever fails, a worker is a             *)
(* WorkerProcess.                                                          *)
THEOREM WorkerImplementsProcess == Spec => ImplementsWorkerProcess
<1>1. Init => Seen!Init /\ Decided
  BY DEF Init, ThermalInit, Seen!Init, SeenLife, SeenCode, Written, StopsAnswered, Decided
<1>2. TaskInvariant /\ Decided /\ [Next]_vars => Decided' /\ [Seen!Next]_(Seen!process)
  BY DecidedStep, StepSeen
<1> QED
  BY <1>1, <1>2, TaskInvariantHolds, PTL DEF Spec, ImplementsWorkerProcess, Seen!Spec
=============================================================================
