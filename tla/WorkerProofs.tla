---------------------------- MODULE WorkerProofs ----------------------------
(***************************************************************************)
(* Proofs about Worker, for every set of requests, readings and faults.    *)
(***************************************************************************)
EXTENDS WorkerInvariants, TLAPS

USE DEF Active, LoadPoints, RunPoints

(* What the actions store as an outcome is one. *)
LEMMA OutcomeTypes ==
  /\ Pending \in Outcomes /\ Error \in Outcomes /\ Ok \in Outcomes
  /\ \A c \in BOOLEAN : [Ok EXCEPT !.cancelled = c] \in Outcomes
  /\ \A h \in BOOLEAN : [Ok EXCEPT !.hot = h] \in Outcomes
  /\ \A o \in Outcomes, h \in BOOLEAN : [o EXCEPT !.hot = h] \in Outcomes
  BY DEF Outcomes, Pending, Error, Ok

(* The helpers keep the types of what they write. *)
LEMMA HelperTypes ==
  ASSUME TypeOK, NEW r \in Requests
  PROVE  /\ \A o \in Outcomes : Answer(r, o) =>
              outcome' \in [Requests -> Outcomes] /\ answered' \subseteq Requests
         /\ \A x, y \in TaskPoints : Goto(r, x, y) => tpc' \in [Requests -> TaskPoints]
         /\ StopMonitor(r) => mon' \in [Requests -> {"none", "sampling", "late", "stopped"}]
         /\ StartMonitor(r) => mon' \in [Requests -> {"none", "sampling", "late", "stopped"}]
         /\ \A b : BackendUnload(b) \/ BackendLoad(b) \/ EnterGenerate(b) =>
              loaded' \in [Requests -> BOOLEAN] /\ event' \in [Requests -> BOOLEAN]
         /\ \A b : SetCancel(b) => event' \in [Requests -> BOOLEAN]
<1> USE DEF TypeOK, BackendTypeOK, ThermalTypeOK
<1>1. ASSUME NEW o \in Outcomes, Answer(r, o)
      PROVE  outcome' \in [Requests -> Outcomes] /\ answered' \subseteq Requests
  BY <1>1 DEF Answer
<1>2. ASSUME NEW x \in TaskPoints, NEW y \in TaskPoints, Goto(r, x, y)
      PROVE  tpc' \in [Requests -> TaskPoints]
  BY <1>2 DEF Goto
<1>3. StopMonitor(r) => mon' \in [Requests -> {"none", "sampling", "late", "stopped"}]
  BY DEF StopMonitor
<1>4. StartMonitor(r) => mon' \in [Requests -> {"none", "sampling", "late", "stopped"}]
  BY DEF StartMonitor
<1>5. ASSUME NEW b, BackendUnload(b) \/ BackendLoad(b) \/ EnterGenerate(b)
      PROVE  loaded' \in [Requests -> BOOLEAN] /\ event' \in [Requests -> BOOLEAN]
  <2>1. CASE BackendUnload(b)
    BY <2>1 DEF BackendUnload
  <2>2. CASE BackendLoad(b)
    <3>1. ((Kind = "vllm") /\ event[b]) \in BOOLEAN
      OBVIOUS
    <3> QED
      BY <2>2, <3>1 DEF BackendLoad
  <2>3. CASE EnterGenerate(b)
    <3>1. ((Kind = "vllm") /\ event[b]) \in BOOLEAN
      OBVIOUS
    <3> QED
      BY <2>3, <3>1 DEF EnterGenerate
  <2> QED
    BY <1>5, <2>1, <2>2, <2>3
<1>6. ASSUME NEW b, SetCancel(b) PROVE event' \in [Requests -> BOOLEAN]
  BY <1>6 DEF SetCancel
<1> QED
  BY <1>1, <1>2, <1>3, <1>4, <1>5, <1>6

(* A task that fails goes to its end with an error and its monitor stopped. *)
LEMMA FailTypes ==
  ASSUME TypeOK, NEW r \in Requests, NEW x \in TaskPoints, Fail(r, x)
  PROVE  /\ tpc' \in [Requests -> TaskPoints]
         /\ outcome' \in [Requests -> Outcomes]
         /\ mon' \in [Requests -> {"none", "sampling", "late", "stopped"}]
<1>1. outcome' \in [Requests -> Outcomes]
  BY OutcomeTypes DEF TypeOK, Fail
<1>2. Goto(r, x, "finish") /\ StopMonitor(r)
  BY DEF Fail
<1> QED
  BY <1>1, <1>2, HelperTypes DEF TaskPoints

(* Every step keeps the types: the message loop, the three kinds of thread *)
(* and the faults write only values of the declared sets.                  *)
LEMMA TypeStep == TypeOK /\ [Next]_vars => TypeOK'
<1> SUFFICES ASSUME TypeOK, [Next]_vars PROVE TypeOK'
  OBVIOUS
<1> USE OutcomeTypes, HelperTypes
<1> USE DEF TypeOK, BackendTypeOK, ThermalTypeOK, LoopPoints, TaskPoints, Operations
<1> USE DEF vars, backendVars, thermalVars, loopVars, slotVars, replyVars
<1>1. CASE UNCHANGED vars
  BY <1>1
<1>2. ASSUME NEW r \in Requests, Receive(r) PROVE TypeOK'
  <2>1. CASE Health(r)
    BY <2>1 DEF Health, Read
  <2>2. CASE Malformed(r)
    BY <2>2 DEF Malformed, Read
  <2>3. CASE LoadCheck(r)
    BY <2>3 DEF LoadCheck, Read
  <2>4. CASE RunCheck(r)
    <3>1. op' \in [Requests -> Operations \cup {"unread"}]
      BY <2>4 DEF RunCheck, Read
    <3>2. CASE Answer(r, Error) /\ UNCHANGED <<loopVars, local>>
      BY <2>4, <3>1, <3>2 DEF RunCheck
    <3>3. CASE ~(Answer(r, Error) /\ UNCHANGED <<loopVars, local>>)
      BY <2>4, <3>1, <3>3 DEF RunCheck
    <3> QED
      BY <3>2, <3>3
  <2>5. CASE Cancel(r)
    <3>1. [Ok EXCEPT !.cancelled = (task # None)] \in Outcomes
      BY DEF Outcomes, Ok, Pending
    <3> QED
      BY <2>5, <3>1 DEF Cancel, Read
  <2>6. CASE TakeBackend(r)
    <3>1. op' \in [Requests -> Operations \cup {"unread"}]
      BY <2>6 DEF TakeBackend, Read
    <3> QED
      BY <2>6, <3>1, SMTT(20) DEF TakeBackend
  <2> QED
    BY <1>2, <2>1, <2>2, <2>3, <2>4, <2>5, <2>6 DEF Receive
<1>3. ASSUME NEW r \in Requests, LoopStep(r) PROVE TypeOK'
  <2>1. CASE LoadStart(r)
    BY <2>1 DEF LoadStart, RunTask
  <2>2. CASE RunStart(r)
    BY <2>2 DEF RunStart, RunTask
  <2>3. CASE Release(r)
    BY <2>3 DEF Release
  <2> QED
    BY <1>3, <2>1, <2>2, <2>3 DEF LoopStep
<1>4. ASSUME NEW r \in Requests, TaskStep(r) PROVE TypeOK'
  <2>1. CASE Admit(r)
    <3>1. local' \in [Requests -> Requests \cup {None}]
      BY <2>1 DEF Admit
    <3>2. CASE Fail(r, "admit")
      BY <2>1, <3>1, <3>2, FailTypes DEF Admit
    <3>3. CASE ~Fail(r, "admit")
      BY <2>1, <3>1, <3>3 DEF Admit
    <3> QED
      BY <3>2, <3>3
  <2>2. CASE LoadModel(r)
    BY <2>2, FailTypes, SMTT(20) DEF LoadModel
  <2>3. CASE CheckHeat(r)
    BY <2>3, FailTypes, SMTT(20) DEF CheckHeat
  <2>4. CASE Publish(r)
    BY <2>4 DEF Publish
  <2>5. CASE Seal(r)
    BY <2>5 DEF Seal
  <2>6. CASE StartRun(r)
    BY <2>6 DEF StartRun
  <2>7. CASE Generate(r)
    BY <2>7, FailTypes, SMTT(20) DEF Generate
  <2>8. CASE Snapshot(r)
    BY <2>8, SMTT(20) DEF Snapshot
  <2>9. CASE Drop(r)
    BY <2>9, FailTypes, SMTT(20) DEF Drop
  <2>10. CASE Clear(r)
    BY <2>10 DEF Clear
  <2>11. CASE Finish(r)
    BY <2>11 DEF Finish
  <2>12. CASE Reply(r)
    BY <2>12, SMTT(20) DEF Reply
  <2> QED
    BY <1>4, <2>1, <2>2, <2>3, <2>4, <2>5, <2>6, <2>7, <2>8, <2>9, <2>10, <2>11, <2>12
       DEF TaskStep
<1>5. ASSUME NEW r \in Requests, Generated(r) PROVE TypeOK'
  <2>1. CancelledFlag(local[r]) \subseteq BOOLEAN
    BY DEF CancelledFlag
  <2>2. CASE Fail(r, "generating")
    BY <1>5, <2>2, FailTypes DEF Generated
  <2>3. CASE ~Fail(r, "generating")
    <3>1. PICK c \in CancelledFlag(local[r]) :
            outcome' = [outcome EXCEPT ![r] = [Ok EXCEPT !.cancelled = c]]
      BY <1>5, <2>3 DEF Generated
    <3>2. [Ok EXCEPT !.cancelled = c] \in Outcomes
      BY <2>1
    <3>3. outcome' \in [Requests -> Outcomes]
      BY <3>1, <3>2
    <3> QED
      BY <1>5, <2>3, <3>3 DEF Generated
  <2> QED
    BY <2>2, <2>3
<1>6. ASSUME NEW r \in Requests, MonitorSample(r) PROVE TypeOK'
  <2>1. PICK t : Sample(r, local[r], t)
    BY <1>6 DEF MonitorSample
  <2>2. mon' \in [Requests -> {"none", "sampling", "late", "stopped"}]
    BY <2>1 DEF Sample
  <2>3. hot' \in [Requests -> BOOLEAN] /\ event' \in [Requests -> BOOLEAN]
    BY <2>1 DEF Sample
  <2>4. proc' \in {"up", "hard_stop", "ended"} /\ UNCHANGED loaded
    BY <2>1 DEF Sample
  <2> QED
    BY <1>6, <2>2, <2>3, <2>4 DEF MonitorSample
<1>7. CASE EndOfInput
  BY <1>7 DEF EndOfInput
<1>8. CASE ProcessExit
  BY <1>8 DEF ProcessExit
<1> QED
  BY <1>1, <1>2, <1>3, <1>4, <1>5, <1>6, <1>7, <1>8 DEF Next, Step, Exited

(* Every variable keeps to its declared set in every behaviour of the      *)
(* worker: no step of any thread writes a value outside it.                *)
THEOREM TypeCorrect == Spec => []TypeOK
<1>1. Init => TypeOK
  BY DEF Init, TypeOK, BackendInit, ThermalInit, BackendTypeOK, ThermalTypeOK,
         LoopPoints, TaskPoints, Operations, Outcomes, Pending
<1> QED
  BY <1>1, TypeStep, PTL DEF Spec
-----------------------------------------------------------------------------
(* Which thread may do what: self.task names the one active task, and a    *)
(* request has a thread, a reply or the attention of the loop, never two.  *)
LEMMA TaskStepKeeps ==
  TaskInvariant /\ [Next]_vars => (OneTaskAtATime /\ Bookkeeping)'
<1> SUFFICES ASSUME TaskInvariant, [Next]_vars
             PROVE  (OneTaskAtATime /\ Bookkeeping)'
  OBVIOUS
<1> USE DEF TaskInvariant, OneTaskAtATime, Bookkeeping
<1> USE DEF vars, loopVars, slotVars, replyVars
<1>t. /\ tpc \in [Requests -> TaskPoints] /\ op \in [Requests -> Operations \cup {"unread"}]
      /\ task \in Requests \cup {None} /\ cur \in Requests \cup {None} /\ loop \in LoopPoints
  BY DEF TypeOK
<1> USE <1>t, NoneAssumption DEF LoopPoints
<1>1. CASE UNCHANGED vars
  BY <1>1
<1>2. ASSUME NEW r \in Requests, Receive(r) PROVE (OneTaskAtATime /\ Bookkeeping)'
  <2> USE DEF Read, Answer
  <2>1. CASE Health(r)
    BY <2>1 DEF Health
  <2>2. CASE Malformed(r)
    BY <2>2 DEF Malformed
  <2>3. CASE LoadCheck(r)
    BY <2>3 DEF LoadCheck
  <2>4. CASE RunCheck(r)
    BY <2>4 DEF RunCheck
  <2>5. CASE Cancel(r)
    BY <2>5 DEF Cancel
  <2>6. CASE TakeBackend(r)
    BY <2>6 DEF TakeBackend
  <2> QED
    BY <1>2, <2>1, <2>2, <2>3, <2>4, <2>5, <2>6 DEF Receive
<1>3. ASSUME NEW r \in Requests, LoopStep(r) PROVE (OneTaskAtATime /\ Bookkeeping)'
  <2> USE DEF Answer
  <2>1. CASE LoadStart(r)
    BY <2>1 DEF LoadStart, RunTask
  <2>2. CASE RunStart(r)
    BY <2>2 DEF RunStart, RunTask
  <2>3. CASE Release(r)
    BY <2>3 DEF Release
  <2> QED
    BY <1>3, <2>1, <2>2, <2>3 DEF LoopStep
<1>4. ASSUME NEW r \in Requests, TaskStep(r) PROVE (OneTaskAtATime /\ Bookkeeping)'
  <2> USE DEF Goto, Fail
  <2>1. CASE Admit(r)
    BY <2>1 DEF Admit
  <2>2. CASE LoadModel(r)
    BY <2>2 DEF LoadModel
  <2>3. CASE CheckHeat(r)
    BY <2>3 DEF CheckHeat
  <2>4. CASE Publish(r)
    BY <2>4 DEF Publish
  <2>5. CASE Seal(r)
    BY <2>5 DEF Seal
  <2>6. CASE StartRun(r)
    BY <2>6 DEF StartRun
  <2>7. CASE Generate(r)
    BY <2>7 DEF Generate
  <2>8. CASE Snapshot(r)
    BY <2>8 DEF Snapshot
  <2>9. CASE Drop(r)
    BY <2>9 DEF Drop
  <2>10. CASE Clear(r)
    BY <2>10 DEF Clear
  <2>11. CASE Finish(r)
    BY <2>11 DEF Finish
  <2>12. CASE Reply(r)
    BY <2>12 DEF Reply
  <2> QED
    BY <1>4, <2>1, <2>2, <2>3, <2>4, <2>5, <2>6, <2>7, <2>8, <2>9, <2>10, <2>11, <2>12
       DEF TaskStep
<1>5. ASSUME NEW r \in Requests, Generated(r) PROVE (OneTaskAtATime /\ Bookkeeping)'
  BY <1>5 DEF Generated, Goto, Fail
<1>6. ASSUME NEW r \in Requests, MonitorSample(r) PROVE (OneTaskAtATime /\ Bookkeeping)'
  BY <1>6 DEF MonitorSample
<1>7. CASE EndOfInput
  BY <1>7 DEF EndOfInput
<1>8. CASE ProcessExit
  BY <1>8 DEF ProcessExit
<1> QED
  BY <1>1, <1>2, <1>3, <1>4, <1>5, <1>6, <1>7, <1>8 DEF Next, Step, Exited

LEMMA InitTask == Init => TaskInvariant
<1>1. Init => TypeOK
  BY DEF Init, TypeOK, BackendInit, ThermalInit, BackendTypeOK, ThermalTypeOK,
         LoopPoints, TaskPoints, Operations, Outcomes, Pending
<1>2. Init => OneTaskAtATime /\ Bookkeeping
  BY NoneAssumption DEF Init, OneTaskAtATime, Bookkeeping
<1> QED
  BY <1>1, <1>2 DEF TaskInvariant

LEMMA TaskInvariantHolds == Spec => []TaskInvariant
<1>1. TaskInvariant /\ [Next]_vars => TaskInvariant'
  BY TypeStep, TaskStepKeeps DEF TaskInvariant
<1> QED
  BY <1>1, InitTask, PTL DEF Spec

(* Whatever is read, answered, cancelled or sampled, and in whatever       *)
(* order: self.task is exactly the one load or run that is running.        *)
THEOREM OneTask == Spec => []OneTaskAtATime
<1>1. TaskInvariant => OneTaskAtATime
  BY DEF TaskInvariant
<1> QED
  BY <1>1, TaskInvariantHolds, PTL

-----------------------------------------------------------------------------
(* Where the objects are.                                                  *)

(* A handler holds its own object, or one a load has published. *)
LEMMA ObjectsStep ==
  ASSUME TaskInvariant, Objects, [Next]_vars
  PROVE  Objects'
<1> USE DEF TaskInvariant, OneTaskAtATime, Bookkeeping, Objects, SlotIsFree, Past
<1> USE DEF vars, backendVars, thermalVars, loopVars, slotVars, replyVars
<1>t. /\ tpc \in [Requests -> TaskPoints] /\ op \in [Requests -> Operations \cup {"unread"}]
      /\ task \in Requests \cup {None} /\ cur \in Requests \cup {None} /\ loop \in LoopPoints
      /\ local \in [Requests -> Requests \cup {None}] /\ backend \in Requests \cup {None}
  BY DEF TypeOK
<1> USE <1>t, NoneAssumption DEF LoopPoints
<1>1. CASE UNCHANGED vars
  BY <1>1
<1>2. ASSUME NEW r \in Requests, Receive(r) PROVE Objects'
  <2> USE DEF Read, Answer
  <2>1. CASE Health(r)
    BY <2>1 DEF Health
  <2>2. CASE Malformed(r)
    BY <2>2 DEF Malformed
  <2>3. CASE LoadCheck(r)
    BY <2>3 DEF LoadCheck
  <2>4. CASE RunCheck(r)
    BY <2>4 DEF RunCheck
  <2>5. CASE Cancel(r)
    BY <2>5 DEF Cancel
  <2>6. CASE TakeBackend(r)
    BY <2>6 DEF TakeBackend
  <2> QED
    BY <1>2, <2>1, <2>2, <2>3, <2>4, <2>5, <2>6 DEF Receive
<1>3. ASSUME NEW r \in Requests, LoopStep(r) PROVE Objects'
  <2> USE DEF Answer, RunTask
  <2>1. CASE LoadStart(r)
    BY <2>1 DEF LoadStart
  <2>2. CASE RunStart(r)
    BY <2>2 DEF RunStart
  <2>3. CASE Release(r)
    BY <2>3 DEF Release
  <2> QED
    BY <1>3, <2>1, <2>2, <2>3 DEF LoopStep
<1>4. ASSUME NEW r \in Requests, TaskStep(r) PROVE Objects'
  <2> USE DEF Goto, Fail
  <2>1. CASE Admit(r)
    BY <2>1 DEF Admit
  <2>2. CASE LoadModel(r)
    BY <2>2 DEF LoadModel
  <2>3. CASE CheckHeat(r)
    BY <2>3 DEF CheckHeat
  <2>4. CASE Publish(r)
    BY <2>4 DEF Publish
  <2>5. CASE Seal(r)
    BY <2>5 DEF Seal
  <2>6. CASE StartRun(r)
    BY <2>6 DEF StartRun
  <2>7. CASE Generate(r)
    BY <2>7 DEF Generate
  <2>8. CASE Snapshot(r)
    BY <2>8 DEF Snapshot
  <2>9. CASE Drop(r)
    BY <2>9 DEF Drop
  <2>10. CASE Clear(r)
    BY <2>10 DEF Clear
  <2>11. CASE Finish(r)
    BY <2>11 DEF Finish
  <2>12. CASE Reply(r)
    BY <2>12 DEF Reply
  <2> QED
    BY <1>4, <2>1, <2>2, <2>3, <2>4, <2>5, <2>6, <2>7, <2>8, <2>9, <2>10, <2>11, <2>12
       DEF TaskStep
<1>5. ASSUME NEW r \in Requests, Generated(r) PROVE Objects'
  BY <1>5 DEF Generated, Goto, Fail
<1>6. ASSUME NEW r \in Requests, MonitorSample(r) PROVE Objects'
  BY <1>6 DEF MonitorSample
<1>7. CASE EndOfInput
  BY <1>7 DEF EndOfInput
<1>8. CASE ProcessExit
  BY <1>8 DEF ProcessExit
<1> QED
  BY <1>1, <1>2, <1>3, <1>4, <1>5, <1>6, <1>7, <1>8 DEF Next, Step, Exited

(* Two loads are never unanswered together. *)
LEMMA SerialStep ==
  ASSUME "pipelined_load" \notin Faults, TaskInvariant, SerialLoads, [Next]_vars
  PROVE  SerialLoads'
<1> USE DEF TaskInvariant, OneTaskAtATime, Bookkeeping, Objects, SerialLoads, LoadsAreSerial
<1> USE DEF vars, backendVars, thermalVars, loopVars, slotVars, replyVars
<1>t. /\ tpc \in [Requests -> TaskPoints] /\ op \in [Requests -> Operations \cup {"unread"}]
      /\ task \in Requests \cup {None} /\ cur \in Requests \cup {None} /\ loop \in LoopPoints
      /\ local \in [Requests -> Requests \cup {None}] /\ backend \in Requests \cup {None}
  BY DEF TypeOK
<1> USE <1>t, NoneAssumption DEF LoopPoints
<1>1. CASE UNCHANGED vars
  BY <1>1
<1>2. ASSUME NEW r \in Requests, Receive(r) PROVE SerialLoads'
  <2> USE DEF Read, Answer
  <2>1. CASE Health(r)
    BY <2>1 DEF Health
  <2>2. CASE Malformed(r)
    BY <2>2 DEF Malformed
  <2>3. CASE LoadCheck(r)
    BY <2>3 DEF LoadCheck
  <2>4. CASE RunCheck(r)
    BY <2>4 DEF RunCheck
  <2>5. CASE Cancel(r)
    BY <2>5 DEF Cancel
  <2>6. CASE TakeBackend(r)
    BY <2>6 DEF TakeBackend
  <2> QED
    BY <1>2, <2>1, <2>2, <2>3, <2>4, <2>5, <2>6 DEF Receive
<1>3. ASSUME NEW r \in Requests, LoopStep(r) PROVE SerialLoads'
  <2> USE DEF Answer, RunTask
  <2>1. CASE LoadStart(r)
    BY <2>1 DEF LoadStart
  <2>2. CASE RunStart(r)
    BY <2>2 DEF RunStart
  <2>3. CASE Release(r)
    BY <2>3 DEF Release
  <2> QED
    BY <1>3, <2>1, <2>2, <2>3 DEF LoopStep
<1>4. ASSUME NEW r \in Requests, TaskStep(r) PROVE SerialLoads'
  <2> USE DEF Goto, Fail
  <2>1. CASE Admit(r)
    BY <2>1 DEF Admit
  <2>2. CASE LoadModel(r)
    BY <2>2 DEF LoadModel
  <2>3. CASE CheckHeat(r)
    BY <2>3 DEF CheckHeat
  <2>4. CASE Publish(r)
    BY <2>4 DEF Publish
  <2>5. CASE Seal(r)
    BY <2>5 DEF Seal
  <2>6. CASE StartRun(r)
    BY <2>6 DEF StartRun
  <2>7. CASE Generate(r)
    BY <2>7 DEF Generate
  <2>8. CASE Snapshot(r)
    BY <2>8 DEF Snapshot
  <2>9. CASE Drop(r)
    BY <2>9 DEF Drop
  <2>10. CASE Clear(r)
    BY <2>10 DEF Clear
  <2>11. CASE Finish(r)
    BY <2>11 DEF Finish
  <2>12. CASE Reply(r)
    BY <2>12 DEF Reply
  <2> QED
    BY <1>4, <2>1, <2>2, <2>3, <2>4, <2>5, <2>6, <2>7, <2>8, <2>9, <2>10, <2>11, <2>12
       DEF TaskStep
<1>5. ASSUME NEW r \in Requests, Generated(r) PROVE SerialLoads'
  BY <1>5 DEF Generated, Goto, Fail
<1>6. ASSUME NEW r \in Requests, MonitorSample(r) PROVE SerialLoads'
  BY <1>6 DEF MonitorSample
<1>7. CASE EndOfInput
  BY <1>7 DEF EndOfInput
<1>8. CASE ProcessExit
  BY <1>8 DEF ProcessExit
<1> QED
  BY <1>1, <1>2, <1>3, <1>4, <1>5, <1>6, <1>7, <1>8 DEF Next, Step, Exited

(* Nobody publishes between the check of a load and its publication. *)
LEMMA FreeStep ==
  ASSUME TaskInvariant, Objects, SerialLoads, SlotIsFree, [Next]_vars
  PROVE  SlotIsFree'
<1> USE DEF TaskInvariant, OneTaskAtATime, Bookkeeping, Objects, SerialLoads, SlotIsFree, Past
<1> USE DEF vars, backendVars, thermalVars, loopVars, slotVars, replyVars
<1>t. /\ tpc \in [Requests -> TaskPoints] /\ op \in [Requests -> Operations \cup {"unread"}]
      /\ task \in Requests \cup {None} /\ cur \in Requests \cup {None} /\ loop \in LoopPoints
      /\ local \in [Requests -> Requests \cup {None}] /\ backend \in Requests \cup {None}
  BY DEF TypeOK
<1> USE <1>t, NoneAssumption DEF LoopPoints
<1>1. CASE UNCHANGED vars
  BY <1>1
<1>2. ASSUME NEW r \in Requests, Receive(r) PROVE SlotIsFree'
  <2> USE DEF Read, Answer
  <2>1. CASE Health(r)
    BY <2>1 DEF Health
  <2>2. CASE Malformed(r)
    BY <2>2 DEF Malformed
  <2>3. CASE LoadCheck(r)
    BY <2>3 DEF LoadCheck
  <2>4. CASE RunCheck(r)
    BY <2>4 DEF RunCheck
  <2>5. CASE Cancel(r)
    BY <2>5 DEF Cancel
  <2>6. CASE TakeBackend(r)
    BY <2>6 DEF TakeBackend
  <2> QED
    BY <1>2, <2>1, <2>2, <2>3, <2>4, <2>5, <2>6 DEF Receive
<1>3. ASSUME NEW r \in Requests, LoopStep(r) PROVE SlotIsFree'
  <2> USE DEF Answer, RunTask
  <2>1. CASE LoadStart(r)
    BY <2>1 DEF LoadStart
  <2>2. CASE RunStart(r)
    BY <2>2 DEF RunStart
  <2>3. CASE Release(r)
    BY <2>3 DEF Release
  <2> QED
    BY <1>3, <2>1, <2>2, <2>3 DEF LoopStep
<1>4. ASSUME NEW r \in Requests, TaskStep(r) PROVE SlotIsFree'
  <2> USE DEF Goto, Fail
  <2>1. CASE Admit(r)
    BY <2>1 DEF Admit
  <2>2. CASE LoadModel(r)
    BY <2>2 DEF LoadModel
  <2>3. CASE CheckHeat(r)
    BY <2>3 DEF CheckHeat
  <2>4. CASE Publish(r)
    BY <2>4 DEF Publish
  <2>5. CASE Seal(r)
    BY <2>5 DEF Seal
  <2>6. CASE StartRun(r)
    BY <2>6 DEF StartRun
  <2>7. CASE Generate(r)
    BY <2>7 DEF Generate
  <2>8. CASE Snapshot(r)
    BY <2>8 DEF Snapshot
  <2>9. CASE Drop(r)
    BY <2>9 DEF Drop
  <2>10. CASE Clear(r)
    BY <2>10 DEF Clear
  <2>11. CASE Finish(r)
    BY <2>11 DEF Finish
  <2>12. CASE Reply(r)
    BY <2>12 DEF Reply
  <2> QED
    BY <1>4, <2>1, <2>2, <2>3, <2>4, <2>5, <2>6, <2>7, <2>8, <2>9, <2>10, <2>11, <2>12
       DEF TaskStep
<1>5. ASSUME NEW r \in Requests, Generated(r) PROVE SlotIsFree'
  BY <1>5 DEF Generated, Goto, Fail
<1>6. ASSUME NEW r \in Requests, MonitorSample(r) PROVE SlotIsFree'
  BY <1>6 DEF MonitorSample
<1>7. CASE EndOfInput
  BY <1>7 DEF EndOfInput
<1>8. CASE ProcessExit
  BY <1>8 DEF ProcessExit
<1> QED
  BY <1>1, <1>2, <1>3, <1>4, <1>5, <1>6, <1>7, <1>8 DEF Next, Step, Exited
(* A model in memory is found where it was, or where its load left it. *)
LEMMA LocatedStep ==
  ASSUME TaskInvariant, Objects, SlotIsFree, Located, [Next]_vars
  PROVE  Located'
<1> USE DEF TaskInvariant, OneTaskAtATime, Bookkeeping, Objects, SlotIsFree, Past, Located
<1> USE DEF vars, backendVars, thermalVars, loopVars, slotVars, replyVars
<1>t. /\ tpc \in [Requests -> TaskPoints] /\ op \in [Requests -> Operations \cup {"unread"}]
      /\ task \in Requests \cup {None} /\ cur \in Requests \cup {None} /\ loop \in LoopPoints
      /\ local \in [Requests -> Requests \cup {None}] /\ backend \in Requests \cup {None}
      /\ loaded \in [Requests -> BOOLEAN] /\ outcome \in [Requests -> Outcomes]
  BY DEF TypeOK, BackendTypeOK
<1> USE <1>t, NoneAssumption DEF LoopPoints
<1>1. CASE UNCHANGED vars
  BY <1>1
<1>2. ASSUME NEW r \in Requests, Receive(r) PROVE Located'
  <2> USE DEF Read, Answer
  <2>1. CASE Health(r)
    BY <2>1 DEF Health
  <2>2. CASE Malformed(r)
    BY <2>2 DEF Malformed
  <2>3. CASE LoadCheck(r)
    BY <2>3 DEF LoadCheck
  <2>4. CASE RunCheck(r)
    BY <2>4 DEF RunCheck
  <2>5. CASE Cancel(r)
    BY <2>5 DEF Cancel
  <2>6. CASE TakeBackend(r)
    BY <2>6 DEF TakeBackend
  <2> QED
    BY <1>2, <2>1, <2>2, <2>3, <2>4, <2>5, <2>6 DEF Receive
<1>3. ASSUME NEW r \in Requests, LoopStep(r) PROVE Located'
  <2> USE DEF Answer, RunTask
  <2>1. CASE LoadStart(r)
    BY <2>1 DEF LoadStart
  <2>2. CASE RunStart(r)
    BY <2>2 DEF RunStart
  <2>3. CASE Release(r)
    BY <2>3 DEF Release, BackendUnload
  <2> QED
    BY <1>3, <2>1, <2>2, <2>3 DEF LoopStep
<1>4. ASSUME NEW r \in Requests, TaskStep(r) PROVE Located'
  <2> USE DEF Goto, Fail
  <2>1. CASE Admit(r)
    BY <2>1 DEF Admit
  <2>2. CASE LoadModel(r)
    BY <2>2 DEF LoadModel, BackendLoad
  <2>3. CASE CheckHeat(r)
    BY <2>3 DEF CheckHeat, BackendUnload
  <2>4. CASE Publish(r)
    BY <2>4 DEF Publish
  <2>5. CASE Seal(r)
    BY <2>5 DEF Seal
  <2>6. CASE StartRun(r)
    BY <2>6 DEF StartRun
  <2>7. CASE Generate(r)
    BY <2>7 DEF Generate, EnterGenerate
  <2>8. CASE Snapshot(r)
    BY <2>8 DEF Snapshot
  <2>9. CASE Drop(r)
    BY <2>9 DEF Drop, BackendUnload
  <2>10. CASE Clear(r)
    BY <2>10 DEF Clear
  <2>11. CASE Finish(r)
    BY <2>11 DEF Finish
  <2>12. CASE Reply(r)
    BY <2>12 DEF Reply
  <2> QED
    BY <1>4, <2>1, <2>2, <2>3, <2>4, <2>5, <2>6, <2>7, <2>8, <2>9, <2>10, <2>11, <2>12
       DEF TaskStep
<1>5. ASSUME NEW r \in Requests, Generated(r) PROVE Located'
  BY <1>5 DEF Generated, Goto, Fail
<1>6. ASSUME NEW r \in Requests, MonitorSample(r) PROVE Located'
  BY <1>6 DEF MonitorSample, Sample
<1>7. CASE EndOfInput
  BY <1>7 DEF EndOfInput
<1>8. CASE ProcessExit
  BY <1>8 DEF ProcessExit
<1> QED
  BY <1>1, <1>2, <1>3, <1>4, <1>5, <1>6, <1>7, <1>8 DEF Next, Step, Exited

(* Only the task that uses a model takes it away. *)
LEMMA InUseStep ==
  ASSUME TaskInvariant, Objects, SlotIsFree, Located, ModelInUseStays, [Next]_vars
  PROVE  ModelInUseStays'
<1> USE DEF TaskInvariant, OneTaskAtATime, Bookkeeping, Objects, SlotIsFree, Past, Located,
            ModelInUseStays
<1> USE DEF vars, backendVars, thermalVars, loopVars, slotVars, replyVars
<1>t. /\ tpc \in [Requests -> TaskPoints] /\ op \in [Requests -> Operations \cup {"unread"}]
      /\ task \in Requests \cup {None} /\ cur \in Requests \cup {None} /\ loop \in LoopPoints
      /\ local \in [Requests -> Requests \cup {None}] /\ backend \in Requests \cup {None}
      /\ loaded \in [Requests -> BOOLEAN] /\ outcome \in [Requests -> Outcomes]
  BY DEF TypeOK, BackendTypeOK
<1> USE <1>t, NoneAssumption DEF LoopPoints
<1>1. CASE UNCHANGED vars
  BY <1>1
<1>2. ASSUME NEW r \in Requests, Receive(r) PROVE ModelInUseStays'
  <2> USE DEF Read, Answer
  <2>1. CASE Health(r)
    BY <2>1 DEF Health
  <2>2. CASE Malformed(r)
    BY <2>2 DEF Malformed
  <2>3. CASE LoadCheck(r)
    BY <2>3 DEF LoadCheck
  <2>4. CASE RunCheck(r)
    BY <2>4 DEF RunCheck
  <2>5. CASE Cancel(r)
    BY <2>5 DEF Cancel
  <2>6. CASE TakeBackend(r)
    BY <2>6 DEF TakeBackend
  <2> QED
    BY <1>2, <2>1, <2>2, <2>3, <2>4, <2>5, <2>6 DEF Receive
<1>3. ASSUME NEW r \in Requests, LoopStep(r) PROVE ModelInUseStays'
  <2> USE DEF Answer, RunTask
  <2>1. CASE LoadStart(r)
    BY <2>1 DEF LoadStart
  <2>2. CASE RunStart(r)
    BY <2>2 DEF RunStart
  <2>3. CASE Release(r)
    BY <2>3 DEF Release, BackendUnload
  <2> QED
    BY <1>3, <2>1, <2>2, <2>3 DEF LoopStep
<1>4. ASSUME NEW r \in Requests, TaskStep(r) PROVE ModelInUseStays'
  <2> USE DEF Goto, Fail
  <2>1. CASE Admit(r)
    BY <2>1 DEF Admit
  <2>2. CASE LoadModel(r)
    BY <2>2 DEF LoadModel, BackendLoad
  <2>3. CASE CheckHeat(r)
    BY <2>3 DEF CheckHeat, BackendUnload
  <2>4. CASE Publish(r)
    BY <2>4 DEF Publish
  <2>5. CASE Seal(r)
    BY <2>5 DEF Seal
  <2>6. CASE StartRun(r)
    BY <2>6 DEF StartRun
  <2>7. CASE Generate(r)
    BY <2>7 DEF Generate, EnterGenerate
  <2>8. CASE Snapshot(r)
    BY <2>8 DEF Snapshot
  <2>9. CASE Drop(r)
    BY <2>9 DEF Drop, BackendUnload
  <2>10. CASE Clear(r)
    BY <2>10 DEF Clear
  <2>11. CASE Finish(r)
    BY <2>11 DEF Finish
  <2>12. CASE Reply(r)
    BY <2>12 DEF Reply
  <2> QED
    BY <1>4, <2>1, <2>2, <2>3, <2>4, <2>5, <2>6, <2>7, <2>8, <2>9, <2>10, <2>11, <2>12
       DEF TaskStep
<1>5. ASSUME NEW r \in Requests, Generated(r) PROVE ModelInUseStays'
  BY <1>5 DEF Generated, Goto, Fail
<1>6. ASSUME NEW r \in Requests, MonitorSample(r) PROVE ModelInUseStays'
  BY <1>6 DEF MonitorSample, Sample
<1>7. CASE EndOfInput
  BY <1>7 DEF EndOfInput
<1>8. CASE ProcessExit
  BY <1>8 DEF ProcessExit
<1> QED
  BY <1>1, <1>2, <1>3, <1>4, <1>5, <1>6, <1>7, <1>8 DEF Next, Step, Exited

(* Whatever is published holds a model, but for the end of a thermal unload. *)
LEMMA PublishedStep ==
  ASSUME TaskInvariant, Objects, SlotIsFree, Located, ModelInUseStays, PublishedHolds,
         "unload_raises" \notin Faults, [Next]_vars
  PROVE  PublishedHolds'
<1> USE DEF TaskInvariant, OneTaskAtATime, Bookkeeping, Objects, SlotIsFree, Past, Located,
            ModelInUseStays, PublishedHolds
<1> USE DEF vars, backendVars, thermalVars, loopVars, slotVars, replyVars
<1>t. /\ tpc \in [Requests -> TaskPoints] /\ op \in [Requests -> Operations \cup {"unread"}]
      /\ task \in Requests \cup {None} /\ cur \in Requests \cup {None} /\ loop \in LoopPoints
      /\ local \in [Requests -> Requests \cup {None}] /\ backend \in Requests \cup {None}
      /\ loaded \in [Requests -> BOOLEAN] /\ outcome \in [Requests -> Outcomes]
  BY DEF TypeOK, BackendTypeOK
<1> USE <1>t, NoneAssumption DEF LoopPoints
<1>1. CASE UNCHANGED vars
  BY <1>1
<1>2. ASSUME NEW r \in Requests, Receive(r) PROVE PublishedHolds'
  <2> USE DEF Read, Answer
  <2>1. CASE Health(r)
    BY <2>1 DEF Health
  <2>2. CASE Malformed(r)
    BY <2>2 DEF Malformed
  <2>3. CASE LoadCheck(r)
    BY <2>3 DEF LoadCheck
  <2>4. CASE RunCheck(r)
    BY <2>4 DEF RunCheck
  <2>5. CASE Cancel(r)
    BY <2>5 DEF Cancel
  <2>6. CASE TakeBackend(r)
    BY <2>6 DEF TakeBackend
  <2> QED
    BY <1>2, <2>1, <2>2, <2>3, <2>4, <2>5, <2>6 DEF Receive
<1>3. ASSUME NEW r \in Requests, LoopStep(r) PROVE PublishedHolds'
  <2> USE DEF Answer, RunTask
  <2>1. CASE LoadStart(r)
    BY <2>1 DEF LoadStart
  <2>2. CASE RunStart(r)
    BY <2>2 DEF RunStart
  <2>3. CASE Release(r)
    BY <2>3 DEF Release, BackendUnload
  <2> QED
    BY <1>3, <2>1, <2>2, <2>3 DEF LoopStep
<1>4. ASSUME NEW r \in Requests, TaskStep(r) PROVE PublishedHolds'
  <2> USE DEF Goto, Fail
  <2>1. CASE Admit(r)
    BY <2>1 DEF Admit
  <2>2. CASE LoadModel(r)
    BY <2>2 DEF LoadModel, BackendLoad
  <2>3. CASE CheckHeat(r)
    BY <2>3 DEF CheckHeat, BackendUnload
  <2>4. CASE Publish(r)
    BY <2>4 DEF Publish
  <2>5. CASE Seal(r)
    BY <2>5 DEF Seal
  <2>6. CASE StartRun(r)
    BY <2>6 DEF StartRun
  <2>7. CASE Generate(r)
    BY <2>7 DEF Generate, EnterGenerate
  <2>8. CASE Snapshot(r)
    BY <2>8 DEF Snapshot
  <2>9. CASE Drop(r)
    BY <2>9 DEF Drop, BackendUnload, UnloadRaises
  <2>10. CASE Clear(r)
    BY <2>10 DEF Clear
  <2>11. CASE Finish(r)
    BY <2>11 DEF Finish
  <2>12. CASE Reply(r)
    BY <2>12 DEF Reply
  <2> QED
    BY <1>4, <2>1, <2>2, <2>3, <2>4, <2>5, <2>6, <2>7, <2>8, <2>9, <2>10, <2>11, <2>12
       DEF TaskStep
<1>5. ASSUME NEW r \in Requests, Generated(r) PROVE PublishedHolds'
  BY <1>5 DEF Generated, Goto, Fail
<1>6. ASSUME NEW r \in Requests, MonitorSample(r) PROVE PublishedHolds'
  BY <1>6 DEF MonitorSample, Sample
<1>7. CASE EndOfInput
  BY <1>7 DEF EndOfInput
<1>8. CASE ProcessExit
  BY <1>8 DEF ProcessExit
<1> QED
  BY <1>1, <1>2, <1>3, <1>4, <1>5, <1>6, <1>7, <1>8 DEF Next, Step, Exited

(* Which outcomes carry a thermal cancellation. *)
LEMMA OutcomeHot ==
  /\ ~Pending.hot /\ ~Error.hot /\ ~Ok.hot
  /\ \A c : ~[Ok EXCEPT !.cancelled = c].hot
  /\ \A h : [Ok EXCEPT !.hot = h].hot = h
  /\ \A o \in Outcomes : \A h : [o EXCEPT !.hot = h].hot = h
  BY DEF Outcomes, Pending, Error, Ok

(* A thermal snapshot leads through the unload, and nothing loads again. *)
LEMMA HeatPathStep ==
  ASSUME TaskInvariant, Objects, SlotIsFree, Located, ModelInUseStays, HeatPath, [Next]_vars
  PROVE  HeatPath'
<1> USE DEF TaskInvariant, OneTaskAtATime, Bookkeeping, Objects, SlotIsFree, Past, Located,
            ModelInUseStays, HeatPath
<1> USE DEF vars, backendVars, thermalVars, loopVars, slotVars, replyVars
<1>t. /\ tpc \in [Requests -> TaskPoints] /\ op \in [Requests -> Operations \cup {"unread"}]
      /\ task \in Requests \cup {None} /\ cur \in Requests \cup {None} /\ loop \in LoopPoints
      /\ local \in [Requests -> Requests \cup {None}] /\ backend \in Requests \cup {None}
      /\ loaded \in [Requests -> BOOLEAN] /\ outcome \in [Requests -> Outcomes]
  BY DEF TypeOK, BackendTypeOK
<1> USE <1>t, OutcomeHot, NoneAssumption DEF LoopPoints
<1>1. CASE UNCHANGED vars
  BY <1>1
<1>2. ASSUME NEW r \in Requests, Receive(r) PROVE HeatPath'
  <2> USE DEF Read, Answer
  <2>1. CASE Health(r)
    BY <2>1 DEF Health
  <2>2. CASE Malformed(r)
    BY <2>2 DEF Malformed
  <2>3. CASE LoadCheck(r)
    BY <2>3 DEF LoadCheck
  <2>4. CASE RunCheck(r)
    BY <2>4 DEF RunCheck
  <2>5. CASE Cancel(r)
    BY <2>5 DEF Cancel
  <2>6. CASE TakeBackend(r)
    BY <2>6 DEF TakeBackend
  <2> QED
    BY <1>2, <2>1, <2>2, <2>3, <2>4, <2>5, <2>6 DEF Receive
<1>3. ASSUME NEW r \in Requests, LoopStep(r) PROVE HeatPath'
  <2> USE DEF Answer, RunTask
  <2>1. CASE LoadStart(r)
    BY <2>1 DEF LoadStart
  <2>2. CASE RunStart(r)
    BY <2>2 DEF RunStart
  <2>3. CASE Release(r)
    <3>1. /\ ~Ok.hot /\ ~Error.hot
          /\ \E o \in {Ok, Error} : outcome' = [outcome EXCEPT ![r] = o]
      BY <2>3 DEF Release
    <3>2. \A q \in Requests : outcome'[q].hot => outcome[q].hot
      BY <3>1
    <3>3. \A q \in Requests : loaded'[q] => loaded[q]
      BY <2>3 DEF Release, BackendUnload
    <3> QED
      BY <2>3, <3>2, <3>3 DEF Release
  <2> QED
    BY <1>3, <2>1, <2>2, <2>3 DEF LoopStep
<1>4. ASSUME NEW r \in Requests, TaskStep(r) PROVE HeatPath'
  <2> USE DEF Goto, Fail
  <2>1. CASE Admit(r)
    BY <2>1 DEF Admit
  <2>2. CASE LoadModel(r)
    BY <2>2 DEF LoadModel, BackendLoad
  <2>3. CASE CheckHeat(r)
    BY <2>3 DEF CheckHeat, BackendUnload
  <2>4. CASE Publish(r)
    BY <2>4 DEF Publish
  <2>5. CASE Seal(r)
    BY <2>5 DEF Seal
  <2>6. CASE StartRun(r)
    BY <2>6 DEF StartRun
  <2>7. CASE Generate(r)
    BY <2>7 DEF Generate, EnterGenerate
  <2>8. CASE Snapshot(r)
    BY <2>8 DEF Snapshot
  <2>9. CASE Drop(r)
    BY <2>9 DEF Drop, BackendUnload
  <2>10. CASE Clear(r)
    BY <2>10 DEF Clear
  <2>11. CASE Finish(r)
    BY <2>11 DEF Finish
  <2>12. CASE Reply(r)
    BY <2>12 DEF Reply
  <2> QED
    BY <1>4, <2>1, <2>2, <2>3, <2>4, <2>5, <2>6, <2>7, <2>8, <2>9, <2>10, <2>11, <2>12
       DEF TaskStep
<1>5. ASSUME NEW r \in Requests, Generated(r) PROVE HeatPath'
  <2>1. \/ outcome' = [outcome EXCEPT ![r] = Error]
        \/ \E c : outcome' = [outcome EXCEPT ![r] = [Ok EXCEPT !.cancelled = c]]
    <3>1. CASE Fail(r, "generating")
      BY <3>1 DEF Fail
    <3>2. CASE ~Fail(r, "generating")
      BY <1>5, <3>2, Zenon DEF Generated
    <3> QED
      BY <3>1, <3>2
  <2>2. \E o : outcome' = [outcome EXCEPT ![r] = o] /\ ~o.hot
    <3>1. CASE outcome' = [outcome EXCEPT ![r] = Error]
      BY <3>1
    <3>2. ASSUME NEW c, outcome' = [outcome EXCEPT ![r] = [Ok EXCEPT !.cancelled = c]]
          PROVE  \E o : outcome' = [outcome EXCEPT ![r] = o] /\ ~o.hot
      <4>1. ~[Ok EXCEPT !.cancelled = c].hot
        BY OutcomeHot
      <4> WITNESS [Ok EXCEPT !.cancelled = c]
      <4> QED
        BY <3>2, <4>1
    <3> QED
      BY <2>1, <3>1, <3>2
  <2>3. \A q \in Requests : outcome'[q].hot => outcome[q].hot
    BY <2>2
  <2> QED
    BY <1>5, <2>3 DEF Generated, Goto, Fail
<1>6. ASSUME NEW r \in Requests, MonitorSample(r) PROVE HeatPath'
  BY <1>6 DEF MonitorSample, Sample
<1>7. CASE EndOfInput
  BY <1>7 DEF EndOfInput
<1>8. CASE ProcessExit
  BY <1>8 DEF ProcessExit
<1> QED
  BY <1>1, <1>2, <1>3, <1>4, <1>5, <1>6, <1>7, <1>8 DEF Next, Step, Exited
-----------------------------------------------------------------------------
(* The inductive invariant of a worker whose client sends loads serially,  *)
(* and what follows from it.                                               *)
SerialClient == "pipelined_load" \notin Faults

LEMMA InitSlot == Init => SlotInvariant
<1> SUFFICES ASSUME Init PROVE SlotInvariant
  OBVIOUS
<1>1. TaskInvariant
  BY InitTask
<1>2. Objects /\ SerialLoads /\ SlotIsFree /\ Located
  BY NoneAssumption DEF Init, BackendInit, Objects, SerialLoads, SlotIsFree, Located, Past
<1>3. ModelInUseStays /\ HeatPath
  BY OutcomeHot DEF Init, ModelInUseStays, HeatPath
<1> QED
  BY <1>1, <1>2, <1>3 DEF SlotInvariant

LEMMA SlotStep ==
  ASSUME SerialClient
  PROVE  SlotInvariant /\ [Next]_vars => SlotInvariant'
<1> SUFFICES ASSUME SlotInvariant, [Next]_vars PROVE SlotInvariant'
  OBVIOUS
<1> USE DEF SlotInvariant
<1>1. TaskInvariant'
  BY TypeStep, TaskStepKeeps DEF TaskInvariant
<1>2. Objects' /\ SerialLoads' /\ SlotIsFree'
  BY ObjectsStep, SerialStep, FreeStep DEF SerialClient
<1>3. Located' /\ ModelInUseStays' /\ HeatPath'
  BY LocatedStep, InUseStep, HeatPathStep
<1> QED
  BY <1>1, <1>2, <1>3

LEMMA SlotInvariantHolds == ASSUME SerialClient PROVE Spec => []SlotInvariant
<1>1. SlotInvariant /\ [Next]_vars => SlotInvariant'
  BY SlotStep
<1> QED
  BY <1>1, InitSlot, PTL DEF Spec

(* With a client that waits for the reply of a load before it sends        *)
(* another, the two lock sections of load never let two models in memory.  *)
THEOREM OneModel == ASSUME SerialClient PROVE Spec => []OneModelLoaded
<1>1. SlotInvariant => OneModelLoaded
  BY NoneAssumption
     DEF SlotInvariant, TaskInvariant, OneTaskAtATime, Bookkeeping, SlotIsFree, Located,
         OneModelLoaded
<1> QED
  BY <1>1, SlotInvariantHolds, PTL

(* A generation never loses its model to another request.                  *)
THEOREM InUseStays == ASSUME SerialClient PROVE Spec => []ModelInUseStays
<1>1. SlotInvariant => ModelInUseStays
  BY DEF SlotInvariant
<1> QED
  BY <1>1, SlotInvariantHolds, PTL

(* Between tasks nothing but the published model is in memory.             *)
THEOREM NoOrphan == ASSUME SerialClient PROVE Spec => []NoOrphanModel
<1>1. SlotInvariant => NoOrphanModel
  BY NoneAssumption
     DEF SlotInvariant, TaskInvariant, OneTaskAtATime, Located, NoOrphanModel, TypeOK
<1> QED
  BY <1>1, SlotInvariantHolds, PTL

(* A run that replies with a thermal cancellation has unloaded its model.  *)
THEOREM HotReplyUnloads == ASSUME SerialClient PROVE Spec => []HotReplyIsUnloaded
<1>1. SlotInvariant => HotReplyIsUnloaded
  BY DEF SlotInvariant, HeatPath, HotReplyIsUnloaded
<1> QED
  BY <1>1, SlotInvariantHolds, PTL

(* Between tasks a published backend holds a model, when its unload does   *)
(* not raise after it dropped the references.                              *)
THEOREM PublishedLoaded ==
  ASSUME SerialClient, "unload_raises" \notin Faults
  PROVE  Spec => []PublishedIsLoaded
<1>1. Init => SlotInvariant /\ PublishedHolds
  BY InitSlot DEF Init, PublishedHolds
<1>2. SlotInvariant /\ PublishedHolds /\ [Next]_vars => SlotInvariant' /\ PublishedHolds'
  BY SlotStep, PublishedStep DEF SlotInvariant
<1>3. SlotInvariant /\ PublishedHolds => PublishedIsLoaded
  BY NoneAssumption
     DEF SlotInvariant, TaskInvariant, OneTaskAtATime, PublishedHolds, PublishedIsLoaded, Active
<1> QED
  BY <1>1, <1>2, <1>3, PTL DEF Spec

-----------------------------------------------------------------------------
(* Monitors.                                                               *)

(* A monitor starts and stops with the code it watches. *)
LEMMA MonitorStep ==
  ASSUME TaskInvariant, MonitorCoversTask, [Next]_vars
  PROVE  MonitorCoversTask'
<1> USE DEF TaskInvariant, OneTaskAtATime, Bookkeeping, MonitorCoversTask
<1> USE DEF vars, backendVars, thermalVars, loopVars, slotVars, replyVars
<1>t. /\ tpc \in [Requests -> TaskPoints] /\ op \in [Requests -> Operations \cup {"unread"}]
      /\ task \in Requests \cup {None} /\ cur \in Requests \cup {None} /\ loop \in LoopPoints
      /\ local \in [Requests -> Requests \cup {None}] /\ backend \in Requests \cup {None}
      /\ mon \in [Requests -> {"none", "sampling", "late", "stopped"}]
      /\ hot \in [Requests -> BOOLEAN] /\ event \in [Requests -> BOOLEAN]
      /\ outcome \in [Requests -> Outcomes]
  BY DEF TypeOK, BackendTypeOK, ThermalTypeOK
<1> USE <1>t, NoneAssumption DEF LoopPoints
<1>1. CASE UNCHANGED vars
  BY <1>1
<1>2. ASSUME NEW r \in Requests, Receive(r) PROVE MonitorCoversTask'
  <2> USE DEF Read, Answer
  <2>1. CASE Health(r)
    BY <2>1 DEF Health
  <2>2. CASE Malformed(r)
    BY <2>2 DEF Malformed
  <2>3. CASE LoadCheck(r)
    BY <2>3 DEF LoadCheck
  <2>4. CASE RunCheck(r)
    BY <2>4 DEF RunCheck
  <2>5. CASE Cancel(r)
    BY <2>5 DEF Cancel
  <2>6. CASE TakeBackend(r)
    BY <2>6 DEF TakeBackend
  <2> QED
    BY <1>2, <2>1, <2>2, <2>3, <2>4, <2>5, <2>6 DEF Receive
<1>3. ASSUME NEW r \in Requests, LoopStep(r) PROVE MonitorCoversTask'
  <2> USE DEF Answer, RunTask
  <2>1. CASE LoadStart(r)
    BY <2>1 DEF LoadStart
  <2>2. CASE RunStart(r)
    BY <2>2 DEF RunStart
  <2>3. CASE Release(r)
    BY <2>3 DEF Release
  <2> QED
    BY <1>3, <2>1, <2>2, <2>3 DEF LoopStep
<1>4. ASSUME NEW r \in Requests, TaskStep(r) PROVE MonitorCoversTask'
  <2> USE DEF Goto, Fail
  <2>1. CASE Admit(r)
    BY <2>1 DEF Admit, StartMonitor, StopMonitor
  <2>2. CASE LoadModel(r)
    BY <2>2 DEF LoadModel, StopMonitor
  <2>3. CASE CheckHeat(r)
    BY <2>3 DEF CheckHeat, StopMonitor
  <2>4. CASE Publish(r)
    BY <2>4 DEF Publish
  <2>5. CASE Seal(r)
    BY <2>5 DEF Seal, StopMonitor
  <2>6. CASE StartRun(r)
    BY <2>6 DEF StartRun, StartMonitor
  <2>7. CASE Generate(r)
    BY <2>7 DEF Generate, StopMonitor
  <2>8. CASE Snapshot(r)
    BY <2>8 DEF Snapshot, StopMonitor
  <2>9. CASE Drop(r)
    BY <2>9 DEF Drop, StopMonitor
  <2>10. CASE Clear(r)
    BY <2>10 DEF Clear
  <2>11. CASE Finish(r)
    BY <2>11 DEF Finish
  <2>12. CASE Reply(r)
    BY <2>12 DEF Reply
  <2> QED
    BY <1>4, <2>1, <2>2, <2>3, <2>4, <2>5, <2>6, <2>7, <2>8, <2>9, <2>10, <2>11, <2>12
       DEF TaskStep
<1>5. ASSUME NEW r \in Requests, Generated(r) PROVE MonitorCoversTask'
  BY <1>5 DEF Generated, Goto, Fail, StopMonitor
<1>6. ASSUME NEW r \in Requests, MonitorSample(r) PROVE MonitorCoversTask'
  BY <1>6 DEF MonitorSample, Sample
<1>7. CASE EndOfInput
  BY <1>7 DEF EndOfInput
<1>8. CASE ProcessExit
  BY <1>8 DEF ProcessExit
<1> QED
  BY <1>1, <1>2, <1>3, <1>4, <1>5, <1>6, <1>7, <1>8 DEF Next, Step, Exited

LEMMA MonitorHolds == Spec => [](TaskInvariant /\ MonitorCoversTask)
<1>1. Init => TaskInvariant /\ MonitorCoversTask
  BY InitTask DEF Init, ThermalInit, MonitorCoversTask
<1>2. TaskInvariant /\ MonitorCoversTask /\ [Next]_vars => (TaskInvariant /\ MonitorCoversTask)'
  <2>1. TaskInvariant /\ [Next]_vars => TaskInvariant'
    BY TypeStep, TaskStepKeeps DEF TaskInvariant
  <2> QED
    BY <2>1, MonitorStep
<1> QED
  BY <1>1, <1>2, PTL DEF Spec

(* Real loads and all generations run under a monitor, and none outlives   *)
(* its task, whatever order requests and samples come in.                  *)
THEOREM MonitorCovers == Spec => []MonitorCoversTask
  BY MonitorHolds, PTL

(* A client that has a reply finds the worker free of that request.        *)
THEOREM AnsweredIsFree == Spec => []AnsweredIsOver
<1>1. TaskInvariant /\ MonitorCoversTask => AnsweredIsOver
  <2> SUFFICES ASSUME TaskInvariant, MonitorCoversTask, NEW r \in answered
               PROVE  task # r /\ cur # r /\ mon[r] # "sampling"
    BY DEF AnsweredIsOver
  <2>1. r \in Requests /\ tpc[r] \in TaskPoints /\ loop \in LoopPoints
    BY DEF TaskInvariant, TypeOK
  <2>2. tpc[r] \in {"idle", "done"}
    BY <2>1 DEF TaskInvariant, Bookkeeping
  <2>3. cur # r
    BY <2>1, NoneAssumption DEF TaskInvariant, Bookkeeping, LoopPoints
  <2> QED
    BY <2>1, <2>2, <2>3 DEF TaskInvariant, OneTaskAtATime, MonitorCoversTask
<1> QED
  BY <1>1, MonitorHolds, PTL
-----------------------------------------------------------------------------
(* Causes of a cancellation.                                               *)

(* A backend that clears its event, and monitors that stop when told to.   *)
FreshEvents == Kind # "vllm" /\ "late_join" \notin Faults

LEMMA OutcomeCancelled ==
  /\ ~Pending.cancelled /\ ~Error.cancelled /\ ~Ok.cancelled
  /\ \A c : [Ok EXCEPT !.cancelled = c].cancelled = c
  /\ \A h : ~[Ok EXCEPT !.hot = h].cancelled
  /\ \A o \in Outcomes : \A h : [o EXCEPT !.hot = h].cancelled = o.cancelled
  BY DEF Outcomes, Pending, Error, Ok

(* An event reaches a generation only from its own cancel or monitor. *)
LEMMA CauseStep ==
  ASSUME FreshEvents, TaskInvariant, Objects, SlotIsFree, ModelInUseStays,
         MonitorCoversTask, EventHasCause, CancelHasCause, [Next]_vars
  PROVE  (EventHasCause /\ CancelHasCause)'
<1> USE DEF TaskInvariant, OneTaskAtATime, Bookkeeping, Objects, SlotIsFree, ModelInUseStays,
            MonitorCoversTask, EventHasCause, CancelHasCause
<1> USE DEF vars, backendVars, thermalVars, loopVars, slotVars, replyVars
<1>t. /\ tpc \in [Requests -> TaskPoints] /\ op \in [Requests -> Operations \cup {"unread"}]
      /\ task \in Requests \cup {None} /\ cur \in Requests \cup {None} /\ loop \in LoopPoints
      /\ local \in [Requests -> Requests \cup {None}] /\ backend \in Requests \cup {None}
      /\ mon \in [Requests -> {"none", "sampling", "late", "stopped"}]
      /\ hot \in [Requests -> BOOLEAN] /\ event \in [Requests -> BOOLEAN]
      /\ outcome \in [Requests -> Outcomes]
  BY DEF TypeOK, BackendTypeOK, ThermalTypeOK
<1> USE <1>t, OutcomeCancelled, NoneAssumption DEF LoopPoints, FreshEvents
<1>1. CASE UNCHANGED vars
  BY <1>1
<1>2. ASSUME NEW r \in Requests, Receive(r) PROVE (EventHasCause /\ CancelHasCause)'
  <2> USE DEF Read, Answer
  <2>1. CASE Health(r)
    BY <2>1 DEF Health
  <2>2. CASE Malformed(r)
    BY <2>2 DEF Malformed
  <2>3. CASE LoadCheck(r)
    BY <2>3 DEF LoadCheck
  <2>4. CASE RunCheck(r)
    BY <2>4 DEF RunCheck
  <2>5. CASE Cancel(r)
    BY <2>5 DEF Cancel, SetCancel
  <2>6. CASE TakeBackend(r)
    BY <2>6 DEF TakeBackend
  <2> QED
    BY <1>2, <2>1, <2>2, <2>3, <2>4, <2>5, <2>6 DEF Receive
<1>3. ASSUME NEW r \in Requests, LoopStep(r) PROVE (EventHasCause /\ CancelHasCause)'
  <2> USE DEF Answer, RunTask
  <2>1. CASE LoadStart(r)
    BY <2>1 DEF LoadStart
  <2>2. CASE RunStart(r)
    BY <2>2 DEF RunStart
  <2>3. CASE Release(r)
    BY <2>3 DEF Release, BackendUnload
  <2> QED
    BY <1>3, <2>1, <2>2, <2>3 DEF LoopStep
<1>4. ASSUME NEW r \in Requests, TaskStep(r) PROVE (EventHasCause /\ CancelHasCause)'
  <2> USE DEF Goto, Fail
  <2>1. CASE Admit(r)
    BY <2>1 DEF Admit, StartMonitor, StopMonitor
  <2>2. CASE LoadModel(r)
    BY <2>2 DEF LoadModel, StopMonitor, BackendLoad
  <2>3. CASE CheckHeat(r)
    BY <2>3 DEF CheckHeat, StopMonitor, BackendUnload
  <2>4. CASE Publish(r)
    BY <2>4 DEF Publish
  <2>5. CASE Seal(r)
    BY <2>5 DEF Seal, StopMonitor
  <2>6. CASE StartRun(r)
    BY <2>6 DEF StartRun, StartMonitor
  <2>7. CASE Generate(r)
    BY <2>7 DEF Generate, StopMonitor, EnterGenerate
  <2>8. CASE Snapshot(r)
    BY <2>8 DEF Snapshot, StopMonitor
  <2>9. CASE Drop(r)
    BY <2>9 DEF Drop, StopMonitor, BackendUnload
  <2>10. CASE Clear(r)
    BY <2>10 DEF Clear
  <2>11. CASE Finish(r)
    BY <2>11 DEF Finish
  <2>12. CASE Reply(r)
    BY <2>12 DEF Reply
  <2> QED
    BY <1>4, <2>1, <2>2, <2>3, <2>4, <2>5, <2>6, <2>7, <2>8, <2>9, <2>10, <2>11, <2>12
       DEF TaskStep
<1>5. ASSUME NEW r \in Requests, Generated(r) PROVE (EventHasCause /\ CancelHasCause)'
  <2>1. CASE Fail(r, "generating")
    BY <1>5, <2>1 DEF Generated, Goto, Fail, StopMonitor
  <2>2. CASE ~Fail(r, "generating")
    <3>1. PICK c \in CancelledFlag(local[r]) :
            outcome' = [outcome EXCEPT ![r] = [Ok EXCEPT !.cancelled = c]]
      BY <1>5, <2>2, Zenon DEF Generated
    <3>2. c => event[local[r]]
      BY <3>1 DEF CancelledFlag
    <3> DEFINE o == [Ok EXCEPT !.cancelled = c]
    <3>3. o.cancelled = c /\ outcome' = [outcome EXCEPT ![r] = o]
      BY <3>1
    <3> HIDE DEF o
    <3>4. /\ tpc[r] = "generating" /\ tpc' = [tpc EXCEPT ![r] = "snapshot"]
          /\ UNCHANGED <<event, mon, hot, proc, op, local, acked>>
      BY <1>5, <2>2 DEF Generated, Goto
    <3>5. proc = "up"
      BY <3>4 DEF Next, Exited
    <3>6. c => hot[r] \/ r \in acked
      BY <3>2, <3>4, <3>5
    <3> QED
      BY <3>3, <3>4, <3>6
  <2> QED
    BY <2>1, <2>2
<1>6. ASSUME NEW r \in Requests, MonitorSample(r) PROVE (EventHasCause /\ CancelHasCause)'
  BY <1>6 DEF MonitorSample, Sample
<1>7. CASE EndOfInput
  BY <1>7 DEF EndOfInput
<1>8. CASE ProcessExit
  BY <1>8 DEF ProcessExit
<1> QED
  BY <1>1, <1>2, <1>3, <1>4, <1>5, <1>6, <1>7, <1>8 DEF Next, Step, Exited

(* With a serial client, a run is reported cancelled only for its own heat *)
(* or for a cancel acknowledged while it was the task.                     *)
THEOREM CancelCause ==
  ASSUME SerialClient, FreshEvents PROVE Spec => []CancelHasCause
<1> DEFINE Inv == SlotInvariant /\ MonitorCoversTask /\ EventHasCause /\ CancelHasCause
<1>1. Init => Inv
  BY InitSlot, OutcomeCancelled
     DEF Init, ThermalInit, MonitorCoversTask, EventHasCause, CancelHasCause
<1>2. Inv /\ [Next]_vars => Inv'
  BY SlotStep, MonitorStep, CauseStep DEF SlotInvariant
<1>3. Inv => CancelHasCause
  OBVIOUS
<1> QED
  BY <1>1, <1>2, <1>3, PTL DEF Spec

-----------------------------------------------------------------------------
(* Only the task clears an event, and a generation in progress is the task. *)
LEMMA EventStays ==
  ASSUME TaskInvariant, Objects, NEW r \in Requests,
         tpc[r] = "generating", event[local[r]], [Next]_vars, tpc'[r] = "generating"
  PROVE  event'[local[r]]
<1> DEFINE b == local[r]
<1>t. /\ event \in [Requests -> BOOLEAN] /\ b \in Requests /\ task = r
      /\ \A q \in Requests : Active(q) => q = r
  BY DEF TaskInvariant, TypeOK, BackendTypeOK, OneTaskAtATime, Objects, RunPoints, Active
<1> HIDE DEF b
<1>b. event[b]
  BY DEF b
<1> SUFFICES event'[b]
  BY DEF b
<1> USE DEF vars, backendVars
<1>1. ASSUME NEW q \in Requests, q # r PROVE tpc[q] \in {"idle", "reply", "done"}
  BY <1>t, <1>1 DEF Active
<1>2. CASE event' = event
  BY <1>b, <1>2
<1>3. ASSUME NEW q, event' = [event EXCEPT ![q] = TRUE] PROVE event'[b]
  BY <1>b, <1>t, <1>3
<1>4. ASSUME NEW q \in Requests, Receive(q) PROVE event'[b]
  BY <1>2, <1>3, <1>4
     DEF Receive, Health, Malformed, LoadCheck, RunCheck, Cancel, SetCancel, TakeBackend
<1>5. ASSUME NEW q \in Requests, LoopStep(q) PROVE event'[b]
  BY <1>2, <1>3, <1>5 DEF LoopStep, LoadStart, RunStart, RunTask, Release, BackendUnload
<1>6. ASSUME NEW q \in Requests, TaskStep(q) PROVE event'[b]
  <2>1. CASE q = r
    BY <1>2, <1>6, <2>1
       DEF TaskStep, Admit, LoadModel, CheckHeat, Publish, Seal, StartRun, Generate, Snapshot, Drop,
           Clear, Finish, Reply, Goto, Fail
  <2>2. CASE q # r
    BY <1>1, <1>2, <1>6, <2>2
       DEF TaskStep, Admit, LoadModel, CheckHeat, Publish, Seal, StartRun, Generate, Snapshot, Drop,
           Clear, Finish, Reply, Goto, Fail
  <2> QED
    BY <2>1, <2>2
<1>7. ASSUME NEW q \in Requests, Generated(q) PROVE event'[b]
  BY <1>2, <1>7 DEF Generated
<1>8. ASSUME NEW q \in Requests, MonitorSample(q) PROVE event'[b]
  <2>1. \E v \in BOOLEAN : event' = [event EXCEPT ![local[q]] = @ \/ v]
    BY <1>8 DEF MonitorSample, Sample
  <2> QED
    BY <1>b, <1>t, <2>1
<1>9. CASE EndOfInput \/ ProcessExit
  BY <1>2, <1>9 DEF EndOfInput, ProcessExit
<1> QED
  BY <1>2, <1>4, <1>5, <1>6, <1>7, <1>8, <1>9 DEF Next, Step, Exited

(* A cancellation that reached a generation is not lost while it runs,     *)
(* whatever the client sends and whatever the monitors do.                 *)
THEOREM CancelKept == Spec => CancelIsKept
<1> DEFINE Kept == \A r \in Requests :
             tpc[r] = "generating" /\ tpc'[r] = "generating" /\ event[local[r]] => event'[local[r]]
<1>1. Init => TaskInvariant /\ Objects
  BY InitTask, NoneAssumption DEF Init, Objects, Past, RunPoints
<1>2. TaskInvariant /\ Objects /\ [Next]_vars => (TaskInvariant /\ Objects)'
  BY TypeStep, TaskStepKeeps, ObjectsStep DEF TaskInvariant
<1>3. TaskInvariant /\ Objects /\ [Next]_vars => [Kept]_vars
  BY EventStays
<1> QED
  BY <1>1, <1>2, <1>3, PTL DEF Spec, CancelIsKept
=============================================================================
