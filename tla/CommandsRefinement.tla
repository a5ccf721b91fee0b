------------------------- MODULE CommandsRefinement -------------------------
(***************************************************************************)
(* Commands that follow each other implement ModelLease, for every number  *)
(* of commands and turns.                                                  *)
(***************************************************************************)
EXTENDS CommandsProofs

(* The pid file of a command that has a worker names that worker or none:  *)
(* the command found it free and no other one has begun since.             *)
LEMMA NamesOwnOnlyStep ==
  ASSUME LifecycleInv, PidfileInv, NamesOwnOnly, "concurrent" \notin Faults,
         NEW c \in Controllers, StepOf(c)
  PROVE  NamesOwnOnly'
<1> SUFFICES ASSUME NEW d \in Controllers, Begun(d)', process'[d]
             PROVE  pidfile' \in {d, None, "garbled"}
  BY DEF NamesOwnOnly
<1>1. Local(c) /\ Local(d) /\ TypeOK /\ WaitsInRequest
  BY LocalIsLifecycle DEF LifecycleInv
<1>2. Apart(c)
  BY <1>1, StepsAreApart
<1>3. CASE d # c
  <2>1. Begun(d) /\ process[d]
    BY <1>2, <1>3 DEF Apart, Begun
  <2>2. ~Begun(c)
    BY <1>3, <2>1 DEF PidfileInv, OneCommand
  <2>3. pidfile' = pidfile
    BY <1>1, <2>2, StartSteps
       DEF Begun, Begin, ReadPidfile, Verify, Discard, Spawn, Open, Write, Unlink
  <2> QED
    BY <2>1, <2>3 DEF NamesOwnOnly
<1>4. CASE d = c
  <2>1. CASE Begun(c) /\ process[c]
    <3>1. pidfile' \in {pidfile, None, "garbled", c}
      BY <1>2 DEF Apart
    <3> QED
      BY <1>4, <2>1, <3>1 DEF NamesOwnOnly
  <2>2. CASE Spawn(c)
    BY <1>4, <2>2 DEF Spawn, PidfileInv, StartKnows
  <2>3. CASE ~(Begun(c) /\ process[c]) /\ ~Spawn(c)
    BY <1>1, <1>4, <2>3, StartSteps
       DEF Begun, Begin, ReadPidfile, Verify, Discard, Open, Write, Unlink, Local, Early, TypeOK,
           Goto, Conclude, Continue, clientVars, Requests
  <2> QED
    BY <2>1, <2>2, <2>3
<1> QED
  BY <1>3, <1>4

(* Only these steps of a command and its worker touch the lease.           *)
LEMMA LeaseSteps ==
  ASSUME TypeOK, WaitsInRequest, NEW c \in Controllers, StepOf(c)
  PROVE  \/ Discard(c) \/ Open(c) \/ Write(c) \/ Unlink(c) \/ Spawn(c) \/ Serve(c) \/ EndTask(c)
         \/ \E how : GoDown(c, how)
         \/ UNCHANGED <<pidfile, job, held>> /\ \A d \in Controllers : Alive(d)' = Alive(d)
<1> USE DEF TypeOK, Alive, programVars, clientVars, callVars, workerVars
<1>1. CASE Begin(c) \/ ReadPidfile(c) \/ Verify(c) \/ Record(c)
  BY <1>1 DEF Begin, ReadPidfile, Verify, Record
<1>2. CASE Send(c) \/ Receive(c) \/ SeeCrash(c) \/ Timeout(c)
  BY <1>2 DEF Send, Receive, SeeCrash, Timeout, EndWait
<1>3. CASE Deadline(c) \/ Finally(c) \/ Stop(c) \/ ExitWait(c) \/ TermWait(c)
  BY <1>3 DEF Deadline, Finally, Stop, ExitWait, TermWait, WaitExit
<1>4. CASE Terminate(c)
  BY <1>4 DEF Terminate
<1>5. CASE KillWait(c) \/ Close(c)
  BY <1>5 DEF KillWait, Close
<1>6. CASE ExitCommand(c) \/ Kill(c)
  BY <1>6 DEF ExitCommand, Kill, Vanish
<1>7. CASE Interrupt(c)
  BY <1>7 DEF Interrupt
<1>8. CASE Leave(c) \/ BecomeWaitable(c)
  BY <1>8 DEF Leave, BecomeWaitable
<1> QED
  BY <1>1, <1>2, <1>3, <1>4, <1>5, <1>6, <1>7, <1>8 DEF StepOf, CommandStep, WorkerStep, SystemStep

(* A worker that comes to hold a model is alive and named.                 *)
LEMMA FillsWhenNamed ==
  ASSUME LifecycleInv, PidfileInv, Next, NEW d \in Controllers, MayHoldModel(d)', ~MayHoldModel(d)
  PROVE  pidfile = d /\ Alive(d)
<1>1. Danger(d)'
  BY DEF MayHoldModel, Danger
<1>2. ~Send(d)
  BY DEF Send, MayHoldModel
<1>3. Danger(d)
  BY <1>1, <1>2, DangerStep DEF LifecycleInv
<1> QED
  BY <1>3 DEF PidfileInv, DangerIsNamed, LifecycleInv, DownIsEmpty, TypeOK, Alive

LEMMA StepLease ==
  ASSUME LifecycleInv, PidfileInv, NamesOwnOnly, NEW c \in Controllers, StepOf(c)
  PROVE  Lease!Next \/ UNCHANGED Lease!lease
<1> USE DEF Lease!Next, Lease!lease
<1> DEFINE owner == IF pidfile \in Controllers THEN pidfile ELSE None
           alive == {d \in Controllers : Alive(d)}
           holding == {d \in Controllers : MayHoldModel(d)}
<1>0. TypeOK /\ WaitsInRequest /\ Next /\ Local(c)
  BY LocalIsLifecycle DEF LifecycleInv, Next, StepOf
<1>1. CASE Discard(c)
  <2>1. alive' = alive /\ holding' = holding
    BY <1>1 DEF Discard, workerVars, Alive, MayHoldModel
  <2>2. owner' = None
    BY <1>1, ControllersAssumption DEF Discard
  <2>3. owner \notin alive
    BY <1>1, ControllersAssumption DEF Discard, PidfileInv, StartKnows
  <2>4. Lease!Release
    BY <2>1, <2>2, <2>3 DEF Lease!Release
  <2> QED
    BY <2>4
<1>2. CASE Open(c)
  <2>1. alive' = alive /\ holding' = holding
    BY <1>2 DEF Open, workerVars, Alive, MayHoldModel
  <2>2. owner' = None /\ owner = None
    BY <1>2, ControllersAssumption DEF Open, PidfileInv, StartKnows
  <2> QED
    BY <2>1, <2>2
<1>3. CASE Write(c)
  <2>1. alive' = alive /\ holding' = holding
    BY <1>3 DEF Write, workerVars, Alive, MayHoldModel
  <2>2. owner = None /\ owner' \in {None, c}
    BY <1>3, ControllersAssumption DEF Write, PidfileInv, StartKnows
  <2>3. owner' = None \/ Lease!Acquire(c)
    BY <2>1, <2>2 DEF Lease!Acquire
  <2> QED
    BY <2>1, <2>2, <2>3
<1>4. CASE Unlink(c)
  <2>1. alive' = alive /\ holding' = holding
    BY <1>4 DEF Unlink, workerVars, Alive, MayHoldModel
  <2>2. owner' = None
    BY <1>4, ControllersAssumption DEF Unlink
  <2>3. pidfile \in {c, None, "garbled"} /\ c \notin alive
    BY <1>0, <1>4 DEF Unlink, Local, NamesOwnOnly, Begun, Alive
  <2>4. Lease!Release
    BY <2>1, <2>2, <2>3, ControllersAssumption DEF Lease!Release
  <2> QED
    BY <2>4
<1>5. CASE Spawn(c)
  <2>1. owner' = owner /\ holding' = holding /\ alive' \in {alive, alive \cup {c}}
    BY <1>0, <1>5 DEF Spawn, Alive, MayHoldModel, TypeOK
  <2>2. alive' = alive \/ Lease!Start(c)
    BY <2>1 DEF Lease!Start
  <2> QED
    BY <2>1, <2>2
<1>6. CASE Serve(c) \/ EndTask(c)
  <2>1. owner' = owner /\ alive' = alive
    <3>1. /\ pidfile' = pidfile
          /\ \/ life' = life
             \/ life[c] = "up" /\ life' = [life EXCEPT ![c] = "leaving"]
      <4>1. CASE Serve(c)
        BY <1>0, <4>1, ServeTypes
      <4>2. CASE EndTask(c)
        BY <4>2 DEF EndTask
      <4> QED
        BY <1>6, <4>1, <4>2
    <3>2. \A d \in Controllers : Alive(d)' = Alive(d)
      BY <1>0, <3>1 DEF Alive, TypeOK
    <3> QED
      BY <3>1, <3>2
  <2>2. \A d \in Controllers : d # c => MayHoldModel(d)' = MayHoldModel(d)
    <3>1. CASE Serve(c)
      <4>1. /\ job' \in {job, [job EXCEPT ![c] = "load"], [job EXCEPT ![c] = "run"]}
            /\ held' \in {held, [held EXCEPT ![c] = FALSE]}
        BY <1>0, <3>1, ServeTypes
      <4> QED
        BY <1>0, <4>1 DEF MayHoldModel, TypeOK
    <3>2. CASE EndTask(c)
      BY <1>0, <3>2 DEF EndTask, MayHoldModel, TypeOK
    <3> QED
      BY <1>6, <3>1, <3>2
  <2>3. CASE MayHoldModel(c)' /\ ~MayHoldModel(c)
    <3>1. owner = c /\ c \in alive
      BY <1>0, <2>3, FillsWhenNamed
    <3>2. Lease!Fill(c)
      BY <2>1, <2>2, <2>3, <3>1 DEF Lease!Fill
    <3> QED
      BY <3>2
  <2>4. CASE ~MayHoldModel(c)'
    <3>1. Lease!Empty(c)
      BY <2>1, <2>2, <2>4 DEF Lease!Empty
    <3> QED
      BY <3>1
  <2>5. CASE MayHoldModel(c)' /\ MayHoldModel(c)
    <3>1. holding' = holding
      BY <2>2, <2>5
    <3> QED
      BY <2>1, <3>1
  <2> QED
    BY <2>3, <2>4, <2>5
<1>7. ASSUME NEW how, GoDown(c, how) PROVE Lease!GoDown(c)
  BY <1>0, <1>7 DEF GoDown, Lease!GoDown, Alive, MayHoldModel, TypeOK
<1>8. CASE UNCHANGED <<pidfile, job, held>> /\ \A d \in Controllers : Alive(d)' = Alive(d)
  BY <1>8 DEF MayHoldModel
<1> QED
  BY <1>0, <1>1, <1>2, <1>3, <1>4, <1>5, <1>6, <1>7, <1>8, LeaseSteps

(* Commands that follow each other, whichever of them are killed, whose    *)
(* workers crash or get stuck and whatever their pid file fails at: a      *)
(* worker comes to hold a model only while the pid file names it, and the  *)
(* file names it until it is gone.                                         *)
THEOREM CommandsImplementModelLease ==
  ASSUME "concurrent" \notin Faults
  PROVE  Spec => ImplementsModelLease
<1> DEFINE I == LifecycleInv /\ PidfileInv
<1>1. Init => NamesOwnOnly /\ Lease!Init
  BY ControllersAssumption DEF Init, NamesOwnOnly, Lease!Init, Begun, Alive, MayHoldModel
<1>2. I /\ NamesOwnOnly /\ [Next]_vars => NamesOwnOnly' /\ [Lease!Next]_(Lease!lease)
  <2> SUFFICES ASSUME I, NamesOwnOnly, [Next]_vars
               PROVE  NamesOwnOnly' /\ [Lease!Next]_(Lease!lease)
    OBVIOUS
  <2>1. CASE UNCHANGED vars
    BY <2>1 DEF vars, programVars, clientVars, workerVars, NamesOwnOnly, Begun, Alive, MayHoldModel,
                Lease!lease
  <2>2. CASE Next
    <3>1. PICK c \in Controllers : StepOf(c)
      BY <2>2 DEF Next, StepOf
    <3> QED
      BY <3>1, NamesOwnOnlyStep, StepLease
  <2> QED
    BY <2>1, <2>2
<1> QED
  BY <1>1, <1>2, PidfileHolds, PTL DEF Spec, ImplementsModelLease, Lease!Spec
=============================================================================
