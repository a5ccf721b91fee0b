---------------------------- MODULE ClientProofs ----------------------------
(***************************************************************************)
(* Proofs about Client, for every set of calls and any number of starts.   *)
(***************************************************************************)
EXTENDS ClientInvariants, TLAPS

(* Who was replied to is a function of the lines that were written. *)
LEMMA RepliedStays == UNCHANGED answers => UNCHANGED replied
  BY DEF replied
LEMMA RepliedCalls == replied \subseteq Calls /\ replied' \subseteq Calls
  BY DEF replied
USE RepliedStays, RepliedCalls

LEMMA TypeInit == ASSUME Init PROVE TypeOK
  BY MaxStartsAssumption DEF Init, TypeOK, Workers, Results

(* Every step writes only values of the declared kinds.                    *)
LEMMA WorkerTypes ==
  ASSUME TypeOK, NEW n \in Workers, WorkerStep(n)
  PROVE  TypeOK'
<1> USE DEF TypeOK, clientVars, readerVars, callVars, lifeVars
<1>1. CASE \E c \in Calls : Answer(n, c)
  <2>1. PICK c \in Calls, reply \in Replies :
          /\ stdout' = [stdout EXCEPT ![n] = @ \cup {<<c, reply>>}]
          /\ answers' = answers \cup {<<c, reply>>}
          /\ life' \in {life, [life EXCEPT ![n] = "stopping"]}
          /\ inbox' = [inbox EXCEPT ![n] = @ \ {c}]
          /\ UNCHANGED <<clientVars, code, readerVars, callVars, lifeVars>>
    BY <1>1 DEF Answer
  <2>2. stdout' \in [Workers -> SUBSET (Calls \X Replies)] /\ answers' \subseteq Calls \X Replies
    BY <2>1
  <2>3. life' \in [Workers -> {"unborn", "running", "stopping", "closing", "dead"}]
    BY <2>1
  <2>4. inbox' \in [Workers -> SUBSET Calls]
    BY <2>1
  <2> QED
    BY <2>1, <2>2, <2>3, <2>4
<1>2. CASE \E status \in {"clean", "crash", "hard_stop"} : Exit(n, status)
  BY <1>2 DEF Exit, Live
<1>3. CASE BecomeWaitable(n)
  BY <1>3 DEF BecomeWaitable
<1> QED
  BY <1>1, <1>2, <1>3 DEF WorkerStep

LEMMA ReaderTypes ==
  ASSUME TypeOK, ReaderCarries, NEW n \in Workers, ReaderStep(n)
  PROVE  TypeOK'
<1> USE DEF TypeOK, clientVars, workerVars, callVars, lifeVars
<1>1. CASE \E line \in stdout[n] : ReadLine(n, line)
  <2>1. PICK line \in stdout[n] : ReadLine(n, line)
    BY <1>1
  <2>2. line \in Calls \X Replies /\ [stdout EXCEPT ![n] = @ \ {line}][n] \subseteq Calls \X Replies
    OBVIOUS
  <2>3. \A m \in Workers : stdout'[m] \subseteq Calls \X Replies
    BY <2>1 DEF ReadLine
  <2>4. /\ reader' \in [Workers -> {"none", "reading", "put", "check", "enter", "wait", "fail", "done"}]
        /\ held' \in [Workers -> (Calls \X Replies) \cup {<<>>}]
    <3>1. CASE UNCHANGED <<reader, held>>
      BY <3>1
    <3>2. CASE reader' = [reader EXCEPT ![n] = "put"] /\ held' = [held EXCEPT ![n] = line]
      BY <3>2, <2>2
    <3> QED
      BY <2>1, <3>1, <3>2 DEF ReadLine
  <2> QED
    BY <2>1, <2>3, <2>4 DEF ReadLine
<1>2. CASE Put(n)
  <2>1. held[n] \in Calls \X Replies
    BY <1>2 DEF Put, ReaderCarries
  <2> QED
    BY <1>2, <2>1 DEF Put
<1>3. CASE EndOfOutput(n)
  BY <1>3 DEF EndOfOutput
<1>4. CASE CheckProcess(n)
  <2>1. /\ reader' \in {[reader EXCEPT ![n] = "fail"], [reader EXCEPT ![n] = "enter"]}
        /\ verdict' \in {verdict, [verdict EXCEPT ![n] = "worker_crash"]}
        /\ UNCHANGED <<clientVars, workerVars, watch, held, callVars, lifeVars>>
    BY <1>4 DEF CheckProcess
  <2>2. verdict' \in [Workers -> {"none"} \cup Crashes]
    <3>1. verdict \in [Workers -> {"none"} \cup Crashes] /\ "worker_crash" \in Crashes
      BY DEF Crashes
    <3>2. verdict' = verdict \/ verdict' = [verdict EXCEPT ![n] = "worker_crash"]
      BY <2>1
    <3> HIDE DEF TypeOK
    <3> QED
      BY <3>1, <3>2
  <2>3. reader' \in [Workers -> {"none", "reading", "put", "check", "enter", "wait", "fail", "done"}]
    BY <2>1
  <2> QED
    BY <2>1, <2>2, <2>3
<1>5. CASE EnterWait(n)
  BY <1>5 DEF EnterWait
<1>6. CASE WaitProcess(n)
  <2>1. \A m : Category(m) \in Crashes
    BY DEF Category, Crashes
  <2>2. /\ reader' \in [Workers -> {"none", "reading", "put", "check", "enter", "wait", "fail", "done"}]
        /\ verdict' \in [Workers -> {"none"} \cup Crashes]
    <3>1. CASE /\ reader' = [reader EXCEPT ![n] = "fail"]
               /\ \E m : verdict' = [verdict EXCEPT ![n] = Category(m)]
      BY <3>1, <2>1
    <3>2. CASE reader' = [reader EXCEPT ![n] = "done"] /\ UNCHANGED verdict
      BY <3>2
    <3> QED
      BY <1>6, <3>1, <3>2 DEF WaitProcess
  <2> QED
    BY <1>6, <2>2 DEF WaitProcess
<1>7. CASE FailPending(n)
  <2>1. verdict[n] \in Crashes
    BY <1>7 DEF FailPending, ReaderCarries
  <2> QED
    BY <1>7, <2>1 DEF FailPending
<1> QED
  BY <1>1, <1>2, <1>3, <1>4, <1>5, <1>6, <1>7 DEF ReaderStep

LEMMA CallTypes ==
  ASSUME TypeOK, NEW c \in Calls, Poll(c) \/ CallStep(c) \/ Timeout(c)
  PROVE  TypeOK'
<1> USE DEF TypeOK, clientVars, workerVars, readerVars, lifeVars, Results
<1>1. CASE Poll(c)
  <2>1. /\ rpc' \in {[rpc EXCEPT ![c] = "returned"], [rpc EXCEPT ![c] = "register"]}
        /\ result' \in {result, [result EXCEPT ![c] = "not_running"]}
        /\ UNCHANGED <<clientVars, workerVars, readerVars, pending, box, gen, lifeVars>>
    BY <1>1 DEF Poll, Return
  <2>2. result' \in [Calls -> Results]
    BY <2>1
  <2>3. rpc' \in [Calls -> {"new", "register", "write", "waiting", "pop", "returned"}]
    BY <2>1
  <2> QED
    BY <2>1, <2>2, <2>3
<1>2. CASE Register(c)
  BY <1>2 DEF Register
<1>3. CASE Write(c) /\ CanWrite
  <2>1. process \in Workers
    BY <1>3, MaxStartsAssumption DEF CanWrite, Workers
  <2>2. /\ inbox' = [inbox EXCEPT ![process] = @ \cup {c}] /\ gen' = [gen EXCEPT ![c] = process]
        /\ rpc' = [rpc EXCEPT ![c] = "waiting"]
        /\ UNCHANGED <<stdin, pending, result, process, pidfile, started, closed, life, code, stdout,
                       answers, readerVars, box, lifeVars>>
    BY <1>3 DEF Write
  <2>3. inbox' \in [Workers -> SUBSET Calls] /\ gen' \in [Calls -> 0 .. MaxStarts]
    BY <2>1, <2>2
  <2> QED
    BY <2>2, <2>3
<1>4. CASE Write(c) /\ ~CanWrite
  <2>1. /\ rpc' = [rpc EXCEPT ![c] = "returned"] /\ result' = [result EXCEPT ![c] = "os_error"]
        /\ pending' = pending \ {c}
        /\ stdin' = [n \in Workers |->
                       IF n = process /\ stdin[n] = "open" THEN "broken" ELSE stdin[n]]
        /\ UNCHANGED <<inbox, gen, process, pidfile, started, closed, life, code, stdout, answers,
                       readerVars, box, lifeVars>>
    BY <1>4 DEF Write, Return
  <2>2. stdin' \in [Workers -> {"open", "broken", "closed"}]
    BY <2>1
  <2>3. result' \in [Calls -> Results]
    BY <2>1
  <2> QED
    BY <2>1, <2>2, <2>3
<1>5. CASE Receive(c)
  BY <1>5 DEF Receive
<1>6. CASE Timeout(c)
  BY <1>6 DEF Timeout
<1>7. CASE Pop(c)
  BY <1>7 DEF Pop
<1>8. CASE TooLong(c)
  BY <1>8 DEF TooLong, Return, Results, clientVars, workerVars, readerVars, lifeVars
<1> QED
  BY <1>1, <1>2, <1>3, <1>4, <1>5, <1>6, <1>7, <1>8 DEF CallStep

LEMMA LifecycleTypes ==
  ASSUME TypeOK, LifecycleHasProcess, Start \/ Stop \/ Terminate \/ LifecycleStep
  PROVE  TypeOK'
<1> USE DEF TypeOK, clientVars, workerVars, readerVars, callVars
<1>1. CASE Start
  <2>1. started' \in 0 .. MaxStarts /\ process' \in 0 .. MaxStarts
    BY <1>1, MaxStartsAssumption DEF Start
  <2>2. life' \in [Workers -> {"unborn", "running", "stopping", "closing", "dead"}]
    BY <1>1 DEF Start
  <2> QED
    BY <1>1, <2>1, <2>2 DEF Start
<1>2. CASE Stop
  BY <1>2 DEF Stop
<1>3. CASE Terminate
  BY <1>3 DEF Terminate
<1>4. CASE Record
  BY <1>4 DEF Record
<1>5. CASE StopReplied
  BY <1>5 DEF StopReplied
<1>6. CASE ExitWait \/ Signal \/ TermWait \/ KillWait
  BY <1>6 DEF ExitWait, Signal, TermWait, KillWait, Wait
<1>7. CASE Close
  <2>1. process \in Workers
    BY <1>7, MaxStartsAssumption DEF Close, LifecycleHasProcess, Idle, Workers
  <2> QED
    <3>1. /\ stdin' = [stdin EXCEPT ![process] = "closed"]
          /\ closed' \in {closed, closed \cup {process}} /\ lpc' \in {"raised", "unlink"}
          /\ UNCHANGED <<process, pidfile, started, workerVars, readerVars, callVars, stops, stop>>
      BY <1>7 DEF Close
    <3>2. stdin' \in [Workers -> {"open", "broken", "closed"}] /\ closed' \subseteq Workers
      BY <2>1, <3>1
    <3> QED
      BY <3>1, <3>2
<1>8. CASE Forget
  BY <1>8, MaxStartsAssumption DEF Forget
<1> QED
  BY <1>1, <1>2, <1>3, <1>4, <1>5, <1>6, <1>7, <1>8 DEF LifecycleStep
-----------------------------------------------------------------------------
(* No live worker is forgotten.                                            *)

(* The threads of calls and the readers leave the lifecycle alone. *)
LEMMA CallFrame ==
  ASSUME NEW c \in Calls, Poll(c) \/ CallStep(c) \/ Timeout(c)
  PROVE  /\ UNCHANGED <<process, pidfile, started, closed, life, code, stdout, answers,
                        readerVars, lifeVars>>
BY DEF CallStep, Poll, Register, Write, TooLong, Receive, Timeout, Pop, clientVars, workerVars, readerVars,
       lifeVars

LEMMA ReaderFrame ==
  ASSUME NEW n \in Workers, ReaderStep(n)
  PROVE  UNCHANGED <<clientVars, life, code, inbox, answers, pending, rpc, result, gen, lifeVars>>
BY DEF ReaderStep, ReadLine, Put, EndOfOutput, CheckProcess, EnterWait, WaitProcess, FailPending,
       workerVars, callVars

LEMMA WorkerFrame ==
  ASSUME NEW n \in Workers, WorkerStep(n)
  PROVE  UNCHANGED <<clientVars, readerVars, callVars, lifeVars>>
BY DEF WorkerStep, Answer, Exit, BecomeWaitable

(* A process never lives again, and one that is dead stays dead. *)
LEMMA WorkerLife ==
  ASSUME TypeOK, NEW n \in Workers, WorkerStep(n)
  PROVE  \A m \in Workers : /\ Live(m)' => Live(m)
                            /\ life[m] = "dead" => life'[m] = "dead"
<1> USE DEF TypeOK, Live
<1>1. CASE \E c \in Calls : Answer(n, c)
  BY <1>1 DEF Answer
<1>2. CASE \E status \in {"clean", "crash", "hard_stop"} : Exit(n, status)
  BY <1>2 DEF Exit
<1>3. CASE BecomeWaitable(n)
  BY <1>3 DEF BecomeWaitable
<1> QED
  BY <1>1, <1>2, <1>3 DEF WorkerStep

LEMMA ReaderCarriesStep ==
  ASSUME TypeOK, ReaderCarries, NEW n \in Workers, ReaderStep(n)
  PROVE  ReaderCarries'
<1> USE DEF TypeOK, ReaderCarries
<1>1. CASE \E line \in stdout[n] : ReadLine(n, line)
  <2>1. PICK line \in stdout[n] : ReadLine(n, line)
    BY <1>1
  <2>2. line # <<>>
    <3>1. PICK c \in Calls, reply \in Replies : line = <<c, reply>>
      OBVIOUS
    <3>2. 1 \in DOMAIN line
      BY <3>1
    <3>3. 1 \notin DOMAIN <<>>
      OBVIOUS
    <3> QED
      BY <3>2, <3>3
  <2> QED
    BY <2>1, <2>2 DEF ReadLine
<1>2. CASE Put(n)
  BY <1>2 DEF Put
<1>3. CASE EndOfOutput(n)
  BY <1>3 DEF EndOfOutput
<1>4. CASE CheckProcess(n)
  <2>1. held' = held
    BY <1>4 DEF CheckProcess
  <2>2. CASE reader' = [reader EXCEPT ![n] = "fail"] /\ verdict' = [verdict EXCEPT ![n] = "worker_crash"]
    BY <2>1, <2>2 DEF Crashes
  <2>3. CASE reader' = [reader EXCEPT ![n] = "enter"] /\ UNCHANGED verdict
    BY <2>1, <2>3
  <2> QED
    BY <1>4, <2>2, <2>3 DEF CheckProcess
<1>5. CASE EnterWait(n)
  BY <1>5 DEF EnterWait
<1>6. CASE WaitProcess(n)
  BY <1>6 DEF WaitProcess, Category, Crashes
<1>7. CASE FailPending(n)
  BY <1>7 DEF FailPending
<1> QED
  BY <1>1, <1>2, <1>3, <1>4, <1>5, <1>6, <1>7 DEF ReaderStep

(* What each step of start(), stop() and terminate() does to the record. *)
LEMMA LifecycleRecord ==
  ASSUME RecordInv, Start \/ Stop \/ Terminate \/ LifecycleStep
  PROVE  /\ ReaderCarries' /\ ProcessIsLast' /\ LifecycleHasProcess' /\ ReleasedIsDead'
         /\ LiveWorkerIsRecorded'
<1> USE DEF RecordInv, TypeOK, ReaderCarries, ProcessIsLast, LifecycleHasProcess, ReleasedIsDead,
            LiveWorkerIsRecorded, Idle, Live, Waitable, clientVars, workerVars, readerVars, callVars
<1>1. CASE Start
  <2>1. \A n \in Workers : ~Live(n)
    BY <1>1 DEF Start, Workers
  <2>2. \A n \in Workers : Live(n)' => n = started'
    BY <1>1, <2>1 DEF Start
  <2> QED
    BY <1>1, <2>2 DEF Start
<1>2. CASE Stop
  BY <1>2 DEF Stop
<1>3. CASE Terminate
  BY <1>3 DEF Terminate
<1>4. CASE Record
  BY <1>4 DEF Record
<1>5. CASE StopReplied
  BY <1>5 DEF StopReplied
<1>6. CASE ExitWait \/ Signal \/ TermWait \/ KillWait
  BY <1>6 DEF ExitWait, Signal, TermWait, KillWait, Wait
<1>7. CASE Close
  BY <1>7 DEF Close
<1>8. CASE Forget
  BY <1>8 DEF Forget, Workers
<1> QED
  BY <1>1, <1>2, <1>3, <1>4, <1>5, <1>6, <1>7, <1>8 DEF LifecycleStep

LEMMA RecordStep ==
  ASSUME RecordInv, [Next]_vars
  PROVE  RecordInv'
<1> USE DEF RecordInv
<1>1. CASE \E n \in Workers : WorkerStep(n)
  <2>1. PICK n \in Workers : WorkerStep(n)
    BY <1>1
  <2>2. UNCHANGED <<clientVars, readerVars, callVars, lifeVars>>
    BY <2>1, WorkerFrame
  <2>3. /\ ReaderCarries' /\ ProcessIsLast' /\ LifecycleHasProcess'
    BY <2>2 DEF ReaderCarries, ProcessIsLast, LifecycleHasProcess, Idle, clientVars, readerVars,
                lifeVars
  <2>4. ReleasedIsDead'
    <3>1. lpc \in {"cleanup", "unlink"} => process \in Workers
      BY MaxStartsAssumption DEF TypeOK, LifecycleHasProcess, Idle, Workers
    <3> QED
      BY <2>1, <2>2, <3>1, WorkerLife DEF ReleasedIsDead, Waitable, clientVars, lifeVars
  <2>5. LiveWorkerIsRecorded'
    BY <2>1, <2>2, WorkerLife DEF LiveWorkerIsRecorded, clientVars, lifeVars
  <2> QED
    BY <2>1, <2>3, <2>4, <2>5, WorkerTypes
<1>2. CASE \E n \in Workers : ReaderStep(n)
  <2>1. PICK n \in Workers : ReaderStep(n)
    BY <1>2
  <2>2. UNCHANGED <<clientVars, life, lifeVars>>
    BY <2>1, ReaderFrame
  <2>3. /\ ProcessIsLast' /\ LifecycleHasProcess' /\ ReleasedIsDead' /\ LiveWorkerIsRecorded'
    BY <2>2 DEF ProcessIsLast, LifecycleHasProcess, ReleasedIsDead, LiveWorkerIsRecorded, Idle, Live,
                Waitable, clientVars, lifeVars
  <2> QED
    BY <2>1, <2>3, ReaderTypes, ReaderCarriesStep
<1>3. CASE \E c \in Calls : Poll(c) \/ CallStep(c) \/ Timeout(c)
  <2>1. PICK c \in Calls : Poll(c) \/ CallStep(c) \/ Timeout(c)
    BY <1>3
  <2>2. UNCHANGED <<process, pidfile, started, life, readerVars, lifeVars>>
    BY <2>1, CallFrame
  <2>3. /\ ReaderCarries' /\ ProcessIsLast' /\ LifecycleHasProcess' /\ ReleasedIsDead'
        /\ LiveWorkerIsRecorded'
    BY <2>2 DEF ReaderCarries, ProcessIsLast, LifecycleHasProcess, ReleasedIsDead,
                LiveWorkerIsRecorded, Idle, Live, Waitable, readerVars, lifeVars
  <2> QED
    BY <2>1, <2>3, CallTypes
<1>4. CASE Start \/ Stop \/ Terminate \/ LifecycleStep
  BY <1>4, LifecycleTypes, LifecycleRecord
<1>5. CASE UNCHANGED vars
  BY <1>5 DEF vars, clientVars, workerVars, readerVars, callVars, lifeVars, TypeOK, ReaderCarries,
              ProcessIsLast, LifecycleHasProcess, ReleasedIsDead, LiveWorkerIsRecorded, Idle, Live,
              Waitable
<1> QED
  BY <1>1, <1>2, <1>3, <1>4, <1>5 DEF Next

LEMMA RecordInit == ASSUME Init PROVE RecordInv
<1>1. TypeOK
  BY TypeInit
<1> QED
  BY <1>1 DEF Init, RecordInv, ReaderCarries, ProcessIsLast, LifecycleHasProcess, ReleasedIsDead,
              LiveWorkerIsRecorded, Idle, Live

THEOREM RecordHolds == Spec => []RecordInv
<1>1. Init => RecordInv
  BY RecordInit
<1>2. RecordInv /\ [Next]_vars => RecordInv'
  BY RecordStep
<1> QED
  BY <1>1, <1>2, PTL DEF Spec

(* The client's state, its calls, its reader threads and its worker        *)
(* processes stay within their kinds, under every fault.                   *)
THEOREM ClientTypeCorrect == Spec => []TypeOK
<1>1. RecordInv => TypeOK
  BY DEF RecordInv
<1> QED
  BY <1>1, RecordHolds, PTL

(* start(), stop(), terminate() and _cleanup never forget a live worker,   *)
(* whatever calls and former reader threads do meanwhile.                  *)
THEOREM LiveIsRecorded == Spec => []LiveWorkerIsRecorded
<1>1. RecordInv => LiveWorkerIsRecorded
  BY DEF RecordInv
<1> QED
  BY <1>1, RecordHolds, PTL
-----------------------------------------------------------------------------
(* Who is blamed.                                                          *)

(* A live process is the last one started. *)
LEMMA LiveIsLast ==
  ASSUME RecordInv, NEW n \in Workers, Live(n)
  PROVE  n = process /\ n = started
BY DEF RecordInv, ProcessIsLast, LiveWorkerIsRecorded, Workers

(* A line is answered only by a live process. *)
LEMMA AnswerFacts ==
  ASSUME TypeOK, NEW n \in Workers, WorkerStep(n)
  PROVE  /\ Live(n) \/ UNCHANGED <<code, stdout, inbox, answers>>
         /\ \A m \in Workers : m # n => code'[m] = code[m] /\ stdout'[m] = stdout[m] /\ inbox'[m] = inbox[m]
         /\ \A m \in Workers : stdout[m] \subseteq stdout'[m] /\ inbox'[m] \subseteq inbox[m]
         /\ \A c \in replied' : \/ c \in replied
                                \/ /\ c \in inbox[n] /\ Live(n)
                                   /\ \E reply \in Replies : <<c, reply>> \in stdout'[n]
<1> USE DEF TypeOK
<1>1. CASE \E c \in Calls : Answer(n, c)
  <2>1. PICK c \in Calls : Answer(n, c)
    BY <1>1
  <2>2. PICK reply \in Replies : stdout' = [stdout EXCEPT ![n] = @ \cup {<<c, reply>>}]
    BY <2>1 DEF Answer
  <2>3. <<c, reply>> \in stdout'[n]
    BY <2>2
  <2>4. \A m \in Workers : stdout[m] \subseteq stdout'[m] /\ (m # n => stdout'[m] = stdout[m])
    BY <2>2
  <2>5. \A m \in Workers : inbox'[m] \subseteq inbox[m] /\ (m # n => inbox'[m] = inbox[m])
    BY <2>1 DEF Answer
  <2>6. code' = code /\ Live(n) /\ c \in inbox[n]
    BY <2>1 DEF Answer
  <2>7. \E other \in Replies : answers' = answers \cup {<<c, other>>}
    BY <2>1 DEF Answer
  <2>8. \A d \in replied' : d \in replied \/ d = c
    BY <2>7 DEF replied
  <2> QED
    BY <2>3, <2>4, <2>5, <2>6, <2>8
<1>2. CASE \E status \in {"clean", "crash", "hard_stop"} : Exit(n, status)
  BY <1>2 DEF Exit
<1>3. CASE BecomeWaitable(n)
  BY <1>3 DEF BecomeWaitable
<1> QED
  BY <1>1, <1>2, <1>3 DEF WorkerStep

(* What is true of a process that was started stays true. *)
LEMMA TruthStays ==
  ASSUME RecordInv, [Next]_vars, NEW n \in Workers, n <= started, NEW v, Truth(n, v)
  PROVE  Truth(n, v)'
<1> USE DEF Truth, Live
<1>1. CASE \E m \in Workers : WorkerStep(m)
  <2>1. PICK m \in Workers : WorkerStep(m)
    BY <1>1
  <2>2. code'[n] = code[n] /\ ~Live(n)'
    BY <2>1, AnswerFacts, WorkerLife DEF RecordInv
  <2>3. closed' = closed
    BY <2>1, WorkerFrame DEF clientVars
  <2> QED
    BY <2>2, <2>3
<1>2. CASE \E m \in Workers : ReaderStep(m)
  BY <1>2, ReaderFrame DEF clientVars
<1>3. CASE \E c \in Calls : Poll(c) \/ CallStep(c) \/ Timeout(c)
  BY <1>3, CallFrame
<1>4. CASE Start
  <2>1. n # started + 1
    BY DEF RecordInv, TypeOK, Workers
  <2>2. life'[n] = life[n] /\ code' = code /\ closed' = closed
    BY <1>4, <2>1 DEF Start, RecordInv, TypeOK
  <2> QED
    BY <2>2
<1>5. CASE Close
  BY <1>5 DEF Close, workerVars
<1>6. CASE Stop \/ Terminate \/ Record \/ StopReplied \/ ExitWait \/ Signal \/ TermWait \/ KillWait
  <2>1. UNCHANGED <<closed, workerVars>>
    BY <1>6 DEF Stop, Terminate, Record, StopReplied, ExitWait, Signal, TermWait, KillWait, Wait,
                clientVars
  <2> QED
    BY <2>1 DEF workerVars
<1>7. CASE Forget
  BY <1>7 DEF Forget, workerVars
<1>8. CASE UNCHANGED vars
  BY <1>8 DEF vars, clientVars, workerVars
<1> QED
  BY <1>1, <1>2, <1>3, <1>4, <1>5, <1>6, <1>7, <1>8 DEF Next, LifecycleStep

(* The lifecycle thread leaves calls and workers alone, but for Start.     *)
LEMMA LifecycleFrame ==
  ASSUME Stop \/ Terminate \/ LifecycleStep
  PROVE  UNCHANGED <<started, workerVars, callVars, watch, verdict, held>>
BY DEF LifecycleStep, Stop, Terminate, Record, StopReplied, ExitWait, Signal, TermWait, KillWait,
       Wait, Close, Forget, clientVars, readerVars

LEMMA ForgottenIsClosedStep ==
  ASSUME RecordInv, ForgottenIsClosed, [Next]_vars
  PROVE  ForgottenIsClosed'
<1> USE DEF ForgottenIsClosed
<1>1. CASE \E n \in Workers : WorkerStep(n)
  BY <1>1, WorkerFrame DEF clientVars, lifeVars
<1>2. CASE \E n \in Workers : ReaderStep(n)
  BY <1>2, ReaderFrame DEF clientVars, lifeVars
<1>3. CASE \E c \in Calls : Poll(c) \/ CallStep(c) \/ Timeout(c)
  BY <1>3, CallFrame DEF lifeVars
<1>4. CASE Start
  BY <1>4 DEF Start
<1>5. CASE Close
  BY <1>5 DEF Close
<1>6. CASE Stop \/ Terminate \/ Record \/ StopReplied \/ ExitWait \/ Signal \/ TermWait \/ KillWait
  BY <1>6 DEF Stop, Terminate, Record, StopReplied, ExitWait, Signal, TermWait, KillWait, Wait,
              clientVars
<1>7. CASE Forget
  BY <1>7 DEF Forget, RecordInv, ProcessIsLast, LifecycleHasProcess, Idle
<1>8. CASE UNCHANGED vars
  BY <1>8 DEF vars, clientVars, lifeVars
<1> QED
  BY <1>1, <1>2, <1>3, <1>4, <1>5, <1>6, <1>7, <1>8 DEF Next, LifecycleStep

(* Where a reader is after one step of one reader. *)
LEMMA ReaderMoves ==
  ASSUME TypeOK, NEW n \in Workers, ReaderStep(n)
  PROVE  /\ reader[n] \notin {"none", "done"}
         /\ \A m \in Workers : m # n =>
              /\ reader'[m] = reader[m] /\ watch'[m] = watch[m] /\ verdict'[m] = verdict[m]
              /\ held'[m] = held[m] /\ stdout'[m] = stdout[m]
<1> USE DEF TypeOK, workerVars
<1>1. CASE \E line \in stdout[n] : ReadLine(n, line)
  BY <1>1 DEF ReadLine
<1>2. CASE Put(n) \/ EndOfOutput(n)
  BY <1>2 DEF Put, EndOfOutput
<1>3. CASE CheckProcess(n) \/ EnterWait(n)
  BY <1>3 DEF CheckProcess, EnterWait
<1>4. CASE WaitProcess(n)
  BY <1>4 DEF WaitProcess
<1>5. CASE FailPending(n)
  BY <1>5 DEF FailPending
<1> QED
  BY <1>1, <1>2, <1>3, <1>4, <1>5 DEF ReaderStep

LEMMA ReaderIsLastStep ==
  ASSUME RecordInv, ReaderIsLast, "late_reader" \notin Faults, [Next]_vars
  PROVE  ReaderIsLast'
<1> USE DEF ReaderIsLast
<1>1. CASE \E n \in Workers : WorkerStep(n)
  BY <1>1, WorkerFrame DEF clientVars, readerVars, lifeVars
<1>2. CASE \E n \in Workers : ReaderStep(n)
  BY <1>2, ReaderFrame, ReaderMoves DEF clientVars, lifeVars, RecordInv
<1>3. CASE \E c \in Calls : Poll(c) \/ CallStep(c) \/ Timeout(c)
  BY <1>3, CallFrame DEF readerVars, lifeVars
<1>4. CASE Start
  BY <1>4 DEF Start, Quiet, readerVars
<1>5. CASE Record
  BY <1>5 DEF Record, RecordInv, TypeOK, ProcessIsLast, LifecycleHasProcess, Idle
<1>6. CASE Stop \/ Terminate \/ StopReplied \/ ExitWait \/ Signal \/ TermWait \/ KillWait
  BY <1>6 DEF Stop, Terminate, StopReplied, ExitWait, Signal, TermWait, KillWait, Wait,
              clientVars, readerVars
<1>7. CASE Close \/ Forget
  BY <1>7 DEF Close, Forget, readerVars
<1>8. CASE UNCHANGED vars
  BY <1>8 DEF vars, clientVars, readerVars, lifeVars
<1> QED
  BY <1>1, <1>2, <1>3, <1>4, <1>5, <1>6, <1>7, <1>8 DEF Next, LifecycleStep
(* One step of the reader of n, with what it found out so far. *)
LEMMA ReaderLearns ==
  ASSUME RecordInv, ForgottenIsClosed, ReaderIsLast, ReaderKnows, NEW n \in Workers, ReaderStep(n)
  PROVE  /\ reader'[n] \in {"check", "enter", "wait", "fail"} => ~Live(n) /\ stdout'[n] = {}
         /\ reader'[n] = "wait" => watch'[n] = n
         /\ reader'[n] = "fail" => Truth(n, verdict'[n])
<1> USE DEF RecordInv, TypeOK, ReaderIsLast, ReaderKnows, workerVars
<1>0. n = started /\ process \in {0, n}
  BY ReaderMoves DEF ProcessIsLast
<1>1. CASE \E line \in stdout[n] : ReadLine(n, line)
  BY <1>1 DEF ReadLine
<1>2. CASE Put(n)
  BY <1>2 DEF Put
<1>3. CASE EndOfOutput(n)
  BY <1>3 DEF EndOfOutput
<1>4. CASE CheckProcess(n)
  <2>1. CASE process = 0
    <3>1. n \in closed
      BY <1>0, <2>1 DEF ForgottenIsClosed, Workers
    <3>2. reader'[n] = "fail" /\ verdict'[n] = "worker_crash" /\ ~Live(n) /\ stdout' = stdout
      BY <1>4, <2>1 DEF CheckProcess
    <3> QED
      BY <1>4, <3>1, <3>2 DEF Truth, CheckProcess
  <2>2. CASE process # 0
    BY <1>4, <2>2 DEF CheckProcess
  <2> QED
    BY <2>1, <2>2
<1>5. CASE EnterWait(n)
  BY <1>0, <1>5 DEF EnterWait
<1>6. CASE WaitProcess(n)
  <2>1. watch[n] = n /\ ~Live(n) /\ stdout'[n] = {}
    BY <1>6 DEF WaitProcess
  <2>6. reader'[n] \notin {"wait"}
    BY <1>6 DEF WaitProcess
  <2>2. CASE Waitable(n) /\ verdict'[n] = Category(n) /\ reader'[n] = "fail"
    BY <2>1, <2>2 DEF Truth, Category
  <2>3. CASE reader'[n] = "done"
    BY <2>3
  <2>4. CASE ~Waitable(n) /\ "slow_exit" \in Faults /\ verdict'[n] = Category(n)
    BY <2>1, <2>4, <2>6 DEF Truth, Category
  <2>5. \/ Waitable(n) /\ verdict'[n] = Category(n) /\ reader'[n] = "fail"
        \/ reader'[n] = "done"
        \/ ~Waitable(n) /\ "slow_exit" \in Faults /\ verdict'[n] = Category(n)
    BY <1>0, <1>6, <2>1 DEF WaitProcess
  <2> QED
    BY <2>1, <2>2, <2>3, <2>4, <2>5, <2>6
<1>7. CASE FailPending(n)
  BY <1>7 DEF FailPending
<1> QED
  BY <1>1, <1>2, <1>3, <1>4, <1>5, <1>6, <1>7 DEF ReaderStep

LEMMA ReaderKnowsStep ==
  ASSUME RecordInv, ForgottenIsClosed, ReaderIsLast, ReaderKnows, "late_reader" \notin Faults,
         [Next]_vars
  PROVE  ReaderKnows'
<1> SUFFICES ASSUME NEW n \in Workers
             PROVE  /\ reader'[n] \in {"check", "enter", "wait", "fail"} => ~Live(n)' /\ stdout'[n] = {}
                    /\ reader'[n] = "wait" => watch'[n] = n
                    /\ reader'[n] = "fail" => Truth(n, verdict[n])'
  BY DEF ReaderKnows
<1>1. ASSUME reader'[n] = reader[n], watch'[n] = watch[n], verdict'[n] = verdict[n],
             stdout'[n] = {} \/ stdout'[n] = stdout[n] \/ Live(n), Live(n)' => Live(n)
      PROVE  /\ reader'[n] \in {"check", "enter", "wait", "fail"} => ~Live(n)' /\ stdout'[n] = {}
             /\ reader'[n] = "wait" => watch'[n] = n
             /\ reader'[n] = "fail" => Truth(n, verdict[n])'
  <2>1. reader[n] = "fail" => n <= started
    BY DEF ReaderIsLast, Workers
  <2>2. \A v : reader[n] = "fail" /\ Truth(n, v) => Truth(n, v)'
    BY <2>1, TruthStays
  <2>3. reader[n] = "fail" => Truth(n, verdict[n])
    BY DEF ReaderKnows
  <2>4. reader'[n] = "fail" => Truth(n, verdict[n])'
    BY <1>1, <2>2, <2>3 DEF Truth
  <2> QED
    BY <1>1, <2>4 DEF ReaderKnows
<1>2. CASE \E m \in Workers : WorkerStep(m)
  <2>1. PICK m \in Workers : WorkerStep(m)
    BY <1>2
  <2>2. UNCHANGED readerVars /\ (stdout'[n] = stdout[n] \/ Live(n)) /\ (Live(n)' => Live(n))
    BY <2>1, WorkerFrame, AnswerFacts, WorkerLife DEF RecordInv
  <2> QED
    BY <1>1, <2>2 DEF readerVars
<1>3. CASE \E m \in Workers : ReaderStep(m)
  <2>1. PICK m \in Workers : ReaderStep(m)
    BY <1>3
  <2>2. UNCHANGED <<clientVars, life, code>>
    BY <2>1, ReaderFrame
  <2>3. CASE m = n
    <3>1. Live(n)' = Live(n)
      BY <2>2 DEF Live
    <3>2. Truth(n, verdict'[n]) => Truth(n, verdict[n])'
      BY <2>2 DEF Truth, Live, clientVars
    <3> QED
      BY <2>1, <2>3, <3>1, <3>2, ReaderLearns
  <2>4. CASE m # n
    <3>1. /\ reader'[n] = reader[n] /\ watch'[n] = watch[n] /\ verdict'[n] = verdict[n]
          /\ stdout'[n] = stdout[n]
      BY <2>1, <2>4, ReaderMoves DEF RecordInv
    <3> QED
      BY <1>1, <2>2, <3>1 DEF Live
  <2> QED
    BY <2>3, <2>4
<1>4. CASE \E c \in Calls : Poll(c) \/ CallStep(c) \/ Timeout(c)
  BY <1>1, <1>4, CallFrame DEF readerVars, Live
<1>5. CASE Start
  BY <1>5 DEF Start, Quiet, readerVars
<1>6. CASE Record
  <2>1. UNCHANGED <<stdout, life, watch, verdict>>
    BY <1>6 DEF Record, workerVars
  <2>2. reader'[n] = "reading" \/ reader'[n] = reader[n]
    BY <1>6 DEF Record, RecordInv, TypeOK
  <2> QED
    BY <1>1, <2>1, <2>2 DEF Live
<1>7. CASE Stop \/ Terminate \/ StopReplied \/ ExitWait \/ Signal \/ TermWait \/ KillWait \/ Close \/ Forget
  <2>1. UNCHANGED <<workerVars, readerVars>>
    BY <1>7 DEF Stop, Terminate, StopReplied, ExitWait, Signal, TermWait, KillWait, Wait, Close, Forget
  <2> QED
    BY <1>1, <2>1 DEF workerVars, readerVars, Live
<1>8. CASE UNCHANGED vars
  BY <1>1, <1>8 DEF vars, workerVars, readerVars, Live
<1> QED
  BY <1>2, <1>3, <1>4, <1>5, <1>6, <1>7, <1>8 DEF Next, LifecycleStep

-----------------------------------------------------------------------------
(* One step of one call. *)
LEMMA CallsInOrderCall ==
  ASSUME RecordInv, CallsInOrder, NEW c \in Calls, Poll(c) \/ CallStep(c) \/ Timeout(c)
  PROVE  CallsInOrder'
<1> USE DEF RecordInv, TypeOK, CallsInOrder, clientVars, workerVars, readerVars, lifeVars
<1>1. CASE Poll(c)
  BY <1>1 DEF Poll, Return, Crashes
<1>2. CASE Register(c)
  BY <1>2 DEF Register
<1>3. CASE Write(c) /\ CanWrite
  <2>1. process \in Workers /\ process = started /\ started # 0
    BY <1>3, MaxStartsAssumption DEF CanWrite, Workers, ProcessIsLast
  <2>2. /\ inbox' = [inbox EXCEPT ![process] = @ \cup {c}] /\ gen' = [gen EXCEPT ![c] = process]
        /\ rpc' = [rpc EXCEPT ![c] = "waiting"] /\ rpc[c] = "write"
        /\ UNCHANGED <<pending, result, started, replied>>
    BY <1>3 DEF Write
  <2>3. /\ \A n \in Workers : c \in inbox'[n] => n = process
        /\ \A d \in Calls, n \in Workers : d # c /\ d \in inbox'[n] => d \in inbox[n]
    BY <2>1, <2>2
  <2>4. /\ gen'[c] = started /\ rpc'[c] = "waiting"
        /\ \A d \in Calls : d # c => gen'[d] = gen[d] /\ rpc'[d] = rpc[d]
    BY <2>1, <2>2
  <2>5. c \in pending'
    BY <2>2
  <2> QED
    BY <2>1, <2>2, <2>3, <2>4, <2>5
<1>4. CASE Write(c) /\ ~CanWrite
  BY <1>4 DEF Write, Return, Crashes
<1>5. CASE Receive(c)
  BY <1>5 DEF Receive
<1>6. CASE Timeout(c)
  BY <1>6 DEF Timeout, Crashes
<1>7. CASE Pop(c)
  BY <1>7 DEF Pop
<1>8. CASE TooLong(c)
  BY <1>8 DEF TooLong, Return, Crashes
<1> QED
  BY <1>1, <1>2, <1>3, <1>4, <1>5, <1>6, <1>7, <1>8 DEF CallStep

LEMMA CallsInOrderStep ==
  ASSUME RecordInv, CallsInOrder, [Next]_vars
  PROVE  CallsInOrder'
<1>1. CASE \E n \in Workers : WorkerStep(n)
  <2>1. PICK n \in Workers : WorkerStep(n)
    BY <1>1
  <2>2. UNCHANGED <<started, gen, rpc, pending, result>>
    BY <2>1, WorkerFrame DEF clientVars, callVars
  <2>3. /\ \A m \in Workers : inbox'[m] \subseteq inbox[m]
        /\ \A c \in replied' : c \in replied \/ c \in inbox[n]
    BY <2>1, AnswerFacts DEF RecordInv
  <2> QED
    BY <2>2, <2>3 DEF CallsInOrder
<1>2. CASE \E n \in Workers : ReaderStep(n)
  BY <1>2, ReaderFrame DEF CallsInOrder, clientVars
<1>3. CASE \E c \in Calls : Poll(c) \/ CallStep(c) \/ Timeout(c)
  BY <1>3, CallsInOrderCall
<1>4. CASE Start
  <2>1. /\ started' = started + 1 /\ UNCHANGED <<gen, rpc, pending, result, replied, inbox>>
        /\ \A c \in Calls : rpc[c] \in {"new", "returned"}
    BY <1>4 DEF Start, Quiet, callVars
  <2> QED
    BY <2>1 DEF CallsInOrder, RecordInv, TypeOK
<1>5. CASE Stop \/ Terminate \/ LifecycleStep
  BY <1>5, LifecycleFrame DEF CallsInOrder, callVars, workerVars
<1>6. CASE UNCHANGED vars
  BY <1>6 DEF CallsInOrder, vars, clientVars, callVars, workerVars
<1> QED
  BY <1>1, <1>2, <1>3, <1>4, <1>5, <1>6 DEF Next

(* The queues after a step of a reader: only FailPending offers an error,  *)
(* and Put gives a call the reply that was read for it.                    *)
LEMMA ReaderFillsBox ==
  ASSUME RecordInv, NEW n \in Workers, ReaderStep(n), NEW c \in Calls
  PROVE  \/ box'[c] = box[c]
         \/ box'[c] \in Replies /\ reader[n] = "put" /\ held[n][1] = c
         \/ /\ reader[n] = "fail" /\ c \in pending /\ box[c] = "empty" /\ box'[c] = verdict[n]
<1> USE DEF RecordInv, TypeOK, callVars
<1>1. CASE \E line \in stdout[n] : ReadLine(n, line)
  BY <1>1 DEF ReadLine
<1>2. CASE Put(n)
  <2>1. held[n] \in Calls \X Replies
    BY <1>2 DEF Put, ReaderCarries
  <2> QED
    BY <1>2, <2>1 DEF Put
<1>3. CASE EndOfOutput(n) \/ CheckProcess(n) \/ EnterWait(n) \/ WaitProcess(n)
  BY <1>3 DEF EndOfOutput, CheckProcess, EnterWait, WaitProcess
<1>4. CASE FailPending(n)
  BY <1>4 DEF FailPending
<1> QED
  BY <1>1, <1>2, <1>3, <1>4 DEF ReaderStep

LEMMA BoxIsTrueCall ==
  ASSUME RecordInv, CallsInOrder, BoxIsTrue, NEW c \in Calls, Poll(c) \/ CallStep(c) \/ Timeout(c)
  PROVE  \A d \in Calls : box'[d] \in Crashes =>
            /\ started # 0 /\ rpc'[d] \notin {"new", "register"} /\ box'[d] = box[d]
            /\ rpc'[d] \in {"write", "waiting"} => Truth(started, box[d])
<1> USE DEF RecordInv, TypeOK, BoxIsTrue
<1>1. CASE Poll(c)
  BY <1>1 DEF Poll, Return
<1>2. CASE Register(c)
  BY <1>2 DEF Register
<1>3. CASE Write(c)
  BY <1>3 DEF Write, Return
<1>4. CASE Receive(c)
  BY <1>4 DEF Receive, Crashes
<1>5. CASE Timeout(c) \/ Pop(c)
  BY <1>5 DEF Timeout, Pop
<1>6. CASE TooLong(c)
  BY <1>6 DEF TooLong, Return
<1> QED
  BY <1>1, <1>2, <1>3, <1>4, <1>5, <1>6 DEF CallStep

LEMMA BoxIsTrueStep ==
  ASSUME RecordInv, ReaderIsLast, ReaderKnows, CallsInOrder, BoxIsTrue, [Next]_vars
  PROVE  BoxIsTrue'
<1> SUFFICES ASSUME NEW c \in Calls, box'[c] \in Crashes
             PROVE  /\ started' # 0 /\ rpc'[c] \notin {"new", "register"}
                    /\ rpc'[c] \in {"write", "waiting"} => Truth(started, box[c])'
  BY DEF BoxIsTrue
<1>1. ASSUME box'[c] = box[c], started' = started, rpc'[c] = rpc[c]
      PROVE  /\ started' # 0 /\ rpc'[c] \notin {"new", "register"}
             /\ rpc'[c] \in {"write", "waiting"} => Truth(started, box[c])'
  <2>1. started # 0 /\ rpc[c] \notin {"new", "register"}
    BY <1>1 DEF BoxIsTrue
  <2>2. started \in Workers /\ started <= started
    BY <2>1 DEF RecordInv, TypeOK, Workers
  <2>3. \A n \in Workers : \A v : n <= started /\ Truth(n, v) => Truth(n, v)'
    BY TruthStays
  <2>4. rpc[c] \in {"write", "waiting"} => Truth(started, box[c])
    BY <1>1 DEF BoxIsTrue
  <2>5. rpc[c] \in {"write", "waiting"} => Truth(started, box[c])'
    BY <1>1, <2>2, <2>3, <2>4 DEF Truth, Live
  <2> QED
    BY <1>1, <2>1, <2>5
<1>2. CASE \E n \in Workers : WorkerStep(n)
  BY <1>1, <1>2, WorkerFrame DEF clientVars, callVars
<1>3. CASE \E n \in Workers : ReaderStep(n)
  <2>1. PICK n \in Workers : ReaderStep(n)
    BY <1>3
  <2>2. UNCHANGED <<clientVars, life, code, rpc>>
    BY <2>1, ReaderFrame
  <2>3. CASE box'[c] = box[c]
    BY <1>1, <2>2, <2>3 DEF clientVars
  <2>4. CASE box'[c] \in Replies
    BY <2>4 DEF Replies, Crashes
  <2>5. CASE reader[n] = "fail" /\ c \in pending /\ box'[c] = verdict[n]
    <3>1. n = started /\ n # 0 /\ Truth(n, verdict[n])
      BY <2>5 DEF ReaderIsLast, ReaderKnows, Workers
    <3>2. rpc[c] \in {"write", "waiting", "pop"}
      BY <2>5 DEF CallsInOrder
    <3>3. Truth(started, box[c])'
      BY <2>2, <2>5, <3>1 DEF Truth, Live, clientVars
    <3> QED
      BY <2>2, <3>1, <3>2, <3>3 DEF clientVars
  <2> QED
    BY <2>1, <2>3, <2>4, <2>5, ReaderFillsBox
<1>4. CASE \E d \in Calls : Poll(d) \/ CallStep(d) \/ Timeout(d)
  <2>1. PICK d \in Calls : Poll(d) \/ CallStep(d) \/ Timeout(d)
    BY <1>4
  <2>2. UNCHANGED <<started, closed, life, code>>
    BY <2>1, CallFrame
  <2>3. /\ started # 0 /\ rpc'[c] \notin {"new", "register"} /\ box'[c] = box[c]
        /\ rpc'[c] \in {"write", "waiting"} => Truth(started, box[c])
    BY <2>1, BoxIsTrueCall
  <2> QED
    BY <2>2, <2>3 DEF Truth, Live
<1>5. CASE Start
  <2>1. started' = started + 1 /\ UNCHANGED <<rpc, box>> /\ rpc[c] \in {"new", "returned"}
    BY <1>5 DEF Start, Quiet, callVars
  <2> QED
    BY <2>1 DEF BoxIsTrue, RecordInv, TypeOK
<1>6. CASE Stop \/ Terminate \/ LifecycleStep
  BY <1>1, <1>6, LifecycleFrame DEF callVars
<1>7. CASE UNCHANGED vars
  BY <1>1, <1>7 DEF vars, clientVars, callVars
<1> QED
  BY <1>2, <1>3, <1>4, <1>5, <1>6, <1>7 DEF Next

(* A call that fails with an error of the worker took it from its queue. *)
LEMMA CrashFromBox ==
  ASSUME RecordInv, CallsInOrder, NEW c \in Calls, NEW d \in Calls, result'[c] \in Crashes,
         Poll(d) \/ CallStep(d) \/ Timeout(d)
  PROVE  /\ gen'[c] = gen[c]
         /\ \/ result'[c] = result[c]
            \/ rpc[c] = "waiting" /\ result'[c] = box[c]
<1> USE DEF RecordInv, TypeOK, CallsInOrder, Crashes
<1>1. CASE Poll(d)
  BY <1>1 DEF Poll, Return
<1>2. CASE Register(d)
  BY <1>2 DEF Register
<1>3. CASE Write(d) /\ CanWrite
  <2>1. rpc[d] = "write" /\ gen' = [gen EXCEPT ![d] = process] /\ result' = result
    BY <1>3 DEF Write
  <2>2. c # d
    BY <2>1
  <2> QED
    BY <2>1, <2>2
<1>6. CASE Write(d) /\ ~CanWrite
  <2>1. gen' = gen /\ result' = [result EXCEPT ![d] = "os_error"]
    BY <1>6 DEF Write, Return
  <2> QED
    BY <2>1
<1>4. CASE Receive(d)
  BY <1>4 DEF Receive
<1>5. CASE Timeout(d) \/ Pop(d)
  BY <1>5 DEF Timeout, Pop
<1>7. CASE TooLong(d)
  BY <1>7 DEF TooLong, Return
<1> QED
  BY <1>1, <1>2, <1>3, <1>4, <1>5, <1>6, <1>7 DEF CallStep

LEMMA ResultIsTrueStep ==
  ASSUME RecordInv, CallsInOrder, BoxIsTrue, ResultIsTrue, [Next]_vars
  PROVE  ResultIsTrue'
<1> SUFFICES ASSUME NEW c \in Calls, result'[c] \in Crashes
             PROVE  gen'[c] # 0 /\ Truth(gen[c], result[c])'
  BY DEF ResultIsTrue
<1>1. ASSUME NEW n \in Workers, NEW v, n <= started, Truth(n, v), gen'[c] = n, result'[c] = v
      PROVE  gen'[c] # 0 /\ Truth(gen[c], result[c])'
  <2>1. Truth(n, v)'
    BY <1>1, TruthStays
  <2> QED
    BY <1>1, <2>1 DEF Truth, Live, Workers
<1>2. ASSUME result'[c] = result[c], gen'[c] = gen[c]
      PROVE  gen'[c] # 0 /\ Truth(gen[c], result[c])'
  <2>1. gen[c] # 0 /\ Truth(gen[c], result[c])
    BY <1>2 DEF ResultIsTrue
  <2>2. gen[c] \in Workers /\ gen[c] <= started
    BY <2>1 DEF RecordInv, TypeOK, Workers, CallsInOrder
  <2> QED
    BY <1>1, <1>2, <2>1, <2>2
<1>3. CASE \E n \in Workers : WorkerStep(n)
  BY <1>2, <1>3, WorkerFrame DEF callVars
<1>4. CASE \E n \in Workers : ReaderStep(n)
  BY <1>2, <1>4, ReaderFrame
<1>5. CASE \E d \in Calls : Poll(d) \/ CallStep(d) \/ Timeout(d)
  <2>1. PICK d \in Calls : Poll(d) \/ CallStep(d) \/ Timeout(d)
    BY <1>5
  <2>2. /\ gen'[c] = gen[c]
        /\ \/ result'[c] = result[c]
           \/ rpc[c] = "waiting" /\ result'[c] = box[c]
    BY <2>1, CrashFromBox
  <2>3. CASE rpc[c] = "waiting" /\ result'[c] = box[c]
    <3>1. gen[c] = started /\ started # 0 /\ Truth(started, box[c])
      BY <2>3 DEF CallsInOrder, BoxIsTrue
    <3>2. started \in Workers /\ started <= started
      BY <3>1 DEF RecordInv, TypeOK, Workers
    <3> QED
      BY <1>1, <2>2, <2>3, <3>1, <3>2
  <2> QED
    BY <1>2, <2>2, <2>3
<1>6. CASE Start
  BY <1>2, <1>6 DEF Start, callVars
<1>7. CASE Stop \/ Terminate \/ LifecycleStep
  BY <1>2, <1>7, LifecycleFrame DEF callVars
<1>8. CASE UNCHANGED vars
  BY <1>2, <1>8 DEF vars, callVars
<1> QED
  BY <1>3, <1>4, <1>5, <1>6, <1>7, <1>8 DEF Next
-----------------------------------------------------------------------------
(* A reply is not overtaken.                                               *)

(* Where a call and its queue can be after a step of some call, when the   *)
(* call has been answered and waits still, or was not answered before.     *)
LEMMA StillWaiting ==
  ASSUME RecordInv, CallsInOrder, NEW c \in replied, NEW d \in Calls, rpc'[c] = "waiting",
         Poll(d) \/ CallStep(d) \/ Timeout(d)
  PROVE  rpc[c] = "waiting" /\ box'[c] = box[c]
<1> USE DEF RecordInv, TypeOK, CallsInOrder
<1>1. CASE Poll(d)
  BY <1>1 DEF Poll, Return
<1>2. CASE Register(d)
  BY <1>2 DEF Register
<1>3. CASE Write(d)
  <2>1. rpc[d] = "write" /\ box' = box
    BY <1>3 DEF Write
  <2>2. c # d
    BY <2>1
  <2>3. rpc'[c] = rpc[c]
    BY <1>3, <2>2 DEF Write, Return
  <2> QED
    BY <2>1, <2>3
<1>4. CASE Receive(d)
  BY <1>4 DEF Receive
<1>5. CASE Timeout(d) \/ Pop(d)
  BY <1>5 DEF Timeout, Pop
<1>6. CASE TooLong(d)
  BY <1>6 DEF TooLong, Return
<1> QED
  BY <1>1, <1>2, <1>3, <1>4, <1>5, <1>6 DEF CallStep

(* The way of a reply through a step of a reader. *)
LEMMA ReaderCarriesAnswer ==
  ASSUME RecordInv, ReaderIsLast, ReaderKnows, CallsInOrder, AnswerOnItsWay,
         NEW n \in Workers, ReaderStep(n), NEW c \in replied, rpc[c] = "waiting"
  PROVE  OnItsWay(c)'
<1> USE DEF RecordInv, TypeOK
<1>0. n = started /\ c \in Calls /\ c \in pending
  BY ReaderMoves DEF ReaderIsLast, CallsInOrder
<1>1. /\ box[c] \notin Crashes
      /\ \/ \E reply \in Replies : <<c, reply>> \in stdout[n]
         \/ reader[n] = "put" /\ held[n][1] = c
         \/ box[c] \in Replies
  BY <1>0 DEF AnswerOnItsWay, OnItsWay
<1>6. started' = started
  BY ReaderFrame DEF clientVars
<1> USE <1>6 DEF OnItsWay
<1>2. CASE \E line \in stdout[n] : ReadLine(n, line)
  <2>1. PICK line \in stdout[n] : ReadLine(n, line)
    BY <1>2
  <2>2. box' = box /\ reader[n] = "reading" /\ stdout'[n] = stdout[n] \ {line}
    BY <2>1 DEF ReadLine, callVars
  <2>3. CASE line[1] = c
    <3>1. reader'[n] = "put" /\ held'[n] = line
      BY <1>0, <2>1, <2>3 DEF ReadLine
    <3> QED
      BY <1>0, <1>1, <2>2, <2>3, <3>1
  <2>4. CASE line[1] # c
    <3>1. \A reply \in Replies : <<c, reply>> \in stdout[n] => <<c, reply>> \in stdout'[n]
      BY <2>2, <2>4
    <3> QED
      BY <1>0, <1>1, <2>2, <3>1
  <2> QED
    BY <2>3, <2>4
<1>3. CASE Put(n)
  <2>1. held[n] \in Calls \X Replies /\ reader[n] = "put" /\ stdout' = stdout
    BY <1>3 DEF Put, ReaderCarries, workerVars
  <2>2. box' = [box EXCEPT ![held[n][1]] = held[n][2]]
    BY <1>3 DEF Put
  <2>3. CASE held[n][1] = c
    <3>1. box'[c] \in Replies
      BY <2>1, <2>2, <2>3
    <3> QED
      BY <3>1 DEF Replies, Crashes
  <2>4. CASE held[n][1] # c
    BY <1>0, <1>1, <2>1, <2>2, <2>4
  <2> QED
    BY <2>3, <2>4
<1>4. CASE EndOfOutput(n) \/ CheckProcess(n) \/ EnterWait(n) \/ WaitProcess(n)
  <2>1. /\ reader[n] \in {"reading", "check", "enter", "wait"}
        /\ UNCHANGED <<box, stdout>>
    BY <1>4 DEF EndOfOutput, CheckProcess, EnterWait, WaitProcess, callVars, workerVars
  <2> QED
    BY <1>0, <1>1, <2>1
<1>5. CASE FailPending(n)
  <2>1. reader[n] = "fail" /\ stdout[n] = {} /\ UNCHANGED stdout
    BY <1>5 DEF FailPending, ReaderKnows, workerVars
  <2>2. box[c] \in Replies
    BY <1>1, <2>1
  <2>3. box'[c] = box[c]
    BY <1>0, <1>5, <2>2 DEF FailPending, Replies
  <2> QED
    BY <1>1, <2>2, <2>3
<1> QED
  BY <1>2, <1>3, <1>4, <1>5 DEF ReaderStep

LEMMA AnswerOnItsWayStep ==
  ASSUME RecordInv, ReaderIsLast, ReaderKnows, CallsInOrder, BoxIsTrue, AnswerOnItsWay, [Next]_vars
  PROVE  AnswerOnItsWay'
<1> SUFFICES ASSUME NEW c \in Calls, c \in replied', rpc'[c] = "waiting"
             PROVE  OnItsWay(c)'
  BY DEF AnswerOnItsWay
<1>1. ASSUME c \in replied, rpc[c] = "waiting", started' = started, box'[c] = box[c],
             stdout[started] \subseteq stdout'[started], held' = held,
             reader'[started] = reader[started] \/ reader[started] # "put"
      PROVE  OnItsWay(c)'
  BY <1>1 DEF AnswerOnItsWay, OnItsWay
<1>2. CASE \E n \in Workers : WorkerStep(n)
  <2>1. PICK n \in Workers : WorkerStep(n)
    BY <1>2
  <2>2. /\ UNCHANGED <<started, box, rpc, reader, held>>
    BY <2>1, WorkerFrame DEF clientVars, readerVars, callVars
  <2>3. CASE c \in replied
    <3>1. started \in Workers
      BY <2>2, MaxStartsAssumption DEF CallsInOrder, RecordInv, TypeOK, Workers
    <3>2. stdout[started] \subseteq stdout'[started]
      BY <2>1, <3>1, AnswerFacts DEF RecordInv
    <3> QED
      BY <1>1, <2>2, <2>3, <3>2
  <2>4. CASE c \notin replied
    <3>1. Live(n) /\ \E reply \in Replies : <<c, reply>> \in stdout'[n]
      BY <2>1, <2>4, AnswerFacts DEF RecordInv
    <3>2. n = started
      BY <3>1, LiveIsLast
    <3>3. box[c] \notin Crashes
      BY <2>2, <3>1, <3>2 DEF BoxIsTrue, Truth
    <3> QED
      BY <2>2, <3>1, <3>2, <3>3 DEF OnItsWay
  <2> QED
    BY <2>3, <2>4
<1>3. CASE \E n \in Workers : ReaderStep(n)
  <2>1. PICK n \in Workers : ReaderStep(n)
    BY <1>3
  <2>2. UNCHANGED <<started, rpc, replied>>
    BY <2>1, ReaderFrame DEF clientVars
  <2> QED
    BY <2>1, <2>2, ReaderCarriesAnswer DEF OnItsWay
<1>4. CASE \E d \in Calls : Poll(d) \/ CallStep(d) \/ Timeout(d)
  <2>1. PICK d \in Calls : Poll(d) \/ CallStep(d) \/ Timeout(d)
    BY <1>4
  <2>2. UNCHANGED <<started, stdout, answers, reader, held>>
    BY <2>1, CallFrame DEF readerVars
  <2>3. rpc[c] = "waiting" /\ box'[c] = box[c]
    BY <2>1, <2>2, StillWaiting
  <2> QED
    BY <1>1, <2>2, <2>3
<1>5. CASE Start
  BY <1>5 DEF Start, Quiet, callVars
<1>6. CASE Stop \/ Terminate \/ LifecycleStep
  <2>1. UNCHANGED <<started, workerVars, callVars, held>>
    BY <1>6, LifecycleFrame
  <2>2. reader'[started] = reader[started] \/ reader[started] # "put"
    <3>1. CASE Record
      BY <3>1 DEF Record, RecordInv, TypeOK, Workers, ReaderIsLast, ProcessIsLast, LifecycleHasProcess, Idle
    <3>2. CASE UNCHANGED reader
      BY <3>2
    <3>3. Record \/ UNCHANGED reader
      BY <1>6 DEF LifecycleStep, Stop, Terminate, StopReplied, ExitWait, Signal, TermWait,
                  KillWait, Wait, Close, Forget, readerVars
    <3> QED
      BY <3>1, <3>2, <3>3
  <2> QED
    BY <1>1, <2>1, <2>2 DEF workerVars, callVars
<1>7. CASE UNCHANGED vars
  BY <1>1, <1>7 DEF vars, clientVars, workerVars, readerVars, callVars
<1> QED
  BY <1>2, <1>3, <1>4, <1>5, <1>6, <1>7 DEF Next
LEMMA AnsweredNotBlamedStep ==
  ASSUME RecordInv, CallsInOrder, ResultIsTrue, AnswerOnItsWay, AnsweredNotBlamed, [Next]_vars
  PROVE  AnsweredNotBlamed'
<1> SUFFICES ASSUME NEW c \in replied', result'[c] \in Crashes
             PROVE  FALSE
  BY DEF AnsweredNotBlamed
<1>1. ASSUME c \in replied, result'[c] = result[c]
      PROVE  FALSE
  BY <1>1 DEF AnsweredNotBlamed
<1>2. CASE \E n \in Workers : WorkerStep(n)
  <2>1. PICK n \in Workers : WorkerStep(n)
    BY <1>2
  <2>2. result' = result
    BY <2>1, WorkerFrame DEF callVars
  <2>3. c \in inbox[n] /\ Live(n)
    BY <1>1, <2>1, <2>2, AnswerFacts DEF RecordInv
  <2>4. c \in Calls
    BY <2>3 DEF RecordInv, TypeOK
  <2>5. gen[c] = n
    BY <2>3, <2>4 DEF CallsInOrder
  <2> QED
    BY <2>2, <2>3, <2>4, <2>5 DEF ResultIsTrue, Truth
<1>3. CASE \E n \in Workers : ReaderStep(n)
  BY <1>1, <1>3, ReaderFrame
<1>4. CASE \E d \in Calls : Poll(d) \/ CallStep(d) \/ Timeout(d)
  <2>1. PICK d \in Calls : Poll(d) \/ CallStep(d) \/ Timeout(d)
    BY <1>4
  <2>2. c \in replied /\ c \in Calls
    BY <2>1, CallFrame DEF RecordInv, TypeOK
  <2>3. rpc[c] = "waiting" /\ result'[c] = box[c]
    BY <1>1, <2>1, <2>2, CrashFromBox
  <2> QED
    BY <2>2, <2>3 DEF AnswerOnItsWay, OnItsWay
<1>5. CASE Start
  BY <1>1, <1>5 DEF Start, callVars
<1>6. CASE Stop \/ Terminate \/ LifecycleStep
  BY <1>1, <1>6, LifecycleFrame DEF callVars, workerVars
<1>7. CASE UNCHANGED vars
  BY <1>1, <1>7 DEF vars, callVars, workerVars
<1> QED
  BY <1>2, <1>3, <1>4, <1>5, <1>6, <1>7 DEF Next

-----------------------------------------------------------------------------
LEMMA BlameInit == ASSUME Init PROVE BlameInv
BY DEF Init, BlameInv, ForgottenIsClosed, ReaderIsLast, ReaderKnows, CallsInOrder, BoxIsTrue,
       ResultIsTrue, AnswerOnItsWay, AnsweredNotBlamed, Crashes, Workers, replied

(* The reader, the queues and the calls agree on which worker went down    *)
(* and how, when start() waits for the former reader thread.               *)
THEOREM BlameHolds ==
  ASSUME "late_reader" \notin Faults
  PROVE  Spec => [](RecordInv /\ BlameInv)
<1>1. Init => RecordInv /\ BlameInv
  BY RecordInit, BlameInit
<1>2. RecordInv /\ BlameInv /\ [Next]_vars => RecordInv' /\ BlameInv'
  <2> SUFFICES ASSUME RecordInv, BlameInv, [Next]_vars
               PROVE  RecordInv' /\ BlameInv'
    OBVIOUS
  <2>1. RecordInv'
    BY RecordStep
  <2>2. /\ ForgottenIsClosed /\ ReaderIsLast /\ ReaderKnows /\ CallsInOrder /\ BoxIsTrue
        /\ ResultIsTrue /\ AnswerOnItsWay /\ AnsweredNotBlamed
    BY DEF BlameInv
  <2>3. ForgottenIsClosed' /\ ReaderIsLast' /\ ReaderKnows' /\ CallsInOrder'
    BY <2>2, ForgottenIsClosedStep, ReaderIsLastStep, ReaderKnowsStep, CallsInOrderStep
  <2>4. BoxIsTrue' /\ ResultIsTrue' /\ AnswerOnItsWay' /\ AnsweredNotBlamed'
    BY <2>2, BoxIsTrueStep, ResultIsTrueStep, AnswerOnItsWayStep, AnsweredNotBlamedStep
  <2> QED
    BY <2>1, <2>3, <2>4 DEF BlameInv
<1> QED
  BY <1>1, <1>2, PTL DEF Spec

(* A reply that was written before the worker went down is what the call   *)
(* returns: the final error of the reader never takes its place.           *)
THEOREM ReplyWins ==
  ASSUME "late_reader" \notin Faults
  PROVE  Spec => []AnsweredNotBlamed
<1>1. BlameInv => AnsweredNotBlamed
  BY DEF BlameInv
<1> QED
  BY <1>1, BlameHolds, PTL

(* A crash is blamed on the process the line was written to, and called a  *)
(* hard stop only when it was one.                                         *)
THEOREM BlameIsRight ==
  ASSUME "late_reader" \notin Faults
  PROVE  Spec => []CrashBlamesItsWorker
<1>1. BlameInv => CrashBlamesItsWorker
  BY DEF BlameInv, ResultIsTrue, Truth, CrashBlamesItsWorker
<1> QED
  BY <1>1, BlameHolds, PTL

(* A hard stop is called one, when the exit status is there in the time    *)
(* the reader allows it.                                                   *)
THEOREM HardStopNamed ==
  ASSUME "late_reader" \notin Faults, "slow_exit" \notin Faults
  PROVE  Spec => []HardStopIsNamed
<1>1. BlameInv => HardStopIsNamed
  BY DEF BlameInv, ResultIsTrue, Truth, HardStopIsNamed, Crashes
<1> QED
  BY <1>1, BlameHolds, PTL
=============================================================================
