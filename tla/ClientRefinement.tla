-------------------------- MODULE ClientRefinement --------------------------
(***************************************************************************)
(* Client implements RemoteCall, and is ready for every step of a          *)
(* WorkerProcess: for every set of calls and any number of starts.         *)
(***************************************************************************)
EXTENDS ClientProofs

USE RepliedStays, RepliedCalls

LEMMA Distinct ==
  /\ Replies = {"ok", "error"} /\ Crashes = {"worker_crash", "thermal_hard_stop"}
  /\ \A n : Waitable(n) => ~Live(n)
  BY DEF Replies, Crashes, Waitable, Live

(* What a step of call c does: it goes on, writes its line, gives up       *)
(* before it wrote one, gets its result, or leaves.                        *)
GoesOn(c) ==
  /\ \/ rpc[c] \in {"new", "register"} /\ rpc'[c] \in {"register", "write"}
     \/ rpc[c] = "pop" /\ rpc'[c] = "returned"
  /\ UNCHANGED <<inbox, gen, result, box>>

Writes(c) ==
  /\ rpc[c] = "write" /\ rpc'[c] = "waiting"
  /\ CanWrite
  /\ inbox' = [inbox EXCEPT ![process] = @ \cup {c}]
  /\ gen' = [gen EXCEPT ![c] = process]
  /\ UNCHANGED <<result, box>>

GivesUp(c) ==
  /\ rpc[c] \in {"new", "write"} /\ rpc'[c] = "returned"
  /\ \/ result' = [result EXCEPT ![c] = "not_running"] /\ (process = 0 \/ Waitable(process))
     \/ result' = [result EXCEPT ![c] = "os_error"] /\ ~CanWrite
     \/ result' = [result EXCEPT ![c] = "too_long"]
  /\ UNCHANGED <<inbox, gen, box>>

GetsResult(c) ==
  /\ rpc[c] = "waiting" /\ rpc'[c] = "pop"
  /\ result' = [result EXCEPT ![c] = IF box[c] = "empty" THEN "timeout" ELSE box[c]]
  /\ box' = [box EXCEPT ![c] = "empty"]
  /\ UNCHANGED <<inbox, gen>>

LEMMA CallMoves ==
  ASSUME TypeOK, NEW c \in Calls, Poll(c) \/ CallStep(c) \/ Timeout(c)
  PROVE  /\ \A d \in Calls : d # c => rpc'[d] = rpc[d]
         /\ \A n \in Workers : stdin'[n] = "closed" => stdin[n] = "closed"
         /\ GoesOn(c) \/ Writes(c) \/ GivesUp(c) \/ GetsResult(c)
<1> USE DEF TypeOK, clientVars, workerVars
<1>1. CASE Poll(c)
  <2>1. CASE process = 0 \/ Waitable(process)
    BY <1>1, <2>1 DEF Poll, Return, GivesUp
  <2>2. CASE ~(process = 0 \/ Waitable(process))
    BY <1>1, <2>2 DEF Poll, GoesOn
  <2> QED
    BY <2>1, <2>2
<1>2. CASE Register(c)
  BY <1>2 DEF Register, GoesOn
<1>3. CASE Write(c)
  <2>1. CASE CanWrite
    BY <1>3, <2>1 DEF Write, Writes
  <2>2. CASE ~CanWrite
    BY <1>3, <2>2 DEF Write, Return, GivesUp
  <2> QED
    BY <2>1, <2>2
<1>4. CASE TooLong(c)
  BY <1>4 DEF TooLong, Return, GivesUp
<1>5. CASE Receive(c)
  BY <1>5 DEF Receive, GetsResult
<1>6. CASE Timeout(c)
  <2>1. box' = [box EXCEPT ![c] = "empty"]
    BY <1>6 DEF Timeout
  <2> QED
    BY <1>6, <2>1 DEF Timeout, GetsResult
<1>7. CASE Pop(c)
  BY <1>7 DEF Pop, GoesOn
<1> QED
  BY <1>1, <1>2, <1>3, <1>4, <1>5, <1>6, <1>7 DEF CallStep

(* start() is the only step that raises `started'. *)
LEMMA StartFacts ==
  ASSUME RecordInv, Start
  PROVE  /\ started' = started + 1 /\ started' \in Workers
         /\ life' = [life EXCEPT ![started'] = "running"]
         /\ ~(started # 0 /\ Live(started))
         /\ UNCHANGED <<stdin, code, inbox, stdout, answers, readerVars, callVars, replied>>
<1>1. started' = started + 1 /\ started' \in Workers
  BY MaxStartsAssumption DEF Start, RecordInv, TypeOK, Workers
<1>2. ~(started # 0 /\ Live(started))
  <2>1. started # 0 => started \in Workers
    BY DEF RecordInv, TypeOK, Workers
  <2> QED
    BY <2>1, LiveIsLast DEF Start
<1>3. UNCHANGED <<stdin, code, inbox, stdout, answers, readerVars, callVars>>
  BY DEF Start
<1> QED
  BY <1>1, <1>2, <1>3, RepliedStays DEF Start

-----------------------------------------------------------------------------
(* The invariant. *)

LEMMA ClosedIsDeadStep ==
  ASSUME RecordInv, ClosedIsDead, [Next]_vars
  PROVE  ClosedIsDead'
<1> USE DEF RecordInv, ClosedIsDead, Waitable
<1>1. CASE \E n \in Workers : WorkerStep(n)
  BY <1>1, WorkerFrame, WorkerLife DEF clientVars
<1>2. CASE \E n \in Workers : ReaderStep(n)
  BY <1>2, ReaderFrame DEF clientVars
<1>3. CASE \E c \in Calls : Poll(c) \/ CallStep(c) \/ Timeout(c)
  BY <1>3, CallFrame, CallMoves
<1>4. CASE Start
  <2>1. \A n \in Workers : n <= started => n <= started' /\ n # started'
    BY <1>4, StartFacts DEF TypeOK, Workers
  <2>2. \A n \in Workers : n # started' => life'[n] = life[n]
    BY <1>4, StartFacts DEF TypeOK
  <2> QED
    BY <1>4, <2>1, <2>2, StartFacts
<1>5. CASE Close
  <2>1. process = started /\ Waitable(process)
    BY <1>5 DEF Close, ProcessIsLast, LifecycleHasProcess, ReleasedIsDead, Idle
  <2> QED
    BY <1>5, <2>1 DEF Close, workerVars, TypeOK, Workers
<1>6. CASE Stop \/ Terminate \/ (LifecycleStep /\ ~Close)
  <2>1. stdin' = stdin
    BY <1>6 DEF LifecycleStep, Stop, Terminate, Record, StopReplied, ExitWait, Signal, TermWait,
                KillWait, Wait, Forget, clientVars
  <2> QED
    BY <1>6, <2>1, LifecycleFrame DEF workerVars
<1>7. CASE UNCHANGED vars
  BY <1>7 DEF vars, clientVars, workerVars
<1> QED
  BY <1>1, <1>2, <1>3, <1>4, <1>5, <1>6, <1>7 DEF Next, LifecycleStep

LEMMA ExitsOnceStep ==
  ASSUME RecordInv, ExitsOnce, [Next]_vars
  PROVE  ExitsOnce'
<1> USE DEF ExitsOnce, Live
<1>1. CASE \E n \in Workers : WorkerStep(n)
  <2>1. PICK n \in Workers : WorkerStep(n)
    BY <1>1
  <2>2. started' = started /\ \A m \in Workers : Live(m)' => Live(m)
    BY <2>1, WorkerFrame, WorkerLife DEF clientVars, RecordInv
  <2>3. \A m \in Workers : m # n => code'[m] = code[m]
    BY <2>1, AnswerFacts DEF RecordInv
  <2>4. Live(n) => n <= started
    BY LiveIsLast DEF Workers
  <2>5. ASSUME NEW status, Exit(n, status)
        PROVE  Live(n) /\ ~Live(n)'
    BY <2>5 DEF Exit, RecordInv, TypeOK
  <2>6. CASE code' = code
    BY <2>2, <2>6
  <2>7. CASE code' # code
    <3>1. PICK status : Exit(n, status)
      BY <2>1, <2>7 DEF WorkerStep, Answer, BecomeWaitable
    <3>2. n <= started' /\ ~Live(n)'
      BY <2>2, <2>4, <2>5, <3>1
    <3>3. started \in Nat /\ Workers \subseteq Nat
      BY DEF RecordInv, TypeOK, Workers
    <3> QED
      BY <2>2, <2>3, <3>2, <3>3
  <2> QED
    BY <2>6, <2>7
<1>2. CASE \E n \in Workers : ReaderStep(n)
  BY <1>2, ReaderFrame DEF clientVars
<1>3. CASE \E c \in Calls : Poll(c) \/ CallStep(c) \/ Timeout(c)
  BY <1>3, CallFrame
<1>4. CASE Start
  <2>1. \A n \in Workers : n > started' => n > started /\ n # started'
    BY <1>4, StartFacts DEF RecordInv, TypeOK, Workers
  <2>2. \A n \in Workers : n # started' => life'[n] = life[n]
    BY <1>4, StartFacts DEF RecordInv, TypeOK
  <2>3. started' > started
    BY <1>4, StartFacts DEF RecordInv, TypeOK
  <2> QED
    BY <1>4, <2>1, <2>2, <2>3, StartFacts
<1>5. CASE Stop \/ Terminate \/ LifecycleStep
  BY <1>5, LifecycleFrame DEF workerVars
<1>6. CASE UNCHANGED vars
  BY <1>6 DEF vars, clientVars, workerVars
<1> QED
  BY <1>1, <1>2, <1>3, <1>4, <1>5, <1>6 DEF Next

(* Steps that leave the calls alone, and the lines they have written. *)
LEMMA CallsKept ==
  ASSUME RecordInv,
         \/ \E n \in Workers : WorkerStep(n) \/ ReaderStep(n)
         \/ Start \/ Stop \/ Terminate \/ LifecycleStep \/ UNCHANGED vars
  PROVE  UNCHANGED <<rpc, result, gen>>
BY WorkerFrame, ReaderFrame, StartFacts, LifecycleFrame DEF vars, callVars

LEMMA CallsOnceStep ==
  ASSUME RecordInv, CallsOnce, [Next]_vars
  PROVE  CallsOnce'
<1> USE DEF CallsOnce
<1>1. CASE \E c \in Calls : Poll(c) \/ CallStep(c) \/ Timeout(c)
  <2>1. PICK c \in Calls : Poll(c) \/ CallStep(c) \/ Timeout(c)
    BY <1>1
  <2>m. /\ \A d \in Calls : d # c => rpc'[d] = rpc[d]
        /\ GoesOn(c) \/ Writes(c) \/ GivesUp(c) \/ GetsResult(c)
    BY <2>1, CallMoves DEF RecordInv
  <2> USE <2>m DEF RecordInv, TypeOK
  <2>2. CASE GoesOn(c)
    BY <2>2 DEF GoesOn
  <2>3. CASE Writes(c)
    <3>1. process # 0 /\ gen'[c] = process /\ \A d \in Calls : d # c => gen'[d] = gen[d]
      BY <2>3 DEF Writes, CanWrite
    <3> QED
      BY <2>3, <3>1 DEF Writes
  <2>4. CASE GivesUp(c)
    <3>1. result'[c] # "none" /\ \A d \in Calls : d # c => result'[d] = result[d]
      BY <2>4 DEF GivesUp
    <3> QED
      BY <2>4, <3>1 DEF GivesUp
  <2>5. CASE GetsResult(c)
    <3>1. result'[c] # "none" /\ \A d \in Calls : d # c => result'[d] = result[d]
      <4>1. (IF box[c] = "empty" THEN "timeout" ELSE box[c]) # "none"
        BY DEF Replies, Crashes
      <4> QED
        BY <2>5, <4>1 DEF GetsResult
    <3> QED
      BY <2>5, <3>1 DEF GetsResult
  <2> QED
    BY <2>2, <2>3, <2>4, <2>5
<1>2. CASE \/ \E n \in Workers : WorkerStep(n) \/ ReaderStep(n)
           \/ Start \/ Stop \/ Terminate \/ LifecycleStep \/ UNCHANGED vars
  BY <1>2, CallsKept
<1> QED
  BY <1>1, <1>2 DEF Next

LEMMA LinesOnceStep ==
  ASSUME RecordInv, CallsOnce, LinesOnce, [Next]_vars
  PROVE  LinesOnce'
<1> USE DEF LinesOnce
<1>1. CASE \E n \in Workers : WorkerStep(n)
  <2>1. PICK n \in Workers : WorkerStep(n)
    BY <1>1
  <2>2. gen' = gen
    BY <2>1, CallsKept
  <2>3. \A m \in Workers : inbox'[m] \subseteq inbox[m]
    BY <2>1, AnswerFacts DEF RecordInv
  <2>4. \A c \in replied' : c \in replied \/ c \in inbox[n]
    BY <2>1, AnswerFacts DEF RecordInv
  <2>5. \A c \in replied', m \in Workers : c \in inbox'[m] => c \in replied
    <3> SUFFICES ASSUME NEW c \in replied', NEW m \in Workers, c \in inbox'[m], c \notin replied
                 PROVE  FALSE
      OBVIOUS
    <3>1. c \in Calls /\ c \in inbox[n] /\ c \in inbox[m] /\ m = n /\ gen[c] = n
      BY <2>3, <2>4
    <3>2. CASE \E d \in Calls : Answer(n, d)
      <4>1. PICK d \in Calls : Answer(n, d)
        BY <3>2
      <4>2. d \notin inbox'[n] /\ \E reply \in Replies : answers' = answers \cup {<<d, reply>>}
        BY <4>1 DEF Answer, RecordInv, TypeOK
      <4> QED
        BY <3>1, <4>2 DEF replied
    <3>3. CASE ~\E d \in Calls : Answer(n, d)
      <4>1. answers' = answers
        BY <2>1, <3>3 DEF WorkerStep, Exit, BecomeWaitable
      <4> QED
        BY <4>1
    <3> QED
      BY <3>2, <3>3
  <2> QED
    BY <2>2, <2>3, <2>4, <2>5 DEF Workers
<1>2. CASE \E n \in Workers : ReaderStep(n)
  <2>1. inbox' = inbox /\ gen' = gen /\ answers' = answers
    BY <1>2, ReaderFrame DEF callVars
  <2> QED
    BY <2>1
<1>3. CASE \E c \in Calls : Poll(c) \/ CallStep(c) \/ Timeout(c)
  <2>1. PICK c \in Calls : Poll(c) \/ CallStep(c) \/ Timeout(c)
    BY <1>3
  <2>2. CASE Writes(c)
    <3>1. process \in Workers /\ gen[c] = 0 /\ c \notin replied
      BY <2>2 DEF Writes, CanWrite, CallsOnce, RecordInv, TypeOK, Workers
    <3>2. /\ \A n \in Workers : c \in inbox'[n] => n = process
          /\ \A d \in Calls, n \in Workers : d # c /\ d \in inbox'[n] => d \in inbox[n]
      BY <2>2, <3>1 DEF Writes, RecordInv, TypeOK, Workers
    <3>3. gen'[c] = process /\ \A d \in Calls : d # c => gen'[d] = gen[d]
      BY <2>2 DEF Writes, RecordInv, TypeOK
    <3> QED
      <4>1. answers' = answers
        BY <2>1, CallFrame
      <4> QED
        BY <3>1, <3>2, <3>3, <4>1 DEF Workers
  <2>3. CASE GoesOn(c) \/ GivesUp(c) \/ GetsResult(c)
    <3>1. inbox' = inbox /\ gen' = gen /\ answers' = answers
      BY <2>1, <2>3, CallFrame DEF GoesOn, GivesUp, GetsResult
    <3> QED
      BY <3>1
  <2> QED
    BY <2>1, <2>2, <2>3, CallMoves DEF RecordInv
<1>4. CASE Start
  BY <1>4, StartFacts DEF callVars
<1>5. CASE Stop \/ Terminate \/ LifecycleStep \/ UNCHANGED vars
  <2>1. inbox' = inbox /\ gen' = gen /\ answers' = answers
    BY <1>5, LifecycleFrame DEF vars, callVars, workerVars
  <2> QED
    BY <2>1
<1> QED
  BY <1>1, <1>2, <1>3, <1>4, <1>5 DEF Next

LEMMA RepliesAreTrueStep ==
  ASSUME RecordInv, RepliesAreTrue, [Next]_vars
  PROVE  RepliesAreTrue'
<1> USE DEF RecordInv, TypeOK, RepliesAreTrue
<1>1. CASE \E n \in Workers : WorkerStep(n)
  <2>1. PICK n \in Workers : WorkerStep(n)
    BY <1>1
  <2>2. held' = held /\ box' = box
    BY <2>1, WorkerFrame DEF readerVars, callVars
  <2>3. CASE \E c \in Calls : Answer(n, c)
    <3>1. PICK c \in Calls, reply \in Replies :
            /\ stdout' = [stdout EXCEPT ![n] = @ \cup {<<c, reply>>}]
            /\ answers' = answers \cup {<<c, reply>>}
      BY <2>3 DEF Answer
    <3> QED
      BY <2>2, <3>1
  <2>4. CASE ~\E c \in Calls : Answer(n, c)
    BY <2>1, <2>2, <2>4 DEF WorkerStep, Exit, BecomeWaitable
  <2> QED
    BY <2>3, <2>4
<1>2. CASE \E n \in Workers : ReaderStep(n)
  <2>1. PICK n \in Workers : ReaderStep(n)
    BY <1>2
  <2>2. answers' = answers
    BY <2>1, ReaderFrame
  <2>3. CASE \E line \in stdout[n] : ReadLine(n, line)
    BY <2>2, <2>3 DEF ReadLine, callVars
  <2>4. CASE Put(n)
    <3>1. held[n] \in answers /\ held[n] \in Calls \X Replies
      BY <2>4 DEF Put, ReaderCarries
    <3> QED
      <4>1. stdout' = stdout /\ box' = [box EXCEPT ![held[n][1]] = held[n][2]]
            /\ held' = [held EXCEPT ![n] = <<>>]
        BY <2>4 DEF Put, workerVars
      <4>2. PICK c \in Calls, reply \in Replies : held[n] = <<c, reply>>
        BY <3>1
      <4> QED
        <5>1. held[n][1] = c /\ held[n][2] = reply
          BY <4>2
        <5>2. box' = [box EXCEPT ![c] = reply]
          BY <4>1, <5>1
        <5>3. \A d \in Calls : box'[d] \in Replies => <<d, box'[d]>> \in answers
          BY <3>1, <4>2, <5>2
        <5>4. \A m \in Workers : held'[m] \in answers \cup {<<>>}
          BY <4>1
        <5> QED
          BY <2>2, <4>1, <5>3, <5>4
  <2>5. CASE EndOfOutput(n) \/ CheckProcess(n) \/ EnterWait(n) \/ WaitProcess(n)
    BY <2>2, <2>5 DEF EndOfOutput, CheckProcess, EnterWait, WaitProcess, workerVars, callVars
  <2>6. CASE FailPending(n)
    <3>1. \A c \in Calls : box'[c] = box[c] \/ box'[c] \notin Replies
      BY <2>6, Distinct DEF FailPending, ReaderCarries
    <3> QED
      BY <2>2, <2>6, <3>1 DEF FailPending, workerVars
  <2> QED
    BY <2>1, <2>3, <2>4, <2>5, <2>6 DEF ReaderStep
<1>3. CASE \E c \in Calls : Poll(c) \/ CallStep(c) \/ Timeout(c)
  <2>1. PICK c \in Calls : Poll(c) \/ CallStep(c) \/ Timeout(c)
    BY <1>3
  <2>2. stdout' = stdout /\ held' = held /\ answers' = answers
    BY <2>1, CallFrame DEF readerVars
  <2>3. \A d \in Calls : box'[d] \in {box[d], "empty"}
    <3>1. box' = box \/ box' = [box EXCEPT ![c] = "empty"]
      BY <2>1, CallMoves DEF GoesOn, Writes, GivesUp, GetsResult
    <3> QED
      BY <3>1
  <2> QED
    BY <2>2, <2>3 DEF Replies
<1>4. CASE Start
  BY <1>4, StartFacts DEF readerVars, callVars
<1>5. CASE Stop \/ Terminate \/ LifecycleStep \/ UNCHANGED vars
  BY <1>5, LifecycleFrame DEF vars, callVars, workerVars, readerVars
<1> QED
  BY <1>1, <1>2, <1>3, <1>4, <1>5 DEF Next

(* Under every fault: stdin of a live worker is open, a call has one line  *)
(* and one end, and the replies under way are the ones workers wrote.      *)
THEOREM ReplyHolds == Spec => [](RecordInv /\ ReplyInv)
<1>1. Init => RecordInv /\ ReplyInv
  BY RecordInit DEF Init, ReplyInv, ClosedIsDead, ExitsOnce, Live, CallsOnce, LinesOnce, RepliesAreTrue, replied, Replies
<1>2. RecordInv /\ ReplyInv /\ [Next]_vars => RecordInv' /\ ReplyInv'
  BY RecordStep, ClosedIsDeadStep, ExitsOnceStep, CallsOnceStep, LinesOnceStep,
     RepliesAreTrueStep DEF ReplyInv
<1> QED
  BY <1>1, <1>2, PTL DEF Spec

-----------------------------------------------------------------------------
(* Client implements RemoteCall. *)

(* Whether a worker is up, from its life and from `started'. *)
Up == started # 0 /\ Live(started)

LEMMA UpIsLive ==
  ASSUME RecordInv, NEW n \in Workers
  PROVE  Live(n) <=> Up /\ n = started
BY LiveIsLast DEF Up, Workers

LEMMA ReplyNames ==
  ASSUME NEW c \in Calls
  PROVE  c \in replied <=> Remote!Answered(c)
BY DEF replied, Remote!Answered, Replies

(* No process can take the line of a call that finds none, or that fails   *)
(* to write it.                                                            *)
LEMMA NoWorkerToCall ==
  ASSUME RecordInv, ClosedIsDead, process = 0 \/ Waitable(process) \/ ~CanWrite
  PROVE  ~Up
<1> SUFFICES ASSUME Up PROVE FALSE
  OBVIOUS
<1>1. started \in Workers /\ process = started /\ Live(started)
  BY LiveIsLast DEF Up, RecordInv, TypeOK, Workers
<1> QED
  BY <1>1, Distinct DEF CanWrite, ClosedIsDead, Workers

LEMMA StepRemote ==
  ASSUME RecordInv, BlameInv, ReplyInv, BlameInv', [Next]_vars
  PROVE  [Remote!Next]_(Remote!call)
<1> USE DEF ReplyInv
<1>u. Up = (started # 0 /\ Live(started)) /\ Up' = (started' # 0 /\ Live(started)')
  BY DEF Up
<1>1. CASE \E n \in Workers : WorkerStep(n)
  <2>1. PICK n \in Workers : WorkerStep(n)
    BY <1>1
  <2>2. UNCHANGED <<started, gen, result>>
    BY <2>1, WorkerFrame DEF clientVars, callVars
  <2>3. ASSUME NEW c \in Calls, Answer(n, c) PROVE Remote!Next \/ UNCHANGED Remote!call
    <3>1. Up /\ n = started /\ gen[c] = n /\ c \notin replied
      BY <2>3, UpIsLive DEF Answer, LinesOnce
    <3>2. Up' /\ code' = code
      BY <2>2, <2>3, <3>1 DEF Answer, Up, Live, RecordInv, TypeOK
    <3>3. PICK reply \in Replies : answers' = answers \cup {<<c, reply>>}
      BY <2>3 DEF Answer
    <3>4. Remote!Answer(c, reply)
      BY <1>u, <2>2, <3>1, <3>2, <3>3, ReplyNames DEF Remote!Answer
    <3> QED
      BY <3>4 DEF Remote!Next, Replies
  <2>4. ASSUME NEW status \in {"clean", "crash", "hard_stop"}, Exit(n, status)
        PROVE  Remote!Next \/ UNCHANGED Remote!call
    <3>1. Up /\ n = started
      BY <2>4, UpIsLive DEF Exit
    <3>2. ~Up' /\ answers' = answers
      BY <2>2, <2>4, <3>1 DEF Exit, Up, Live, RecordInv, TypeOK
    <3>3. {m \in Workers : code'[m] = "hard_stop"}
            \in {{m \in Workers : code[m] = "hard_stop"},
                 {m \in Workers : code[m] = "hard_stop"} \cup {started}}
      <4>1. code' = [code EXCEPT ![started] = status] /\ started \in Workers
        BY <2>4, <3>1 DEF Exit
      <4>2. code[started] = "none"
        BY <3>1, <4>1 DEF ExitsOnce, Up
      <4> QED
        BY <4>1, <4>2 DEF RecordInv, TypeOK
    <3>4. Remote!GoDown
      BY <1>u, <2>2, <3>1, <3>2, <3>3 DEF Remote!GoDown
    <3> QED
      BY <3>4 DEF Remote!Next
  <2>5. CASE BecomeWaitable(n)
    <3>1. Up' = Up /\ code' = code /\ answers' = answers
      BY <2>2, <2>5 DEF BecomeWaitable, Up, Live, RecordInv, TypeOK
    <3> QED
      BY <1>u, <2>2, <3>1 DEF Remote!call
  <2> QED
    BY <2>1, <2>3, <2>4, <2>5 DEF WorkerStep
<1>2. CASE \E n \in Workers : ReaderStep(n)
  BY <1>2, ReaderFrame DEF Remote!call, clientVars, Live
<1>3. ASSUME NEW c \in Calls, Poll(c) \/ CallStep(c) \/ Timeout(c)
      PROVE  Remote!Next \/ UNCHANGED Remote!call
  <2>1. /\ UNCHANGED <<started, life, code, answers>>
        /\ GoesOn(c) \/ Writes(c) \/ GivesUp(c) \/ GetsResult(c)
    BY <1>3, CallFrame, CallMoves DEF RecordInv
  <2>2. CASE GoesOn(c)
    BY <2>1, <2>2 DEF GoesOn, Remote!call, Live
  <2>3. CASE Writes(c)
    <3>1. Up /\ process = started /\ gen[c] = 0 /\ result[c] = "none"
      BY <2>3, LiveIsLast DEF Writes, CanWrite, Up, CallsOnce, RecordInv, TypeOK, Workers
    <3>2. Remote!Write(c)
      BY <1>u, <2>1, <2>3, <3>1 DEF Writes, Remote!Write, Live
    <3> QED
      BY <3>2 DEF Remote!Next
  <2>4. CASE GivesUp(c)
    <3>1. gen[c] = 0 /\ result[c] = "none"
      BY <2>4 DEF GivesUp, CallsOnce
    <3>2. PICK outcome \in {"not_running", "os_error", "too_long"} :
            /\ result' = [result EXCEPT ![c] = outcome]
            /\ outcome \in {"not_running", "os_error"} => ~Up
      BY <2>4, NoWorkerToCall DEF GivesUp
    <3>3. Remote!Return(c, outcome)
      BY <1>u, <2>1, <2>4, <3>1, <3>2 DEF GivesUp, Remote!Return, Live
    <3> QED
      BY <3>3 DEF Remote!Next
  <2>5. CASE GetsResult(c)
    <3> DEFINE outcome == IF box[c] = "empty" THEN "timeout" ELSE box[c]
    <3>1. gen[c] # 0 /\ result[c] = "none" /\ result' = [result EXCEPT ![c] = outcome]
      BY <2>5 DEF GetsResult, CallsOnce
    <3>2. outcome \in Replies => <<c, outcome>> \in answers
      BY DEF RepliesAreTrue, Replies
    <3>3. outcome \in Crashes =>
            /\ Remote!Gone(gen[c]) /\ ~Remote!Answered(c)
            /\ outcome = "thermal_hard_stop" => gen[c] \in {n \in Workers : code[n] = "hard_stop"}
      <4> SUFFICES ASSUME outcome \in Crashes
                   PROVE  /\ Remote!Gone(gen[c]) /\ ~Remote!Answered(c)
                          /\ outcome = "thermal_hard_stop" =>
                               gen[c] \in {n \in Workers : code[n] = "hard_stop"}
        OBVIOUS
      <4>1. box[c] \in Crashes /\ outcome = box[c]
        BY DEF Crashes
      <4>2. gen[c] = started /\ started \in Workers /\ Truth(started, box[c])
        BY <2>5, <4>1 DEF GetsResult, BlameInv, CallsInOrder, BoxIsTrue, RecordInv, TypeOK, Workers
      <4>3. c \notin replied
        <5>1. result'[c] \in Crashes /\ replied' = replied
          BY <2>1, <3>1, <4>1 DEF RecordInv, TypeOK
        <5> QED
          BY <5>1 DEF BlameInv, AnsweredNotBlamed
      <4> QED
        BY <3>1, <4>1, <4>2, <4>3, ReplyNames DEF Truth, Remote!Gone
    <3>4. outcome \in {"timeout"} \cup Replies \cup Crashes
      BY DEF RecordInv, TypeOK
    <3>5. Remote!Return(c, outcome)
      <4>1. UNCHANGED <<started, Up, {n \in Workers : code[n] = "hard_stop"}, gen, answers>>
        BY <2>1, <2>5 DEF GetsResult, Up, Live
      <4>2. CASE outcome \in Replies
        BY <1>u, <3>1, <3>2, <4>1, <4>2 DEF Remote!Return, Replies
      <4>3. CASE outcome = "timeout"
        BY <1>u, <3>1, <4>1, <4>3 DEF Remote!Return
      <4>4. CASE outcome \in Crashes
        BY <1>u, <3>1, <3>3, <4>1, <4>4 DEF Remote!Return, Crashes
      <4> QED
        BY <3>4, <4>2, <4>3, <4>4
    <3> QED
      BY <3>4, <3>5, Distinct DEF Remote!Next
  <2> QED
    BY <2>1, <2>2, <2>3, <2>4, <2>5
<1>4. CASE Start
  <2>1. Remote!Start
    <3>1. Up' /\ ~Up
      <4>1. started' \in Workers /\ started' # 0 /\ life'[started'] = "running"
        <5>1. started' \in Workers /\ life' = [life EXCEPT ![started'] = "running"]
          BY <1>4, StartFacts
        <5>2. DOMAIN life = Workers /\ 0 \notin Workers
          BY DEF RecordInv, TypeOK, Workers
        <5> QED
          BY <5>1, <5>2
      <4> QED
        BY <1>4, <4>1, StartFacts DEF Up, Live
    <3> QED
      BY <1>4, <1>u, <3>1, StartFacts DEF Remote!Start, callVars
  <2> QED
    BY <2>1 DEF Remote!Next
<1>5. CASE Stop \/ Terminate \/ LifecycleStep \/ UNCHANGED vars
  BY <1>5, LifecycleFrame DEF vars, clientVars, workerVars, callVars, Remote!call, Live
<1> QED
  BY <1>1, <1>2, <1>3, <1>4, <1>5 DEF Next

(* A call ends once, with its own reply when it has one, and with a crash  *)
(* or a hard stop only if the worker that took its line went down that way *)
(* without a reply: WorkerClient.request keeps RemoteCall, when start()    *)
(* waits for the former reader thread.                                     *)
THEOREM ClientImplementsRemoteCall ==
  ASSUME "late_reader" \notin Faults
  PROVE  Spec => ImplementsRemoteCall
<1>1. Init => Remote!Init
  BY DEF Init, Remote!Init
<1>2. /\ (RecordInv /\ BlameInv) /\ (RecordInv /\ ReplyInv) /\ (RecordInv /\ BlameInv)'
      /\ [Next]_vars
      => [Remote!Next]_(Remote!call)
  BY StepRemote
<1> QED
  BY <1>1, <1>2, BlameHolds, ReplyHolds, PTL DEF Spec, ImplementsRemoteCall, Remote!Spec

-----------------------------------------------------------------------------
(* Client and the worker.                                                  *)

(* The rest of the client stands still while worker n takes a step; of the *)
(* reply it writes, the line goes into the pipe of its stdout.             *)
OnlyWorker(n) ==
  /\ life' \in [Workers -> {"unborn", "running", "stopping", "closing", "dead"}]
  /\ code' \in [Workers -> {"none", "clean", "crash", "hard_stop"}]
  /\ inbox' \in [Workers -> SUBSET Calls]
  /\ \A m \in Workers \ {n} : life'[m] = life[m] /\ code'[m] = code[m] /\ inbox'[m] = inbox[m]
  /\ stdout' = [stdout EXCEPT ![n] = @ \cup (answers' \ answers)]
  /\ UNCHANGED <<clientVars, readerVars, callVars, lifeVars>>

(* Whatever a WorkerProcess does at the other end of the pipes, Client has *)
(* a step for it: nothing it is proved to do is proved of too tame a       *)
(* worker.  The end of stdin is left out: a live worker never sees it.     *)
THEOREM ClientAllowsWorker ==
  ASSUME RecordInv, ReplyInv, NEW n \in Workers, OnlyWorker(n),
         \/ \E c \in Calls, reply \in Replies : Process(n)!Answer(c, reply, c \in stops)
         \/ \E status \in {"clean", "crash", "hard_stop"} : Process(n)!Exit(status)
         \/ Process(n)!BecomeWaitable
         \/ stdin[n] = "closed" /\ Process(n)!EndOfInput
  PROVE  WorkerStep(n)
<1> USE DEF RecordInv, TypeOK, OnlyWorker
<1>1. ASSUME NEW c \in Calls, NEW reply \in Replies, Process(n)!Answer(c, reply, c \in stops)
      PROVE  Answer(n, c)
  <2>1. /\ Live(n) /\ c \in inbox[n] /\ (c \in stops => life[n] = "running")
        /\ inbox'[n] = inbox[n] \ {c} /\ code'[n] = code[n]
        /\ answers' = answers \cup {<<c, reply>>}
        /\ \/ ~(c \in stops /\ reply = "ok") /\ life'[n] = life[n]
           \/ c \in stops /\ life'[n] = "stopping"
    BY <1>1 DEF Process!Answer, Process!Live, Live
  <2>2. <<c, reply>> \notin answers
    BY <2>1 DEF ReplyInv, LinesOnce, replied
  <2>3. stdout' = [stdout EXCEPT ![n] = @ \cup {<<c, reply>>}]
    <3>1. answers' \ answers = {<<c, reply>>}
      BY <2>1, <2>2
    <3> QED
      BY <3>1
  <2>4. inbox' = [inbox EXCEPT ![n] = @ \ {c}] /\ code' = code
    BY <2>1
  <2>5. /\ life'[n] = life[n] => life' = life
        /\ life'[n] = "stopping" => life' = [life EXCEPT ![n] = "stopping"]
    OBVIOUS
  <2> QED
    BY <2>1, <2>3, <2>4, <2>5 DEF Answer
<1>2. ASSUME NEW status \in {"clean", "crash", "hard_stop"}, Process(n)!Exit(status)
      PROVE  Exit(n, status)
  <2>1. /\ Live(n) /\ (status = "clean" => life[n] = "stopping")
        /\ life'[n] = "closing" /\ code'[n] = status /\ inbox'[n] = inbox[n] /\ answers' = answers
    BY <1>2 DEF Process!Exit, Process!Live, Live
  <2>2. /\ life' = [life EXCEPT ![n] = "closing"] /\ code' = [code EXCEPT ![n] = status]
        /\ inbox' = inbox /\ stdout' = stdout
    BY <2>1
  <2> QED
    BY <2>1, <2>2 DEF Exit
<1>3. CASE Process(n)!BecomeWaitable
  <2>1. /\ life[n] = "closing" /\ life'[n] = "dead" /\ code'[n] = code[n]
        /\ inbox'[n] = inbox[n] /\ answers' = answers
    BY <1>3 DEF Process!BecomeWaitable
  <2>2. life' = [life EXCEPT ![n] = "dead"] /\ code' = code /\ inbox' = inbox /\ stdout' = stdout
    BY <2>1
  <2> QED
    BY <2>1, <2>2 DEF BecomeWaitable, WorkerStep
<1>4. CASE stdin[n] = "closed" /\ Process(n)!EndOfInput
  BY <1>4 DEF Process!EndOfInput, ReplyInv, ClosedIsDead, Waitable
<1> QED
  BY <1>1, <1>2, <1>3, <1>4 DEF WorkerStep
=============================================================================
