--------------------------- MODULE CommandsProofs ---------------------------
(***************************************************************************)
(* Proofs about Commands, for every set of commands and faults.            *)
(***************************************************************************)
EXTENDS CommandsInvariants, TLAPS

Phases == {"try", "except", "finally"}
Statuses == {"running", "completed", "cancelled", "timeout", "failed"}

(* The helpers of the command write only points, phases and statuses. *)
LEMMA ProgramTypes ==
  ASSUME TypeOK, NEW c \in Controllers
  PROVE  /\ \A o \in Statuses : Conclude(c, o) \/ Recover(c, o) =>
              /\ pc' \in [Controllers -> Points] /\ phase' \in [Controllers -> Phases]
              /\ status' \in [Controllers -> Statuses]
         /\ Raise(c) =>
              /\ pc' \in [Controllers -> Points] /\ phase' \in [Controllers -> Phases]
              /\ status' \in [Controllers -> Statuses]
         /\ \A p \in Points : Continue(c, p) =>
              /\ pc' \in [Controllers -> Points] /\ phase' \in [Controllers -> Phases]
              /\ status' \in [Controllers -> Statuses]
<1> USE DEF TypeOK, Points, Phases, Statuses, Over, Requests, Waits
<1>1. ASSUME NEW o \in Statuses, Conclude(c, o) \/ Recover(c, o)
      PROVE  /\ pc' \in [Controllers -> Points] /\ phase' \in [Controllers -> Phases]
             /\ status' \in [Controllers -> Statuses]
  <2>1. CASE Conclude(c, o)
    BY <2>1 DEF Conclude, Goto
  <2>2. CASE Recover(c, o)
    BY <2>2 DEF Recover, Goto
  <2> QED
    BY <1>1, <2>1, <2>2
<1>2. ASSUME Raise(c)
      PROVE  /\ pc' \in [Controllers -> Points] /\ phase' \in [Controllers -> Phases]
             /\ status' \in [Controllers -> Statuses]
  BY <1>2 DEF Raise, Goto
<1>3. ASSUME NEW p \in Points, Continue(c, p)
      PROVE  /\ pc' \in [Controllers -> Points] /\ phase' \in [Controllers -> Phases]
             /\ status' \in [Controllers -> Statuses]
  BY <1>3 DEF Continue, Goto
<1> QED
  BY <1>1, <1>2, <1>3

(* A request that returns moves its command on by one of these helpers. *)
LEMMA ReturnCases ==
  ASSUME TypeOK, NEW c \in Controllers, NEW result, pc[c] \in Requests, Return(c, result)
  PROVE  \/ \E o \in Statuses : Conclude(c, o) \/ Recover(c, o)
         \/ Raise(c)
         \/ \E p \in {"run", "health", "terminate", "stop", "exit_wait"} : Continue(c, p)
<1> USE DEF Statuses, TypeOK
<1>1. CASE pc[c] = "load"
  <2>1. AfterLoad(c, result)
    BY <1>1 DEF Return
  <2> QED
    BY <2>1 DEF AfterLoad
<1>2. CASE pc[c] = "run"
  <2>1. AfterRun(c, result)
    BY <1>2 DEF Return
  <2> QED
    BY <2>1 DEF AfterRun
<1>3. CASE pc[c] = "cancel"
  <2>1. AfterCancel(c, result)
    BY <1>3 DEF Return
  <2> QED
    BY <2>1 DEF AfterCancel
<1>4. CASE pc[c] = "health"
  <2>1. AfterHealth(c, result)
    BY <1>4 DEF Return
  <2>2. status[c] \in Statuses
    OBVIOUS
  <2> QED
    BY <2>1, <2>2 DEF AfterHealth
<1>5. CASE pc[c] = "unload"
  <2>1. AfterUnload(c, result)
    BY <1>5 DEF Return
  <2> QED
    BY <2>1 DEF AfterUnload
<1>6. CASE pc[c] = "ask_stop"
  <2>1. AfterStop(c, result)
    BY <1>6 DEF Return
  <2> QED
    BY <2>1 DEF AfterStop
<1> QED
  BY <1>1, <1>2, <1>3, <1>4, <1>5, <1>6 DEF Requests

LEMMA ReturnTypes ==
  ASSUME TypeOK, NEW c \in Controllers, NEW result, pc[c] \in Requests, Return(c, result)
  PROVE  /\ pc' \in [Controllers -> Points] /\ phase' \in [Controllers -> Phases]
         /\ status' \in [Controllers -> Statuses]
         /\ turn' \in [Controllers -> 1 .. Turns] /\ kind' = kind
         /\ mishaps' \in [Controllers -> SUBSET Mishaps]
<1>1. {"run", "health", "terminate", "stop", "exit_wait"} \subseteq Points
  BY DEF Points, Requests, Waits
<1>2. /\ pc' \in [Controllers -> Points] /\ phase' \in [Controllers -> Phases]
      /\ status' \in [Controllers -> Statuses]
  BY <1>1, ReturnCases, ProgramTypes
<1>3. turn' \in [Controllers -> 1 .. Turns]
  BY TurnsAssumption DEF TypeOK, Return, LastTurn
<1>4. mishaps' \in [Controllers -> SUBSET Mishaps]
  <2>1. mishaps[c] \cup {"heat"} \subseteq Mishaps
    BY DEF TypeOK, Mishaps
  <2> QED
    BY <2>1 DEF TypeOK, Return
<1> QED
  BY <1>2, <1>3, <1>4 DEF Return

(* A reply is one of the replies, if the queue holds any. *)
LEMMA ReplyTypes ==
  ASSUME TypeOK, NEW c \in Controllers, NEW request, NEW reply \in Replies, Reply(c, request, reply)
  PROVE  mail' \in [Controllers -> Replies \cup {"none"}]
  BY DEF TypeOK, Reply

LEMMA RespondTypes ==
  ASSUME TypeOK, NEW c \in Controllers, NEW request, NEW reply \in Replies, NEW stopping,
         Respond(c, request, reply, stopping)
  PROVE  /\ mail' \in [Controllers -> Replies \cup {"none"}]
         /\ life' = [life EXCEPT ![c] = "leaving"] \/ life' = life
  BY ReplyTypes DEF TypeOK, Respond

(* The worker's command loop: what one line changes. *)
LEMMA ServeTypes ==
  ASSUME TypeOK, NEW c \in Controllers, Serve(c)
  PROVE  /\ mail' \in [Controllers -> Replies \cup {"none"}]
         /\ inbox' = [inbox EXCEPT ![c] = Tail(@)]
         /\ life' = [life EXCEPT ![c] = "leaving"] \/ life' = life
         /\ \/ job' = job /\ held' \in {held, [held EXCEPT ![c] = FALSE]}
            \/ /\ Head(inbox[c]) = "load" \/ held[c]
               /\ job' \in {[job EXCEPT ![c] = "load"], [job EXCEPT ![c] = "run"]} /\ held' = held
         /\ life[c] = "up" /\ inbox[c] # <<>>
         /\ UNCHANGED <<pidfile, programVars, clientVars, wants, mishaps>>
<1> DEFINE request == Head(inbox[c])
<1>1. /\ life[c] = "up" /\ inbox[c] # <<>> /\ inbox' = [inbox EXCEPT ![c] = Tail(@)]
      /\ UNCHANGED <<pidfile, programVars, clientVars, wants, mishaps>>
  BY DEF Serve
<1>2. CASE /\ request \in {"load", "run"} /\ MayStart(c, request)
           /\ job' = [job EXCEPT ![c] = request]
           /\ UNCHANGED <<mail, life, held>>
  BY <1>1, <1>2 DEF TypeOK, MayStart
<1>3. CASE \E r \in {request, "invalid"}, reply \in Replies, stopping \in BOOLEAN :
             Respond(c, r, reply, stopping) /\ job' = job /\ held' \in {held, [held EXCEPT ![c] = FALSE]}
  BY <1>1, <1>3, RespondTypes
<1>4. \/ request \in {"load", "run"} /\ MayStart(c, request) /\ UNCHANGED <<mail, life, held>>
         /\ job' = [job EXCEPT ![c] = request]
      \/ \E r \in {request, "invalid"}, reply \in Replies, stopping \in BOOLEAN :
           Respond(c, r, reply, stopping) /\ job' = job /\ held' \in {held, [held EXCEPT ![c] = FALSE]}
  BY DEF Serve, Replies
<1> QED
  BY <1>2, <1>3, <1>4

(* Every step keeps the types, given that only requests are waited for. *)
LEMMA TypeStep == TypeOK /\ WaitsInRequest /\ [Next]_vars => TypeOK'
<1> SUFFICES ASSUME TypeOK, WaitsInRequest, [Next]_vars PROVE TypeOK'
  OBVIOUS
<1> USE DEF vars, programVars, clientVars, callVars, workerVars
<1>1. CASE UNCHANGED vars
  BY <1>1 DEF TypeOK
<1>2. ASSUME NEW c \in Controllers, Begin(c) PROVE TypeOK'
  BY <1>2 DEF TypeOK, Begin, Goto, Points
<1>3. ASSUME NEW c \in Controllers, ReadPidfile(c) PROVE TypeOK'
  BY <1>3 DEF TypeOK, ReadPidfile, Goto, Points
<1>4. ASSUME NEW c \in Controllers, Verify(c) PROVE TypeOK'
  <2>1. Conclude(c, "failed") \/ Continue(c, "discard")
    BY <1>4 DEF Verify
  <2>2. /\ pc' \in [Controllers -> Points] /\ phase' \in [Controllers -> Phases]
        /\ status' \in [Controllers -> Statuses]
    BY <2>1, ProgramTypes DEF Statuses, Points
  <2> QED
    BY <1>4, <2>2 DEF TypeOK, Verify, Phases, Statuses
<1>5. ASSUME NEW c \in Controllers, Discard(c) PROVE TypeOK'
  BY <1>5 DEF TypeOK, Discard, Goto, Points
<1>6. ASSUME NEW c \in Controllers, Spawn(c) PROVE TypeOK'
  <2>1. Conclude(c, "failed") \/ Continue(c, "open")
    BY <1>6 DEF Spawn
  <2>2. /\ pc' \in [Controllers -> Points] /\ phase' \in [Controllers -> Phases]
        /\ status' \in [Controllers -> Statuses]
    BY <2>1, ProgramTypes DEF Statuses, Points
  <2>3. \/ process' = [process EXCEPT ![c] = TRUE] /\ life' = [life EXCEPT ![c] = "up"]
        \/ UNCHANGED <<process, life>>
    BY <1>6 DEF Spawn
  <2>4. /\ process' \in [Controllers -> BOOLEAN]
        /\ life' \in [Controllers -> {"unborn", "up", "leaving", "killed", "closing", "dead"}]
    <3>1. /\ process \in [Controllers -> BOOLEAN]
          /\ life \in [Controllers -> {"unborn", "up", "leaving", "killed", "closing", "dead"}]
      BY DEF TypeOK
    <3> QED
      BY <2>3, <3>1
  <2> QED
    BY <1>6, <2>2, <2>4 DEF TypeOK, Spawn, Phases, Statuses
<1>7. ASSUME NEW c \in Controllers, Open(c) PROVE TypeOK'
  <2>1. Conclude(c, "failed") \/ Continue(c, "write")
    BY <1>7 DEF Open
  <2>2. /\ pc' \in [Controllers -> Points] /\ phase' \in [Controllers -> Phases]
        /\ status' \in [Controllers -> Statuses]
    BY <2>1, ProgramTypes DEF Statuses, Points
  <2>3. pidfile' \in {pidfile, "garbled"}
    BY <1>7 DEF Open
  <2> QED
    BY <1>7, <2>2, <2>3 DEF TypeOK, Open, Phases, Statuses
<1>8. ASSUME NEW c \in Controllers, Write(c) PROVE TypeOK'
  <2>1. Conclude(c, "failed") \/ Continue(c, "load")
    BY <1>8 DEF Write
  <2>2. /\ pc' \in [Controllers -> Points] /\ phase' \in [Controllers -> Phases]
        /\ status' \in [Controllers -> Statuses]
    BY <2>1, ProgramTypes DEF Statuses, Points, Requests
  <2>3. \/ pidfile' = c /\ reader' = [reader EXCEPT ![c] = TRUE]
        \/ UNCHANGED <<pidfile, reader>>
    BY <1>8 DEF Write
  <2>4. pidfile' \in Controllers \cup {"garbled", None} /\ reader' \in [Controllers -> BOOLEAN]
    <3>1. pidfile \in Controllers \cup {"garbled", None} /\ reader \in [Controllers -> BOOLEAN]
      BY DEF TypeOK
    <3> QED
      BY <2>3, <3>1
  <2> QED
    BY <1>8, <2>2, <2>4 DEF TypeOK, Write, Phases, Statuses
<1>9. ASSUME NEW c \in Controllers, Send(c) PROVE TypeOK'
  <2>1. CASE Alive(c) /\ inbox' = [inbox EXCEPT ![c] = Append(@, pc[c])]
             /\ wants' = [wants EXCEPT ![c] = pc[c]] /\ UNCHANGED <<programVars, broken, mishaps>>
    BY <1>9, <2>1 DEF TypeOK, Send
  <2>2. CASE /\ \E result : Return(c, result)
             /\ broken' \in {broken, [broken EXCEPT ![c] = TRUE]} /\ UNCHANGED <<inbox, wants>>
    <3>1. /\ pc' \in [Controllers -> Points] /\ phase' \in [Controllers -> Phases]
          /\ status' \in [Controllers -> Statuses]
          /\ turn' \in [Controllers -> 1 .. Turns] /\ kind' = kind
          /\ mishaps' \in [Controllers -> SUBSET Mishaps]
      BY <1>9, <2>2, ReturnTypes DEF Send
    <3>2. broken' \in [Controllers -> BOOLEAN]
      <4>1. broken \in [Controllers -> BOOLEAN]
        BY DEF TypeOK
      <4> QED
        BY <2>2, <4>1
    <3>3. UNCHANGED <<pidfile, seen, process, reader, mail, life, job, held, inbox, wants>>
      BY <1>9, <2>2 DEF Send
    <3> QED
      BY <3>1, <3>2, <3>3 DEF TypeOK, Phases, Statuses
  <2> QED
    BY <1>9, <2>1, <2>2 DEF Send
<1>10. ASSUME NEW c \in Controllers, NEW result, EndWait(c, result) PROVE TypeOK'
  <2>1. pc[c] \in Requests
    BY <1>10 DEF EndWait, WaitsInRequest
  <2> QED
    BY <1>10, <2>1, ReturnTypes DEF TypeOK, EndWait, Phases, Statuses
<1>11. ASSUME NEW c \in Controllers, Deadline(c) PROVE TypeOK'
  BY <1>11, ProgramTypes DEF TypeOK, Deadline, Phases, Statuses, Points
<1>12. ASSUME NEW c \in Controllers, Finally(c) PROVE TypeOK'
  BY <1>12, ProgramTypes DEF TypeOK, Finally, Phases, Statuses, Points, Requests
<1>13. ASSUME NEW c \in Controllers, Stop(c) PROVE TypeOK'
  BY <1>13, ProgramTypes DEF TypeOK, Stop, Phases, Statuses, Points, Requests
<1>14. ASSUME NEW c \in Controllers, Terminate(c) PROVE TypeOK'
  BY <1>14, ProgramTypes DEF TypeOK, Terminate, Phases, Statuses, Points, Waits
<1>15. ASSUME NEW c \in Controllers, NEW from, NEW late \in Points, WaitExit(c, from, late) PROVE TypeOK'
  BY <1>15, ProgramTypes DEF TypeOK, WaitExit, Phases, Statuses, Points
<1>16. ASSUME NEW c \in Controllers, KillWait(c) PROVE TypeOK'
  <2>1. Raise(c) \/ Continue(c, "close")
    BY <1>16 DEF KillWait
  <2>2. /\ pc' \in [Controllers -> Points] /\ phase' \in [Controllers -> Phases]
        /\ status' \in [Controllers -> Statuses]
    BY <2>1, ProgramTypes DEF Points
  <2>3. mishaps' \in [Controllers -> SUBSET Mishaps]
    <3>1. mishaps' \in {mishaps, [mishaps EXCEPT ![c] = @ \cup {"stuck"}]}
      BY <1>16 DEF KillWait
    <3>2. mishaps \in [Controllers -> SUBSET Mishaps] /\ "stuck" \in Mishaps
      BY DEF TypeOK, Mishaps
    <3>3. mishaps[c] \cup {"stuck"} \in SUBSET Mishaps
      BY <3>2
    <3> QED
      BY <3>1, <3>2, <3>3
  <2> QED
    BY <1>16, <2>2, <2>3 DEF TypeOK, KillWait, Phases, Statuses
<1>17. ASSUME NEW c \in Controllers, Close(c) PROVE TypeOK'
  <2>1. Raise(c) \/ Continue(c, "unlink")
    BY <1>17 DEF Close
  <2>2. /\ pc' \in [Controllers -> Points] /\ phase' \in [Controllers -> Phases]
        /\ status' \in [Controllers -> Statuses]
    BY <2>1, ProgramTypes DEF Points
  <2> QED
    BY <1>17, <2>2 DEF TypeOK, Close, Phases, Statuses
<1>18. ASSUME NEW c \in Controllers, Unlink(c) PROVE TypeOK'
  <2>1. status[c] \in Statuses
    BY DEF TypeOK, Statuses
  <2>2. /\ pc' \in [Controllers -> Points] /\ phase' \in [Controllers -> Phases]
        /\ status' \in [Controllers -> Statuses]
    BY <1>18, <2>1, ProgramTypes DEF Unlink
  <2> QED
    BY <1>18, <2>2 DEF TypeOK, Unlink, Phases, Statuses
<1>19. ASSUME NEW c \in Controllers, Record(c) PROVE TypeOK'
  <2>1. /\ pc' = [pc EXCEPT ![c] = "ended"] \/ pc' = [pc EXCEPT ![c] = "raised"]
        /\ mishaps' = mishaps \/ mishaps' = [mishaps EXCEPT ![c] = @ \cup {"disk"}]
    BY <1>19 DEF Record, Goto
  <2>2. pc \in [Controllers -> Points] /\ mishaps \in [Controllers -> SUBSET Mishaps]
    BY DEF TypeOK
  <2>3. "ended" \in Points /\ "raised" \in Points /\ "disk" \in Mishaps
    BY DEF Points, Over, Mishaps
  <2>4. pc' \in [Controllers -> Points]
    BY <2>1, <2>2, <2>3
  <2>5. mishaps' \in [Controllers -> SUBSET Mishaps]
    BY <2>1, <2>2, <2>3
  <2> QED
    BY <1>19, <2>4, <2>5 DEF TypeOK, Record
<1>20. ASSUME NEW c \in Controllers, Vanish(c) PROVE TypeOK'
  <2>1. /\ pc' \in [Controllers -> Points] /\ turn' \in [Controllers -> 1 .. Turns]
        /\ mishaps' \in [Controllers -> SUBSET Mishaps]
    BY <1>20, TurnsAssumption DEF TypeOK, Vanish, Goto, Points, Over
  <2> QED
    BY <1>20, <2>1 DEF TypeOK, Vanish
<1>21. ASSUME NEW c \in Controllers, Interrupt(c) PROVE TypeOK'
  <2>1. Raise(c) \/ Recover(c, "cancelled")
    BY <1>21 DEF Interrupt
  <2>2. /\ pc' \in [Controllers -> Points] /\ phase' \in [Controllers -> Phases]
        /\ status' \in [Controllers -> Statuses]
    BY <2>1, ProgramTypes DEF Statuses
  <2>3. mishaps' \in [Controllers -> SUBSET Mishaps]
    BY <1>21 DEF TypeOK, Interrupt, Mishaps
  <2>4. life' \in [Controllers -> {"unborn", "up", "leaving", "killed", "closing", "dead"}]
    <3>1. life' = life \/ life' = [life EXCEPT ![c] = "leaving"]
      BY <1>21 DEF Interrupt
    <3> QED
      BY <3>1 DEF TypeOK
  <2> QED
    BY <1>21, <2>2, <2>3, <2>4 DEF TypeOK, Interrupt, Phases, Statuses
<1>22. ASSUME NEW c \in Controllers, Serve(c) PROVE TypeOK'
  <2>1. /\ mail' \in [Controllers -> Replies \cup {"none"}]
        /\ inbox' = [inbox EXCEPT ![c] = Tail(@)] /\ inbox[c] # <<>>
        /\ life' = [life EXCEPT ![c] = "leaving"] \/ life' = life
        /\ held' \in {held, [held EXCEPT ![c] = FALSE]}
        /\ job' \in {job, [job EXCEPT ![c] = "load"], [job EXCEPT ![c] = "run"]}
        /\ UNCHANGED <<pidfile, programVars, clientVars, wants, mishaps>>
    BY <1>22, ServeTypes
  <2>2. Tail(inbox[c]) \in Seq(Requests)
    BY <2>1 DEF TypeOK
  <2>3. inbox' \in [Controllers -> Seq(Requests)]
    BY <2>1, <2>2 DEF TypeOK
  <2>4. life' \in [Controllers -> {"unborn", "up", "leaving", "killed", "closing", "dead"}]
    <3>1. life \in [Controllers -> {"unborn", "up", "leaving", "killed", "closing", "dead"}]
      BY DEF TypeOK
    <3> QED
      BY <2>1, <3>1
  <2>5. held \in [Controllers -> BOOLEAN] /\ (held' = held \/ held' = [held EXCEPT ![c] = FALSE])
    BY <2>1 DEF TypeOK
  <2>6. held' \in [Controllers -> BOOLEAN]
    BY <2>5 DEF TypeOK
  <2>7. job' \in [Controllers -> {"none", "load", "run"}]
    <3>1. \/ job' = job \/ job' = [job EXCEPT ![c] = "load"] \/ job' = [job EXCEPT ![c] = "run"]
      BY <2>1
    <3>2. job \in [Controllers -> {"none", "load", "run"}]
      BY DEF TypeOK
    <3> QED
      BY <3>1, <3>2
  <2> QED
    BY <2>1, <2>3, <2>4, <2>6, <2>7 DEF TypeOK
<1>23. ASSUME NEW c \in Controllers, EndTask(c) PROVE TypeOK'
  <2>1. PICK reply \in Replies, v \in BOOLEAN :
          Reply(c, job[c], reply) /\ held' = [held EXCEPT ![c] = v]
    <3>1. PICK reply \in Replies, kept \in {held[c], FALSE} :
            /\ Reply(c, job[c], reply)
            /\ held' = [held EXCEPT ![c] = CASE reply = "ok" -> TRUE [] reply = "hot" -> FALSE
                                             [] OTHER -> kept]
      BY <1>23 DEF EndTask, Replies
    <3>2. (CASE reply = "ok" -> TRUE [] reply = "hot" -> FALSE [] OTHER -> kept) \in BOOLEAN
      BY DEF TypeOK
    <3> QED
      BY <3>1, <3>2
  <2>2. mail' \in [Controllers -> Replies \cup {"none"}]
    BY <2>1, ReplyTypes
  <2>3. held \in [Controllers -> BOOLEAN]
    BY DEF TypeOK
  <2>4. held' \in [Controllers -> BOOLEAN]
    BY <2>1, <2>3
  <2> QED
    BY <1>23, <2>2, <2>4 DEF TypeOK, EndTask
<1>24. ASSUME NEW c \in Controllers, Leave(c) \/ BecomeWaitable(c) PROVE TypeOK'
  <2>1. /\ life' \in {[life EXCEPT ![c] = "leaving"], [life EXCEPT ![c] = "dead"]}
        /\ UNCHANGED <<pidfile, programVars, clientVars, callVars, inbox, job, held, mishaps>>
    BY <1>24 DEF Leave, BecomeWaitable
  <2>2. life \in [Controllers -> {"unborn", "up", "leaving", "killed", "closing", "dead"}]
    BY DEF TypeOK
  <2>3. life' \in [Controllers -> {"unborn", "up", "leaving", "killed", "closing", "dead"}]
    BY <2>1, <2>2
  <2> QED
    BY <2>1, <2>3 DEF TypeOK
<1>25. ASSUME NEW c \in Controllers, NEW how, GoDown(c, how) PROVE TypeOK'
  BY <1>25 DEF TypeOK, GoDown, Mishaps
<1>26. {"terminate", "kill_wait"} \subseteq Points
  BY DEF Points, Waits
<1> QED
  BY <1>1, <1>2, <1>3, <1>4, <1>5, <1>6, <1>7, <1>8, <1>9, <1>10, <1>11, <1>12, <1>13, <1>14,
     <1>15, <1>16, <1>17, <1>18, <1>19, <1>20, <1>21, <1>22, <1>23, <1>24, <1>25, <1>26
     DEF Next, CommandStep, WorkerStep, SystemStep, Receive, SeeCrash, Timeout, ExitWait, TermWait,
         ExitCommand, Kill

-----------------------------------------------------------------------------
(* Only these steps touch what a worker may come to hold. *)
LEMMA WorkerMemorySteps ==
  Next => \/ UNCHANGED <<inbox, job, held>>
          \/ \E c \in Controllers : Send(c) \/ Serve(c) \/ EndTask(c) \/ \E how : GoDown(c, how)
<1> SUFFICES ASSUME NEW c \in Controllers,
                    \/ Begin(c) \/ CommandStep(c) \/ Interrupt(c) \/ Kill(c)
                    \/ WorkerStep(c) \/ GoDown(c, "crash") \/ SystemStep(c),
                    ~Send(c), ~Serve(c), ~EndTask(c), ~\E how : GoDown(c, how)
             PROVE  UNCHANGED <<inbox, job, held>>
  BY DEF Next
<1> USE DEF workerVars
<1>1. CASE \/ Begin(c) \/ ReadPidfile(c) \/ Verify(c) \/ Discard(c) \/ Spawn(c) \/ Open(c) \/ Write(c)
  BY <1>1 DEF Begin, ReadPidfile, Verify, Discard, Spawn, Open, Write
<1>2. CASE \/ Receive(c) \/ SeeCrash(c) \/ Timeout(c)
  BY <1>2 DEF Receive, SeeCrash, Timeout, EndWait
<1>3. CASE \/ Deadline(c) \/ Finally(c) \/ Stop(c) \/ Terminate(c) \/ ExitWait(c) \/ TermWait(c)
  BY <1>3 DEF Deadline, Finally, Stop, Terminate, ExitWait, TermWait, WaitExit
<1>4. CASE \/ KillWait(c) \/ Close(c) \/ Unlink(c) \/ Record(c)
  BY <1>4 DEF KillWait, Close, Unlink, Record
<1>5. CASE \/ ExitCommand(c) \/ Kill(c) \/ Interrupt(c)
  BY <1>5 DEF ExitCommand, Kill, Vanish, Interrupt
<1>6. CASE \/ Leave(c) \/ BecomeWaitable(c)
  BY <1>6 DEF Leave, BecomeWaitable
<1> QED
  BY <1>1, <1>2, <1>3, <1>4, <1>5, <1>6 DEF CommandStep, WorkerStep, SystemStep

(* A worker becomes a danger only by the load line of its own command.     *)
LEMMA DangerStep ==
  ASSUME TypeOK, Next, NEW d \in Controllers, Danger(d)', ~Danger(d)
  PROVE  Send(d) /\ pc[d] = "load" /\ Alive(d) /\ UNCHANGED <<pidfile, pc, process, life>>
<1>1. CASE UNCHANGED <<inbox, job, held>>
  BY <1>1 DEF Danger
<1>2. ASSUME NEW c \in Controllers, Send(c)
      PROVE  Send(d) /\ pc[d] = "load" /\ Alive(d) /\ UNCHANGED <<pidfile, pc, process, life>>
  <2>1. job' = job /\ held' = held /\ UNCHANGED <<pidfile, process, life>>
    BY <1>2 DEF Send
  <2>2. CASE inbox' = inbox
    BY <2>1, <2>2 DEF Danger
  <2>3. CASE /\ Alive(c) /\ inbox' = [inbox EXCEPT ![c] = Append(@, pc[c])] /\ pc' = pc
    <3>1. inbox[c] \in Seq(Requests) /\ pc[c] \in Requests
      BY <1>2 DEF TypeOK, Send
    <3>2. c # d => inbox'[d] = inbox[d]
      BY <2>3 DEF TypeOK
    <3>3. c = d
      BY <2>1, <3>2 DEF Danger
    <3>4. inbox'[d] = Append(inbox[d], pc[d])
      BY <2>3, <3>3 DEF TypeOK
    <3>5. PICK i \in 1 .. Len(inbox'[d]) : inbox'[d][i] = "load"
      BY <2>1 DEF Danger
    <3>6. i = Len(inbox[d]) + 1 /\ pc[d] = "load"
      BY <3>1, <3>3, <3>4, <3>5 DEF Danger
    <3> QED
      BY <1>2, <2>1, <2>3, <3>3, <3>6
  <2> QED
    BY <1>2, <2>2, <2>3 DEF Send, programVars
<1>3. ASSUME NEW c \in Controllers, Serve(c) PROVE FALSE
  <2>1. /\ inbox' = [inbox EXCEPT ![c] = Tail(@)] /\ inbox[c] # <<>>
        /\ \/ job' = job /\ held' \in {held, [held EXCEPT ![c] = FALSE]}
           \/ /\ Head(inbox[c]) = "load" \/ held[c]
              /\ job' \in {[job EXCEPT ![c] = "load"], [job EXCEPT ![c] = "run"]} /\ held' = held
    BY <1>3, ServeTypes
  <2>2. inbox[c] \in Seq(Requests)
    BY DEF TypeOK
  <2>3. c = d
    <3> SUFFICES ASSUME c # d PROVE FALSE
      OBVIOUS
    <3>1. inbox'[d] = inbox[d] /\ job'[d] = job[d] /\ (held'[d] => held[d])
      BY <2>1 DEF TypeOK
    <3> QED
      BY <3>1 DEF Danger
  <2>4. ~held[d] /\ job[d] = "none" /\ inbox[d] # <<>> /\ Head(inbox[d]) # "load"
    BY <2>1, <2>2, <2>3 DEF Danger
  <2>5. job' = job /\ ~held'[d]
    BY <2>1, <2>3, <2>4 DEF TypeOK
  <2>6. PICK i \in 1 .. Len(inbox'[d]) : inbox'[d][i] = "load"
    BY <2>4, <2>5 DEF Danger
  <2>7. i + 1 \in 1 .. Len(inbox[d]) /\ inbox[d][i + 1] = "load"
    BY <2>1, <2>2, <2>3, <2>6 DEF TypeOK
  <2> QED
    BY <2>7 DEF Danger
<1>4. ASSUME NEW c \in Controllers, EndTask(c) PROVE FALSE
  <2>1. job[c] # "none" /\ job'[c] = "none" /\ inbox' = inbox
    BY <1>4 DEF EndTask, TypeOK
  <2>2. c # d
    BY <2>1 DEF Danger
  <2>3. job' = [job EXCEPT ![c] = "none"] /\ \E v : held' = [held EXCEPT ![c] = v]
    BY <1>4 DEF EndTask
  <2>4. job'[d] = job[d] /\ held'[d] = held[d]
    BY <2>2, <2>3 DEF TypeOK
  <2> QED
    BY <2>1, <2>4 DEF Danger
<1>5. ASSUME NEW c \in Controllers, NEW how, GoDown(c, how) PROVE FALSE
  <2>1. /\ inbox' = [inbox EXCEPT ![c] = <<>>] /\ job' = [job EXCEPT ![c] = "none"]
        /\ held' = [held EXCEPT ![c] = FALSE]
    BY <1>5 DEF GoDown
  <2>2. CASE c = d
    BY <2>1, <2>2 DEF Danger, TypeOK
  <2>3. CASE c # d
    BY <2>1, <2>3 DEF Danger, TypeOK
  <2> QED
    BY <2>2, <2>3
<1> QED
  BY <1>1, <1>2, <1>3, <1>4, <1>5, WorkerMemorySteps

-----------------------------------------------------------------------------
(* LifecycleInv, one command at a time. *)
Local(c) ==
  /\ pc[c] \in Early => life[c] = "unborn" /\ ~process[c]
  /\ wants[c] # "none" => pc[c] \in Requests
  /\ pc[c] \in Requests \cup Waits \cup {"open", "write", "terminate", "close", "unlink"} => process[c]
  /\ pc[c] \in {"close", "unlink"} => life[c] = "dead"
  /\ pc[c] # "gone" /\ ~process[c] => life[c] \in {"unborn", "dead"} /\ pidfile # c
  /\ pc[c] \in {"record", "ended"} => ~process[c]

LEMMA LocalIsLifecycle ==
  LifecycleInv <=> TypeOK /\ DownIsEmpty /\ \A c \in Controllers : Local(c)
  BY DEF LifecycleInv, EarlyIsUnborn, WaitsInRequest, HasProcess, ReleasedIsDead, WithoutProcess,
         RecordedIsReleased, Local

StepOf(c) ==
  \/ Begin(c) \/ CommandStep(c) \/ Interrupt(c) \/ Kill(c)
  \/ WorkerStep(c) \/ GoDown(c, "crash") \/ SystemStep(c)

(* What the steps of one command leave alone: every other command and its  *)
(* worker, and their names in the pid file.                                *)
Apart(c) ==
  /\ \A d \in Controllers \ {c} :
       pc'[d] = pc[d] /\ process'[d] = process[d] /\ wants'[d] = wants[d] /\ life'[d] = life[d]
       /\ seen'[d] = seen[d]
  /\ pidfile' \in {pidfile, None, "garbled", c}

(* Where a command goes when one of its requests returns or raises. *)
Returns == {"run", "finally", "cancel", "health", "terminate", "stop", "exit_wait", "raised"}

LEMMA ReturnMoves ==
  ASSUME TypeOK, NEW c \in Controllers, NEW result, pc[c] \in Requests, Return(c, result)
  PROVE  \E p \in Returns : pc' = [pc EXCEPT ![c] = p]
<1>1. ASSUME NEW o \in Statuses, Conclude(c, o) \/ Recover(c, o)
      PROVE  \E p \in Returns : pc' = [pc EXCEPT ![c] = p]
  BY <1>1 DEF Conclude, Recover, Goto, Returns
<1>2. ASSUME Raise(c) PROVE \E p \in Returns : pc' = [pc EXCEPT ![c] = p]
  <2>1. CASE phase[c] = "finally"
    BY <1>2, <2>1 DEF Raise, Goto, Returns
  <2>2. CASE phase[c] # "finally"
    BY <1>2, <2>2 DEF Raise, Goto, Returns
  <2> QED
    BY <2>1, <2>2
<1>3. ASSUME NEW p \in {"run", "health", "terminate", "stop", "exit_wait"}, Continue(c, p)
      PROVE  \E q \in Returns : pc' = [pc EXCEPT ![c] = q]
  BY <1>3 DEF Continue, Goto, Returns
<1> QED
  BY <1>1, <1>2, <1>3, ReturnCases

LEMMA StepsAreApart ==
  ASSUME TypeOK, WaitsInRequest, NEW c \in Controllers, StepOf(c)
  PROVE  Apart(c)
<1> USE DEF TypeOK, Apart, programVars, clientVars, callVars, workerVars, Goto, Continue, Conclude,
            Recover, Raise
<1>1. CASE Begin(c) \/ ReadPidfile(c) \/ Discard(c) \/ Record(c)
  BY <1>1 DEF Begin, ReadPidfile, Discard, Record
<1>2. CASE Verify(c)
  BY <1>2 DEF Verify
<1>3. CASE Spawn(c)
  BY <1>3 DEF Spawn
<1>4. CASE Open(c) \/ Write(c)
  BY <1>4 DEF Open, Write
<1>5. ASSUME NEW result, Return(c, result), pc[c] \in Requests
      PROVE  \A d \in Controllers \ {c} : pc'[d] = pc[d]
  BY <1>5, ReturnMoves
<1>6. CASE Send(c)
  BY <1>5, <1>6 DEF Send
<1>7. CASE Receive(c) \/ SeeCrash(c) \/ Timeout(c)
  BY <1>5, <1>7 DEF Receive, SeeCrash, Timeout, EndWait, WaitsInRequest
<1>8. CASE Deadline(c) \/ Finally(c) \/ Stop(c)
  BY <1>8 DEF Deadline, Finally, Stop
<1>9. CASE Terminate(c) \/ ExitWait(c) \/ TermWait(c) \/ KillWait(c)
  BY <1>9 DEF Terminate, ExitWait, TermWait, WaitExit, KillWait
<1>10. CASE Close(c) \/ Unlink(c)
  BY <1>10 DEF Close, Unlink
<1>11. CASE Interrupt(c)
  BY <1>11 DEF Interrupt
<1>12. CASE ExitCommand(c) \/ Kill(c)
  BY <1>12 DEF ExitCommand, Kill, Vanish
<1>13. CASE Serve(c)
  <2>1. /\ life' = [life EXCEPT ![c] = "leaving"] \/ life' = life
        /\ UNCHANGED <<pidfile, programVars, clientVars, wants, mishaps>>
    BY <1>13, ServeTypes
  <2> QED
    BY <2>1
<1>14. CASE EndTask(c)
  <2>1. UNCHANGED <<pidfile, programVars, clientVars, wants, life>>
    BY <1>14 DEF EndTask
  <2> QED
    BY <2>1
<1>15. CASE Leave(c) \/ BecomeWaitable(c)
  BY <1>15 DEF Leave, BecomeWaitable
<1>16. ASSUME NEW how, GoDown(c, how) PROVE Apart(c)
  BY <1>16 DEF GoDown
<1> QED
  BY <1>1, <1>2, <1>3, <1>4, <1>6, <1>7, <1>8, <1>9, <1>10, <1>11, <1>12, <1>13, <1>14,
     <1>15, <1>16 DEF StepOf, CommandStep, WorkerStep, SystemStep

(* A step keeps what is known of its own command and worker. *)
LEMMA LocalStep ==
  ASSUME TypeOK, NEW c \in Controllers, Local(c), StepOf(c)
  PROVE  Local(c)'
<1> USE DEF TypeOK, Local, Early, programVars, clientVars, callVars, workerVars, Goto, Continue,
            Conclude, Requests, Waits, Alive
<1>1. CASE Begin(c) \/ ReadPidfile(c) \/ Discard(c) \/ Record(c)
  BY <1>1, ControllersAssumption DEF Begin, ReadPidfile, Discard, Record
<1>2. CASE Verify(c)
  BY <1>2 DEF Verify
<1>3. CASE Spawn(c)
  BY <1>3 DEF Spawn
<1>4. CASE Open(c) \/ Write(c)
  BY <1>4, ControllersAssumption DEF Open, Write
<1>5. CASE Send(c)
  <2>1. CASE programVars' = programVars
    BY <1>5, <2>1 DEF Send
  <2>2. CASE UNCHANGED wants /\ \E result : Return(c, result)
    <3>1. PICK p \in Returns : pc' = [pc EXCEPT ![c] = p]
      BY <1>5, <2>2, ReturnMoves DEF Send
    <3> QED
      BY <1>5, <2>2, <3>1 DEF Send, Returns
  <2> QED
    BY <1>5, <2>1, <2>2 DEF Send
<1>6. ASSUME NEW result, EndWait(c, result) PROVE Local(c)'
  <2>1. pc[c] \in Requests /\ Return(c, result)
    BY <1>6 DEF EndWait
  <2>2. PICK p \in Returns : pc' = [pc EXCEPT ![c] = p]
    BY <2>1, ReturnMoves
  <2> QED
    BY <1>6, <2>1, <2>2 DEF EndWait, Returns
<1>7. CASE Receive(c) \/ SeeCrash(c) \/ Timeout(c)
  BY <1>6, <1>7 DEF Receive, SeeCrash, Timeout
<1>8. CASE Deadline(c) \/ Finally(c) \/ Stop(c)
  BY <1>8 DEF Deadline, Finally, Stop
<1>9. CASE Terminate(c) \/ ExitWait(c) \/ TermWait(c)
  BY <1>9 DEF Terminate, ExitWait, TermWait, WaitExit
<1>10. CASE KillWait(c) \/ Close(c)
  BY <1>10 DEF KillWait, Close, Raise
<1>11. CASE Unlink(c)
  BY <1>11, ControllersAssumption DEF Unlink
<1>12. CASE Interrupt(c)
  BY <1>12 DEF Interrupt, Raise, Recover
<1>13. CASE ExitCommand(c) \/ Kill(c)
  BY <1>13 DEF ExitCommand, Kill, Vanish
<1>14. CASE Serve(c)
  <2>1. /\ life[c] = "up" /\ (life' = [life EXCEPT ![c] = "leaving"] \/ life' = life)
        /\ UNCHANGED <<pidfile, pc, process, wants>>
    BY <1>14, ServeTypes
  <2> QED
    BY <2>1
<1>15. CASE EndTask(c)
  <2>1. UNCHANGED <<pidfile, pc, process, wants, life>>
    BY <1>15 DEF EndTask
  <2> QED
    BY <2>1
<1>16. CASE Leave(c) \/ BecomeWaitable(c)
  BY <1>16 DEF Leave, BecomeWaitable
<1>17. ASSUME NEW how, GoDown(c, how) PROVE Local(c)'
  BY <1>17 DEF GoDown
<1> QED
  BY <1>1, <1>2, <1>3, <1>4, <1>5, <1>7, <1>8, <1>9, <1>10, <1>11, <1>12, <1>13, <1>14, <1>15,
     <1>16, <1>17 DEF StepOf, CommandStep, WorkerStep, SystemStep

(* A life begins when its command spawns it and goes through its stages.   *)
LEMMA LifeSteps ==
  ASSUME TypeOK, NEW c \in Controllers, StepOf(c), Local(c)
  PROVE  \/ life' = life
         \/ /\ Alive(c) \/ pc[c] = "spawn"
            /\ \E l \in {"up", "leaving", "killed"} : life' = [life EXCEPT ![c] = l]
         \/ life[c] = "closing" /\ life' = [life EXCEPT ![c] = "dead"]
         \/ \E how : GoDown(c, how)
<1> USE DEF programVars, clientVars, callVars, workerVars
<1>1. CASE \/ Begin(c) \/ ReadPidfile(c) \/ Verify(c) \/ Discard(c) \/ Open(c) \/ Write(c) \/ Record(c)
  BY <1>1 DEF Begin, ReadPidfile, Verify, Discard, Open, Write, Record
<1>2. CASE Spawn(c)
  BY <1>2 DEF Spawn
<1>3. CASE Send(c) \/ Receive(c) \/ SeeCrash(c) \/ Timeout(c)
  BY <1>3 DEF Send, Receive, SeeCrash, Timeout, EndWait
<1>4. CASE Deadline(c) \/ Finally(c) \/ Stop(c) \/ ExitWait(c) \/ TermWait(c)
  BY <1>4 DEF Deadline, Finally, Stop, ExitWait, TermWait, WaitExit
<1>5. CASE Terminate(c)
  BY <1>5 DEF Terminate, TypeOK
<1>6. CASE KillWait(c) \/ Close(c) \/ Unlink(c)
  BY <1>6 DEF KillWait, Close, Unlink
<1>7. CASE ExitCommand(c) \/ Kill(c)
  BY <1>7 DEF ExitCommand, Kill, Vanish
<1>8. CASE Interrupt(c)
  BY <1>8 DEF Interrupt, Alive
<1>9. CASE Serve(c)
  BY <1>9, ServeTypes DEF Alive
<1>10. CASE EndTask(c)
  BY <1>10 DEF EndTask
<1>11. CASE Leave(c) \/ BecomeWaitable(c)
  BY <1>11 DEF Leave, BecomeWaitable, Alive
<1> QED
  BY <1>1, <1>2, <1>3, <1>4, <1>5, <1>6, <1>7, <1>8, <1>9, <1>10, <1>11
     DEF StepOf, CommandStep, WorkerStep, SystemStep

(* No step makes a worker that went down hold anything. *)
LEMMA DownIsEmptyStep ==
  ASSUME TypeOK, DownIsEmpty, NEW c \in Controllers, StepOf(c), Local(c)
  PROVE  DownIsEmpty'
<1> SUFFICES ASSUME NEW d \in Controllers, life'[d] \in {"unborn", "closing", "dead"}, Danger(d)'
             PROVE  FALSE
  BY DEF DownIsEmpty
<1>1. Next
  BY DEF Next, StepOf
<1>2. CASE ~Danger(d)
  BY <1>1, <1>2, DangerStep DEF Alive
<1>3. CASE Danger(d)
  <2>1. life[d] \notin {"unborn", "closing", "dead"}
    BY <1>3 DEF DownIsEmpty
  <2>2. PICK how : GoDown(c, how)
    <3>1. life'[d] \in {life[d], "up", "leaving", "killed"} \/ life[d] = "closing"
          \/ \E how : GoDown(c, how)
      <4>1. life \in [Controllers -> {"unborn", "up", "leaving", "killed", "closing", "dead"}]
        BY DEF TypeOK
      <4> QED
        BY <4>1, LifeSteps
    <3> QED
      BY <2>1, <3>1
  <2>3. life' = [life EXCEPT ![c] = "closing"] /\ inbox' = [inbox EXCEPT ![c] = <<>>]
        /\ job' = [job EXCEPT ![c] = "none"] /\ held' = [held EXCEPT ![c] = FALSE]
    BY <2>2 DEF GoDown
  <2>4. c = d
    BY <2>1, <2>3 DEF TypeOK
  <2> QED
    BY <2>3, <2>4 DEF Danger, TypeOK
<1> QED
  BY <1>2, <1>3

(* The invariant of one command and its worker is inductive. *)
LEMMA LifecycleStep == LifecycleInv /\ [Next]_vars => LifecycleInv'
<1> SUFFICES ASSUME LifecycleInv, [Next]_vars PROVE LifecycleInv'
  OBVIOUS
<1>1. TypeOK /\ WaitsInRequest /\ DownIsEmpty /\ \A c \in Controllers : Local(c)
  BY LocalIsLifecycle DEF LifecycleInv
<1>2. TypeOK'
  BY <1>1, TypeStep
<1>3. CASE UNCHANGED vars
  <2>1. UNCHANGED <<pidfile, pc, process, wants, life, inbox, job, held>>
    BY <1>3 DEF vars, programVars, clientVars, callVars, workerVars
  <2> QED
    BY <1>2, <2>1 DEF LifecycleInv, DownIsEmpty, Danger, EarlyIsUnborn, WaitsInRequest, HasProcess,
       ReleasedIsDead, WithoutProcess, RecordedIsReleased
<1>4. ASSUME NEW c \in Controllers, StepOf(c) PROVE LifecycleInv'
  <2>1. DownIsEmpty'
    BY <1>1, <1>4, DownIsEmptyStep
  <2>2. ASSUME NEW d \in Controllers PROVE Local(d)'
    <3>1. CASE d = c
      BY <1>1, <1>4, <3>1, LocalStep
    <3>2. CASE d # c
      <4>1. Local(d) /\ Apart(c)
        BY <1>1, <1>4, StepsAreApart
      <4>2. /\ pc'[d] = pc[d] /\ process'[d] = process[d] /\ wants'[d] = wants[d] /\ life'[d] = life[d]
            /\ pidfile' \in {pidfile, None, "garbled", c}
        BY <3>2, <4>1 DEF Apart
      <4> QED
        BY <3>2, <4>1, <4>2, ControllersAssumption DEF Local
    <3> QED
      BY <3>1, <3>2
  <2> QED
    BY <1>2, <2>1, <2>2 DEF LifecycleInv, EarlyIsUnborn, WaitsInRequest, HasProcess,
       ReleasedIsDead, WithoutProcess, RecordedIsReleased, Local
<1> QED
  BY <1>3, <1>4 DEF Next, StepOf

-----------------------------------------------------------------------------
(* PidfileInv. *)
Starting == {"verify", "discard", "spawn", "open", "write", "load"}

(* Beside the steps of start() and the unlink of stop(), no step writes    *)
(* the pid file, enters start() or gives a command a process.              *)
LEMMA StartSteps ==
  ASSUME TypeOK, NEW c \in Controllers, Local(c), StepOf(c)
  PROVE  \/ Begin(c) \/ ReadPidfile(c) \/ Verify(c) \/ Discard(c) \/ Spawn(c) \/ Open(c) \/ Write(c)
         \/ Unlink(c)
         \/ UNCHANGED <<pidfile, seen, pc, process>>
         \/ Begun(c) /\ pidfile' = pidfile /\ pc'[c] \notin Starting /\ (process'[c] => process[c])
<1> USE DEF TypeOK, programVars, clientVars, callVars, workerVars, Goto, Continue,
            Conclude, Requests, Waits, Begun, Starting
<1>1. ASSUME NEW result, Return(c, result), pc[c] \in Requests
      PROVE  Begun(c) /\ (pc'[c] \notin Starting)
  <2>1. PICK p \in Returns : pc' = [pc EXCEPT ![c] = p]
    BY <1>1, ReturnMoves
  <2> QED
    BY <1>1, <2>1 DEF Returns
<1>2. CASE Send(c)
  BY <1>1, <1>2 DEF Send
<1>3. ASSUME NEW result, EndWait(c, result)
      PROVE  Begun(c) /\ pidfile' = pidfile /\ pc'[c] \notin Starting /\ process' = process
  BY <1>1, <1>3 DEF EndWait, Local
<1>4. CASE Receive(c) \/ SeeCrash(c) \/ Timeout(c)
  BY <1>3, <1>4 DEF Receive, SeeCrash, Timeout
<1>5. CASE Deadline(c) \/ Finally(c) \/ Stop(c) \/ Record(c)
  BY <1>5 DEF Deadline, Finally, Stop, Record
<1>6. CASE Terminate(c) \/ ExitWait(c) \/ TermWait(c)
  BY <1>6 DEF Terminate, ExitWait, TermWait, WaitExit
<1>7. CASE KillWait(c) \/ Close(c)
  BY <1>7 DEF KillWait, Close, Raise
<1>8. CASE Interrupt(c)
  BY <1>8 DEF Interrupt, Raise, Recover, Local
<1>9. CASE ExitCommand(c) \/ Kill(c)
  BY <1>9 DEF ExitCommand, Kill, Vanish
<1>10. CASE Serve(c)
  <2>1. UNCHANGED <<pidfile, programVars, clientVars>>
    BY <1>10, ServeTypes
  <2> QED
    BY <2>1
<1>11. CASE EndTask(c) \/ Leave(c) \/ BecomeWaitable(c)
  BY <1>11 DEF EndTask, Leave, BecomeWaitable
<1>12. ASSUME NEW how, GoDown(c, how) PROVE UNCHANGED <<pidfile, seen, pc, process>>
  BY <1>12 DEF GoDown
<1> QED
  BY <1>2, <1>4, <1>5, <1>6, <1>7, <1>8, <1>9, <1>10, <1>11, <1>12
     DEF StepOf, CommandStep, WorkerStep, SystemStep

(* While a command runs, no other one takes more than its worker's steps.  *)
LEMMA OneCommandStep ==
  ASSUME LifecycleInv, PidfileInv, "concurrent" \notin Faults, NEW c \in Controllers, StepOf(c)
  PROVE  OneCommand'
<1>1. Local(c) /\ TypeOK /\ WaitsInRequest /\ OneCommand
  BY LocalIsLifecycle DEF LifecycleInv, PidfileInv
<1>2. Apart(c)
  BY <1>1, StepsAreApart
<1>3. CASE Begin(c)
  BY <1>1, <1>2, <1>3 DEF Begin, OneCommand, Begun, Apart
<1>4. CASE ~Begin(c)
  <2>1. Begun(c)' => Begun(c)
    BY <1>1, <1>4, StartSteps DEF Begun, ReadPidfile, Verify, Discard, Spawn, Open, Write, Unlink
  <2> QED
    BY <1>1, <1>2, <2>1 DEF OneCommand, Begun, Apart
<1> QED
  BY <1>3, <1>4

(* The name of a dangerous worker stays in the pid file. *)
LEMMA DangerIsNamedStep ==
  ASSUME LifecycleInv, PidfileInv, NEW c \in Controllers, StepOf(c)
  PROVE  DangerIsNamed'
<1> SUFFICES ASSUME NEW d \in Controllers, Danger(d)' PROVE pidfile' = d
  BY DEF DangerIsNamed
<1>1. Local(c) /\ TypeOK /\ Next /\ DownIsEmpty
  BY LocalIsLifecycle DEF LifecycleInv, Next, StepOf
<1>2. CASE ~Danger(d)
  BY <1>1, <1>2, DangerStep DEF PidfileInv, StartKnows
<1>3. CASE Danger(d)
  <2>1. pidfile = d /\ life[d] \notin {"unborn", "closing", "dead"} /\ Alive(d)
    BY <1>1, <1>3 DEF PidfileInv, DangerIsNamed, DownIsEmpty, TypeOK, Alive
  <2>2. ~Discard(c) /\ ~Open(c) /\ ~Write(c)
    BY <2>1, ControllersAssumption DEF PidfileInv, StartKnows, Discard, Open, Write
  <2>3. ASSUME Unlink(c) PROVE FALSE
    <3>1. process[c] /\ life[c] = "dead" /\ Begun(c)
      BY <1>1, <2>3 DEF Unlink, Local, Begun
    <3>2. d # c
      BY <2>1, <3>1
    <3> QED
      BY <1>3, <3>1, <3>2 DEF PidfileInv, OthersAreSafe
  <2>4. pidfile' = pidfile
    BY <1>1, <2>2, <2>3, StartSteps DEF Begin, ReadPidfile, Verify, Spawn, workerVars
  <2> QED
    BY <2>1, <2>4
<1> QED
  BY <1>2, <1>3

(* A command starts its worker only when no other is a danger. *)
LEMMA OthersAreSafeStep ==
  ASSUME LifecycleInv, PidfileInv, "concurrent" \notin Faults, NEW c \in Controllers, StepOf(c)
  PROVE  OthersAreSafe'
<1> SUFFICES ASSUME NEW e \in Controllers, NEW d \in Controllers, Begun(e)', process'[e], d # e,
                    Danger(d)'
             PROVE  FALSE
  BY DEF OthersAreSafe
<1>1. Local(c) /\ TypeOK /\ WaitsInRequest /\ Next /\ Local(e)
  BY LocalIsLifecycle DEF LifecycleInv, Next, StepOf
<1>2. Apart(c)
  BY <1>1, StepsAreApart
<1>3. CASE ~Danger(d)
  <2>1. pc'[d] = "load"
    BY <1>1, <1>3, DangerStep
  <2>2. Begun(d)'
    BY <2>1 DEF Begun
  <2> QED
    BY <2>2, OneCommandStep DEF OneCommand
<1>4. CASE Danger(d)
  <2>1. pidfile = d /\ ~(Begun(e) /\ process[e])
    BY <1>4 DEF PidfileInv, DangerIsNamed, OthersAreSafe
  <2>2. ~Spawn(c)
    BY <2>1, ControllersAssumption DEF PidfileInv, StartKnows, Spawn
  <2>3. CASE e # c
    BY <1>2, <2>1, <2>3 DEF Apart, Begun
  <2>4. CASE e = c
    BY <1>1, <2>1, <2>2, <2>4, StartSteps
       DEF Begun, Begin, ReadPidfile, Verify, Discard, Open, Write, Unlink, Local, Early, TypeOK,
           Goto, Conclude, Continue, clientVars, Requests
  <2> QED
    BY <2>3, <2>4
<1> QED
  BY <1>3, <1>4

(* What start() learned of the pid file holds until it is used. *)
LEMMA StartKnowsStep ==
  ASSUME LifecycleInv, PidfileInv, "concurrent" \notin Faults, NEW c \in Controllers, StepOf(c)
  PROVE  StartKnows'
<1> DEFINE Knows(d) ==
      /\ pc[d] = "verify" => seen[d] = pidfile /\ pidfile \in Controllers
      /\ pc[d] = "discard" /\ pidfile \in Controllers => ~Alive(pidfile)
      /\ pc[d] \in {"spawn", "open"} => pidfile = None
      /\ pc[d] = "write" => pidfile = "garbled"
      /\ pc[d] = "load" => pidfile = d
<1> SUFFICES ASSUME NEW d \in Controllers, pc'[d] \in Starting PROVE Knows(d)'
  BY DEF StartKnows, Starting
<1>1. Local(c) /\ TypeOK /\ WaitsInRequest /\ OneCommand /\ Knows(d)
  BY LocalIsLifecycle DEF LifecycleInv, PidfileInv, StartKnows
<1>2. Apart(c)
  BY <1>1, StepsAreApart
<1>3. ASSUME NEW x \in Controllers, Alive(x)' PROVE Alive(x) \/ (x = c /\ pc[c] = "spawn")
  <2>1. ASSUME NEW how, GoDown(c, how) PROVE life' = [life EXCEPT ![c] = "closing"]
    BY <2>1 DEF GoDown
  <2>2. \/ life' = life
        \/ (Alive(c) \/ pc[c] = "spawn") /\ \E l : life' = [life EXCEPT ![c] = l]
        \/ life' = [life EXCEPT ![c] = "dead"]
        \/ life' = [life EXCEPT ![c] = "closing"]
    BY <1>1, <2>1, LifeSteps
  <2> QED
    BY <1>1, <1>3, <2>2 DEF Alive, TypeOK
<1>4. CASE d # c
  <2>1. pc'[d] = pc[d] /\ seen'[d] = seen[d] /\ Begun(d)
    BY <1>2, <1>4 DEF Apart, Begun, Starting
  <2>2. ~Begun(c) /\ ~Begin(c)
    BY <1>1, <1>4, <2>1 DEF OneCommand, Begin, Begun
  <2>3. pidfile' = pidfile
    BY <1>1, <2>2, StartSteps DEF Begun, ReadPidfile, Verify, Discard, Spawn, Open, Write, Unlink
  <2>4. pc[c] # "spawn"
    BY <2>2 DEF Begun
  <2> QED
    BY <1>1, <1>3, <2>1, <2>3, <2>4
<1>5. CASE d = c
  <2>1. CASE UNCHANGED <<pidfile, seen, pc, process>>
    BY <1>1, <1>3, <1>5, <2>1
  <2>2. CASE Begin(c) \/ Unlink(c)
    BY <1>1, <1>5, <2>2 DEF Begin, Unlink, Conclude, Goto, TypeOK, Starting
  <2>3. CASE ReadPidfile(c)
    <3>1. pidfile' = pidfile /\ seen'[c] = IF pidfile \in Controllers THEN pidfile ELSE None
      BY <1>1, <2>3 DEF ReadPidfile, TypeOK
    <3>2. pc'[c] = IF pidfile \in Controllers THEN "verify" ELSE "discard"
      BY <1>1, <2>3 DEF ReadPidfile, Goto, TypeOK
    <3> QED
      BY <1>5, <3>1, <3>2
  <2>4. CASE Verify(c)
    <3>1. pc'[c] = "discard" /\ ~Alive(seen[c]) /\ pidfile' = pidfile /\ pc[c] = "verify"
      BY <1>1, <1>5, <2>4 DEF Verify, Conclude, Continue, Goto, TypeOK, Starting
    <3> QED
      BY <1>1, <1>3, <1>5, <3>1
  <2>5. CASE Discard(c)
    BY <1>1, <1>5, <2>5 DEF Discard, Goto, TypeOK
  <2>6. CASE Spawn(c)
    <3>1. pc'[c] = "open" /\ pidfile' = pidfile /\ pc[c] = "spawn"
      BY <1>1, <1>5, <2>6 DEF Spawn, Conclude, Continue, Goto, TypeOK, Starting
    <3> QED
      BY <1>1, <1>5, <3>1
  <2>7. CASE Open(c)
    BY <1>1, <1>5, <2>7 DEF Open, Conclude, Continue, Goto, TypeOK, Starting
  <2>8. CASE Write(c)
    BY <1>1, <1>5, <2>8 DEF Write, Conclude, Continue, Goto, TypeOK, Starting
  <2> QED
    BY <1>1, <1>5, <2>1, <2>2, <2>3, <2>4, <2>5, <2>6, <2>7, <2>8, StartSteps
<1> QED
  BY <1>4, <1>5

(* With one command at a time, the invariant of the pid file is inductive. *)
LEMMA PidfileStep ==
  ASSUME "concurrent" \notin Faults, LifecycleInv, PidfileInv, [Next]_vars
  PROVE  PidfileInv'
<1>1. CASE UNCHANGED vars
  BY <1>1 DEF vars, programVars, clientVars, callVars, workerVars, PidfileInv, OneCommand,
     DangerIsNamed, OthersAreSafe, StartKnows, Danger, Begun, Alive
<1>2. ASSUME NEW c \in Controllers, StepOf(c) PROVE PidfileInv'
  BY <1>2, OneCommandStep, DangerIsNamedStep, OthersAreSafeStep, StartKnowsStep DEF PidfileInv
<1> QED
  BY <1>1, <1>2 DEF Next, StepOf

-----------------------------------------------------------------------------
LEMMA InitInv == Init => LifecycleInv /\ PidfileInv
<1> SUFFICES ASSUME Init PROVE LifecycleInv /\ PidfileInv
  OBVIOUS
<1>1. TypeOK
  BY TurnsAssumption DEF Init, TypeOK, Points
<1>2. \A c \in Controllers : ~Danger(c)
  <2>1. ASSUME NEW c \in Controllers PROVE inbox[c] = <<>> /\ job[c] = "none" /\ ~held[c]
    BY DEF Init
  <2>2. ASSUME NEW c \in Controllers PROVE ~\E i \in 1 .. Len(inbox[c]) : inbox[c][i] = "load"
    BY <2>1
  <2> QED
    BY <2>1, <2>2 DEF Danger
<1>3. DownIsEmpty /\ EarlyIsUnborn /\ WaitsInRequest /\ HasProcess /\ ReleasedIsDead /\ RecordedIsReleased
  BY <1>2 DEF Init, DownIsEmpty, EarlyIsUnborn, WaitsInRequest, HasProcess, ReleasedIsDead,
     RecordedIsReleased, Requests, Waits
<1>4. WithoutProcess
  BY ControllersAssumption DEF Init, WithoutProcess
<1>5. OneCommand /\ DangerIsNamed /\ OthersAreSafe /\ StartKnows
  BY <1>2 DEF Init, OneCommand, DangerIsNamed, OthersAreSafe, StartKnows, Begun
<1> QED
  BY <1>1, <1>3, <1>4, <1>5 DEF LifecycleInv, PidfileInv

THEOREM LifecycleHolds == Spec => []LifecycleInv
<1>1. Init => LifecycleInv
  BY InitInv
<1>2. LifecycleInv /\ [Next]_vars => LifecycleInv'
  BY LifecycleStep
<1> QED
  BY <1>1, <1>2, PTL DEF Spec

(* The variables of the commands and their workers keep their types. *)
THEOREM CommandsTypeCorrect == Spec => []TypeOK
<1>1. LifecycleInv => TypeOK
  BY DEF LifecycleInv
<1> QED
  BY <1>1, LifecycleHolds, PTL

(* Under every fault a command that ended in order leaves neither a worker *)
(* nor a pid file that names it: stop() and terminate() clean up only when *)
(* the process is dead (cli.py, the finally clause).                       *)
THEOREM NothingLeft == Spec => []NoWorkerLeft
<1>1. LifecycleInv => NoWorkerLeft
  BY DEF LifecycleInv, RecordedIsReleased, WithoutProcess, NoWorkerLeft
<1> QED
  BY <1>1, LifecycleHolds, PTL

LEMMA PidfileHolds == ASSUME "concurrent" \notin Faults PROVE Spec => [](LifecycleInv /\ PidfileInv)
<1>1. Init => LifecycleInv /\ PidfileInv
  BY InitInv
<1>2. LifecycleInv /\ PidfileInv /\ [Next]_vars => (LifecycleInv /\ PidfileInv)'
  BY LifecycleStep, PidfileStep
<1> QED
  BY <1>1, <1>2, PTL DEF Spec

(* A worker that holds or loads a model is the one the pid file names, as  *)
(* long as commands follow each other, also over controllers that were     *)
(* killed between any two steps of start() and stop().                     *)
THEOREM Named == ASSUME "concurrent" \notin Faults PROVE Spec => []ModelIsNamed
<1>1. PidfileInv => ModelIsNamed
  BY DEF PidfileInv, DangerIsNamed, Danger, ModelIsNamed, MayHoldModel
<1> QED
  BY <1>1, PidfileHolds, PTL

(* So no two workers of a records directory hold or load a model.          *)
THEOREM OneModelInDirectory == ASSUME "concurrent" \notin Faults PROVE Spec => []OneModelPerDirectory
<1>1. ModelIsNamed => OneModelPerDirectory
  BY DEF ModelIsNamed, OneModelPerDirectory
<1> QED
  BY <1>1, Named, PTL
=============================================================================
