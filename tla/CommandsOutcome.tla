-------------------------- MODULE CommandsOutcome ---------------------------
(***************************************************************************)
(* How a command comes out, proved for every set of commands and faults:   *)
(* what costs it its record, and what a trajectory recorded as completed   *)
(* has run on.                                                             *)
(***************************************************************************)
EXTENDS CommandsProofs

(* Queues of lines. *)
LEMMA Lines ==
  /\ \A x : Append(<<>>, x) = <<x>> /\ Tail(<<x>>) = <<>> /\ Head(<<x>>) = x /\ <<x>> # <<>>
  /\ \A s \in Seq(Requests) : s # <<>> =>
       /\ Tail(s) \in Seq(Requests) /\ Head(s) = s[1] /\ 1 \in 1 .. Len(s)
       /\ Len(Tail(s)) = Len(s) - 1 /\ (Len(s) = 1 => Tail(s) = <<>>)
       /\ \A i \in 1 .. Len(Tail(s)) : Tail(s)[i] = s[i + 1] /\ i + 1 \in 1 .. Len(s)
  /\ \A s \in Seq(Requests), x \in Requests :
       /\ Append(s, x) \in Seq(Requests) /\ Len(Append(s, x)) = Len(s) + 1
       /\ \A i \in 1 .. Len(Append(s, x)) :
            IF i = Len(s) + 1 THEN Append(s, x)[i] = x
                              ELSE i \in 1 .. Len(s) /\ Append(s, x)[i] = s[i]
<1>1. \A x : Append(<<>>, x) = <<x>> /\ Tail(<<x>>) = <<>> /\ Head(<<x>>) = x /\ <<x>> # <<>>
  OBVIOUS
<1>2. ASSUME NEW s \in Seq(Requests), s # <<>>
      PROVE  /\ Tail(s) \in Seq(Requests) /\ Head(s) = s[1] /\ 1 \in 1 .. Len(s)
             /\ Len(Tail(s)) = Len(s) - 1 /\ (Len(s) = 1 => Tail(s) = <<>>)
             /\ \A i \in 1 .. Len(Tail(s)) : Tail(s)[i] = s[i + 1] /\ i + 1 \in 1 .. Len(s)
  BY <1>2
<1>3. ASSUME NEW s \in Seq(Requests), NEW x \in Requests
      PROVE  /\ Append(s, x) \in Seq(Requests) /\ Len(Append(s, x)) = Len(s) + 1
             /\ \A i \in 1 .. Len(Append(s, x)) :
                  IF i = Len(s) + 1 THEN Append(s, x)[i] = x
                                    ELSE i \in 1 .. Len(s) /\ Append(s, x)[i] = s[i]
  OBVIOUS
<1> QED
  BY <1>1, <1>2, <1>3

(* What is true of one command and its worker. *)
Comes(c) ==
  /\ life[c] \in {"unborn", "closing", "dead"} => inbox[c] = <<>>
  /\ wants[c] \in {"none", pc[c]} /\ (wants[c] = "none" => mail[c] = "none")
  /\ TurnInOrder(c)
  /\ Undisturbed(c) => StopInOrder(c)

LEMMA ComesIsOutcome == OutcomeInv <=> TryInOrder /\ \A c \in Controllers : Comes(c)
  BY DEF OutcomeInv, DownInbox, MailInOrder, TurnsInOrder, StopsInOrder, Comes

(* All that these invariants look at. *)
Alone(d) ==
  /\ pc'[d] = pc[d] /\ status'[d] = status[d] /\ process'[d] = process[d]
  /\ reader'[d] = reader[d] /\ broken'[d] = broken[d] /\ wants'[d] = wants[d] /\ mail'[d] = mail[d]
  /\ life'[d] = life[d] /\ inbox'[d] = inbox[d] /\ job'[d] = job[d] /\ held'[d] = held[d]
  /\ mishaps'[d] = mishaps[d]

LEMMA AloneComes == ASSUME NEW d, Alone(d), Comes(d) PROVE Comes(d)'
  BY DEF Alone, Comes, TurnInOrder, StopInOrder, Undisturbed, Unloaded

(* A request that returns, as seen from another command. *)
LEMMA ReturnAlone ==
  ASSUME TypeOK, NEW c \in Controllers, NEW result, pc[c] \in Requests, Return(c, result),
         NEW d \in Controllers \ {c}
  PROVE  pc'[d] = pc[d] /\ status'[d] = status[d] /\ mishaps'[d] = mishaps[d]
<1> USE DEF TypeOK
<1>1. mishaps'[d] = mishaps[d]
  BY DEF Return
<1>2. ASSUME NEW o \in Statuses, Conclude(c, o) \/ Recover(c, o)
      PROVE  pc'[d] = pc[d] /\ status'[d] = status[d]
  BY <1>2 DEF Conclude, Recover, Goto
<1>3. ASSUME Raise(c)
      PROVE  pc'[d] = pc[d] /\ status'[d] = status[d]
  BY <1>3 DEF Raise, Goto
<1>4. ASSUME NEW p, Continue(c, p)
      PROVE  pc'[d] = pc[d] /\ status'[d] = status[d]
  BY <1>4 DEF Continue, Goto
<1> QED
  BY <1>1, <1>2, <1>3, <1>4, ReturnCases

LEMMA OthersAlone ==
  ASSUME TypeOK, WaitsInRequest, NEW c \in Controllers, StepOf(c), NEW d \in Controllers \ {c}
  PROVE  Alone(d)
<1> USE DEF TypeOK, Alone, programVars, clientVars, callVars, workerVars, Goto, Continue, Conclude,
            Recover, Raise
<1>1. CASE Begin(c) \/ ReadPidfile(c) \/ Discard(c) \/ Record(c)
  BY <1>1 DEF Begin, ReadPidfile, Discard, Record
<1>2. CASE Verify(c)
  BY <1>2 DEF Verify
<1>3. CASE Spawn(c)
  BY <1>3 DEF Spawn
<1>4. CASE Open(c) \/ Write(c)
  BY <1>4 DEF Open, Write
<1>5. CASE Send(c)
  <2>1. pc'[d] = pc[d] /\ status'[d] = status[d] /\ mishaps'[d] = mishaps[d]
    BY <1>5, ReturnAlone DEF Send
  <2> QED
    BY <1>5, <2>1 DEF Send
<1>6. CASE Receive(c) \/ SeeCrash(c) \/ Timeout(c)
  <2>1. PICK result : EndWait(c, result)
    BY <1>6 DEF Receive, SeeCrash, Timeout
  <2>2. pc'[d] = pc[d] /\ status'[d] = status[d] /\ mishaps'[d] = mishaps[d]
    BY <2>1, ReturnAlone DEF EndWait, WaitsInRequest
  <2> QED
    BY <2>1, <2>2 DEF EndWait
<1>7. CASE Deadline(c) \/ Finally(c) \/ Stop(c)
  BY <1>7 DEF Deadline, Finally, Stop
<1>8. CASE Terminate(c) \/ ExitWait(c) \/ TermWait(c) \/ KillWait(c)
  BY <1>8 DEF Terminate, ExitWait, TermWait, WaitExit, KillWait
<1>9. CASE Close(c) \/ Unlink(c)
  BY <1>9 DEF Close, Unlink
<1>10. CASE Interrupt(c)
  BY <1>10 DEF Interrupt
<1>11. CASE ExitCommand(c) \/ Kill(c)
  BY <1>11 DEF ExitCommand, Kill, Vanish
<1>12. CASE Serve(c)
  <2>1. UNCHANGED <<programVars, clientVars, wants, mishaps>>
    BY <1>12, ServeTypes
  <2>2. /\ life' = [life EXCEPT ![c] = "leaving"] \/ life' = life
        /\ \/ job' = job
           \/ job' \in {[job EXCEPT ![c] = "load"], [job EXCEPT ![c] = "run"]}
        /\ held' \in {held, [held EXCEPT ![c] = FALSE]}
        /\ inbox' = [inbox EXCEPT ![c] = Tail(@)]
    BY <1>12, ServeTypes
  <2>3. mail'[d] = mail[d]
    BY <1>12 DEF Serve, Respond, Reply
  <2>4. life'[d] = life[d] /\ inbox'[d] = inbox[d] /\ job'[d] = job[d] /\ held'[d] = held[d]
    BY <2>2
  <2> QED
    BY <2>1, <2>3, <2>4
<1>13. CASE EndTask(c)
  BY <1>13 DEF EndTask, Reply
<1>14. CASE Leave(c) \/ BecomeWaitable(c)
  BY <1>14 DEF Leave, BecomeWaitable
<1>15. ASSUME NEW how, GoDown(c, how) PROVE Alone(d)
  BY <1>15 DEF GoDown
<1> QED
  BY <1>1, <1>2, <1>3, <1>4, <1>5, <1>6, <1>7, <1>8, <1>9, <1>10, <1>11, <1>12, <1>13, <1>14, <1>15
     DEF StepOf, CommandStep, WorkerStep, SystemStep

-----------------------------------------------------------------------------
(* The worker's steps.                                                     *)

(* One line handled: it starts a task, or is answered. *)
LEMMA ServeFacts ==
  ASSUME TypeOK, NEW c \in Controllers, Serve(c)
  PROVE  LET r == Head(inbox[c])
         IN  /\ life[c] = "up" /\ inbox[c] # <<>> /\ inbox'[c] = Tail(inbox[c])
             /\ UNCHANGED <<pc, status, process, reader, broken, wants, mishaps>>
             /\ \/ /\ r \in {"load", "run"} /\ MayStart(c, r) /\ job'[c] = r
                   /\ mail'[c] = mail[c] /\ life'[c] = life[c] /\ held'[c] = held[c]
                \/ /\ r \notin {"unload", "ask_stop"} /\ job'[c] = job[c] /\ held'[c] = held[c]
                   /\ life'[c] = life[c] \/ Eof(c)
                   /\ \/ mail'[c] = mail[c]
                      \/ wants[c] = r /\ r \in {"load", "run"} /\ mail'[c] = "error"
                      \/ wants[c] = r /\ r \notin {"load", "run"}
                \/ /\ r \in {"unload", "ask_stop"} /\ job'[c] = job[c] /\ (held'[c] => held[c])
                   /\ life'[c] = life[c] \/ Eof(c) \/ r = "ask_stop"
                   /\ \E reply \in Replies :
                        /\ mail'[c] = IF wants[c] = r /\ reader[c] THEN reply ELSE mail[c]
                        /\ reply = "ok" => job[c] = "none" /\ ~held'[c]
                        /\ job[c] = "none" /\ ~held[c] => reply = "ok"
<1> DEFINE r == Head(inbox[c])
<1>1. /\ life[c] = "up" /\ inbox[c] # <<>> /\ inbox'[c] = Tail(inbox[c])
      /\ UNCHANGED <<pc, status, process, reader, broken, wants, mishaps>>
  BY ServeTypes DEF TypeOK, programVars, clientVars
<1>2. ASSUME NEW reply \in Replies, NEW q, NEW stopping \in BOOLEAN, Respond(c, q, reply, stopping)
      PROVE  /\ mail'[c] = IF wants[c] = q /\ reader[c] THEN reply ELSE mail[c]
             /\ life'[c] = life[c] \/ Eof(c) \/ stopping
  BY <1>2 DEF Respond, Reply, TypeOK
<1>3. CASE /\ r \in {"load", "run"} /\ MayStart(c, r) /\ job' = [job EXCEPT ![c] = r]
           /\ UNCHANGED <<mail, life, held>>
  BY <1>1, <1>3 DEF TypeOK
<1>4. CASE r \in {"load", "run"} /\ Respond(c, r, "error", FALSE) /\ UNCHANGED <<job, held>>
  BY <1>1, <1>2, <1>4 DEF Replies
<1>5. CASE r = "run" /\ Respond(c, "invalid", "error", FALSE) /\ UNCHANGED <<job, held>>
  <2>1. wants[c] # "invalid"
    BY DEF TypeOK, Requests
  <2> QED
    BY <1>1, <1>2, <1>5, <2>1 DEF Replies
<1>6. CASE /\ r \in {"cancel", "health"} /\ UNCHANGED <<job, held>>
           /\ \E reply \in Replies : Respond(c, r, reply, FALSE)
  BY <1>1, <1>2, <1>6
<1>7. CASE /\ r \in {"unload", "ask_stop"} /\ job[c] # "none" /\ Respond(c, r, "error", FALSE)
           /\ UNCHANGED <<job, held>>
  BY <1>1, <1>2, <1>7 DEF Replies
<1>8. CASE /\ r \in {"unload", "ask_stop"} /\ job[c] = "none" /\ UNCHANGED job
           /\ held' = [held EXCEPT ![c] = FALSE]
           /\ \E reply \in {"ok"} \cup (IF held[c] THEN {"error"} ELSE {}) :
                Respond(c, r, reply, r = "ask_stop")
  <2>1. PICK reply \in {"ok"} \cup (IF held[c] THEN {"error"} ELSE {}) :
               Respond(c, r, reply, r = "ask_stop")
    BY <1>8
  <2>2. reply \in Replies /\ (~held[c] => reply = "ok") /\ ~held'[c]
    BY <1>8 DEF Replies, TypeOK
  <2>3. /\ mail'[c] = IF wants[c] = r /\ reader[c] THEN reply ELSE mail[c]
        /\ life'[c] = life[c] \/ Eof(c) \/ r = "ask_stop"
    BY <1>2, <2>1, <2>2
  <2> QED
    BY <1>1, <1>8, <2>2, <2>3
<1>9. \/ /\ r \in {"load", "run"} /\ MayStart(c, r) /\ job' = [job EXCEPT ![c] = r]
         /\ UNCHANGED <<mail, life, held>>
      \/ r \in {"load", "run"} /\ Respond(c, r, "error", FALSE) /\ UNCHANGED <<job, held>>
      \/ r = "run" /\ Respond(c, "invalid", "error", FALSE) /\ UNCHANGED <<job, held>>
      \/ /\ r \in {"cancel", "health"} /\ UNCHANGED <<job, held>>
         /\ \E reply \in Replies : Respond(c, r, reply, FALSE)
      \/ /\ r \in {"unload", "ask_stop"} /\ job[c] # "none" /\ Respond(c, r, "error", FALSE)
         /\ UNCHANGED <<job, held>>
      \/ /\ r \in {"unload", "ask_stop"} /\ job[c] = "none" /\ UNCHANGED job
         /\ held' = [held EXCEPT ![c] = FALSE]
         /\ \E reply \in {"ok"} \cup (IF held[c] THEN {"error"} ELSE {}) :
              Respond(c, r, reply, r = "ask_stop")
  BY DEF Serve, Replies
<1> QED
  BY <1>3, <1>4, <1>5, <1>6, <1>7, <1>8, <1>9

(* The shape of a queue that holds one line. *)
LEMMA OneLine ==
  ASSUME NEW s \in Seq(Requests), NEW x, s = <<x>>
  PROVE  s # <<>> /\ Tail(s) = <<>> /\ Head(s) = x /\ s[1] = x /\ Len(s) = 1
  OBVIOUS

LEMMA HeadIsRequest ==
  ASSUME NEW s \in Seq(Requests), s # <<>> PROVE Head(s) \in Requests /\ Head(s) # "none"
<1>1. Head(s) \in Requests
  OBVIOUS
<1> QED
  BY <1>1 DEF Requests

LEMMA ServeTurn ==
  ASSUME TypeOK, NEW c \in Controllers, Comes(c), Serve(c)
  PROVE  TurnInOrder(c)'
<1> DEFINE r == Head(inbox[c])
<1>1. inbox[c] \in Seq(Requests) /\ inbox[c] # <<>> /\ inbox'[c] = Tail(inbox[c])
  BY ServeFacts DEF TypeOK
<1>2. UNCHANGED <<pc, status, wants, mishaps>>
  BY ServeFacts
<1>3. ASSUME pc[c] \in {"open", "write"} PROVE FALSE
  BY <1>1, <1>3 DEF Comes, TurnInOrder
<1>4. ASSUME pc[c] \in {"load", "run"}
      PROVE  /\ r = wants[c] /\ wants[c] = pc[c] /\ inbox'[c] = <<>> /\ mail[c] = "none"
             /\ job[c] = "none"
  <2>1. inbox[c] = <<wants[c]>> /\ wants[c] # "none" /\ wants[c] \in {"none", pc[c]}
        /\ mail[c] = "none" /\ job[c] = "none"
    BY <1>1, <1>4 DEF Comes, TurnInOrder
  <2> QED
    BY <1>1, <2>1, OneLine
<1>5. ASSUME pc[c] \in {"load", "run"}
      PROVE  /\ (mail'[c] # "none" \/ wants'[c] = "none") => job'[c] = "none"
             /\ mail'[c] \in {"none", "error"}
             /\ pc[c] = "run" /\ ~held[c] => ~held'[c] /\ job'[c] = "none"
  BY <1>2, <1>4, <1>5, ServeFacts DEF MayStart
<1> QED
  BY <1>1, <1>2, <1>3, <1>4, <1>5 DEF Comes, TurnInOrder

LEMMA ServeStop ==
  ASSUME TypeOK, NEW c \in Controllers, Comes(c), Serve(c), Undisturbed(c)
  PROVE  StopInOrder(c)'
<1> DEFINE r == Head(inbox[c])
<1> DEFINE s == inbox[c]
<1>1. /\ s \in Seq(Requests) /\ s # <<>> /\ inbox'[c] = Tail(s) /\ life[c] = "up"
      /\ UNCHANGED <<pc, process, reader, broken, wants>>
      /\ StopInOrder(c) /\ ~Eof(c)
  BY ServeFacts DEF TypeOK, Comes, Undisturbed, Eof
<1>2. r = s[1] /\ 1 \in 1 .. Len(s) /\ Tail(s) \in Seq(Requests) /\ Len(Tail(s)) = Len(s) - 1
      /\ Len(s) \in Nat /\ (Len(s) = 1 => Tail(s) = <<>>)
  BY <1>1, Lines
<1>3. \A i \in 1 .. Len(Tail(s)) : Tail(s)[i] = s[i + 1] /\ i + 1 \in 1 .. Len(s)
  BY <1>1, Lines
<1>4. r # "none"
  BY <1>1, HeadIsRequest
<1>5. ASSUME pc[c] \in Awake
      PROVE  /\ \A i \in 1 .. Len(Tail(s)) :
                  /\ Tail(s)[i] # "ask_stop"
                  /\ Tail(s)[i] = "unload" => wants[c] = "unload" /\ i = Len(Tail(s))
             /\ r # "ask_stop" /\ life'[c] = "up"
             /\ r = "unload" => wants[c] = "unload" /\ Len(s) = 1
  <2>1. \A i \in 1 .. Len(s) :
          /\ s[i] # "ask_stop"
          /\ s[i] = "unload" => wants[c] = "unload" /\ i = Len(s)
    BY <1>1, <1>5 DEF StopInOrder
  <2>2. r # "ask_stop" /\ (r = "unload" => wants[c] = "unload" /\ Len(s) = 1)
    BY <1>2, <2>1
  <2>3. life'[c] = "up"
    BY <1>1, <2>2, ServeFacts
  <2>4. ASSUME NEW i \in 1 .. Len(Tail(s))
        PROVE  /\ Tail(s)[i] # "ask_stop"
               /\ Tail(s)[i] = "unload" => wants[c] = "unload" /\ i = Len(Tail(s))
    BY <1>2, <1>3, <2>1
  <2> QED
    BY <2>2, <2>3, <2>4
<1>6. ASSUME pc[c] = "unload", mail'[c] = "ok" PROVE Unloaded(c)' /\ inbox'[c] = <<>>
  <2>1. mail[c] # "ok"
    BY <1>1, <1>6 DEF StopInOrder
  <2>2. wants[c] \in {"none", "unload"}
    BY <1>6 DEF Comes
  <2>3. r = "unload" /\ wants[c] = "unload" /\ reader[c]
    BY <1>6, <1>4, <2>1, <2>2, ServeFacts
  <2>4. Len(s) = 1
    BY <1>5, <1>6, <2>3 DEF Awake
  <2>5. job'[c] = "none" /\ ~held'[c]
    BY <1>6, <2>1, <2>3, ServeFacts
  <2> QED
    BY <1>1, <1>2, <2>3, <2>4, <2>5 DEF Unloaded
<1>7. ASSUME pc[c] = "stop", process[c] PROVE FALSE
  BY <1>1, <1>7 DEF StopInOrder
<1>8. ASSUME pc[c] = "ask_stop"
      PROVE  Unloaded(c)' /\ mail'[c] = "ok" /\ wants[c] = "ask_stop" /\ inbox'[c] = <<>>
  <2>1. Unloaded(c) /\ mail[c] = "none" /\ wants[c] = "ask_stop" /\ s = <<"ask_stop">>
    BY <1>1, <1>8 DEF StopInOrder
  <2>2. r = "ask_stop" /\ Tail(s) = <<>>
    BY <1>1, <2>1, OneLine
  <2>3. PICK reply \in Replies :
          /\ mail'[c] = IF wants[c] = r /\ reader[c] THEN reply ELSE mail[c]
          /\ reply = "ok" => job[c] = "none" /\ ~held'[c]
          /\ job[c] = "none" /\ ~held[c] => reply = "ok"
    BY <2>2, ServeFacts
  <2>4. job'[c] = job[c]
    BY <2>2, ServeFacts
  <2> QED
    BY <1>1, <2>1, <2>2, <2>3, <2>4 DEF Unloaded
<1> QED
  BY <1>1, <1>5, <1>6, <1>7, <1>8 DEF StopInOrder

LEMMA ServeComes ==
  ASSUME TypeOK, NEW c \in Controllers, Comes(c), Serve(c)
  PROVE  Comes(c)'
<1>1. /\ life[c] = "up" /\ UNCHANGED <<pc, wants, mishaps>>
      /\ life'[c] \in {"up", "leaving"}
  BY ServeFacts, ServeTypes DEF TypeOK
<1>2. wants[c] = "none" => mail'[c] = mail[c]
  <2>1. Head(inbox[c]) # "none"
    BY ServeFacts, HeadIsRequest DEF TypeOK
  <2> QED
    BY <2>1, ServeFacts
<1>3. Undisturbed(c)' => Undisturbed(c)
  BY <1>1 DEF Undisturbed
<1> QED
  BY <1>1, <1>2, <1>3, ServeTurn, ServeStop DEF Comes

(* A task ends: the command that waits for it has a reply then. *)
LEMMA EndTaskComes ==
  ASSUME TypeOK, NEW c \in Controllers, Comes(c), EndTask(c)
  PROVE  Comes(c)'
<1>1. PICK reply \in {"ok", "error"} \cup (IF job[c] = "run" THEN {"hot", "cancelled"} ELSE {}) :
        /\ Reply(c, job[c], reply)
        /\ \E kept \in {held[c], FALSE} :
             held' = [held EXCEPT ![c] = CASE reply = "ok" -> TRUE
                                          [] reply = "hot" -> FALSE
                                          [] OTHER -> kept]
  BY DEF EndTask
<1>2. /\ life[c] \in {"up", "leaving"} /\ job[c] \in {"load", "run"} /\ job'[c] = "none"
      /\ UNCHANGED <<pc, status, process, reader, broken, wants, life, inbox, mishaps>>
  BY DEF EndTask, TypeOK, programVars, clientVars
<1>3. mail'[c] = IF wants[c] = job[c] /\ reader[c] THEN reply ELSE mail[c]
  BY <1>1 DEF Reply, TypeOK
<1>4. reply = "hot" => ~held'[c]
  BY <1>1 DEF TypeOK
<1>5. TurnInOrder(c)'
  <2>1. pc[c] \notin {"open", "write"}
    BY <1>2 DEF Comes, TurnInOrder
  <2>2. pc[c] \in {"load", "run"} => inbox[c] = <<>> /\ mail[c] = "none"
    BY <1>2 DEF Comes, TurnInOrder
  <2>3. pc[c] = "run" => "heat" \notin mishaps[c]
    BY <1>2 DEF Comes, TurnInOrder
  <2>4. pc[c] = "run" /\ mail'[c] = "hot" => ~held'[c]
    BY <1>3, <1>4, <2>2
  <2> QED
    BY <1>2, <2>1, <2>2, <2>3, <2>4 DEF Comes, TurnInOrder
<1>6. ASSUME Undisturbed(c) PROVE StopInOrder(c)'
  <2>1. StopInOrder(c)
    BY <1>6 DEF Comes
  <2>2. ~Unloaded(c)
    BY <1>2 DEF Unloaded
  <2>3. pc[c] = "unload" => mail'[c] = mail[c]
    BY <1>2, <1>3 DEF Comes
  <2> QED
    BY <1>2, <2>1, <2>2, <2>3 DEF StopInOrder
<1>7. wants[c] = "none" => mail'[c] = mail[c]
  BY <1>2, <1>3
<1> QED
  BY <1>2, <1>5, <1>6, <1>7 DEF Comes, Undisturbed

(* A worker that goes down by itself or by a signal leaves nothing; its    *)
(* command was disturbed, or gone, or stopped it.                          *)
LEMMA DownComes ==
  ASSUME TypeOK, NEW c \in Controllers, Comes(c), NEW how, GoDown(c, how)
  PROVE  Comes(c)'
<1>1. /\ life[c] \in {"up", "leaving", "killed"} /\ life'[c] = "closing"
      /\ inbox'[c] = <<>> /\ job'[c] = "none" /\ held'[c] = FALSE
      /\ UNCHANGED <<pc, status, process, reader, broken, wants, mail>>
  BY DEF GoDown, TypeOK, programVars, clientVars, callVars
<1>2. mishaps'[c] = mishaps[c] \/ mishaps'[c] = mishaps[c] \cup {"crash"}
  BY DEF GoDown, TypeOK
<1>3. life[c] = "up" /\ pc[c] # "gone" => "crash" \in mishaps'[c]
  BY DEF GoDown, TypeOK
<1>4. TurnInOrder(c)'
  BY <1>1, <1>2 DEF Comes, TurnInOrder
<1>5. ASSUME Undisturbed(c)' PROVE StopInOrder(c)'
  <2>1. Undisturbed(c)
    BY <1>1, <1>2, <1>5 DEF Undisturbed
  <2>2. StopInOrder(c) /\ life[c] # "up"
    BY <1>1, <1>3, <1>5, <2>1 DEF Comes, Undisturbed, LosesRecord
  <2> QED
    BY <1>1, <2>2 DEF StopInOrder, Unloaded
<1> QED
  BY <1>1, <1>4, <1>5 DEF Comes

LEMMA WaitableComes ==
  ASSUME TypeOK, NEW c \in Controllers, Comes(c), BecomeWaitable(c) \/ Leave(c)
  PROVE  Comes(c)'
<1>1. UNCHANGED <<pc, status, process, reader, broken, wants, mail, inbox, job, held, mishaps>>
  BY DEF BecomeWaitable, Leave, programVars, clientVars, callVars
<1>2. \/ life[c] = "closing" /\ life'[c] = "dead"
      \/ life[c] = "up" /\ Eof(c) /\ life'[c] = "leaving"
  BY DEF BecomeWaitable, Leave, TypeOK
<1>3. TurnInOrder(c)'
  BY <1>1 DEF Comes, TurnInOrder
<1>4. ASSUME Undisturbed(c) PROVE StopInOrder(c)'
  <2>1. StopInOrder(c) /\ life[c] # "up"
    BY <1>2, <1>4 DEF Comes, Undisturbed, Eof
  <2> QED
    BY <1>1, <2>1 DEF StopInOrder, Unloaded
<1> QED
  BY <1>1, <1>2, <1>3, <1>4 DEF Comes, Undisturbed

-----------------------------------------------------------------------------
(* The command's steps outside a request.                                  *)

LEMMA VanishComes ==
  ASSUME TypeOK, NEW c \in Controllers, Comes(c), ExitCommand(c) \/ Kill(c)
  PROVE  Comes(c)'
<1>1. Vanish(c)
  BY DEF ExitCommand, Kill
<1>2. /\ pc'[c] = "gone" /\ wants'[c] = "none" /\ mail'[c] = "none"
      /\ UNCHANGED <<life, inbox>>
  BY <1>1 DEF Vanish, Goto, TypeOK, workerVars
<1>3. "heat" \notin mishaps'[c]
  BY <1>1 DEF Vanish, TypeOK
<1> QED
  BY <1>2, <1>3 DEF Comes, TurnInOrder, Undisturbed, Early

(* Ctrl+C in the try clause that the worker survives is to the command     *)
(* what a timeout is.                                                      *)
LEMMA InterruptComes ==
  ASSUME TypeOK, NEW c \in Controllers, Comes(c), TryInOrder, Local(c), Interrupt(c)
  PROVE  Comes(c)'
<1>1. /\ wants'[c] = "none" /\ mail'[c] = "none"
      /\ UNCHANGED <<inbox, job, held, process, reader, broken>>
      /\ life'[c] = life[c] \/ (life[c] = "up" /\ life'[c] = "leaving")
  BY DEF Interrupt, TypeOK, clientVars
<1>2. /\ mishaps[c] \subseteq mishaps'[c] /\ ("heat" \in mishaps'[c] => "heat" \in mishaps[c])
      /\ "late" \notin mishaps'[c] => phase[c] = "try"
      /\ "left" \notin mishaps'[c] => life' = life
  BY DEF Interrupt, TypeOK
<1>3. /\ pc'[c] \in {"cancel", "finally", "raised"} /\ (phase[c] = "try" => pc'[c] = "cancel")
      /\ status'[c] \in {status[c], "cancelled"}
  BY DEF Interrupt, TypeOK, Recover, Raise, Goto
<1>4. TurnInOrder(c)'
  BY <1>1, <1>2, <1>3 DEF Comes, TurnInOrder, Early
<1>5. ASSUME Undisturbed(c)' PROVE StopInOrder(c)'
  <2>1. phase[c] = "try" /\ life' = life /\ pc'[c] = "cancel"
    BY <1>2, <1>3, <1>5 DEF Undisturbed, LosesRecord
  <2>2. pc[c] \in Requests \cup Waits
    BY DEF Interrupt, Local, Requests
  <2>3. pc[c] \in {"load", "run"}
    BY <2>1, <2>2 DEF TryInOrder, Early, Requests, Waits
  <2>4. StopInOrder(c) /\ wants[c] # "unload"
    BY <1>2, <1>5, <2>3 DEF Undisturbed, Comes
  <2>5. \A i \in 1 .. Len(inbox[c]) : inbox[c][i] \notin {"ask_stop", "unload"}
    BY <2>3, <2>4 DEF StopInOrder, Awake
  <2> QED
    BY <1>1, <2>1, <2>3, <2>4, <2>5 DEF StopInOrder, Awake
<1> QED
  BY <1>1, <1>4, <1>5 DEF Comes

(* start(): nothing is on the way before the first load. *)
LEMMA StartComes ==
  ASSUME TypeOK, DownIsEmpty, NEW c \in Controllers, Comes(c), Local(c),
         \/ Begin(c) \/ ReadPidfile(c) \/ Verify(c) \/ Discard(c) \/ Spawn(c) \/ Open(c) \/ Write(c)
  PROVE  Comes(c)'
<1>1. /\ UNCHANGED <<wants, mail, broken, inbox, job, held, mishaps>>
      /\ pc[c] \in Early \cup {"open", "write"}
  BY DEF Begin, ReadPidfile, Verify, Discard, Spawn, Open, Write, clientVars, callVars, workerVars,
         Early
<1>2. \/ /\ pc'[c] \in {"read", "verify", "discard", "spawn"} /\ pc[c] \in Early
         /\ status'[c] = status[c] /\ process'[c] = process[c] /\ life'[c] = life[c]
      \/ /\ pc[c] = "spawn" /\ pc'[c] = "open"
         /\ status'[c] = status[c] /\ life'[c] = "up"
      \/ /\ pc[c] \in {"open", "write"} /\ pc'[c] \in {"write", "load"}
         /\ status'[c] = status[c] /\ process'[c] = process[c] /\ life'[c] = life[c]
      \/ /\ pc'[c] = "finally" /\ status'[c] = "failed"
         /\ process'[c] = process[c] /\ life'[c] = life[c]
  <2> USE DEF TypeOK, Goto, Continue, Conclude, clientVars, workerVars, Early
  <2>1. CASE Begin(c) \/ ReadPidfile(c) \/ Discard(c)
    BY <2>1 DEF Begin, ReadPidfile, Discard
  <2>2. CASE Verify(c)
    BY <2>2 DEF Verify
  <2>3. CASE Spawn(c)
    BY <2>3 DEF Spawn
  <2>4. CASE Open(c)
    BY <2>4 DEF Open
  <2>5. CASE Write(c)
    BY <2>5 DEF Write
  <2> QED
    BY <2>1, <2>2, <2>3, <2>4, <2>5
<1>3. wants[c] = "none" /\ mail[c] = "none" /\ inbox[c] = <<>> /\ job[c] = "none"
  <2>1. pc[c] \notin Requests
    BY <1>1 DEF Early, Requests
  <2>2. wants[c] = "none" /\ mail[c] = "none"
    BY <2>1 DEF Comes, Local
  <2>3. CASE pc[c] \in Early
    BY <2>2, <2>3 DEF Local, Comes, DownIsEmpty, Danger
  <2>4. CASE pc[c] \in {"open", "write"}
    BY <2>2, <2>4 DEF Comes, TurnInOrder
  <2> QED
    BY <1>1, <2>2, <2>3, <2>4
<1>4. status[c] = "running" /\ "heat" \notin mishaps[c]
  BY <1>1 DEF Comes, TurnInOrder
<1>5. TurnInOrder(c)'
  BY <1>1, <1>2, <1>3, <1>4 DEF TurnInOrder, Early
<1>6. Undisturbed(c)' => Undisturbed(c) /\ StopInOrder(c)
  BY <1>1 DEF Undisturbed, Comes, Early
<1>7. ASSUME Undisturbed(c)' PROVE StopInOrder(c)'
  <2>1. ~broken[c] /\ (process[c] /\ pc[c] \in Awake => life[c] = "up")
    BY <1>6, <1>7 DEF StopInOrder
  <2>2. pc[c] \in Early => ~process[c]
    BY DEF Local
  <2>3. process'[c] => life'[c] = "up"
    BY <1>1, <1>2, <2>1, <2>2 DEF Awake
  <2>4. Len(inbox'[c]) = 0
    BY <1>1, <1>3
  <2>5. \A i \in 1 .. Len(inbox'[c]) : FALSE
    BY <2>4
  <2> QED
    BY <1>1, <1>2, <1>3, <2>1, <2>3, <2>5 DEF StopInOrder, Early
<1>8. life'[c] \in {"unborn", "closing", "dead"} => inbox'[c] = <<>>
  BY <1>1, <1>3
<1> QED
  BY <1>1, <1>3, <1>5, <1>7, <1>8 DEF Comes

(* The finally clause, stop(), terminate() and the cleanup. *)
LEMMA EndComes ==
  ASSUME TypeOK, NEW c \in Controllers, Comes(c), Local(c),
         \/ Deadline(c) \/ Finally(c) \/ Stop(c) \/ Terminate(c) \/ ExitWait(c) \/ TermWait(c)
         \/ KillWait(c) \/ Close(c) \/ Unlink(c) \/ Record(c)
  PROVE  Comes(c)'
<1> DEFINE End == {"close", "terminate", "term_wait", "kill_wait", "unlink", "record", "ended"}
<1>1. /\ UNCHANGED <<wants, mail, inbox, job, held, reader>>
      /\ status'[c] = status[c]
      /\ wants[c] = "none" /\ mail[c] = "none"
  <2>1. /\ UNCHANGED <<wants, mail, inbox, job, held, reader>>
        /\ pc[c] \notin Requests \/ wants[c] = "none"
    BY DEF Deadline, Finally, Stop, Terminate, ExitWait, TermWait, WaitExit, KillWait, Close, Unlink,
           Record, clientVars, callVars, workerVars, Requests
  <2>2. status'[c] = status[c]
    BY DEF Deadline, Finally, Stop, Terminate, ExitWait, TermWait, WaitExit, KillWait, Close, Unlink,
           Record, Continue, Conclude, Raise, TypeOK
  <2> QED
    BY <2>1, <2>2 DEF Comes, Local
<1>2. \/ /\ pc'[c] \in End /\ broken'[c] = broken[c]
         /\ mishaps'[c] = mishaps[c]
         /\ (life'[c] # life[c] => life'[c] = "killed")
      \/ /\ pc[c] = "unlink" /\ pc'[c] = "finally" /\ process'[c] = FALSE
         /\ UNCHANGED <<broken, mishaps, life>>
      \/ /\ pc[c] = "finally" /\ UNCHANGED <<broken, mishaps, life, process>>
         /\ pc'[c] = IF process[c] /\ life[c] # "dead" THEN "unload" ELSE "stop"
      \/ /\ pc[c] = "stop" /\ pc'[c] = "ask_stop" /\ process[c]
         /\ UNCHANGED <<broken, mishaps, life, process>>
      \/ /\ pc[c] = "kill_wait" /\ mishaps'[c] = mishaps[c] \cup {"stuck"}
         /\ pc'[c] \in {"finally", "raised"} /\ life'[c] = life[c]
      \/ /\ pc[c] = "close" /\ broken[c] /\ mishaps'[c] = mishaps[c]
         /\ pc'[c] \in {"finally", "raised"} /\ life'[c] = life[c]
      \/ /\ pc[c] = "record" /\ mishaps'[c] = mishaps[c] \cup {"disk"}
         /\ pc'[c] = "raised" /\ life'[c] = life[c]
  <2> USE DEF TypeOK, Continue, Goto, workerVars, clientVars
  <2>1. CASE Deadline(c) \/ Finally(c)
    BY <2>1 DEF Deadline, Finally
  <2>2. CASE Stop(c)
    BY <2>2 DEF Stop
  <2>3. CASE Terminate(c)
    BY <2>3 DEF Terminate
  <2>4. CASE ExitWait(c) \/ TermWait(c)
    BY <2>4 DEF ExitWait, TermWait, WaitExit
  <2>5. CASE KillWait(c)
    BY <2>5 DEF KillWait, Raise
  <2>6. CASE Close(c)
    <3>1. UNCHANGED <<mishaps, life>> /\ broken'[c] = FALSE
      BY <2>6 DEF Close
    <3>2. CASE broken[c]
      <4>1. pc[c] = "close" /\ Raise(c)
        BY <2>6, <3>2 DEF Close
      <4>2. pc'[c] \in {"finally", "raised"}
        BY <4>1 DEF Raise
      <4> QED
        BY <3>1, <3>2, <4>1, <4>2
    <3>3. CASE ~broken[c]
      <4>1. pc'[c] = "unlink"
        BY <2>6, <3>3 DEF Close
      <4> QED
        BY <3>1, <3>3, <4>1
    <3> QED
      BY <3>2, <3>3
  <2>7. CASE Unlink(c)
    BY <2>7 DEF Unlink, Conclude
  <2>8. CASE Record(c)
    BY <2>8 DEF Record
  <2> QED
    BY <2>1, <2>2, <2>3, <2>4, <2>5, <2>6, <2>7, <2>8
<1>3. pc'[c] \in End \cup {"finally", "unload", "stop", "ask_stop", "raised"}
  BY <1>2
<1>4. "heat" \in mishaps'[c] => "heat" \in mishaps[c]
  BY <1>2
<1>5. TurnInOrder(c)'
  BY <1>1, <1>3, <1>4 DEF Comes, TurnInOrder, Early
<1>6. life'[c] \in {"unborn", "closing", "dead"} => inbox'[c] = <<>>
  BY <1>1, <1>2 DEF Comes
<1>7. ASSUME Undisturbed(c)' PROVE StopInOrder(c)'
  <2>1. mishaps'[c] = mishaps[c] /\ Undisturbed(c) /\ StopInOrder(c)
    <3>1. mishaps'[c] = mishaps[c]
      BY <1>2, <1>7 DEF Undisturbed, LosesRecord
    <3>2. pc[c] # "gone"
      BY <1>2, <1>7 DEF Undisturbed, Deadline, Finally, Stop, Terminate, ExitWait, TermWait, WaitExit,
           KillWait, Close, Unlink, Record
    <3> QED
      BY <1>7, <3>1, <3>2 DEF Undisturbed, Comes
  <2>2. ~broken[c]
    BY <2>1 DEF StopInOrder
  <2>3. CASE pc'[c] \in End /\ broken'[c] = broken[c]
    BY <1>1, <2>2, <2>3 DEF StopInOrder, Awake
  <2>4. CASE pc[c] = "unlink" /\ pc'[c] = "finally" /\ process'[c] = FALSE /\ UNCHANGED <<broken, life>>
    <3>1. inbox'[c] = <<>>
      BY <1>1, <2>4 DEF Local, Comes
    <3>2. \A i \in 1 .. Len(inbox'[c]) : FALSE
      BY <3>1
    <3> QED
      BY <1>1, <2>2, <2>4, <3>2 DEF StopInOrder
  <2>5. CASE /\ pc[c] = "finally" /\ UNCHANGED <<broken, life, process>>
             /\ pc'[c] = IF process[c] /\ life[c] # "dead" THEN "unload" ELSE "stop"
    BY <1>1, <2>1, <2>5 DEF StopInOrder, Awake
  <2>6. CASE pc[c] = "stop" /\ pc'[c] = "ask_stop" /\ process[c] /\ UNCHANGED <<broken, life, process>>
    BY <1>1, <2>1, <2>6 DEF StopInOrder, Awake, Unloaded
  <2> QED
    BY <1>2, <2>2, <2>3, <2>4, <2>5, <2>6, <1>7 DEF Undisturbed, LosesRecord
<1> QED
  BY <1>1, <1>5, <1>6, <1>7 DEF Comes

-----------------------------------------------------------------------------
(* Requests.                                                               *)

(* The line of a request is written. *)
LEMMA WrittenComes ==
  ASSUME TypeOK, NEW c \in Controllers, Comes(c), pc[c] \in Requests, wants[c] = "none", Alive(c),
         inbox' = [inbox EXCEPT ![c] = Append(@, pc[c])], wants' = [wants EXCEPT ![c] = pc[c]],
         UNCHANGED <<programVars, broken, mishaps, process, reader, mail, life, job, held>>
  PROVE  Comes(c)'
<1> DEFINE s == inbox[c]
<1>1. /\ s \in Seq(Requests) /\ inbox'[c] = Append(s, pc[c]) /\ wants'[c] = pc[c] /\ mail[c] = "none"
      /\ UNCHANGED <<pc, status, broken, mishaps, process, reader, mail, life, job, held>>
  BY DEF TypeOK, Comes, programVars
<1>2. pc[c] # "none"
  BY DEF Requests
<1>3. TurnInOrder(c)'
  <2>1. pc[c] \notin {"open", "write"}
    BY DEF Requests
  <2>2. pc[c] \in {"load", "run"} => s = <<>> /\ job[c] = "none"
    BY DEF Comes, TurnInOrder
  <2>3. pc[c] \in {"load", "run"} => inbox'[c] = <<wants'[c]>>
    BY <1>1, <2>2, Lines
  <2> QED
    BY <1>1, <1>2, <2>1, <2>2, <2>3 DEF Comes, TurnInOrder
<1>4. ASSUME Undisturbed(c) PROVE StopInOrder(c)'
  <2>1. StopInOrder(c)
    BY <1>4 DEF Comes
  <2>2. ASSUME pc[c] \in Awake, NEW i \in 1 .. Len(Append(s, pc[c]))
        PROVE  /\ Append(s, pc[c])[i] # "ask_stop"
               /\ Append(s, pc[c])[i] = "unload" => pc[c] = "unload" /\ i = Len(Append(s, pc[c]))
    <3>1. Len(Append(s, pc[c])) = Len(s) + 1
      BY <1>1
    <3>2. CASE i = Len(s) + 1
      <4>1. Append(s, pc[c])[i] = pc[c]
        BY <1>1, <3>2
      <4> QED
        BY <2>2, <3>1, <3>2, <4>1 DEF Awake
    <3>3. CASE i # Len(s) + 1
      <4>1. i \in 1 .. Len(s) /\ Append(s, pc[c])[i] = s[i]
        BY <1>1, <2>2, <3>1, <3>3
      <4> QED
        BY <2>1, <2>2, <4>1 DEF StopInOrder
    <3> QED
      BY <3>2, <3>3
  <2>3. pc[c] = "ask_stop" => s = <<>>
    BY <2>1, <1>1 DEF StopInOrder
  <2>4. pc[c] = "ask_stop" => inbox'[c] = <<"ask_stop">>
    BY <1>1, <2>3, Lines
  <2>5. pc[c] # "stop"
    BY DEF Requests
  <2> QED
    BY <1>1, <2>1, <2>2, <2>3, <2>4, <2>5 DEF StopInOrder, Unloaded
<1>5. life'[c] \notin {"unborn", "closing", "dead"}
  BY <1>1 DEF Alive
<1> QED
  BY <1>1, <1>3, <1>4, <1>5 DEF Comes, Undisturbed

(* A turn that came out well had its reply, so nothing of it is left.      *)
LEMMA ReturnTurn ==
  ASSUME TypeOK, NEW c \in Controllers, Comes(c), pc[c] \in Requests, NEW result, Return(c, result),
         result \in {"ok", "hot"} => mail[c] = result,
         UNCHANGED <<inbox, job, held>>, wants'[c] = "none", mail'[c] = "none"
  PROVE  TurnInOrder(c)'
<1> USE DEF TypeOK
<1>1. CASE pc[c] = "load"
  <2>1. AfterLoad(c, result) /\ mishaps'[c] = mishaps[c]
    BY <1>1 DEF Return
  <2>2. \/ pc'[c] = "run" /\ status'[c] = status[c] /\ result = "ok"
        \/ pc'[c] \in {"cancel", "finally"}
    BY <2>1 DEF AfterLoad, Continue, Recover, Conclude, Goto
  <2>3. "heat" \notin mishaps[c] /\ status[c] = "running"
    BY <1>1 DEF Comes, TurnInOrder
  <2>4. result = "ok" => inbox[c] = <<>> /\ job[c] = "none"
    BY <1>1 DEF Comes, TurnInOrder
  <2> QED
    BY <2>1, <2>2, <2>3, <2>4 DEF TurnInOrder, Early
<1>2. CASE pc[c] = "run"
  <2>1. AfterRun(c, result)
    BY <1>2 DEF Return
  <2>2. ASSUME result \in {"ok", "hot"}
        PROVE  /\ inbox[c] = <<>> /\ job[c] = "none" /\ (result = "hot" => ~held[c])
               /\ "heat" \notin mishaps[c] /\ status[c] = "running"
    BY <1>2, <2>2 DEF Comes, TurnInOrder
  <2>3. CASE result \in {"ok", "hot"} /\ LastTurn(c)
    <3>1. Conclude(c, "completed") /\ mishaps'[c] = mishaps[c]
      BY <2>1, <2>3 DEF AfterRun, Return
    <3>2. pc'[c] = "finally"
      BY <3>1 DEF Conclude, Goto
    <3> QED
      BY <2>2, <2>3, <3>1, <3>2 DEF TurnInOrder, Early
  <2>4. CASE result \in {"ok", "hot"} /\ ~LastTurn(c)
    <3>1. Continue(c, "run") /\ ("heat" \in mishaps'[c] => result = "hot")
      BY <2>1, <2>2, <2>4 DEF AfterRun, Return
    <3>2. pc'[c] = "run" /\ status'[c] = status[c]
      BY <3>1 DEF Continue, Goto
    <3> QED
      BY <2>2, <2>4, <3>1, <3>2 DEF TurnInOrder, Early
  <2>5. CASE result \notin {"ok", "hot"}
    <3>1. pc'[c] \in {"finally", "cancel"} /\ status'[c] \in {"cancelled", "failed", "timeout"}
      BY <2>1, <2>5 DEF AfterRun, Conclude, Recover, Goto
    <3> QED
      BY <3>1 DEF TurnInOrder, Early
  <2> QED
    BY <2>3, <2>4, <2>5
<1>3. CASE pc[c] \in {"cancel", "health", "unload", "ask_stop"}
  <2>1. mishaps'[c] = mishaps[c]
    BY <1>3 DEF Return
  <2>2. AfterCancel(c, result) \/ AfterHealth(c, result) \/ AfterUnload(c, result) \/ AfterStop(c, result)
    BY <1>3 DEF Return
  <2>3. /\ pc'[c] \in {"health", "terminate", "finally", "raised", "stop", "exit_wait"}
        /\ status'[c] = status[c]
    BY <2>2 DEF AfterCancel, AfterHealth, AfterUnload, AfterStop, Continue, Conclude, Raise, Goto
  <2> QED
    BY <2>1, <2>3 DEF Comes, TurnInOrder, Early
<1> QED
  BY <1>1, <1>2, <1>3 DEF Requests

(* What a request of an undisturbed command can come to: its reply, or a   *)
(* timeout, or, if it is a run, anything.                                  *)
LEMMA ReturnStop ==
  ASSUME TypeOK, NEW c \in Controllers, Comes(c), Local(c), pc[c] \in Requests, NEW result,
         Return(c, result),
         \/ pc[c] = "run"
         \/ mail[c] = (IF result = "timeout" THEN "none" ELSE result) /\ result # "none",
         UNCHANGED <<process, reader, broken, life, inbox, job, held>>,
         wants'[c] = "none", mail'[c] = "none", Undisturbed(c)
  PROVE  StopInOrder(c)'
<1> USE DEF TypeOK
<1>1. StopInOrder(c) /\ process[c] /\ wants[c] \in {"none", pc[c]}
  BY DEF Comes, Local
<1>2. pc[c] # "run" => result \in Replies \cup {"timeout"}
  OBVIOUS
<1>3. ASSUME pc[c] \in {"load", "run", "cancel", "health"},
             pc'[c] \in {"run", "cancel", "health", "finally", "terminate"}
      PROVE  StopInOrder(c)'
  <2>1. life[c] = "up" /\ ~broken[c]
    BY <1>1, <1>3 DEF StopInOrder, Awake
  <2>2. \A i \in 1 .. Len(inbox[c]) : inbox[c][i] \notin {"ask_stop", "unload"}
    BY <1>1, <1>3 DEF StopInOrder, Awake
  <2> QED
    BY <1>3, <2>1, <2>2 DEF StopInOrder
<1>4. CASE pc[c] = "load"
  <2>1. AfterLoad(c, result)
    BY <1>4 DEF Return
  <2>2. pc'[c] \in {"run", "cancel", "finally"}
    BY <2>1 DEF AfterLoad, Continue, Conclude, Recover, Goto
  <2> QED
    BY <1>3, <1>4, <2>2
<1>5. CASE pc[c] = "run"
  <2>1. AfterRun(c, result)
    BY <1>5 DEF Return
  <2>2. pc'[c] \in {"run", "cancel", "finally"}
    BY <2>1 DEF AfterRun, Continue, Conclude, Recover, Goto
  <2> QED
    BY <1>3, <1>5, <2>2
<1>6. CASE pc[c] = "cancel"
  <2>1. AfterCancel(c, result)
    BY <1>6 DEF Return
  <2>2. pc'[c] \in {"health", "terminate"}
    BY <1>2, <1>6, <2>1 DEF AfterCancel, Continue, Goto, Replies
  <2> QED
    BY <1>3, <1>6, <2>2
<1>7. CASE pc[c] = "health"
  <2>1. AfterHealth(c, result)
    BY <1>7 DEF Return
  <2>2. pc'[c] \in {"finally", "health", "terminate"}
    BY <1>2, <1>7, <2>1 DEF AfterHealth, Continue, Conclude, Goto, Replies
  <2> QED
    BY <1>3, <1>7, <2>2
<1>8. CASE pc[c] = "unload"
  <2>1. AfterUnload(c, result)
    BY <1>8 DEF Return
  <2>2. (pc'[c] = "stop" /\ result = "ok") \/ pc'[c] = "terminate"
    BY <1>2, <1>8, <2>1 DEF AfterUnload, Continue, Goto, Replies
  <2>3. life[c] = "up" /\ ~broken[c]
    BY <1>1, <1>8 DEF StopInOrder, Awake
  <2>4. CASE pc'[c] = "terminate"
    BY <2>3, <2>4 DEF StopInOrder, Awake
  <2>5. CASE pc'[c] = "stop" /\ result = "ok"
    <3>1. Unloaded(c) /\ inbox[c] = <<>>
      BY <1>1, <1>8, <2>5 DEF StopInOrder
    <3>2. \A i \in 1 .. Len(inbox[c]) : FALSE
      BY <3>1
    <3> QED
      BY <2>3, <2>5, <3>1, <3>2 DEF StopInOrder, Unloaded
  <2> QED
    BY <2>2, <2>4, <2>5
<1>9. CASE pc[c] = "ask_stop"
  <2>1. AfterStop(c, result)
    BY <1>9 DEF Return
  <2>2. result \in {"ok", "timeout"} /\ ~broken[c]
    BY <1>1, <1>9 DEF StopInOrder
  <2>3. pc'[c] \in {"exit_wait", "terminate"}
    BY <2>1, <2>2 DEF AfterStop, Continue, Goto
  <2> QED
    BY <2>2, <2>3 DEF StopInOrder, Awake
<1> QED
  BY <1>4, <1>5, <1>6, <1>7, <1>8, <1>9 DEF Requests

(* No request of an undisturbed command finds its worker down. *)
LEMMA UpWhileAsking ==
  ASSUME TypeOK, NEW c \in Controllers, Comes(c), Local(c), pc[c] \in Requests, Undisturbed(c),
         life[c] \in {"unborn", "closing", "dead"}
  PROVE  mail[c] = "ok" /\ wants[c] = "ask_stop"
<1>1. StopInOrder(c) /\ process[c]
  BY DEF Comes, Local
<1>2. pc[c] = "ask_stop"
  BY <1>1 DEF StopInOrder, Awake, Requests
<1> QED
  BY <1>1, <1>2 DEF StopInOrder

LEMMA SendComes ==
  ASSUME TypeOK, NEW c \in Controllers, Comes(c), Local(c), Send(c)
  PROVE  Comes(c)'
<1>1. pc[c] \in Requests /\ wants[c] = "none" /\ mail[c] = "none"
      /\ UNCHANGED <<process, reader, mail, life, job, held>>
  BY DEF Send, Comes
<1>2. CASE /\ Alive(c) /\ inbox' = [inbox EXCEPT ![c] = Append(@, pc[c])]
           /\ wants' = [wants EXCEPT ![c] = pc[c]]
           /\ UNCHANGED <<programVars, broken, mishaps>>
  BY <1>1, <1>2, WrittenComes
<1>3. CASE /\ life[c] \in {"closing", "dead"} /\ UNCHANGED <<inbox, wants>>
           /\ \E result \in {"not_running", "os_error"} : Return(c, result)
  <2>1. PICK result \in {"not_running", "os_error"} : Return(c, result)
    BY <1>3
  <2>2. TurnInOrder(c)'
    BY <1>1, <1>3, <2>1, ReturnTurn
  <2>3. ~Undisturbed(c)
    BY <1>1, <1>3, UpWhileAsking
  <2>4. pc[c] # "gone" /\ mishaps[c] \subseteq mishaps'[c]
    BY <1>1, <2>1 DEF Return, TypeOK, Requests
  <2>5. ~Undisturbed(c)'
    BY <2>3, <2>4 DEF Undisturbed
  <2> QED
    BY <1>1, <1>3, <2>2, <2>5 DEF Comes
<1>4. CASE pc[c] = "run" /\ Return(c, "error") /\ UNCHANGED <<inbox, wants, broken>>
  <2>1. TurnInOrder(c)'
    BY <1>1, <1>4, ReturnTurn
  <2>2. Undisturbed(c)' => Undisturbed(c)
    BY <1>4 DEF Return, TypeOK, Undisturbed
  <2>3. Undisturbed(c)' => StopInOrder(c)'
    BY <1>1, <1>4, <2>2, ReturnStop
  <2> QED
    BY <1>1, <1>4, <2>1, <2>3 DEF Comes
<1> QED
  BY <1>2, <1>3, <1>4 DEF Send

LEMMA EndWaitComes ==
  ASSUME TypeOK, NEW c \in Controllers, Comes(c), Local(c), Receive(c) \/ SeeCrash(c) \/ Timeout(c)
  PROVE  Comes(c)'
<1>1. PICK result : /\ EndWait(c, result)
                    /\ \/ result = mail[c] /\ mail[c] # "none"
                       \/ result = "timeout" /\ mail[c] = "none"
                       \/ result = "crash" /\ mail[c] = "none" /\ life[c] \in {"closing", "dead"}
  BY DEF Receive, SeeCrash, Timeout
<1>2. /\ Return(c, result) /\ pc[c] \in Requests /\ wants'[c] = "none" /\ mail'[c] = "none"
      /\ UNCHANGED <<process, reader, broken, life, inbox, job, held>>
  BY <1>1 DEF EndWait, TypeOK, Local, clientVars, workerVars
<1>3. TurnInOrder(c)'
  BY <1>1, <1>2, ReturnTurn
<1>4. ASSUME Undisturbed(c)' PROVE StopInOrder(c)'
  <2>1. Undisturbed(c)
    BY <1>2, <1>4 DEF Return, TypeOK, Undisturbed, Requests
  <2>2. mail[c] = (IF result = "timeout" THEN "none" ELSE result) /\ result # "none"
    <3>1. mail[c] # "timeout"
      BY DEF TypeOK, Replies
    <3> QED
      BY <1>1, <1>2, <2>1, <3>1, UpWhileAsking
  <2> QED
    BY <1>2, <2>1, <2>2, ReturnStop
<1> QED
  BY <1>2, <1>3, <1>4 DEF Comes

-----------------------------------------------------------------------------
(* The invariant is inductive. *)
LEMMA ComesStep ==
  ASSUME TypeOK, DownIsEmpty, TryInOrder, NEW c \in Controllers, Comes(c), Local(c), StepOf(c)
  PROVE  Comes(c)'
  BY StartComes, EndComes, SendComes, EndWaitComes, InterruptComes, VanishComes, ServeComes,
     EndTaskComes, WaitableComes, DownComes
     DEF StepOf, CommandStep, WorkerStep, SystemStep

(* The try clause is left by concluding it or by its except clause, and    *)
(* is not entered again.                                                   *)
LEMMA TryStep ==
  ASSUME TypeOK, TryInOrder, WaitsInRequest, NEW c \in Controllers, StepOf(c)
  PROVE  TryInOrder'
<1> USE DEF TypeOK
<1> DEFINE InTry == Early \cup {"open", "write", "load", "run", "gone"}
<1> SUFFICES ASSUME NEW d \in Controllers, phase'[d] = "try" PROVE pc'[d] \in InTry
  BY DEF TryInOrder
<1>1. phase[d] = "try" => pc[d] \in InTry
  BY DEF TryInOrder
<1>2. ASSUME NEW o, Conclude(c, o) \/ Recover(c, o) PROVE pc'[d] \in InTry
  BY <1>1, <1>2 DEF Conclude, Recover, Goto
<1>3. ASSUME Raise(c) PROVE pc'[d] \in InTry
  BY <1>1, <1>3 DEF Raise, Goto
<1>4. ASSUME NEW p, Continue(c, p), phase[c] = "try" => p \in InTry PROVE pc'[d] \in InTry
  BY <1>1, <1>4 DEF Continue, Goto
<1>5. ASSUME NEW result, pc[c] \in Requests, Return(c, result) PROVE pc'[d] \in InTry
  <2>1. CASE pc[c] = "load"
    BY <1>2, <1>4, <1>5, <2>1 DEF Return, AfterLoad
  <2>2. CASE pc[c] = "run"
    BY <1>2, <1>4, <1>5, <2>2 DEF Return, AfterRun
  <2>3. CASE pc[c] \in {"cancel", "health", "unload", "ask_stop"}
    <3>1. phase[c] # "try"
      BY <2>3 DEF TryInOrder, Early
    <3> QED
      BY <1>2, <1>3, <1>4, <1>5, <3>1, ReturnCases
  <2> QED
    BY <1>5, <2>1, <2>2, <2>3 DEF Requests
<1>6. ASSUME pc' = pc, phase' = phase PROVE pc'[d] \in InTry
  BY <1>1, <1>6
<1>7. CASE Begin(c) \/ ReadPidfile(c) \/ Discard(c)
  BY <1>1, <1>7 DEF Begin, ReadPidfile, Discard, Goto, Early
<1>8. CASE Verify(c)
  BY <1>2, <1>4, <1>8 DEF Verify, Early
<1>9. CASE Spawn(c) \/ Open(c) \/ Write(c)
  BY <1>2, <1>4, <1>9 DEF Spawn, Open, Write
<1>10. CASE Send(c)
  BY <1>5, <1>6, <1>10 DEF Send, programVars
<1>11. CASE Receive(c) \/ SeeCrash(c) \/ Timeout(c)
  BY <1>5, <1>11 DEF Receive, SeeCrash, Timeout, EndWait, WaitsInRequest
<1>12. ASSUME pc[c] \notin InTry,
              \/ \E p \in Points : Continue(c, p)
              \/ Raise(c)
              \/ \E o \in Statuses : Conclude(c, o)
       PROVE  pc'[d] \in InTry
  BY <1>2, <1>3, <1>4, <1>12 DEF TryInOrder
<1>13. CASE Deadline(c) \/ Finally(c) \/ Stop(c)
  BY <1>12, <1>13 DEF Deadline, Finally, Stop, Early, Points, Requests, Waits
<1>14. CASE Terminate(c) \/ ExitWait(c) \/ TermWait(c) \/ KillWait(c)
  BY <1>12, <1>14
     DEF Terminate, ExitWait, TermWait, WaitExit, KillWait, Early, Points, Requests, Waits
<1>15. CASE Close(c) \/ Unlink(c)
  BY <1>12, <1>15 DEF Close, Unlink, Early, Points, Statuses
<1>16. CASE Record(c)
  BY <1>1, <1>16 DEF Record, Goto, Early
<1>17. CASE Interrupt(c)
  BY <1>2, <1>3, <1>17 DEF Interrupt
<1>18. CASE ExitCommand(c) \/ Kill(c)
  BY <1>1, <1>18 DEF ExitCommand, Kill, Vanish, Goto
<1>19. CASE Serve(c)
  BY <1>6, <1>19 DEF Serve, programVars
<1>20. CASE EndTask(c) \/ Leave(c) \/ BecomeWaitable(c)
  BY <1>6, <1>20 DEF EndTask, Leave, BecomeWaitable, programVars
<1>21. ASSUME NEW how, GoDown(c, how) PROVE pc'[d] \in InTry
  BY <1>6, <1>21 DEF GoDown, programVars
<1> QED
  BY <1>7, <1>8, <1>9, <1>10, <1>11, <1>13, <1>14, <1>15, <1>16, <1>17, <1>18, <1>19, <1>20, <1>21
     DEF StepOf, CommandStep, WorkerStep, SystemStep

LEMMA OutcomeStep == LifecycleInv /\ OutcomeInv /\ [Next]_vars => OutcomeInv'
<1> SUFFICES ASSUME LifecycleInv, OutcomeInv, [Next]_vars
             PROVE  TryInOrder' /\ \A d \in Controllers : Comes(d)'
  BY ComesIsOutcome
     DEF OutcomeInv, DownInbox, MailInOrder, TurnsInOrder, TryInOrder, StopsInOrder, Comes
<1>1. /\ TypeOK /\ DownIsEmpty /\ WaitsInRequest /\ TryInOrder
      /\ \A d \in Controllers : Comes(d) /\ Local(d)
  BY ComesIsOutcome, LocalIsLifecycle DEF LifecycleInv
<1>2. CASE UNCHANGED vars
  <2>1. ASSUME NEW d \in Controllers PROVE Alone(d)
    BY <1>2 DEF vars, programVars, clientVars, callVars, workerVars, Alone
  <2>2. TryInOrder'
    BY <1>1, <1>2 DEF vars, programVars, TryInOrder
  <2> QED
    BY <1>1, <2>1, <2>2, AloneComes
<1>3. ASSUME NEW c \in Controllers, StepOf(c), NEW d \in Controllers PROVE Comes(d)'
  <2>1. CASE d = c
    BY <1>1, <1>3, <2>1, ComesStep
  <2>2. CASE d # c
    <3>1. Alone(d)
      BY <1>1, <1>3, <2>2, OthersAlone
    <3> QED
      BY <1>1, <3>1, AloneComes
  <2> QED
    BY <2>1, <2>2
<1>4. ASSUME NEW c \in Controllers, StepOf(c) PROVE TryInOrder'
  BY <1>1, <1>4, TryStep
<1> QED
  BY <1>2, <1>3, <1>4 DEF Next, StepOf

LEMMA OutcomeInit == Init => OutcomeInv
<1> SUFFICES ASSUME Init, NEW c \in Controllers PROVE Comes(c)
  BY ComesIsOutcome DEF Init, TryInOrder, Early
<1>1. /\ pc[c] = "idle" /\ status[c] = "running" /\ ~process[c] /\ ~broken[c] /\ wants[c] = "none"
      /\ mail[c] = "none" /\ life[c] = "unborn" /\ inbox[c] = <<>> /\ job[c] = "none"
      /\ mishaps[c] = {}
  BY DEF Init
<1> QED
  BY <1>1 DEF Comes, TurnInOrder, StopInOrder, Early, Awake

(* LifecycleInv and OutcomeInv hold of every behaviour. *)
LEMMA OutcomeHolds == Spec => [](LifecycleInv /\ OutcomeInv)
<1>1. Init => LifecycleInv /\ OutcomeInv
  BY InitInv, OutcomeInit
<1>2. LifecycleInv /\ OutcomeInv /\ [Next]_vars => (LifecycleInv /\ OutcomeInv)'
  BY LifecycleStep, OutcomeStep
<1> QED
  BY <1>1, <1>2, PTL DEF Spec

(* A record is lost only to a worker that went down by itself or survives  *)
(* SIGKILL, to a write_record that raises, or to Ctrl+C that ended the     *)
(* worker's command loop or came after the try clause.  No refusal,        *)
(* timeout, heat, lost pid file or other controller keeps a command from   *)
(* writing it, nor does Ctrl+C during a load or a run that the worker's    *)
(* loop survives.                                                          *)
THEOREM RecordLost == Spec => []RecordLostByFailureOnly
<1>1. OutcomeInv => RecordLostByFailureOnly
  BY DEF OutcomeInv, StopsInOrder, StopInOrder, Undisturbed, RecordLostByFailureOnly
<1> QED
  BY <1>1, OutcomeHolds, PTL

(* A trajectory recorded as completed lost no model to heat between its    *)
(* turns, however many turns it has.                                       *)
THEOREM CompletedModel == Spec => []CompletedOnOneModel
<1>1. OutcomeInv => CompletedOnOneModel
  BY DEF OutcomeInv, TurnsInOrder, TurnInOrder, CompletedOnOneModel
<1> QED
  BY <1>1, OutcomeHolds, PTL
=============================================================================
