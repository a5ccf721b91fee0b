-------------------------- MODULE ClientInvariants --------------------------
(***************************************************************************)
(* The strengthening behind the safety theorems of Client, in named parts, *)
(* and the mappings under which Client implements RemoteCall and contains  *)
(* WorkerProcess.  It is model-checked before it is proved.                *)
(***************************************************************************)
EXTENDS Client

(* Under every fault.                                                      *)

(* What the reader carries at each of its points. *)
ReaderCarries ==
  \A n \in Workers :
    /\ reader[n] = "put" => held[n] # <<>>
    /\ reader[n] = "fail" => verdict[n] \in Crashes

ProcessIsLast == process \in {0, started}

LifecycleHasProcess == ~Idle => process # 0

ReleasedIsDead == lpc \in {"cleanup", "unlink"} => Waitable(process)

RecordInv ==
  /\ TypeOK /\ ReaderCarries /\ ProcessIsLast /\ LifecycleHasProcess /\ ReleasedIsDead
  /\ LiveWorkerIsRecorded

(* When start() waits for the former reader thread.                        *)

(* What verdict v says of process n is so. *)
Truth(n, v) ==
  /\ ~Live(n)
  /\ v = "thermal_hard_stop" => code[n] = "hard_stop"
  /\ v = "worker_crash" /\ code[n] = "hard_stop" => n \in closed \/ "slow_exit" \in Faults

ForgottenIsClosed ==
  /\ process # started => started \in closed
  /\ lpc = "unlink" => process \in closed

ReaderIsLast ==
  \A n \in Workers : reader[n] \notin {"none", "done"} => n = started /\ lpc # "record"

ReaderKnows ==
  \A n \in Workers :
    /\ reader[n] \in {"check", "enter", "wait", "fail"} => ~Live(n) /\ stdout[n] = {}
    /\ reader[n] = "wait" => watch[n] = n
    /\ reader[n] = "fail" => Truth(n, verdict[n])

(* Where a call is tells what is registered, written and answered for it. *)
CallsInOrder ==
  \A c \in Calls :
    /\ gen[c] <= started
    /\ rpc[c] = "waiting" => gen[c] = started /\ started # 0
    /\ c \in pending <=> rpc[c] \in {"write", "waiting", "pop"}
    /\ result[c] \in Crashes => rpc[c] \in {"pop", "returned"}
    /\ c \in replied => rpc[c] \notin {"new", "register", "write"}
    /\ \A n \in Workers : c \in inbox[n] => gen[c] = n /\ rpc[c] \notin {"new", "register", "write"}

(* A final error in a queue is true of the process the call will blame. *)
BoxIsTrue ==
  \A c \in Calls : box[c] \in Crashes =>
    /\ started # 0 /\ rpc[c] \notin {"new", "register"}
    /\ rpc[c] \in {"write", "waiting"} => Truth(started, box[c])

ResultIsTrue ==
  \A c \in Calls : result[c] \in Crashes => gen[c] # 0 /\ Truth(gen[c], result[c])

(* A reply that its call still waits for is in the pipe, in the reader's   *)
(* hands or in the queue, and no error took its place.                     *)
OnItsWay(c) ==
  /\ box[c] \notin Crashes
  /\ \/ \E reply \in Replies : <<c, reply>> \in stdout[started]
     \/ reader[started] = "put" /\ held[started][1] = c
     \/ box[c] \in Replies

AnswerOnItsWay == \A c \in Calls : c \in replied /\ rpc[c] = "waiting" => OnItsWay(c)

BlameInv ==
  /\ ForgottenIsClosed /\ ReaderIsLast /\ ReaderKnows /\ CallsInOrder /\ BoxIsTrue
  /\ ResultIsTrue /\ AnswerOnItsWay /\ AnsweredNotBlamed

-----------------------------------------------------------------------------
(* What a call returns, under every fault.                                 *)

(* stdin of a live worker stays open: only a process that can be waited    *)
(* for is cleaned up.                                                      *)
ClosedIsDead == \A n \in Workers : stdin[n] = "closed" => n <= started /\ Waitable(n)

(* A process exits once. *)
ExitsOnce == \A n \in Workers : n > started \/ Live(n) => code[n] = "none"

(* A call has one line and one end. *)
CallsOnce ==
  \A c \in Calls :
    /\ rpc[c] \in {"new", "register", "write"} => gen[c] = 0
    /\ rpc[c] = "waiting" => gen[c] # 0
    /\ rpc[c] \in {"new", "register", "write", "waiting"} => result[c] = "none"
    /\ rpc[c] \in {"pop", "returned"} => result[c] # "none"

(* A line is in a pipe as long as it has no reply, and it was written by   *)
(* the call it names.                                                      *)
LinesOnce ==
  \A c \in Calls :
    /\ \A n \in Workers : c \in inbox[n] => gen[c] = n /\ c \notin replied
    /\ c \in replied => gen[c] # 0

(* A reply in the pipe, in the reader's hands or in a queue was written by *)
(* a worker, for that call.                                                *)
RepliesAreTrue ==
  /\ \A n \in Workers : stdout[n] \subseteq answers /\ held[n] \in answers \cup {<<>>}
  /\ \A c \in Calls : box[c] \in Replies => <<c, box[c]>> \in answers

ReplyInv == ClosedIsDead /\ ExitsOnce /\ CallsOnce /\ LinesOnce /\ RepliesAreTrue

-----------------------------------------------------------------------------
(* Client implements RemoteCall. *)
Remote == INSTANCE RemoteCall
            WITH current <- started, up <- started # 0 /\ Live(started),
                 hard <- {n \in Workers : code[n] = "hard_stop"}, target <- gen

(* How a call of request() ends is true of its line and of its worker: see *)
(* RemoteCall.                                                             *)
ImplementsRemoteCall == Remote!Spec

(* Each worker process of Client, as a WorkerProcess. *)
Process(n) == INSTANCE WorkerProcess
                WITH Lines <- Calls, life <- life[n], code <- code[n], inbox <- inbox[n],
                     stops <- stops \cap replied
=============================================================================
