------------------------------- MODULE Worker -------------------------------
(***************************************************************************)
(* The worker process (app/worker/worker.py): run_forever calls            *)
(* process_once, which takes one entry off the queue, loads the job in a   *)
(* session of its own and runs it.  A step ends where the process has done *)
(* one thing another process can see: a Redis command or a commit.         *)
(*                                                                         *)
(*   idle      at the top of the loop                                      *)
(*   picked    dequeue: ZRANGEBYSCORE returned wjob, ZREM not sent yet     *)
(*   claimed   dequeue: ZREM removed the entry                             *)
(*   loaded    the row is read, in wrow                                    *)
(*   assigned  _mark_assigned committed                                    *)
(*   running   _run_job committed RUNNING; the executor is at work         *)
(*   requeued  _handle_failure: the entry is back, nothing committed yet   *)
(*   buried    _handle_failure: the job is in the DLQ, nothing committed   *)
(*   crashed   the process is gone (killed, or an error of Redis or of the *)
(*             database left process_once: run_forever catches none)       *)
(***************************************************************************)
EXTENDS JobQueue

CONSTANT Mortal  (* Bound: the workers that may crash in a run.            *)

ASSUME MortalAssumption == Mortal \subseteq Workers

VARIABLES
  wpc,    (* Where each worker is.                                         *)
  wjob,   (* job_id of process_once.                                       *)
  wrow    (* The job as the worker's session last loaded or committed it.  *)

workerVars == << wpc, wjob, wrow >>

(* The steps at which a worker has an entry's ticket.                      *)
Holding == { "claimed", "loaded", "assigned", "running" }

WorkerSteps == Holding \cup { "idle", "picked", "requeued", "buried", "crashed" }

WorkerTypeOK ==
  /\ wpc \in [ Workers -> WorkerSteps ]
  /\ wjob \in [ Workers -> Jobs \cup {None} ]
  /\ \A w \in Workers : wjob[w] = None <=> wpc[w] \in {"idle", "crashed"}
  /\ wrow \in [ Workers -> Row ]

WorkerInit ==
  /\ wpc = [ w \in Workers |-> "idle" ]
  /\ wjob = [ w \in Workers |-> None ]
  /\ wrow = [ w \in Workers |-> NoRow ]

Goto(w, step) == wpc' = [ wpc EXCEPT ![w] = step ]

(* Fault: process_once returns and forgets to let the job go.              *)
LeaveWithJob(w, step) ==
  /\ Goto(w, step)
  /\ wrow' = [ wrow EXCEPT ![w] = NoRow ]
  /\ UNCHANGED wjob

(* process_once ends (or the process does) and its session is closed.      *)
Leave(w, step) ==
  /\ Goto(w, step)
  /\ wjob' = [ wjob EXCEPT ![w] = None ]
  /\ wrow' = [ wrow EXCEPT ![w] = NoRow ]

(* db.commit() with these attribute values on the worker's object.         *)
Save(w, current) == Commit(wjob[w], wrow[w], current)

SaveAndGoto(w, current, step) ==
  /\ Save(w, current)
  /\ wrow' = [ wrow EXCEPT ![w] = current ]
  /\ Goto(w, step)
  /\ UNCHANGED << wjob, redisVars, historyVars >>

SaveAndLeave(w, current) ==
  /\ Save(w, current)
  /\ Leave(w, "idle")
  /\ UNCHANGED << redisVars, historyVars >>

-----------------------------------------------------------------------------
(* dequeue, first command: the entry with the lowest score in range.       *)
DequeuePick(w) ==
  /\ wpc[w] = "idle"
  /\ \E j \in Jobs :
       /\ Order!IsHead(j)
       /\ wjob' = [ wjob EXCEPT ![w] = j ]
  /\ Goto(w, "picked")
  /\ UNCHANGED << wrow, rows, redisVars, historyVars >>

(* Fault: dequeue returns the job whatever ZREM answers.                   *)
DequeueRegardless(w) ==
  /\ wpc[w] = "picked"
  /\ Remove(wjob[w])
  /\ Goto(w, "claimed")
  /\ UNCHANGED << wjob, wrow, rows, dlq, historyVars >>

(* dequeue, second command: another process may have removed it first.     *)
DequeueRemove(w) ==
  /\ wpc[w] = "picked"
  /\ Queued(wjob[w])
  /\ Remove(wjob[w])
  /\ Goto(w, "claimed")
  /\ UNCHANGED << wjob, wrow, rows, dlq, historyVars >>

DequeueMiss(w) ==
  /\ wpc[w] = "picked"
  /\ ~Queued(wjob[w])
  /\ Leave(w, "idle")
  /\ UNCHANGED << rows, redisVars, historyVars >>

Skipped == { "ABSENT", "CANCELLED", "COMPLETED" }

(* The row is not there, or says there is nothing to do: the entry, which  *)
(* has left the queue, is dropped.                                         *)
SkipJob(w) ==
  /\ wpc[w] = "claimed"
  /\ rows[wjob[w]].status \in Skipped
  /\ Leave(w, "idle")
  /\ UNCHANGED << rows, redisVars, historyVars >>

LoadJob(w) ==
  /\ wpc[w] = "claimed"
  /\ rows[wjob[w]].status \notin Skipped
  /\ wrow' = [ wrow EXCEPT ![w] = rows[wjob[w]] ]
  /\ Goto(w, "loaded")
  /\ UNCHANGED << wjob, rows, redisVars, historyVars >>

MarkAssigned(w) ==
  /\ wpc[w] = "loaded"
  /\ SaveAndGoto(w, [ wrow[w] EXCEPT !.status = "ASSIGNED", !.worker_id = w ],
                 "assigned")

StartRun(w) ==
  /\ wpc[w] = "assigned"
  /\ SaveAndGoto(w, [ wrow[w] EXCEPT !.status = "RUNNING" ], "running")

(* The executor returned.                                                  *)
CompleteRun(w) ==
  /\ wpc[w] = "running"
  /\ SaveAndLeave(w, [ wrow[w] EXCEPT !.status = "COMPLETED",
                                      !.error_message = None ])

CountFailure(j) ==
  /\ failures' = [ failures EXCEPT ![j] = IF @ <= MaxRetries[j] THEN @ + 1 ELSE @ ]
  /\ UNCHANGED << reissues, withdrawn >>

(* The executor raised: _handle_failure up to its Redis command.           *)
RequeueFailed(w) ==
  /\ wpc[w] = "running"
  /\ wrow[w].retry_count + 1 <= MaxRetries[wjob[w]]
  /\ Enqueue(wjob[w], "delayed")
  /\ CountFailure(wjob[w])
  /\ Goto(w, "requeued")
  /\ UNCHANGED << wjob, wrow, rows, dlq >>

(* Fault: a job that has used its retries up also goes back to the queue.  *)
BuryAndRequeue(w) ==
  /\ wpc[w] = "running"
  /\ wrow[w].retry_count + 1 > MaxRetries[wjob[w]]
  /\ dlq' = dlq \cup {wjob[w]}
  /\ Enqueue(wjob[w], "due")
  /\ CountFailure(wjob[w])
  /\ Goto(w, "buried")
  /\ UNCHANGED << wjob, wrow, rows >>

(* Fault: the DLQ is left for after the commit, and then forgotten.        *)
BuryUnrecorded(w) ==
  /\ wpc[w] = "running"
  /\ wrow[w].retry_count + 1 > MaxRetries[wjob[w]]
  /\ CountFailure(wjob[w])
  /\ Goto(w, "buried")
  /\ UNCHANGED << wjob, wrow, rows, redisVars >>

(* Fault: >= for >, one retry less than promised.                          *)
BuryEarly(w) ==
  /\ wpc[w] = "running"
  /\ wrow[w].retry_count + 1 >= MaxRetries[wjob[w]]
  /\ dlq' = dlq \cup {wjob[w]}
  /\ CountFailure(wjob[w])
  /\ Goto(w, "buried")
  /\ UNCHANGED << wjob, wrow, rows, queue >>

BuryFailed(w) ==
  /\ wpc[w] = "running"
  /\ wrow[w].retry_count + 1 > MaxRetries[wjob[w]]
  /\ dlq' = dlq \cup {wjob[w]}
  /\ CountFailure(wjob[w])
  /\ Goto(w, "buried")
  /\ UNCHANGED << wjob, wrow, rows, queue >>

(* Fault: the entry is put back before the commit and again after it.      *)
RetryTwice(w) ==
  /\ wpc[w] = "requeued"
  /\ \E e \in Errors :
       /\ Save(w, [ wrow[w] EXCEPT !.status = "RETRYING",
                                    !.retry_count = @ + 1,
                                    !.worker_id = None,
                                    !.error_message = e ])
       /\ Leave(w, "idle")
  /\ Enqueue(wjob[w], "delayed")
  /\ UNCHANGED << dlq, historyVars >>

(* Fault: the retry count is not incremented.                              *)
RetryUncounted(w) ==
  /\ wpc[w] = "requeued"
  /\ \E e \in Errors :
       SaveAndLeave(w, [ wrow[w] EXCEPT !.status = "RETRYING",
                                        !.worker_id = None,
                                        !.error_message = e ])

(* _handle_failure, its commit.  FAILED was assigned before RETRYING or    *)
(* DEAD replaced it on the object, and is never flushed.                   *)
CommitRetrying(w) ==
  /\ wpc[w] = "requeued"
  /\ \E e \in Errors :
       SaveAndLeave(w, [ wrow[w] EXCEPT !.status = "RETRYING",
                                        !.retry_count = @ + 1,
                                        !.worker_id = None,
                                        !.error_message = e ])

(* Fault: the job is in the DLQ, and nothing replaces FAILED.              *)
CommitFailed(w) ==
  /\ wpc[w] = "buried"
  /\ \E e \in Errors :
       SaveAndLeave(w, [ wrow[w] EXCEPT !.status = "FAILED",
                                        !.retry_count = @ + 1,
                                        !.error_message = e ])

CommitDead(w) ==
  /\ wpc[w] = "buried"
  /\ \E e \in Errors :
       SaveAndLeave(w, [ wrow[w] EXCEPT !.status = "DEAD",
                                        !.retry_count = @ + 1,
                                        !.error_message = e ])

Crash(w) ==
  /\ w \in Mortal
  /\ wpc[w] # "crashed"
  /\ Leave(w, "crashed")
  /\ UNCHANGED << rows, redisVars, historyVars >>

ProcessOnce(w) ==
  \/ DequeuePick(w)
  \/ DequeueRemove(w)
  \/ DequeueMiss(w)
  \/ SkipJob(w)
  \/ LoadJob(w)
  \/ MarkAssigned(w)
  \/ StartRun(w)
  \/ CompleteRun(w)
  \/ RequeueFailed(w)
  \/ BuryFailed(w)
  \/ CommitRetrying(w)
  \/ CommitDead(w)

WorkerNext == \E w \in Workers : ProcessOnce(w) \/ Crash(w)

=============================================================================
