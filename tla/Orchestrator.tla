---------------------------- MODULE Orchestrator ----------------------------
(***************************************************************************)
(* The job life cycle: the API's handlers and the worker processes over    *)
(* one jobs table and one Redis queue.  A handler and a worker share no    *)
(* lock and no transaction: Redis and the table are written one after the  *)
(* other, so every step of a process interleaves with every step of the    *)
(* others.                                                                 *)
(***************************************************************************)
EXTENDS Worker, JobsApi, FiniteSets

vars == << rows, redisVars, historyVars, workerVars, apiVars >>

Init == RowsInit /\ QueueInit /\ WorkerInit /\ ApiInit

Next ==
  \/ WorkerNext /\ UNCHANGED apiVars
  \/ ApiNext /\ UNCHANGED workerVars
  \/ \E j \in Jobs : Elapse(j) /\ UNCHANGED << rows, workerVars, apiVars >>

Spec == Init /\ [][Next]_vars

(* A process that is up goes on with what it began, an executor returns or *)
(* raises, and time passes.  Nobody has to make a request or to crash.     *)
Fairness ==
  /\ \A w \in Workers : WF_vars(ProcessOnce(w) /\ UNCHANGED apiVars)
  /\ \A t \in Threads : WF_vars(Proceed(t) /\ UNCHANGED workerVars)
  /\ \A j \in Jobs :
       WF_vars(Elapse(j) /\ UNCHANGED << rows, workerVars, apiVars >>)

FairSpec == Spec /\ Fairness

-----------------------------------------------------------------------------
TypeOK == RowsTypeOK /\ QueueTypeOK /\ WorkerTypeOK /\ ApiTypeOK

Holds(w, j) == wjob[w] = j /\ wpc[w] \in Holding

Ticketed(j) == Queued(j) \/ \E w \in Workers : Holds(w, j)

(* No operator has begun to re-issue the job.                              *)
Untouched(j) == reissues[j] = 0

(* The job is over: it succeeded, was given up or was withdrawn.           *)
Settled(j) ==
  \/ rows[j].status \in {"COMPLETED", "DEAD"}
  \/ j \in dlq
  \/ j \in withdrawn

(* A job is never executed by two workers at once, nor waiting in the      *)
(* queue while one executes it, whatever crashes or breaks off: the worker *)
(* whose ZREM removed the entry is the only one to run the job.            *)
ExclusiveExecution ==
  \A j \in Jobs, w \in Workers :
    Untouched(j) /\ Holds(w, j) =>
      /\ ~Queued(j)
      /\ \A v \in Workers : Holds(v, j) => v = w

(* A job that completed, that is dead or in the DLQ, or whose entry        *)
(* cancel_job took out of the queue is not queued and not executed again.  *)
SettledIsOver ==
  \A j \in Jobs : Untouched(j) /\ Settled(j) => ~Ticketed(j)

(* A row that says DEAD can be found in the DLQ: _handle_failure writes    *)
(* the DLQ before it commits, so no crash between the two loses the job.   *)
DeadIsInDlq ==
  \A j \in Jobs : Untouched(j) /\ rows[j].status = "DEAD" => j \in dlq

(* No job is given up before it failed max_retries + 1 times, however the  *)
(* retry counts of stale sessions overwrite each other.                    *)
NotGivenUpEarly ==
  \A j \in Jobs :
    j \in dlq \/ rows[j].status = "DEAD" => failures[j] > MaxRetries[j]

(* Each re-issue of a job grants it one ticket more, and nothing else      *)
(* does: n calls that re-issue one job at once make n executions of it at  *)
(* most, beside the one it may already have.                               *)
TicketsAreCounted ==
  \A j \in Jobs :
    Cardinality({ w \in Workers : Holds(w, j) }) + (IF Queued(j) THEN 1 ELSE 0)
      <= 1 + reissues[j]

-----------------------------------------------------------------------------
(* The inductive invariant behind these (OrchestratorProofs.tla).          *)

(* Nothing knows a job before create_job has generated its id.             *)
FreshIsUnknown ==
  \A j \in Jobs \ issued :
    /\ ~Visible(j) /\ ~Queued(j) /\ j \notin dlq /\ j \notin withdrawn
    /\ \A w \in Workers : wjob[w] # j
    /\ \A t \in Threads : tjob[t] # j

(* A worker about to commit DEAD has written the DLQ.                      *)
BuriedIsInDlq ==
  \A w \in Workers :
    wpc[w] = "buried" /\ Untouched(wjob[w]) => wjob[w] \in dlq

ReissueIsCounted ==
  \A t \in Threads :
    tpc[t] \in {"reissuing", "exhumed", "reentered"} => ~Untouched(tjob[t])

(* A retry count stands for failures that did happen (up to the bound of   *)
(* the history variable).                                                  *)
Backed(j, count) == count <= failures[j] \/ failures[j] > MaxRetries[j]

CountsAreBacked ==
  /\ \A j \in Jobs : Backed(j, rows[j].retry_count)
  /\ \A w \in Workers :
       /\ wpc[w] \in {"loaded", "assigned", "running"} =>
            Backed(wjob[w], wrow[w].retry_count)
       /\ wpc[w] = "requeued" => Backed(wjob[w], wrow[w].retry_count + 1)
       /\ wpc[w] = "buried" => failures[wjob[w]] > MaxRetries[wjob[w]]

TicketInv ==
  /\ TypeOK
  /\ FreshIsUnknown
  /\ ReissueIsCounted
  /\ BuriedIsInDlq
  /\ ExclusiveExecution
  /\ SettledIsOver
  /\ DeadIsInDlq

CountInv == TypeOK /\ CountsAreBacked /\ NotGivenUpEarly

-----------------------------------------------------------------------------
(* The refinement mapping: where the ticket of a job is.                   *)
TicketOf(j) ==
  IF ~Untouched(j) THEN "void"
  ELSE IF Queued(j) THEN "waiting"
  ELSE IF \E w \in Workers : Holds(w, j)
       THEN CHOOSE w \in Workers : Holds(w, j)
       ELSE IF j \in issued THEN "spent" ELSE "new"

Tickets == INSTANCE Ticket WITH ticket <- [ j \in Jobs |-> TicketOf(j) ]

(* Every step of the API and of the workers moves a ticket the way Ticket  *)
(* allows, or moves none.                                                  *)
ImplementsTicket == Tickets!Spec

Table == INSTANCE JobTable WITH
  status <- [ j \in Jobs |-> rows[j].status ], dead <- dlq

(* What the dashboards' pages rely on (JobPages.tla): a row that is there  *)
(* stays, appears as QUEUED, and is never committed as CREATED or FAILED,  *)
(* and the DLQ gets no job without a row, whatever stale sessions write.   *)
ImplementsJobTable == Table!TableSpec

(* When operators stop re-issuing a job (ReissueLimit), its executions     *)
(* come to an end: it leaves the queue and the workers for good.  The      *)
(* retries are finite although stale sessions overwrite the counts, and no *)
(* job starves behind entries of a higher priority.                        *)
EveryJobSettles == \A j \in Jobs : <>[]~Ticketed(j)

-----------------------------------------------------------------------------
(* What the dashboard and the tests say of jobs nobody re-issues, and the  *)
(* code does not keep.                                                     *)

(* dashboard/user_app.py:832 tells the owner of a QUEUED job that it is    *)
(* "Waiting for a worker to pick up this job."  create_job enqueues before *)
(* it commits: a worker that is faster than the commit finds no row, drops *)
(* the entry, and the row stays QUEUED for ever.                           *)
QueuedIsPickedUp ==
  \A j \in Jobs : rows[j].status = "QUEUED" ~> rows[j].status # "QUEUED"

(* dashboard/user_app.py:599 explains max_retries as "How many times to    *)
(* retry before moving to Dead Letter Queue".  _handle_failure puts the    *)
(* entry back before it commits the count: the next worker starts from the *)
(* old count, and a job that has used its retries up is retried again.     *)
RetriesAreLimited ==
  \A j \in Jobs : Untouched(j) /\ Queued(j) => failures[j] <= MaxRetries[j]

(* dashboard/user_app.py:835 says of a RETRYING job "Job failed and is      *)
(* waiting to retry."  The next worker may run the entry to its end before *)
(* the commit of _handle_failure, which then writes RETRYING over          *)
(* COMPLETED or DEAD: nothing waits, and the outcome is lost.              *)
RetryingIsWaiting ==
  \A j \in Jobs : Untouched(j) /\ rows[j].status = "RETRYING" => Ticketed(j)

(* tests/test_job_model.py:48, test_cancelled_only_from_queued: the commit *)
(* of cancel_job finds the job still QUEUED.  A worker may have taken it   *)
(* since cancel_job looked, and the answer of ZREM is ignored.             *)
CancelledOnlyFromQueued ==
  [][ \A j \in Jobs :
        rows[j].status # "CANCELLED" /\ rows'[j].status = "CANCELLED"
          => rows[j].status = "QUEUED" ]_vars

=============================================================================
