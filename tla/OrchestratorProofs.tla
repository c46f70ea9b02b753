------------------------- MODULE OrchestratorProofs -------------------------
(***************************************************************************)
(* Proofs about Orchestrator for every set of jobs, workers and threads,   *)
(* every priority and retry limit, and every choice of what may crash.     *)
(***************************************************************************)
EXTENDS Orchestrator, TLAPS

-----------------------------------------------------------------------------
(* The rows the code builds, and what a flush makes of them, are rows.     *)

LEMMA RowConstants == NoRow \in Row /\ NewRow \in Row
BY JobAssumption DEF NoRow, NewRow, Row, JobStatus

(* The UPDATE of app/core/database.py's session leaves a row.              *)
LEMMA FlushType ==
  ASSUME NEW stored \in Row, NEW loaded \in Row, NEW current \in Row
  PROVE  Flush(stored, loaded, current) \in Row
BY DEF Flush, Column, Row

LEMMA CommitType ==
  ASSUME NEW j \in Jobs, NEW loaded \in Row, NEW current \in Row,
         RowsTypeOK, Commit(j, loaded, current)
  PROVE  RowsTypeOK'
<1>1. Flush(rows[j], loaded, current) \in Row
  BY FlushType DEF RowsTypeOK
<1> QED BY <1>1 DEF RowsTypeOK, Commit

(* Every row a worker commits: its own copy with some columns assigned.    *)
LEMMA WorkerRows ==
  ASSUME NEW r \in Row, NEW w \in Workers, NEW e \in Errors
  PROVE  /\ [ r EXCEPT !.status = "ASSIGNED", !.worker_id = w ] \in Row
         /\ [ r EXCEPT !.status = "RUNNING" ] \in Row
         /\ [ r EXCEPT !.status = "COMPLETED", !.error_message = None ] \in Row
         /\ [ r EXCEPT !.status = "RETRYING", !.retry_count = @ + 1,
                       !.worker_id = None, !.error_message = e ] \in Row
         /\ [ r EXCEPT !.status = "DEAD", !.retry_count = @ + 1,
                       !.error_message = e ] \in Row
         /\ [ r EXCEPT !.status = "CANCELLED" ] \in Row
<1>1. [ r EXCEPT !.status = "ASSIGNED", !.worker_id = w ] \in Row
  BY DEF Row, JobStatus
<1>2. [ r EXCEPT !.status = "RUNNING" ] \in Row
  BY DEF Row, JobStatus
<1>3. [ r EXCEPT !.status = "COMPLETED", !.error_message = None ] \in Row
  BY DEF Row, JobStatus
<1>4. r.retry_count + 1 \in Nat
  BY DEF Row
<1>5. [ r EXCEPT !.status = "RETRYING", !.retry_count = @ + 1,
                 !.worker_id = None, !.error_message = e ] \in Row
  BY <1>4 DEF Row, JobStatus
<1>6. [ r EXCEPT !.status = "DEAD", !.retry_count = @ + 1,
                 !.error_message = e ] \in Row
  BY <1>4 DEF Row, JobStatus
<1>7. [ r EXCEPT !.status = "CANCELLED" ] \in Row
  BY DEF Row, JobStatus
<1> QED BY <1>1, <1>2, <1>3, <1>5, <1>6, <1>7

-----------------------------------------------------------------------------
(* Type correctness.                                                       *)

LEMMA TypeInit == Init => TypeOK
BY RowConstants, JobAssumption
   DEF Init, RowsInit, QueueInit, WorkerInit, ApiInit, TypeOK, RowsTypeOK,
       QueueTypeOK, WorkerTypeOK, ApiTypeOK, WorkerSteps, ThreadSteps, Holding

(* A step of a worker that goes on with the job it has.                    *)
LEMMA GotoType ==
  ASSUME WorkerTypeOK, NEW w \in Workers, wjob[w] \in Jobs,
         NEW step \in WorkerSteps \ {"idle", "crashed"},
         Goto(w, step), UNCHANGED wjob, wrow' \in [ Workers -> Row ]
  PROVE  WorkerTypeOK'
BY JobAssumption DEF WorkerTypeOK, Goto, WorkerSteps

LEMMA LeaveType ==
  ASSUME WorkerTypeOK, NEW w \in Workers, NEW step \in {"idle", "crashed"},
         Leave(w, step)
  PROVE  WorkerTypeOK'
BY JobAssumption, RowConstants DEF WorkerTypeOK, Leave, Goto, WorkerSteps

LEMMA TypeWorker ==
  ASSUME TypeOK, NEW w \in Workers, ProcessOnce(w) \/ Crash(w),
         UNCHANGED apiVars
  PROVE  TypeOK'
<1> USE JobAssumption DEF TypeOK, Holding
<1>1. ApiTypeOK'
  BY DEF ApiTypeOK, apiVars
<1>2. wrow[w] \in Row /\ (wpc[w] \notin {"idle", "crashed"} => wjob[w] \in Jobs)
  BY DEF WorkerTypeOK
<1>3. CASE DequeuePick(w)
  <2>1. WorkerTypeOK'
    BY <1>3 DEF DequeuePick, Goto, WorkerTypeOK, WorkerSteps
  <2> QED BY <1>1, <1>3, <2>1
          DEF DequeuePick, RowsTypeOK, QueueTypeOK, redisVars, historyVars
<1>4. CASE DequeueRemove(w)
  <2>1. WorkerTypeOK'
    BY <1>2, <1>4, GotoType DEF DequeueRemove, WorkerTypeOK, WorkerSteps
  <2> QED BY <1>1, <1>4, <2>1
          DEF DequeueRemove, Remove, RowsTypeOK, QueueTypeOK, historyVars
<1>5. CASE DequeueMiss(w) \/ SkipJob(w) \/ Crash(w)
  <2>1. WorkerTypeOK'
    BY <1>5, LeaveType DEF DequeueMiss, SkipJob, Crash
  <2> QED BY <1>1, <1>5, <2>1
          DEF DequeueMiss, SkipJob, Crash, RowsTypeOK, QueueTypeOK, redisVars,
              historyVars
<1>6. CASE LoadJob(w)
  <2>1. wrow' \in [ Workers -> Row ]
    BY <1>2, <1>6 DEF LoadJob, WorkerTypeOK, RowsTypeOK
  <2>2. WorkerTypeOK'
    BY <1>2, <1>6, <2>1, GotoType DEF LoadJob, WorkerSteps
  <2> QED BY <1>1, <1>6, <2>2
          DEF LoadJob, RowsTypeOK, QueueTypeOK, redisVars, historyVars
<1>7. ASSUME NEW current \in Row, NEW step \in WorkerSteps \ {"idle", "crashed"},
             wpc[w] \notin {"idle", "crashed"}, SaveAndGoto(w, current, step)
      PROVE  TypeOK'
  <2>1. RowsTypeOK'
    BY <1>2, <1>7, CommitType DEF SaveAndGoto, Save
  <2>2. wrow' \in [ Workers -> Row ]
    BY <1>7 DEF SaveAndGoto, WorkerTypeOK
  <2>3. WorkerTypeOK'
    BY <1>2, <1>7, <2>2, GotoType DEF SaveAndGoto
  <2> QED BY <1>1, <1>7, <2>1, <2>3
          DEF SaveAndGoto, QueueTypeOK, redisVars, historyVars
<1>8. ASSUME NEW current \in Row, wpc[w] \notin {"idle", "crashed"},
             SaveAndLeave(w, current)
      PROVE  TypeOK'
  <2>1. RowsTypeOK'
    BY <1>2, <1>8, CommitType DEF SaveAndLeave, Save
  <2>2. WorkerTypeOK'
    BY <1>8, LeaveType DEF SaveAndLeave
  <2> QED BY <1>1, <1>8, <2>1, <2>2
          DEF SaveAndLeave, QueueTypeOK, redisVars, historyVars
<1>9. CASE MarkAssigned(w)
  <2>1. [ wrow[w] EXCEPT !.status = "ASSIGNED", !.worker_id = w ] \in Row
    BY <1>2 DEF Row, JobStatus
  <2> QED BY <1>7, <1>9, <2>1 DEF MarkAssigned, WorkerSteps
<1>10. CASE StartRun(w)
  <2>1. [ wrow[w] EXCEPT !.status = "RUNNING" ] \in Row
    BY <1>2 DEF Row, JobStatus
  <2> QED BY <1>7, <1>10, <2>1 DEF StartRun, WorkerSteps
<1>11. CASE CompleteRun(w)
  <2>1. [ wrow[w] EXCEPT !.status = "COMPLETED", !.error_message = None ] \in Row
    BY <1>2 DEF Row, JobStatus
  <2> QED BY <1>8, <1>11, <2>1 DEF CompleteRun
<1>12. CASE RequeueFailed(w) \/ BuryFailed(w)
  <2>1. failures' \in [ Jobs -> Nat ]
    BY <1>12 DEF RequeueFailed, BuryFailed, CountFailure, QueueTypeOK
  <2>2. WorkerTypeOK'
    BY <1>2, <1>12, GotoType
       DEF RequeueFailed, BuryFailed, WorkerTypeOK, WorkerSteps
  <2> QED BY <1>1, <1>2, <1>12, <2>1, <2>2
          DEF RequeueFailed, BuryFailed, CountFailure, Enqueue, RowsTypeOK,
              QueueTypeOK
<1>13. CASE CommitRetrying(w) \/ CommitDead(w)
  BY <1>2, <1>8, <1>13, WorkerRows DEF CommitRetrying, CommitDead
<1> QED BY <1>3, <1>4, <1>5, <1>6, <1>9, <1>10, <1>11, <1>12, <1>13
        DEF ProcessOnce

(* A call that begins, goes on or ends keeps the API's variables in type.  *)
LEMMA BeginType ==
  ASSUME ApiTypeOK, NEW t \in Threads, NEW j \in Jobs, NEW row \in Row,
         NEW step \in ThreadSteps \ {"idle"}, Begin(t, j, row, step),
         issued' \subseteq Jobs
  PROVE  ApiTypeOK'
BY JobAssumption DEF ApiTypeOK, Begin, ThreadSteps

LEMMA AdvanceType ==
  ASSUME ApiTypeOK, NEW t \in Threads, NEW from \in ThreadSteps \ {"idle"},
         NEW to \in ThreadSteps \ {"idle"}, Advance(t, from, to)
  PROVE  ApiTypeOK' /\ tjob[t] \in Jobs
BY JobAssumption DEF ApiTypeOK, Advance, ThreadSteps

LEMMA FinishType ==
  ASSUME ApiTypeOK, NEW t \in Threads, Finish(t)
  PROVE  ApiTypeOK'
BY JobAssumption, RowConstants DEF ApiTypeOK, Finish, ThreadSteps

LEMMA TypeApi ==
  ASSUME TypeOK, NEW t \in Threads, Request(t) \/ Proceed(t) \/ Abort(t),
         UNCHANGED workerVars
  PROVE  TypeOK'
<1> USE JobAssumption, RowConstants DEF TypeOK
<1>1. WorkerTypeOK'
  BY DEF WorkerTypeOK, workerVars
<1>2. trow[t] \in Row /\ (tpc[t] # "idle" => tjob[t] \in Jobs)
  BY DEF ApiTypeOK
<1>3. CASE CreateEnqueue(t)
  <2>1. ApiTypeOK'
    <3> PICK j \in Jobs \ issued :
          Begin(t, j, NoRow, "creating") /\ issued' = issued \cup {j}
      BY <1>3 DEF CreateEnqueue
    <3> QED BY BeginType DEF ApiTypeOK, ThreadSteps
  <2> QED BY <1>1, <1>3, <2>1
          DEF CreateEnqueue, Enqueue, RowsTypeOK, QueueTypeOK, historyVars
<1>4. CASE CreateCommit(t)
  <2>1. ApiTypeOK'
    BY <1>4, FinishType DEF CreateCommit
  <2> QED BY <1>1, <1>4, <2>1
          DEF CreateCommit, RowsTypeOK, QueueTypeOK, redisVars, historyVars
<1>5. CASE CancelRead(t)
  <2>1. ApiTypeOK'
    BY <1>5, BeginType DEF CancelRead, ApiTypeOK, RowsTypeOK, ThreadSteps
  <2> QED BY <1>1, <1>5, <2>1
          DEF CancelRead, RowsTypeOK, QueueTypeOK, redisVars, historyVars
<1>6. CASE CancelRemove(t)
  <2>1. ApiTypeOK' /\ tjob[t] \in Jobs
    BY <1>6, AdvanceType DEF CancelRemove, ThreadSteps
  <2> QED BY <1>1, <1>6, <2>1 DEF CancelRemove, Remove, RowsTypeOK, QueueTypeOK
<1>7. CASE CancelCommit(t)
  <2>1. [ trow[t] EXCEPT !.status = "CANCELLED" ] \in Row
    BY <1>2 DEF Row, JobStatus
  <2>2. RowsTypeOK'
    BY <1>2, <1>7, <2>1, CommitType DEF CancelCommit
  <2>3. ApiTypeOK'
    BY <1>7, FinishType DEF CancelCommit
  <2> QED BY <1>1, <1>7, <2>2, <2>3
          DEF CancelCommit, QueueTypeOK, redisVars, historyVars
<1>8. CASE RetryRead(t) \/ RequeueRead(t)
  <2> PICK j \in Jobs : BeginReissue(t, j)
    BY <1>8 DEF RetryRead, RequeueRead
  <2>1. ApiTypeOK'
    BY BeginType DEF BeginReissue, ApiTypeOK, RowsTypeOK, ThreadSteps
  <2> QED BY <1>1, <2>1 DEF BeginReissue, RowsTypeOK, QueueTypeOK, redisVars
<1>9. CASE ReissueRemoveFromDlq(t)
  <2>1. ApiTypeOK'
    BY <1>9, AdvanceType DEF ReissueRemoveFromDlq, ThreadSteps
  <2> QED BY <1>1, <1>9, <2>1
          DEF ReissueRemoveFromDlq, RowsTypeOK, QueueTypeOK, historyVars
<1>10. CASE ReissueEnqueue(t)
  <2>1. ApiTypeOK' /\ tjob[t] \in Jobs
    BY <1>10, AdvanceType DEF ReissueEnqueue, ThreadSteps
  <2> QED BY <1>1, <1>10, <2>1
          DEF ReissueEnqueue, Enqueue, RowsTypeOK, QueueTypeOK, historyVars
<1>11. CASE ReissueCommit(t)
  <2>1. RowsTypeOK'
    BY <1>2, <1>11, CommitType DEF ReissueCommit
  <2>2. ApiTypeOK'
    BY <1>11, FinishType DEF ReissueCommit
  <2> QED BY <1>1, <1>11, <2>1, <2>2
          DEF ReissueCommit, QueueTypeOK, redisVars, historyVars
<1>12. CASE Abort(t)
  <2>1. ApiTypeOK'
    BY <1>12, FinishType DEF Abort
  <2> QED BY <1>1, <1>12, <2>1
          DEF Abort, RowsTypeOK, QueueTypeOK, redisVars, historyVars
<1> QED BY <1>3, <1>4, <1>5, <1>6, <1>7, <1>8, <1>9, <1>10, <1>11, <1>12
        DEF Request, Proceed

LEMMA TypeNext == TypeOK /\ [Next]_vars => TypeOK'
<1> SUFFICES ASSUME TypeOK, [Next]_vars PROVE TypeOK'
  OBVIOUS
<1>1. CASE WorkerNext /\ UNCHANGED apiVars
  BY <1>1, TypeWorker DEF WorkerNext
<1>2. CASE ApiNext /\ UNCHANGED workerVars
  BY <1>2, TypeApi DEF ApiNext
<1>3. ASSUME NEW j \in Jobs,
             Elapse(j) /\ UNCHANGED << rows, workerVars, apiVars >>
      PROVE  TypeOK'
  BY <1>3 DEF Elapse, Enqueue, TypeOK, RowsTypeOK, QueueTypeOK, WorkerTypeOK,
              ApiTypeOK, workerVars, apiVars, historyVars
<1>4. CASE UNCHANGED vars
  BY <1>4 DEF vars, TypeOK, RowsTypeOK, QueueTypeOK, WorkerTypeOK, ApiTypeOK,
              redisVars, historyVars, workerVars, apiVars
<1> QED BY <1>1, <1>2, <1>3, <1>4 DEF Next

(* The rows, the queue and the programs of the workers and handlers stay   *)
(* in type: no interleaving of commits makes a row the table cannot hold.  *)
THEOREM TypeCorrect == Spec => []TypeOK
<1> QED BY TypeInit, TypeNext, PTL DEF Spec

-----------------------------------------------------------------------------
(* One ticket per job.                                                     *)

LEMMA TicketInit == Init => TicketInv
<1> SUFFICES ASSUME Init PROVE TicketInv
  OBVIOUS
<1>1. TypeOK
  BY TypeInit
<1> QED BY <1>1, JobAssumption
        DEF Init, RowsInit, QueueInit, WorkerInit, ApiInit, TicketInv, NoRow,
            FreshIsUnknown, ReissueIsCounted, BuriedIsInDlq, ExclusiveExecution,
            SettledIsOver, DeadIsInDlq, Visible, Queued, Ticketed, Holds, Holding,
            Untouched, Settled

LEMMA TicketWorker ==
  ASSUME TicketInv, NEW w \in Workers, ProcessOnce(w) \/ Crash(w),
         UNCHANGED apiVars
  PROVE  TicketInv'
<1>1. TypeOK /\ TypeOK'
  BY TypeWorker DEF TicketInv
(* No step of a worker touches the handlers or the count of re-issues.     *)
<1>2. ReissueIsCounted'
  BY DEF TicketInv, ReissueIsCounted, Untouched, ProcessOnce, Crash, DequeuePick,
         DequeueRemove, DequeueMiss, SkipJob, LoadJob, MarkAssigned, StartRun,
         CompleteRun, RequeueFailed, BuryFailed, CommitRetrying, CommitDead,
         SaveAndGoto, SaveAndLeave, CountFailure, apiVars, historyVars
<1> USE <1>1, <1>2, JobAssumption
    DEF TypeOK, RowsTypeOK, QueueTypeOK, WorkerTypeOK, ApiTypeOK, TicketInv,
        FreshIsUnknown, BuriedIsInDlq, ExclusiveExecution, SettledIsOver,
        DeadIsInDlq, Visible, Queued, Ticketed, Holds, Holding, Untouched, Settled,
        Goto, Leave, apiVars, redisVars, historyVars
<1>3. CASE DequeuePick(w)
  BY <1>3 DEF DequeuePick, Order!IsHead, Order!InRange
(* The one way to a ticket: the entry was there, so nobody held the job.   *)
<1>4. CASE DequeueRemove(w)
  <2>1. ExclusiveExecution'
    BY <1>4 DEF DequeueRemove, Remove
  <2>2. SettledIsOver'
    BY <1>4 DEF DequeueRemove, Remove
  <2> QED BY <1>4, <2>1, <2>2 DEF DequeueRemove, Remove
<1>5. CASE DequeueMiss(w) \/ SkipJob(w) \/ Crash(w)
  <2>1. /\ UNCHANGED << rows, redisVars, historyVars >>
        /\ Leave(w, "idle") \/ Leave(w, "crashed")
    BY <1>5 DEF DequeueMiss, SkipJob, Crash
  <2> QED BY <2>1
<1>6. CASE LoadJob(w)
  BY <1>6 DEF LoadJob
(* The UPDATEs on the way to the executor settle nothing.                  *)
<1>7. ASSUME NEW current \in Row, current.status \in {"ASSIGNED", "RUNNING"},
             wpc[w] \in {"loaded", "assigned"},
             NEW step \in {"assigned", "running"}, SaveAndGoto(w, current, step)
      PROVE  TicketInv'
  BY <1>7 DEF SaveAndGoto, Save, Commit, Flush, Column
<1>8. wrow[w] \in Row
  OBVIOUS
<1>9. CASE MarkAssigned(w)
  <2>1. [ wrow[w] EXCEPT !.status = "ASSIGNED", !.worker_id = w ] \in Row
    BY <1>8 DEF Row, JobStatus
  <2> QED BY <1>7, <1>9, <2>1, <1>8 DEF MarkAssigned, Row
<1>10. CASE StartRun(w)
  <2>1. [ wrow[w] EXCEPT !.status = "RUNNING" ] \in Row
    BY <1>8 DEF Row, JobStatus
  <2> QED BY <1>7, <1>10, <2>1, <1>8 DEF StartRun, Row
(* The job is settled in the step that gives the only ticket up.           *)
<1>11. CASE CompleteRun(w)
  BY <1>11 DEF CompleteRun, SaveAndLeave, Save, Commit, Flush, Column
(* The holder of a ticket knows the job is not settled: the entry may go   *)
(* back.                                                                   *)
<1>12. CASE RequeueFailed(w)
  <2>1. SettledIsOver'
    BY <1>12 DEF RequeueFailed, CountFailure, Enqueue
  <2> QED BY <1>12, <2>1 DEF RequeueFailed, CountFailure, Enqueue
<1>13. CASE BuryFailed(w)
  BY <1>13 DEF BuryFailed, CountFailure
<1>14. CASE CommitRetrying(w)
  BY <1>14 DEF CommitRetrying, SaveAndLeave, Save, Commit, Flush, Column
(* BuriedIsInDlq: the DLQ has the job, which is settled since then.        *)
<1>15. CASE CommitDead(w)
  <2>1. DeadIsInDlq'
    BY <1>15 DEF CommitDead, SaveAndLeave, Save, Commit, Flush, Column
  <2>2. SettledIsOver'
    BY <1>15 DEF CommitDead, SaveAndLeave, Save, Commit, Flush, Column
  <2> QED BY <1>15, <2>1, <2>2
          DEF CommitDead, SaveAndLeave, Save, Commit, Flush, Column
<1> QED BY <1>3, <1>4, <1>5, <1>6, <1>9, <1>10, <1>11, <1>12, <1>13, <1>14, <1>15
        DEF ProcessOnce

LEMMA TicketApi ==
  ASSUME TicketInv, NEW t \in Threads, Request(t) \/ Proceed(t) \/ Abort(t),
         UNCHANGED workerVars
  PROVE  TicketInv'
<1>1. TypeOK /\ TypeOK'
  BY TypeApi DEF TicketInv
<1> USE <1>1, JobAssumption
    DEF TypeOK, RowsTypeOK, QueueTypeOK, WorkerTypeOK, ApiTypeOK, TicketInv,
        FreshIsUnknown, ReissueIsCounted, BuriedIsInDlq, ExclusiveExecution,
        SettledIsOver, DeadIsInDlq, Visible, Queued, Ticketed, Holds, Holding,
        Untouched, Settled, Begin, Advance, Finish, workerVars, redisVars,
        historyVars
(* The id is new: nobody holds the job and nothing has settled it.         *)
<1>2. CASE CreateEnqueue(t)
  BY <1>2 DEF CreateEnqueue, Enqueue
<1>3. CASE CreateCommit(t)
  BY <1>3 DEF CreateCommit, NewRow, NoRow
<1>4. CASE CancelRead(t)
  BY <1>4 DEF CancelRead
<1>5. CASE CancelRemove(t)
  BY <1>5 DEF CancelRemove, Remove
<1>6. CASE CancelCommit(t)
  BY <1>6 DEF CancelCommit, Commit, Flush, Column
<1>7. CASE RetryRead(t) \/ RequeueRead(t)
  <2> PICK j \in Jobs : Visible(j) /\ BeginReissue(t, j)
    BY <1>7 DEF RetryRead, RequeueRead
  <2>1. reissues'[j] > 0 /\ \A k \in Jobs \ {j} : reissues'[k] = reissues[k]
    BY DEF BeginReissue
  <2>2. FreshIsUnknown'
    BY DEF BeginReissue
  <2>3. ReissueIsCounted'
    BY <2>1 DEF BeginReissue
  <2> QED BY <2>1, <2>2, <2>3 DEF BeginReissue
<1>8. CASE ReissueRemoveFromDlq(t)
  BY <1>8 DEF ReissueRemoveFromDlq
<1>9. CASE ReissueEnqueue(t)
  BY <1>9 DEF ReissueEnqueue, Enqueue
<1>10. CASE ReissueCommit(t)
  BY <1>10 DEF ReissueCommit, NewRow, NoRow, Commit, Flush, Column
<1>11. CASE Abort(t)
  BY <1>11 DEF Abort
<1> QED BY <1>2, <1>3, <1>4, <1>5, <1>6, <1>7, <1>8, <1>9, <1>10, <1>11
        DEF Request, Proceed

LEMMA TicketNext == TicketInv /\ [Next]_vars => TicketInv'
<1> SUFFICES ASSUME TicketInv, [Next]_vars PROVE TicketInv'
  OBVIOUS
<1>1. CASE WorkerNext /\ UNCHANGED apiVars
  BY <1>1, TicketWorker DEF WorkerNext
<1>2. CASE ApiNext /\ UNCHANGED workerVars
  BY <1>2, TicketApi DEF ApiNext
<1>3. TypeOK'
  BY TypeNext DEF TicketInv
<1> USE DEF TicketInv, FreshIsUnknown, ReissueIsCounted, BuriedIsInDlq,
            ExclusiveExecution, SettledIsOver, DeadIsInDlq, Visible, Queued,
            Ticketed, Holds, Untouched, Settled, workerVars, apiVars, historyVars
<1>4. ASSUME NEW j \in Jobs,
             Elapse(j) /\ UNCHANGED << rows, workerVars, apiVars >>
      PROVE  TicketInv'
  BY <1>3, <1>4 DEF Elapse, Enqueue, TypeOK, QueueTypeOK
<1>5. CASE UNCHANGED vars
  BY <1>3, <1>5 DEF vars, redisVars
<1> QED BY <1>1, <1>2, <1>4, <1>5 DEF Next

LEMMA TicketCorrect == Spec => []TicketInv
<1> QED BY TicketInit, TicketNext, PTL DEF Spec

(* A job nobody re-issues is executed by one worker at a time and is not   *)
(* queued meanwhile, for any number of workers, threads, crashes and races *)
(* between cancel_job, create_job and the workers.                         *)
THEOREM Exclusive == Spec => []ExclusiveExecution
<1>1. TicketInv => ExclusiveExecution
  BY DEF TicketInv
<1> QED BY TicketCorrect, <1>1, PTL

(* What is completed, dead or withdrawn is never executed again.           *)
THEOREM SettledForGood == Spec => []SettledIsOver
<1>1. TicketInv => SettledIsOver
  BY DEF TicketInv
<1> QED BY TicketCorrect, <1>1, PTL

(* A crash cannot leave a job DEAD in the table and missing in the DLQ.    *)
THEOREM NoDeadJobIsLost == Spec => []DeadIsInDlq
<1>1. TicketInv => DeadIsInDlq
  BY DEF TicketInv
<1> QED BY TicketCorrect, <1>1, PTL

-----------------------------------------------------------------------------
(* Retry counts.                                                           *)

LEMMA CountInit == Init => CountInv
<1> SUFFICES ASSUME Init PROVE CountInv
  OBVIOUS
<1>1. TypeOK
  BY TypeInit
<1> QED BY <1>1, JobAssumption
        DEF Init, RowsInit, QueueInit, WorkerInit, CountInv, CountsAreBacked,
            NotGivenUpEarly, Backed, NoRow

LEMMA CountWorker ==
  ASSUME CountInv, NEW w \in Workers, ProcessOnce(w) \/ Crash(w),
         UNCHANGED apiVars
  PROVE  CountInv'
<1>1. TypeOK /\ TypeOK'
  BY TypeWorker DEF CountInv
<1> USE <1>1, JobAssumption
    DEF TypeOK, RowsTypeOK, QueueTypeOK, WorkerTypeOK, CountInv, CountsAreBacked,
        NotGivenUpEarly, Backed, Row, Goto, Leave, redisVars, historyVars
<1>2. CASE DequeuePick(w)
  BY <1>2 DEF DequeuePick
<1>3. CASE DequeueRemove(w)
  BY <1>3 DEF DequeueRemove
<1>4. CASE DequeueMiss(w) \/ SkipJob(w) \/ Crash(w)
  BY <1>4 DEF DequeueMiss, SkipJob, Crash
<1>5. CASE LoadJob(w)
  BY <1>5 DEF LoadJob
<1>6. CASE MarkAssigned(w)
  BY <1>6 DEF MarkAssigned, SaveAndGoto, Save, Commit, Flush, Column
<1>7. CASE StartRun(w)
  BY <1>7 DEF StartRun, SaveAndGoto, Save, Commit, Flush, Column
<1>8. CASE CompleteRun(w)
  BY <1>8 DEF CompleteRun, SaveAndLeave, Save, Commit, Flush, Column
<1>9. CASE RequeueFailed(w)
  BY <1>9 DEF RequeueFailed, CountFailure
<1>10. CASE BuryFailed(w)
  BY <1>10 DEF BuryFailed, CountFailure
<1>11. CASE CommitRetrying(w)
  BY <1>11 DEF CommitRetrying, SaveAndLeave, Save, Commit, Flush, Column
<1>12. CASE CommitDead(w)
  BY <1>12 DEF CommitDead, SaveAndLeave, Save, Commit, Flush, Column
<1> QED BY <1>2, <1>3, <1>4, <1>5, <1>6, <1>7, <1>8, <1>9, <1>10, <1>11, <1>12
        DEF ProcessOnce

LEMMA CountApi ==
  ASSUME CountInv, NEW t \in Threads, Request(t) \/ Proceed(t) \/ Abort(t),
         UNCHANGED workerVars
  PROVE  CountInv'
<1>1. TypeOK /\ TypeOK'
  BY TypeApi DEF CountInv
<1> USE <1>1, JobAssumption
    DEF TypeOK, RowsTypeOK, QueueTypeOK, WorkerTypeOK, ApiTypeOK, CountInv,
        CountsAreBacked, NotGivenUpEarly, Backed, Row, Finish, workerVars,
        redisVars, historyVars
<1>2. CASE CreateCommit(t)
  BY <1>2 DEF CreateCommit, NewRow, NoRow
<1>3. CASE CancelCommit(t)
  BY <1>3 DEF CancelCommit, Commit, Flush, Column
(* The count a re-issue writes is 0, whatever the row says by then.        *)
<1>4. CASE ReissueCommit(t)
  BY <1>4 DEF ReissueCommit, NewRow, NoRow, Commit, Flush, Column
<1>5. CASE ReissueRemoveFromDlq(t)
  BY <1>5 DEF ReissueRemoveFromDlq
<1>6. CASE CreateEnqueue(t) \/ CancelRead(t) \/ ReissueEnqueue(t) \/ Abort(t)
  BY <1>6 DEF CreateEnqueue, CancelRead, ReissueEnqueue, Abort
<1>7. CASE CancelRemove(t) \/ RetryRead(t) \/ RequeueRead(t)
  BY <1>7 DEF CancelRemove, RetryRead, RequeueRead, BeginReissue
<1> QED BY <1>2, <1>3, <1>4, <1>5, <1>6, <1>7 DEF Request, Proceed

LEMMA CountNext == CountInv /\ [Next]_vars => CountInv'
<1> SUFFICES ASSUME CountInv, [Next]_vars PROVE CountInv'
  OBVIOUS
<1>1. CASE WorkerNext /\ UNCHANGED apiVars
  BY <1>1, CountWorker DEF WorkerNext
<1>2. CASE ApiNext /\ UNCHANGED workerVars
  BY <1>2, CountApi DEF ApiNext
<1>3. TypeOK'
  BY TypeNext DEF CountInv
<1> USE DEF CountInv, CountsAreBacked, NotGivenUpEarly, Backed, workerVars,
            historyVars
<1>4. ASSUME NEW j \in Jobs,
             Elapse(j) /\ UNCHANGED << rows, workerVars, apiVars >>
      PROVE  CountInv'
  BY <1>3, <1>4 DEF Elapse
<1>5. CASE UNCHANGED vars
  BY <1>3, <1>5 DEF vars, redisVars
<1> QED BY <1>1, <1>2, <1>4, <1>5 DEF Next

(* However stale the counts sessions commit over each other, a job is dead *)
(* or in the DLQ only after max_retries + 1 of its executions failed.      *)
THEOREM RetriesAreGranted == Spec => []NotGivenUpEarly
<1>1. CountInv => NotGivenUpEarly
  BY DEF CountInv
<1> QED BY CountInit, CountNext, <1>1, PTL DEF Spec

-----------------------------------------------------------------------------
(* The refinement of Ticket.                                               *)

TicketMap == [ j \in Jobs |-> TicketOf(j) ]

PlaceOf(j) ==
  /\ ~Untouched(j) => TicketOf(j) = "void"
  /\ Untouched(j) /\ Queued(j) => TicketOf(j) = "waiting"
  /\ \A w \in Workers : Untouched(j) /\ Holds(w, j) => TicketOf(j) = w
  /\ Untouched(j) /\ ~Ticketed(j) /\ j \in issued => TicketOf(j) = "spent"
  /\ Untouched(j) /\ j \notin issued => TicketOf(j) = "new"

(* With one holder at most, the mapping needs no choice.                   *)
LEMMA Placed ==
  ASSUME ExclusiveExecution, FreshIsUnknown, NEW j \in Jobs
  PROVE  PlaceOf(j)
<1>1. ASSUME NEW w \in Workers, Untouched(j), Holds(w, j)
      PROVE  TicketOf(j) = w
  <2>1. ~Queued(j) /\ \A v \in Workers : Holds(v, j) => v = w
    BY <1>1 DEF ExclusiveExecution
  <2>2. (CHOOSE v \in Workers : Holds(v, j)) = w
    BY <1>1, <2>1
  <2> QED BY <1>1, <2>1, <2>2 DEF TicketOf
<1> QED BY <1>1 DEF PlaceOf, TicketOf, Ticketed, FreshIsUnknown, Holds

LEMMA PlacedNext ==
  ASSUME ExclusiveExecution', FreshIsUnknown', NEW j \in Jobs
  PROVE  PlaceOf(j)'
<1>1. ASSUME NEW w \in Workers, Untouched(j)', Holds(w, j)'
      PROVE  TicketOf(j)' = w
  <2>1. ~Queued(j)' /\ \A v \in Workers : Holds(v, j)' => v = w
    BY <1>1 DEF ExclusiveExecution
  <2>2. (CHOOSE v \in Workers : Holds(v, j)') = w
    BY <1>1, <2>1
  <2> QED BY <1>1, <2>1, <2>2 DEF TicketOf
<1> QED BY <1>1 DEF PlaceOf, TicketOf, Ticketed, FreshIsUnknown, Holds

(* What a step must leave alone to leave the ticket of a job alone.        *)
SameTicket(j) ==
  /\ Untouched(j)' <=> Untouched(j)
  /\ Queued(j)' <=> Queued(j)
  /\ j \in issued' <=> j \in issued
  /\ \A w \in Workers : Holds(w, j)' <=> Holds(w, j)

LEMMA TicketStays ==
  ASSUME NEW j \in Jobs, PlaceOf(j), PlaceOf(j)', SameTicket(j)
  PROVE  TicketOf(j)' = TicketOf(j)
BY DEF PlaceOf, SameTicket, Ticketed

(* A step about one job moves one ticket.                                  *)
LEMMA TicketMoves ==
  ASSUME NEW j \in Jobs, \A k \in Jobs : PlaceOf(k) /\ PlaceOf(k)',
         \A k \in Jobs \ {j} : SameTicket(k)
  PROVE  TicketMap' = [ TicketMap EXCEPT ![j] = TicketOf(j)' ]
BY TicketStays DEF TicketMap

LEMMA TicketStep ==
  ASSUME TicketInv, TicketInv', [Next]_vars
  PROVE  [Tickets!Next]_TicketMap
<1>1. \A k \in Jobs : PlaceOf(k) /\ PlaceOf(k)'
  BY Placed, PlacedNext DEF TicketInv
<1>2. ASSUME \A k \in Jobs : SameTicket(k)
      PROVE  UNCHANGED TicketMap
  BY <1>1, <1>2, TicketStays DEF TicketMap
<1>3. ASSUME NEW j \in Jobs, \A k \in Jobs \ {j} : SameTicket(k),
             \/ TicketOf(j) = "new" /\ TicketOf(j)' = "waiting"
             \/ \E w \in Workers : TicketOf(j) = "waiting" /\ TicketOf(j)' = w
             \/ \E w \in Workers : TicketOf(j) = w /\ TicketOf(j)' = "waiting"
             \/ TicketOf(j) \in Workers \cup {"waiting"} /\ TicketOf(j)' = "spent"
             \/ TicketOf(j)' = "void"
      PROVE  Tickets!Next
  <2>1. TicketMap' = [ TicketMap EXCEPT ![j] = TicketOf(j)' ]
    BY <1>1, <1>3, TicketMoves
  <2>2. TicketMap[j] = TicketOf(j)
    BY DEF TicketMap
  <2> QED BY <1>3, <2>1, <2>2
          DEF TicketMap, Tickets!Next, Tickets!Issue, Tickets!Take,
              Tickets!GiveBack, Tickets!Spend, Tickets!Void, Tickets!Move
<1>4. TypeOK /\ TypeOK'
  BY DEF TicketInv
<1> USE <1>4, JobAssumption
    DEF TypeOK, QueueTypeOK, WorkerTypeOK, ApiTypeOK, SameTicket, Untouched,
        Queued, Holds, Holding, Goto, Leave
(* The steps of a worker that move no ticket.                              *)
<1>5. ASSUME NEW w \in Workers, UNCHANGED apiVars,
             \/ DequeuePick(w) \/ DequeueMiss(w) \/ LoadJob(w)
             \/ MarkAssigned(w) \/ StartRun(w)
             \/ CommitRetrying(w) \/ CommitDead(w)
      PROVE  UNCHANGED TicketMap
  <2> SUFFICES \A k \in Jobs : SameTicket(k)
    BY <1>2
  <2> USE <1>5 DEF apiVars, redisVars, historyVars
  <2>1. CASE DequeuePick(w)
    BY <2>1 DEF DequeuePick
  <2>2. CASE DequeueMiss(w)
    BY <2>2 DEF DequeueMiss
  <2>3. CASE LoadJob(w) \/ MarkAssigned(w) \/ StartRun(w)
    BY <2>3 DEF LoadJob, MarkAssigned, StartRun, SaveAndGoto
  <2>4. CASE CommitRetrying(w) \/ CommitDead(w)
    <3>1. /\ wpc[w] \in {"requeued", "buried"} /\ Leave(w, "idle")
          /\ UNCHANGED << queue, reissues, issued >>
      BY <2>4 DEF CommitRetrying, CommitDead, SaveAndLeave
    <3> QED BY <3>1
  <2> QED BY <2>1, <2>2, <2>3, <2>4
<1>6. ASSUME NEW w \in Workers, UNCHANGED apiVars, DequeueRemove(w)
      PROVE  [Tickets!Next]_TicketMap
  <2> PICK j \in Jobs : wjob[w] = j
    BY <1>6 DEF DequeueRemove
  <2>1. /\ Queued(j) /\ Holds(w, j)'
        /\ \A k \in Jobs \ {j} : SameTicket(k)
        /\ UNCHANGED reissues
    BY <1>6 DEF DequeueRemove, Remove, apiVars, historyVars
  <2>2. CASE Untouched(j)
    <3>1. TicketOf(j) = "waiting"
      BY <1>1, <2>1, <2>2 DEF PlaceOf
    <3>2. TicketOf(j)' = w
      BY <1>1, <2>1, <2>2 DEF PlaceOf
    <3> QED BY <1>3, <2>1, <3>1, <3>2
  <2>3. CASE ~Untouched(j)
    <3>1. TicketOf(j)' = "void"
      BY <1>1, <2>1, <2>3 DEF PlaceOf
    <3> QED BY <1>3, <2>1, <3>1
  <2> QED BY <2>2, <2>3
(* A holder that leaves, settled or not, spends the ticket.                *)
<1>7. ASSUME NEW w \in Workers, UNCHANGED apiVars,
             SkipJob(w) \/ CompleteRun(w) \/ BuryFailed(w) \/ Crash(w)
      PROVE  [Tickets!Next]_TicketMap
  <2>1. UNCHANGED << queue, reissues, issued >>
    BY <1>7 DEF SkipJob, CompleteRun, BuryFailed, CountFailure, Crash,
                SaveAndLeave, apiVars, redisVars, historyVars
  <2>2. \A v \in Workers \ {w} : wjob'[v] = wjob[v] /\ wpc'[v] = wpc[v]
    BY <1>7 DEF SkipJob, CompleteRun, BuryFailed, Crash, SaveAndLeave
  <2>3. wpc'[w] \notin Holding
    BY <1>7 DEF SkipJob, CompleteRun, BuryFailed, Crash, SaveAndLeave
  <2>4. ASSUME NEW j \in Jobs, Holds(w, j)
        PROVE  [Tickets!Next]_TicketMap
    <3>1. \A k \in Jobs \ {j} : SameTicket(k)
      BY <2>1, <2>2, <2>3, <2>4
    <3>2. CASE Untouched(j)
      <4>1. TicketOf(j) = w
        BY <1>1, <2>4, <3>2 DEF PlaceOf
      <4>2. ~Ticketed(j)' /\ Untouched(j)' /\ j \in issued'
        BY <2>1, <2>2, <2>3, <2>4, <3>2
           DEF TicketInv, ExclusiveExecution, FreshIsUnknown, Ticketed
      <4>3. TicketOf(j)' = "spent"
        BY <1>1, <4>2 DEF PlaceOf
      <4> QED BY <1>3, <3>1, <4>1, <4>3
    <3>3. CASE ~Untouched(j)
      <4>1. TicketOf(j)' = "void"
        BY <1>1, <2>1, <3>3 DEF PlaceOf
      <4> QED BY <1>3, <3>1, <4>1
    <3> QED BY <3>2, <3>3
  <2>5. CASE \A j \in Jobs : ~Holds(w, j)
    <3>1. \A k \in Jobs : SameTicket(k)
      BY <2>1, <2>2, <2>3, <2>5
    <3> QED BY <1>2, <3>1
  <2> QED BY <2>4, <2>5
<1>8. ASSUME NEW w \in Workers, UNCHANGED apiVars, RequeueFailed(w)
      PROVE  [Tickets!Next]_TicketMap
  <2> PICK j \in Jobs : wjob[w] = j
    BY <1>8 DEF RequeueFailed
  <2>1. /\ Holds(w, j) /\ Queued(j)'
        /\ \A k \in Jobs \ {j} : SameTicket(k)
        /\ UNCHANGED reissues
    BY <1>8 DEF RequeueFailed, CountFailure, Enqueue, apiVars
  <2>2. CASE Untouched(j)
    <3>1. TicketOf(j) = w /\ TicketOf(j)' = "waiting"
      BY <1>1, <2>1, <2>2 DEF PlaceOf
    <3> QED BY <1>3, <2>1, <3>1
  <2>3. CASE ~Untouched(j)
    <3>1. TicketOf(j)' = "void"
      BY <1>1, <2>1, <2>3 DEF PlaceOf
    <3> QED BY <1>3, <2>1, <3>1
  <2> QED BY <2>2, <2>3
(* The steps of a handler that move no ticket.                             *)
<1>9. ASSUME NEW t \in Threads, UNCHANGED workerVars,
             \/ CreateCommit(t) \/ CancelRead(t) \/ CancelCommit(t)
             \/ ReissueRemoveFromDlq(t) \/ ReissueCommit(t) \/ Abort(t)
      PROVE  UNCHANGED TicketMap
  BY <1>2, <1>9
     DEF CreateCommit, CancelRead, CancelCommit, ReissueRemoveFromDlq, ReissueCommit,
         Abort, Begin, Advance, Finish, workerVars, redisVars, historyVars
<1>10. ASSUME NEW t \in Threads, UNCHANGED workerVars, CreateEnqueue(t)
       PROVE  [Tickets!Next]_TicketMap
  <2> PICK j \in Jobs \ issued :
        Enqueue(j, "due") /\ issued' = issued \cup {j}
    BY <1>10 DEF CreateEnqueue
  <2>1. /\ \A k \in Jobs \ {j} : SameTicket(k)
        /\ Queued(j)' /\ UNCHANGED reissues
    BY <1>10 DEF CreateEnqueue, Enqueue, workerVars, historyVars
  <2>2. CASE Untouched(j)
    <3>1. TicketOf(j) = "new" /\ TicketOf(j)' = "waiting"
      BY <1>1, <2>1, <2>2 DEF PlaceOf
    <3> QED BY <1>3, <2>1, <3>1
  <2>3. CASE ~Untouched(j)
    <3>1. TicketOf(j)' = "void"
      BY <1>1, <2>1, <2>3 DEF PlaceOf
    <3> QED BY <1>3, <2>1, <3>1
  <2> QED BY <2>2, <2>3
<1>11. ASSUME NEW t \in Threads, UNCHANGED workerVars, CancelRemove(t)
       PROVE  [Tickets!Next]_TicketMap
  <2> PICK j \in Jobs : tjob[t] = j
    BY <1>11 DEF CancelRemove, Advance
  <2>1. /\ \A k \in Jobs \ {j} : SameTicket(k)
        /\ ~Queued(j)' /\ UNCHANGED << reissues, wjob, wpc, issued >>
    BY <1>11 DEF CancelRemove, Remove, Advance, workerVars
  <2>2. CASE Untouched(j) /\ Queued(j)
    <3>1. TicketOf(j) = "waiting"
      BY <1>1, <2>2 DEF PlaceOf
    <3>2. ~Ticketed(j)' /\ Untouched(j)' /\ j \in issued'
      BY <2>1, <2>2 DEF TicketInv, ExclusiveExecution, FreshIsUnknown, Ticketed
    <3>3. TicketOf(j)' = "spent"
      BY <1>1, <3>2 DEF PlaceOf
    <3> QED BY <1>3, <2>1, <3>1, <3>3
  <2>3. CASE ~Untouched(j)
    <3>1. TicketOf(j)' = "void"
      BY <1>1, <2>1, <2>3 DEF PlaceOf
    <3> QED BY <1>3, <2>1, <3>1
  <2>4. CASE ~Queued(j)
    <3>1. \A k \in Jobs : SameTicket(k)
      BY <2>1, <2>4
    <3> QED BY <1>2, <3>1
  <2> QED BY <2>2, <2>3, <2>4
<1>12. ASSUME NEW t \in Threads, UNCHANGED workerVars,
              RetryRead(t) \/ RequeueRead(t)
       PROVE  [Tickets!Next]_TicketMap
  <2> PICK j \in Jobs : BeginReissue(t, j)
    BY <1>12 DEF RetryRead, RequeueRead
  <2>1. ~Untouched(j)' /\ \A k \in Jobs \ {j} : SameTicket(k)
    BY <1>12 DEF BeginReissue, Begin, workerVars, redisVars
  <2>2. TicketOf(j)' = "void"
    BY <1>1, <2>1 DEF PlaceOf
  <2> QED BY <1>3, <2>1, <2>2
(* The job is void since the call began.                                   *)
<1>13. ASSUME NEW t \in Threads, UNCHANGED workerVars, ReissueEnqueue(t)
       PROVE  [Tickets!Next]_TicketMap
  <2> PICK j \in Jobs : tjob[t] = j
    BY <1>13 DEF ReissueEnqueue, Advance
  <2>1. /\ ~Untouched(j)'
        /\ \A k \in Jobs \ {j} : SameTicket(k)
    BY <1>13 DEF ReissueEnqueue, Enqueue, Advance, TicketInv, ReissueIsCounted,
                 workerVars, historyVars
  <2>2. TicketOf(j)' = "void"
    BY <1>1, <2>1 DEF PlaceOf
  <2> QED BY <1>3, <2>1, <2>2
<1>14. ASSUME NEW k \in Jobs,
              Elapse(k) /\ UNCHANGED << rows, workerVars, apiVars >>
       PROVE  UNCHANGED TicketMap
  BY <1>2, <1>14 DEF Elapse, Enqueue, workerVars, apiVars, historyVars
<1>15. CASE UNCHANGED vars
  BY <1>2, <1>15 DEF vars, workerVars, apiVars, redisVars, historyVars
<1>16. CASE WorkerNext /\ UNCHANGED apiVars
  BY <1>5, <1>6, <1>7, <1>8, <1>16 DEF WorkerNext, ProcessOnce
<1>17. CASE ApiNext /\ UNCHANGED workerVars
  BY <1>9, <1>10, <1>11, <1>12, <1>13, <1>17 DEF ApiNext, Request, Proceed
<1> QED BY <1>14, <1>15, <1>16, <1>17 DEF Next

LEMMA TicketStart == Init => Tickets!Init
<1> SUFFICES ASSUME Init PROVE TicketMap = [ j \in Jobs |-> "new" ]
  BY DEF Tickets!Init, TicketMap
<1>1. TicketInv
  BY TicketInit
<1>2. \A j \in Jobs : PlaceOf(j) /\ Untouched(j) /\ j \notin issued
  BY <1>1, Placed DEF TicketInv, Init, QueueInit, ApiInit, Untouched
<1> QED BY <1>2 DEF PlaceOf, TicketMap

(* The orchestrator implements Ticket: for jobs nobody re-issues, Redis,   *)
(* the table, the handlers and the workers together are a queue that hands *)
(* each ticket to one worker at a time and never reissues a spent one.     *)
THEOREM Refinement == Spec => ImplementsTicket
<1>1. TicketInv /\ TicketInv' /\ [Next]_vars => [Tickets!Next]_TicketMap
  BY TicketStep
<1>2. ImplementsTicket <=> Tickets!Init /\ [][Tickets!Next]_TicketMap
  BY DEF ImplementsTicket, Tickets!Spec, TicketMap
<1> QED BY TicketStart, TicketCorrect, <1>1, <1>2, PTL DEF Spec

=============================================================================
