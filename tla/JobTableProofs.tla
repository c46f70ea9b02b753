--------------------------- MODULE JobTableProofs ---------------------------
(***************************************************************************)
(* Proof that the orchestrator implements JobTable: what the dashboards    *)
(* rely on holds for every set of jobs, workers and threads.               *)
(***************************************************************************)
EXTENDS OrchestratorProofs

(* Whoever may write the row of a job, or its DLQ entry, has found the row *)
(* committed; only the one call that generated an id has not.              *)
WorkerKnows(w) ==
  wpc[w] \in {"loaded", "assigned", "running", "requeued", "buried"}

ThreadKnows(t) ==
  tpc[t] \in {"cancelling", "removed", "reissuing", "exhumed", "reentered"}

Creating(t, j) == tpc[t] = "creating" /\ tjob[t] = j

TableInv ==
  /\ \A j \in Jobs : Visible(j) => rows[j].status \in Table!Stored
  /\ \A j \in dlq : Visible(j)
  /\ \A w \in Workers : WorkerKnows(w) => Visible(wjob[w])
  /\ \A t \in Threads : ThreadKnows(t) => Visible(tjob[t])
  /\ \A t \in Threads, j \in Jobs : Creating(t, j) =>
       /\ ~Visible(j) /\ j \in issued
       /\ \A u \in Threads : Creating(u, j) => u = t

TableMap == << [ j \in Jobs |-> rows[j].status ], dlq >>

(* One step of the table: no row goes, each new status is a stored one.    *)
TableStep ==
  /\ [Table!TableNext]_TableMap
  /\ \A j \in Jobs : Visible(j) => Visible(j)'
  /\ \A j \in Jobs : Visible(j)' => rows'[j].status \in Table!Stored
  /\ \A j \in dlq' : Visible(j)'

-----------------------------------------------------------------------------
LEMMA TableStays ==
  ASSUME TableInv, UNCHANGED << rows, dlq >>
  PROVE  TableStep
BY DEF TableInv, TableStep, TableMap, Visible

(* A commit of a session whose job has a row changes one status.           *)
LEMMA CommitChanges ==
  ASSUME TypeOK, TableInv, NEW j \in Jobs, Visible(j), NEW loaded, NEW current,
         current.status \in Table!Stored, Commit(j, loaded, current),
         UNCHANGED dlq
  PROVE  TableStep /\ \A k \in Jobs : Visible(k)' => Visible(k)
<1>1. rows \in [ Jobs -> Row ]
  BY DEF TypeOK, RowsTypeOK
<1>2. PICK s \in Table!Stored : s = Flush(rows[j], loaded, current).status
  BY DEF TableInv, Flush, Column
<1>3. /\ rows'[j].status = s
      /\ \A k \in Jobs \ {j} : rows'[k] = rows[k]
  BY <1>1, <1>2 DEF Commit
<1>4. [ k \in Jobs |-> rows'[k].status ]
        = [ [ k \in Jobs |-> rows[k].status ] EXCEPT ![j] = s ]
  BY <1>3
<1>5. Table!Change(j)
  BY <1>4 DEF Table!Change, Table!Listed, Visible
<1>6. s # "ABSENT"
  BY DEF Table!Stored
<1>7. \A k \in Jobs : Visible(k)' <=> Visible(k)
  BY <1>3, <1>6 DEF Visible
<1>8. \A k \in Jobs : Visible(k)' => rows'[k].status \in Table!Stored
  BY <1>3, <1>7 DEF TableInv
<1>9. dlq' \subseteq Jobs
  BY DEF TypeOK, QueueTypeOK
<1> QED BY <1>5, <1>7, <1>8, <1>9 DEF TableInv, TableStep, Table!TableNext

LEMMA TableWorker ==
  ASSUME TypeOK, TableInv, NEW w \in Workers, ProcessOnce(w) \/ Crash(w),
         UNCHANGED apiVars
  PROVE  TableStep /\ \A k \in Jobs : Visible(k)' => Visible(k)
<1>1. WorkerKnows(w) => wjob[w] \in Jobs /\ Visible(wjob[w])
  BY JobAssumption DEF TypeOK, WorkerTypeOK, TableInv, WorkerKnows, Holding
<1>2. CASE DequeuePick(w) \/ DequeueMiss(w) \/ SkipJob(w) \/ LoadJob(w) \/ Crash(w)
  <2>1. UNCHANGED << rows, dlq >>
    BY <1>2 DEF DequeuePick, DequeueMiss, SkipJob, LoadJob, Crash, redisVars
  <2> QED BY <2>1, TableStays DEF Visible
<1>3. CASE DequeueRemove(w) \/ RequeueFailed(w)
  <2>1. UNCHANGED << rows, dlq >>
    BY <1>3 DEF DequeueRemove, RequeueFailed
  <2> QED BY <2>1, TableStays DEF Visible
<1>4. CASE BuryFailed(w)
  <2>1. Visible(wjob[w]) /\ wjob[w] \in Jobs
    BY <1>1, <1>4 DEF BuryFailed, WorkerKnows
  <2>2. UNCHANGED rows /\ dlq' = dlq \cup {wjob[w]}
    BY <1>4 DEF BuryFailed
  <2>3. Table!Bury(wjob[w])
    BY <2>1, <2>2 DEF Table!Bury, Table!Listed, Visible
  <2> QED BY <2>1, <2>2, <2>3 DEF TableInv, TableStep, TableMap, Table!TableNext, Visible
<1>5. ASSUME NEW current, current.status \in Table!Stored, WorkerKnows(w),
             Save(w, current), UNCHANGED dlq
      PROVE  TableStep /\ \A k \in Jobs : Visible(k)' => Visible(k)
  BY <1>1, <1>5, CommitChanges DEF Save
<1>6. wrow[w] \in Row
  BY DEF TypeOK, WorkerTypeOK
<1>7. CASE MarkAssigned(w)
  <2> DEFINE r == [ wrow[w] EXCEPT !.status = "ASSIGNED", !.worker_id = w ]
  <2>1. r.status = "ASSIGNED"
    BY <1>6 DEF Row
  <2>2. Save(w, r) /\ UNCHANGED dlq /\ WorkerKnows(w)
    BY <1>7 DEF MarkAssigned, SaveAndGoto, WorkerKnows, redisVars
  <2> HIDE DEF r
  <2> QED BY <1>5, <2>1, <2>2 DEF Table!Stored
<1>8. CASE StartRun(w)
  <2> DEFINE r == [ wrow[w] EXCEPT !.status = "RUNNING" ]
  <2>1. r.status = "RUNNING"
    BY <1>6 DEF Row
  <2>2. Save(w, r) /\ UNCHANGED dlq /\ WorkerKnows(w)
    BY <1>8 DEF StartRun, SaveAndGoto, WorkerKnows, redisVars
  <2> HIDE DEF r
  <2> QED BY <1>5, <2>1, <2>2 DEF Table!Stored
<1>9. CASE CompleteRun(w)
  <2> DEFINE r == [ wrow[w] EXCEPT !.status = "COMPLETED",
                                    !.error_message = None ]
  <2>1. r.status = "COMPLETED"
    BY <1>6 DEF Row
  <2>2. Save(w, r) /\ UNCHANGED dlq /\ WorkerKnows(w)
    BY <1>9 DEF CompleteRun, SaveAndLeave, WorkerKnows, redisVars
  <2> HIDE DEF r
  <2> QED BY <1>5, <2>1, <2>2 DEF Table!Stored
<1>10. CASE CommitRetrying(w)
  <2> PICK e \in Errors :
        SaveAndLeave(w, [ wrow[w] EXCEPT !.status = "RETRYING", !.retry_count = @ + 1,
                                         !.worker_id = None, !.error_message = e ])
    BY <1>10 DEF CommitRetrying
  <2> DEFINE r == [ wrow[w] EXCEPT !.status = "RETRYING", !.retry_count = @ + 1,
                                    !.worker_id = None, !.error_message = e ]
  <2>1. r.status = "RETRYING"
    BY <1>6 DEF Row
  <2>2. Save(w, r) /\ UNCHANGED dlq /\ WorkerKnows(w)
    BY <1>10 DEF CommitRetrying, SaveAndLeave, WorkerKnows, redisVars
  <2> HIDE DEF r
  <2> QED BY <1>5, <2>1, <2>2 DEF Table!Stored
<1>11. CASE CommitDead(w)
  <2> PICK e \in Errors :
        SaveAndLeave(w, [ wrow[w] EXCEPT !.status = "DEAD", !.retry_count = @ + 1,
                                         !.error_message = e ])
    BY <1>11 DEF CommitDead
  <2> DEFINE r == [ wrow[w] EXCEPT !.status = "DEAD", !.retry_count = @ + 1,
                                    !.error_message = e ]
  <2>1. r.status = "DEAD"
    BY <1>6 DEF Row
  <2>2. Save(w, r) /\ UNCHANGED dlq /\ WorkerKnows(w)
    BY <1>11 DEF CommitDead, SaveAndLeave, WorkerKnows, redisVars
  <2> HIDE DEF r
  <2> QED BY <1>5, <2>1, <2>2 DEF Table!Stored
<1> QED BY <1>2, <1>3, <1>4, <1>7, <1>8, <1>9, <1>10, <1>11 DEF ProcessOnce

LEMMA TableApi ==
  ASSUME TypeOK, TableInv, NEW t \in Threads, Request(t) \/ Proceed(t) \/ Abort(t),
         UNCHANGED workerVars
  PROVE  /\ TableStep
         /\ \A k \in Jobs : Visible(k)' => Visible(k) \/ Creating(t, k)
<1>1. ThreadKnows(t) => tjob[t] \in Jobs /\ Visible(tjob[t])
  BY JobAssumption DEF TypeOK, ApiTypeOK, TableInv, ThreadKnows
<1>2. CASE CreateEnqueue(t) \/ CancelRead(t) \/ RetryRead(t) \/ RequeueRead(t)
            \/ CancelRemove(t) \/ ReissueEnqueue(t) \/ Abort(t)
  <2>1. UNCHANGED << rows, dlq >>
    BY <1>2 DEF CreateEnqueue, CancelRead, RetryRead, RequeueRead, BeginReissue,
                CancelRemove, ReissueEnqueue, Abort, redisVars
  <2> QED BY <2>1, TableStays DEF Visible
<1>3. CASE CreateCommit(t)
  <2> PICK j \in Jobs : tjob[t] = j
    BY <1>3 DEF CreateCommit, TypeOK, ApiTypeOK
  <2>1. /\ Creating(t, j) /\ ~Visible(j)
        /\ rows' = [ rows EXCEPT ![j] = NewRow ] /\ UNCHANGED dlq
    BY <1>3 DEF CreateCommit, TableInv, Creating, redisVars
  <2>2. rows'[j].status = "QUEUED" /\ \A k \in Jobs \ {j} : rows'[k] = rows[k]
    BY <2>1 DEF TypeOK, RowsTypeOK, NewRow, NoRow
  <2>3. [ k \in Jobs |-> rows'[k].status ]
          = [ [ k \in Jobs |-> rows[k].status ] EXCEPT ![j] = "QUEUED" ]
    BY <2>2
  <2>4. Table!Appear(j)
    BY <2>1, <2>3 DEF Table!Appear, Visible
  <2> QED BY <2>1, <2>2, <2>4
          DEF TableInv, TableStep, TableMap, Table!TableNext, Table!Stored, Visible
<1>4. CASE CancelCommit(t)
  <2> DEFINE r == [ trow[t] EXCEPT !.status = "CANCELLED" ]
  <2>1. r.status = "CANCELLED"
    BY DEF TypeOK, ApiTypeOK, Row
  <2>2. Commit(tjob[t], trow[t], r) /\ UNCHANGED dlq /\ ThreadKnows(t)
    BY <1>4 DEF CancelCommit, ThreadKnows, redisVars
  <2> HIDE DEF r
  <2>3. r.status \in Table!Stored
    BY <2>1 DEF Table!Stored
  <2> QED BY <1>1, <2>2, <2>3, CommitChanges
<1>5. CASE ReissueRemoveFromDlq(t)
  <2>1. UNCHANGED rows /\ dlq' = dlq \ {tjob[t]} /\ tjob[t] \in Jobs
    BY <1>1, <1>5 DEF ReissueRemoveFromDlq, Advance, ThreadKnows
  <2>2. Table!Exhume(tjob[t])
    BY <2>1 DEF Table!Exhume
  <2> QED BY <2>1, <2>2 DEF TableInv, TableStep, TableMap, Table!TableNext, Visible
<1>6. CASE ReissueCommit(t)
  <2>1. NewRow.status \in Table!Stored
    BY DEF NewRow, NoRow, Table!Stored
  <2> QED BY <1>1, <1>6, <2>1, CommitChanges DEF ReissueCommit, ThreadKnows, redisVars
<1> QED BY <1>2, <1>3, <1>4, <1>5, <1>6 DEF Request, Proceed

-----------------------------------------------------------------------------
(* The invariant.                                                          *)

LEMMA TableStart == Init => TableInv /\ Table!TableInit
BY DEF Init, RowsInit, QueueInit, WorkerInit, ApiInit, TableInv, WorkerKnows,
       ThreadKnows, Creating, Visible, NoRow, Table!TableInit

(* A worker knows a job from the moment it has loaded its row.             *)
LEMMA KnowsWorker ==
  ASSUME TypeOK, TableInv, NEW w \in Workers, ProcessOnce(w) \/ Crash(w),
         UNCHANGED apiVars
  PROVE  TableInv'
<1>1. TableStep /\ \A k \in Jobs : Visible(k)' <=> Visible(k)
  BY TableWorker DEF TableStep
<1>2. wpc \in [ Workers -> WorkerSteps ] /\ wjob \in [ Workers -> Jobs \cup {None} ]
  BY DEF TypeOK, WorkerTypeOK
<1>3. \A v \in Workers \ {w} : wpc'[v] = wpc[v] /\ wjob'[v] = wjob[v]
  BY <1>2 DEF ProcessOnce, Crash, DequeuePick, DequeueRemove, DequeueMiss, SkipJob,
              LoadJob, MarkAssigned, StartRun, CompleteRun, RequeueFailed, BuryFailed,
              CommitRetrying, CommitDead, SaveAndGoto, SaveAndLeave, Goto, Leave
<1>4. WorkerKnows(w)' => wjob'[w] = wjob[w] /\ (WorkerKnows(w) \/ LoadJob(w))
  <2> USE <1>2 DEF WorkerKnows, Goto, Leave
  <2>1. CASE DequeuePick(w) \/ DequeueRemove(w) \/ DequeueMiss(w) \/ SkipJob(w)
    BY <2>1 DEF DequeuePick, DequeueRemove, DequeueMiss, SkipJob
  <2>2. CASE LoadJob(w)
    BY <2>2 DEF LoadJob
  <2>3. CASE MarkAssigned(w) \/ StartRun(w)
    BY <2>3 DEF MarkAssigned, StartRun, SaveAndGoto
  <2>4. CASE RequeueFailed(w) \/ BuryFailed(w)
    BY <2>4 DEF RequeueFailed, BuryFailed
  <2>5. CASE CompleteRun(w) \/ CommitRetrying(w) \/ CommitDead(w) \/ Crash(w)
    BY <2>5 DEF CompleteRun, CommitRetrying, CommitDead, Crash, SaveAndLeave
  <2> QED BY <2>1, <2>2, <2>3, <2>4, <2>5 DEF ProcessOnce
<1>5. LoadJob(w) => Visible(wjob[w])
  BY DEF LoadJob, Skipped, Visible
<1>6. \A v \in Workers : WorkerKnows(v) => wjob[v] \in Jobs
  BY JobAssumption DEF TypeOK, WorkerTypeOK, WorkerKnows, Holding
<1>7. LoadJob(w) => wjob[w] \in Jobs
  BY JobAssumption DEF TypeOK, WorkerTypeOK, LoadJob, Holding
<1>8. \A v \in Workers : WorkerKnows(v)' => Visible(wjob[v])'
  <2> SUFFICES ASSUME NEW v \in Workers, WorkerKnows(v)' PROVE Visible(wjob[v])'
    OBVIOUS
  <2>1. wjob'[v] = wjob[v] /\ wjob[v] \in Jobs /\ Visible(wjob[v])
    BY <1>3, <1>4, <1>5, <1>6, <1>7 DEF TableInv, WorkerKnows
  <2> QED BY <1>1, <2>1 DEF Visible
<1>9. \A t \in Threads : ThreadKnows(t)' => Visible(tjob[t])'
  <2> SUFFICES ASSUME NEW t \in Threads, ThreadKnows(t)' PROVE Visible(tjob[t])'
    OBVIOUS
  <2>1. tjob'[t] = tjob[t] /\ tjob[t] \in Jobs /\ Visible(tjob[t])
    BY JobAssumption DEF TypeOK, ApiTypeOK, TableInv, ThreadKnows, apiVars
  <2> QED BY <1>1, <2>1 DEF Visible
<1> QED BY <1>1, <1>8, <1>9 DEF TableInv, TableStep, Creating, apiVars

(* A handler knows a job from the moment it has read its row.              *)
LEMMA KnowsApi ==
  ASSUME TypeOK, TableInv, FreshIsUnknown, NEW t \in Threads,
         Request(t) \/ Proceed(t) \/ Abort(t), UNCHANGED workerVars
  PROVE  TableInv'
<1>1. TableStep /\ \A k \in Jobs : Visible(k)' => Visible(k) \/ Creating(t, k)
  BY TableApi
<1>2. tpc \in [ Threads -> ThreadSteps ] /\ tjob \in [ Threads -> Jobs \cup {None} ]
  BY DEF TypeOK, ApiTypeOK
<1>3. \A u \in Threads \ {t} : tpc'[u] = tpc[u] /\ tjob'[u] = tjob[u]
  BY <1>2 DEF Request, Proceed, Abort, CreateEnqueue, CancelRead, RetryRead,
              RequeueRead, BeginReissue, CreateCommit, CancelRemove, CancelCommit,
              ReissueRemoveFromDlq, ReissueEnqueue, ReissueCommit, Begin, Advance,
              Finish
<1>4. ThreadKnows(t)' => tjob'[t] \in Jobs /\ Visible(tjob'[t])
  <2> USE <1>2 DEF ThreadKnows, Begin, Advance, Finish
  <2>1. CASE CreateEnqueue(t)
    BY <2>1 DEF CreateEnqueue
  <2>2. CASE CancelRead(t)
    BY <2>2 DEF CancelRead, Visible
  <2>3. CASE RetryRead(t) \/ RequeueRead(t)
    BY <2>3 DEF RetryRead, RequeueRead, BeginReissue, Visible
  <2>4. CASE CreateCommit(t) \/ CancelCommit(t) \/ ReissueCommit(t) \/ Abort(t)
    BY <2>4 DEF CreateCommit, CancelCommit, ReissueCommit, Abort
  <2>5. CASE CancelRemove(t) \/ ReissueRemoveFromDlq(t) \/ ReissueEnqueue(t)
    BY <2>5, JobAssumption
       DEF CancelRemove, ReissueRemoveFromDlq, ReissueEnqueue, TableInv, TypeOK,
           ApiTypeOK
  <2> QED BY <2>1, <2>2, <2>3, <2>4, <2>5 DEF Request, Proceed
<1>5. \A u \in Threads : ThreadKnows(u) => tjob[u] \in Jobs
  BY JobAssumption DEF TypeOK, ApiTypeOK, ThreadKnows
<1>6. \A u \in Threads : ThreadKnows(u)' => Visible(tjob[u])'
  <2> SUFFICES ASSUME NEW u \in Threads, ThreadKnows(u)' PROVE Visible(tjob[u])'
    OBVIOUS
  <2>1. tjob'[u] \in Jobs /\ Visible(tjob'[u])
    BY <1>3, <1>4, <1>5 DEF TableInv, ThreadKnows
  <2> QED BY <1>1, <2>1 DEF TableStep, Visible
<1>7. \A w \in Workers : WorkerKnows(w)' => Visible(wjob[w])'
  <2> SUFFICES ASSUME NEW w \in Workers, WorkerKnows(w)' PROVE Visible(wjob[w])'
    OBVIOUS
  <2>1. wjob'[w] = wjob[w] /\ wjob[w] \in Jobs /\ Visible(wjob[w])
    BY JobAssumption
       DEF TypeOK, WorkerTypeOK, TableInv, WorkerKnows, Holding, workerVars
  <2> QED BY <1>1, <2>1 DEF TableStep, Visible
(* Only CreateEnqueue begins to create, with an id nobody has.             *)
<1>8. ASSUME NEW j \in Jobs, CreateEnqueue(t), j \in issued' \ issued
      PROVE  /\ ~Visible(j)' /\ j \in issued'
             /\ \A u \in Threads : Creating(u, j)' => u = t
  BY <1>2, <1>3, <1>8
     DEF CreateEnqueue, FreshIsUnknown, Begin, Creating, Visible
<1>9. ASSUME NEW u \in Threads, NEW j \in Jobs, Creating(u, j)'
      PROVE  /\ ~Visible(j)' /\ j \in issued'
             /\ \A v \in Threads : Creating(v, j)' => v = u
  <2>1. CASE Creating(u, j) /\ ~Creating(t, j)
    <3>1. ~Creating(t, j)'
      BY <1>2, <2>1
         DEF Request, Proceed, Abort, CreateEnqueue, CancelRead, RetryRead,
             RequeueRead, BeginReissue, CreateCommit, CancelRemove, CancelCommit,
             ReissueRemoveFromDlq, ReissueEnqueue, ReissueCommit, Begin, Advance,
             Finish, Creating, TableInv
    <3>2. issued \subseteq issued'
      BY DEF Request, Proceed, Abort, CreateEnqueue, CancelRead, RetryRead,
             RequeueRead, BeginReissue, CreateCommit, CancelRemove, CancelCommit,
             ReissueRemoveFromDlq, ReissueEnqueue, ReissueCommit, Begin, Advance,
             Finish
    <3> QED BY <1>1, <1>3, <2>1, <3>1, <3>2 DEF TableInv, Creating
  <2>2. CASE ~Creating(u, j)
    <3>1. CreateEnqueue(t) /\ u = t /\ j \in issued' \ issued
      BY <1>2, <1>3, <1>9, <2>2
         DEF Request, Proceed, Abort, CreateEnqueue, CancelRead, RetryRead,
             RequeueRead, BeginReissue, CreateCommit, CancelRemove, CancelCommit,
             ReissueRemoveFromDlq, ReissueEnqueue, ReissueCommit, Begin, Advance,
             Finish, Creating
    <3> QED BY <1>8, <3>1
  <2>3. CASE Creating(u, j) /\ Creating(t, j)
    <3>1. u = t
      BY <2>3 DEF TableInv
    <3>2. ~Creating(t, j)'
      BY <1>2, <2>3
         DEF Request, Proceed, Abort, CreateEnqueue, CancelRead, RetryRead,
             RequeueRead, BeginReissue, CreateCommit, CancelRemove, CancelCommit,
             ReissueRemoveFromDlq, ReissueEnqueue, ReissueCommit, Begin, Advance,
             Finish, Creating
    <3> QED BY <1>9, <3>1, <3>2
  <2> QED BY <2>1, <2>2, <2>3
<1> QED BY <1>1, <1>6, <1>7, <1>9 DEF TableInv, TableStep

LEMMA TableKept ==
  TypeOK /\ FreshIsUnknown /\ TableInv /\ [Next]_vars => TableInv' /\ TableStep
<1> SUFFICES ASSUME TypeOK, FreshIsUnknown, TableInv, [Next]_vars
             PROVE  TableInv' /\ TableStep
  OBVIOUS
<1>1. CASE WorkerNext /\ UNCHANGED apiVars
  BY <1>1, TableWorker, KnowsWorker DEF WorkerNext
<1>2. CASE ApiNext /\ UNCHANGED workerVars
  BY <1>2, TableApi, KnowsApi DEF ApiNext
<1>3. CASE UNCHANGED << rows, dlq, wpc, wjob, apiVars >>
  BY <1>3, TableStays
     DEF TableInv, WorkerKnows, ThreadKnows, Creating, Visible, apiVars
<1>4. ASSUME NEW j \in Jobs,
             Elapse(j) /\ UNCHANGED << rows, workerVars, apiVars >>
      PROVE  UNCHANGED << rows, dlq, wpc, wjob, apiVars >>
  BY <1>4 DEF Elapse, workerVars
<1>5. CASE UNCHANGED vars
  BY <1>3, <1>5 DEF vars, redisVars, workerVars
<1> QED BY <1>1, <1>2, <1>3, <1>4, <1>5 DEF Next

(* The handlers and the workers implement JobTable: for any number of them *)
(* a row appears as QUEUED and stays, no session leaves CREATED or FAILED  *)
(* behind, and the DLQ has no job without a row.                           *)
THEOREM TableRefinement == Spec => ImplementsJobTable
<1>1. TicketInv => TypeOK /\ FreshIsUnknown
  BY DEF TicketInv
<1>2. TypeOK /\ FreshIsUnknown /\ TableInv /\ [Next]_vars
        => TableInv' /\ [Table!TableNext]_TableMap
  BY TableKept DEF TableStep
<1>3. ImplementsJobTable <=> Table!TableInit /\ [][Table!TableNext]_TableMap
  BY DEF ImplementsJobTable, Table!TableSpec, Table!tableVars, TableMap
<1> QED BY TicketCorrect, TableStart, <1>1, <1>2, <1>3, PTL DEF Spec

=============================================================================
