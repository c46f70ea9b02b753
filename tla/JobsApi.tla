------------------------------ MODULE JobsApi -------------------------------
(***************************************************************************)
(* The handlers that change a job: create_job, cancel_job and retry_job    *)
(* (app/api/jobs.py) and requeue_dlq_job (app/api/queue.py).  They are     *)
(* plain functions, so FastAPI runs each call on a thread of its pool and  *)
(* calls interleave; a thread serves one call at a time, with a session of *)
(* its own.  A call that answers 404 or 409 changes nothing and has no     *)
(* step.  get_current_user and the owner test are preconditions here.      *)
(*                                                                         *)
(*   idle        no call                                                   *)
(*   creating    create_job: row inserted, not committed; entry enqueued   *)
(*   cancelling  cancel_job read QUEUED                                    *)
(*   removed     cancel_job sent ZREM                                      *)
(*   reissuing   retry_job / requeue_dlq_job read the row                  *)
(*   exhumed     ... and removed the job from the DLQ                      *)
(*   reentered   ... and enqueued it; not committed yet                    *)
(***************************************************************************)
EXTENDS JobQueue

CONSTANTS
  Threads,       (* Threads of the API's pool.                             *)
  Endpoints,     (* Bound: the handlers the clients of a run call.         *)
  Fallible,      (* Bound: the threads whose call may break off in a run.  *)
  ReissueLimit   (* Bound: the re-issues of one job in a run.              *)

ASSUME ApiAssumption ==
  /\ Endpoints \subseteq {"create", "cancel", "retry", "requeue"}
  /\ Fallible \subseteq Threads
  /\ ReissueLimit \in Nat

VARIABLES
  tpc,     (* Where each thread is.                                        *)
  tjob,    (* The job of the call.                                         *)
  trow,    (* The job as the call's session loaded it.                     *)
  issued   (* Job ids create_job has generated.                            *)

apiVars == << tpc, tjob, trow, issued >>

ThreadSteps == { "idle", "creating", "cancelling", "removed",
                 "reissuing", "exhumed", "reentered" }

ApiTypeOK ==
  /\ tpc \in [ Threads -> ThreadSteps ]
  /\ tjob \in [ Threads -> Jobs \cup {None} ]
  /\ \A t \in Threads : tjob[t] = None <=> tpc[t] = "idle"
  /\ trow \in [ Threads -> Row ]
  /\ issued \subseteq Jobs

ApiInit ==
  /\ tpc = [ t \in Threads |-> "idle" ]
  /\ tjob = [ t \in Threads |-> None ]
  /\ trow = [ t \in Threads |-> NoRow ]
  /\ issued = {}

Advance(t, from, to) ==
  /\ tpc[t] = from
  /\ tpc' = [ tpc EXCEPT ![t] = to ]
  /\ UNCHANGED << tjob, trow, issued >>

(* A call whose session has the given row for job j.                       *)
Begin(t, j, row, step) ==
  /\ tpc[t] = "idle"
  /\ tpc' = [ tpc EXCEPT ![t] = step ]
  /\ tjob' = [ tjob EXCEPT ![t] = j ]
  /\ trow' = [ trow EXCEPT ![t] = row ]

Finish(t) ==
  /\ tpc' = [ tpc EXCEPT ![t] = "idle" ]
  /\ tjob' = [ tjob EXCEPT ![t] = None ]
  /\ trow' = [ trow EXCEPT ![t] = NoRow ]
  /\ UNCHANGED issued

-----------------------------------------------------------------------------
(* create_job up to the enqueue: the INSERT is flushed, and invisible.     *)
CreateEnqueue(t) ==
  /\ "create" \in Endpoints
  /\ \E j \in Jobs \ issued :
       /\ Begin(t, j, NoRow, "creating")
       /\ Enqueue(j, "due")
       /\ issued' = issued \cup {j}
  /\ UNCHANGED << rows, dlq, historyVars >>

CreateCommit(t) ==
  /\ tpc[t] = "creating"
  /\ rows' = [ rows EXCEPT ![tjob[t]] = NewRow ]
  /\ Finish(t)
  /\ UNCHANGED << redisVars, historyVars >>

CancelRead(t) ==
  /\ "cancel" \in Endpoints
  /\ \E j \in Jobs :
       /\ rows[j].status = "QUEUED"
       /\ Begin(t, j, rows[j], "cancelling")
  /\ UNCHANGED << issued, rows, redisVars, historyVars >>

(* The answer of ZREM is not looked at; the history keeps it.              *)
CancelRemove(t) ==
  /\ Advance(t, "cancelling", "removed")
  /\ Remove(tjob[t])
  /\ withdrawn' = IF Queued(tjob[t]) THEN withdrawn \cup {tjob[t]} ELSE withdrawn
  /\ UNCHANGED << rows, dlq, reissues, failures >>

CancelCommit(t) ==
  /\ tpc[t] = "removed"
  /\ Commit(tjob[t], trow[t], [ trow[t] EXCEPT !.status = "CANCELLED" ])
  /\ Finish(t)
  /\ UNCHANGED << redisVars, historyVars >>

(* A call to re-issue a job whose row the session has read.                *)
BeginReissue(t, j) ==
  /\ reissues[j] < ReissueLimit
  /\ reissues' = [ reissues EXCEPT ![j] = @ + 1 ]
  /\ Begin(t, j, rows[j], "reissuing")
  /\ UNCHANGED << issued, rows, redisVars, withdrawn, failures >>

RetryRead(t) ==
  /\ "retry" \in Endpoints
  /\ \E j \in Jobs :
       /\ rows[j].status \in {"FAILED", "DEAD"}
       /\ BeginReissue(t, j)

(* requeue_dlq_job takes a job in any status, in the DLQ or not.           *)
RequeueRead(t) ==
  /\ "requeue" \in Endpoints
  /\ \E j \in Jobs :
       /\ Visible(j)
       /\ BeginReissue(t, j)

ReissueRemoveFromDlq(t) ==
  /\ Advance(t, "reissuing", "exhumed")
  /\ dlq' = dlq \ {tjob[t]}
  /\ UNCHANGED << rows, queue, historyVars >>

ReissueEnqueue(t) ==
  /\ Advance(t, "exhumed", "reentered")
  /\ Enqueue(tjob[t], "due")
  /\ UNCHANGED << rows, dlq, historyVars >>

ReissueCommit(t) ==
  /\ tpc[t] = "reentered"
  /\ Commit(tjob[t], trow[t], NewRow)
  /\ Finish(t)
  /\ UNCHANGED << redisVars, historyVars >>

(* The process dies, or Redis or the database raises: get_db closes the    *)
(* session, which rolls the transaction back; what Redis has done stays.   *)
Abort(t) ==
  /\ t \in Fallible
  /\ tpc[t] # "idle"
  /\ Finish(t)
  /\ UNCHANGED << rows, redisVars, historyVars >>

Proceed(t) ==
  \/ CreateCommit(t)
  \/ CancelRemove(t)
  \/ CancelCommit(t)
  \/ ReissueRemoveFromDlq(t)
  \/ ReissueEnqueue(t)
  \/ ReissueCommit(t)

Request(t) ==
  \/ CreateEnqueue(t)
  \/ CancelRead(t)
  \/ RetryRead(t)
  \/ RequeueRead(t)

ApiNext == \E t \in Threads : Request(t) \/ Proceed(t) \/ Abort(t)

=============================================================================
