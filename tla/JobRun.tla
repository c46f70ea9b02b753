------------------------------- MODULE JobRun -------------------------------
(***************************************************************************)
(* One submitted job from POST /jobs to its end, with what the life cycle  *)
(* model (Orchestrator.tla) leaves out: the payload, the executors         *)
(* (app/executor/), the mails they send, the delays (app/worker/retry.py)  *)
(* and the job log (app/models/events.py).  One worker, and another one    *)
(* when it is gone; calls come between its steps, and the steps of a call  *)
(* are one.  The worker's object is loaded once (JobModel.tla): a requeue  *)
(* that comes meanwhile gives the job a second entry, and the count the    *)
(* worker goes on with is the one it loaded.                               *)
(*                                                                         *)
(*   idle       the job is not with the worker                             *)
(*   assigned   _mark_assigned has committed                               *)
(*   running    in the executor                                            *)
(*   accepted   the SMTP server has taken the mail; the executor has not   *)
(*              returned, or its result is not committed                   *)
(***************************************************************************)
EXTENDS SubmitPage, SequencesExt

CONSTANTS
  MaxRetries,  (* Of the job.                                              *)
  ManualRetries, (* Bound: retry calls of a run.                           *)
  Requeues,  (* Bound: requeue calls of a run.                             *)
  Deaths     (* Bound: workers that die in _handle_failure.                *)

VARIABLES
  step,      (* Where the worker is.                                       *)
  task,      (* type and payload of the row.                               *)
  queued,    (* Whether queue:jobs has an entry of the job.                *)
  loaded,    (* retry_count of the worker's object.                        *)
  job,       (* status, retry_count and result of the row; smtp of the     *)
             (* settings: "off" for email_dry_run or no smtp_host.         *)
  log,       (* The events of the job, in the order of created_at.         *)
  delay,     (* delay_seconds of the last JOB_RETRYING since the job was   *)
             (* queued by a call, in tenths of a second, or 0.             *)
  mails,     (* History: mails the SMTP server has taken.                  *)
  failures,  (* History: failed executions whose handling was committed.   *)
  unhandled, (* History: those whose worker died after the enqueue.        *)
  retries,   (* History: retry calls.                                      *)
  requeues,  (* History: requeue calls.                                    *)
  overtaken  (* History: the last of these calls came while the worker had *)
             (* the job.                                                   *)

callVars == << retries, requeues, overtaken >>
historyVars == << mails, failures, unhandled, callVars >>
runVars == << step, task, queued, loaded, job, log, delay, historyVars >>
jobRunVars == << submitVars, runVars >>

Result == {"none", "sent", "dry_run", "value"}

RunTypeOK ==
  /\ step \in {"idle", "assigned", "running", "accepted"}
  /\ task \in [ type : Types, payload : SUBSET Keys ] \cup {NoPost}
  /\ queued \in BOOLEAN
  /\ loaded \in Nat
  /\ job.status \in {"ABSENT", "QUEUED", "ASSIGNED", "RUNNING", "COMPLETED",
                     "RETRYING", "DEAD", "CANCELLED"}
  /\ job.retry_count \in Nat
  /\ job.result \in Result
  /\ job.smtp \in {"on", "off"}
  /\ delay \in Nat
  /\ mails \in Nat
  /\ failures \in 0..((ManualRetries + Requeues + 1) * (MaxRetries + 1))
  /\ unhandled \in 0..Deaths
  /\ retries \in 0..ManualRetries
  /\ requeues \in 0..Requeues
  /\ overtaken \in BOOLEAN

RunInit ==
  /\ SubmitInit
  /\ step = "idle" /\ task = NoPost /\ queued = FALSE /\ loaded = 0
  /\ job = [ status |-> "ABSENT", retry_count |-> 0, result |-> "none",
             smtp |-> "off" ]
  /\ log = << >>
  /\ delay = 0
  /\ mails = 0 /\ failures = 0 /\ unhandled = 0
  /\ retries = 0 /\ requeues = 0 /\ overtaken = FALSE

(* add_job_log: an INSERT of the transaction that changes the row.         *)
Log(events) == log' = log \o events

-----------------------------------------------------------------------------
(* The handlers.                                                           *)

Create ==
  /\ request # NoPost
  /\ Leave
  /\ task' = [ type |-> request.type, payload |-> request.payload ]
  /\ \E smtp \in {"on", "off"} :
       job' = [ job EXCEPT !.status = "QUEUED", !.smtp = smtp ]
  /\ queued' = TRUE
  /\ Log(<< "JOB_CREATED", "JOB_QUEUED" >>)
  /\ UNCHANGED << step, loaded, delay, historyVars >>

Cancel ==
  /\ job.status = "QUEUED"
  /\ job' = [ job EXCEPT !.status = "CANCELLED" ]
  /\ queued' = FALSE
  /\ Log(<< "JOB_CANCELLED" >>)
  /\ UNCHANGED << submitVars, task, step, loaded, delay, historyVars >>

(* Fault: retry_count is not reset.                                        *)
QueueAgainUncleared(event) ==
  /\ job' = [ job EXCEPT !.status = "QUEUED" ]
  /\ queued' = TRUE
  /\ Log(<< event >>)
  /\ delay' = 0
  /\ overtaken' = (step # "idle")
  /\ UNCHANGED << submitVars, task, step, loaded, mails, failures, unhandled >>

(* What retry_job and requeue_dlq_job have in common.                      *)
QueueAgain(event) ==
  /\ job' = [ job EXCEPT !.status = "QUEUED", !.retry_count = 0 ]
  /\ queued' = TRUE
  /\ Log(<< event >>)
  /\ delay' = 0
  /\ overtaken' = (step # "idle")
  /\ UNCHANGED << submitVars, task, step, loaded, mails, failures, unhandled >>

(* FAILED is not stored (Worker.tla).                                      *)
Retry ==
  /\ job.status = "DEAD" /\ retries < ManualRetries
  /\ QueueAgain("JOB_MANUAL_RETRY")
  /\ retries' = retries + 1
  /\ UNCHANGED requeues

(* requeue_dlq_job asks for no status, nor for an entry in the DLQ.        *)
Requeue ==
  /\ job.status # "ABSENT" /\ requeues < Requeues
  /\ QueueAgain("DLQ_REQUEUED")
  /\ requeues' = requeues + 1
  /\ UNCHANGED retries

-----------------------------------------------------------------------------
(* The worker.                                                             *)

(* The jobs process_once leaves alone.                                     *)
Over == {"CANCELLED", "COMPLETED"}

Skip ==
  /\ step = "idle" /\ queued
  /\ job.status \in Over
  /\ queued' = FALSE
  /\ UNCHANGED << submitVars, task, step, loaded, job, log, delay, historyVars >>

Assign ==
  /\ step = "idle" /\ queued
  /\ job.status \notin Over
  /\ step' = "assigned" /\ queued' = FALSE
  /\ loaded' = job.retry_count
  /\ job' = [ job EXCEPT !.status = "ASSIGNED" ]
  /\ Log(<< "WORKER_ASSIGNED" >>)
  /\ UNCHANGED << submitVars, task, delay, historyVars >>

StartRun ==
  /\ step = "assigned"
  /\ step' = "running"
  /\ job' = [ job EXCEPT !.status = "RUNNING" ]
  /\ Log(<< "EXECUTION_STARTED" >>)
  /\ UNCHANGED << submitVars, task, queued, loaded, delay, historyVars >>

(* The test each executor begins with; if it fails, ValueError.            *)
Complete(t, payload) ==
  CASE t = "email_send" -> {"to", "subject", "body"} \subseteq payload
    [] t = "pdf_summary" -> "file_path" \in payload
    [] t = "resume_analysis" -> payload \cap {"text", "file_path"} # {}

Requirements == Complete(task.type, task.payload)

Mailing == task.type = "email_send" /\ job.smtp = "on"

(* The mail has gone out.                                                  *)
Mailed ==
  /\ step' = "accepted"
  /\ mails' = mails + 1
  /\ UNCHANGED << submitVars, task, queued, loaded, job, log, delay, failures,
                  unhandled, callVars >>

(* smtp.send_message, up to the server's answer to the data.               *)
Send ==
  /\ step = "running" /\ Requirements /\ Mailing
  /\ Mailed

(* The executor returned, and the row is committed with its result.        *)
Finish(result) ==
  /\ step' = "idle"
  /\ job' = [ job EXCEPT !.status = "COMPLETED", !.result = result ]
  /\ Log(<< "EXECUTION_COMPLETED" >>)
  /\ UNCHANGED << submitVars, task, queued, loaded, delay, historyVars >>

Delivered == step = "accepted" /\ Finish("sent")

(* No mail to send: the dry run, a summary, an analysis.                   *)
Returned ==
  /\ step = "running" /\ Requirements /\ ~Mailing
  /\ Finish(IF task.type = "email_send" THEN "dry_run" ELSE "value")

(* Fault: half the delay more or less.                                     *)
WideJitter == 5..15

(* uniform(0.8, 1.2), in tenths.                                           *)
Jitter == 8..12

(* calculate_delay, in tenths of a second.                                 *)
Delay(attempt) ==
  { jitter * 2^(IF attempt > 0 THEN attempt - 1 ELSE 0) : jitter \in Jitter }

(* Fault: one retry more.                                                  *)
MayRetryOnceMore(count) == count <= MaxRetries + 1

MayRetry(count) == count <= MaxRetries

(* _handle_failure: a ValueError of the executor, an error of the network  *)
(* or a file, or an error of QUIT after the mail was taken.                *)
Fail ==
  LET count == loaded + 1
  IN  /\ step \in {"running", "accepted"}
      /\ step' = "idle"
      /\ failures' = failures + 1
      /\ IF MayRetry(count)
         THEN /\ job' = [ job EXCEPT !.status = "RETRYING", !.retry_count = count ]
              /\ queued' = TRUE
              /\ Log(<< "EXECUTION_FAILED", "JOB_RETRYING" >>)
              /\ delay' \in Delay(count)
         ELSE /\ job' = [ job EXCEPT !.status = "DEAD", !.retry_count = count ]
              /\ Log(<< "EXECUTION_FAILED", "JOB_DEAD" >>)
              /\ UNCHANGED << queued, delay >>
      /\ UNCHANGED << submitVars, task, loaded, mails, unhandled, callVars >>

(* ... which dies between the enqueue and the commit.                      *)
DieInFailure ==
  /\ step \in {"running", "accepted"} /\ unhandled < Deaths
  /\ MayRetry(loaded + 1)
  /\ step' = "idle" /\ queued' = TRUE
  /\ unhandled' = unhandled + 1
  /\ UNCHANGED << submitVars, task, loaded, job, log, delay, mails, failures, callVars >>

(* Fault: the entry is given back.                                         *)
CrashGivesBack ==
  /\ step # "idle"
  /\ step' = "idle" /\ queued' = TRUE
  /\ UNCHANGED << submitVars, task, loaded, job, log, delay, historyVars >>

(* The worker dies anywhere else, also from an error of a commit: after    *)
(* one, _handle_failure has the same session and fails too.                *)
Crash ==
  /\ step # "idle"
  /\ step' = "idle"
  /\ UNCHANGED << submitVars, task, queued, loaded, job, log, delay, historyVars >>

Work ==
  \/ Skip \/ Assign \/ StartRun
  \/ Send \/ Delivered \/ Returned
  \/ Fail \/ DieInFailure \/ Crash

JobRunNext ==
  \/ SubmitNext /\ job.status = "ABSENT" /\ UNCHANGED runVars
  \/ Create \/ Cancel \/ Retry \/ Requeue
  \/ Work

JobRunSpec == RunInit /\ [][JobRunNext]_jobRunVars

-----------------------------------------------------------------------------
(* What a form builds without the help of a hand is what its executor      *)
(* asks for: no such job is retried and buried for "requires payload...".  *)
FormsMeetRequirements ==
  request # NoPost =>
    (request.by = "form" => Complete(request.type, request.payload))

(* A mail may go out again, but not of itself: each time but the first, an *)
(* execution failed before or the admin queued the job again.  A worker's  *)
(* death sends nothing twice, unless it comes between the enqueue and the  *)
(* commit of a failure.  No mail goes out in a dry run, and one at least   *)
(* for a job that says so.                                                 *)
MailsAreAccounted ==
  /\ mails <= failures + unhandled + requeues + 1
  /\ job.smtp = "off" => mails = 0
  /\ job.result = "sent" => mails > 0

(* calculate_delay: each time, since a call last queued the job, a longer  *)
(* delay is asked of the queue (and logged), whatever the jitter.  What    *)
(* the queue makes of it is in RedisJobQueue: it waits in the last band    *)
(* only (LastBandWaits, BackoffIsHonoured).                                *)
DelaysAskedGrow == [][ delay' # 0 => delay' > delay ]_delay

(* app/worker/retry.py:21: with three retries the fourth failure buries    *)
(* the job and no other does, and a retry by hand grants as many again; so *)
(* does a requeue, at most: one that comes early leaves fewer.             *)
BuriedOnTime ==
  job.status = "DEAD" =>
    /\ failures >= (retries + 1) * (MaxRetries + 1)
    /\ failures <= (retries + requeues + 1) * (MaxRetries + 1)

Calls == {"JOB_MANUAL_RETRY", "DLQ_REQUEUED"}

LastCall ==
  LET places == { i \in DOMAIN log : log[i] \in Calls }
  IN  IF places = {} THEN 0 ELSE Max(places)

LoggedFailures ==
  Cardinality({ i \in DOMAIN log : i > LastCall /\ log[i] = "EXECUTION_FAILED" })

(* The log tells the state of the row: its last event is the one of the    *)
(* status, and since the job was last queued by a call it has an           *)
(* EXECUTION_FAILED for each retry counted.  If the call came while the    *)
(* worker had the job, the worker may have stored the count it had before. *)
LogTellsStory ==
  LET last == IF log = << >> THEN "none" ELSE Last(log)
  IN  /\ job.status =
           CASE last = "none" -> "ABSENT"
             [] last \in {"JOB_QUEUED"} \cup Calls -> "QUEUED"
             [] last = "WORKER_ASSIGNED" -> "ASSIGNED"
             [] last = "EXECUTION_STARTED" -> "RUNNING"
             [] last = "EXECUTION_COMPLETED" -> "COMPLETED"
             [] last = "JOB_RETRYING" -> "RETRYING"
             [] last = "JOB_DEAD" -> "DEAD"
             [] last = "JOB_CANCELLED" -> "CANCELLED"
      /\ IF overtaken THEN job.retry_count >= LoggedFailures
                      ELSE job.retry_count = LoggedFailures

=============================================================================
