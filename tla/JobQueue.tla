------------------------------ MODULE JobQueue ------------------------------
(***************************************************************************)
(* RedisJobQueue (app/queue/redis_queue.py) as its clients use it: the     *)
(* sorted set queue:jobs and the hash dlq:jobs.                            *)
(*                                                                         *)
(* What the clients can tell apart is whether an entry is there and        *)
(* whether its available_at has passed, so an entry is "due" or "delayed"  *)
(* and time is the step Elapse.  Entries of one priority that are both due *)
(* (or both delayed) come back in any order here; RedisJobQueue.tla has    *)
(* the scores and the clock.                                               *)
(*                                                                         *)
(* Each entry is a ticket: whoever removes it may run the job.             *)
(***************************************************************************)
EXTENDS JobModel

VARIABLES
  queue,      (* queue:jobs                                                *)
  dlq,        (* Keys of dlq:jobs                                          *)
  reissues,   (* History: calls that re-issue a job by hand.               *)
  withdrawn,  (* History: jobs whose entry cancel_job removed.             *)
  failures    (* History: executions of a job that failed, counted up to   *)
              (* one more than its retries (bound).                        *)

redisVars == << queue, dlq >>
historyVars == << reissues, withdrawn, failures >>

QueueTypeOK ==
  /\ queue \in [ Jobs -> {"out", "delayed", "due"} ]
  /\ dlq \subseteq Jobs
  /\ reissues \in [ Jobs -> Nat ]
  /\ withdrawn \subseteq Jobs
  /\ failures \in [ Jobs -> Nat ]

QueueInit ==
  /\ queue = [ j \in Jobs |-> "out" ]
  /\ dlq = {}
  /\ reissues = [ j \in Jobs |-> 0 ]
  /\ withdrawn = {}
  /\ failures = [ j \in Jobs |-> 0 ]

Queued(j) == queue[j] # "out"

(* ZADD: a second entry for the same job replaces the first.               *)
Enqueue(j, availability) == queue' = [ queue EXCEPT ![j] = availability ]

(* ZREM.                                                                   *)
Remove(j) == queue' = [ queue EXCEPT ![j] = "out" ]

(* The entries dequeue may pick.                                           *)
Order == INSTANCE QueueOrder

(* The clock reaches available_at of an entry.                             *)
Elapse(j) ==
  /\ queue[j] = "delayed"
  /\ Enqueue(j, "due")
  /\ UNCHANGED << dlq, historyVars >>

=============================================================================
