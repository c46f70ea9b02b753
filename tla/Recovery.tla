------------------------------ MODULE Recovery ------------------------------
(***************************************************************************)
(* HeartbeatMonitor.recover_dead_worker_jobs (app/worker/heartbeat.py)     *)
(* over the heartbeats: it lists the workers, then selects the RUNNING     *)
(* jobs of those that are not in the list as ALIVE, and puts them back.    *)
(* No process of the repository calls it; this is what a caller gets.      *)
(*                                                                         *)
(* A worker process is free, busy, done or dead; its heartbeat thread may  *)
(* end before it does (BeatFails), and ends with it at the latest.  The    *)
(* recovery is                                                             *)
(*   off, listing (in list_workers), listed, selected (not committed)      *)
(* and list_workers is called by it, where Heartbeat has the API's calls.  *)
(*                                                                         *)
(* Bound: a worker takes one job in a run, and nobody else takes that job. *)
(* The queue is left out: nobody in this module takes from it.             *)
(***************************************************************************)
EXTENDS Heartbeat

CONSTANT Runners  (* Bound: the workers that take a job in a run.          *)

ASSUME RunnersAssumption == Runners \subseteq Workers

VARIABLES
  work,    (* What each worker process is at.                              *)
  row,     (* The status of the job it has taken, "none" before.           *)
  step,    (* Where the recovery is.                                       *)
  alive,   (* alive_ids.                                                   *)
  found    (* The workers whose running jobs it takes for lost.            *)

jobVars == << work, row >>
recoverVars == << step, alive, found >>
recoveryVars == << vars, jobVars, recoverVars >>

RecoveryTypeOK ==
  /\ TypeOK
  /\ work \in [ Workers -> {"free", "busy", "done", "dead"} ]
  /\ row \in [ Workers -> {"none", "RUNNING", "COMPLETED", "QUEUED"} ]
  /\ step \in {"off", "listing", "listed", "selected"}
  /\ alive \subseteq Workers
  /\ found \subseteq Workers \ alive

RecoveryInit ==
  /\ Init
  /\ work = [ w \in Workers |-> "free" ]
  /\ row = [ w \in Workers |-> "none" ]
  /\ step = "off"
  /\ alive = {} /\ found = {}

-----------------------------------------------------------------------------
(* The worker commits RUNNING; run_forever has started the thread before.  *)
Take(w) ==
  /\ w \in Runners
  /\ work[w] = "free" /\ thread[w] # "new"
  /\ work' = [ work EXCEPT ![w] = "busy" ]
  /\ row' = [ row EXCEPT ![w] = "RUNNING" ]
  /\ UNCHANGED << vars, recoverVars >>

(* It commits COMPLETED, over whatever is stored.                          *)
Done(w) ==
  /\ work[w] = "busy"
  /\ work' = [ work EXCEPT ![w] = "done" ]
  /\ row' = [ row EXCEPT ![w] = "COMPLETED" ]
  /\ UNCHANGED << vars, recoverVars >>

(* The process dies: with its thread, or after it.  Without a job, its     *)
(* death is no different from the end of its thread.                       *)
Die(w) ==
  /\ work[w] = "busy"
  /\ IF thread[w] = "ended" THEN UNCHANGED vars ELSE Crash(w)
  /\ work' = [ work EXCEPT ![w] = "dead" ]
  /\ UNCHANGED << row, recoverVars >>

-----------------------------------------------------------------------------
RecoverBegin ==
  /\ step = "off"
  /\ ListBegin
  /\ step' = "listing"
  /\ UNCHANGED << jobVars, alive, found >>

(* Fault: the test the other way round.                                    *)
DeadIds == { e.worker : e \in { d \in report : d.status = "DEAD" } }

AliveIds == { e.worker : e \in { d \in report : d.status = "ALIVE" } }

RecoverListed ==
  /\ step = "listing"
  /\ ListReturn
  /\ step' = "listed"
  /\ alive' = AliveIds
  /\ UNCHANGED << jobVars, found >>

(* Fault: only of workers it can see are dead.                             *)
LostOfListed == { w \in Workers : row[w] = "RUNNING" /\ w \in DeadIds }

Lost == { w \in Workers : row[w] = "RUNNING" /\ w \notin alive }

RecoverSelect ==
  /\ step = "listed"
  /\ step' = "selected"
  /\ found' = Lost
  /\ UNCHANGED << vars, jobVars, alive >>

(* Every row found becomes QUEUED, whatever has become of it.              *)
RecoverCommit ==
  /\ step = "selected"
  /\ step' = "off"
  /\ row' = [ w \in Workers |-> IF w \in found THEN "QUEUED" ELSE row[w] ]
  /\ alive' = {} /\ found' = {}
  /\ UNCHANGED << vars, work >>

Recover == RecoverBegin \/ RecoverListed \/ RecoverSelect \/ RecoverCommit

(* The commands of its list_workers in between.                            *)
List ==
  /\ ListScan \/ ListGet \/ ListTtl
  /\ UNCHANGED << jobVars, recoverVars >>

Beats ==
  /\ \/ \E w \in Workers : Thread(w) \/ Stop(w) \/ BeatFails(w)
     \/ Tick
  /\ UNCHANGED << jobVars, recoverVars >>

RecoveryNext ==
  \/ Beats
  \/ List
  \/ \E w \in Workers : Take(w) \/ Done(w) \/ Die(w)
  \/ Recover

RecoverySpec == RecoveryInit /\ [][RecoveryNext]_recoveryVars

(* The threads' and the clock's, as in Heartbeat.                          *)
RecoveryFairSpec == RecoverySpec /\ Fairness

-----------------------------------------------------------------------------
(* The recovery takes no job from a worker whose thread has been on since  *)
(* the recovery began, although list, SELECT and commit are of different   *)
(* times.  A worker that starts after the scan is not so spared, nor one   *)
(* that works on without its thread.                                       *)
RecoverySparesTheLiving ==
  \A w \in found : w \in live => ~On(w)

(* It finds every running job of a worker that had been silent for the     *)
(* time to live when it began.                                             *)
RecoveryFindsTheSilent ==
  [][ RecoverSelect =>
        \A w \in quiet : row[w] = "RUNNING" => w \in found' ]_recoveryVars

=============================================================================
