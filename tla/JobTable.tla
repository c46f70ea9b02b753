------------------------------ MODULE JobTable ------------------------------
(***************************************************************************)
(* What a reader of the jobs table and of the DLQ may rely on, whoever     *)
(* writes them.  The table's readers are the pages of the dashboards       *)
(* (JobPages.tla); its writers are the handlers and the workers            *)
(* (Orchestrator.tla, which implements this module).                       *)
(***************************************************************************)
CONSTANT Jobs

VARIABLES
  status,   (* The status of each job's row, "ABSENT" before its commit.   *)
  dead      (* The jobs that have an entry in the DLQ.                     *)

tableVars == << status, dead >>

(* CREATED and FAILED are statuses no session commits: the same session    *)
(* replaces them before its commit.                                        *)
Stored == { "QUEUED", "ASSIGNED", "RUNNING", "COMPLETED", "RETRYING", "DEAD",
            "CANCELLED" }

Listed == { j \in Jobs : status[j] # "ABSENT" }

TableInit ==
  /\ status = [ j \in Jobs |-> "ABSENT" ]
  /\ dead = {}

(* A row appears as QUEUED.                                                *)
Appear(j) ==
  /\ status[j] = "ABSENT"
  /\ status' = [ status EXCEPT ![j] = "QUEUED" ]
  /\ UNCHANGED dead

(* A row that is there stays, with any other status.                       *)
Change(j) ==
  /\ j \in Listed
  /\ \E s \in Stored : status' = [ status EXCEPT ![j] = s ]
  /\ UNCHANGED dead

(* Only a job with a row is in the DLQ.                                    *)
Bury(j) ==
  /\ j \in Listed
  /\ dead' = dead \cup {j}
  /\ UNCHANGED status

Exhume(j) ==
  /\ dead' = dead \ {j}
  /\ UNCHANGED status

TableNext == \E j \in Jobs : Appear(j) \/ Change(j) \/ Bury(j) \/ Exhume(j)

TableSpec == TableInit /\ [][TableNext]_tableVars

=============================================================================
