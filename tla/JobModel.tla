------------------------------ MODULE JobModel ------------------------------
(***************************************************************************)
(* The jobs table (app/models/job.py) and the way a SQLAlchemy session     *)
(* writes it (app/core/database.py).                                       *)
(*                                                                         *)
(* Every handler and every worker loads a row into an object of its own    *)
(* session, changes attributes of that object and commits.  The session is *)
(* built with autoflush=False and expire_on_commit=False, so                *)
(*   - nothing reaches the table before the commit, and then only the last *)
(*     value of each attribute does;                                       *)
(*   - the object is never read again from the table;                      *)
(*   - the UPDATE names only the columns whose value differs from the one  *)
(*     the session loaded or last committed.                               *)
(* No row is locked and no version is compared: the last UPDATE of a       *)
(* column wins, whatever another session committed meanwhile.              *)
(*                                                                         *)
(* Columns no property tells apart are left out: payload, result, type,    *)
(* the owner and the three timestamps.  priority and max_retries never     *)
(* change after the INSERT and are constants of the job.                   *)
(***************************************************************************)
EXTENDS Naturals

CONSTANTS
  Jobs,        (* Job ids (uuid4: an id is never handed out twice).        *)
  Workers,     (* Worker ids (hostname-uuid4).                             *)
  Errors,      (* Texts str(exc) can have.                                 *)
  None,        (* SQL NULL / Python None.                                  *)
  Priority,    (* Job.priority: 1 high, 2 medium, 3 low.                   *)
  MaxRetries   (* Job.max_retries.                                         *)

ASSUME JobAssumption ==
  /\ Priority \in [Jobs -> 1..3]
  /\ MaxRetries \in [Jobs -> Nat]
  /\ None \notin Jobs
  /\ None \notin Workers
  /\ None \notin Errors

VARIABLE rows  (* The committed rows of the table, one per job id.         *)

JobStatus == { "CREATED", "QUEUED", "ASSIGNED", "RUNNING", "COMPLETED",
               "FAILED", "RETRYING", "DEAD", "CANCELLED" }

(* "ABSENT" stands for a row no other transaction can see.                 *)
Row == [ status        : JobStatus \cup {"ABSENT"},
         retry_count   : Nat,
         worker_id     : Workers \cup {None},
         error_message : Errors \cup {None} ]

NoRow == [ status        |-> "ABSENT",
           retry_count   |-> 0,
           worker_id     |-> None,
           error_message |-> None ]

(* The row JobCreate inserts, at the status it has when it is committed.   *)
NewRow == [ NoRow EXCEPT !.status = "QUEUED" ]

Visible(j) == rows[j].status # "ABSENT"

(* One column of the UPDATE: named only if the session changed it.         *)
Column(stored, loaded, current) == IF current = loaded THEN stored ELSE current

(* The stored row after a session that loaded (or last committed) "loaded" *)
(* commits the attribute values "current".                                 *)
Flush(stored, loaded, current) ==
  [ status        |-> Column(stored.status, loaded.status, current.status),
    retry_count   |-> Column(stored.retry_count, loaded.retry_count,
                             current.retry_count),
    worker_id     |-> Column(stored.worker_id, loaded.worker_id,
                             current.worker_id),
    error_message |-> Column(stored.error_message, loaded.error_message,
                             current.error_message) ]

Commit(j, loaded, current) ==
  rows' = [ rows EXCEPT ![j] = Flush(@, loaded, current) ]

RowsInit == rows = [ j \in Jobs |-> NoRow ]

RowsTypeOK == rows \in [ Jobs -> Row ]

=============================================================================
