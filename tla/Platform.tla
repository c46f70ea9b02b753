------------------------------ MODULE Platform ------------------------------
(***************************************************************************)
(* The parts around the life cycle of the jobs: start-up and sign-in       *)
(* (Accounts), the pages that show jobs (JobPages), and one job from the   *)
(* form to its result (JobRun, ResumeScore).  They share no variable,      *)
(* and no step of one depends on another: what JobPages reads of the jobs  *)
(* comes from JobTable.  A behaviour of Platform is therefore one of any   *)
(* of its parts, with the others at their start; to interleave them would  *)
(* show nothing more of a part, and multiply their states.                 *)
(***************************************************************************)
EXTENDS Accounts, ResumeScore, JobPages, JobRun

VARIABLE part  (* Which part.                                               *)

ASSUME PlatformAssumption ==
  /\ Jobs \subseteq Nat /\ None \notin Jobs
  /\ Edits \subseteq SUBSET Keys /\ \A keys \in SUBSET Keys : AsBuilt # keys
  /\ MaxRetries \in 0..10 /\ ManualRetries \in Nat /\ Requeues \in Nat
  /\ Deaths \in Nat

vars == << part, accountsVars, resume, pagesVars, jobRunVars >>

TypeOK ==
  AccountsTypeOK /\ ResumeTypeOK /\ PagesTypeOK /\ SubmitTypeOK /\ RunTypeOK

Init ==
  /\ part \in { "accounts", "pages", "run", "resume" }
  /\ AccountsInit /\ ResumeInit
  /\ part # "accounts" => schema = Fresh
  /\ PagesInit /\ RunInit

Next ==
  /\ UNCHANGED part
  /\ \/ part = "accounts" /\ AccountsNext /\ UNCHANGED << resume, pagesVars, jobRunVars >>
     \/ part = "pages" /\ PagesNext /\ UNCHANGED << accountsVars, resume, jobRunVars >>
     \/ part = "run" /\ JobRunNext /\ UNCHANGED << accountsVars, resume, pagesVars >>
     \/ part = "resume" /\ Extend /\ UNCHANGED << accountsVars, pagesVars, jobRunVars >>

Spec == Init /\ [][Next]_vars

=============================================================================
