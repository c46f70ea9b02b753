--------------------------- MODULE MCOrchestrator ---------------------------
(* Small instances of Orchestrator for TLC.                                *)
EXTENDS Orchestrator, TLC

CONSTANTS j1, j2, w1, w2, t1, t2, e1

(* One job that may be retried once.                                       *)
OneJob == {j1}
OnePriority == j1 :> 2
OneRetry == j1 :> 1

(* Two jobs that have one retry: one of high priority, and one of low      *)
(* priority, which has to wait out its delay.                              *)
TwoJobs == {j1, j2}
TwoPriorities == j1 :> 1 @@ j2 :> 3
TwoRetries == j1 :> 1 @@ j2 :> 1

=============================================================================
