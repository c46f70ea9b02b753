------------------------------- MODULE Ticket -------------------------------
(***************************************************************************)
(* What the queue promises of a job nobody re-issues by hand: the job has  *)
(* one ticket in its whole life.  It is issued once, waits, is held by one *)
(* worker at a time, may be given back to be taken again, and once spent   *)
(* never comes back.  A job an operator re-issues is void: no promise is   *)
(* made of it any more.                                                    *)
(*                                                                         *)
(* Nothing here is translated from the code: Orchestrator.tla maps its     *)
(* state to this one and implements it.                                    *)
(***************************************************************************)
CONSTANTS Jobs, Workers

VARIABLE ticket  (* For each job the place of its ticket.                  *)

Places == { "new", "waiting", "spent", "void" } \cup Workers

Init == ticket = [ j \in Jobs |-> "new" ]

Move(j, place) == ticket' = [ ticket EXCEPT ![j] = place ]

Issue(j) == ticket[j] = "new" /\ Move(j, "waiting")

Take(j, w) == ticket[j] = "waiting" /\ Move(j, w)

GiveBack(j, w) == ticket[j] = w /\ Move(j, "waiting")

(* The holder is done with the job, or lost it; or it was withdrawn.       *)
Spend(j) == ticket[j] \in Workers \cup {"waiting"} /\ Move(j, "spent")

Void(j) == Move(j, "void")

Next ==
  \E j \in Jobs :
    \/ Issue(j)
    \/ \E w \in Workers : Take(j, w) \/ GiveBack(j, w)
    \/ Spend(j)
    \/ Void(j)

Spec == Init /\ [][Next]_ticket

=============================================================================
