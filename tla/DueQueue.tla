------------------------------ MODULE DueQueue ------------------------------
(***************************************************************************)
(* What RedisJobQueue (app/queue/redis_queue.py) promises to processes     *)
(* that call it at once and see neither its scores nor its clock: the      *)
(* steps the life cycle model (JobQueue.tla, Worker.tla) takes on it.      *)
(***************************************************************************)
EXTENDS QueueOrder

CONSTANTS Clients, None

VARIABLE picked  (* For each client the job its dequeue has picked, if any. *)

dueVars == << queue, picked >>

DueInit ==
  /\ queue = [ j \in Jobs |-> "out" ]
  /\ picked = [ c \in Clients |-> None ]

(* enqueue; an entry that is there already is replaced.                    *)
Enqueue(j) ==
  /\ \E availability \in {"delayed", "due"} :
       queue' = [ queue EXCEPT ![j] = availability ]
  /\ UNCHANGED picked

(* The first half of dequeue.                                              *)
Pick(c) ==
  /\ picked[c] = None
  /\ \E j \in Jobs :
       /\ IsHead(j)
       /\ picked' = [ picked EXCEPT ![c] = j ]
  /\ UNCHANGED queue

(* The second half: the entry is handed to the one who removes it.         *)
Hand(c) ==
  /\ picked[c] # None
  /\ queue[picked[c]] # "out"
  /\ queue' = [ queue EXCEPT ![picked[c]] = "out" ]
  /\ picked' = [ picked EXCEPT ![c] = None ]

(* ... and to nobody else.                                                 *)
Miss(c) ==
  /\ picked[c] # None
  /\ queue[picked[c]] = "out"
  /\ picked' = [ picked EXCEPT ![c] = None ]
  /\ UNCHANGED queue

(* remove().                                                               *)
Withdraw(j) ==
  /\ queue[j] # "out"
  /\ queue' = [ queue EXCEPT ![j] = "out" ]
  /\ UNCHANGED picked

(* Time passes: entries become due, some at once.                          *)
Elapse ==
  /\ \E elapsed \in SUBSET { j \in Jobs : queue[j] = "delayed" } :
       queue' = [ j \in Jobs |-> IF j \in elapsed THEN "due" ELSE queue[j] ]
  /\ UNCHANGED picked

DueNext ==
  \/ \E j \in Jobs : Enqueue(j) \/ Withdraw(j)
  \/ \E c \in Clients : Pick(c) \/ Hand(c) \/ Miss(c)
  \/ Elapse

DueSpec == DueInit /\ [][DueNext]_dueVars

=============================================================================
