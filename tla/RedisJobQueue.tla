--------------------------- MODULE RedisJobQueue ----------------------------
(***************************************************************************)
(* RedisJobQueue (app/queue/redis_queue.py) command by command: the sorted *)
(* set queue:jobs with its scores, the clock the scores are made from, and *)
(* the processes that call enqueue, dequeue and remove.                    *)
(*                                                                         *)
(* enqueue reads the clock and then sends ZADD.  dequeue reads the clock,  *)
(* sends ZRANGEBYSCORE and then ZREM.  Between any two of these the other  *)
(* processes go on and time passes.  ZREM names the member, not the score. *)
(*                                                                         *)
(*   idle    no call                                                       *)
(*   scored  enqueue has computed the score                                *)
(*   timed   dequeue has computed max_score                                *)
(*   ranged  dequeue has the lowest member in range                        *)
(***************************************************************************)
EXTENDS Integers

CONSTANTS
  Jobs,
  Clients,   (* Processes that call the queue.                             *)
  Priority,  (* Priority of a job, 1 to 3.                                 *)
  Delays,    (* delay_seconds the callers pass, in ticks of the clock.     *)
  None,      (* No job.                                                   *)
  Band,      (* 10^13, the distance of two priorities.                     *)
  Horizon,   (* Bound: the last tick.  10^13 ms are reached in 2286.       *)
  AddLimit   (* Bound: the enqueues of one job in a run.                   *)

ASSUME QueueAssumption ==
  /\ Priority \in [ Jobs -> 1..3 ]
  /\ Delays \subseteq Nat
  /\ Horizon \in Nat /\ Band \in Nat /\ Horizon < Band
  /\ AddLimit \in Nat
  /\ None \notin Jobs

VARIABLES
  zset,    (* Score of each member; 0 for a job that is no member.         *)
  clock,   (* time.time()                                                  *)
  pc,      (* Where each client is.                                        *)
  arg,     (* The job of enqueue, or the member dequeue got.               *)
  num,     (* The score of enqueue, or max_score of dequeue.               *)
  stood,   (* History: members in place since the dequeue began.           *)
  calls,   (* History: enqueue calls per job.                              *)
  added,   (* History: ZADDs per job.                                      *)
  handed   (* History: ZREMs per job that removed the member.              *)

vars == << zset, clock, pc, arg, num, stood, calls, added, handed >>

Member(j) == zset[j] # 0

(* Fault: the priorities are counted from zero.                            *)
ScoreFromZero(j, at) == (Priority[j] - 1) * Band + at

(* Fault: first come, first served; the priority only breaks ties.         *)
ScoreByTime(j, at) == at * 4 + Priority[j]

Score(j, at) == Priority[j] * Band + at

(* Fault: the bound leaves the last band out.                              *)
MaxScoreShort == 2 * Band + clock

(* Fault: the bound takes the last band in as a whole too.                 *)
MaxScoreWide == 4 * Band

MaxScore == 3 * Band + clock

(* available_at_ms of a member.                                            *)
AvailableAt(j) == zset[j] - Priority[j] * Band

(* stats(): the priority it reads off a score.                             *)
StatsPriority(j) == zset[j] \div Band

TypeOK ==
  /\ zset \in [ Jobs -> Nat ]
  /\ clock \in 0..Horizon
  /\ pc \in [ Clients -> {"idle", "scored", "timed", "ranged"} ]
  /\ arg \in [ Clients -> Jobs \cup {None} ]
  /\ \A c \in Clients : arg[c] \in Jobs <=> pc[c] \in {"scored", "ranged"}
  /\ num \in [ Clients -> Nat ]
  /\ stood \in [ Clients -> SUBSET Jobs ]
  /\ calls \in [ Jobs -> Nat ]
  /\ added \in [ Jobs -> Nat ]
  /\ handed \in [ Jobs -> Nat ]

Init ==
  /\ zset = [ j \in Jobs |-> 0 ]
  /\ clock = 0
  /\ pc = [ c \in Clients |-> "idle" ]
  /\ arg = [ c \in Clients |-> None ]
  /\ num = [ c \in Clients |-> 0 ]
  /\ stood = [ c \in Clients |-> {} ]
  /\ calls = [ j \in Jobs |-> 0 ]
  /\ added = [ j \in Jobs |-> 0 ]
  /\ handed = [ j \in Jobs |-> 0 ]

Goto(c, step) == pc' = [ pc EXCEPT ![c] = step ]

(* The call returns.                                                       *)
Return(c) ==
  /\ Goto(c, "idle")
  /\ arg' = [ arg EXCEPT ![c] = None ]
  /\ num' = [ num EXCEPT ![c] = 0 ]

(* ZADD, or ZREM with the score 0: the member is not what it was.          *)
Set(j, score) ==
  /\ zset' = [ zset EXCEPT ![j] = score ]
  /\ stood' = [ c \in Clients |-> stood[c] \ {j} ]

(* ZREM removes the member.                                                *)
Take(j) ==
  /\ Set(j, 0)
  /\ handed' = [ handed EXCEPT ![j] = @ + 1 ]

-----------------------------------------------------------------------------
EnqueueScore(c) ==
  /\ pc[c] = "idle"
  /\ \E j \in Jobs, delay \in Delays :
       /\ calls[j] < AddLimit
       /\ clock + delay <= Horizon
       /\ arg' = [ arg EXCEPT ![c] = j ]
       /\ num' = [ num EXCEPT ![c] = Score(j, clock + delay) ]
       /\ calls' = [ calls EXCEPT ![j] = @ + 1 ]
  /\ Goto(c, "scored")
  /\ UNCHANGED << zset, clock, stood, added, handed >>

EnqueueAdd(c) ==
  /\ pc[c] = "scored"
  /\ Set(arg[c], num[c])
  /\ added' = [ added EXCEPT ![arg[c]] = @ + 1 ]
  /\ Return(c)
  /\ UNCHANGED << clock, calls, handed >>

DequeueTime(c) ==
  /\ pc[c] = "idle"
  /\ num' = [ num EXCEPT ![c] = MaxScore ]
  /\ stood' = [ stood EXCEPT ![c] = { j \in Jobs : Member(j) } ]
  /\ Goto(c, "timed")
  /\ UNCHANGED << zset, clock, arg, calls, added, handed >>

Reach(c) == { j \in Jobs : Member(j) /\ zset[j] <= num[c] }

DequeueRange(c) ==
  /\ pc[c] = "timed"
  /\ \E j \in Reach(c) :
       /\ \A k \in Reach(c) : zset[j] <= zset[k]
       /\ arg' = [ arg EXCEPT ![c] = j ]
  /\ Goto(c, "ranged")
  /\ UNCHANGED << zset, clock, num, stood, calls, added, handed >>

(* Fault: the empty answer of ZRANGEBYSCORE is not noticed.                *)
DequeueUnchecked(c) ==
  /\ pc[c] = "timed"
  /\ Reach(c) = {}
  /\ Goto(c, "ranged")
  /\ UNCHANGED << zset, clock, arg, num, stood, calls, added, handed >>

DequeueNothing(c) ==
  /\ pc[c] = "timed"
  /\ Reach(c) = {}
  /\ Return(c)
  /\ UNCHANGED << zset, clock, stood, calls, added, handed >>

(* Fault: dequeue returns the job whatever ZREM answers.                   *)
DequeueRegardless(c) ==
  /\ pc[c] = "ranged"
  /\ Take(arg[c])
  /\ Return(c)
  /\ UNCHANGED << clock, calls, added >>

(* ZREM removed the member: dequeue returns its job.                       *)
DequeueRemove(c) ==
  /\ pc[c] = "ranged"
  /\ Member(arg[c])
  /\ Take(arg[c])
  /\ Return(c)
  /\ UNCHANGED << clock, calls, added >>

(* Fault: dequeue returns None without a ZREM.                             *)
DequeueGivesUp(c) ==
  /\ pc[c] = "ranged"
  /\ Return(c)
  /\ UNCHANGED << zset, clock, stood, calls, added, handed >>

(* ZREM removed nothing: dequeue returns None.                             *)
DequeueMiss(c) ==
  /\ pc[c] = "ranged"
  /\ ~Member(arg[c])
  /\ Return(c)
  /\ UNCHANGED << zset, clock, stood, calls, added, handed >>

(* remove(), for cancel_job.                                               *)
Remove(c) ==
  /\ pc[c] = "idle"
  /\ \E j \in Jobs : Member(j) /\ Take(j)
  /\ UNCHANGED << clock, pc, arg, num, calls, added >>

Tick ==
  /\ clock < Horizon
  /\ clock' = clock + 1
  /\ UNCHANGED << zset, pc, arg, num, stood, calls, added, handed >>

Dequeue(c) ==
  \/ DequeueTime(c)
  \/ DequeueRange(c)
  \/ DequeueNothing(c)
  \/ DequeueRemove(c)
  \/ DequeueMiss(c)

Next ==
  \/ \E c \in Clients : EnqueueScore(c) \/ EnqueueAdd(c) \/ Dequeue(c) \/ Remove(c)
  \/ Tick

Spec == Init /\ [][Next]_vars

(* Calls that began go on, every client polls, and time passes.            *)
Fairness ==
  /\ \A c \in Clients : WF_vars(EnqueueAdd(c)) /\ WF_vars(Dequeue(c))
  /\ WF_vars(Tick)

FairSpec == Spec /\ Fairness

-----------------------------------------------------------------------------
(* A member is handed to one caller: as many ZREMs succeed as ZADDs put a  *)
(* member there, at most, however dequeues, removes and enqueues overlap.  *)
HandedOnce ==
  \A j \in Jobs : handed[j] + (IF Member(j) THEN 1 ELSE 0) <= added[j]

(* The score keeps the priority apart from the time: stats() counts every  *)
(* member under the priority it was enqueued with.                         *)
StatsAgree == \A j \in Jobs : Member(j) => StatsPriority(j) = Priority[j]

(* dequeue returns no job while a job of a higher priority stood in the    *)
(* queue during the whole call.                                            *)
NoPriorityInversion ==
  [][ \A c \in Clients :
        DequeueRemove(c) =>
          \A k \in stood[c] : Priority[arg[c]] <= Priority[k] ]_vars

(* A delay is waited for in the last band: of the entries in place since   *)
(* the dequeue began, none of priority 3 is handed out before its time.    *)
(* One enqueued anew between the ZRANGEBYSCORE and the ZREM goes out at    *)
(* once, its new delay forgotten: ZREM names the member and not the score. *)
LastBandWaits ==
  [][ \A c \in Clients :
        DequeueRemove(c) /\ arg[c] \in stood[c] /\ Priority[arg[c]] = 3
          => AvailableAt(arg[c]) <= clock ]_vars

(* What the members are to a client that cannot see the scores.            *)
Availability ==
  [ j \in Jobs |-> IF ~Member(j) THEN "out"
                   ELSE IF AvailableAt(j) <= clock THEN "due" ELSE "delayed" ]

Order == INSTANCE QueueOrder WITH queue <- Availability

(* The scores pick an entry QueueOrder allows, although max_score is older *)
(* than the pick: the queue of the life cycle model is sound.              *)
PicksAllowed ==
  [][ \A c \in Clients :
        DequeueRange(c) => Order!IsHead(arg'[c]) ]_vars

Due == INSTANCE DueQueue
         WITH queue <- Availability,
              picked <- [ c \in Clients |-> IF pc[c] = "ranged" THEN arg[c] ELSE None ]

(* Command by command, with scores and a clock that runs on between them,  *)
(* the queue is the one of the life cycle model, where an entry is taken   *)
(* by one step or missed: no call sees or does anything else.              *)
ImplementsDueQueue == Due!DueSpec

(* Once no more jobs arrive, the queue empties, from the last band too.    *)
(* AddLimit ends the arrivals here, and nothing like it does in the code:  *)
(* as long as jobs of a higher priority keep coming, dequeue takes them    *)
(* and leaves the others where they are.                                   *)
EveryMemberLeaves == \A j \in Jobs : Member(j) ~> ~Member(j)

-----------------------------------------------------------------------------
(* app/worker/retry.py:18 says "Attempt 1 fails -> retry after ~1s": a job *)
(* enqueued with a delay is not handed out before the delay is over.  The  *)
(* bound of dequeue looks at the clock in the last band only, so a job of  *)
(* priority 1 or 2 (the default) is retried at once.                       *)
BackoffIsHonoured ==
  [][ \A c \in Clients : DequeueRemove(c) => AvailableAt(arg[c]) <= clock ]_vars

=============================================================================
