----------------------------- MODULE QueueOrder -----------------------------
(***************************************************************************)
(* Which entry RedisJobQueue.dequeue (app/queue/redis_queue.py) may pick,  *)
(* in terms of what an entry is: its priority, and whether its available_at *)
(* has passed ("due") or not ("delayed").  RedisJobQueue.tla shows that    *)
(* the scores in Redis pick no other entry.                                *)
(***************************************************************************)
EXTENDS Naturals

CONSTANTS Jobs, Priority

VARIABLE queue  (* For each job "out", "delayed" or "due".                 *)

(* Scores up to 3 * 10^13 + now: the bound carries the clock only in the   *)
(* band of priority 3, so the other bands are in reach as a whole.         *)
InRange(j) == queue[j] = "due" \/ (queue[j] = "delayed" /\ Priority[j] < 3)

Before(j, k) ==
  \/ Priority[j] < Priority[k]
  \/ Priority[j] = Priority[k] /\ queue[j] = "due" /\ queue[k] = "delayed"

(* What ZRANGEBYSCORE ... LIMIT 0 1 may return.                            *)
IsHead(j) ==
  /\ InRange(j)
  /\ \A k \in Jobs : InRange(k) => ~Before(k, j)

=============================================================================
