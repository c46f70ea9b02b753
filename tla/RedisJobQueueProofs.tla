------------------------ MODULE RedisJobQueueProofs -------------------------
(***************************************************************************)
(* Proofs about RedisJobQueue for every set of jobs and clients, every     *)
(* delay and every horizon below the distance of two priorities.           *)
(***************************************************************************)
EXTENDS RedisJobQueue, TLAPS

(* A number that is the score of a job at a time below the horizon.        *)
IsScore(j, n) == n - Priority[j] * Band \in 0..Horizon

ScoresAreScores ==
  /\ \A j \in Jobs : Member(j) => IsScore(j, zset[j])
  /\ \A c \in Clients :
       /\ pc[c] = "scored" => IsScore(arg[c], num[c])
       /\ pc[c] \in {"timed", "ranged"} => num[c] - 3 * Band \in 0..clock

ScoreInv == TypeOK /\ ScoresAreScores

-----------------------------------------------------------------------------
(* A score lies in the band of its priority.                               *)
LEMMA ScoreBand ==
  ASSUME NEW j \in Jobs, NEW n \in Nat, IsScore(j, n)
  PROVE  /\ Priority[j] = 1 => Band <= n /\ n < 2 * Band
         /\ Priority[j] = 2 => 2 * Band <= n /\ n < 3 * Band
         /\ Priority[j] = 3 => 3 * Band <= n
         /\ n > 0
BY QueueAssumption DEF IsScore

(* A higher priority is a lower score, whatever the times.                 *)
LEMMA PriorityFirst ==
  ASSUME NEW j \in Jobs, NEW k \in Jobs, NEW m \in Nat, NEW n \in Nat,
         IsScore(j, m), IsScore(k, n), Priority[j] < Priority[k]
  PROVE  m < n
<1>1. Priority[j] \in 1..3 /\ Priority[k] \in 1..3
  BY QueueAssumption
<1> QED BY <1>1, ScoreBand, QueueAssumption

-----------------------------------------------------------------------------
LEMMA ScoreInit == Init => ScoreInv
BY QueueAssumption DEF Init, ScoreInv, TypeOK, ScoresAreScores, Member

LEMMA ScoreNext == ScoreInv /\ [Next]_vars => ScoreInv'
<1> SUFFICES ASSUME ScoreInv, [Next]_vars PROVE ScoreInv'
  OBVIOUS
<1> USE QueueAssumption
    DEF ScoreInv, TypeOK, ScoresAreScores, IsScore, Member, Goto, Return, Set, Take
<1>1. ASSUME NEW c \in Clients, EnqueueScore(c)
      PROVE  ScoreInv'
  <2> PICK j \in Jobs, delay \in Delays :
        /\ clock + delay <= Horizon
        /\ arg' = [ arg EXCEPT ![c] = j ]
        /\ num' = [ num EXCEPT ![c] = Score(j, clock + delay) ]
        /\ calls' = [ calls EXCEPT ![j] = @ + 1 ]
    BY <1>1 DEF EnqueueScore
  <2>1. Score(j, clock + delay) \in Nat /\ IsScore(j, Score(j, clock + delay))
    <3>1. Priority[j] * Band \in Nat
      BY SMT
    <3> QED BY <3>1 DEF Score
  <2>2. TypeOK'
    BY <1>1, <2>1 DEF EnqueueScore
  <2>3. ScoresAreScores'
    BY <1>1, <2>1 DEF EnqueueScore
  <2> QED BY <2>2, <2>3
<1>2. ASSUME NEW c \in Clients, EnqueueAdd(c)
      PROVE  ScoreInv'
  BY <1>2 DEF EnqueueAdd
<1>3. ASSUME NEW c \in Clients, DequeueTime(c)
      PROVE  ScoreInv'
  BY <1>3 DEF DequeueTime, MaxScore
<1>4. ASSUME NEW c \in Clients, DequeueRange(c)
      PROVE  ScoreInv'
  BY <1>4 DEF DequeueRange, Reach
<1>5. ASSUME NEW c \in Clients, DequeueNothing(c) \/ DequeueMiss(c)
      PROVE  ScoreInv'
  BY <1>5 DEF DequeueNothing, DequeueMiss
<1>6. ASSUME NEW c \in Clients, DequeueRemove(c)
      PROVE  ScoreInv'
  BY <1>6 DEF DequeueRemove
<1>7. ASSUME NEW c \in Clients, Remove(c)
      PROVE  ScoreInv'
  BY <1>7 DEF Remove
<1>8. CASE Tick
  BY <1>8 DEF Tick
<1>9. CASE UNCHANGED vars
  BY <1>9 DEF vars
<1> QED BY <1>1, <1>2, <1>3, <1>4, <1>5, <1>6, <1>7, <1>8, <1>9 DEF Next, Dequeue

LEMMA ScoreCorrect == Spec => []ScoreInv
<1> QED BY ScoreInit, ScoreNext, PTL DEF Spec

(* Scores, bounds and clients of the queue stay in type.                   *)
THEOREM TypeCorrect == Spec => []TypeOK
<1>1. ScoreInv => TypeOK
  BY DEF ScoreInv
<1> QED BY ScoreCorrect, <1>1, PTL

-----------------------------------------------------------------------------
(* A ZADD makes one member at most and a ZREM that succeeds ends one: no   *)
(* overlap of dequeue, remove and enqueue hands an entry out twice.        *)
THEOREM HandedOnceCorrect == Spec => []HandedOnce
<1>1. Init => HandedOnce
  <2> SUFFICES ASSUME Init, NEW j \in Jobs
               PROVE  handed[j] + (IF Member(j) THEN 1 ELSE 0) <= added[j]
    BY Zenon DEF HandedOnce
  <2>1. handed[j] = 0 /\ added[j] = 0 /\ ~Member(j)
    BY DEF Init, Member
  <2> QED BY <2>1
<1>2. ScoreInv /\ HandedOnce /\ [Next]_vars => HandedOnce'
  <2> SUFFICES ASSUME ScoreInv, HandedOnce, [Next]_vars PROVE HandedOnce'
    OBVIOUS
  <2> USE DEF ScoreInv, TypeOK, HandedOnce, Member, Set, Take
  <2>1. ASSUME NEW c \in Clients, EnqueueAdd(c) PROVE HandedOnce'
    BY <2>1 DEF EnqueueAdd
  <2>2. ASSUME NEW c \in Clients, DequeueRemove(c) PROVE HandedOnce'
    BY <2>2 DEF DequeueRemove
  <2>3. ASSUME NEW c \in Clients, Remove(c) PROVE HandedOnce'
    BY <2>3 DEF Remove
  <2>4. CASE UNCHANGED << zset, added, handed >>
    BY <2>4
  <2> QED BY <2>1, <2>2, <2>3, <2>4
          DEF Next, Dequeue, EnqueueScore, DequeueTime, DequeueRange,
              DequeueNothing, DequeueMiss, Tick, vars
<1> QED BY ScoreCorrect, <1>1, <1>2, PTL DEF Spec

-----------------------------------------------------------------------------
(* ZRANGEBYSCORE with the bound of dequeue: a member of a higher priority  *)
(* than the one it returns would have been in reach, and lower.            *)
LEMMA LowestIsFirst ==
  ASSUME ScoreInv, NEW c \in Clients, pc[c] = "timed", NEW j \in Reach(c),
         \A i \in Reach(c) : zset[j] <= zset[i],
         NEW k \in Jobs, Member(k)
  PROVE  Priority[j] <= Priority[k]
<1> SUFFICES ASSUME Priority[k] < Priority[j] PROVE FALSE
  <2>1. j \in Jobs
    BY DEF Reach
  <2>2. Priority[j] \in 1..3 /\ Priority[k] \in 1..3
    BY <2>1, QueueAssumption
  <2> QED BY <2>2
<1>1. /\ j \in Jobs /\ zset[j] \in Nat /\ zset[k] \in Nat
      /\ IsScore(j, zset[j]) /\ IsScore(k, zset[k])
  BY DEF ScoreInv, TypeOK, ScoresAreScores, Reach
<1>2. zset[k] < zset[j]
  BY <1>1, PriorityFirst
<1>3. zset[j] <= num[c] /\ num[c] \in Nat
  BY DEF Reach, ScoreInv, TypeOK
<1>4. k \in Reach(c)
  BY <1>1, <1>2, <1>3 DEF Reach
<1> QED BY <1>1, <1>2, <1>4

(* What the scores pick may be picked by priorities and due times.         *)
LEMMA PickIsHead ==
  ASSUME ScoreInv, NEW c \in Clients, pc[c] = "timed", NEW j \in Reach(c),
         \A k \in Reach(c) : zset[j] <= zset[k]
  PROVE  Order!IsHead(j)
<1>1. j \in Jobs /\ Member(j)
  BY DEF Reach
<1> USE QueueAssumption DEF Availability, AvailableAt, ScoreInv, TypeOK
<1>2. Order!InRange(j)
  <2>1. CASE Priority[j] = 3
    <3>1. zset[j] <= num[c] /\ num[c] - 3 * Band <= clock
      BY <1>1 DEF Reach, ScoresAreScores
    <3>2. AvailableAt(j) <= clock
      BY <1>1, <2>1, <3>1
    <3> QED BY <1>1, <3>2 DEF Order!InRange
  <2>2. CASE Priority[j] # 3
    BY <1>1, <2>2 DEF Order!InRange
  <2> QED BY <2>1, <2>2
<1>3. ASSUME NEW k \in Jobs, Order!InRange(k) PROVE ~Order!Before(k, j)
  <2>1. Member(k)
    BY <1>3 DEF Order!InRange
  <2>2. Priority[j] <= Priority[k]
    BY <1>1, <2>1, LowestIsFirst
  <2>3. ASSUME Priority[j] = Priority[k], AvailableAt(k) <= clock,
               ~(AvailableAt(j) <= clock)
        PROVE  FALSE
    <3>1. zset[k] < zset[j]
      <4>1. Priority[j] \in 1..3
        BY <1>1
      <4>2. PICK b \in Nat : b = Priority[j] * Band
        BY <4>1
      <4>3. zset[j] \in Nat /\ zset[k] \in Nat
        BY <1>1
      <4> QED BY <1>1, <2>3, <4>2, <4>3
    <3>2. k \in Reach(c)
      BY <1>1, <2>1, <3>1 DEF Reach
    <3> QED BY <1>1, <3>1, <3>2
  <2> QED BY <1>1, <2>1, <2>2, <2>3 DEF Order!Before
<1> QED BY <1>1, <1>2, <1>3 DEF Order!IsHead

(* The queue in terms of priorities and due times, which the life cycle    *)
(* model is built on, allows every pick the scores make.                   *)
THEOREM PicksCorrect == Spec => PicksAllowed
<1>1. ScoreInv /\ [Next]_vars =>
        [ \A c \in Clients : DequeueRange(c) => Order!IsHead(arg'[c]) ]_vars
  <2> SUFFICES ASSUME ScoreInv, NEW c \in Clients, DequeueRange(c)
               PROVE  Order!IsHead(arg'[c])
    OBVIOUS
  <2> PICK j \in Reach(c) :
        /\ \A k \in Reach(c) : zset[j] <= zset[k]
        /\ arg' = [ arg EXCEPT ![c] = j ]
    BY DEF DequeueRange
  <2>1. arg'[c] = j /\ pc[c] = "timed"
    BY DEF ScoreInv, TypeOK, DequeueRange
  <2> QED BY <2>1, PickIsHead
<1> QED BY ScoreCorrect, <1>1, PTL DEF Spec, PicksAllowed

-----------------------------------------------------------------------------
(* A number in the band of a priority is divided back to that priority.    *)
LEMMA BandOf ==
  ASSUME NEW p \in 1..3, NEW at \in Nat, at < Band, NEW n \in Nat, n = p * Band + at
  PROVE  n \div Band = p
BY QueueAssumption

(* stats() counts every member under the priority it was enqueued with.    *)
THEOREM StatsCorrect == Spec => []StatsAgree
<1>1. ScoreInv => StatsAgree
  <2> SUFFICES ASSUME ScoreInv, NEW j \in Jobs, Member(j)
               PROVE  StatsPriority(j) = Priority[j]
    BY DEF StatsAgree
  <2>1. Priority[j] \in 1..3 /\ zset[j] \in Nat
    BY QueueAssumption DEF ScoreInv, TypeOK
  <2>2. PICK at \in 0..Horizon : zset[j] - Priority[j] * Band = at
    BY DEF ScoreInv, ScoresAreScores, IsScore
  <2>3. at \in Nat /\ at < Band /\ zset[j] = Priority[j] * Band + at
    BY <2>1, <2>2, QueueAssumption
  <2> QED BY <2>1, <2>3, BandOf DEF StatsPriority
<1> QED BY ScoreCorrect, <1>1, PTL

-----------------------------------------------------------------------------
(* RedisJobQueue as a DueQueue.                                            *)

Picked == [ c \in Clients |-> IF pc[c] = "ranged" THEN arg[c] ELSE None ]

LEMMA DueStart == Init => Due!DueInit
BY DEF Init, Due!DueInit, Availability, Member

LEMMA AvailabilityStands ==
  ASSUME zset' = zset, clock' = clock
  PROVE  Availability' = Availability
BY DEF Availability, Member, AvailableAt

(* ZADD and ZREM change one entry, and a score is due or delayed.          *)
LEMMA AvailabilityOfOne ==
  ASSUME ScoreInv, NEW j \in Jobs, NEW score, Set(j, score), clock' = clock
  PROVE  /\ score = 0 => Availability' = [ Availability EXCEPT ![j] = "out" ]
         /\ score # 0 => \E a \in {"delayed", "due"} :
                           Availability' = [ Availability EXCEPT ![j] = a ]
<1> USE DEF ScoreInv, TypeOK, Set, Member, AvailableAt
<1>1. \A k \in Jobs \ {j} : Availability'[k] = Availability[k]
  BY DEF Availability
<1>2. score = 0 => Availability'[j] = "out"
  BY DEF Availability
<1>3. score # 0 => Availability'[j] \in {"delayed", "due"}
  BY DEF Availability
<1>4. /\ Availability' = [ k \in Jobs |-> Availability'[k] ]
      /\ Availability = [ k \in Jobs |-> Availability[k] ]
  BY DEF Availability
<1> HIDE DEF ScoreInv, TypeOK, Set, Member, AvailableAt
<1> QED BY <1>1, <1>2, <1>3, <1>4

(* A tick makes members due and none delayed.                              *)
LEMMA AvailabilityOfTick ==
  ASSUME ScoreInv, Tick
  PROVE  \E elapsed \in SUBSET { j \in Jobs : Availability[j] = "delayed" } :
           Availability' =
             [ j \in Jobs |-> IF j \in elapsed THEN "due" ELSE Availability[j] ]
<1> DEFINE elapsed == { j \in Jobs : Availability[j] = "delayed"
                                     /\ Availability'[j] = "due" }
<1>1. zset' = zset /\ clock' = clock + 1 /\ clock \in Nat
  BY DEF Tick, ScoreInv, TypeOK
<1>2. ASSUME NEW j \in Jobs
      PROVE  Availability'[j] = IF j \in elapsed THEN "due" ELSE Availability[j]
  <2>1. Priority[j] \in 1..3 /\ Band \in Nat /\ zset[j] \in Nat
    BY QueueAssumption DEF ScoreInv, TypeOK
  <2>2. AvailableAt(j) \in Int /\ (AvailableAt(j))' = AvailableAt(j)
    BY <1>1, <2>1 DEF AvailableAt
  <2>3. Member(j)' = Member(j)
    BY <1>1 DEF Member
  <2>4. /\ Availability[j] = IF ~Member(j) THEN "out"
                            ELSE IF AvailableAt(j) <= clock THEN "due" ELSE "delayed"
        /\ Availability'[j] = IF ~Member(j) THEN "out"
                             ELSE IF AvailableAt(j) <= clock + 1 THEN "due"
                             ELSE "delayed"
    BY <1>1, <2>2, <2>3 DEF Availability
  <2> QED BY <1>1, <2>2, <2>4
<1>3. Availability' = [ j \in Jobs |-> Availability'[j] ]
  BY DEF Availability
<1>4. elapsed \in SUBSET { j \in Jobs : Availability[j] = "delayed" }
  OBVIOUS
<1> HIDE DEF elapsed
<1> QED BY <1>2, <1>3, <1>4

LEMMA DueStep ==
  ScoreInv /\ [Next]_vars => [Due!DueNext]_<< Availability, Picked >>
<1> SUFFICES ASSUME ScoreInv, [Next]_vars
             PROVE  \/ Due!DueNext
                    \/ Availability' = Availability /\ Picked' = Picked
  OBVIOUS
<1> DEFINE queued(j) == Availability[j] # "out"
<1>1. \A j \in Jobs : queued(j) <=> Member(j)
  BY DEF Availability
<1>2. \A c \in Clients : pc[c] = "ranged" => arg[c] \in Jobs /\ arg[c] # None
  BY QueueAssumption DEF ScoreInv, TypeOK
<1>3. ASSUME NEW c \in Clients, EnqueueAdd(c) PROVE Due!DueNext
  <2>1. arg[c] \in Jobs /\ num[c] \in Nat /\ IsScore(arg[c], num[c])
    BY <1>3 DEF EnqueueAdd, ScoreInv, TypeOK, ScoresAreScores
  <2>2. num[c] # 0
    <3>1. Priority[arg[c]] \in 1..3
      BY <2>1, QueueAssumption
    <3> QED BY <2>1, <3>1, ScoreBand
  <2>3. \E a \in {"delayed", "due"} :
          Availability' = [ Availability EXCEPT ![arg[c]] = a ]
    BY <1>3, <2>1, <2>2, AvailabilityOfOne DEF EnqueueAdd
  <2>4. Picked' = Picked
    BY <1>3 DEF EnqueueAdd, Return, Goto, Picked, ScoreInv, TypeOK
  <2>5. PICK j \in Jobs : j = arg[c]
    BY <2>1
  <2>6. Due!Enqueue(j)
    BY <2>3, <2>4, <2>5 DEF Due!Enqueue, Picked
  <2> QED BY <2>6, Zenon DEF Due!DueNext
<1>4. ASSUME NEW c \in Clients, DequeueRange(c) PROVE Due!DueNext
  <2> PICK j \in Reach(c) :
        /\ \A k \in Reach(c) : zset[j] <= zset[k]
        /\ arg' = [ arg EXCEPT ![c] = j ]
    BY <1>4 DEF DequeueRange
  <2>1. j \in Jobs /\ Picked[c] = None /\ Picked' = [ Picked EXCEPT ![c] = j ]
    BY <1>4 DEF DequeueRange, Goto, Reach, Picked, ScoreInv, TypeOK
  <2>2. Availability' = Availability
    BY <1>4, AvailabilityStands DEF DequeueRange
  <2>3. Order!IsHead(j)
    BY <1>4, PickIsHead DEF DequeueRange
  <2>4. Due!IsHead(j)
    BY <2>3 DEF Due!IsHead, Due!InRange, Due!Before,
                Order!IsHead, Order!InRange, Order!Before
  <2>5. Due!Pick(c)
    BY <2>1, <2>2, <2>4 DEF Due!Pick, Picked
  <2> QED BY <2>5 DEF Due!DueNext
<1>5. ASSUME NEW c \in Clients, DequeueRemove(c) PROVE Due!DueNext
  <2>1. /\ pc[c] = "ranged" /\ arg[c] \in Jobs /\ Picked[c] = arg[c]
        /\ queued(arg[c]) /\ Picked[c] # None
    BY <1>1, <1>2, <1>5 DEF DequeueRemove, Picked
  <2>2. Availability' = [ Availability EXCEPT ![arg[c]] = "out" ]
    BY <1>5, <2>1, AvailabilityOfOne DEF DequeueRemove, Take
  <2>3. Picked' = [ Picked EXCEPT ![c] = None ]
    BY <1>5 DEF DequeueRemove, Return, Goto, Picked, ScoreInv, TypeOK
  <2>4. Due!Hand(c)
    BY <2>1, <2>2, <2>3 DEF Due!Hand, Picked
  <2> QED BY <2>4 DEF Due!DueNext
<1>6. ASSUME NEW c \in Clients, DequeueMiss(c) PROVE Due!DueNext
  <2>1. /\ pc[c] = "ranged" /\ arg[c] \in Jobs /\ Picked[c] = arg[c]
        /\ ~queued(arg[c]) /\ Picked[c] # None
    BY <1>1, <1>2, <1>6 DEF DequeueMiss, Picked
  <2>2. Availability' = Availability
    BY <1>6, AvailabilityStands DEF DequeueMiss
  <2>3. Picked' = [ Picked EXCEPT ![c] = None ]
    BY <1>6 DEF DequeueMiss, Return, Goto, Picked, ScoreInv, TypeOK
  <2>4. Due!Miss(c)
    BY <2>1, <2>2, <2>3 DEF Due!Miss, Picked
  <2> QED BY <2>4 DEF Due!DueNext
<1>7. ASSUME NEW c \in Clients, Remove(c) PROVE Due!DueNext
  <2> PICK j \in Jobs : Member(j) /\ Take(j)
    BY <1>7 DEF Remove
  <2>1. Availability' = [ Availability EXCEPT ![j] = "out" ]
    BY <1>7, AvailabilityOfOne DEF Remove, Take
  <2>2. Picked' = Picked
    BY <1>7 DEF Remove, Picked
  <2>3. Due!Withdraw(j)
    BY <1>1, <2>1, <2>2 DEF Due!Withdraw, Picked
  <2> QED BY <2>3, Zenon DEF Due!DueNext
<1>8. CASE Tick
  <2>1. Picked' = Picked
    BY <1>8 DEF Tick, Picked
  <2>2. Due!Elapse
    BY <1>8, <2>1, AvailabilityOfTick DEF Due!Elapse, Picked
  <2> QED BY <2>2 DEF Due!DueNext
<1>9. ASSUME NEW c \in Clients,
             EnqueueScore(c) \/ DequeueTime(c) \/ DequeueNothing(c)
      PROVE  Availability' = Availability /\ Picked' = Picked
  <2>1. Availability' = Availability
    BY <1>9, AvailabilityStands DEF EnqueueScore, DequeueTime, DequeueNothing
  <2>2. Picked' = Picked
    BY <1>9 DEF EnqueueScore, DequeueTime, DequeueNothing, Goto, Return, Picked,
                ScoreInv, TypeOK
  <2> QED BY <2>1, <2>2
<1>10. CASE UNCHANGED vars
  BY <1>10, AvailabilityStands DEF vars, Picked
<1> HIDE DEF queued
<1> QED BY <1>3, <1>4, <1>5, <1>6, <1>7, <1>8, <1>9, <1>10 DEF Next, Dequeue

(* RedisJobQueue implements DueQueue: the life cycle model, which takes    *)
(* the queue's steps as DueQueue has them, leaves nothing out that scores, *)
(* clock and overlapping commands can do.                                  *)
THEOREM DueQueueRefinement == Spec => ImplementsDueQueue
<1>1. ScoreInv /\ [Next]_vars => [Due!DueNext]_Due!dueVars
  BY DueStep DEF Due!dueVars, Picked
<1> QED BY ScoreCorrect, DueStart, <1>1, PTL DEF Spec, ImplementsDueQueue, Due!DueSpec

-----------------------------------------------------------------------------
(* What dequeue has got is no lower in priority than what has stood there. *)
StoodInv ==
  \A c \in Clients :
    /\ \A k \in stood[c] : Member(k)
    /\ pc[c] = "ranged" => \A k \in stood[c] : Priority[arg[c]] <= Priority[k]

LEMMA StoodNext == ScoreInv /\ StoodInv /\ [Next]_vars => StoodInv'
<1> SUFFICES ASSUME ScoreInv, StoodInv, [Next]_vars PROVE StoodInv'
  OBVIOUS
<1> USE DEF StoodInv, ScoreInv, TypeOK, Member, Goto, Return, Set, Take
<1>1. ASSUME NEW c \in Clients, DequeueRange(c) PROVE StoodInv'
  <2> PICK j \in Reach(c) :
        /\ \A k \in Reach(c) : zset[j] <= zset[k]
        /\ arg' = [ arg EXCEPT ![c] = j ]
    BY <1>1 DEF DequeueRange
  <2>1. /\ pc[c] = "timed" /\ pc' = [ pc EXCEPT ![c] = "ranged" ]
        /\ stood' = stood /\ zset' = zset
    BY <1>1 DEF DequeueRange
  <2>2. \A k \in stood[c] : Priority[j] <= Priority[k]
    BY <2>1, LowestIsFirst
  <2> QED BY <2>1, <2>2
<1>2. ASSUME NEW c \in Clients, DequeueTime(c) PROVE StoodInv'
  BY <1>2 DEF DequeueTime
<1>3. ASSUME NEW c \in Clients, EnqueueScore(c) PROVE StoodInv'
  BY <1>3 DEF EnqueueScore
<1>4. ASSUME NEW c \in Clients, EnqueueAdd(c) PROVE StoodInv'
  BY <1>4 DEF EnqueueAdd
<1>5. ASSUME NEW c \in Clients, DequeueRemove(c) PROVE StoodInv'
  BY <1>5 DEF DequeueRemove
<1>6. ASSUME NEW c \in Clients, DequeueNothing(c) \/ DequeueMiss(c)
      PROVE  StoodInv'
  BY <1>6 DEF DequeueNothing, DequeueMiss
<1>7. ASSUME NEW c \in Clients, Remove(c) PROVE StoodInv'
  BY <1>7 DEF Remove
<1>8. CASE Tick
  BY <1>8 DEF Tick
<1>9. CASE UNCHANGED vars
  BY <1>9 DEF vars
<1> QED BY <1>1, <1>2, <1>3, <1>4, <1>5, <1>6, <1>7, <1>8, <1>9 DEF Next, Dequeue

(* No caller gets a job while one of a higher priority stood in the queue  *)
(* during its whole dequeue, although clock, bound and members change      *)
(* between its commands.                                                   *)
THEOREM NoInversion == Spec => NoPriorityInversion
<1>1. Init => StoodInv
  BY DEF Init, StoodInv
<1>2. Spec => []StoodInv
  BY ScoreCorrect, StoodNext, <1>1, PTL DEF Spec
<1>3. StoodInv /\ [Next]_vars =>
        [ \A c \in Clients :
            DequeueRemove(c) =>
              \A k \in stood[c] : Priority[arg[c]] <= Priority[k] ]_vars
  BY DEF StoodInv, DequeueRemove
<1> QED BY <1>2, <1>3, PTL DEF Spec, NoPriorityInversion

-----------------------------------------------------------------------------
(* What dequeue has got is still in its reach, unless it was put anew.     *)
ReachInv ==
  \A c \in Clients :
    pc[c] = "ranged" /\ arg[c] \in stood[c] => zset[arg[c]] <= num[c]

LEMMA ReachNext == ScoreInv /\ ReachInv /\ [Next]_vars => ReachInv'
<1> SUFFICES ASSUME ScoreInv, ReachInv, [Next]_vars PROVE ReachInv'
  OBVIOUS
<1> USE DEF ReachInv, ScoreInv, TypeOK, Goto, Return, Set, Take
<1>1. ASSUME NEW c \in Clients, DequeueRange(c) PROVE ReachInv'
  BY <1>1 DEF DequeueRange, Reach
<1>2. ASSUME NEW c \in Clients, DequeueTime(c) PROVE ReachInv'
  BY <1>2 DEF DequeueTime
<1>3. ASSUME NEW c \in Clients, EnqueueScore(c) PROVE ReachInv'
  BY <1>3 DEF EnqueueScore
<1>4. ASSUME NEW c \in Clients, EnqueueAdd(c) PROVE ReachInv'
  BY <1>4 DEF EnqueueAdd
<1>5. ASSUME NEW c \in Clients, DequeueRemove(c) PROVE ReachInv'
  BY <1>5 DEF DequeueRemove
<1>6. ASSUME NEW c \in Clients, DequeueNothing(c) \/ DequeueMiss(c)
      PROVE  ReachInv'
  BY <1>6 DEF DequeueNothing, DequeueMiss
<1>7. ASSUME NEW c \in Clients, Remove(c) PROVE ReachInv'
  BY <1>7 DEF Remove
<1>8. CASE Tick
  BY <1>8 DEF Tick
<1>9. CASE UNCHANGED vars
  BY <1>9 DEF vars
<1> QED BY <1>1, <1>2, <1>3, <1>4, <1>5, <1>6, <1>7, <1>8, <1>9 DEF Next, Dequeue

(* An entry of priority 3 that stands in the queue is not handed out       *)
(* before its time, for every clock and every delay: the bound of dequeue  *)
(* is never ahead of the clock.                                            *)
THEOREM LastBandIsHonoured == Spec => LastBandWaits
<1>1. Init => ReachInv
  BY DEF Init, ReachInv
<1>2. Spec => []ReachInv
  BY ScoreCorrect, ReachNext, <1>1, PTL DEF Spec
<1>3. ScoreInv /\ ReachInv /\ [Next]_vars =>
        [ \A c \in Clients :
            DequeueRemove(c) /\ arg[c] \in stood[c] /\ Priority[arg[c]] = 3
              => AvailableAt(arg[c]) <= clock ]_vars
  <2> SUFFICES ASSUME ScoreInv, ReachInv, NEW c \in Clients, DequeueRemove(c),
                      arg[c] \in stood[c], Priority[arg[c]] = 3
               PROVE  AvailableAt(arg[c]) <= clock
    OBVIOUS
  <2>1. /\ pc[c] = "ranged" /\ zset[arg[c]] <= num[c]
        /\ zset[arg[c]] \in Nat /\ num[c] \in Nat /\ clock \in Nat
        /\ num[c] - 3 * Band \in 0..clock
    BY DEF ReachInv, DequeueRemove, ScoreInv, TypeOK, ScoresAreScores
  <2> QED BY <2>1, QueueAssumption DEF AvailableAt
<1> QED BY ScoreCorrect, <1>2, <1>3, PTL DEF Spec, LastBandWaits

=============================================================================
