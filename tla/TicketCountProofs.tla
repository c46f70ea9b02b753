-------------------------- MODULE TicketCountProofs --------------------------
(***************************************************************************)
(* Proof that re-issues are counted: a job has at most one ticket more     *)
(* than calls have re-issued it, for any number of concurrent calls.       *)
(***************************************************************************)
EXTENDS OrchestratorProofs, FiniteSetTheorems

Holders(j) == { w \in Workers : Holds(w, j) }

(* The calls that will still enqueue the job.                              *)
Reissues(t, j) == tjob[t] = j /\ tpc[t] \in {"reissuing", "exhumed"}

Callers(j) == { t \in Threads : Reissues(t, j) }

Entry(j) == IF Queued(j) THEN 1 ELSE 0

TicketsOf(j) == Cardinality(Holders(j)) + Cardinality(Callers(j)) + Entry(j)

CountedInv == \A j \in Jobs : TicketsOf(j) <= 1 + reissues[j]

(* What a step may do with the tickets of one job.                         *)
NoTicketMore(j) ==
  /\ Holders(j)' \subseteq Holders(j) /\ Callers(j)' \subseteq Callers(j)
  /\ Entry(j)' <= Entry(j) /\ reissues'[j] = reissues[j]

Claimed(j) ==
  /\ \E w \in Workers : Holders(j)' \subseteq Holders(j) \cup {w}
  /\ Callers(j)' \subseteq Callers(j)
  /\ Entry(j) = 1 /\ Entry(j)' = 0 /\ reissues'[j] = reissues[j]

PutBack(j) ==
  /\ \E w \in Holders(j) : Holders(j)' \subseteq Holders(j) \ {w}
  /\ Callers(j)' \subseteq Callers(j) /\ reissues'[j] = reissues[j]

Begun(j) ==
  /\ Holders(j)' \subseteq Holders(j)
  /\ \E t \in Threads : Callers(j)' \subseteq Callers(j) \cup {t}
  /\ Entry(j)' <= Entry(j) /\ reissues'[j] = reissues[j] + 1

Returned(j) ==
  /\ Holders(j)' \subseteq Holders(j)
  /\ \E t \in Callers(j) : Callers(j)' \subseteq Callers(j) \ {t}
  /\ reissues'[j] = reissues[j]

Created(j) == Holders(j)' = {} /\ Callers(j)' = {}

TicketAccount(j) ==
  \/ NoTicketMore(j) \/ Claimed(j) \/ PutBack(j)
  \/ Begun(j) \/ Returned(j) \/ Created(j)

-----------------------------------------------------------------------------
(* One element more or less.                                               *)
LEMMA Grown ==
  ASSUME NEW S, NEW T, NEW x, IsFiniteSet(S), T \subseteq S \cup {x}
  PROVE  IsFiniteSet(T) /\ Cardinality(T) <= Cardinality(S) + 1
<1>1. /\ IsFiniteSet(S \cup {x}) /\ Cardinality(S) \in Nat
      /\ Cardinality(S \cup {x})
           = IF x \in S THEN Cardinality(S) ELSE Cardinality(S) + 1
  BY FS_AddElement, FS_CardinalityType
<1>2. IsFiniteSet(T) /\ Cardinality(T) <= Cardinality(S \cup {x})
  BY <1>1, FS_Subset
<1> QED BY <1>1, <1>2, FS_CardinalityType

LEMMA Shrunk ==
  ASSUME NEW S, NEW T, NEW x \in S, IsFiniteSet(S), T \subseteq S \ {x}
  PROVE  IsFiniteSet(T) /\ Cardinality(T) <= Cardinality(S) - 1
<1>1. /\ IsFiniteSet(S \ {x}) /\ Cardinality(S) \in Nat
      /\ Cardinality(S \ {x}) = Cardinality(S) - 1
  BY FS_RemoveElement, FS_CardinalityType
<1>2. IsFiniteSet(T) /\ Cardinality(T) <= Cardinality(S \ {x})
  BY <1>1, FS_Subset
<1> QED BY <1>1, <1>2, FS_CardinalityType

(* Each of the six keeps the balance.                                      *)
LEMMA Balance ==
  ASSUME IsFiniteSet(Workers), IsFiniteSet(Threads), NEW j \in Jobs,
         TypeOK, TypeOK', TicketsOf(j) <= 1 + reissues[j], TicketAccount(j)
  PROVE  (TicketsOf(j) <= 1 + reissues[j])'
<1> DEFINE H == Holders(j)  C == Callers(j)
           h == Cardinality(Holders(j))  c == Cardinality(Callers(j))
<1>1. IsFiniteSet(H) /\ IsFiniteSet(C) /\ IsFiniteSet(H') /\ IsFiniteSet(C')
  BY FS_Subset DEF Holders, Callers
<1>2. h \in Nat /\ c \in Nat /\ h' \in Nat /\ c' \in Nat
  BY <1>1, FS_CardinalityType
<1>3. reissues[j] \in Nat /\ reissues'[j] \in Nat
  BY DEF TypeOK, QueueTypeOK
<1>4. Entry(j) \in 0..1 /\ Entry(j)' \in 0..1
  BY DEF Entry
<1>5. h + c + Entry(j) <= 1 + reissues[j]
  BY DEF TicketsOf
<1>6. H' \subseteq H => h' <= h
  BY <1>1, FS_Subset
<1>7. C' \subseteq C => c' <= c
  BY <1>1, FS_Subset
<1>8. ASSUME NEW w, H' \subseteq H \cup {w} PROVE h' <= h + 1
  BY <1>1, <1>8, Grown
<1>9. ASSUME NEW w \in H, H' \subseteq H \ {w} PROVE h' <= h - 1
  BY <1>1, <1>9, Shrunk
<1>10. ASSUME NEW t, C' \subseteq C \cup {t} PROVE c' <= c + 1
  BY <1>1, <1>10, Grown
<1>11. ASSUME NEW t \in C, C' \subseteq C \ {t} PROVE c' <= c - 1
  BY <1>1, <1>11, Shrunk
<1>12. H' = {} /\ C' = {} => h' = 0 /\ c' = 0
  BY FS_EmptySet
<1> SUFFICES h' + c' + Entry(j)' <= 1 + reissues'[j]
  BY DEF TicketsOf
<1>13. CASE NoTicketMore(j)
  <2>1. h' <= h /\ c' <= c
    BY <1>6, <1>7, <1>13 DEF NoTicketMore
  <2> HIDE DEF h, c
  <2> QED BY <1>2, <1>3, <1>4, <1>5, <1>13, <2>1 DEF NoTicketMore
<1>14. CASE Claimed(j)
  <2>1. h' <= h + 1 /\ c' <= c
    BY <1>7, <1>8, <1>14 DEF Claimed
  <2> HIDE DEF h, c
  <2> QED BY <1>2, <1>3, <1>4, <1>5, <1>14, <2>1 DEF Claimed
<1>15. CASE PutBack(j)
  <2>1. h' <= h - 1 /\ c' <= c
    BY <1>7, <1>9, <1>15 DEF PutBack
  <2> HIDE DEF h, c
  <2> QED BY <1>2, <1>3, <1>4, <1>5, <1>15, <2>1 DEF PutBack
<1>16. CASE Begun(j)
  <2>1. h' <= h /\ c' <= c + 1
    BY <1>6, <1>10, <1>16 DEF Begun
  <2> HIDE DEF h, c
  <2> QED BY <1>2, <1>3, <1>4, <1>5, <1>16, <2>1 DEF Begun
<1>17. CASE Returned(j)
  <2>1. h' <= h /\ c' <= c - 1
    BY <1>6, <1>11, <1>17 DEF Returned
  <2> HIDE DEF h, c
  <2> QED BY <1>2, <1>3, <1>4, <1>5, <1>17, <2>1 DEF Returned
<1>18. CASE Created(j)
  <2>1. h' = 0 /\ c' = 0
    BY <1>12, <1>18 DEF Created
  <2> HIDE DEF h, c
  <2> QED BY <1>2, <1>3, <1>4, <2>1
<1> QED BY <1>13, <1>14, <1>15, <1>16, <1>17, <1>18 DEF TicketAccount

-----------------------------------------------------------------------------
LEMMA AccountWorker ==
  ASSUME TypeOK, NEW w \in Workers, ProcessOnce(w) \/ Crash(w), UNCHANGED apiVars,
         NEW j \in Jobs
  PROVE  TicketAccount(j)
<1> USE DEF TicketAccount, Holders, Callers, Reissues, Entry, Queued, Holds, Holding
<1>1. /\ wpc \in [ Workers -> WorkerSteps ]
      /\ wjob \in [ Workers -> Jobs \cup {None} ]
      /\ queue \in [ Jobs -> {"out", "delayed", "due"} ]
  BY DEF TypeOK, WorkerTypeOK, QueueTypeOK
<1>2. Callers(j)' = Callers(j)
  BY DEF apiVars
<1>3. UNCHANGED reissues
  BY DEF ProcessOnce, Crash, DequeuePick, DequeueRemove, DequeueMiss, SkipJob, LoadJob,
         MarkAssigned, StartRun, CompleteRun, RequeueFailed, BuryFailed,
         CommitRetrying, CommitDead, SaveAndGoto, SaveAndLeave, CountFailure,
         historyVars
<1>4. CASE DequeueRemove(w)
  <2>1. CASE wjob[w] = j
    <3>1. Entry(j) = 1 /\ Entry(j)' = 0
      BY <1>1, <1>4, <2>1 DEF DequeueRemove, Remove
    <3>2. Holders(j)' \subseteq Holders(j) \cup {w}
      BY <1>1, <1>4 DEF DequeueRemove, Goto
    <3> QED BY <1>2, <1>3, <3>1, <3>2 DEF Claimed
  <2>2. CASE wjob[w] # j
    <3>1. Entry(j)' = Entry(j) /\ Holders(j)' \subseteq Holders(j)
      BY <1>1, <1>4, <2>2 DEF DequeueRemove, Remove, Goto
    <3> QED BY <1>2, <1>3, <3>1 DEF NoTicketMore
  <2> QED BY <2>1, <2>2
<1>5. CASE RequeueFailed(w)
  <2>1. CASE wjob[w] = j
    <3>1. w \in Holders(j) /\ Holders(j)' \subseteq Holders(j) \ {w}
      BY <1>1, <1>5, <2>1 DEF RequeueFailed, Goto
    <3> QED BY <1>2, <1>3, <3>1 DEF PutBack
  <2>2. CASE wjob[w] # j
    <3>1. Entry(j)' = Entry(j) /\ Holders(j)' \subseteq Holders(j)
      BY <1>1, <1>5, <2>2 DEF RequeueFailed, Enqueue, Goto
    <3> QED BY <1>2, <1>3, <3>1 DEF NoTicketMore
  <2> QED BY <2>1, <2>2
<1>6. ASSUME UNCHANGED queue, Holders(j)' \subseteq Holders(j)
      PROVE  TicketAccount(j)
  <2>1. Entry(j)' = Entry(j) /\ Entry(j) \in 0..1
    BY <1>6
  <2> QED BY <1>2, <1>3, <1>6, <2>1 DEF NoTicketMore
<1>7. CASE DequeuePick(w) \/ DequeueMiss(w) \/ SkipJob(w) \/ LoadJob(w) \/ Crash(w)
  <2>1. UNCHANGED queue
    BY <1>7 DEF DequeuePick, DequeueMiss, SkipJob, LoadJob, Crash, redisVars
  <2>2. Holders(j)' \subseteq Holders(j)
    BY <1>1, <1>7 DEF DequeuePick, DequeueMiss, SkipJob, LoadJob, Crash, Goto, Leave
  <2> QED BY <1>6, <2>1, <2>2
<1>8. CASE MarkAssigned(w) \/ StartRun(w) \/ BuryFailed(w)
  <2>1. UNCHANGED queue
    BY <1>8 DEF MarkAssigned, StartRun, BuryFailed, SaveAndGoto, redisVars
  <2>2. Holders(j)' \subseteq Holders(j)
    BY <1>1, <1>8 DEF MarkAssigned, StartRun, BuryFailed, SaveAndGoto, Goto
  <2> QED BY <1>6, <2>1, <2>2
<1>9. CASE CompleteRun(w) \/ CommitRetrying(w) \/ CommitDead(w)
  <2>1. UNCHANGED queue
    BY <1>9 DEF CompleteRun, CommitRetrying, CommitDead, SaveAndLeave, redisVars
  <2>2. Leave(w, "idle")
    BY <1>9 DEF CompleteRun, CommitRetrying, CommitDead, SaveAndLeave
  <2>3. Holders(j)' \subseteq Holders(j)
    BY <1>1, <2>2 DEF Leave, Goto
  <2> QED BY <1>6, <2>1, <2>3
<1> QED BY <1>4, <1>5, <1>7, <1>8, <1>9 DEF ProcessOnce

LEMMA AccountApi ==
  ASSUME TypeOK, FreshIsUnknown, NEW t \in Threads,
         Request(t) \/ Proceed(t) \/ Abort(t), UNCHANGED workerVars,
         NEW j \in Jobs
  PROVE  TicketAccount(j)
<1> USE DEF TicketAccount, Holders, Callers, Reissues, Entry, Queued, Holds
<1>1. /\ tpc \in [ Threads -> ThreadSteps ]
      /\ tjob \in [ Threads -> Jobs \cup {None} ]
      /\ queue \in [ Jobs -> {"out", "delayed", "due"} ]
      /\ reissues \in [ Jobs -> Nat ]
  BY DEF TypeOK, ApiTypeOK, QueueTypeOK
<1>2. Holders(j)' = Holders(j)
  BY DEF workerVars
<1>3. ASSUME Entry(j)' <= Entry(j), reissues'[j] = reissues[j],
             Callers(j)' \subseteq Callers(j)
      PROVE  TicketAccount(j)
  BY <1>2, <1>3 DEF NoTicketMore
<1>4. CASE CreateEnqueue(t)
  <2> PICK k \in Jobs \ issued :
        Begin(t, k, NoRow, "creating") /\ Enqueue(k, "due")
    BY <1>4 DEF CreateEnqueue
  <2>1. CASE k = j
    <3>1. Holders(j) = {} /\ Callers(j) = {}
      BY <2>1 DEF FreshIsUnknown
    <3>2. Callers(j)' = {}
      BY <1>1, <3>1 DEF Begin
    <3> QED BY <1>2, <3>1, <3>2 DEF Created
  <2>2. CASE k # j
    <3>1. Entry(j)' = Entry(j) /\ reissues'[j] = reissues[j]
      BY <1>1, <1>4, <2>2 DEF CreateEnqueue, Enqueue, historyVars
    <3>2. Callers(j)' \subseteq Callers(j)
      BY <1>1, <2>2 DEF Begin
    <3> QED BY <1>3, <3>1, <3>2
  <2> QED BY <2>1, <2>2
<1>5. CASE RetryRead(t) \/ RequeueRead(t)
  <2> PICK k \in Jobs : BeginReissue(t, k)
    BY <1>5 DEF RetryRead, RequeueRead
  <2>1. Entry(j)' = Entry(j) /\ Callers(j)' \subseteq Callers(j) \cup {t}
    BY <1>1 DEF BeginReissue, Begin, redisVars
  <2>2. CASE k = j
    <3>1. reissues'[j] = reissues[j] + 1
      BY <1>1, <2>2 DEF BeginReissue
    <3> QED BY <1>2, <2>1, <3>1 DEF Begun
  <2>3. CASE k # j
    <3>1. reissues'[j] = reissues[j] /\ Callers(j)' \subseteq Callers(j)
      BY <1>1, <2>3 DEF BeginReissue, Begin
    <3> QED BY <1>3, <2>1, <3>1
  <2> QED BY <2>2, <2>3
<1>6. CASE ReissueEnqueue(t)
  <2>1. reissues'[j] = reissues[j]
    BY <1>6 DEF ReissueEnqueue, historyVars
  <2>2. CASE tjob[t] = j
    <3>1. t \in Callers(j) /\ Callers(j)' \subseteq Callers(j) \ {t}
      BY <1>1, <1>6, <2>2 DEF ReissueEnqueue, Advance
    <3> QED BY <1>2, <2>1, <3>1 DEF Returned
  <2>3. CASE tjob[t] # j
    <3>1. Entry(j)' = Entry(j) /\ Callers(j)' \subseteq Callers(j)
      BY <1>1, <1>6, <2>3 DEF ReissueEnqueue, Enqueue, Advance
    <3> QED BY <1>3, <2>1, <3>1
  <2> QED BY <2>2, <2>3
<1>7. CASE CancelRemove(t)
  <2>1. Entry(j)' <= Entry(j) /\ reissues'[j] = reissues[j]
    BY <1>1, <1>7 DEF CancelRemove, Remove
  <2>2. Callers(j)' \subseteq Callers(j)
    BY <1>1, <1>7 DEF CancelRemove, Advance
  <2> QED BY <1>3, <2>1, <2>2
<1>8. CASE \/ CreateCommit(t) \/ CancelRead(t) \/ CancelCommit(t)
           \/ ReissueRemoveFromDlq(t) \/ ReissueCommit(t) \/ Abort(t)
  <2>1. UNCHANGED << queue, reissues >>
    BY <1>8 DEF CreateCommit, CancelRead, CancelCommit, ReissueRemoveFromDlq,
                ReissueCommit, Abort, redisVars, historyVars
  <2>2. Callers(j)' \subseteq Callers(j)
    BY <1>1, <1>8 DEF CreateCommit, CancelRead, CancelCommit, ReissueRemoveFromDlq,
                      ReissueCommit, Abort, Begin, Advance, Finish
  <2> QED BY <1>3, <2>1, <2>2
<1> QED BY <1>4, <1>5, <1>6, <1>7, <1>8 DEF Request, Proceed

LEMMA AccountNext ==
  ASSUME TypeOK, FreshIsUnknown, [Next]_vars, NEW j \in Jobs
  PROVE  TicketAccount(j)
<1>1. CASE WorkerNext /\ UNCHANGED apiVars
  BY <1>1, AccountWorker DEF WorkerNext
<1>2. CASE ApiNext /\ UNCHANGED workerVars
  BY <1>2, AccountApi DEF ApiNext
<1> USE DEF TicketAccount, NoTicketMore, Holders, Callers, Reissues, Entry, Queued,
            Holds, workerVars, apiVars, historyVars
<1>3. ASSUME NEW k \in Jobs,
             Elapse(k) /\ UNCHANGED << rows, workerVars, apiVars >>
      PROVE  TicketAccount(j)
  <2>1. Entry(j)' = Entry(j) /\ Entry(j) \in 0..1
    BY <1>3 DEF Elapse, Enqueue, TypeOK, QueueTypeOK
  <2>2. Holders(j)' = Holders(j) /\ Callers(j)' = Callers(j)
    BY <1>3
  <2>3. reissues' = reissues
    BY <1>3 DEF Elapse
  <2> QED BY <2>1, <2>2, <2>3
<1>4. CASE UNCHANGED vars
  <2>1. Entry(j)' = Entry(j) /\ Entry(j) \in 0..1
    BY <1>4 DEF vars, redisVars
  <2>2. Holders(j)' = Holders(j) /\ Callers(j)' = Callers(j)
    BY <1>4 DEF vars
  <2>3. reissues' = reissues
    BY <1>4 DEF vars
  <2> QED BY <2>1, <2>2, <2>3
<1> QED BY <1>1, <1>2, <1>3, <1>4 DEF Next

LEMMA CountedStart == Init => CountedInv
<1> SUFFICES ASSUME Init, NEW j \in Jobs PROVE TicketsOf(j) <= 1 + reissues[j]
  BY DEF CountedInv
<1>1. Holders(j) = {} /\ Callers(j) = {} /\ Entry(j) = 0 /\ reissues[j] = 0
  BY DEF Init, QueueInit, WorkerInit, ApiInit, Holders, Callers, Reissues, Entry,
         Queued, Holds, Holding
<1> QED BY <1>1, FS_EmptySet DEF TicketsOf

(* However many calls re-issue a job at once, each makes one execution of  *)
(* it possible and no more, for finitely many workers and threads.         *)
THEOREM ReissuesAreCounted ==
  ASSUME IsFiniteSet(Workers), IsFiniteSet(Threads)
  PROVE  Spec => []TicketsAreCounted
<1>1. TicketInv => TypeOK /\ FreshIsUnknown
  BY DEF TicketInv
<1>2. TypeOK /\ FreshIsUnknown /\ CountedInv /\ [Next]_vars => CountedInv'
  BY TypeNext, AccountNext, Balance DEF CountedInv
<1>3. TypeOK /\ CountedInv => TicketsAreCounted
  <2> SUFFICES ASSUME TypeOK, CountedInv, NEW j \in Jobs
               PROVE  Cardinality(Holders(j)) + Entry(j) <= 1 + reissues[j]
    BY DEF TicketsAreCounted, Holders, Entry
  <2>1. Cardinality(Holders(j)) \in Nat /\ Cardinality(Callers(j)) \in Nat
    BY FS_Subset, FS_CardinalityType DEF Holders, Callers
  <2>2. reissues[j] \in Nat /\ Entry(j) \in 0..1
    BY DEF TypeOK, QueueTypeOK, Entry
  <2> QED BY <2>1, <2>2 DEF CountedInv, TicketsOf
<1> QED BY TicketCorrect, CountedStart, <1>1, <1>2, <1>3, PTL DEF Spec

=============================================================================
