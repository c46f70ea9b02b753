-------------------------- MODULE HeartbeatProofs ---------------------------
(***************************************************************************)
(* Proofs about Heartbeat, and about Recovery, whose heartbeats are those, *)
(* for every set of workers and every interval, slack and rounding that    *)
(* stay below the time to live.                                            *)
(***************************************************************************)
EXTENDS Recovery, TLAPS

(* The key of a thread that is on is as young as its last beat.            *)
KeysAreYoung ==
  \A w \in Workers :
    /\ On(w) => age[w] <= Interval + Slack /\ left[w] = Ttl - age[w]
    /\ thread[w] \in {"new", "starting"} => ~Exists(w)

SenderInv == TypeOK /\ KeysAreYoung

Began(w) == On(w) \/ thread[w] = "ended"

(* What the call knows of the workers it has looked at.                    *)
CallInv ==
  /\ \A w \in live : Began(w)
  /\ call # "idle" => \A w \in live : On(w) => w \in stood
  /\ key # None => Began(key)
  /\ call = "got" /\ seen = "none" => thread[key] = "ended" /\ ~Exists(key)
  /\ \A w \in visited : w = key \/ \E e \in report : e.worker = w
  /\ \A e \in report : e.worker \in live /\ On(e.worker) => e.status = "ALIVE"
  /\ AliveHasLastSeen

-----------------------------------------------------------------------------
LEMMA SenderInit == Init => SenderInv
<1> SUFFICES ASSUME Init PROVE SenderInv
  OBVIOUS
<1>1. TypeOK
  <2>1. stop \in [ Workers -> BOOLEAN ]
    BY DEF Init
  <2>2. /\ thread \in [ Workers -> {"new", "starting", "waiting", "beating", "ended"} ]
        /\ age \in [ Workers -> 0..(Ttl + 1) ]
        /\ left \in [ Workers -> 0..Ttl ]
        /\ call = "idle" /\ key \notin Workers /\ key = None
    BY HeartbeatAssumption DEF Init
  <2> QED BY <2>1, <2>2 DEF Init, TypeOK
<1>2. ASSUME NEW w \in Workers PROVE ~On(w) /\ ~Exists(w)
  <2>1. thread[w] = "new" /\ left[w] = 0
    BY DEF Init
  <2> QED BY <2>1 DEF On, Exists
<1>3. KeysAreYoung
  BY <1>2, Zenon DEF KeysAreYoung
<1> QED BY <1>1, <1>3 DEF SenderInv

LEMMA SenderNext == SenderInv /\ [Next]_vars => SenderInv'
<1> SUFFICES ASSUME SenderInv, [Next]_vars PROVE SenderInv'
  OBVIOUS
<1> USE HeartbeatAssumption
    DEF SenderInv, TypeOK, KeysAreYoung, On, Exists, Goto, Entry,
        senderVars, callVars, scanVars
<1>1. ASSUME NEW w \in Workers, Start(w) \/ WakeUp(w) \/ WakeStopped(w)
      PROVE  SenderInv'
  BY <1>1 DEF Start, WakeUp, WakeStopped
<1>2. ASSUME NEW w \in Workers, Beat(w) PROVE SenderInv'
  BY <1>2 DEF Beat, Setex
<1>3. ASSUME NEW w \in Workers, Stop(w) \/ BeatFails(w) \/ Crash(w)
      PROVE  SenderInv'
  BY <1>3 DEF Stop, BeatFails, Crash
<1>4. CASE Tick
  <2>1. TypeOK'
    BY <1>4 DEF Tick, Expire
  <2>2. KeysAreYoung'
    BY <1>4 DEF Tick, Expire
  <2> QED BY <2>1, <2>2
<1>5. CASE ListBegin \/ ListScan \/ ListGet \/ ListReturn
  BY <1>5 DEF ListBegin, ListScan, ListGet, ListReturn
<1>6. CASE ListTtl
  <2>1. PICK status \in {"ALIVE", "DEAD"} : Append(status)
    BY <1>6 DEF ListTtl
  <2>2. key \in Workers
    BY <1>6 DEF ListTtl
  <2> QED BY <2>1, <2>2 DEF Append
<1>7. CASE UNCHANGED vars
  BY <1>7 DEF vars
<1> QED BY <1>1, <1>2, <1>3, <1>4, <1>5, <1>6, <1>7 DEF Next, Thread, ListWorkers

LEMMA SenderCorrect == Spec => []SenderInv
<1> QED BY SenderInit, SenderNext, PTL DEF Spec

(* Threads, keys and the call of list_workers stay in type.                *)
THEOREM TypeCorrect == Spec => []TypeOK
<1>1. SenderInv => TypeOK
  BY DEF SenderInv
<1> QED BY SenderCorrect, <1>1, PTL

(* The margin of HeartbeatAssumption: no key of a thread that is on runs   *)
(* out, nor is it answered as 0.                                           *)
LEMMA OnIsHeard ==
  ASSUME SenderInv, NEW w \in Workers, On(w)
  PROVE  Exists(w) /\ TtlIsPositive(w)
BY HeartbeatAssumption DEF SenderInv, TypeOK, KeysAreYoung, Exists, TtlIsPositive

-----------------------------------------------------------------------------
LEMMA CallInit == Init => CallInv
BY DEF Init, CallInv, AliveHasLastSeen

LEMMA CallNext == SenderInv /\ CallInv /\ [Next]_vars => CallInv'
<1> SUFFICES ASSUME SenderInv, CallInv, [Next]_vars PROVE CallInv'
  OBVIOUS
<1>0. SenderInv'
  BY SenderNext
<1> USE HeartbeatAssumption
    DEF SenderInv, TypeOK, CallInv, AliveHasLastSeen, Began, On, Exists, Goto,
        Entry, senderVars, callVars, scanVars
<1>1. ASSUME NEW w \in Workers, Start(w) \/ WakeUp(w) \/ WakeStopped(w)
      PROVE  CallInv'
  BY <1>1 DEF Start, WakeUp, WakeStopped
<1>2. ASSUME NEW w \in Workers, Beat(w) PROVE CallInv'
  BY <1>2 DEF Beat, Setex
<1>3. ASSUME NEW w \in Workers, Stop(w) \/ BeatFails(w) \/ Crash(w)
      PROVE  CallInv'
  BY <1>3 DEF Stop, BeatFails, Crash
<1>4. CASE Tick
  <2>1. \A w \in Workers : On(w) => left'[w] > 0
    BY <1>0, <1>4, OnIsHeard DEF Tick, Expire, KeysAreYoung
  <2>2. \A w \in Workers : ~Exists(w) => ~(left'[w] > 0)
    BY <1>4 DEF Tick, Expire
  <2> QED BY <1>4, <2>1, <2>2 DEF Tick
<1>5. CASE ListBegin
  BY <1>5, OnIsHeard DEF ListBegin
<1>6. CASE ListScan
  BY <1>6 DEF ListScan, KeysAreYoung
<1>7. CASE ListGet
  BY <1>7, OnIsHeard DEF ListGet
<1>8. CASE ListTtl
  <2>1. PICK status \in {"ALIVE", "DEAD"} :
          /\ Append(status)
          /\ TtlIsPositive(key) <=> status = "ALIVE"
    BY <1>8 DEF ListTtl
  <2>2. call = "got" /\ key \in Workers
    BY <1>8 DEF ListTtl
  <2>3. On(key) => status = "ALIVE"
    BY <2>1, <2>2, OnIsHeard
  <2>4. status = "ALIVE" => seen = "time"
    BY <2>1, <2>2 DEF TtlIsPositive
  <2> DEFINE new == [ worker |-> key, last_seen |-> seen, status |-> status ]
  <2>5. /\ report' = report \cup {new} /\ new.worker = key
        /\ new.last_seen = seen /\ new.status = status
        /\ key' = None /\ call' = "scanning"
        /\ UNCHANGED << thread, left, stood, live, visited >>
    BY <2>1 DEF Append
  <2> HIDE DEF new
  <2>6. \A w \in visited' : \E e \in report' : e.worker = w
    BY <2>5
  <2>7. \A e \in report' :
          /\ e.worker \in live /\ On(e.worker) => e.status = "ALIVE"
          /\ e.status = "ALIVE" => e.last_seen = "time"
    BY <2>3, <2>4, <2>5
  <2>8. \A w \in live : Began(w) /\ (On(w) => w \in stood)
    BY <2>2
  <2> QED BY <2>5, <2>6, <2>7, <2>8
<1>9. CASE ListReturn
  BY <1>9 DEF ListReturn
<1>10. CASE UNCHANGED vars
  BY <1>10 DEF vars
<1> QED BY <1>1, <1>2, <1>3, <1>4, <1>5, <1>6, <1>7, <1>8, <1>9, <1>10
        DEF Next, Thread, ListWorkers

LEMMA CallCorrect == Spec => []CallInv
<1> QED BY SenderCorrect, CallInit, CallNext, PTL DEF Spec

(* An ALIVE entry has a last_seen, although GET and TTL are two commands.  *)
THEOREM LastSeen == Spec => []AliveHasLastSeen
<1>1. CallInv => AliveHasLastSeen
  BY DEF CallInv
<1> QED BY CallCorrect, <1>1, PTL

(* A worker whose thread is on during the whole call is listed as ALIVE.   *)
THEOREM NoFalseAlarm == Spec => LiveIsAlive
<1>1. SenderInv /\ CallInv /\ [Next]_vars =>
        [ ListReturn =>
            \A w \in live :
              On(w) => /\ \E e \in report : e.worker = w
                       /\ \A e \in report : e.worker = w => e.status = "ALIVE" ]_vars
  <2> SUFFICES ASSUME SenderInv, CallInv, ListReturn, NEW w \in live, On(w)
               PROVE  /\ \E e \in report : e.worker = w
                      /\ \A e \in report : e.worker = w => e.status = "ALIVE"
    OBVIOUS
  <2>1. w \in visited /\ w # key
    BY HeartbeatAssumption DEF CallInv, SenderInv, TypeOK, ListReturn
  <2> QED BY <2>1 DEF CallInv
<1> QED BY SenderCorrect, CallCorrect, <1>1, PTL DEF Spec, LiveIsAlive

-----------------------------------------------------------------------------
(* The recovery is a caller of list_workers, and takes nothing from the    *)
(* heartbeats: what is proved of them above holds with it.                 *)

LEMMA IsHeartbeat == [RecoveryNext]_recoveryVars => [Next]_vars
<1> SUFFICES ASSUME [RecoveryNext]_recoveryVars PROVE [Next]_vars
  OBVIOUS
<1> USE DEF Next, Thread, ListWorkers
<1>1. CASE Beats
  BY <1>1 DEF Beats
<1>2. CASE List
  BY <1>2 DEF List
<1>3. ASSUME NEW w \in Workers, Take(w) \/ Done(w) \/ Die(w)
      PROVE  [Next]_vars
  <2>1. CASE Take(w) \/ Done(w)
    BY <2>1 DEF Take, Done
  <2>2. CASE Die(w)
    BY <2>2 DEF Die
  <2> QED BY <1>3, <2>1, <2>2
<1>4. CASE Recover
  BY <1>4 DEF Recover, RecoverBegin, RecoverListed, RecoverSelect, RecoverCommit
<1>5. CASE UNCHANGED recoveryVars
  BY <1>5 DEF recoveryVars
<1> QED BY <1>1, <1>2, <1>3, <1>4, <1>5 DEF RecoveryNext

(* Whatever Heartbeat promises, the recovery's list_workers has.           *)
THEOREM RecoveryIsHeartbeat == RecoverySpec => Spec
<1>1. RecoveryInit => Init
  BY DEF RecoveryInit
<1> QED BY <1>1, IsHeartbeat, PTL DEF RecoverySpec, Spec

-----------------------------------------------------------------------------
(* What the recovery knows.                                                *)

RecoverInv ==
  /\ work \in [ Workers -> {"free", "busy", "done", "dead"} ]
  /\ row \in [ Workers -> {"none", "RUNNING", "COMPLETED", "QUEUED"} ]
  /\ step \in {"off", "listing", "listed", "selected"}
  /\ step = "listing" <=> call # "idle"
  /\ alive \subseteq Workers
  /\ step \in {"off", "listing"} => alive = {}
  /\ found \subseteq Workers \ alive
  /\ step # "selected" => found = {}
  /\ step \in {"listed", "selected"} => \A w \in live : On(w) => w \in alive

LEMMA RecoverStart == RecoveryInit => RecoverInv
BY DEF RecoveryInit, Init, RecoverInv

(* A thread that is off stays off.                                         *)
LEMMA OffForGood ==
  ASSUME TypeOK, [Next]_vars, NEW w \in Workers, Began(w), On(w)'
  PROVE  On(w)
<1> USE DEF TypeOK, Began, On, Goto, senderVars
<1>1. ASSUME NEW v \in Workers,
             Thread(v) \/ Stop(v) \/ BeatFails(v) \/ Crash(v)
      PROVE  On(w)
  BY <1>1 DEF Thread, Start, Beat, WakeUp, WakeStopped, Stop, BeatFails, Crash
<1>2. CASE Tick \/ ListWorkers \/ UNCHANGED vars
  BY <1>2 DEF Tick, ListWorkers, ListBegin, ListScan, ListGet, ListTtl, Append,
              ListReturn, vars
<1> QED BY <1>1, <1>2 DEF Next

(* Only its own call of list_workers renews what the list is compared to.  *)
LEMMA RecoverNext ==
  SenderInv /\ CallInv /\ RecoverInv /\ [RecoveryNext]_recoveryVars => RecoverInv'
<1> SUFFICES ASSUME SenderInv, CallInv, RecoverInv, [RecoveryNext]_recoveryVars
             PROVE  RecoverInv'
  OBVIOUS
<1>1. /\ TypeOK /\ [Next]_vars
      /\ \A w \in live : w \in Workers /\ Began(w)
  BY IsHeartbeat DEF SenderInv, TypeOK, CallInv
<1>2. \A w \in live : On(w)' => On(w)
  BY <1>1, OffForGood
<1>3. ASSUME UNCHANGED << live, jobVars, recoverVars >>, call = "idle" <=> call' = "idle"
      PROVE  RecoverInv'
  BY <1>2, <1>3 DEF RecoverInv, jobVars, recoverVars
<1>4. CASE Beats
  <2>1. UNCHANGED << live, call >>
    BY <1>4 DEF Beats, Thread, Start, Beat, WakeUp, WakeStopped, Stop, BeatFails,
                Tick, callVars, scanVars
  <2> QED BY <1>3, <1>4, <2>1 DEF Beats
<1>5. CASE List
  <2>1. UNCHANGED live /\ call # "idle" /\ call' # "idle"
    BY <1>5 DEF List, ListScan, ListGet, ListTtl, Append, scanVars
  <2> QED BY <1>3, <1>5, <2>1 DEF List
<1>6. ASSUME NEW w \in Workers, Take(w) \/ Done(w) \/ Die(w)
      PROVE  RecoverInv'
  <2>1. UNCHANGED << live, call, recoverVars >>
    BY <1>6 DEF Take, Done, Die, Crash, vars, callVars, scanVars
  <2>2. /\ work' \in [ Workers -> {"free", "busy", "done", "dead"} ]
        /\ row' \in [ Workers -> {"none", "RUNNING", "COMPLETED", "QUEUED"} ]
    BY <1>6 DEF Take, Done, Die, RecoverInv
  <2> QED BY <1>2, <2>1, <2>2 DEF RecoverInv, recoverVars
<1>7. CASE RecoverBegin
  BY <1>7 DEF RecoverBegin, ListBegin, RecoverInv, jobVars
<1>8. CASE RecoverListed
  <2>1. \A w \in live : On(w) => w \in AliveIds
    <3> SUFFICES ASSUME NEW w \in live, On(w) PROVE w \in AliveIds
      OBVIOUS
    <3>1. w \in visited /\ w # key
      BY <1>1, <1>8, HeartbeatAssumption DEF RecoverListed, ListReturn, CallInv, TypeOK
    <3>2. PICK e \in report : e.worker = w
      BY <3>1 DEF CallInv
    <3>3. e.status = "ALIVE"
      BY <3>2 DEF CallInv
    <3> QED BY <3>2, <3>3 DEF AliveIds
  <2>2. AliveIds \subseteq Workers
    BY <1>1 DEF AliveIds, TypeOK, Entry
  <2>3. /\ UNCHANGED << live, thread, work, row, found >> /\ call' = "idle"
        /\ step = "listing" /\ step' = "listed" /\ alive' = AliveIds
    BY <1>8 DEF RecoverListed, ListReturn, senderVars, scanVars, jobVars
  <2> QED BY <2>1, <2>2, <2>3 DEF RecoverInv, On
<1>9. CASE RecoverSelect
  <2>1. /\ UNCHANGED << live, thread, call, work, row, alive >>
        /\ step = "listed" /\ step' = "selected" /\ found' \subseteq Workers \ alive
    BY <1>9 DEF RecoverSelect, Lost, vars, senderVars, callVars, scanVars, jobVars
  <2> QED BY <2>1 DEF RecoverInv, On
<1>10. CASE RecoverCommit
  <2>1. UNCHANGED << live, thread, call, work >>
    BY <1>10 DEF RecoverCommit, vars, senderVars, callVars, scanVars
  <2>2. row' \in [ Workers -> {"none", "RUNNING", "COMPLETED", "QUEUED"} ]
    BY <1>10 DEF RecoverCommit, RecoverInv
  <2> QED BY <1>10, <2>1, <2>2 DEF RecoverCommit, RecoverInv
<1>11. CASE UNCHANGED recoveryVars
  BY <1>3, <1>11 DEF recoveryVars, vars, scanVars, callVars
<1> QED BY <1>4, <1>5, <1>6, <1>7, <1>8, <1>9, <1>10, <1>11 DEF RecoveryNext, Recover

LEMMA RecoverCorrect == RecoverySpec => [](SenderInv /\ CallInv /\ RecoverInv)
<1> QED BY RecoveryIsHeartbeat, SenderCorrect, CallCorrect, RecoverStart, RecoverNext,
           PTL DEF RecoverySpec

(* Heartbeats, jobs and the recovery stay in type.                         *)
THEOREM RecoveryTypeCorrect == RecoverySpec => []RecoveryTypeOK
<1>1. SenderInv /\ RecoverInv => RecoveryTypeOK
  BY DEF SenderInv, RecoverInv, RecoveryTypeOK
<1> QED BY RecoverCorrect, <1>1, PTL

(* The recovery takes no job from a worker whose thread has been on since  *)
(* the scan began, whatever happens between list, SELECT and commit.       *)
THEOREM TheLivingAreSpared == RecoverySpec => []RecoverySparesTheLiving
<1>1. RecoverInv => RecoverySparesTheLiving
  BY DEF RecoverInv, RecoverySparesTheLiving
<1> QED BY RecoverCorrect, <1>1, PTL

-----------------------------------------------------------------------------
(* Silence.                                                                *)

(* A key and the age of the last beat tell the same, also of threads that  *)
(* have ended.                                                             *)
KeysTellAge ==
  \A w \in Workers :
    /\ left[w] = IF age[w] < Ttl THEN Ttl - age[w] ELSE 0
    /\ thread[w] \in {"new", "starting"} => age[w] = Ttl + 1

Silent(w) == thread[w] = "ended" /\ left[w] = 0

QuietInv ==
  \A w \in quiet :
    /\ Silent(w)
    /\ key # w /\ \A e \in report : e.worker # w
    /\ w \notin alive

LEMMA QuietStart == RecoveryInit => KeysTellAge /\ QuietInv
BY HeartbeatAssumption DEF RecoveryInit, Init, KeysTellAge, QuietInv

LEMMA AgeNext == TypeOK /\ KeysTellAge /\ [Next]_vars => KeysTellAge'
<1> SUFFICES ASSUME TypeOK, KeysTellAge, [Next]_vars PROVE KeysTellAge'
  OBVIOUS
<1> USE HeartbeatAssumption DEF TypeOK, KeysTellAge, Goto, senderVars
<1>1. ASSUME NEW w \in Workers, Start(w) \/ WakeUp(w) \/ WakeStopped(w)
      PROVE  KeysTellAge'
  BY <1>1 DEF Start, WakeUp, WakeStopped
<1>2. ASSUME NEW w \in Workers, Beat(w) PROVE KeysTellAge'
  BY <1>2 DEF Beat, Setex
<1>3. ASSUME NEW w \in Workers, Stop(w) \/ BeatFails(w) \/ Crash(w)
      PROVE  KeysTellAge'
  BY <1>3 DEF Stop, BeatFails, Crash
<1>4. CASE Tick
  BY <1>4 DEF Tick, Expire, Exists
<1>5. CASE ListWorkers \/ UNCHANGED vars
  BY <1>5 DEF ListWorkers, ListBegin, ListScan, ListGet, ListTtl, Append, ListReturn,
              vars
<1> QED BY <1>1, <1>2, <1>3, <1>4, <1>5 DEF Next, Thread

(* The silent stay silent.                                                 *)
LEMMA SilentForGood ==
  ASSUME TypeOK, [Next]_vars, NEW w \in Workers, Silent(w)
  PROVE  Silent(w)'
<1> USE DEF TypeOK, Silent, Goto, senderVars
<1>1. ASSUME NEW v \in Workers,
             Thread(v) \/ Stop(v) \/ BeatFails(v) \/ Crash(v)
      PROVE  Silent(w)'
  BY <1>1 DEF Thread, Start, Beat, Setex, WakeUp, WakeStopped, Stop, BeatFails, Crash
<1>2. CASE Tick
  BY <1>2 DEF Tick, Expire, Exists
<1>3. CASE ListWorkers \/ UNCHANGED vars
  BY <1>3 DEF ListWorkers, ListBegin, ListScan, ListGet, ListTtl, Append, ListReturn,
              vars
<1> QED BY <1>1, <1>2, <1>3 DEF Next

LEMMA QuietNext ==
  SenderInv /\ RecoverInv /\ KeysTellAge /\ QuietInv /\ [RecoveryNext]_recoveryVars
    => QuietInv'
<1> SUFFICES ASSUME SenderInv, RecoverInv, KeysTellAge, QuietInv,
                    [RecoveryNext]_recoveryVars
             PROVE  QuietInv'
  OBVIOUS
<1>1. TypeOK /\ [Next]_vars /\ quiet \subseteq Workers
  BY IsHeartbeat DEF SenderInv, TypeOK
<1>2. \A w \in quiet : Silent(w)'
  BY <1>1, SilentForGood DEF QuietInv
<1>3. ASSUME UNCHANGED << quiet, key, report, alive >>
      PROVE  QuietInv'
  BY <1>2, <1>3 DEF QuietInv
<1>4. CASE Beats
  <2>1. UNCHANGED << quiet, key, report, alive >>
    BY <1>4 DEF Beats, Thread, Start, Beat, WakeUp, WakeStopped, Stop, BeatFails,
                Tick, callVars, scanVars, recoverVars
  <2> QED BY <1>3, <2>1
<1>5. CASE ListScan /\ UNCHANGED recoverVars
  <2>1. PICK v \in Workers : Exists(v) /\ key' = v
    BY <1>5 DEF ListScan
  <2>2. v \notin quiet
    BY <2>1, HeartbeatAssumption DEF QuietInv, Silent, Exists
  <2> QED BY <1>2, <1>5, <2>1, <2>2 DEF ListScan, QuietInv, scanVars, recoverVars
<1>6. CASE ListGet /\ UNCHANGED recoverVars
  BY <1>3, <1>6 DEF ListGet, scanVars, recoverVars
<1>7. CASE ListTtl /\ UNCHANGED recoverVars
  <2>1. PICK status : Append(status)
    BY <1>7 DEF ListTtl
  <2>2. /\ \A e \in report' : e \in report \/ e.worker = key
        /\ key' = None /\ UNCHANGED << quiet, alive >>
    BY <1>7, <2>1 DEF Append, scanVars, recoverVars
  <2>3. None \notin quiet
    BY <1>1, HeartbeatAssumption
  <2> QED BY <1>2, <2>2, <2>3 DEF QuietInv
<1>8. ASSUME NEW w \in Workers, Take(w) \/ Done(w) \/ Die(w)
      PROVE  QuietInv'
  BY <1>3, <1>8 DEF Take, Done, Die, Crash, vars, callVars, scanVars, recoverVars
(* The scan begins: a thread that is on has beaten more recently.          *)
<1>9. CASE RecoverBegin
  <2>1. /\ quiet' = { w \in Workers : age[w] = Ttl } /\ report' = {}
        /\ call = "idle" /\ UNCHANGED << thread, left, key, alive >>
        /\ step = "off"
    BY <1>9 DEF RecoverBegin, ListBegin, senderVars
  <2>2. key' \notin Workers /\ alive' = {}
    BY <1>1, <2>1 DEF TypeOK, RecoverInv
  <2> SUFFICES ASSUME NEW w \in Workers, age[w] = Ttl
               PROVE  Silent(w)
    BY <2>1, <2>2 DEF QuietInv, Silent
  <2>3. left[w] = 0 /\ thread[w] \notin {"new", "starting"}
    BY HeartbeatAssumption DEF KeysTellAge
  <2>4. ~On(w)
    BY HeartbeatAssumption DEF SenderInv, KeysAreYoung
  <2> QED BY <1>1, <2>3, <2>4 DEF Silent, On, TypeOK
<1>10. CASE RecoverListed
  <2>1. UNCHANGED << quiet, key, report >> /\ alive' = AliveIds
    BY <1>10 DEF RecoverListed, ListReturn, scanVars
  <2>2. \A w \in quiet : w \notin AliveIds
    BY DEF QuietInv, AliveIds
  <2> QED BY <1>2, <2>1, <2>2 DEF QuietInv
<1>11. CASE RecoverSelect
  BY <1>3, <1>11 DEF RecoverSelect, vars, callVars, scanVars
<1>12. CASE RecoverCommit
  <2>1. UNCHANGED << quiet, key, report >> /\ alive' = {}
    BY <1>12 DEF RecoverCommit, vars, callVars, scanVars
  <2> QED BY <1>2, <2>1 DEF QuietInv
<1>13. CASE UNCHANGED recoveryVars
  BY <1>3, <1>13 DEF recoveryVars, recoverVars, vars, callVars, scanVars
<1> QED BY <1>4, <1>5, <1>6, <1>7, <1>8, <1>9, <1>10, <1>11, <1>12, <1>13
        DEF RecoveryNext, Recover, List

LEMMA QuietCorrect == RecoverySpec => [](KeysTellAge /\ QuietInv)
<1>1. SenderInv => TypeOK
  BY DEF SenderInv
<1> QED BY RecoverCorrect, QuietStart, AgeNext, QuietNext, IsHeartbeat, <1>1,
           PTL DEF RecoverySpec

(* The recovery finds the running job of every worker that had been silent *)
(* for the time to live, because its key cannot come back.                 *)
THEOREM TheSilentAreFound == RecoverySpec => RecoveryFindsTheSilent
<1>1. SenderInv /\ QuietInv /\ [RecoveryNext]_recoveryVars
        => [ RecoverSelect =>
               \A w \in quiet : row[w] = "RUNNING" => w \in found' ]_recoveryVars
  BY DEF SenderInv, TypeOK, QuietInv, RecoverSelect, Lost
<1> QED BY RecoverCorrect, QuietCorrect, <1>1,
           PTL DEF RecoverySpec, RecoveryFindsTheSilent

=============================================================================
