----------------------------- MODULE Heartbeat ------------------------------
(***************************************************************************)
(* HeartbeatSender and HeartbeatMonitor.list_workers                       *)
(* (app/worker/heartbeat.py): each worker process has a daemon thread that *)
(* sends SETEX worker:<id>:heartbeat and waits, over and over; a call of   *)
(* the API lists the keys, and reads value and time to live of each in     *)
(* turn.  Worker ids are unique (hostname-uuid4): a process that is gone   *)
(* does not come back under its id.                                        *)
(*                                                                         *)
(* A thread is                                                             *)
(*   new       not started                                                 *)
(*   starting  in run(), before its first beat                             *)
(*   waiting   in _stop.wait(interval)                                     *)
(*   beating   back from the wait, _stop not set, SETEX not sent yet       *)
(*   ended     over: stopped, dead with its process, or ended by an error  *)
(*             of Redis, which nothing in run() catches                    *)
(*                                                                         *)
(* A call of list_workers is                                               *)
(*   idle, scanning, scanned (has a key), got (has its value)              *)
(*                                                                         *)
(* Time is counted down and up to its bounds, so that no run has to end.   *)
(* The job a worker runs, which list_workers adds to each entry, is left   *)
(* out.                                                                    *)
(***************************************************************************)
EXTENDS Naturals

CONSTANTS
  Workers,
  None,
  Interval,  (* worker_heartbeat_interval_seconds, in ticks.               *)
  Ttl,       (* worker_heartbeat_ttl_seconds.                              *)
  Slack,     (* Assumed: how late a thread wakes and its SETEX arrives.    *)
  Rounding   (* Half a second: Redis answers TTL 0 when no more is left.   *)

ASSUME HeartbeatAssumption ==
  /\ Interval \in Nat /\ Ttl \in Nat /\ Slack \in Nat /\ Rounding \in Nat
  /\ Interval + Slack + Rounding < Ttl
  /\ None \notin Workers

VARIABLES
  thread,   (* The heartbeat thread of each worker.                        *)
  stop,     (* Its Event _stop.                                            *)
  age,      (* Ticks since its last beat: at most Ttl (bound), and Ttl + 1 *)
            (* before the first.                                           *)
  left,     (* Remaining life of its key, 0 for no key.                    *)
  call,     (* Where the call of list_workers is.                          *)
  key,      (* The worker of the key it has.                               *)
  seen,     (* The answer of GET: "time", or "none" for no value.          *)
  stood,    (* Workers whose key was there since the scan began.           *)
  visited,  (* Workers whose key the scan returned.                        *)
  report,   (* The entries of the list.                                    *)
  live,     (* History: threads that were on when the scan began.          *)
  quiet     (* History: threads that had been silent for Ttl by then.      *)

senderVars == << thread, stop, age, left >>
callVars == << call, key, seen, visited, report >>
scanVars == << stood, live, quiet >>
vars == << senderVars, callVars, scanVars >>

Entry == [ worker : Workers,
           last_seen : {"time", "none"},
           status : {"ALIVE", "DEAD"} ]

TypeOK ==
  /\ thread \in [ Workers -> {"new", "starting", "waiting", "beating", "ended"} ]
  /\ stop \in [ Workers -> BOOLEAN ]
  /\ age \in [ Workers -> 0..(Ttl + 1) ]
  /\ left \in [ Workers -> 0..Ttl ]
  /\ call \in {"idle", "scanning", "scanned", "got"}
  /\ key \in Workers \cup {None}
  /\ key \in Workers <=> call \in {"scanned", "got"}
  /\ seen \in {"time", "none"}
  /\ stood \subseteq Workers /\ live \subseteq Workers /\ quiet \subseteq Workers
  /\ visited \subseteq Workers
  /\ report \subseteq Entry

Init ==
  /\ thread = [ w \in Workers |-> "new" ]
  /\ stop = [ w \in Workers |-> FALSE ]
  /\ age = [ w \in Workers |-> Ttl + 1 ]
  /\ left = [ w \in Workers |-> 0 ]
  /\ call = "idle"
  /\ key = None
  /\ seen = "none"
  /\ stood = {} /\ visited = {} /\ report = {} /\ live = {} /\ quiet = {}

Goto(w, place) == thread' = [ thread EXCEPT ![w] = place ]

Exists(w) == left[w] > 0

(* The thread is on, and has beaten.                                       *)
On(w) == thread[w] \in {"waiting", "beating"}

-----------------------------------------------------------------------------
Start(w) ==
  /\ thread[w] = "new"
  /\ Goto(w, "starting")
  /\ UNCHANGED << stop, age, left, callVars, scanVars >>

(* Fault: the key lives as long as one wait, with nothing for lateness.    *)
SetexInterval(w) == left' = [ left EXCEPT ![w] = Interval + Rounding ]

Setex(w) == left' = [ left EXCEPT ![w] = Ttl ]

Beat(w) ==
  /\ thread[w] \in {"starting", "beating"}
  /\ Setex(w)
  /\ age' = [ age EXCEPT ![w] = 0 ]
  /\ Goto(w, "waiting")
  /\ UNCHANGED << stop, callVars, scanVars >>

(* The wait is over, and is_set() is still false.                          *)
WakeUp(w) ==
  /\ thread[w] = "waiting"
  /\ ~stop[w]
  /\ age[w] >= Interval
  /\ Goto(w, "beating")
  /\ UNCHANGED << stop, age, left, callVars, scanVars >>

(* The event ends the wait at once, and the loop with it.  The key stays.  *)
WakeStopped(w) ==
  /\ thread[w] \in {"starting", "waiting"}
  /\ stop[w]
  /\ Goto(w, "ended")
  /\ UNCHANGED << stop, age, left, callVars, scanVars >>

Stop(w) ==
  /\ thread[w] \in {"starting", "waiting", "beating"}
  /\ stop' = [ stop EXCEPT ![w] = TRUE ]
  /\ UNCHANGED << thread, age, left, callVars, scanVars >>

(* SETEX raises: the thread ends, and its worker goes on without it.       *)
BeatFails(w) ==
  /\ thread[w] \in {"starting", "beating"}
  /\ Goto(w, "ended")
  /\ UNCHANGED << stop, age, left, callVars, scanVars >>

(* The process dies.                                                       *)
Crash(w) ==
  /\ thread[w] # "ended"
  /\ Goto(w, "ended")
  /\ UNCHANGED << stop, age, left, callVars, scanVars >>

(* Fault: the key is written without an expiry.                            *)
NeverExpire == UNCHANGED left

Expire == left' = [ w \in Workers |-> IF Exists(w) THEN left[w] - 1 ELSE 0 ]

(* Time passes; a thread that is on is not later than Slack.               *)
Tick ==
  /\ \A w \in Workers : On(w) => age[w] < Interval + Slack
  /\ age' = [ w \in Workers |-> IF age[w] < Ttl THEN age[w] + 1 ELSE age[w] ]
  /\ Expire
  /\ stood' = { w \in stood : left'[w] > 0 }
  /\ UNCHANGED << thread, stop, callVars, live, quiet >>

-----------------------------------------------------------------------------
ListBegin ==
  /\ call = "idle"
  /\ call' = "scanning"
  /\ stood' = { w \in Workers : Exists(w) }
  /\ visited' = {} /\ report' = {}
  /\ live' = { w \in Workers : On(w) }
  /\ quiet' = { w \in Workers : age[w] = Ttl }
  /\ UNCHANGED << senderVars, key, seen >>

(* SCAN returns every key that is there from the beginning to the end, and *)
(* maybe keys that are there for a part of that time.                      *)
ListScan ==
  /\ call = "scanning"
  /\ \E w \in Workers \ visited :
       /\ Exists(w)
       /\ key' = w
       /\ visited' = visited \cup {w}
  /\ call' = "scanned"
  /\ UNCHANGED << senderVars, seen, report, scanVars >>

ListGet ==
  /\ call = "scanned"
  /\ seen' = IF Exists(key) THEN "time" ELSE "none"
  /\ call' = "got"
  /\ UNCHANGED << senderVars, key, visited, report, scanVars >>

(* Fault: the loop keeps the key of the entry before.                      *)
AppendAndKeep(status) ==
  /\ report' = report \cup
       { [ worker |-> key, last_seen |-> seen, status |-> status ] }
  /\ call' = "scanning"
  /\ UNCHANGED << senderVars, key, seen, visited, scanVars >>

Append(status) ==
  /\ report' = report \cup
       { [ worker |-> key, last_seen |-> seen, status |-> status ] }
  /\ call' = "scanning"
  /\ key' = None
  /\ seen' = "none"
  /\ UNCHANGED << senderVars, visited, scanVars >>

TtlIsPositive(w) == left[w] > Rounding

ListTtl ==
  /\ call = "got"
  /\ Append(IF TtlIsPositive(key) THEN "ALIVE" ELSE "DEAD")

ListReturn ==
  /\ call = "scanning"
  /\ stood \subseteq visited
  /\ call' = "idle"
  /\ UNCHANGED << senderVars, key, seen, visited, report, scanVars >>

Thread(w) == Start(w) \/ Beat(w) \/ WakeUp(w) \/ WakeStopped(w)

ListWorkers == ListBegin \/ ListScan \/ ListGet \/ ListTtl \/ ListReturn

Next ==
  \/ \E w \in Workers : Thread(w) \/ Stop(w) \/ BeatFails(w) \/ Crash(w)
  \/ Tick
  \/ ListWorkers

Spec == Init /\ [][Next]_vars

(* A thread goes on, and time passes.                                      *)
Fairness == (\A w \in Workers : WF_vars(Thread(w))) /\ WF_vars(Tick)

FairSpec == Spec /\ Fairness

-----------------------------------------------------------------------------
(* A worker whose thread is on during the whole call is in the list, and   *)
(* as ALIVE, however late it beats within Slack, and although half a       *)
(* second of life is answered as 0.                                        *)
LiveIsAlive ==
  [][ ListReturn =>
        \A w \in live :
          On(w) => /\ \E e \in report : e.worker = w
                   /\ \A e \in report : e.worker = w => e.status = "ALIVE" ]_vars

(* An ALIVE entry has a last_seen, although value and time to live are     *)
(* read one after the other: a key that has gone does not come back.       *)
AliveHasLastSeen == \A e \in report : e.status = "ALIVE" => e.last_seen = "time"

(* The key of a worker that has stopped or died goes when its time to live *)
(* is over, and stays away.  No sooner: tests/test_heartbeat.py:70 says    *)
(* "Calling stop() should clean up the heartbeat key from Redis.", but     *)
(* stop() only sets the event, and the worker is listed as ALIVE meanwhile.*)
EndedIsForgotten ==
  \A w \in Workers : thread[w] = "ended" ~> [](~Exists(w))

-----------------------------------------------------------------------------
(* dashboard/admin_app.py:599 says of the list "No heartbeat for 30s =     *)
(* DEAD."  The key of a worker that has been silent for that long has      *)
(* expired: the worker is in the list no more.                             *)
SilentIsDead ==
  [][ ListReturn =>
        \A w \in quiet :
          \E e \in report : e.worker = w /\ e.status = "DEAD" ]_vars

=============================================================================
