# A verification of the job orchestrator

TLA+ models of the orchestrator in this repository (FastAPI, PostgreSQL, Redis and
worker processes), the TLC runs that check them on small instances, and TLAPS proofs
of what holds on every instance.

    tlc -workers 2 -config safety.cfg MCOrchestrator
    tlc -workers 2 -config platform.cfg MCPlatform
    tlapm OrchestratorProofs.tla

Paths below are relative to the repository.

## 1. The system

| Component | State it keeps | Operations | Hard because |
|---|---|---|---|
| Jobs table (`app/models/job.py`, `app/core/database.py`) | one row per job | SELECT, INSERT, UPDATE in short transactions | nothing is locked, no version is compared, sessions keep objects across commits |
| Redis queue and DLQ (`app/queue/redis_queue.py`) | sorted set `queue:jobs`, hash `dlq:jobs` | enqueue, dequeue (three commands), remove, stats, move_to_dlq, remove_from_dlq | dequeue is not atomic; priority and due time share one score |
| Worker, 3 replicas (`app/worker/worker.py`) | the entry it took, the row its session holds | process_once: dequeue, load, ASSIGNED, RUNNING, execute, COMPLETED / RETRYING / DEAD | writes Redis and the table one after the other; may die anywhere |
| Job API (`app/api/jobs.py`, `app/api/queue.py`) | one session per call | create_job, cancel_job, retry_job, requeue_dlq_job | calls run on a thread pool and interleave with each other and with workers |
| Heartbeats (`app/worker/heartbeat.py`) | a Redis key with a time to live per worker | beat, stop, list_workers, recover_dead_worker_jobs | timeouts, false suspicion; list, SELECT and commit of the recovery are of different times |
| Retry delay (`app/worker/retry.py`) | none | calculate_delay | base and jitter multiply |
| Accounts (`app/api/auth.py`, `app/core/auth.py`, `app/core/bootstrap.py`) | users table; tokens at the clients | register, login, me, ensure_admin_user | look-up and insert are two steps; several processes start at once; tokens outlive changes |
| Migrations (`alembic/`) | revision and schema of the database | upgrade head, at every start of an API process | order of revisions, old and new databases, two processes at once |
| Job log (`app/models/events.py`) | `job_logs` | one INSERT per change, in the transaction of the change | log and row must tell one story |
| Metrics (`app/api/metrics.py`) | none | read-only counts | counts taken one after the other |
| Executors (`app/executor/`) | none; a mail is an outside effect | execute | an effect a retry repeats; what they ask of a payload is written elsewhere than the forms that build it |
| Dashboards (`dashboard/`) | Streamlit session state and widgets | sign in and out; submit, cancel, retry, requeue; overviews | a page is a script that every click runs again over new data |

How they interact. The API writes the table and Redis; a worker takes an entry from Redis
and then reads and writes the table. They share no lock and no transaction: Redis and the
table are two stores, written in the order of the source lines, and every step of a process
can be followed by any step of another one. No component sends another a message or waits
for it; they meet in the two stores.

What makes each component correct:

* queue: a member is handed to one caller, in order of priority, an entry of the last band waits
  for its time, and the queue empties once no more jobs arrive;
* worker and API together: a job nobody re-issues is executed by one worker at a time, never
  again after it is over, given up only after its retries, and its row agrees with where it is;
* heartbeats: a dead worker's job runs again, a live worker's does not;
* start-up and accounts: no process serves an unmigrated database or one without its admin;
  one account per e-mail; a session shows the e-mail of its own account;
* executors, delays, log: what a form builds is what its executor takes, a mail goes out
  again only after a failure or by a requeue, each retry asks for a longer delay than the one
  before, the log and the row tell one story;
* dashboards, metrics: a click over an unchanged list acts on what it stood beside, and what is
  shown of one list adds up.

## 2. Modules

| Module | Models | State |
|---|---|---|
| `JobModel` | the table and how a session writes it | `rows` |
| `QueueOrder` | which entry dequeue may pick, in terms of priority and due time | (a view of the queue) |
| `JobQueue` | queue and DLQ as their clients see them | `queue`, `dlq`; history `reissues`, `withdrawn`, `failures` |
| `Worker` | the worker process | `wpc`, `wjob`, `wrow` per worker |
| `JobsApi` | the four handlers that change a job | `tpc`, `tjob`, `trow` per thread; `issued` |
| `Orchestrator` | `Worker` and `JobsApi` over one queue and one table; the properties | all of these |
| `Ticket` | abstract specification: what becomes of the one ticket of a job | `ticket` |
| `DueQueue` | abstract specification: what the queue promises to processes that call it at once | `queue`, `picked` |
| `RedisJobQueue` | the queue command by command, with scores and clock | `zset`, `clock`; `pc`, `arg`, `num` per client; history `stood`, `calls`, `added`, `handed` |
| `Heartbeat` | the beating thread, its key, and `list_workers` | `thread`, `stop`, `age`, `left` per worker; `call`, `key`, `seen`, `visited`, `report`; history `live`, `quiet` |
| `Recovery` | `Heartbeat` with worker processes that hold a job, and `recover_dead_worker_jobs` | `work`, `row` per worker; `step`, `alive`, `found` |
| `JobTable` | abstract specification: what a reader of the jobs table and the DLQ may see | `status`, `dead` |
| `JobPages` | the pages of the dashboards that show jobs, over `JobTable` | `page`, `list`, `filter`, `selected`, `entries`, `counted`, `counts`; history `sent` |
| `SubmitPage` | the page Submit Job | `type`, `fields`, `text`, `request`; history `writtenFor` |
| `JobRun` | one submitted job from POST /jobs to its end: payload, executor, mails, delays, log | those of `SubmitPage`; `step`, `task`, `queued`, `loaded`, `job`, `log`, `delay`; history `mails`, `failures`, `unhandled`, `retries`, `requeues`, `overtaken` |
| `ResumeScore` | what `ResumeAnalysisExecutor` computes | `resume` |
| `Accounts` | migrations, the admin account, registration, sign-in at both dashboards | `schema`, `read`, `phase`, `users`; `place`, `typed`, `held`, `token`, `email` per browser |
| `Platform` | `Accounts`, `JobPages`, `JobRun` and `ResumeScore`, one at a time | all of these; `part` |
| `MCOrchestrator`, `MCRedisJobQueue`, `MCHeartbeat`, `MCPlatform` | the values of the instances TLC checks | |
| `OrchestratorProofs`, `JobTableProofs`, `TicketCountProofs`, `RedisJobQueueProofs`, `HeartbeatProofs`, `AccountsProofs`, `PagesProofs`, `PlatformProofs` | theorems and proofs | |

How they are composed: `Orchestrator` is the life cycle of the jobs, and implements two
abstract specifications, `Ticket` (what becomes of a job) and `JobTable` (what can be read of
it). `JobPages` is built on `JobTable` instead of `Orchestrator`: whatever the workers do, the
pages see no more than it allows, and their properties hold over all of it. `Recovery`
extends `Heartbeat`. The parts of `Platform` share no variable and no step, so a behaviour of it
is one of any of its parts with the others at rest: interleaving them would multiply the states
and show nothing more.

### Where a step ends

A step is one thing another process can see: a Redis command, a commit, or the read that
begins a call. What the code does between two of them is local (attributes of an ORM
object, log entries of the same transaction) and belongs to the step it leads to. `dequeue`
in `Worker` is two steps, ZRANGEBYSCORE (`DequeuePick`) and ZREM (`DequeueRemove` or
`DequeueMiss`); `_handle_failure` is a Redis step (`RequeueFailed` or `BuryFailed`) and a
commit (`CommitRetrying` or `CommitDead`). `FAILED`, assigned at `worker.py:195`, is replaced
on the object before the commit and never reaches the table, so no step writes it.

### Sessions

`SessionLocal` has `autoflush=False` and `expire_on_commit=False`. An object is read once,
and a commit issues an UPDATE with the columns whose value differs from the one loaded or
last committed. `Flush(stored, loaded, current)` is that UPDATE: a column the session did not
change keeps what another session stored meanwhile. `wrow` and `trow` are the object as
loaded or last committed; the values assigned since appear in the commit. So a worker that
loads a RUNNING row (left by another one) and commits RUNNING later does write it, and a
retry that resets `retry_count` from 0 to 0 does not touch it.

### The queue twice

`RedisJobQueue` has scores, bounds and clock. `JobQueue` keeps what the clients can tell
apart: an entry is out, delayed or due. `DueQueue` is the specification between the two: entries
in these three states, and a dequeue that is a `Pick` and a `Hand` or a `Miss`, with no score and
no clock. `RedisJobQueue` implements it (`ImplementsDueQueue`, `DueQueueRefinement`): an entry's
state is read off its score and the clock (`Availability`), and the steps of `Worker` and
`JobsApi` on the queue are those of `DueQueue`. `QueueOrder!IsHead`, which both take, says what a
pick may return; `PicksAllowed` and `PicksCorrect` say that the scores pick no other entry. So
`Orchestrator` leaves no behaviour of the queue out. (It has some more: two due entries of one
priority come back in either order.)

### Heartbeats

`left` is the remaining life of a key and `age` the time since a beat; both are counted
within bounds, so there is no clock and no last tick. A thread that is on beats at most
`Slack` later than its interval: that is an assumption about the machine, stated in the guard
of `Tick`. With the settings of `config.py` (interval 10 s, time to live 30 s) and the half
second Redis rounds down to TTL 0, the theorems hold for any `Slack` below 19.5 s.
SCAN returns the keys that are there during the whole iteration and maybe others; `stood` is
that guarantee. A worker id is made anew by each process, so a thread that ended never
beats again.

### Recovery

`recover_dead_worker_jobs` has no caller in the repository; `Recovery` is what a caller gets.
It calls `list_workers` (the steps of `Heartbeat`), then SELECTs the RUNNING rows, then puts
those of workers not listed as ALIVE back, in one commit at the end. Each of the four is a
step, and workers take, finish and die in between. What holds is stated and proved: no job is taken from
a worker whose thread has been on since the recovery began, and every RUNNING job of a worker
silent for the time to live is found. What does not hold, by the code:
 * a worker that starts and takes a job after the scan is taken for dead;
 * a worker whose thread has died (`BeatFails`) loses its job while it works on it;
 * jobs left ASSIGNED, or RUNNING with `worker_id` NULL (a requeue of a job between ASSIGNED and
   RUNNING leaves one), are not looked at;
 * a row that completed after the SELECT becomes QUEUED again.

### Pages

A Streamlit page is a script that runs from the top at every click, fetches its data anew and
draws its widgets. A widget (Streamlit 1.41.1, `requirements.txt`) is the same as in the run
before if the arguments it is made of are the same; otherwise it is another one, with its
default value, and a click on the old one is lost. `Rerun` and `Redraw` are that rule for the
filter, the select box, the buttons (their `help` differs when they are disabled; `disabled` is
no part of the identity) and the text area of raw JSON, whose default is the payload the form
builds. The requests of a page are not executed by `JobPages`: `JobTable` changes as it
may in any case. The Overview asks `/metrics` first, which SELECTs its counts one by one (`CountRows`),
and then for the list (`DrawOverview`).

### One job

`JobRun` follows one job through what `Orchestrator` leaves out: payload, executor, mails, delays
and log. One worker has it at a time, the next one when that is gone, and the steps of a handler are
one. Between the worker's steps come `Retry` (of a DEAD job) and `Requeue` (of a job in any status,
in the DLQ or not, as `requeue_dlq_job` takes it): a requeue while the worker has the job gives it a
second entry, and the worker goes on with the count it loaded. A worker dies anywhere (`Crash`), also
from an error of a commit, after which `_handle_failure` has the same session and fails too; the job
then stays as it is until somebody requeues it. `DieInFailure` is the one death that leaves an entry:
after the enqueue of `_handle_failure`, before its commit.

### Start-up

Each API process runs `alembic upgrade head && uvicorn`: it reads the revision of the database
(`ReadRevision`), then applies what comes after it in one transaction (`Upgrade`) or ends
(`UpgradeFails`), then looks for the admin (`BootstrapFinds`, `BootstrapMisses`) and inserts it
(`BootstrapInsert`, `BootstrapConflict`). A migration is a function from a schema to the schemas it can
end in: none if a statement raises. The schema is its revision and whether `users.is_admin`
exists, the one column the two revisions are about. Two databases are considered: a new one, and
one from before `is_admin`, which is what 0002 was written for.

### History variables and faults

`reissues`, `withdrawn`, `failures`, `stood`, `calls`, `added`, `handed`, `issued`, `sent`,
`writtenFor`, `mails`, `unhandled`, `retries`, `requeues` and `overtaken` record what happened and let properties speak of it. `reissues` and `calls` are also compared with
the bounds of a run. `failures` stops at `MaxRetries + 1`: no property tells larger numbers
apart, and a job of the code may fail more often (section 5, `retries_exceeded`).

Operators commented "Fault:" are no part of the specification. Each is what a definition
would be with a plausible mistake, and a check of the properties: with the definition
replaced by its fault, TLC finds the property of the same row of `PROJECT.json`
("mutants") violated.

## 3. What is promised to whom

`retry_job` and `requeue_dlq_job` reset a job by hand. The second takes a job in any status,
running or not, so once an operator has begun such a call the job can be queued twice and
executed by two workers; nothing in the code or its documents promises otherwise. The strong
properties are therefore about the jobs nobody has re-issued (`Untouched`), and `Ticket`
calls the others void. `TypeOK`, `NotGivenUpEarly`, `TicketsAreCounted`, `ImplementsJobTable` and `EveryJobSettles` are about
all jobs (the last with the re-issues of a run bounded, in the checked instance to none).

## 4. Runs that pass

`safety` (813,574 states): one job with one retry, two workers, two API threads, all four
endpoints, one re-issue, one worker that may crash between any two steps, one thread whose
call may break off between any two steps.
 * `ExclusiveExecution`: one holder at most, and none while the job is queued.
 * `SettledIsOver`: after COMPLETED or DEAD, in the DLQ, or after `cancel_job` removed its
   entry, a job is neither queued nor held. This needs `SkipJob` *and* the order of
   `_handle_failure`.
 * `DeadIsInDlq`: DEAD in the table implies an entry in the DLQ, also when the process dies
   between the two writes.
 * `NotGivenUpEarly`: given up only after `MaxRetries + 1` failures. Stale sessions lower
   the retry count but never raise it past the failures.
 * `ImplementsTicket`: refinement of `Ticket`. A job's ticket is issued once, is taken only
   from the queue, given back only by its holder, and never comes back once spent.
 * `TicketsAreCounted`: a re-issue grants one ticket. Workers that hold a job and its entry in the
   queue are together at most one more than the calls that re-issued it. The run has one
   re-issue, of a job that may be held, queued or dead at the time (two make it several times larger);
   the theorem has any number of concurrent calls.
 * `ImplementsJobTable`: refinement of `JobTable`, which is what `JobPages` relies on. FAILED is
   not in `Stored`: section 5.

Why one job: steps about different jobs touch different rows, entries and tickets and meet
only in `IsHead` and in the worker's being busy; both are in `liveness`, which has two jobs.
Two workers are enough for a stale writer and the one it overtakes. The theorems have no such
bound.

`liveness` (183,756 states): `EveryJobSettles` with two jobs, one of priority 1 and one of
priority 3, which is the only one that has to wait out its delay and can be overtaken.

`queue` (235,047 states): two clients, a job of priority 1 and one of priority 3, delays of 0
and 2 ticks, 3 ticks, two enqueues per job. Bands are 10 ticks apart: all that matters is
that they exceed the horizon, as 10^13 ms exceed the clock until the year 2286
(`QueueAssumption`).
 * `HandedOnce`, `NoPriorityInversion`, `PicksAllowed`, `StatsAgree`: see the module.
 * `LastBandWaits`: no entry of priority 3 goes out early, unless it is enqueued anew during the
   dequeue that takes it. The other two priorities do not wait (`backoff`).
 * `ImplementsDueQueue`: refinement of `DueQueue`, whatever enters, leaves or falls due between
   the commands of a dequeue.
 * `EveryMemberLeaves`: once no more jobs arrive, the queue empties, whatever delays its entries
   have. That arrivals end is the bound `AddLimit`, and nothing in the code: priority is strict, so while
   jobs of a higher priority keep coming, those of a lower one starve.

`heartbeat` (339,504 states): two workers, one of which takes a job, interval 1, slack 1,
rounding 1, time to live 4: the tightest values `HeartbeatAssumption` allows for this interval,
so that one tick less of life would be a false alarm.
 * `LiveIsAlive`: no thread that is on during a call is missing or DEAD in its list.
 * `AliveHasLastSeen`: GET and TTL agree although they are two commands.
 * `EndedIsForgotten`: the key of a worker that is gone goes when its time to live is over, and stays
   away. It does not go with `stop()`: section 5.
 * `RecoverySparesTheLiving`, `RecoveryFindsTheSilent`: section 2. Two workers are enough: what the
   recovery does with one row does not depend on another, and the second one makes the list
   longer while the first is looked up.

`platform` (992,909 states). Two API processes and two browsers, one at each dashboard, two
addresses, one of them the admin's, two ids; two jobs; one job with two retries, one retry and one requeue by
hand, workers that die at any time, one of them in the handling of a failure; five words with overlapping keywords, claims of 3, 24 and 101 years, two degrees.
 * `OneAccountPerEmail`, `ServingHasAdmin`, `ServingIsMigrated`: three kinds of writers (register,
   bootstrap, migration), each with a look before its write, meet only in an index and in a
   transaction. Two ids are as many accounts as there are addresses.
 * `ShownEmailIsOwn`, `AdminStaysAdmin`: what a session knows against what the API knows, over
   sign-ins that fail half way and accounts that are promoted and deactivated.
 * `FreshStaysEmpty`: section 5.
 * `StillClickHitsShown`: a click on Cancel or Retry acts on the job shown if the list has not changed
   (else see `wrong_job`). A click on Requeue names its own row; nothing is to be shown of it.
 * `CardsAddUp`: every status the workers store is in one card of the user's Dashboard, but
   CANCELLED.
 * `OverviewTrailsList`: no count of rows in `/metrics` is above the list fetched after it. The
   counts do not bound each other: each is of a time of its own, so that more jobs may be completed, or
   retried, than the total has, and a rate be above 100 %. Two jobs are enough for a total that is out
   of date and a choice that moves.
 * `HandWrittenIsForTheForm`, `FormsMeetRequirements`: see the modules. The texts written by hand
   are a payload of a type that sends mails and one of a type that does not; over another form each
   is one that no executor takes.
 * `MailsAreAccounted`: every mail but the first has a failed execution, a worker that died in the handling
   of one, or a requeue to its own. A death alone sends nothing again: the entry is gone with the worker.
   But a RUNNING job that a death left behind may be requeued, and then sends its mail again.
 * `DelaysAskedGrow`: of what `calculate_delay` returns, which is what the queue is asked for. Whether
   the job waits is a matter of the queue (`LastBandWaits`, `backoff`). Delays are in tenths of a second,
   with every jitter of a tenth from 0.8 to 1.2.
 * `BuriedOnTime`: DEAD comes with the failures that the job and each retry by hand were granted, and
   with no more than as many again for each requeue. With two workers at once this fails
   (`retries_exceeded`); `JobRun` has one.
 * `LogTellsStory`: each change of status has its event, and since the last call there is an
   EXECUTION_FAILED for each retry counted, unless that call came while the worker had the job. Log entry
   and row are of one transaction and of one step: that a commit is atomic is assumed. Two workers
   break it (`retrying_stale`).
 * `MoreScoresNoLess`: a step adds one word, claim or degree; 101 is read as 1.

Bounds: `ReissueLimit`, `Endpoints`, `Mortal`, `Fallible` (`JobsApi`, `Worker`), `Horizon`,
`AddLimit` (`RedisJobQueue`), the saturation of `failures`, `Runners` (`Recovery`), `Ids`
(`Accounts`), `Edits` (`SubmitPage`), `ManualRetries`, `Requeues` and `Deaths`
(`JobRun`). A request beyond `ReissueLimit`,
`AddLimit`, `ManualRetries` or `Requeues` is not made, a death beyond `Deaths` does not happen; nothing
else is cut off. Deadlock is not checked: when no more
requests are made and every job is over, the system rests (in `JobRun`, when its one job is
over, or left by a worker that died). `EveryJobSettles` and
`EveryMemberLeaves` say that it does not rest with work left.

### Fairness

Weak fairness of each worker's `ProcessOnce`: `run_forever` polls in an endless loop, its
commands return or raise, and the executors return or raise (`smtplib` is called with
`timeout=20`, `httpx` with `timeout=30`, the rest is computation). A crashed worker has no
step and no obligation; one worker of the instance cannot crash, since with all of them gone
nothing happens and `docker-compose.yml` restarts none. Weak fairness of a call that has
begun, and of time. Requests, crashes and calls that break off are never obliged to happen.
Weak fairness is enough: a process is disabled only when it has nothing to do.
In `RedisJobQueue` every client is taken to poll, as workers do. In `Heartbeat` a thread goes on
and time passes; nobody has to call `list_workers` or the recovery.

## 5. Runs that find a violation

Each contradicts a text of the repository; the properties stand at the end of the modules.
Some findings come from passing runs or from reading, and follow the table.

| Run | What happens |
|---|---|
| `queued_lost` | `create_job` enqueues (`jobs.py:49`), a worker takes the entry, finds no row and drops it (`worker.py:151`), `create_job` commits QUEUED (`jobs.py:52`). The job waits for ever. No crash is needed. |
| `retries_exceeded` | `_handle_failure` enqueues (`worker.py:211`), a second worker loads the row with the old `retry_count`, the first commits (`worker.py:225`), the second fails too and counts from the old value: one retry more than `max_retries`. |
| `retrying_stale` | The same window; the second worker succeeds and commits COMPLETED, then the first commits RETRYING over it. |
| `cancel_race` | `cancel_job` reads QUEUED, a worker takes the entry and commits ASSIGNED, `cancel_job` commits CANCELLED; the job runs and may end COMPLETED. |
| `silent` | A worker dies, its key expires, and `list_workers` does not list it: it never becomes DEAD. |
| `backoff` | A job of priority 2 is re-enqueued with a delay and handed out at once: `max_score` lets the clock decide only in the band of priority 3. |
| `wrong_job` | My Jobs shows a QUEUED job, a newer one appears, the user clicks on "Cancel this job": the script runs again, the options of the select box are others, it stands at the newest job, and that one is cancelled. |

Found while modelling, without a run of their own:
 * No new database gets its tables. 0001 creates `users.is_admin`, 0002 adds it once more, both
   revisions are one transaction, and `docker-compose.yml` starts the server only if alembic
   succeeds. `FreshStaysEmpty` (run `platform`, theorem `NewDatabaseStaysEmpty`) says so; a
   database from before `is_admin` migrates.
 * No row ever says FAILED (`ImplementsJobTable`): `worker.py:195` sets it, and the same session
   replaces it before its commit.
 * `GET /jobs/{id}/logs` answers 500 for every job: the schema reads `metadata` of an ORM object,
   which is SQLAlchemy's. The dashboard says "No log entries yet."
 * `stop()` leaves the key of the worker (`heartbeat.py:27` sets the event only), where
   `tests/test_heartbeat.py:70` says "Calling stop() should clean up the heartbeat key from Redis." and
   asserts it. A worker that was stopped is listed as ALIVE until the time to live is over; then
   the key goes (`EndedIsForgotten`).
 * The auto-refresh of the dashboards is a test in the script; nothing runs the script.

## 6. Theorems

For every set of jobs, workers, threads, errors, processes, browsers and addresses, every priority and retry limit, every set
of processes that may crash, and every bound of the runs. Assumptions: `JobAssumption` (priorities
1 to 3, natural retry limits, `None` is no id), `MortalAssumption`, `ApiAssumption`,
`QueueAssumption` (the horizon is below the distance of two priorities), `HeartbeatAssumption`
(interval, slack and rounding together are below the time to live), `RunnersAssumption`,
`AccountsAssumption` (`Nobody` is no id and no address), `ResumeAssumption` (claims are natural
numbers), `PlatformAssumption` (jobs are natural numbers, texts are sets of keys, `max_retries`
is from 0 to 10, as the schema of a job has it). TLC evaluates each of them in the passing runs
of its module. A theorem that counts has finite sets as a hypothesis of its own (`IsFiniteSet(Jobs)`,
of the keywords and degrees, of workers and threads).

**Tickets** (`OrchestratorProofs`). `ExclusiveExecution` and `SettledIsOver` are not inductive
alone. `TicketInv` adds:
 * `FreshIsUnknown`: a job id not yet generated is in no store and in no process. Without it
   `CreateEnqueue` could issue a second ticket, since `create_job` does not look at the queue.
 * `ReissueIsCounted`: a call that is about to enqueue a job again belongs to a job that is
   not `Untouched`. This is what keeps `ReissueEnqueue` out.
 * `BuriedIsInDlq`: a worker about to commit DEAD has written the DLQ. It makes the job
   `Settled` before DEAD is visible, and gives `DeadIsInDlq`.

The core is that the only steps that make an untouched job queued are `CreateEnqueue` (the
job was unknown) and `RequeueFailed` (the worker held it, so by exclusiveness nobody else
does, and the worker lets go). There is one lemma per action and per part of the invariant
it can disturb. Theorems `TypeCorrect`, `Exclusive`, `SettledForGood`, `NoDeadJobIsLost`.

**Refinement** (`Refinement`): `Spec => ImplementsTicket`. Under `TicketInv` the holder
that `TicketOf` chooses is unique, so every step moves one ticket as `Ticket` allows or none.

**Retry counts** (`RetriesAreGranted`). A row's `retry_count` may be stale and is overwritten
in any order; `CountsAreBacked` says that every count in a row, in a session, or about to be
committed stands for failures that did happen. With it `BuryFailed` is reached only after
`MaxRetries + 1` failures.

**Queue** (`RedisJobQueueProofs`). `ScoreInv`: every score is its priority's band plus a time
up to the horizon, and every bound the last band plus a time not after now. From it
`HandedOnceCorrect`; `LastBandIsHonoured`, with `ReachInv` (what a dequeue has got is still in its reach,
unless it was enqueued anew); `PicksCorrect` and `NoInversion` through the lemma `LowestIsFirst`
(a member of higher priority would have been in reach, and lower). `StatsCorrect`: a score is in
one band only (`BandOf`), so the division of `stats` gives the priority back.
`DueQueueRefinement`, step by step: a command of another key leaves an entry's availability alone
(`AvailabilityStands`), one of its own gives it any (`AvailabilityOfOne`), a tick makes delayed entries due
and no due one delayed (`AvailabilityOfTick`); a pick is `Pick` by `PickIsHead`, and what is between
the two commands of dequeue is a step of another client or of time.

**Heartbeats** (`HeartbeatProofs`). `KeysAreYoung`: the life left to the key of a thread that is
on is the time to live less its age, and its age is at most interval and slack. So such a key
never expires (`OnIsHeard`), and `CallInv` carries that through the call: a worker that was on
at the beginning and still is has stood, so the scan has returned it and TTL was positive; a
GET without an answer means a thread that has ended. Theorems `NoFalseAlarm`, `LastSeen`.

**What the pages rely on** (`JobTableProofs`). `TableRefinement`: `Spec => ImplementsJobTable`. A
commit could make a row appear with any status, if a session could write a row that is not
there. `TableInv` excludes it: whoever may write a row or a DLQ entry has found the row committed
(`WorkerKnows`, `ThreadKnows`), and the one call that generated an id is the only one that may
insert it (`Creating`).

**Re-issues** (`TicketCountProofs`). `TicketsAreCounted` is not inductive: a call that has begun and
has not enqueued yet must count as a ticket. `CountedInv` adds these callers; every step then
is one of six moves of tickets (`TicketAccount`), and each move keeps the sum. This theorem
needs finite sets of workers and threads.

**Recovery** (`HeartbeatProofs`). `RecoveryIsHeartbeat` shows that every behaviour with a recovery is one of
`Heartbeat`, so `NoFalseAlarm` holds of the list the recovery gets. `RecoverInv` keeps what
follows from it over SELECT and commit: a thread that is on and has been since the recovery
began is in `alive`. For `RecoveryFindsTheSilent`, `QuietInv`: a worker that had been silent for the
time to live has no key, has ended for good, and so is neither in the list nor in `alive`.

**Accounts** (`AccountsProofs`). `AccountsInv` is `TypeInv` (with unique accounts), `StartInv` (a process
that has passed alembic has left the schema at its head and none takes it back; one that
serves has seen the admin, and accounts neither go nor lose the flag) and `SessionInv` (what a
session holds, has typed and shows is of one account). `NewDatabaseStaysEmpty` is the other
side: from a new database `ToHead` has no end.

**Pages** (`PagesProofs`). `StillClickHitsShown` rests on the identity of
widgets: a run of the script over the same list leaves filter and choice alone (`StillRun`). For `OverviewTrailsList`, `TrailInv`: rows never go
(`ListedGrows`), so what a SELECT has counted keeps below every later list. For `CardsAddUp`, the statuses
of the cards are disjoint and, with `CANCELLED`, all that `JobTable` lets a session commit. Both of
these need a finite set of jobs. For `HandWrittenIsForTheForm`, `WrittenInv`: a text that was written
for another type than the one selected stands over an empty form.

**One job** (`PlatformProofs`, of `JobRun`). Five invariants, of which the last three rest on `CountInv`.
 * `FormInv` gives `FormsAreComplete`: the fields that are filled in belong to the form, for which
   the builder and the executor agree on what is needed (`BuiltIsComplete`).
 * `CountInv` is three. `PlaceInv`: types, and where the worker is not. `FloorInv`: no count, in the row or
   in the worker's object, runs ahead of the failures since the last retry by hand. `CeilingInv`: the row,
   its entry and the worker may fail no more often than was granted; a requeue while the worker has the
   job grants for two. Floor and ceiling give the two halves of `BuriedAsPromised`.
 * `MailInv`: an entry, and a worker that has not sent yet, may each send one more mail, and each but the
   first is paid for by a failure, a death in its handling, or a requeue. It gives `MailsAreCounted`.
 * `DelayInv`: the last delay is one of the attempt counted, in the row and in the worker's object. The
   shortest delay of an attempt is above the longest of the one before (`DelayGrows`), which is what a
   jitter below a third either way means. It gives `DelaysAskedAreLonger`.
 * `LogInv`: the status is the one of the last event, and the count, in the row and in the worker's
   object, is that of the failures since the last call, or above it if that call came while the worker had
   the job. `CallAfter` and `FailsAfter` say what one more event changes of these two functions of a log of
   any length. It gives `LogIsComplete`.

**A resume** (`PlatformProofs`, of `ResumeScore`). `ScoreIsMonotonic`: each of the three parts of the
score grows with its set, and the cut at 100 keeps the order (`CutGrows`).

**Types** (`PlatformProofs`). `TypeCorrect` is about all parts of `Platform`; `Parts` shows that
a behaviour of it is one of each part, so the theorems of the parts hold of it as well. `PageInv` adds to the
types of the pages that the job selected is one of the options and that a page which shows jobs has
some to show, without which the newest of the options would not exist.

Numbers: the library's induction has an operator as parameter, so what would be an induction uses
the least element of a set (`LeastNatural`): the greatest of a bounded set (`MaxIsGreatest`), the newest job
of a finite list (`NewestExists`). That a power of two doubles (`Doubling`) is counted on
subsets.

The inductive invariants of `PlatformProofs` (`FormInv`, `CountInv`, `MailInv`, `DelayInv`, `LogInv`,
`PageInv`) hold on the instance of `platform` too, all of its 992,909 states.

Only model-checked: `EveryJobSettles`, `EveryMemberLeaves` and `EndedIsForgotten`. They are liveness
under fairness, outside this prover. Every invariant, action property and refinement of the
passing runs is a theorem.

## 7. Not modelled

* Owners, time stamps, texts of logs and messages, rate limits, layout. Payload, type and result
  are in `SubmitPage` and `JobRun` only: the life cycle does not depend on them, but through
  success or failure, which `Worker` leaves open.
* The pages Jobs, Workers, Throughput and Account, which show what they fetch and call nothing;
  the rates, averages and sizes of `/metrics`, and its throughput. The auto-refresh has no step of its own (section 5).
* The text work of the executors: summaries, patterns, LLM services (they return or raise).
* Passwords and the age of tokens: a wrong or old one is refused and changes nothing. `refresh`
  and `logout` of the API change no state.
* `alembic downgrade` and offline migrations: nothing calls them.
* A database error while a commit is under way, after which the server has committed and the
  client does not know: `Crash` and `Abort` have the commit done or not, and the process or
  the call over. `Crash` also stands for the error of a commit inside `_run_job`, after
  which `_handle_failure` fails on the same session.
* Loss of Redis data on a restart of Redis.
* The current job that `list_workers` adds to an entry; what becomes of a job the recovery has put
  back (it is re-enqueued, and is then a job of `Orchestrator` that was re-issued); that the
  session of the recovery may hold an older copy of a row it has read before.
* Two API processes: threads already interleave at every command, and keep nothing in common.

## 8. Plan

Done: sections 2 to 6. What could follow:

1. `Recovery` inside `Orchestrator`: the recovered job in the queue again, with the stale session of
   the worker it was taken from. It should wait for a caller in the repository.
2. `DueQueue` in place of `JobQueue`'s own steps in `Orchestrator`, so that the composition is an
   INSTANCE and not an argument.
3. When a defect of section 5 is repaired, its property becomes one of a passing run.
