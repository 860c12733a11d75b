# HSAAI in TLA+

TLA+ models, TLC runs and TLAPS proofs for the parts of HSAAI whose correctness
depends on the order in which things happen.  HSAAI is a platform of Python
services (FastAPI, one asyncio event loop per process) over PostgreSQL, Redis,
Kafka and model servers.  Most of its code is request/response and CRUD; what is
modelled here are the pieces that keep state over several requests, coroutines or
processes.

    tlc -config Approvals_pass.cfg MCApprovals       a run
    tlapm ApprovalsRefinement.tla                    the proofs of a module

## 1. The system: components, state, interactions

**Circuit breaker** (`packages/common/resilience/circuit_breaker.py`).
One object per downstream, shared by all coroutines of a process.
State: `_state` (only CLOSED or OPEN is ever stored), `_failure_count`,
`_last_failure_time`, `_half_open_calls`; HALF_OPEN is a reading of OPEN once
`recovery_timeout` has passed.  Operations: `call` (admission under the lock, then
the await, then `_on_success` or `_on_failure` under the lock), `reset`.
Hard: the outcome of a call is recorded in the state the breaker has *then*; late
results of ordinary calls mix with those of probes; a cancelled caller records
nothing.  Correct if it is open exactly at its threshold, never leaks a probe slot,
and closes again when the downstream is back.

**Human approval workflow** (`services/backend_core/approvals/service.py`, `router.py`).
State: table `human_approval_requests`, `audit_logs`, and the calls of `notify_approval`,
which is best effort: it swallows transport failures and returns when no transport is
configured, so whether a notice reaches anyone is not known to the code.
Operations: `create_approval`, `decide_approval` (row lock), `cancel_approval` (no
lock), `check_sla_breaches` (locks all pending rows, notifies row by row, commits
once).  Hard: several people and a sweep on the same rows, an unlocked
read-then-write, external effects inside a transaction that may be rolled back.
Correct if a release always has its quorum of other people behind it, the audit log
settles what became of a request, and nothing stays pending for ever.

**Workflow engine** (`services/workflow_engine/main.py`).
State: `RUNS` and `EXECUTION_HISTORY` in the process, plus the suspended
`_continue_run` coroutines.  Operations: `run`, the steps of `_continue_run`,
`approve_step`.  Executors call other services over HTTP.  Hard: every HTTP request
is a coroutine that may drive a run; between two awaits anything may happen to it.
Correct if one coroutine at a time drives a run, approvals gate what follows them,
steps are started once and in order, and a settled run stays as it is.

**Event delivery** (`packages/common/event_bus/kafka_producer.py`).
State: the producer's in-memory outbox, the batch its relay task is sending, the
Kafka log, the consumer's position, committed offset, retry counter and set of
processed ids.  Operations: `start`, `publish`, `stop`, `_drain_outbox`; the consumer's
`start` and `stop`, poll, handler outcome (success, retry, give up), commit; either
process ends, after `stop()` or anywhere.  Hard: outages, sends whose acknowledgement
is lost and records Kafka refuses, `stop()` amid a batch, a `start()` that finds no Kafka
(the producer queues for ever, the consumer returns from its loop at once), commits that
fail, processes that end with an outbox or with the processed ids in memory.  Correct if
the relay itself drops nothing, nothing is handled twice by one process, and no offset
runs ahead of the work.

**Training jobs** (`services/model_training`).
State: the `status` column of `training_jobs`, the RQ queue, the `.cancel` file of a
job's output directory, the registered models and the deployments.  Operations: the
API handlers (`create_job`, `enqueue` behind start, resume and retry, `cancel`,
`pause`, delete, deploy) and `run_training_job` in the workers.  Hard: every writer
writes the status without looking at it, `enqueue` queues the run before it commits,
the cancel file is never removed, a worker that dies is not noticed.  Correct if each
status still has what it speaks of behind it, a cancel takes effect, no row vanishes
under a worker, and a job does not stay in training for ever.

**Resilient call** (`packages/common/resilience`: `retry.py`, `timeout.py`,
`bulkhead.py` around and under the breaker).
State: the attempt of each call and where it is suspended, the bulkhead's permits and
`_active`.  Operations: `__aenter__`, `__aexit__`, an attempt that returns, raises or
is cut off, the pause before the next.  Hard: `wait_for` and callers cancel a
coroutine at any await, while queued as well as inside; the retries of one call count
as one call for the breaker.  Correct if every permit and every probe slot is given
back whichever way an attempt ends, and a call ends although its body hangs.

**Multi-tier cache** (`packages/common/performance/cache_strategy.py`).
State: the `LRUCache` of each process with its reverse tag index, values and tag sets
in Redis (which the repository runs with `allkeys-lru`), rows of `cache_entries`.  Operations: `get` (with a fetch or without),
`set`, `invalidate` by key and by tag, `warm` and the refresh-ahead loop.  Hard: a
`get` may suspend between the read of a tier and the write of the tiers above it,
tiers disagree after swallowed errors, another process's L1 is never invalidated, Redis
may drop a tag's set and keep the values under it.
Correct if the index of L1 is exact, an undisturbed invalidation leaves nothing
behind, and stale copies do not feed each other for ever.

**Other stateful pieces** (planned, section 7): the HTTP connection pool (a client per
process behind the breakers of its hosts), the offline LLM cache and its queue, the
rate limiters, the model registry and the global region resolver.  The backend's
workflow runtime, written as a client of the engine, submits nothing: its synchronous
`POST /start` returns the coroutine of `service.start` without awaiting it and nothing
else calls it.  The template workflows of the maturity upgrade move one database row
from step to step with neither a lock nor a check of its status; they are listed as a
hazard only.

**How they interact.**  The resilient call composes the breaker with the other
wrappers, and its module instantiates `CircuitBreaker` as it stands.  The HTTP
connection pool sends each request through the breaker of its host.  The engine's executors call the RAG and LLM gateways and the backend's agent
runtime.  The approval service sends its notices by email and webhooks itself.  The
event path is a library for all services; in this repository only its tests use it.
Approvals, engine, training, events and cache share no state: each meets its
neighbours as an awaited call with an arbitrary outcome, which is how the modules
model them.

**Not modelled, on purpose**: gateways, RAG, agents, MDM, governance and the
front end are stateless routing, classification, user interface or
single-transaction CRUD.  `PROJECT.json` lists every component with the reason.

## 2. Modules

| Module | What it is |
|---|---|
| `CircuitBreaker` | one breaker and the coroutines that use it |
| `CircuitBreakerProofs` | its invariants, for any number of callers |
| `ApprovalGate` | abstract: what whoever releases an action may rely on |
| `Approvals` | rows, audit log, sweep transaction, cancels in flight; implements `ApprovalGate` |
| `ApprovalsProofs` | its safety, its audit log and its escalations, for any sets of requests and people |
| `ApprovalsRefinement` | the proof that it implements `ApprovalGate` |
| `WorkflowEngine` | runs, history, coroutines |
| `WorkflowEngineProofs` | its safety, for any runs, people, coroutines and definitions |
| `EventDelivery` | producer, Kafka log, consumer |
| `EventDeliveryProofs` | what the relay keeps and the consumer does not repeat, for any events, retries and limits |
| `TrainingJobs` | API processes, queue, workers and cancel file over the status column |
| `TrainingJobsProofs` | what backs each status, for any jobs, processes, workers and runs |
| `ResilientCall` | breaker (an instance of `CircuitBreaker`), retry, timeout and bulkhead around one function |
| `ResilientCallProofs` | its accounts, and that it drives the breaker as `CircuitBreaker` allows |
| `LRUCache` | L1 of the cache: its methods as operators on its contents |
| `MultiTierCache` | calls of several coroutines and processes on L1, Redis and Postgres |
| `MultiTierCacheProofs` | the exactness of L1's index and what an invalidation removes, for any keys, tags, processes and limits |
| `MC*` | the values TLC gives the constants |

Each module opens with the atomicity argument: what one step is and why.

* *One event loop* (`CircuitBreaker`, `ResilientCall`, `WorkflowEngine`, `EventDelivery`,
  and each process of `MultiTierCache`): code between two awaits is one step.  The sections under the `asyncio.Lock`s contain no
  await.  `CircuitBreaker.running[c]` and `WorkflowEngine.co[c]` say which await a
  coroutine is suspended at; `EventDelivery.batch` is non-empty exactly while the
  relay awaits the sending of its head.  `ResilientCall.stage[c]` and
  `MultiTierCache.task[t].at` are the await of a call; commands at Redis are steps of
  their own, so another process can come between two commands of one call.  Postgres
  is called without await and belongs to the step around it.
* *Synchronous handlers and workers* (`TrainingJobs`): a handler has no await, so an API
  process is inside one handler at a time, but processes interleave at every commit
  and at every effect outside the transaction (queue, file).  `enqueue` is two steps
  (`EnqueueRun`, `HandlerCommit`), `cancel` as well (`CancelFile`, `HandlerCommit`).  SQLAlchemy
  omits a column whose new value is the one it read: `seen` keeps what a handler or a
  worker's session has read; a commit expires the session's copy, and a read and a commit
  in one step see the same row.
* *The semaphore of the bulkhead* (`ResilientCall`): a permit released while others wait is
  handed to a waiter; until that one resumes the model counts it as free, and a newcomer
  does not overtake it.
* *PostgreSQL READ COMMITTED* (`Approvals`): a transaction that holds the row lock
  from its first read to its commit is one step.  `cancel_approval` is two
  (`CancelCheck`, `CancelWrite`); the sweep is `SweepBegin`, one `SweepRow` per
  breached row, then `SweepCommit` or `SweepAbort`.  `sweep.locked` makes other
  writers wait.  The audit log is a count of entries: `created_at` is the start of the
  writer's transaction and the id is drawn before the locked UPDATE, so the entry of a
  stale cancel may read as older than the decision it overwrites, and a property may not
  rely on the order.
* *Processes* (`EventDelivery`, `MultiTierCache`): an end or a restart loses everything in
  memory in one step, at any await.

Correspondence of state and code:

| TLA+ | code |
|---|---|
| `_state`, `failure_count`, `half_open_calls` | the attributes of `CircuitBreaker` |
| `elapsed` | `time.time() - _last_failure_time > recovery_timeout`, the one thing read from the clock |
| `row[r]`, `audit[r][action][actor]` | the committed row and how many such `audit_logs` entries it has |
| `notices[r]` | calls of `notify_approval` for an escalation of `r` |
| `overdue` | the rows whose `sla_deadline` has passed |
| `row[r]`, `history` (engine) | `RUNS[run_id]`, `EXECUTION_HISTORY` |
| `invoked`, `accepted`, `lost`, `successes`, `dead` | history variables; no action's guard but `publish` (fresh ids) reads them |
| `row[j].status`, `cancel_file`, `queue` | `TrainingJob.status`, `output_dir/.cancel`, the RQ queue |
| `_queue_semaphore`, `_active` | the attributes of `SemaphoreBulkhead`; `_semaphore` is never acquired |
| `l1[p].data`, `.older`, `.index` | `_data`, the order of the `OrderedDict`, `_tag_index` |
| `l2`, `tagidx`, `l3` | values and `tagidx:<tag>` sets in Redis, live rows of `cache_entries` |
| `live`, `ExpireL1/2/3` | the clock against `expires_at` and the TTL of `setex` |
| `died`, `overtaken`, `quiet`, `unlisted` | history variables of training and cache |
| `work[w].seen`, `api[a].seen` | the status a session has read and not yet expired |
| `relay`, `loop` | `_running` with `_relay_task`, and with `_consume_loop` (`stub`: it has returned for want of a consumer) |
| `_outbox`, `connected`, `_processed_ids` | the attributes; `connected` is `_producer is not None` |

The definitions under "Plausible bugs" in each module are mutated forms of an action
or helper.  No specification uses them; substituting one must violate the property
it is paired with in `PROJECT.json`, which shows that the property notices the bug.

## 3. Runs

| Run | Instance | Shows |
|---|---|---|
| `breaker` | 3 callers, threshold 2, 1 slot, 4 failures | open iff threshold; slots only in HALF_OPEN and each with a probe behind it; recovery for good, if no caller is cancelled while probing |
| `breaker_probe` | same | *violated*: "allows 1 probe request" |
| `breaker_cancel` | same, cancellation allowed | *violated*: "auto-recover after a cooldown" |
| `approvals` | 1 request, 3 people (1 administrator), escalation limit 3, 2 rollbacks | two-person rule; what the audit log settles; escalations bounded and `notify_approval` called for each; overdue requests settle; implementation of `ApprovalGate` |
| `approvals_final` | as `approvals` | *violated*: a decided request cannot be cancelled |
| `engine` | 3 run ids in a store of 2, 2 people, 3 coroutines, 3 definitions | one driver, ledger, approval barrier, order, history, finality, settling |
| `delivery` | 3 events (1 without a handler, 1 refused by Kafka), 1 retry, 1 outage, 1 end of the producer's process, 1 of the consumer's | the relay drops nothing, no self-made duplicates, idempotent handling, offsets behind the work, delivery once both ends are attached |
| `training` | 1 job, 2 API processes, 2 workers, 2 runs | every status has its run, queue entry or model behind it; a cancel outlives retries; no row deleted under a worker; jobs leave Training |
| `resilient` | 3 calls, 2 permits, 2 attempts, 5 failures | permits and probe slots come back from every way out; every call ends |
| `resilient_bulkhead` | same | *violated*: at most `max_concurrent` calls at a time |
| `cache` | 1 key with 1 tag, 2 coroutines in 2 processes, 2 versions, 1 fault | exact tag index; what an undisturbed invalidation removes; stale copies die out |
| `delivery_drain` | 3 events, 1 outage, start while Kafka is down | *violated*: "On recovery, the relay drains the outbox" |

**Bounds and why they are enough.**
Breaker: three callers are the fewest for a late ordinary call to fail between two
overlapping probes; `MaxFailures` 4 is twice the threshold, so failures are recorded
in CLOSED, at the trip and while already open.  Approvals: three people are the
fewest that satisfy the two-person rule and leave somebody to be refused; the limit
3 lets a request be escalated twice before it expires, and two rollbacks let a notice be
repeated twice.  Two requests meet only in the transaction of a sweep, which treats them
alike; the theorems cover any number of them.  Engine: the third run id meets the full
store; three coroutines let two approvals of a step race while a third is suspended;
the definitions put approvals first, twice in a row, last, and behind a tolerated
failure.  Delivery: an event with a handler, one
without and one that Kafka refuses are the kinds there are; the outage may come first, at
a start or amid a batch, and each process may end once anywhere, so that a connected and
an unconnected one, and a first and a repeated handling, follow each other; `MaxLog`
bounds only how often an unacknowledged send is stored after all.  Training: with two
workers two runs of the job can be under way at once, each over the status the other or a
handler writes, or one behind the other; a second job would share nothing with the first
but the queue.  Resilient
call: three calls on two permits make one wait; five failures trip the breaker of
threshold two, fail its probe and trip it again.  Cache: two coroutines in two
processes give every overlap of two calls; the second version is what makes a copy
stale; one fault suffices to make two tiers disagree, and StaleDies allows any.  Eviction
needs more keys than that instance has: `LRUHolds` (`MCMultiTierCache`) evaluates every
method of `LRUCache` against a sequence of keys, on all contents of three keys and two
tags.  Event ids, users and requests are interchangeable names; no symmetry is used,
since most runs check liveness.

`CHECK_DEADLOCK FALSE` is set where the system may stop: all requests decided, all
runs settled, all events delivered.

## 4. Fairness

* Breaker: time passes (`Elapse`), awaited calls return (`Succeed`), callers keep
  calling (`AdmitProbe`).  Nothing is assumed of failures, cancellation, `reset` or of
  the downstream's recovery; `AutoRecover` only speaks of runs in which it recovers.
* Approvals: the sweep is called again and again and a call that is not rolled back
  ends.  People need not decide.  No code in the repository schedules the sweep
  periodically (only `POST /approvals/sla/check` calls it): `OverdueSettles` holds for
  a deployment that does what the docstring asks.
* Engine: an awaited executor returns, because each makes one HTTP call with a
  timeout and turns exceptions into results.  Nobody has to submit or approve.
* Training: workers poll the queue and a run ends, handlers return or their process
  dies.  Nobody has to call the API, and workers may die.
* Resilient call: timers fire (`TimesOut`, `Wake`).  Nothing is assumed of the body, which
  may hang, or of permits being released.
* Cache: awaited calls are answered (an error is an answer) and TTLs run out.  Nobody has
  to call, and an invalidation is never owed.
* Delivery: the relay and the consume loop are tasks of a running loop, handlers and
  client calls return, either service calls `start()` once per process, Kafka comes back
  (outages are bounded).  Nothing is assumed of `publish`, of `stop` or of processes that
  end, nor that a `start()` finds Kafka: `Delivered` speaks of behaviours in which both ends
  are attached for good (`<>[]Attached`), since the code leaves that to the order in which
  processes are started.

## 5. What is proved

Every invariant and every safety property a passing run checks is also a theorem, for
every value of the constants that satisfies the module's named assumption
(`BreakerAssumption`, `ApprovalAssumption`, `EngineAssumption`, `DeliveryAssumption`,
`TrainingAssumption`, `ResilienceAssumption`, `LRUAssumption`, `CacheAssumption`:
finiteness, ranges, and that "nobody" is not a person; TLC evaluates them on every run).
In each proof module an inductive invariant comes first, then one lemma per action, then
a theorem per property.

**`CircuitBreakerProofs`**: `BreakerTyped`, `TrippedAtThreshold` (`OpenIffThreshold`),
`SlotsAreProbesOnly` (`SlotsOnlyHalfOpen`), `SlotsAreBacked` (`SlotsBacked`, if
`~CancelProbes`).  The conjunction of the first three, `BreakerInv`, is inductive: that
slots are zero outside HALF_OPEN needs that the breaker is open exactly at the threshold.
`SlotsBacked` is inductive relative to it: a success outside HALF_OPEN may end a probe
without clearing slots, but then there are none.

**`ApprovalsProofs`**: `ApprovalsTyped`, `TwoPersonRuleHolds`, `EscalationIsBounded`,
`AuditLogSettles` (`AuditSettlesRow`), `EscalationsAreDispatched` (`EscalationsDispatched`).

`WorkflowInv` adds to them what a sweep holds: every request it processes is locked
(`SweepShape`) and a locked row stays pending under it (`SweptRowsPending`, which the
database's row locks give and which is therefore no property of its own); and that a
half-approved request already has a legitimate first backer (`HalfBacked`).  `AuditInv` is
the audit property with `LogAfterCreation`: a request that does not exist has no entry.
What one more entry does to the counts is `Counted` and `LoggedAfter`; from these follow
the three ways in which a request stays settled (`SettledByVerdict`, `SettledByCancel`,
`SettledOpen`), and since an action changes one request, `OneSettledIsEnough` reduces each
of `DecisionSettles`, `CancelSettles`, `CreationSettles` and `SweepSettles` to it.
`NoticesAhead` says that the calls of `notify_approval` exceed the committed escalations by
those an uncommitted sweep has made (`Owed`), so that a rollback does no harm.

**`ApprovalsRefinement`**: `ImplementsGate`, `Spec => ReleaseGate`.  `GateInv` adds who
backs an open row in each of its states and that a cancel in flight is one of an existing
row.  Every action is shown to be `Open`, `Back`, `Refuse` or `Withdraw` of the gate or a
stutter; the sweep's commit is one `Refuse` of the set it expires.

**`WorkflowEngineProofs`**: `EngineTyped`, `OneDriverOnly`, `ApprovalsGate`
(`ApprovalBarrier`), `StepsInOrder` (`InvokedInOrder`), `LedgerAlwaysAgrees`
(`LedgerAgrees`), `HistoryIsFresh` (`HistoryFresh`) and the action property `SettledStays`
(`SettledIsFinal`).  `EngineInv` describes a row at an await (`Driven`: the step at
`next_step` is a task and has been started), between stretches (`Left`: everything started
lies below `next_step`; the last result may be an approval nobody has given) and its
counters (`Tally`).  `LoopKeeps` shows that the loop leads from `Left` to either; the three
handlers are reduced to it.  Appending or replacing one result moves one count by one
(`MarkAppended`, `MarkReplaced`); that a run without failures and open approvals has
completed *every* step is `AllCompleted`.  `SettledStays` follows since whoever holds a
coroutine holds a running run.

**`EventDeliveryProofs`**: `DeliveryTyped`, `OnlyProcessesLoseEvents`
(`RelayDropsNothing`), `NoDuplicatesAreMade` (`NoSelfMadeDuplicates`), `HandledOnce`
(`HandledOncePerProcess`), `CommittedAreSettled` (`CommittedIsSettled`).  Producer and consumer
share only the log, so each half has an invariant of its own.  The point of `ProducerInv`
(`OnlyAccepted`, `QueuedOnce`, `StoredOnce`, `Connection`, `RelayDropsNothing`) is
`StoredOnce`, which needs `Connection`: only a connected relay has a batch, the first
connection is made while Kafka is up, and a refused record is never stored, so before the
first outage what is stored no longer waits.  An end of the process only moves outbox and
batch into `lost`.  `ConsumerInv` adds that a success this process does not remember was
counted by an earlier one (`Remembered`), what the handler works on (`Handling`), and that
everything fetched is settled but the record in the handler, which lies beyond every
committed offset (`FetchedSettled`).

**`TrainingJobsProofs`**: `JobsTyped`, `StatusesBacked` (`StatusBacked`),
`CancelsOutliveRetries` (`CancelOutlivesRetry`), `WorkedRowsAreKept` (`WorkedRowsStay`).
`JobsInv` adds what makes the unchecked writes harmless: an enqueue that has yet to commit
has its run in the queue or overtaken (`EnqueuedQueued`), a busy worker's row has a log
entry, which keeps a delete off, and its model once it has registered one (`WorkBacked`),
and a run is counted once on its way from the queue to a worker to a model (`RunsCounted`,
by cardinality; without it the models would not even stay in their type).  `TrainingLeaves`
is what a write omitted by the ORM calls for: behind a job in Training or Saving is a worker
that has not read Failed, so that its failure would be written.

**`ResilientCallProofs`**: `StackTyped`, `PermitsAreConserved` (`PermitsConserved`),
`StackSlotsBacked` (`SlotsBacked`, if `~CancelProbes`), and `StackDrivesTheBreaker`: every
behaviour of the stack is a behaviour of the breaker alone.  By the last one the lemmas of
`CircuitBreakerProofs` carry over through an instance of that module; what remains is the
conservation of the bulkhead's permits, one caller entering or leaving the body at a time, and `Underway`:
a call is in the stack exactly while the breaker awaits it.

**`MultiTierCacheProofs`**: `CacheTyped`, `IndexStaysExact` (`IndexExact`),
`InvalidationPurges` (the action property `Purges`).

* The induction for the index is on `CacheInv`: every L1 is `Sound` (well-typed, with an
  exact index) and every suspended call is `Ready` to be resumed (it has the value it is
  about to store).  The second is needed because `Put` keeps a cache sound only if it is
  given a value.  The methods of `LRUCache` come first, each with a lemma; all of them
  reduce to `RemoveAllSound`, `NewestSound` and `StoredSound`.
* `QuietInv`, inductive relative to `CacheInv`, says what holds until an invalidation is
  overlapped, a call leaves out its key's tags, or a fault strikes: entries, rows and
  stores under way carry exactly their key's tags; a key with a copy in Redis is in the
  sets of its tags, or about to be added, or in `unlisted`, since Redis dropped a set that
  held it (`Listed`; a row whose set an invalidation has
  deleted is one it will delete too); an invalidation is alone and what it has passed is
  gone (`Progress`).  The middle one is the point: without it a backfill from Postgres,
  which adds no key to any set, would leave one unlisted.

## 6. What is only model-checked, and what the runs found

Liveness (`AutoRecover`, `OverdueSettles`, `RunsSettle`, `Delivered`, `TrainingSettles`,
`EveryCallEnds`, `StaleDies`) is out of the prover's reach: its steps need the fairness
conditions and `ENABLED`.  It stays with TLC on the instances of section 3, and so do the
five violations and `LRUHolds`.  Every invariant and every safety property of the passing
runs is a theorem; what a theorem adds to its run is every value of the constants.

Five statements of the repository do not hold of the code:

1. *One probe* (`circuit_breaker.py:10`): `_on_failure` clears the slots whichever call
   failed, so a late ordinary failure lets a second probe join the first.
2. *Auto-recovery* (`resilience/__init__.py:8`): a caller cancelled while probing never
   gives its slot back; with no other result to come the breaker rejects for ever.
3. *Cancel only while pending* (`approvals/service.py:368`): the unlocked check is stale
   when the write happens; an approved request can end as cancelled.
4. *The relay drains the outbox on recovery* (`kafka_producer.py:146`): a producer that
   could not connect in `start()` never tries again.  Lines 16-18 promise an outbox table
   and at-least-once delivery; the outbox is a list in memory (line 154).
5. *The bulkhead's limit* (`bulkhead.py:49`, 64): the semaphore that is acquired has
   `max_concurrent + max_queue` permits and whoever holds one runs the body, so that many
   bodies run at a time and nobody waits in a queue of `max_queue`.

The model also records, as the code has it:

* *Delivery*: every end of the producer's process, and a `stop()` amid a batch, lose what is
  in memory (`lost`); a record that Kafka refuses goes round the outbox for ever; a given-up
  event is only logged (`dead`); a consumer restart may repeat an event; a consumer that is
  started while Kafka is down, or without aiokafka, consumes nothing for the life of its
  process.  aiokafka is in no requirements file, and `AIOKafkaProducer` is given `retries`
  and `max_in_flight_requests_per_connection`, which its constructor does not appear to
  accept: where it is missing or rejects them, every producer is in outbox-only mode, which
  is the behaviour of a start without Kafka.  A second `start()` of the same object, which
  would leave two loops, is not modelled; nothing in the repository calls it.
* *Approvals*: a rolled-back sweep leaves its calls of `notify_approval` made, and repeats
  them; the log of a request that a stale cancel overwrote holds a verdict and a cancel, in
  an order that need not be that of the writes.

Of the newer modules it records:

* *Bulkhead*: a full bulkhead raises an exception that the breaker counts as a failure of
  the downstream, and a retry that wakes after the breaker has opened calls all the same.
* *Cache*: `Purges` needs its conditions.  An invalidation reaches only the L1 of its own
  process; entries that `warm` or the refresh loop stored have lost their tags; a key
  added to a tag between `smembers` and the delete of the set, or put into Redis by the
  backfill from Postgres, is in Redis and in no set.  The tag sets have no TTL and
  `docker-compose.yml` runs Redis with `allkeys-lru`, so Redis may drop a set and keep its
  values: even an undisturbed invalidation by that tag leaves them in Redis (`Hidden`),
  although line 29 says it "drops every entry with that tag across all tiers".  `StaleDies` holds regardless: reads
  copy values only upwards, from Postgres to Redis to L1, and renew no row.
* *Training*: a run that completes overwrites a cancel (Completed after Cancelled); a
  cancel before the first run has an `output_dir` leaves no file and stops nothing; a
  cancelled job that is retried fails at its first callback, for ever
  (`CancelOutlivesRetry`); a worker that dies leaves its job in Training (`died`); two runs
  of one job may be under way in the same output directory; `deploy_job` may pick any of a
  job's models.

## 7. Plan

Done, in this order because most depends on it: the breaker every client sits behind,
the approval workflow that releases actions, the engine that runs them, the event
path; then the training jobs, the resilient call around the breaker and the cache; then
the proofs of every safety property the runs check.

Next, in this order:

1. `EventDelivery`: an abstract at-least-once channel (accepted, delivered, lost) and the
   refinement to it, proved from `DeliveryInv`.
2. `WorkflowEngine`: an abstract run (a prefix of steps done, a verdict) and the refinement
   to it, proved from `EngineInv`.
3. `ConnectionPool` composed with `CircuitBreaker`, as `ResilientCall` is.
4. `RateLimiter`, `OfflineQueue`, `RegionResolver`, `ModelRegistry`: smaller, mostly
   boundary properties checked against a reference definition.
