# TLA+ verification of reddit_kafka

The service under `src/apps/reddit-kafka` streams the comments of subreddits
from Reddit to Kafka.  Any number of replicas share their control state through
Redis; each replica runs asyncio workers.  This directory holds the TLA+ models
of its core, the TLC runs that check them, and TLAPS proofs of their safety.

## 1. Inventory

| Component | State | Operations | Interacts with |
| --- | --- | --- | --- |
| `stream/lock.py` lease | `stream:lock:{subreddit}` with a TTL | acquire (`SET NX EX`), refresh and release (compare-token scripts), owns, is_locked | manager, worker |
| `stream/worker.py` StreamWorker | pending deliveries, batch count, stop event | run, refresher, sessions, comment processing, delivery batches, error handling | lease, registry, Kafka, Reddit, breaker |
| `stream/manager.py` StreamManager | `_tasks`, `_lock`, `_shutting_down`, reconciler | start, resume, reconcile, run, stop, stop_all | registry, lease, runner |
| `repositories/stream_registry.py` | `stream:meta`, `stream:checkpoint`, `stream:stop-request`, subreddit claims, `streams:all`, per-instance index, PostgreSQL mirror | create, status updates (guarded and not), finalize, heartbeat, request_stop, delete, checkpoints | everybody |
| `tasks/dead_stream_cleanup.py` | none | conditional delete of dead snapshots | registry |
| `stream/circuit_breaker.py`, `error_handler.py` | state, counts, backoff | call, record_success, failures, classification | worker |
| `tasks/checkpoint_flusher.py` | none | write-behind of checkpoints to PostgreSQL | registry keys, PostgreSQL |
| `app.py` | service singletons | HTTP handlers, runner, lifespan | manager, registry |
| `migrations.py` | applied migrations | ordered SQL with checksums | PostgreSQL |
| serializers, models, observability, config, clients | none of their own | conversions, metrics, construction | |

What is hard here: the interleaving of coroutines of one process at every
`await`, of replicas at every Redis command, a lease that runs out by time while
its owner only measures its own clock, commands executed late or twice, death
and graceful drain between any two steps, delivery reports in any order, and
replay after any of these.  `PROJECT.json` lists each hazard at its line.

What makes the components correct: the lease is never lost under a streaming
worker and never disturbed by an old one; a stream has at most one streamer, is
adopted when its owner goes, stays what the user asked for, and stops when the
user asks; the checkpoint never passes a comment that was not delivered while
Reddit still listed it; the
breaker neither spins nor stays open; the keys of a subreddit, written one
command at a time, behave like one entry with one stable id; PostgreSQL ends up
with the last checkpoint, and a final flush writes nothing older than what its
workers saved; the schema consists of whole releases, and is recorded with them.

## 2. Modules

| Module | Models | Correspondence |
| --- | --- | --- |
| `Lease` | lock.py and the lease half of StreamWorker | Redis executes commands from `pending` at any time; each attempt (one token) has a `phase`, the await it is in, and a `clock` since that await began; `Tick` is time |
| `ExclusiveTurns` | what the lease promises | each attempt produces at most once, turns never overlap, a turn that is over stays over |
| `StreamManager` | manager.py, the registry keys it uses, cleanup, the runner of app.py, the course of StreamWorker.run | one program counter per coroutine (`call`, `stopper`, `task`, `worker`, `watcher`); an action is what runs between two awaits; `lease` names the coroutine that refers to the stored token, or "lost" when none does |
| `CommentPipeline` | sessions, batches, delivery and checkpoints of StreamWorker | comments are numbers in Reddit's order; `inflight` is `_pending_deliveries`: the unresolved reports, each the comment and its place in the batch; `lost` is a history variable, the missing comments that a listing no longer held |
| `StreamRegistry` | the commands of create_stream, list_streams, request_stop, delete_stream and the status scripts; the sweeps of dead_stream_cleanup.py and reconcile_once over them | one program counter per start (`pc`), stop (`stopping`) and listing (`lpc`); an action is one Redis command or script; `same` and `untouched` say which snapshots of a hash are still current, which is what comparing `updated_at` finds out; `writes` counts the terminal writes that runs may still make |
| `StreamSlot` | what the registry promises of a subreddit | claimed by one creator, opened, running, dead, retired; a running entry is never deleted; a starting one may be killed by the late word of an earlier run |
| `CheckpointFlusher` | checkpoint_flusher.py, the commands of update_status and heartbeat on the per-instance index, the shutdown order of lifespan | two flushers per instance (the loop and the shutdown's own call), each with its place in `_flush` and the checkpoint it is about to write |
| `Migrations` | migrations.py | one program counter per runner; the open transaction is `ran` and `rows`, the committed database `schema` and `recorded` |
| `SchemaHistory` | what the migrations promise of a database | the schema changes only by whole upgrades: all the files that it lacks of a release that agrees with it, in the order of their names |
| `CircuitBreaker` | circuit_breaker.py, error classes, the retry loop | `Res` ticks to the second, so that rounding matters; `rejected` and `streak` are history variables |
| `LeaseProofs`, `StreamManagerProofs`, `StreamIntentProofs` (also on `StreamManager`), `CommentPipelineProofs`, `CircuitBreakerProofs`, `StreamRegistryProofs`, `CheckpointFlusherProofs`, `MigrationsProofs` | theorems about the module each is named after | section 5 |

`StreamManager` composes the manager, registry, cleanup, runner and worker life
cycle.  It has no clock; its `Expire` never takes the lease from a streaming
worker, which is what `Lease` proves.  The operators whose comment describes a
mistake (`AcquireWithoutNX`, `SaveAnyBatch`, ...) are variants of the definition
that follows them; each shows that a property notices that mistake.

Abstractions worth knowing.  One stream: the keys of different subreddits are
disjoint.  The one thing streams of a process share is the manager's
`self._lock`; its only effect across streams, a `_run` task cancelled while it
waits for that lock in its finally block, is a choice in `CancelTask`.
In `StreamManager`, `create_stream` is one step; `StreamRegistry` splits it into
its commands, and there the manager is its registry calls.  `listed` stands for a complete entry: claim, hash and set membership.
`update_status` on a deleted hash recreates a stub with a status and no id,
which is `status # "none" /\ ~listed`.  `instance_id` is drawn afresh at process
start, so a dead instance never returns.  The PostgreSQL mirror of the status is
written and never read; the one of the checkpoint is `row` of
`CheckpointFlusher`.  A checkpoint is there a version number, and `Save` makes
the next one; that its *comment* may go back is the subject of
`CommentPipeline`, where a worker that lost its lease (`LoseLease`) still saves
its batch or writes back what it read beside its successor.  `Migrations` knows
a file by its name, as the code does; names are numbers in the order of the
directory.  In `CommentPipeline` a stream whose worker failed (`worker =
"failed"`: a `KafkaDeliveryError` is fatal) is at rest until somebody starts it
again (`RestartStream`); a reconciler adopts (`StartWorker`) only what a crash, a
drain or a lost lease has left runnable.  External code: Redis, redis-py's retry (`Resend`),
asyncpraw's listing (`Post`, `OldestListed`), librdkafka's queue (`EndWorker`),
PostgreSQL's transactions (`EndTransaction`).

## 3. Runs

| Run | Question | Result |
| --- | --- | --- |
| `lease` | Does a 60 s lease with a 30 s refresh and a 10 s timeout stay with a streaming worker, whatever Redis delays, repeats or loses? Does it implement `ExclusiveTurns`? Does an orphaned lease become free? | holds |
| `lease_slow_heartbeat` | Is the untimed heartbeat between two refreshes harmless? | violated |
| `manager_races` | One instance starts and may drain, reconcilers and cleanup on both, activations longer than the lease, Redis errors anywhere: at most one streamer | holds |
| `manager_failover` | Of three instances one starts the stream, and drains or dies at any point, it or another stops it: is the stream adopted, stopped only on request, does a stop complete while all are up, is every running task in `_tasks`, no lease left behind by a coroutine that is done, nothing started after a drain? | holds |
| `manager_stop_crash` | Does a stop complete when the owner dies? | violated |
| `pipeline` | From a checkpoint: at-least-once, as far as Reddit's listing reaches, through disconnects, failed deliveries, failed writes, failed and dead workers, and late writes of a worker that lost its lease | holds |
| `pipeline_no_checkpoint` | The same before the first checkpoint | violated |
| `registry` | Two creators, one of which may die between any two commands, late terminal writes of earlier runs, a stop, a cleanup and a reconciler: do the keys speak of one id, implement `StreamSlot`, and is a dead entry retired? | holds |
| `registry_listing` | Is a created stream listed? | violated |
| `flusher` | Two owners in turn, late and failed upserts, a drain or a crash: does the row catch up, is the index cleaned, is what a final flush writes as new as what its workers saved? | holds |
| `migrations` | Three runners, one of an older release, one with a file inserted between the older ones and one with an edited file, killed, disconnected and retrying: whole releases, recorded with their schema, `SchemaHistory` implemented, and every runner ends | holds |
| `breaker` | Spinning, spurious opening, escalation, recovery | holds |

The four violated runs are disagreements between a comment or document of the
repository and the code.

* `lease_slow_heartbeat`.  worker.py:480 says that heartbeat failures do not
  affect the lease.  The heartbeat runs inside the refresh cycle without a
  timeout: 10 s of it (two socket timeouts of the client) and the next refresh
  may miss the TTL while the stream loop still produces.
* `manager_stop_crash`.  reconcile_once promises to "finish stops abandoned by
  dead owners".  A stop reaches a stream that is still starting; the owner's
  activation writes "active" over the "stopping", and the owner dies before its
  task, and with it a stop watcher, exists.  The reconciler of the other
  instance then acquires the lease and gives it back for ever: the stream is
  neither resumed (a stop is requested) nor finalized (its status is not
  "stopping").
* `registry_listing`.  "List all streams" (app.py:372).  `list_streams` removes
  the ids whose hash it did not find after it looked; a `create_stream` of the
  same stable id in between is taken out of `streams:all` while its stream runs.
  Such a stream is adopted by nobody when its owner dies.
* `pipeline_no_checkpoint`.  "At-least-once recovery" starts with the first
  checkpoint: until then every session skips the existing comments, the lost
  ones too.

### Bounds and why they suffice

* `lease`: two tokens are an owner and a successor, the only relation the
  properties talk about; a unit of time is 5 s, and 12/6/2/1 are the code's
  60/30/10 s and a heartbeat of 5 s.  No bound on commands: `pending` is a set.
  The theorems remove both bounds.
* Manager runs: two or three instances, with the sets of those that may start,
  stop, drain or crash, so that each run contains the actors its question is
  about.  Starts and stops repeat without bound.  `SlowActivation`, `Faults`
  and `Cleaning` switch whole classes of events; `manager_races` has all three,
  where safety is at stake.  Liveness is asked without faults: a Redis that
  fails for ever stops everything.  In `manager_failover` a stop may come from
  the instance that starts the stream or from another; a task that has ended and
  is still in `_tasks` (`Forgotten`) is the exception that both stop properties
  name, and section 4 describes it.  It also says why cleanup and stops are not
  in one run.
* `registry`: two creators, so that one can lose every race with the other, one
  stop, one cleanup and one reconciler, over an empty Redis or one with a stream
  that has no identity yet.  All of them repeat without bound, except that
  `MaxWrites = 1` (2 in `registry_listing`) terminal writes are outstanding at a
  time: one is enough for a write that comes after the entry was deleted and
  created again, or between a sweep's read and its delete.  The theorems hold
  for any number.
* `flusher`: two instances, two checkpoints and two failures are an owner, its
  successor, a late upsert of the older checkpoint and a lease lost in the
  middle of an activation.
* `migrations`: the old release has two files, the newer one a third between
  them, and one edits the second and adds another; `MaxWait` is two retries.
* `pipeline`: seven comments, `Window = Interval = 3` (the code has 100 and
  100), three failures: two full batches, replay across a batch boundary, an
  invalid comment, and repeated reconnects.  At most one worker that lost its
  lease is still writing.  Comments are posted at any time, so that some drop out
  of the listing while a batch or the whole stream is down.
* `breaker`: threshold 3, two successes to close, backoff 2, 4, 7 (capped, and
  not a power of two), two ticks per second, six failures.

Deadlock is checked in `lease` only.  Elsewhere an instance set that has shut
down, a subreddit nobody asks for, a quiet Reddit and a runner that has finished
are proper final states.

### Fairness

* `Lease`: time passes, and the event loop runs due timers.  Nothing is assumed
  of Redis answering, nor of releases.
* `StreamManager`: each coroutine that can run does (asyncio is fair), Redis
  answers (faults are off in these runs), reconcilers sweep every 10 s, TTLs
  run out.  Requests, fatal errors, drains and crashes are never assumed.
* `CommentPipeline`: a runnable stream is adopted, sessions reopen, reports
  arrive; failures are finite.  That a failed stream is started again is not
  assumed, nor are posts: hence the exceptions in `MissingIsRedelivered` for a
  stream at rest and for a failed report in a batch that never fills.
* `StreamRegistry`: the cleanup task sweeps for ever and each of its sweeps
  ends.  No start, stop or reconciler is assumed to go on.
* `CheckpointFlusher`: reconcilers adopt, activations finish, heartbeats and
  flushes recur, a shutdown ends.  Checkpoints, failures, drains and crashes are
  never assumed, and failures are finite.
* `Migrations`: a runner goes on while it can, which includes being granted the
  free advisory lock, and that its scripts end: behind a holder that hangs the
  others wait for ever.  Errors and deaths are never assumed.
* `CircuitBreaker`: `WF(Progress)` says that Reddit yields comments while it is
  reachable; failures are finite.

## 4. Remarks on the code that no run refutes

* At-least-once ends where Reddit's listing ends.  A session lists the newest 100
  comments and pages no further back (worker.py:204-208), and a batch has 100
  comments: if the first report of a full batch is an error, one more comment
  puts that one out of reach of the replay, and the next checkpoint moves past
  it.  Longer outages lose more.  README.md:314 ("at-least-once recovery
  behavior") and README.md:94 ("A reported delivery failure prevents that batch's
  checkpoint from moving forward") do not say so.  `NothingSkipped` and
  `MissingIsRedelivered` name these comments (`lost`) as their exception, and
  TLC finds the loss at once when the exception is taken away
  (`\A n \in Missing : n > checkpoint`).
* A failed poll of the stop watcher raises out of `stop_watcher.result()` and
  ends a healthy stream with status "error" (`WatcherFails`).  The failed watcher
  is awaited again in the finally block, which suppresses only `CancelledError`
  (manager.py:361-363): the entry stays in `_tasks` (`Leave`), and that instance
  never runs the stream again.
* `recovery_timeout` is documented as the initial wait; the first opening already
  waits `recovery_timeout * backoff_multiplier`.
* Within one worker the checkpoint may move backwards after two reconnects: the
  replayed comments count toward the batch.  Comments are then repeated, not
  lost.
* `resume_stream` leaves its lease to the TTL when a start on the same instance
  got there first; `stop_all` may leave one, too, when a second cancellation
  reaches a worker in its finally block.
* A stop can cancel `_run` before its first step.  No finally block runs: the
  entry in `_tasks`, the gauge and the lease stay, and that instance never runs
  the stream again.  When it is the stop of the very instance that has just
  activated the stream, the status stays "active" beside a stop request, and the
  stop never completes although nobody crashed.  This and the watcher above are
  the exception `Forgotten` of `StopCompletes` and `StopCompletesWhileAllUp`.
* Stops and cleanup together (registry.py:434): a `request_stop` that read the
  hash before a cleanup leaves its key and a "stopping" behind, which meet the
  next stream of the same stable id; and `update_status_if_owner` compares the
  instance, neither the incarnation nor the status, so the late write of an old
  worker or `_run` task can mark "stopped" or "error" a stream that the same
  instance has started again, even one that is only "starting" (`Settle`).
* A periodic flush that read its checkpoint before the drain may commit after the
  final flush and put the older row back, although app.py:232-235 wants the
  final state kept; `RowCatchesUp` holds because the next owner flushes again.
  `_flush` checks the owner and upserts later, so an old owner may write last.
* An activation that outlasts its lease may leave `instance_id` naming an
  instance that no longer streams: the streaming one's heartbeats are refused
  and nobody flushes its checkpoint until the next change of owner.  That is
  the exception in `RowCatchesUp`.
* Migrations: an error in a script comes through the raw driver connection,
  unwrapped, and is not retried even if it is a lost connection, while a wrapped
  SQL error (`DBAPIError`) is retried for the whole ten minutes.  A file that a
  later release inserts between older ones runs after them on a database that
  has them, and before them on a fresh one; two releases with different files
  under different names are both applied, and the schema is then their union.
  Files are sorted as strings; versions of different width (`002`, `NNNN` in
  migrations/README) would not sort as numbers.
* Without callers: `flush_stream_on_stop`, `create_tables_from_models`,
  `CircuitBreaker.reset`.

## 5. Proofs

`LeaseProofs` proves, for every set of tokens and every timing:

* `LeaseTypeCorrect`: `Spec => []TypeOK`.
* Under `RefreshBudget` (`Interval + 2 * RefreshTimeout + HeartbeatMax < TTL`):
  `StreamingOwnsLeaseAlways`, `StreamsAreExclusive`, `LateCommandsAreHarmless`
  and `LeaseImplementsTurns` (the refinement of `ExclusiveTurns`).

`StreamingOwnsLease` is not inductive: from an arbitrary typed state a streaming
attempt may own a lease with one tick left and a long sleep ahead.  `LeaseInv`
therefore records how much of the TTL each phase may have used since Redis last
confirmed a refresh (`PhaseCovered`): at most the time waited while a positive
answer is on its way, a refresh timeout more during the heartbeat, a heartbeat
more during the sleep, a full sleep more during the next refresh.  `WithinLimits`
bounds the clock of each await, so that `RefreshBudget` leaves the lease alive in
the worst case.  `Tick` lowers the time to live and raises the clock together, a
late refresh of the owner only extends the lease, and a command of another token
changes nothing, which is what the compare-token scripts are for.
`ReleaseOnlyWhenLeaving` says that a release in flight belongs to an attempt
whose stream loop is over; that makes late commands harmless.  The proof has
one lemma for time, one for Redis and one for the worker, with a case per
action.  `lease_slow_heartbeat` shows that the budget cannot be dropped.

Assumptions: `NoTokenAssumption` (the absent key is no token) and
`TimingAssumption` (times are natural numbers, the TTL is positive).

`StreamManagerProofs` proves, for every set of instances, whichever of them may
start, stop, drain or crash, with slow activations and faults:

* `ManagerTypeCorrect`: `Spec => []TypeOK`.
* `OneStreamerAlways`: `Spec => []OneStreamer`.  `OneStreamer` lacks one fact to
  be inductive: cancelling a task that has not taken its first step abandons the
  lease, which is safe only because such a task has no runner
  (`CreatedIsIdle`).  The argument is that a step either starts no streaming and
  leaves the lease alone, or changes a lease under which nobody goes on
  streaming (`KeepsOneStreamer`): one that is free, held by a start or
  adoption (`NobodyStreams`), or of the worker that the step ends.  The one
  step that starts streaming, `FirstRefresh`, requires the lease.
* `TasksAreRegistered`: `Spec => []LiveTaskIsRegistered`, inductive with the
  types; `task.cancel()` never removes an entry.
* `StopAllIsFinalAlways`: `Spec => StopAllIsFinal`.  `stop_all` looks at
  `_tasks` once, so a start or adoption that has passed its check of
  `_shutting_down` must not create a task afterwards.  `DrainInv` says why it
  cannot: `_start_local_worker` holds `self._lock` from that check to the new
  task, and `stop_all` waits for the lock, so that no activation is under way on
  an instance that is past it (`NoLateActivation`); and no runner outlives its
  task (`QuietWithoutTask`).  This is what `Exit` requires of a drained
  instance, and what `CheckpointFlusher` assumes when it lets the final flush
  follow the drain.
* `HoldersAreAtWork`: `Spec => []HolderIsAtWork`, inductive with the types: every
  way out of a start, an adoption or a run either gives the lease back or loses
  it, and then the lease is named "lost".  Without slow activations `Expire`
  takes those leases only, so this is also the check that its bookkeeping is
  complete: no lease that nobody refreshes stays for ever.

`ConstantsAssumption` says that the actors are instances and that a free lease
is no holder.  That the lease does not expire under a streaming worker is the
guard of `Expire`, and the subject of `LeaseProofs`.

`StreamIntentProofs` proves what "a graceful instance shutdown releases ownership
without changing the user's intent" means, for any number of instances and any
drains, crashes and faults:

* `IntentSurvivesShutdown`: if nobody ever asks for a stop (`Stoppers = {}`), the
  status is never "stopping" or "stopped", with cleanup and slow activations too.
* `StopsAreRequested`: `Spec => StoppedOnlyOnRequest`, for any stops, if there is
  no cleanup and no activation outlasts its lease.  Both hypotheses are needed,
  and TLC shows it: deleting the entry, which a cleanup or a start that takes
  its creation back does, also deletes the stop request; a `request_stop` that
  has stored its key and not yet written "stopping" then writes it with no
  request standing (the remark on registry.py:434 in section 4).

`StopInv` follows the request through everything that may end in "stopped": a
"stopping", a stop handler past its publication and a `_run` task that saw its
watcher fire all have the key behind them; a task that handles a cancellation
has the key or an instance that shuts down, which is what
`_should_preserve_for_failover` decides by.  That the key is never taken back is
`OpensAlone`: as long as a start is between its creation and its lease, nobody
else is after the lease, so that no start takes its creation back.

`CommentPipelineProofs` proves, for any number of comments, any window, interval
and failures:

* `PipelineTypeCorrect`: `Spec => []TypeOK`.
* `AtLeastOnce`: `Spec => []NothingSkipped` if the stream starts from a stored
  checkpoint (`InitialCheckpoint # 0`; `pipeline_no_checkpoint` shows what
  happens without one).  It speaks of the comments that every later listing
  held (`Owed`); section 4 says what becomes of the others.  The invariant adds
  that the comment at which a session skips was dealt with before
  (`BaseIsDone`), and that an owed comment which the session has passed has an
  outstanding or a failed report (`PassedIsTracked`): a batch all of whose reports succeeded therefore has
  nothing missing before it.  A worker that lost its lease may move the
  checkpoint back, never past something missing, because what it is about to
  write was dealt with when it came to know it (`LateIsDone`).
* `PendingStaysBounded`: `Spec => []PendingIsBounded`.  The bound is that of the
  batch, and the batch outlives the session: `BatchInv` says that each
  unresolved report has its own place in the batch in progress, so a reconnect
  that replays comments continues the count instead of adding to it.

`CircuitBreakerProofs` proves, for every configuration allowed by
`BreakerAssumption` and any resolution of the clock: `BreakerTypeCorrect`,
`NoSpinning` (`[]NeverRejectedTwice`), `OpeningIsEarned`
(`OpensOnConsecutiveFailures`) and, for a multiplier above one, `BackoffGrows`
(`BackoffEscalates`).  The invariant records that the sleep left covers the
backoff left (`SleepCoversBackoff`), which rests on rounding up
(`CeilingCovers`), and that the failure count never exceeds the failures since
the last progress (`CountsAreHonest`).

`StreamRegistryProofs` proves, for any number of creators, stops, cleanups and
reconcilers, any of which may die: `RegistryTypeCorrect`, `IdentityIsStable`
(`[]OneStreamId`) and `RegistryImplementsSlot` (`Spec => Entry!Spec`).
`OneStreamId` says nothing of what a coroutine holds in its hands between two
commands, nor of an identity yet to be chosen.  `RegistryInv` therefore fixes
the one id by `Stable` (the identity, or the legacy id while there is none) for
keys and callers alike, and says that an identity can still be chosen freely
only while nothing is stored and nobody remembers anything (`IdentityComesFirst`,
`Blank`).  For the refinement it adds that a complete hash has the claim
(`WholeIsClaimed`), that the claim keeps a second writer out (`OneWriter`), and
what a successful comparison of status and `updated_at` establishes
(`SnapshotsAreCurrent`): a delete meets a dead entry, or the untouched
"starting" one that its creator takes back.  `RegistryAssumption` says that ids
are distinct and the background tasks are listings.

`CheckpointFlusherProofs` proves `FlusherTypeCorrect` and
`FinalFlushIsCompleteAlways` for any number of instances, checkpoints, failures
and crashes, from `FlusherAssumption`.  The invariant adds that what was saved
is in Redis (`SavedIsStored`), and that a final flush is under way only after
the drain, when the instance holds no lease and so saves nothing more
(`DrainedIsQuiet`).

`MigrationsProofs` proves, for any runners, any releases (whatever their files
are called, and whichever of them are edited) and any failures:
`MigrationsTypeCorrect`, `RecordsAreAtomic` (`[]RecordedWithSchema`),
`ReleasesAreWhole` (`[]WholeReleases`), `ReadsStayCurrent` (`[]AppliedIsCurrent`) and
`MigrationsImplementHistory` (`Spec => History!Spec`, the refinement of
`SchemaHistory`: only a commit changes the schema, by everything it lacks of a
release that agrees with it).  The committed state alone does not say what a
commit will make of it.  `MigrationsInv` adds that a runner holds the lock from
before its read (`LockIsHeld`), that a new attempt starts with an empty
transaction (`StartsAfresh`), and that what the transaction ran and recorded is
exactly what the committed schema lacks of the files passed so far, each of which
is in one or the other (`ContinuesSchema`).  `MigrationsAssumption` says that
releases are sequences of files sorted by name.

Only model-checked is liveness, which is beyond TLAPS here:
`OrphanedLeaseIsFreed`, `RunnableIsAdopted`, `StopCompletesWhileAllUp`,
`MissingIsRedelivered`, `CircuitRecovers`, `DeadIsRetired`, `RowCatchesUp`,
`IndexIsCleaned`, `EveryRunnerEnds`.  Every other property of a passing run is
stated by a theorem.

## 6. Not modelled, and the plan

Not modelled: the serializer and message models (library conversions; their
outcome is `Invalid`), telemetry and metrics (no effect on the program's state),
configuration and the construction of clients, the error records that
`error_handler.py` writes to Redis and PostgreSQL and nobody reads, readiness and
metrics endpoints, the functions without callers (section 4), Terraform.

Plan: an abstract specification of the breaker and of the stored checkpoint with
the refinements proved, and what `StoppedOnlyOnRequest` leaves of itself when
cleanup and stops meet.
