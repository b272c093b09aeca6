---------------------------- MODULE StreamManager ----------------------------
(* The life cycle of one stream across the replicas of the service:
   stream/manager.py (StreamManager) on every instance, the registry and lock
   keys it shares through Redis, the runner of app.py and the lease-related
   course of StreamWorker.run.

   A step is what one coroutine does between two awaits that other coroutines
   or other instances can interleave with, so each Redis round trip is a step.
   The keys of different subreddits are disjoint and a subreddit has one stable
   stream id: one stream is the general case.

   Lease proves that a lease cannot expire under a streaming worker; Expire
   relies on it.                                                              *)
EXTENDS Naturals, FiniteSets

CONSTANTS
    Instance,        \* processes; instance_id is drawn afresh at every start
    Free,            \* the lock key does not exist
    Starters,        \* instances that may serve POST /streams
    Stoppers,        \* instances that may serve POST /streams/{id}/stop
    Drainable,       \* instances that may shut down gracefully
    Crashable,       \* instances that may die
    SlowActivation,  \* an activation may outlast the 60 s lease
    Faults,          \* Redis calls may raise
    Cleaning         \* DeadStreamCleanup runs

ASSUME ConstantsAssumption ==
    /\ Starters \cup Stoppers \cup Drainable \cup Crashable \subseteq Instance
    /\ {SlowActivation, Faults, Cleaning} \subseteq BOOLEAN
    /\ Free \notin Instance \X {"start", "resume", "run", "lost"}

VARIABLES
    \* Redis
    status,     \* status field of stream:meta:{id}; "none": no hash
    owner,      \* instance_id field of stream:meta:{id}
    listed,     \* the hash is complete, in streams:all, and the subreddit claimed
    stopKey,    \* stream:stop-request:{id} exists
    lease,      \* stream:lock:{subreddit}: who refers to the token stored there
    \* each process
    up,         \* life of the process
    call,       \* start_stream and resume_stream: their place in the code
    snap,       \* the entry is still the one this start_stream created
    stopper,    \* stop_stream: its place in the code
    stopOwner,  \* the instance_id that request_stop read
    inTasks,    \* the stream has an entry in _tasks
    task,       \* that _run task: its place in the code
    worker,     \* its runner_task: its place in the code
    outcome,    \* how the runner_task ended
    watcher     \* its stop_watcher: polling, failed, or none (not there, or it fired)

redis == <<status, owner, listed, stopKey, lease>>
run   == <<inTasks, task, worker, outcome, watcher>>
stops == <<stopper, stopOwner>>
vars  == <<redis, up, call, snap, stops, run>>

Caller == Instance \X {"start", "resume"}

\* <<i, "lost">>: the token was drawn by i and no coroutine refers to it now.
Holder == Instance \X {"start", "resume", "run", "lost"}

Status == {"none", "starting", "active", "stopping", "stopped", "error"}
Dead == {"stopped", "error"}

CallPC == {"idle", "acquire", "undo", "reread", "stopcheck", "enter", "verify",
           "activate", "confirm", "giveup"}
TaskPC == {"none", "created", "waiting", "stopping", "marking", "cancelled",
           "deciding", "recording", "erring", "leaving"}
WorkerPC == {"none", "building", "verifying", "streaming", "failing", "saving",
             "releasing", "ended"}

TypeOK ==
    /\ status \in Status
    /\ owner \in Instance
    /\ listed \in BOOLEAN /\ stopKey \in BOOLEAN
    /\ lease \in Holder \cup {Free}
    /\ up \in [Instance -> {"up", "draining", "drained", "down", "crashed"}]
    /\ call \in [Caller -> CallPC]
    /\ snap \in [Instance -> BOOLEAN]
    /\ stopper \in [Instance -> {"idle", "publish", "mark", "cancel"}]
    /\ stopOwner \in [Instance -> Instance]
    /\ inTasks \in [Instance -> BOOLEAN]
    /\ task \in [Instance -> TaskPC]
    /\ worker \in [Instance -> WorkerPC]
    /\ outcome \in [Instance -> {"none", "cancelled", "lost", "failed"}]
    /\ watcher \in [Instance -> {"none", "polling", "failed"}]

Init ==
    /\ status = "none" /\ listed = FALSE /\ stopKey = FALSE /\ lease = Free
    /\ owner \in Instance
    /\ up = [i \in Instance |-> "up"]
    /\ call = [c \in Caller |-> "idle"]
    /\ snap = [i \in Instance |-> FALSE]
    /\ stopper = [i \in Instance |-> "idle"]
    /\ stopOwner = [i \in Instance |-> i]
    /\ inTasks = [i \in Instance |-> FALSE]
    /\ task = [i \in Instance |-> "none"]
    /\ worker = [i \in Instance |-> "none"]
    /\ outcome = [i \in Instance |-> "none"]
    /\ watcher = [i \in Instance |-> "none"]

Alive(i) == up[i] \notin {"down", "crashed"}
ShuttingDown(i) == up[i] # "up"

\* self._lock of the manager of i is held across awaits only here.
LockHeld(i) ==
    \E r \in {"start", "resume"} : call[<<i, r>>] \in {"verify", "activate", "confirm"}

Streaming(i) == worker[i] = "streaming"

-----------------------------------------------------------------------------
(* Redis commands. *)

Unsnapped == [i \in Instance |-> FALSE]

\* update_status(status, instance_id): an unconditional HSET, which recreates a
\* deleted hash without its id and subreddit.
HSet(s, i) == status' = s /\ owner' = i /\ snap' = Unsnapped

\* _UPDATE_STATUS_IF_OWNER_SCRIPT.
HSetIfOwner(s, i) ==
    IF status # "none" /\ owner = i
      THEN status' = s /\ snap' = Unsnapped
      ELSE UNCHANGED <<status, snap>>

\* _DELETE_STREAM_IF_UNCHANGED_SCRIPT, its comparisons having succeeded.
DeleteEntry ==
    /\ status' = "none" /\ listed' = FALSE /\ stopKey' = FALSE
    /\ snap' = Unsnapped

\* _DELETE_IF_OWNER_SCRIPT of the lock manager.
Freed(h) == IF lease = h THEN Free ELSE lease

\* The coroutine that refers to the token ends without releasing it.
Abandoned(h) == IF lease = h THEN <<h[1], "lost">> ELSE lease

-----------------------------------------------------------------------------
(* start_stream and resume_stream. *)

Step(c, pc) == call' = [call EXCEPT ![c] = pc]

\* POST /streams: registry.create_stream.  (A claimed subreddit answers 409.)
Create(i) ==
    /\ i \in Starters /\ up[i] = "up" /\ call[<<i, "start">>] = "idle"
    /\ ~listed
    /\ listed' = TRUE /\ status' = "starting" /\ owner' = i
    /\ snap' = [Unsnapped EXCEPT ![i] = TRUE]
    /\ Step(<<i, "start">>, "acquire")
    /\ UNCHANGED <<stopKey, lease, up, stops, run>>

\* Only active streams are adopted.
OnlyActiveNeedsReconciliation == status = "active"

\* _needs_reconciliation: active, or starting for 60 s.  A start_stream that is
\* still at work on a stream that old is a slow activation.
NeedsReconciliation ==
    \/ status = "active"
    \/ /\ status = "starting"
       /\ SlowActivation \/ \A i \in Instance : call[<<i, "start">>] = "idle"

\* reconcile_once finds the stream runnable, and resume_stream finds it neither
\* local nor locked.
Reconcile(i) ==
    /\ up[i] = "up" /\ call[<<i, "resume">>] = "idle"
    /\ listed /\ NeedsReconciliation
    /\ ~LockHeld(i) /\ ~inTasks[i]
    /\ lease = Free
    /\ Step(<<i, "resume">>, "acquire")
    /\ UNCHANGED <<redis, up, snap, stops, run>>

\* acquire_lock: SET NX EX.
Acquire(c) ==
    /\ call[c] = "acquire"
    /\ IF lease = Free
         THEN /\ lease' = c
              /\ Step(c, IF c[2] = "start" THEN "enter" ELSE "reread")
              /\ snap' = IF c[2] = "start" THEN [snap EXCEPT ![c[1]] = FALSE] ELSE snap
         ELSE /\ Step(c, IF c[2] = "start" THEN "undo" ELSE "idle")
              /\ UNCHANGED <<lease, snap>>
    /\ UNCHANGED <<status, owner, listed, stopKey, up, stops, run>>

\* A contended start_stream deletes the exact snapshot it created.
UndoCreate(i) ==
    /\ call[<<i, "start">>] = "undo"
    /\ IF snap[i] THEN DeleteEntry ELSE UNCHANGED <<status, listed, stopKey, snap>>
    /\ Step(<<i, "start">>, "idle")
    /\ UNCHANGED <<owner, lease, up, stops, run>>

\* resume_stream re-reads the status after acquiring the lease.
Reread(i) ==
    /\ call[<<i, "resume">>] = "reread"
    /\ Step(<<i, "resume">>,
            IF status \in {"active", "starting"} THEN "stopcheck" ELSE "giveup")
    /\ UNCHANGED <<redis, up, snap, stops, run>>

\* resume_stream: is_stop_requested.
StopCheck(i) ==
    /\ call[<<i, "resume">>] = "stopcheck"
    /\ Step(<<i, "resume">>, IF stopKey THEN "giveup" ELSE "enter")
    /\ UNCHANGED <<redis, up, snap, stops, run>>

\* _start_local_worker that does not look at _shutting_down.
EnterDespiteShutdown(c) ==
    /\ call[c] = "enter" /\ ~LockHeld(c[1])
    /\ Step(c, IF inTasks[c[1]] THEN "giveup" ELSE "verify")
    /\ UNCHANGED <<redis, up, snap, stops, run>>

\* _start_local_worker takes self._lock and looks at _shutting_down and _tasks.
Enter(c) ==
    /\ call[c] = "enter" /\ ~LockHeld(c[1])
    /\ Step(c, IF ShuttingDown(c[1]) \/ inTasks[c[1]] THEN "giveup" ELSE "verify")
    /\ UNCHANGED <<redis, up, snap, stops, run>>

\* The first owns_lock of _start_local_worker.
Verify(c) ==
    /\ call[c] = "verify"
    /\ Step(c, IF lease = c THEN "activate" ELSE "giveup")
    /\ UNCHANGED <<redis, up, snap, stops, run>>

\* update_status("active", self.instance_id).
Activate(c) ==
    /\ call[c] = "activate"
    /\ HSet("active", c[1])
    /\ Step(c, "confirm")
    /\ UNCHANGED <<listed, stopKey, lease, up, stops, run>>

\* create_task(self._run(...)); the task now refers to the token.
Launch(i) ==
    /\ inTasks' = [inTasks EXCEPT ![i] = TRUE]
    /\ task' = [task EXCEPT ![i] = "created"]
    /\ worker' = [worker EXCEPT ![i] = "none"]
    /\ outcome' = [outcome EXCEPT ![i] = "none"]
    /\ watcher' = [watcher EXCEPT ![i] = "none"]
    /\ lease' = <<i, "run">>

\* The second owns_lock of _start_local_worker, then the task; for
\* resume_stream also the finally block, which finds the stream running.
Confirm(c) ==
    /\ call[c] = "confirm"
    /\ IF lease = c
         THEN Launch(c[1]) /\ Step(c, "idle")
         ELSE Step(c, "giveup") /\ UNCHANGED <<lease, run>>
    /\ UNCHANGED <<status, owner, listed, stopKey, up, snap, stops>>

\* A failed start or adoption that does not release.
GiveUpKeepingLease(c) ==
    /\ call[c] = "giveup"
    /\ c[2] = "resume" => ~LockHeld(c[1])
    /\ Step(c, "idle")
    /\ UNCHANGED <<redis, up, snap, stops, run>>

\* The release of a failed start or adoption.  resume_stream does not release
\* when the stream has a local task, even one that holds another token.
GiveUp(c) ==
    /\ call[c] = "giveup"
    /\ c[2] = "resume" => ~LockHeld(c[1])
    /\ lease' = IF c[2] = "resume" /\ inTasks[c[1]] THEN Abandoned(c) ELSE Freed(c)
    /\ Step(c, "idle")
    /\ UNCHANGED <<status, owner, listed, stopKey, up, snap, stops, run>>

\* A Redis call raises, before or after the command took effect.
CallFails(c) ==
    /\ Faults
    /\ \/ /\ call[c] \in {"reread", "stopcheck", "verify", "activate", "confirm"}
          /\ Step(c, "giveup")
          /\ UNCHANGED lease
       \/ /\ call[c] \in {"acquire", "undo", "giveup"}
          /\ Step(c, "idle")
          /\ lease' \in {Abandoned(c)} \cup
                        (IF call[c] = "acquire" /\ lease = Free
                           THEN {<<c[1], "lost">>} ELSE {})
    /\ UNCHANGED <<status, owner, listed, stopKey, up, snap, stops, run>>

-----------------------------------------------------------------------------
(* The runner: runner() of app.py and StreamWorker.run. *)

Worker(i, pc) == worker' = [worker EXCEPT ![i] = pc]
Ends(i, how) == outcome' = [outcome EXCEPT ![i] = how]

\* get_stream_by_subreddit and the StreamWorker constructor.
Build(i) ==
    /\ worker[i] = "building"
    /\ \/ listed /\ Worker(i, "verifying") /\ UNCHANGED <<outcome, lease>>
       \/ /\ ~listed \/ Faults
          /\ Worker(i, "ended") /\ Ends(i, "failed")
          /\ lease' = Abandoned(<<i, "run">>)
    /\ UNCHANGED <<status, owner, listed, stopKey, up, call, snap, stops,
                   inTasks, watcher, task>>

\* A worker that starts to stream without verifying its lease first.
StreamUnverified(i) ==
    /\ worker[i] = "verifying"
    /\ Worker(i, "streaming") /\ UNCHANGED outcome
    /\ UNCHANGED <<redis, up, call, snap, stops, inTasks, watcher, task>>

\* The first _refresh_lock_or_raise of run().
FirstRefresh(i) ==
    /\ worker[i] = "verifying"
    /\ \/ lease = <<i, "run">> /\ Worker(i, "streaming") /\ UNCHANGED outcome
       \/ /\ lease # <<i, "run">> \/ Faults
          /\ Worker(i, "releasing") /\ Ends(i, "lost")
    /\ UNCHANGED <<redis, up, call, snap, stops, inTasks, watcher, task>>

\* _refresh_lock_or_raise fails while streaming: LockLostError.
LoseLock(i) ==
    /\ Faults /\ Streaming(i)
    /\ Worker(i, "saving") /\ Ends(i, "lost")
    /\ UNCHANGED <<redis, up, call, snap, stops, inTasks, watcher, task>>

\* A fatal stream error.  _handle_fetch_exception has written the status if the
\* subreddit is not available; _handle_error is about to write it.
FatalError(i) ==
    /\ Streaming(i)
    /\ HSetIfOwner("error", i) \/ UNCHANGED <<status, snap>>
    /\ Worker(i, "failing") /\ Ends(i, "failed")
    /\ UNCHANGED <<owner, listed, stopKey, lease, up, call, stops, inTasks, watcher, task>>

\* update_status_if_owner("error") of _handle_error, which may raise as well; then
\* run() unwinds without a final checkpoint.
ReportFatal(i) ==
    /\ worker[i] = "failing"
    /\ HSetIfOwner("error", i) \/ (Faults /\ UNCHANGED <<status, snap>>)
    /\ Worker(i, "releasing")
    /\ UNCHANGED <<owner, listed, stopKey, lease, up, call, stops, inTasks, watcher, task,
                   outcome>>

\* run() saved the final checkpoint (or failed to, which it swallows).
Saved(i) ==
    /\ worker[i] = "saving"
    /\ Worker(i, "releasing")
    /\ UNCHANGED <<redis, up, call, snap, stops, inTasks, watcher, task, outcome>>

\* release_lock at the end of run(); an exception is swallowed.
Release(i) ==
    /\ worker[i] = "releasing"
    /\ Worker(i, "ended")
    /\ lease' \in {Freed(<<i, "run">>)} \cup
                  (IF Faults THEN {Abandoned(<<i, "run">>)} ELSE {})
    /\ UNCHANGED <<status, owner, listed, stopKey, up, call, snap, stops,
                   inTasks, watcher, task, outcome>>

\* runner_task.cancel(): CancelledError in run() means final checkpoint and
\* release; in the runner before run(), or in run()'s finally block, it means
\* that nobody releases the lease.
CancelRunner(i) ==
    /\ worker' = [worker EXCEPT ![i] =
          CASE @ \in {"none", "building", "saving", "releasing", "ended"} -> "ended"
            [] @ \in {"streaming", "failing"}                            -> "saving"
            [] @ = "verifying"                                           -> "releasing"]
    /\ outcome' = [outcome EXCEPT ![i] =
                      IF worker[i] = "ended" THEN @ ELSE "cancelled"]
    /\ lease' = IF worker[i] \in {"none", "building", "saving", "releasing"}
                  THEN Abandoned(<<i, "run">>) ELSE lease

-----------------------------------------------------------------------------
(* _run, the task in _tasks. *)

Task(i, pc) == task' = [task EXCEPT ![i] = pc]
Watcher(i, how) == watcher' = [watcher EXCEPT ![i] = how]

\* The first step of the task creates runner_task and stop_watcher.
FirstStep(i) ==
    /\ task[i] = "created"
    /\ Task(i, "waiting") /\ Worker(i, "building") /\ Watcher(i, "polling")
    /\ UNCHANGED <<redis, up, call, snap, stops, inTasks, outcome>>

\* A stop_watcher that polls the status instead of the stop request.
WatcherPollsStatus(i) ==
    /\ task[i] = "waiting" /\ status = "stopping"
    /\ Task(i, "stopping") /\ CancelRunner(i) /\ Watcher(i, "none")
    /\ UNCHANGED <<status, owner, listed, stopKey, up, call, snap, stops, inTasks>>

\* stop_watcher saw the stop request: cancel the runner and await it.
WatcherFires(i) ==
    /\ task[i] = "waiting" /\ stopKey
    /\ Task(i, "stopping") /\ CancelRunner(i) /\ Watcher(i, "none")
    /\ UNCHANGED <<status, owner, listed, stopKey, up, call, snap, stops, inTasks>>

\* stop_watcher raised (its poll of Redis failed).  While _run waits for it or the
\* runner this is its except Exception; later it shows in the finally block.
WatcherFails(i) ==
    /\ Faults /\ watcher[i] = "polling" /\ task[i] \notin {"none", "created"}
    /\ ~(task[i] = "leaving" /\ worker[i] = "ended")
    /\ Task(i, IF task[i] = "waiting" THEN "erring" ELSE task[i])
    /\ Watcher(i, "failed")
    /\ UNCHANGED <<redis, up, call, snap, stops, inTasks, worker, outcome>>

\* The awaited runner is done.  A LockLostError is left to the reconcilers; one
\* raised while _run handles its own cancellation skips that handling.
RunnerDone(i) ==
    /\ worker[i] = "ended"
    /\ \/ /\ task[i] \in {"waiting", "stopping"}
          /\ Task(i, IF outcome[i] = "cancelled" THEN "marking"
                     ELSE IF outcome[i] = "lost" THEN "leaving" ELSE "erring")
       \/ /\ task[i] = "cancelled"
          /\ Task(i, IF outcome[i] = "cancelled" THEN "deciding" ELSE "leaving")
    /\ UNCHANGED <<redis, up, call, snap, stops, inTasks, watcher, worker, outcome>>

\* _handle_runner_cancellation that treats a drain like a stop.
DecideAlwaysStopped(i) ==
    /\ task[i] = "deciding"
    /\ Task(i, "recording")
    /\ UNCHANGED <<redis, up, call, snap, stops, inTasks, watcher, worker, outcome>>

\* _should_preserve_for_failover; an unreadable stop request preserves.
Decide(i) ==
    /\ task[i] = "deciding"
    /\ \/ Task(i, IF ShuttingDown(i) /\ ~stopKey THEN "leaving" ELSE "recording")
       \/ Faults /\ ShuttingDown(i) /\ Task(i, "leaving")
    /\ UNCHANGED <<redis, up, call, snap, stops, inTasks, watcher, worker, outcome>>

\* update_status_if_owner("stopped") after a stop or a cancellation.
MarkStopped(i) ==
    /\ task[i] \in {"marking", "recording"}
    /\ HSetIfOwner("stopped", i)
    /\ Task(i, "leaving")
    /\ UNCHANGED <<owner, listed, stopKey, lease, up, call, stops, inTasks, watcher,
                   worker, outcome>>

\* update_status_if_owner("error"); the finally block then cancels a runner
\* that still runs.
MarkError(i) ==
    /\ task[i] = "erring"
    /\ HSetIfOwner("error", i)
    /\ Task(i, "leaving") /\ CancelRunner(i)
    /\ UNCHANGED <<owner, listed, stopKey, up, call, stops, inTasks, watcher>>

\* The status update raises.
MarkFails(i) ==
    /\ Faults
    /\ task[i] \in {"marking", "recording", "erring"}
    /\ Task(i, IF task[i] = "marking" THEN "erring" ELSE "leaving")
    /\ CancelRunner(i)
    /\ UNCHANGED <<status, owner, listed, stopKey, up, call, snap, stops, inTasks, watcher>>

\* A finally block that removes the entry without waiting for the runner.
LeaveEarly(i) ==
    /\ task[i] \in {"marking", "erring", "leaving"} /\ ~LockHeld(i)
    /\ inTasks' = [inTasks EXCEPT ![i] = FALSE]
    /\ UNCHANGED <<redis, up, call, snap, stops, task, worker, outcome, watcher>>

\* The finally block cancels and awaits stop_watcher and removes the entry of _tasks
\* under self._lock.  The exception of a watcher that has failed is raised again by
\* that await, and the entry stays.
Leave(i) ==
    /\ task[i] = "leaving" /\ worker[i] = "ended"
    /\ \/ watcher[i] = "failed" /\ UNCHANGED inTasks
       \/ watcher[i] # "failed" /\ ~LockHeld(i) /\ inTasks' = [inTasks EXCEPT ![i] = FALSE]
    /\ Task(i, "none") /\ Worker(i, "none") /\ Ends(i, "none") /\ Watcher(i, "none")
    /\ UNCHANGED <<redis, up, call, snap, stops>>

\* task.cancel() of stop_stream and stop_all.  A task cancelled before its first
\* step never enters its try block: the entry and the lease stay.  One cancelled
\* in its finally block while it waits for self._lock, which the activation of
\* another stream may hold, leaves the entry, too.
CancelTask(i) ==
    CASE task[i] = "none" ->
           UNCHANGED <<lease, run>>
      [] task[i] = "created" ->
           /\ Task(i, "none") /\ lease' = Abandoned(<<i, "run">>)
           /\ UNCHANGED <<inTasks, watcher, worker, outcome>>
      [] task[i] = "waiting" ->
           Task(i, "cancelled") /\ CancelRunner(i) /\ UNCHANGED <<inTasks, watcher>>
      [] task[i] = "leaving" /\ worker[i] = "ended" ->
           /\ UNCHANGED <<task, watcher>> \/ (Task(i, "none") /\ Watcher(i, "none"))
           /\ UNCHANGED <<lease, inTasks, worker, outcome>>
      [] task[i] \in {"stopping", "cancelled"} \/ (task[i] = "leaving" /\ worker[i] # "ended") ->
           CancelRunner(i) /\ UNCHANGED <<inTasks, watcher, task>>
      [] task[i] = "marking" ->
           Task(i, "deciding") /\ UNCHANGED <<lease, inTasks, watcher, worker, outcome>>
      [] task[i] \in {"deciding", "recording", "erring"} ->
           Task(i, "leaving") /\ CancelRunner(i) /\ UNCHANGED <<inTasks, watcher>>

-----------------------------------------------------------------------------
(* stop_stream. *)

Stopper(i, pc) == stopper' = [stopper EXCEPT ![i] = pc]

\* POST /streams/{id}/stop: the entry exists and is not dead; request_stop reads
\* the instance_id.
StopBegins(i) ==
    /\ i \in Stoppers /\ up[i] = "up" /\ stopper[i] = "idle"
    /\ status \notin {"none"} \cup Dead
    /\ Stopper(i, "publish")
    /\ stopOwner' = [stopOwner EXCEPT ![i] = owner]
    /\ UNCHANGED <<redis, up, call, snap, run>>

\* request_stop sets the stop-request key.
Publish(i) ==
    /\ stopper[i] = "publish"
    /\ Stopper(i, "mark")
    /\ stopKey' = TRUE
    /\ UNCHANGED <<status, owner, listed, lease, up, call, snap, stopOwner, run>>

\* request_stop: update_status("stopping", the instance_id read before).
MarkStopping(i) ==
    /\ stopper[i] = "mark"
    /\ Stopper(i, "cancel")
    /\ HSet("stopping", stopOwner[i])
    /\ UNCHANGED <<listed, stopKey, lease, up, call, stopOwner, run>>

\* stop_stream cancels the local task, if there is one.
StopCancels(i) ==
    /\ stopper[i] = "cancel" /\ ~LockHeld(i)
    /\ Stopper(i, "idle")
    /\ IF inTasks[i] THEN CancelTask(i) ELSE UNCHANGED <<lease, run>>
    /\ stopOwner' = [stopOwner EXCEPT ![i] = i]
    /\ UNCHANGED <<status, owner, listed, stopKey, up, call, snap>>

-----------------------------------------------------------------------------
(* Shared state upkeep. *)

\* Finalizing to a status that the registry does not use.
FinalizeInactive(i) ==
    /\ up[i] = "up" /\ listed /\ status = "stopping" /\ lease = Free
    /\ status' = "inactive" /\ snap' = Unsnapped
    /\ UNCHANGED <<owner, listed, stopKey, lease, up, call, stops, run>>

\* reconcile_once: finalize_stop_if_unowned.
Finalize(i) ==
    /\ up[i] = "up" /\ listed /\ status = "stopping" /\ lease = Free
    /\ status' = "stopped" /\ snap' = Unsnapped
    /\ UNCHANGED <<owner, listed, stopKey, lease, up, call, stops, run>>

\* DeadStreamCleanup deletes the dead snapshot that it saw.
Cleanup ==
    /\ Cleaning /\ listed /\ status \in Dead
    /\ DeleteEntry
    /\ UNCHANGED <<owner, lease, up, call, stops, run>>

\* The lease expires: nobody refreshes it, or an activation or a shutdown of a
\* worker outlasts it.  Never under a streaming worker (see Lease).
Expire ==
    /\ lease # Free
    /\ lease[2] = "lost" \/ SlowActivation
    /\ ~(lease[2] = "run" /\ Streaming(lease[1]))
    /\ lease' = Free
    /\ UNCHANGED <<status, owner, listed, stopKey, up, call, snap, stops, run>>

-----------------------------------------------------------------------------
(* Shutdown and crash of an instance. *)

\* The deployment keeps at least one instance healthy.
AnotherIsUp(i) == \E j \in Instance \ {i} : up[j] = "up"

\* stop_all sets _shutting_down and cancels the reconciler, whose resume_stream
\* then runs its finally block, if it reached it.
StopAllBegins(i) ==
    /\ i \in Drainable /\ up[i] = "up" /\ AnotherIsUp(i)
    /\ up' = [up EXCEPT ![i] = "draining"]
    /\ LET c == <<i, "resume">> IN
         /\ Step(c, IF call[c] \in {"idle", "acquire", "giveup"} THEN "idle" ELSE "giveup")
         /\ \/ lease' = IF call[c] = "giveup" THEN Abandoned(c) ELSE lease
            \/ call[c] = "acquire" /\ lease = Free /\ lease' = <<i, "lost">>
    /\ UNCHANGED <<status, owner, listed, stopKey, snap, stops, run>>

\* stop_all cancels the local tasks once the reconciler has ended.
StopAllCancels(i) ==
    /\ up[i] = "draining" /\ call[<<i, "resume">>] = "idle" /\ ~LockHeld(i)
    /\ up' = [up EXCEPT ![i] = "drained"]
    /\ IF inTasks[i] THEN CancelTask(i) ELSE UNCHANGED <<lease, run>>
    /\ UNCHANGED <<status, owner, listed, stopKey, call, snap, stops>>

\* All tasks are gathered, open requests are answered, the process exits.
Exit(i) ==
    /\ up[i] = "drained" /\ task[i] = "none"
    /\ call[<<i, "start">>] = "idle" /\ stopper[i] = "idle"
    /\ up' = [up EXCEPT ![i] = "down"]
    /\ inTasks' = [inTasks EXCEPT ![i] = FALSE]
    /\ UNCHANGED <<redis, call, snap, stops, task, worker, outcome, watcher>>

\* The process dies.
Crash(i) ==
    /\ i \in Crashable /\ Alive(i)
    /\ AnotherIsUp(i)
    /\ up' = [up EXCEPT ![i] = "crashed"]
    /\ call' = [c \in Caller |-> IF c[1] = i THEN "idle" ELSE call[c]]
    /\ lease' = IF lease # Free /\ lease[1] = i THEN <<i, "lost">> ELSE lease
    /\ Stopper(i, "idle") /\ stopOwner' = [stopOwner EXCEPT ![i] = i]
    /\ snap' = [snap EXCEPT ![i] = FALSE]
    /\ inTasks' = [inTasks EXCEPT ![i] = FALSE]
    /\ Task(i, "none") /\ Worker(i, "none") /\ Ends(i, "none") /\ Watcher(i, "none")
    /\ UNCHANGED <<status, owner, listed, stopKey>>

-----------------------------------------------------------------------------

CallStep(c) ==
    \/ Acquire(c) \/ Enter(c) \/ Verify(c) \/ Activate(c) \/ Confirm(c) \/ GiveUp(c)

ResumeStep(i) == Reread(i) \/ StopCheck(i)

WorkerStep(i) ==
    Build(i) \/ FirstRefresh(i) \/ ReportFatal(i) \/ Saved(i) \/ Release(i)

TaskStep(i) ==
    \/ FirstStep(i) \/ WatcherFires(i) \/ RunnerDone(i) \/ Decide(i)
    \/ MarkStopped(i) \/ MarkError(i) \/ Leave(i)

StopStep(i) == Publish(i) \/ MarkStopping(i) \/ StopCancels(i)

Fault(i) == LoseLock(i) \/ FatalError(i) \/ WatcherFails(i) \/ MarkFails(i)

DrainStep(i) == StopAllCancels(i) \/ Exit(i)

Next ==
    \/ \E c \in Caller : CallStep(c) \/ CallFails(c)
    \/ \E i \in Instance :
         \/ Create(i) \/ UndoCreate(i) \/ Reconcile(i) \/ ResumeStep(i)
         \/ WorkerStep(i) \/ TaskStep(i) \/ Fault(i)
         \/ StopBegins(i) \/ StopStep(i)
         \/ StopAllBegins(i) \/ DrainStep(i) \/ Crash(i)
         \/ Finalize(i)
    \/ Cleanup
    \/ Expire

Spec == Init /\ [][Next]_vars

\* Event loops run what is ready, Redis answers, sweeps recur, TTLs run down.
\* Requests, failures, shutdowns and crashes happen or not.
Fairness ==
    /\ \A c \in Caller : WF_vars(CallStep(c))
    /\ \A i \in Instance :
         /\ WF_vars(UndoCreate(i)) /\ WF_vars(Reconcile(i)) /\ WF_vars(ResumeStep(i))
         /\ WF_vars(WorkerStep(i)) /\ WF_vars(TaskStep(i)) /\ WF_vars(StopStep(i))
         /\ WF_vars(DrainStep(i)) /\ WF_vars(Finalize(i))
    /\ WF_vars(Expire)

FairSpec == Spec /\ Fairness

-----------------------------------------------------------------------------
(* Properties. *)

\* "exactly one replica adopts the stream": two instances never stream it at
\* the same time, and the one that does holds the lease.
OneStreamer == \A i \in Instance : Streaming(i) => lease = <<i, "run">>

\* _tasks never forgets a task that still runs: start_stream and resume_stream
\* of the same instance rely on it to not start a second one.
LiveTaskIsRegistered == \A i \in Instance : task[i] # "none" => inTasks[i]

\* Every way out of a start, an adoption or a run gives the lease back, unless it
\* dies, is cancelled or fails on that way, or finds its stream running already: a
\* lease that is not lost to its TTL has a coroutine at work that will release it.
HolderIsAtWork ==
    /\ \A c \in Caller : lease = c => call[c] \notin {"idle", "acquire", "undo"}
    /\ \A i \in Instance :
         lease = <<i, "run">> => task[i] = "created" \/ worker[i] \notin {"none", "ended"}

\* "A graceful instance shutdown releases ownership without changing the user's
\* intent": the stream becomes stopped only after somebody asked for it.
StoppedOnlyOnRequest == [][status' = "stopped" /\ status # "stopped" => stopKey]_vars

\* "Drain local workers", before the final flush of the checkpoints: stop_all looks
\* at _tasks once, so after that no request that was under way may start a task,
\* and no runner may outlive its task.
StopAllIsFinal ==
    [][\A i \in Instance :
          up[i] \in {"drained", "down"} /\ task[i] = "none" =>
              task'[i] = "none" /\ worker'[i] \in {"none", "ended"}]_vars

\* "Adopt runnable streams": a stream that should run gets a worker again.
RunnableIsAdopted ==
    (listed /\ status \in {"starting", "active"} /\ ~stopKey)
        ~> \/ \E i \in Instance : Streaming(i)
           \/ status \notin {"starting", "active"}
           \/ stopKey

\* A task that has ended and is still in _tasks: cancelled before its first step, or
\* cut short in its finally block.
Forgotten(i) == inTasks[i] /\ task[i] = "none"

\* "finish stops abandoned by dead owners": a requested stop is completed, unless the
\* task that should have seen the request is a forgotten one.
StopCompletes ==
    (stopKey /\ listed)
        ~> \/ status \in Dead \cup {"none"} \/ ~stopKey
           \/ \E i \in Instance : Forgotten(i)

\* The same while every instance stays up: whatever writes of start, resume and
\* stop cross each other, the owner's watcher sees the stop request, or the task is
\* forgotten.
StopCompletesWhileAllUp ==
    (stopKey /\ listed)
        ~> \/ status \in Dead \cup {"none"} \/ ~stopKey
           \/ \E i \in Instance : Forgotten(i) \/ up[i] # "up"
=============================================================================
