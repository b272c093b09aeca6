------------------------------- MODULE Lease -------------------------------
(* The Redis lease on one subreddit and the worker loop that keeps it alive:
   stream/lock.py (DistributedLockManager) and the lease half of
   stream/worker.py (StreamWorker.run, _lock_refresh_loop,
   _refresh_lock_or_raise).

   Time is discrete.  Redis counts the key's TTL down from the moment it
   EXECUTES a command; a worker counts its sleeps and timeouts from the moment
   it RECEIVES an answer.  A command may be executed late, more than once (the
   client library retries a timed-out command) or after the worker that sent it
   has given up; an answer may be late or lost.

   A member of Token is one value of f"{instance_id}:{uuid4()}": every
   acquisition draws a fresh one, so a token names one worker attempt.        *)
EXTENDS Naturals

CONSTANTS
    Token,           \* the ownership tokens that acquire_lock may generate
    NoToken,         \* the lock key does not exist
    TTL,             \* LEASE_TTL_SECONDS, StreamWorker.lock_ttl
    Interval,        \* StreamWorker.lock_refresh_interval
    RefreshTimeout,  \* StreamWorker.lock_refresh_timeout
    HeartbeatMax     \* the longest registry.heartbeat call (the code sets none)

ASSUME NoTokenAssumption == NoToken \notin Token

ASSUME TimingAssumption ==
    /\ TTL \in Nat /\ TTL > 0
    /\ Interval \in Nat
    /\ RefreshTimeout \in Nat
    /\ HeartbeatMax \in Nat

\* A refresh that Redis executes at once but answers at the last moment, the
\* heartbeat after it, the sleep, and a refresh that is never answered all fit
\* in one TTL.
RefreshBudget == Interval + 2 * RefreshTimeout + HeartbeatMax < TTL

VARIABLES
    lease,      \* value of stream:lock:{subreddit}
    leaseLeft,  \* its remaining time to live
    pending,    \* commands that Redis may still execute: <<token, operation>>
    phase,      \* where the attempt of each token is in its life
    clock,      \* time since the current await of each attempt began
    reply       \* answer of Redis to the refresh being awaited

vars == <<lease, leaseLeft, pending, phase, clock, reply>>

Op == {"refresh", "release"}

Phase == {"fresh",       \* token not generated yet
          "activating",  \* lease acquired, worker.run not entered
          "verifying",   \* the first _refresh_lock_or_raise of run()
          "announcing",  \* the heartbeat of that first refresh
          "sleeping",    \* stream loop runs, refresher sleeps
          "refreshing",  \* stream loop runs, refresher awaits refresh_lock
          "reporting",   \* stream loop runs, refresher awaits the heartbeat
          "draining",    \* stream loop told to stop, not stopped yet
          "saving",      \* stream loop gone, final checkpoint
          "releasing",   \* release_lock sent
          "ended"}       \* attempt over: returned, raised or process dead

Awaiting == {"verifying", "refreshing"}

\* The phases in which the stream loop may consume and produce comments.
StreamingPhase == {"sleeping", "refreshing", "reporting", "draining"}

Streaming(t) == phase[t] \in StreamingPhase

TypeOK ==
    /\ lease \in Token \cup {NoToken}
    /\ leaseLeft \in 0..TTL
    /\ pending \subseteq Token \X Op
    /\ phase \in [Token -> Phase]
    /\ clock \in [Token -> Nat]
    /\ reply \in [Token -> {"none", "yes", "no"}]

Init ==
    /\ lease = NoToken
    /\ leaseLeft = 0
    /\ pending = {}
    /\ phase = [t \in Token |-> "fresh"]
    /\ clock = [t \in Token |-> 0]
    /\ reply = [t \in Token |-> "none"]

Goto(t, p) ==
    /\ phase' = [phase EXCEPT ![t] = p]
    /\ clock' = [clock EXCEPT ![t] = 0]

-----------------------------------------------------------------------------
(* Redis executes a command. *)

\* A lock held under a key that exists is still granted (SET without NX).
AcquireWithoutNX(t) ==
    /\ phase[t] = "fresh"
    /\ lease' = t
    /\ leaseLeft' = TTL
    /\ Goto(t, "activating")
    /\ UNCHANGED <<pending, reply>>

\* SET key token NX EX ttl.  A contended SET answers nil and changes nothing.
Acquire(t) ==
    /\ phase[t] = "fresh"
    /\ lease = NoToken
    /\ lease' = t
    /\ leaseLeft' = TTL
    /\ Goto(t, "activating")
    /\ UNCHANGED <<pending, reply>>

Answer(t, r) ==
    reply' = IF phase[t] \in Awaiting THEN [reply EXCEPT ![t] = r] ELSE reply

\* The time to live handed to EXPIRE in another unit than seconds.
ExecuteRefreshInMilliseconds(t) ==
    /\ <<t, "refresh">> \in pending
    /\ pending' = pending \ {<<t, "refresh">>}
    /\ IF lease = t
         THEN leaseLeft' = 1000 * TTL /\ Answer(t, "yes")
         ELSE UNCHANGED leaseLeft /\ Answer(t, "no")
    /\ UNCHANGED <<lease, phase, clock>>

\* _REFRESH_IF_OWNER_SCRIPT, possibly long after the worker stopped waiting.
ExecuteRefresh(t) ==
    /\ <<t, "refresh">> \in pending
    /\ pending' = pending \ {<<t, "refresh">>}
    /\ IF lease = t
         THEN leaseLeft' = TTL /\ Answer(t, "yes")
         ELSE UNCHANGED leaseLeft /\ Answer(t, "no")
    /\ UNCHANGED <<lease, phase, clock>>

\* DEL of the key, without comparing the token.
ExecuteReleaseOfAnyOwner(t) ==
    /\ <<t, "release">> \in pending
    /\ pending' = pending \ {<<t, "release">>}
    /\ lease' = NoToken
    /\ leaseLeft' = 0
    /\ UNCHANGED <<phase, clock, reply>>

\* _DELETE_IF_OWNER_SCRIPT, possibly after the worker stopped waiting.
ExecuteRelease(t) ==
    /\ <<t, "release">> \in pending
    /\ pending' = pending \ {<<t, "release">>}
    /\ IF lease = t
         THEN lease' = NoToken /\ leaseLeft' = 0
         ELSE UNCHANGED <<lease, leaseLeft>>
    /\ UNCHANGED <<phase, clock, reply>>

-----------------------------------------------------------------------------
(* The worker. *)

SendRefresh(t) ==
    /\ pending' = pending \cup {<<t, "refresh">>}
    /\ reply' = [reply EXCEPT ![t] = "none"]

\* Activation succeeded and the runner entered worker.run(), which verifies the
\* lease before it starts the stream loop.
EnterRun(t) ==
    /\ phase[t] = "activating"
    /\ Goto(t, "verifying")
    /\ SendRefresh(t)
    /\ UNCHANGED <<lease, leaseLeft>>

\* The refresher's sleep is over.
RefresherWakes(t) ==
    /\ phase[t] = "sleeping"
    /\ clock[t] = Interval
    /\ Goto(t, "refreshing")
    /\ SendRefresh(t)
    /\ UNCHANGED <<lease, leaseLeft>>

\* The client library drops the connection of a timed-out command and sends
\* the command again; the old one may still be executed.
Resend(t) ==
    /\ phase[t] \in Awaiting
    /\ SendRefresh(t)
    /\ UNCHANGED <<lease, leaseLeft, phase, clock>>

\* refresh_lock returned True: the heartbeat follows.
RefreshSucceeds(t) ==
    /\ phase[t] \in Awaiting
    /\ reply[t] = "yes"
    /\ Goto(t, IF phase[t] = "verifying" THEN "announcing" ELSE "reporting")
    /\ UNCHANGED <<lease, leaseLeft, pending, reply>>

\* A refresher that logs a failed refresh and carries on.
RefreshFailsOpen(t) ==
    /\ phase[t] \in Awaiting
    /\ Goto(t, IF phase[t] = "verifying" THEN "announcing" ELSE "reporting")
    /\ UNCHANGED <<lease, leaseLeft, pending, reply>>

\* LockLostError: not the owner, the timeout, or any exception from Redis, which
\* may come at any time and after the command was executed.  run() has started
\* no stream loop when its first refresh fails; otherwise it must stop the loop.
RefreshFails(t) ==
    /\ phase[t] \in Awaiting
    /\ IF phase[t] = "verifying"
         THEN Goto(t, "releasing") /\ pending' = pending \cup {<<t, "release">>}
         ELSE Goto(t, "draining") /\ UNCHANGED pending
    /\ UNCHANGED <<lease, leaseLeft, reply>>

\* The heartbeat returned or raised (non-fatal).  After the first one run()
\* starts the stream loop and the refresher, which sleeps first.
HeartbeatReturns(t) ==
    /\ phase[t] \in {"announcing", "reporting"}
    /\ Goto(t, "sleeping")
    /\ UNCHANGED <<lease, leaseLeft, pending, reply>>

\* The stream loop ended (fatal error) or run() was cancelled while streaming.
StreamEnds(t) ==
    /\ phase[t] \in {"sleeping", "refreshing", "reporting"}
    /\ Goto(t, "draining")
    /\ UNCHANGED <<lease, leaseLeft, pending, reply>>

\* run() cancelled during its first refresh or heartbeat: straight to release.
CancelledEarly(t) ==
    /\ phase[t] \in {"verifying", "announcing"}
    /\ Goto(t, "releasing")
    /\ pending' = pending \cup {<<t, "release">>}
    /\ UNCHANGED <<lease, leaseLeft, reply>>

\* run() gathered the cancelled stream_task and lock_task.
StreamGathered(t) ==
    /\ phase[t] = "draining"
    /\ Goto(t, "saving")
    /\ UNCHANGED <<lease, leaseLeft, pending, reply>>

\* The final checkpoint is written (or failed) and release_lock is called; so
\* is it when start_stream or resume_stream gives an activation up.
ReleaseLock(t) ==
    /\ phase[t] \in {"activating", "saving"}
    /\ Goto(t, "releasing")
    /\ pending' = pending \cup {<<t, "release">>}
    /\ UNCHANGED <<lease, leaseLeft, reply>>

\* release_lock answered, or raised and run() swallowed the error.
RunReturns(t) ==
    /\ phase[t] = "releasing"
    /\ Goto(t, "ended")
    /\ UNCHANGED <<lease, leaseLeft, pending, reply>>

\* The process dies, the runner fails before worker.run(), or a second
\* cancellation cuts the finally block short: nobody releases the lease.
Vanish(t) ==
    /\ phase[t] \notin {"fresh", "ended"}
    /\ Goto(t, "ended")
    /\ UNCHANGED <<lease, leaseLeft, pending, reply>>

-----------------------------------------------------------------------------
(* Time. *)

\* How long an await of an attempt may last.  Nothing bounds an activation, a
\* final checkpoint or a release; cancelled tasks end before time passes.
MayWait(t) ==
    /\ phase[t] \in Awaiting => clock[t] < RefreshTimeout
    /\ phase[t] = "sleeping" => clock[t] < Interval
    /\ phase[t] \in {"announcing", "reporting"} => clock[t] < HeartbeatMax
    /\ phase[t] # "draining"

Timed(t) == phase[t] \in Awaiting \cup {"sleeping", "announcing", "reporting"}

\* A lock set without EX never expires.
TickWithoutExpiry ==
    /\ \A t \in Token : MayWait(t)
    /\ clock' = [t \in Token |-> IF Timed(t) THEN clock[t] + 1 ELSE clock[t]]
    /\ UNCHANGED <<lease, leaseLeft, pending, phase, reply>>

\* Time passes and Redis drops a key whose time to live is over.
Tick ==
    /\ \A t \in Token : MayWait(t)
    /\ clock' = [t \in Token |-> IF Timed(t) THEN clock[t] + 1 ELSE clock[t]]
    /\ leaseLeft' = IF leaseLeft = 0 THEN 0 ELSE leaseLeft - 1
    /\ lease' = IF leaseLeft \in {0, 1} THEN NoToken ELSE lease
    /\ UNCHANGED <<pending, phase, reply>>

Server(t) == Acquire(t) \/ ExecuteRefresh(t) \/ ExecuteRelease(t)

Worker(t) ==
    \/ EnterRun(t) \/ RefresherWakes(t) \/ Resend(t)
    \/ RefreshSucceeds(t) \/ RefreshFails(t) \/ HeartbeatReturns(t)
    \/ StreamEnds(t) \/ CancelledEarly(t) \/ StreamGathered(t)
    \/ ReleaseLock(t) \/ RunReturns(t) \/ Vanish(t)

Next == Tick \/ \E t \in Token : Server(t) \/ Worker(t)

\* Time passes, and the event loop runs what is due.
Fairness ==
    /\ WF_vars(Tick)
    /\ \A t \in Token :
         /\ WF_vars(RefresherWakes(t))
         /\ WF_vars(RefreshFails(t))
         /\ WF_vars(HeartbeatReturns(t))
         /\ WF_vars(StreamGathered(t))

Spec == Init /\ [][Next]_vars

FairSpec == Spec /\ Fairness

-----------------------------------------------------------------------------
(* Properties. *)

\* worker.run fails closed: while an attempt's stream loop may still consume or
\* produce, Redis holds the lease under exactly its token, however late its
\* refreshes were executed, answered or lost.
StreamingOwnsLease == \A t \in Token : Streaming(t) => lease = t

\* "Prevents multiple instances from starting the same stream": two attempts
\* never stream the subreddit at the same time.
MutualExclusion == \A s, t \in Token : Streaming(s) /\ Streaming(t) => s = t

\* A command that Redis executes late never disturbs a successor's lease: a
\* lease ends by its own expiry or by a release its own attempt asked for, and
\* its time to live is only extended by its own attempt.
OnlyOwnerTouchesLease ==
    [][\A t \in Token : lease = t =>
          /\ lease' # t => \/ leaseLeft = 1
                           \/ phase[t] \in {"releasing", "ended"}
          /\ leaseLeft' > leaseLeft => <<t, "refresh">> \in pending]_vars

TurnOf(t) ==
    IF Streaming(t) THEN "producing"
    ELSE IF phase[t] \in {"saving", "releasing", "ended"} THEN "over"
    ELSE "waiting"

Turns == INSTANCE ExclusiveTurns WITH turn <- [t \in Token |-> TurnOf(t)]

\* The lease protocol implements its abstract specification: producing turns of
\* the attempts never overlap, and an attempt that lost its lease or stopped
\* never goes back to producing.
TurnsAreExclusive == Turns!Spec

\* The lease of an attempt that ended without releasing it (crash, lost
\* command, second cancellation) still becomes free for a takeover.
OrphanedLeaseIsFreed ==
    \A t \in Token : phase[t] = "ended" ~> lease # t
=============================================================================
