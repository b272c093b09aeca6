---------------------------- MODULE CircuitBreaker ----------------------------
(* The circuit breaker of one StreamWorker (stream/circuit_breaker.py) together
   with the retry loop that drives it: StreamWorker._stream_loop, the calls of
   record_success in _fetch_and_process_comments, _handle_error and the error
   classes of stream/error_handler.py.

   Time is counted in ticks, Res to the second, because a rejected caller is
   told to wait a whole number of seconds.                                    *)
EXTENDS Naturals

CONSTANTS
    Threshold,         \* failure_threshold
    RecoveryTimeout,   \* recovery_timeout, seconds
    SuccessThreshold,  \* success_threshold
    Multiplier,        \* backoff_multiplier
    MaxBackoff,        \* max_backoff, seconds
    Suggested,         \* get_backoff_duration by class of error, seconds
    Res,               \* ticks per second
    MaxFailures        \* bound: failed calls

ASSUME BreakerAssumption ==
    /\ {Threshold, RecoveryTimeout, SuccessThreshold, Multiplier, MaxBackoff, Res}
          \subseteq Nat \ {0}
    /\ RecoveryTimeout <= MaxBackoff
    /\ MaxFailures \in Nat
    /\ Suggested \in [{"transient", "rateLimited", "fatal"} -> Nat]

VARIABLES
    state,         \* CircuitState
    failureCount,  \* failure_count
    successCount,  \* success_count
    backoff,       \* backoff_seconds
    elapsed,       \* ticks since last_failure_time, up to MaxBackoff seconds
    loop,          \* place of _stream_loop in the code
    left,          \* ticks that its asyncio.sleep has to go
    rejected,      \* history: calls rejected in a row
    streak,        \* history: calls failed since Reddit last made progress
    failures       \* failed calls so far

breaker == <<state, failureCount, successCount, backoff>>
history == <<rejected, streak, failures>>
vars == <<breaker, elapsed, loop, left, history>>

ErrorClass == DOMAIN Suggested

AtMost(n, bound) == IF n <= bound THEN n ELSE bound
AtLeast(n, bound) == IF n >= bound THEN n ELSE bound

TypeOK ==
    /\ state \in {"closed", "open", "half_open"}
    /\ failureCount \in 0..MaxFailures
    /\ successCount \in 0..SuccessThreshold
    /\ backoff \in RecoveryTimeout..MaxBackoff
    /\ elapsed \in 0..MaxBackoff * Res
    /\ loop \in {"calling", "rejecting", "running", "sleeping", "abandoned"}
    /\ left \in Nat
    /\ {rejected, streak, failures} \subseteq Nat

Init ==
    /\ state = "closed" /\ failureCount = 0 /\ successCount = 0
    /\ backoff = RecoveryTimeout
    /\ elapsed = 0
    /\ loop = "calling" /\ left = 0
    /\ rejected = 0 /\ streak = 0 /\ failures = 0

\* CircuitBreaker.call up to the wrapped call: an open circuit lets a call
\* through once the backoff is over (_should_attempt_reset).
Call ==
    /\ loop = "calling"
    /\ IF state = "open" /\ elapsed < backoff * Res
         THEN loop' = "rejecting" /\ UNCHANGED <<state, successCount, rejected>>
         ELSE /\ loop' = "running" /\ rejected' = 0
              /\ IF state = "open"
                   THEN state' = "half_open" /\ successCount' = 0
                   ELSE UNCHANGED <<state, successCount>>
    /\ UNCHANGED <<failureCount, backoff, elapsed, left, streak, failures>>

\* Rounding the rest of the backoff down.
RetryAfterRoundedDown == IF elapsed >= backoff * Res THEN 0 ELSE (backoff * Res - elapsed) \div Res

\* _time_until_retry: whole seconds, rounded up.
RetryAfter ==
    IF elapsed >= backoff * Res THEN 0
    ELSE (backoff * Res - elapsed + Res - 1) \div Res

\* The call raises CircuitOpenError, which counts as no failure, and
\* _handle_error sleeps for its retry_after.  The clock may move between Call
\* and here.
Reject ==
    /\ loop = "rejecting"
    /\ loop' = "sleeping" /\ left' = RetryAfter * Res
    /\ rejected' = rejected + 1
    /\ UNCHANGED <<breaker, elapsed, streak, failures>>

\* Progress that is not reported to the breaker.
ProgressUnreported ==
    /\ loop = "running"
    /\ streak' = 0
    /\ UNCHANGED <<breaker, elapsed, loop, left, rejected, failures>>

\* Progress that leaves the failures counted so far.
ProgressKeepsFailures ==
    /\ loop = "running"
    /\ IF state = "half_open"
         THEN /\ successCount' = successCount + 1
              /\ IF successCount + 1 >= SuccessThreshold
                   THEN state' = "closed" /\ backoff' = RecoveryTimeout
                   ELSE UNCHANGED <<state, backoff>>
         ELSE UNCHANGED <<state, successCount, backoff>>
    /\ streak' = 0
    /\ UNCHANGED <<failureCount, elapsed, loop, left, rejected, failures>>

\* Reddit yields a comment: record_success from inside the running call.
Progress ==
    /\ loop = "running"
    /\ failureCount' = 0
    /\ IF state = "half_open"
         THEN /\ successCount' = successCount + 1
              /\ IF successCount + 1 >= SuccessThreshold
                   THEN state' = "closed" /\ backoff' = RecoveryTimeout
                   ELSE UNCHANGED <<state, backoff>>
         ELSE UNCHANGED <<state, successCount, backoff>>
    /\ streak' = 0
    /\ UNCHANGED <<elapsed, loop, left, rejected, failures>>

\* A backoff without a ceiling.
UncappedBackoff(e) == AtLeast(backoff * Multiplier, Suggested[e])

\* Only the error's suggestion, whatever the backoff was before.
SuggestedBackoff(e) == AtLeast(AtMost(Suggested[e], MaxBackoff), RecoveryTimeout)

\* The new backoff_seconds of _record_failure when the circuit opens.
NextBackoff(e) == AtMost(AtLeast(backoff * Multiplier, Suggested[e]), MaxBackoff)

\* The call raises: _record_failure, then _handle_error abandons the stream or
\* sleeps for the suggested time.
Fail(e) ==
    /\ loop = "running" /\ failures < MaxFailures
    /\ failureCount' = failureCount + 1 /\ successCount' = 0 /\ elapsed' = 0
    /\ IF state = "half_open" \/ failureCount + 1 >= Threshold
         THEN state' = "open" /\ backoff' = NextBackoff(e)
         ELSE UNCHANGED <<state, backoff>>
    /\ IF e = "fatal"
         THEN loop' = "abandoned" /\ left' = 0
         ELSE loop' = "sleeping" /\ left' = Suggested[e] * Res
    /\ failures' = failures + 1 /\ streak' = streak + 1
    /\ UNCHANGED rejected

\* The sleep is over, at its deadline or later.
Wake ==
    /\ loop = "sleeping" /\ left = 0
    /\ loop' = "calling"
    /\ UNCHANGED <<breaker, elapsed, left, history>>

\* Time passes.
Tick ==
    /\ elapsed < MaxBackoff * Res \/ left > 0
    /\ elapsed' = AtMost(elapsed + 1, MaxBackoff * Res)
    /\ left' = IF left > 0 THEN left - 1 ELSE 0
    /\ UNCHANGED <<breaker, loop, history>>

Next ==
    \/ Call \/ Reject \/ Progress \/ Wake \/ Tick
    \/ \E e \in ErrorClass : Fail(e)

Spec == Init /\ [][Next]_vars

\* The event loop runs what is ready and time passes.  WF_vars(Progress): while
\* it is reachable, Reddit yields comments.
Fairness ==
    /\ WF_vars(Call) /\ WF_vars(Reject) /\ WF_vars(Wake) /\ WF_vars(Tick)
    /\ WF_vars(Progress)

FairSpec == Spec /\ Fairness

-----------------------------------------------------------------------------

\* "Round up so callers never wake and spin while a fractional second of the
\* recovery window remains": a caller that slept for retry_after gets through.
NeverRejectedTwice == rejected <= 1

\* Reporting progress from inside a call that "normally runs forever" clears the
\* failure history: the circuit opens only after Threshold failures without
\* progress, or when a recovery attempt fails.
OpensOnConsecutiveFailures ==
    [][state = "closed" /\ state' = "open" => streak' >= Threshold]_vars

\* "Exponential backoff": until the circuit closes, each reopening waits longer
\* than the one before, up to max_backoff.
BackoffEscalates ==
    [][state = "half_open" /\ state' = "open"
         => backoff' > backoff \/ backoff' = MaxBackoff]_vars

\* Once Reddit answers again, an open circuit closes, unless the stream was
\* abandoned for a fatal error.
CircuitRecovers == state = "open" ~> (state = "closed" \/ loop = "abandoned")
=============================================================================
