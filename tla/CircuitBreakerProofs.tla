------------------------ MODULE CircuitBreakerProofs ------------------------
(* Proofs about CircuitBreaker for every threshold, timeout, multiplier and
   resolution of the clock.                                                  *)
EXTENDS CircuitBreaker, TLAPS

-----------------------------------------------------------------------------
(* Arithmetic. *)

\* Multiplication by the resolution keeps the order of two durations.
LEMMA ProductMonotone ==
  ASSUME NEW a \in Nat, NEW b \in Nat, NEW r \in Nat, a <= b
  PROVE  a * r \in Nat /\ b * r \in Nat /\ a * r <= b * r
OBVIOUS

\* Rounding up, as math.ceil does in _time_until_retry: whole seconds cover the
\* ticks they stand for.
LEMMA CeilingCovers ==
  ASSUME NEW d \in Nat, NEW r \in Nat \ {0}
  PROVE  /\ (d + r - 1) \div r \in Nat
         /\ ((d + r - 1) \div r) * r >= d
OBVIOUS

-----------------------------------------------------------------------------
(* The inductive invariant. *)

\* Between rejecting a call and the next attempt, the sleep that is left covers
\* what is left of the backoff.
SleepCoversBackoff ==
    /\ rejected \in {0, 1}
    /\ rejected = 1 => loop \in {"sleeping", "calling"}
    /\ rejected = 1 /\ loop = "sleeping" => elapsed + left >= backoff * Res
    /\ rejected = 1 /\ loop = "calling" => elapsed >= backoff * Res

\* What the counters of the breaker have to do with what happened.
CountsAreHonest ==
    /\ failureCount <= streak
    /\ failureCount <= failures /\ failures <= MaxFailures
    /\ state = "half_open" => successCount < SuccessThreshold

BreakerInv == TypeOK /\ SleepCoversBackoff /\ CountsAreHonest

-----------------------------------------------------------------------------

\* Opening the circuit keeps backoff_seconds between its two limits.
LEMMA NextBackoffBounds ==
  ASSUME TypeOK, NEW e \in ErrorClass
  PROVE  /\ NextBackoff(e) \in RecoveryTimeout..MaxBackoff
         /\ Multiplier > 1 => NextBackoff(e) > backoff \/ NextBackoff(e) = MaxBackoff
<1> USE BreakerAssumption
<1>1. /\ backoff \in Nat \ {0} /\ backoff >= RecoveryTimeout /\ backoff <= MaxBackoff
      /\ Suggested[e] \in Nat
  BY DEF TypeOK, ErrorClass
<1>2. /\ backoff * Multiplier \in Nat /\ backoff * Multiplier >= backoff
      /\ Multiplier > 1 => backoff * Multiplier > backoff
  BY <1>1
<1> QED
  BY <1>1, <1>2 DEF NextBackoff, AtMost, AtLeast

\* The retry_after that a rejected caller is given covers the backoff.
LEMMA RetryAfterCovers ==
  ASSUME TypeOK
  PROVE  /\ RetryAfter * Res \in Nat
         /\ elapsed + RetryAfter * Res >= backoff * Res
<1> USE BreakerAssumption
<1>1. backoff * Res \in Nat /\ elapsed \in Nat
  BY ProductMonotone DEF TypeOK
<1>2. CASE elapsed >= backoff * Res
  BY <1>1, <1>2 DEF RetryAfter
<1>3. CASE elapsed < backoff * Res
  <2> DEFINE d == backoff * Res - elapsed
  <2>1. d \in Nat
    BY <1>1, <1>3
  <2>2. RetryAfter = (d + Res - 1) \div Res
    BY <1>1, <1>3 DEF RetryAfter
  <2>3. RetryAfter \in Nat /\ RetryAfter * Res >= d
    BY <2>1, <2>2, CeilingCovers
  <2>4. RetryAfter * Res \in Nat
    BY <2>3
  <2> HIDE DEF d
  <2>5. elapsed + d = backoff * Res
    BY <1>1, <1>3 DEF d
  <2> QED
    BY <1>1, <2>1, <2>3, <2>4, <2>5
<1> QED
  BY <1>1, <1>2, <1>3

\* Every step keeps the invariant.
LEMMA BreakerInvInductive == BreakerInv /\ [Next]_vars => BreakerInv'
<1> USE BreakerAssumption
<1> SUFFICES ASSUME BreakerInv, [Next]_vars PROVE BreakerInv'
  OBVIOUS
<1> DEFINE window == backoff * Res
           limit  == MaxBackoff * Res
<1>0. window \in Nat /\ limit \in Nat /\ window <= limit
  BY ProductMonotone DEF BreakerInv, TypeOK
<1> USE DEF BreakerInv, SleepCoversBackoff, CountsAreHonest, breaker, history
<1>1. CASE Call
  <2>1. TypeOK'
    BY <1>1 DEF Call, TypeOK
  <2>2. SleepCoversBackoff'
    BY <1>1 DEF Call, TypeOK
  <2> QED
    BY <1>1, <2>1, <2>2 DEF Call, TypeOK
<1>2. CASE Reject
  <2>1. left' \in Nat /\ elapsed' + left' >= backoff' * Res
    BY <1>2, RetryAfterCovers DEF Reject
  <2> QED
    BY <1>2, <2>1 DEF Reject, TypeOK
<1>3. CASE Progress
  BY <1>3 DEF Progress, TypeOK
<1>4. CASE Wake
  BY <1>4, <1>0 DEF Wake, TypeOK
<1>5. CASE Tick
  <2> HIDE DEF window, limit
  <2>1. /\ elapsed' = IF elapsed + 1 <= limit THEN elapsed + 1 ELSE limit
        /\ elapsed \in 0..limit
    BY <1>5 DEF Tick, AtMost, TypeOK, limit
  <2>2. rejected = 1 /\ loop = "sleeping" => elapsed + left >= window
    BY DEF window
  <2>3. rejected = 1 /\ loop = "calling" => elapsed >= window
    BY DEF window
  <2>4. left \in Nat /\ left' = IF left > 0 THEN left - 1 ELSE 0
    BY <1>5 DEF Tick, TypeOK
  <2>5. SleepCoversBackoff'
    <3>1. rejected = 1 /\ loop = "sleeping" => elapsed' + left' >= window
      BY <1>0, <2>1, <2>2, <2>4
    <3>2. rejected = 1 /\ loop = "calling" => elapsed' >= window
      BY <1>0, <2>1, <2>3
    <3> QED
      BY <1>5, <3>1, <3>2 DEF Tick, window
  <2>6. TypeOK'
    <3>1. elapsed' \in 0..limit
      BY <1>0, <2>1
    <3> QED
      BY <1>5, <2>4, <3>1 DEF Tick, TypeOK, limit
  <2> QED
    BY <1>5, <2>5, <2>6 DEF Tick
<1>6. ASSUME NEW e \in ErrorClass, Fail(e) PROVE BreakerInv'
  <2>1. NextBackoff(e) \in RecoveryTimeout..MaxBackoff
    BY NextBackoffBounds
  <2>2. Suggested[e] * Res \in Nat
    BY DEF ErrorClass
  <2>3. failures < MaxFailures /\ failureCount <= failures /\ failures \in Nat
    BY <1>6 DEF Fail, TypeOK
  <2>4. TypeOK'
    BY <1>0, <1>6, <2>1, <2>2, <2>3 DEF Fail, TypeOK
  <2>5. rejected = 0 /\ rejected' = 0
    BY <1>6 DEF Fail
  <2> QED
    BY <1>6, <2>3, <2>4, <2>5 DEF Fail, TypeOK
<1>7. CASE UNCHANGED vars
  BY <1>7 DEF vars, TypeOK
<1> QED
  BY <1>1, <1>2, <1>3, <1>4, <1>5, <1>6, <1>7 DEF Next

\* The invariant holds in every reachable state.
LEMMA BreakerInvHolds == Spec => []BreakerInv
<1> USE BreakerAssumption
<1>1. Init => BreakerInv
  BY ProductMonotone DEF Init, BreakerInv, TypeOK, SleepCoversBackoff, CountsAreHonest
<1> QED
  BY <1>1, BreakerInvInductive, PTL DEF Spec

-----------------------------------------------------------------------------

\* The breaker's state stays well typed; in particular backoff_seconds stays
\* between recovery_timeout and max_backoff.
THEOREM BreakerTypeCorrect == Spec => []TypeOK
<1>1. BreakerInv => TypeOK
  BY DEF BreakerInv
<1> QED
  BY <1>1, BreakerInvHolds, PTL

\* A caller that slept for the retry_after of CircuitOpenError is let through,
\* at any resolution of the clock: the retry loop never spins.
THEOREM NoSpinning == Spec => []NeverRejectedTwice
<1>1. BreakerInv => NeverRejectedTwice
  BY DEF BreakerInv, SleepCoversBackoff, NeverRejectedTwice
<1> QED
  BY <1>1, BreakerInvHolds, PTL

\* The circuit opens from closed only after failure_threshold failures without
\* any progress of the Reddit stream in between.
THEOREM OpeningIsEarned == Spec => OpensOnConsecutiveFailures
<1>1. BreakerInv /\ [Next]_vars
        => [state = "closed" /\ state' = "open" => streak' >= Threshold]_vars
  <2> SUFFICES ASSUME BreakerInv, Next, state = "closed", state' = "open"
               PROVE  streak' >= Threshold
    BY DEF vars, breaker
  <2>1. PICK e \in ErrorClass : Fail(e)
    BY DEF Next, Call, Reject, Progress, Wake, Tick, breaker
  <2> QED
    BY <2>1, BreakerAssumption DEF Fail, BreakerInv, CountsAreHonest, TypeOK
<1> QED
  BY <1>1, BreakerInvHolds, PTL DEF Spec, OpensOnConsecutiveFailures

\* With a multiplier above one every failed recovery attempt lengthens the
\* backoff until it has reached max_backoff.
THEOREM BackoffGrows == ASSUME Multiplier > 1 PROVE Spec => BackoffEscalates
<1>1. BreakerInv /\ [Next]_vars
        => [state = "half_open" /\ state' = "open"
              => backoff' > backoff \/ backoff' = MaxBackoff]_vars
  <2> SUFFICES ASSUME BreakerInv, Next, state = "half_open", state' = "open"
               PROVE  backoff' > backoff \/ backoff' = MaxBackoff
    BY DEF vars, breaker
  <2>1. PICK e \in ErrorClass : Fail(e)
    BY DEF Next, Call, Reject, Progress, Wake, Tick, breaker
  <2>2. backoff' = NextBackoff(e)
    BY <2>1 DEF Fail
  <2>3. TypeOK
    BY DEF BreakerInv
  <2> QED
    BY <2>2, <2>3, NextBackoffBounds
<1> QED
  BY <1>1, BreakerInvHolds, PTL DEF Spec, BackoffEscalates
=============================================================================
