---------------------------- MODULE LeaseProofs ----------------------------
(* Proofs about Lease for every set of tokens and every choice of the timing
   constants that respects RefreshBudget.                                    *)
EXTENDS Lease, TLAPS

-----------------------------------------------------------------------------
(* The inductive invariant.  StreamingOwnsLease is not inductive: that a lease
   does not expire under a streaming worker depends on how much of the TTL each
   phase may have used up.                                                    *)

\* No await outlasts its limit.
WithinLimits ==
    \A t \in Token :
        /\ phase[t] \in Awaiting => clock[t] <= RefreshTimeout
        /\ phase[t] = "sleeping" => clock[t] <= Interval
        /\ phase[t] \in {"announcing", "reporting"} => clock[t] <= HeartbeatMax

\* The lease key exists exactly as long as it has time left.
LeaseAlive == lease # NoToken <=> leaseLeft > 0

\* Since the last refresh that Redis confirmed to t at most `used' time went by.
LeaseCovers(t, used) == lease = t /\ leaseLeft + used >= TTL

\* What each phase of an attempt knows about the lease.
PhaseCovered(t) ==
    /\ phase[t] \in Awaiting /\ reply[t] = "yes" => LeaseCovers(t, clock[t])
    /\ phase[t] \in {"announcing", "reporting"}
         => LeaseCovers(t, clock[t] + RefreshTimeout)
    /\ phase[t] = "sleeping"
         => LeaseCovers(t, clock[t] + RefreshTimeout + HeartbeatMax)
    /\ phase[t] = "refreshing"
         => LeaseCovers(t, clock[t] + RefreshTimeout + HeartbeatMax + Interval)
    /\ phase[t] = "draining" => lease = t

\* Only an attempt that is leaving has asked Redis to delete its lease.
ReleaseOnlyWhenLeaving ==
    \A t \in Token :
        <<t, "release">> \in pending => phase[t] \in {"releasing", "ended"}

LeaseInv ==
    /\ TypeOK
    /\ WithinLimits
    /\ LeaseAlive
    /\ \A t \in Token : PhaseCovered(t)
    /\ ReleaseOnlyWhenLeaving

-----------------------------------------------------------------------------

\* Every step of the lease protocol keeps the state well typed.
THEOREM LeaseTypeCorrect == Spec => []TypeOK
<1> USE NoTokenAssumption, TimingAssumption
<1>1. Init => TypeOK
  BY DEF Init, TypeOK, Phase
<1>2. TypeOK /\ [Next]_vars => TypeOK'
  <2> SUFFICES ASSUME TypeOK, [Next]_vars PROVE TypeOK'
    OBVIOUS
  <2> USE DEF TypeOK
  <2>1. CASE Tick
    BY <2>1 DEF Tick
  <2>2. ASSUME NEW t \in Token, Server(t) PROVE TypeOK'
    BY <2>2 DEF Server, Acquire, ExecuteRefresh, ExecuteRelease, Answer, Goto,
       Phase
  <2>3. ASSUME NEW t \in Token, Worker(t) PROVE TypeOK'
    <3> USE DEF Goto, Phase, Op, SendRefresh
    <3>1. CASE EnterRun(t) BY <3>1 DEF EnterRun
    <3>2. CASE RefresherWakes(t) BY <3>2 DEF RefresherWakes
    <3>3. CASE Resend(t) BY <3>3 DEF Resend
    <3>4. CASE RefreshSucceeds(t) BY <3>4 DEF RefreshSucceeds
    <3>5. CASE RefreshFails(t) BY <3>5 DEF RefreshFails
    <3>6. CASE HeartbeatReturns(t) BY <3>6 DEF HeartbeatReturns
    <3>7. CASE StreamEnds(t) BY <3>7 DEF StreamEnds
    <3>8. CASE CancelledEarly(t) BY <3>8 DEF CancelledEarly
    <3>9. CASE StreamGathered(t) BY <3>9 DEF StreamGathered
    <3>10. CASE ReleaseLock(t) BY <3>10 DEF ReleaseLock
    <3>11. CASE RunReturns(t) BY <3>11 DEF RunReturns
    <3>12. CASE Vanish(t) BY <3>12 DEF Vanish
    <3> QED
      BY <2>3, <3>1, <3>2, <3>3, <3>4, <3>5, <3>6, <3>7, <3>8, <3>9, <3>10,
         <3>11, <3>12 DEF Worker
  <2>4. CASE UNCHANGED vars
    BY <2>4 DEF vars
  <2> QED
    BY <2>1, <2>2, <2>3, <2>4 DEF Next
<1> QED
  BY <1>1, <1>2, PTL DEF Spec

-----------------------------------------------------------------------------

\* Time passing never takes the lease away from a streaming attempt: at every
\* deadline the budget leaves at least one unit of the TTL.
LEMMA TickKeepsLeaseInv ==
  ASSUME RefreshBudget, LeaseInv, Tick PROVE LeaseInv'
<1> USE NoTokenAssumption, TimingAssumption
<1>1. TypeOK'
  BY DEF LeaseInv, TypeOK, Tick
<1>2. WithinLimits'
  BY DEF LeaseInv, TypeOK, Tick, WithinLimits, MayWait, Timed, Awaiting
<1>3. LeaseAlive'
  BY DEF LeaseInv, TypeOK, Tick, LeaseAlive
<1>4. ASSUME NEW t \in Token PROVE PhaseCovered(t)'
  <2>1. PhaseCovered(t) /\ MayWait(t) /\ phase' = phase /\ reply' = reply
    BY DEF LeaseInv, Tick
  <2>2. /\ clock[t] \in Nat
        /\ clock'[t] = IF Timed(t) THEN clock[t] + 1 ELSE clock[t]
    BY DEF LeaseInv, TypeOK, Tick
  <2>3. /\ leaseLeft \in Nat
        /\ leaseLeft' = IF leaseLeft = 0 THEN 0 ELSE leaseLeft - 1
        /\ leaseLeft > 1 => lease' = lease
    BY DEF LeaseInv, TypeOK, Tick
  <2> QED
    BY <2>1, <2>2, <2>3 DEF PhaseCovered, LeaseCovers, MayWait, Timed, Awaiting,
       RefreshBudget
<1>5. ReleaseOnlyWhenLeaving'
  BY DEF LeaseInv, Tick, ReleaseOnlyWhenLeaving
<1> QED
  BY <1>1, <1>2, <1>3, <1>4, <1>5 DEF LeaseInv

\* Commands that Redis executes, in time or late, keep the invariant: they
\* change the lease only for the token that asked.
LEMMA ServerKeepsLeaseInv ==
  ASSUME LeaseInv, NEW t \in Token, Server(t) PROVE LeaseInv'
<1> USE NoTokenAssumption, TimingAssumption DEF LeaseInv
<1>1. CASE Acquire(t)
  BY <1>1 DEF Acquire, Goto, TypeOK, Phase, WithinLimits, LeaseAlive,
     PhaseCovered, LeaseCovers, ReleaseOnlyWhenLeaving, Awaiting
<1>2. CASE ExecuteRefresh(t)
  BY <1>2 DEF ExecuteRefresh, Answer, TypeOK, WithinLimits, LeaseAlive,
     PhaseCovered, LeaseCovers, ReleaseOnlyWhenLeaving, Awaiting
<1>3. CASE ExecuteRelease(t)
  BY <1>3 DEF ExecuteRelease, TypeOK, WithinLimits, LeaseAlive,
     PhaseCovered, LeaseCovers, ReleaseOnlyWhenLeaving, Awaiting
<1> QED
  BY <1>1, <1>2, <1>3 DEF Server

\* Worker steps keep the invariant: a phase hands its successor the part of the
\* TTL it was allowed to use.
LEMMA WorkerKeepsLeaseInv ==
  ASSUME LeaseInv, NEW t \in Token, Worker(t) PROVE LeaseInv'
<1> USE NoTokenAssumption, TimingAssumption
<1> USE DEF LeaseInv, TypeOK, WithinLimits, LeaseAlive, PhaseCovered, LeaseCovers,
    ReleaseOnlyWhenLeaving, Awaiting, Goto, Phase
<1>1. CASE EnterRun(t) BY <1>1 DEF EnterRun, SendRefresh, Op
<1>2. CASE RefresherWakes(t) BY <1>2 DEF RefresherWakes, SendRefresh, Op
<1>3. CASE Resend(t) BY <1>3 DEF Resend, SendRefresh, Op
<1>4. CASE RefreshSucceeds(t) BY <1>4 DEF RefreshSucceeds
<1>5. CASE RefreshFails(t) BY <1>5 DEF RefreshFails, Op
<1>6. CASE HeartbeatReturns(t) BY <1>6 DEF HeartbeatReturns
<1>7. CASE StreamEnds(t) BY <1>7 DEF StreamEnds
<1>8. CASE CancelledEarly(t) BY <1>8 DEF CancelledEarly, Op
<1>9. CASE StreamGathered(t) BY <1>9 DEF StreamGathered
<1>10. CASE ReleaseLock(t) BY <1>10 DEF ReleaseLock, Op
<1>11. CASE RunReturns(t) BY <1>11 DEF RunReturns
<1>12. CASE Vanish(t) BY <1>12 DEF Vanish
<1> QED
  BY <1>1, <1>2, <1>3, <1>4, <1>5, <1>6, <1>7, <1>8, <1>9, <1>10, <1>11, <1>12
     DEF Worker

\* The invariant holds throughout every behaviour.
LEMMA LeaseInvHolds == ASSUME RefreshBudget PROVE Spec => []LeaseInv
<1>1. Init => LeaseInv
  BY NoTokenAssumption, TimingAssumption
     DEF Init, LeaseInv, TypeOK, Phase, WithinLimits, LeaseAlive, PhaseCovered,
         ReleaseOnlyWhenLeaving, Awaiting
<1>2. LeaseInv /\ [Next]_vars => LeaseInv'
  <2>1. LeaseInv /\ UNCHANGED vars => LeaseInv'
    BY DEF LeaseInv, vars, TypeOK, WithinLimits, LeaseAlive, PhaseCovered,
       LeaseCovers, ReleaseOnlyWhenLeaving
  <2> QED
    BY <2>1, TickKeepsLeaseInv, ServerKeepsLeaseInv, WorkerKeepsLeaseInv DEF Next
<1> QED
  BY <1>1, <1>2, PTL DEF Spec

\* An attempt that may consume or produce always owns the lease.
LEMMA InvOwnsLease == ASSUME LeaseInv PROVE StreamingOwnsLease
BY DEF LeaseInv, StreamingOwnsLease, Streaming, StreamingPhase, PhaseCovered,
   LeaseCovers

\* Fail-closed leasing: for every number of attempts and all timings within the
\* budget, a stream loop that may still consume or produce owns the lease.
THEOREM StreamingOwnsLeaseAlways ==
  ASSUME RefreshBudget PROVE Spec => []StreamingOwnsLease
BY LeaseInvHolds, InvOwnsLease, PTL

\* No duplicate streams: two attempts never stream the subreddit together.
THEOREM StreamsAreExclusive ==
  ASSUME RefreshBudget PROVE Spec => []MutualExclusion
<1>1. StreamingOwnsLease => MutualExclusion
  BY DEF StreamingOwnsLease, MutualExclusion
<1> QED
  BY <1>1, StreamingOwnsLeaseAlways, PTL

\* A late command never disturbs the lease of a successor.
THEOREM LateCommandsAreHarmless ==
  ASSUME RefreshBudget PROVE Spec => OnlyOwnerTouchesLease
<1> DEFINE Step == \A t \in Token : lease = t =>
              /\ lease' # t => \/ leaseLeft = 1
                               \/ phase[t] \in {"releasing", "ended"}
              /\ leaseLeft' > leaseLeft => <<t, "refresh">> \in pending
<1>1. LeaseInv /\ [Next]_vars => [Step]_vars
  <2> SUFFICES ASSUME LeaseInv, Next, NEW s \in Token, lease = s
               PROVE /\ lease' # s => \/ leaseLeft = 1
                                      \/ phase[s] \in {"releasing", "ended"}
                     /\ leaseLeft' > leaseLeft => <<s, "refresh">> \in pending
    OBVIOUS
  <2> USE NoTokenAssumption, TimingAssumption DEF LeaseInv, TypeOK, LeaseAlive,
          ReleaseOnlyWhenLeaving
  <2>1. CASE Tick
    BY <2>1 DEF Tick
  <2>2. ASSUME NEW t \in Token, Server(t)
        PROVE /\ lease' # s => \/ leaseLeft = 1
                               \/ phase[s] \in {"releasing", "ended"}
              /\ leaseLeft' > leaseLeft => <<s, "refresh">> \in pending
    BY <2>2 DEF Server, Acquire, ExecuteRefresh, ExecuteRelease
  <2>3. ASSUME NEW t \in Token, Worker(t)
        PROVE lease' = lease /\ leaseLeft' = leaseLeft
    BY <2>3 DEF Worker, EnterRun, RefresherWakes, Resend, RefreshSucceeds,
       RefreshFails, HeartbeatReturns, StreamEnds, CancelledEarly,
       StreamGathered, ReleaseLock, RunReturns, Vanish
  <2> QED
    BY <2>1, <2>2, <2>3 DEF Next
<1>2. Spec => [][Step]_vars
  BY <1>1, LeaseInvHolds, PTL DEF Spec
<1> QED
  BY <1>2 DEF OnlyOwnerTouchesLease

-----------------------------------------------------------------------------

\* Each step of the lease protocol is a step of ExclusiveTurns or leaves the
\* turns alone.
LEMMA StepIsTurnStep ==
  ASSUME LeaseInv, LeaseInv', [Next]_vars
  PROVE  [Turns!Next]_([t \in Token |-> TurnOf(t)])
<1> DEFINE turns == [t \in Token |-> TurnOf(t)]
<1> USE NoTokenAssumption, TimingAssumption
<1>0. /\ phase \in [Token -> Phase] /\ phase' \in [Token -> Phase]
      /\ StreamingOwnsLease /\ StreamingOwnsLease'
  BY InvOwnsLease DEF LeaseInv, TypeOK, StreamingOwnsLease, Streaming,
     StreamingPhase, PhaseCovered, LeaseCovers
<1>1. ASSUME UNCHANGED phase PROVE turns' = turns
  BY <1>1 DEF TurnOf, Streaming
\* One attempt t moves between phases of the same turn.
<1>2. ASSUME NEW t \in Token, NEW p \in Phase,
             phase' = [phase EXCEPT ![t] = p], TurnOf(t)' = TurnOf(t)
      PROVE  turns' = turns
  BY <1>0, <1>2 DEF TurnOf, Streaming
\* One attempt t starts producing: it owns the lease, so no other produces.
<1>3. ASSUME NEW t \in Token, phase[t] = "announcing",
             phase' = [phase EXCEPT ![t] = "sleeping"]
      PROVE  Turns!Begin(t)
  <2>1. \A s \in Token : turns[s] # "producing"
    <3> SUFFICES ASSUME NEW s \in Token, Streaming(s) PROVE FALSE
      BY DEF TurnOf
    <3>1. lease = s
      BY <1>0 DEF StreamingOwnsLease
    <3>2. lease = t
      BY <1>3 DEF LeaseInv, PhaseCovered, LeaseCovers
    <3> QED
      BY <3>1, <3>2, <1>3 DEF Streaming, StreamingPhase
  <2>2. turns[t] = "waiting"
    BY <1>3 DEF TurnOf, Streaming, StreamingPhase
  <2>3. turns' = [turns EXCEPT ![t] = "producing"]
    BY <1>0, <1>3 DEF TurnOf, Streaming, StreamingPhase
  <2> QED
    BY <2>1, <2>2, <2>3 DEF Turns!Begin
\* One attempt t is over.
<1>4. ASSUME NEW t \in Token, NEW p \in {"saving", "releasing", "ended"},
             phase' = [phase EXCEPT ![t] = p], TurnOf(t) # "over"
      PROVE  Turns!End(t)
  <2>1. turns[t] \in {"waiting", "producing"}
    BY <1>4 DEF TurnOf
  <2>2. turns' = [turns EXCEPT ![t] = "over"]
    BY <1>0, <1>4 DEF TurnOf, Streaming, StreamingPhase
  <2> QED
    BY <2>1, <2>2 DEF Turns!End
<1>5. CASE UNCHANGED vars
  BY <1>1, <1>5 DEF vars
<1>6. CASE Tick
  BY <1>1, <1>6 DEF Tick
<1>7. ASSUME NEW t \in Token, Server(t) PROVE turns' = turns
  <2>1. CASE Acquire(t)
    BY <1>2, <2>1, <1>0 DEF Acquire, Goto, TurnOf, Streaming, StreamingPhase, Phase
  <2> QED
    BY <1>1, <1>7, <2>1 DEF Server, ExecuteRefresh, ExecuteRelease
<1>8. ASSUME NEW t \in Token, Worker(t)
      PROVE  turns' = turns \/ Turns!Begin(t) \/ Turns!End(t)
  <2> USE <1>0 DEF Goto
  <2>1. CASE EnterRun(t)
    BY <1>2, <2>1 DEF EnterRun, TurnOf, Streaming, StreamingPhase, Phase
  <2>2. CASE RefresherWakes(t)
    BY <1>2, <2>2 DEF RefresherWakes, TurnOf, Streaming, StreamingPhase, Phase
  <2>3. CASE Resend(t)
    BY <1>1, <2>3 DEF Resend
  <2>4. CASE RefreshSucceeds(t)
    BY <1>2, <2>4 DEF RefreshSucceeds, TurnOf, Streaming, StreamingPhase, Phase,
       Awaiting
  <2>5. CASE RefreshFails(t)
    <3>1. CASE phase[t] = "verifying"
      BY <1>4, <2>5, <3>1 DEF RefreshFails, TurnOf, Streaming, StreamingPhase
    <3>2. CASE phase[t] # "verifying"
      BY <1>2, <2>5, <3>2 DEF RefreshFails, TurnOf, Streaming, StreamingPhase,
         Phase, Awaiting
    <3> QED
      BY <3>1, <3>2
  <2>6. CASE HeartbeatReturns(t)
    <3>1. CASE phase[t] = "announcing"
      BY <1>3, <2>6, <3>1 DEF HeartbeatReturns
    <3>2. CASE phase[t] = "reporting"
      BY <1>2, <2>6, <3>2 DEF HeartbeatReturns, TurnOf, Streaming,
         StreamingPhase, Phase
    <3> QED
      BY <2>6, <3>1, <3>2 DEF HeartbeatReturns
  <2>7. CASE StreamEnds(t)
    BY <1>2, <2>7 DEF StreamEnds, TurnOf, Streaming, StreamingPhase, Phase
  <2>8. CASE CancelledEarly(t)
    BY <1>4, <2>8 DEF CancelledEarly, TurnOf, Streaming, StreamingPhase
  <2>9. CASE StreamGathered(t)
    BY <1>4, <2>9 DEF StreamGathered, TurnOf, Streaming, StreamingPhase
  \* These three end the turn unless it is over already.
  <2>10. ASSUME NEW p \in {"releasing", "ended"},
                phase' = [phase EXCEPT ![t] = p]
         PROVE  turns' = turns \/ Turns!End(t)
    <3>1. CASE TurnOf(t) = "over"
      BY <1>2, <2>10, <3>1 DEF TurnOf, Streaming, StreamingPhase, Phase
    <3> QED
      BY <1>4, <2>10, <3>1
  <2> QED
    BY <1>8, <2>1, <2>2, <2>3, <2>4, <2>5, <2>6, <2>7, <2>8, <2>9, <2>10
       DEF Worker, ReleaseLock, RunReturns, Vanish
<1> QED
  BY <1>5, <1>6, <1>1, <1>7, <1>8 DEF Next, Turns!Next, Tick

\* The lease protocol implements exclusive turns for every number of attempts.
THEOREM LeaseImplementsTurns ==
  ASSUME RefreshBudget PROVE Spec => TurnsAreExclusive
<1>1. Init => Turns!Init
  BY DEF Init, Turns!Init, TurnOf, Streaming, StreamingPhase
<1> QED
  BY <1>1, StepIsTurnStep, LeaseInvHolds, PTL
     DEF Spec, TurnsAreExclusive, Turns!Spec
=============================================================================
