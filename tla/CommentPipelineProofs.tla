----------------------- MODULE CommentPipelineProofs -----------------------
(* Proofs about CommentPipeline for any number of comments, any window, any
   checkpoint interval and any failures, starting from a stored checkpoint.   *)
EXTENDS CommentPipeline, FiniteSetTheorems, TLAPS

-----------------------------------------------------------------------------
(* The inductive invariants. *)

\* A session never runs ahead of Reddit, and a batch that has reached its size
\* is waited for before another comment is processed.
WithinBounds ==
    /\ checkpoint <= posted /\ base <= posted /\ late <= posted
    /\ next <= posted + 1
    /\ worker # "waiting" => count < Interval
    /\ worker = "waiting" => next > 1

PipelineTyped == TypeOK /\ WithinBounds

InSession == worker \in {"open", "waiting"}

\* The stream has a checkpoint and is responsible for what follows it.
HasCheckpoint == checkpoint # 0 /\ first # 0

\* The comment at which a session skips was dealt with before the session began.
BaseIsDone == InSession => \A n \in Owed : n > base

\* A missing comment that the listing held and the session has passed has a report
\* that is outstanding or that failed.
PassedIsTracked ==
    InSession => \A n \in Owed : n < next => n \in Unresolved \/ nacked

\* What a worker without a lease is about to write was a sound checkpoint when it
\* was read or waited for, and a comment that was done stays done.
LateIsDone == leaving \in {"save", "write"} => late # 0 /\ \A n \in Owed : n > late

PipelineInv ==
    /\ PipelineTyped /\ HasCheckpoint /\ LateIsDone
    /\ BaseIsDone /\ PassedIsTracked /\ NothingSkipped

-----------------------------------------------------------------------------

\* The assumptions on the constants, one by one.
LEMMA ConstantTypes ==
  /\ MaxComments \in Nat /\ MaxFailures \in Nat
  /\ Window \in Nat /\ Window > 0 /\ Interval \in Nat /\ Interval > 0
  /\ InitialCheckpoint \in 0..MaxComments
BY PipelineAssumption

\* Every step of the pipeline keeps the state well typed and within its bounds.
LEMMA TypedInductive == PipelineTyped /\ [Next]_vars => PipelineTyped'
<1> USE ConstantTypes
<1> SUFFICES ASSUME PipelineTyped, [Next]_vars PROVE PipelineTyped'
  OBVIOUS
<1> USE DEF PipelineTyped, TypeOK, WithinBounds, Comment, session, batch, leaver
<1>1. CASE Post
  BY <1>1 DEF Post
<1>2. CASE StartWorker \/ RestartStream
  BY <1>2 DEF StartWorker, RestartStream
<1>3. CASE OpenSession
  <2>1. lost' \subseteq Comment
    BY <1>3 DEF OpenSession, Missing
  <2> QED
    BY <1>3, <2>1 DEF OpenSession, OldestListed
<1>4. CASE ProcessComment
  <2>1. CASE (base # 0 /\ next = base) \/ next \in Invalid
    BY <1>4, <2>1 DEF ProcessComment
  <2>2. CASE ~((base # 0 /\ next = base) \/ next \in Invalid)
    BY <1>4, <2>2 DEF ProcessComment
  <2> QED
    BY <2>1, <2>2
<1>5. ASSUME NEW n \in Comment, Ack(n) PROVE PipelineTyped'
  BY <1>5 DEF Ack
<1>6. ASSUME NEW n \in Comment, Nack(n) PROVE PipelineTyped'
  BY <1>6 DEF Nack
<1>7. CASE SaveBatch
  BY <1>7 DEF SaveBatch
<1>8. ASSUME NEW end \in {"none", "failed"}, EndWorker(end), failures' \in 0..MaxFailures,
             leaving' \in {"no", "save", "read", "write"},
             late' \in 0..MaxComments, late' <= posted
      PROVE  PipelineTyped'
  <2>1. nacked' \in BOOLEAN
    BY <1>8 DEF EndWorker
  <2>2. delivered' \subseteq Comment
    BY <1>8 DEF EndWorker, Unresolved
  <2>3. inflight' \subseteq Comment \X Nat
    BY <1>8 DEF EndWorker
  <2> QED
    BY <1>8, <2>1, <2>2, <2>3 DEF EndWorker
<1>9. CASE BatchFails
  BY <1>8, <1>9 DEF BatchFails
<1>10. CASE WorkerFails \/ WorkerDies
  BY <1>8, <1>10 DEF WorkerFails, WorkerDies
<1>11. CASE Disconnect
  BY <1>11 DEF Disconnect
<1>12. CASE LoseLease
  BY <1>8, <1>12 DEF LoseLease
<1>13. CASE LateSave \/ FinalRead \/ FinalWrite
  <2>1. nacked' \in BOOLEAN
    BY <1>13 DEF LateSave, FinalRead, FinalWrite
  <2>2. CASE LateSave
    BY <2>1, <2>2 DEF LateSave
  <2>3. CASE FinalRead
    BY <2>1, <2>3 DEF FinalRead
  <2>4. CASE FinalWrite
    BY <2>1, <2>4 DEF FinalWrite
  <2> QED
    BY <1>13, <2>2, <2>3, <2>4
<1>14. CASE UNCHANGED vars
  BY <1>14 DEF vars
<1> QED
  BY <1>1, <1>2, <1>3, <1>4, <1>5, <1>6, <1>7, <1>9, <1>10, <1>11, <1>12, <1>13, <1>14
     DEF Next

\* The initial state is well typed and within its bounds.
LEMMA TypedInitially == Init => PipelineTyped
<1> SUFFICES ASSUME Init PROVE PipelineTyped
  OBVIOUS
<1>1. nacked \in BOOLEAN
  BY DEF Init
<1>2. inflight \subseteq Comment \X Nat
  BY DEF Init
<1> QED
  BY <1>1, <1>2, ConstantTypes DEF Init, PipelineTyped, TypeOK, WithinBounds

\* Every reachable state of the pipeline is well typed; in particular the batch
\* never outgrows checkpoint_interval.
THEOREM PipelineTypeCorrect == Spec => []TypeOK
<1>1. PipelineTyped => TypeOK
  BY DEF PipelineTyped
<1> QED
  BY <1>1, TypedInitially, TypedInductive, PTL DEF Spec

-----------------------------------------------------------------------------
(* The reports in flight. *)

\* The unresolved reports have a place in the batch in progress, which every new
\* report finds free: there are no more of them than comments in the batch.
BatchInv ==
    /\ \A e \in inflight : e[2] <= count
    /\ IsFiniteSet(inflight) /\ Cardinality(inflight) <= count

\* Every step keeps the reports in flight within the batch, which outlives the
\* session but not the worker.
LEMMA BatchInductive == PipelineTyped /\ BatchInv /\ [Next]_vars => BatchInv'
<1> SUFFICES ASSUME PipelineTyped, BatchInv, [Next]_vars PROVE BatchInv'
  OBVIOUS
<1>t. count \in Nat /\ inflight \subseteq Comment \X Nat
  BY ConstantTypes DEF PipelineTyped, TypeOK
<1>c. IsFiniteSet(inflight) /\ Cardinality(inflight) \in Nat /\ Cardinality(inflight) <= count
  BY FS_CardinalityType DEF BatchInv
<1> USE DEF batch, session
<1>1. ASSUME inflight' = {}, count' \in Nat PROVE BatchInv'
  BY <1>1, FS_EmptySet DEF BatchInv
<1>2. ASSUME inflight' = inflight, count' = count PROVE BatchInv'
  BY <1>2 DEF BatchInv
<1>3. CASE ProcessComment
  <2>1. CASE (base # 0 /\ next = base) \/ next \in Invalid
    BY <1>2, <1>3, <2>1 DEF ProcessComment
  <2>2. CASE ~((base # 0 /\ next = base) \/ next \in Invalid)
    <3> DEFINE e == <<next, count + 1>>
    <3>1. inflight' = inflight \cup {e} /\ count' = count + 1
      BY <1>3, <2>2 DEF ProcessComment
    <3>2. e \notin inflight
      BY <1>t DEF BatchInv
    <3>3. /\ IsFiniteSet(inflight')
          /\ Cardinality(inflight') = Cardinality(inflight) + 1
      BY <1>c, <3>1, <3>2, FS_AddElement
    <3>4. \A f \in inflight' : f[2] <= count'
      BY <1>t, <3>1 DEF BatchInv
    <3>5. Cardinality(inflight') <= count'
      BY <1>c, <1>t, <3>1, <3>3
    <3> QED
      BY <3>3, <3>4, <3>5 DEF BatchInv
  <2> QED
    BY <2>1, <2>2
<1>4. ASSUME NEW n \in Comment, Ack(n) \/ Nack(n) PROVE BatchInv'
  <2>1. PICK e \in inflight : inflight' = inflight \ {e}
    BY <1>4 DEF Ack, Nack
  <2>2. count' = count
    BY <1>4 DEF Ack, Nack
  <2>3. IsFiniteSet(inflight') /\ Cardinality(inflight') = Cardinality(inflight) - 1
    BY <1>c, <2>1, FS_RemoveElement
  <2>4. Cardinality(inflight') <= count'
    BY <1>c, <1>t, <2>2, <2>3
  <2> QED
    BY <2>1, <2>2, <2>3, <2>4 DEF BatchInv
<1>5. CASE SaveBatch
  BY <1>1, <1>5 DEF SaveBatch
<1>6. CASE BatchFails \/ WorkerFails \/ WorkerDies \/ LoseLease
  BY <1>1, <1>6 DEF BatchFails, WorkerFails, WorkerDies, LoseLease, EndWorker
<1>7. CASE \/ Post \/ StartWorker \/ RestartStream \/ OpenSession \/ Disconnect
           \/ LateSave \/ FinalRead \/ FinalWrite \/ UNCHANGED vars
  BY <1>2, <1>7 DEF Post, StartWorker, RestartStream, OpenSession, Disconnect, LateSave, FinalRead,
                    FinalWrite, vars
<1> QED
  BY <1>3, <1>4, <1>5, <1>6, <1>7 DEF Next

\* checkpoint_interval bounds the unresolved delivery reports of the worker,
\* however often its session is reopened in the middle of a batch and whatever
\* it replays.
THEOREM PendingStaysBounded == Spec => []PendingIsBounded
<1>1. Init => BatchInv
  BY FS_EmptySet DEF Init, BatchInv
<1>2. PipelineTyped /\ BatchInv => PendingIsBounded
  <2> SUFFICES ASSUME PipelineTyped, BatchInv PROVE PendingIsBounded
    OBVIOUS
  <2>1. count \in Nat /\ count <= Interval /\ Interval \in Nat
    BY ConstantTypes DEF PipelineTyped, TypeOK
  <2>2. Cardinality(inflight) \in Nat /\ Cardinality(inflight) <= count
    BY FS_CardinalityType DEF BatchInv
  <2> QED
    BY <2>1, <2>2 DEF PendingIsBounded
<1> QED
  BY <1>1, <1>2, TypedInitially, TypedInductive, BatchInductive, PTL DEF Spec

-----------------------------------------------------------------------------
(* At-least-once delivery. *)

\* Deliveries only ever make the set of comments owed smaller.
LEMMA OwedShrinks ==
  ASSUME first' = first, posted' = posted, delivered \subseteq delivered', lost \subseteq lost'
  PROVE  Owed' \subseteq Owed
BY DEF Owed, Missing

\* A step that leaves the checkpoint and the session alone, and resolves reports
\* in flight only by delivering their comment or by noting the failure, keeps
\* what is known of the missing comments.
LEMMA ReportsKeepInv ==
  ASSUME PipelineInv, PipelineTyped', Owed' \subseteq Owed,
         UNCHANGED <<posted, first, checkpoint, worker, base, next, leaving, late>>,
         \A n \in Owed' : n \in Unresolved \/ nacked => n \in Unresolved' \/ nacked'
  PROVE  PipelineInv'
BY DEF PipelineInv, HasCheckpoint, BaseIsDone, PassedIsTracked,
       NothingSkipped, InSession, LateIsDone

\* A step after which no session is open, with the same checkpoint, keeps it if
\* what a worker without a lease will write is done.
LEMMA NoSessionKeepsInv ==
  ASSUME PipelineInv, PipelineTyped', Owed' \subseteq Owed, LateIsDone',
         UNCHANGED <<posted, first, checkpoint>>, worker' \in {"none", "failed", "closed"}
  PROVE  PipelineInv'
BY DEF PipelineInv, HasCheckpoint, BaseIsDone, PassedIsTracked,
       NothingSkipped, InSession

\* A step that leaves the worker without a lease alone keeps what it will write.
LEMMA LateStaysDone ==
  ASSUME PipelineInv, Owed' \subseteq Owed, UNCHANGED leaver
  PROVE  LateIsDone'
BY DEF PipelineInv, LateIsDone, leaver

\* A step that writes a sound checkpoint, or the old one, and nothing else keeps
\* the invariant.
LEMMA SoundCheckpointKeepsInv ==
  ASSUME PipelineInv, PipelineTyped', LateIsDone', Owed' = Owed,
         UNCHANGED <<posted, first, worker, base, next, inflight, nacked>>,
         checkpoint' # 0, \A n \in Owed : n > checkpoint'
  PROVE  PipelineInv'
BY DEF PipelineInv, HasCheckpoint, BaseIsDone, PassedIsTracked,
       NothingSkipped, InSession, Unresolved

\* Every step keeps the invariant.
LEMMA PipelineInvInductive == PipelineInv /\ [Next]_vars => PipelineInv'
<1> USE ConstantTypes
<1> SUFFICES ASSUME PipelineInv, [Next]_vars PROVE PipelineInv'
  OBVIOUS
<1>0. PipelineTyped /\ PipelineTyped'
  BY TypedInductive DEF PipelineInv
<1>t. /\ posted \in Nat /\ first \in Nat /\ checkpoint \in Nat /\ base \in Nat
      /\ next \in Nat /\ Comment \subseteq Nat
      /\ Owed \subseteq Comment
      /\ checkpoint <= posted /\ next <= posted + 1
      /\ late \in Nat /\ late <= posted
  BY <1>0 DEF PipelineTyped, TypeOK, WithinBounds, Comment, Owed, Missing
<1> USE DEF session, batch, leaver
<1>1. CASE Post
  <2>1. \A n \in Owed' : n \in Owed \/ n = posted + 1
    BY <1>1, <1>t DEF Post, Owed, Missing
  <2>2. /\ posted' = posted + 1
        /\ UNCHANGED <<first, delivered, checkpoint, worker, base, next, inflight, nacked>>
        /\ UNCHANGED <<leaving, late>>
    BY <1>1 DEF Post
  <2>3. Owed' \subseteq Nat
    BY <1>t DEF Owed, Missing
  <2>5. BaseIsDone'
    <3>1. base <= posted
      BY <1>0 DEF PipelineTyped, WithinBounds
    <3> QED
      BY <1>t, <2>1, <2>2, <2>3, <3>1 DEF PipelineInv, BaseIsDone, InSession
  <2>l. LateIsDone'
    BY <1>t, <2>1, <2>2, <2>3 DEF PipelineInv, LateIsDone
  <2>6. PassedIsTracked' /\ NothingSkipped' /\ HasCheckpoint'
    BY <1>t, <2>1, <2>2, <2>3
       DEF PipelineInv, PassedIsTracked, InSession, NothingSkipped, HasCheckpoint, Unresolved
  <2> QED
    BY <1>0, <2>5, <2>6, <2>l DEF PipelineInv
<1>2. CASE StartWorker \/ RestartStream
  BY <1>0, <1>2, OwedShrinks, LateStaysDone, NoSessionKeepsInv DEF StartWorker, RestartStream
<1>3. CASE OpenSession
  <2>1. /\ UNCHANGED <<posted, first, delivered, checkpoint>>
        /\ base' = checkpoint /\ next' = OldestListed
        /\ lost' = lost \cup {n \in Missing : n < OldestListed}
    BY <1>3 DEF OpenSession, PipelineInv, HasCheckpoint
  <2>2. Owed' \subseteq Owed
    BY <2>1, OwedShrinks
  <2>3. \A n \in Owed' : n > checkpoint /\ ~(n < OldestListed)
    BY <2>1, <2>2 DEF PipelineInv, NothingSkipped, Owed, Missing
  <2>l. LateIsDone'
    BY <1>3, <2>2, LateStaysDone DEF OpenSession
  <2> QED
    BY <1>0, <2>1, <2>3, <2>l
       DEF PipelineInv, HasCheckpoint, BaseIsDone, PassedIsTracked, NothingSkipped, InSession
<1>4. CASE ProcessComment
  <2>1. /\ UNCHANGED <<posted, first, delivered, checkpoint, base, nacked, lost>>
        /\ InSession /\ next' = next + 1 /\ worker' \in {"open", "waiting"}
        /\ next \in Comment
    BY <1>0, <1>4 DEF ProcessComment, InSession, PipelineTyped, TypeOK, Comment
  <2>2. Owed' = Owed
    BY <2>1 DEF Owed, Missing
  <2>l. LateIsDone'
    BY <1>4, <2>2, LateStaysDone DEF ProcessComment
  <2>3. ASSUME NEW n \in Owed, n < next + 1
        PROVE  n \in Unresolved' \/ nacked
    <3>1. CASE n < next
      <4>1. n \in Unresolved \/ nacked
        BY <2>1, <3>1 DEF PipelineInv, PassedIsTracked
      <4> QED
        BY <1>4, <4>1 DEF ProcessComment, Unresolved
    <3>2. CASE n = next
      <4>1. n \notin Invalid /\ n # base
        BY <1>t, <2>1 DEF Owed, Missing, PipelineInv, BaseIsDone
      <4> QED
        BY <1>4, <3>2, <4>1 DEF ProcessComment, Unresolved
    <3> QED
      BY <1>t, <2>3, <3>1, <3>2
  <2> QED
    BY <1>0, <1>t, <2>1, <2>2, <2>3, <2>l
       DEF PipelineInv, HasCheckpoint, BaseIsDone, PassedIsTracked,
           NothingSkipped, InSession
<1>5. ASSUME NEW m \in Comment, Ack(m) PROVE PipelineInv'
  <2>1. Owed' \subseteq Owed /\ m \notin Owed'
    BY <1>5 DEF Ack, Owed, Missing
  <2>2. \A n \in Owed' : n \in Unresolved => n \in Unresolved'
    BY <1>5, <2>1 DEF Ack, Unresolved
  <2> QED
    BY <1>0, <1>5, <2>1, <2>2, ReportsKeepInv DEF Ack
<1>6. ASSUME NEW m \in Comment, Nack(m) PROVE PipelineInv'
  <2>1. Owed' \subseteq Owed
    BY <1>6 DEF Nack, Owed, Missing
  <2> QED
    BY <1>0, <1>6, <2>1, ReportsKeepInv DEF Nack
<1>7. CASE SaveBatch
  <2>1. /\ UNCHANGED <<posted, first, delivered, base, next, inflight, nacked, lost>>
        /\ InSession /\ ~nacked /\ worker' = "open" /\ next > 1
        /\ checkpoint' \in {next - 1, checkpoint}
    BY <1>0, <1>7 DEF SaveBatch, InSession, PipelineTyped, WithinBounds
  <2>2. Owed' = Owed
    BY <2>1 DEF Owed, Missing
  <2>3. \A n \in Owed : n >= next
    <3>1. Unresolved = {}
      BY <1>7 DEF SaveBatch, Unresolved
    <3> QED
      BY <1>t, <2>1, <3>1 DEF PipelineInv, PassedIsTracked
  <2>l. LateIsDone'
    BY <1>7, <2>2, LateStaysDone DEF SaveBatch
  <2>4. HasCheckpoint' /\ NothingSkipped'
    BY <1>t, <2>1, <2>2, <2>3 DEF PipelineInv, HasCheckpoint, NothingSkipped
  <2> QED
    BY <1>0, <1>t, <2>1, <2>2, <2>3, <2>4, <2>l
       DEF PipelineInv, BaseIsDone, PassedIsTracked, InSession
<1>8. ASSUME NEW end \in {"none", "failed"}, EndWorker(end) PROVE Owed' \subseteq Owed
  BY <1>8, OwedShrinks DEF EndWorker
<1>9. CASE BatchFails
  BY <1>0, <1>8, <1>9, LateStaysDone, NoSessionKeepsInv DEF BatchFails, EndWorker
<1>10. CASE WorkerFails \/ WorkerDies
  BY <1>0, <1>8, <1>10, LateStaysDone, NoSessionKeepsInv DEF WorkerFails, WorkerDies, EndWorker
<1>11. CASE Disconnect
  BY <1>0, <1>11, OwedShrinks, LateStaysDone, NoSessionKeepsInv DEF Disconnect
<1>12. CASE LoseLease
  <2>1. Owed' \subseteq Owed
    BY <1>8, <1>12 DEF LoseLease
  <2>2. ASSUME leaving' = "save" PROVE LateIsDone'
    <3>1. late' = next - 1 /\ InSession /\ next > 1
      BY <1>0, <1>12, <2>2 DEF LoseLease, InSession, PipelineTyped, WithinBounds
    <3>2. Unresolved = {} /\ ~nacked
      BY <1>12, <2>2 DEF LoseLease, Unresolved
    <3>3. \A n \in Owed : n >= next
      BY <1>t, <3>1, <3>2 DEF PipelineInv, PassedIsTracked
    <3> QED
      BY <1>t, <2>1, <3>1, <3>3 DEF LateIsDone
  <2>3. LateIsDone'
    BY <1>12, <2>2 DEF LoseLease, LateIsDone
  <2> QED
    BY <1>0, <1>12, <2>1, <2>3, NoSessionKeepsInv DEF LoseLease, EndWorker
<1>13. CASE LateSave \/ FinalWrite
  <2>1. Owed' = Owed
    BY <1>13 DEF LateSave, FinalWrite, Owed, Missing
  <2>2. LateIsDone'
    BY <1>13 DEF LateSave, FinalWrite, LateIsDone
  <2>3. checkpoint' # 0 /\ \A n \in Owed : n > checkpoint'
    BY <1>13 DEF LateSave, FinalWrite, PipelineInv, LateIsDone, HasCheckpoint, NothingSkipped
  <2> QED
    BY <1>0, <1>13, <2>1, <2>2, <2>3, SoundCheckpointKeepsInv DEF LateSave, FinalWrite
<1>14. CASE FinalRead
  <2>1. Owed' = Owed
    BY <1>14 DEF FinalRead, Owed, Missing
  <2>2. LateIsDone'
    BY <1>14, <2>1 DEF FinalRead, LateIsDone, PipelineInv, HasCheckpoint, NothingSkipped
  <2>3. checkpoint' # 0 /\ \A n \in Owed : n > checkpoint'
    BY <1>14 DEF FinalRead, PipelineInv, HasCheckpoint, NothingSkipped
  <2>4. UNCHANGED <<posted, first, worker, base, next, inflight, nacked>>
    BY <1>14 DEF FinalRead
  <2> QED
    BY <1>0, <1>14, <2>1, <2>2, <2>3, <2>4, SoundCheckpointKeepsInv
<1>15. CASE UNCHANGED vars
  <2>1. Owed' = Owed
    BY <1>15 DEF vars, Owed, Missing
  <2>2. LateIsDone'
    BY <1>15, <2>1, LateStaysDone DEF vars
  <2>3. UNCHANGED <<posted, first, checkpoint, worker, base, next, inflight, nacked>>
    BY <1>15 DEF vars
  <2>4. checkpoint' # 0 /\ \A n \in Owed : n > checkpoint'
    BY <2>3 DEF PipelineInv, HasCheckpoint, NothingSkipped
  <2> QED
    BY <1>0, <2>1, <2>2, <2>3, <2>4, SoundCheckpointKeepsInv
<1> QED
  BY <1>1, <1>2, <1>3, <1>4, <1>5, <1>6, <1>7, <1>9, <1>10, <1>11, <1>12, <1>13, <1>14,
     <1>15 DEF Next

\* "at-least-once recovery behavior", once there is a checkpoint: no failure,
\* replay or order of reports ever lets the checkpoint pass a comment that was
\* not delivered, but for the ones that were out of Reddit's listing when the
\* session opened that should have replayed them.
THEOREM AtLeastOnce ==
  ASSUME InitialCheckpoint # 0 PROVE Spec => []NothingSkipped
<1>1. Init => PipelineInv
  <2> SUFFICES ASSUME Init PROVE PipelineInv
    OBVIOUS
  <2>1. PipelineTyped
    BY TypedInitially
  <2>2. Owed = {} /\ HasCheckpoint /\ ~InSession
    BY ConstantTypes DEF Init, Owed, Missing, HasCheckpoint, InSession, Comment
  <2> QED
    BY <2>1, <2>2 DEF Init, PipelineInv, BaseIsDone, PassedIsTracked,
       NothingSkipped, LateIsDone
<1>2. PipelineInv => NothingSkipped
  BY DEF PipelineInv
<1> QED
  BY <1>1, <1>2, PipelineInvInductive, PTL DEF Spec
=============================================================================
