----------------------- MODULE CheckpointFlusherProofs -----------------------
(* Proofs about CheckpointFlusher for any number of instances, checkpoints,
   failures, shutdowns and crashes.                                           *)
EXTENDS CheckpointFlusher, TLAPS

\* What a worker saved is in Redis, or something newer is.
SavedIsStored == \A i \in Instance : saved[i] <= checkpoint

\* A final flush is under way only after stop_all, and from then on the instance
\* holds no lease, so that no worker of it saves anything.
DrainedIsQuiet ==
    \A i \in Instance :
        /\ flush[<<i, "final">>] # "idle" => up[i] # "up"
        /\ up[i] # "up" => lessee # i

FlusherInv == TypeOK /\ SavedIsStored /\ DrainedIsQuiet /\ FinalFlushIsComplete

-----------------------------------------------------------------------------

\* The two flushers of an instance.
LEMMA FlusherParts ==
  /\ \A f \in Flusher : f[1] \in Instance /\ f = <<f[1], f[2]>> /\ f[2] \in {"loop", "final"}
  /\ \A i \in Instance : <<i, "loop">> \in Flusher /\ <<i, "final">> \in Flusher
BY DEF Flusher

\* The end of a flush keeps the types.
LEMMA ReturnsTyped ==
  ASSUME TypeOK, NEW f \in Flusher, Returns(f)
  PROVE  /\ flush' \in [Flusher -> {"idle", "fetch", "drop", "upsert"}]
         /\ batch' \in [Flusher -> 0..MaxSaves]
         /\ up' \in [Instance -> {"up", "drained", "flushed", "down", "crashed"}]
<1>1. 0 \in 0..MaxSaves
  BY FlusherAssumption
<1> QED
  BY <1>1, FlusherParts DEF TypeOK, Returns

\* Every step keeps the types.
LEMMA FlusherTypes == TypeOK /\ [Next]_vars => TypeOK'
<1> SUFFICES ASSUME TypeOK, [Next]_vars PROVE TypeOK'
  OBVIOUS
<1> USE FlusherAssumption DEF keys, actives, flushes
<1>z. 0 \in 0..MaxSaves
  OBVIOUS
<1>1. ASSUME NEW i \in Instance, Adopt(i) PROVE TypeOK'
  BY <1>1 DEF TypeOK, Adopt
<1>2. ASSUME NEW i \in Instance, Activation(i) PROVE TypeOK'
  <2>1. CASE WriteOwner(i)
    BY <2>1 DEF TypeOK, WriteOwner
  <2>2. CASE JoinIndex(i)
    BY <2>2 DEF TypeOK, JoinIndex
  <2>3. CASE LeaveIndex(i)
    BY <2>3 DEF TypeOK, LeaveIndex
  <2> QED
    BY <1>2, <2>1, <2>2, <2>3 DEF Activation
<1>3. ASSUME NEW i \in Instance, Heartbeat(i) PROVE TypeOK'
  BY <1>3 DEF TypeOK, Heartbeat
<1>4. ASSUME NEW i \in Instance, Save(i) PROVE TypeOK'
  BY <1>4 DEF TypeOK, Save
<1>5. ASSUME NEW i \in Instance, LoseLease(i) PROVE TypeOK'
  BY <1>5 DEF TypeOK, LoseLease
<1>6. ASSUME NEW i \in Instance, StopAll(i) PROVE TypeOK'
  BY <1>6 DEF TypeOK, StopAll
<1>7. ASSUME NEW i \in Instance, StopFlusher(i) PROVE TypeOK'
  BY <1>7, <1>z, FlusherParts DEF TypeOK, StopFlusher
<1>8. ASSUME NEW i \in Instance, Crash(i) PROVE TypeOK'
  BY <1>8, <1>z DEF TypeOK, Crash
<1>9. ASSUME NEW f \in Flusher, FlushStep(f) \/ UpsertFails(f) PROVE TypeOK'
  <2>1. CASE ReadIndex(f)
    <3>1. CASE Returns(f)
      BY <2>1, <3>1, ReturnsTyped DEF TypeOK, ReadIndex
    <3>2. CASE ~Returns(f)
      BY <2>1, <3>2 DEF TypeOK, ReadIndex
    <3> QED
      BY <3>1, <3>2
  <2>2. CASE Fetch(f)
    <3>1. CASE Returns(f)
      BY <2>2, <3>1, ReturnsTyped DEF TypeOK, Fetch
    <3>2. CASE ~Returns(f)
      BY <2>2, <3>2, <1>z DEF TypeOK, Fetch
    <3> QED
      BY <3>1, <3>2
  <2>3. CASE DropStale(f)
    BY <2>3, ReturnsTyped DEF TypeOK, DropStale
  <2>4. CASE Upsert(f)
    BY <2>4, ReturnsTyped DEF TypeOK, Upsert
  <2>5. CASE UpsertFails(f)
    BY <2>5, ReturnsTyped DEF TypeOK, UpsertFails
  <2> QED
    BY <1>9, <2>1, <2>2, <2>3, <2>4, <2>5 DEF FlushStep
<1>10. CASE UNCHANGED vars
  BY <1>10 DEF TypeOK, vars
<1> QED
  BY <1>1, <1>2, <1>3, <1>4, <1>5, <1>6, <1>7, <1>8, <1>9, <1>10 DEF Next

-----------------------------------------------------------------------------

\* A step that neither saves nor flushes, and gives no lease to an instance that
\* is shutting down, keeps what is known of the final flushes.
LEMMA QuietSteps ==
  ASSUME FlusherInv, TypeOK', UNCHANGED <<checkpoint, flush, batch, saved>>,
         \A i \in Instance : /\ up'[i] # "up" => lessee' # i
                             /\ up[i] # "up" => up'[i] # "up"
  PROVE  FlusherInv'
BY DEF FlusherInv, SavedIsStored, DrainedIsQuiet, FinalFlushIsComplete

\* The end of a flush keeps it, too.
LEMMA ReturnsKeepsInv ==
  ASSUME FlusherInv, TypeOK', NEW f \in Flusher, Returns(f),
         UNCHANGED <<checkpoint, lessee, saved>>,
         f[2] = "final" => up[f[1]] # "up"
  PROVE  FlusherInv'
<1>1. \A i \in Instance : flush'[<<i, "final">>] # "idle" =>
          /\ flush'[<<i, "final">>] = flush[<<i, "final">>]
          /\ batch'[<<i, "final">>] = batch[<<i, "final">>]
  BY FlusherParts DEF Returns, FlusherInv, TypeOK
<1>2. \A i \in Instance : up[i] = "up" <=> up'[i] = "up"
  BY FlusherParts DEF Returns, FlusherInv, TypeOK
<1> QED
  BY <1>1, <1>2 DEF FlusherInv, SavedIsStored, DrainedIsQuiet, FinalFlushIsComplete

\* Every step keeps the invariant.
LEMMA FlusherInvInductive == FlusherInv /\ [Next]_vars => FlusherInv'
<1> SUFFICES ASSUME FlusherInv, [Next]_vars PROVE FlusherInv'
  OBVIOUS
<1>0. TypeOK /\ TypeOK'
  BY FlusherTypes DEF FlusherInv
<1> USE <1>0, FlusherAssumption DEF keys, actives, flushes
<1>q. \A i \in Instance : up[i] # "up" => lessee # i
  BY DEF FlusherInv, DrainedIsQuiet
<1>1. ASSUME NEW i \in Instance, Adopt(i) PROVE FlusherInv'
  BY <1>1, QuietSteps DEF Adopt
<1>2. ASSUME NEW i \in Instance, Activation(i) PROVE FlusherInv'
  BY <1>2, <1>q, QuietSteps DEF Activation, WriteOwner, JoinIndex, LeaveIndex
<1>3. ASSUME NEW i \in Instance, Heartbeat(i) PROVE FlusherInv'
  BY <1>3, <1>q, QuietSteps DEF Heartbeat
<1>4. ASSUME NEW i \in Instance, Save(i) PROVE FlusherInv'
  <2>1. up[i] = "up" /\ flush[<<i, "final">>] = "idle"
    BY <1>4 DEF Save, Streaming, FlusherInv, DrainedIsQuiet
  <2>2. \A j \in Instance : saved[j] <= checkpoint /\ saved[j] \in Nat
    BY DEF FlusherInv, SavedIsStored, TypeOK
  <2>3. SavedIsStored'
    BY <1>4, <2>2 DEF Save, SavedIsStored, TypeOK
  <2>4. DrainedIsQuiet'
    BY <1>4 DEF Save, FlusherInv, DrainedIsQuiet
  <2>5. FinalFlushIsComplete'
    BY <1>4, <2>1 DEF Save, FlusherInv, FinalFlushIsComplete, TypeOK
  <2> QED
    BY <2>3, <2>4, <2>5 DEF FlusherInv
<1>5. ASSUME NEW i \in Instance, LoseLease(i) PROVE FlusherInv'
  BY <1>5, QuietSteps DEF LoseLease
<1>6. ASSUME NEW i \in Instance, StopAll(i) PROVE FlusherInv'
  BY <1>6, <1>q, QuietSteps DEF StopAll, TypeOK
<1>7. ASSUME NEW i \in Instance, StopFlusher(i) PROVE FlusherInv'
  <2>1. \A j \in Instance : /\ flush'[<<j, "final">>] = flush[<<j, "final">>]
                            /\ batch'[<<j, "final">>] = batch[<<j, "final">>]
    BY <1>7, FlusherParts DEF StopFlusher, TypeOK
  <2> QED
    BY <1>7, <2>1 DEF StopFlusher, FlusherInv, SavedIsStored, DrainedIsQuiet,
       FinalFlushIsComplete, TypeOK
<1>8. ASSUME NEW i \in Instance, Crash(i) PROVE FlusherInv'
  <2>1. \A j \in Instance : flush'[<<j, "final">>] # "idle" =>
            /\ flush'[<<j, "final">>] = flush[<<j, "final">>]
            /\ batch'[<<j, "final">>] = batch[<<j, "final">>]
    BY <1>8, FlusherParts DEF Crash
  <2>2. UNCHANGED <<checkpoint, saved>>
    BY <1>8 DEF Crash
  <2>3. SavedIsStored' /\ FinalFlushIsComplete'
    BY <2>1, <2>2 DEF FlusherInv, SavedIsStored, FinalFlushIsComplete
  <2>4. \A j \in Instance : /\ up[j] # "up" => up'[j] # "up"
                            /\ up'[j] # "up" => lessee' # j
    BY <1>8, <1>q DEF Crash, TypeOK
  <2>5. DrainedIsQuiet'
    BY <2>1, <2>4 DEF FlusherInv, DrainedIsQuiet
  <2> QED
    BY <2>3, <2>5 DEF FlusherInv
<1>9. ASSUME NEW f \in Flusher, FlushStep(f) \/ UpsertFails(f) PROVE FlusherInv'
  <2>0. flush[f] # "idle" /\ f[2] = "final" => up[f[1]] # "up"
    BY FlusherParts DEF FlusherInv, DrainedIsQuiet
  <2>1. CASE ReadIndex(f)
    <3>1. f[2] = "final" => up[f[1]] # "up"
      BY <2>1 DEF ReadIndex, MayFlush
    <3>2. CASE Returns(f)
      BY <2>1, <3>1, <3>2, ReturnsKeepsInv DEF ReadIndex
    <3>3. CASE flush' = [flush EXCEPT ![f] = "fetch"] /\ UNCHANGED <<batch, up>>
      BY <2>1, <3>1, <3>3, FlusherParts DEF ReadIndex, FlusherInv, SavedIsStored,
         DrainedIsQuiet, FinalFlushIsComplete, TypeOK
    <3> QED
      BY <2>1, <3>2, <3>3 DEF ReadIndex
  <2>2. CASE Fetch(f)
    <3>1. UNCHANGED <<checkpoint, saved, lessee>> /\ flush[f] = "fetch"
      BY <2>2 DEF Fetch
    <3>2. CASE Returns(f)
      BY <2>0, <3>1, <3>2, ReturnsKeepsInv
    <3>3. CASE ~Returns(f)
      <4>1. UNCHANGED up
        BY <2>2, <3>3 DEF Fetch
      <4>2. \A g \in Flusher :
                \/ g # f /\ flush'[g] = flush[g] /\ batch'[g] = batch[g]
                \/ g = f /\ flush'[g] = "upsert" /\ batch'[g] = checkpoint
                \/ g = f /\ flush'[g] = "drop"
        BY <2>2, <3>3 DEF Fetch, TypeOK
      <4>3. SavedIsStored'
        BY <3>1 DEF FlusherInv, SavedIsStored
      <4>4. DrainedIsQuiet'
        BY <2>0, <3>1, <4>1, <4>2, FlusherParts DEF FlusherInv, DrainedIsQuiet
      <4>5. FinalFlushIsComplete'
        BY <3>1, <4>2, FlusherParts
           DEF FlusherInv, SavedIsStored, FinalFlushIsComplete
      <4> QED
        BY <4>3, <4>4, <4>5 DEF FlusherInv
    <3> QED
      BY <3>2, <3>3
  <2>3. CASE DropStale(f)
    BY <2>0, <2>3, ReturnsKeepsInv DEF DropStale
  <2>4. CASE Upsert(f)
    BY <2>0, <2>4, ReturnsKeepsInv DEF Upsert
  <2>5. CASE UpsertFails(f)
    BY <2>0, <2>5, ReturnsKeepsInv DEF UpsertFails
  <2> QED
    BY <1>9, <2>1, <2>2, <2>3, <2>4, <2>5 DEF FlushStep
<1>10. CASE UNCHANGED vars
  BY <1>10, <1>q, QuietSteps DEF vars
<1> QED
  BY <1>1, <1>2, <1>3, <1>4, <1>5, <1>6, <1>7, <1>8, <1>9, <1>10 DEF Next

\* The invariant holds in every reachable state.
LEMMA FlusherInvAlways == Spec => []FlusherInv
<1>1. Init => FlusherInv
  <2> SUFFICES ASSUME Init PROVE FlusherInv
    OBVIOUS
  <2>1. TypeOK
    BY FlusherAssumption DEF Init, TypeOK
  <2>2. \A i \in Instance : flush[<<i, "final">>] = "idle"
    BY FlusherParts DEF Init
  <2>3. SavedIsStored /\ DrainedIsQuiet
    BY <2>2, FlusherAssumption DEF Init, SavedIsStored, DrainedIsQuiet
  <2> QED
    BY <2>1, <2>2, <2>3 DEF FlusherInv, FinalFlushIsComplete
<1> QED
  BY <1>1, FlusherInvInductive, PTL DEF Spec

\* Every reachable state of the write-behind is well typed.
THEOREM FlusherTypeCorrect == Spec => []TypeOK
<1>1. FlusherInv => TypeOK
  BY DEF FlusherInv
<1> QED
  BY <1>1, FlusherInvAlways, PTL

\* "so we don't lose the final state": for any number of instances and any
\* ownership changes, what the final flush of a shutdown writes is no older than
\* anything the local workers saved.
THEOREM FinalFlushIsCompleteAlways == Spec => []FinalFlushIsComplete
<1>1. FlusherInv => FinalFlushIsComplete
  BY DEF FlusherInv
<1> QED
  BY <1>1, FlusherInvAlways, PTL
=============================================================================
