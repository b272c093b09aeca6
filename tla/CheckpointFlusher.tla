-------------------------- MODULE CheckpointFlusher --------------------------
(* tasks/checkpoint_flusher.py: the write-behind of one stream's checkpoint from
   Redis to PostgreSQL, by whichever instance owns the stream, with the commands
   of update_status and heartbeat that keep the per-instance index it works from
   (streams:instance:{i}) and with the shutdown sequence of app.py's lifespan.

   A checkpoint is the version number of its hash.  The stream stays runnable;
   who may stream it is decided by the lease (see Lease, StreamManager).        *)
EXTENDS Naturals, FiniteSets

CONSTANTS
    Instance,
    None,          \* no instance
    Drainable,     \* instances that may shut down gracefully
    Crashable,     \* instances that may die
    MaxSaves,      \* checkpoints saved
    MaxFailures    \* failed upserts and lost leases

ASSUME FlusherAssumption ==
    /\ Instance # {} /\ None \notin Instance
    /\ Drainable \cup Crashable \subseteq Instance
    /\ MaxSaves \in Nat /\ MaxFailures \in Nat

VARIABLES
    \* Redis and PostgreSQL
    owner,       \* instance_id of stream:meta:{id}
    index,       \* instances whose index holds the stream
    checkpoint,  \* stream:checkpoint:{id}
    row,         \* the stream's row of stream_checkpoints
    \* the processes
    up,          \* life of the process
    lessee,      \* the instance that holds the lease
    activation,  \* update_status("active"): its next command
    previous,    \* the instance_id that it read
    flush,       \* the flusher's loop and the final flush: their place in _flush
    batch,       \* the checkpoint that each is about to write
    failures,
    saved        \* history: the last checkpoint that each instance's worker saved

keys    == <<owner, index, checkpoint, row>>
actives == <<activation, previous>>
flushes == <<flush, batch>>
vars    == <<keys, up, lessee, actives, flushes, failures, saved>>

\* The periodic task and the flush() that the shutdown calls.
Flusher == Instance \X {"loop", "final"}

TypeOK ==
    /\ owner \in Instance /\ index \subseteq Instance
    /\ checkpoint \in 0..MaxSaves /\ row \in 0..MaxSaves
    /\ up \in [Instance -> {"up", "drained", "flushed", "down", "crashed"}]
    /\ lessee \in Instance \cup {None}
    /\ activation \in [Instance -> {"none", "hset", "sadd", "srem"}]
    /\ previous \in [Instance -> Instance]
    /\ flush \in [Flusher -> {"idle", "fetch", "drop", "upsert"}]
    /\ batch \in [Flusher -> 0..MaxSaves]
    /\ failures \in 0..MaxFailures
    /\ saved \in [Instance -> 0..MaxSaves]

\* A stream that create_stream just stored for its owner; nobody holds its lease.
Init ==
    /\ owner \in Instance /\ index = {owner}
    /\ checkpoint = 0 /\ row = 0
    /\ up = [i \in Instance |-> "up"] /\ lessee = None
    /\ activation = [i \in Instance |-> "none"]
    /\ previous = [i \in Instance |-> i]
    /\ flush = [f \in Flusher |-> "idle"] /\ batch = [f \in Flusher |-> 0]
    /\ failures = 0 /\ saved = [i \in Instance |-> 0]

Alive(i) == up[i] \notin {"down", "crashed"}
Streaming(i) == lessee = i /\ activation[i] = "none"

-----------------------------------------------------------------------------
(* The owner: activation, heartbeats, checkpoints. *)

\* An activation that does not read the previous instance_id.
AdoptBlindly(i) ==
    /\ up[i] = "up" /\ lessee = None /\ activation[i] = "none"
    /\ lessee' = i
    /\ activation' = [activation EXCEPT ![i] = "hset"]
    /\ previous' = [previous EXCEPT ![i] = None]
    /\ UNCHANGED <<keys, up, flushes, failures, saved>>

\* An instance got the lease; update_status reads the previous instance_id.
Adopt(i) ==
    /\ up[i] = "up" /\ lessee = None /\ activation[i] = "none"
    /\ lessee' = i
    /\ activation' = [activation EXCEPT ![i] = "hset"]
    /\ previous' = [previous EXCEPT ![i] = owner]
    /\ UNCHANGED <<keys, up, flushes, failures, saved>>

\* HSET of status and instance_id.
WriteOwner(i) ==
    /\ activation[i] = "hset"
    /\ owner' = i
    /\ activation' = [activation EXCEPT ![i] = "sadd"]
    /\ UNCHANGED <<index, checkpoint, row, up, lessee, previous, flushes, failures, saved>>

\* SADD to the instance's own index.
JoinIndex(i) ==
    /\ activation[i] = "sadd"
    /\ index' = index \cup {i}
    /\ activation' = [activation EXCEPT ![i] = IF previous[i] = i THEN "none" ELSE "srem"]
    /\ UNCHANGED <<owner, checkpoint, row, up, lessee, previous, flushes, failures, saved>>

\* SREM from the index of the previous owner.
LeaveIndex(i) ==
    /\ activation[i] = "srem"
    /\ index' = index \ {previous[i]}
    /\ activation' = [activation EXCEPT ![i] = "none"]
    /\ previous' = [previous EXCEPT ![i] = i]
    /\ UNCHANGED <<owner, checkpoint, row, up, lessee, flushes, failures, saved>>

\* A heartbeat that refreshes updated_at only.
HeartbeatWithoutIndex(i) ==
    /\ Streaming(i) /\ owner = i /\ i \notin index
    /\ UNCHANGED vars

\* _HEARTBEAT_IF_ACTIVE_SCRIPT.
Heartbeat(i) ==
    /\ Streaming(i) /\ owner = i
    /\ index' = index \cup {i}
    /\ UNCHANGED <<owner, checkpoint, row, up, lessee, actives, flushes, failures, saved>>

\* The worker saves a checkpoint to Redis.
Save(i) ==
    /\ Streaming(i) /\ checkpoint < MaxSaves
    /\ checkpoint' = checkpoint + 1
    /\ saved' = [saved EXCEPT ![i] = checkpoint + 1]
    /\ UNCHANGED <<owner, index, row, up, lessee, actives, flushes, failures>>

\* The lease is lost: its worker has ended, or the activation took too long, and
\* its commands go on.
LoseLease(i) ==
    /\ lessee = i /\ failures < MaxFailures
    /\ lessee' = None
    /\ failures' = failures + 1
    /\ UNCHANGED <<keys, up, actives, flushes, saved>>

-----------------------------------------------------------------------------
(* CheckpointFlusher. *)

\* _flush has returned or raised, which flush() logs.
Returns(f) ==
    /\ flush' = [flush EXCEPT ![f] = "idle"] /\ batch' = [batch EXCEPT ![f] = 0]
    /\ up' = IF f[2] = "final" THEN [up EXCEPT ![f[1]] = "flushed"] ELSE up

\* The periodic task wakes up, or the shutdown calls flush().
MayFlush(f) ==
    /\ flush[f] = "idle"
    /\ IF f[2] = "loop" THEN Alive(f[1]) /\ up[f[1]] # "flushed" ELSE up[f[1]] = "drained"

\* SMEMBERS of the index; an empty one ends the flush.
ReadIndex(f) ==
    /\ MayFlush(f)
    /\ \/ f[1] \in index /\ flush' = [flush EXCEPT ![f] = "fetch"] /\ UNCHANGED <<batch, up>>
       \/ f[1] \notin index /\ Returns(f)
    /\ UNCHANGED <<keys, lessee, actives, failures, saved>>

\* The pipeline that reads the metadata and the checkpoint in one transaction: a
\* stream of another instance is stale, one without a checkpoint is passed over.
Fetch(f) ==
    /\ flush[f] = "fetch"
    /\ \/ /\ owner = f[1] /\ checkpoint > 0
          /\ flush' = [flush EXCEPT ![f] = "upsert"]
          /\ batch' = [batch EXCEPT ![f] = checkpoint]
          /\ UNCHANGED up
       \/ owner = f[1] /\ checkpoint = 0 /\ Returns(f)
       \/ owner # f[1] /\ flush' = [flush EXCEPT ![f] = "drop"] /\ UNCHANGED <<batch, up>>
    /\ UNCHANGED <<keys, lessee, actives, failures, saved>>

\* A stale entry that is skipped and stays in the index.
SkipStale(f) ==
    /\ flush[f] = "drop"
    /\ Returns(f)
    /\ UNCHANGED <<keys, lessee, actives, failures, saved>>

\* SREM of an entry whose stream belongs to another instance.
DropStale(f) ==
    /\ flush[f] = "drop"
    /\ index' = index \ {f[1]}
    /\ Returns(f)
    /\ UNCHANGED <<owner, checkpoint, row, lessee, actives, failures, saved>>

\* _upsert_checkpoints commits.
Upsert(f) ==
    /\ flush[f] = "upsert"
    /\ row' = batch[f]
    /\ Returns(f)
    /\ UNCHANGED <<owner, index, checkpoint, lessee, actives, failures, saved>>

\* _upsert_checkpoints rolls back.
UpsertFails(f) ==
    /\ flush[f] = "upsert" /\ failures < MaxFailures
    /\ failures' = failures + 1
    /\ Returns(f)
    /\ UNCHANGED <<keys, lessee, actives, saved>>

-----------------------------------------------------------------------------
(* Shutdown and crash. *)

\* A shutdown that flushes while the local worker still streams.
FlushBeforeDrain(i) ==
    /\ i \in Drainable /\ up[i] = "up" /\ activation[i] = "none"
    /\ up' = [up EXCEPT ![i] = "drained"]
    /\ UNCHANGED <<keys, lessee, actives, flushes, failures, saved>>

\* stop_all: the local worker has ended and released its lease.
StopAll(i) ==
    /\ i \in Drainable /\ up[i] = "up" /\ activation[i] = "none"
    /\ up' = [up EXCEPT ![i] = "drained"]
    /\ lessee' = IF lessee = i THEN None ELSE lessee
    /\ UNCHANGED <<keys, actives, flushes, failures, saved>>

\* flusher.stop: the loop is over, by itself or cancelled after 5 s.
StopFlusher(i) ==
    /\ up[i] = "flushed"
    /\ up' = [up EXCEPT ![i] = "down"]
    /\ flush' = [flush EXCEPT ![<<i, "loop">>] = "idle"]
    /\ batch' = [batch EXCEPT ![<<i, "loop">>] = 0]
    /\ UNCHANGED <<keys, lessee, actives, failures, saved>>

\* The process dies.
Crash(i) ==
    /\ i \in Crashable /\ Alive(i)
    /\ up' = [up EXCEPT ![i] = "crashed"]
    /\ lessee' = IF lessee = i THEN None ELSE lessee
    /\ activation' = [activation EXCEPT ![i] = "none"]
    /\ previous' = [previous EXCEPT ![i] = i]
    /\ flush' = [f \in Flusher |-> IF f[1] = i THEN "idle" ELSE flush[f]]
    /\ batch' = [f \in Flusher |-> IF f[1] = i THEN 0 ELSE batch[f]]
    /\ UNCHANGED <<keys, failures, saved>>

-----------------------------------------------------------------------------

Activation(i) == WriteOwner(i) \/ JoinIndex(i) \/ LeaveIndex(i)

FlushStep(f) == ReadIndex(f) \/ Fetch(f) \/ DropStale(f) \/ Upsert(f)

Next ==
    \/ \E i \in Instance :
         \/ Adopt(i) \/ Activation(i) \/ Heartbeat(i) \/ Save(i) \/ LoseLease(i)
         \/ StopAll(i) \/ StopFlusher(i) \/ Crash(i)
    \/ \E f \in Flusher : FlushStep(f) \/ UpsertFails(f)

Spec == Init /\ [][Next]_vars

\* Reconcilers adopt, activations go on, heartbeats and flushes recur, shutdowns
\* end.  Checkpoints, failures, shutdowns and crashes happen or not.
Fairness ==
    /\ \A i \in Instance :
         /\ WF_vars(Adopt(i)) /\ WF_vars(Activation(i)) /\ WF_vars(Heartbeat(i))
         /\ WF_vars(StopFlusher(i))
    /\ \A f \in Flusher : WF_vars(FlushStep(f))

FairSpec == Spec /\ Fairness

-----------------------------------------------------------------------------
(* Properties. *)

\* "Redis checkpoints are asynchronously persisted to PostgreSQL": whatever late
\* upserts, index updates and ownership changes happened, the row ends up with
\* the last checkpoint, unless an activation that outlasted its lease left the
\* registry with another owner than the instance that streams.
RowCatchesUp == <>[](row = checkpoint \/ owner # lessee)

\* "Discard stale index entries": an index ends up without the streams of others.
IndexIsCleaned == <>[](\A i \in index : i = owner \/ ~Alive(i))

\* "After workers have stopped, immediately flush Redis checkpoints to Postgres so
\* we don't lose the final state": what the final flush writes is no older than
\* anything the local workers ever saved.
FinalFlushIsComplete ==
    \A i \in Instance :
        flush[<<i, "final">>] = "upsert" => batch[<<i, "final">>] >= saved[i]
=============================================================================
