--------------------------- MODULE CommentPipeline ---------------------------
(* The data plane of one stream: StreamWorker._fetch_and_process_comments,
   _process_comment, _wait_for_delivery_batch and the checkpoint they advance,
   over the lives of successive workers.  Comments are numbered in the order
   Reddit lists them.

   External: asyncpraw's comment stream starts with the newest Window comments
   (or with none of them, skip_existing), never pages back beyond them, and then
   yields every new one; the Kafka producer reports success or failure for each
   message, in any order.                                                     *)
EXTENDS Naturals, FiniteSets

CONSTANTS
    MaxComments,        \* bound: comments posted to the subreddit
    MaxFailures,        \* bound: disconnects, failed deliveries, dead workers
    Window,             \* comments in the first listing of a session (100)
    Interval,           \* StreamWorker.checkpoint_interval (100)
    Invalid,            \* comments that validation or serialization rejects
    InitialCheckpoint   \* checkpoint at the outset; 0: none

Comment == 1..MaxComments

ASSUME PipelineAssumption ==
    /\ {MaxComments, MaxFailures} \subseteq Nat
    /\ {Window, Interval} \subseteq Nat \ {0}
    /\ Invalid \subseteq Comment
    /\ InitialCheckpoint \in 0..MaxComments

VARIABLES
    posted,      \* newest comment on Reddit
    first,       \* first comment the stream is responsible for; 0: never opened
    delivered,   \* comments that Kafka has acknowledged
    checkpoint,  \* stream:checkpoint:{id} last_comment_id; 0: none
    worker,      \* "none" (a reconciler will start one), "failed" (the stream has
                 \* a terminal status), "closed" (no Reddit session), "open", "waiting"
    base,        \* checkpoint that the session read when it opened
    next,        \* comment the session yields next
    count,       \* comments_since_checkpoint
    inflight,    \* unresolved entries of _pending_deliveries: <<comment, place>>
    nacked,      \* a resolved report in _pending_deliveries is an error
    failures,    \* failures so far
    leaving,     \* a worker that lost its lease: "no", or its next access to the
                 \* checkpoint, "save", "read" or "write"
    late,        \* the comment id that it writes
    lost         \* history: comments that were missing when a session opened
                 \* whose listing did not reach back to them

vars == <<posted, first, delivered, checkpoint, worker, base, next, count,
          inflight, nacked, failures, leaving, late, lost>>
session == <<worker, base, next>>
batch == <<count, inflight, nacked>>
leaver == <<leaving, late>>

\* The comments with an unresolved report.
Unresolved == {e[1] : e \in inflight}

TypeOK ==
    /\ posted \in 0..MaxComments
    /\ first \in 0..MaxComments + 1
    /\ delivered \subseteq Comment
    /\ checkpoint \in 0..MaxComments
    /\ worker \in {"none", "failed", "closed", "open", "waiting"}
    /\ base \in 0..MaxComments
    /\ next \in 1..MaxComments + 1
    /\ count \in 0..Interval
    /\ inflight \subseteq Comment \X Nat
    /\ nacked \in BOOLEAN
    /\ failures \in 0..MaxFailures
    /\ leaving \in {"no", "save", "read", "write"}
    /\ late \in 0..MaxComments
    /\ lost \subseteq Comment

Init ==
    /\ posted = InitialCheckpoint /\ checkpoint = InitialCheckpoint
    /\ first = IF InitialCheckpoint = 0 THEN 0 ELSE InitialCheckpoint + 1
    /\ delivered = {}
    /\ worker = "none" /\ base = 0 /\ next = 1
    /\ count = 0 /\ inflight = {} /\ nacked = FALSE
    /\ failures = 0
    /\ leaving = "no" /\ late = 0
    /\ lost = {}

\* The comments the stream should have delivered and has not.
Missing == {n \in Comment : first # 0 /\ n \in first..posted
                            /\ n \notin delivered \cup Invalid}

\* Those that the listing of every later session still held.
Owed == Missing \ lost

\* The first comment of a listing of the newest Window comments.
OldestListed == IF posted < Window THEN 1 ELSE posted + 1 - Window

\* A comment is posted.
Post ==
    /\ posted < MaxComments
    /\ posted' = posted + 1
    /\ UNCHANGED <<first, delivered, checkpoint, session, batch, failures, leaver, lost>>

\* The StreamWorker of a stream that is to run: after the start of the stream, and
\* by a reconciler after a crash, a drain or a lost lease.
StartWorker ==
    /\ worker = "none"
    /\ worker' = "closed"
    /\ UNCHANGED <<posted, first, delivered, checkpoint, base, next, batch, failures, leaver,
                   lost>>

\* No reconciler looks at a stream with a terminal status: somebody starts it again,
\* under the same id and from the checkpoint that was kept.
RestartStream ==
    /\ worker = "failed"
    /\ worker' = "closed"
    /\ UNCHANGED <<posted, first, delivered, checkpoint, base, next, batch, failures, leaver,
                   lost>>

\* A session that always skips what the first listing holds.
OpenSkippingExisting ==
    /\ worker = "closed"
    /\ worker' = "open"
    /\ base' = checkpoint
    /\ next' = posted + 1
    /\ first' = IF first = 0 THEN posted + 1 ELSE first
    /\ lost' = lost \cup {n \in Missing : n < OldestListed}
    /\ UNCHANGED <<posted, delivered, checkpoint, batch, failures, leaver>>

\* _fetch_and_process_comments opens a Reddit session.  Only without a
\* checkpoint does it skip what the first listing holds.
OpenSession ==
    /\ worker = "closed"
    /\ worker' = "open"
    /\ base' = checkpoint
    /\ next' = IF checkpoint = 0 THEN posted + 1 ELSE OldestListed
    /\ first' = IF first = 0 THEN posted + 1 ELSE first
    /\ lost' = lost \cup {n \in Missing : n < OldestListed}
    /\ UNCHANGED <<posted, delivered, checkpoint, batch, failures, leaver>>

\* Comments handed to the producer without ever waiting for a batch.
ProcessWithoutBatchLimit ==
    /\ worker = "open" /\ next <= posted
    /\ next' = next + 1
    /\ IF (base # 0 /\ next = base) \/ next \in Invalid
         THEN UNCHANGED batch
         ELSE /\ inflight' = inflight \cup {<<next, count + 1>>}
              /\ count' = count + 1
              /\ UNCHANGED nacked
    /\ UNCHANGED <<posted, first, delivered, checkpoint, worker, base, failures, leaver, lost>>

\* _process_comment up to the batch boundary: the checkpointed comment and an
\* invalid one are skipped, any other is handed to the Kafka producer.
ProcessComment ==
    /\ worker = "open" /\ next <= posted
    /\ next' = next + 1
    /\ IF (base # 0 /\ next = base) \/ next \in Invalid
         THEN UNCHANGED <<worker, batch>>
         ELSE /\ inflight' = inflight \cup {<<next, count + 1>>}
              /\ count' = count + 1
              /\ worker' = IF count + 1 >= Interval THEN "waiting" ELSE "open"
              /\ UNCHANGED nacked
    /\ UNCHANGED <<posted, first, delivered, checkpoint, base, failures, leaver, lost>>

\* on_delivery without an error.
Ack(n) ==
    /\ \E e \in inflight : e[1] = n /\ inflight' = inflight \ {e}
    /\ delivered' = delivered \cup {n}
    /\ UNCHANGED <<posted, first, checkpoint, session, count, nacked, failures, leaver, lost>>

\* on_delivery with an error.
Nack(n) ==
    /\ failures < MaxFailures
    /\ \E e \in inflight : e[1] = n /\ inflight' = inflight \ {e}
    /\ nacked' = TRUE
    /\ failures' = failures + 1
    /\ UNCHANGED <<posted, first, delivered, checkpoint, session, count, leaver, lost>>

\* Saving the checkpoint without looking at the delivery results.
SaveAnyBatch ==
    /\ worker = "waiting"
    /\ inflight = {}
    /\ worker' = "open"
    /\ checkpoint' \in {next - 1, checkpoint}
    /\ count' = 0 /\ nacked' = FALSE
    /\ UNCHANGED <<posted, first, delivered, base, next, inflight, failures, leaver, lost>>

\* _wait_for_delivery_batch returns: every report is a success.  The checkpoint
\* is written, or the write fails and is only logged.
SaveBatch ==
    /\ worker = "waiting"
    /\ inflight = {} /\ ~nacked
    /\ worker' = "open"
    /\ checkpoint' \in {next - 1, checkpoint}
    /\ count' = 0
    /\ UNCHANGED <<posted, first, delivered, base, next, inflight, nacked, failures, leaver, lost>>

\* The worker is gone; librdkafka may still deliver some of what it queued.
EndWorker(end) ==
    /\ worker' = end
    /\ \E S \in SUBSET Unresolved : delivered' = delivered \cup S
    /\ count' = 0 /\ inflight' = {} /\ nacked' = FALSE
    /\ base' = 0 /\ next' = 1
    /\ UNCHANGED <<posted, first, checkpoint, lost>>

\* A report in the batch is an error: KafkaDeliveryError, which is fatal.
BatchFails ==
    /\ worker = "waiting" /\ inflight = {} /\ nacked
    /\ EndWorker("failed")
    /\ UNCHANGED <<failures, leaver>>

\* Timeout of the batch, rejected produce, failed poll, fatal Reddit error, or a
\* stop: the stream ends with the status "error" or "stopped".
WorkerFails ==
    /\ worker \in {"closed", "open", "waiting"} /\ failures < MaxFailures
    /\ failures' = failures + 1
    /\ EndWorker("failed")
    /\ UNCHANGED leaver

\* Crash or drain of the instance: the stream stays runnable, and nothing of the
\* worker outlives its lease.
WorkerDies ==
    /\ worker \in {"closed", "open", "waiting"} /\ failures < MaxFailures
    /\ failures' = failures + 1
    /\ EndWorker("none")
    /\ UNCHANGED leaver

\* The lease expires under the worker, which goes on until it notices: a
\* successor may start while it saves the batch it has waited for, and while it
\* saves its final checkpoint.  Bound: one such worker at a time.
LoseLease ==
    /\ worker \in {"closed", "open", "waiting"}
    /\ leaving = "no" /\ failures < MaxFailures
    /\ failures' = failures + 1
    /\ EndWorker("none")
    /\ \/ leaving' = "read" /\ late' = 0
       \/ /\ worker = "waiting" /\ inflight = {} /\ ~nacked
          /\ leaving' = "save" /\ late' = next - 1

\* set_checkpoint of that batch, after the successor has started.
LateSave ==
    /\ leaving = "save"
    /\ checkpoint' \in {late, checkpoint}
    /\ leaving' = "read" /\ late' = 0
    /\ UNCHANGED <<posted, first, delivered, session, batch, failures, lost>>

\* _save_checkpoint: read the checkpoint ...
FinalRead ==
    /\ leaving = "read"
    /\ leaving' = IF checkpoint = 0 THEN "no" ELSE "write"
    /\ late' = checkpoint
    /\ UNCHANGED <<posted, first, delivered, checkpoint, session, batch, failures, lost>>

\* ... and write it back, over whatever the successor has saved meanwhile.
FinalWrite ==
    /\ leaving = "write"
    /\ checkpoint' \in {late, checkpoint}
    /\ leaving' = "no" /\ late' = 0
    /\ UNCHANGED <<posted, first, delivered, session, batch, failures, lost>>

\* Forgetting the batch when the session is reopened.
DisconnectResettingCount ==
    /\ worker = "open" /\ failures < MaxFailures
    /\ failures' = failures + 1
    /\ worker' = "closed" /\ base' = 0 /\ next' = 1
    /\ count' = 0
    /\ UNCHANGED <<posted, first, delivered, checkpoint, inflight, nacked, leaver, lost>>

\* A retryable Reddit error: the worker backs off and opens another session; the
\* batch in progress is kept.
Disconnect ==
    /\ worker = "open" /\ failures < MaxFailures
    /\ failures' = failures + 1
    /\ worker' = "closed" /\ base' = 0 /\ next' = 1
    /\ UNCHANGED <<posted, first, delivered, checkpoint, batch, leaver, lost>>

Next ==
    \/ Post \/ StartWorker \/ RestartStream \/ OpenSession \/ ProcessComment
    \/ \E n \in Comment : Ack(n) \/ Nack(n)
    \/ SaveBatch \/ BatchFails \/ WorkerFails \/ WorkerDies \/ Disconnect
    \/ LoseLease \/ LateSave \/ FinalRead \/ FinalWrite

\* Runnable streams are adopted, sessions reopened, comments processed and reports
\* delivered; comments, failures and restarts of a failed stream come or not.
Fairness ==
    /\ WF_vars(StartWorker) /\ WF_vars(OpenSession) /\ WF_vars(ProcessComment)
    /\ \A n \in Comment : WF_vars(Ack(n))
    /\ WF_vars(SaveBatch) /\ WF_vars(BatchFails)

Spec == Init /\ [][Next]_vars

FairSpec == Spec /\ Fairness

-----------------------------------------------------------------------------

\* "at-least-once recovery behavior", as far as it goes: whatever crashes,
\* disconnects and failed deliveries happened, and whenever a worker without a
\* lease writes its own value of the checkpoint, every comment up to the checkpoint
\* that the stream was responsible for has been delivered to Kafka, unless it is
\* invalid or no listing of a later session reached back to it.
NothingSkipped == \A n \in Owed : n > checkpoint

\* checkpoint_interval bounds the unresolved entries of _pending_deliveries, the
\* ones of replayed comments and of earlier sessions included.
PendingIsBounded == Cardinality(inflight) <= Interval

\* A comment that was not delivered is delivered after all, by the replay of a
\* later session, unless Reddit's listing does not reach back to it, the stream
\* fails and nobody starts it again, or its failed report sits in a batch that
\* never fills.  Failures are finite: this is about what follows the last of them.
MissingIsRedelivered ==
    \A n \in Comment :
        n \in Owed ~> \/ n \notin Owed
                      \/ worker = "failed"
                      \/ worker = "open" /\ nacked /\ count < Interval
=============================================================================
