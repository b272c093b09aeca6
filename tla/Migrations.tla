----------------------------- MODULE Migrations -----------------------------
(* The migration runner (python -m src.migrations): several runners, each with
   the SQL files of its own release, start against one database.  A migration is
   known by its version, the name of its file; names are numbers here, in the order
   in which the directory is sorted.

   External: a PostgreSQL transaction shows nothing before it commits, ends when
   its connection does, and then gives the advisory lock back; a commit may
   succeed while its answer is lost.                                            *)
EXTENDS Integers, Sequences

CONSTANTS
    Runner,     \* the processes that run the migrations
    Checksum,   \* the contents a migration file can have
    Image,      \* Image[r]: the sorted files of the release of r, <<name, checksum>>
    MaxWait,    \* MAX_MIGRATION_WAIT_SECONDS in steps of the retry delay
    None        \* nobody holds the advisory lock

ASSUME MigrationsAssumption ==
    /\ None \notin Runner
    /\ Image \in [Runner -> Seq(Nat \X Checksum)]
    /\ \A r \in Runner : \A v, w \in 1..Len(Image[r]) :
          v < w => Image[r][v][1] < Image[r][w][1]
    /\ MaxWait \in Nat

VARIABLES
    schema,     \* the scripts whose effects are committed, in order
    recorded,   \* the committed rows of schema_migrations
    lock,       \* who holds the transaction-scoped advisory lock
    pc,         \* where each runner is
    applied,    \* the rows of schema_migrations that it has read
    at,         \* the file that it looks at
    ran,        \* the scripts that its open transaction has run
    rows,       \* the rows that its open transaction has inserted
    elapsed     \* how much of the deadline of _run_with_retry is used up

vars == <<schema, recorded, lock, pc, applied, at, ran, rows, elapsed>>
committed == <<schema, recorded>>
transaction == <<applied, at, ran, rows>>

File == Nat \X Checksum
Scripts(files) == {files[n] : n \in 1..Len(files)}
Attempting == {"lock", "read", "files", "record", "answer"}
Ended      == {"done", "failed", "crashed"}

TypeOK ==
    /\ schema \in Seq(File)
    /\ recorded \subseteq File
    /\ lock \in Runner \cup {None}
    /\ pc \in [Runner -> Attempting \cup {"sleep"} \cup Ended]
    /\ applied \in [Runner -> SUBSET File]
    /\ at \in [Runner -> Nat \ {0}]
    /\ ran \in [Runner -> Seq(File)]
    /\ rows \in [Runner -> SUBSET File]
    /\ elapsed \in [Runner -> 0..MaxWait]

Init ==
    /\ schema = <<>> /\ recorded = {} /\ lock = None
    /\ pc = [r \in Runner |-> "lock"]
    /\ applied = [r \in Runner |-> {}]
    /\ at = [r \in Runner |-> 1]
    /\ ran = [r \in Runner |-> <<>>]
    /\ rows = [r \in Runner |-> {}]
    /\ elapsed = [r \in Runner |-> 0]

Goto(r, l) == pc' = [pc EXCEPT ![r] = l]

\* The variables of the attempt are gone.
Forget(r) ==
    /\ applied' = [applied EXCEPT ![r] = {}]
    /\ at' = [at EXCEPT ![r] = 1]
    /\ ran' = [ran EXCEPT ![r] = <<>>]
    /\ rows' = [rows EXCEPT ![r] = {}]

\* The transaction of r ends, and its lock with it.
EndTransaction(r) ==
    /\ lock' = IF lock = r THEN None ELSE lock
    /\ Forget(r)

-----------------------------------------------------------------------------
(* One attempt: execute_migrations. *)

\* The lock is tried for and the answer is not looked at.
LockUnheard(r) ==
    /\ pc[r] = "lock"
    /\ lock' = IF lock = None THEN r ELSE lock
    /\ Goto(r, "read")
    /\ UNCHANGED <<committed, transaction, elapsed>>

\* Connect, begin, and wait without a limit for pg_advisory_xact_lock.
Lock(r) ==
    /\ pc[r] = "lock" /\ lock = None
    /\ lock' = r
    /\ Goto(r, "read")
    /\ UNCHANGED <<committed, transaction, elapsed>>

ReadApplied(r) ==
    /\ pc[r] = "read"
    /\ applied' = [applied EXCEPT ![r] = recorded]
    /\ Goto(r, "files")
    /\ UNCHANGED <<committed, lock, at, ran, rows, elapsed>>

AtFile(r) == pc[r] = "files" /\ at[r] <= Len(Image[r])
FileOf(r) == Image[r][at[r]]
IsApplied(r) == \E f \in applied[r] : f[1] = FileOf(r)[1]

\* A file counts as applied by its version, whatever its checksum.
SkipAnyChecksum(r) ==
    /\ AtFile(r) /\ IsApplied(r)
    /\ at' = [at EXCEPT ![r] = @ + 1]
    /\ UNCHANGED <<committed, lock, pc, applied, ran, rows, elapsed>>

Skip(r) ==
    /\ AtFile(r) /\ FileOf(r) \in applied[r]
    /\ at' = [at EXCEPT ![r] = @ + 1]
    /\ UNCHANGED <<committed, lock, pc, applied, ran, rows, elapsed>>

\* An applied file has been modified: RuntimeError, which is not retried.
Refuse(r) ==
    /\ AtFile(r) /\ IsApplied(r) /\ FileOf(r) \notin applied[r]
    /\ EndTransaction(r)
    /\ Goto(r, "failed")
    /\ UNCHANGED <<committed, elapsed>>

\* The script runs in autocommit, outside the transaction.
ExecuteInAutocommit(r) ==
    /\ AtFile(r) /\ ~IsApplied(r)
    /\ schema' = Append(schema, FileOf(r))
    /\ Goto(r, "record")
    /\ UNCHANGED <<recorded, lock, transaction, elapsed>>

Execute(r) ==
    /\ AtFile(r) /\ ~IsApplied(r)
    /\ ran' = [ran EXCEPT ![r] = Append(@, FileOf(r))]
    /\ Goto(r, "record")
    /\ UNCHANGED <<committed, lock, applied, at, rows, elapsed>>

\* What the driver raises in a script comes unwrapped through the raw connection
\* and is not one of the retryable types.
ScriptFault(r) ==
    /\ AtFile(r) /\ ~IsApplied(r)
    /\ EndTransaction(r)
    /\ Goto(r, "failed")
    /\ UNCHANGED <<committed, elapsed>>

\* One transaction per file.
RecordAndCommit(r) ==
    /\ pc[r] = "record"
    /\ schema' = schema \o ran[r]
    /\ recorded' = recorded \cup {FileOf(r)}
    /\ applied' = [applied EXCEPT ![r] = recorded']
    /\ at' = [at EXCEPT ![r] = @ + 1]
    /\ ran' = [ran EXCEPT ![r] = <<>>]
    /\ Goto(r, "files")
    /\ UNCHANGED <<lock, rows, elapsed>>

Record(r) ==
    /\ pc[r] = "record"
    /\ rows' = [rows EXCEPT ![r] = @ \cup {FileOf(r)}]
    /\ at' = [at EXCEPT ![r] = @ + 1]
    /\ Goto(r, "files")
    /\ UNCHANGED <<committed, lock, applied, ran, elapsed>>

\* A session lock, which the end of the transaction does not release.
CommitKeepsLock(r) ==
    /\ pc[r] = "files" /\ at[r] > Len(Image[r])
    /\ schema' = schema \o ran[r]
    /\ recorded' = recorded \cup rows[r]
    /\ Forget(r)
    /\ Goto(r, "answer")
    /\ UNCHANGED <<lock, elapsed>>

\* engine.begin() commits on the server; the runner learns of it in Return.
Commit(r) ==
    /\ pc[r] = "files" /\ at[r] > Len(Image[r])
    /\ schema' = schema \o ran[r]
    /\ recorded' = recorded \cup rows[r]
    /\ EndTransaction(r)
    /\ Goto(r, "answer")
    /\ UNCHANGED elapsed

Return(r) ==
    /\ pc[r] = "answer"
    /\ Goto(r, "done")
    /\ UNCHANGED <<committed, lock, transaction, elapsed>>

-----------------------------------------------------------------------------
(* _run_with_retry *)

\* The deadline is compared the wrong way, and the last sleep passes it.
FaultPastDeadline(r) ==
    /\ pc[r] \in Attempting
    /\ EndTransaction(r)
    /\ \E now \in elapsed[r]..MaxWait : elapsed' = [elapsed EXCEPT ![r] = now]
    /\ Goto(r, "sleep")
    /\ UNCHANGED committed

\* A retryable error, after an attempt of any length: close_db, then the deadline.
Fault(r) ==
    /\ pc[r] \in Attempting
    /\ EndTransaction(r)
    /\ \E now \in elapsed[r]..MaxWait :
         /\ elapsed' = [elapsed EXCEPT ![r] = now]
         /\ Goto(r, IF now < MaxWait THEN "sleep" ELSE "failed")
    /\ UNCHANGED committed

Sleep(r) ==
    /\ pc[r] = "sleep"
    /\ elapsed' = [elapsed EXCEPT ![r] = @ + 1]
    /\ Goto(r, "lock")
    /\ UNCHANGED <<committed, lock, transaction>>

\* The process is killed.
Crash(r) ==
    /\ pc[r] \notin Ended
    /\ EndTransaction(r)
    /\ Goto(r, "crashed")
    /\ UNCHANGED <<committed, elapsed>>

-----------------------------------------------------------------------------

Step(r) == \/ Lock(r) \/ ReadApplied(r) \/ Skip(r) \/ Refuse(r) \/ Execute(r)
           \/ Record(r) \/ Commit(r) \/ Return(r) \/ Sleep(r)

Next == \E r \in Runner : Step(r) \/ Fault(r) \/ ScriptFault(r) \/ Crash(r)

Spec == Init /\ [][Next]_vars

\* A runner goes on while it can; that anything fails is never assumed.
FairSpec == Spec /\ \A r \in Runner : WF_vars(Step(r))

-----------------------------------------------------------------------------

\* "A migration runs once and is recorded atomically with its schema changes":
\* wherever a runner dies and whatever is tried again, the committed rows of
\* schema_migrations are the scripts whose effects are committed, each once.
RecordedWithSchema ==
    /\ recorded = Scripts(schema)
    /\ \A m, n \in 1..Len(schema) : schema[m][1] = schema[n][1] => m = n

\* One transaction around all the files: whatever fails, and however runners of
\* different releases follow each other, a release is in the database with all of its
\* files or with none that is its own.
WholeReleases ==
    \E S \in SUBSET Runner : recorded = UNION {Scripts(Image[r]) : r \in S}

History == INSTANCE SchemaHistory WITH Release <- {Scripts(Image[r]) : r \in Runner}

\* The checksums are compared inside that transaction: the committed schema grows, in a
\* single step, by everything that it lacks of a release that agrees with it, in the
\* order of the names, and never shrinks.
ImplementsHistory == History!Spec

\* The lock is taken before schema_migrations is read and held until the commit:
\* a runner decides by what is committed, and no insert meets a version that
\* another runner has recorded meanwhile.
AppliedIsCurrent ==
    \A r \in Runner : pc[r] \in {"files", "record"} => applied[r] = recorded

\* Every runner comes to an end, though the wait for the lock has no limit of its
\* own and errors may go on until the deadline.
EveryRunnerEnds == \A r \in Runner : <>(pc[r] \in Ended)
=============================================================================
