------------------------ MODULE StreamManagerProofs ------------------------
(* Proofs about StreamManager for any number of instances, starts, stops,
   faults, drains and crashes.                                               *)
EXTENDS StreamManager, TLAPS

-----------------------------------------------------------------------------
(* Types. *)

\* The parts of TypeOK: what is in Redis, the requests, the tasks.
RedisTyped ==
    /\ status \in Status
    /\ owner \in Instance
    /\ listed \in BOOLEAN /\ stopKey \in BOOLEAN
    /\ lease \in Holder \cup {Free}

RequestsTyped ==
    /\ up \in [Instance -> {"up", "draining", "drained", "down", "crashed"}]
    /\ call \in [Caller -> CallPC]
    /\ snap \in [Instance -> BOOLEAN]
    /\ stopper \in [Instance -> {"idle", "publish", "mark", "cancel"}]
    /\ stopOwner \in [Instance -> Instance]

TasksTyped ==
    /\ inTasks \in [Instance -> BOOLEAN]
    /\ task \in [Instance -> TaskPC]
    /\ worker \in [Instance -> WorkerPC]
    /\ outcome \in [Instance -> {"none", "cancelled", "lost", "failed"}]
    /\ watcher \in [Instance -> {"none", "polling", "failed"}]

\* TypeOK is the conjunction of its parts.
LEMMA TypeParts == TypeOK <=> RedisTyped /\ RequestsTyped /\ TasksTyped
BY DEF TypeOK, RedisTyped, RequestsTyped, TasksTyped

\* runner_task.cancel() leaves the worker and the lease well typed.
LEMMA CancelRunnerTypes ==
  ASSUME TypeOK, NEW i \in Instance, CancelRunner(i)
  PROVE  /\ worker' \in [Instance -> WorkerPC]
         /\ outcome' \in [Instance -> {"none", "cancelled", "lost", "failed"}]
         /\ lease' \in Holder \cup {Free}
<1> USE DEF TypeOK, CancelRunner
<1>1. worker' \in [Instance -> WorkerPC]
  BY DEF WorkerPC
<1>2. outcome' \in [Instance -> {"none", "cancelled", "lost", "failed"}]
  OBVIOUS
<1>3. lease' \in Holder \cup {Free}
  BY DEF Holder, Abandoned
<1> QED
  BY <1>1, <1>2, <1>3

\* task.cancel() leaves the tasks and the lease well typed.
LEMMA CancelTaskTypes ==
  ASSUME TypeOK, NEW i \in Instance, CancelTask(i)
  PROVE  TasksTyped' /\ lease' \in Holder \cup {Free}
<1> USE DEF TypeOK, TasksTyped, run, Task, Watcher
<1>1. CASE task[i] = "none"
  BY <1>1 DEF CancelTask
<1>2. CASE task[i] = "created"
  BY <1>2 DEF CancelTask, Holder, Abandoned, TaskPC
<1>3. CASE task[i] = "waiting"
  BY <1>3, CancelRunnerTypes DEF CancelTask, TaskPC
<1>4. CASE task[i] = "leaving" /\ worker[i] = "ended"
  BY <1>4 DEF CancelTask, TaskPC
<1>5. CASE task[i] \in {"stopping", "cancelled"} \/ (task[i] = "leaving" /\ worker[i] # "ended")
  BY <1>5, CancelRunnerTypes DEF CancelTask
<1>6. CASE task[i] = "marking"
  BY <1>6 DEF CancelTask, TaskPC
<1>7. CASE task[i] \in {"deciding", "recording", "erring"}
  BY <1>7, CancelRunnerTypes DEF CancelTask, TaskPC
<1> QED
  BY <1>1, <1>2, <1>3, <1>4, <1>5, <1>6, <1>7 DEF TaskPC

\* Steps of start_stream and resume_stream keep the state well typed.
LEMMA CallsKeepTypes ==
  ASSUME TypeOK, NEW c \in Caller, CallStep(c) \/ CallFails(c) PROVE TypeOK'
<1> USE ConstantsAssumption DEF TypeOK, Caller, Holder, CallPC, Step, redis, run, stops
<1>1. CASE Acquire(c)
  <2>1. call' \in [Caller -> CallPC] /\ lease' \in Holder \cup {Free}
    BY <1>1 DEF Acquire
  <2>2. snap' \in [Instance -> BOOLEAN]
    BY <1>1 DEF Acquire
  <2> QED
    BY <1>1, <2>1, <2>2 DEF Acquire
<1>2. CASE Enter(c) BY <1>2 DEF Enter
<1>3. CASE Verify(c) BY <1>3 DEF Verify
<1>4. CASE Activate(c) BY <1>4 DEF Activate, HSet, Unsnapped, Status
<1>5. CASE Confirm(c)
  <2>1. CASE lease = c
    <3>1. c[1] \in Instance
      OBVIOUS
    <3>2. inTasks' \in [Instance -> BOOLEAN]
      BY <1>5, <2>1, <3>1 DEF Confirm, Launch
    <3>3. /\ task' \in [Instance -> TaskPC]
          /\ worker' \in [Instance -> WorkerPC]
      BY <1>5, <2>1, <3>1 DEF Confirm, Launch, TaskPC, WorkerPC
    <3>4. /\ outcome' \in [Instance -> {"none", "cancelled", "lost", "failed"}]
          /\ watcher' \in [Instance -> {"none", "polling", "failed"}]
      BY <1>5, <2>1, <3>1 DEF Confirm, Launch
    <3>5. lease' \in Holder \cup {Free} /\ call' \in [Caller -> CallPC]
      BY <1>5, <2>1, <3>1 DEF Confirm, Launch
    <3> QED
      BY <1>5, <3>2, <3>3, <3>4, <3>5 DEF Confirm
  <2>2. CASE lease # c
    BY <1>5, <2>2 DEF Confirm
  <2> QED
    BY <2>1, <2>2
<1>6. CASE GiveUp(c) BY <1>6 DEF GiveUp, Abandoned, Freed
<1>7. CASE CallFails(c) BY <1>7 DEF CallFails, Abandoned
<1> QED
  BY <1>1, <1>2, <1>3, <1>4, <1>5, <1>6, <1>7 DEF CallStep

\* Creating, undoing and adopting keep the state well typed.
LEMMA AdoptionKeepsTypes ==
  ASSUME TypeOK, NEW i \in Instance,
         Create(i) \/ UndoCreate(i) \/ Reconcile(i) \/ ResumeStep(i)
  PROVE  TypeOK'
<1> USE DEF TypeOK, Caller, CallPC, Step, redis, run, stops, Unsnapped
<1>1. CASE Create(i)
  <2>1. status' \in Status /\ owner' \in Instance /\ listed' \in BOOLEAN
    BY <1>1 DEF Create, Status
  <2>2. snap' \in [Instance -> BOOLEAN]
    BY <1>1 DEF Create
  <2>3. call' \in [Caller -> CallPC]
    BY <1>1 DEF Create
  <2> QED
    BY <1>1, <2>1, <2>2, <2>3 DEF Create
<1>2. CASE UndoCreate(i)
  <2>1. status' \in Status /\ listed' \in BOOLEAN /\ stopKey' \in BOOLEAN
    BY <1>2 DEF UndoCreate, DeleteEntry, Status
  <2>2. snap' \in [Instance -> BOOLEAN]
    BY <1>2 DEF UndoCreate, DeleteEntry
  <2>3. call' \in [Caller -> CallPC]
    BY <1>2 DEF UndoCreate
  <2> QED
    BY <1>2, <2>1, <2>2, <2>3 DEF UndoCreate
<1>3. CASE Reconcile(i) BY <1>3 DEF Reconcile
<1>4. CASE Reread(i) BY <1>4 DEF Reread
<1>5. CASE StopCheck(i) BY <1>5 DEF StopCheck
<1> QED
  BY <1>1, <1>2, <1>3, <1>4, <1>5 DEF ResumeStep

\* Steps of the runner keep the state well typed.
LEMMA RunnerKeepsTypes ==
  ASSUME TypeOK, NEW i \in Instance, WorkerStep(i) \/ LoseLock(i) \/ FatalError(i)
  PROVE  TypeOK'
<1> USE DEF TypeOK, redis, run, stops, Worker, Ends, WorkerPC, Abandoned, Freed, Holder
<1>1. CASE Build(i) BY <1>1 DEF Build
<1>2. CASE FirstRefresh(i) BY <1>2 DEF FirstRefresh
<1>3. CASE ReportFatal(i) BY <1>3 DEF ReportFatal, HSetIfOwner, Unsnapped, Status
<1>4. CASE Saved(i) BY <1>4 DEF Saved
<1>5. CASE Release(i) BY <1>5 DEF Release
<1>6. CASE LoseLock(i) BY <1>6 DEF LoseLock
<1>7. CASE FatalError(i) BY <1>7 DEF FatalError, HSetIfOwner, Unsnapped, Status
<1> QED
  BY <1>1, <1>2, <1>3, <1>4, <1>5, <1>6, <1>7 DEF WorkerStep

\* Steps of _run keep the state well typed.
LEMMA TaskKeepsTypes ==
  ASSUME TypeOK, NEW i \in Instance, TaskStep(i) \/ WatcherFails(i) \/ MarkFails(i)
  PROVE  TypeOK'
<1> USE DEF TypeOK, redis, run, stops, Task, Watcher
<1>1. CASE FirstStep(i) BY <1>1 DEF FirstStep, TaskPC, Worker, WorkerPC
<1>2. CASE WatcherFires(i) BY <1>2, CancelRunnerTypes DEF WatcherFires, TaskPC
<1>3. CASE RunnerDone(i)
  <2>1. task' \in [Instance -> TaskPC]
    BY <1>3 DEF RunnerDone, TaskPC
  <2> QED
    BY <1>3, <2>1 DEF RunnerDone
<1>4. CASE Decide(i) BY <1>4 DEF Decide, TaskPC
<1>5. CASE MarkStopped(i)
  BY <1>5 DEF MarkStopped, HSetIfOwner, Unsnapped, Status, TaskPC
<1>6. CASE MarkError(i)
  <2>1. status' \in Status /\ snap' \in [Instance -> BOOLEAN]
    BY <1>6 DEF MarkError, HSetIfOwner, Unsnapped, Status
  <2>2. task' \in [Instance -> TaskPC]
    BY <1>6 DEF MarkError, TaskPC
  <2> QED
    BY <1>6, <2>1, <2>2, CancelRunnerTypes DEF MarkError
<1>7. CASE Leave(i)
  <2>1. inTasks' \in [Instance -> BOOLEAN]
    BY <1>7 DEF Leave
  <2>2. /\ task' \in [Instance -> TaskPC] /\ worker' \in [Instance -> WorkerPC]
        /\ outcome' \in [Instance -> {"none", "cancelled", "lost", "failed"}]
        /\ watcher' \in [Instance -> {"none", "polling", "failed"}]
    BY <1>7 DEF Leave, Worker, Ends, TaskPC, WorkerPC
  <2> QED
    BY <1>7, <2>1, <2>2 DEF Leave
<1>8. CASE WatcherFails(i) BY <1>8 DEF WatcherFails, TaskPC
<1>9. CASE MarkFails(i)
  <2>1. task' \in [Instance -> TaskPC]
    BY <1>9 DEF MarkFails, TaskPC
  <2> QED
    BY <1>9, <2>1, CancelRunnerTypes DEF MarkFails
<1> QED
  BY <1>1, <1>2, <1>3, <1>4, <1>5, <1>6, <1>7, <1>8, <1>9 DEF TaskStep

\* Steps of stop_stream keep the state well typed.
LEMMA StopKeepsTypes ==
  ASSUME TypeOK, NEW i \in Instance, StopBegins(i) \/ StopStep(i)
  PROVE  TypeOK'
<1> USE DEF TypeOK, redis, run, stops, Stopper
<1>1. CASE StopBegins(i) BY <1>1 DEF StopBegins
<1>2. CASE Publish(i) BY <1>2 DEF Publish
<1>3. CASE MarkStopping(i) BY <1>3 DEF MarkStopping, HSet, Unsnapped, Status
<1>4. CASE StopCancels(i)
  <2>1. TasksTyped' /\ lease' \in Holder \cup {Free}
    BY <1>4, CancelTaskTypes DEF StopCancels, TasksTyped
  <2> QED
    BY <1>4, <2>1 DEF StopCancels, TasksTyped
<1> QED
  BY <1>1, <1>2, <1>3, <1>4 DEF StopStep

\* Shutdown, crash and upkeep keep the state well typed.
LEMMA UpkeepKeepsTypes ==
  ASSUME TypeOK,
         \/ \E i \in Instance :
              StopAllBegins(i) \/ DrainStep(i) \/ Crash(i) \/ Finalize(i)
         \/ Cleanup
         \/ Expire
  PROVE  TypeOK'
<1> USE DEF TypeOK, redis, run, stops
<1>1. ASSUME NEW i \in Instance, StopAllBegins(i) PROVE TypeOK'
  BY <1>1 DEF StopAllBegins, Step, CallPC, Caller, Holder, Abandoned
<1>2. ASSUME NEW i \in Instance, StopAllCancels(i) PROVE TypeOK'
  <2>1. TasksTyped' /\ lease' \in Holder \cup {Free}
    BY <1>2, CancelTaskTypes DEF StopAllCancels, TasksTyped
  <2> QED
    BY <1>2, <2>1 DEF StopAllCancels, TasksTyped
<1>3. ASSUME NEW i \in Instance, Exit(i) PROVE TypeOK'
  <2>1. inTasks' \in [Instance -> BOOLEAN]
    BY <1>3 DEF Exit
  <2> QED
    BY <1>3, <2>1 DEF Exit
<1>4. ASSUME NEW i \in Instance, Crash(i) PROVE TypeOK'
  <2>1. inTasks' \in [Instance -> BOOLEAN]
    BY <1>4 DEF Crash
  <2>2. snap' \in [Instance -> BOOLEAN]
    BY <1>4 DEF Crash
  <2>3. lease' \in Holder \cup {Free}
    BY <1>4 DEF Crash, Holder
  <2>4. RequestsTyped'
    BY <1>4, <2>2 DEF Crash, RequestsTyped, Stopper, CallPC
  <2>5. TasksTyped'
    BY <1>4, <2>1 DEF Crash, TasksTyped, Task, Worker, Ends, Watcher, TaskPC, WorkerPC
  <2> QED
    BY <1>4, <2>3, <2>4, <2>5 DEF Crash, RequestsTyped, TasksTyped
<1>5. ASSUME NEW i \in Instance, Finalize(i) PROVE TypeOK'
  BY <1>5 DEF Finalize, Unsnapped, Status
<1>6. CASE Cleanup
  BY <1>6 DEF Cleanup, DeleteEntry, Unsnapped, Status
<1>7. CASE Expire
  BY <1>7 DEF Expire
<1> QED
  BY <1>1, <1>2, <1>3, <1>4, <1>5, <1>6, <1>7 DEF DrainStep

\* Every step keeps the state well typed.
LEMMA TypeInductive == TypeOK /\ [Next]_vars => TypeOK'
<1> SUFFICES ASSUME TypeOK, [Next]_vars PROVE TypeOK'
  OBVIOUS
<1>1. CASE Next
  <2>1. ASSUME NEW c \in Caller, CallStep(c) \/ CallFails(c) PROVE TypeOK'
    BY <2>1, CallsKeepTypes
  <2>2. ASSUME NEW i \in Instance,
               \/ Create(i) \/ UndoCreate(i) \/ Reconcile(i) \/ ResumeStep(i)
               \/ WorkerStep(i) \/ TaskStep(i) \/ Fault(i)
               \/ StopBegins(i) \/ StopStep(i)
        PROVE  TypeOK'
    BY <2>2, AdoptionKeepsTypes, RunnerKeepsTypes, TaskKeepsTypes, StopKeepsTypes
       DEF Fault
  <2>3. ASSUME NEW i \in Instance,
               StopAllBegins(i) \/ DrainStep(i) \/ Crash(i) \/ Finalize(i)
        PROVE  TypeOK'
    BY <2>3, UpkeepKeepsTypes
  <2>4. CASE Cleanup \/ Expire
    BY <2>4, UpkeepKeepsTypes
  <2> QED
    BY <1>1, <2>1, <2>2, <2>3, <2>4 DEF Next
<1>2. CASE UNCHANGED vars
  BY <1>2 DEF TypeOK, vars, redis, run, stops
<1> QED
  BY <1>1, <1>2

\* The initial state is well typed.
LEMMA InitTypes == Init => TypeOK
<1> SUFFICES ASSUME Init PROVE TypeOK
  OBVIOUS
<1> USE DEF Init
<1>1. RedisTyped
  BY DEF RedisTyped, Status
<1>2. inTasks \in [Instance -> BOOLEAN] /\ snap \in [Instance -> BOOLEAN]
  OBVIOUS
<1>3. RequestsTyped
  BY <1>2 DEF RequestsTyped, CallPC
<1>4. TasksTyped
  BY <1>2 DEF TasksTyped, TaskPC, WorkerPC
<1> QED
  BY <1>1, <1>3, <1>4, TypeParts

\* Whatever the instances, requests, faults and crashes, every variable of the
\* manager, the registry entry and the lease stays within its type.
THEOREM ManagerTypeCorrect == Spec => []TypeOK
BY InitTypes, TypeInductive, PTL DEF Spec

-----------------------------------------------------------------------------
(* At most one instance streams. *)

\* A task that has not taken its first step has no runner yet.
CreatedIsIdle == \A i \in Instance : task[i] = "created" => worker[i] = "none"

ManagerInv == TypeOK /\ OneStreamer /\ CreatedIsIdle

\* A step keeps OneStreamer if nobody starts to stream in it and it takes the
\* lease from nobody who goes on streaming.
LEMMA KeepsOneStreamer ==
  ASSUME OneStreamer,
         \A i \in Instance : worker'[i] = "streaming" => worker[i] = "streaming",
         \/ lease' = lease
         \/ \A i \in Instance : worker'[i] = "streaming" => lease # <<i, "run">>
  PROVE  OneStreamer'
BY DEF OneStreamer, Streaming

\* Under OneStreamer nobody streams while the lease is free, lost or held by a
\* start_stream or resume_stream.
LEMMA NobodyStreams ==
  ASSUME TypeOK, OneStreamer, lease = Free \/ lease \in Caller \/ lease[2] = "lost"
  PROVE  \A i \in Instance : worker[i] # "streaming"
<1> SUFFICES ASSUME NEW i \in Instance, worker[i] = "streaming" PROVE FALSE
  OBVIOUS
<1>1. lease = <<i, "run">>
  BY DEF OneStreamer, Streaming
<1>2. lease # Free
  BY <1>1, ConstantsAssumption
<1> QED
  BY <1>1, <1>2 DEF Caller

\* runner_task.cancel() abandons the lease only of a worker that does not stream.
LEMMA CancelRunnerKeeps ==
  ASSUME ManagerInv, NEW i \in Instance, CancelRunner(i)
  PROVE  OneStreamer'
<1>1. \A j \in Instance : worker'[j] = "streaming" => worker[j] = "streaming" /\ j # i
  BY DEF ManagerInv, TypeOK, CancelRunner, WorkerPC
<1>2. lease' = lease \/ lease = <<i, "run">>
  BY DEF CancelRunner, Abandoned
<1>3. CASE lease = <<i, "run">>
  BY <1>1, <1>3, KeepsOneStreamer DEF ManagerInv
<1>4. CASE lease' = lease
  BY <1>1, <1>4, KeepsOneStreamer DEF ManagerInv
<1> QED
  BY <1>2, <1>3, <1>4

\* task.cancel() takes the lease from no worker that goes on streaming.
LEMMA CancelTaskKeeps ==
  ASSUME ManagerInv, NEW i \in Instance, CancelTask(i)
  PROVE  OneStreamer' /\ CreatedIsIdle'
<1> USE DEF ManagerInv, TypeOK, Task, run
<1>1. CASE task[i] = "none"
  BY <1>1 DEF CancelTask, OneStreamer, CreatedIsIdle, Streaming
<1>2. CASE task[i] = "created"
  <2>1. CreatedIsIdle'
    BY <1>2 DEF CancelTask, CreatedIsIdle
  <2>2. worker' = worker /\ worker[i] = "none" /\ lease' = Abandoned(<<i, "run">>)
    BY <1>2 DEF CancelTask, CreatedIsIdle
  <2>3. OneStreamer'
    BY <2>2 DEF OneStreamer, Streaming, Abandoned
  <2> QED
    BY <2>1, <2>3
<1>3. CASE task[i] = "waiting"
  <2>1. CancelRunner(i) /\ task' = [task EXCEPT ![i] = "cancelled"]
    BY <1>3 DEF CancelTask
  <2>2. CreatedIsIdle'
    BY <1>3, <2>1 DEF CancelRunner, CreatedIsIdle
  <2> QED
    BY <2>1, <2>2, CancelRunnerKeeps
<1>4. CASE task[i] = "leaving" /\ worker[i] = "ended"
  <2>1. /\ lease' = lease /\ worker' = worker
        /\ task' = task \/ task' = [task EXCEPT ![i] = "none"]
    BY <1>4 DEF CancelTask
  <2> QED
    BY <2>1 DEF OneStreamer, CreatedIsIdle, Streaming
<1>5. CASE task[i] \in {"stopping", "cancelled"} \/ (task[i] = "leaving" /\ worker[i] # "ended")
  <2>1. CancelRunner(i) /\ task' = task
    BY <1>5 DEF CancelTask
  <2>2. CreatedIsIdle'
    BY <1>5, <2>1 DEF CancelRunner, CreatedIsIdle
  <2> QED
    BY <2>1, <2>2, CancelRunnerKeeps
<1>6. CASE task[i] = "marking"
  <2>1. lease' = lease /\ worker' = worker /\ task' = [task EXCEPT ![i] = "deciding"]
    BY <1>6 DEF CancelTask
  <2> QED
    BY <2>1 DEF OneStreamer, CreatedIsIdle, Streaming
<1>7. CASE task[i] \in {"deciding", "recording", "erring"}
  <2>1. CancelRunner(i) /\ task' = [task EXCEPT ![i] = "leaving"]
    BY <1>7 DEF CancelTask
  <2>2. CreatedIsIdle'
    BY <1>7, <2>1 DEF CancelRunner, CreatedIsIdle
  <2> QED
    BY <2>1, <2>2, CancelRunnerKeeps
<1> QED
  BY <1>1, <1>2, <1>3, <1>4, <1>5, <1>6, <1>7 DEF TaskPC

\* start_stream and resume_stream replace the lease only when it is free or
\* their own, so nobody streams then.
LEMMA CallsKeep ==
  ASSUME ManagerInv, NEW c \in Caller, CallStep(c) \/ CallFails(c)
  PROVE  OneStreamer' /\ CreatedIsIdle'
<1>1. CASE Confirm(c) /\ lease = c
  <2>1. c[1] \in Instance
    BY DEF Caller
  <2>2. \A i \in Instance : worker[i] # "streaming"
    BY <1>1, NobodyStreams DEF ManagerInv
  <2>3. /\ task' = [task EXCEPT ![c[1]] = "created"]
        /\ worker' = [worker EXCEPT ![c[1]] = "none"]
    BY <1>1 DEF Confirm, Launch
  <2>4. OneStreamer'
    BY <2>1, <2>2, <2>3 DEF OneStreamer, Streaming, ManagerInv, TypeOK
  <2>5. CreatedIsIdle'
    BY <2>1, <2>3 DEF CreatedIsIdle, ManagerInv, TypeOK
  <2> QED
    BY <2>4, <2>5
<1>2. CASE ~(Confirm(c) /\ lease = c)
  <2>1. worker' = worker /\ task' = task
    BY <1>2 DEF CallStep, CallFails, Acquire, Enter, Verify, Activate, Confirm,
                GiveUp, run
  <2>2. lease' = lease \/ lease = Free \/ lease = c
    BY <1>2 DEF CallStep, CallFails, Acquire, Enter, Verify, Activate, Confirm,
                GiveUp, Abandoned, Freed, redis, run
  <2>3. OneStreamer'
    <3>1. CASE lease' = lease
      BY <2>1, <3>1, KeepsOneStreamer DEF ManagerInv
    <3>2. CASE lease = Free \/ lease = c
      BY <2>1, <3>2, NobodyStreams DEF ManagerInv, OneStreamer, Streaming
    <3> QED
      BY <2>2, <3>1, <3>2
  <2>4. CreatedIsIdle'
    BY <2>1 DEF CreatedIsIdle, ManagerInv
  <2> QED
    BY <2>3, <2>4
<1> QED
  BY <1>1, <1>2

\* Creating, undoing and adopting touch neither the lease nor a task.
LEMMA AdoptionKeeps ==
  ASSUME ManagerInv, NEW i \in Instance,
         \/ Create(i) \/ UndoCreate(i) \/ Reconcile(i) \/ ResumeStep(i)
         \/ StopBegins(i) \/ Publish(i) \/ MarkStopping(i) \/ Finalize(i)
  PROVE  OneStreamer' /\ CreatedIsIdle'
<1>1. lease' = lease /\ worker' = worker /\ task' = task
  BY DEF Create, UndoCreate, Reconcile, ResumeStep, Reread, StopCheck, StopBegins,
         Publish, MarkStopping, Finalize, redis, run
<1> QED
  BY <1>1 DEF OneStreamer, CreatedIsIdle, Streaming, ManagerInv

\* A runner starts to stream only while it holds the lease, and gives the lease
\* up only once it no longer streams.
LEMMA RunnerKeeps ==
  ASSUME ManagerInv, NEW i \in Instance, WorkerStep(i) \/ LoseLock(i) \/ FatalError(i)
  PROVE  OneStreamer' /\ CreatedIsIdle'
<1> USE DEF ManagerInv, TypeOK, Worker, redis
<1>1. /\ task' = task /\ worker[i] # "none"
      /\ \E pc \in WorkerPC : worker' = [worker EXCEPT ![i] = pc]
  BY DEF WorkerStep, Build, FirstRefresh, ReportFatal, Saved, Release, LoseLock,
         FatalError, Streaming, WorkerPC
<1>2. CreatedIsIdle'
  BY <1>1 DEF CreatedIsIdle
<1>3. CASE FirstRefresh(i)
  BY <1>2, <1>3 DEF FirstRefresh, OneStreamer, Streaming
<1>4. CASE ~FirstRefresh(i)
  <2>1. /\ worker' \in [Instance -> WorkerPC] /\ worker'[i] # "streaming"
        /\ \A j \in Instance \ {i} : worker'[j] = worker[j]
    BY <1>4 DEF WorkerStep, Build, ReportFatal, Saved, Release, LoseLock,
                FatalError, WorkerPC
  <2>2. lease' = lease \/ lease = <<i, "run">>
    BY <1>4 DEF WorkerStep, Build, ReportFatal, Saved, Release, LoseLock,
                FatalError, Abandoned, Freed
  <2>3. \A j \in Instance : worker'[j] = "streaming" => worker[j] = "streaming" /\ j # i
    BY <2>1
  <2> QED
    BY <1>2, <2>2, <2>3, KeepsOneStreamer
<1> QED
  BY <1>2, <1>3, <1>4

\* Steps of _run start no streaming and touch the lease only to cancel the runner.
LEMMA TaskKeeps ==
  ASSUME ManagerInv, NEW i \in Instance, TaskStep(i) \/ WatcherFails(i) \/ MarkFails(i)
  PROVE  OneStreamer' /\ CreatedIsIdle'
<1> USE DEF ManagerInv, TypeOK, Task, redis
<1>1. CASE FirstStep(i)
  <2>1. /\ worker' = [worker EXCEPT ![i] = "building"]
        /\ task' = [task EXCEPT ![i] = "waiting"] /\ lease' = lease
    BY <1>1 DEF FirstStep, Worker
  <2> QED
    BY <2>1 DEF OneStreamer, CreatedIsIdle, Streaming
<1>2. CASE WatcherFires(i) \/ MarkError(i) \/ MarkFails(i)
  <2>1. /\ CancelRunner(i)
        /\ \E pc \in TaskPC \ {"created"} : task' = [task EXCEPT ![i] = pc]
    BY <1>2 DEF WatcherFires, MarkError, MarkFails, TaskPC
  <2>2. CreatedIsIdle'
    BY <2>1 DEF CreatedIsIdle, CancelRunner
  <2> QED
    BY <2>1, <2>2, CancelRunnerKeeps
<1>3. CASE RunnerDone(i) \/ Decide(i) \/ MarkStopped(i) \/ WatcherFails(i)
  <2>1. /\ worker' = worker /\ lease' = lease
        /\ \E pc \in TaskPC \ {"created"} : task' = [task EXCEPT ![i] = pc]
    BY <1>3 DEF RunnerDone, Decide, MarkStopped, WatcherFails, TaskPC
  <2> QED
    BY <2>1 DEF OneStreamer, CreatedIsIdle, Streaming
<1>4. CASE Leave(i)
  <2>1. /\ worker' = [worker EXCEPT ![i] = "none"]
        /\ task' = [task EXCEPT ![i] = "none"] /\ lease' = lease
    BY <1>4 DEF Leave, Worker
  <2> QED
    BY <2>1 DEF OneStreamer, CreatedIsIdle, Streaming
<1> QED
  BY <1>1, <1>2, <1>3, <1>4 DEF TaskStep

\* Draining and crashing take the lease only from an instance that stops
\* streaming; expiry spares a streaming worker.
LEMMA ShutdownKeeps ==
  ASSUME ManagerInv,
         \/ \E i \in Instance :
              StopCancels(i) \/ StopAllBegins(i) \/ DrainStep(i) \/ Crash(i)
         \/ Cleanup
         \/ Expire
  PROVE  OneStreamer' /\ CreatedIsIdle'
<1> USE DEF ManagerInv, run
<1>1. ASSUME NEW i \in Instance, StopCancels(i) \/ StopAllCancels(i)
      PROVE  OneStreamer' /\ CreatedIsIdle'
  <2>1. CASE CancelTask(i)
    BY <2>1, CancelTaskKeeps
  <2>2. CASE UNCHANGED <<lease, run>>
    BY <2>2 DEF OneStreamer, CreatedIsIdle, Streaming
  <2> QED
    BY <1>1, <2>1, <2>2 DEF StopCancels, StopAllCancels
<1>2. ASSUME NEW i \in Instance, StopAllBegins(i)
      PROVE  OneStreamer' /\ CreatedIsIdle'
  <2>1. worker' = worker /\ task' = task
    BY <1>2 DEF StopAllBegins
  <2>2. lease' = lease \/ lease = Free \/ lease = <<i, "resume">>
    BY <1>2 DEF StopAllBegins, Abandoned
  <2>3. CASE lease' = lease
    BY <2>1, <2>3 DEF OneStreamer, CreatedIsIdle, Streaming
  <2>4. CASE lease = Free \/ lease = <<i, "resume">>
    <3>1. \A j \in Instance : worker[j] # "streaming"
      BY <2>4, NobodyStreams DEF Caller
    <3> QED
      BY <2>1, <3>1 DEF OneStreamer, CreatedIsIdle, Streaming
  <2> QED
    BY <2>2, <2>3, <2>4
<1>3. ASSUME NEW i \in Instance, Exit(i) PROVE OneStreamer' /\ CreatedIsIdle'
  BY <1>3 DEF Exit, redis, OneStreamer, CreatedIsIdle, Streaming
<1>4. ASSUME NEW i \in Instance, Crash(i) PROVE OneStreamer' /\ CreatedIsIdle'
  <2>1. /\ worker' = [worker EXCEPT ![i] = "none"] /\ task' = [task EXCEPT ![i] = "none"]
        /\ lease' = lease \/ lease[1] = i
    BY <1>4 DEF Crash, Task, Worker
  <2>2. \A j \in Instance : worker'[j] = "streaming" => worker[j] = "streaming" /\ j # i
    BY <2>1 DEF TypeOK
  <2>3. \A j \in Instance : lease[1] = i /\ j # i => lease # <<j, "run">>
    OBVIOUS
  <2>4. OneStreamer'
    BY <2>1, <2>2, <2>3, KeepsOneStreamer
  <2>5. CreatedIsIdle'
    BY <2>1 DEF CreatedIsIdle, TypeOK
  <2> QED
    BY <2>4, <2>5
<1>5. CASE Cleanup
  BY <1>5 DEF Cleanup, OneStreamer, CreatedIsIdle, Streaming
<1>6. CASE Expire
  BY <1>6 DEF Expire, OneStreamer, CreatedIsIdle, Streaming
<1> QED
  BY <1>1, <1>2, <1>3, <1>4, <1>5, <1>6 DEF DrainStep

\* The invariant is inductive.
LEMMA ManagerInvInductive == ManagerInv /\ [Next]_vars => ManagerInv'
<1> SUFFICES ASSUME ManagerInv, [Next]_vars PROVE ManagerInv'
  OBVIOUS
<1>1. TypeOK'
  BY TypeInductive DEF ManagerInv
<1>2. ASSUME Next PROVE OneStreamer' /\ CreatedIsIdle'
  <2>1. ASSUME NEW c \in Caller, CallStep(c) \/ CallFails(c)
        PROVE  OneStreamer' /\ CreatedIsIdle'
    BY <2>1, CallsKeep
  <2>2. ASSUME NEW i \in Instance,
               \/ Create(i) \/ UndoCreate(i) \/ Reconcile(i) \/ ResumeStep(i)
               \/ StopBegins(i) \/ Publish(i) \/ MarkStopping(i) \/ Finalize(i)
        PROVE  OneStreamer' /\ CreatedIsIdle'
    BY <2>2, AdoptionKeeps
  <2>3. ASSUME NEW i \in Instance, WorkerStep(i) \/ TaskStep(i) \/ Fault(i)
        PROVE  OneStreamer' /\ CreatedIsIdle'
    BY <2>3, RunnerKeeps, TaskKeeps DEF Fault
  <2>4. ASSUME NEW i \in Instance,
               StopCancels(i) \/ StopAllBegins(i) \/ DrainStep(i) \/ Crash(i)
        PROVE  OneStreamer' /\ CreatedIsIdle'
    BY <2>4, ShutdownKeeps
  <2>5. CASE Cleanup \/ Expire
    BY <2>5, ShutdownKeeps
  <2> QED
    BY <1>2, <2>1, <2>2, <2>3, <2>4, <2>5 DEF Next, StopStep
<1>3. CASE UNCHANGED vars
  BY <1>1, <1>3 DEF vars, redis, run, ManagerInv, OneStreamer, CreatedIsIdle, Streaming
<1> QED
  BY <1>1, <1>2, <1>3 DEF ManagerInv

\* Whatever the number of replicas and however their requests, adoptions,
\* faults, drains and crashes interleave, a worker streams only while the
\* lease is its own: two replicas never stream the same subreddit at once.
THEOREM OneStreamerAlways == Spec => []OneStreamer
<1>1. Init => ManagerInv
  <2>1. Init => OneStreamer /\ CreatedIsIdle
    BY DEF Init, OneStreamer, CreatedIsIdle, Streaming
  <2> QED
    BY <2>1, InitTypes DEF ManagerInv
<1>2. ManagerInv => OneStreamer
  BY DEF ManagerInv
<1> QED
  BY <1>1, <1>2, ManagerInvInductive, PTL DEF Spec

-----------------------------------------------------------------------------
(* _tasks and the tasks that run. *)

\* A step keeps LiveTaskIsRegistered if it gives a task a place in the code only
\* where there was a task already, and removes no entry.
LEMMA KeepsRegistered ==
  ASSUME LiveTaskIsRegistered, inTasks' = inTasks,
         \A i \in Instance : task'[i] # "none" => task[i] # "none"
  PROVE  LiveTaskIsRegistered'
BY DEF LiveTaskIsRegistered

\* task.cancel() removes no entry and starts no task.
LEMMA CancelTaskRegistered ==
  ASSUME TypeOK, NEW i \in Instance, CancelTask(i)
  PROVE  /\ inTasks' = inTasks
         /\ \A j \in Instance : task'[j] # "none" => task[j] # "none"
<1> USE DEF TypeOK, CancelTask, run, Task
<1>1. CASE task[i] = "none" \/ task[i] = "created" \/ task[i] = "waiting"
  BY <1>1
<1>2. CASE task[i] = "leaving"
  BY <1>2
<1>3. CASE task[i] \in {"stopping", "cancelled", "marking"}
  BY <1>3
<1>4. CASE task[i] \in {"deciding", "recording", "erring"}
  BY <1>4
<1> QED
  BY <1>1, <1>2, <1>3, <1>4 DEF TaskPC

\* Every step keeps the tasks that run registered.
LEMMA RegisteredInductive ==
  ASSUME TypeOK, LiveTaskIsRegistered, [Next]_vars
  PROVE  LiveTaskIsRegistered'
<1> USE DEF TypeOK, redis, run
<1>1. ASSUME NEW c \in Caller, CallStep(c) \/ CallFails(c)
      PROVE  LiveTaskIsRegistered'
  <2>1. CASE Launch(c[1])
    BY <2>1 DEF Launch, LiveTaskIsRegistered, Caller
  <2>2. CASE UNCHANGED run
    BY <2>2, KeepsRegistered
  <2> QED
    BY <1>1, <2>1, <2>2 DEF CallStep, CallFails, Acquire, Enter, Verify, Activate,
                            Confirm, GiveUp
<1>2. ASSUME NEW i \in Instance,
             \/ Create(i) \/ UndoCreate(i) \/ Reconcile(i) \/ ResumeStep(i)
             \/ WorkerStep(i) \/ LoseLock(i) \/ FatalError(i)
             \/ StopBegins(i) \/ Publish(i) \/ MarkStopping(i)
             \/ StopAllBegins(i) \/ Finalize(i)
      PROVE  LiveTaskIsRegistered'
  <2>1. inTasks' = inTasks /\ task' = task
    BY <1>2 DEF Create, UndoCreate, Reconcile, ResumeStep, Reread, StopCheck,
                WorkerStep, Build, FirstRefresh, ReportFatal, Saved, Release,
                LoseLock, FatalError, StopBegins, Publish, MarkStopping,
                StopAllBegins, Finalize
  <2> QED
    BY <2>1, KeepsRegistered
<1>3. ASSUME NEW i \in Instance,
             \/ FirstStep(i) \/ WatcherFires(i) \/ RunnerDone(i) \/ Decide(i)
             \/ MarkStopped(i) \/ MarkError(i) \/ WatcherFails(i) \/ MarkFails(i)
      PROVE  LiveTaskIsRegistered'
  <2>1. /\ inTasks' = inTasks /\ task[i] # "none"
        /\ \A j \in Instance \ {i} : task'[j] = task[j]
    BY <1>3 DEF FirstStep, WatcherFires, RunnerDone, Decide, MarkStopped,
                MarkError, WatcherFails, MarkFails, Task
  <2>2. \A j \in Instance : task'[j] # "none" => task[j] # "none"
    BY <2>1
  <2> QED
    BY <2>1, <2>2, KeepsRegistered
<1>4. ASSUME NEW i \in Instance, Leave(i) \/ Exit(i) \/ Crash(i)
      PROVE  LiveTaskIsRegistered'
  <2>1. /\ task'[i] = "none"
        /\ \A j \in Instance \ {i} : task'[j] = task[j] /\ inTasks'[j] = inTasks[j]
    BY <1>4 DEF Leave, Exit, Crash, Task
  <2> QED
    BY <2>1 DEF LiveTaskIsRegistered
<1>5. ASSUME NEW i \in Instance, StopCancels(i) \/ StopAllCancels(i)
      PROVE  LiveTaskIsRegistered'
  <2>1. CASE CancelTask(i)
    BY <2>1, CancelTaskRegistered, KeepsRegistered
  <2>2. CASE UNCHANGED run
    BY <2>2, KeepsRegistered
  <2> QED
    BY <1>5, <2>1, <2>2 DEF StopCancels, StopAllCancels
<1>6. CASE Cleanup \/ Expire \/ UNCHANGED vars
  BY <1>6, KeepsRegistered DEF Cleanup, Expire, vars
<1> QED
  BY <1>1, <1>2, <1>3, <1>4, <1>5, <1>6 DEF Next, TaskStep, Fault, StopStep, DrainStep

\* However starts, cancellations, drains and crashes interleave, a _run task
\* that still has code to run is in _tasks, so no second task can be started
\* beside it and stop_all awaits it.
THEOREM TasksAreRegistered == Spec => []LiveTaskIsRegistered
<1>1. Init => LiveTaskIsRegistered
  BY DEF Init, LiveTaskIsRegistered
<1>2. TypeOK /\ LiveTaskIsRegistered /\ [Next]_vars => LiveTaskIsRegistered'
  BY RegisteredInductive
<1> QED
  BY <1>1, <1>2, ManagerTypeCorrect, PTL DEF Spec

-----------------------------------------------------------------------------
(* stop_all. *)

\* A runner has ended, or has not begun, where there is no task.
QuietWithoutTask ==
    \A i \in Instance : task[i] = "none" => worker[i] \in {"none", "ended"}

\* No activation is under way on an instance whose stop_all has looked at _tasks.
NoLateActivation ==
    \A c \in Caller :
        up[c[1]] \notin {"up", "draining"} => call[c] \notin {"verify", "activate", "confirm"}

DrainInv == ManagerInv /\ QuietWithoutTask /\ NoLateActivation

\* A step keeps QuietWithoutTask if it starts no runner and ends no task.
LEMMA KeepsQuiet ==
  ASSUME QuietWithoutTask,
         \A i \in Instance : task'[i] = "none" =>
             \/ worker'[i] \in {"none", "ended"}
             \/ task[i] = "none" /\ worker'[i] = worker[i]
  PROVE  QuietWithoutTask'
BY DEF QuietWithoutTask

\* task.cancel() ends only tasks whose runner has ended or has not begun.
LEMMA CancelTaskKeepsQuiet ==
  ASSUME DrainInv, NEW i \in Instance, CancelTask(i)
  PROVE  QuietWithoutTask'
<1> USE DEF DrainInv, ManagerInv, TypeOK
<1>1. \A j \in Instance : j # i => task'[j] = task[j] /\ worker'[j] = worker[j]
  <2>1. CASE task[i] \in {"none", "created", "waiting", "leaving"}
    BY <2>1 DEF CancelTask, CancelRunner, Task, run
  <2>2. CASE task[i] \in {"stopping", "cancelled", "marking"}
    BY <2>2 DEF CancelTask, CancelRunner, Task
  <2>3. CASE task[i] \in {"deciding", "recording", "erring"}
    BY <2>3 DEF CancelTask, CancelRunner, Task
  <2> QED
    BY <2>1, <2>2, <2>3 DEF TaskPC
<1>2. task'[i] = "none" => worker'[i] \in {"none", "ended"}
  <2>1. CASE task[i] = "none"
    BY <2>1 DEF CancelTask, run, QuietWithoutTask
  <2>2. CASE task[i] = "created"
    BY <2>2 DEF CancelTask, CreatedIsIdle
  <2>3. CASE task[i] = "leaving" /\ worker[i] = "ended"
    BY <2>3 DEF CancelTask
  <2>4. CASE \/ task[i] \in {"waiting", "stopping", "cancelled", "marking"}
             \/ task[i] = "leaving" /\ worker[i] # "ended"
    BY <2>4 DEF CancelTask, Task
  <2>5. CASE task[i] \in {"deciding", "recording", "erring"}
    BY <2>5 DEF CancelTask, Task
  <2> QED
    BY <2>1, <2>2, <2>3, <2>4, <2>5 DEF TaskPC
<1> QED
  BY <1>1, <1>2, KeepsQuiet

\* Every step keeps the runners without a task quiet.
LEMMA QuietInductive ==
  ASSUME DrainInv, [Next]_vars
  PROVE  QuietWithoutTask'
<1> USE DEF DrainInv, ManagerInv, TypeOK, redis, run
<1>1. ASSUME NEW c \in Caller, CallStep(c) \/ CallFails(c)
      PROVE  QuietWithoutTask'
  <2>1. CASE Launch(c[1])
    BY <2>1 DEF Launch, QuietWithoutTask, Caller
  <2>2. CASE UNCHANGED <<task, worker>>
    BY <2>2, KeepsQuiet
  <2> QED
    BY <1>1, <2>1, <2>2 DEF CallStep, CallFails, Acquire, Enter, Verify, Activate,
                            Confirm, GiveUp
<1>2. ASSUME NEW i \in Instance,
             \/ Create(i) \/ UndoCreate(i) \/ Reconcile(i) \/ ResumeStep(i)
             \/ StopBegins(i) \/ Publish(i) \/ MarkStopping(i)
             \/ StopAllBegins(i) \/ Exit(i) \/ Finalize(i)
      PROVE  QuietWithoutTask'
  <2>1. task' = task /\ worker' = worker
    BY <1>2 DEF Create, UndoCreate, Reconcile, ResumeStep, Reread, StopCheck,
                StopBegins, Publish, MarkStopping, StopAllBegins, Exit, Finalize
  <2> QED
    BY <2>1, KeepsQuiet
<1>3. ASSUME NEW i \in Instance, WorkerStep(i) \/ LoseLock(i) \/ FatalError(i)
      PROVE  QuietWithoutTask'
  <2>1. task' = task /\ worker[i] \notin {"none", "ended"}
    BY <1>3 DEF WorkerStep, Build, FirstRefresh, ReportFatal, Saved, Release,
                LoseLock, FatalError, Streaming
  <2>2. \A j \in Instance : j # i => worker'[j] = worker[j]
    BY <1>3 DEF WorkerStep, Build, FirstRefresh, ReportFatal, Saved, Release,
                LoseLock, FatalError, Worker
  <2> QED
    BY <2>1, <2>2 DEF QuietWithoutTask
<1>4. ASSUME NEW i \in Instance, TaskStep(i) \/ WatcherFails(i) \/ MarkFails(i)
      PROVE  QuietWithoutTask'
  <2>1. \A j \in Instance : j # i => task'[j] = task[j] /\ worker'[j] = worker[j]
    BY <1>4 DEF TaskStep, FirstStep, WatcherFires, RunnerDone, Decide, MarkStopped,
                MarkError, Leave, WatcherFails, MarkFails, Task, Worker, CancelRunner
  <2>2. CASE Leave(i)
    BY <2>1, <2>2, KeepsQuiet DEF Leave, Worker
  <2>3. CASE ~Leave(i)
    <3>1. task'[i] # "none"
      BY <1>4, <2>3 DEF TaskStep, FirstStep, WatcherFires, RunnerDone, Decide,
                        MarkStopped, MarkError, WatcherFails, MarkFails, Task
    <3> QED
      BY <2>1, <3>1, KeepsQuiet
  <2> QED
    BY <2>2, <2>3
<1>5. ASSUME NEW i \in Instance, StopCancels(i) \/ StopAllCancels(i)
      PROVE  QuietWithoutTask'
  <2>1. CASE CancelTask(i)
    BY <2>1, CancelTaskKeepsQuiet
  <2>2. CASE UNCHANGED <<task, worker>>
    BY <2>2, KeepsQuiet
  <2> QED
    BY <1>5, <2>1, <2>2 DEF StopCancels, StopAllCancels
<1>6. ASSUME NEW i \in Instance, Crash(i) PROVE QuietWithoutTask'
  BY <1>6, KeepsQuiet DEF Crash, Task, Worker
<1>7. CASE Cleanup \/ Expire \/ UNCHANGED vars
  BY <1>7, KeepsQuiet DEF Cleanup, Expire, vars
<1> QED
  BY <1>1, <1>2, <1>3, <1>4, <1>5, <1>6, <1>7 DEF Next, Fault, StopStep, DrainStep

\* An activation begins only on an instance that does not shut down, and stop_all
\* waits for self._lock, which an activation holds.
LEMMA NoLateActivationInductive ==
  ASSUME TypeOK, NoLateActivation, [Next]_vars
  PROVE  NoLateActivation'
<1> USE DEF TypeOK, redis
<1> DEFINE Locked == {"verify", "activate", "confirm"}
<1>0. \A i \in Instance : <<i, "start">> \in Caller /\ <<i, "resume">> \in Caller
  BY DEF Caller
<1>1. ASSUME NEW c \in Caller, CallStep(c) \/ CallFails(c)
      PROVE  NoLateActivation'
  <2>1. up' = up /\ \A d \in Caller : d # c => call'[d] = call[d]
    BY <1>1 DEF CallStep, CallFails, Acquire, Enter, Verify, Activate, Confirm, GiveUp, Step
  <2>2. call'[c] \in Locked => call[c] \in Locked \/ up[c[1]] = "up"
    BY <1>1 DEF CallStep, CallFails, Acquire, Enter, Verify, Activate, Confirm, GiveUp,
                Step, ShuttingDown
  <2> QED
    BY <2>1, <2>2 DEF NoLateActivation
<1>2. ASSUME up' = up,
             \A c \in Caller : call'[c] \in Locked => call[c] \in Locked
      PROVE  NoLateActivation'
  BY <1>2 DEF NoLateActivation
<1>3. ASSUME NEW i \in Instance,
             \/ Create(i) \/ UndoCreate(i) \/ Reconcile(i) \/ ResumeStep(i)
      PROVE  NoLateActivation'
  BY <1>0, <1>2, <1>3 DEF Create, UndoCreate, Reconcile, ResumeStep, Reread, StopCheck, Step
<1>4. ASSUME NEW i \in Instance,
             \/ WorkerStep(i) \/ TaskStep(i) \/ Fault(i)
             \/ StopBegins(i) \/ StopStep(i) \/ Finalize(i)
      PROVE  NoLateActivation'
  <2>1. up' = up /\ call' = call
    BY <1>4 DEF WorkerStep, Build, FirstRefresh, ReportFatal, Saved, Release,
       TaskStep, FirstStep, WatcherFires, RunnerDone, Decide, MarkStopped, MarkError,
       Leave, Fault, LoseLock, FatalError, WatcherFails, MarkFails, StopBegins,
       StopStep, Publish, MarkStopping, StopCancels, Finalize
  <2> QED
    BY <1>2, <2>1
<1>5. ASSUME NEW i \in Instance, StopAllBegins(i) PROVE NoLateActivation'
  BY <1>0, <1>5 DEF StopAllBegins, Step, NoLateActivation, Caller
<1>6. ASSUME NEW i \in Instance, StopAllCancels(i) PROVE NoLateActivation'
  <2>0. ~LockHeld(i)
    BY <1>6 DEF StopAllCancels
  <2>1. \A c \in Caller : c[1] = i => call[c] \notin Locked
    BY <2>0 DEF LockHeld, Caller
  <2> QED
    BY <1>6, <2>1 DEF StopAllCancels, NoLateActivation, Caller
<1>7. ASSUME NEW i \in Instance, Exit(i) PROVE NoLateActivation'
  BY <1>7 DEF Exit, NoLateActivation, Caller
<1>8. ASSUME NEW i \in Instance, Crash(i) PROVE NoLateActivation'
  BY <1>8 DEF Crash, NoLateActivation, Caller
<1>9. CASE Cleanup \/ Expire \/ UNCHANGED vars
  <2>1. up' = up /\ call' = call
    BY <1>9 DEF Cleanup, Expire, vars
  <2> QED
    BY <1>2, <2>1
<1> QED
  BY <1>1, <1>3, <1>4, <1>5, <1>6, <1>7, <1>8, <1>9 DEF Next, DrainStep

\* Only the end of an activation starts a task.
LEMMA OnlyConfirmStarts ==
  ASSUME TypeOK, [Next]_vars, NEW i \in Instance, task[i] = "none", task'[i] # "none"
  PROVE  \E c \in Caller : c[1] = i /\ call[c] = "confirm"
<1> USE DEF TypeOK, redis, run
<1>1. ASSUME NEW c \in Caller, CallStep(c) \/ CallFails(c)
      PROVE  c[1] = i /\ call[c] = "confirm"
  BY <1>1 DEF CallStep, CallFails, Acquire, Enter, Verify, Activate, Confirm, Launch, GiveUp
<1>2. ASSUME NEW j \in Instance,
             \/ Create(j) \/ UndoCreate(j) \/ Reconcile(j) \/ ResumeStep(j)
             \/ WorkerStep(j) \/ LoseLock(j) \/ FatalError(j)
             \/ StopBegins(j) \/ Publish(j) \/ MarkStopping(j)
             \/ StopAllBegins(j) \/ Exit(j) \/ Finalize(j)
      PROVE  FALSE
  BY <1>2 DEF Create, UndoCreate, Reconcile, ResumeStep, Reread, StopCheck,
              WorkerStep, Build, FirstRefresh, ReportFatal, Saved, Release,
              LoseLock, FatalError, StopBegins, Publish, MarkStopping,
              StopAllBegins, Exit, Finalize
<1>3. ASSUME NEW j \in Instance, TaskStep(j) \/ WatcherFails(j) \/ MarkFails(j)
      PROVE  FALSE
  BY <1>3 DEF TaskStep, FirstStep, WatcherFires, RunnerDone, Decide, MarkStopped,
              MarkError, Leave, WatcherFails, MarkFails, Task
<1>4. ASSUME NEW j \in Instance, StopCancels(j) \/ StopAllCancels(j)
      PROVE  FALSE
  BY <1>4, CancelTaskRegistered DEF StopCancels, StopAllCancels
<1>5. ASSUME NEW j \in Instance, Crash(j) PROVE FALSE
  BY <1>5 DEF Crash, Task
<1>6. CASE Cleanup \/ Expire \/ UNCHANGED vars
  BY <1>6 DEF Cleanup, Expire, vars
<1> QED
  BY <1>1, <1>2, <1>3, <1>4, <1>5, <1>6 DEF Next, Fault, StopStep, DrainStep

\* Once stop_all has cancelled the tasks it found, no start or adoption that was
\* under way, on however many instances, adds one, and what runs without a task
\* has ended: the final flush that follows sees the last checkpoint of every
\* local worker.
THEOREM StopAllIsFinalAlways == Spec => StopAllIsFinal
<1>1. Init => DrainInv
  <2>1. Init => OneStreamer /\ CreatedIsIdle /\ QuietWithoutTask /\ NoLateActivation
    BY DEF Init, OneStreamer, CreatedIsIdle, Streaming, QuietWithoutTask, NoLateActivation
  <2> QED
    BY <2>1, InitTypes DEF DrainInv, ManagerInv
<1>2. DrainInv /\ [Next]_vars => DrainInv'
  BY ManagerInvInductive, QuietInductive, NoLateActivationInductive
     DEF DrainInv, ManagerInv
<1>3. DrainInv /\ DrainInv' /\ [Next]_vars =>
        [\A i \in Instance :
            up[i] \in {"drained", "down"} /\ task[i] = "none" =>
                task'[i] = "none" /\ worker'[i] \in {"none", "ended"}]_vars
  <2> SUFFICES ASSUME DrainInv, DrainInv', [Next]_vars, NEW i \in Instance,
                      up[i] \in {"drained", "down"}, task[i] = "none"
               PROVE  task'[i] = "none" /\ worker'[i] \in {"none", "ended"}
    OBVIOUS
  <2>1. task'[i] = "none"
    BY OnlyConfirmStarts DEF DrainInv, ManagerInv, NoLateActivation
  <2> QED
    BY <2>1 DEF DrainInv, QuietWithoutTask
<1> QED
  BY <1>1, <1>2, <1>3, PTL DEF Spec, StopAllIsFinal

-----------------------------------------------------------------------------
(* The holder of the lease. *)

\* After a release or the loss of a token the lease is what it was or is held by
\* no coroutine at all.
LEMMA LetGo ==
  ASSUME TypeOK, NEW h \in Holder, h[2] # "lost"
  PROVE  /\ Freed(h) # h /\ Abandoned(h) # h
         /\ \A c \in Caller : (Freed(h) = c => lease = c) /\ (Abandoned(h) = c => lease = c)
         /\ \A i \in Instance : /\ Freed(h) = <<i, "run">> => lease = <<i, "run">>
                                /\ Abandoned(h) = <<i, "run">> => lease = <<i, "run">>
BY ConstantsAssumption DEF Freed, Abandoned, Holder, Caller

\* The steps of start_stream and resume_stream.
LEMMA CallsKeepHolder ==
  ASSUME TypeOK, HolderIsAtWork, NEW c \in Caller, CallStep(c) \/ CallFails(c)
  PROVE  HolderIsAtWork'
<1> USE DEF TypeOK, redis, run, Step
<1>0. c \in Holder /\ c[2] \notin {"lost", "run"} /\ c[1] \in Instance
  BY DEF Caller, Holder
<1>1. CASE lease' = lease /\ UNCHANGED <<task, worker>>
  <2>1. \A d \in Caller : d # c => call'[d] = call[d]
    BY DEF CallStep, CallFails, Acquire, Enter, Verify, Activate, Confirm, GiveUp
  <2>2. lease = c => call'[c] \notin {"idle", "acquire", "undo"}
    <3>1. call[c] # "idle"
      BY DEF CallStep, CallFails, Acquire, Enter, Verify, Activate, Confirm, GiveUp
    <3>2. CASE call[c] \in {"acquire", "undo"}
      BY <3>2 DEF HolderIsAtWork
    <3>3. CASE call[c] = "giveup" /\ lease = c
      BY <1>0, <1>1, <3>3, LetGo DEF CallStep, CallFails, Acquire, Enter, Verify, Activate,
                                 Confirm, GiveUp
    <3>4. CASE call[c] \notin {"acquire", "undo", "giveup"}
      BY <3>1, <3>4, <1>0, <1>1 DEF CallStep, CallFails, Acquire, Enter, Verify, Activate,
                                 Confirm, Launch, GiveUp
    <3> QED
      BY <3>2, <3>3, <3>4
  <2> QED
    BY <1>1, <2>1, <2>2 DEF HolderIsAtWork
<1>2. CASE lease' # lease
  <2>1. CASE Acquire(c)
    <3>1. lease' = c /\ call'[c] \notin {"idle", "acquire", "undo"}
      BY <1>2, <2>1 DEF Acquire
    <3> QED
      BY <1>0, <3>1 DEF HolderIsAtWork
  <2>2. CASE Confirm(c)
    <3>1. lease' = <<c[1], "run">> /\ task'[c[1]] = "created"
      BY <1>0, <1>2, <2>2 DEF Confirm, Launch
    <3> QED
      BY <3>1 DEF HolderIsAtWork, Caller
  <2>3. CASE GiveUp(c) \/ CallFails(c)
    <3>1. lease = c \/ lease' = <<c[1], "lost">>
      BY <1>2, <2>3 DEF GiveUp, CallFails, Freed, Abandoned
    <3>2. lease' = Free \/ lease' = <<c[1], "lost">>
      BY <1>2, <2>3 DEF GiveUp, CallFails, Freed, Abandoned
    <3>3. (\A d \in Caller : lease' # d) /\ (\A i \in Instance : lease' # <<i, "run">>)
      BY <3>2, ConstantsAssumption DEF Caller
    <3> QED
      BY <3>3 DEF HolderIsAtWork
  <2> QED
    BY <1>2, <2>1, <2>2, <2>3 DEF CallStep, Enter, Verify, Activate
<1>3. CASE lease' = lease /\ ~UNCHANGED <<task, worker>>
  <2>1. Confirm(c) /\ lease = c
    BY <1>3 DEF CallStep, CallFails, Acquire, Enter, Verify, Activate, Confirm, GiveUp
  <2>2. lease' = <<c[1], "run">>
    BY <2>1 DEF Confirm, Launch
  <2> QED
    BY <1>0, <1>3, <2>1, <2>2
<1> QED
  BY <1>1, <1>2, <1>3

\* Creating, undoing and adopting hold no lease.
LEMMA AdoptionKeepsHolder ==
  ASSUME TypeOK, HolderIsAtWork, NEW i \in Instance,
         Create(i) \/ UndoCreate(i) \/ Reconcile(i) \/ ResumeStep(i)
  PROVE  HolderIsAtWork'
<1> USE DEF TypeOK, redis, run, Step
<1>1. <<i, "start">> \in Caller /\ <<i, "resume">> \in Caller
  BY DEF Caller
<1>2. lease' = lease /\ UNCHANGED <<task, worker>>
  BY DEF Create, UndoCreate, Reconcile, ResumeStep, Reread, StopCheck
<1>3. \A c \in Caller : lease = c => call'[c] \notin {"idle", "acquire", "undo"}
  <2>1. CASE Create(i) \/ UndoCreate(i)
    BY <1>1, <2>1 DEF Create, UndoCreate, HolderIsAtWork
  <2>2. CASE Reconcile(i)
    BY <1>1, <2>2 DEF Reconcile, HolderIsAtWork
  <2>3. CASE ResumeStep(i)
    BY <1>1, <2>3 DEF ResumeStep, Reread, StopCheck, HolderIsAtWork
  <2> QED
    BY <2>1, <2>2, <2>3
<1> QED
  BY <1>2, <1>3 DEF HolderIsAtWork

\* A step that touches only the task, the worker and the lease of i keeps
\* HolderIsAtWork if i goes on working while it keeps the lease.
LEMMA RunStepKeepsHolder ==
  ASSUME TypeOK, HolderIsAtWork, NEW i \in Instance, call' = call,
         lease' \in {lease, Freed(<<i, "run">>), Abandoned(<<i, "run">>)},
         \A j \in Instance : j # i => task'[j] = task[j] /\ worker'[j] = worker[j],
         lease' = <<i, "run">> => task'[i] = "created" \/ worker'[i] \notin {"none", "ended"}
  PROVE  HolderIsAtWork'
<1>1. <<i, "run">> \in Holder
  BY DEF Holder
<1>2. \A c \in Caller : lease' = c => lease = c
  BY <1>1, LetGo
<1>3. \A j \in Instance : lease' = <<j, "run">> => lease = <<j, "run">>
  BY <1>1, LetGo
<1> QED
  BY <1>2, <1>3 DEF HolderIsAtWork

\* runner_task.cancel() leaves a worker with the lease at work.
LEMMA CancelRunnerHolds ==
  ASSUME TypeOK, HolderIsAtWork, NEW i \in Instance, CancelRunner(i), task[i] # "created"
  PROVE  /\ lease' \in {lease, Abandoned(<<i, "run">>)}
         /\ \A j \in Instance : j # i => worker'[j] = worker[j]
         /\ lease' = <<i, "run">> => worker'[i] \notin {"none", "ended"}
<1> USE DEF TypeOK, CancelRunner
<1>1. <<i, "run">> \in Holder
  BY DEF Holder
<1>2. CASE worker[i] \in {"none", "building", "saving", "releasing"}
  BY <1>1, <1>2, LetGo
<1>3. CASE worker[i] = "ended"
  BY <1>3 DEF HolderIsAtWork
<1>4. CASE worker[i] \in {"streaming", "failing", "verifying"}
  BY <1>4
<1> QED
  BY <1>2, <1>3, <1>4 DEF WorkerPC

\* task.cancel() leaves a holder at work or loses the token.
LEMMA CancelTaskKeepsHolder ==
  ASSUME TypeOK, HolderIsAtWork, NEW i \in Instance, CancelTask(i), call' = call
  PROVE  HolderIsAtWork'
<1> USE DEF TypeOK, Task, run
<1>0. <<i, "run">> \in Holder
  BY DEF Holder
<1>1. CASE task[i] = "none"
  BY <1>1, RunStepKeepsHolder DEF CancelTask, HolderIsAtWork
<1>2. CASE task[i] = "created"
  <2>1. lease' = Abandoned(<<i, "run">>) /\ worker' = worker
    BY <1>2 DEF CancelTask
  <2>2. \A j \in Instance : j # i => task'[j] = task[j]
    BY <1>2 DEF CancelTask
  <2> QED
    BY <1>0, <2>1, <2>2, LetGo, RunStepKeepsHolder
<1>3. CASE task[i] = "leaving" /\ worker[i] = "ended"
  <2>1. lease' = lease /\ worker' = worker
    BY <1>3 DEF CancelTask
  <2>2. \A j \in Instance : j # i => task'[j] = task[j]
    BY <1>3 DEF CancelTask
  <2>3. lease # <<i, "run">>
    BY <1>3 DEF HolderIsAtWork
  <2> QED
    BY <2>1, <2>2, <2>3, RunStepKeepsHolder
<1>4. CASE task[i] = "marking"
  <2>1. lease' = lease /\ worker' = worker
    BY <1>4 DEF CancelTask
  <2>2. \A j \in Instance : j # i => task'[j] = task[j]
    BY <1>4 DEF CancelTask
  <2>3. lease = <<i, "run">> => worker[i] \notin {"none", "ended"}
    BY <1>4 DEF HolderIsAtWork
  <2> QED
    BY <2>1, <2>2, <2>3, RunStepKeepsHolder
<1>5. ASSUME CancelRunner(i), task[i] # "created",
             \A j \in Instance : j # i => task'[j] = task[j]
      PROVE  HolderIsAtWork'
  BY <1>5, CancelRunnerHolds, RunStepKeepsHolder
<1>6. CASE \/ task[i] \in {"waiting", "stopping", "cancelled"}
           \/ task[i] = "leaving" /\ worker[i] # "ended"
  BY <1>5, <1>6 DEF CancelTask
<1>7. CASE task[i] \in {"deciding", "recording", "erring"}
  BY <1>5, <1>7 DEF CancelTask
<1> QED
  BY <1>1, <1>2, <1>3, <1>4, <1>6, <1>7 DEF TaskPC

\* The steps of the runner and of _run.
LEMMA RunsKeepHolder ==
  ASSUME TypeOK, HolderIsAtWork, NEW i \in Instance,
         WorkerStep(i) \/ TaskStep(i) \/ Fault(i)
  PROVE  HolderIsAtWork'
<1> USE DEF TypeOK, redis, Task, Worker
<1>0. <<i, "run">> \in Holder
  BY DEF Holder
<1>1. CASE WorkerStep(i) \/ LoseLock(i) \/ FatalError(i)
  <2>1. /\ call' = call /\ task' = task
        /\ \A j \in Instance : j # i => worker'[j] = worker[j]
    BY <1>1 DEF WorkerStep, Build, FirstRefresh, ReportFatal, Saved, Release, LoseLock,
                FatalError
  <2>2. lease' \in {lease, Freed(<<i, "run">>), Abandoned(<<i, "run">>)}
    BY <1>1 DEF WorkerStep, Build, FirstRefresh, ReportFatal, Saved, Release, LoseLock,
                FatalError
  <2>3. lease' = <<i, "run">> => worker'[i] \notin {"none", "ended"}
    BY <1>0, <1>1, LetGo DEF WorkerStep, Build, FirstRefresh, ReportFatal, Saved, Release,
                             LoseLock, FatalError
  <2> QED
    BY <2>1, <2>2, <2>3, RunStepKeepsHolder
<1>2. CASE FirstStep(i)
  BY <1>2, RunStepKeepsHolder DEF FirstStep
<1>3. CASE WatcherFires(i) \/ MarkError(i) \/ MarkFails(i)
  <2>1. CancelRunner(i) /\ task[i] # "created" /\ call' = call
    BY <1>3 DEF WatcherFires, MarkError, MarkFails
  <2>2. \A j \in Instance : j # i => task'[j] = task[j]
    BY <1>3 DEF WatcherFires, MarkError, MarkFails
  <2> QED
    BY <2>1, <2>2, CancelRunnerHolds, RunStepKeepsHolder
<1>4. CASE WatcherFails(i) \/ RunnerDone(i) \/ Decide(i) \/ MarkStopped(i)
  <2>1. /\ task[i] # "created" /\ call' = call /\ worker' = worker /\ lease' = lease
        /\ \A j \in Instance : j # i => task'[j] = task[j]
    BY <1>4 DEF WatcherFails, RunnerDone, Decide, MarkStopped
  <2> QED
    BY <2>1, RunStepKeepsHolder DEF HolderIsAtWork
<1>5. CASE Leave(i)
  <2>1. lease' = lease /\ lease # <<i, "run">> /\ call' = call
    BY <1>5 DEF Leave, HolderIsAtWork
  <2>2. \A j \in Instance : j # i => task'[j] = task[j] /\ worker'[j] = worker[j]
    BY <1>5 DEF Leave
  <2> QED
    BY <2>1, <2>2, RunStepKeepsHolder
<1> QED
  BY <1>1, <1>2, <1>3, <1>4, <1>5 DEF TaskStep, Fault

\* Stops, shutdowns, crashes and upkeep.
LEMMA ShutdownKeepsHolder ==
  ASSUME TypeOK, HolderIsAtWork,
         \/ \E i \in Instance :
              \/ StopBegins(i) \/ StopStep(i) \/ StopAllBegins(i) \/ DrainStep(i)
              \/ Crash(i) \/ Finalize(i)
         \/ Cleanup \/ Expire
  PROVE  HolderIsAtWork'
<1> USE DEF TypeOK, redis, run
<1>1. ASSUME NEW i \in Instance, \/ StopBegins(i) \/ Publish(i) \/ MarkStopping(i)
                                 \/ Exit(i) \/ Finalize(i)
      PROVE  HolderIsAtWork'
  <2>1. UNCHANGED <<lease, call, task, worker>>
    BY <1>1 DEF StopBegins, Publish, MarkStopping, Exit, Finalize
  <2> QED
    BY <2>1 DEF HolderIsAtWork
<1>2. ASSUME NEW i \in Instance, StopCancels(i) \/ StopAllCancels(i)
      PROVE  HolderIsAtWork'
  <2>1. call' = call
    BY <1>2 DEF StopCancels, StopAllCancels
  <2>2. CASE UNCHANGED <<lease, task, worker>>
    BY <2>1, <2>2 DEF HolderIsAtWork
  <2> QED
    BY <1>2, <2>1, <2>2, CancelTaskKeepsHolder DEF StopCancels, StopAllCancels
<1>3. ASSUME NEW i \in Instance, StopAllBegins(i) PROVE HolderIsAtWork'
  <2> DEFINE c == <<i, "resume">>
  <2>1. c \in Caller /\ c \in Holder /\ UNCHANGED <<task, worker>>
    BY <1>3 DEF StopAllBegins, Caller, Holder
  <2>2. \A d \in Caller : d # c => call'[d] = call[d]
    BY <1>3 DEF StopAllBegins, Step
  <2>3. call'[c] = IF call[c] \in {"idle", "acquire", "giveup"} THEN "idle" ELSE "giveup"
    BY <1>3, <2>1 DEF StopAllBegins, Step
  <2>4. CASE lease' = <<i, "lost">> /\ lease = Free
    BY <2>4 DEF HolderIsAtWork, Caller
  <2>5. CASE call[c] # "giveup" /\ lease' = lease
    BY <2>1, <2>2, <2>3, <2>5 DEF HolderIsAtWork
  <2>6. CASE call[c] = "giveup" /\ lease' = Abandoned(c)
    <3>1. lease' # c
      BY <2>1, <2>6, LetGo
    <3>2. \A d \in Caller : lease' = d => lease = d
      BY <2>1, <2>6, LetGo
    <3>3. \A j \in Instance : lease' = <<j, "run">> => lease = <<j, "run">>
      BY <2>1, <2>6, LetGo
    <3> QED
      BY <2>1, <2>2, <3>1, <3>2, <3>3 DEF HolderIsAtWork
  <2> QED
    BY <1>3, <2>4, <2>5, <2>6 DEF StopAllBegins
<1>4. ASSUME NEW i \in Instance, Crash(i) PROVE HolderIsAtWork'
  <2>1. CASE lease # Free /\ lease[1] = i
    <3>1. lease' = <<i, "lost">>
      BY <1>4, <2>1 DEF Crash
    <3> QED
      BY <3>1 DEF HolderIsAtWork, Caller
  <2>2. CASE ~(lease # Free /\ lease[1] = i)
    <3>1. lease' = lease
      BY <1>4, <2>2 DEF Crash
    <3>2. \A c \in Caller : lease = c => call'[c] = call[c]
      BY <1>4, <2>2, ConstantsAssumption DEF Crash, Caller
    <3>3. \A j \in Instance : lease = <<j, "run">> =>
                                task'[j] = task[j] /\ worker'[j] = worker[j]
      BY <1>4, <2>2, ConstantsAssumption DEF Crash, Task, Worker
    <3> QED
      BY <3>1, <3>2, <3>3 DEF HolderIsAtWork
  <2> QED
    BY <2>1, <2>2
<1>5. CASE Cleanup
  BY <1>5 DEF Cleanup, HolderIsAtWork
<1>6. CASE Expire
  BY <1>6, ConstantsAssumption DEF Expire, HolderIsAtWork, Caller
<1> QED
  BY <1>1, <1>2, <1>3, <1>4, <1>5, <1>6 DEF StopStep, DrainStep

\* For any number of instances and whatever fails, is cancelled or dies: a lease
\* whose token still belongs to a start, an adoption or a run has that coroutine at
\* work.  Any other lease is lost to its TTL, so none outlasts it unattended.
THEOREM HoldersAreAtWork == Spec => []HolderIsAtWork
<1>1. Init => HolderIsAtWork
  BY ConstantsAssumption DEF Init, HolderIsAtWork, Caller
<1>2. TypeOK /\ HolderIsAtWork /\ [Next]_vars => HolderIsAtWork'
  <2> SUFFICES ASSUME TypeOK, HolderIsAtWork, [Next]_vars PROVE HolderIsAtWork'
    OBVIOUS
  <2>1. CASE Next
    BY <2>1, CallsKeepHolder, AdoptionKeepsHolder, RunsKeepHolder, ShutdownKeepsHolder
       DEF Next
  <2>2. CASE UNCHANGED vars
    BY <2>2 DEF vars, redis, run, HolderIsAtWork
  <2> QED
    BY <2>1, <2>2
<1> QED
  BY <1>1, <1>2, ManagerTypeCorrect, PTL DEF Spec
=============================================================================
