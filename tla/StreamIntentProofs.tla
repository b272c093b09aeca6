------------------------- MODULE StreamIntentProofs -------------------------
(* What the user asked for, for any number of instances, faults, drains and
   crashes: a stream becomes "stopped" only after a stop was requested.

   The argument rests on a stop request that is never taken back.  Deleting the
   entry of the stream takes it back, so the theorems assume that nothing is
   deleted: no stop is ever requested, or no cleanup runs and no start takes so
   long that its stream is adopted meanwhile.                                  *)
EXTENDS StreamManagerProofs

-----------------------------------------------------------------------------
(* The inductive invariants. *)

\* Whatever is on its way to "stopped" was set off by a stop request.  A _run task
\* that handles a cancellation may also belong to an instance that drains; the
\* task has cancelled no runner before it handles a stop or a cancellation.
StopInv ==
    /\ status = "stopping" => stopKey
    /\ \A i \in Instance :
         /\ stopper[i] \in {"mark", "cancel"} => stopKey
         /\ task[i] \in {"stopping", "marking", "recording"} => stopKey
         /\ task[i] \in {"cancelled", "deciding"} => stopKey \/ ShuttingDown(i)
         /\ task[i] \in {"created", "waiting"} => outcome[i] # "cancelled"

\* start_stream of i has created the entry and is about to acquire the lease.
Opening(i) == call[<<i, "start">>] = "acquire"

\* Nobody disputes the lease with the one start_stream that opens the stream, so
\* that none is ever undone.
OpensAlone ==
    /\ ~listed => lease = Free /\ \A c \in Caller : call[c] = "idle"
    /\ \A i \in Instance :
         /\ call[<<i, "start">>] # "undo"
         /\ Opening(i) => /\ listed /\ status # "active" /\ lease = Free
                          /\ \A c \in Caller : c # <<i, "start">> => call[c] = "idle"

\* Nobody has asked for a stop.
NoStops == ~stopKey /\ \A i \in Instance : stopper[i] = "idle"

-----------------------------------------------------------------------------
(* Whatever heads for "stopped" was set off by a stop request. *)

\* The part of StopInv about the _run task of i.
TaskIntent(i) ==
    /\ task[i] \in {"stopping", "marking", "recording"} => stopKey
    /\ task[i] \in {"cancelled", "deciding"} => stopKey \/ ShuttingDown(i)
    /\ task[i] \in {"created", "waiting"} => outcome[i] # "cancelled"

\* A step that leaves the stop request in place keeps StopInv if what it newly
\* sets off has that request for a reason.
LEMMA KeepsStopInv ==
  ASSUME StopInv, stopKey => stopKey',
         status' = "stopping" => status = "stopping" \/ stopKey',
         \A i \in Instance :
           /\ stopper'[i] \in {"mark", "cancel"} =>
                stopper[i] \in {"mark", "cancel"} \/ stopKey'
           /\ TaskIntent(i)'
  PROVE  StopInv'
BY DEF StopInv, TaskIntent

\* A task that does not move keeps its part.
LEMMA StillTaskKeepsIntent ==
  ASSUME StopInv, stopKey => stopKey', NEW i \in Instance,
         task'[i] = task[i], ShuttingDown(i) => ShuttingDown(i)',
         outcome'[i] = "cancelled" /\ task[i] \in {"created", "waiting"} =>
           outcome[i] = "cancelled"
  PROVE  TaskIntent(i)'
BY DEF StopInv, TaskIntent

\* task.cancel() on behalf of a stop or of a drain keeps the parts of all tasks.
LEMMA CancelTaskKeepsIntent ==
  ASSUME TypeOK, StopInv, stopKey' = stopKey, NEW i \in Instance, CancelTask(i),
         stopKey \/ ShuttingDown(i)',
         \A j \in Instance : ShuttingDown(j) => ShuttingDown(j)'
  PROVE  \A j \in Instance : TaskIntent(j)'
<1> USE DEF TypeOK
<1> SUFFICES ASSUME NEW j \in Instance PROVE TaskIntent(j)'
  OBVIOUS
<1>1. CASE j # i
  <2>1. task'[j] = task[j] /\ outcome'[j] = outcome[j]
    <3>1. CASE task[i] \in {"none", "created", "waiting", "leaving"}
      BY <1>1, <3>1 DEF CancelTask, CancelRunner, Task, run
    <3>2. CASE task[i] \in {"stopping", "cancelled", "marking"}
      BY <1>1, <3>2 DEF CancelTask, CancelRunner, Task
    <3>3. CASE task[i] \in {"deciding", "recording", "erring"}
      BY <1>1, <3>3 DEF CancelTask, CancelRunner, Task
    <3> QED
      BY <3>1, <3>2, <3>3 DEF TaskPC
  <2> QED
    BY <2>1, StillTaskKeepsIntent
<1>2. CASE j = i
  <2>1. CASE task[i] \in {"none", "created", "waiting"}
    BY <1>2, <2>1 DEF CancelTask, Task, TaskIntent, run
  <2>2. CASE task[i] = "leaving"
    BY <1>2, <2>2 DEF CancelTask, Task, TaskIntent
  <2>3. CASE task[i] \in {"stopping", "cancelled"}
    <3>1. task' = task
      BY <2>3 DEF CancelTask
    <3> QED
      BY <1>2, <2>3, <3>1 DEF StopInv, TaskIntent
  <2>4. CASE task[i] = "marking"
    BY <1>2, <2>4 DEF CancelTask, Task, TaskIntent
  <2>5. CASE task[i] \in {"deciding", "recording", "erring"}
    BY <1>2, <2>5 DEF CancelTask, Task, TaskIntent
  <2> QED
    BY <2>1, <2>2, <2>3, <2>4, <2>5 DEF TaskPC
<1> QED
  BY <1>1, <1>2

\* Steps of start_stream and resume_stream set off no stop.
LEMMA CallsKeepStopInv ==
  ASSUME TypeOK, StopInv, NEW c \in Caller, CallStep(c) \/ CallFails(c)
  PROVE  StopInv'
<1> USE DEF CallStep, CallFails, Acquire, Enter, Verify, Activate, Confirm, GiveUp,
            HSet, redis, stops, run
<1>1. /\ stopKey' = stopKey /\ stopper' = stopper /\ up' = up
      /\ status' = "stopping" => status = "stopping"
  OBVIOUS
<1>2. \A i \in Instance : TaskIntent(i)'
  <2>1. CASE Launch(c[1])
    <3> SUFFICES ASSUME NEW i \in Instance PROVE TaskIntent(i)'
      OBVIOUS
    <3>1. CASE i = c[1]
      BY <2>1, <3>1 DEF Launch, TypeOK, TaskIntent
    <3>2. CASE i # c[1]
      <4>1. task'[i] = task[i] /\ outcome'[i] = outcome[i]
        BY <2>1, <3>2 DEF Launch, TypeOK
      <4> QED
        BY <1>1, <4>1, StillTaskKeepsIntent DEF ShuttingDown
    <3> QED
      BY <3>1, <3>2
  <2>2. CASE UNCHANGED <<task, outcome>>
    BY <1>1, <2>2, StillTaskKeepsIntent DEF ShuttingDown
  <2> QED
    BY <2>1, <2>2
<1> QED
  BY <1>1, <1>2, KeepsStopInv

\* Steps that leave every task where it is.
LEMMA OtherStepsKeepStopInv ==
  ASSUME TypeOK, StopInv, stopKey => stopKey', NEW i \in Instance,
         \/ Create(i) \/ UndoCreate(i) \/ Reconcile(i) \/ ResumeStep(i)
         \/ WorkerStep(i) \/ LoseLock(i) \/ FatalError(i)
         \/ StopBegins(i) \/ Publish(i) \/ MarkStopping(i)
         \/ StopAllBegins(i) \/ Finalize(i) \/ Cleanup \/ Expire
  PROVE  StopInv'
<1> USE DEF TypeOK, redis, run, stops
<1>1. task' = task /\ \A j \in Instance : outcome'[j] = "cancelled" => outcome[j] = "cancelled"
  <2>1. CASE WorkerStep(i) \/ LoseLock(i) \/ FatalError(i)
    BY <2>1 DEF WorkerStep, Build, FirstRefresh, ReportFatal, Saved, Release,
                LoseLock, FatalError, Ends
  <2>2. CASE UNCHANGED <<task, outcome>>
    BY <2>2
  <2> QED
    BY <2>1, <2>2 DEF Create, UndoCreate, Reconcile, ResumeStep, Reread, StopCheck,
         StopBegins, Publish, MarkStopping, StopAllBegins, Finalize, Cleanup, Expire
<1>2. \A j \in Instance : ShuttingDown(j) => ShuttingDown(j)'
  <2>1. CASE StopAllBegins(i)
    BY <2>1 DEF StopAllBegins, ShuttingDown
  <2>2. CASE up' = up
    BY <2>2 DEF ShuttingDown
  <2> QED
    BY <2>1, <2>2 DEF Create, UndoCreate, Reconcile, ResumeStep, Reread, StopCheck,
         WorkerStep, Build, FirstRefresh, ReportFatal, Saved, Release,
         LoseLock, FatalError, StopBegins, Publish, MarkStopping, Finalize, Cleanup,
         Expire
<1>3. \A j \in Instance : TaskIntent(j)'
  BY <1>1, <1>2, StillTaskKeepsIntent
<1>4. CASE StopBegins(i) \/ Publish(i) \/ MarkStopping(i)
  <2>1. status' = "stopping" => status = "stopping" \/ stopKey'
    BY <1>4 DEF StopBegins, Publish, MarkStopping, HSet, StopInv
  <2>2. \A j \in Instance : stopper'[j] \in {"mark", "cancel"} =>
           stopper[j] \in {"mark", "cancel"} \/ stopKey'
    BY <1>4 DEF StopBegins, Publish, MarkStopping, Stopper
  <2> QED
    BY <1>3, <2>1, <2>2, KeepsStopInv
<1>5. CASE stopper' = stopper
  <2>1. status' = "stopping" => status = "stopping"
    BY <1>5 DEF Create, UndoCreate, DeleteEntry, Reconcile, ResumeStep, Reread,
         StopCheck, WorkerStep, Build, FirstRefresh, ReportFatal, HSetIfOwner, Saved,
         Release, LoseLock, FatalError, StopBegins, Publish, MarkStopping, Stopper,
         StopAllBegins, Finalize, Cleanup, Expire
  <2> QED
    BY <1>3, <1>5, <2>1, KeepsStopInv
<1> QED
  BY <1>4, <1>5 DEF Create, UndoCreate, Reconcile, ResumeStep, Reread, StopCheck,
       WorkerStep, Build, FirstRefresh, ReportFatal, Saved, Release,
       LoseLock, FatalError, StopAllBegins, Finalize, Cleanup, Expire

\* Steps of _run: a stop is marked or recorded only where one was requested, for
\* a runner that nobody cancelled does not end as cancelled.
LEMMA TasksKeepStopInv ==
  ASSUME TypeOK, StopInv, NEW i \in Instance, TaskStep(i) \/ WatcherFails(i) \/ MarkFails(i)
  PROVE  StopInv'
<1> USE DEF TypeOK, redis, stops
<1>1. /\ stopKey' = stopKey /\ stopper' = stopper /\ up' = up
      /\ status' = "stopping" => status = "stopping"
  BY DEF TaskStep, FirstStep, WatcherFires, RunnerDone, Decide, MarkStopped, MarkError,
         Leave, WatcherFails, MarkFails, HSetIfOwner
<1>2. ASSUME NEW j \in Instance, j # i PROVE TaskIntent(j)'
  <2>1. task'[j] = task[j] /\ outcome'[j] = outcome[j]
    BY <1>2 DEF TaskStep, FirstStep, WatcherFires, RunnerDone, Decide, MarkStopped,
                MarkError, Leave, WatcherFails, MarkFails, Task, Ends, CancelRunner
  <2> QED
    BY <1>1, <2>1, StillTaskKeepsIntent DEF ShuttingDown
<1>3. TaskIntent(i)'
  <2>1. CASE FirstStep(i)
    BY <2>1 DEF FirstStep, Task, TaskIntent, StopInv
  <2>2. CASE WatcherFires(i)
    BY <2>2 DEF WatcherFires, Task, TaskIntent
  <2>3. CASE RunnerDone(i)
    <3>1. CASE task[i] = "cancelled"
      BY <1>1, <2>3, <3>1 DEF RunnerDone, Task, TaskIntent, StopInv, ShuttingDown
    <3>2. CASE task[i] = "stopping"
      BY <1>1, <2>3, <3>2 DEF RunnerDone, Task, TaskIntent, StopInv
    <3>3. CASE task[i] = "waiting"
      <4>1. outcome[i] # "cancelled"
        BY <3>3 DEF StopInv
      <4> QED
        BY <2>3, <3>3, <4>1 DEF RunnerDone, Task, TaskIntent
    <3> QED
      BY <2>3, <3>1, <3>2, <3>3 DEF RunnerDone
  <2>4. CASE Decide(i)
    BY <1>1, <2>4 DEF Decide, Task, TaskIntent, StopInv
  <2>5. CASE MarkStopped(i) \/ MarkError(i)
    BY <2>5 DEF MarkStopped, MarkError, Task, TaskIntent
  <2>6. CASE Leave(i) \/ MarkFails(i)
    BY <2>6 DEF Leave, MarkFails, Task, TaskIntent
  <2>7. CASE WatcherFails(i)
    <3>1. CASE task[i] = "waiting"
      BY <2>7, <3>1 DEF WatcherFails, Task, TaskIntent
    <3>2. CASE task[i] # "waiting"
      <4>1. task'[i] = task[i] /\ outcome'[i] = outcome[i]
        BY <2>7, <3>2 DEF WatcherFails, Task
      <4> QED
        BY <1>1, <4>1, StillTaskKeepsIntent DEF ShuttingDown
    <3> QED
      BY <3>1, <3>2
  <2> QED
    BY <2>1, <2>2, <2>3, <2>4, <2>5, <2>6, <2>7 DEF TaskStep
<1> QED
  BY <1>1, <1>2, <1>3, KeepsStopInv

\* The cancellation by stop_stream has its request, the one by stop_all its drain;
\* an instance that exits or dies leaves nothing behind that could stop the stream.
LEMMA ShutdownKeepsStopInv ==
  ASSUME TypeOK, StopInv, NEW i \in Instance, StopCancels(i) \/ DrainStep(i) \/ Crash(i)
  PROVE  StopInv'
<1> USE DEF TypeOK, redis, run, stops
<1>1. /\ stopKey' = stopKey /\ status' = status
      /\ \A j \in Instance : ShuttingDown(j) => ShuttingDown(j)'
      /\ \A j \in Instance : stopper'[j] \in {"mark", "cancel"} =>
                               stopper[j] \in {"mark", "cancel"}
  BY DEF StopCancels, DrainStep, StopAllCancels, Exit, Crash, Stopper, ShuttingDown
<1>2. CASE StopCancels(i) \/ StopAllCancels(i)
  <2>1. stopKey \/ ShuttingDown(i)'
    BY <1>2 DEF StopCancels, StopAllCancels, StopInv, ShuttingDown
  <2>2. \A j \in Instance : TaskIntent(j)'
    <3>1. CASE CancelTask(i)
      BY <1>1, <2>1, <3>1, CancelTaskKeepsIntent
    <3>2. CASE UNCHANGED run
      BY <1>1, <3>2, StillTaskKeepsIntent
    <3> QED
      BY <1>2, <3>1, <3>2 DEF StopCancels, StopAllCancels
  <2> QED
    BY <1>1, <2>2, KeepsStopInv
<1>3. CASE Exit(i)
  <2>1. task' = task /\ outcome' = outcome
    BY <1>3 DEF Exit
  <2> QED
    BY <1>1, <2>1, KeepsStopInv, StillTaskKeepsIntent
<1>4. CASE Crash(i)
  <2>1. TaskIntent(i)'
    BY <1>4 DEF Crash, Task, TaskIntent
  <2>2. ASSUME NEW j \in Instance, j # i PROVE TaskIntent(j)'
    <3>1. task'[j] = task[j] /\ outcome'[j] = outcome[j]
      BY <1>4, <2>2 DEF Crash, Task, Ends
    <3> QED
      BY <1>1, <3>1, StillTaskKeepsIntent
  <2> QED
    BY <1>1, <2>1, <2>2, KeepsStopInv
<1> QED
  BY <1>2, <1>3, <1>4 DEF DrainStep

\* StopInv is kept by every step that does not delete a stop request.
LEMMA StopInvInductive ==
  ASSUME TypeOK, StopInv, [Next]_vars, stopKey => stopKey'
  PROVE  StopInv'
<1>1. ASSUME NEW c \in Caller, CallStep(c) \/ CallFails(c) PROVE StopInv'
  BY <1>1, CallsKeepStopInv
<1>2. ASSUME NEW i \in Instance,
             \/ Create(i) \/ UndoCreate(i) \/ Reconcile(i) \/ ResumeStep(i)
             \/ WorkerStep(i) \/ LoseLock(i) \/ FatalError(i)
             \/ StopBegins(i) \/ Publish(i) \/ MarkStopping(i)
             \/ StopAllBegins(i) \/ Finalize(i)
      PROVE  StopInv'
  BY <1>2, OtherStepsKeepStopInv
<1>3. ASSUME NEW i \in Instance, TaskStep(i) \/ WatcherFails(i) \/ MarkFails(i)
      PROVE  StopInv'
  BY <1>3, TasksKeepStopInv
<1>4. ASSUME NEW i \in Instance, StopCancels(i) \/ DrainStep(i) \/ Crash(i)
      PROVE  StopInv'
  BY <1>4, ShutdownKeepsStopInv
<1>5. CASE Cleanup \/ Expire
  <2>1. owner \in Instance
    BY DEF TypeOK
  <2> QED
    BY <1>5, <2>1, OtherStepsKeepStopInv
<1>6. CASE UNCHANGED vars
  BY <1>6 DEF vars, redis, run, stops, StopInv, ShuttingDown
<1> QED
  BY <1>1, <1>2, <1>3, <1>4, <1>5, <1>6 DEF Next, Fault, StopStep

\* Only a stop that was requested can write "stopped".
LEMMA StoppedHasRequest ==
  ASSUME TypeOK, StopInv, [Next]_vars, status' = "stopped", status # "stopped"
  PROVE  stopKey
<1> USE DEF redis
<1>1. ASSUME NEW c \in Caller, CallStep(c) \/ CallFails(c) PROVE FALSE
  BY <1>1 DEF CallStep, CallFails, Acquire, Enter, Verify, Activate, HSet, Confirm, GiveUp
<1>2. ASSUME NEW i \in Instance,
             \/ Create(i) \/ UndoCreate(i) \/ Reconcile(i) \/ ResumeStep(i)
             \/ WorkerStep(i) \/ Fault(i) \/ StopBegins(i) \/ StopStep(i)
             \/ StopAllBegins(i) \/ DrainStep(i) \/ Crash(i)
      PROVE  FALSE
  BY <1>2 DEF Create, UndoCreate, DeleteEntry, Reconcile, ResumeStep, Reread, StopCheck,
       WorkerStep, Build, FirstRefresh, ReportFatal, HSetIfOwner, Saved, Release,
       Fault, LoseLock, FatalError, WatcherFails, MarkFails, StopBegins, StopStep,
       Publish, MarkStopping, HSet, StopCancels, StopAllBegins, DrainStep,
       StopAllCancels, Exit, Crash
<1>3. ASSUME NEW i \in Instance, TaskStep(i) PROVE stopKey
  BY <1>3 DEF TaskStep, FirstStep, WatcherFires, RunnerDone, Decide, MarkStopped,
              MarkError, Leave, HSetIfOwner, StopInv
<1>4. ASSUME NEW i \in Instance, Finalize(i) PROVE stopKey
  BY <1>4 DEF Finalize, StopInv
<1>5. CASE Cleanup \/ Expire \/ UNCHANGED vars
  BY <1>5 DEF Cleanup, DeleteEntry, Expire, vars
<1> QED
  BY <1>1, <1>2, <1>3, <1>4, <1>5 DEF Next

-----------------------------------------------------------------------------
(* Where nobody asks for a stop. *)

\* Without stop requests from outside there is no stop request at all.
LEMMA NoStopsInductive ==
  ASSUME Stoppers = {}, TypeOK, NoStops, [Next]_vars
  PROVE  NoStops'
<1> USE DEF TypeOK, redis, run, stops, NoStops
<1>1. ASSUME NEW c \in Caller, CallStep(c) \/ CallFails(c) PROVE NoStops'
  BY <1>1 DEF CallStep, CallFails, Acquire, Enter, Verify, Activate, Confirm, GiveUp
<1>2. ASSUME NEW i \in Instance,
             \/ Create(i) \/ UndoCreate(i) \/ Reconcile(i) \/ ResumeStep(i)
             \/ WorkerStep(i) \/ TaskStep(i) \/ Fault(i)
             \/ StopAllBegins(i) \/ DrainStep(i) \/ Finalize(i)
      PROVE  NoStops'
  BY <1>2 DEF Create, UndoCreate, DeleteEntry, Reconcile, ResumeStep, Reread, StopCheck,
       WorkerStep, Build, FirstRefresh, ReportFatal, Saved, Release,
       TaskStep, FirstStep, WatcherFires, RunnerDone, Decide, MarkStopped, MarkError,
       Leave, Fault, LoseLock, FatalError, WatcherFails, MarkFails, StopAllBegins,
       DrainStep, StopAllCancels, Exit, Finalize
<1>3. ASSUME NEW i \in Instance, StopBegins(i) \/ StopStep(i) PROVE FALSE
  BY <1>3 DEF StopBegins, StopStep, Publish, MarkStopping, StopCancels
<1>4. ASSUME NEW i \in Instance, Crash(i) PROVE NoStops'
  BY <1>4 DEF Crash, Stopper
<1>5. CASE Cleanup \/ Expire \/ UNCHANGED vars
  BY <1>5 DEF Cleanup, DeleteEntry, Expire, vars
<1> QED
  BY <1>1, <1>2, <1>3, <1>4, <1>5 DEF Next

\* "A graceful instance shutdown releases ownership without changing the user's
\* intent": as long as nobody asks for a stop, no drain, crash, fault, lost lease,
\* slow activation or cleanup makes the stream stopping or stopped, on however
\* many instances; whatever cancels its tasks, it stays to be adopted.
THEOREM IntentSurvivesShutdown ==
  ASSUME Stoppers = {}
  PROVE  Spec => [](status \notin {"stopping", "stopped"})
<1> DEFINE Inv == StopInv /\ NoStops /\ status \notin {"stopping", "stopped"}
<1>1. Init => Inv
  BY DEF Init, StopInv, NoStops
<1>2. TypeOK /\ Inv /\ [Next]_vars => Inv'
  <2> SUFFICES ASSUME TypeOK, Inv, [Next]_vars PROVE Inv'
    OBVIOUS
  <2>1. NoStops'
    BY NoStopsInductive
  <2>2. StopInv'
    BY StopInvInductive DEF NoStops
  <2>3. status' # "stopped"
    BY StoppedHasRequest DEF NoStops
  <2>4. status' # "stopping"
    BY <2>1, <2>2 DEF StopInv, NoStops
  <2> QED
    BY <2>1, <2>2, <2>3, <2>4
<1>3. Inv => status \notin {"stopping", "stopped"}
  OBVIOUS
<1> HIDE DEF Inv
<1> QED
  BY <1>1, <1>2, <1>3, ManagerTypeCorrect, PTL DEF Spec

-----------------------------------------------------------------------------
(* Where no entry is deleted. *)

\* A step that takes nothing and adds no request keeps OpensAlone.
LEMMA KeepsAlone ==
  ASSUME OpensAlone, listed' = listed,
         status' = "active" => status = "active",
         lease = Free => lease' = Free,
         \A c \in Caller : call'[c] \in {call[c], "idle"}
  PROVE  OpensAlone'
<1>1. \A i \in Instance : <<i, "start">> \in Caller
  BY DEF Caller
<1> QED
  BY <1>1 DEF OpensAlone, Opening

\* A request that is not at its start any more keeps OpensAlone, since nobody
\* else can be opening the stream.
LEMMA RequestKeepsAlone ==
  ASSUME TypeOK, OpensAlone, NEW c \in Caller, NEW pc \in CallPC,
         call[c] # "idle", Step(c, pc), pc \notin {"acquire", "undo"},
         listed' = listed
  PROVE  OpensAlone'
<1> USE DEF TypeOK, Step
<1>1. listed'
  BY DEF OpensAlone
<1>2. ASSUME NEW i \in Instance PROVE call'[<<i, "start">>] # "undo" /\ ~Opening(i)'
  <2>1. <<i, "start">> \in Caller
    BY DEF Caller
  <2>2. call'[<<i, "start">>] # "undo"
    BY <2>1 DEF OpensAlone
  <2>3. CASE c = <<i, "start">>
    BY <2>2, <2>3 DEF Opening
  <2>4. CASE c # <<i, "start">>
    BY <2>1, <2>2, <2>4 DEF Opening, OpensAlone
  <2> QED
    BY <2>3, <2>4
<1> QED
  BY <1>1, <1>2 DEF OpensAlone

\* The steps of start_stream and resume_stream.
LEMMA CallsKeepAlone ==
  ASSUME TypeOK, OpensAlone, NEW c \in Caller, CallStep(c) \/ CallFails(c)
  PROVE  OpensAlone'
<1>1. call[c] # "idle" /\ listed' = listed
  BY DEF CallStep, CallFails, Acquire, Enter, Verify, Activate, Confirm, GiveUp, redis
<1>2. CASE Acquire(c)
  <2>1. lease # Free => c[2] # "start"
    <3>1. PICK i \in Instance, r \in {"start", "resume"} : c = <<i, r>>
      BY DEF Caller
    <3> QED
      BY <1>2, <3>1 DEF Acquire, OpensAlone, Opening
  <2>2. \E pc \in CallPC \ {"acquire", "undo"} : Step(c, pc)
    BY <1>2, <2>1 DEF Acquire, CallPC
  <2> QED
    BY <1>1, <2>2, RequestKeepsAlone
<1>3. CASE ~Acquire(c)
  <2>1. \E pc \in CallPC \ {"acquire", "undo"} : Step(c, pc)
    BY <1>3 DEF CallStep, CallFails, Enter, Verify, Activate, Confirm, GiveUp, CallPC
  <2> QED
    BY <1>1, <2>1, RequestKeepsAlone
<1> QED
  BY <1>2, <1>3

\* Creating and adopting: only an unlisted stream is created, and without slow
\* activations a stream that is being opened is not adopted.
LEMMA AdoptionKeepsAlone ==
  ASSUME ~SlowActivation, TypeOK, OpensAlone, NEW i \in Instance,
         Create(i) \/ UndoCreate(i) \/ Reconcile(i) \/ ResumeStep(i)
  PROVE  OpensAlone'
<1> USE DEF TypeOK
<1>1. \A j \in Instance : <<j, "start">> \in Caller /\ <<j, "resume">> \in Caller
  BY DEF Caller
<1>2. CASE Create(i)
  <2>1. listed' /\ status' # "active" /\ lease' = Free
    BY <1>2 DEF Create, OpensAlone
  <2>2. \A c \in Caller : call'[c] = IF c = <<i, "start">> THEN "acquire" ELSE "idle"
    BY <1>2 DEF Create, Step, OpensAlone
  <2> QED
    BY <1>1, <2>1, <2>2 DEF OpensAlone, Opening
<1>3. CASE UndoCreate(i)
  BY <1>3 DEF UndoCreate, OpensAlone
<1>4. CASE Reconcile(i)
  <2>1. \A j \in Instance : ~Opening(j)
    BY <1>4 DEF Reconcile, NeedsReconciliation, OpensAlone, Opening
  <2>2. \A j \in Instance : call'[<<j, "start">>] = call[<<j, "start">>]
    BY <1>1, <1>4 DEF Reconcile, Step
  <2>3. listed'
    BY <1>4 DEF Reconcile, redis
  <2> QED
    BY <2>1, <2>2, <2>3 DEF OpensAlone, Opening
<1>5. CASE ResumeStep(i)
  <2>1. call[<<i, "resume">>] # "idle" /\ listed' = listed
    BY <1>5 DEF ResumeStep, Reread, StopCheck, redis
  <2>2. \E pc \in CallPC \ {"acquire", "undo"} : Step(<<i, "resume">>, pc)
    BY <1>5 DEF ResumeStep, Reread, StopCheck, CallPC
  <2> QED
    BY <1>1, <2>1, <2>2, RequestKeepsAlone
<1> QED
  BY <1>2, <1>3, <1>4, <1>5

\* A free lease can be neither released nor abandoned.
LEMMA FreeStaysFree ==
  ASSUME NEW h \in Holder, lease = Free
  PROVE  Freed(h) = Free /\ Abandoned(h) = Free
BY ConstantsAssumption DEF Freed, Abandoned, Holder

\* The steps of the runner and of _run touch neither the requests nor a free lease.
LEMMA RunsKeepAlone ==
  ASSUME TypeOK, OpensAlone, NEW i \in Instance,
         WorkerStep(i) \/ TaskStep(i) \/ Fault(i)
  PROVE  OpensAlone'
<1> USE DEF redis
<1>1. <<i, "run">> \in Holder
  BY DEF Holder
<1>2. call' = call /\ listed' = listed
  BY DEF WorkerStep, Build, FirstRefresh, ReportFatal, Saved, Release,
         TaskStep, FirstStep, WatcherFires, RunnerDone, Decide, MarkStopped, MarkError,
         Leave, Fault, LoseLock, FatalError, WatcherFails, MarkFails
<1>3. status' = "active" => status = "active"
  BY DEF WorkerStep, Build, FirstRefresh, ReportFatal, Saved, Release,
         TaskStep, FirstStep, WatcherFires, RunnerDone, Decide, MarkStopped, MarkError,
         Leave, Fault, LoseLock, FatalError, WatcherFails, MarkFails, HSetIfOwner
<1>4. lease = Free => lease' = Free
  BY <1>1, FreeStaysFree
     DEF WorkerStep, Build, FirstRefresh, ReportFatal, Saved, Release,
         TaskStep, FirstStep, WatcherFires, RunnerDone, Decide, MarkStopped, MarkError,
         Leave, Fault, LoseLock, FatalError, WatcherFails, MarkFails, CancelRunner
<1> QED
  BY <1>2, <1>3, <1>4, KeepsAlone

\* task.cancel() leaves a free lease free.
LEMMA CancelTaskKeepsFree ==
  ASSUME TypeOK, NEW i \in Instance, CancelTask(i), lease = Free
  PROVE  lease' = Free
<1>1. Abandoned(<<i, "run">>) = Free
  BY FreeStaysFree DEF Holder
<1>2. CASE task[i] \in {"none", "created", "waiting", "leaving"}
  BY <1>1, <1>2 DEF CancelTask, CancelRunner
<1>3. CASE task[i] \in {"stopping", "cancelled", "marking"}
  BY <1>1, <1>3 DEF CancelTask, CancelRunner
<1>4. CASE task[i] \in {"deciding", "recording", "erring"}
  BY <1>1, <1>4 DEF CancelTask, CancelRunner
<1> QED
  BY <1>2, <1>3, <1>4 DEF TypeOK, TaskPC

\* Stops, shutdowns, crashes and upkeep.
LEMMA ShutdownKeepsAlone ==
  ASSUME ~Cleaning, TypeOK, OpensAlone,
         \/ \E i \in Instance :
              \/ StopBegins(i) \/ StopStep(i) \/ StopAllBegins(i) \/ DrainStep(i)
              \/ Crash(i) \/ Finalize(i)
         \/ Cleanup \/ Expire
  PROVE  OpensAlone'
<1> USE DEF TypeOK, redis
<1>1. ASSUME NEW i \in Instance, StopBegins(i) \/ Publish(i) \/ MarkStopping(i) \/ Finalize(i)
      PROVE  OpensAlone'
  <2>1. /\ call' = call /\ listed' = listed /\ lease' = lease
        /\ status' = "active" => status = "active"
    BY <1>1 DEF StopBegins, Publish, MarkStopping, HSet, Finalize
  <2> QED
    BY <2>1, KeepsAlone
<1>2. ASSUME NEW i \in Instance, StopCancels(i) \/ StopAllCancels(i)
      PROVE  OpensAlone'
  <2>1. call' = call /\ listed' = listed /\ status' = status
    BY <1>2 DEF StopCancels, StopAllCancels
  <2>2. lease = Free => lease' = Free
    BY <1>2, CancelTaskKeepsFree DEF StopCancels, StopAllCancels
  <2> QED
    BY <2>1, <2>2, KeepsAlone
<1>3. ASSUME NEW i \in Instance, StopAllBegins(i) PROVE OpensAlone'
  <2> DEFINE c == <<i, "resume">>
  <2>1. c \in Caller /\ c \in Holder
    BY DEF Caller, Holder
  <2>2. listed' = listed /\ status' = status
    BY <1>3 DEF StopAllBegins
  <2>3. CASE call[c] = "idle"
    <3>1. call' = call /\ lease' = lease
      BY <1>3, <2>1, <2>3 DEF StopAllBegins, Step
    <3> QED
      BY <2>2, <3>1, KeepsAlone
  <2>4. CASE call[c] # "idle"
    <3>1. \E pc \in CallPC \ {"acquire", "undo"} : Step(c, pc)
      BY <1>3 DEF StopAllBegins, CallPC
    <3> QED
      BY <2>1, <2>2, <2>4, <3>1, RequestKeepsAlone
  <2> QED
    BY <2>3, <2>4
<1>4. ASSUME NEW i \in Instance, Exit(i) PROVE OpensAlone'
  BY <1>4, KeepsAlone DEF Exit
<1>5. ASSUME NEW i \in Instance, Crash(i) PROVE OpensAlone'
  BY <1>5, KeepsAlone DEF Crash
<1>6. CASE Expire
  BY <1>6, KeepsAlone DEF Expire
<1> QED
  BY <1>1, <1>2, <1>3, <1>4, <1>5, <1>6 DEF StopStep, DrainStep, Cleanup

\* OpensAlone is inductive where nothing is cleaned up and no start is slow.
LEMMA AloneInductive ==
  ASSUME ~Cleaning, ~SlowActivation, TypeOK, OpensAlone, [Next]_vars
  PROVE  OpensAlone'
<1>1. CASE Next
  BY <1>1, CallsKeepAlone, AdoptionKeepsAlone, RunsKeepAlone, ShutdownKeepsAlone DEF Next
<1>2. CASE UNCHANGED vars
  BY <1>2 DEF vars, redis, OpensAlone, Opening
<1> QED
  BY <1>1, <1>2

\* There a stop request is never taken back.
LEMMA RequestStays ==
  ASSUME ~Cleaning, OpensAlone, [Next]_vars, stopKey
  PROVE  stopKey'
<1> USE DEF redis
<1>1. ASSUME NEW c \in Caller, CallStep(c) \/ CallFails(c) PROVE stopKey'
  BY <1>1 DEF CallStep, CallFails, Acquire, Enter, Verify, Activate, Confirm, GiveUp
<1>2. ASSUME NEW i \in Instance, UndoCreate(i) PROVE FALSE
  BY <1>2 DEF UndoCreate, OpensAlone
<1>3. ASSUME NEW i \in Instance,
             \/ Create(i) \/ Reconcile(i) \/ ResumeStep(i)
             \/ WorkerStep(i) \/ TaskStep(i) \/ Fault(i)
             \/ StopBegins(i) \/ StopStep(i)
             \/ StopAllBegins(i) \/ DrainStep(i) \/ Crash(i)
             \/ Finalize(i)
      PROVE  stopKey'
  BY <1>3 DEF Create, Reconcile, ResumeStep, Reread, StopCheck,
       WorkerStep, Build, FirstRefresh, ReportFatal, Saved, Release,
       TaskStep, FirstStep, WatcherFires, RunnerDone, Decide, MarkStopped, MarkError,
       Leave, Fault, LoseLock, FatalError, WatcherFails, MarkFails, StopBegins,
       StopStep, Publish, MarkStopping, StopCancels, StopAllBegins, DrainStep,
       StopAllCancels, Exit, Crash, Finalize
<1>4. CASE Cleanup \/ Expire \/ UNCHANGED vars
  BY <1>4 DEF Cleanup, Expire, vars
<1> QED
  BY <1>1, <1>2, <1>3, <1>4 DEF Next

\* Where DeadStreamCleanup does not run and no start_stream outlasts the 60 s
\* after which its stream counts as abandoned, the stream becomes stopped only
\* while a stop request stands, whatever stops, drains, crashes and faults of
\* however many instances cross each other.
THEOREM StopsAreRequested ==
  ASSUME ~Cleaning, ~SlowActivation
  PROVE  Spec => StoppedOnlyOnRequest
<1>1. Init => StopInv /\ OpensAlone
  BY DEF Init, StopInv, OpensAlone, Opening, Caller
<1>2. TypeOK /\ StopInv /\ OpensAlone /\ [Next]_vars => StopInv' /\ OpensAlone'
  BY StopInvInductive, AloneInductive, RequestStays
<1>3. TypeOK /\ StopInv /\ [Next]_vars =>
        [status' = "stopped" /\ status # "stopped" => stopKey]_vars
  BY StoppedHasRequest
<1> QED
  BY <1>1, <1>2, <1>3, ManagerTypeCorrect, PTL DEF Spec, StoppedOnlyOnRequest
=============================================================================
