--------------------------- MODULE JobEngine_proofs ---------------------------
(* Theorems about JobEngine for every value of its constants.              *)
EXTENDS JobEngine, FiniteSetTheorems, TLAPS

\* A coroutine that is dispatching has something left to dispatch; without it
\* the countdown of Dispatch could leave the naturals.
TypeInv == TypeOK /\ \A c \in Co : co[c].pc = "spawn" => co[c].need > 0

LEMMA MinusType == \A a, b \in Nat : Minus(a, b) \in Nat
  BY DEF Minus

\* Every set of tasks that is counted is finite.
LEMMA CountType == \A S \in SUBSET Task : Cardinality(S) \in Nat
  BY EngineAssumption, FS_Subset, FS_CardinalityType DEF EngineAssumption

LEMMA IdleType == Idle \in CoState
  BY EngineAssumption DEF EngineAssumption, Idle, CoState, JobRow

LEMMA RecType == Rec \in Co
  BY DEF Co

LEMMA InitType == Init => TypeInv
<1> SUFFICES ASSUME Init PROVE TypeInv
  OBVIOUS
<1> USE EngineAssumption DEF EngineAssumption, Init
<1>1. /\ phase \in {"down", "boot", "up", "stopping"}
      /\ restarts \in 0..MaxRestart
  OBVIOUS
<1>2. job \in JobRow
  OBVIOUS
<1>3. row \in [Task -> RowStatus] /\ loop \in [Task -> Stage]
  BY DEF RowStatus, Stage
<1>4. co \in [Co -> CoState]
  BY IdleType
<1>5. \A c \in Co : co[c].pc # "spawn"
  BY DEF Idle
<1>6. QED
  BY <1>1, <1>2, <1>3, <1>4, <1>5 DEF TypeInv, TypeOK

LEMMA TaskStepType ==
  ASSUME TypeInv, NEW t \in Task, TaskStep(t)
  PROVE  TypeInv'
<1> USE DEF TypeInv, TypeOK, RowStatus, Stage, Pending, Terminal, Write, Forget
<1>1. CASE Park(t)
  BY <1>1 DEF Park
<1>2. CASE Claim(t)
  BY <1>2 DEF Claim
<1>3. CASE EnvUp(t)
  BY <1>3 DEF EnvUp
<1>4. CASE EnvFails(t)
  BY <1>4 DEF EnvFails
<1>5. CASE Enter(t)
  BY <1>5 DEF Enter
<1>6. CASE Finish(t)
  BY <1>6 DEF Finish
<1>7. CASE \E verdict \in Terminal : Conclude(t, verdict)
  BY <1>7 DEF Conclude
<1>8. QED
  BY <1>1, <1>2, <1>3, <1>4, <1>5, <1>6, <1>7 DEF TaskStep

\* What a coroutine does changes its own locals only.
LEMMA ReturnType ==
  ASSUME TypeInv, NEW c \in Co, Return(c)
  PROVE  co' \in [Co -> CoState] /\ \A d \in Co : co'[d].pc = "spawn" => co'[d].need > 0
  BY IdleType DEF TypeInv, TypeOK, Return, Idle

LEMMA AwaitType ==
  ASSUME TypeInv, NEW c \in Co, NEW pc, Await(c, pc),
         pc \in {"precheck", "count", "final", "cancel", "drain", "drop", "running"}
  PROVE  co' \in [Co -> CoState] /\ \A d \in Co : co'[d].pc = "spawn" => co'[d].need > 0
  BY DEF TypeInv, TypeOK, Await, CoState

LEMMA ToSaveType ==
  ASSUME TypeInv, NEW c \in Co, NEW j \in JobRow, NEW stop \in BOOLEAN, ToSave(c, j, stop)
  PROVE  co' \in [Co -> CoState] /\ \A d \in Co : co'[d].pc = "spawn" => co'[d].need > 0
<1> DEFINE saving == [co[c] EXCEPT !.pc = "save", !.job = j, !.stop = stop]
<1>1. co \in [Co -> CoState] /\ \A d \in Co : co[d].pc = "spawn" => co[d].need > 0
  BY DEF TypeInv, TypeOK
<1>2. co' = [co EXCEPT ![c] = saving]
  BY <1>1 DEF ToSave
<1>3. saving \in CoState /\ saving.pc = "save"
  BY <1>1 DEF CoState
<1>4. QED
  BY <1>1, <1>2, <1>3

LEMMA ToSpawnType ==
  ASSUME TypeInv, NEW c \in Co, NEW n \in Nat, ToSpawn(c, n)
  PROVE  co' \in [Co -> CoState] /\ \A d \in Co : co'[d].pc = "spawn" => co'[d].need > 0
<1>1. CASE n = 0
  BY <1>1, ReturnType DEF ToSpawn
<1>2. CASE n # 0
  BY <1>2 DEF TypeInv, TypeOK, ToSpawn, CoState
<1>3. QED
  BY <1>1, <1>2

\* The locals a coroutine has are typed.
LEMMA LocalsType ==
  ASSUME TypeInv, NEW c \in Co
  PROVE  /\ co[c] \in CoState
         /\ co[c].job \in JobRow /\ co[c].job.target \in Nat
         /\ co[c].need \in Nat /\ co[c].list \subseteq Task
  BY DEF TypeInv, TypeOK, CoState, JobRow

LEMMA StateType ==
  ASSUME NEW j \in JobRow, NEW s \in {"active", "paused", "disabled", "deleted"}
  PROVE  [j EXCEPT !.state = s] \in JobRow
  BY DEF JobRow, JobStates

\* A step that leaves the rest of the state alone keeps its type.
LEMMA LocalType ==
  ASSUME TypeInv, local, co' \in [Co -> CoState],
         \A d \in Co : co'[d].pc = "spawn" => co'[d].need > 0
  PROVE  TypeInv'
  BY DEF TypeInv, TypeOK, local

LEMMA StopTasksType ==
  ASSUME TypeInv, StopTasks
  PROVE  scheduled' \in BOOLEAN /\ stopFlag' \in BOOLEAN /\ told' \in SUBSET Task
  BY DEF TypeInv, TypeOK, StopTasks

LEMMA LiveType == Live \subseteq Task
  BY DEF Live

\* A call or the reconcile goes on to cancel the tasks without a loop.
LEMMA CancelType ==
  ASSUME TypeInv, NEW c \in Co, co' = [co EXCEPT ![c].pc = "cancel", ![c].list = Live]
  PROVE  co' \in [Co -> CoState] /\ \A d \in Co : co'[d].pc = "spawn" => co'[d].need > 0
<1> DEFINE cancelling == [co[c] EXCEPT !.pc = "cancel", !.list = Live]
<1>1. co \in [Co -> CoState] /\ \A d \in Co : co[d].pc = "spawn" => co[d].need > 0
  BY DEF TypeInv, TypeOK
<1>2. co' = [co EXCEPT ![c] = cancelling]
  BY <1>1
<1>3. cancelling \in CoState /\ cancelling.pc = "cancel"
  BY <1>1, LiveType DEF CoState
<1>4. QED
  BY <1>1, <1>2, <1>3

LEMMA PrecheckType ==
  ASSUME TypeInv, NEW c \in Co, NEW ready \in BOOLEAN, Precheck(c, ready, FALSE)
  PROVE  co' \in [Co -> CoState] /\ \A d \in Co : co'[d].pc = "spawn" => co'[d].need > 0
<1>1. CASE Return(c)
  BY <1>1, ReturnType
<1>2. CASE ToSave(c, [co[c].job EXCEPT !.state = "paused"], TRUE)
  BY <1>2, ToSaveType, LocalsType, StateType
<1>3. QED
  BY <1>1, <1>2 DEF Precheck

\* The steps that the service calls and the controller share.
LEMMA SharedStepType ==
  ASSUME TypeInv, NEW c \in Co,
         \/ SaveJob(c) \/ CancelPending(c) \/ DispatchFails(c) \/ DispatchCapped(c)
         \/ \E t \in Task : Dispatch(c, t)
  PROVE  TypeInv'
<1> USE DEF rowsKept
<1> DEFINE LocalsOK == /\ co' \in [Co -> CoState]
                       /\ \A d \in Co : co'[d].pc = "spawn" => co'[d].need > 0
<1>1. CASE SaveJob(c)
  <2>1. job' \in JobRow
    BY <1>1, LocalsType DEF SaveJob
  <2>2. CASE co[c].stop
    <3>1. StopTasks /\ co' = [co EXCEPT ![c].pc = "cancel", ![c].list = Live]
      BY <1>1, <2>2 DEF SaveJob
    <3>2. LocalsOK
      BY <3>1, CancelType
    <3>3. QED
      BY <1>1, <2>1, <2>2, <3>1, <3>2, StopTasksType DEF SaveJob, TypeInv, TypeOK
  <2>3. CASE ~co[c].stop
    BY <1>1, <2>1, <2>3, ReturnType DEF SaveJob, TypeInv, TypeOK
  <2>4. QED
    BY <2>2, <2>3
<1>2. CASE CancelPending(c)
  <2>1. LocalsOK
    BY <1>2, ReturnType, AwaitType DEF CancelPending
  <2>2. row' \in [Task -> RowStatus]
    BY <1>2 DEF CancelPending, Set, TypeInv, TypeOK, RowStatus, Terminal
  <2>3. QED
    BY <1>2, <2>1, <2>2 DEF CancelPending, Serving, TypeInv, TypeOK
<1>3. CASE DispatchFails(c) \/ DispatchCapped(c)
  BY <1>3, ReturnType, LocalType DEF DispatchFails, DispatchCapped
<1>4. CASE \E t \in Task : Dispatch(c, t)
  <2>1. PICK t \in Task : Dispatch(c, t)
    BY <1>4
  <2>2. LocalsOK
    <3>1. CASE co[c].need = 1
      BY <2>1, <3>1, ReturnType DEF Dispatch
    <3>2. CASE co[c].need # 1
      BY <2>1, <3>2 DEF Dispatch, TypeInv, TypeOK, CoState
    <3>3. QED
      BY <3>1, <3>2
  <2>3. row' \in [Task -> RowStatus] /\ loop' \in [Task -> Stage]
    BY <2>1 DEF Dispatch, TypeInv, TypeOK, RowStatus, Pending, Stage, Terminal, FirstStage
  <2>4. QED
    BY <2>1, <2>2, <2>3 DEF Dispatch, TypeInv, TypeOK
<1>5. QED
  BY <1>1, <1>2, <1>3, <1>4

LEMMA CallStepType ==
  ASSUME TypeInv, NEW c \in Call, CallStep(c)
  PROVE  TypeInv'
<1> DEFINE LocalsOK == /\ co' \in [Co -> CoState]
                       /\ \A d \in Co : co'[d].pc = "spawn" => co'[d].need > 0
<1>0. c \in Co /\ job \in JobRow
  BY DEF Co, TypeInv, TypeOK
<1>a. \A s \in {"active", "paused", "disabled", "deleted"} :
        [job EXCEPT !.state = s] \in JobRow /\ [co[c].job EXCEPT !.state = s] \in JobRow
  BY <1>0, StateType, LocalsType
<1>1. CASE \E op \in Ops : Invoke(c, op)
  <2>1. LocalsOK
    BY <1>0, <1>1, EngineAssumption DEF EngineAssumption, Invoke, TypeInv, TypeOK, CoState
  <2>2. QED
    BY <1>1, <2>1, LocalType DEF Invoke
<1>2. CASE CallFindsNothing(c) \/ DeleteDrained(c) \/ BatchCounted(c) \/ StopRunOnce(c)
  <2>1. LocalsOK
    BY <1>0, <1>2, ReturnType, AwaitType
       DEF CallFindsNothing, DeleteDrained, BatchCounted, StopRunOnce
  <2>2. QED
    BY <1>2, <2>1, LocalType DEF CallFindsNothing, DeleteDrained, BatchCounted, StopRunOnce
<1>3. CASE StartJob(c) \/ RunOnce(c)
  <2>1. LocalsOK
    BY <1>0, <1>3, ReturnType DEF StartJob, RunOnce, TypeInv, TypeOK, CoState, AllOps
  <2>2. QED
    BY <1>3, <2>1, LocalType DEF StartJob, RunOnce
<1>4. CASE PauseJob(c) \/ EnableJob(c)
  <2>1. LocalsOK
    BY <1>0, <1>a, <1>4, ReturnType, ToSaveType DEF PauseJob, EnableJob
  <2>2. QED
    BY <1>4, <2>1, LocalType DEF PauseJob, EnableJob
<1>5. CASE DisableJob(c)
  <2>1. CASE ToSave(c, [job EXCEPT !.state = "disabled"], TRUE)
    BY <1>0, <1>a, <1>5, <2>1, ToSaveType, LocalType DEF DisableJob
  <2>2. CASE co' = [co EXCEPT ![c].pc = "count", ![c].job = job]
    <3>1. [co[c] EXCEPT !.pc = "count", !.job = job] \in CoState
      BY <1>0, LocalsType DEF CoState
    <3>2. co' = [co EXCEPT ![c] = [co[c] EXCEPT !.pc = "count", !.job = job]]
      BY <1>0, <2>2 DEF TypeInv, TypeOK
    <3>3. co'[c].pc = "count"
      BY <1>0, <3>2, LocalsType DEF TypeInv, TypeOK, CoState
    <3>4. LocalsOK
      BY <1>0, <3>1, <3>2, <3>3 DEF TypeInv, TypeOK
    <3>5. QED
      BY <1>5, <3>4, LocalType DEF DisableJob
  <2>3. QED
    BY <1>5, <2>1, <2>2 DEF DisableJob
<1>6. CASE DisableCounted(c) \/ StopRunOnceCounted(c) \/ DeleteJob(c)
  <2>1. LocalsOK
    <3>1. CASE co' = [co EXCEPT ![c].pc = "cancel", ![c].list = Live]
      BY <1>0, <3>1, CancelType
    <3>2. CASE \/ Return(c)
               \/ ToSave(c, [co[c].job EXCEPT !.state = "disabled"], Active # {})
               \/ ToSave(c, [job EXCEPT !.state = "paused"], TRUE)
      BY <1>0, <1>a, <3>2, ReturnType, ToSaveType
    <3>3. QED
      BY <1>6, <3>1, <3>2 DEF DisableCounted, StopRunOnceCounted, DeleteJob
  <2>2. scheduled' \in BOOLEAN /\ stopFlag' \in BOOLEAN /\ told' \in SUBSET Task
    BY <1>6, StopTasksType
       DEF DisableCounted, StopRunOnceCounted, DeleteJob, TypeInv, TypeOK
  <2>3. QED
    BY <1>6, <2>1, <2>2
       DEF DisableCounted, StopRunOnceCounted, DeleteJob, TypeInv, TypeOK, rowsKept
<1>7. CASE DropJob(c)
  <2>1. LocalsOK
    BY <1>0, <1>7, ReturnType DEF DropJob
  <2>2. row' \in [Task -> RowStatus]
    BY <1>7 DEF DropJob, RowStatus
  <2>3. QED
    BY <1>a, <1>7, <2>1, <2>2 DEF DropJob, TypeInv, TypeOK
<1>8. CASE \E kind \in Kinds, target \in Targets : UpdateJob(c, kind, target)
  <2>1. PICK kind \in Kinds, target \in Targets : UpdateJob(c, kind, target)
    BY <1>8
  <2>2. \A s \in JobStates : [state |-> s, kind |-> kind, target |-> target] \in JobRow
    BY EngineAssumption DEF EngineAssumption, JobRow
  <2>3. LocalsOK
    BY <1>0, <2>1, <2>2, ToSaveType DEF UpdateJob, JobRow, JobStates
  <2>4. QED
    BY <2>1, <2>3, LocalType DEF UpdateJob
<1>9. CASE \E ready \in BOOLEAN :
             StartChecked(c, ready) \/ RunOnceChecked(c, ready) \/ BatchChecked(c, ready)
  <2>1. PICK ready \in BOOLEAN :
             StartChecked(c, ready) \/ RunOnceChecked(c, ready) \/ BatchChecked(c, ready)
    BY <1>9
  <2>2. \/ Precheck(c, ready, FALSE)
        \/ ToSave(c, [co[c].job EXCEPT !.state = "active"], FALSE)
        \/ Await(c, "count") \/ ToSpawn(c, co[c].job.target)
    BY <2>1 DEF StartChecked, RunOnceChecked, BatchChecked, Precheck
  <2>3. LocalsOK
    BY <1>0, <1>a, <2>2, PrecheckType, ToSaveType, AwaitType, ToSpawnType, LocalsType
  <2>4. QED
    BY <2>1, <2>3, LocalType DEF StartChecked, RunOnceChecked, BatchChecked
<1>10. QED
  BY <1>1, <1>2, <1>3, <1>4, <1>5, <1>6, <1>7, <1>8, <1>9 DEF CallStep

LEMMA RecStepType ==
  ASSUME TypeInv, RecStep
  PROVE  TypeInv'
<1> DEFINE LocalsOK == /\ co' \in [Co -> CoState]
                       /\ \A d \in Co : co'[d].pc = "spawn" => co'[d].need > 0
<1>0. Rec \in Co /\ co[Rec] \in CoState
  BY RecType, LocalsType
<1>1. CASE ReconcileRead
  <2>1. LocalsOK
    BY <1>0, <1>1, ReturnType DEF ReconcileRead, TypeInv, TypeOK, CoState
  <2>2. QED
    BY <1>1, <2>1 DEF ReconcileRead, TypeInv, TypeOK
<1>2. CASE FailExpired
  <2>1. LocalsOK
    BY <1>0, <1>2 DEF FailExpired, TypeInv, TypeOK, CoState
  <2>2. row' \in [Task -> RowStatus]
    BY <1>2 DEF FailExpired, Set, TypeInv, TypeOK, RowStatus, Terminal
  <2>3. QED
    BY <1>2, <2>1, <2>2 DEF FailExpired, Serving, TypeInv, TypeOK
<1>3. CASE RunningCounted
  <2> DEFINE seats == Minus(co[Rec].job.target, Cardinality({t \in Task : row[t] = "running"}))
  <2>1. seats \in Nat
    BY <1>0, LocalsType, MinusType, CountType
  <2>2. co' = [co EXCEPT ![Rec].pc = IF seats = 0 THEN "count" ELSE "waiters", ![Rec].need = seats]
    BY <1>3 DEF RunningCounted
  <2>3. LocalsOK
    BY <1>0, <2>1, <2>2 DEF TypeInv, TypeOK, CoState
  <2>4. QED
    BY <1>3, <2>3, LocalType DEF RunningCounted
<1>4. CASE ActiveCounted
  <2> DEFINE missing == Minus(co[Rec].job.target, Cardinality(Active))
  <2>1. missing \in Nat
    BY <1>0, LocalsType, MinusType, CountType DEF Active
  <2>2. CASE missing = 0
    BY <1>0, <1>4, <2>2, ReturnType, LocalType DEF ActiveCounted
  <2>3. CASE missing # 0
    <3>1. co' = [co EXCEPT ![Rec].pc = "final", ![Rec].need = missing]
      BY <1>4, <2>3 DEF ActiveCounted
    <3>2. LocalsOK
      BY <1>0, <2>1, <3>1 DEF TypeInv, TypeOK, CoState
    <3>3. QED
      BY <1>4, <3>2, LocalType DEF ActiveCounted
  <2>4. QED
    BY <2>2, <2>3
<1>5. CASE \E tasks \in SUBSET Task : ExpiredRead(tasks) \/ WaitersRead(tasks)
  <2>1. PICK tasks \in SUBSET Task : ExpiredRead(tasks) \/ WaitersRead(tasks)
    BY <1>5
  <2>2. LocalsOK
    BY <1>0, <2>1 DEF ExpiredRead, WaitersRead, TypeInv, TypeOK, CoState
  <2>3. QED
    BY <2>1, <2>2, LocalType DEF ExpiredRead, WaitersRead
<1>6. CASE \E tasks \in SUBSET Task : ResumeWaiters(tasks)
  <2>1. PICK tasks \in SUBSET Task : ResumeWaiters(tasks)
    BY <1>6
  <2>2. LocalsOK
    BY <1>0, <2>1 DEF ResumeWaiters, TypeInv, TypeOK, CoState
  <2>3. loop' \in [Task -> Stage]
    BY <2>1 DEF ResumeWaiters, TypeInv, TypeOK, Stage, Terminal, FirstStage
  <2>4. QED
    BY <2>1, <2>2, <2>3 DEF ResumeWaiters, TypeInv, TypeOK
<1>7. CASE \E ready \in BOOLEAN : ScaleUpChecked(ready)
  <2>1. PICK ready \in BOOLEAN : ScaleUpChecked(ready)
    BY <1>7
  <2>2. Precheck(Rec, ready, FALSE) \/ ToSpawn(Rec, co[Rec].need)
    BY <2>1 DEF ScaleUpChecked, Precheck
  <2>3. LocalsOK
    BY <1>0, <2>2, PrecheckType, ToSpawnType, LocalsType
  <2>4. QED
    BY <2>1, <2>3, LocalType DEF ScaleUpChecked
<1>8. QED
  BY <1>1, <1>2, <1>3, <1>4, <1>5, <1>6, <1>7 DEF RecStep

\* Starting and ending coroutines and the process.
LEMMA ProcessStepType ==
  ASSUME TypeInv,
         \/ Bootstrap \/ BootDone \/ ReconcileJob \/ Tick
         \/ \E ready \in BOOLEAN : Bootstrapped(ready)
         \/ \E c \in Call : FireCron(c) \/ CronFired(c)
         \/ Recover \/ TickCancelled \/ Shutdown \/ ProcessEnds
  PROVE  TypeInv'
<1> DEFINE LocalsOK == /\ co' \in [Co -> CoState]
                       /\ \A d \in Co : co'[d].pc = "spawn" => co'[d].need > 0
<1>0. Rec \in Co /\ co[Rec] \in CoState /\ Call \subseteq Co
  BY RecType, LocalsType DEF Co
<1>1. CASE Bootstrap \/ Tick
  <2>1. LocalsOK
    BY <1>0, <1>1, ReturnType DEF Bootstrap, Tick, TypeInv, TypeOK, CoState
  <2>2. QED
    BY <1>1, <2>1, LocalType DEF Bootstrap, Tick
<1>2. CASE BootDone \/ Shutdown
  BY <1>2 DEF BootDone, Shutdown, TypeInv, TypeOK
<1>3. CASE ReconcileJob
  <2>1. LocalsOK
    BY <1>0, <1>3 DEF ReconcileJob, TypeInv, TypeOK, CoState
  <2>2. QED
    BY <1>3, <2>1 DEF ReconcileJob, TypeInv, TypeOK
<1>4. CASE \E ready \in BOOLEAN : Bootstrapped(ready)
  <2>1. PICK ready \in BOOLEAN : Bootstrapped(ready)
    BY <1>4
  <2>2. Precheck(Rec, ready, FALSE) \/ co' = [co EXCEPT ![Rec].op = "event", ![Rec].pc = "read"]
    BY <2>1 DEF Bootstrapped, Precheck
  <2>3. CASE Precheck(Rec, ready, FALSE)
    BY <1>0, <2>1, <2>3, PrecheckType, LocalType DEF Bootstrapped
  <2>4. CASE co' = [co EXCEPT ![Rec].op = "event", ![Rec].pc = "read"]
    <3>1. LocalsOK
      BY <1>0, <2>4 DEF TypeInv, TypeOK, CoState
    <3>2. QED
      BY <2>1, <3>1, LocalType DEF Bootstrapped
  <2>5. QED
    BY <2>2, <2>3, <2>4
<1>5. CASE \E c \in Call : FireCron(c) \/ CronFired(c)
  <2>1. PICK c \in Call : FireCron(c) \/ CronFired(c)
    BY <1>5
  <2>2. CASE FireCron(c)
    <3>1. LocalsOK
      BY <1>0, <2>2 DEF FireCron, TypeInv, TypeOK, CoState
    <3>2. QED
      BY <2>2, <3>1, LocalType DEF FireCron
  <2>3. CASE CronFired(c)
    <3>1. LocalsOK
      <4>1. CASE Return(c)
        BY <1>0, <4>1, ReturnType
      <4>2. CASE co' = [co EXCEPT ![c].pc = "count", ![c].job = job]
        BY <1>0, <4>2 DEF TypeInv, TypeOK, CoState
      <4>3. QED
        BY <2>3, <4>1, <4>2 DEF CronFired
    <3>2. QED
      BY <2>3, <3>1, LocalType DEF CronFired
  <2>4. QED
    BY <2>1, <2>2, <2>3
<1>6. CASE Recover
  <2>1. LocalsOK
    BY <1>0, <1>6 DEF Recover, TypeInv, TypeOK, CoState
  <2>2. row' \in [Task -> RowStatus]
    BY <1>6 DEF Recover, TypeInv, TypeOK, RowStatus, Terminal
  <2>3. QED
    BY <1>6, <2>1, <2>2 DEF Recover, TypeInv, TypeOK
<1>7. CASE TickCancelled
  <2>1. LocalsOK
    BY <1>0, <1>7, ReturnType DEF TickCancelled
  <2>2. job' \in JobRow
    BY <1>0, <1>7, LocalsType DEF TickCancelled, TypeInv, TypeOK
  <2>3. row' \in [Task -> RowStatus]
    BY <1>7 DEF TickCancelled, Set, TypeInv, TypeOK, RowStatus, Pending, Terminal
  <2>4. QED
    BY <1>7, <2>1, <2>2, <2>3 DEF TickCancelled, TypeInv, TypeOK
<1>8. CASE ProcessEnds
  <2>1. LocalsOK
    BY <1>8, IdleType DEF ProcessEnds, Idle
  <2>2. loop' \in [Task -> Stage]
    BY <1>8 DEF ProcessEnds, Stage
  <2>3. restarts' \in 0..MaxRestart
    BY <1>8, EngineAssumption DEF EngineAssumption, ProcessEnds, TypeInv, TypeOK
  <2>4. QED
    BY <1>8, <2>1, <2>2, <2>3 DEF ProcessEnds, TypeInv, TypeOK
<1>9. QED
  BY <1>1, <1>2, <1>3, <1>4, <1>5, <1>6, <1>7, <1>8

LEMMA StepType == TypeInv /\ [Next]_vars => TypeInv'
<1> SUFFICES ASSUME TypeInv, [Next]_vars PROVE TypeInv'
  OBVIOUS
<1>1. CASE SystemStep
  BY <1>1, TaskStepType, SharedStepType, RecStepType, ProcessStepType DEF SystemStep
<1>2. CASE \E c \in Call : CallStep(c) \/ FireCron(c) \/ CronFired(c)
  BY <1>2, CallStepType, ProcessStepType
<1>3. CASE Recover \/ TickCancelled \/ Shutdown \/ ProcessEnds
  BY <1>3, ProcessStepType
<1>4. CASE UNCHANGED vars
  BY <1>4 DEF TypeInv, TypeOK, vars
<1>5. QED
  BY <1>1, <1>2, <1>3, <1>4 DEF Next

\* Every variable keeps its type: in particular a coroutine never has a
\* negative number of tasks to dispatch, although the target it subtracts
\* from may have been lowered (Minus is the max(0, ...) of the controller).
THEOREM TypeCorrect == Spec => []TypeOK
<1>1. Init => TypeInv
  BY InitType
<1>2. TypeInv /\ [Next]_vars => TypeInv'
  BY StepType
<1>3. TypeInv => TypeOK
  BY DEF TypeInv
<1>4. QED
  BY <1>1, <1>2, <1>3, PTL DEF Spec

-----------------------------------------------------------------------------
(* Rows and loops.                                                          *)

\* When the process is down there is neither a loop nor a coroutine.
DownInv == phase = "down" => Live = {} /\ \A c \in Co : co[c].pc = "idle"

\* Only a task that was inserted has a loop.
InsertedInv == \A t \in Task : row[t] = "none" => loop[t] = "none"

\* The tasks that reconciling holds were inserted, and while those that waited
\* too long are being failed none of them gets a loop.
HeldInv ==
  /\ co[Rec].pc \in {"fail", "capacity"} => \A t \in co[Rec].list : row[t] # "none"
  /\ co[Rec].pc = "fail" => \A t \in co[Rec].list : loop[t] = "none"

\* Nothing is active without its job, and no call saves a deleted job as such.
DeletedInv ==
  /\ ~Exists => Active = {}
  /\ \A c \in Co : co[c].pc = "save" => co[c].job.state # "deleted"

RowInv == RunningIsRecorded /\ DownInv /\ InsertedInv /\ HeldInv /\ DeletedInv

LEMMA InitRows == Init => RowInv
  BY RecType
     DEF Init, RowInv, RunningIsRecorded, DownInv, InsertedInv, HeldInv,
         DeletedInv, Live, Active, Pending, Idle

LEMMA TaskStepRows ==
  ASSUME TypeInv, RowInv, NEW t \in Task, TaskStep(t)
  PROVE  RowInv'
<1>1. PICK stage \in Stage : loop' = [loop EXCEPT ![t] = stage]
  BY DEF TaskStep, Park, Claim, EnvUp, EnvFails, Enter, Conclude, Finish, Forget, Stage, Terminal,
         TypeInv, TypeOK
<1>2. loop[t] # "none" /\ row[t] # "none"
  BY DEF TaskStep, Park, Claim, EnvUp, EnvFails, Enter, Conclude, Finish, Terminal,
         RowInv, InsertedInv
<1>3. /\ \/ row' = row
         \/ Exists /\ \E s \in RowStatus \ {"none"} : row' = [row EXCEPT ![t] = s]
      /\ UNCHANGED <<phase, job, co>>
  BY DEF TaskStep, Park, Claim, EnvUp, EnvFails, Enter, Conclude, Finish, Write,
         RowStatus, Pending, Terminal
<1>4. phase # "down"
  BY <1>2 DEF RowInv, DownInv, Live
<1>5. RunningIsRecorded'
  BY DEF TaskStep, Park, Claim, EnvUp, EnvFails, Enter, Conclude, Finish, Write, Forget,
         Exists, Terminal, RowInv, RunningIsRecorded, TypeInv, TypeOK
<1>6. InsertedInv'
  BY <1>1, <1>2, <1>3 DEF RowInv, InsertedInv, TypeInv, TypeOK
<1>7. HeldInv'
  <2>1. co'[Rec] = co[Rec] /\ co[Rec].list \subseteq Task
    BY <1>3, RecType, LocalsType
  <2>2. \A u \in Task : row[u] # "none" => row'[u] # "none"
    BY <1>3 DEF TypeInv, TypeOK
  <2>3. \A u \in Task : loop[u] = "none" => loop'[u] = "none"
    BY <1>1, <1>2 DEF TypeInv, TypeOK
  <2>4. QED
    BY <2>1, <2>2, <2>3 DEF RowInv, HeldInv
<1>8. DeletedInv'
  BY <1>3 DEF RowInv, DeletedInv, Exists, Active
<1>9. QED
  BY <1>3, <1>4, <1>5, <1>6, <1>7, <1>8 DEF RowInv, DownInv

\* A step that changes neither rows nor loops.
LEMMA QuietRows ==
  ASSUME TypeInv, RowInv, UNCHANGED <<row, loop>>,
         phase' = "down" => phase = "down" /\ UNCHANGED co,
         job' = job \/ job'.state # "deleted",
         \A c \in Co : co'[c].pc = "save" => co'[c].job.state # "deleted",
         \/ co'[Rec] = co[Rec]
         \/ co'[Rec].pc \notin {"fail", "capacity"}
         \/ HeldInv'
  PROVE  RowInv'
<1>1. RunningIsRecorded' /\ InsertedInv'
  BY DEF RowInv, RunningIsRecorded, InsertedInv
<1>2. DownInv'
  BY DEF RowInv, DownInv, Live
<1>3. HeldInv'
  BY DEF RowInv, HeldInv
<1>4. DeletedInv'
  BY DEF RowInv, DeletedInv, Exists, Active
<1>5. QED
  BY <1>1, <1>2, <1>3, <1>4 DEF RowInv

\* What every step of a coroutine that changes only its locals preserves.
LEMMA CallRows ==
  ASSUME TypeInv, RowInv, NEW c \in Call, CallStep(c) \/ FireCron(c) \/ CronFired(c), ~DropJob(c)
  PROVE  RowInv'
<1> USE DEF rowsKept, local
<1>0. co \in [Co -> CoState] /\ co[c] \in CoState /\ job \in JobRow
  BY DEF TypeInv, TypeOK, Co
<1>1. c \in Co /\ c # Rec /\ phase # "down"
  BY EngineAssumption
     DEF EngineAssumption, Co, RowInv, DownInv, CallStep, Invoke, At, CallFindsNothing, StartJob,
         PauseJob, DisableJob, DisableCounted, EnableJob, UpdateJob, RunOnce, BatchCounted,
         StopRunOnce, StopRunOnceCounted, DeleteJob, DeleteDrained, DropJob, StartChecked,
         RunOnceChecked, BatchChecked, FireCron, CronFired
<1>2. UNCHANGED <<phase, row, loop, job>>
  BY DEF CallStep, Invoke, CallFindsNothing, StartJob, PauseJob, DisableJob, DisableCounted,
         EnableJob, UpdateJob, RunOnce, BatchCounted, StopRunOnce, StopRunOnceCounted, DeleteJob,
         DeleteDrained, StartChecked, RunOnceChecked, BatchChecked, FireCron, CronFired
<1>3. \A d \in Co \ {c} : co'[d] = co[d]
  <2> USE <1>0, <1>1 DEF Return, Await, ToSave, ToSpawn, Precheck
  <2>1. CASE \/ \E op \in Ops : Invoke(c, op)
             \/ CallFindsNothing(c) \/ StartJob(c) \/ PauseJob(c) \/ DisableJob(c)
             \/ FireCron(c) \/ CronFired(c)
    BY <2>1 DEF Invoke, CallFindsNothing, StartJob, PauseJob, DisableJob, FireCron, CronFired
  <2>2. CASE DisableCounted(c) \/ EnableJob(c) \/ RunOnce(c) \/ BatchCounted(c)
    BY <2>2 DEF DisableCounted, EnableJob, RunOnce, BatchCounted
  <2>3. CASE StopRunOnce(c) \/ StopRunOnceCounted(c) \/ DeleteJob(c) \/ DeleteDrained(c)
    BY <2>3 DEF StopRunOnce, StopRunOnceCounted, DeleteJob, DeleteDrained
  <2>4. CASE \E kind \in Kinds, target \in Targets : UpdateJob(c, kind, target)
    BY <2>4 DEF UpdateJob
  <2>5. CASE \E ready \in BOOLEAN :
               StartChecked(c, ready) \/ RunOnceChecked(c, ready) \/ BatchChecked(c, ready)
    BY <2>5 DEF StartChecked, RunOnceChecked, BatchChecked
  <2>6. QED
    BY <2>1, <2>2, <2>3, <2>4, <2>5 DEF CallStep
<1>4. co'[c].pc = "save" => co'[c].job.state # "deleted"
  <2> DEFINE saves == \E s \in JobStates \ {"deleted"}, j \in JobRow, stop \in BOOLEAN :
                        ToSave(c, [j EXCEPT !.state = s], stop)
  <2> DEFINE goesOn == \E pc \in {"idle", "read", "precheck", "count", "final", "spawn",
                                  "cancel", "drain", "drop"} : co'[c].pc = pc
  <2> USE <1>0, <1>1
  <2>1. saves => co'[c].job.state # "deleted"
    BY DEF ToSave, CoState, JobRow
  <2>2. Return(c) \/ (\E n \in Nat : ToSpawn(c, n)) => goesOn
    BY DEF Return, ToSpawn, Idle, CoState
  <2>3. \A pc \in {"precheck", "count", "final", "drain", "drop"} : Await(c, pc) => goesOn
    BY DEF Await, CoState
  <2>4. \A j \in JobRow, s \in {"active", "paused", "disabled"}, stop \in BOOLEAN :
          ToSave(c, [j EXCEPT !.state = s], stop) => saves
    BY DEF JobStates
  <2>5. co[c].job \in JobRow /\ co[c].job.target \in Nat
    BY LocalsType
  <2>6. CASE (\E op \in Ops : Invoke(c, op)) \/ CallFindsNothing(c) \/ FireCron(c) \/ CronFired(c)
    <3>1. goesOn
      <4>1. CASE \E op \in Ops : Invoke(c, op)
        BY <4>1 DEF Invoke, CoState
      <4>2. CASE CallFindsNothing(c) \/ FireCron(c) \/ CronFired(c)
        BY <2>2, <4>2 DEF CallFindsNothing, FireCron, CronFired, CoState
      <4>3. QED
        BY <2>6, <4>1, <4>2
    <3>2. QED
      BY <3>1
  <2>7. CASE StartJob(c) \/ RunOnce(c) \/ BatchCounted(c) \/ StopRunOnce(c) \/ DeleteDrained(c)
    <3>1. goesOn
      <4>1. CASE StartJob(c) \/ RunOnce(c)
        BY <2>2, <4>1 DEF StartJob, RunOnce, At, CoState
      <4>2. CASE BatchCounted(c) \/ StopRunOnce(c) \/ DeleteDrained(c)
        BY <2>2, <2>3, <4>2 DEF BatchCounted, StopRunOnce, DeleteDrained
      <4>3. QED
        BY <2>7, <4>1, <4>2
    <3>2. QED
      BY <3>1
  <2>8. CASE PauseJob(c) \/ EnableJob(c) \/ StopRunOnceCounted(c)
    <3>1. saves \/ goesOn
      BY <2>2, <2>4, <2>8 DEF PauseJob, EnableJob, StopRunOnceCounted, CoState
    <3>2. QED
      BY <2>1, <3>1
  <2>9. CASE DisableJob(c) \/ DisableCounted(c) \/ DeleteJob(c)
    <3>1. saves \/ goesOn
      BY <2>2, <2>4, <2>5, <2>9 DEF DisableJob, DisableCounted, DeleteJob, CoState
    <3>2. QED
      BY <2>1, <3>1
  <2>10. CASE \E kind \in Kinds, target \in Targets : UpdateJob(c, kind, target)
    BY <2>10 DEF UpdateJob, Exists, ToSave, CoState
  <2>11. CASE \E ready \in BOOLEAN :
                StartChecked(c, ready) \/ RunOnceChecked(c, ready) \/ BatchChecked(c, ready)
    <3>1. saves \/ goesOn
      BY <2>2, <2>3, <2>4, <2>5, <2>11 DEF StartChecked, RunOnceChecked, BatchChecked, Precheck
    <3>2. QED
      BY <2>1, <3>1
  <2>12. QED
    BY <2>6, <2>7, <2>8, <2>9, <2>10, <2>11 DEF CallStep
<1>5. QED
  BY <1>1, <1>2, <1>3, <1>4, RecType, QuietRows DEF RowInv, DeletedInv

LEMMA DropRows ==
  ASSUME TypeInv, RowInv, NEW c \in Call, DropJob(c)
  PROVE  RowInv'
<1> USE DEF DropJob, RowInv
<1>1. c \in Co /\ c # Rec /\ co' = [co EXCEPT ![c] = Idle]
  BY EngineAssumption DEF EngineAssumption, Co, Return
<1>2. /\ row' \in [Task -> {"none", "gone"}] /\ \A t \in Task : row'[t] = "none" <=> row[t] = "none"
      /\ UNCHANGED <<loop, phase>>
  OBVIOUS
<1>3. RunningIsRecorded' /\ InsertedInv'
  BY <1>2 DEF RunningIsRecorded, InsertedInv
<1>4. DownInv'
  BY <1>1 DEF DownInv
<1>5. HeldInv'
  BY <1>1, <1>2, RecType, LocalsType DEF HeldInv, TypeInv, TypeOK
<1>6. DeletedInv'
  BY <1>1, <1>2 DEF DeletedInv, Idle, Active, Pending, TypeInv, TypeOK
<1>7. QED
  BY <1>3, <1>4, <1>5, <1>6

LEMMA SharedStepRows ==
  ASSUME TypeInv, RowInv, NEW c \in Co,
         \/ SaveJob(c) \/ CancelPending(c) \/ DispatchFails(c) \/ DispatchCapped(c)
         \/ \E t \in Task : Dispatch(c, t)
  PROVE  RowInv'
<1>0. phase # "down"
  BY DEF SaveJob, CancelPending, DispatchFails, DispatchCapped, Dispatch, RowInv, DownInv
<1>1. CASE SaveJob(c)
  <2>1. UNCHANGED <<phase, row, loop>> /\ job' = co[c].job /\ job'.state # "deleted"
    BY <1>1 DEF SaveJob, rowsKept, RowInv, DeletedInv
  <2>2. \A d \in Co : co'[d] = co[d] \/ co'[d].pc \in {"cancel", "idle"}
    BY <1>1 DEF SaveJob, Return, Idle, TypeInv, TypeOK, CoState
  <2>3. QED
    BY <1>0, <2>1, <2>2, RecType, QuietRows DEF RowInv, DeletedInv
<1>2. CASE CancelPending(c)
  <2>0. UNCHANGED <<phase, job, loop>>
    BY <1>2 DEF CancelPending
  <2>1. \A t \in Task : row'[t] # row[t] => row[t] \in Pending /\ row'[t] = "cancelled"
    BY <1>2 DEF CancelPending, Set, Cancelled, Pending
  <2>2. \A d \in Co : co'[d] = co[d] \/ co'[d].pc \in {"drain", "idle"}
    BY <1>2 DEF CancelPending, Return, Await, Idle, TypeInv, TypeOK, CoState
  <2>3. RunningIsRecorded' /\ InsertedInv'
    BY <2>0, <2>1 DEF RowInv, RunningIsRecorded, InsertedInv, Pending
  <2>4. HeldInv'
    BY <2>0, <2>1, <2>2, RecType, LocalsType DEF RowInv, HeldInv
  <2>5. DeletedInv'
    BY <2>0, <2>1, <2>2 DEF RowInv, DeletedInv, Exists, Active, Pending
  <2>6. QED
    BY <1>0, <2>0, <2>1, <2>3, <2>4, <2>5 DEF RowInv, DownInv
<1>3. CASE DispatchFails(c) \/ DispatchCapped(c)
  BY <1>0, <1>3, RecType, QuietRows
     DEF DispatchFails, DispatchCapped, local, Return, Idle, TypeInv, TypeOK, RowInv, DeletedInv
<1>4. CASE \E t \in Task : Dispatch(c, t)
  <2>1. PICK t \in Task : Dispatch(c, t)
    BY <1>4
  <2>2. /\ UNCHANGED <<phase, job>> /\ Exists
        /\ row[t] = "none" /\ row' = [row EXCEPT ![t] = "pending"]
        /\ \E stage \in {"cancelled", "acquiring"} : loop' = [loop EXCEPT ![t] = stage]
    BY <2>1 DEF Dispatch, FirstStage
  <2>3. \A d \in Co : co'[d] = co[d] \/ co'[d].pc \in {"spawn", "idle"}
    BY <2>1 DEF Dispatch, Return, Idle, TypeInv, TypeOK, CoState
  <2>4. RunningIsRecorded' /\ InsertedInv'
    BY <2>2 DEF RowInv, RunningIsRecorded, InsertedInv, TypeInv, TypeOK
  <2>5. HeldInv'
    BY <2>2, <2>3, RecType, LocalsType DEF RowInv, HeldInv, TypeInv, TypeOK
  <2>6. DeletedInv'
    BY <2>2, <2>3 DEF RowInv, DeletedInv, Exists
  <2>7. QED
    BY <1>0, <2>2, <2>4, <2>5, <2>6 DEF RowInv, DownInv
<1>5. QED
  BY <1>1, <1>2, <1>3, <1>4

LEMMA RecStepRows ==
  ASSUME TypeInv, RowInv, RecStep
  PROVE  RowInv'
<1>0. Rec \in Co /\ co \in [Co -> CoState] /\ co[Rec] \in CoState /\ job \in JobRow
  BY RecType DEF TypeInv, TypeOK
<1>a. \A t \in co[Rec].list : t \in Task
  BY <1>0, LocalsType
<1>1. CASE ReconcileRead \/ RunningCounted \/ ActiveCounted
  <2>1. UNCHANGED <<phase, job, row, loop>>
    BY <1>1 DEF ReconcileRead, RunningCounted, ActiveCounted, local
  <2>2. \A d \in Co : co'[d] = co[d] \/ co'[d].pc \in {"idle", "expire", "count", "waiters", "final"}
    BY <1>0, <1>1
       DEF ReconcileRead, RunningCounted, ActiveCounted, Return, Idle, CoState
  <2>3. phase # "down"
    BY <1>0, <1>1 DEF ReconcileRead, RunningCounted, ActiveCounted, At, RowInv, DownInv
  <2>4. QED
    BY <2>1, <2>2, <2>3, <1>0, QuietRows DEF RowInv, DeletedInv
<1>2. CASE \E tasks \in SUBSET Task : ExpiredRead(tasks) \/ WaitersRead(tasks)
  <2>1. PICK tasks \in SUBSET Task : ExpiredRead(tasks) \/ WaitersRead(tasks)
    BY <1>2
  <2>2. UNCHANGED <<phase, job, row, loop>> /\ tasks \subseteq Waiting
    BY <2>1 DEF ExpiredRead, WaitersRead, local
  <2>3. \A d \in Co : d # Rec => co'[d] = co[d]
    BY <1>0, <2>1 DEF ExpiredRead, WaitersRead
  <2>4. /\ co'[Rec].pc \in {"running", "fail", "count", "capacity"}
        /\ co'[Rec].list = tasks \/ co'[Rec].list = tasks \ Live
        /\ co'[Rec].pc = "fail" => co'[Rec].list = tasks \ Live
    BY <1>0, <2>1 DEF ExpiredRead, WaitersRead, CoState
  <2>5. HeldInv'
    BY <2>2, <2>4 DEF HeldInv, Waiting, Live
  <2>6. phase # "down"
    BY <1>0, <2>1 DEF ExpiredRead, WaitersRead, At, RowInv, DownInv
  <2>7. QED
    BY <2>2, <2>3, <2>4, <2>5, <2>6, <1>0, QuietRows DEF RowInv, DeletedInv
<1>3. CASE FailExpired
  <2>1. /\ UNCHANGED <<phase, job, loop>> /\ co[Rec].pc = "fail"
        /\ co' = [co EXCEPT ![Rec].pc = "running", ![Rec].list = {}]
        /\ \A t \in Task : row'[t] # row[t] => t \in co[Rec].list /\ row'[t] = "failed"
    BY <1>3 DEF FailExpired, Set
  <2>2. RunningIsRecorded' /\ InsertedInv'
    BY <2>1 DEF RowInv, HeldInv, RunningIsRecorded, InsertedInv
  <2>3. \A d \in Co : co'[d] = co[d] \/ co'[d].pc = "running"
    BY <1>0, <2>1 DEF CoState
  <2>4. HeldInv'
    BY <1>0, <2>1 DEF HeldInv, CoState
  <2>5. DeletedInv'
    BY <2>1, <2>3 DEF RowInv, DeletedInv, Exists, Active, Pending
  <2>6. DownInv'
    BY <1>0, <2>1 DEF RowInv, DownInv
  <2>7. QED
    BY <2>2, <2>4, <2>5, <2>6 DEF RowInv
<1>4. CASE \E tasks \in SUBSET Task : ResumeWaiters(tasks)
  <2>1. PICK tasks \in SUBSET Task : ResumeWaiters(tasks)
    BY <1>4
  <2>2. /\ UNCHANGED <<phase, job, row>> /\ co[Rec].pc = "capacity"
        /\ tasks \subseteq co[Rec].list
        /\ co' = [co EXCEPT ![Rec].pc = "count", ![Rec].list = {}]
    BY <2>1 DEF ResumeWaiters
  <2>3. \A t \in Task : \/ loop'[t] = loop[t]
                        \/ t \in tasks /\ loop'[t] \in {"cancelled", "acquiring"}
    BY <2>1 DEF ResumeWaiters, FirstStage
  <2>4. RunningIsRecorded' /\ InsertedInv'
    BY <2>2, <2>3 DEF RowInv, HeldInv, RunningIsRecorded, InsertedInv
  <2>5. \A d \in Co : co'[d] = co[d] \/ co'[d].pc = "count"
    BY <1>0, <2>2 DEF CoState
  <2>6. HeldInv'
    BY <1>0, <2>2 DEF HeldInv, CoState
  <2>7. DeletedInv'
    BY <2>2, <2>5 DEF RowInv, DeletedInv, Exists, Active
  <2>8. DownInv'
    BY <1>0, <2>2 DEF RowInv, DownInv
  <2>9. QED
    BY <2>4, <2>6, <2>7, <2>8 DEF RowInv
<1>5. CASE \E ready \in BOOLEAN : ScaleUpChecked(ready)
  <2>1. PICK ready \in BOOLEAN : ScaleUpChecked(ready)
    BY <1>5
  <2>2. UNCHANGED <<phase, job, row, loop>>
    BY <2>1 DEF ScaleUpChecked, local
  <2>3. \A d \in Co : \/ co'[d] = co[d]
                      \/ co'[d].pc \in {"idle", "spawn"}
                      \/ co'[d].pc = "save" /\ co'[d].job.state = "paused"
    BY <1>0, <2>1
       DEF ScaleUpChecked, Precheck, ToSpawn, ToSave, Return, Idle, CoState, JobRow
  <2>4. phase # "down"
    BY <1>0, <2>1 DEF ScaleUpChecked, At, RowInv, DownInv
  <2>5. QED
    BY <2>2, <2>3, <2>4, <1>0, QuietRows DEF RowInv, DeletedInv
<1>6. QED
  BY <1>1, <1>2, <1>3, <1>4, <1>5 DEF RecStep

LEMMA ProcessStepRows ==
  ASSUME TypeInv, RowInv,
         \/ Bootstrap \/ BootDone \/ ReconcileJob \/ Tick
         \/ \E ready \in BOOLEAN : Bootstrapped(ready)
         \/ Recover \/ TickCancelled \/ Shutdown \/ ProcessEnds
  PROVE  RowInv'
<1>0. Rec \in Co /\ co \in [Co -> CoState] /\ co[Rec] \in CoState /\ job \in JobRow
  BY RecType DEF TypeInv, TypeOK
<1>1. CASE Bootstrap \/ ReconcileJob \/ Tick
  <2>1. UNCHANGED <<phase, job, row, loop>>
    BY <1>1 DEF Bootstrap, ReconcileJob, Tick, local
  <2>2. \A d \in Co : co'[d] = co[d] \/ co'[d].pc \in {"idle", "read", "precheck"}
    BY <1>0, <1>1 DEF Bootstrap, ReconcileJob, Tick, Return, Idle, CoState
  <2>3. phase # "down"
    BY <1>0, <1>1 DEF Bootstrap, ReconcileJob, Tick, At, RowInv, DownInv
  <2>4. QED
    BY <2>1, <2>2, <2>3, <1>0, QuietRows DEF RowInv, DeletedInv
<1>2. CASE BootDone \/ Shutdown
  BY <1>0, <1>2, QuietRows DEF BootDone, Shutdown, RowInv, DeletedInv
<1>3. CASE \E ready \in BOOLEAN : Bootstrapped(ready)
  <2>1. PICK ready \in BOOLEAN : Bootstrapped(ready)
    BY <1>3
  <2>2. UNCHANGED <<phase, job, row, loop>>
    BY <2>1 DEF Bootstrapped, local
  <2>3. \A d \in Co : \/ co'[d] = co[d]
                      \/ co'[d].pc \in {"idle", "read"}
                      \/ co'[d].pc = "save" /\ co'[d].job.state = "paused"
    BY <1>0, <2>1 DEF Bootstrapped, Precheck, ToSave, Return, Idle, CoState, JobRow
  <2>4. phase # "down"
    BY <1>0, <2>1 DEF Bootstrapped, At, RowInv, DownInv
  <2>5. QED
    BY <2>2, <2>3, <2>4, <1>0, QuietRows DEF RowInv, DeletedInv
<1>4. CASE Recover
  <2>1. /\ UNCHANGED <<job, loop>> /\ phase = "down" /\ phase' = "boot"
        /\ co' = [co EXCEPT ![Rec].op = "boot", ![Rec].pc = "boot"]
        /\ \A t \in Task : row'[t] # row[t] => t \in Active /\ row'[t] = "failed"
    BY <1>4 DEF Recover
  <2>2. \A t \in Task : loop[t] = "none"
    BY <2>1 DEF RowInv, DownInv, Live
  <2>3. RunningIsRecorded' /\ InsertedInv' /\ DownInv'
    BY <2>1, <2>2 DEF RunningIsRecorded, InsertedInv, DownInv
  <2>4. \A d \in Co : co'[d] = co[d] \/ co'[d].pc = "boot"
    BY <1>0, <2>1 DEF CoState
  <2>5. HeldInv'
    BY <1>0, <2>1 DEF HeldInv, CoState
  <2>6. DeletedInv'
    BY <2>1, <2>4 DEF RowInv, DeletedInv, Exists, Active, Pending
  <2>7. QED
    BY <2>3, <2>5, <2>6 DEF RowInv
<1>5. CASE TickCancelled
  <2>1. /\ UNCHANGED <<phase, loop>> /\ co' = [co EXCEPT ![Rec] = Idle]
        /\ co[Rec].pc # "idle"
    BY <1>5 DEF TickCancelled, Return
  <2>2. \A d \in Co : co'[d] = co[d] \/ co'[d].pc = "idle"
    BY <1>0, <2>1 DEF Idle, CoState
  <2>3. CASE UNCHANGED row
    <3>1. job' = job \/ job'.state # "deleted"
      BY <1>0, <1>5 DEF TickCancelled, RowInv, DeletedInv
    <3>2. QED
      BY <2>1, <2>2, <2>3, <3>1, <1>0, QuietRows DEF RowInv, DeletedInv, DownInv
  <2>4. CASE co[Rec].pc = "spawn" /\ ~UNCHANGED row
    <3>1. PICK t \in Task : row[t] = "none" /\ row' = [row EXCEPT ![t] = "pending"]
      BY <1>5, <2>4 DEF TickCancelled, Set, TypeInv, TypeOK
    <3>2. Exists /\ UNCHANGED job
      BY <1>5, <2>4 DEF TickCancelled
    <3>3. RunningIsRecorded' /\ InsertedInv'
      BY <2>1, <3>1 DEF RowInv, RunningIsRecorded, InsertedInv, TypeInv, TypeOK
    <3>4. HeldInv'
      BY <1>0, <2>1, <2>2 DEF HeldInv, Idle
    <3>5. DeletedInv'
      BY <2>2, <3>2 DEF RowInv, DeletedInv, Exists
    <3>6. DownInv'
      BY <1>0, <2>1 DEF RowInv, DownInv
    <3>7. QED
      BY <3>3, <3>4, <3>5, <3>6 DEF RowInv
  <2>5. CASE co[Rec].pc \in {"cancel", "fail"} /\ ~UNCHANGED row
    <3>1. UNCHANGED job
      BY <1>5, <2>5 DEF TickCancelled
    <3>2. \A t \in Task : row'[t] # row[t] =>
            \/ row[t] \in Pending /\ row'[t] = "cancelled"
            \/ co[Rec].pc = "fail" /\ t \in co[Rec].list /\ row'[t] = "failed"
      BY <1>5, <2>5 DEF TickCancelled, Set, Cancelled, Pending
    <3>3. RunningIsRecorded' /\ InsertedInv'
      BY <2>1, <3>2 DEF RowInv, HeldInv, RunningIsRecorded, InsertedInv, Pending
    <3>4. HeldInv'
      BY <1>0, <2>1, <2>2 DEF HeldInv, Idle
    <3>5. DeletedInv'
      BY <2>2, <3>1, <3>2 DEF RowInv, DeletedInv, Exists, Active, Pending
    <3>6. DownInv'
      BY <1>0, <2>1 DEF RowInv, DownInv
    <3>7. QED
      BY <3>3, <3>4, <3>5, <3>6 DEF RowInv
  <2>6. QED
    BY <1>5, <2>3, <2>4, <2>5 DEF TickCancelled
<1>6. CASE ProcessEnds
  <2>1. /\ UNCHANGED <<job, row>>
        /\ \A t \in Task : loop'[t] = "none"
        /\ \A d \in Co : co'[d] = Idle
    BY <1>6 DEF ProcessEnds
  <2>2. QED
    BY <1>0, <2>1
       DEF RowInv, RunningIsRecorded, InsertedInv, DownInv, HeldInv, DeletedInv, Live, Exists,
           Active, Idle
<1>7. QED
  BY <1>1, <1>2, <1>3, <1>4, <1>5, <1>6

LEMMA StepRows == TypeInv /\ RowInv /\ [Next]_vars => RowInv'
<1> SUFFICES ASSUME TypeInv, RowInv, [Next]_vars PROVE RowInv'
  OBVIOUS
<1>1. CASE SystemStep
  BY <1>1, TaskStepRows, SharedStepRows, RecStepRows, ProcessStepRows DEF SystemStep
<1>2. CASE \E c \in Call : CallStep(c) \/ FireCron(c) \/ CronFired(c)
  BY <1>2, CallRows, DropRows
<1>3. CASE Recover \/ TickCancelled \/ Shutdown \/ ProcessEnds
  BY <1>3, ProcessStepRows
<1>4. CASE UNCHANGED vars
  BY <1>4
     DEF vars, RowInv, RunningIsRecorded, InsertedInv, DownInv, HeldInv, DeletedInv, Live,
         Exists, Active
<1>5. QED
  BY <1>1, <1>2, <1>3, <1>4 DEF Next

LEMMA Invariance == Spec => [](TypeInv /\ RowInv)
<1>1. Init => TypeInv /\ RowInv
  BY InitType, InitRows
<1>2. (TypeInv /\ RowInv) /\ [Next]_vars => (TypeInv /\ RowInv)'
  BY StepType, StepRows
<1>3. QED
  BY <1>1, <1>2, PTL DEF Spec

\* A module runs only for a task whose row says that it does (or went with
\* its job), whatever stops, recoveries, expiries and deletions come between:
\* mark_tasks_failed goes by ids read earlier, but never hits a live loop.
THEOREM RunningRecorded == Spec => []RunningIsRecorded
<1>1. RowInv => RunningIsRecorded
  BY DEF RowInv
<1>2. QED
  BY <1>1, Invariance, PTL

-----------------------------------------------------------------------------
(* What one step does to one task.                                          *)

Kept(t) == row'[t] = row[t] /\ loop'[t] = loop[t]
Dispatched(t) == /\ row[t] = "none" /\ row'[t] = "pending"
                 /\ loop[t] = "none" /\ loop'[t] \in {"acquiring", "cancelled"}
Orphaned(t) == /\ row[t] = "none" /\ row'[t] = "pending" /\ loop'[t] = loop[t]
               /\ TickTimesOut \/ phase = "stopping"
Stopped(t) == /\ row[t] \in {"pending", "waiting"} /\ row'[t] = "cancelled"
              /\ loop'[t] = loop[t]
Dropped(t) == row'[t] = "gone" /\ loop'[t] = loop[t]
Expired(t) == row'[t] = "failed" /\ loop'[t] = loop[t] /\ co[Rec].pc = "fail"
Resumed(t) == /\ row'[t] = row[t] /\ co[Rec].pc = "capacity"
              /\ loop[t] = "none" /\ loop'[t] \in {"acquiring", "cancelled"}

Effect(t) ==
  \/ TaskStep(t) /\ UNCHANGED <<phase, job>>
  \/ /\ Serving' => Serving
     /\ Kept(t) \/ Dispatched(t) \/ Orphaned(t) \/ Stopped(t) \/ Dropped(t)
        \/ Expired(t) \/ Resumed(t)
  \/ Recover
  \/ ProcessEnds

LEMMA StepEffect ==
  ASSUME TypeInv, RowInv, [Next]_vars, NEW t \in Task
  PROVE  Effect(t)
<1> USE DEF Effect
<1>1. ASSUME UNCHANGED <<row, loop>>, Serving' => Serving PROVE Effect(t)
  BY <1>1 DEF Kept
<1>2. CASE \E u \in Task : TaskStep(u)
  <2>1. PICK u \in Task : TaskStep(u)
    BY <1>2
  <2>2. UNCHANGED <<phase, job>>
    BY <2>1 DEF TaskStep, Park, Claim, EnvUp, EnvFails, Enter, Conclude, Finish
  <2>3. t # u => Kept(t)
    BY <2>1 DEF TaskStep, Park, Claim, EnvUp, EnvFails, Enter, Conclude, Finish, Write, Forget,
                Kept, TypeInv, TypeOK
  <2>4. QED
    BY <2>1, <2>2, <2>3 DEF Serving
<1>3. CASE \E c \in Co : \E u \in Task : Dispatch(c, u)
  <2>1. PICK c \in Co, u \in Task : Dispatch(c, u)
    BY <1>3
  <2>2. /\ row[u] = "none" /\ row' = [row EXCEPT ![u] = "pending"] /\ UNCHANGED phase
        /\ loop' = [loop EXCEPT ![u] = FirstStage] /\ FirstStage \in {"acquiring", "cancelled"}
    BY <2>1 DEF Dispatch, FirstStage
  <2>3. t # u => Kept(t)
    BY <2>2 DEF Kept, TypeInv, TypeOK
  <2>4. t = u => Dispatched(t)
    BY <2>2 DEF Dispatched, RowInv, InsertedInv, TypeInv, TypeOK
  <2>5. QED
    BY <2>2, <2>3, <2>4 DEF Serving
<1>4. CASE \E c \in Co : DispatchFails(c) \/ DispatchCapped(c) \/ SaveJob(c)
  BY <1>1, <1>4 DEF DispatchFails, DispatchCapped, SaveJob, rowsKept, local, Serving
<1>5. CASE \E c \in Co : CancelPending(c)
  BY <1>5 DEF CancelPending, Set, Cancelled, Stopped, Kept, Serving
<1>6. CASE ReconcileRead \/ RunningCounted \/ ActiveCounted \/ \E r \in BOOLEAN : ScaleUpChecked(r)
  BY <1>1, <1>6 DEF ReconcileRead, RunningCounted, ActiveCounted, ScaleUpChecked, local, Serving
<1>7. CASE \E tasks \in SUBSET Task : ExpiredRead(tasks) \/ WaitersRead(tasks)
  BY <1>1, <1>7 DEF ExpiredRead, WaitersRead, local, Serving
<1>8. CASE FailExpired
  BY <1>8 DEF FailExpired, Set, Expired, Kept, Serving
<1>9. CASE \E tasks \in SUBSET Task : ResumeWaiters(tasks)
  <2>1. PICK tasks \in SUBSET Task : ResumeWaiters(tasks)
    BY <1>9
  <2>2. /\ UNCHANGED <<row, phase>> /\ co[Rec].pc = "capacity"
        /\ loop' = [u \in Task |-> IF u \in tasks THEN FirstStage ELSE loop[u]]
        /\ tasks \cap Live = {} /\ FirstStage \in {"acquiring", "cancelled"}
    BY <2>1 DEF ResumeWaiters, FirstStage
  <2>3. t \in tasks => Resumed(t)
    BY <2>2 DEF Resumed, Live
  <2>4. t \notin tasks => Kept(t)
    BY <2>2 DEF Kept
  <2>5. QED
    BY <2>2, <2>3, <2>4 DEF Serving
<1>10. CASE Bootstrap \/ BootDone \/ ReconcileJob \/ Tick \/ Shutdown
            \/ \E ready \in BOOLEAN : Bootstrapped(ready)
  BY <1>1, <1>10 DEF Bootstrap, BootDone, ReconcileJob, Tick, Shutdown, Bootstrapped, local, Serving
<1>11. CASE \E c \in Call : CallStep(c) \/ FireCron(c) \/ CronFired(c)
  <2>1. PICK c \in Call : CallStep(c) \/ FireCron(c) \/ CronFired(c)
    BY <1>11
  <2>2. CASE DropJob(c)
    BY <2>2 DEF DropJob, Dropped, Kept, Serving
  <2>3. CASE ~DropJob(c)
    <3>1. UNCHANGED <<phase, row, loop>>
      BY <2>1, <2>3
         DEF CallStep, Invoke, CallFindsNothing, StartJob, PauseJob, DisableJob, DisableCounted,
             EnableJob, UpdateJob, RunOnce, BatchCounted, StopRunOnce, StopRunOnceCounted,
             DeleteJob, DeleteDrained, StartChecked, RunOnceChecked, BatchChecked, FireCron,
             CronFired, local, rowsKept
    <3>2. QED
      BY <1>1, <3>1 DEF Serving
  <2>4. QED
    BY <2>2, <2>3
<1>12. CASE TickCancelled
  <2>1. UNCHANGED <<loop, phase>> /\ (TickTimesOut \/ phase = "stopping")
    BY <1>12 DEF TickCancelled
  <2>2. CASE UNCHANGED row
    BY <1>1, <2>1, <2>2 DEF Serving
  <2>3. CASE ~UNCHANGED row
    <3>1. Kept(t) \/ Orphaned(t) \/ Stopped(t) \/ Expired(t)
      BY <1>12, <2>1, <2>3 DEF TickCancelled, Set, Cancelled, Kept, Orphaned, Stopped, Expired
    <3>2. QED
      BY <2>1, <3>1 DEF Serving
  <2>4. QED
    BY <2>2, <2>3
<1>13. CASE Recover \/ ProcessEnds
  BY <1>13
<1>14. CASE UNCHANGED vars
  BY <1>1, <1>14 DEF vars, Serving
<1>15. QED
  BY <1>2, <1>3, <1>4, <1>5, <1>6, <1>7, <1>8, <1>9, <1>10, <1>11, <1>12, <1>13, <1>14
     DEF Next, SystemStep, RecStep

\* Whatever the controller read some awaits ago, it never gives a task that
\* has a loop a second one (the test on _running_tasks in resume_task).
THEOREM LoopSingle == Spec => OneLoop
<1> DEFINE A == \A t \in Live : loop[t] # "acquiring" => loop'[t] # "acquiring"
<1>1. TypeInv /\ RowInv /\ [Next]_vars => A
  <2> SUFFICES ASSUME TypeInv, RowInv, [Next]_vars,
                      NEW t \in Task, loop[t] \notin {"none", "acquiring"}
               PROVE  loop'[t] # "acquiring"
    BY DEF Live
  <2>1. Effect(t)
    BY StepEffect
  <2>2. CASE TaskStep(t)
    BY <2>2 DEF TaskStep, Park, Claim, EnvUp, EnvFails, Enter, Conclude, Finish, Forget, Terminal,
                TypeInv, TypeOK
  <2>3. CASE Recover \/ ProcessEnds
    BY <2>3 DEF Recover, ProcessEnds
  <2>4. QED
    BY <2>1, <2>2, <2>3
       DEF Effect, Kept, Dispatched, Orphaned, Stopped, Dropped, Expired, Resumed
<1>2. TypeInv /\ RowInv /\ [Next]_vars => [A]_vars
  BY <1>1
<1>3. QED
  BY <1>2, Invariance, PTL DEF Spec, OneLoop

\* As long as no sweep exhausts its time, every task that is neither waiting
\* nor finished has a loop while the application serves: dispatch inserts the
\* row and creates the loop without losing it in between, a loop saves its
\* verdict before it ends, and start-up fails what the last run left.
THEOREM NoTaskLost ==
  ASSUME ~TickTimesOut
  PROVE  Spec => []NoLostTask
<1>1. Init => NoLostTask
  BY DEF Init, NoLostTask, Serving
<1>2. TypeInv /\ RowInv /\ NoLostTask /\ [Next]_vars => NoLostTask'
  <2> SUFFICES ASSUME TypeInv, RowInv, NoLostTask, [Next]_vars, Serving',
                      NEW t \in Task, row'[t] \in {"pending", "starting", "running"}
               PROVE  loop'[t] # "none"
    BY DEF NoLostTask, Active, Waiting, Live, Pending
  <2>1. Effect(t)
    BY StepEffect
  <2>2. CASE TaskStep(t) /\ UNCHANGED <<phase, job>>
    <3>1. row[t] \in {"pending", "starting", "running"} => Exists
      BY DEF RowInv, DeletedInv, Active, Pending
    <3>2. QED
      BY <2>2, <3>1
         DEF TaskStep, Park, Claim, EnvUp, EnvFails, Enter, Conclude, Finish, Forget, Write,
             Terminal, TypeInv, TypeOK
  <2>3. CASE Recover
    BY <2>3 DEF Recover, Active, Waiting, Pending
  <2>4. CASE ProcessEnds
    BY <2>4 DEF ProcessEnds, Serving
  <2>5. CASE Kept(t) /\ Serving
    BY <2>5 DEF Kept, NoLostTask, Active, Waiting, Live, Pending
  <2>6. QED
    BY <2>1, <2>2, <2>3, <2>4, <2>5
       DEF Effect, Dispatched, Orphaned, Stopped, Dropped, Expired, Resumed, Kept, Serving,
           NoLostTask, Active, Waiting, Live, Pending
<1>3. QED
  BY <1>1, <1>2, Invariance, PTL DEF Spec

\* Without candidate queries nothing waits, expires or is resumed, and no
\* task that has succeeded or failed has a loop that could write once more.
VerdictInv ==
  /\ co[Rec].pc \notin {"expire", "fail", "running", "waiters", "capacity"}
  /\ \A t \in Live : row[t] \notin {"succeeded", "failed"}

LEMMA NoCandidateQuery ==
  ASSUME TypeInv, VerdictInv, [Next]_vars, ~Waits
  PROVE  co'[Rec].pc \notin {"expire", "fail", "running", "waiters", "capacity"}
<1> DEFINE Outside(d) == co'[d].pc \notin {"expire", "fail", "running", "waiters", "capacity"}
<1>0. /\ Rec \in Co /\ co \in [Co -> CoState] /\ co[Rec] \in CoState
      /\ \A c \in Call : c # Rec /\ c \in Co
      /\ co[Rec].pc \notin {"expire", "fail", "running", "waiters", "capacity"}
  BY RecType, EngineAssumption DEF EngineAssumption, TypeInv, TypeOK, Co, VerdictInv
<1>1. CASE UNCHANGED co
  BY <1>0, <1>1
<1>2. CASE Return(Rec) \/ ProcessEnds
  BY <1>0, <1>2 DEF Return, ProcessEnds, Idle
<1>3. CASE \E t \in Task : TaskStep(t)
  BY <1>1, <1>3 DEF TaskStep, Park, Claim, EnvUp, EnvFails, Enter, Conclude, Finish
<1>4. ASSUME NEW c \in Co,
             \/ SaveJob(c) \/ CancelPending(c) \/ DispatchFails(c) \/ DispatchCapped(c)
             \/ \E t \in Task : Dispatch(c, t)
      PROVE  Outside(Rec)
  BY <1>0, <1>4
     DEF SaveJob, CancelPending, DispatchFails, DispatchCapped, Dispatch, Return, Await, Idle, CoState
<1>5. CASE RecStep
  BY <1>0, <1>5
     DEF RecStep, ReconcileRead, FailExpired, RunningCounted, ActiveCounted, ExpiredRead,
         WaitersRead, ResumeWaiters, ScaleUpChecked, Precheck, ToSpawn, ToSave, Return, Idle,
         At, CoState
<1>6. CASE Bootstrap \/ BootDone \/ ReconcileJob \/ Tick \/ Recover \/ TickCancelled \/ Shutdown
           \/ \E ready \in BOOLEAN : Bootstrapped(ready)
  BY <1>0, <1>6
     DEF Bootstrap, BootDone, ReconcileJob, Tick, Recover, TickCancelled, Shutdown, Bootstrapped,
         Precheck, ToSave, Return, Idle, CoState
<1>7. ASSUME NEW c \in Call, CallStep(c) \/ FireCron(c) \/ CronFired(c)
      PROVE  co'[Rec] = co[Rec]
  <2> USE <1>0 DEF Return, Await, ToSave, ToSpawn, Precheck
  <2>1. CASE \/ \E op \in Ops : Invoke(c, op)
             \/ CallFindsNothing(c) \/ StartJob(c) \/ PauseJob(c) \/ DisableJob(c)
             \/ FireCron(c) \/ CronFired(c)
    BY <2>1 DEF Invoke, CallFindsNothing, StartJob, PauseJob, DisableJob, FireCron, CronFired
  <2>2. CASE DisableCounted(c) \/ EnableJob(c) \/ RunOnce(c) \/ BatchCounted(c)
    BY <2>2 DEF DisableCounted, EnableJob, RunOnce, BatchCounted
  <2>3. CASE \/ StopRunOnce(c) \/ StopRunOnceCounted(c) \/ DeleteJob(c) \/ DeleteDrained(c)
             \/ DropJob(c)
    BY <2>3 DEF StopRunOnce, StopRunOnceCounted, DeleteJob, DeleteDrained, DropJob
  <2>4. CASE \E kind \in Kinds, target \in Targets : UpdateJob(c, kind, target)
    BY <2>4 DEF UpdateJob
  <2>5. CASE \E ready \in BOOLEAN :
               StartChecked(c, ready) \/ RunOnceChecked(c, ready) \/ BatchChecked(c, ready)
    BY <2>5 DEF StartChecked, RunOnceChecked, BatchChecked
  <2>6. QED
    BY <1>7, <2>1, <2>2, <2>3, <2>4, <2>5 DEF CallStep
<1>8. CASE UNCHANGED vars
  BY <1>1, <1>8 DEF vars
<1>9. QED
  BY <1>0, <1>2, <1>3, <1>4, <1>5, <1>6, <1>7, <1>8 DEF Next, SystemStep

\* A job whose tasks do not queue for candidates never revises a success or a
\* failure that was saved: not while pending rows are being cancelled, not in
\* recovery, and not by a loop that saves late.
THEOREM VerdictFinal ==
  ASSUME Acquisition # "candidates"
  PROVE  Spec => VerdictIsFinal
<1> DEFINE Final(t) == row[t] \in {"succeeded", "failed"} => row'[t] \in {row[t], "gone"}
           A == \A t \in Task : Final(t)
<1>1. Init => VerdictInv
  BY RecType DEF Init, VerdictInv, Live, Idle
<1>2. TypeInv /\ RowInv /\ VerdictInv /\ [Next]_vars => VerdictInv' /\ A
  <2> SUFFICES ASSUME TypeInv, RowInv, VerdictInv, [Next]_vars, NEW t \in Task
               PROVE  (loop'[t] # "none" => row'[t] \notin {"succeeded", "failed"}) /\ Final(t)
    BY NoCandidateQuery DEF VerdictInv, Live, Waits
  <2>1. Effect(t)
    BY StepEffect
  <2>2. CASE TaskStep(t)
    BY <2>2
       DEF TaskStep, Park, Claim, EnvUp, EnvFails, Enter, Conclude, Finish, Forget, Write,
           VerdictInv, Live, Terminal, TypeInv, TypeOK
  <2>3. CASE Recover
    BY <2>3 DEF Recover, RowInv, DownInv, Live, Active, Pending
  <2>4. CASE ProcessEnds
    BY <2>4 DEF ProcessEnds
  <2>5. QED
    BY <2>1, <2>2, <2>3, <2>4
       DEF Effect, Dispatched, Orphaned, Stopped, Dropped, Expired, Resumed, Kept, VerdictInv, Live
<1>3. TypeInv /\ RowInv /\ VerdictInv /\ [Next]_vars => [A]_vars
  BY <1>2
<1>4. QED
  BY <1>1, <1>2, <1>3, Invariance, PTL DEF Spec, VerdictIsFinal

-----------------------------------------------------------------------------
(* A disabled job.                                                         *)

\* Coroutine c alone goes on, and holds no older copy of the row afterwards.
GoesOn(c) ==
  /\ \A d \in Co \ {c} : co'[d] = co[d]
  /\ co'[c].pc # "save"
  /\ co'[c].pc \in {"idle", "read", "boot", "spawn", "cancel"}
     \/ co'[c].op \notin {"start", "tick", "event", "boot"}

LEMMA GoesOnLocked ==
  ASSUME Locked, NEW c \in Co, GoesOn(c), job'.state = "disabled"
  PROVE  Locked'
  BY DEF Locked, Outdated, GoesOn

LEMMA ReturnGoesOn ==
  ASSUME TypeInv, NEW c \in Co, Return(c)
  PROVE  GoesOn(c)
  BY DEF TypeInv, TypeOK, Return, Idle, GoesOn

LEMMA AwaitGoesOn ==
  ASSUME TypeInv, NEW c \in Co, NEW pc, Await(c, pc), pc # "save",
         \/ pc \in {"read", "spawn", "cancel"}
         \/ co[c].op \notin {"start", "tick", "event", "boot"}
  PROVE  GoesOn(c)
  BY DEF TypeInv, TypeOK, CoState, Await, GoesOn

LEMMA CallLocked ==
  ASSUME TypeInv, Locked, NEW c \in Call, CallStep(c)
  PROVE  Locked' \/ ~Exists' \/ At(c, {"enable", "pause", "delete"}, "save")'
<1>0. c \in Co /\ c # Rec /\ job.state = "disabled" /\ Exists
  BY EngineAssumption DEF EngineAssumption, Co, Locked, Exists
<1>1. CASE \E op \in Ops : Invoke(c, op)
  <2>1. GoesOn(c) /\ UNCHANGED job
    BY <1>0, <1>1 DEF Invoke, local, TypeInv, TypeOK, CoState, GoesOn
  <2>2. QED
    BY <1>0, <2>1, GoesOnLocked
<1>2. CASE CallFindsNothing(c) \/ StartJob(c) \/ RunOnce(c)
  <2>1. Return(c) /\ UNCHANGED job
    BY <1>0, <1>2 DEF CallFindsNothing, StartJob, RunOnce, local
  <2>2. QED
    BY <1>0, <2>1, ReturnGoesOn, GoesOnLocked
<1>3. CASE PauseJob(c) \/ EnableJob(c) \/ DeleteJob(c)
  <2>1. /\ co[c].op \in {"pause", "enable", "delete"}
        /\ \E j, stop : ToSave(c, j, stop)
    BY <1>0, <1>3 DEF PauseJob, EnableJob, DeleteJob, At
  <2>2. QED
    BY <1>0, <2>1 DEF ToSave, At, TypeInv, TypeOK, CoState
<1>4. CASE DisableJob(c)
  <2>1. GoesOn(c) /\ UNCHANGED job
    BY <1>0, <1>4 DEF DisableJob, At, local, TypeInv, TypeOK, CoState, GoesOn
  <2>2. QED
    BY <1>0, <2>1, GoesOnLocked
<1>5. CASE DisableCounted(c)
  <2>1. CASE ToSave(c, [co[c].job EXCEPT !.state = "disabled"], Active # {})
    <3>1. co'[c].job.state = "disabled" /\ co'[c].op = "disable" /\ UNCHANGED job
          /\ \A d \in Co \ {c} : co'[d] = co[d]
      BY <1>0, <1>5, <2>1 DEF DisableCounted, At, ToSave, TypeInv, TypeOK, CoState, JobRow
    <3>2. QED
      BY <1>0, <3>1 DEF Locked, Outdated
  <2>2. CASE co' = [co EXCEPT ![c].pc = "cancel", ![c].list = Live]
    <3>1. GoesOn(c) /\ UNCHANGED job
      BY <1>0, <1>5, <2>2 DEF DisableCounted, TypeInv, TypeOK, CoState, GoesOn
    <3>2. QED
      BY <1>0, <3>1, GoesOnLocked
  <2>3. CASE Return(c)
    BY <1>0, <1>5, <2>3, ReturnGoesOn, GoesOnLocked DEF DisableCounted
  <2>4. QED
    BY <1>5, <2>1, <2>2, <2>3 DEF DisableCounted
<1>6. CASE \E kind \in Kinds, target \in Targets : UpdateJob(c, kind, target)
  <2>1. PICK kind \in Kinds, target \in Targets : UpdateJob(c, kind, target)
    BY <1>6
  <2>2. ToSave(c, [state |-> "disabled", kind |-> kind, target |-> target], FALSE)
        /\ co[c].op = "update" /\ UNCHANGED job
    BY <1>0, <2>1 DEF UpdateJob, At, local
  <2>3. co'[c].job.state = "disabled" /\ co'[c].op = "update" /\ UNCHANGED job
        /\ \A d \in Co \ {c} : co'[d] = co[d]
    BY <1>0, <2>2 DEF ToSave, TypeInv, TypeOK, CoState
  <2>4. QED
    BY <1>0, <2>3 DEF Locked, Outdated
<1>7. CASE BatchCounted(c) \/ StopRunOnce(c) \/ DeleteDrained(c)
  <2>1. GoesOn(c) /\ UNCHANGED job
    <3>1. CASE Return(c)
      BY <1>0, <1>7, <3>1, ReturnGoesOn
      DEF BatchCounted, StopRunOnce, DeleteDrained, local
    <3>2. CASE ~Return(c)
      <4>1. PICK pc \in {"final", "count", "drop"} : Await(c, pc)
        BY <1>7, <3>2 DEF BatchCounted, StopRunOnce, DeleteDrained
      <4>2. co[c].op \notin {"start", "tick", "event", "boot"}
        BY <1>0, <1>7 DEF BatchCounted, StopRunOnce, DeleteDrained, At, Locked, Outdated
      <4>3. UNCHANGED job
        BY <1>7 DEF BatchCounted, StopRunOnce, DeleteDrained, local
      <4>4. QED
        BY <1>0, <4>1, <4>2, <4>3, AwaitGoesOn
    <3>3. QED
      BY <3>1, <3>2
  <2>2. QED
    BY <1>0, <2>1, GoesOnLocked
<1>8. CASE StopRunOnceCounted(c)
  <2>1. CASE Return(c)
    BY <1>0, <1>8, <2>1, ReturnGoesOn, GoesOnLocked DEF StopRunOnceCounted
  <2>2. CASE co' = [co EXCEPT ![c].pc = "cancel", ![c].list = Live]
    <3>1. GoesOn(c) /\ UNCHANGED job
      BY <1>0, <1>8, <2>2 DEF StopRunOnceCounted, TypeInv, TypeOK, CoState, GoesOn
    <3>2. QED
      BY <1>0, <3>1, GoesOnLocked
  <2>3. QED
    BY <1>8, <2>1, <2>2 DEF StopRunOnceCounted
<1>9. CASE DropJob(c)
  BY <1>9 DEF DropJob, Exists, TypeInv, TypeOK, JobRow
<1>10. CASE \E ready \in BOOLEAN :
              StartChecked(c, ready) \/ RunOnceChecked(c, ready) \/ BatchChecked(c, ready)
  <2>1. PICK ready \in BOOLEAN :
          StartChecked(c, ready) \/ RunOnceChecked(c, ready) \/ BatchChecked(c, ready)
    BY <1>10
  <2>2. ~At(c, {"start"}, "precheck")
    BY <1>0 DEF Locked, Outdated, At
  <2>3. UNCHANGED job /\ (RunOnceChecked(c, ready) \/ BatchChecked(c, ready))
    BY <2>1, <2>2 DEF StartChecked, RunOnceChecked, BatchChecked, local
  <2>4. CASE Return(c)
    BY <1>0, <2>3, <2>4, ReturnGoesOn, GoesOnLocked
  <2>5. CASE Await(c, "count") /\ co[c].op = "runOnce"
    BY <1>0, <2>3, <2>5, AwaitGoesOn, GoesOnLocked
  <2>6. CASE co' = [co EXCEPT ![c].pc = "spawn", ![c].need = co[c].job.target]
    <3>1. GoesOn(c)
      BY <1>0, <2>6 DEF TypeInv, TypeOK, CoState, GoesOn
    <3>2. QED
      BY <1>0, <2>3, <3>1, GoesOnLocked
  <2>7. QED
    BY <1>0, <2>3, <2>4, <2>5, <2>6
    DEF RunOnceChecked, BatchChecked, Precheck, ToSpawn, At
<1>11. QED
  BY <1>1, <1>2, <1>3, <1>4, <1>5, <1>6, <1>7, <1>8, <1>9, <1>10 DEF CallStep

LEMMA SharedLocked ==
  ASSUME TypeInv, Locked, NEW c \in Co,
         \/ SaveJob(c) \/ CancelPending(c) \/ DispatchFails(c) \/ DispatchCapped(c)
         \/ \E t \in Task : Dispatch(c, t)
  PROVE  Locked'
<1>0. job.state = "disabled"
  BY DEF Locked
<1>1. CASE Return(c) /\ UNCHANGED job
  BY <1>0, <1>1, ReturnGoesOn, GoesOnLocked
<1>2. CASE SaveJob(c)
  <2>1. job'.state = "disabled"
    BY <1>2 DEF SaveJob, Locked, Outdated
  <2>2. CASE Return(c)
    BY <2>1, <2>2, ReturnGoesOn, GoesOnLocked
  <2>3. CASE co' = [co EXCEPT ![c].pc = "cancel", ![c].list = Live]
    <3>1. GoesOn(c)
      BY <2>3 DEF TypeInv, TypeOK, CoState, GoesOn
    <3>2. QED
      BY <2>1, <3>1, GoesOnLocked
  <2>4. QED
    BY <1>2, <2>2, <2>3 DEF SaveJob
<1>3. CASE CancelPending(c) /\ ~Return(c)
  <2>1. Await(c, "drain") /\ co[c].op = "delete" /\ UNCHANGED job
    BY <1>3 DEF CancelPending
  <2>2. QED
    BY <1>0, <2>1, AwaitGoesOn, GoesOnLocked
<1>4. CASE (\E t \in Task : Dispatch(c, t)) /\ ~Return(c)
  <2>1. co' = [co EXCEPT ![c].need = @ - 1] /\ co[c].pc = "spawn" /\ UNCHANGED job
    BY <1>4 DEF Dispatch
  <2>2. GoesOn(c)
    BY <2>1 DEF TypeInv, TypeOK, CoState, GoesOn
  <2>3. QED
    BY <1>0, <2>1, <2>2, GoesOnLocked
<1>5. QED
  BY <1>1, <1>2, <1>3, <1>4
  DEF CancelPending, DispatchFails, DispatchCapped, Dispatch, local

LEMMA RecLocked ==
  ASSUME TypeInv, Locked,
         RecStep \/ Bootstrap \/ ReconcileJob \/ Tick \/ \E ready \in BOOLEAN : Bootstrapped(ready)
  PROVE  Locked'
<1>0. job.state = "disabled" /\ Rec \in Co /\ ~Outdated(Rec)
  BY RecType DEF Locked
<1>1. CASE (ReconcileRead \/ Bootstrap) /\ Return(Rec)
  BY <1>0, <1>1, ReturnGoesOn, GoesOnLocked DEF ReconcileRead, Bootstrap, local
<1>2. CASE ReconcileJob \/ Tick
  <2>1. GoesOn(Rec) /\ UNCHANGED job
    BY <1>0, <1>2 DEF ReconcileJob, Tick, local, TypeInv, TypeOK, CoState, GoesOn
  <2>2. QED
    BY <1>0, <2>1, GoesOnLocked
<1>3. CASE \/ FailExpired \/ RunningCounted
           \/ \E tasks \in SUBSET Task : WaitersRead(tasks) \/ ResumeWaiters(tasks)
  <2>1. co[Rec].op \notin {"start", "tick", "event", "boot"}
    BY <1>0, <1>3 DEF FailExpired, RunningCounted, WaitersRead, ResumeWaiters, Outdated
  <2>2. GoesOn(Rec) /\ UNCHANGED job
    BY <1>0, <1>3, <2>1 DEF FailExpired, RunningCounted, WaitersRead, ResumeWaiters, local,
       TypeInv, TypeOK, CoState, GoesOn
  <2>3. QED
    BY <1>0, <2>2, GoesOnLocked
<1>4. QED
  BY <1>0, <1>1, <1>2, <1>3
  DEF RecStep, ReconcileRead, Bootstrap, Bootstrapped, ActiveCounted, ExpiredRead,
      ScaleUpChecked, At, Outdated

LEMMA ProcessLocked ==
  ASSUME TypeInv, Locked,
         BootDone \/ Recover \/ TickCancelled \/ Shutdown \/ ProcessEnds
  PROVE  Locked'
<1>0. job.state = "disabled" /\ Rec \in Co /\ ~Outdated(Rec)
  BY RecType DEF Locked
<1>1. CASE BootDone \/ Shutdown
  BY <1>1 DEF BootDone, Shutdown, Locked, Outdated
<1>2. CASE Recover
  <2>1. GoesOn(Rec) /\ UNCHANGED job
    BY <1>0, <1>2 DEF Recover, TypeInv, TypeOK, CoState, GoesOn
  <2>2. QED
    BY <1>0, <2>1, GoesOnLocked
<1>3. CASE TickCancelled
  <2>1. job'.state = "disabled" /\ Return(Rec)
    BY <1>0, <1>3 DEF TickCancelled, Outdated
  <2>2. QED
    BY <1>0, <2>1, ReturnGoesOn, GoesOnLocked
<1>4. CASE ProcessEnds
  BY <1>0, <1>4 DEF ProcessEnds, Idle, Locked, Outdated
<1>5. QED
  BY <1>1, <1>2, <1>3, <1>4

\* Once nobody holds a copy of its row from before, a disabled job stays disabled until
\* TaskService enables, pauses or deletes it: no start, edit, batch, firing, sweep or
\* restart of the application brings it back.
THEOREM LockStays == Spec => StaysLocked
<1>1. ASSUME TypeInv, [Next]_vars, Locked
      PROVE  \/ Locked' \/ ~Exists'
             \/ \E c \in Call : At(c, {"enable", "pause", "delete"}, "save")'
  <2>1. CASE UNCHANGED vars
    BY <1>1, <2>1 DEF vars, Locked, Outdated
  <2>2. CASE \E t \in Task : TaskStep(t)
    BY <1>1, <2>2 DEF TaskStep, Park, Claim, EnvUp, EnvFails, Enter, Finish, Conclude,
       Locked, Outdated
  <2>3. CASE \E c \in Call : FireCron(c) \/ CronFired(c)
    <3>1. PICK c \in Call : FireCron(c) \/ CronFired(c)
      BY <2>3
    <3>2. c \in Co /\ job.state = "disabled" /\ UNCHANGED job
      BY <1>1, <3>1 DEF Co, Locked, FireCron, CronFired, local
    <3>3. GoesOn(c)
      BY <1>1, <3>1, <3>2, ReturnGoesOn DEF FireCron, CronFired, TypeInv, TypeOK, CoState, GoesOn
    <3>4. QED
      BY <1>1, <3>2, <3>3, GoesOnLocked
  <2>4. QED
    BY <1>1, <2>1, <2>2, <2>3, CallLocked, SharedLocked, RecLocked, ProcessLocked
    DEF Next, SystemStep
<1>2. QED
  BY <1>1, InitType, StepType, PTL DEF Spec, StaysLocked

-----------------------------------------------------------------------------
(* Scaling a service job refines TaskQuota, for every number of tasks, of  *)
(* concurrent calls and of restarts, and every set of targets.             *)

\* A service job that operators start, edit and unlock, but do not stop, and
\* whose tasks get an environment without waiting for candidates.
Scaling ==
  /\ Ops \subseteq {"start", "update", "enable"}
  /\ Kinds \subseteq {"service"} /\ InitJob.kind = "service"
  /\ ~Waits

\* The job and every copy of its row are a service job with one of the targets.
CopiesInv ==
  /\ job.kind = "service" /\ job.target \in Quotas /\ ~scheduled
  /\ \A c \in Co : co[c].job.kind = "service" /\ co[c].job.target \in Quotas

\* Calls only read, check and save; the reconcile coroutine also counts and
\* dispatches.  Nobody stops tasks.
PathInv ==
  /\ \A c \in Call : /\ co[c].op \in {"none", "start", "update", "enable"}
                     /\ co[c].pc \in {"idle", "read", "precheck", "save"}
  /\ co[Rec].op \in {"none", "tick", "event", "boot"}
  /\ co[Rec].pc \in {"idle", "read", "count", "final", "spawn", "boot", "precheck"}
  /\ \A c \in Co : co[c].pc = "save" => ~co[c].stop

\* A loop belongs to a task whose row is not closed.
LiveInv == Live \subseteq Active

\* What is active and what is yet to be dispatched stay within the target that
\* was read under the lock.
CountInv ==
  co[Rec].pc \in {"final", "spawn"} => Cardinality(Active) + co[Rec].need <= co[Rec].job.target

ScalingInv == CopiesInv /\ PathInv /\ LiveInv /\ CountInv

LEMMA InitScaling ==
  ASSUME Scaling, Init
  PROVE  ScalingInv /\ Quota!Init
<1>1. CopiesInv
  BY DEF Scaling, Init, CopiesInv, Quotas, Idle
<1>2. PathInv
  BY RecType DEF Init, PathInv, Idle, Co
<1>3. LiveInv /\ Active = {} /\ Closed = {}
  BY DEF Init, LiveInv, Live, Active, Closed, Pending, Terminal
<1>4. CountInv
  BY RecType DEF Init, CountInv, Idle
<1>5. QED
  BY <1>1, <1>2, <1>3, <1>4 DEF ScalingInv, Quota!Init

\* What a step of a call or of the reconcile coroutine may make of its locals.
LocalsKept(c) ==
  /\ \A d \in Co \ {c} : co'[d] = co[d]
  /\ co'[c].job.kind = "service" /\ co'[c].job.target \in Quotas
  /\ co'[c].pc = "save" => ~co'[c].stop

LEMMA CallScaling ==
  ASSUME Scaling, TypeInv, ScalingInv, NEW c \in Call,
         CallStep(c) \/ FireCron(c) \/ CronFired(c)
  PROVE  /\ UNCHANGED <<phase, job, row, loop, scheduled>>
         /\ LocalsKept(c)
         /\ co'[c].op \in {"none", "start", "update", "enable"}
         /\ co'[c].pc \in {"idle", "read", "precheck", "save"}
<1>0. /\ c \in Co /\ co \in [Co -> CoState] /\ co[c] \in CoState /\ job \in JobRow
      /\ co[c].job \in JobRow
      /\ co[c].op \in {"none", "start", "update", "enable"}
      /\ co[c].pc \in {"idle", "read", "precheck", "save"}
      /\ ~scheduled /\ job.kind = "service" /\ job.target \in Quotas
      /\ co[c].job.kind = "service" /\ co[c].job.target \in Quotas /\ c # Rec
  BY LocalsType, EngineAssumption
     DEF EngineAssumption, TypeInv, TypeOK, Co, ScalingInv, PathInv, CopiesInv
<1>1. /\ Idle.job.kind = "service" /\ Idle.job.target \in Quotas /\ Idle.pc = "idle"
      /\ Idle.op = "none"
  BY DEF Scaling, Idle, Quotas
<1> DEFINE Goal == /\ LocalsKept(c)
                   /\ co'[c].op \in {"none", "start", "update", "enable"}
                   /\ co'[c].pc \in {"idle", "read", "precheck", "save"}
<1>2. Return(c) => Goal
  BY <1>0, <1>1 DEF Return, LocalsKept
<1>3. \A j \in JobRow : j.kind = "service" /\ j.target \in Quotas /\ ToSave(c, j, FALSE) => Goal
  BY <1>0 DEF ToSave, LocalsKept, CoState
<1>4. CASE \E op \in Ops : Invoke(c, op)
  <2>1. Goal
    BY <1>0, <1>4 DEF Invoke, LocalsKept, CoState, Scaling
  <2>2. QED
    BY <1>4, <2>1 DEF Invoke, local
<1>5. CASE CallFindsNothing(c)
  BY <1>2, <1>5 DEF CallFindsNothing, local
<1>6. CASE StartJob(c)
  <2>1. Return(c) \/ co' = [co EXCEPT ![c].pc = "precheck", ![c].job = job]
    BY <1>0, <1>6 DEF StartJob
  <2>2. co' = [co EXCEPT ![c].pc = "precheck", ![c].job = job] => Goal
    BY <1>0 DEF LocalsKept, CoState
  <2>3. QED
    BY <1>2, <1>6, <2>1, <2>2 DEF StartJob, local
<1>7. CASE \E ready \in BOOLEAN : StartChecked(c, ready)
  <2>1. Return(c) \/ ToSave(c, [co[c].job EXCEPT !.state = "active"], FALSE)
    BY <1>0, <1>7 DEF StartChecked, Precheck
  <2>2. ToSave(c, [co[c].job EXCEPT !.state = "active"], FALSE) => Goal
    BY <1>0, <1>3, StateType DEF JobRow
  <2>3. QED
    BY <1>2, <1>7, <2>1, <2>2 DEF StartChecked, local
<1>8. CASE EnableJob(c)
  <2>1. Return(c) \/ ToSave(c, [job EXCEPT !.state = "paused"], FALSE)
    BY <1>8 DEF EnableJob
  <2>2. ToSave(c, [job EXCEPT !.state = "paused"], FALSE) => Goal
    BY <1>0, <1>3, StateType DEF JobRow
  <2>3. QED
    BY <1>2, <1>8, <2>1, <2>2 DEF EnableJob, local
<1>9. CASE \E kind \in Kinds, target \in Targets : UpdateJob(c, kind, target)
  <2>1. PICK kind \in Kinds, target \in Targets : UpdateJob(c, kind, target)
    BY <1>9
  <2>2. kind = "service" /\ target \in Quotas /\ target \in Nat /\ job.state \in JobStates
    BY <1>0, EngineAssumption DEF EngineAssumption, Scaling, Quotas, JobRow
  <2> DEFINE edited == [state |-> job.state, kind |-> kind, target |-> target]
  <2>3. ToSave(c, edited, FALSE)
    BY <2>1, <2>2 DEF UpdateJob
  <2>4. edited \in JobRow /\ edited.kind = "service" /\ edited.target \in Quotas
    BY <2>2 DEF JobRow, AllKinds
  <2>5. Goal
    BY <1>3, <2>3, <2>4
  <2>6. QED
    BY <2>1, <2>5 DEF UpdateJob, local
<1>10. QED
  BY <1>0, <1>4, <1>5, <1>6, <1>7, <1>8, <1>9
     DEF CallStep, FireCron, CronFired, PauseJob, DisableJob, DisableCounted, RunOnce,
         RunOnceChecked, BatchCounted, BatchChecked, StopRunOnce, StopRunOnceCounted, DeleteJob,
         DeleteDrained, DropJob, At

-----------------------------------------------------------------------------
(* Counting.                                                                *)

LEMMA ActiveFinite == IsFiniteSet(Active) /\ Cardinality(Active) \in Nat
  BY EngineAssumption, FS_Subset, FS_CardinalityType DEF EngineAssumption, Active

\* A step that opens nothing closes what is no longer active.
Closes == /\ Active' \subseteq Active
          /\ Closed' = Closed \cup (Active \ Active')

\* A step that opens t.
Opens(t) == /\ t \notin Active \cup Closed
            /\ Active' = Active \cup {t} /\ Closed' = Closed

LEMMA ClosesCount == ASSUME Closes PROVE Cardinality(Active') <= Cardinality(Active)
  BY ActiveFinite, FS_Subset DEF Closes

LEMMA SameRowsClose == ASSUME UNCHANGED row PROVE Closes
  BY DEF Closes, Active, Closed

LEMMA OpensCount ==
  ASSUME NEW t \in Task, Opens(t)
  PROVE  Cardinality(Active') = Cardinality(Active) + 1
  BY ActiveFinite, FS_AddElement DEF Opens

LEMMA InsertOpens ==
  ASSUME TypeInv, NEW t \in Task, row[t] = "none", row' = [row EXCEPT ![t] = "pending"]
  PROVE  Opens(t)
<1>1. \A u \in Task : row'[u] = IF u = t THEN "pending" ELSE row[u]
  BY DEF TypeInv, TypeOK
<1>2. t \notin Active \cup Closed
  BY DEF Active, Closed, Pending, Terminal
<1>3. Active' = Active \cup {t}
  BY <1>1 DEF Active, Pending
<1>4. Closed' = Closed
  BY <1>1 DEF Closed, Terminal
<1>5. QED
  BY <1>2, <1>3, <1>4 DEF Opens

LEMMA ClosesRefine == ASSUME Closes PROVE Quota!Next
<1>1. Active \ Active' \in SUBSET Task
  BY DEF Active
<1>2. Active' = Active \ (Active \ Active')
  BY DEF Closes
<1>3. Quota!Close(Active \ Active')
  BY <1>2 DEF Quota!Close, Closes
<1>4. QED
  BY <1>1, <1>3 DEF Quota!Next

\* The abstract module counts with its own instance of the same operator.
LEMMA SameCardinality == \A S : Quota!Cardinality(S) = Cardinality(S)
  BY DEF Cardinality, Quota!Cardinality

LEMMA OpensRefine ==
  ASSUME TypeInv, ScalingInv, NEW t \in Task, Opens(t), co[Rec].pc = "spawn"
  PROVE  Quota!Next
<1>1. co[Rec].job.target \in Quotas /\ co[Rec].job.target \in Nat
  BY RecType, LocalsType DEF ScalingInv, CopiesInv
<1>2. co[Rec].need \in Nat /\ co[Rec].need > 0
  BY RecType, LocalsType DEF TypeInv
<1>3. Cardinality(Active) + co[Rec].need <= co[Rec].job.target
  BY DEF ScalingInv, CountInv
<1>4. Cardinality(Active \cup {t}) <= co[Rec].job.target
  <2>1. Cardinality(Active \cup {t}) = Cardinality(Active) + 1
    BY ActiveFinite, FS_AddElement DEF Opens
  <2>2. QED
    BY <1>1, <1>2, <1>3, <2>1, ActiveFinite
<1>5. Quota!Open(t)
  <2>1. \E q \in Quotas : Cardinality(Active \cup {t}) <= q
    BY <1>1, <1>4
  <2>2. QED
    BY <2>1, SameCardinality DEF Quota!Open, Opens
<1>6. QED
  BY <1>5 DEF Quota!Next

-----------------------------------------------------------------------------
(* Steps.                                                                   *)

Stepped == ScalingInv' /\ Quota!Next

\* A step that leaves rows and loops alone and moves coroutine c at most.
LEMMA QuietScaling ==
  ASSUME Scaling, TypeInv, ScalingInv, NEW c \in Co, UNCHANGED <<row, loop>>, LocalsKept(c),
         scheduled' = FALSE, job'.kind = "service", job'.target \in Quotas,
         c = Rec =>
           /\ co'[Rec].op \in {"none", "tick", "event", "boot"}
           /\ co'[Rec].pc \in {"idle", "read", "count", "final", "spawn", "boot", "precheck"}
           /\ CountInv',
         c # Rec => /\ co'[c].op \in {"none", "start", "update", "enable"}
                    /\ co'[c].pc \in {"idle", "read", "precheck", "save"}
  PROVE  Stepped
<1>1. CopiesInv'
  BY DEF ScalingInv, CopiesInv, LocalsKept, Quotas
<1>2. PathInv'
  BY RecType, EngineAssumption DEF EngineAssumption, ScalingInv, PathInv, LocalsKept, Co
<1>3. LiveInv'
  BY DEF ScalingInv, LiveInv, Live, Active
<1>4. CountInv'
  BY RecType DEF ScalingInv, CountInv, LocalsKept, Active
<1>5. QED
  BY <1>1, <1>2, <1>3, <1>4, SameRowsClose, ClosesRefine DEF Stepped, ScalingInv

LEMMA TaskScaling ==
  ASSUME Scaling, TypeInv, ScalingInv, NEW t \in Task, TaskStep(t)
  PROVE  Stepped
<1>1. UNCHANGED <<phase, job, scheduled, co>> /\ t \in Active
  BY DEF TaskStep, Park, Claim, EnvUp, EnvFails, Enter, Conclude, Finish, Forget, Terminal,
         ScalingInv, LiveInv, Live
<1>2. /\ \A u \in Task \ {t} : row'[u] = row[u] /\ loop'[u] = loop[u]
      /\ \/ row'[t] \in {"starting", "running"} \/ row'[t] = row[t]
         \/ row'[t] \in Terminal /\ loop'[t] = "none"
  BY DEF TaskStep, Park, Claim, EnvUp, EnvFails, Enter, Conclude, Finish, Forget, Write,
         Scaling, TypeInv, TypeOK
<1>3. Closes
  <2>1. Active' = IF row'[t] \in Terminal THEN Active \ {t} ELSE Active
    BY <1>1, <1>2 DEF Active, Pending, Terminal
  <2>2. Closed' = IF row'[t] \in Terminal THEN Closed \cup {t} ELSE Closed
    BY <1>1, <1>2 DEF Active, Closed, Pending, Terminal
  <2>3. QED
    BY <1>1, <2>1, <2>2 DEF Closes
<1>4. LiveInv'
  BY <1>1, <1>2 DEF ScalingInv, LiveInv, Live, Active, Pending, Terminal
<1>5. CountInv'
  <2>1. Cardinality(Active') <= Cardinality(Active) /\ Cardinality(Active') \in Nat
    BY <1>3, ClosesCount, EngineAssumption, FS_Subset, FS_CardinalityType
       DEF EngineAssumption, Active
  <2>2. QED
    BY <1>1, <2>1, RecType, LocalsType, ActiveFinite DEF ScalingInv, CountInv
<1>6. CopiesInv' /\ PathInv'
  BY <1>1 DEF ScalingInv, CopiesInv, PathInv, Quotas
<1>7. QED
  BY <1>3, <1>4, <1>5, <1>6, ClosesRefine DEF Stepped, ScalingInv

LEMMA SharedScaling ==
  ASSUME Scaling, TypeInv, RowInv, ScalingInv, NEW c \in Co,
         \/ SaveJob(c) \/ CancelPending(c) \/ DispatchFails(c) \/ DispatchCapped(c)
         \/ \E t \in Task : Dispatch(c, t)
  PROVE  Stepped
<1>0. /\ Rec \in Co /\ co \in [Co -> CoState] /\ co[c] \in CoState
      /\ Idle.job.kind = "service" /\ Idle.job.target \in Quotas
      /\ Idle.pc = "idle" /\ Idle.op = "none"
  BY RecType, LocalsType DEF TypeInv, TypeOK, Scaling, Idle, Quotas
<1>1. Return(c) => /\ LocalsKept(c) /\ co'[c].op = "none" /\ co'[c].pc = "idle"
                   /\ (c = Rec => CountInv')
  BY <1>0 DEF Return, LocalsKept, CountInv
<1>2. ~CancelPending(c)
  BY DEF CancelPending, ScalingInv, PathInv, Co
<1>3. CASE SaveJob(c)
  <2>1. ~co[c].stop /\ Return(c) /\ job' = co[c].job /\ UNCHANGED <<row, loop, scheduled>>
    BY <1>3 DEF SaveJob, rowsKept, ScalingInv, PathInv
  <2>2. job'.kind = "service" /\ job'.target \in Quotas /\ scheduled' = FALSE
    BY <2>1 DEF ScalingInv, CopiesInv, TypeInv, TypeOK
  <2>3. QED
    BY <1>1, <2>1, <2>2, QuietScaling
<1>4. CASE DispatchFails(c) \/ DispatchCapped(c)
  <2>1. Return(c) /\ UNCHANGED <<job, row, loop, scheduled>>
    BY <1>4 DEF DispatchFails, DispatchCapped, local
  <2>2. job'.kind = "service" /\ job'.target \in Quotas /\ scheduled' = FALSE
    BY <2>1 DEF ScalingInv, CopiesInv, TypeInv, TypeOK
  <2>3. QED
    BY <1>1, <2>1, <2>2, QuietScaling
<1>5. CASE \E t \in Task : Dispatch(c, t)
  <2>1. PICK t \in Task : Dispatch(c, t)
    BY <1>5
  <2>2. c = Rec /\ co[Rec].pc = "spawn"
    BY <2>1 DEF Dispatch, ScalingInv, PathInv, Co
  <2>3. Opens(t)
    BY <2>1, InsertOpens DEF Dispatch
  <2>4. UNCHANGED <<job, scheduled>> /\ \A u \in Task \ {t} : loop'[u] = loop[u]
    BY <2>1 DEF Dispatch, TypeInv, TypeOK
  <2>5. \/ Return(Rec)
        \/ co' = [co EXCEPT ![Rec].need = @ - 1]
    BY <2>1, <2>2 DEF Dispatch
  <2>6. CopiesInv' /\ PathInv'
    BY <1>0, <2>2, <2>4, <2>5, EngineAssumption
       DEF EngineAssumption, Return, ScalingInv, CopiesInv, PathInv, Quotas, CoState, Co
  <2>7. LiveInv'
    BY <2>3, <2>4 DEF Opens, ScalingInv, LiveInv, Live
  <2>8. CountInv'
    <3>1. CASE Return(Rec)
      BY <1>0, <3>1 DEF Return, CountInv
    <3>2. CASE co' = [co EXCEPT ![Rec].need = @ - 1]
      <4>1. /\ co'[Rec].need = co[Rec].need - 1 /\ co'[Rec].job = co[Rec].job
            /\ co[Rec].need \in Nat /\ co[Rec].job.target \in Nat
        BY <1>0, <3>2, LocalsType DEF CoState
      <4>2. Cardinality(Active) + co[Rec].need <= co[Rec].job.target
        BY <2>2 DEF ScalingInv, CountInv
      <4>3. QED
        BY <2>3, <4>1, <4>2, OpensCount, ActiveFinite DEF CountInv
    <3>3. QED
      BY <2>5, <3>1, <3>2
  <2>9. QED
    BY <2>2, <2>3, <2>6, <2>7, <2>8, OpensRefine DEF Stepped, ScalingInv
<1>6. QED
  BY <1>2, <1>3, <1>4, <1>5

LEMMA RecScaling ==
  ASSUME Scaling, TypeInv, ScalingInv, RecStep
  PROVE  Stepped
<1>0. /\ Rec \in Co /\ co \in [Co -> CoState] /\ co[Rec] \in CoState /\ job \in JobRow
      /\ co[Rec].job \in JobRow /\ co[Rec].job.target \in Nat
      /\ co[Rec].job.kind = "service" /\ co[Rec].job.target \in Quotas
      /\ job.kind = "service" /\ job.target \in Quotas /\ ~scheduled
      /\ Idle.job.kind = "service" /\ Idle.job.target \in Quotas
      /\ Idle.pc = "idle" /\ Idle.op = "none" /\ scheduled \in BOOLEAN
  BY RecType, LocalsType DEF TypeInv, TypeOK, ScalingInv, CopiesInv, Scaling, Idle, Quotas
<1> DEFINE Goal == /\ LocalsKept(Rec) /\ CountInv'
                   /\ co'[Rec].op \in {"none", "tick", "event", "boot"}
                   /\ co'[Rec].pc \in {"idle", "read", "count", "final", "spawn", "boot", "precheck"}
<1>1. Return(Rec) => Goal
  BY <1>0 DEF Return, LocalsKept, CountInv
<1>2. CASE ReconcileRead
  <2>1. \/ Return(Rec)
        \/ co' = [co EXCEPT ![Rec].pc = "count", ![Rec].job = job]
    BY <1>2 DEF ReconcileRead, Scaling
  <2>2. co' = [co EXCEPT ![Rec].pc = "count", ![Rec].job = job] => Goal
    BY <1>0 DEF LocalsKept, CountInv, CoState, ScalingInv, PathInv
  <2>3. UNCHANGED <<job, row, loop>> /\ scheduled' = FALSE
    BY <1>0, <1>2 DEF ReconcileRead
  <2>4. QED
    BY <1>0, <1>1, <2>1, <2>2, <2>3, QuietScaling
<1>3. CASE ActiveCounted
  <2> DEFINE missing == Minus(co[Rec].job.target, Cardinality(Active))
  <2>1. \/ Return(Rec)
        \/ missing # 0 /\ co' = [co EXCEPT ![Rec].pc = "final", ![Rec].need = missing]
    BY <1>3 DEF ActiveCounted
  <2>2. missing # 0 => Cardinality(Active) + missing <= co[Rec].job.target
    BY <1>0, ActiveFinite DEF Minus
  <2>3. UNCHANGED <<job, row, loop, scheduled>>
    BY <1>3 DEF ActiveCounted, local
  <2> HIDE DEF missing
  <2>4. ASSUME missing # 0, co' = [co EXCEPT ![Rec].pc = "final", ![Rec].need = missing]
        PROVE  Goal
    <3>1. /\ co'[Rec].job = co[Rec].job /\ co'[Rec].need = missing /\ co'[Rec].pc = "final"
          /\ co'[Rec].op = co[Rec].op /\ \A d \in Co \ {Rec} : co'[d] = co[d]
      BY <1>0, <2>4 DEF CoState
    <3>2. Active' = Active
      BY <2>3 DEF Active
    <3>3. QED
      BY <1>0, <2>2, <2>4, <3>1, <3>2 DEF LocalsKept, CountInv, ScalingInv, PathInv
  <2>5. QED
    BY <1>0, <1>1, <2>1, <2>3, <2>4, QuietScaling
<1>4. CASE \E ready \in BOOLEAN : ScaleUpChecked(ready)
  <2>1. PICK ready \in BOOLEAN : ScaleUpChecked(ready)
    BY <1>4
  <2>2. /\ co[Rec].pc = "final" /\ UNCHANGED <<job, row, loop, scheduled>>
        /\ Return(Rec) \/ co' = [co EXCEPT ![Rec].pc = "spawn", ![Rec].need = co[Rec].need]
    BY <2>1 DEF ScaleUpChecked, Precheck, ToSpawn, At, Scaling, Waits, local
  <2>3. ASSUME co' = [co EXCEPT ![Rec].pc = "spawn", ![Rec].need = co[Rec].need]
        PROVE  Goal
    <3>1. /\ co'[Rec].job = co[Rec].job /\ co'[Rec].need = co[Rec].need /\ co'[Rec].pc = "spawn"
          /\ co'[Rec].op = co[Rec].op /\ \A d \in Co \ {Rec} : co'[d] = co[d]
      BY <1>0, <2>3 DEF CoState
    <3>2. Active' = Active
      BY <2>2 DEF Active
    <3>3. QED
      BY <1>0, <2>2, <3>1, <3>2 DEF LocalsKept, CountInv, ScalingInv, PathInv
  <2>4. QED
    BY <1>0, <1>1, <2>2, <2>3, QuietScaling
<1>5. QED
  BY <1>2, <1>3, <1>4
     DEF RecStep, FailExpired, RunningCounted, ExpiredRead, WaitersRead, ResumeWaiters, At,
         ScalingInv, PathInv, Scaling

LEMMA ProcessScaling ==
  ASSUME Scaling, TypeInv, RowInv, ScalingInv,
         \/ Bootstrap \/ BootDone \/ ReconcileJob \/ Tick
         \/ \E ready \in BOOLEAN : Bootstrapped(ready)
         \/ Recover \/ TickCancelled \/ Shutdown \/ ProcessEnds
  PROVE  Stepped
<1>0. /\ Rec \in Co /\ co \in [Co -> CoState] /\ co[Rec] \in CoState
      /\ co[Rec].job.kind = "service" /\ co[Rec].job.target \in Quotas
      /\ job.kind = "service" /\ job.target \in Quotas /\ ~scheduled
      /\ Idle.job.kind = "service" /\ Idle.job.target \in Quotas
      /\ Idle.pc = "idle" /\ Idle.op = "none" /\ scheduled \in BOOLEAN
  BY RecType, LocalsType DEF TypeInv, TypeOK, ScalingInv, CopiesInv, Scaling, Idle, Quotas
<1> DEFINE Goal == /\ LocalsKept(Rec) /\ CountInv'
                   /\ co'[Rec].op \in {"none", "tick", "event", "boot"}
                   /\ co'[Rec].pc \in {"idle", "read", "count", "final", "spawn", "boot", "precheck"}
<1>1. Return(Rec) => Goal
  BY <1>0 DEF Return, LocalsKept, CountInv
<1>2. CASE Bootstrap \/ ReconcileJob \/ Tick
  <2>1. \/ Return(Rec)
        \/ co' = [co EXCEPT ![Rec].pc = "precheck", ![Rec].job = job]
        \/ \E op \in {"event", "tick"} : co' = [co EXCEPT ![Rec].op = op, ![Rec].pc = "read"]
    BY <1>2 DEF Bootstrap, ReconcileJob, Tick
  <2>2. co' = [co EXCEPT ![Rec].pc = "precheck", ![Rec].job = job] => Goal
    BY <1>0 DEF LocalsKept, CountInv, CoState, ScalingInv, PathInv
  <2>3. (\E op \in {"event", "tick"} : co' = [co EXCEPT ![Rec].op = op, ![Rec].pc = "read"]) => Goal
    BY <1>0 DEF LocalsKept, CountInv, CoState
  <2>4. UNCHANGED <<job, row, loop, scheduled>>
    BY <1>2 DEF Bootstrap, ReconcileJob, Tick, local
  <2>5. QED
    BY <1>0, <1>1, <2>1, <2>2, <2>3, <2>4, QuietScaling
<1>3. CASE BootDone \/ Shutdown
  <2>1. UNCHANGED <<job, row, loop, co>> /\ scheduled' = FALSE
    BY <1>0, <1>3 DEF BootDone, Shutdown
  <2>2. Goal
    BY <1>0, <2>1 DEF LocalsKept, CountInv, Active, ScalingInv, PathInv
  <2>3. QED
    BY <1>0, <2>1, <2>2, QuietScaling
<1>4. CASE \E ready \in BOOLEAN : Bootstrapped(ready)
  <2>1. PICK ready \in BOOLEAN : Bootstrapped(ready)
    BY <1>4
  <2>2. /\ UNCHANGED <<job, row, loop, scheduled>>
        /\ Return(Rec) \/ co' = [co EXCEPT ![Rec].op = "event", ![Rec].pc = "read"]
    BY <2>1 DEF Bootstrapped, Precheck, Scaling, Waits, local
  <2>3. co' = [co EXCEPT ![Rec].op = "event", ![Rec].pc = "read"] => Goal
    BY <1>0 DEF LocalsKept, CountInv, CoState
  <2>4. QED
    BY <1>0, <1>1, <2>2, <2>3, QuietScaling
<1>5. CASE Recover
  <2>1. /\ UNCHANGED <<job, loop, scheduled>> /\ phase = "down"
        /\ co' = [co EXCEPT ![Rec].op = "boot", ![Rec].pc = "boot"]
        /\ \A t \in Task : row'[t] = IF t \in Active \ Waiting THEN "failed" ELSE row[t]
    BY <1>5 DEF Recover
  <2>2. Active' = Waiting /\ Closed' = Closed \cup (Active \ Waiting)
    BY <2>1 DEF Active, Closed, Waiting, Pending, Terminal
  <2>3. Closes
    BY <2>2 DEF Closes, Waiting, Active, Pending
  <2>4. LiveInv'
    BY <2>1 DEF RowInv, DownInv, LiveInv, Live
  <2>5. /\ co'[Rec].pc = "boot" /\ co'[Rec].op = "boot" /\ co'[Rec].job = co[Rec].job
        /\ \A d \in Co \ {Rec} : co'[d] = co[d]
    BY <1>0, <2>1 DEF CoState
  <2>6. CopiesInv' /\ PathInv' /\ CountInv'
    BY <1>0, <2>1, <2>5, EngineAssumption
       DEF EngineAssumption, Co, CountInv, CopiesInv, PathInv, ScalingInv, Quotas
  <2>7. QED
    BY <2>3, <2>4, <2>6, ClosesRefine DEF Stepped, ScalingInv
<1>6. CASE TickCancelled
  <2>1. Return(Rec) /\ UNCHANGED <<job, loop, scheduled>>
    BY <1>6 DEF TickCancelled, ScalingInv, PathInv
  <2>2. CASE UNCHANGED row
    BY <1>0, <1>1, <2>1, <2>2, QuietScaling
  <2>3. CASE ~UNCHANGED row
    <3>1. PICK t \in Task : row[t] = "none" /\ row' = [row EXCEPT ![t] = "pending"]
      BY <1>6, <2>3 DEF TickCancelled, Set, TypeInv, TypeOK, ScalingInv, PathInv
    <3>2. Opens(t) /\ co[Rec].pc = "spawn"
      BY <1>6, <2>3, <3>1, InsertOpens DEF TickCancelled, ScalingInv, PathInv
    <3>3. LiveInv'
      BY <2>1, <3>2 DEF Opens, ScalingInv, LiveInv, Live
    <3>4. CopiesInv' /\ PathInv' /\ CountInv'
      BY <1>0, <1>1, <2>1, EngineAssumption
         DEF EngineAssumption, Co, LocalsKept, CopiesInv, PathInv, ScalingInv, Quotas
    <3>5. QED
      BY <3>2, <3>3, <3>4, OpensRefine DEF Stepped, ScalingInv
  <2>4. QED
    BY <2>2, <2>3
<1>7. CASE ProcessEnds
  <2>1. /\ UNCHANGED <<job, row>> /\ scheduled' = FALSE
        /\ \A t \in Task : loop'[t] = "none"
        /\ \A d \in Co : co'[d] = Idle
    BY <1>7 DEF ProcessEnds
  <2>2. ScalingInv'
    BY <1>0, <2>1
       DEF ScalingInv, CopiesInv, PathInv, LiveInv, CountInv, Live, Co, Quotas
  <2>3. QED
    BY <2>1, <2>2, SameRowsClose, ClosesRefine DEF Stepped
<1>8. QED
  BY <1>2, <1>3, <1>4, <1>5, <1>6, <1>7

LEMMA StepScaling ==
  ASSUME Scaling, TypeInv, RowInv, ScalingInv, [Next]_vars
  PROVE  ScalingInv' /\ [Quota!Next]_<<Active, Closed>>
<1>1. CASE SystemStep
  BY <1>1, TaskScaling, SharedScaling, RecScaling, ProcessScaling DEF SystemStep, Stepped
<1>2. CASE \E c \in Call : CallStep(c) \/ FireCron(c) \/ CronFired(c)
  <2>1. PICK c \in Call : CallStep(c) \/ FireCron(c) \/ CronFired(c)
    BY <1>2
  <2>2. Stepped
    BY <2>1, CallScaling, QuietScaling, EngineAssumption
       DEF EngineAssumption, Co, ScalingInv, CopiesInv, TypeInv, TypeOK
  <2>3. QED
    BY <2>2 DEF Stepped
<1>3. CASE Recover \/ TickCancelled \/ Shutdown \/ ProcessEnds
  BY <1>3, ProcessScaling DEF Stepped
<1>4. CASE UNCHANGED vars
  BY <1>4
     DEF vars, ScalingInv, CopiesInv, PathInv, LiveInv, CountInv, Live, Active, Closed, Quotas
<1>5. QED
  BY <1>1, <1>2, <1>3, <1>4 DEF Next

\* Reconciling a service job keeps its tasks within a target in force, and
\* opens and closes each of them once: events, sweeps that are cut off,
\* prechecks that block, edits of the target and restarts may come between
\* the count under the lock and the dispatches.
THEOREM QuotaKept ==
  ASSUME Scaling
  PROVE  Spec => KeepsQuota
<1>1. Init => ScalingInv /\ Quota!Init
  BY InitScaling
<1>2. TypeInv /\ RowInv /\ ScalingInv /\ [Next]_vars
        => ScalingInv' /\ [Quota!Next]_<<Active, Closed>>
  BY StepScaling
<1>3. QED
  BY <1>1, <1>2, Invariance, PTL DEF Spec, KeepsQuota, Quota!Spec, Quota!vars

=============================================================================
