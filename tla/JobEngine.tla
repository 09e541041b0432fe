------------------------------ MODULE JobEngine ------------------------------
(***************************************************************************)
(* The task engine (ATM) of crawler4j, seen from one job: the row of the   *)
(* job and the rows of its tasks in the state database, the TaskService    *)
(* calls operators make, the reconcile coroutine of the JobController, and *)
(* one loop of the TaskDispatcher per task.  What the three keep in memory *)
(* is keyed by the id of a job, so one job stands for all of them.         *)
(*                                                                         *)
(* All coroutines share one event loop.  A step is the completion of what  *)
(* a coroutine awaits (a database call in the executor, a provider call, a *)
(* candidate query) with the code that follows, up to the next await: the  *)
(* call itself may take long, its continuation runs at once.               *)
(***************************************************************************)
EXTENDS Naturals, FiniteSets

CONSTANTS
  Task,         \* the ids of the tasks that can ever be dispatched
  Call,         \* the service calls that can be in progress at once
  Rec,          \* the reconcile coroutine that holds the lock of the job
  Ops,          \* the service calls that operators make
  Kinds,        \* the kinds (type and trigger) an edit may give the job
  Targets,      \* the concurrency targets an edit may give the job
  InitJob,      \* the row of the job when the application is first started
  Acquisition,  \* "create", "fixed" or "candidates": how a task gets its env
  TickTimesOut, \* TRUE if a reconcile tick may exhaust its 45 s
  MaxRestart    \* bound on the number of times the process ends

JobStates == {"active", "paused", "disabled", "deleted"}
AllKinds == {"service", "cron", "manual"}
JobRow == [state : JobStates, kind : AllKinds, target : Nat]

\* PENDING is "waiting" when waiting_since is set and "starting" when the row
\* has an environment and a lease; "none" is an id not used yet, "gone" a row
\* that was deleted with its job.
Pending == {"pending", "waiting", "starting"}
Terminal == {"succeeded", "failed", "cancelled"}
RowStatus == Pending \cup {"running"} \cup Terminal \cup {"none", "gone"}

\* Where the loop of a task stands.  A loop that knows its verdict, recycles
\* the environment and is about to save is named by the verdict.
Stage == {"none", "acquiring", "starting", "entering", "running"} \cup Terminal

AllOps == {"start", "pause", "disable", "enable", "update", "delete",
           "runOnce", "stopOnce"}
Co == Call \cup {Rec}

\* The locals of a coroutine: what it runs, what it awaits, its copy of the
\* row of the job, how many tasks it has yet to dispatch, the task ids it
\* holds, and whether saving the job is followed by stopping its tasks.
CoState == [op : AllOps \cup {"none", "cron", "tick", "event", "boot"},
            pc : {"idle", "read", "precheck", "save", "count", "final", "spawn",
                  "cancel", "drain", "drop", "expire", "fail", "running",
                  "waiters", "capacity", "boot"},
            job : JobRow, need : Nat, list : SUBSET Task, stop : BOOLEAN]

ASSUME EngineAssumption ==
  /\ IsFiniteSet(Task) /\ Rec \notin Call
  /\ Ops \subseteq AllOps /\ Kinds \subseteq AllKinds /\ Targets \subseteq Nat
  /\ InitJob \in JobRow
  /\ Acquisition \in {"create", "fixed", "candidates"}
  /\ TickTimesOut \in BOOLEAN /\ MaxRestart \in Nat
  \* Only a service job waits for candidates; another kind of job that finds
  \* none fails, as it does with a fixed environment.
  /\ Acquisition = "candidates" => Kinds \cup {InitJob.kind} \subseteq {"service"}

VARIABLES
  phase,     \* of the process: "down", "boot", "up" or "stopping"
  restarts,  \* how often the process has ended
  job,       \* the row of the job
  row,       \* row[t]: the status of the row of task t
  loop,      \* loop[t]: where the dispatcher's loop of task t stands
  told,      \* the tasks whose TaskContext was asked to stop
  stopFlag,  \* the job is in the dispatcher's _job_stop_requests
  scheduled, \* the job has a cron schedule
  nudge,     \* a targeted reconcile_job was created and has not run yet
  co         \* co[c]: the locals of coroutine c

vars == <<phase, restarts, job, row, loop, told, stopFlag, scheduled, nudge, co>>

Idle == [op |-> "none", pc |-> "idle", job |-> InitJob, need |-> 0,
         list |-> {}, stop |-> FALSE]

Active == {t \in Task : row[t] \in Pending \cup {"running"}}
Waiting == {t \in Task : row[t] = "waiting"}
Live == {t \in Task : loop[t] # "none"}

Exists == job.state # "deleted"
Waits == Acquisition = "candidates"
Serving == phase \in {"boot", "up"}  \* the controller hears task events

\* Fault: a surplus is not cut off at zero.
MinusUnclamped(a, b) == a - b

Minus(a, b) == IF a > b THEN a - b ELSE 0

At(c, op, pc) == co[c].op \in op /\ co[c].pc = pc
Await(c, pc) == co' = [co EXCEPT ![c].pc = pc]
Return(c) == co' = [co EXCEPT ![c] = Idle]

TypeOK ==
  /\ phase \in {"down", "boot", "up", "stopping"}
  /\ restarts \in 0..MaxRestart
  /\ job \in JobRow
  /\ row \in [Task -> RowStatus]
  /\ loop \in [Task -> Stage]
  /\ told \subseteq Task
  /\ stopFlag \in BOOLEAN /\ scheduled \in BOOLEAN /\ nudge \in BOOLEAN
  /\ co \in [Co -> CoState]

Init ==
  /\ phase = "down" /\ restarts = 0
  /\ job = InitJob
  /\ row = [t \in Task |-> "none"]
  /\ loop = [t \in Task |-> "none"]
  /\ told = {} /\ stopFlag = FALSE /\ scheduled = FALSE /\ nudge = FALSE
  /\ co = [c \in Co |-> Idle]

-----------------------------------------------------------------------------
(* The loop of a task: TaskDispatcher._run_safe around ExecutionRunner.run. *)

\* A loop that starts looks at the stop flag before it does anything else.
FirstStage == IF stopFlag THEN "cancelled" ELSE "acquiring"

\* The last loop of a job to end takes the stop flag of the job with it.
Forget(t) ==
  /\ loop' = [loop EXCEPT ![t] = "none"]
  /\ told' = told \ {t}
  /\ stopFlag' = (stopFlag /\ Live # {t})

\* save_task inserts or updates the row; without its job the foreign key
\* fails, the loop gives up and only the event says so.
Write(t, status) == IF Exists THEN row' = [row EXCEPT ![t] = status] ELSE row' = row

\* No candidate is allocatable: the task keeps its seat in the queue and its
\* loop ends.
Park(t) ==
  /\ Waits /\ loop[t] = "acquiring"
  /\ Write(t, "waiting")
  /\ Forget(t)
  /\ nudge' = (nudge \/ (~Exists /\ Serving))
  /\ UNCHANGED <<phase, restarts, job, scheduled, co>>

\* A leased environment still has to be started, and the row says so.
Claim(t) ==
  /\ Acquisition # "create" /\ loop[t] = "acquiring" /\ Exists
  /\ row' = [row EXCEPT ![t] = "starting"]
  /\ loop' = [loop EXCEPT ![t] = "starting"]
  /\ UNCHANGED <<phase, restarts, job, told, stopFlag, scheduled, nudge, co>>

\* The environment runs: created and opened in one call, or started.
EnvUp(t) ==
  /\ loop[t] = (IF Acquisition = "create" THEN "acquiring" ELSE "starting")
  /\ loop' = [loop EXCEPT ![t] = IF stopFlag THEN "cancelled" ELSE "entering"]
  /\ UNCHANGED <<phase, restarts, job, row, told, stopFlag, scheduled, nudge, co>>

\* No environment: none to be had, none created or started, or a row that
\* cannot be saved any more.
EnvFails(t) ==
  /\ loop[t] \in {"acquiring", "starting"}
  /\ loop' = [loop EXCEPT ![t] = "failed"]
  /\ UNCHANGED <<phase, restarts, job, row, told, stopFlag, scheduled, nudge, co>>

\* Fault: the module is entered without saving that it runs.
EnterUnsaved(t) ==
  /\ loop[t] = "entering"
  /\ loop' = [loop EXCEPT ![t] = IF stopFlag THEN "cancelled" ELSE "running"]
  /\ UNCHANGED <<phase, restarts, job, row, told, stopFlag, scheduled, nudge, co>>

\* RUNNING is saved; then the context is there and the flag is looked at again.
Enter(t) ==
  /\ loop[t] = "entering"
  /\ Write(t, "running")
  /\ loop' = [loop EXCEPT ![t] = IF ~Exists THEN "failed"
                                 ELSE IF stopFlag THEN "cancelled" ELSE "running"]
  /\ UNCHANGED <<phase, restarts, job, told, stopFlag, scheduled, nudge, co>>

\* The module returns, fails, exhausts its time, or is stopped.
Conclude(t, verdict) ==
  /\ loop[t] = "running"
  /\ verdict = "cancelled" => t \in told \/ stopFlag
  /\ verdict = "succeeded" => t \notin told /\ ~stopFlag
  /\ loop' = [loop EXCEPT ![t] = verdict]
  /\ UNCHANGED <<phase, restarts, job, row, told, stopFlag, scheduled, nudge, co>>

\* The environment is recycled, the verdict saved and published, and the
\* controller reacts with a targeted reconcile.
Finish(t) ==
  /\ loop[t] \in Terminal
  /\ Write(t, loop[t])
  /\ Forget(t)
  /\ nudge' = (nudge \/ Serving)
  /\ UNCHANGED <<phase, restarts, job, scheduled, co>>

TaskStep(t) ==
  \/ Park(t) \/ Claim(t) \/ EnvUp(t) \/ EnvFails(t) \/ Enter(t) \/ Finish(t)
  \/ \E verdict \in Terminal : Conclude(t, verdict)

-----------------------------------------------------------------------------
(* Pieces that the service calls and the controller share.                 *)

rowsKept == UNCHANGED <<phase, restarts, row, loop>>
local == UNCHANGED <<phase, restarts, job, row, loop, told, stopFlag, scheduled, nudge>>

\* request_job_stop, up to its database call: no more cron firings, the flag,
\* a stop for every context, and the loops that its update has to spare.
StopTasks ==
  /\ scheduled' = FALSE
  /\ stopFlag' = TRUE
  /\ told' = told \cup {t \in Task : loop[t] = "running"}

\* The tasks that are cancelled: pending without an environment, and without a
\* loop when the stop was requested.
Cancelled(c) == {t \in Task \ co[c].list : row[t] \in {"pending", "waiting"}}
Set(tasks, status) == row' = [t \in Task |-> IF t \in tasks THEN status ELSE row[t]]

CancelPending(c) ==
  /\ co[c].pc = "cancel"
  /\ Set(Cancelled(c), "cancelled")
  /\ nudge' = (nudge \/ (Cancelled(c) # {} /\ Serving))
  /\ IF co[c].op = "delete" THEN Await(c, "drain") ELSE Return(c)
  /\ UNCHANGED <<phase, restarts, job, loop, told, stopFlag, scheduled>>

\* Go on to save copy j of the row of the job, and then to stop its tasks.
ToSave(c, j, stop) ==
  co' = [co EXCEPT ![c].pc = "save", ![c].job = j, ![c].stop = stop]

\* save_job writes the whole row, and inserts it if it is gone.
SaveJob(c) ==
  /\ co[c].pc = "save"
  /\ job' = co[c].job
  /\ IF co[c].stop
     THEN /\ StopTasks
          /\ co' = [co EXCEPT ![c].pc = "cancel", ![c].list = Live]
          /\ UNCHANGED nudge
     ELSE /\ Return(c)
          /\ stopFlag' = (stopFlag /\ co[c].op \notin {"start", "enable"})
          /\ nudge' = (nudge \/ (co[c].op \in {"start", "update"} /\ co[c].job.state = "active"))
          /\ UNCHANGED <<told, scheduled>>
  /\ rowsKept

\* The provider's runtime is ready (TRUE), or the precheck blocks the call.
\* The controller pauses a job whose candidates are not declared.
Precheck(c, ready, then) ==
  IF ready THEN then
  ELSE \/ Return(c)
       \/ /\ Acquisition = "candidates" /\ c = Rec
          /\ ToSave(c, [co[c].job EXCEPT !.state = "paused"], TRUE)

\* dispatch: the row of a new task is inserted and its loop created.  The
\* insert fails if the job was deleted.
Dispatch(c, t) ==
  /\ co[c].pc = "spawn" /\ Exists /\ row[t] = "none"
  /\ row' = [row EXCEPT ![t] = "pending"]
  /\ loop' = [loop EXCEPT ![t] = FirstStage]
  /\ IF co[c].need = 1 THEN Return(c) ELSE co' = [co EXCEPT ![c].need = @ - 1]
  /\ UNCHANGED <<phase, restarts, job, told, stopFlag, scheduled, nudge>>

\* All ids of the model are used up: nothing more is dispatched.
DispatchCapped(c) ==
  /\ co[c].pc = "spawn" /\ \A t \in Task : row[t] # "none"
  /\ Return(c)
  /\ local

DispatchFails(c) ==
  /\ co[c].pc = "spawn" /\ ~Exists
  /\ Return(c)
  /\ local

ToSpawn(c, n) ==
  IF n = 0 THEN Return(c) ELSE co' = [co EXCEPT ![c].pc = "spawn", ![c].need = n]

-----------------------------------------------------------------------------
(* TaskService: the operators' calls.                                      *)

Invoke(c, op) ==
  /\ phase = "up" /\ c # Rec /\ co[c].pc = "idle"
  /\ co' = [co EXCEPT ![c].op = op, ![c].pc = "read"]
  /\ local

\* get_job of a job that is gone ends every call.
CallFindsNothing(c) ==
  /\ At(c, AllOps \cup {"cron"}, "read") /\ ~Exists
  /\ Return(c)
  /\ local

\* Fault: a job that is disabled is started.
StartAnyJob(c) ==
  /\ At(c, {"start"}, "read") /\ Exists
  /\ \/ /\ job.kind = "manual"
        /\ co' = [co EXCEPT ![c].op = "runOnce"]
     \/ /\ job.kind # "manual"
        /\ co' = [co EXCEPT ![c].pc = "precheck", ![c].job = job]
  /\ local

StartJob(c) ==
  /\ At(c, {"start"}, "read") /\ Exists
  /\ \/ job.state = "disabled" /\ Return(c)
     \/ /\ job.state # "disabled" /\ job.kind = "manual"
        /\ co' = [co EXCEPT ![c].op = "runOnce"]
     \/ /\ job.state # "disabled" /\ job.kind # "manual"
        /\ co' = [co EXCEPT ![c].pc = "precheck", ![c].job = job]
  /\ local

StartChecked(c, ready) ==
  /\ At(c, {"start"}, "precheck")
  /\ Precheck(c, ready, ToSave(c, [co[c].job EXCEPT !.state = "active"], FALSE))
  /\ local

PauseJob(c) ==
  /\ At(c, {"pause"}, "read") /\ Exists
  /\ ToSave(c, [job EXCEPT !.state = "paused"], TRUE)
  /\ local

DisableJob(c) ==
  /\ At(c, {"disable"}, "read") /\ Exists
  /\ \/ /\ job.state = "active"
        /\ ToSave(c, [job EXCEPT !.state = "disabled"], TRUE)
     \/ /\ job.state # "active"
        /\ co' = [co EXCEPT ![c].pc = "count", ![c].job = job]
  /\ local

\* A job that was not active is stopped only if it has active tasks, and one
\* that was disabled already is not saved again.
DisableCounted(c) ==
  /\ At(c, {"disable"}, "count")
  /\ \/ /\ co[c].job.state # "disabled"
        /\ ToSave(c, [co[c].job EXCEPT !.state = "disabled"], Active # {})
        /\ UNCHANGED <<told, stopFlag, scheduled>>
     \/ /\ co[c].job.state = "disabled" /\ Active # {}
        /\ StopTasks
        /\ co' = [co EXCEPT ![c].pc = "cancel", ![c].list = Live]
     \/ /\ co[c].job.state = "disabled" /\ Active = {}
        /\ Return(c)
        /\ UNCHANGED <<told, stopFlag, scheduled>>
  /\ rowsKept /\ UNCHANGED <<job, nudge>>

EnableJob(c) ==
  /\ At(c, {"enable"}, "read") /\ Exists
  /\ IF job.state = "disabled"
     THEN ToSave(c, [job EXCEPT !.state = "paused"], FALSE) ELSE Return(c)
  /\ local

\* An edit keeps the state, except that a job run by hand is never active.
UpdateJob(c, kind, target) ==
  LET state == IF kind = "manual" /\ job.state # "disabled" THEN "paused" ELSE job.state
  IN /\ At(c, {"update"}, "read") /\ Exists
     /\ ToSave(c, [state |-> state, kind |-> kind, target |-> target],
               job.state = "active" /\ state # "active")
     /\ local

RunOnce(c) ==
  /\ At(c, {"runOnce"}, "read") /\ Exists
  /\ IF job.state # "disabled" /\ job.kind = "manual"
     THEN co' = [co EXCEPT ![c].pc = "precheck", ![c].job = job] ELSE Return(c)
  /\ local

RunOnceChecked(c, ready) ==
  /\ At(c, {"runOnce"}, "precheck")
  /\ Precheck(c, ready, Await(c, "count"))
  /\ local

\* A batch starts only when no task of the last one is active.
BatchCounted(c) ==
  /\ At(c, {"runOnce", "cron"}, "count")
  /\ IF Active = {} THEN Await(c, "final") ELSE Return(c)
  /\ local

BatchChecked(c, ready) ==
  /\ At(c, {"runOnce", "cron"}, "final")
  /\ Precheck(c, ready, ToSpawn(c, co[c].job.target))
  /\ local

StopRunOnce(c) ==
  /\ At(c, {"stopOnce"}, "read") /\ Exists
  /\ IF job.kind = "manual" THEN Await(c, "count") ELSE Return(c)
  /\ local

StopRunOnceCounted(c) ==
  /\ At(c, {"stopOnce"}, "count")
  /\ IF Active # {}
     THEN StopTasks /\ co' = [co EXCEPT ![c].pc = "cancel", ![c].list = Live]
     ELSE Return(c) /\ UNCHANGED <<told, stopFlag, scheduled>>
  /\ rowsKept /\ UNCHANGED <<job, nudge>>

DeleteJob(c) ==
  /\ At(c, {"delete"}, "read") /\ Exists
  /\ \/ /\ job.state # "paused"
        /\ ToSave(c, [job EXCEPT !.state = "paused"], TRUE)
        /\ UNCHANGED <<told, stopFlag, scheduled>>
     \/ /\ job.state = "paused"
        /\ StopTasks
        /\ co' = [co EXCEPT ![c].pc = "cancel", ![c].list = Live]
  /\ rowsKept /\ UNCHANGED <<job, nudge>>

\* Polls until no task is active, or for five seconds at most.
DeleteDrained(c) ==
  /\ co[c].pc = "drain"
  /\ IF Active = {} THEN Await(c, "drop") ELSE Return(c)
  /\ local

DropJob(c) ==
  /\ co[c].pc = "drop"
  /\ job' = [job EXCEPT !.state = "deleted"]
  /\ row' = [t \in Task |-> IF row[t] = "none" THEN "none" ELSE "gone"]
  /\ Return(c)
  /\ UNCHANGED <<phase, restarts, loop, told, stopFlag, scheduled, nudge>>

CallStep(c) ==
  \/ \E op \in Ops : Invoke(c, op)
  \/ CallFindsNothing(c) \/ StartJob(c) \/ PauseJob(c) \/ DisableJob(c)
  \/ DisableCounted(c) \/ EnableJob(c) \/ RunOnce(c) \/ BatchCounted(c)
  \/ StopRunOnce(c) \/ StopRunOnceCounted(c) \/ DeleteJob(c)
  \/ DeleteDrained(c) \/ DropJob(c)
  \/ \E kind \in Kinds, target \in Targets : UpdateJob(c, kind, target)
  \/ \E ready \in BOOLEAN :
       StartChecked(c, ready) \/ RunOnceChecked(c, ready) \/ BatchChecked(c, ready)

-----------------------------------------------------------------------------
(* JobController: cron firings and the reconcile coroutine.                *)

\* The scheduler runs at most one instance of a job's firing.
FireCron(c) ==
  /\ scheduled /\ phase = "up" /\ c # Rec /\ co[c].pc = "idle"
  /\ \A d \in Call : co[d].op # "cron"
  /\ co' = [co EXCEPT ![c].op = "cron", ![c].pc = "read"]
  /\ local

CronFired(c) ==
  /\ At(c, {"cron"}, "read") /\ Exists
  /\ IF job.state = "active" /\ job.kind # "service"
     THEN co' = [co EXCEPT ![c].pc = "count", ![c].job = job] ELSE Return(c)
  /\ local

\* A targeted reconcile runs as soon as it gets the lock.
ReconcileJob ==
  /\ nudge /\ phase # "down" /\ co[Rec].pc = "idle"
  /\ nudge' = FALSE
  /\ co' = [co EXCEPT ![Rec].op = "event", ![Rec].pc = "read"]
  /\ UNCHANGED <<phase, restarts, job, row, loop, told, stopFlag, scheduled>>

\* The periodic sweep, every five seconds.
Tick ==
  /\ phase = "up" /\ co[Rec].pc = "idle"
  /\ co' = [co EXCEPT ![Rec].op = "tick", ![Rec].pc = "read"]
  /\ local

\* Fault: the state of the job is not looked at again.
ReconcileReadAnyState ==
  /\ At(Rec, {"event", "tick"}, "read")
  /\ IF job.kind = "service"
     THEN co' = [co EXCEPT ![Rec].pc = IF Waits THEN "expire" ELSE "count",
                           ![Rec].job = job]
     ELSE Return(Rec)
  /\ UNCHANGED <<phase, restarts, job, row, loop, told, stopFlag, scheduled, nudge>>

\* Under the lock the row is read again.  A batch job only gets its schedule;
\* the sweep passes it over.
ReconcileRead ==
  /\ At(Rec, {"event", "tick"}, "read")
  /\ IF job.state = "active" /\ job.kind = "service"
     THEN co' = [co EXCEPT ![Rec].pc = IF Waits THEN "expire" ELSE "count",
                           ![Rec].job = job]
     ELSE Return(Rec)
  /\ scheduled' = IF job.state = "active" /\ job.kind # "service" /\ co[Rec].op = "event"
                  THEN job.kind = "cron" ELSE scheduled
  /\ UNCHANGED <<phase, restarts, job, row, loop, told, stopFlag, nudge>>

\* Some of the waiting tasks may have waited too long; those with a loop are
\* being tried right now and spared.
ExpiredRead(old) ==
  /\ At(Rec, {"event", "tick"}, "expire")
  /\ old \subseteq Waiting
  /\ co' = [co EXCEPT ![Rec].pc = IF old \ Live = {} THEN "running" ELSE "fail",
                      ![Rec].list = old \ Live]
  /\ local

\* mark_tasks_failed goes by the ids alone.
FailExpired ==
  /\ co[Rec].pc = "fail"
  /\ Set({t \in co[Rec].list : row[t] # "gone"}, "failed")
  /\ nudge' = (nudge \/ Serving)
  /\ co' = [co EXCEPT ![Rec].pc = "running", ![Rec].list = {}]
  /\ UNCHANGED <<phase, restarts, job, loop, told, stopFlag, scheduled>>

RunningCounted ==
  LET seats == Minus(co[Rec].job.target, Cardinality({t \in Task : row[t] = "running"}))
  IN /\ co[Rec].pc = "running"
     /\ co' = [co EXCEPT ![Rec].pc = IF seats = 0 THEN "count" ELSE "waiters",
                         ![Rec].need = seats]
     /\ local

\* The oldest waiting tasks, at most one for each seat.
WaitersRead(oldest) ==
  /\ co[Rec].pc = "waiters"
  /\ oldest \subseteq Waiting
  /\ \/ oldest = Waiting /\ Cardinality(oldest) <= co[Rec].need
     \/ Cardinality(oldest) = co[Rec].need
  /\ co' = [co EXCEPT ![Rec].pc = IF oldest = {} THEN "count" ELSE "capacity",
                      ![Rec].list = oldest]
  /\ local

\* Fault: a task that has a loop gets another one.
ResumeWaitersTwice(chosen) ==
  /\ co[Rec].pc = "capacity"
  /\ chosen \subseteq co[Rec].list
  /\ loop' = [t \in Task |-> IF t \in chosen THEN FirstStage ELSE loop[t]]
  /\ co' = [co EXCEPT ![Rec].pc = "count", ![Rec].list = {}]
  /\ UNCHANGED <<phase, restarts, job, row, told, stopFlag, scheduled, nudge>>

\* The candidate query has found environments for some of the tasks that were
\* read before it; those without a loop get one.
ResumeWaiters(chosen) ==
  /\ co[Rec].pc = "capacity"
  /\ chosen \subseteq co[Rec].list \ Live
  /\ loop' = [t \in Task |-> IF t \in chosen THEN FirstStage ELSE loop[t]]
  /\ co' = [co EXCEPT ![Rec].pc = "count", ![Rec].list = {}]
  /\ UNCHANGED <<phase, restarts, job, row, told, stopFlag, scheduled, nudge>>

\* Fault: tasks that wait for their environment are not counted.
ActiveCountedRunning ==
  LET missing == Minus(co[Rec].job.target, Cardinality({t \in Task : row[t] = "running"}))
  IN /\ At(Rec, {"event", "tick"}, "count")
     /\ IF missing = 0 THEN Return(Rec)
        ELSE co' = [co EXCEPT ![Rec].pc = "final", ![Rec].need = missing]
     /\ local

\* Fault: finished tasks are counted too.
ActiveCountedAll ==
  LET missing == Minus(co[Rec].job.target, Cardinality({t \in Task : row[t] # "none"}))
  IN /\ At(Rec, {"event", "tick"}, "count")
     /\ IF missing = 0 THEN Return(Rec)
        ELSE co' = [co EXCEPT ![Rec].pc = "final", ![Rec].need = missing]
     /\ local

ActiveCounted ==
  LET missing == Minus(co[Rec].job.target, Cardinality(Active))
  IN /\ At(Rec, {"event", "tick"}, "count")
     /\ IF missing = 0 THEN Return(Rec)
        ELSE co' = [co EXCEPT ![Rec].pc = "final", ![Rec].need = missing]
     /\ local

ScaleUpChecked(ready) ==
  /\ At(Rec, {"event", "tick"}, "final")
  /\ Precheck(Rec, ready, ToSpawn(Rec, co[Rec].need))
  /\ local

\* wait_for cancels the sweep at whatever it awaits and frees the lock.  A
\* database call that is already in the executor is carried out all the same.
TickCancelled ==
  /\ co[Rec].op = "tick" /\ co[Rec].pc # "idle"
  /\ TickTimesOut \/ phase = "stopping"
  /\ \/ UNCHANGED <<job, row>>
     \/ /\ co[Rec].pc = "save" /\ job' = co[Rec].job /\ UNCHANGED row
     \/ /\ co[Rec].pc = "spawn" /\ Exists /\ UNCHANGED job
        /\ \E t \in Task : row[t] = "none" /\ Set({t}, "pending")
     \/ co[Rec].pc = "cancel" /\ Set(Cancelled(Rec), "cancelled") /\ UNCHANGED job
     \/ /\ co[Rec].pc = "fail" /\ UNCHANGED job
        /\ Set({t \in co[Rec].list : row[t] # "gone"}, "failed")
  /\ Return(Rec)
  /\ UNCHANGED <<phase, restarts, loop, told, stopFlag, scheduled, nudge>>

RecStep ==
  \/ ReconcileRead \/ FailExpired \/ RunningCounted \/ ActiveCounted
  \/ \E tasks \in SUBSET Task :
       ExpiredRead(tasks) \/ WaitersRead(tasks) \/ ResumeWaiters(tasks)
  \/ \E ready \in BOOLEAN : ScaleUpChecked(ready)

-----------------------------------------------------------------------------
(* The process: start-up with its recovery, shutdown, and the end.         *)

\* Fault: only running tasks are taken for zombies.
RecoverRunning ==
  /\ phase = "down" /\ phase' = "boot"
  /\ row' = [t \in Task |-> IF row[t] = "running" THEN "failed" ELSE row[t]]
  /\ co' = [co EXCEPT ![Rec].op = "boot", ![Rec].pc = "boot"]
  /\ UNCHANGED <<restarts, job, loop, told, stopFlag, scheduled, nudge>>

\* Fault: every task of the last run is taken for a zombie.
RecoverAll ==
  /\ phase = "down" /\ phase' = "boot"
  /\ row' = [t \in Task |-> IF row[t] \in {"none", "waiting", "gone"} THEN row[t] ELSE "failed"]
  /\ co' = [co EXCEPT ![Rec].op = "boot", ![Rec].pc = "boot"]
  /\ UNCHANGED <<restarts, job, loop, told, stopFlag, scheduled, nudge>>

\* _recover_zombies: what was in flight is failed, what waited keeps waiting.
Recover ==
  /\ phase = "down" /\ phase' = "boot"
  /\ row' = [t \in Task |-> IF t \in Active \ Waiting THEN "failed" ELSE row[t]]
  /\ co' = [co EXCEPT ![Rec].op = "boot", ![Rec].pc = "boot"]
  /\ UNCHANGED <<restarts, job, loop, told, stopFlag, scheduled, nudge>>

\* _bootstrap_active_jobs: an active job is checked and then reconciled.
Bootstrap ==
  /\ At(Rec, {"boot"}, "boot")
  /\ IF job.state = "active"
     THEN co' = [co EXCEPT ![Rec].pc = "precheck", ![Rec].job = job] ELSE Return(Rec)
  /\ local

Bootstrapped(ready) ==
  /\ At(Rec, {"boot"}, "precheck")
  /\ Precheck(Rec, ready, co' = [co EXCEPT ![Rec].op = "event", ![Rec].pc = "read"])
  /\ local

BootDone ==
  /\ phase = "boot" /\ co[Rec].pc = "idle"
  /\ phase' = "up"
  /\ UNCHANGED <<restarts, job, row, loop, told, stopFlag, scheduled, nudge, co>>

\* stop: no more events, firings or sweeps; the loops are waited for.
Shutdown ==
  /\ phase = "up" /\ restarts < MaxRestart
  /\ phase' = "stopping" /\ scheduled' = FALSE
  /\ UNCHANGED <<restarts, job, row, loop, told, stopFlag, nudge, co>>

\* The end of the process, by a crash or when the loops have ended: only the
\* rows are left.
ProcessEnds ==
  /\ phase # "down" /\ restarts < MaxRestart
  /\ phase' = "down" /\ restarts' = restarts + 1
  /\ loop' = [t \in Task |-> "none"]
  /\ told' = {} /\ stopFlag' = FALSE /\ scheduled' = FALSE /\ nudge' = FALSE
  /\ co' = [c \in Co |-> Idle]
  /\ UNCHANGED <<job, row>>

SystemStep ==
  \/ \E t \in Task : TaskStep(t)
  \/ \E c \in Co, t \in Task : Dispatch(c, t)
  \/ \E c \in Co : DispatchFails(c) \/ DispatchCapped(c) \/ SaveJob(c)
                 \/ CancelPending(c)
  \/ RecStep \/ Bootstrap \/ BootDone \/ ReconcileJob \/ Tick
  \/ \E ready \in BOOLEAN : Bootstrapped(ready)

Next ==
  \/ SystemStep
  \/ \E c \in Call : CallStep(c) \/ FireCron(c) \/ CronFired(c)
  \/ Recover \/ TickCancelled \/ Shutdown \/ ProcessEnds

Spec == Init /\ [][Next]_vars

\* What is awaited completes: a task's provider, module and saves within their
\* timeouts, the database calls, the timers.  Operators need not do anything,
\* and the provider's runtime is ready again and again.
Own(c) ==
  \/ SaveJob(c) \/ CancelPending(c) \/ DispatchFails(c) \/ DispatchCapped(c)
  \/ \E t \in Task : Dispatch(c, t)
Answer(c) == co[c].pc # "idle" /\ (Own(c) \/ CallStep(c) \/ CronFired(c))
Fairness ==
  /\ WF_vars(Recover) /\ WF_vars(Bootstrap) /\ WF_vars(BootDone)
  /\ WF_vars(\E ready \in BOOLEAN : Bootstrapped(ready))
  /\ WF_vars(ReconcileJob) /\ WF_vars(Tick)
  /\ WF_vars(RecStep \/ Own(Rec)) /\ SF_vars(ScaleUpChecked(TRUE))
  /\ \A t \in Task : WF_vars(TaskStep(t))
  /\ \A c \in Call : WF_vars(Answer(c))

FairSpec == Spec /\ Fairness

-----------------------------------------------------------------------------
(* Properties *)

\* The concurrency targets that may be in force.
Quotas == Targets \cup {InitJob.target}
Closed == {t \in Task : row[t] \in Terminal \cup {"gone"}}

Quota == INSTANCE TaskQuota WITH Quotas <- Quotas, open <- Active, closed <- Closed

\* Reconciling never opens more tasks than the target in force, and opens and
\* closes every task once, whatever edits, failures and restarts come between
\* (JobController._reconcile_service_job counts under a lock, then dispatches).
KeepsQuota == Quota!Spec

\* Success or failure, once saved by the loop of a task, is never revised: not
\* by a stop that is still cancelling rows, nor by recovery or a late save.
VerdictIsFinal ==
  [][\A t \in Task : row[t] \in {"succeeded", "failed"} => row'[t] \in {row[t], "gone"}]_vars

\* While the application serves, a task that is neither waiting nor finished
\* has a loop that drives it on; recovery sees to those a crash left behind.
NoLostTask == Serving => Active \ Waiting \subseteq Live

\* A module runs only for a task whose row says so, so that counts, recovery
\* and stops see it; only deleting the job takes the row away.
RunningIsRecorded ==
  \A t \in Task : loop[t] = "running" => row[t] \in {"running", "gone"}

\* A loop is never replaced by a second one for the same task, although
\* waiting tasks are resumed from a list read some awaits earlier.
OneLoop ==
  [][\A t \in Live : loop[t] # "acquiring" => loop'[t] # "acquiring"]_vars

\* A call or the reconcile is going, or may be going, to write back a row that it read
\* while the job was not disabled.
Outdated(c) ==
  \/ co[c].pc = "save" /\ co[c].job.state # "disabled"
  \/ /\ co[c].op \in {"start", "tick", "event", "boot"}
     /\ co[c].pc \notin {"idle", "read", "boot", "spawn", "cancel"}
Locked == job.state = "disabled" /\ \A c \in Co : ~Outdated(c)

\* Once nobody has an older copy of its row, a disabled job stays disabled until it is
\* enabled, paused or deleted: starts, edits, batches, firings, sweeps and restarts
\* do not bring it back.
StaysLocked ==
  [][Locked => \/ Locked' \/ ~Exists'
               \/ \E c \in Call : At(c, {"enable", "pause", "delete"}, "save")']_vars

CallsIdle == \A c \in Call : co[c].pc = "idle"
Settled == phase = "up" /\ job.state = "paused" /\ CallsIdle

\* A service job that stays active comes back to its target again and again,
\* through failures of its tasks and blocked prechecks (events and sweeps).
Refills ==
  <>[](phase = "up" /\ job.state = "active" /\ CallsIdle) =>
    []<>(Cardinality(Active) >= job.target \/ \A t \in Task : row[t] # "none")

\* A job that stays paused comes to rest: no reconcile, event or sweep keeps
\* starting loops for it.
PauseQuiesces == <>[]Settled => <>[](Live = {})

(* What documents and tests say and the code does not keep.                *)

\* usage.md: a disabled job is locked and cannot be started.
DisabledStaysLocked == [][job.state = "disabled" => job'.state # "active"]_vars

\* usage.md: a paused job starts no new task.
PausedStartsNothing ==
  [][\A t \in Task : Settled /\ loop[t] = "entering" => loop'[t] # "running"]_vars

\* resume_task: what is resumed is a task that exists and waits.
ResumesOnlyWaiting ==
  [][\A t \in Task : t \notin Live /\ loop'[t] # "none" /\ row[t] # "none"
                     => row[t] = "waiting"]_vars

=============================================================================
