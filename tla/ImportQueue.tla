----------------------------- MODULE ImportQueue -----------------------------
(***************************************************************************)
(* Existing environments of a provider imported into the host and run under *)
(* one manual job (ExistingEnvImportJobService): a call imports its          *)
(* environments, dispatches as many tasks as the job has free slots, and     *)
(* leaves the others to a queue in the background.  Each task is watched     *)
(* until it ends, and its outcome is marked on its environment.  The same     *)
(* job is run once, stopped, edited and deleted meanwhile.                   *)
(*                                                                           *)
(* An environment has at most one task here: the dialog offers only          *)
(* environments that have not been imported.                                 *)
(***************************************************************************)
EXTENDS Integers, FiniteSets, FiniteSetsExt

CONSTANTS
  Env,          \* environments of the provider
  Import,       \* calls of import_and_run_with_job
  Targets,      \* values of concurrency_target
  MaxTarget     \* bound on them

ASSUME ImportAssumption ==
  /\ IsFiniteSet(Env) /\ IsFiniteSet(Import)
  /\ MaxTarget \in Nat /\ Targets \subseteq 1..MaxTarget /\ Targets # {}

VARIABLES
  job,      \* the row of the job, and whether its module and workflow are valid
  row,      \* row[e]: the status of the task of e in the database
  loop,     \* environments whose task has a live loop in the dispatcher
  others,   \* active tasks of the job that run_job_once dispatched
  stop,     \* the dispatcher is asked to stop the job
  mark,     \* mark[e]: the outcome noted on the environment
  watch,    \* environments whose task is watched
  taken,    \* environments that were imported
  lost,     \* imported, and given up: error, invalid or deleted job, crash
  q,        \* q[i]: the progress of a call and of its queue
  once,     \* tasks that run_job_once still has to dispatch
  deleting  \* the progress of delete_job

host == <<mark, watch, taken, lost>>
user == <<once, deleting>>
tasks == <<row, loop, others, stop>>
vars == <<job, tasks, host, q, user>>

Active == {"pending", "running"}
Terminal == {"succeeded", "failed", "cancelled"}
NoQueue == [pc |-> "idle", envs |-> {}, todo |-> {}, batch |-> {}, now |-> {},
            target |-> 1, first |-> TRUE]

TypeOK ==
  /\ job \in [there : BOOLEAN, valid : BOOLEAN, target : Targets]
  /\ row \in [Env -> Active \cup Terminal \cup {"none", "deleted"}]
  /\ loop \subseteq Env /\ others \in 0..MaxTarget /\ stop \in BOOLEAN
  /\ mark \in [Env -> Terminal \cup {"none", "running"}]
  /\ watch \subseteq taken /\ taken \subseteq Env /\ lost \subseteq taken
  /\ q \in [Import -> [pc : {"idle", "importing", "counting", "dispatching", "marking",
                             "polling", "ended"},
                       envs : SUBSET Env, todo : SUBSET Env, batch : SUBSET Env,
                       now : SUBSET Env, target : Targets \cup {1}, first : BOOLEAN]]
  /\ once \in 0..MaxTarget /\ deleting \in {"no", "waiting", "rows"}

Init ==
  /\ job \in [there : {TRUE}, valid : {TRUE}, target : Targets]
  /\ row = [e \in Env |-> "none"] /\ loop = {} /\ others = 0 /\ stop = FALSE
  /\ mark = [e \in Env |-> "none"] /\ watch = {} /\ taken = {} /\ lost = {}
  /\ q = [i \in Import |-> NoQueue]
  /\ once = 0 /\ deleting = "no"

-----------------------------------------------------------------------------
(* The call and its queue.                                                 *)

ActiveOf(S) == Cardinality({e \in S : row[e] \in Active})
ActiveTasks == ActiveOf(Env) + others
At(i, pc) == q[i].pc = pc
Goto(i, pc) == q' = [q EXCEPT ![i].pc = pc]

\* The call or its queue ends and leaves the environments of S as they are.
GivesUp(i, S) == Goto(i, "ended") /\ lost' = lost \cup (S \cap taken)

StartImport(i) ==
  /\ At(i, "idle") /\ job.there /\ job.valid
  /\ \E S \in SUBSET (Env \ UNION {q[k].envs : k \in Import}) : S # {} /\
       q' = [q EXCEPT ![i] = [@ EXCEPT !.pc = "importing", !.envs = S, !.todo = S,
                                       !.target = job.target]]
  /\ UNCHANGED <<job, tasks, host, user>>

\* Environments are imported one after the other; an error ends the call.
ImportEnv(i) ==
  /\ At(i, "importing")
  /\ \/ \E e \in q[i].todo \ taken :
          /\ taken' = taken \cup {e}
          /\ Goto(i, IF q[i].todo \subseteq taken' THEN "counting" ELSE "importing")
          /\ UNCHANGED lost
     \/ GivesUp(i, q[i].todo) /\ UNCHANGED taken
  /\ UNCHANGED <<job, tasks, mark, watch, user>>

SlotsIgnoreRunning(i) == q[i].target

Slots(i) == IF q[i].target > ActiveTasks THEN q[i].target - ActiveTasks ELSE 0

\* The job was read before, the count is of now, and the dispatches come later.
Count(i) ==
  /\ At(i, "counting")
  /\ IF Slots(i) = 0 /\ ~q[i].first
     THEN Goto(i, "polling")
     ELSE \E B \in kSubset(Min({Slots(i), Cardinality(q[i].todo)}), q[i].todo) :
            q' = [q EXCEPT ![i] = [@ EXCEPT !.pc = "dispatching", !.batch = B,
                                            !.todo = q[i].todo \ B]]
  /\ UNCHANGED <<job, tasks, host, user>>

\* TaskDispatcher.dispatch writes the row of the task, then starts its loop.
Dispatch(i) ==
  /\ At(i, "dispatching") /\ job.there
  /\ \E e \in q[i].batch :
       /\ row' = [row EXCEPT ![e] = "pending"] /\ loop' = loop \cup {e}
       /\ q' = [q EXCEPT ![i] = [@ EXCEPT !.pc = "marking", !.batch = q[i].batch \ {e},
                                       !.now = {e}]]
  /\ UNCHANGED <<job, others, stop, host, user>>

\* An error ends the call, and costs the queue in the background one environment;
\* it is marked unless the error came before the dispatch.
DispatchFails(i) ==
  /\ At(i, "dispatching")
  /\ \E e \in q[i].batch, m \in {"failed", "none"} :
       /\ mark' = [mark EXCEPT ![e] = m]
       /\ IF q[i].first
          THEN GivesUp(i, q[i].todo \cup (IF m = "failed" THEN q[i].batch \ {e} ELSE q[i].batch))
          ELSE /\ q' = [q EXCEPT ![i].batch = @ \ {e}]
               /\ lost' = IF m = "failed" THEN lost ELSE lost \cup {e}
  /\ UNCHANGED <<job, tasks, watch, taken, user>>

MarkRunning(i) ==
  /\ At(i, "marking")
  /\ \E e \in q[i].now :
       \/ /\ mark' = [mark EXCEPT ![e] = "running"] /\ watch' = watch \cup {e}
          /\ q' = [q EXCEPT ![i] = [@ EXCEPT !.pc = "dispatching", !.now = {}]]
          /\ UNCHANGED lost
       \/ /\ IF q[i].first
             THEN GivesUp(i, q[i].todo \cup q[i].batch \cup {e})
             ELSE /\ q' = [q EXCEPT ![i] = [@ EXCEPT !.pc = "dispatching", !.now = {}]]
                  /\ lost' = lost \cup {e}
          /\ UNCHANGED <<mark, watch>>
  /\ UNCHANGED <<job, tasks, taken, user>>

BatchEndsQueue(i) ==
  /\ At(i, "dispatching") /\ q[i].batch = {}
  /\ Goto(i, "ended")
  /\ UNCHANGED <<job, tasks, host, user>>

\* What is left is for the queue in the background.
BatchDone(i) ==
  /\ At(i, "dispatching") /\ q[i].batch = {}
  /\ IF q[i].todo = {} THEN Goto(i, "ended")
     ELSE q' = [q EXCEPT ![i] = [@ EXCEPT !.pc = "polling", !.first = FALSE]]
  /\ UNCHANGED <<job, tasks, host, user>>

\* The queue reads the job again before every batch, and stops if it is gone or
\* no longer valid.
Poll(i) ==
  /\ At(i, "polling")
  /\ IF job.there /\ job.valid
     THEN /\ q' = [q EXCEPT ![i] = [@ EXCEPT !.pc = "counting", !.target = job.target]]
          /\ UNCHANGED lost
     ELSE GivesUp(i, q[i].todo)
  /\ UNCHANGED <<job, tasks, mark, watch, taken, user>>

-----------------------------------------------------------------------------
(* Tasks, as far as the queue sees them, and their watchers.               *)

TaskStarts(e) ==
  /\ e \in loop /\ row[e] = "pending"
  /\ \E s \in IF stop THEN {"cancelled"} ELSE {"running", "failed"} : row' = [row EXCEPT ![e] = s]
  /\ UNCHANGED <<job, loop, others, stop, host, q, user>>

TaskEnds(e) ==
  /\ e \in loop /\ row[e] = "running"
  /\ \E s \in {"succeeded", "failed"} \cup (IF stop THEN {"cancelled"} ELSE {}) :
       row' = [row EXCEPT ![e] = s]
  /\ UNCHANGED <<job, loop, others, stop, host, q, user>>

\* _cleanup_runtime_refs: the last loop of the job takes the stop request along.
LoopEnds(e) ==
  /\ e \in loop /\ row[e] \notin Active
  /\ loop' = loop \ {e}
  /\ stop' = (stop /\ (loop' # {} \/ others > 0))
  /\ UNCHANGED <<job, row, others, host, q, user>>

OtherEnds ==
  /\ others > 0 /\ others' = others - 1
  /\ stop' = (stop /\ (loop # {} \/ others' > 0))
  /\ UNCHANGED <<job, row, loop, host, q, user>>

\* A watcher notes the outcome; an error ends it.
Watch(e) ==
  /\ e \in watch /\ row[e] \in Terminal
  /\ watch' = watch \ {e}
  /\ \/ mark' = [mark EXCEPT ![e] = row[e]] /\ UNCHANGED lost
     \/ lost' = lost \cup {e} /\ UNCHANGED mark
  /\ UNCHANGED <<job, tasks, taken, q, user>>

-----------------------------------------------------------------------------
(* Operations on the job, and the end of the process.                      *)

RunOnce ==
  /\ job.there /\ once = 0 /\ ActiveTasks = 0
  /\ once' = job.target
  /\ UNCHANGED <<job, tasks, host, q, deleting>>

RunOnceDispatches ==
  /\ once > 0
  /\ IF job.there THEN once' = once - 1 /\ others' = others + 1
                  ELSE once' = 0 /\ UNCHANGED others
  /\ UNCHANGED <<job, row, loop, stop, host, q, deleting>>

StopOnce ==
  /\ job.there /\ ActiveTasks > 0 /\ stop' = TRUE
  /\ UNCHANGED <<job, row, loop, others, host, q, user>>

\* The job is edited, or its module is disabled, removed or enabled.
Edit ==
  /\ job.there
  /\ \E t \in Targets, v \in BOOLEAN : job' = [job EXCEPT !.target = t, !.valid = v]
  /\ UNCHANGED <<tasks, host, q, user>>

DeleteBegins ==
  /\ job.there /\ deleting = "no"
  /\ deleting' = "waiting" /\ stop' = TRUE
  /\ UNCHANGED <<job, row, loop, others, host, q, once>>

\* It waits for the active tasks, for a limited time.
DeleteWaits ==
  /\ deleting = "waiting"
  /\ \/ ActiveTasks = 0 /\ deleting' = "rows"
     \/ ActiveTasks > 0 /\ deleting' = "no"
  /\ UNCHANGED <<job, tasks, host, q, once>>

\* The rows of the tasks go, also those that are watched or were just added.
DeleteRows ==
  /\ deleting = "rows" /\ deleting' = "no"
  /\ job' = [job EXCEPT !.there = FALSE]
  /\ row' = [e \in Env |-> IF row[e] = "none" THEN "none" ELSE "deleted"]
  /\ others' = 0
  /\ lost' = lost \cup {e \in taken : row[e] # "none" /\ mark[e] \notin Terminal}
  /\ UNCHANGED <<loop, stop, mark, watch, taken, q, once>>

\* The queues and watchers are in memory only; the next start fails the tasks.
Restart ==
  /\ row' = [e \in Env |-> IF row[e] \in Active THEN "failed" ELSE row[e]]
  /\ loop' = {} /\ others' = 0 /\ stop' = FALSE /\ watch' = {}
  /\ lost' = lost \cup {e \in taken : mark[e] \notin Terminal}
  /\ q' = [i \in Import |-> IF At(i, "idle") THEN q[i] ELSE [q[i] EXCEPT !.pc = "ended"]]
  /\ once' = 0 /\ deleting' = "no"
  /\ UNCHANGED <<job, mark, taken>>

Queue(i) ==
  \/ ImportEnv(i) \/ Count(i) \/ Dispatch(i) \/ DispatchFails(i) \/ MarkRunning(i)
  \/ BatchDone(i) \/ Poll(i)
Task(e) == TaskStarts(e) \/ TaskEnds(e) \/ LoopEnds(e)

Next ==
  \/ \E i \in Import : StartImport(i) \/ Queue(i)
  \/ \E e \in Env : Task(e) \/ Watch(e)
  \/ OtherEnds \/ RunOnce \/ RunOnceDispatches \/ StopOnce \/ Edit
  \/ DeleteBegins \/ DeleteWaits \/ DeleteRows \/ Restart

\* The event loop serves the queues, the tasks and their watchers; a user need
\* not do anything.
Fairness ==
  /\ \A i \in Import : WF_vars(Queue(i))
  /\ \A e \in Env : WF_vars(Task(e) \/ Watch(e))

Spec == Init /\ [][Next]_vars
FairSpec == Spec /\ Fairness

-----------------------------------------------------------------------------
(* What must hold.                                                         *)

\* module-config-runtime-data-contract.md:130, for one import: whatever ends,
\* starts or is edited after it counted, its tasks that still run and those of
\* the batch it dispatches fit in the target that it read for that batch.
ImportQuota ==
  \A i \in Import : q[i].pc \in {"dispatching", "marking"} =>
    ActiveOf(q[i].envs) + Cardinality(q[i].batch) <= q[i].target

\* Every imported environment gets an outcome, also while the job is stopped and
\* edited, unless its import gave up, the job was deleted or the process ended;
\* a user who runs the job once again and again keeps the queue waiting.
Settled(e) == mark[e] \in Terminal \/ e \in lost
EnvsSettle == <>[](once = 0 /\ others = 0) => \A e \in Env : e \in taken ~> Settled(e)

-----------------------------------------------------------------------------
(* What is said of the code and does not hold.                             *)

\* module-config-runtime-data-contract.md:130: concurrency_target bounds the
\* tasks of the job; two imports, or an import and a run, exceed it.
JobQuota == ActiveTasks <= MaxTarget
=============================================================================
