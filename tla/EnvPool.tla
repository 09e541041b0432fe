-------------------------------- MODULE EnvPool --------------------------------
(***************************************************************************)
(* One environment of the runtime environment manager (REM) of crawler4j:  *)
(* its row in the state database, the Environment object the pool keeps of *)
(* it, and the coroutines that work on it.  Tasks lease it, start it, use  *)
(* it and release it; operators start, stop, pause, resume, destroy, clean *)
(* up and reload; start-up recovers what a crash left behind.  What the    *)
(* pool and the lifecycle locks keep is keyed by the id of an environment, *)
(* so one environment stands for all of them.                              *)
(*                                                                         *)
(* A step is the completion of what a coroutine awaits (the provider, its  *)
(* runtime, the lifecycle lock) with the code that follows, up to the next *)
(* await.  The pool's own lock is never held across an await.              *)
(***************************************************************************)
EXTENDS Naturals, FiniteSets

CONSTANTS
  Task,        \* the tasks that want the environment
  Operator,    \* the operations that can be in progress at once
  Boot,        \* start-up and its recovery
  NoCo,        \* nobody: no lease, the lock is free
  Ops,         \* the operations that are ever asked for
  Fixed,       \* TRUE if the job names its environment
  Gens,        \* bound on the objects alive at once: 1 means no reload
  MaxRestart   \* bound on the number of times the process ends

Co == Task \cup Operator \cup {Boot}
Gen == 1..Gens

AllOps == {"start", "stop", "pause", "resume", "destroy", "clean"}
Status == {"ready", "busy", "running", "paused", "terminating"}
Env == [status : Status, lease : Task \cup {NoCo}]
Absent == [status |-> "absent", lease |-> NoCo]
NoSnap == [status |-> "none", lease |-> NoCo]

\* Where a coroutine stands: a task that has a lease, asks for the lifecycle
\* lock, or uses the environment; and whatever is awaited under the lock.
Locked == {"runtime", "look", "open", "connect", "check", "close", "destroy"}
CoState == [op : AllOps \cup {"none", "recycle"},
            pc : {"idle", "leased", "want", "held", "saving"} \cup Locked,
            ref : 0..Gens, orig : Status]

ASSUME PoolAssumption ==
  /\ IsFiniteSet(Task) /\ Task \cap Operator = {}
  /\ Boot \notin Task \cup Operator /\ NoCo \notin Co
  /\ Ops \subseteq AllOps /\ Fixed \in BOOLEAN
  /\ Gens \in Nat \ {0} /\ MaxRestart \in Nat

VARIABLES
  phase,    \* of the process: "down", "recover", "zombies" or "up"
  restarts, \* how often the process has ended
  stuck,    \* the row of a task that was in flight names the environment
  row,      \* the row of the environment in the database
  obj,      \* obj[g]: the g-th Environment object made from the row
  cur,      \* the object that is in the pool, 0 if there is none
  snap,     \* what a reload in another thread has read and not yet put in
  lock,     \* who holds the lifecycle lock
  co        \* co[c]: what coroutine c runs, awaits, works on and may restore

vars == <<phase, restarts, stuck, row, obj, cur, snap, lock, co>>
process == <<phase, restarts, stuck>>

Idle == [op |-> "none", pc |-> "idle", ref |-> 0, orig |-> "ready"]
Fresh == [status |-> "ready", lease |-> NoCo]

\* A coroutine that is to do op, with object g, when it gets the lifecycle lock.
Wants(op, g) == [op |-> op, pc |-> "want", ref |-> g, orig |-> "ready"]

At(c, op, pc) == co[c].op \in op /\ co[c].pc = pc

\* The tasks the environment is bound to, and those that own a lease: the rest
\* are giving it back.  A task that saves its verdict has let go of it.
Bound == {t \in Task : co[t].pc \notin {"idle", "saving"}}
Holders == {t \in Bound : co[t].op # "recycle"}

TypeOK ==
  /\ phase \in {"down", "recover", "zombies", "up"}
  /\ restarts \in 0..MaxRestart /\ stuck \in BOOLEAN
  /\ row \in Env \cup {Absent}
  /\ obj \in [Gen -> Env]
  /\ cur \in 0..Gens
  /\ snap \in Env \cup {Absent, NoSnap}
  /\ lock \in Co \cup {NoCo}
  /\ co \in [Co -> CoState]

\* An environment that was created and never used yet.
Init ==
  /\ phase = "down" /\ restarts = 0 /\ stuck = FALSE
  /\ row = Fresh /\ obj = [g \in Gen |-> Fresh] /\ cur = 0
  /\ snap = NoSnap /\ lock = NoCo
  /\ co = [c \in Co |-> Idle]

-----------------------------------------------------------------------------
(* Pieces that the operations share.                                       *)

\* update_status: object and row of what is in the pool now, under the pool's
\* lock; o is the objects as the step has changed them so far.
SetStatusOf(o, status) ==
  /\ snap = NoSnap
  /\ IF cur = 0 THEN obj' = o /\ UNCHANGED row
     ELSE /\ obj' = [o EXCEPT ![cur].status = status]
          /\ row' = [status |-> status, lease |-> o[cur].lease]

SetStatus(status) == SetStatusOf(obj, status)

\* The operation goes on under the lock, awaiting at pc what it asked for.
Goto(c, pc) == co' = [co EXCEPT ![c].pc = pc]
GotoSaving(c, pc, status) == co' = [co EXCEPT ![c].pc = pc, ![c].orig = status]

\* The operation ends and frees the lock.  A task that has started, or failed
\* to, still owns its lease; one that has recycled goes on to save its verdict.
After(c) ==
  IF c \notin Task THEN Idle
  ELSE [Idle EXCEPT !.pc = IF co[c].op = "start" THEN "held" ELSE "saving"]

Return(c) == lock' = NoCo /\ co' = [co EXCEPT ![c] = After(c)]

UnderLock(c, op, pc) == At(c, op, pc) /\ UNCHANGED <<process, snap>>

-----------------------------------------------------------------------------
(* LeaseManager and the part of ExecutionRunner that leases and releases.  *)

\* Fault: the new lease is not written to the row.
AcquireUnsaved(t) ==
  /\ phase = "up" /\ co[t].pc = "idle" /\ cur # 0
  /\ obj[cur] = Fresh
  /\ obj' = [obj EXCEPT ![cur] = [status |-> "busy", lease |-> t]]
  /\ co' = [co EXCEPT ![t].pc = "leased"]
  /\ UNCHANGED <<process, row, cur, snap, lock>>

\* Fault: the lease is looked at and the status is not.
AcquireUnready(t) ==
  /\ phase = "up" /\ co[t].pc = "idle" /\ cur # 0
  /\ obj[cur].lease = NoCo
  /\ obj' = [obj EXCEPT ![cur] = [status |-> "busy", lease |-> t]]
  /\ row' = obj'[cur]
  /\ co' = [co EXCEPT ![t].pc = "leased"]
  /\ UNCHANGED <<process, cur, snap, lock>>

\* acquire: only a ready environment without a lease, which becomes busy.
Acquire(t) ==
  /\ phase = "up" /\ co[t].pc = "idle" /\ cur # 0
  /\ obj[cur] = Fresh
  /\ obj' = [obj EXCEPT ![cur] = [status |-> "busy", lease |-> t]]
  /\ row' = obj'[cur]
  /\ co' = [co EXCEPT ![t].pc = "leased"]
  /\ UNCHANGED <<process, cur, snap, lock>>

\* claim_created_env: a job that names its environment also takes it when it
\* is running without a lease.
ClaimRunning(t) ==
  /\ Fixed /\ phase = "up" /\ co[t].pc = "idle" /\ cur # 0
  /\ obj[cur] = [status |-> "running", lease |-> NoCo]
  /\ obj' = [obj EXCEPT ![cur].lease = t]
  /\ row' = obj'[cur]
  /\ co' = [co EXCEPT ![t].pc = "leased"]
  /\ UNCHANGED <<process, cur, snap, lock>>

\* The row of the task is saved and the environment is to be started.
AskStart(t) ==
  /\ co[t].pc = "leased"
  /\ co' = [co EXCEPT ![t].op = "start", ![t].pc = "want"]
  /\ UNCHANGED <<process, row, obj, cur, snap, lock>>

\* Fault: the environment is ready before it is recycled.
ReleaseReady(t) ==
  /\ co[t].pc \in {"leased", "held"} /\ cur # 0
  /\ SetStatusOf([obj EXCEPT ![cur].lease = NoCo], "ready")
  /\ co' = [co EXCEPT ![t] = Wants("recycle", cur)]
  /\ UNCHANGED <<process, cur, snap, lock>>

\* release: the lease of the object in the pool is cleared, whosever it is and
\* in memory only; then the environment is to be recycled.
Release(t) ==
  /\ co[t].pc \in {"leased", "held"}
  /\ IF cur = 0 THEN co' = [co EXCEPT ![t] = [Idle EXCEPT !.pc = "saving"]] /\ UNCHANGED obj
     ELSE /\ obj' = [obj EXCEPT ![cur].lease = NoCo]
          /\ co' = [co EXCEPT ![t] = Wants("recycle", cur)]
  /\ UNCHANGED <<process, row, cur, snap, lock>>

\* Fault: a cancelled recycle keeps the lock.
RecycleTimesOutLocked(t) ==
  /\ co[t].op = "recycle"
  /\ co' = [co EXCEPT ![t] = After(t)]
  /\ UNCHANGED <<process, row, obj, cur, snap, lock>>

\* The 60 s for the release are over while the task waits for the lock or the
\* provider: the environment stays as it is.
RecycleTimesOut(t) ==
  /\ co[t].op = "recycle"
  /\ co' = [co EXCEPT ![t] = After(t)]
  /\ lock' = IF lock = t THEN NoCo ELSE lock
  /\ UNCHANGED <<process, row, obj, cur, snap>>

Finish(t) ==
  /\ co[t].pc = "saving"
  /\ co' = [co EXCEPT ![t] = Idle]
  /\ UNCHANGED <<process, row, obj, cur, snap, lock>>

LeaseStep(t) ==
  \/ Acquire(t) \/ ClaimRunning(t) \/ AskStart(t) \/ Release(t) \/ RecycleTimesOut(t)
  \/ Finish(t)

-----------------------------------------------------------------------------
(* EnvironmentManager: the operations under the lifecycle lock.            *)

\* An operator asks for an operation; a clean-up looks at the environment
\* before it asks for the lock, and not again.
Ask(c, op) ==
  /\ phase = "up" /\ co[c].pc = "idle"
  /\ op = "clean" => cur # 0 /\ obj[cur] \in {Fresh, [Fresh EXCEPT !.status = "paused"]}
  /\ co' = [co EXCEPT ![c].op = op, ![c].pc = "want"]
  /\ UNCHANGED <<process, row, obj, cur, snap, lock>>

\* What an operation does first when it gets the lock, and what it awaits.
Enters(c, pc, status) ==
  /\ lock' = c
  /\ SetStatus(status)
  /\ co' = [co EXCEPT ![c].pc = pc, ![c].ref = cur, ![c].orig = obj[cur].status]

\* Fault: the lock is taken while somebody holds it.
LocksAnyway(c, op) == co[c].pc = "want" /\ co[c].op \in op
                      /\ UNCHANGED <<process, cur, snap>>

Locks(c, op) == co[c].pc = "want" /\ co[c].op \in op /\ lock = NoCo
                /\ UNCHANGED <<process, cur, snap>>

\* Every operation but a recycle finds out now that the environment is gone.
EnterGone(c) ==
  /\ Locks(c, AllOps) /\ cur = 0
  /\ Return(c)
  /\ UNCHANGED <<row, obj>>

\* An environment that runs is started already; otherwise the provider's
\* runtime is made sure of.
EnterStart(c) ==
  /\ Locks(c, {"start"}) /\ cur # 0
  /\ IF obj[cur].status = "running" THEN Return(c)
     ELSE lock' = c /\ co' = [co EXCEPT ![c].pc = "runtime", ![c].ref = cur]
  /\ UNCHANGED <<row, obj>>

EnterStop(c) == Locks(c, {"stop"}) /\ cur # 0 /\ Enters(c, "close", "ready")
EnterDestroy(c) ==
  Locks(c, {"destroy", "clean"}) /\ cur # 0 /\ Enters(c, "destroy", "terminating")

\* Pausing and resuming only set the status, whatever it was.
EnterPause(c) == Locks(c, {"pause"}) /\ cur # 0 /\ SetStatus("paused") /\ Return(c)
EnterResume(c) == Locks(c, {"resume"}) /\ cur # 0 /\ SetStatus("ready") /\ Return(c)

\* A recycle closes the window of the object it was given.
EnterRecycle(c) ==
  /\ Locks(c, {"recycle"})
  /\ lock' = c /\ Goto(c, "close")
  /\ UNCHANGED <<row, obj>>

\* provider_operation "open": busy first, and restored if it fails.
Open(c) ==
  /\ SetStatus("busy")
  /\ GotoSaving(c, "open", obj[co[c].ref].status)
  /\ UNCHANGED lock

Connect(c) ==
  /\ GotoSaving(c, "connect", obj[co[c].ref].status)
  /\ UNCHANGED <<row, obj, lock>>

RuntimeReady(c) ==
  /\ UnderLock(c, {"start"}, "runtime")
  /\ \/ Return(c) /\ UNCHANGED <<row, obj>>
     \/ obj[co[c].ref].status = "busy" /\ Goto(c, "look") /\ UNCHANGED <<row, obj, lock>>
     \/ obj[co[c].ref].status # "busy" /\ Open(c)
  /\ UNCHANGED cur

\* A busy environment may have its window open already.
Looked(c) ==
  /\ UnderLock(c, {"start"}, "look")
  /\ Connect(c) \/ Open(c)
  /\ UNCHANGED cur

Opened(c) ==
  /\ UnderLock(c, {"start"}, "open")
  /\ \/ Connect(c)
     \/ SetStatus(co[c].orig) /\ Return(c)
  /\ UNCHANGED cur

\* A connected environment runs, and the object it was connected with is put
\* into the pool; after a failure the window is looked for again.
Connected(c) ==
  /\ UnderLock(c, {"start"}, "connect")
  /\ \/ Goto(c, "check") /\ UNCHANGED <<row, obj, cur, lock>>
     \/ /\ snap = NoSnap
        /\ obj' = IF cur = 0 THEN obj ELSE [obj EXCEPT ![cur].status = "running"]
        /\ cur' = co[c].ref
        /\ row' = IF row = Absent THEN Absent ELSE obj'[cur']
        /\ Return(c)

ConnectFailed(c) ==
  /\ UnderLock(c, {"start"}, "check")
  /\ \E status \in {"busy", co[c].orig} : SetStatus(status)
  /\ Return(c)
  /\ UNCHANGED cur

\* stop_env: the status was set before, and is restored if closing fails.
Stopped(c) ==
  /\ UnderLock(c, {"stop"}, "close")
  /\ \/ UNCHANGED <<row, obj>>
     \/ SetStatus(co[c].orig)
  /\ Return(c) /\ UNCHANGED cur

\* Fault: the lease is not cleared.
RecycledLeased(c) ==
  /\ UnderLock(c, {"recycle"}, "close")
  /\ \/ SetStatus(obj[co[c].ref].status)
     \/ SetStatus("ready")
  /\ Return(c) /\ UNCHANGED cur

\* recycle_env: closed, it has no lease and is ready; else it stays as it is.
Recycled(c) ==
  /\ UnderLock(c, {"recycle"}, "close")
  /\ \/ SetStatus(obj[co[c].ref].status)
     \/ SetStatusOf([obj EXCEPT ![co[c].ref].lease = NoCo], "ready")
  /\ Return(c) /\ UNCHANGED cur

\* destroy_env: it is removed from the pool and the database, or the provider
\* has not deleted it and the status is restored.
Destroyed(c) ==
  /\ UnderLock(c, {"destroy", "clean"}, "destroy")
  /\ \/ SetStatus(co[c].orig) /\ UNCHANGED cur
     \/ snap = NoSnap /\ cur' = 0 /\ row' = Absent /\ UNCHANGED obj
  /\ Return(c)

Enter(c) ==
  \/ EnterGone(c) \/ EnterStart(c) \/ EnterStop(c) \/ EnterDestroy(c)
  \/ EnterPause(c) \/ EnterResume(c) \/ EnterRecycle(c)

Proceed(c) ==
  \/ RuntimeReady(c) \/ Looked(c) \/ Opened(c) \/ Connected(c) \/ ConnectFailed(c)
  \/ Stopped(c) \/ Recycled(c) \/ Destroyed(c)

-----------------------------------------------------------------------------
(* Reload, start-up and the end of the process.                            *)

Unused(g) == g # cur /\ \A c \in Co : co[c].ref # g

\* reload_from_db runs in a thread with an event loop of its own: it reads the
\* row, and then replaces the pool by new objects.
ReloadRead ==
  /\ phase = "up" /\ snap = NoSnap
  /\ Gens > 1 /\ \E g \in Gen : Unused(g)  \* bound on the objects alive
  /\ snap' = row
  /\ UNCHANGED <<process, row, obj, cur, lock, co>>

ReloadSwap ==
  /\ snap # NoSnap
  /\ IF snap = Absent THEN cur' = 0 /\ UNCHANGED obj
     ELSE \E g \in Gen : Unused(g) /\ cur' = g /\ obj' = [obj EXCEPT ![g] = snap]
  /\ snap' = NoSnap
  /\ UNCHANGED <<process, row, lock, co>>

BootAsks(op) == co' = [co EXCEPT ![Boot] = Wants(op, 1)]

\* startup: what was in use is recycled, what was being destroyed is destroyed;
\* a ready or a paused environment is taken as it is.
StartUp ==
  /\ phase = "down" /\ phase' = "recover"
  /\ IF row = Absent THEN UNCHANGED <<obj, cur, co>>
     ELSE /\ cur' = 1 /\ obj' = [obj EXCEPT ![1] = row]
          /\ CASE row.status \in {"busy", "running"} -> BootAsks("recycle")
               [] row.status = "terminating" -> BootAsks("destroy")
               [] OTHER -> UNCHANGED co
  /\ UNCHANGED <<restarts, stuck, row, snap, lock>>

\* _recover_zombies: the environment of a task that was in flight is recycled,
\* whatever its state is now.
RecoverZombies ==
  /\ phase = "recover" /\ co[Boot].pc = "idle" /\ phase' = "zombies"
  /\ IF stuck /\ cur # 0 THEN BootAsks("recycle") ELSE UNCHANGED co
  /\ UNCHANGED <<restarts, stuck, row, obj, cur, snap, lock>>

Ready ==
  /\ phase = "zombies" /\ co[Boot].pc = "idle" /\ phase' = "up"
  /\ stuck' = FALSE
  /\ UNCHANGED <<restarts, row, obj, cur, snap, lock, co>>

\* Only the rows are left.  The row of a task that had no verdict yet may name
\* the environment, and so may one that is still to be recovered.
ProcessEnds ==
  /\ phase # "down" /\ restarts < MaxRestart
  /\ phase' = "down" /\ restarts' = restarts + 1
  /\ \/ stuck' = stuck
     \/ stuck' = TRUE /\ \E t \in Task : co[t].pc # "idle"
  /\ cur' = 0 /\ snap' = NoSnap /\ lock' = NoCo
  /\ co' = [c \in Co |-> Idle]
  /\ UNCHANGED <<row, obj>>

Next ==
  \/ \E t \in Task : LeaseStep(t)
  \/ \E c \in Operator, op \in Ops : Ask(c, op)
  \/ \E c \in Co : Enter(c) \/ Proceed(c)
  \/ ReloadRead \/ ReloadSwap
  \/ StartUp \/ RecoverZombies \/ Ready \/ ProcessEnds

Spec == Init /\ [][Next]_vars

\* Whatever is awaited from the provider or the runtime is answered, in time or
\* with an error; the lifecycle lock and the pool's are handed on first come,
\* first served; a reload and start-up go on.  Tasks and operators need not do anything.
Fairness ==
  /\ \A c \in Co : SF_vars(Proceed(c)) /\ SF_vars(Enter(c))
  /\ WF_vars(ReloadSwap) /\ WF_vars(StartUp) /\ WF_vars(RecoverZombies) /\ WF_vars(Ready)

FairSpec == Spec /\ Fairness

-----------------------------------------------------------------------------
(* Properties *)

\* The environment as the pool shows it to those who look for one.
Offered == cur # 0 /\ obj[cur] = Fresh

Lease == INSTANCE EnvLease WITH holder <- Bound, ready <- Offered

\* As long as operators only start, pause, destroy and clean up, an environment
\* goes from task to task: none gets it before the last one has recycled it or
\* given up doing so (LeaseManager.acquire, EnvironmentManager.release).
KeepsLease == Lease!Spec

\* At most one task owns a lease of the environment.
Exclusive == Cardinality(Holders) <= 1

\* A task that gives its environment back never closes the window of another
\* that has leased it since (recycle_env goes by the object, not the lease).
RecycleSparesHolders ==
  \A t \in Task : At(t, {"recycle"}, "close") => Holders = {}

\* Should the process end now, start-up finds from its row that an environment
\* a task is bound to has to be recycled.
HeldIsRecorded == Bound # {} => row.status # "ready"

\* An environment that was destroyed does not come back into the pool, though
\* a start that finds it connected puts its object there (EnvPool.add).
GoneStaysGone == [][phase = "up" /\ cur = 0 => cur' = 0]_vars

\* A ready environment has no lease of a task that is over: nobody would ever
\* clear it, and acquire refuses the environment for good.
NoDeadLease ==
  phase = "up" /\ cur # 0 /\ obj[cur].status = "ready" =>
    obj[cur].lease \in Holders \cup {NoCo}

\* Whoever asks for the lifecycle lock gets it, although the one that holds it
\* may fail, be cancelled by a timeout or find the environment gone.
LockIsServed == \A c \in Co : co[c].pc = "want" ~> co[c].pc # "want"

(* What documents say and the code does not keep.                          *)

\* cleanup: only environments that are eligible now are destroyed.
CleansOnlyFree ==
  [][\A c \in Operator : At(c, {"clean"}, "want") /\ co'[c].pc = "destroy"
                         => obj[cur].lease = NoCo]_vars
===============================================================================
