---------------------------- MODULE EnvPool_proofs ----------------------------
(***************************************************************************)
(* Proofs about EnvPool: type correctness for all constants; the lease     *)
(* discipline as long as operators only start, pause, destroy and clean up *)
(* and nothing is reloaded; and, whatever they do, that what was destroyed *)
(* does not come back.                                                     *)
(***************************************************************************)
EXTENDS EnvPool, FiniteSetTheorems, TLAPS

-----------------------------------------------------------------------------
(* Type correctness.                                                       *)

\* A coroutine that works on an object has one.
RefInv == \A c \in Co : co[c].pc \in Locked \/ co[c].op = "recycle" => co[c].ref # 0

TypeInv == TypeOK /\ RefInv

\* What a step does to the locals of the coroutines keeps their type.
LEMMA LocalType ==
  ASSUME TypeInv, NEW c \in Co
  PROVE  /\ Idle \in CoState
         /\ After(c) \in CoState /\ After(c).pc \notin Locked /\ After(c).op # "recycle"
         /\ co[c] \in CoState
  BY PoolAssumption DEF TypeInv, TypeOK, CoState, Idle, After, Locked, Status

\* An operation that ends keeps the types of the locals.
LEMMA ReturnType ==
  ASSUME TypeInv, NEW c \in Co, Return(c)
  PROVE  co' \in [Co -> CoState] /\ RefInv' /\ lock' \in Co \cup {NoCo}
<1>1. After(c) \in CoState /\ After(c).pc \notin Locked /\ After(c).op # "recycle"
  BY LocalType
<1>. QED
  BY <1>1 DEF Return, TypeInv, TypeOK, RefInv

\* So does one that goes on to await something else.
LEMMA GotoType ==
  ASSUME TypeInv, NEW c \in Co, NEW pc \in Locked, co[c].ref # 0,
         Goto(c, pc) \/ \E status \in Status : GotoSaving(c, pc, status)
  PROVE  co' \in [Co -> CoState] /\ RefInv'
  BY DEF Goto, GotoSaving, TypeInv, TypeOK, RefInv, CoState, Locked

\* update_status keeps the types of objects and row.
LEMMA SetStatusType ==
  ASSUME TypeInv, NEW o \in [Gen -> Env], NEW status \in Status, SetStatusOf(o, status)
  PROVE  obj' \in [Gen -> Env] /\ row' \in Env \cup {Absent}
  BY DEF SetStatusOf, TypeInv, TypeOK, Env, Gen

\* So does a recovery that start-up asks for.
LEMMA BootType ==
  ASSUME TypeInv, NEW op \in {"recycle", "destroy"}, BootAsks(op)
  PROVE  co' \in [Co -> CoState] /\ RefInv'
<1>1. Wants(op, 1) \in CoState
  BY PoolAssumption DEF Wants, CoState, Status, AllOps
<1>2. co' = [co EXCEPT ![Boot] = Wants(op, 1)]
  BY DEF BootAsks
<1>3. co' \in [Co -> CoState]
  BY <1>1, <1>2 DEF TypeInv, TypeOK
<1>4. Wants(op, 1).ref # 0
  BY DEF Wants
<1>. QED
  BY <1>2, <1>3, <1>4 DEF TypeInv, TypeOK, RefInv

\* Every step keeps the types.
LEMMA TypeStep == TypeInv /\ [Next]_vars => TypeInv'
<1>. SUFFICES ASSUME TypeInv, [Next]_vars PROVE TypeInv'
  OBVIOUS
<1>. USE PoolAssumption
<1>1. ASSUME NEW t \in Task, LeaseStep(t) PROVE TypeInv'
  <2>1. CASE Acquire(t) \/ ClaimRunning(t)
    <3>1. cur \in Gen /\ obj \in [Gen -> Env] /\ row' = obj'[cur]
      BY <2>1 DEF Acquire, ClaimRunning, TypeInv, TypeOK, Gen
    <3>2. obj' \in [Gen -> Env]
      BY <2>1, <3>1 DEF Acquire, ClaimRunning, Env, Status
    <3>3. row' \in Env
      BY <3>1, <3>2
    <3>4. co' \in [Co -> CoState] /\ RefInv'
      BY <2>1 DEF Acquire, ClaimRunning, TypeInv, TypeOK, RefInv, CoState, Co, Locked
    <3>. QED
      BY <2>1, <3>2, <3>3, <3>4 DEF Acquire, ClaimRunning, TypeInv, TypeOK, process
  <2>2. CASE AskStart(t)
    BY <2>2 DEF AskStart, TypeInv, TypeOK, RefInv, CoState, AllOps, Co, process, Locked
  <2>3. CASE Release(t)
    <3>1. obj' \in [Gen -> Env]
      BY <2>3 DEF Release, TypeInv, TypeOK, Env
    <3>2. /\ [Idle EXCEPT !.pc = "saving"] \in CoState
          /\ Wants("recycle", cur) \in CoState
      BY DEF Idle, Wants, CoState, Status, TypeInv, TypeOK
    <3>3. co' \in [Co -> CoState] /\ RefInv'
      BY <2>3, <3>2 DEF Release, TypeInv, TypeOK, RefInv, Idle, Wants, Co, Locked
    <3>. QED
      BY <2>3, <3>1, <3>3 DEF Release, TypeInv, TypeOK, process
  <2>4. CASE RecycleTimesOut(t)
    <3>1. After(t) \in CoState /\ After(t).pc \notin Locked /\ After(t).op # "recycle"
      BY LocalType DEF Co
    <3>. QED
      BY <2>4, <3>1 DEF RecycleTimesOut, TypeInv, TypeOK, RefInv, Co, process
  <2>5. CASE Finish(t)
    BY <2>5 DEF Finish, TypeInv, TypeOK, RefInv, CoState, Idle, Co, process, Locked, Status
  <2>. QED
    BY <1>1, <2>1, <2>2, <2>3, <2>4, <2>5 DEF LeaseStep
<1>2. ASSUME NEW c \in Operator, NEW op \in Ops, Ask(c, op) PROVE TypeInv'
  BY <1>2 DEF Ask, TypeInv, TypeOK, RefInv, CoState, AllOps, Co, process, Locked
<1>3. ASSUME NEW c \in Co, Enter(c) PROVE TypeInv'
  <2>. USE DEF Locks
  <2>1. CASE EnterGone(c)
    BY <2>1, ReturnType DEF EnterGone, TypeInv, TypeOK, process
  <2>2. CASE EnterStart(c)
    <3>1. CASE Return(c)
      BY <2>2, <3>1, ReturnType DEF EnterStart, TypeInv, TypeOK, process
    <3>2. CASE ~Return(c)
      BY <2>2, <3>2 DEF EnterStart, TypeInv, TypeOK, RefInv, CoState, process, Locked
    <3>. QED
      BY <3>1, <3>2
  <2>3. CASE EnterStop(c) \/ EnterDestroy(c)
    <3>1. PICK pc \in {"close", "destroy"}, status \in Status : cur # 0 /\ Enters(c, pc, status)
      BY <2>3 DEF EnterStop, EnterDestroy, Status
    <3>2. obj' \in [Gen -> Env] /\ row' \in Env \cup {Absent}
      BY <3>1, SetStatusType DEF Enters, SetStatus, TypeInv, TypeOK
    <3>3. obj[cur].status \in Status
      BY <3>1 DEF TypeInv, TypeOK, Gen, Env
    <3>. QED
      BY <2>3, <3>1, <3>2, <3>3 DEF EnterStop, EnterDestroy, Enters, TypeInv, TypeOK, RefInv,
        CoState, process, Locked
  <2>4. CASE EnterPause(c) \/ EnterResume(c)
    <3>1. PICK status \in Status : SetStatusOf(obj, status)
      BY <2>4 DEF EnterPause, EnterResume, SetStatus, Status
    <3>2. obj' \in [Gen -> Env] /\ row' \in Env \cup {Absent}
      BY <3>1, SetStatusType DEF TypeInv, TypeOK
    <3>. QED
      BY <2>4, <3>2, ReturnType DEF EnterPause, EnterResume, TypeInv, TypeOK, process
  <2>5. CASE EnterRecycle(c)
    <3>1. co' \in [Co -> CoState] /\ RefInv'
      BY <2>5, GotoType DEF EnterRecycle, TypeInv, RefInv, Locked
    <3>. QED
      BY <2>5, <3>1 DEF EnterRecycle, TypeInv, TypeOK, process
  <2>. QED
    BY <1>3, <2>1, <2>2, <2>3, <2>4, <2>5 DEF Enter
<1>4. ASSUME NEW c \in Co, Proceed(c) PROVE TypeInv'
  <2>. USE DEF UnderLock, At
  <2>0. co[c].pc \in Locked => co[c].ref \in Gen /\ obj[co[c].ref] \in Env
                               /\ obj[co[c].ref].status \in Status
    BY DEF TypeInv, TypeOK, RefInv, CoState, Gen, Env
  <2>00. co[c].orig \in Status
    BY DEF TypeInv, TypeOK, CoState
  \* The pieces of a start: open, connect, and the ends of an operation.
  <2>1. ASSUME co[c].pc \in Locked, UNCHANGED <<process, cur, snap>>, Open(c) PROVE TypeInv'
    <3>1. obj' \in [Gen -> Env] /\ row' \in Env \cup {Absent}
      BY <2>1, SetStatusType DEF Open, SetStatus, TypeInv, TypeOK, Status
    <3>2. co' \in [Co -> CoState] /\ RefInv'
      BY <2>0, <2>1, GotoType DEF Open, Locked, TypeInv, RefInv
    <3>. QED
      BY <2>1, <3>1, <3>2 DEF Open, TypeInv, TypeOK, process
  <2>2. ASSUME co[c].pc \in Locked, UNCHANGED <<process, cur, snap>>, Connect(c) PROVE TypeInv'
    <3>1. co' \in [Co -> CoState] /\ RefInv'
      BY <2>0, <2>2, GotoType DEF Connect, Locked, TypeInv, RefInv
    <3>. QED
      BY <2>2, <3>1 DEF Connect, TypeInv, TypeOK, process
  <2>3. ASSUME Return(c), UNCHANGED <<process, cur, snap, row, obj>> PROVE TypeInv'
    BY <2>3, ReturnType DEF TypeInv, TypeOK, process
  <2>4. ASSUME Return(c), UNCHANGED <<process, cur, snap>>,
               NEW status \in Status, SetStatus(status)
        PROVE  TypeInv'
    <3>1. obj' \in [Gen -> Env] /\ row' \in Env \cup {Absent}
      BY <2>4, SetStatusType DEF SetStatus, TypeInv, TypeOK
    <3>. QED
      BY <2>4, <3>1, ReturnType DEF TypeInv, TypeOK, process
  <2>5. ASSUME NEW pc \in Locked, co[c].pc \in Locked, Goto(c, pc),
               UNCHANGED <<process, cur, snap, row, obj, lock>>
        PROVE  TypeInv'
    <3>1. co' \in [Co -> CoState] /\ RefInv'
      BY <2>0, <2>5, GotoType DEF TypeInv, RefInv
    <3>. QED
      BY <2>5, <3>1 DEF TypeInv, TypeOK, process
  <2>6. CASE RuntimeReady(c)
    BY <2>1, <2>3, <2>5, <2>6 DEF RuntimeReady, Locked
  <2>7. CASE Looked(c) \/ Opened(c)
    BY <2>00, <2>1, <2>2, <2>4, <2>7 DEF Looked, Opened, Locked
  <2>8. CASE Connected(c)
    <3>1. CASE Goto(c, "check") /\ UNCHANGED <<row, obj, cur, lock>>
      BY <2>5, <2>8, <3>1 DEF Connected, Locked
    <3>2. CASE ~(Goto(c, "check") /\ UNCHANGED <<row, obj, cur, lock>>)
      <4>1. cur' \in Gen /\ Return(c) /\ UNCHANGED <<process, snap>>
        BY <2>0, <2>8, <3>2 DEF Connected, Locked
      <4>2. obj' \in [Gen -> Env]
        BY <2>8, <3>2 DEF Connected, TypeInv, TypeOK, Env, Status
      <4>3. row' \in Env \cup {Absent}
        BY <2>8, <3>2, <4>1, <4>2 DEF Connected
      <4>. QED
        BY <4>1, <4>2, <4>3, ReturnType DEF TypeInv, TypeOK, process, Gen
    <3>. QED
      BY <3>1, <3>2
  <2>9. CASE ConnectFailed(c)
    BY <2>00, <2>4, <2>9 DEF ConnectFailed, Status
  <2>10. CASE Stopped(c)
    BY <2>00, <2>3, <2>4, <2>10 DEF Stopped
  <2>11. CASE Recycled(c)
    <3>1. CASE SetStatus(obj[co[c].ref].status)
      BY <2>0, <2>4, <2>11, <3>1 DEF Recycled, Locked
    <3>2. CASE ~SetStatus(obj[co[c].ref].status)
      <4>1. [obj EXCEPT ![co[c].ref].lease = NoCo] \in [Gen -> Env]
        BY DEF TypeInv, TypeOK, Env
      <4>2. obj' \in [Gen -> Env] /\ row' \in Env \cup {Absent}
        BY <2>11, <3>2, <4>1, SetStatusType DEF Recycled, Status
      <4>. QED
        BY <2>11, <4>2, ReturnType DEF Recycled, TypeInv, TypeOK, process
    <3>. QED
      BY <3>1, <3>2
  <2>12. CASE Destroyed(c)
    <3>1. CASE SetStatus(co[c].orig) /\ UNCHANGED cur
      BY <2>00, <2>4, <2>12, <3>1 DEF Destroyed
    <3>2. CASE ~(SetStatus(co[c].orig) /\ UNCHANGED cur)
      BY <2>12, <3>2, ReturnType DEF Destroyed, TypeInv, TypeOK, process
    <3>. QED
      BY <3>1, <3>2
  <2>. QED
    BY <1>4, <2>6, <2>7, <2>8, <2>9, <2>10, <2>11, <2>12 DEF Proceed
<1>5. CASE ReloadRead \/ ReloadSwap
  BY <1>5 DEF ReloadRead, ReloadSwap, TypeInv, TypeOK, RefInv, process, Gen
<1>6. CASE StartUp
  <2>1. 1 \in Gen /\ 1 \in 0..Gens
    BY DEF Gen
  <2>2. cur' \in 0..Gens /\ obj' \in [Gen -> Env]
    BY <1>6, <2>1 DEF StartUp, TypeInv, TypeOK
  <2>3. UNCHANGED co \/ \E op \in {"recycle", "destroy"} : BootAsks(op)
    BY <1>6 DEF StartUp
  <2>. QED
    BY <1>6, <2>2, <2>3, BootType DEF StartUp, TypeInv, TypeOK, RefInv
<1>7. CASE RecoverZombies \/ Ready
  <2>1. UNCHANGED co \/ BootAsks("recycle")
    BY <1>7 DEF RecoverZombies, Ready
  <2>. QED
    BY <1>7, <2>1, BootType DEF RecoverZombies, Ready, TypeInv, TypeOK, RefInv
<1>8. CASE ProcessEnds
  <2>1. Idle \in CoState /\ Idle.pc \notin Locked /\ Idle.op # "recycle"
    BY DEF Idle, CoState, Locked, Status
  <2>2. stuck' \in BOOLEAN
    BY <1>8, Zenon DEF ProcessEnds, TypeInv, TypeOK
  <2>. QED
    BY <1>8, <2>1, <2>2 DEF ProcessEnds, TypeInv, TypeOK, RefInv
<1>9. CASE UNCHANGED vars
  BY <1>9 DEF vars, process, TypeInv, TypeOK, RefInv
<1>. QED
  BY <1>1, <1>2, <1>3, <1>4, <1>5, <1>6, <1>7, <1>8, <1>9 DEF Next

\* It holds at the start.
LEMMA TypeInit == Init => TypeInv
<1>1. Idle \in CoState /\ Idle.pc \notin Locked /\ Idle.op # "recycle"
  BY PoolAssumption DEF Idle, CoState, Locked, Status
<1>2. Fresh \in Env
  BY DEF Fresh, Env, Status
<1>3. Init => stuck \in BOOLEAN
  BY Zenon DEF Init
<1>. QED
  BY <1>1, <1>2, <1>3, PoolAssumption DEF Init, TypeInv, TypeOK, RefInv

\* Objects, row and the locals of every coroutine always have their type
\* (EnvPool, LeaseManager and EnvironmentManager).
THEOREM PoolTypeCorrect == Spec => []TypeOK
<1>1. TypeInv => TypeOK
  BY DEF TypeInv
<1>. QED
  BY <1>1, TypeInit, TypeStep, PTL DEF Spec

-----------------------------------------------------------------------------
(* The lease discipline.  It takes operators that only start, pause,       *)
(* destroy and clean up, and no reload: stop and resume make an environment*)
(* ready whoever uses it, and a reload splits its object in two.           *)

Calm == Ops \subseteq {"start", "pause", "destroy", "clean"} /\ ~Fixed /\ Gens = 1

\* Whoever awaits something under the lifecycle lock holds it, and what it
\* awaits belongs to its operation.
LockInv == \A c \in Co :
  /\ co[c].pc \in Locked => lock = c
  /\ co[c].pc \in {"idle", "leased", "held", "saving"} <=> co[c].op = "none"
  /\ co[c].pc = "close" => co[c].op = "recycle"
  /\ co[c].pc = "destroy" => co[c].op \in {"destroy", "clean"}
  /\ co[c].pc \in {"runtime", "look", "open", "connect", "check"} => co[c].op = "start"
  /\ co[c].op \notin {"stop", "resume"}
  /\ c \in Task => co[c].op \in {"none", "start", "recycle"}
  /\ c \in Operator => co[c].op # "recycle"

\* Tasks and operators begin when the recovery has ended.
PhaseInv ==
  /\ phase # "up" => \A c \in Task \cup Operator : co[c].pc = "idle"
  /\ phase \in {"down", "up"} => co[Boot].pc = "idle"

\* The row has the status of the object in the pool; a ready row has no lease.
RowInv ==
  /\ snap = NoSnap
  /\ phase = "down" => cur = 0
  /\ phase # "down" /\ cur = 0 => row = Absent
  /\ cur # 0 => row.status = obj[1].status
  /\ row.status = "ready" => row.lease = NoCo

\* Nobody is bound to a ready environment, and nobody has a lease of it.
Free == Bound = {} /\ obj[1].lease = NoCo

BoundInv ==
  /\ \A t, u \in Bound : t = u
  /\ cur # 0 /\ obj[1].status = "ready" => Free

\* Under the lock an environment that is opened is busy and one that is
\* destroyed terminating: no task can lease it, and a failure that restores the
\* status ready finds it free.
OpenInv == \A c \in Co :
  /\ co[c].pc \in {"look", "open", "connect", "check"} => cur # 0 /\ obj[1].status = "busy"
  /\ co[c].pc = "destroy" => cur # 0 /\ obj[1].status = "terminating"
  /\ co[c].pc = "runtime" => cur # 0
  /\ co[c].pc \in {"connect", "check"} => co[c].orig = "busy"
  /\ co[c].pc \in {"open", "destroy"} /\ co[c].orig = "ready" => Free

CalmInv == TypeInv /\ LockInv /\ PhaseInv /\ RowInv /\ BoundInv /\ OpenInv

\* Without a reload there is one object.
LEMMA OneObject ==
  ASSUME Calm, TypeInv
  PROVE  /\ Gen = {1} /\ cur \in {0, 1} /\ obj \in [{1} -> Env]
         /\ \A c \in Co : co[c].ref \in {0, 1} /\ co[c].orig \in Status
         /\ \A c \in Co : co[c].pc \in Locked \/ co[c].op = "recycle" => co[c].ref = 1
<1>1. Gen = {1} /\ 0..Gens = {0, 1}
  BY DEF Calm, Gen
<1>. QED
  BY <1>1 DEF TypeInv, TypeOK, RefInv, CoState

\* Where an operation leaves its coroutine when it ends.
LEMMA AfterState ==
  ASSUME NEW c \in Co
  PROVE  /\ After(c).op = "none"
         /\ After(c).pc \in {"idle", "held", "saving"}
         /\ c \notin Task => After(c).pc = "idle"
  BY DEF After, Idle

\* An operation that ends frees the lock it holds, or could take.
LEMMA ReturnLock ==
  ASSUME CalmInv, NEW c \in Co, Return(c), lock \in {NoCo, c}, phase' = phase,
         co[c].pc # "idle"
  PROVE  LockInv' /\ PhaseInv'
<1>1. co' = [co EXCEPT ![c] = After(c)] /\ lock' = NoCo
  BY DEF Return
<1>2. co \in [Co -> CoState] /\ NoCo \notin Co
  BY PoolAssumption DEF CalmInv, TypeInv, TypeOK
<1>3. \A d \in Co : d # c => co'[d] = co[d] /\ co[d].pc \notin Locked
  BY <1>1, <1>2 DEF CalmInv, LockInv
<1>4. co'[c] = After(c)
  BY <1>1, <1>2
<1>5. LockInv'
  BY <1>3, <1>4, AfterState DEF CalmInv, LockInv, Locked
<1>6. PhaseInv'
  <2>1. ASSUME phase # "up", NEW d \in Task \cup Operator PROVE co'[d].pc = "idle"
    BY <2>1, <1>3 DEF CalmInv, PhaseInv, Co
  <2>2. ASSUME phase \in {"down", "up"} PROVE co'[Boot].pc = "idle"
    BY <2>2, <1>3 DEF CalmInv, PhaseInv, Co
  <2>. QED
    BY <2>1, <2>2 DEF PhaseInv
<1>. QED
  BY <1>5, <1>6

\* One that goes on under the lock keeps to what it may await.
LEMMA GotoLock ==
  ASSUME CalmInv, NEW c \in Co, NEW pc \in Locked, lock' = c, lock \in {NoCo, c},
         phase' = phase, co' \in [Co -> CoState],
         \A d \in Co : d # c => co'[d] = co[d],
         co'[c].pc = pc, co'[c].op = co[c].op, co[c].op # "none",
         \/ pc = "close" /\ co[c].op = "recycle"
         \/ pc = "destroy" /\ co[c].op \in {"destroy", "clean"}
         \/ pc \notin {"close", "destroy"} /\ co[c].op = "start"
  PROVE  LockInv' /\ PhaseInv'
<1>1. NoCo \notin Co
  BY PoolAssumption
<1>2. \A d \in Co : d # c => co[d].pc \notin Locked
  BY <1>1 DEF CalmInv, LockInv
<1>3. LockInv'
  BY <1>2 DEF CalmInv, LockInv, Locked
<1>4. co[c].pc # "idle"
  BY DEF CalmInv, LockInv
<1>5. ASSUME phase # "up", NEW d \in Task \cup Operator PROVE co'[d].pc = "idle"
  BY <1>4, <1>5 DEF CalmInv, PhaseInv, Co
<1>6. ASSUME phase \in {"down", "up"} PROVE co'[Boot].pc = "idle"
  BY <1>4, <1>6 DEF CalmInv, PhaseInv, Co
<1>. QED
  BY <1>3, <1>5, <1>6 DEF PhaseInv

\* What is said of the lock and the phase is kept by the tasks.
LEMMA LeaseLock ==
  ASSUME Calm, CalmInv, TypeInv', NEW t \in Task, LeaseStep(t)
  PROVE  LockInv' /\ PhaseInv'
<1>. USE DEF process, Co
<1>1. co \in [Co -> CoState] /\ NoCo \notin Co /\ t \in Co /\ t # Boot /\ t \notin Operator
  BY PoolAssumption DEF CalmInv, TypeInv, TypeOK
<1>2. CASE Acquire(t)
  BY <1>1, <1>2 DEF Acquire, CalmInv, LockInv, PhaseInv, Locked
<1>3. CASE ClaimRunning(t)
  BY <1>3 DEF ClaimRunning, Calm
<1>4. CASE AskStart(t)
  BY <1>1, <1>4 DEF AskStart, CalmInv, LockInv, PhaseInv, Locked
<1>5. CASE Release(t)
  <2>1. \/ co' = [co EXCEPT ![t] = [Idle EXCEPT !.pc = "saving"]]
        \/ co' = [co EXCEPT ![t] = Wants("recycle", cur)]
    BY <1>5 DEF Release
  <2>2. phase = "up"
    BY <1>5 DEF Release, CalmInv, PhaseInv
  <2>. QED
    BY <1>1, <1>5, <2>1, <2>2 DEF Release, CalmInv, LockInv, PhaseInv, Locked, Idle, Wants
<1>6. CASE RecycleTimesOut(t)
  <2>1. co' = [co EXCEPT ![t] = After(t)] /\ lock' = IF lock = t THEN NoCo ELSE lock
    BY <1>6 DEF RecycleTimesOut
  <2>2. phase = "up" /\ phase' = phase
    BY <1>1, <1>6 DEF RecycleTimesOut, CalmInv, LockInv, PhaseInv
  <2>. QED
    BY <1>1, <2>1, <2>2, AfterState DEF CalmInv, LockInv, PhaseInv, Locked
<1>7. CASE Finish(t)
  BY <1>1, <1>7 DEF Finish, CalmInv, LockInv, PhaseInv, Locked, Idle
<1>. QED
  BY <1>2, <1>3, <1>4, <1>5, <1>6, <1>7 DEF LeaseStep

\* So it is by whoever gets the lock.
LEMMA EnterLock ==
  ASSUME Calm, CalmInv, TypeInv', NEW c \in Co, Enter(c)
  PROVE  LockInv' /\ PhaseInv'
<1>. USE DEF Locks, process
<1>1. /\ co[c].pc = "want" /\ co[c].op # "none" /\ co[c].op \notin {"stop", "resume"}
      /\ lock = NoCo /\ phase' = phase
      /\ co \in [Co -> CoState] /\ co' \in [Co -> CoState]
  BY DEF Enter, EnterGone, EnterStart, EnterStop, EnterDestroy, EnterPause, EnterResume,
    EnterRecycle, CalmInv, LockInv, TypeInv, TypeOK
<1>2. CASE Return(c)
  BY <1>1, <1>2, ReturnLock
<1>3. ASSUME NEW pc \in {"runtime", "destroy", "close"}, lock' = c,
             \A d \in Co : d # c => co'[d] = co[d],
             co'[c].pc = pc, co'[c].op = co[c].op,
             \/ pc = "close" /\ co[c].op = "recycle"
             \/ pc = "destroy" /\ co[c].op \in {"destroy", "clean"}
             \/ pc \notin {"close", "destroy"} /\ co[c].op = "start"
      PROVE  LockInv' /\ PhaseInv'
  BY <1>1, <1>3, GotoLock DEF Locked
<1>4. CASE EnterStart(c) \/ EnterDestroy(c) \/ EnterRecycle(c)
  <2>1. CASE EnterStart(c)
    BY <1>1, <1>2, <1>3, <2>1 DEF EnterStart, CoState
  <2>2. CASE EnterDestroy(c)
    BY <1>1, <1>3, <2>2 DEF EnterDestroy, Enters, CoState
  <2>3. CASE EnterRecycle(c)
    BY <1>1, <1>3, <2>3 DEF EnterRecycle, Goto, CoState
  <2>. QED
    BY <1>4, <2>1, <2>2, <2>3
<1>5. CASE EnterStop(c) \/ EnterResume(c)
  BY <1>1, <1>5 DEF EnterStop, EnterResume
<1>6. CASE EnterGone(c) \/ EnterPause(c)
  BY <1>2, <1>6 DEF EnterGone, EnterPause
<1>. QED
  BY <1>4, <1>5, <1>6 DEF Enter

\* And by whoever has it.
LEMMA ProceedLock ==
  ASSUME Calm, CalmInv, TypeInv', NEW c \in Co, Proceed(c)
  PROVE  LockInv' /\ PhaseInv'
<1>. USE DEF UnderLock, At, process
<1>1. /\ co[c].pc \in Locked /\ lock = c /\ phase' = phase
      /\ co[c].pc # "idle" /\ co[c].op # "none" /\ co[c].op \notin {"stop", "resume"}
      /\ co \in [Co -> CoState] /\ co' \in [Co -> CoState]
  BY DEF Proceed, RuntimeReady, Looked, Opened, Connected, ConnectFailed, Stopped, Recycled,
    Destroyed, CalmInv, LockInv, TypeInv, TypeOK, Locked
<1>2. CASE Return(c)
  BY <1>1, <1>2, ReturnLock
<1>3. ASSUME NEW pc \in {"look", "open", "connect", "check"}, lock' = lock,
             co[c].op = "start",
             Goto(c, pc) \/ \E status : GotoSaving(c, pc, status)
      PROVE  LockInv' /\ PhaseInv'
  <2>1. /\ \A d \in Co : d # c => co'[d] = co[d]
        /\ co'[c].pc = pc /\ co'[c].op = co[c].op
    BY <1>1, <1>3 DEF Goto, GotoSaving, CoState
  <2>. QED
    BY <1>1, <1>3, <2>1, GotoLock DEF Locked
<1>4. CASE RuntimeReady(c)
  BY <1>2, <1>3, <1>4 DEF RuntimeReady, Open
<1>5. CASE Looked(c) \/ Opened(c)
  BY <1>2, <1>3, <1>5 DEF Looked, Opened, Open, Connect
<1>6. CASE Connected(c)
  BY <1>2, <1>3, <1>6 DEF Connected
<1>7. CASE ConnectFailed(c) \/ Stopped(c) \/ Recycled(c) \/ Destroyed(c)
  BY <1>2, <1>7 DEF ConnectFailed, Stopped, Recycled, Destroyed
<1>. QED
  BY <1>4, <1>5, <1>6, <1>7 DEF Proceed

\* And by every other step.
LEMMA LockStep ==
  ASSUME Calm, CalmInv, TypeInv', [Next]_vars
  PROVE  LockInv' /\ PhaseInv'
<1>. USE DEF process
<1>1. /\ co \in [Co -> CoState] /\ Task \cap Operator = {}
      /\ Boot \notin Task \cup Operator /\ NoCo \notin Co
  BY PoolAssumption DEF CalmInv, TypeInv, TypeOK
<1>2. ASSUME NEW c \in Operator, NEW op \in Ops, Ask(c, op) PROVE LockInv' /\ PhaseInv'
  <2>1. op \in {"start", "pause", "destroy", "clean"}
    BY DEF Calm
  <2>2. c # Boot /\ c \notin Task /\ c \in Co
    BY <1>1 DEF Co
  <2>. QED
    BY <1>1, <1>2, <2>1, <2>2 DEF Ask, CalmInv, LockInv, PhaseInv, Locked, Co
<1>3. CASE ReloadRead \/ ReloadSwap
  BY <1>3 DEF ReloadRead, ReloadSwap, Calm, CalmInv, RowInv
<1>4. CASE StartUp \/ RecoverZombies \/ Ready
  <2>1. UNCHANGED co \/ \E op \in {"recycle", "destroy"} : BootAsks(op)
    BY <1>4 DEF StartUp, RecoverZombies, Ready
  <2>2. phase # "up" /\ lock' = lock /\ phase' # "down" /\ co[Boot].pc = "idle"
    BY <1>4 DEF StartUp, RecoverZombies, Ready, CalmInv, PhaseInv
  <2>3. phase' = "up" => UNCHANGED co
    BY <1>4 DEF StartUp, RecoverZombies, Ready
  <2>4. CASE UNCHANGED co
    BY <2>2, <2>4 DEF CalmInv, LockInv, PhaseInv
  <2>5. ASSUME NEW op \in {"recycle", "destroy"}, BootAsks(op) PROVE LockInv' /\ PhaseInv'
    <3>1. co' = [co EXCEPT ![Boot] = Wants(op, 1)]
      BY <2>5 DEF BootAsks
    <3>2. phase' \notin {"down", "up"}
      BY <1>4, <2>2, <2>5, <3>1, <2>3, <1>1 DEF StartUp, RecoverZombies, Ready, Wants, Co
    <3>. QED
      BY <1>1, <2>2, <3>1, <3>2 DEF CalmInv, LockInv, PhaseInv, Wants, Locked, Co
  <2>. QED
    BY <2>1, <2>4, <2>5
<1>5. CASE ProcessEnds
  BY <1>5 DEF ProcessEnds, LockInv, PhaseInv, Idle, Locked, Co
<1>6. CASE UNCHANGED vars
  BY <1>6 DEF vars, CalmInv, LockInv, PhaseInv
<1>. QED
  BY <1>2, <1>3, <1>4, <1>5, <1>6, LeaseLock, EnterLock, ProceedLock DEF Next

\* Nothing changes but who is bound, and nobody new is.
LEMMA KeepEnv ==
  ASSUME CalmInv, UNCHANGED <<phase, row, obj, cur, snap>>, Bound' \subseteq Bound
  PROVE  RowInv' /\ BoundInv'
  BY DEF CalmInv, RowInv, BoundInv, Free

\* update_status changes nothing but the status of what is in the pool.
LEMMA SetEffect ==
  ASSUME Calm, TypeInv, NEW status \in Status, SetStatus(status)
  PROVE  /\ obj'[1].lease = obj[1].lease
         /\ cur = 0 => obj' = obj /\ row' = row
         /\ cur # 0 => obj'[1].status = status /\ row' = obj'[1]
<1>1. 1 \in Gen /\ obj \in [Gen -> Env] /\ cur \in {0, 1}
  BY OneObject DEF TypeInv, TypeOK
<1>2. CASE cur = 0
  BY <1>1, <1>2 DEF SetStatus, SetStatusOf
<1>3. CASE cur = 1
  <2>1. obj' = [obj EXCEPT ![1].status = status]
        /\ row' = [status |-> status, lease |-> obj[1].lease]
    BY <1>3 DEF SetStatus, SetStatusOf
  <2>2. obj'[1] = [status |-> status, lease |-> obj[1].lease]
    BY <1>1, <2>1 DEF Env
  <2>. QED
    BY <1>3, <2>1, <2>2
<1>. QED
  BY <1>1, <1>2, <1>3

\* It may be made ready when it is free.
LEMMA SetEnv ==
  ASSUME Calm, CalmInv, NEW status \in Status, SetStatus(status),
         UNCHANGED <<phase, cur, snap>>, Bound' \subseteq Bound,
         cur # 0 /\ status = "ready" => Free
  PROVE  RowInv' /\ BoundInv'
<1>1. /\ obj'[1].lease = obj[1].lease
      /\ cur = 0 => obj' = obj /\ row' = row
      /\ cur # 0 => obj'[1].status = status /\ row' = obj'[1]
  BY SetEffect DEF CalmInv
<1>2. BoundInv'
  BY <1>1 DEF CalmInv, BoundInv, Free
<1>3. RowInv'
  BY <1>1, <1>2 DEF CalmInv, RowInv, BoundInv, Free
<1>. QED
  BY <1>2, <1>3

\* An operation that ends, or goes on, binds nobody.
LEMMA BoundShrinks ==
  ASSUME CalmInv, NEW c \in Co, co[c].pc \notin {"idle", "saving"},
         \A d \in Co : d # c => co'[d] = co[d]
  PROVE  Bound' \subseteq Bound
  BY DEF Bound, Co

\* When one that has the lock, or could take it, ends, nobody is under it.
LEMMA ReturnOpen ==
  ASSUME CalmInv, NEW c \in Co, Return(c), lock \in {NoCo, c},
         co[c].pc \notin {"idle", "saving"}
  PROVE  OpenInv' /\ Bound' \subseteq Bound
<1>1. co' = [co EXCEPT ![c] = After(c)]
  BY DEF Return
<1>2. co \in [Co -> CoState] /\ NoCo \notin Co
  BY PoolAssumption DEF CalmInv, TypeInv, TypeOK
<1>3. \A d \in Co : d # c => co'[d] = co[d] /\ co[d].pc \notin Locked
  BY <1>1, <1>2 DEF CalmInv, LockInv
<1>4. \A d \in Co : co'[d].pc \notin Locked
  BY <1>1, <1>2, <1>3, AfterState DEF Locked
<1>. QED
  BY <1>3, <1>4, BoundShrinks DEF OpenInv, Locked

\* Of one that goes on, nobody else is.
LEMMA GotoOpen ==
  ASSUME CalmInv, NEW c \in Co, lock \in {NoCo, c}, co[c].pc \notin {"idle", "saving"},
         \A d \in Co : d # c => co'[d] = co[d],
         /\ co'[c].pc \in {"look", "open", "connect", "check"}
              => cur' # 0 /\ obj'[1].status = "busy"
         /\ co'[c].pc = "destroy" => cur' # 0 /\ obj'[1].status = "terminating"
         /\ co'[c].pc = "runtime" => cur' # 0
         /\ co'[c].pc \in {"connect", "check"} => co'[c].orig = "busy"
         /\ co'[c].pc \in {"open", "destroy"} /\ co'[c].orig = "ready" => Free'
  PROVE  OpenInv' /\ Bound' \subseteq Bound
<1>1. NoCo \notin Co
  BY PoolAssumption
<1>2. \A d \in Co : d # c => co'[d].pc \notin Locked
  BY <1>1 DEF CalmInv, LockInv
<1>. QED
  BY <1>2, BoundShrinks DEF OpenInv, Locked

\* A step binds nobody, or one task to an environment that is offered.
Binds ==
  \/ Bound' \subseteq Bound
  \/ Offered /\ \E t \in Task : Bound' = Bound \cup {t}

EnvInv == RowInv /\ BoundInv /\ OpenInv

\* Row, object and bound tasks fit together after what tasks do.
LEMMA LeaseEnv ==
  ASSUME Calm, CalmInv, TypeInv', NEW t \in Task, LeaseStep(t)
  PROVE  EnvInv' /\ Binds
<1>. USE DEF process
<1>1. /\ co \in [Co -> CoState] /\ co' \in [Co -> CoState] /\ t \in Co /\ Task \subseteq Co
      /\ obj \in [Gen -> Env] /\ 1 \in Gen /\ cur \in {0, 1} /\ t # NoCo
  BY PoolAssumption, OneObject DEF CalmInv, TypeInv, TypeOK, Co
<1>2. CASE Acquire(t)
  <2>0. cur = 1 /\ obj[1] = Fresh
    BY <1>1, <1>2 DEF Acquire
  <2>00. Free
    BY <2>0 DEF CalmInv, BoundInv, Fresh
  <2>1. /\ cur = 1 /\ obj[1] = Fresh /\ Free
        /\ phase' = phase /\ cur' = cur /\ snap' = snap
        /\ obj' = [obj EXCEPT ![1] = [status |-> "busy", lease |-> t]] /\ row' = obj'[1]
        /\ co' = [co EXCEPT ![t].pc = "leased"]
    BY <1>2, <2>0, <2>00 DEF Acquire
  <2>2. obj'[1] = [status |-> "busy", lease |-> t] /\ obj[1].status = "ready"
    BY <1>1, <2>1 DEF Fresh
  <2>3. Bound' = {t} /\ Bound = {}
    BY <1>1, <2>1 DEF Bound, Free, CoState
  <2>4. RowInv'
    BY <2>1, <2>2 DEF CalmInv, RowInv
  <2>5. BoundInv'
    BY <2>2, <2>3 DEF BoundInv
  <2>6. \A c \in Co : co'[c].pc \in Locked => co'[c] = co[c]
    BY <1>1, <2>1 DEF CoState, Locked
  <2>7. OpenInv'
    BY <2>1, <2>2, <2>6 DEF CalmInv, OpenInv, Locked
  <2>. QED
    BY <1>2, <2>3, <2>4, <2>5, <2>7 DEF EnvInv, Binds, Offered, Acquire
<1>3. CASE ClaimRunning(t)
  BY <1>3 DEF ClaimRunning, Calm
<1>4. CASE AskStart(t) \/ RecycleTimesOut(t) \/ Finish(t)
  <2>1. /\ \A c \in Co : c # t => co'[c] = co[c]
        /\ co'[t].pc \notin Locked /\ UNCHANGED <<phase, row, obj, cur, snap>>
    BY <1>1, <1>4, AfterState DEF AskStart, RecycleTimesOut, Finish, Idle, Locked, CoState
  <2>2. co[t].pc \in {"idle", "saving"} => co'[t].pc = "idle"
    BY <1>1, <1>4 DEF AskStart, RecycleTimesOut, Finish, Idle, CalmInv, LockInv
  <2>3. Bound' \subseteq Bound
    BY <1>1, <2>1, <2>2 DEF Bound
  <2>4. OpenInv'
    BY <2>1, <2>3 DEF CalmInv, OpenInv, Locked, Free
  <2>. QED
    BY <2>1, <2>3, <2>4, KeepEnv DEF EnvInv, Binds
<1>5. CASE Release(t)
  <2>1. /\ \A c \in Co : c # t => co'[c] = co[c]
        /\ co'[t].pc \notin Locked /\ UNCHANGED <<phase, row, cur, snap>>
    BY <1>1, <1>5 DEF Release, Idle, Wants, Locked
  <2>2. t \in Bound
    BY <1>5 DEF Release, Bound
  <2>3. Bound' \subseteq Bound
    BY <1>1, <2>1, <2>2 DEF Bound
  <2>4. \/ obj' = obj
        \/ obj'[1].status = obj[1].status /\ obj'[1].lease = NoCo
    BY <1>1, <1>5 DEF Release, Env
  <2>5. OpenInv'
    BY <2>1, <2>3, <2>4 DEF CalmInv, OpenInv, Locked, Free
  <2>6. BoundInv'
    BY <2>1, <2>3, <2>4 DEF CalmInv, BoundInv, Free
  <2>7. RowInv'
    BY <2>1, <2>4 DEF CalmInv, RowInv
  <2>. QED
    BY <2>3, <2>5, <2>6, <2>7 DEF EnvInv, Binds
<1>. QED
  BY <1>2, <1>3, <1>4, <1>5 DEF LeaseStep

\* And after what is done first under the lock.
LEMMA EnterEnv ==
  ASSUME Calm, CalmInv, TypeInv', NEW c \in Co, Enter(c)
  PROVE  EnvInv' /\ Binds
<1>. USE DEF Locks, process
<1>1. /\ co[c].pc = "want" /\ co[c].op \notin {"stop", "resume"}
      /\ lock = NoCo /\ UNCHANGED <<phase, cur, snap>>
      /\ co \in [Co -> CoState] /\ co' \in [Co -> CoState]
      /\ cur \in {0, 1} /\ obj \in [Gen -> Env]
  BY OneObject DEF Enter, EnterGone, EnterStart, EnterStop, EnterDestroy, EnterPause, EnterResume,
    EnterRecycle, CalmInv, LockInv, TypeInv, TypeOK
<1>2. CASE EnterGone(c) \/ (EnterStart(c) /\ Return(c))
  <2>1. Return(c) /\ UNCHANGED <<row, obj>>
    BY <1>2 DEF EnterGone, EnterStart
  <2>. QED
    BY <1>1, <2>1, ReturnOpen, KeepEnv DEF EnvInv, Binds
<1>3. CASE (EnterStart(c) /\ ~Return(c)) \/ EnterRecycle(c)
  <2>1. /\ \A d \in Co : d # c => co'[d] = co[d]
        /\ \/ co'[c].pc = "runtime" /\ cur # 0
           \/ co'[c].pc = "close"
        /\ UNCHANGED <<row, obj>>
    BY <1>1, <1>3 DEF EnterStart, EnterRecycle, Goto, CoState
  <2>2. OpenInv' /\ Bound' \subseteq Bound
    BY <1>1, <2>1, GotoOpen
  <2>. QED
    BY <1>1, <2>1, <2>2, KeepEnv DEF EnvInv, Binds
<1>4. CASE EnterDestroy(c)
  <2>1. /\ \A d \in Co : d # c => co'[d] = co[d]
        /\ co'[c].pc = "destroy" /\ co'[c].orig = obj[1].status
        /\ cur = 1 /\ SetStatus("terminating")
    BY <1>1, <1>4 DEF EnterDestroy, Enters, CoState
  <2>2. obj'[1].lease = obj[1].lease /\ obj'[1].status = "terminating"
    BY <2>1, SetEffect DEF CalmInv, Status
  <2>3. Bound' \subseteq Bound
    BY <1>1, <2>1, BoundShrinks
  <2>4. co'[c].orig = "ready" => Free'
    BY <2>1, <2>2, <2>3 DEF CalmInv, BoundInv, Free
  <2>5. OpenInv'
    BY <1>1, <2>1, <2>2, <2>4, GotoOpen
  <2>. QED
    BY <1>1, <2>1, <2>3, <2>5, SetEnv DEF EnvInv, Binds, Status
<1>5. CASE EnterStop(c) \/ EnterResume(c)
  BY <1>1, <1>5 DEF EnterStop, EnterResume
<1>6. CASE EnterPause(c)
  <2>1. SetStatus("paused") /\ Return(c)
    BY <1>6 DEF EnterPause
  <2>. QED
    BY <1>1, <2>1, ReturnOpen, SetEnv DEF EnvInv, Binds, Status
<1>. QED
  BY <1>2, <1>3, <1>4, <1>5, <1>6 DEF Enter

\* And after what is awaited under the lock.
LEMMA ProceedEnv ==
  ASSUME Calm, CalmInv, TypeInv', NEW c \in Co, Proceed(c)
  PROVE  EnvInv' /\ Binds
<1>. USE DEF UnderLock, At, process
<1>1. /\ co[c].pc \in Locked /\ lock = c /\ co[c].ref = 1 /\ UNCHANGED <<phase, snap>>
      /\ co[c].pc \notin {"idle", "saving"} /\ co[c].op \notin {"stop", "resume"}
      /\ co \in [Co -> CoState] /\ co' \in [Co -> CoState] /\ co[c].orig \in Status
      /\ cur \in {0, 1} /\ obj \in [Gen -> Env] /\ 1 \in Gen /\ obj[1].status \in Status
  <2>1. co[c].pc \in Locked /\ UNCHANGED <<phase, snap>>
    BY DEF Proceed, RuntimeReady, Looked, Opened, Connected, ConnectFailed, Stopped, Recycled,
      Destroyed, Locked
  <2>2. co[c].pc \notin {"idle", "saving"}
    BY <2>1 DEF Locked
  <2>. QED
    BY <2>1, <2>2, OneObject DEF CalmInv, LockInv, TypeInv, TypeOK, Env
<1>2. ASSUME Return(c), UNCHANGED <<row, obj, cur>> PROVE EnvInv' /\ Binds
  BY <1>1, <1>2, ReturnOpen, KeepEnv DEF EnvInv, Binds
<1>3. ASSUME Return(c), UNCHANGED cur, NEW status \in Status, SetStatus(status),
             cur # 0 /\ status = "ready" => Free
      PROVE  EnvInv' /\ Binds
  BY <1>1, <1>3, ReturnOpen, SetEnv DEF EnvInv, Binds
<1>4. ASSUME UNCHANGED <<row, obj, cur>>, cur # 0, obj[1].status = "busy",
             NEW pc \in {"look", "connect", "check"},
             \A d \in Co : d # c => co'[d] = co[d],
             co'[c].pc = pc, pc # "look" => co'[c].orig = "busy"
      PROVE  EnvInv' /\ Binds
  <2>1. OpenInv' /\ Bound' \subseteq Bound
    BY <1>1, <1>4, GotoOpen
  <2>. QED
    BY <1>1, <1>4, <2>1, KeepEnv DEF EnvInv, Binds
<1>5. ASSUME cur # 0, UNCHANGED cur, Open(c) PROVE EnvInv' /\ Binds
  <2>1. /\ \A d \in Co : d # c => co'[d] = co[d]
        /\ co'[c].pc = "open" /\ co'[c].orig = obj[1].status
        /\ SetStatus("busy")
    BY <1>1, <1>5 DEF Open, GotoSaving, CoState
  <2>2. obj'[1].lease = obj[1].lease /\ obj'[1].status = "busy"
    BY <1>5, <2>1, SetEffect DEF CalmInv, Status
  <2>3. Bound' \subseteq Bound
    BY <1>1, <2>1, BoundShrinks
  <2>4. co'[c].orig = "ready" => Free'
    BY <1>5, <2>1, <2>2, <2>3 DEF CalmInv, BoundInv, Free
  <2>5. OpenInv'
    BY <1>1, <1>5, <2>1, <2>2, <2>4, GotoOpen
  <2>. QED
    BY <1>1, <1>5, <2>1, <2>3, <2>5, SetEnv DEF EnvInv, Binds, Status
<1>6. ASSUME cur # 0, obj[1].status = "busy", UNCHANGED cur, Connect(c)
      PROVE  EnvInv' /\ Binds
  <2>1. /\ \A d \in Co : d # c => co'[d] = co[d]
        /\ co'[c].pc = "connect" /\ co'[c].orig = "busy" /\ UNCHANGED <<row, obj>>
    BY <1>1, <1>6 DEF Connect, GotoSaving, CoState
  <2>. QED
    BY <1>4, <1>6, <2>1
<1>7. CASE RuntimeReady(c)
  <2>1. cur # 0 /\ UNCHANGED cur
    BY <1>7 DEF RuntimeReady, CalmInv, OpenInv
  <2>2. CASE Goto(c, "look")
    <3>1. \A d \in Co : d # c => co'[d] = co[d]
      BY <1>1, <2>2 DEF Goto
    <3>2. co'[c].pc = "look"
      BY <1>1, <2>2 DEF Goto, CoState
    <3>3. CASE obj[1].status = "busy" /\ UNCHANGED <<row, obj>>
      BY <1>4, <2>1, <3>1, <3>2, <3>3
    <3>. QED
      BY <1>1, <1>2, <1>5, <1>7, <2>1, <3>3 DEF RuntimeReady
  <2>. QED
    BY <1>1, <1>2, <1>5, <1>7, <2>1, <2>2 DEF RuntimeReady
<1>8. CASE Looked(c)
  <2>1. cur # 0 /\ UNCHANGED cur /\ obj[1].status = "busy"
    BY <1>8 DEF Looked, CalmInv, OpenInv
  <2>. QED
    BY <1>5, <1>6, <1>8, <2>1 DEF Looked
<1>9. CASE Opened(c)
  <2>1. /\ cur # 0 /\ UNCHANGED cur /\ obj[1].status = "busy"
        /\ co[c].orig = "ready" => Free
    BY <1>9 DEF Opened, CalmInv, OpenInv
  <2>. QED
    BY <1>1, <1>3, <1>6, <1>9, <2>1 DEF Opened
<1>10. CASE Connected(c)
  <2>1. cur # 0 /\ obj[1].status = "busy" /\ co[c].orig = "busy" /\ cur = 1
    BY <1>1, <1>10 DEF Connected, CalmInv, OpenInv
  <2>2. CASE Goto(c, "check") /\ UNCHANGED <<row, obj, cur, lock>>
    <3>1. /\ \A d \in Co : d # c => co'[d] = co[d]
          /\ co'[c].pc = "check" /\ co'[c].orig = "busy"
      BY <1>1, <2>1, <2>2 DEF Goto, CoState
    <3>. QED
      BY <1>4, <2>1, <2>2, <3>1
  <2>3. CASE ~(Goto(c, "check") /\ UNCHANGED <<row, obj, cur, lock>>)
    <3>1. row # Absent
      BY <1>1, <2>1 DEF CalmInv, RowInv, Absent, Status
    <3>2. /\ obj' = [obj EXCEPT ![1].status = "running"] /\ cur' = cur
          /\ row' = obj'[1] /\ Return(c)
      BY <1>1, <1>10, <2>1, <2>3, <3>1 DEF Connected
    <3>3. obj'[1].status = "running"
      BY <1>1, <3>2 DEF Env
    <3>4. OpenInv' /\ Bound' \subseteq Bound
      BY <1>1, <3>2, ReturnOpen
    <3>5. BoundInv'
      BY <3>3, <3>4 DEF CalmInv, BoundInv
    <3>6. RowInv'
      BY <1>1, <2>1, <3>2, <3>3 DEF CalmInv, RowInv
    <3>. QED
      BY <3>4, <3>5, <3>6 DEF EnvInv, Binds
  <2>. QED
    BY <2>2, <2>3
<1>11. CASE ConnectFailed(c)
  <2>1. co[c].orig = "busy"
    BY <1>11 DEF ConnectFailed, CalmInv, OpenInv
  <2>2. SetStatus("busy") /\ Return(c) /\ UNCHANGED cur
    BY <1>11, <2>1 DEF ConnectFailed
  <2>. QED
    BY <1>3, <2>2 DEF Status
<1>12. CASE Stopped(c)
  BY <1>1, <1>12 DEF Stopped
<1>13. CASE Recycled(c)
  <2>1. Return(c) /\ UNCHANGED cur
    BY <1>13 DEF Recycled
  <2>2. CASE SetStatus(obj[1].status)
    BY <1>1, <1>3, <2>1, <2>2 DEF CalmInv, BoundInv
  <2>3. CASE ~SetStatus(obj[1].status)
    \* Closed: the one that was bound lets go, so nobody is bound any more.
    <3>1. Bound' = {}
      <4>1. CASE c \in Task
        <5>1. c \in Bound
          BY <1>1, <4>1 DEF Bound
        <5>2. co' = [co EXCEPT ![c] = After(c)] /\ After(c).pc = "saving"
          BY <1>13, <2>1, <4>1 DEF Recycled, Return, After, Idle
        <5>3. \A t \in Task : t # c => co'[t].pc \in {"idle", "saving"}
          BY <1>1, <5>1, <5>2 DEF CalmInv, BoundInv, Bound, Co
        <5>. QED
          BY <1>1, <5>2, <5>3 DEF Bound
      <4>2. CASE c \notin Task
        <5>1. c = Boot
          BY <1>13, <4>2 DEF Recycled, CalmInv, LockInv, Co
        <5>2. phase # "up"
          BY <1>1, <5>1 DEF CalmInv, PhaseInv
        <5>3. Bound = {}
          BY <5>2 DEF CalmInv, PhaseInv, Bound
        <5>. QED
          BY <1>1, <2>1, <5>3, ReturnOpen
      <4>. QED
        BY <4>1, <4>2
    <3>2. SetStatusOf([obj EXCEPT ![1].lease = NoCo], "ready")
      BY <1>1, <1>13, <2>3 DEF Recycled
    <3>3. obj'[1].lease = NoCo /\ (cur = 1 => row' = [status |-> "ready", lease |-> NoCo]
                                             /\ obj'[1].status = "ready")
      BY <1>1, <3>2 DEF SetStatusOf, Env
    <3>4. cur = 0 => row' = row
      BY <3>2 DEF SetStatusOf
    <3>5. BoundInv'
      BY <3>1, <3>3 DEF BoundInv, Free
    <3>6. RowInv'
      BY <1>1, <2>1, <3>3, <3>4 DEF CalmInv, RowInv
    <3>. QED
      BY <1>1, <2>1, <3>1, <3>5, <3>6, ReturnOpen DEF EnvInv, Binds
  <2>. QED
    BY <2>2, <2>3
<1>14. CASE Destroyed(c)
  <2>1. CASE SetStatus(co[c].orig) /\ UNCHANGED cur
    <3>1. Return(c) /\ (co[c].orig = "ready" => Free)
      BY <1>14 DEF Destroyed, CalmInv, OpenInv
    <3>. QED
      BY <1>1, <1>3, <2>1, <3>1
  <2>2. CASE ~(SetStatus(co[c].orig) /\ UNCHANGED cur)
    <3>1. cur' = 0 /\ row' = Absent /\ UNCHANGED obj /\ Return(c)
      BY <1>14, <2>2 DEF Destroyed
    <3>2. RowInv'
      BY <1>1, <3>1 DEF CalmInv, RowInv, Absent
    <3>3. OpenInv' /\ Bound' \subseteq Bound
      BY <1>1, <3>1, ReturnOpen
    <3>4. BoundInv'
      BY <3>1, <3>3 DEF CalmInv, BoundInv
    <3>. QED
      BY <3>2, <3>3, <3>4 DEF EnvInv, Binds
  <2>. QED
    BY <2>1, <2>2
<1>. QED
  BY <1>7, <1>8, <1>9, <1>10, <1>11, <1>12, <1>13, <1>14 DEF Proceed

\* And after every other step.
LEMMA EnvStep ==
  ASSUME Calm, CalmInv, TypeInv', [Next]_vars
  PROVE  EnvInv' /\ Binds
<1>. USE DEF process
<1>1. ASSUME NEW c \in Operator, NEW op \in Ops, Ask(c, op) PROVE EnvInv' /\ Binds
  <2>1. /\ \A d \in Co : d # c => co'[d] = co[d]
        /\ co'[c].pc \notin Locked /\ c \notin Task /\ Task \subseteq Co
        /\ UNCHANGED <<phase, row, obj, cur, snap>>
    BY <1>1, PoolAssumption DEF Ask, CalmInv, TypeInv, TypeOK, CoState, Co, Locked
  <2>2. Bound' \subseteq Bound
    BY <2>1 DEF Bound
  <2>3. OpenInv'
    BY <2>1, <2>2 DEF CalmInv, OpenInv, Locked, Free
  <2>. QED
    BY <2>1, <2>2, <2>3, KeepEnv DEF EnvInv, Binds
<1>2. CASE ReloadRead \/ ReloadSwap
  BY <1>2 DEF ReloadRead, ReloadSwap, Calm, CalmInv, RowInv
<1>3. CASE StartUp \/ RecoverZombies \/ Ready
  <2>1. UNCHANGED co \/ \E op \in {"recycle", "destroy"} : BootAsks(op)
    BY <1>3 DEF StartUp, RecoverZombies, Ready
  <2>2. /\ \A c \in Co : co'[c].pc \in Locked => co'[c] = co[c]
        /\ \A t \in Task : co'[t] = co[t]
    BY <2>1, PoolAssumption DEF BootAsks, Wants, Locked, CalmInv, TypeInv, TypeOK, Co
  <2>3. Bound' = Bound
    BY <2>2 DEF Bound
  <2>4. CASE StartUp
    <3>1. /\ phase = "down" /\ phase' = "recover" /\ snap' = snap /\ row' = row
          /\ \/ row = Absent /\ cur' = 0
             \/ row # Absent /\ cur' = 1 /\ obj' = [obj EXCEPT ![1] = row]
      BY <2>4 DEF StartUp, CalmInv, RowInv
    <3>2. cur' = 1 => obj'[1] = row
      BY <3>1, OneObject DEF CalmInv
    <3>3. Bound = {} /\ \A c \in Co : co[c].pc = "idle"
      BY <3>1 DEF CalmInv, PhaseInv, Bound, Co
    <3>4. RowInv'
      BY <3>1, <3>2 DEF CalmInv, RowInv
    <3>5. BoundInv'
      BY <2>3, <3>1, <3>2, <3>3 DEF CalmInv, RowInv, BoundInv, Free
    <3>6. OpenInv'
      BY <2>2, <3>3 DEF OpenInv, Locked
    <3>. QED
      BY <2>3, <3>4, <3>5, <3>6 DEF EnvInv, Binds
  <2>5. CASE RecoverZombies \/ Ready
    <3>1. UNCHANGED <<row, obj, cur, snap>> /\ phase # "down" /\ phase' # "down"
      BY <2>5 DEF RecoverZombies, Ready
    <3>. QED
      BY <2>2, <2>3, <3>1 DEF CalmInv, RowInv, BoundInv, OpenInv, Free, Locked, EnvInv, Binds
  <2>. QED
    BY <1>3, <2>4, <2>5
<1>4. CASE ProcessEnds
  <2>1. cur' = 0 /\ snap' = NoSnap /\ row' = row /\ phase' = "down"
        /\ \A c \in Co : co'[c].pc = "idle"
    BY <1>4 DEF ProcessEnds, Idle
  <2>2. Bound' = {}
    BY <2>1 DEF Bound, Co
  <2>. QED
    BY <2>1, <2>2 DEF CalmInv, RowInv, BoundInv, OpenInv, EnvInv, Binds
<1>5. CASE UNCHANGED vars
  BY <1>5 DEF vars, CalmInv, RowInv, BoundInv, OpenInv, Free, Bound, EnvInv, Binds
<1>. QED
  BY <1>1, <1>2, <1>3, <1>4, <1>5, LeaseEnv, EnterEnv, ProceedEnv DEF Next

\* All of it holds at the start.
LEMMA CalmInit == Calm /\ Init => CalmInv
<1>. SUFFICES ASSUME Calm, Init PROVE CalmInv
  OBVIOUS
<1>1. \A c \in Co : co[c] = Idle
  BY DEF Init
<1>2. LockInv /\ OpenInv
  BY <1>1 DEF LockInv, OpenInv, Idle, Locked
<1>3. PhaseInv /\ RowInv
  BY <1>1 DEF Init, PhaseInv, RowInv, Idle, Fresh, Co
<1>4. Bound = {}
  BY <1>1 DEF Bound, Idle, Co
<1>5. BoundInv
  BY <1>4 DEF Init, BoundInv
<1>. QED
  BY <1>2, <1>3, <1>5, TypeInit DEF CalmInv

\* And is kept by every step.
LEMMA CalmStep == Calm /\ CalmInv /\ [Next]_vars => CalmInv' /\ Binds
  BY TypeStep, LockStep, EnvStep DEF CalmInv, EnvInv

LEMMA CalmAlways ==
  ASSUME Calm
  PROVE  Spec => []CalmInv
<1>1. Init => CalmInv
  BY CalmInit
<1>2. CalmInv /\ [Next]_vars => CalmInv'
  BY CalmStep
<1>. QED
  BY <1>1, <1>2, PTL DEF Spec

\* An environment nobody is bound to is the only one that is offered.
LEMMA OfferedFree == ASSUME Calm, CalmInv, Offered PROVE Bound = {}
  BY OneObject DEF CalmInv, BoundInv, Offered, Fresh, Free

-----------------------------------------------------------------------------
(* Theorems.                                                               *)

\* LeaseManager.acquire, ExecutionRunner and EnvironmentManager hand an
\* environment from task to task as EnvLease says: none gets it while another
\* is bound to it, through start, pause, destruction and clean-up by operators,
\* failures of the provider, releases that time out, crashes and recovery.
THEOREM LeaseKept ==
  ASSUME Calm
  PROVE  Spec => KeepsLease
<1>1. Init => Lease!Init
  <2>1. Init => Bound = {}
    BY DEF Init, Bound, Idle, Co
  <2>2. Init => Offered = FALSE
    BY DEF Init, Offered
  <2>. QED
    BY <2>1, <2>2 DEF Lease!Init
<1>2. CalmInv /\ [Next]_vars => [Lease!Next]_<<Bound, Offered>>
  <2>. SUFFICES ASSUME CalmInv, [Next]_vars PROVE [Lease!Next]_<<Bound, Offered>>
    OBVIOUS
  <2>1. CalmInv' /\ Binds
    BY CalmStep
  <2>2. Offered \in BOOLEAN /\ Offered' \in BOOLEAN
    BY Zenon DEF Offered
  <2>3. (\A t, u \in Bound : t = u) /\ (\A t, u \in Bound' : t = u)
    BY <2>1 DEF CalmInv, BoundInv
  <2>4. Bound # {} => Offered = FALSE
    BY <2>2, OfferedFree
  <2>5. Bound' # {} => Offered' = FALSE
    <3>1. Bound' # {} => ~Offered'
      <4>1. cur' \in {0, 1}
        BY <2>1, TypeStep DEF CalmInv, TypeInv, TypeOK, Calm
      <4>. QED
        BY <2>1, <4>1 DEF CalmInv, BoundInv, Free, Offered, Fresh
    <3>. QED
      BY <2>2, <3>1
  <2>6. CASE Bound = {}
    <3>1. CASE Bound' = {}
      BY <2>2, <2>6, <3>1 DEF Lease!Next, Lease!Operate
    <3>2. CASE Bound' # {}
      <4>1. Offered /\ \E t \in Task : Bound' = {t}
        BY <2>1, <2>6, <3>2 DEF Binds
      <4>. QED
        BY <2>5, <2>6, <3>2, <4>1 DEF Lease!Next, Lease!Grab
    <3>. QED
      BY <3>1, <3>2
  <2>7. CASE Bound # {}
    <3>1. Bound' \subseteq Bound
      BY <2>1, <2>4, <2>7 DEF Binds
    <3>2. Bound' = {} \/ Bound' = Bound
      BY <2>3, <3>1
    <3>3. CASE Bound' = {}
      BY <2>2, <2>7, <3>3 DEF Lease!Next, Lease!Drop
    <3>4. CASE Bound' = Bound
      BY <2>4, <2>5, <2>7, <3>4
    <3>. QED
      BY <3>2, <3>3, <3>4
  <2>. QED
    BY <2>6, <2>7
<1>. QED
  BY <1>1, <1>2, CalmAlways, PTL DEF Spec, KeepsLease, Lease!Spec

\* At most one task owns a lease of the environment (LeaseManager.acquire).
THEOREM HolderAlone ==
  ASSUME Calm
  PROVE  Spec => []Exclusive
<1>1. CalmInv => Exclusive
  <2>. SUFFICES ASSUME CalmInv PROVE Cardinality(Holders) <= 1
    BY DEF Exclusive
  <2>1. \A t, u \in Holders : t = u
    BY DEF CalmInv, BoundInv, Holders
  <2>2. CASE Holders = {}
    BY <2>2, FS_EmptySet
  <2>3. CASE Holders # {}
    <3>1. PICK t \in Holders : TRUE
      BY <2>3
    <3>2. Holders = {t}
      BY <2>1, <3>1
    <3>. QED
      BY <3>2, FS_Singleton
  <2>. QED
    BY <2>2, <2>3
<1>. QED
  BY <1>1, CalmAlways, PTL

\* A recycle never closes the window under a task that has leased the
\* environment since (EnvironmentManager.recycle_env).
THEOREM RecycleSafe ==
  ASSUME Calm
  PROVE  Spec => []RecycleSparesHolders
<1>1. CalmInv => RecycleSparesHolders
  BY DEF CalmInv, BoundInv, RecycleSparesHolders, At, Bound, Holders
<1>. QED
  BY <1>1, CalmAlways, PTL

\* A crash at any point leaves a row that start-up recycles if a task was bound
\* to the environment (LeaseManager.acquire, EnvironmentManager.startup).
THEOREM LeaseRecorded ==
  ASSUME Calm
  PROVE  Spec => []HeldIsRecorded
<1>1. CalmInv => HeldIsRecorded
  <2>. SUFFICES ASSUME CalmInv, Bound # {} PROVE row.status # "ready"
    BY DEF HeldIsRecorded
  <2>1. phase # "down"
    BY DEF CalmInv, PhaseInv, Bound
  <2>2. CASE cur = 0
    BY <2>1, <2>2 DEF CalmInv, RowInv, Absent
  <2>3. CASE cur # 0
    BY <2>3 DEF CalmInv, RowInv, BoundInv, Free
  <2>. QED
    BY <2>2, <2>3
<1>. QED
  BY <1>1, CalmAlways, PTL

\* A ready environment never keeps the lease of a task that is over
\* (EnvironmentManager.release, recycle_env).
THEOREM LeaseNeverDead ==
  ASSUME Calm
  PROVE  Spec => []NoDeadLease
<1>1. CalmInv => NoDeadLease
  BY OneObject DEF CalmInv, BoundInv, Free, NoDeadLease
<1>. QED
  BY <1>1, CalmAlways, PTL

-----------------------------------------------------------------------------
(* What was destroyed stays out of the pool, whatever operators and reloads *)
(* do: this needs no calm.                                                 *)

\* The lifecycle lock excludes; a start under it has an environment in the pool;
\* pool and database agree on whether there is one, and so does what a reload has
\* read and not yet put in.
ExclInv == \A c \in Co : co[c].pc \in Locked => lock = c /\ (co[c].op = "start" => cur # 0)

SameInv ==
  /\ phase = "down" => cur = 0 /\ snap = NoSnap
  /\ phase # "down" => (cur = 0 <=> row = Absent)
  /\ snap # NoSnap => (snap = Absent <=> row = Absent)

GoneInv == TypeInv /\ ExclInv /\ SameInv

\* A row has a status, and so differs from none.
LEMMA RowExists == Absent \notin Env
  BY DEF Absent, Env, Status

\* Rows are changed while there is an environment, and not behind a reload.
Edits == UNCHANGED row \/ (cur # 0 /\ row' \in Env /\ row # Absent)

LEMMA EditsSame ==
  ASSUME GoneInv, Edits, UNCHANGED <<phase, cur, snap>>
  PROVE  SameInv'
  BY RowExists DEF GoneInv, SameInv, Edits

LEMMA SetEdits ==
  ASSUME GoneInv, NEW o \in [Gen -> Env], NEW status \in Status, SetStatusOf(o, status)
  PROVE  Edits
<1>1. CASE cur = 0
  BY <1>1 DEF SetStatusOf, Edits
<1>2. CASE cur # 0
  <2>1. o[cur].lease \in Task \cup {NoCo}
    BY <1>2 DEF GoneInv, TypeInv, TypeOK, Gen, Env
  <2>2. row' \in Env
    BY <1>2, <2>1 DEF SetStatusOf, Env
  <2>. QED
    BY <1>2, <2>2 DEF GoneInv, SameInv, Edits
<1>. QED
  BY <1>1, <1>2

\* An operation that ends leaves nobody under the lock.
LEMMA ReturnExcl ==
  ASSUME GoneInv, NEW c \in Co, Return(c), lock \in {NoCo, c}
  PROVE  ExclInv'
<1>1. co \in [Co -> CoState] /\ NoCo \notin Co
  BY PoolAssumption DEF GoneInv, TypeInv, TypeOK
<1>2. co'[c].pc \notin Locked
  BY <1>1, LocalType DEF Return, GoneInv
<1>3. \A d \in Co \ {c} : co'[d] = co[d] /\ co[d].pc \notin Locked
  BY <1>1 DEF Return, GoneInv, ExclInv
<1>. QED
  BY <1>2, <1>3 DEF ExclInv

\* One that has the lock or takes it goes on under it alone.
LEMMA GotoExcl ==
  ASSUME GoneInv, NEW c \in Co, lock \in {NoCo, c}, lock' = c,
         \A d \in Co \ {c} : co'[d] = co[d],
         co'[c].op = "start" => cur' # 0
  PROVE  ExclInv'
<1>1. \A d \in Co \ {c} : co[d].pc \notin Locked
  BY PoolAssumption DEF GoneInv, ExclInv
<1>. QED
  BY <1>1 DEF ExclInv

LEMMA EnterGoneInv ==
  ASSUME GoneInv, NEW c \in Co, Enter(c)
  PROVE  ExclInv' /\ SameInv' /\ UNCHANGED cur
<1>. USE DEF Locks, process
<1>1. co \in [Co -> CoState] /\ (cur # 0 => cur \in Gen) /\ obj \in [Gen -> Env]
  BY DEF GoneInv, TypeInv, TypeOK, Gen
<1>2. UNCHANGED <<phase, cur, snap>> /\ lock = NoCo
  BY DEF Enter, EnterGone, EnterStart, EnterStop, EnterDestroy, EnterPause, EnterResume,
     EnterRecycle
<1>3. CASE EnterGone(c) \/ EnterRecycle(c) \/ EnterStart(c)
  <2>1. UNCHANGED row
    BY <1>3 DEF EnterGone, EnterStart, EnterRecycle
  <2>2. CASE Return(c)
    BY <1>2, <2>1, <2>2, ReturnExcl, EditsSame DEF Edits
  <2>3. CASE EnterRecycle(c)
    <3>1. /\ lock' = c /\ co'[c].op # "start" /\ \A d \in Co \ {c} : co'[d] = co[d]
      BY <2>3, <1>1 DEF EnterRecycle, Goto, CoState
    <3>. QED
      BY <1>2, <2>1, <3>1, GotoExcl, EditsSame DEF Edits
  <2>4. CASE EnterStart(c) /\ ~Return(c)
    <3>1. /\ lock' = c /\ cur # 0 /\ \A d \in Co \ {c} : co'[d] = co[d]
      BY <2>4, <1>1 DEF EnterStart
    <3>. QED
      BY <1>2, <2>1, <3>1, GotoExcl, EditsSame DEF Edits
  <2>. QED
    BY <1>3, <2>2, <2>3, <2>4 DEF EnterGone
<1>4. CASE EnterStop(c) \/ EnterDestroy(c)
  <2>1. PICK pc \in Locked, status \in Status : Enters(c, pc, status)
    BY <1>4 DEF EnterStop, EnterDestroy, Status, Locked
  <2>2. lock' = c /\ cur # 0 /\ \A d \in Co \ {c} : co'[d] = co[d]
    BY <1>1, <1>4, <2>1 DEF Enters, EnterStop, EnterDestroy
  <2>3. Edits
    BY <1>1, <2>1, SetEdits DEF Enters, SetStatus
  <2>. QED
    BY <1>2, <2>2, <2>3, GotoExcl, EditsSame
<1>5. CASE EnterPause(c) \/ EnterResume(c)
  <2>1. Return(c) /\ \E status \in Status : SetStatusOf(obj, status)
    BY <1>5 DEF EnterPause, EnterResume, SetStatus, Status
  <2>2. Edits
    BY <1>1, <2>1, SetEdits
  <2>. QED
    BY <1>2, <2>1, <2>2, ReturnExcl, EditsSame
<1>. QED
  BY <1>2, <1>3, <1>4, <1>5 DEF Enter

LEMMA ProceedGone ==
  ASSUME GoneInv, NEW c \in Co, Proceed(c)
  PROVE  ExclInv' /\ SameInv' /\ (cur = 0 => cur' = 0)
<1>. USE DEF UnderLock, At, process
<1>1. /\ co \in [Co -> CoState] /\ obj \in [Gen -> Env] /\ co[c].pc \in Locked /\ lock = c
      /\ UNCHANGED <<phase, snap>>
  BY DEF Proceed, RuntimeReady, Looked, Opened, Connected, ConnectFailed, Stopped, Recycled,
     Destroyed, Locked, GoneInv, TypeInv, TypeOK, ExclInv
<1>2. co[c].ref \in Gen /\ obj[co[c].ref].status \in Status /\ co[c].orig \in Status
  BY <1>1 DEF GoneInv, TypeInv, TypeOK, RefInv, Gen, Env, CoState
<1>3. CASE Connected(c) /\ Return(c)
  <2>1. cur # 0 /\ ExclInv'
    BY <1>1, <1>3, ReturnExcl DEF Connected, GoneInv, ExclInv, Locked
  <2>2. phase # "down" /\ row # Absent
    BY <2>1 DEF GoneInv, SameInv
  <2>3. CASE UNCHANGED <<row, cur>>
    BY <1>1, <2>1, <2>3 DEF GoneInv, SameInv
  <2>4. CASE cur' = co[c].ref /\ row' = obj'[cur'] /\ obj' = [obj EXCEPT ![cur].status = "running"]
             /\ snap = NoSnap
    <3>1. obj' \in [Gen -> Env]
      BY <1>1, <2>4 DEF Env, Status
    <3>2. cur' # 0 /\ row' # Absent
      BY <1>2, <2>4, <3>1, RowExists DEF Gen
    <3>. QED
      BY <1>1, <2>1, <2>2, <2>4, <3>2 DEF SameInv
  <2>. QED
    BY <1>3, <2>1, <2>2, <2>3, <2>4 DEF Connected
<1>4. CASE Destroyed(c) /\ cur' = 0 /\ row' = Absent /\ snap = NoSnap
  <2>1. Return(c)
    BY <1>4 DEF Destroyed
  <2>. QED
    BY <1>1, <1>4, <2>1, ReturnExcl DEF GoneInv, SameInv
<1>5. CASE ~(Connected(c) /\ Return(c)) /\ ~(Destroyed(c) /\ cur' = 0 /\ row' = Absent /\ snap = NoSnap)
  <2>1. UNCHANGED cur
    BY <1>5 DEF Proceed, RuntimeReady, Looked, Opened, Connected, ConnectFailed, Stopped,
       Recycled, Destroyed
  <2>2. UNCHANGED row \/ \E o \in [Gen -> Env], status \in Status : SetStatusOf(o, status)
    <3>1. [obj EXCEPT ![co[c].ref].lease = NoCo] \in [Gen -> Env]
      BY <1>1, <1>2 DEF Env
    <3>. QED
      BY <1>1, <1>2, <1>5, <3>1
      DEF Proceed, RuntimeReady, Looked, Opened, Connected, ConnectFailed, Stopped, Recycled,
          Destroyed, Open, Connect, SetStatus, Status
  <2>3. Edits
    BY <2>2, SetEdits DEF Edits
  <2>4. CASE Return(c)
    BY <1>1, <2>1, <2>3, <2>4, ReturnExcl, EditsSame
  <2>5. CASE ~Return(c)
    <3>1. co[c].op = "start" /\ cur # 0
      BY <1>1, <1>5, <2>5
      DEF Proceed, RuntimeReady, Looked, Opened, Connected, ConnectFailed, Stopped, Recycled,
          Destroyed, GoneInv, ExclInv
    <3>2. lock' = c /\ \E pc \in Locked, s \in Status : Goto(c, pc) \/ GotoSaving(c, pc, s)
      BY <1>1, <1>2, <1>5, <2>5
      DEF Proceed, RuntimeReady, Looked, Opened, Connected, ConnectFailed, Stopped, Recycled,
          Destroyed, Open, Connect, Locked
    <3>3. \A d \in Co \ {c} : co'[d] = co[d]
      BY <1>1, <3>2 DEF Goto, GotoSaving
    <3>. QED
      BY <1>1, <2>1, <2>3, <3>1, <3>2, <3>3, GotoExcl, EditsSame
  <2>. QED
    BY <2>1, <2>4, <2>5
<1>. QED
  BY <1>3, <1>4, <1>5

LEMMA GoneStep ==
  ASSUME GoneInv, [Next]_vars
  PROVE  GoneInv' /\ (phase = "up" /\ cur = 0 => cur' = 0)
<1>. USE DEF process
<1>1. TypeInv'
  BY TypeStep DEF GoneInv
<1>2. co \in [Co -> CoState] /\ NoCo \notin Co /\ Boot \in Co /\ Task \cup Operator \subseteq Co
  BY PoolAssumption DEF GoneInv, TypeInv, TypeOK, Co
<1>3. ASSUME NEW t \in Task, LeaseStep(t)
      PROVE  ExclInv' /\ SameInv' /\ UNCHANGED cur
  <2>1. UNCHANGED <<phase, cur, snap>>
    BY <1>3 DEF LeaseStep, Acquire, ClaimRunning, AskStart, Release, RecycleTimesOut, Finish
  <2>2. Edits
    <3>1. CASE Acquire(t) \/ ClaimRunning(t)
      <4>1. row' = obj'[cur] /\ cur # 0 /\ cur' = cur /\ phase = "up"
        BY <3>1 DEF Acquire, ClaimRunning
      <4>2. row' \in Env
        BY <1>1, <4>1 DEF TypeInv, TypeOK, Gen
      <4>. QED
        BY <4>1, <4>2 DEF Edits, GoneInv, SameInv
    <3>. QED
      BY <1>3, <3>1 DEF LeaseStep, AskStart, Release, RecycleTimesOut, Finish, Edits
  <2>3. ExclInv'
    <3>1. /\ \A d \in Co \ {t} : co'[d] = co[d]
          /\ co'[t].pc \notin Locked /\ lock' \in {lock, IF lock = t THEN NoCo ELSE lock}
      <4>1. CASE RecycleTimesOut(t)
        BY <1>2, <4>1, LocalType DEF RecycleTimesOut, GoneInv
      <4>. QED
        BY <1>2, <1>3, <4>1
        DEF LeaseStep, Acquire, ClaimRunning, AskStart, Release, Finish, Locked, Wants, Idle, CoState
    <3>. QED
      BY <1>2, <2>1, <3>1 DEF GoneInv, ExclInv
  <2>. QED
    BY <2>1, <2>2, <2>3, EditsSame
<1>4. ASSUME NEW c \in Operator, NEW op \in Ops, Ask(c, op)
      PROVE  ExclInv' /\ SameInv' /\ UNCHANGED cur
  BY <1>2, <1>4 DEF Ask, GoneInv, ExclInv, SameInv, Locked, CoState
<1>5. CASE ReloadRead \/ ReloadSwap
  <2>1. ExclInv'
    BY <1>5 DEF ReloadRead, ReloadSwap, GoneInv, ExclInv, SameInv, Gen, Unused
  <2>. QED
    BY <1>1, <1>5, <2>1 DEF ReloadRead, ReloadSwap, GoneInv, SameInv, Gen
<1>6. CASE StartUp \/ RecoverZombies \/ Ready
  <2>1. UNCHANGED co \/ \E op \in {"recycle", "destroy"} : BootAsks(op)
    BY <1>6 DEF StartUp, RecoverZombies, Ready
  <2>2. \A c \in Co : co'[c] = co[c] \/ co'[c].pc \notin Locked
    BY <1>2, <2>1 DEF BootAsks, Wants, Locked
  <2>3. /\ UNCHANGED <<lock, snap, row>> /\ phase # "up" /\ phase' # "down"
        /\ cur # 0 => cur' # 0
        /\ phase = "down" => (cur' = 0 <=> row = Absent)
        /\ phase # "down" => UNCHANGED cur
    BY <1>6 DEF StartUp, RecoverZombies, Ready, GoneInv, SameInv
  <2>4. ExclInv'
    BY <2>2, <2>3 DEF GoneInv, ExclInv
  <2>. QED
    BY <1>1, <2>3, <2>4 DEF GoneInv, SameInv
<1>7. CASE ProcessEnds
  BY <1>1, <1>7 DEF ProcessEnds, GoneInv, ExclInv, SameInv, Idle, Locked
<1>8. CASE UNCHANGED vars
  BY <1>1, <1>8 DEF vars, GoneInv, ExclInv, SameInv
<1>. QED
  BY <1>1, <1>3, <1>4, <1>5, <1>6, <1>7, <1>8, EnterGoneInv, ProceedGone DEF Next, GoneInv

\* What was destroyed stays out of the pool although a start that finds it
\* connected puts its object there (EnvPool.add), and whatever a reload has read.
THEOREM GoneForGood == Spec => GoneStaysGone
<1>1. Init => GoneInv
  BY TypeInit DEF Init, GoneInv, ExclInv, SameInv, Idle, Locked
<1>2. GoneInv /\ [Next]_vars => GoneInv'
  BY GoneStep
<1>3. GoneInv /\ [Next]_vars => [phase = "up" /\ cur = 0 => cur' = 0]_vars
  BY GoneStep
<1>. QED
  BY <1>1, <1>2, <1>3, PTL DEF Spec, GoneStaysGone
===============================================================================
