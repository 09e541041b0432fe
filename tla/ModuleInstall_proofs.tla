------------------------ MODULE ModuleInstall_proofs ------------------------
(***************************************************************************)
(* Proofs about ModuleInstall, for any number of upgrades, jobs, versions, *)
(* faults and restarts.                                                    *)
(***************************************************************************)
EXTENDS ModuleInstall, TLAPS

-----------------------------------------------------------------------------
(* Type correctness.                                                       *)

InstType ==
  [pc : {"none", "staged", "aside", "placed", "failed", "active", "unlinked",
         "removing", "clearing", "forgetting"},
   by : Upgraders \cup {User, Nobody}, ver : Version \cup {None}, old : Dir]
UpType ==
  [pc : {"idle", "confirmed", "counting", "installing"},
   from : Version \cup {None}, to : Version \cup {None},
   left : SUBSET Jobs, busy : BOOLEAN, early : SUBSET Jobs]
RegType ==
  [src : {"none", "external", "dev"}, ver : Version \cup {None, Torn}, status : Statuses]

\* What the registry loads is well-formed, and its data contract is of a version.
LEMMA LoadType ==
  ASSUME NEW d \in Dir, NEW l \in BOOLEAN, NEW s \in {"none", "enabled", "disabled"},
         data \in Version \cup {None}, Load(d, l, s)
  PROVE  reg' \in RegType /\ data' \in Version \cup {None} /\ shown' \in Statuses
<1>1. Loaded(d, l, s) \in RegType
  BY DEF Loaded, RegType, Absent, Persisted, Dir, Statuses
<1>2. Synced(Loaded(d, l, s)) \in RegType
  BY <1>1 DEF Synced, RegType, Statuses
<1>3. DataOf(Loaded(d, l, s)) \in Version \cup {None}
  BY <1>1 DEF DataOf
<1>. QED
  BY <1>2, <1>3 DEF Load, RegType

\* An upgrade that is over, or begins, is well-formed.
LEMMA NoneType == NoUp \in UpType /\ NoInst \in InstType
  BY DEF NoUp, UpType, NoInst, InstType, Dir

\* A step of an install or uninstall keeps the rest of its record.
LEMMA StepType ==
  ASSUME inst \in InstType,
         NEW pc \in {"none", "staged", "aside", "placed", "failed", "active", "unlinked",
                     "removing", "clearing", "forgetting"},
         Step(pc)
  PROVE  inst' \in InstType
  BY DEF Step, InstType

LEMMA ReleaseType ==
  ASSUME up \in [Upgraders -> UpType], holder \in Upgraders \cup {Nobody}, kv \in BOOLEAN, Release
  PROVE  /\ up' \in [Upgraders -> UpType]
         /\ holder' \in Upgraders \cup {Nobody} /\ kv' \in BOOLEAN
  BY NoneType DEF Release

\* The type invariant holds in every reachable state.
LEMMA TypeInit == Init => TypeOK
<1>. SUFFICES ASSUME Init PROVE TypeOK
  OBVIOUS
<1>1. reg \in RegType /\ shown \in Statuses
  BY DEF Init, RegType, Absent, Statuses
<1>2. inst \in InstType /\ up \in [Upgraders -> UpType]
  BY NoneType DEF Init
<1>3. restarts \in 0..MaxRestart
  BY InstallAssumption DEF Init
<1>4. dir \in Dir /\ backup \in Dir /\ data \in Version \cup {None}
  BY DEF Init, Dir
<1>. QED
  BY <1>1, <1>2, <1>3, <1>4 DEF Init, TypeOK, InstType, UpType, RegType

LEMMA TypeNext == TypeOK /\ [Next]_vars => TypeOK'
<1>. SUFFICES ASSUME TypeOK, [Next]_vars PROVE TypeOK'
  OBVIOUS
<1>t. /\ inst \in InstType /\ up \in [Upgraders -> UpType] /\ reg \in RegType
      /\ dir \in Dir /\ backup \in Dir /\ link \in BOOLEAN
      /\ saved \in {"none", "enabled", "disabled"} /\ data \in Version \cup {None}
      /\ shown \in Statuses /\ holder \in Upgraders \cup {Nobody} /\ kv \in BOOLEAN
      /\ job \in [Jobs -> {"idle", "checked", "running"}] /\ restarts \in 0..MaxRestart
  BY DEF TypeOK, InstType, UpType, RegType
<1>s. SUFFICES /\ inst' \in InstType /\ up' \in [Upgraders -> UpType] /\ reg' \in RegType
               /\ dir' \in Dir /\ backup' \in Dir /\ link' \in BOOLEAN
               /\ saved' \in {"none", "enabled", "disabled"} /\ data' \in Version \cup {None}
               /\ shown' \in Statuses /\ holder' \in Upgraders \cup {Nobody} /\ kv' \in BOOLEAN
               /\ job' \in [Jobs -> {"idle", "checked", "running"}] /\ restarts' \in 0..MaxRestart
  BY DEF TypeOK, InstType, UpType, RegType
<1>1. CASE Refresh
  BY <1>1, <1>t, LoadType DEF Refresh
<1>2. ASSUME NEW on \in BOOLEAN, SetDevLink(on) PROVE <1>s!1
  BY <1>2, <1>t, LoadType DEF SetDevLink
<1>3. CASE EnableModule
  <2>1. saved' \in {"none", "enabled", "disabled"}
    BY <1>3, <1>t DEF EnableModule
  <2>. QED
    BY <1>3, <1>t, <2>1, LoadType DEF EnableModule
<1>4. CASE DisableModule
  BY <1>4, <1>t, LoadType DEF DisableModule
<1>5. ASSUME NEW v \in Version, UserInstalls(v) PROVE <1>s!1
  BY <1>5, <1>t DEF UserInstalls, Begin, InstType, disk
<1>6. CASE Installing
  <2>1. CASE MoveAside
    BY <2>1, <1>t, StepType DEF MoveAside, Rest, Dir
  <2>2. CASE MoveAsideFails
    BY <2>2, <1>t, StepType DEF MoveAsideFails, Rest, Dir
  <2>3. CASE Place
    BY <2>3, <1>t, StepType DEF Place, Rest, Dir, InstType
  <2>4. CASE PlaceFails
    BY <2>4, <1>t, StepType DEF PlaceFails, Restore, Rest, Dir
  <2>5. CASE ProbeFails
    BY <2>5, <1>t, StepType DEF ProbeFails, Restore, Rest, Dir
  <2>6. CASE Activate
    BY <2>6, <1>t, StepType DEF Activate, Rest, Dir
  <2>7. CASE Unlink
    BY <2>7, <1>t, StepType DEF Unlink
  <2>8. CASE Register
    <3> DEFINE m == [src |-> "external", ver |-> inst.ver, status |-> Persisted(saved)]
    <3>1. m \in RegType
      BY <1>t DEF RegType, InstType, Persisted, Statuses
    <3>2. Synced(m) \in RegType /\ DataOf(m) \in Version \cup {None}
      BY <3>1, <1>t DEF Synced, DataOf, RegType, Statuses
    <3>3. reg' = Synced(m) /\ data' = DataOf(m)
          /\ shown' = IF Synced(m).status = "invalid" THEN shown ELSE Synced(m).status
      BY <2>8 DEF Register
    <3>4. shown' \in Statuses
      BY <3>2, <3>3, <1>t DEF RegType
    <3>. QED
      BY <2>8, <3>2, <3>3, <3>4, <1>t, ReleaseType, NoneType DEF Register
  <2>9. CASE GiveUp
    BY <2>9, <1>t, ReleaseType, NoneType DEF GiveUp, disk
  <2>10. CASE RemoveDir
    <3>1. inst' \in InstType
      BY <2>10, <1>t, StepType, NoneType DEF RemoveDir
    <3>. QED
      BY <2>10, <3>1, <1>t DEF RemoveDir, Rest, Dir
  <2>11. CASE ClearRecords
    BY <2>11, <1>t, StepType DEF ClearRecords
  <2>12. CASE Forget
    BY <2>12, <1>t, NoneType DEF Forget, Absent, RegType, Statuses
  <2>. QED
    BY <1>6, <2>1, <2>2, <2>3, <2>4, <2>5, <2>6, <2>7, <2>8, <2>9, <2>10, <2>11, <2>12
    DEF Installing
<1>7. CASE Uninstall
  BY <1>7, <1>t DEF Uninstall, InstType, NoInst, disk, Dir
<1>8. ASSUME NEW u \in Upgraders, NEW v \in Version, Confirm(u, v) PROVE <1>s!1
  <2>1. [NoUp EXCEPT !.pc = "confirmed", !.from = reg.ver, !.to = v] \in UpType
    BY <1>8, <1>t DEF Confirm, NoUp, UpType, RegType
  <2>. QED
    BY <1>8, <2>1, <1>t DEF Confirm, disk
<1>9. ASSUME NEW u \in Upgraders, Apply(u) PROVE <1>s!1
  <2>1. up' \in [Upgraders -> UpType]
    BY <1>9, <1>t, NoneType DEF Apply, UpType
  <2>. QED
    BY <1>9, <2>1, <1>t DEF Apply, disk
<1>10. ASSUME NEW u \in Upgraders, ApplyEnds(u) PROVE <1>s!1
  <2>1. up' \in [Upgraders -> UpType]
    BY <1>10, <1>t, NoneType DEF ApplyEnds, UpType
  <2>2. inst' \in InstType
    BY <1>10, <1>t DEF ApplyEnds, InstType, UpType, Begin
  <2>. QED
    BY <1>10, <2>1, <2>2, <1>t DEF ApplyEnds, disk
<1>11. ASSUME NEW u \in Upgraders, NEW j \in Jobs, CountTasks(u, j) PROVE <1>s!1
  <2>1. up[u].left \ {j} \in SUBSET Jobs /\ (up[u].busy \/ job[j] = "running") \in BOOLEAN
    BY <1>t DEF UpType
  <2>2. [up[u] EXCEPT !.left = up[u].left \ {j}, !.busy = up[u].busy \/ job[j] = "running"]
          \in UpType
    BY <2>1, <1>t DEF UpType
  <2>3. up' = [up EXCEPT ![u] = [up[u] EXCEPT !.left = up[u].left \ {j},
                                            !.busy = up[u].busy \/ job[j] = "running"]]
    BY <1>11, <1>t DEF CountTasks
  <2>4. up' \in [Upgraders -> UpType]
    BY <2>2, <2>3, <1>t
  <2>. QED
    BY <1>11, <2>4, <1>t DEF CountTasks, disk
<1>12. ASSUME NEW j \in Jobs, JobChecks(j) \/ JobRuns(j) \/ JobEnds(j) PROVE <1>s!1
  BY <1>12, <1>t DEF JobChecks, JobRuns, JobEnds, disk
<1>13. CASE LockExpires
  BY <1>13, <1>t DEF LockExpires, disk
<1>14. CASE Restart
  BY <1>14, <1>t, LoadType, NoneType, InstallAssumption DEF Restart
<1>15. CASE UNCHANGED vars
  BY <1>15, <1>t DEF vars, disk
<1>. QED
  BY <1>1, <1>2, <1>3, <1>4, <1>5, <1>6, <1>7, <1>8, <1>9, <1>10, <1>11, <1>12, <1>13,
     <1>14, <1>15 DEF Next

\* Every state is type correct: directories, records, locks and jobs stay in
\* their sets whatever fails or ends (registry.py, release_service.py).
THEOREM TypeCorrect == Spec => []TypeOK
  BY TypeInit, TypeNext, PTL DEF Spec

-----------------------------------------------------------------------------
(* The inductive invariant.                                                *)

\* The registry runs what the directory would hold with the version d.
Agrees(d) ==
  d \in Version => IF link THEN reg.src = "dev" ELSE reg.src = "external" /\ reg.ver = d

\* What an install in progress has done to the disk so far, and what a failed
\* one leaves behind.
WorkInv ==
  /\ Free => inst = NoInst
  /\ inst.pc = "staged" => dir = inst.old
  /\ inst.pc \in {"aside", "placed"} => backup = inst.old
  /\ inst.pc = "failed" => dir \in {inst.old, None}
  /\ inst.pc \in {"placed", "active", "unlinked"} => dir = inst.ver
  /\ inst.pc \in {"staged", "aside", "placed", "active", "unlinked"} => inst.ver \in Version
  /\ inst.pc = "unlinked" => ~link
  /\ inst.pc \in {"clearing", "forgetting"} => dir = None
  /\ inst.pc \in {"removing", "clearing", "forgetting"} => inst.by = User

\* The registry agrees with the directory, or with what it was when an install
\* began.
RegInv ==
  /\ Free => Agrees(dir)
  /\ inst.pc \in {"staged", "aside", "placed", "failed"} => Agrees(inst.old)

\* Status and data of the registry, also while something is installed.
DisInv == saved = "disabled" => reg = Absent \/ reg.status \in {"disabled", "invalid"}
SyncInv == reg.src = "external" /\ reg.status = "enabled" => data = reg.ver

\* An upgrade that counts or installs holds both locks; while it counts the
\* registry keeps the version that was confirmed.
UpInv ==
  /\ \A u \in Upgraders : up[u].pc \in {"counting", "installing"} => kv /\ holder = u
  /\ \A u \in Upgraders : up[u].pc = "counting" =>
       /\ Free /\ reg.src = "external" /\ reg.ver = up[u].from /\ up[u].to > up[u].from
  /\ \A u \in Upgraders : up[u].pc = "installing" =>
       /\ inst.by = u /\ up[u].left = {} /\ ~up[u].busy
  /\ inst.by \in Upgraders => up[inst.by].pc = "installing" /\ inst.old < inst.ver

\* Under the lock a job is ready to run, or runs uncounted, only if it looked
\* before the lock was taken; one that is counted running stops the upgrade.
JobInv ==
  \A u \in Upgraders : up[u].pc \in {"counting", "installing"} =>
    /\ \A j \in Jobs : job[j] = "checked" => j \in up[u].early
    /\ \A j \in Jobs \ up[u].left : job[j] = "running" => up[u].busy \/ j \in up[u].early

IInv == TypeOK /\ WorkInv /\ RegInv /\ DisInv /\ SyncInv /\ UpInv /\ JobInv

\* What a load says of the module agrees with the disk, with the saved status
\* and with the data that it synchronised.
LEMMA LoadFacts ==
  ASSUME NEW d \in Dir, NEW l \in BOOLEAN, NEW s \in {"none", "enabled", "disabled"}, Load(d, l, s)
  PROVE  /\ d \in Version => IF l THEN reg'.src = "dev" ELSE reg'.src = "external" /\ reg'.ver = d
         /\ s = "disabled" => reg' = Absent \/ reg'.status \in {"disabled", "invalid"}
         /\ reg'.src = "external" /\ reg'.status = "enabled" => data' = reg'.ver
<1> DEFINE m == Loaded(d, l, s)
<1>1. reg' = Synced(m) /\ data' = DataOf(m)
  BY DEF Load
<1>2. /\ m \in RegType
      /\ d \in Version => IF l THEN m.src = "dev" ELSE m.src = "external" /\ m.ver = d
      /\ s = "disabled" => m = Absent \/ m.status \in {"disabled", "invalid"}
      /\ m.src = "external" /\ m.status = "enabled" => m.ver \in Version
      /\ m = Absent => m.status = "invalid"
  BY DEF Loaded, RegType, Absent, Persisted, Dir, Statuses, Version, None, Torn
<1>3. Synced(m).src = m.src /\ Synced(m).ver = m.ver
      /\ ((Synced(m).status = m.status /\ Synced(m) = m) \/ Synced(m).status = "invalid")
      /\ ((m.status = "enabled" /\ m.ver \in NoSync) => Synced(m).status = "invalid")
  BY <1>2 DEF Synced, RegType
<1>4. m.status = "enabled" /\ m.ver \in Version \ NoSync => DataOf(m) = m.ver
  BY DEF DataOf
<1>. QED
  BY <1>1, <1>2, <1>3, <1>4

\* The installed version is registered with its saved status and its own data.
LEMMA RegisterFacts ==
  ASSUME TypeOK, inst.ver \in Version, Register
  PROVE  /\ reg'.src = "external" /\ reg'.ver = inst.ver
         /\ saved = "disabled" => reg'.status \in {"disabled", "invalid"}
         /\ reg'.status = "enabled" => data' = reg'.ver
<1> DEFINE m == [src |-> "external", ver |-> inst.ver, status |-> Persisted(saved)]
<1>1. reg' = Synced(m) /\ data' = DataOf(m)
  BY DEF Register
<1>2. Synced(m).src = "external" /\ Synced(m).ver = inst.ver
      /\ Synced(m).status \in {Persisted(saved), "invalid"}
      /\ (inst.ver \in NoSync => Synced(m).status = "invalid")
  BY DEF Synced
<1>3. Persisted(saved) # "invalid" /\ (saved = "disabled" => Persisted(saved) = "disabled")
  BY DEF Persisted, TypeOK
<1>. QED
  BY <1>1, <1>2, <1>3 DEF DataOf

-----------------------------------------------------------------------------
(* Every step keeps the invariant, one part after the other.               *)

LEMMA InvInit == Init => IInv
<1>. SUFFICES ASSUME Init PROVE IInv
  OBVIOUS
<1>1. TypeOK
  BY TypeInit
<1>2. User \notin Upgraders /\ Nobody \notin Upgraders
  BY InstallAssumption
<1>3. WorkInv /\ RegInv
  BY DEF Init, WorkInv, RegInv, Free, NoInst, Agrees, None, Version
<1>4. DisInv /\ SyncInv
  BY DEF Init, DisInv, SyncInv, Absent
<1>5. UpInv /\ JobInv
  BY <1>2 DEF Init, UpInv, JobInv, NoUp, NoInst
<1>. QED
  BY <1>1, <1>3, <1>4, <1>5 DEF IInv

\* The directory, the backup and the record of the install go together.
LEMMA WorkNext == IInv /\ [Next]_vars => WorkInv'
<1>. SUFFICES ASSUME IInv, [Next]_vars PROVE WorkInv'
  OBVIOUS
<1>i. WorkInv /\ inst \in InstType /\ up \in [Upgraders -> UpType]
  BY DEF IInv, TypeOK, InstType, UpType
<1>n. NoInst.pc = "none"
  BY DEF NoInst
<1>1. CASE inst' = inst /\ dir' = dir /\ backup' = backup /\ (link' = link \/ Free)
  BY <1>1, <1>i, <1>n DEF WorkInv, Free
<1>2. CASE inst' = NoInst
  BY <1>2, <1>n DEF WorkInv, Free
<1>3. ASSUME NEW by \in Upgraders \cup {User}, NEW v \in Version, Begin(by, v), UNCHANGED disk
      PROVE  WorkInv'
  BY <1>3 DEF Begin, WorkInv, Free, disk
<1>4. CASE Installing
  <2>1. CASE MoveAside
    BY <2>1, <1>i DEF MoveAside, Step, InstType, WorkInv, Free, Rest
  <2>2. CASE MoveAsideFails
    BY <2>2, <1>i DEF MoveAsideFails, Step, InstType, WorkInv, Free, Rest
  <2>3. CASE Place
    BY <2>3, <1>i DEF Place, Step, InstType, WorkInv, Free, Rest
  <2>4. CASE PlaceFails
    BY <2>4, <1>i DEF PlaceFails, Restore, Step, InstType, WorkInv, Free, Rest
  <2>5. CASE ProbeFails
    BY <2>5, <1>i DEF ProbeFails, Restore, Step, InstType, WorkInv, Free, Rest
  <2>6. CASE Activate
    BY <2>6, <1>i DEF Activate, Step, InstType, WorkInv, Free, Rest
  <2>7. CASE Unlink
    BY <2>7, <1>i DEF Unlink, Step, InstType, WorkInv, Free
  <2>8. CASE Register \/ GiveUp \/ Forget
    BY <2>8, <1>2 DEF Register, GiveUp, Forget
  <2>9. CASE RemoveDir
    BY <2>9, <1>i, <1>2 DEF RemoveDir, Step, InstType, WorkInv, Free
  <2>10. CASE ClearRecords
    BY <2>10, <1>i DEF ClearRecords, Step, InstType, WorkInv, Free
  <2>. QED
    BY <1>4, <2>1, <2>2, <2>3, <2>4, <2>5, <2>6, <2>7, <2>8, <2>9, <2>10 DEF Installing
<1>5. CASE Uninstall
  BY <1>5 DEF Uninstall, NoInst, WorkInv, Free
<1>6. ASSUME NEW u \in Upgraders, ApplyEnds(u) PROVE WorkInv'
  <2>1. up[u].to \in Version
    BY <1>6, <1>i DEF ApplyEnds, IInv, UpInv, UpType, Version, None
  <2>. QED
    BY <1>6, <2>1, <1>1, <1>3 DEF ApplyEnds, disk
<1>7. CASE Restart
  BY <1>7, <1>2 DEF Restart
<1>8. CASE Refresh \/ (\E on \in BOOLEAN : SetDevLink(on)) \/ EnableModule \/ DisableModule
  BY <1>8, <1>1 DEF Refresh, SetDevLink, EnableModule, DisableModule, Quiet
<1>9. ASSUME NEW v \in Version, UserInstalls(v) PROVE WorkInv'
  BY <1>9, <1>3 DEF UserInstalls
<1>10. CASE (\E u \in Upgraders, v \in Version : Confirm(u, v)) \/ (\E u \in Upgraders : Apply(u))
         \/ (\E u \in Upgraders, j \in Jobs : CountTasks(u, j)) \/ LockExpires
  BY <1>10, <1>1 DEF Confirm, Apply, CountTasks, LockExpires, disk
<1>11. CASE \E j \in Jobs : JobChecks(j) \/ JobRuns(j) \/ JobEnds(j)
  BY <1>11, <1>1 DEF JobChecks, JobRuns, JobEnds, disk
<1>12. CASE UNCHANGED vars
  BY <1>12, <1>1 DEF vars, disk
<1>. QED
  BY <1>4, <1>5, <1>6, <1>7, <1>8, <1>9, <1>10, <1>11, <1>12 DEF Next

\* The registry follows the directory.
LEMMA RegNext == IInv /\ [Next]_vars => RegInv' /\ DisInv' /\ SyncInv'
<1>. SUFFICES ASSUME IInv, [Next]_vars PROVE RegInv' /\ DisInv' /\ SyncInv'
  OBVIOUS
<1>i. RegInv /\ DisInv /\ SyncInv /\ WorkInv /\ TypeOK /\ inst \in InstType
  BY DEF IInv, TypeOK, InstType
<1>1. CASE reg' = reg /\ dir' = dir /\ link' = link /\ saved' = saved /\ data' = data /\ inst' = inst
  BY <1>1, <1>i DEF RegInv, DisInv, SyncInv, Agrees, Free
<1>2. ASSUME Free', Load(dir', link', saved'),
             dir' \in Dir, link' \in BOOLEAN, saved' \in {"none", "enabled", "disabled"}
      PROVE  RegInv' /\ DisInv' /\ SyncInv'
  BY <1>2, LoadFacts DEF RegInv, DisInv, SyncInv, Agrees, Free
<1>3. ASSUME NEW by, NEW v, Free, Begin(by, v), UNCHANGED <<disk, reg>>
      PROVE  RegInv' /\ DisInv' /\ SyncInv'
  BY <1>3, <1>i DEF Begin, RegInv, DisInv, SyncInv, Agrees, Free, disk
<1>4. CASE Installing
  <2>1. CASE MoveAside \/ MoveAsideFails \/ Place \/ PlaceFails \/ ProbeFails \/ Activate
    <3>1. link' = link /\ saved' = saved /\ data' = data /\ reg' = reg
      BY <2>1 DEF MoveAside, MoveAsideFails, Place, PlaceFails, ProbeFails, Activate, Rest
    <3>2. /\ inst'.old = inst.old /\ ~Free'
          /\ inst'.pc \in {"staged", "aside", "placed", "failed"} =>
               inst.pc \in {"staged", "aside", "placed", "failed"}
      BY <2>1, <1>i DEF MoveAside, MoveAsideFails, Place, PlaceFails, ProbeFails, Activate, Step,
                        InstType, Free
    <3>. QED
      BY <3>1, <3>2, <1>i DEF RegInv, DisInv, SyncInv, Agrees
  <2>2. CASE Unlink
    BY <2>2, <1>i DEF Unlink, Step, InstType, RegInv, DisInv, SyncInv, Free
  <2>3. CASE Register
    <3>1. inst.ver \in Version /\ dir = inst.ver /\ ~link
      BY <2>3, <1>i DEF Register, WorkInv
    <3>2. inst'.pc = "none" /\ dir' = dir /\ link' = link /\ saved' = saved
      BY <2>3 DEF Register, NoInst
    <3>3. /\ reg'.src = "external" /\ reg'.ver = inst.ver
          /\ saved = "disabled" => reg'.status \in {"disabled", "invalid"}
          /\ reg'.status = "enabled" => data' = reg'.ver
      BY <2>3, <3>1, <1>i, RegisterFacts
    <3>. QED
      BY <3>1, <3>2, <3>3 DEF RegInv, DisInv, SyncInv, Agrees
  <2>4. CASE GiveUp
    BY <2>4, <1>i DEF GiveUp, NoInst, RegInv, DisInv, SyncInv, Agrees, WorkInv, Free, disk,
                      Version, None
  <2>5. CASE RemoveDir
    BY <2>5, <1>i DEF RemoveDir, Step, InstType, NoInst, RegInv, DisInv, SyncInv, Agrees, Free,
                      Rest, Version, Torn
  <2>6. CASE ClearRecords
    BY <2>6, <1>i DEF ClearRecords, Step, InstType, RegInv, DisInv, SyncInv, Agrees, Free
  <2>7. CASE Forget
    BY <2>7, <1>i DEF Forget, NoInst, Absent, RegInv, DisInv, SyncInv, Agrees, WorkInv, Free,
                      Version, None
  <2>. QED
    BY <1>4, <2>1, <2>2, <2>3, <2>4, <2>5, <2>6, <2>7 DEF Installing
<1>5. CASE Uninstall
  BY <1>5, <1>i DEF Uninstall, NoInst, RegInv, DisInv, SyncInv, Agrees, Free, disk
<1>6. ASSUME NEW u \in Upgraders, ApplyEnds(u) PROVE RegInv' /\ DisInv' /\ SyncInv'
  BY <1>6, <1>1, <1>3 DEF ApplyEnds, disk
<1>7. CASE Restart
  BY <1>7, <1>2, <1>i DEF Restart, NoInst, Free, TypeOK
<1>8. CASE Refresh
  BY <1>8, <1>2, <1>i DEF Refresh, Quiet, Free, TypeOK
<1>9. ASSUME NEW on \in BOOLEAN, SetDevLink(on) PROVE RegInv' /\ DisInv' /\ SyncInv'
  BY <1>9, <1>2, <1>i DEF SetDevLink, Quiet, Free, TypeOK
<1>10. CASE EnableModule
  <2>1. saved' \in {"none", "enabled", "disabled"}
    BY <1>10, <1>i DEF EnableModule, TypeOK
  <2>. QED
    BY <1>10, <2>1, <1>2, <1>i DEF EnableModule, Quiet, Free, TypeOK
<1>11. CASE DisableModule
  BY <1>11, <1>2, <1>i DEF DisableModule, Quiet, Free, TypeOK
<1>12. ASSUME NEW v \in Version, UserInstalls(v) PROVE RegInv' /\ DisInv' /\ SyncInv'
  BY <1>12, <1>3 DEF UserInstalls, Quiet
<1>13. CASE (\E u \in Upgraders, v \in Version : Confirm(u, v)) \/ (\E u \in Upgraders : Apply(u))
         \/ (\E u \in Upgraders, j \in Jobs : CountTasks(u, j)) \/ LockExpires
  BY <1>13, <1>1 DEF Confirm, Apply, CountTasks, LockExpires, disk
<1>14. CASE \E j \in Jobs : JobChecks(j) \/ JobRuns(j) \/ JobEnds(j)
  BY <1>14, <1>1 DEF JobChecks, JobRuns, JobEnds, disk
<1>15. CASE UNCHANGED vars
  BY <1>15, <1>1 DEF vars, disk
<1>. QED
  BY <1>4, <1>5, <1>6, <1>7, <1>8, <1>9, <1>10, <1>11, <1>12, <1>13, <1>14, <1>15 DEF Next

\* The upgrade that holds the locks is the one that counts or installs.
LEMMA UpNext == IInv /\ [Next]_vars => UpInv'
<1>. SUFFICES ASSUME IInv, [Next]_vars PROVE UpInv'
  OBVIOUS
<1>i. /\ UpInv /\ RegInv /\ WorkInv
      /\ inst \in InstType /\ up \in [Upgraders -> UpType] /\ reg \in RegType /\ dir \in Dir
  BY DEF IInv, TypeOK, InstType, UpType, RegType
<1>a. User \notin Upgraders /\ Nobody \notin Upgraders
  BY InstallAssumption
<1>n. NoInst.by = Nobody /\ NoInst.pc = "none" /\ NoUp.pc = "idle" /\ NoUp.left = {} /\ ~NoUp.busy
  BY DEF NoInst, NoUp
<1>1. CASE up' = up /\ holder' = holder /\ kv' = kv /\ inst' = inst
           /\ (reg' = reg \/ Quiet)
  BY <1>1, <1>i DEF UpInv, Quiet, Free
<1>2. CASE /\ up' = up /\ holder' = holder /\ kv' = kv
           /\ inst'.by = inst.by /\ inst'.old = inst.old /\ inst'.ver = inst.ver
           /\ ~Free
  BY <1>2, <1>i DEF UpInv
<1>3. CASE Quiet /\ inst'.by \notin Upgraders /\ up' = up /\ holder' = holder /\ kv' = kv
  <2>1. \A u \in Upgraders : up[u].pc # "counting" /\ up[u].pc # "installing"
    BY <1>3, <1>i, <1>n, <1>a DEF Quiet, UpInv, WorkInv
  <2>. QED
    BY <1>3, <2>1 DEF UpInv
<1>4. ASSUME inst' = NoInst, Release, ~Free PROVE UpInv'
  <2>1. CASE inst.by \in Upgraders
    <3>1. \A u \in Upgraders : u # inst.by => up[u].pc \notin {"counting", "installing"}
      BY <2>1, <1>i DEF UpInv
    <3>2. \A u \in Upgraders : up'[u].pc \notin {"counting", "installing"}
      BY <2>1, <3>1, <1>4, <1>i, <1>n DEF Release
    <3>. QED
      BY <3>2, <1>4, <1>n, <1>a DEF UpInv
  <2>2. CASE inst.by \notin Upgraders
    <3>1. \A u \in Upgraders : up[u].pc \notin {"counting", "installing"}
      BY <2>2, <1>4, <1>i DEF UpInv
    <3>2. up' = up
      BY <2>2, <1>4 DEF Release
    <3>. QED
      BY <3>1, <3>2, <1>4, <1>n, <1>a DEF UpInv
  <2>. QED
    BY <2>1, <2>2
<1>5. CASE Installing
  <2>1. CASE MoveAside \/ MoveAsideFails \/ Place \/ PlaceFails \/ ProbeFails \/ Activate
    BY <2>1, <1>2, <1>i DEF MoveAside, MoveAsideFails, Place, PlaceFails, ProbeFails, Activate,
                            Step, Rest, InstType, Free
  <2>2. CASE Unlink \/ ClearRecords
    BY <2>2, <1>2, <1>i DEF Unlink, ClearRecords, Step, InstType, Free
  <2>3. CASE Register \/ GiveUp
    BY <2>3, <1>4 DEF Register, GiveUp, Free
  <2>4. CASE RemoveDir \/ Forget
    <3>1. ~Free /\ up' = up /\ holder' = holder /\ kv' = kv
      BY <2>4 DEF RemoveDir, Forget, Rest, Free
    <3>2. CASE inst' = NoInst
      <4>1. \A u \in Upgraders : up[u].pc # "counting"
        BY <3>1, <1>i DEF UpInv
      <4>2. Release \/ inst.by \in Upgraders
        BY <3>1 DEF Release
      <4>3. CASE inst.by \notin Upgraders
        BY <4>2, <4>3, <3>1, <3>2, <1>4
      <4>4. CASE inst.by \in Upgraders
        BY <4>4, <2>4, <1>i, <1>a DEF WorkInv, RemoveDir, Forget
      <4>. QED
        BY <4>3, <4>4
    <3>. QED
      BY <2>4, <3>1, <3>2, <1>2, <1>i DEF RemoveDir, Forget, Step, InstType
  <2>. QED
    BY <1>5, <2>1, <2>2, <2>3, <2>4 DEF Installing
<1>6. CASE Uninstall
  BY <1>6, <1>3, <1>a DEF Uninstall, NoInst
<1>7. ASSUME NEW u \in Upgraders, NEW v \in Version, Confirm(u, v) PROVE UpInv'
  <2>1. up'[u].pc = "confirmed" /\ \A w \in Upgraders : w # u => up'[w] = up[w]
    BY <1>7, <1>i DEF Confirm, NoUp
  <2>2. up[u].pc = "idle" /\ UNCHANGED <<reg, inst, holder, kv>>
    BY <1>7 DEF Confirm
  <2>. QED
    BY <2>1, <2>2, <1>i DEF UpInv, Free
<1>8. ASSUME NEW u \in Upgraders, Apply(u) PROVE UpInv'
  <2>1. Free /\ up[u].pc = "confirmed" /\ holder = Nobody /\ UNCHANGED <<reg, inst>>
    BY <1>8 DEF Apply
  <2>2. \A w \in Upgraders : up[w].pc \notin {"counting", "installing"}
    BY <2>1, <1>i, <1>a DEF UpInv
  <2>3. inst = NoInst
    BY <2>1, <1>i DEF WorkInv
  <2>4. CASE ~kv /\ StillUpgrades(u)
    <3>1. /\ kv' = TRUE /\ holder' = u /\ up'[u].pc = "counting"
          /\ up'[u].from = up[u].from /\ up'[u].to = up[u].to
          /\ \A w \in Upgraders : w # u => up'[w] = up[w]
      BY <1>8, <2>4, <1>i DEF Apply, UpType
    <3>. QED
      BY <2>1, <2>2, <2>3, <2>4, <3>1, <1>n, <1>a DEF UpInv, StillUpgrades, Free
  <2>5. CASE ~(~kv /\ StillUpgrades(u))
    <3>1. /\ UNCHANGED <<holder, kv>> /\ up'[u].pc = "idle"
          /\ \A w \in Upgraders : w # u => up'[w] = up[w]
      BY <1>8, <2>5, <1>i, <1>n DEF Apply
    <3>. QED
      BY <2>1, <2>2, <2>3, <3>1, <1>n, <1>a DEF UpInv
  <2>. QED
    BY <2>4, <2>5
<1>9. ASSUME NEW u \in Upgraders, NEW j \in Jobs, CountTasks(u, j) PROVE UpInv'
  <2>1. /\ up[u].pc = "counting" /\ up'[u].pc = "counting" /\ up'[u].from = up[u].from
        /\ up'[u].to = up[u].to /\ \A w \in Upgraders : w # u => up'[w] = up[w]
    BY <1>9, <1>i DEF CountTasks, UpType
  <2>2. UNCHANGED <<reg, inst, holder, kv>>
    BY <1>9 DEF CountTasks
  <2>. QED
    BY <2>1, <2>2, <1>i DEF UpInv, Free
<1>10. ASSUME NEW u \in Upgraders, ApplyEnds(u) PROVE UpInv'
  <2>1. Free /\ inst = NoInst /\ up[u].pc = "counting" /\ up[u].left = {} /\ reg' = reg
    BY <1>10, <1>i DEF ApplyEnds, WorkInv
  <2>2. \A w \in Upgraders : w # u => up[w].pc \notin {"counting", "installing"}
    BY <2>1, <1>i DEF UpInv
  <2>3. CASE up[u].busy
    <3>1. up'[u].pc = "idle" /\ inst' = inst /\ \A w \in Upgraders : w # u => up'[w] = up[w]
      BY <1>10, <2>3, <1>i, <1>n DEF ApplyEnds
    <3>. QED
      BY <2>1, <2>2, <3>1, <1>n, <1>a DEF UpInv
  <2>4. CASE ~up[u].busy
    <3>1. /\ up'[u].pc = "installing" /\ up'[u].left = {} /\ ~up'[u].busy
          /\ \A w \in Upgraders : w # u => up'[w] = up[w]
          /\ UNCHANGED <<holder, kv>> /\ inst'.by = u /\ inst'.ver = up[u].to /\ inst'.old = dir
      BY <1>10, <2>1, <2>4, <1>i DEF ApplyEnds, UpType, Begin
    <3>2. dir < up[u].to
      <4>1. /\ reg.src = "external" /\ reg.ver = up[u].from /\ up[u].to > up[u].from
            /\ up[u].from \in Version \cup {None} /\ up[u].to \in Version \cup {None}
        BY <2>1, <1>i DEF UpInv, UpType
      <4>2. dir \in Version => dir = up[u].from
        BY <2>1, <4>1, <1>i DEF RegInv, Agrees
      <4>. QED
        BY <4>1, <4>2, <1>i, InstallAssumption DEF Dir, Version, None, Torn
    <3>. QED
      BY <2>1, <2>2, <3>1, <3>2, <1>i DEF UpInv
  <2>. QED
    BY <2>3, <2>4
<1>11. CASE LockExpires
  <2>1. \A u \in Upgraders : up[u].pc \notin {"counting", "installing"}
    BY <1>11, <1>i, <1>a DEF LockExpires, UpInv
  <2>. QED
    BY <1>11, <2>1, <1>i DEF LockExpires, UpInv
<1>12. CASE Restart
  BY <1>12, <1>n, <1>a DEF Restart, UpInv
<1>13. CASE Refresh \/ (\E on \in BOOLEAN : SetDevLink(on)) \/ EnableModule \/ DisableModule
  BY <1>13, <1>1 DEF Refresh, SetDevLink, EnableModule, DisableModule
<1>14. CASE \E v \in Version : UserInstalls(v)
  BY <1>14, <1>3, <1>a DEF UserInstalls, Begin
<1>15. CASE \E j \in Jobs : JobChecks(j) \/ JobRuns(j) \/ JobEnds(j)
  BY <1>15, <1>1 DEF JobChecks, JobRuns, JobEnds
<1>16. CASE UNCHANGED vars
  BY <1>16, <1>1 DEF vars
<1>. QED
  BY <1>5, <1>6, <1>7, <1>8, <1>9, <1>10, <1>11, <1>12, <1>13, <1>14, <1>15, <1>16 DEF Next

\* Jobs under the lock: nobody looks at it and goes on, and who runs was counted
\* or had looked before.
LEMMA JobNext == IInv /\ [Next]_vars => JobInv'
<1>. SUFFICES ASSUME IInv, [Next]_vars PROVE JobInv'
  OBVIOUS
<1>i. /\ JobInv /\ UpInv /\ WorkInv /\ up \in [Upgraders -> UpType]
      /\ job \in [Jobs -> {"idle", "checked", "running"}] /\ inst \in InstType
  BY DEF IInv, TypeOK, UpType, InstType
<1>n. NoUp.pc = "idle"
  BY DEF NoUp
<1>1. CASE up' = up /\ job' = job
  BY <1>1, <1>i DEF JobInv
<1>2. ASSUME NEW u \in Upgraders, up' = [up EXCEPT ![u] = up'[u]], job' = job,
             up'[u].pc \notin {"counting", "installing"}
      PROVE  JobInv'
  BY <1>2, <1>i DEF JobInv
<1>3. CASE Installing
  <2>1. job' = job
    BY <1>3 DEF Installing, MoveAside, MoveAsideFails, Place, PlaceFails, ProbeFails, Activate, Unlink,
                Register, GiveUp, RemoveDir, ClearRecords, Forget, Rest
  <2>2. CASE Register \/ GiveUp
    <3>1. Release
      BY <2>2 DEF Register, GiveUp
    <3>. QED
      BY <2>1, <3>1, <1>1, <1>2, <1>n, <1>i DEF Release
  <2>3. CASE ~Register /\ ~GiveUp
    <3>1. up' = up
      BY <2>3, <1>3 DEF Installing, MoveAside, MoveAsideFails, Place, PlaceFails, ProbeFails, Activate,
                        Unlink, RemoveDir, ClearRecords, Forget, Rest
    <3>. QED
      BY <2>1, <3>1, <1>1
  <2>. QED
    BY <2>2, <2>3
<1>4. ASSUME NEW u \in Upgraders, NEW v \in Version, Confirm(u, v) PROVE JobInv'
  <2>1. up' = [up EXCEPT ![u] = up'[u]] /\ job' = job /\ up'[u].pc = "confirmed"
    BY <1>4, <1>i DEF Confirm, NoUp
  <2>. QED
    BY <2>1, <1>2
<1>5. ASSUME NEW u \in Upgraders, Apply(u) PROVE JobInv'
  <2>1. CASE ~kv /\ StillUpgrades(u)
    <3>1. /\ job' = job /\ up'[u].left = Jobs /\ up'[u].early = {j \in Jobs : job[j] = "checked"}
          /\ \A w \in Upgraders : w # u => up'[w] = up[w]
      BY <1>5, <2>1, <1>i DEF Apply, UpType
    <3>. QED
      BY <3>1, <1>i DEF JobInv
  <2>2. CASE ~(~kv /\ StillUpgrades(u))
    <3>1. up' = [up EXCEPT ![u] = up'[u]] /\ job' = job /\ up'[u].pc = "idle"
      BY <1>5, <2>2, <1>n, <1>i DEF Apply
    <3>. QED
      BY <3>1, <1>2
  <2>. QED
    BY <2>1, <2>2
<1>6. ASSUME NEW u \in Upgraders, NEW j \in Jobs, CountTasks(u, j) PROVE JobInv'
  <2>1. /\ up'[u].left = up[u].left \ {j} /\ up'[u].early = up[u].early
        /\ up[u].busy \/ job[j] = "running" => up'[u].busy
        /\ up[u].pc = "counting" /\ up'[u].pc = "counting"
        /\ \A w \in Upgraders : w # u => up'[w] = up[w]
    BY <1>6, <1>i DEF CountTasks, UpType
  <2>2. job' = job
    BY <1>6 DEF CountTasks
  <2>. QED
    BY <2>1, <2>2, <1>i DEF JobInv
<1>7. ASSUME NEW u \in Upgraders, ApplyEnds(u) PROVE JobInv'
  <2>1. CASE up[u].busy
    <3>1. up' = [up EXCEPT ![u] = up'[u]] /\ job' = job /\ up'[u].pc = "idle"
      BY <1>7, <2>1, <1>n, <1>i DEF ApplyEnds
    <3>. QED
      BY <3>1, <1>2
  <2>2. CASE ~up[u].busy
    <3>1. /\ up'[u].left = up[u].left /\ up'[u].busy = up[u].busy /\ up'[u].early = up[u].early
          /\ up[u].pc = "counting" /\ job' = job /\ \A w \in Upgraders : w # u => up'[w] = up[w]
      BY <1>7, <2>2, <1>i DEF ApplyEnds, UpType
    <3>. QED
      BY <3>1, <1>i DEF JobInv
  <2>. QED
    BY <2>1, <2>2
<1>8. ASSUME NEW j \in Jobs, JobChecks(j) \/ JobRuns(j) \/ JobEnds(j) PROVE JobInv'
  <2>1. up' = up /\ \A k \in Jobs : k # j => job'[k] = job[k]
    BY <1>8, <1>i DEF JobChecks, JobRuns, JobEnds
  <2>2. CASE JobChecks(j)
    <3>1. \A u \in Upgraders : up[u].pc \notin {"counting", "installing"}
      BY <2>2, <1>i DEF JobChecks, UpInv
    <3>. QED
      BY <2>1, <3>1 DEF JobInv
  <2>3. CASE JobRuns(j)
    <3>1. job[j] = "checked" /\ job'[j] = "running"
      BY <2>3, <1>i DEF JobRuns
    <3>. QED
      BY <2>1, <3>1, <1>i DEF JobInv
  <2>4. CASE JobEnds(j)
    <3>1. job'[j] = "idle"
      BY <2>4, <1>i DEF JobEnds
    <3>. QED
      BY <2>1, <3>1, <1>i DEF JobInv
  <2>. QED
    BY <1>8, <2>2, <2>3, <2>4
<1>9. CASE Restart
  BY <1>9, <1>n DEF Restart, JobInv
<1>10. CASE Refresh \/ (\E on \in BOOLEAN : SetDevLink(on)) \/ EnableModule \/ DisableModule
         \/ (\E v \in Version : UserInstalls(v)) \/ Uninstall \/ LockExpires
  BY <1>10, <1>1 DEF Refresh, SetDevLink, EnableModule, DisableModule, UserInstalls, Uninstall,
                     LockExpires
<1>11. CASE UNCHANGED vars
  BY <1>11, <1>1 DEF vars
<1>. QED
  BY <1>3, <1>4, <1>5, <1>6, <1>7, <1>8, <1>9, <1>10, <1>11 DEF Next

LEMMA InvNext == IInv /\ [Next]_vars => IInv'
  BY TypeNext, WorkNext, RegNext, UpNext, JobNext DEF IInv

LEMMA Invariant == Spec => []IInv
  BY InvInit, InvNext, PTL DEF Spec

-----------------------------------------------------------------------------
(* What follows.                                                           *)

\* An upgrade replaces only an earlier version, whatever was installed,
\* refreshed or restarted since it was confirmed (release_service.py:283).
THEOREM UpgradesRise == Spec => []UpgradeIsLater
<1>1. IInv => UpgradeIsLater
  BY DEF IInv, UpInv, UpgradeIsLater
<1>. QED
  BY <1>1, Invariant, PTL

\* Until the new version was imported from its place the old one is on disk,
\* whichever file operation fails (registry.py:546).
THEOREM OldKept == Spec => []OldIsOnDisk
<1>1. IInv => OldIsOnDisk
  BY DEF IInv, WorkInv, OldIsOnDisk
<1>. QED
  BY <1>1, Invariant, PTL

\* At rest the registry runs the version in the directory, or its link
\* (registry.py:386, 623).
THEOREM RegistryFollowsDisk == Spec => []RegistryMatchesDisk
<1>1. IInv => RegistryMatchesDisk
  BY DEF IInv, RegInv, Agrees, RegistryMatchesDisk
<1>. QED
  BY <1>1, Invariant, PTL

\* What was disabled stays disabled until it is enabled or uninstalled
\* (registry.py:231).
THEOREM DisabledKept == Spec => []DisabledStays
<1>1. IInv => DisabledStays
  BY DEF IInv, DisInv, DisabledStays
<1>. QED
  BY <1>1, Invariant, PTL

\* An enabled module has its own data contract synchronised (registry.py:279).
THEOREM EnabledSynced == Spec => []EnabledIsSynced
<1>1. IInv => EnabledIsSynced
  BY DEF IInv, SyncInv, EnabledIsSynced
<1>. QED
  BY <1>1, Invariant, PTL

\* While an upgrade replaces files only jobs run that had looked at the lock
\* before it was taken, for any number of jobs and upgrades (controller.py:155).
THEOREM EarlyJobsOnly == Spec => []OnlyEarlyJobs
<1>1. IInv => OnlyEarlyJobs
  BY DEF IInv, UpInv, JobInv, OnlyEarlyJobs
<1>. QED
  BY <1>1, Invariant, PTL
=============================================================================
