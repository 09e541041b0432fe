----------------------------- MODULE ModuleInstall -----------------------------
(***************************************************************************)
(* One module of the host (everything is kept by the name of the module):  *)
(* its installed directory, the development link, the saved status and the *)
(* synchronised data contract, the entry of the registry, and the upgrades *)
(* from a release, with the maintenance lock that jobs look at.            *)
(*                                                                         *)
(* install and uninstall are synchronous: while one is in progress nothing *)
(* else runs, but each of its steps is written to disk for itself, and the *)
(* process may end between two of them.                                    *)
(***************************************************************************)
EXTENDS Integers, FiniteSets

CONSTANTS
  Upgraders,  \* upgrades that the user has confirmed or is confirming
  Jobs,       \* jobs that run a workflow of the module
  Versions,   \* the highest version; they are ordered as by compare_semver
  NoSync,     \* the versions whose data contract cannot be synchronised
  NoProbe,    \* the versions whose import fails once they are in place
  User,       \* the user interface, when it installs
  Nobody,     \* no upgrade holds the lock of the process
  Faults,     \* the file operations that may fail
  MaxRestart  \* bound on the number of times the process ends

Version == 1..Versions
None == 0
Torn == -1
Dir == Version \cup {None, Torn}
Statuses == {"enabled", "disabled", "invalid"}

ASSUME InstallAssumption ==
  /\ IsFiniteSet(Upgraders) /\ IsFiniteSet(Jobs)
  /\ User \notin Upgraders /\ Nobody \notin Upgraders \cup {User}
  /\ Versions \in Nat /\ NoSync \subseteq Version /\ NoProbe \subseteq Version
  /\ Faults \subseteq {"move", "restore", "remove"}
  /\ MaxRestart \in Nat

VARIABLES
  dir,      \* the version in the installed directory, None, or Torn
  backup,   \* the version in the hidden backup directory, or None
  link,     \* there is a development link
  saved,    \* the status in the settings, "none" if there is none
  data,     \* the version whose data contract was synchronised last
  reg,      \* what the registry has: source, version and status
  shown,    \* the status that the list of modules shows
  inst,     \* the install or uninstall in progress
  up,       \* up[u]: where an upgrade stands, and what was confirmed
  holder,   \* the upgrade that holds the lock of the process
  kv,       \* the maintenance lock is in the key-value store
  job,      \* job[j]: "idle", "checked" its preconditions, or "running"
  restarts

disk == <<dir, backup, link, saved, data>>
vars == <<disk, reg, shown, inst, up, holder, kv, job, restarts>>

Absent == [src |-> "none", ver |-> None, status |-> "invalid"]
NoInst == [pc |-> "none", by |-> Nobody, ver |-> None, old |-> None]
NoUp == [pc |-> "idle", from |-> None, to |-> None, left |-> {}, busy |-> FALSE,
         early |-> {}]

Free == inst.pc = "none"
Quiet == Free /\ \A u \in Upgraders : up[u].pc # "counting"

TypeOK ==
  /\ dir \in Dir /\ backup \in Dir /\ link \in BOOLEAN
  /\ saved \in {"none", "enabled", "disabled"} /\ data \in Version \cup {None}
  /\ reg \in [src : {"none", "external", "dev"}, ver : Version \cup {None, Torn},
              status : Statuses]
  /\ shown \in Statuses
  /\ inst \in [pc : {"none", "staged", "aside", "placed", "failed", "active", "unlinked",
                     "removing", "clearing", "forgetting"},
               by : Upgraders \cup {User, Nobody}, ver : Version \cup {None},
               old : Dir]
  /\ up \in [Upgraders -> [pc : {"idle", "confirmed", "counting", "installing"},
                           from : Version \cup {None}, to : Version \cup {None},
                           left : SUBSET Jobs, busy : BOOLEAN, early : SUBSET Jobs]]
  /\ holder \in Upgraders \cup {Nobody} /\ kv \in BOOLEAN
  /\ job \in [Jobs -> {"idle", "checked", "running"}]
  /\ restarts \in 0..MaxRestart

Init ==
  /\ dir = None /\ backup = None /\ link = FALSE /\ saved = "none" /\ data = None
  /\ reg = Absent /\ shown = "invalid" /\ inst = NoInst
  /\ up = [u \in Upgraders |-> NoUp] /\ holder = Nobody /\ kv = FALSE
  /\ job = [j \in Jobs |-> "idle"] /\ restarts = 0

-----------------------------------------------------------------------------
(* The registry.                                                           *)

\* A module that can be loaded gets the status that was saved for it.
PersistedIgnored(s) == "enabled"

Persisted(s) == IF s = "none" THEN "enabled" ELSE s

\* _sync_loaded_module_data: a contract that cannot be synchronised makes the
\* module invalid and leaves the data as they were.
SyncedUnseen(m) == m

Synced(m) == IF m.status # "invalid" /\ m.ver \in NoSync
             THEN [m EXCEPT !.status = "invalid"] ELSE m
DataOf(m) == IF m.status # "invalid" /\ m.ver \in Version \ NoSync THEN m.ver ELSE data

\* load(force): the link goes before the installed directory; a directory
\* that does not match its manifest.lock is invalid.
Loaded(d, l, s) ==
  IF l THEN [src |-> "dev", ver |-> None, status |-> Persisted(s)]
  ELSE IF d = None THEN Absent
  ELSE [src |-> "external", ver |-> d,
        status |-> IF d = Torn THEN "invalid" ELSE Persisted(s)]

Load(d, l, s) ==
  /\ reg' = Synced(Loaded(d, l, s))
  /\ data' = DataOf(Loaded(d, l, s))
  /\ shown' = reg'.status

Refresh ==
  /\ Quiet
  /\ Load(dir, link, saved)
  /\ UNCHANGED <<dir, backup, link, saved, inst, up, holder, kv, job, restarts>>

\* register_dev_link and remove_dev_link.
SetDevLink(on) ==
  /\ Quiet /\ link # on
  /\ link' = on
  /\ Load(dir, on, saved)
  /\ UNCHANGED <<dir, backup, saved, inst, up, holder, kv, job, restarts>>

\* The list offers to disable what it shows enabled and to enable what it
\* shows disabled, which may be what it was told earlier; a click is followed
\* by a refresh.
EnableModule ==
  /\ Quiet /\ reg # Absent /\ shown = "disabled"
  /\ saved' = IF reg.status = "invalid" THEN saved ELSE "enabled"
  /\ Load(dir, link, saved')
  /\ UNCHANGED <<dir, backup, link, inst, up, holder, kv, job, restarts>>

DisableModule ==
  /\ Quiet /\ reg # Absent /\ shown = "enabled"
  /\ saved' = "disabled"
  /\ Load(dir, link, saved')
  /\ UNCHANGED <<dir, backup, link, inst, up, holder, kv, job, restarts>>

-----------------------------------------------------------------------------
(* Installing: a package that passed its checks in a temporary directory.  *)

Begin(by, v) ==
  inst' = [pc |-> "staged", by |-> by, ver |-> v, old |-> dir]

UserInstalls(v) ==
  /\ Quiet
  /\ Begin(User, v)
  /\ UNCHANGED <<disk, reg, shown, up, holder, kv, job, restarts>>

Step(pc) == inst' = [inst EXCEPT !.pc = pc]
Rest == <<link, saved, data, reg, shown, up, holder, kv, job, restarts>>

\* _activate_staged_module moves what is installed aside.
RemoveOld ==
  /\ inst.pc = "staged"
  /\ dir' = None /\ UNCHANGED backup
  /\ Step("aside")
  /\ UNCHANGED Rest

MoveAside ==
  /\ inst.pc = "staged"
  /\ backup' = dir /\ dir' = None
  /\ Step("aside")
  /\ UNCHANGED Rest

\* Its handler removes the target before it restores: when the move aside
\* failed, the target is what was installed.
MoveAsideFails ==
  /\ "move" \in Faults
  /\ inst.pc = "staged" /\ dir # None
  /\ dir' = None /\ UNCHANGED backup
  /\ Step("failed")
  /\ UNCHANGED Rest

Place ==
  /\ inst.pc = "aside"
  /\ dir' = inst.ver /\ UNCHANGED backup
  /\ Step("placed")
  /\ UNCHANGED Rest

\* What was moved aside comes back; if that fails, it is removed too.
RestoreNothing == backup' = None /\ UNCHANGED dir

Restore ==
  \/ dir' = backup /\ backup' = None
  \/ "restore" \in Faults /\ backup # None /\ dir' = None /\ backup' = None

PlaceFails ==
  /\ inst.pc = "aside" /\ "move" \in Faults
  /\ Restore
  /\ Step("failed")
  /\ UNCHANGED Rest

ProbeFails ==
  /\ inst.pc = "placed" /\ inst.ver \in NoProbe
  /\ Restore
  /\ Step("failed")
  /\ UNCHANGED Rest

Activate ==
  /\ inst.pc = "placed" /\ inst.ver \notin NoProbe
  /\ backup' = None /\ UNCHANGED dir
  /\ Step("active")
  /\ UNCHANGED Rest

Unlink ==
  /\ inst.pc = "active"
  /\ link' = FALSE
  /\ Step("unlinked")
  /\ UNCHANGED <<dir, backup, saved, data, reg, shown, up, holder, kv, job, restarts>>

\* The end of hold_module_upgrade_lock, if an upgrade installs.
Release ==
  IF inst.by \in Upgraders
  THEN /\ up' = [up EXCEPT ![inst.by] = NoUp]
       /\ holder' = Nobody /\ kv' = FALSE
  ELSE UNCHANGED <<up, holder, kv>>

\* The registry has the new version; when its contract cannot be synchronised
\* the install fails, with the files replaced and the list not refreshed.
Register ==
  /\ inst.pc = "unlinked"
  /\ LET m == [src |-> "external", ver |-> inst.ver, status |-> Persisted(saved)] IN
       /\ reg' = Synced(m) /\ data' = DataOf(m)
       /\ shown' = IF Synced(m).status = "invalid" THEN shown ELSE Synced(m).status
  /\ inst' = NoInst /\ Release
  /\ UNCHANGED <<dir, backup, link, saved, job, restarts>>

GiveUp ==
  /\ inst.pc = "failed"
  /\ inst' = NoInst /\ Release
  /\ UNCHANGED <<disk, reg, shown, job, restarts>>

-----------------------------------------------------------------------------
(* Uninstalling: directory, settings, data and registry, in this order.    *)

Uninstall ==
  /\ Quiet /\ reg.src = "external"
  /\ inst' = [NoInst EXCEPT !.pc = "removing", !.by = User, !.old = dir]
  /\ UNCHANGED <<disk, reg, shown, up, holder, kv, job, restarts>>

RemoveDir ==
  /\ inst.pc = "removing"
  /\ \/ dir' = None /\ Step("clearing")
     \/ "remove" \in Faults /\ dir # None /\ dir' = Torn /\ inst' = NoInst
  /\ UNCHANGED <<backup, Rest>>

ClearRecords ==
  /\ inst.pc = "clearing"
  /\ saved' = "none"
  /\ Step("forgetting")
  /\ UNCHANGED <<dir, backup, link, data, reg, shown, up, holder, kv, job, restarts>>

Forget ==
  /\ inst.pc = "forgetting"
  /\ data' = None /\ reg' = Absent /\ shown' = "invalid"
  /\ inst' = NoInst
  /\ UNCHANGED <<dir, backup, link, saved, up, holder, kv, job, restarts>>

-----------------------------------------------------------------------------
(* Upgrades.                                                               *)

\* prepare_module_upgrade and the confirmation: a later release was found.
Confirm(u, v) ==
  /\ Free /\ up[u].pc = "idle"
  /\ reg.src = "external" /\ reg.ver # Torn /\ v > reg.ver
  /\ \A j \in Jobs : job[j] # "running"
  /\ up' = [up EXCEPT ![u] = [NoUp EXCEPT !.pc = "confirmed", !.from = reg.ver, !.to = v]]
  /\ UNCHANGED <<disk, reg, shown, inst, holder, kv, job, restarts>>

\* The module is still the one that was confirmed, and the package is later.
StillInstalled(u) == reg.src = "external"

StillUpgrades(u) ==
  reg.src = "external" /\ reg.ver = up[u].from /\ up[u].to > reg.ver

\* apply_module_upgrade: under both locks it looks again, then asks the task
\* engine for the active tasks of every job of the module.
Apply(u) ==
  /\ Free /\ up[u].pc = "confirmed" /\ holder = Nobody
  /\ IF ~kv /\ StillUpgrades(u)
     THEN /\ kv' = TRUE /\ holder' = u
          /\ up' = [up EXCEPT ![u].pc = "counting", ![u].left = Jobs,
                              ![u].early = {j \in Jobs : job[j] = "checked"}]
     ELSE /\ up' = [up EXCEPT ![u] = NoUp] /\ UNCHANGED <<holder, kv>>
  /\ UNCHANGED <<disk, reg, shown, inst, job, restarts>>

CountTasks(u, j) ==
  /\ up[u].pc = "counting" /\ j \in up[u].left
  /\ up' = [up EXCEPT ![u].left = @ \ {j}, ![u].busy = @ \/ job[j] = "running"]
  /\ UNCHANGED <<disk, reg, shown, inst, holder, kv, job, restarts>>

ApplyEnds(u) ==
  /\ Free /\ up[u].pc = "counting" /\ up[u].left = {}
  /\ IF up[u].busy
     THEN /\ up' = [up EXCEPT ![u] = NoUp]
          /\ holder' = Nobody /\ kv' = FALSE /\ UNCHANGED inst
     ELSE /\ up' = [up EXCEPT ![u].pc = "installing"]
          /\ Begin(u, up[u].to) /\ UNCHANGED <<holder, kv>>
  /\ UNCHANGED <<disk, reg, shown, job, restarts>>

\* The time to live of the lock is far longer than an upgrade under it: it
\* runs out only for a lock whose process ended.
LockNeverExpires == FALSE /\ UNCHANGED vars

LockExpires ==
  /\ kv /\ holder = Nobody
  /\ kv' = FALSE
  /\ UNCHANGED <<disk, reg, shown, inst, up, holder, job, restarts>>

\* _ensure_runtime_for_job looks at the lock, then awaits the runtime of the
\* provider, and then the job dispatches its tasks.
JobChecksNothing(j) ==
  /\ Free /\ job[j] = "idle"
  /\ job' = [job EXCEPT ![j] = "checked"]
  /\ UNCHANGED <<disk, reg, shown, inst, up, holder, kv, restarts>>

JobChecks(j) ==
  /\ Free /\ job[j] = "idle" /\ ~kv
  /\ job' = [job EXCEPT ![j] = "checked"]
  /\ UNCHANGED <<disk, reg, shown, inst, up, holder, kv, restarts>>

JobRuns(j) ==
  /\ Free /\ job[j] = "checked"
  /\ job' = [job EXCEPT ![j] = "running"]
  /\ UNCHANGED <<disk, reg, shown, inst, up, holder, kv, restarts>>

JobEnds(j) ==
  /\ Free /\ job[j] \in {"checked", "running"}
  /\ job' = [job EXCEPT ![j] = "idle"]
  /\ UNCHANGED <<disk, reg, shown, inst, up, holder, kv, restarts>>

\* The process ends, and the next one loads what is on disk.
Restart ==
  /\ restarts < MaxRestart
  /\ restarts' = restarts + 1
  /\ Load(dir, link, saved)
  /\ inst' = NoInst /\ up' = [u \in Upgraders |-> NoUp] /\ holder' = Nobody
  /\ job' = [j \in Jobs |-> "idle"]
  /\ UNCHANGED <<dir, backup, link, saved, kv>>

Installing ==
  \/ MoveAside \/ MoveAsideFails \/ Place \/ PlaceFails \/ ProbeFails
  \/ Activate \/ Unlink \/ Register \/ GiveUp
  \/ RemoveDir \/ ClearRecords \/ Forget

Next ==
  \/ Refresh \/ \E on \in BOOLEAN : SetDevLink(on)
  \/ EnableModule \/ DisableModule
  \/ \E v \in Version : UserInstalls(v)
  \/ Installing \/ Uninstall
  \/ \E u \in Upgraders, v \in Version : Confirm(u, v)
  \/ \E u \in Upgraders : Apply(u) \/ ApplyEnds(u)
  \/ \E u \in Upgraders, j \in Jobs : CountTasks(u, j)
  \/ \E j \in Jobs : JobChecks(j) \/ JobRuns(j) \/ JobEnds(j)
  \/ LockExpires \/ Restart

\* install and uninstall run to their end, an upgrade gets its answers, and
\* the time to live of a lock runs out.
Fairness ==
  /\ WF_vars(Installing)
  /\ \A u \in Upgraders : WF_vars(ApplyEnds(u))
  /\ \A u \in Upgraders, j \in Jobs : WF_vars(CountTasks(u, j))
  /\ WF_vars(LockExpires)

Spec == Init /\ [][Next]_vars
FairSpec == Spec /\ Fairness

-----------------------------------------------------------------------------
(* What must hold.                                                         *)

\* An upgrade replaces only an earlier version than its own, also when others
\* were installed, or the module was refreshed, between its confirmation and
\* its turn (release_service.py:283).
UpgradeIsLater ==
  inst.by \in Upgraders => inst.old < inst.ver

\* Until the new version has been imported from its place, what was installed
\* is on disk: there, or in the backup.
OldIsOnDisk ==
  inst.pc \in {"staged", "aside", "placed"} /\ inst.old # None =>
    inst.old \in {dir, backup}

\* When nothing is being installed, a version that is installed is the one the
\* registry runs, unless a link hides it: whatever file operation failed, the
\* registry never holds another version than the directory.
RegistryMatchesDisk ==
  Free /\ dir \in Version =>
    IF link THEN reg.src = "dev" ELSE reg.src = "external" /\ reg.ver = dir

\* What the user disabled stays disabled through installs, upgrades, links and
\* restarts, until it is enabled or uninstalled.
DisabledStays ==
  Free /\ saved = "disabled" => reg = Absent \/ reg.status \in {"disabled", "invalid"}

\* A module is enabled only with its own data contract synchronised.
EnabledIsSynced ==
  Free /\ reg.src = "external" /\ reg.status = "enabled" => data = reg.ver

\* While an upgrade replaces the files, only jobs run that had looked at the
\* lock before it was taken (controller.py:155 awaits after it looked).
OnlyEarlyJobs ==
  inst.by \in Upgraders =>
    \A j \in Jobs : job[j] = "running" => j \in up[inst.by].early

\* A lock does not keep the jobs of the module for ever, also when the process
\* ended while it was held.
LockFreed == kv ~> ~kv

-----------------------------------------------------------------------------
(* What is said of the code and does not hold.                             *)

\* Replacing the installed directory is atomic, with a backup
\* (design-implementation-audit.md:33): at rest a module that was installed and
\* not uninstalled is there.
InstallAtomic ==
  [][inst.pc \in {"staged", "aside", "placed", "failed"} /\ inst'.pc = "none"
       => (inst.old # None => dir' # None)]_vars
===============================================================================
