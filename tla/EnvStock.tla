------------------------------- MODULE EnvStock -------------------------------
(***************************************************************************)
(* The stock of environments of crawler4j: how environments come into the  *)
(* pool and leave it, the quota, the addresses of the IP pools they are    *)
(* bound to, and the claims modules hold on those a task created.          *)
(*                                                                         *)
(* A step is what a coroutine does between two awaits that really suspend: *)
(* the provider's runtime, provider.create, open with connect,             *)
(* provider.update and provider.destroy.  Between the steps of one         *)
(* coroutine those of the others run, and the process may end.             *)
(***************************************************************************)
EXTENDS Integers, FiniteSets

CONSTANTS
  Tasks,      \* tasks of the engine that create their environment
  Windows,    \* creations asked for in the user interface
  Editors,    \* edits of an environment that pick one address for it
  Destroyers, \* destructions asked for by the user
  Gc,         \* start-up recovery and run_gc
  Addr,       \* the entries of the IP pools
  NoAddr,     \* no entry
  Nobody,     \* no task
  Ops,        \* the optional operations that are ever asked for
  Max,        \* max_instances, the quota
  Envs,       \* bound on the environments ever made
  MaxRestart  \* bound on the number of times the process ends

Creators == Tasks \cup Windows
Adders == Creators \cup Editors
Actors == Adders \cup Destroyers \cup {Gc}
Env == 1..Envs
AllOps == {"gc", "import", "sync", "pool", "address"}
Pcs == {"idle", "runtime", "creating", "opening", "opened", "running",
        "undo", "updating", "destroying"}
Statuses == {"creating", "up", "terminating"}
ReapableCreating == {"creating"}
Reapable == {"creating", "terminating"}

ASSUME StockAssumption ==
  /\ \A S \in {Tasks, Windows, Editors, Destroyers, Addr} : IsFiniteSet(S)
  /\ Tasks \cap Windows = {} /\ Creators \cap Editors = {}
  /\ Adders \cap Destroyers = {} /\ Gc \notin Adders \cup Destroyers
  /\ NoAddr \notin Addr /\ Nobody \notin Tasks
  /\ Ops \subseteq AllOps
  /\ Adders # {}
  /\ Max \in Nat /\ Envs \in Nat \ {0} /\ MaxRestart \in Nat

VARIABLES
  row,      \* the ids of the rows of the table environments
  cached,   \* the ids in the pool's cache, _environments
  status,   \* status[n]: of the row and of the object in the pool
  ext,      \* the ids whose external_id is known
  names,    \* names[n]: the entry its proxy_config names
  bind,     \* bind[n]: the entry _env_bindings has for it
  count,    \* count[e]: the bound_count of the entry
  entry,    \* entry[e]: its status, or "deleted"
  claim,    \* claim[n]: state and task_id of its claim
  bound,    \* the ids a table of a module refers to
  next,     \* the next id of the table
  co,       \* co[a]: where actor a stands, with which environment and entry
  boot,     \* "recover", "claims" or "up"
  todo,     \* the environments start-up has yet to look at
  restarts,
  imported, \* history: the ids made by an import
  base,     \* history: the counts when the process started
  failed    \* history: the ids whose deletion, or the settlement of whose claim,
            \* has failed since the process started

table == <<row, cached, status, ext>>
address == <<names, bind, count>>
claims == <<claim, bound>>
process == <<boot, todo, restarts, base>>
vars == <<table, address, entry, claims, next, co, process, imported, failed>>

Idle == [pc |-> "idle", env |-> 1, addr |-> NoAddr, prev |-> "up"]
NoClaim == [state |-> "none", task |-> Nobody]
At(a, pc) == co[a].pc = pc

\* The environments that coroutines in the given places work on.
OnEnv(pcs) == {co[a].env : a \in {b \in Actors : co[b].pc \in pcs}}
Held == OnEnv({"creating", "opening", "opened", "running", "undo"})
Locked == OnEnv({"destroying"})
Bindings(e) == {n \in Env : bind[n] = e}
Available == {e \in Addr : entry[e] = "available"}

TypeOK ==
  /\ row \subseteq Env /\ cached \subseteq Env /\ ext \subseteq Env
  /\ status \in [Env -> Statuses]
  /\ names \in [Env -> Addr \cup {NoAddr}] /\ bind \in [Env -> Addr \cup {NoAddr}]
  /\ count \in [Addr -> Nat]
  /\ entry \in [Addr -> {"available", "disabled", "deleted"}]
  /\ claim \in [Env -> [state : {"none", "pending", "claimed", "abandoned"},
                        task : Tasks \cup {Nobody}]]
  /\ bound \subseteq Env
  /\ next \in 1..(Envs + 1)
  /\ co \in [Actors -> [pc : Pcs, env : Env, addr : Addr \cup {NoAddr}, prev : Statuses]]
  /\ boot \in {"recover", "claims", "up"} /\ todo \subseteq Env
  /\ restarts \in 0..MaxRestart
  /\ imported \subseteq Env /\ base \in [Addr -> Nat] /\ failed \subseteq Env

Init ==
  /\ row = {} /\ cached = {} /\ status = [n \in Env |-> "up"] /\ ext = {}
  /\ names = [n \in Env |-> NoAddr] /\ bind = [n \in Env |-> NoAddr]
  /\ count = [e \in Addr |-> 0] /\ entry = [e \in Addr |-> "available"]
  /\ claim = [n \in Env |-> NoClaim] /\ bound = {}
  /\ next = 1 /\ co = [a \in Actors |-> Idle]
  /\ boot = "up" /\ todo = {} /\ restarts = 0
  /\ imported = {} /\ base = [e \in Addr |-> 0] /\ failed = {}

-----------------------------------------------------------------------------
(* Pieces that the operations share.                                       *)

Goto(a, pc) == co' = [co EXCEPT ![a].pc = pc]
Finish(a) == co' = [co EXCEPT ![a] = Idle]

Less(c, e) == IF c[e] > 0 THEN [c EXCEPT ![e] = @ - 1] ELSE c

\* An entry that the pools still have: get_entry finds no other.
Known(e) == e \in Addr /\ entry[e] # "deleted"

\* unbind_ip: the binding goes, and the entry it named loses one.
Unbound(n) == [bind EXCEPT ![n] = NoAddr]
Released(n) == IF Known(bind[n]) THEN Less(count, bind[n]) ELSE count

\* bind_ip, after select_ip took an available entry: the environment lets go
\* of the entry it had, in this process, and the new one gains one.
BindToKeeping(n, e) ==
  /\ bind' = [bind EXCEPT ![n] = e]
  /\ count' = [count EXCEPT ![e] = @ + 1]

BindTo(n, e) ==
  /\ bind' = [bind EXCEPT ![n] = e]
  /\ count' = [Released(n) EXCEPT ![e] = @ + 1]

\* pool.remove: what the cache no longer has is left alone.
Remove(n) ==
  /\ cached' = cached \ {n}
  /\ IF n \in cached
     THEN row' = row \ {n} /\ bind' = Unbound(n) /\ count' = Released(n)
     ELSE UNCHANGED <<row, bind, count>>

-----------------------------------------------------------------------------
(* Creation.                                                               *)

CanCreateAtMax == Cardinality(cached) <= Max

CanCreate == Cardinality(cached) < Max

\* The placeholder and the address: up to the call of provider.create nothing
\* suspends.  A creation may want no address, or find none that is available.
Reserve(c) ==
  /\ next <= Envs
  /\ next' = next + 1
  /\ row' = row \cup {next} /\ cached' = cached \cup {next}
  /\ status' = [status EXCEPT ![next] = "creating"]
  /\ \/ /\ UNCHANGED address
        /\ co' = [co EXCEPT ![c] = [pc |-> "creating", env |-> next,
                                    addr |-> NoAddr, prev |-> "creating"]]
     \/ \E e \in Available :
          /\ BindTo(next, e)
          /\ names' = [names EXCEPT ![next] = e]
          /\ co' = [co EXCEPT ![c] = [pc |-> "creating", env |-> next,
                                      addr |-> e, prev |-> "creating"]]
  /\ UNCHANGED <<ext, entry, claims, process, imported, failed>>

\* A task creates with ensure_runtime=False: the quota it read still stands
\* when its row is inserted.
TaskCreates(t) ==
  /\ boot = "up" /\ At(t, "idle") /\ CanCreate
  /\ Reserve(t)

\* The user interface reads the quota and then awaits the provider's runtime.
WindowChecks(w) ==
  /\ boot = "up" /\ At(w, "idle") /\ CanCreate
  /\ Goto(w, "runtime")
  /\ UNCHANGED <<table, address, entry, claims, next, process, imported, failed>>

WindowCreates(w) ==
  /\ At(w, "runtime")
  /\ Reserve(w)

RuntimeFails(w) ==
  /\ At(w, "runtime")
  /\ Finish(w)
  /\ UNCHANGED <<table, address, entry, claims, next, process, imported, failed>>

\* provider.create has returned: pool.add updates the row, if there still is
\* one, and puts the object into the cache; then open marks it busy.
Created(c) ==
  /\ At(c, "creating")
  /\ LET n == co[c].env IN
       /\ cached' = cached \cup {n} /\ ext' = ext \cup {n}
       /\ status' = [status EXCEPT ![n] = "up"]
       /\ names' = [names EXCEPT ![n] = co[c].addr]
  /\ Goto(c, "opening")
  /\ UNCHANGED <<row, bind, count, entry, claims, next, process, imported, failed>>

CreateFails(c) ==
  /\ At(c, "creating")
  /\ Goto(c, "undo")
  /\ UNCHANGED <<table, address, entry, claims, next, process, imported, failed>>

\* open and connect have succeeded: update_status, and pool.add once more.
Opened(c) ==
  /\ At(c, "opening")
  /\ cached' = cached \cup {co[c].env}
  /\ status' = [status EXCEPT ![co[c].env] = "up"]
  /\ IF c \in Tasks THEN Goto(c, "opened") ELSE Finish(c)
  /\ UNCHANGED <<row, ext, address, entry, claims, next, process, imported, failed>>

\* open has failed, or the fingerprint was refused: an environment that is in
\* the pool gets the status it had.
OpenFails(c) ==
  /\ At(c, "opening")
  /\ status' = IF co[c].env \in cached
               THEN [status EXCEPT ![co[c].env] = "creating"] ELSE status
  /\ Goto(c, "undo")
  /\ UNCHANGED <<row, cached, ext, address, entry, claims, next, process, imported, failed>>

\* The task claims for its module what it created; the process may end before.
Claims(t) ==
  /\ At(t, "opened")
  /\ claim' = [claim EXCEPT ![co[t].env] = [state |-> "pending", task |-> t]]
  /\ Goto(t, "running")
  /\ UNCHANGED <<table, address, entry, bound, next, process, imported, failed>>

\* The workflow writes the environment into a table of its module.
Refers(t) ==
  /\ At(t, "running") /\ co[t].env \notin bound
  /\ bound' = bound \cup {co[t].env}
  /\ UNCHANGED <<table, address, entry, claim, next, co, process, imported, failed>>

Settled(n) == IF n \in bound THEN "claimed" ELSE "abandoned"

\* refresh_env_claim_after_task; what it raises leaves the claim pending.
TaskEnds(t) ==
  /\ At(t, "running")
  /\ \/ /\ claim' = [claim EXCEPT ![co[t].env].state = Settled(co[t].env)]
        /\ UNCHANGED failed
     \/ /\ failed' = failed \cup {co[t].env}
        /\ UNCHANGED claim
  /\ Finish(t)
  /\ UNCHANGED <<table, address, entry, bound, next, process, imported>>

-----------------------------------------------------------------------------
(* Destruction, under the lifecycle lock of the environment.               *)

\* _destroy_env_unlocked: without an external id the row goes at once,
\* otherwise the provider is asked.
Destroy(a, n) ==
  /\ n \notin Locked
  /\ IF n \notin cached
     THEN Finish(a) /\ UNCHANGED <<table, address>>
     ELSE IF n \notin ext
     THEN /\ Remove(n) /\ Finish(a)
          /\ status' = [status EXCEPT ![n] = "terminating"]
          /\ UNCHANGED <<ext, names>>
     ELSE /\ status' = [status EXCEPT ![n] = "terminating"]
          /\ co' = [co EXCEPT ![a] = [pc |-> "destroying", env |-> n, addr |-> NoAddr,
                                      prev |-> status[n]]]
          /\ UNCHANGED <<row, cached, ext, address>>
  /\ UNCHANGED <<entry, claims, next, boot, restarts, base, imported, failed>>

\* The creator takes back what it could not create.
Undo(c) ==
  /\ At(c, "undo")
  /\ Destroy(c, co[c].env)
  /\ UNCHANGED todo

\* The list of environments offers no destruction of one that is being
\* created, in use or broken.
UserDestroys(d, n) ==
  /\ boot = "up" /\ At(d, "idle")
  /\ n \in cached \ Held /\ status[n] = "up"
  /\ Destroy(d, n)
  /\ UNCHANGED todo

\* run_gc reaps by status, whatever is going on.
GcDestroys(n) ==
  /\ "gc" \in Ops /\ boot = "up" /\ At(Gc, "idle")
  /\ n \in cached /\ status[n] \in Reapable
  /\ Destroy(Gc, n)
  /\ UNCHANGED todo

\* _recover_crashed looks at every environment once.
RecoverOne(n) ==
  /\ boot = "recover" /\ At(Gc, "idle") /\ n \in todo
  /\ todo' = todo \ {n}
  /\ IF status[n] \in Reapable THEN Destroy(Gc, n)
     ELSE UNCHANGED <<table, address, entry, claims, next, co, boot, restarts, base,
                      imported, failed>>

Destroyed(a) ==
  /\ At(a, "destroying")
  /\ Remove(co[a].env)
  /\ Finish(a)
  /\ UNCHANGED <<status, ext, names, entry, claims, next, process, imported, failed>>

\* provider.destroy failed: the row stays, with the status it had before.
DestroyFails(a) ==
  /\ At(a, "destroying")
  /\ status' = IF co[a].env \in cached
               THEN [status EXCEPT ![co[a].env] = co[a].prev] ELSE status
  /\ failed' = failed \cup {co[a].env}
  /\ Finish(a)
  /\ UNCHANGED <<row, cached, ext, address, entry, claims, next, process, imported>>

-----------------------------------------------------------------------------
(* Addresses.                                                              *)

\* An edit that picks an entry asks the provider first, without the lock.
EditBegins(x, n, e) ==
  /\ boot = "up" /\ At(x, "idle")
  /\ n \in cached \ Held /\ status[n] = "up" /\ e \in Available
  /\ co' = [co EXCEPT ![x] = [pc |-> "updating", env |-> n, addr |-> e, prev |-> "up"]]
  /\ UNCHANGED <<table, address, entry, claims, next, process, imported, failed>>

\* bind_ip_entry: the entry is checked again, and the one let go is the one
\* bound or, when this process bound none, the one the environment names.
Let(n) == IF bind[n] = NoAddr THEN names[n] ELSE bind[n]

EditEnds(x) ==
  /\ At(x, "updating")
  /\ LET n == co[x].env  e == co[x].addr IN
       /\ e \in Available
       /\ bind' = [bind EXCEPT ![n] = e]
       /\ count' = IF Let(n) = e THEN count
                   ELSE LET c == IF Known(Let(n)) THEN Less(count, Let(n)) ELSE count
                        IN  [c EXCEPT ![e] = @ + 1]
       /\ names' = [names EXCEPT ![n] = e]
       /\ cached' = cached \cup {n}
  /\ Finish(x)
  /\ UNCHANGED <<row, status, ext, entry, claims, next, process, imported, failed>>

EditFails(x) ==
  /\ At(x, "updating")
  /\ Finish(x)
  /\ UNCHANGED <<table, address, entry, claims, next, process, imported, failed>>

\* An edit that picks a pool, _bind_ip_if_needed: it unbinds before it looks
\* for an entry, and does not suspend.
EditPool(n) ==
  /\ "pool" \in Ops /\ boot = "up"
  /\ n \in cached \ Held /\ status[n] = "up"
  /\ \/ \E e \in Available : BindTo(n, e) /\ names' = [names EXCEPT ![n] = e]
     \/ Available = {} /\ bind' = Unbound(n) /\ count' = Released(n) /\ UNCHANGED names
  /\ UNCHANGED <<table, entry, claims, next, co, process, imported, failed>>

\* The tab of the IP pools enables, disables and deletes entries; a count goes
\* with its entry, the environments bound to it are not told.
SetEntry(e, s) ==
  /\ "address" \in Ops /\ boot = "up"
  /\ Known(e) /\ entry[e] # s
  /\ entry' = [entry EXCEPT ![e] = s]
  /\ count' = IF s = "deleted" THEN [count EXCEPT ![e] = 0] ELSE count
  /\ UNCHANGED <<table, names, bind, claims, next, co, process, imported, failed>>

-----------------------------------------------------------------------------
(* Environments that exist in the provider's own software.                 *)

\* import_existing_env asks for no quota, and names an entry it does not count.
Import ==
  /\ "import" \in Ops /\ boot = "up" /\ next <= Envs
  /\ next' = next + 1
  /\ row' = row \cup {next} /\ cached' = cached \cup {next} /\ ext' = ext \cup {next}
  /\ status' = [status EXCEPT ![next] = "up"]
  /\ \E e \in {f \in Addr : Known(f)} \cup {NoAddr} : names' = [names EXCEPT ![next] = e]
  /\ imported' = imported \cup {next}
  /\ UNCHANGED <<bind, count, entry, claims, co, process, failed>>

\* sync_source_proxies makes an environment name the entry of its source.
Sync(n) ==
  /\ "sync" \in Ops /\ boot = "up"
  /\ n \in cached \cap ext
  /\ \E e \in {f \in Addr : Known(f)} \cup {NoAddr} : names' = [names EXCEPT ![n] = e]
  /\ UNCHANGED <<table, bind, count, entry, claims, next, co, process, imported, failed>>

-----------------------------------------------------------------------------
(* The process ends and starts again.                                      *)

\* Cache, bindings and coroutines are gone; a row whose provider.create had
\* not returned names no entry yet.
Restart ==
  /\ restarts < MaxRestart
  /\ restarts' = restarts + 1
  /\ cached' = row /\ bind' = [n \in Env |-> NoAddr]
  /\ names' = [n \in Env |-> IF n \in ext THEN names[n] ELSE NoAddr]
  /\ co' = [a \in Actors |-> Idle]
  /\ boot' = "recover" /\ todo' = row
  /\ base' = count /\ failed' = {}
  /\ UNCHANGED <<row, status, ext, count, entry, claims, next, imported>>

RecoverEndsEarly ==
  /\ boot = "recover" /\ todo = {} /\ At(Gc, "idle")
  /\ boot' = "up"
  /\ UNCHANGED <<table, address, entry, claims, next, co, todo, restarts, base, imported, failed>>

RecoverEnds ==
  /\ boot = "recover" /\ todo = {} /\ At(Gc, "idle")
  /\ boot' = "claims"
  /\ UNCHANGED <<table, address, entry, claims, next, co, todo, restarts, base, imported, failed>>

\* recover_pending_env_claims: the zombies were failed before, no task is
\* active.  What it raises for one environment leaves the claim of that one.
Pending == {n \in cached : claim[n].state = "pending"}

RecoverClaims ==
  /\ boot = "claims"
  /\ boot' = "up"
  /\ \E F \in SUBSET Pending :
       /\ failed' = failed \cup F
       /\ claim' = [n \in Env |-> IF n \in Pending \ F
                                  THEN [claim[n] EXCEPT !.state = Settled(n)]
                                  ELSE claim[n]]
  /\ UNCHANGED <<table, address, entry, bound, next, co, todo, restarts, base, imported>>

Next ==
  \/ \E t \in Tasks : TaskCreates(t) \/ Claims(t) \/ Refers(t) \/ TaskEnds(t)
  \/ \E w \in Windows : WindowChecks(w) \/ WindowCreates(w) \/ RuntimeFails(w)
  \/ \E c \in Creators : Created(c) \/ CreateFails(c) \/ Opened(c) \/ OpenFails(c) \/ Undo(c)
  \/ \E d \in Destroyers, n \in Env : UserDestroys(d, n)
  \/ \E n \in Env : GcDestroys(n) \/ RecoverOne(n) \/ EditPool(n) \/ Sync(n)
  \/ \E a \in Actors : Destroyed(a) \/ DestroyFails(a)
  \/ \E x \in Editors : EditEnds(x) \/ EditFails(x)
  \/ \E x \in Editors, n \in Env, e \in Addr : EditBegins(x, n, e)
  \/ \E e \in Addr, s \in {"available", "disabled", "deleted"} : SetEntry(e, s)
  \/ Import \/ Restart \/ RecoverEnds \/ RecoverClaims

Spec == Init /\ [][Next]_vars

-----------------------------------------------------------------------------
(* What must hold.                                                         *)

\* The quota is passed by no more creations than can be in progress with it
\* read and no row of theirs counted: manager.py:782 reads it before an await,
\* and pool.add puts back what was removed during a creation or an edit.
QuotaOvershoot == Cardinality(cached \ imported) <= Max + Cardinality(Adders) - 1

\* What is in the table is in the pool: no row escapes the quota, the
\* recovery or the list of environments.
RowsCached == row \subseteq cached

\* Within the life of a process the count of an address rises no higher than
\* the environments bound to it account for, however edits, creations and
\* destructions interleave: only a restart, which forgets the bindings, leaks.
CountLeaksOnlyByRestart ==
  \A e \in Addr : count[e] <= base[e] + Cardinality(Bindings(e))

\* A claim is pending only while the task that made it runs, or until start-up
\* has settled it, but for those whose settlement failed: no crash leaves a
\* pending claim that nobody will ever settle.
PendingHasTask ==
  \A n \in Pending :
    \/ boot # "up"
    \/ n \in failed
    \/ (claim[n].task # Nobody /\ At(claim[n].task, "running") /\ co[claim[n].task].env = n)

\* A count rises only while the entry is available, though the edit looked at
\* it before it awaited the provider (manager.py:1270, ip_pool.py:403).
RisesWhenAvailable ==
  [][\A e \in Addr : count'[e] > count[e] => entry[e] = "available"]_vars

\* Start-up ends with no row of an unfinished creation or destruction but
\* those whose external environment could not be deleted in this very start.
RecoveryReaps ==
  [][boot = "recover" /\ boot' # "recover" =>
       \A n \in row' : status'[n] = "up" \/ n \in failed]_vars

-----------------------------------------------------------------------------
(* What the documentation of the code says and its behaviour does not keep. *)

\* bound_count is the number of environments bound to the entry
\* (ip_pool.py:108): once the process is up, an entry that counts some
\* environment is named by one.
CountMeansBound ==
  boot = "up" => \A e \in Addr : count[e] > 0 => \E n \in row : names[n] = e

===============================================================================
