------------------------------ MODULE ModuleData ------------------------------
(***************************************************************************)
(* The data that the host keeps for its modules (ModuleDataStore): the     *)
(* resources and views a module declares, the tables and data sets behind  *)
(* them, and what becomes of them when a module is installed, upgraded,    *)
(* loaded again and uninstalled while its tasks write and read.            *)
(*                                                                         *)
(* Writes and synchronisations are transactions (BEGIN IMMEDIATE).  A read *)
(* is not one: statements of a read in the thread of a candidate function  *)
(* interleave with everything, and a read creates the table it misses.     *)
(* Records are kept by their keys; columns, indexes and SQL are not kept.  *)
(***************************************************************************)
EXTENDS Integers, FiniteSets

CONSTANTS
  Module,     \* names of modules
  Res,        \* resource ids; every module has its own resource of that id
  View,       \* view ids
  Table,      \* names of tables in the database
  TableOf,    \* TableOf[<<m, r>>]: the name that is made of m and r
  Schema,     \* versions of the columns of a table
  NoSchema,   \* there is no table of that name
  Key,        \* keys of records
  SeedKeys,   \* the records of a seed file
  Ops,        \* operations that the batches of tasks are made of
  Contracts,  \* Contracts[m]: what the versions of m declare
  NoContract, \* m is not on disk
  Nobody,     \* no module is being removed
  Thread,     \* threads of candidate functions
  MaxRestart  \* bound on the number of times the process ends

Policies == {"drop", "delete", "keep"}
Undeclared == [mode |-> "none", schema |-> NoSchema, policy |-> "drop"]
Decl == [mode : {"custom"}, schema : Schema, policy : Policies]
          \cup [mode : {"managed"}, schema : {NoSchema}, policy : Policies]
NoTable == [schema |-> NoSchema, recs |-> {}]

ViewRow == [src : SUBSET Res, keep : BOOLEAN]

\* normalize_manifest_data: a view names declared resources that are tables.
Contract ==
  {c \in [res : [Res -> Decl \cup {Undeclared}],
          view : [View -> ViewRow],
          seed : [Res -> {"none", "if_empty", "replace"}],
          bad : BOOLEAN] :
     /\ \A v \in View : \A r \in c.view[v].src : c.res[r].mode = "custom"
     /\ \A r \in Res : c.seed[r] # "none" => c.res[r].mode # "none"}

Op == [kind : {"none", "replace", "add", "upsert", "delete"}, keys : SUBSET Key]

ASSUME DataAssumption ==
  /\ TableOf \in [Module \X Res -> Table]
  /\ \A m \in Module, r, s \in Res : TableOf[<<m, r>>] = TableOf[<<m, s>>] => r = s
  /\ NoSchema \notin Schema /\ SeedKeys \subseteq Key /\ Ops \subseteq Op
  /\ Contracts \in [Module -> SUBSET Contract] /\ Nobody \notin Module
  /\ \A m \in Module : NoContract \notin Contracts[m]
  /\ MaxRestart \in Nat

VARIABLES
  row,       \* row[m][r]: the row of r in module_data_resources
  table,     \* table[t]: the schema and the records of a table
  data,      \* data[m][r]: the records of r in module_datasets
  view,      \* view[m][v]: the row of v in module_db_views, no sources if none
  made,      \* made[m][v]: the sources of the view in the database
  disk,      \* disk[m]: the contract of the version on disk
  reg,       \* reg[m]: the status of m in the registry
  todo,      \* modules that load or install still have to synchronise
  removing,  \* the module that is being uninstalled
  users,     \* modules whose code this process has started
  read,      \* read[i]: what a thread has read of the resource or view it reads
  restarts

store == <<row, table, data, view, made>>
vars == <<store, disk, reg, todo, removing, users, read, restarts>>

T(m, r) == TableOf[<<m, r>>]
Exists(t) == table[t].schema # NoSchema
NoView == [src |-> {}, keep |-> FALSE]
NoRead == [at |-> "idle"]
Reading == [at : {"table"}, t : Table, schema : Schema \cup {NoSchema}]
             \cup [at : {"view", "missing"}, m : Module, v : View, row : ViewRow]

TypeOK ==
  /\ row \in [Module -> [Res -> Decl \cup {Undeclared}]]
  /\ table \in [Table -> [schema : Schema \cup {NoSchema}, recs : SUBSET Key]]
  /\ \A t \in Table : table[t].recs # {} => Exists(t)
  /\ data \in [Module -> [Res -> SUBSET Key]]
  /\ view \in [Module -> [View -> ViewRow]]
  /\ made \in [Module -> [View -> SUBSET Res]]
  /\ DOMAIN disk = Module /\ \A m \in Module : disk[m] \in Contracts[m] \cup {NoContract}
  /\ reg \in [Module -> {"absent", "enabled", "invalid"}]
  /\ todo \subseteq Module /\ removing \in Module \cup {Nobody} /\ users \subseteq Module
  /\ read \in [Thread -> Reading \cup {NoRead}]
  /\ restarts \in 0..MaxRestart

Init ==
  /\ row = [m \in Module |-> [r \in Res |-> Undeclared]]
  /\ table = [t \in Table |-> NoTable]
  /\ data = [m \in Module |-> [r \in Res |-> {}]]
  /\ view = [m \in Module |-> [v \in View |-> NoView]]
  /\ made = [m \in Module |-> [v \in View |-> {}]]
  /\ disk = [m \in Module |-> NoContract] /\ reg = [m \in Module |-> "absent"]
  /\ todo = {} /\ removing = Nobody /\ users = {}
  /\ read = [i \in Thread |-> NoRead] /\ restarts = 0

\* The thread of the event loop is in no load, install or uninstall.
Idle == todo = {} /\ removing = Nobody

\* The records of a resource, where its row says they are.
Recs(m, r) == CASE row[m][r].mode = "custom" -> table[T(m, r)].recs
                [] row[m][r].mode = "managed" -> data[m][r]
                [] OTHER -> {}

\* The tables after those of module m have become as new says.
Tables(m, new) ==
  [t \in Table |-> IF \E r \in Res : T(m, r) = t
                   THEN new[CHOOSE r \in Res : T(m, r) = t] ELSE table[t]]

-----------------------------------------------------------------------------
(* Loading and synchronising: load, install, _sync_loaded_module_data.     *)

Loaded == [m \in Module |-> IF disk[m] = NoContract THEN "absent" ELSE "enabled"]
OnDisk == {m \in Module : disk[m] # NoContract}

\* install puts the files in place and synchronises every module that is valid.
Install(m) ==
  /\ Idle
  /\ \E c \in Contracts[m] : disk' = [disk EXCEPT ![m] = c]
  /\ reg' = [reg EXCEPT ![m] = "enabled"]
  /\ todo' = {n \in Module : reg'[n] = "enabled"}
  /\ UNCHANGED <<store, removing, users, read, restarts>>

Reload ==
  /\ Idle
  /\ reg' = Loaded /\ todo' = OnDisk
  /\ UNCHANGED <<store, disk, removing, users, read, restarts>>

\* Fault: the columns of a table that exists are not compared.
ClashUnseen(m) == FALSE

\* A table that exists must have the columns that are declared.
Clash(m) == \E r \in Res :
  /\ disk[m].res[r].mode = "custom" /\ Exists(T(m, r))
  /\ table[T(m, r)].schema # disk[m].res[r].schema

\* DELETE FROM a table that is not there is an error.
Missing(m) == \E r \in Res :
  /\ disk[m].res[r].mode = "none" /\ ~Exists(T(m, r))
  /\ row[m][r].mode = "custom" /\ row[m][r].policy = "delete"

\* Fault: a default seed replaces what is there.
SeededAlways(old, seed) == IF seed = "none" THEN old ELSE SeedKeys

\* A seed that replaces what is empty leaves what is not.
Seeded(old, seed) == IF seed = "replace" \/ (seed = "if_empty" /\ old = {}) THEN SeedKeys ELSE old

\* What cleaning up leaves of the table of a resource.
Cleaned(decl, tab) ==
  CASE decl.mode = "custom" /\ decl.policy = "drop" -> NoTable
    [] decl.mode = "custom" /\ decl.policy = "delete" -> [tab EXCEPT !.recs = {}]
    [] OTHER -> tab

\* The table of a declared resource is made if there is none; a resource that is
\* managed now leaves the table it had.
SyncedTable(m, r) ==
  LET new == disk[m].res[r]  tab == table[T(m, r)] IN
  CASE new.mode = "custom" -> [schema |-> IF Exists(T(m, r)) THEN tab.schema ELSE new.schema,
                               recs |-> Seeded(tab.recs, disk[m].seed[r])]
    [] new.mode = "managed" -> tab
    [] OTHER -> Cleaned(row[m][r], tab)

SyncedData(m, r) ==
  CASE disk[m].res[r].mode = "managed" -> Seeded(data[m][r], disk[m].seed[r])
    [] disk[m].res[r].mode = "none" /\ row[m][r].mode = "managed" -> {}
    [] OTHER -> data[m][r]

SyncedView(m, v) ==
  CASE disk[m].view[v].src # {} -> disk[m].view[v].src
    [] disk[m].view[v].src = {} /\ view[m][v].src # {} /\ ~view[m][v].keep -> {}
    [] OTHER -> made[m][v]

\* One transaction of each module; an error rolls it back and makes it invalid.
Sync(m) ==
  /\ m \in todo
  /\ todo' = todo \ {m}
  /\ \/ /\ disk[m].bad \/ Clash(m) \/ Missing(m)
        /\ reg' = [reg EXCEPT ![m] = "invalid"]
        /\ UNCHANGED store
     \/ /\ ~(disk[m].bad \/ Clash(m) \/ Missing(m))
        /\ row' = [row EXCEPT ![m] = disk[m].res]
        /\ table' = Tables(m, [r \in Res |-> SyncedTable(m, r)])
        /\ data' = [data EXCEPT ![m] = [r \in Res |-> SyncedData(m, r)]]
        /\ view' = [view EXCEPT ![m] = disk[m].view]
        /\ made' = [made EXCEPT ![m] = [v \in View |-> SyncedView(m, v)]]
        /\ UNCHANGED reg
  /\ UNCHANGED <<disk, removing, users, read, restarts>>

-----------------------------------------------------------------------------
(* uninstall removes the directory, then clears the data in a transaction. *)

\* A table that is not there is not cleaned.
ClearedTable(m, r) ==
  LET tab == table[T(m, r)] IN IF Exists(T(m, r)) THEN Cleaned(row[m][r], tab) ELSE tab

RemoveFiles(m) ==
  /\ Idle /\ reg[m] # "absent"
  /\ removing' = m
  /\ disk' = [disk EXCEPT ![m] = NoContract]
  /\ UNCHANGED <<store, reg, todo, users, read, restarts>>

ClearData(m) ==
  /\ removing = m
  /\ removing' = Nobody
  /\ reg' = [reg EXCEPT ![m] = "absent"]
  /\ table' = Tables(m, [r \in Res |-> ClearedTable(m, r)])
  /\ made' = [made EXCEPT ![m] = [v \in View |->
                IF view[m][v].src # {} /\ ~view[m][v].keep THEN {} ELSE made[m][v]]]
  /\ data' = [data EXCEPT ![m] = [r \in Res |-> {}]]
  /\ row' = [row EXCEPT ![m] = [r \in Res |-> Undeclared]]
  /\ view' = [view EXCEPT ![m] = [v \in View |-> NoView]]
  /\ UNCHANGED <<disk, todo, users, read, restarts>>

-----------------------------------------------------------------------------
(* Tasks write, candidate functions read.                                  *)

StartTask(m) ==
  /\ Idle /\ reg[m] = "enabled" /\ m \notin users
  /\ users' = users \cup {m}
  /\ UNCHANGED <<store, disk, reg, todo, removing, read, restarts>>

Result(op, old) ==
  CASE op.kind = "replace" -> op.keys
    [] op.kind \in {"add", "upsert"} -> old \cup op.keys
    [] op.kind = "delete" -> old \ op.keys
    [] OTHER -> old

\* Fault: a write does not ask whether the resource is registered.
RegisteredOrNot(m, r) == TRUE

\* The row is looked up in the transaction of the write.
Registered(m, r) == row[m][r].mode # "none"

\* An operation of a batch that raises: the whole batch is rolled back.
Accepted(m, r, op) ==
  \/ op.kind = "none"
  \/ /\ Registered(m, r)
     /\ op.kind = "add" => row[m][r].mode = "custom" /\ op.keys \cap Recs(m, r) = {}
     /\ row[m][r].mode = "custom" => table[T(m, r)].schema \in {NoSchema, row[m][r].schema}

WrittenTable(m, r, op) ==
  IF op.kind = "none" \/ row[m][r].mode # "custom" THEN table[T(m, r)]
  ELSE [schema |-> row[m][r].schema, recs |-> Result(op, Recs(m, r))]

WrittenData(m, r, op) ==
  IF row[m][r].mode = "custom" THEN data[m][r] ELSE Result(op, data[m][r])

\* A batch of operations of a task, at most one of each resource.  A table that
\* another module has dropped is made again.
Write(m) ==
  /\ Idle /\ m \in users
  /\ \E ops \in [Res -> Ops] :
       /\ \A r \in Res : Accepted(m, r, ops[r])
       /\ table' = Tables(m, [r \in Res |-> WrittenTable(m, r, ops[r])])
       /\ data' = [data EXCEPT ![m] = [r \in Res |-> WrittenData(m, r, ops[r])]]
  /\ UNCHANGED <<row, view, made, disk, reg, todo, removing, users, read, restarts>>

\* A read of a table looks at the row of the resource, and in a later statement
\* makes the table if there is none, by the row it has read.
ReadRow(i) ==
  /\ read[i] = NoRead
  /\ \E m \in users, r \in Res :
       /\ row[m][r].mode = "custom"
       /\ read' = [read EXCEPT ![i] = [at |-> "table", t |-> T(m, r), schema |-> row[m][r].schema]]
  /\ UNCHANGED <<store, disk, reg, todo, removing, users, restarts>>

ReadTable(i) ==
  /\ read[i].at = "table"
  /\ read' = [read EXCEPT ![i] = NoRead]
  /\ table' = IF Exists(read[i].t) THEN table
              ELSE [table EXCEPT ![read[i].t] = [schema |-> read[i].schema, recs |-> {}]]
  /\ UNCHANGED <<row, data, view, made, disk, reg, todo, removing, users, restarts>>

\* A read of a view looks at its row, then whether the database has the view,
\* and if not writes row and view again by the row it has read.
ReadViewRow(i) ==
  /\ read[i] = NoRead
  /\ \E m \in users, v \in View :
       /\ view[m][v].src # {}
       /\ read' = [read EXCEPT ![i] = [at |-> "view", m |-> m, v |-> v, row |-> view[m][v]]]
  /\ UNCHANGED <<store, disk, reg, todo, removing, users, restarts>>

ReadView(i) ==
  /\ read[i].at = "view"
  /\ read' = IF made[read[i].m][read[i].v] # {} THEN [read EXCEPT ![i] = NoRead]
                                                ELSE [read EXCEPT ![i].at = "missing"]
  /\ UNCHANGED <<store, disk, reg, todo, removing, users, restarts>>

\* The table of a resource is made if there is none, and must be the declared one.
Ensured(m, r) ==
  IF Exists(T(m, r)) THEN table[T(m, r)] ELSE [schema |-> row[m][r].schema, recs |-> {}]

RemakeView(i) ==
  LET m == read[i].m  src == read[i].row.src IN
  /\ read[i].at = "missing"
  /\ read' = [read EXCEPT ![i] = NoRead]
  /\ \/ /\ \A r \in src : row[m][r].mode = "custom" /\ Ensured(m, r).schema = row[m][r].schema
        /\ table' = Tables(m, [r \in Res |-> IF r \in src THEN Ensured(m, r) ELSE table[T(m, r)]])
        /\ view' = [view EXCEPT ![m][read[i].v] = read[i].row]
        /\ made' = [made EXCEPT ![m][read[i].v] = src]
     \/ /\ \E r \in src : row[m][r].mode # "custom" \/ Ensured(m, r).schema # row[m][r].schema
        /\ UNCHANGED <<table, view, made>>
  /\ UNCHANGED <<row, data, disk, reg, todo, removing, users, restarts>>

\* The process ends anywhere and loads what is on disk.
Restart ==
  /\ restarts < MaxRestart
  /\ restarts' = restarts + 1
  /\ reg' = Loaded /\ todo' = OnDisk /\ removing' = Nobody /\ users' = {}
  /\ read' = [i \in Thread |-> NoRead]
  /\ UNCHANGED <<store, disk>>

Next ==
  \/ \E m \in Module : Install(m) \/ Sync(m) \/ RemoveFiles(m) \/ ClearData(m)
  \/ \E m \in Module : StartTask(m) \/ Write(m)
  \/ \E i \in Thread : ReadRow(i) \/ ReadTable(i)
  \/ \E i \in Thread : ReadViewRow(i) \/ ReadView(i) \/ RemakeView(i)
  \/ Reload \/ Restart

Spec == Init /\ [][Next]_vars

-----------------------------------------------------------------------------
(* What must hold.                                                         *)

\* A module that is enabled and synchronised has the rows of the version on
\* disk, every table with the declared columns, every declared view, and no view
\* but over tables that are there, whatever versions, removals and late reads
\* came before.
EnabledIsReadable ==
  \A m \in Module : reg[m] = "enabled" /\ m \notin todo \cup {removing} =>
    /\ row[m] = disk[m].res
    /\ \A r \in Res : row[m][r].mode = "custom" => table[T(m, r)].schema = row[m][r].schema
    /\ \A v \in View : disk[m].view[v].src # {} => view[m][v].src # {}
    /\ \A v \in View : view[m][v].src # {} =>
         /\ made[m][v] = view[m][v].src
         /\ \A r \in view[m][v].src : row[m][r].mode = "custom"

\* A record of a registered resource goes away only when a task of its module
\* writes, when its module is uninstalled, or when a version of its module is
\* synchronised that no longer declares the resource as it was or replaces its
\* records: no other module, failed synchronisation, default seed or read does it.
RecordsSurvive ==
  [][\A m \in Module, r \in Res : Recs(m, r) \subseteq Recs(m, r)'
       \/ removing = m
       \/ /\ m \in todo \ todo'
          /\ disk[m].res[r].mode # row[m][r].mode \/ disk[m].seed[r] = "replace"
       \/ /\ Idle /\ m \in users
          /\ \A n \in Module \ {m}, s \in Res : Recs(n, s)' = Recs(n, s)]_vars

\* A module that is not on disk gets no record any more, though its tasks may
\* still run and its rows may be left by a removal that did not end.
NoGhostRecords ==
  [][\A m \in Module, r \in Res : disk[m] = NoContract =>
       /\ data[m][r]' \subseteq data[m][r]
       /\ table[T(m, r)].recs' \subseteq table[T(m, r)].recs]_vars

-----------------------------------------------------------------------------
(* What the documentation of the code says and its behaviour does not keep. *)

\* module-config-runtime-data-contract.md: the views of a module are those its
\* version declares.  A late read brings back one of an earlier version.
ViewsAreDeclared ==
  \A m \in Module : reg[m] = "enabled" /\ m \notin todo \cup {removing} => view[m] = disk[m].view

\* The uninstall dialog and module-config-runtime-data-contract.md: a module
\* that was uninstalled leaves tables only where a resource said so.  A resource
\* that was a table in an earlier version leaves one.
LeavesWhatItKeeps ==
  [][\A m \in Module : removing = m /\ removing' = Nobody /\ restarts' = restarts =>
       \A r \in Res : Exists(T(m, r))' => row[m][r].mode = "custom" /\ row[m][r].policy # "drop"]_vars
===============================================================================
