-------------------------- MODULE ModuleData_proofs --------------------------
(***************************************************************************)
(* Proofs about ModuleData, for any modules, resources, versions and       *)
(* batches of operations.                                                  *)
(***************************************************************************)
EXTENDS ModuleData, TLAPS

-----------------------------------------------------------------------------
(* What the constants and the operators are.                               *)

RowType == Decl \cup {Undeclared}
TableType == [schema : Schema \cup {NoSchema}, recs : SUBSET Key]

\* A table that has no columns has no records.
Sound(tab) == tab \in TableType /\ (tab.recs # {} => tab.schema # NoSchema)

LEMMA RowFact ==
  ASSUME NEW d \in RowType
  PROVE  /\ d.mode \in {"none", "custom", "managed"}
         /\ d.schema \in Schema \cup {NoSchema} /\ d.policy \in Policies
         /\ d.mode = "custom" => d.schema \in Schema
         /\ Undeclared \in RowType /\ Undeclared.mode = "none"
BY DEF RowType, Decl, Undeclared, Policies

LEMMA ContractFact ==
  ASSUME NEW m \in Module, NEW c \in Contracts[m]
  PROVE  /\ c # NoContract
         /\ c.res \in [Res -> RowType]
         /\ c.view \in [View -> ViewRow]
         /\ c.seed \in [Res -> {"none", "if_empty", "replace"}]
         /\ \A v \in View : \A r \in c.view[v].src : c.res[r].mode = "custom"
         /\ \A r \in Res : c.seed[r] # "none" => c.res[r].mode # "none"
<1>1. c \in Contract /\ c # NoContract
  BY DataAssumption
<1>. QED
  BY <1>1 DEF Contract, RowType

LEMMA NoTableSound == Sound(NoTable)
BY DEF Sound, NoTable, TableType

LEMMA TypeFact ==
  ASSUME TypeOK
  PROVE  /\ \A m \in Module, r \in Res : T(m, r) \in Table /\ row[m][r] \in RowType
         /\ \A t \in Table : Sound(table[t])
         /\ \A m \in Module, r \in Res : data[m][r] \in SUBSET Key
BY DataAssumption DEF TypeOK, T, RowType, Sound, TableType, Exists

\* What the operations leave of a table and of a set of records.
LEMMA SeededFact ==
  ASSUME NEW old \in SUBSET Key, NEW seed
  PROVE  Seeded(old, seed) \in SUBSET Key
BY DataAssumption DEF Seeded

LEMMA CleanedFact ==
  ASSUME NEW d, NEW tab, Sound(tab)
  PROVE  Sound(Cleaned(d, tab)) /\ Cleaned(d, tab).recs \subseteq tab.recs
BY NoTableSound DEF Cleaned, Sound, TableType, NoTable

LEMMA ResultFact ==
  ASSUME NEW op \in Ops, NEW old \in SUBSET Key
  PROVE  Result(op, old) \in SUBSET Key /\ (op.kind = "none" => Result(op, old) = old)
BY DataAssumption DEF Result, Op

\* The tables of one module become as new says and no others change.
TablesBecome(m, new) ==
  /\ \A r \in Res : T(m, r) \in Table /\ table'[T(m, r)] = new[r]
  /\ \A t \in Table : (\A r \in Res : T(m, r) # t) => table'[t] = table[t]
  /\ table' = [t \in Table |-> table'[t]]

LEMMA TablesFact ==
  ASSUME NEW m \in Module, NEW new, table' = Tables(m, new)
  PROVE  TablesBecome(m, new)
<1>1. ASSUME NEW r \in Res PROVE T(m, r) \in Table /\ (CHOOSE s \in Res : T(m, s) = T(m, r)) = r
  BY DataAssumption DEF T
<1>. QED
  BY <1>1 DEF Tables, TablesBecome

-----------------------------------------------------------------------------
(* Type correctness.                                                       *)

TableOK ==
  /\ table \in [Table -> [schema : Schema \cup {NoSchema}, recs : SUBSET Key]]
  /\ \A t \in Table : table[t].recs # {} => Exists(t)

LEMMA TableStep ==
  ASSUME TypeOK, NEW m \in Module, NEW new, table' = Tables(m, new),
         \A r \in Res : Sound(new[r])
  PROVE  TableOK'
<1>1. TablesBecome(m, new)
  BY TablesFact
<1>2. \A t \in Table : Sound(table'[t])
  BY <1>1, TypeFact DEF TablesBecome
<1>. QED
  BY <1>1, <1>2 DEF TableOK, Sound, TableType, Exists, TablesBecome

\* What is enabled or still to be synchronised is on disk.
StageInv ==
  /\ \A m \in todo : disk[m] # NoContract
  /\ \A m \in Module : reg[m] = "enabled" => disk[m] # NoContract \/ removing = m
  /\ removing # Nobody => todo = {}

TypeInv == TypeOK /\ StageInv

LEMMA TypeInit == Init => TypeInv
<1>. SUFFICES ASSUME Init PROVE TypeOK /\ StageInv
  BY DEF TypeInv
<1>1. TableOK
  BY NoTableSound DEF Init, TableOK, Exists, NoTable
<1>3. read \in [Thread -> Reading \cup {NoRead}]
  BY DEF Init
<1>. QED
  BY <1>1, <1>3, DataAssumption DEF Init, TypeOK, TableOK, NoView, ViewRow, Undeclared, StageInv

LEMMA TypeSync == ASSUME TypeInv, NEW m \in Module, Sync(m) PROVE TypeOK'
<1>. USE DEF Sync, TypeInv
<1>1. CASE UNCHANGED store
  BY <1>1 DEF TypeOK, store, Exists
<1>2. CASE ~UNCHANGED store
  <2>1. PICK c \in Contracts[m] : disk[m] = c
    BY DEF TypeOK, StageInv
  <2>2. ASSUME NEW r \in Res PROVE Sound(SyncedTable(m, r))
    <3>1. Sound(table[T(m, r)]) /\ c.res[r] \in RowType
      BY TypeFact, ContractFact
    <3>2. Seeded(table[T(m, r)].recs, c.seed[r]) \in SUBSET Key
      BY <3>1, SeededFact DEF Sound, TableType
    <3>3. CASE c.res[r].mode = "custom"
      BY <3>1, <3>2, <3>3, <2>1, RowFact, DataAssumption DEF SyncedTable, Sound, TableType, Exists
    <3>4. CASE c.res[r].mode # "custom"
      BY <3>1, <3>4, <2>1, CleanedFact DEF SyncedTable
    <3>. QED
      BY <3>3, <3>4
  <2>3. TableOK'
    <3>. DEFINE new == [r \in Res |-> SyncedTable(m, r)]
    <3>1. table' = Tables(m, new) /\ \A r \in Res : Sound(new[r])
      BY <1>2, <2>2
    <3>. HIDE DEF new
    <3>. QED
      BY <3>1, TableStep
  <2>4. data' \in [Module -> [Res -> SUBSET Key]]
    <3>1. ASSUME NEW r \in Res PROVE SyncedData(m, r) \in SUBSET Key
      <4>1. data[m][r] \in SUBSET Key
        BY TypeFact
      <4>. QED
        BY <4>1, SeededFact DEF SyncedData
    <3>2. data \in [Module -> [Res -> SUBSET Key]]
      BY DEF TypeOK
    <3>. QED
      BY <3>1, <3>2, <1>2
  <2>5. /\ row' \in [Module -> [Res -> RowType]]
        /\ view' \in [Module -> [View -> ViewRow]]
    <3>1. row' = [row EXCEPT ![m] = disk[m].res] /\ view' = [view EXCEPT ![m] = disk[m].view]
      BY <1>2
    <3>2. /\ disk[m].res \in [Res -> RowType]
          /\ disk[m].view \in [View -> ViewRow]
      BY <2>1, ContractFact
    <3>. QED
      BY <3>1, <3>2 DEF TypeOK, RowType
  <2>6. made' \in [Module -> [View -> SUBSET Res]]
    <3>1. \A v \in View : SyncedView(m, v) \in SUBSET Res
      <4>1. disk[m].view \in [View -> ViewRow]
        BY <2>1, ContractFact
      <4>2. made \in [Module -> [View -> SUBSET Res]]
        BY DEF TypeOK
      <4>. QED
        BY <4>1, <4>2 DEF SyncedView, ViewRow
    <3>2. made \in [Module -> [View -> SUBSET Res]]
      BY DEF TypeOK
    <3>. QED
      BY <3>1, <3>2, <1>2
  <2>. QED
    BY <1>2, <2>3, <2>4, <2>5, <2>6 DEF TypeOK, TableOK, RowType
<1>. QED
  BY <1>1, <1>2

LEMMA TypeClear == ASSUME TypeInv, NEW m \in Module, ClearData(m) PROVE TypeOK'
<1>. USE DEF TypeInv
<1>1. TableOK'
  <2>. DEFINE new == [r \in Res |-> ClearedTable(m, r)]
  <2>1. \A r \in Res : Sound(ClearedTable(m, r))
    BY TypeFact, CleanedFact DEF ClearedTable
  <2>2. table' = Tables(m, new) /\ \A r \in Res : Sound(new[r])
    BY <2>1 DEF ClearData
  <2>. HIDE DEF new
  <2>. QED
    BY <2>2, TableStep
<1>2. made' \in [Module -> [View -> SUBSET Res]]
  BY DEF ClearData, TypeOK
<1>3. data' \in [Module -> [Res -> SUBSET Key]]
  BY DEF ClearData, TypeOK
<1>4. row' \in [Module -> [Res -> RowType]]
  BY DEF ClearData, TypeOK, RowType
<1>5. view' \in [Module -> [View -> ViewRow]]
  BY DEF ClearData, TypeOK, NoView, ViewRow
<1>. QED
  BY <1>1, <1>2, <1>3, <1>4, <1>5 DEF TypeOK, TableOK, RowType, ClearData

LEMMA TypeWrite == ASSUME TypeInv, NEW m \in Module, Write(m) PROVE TypeOK'
<1>. USE DEF TypeInv
<1>1. PICK ops \in [Res -> Ops] :
        /\ table' = Tables(m, [r \in Res |-> WrittenTable(m, r, ops[r])])
        /\ data' = [data EXCEPT ![m] = [r \in Res |-> WrittenData(m, r, ops[r])]]
  BY DEF Write
<1>2. ASSUME NEW r \in Res
      PROVE  Sound(WrittenTable(m, r, ops[r])) /\ WrittenData(m, r, ops[r]) \in SUBSET Key
  <2>1. Sound(table[T(m, r)]) /\ row[m][r] \in RowType /\ data[m][r] \in SUBSET Key /\ ops[r] \in Ops
    BY TypeFact
  <2>2. Recs(m, r) \in SUBSET Key
    BY <2>1 DEF Recs, Sound, TableType
  <2>3. Result(ops[r], Recs(m, r)) \in SUBSET Key /\ Result(ops[r], data[m][r]) \in SUBSET Key
    BY <2>1, <2>2, ResultFact
  <2>4. row[m][r].mode = "custom" => row[m][r].schema \in Schema
    BY <2>1, RowFact
  <2>. QED
    BY <2>1, <2>3, <2>4, DataAssumption DEF WrittenTable, WrittenData, Sound, TableType
<1>3. TableOK'
  <2>. DEFINE new == [r \in Res |-> WrittenTable(m, r, ops[r])]
  <2>1. table' = Tables(m, new) /\ \A r \in Res : Sound(new[r])
    BY <1>1, <1>2
  <2>. HIDE DEF new
  <2>. QED
    BY <2>1, TableStep
<1>4. data' \in [Module -> [Res -> SUBSET Key]]
  BY <1>1, <1>2 DEF TypeOK
<1>. QED
  BY <1>3, <1>4 DEF TypeOK, TableOK, Write

LEMMA ReadingTable ==
  ASSUME TypeOK, NEW i \in Thread, read[i].at = "table"
  PROVE  read[i] \in [at : {"table"}, t : Table, schema : Schema \cup {NoSchema}]
<1>1. read[i] \in Reading \cup {NoRead}
  BY DEF TypeOK
<1>2. read[i] # NoRead
  BY DEF NoRead
<1>3. read[i] \notin [at : {"view", "missing"}, m : Module, v : View, row : ViewRow]
  OBVIOUS
<1>. QED
  BY <1>1, <1>2, <1>3 DEF Reading

LEMMA TypeRead ==
  ASSUME TypeInv, NEW i \in Thread, ReadRow(i) \/ ReadTable(i)
  PROVE  TypeOK'
<1>. USE DEF TypeInv
<1>1. CASE ReadRow(i)
  <2>1. PICK m \in users, r \in Res :
          read' = [read EXCEPT ![i] = [at |-> "table", t |-> T(m, r), schema |-> row[m][r].schema]]
    BY <1>1 DEF ReadRow
  <2>2. T(m, r) \in Table /\ row[m][r].schema \in Schema \cup {NoSchema}
    BY <2>1, TypeFact, RowFact DEF TypeOK
  <2>. QED
    BY <1>1, <2>1, <2>2 DEF TypeOK, ReadRow, store, Exists, Reading
<1>2. CASE ReadTable(i)
  <2>1. read[i] \in [at : {"table"}, t : Table, schema : Schema \cup {NoSchema}]
    BY <1>2, ReadingTable DEF ReadTable
  <2>2. TableOK'
    BY <1>2, <2>1 DEF ReadTable, TypeOK, TableOK, Exists
  <2>3. read' \in [Thread -> Reading \cup {NoRead}]
    BY <1>2 DEF ReadTable, TypeOK
  <2>. QED
    BY <1>2, <2>2, <2>3 DEF TypeOK, TableOK, ReadTable
<1>. QED
  BY <1>1, <1>2

\* What a thread remembers of the view it reads.
LEMMA ReadingView ==
  ASSUME TypeOK, NEW i \in Thread, read[i].at \in {"view", "missing"}
  PROVE  read[i] \in [at : {"view", "missing"}, m : Module, v : View, row : ViewRow]
BY DEF TypeOK, Reading, NoRead

\* The tables of the sources of a view are made, all others stay as they are.
EnsuredOr(m, src) ==
  [r \in Res |-> IF r \in src THEN Ensured(m, r) ELSE table[T(m, r)]]

LEMMA EnsuredSound ==
  ASSUME TypeOK, NEW m \in Module, NEW src, NEW r \in Res,
         \A s \in src : row[m][s].mode = "custom"
  PROVE  /\ Sound(EnsuredOr(m, src)[r])
         /\ EnsuredOr(m, src)[r] # table[T(m, r)] =>
              ~Exists(T(m, r)) /\ EnsuredOr(m, src)[r].recs = {}
BY TypeFact, RowFact, DataAssumption DEF EnsuredOr, Ensured, Sound, TableType, Exists

LEMMA TypeReadView ==
  ASSUME TypeInv, NEW i \in Thread, ReadViewRow(i) \/ ReadView(i) \/ RemakeView(i)
  PROVE  TypeOK'
<1>. USE DEF TypeInv
<1>1. CASE ReadViewRow(i)
  <2>1. PICK m \in users, v \in View :
          read' = [read EXCEPT ![i] = [at |-> "view", m |-> m, v |-> v, row |-> view[m][v]]]
    BY <1>1 DEF ReadViewRow
  <2>2. m \in Module /\ view[m][v] \in ViewRow
    BY <2>1 DEF TypeOK
  <2>. QED
    BY <1>1, <2>1, <2>2 DEF TypeOK, ReadViewRow, store, Exists, Reading
<1>2. CASE ReadView(i)
  <2>1. read' \in [Thread -> Reading \cup {NoRead}]
    <3>1. read[i] \in [at : {"view", "missing"}, m : Module, v : View, row : ViewRow]
      BY <1>2, ReadingView DEF ReadView
    <3>2. [read[i] EXCEPT !.at = "missing"] \in Reading
      BY <3>1 DEF Reading
    <3>. QED
      BY <1>2, <3>2 DEF ReadView, TypeOK
  <2>. QED
    BY <1>2, <2>1 DEF TypeOK, ReadView, store, Exists
<1>3. CASE RemakeView(i)
  <2>1. read[i] \in [at : {"view", "missing"}, m : Module, v : View, row : ViewRow]
    BY <1>3, ReadingView DEF RemakeView
  <2>2. read' \in [Thread -> Reading \cup {NoRead}]
    BY <1>3 DEF RemakeView, TypeOK
  <2>3. CASE UNCHANGED <<table, view, made>>
    BY <1>3, <2>2, <2>3 DEF RemakeView, TypeOK, Exists
  <2>4. CASE ~UNCHANGED <<table, view, made>>
    <3>. DEFINE m == read[i].m  src == read[i].row.src
    <3>1. /\ \A r \in src : row[m][r].mode = "custom"
          /\ table' = Tables(m, EnsuredOr(m, src))
          /\ view' = [view EXCEPT ![m][read[i].v] = read[i].row]
          /\ made' = [made EXCEPT ![m][read[i].v] = src]
      BY <1>3, <2>4 DEF RemakeView, EnsuredOr
    <3>2. m \in Module /\ src \in SUBSET Res /\ read[i].v \in View /\ read[i].row \in ViewRow
      BY <2>1 DEF ViewRow
    <3>3. view' \in [Module -> [View -> ViewRow]] /\ made' \in [Module -> [View -> SUBSET Res]]
      BY <3>1, <3>2 DEF TypeOK
    <3>. HIDE DEF m, src
    <3>4. \A r \in Res : Sound(EnsuredOr(m, src)[r])
      BY <3>1, <3>2, EnsuredSound
    <3>5. TableOK'
      BY <3>1, <3>2, <3>4, TableStep
    <3>. QED
      BY <1>3, <2>2, <3>3, <3>5 DEF RemakeView, TypeOK, TableOK
  <2>. QED
    BY <2>3, <2>4
<1>. QED
  BY <1>1, <1>2, <1>3

LEMMA TypeNext == TypeInv /\ [Next]_vars => TypeInv'
<1>. SUFFICES ASSUME TypeInv, [Next]_vars PROVE TypeOK' /\ StageInv'
  BY DEF TypeInv
<1>. USE DEF TypeInv
<1>1. ASSUME NEW m \in Module, Install(m) PROVE TypeOK' /\ StageInv'
  BY <1>1, DataAssumption DEF Install, TypeOK, StageInv, store, Exists, Idle
<1>2. ASSUME NEW m \in Module, Sync(m) PROVE TypeOK' /\ StageInv'
  BY <1>2, TypeSync DEF Sync, TypeOK, StageInv
<1>3. ASSUME NEW m \in Module, RemoveFiles(m) PROVE TypeOK' /\ StageInv'
  BY <1>3, DataAssumption DEF RemoveFiles, TypeOK, StageInv, store, Exists, Idle
<1>4. ASSUME NEW m \in Module, ClearData(m) PROVE TypeOK' /\ StageInv'
  BY <1>4, TypeClear DEF ClearData, TypeOK, StageInv
<1>5. ASSUME NEW m \in Module, StartTask(m) PROVE TypeOK' /\ StageInv'
  BY <1>5 DEF StartTask, TypeOK, StageInv, store, Exists
<1>6. ASSUME NEW m \in Module, Write(m) PROVE TypeOK' /\ StageInv'
  BY <1>6, TypeWrite DEF Write, StageInv
<1>7. ASSUME NEW i \in Thread, ReadRow(i) \/ ReadTable(i) PROVE TypeOK' /\ StageInv'
  BY <1>7, TypeRead DEF ReadRow, ReadTable, StageInv
<1>7a. ASSUME NEW i \in Thread, ReadViewRow(i) \/ ReadView(i) \/ RemakeView(i)
       PROVE  TypeOK' /\ StageInv'
  BY <1>7a, TypeReadView DEF ReadViewRow, ReadView, RemakeView, StageInv
<1>8. CASE Reload
  BY <1>8 DEF Reload, Loaded, OnDisk, TypeOK, StageInv, store, Exists, Idle
<1>9. CASE Restart
  <2>1. read' \in [Thread -> Reading \cup {NoRead}]
    BY <1>9 DEF Restart
  <2>. QED
    BY <1>9, <2>1, DataAssumption DEF Restart, Loaded, OnDisk, TypeOK, StageInv, store, Exists
<1>10. CASE UNCHANGED vars
  BY <1>10 DEF vars, TypeOK, StageInv, store, Exists
<1>. QED
  BY <1>1, <1>2, <1>3, <1>4, <1>5, <1>6, <1>7, <1>7a, <1>8, <1>9, <1>10 DEF Next

\* Rows, tables and records keep their shape, and a table that is not there
\* holds no record, whatever fails and ends.
THEOREM TypeCorrect == Spec => []TypeOK
<1>1. TypeInv => TypeOK
  BY DEF TypeInv
<1>. QED
  BY <1>1, TypeInit, TypeNext, PTL DEF Spec

-----------------------------------------------------------------------------
(* The inductive invariant, where no two modules share the name of a table. *)

NamesApart ==
  \A m, n \in Module, r, s \in Res :
    TableOf[<<m, r>>] = TableOf[<<n, s>>] => m = n /\ r = s

\* Every row of a table resource has its table, every row of a view is over such
\* resources and has its view.
RowsInv ==
  \A m \in Module :
    /\ \A r \in Res : row[m][r].mode = "custom" => table[T(m, r)].schema = row[m][r].schema
    /\ \A v \in View : view[m][v].src # {} => made[m][v] = view[m][v].src
    /\ \A v \in View : \A r \in view[m][v].src : row[m][r].mode = "custom"

\* A module at rest has the rows of the version on disk; tasks that outlive their
\* module find no rows.
RestInv ==
  /\ \A m \in Module : reg[m] = "enabled" /\ m \notin todo \cup {removing} =>
       /\ row[m] = disk[m].res
       /\ \A v \in View : disk[m].view[v].src # {} => view[m][v].src # {}
  /\ \A m \in users : disk[m] = NoContract /\ removing # m =>
       \A r \in Res : row[m][r].mode = "none"

\* A thread that reads a view has found its row.
ReadInv ==
  \A i \in Thread : read[i].at \in {"view", "missing"} => read[i].row.src # {}

IInv == TypeInv /\ RowsInv /\ RestInv /\ ReadInv

\* The tables of a module are not touched by what changes those of another.
LEMMA OthersKept ==
  ASSUME NamesApart, NEW m \in Module, NEW new, TablesBecome(m, new),
         NEW n \in Module \ {m}, NEW r \in Res
  PROVE  table'[T(n, r)] = table[T(n, r)]
BY DataAssumption DEF TablesBecome, NamesApart, T

LEMMA OthersRecords ==
  ASSUME NamesApart, NEW m \in Module, NEW new, TablesBecome(m, new),
         NEW n \in Module \ {m}, NEW r \in Res,
         data'[n] = data[n], row'[n] = row[n]
  PROVE  Recs(n, r)' = Recs(n, r)
<1>1. table'[T(n, r)] = table[T(n, r)] /\ T(n, r)' = T(n, r)
  BY OthersKept DEF T
<1>. QED
  BY <1>1 DEF Recs

LEMMA InitInv == Init => IInv
BY TypeInit DEF Init, IInv, RowsInv, RestInv, ReadInv, NoView, NoRead, Undeclared

LEMMA RowsSync ==
  ASSUME NamesApart, IInv, NEW m \in Module, Sync(m)
  PROVE  RowsInv' /\ RestInv'
<1>. USE DEF IInv, TypeInv
<1>1. PICK c \in Contracts[m] : disk[m] = c
  BY DEF TypeOK, StageInv, Sync
<1>2. CASE disk[m].bad \/ Clash(m) \/ Missing(m)
  <2>1. /\ UNCHANGED <<row, view, made, table, disk, removing, users>>
        /\ todo' = todo \ {m} /\ reg' = [reg EXCEPT ![m] = "invalid"]
    BY <1>2 DEF Sync, store
  <2>2. RowsInv'
    BY <2>1 DEF RowsInv, T
  <2>3. \A n \in Module : reg'[n] = "enabled" => n # m /\ reg[n] = "enabled"
    BY <2>1 DEF TypeOK
  <2>. QED
    BY <2>1, <2>2, <2>3 DEF RestInv
<1>3. CASE ~(disk[m].bad \/ Clash(m) \/ Missing(m))
  <2>1. /\ ~Clash(m) /\ UNCHANGED <<reg, disk, removing, users>> /\ todo' = todo \ {m}
        /\ row' = [row EXCEPT ![m] = c.res] /\ view' = [view EXCEPT ![m] = c.view]
        /\ made' = [made EXCEPT ![m] = [v \in View |-> SyncedView(m, v)]]
        /\ table' = Tables(m, [r \in Res |-> SyncedTable(m, r)])
    BY <1>1, <1>3 DEF Sync
  <2>2. TablesBecome(m, [r \in Res |-> SyncedTable(m, r)])
    BY <2>1, TablesFact
  <2>3. /\ row'[m] = c.res /\ view'[m] = c.view /\ \A v \in View : made'[m][v] = SyncedView(m, v)
        /\ \A n \in Module \ {m} : row'[n] = row[n] /\ view'[n] = view[n] /\ made'[n] = made[n]
    BY <2>1 DEF TypeOK
  <2>4. ASSUME NEW r \in Res, c.res[r].mode = "custom"
        PROVE  table'[T(m, r)].schema = c.res[r].schema
    <3>1. table'[T(m, r)] = SyncedTable(m, r)
      BY <2>2 DEF TablesBecome
    <3>2. Exists(T(m, r)) => table[T(m, r)].schema = c.res[r].schema
      BY <2>1, <2>4, <1>1 DEF Clash
    <3>. QED
      BY <3>1, <3>2, <2>4, <1>1 DEF SyncedTable
  <2>5. ASSUME NEW n \in Module \ {m}, NEW r \in Res
        PROVE  table'[T(n, r)] = table[T(n, r)]
    BY <2>2, OthersKept
  <2>6. RowsInv'
    <3>1. ASSUME NEW v \in View
          PROVE  /\ view'[m][v].src # {} => made'[m][v] = view'[m][v].src
                 /\ \A r \in view'[m][v].src : row'[m][r].mode = "custom"
      <4>1. made'[m][v] = SyncedView(m, v) /\ view'[m][v] = c.view[v] /\ row'[m] = c.res
        BY <2>3
      <4>2. \A r \in c.view[v].src : c.res[r].mode = "custom"
        BY ContractFact
      <4>. QED
        BY <4>1, <4>2, <1>1 DEF SyncedView
    <3>2. \A n \in Module, r \in Res : row'[n][r].mode = "custom" =>
            table'[T(n, r)].schema = row'[n][r].schema
      BY <2>3, <2>4, <2>5 DEF RowsInv
    <3>. QED
      BY <3>1, <3>2, <2>3 DEF RowsInv, T
  <2>7. RestInv'
    BY <2>1, <2>3, <1>1, ContractFact DEF RestInv
  <2>. QED
    BY <2>6, <2>7
<1>. QED
  BY <1>2, <1>3

LEMMA RowsClear ==
  ASSUME NamesApart, IInv, NEW m \in Module, ClearData(m)
  PROVE  RowsInv' /\ RestInv'
<1>. USE DEF IInv, TypeInv
<1>1. /\ TablesBecome(m, [r \in Res |-> ClearedTable(m, r)])
  BY TablesFact DEF ClearData
<1>2. /\ row'[m] = [r \in Res |-> Undeclared] /\ view'[m] = [v \in View |-> NoView]
      /\ \A n \in Module \ {m} : row'[n] = row[n] /\ view'[n] = view[n] /\ made'[n] = made[n]
  BY DEF ClearData, TypeOK
<1>3. ASSUME NEW n \in Module \ {m}, NEW r \in Res
      PROVE  table'[T(n, r)] = table[T(n, r)]
  BY <1>1, OthersKept
<1>4. RowsInv'
  BY <1>2, <1>3 DEF RowsInv, Undeclared, NoView, T
<1>5. RestInv'
  <2>1. /\ removing = m /\ removing' = Nobody /\ UNCHANGED <<disk, todo, users>>
        /\ reg' = [reg EXCEPT ![m] = "absent"]
    BY DEF ClearData
  <2>2. \A n \in Module : reg'[n] = "enabled" => n # m /\ reg[n] = "enabled"
    BY <2>1 DEF TypeOK
  <2>3. \A n \in Module \ {m} : reg'[n] = "enabled" /\ n \notin todo =>
          /\ row'[n] = disk'[n].res
          /\ \A v \in View : disk'[n].view[v].src # {} => view'[n][v].src # {}
    BY <2>1, <2>2, <1>2 DEF RestInv
  <2>4. \A n \in users : disk[n] = NoContract => \A r \in Res : row'[n][r].mode = "none"
    <3>. SUFFICES ASSUME NEW n \in users, disk[n] = NoContract, NEW r \in Res
                  PROVE  row'[n][r].mode = "none"
      OBVIOUS
    <3>1. CASE n = m
      BY <3>1, <1>2 DEF Undeclared
    <3>2. CASE n # m
      <4>1. n \in Module \ {m} /\ removing # n
        BY <3>2, <2>1 DEF TypeOK
      <4>2. row'[n] = row[n]
        BY <4>1, <1>2
      <4>3. row[n][r].mode = "none"
        BY <4>1 DEF RestInv
      <4>. QED
        BY <4>2, <4>3
    <3>. QED
      BY <3>1, <3>2
  <2>. QED
    BY <2>1, <2>2, <2>3, <2>4 DEF RestInv
<1>. QED
  BY <1>4, <1>5

LEMMA RowsWrite ==
  ASSUME NamesApart, IInv, NEW m \in Module, Write(m)
  PROVE  RowsInv' /\ RestInv'
<1>. USE DEF IInv, TypeInv
<1>1. PICK ops \in [Res -> Ops] : table' = Tables(m, [r \in Res |-> WrittenTable(m, r, ops[r])])
  BY DEF Write
<1>2. TablesBecome(m, [r \in Res |-> WrittenTable(m, r, ops[r])])
  BY <1>1, TablesFact
<1>3. ASSUME NEW n \in Module, NEW r \in Res, row[n][r].mode = "custom"
      PROVE  table'[T(n, r)].schema = row[n][r].schema
  <2>1. table[T(n, r)].schema = row[n][r].schema
    BY <1>3 DEF RowsInv
  <2>2. CASE n = m
    <3>1. table'[T(m, r)] = WrittenTable(m, r, ops[r])
      BY <1>2 DEF TablesBecome
    <3>. QED
      BY <3>1, <2>1, <2>2 DEF WrittenTable
  <2>3. CASE n # m
    BY <2>1, <2>3, <1>2, OthersKept
  <2>. QED
    BY <2>2, <2>3
<1>. QED
  BY <1>3 DEF RowsInv, RestInv, Write, T

\* What threads do keeps every table and every record.
Peeks(i) == ReadRow(i) \/ ReadTable(i) \/ ReadViewRow(i) \/ ReadView(i) \/ RemakeView(i)

LEMMA PeeksKeep ==
  ASSUME TypeOK, NEW i \in Thread, Peeks(i)
  PROVE  /\ UNCHANGED <<row, data, disk, reg, todo, removing, users>>
         /\ \A t \in Table : /\ table'[t].recs = table[t].recs
                             /\ Exists(t) => table'[t] = table[t]
<1>1. CASE ReadRow(i) \/ ReadViewRow(i) \/ ReadView(i)
  BY <1>1 DEF ReadRow, ReadViewRow, ReadView, store
<1>2. CASE ReadTable(i)
  <2>1. read[i].t \in Table /\ table' = IF Exists(read[i].t) THEN table
          ELSE [table EXCEPT ![read[i].t] = [schema |-> read[i].schema, recs |-> {}]]
    BY <1>2, ReadingTable DEF ReadTable
  <2>2. table = [t \in Table |-> table[t]] /\ \A t \in Table : ~Exists(t) => table[t].recs = {}
    BY DEF TypeOK
  <2>. QED
    BY <1>2, <2>1, <2>2 DEF ReadTable
<1>3. CASE RemakeView(i)
  <2>1. read[i] \in [at : {"view", "missing"}, m : Module, v : View, row : ViewRow]
    BY <1>3, ReadingView DEF RemakeView
  <2>2. CASE UNCHANGED table
    BY <1>3, <2>2 DEF RemakeView
  <2>3. CASE ~UNCHANGED table
    <3>. DEFINE m == read[i].m  src == read[i].row.src
    <3>1. /\ \A r \in src : row[m][r].mode = "custom"
          /\ table' = Tables(m, EnsuredOr(m, src))
          /\ m \in Module
      BY <1>3, <2>1, <2>3 DEF RemakeView, EnsuredOr
    <3>. HIDE DEF m, src
    <3>2. TablesBecome(m, EnsuredOr(m, src))
      BY <3>1, TablesFact
    <3>3. ASSUME NEW r \in Res
          PROVE  /\ table'[T(m, r)].recs = table[T(m, r)].recs
                 /\ Exists(T(m, r)) => table'[T(m, r)] = table[T(m, r)]
      <4>1. table'[T(m, r)] = EnsuredOr(m, src)[r]
        BY <3>2 DEF TablesBecome
      <4>2. ~Exists(T(m, r)) => table[T(m, r)].recs = {}
        BY <3>1, TypeFact DEF Sound, Exists
      <4>. QED
        BY <4>1, <4>2, <3>1, EnsuredSound
    <3>4. \A t \in Table : (\A r \in Res : T(m, r) # t) => table'[t] = table[t]
      BY <3>2 DEF TablesBecome
    <3>. QED
      BY <1>3, <3>3, <3>4 DEF RemakeView
  <2>. QED
    BY <2>2, <2>3
<1>. QED
  BY <1>1, <1>2, <1>3 DEF Peeks

LEMMA RowsRead ==
  ASSUME IInv, NEW i \in Thread, Peeks(i)
  PROVE  RowsInv' /\ RestInv'
<1>. USE DEF IInv, TypeInv
<1>1. ASSUME NEW m \in Module, NEW r \in Res, row[m][r].mode = "custom"
      PROVE  table'[T(m, r)] = table[T(m, r)]
  <2>1. Exists(T(m, r)) /\ T(m, r) \in Table
    BY <1>1, TypeFact, RowFact, DataAssumption DEF RowsInv, Exists
  <2>. QED
    BY <2>1, PeeksKeep
<1>2. UNCHANGED <<row, data, disk, reg, todo, removing, users>>
  BY PeeksKeep
<1>3. CASE UNCHANGED <<view, made>>
  <2>1. RowsInv'
    BY <1>1, <1>2, <1>3 DEF RowsInv, T
  <2>. QED
    BY <1>2, <1>3, <2>1 DEF RestInv
<1>4. CASE ~UNCHANGED <<view, made>>
  <2>. DEFINE m == read[i].m  v == read[i].v  src == read[i].row.src
  <2>1. RemakeView(i)
    BY <1>4 DEF Peeks, ReadRow, ReadTable, ReadViewRow, ReadView, store
  <2>2. m \in Module /\ v \in View /\ src # {}
    <3>1. read[i] \in [at : {"view", "missing"}, m : Module, v : View, row : ViewRow]
      BY <2>1, ReadingView DEF RemakeView
    <3>. QED
      BY <2>1, <3>1 DEF RemakeView, ReadInv
  <2>3. /\ \A r \in src : row[m][r].mode = "custom"
        /\ view'[m][v].src = src /\ made'[m][v] = src
        /\ \A n \in Module, w \in View : n # m \/ w # v =>
             view'[n][w] = view[n][w] /\ made'[n][w] = made[n][w]
    BY <1>4, <2>1, <2>2 DEF RemakeView, TypeOK
  <2>. HIDE DEF m, v, src
  <2>5. RowsInv'
    BY <1>1, <1>2, <2>2, <2>3 DEF RowsInv, T
  <2>. QED
    BY <1>2, <2>2, <2>3, <2>5 DEF RestInv
<1>. QED
  BY <1>3, <1>4

LEMMA ReadNext == TypeInv /\ ReadInv /\ [Next]_vars => ReadInv'
<1>. SUFFICES ASSUME TypeInv, ReadInv, [Next]_vars PROVE ReadInv'
  OBVIOUS
<1>. USE DEF TypeInv
<1>1. ASSUME NEW i \in Thread, Peeks(i) PROVE ReadInv'
  <2>1. CASE read' = [read EXCEPT ![i] = NoRead]
    BY <2>1 DEF ReadInv, TypeOK, NoRead
  <2>2. CASE ReadRow(i)
    <3>1. PICK m \in users, r \in Res :
            read' = [read EXCEPT ![i] = [at |-> "table", t |-> T(m, r), schema |-> row[m][r].schema]]
      BY <2>2 DEF ReadRow
    <3>. QED
      BY <3>1 DEF ReadInv, TypeOK
  <2>3. CASE ReadViewRow(i)
    <3>1. PICK m \in users, v \in View :
            /\ view[m][v].src # {}
            /\ read' = [read EXCEPT ![i] = [at |-> "view", m |-> m, v |-> v, row |-> view[m][v]]]
      BY <2>3 DEF ReadViewRow
    <3>. QED
      BY <3>1 DEF ReadInv, TypeOK
  <2>4. CASE ReadView(i) /\ read' = [read EXCEPT ![i].at = "missing"]
    <3>1. read[i] \in [at : {"view", "missing"}, m : Module, v : View, row : ViewRow]
      BY <2>4, ReadingView DEF ReadView
    <3>2. read'[i].row = read[i].row /\ \A k \in Thread \ {i} : read'[k] = read[k]
      BY <2>4, <3>1 DEF TypeOK
    <3>. QED
      BY <2>4, <3>2 DEF ReadInv, ReadView
  <2>. QED
    BY <1>1, <2>1, <2>2, <2>3, <2>4 DEF Peeks, ReadTable, ReadView, RemakeView
<1>2. CASE UNCHANGED read
  BY <1>2 DEF ReadInv
<1>3. CASE Restart
  BY <1>3 DEF Restart, ReadInv, NoRead
<1>. QED
  BY <1>1, <1>2, <1>3
     DEF Next, Peeks, Install, Reload, Sync, RemoveFiles, ClearData, StartTask, Write, vars

LEMMA InvNext == NamesApart /\ IInv /\ [Next]_vars => IInv'
<1>. SUFFICES ASSUME NamesApart, IInv, [Next]_vars PROVE RowsInv' /\ RestInv'
  BY TypeNext, ReadNext DEF IInv
<1>. USE DEF IInv, TypeInv
<1>1. ASSUME NEW m \in Module, Install(m) PROVE RowsInv' /\ RestInv'
  BY <1>1, DataAssumption DEF Install, TypeOK, StageInv, RowsInv, RestInv, store, T, Idle
<1>2. ASSUME NEW m \in Module, RemoveFiles(m) PROVE RowsInv' /\ RestInv'
  <2>1. disk' = [disk EXCEPT ![m] = NoContract] /\ removing' = m /\ removing = Nobody
        /\ UNCHANGED <<row, view, table, made, reg, todo, users>>
    BY <1>2 DEF RemoveFiles, Idle, store
  <2>2. \A n \in Module \ {m} : disk'[n] = disk[n] /\ removing # n
    BY <2>1, DataAssumption DEF TypeOK
  <2>3. RowsInv'
    BY <2>1 DEF RowsInv, T
  <2>4. \A n \in Module : reg'[n] = "enabled" /\ n \notin todo' \cup {removing'} =>
          /\ row'[n] = disk'[n].res
          /\ \A v \in View : disk'[n].view[v].src # {} => view'[n][v].src # {}
    BY <2>1, <2>2 DEF RestInv
  <2>5. \A n \in users' : disk'[n] = NoContract /\ removing' # n =>
          \A r \in Res : row'[n][r].mode = "none"
    <3>. SUFFICES ASSUME NEW n \in users, disk'[n] = NoContract, n # m
                  PROVE  \A r \in Res : row[n][r].mode = "none"
      BY <2>1
    <3>1. disk[n] = NoContract /\ removing # n
      BY <2>2 DEF TypeOK
    <3>. QED
      BY <3>1 DEF RestInv
  <2>. QED
    BY <2>3, <2>4, <2>5 DEF RestInv
<1>3. ASSUME NEW m \in Module, StartTask(m) PROVE RowsInv' /\ RestInv'
  <2>1. /\ users' = users \cup {m}
        /\ UNCHANGED <<row, view, made, table, disk, reg, todo, removing>>
    BY <1>3 DEF StartTask, store
  <2>2. disk[m] # NoContract
    BY <1>3, DataAssumption DEF StartTask, StageInv, Idle
  <2>3. RowsInv'
    BY <2>1 DEF RowsInv, T
  <2>. QED
    BY <2>1, <2>2, <2>3 DEF RestInv
<1>4. CASE Reload
  BY <1>4, DataAssumption DEF Reload, Loaded, OnDisk, TypeOK, StageInv, RowsInv, RestInv, store, T, Idle
<1>5. CASE Restart
  BY <1>5, DataAssumption DEF Restart, Loaded, OnDisk, TypeOK, StageInv, RowsInv, RestInv, store, T
<1>6. CASE UNCHANGED vars
  BY <1>6 DEF vars, RowsInv, RestInv, store, T
<1>7. ASSUME NEW i \in Thread, Peeks(i) PROVE RowsInv' /\ RestInv'
  BY <1>7, RowsRead
<1>. QED
  BY <1>1, <1>2, <1>3, <1>4, <1>5, <1>6, <1>7, RowsSync, RowsClear, RowsWrite DEF Next, Peeks

LEMMA Invariant == NamesApart => (Spec => []IInv)
<1>. SUFFICES ASSUME NamesApart PROVE Spec => []IInv
  OBVIOUS
<1>1. IInv /\ [Next]_vars => IInv'
  BY InvNext
<1>. QED
  BY <1>1, InitInv, PTL DEF Spec

\* A module that is enabled can use every table and view it declares, where no
\* two modules share the name of a table (module_data_store.py:3309, registry.py:279).
THEOREM Readable == NamesApart => (Spec => []EnabledIsReadable)
<1>1. IInv => EnabledIsReadable
  BY DEF IInv, RowsInv, RestInv, EnabledIsReadable
<1>. QED
  BY <1>1, Invariant, PTL

-----------------------------------------------------------------------------
(* What no step does to records.                                           *)

\* A module that is not on disk gets no record, though tasks that were running
\* when it was uninstalled still write and read (module_data_store.py:2494).
THEOREM NoGhosts == NamesApart => (Spec => NoGhostRecords)
<1>. SUFFICES ASSUME NamesApart PROVE Spec => NoGhostRecords
  OBVIOUS
<1>. DEFINE Less(m, r) == data[m][r]' \subseteq data[m][r]
                          /\ table[T(m, r)].recs' \subseteq table[T(m, r)].recs
<1>1. ASSUME IInv, [Next]_vars, NEW m \in Module, NEW r \in Res, disk[m] = NoContract
      PROVE  Less(m, r)
  <2>. USE <1>1 DEF IInv, TypeInv
  <2>. DEFINE Same == table'[T(m, r)] = table[T(m, r)] /\ data'[m][r] = data[m][r]
  <2>0. Same => Less(m, r)
    BY DEF T
  <2>1. ASSUME NEW n \in Module, Sync(n) PROVE Same
    <3>1. CASE UNCHANGED store
      BY <3>1 DEF store
    <3>2. CASE ~UNCHANGED store
      <4>1. n # m
        BY <2>1 DEF Sync, StageInv
      <4>2. TablesBecome(n, [s \in Res |-> SyncedTable(n, s)])
        BY <2>1, <3>2, TablesFact DEF Sync
      <4>. QED
        BY <4>1, <4>2, <2>1, <3>2, OthersKept DEF Sync, TypeOK
    <3>. QED
      BY <3>1, <3>2
  <2>2. ASSUME NEW n \in Module, ClearData(n) PROVE Less(m, r)
    <3>1. TablesBecome(n, [s \in Res |-> ClearedTable(n, s)])
      BY <2>2, TablesFact DEF ClearData
    <3>2. CASE n = m
      <4>1. table'[T(m, r)] = ClearedTable(m, r)
        BY <3>1, <3>2 DEF TablesBecome
      <4>2. table'[T(m, r)].recs \subseteq table[T(m, r)].recs
        BY <4>1, TypeFact, CleanedFact DEF ClearedTable
      <4>3. data'[m][r] = {}
        BY <2>2, <3>2 DEF ClearData, TypeOK
      <4>. QED
        BY <4>2, <4>3 DEF T
    <3>3. CASE n # m
      <4>1. m \in Module \ {n}
        BY <3>3
      <4>2. table'[T(m, r)] = table[T(m, r)]
        BY <4>1, <3>1, OthersKept
      <4>3. data'[m][r] = data[m][r]
        BY <4>1, <2>2 DEF ClearData, TypeOK
      <4>. QED
        BY <4>2, <4>3, <2>0
    <3>. QED
      BY <3>2, <3>3
  <2>3. ASSUME NEW n \in Module, Write(n) PROVE Same
    <3>1. PICK ops \in [Res -> Ops] :
            /\ \A s \in Res : Accepted(n, s, ops[s])
            /\ table' = Tables(n, [s \in Res |-> WrittenTable(n, s, ops[s])])
            /\ data' = [data EXCEPT ![n] = [s \in Res |-> WrittenData(n, s, ops[s])]]
      BY <2>3 DEF Write
    <3>2. TablesBecome(n, [s \in Res |-> WrittenTable(n, s, ops[s])])
      BY <3>1, TablesFact
    <3>3. CASE n = m
      <4>1. row[m][r].mode = "none"
        BY <2>3, <3>3, DataAssumption DEF Write, Idle, RestInv
      <4>2. ops[r].kind = "none"
        BY <3>1, <3>3, <4>1 DEF Accepted, Registered
      <4>3. table'[T(m, r)] = WrittenTable(m, r, ops[r]) /\ data'[m][r] = WrittenData(m, r, ops[r])
        BY <3>1, <3>2, <3>3 DEF TablesBecome, TypeOK
      <4>. QED
        BY <4>1, <4>2, <4>3, TypeFact, ResultFact DEF WrittenTable, WrittenData
    <3>4. CASE n # m
      <4>1. m \in Module \ {n}
        BY <3>4
      <4>2. table'[T(m, r)] = table[T(m, r)]
        BY <4>1, <3>2, OthersKept
      <4>3. data'[m][r] = data[m][r]
        BY <4>1, <3>1 DEF TypeOK
      <4>. QED
        BY <4>2, <4>3
    <3>. QED
      BY <3>3, <3>4
  <2>4. ASSUME NEW i \in Thread, Peeks(i) PROVE Less(m, r)
    BY <2>4, PeeksKeep, TypeFact DEF T
  <2>5. ASSUME UNCHANGED store PROVE Less(m, r)
    BY <2>5 DEF store, T
  <2>6. ASSUME NEW n \in Module, Install(n) \/ RemoveFiles(n) \/ StartTask(n) PROVE UNCHANGED store
    BY <2>6 DEF Install, RemoveFiles, StartTask
  <2>7. Reload \/ Restart \/ UNCHANGED vars => UNCHANGED store
    BY DEF Reload, Restart, vars, store
  <2>. QED
    BY <2>0, <2>1, <2>2, <2>3, <2>4, <2>5, <2>6, <2>7 DEF Next, Peeks
<1>2. IInv /\ [Next]_vars =>
        [\A m \in Module, r \in Res : disk[m] = NoContract =>
           /\ data[m][r]' \subseteq data[m][r]
           /\ table[T(m, r)].recs' \subseteq table[T(m, r)].recs]_vars
  BY <1>1
<1>3. Spec => []IInv
  BY Invariant
<1>. QED
  BY <1>2, <1>3, PTL DEF Spec, NoGhostRecords

\* Records go away only by a write of their module, by its removal, or by a
\* version that drops or replaces them; nothing another module, a seed that is a
\* default, a failed synchronisation or a read does touches them
\* (module_data_store.py:3309, 3454).
THEOREM RecordsKept == NamesApart => (Spec => RecordsSurvive)
<1>. SUFFICES ASSUME NamesApart PROVE Spec => RecordsSurvive
  OBVIOUS
<1>. DEFINE Dropped(m, r) == m \in todo \ todo'
                             /\ (disk[m].res[r].mode # row[m][r].mode \/ disk[m].seed[r] = "replace")
            Alone(m) == Idle /\ m \in users
                        /\ \A n \in Module \ {m}, s \in Res : Recs(n, s)' = Recs(n, s)
<1>1. ASSUME IInv, [Next]_vars, NEW m \in Module, NEW r \in Res
      PROVE  Recs(m, r) \subseteq Recs(m, r)' \/ removing = m \/ Dropped(m, r) \/ Alone(m)
  <2>. USE <1>1 DEF IInv, TypeInv
  <2>1. ASSUME NEW n \in Module, Sync(n)
        PROVE  Recs(m, r) \subseteq Recs(m, r)' \/ Dropped(m, r)
    <3>1. CASE UNCHANGED store
      BY <3>1 DEF store, Recs, T
    <3>2. CASE ~UNCHANGED store
      <4>1. /\ table' = Tables(n, [s \in Res |-> SyncedTable(n, s)])
            /\ data' = [data EXCEPT ![n] = [s \in Res |-> SyncedData(n, s)]]
            /\ row' = [row EXCEPT ![n] = disk[n].res] /\ n \in todo \ todo'
        BY <2>1, <3>2 DEF Sync
      <4>2. TablesBecome(n, [s \in Res |-> SyncedTable(n, s)])
        BY <4>1, TablesFact
      <4>3. CASE n # m
        <5>1. m \in Module \ {n}
          BY <4>3
        <5>2. data'[m] = data[m] /\ row'[m] = row[m]
          BY <4>1, <5>1 DEF TypeOK
        <5>. QED
          BY <4>2, <5>1, <5>2, OthersRecords
      <4>4. CASE n = m /\ ~Dropped(m, r)
        <5>1. row'[m][r] = disk[m].res[r] /\ disk[m].res[r].mode = row[m][r].mode
              /\ disk[m].seed[r] # "replace"
          BY <4>1, <4>4 DEF TypeOK
        <5>2. table'[T(m, r)] = SyncedTable(m, r) /\ data'[m][r] = SyncedData(m, r)
          BY <4>1, <4>2, <4>4 DEF TablesBecome, TypeOK
        <5>3. \A old \in SUBSET Key : old \subseteq Seeded(old, disk[m].seed[r])
          BY <5>1 DEF Seeded
        <5>4. Sound(table[T(m, r)]) /\ data[m][r] \in SUBSET Key
          BY TypeFact
        <5>5. CASE row[m][r].mode = "custom"
          BY <5>1, <5>2, <5>3, <5>4, <5>5 DEF Recs, SyncedTable, Sound, TableType, T
        <5>6. CASE row[m][r].mode = "managed"
          BY <5>1, <5>2, <5>3, <5>4, <5>6 DEF Recs, SyncedData
        <5>7. CASE row[m][r].mode \notin {"custom", "managed"}
          BY <5>7 DEF Recs
        <5>. QED
          BY <5>5, <5>6, <5>7
      <4>. QED
        BY <4>3, <4>4
    <3>. QED
      BY <3>1, <3>2
  <2>2. ASSUME NEW n \in Module, ClearData(n)
        PROVE  Recs(m, r) \subseteq Recs(m, r)' \/ removing = m
    <3>1. CASE n # m
      <4>1. TablesBecome(n, [s \in Res |-> ClearedTable(n, s)])
        BY <2>2, TablesFact DEF ClearData
      <4>2. m \in Module \ {n}
        BY <3>1
      <4>3. data'[m] = data[m] /\ row'[m] = row[m]
        BY <2>2, <4>2 DEF ClearData, TypeOK
      <4>. QED
        BY <4>1, <4>2, <4>3, OthersRecords
    <3>. QED
      BY <3>1, <2>2 DEF ClearData
  <2>3. ASSUME NEW n \in Module, Write(n)
        PROVE  Recs(m, r) \subseteq Recs(m, r)' \/ Alone(m)
    <3>1. PICK ops \in [Res -> Ops] :
            /\ table' = Tables(n, [s \in Res |-> WrittenTable(n, s, ops[s])])
            /\ data' = [data EXCEPT ![n] = [s \in Res |-> WrittenData(n, s, ops[s])]]
      BY <2>3 DEF Write
    <3>2. TablesBecome(n, [s \in Res |-> WrittenTable(n, s, ops[s])])
      BY <3>1, TablesFact
    <3>3. ASSUME NEW k \in Module \ {n}, NEW s \in Res PROVE Recs(k, s)' = Recs(k, s)
      <4>1. data'[k] = data[k] /\ row'[k] = row[k]
        BY <2>3, <3>1 DEF Write, TypeOK
      <4>. QED
        BY <4>1, <3>2, OthersRecords
    <3>. QED
      BY <3>3, <2>3 DEF Write
  <2>4. ASSUME NEW i \in Thread, Peeks(i)
        PROVE  Recs(m, r) \subseteq Recs(m, r)'
    BY <2>4, PeeksKeep, TypeFact DEF Recs, T
  <2>5. ASSUME UNCHANGED store PROVE Recs(m, r) \subseteq Recs(m, r)'
    BY <2>5 DEF store, Recs, T
  <2>6. ASSUME NEW n \in Module, Install(n) \/ RemoveFiles(n) \/ StartTask(n) PROVE UNCHANGED store
    BY <2>6 DEF Install, RemoveFiles, StartTask
  <2>7. Reload \/ Restart \/ UNCHANGED vars => UNCHANGED store
    BY DEF Reload, Restart, vars, store
  <2>. QED
    BY <2>1, <2>2, <2>3, <2>4, <2>5, <2>6, <2>7 DEF Next, Peeks
<1>2. IInv /\ [Next]_vars =>
        [\A m \in Module, r \in Res : Recs(m, r) \subseteq Recs(m, r)'
           \/ removing = m
           \/ /\ m \in todo \ todo'
              /\ disk[m].res[r].mode # row[m][r].mode \/ disk[m].seed[r] = "replace"
           \/ /\ Idle /\ m \in users
              /\ \A n \in Module \ {m}, s \in Res : Recs(n, s)' = Recs(n, s)]_vars
  BY <1>1
<1>3. Spec => []IInv
  BY Invariant
<1>. QED
  BY <1>2, <1>3, PTL DEF Spec, RecordsSurvive
=============================================================================
