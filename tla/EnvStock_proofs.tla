---------------------------- MODULE EnvStock_proofs ----------------------------
(***************************************************************************)
(* Proofs about EnvStock, for any number of tasks, windows, editors,       *)
(* destroyers, addresses, environments and restarts.                       *)
(***************************************************************************)
EXTENDS EnvStock, FiniteSetTheorems, TLAPS

-----------------------------------------------------------------------------
(* Type correctness.                                                       *)

CoType == [pc : Pcs, env : Env, addr : Addr \cup {NoAddr}, prev : Statuses]
ClaimType == [state : {"none", "pending", "claimed", "abandoned"}, task : Tasks \cup {Nobody}]

\* The count of an entry after an environment has let go of it.
LEMMA LessFact ==
  ASSUME NEW c \in [Addr -> Nat], NEW f \in Addr
  PROVE  /\ Less(c, f) \in [Addr -> Nat]
         /\ \A e \in Addr : /\ Less(c, f)[e] <= c[e]
                            /\ e # f => Less(c, f)[e] = c[e]
                            /\ e = f /\ c[e] > 0 => Less(c, f)[e] = c[e] - 1
  BY DEF Less

\* unbind_ip touches the count of the entry that was bound, and no other.
LEMMA ReleasedFact ==
  ASSUME TypeOK, NEW n \in Env
  PROVE  /\ Released(n) \in [Addr -> Nat]
         /\ \A e \in Addr : /\ Released(n)[e] <= count[e]
                            /\ e # bind[n] => Released(n)[e] = count[e]
                            /\ e = bind[n] /\ entry[e] # "deleted" /\ count[e] > 0
                                 => Released(n)[e] = count[e] - 1
<1>1. CASE Known(bind[n])
  <2>1. Released(n) = Less(count, bind[n]) /\ bind[n] \in Addr /\ count \in [Addr -> Nat]
    BY <1>1 DEF Released, Known, TypeOK
  <2>. QED
    BY <2>1, LessFact
<1>2. CASE ~Known(bind[n])
  BY <1>2 DEF Released, Known, TypeOK
<1>. QED
  BY <1>1, <1>2

LEMMA BindType ==
  ASSUME TypeOK, NEW n \in Env, NEW e \in Addr, BindTo(n, e)
  PROVE  bind' \in [Env -> Addr \cup {NoAddr}] /\ count' \in [Addr -> Nat]
<1>1. Released(n) \in [Addr -> Nat]
  BY ReleasedFact
<1>. QED
  BY <1>1 DEF BindTo, TypeOK

LEMMA UnbindType ==
  ASSUME TypeOK, NEW n \in Env
  PROVE  Unbound(n) \in [Env -> Addr \cup {NoAddr}] /\ Released(n) \in [Addr -> Nat]
  BY ReleasedFact DEF Unbound, TypeOK

LEMMA RemoveType ==
  ASSUME TypeOK, NEW n \in Env, Remove(n)
  PROVE  /\ row' \subseteq row /\ cached' = cached \ {n}
         /\ bind' \in [Env -> Addr \cup {NoAddr}] /\ count' \in [Addr -> Nat]
<1>1. row' \subseteq row /\ cached' = cached \ {n}
  BY DEF Remove, TypeOK
<1>2. Unbound(n) \in [Env -> Addr \cup {NoAddr}] /\ Released(n) \in [Addr -> Nat]
  BY UnbindType
<1>3. bind \in [Env -> Addr \cup {NoAddr}] /\ count \in [Addr -> Nat]
  BY DEF TypeOK
<1>. QED
  BY <1>1, <1>2, <1>3 DEF Remove

\* What a coroutine is left with when it moves on or ends.
LEMMA GotoType ==
  ASSUME TypeOK, NEW a \in Actors, NEW pc \in Pcs
  PROVE  /\ Goto(a, pc) => co' \in [Actors -> CoType]
         /\ Finish(a) => co' \in [Actors -> CoType]
<1>1. Idle \in CoType
  BY StockAssumption DEF Idle, CoType, Pcs, Env, Statuses
<1>2. co \in [Actors -> CoType]
  BY DEF CoType, TypeOK
<1>3. [co[a] EXCEPT !.pc = pc] \in CoType
  BY <1>2 DEF CoType
<1>4. Goto(a, pc) => co' = [co EXCEPT ![a] = [co[a] EXCEPT !.pc = pc]]
  BY DEF Goto
<1>5. Finish(a) => co' = [co EXCEPT ![a] = Idle]
  BY DEF Finish
<1>. QED
  BY <1>1, <1>2, <1>3, <1>4, <1>5

LEMMA EditCount ==
  ASSUME TypeOK, NEW n \in Env, NEW e \in Addr,
         bind' = [bind EXCEPT ![n] = e],
         count' = IF Let(n) = e THEN count
                  ELSE LET c == IF Known(Let(n)) THEN Less(count, Let(n)) ELSE count
                       IN  [c EXCEPT ![e] = @ + 1]
  PROVE  /\ bind' \in [Env -> Addr \cup {NoAddr}] /\ count' \in [Addr -> Nat]
         /\ Let(n) = e => count' = count
         /\ Let(n) # e => /\ \A f \in Addr \ {e} :
                               /\ count'[f] <= count[f]
                               /\ f # Let(n) => count'[f] = count[f]
                               /\ f = Let(n) /\ entry[f] # "deleted" /\ count[f] > 0
                                    => count'[f] = count[f] - 1
                          /\ count'[e] = count[e] + 1
<1>. DEFINE c == IF Known(Let(n)) THEN Less(count, Let(n)) ELSE count
<1>1. c \in [Addr -> Nat]
  BY LessFact DEF TypeOK, Known
<1>2. ASSUME NEW f \in Addr
      PROVE  /\ c[f] <= count[f]
             /\ f # Let(n) => c[f] = count[f]
             /\ f = Let(n) /\ entry[f] # "deleted" /\ count[f] > 0 => c[f] = count[f] - 1
  <2>1. CASE Known(Let(n))
    BY <2>1, LessFact DEF Known, TypeOK
  <2>2. CASE ~Known(Let(n))
    BY <2>2 DEF Known, TypeOK
  <2>. QED
    BY <2>1, <2>2
<1>3. bind' \in [Env -> Addr \cup {NoAddr}]
  BY DEF TypeOK
<1>4. CASE Let(n) = e
  BY <1>3, <1>4 DEF TypeOK
<1>5. CASE Let(n) # e
  <2>1. count' = [c EXCEPT ![e] = @ + 1]
    BY <1>5
  <2>2. count' \in [Addr -> Nat] /\ count'[e] = c[e] + 1 /\ \A f \in Addr \ {e} : count'[f] = c[f]
    BY <2>1, <1>1
  <2>3. c[e] = count[e]
    BY <1>2, <1>5
  <2>. QED
    BY <1>2, <1>3, <1>5, <2>2, <2>3
<1>. QED
  BY <1>4, <1>5

\* The type invariant holds in every reachable state.
LEMMA TypeInit == Init => TypeOK
<1>. SUFFICES ASSUME Init PROVE TypeOK
  OBVIOUS
<1>1. Idle \in CoType /\ NoClaim \in ClaimType
  BY StockAssumption DEF Idle, CoType, Pcs, Env, Statuses, NoClaim, ClaimType
<1>2. co \in [Actors -> CoType] /\ claim \in [Env -> ClaimType]
  BY <1>1 DEF Init
<1>3. status \in [Env -> Statuses] /\ next \in 1..(Envs + 1) /\ restarts \in 0..MaxRestart
  BY StockAssumption DEF Init, Statuses
<1>. QED
  BY <1>2, <1>3 DEF Init, TypeOK, CoType, ClaimType

LEMMA ReserveType ==
  ASSUME TypeOK, NEW c \in Actors, Reserve(c)
  PROVE  TypeOK'
<1>1. next \in Env /\ next' \in 1..(Envs + 1)
  BY StockAssumption DEF TypeOK, Reserve, Env
<1>2. /\ row' \subseteq Env /\ cached' \subseteq Env /\ status' \in [Env -> Statuses]
  BY <1>1 DEF TypeOK, Reserve, Statuses
<1>3. names' \in [Env -> Addr \cup {NoAddr}] /\ bind' \in [Env -> Addr \cup {NoAddr}]
      /\ count' \in [Addr -> Nat] /\ co' \in [Actors -> CoType]
  <2>1. CASE UNCHANGED address /\ co' = [co EXCEPT ![c] = [pc |-> "creating", env |-> next,
                                    addr |-> NoAddr, prev |-> "creating"]]
    <3>1. [pc |-> "creating", env |-> next, addr |-> NoAddr, prev |-> "creating"] \in CoType
      BY <1>1 DEF CoType, Pcs, Statuses
    <3>. QED
      BY <2>1, <3>1 DEF TypeOK, CoType, address
  <2>2. ASSUME NEW e \in Available,
               BindTo(next, e), names' = [names EXCEPT ![next] = e],
               co' = [co EXCEPT ![c] = [pc |-> "creating", env |-> next,
                                        addr |-> e, prev |-> "creating"]]
        PROVE  /\ names' \in [Env -> Addr \cup {NoAddr}] /\ bind' \in [Env -> Addr \cup {NoAddr}]
               /\ count' \in [Addr -> Nat] /\ co' \in [Actors -> CoType]
    <3>1. [pc |-> "creating", env |-> next, addr |-> e, prev |-> "creating"] \in CoType
      BY <1>1 DEF CoType, Pcs, Statuses, Available
    <3>2. e \in Addr
      BY DEF Available
    <3>. QED
      BY <1>1, <2>2, <3>1, <3>2, BindType DEF TypeOK, CoType
  <2>. QED
    BY <2>1, <2>2 DEF Reserve
<1>. QED
  BY <1>1, <1>2, <1>3 DEF Reserve, TypeOK, CoType, claims, process

LEMMA DestroyType ==
  ASSUME TypeOK, NEW a \in Actors, NEW n \in Env, Destroy(a, n), todo' \subseteq Env
  PROVE  TypeOK'
<1>1. CASE n \notin cached
  <2>1. co' \in [Actors -> CoType]
    BY <1>1, GotoType DEF Destroy, Pcs
  <2>. QED
    BY <1>1, <2>1 DEF Destroy, TypeOK, CoType, ClaimType, table, address, claims
<1>2. CASE n \in cached /\ n \notin ext
  <2>1. co' \in [Actors -> CoType] /\ Remove(n) /\ status' = [status EXCEPT ![n] = "terminating"]
        /\ UNCHANGED <<ext, names>>
    BY <1>2, GotoType DEF Destroy, Pcs
  <2>2. /\ row' \subseteq Env /\ cached' \subseteq Env
        /\ bind' \in [Env -> Addr \cup {NoAddr}] /\ count' \in [Addr -> Nat]
    BY <2>1, RemoveType DEF TypeOK
  <2>3. status' \in [Env -> Statuses]
    BY <2>1 DEF TypeOK, Statuses
  <2>. QED
    BY <2>1, <2>2, <2>3 DEF Destroy, TypeOK, CoType, ClaimType, claims
<1>3. CASE n \in cached /\ n \in ext
  <2>1. [pc |-> "destroying", env |-> n, addr |-> NoAddr, prev |-> status[n]] \in CoType
    BY DEF CoType, TypeOK, Pcs
  <2>2. co \in [Actors -> CoType]
    BY DEF TypeOK, CoType
  <2>3. co' \in [Actors -> CoType]
    BY <1>3, <2>1, <2>2 DEF Destroy
  <2>4. status' \in [Env -> Statuses]
    BY <1>3 DEF Destroy, TypeOK, Statuses
  <2>. QED
    BY <1>3, <2>3, <2>4 DEF Destroy, TypeOK, CoType, ClaimType, address, claims
<1>. QED
  BY <1>1, <1>2, <1>3

LEMMA TypeNext == TypeOK /\ [Next]_vars => TypeOK'
<1>. SUFFICES ASSUME TypeOK, [Next]_vars PROVE TypeOK'
  OBVIOUS
<1>. USE DEF Creators, Adders, Actors
<1>t. co \in [Actors -> CoType] /\ claim \in [Env -> ClaimType]
  BY DEF TypeOK, CoType, ClaimType
<1>e. \A a \in Actors : co[a].env \in Env /\ co[a].addr \in Addr \cup {NoAddr}
                        /\ co[a].prev \in Statuses
  BY <1>t DEF CoType
<1>f. \A c \in [Env -> Addr \cup {NoAddr}], n \in Env, e \in Addr \cup {NoAddr} :
        [c EXCEPT ![n] = e] \in [Env -> Addr \cup {NoAddr}]
  OBVIOUS
<1>s. \A n \in Env, s \in Statuses : [status EXCEPT ![n] = s] \in [Env -> Statuses]
  BY DEF TypeOK
<1>g. {"up", "creating", "terminating"} \subseteq Statuses
      /\ {"idle", "runtime", "creating", "opening", "opened", "running",
         "undo", "updating", "destroying"} \subseteq Pcs
  BY DEF Statuses, Pcs
<1>1. ASSUME NEW t \in Tasks, TaskCreates(t) PROVE TypeOK'
  BY <1>1, ReserveType DEF TaskCreates
<1>2. ASSUME NEW t \in Tasks, Claims(t) PROVE TypeOK'
  <2>1. co' \in [Actors -> CoType]
    BY <1>2, <1>g, GotoType DEF Claims
  <2>2. claim' \in [Env -> ClaimType]
    BY <1>2, <1>t, <1>e DEF Claims, ClaimType
  <2>. QED
    BY <1>2, <2>1, <2>2 DEF Claims, TypeOK, CoType, ClaimType, table, address, process
<1>3. ASSUME NEW t \in Tasks, Refers(t) PROVE TypeOK'
  BY <1>3, <1>e DEF Refers, TypeOK, table, address, process
<1>4. ASSUME NEW t \in Tasks, TaskEnds(t) PROVE TypeOK'
  <2>1. co' \in [Actors -> CoType]
    BY <1>4, <1>g, GotoType DEF TaskEnds
  <2>2. claim' \in [Env -> ClaimType] /\ failed' \subseteq Env
    BY <1>4, <1>t, <1>e DEF TaskEnds, ClaimType, Settled, TypeOK
  <2>. QED
    BY <1>4, <2>1, <2>2 DEF TaskEnds, TypeOK, CoType, ClaimType, table, address, process
<1>5. ASSUME NEW w \in Windows, WindowChecks(w) \/ RuntimeFails(w) PROVE TypeOK'
  <2>1. co' \in [Actors -> CoType]
    BY <1>5, <1>g, GotoType DEF WindowChecks, RuntimeFails
  <2>. QED
    BY <1>5, <2>1 DEF WindowChecks, RuntimeFails, TypeOK, CoType, table, address, process, claims
<1>6. ASSUME NEW w \in Windows, WindowCreates(w) PROVE TypeOK'
  BY <1>6, ReserveType DEF WindowCreates
<1>7. ASSUME NEW c \in Creators, Created(c) PROVE TypeOK'
  <2>1. co' \in [Actors -> CoType]
    BY <1>7, <1>g, GotoType DEF Created
  <2>2. status' \in [Env -> Statuses] /\ names' \in [Env -> Addr \cup {NoAddr}]
    BY <1>7, <1>e, <1>g DEF Created, TypeOK
  <2>. QED
    BY <1>7, <1>e, <2>1, <2>2 DEF Created, TypeOK, CoType, claims, process
<1>8. ASSUME NEW c \in Creators, CreateFails(c) PROVE TypeOK'
  <2>1. co' \in [Actors -> CoType]
    BY <1>8, <1>g, GotoType DEF CreateFails
  <2>. QED
    BY <1>8, <2>1 DEF CreateFails, TypeOK, CoType, table, address, process, claims
<1>9. ASSUME NEW c \in Creators, Opened(c) PROVE TypeOK'
  <2>1. co' \in [Actors -> CoType]
    BY <1>9, <1>g, GotoType DEF Opened
  <2>2. status' \in [Env -> Statuses]
    BY <1>9, <1>e, <1>g DEF Opened, TypeOK
  <2>. QED
    BY <1>9, <1>e, <2>1, <2>2 DEF Opened, TypeOK, CoType, address, claims, process
<1>10. ASSUME NEW c \in Creators, OpenFails(c) PROVE TypeOK'
  <2>1. co' \in [Actors -> CoType]
    BY <1>10, <1>g, GotoType DEF OpenFails
  <2>2. status' \in [Env -> Statuses]
    BY <1>10, <1>e, <1>g DEF OpenFails, TypeOK
  <2>. QED
    BY <1>10, <2>1, <2>2 DEF OpenFails, TypeOK, CoType, address, claims, process
<1>11. ASSUME NEW c \in Creators, Undo(c) PROVE TypeOK'
  BY <1>11, <1>e, DestroyType DEF Undo, TypeOK
<1>12. ASSUME NEW d \in Destroyers, NEW n \in Env, UserDestroys(d, n) PROVE TypeOK'
  BY <1>12, DestroyType DEF UserDestroys, TypeOK
<1>13. ASSUME NEW n \in Env, GcDestroys(n) PROVE TypeOK'
  BY <1>13, DestroyType DEF GcDestroys, TypeOK
<1>14. ASSUME NEW n \in Env, RecoverOne(n) PROVE TypeOK'
  <2>1. todo' \subseteq Env
    BY <1>14 DEF RecoverOne, TypeOK
  <2>2. CASE Destroy(Gc, n)
    BY <2>1, <2>2, DestroyType
  <2>3. CASE UNCHANGED <<table, address, entry, claims, next, co, boot, restarts, base,
                         imported, failed>>
    BY <2>1, <2>3 DEF TypeOK, table, address, claims
  <2>. QED
    BY <1>14, <2>2, <2>3 DEF RecoverOne
<1>15. ASSUME NEW n \in Env, EditPool(n) PROVE TypeOK'
  <2>1. /\ bind' \in [Env -> Addr \cup {NoAddr}]
        /\ count' \in [Addr -> Nat]
        /\ names' \in [Env -> Addr \cup {NoAddr}]
    <3>1. ASSUME NEW e \in Available, BindTo(n, e), names' = [names EXCEPT ![n] = e]
          PROVE  <2>1!1 /\ <2>1!2 /\ <2>1!3
      BY <3>1, BindType, <1>f DEF Available, TypeOK
    <3>2. CASE bind' = Unbound(n) /\ count' = Released(n) /\ UNCHANGED names
      BY <3>2, UnbindType DEF TypeOK
    <3>. QED
      BY <1>15, <3>1, <3>2 DEF EditPool
  <2>. QED
    BY <1>15, <2>1 DEF EditPool, TypeOK, table, claims, process
<1>16. ASSUME NEW n \in Env, Sync(n) PROVE TypeOK'
  <2>1. names' \in [Env -> Addr \cup {NoAddr}]
    BY <1>16 DEF Sync, TypeOK
  <2>. QED
    BY <1>16, <2>1 DEF Sync, TypeOK, table, claims, process
<1>17. ASSUME NEW a \in Actors, Destroyed(a) PROVE TypeOK'
  <2>1. co' \in [Actors -> CoType]
    BY <1>17, <1>g, GotoType DEF Destroyed
  <2>2. /\ row' \subseteq Env /\ cached' \subseteq Env
        /\ bind' \in [Env -> Addr \cup {NoAddr}] /\ count' \in [Addr -> Nat]
    BY <1>17, <1>e, RemoveType DEF Destroyed, TypeOK
  <2>. QED
    BY <1>17, <2>1, <2>2 DEF Destroyed, TypeOK, CoType, claims, process
<1>18. ASSUME NEW a \in Actors, DestroyFails(a) PROVE TypeOK'
  <2>1. co' \in [Actors -> CoType]
    BY <1>18, <1>g, GotoType DEF DestroyFails
  <2>2. status' \in [Env -> Statuses]
    BY <1>18, <1>e, <1>s DEF DestroyFails, TypeOK
  <2>. QED
    BY <1>18, <1>e, <2>1, <2>2 DEF DestroyFails, TypeOK, CoType, address, claims, process
<1>19. ASSUME NEW x \in Editors, EditEnds(x) PROVE TypeOK'
  <2>1. co' \in [Actors -> CoType]
    BY <1>19, <1>g, GotoType DEF EditEnds
  <2>2. co[x].env \in Env /\ co[x].addr \in Addr
    BY <1>19, <1>e DEF EditEnds, Available
  <2>3. bind' \in [Env -> Addr \cup {NoAddr}] /\ count' \in [Addr -> Nat]
    BY <1>19, <2>2, EditCount DEF EditEnds
  <2>4. names' \in [Env -> Addr \cup {NoAddr}] /\ cached' \subseteq Env
    BY <1>19, <2>2 DEF EditEnds, TypeOK
  <2>. QED
    BY <1>19, <2>1, <2>3, <2>4 DEF EditEnds, TypeOK, CoType, claims, process
<1>20. ASSUME NEW x \in Editors, EditFails(x) PROVE TypeOK'
  <2>1. co' \in [Actors -> CoType]
    BY <1>20, <1>g, GotoType DEF EditFails
  <2>. QED
    BY <1>20, <2>1 DEF EditFails, TypeOK, CoType, table, address, process, claims
<1>21. ASSUME NEW x \in Editors, NEW n \in Env, NEW e \in Addr, EditBegins(x, n, e)
       PROVE TypeOK'
  <2>1. [pc |-> "updating", env |-> n, addr |-> e, prev |-> "up"] \in CoType
    BY <1>g DEF CoType
  <2>2. co' \in [Actors -> CoType]
    BY <1>21, <1>t, <2>1 DEF EditBegins
  <2>. QED
    BY <1>21, <2>2 DEF EditBegins, TypeOK, CoType, table, address, process, claims
<1>22. ASSUME NEW e \in Addr, NEW s \in {"available", "disabled", "deleted"}, SetEntry(e, s)
       PROVE TypeOK'
  BY <1>22 DEF SetEntry, TypeOK, table, process, claims
<1>23. CASE Import
  <2>1. next \in Env /\ next' \in 1..(Envs + 1)
    BY <1>23, StockAssumption DEF TypeOK, Import, Env
  <2>2. names' \in [Env -> Addr \cup {NoAddr}]
    BY <1>23, <2>1 DEF Import, TypeOK
  <2>3. status' \in [Env -> Statuses]
    BY <1>23, <2>1, <1>g, <1>s DEF Import
  <2>. QED
    BY <1>23, <2>1, <2>2, <2>3 DEF Import, TypeOK, process, claims
<1>24. CASE Restart
  <2>1. co' \in [Actors -> CoType]
    BY <1>24, StockAssumption DEF Restart, Idle, CoType, Env, Statuses, Pcs
  <2>2. names' \in [Env -> Addr \cup {NoAddr}] /\ bind' \in [Env -> Addr \cup {NoAddr}]
    BY <1>24 DEF Restart, TypeOK
  <2>3. restarts' \in 0..MaxRestart
    BY <1>24, StockAssumption DEF Restart, TypeOK
  <2>. QED
    BY <1>24, <2>1, <2>2, <2>3 DEF Restart, TypeOK, CoType, claims
<1>25. CASE RecoverEnds
  BY <1>25 DEF RecoverEnds, TypeOK, table, address, claims
<1>26. CASE RecoverClaims
  <2>1. claim' \in [Env -> ClaimType] /\ failed' \subseteq Env
    <3>1. PICK F \in SUBSET Pending :
            /\ failed' = failed \cup F
            /\ claim' = [n \in Env |-> IF n \in Pending \ F
                                       THEN [claim[n] EXCEPT !.state = Settled(n)] ELSE claim[n]]
      BY <1>26 DEF RecoverClaims
    <3>. QED
      BY <3>1, <1>t DEF ClaimType, Settled, TypeOK, Pending
  <2>. QED
    BY <1>26, <2>1 DEF RecoverClaims, TypeOK, ClaimType, table, address
<1>27. CASE UNCHANGED vars
  BY <1>27 DEF vars, TypeOK, table, address, claims, process
<1>. QED
  BY <1>1, <1>2, <1>3, <1>4, <1>5, <1>6, <1>7, <1>8, <1>9, <1>10, <1>11, <1>12, <1>13, <1>14,
     <1>15, <1>16, <1>17, <1>18, <1>19, <1>20, <1>21, <1>22, <1>23, <1>24, <1>25, <1>26, <1>27
  DEF Next

THEOREM TypeCorrect == Spec => []TypeOK
BY TypeInit, TypeNext, PTL DEF Spec

-----------------------------------------------------------------------------
(* Every row is in the pool.                                               *)

LEMMA RowsNext == TypeOK /\ RowsCached /\ [Next]_vars => RowsCached'
<1>. SUFFICES ASSUME TypeOK, RowsCached, [Next]_vars PROVE RowsCached'
  OBVIOUS
<1>. USE DEF RowsCached
<1>1. ASSUME NEW n, Remove(n) PROVE RowsCached'
  BY <1>1 DEF Remove
<1>2. ASSUME NEW c, Reserve(c) PROVE RowsCached'
  BY <1>2 DEF Reserve
<1>3. ASSUME NEW a, NEW n, Destroy(a, n) PROVE RowsCached'
  BY <1>1, <1>3 DEF Destroy, table
<1>4. ASSUME NEW t \in Tasks, TaskCreates(t) \/ Claims(t) \/ Refers(t) \/ TaskEnds(t)
      PROVE  RowsCached'
  BY <1>2, <1>4 DEF TaskCreates, Claims, Refers, TaskEnds, table
<1>5. ASSUME NEW w \in Windows, WindowChecks(w) \/ WindowCreates(w) \/ RuntimeFails(w)
      PROVE  RowsCached'
  BY <1>2, <1>5 DEF WindowChecks, WindowCreates, RuntimeFails, table
<1>6. ASSUME NEW c \in Creators,
             Created(c) \/ CreateFails(c) \/ Opened(c) \/ OpenFails(c) \/ Undo(c)
      PROVE  RowsCached'
  BY <1>3, <1>6 DEF Created, CreateFails, Opened, OpenFails, Undo, table
<1>7. ASSUME NEW d \in Destroyers, NEW n \in Env, UserDestroys(d, n) PROVE RowsCached'
  BY <1>3, <1>7 DEF UserDestroys
<1>8. ASSUME NEW n \in Env, GcDestroys(n) \/ RecoverOne(n) \/ EditPool(n) \/ Sync(n)
      PROVE  RowsCached'
  BY <1>3, <1>8 DEF GcDestroys, RecoverOne, EditPool, Sync, table
<1>9. ASSUME NEW a \in Actors, Destroyed(a) \/ DestroyFails(a) PROVE RowsCached'
  BY <1>1, <1>9 DEF Destroyed, DestroyFails
<1>10. ASSUME NEW x \in Editors, EditEnds(x) \/ EditFails(x) PROVE RowsCached'
  BY <1>10 DEF EditEnds, EditFails, table
<1>11. ASSUME NEW x \in Editors, NEW n \in Env, NEW e \in Addr, EditBegins(x, n, e)
       PROVE  RowsCached'
  BY <1>11 DEF EditBegins, table
<1>12. ASSUME NEW e \in Addr, NEW s, SetEntry(e, s) PROVE RowsCached'
  BY <1>12 DEF SetEntry, table
<1>13. CASE Import \/ Restart \/ RecoverEnds \/ RecoverClaims \/ UNCHANGED vars
  BY <1>13 DEF Import, Restart, RecoverEnds, RecoverClaims, vars, table
<1>. QED
  BY <1>4, <1>5, <1>6, <1>7, <1>8, <1>9, <1>10, <1>11, <1>12, <1>13 DEF Next

\* What is in the table is in the pool: pool.add and pool.remove keep it so
\* whatever creations, edits, destructions and restarts do in between.
THEOREM RowsInPool == Spec => []RowsCached
<1>1. Init => RowsCached
  BY DEF Init, RowsCached
<1>. QED
  BY <1>1, RowsNext, TypeCorrect, PTL DEF Spec

-----------------------------------------------------------------------------
(* The counts of the addresses.                                            *)

\* A deleted entry counts nothing, so that nothing is lost when the
\* environments bound to it let go of it.
GoneInv == \A e \in Addr : entry[e] = "deleted" => count[e] = 0

\* The bindings of an address are finite, and one binding that is written
\* moves one environment.
LEMMA BindingsFinite ==
  \A e : IsFiniteSet(Bindings(e)) /\ Cardinality(Bindings(e)) \in Nat
<1>1. IsFiniteSet(Env)
  BY StockAssumption, FS_Interval DEF Env
<1>2. \A e : Bindings(e) \subseteq Env
  BY DEF Bindings
<1>. QED
  BY <1>1, <1>2, FS_Subset, FS_CardinalityType

LEMMA BindingsMove ==
  ASSUME TypeOK, NEW n \in Env, NEW f \in Addr \cup {NoAddr}, bind' = [bind EXCEPT ![n] = f]
  PROVE  \A e \in Addr :
           /\ Cardinality(Bindings(e)) \in Nat /\ Cardinality(Bindings(e)') \in Nat
           /\ e = bind[n] /\ e # f => Cardinality(Bindings(e)') = Cardinality(Bindings(e)) - 1
           /\ e # bind[n] /\ e = f => Cardinality(Bindings(e)') = Cardinality(Bindings(e)) + 1
           /\ (e = bind[n] <=> e = f) => Cardinality(Bindings(e)') = Cardinality(Bindings(e))
           /\ e = bind[n] => Cardinality(Bindings(e)) > 0
<1>. SUFFICES ASSUME NEW e \in Addr
     PROVE  /\ Cardinality(Bindings(e)) \in Nat /\ Cardinality(Bindings(e)') \in Nat
            /\ e = bind[n] /\ e # f => Cardinality(Bindings(e)') = Cardinality(Bindings(e)) - 1
            /\ e # bind[n] /\ e = f => Cardinality(Bindings(e)') = Cardinality(Bindings(e)) + 1
            /\ (e = bind[n] <=> e = f) => Cardinality(Bindings(e)') = Cardinality(Bindings(e))
            /\ e = bind[n] => Cardinality(Bindings(e)) > 0
  OBVIOUS
<1>. DEFINE B == Bindings(e)
<1>1. IsFiniteSet(B) /\ Cardinality(B) \in Nat
  BY BindingsFinite
<1>2. n \in B <=> e = bind[n]
  BY DEF Bindings
<1>3. CASE e = bind[n] /\ e # f
  <2>1. Bindings(e)' = B \ {n}
    BY <1>3 DEF Bindings, TypeOK
  <2>2. Cardinality(B \ {n}) = Cardinality(B) - 1 /\ Cardinality(B \ {n}) \in Nat
    BY <1>1, <1>2, <1>3, FS_RemoveElement, FS_CardinalityType
  <2>. HIDE DEF B
  <2>. QED
    BY <1>1, <1>3, <2>1, <2>2 DEF B
<1>4. CASE e # bind[n] /\ e = f
  <2>1. Bindings(e)' = B \cup {n}
    BY <1>4 DEF Bindings, TypeOK
  <2>2. Cardinality(B \cup {n}) = Cardinality(B) + 1
    BY <1>1, <1>2, <1>4, FS_AddElement
  <2>. HIDE DEF B
  <2>. QED
    BY <1>1, <1>4, <2>1, <2>2 DEF B
<1>5. CASE e = bind[n] <=> e = f
  <2>1. Bindings(e)' = B
    BY <1>5 DEF Bindings, TypeOK
  <2>2. n \in B => Cardinality(B) # 0
    BY <1>1, FS_EmptySet
  <2>. HIDE DEF B
  <2>. QED
    BY <1>1, <1>2, <1>5, <2>1, <2>2 DEF B
<1>. QED
  BY <1>3, <1>4, <1>5

\* bind_ip, unbind_ip, and the edit: what one of them adds to a count, it adds
\* to the bindings.
Balanced == GoneInv /\ CountLeaksOnlyByRestart

LEMMA BindKeeps ==
  ASSUME TypeOK, Balanced, NEW n \in Env, NEW e \in Available, BindTo(n, e),
         UNCHANGED <<entry, base>>
  PROVE  Balanced'
<1>. e \in Addr /\ entry[e] = "available"
  BY DEF Available
<1>1. \A f \in Addr : count'[f] = IF f = e THEN Released(n)[f] + 1 ELSE Released(n)[f]
  BY ReleasedFact DEF BindTo
<1>2. \A f \in Addr : count[f] \in Nat /\ base[f] \in Nat /\ Released(n)[f] \in Nat
  BY ReleasedFact DEF TypeOK
<1>3. GoneInv'
  BY <1>1, <1>2, ReleasedFact DEF GoneInv, Balanced
<1>4. ASSUME NEW f \in Addr
      PROVE  count'[f] <= base[f] + Cardinality(Bindings(f)')
  <2>1. bind' = [bind EXCEPT ![n] = e]
    BY DEF BindTo
  <2>2. count[f] <= base[f] + Cardinality(Bindings(f))
    BY DEF Balanced, CountLeaksOnlyByRestart
  <2>3. entry[f] = "deleted" => count[f] = 0
    BY DEF Balanced, GoneInv
  <2>. DEFINE k == Cardinality(Bindings(f))  k2 == Cardinality(Bindings(f)')
  <2>4. /\ k \in Nat /\ k2 \in Nat
        /\ f = bind[n] /\ f # e => k2 = k - 1
        /\ f # bind[n] /\ f = e => k2 = k + 1
        /\ (f = bind[n] <=> f = e) => k2 = k
        /\ f = bind[n] => k > 0
    BY <2>1, BindingsMove
  <2>5. /\ Released(n)[f] <= count[f]
        /\ f # bind[n] => Released(n)[f] = count[f]
        /\ f = bind[n] /\ entry[f] # "deleted" /\ count[f] > 0
             => Released(n)[f] = count[f] - 1
    BY ReleasedFact
  <2>. HIDE DEF k, k2
  <2>. QED
    BY <1>1, <1>2, <2>2, <2>3, <2>4, <2>5 DEF k, k2
<1>. QED
  BY <1>3, <1>4 DEF Balanced, CountLeaksOnlyByRestart

LEMMA UnbindKeeps ==
  ASSUME TypeOK, Balanced, NEW n \in Env, bind' = Unbound(n), count' = Released(n),
         UNCHANGED <<entry, base>>
  PROVE  Balanced'
<1>2. \A f \in Addr : count[f] \in Nat /\ base[f] \in Nat /\ Released(n)[f] \in Nat
  BY ReleasedFact DEF TypeOK
<1>3. GoneInv'
  BY <1>2, ReleasedFact DEF GoneInv, Balanced
<1>4. ASSUME NEW f \in Addr
      PROVE  count'[f] <= base[f] + Cardinality(Bindings(f)')
  <2>1. bind' = [bind EXCEPT ![n] = NoAddr]
    BY DEF Unbound
  <2>2. count[f] <= base[f] + Cardinality(Bindings(f))
    BY DEF Balanced, CountLeaksOnlyByRestart
  <2>3. entry[f] = "deleted" => count[f] = 0
    BY DEF Balanced, GoneInv
  <2>. DEFINE k == Cardinality(Bindings(f))  k2 == Cardinality(Bindings(f)')
  <2>4. /\ k \in Nat /\ k2 \in Nat
        /\ f = bind[n] => k2 = k - 1 /\ k > 0
        /\ f # bind[n] => k2 = k
    <3>1. f # NoAddr
      BY StockAssumption
    <3>. QED
      BY <2>1, <3>1, BindingsMove
  <2>5. /\ Released(n)[f] <= count[f]
        /\ f # bind[n] => Released(n)[f] = count[f]
        /\ f = bind[n] /\ entry[f] # "deleted" /\ count[f] > 0
             => Released(n)[f] = count[f] - 1
    BY ReleasedFact
  <2>. HIDE DEF k, k2
  <2>. QED
    BY <1>2, <2>2, <2>3, <2>4, <2>5 DEF k, k2
<1>. QED
  BY <1>3, <1>4 DEF Balanced, CountLeaksOnlyByRestart

LEMMA EditKeeps ==
  ASSUME TypeOK, Balanced, NEW n \in Env, NEW e \in Available,
         bind' = [bind EXCEPT ![n] = e],
         count' = IF Let(n) = e THEN count
                  ELSE LET c == IF Known(Let(n)) THEN Less(count, Let(n)) ELSE count
                       IN  [c EXCEPT ![e] = @ + 1],
         UNCHANGED <<entry, base>>
  PROVE  Balanced'
<1>. e \in Addr /\ entry[e] = "available"
  BY DEF Available
<1>1. /\ count' \in [Addr -> Nat]
      /\ Let(n) = e => count' = count
      /\ Let(n) # e => /\ \A f \in Addr \ {e} :
                            /\ count'[f] <= count[f]
                            /\ f # Let(n) => count'[f] = count[f]
                            /\ f = Let(n) /\ entry[f] # "deleted" /\ count[f] > 0
                                 => count'[f] = count[f] - 1
                       /\ count'[e] = count[e] + 1
  BY EditCount
<1>2. \A f \in Addr : count[f] \in Nat /\ base[f] \in Nat /\ count'[f] \in Nat
  BY <1>1 DEF TypeOK
<1>3. GoneInv'
  BY <1>1, <1>2 DEF GoneInv, Balanced
<1>5. bind[n] # NoAddr => Let(n) = bind[n]
  BY DEF Let
<1>4. ASSUME NEW f \in Addr
      PROVE  count'[f] <= base[f] + Cardinality(Bindings(f)')
  <2>2. count[f] <= base[f] + Cardinality(Bindings(f))
    BY DEF Balanced, CountLeaksOnlyByRestart
  <2>3. entry[f] = "deleted" => count[f] = 0
    BY DEF Balanced, GoneInv
  <2>. DEFINE k == Cardinality(Bindings(f))  k2 == Cardinality(Bindings(f)')
  <2>4. /\ k \in Nat /\ k2 \in Nat
        /\ f = bind[n] /\ f # e => k2 = k - 1
        /\ f # bind[n] /\ f = e => k2 = k + 1
        /\ (f = bind[n] <=> f = e) => k2 = k
        /\ f = bind[n] => k > 0
    BY BindingsMove
  <2>5. f = bind[n] => Let(n) = f
    BY <1>5, StockAssumption
  <2>. HIDE DEF k, k2
  <2>6. CASE f = e
    BY <1>1, <1>2, <2>2, <2>4, <2>5, <2>6 DEF k, k2
  <2>7. CASE f # e
    BY <1>1, <1>2, <2>2, <2>3, <2>4, <2>5, <2>7 DEF k, k2
  <2>. QED
    BY <2>6, <2>7
<1>. QED
  BY <1>3, <1>4 DEF Balanced, CountLeaksOnlyByRestart

LEMMA RemoveKeeps ==
  ASSUME TypeOK, Balanced, NEW n \in Env, Remove(n), UNCHANGED <<entry, base>>
  PROVE  Balanced'
<1>1. CASE n \in cached
  BY <1>1, UnbindKeeps DEF Remove
<1>2. CASE n \notin cached
  BY <1>2 DEF Remove, Balanced, GoneInv, CountLeaksOnlyByRestart, Bindings
<1>. QED
  BY <1>1, <1>2

LEMMA SameKeeps ==
  ASSUME Balanced, UNCHANGED <<bind, count, entry, base>>
  PROVE  Balanced'
BY DEF Balanced, GoneInv, CountLeaksOnlyByRestart, Bindings

LEMMA BalancedNext == TypeOK /\ Balanced /\ [Next]_vars => Balanced'
<1>. SUFFICES ASSUME TypeOK, Balanced, [Next]_vars PROVE Balanced'
  OBVIOUS
<1>1. ASSUME NEW c, Reserve(c) PROVE Balanced'
  <2>1. next \in Env
    BY <1>1, StockAssumption DEF TypeOK, Reserve, Env
  <2>2. UNCHANGED <<entry, base>>
    BY <1>1 DEF Reserve, process
  <2>. QED
    BY <1>1, <2>1, <2>2, BindKeeps, SameKeeps DEF Reserve, address
<1>2. ASSUME NEW a, NEW n \in Env, Destroy(a, n) PROVE Balanced'
  BY <1>2, RemoveKeeps, SameKeeps DEF Destroy, address
<1>3. ASSUME NEW t \in Tasks, TaskCreates(t) \/ Claims(t) \/ Refers(t) \/ TaskEnds(t)
      PROVE  Balanced'
  BY <1>1, <1>3, SameKeeps DEF TaskCreates, Claims, Refers, TaskEnds, address, process
<1>4. ASSUME NEW w \in Windows, WindowChecks(w) \/ WindowCreates(w) \/ RuntimeFails(w)
      PROVE  Balanced'
  BY <1>1, <1>4, SameKeeps DEF WindowChecks, WindowCreates, RuntimeFails, address, process
<1>5. ASSUME NEW c \in Creators,
             Created(c) \/ CreateFails(c) \/ Opened(c) \/ OpenFails(c) \/ Undo(c)
      PROVE  Balanced'
  <2>1. co[c].env \in Env
    BY DEF TypeOK, Creators, Adders, Actors
  <2>. QED
    BY <1>2, <1>5, <2>1, SameKeeps
    DEF Created, CreateFails, Opened, OpenFails, Undo, address, process
<1>6. ASSUME NEW d \in Destroyers, NEW n \in Env, UserDestroys(d, n) PROVE Balanced'
  BY <1>2, <1>6 DEF UserDestroys
<1>7. ASSUME NEW n \in Env, GcDestroys(n) \/ RecoverOne(n) \/ Sync(n) PROVE Balanced'
  BY <1>2, <1>7, SameKeeps DEF GcDestroys, RecoverOne, Sync, address, process
<1>8. ASSUME NEW n \in Env, EditPool(n) PROVE Balanced'
  BY <1>8, BindKeeps, UnbindKeeps DEF EditPool, process
<1>9. ASSUME NEW a \in Actors, Destroyed(a) \/ DestroyFails(a) PROVE Balanced'
  <2>1. co[a].env \in Env
    BY DEF TypeOK
  <2>. QED
    BY <1>9, <2>1, RemoveKeeps, SameKeeps DEF Destroyed, DestroyFails, address, process
<1>10. ASSUME NEW x \in Editors, EditEnds(x) PROVE Balanced'
  <2>1. co[x].env \in Env
    BY DEF TypeOK, Adders, Actors
  <2>. QED
    BY <1>10, <2>1, EditKeeps DEF EditEnds, process
<1>11. ASSUME NEW x \in Editors, EditFails(x) PROVE Balanced'
  BY <1>11, SameKeeps DEF EditFails, address, process
<1>12. ASSUME NEW x \in Editors, NEW n \in Env, NEW e \in Addr, EditBegins(x, n, e)
       PROVE  Balanced'
  BY <1>12, SameKeeps DEF EditBegins, address, process
<1>13. ASSUME NEW e \in Addr, NEW s \in {"available", "disabled", "deleted"}, SetEntry(e, s)
       PROVE  Balanced'
  <2>1. \A f \in Addr : /\ count[f] \in Nat /\ base[f] \in Nat
                        /\ count'[f] = IF f = e /\ s = "deleted" THEN 0 ELSE count[f]
                        /\ entry'[f] = IF f = e THEN s ELSE entry[f]
    BY <1>13 DEF SetEntry, TypeOK
  <2>2. entry[e] # "deleted"
    BY <1>13 DEF SetEntry, Known
  <2>3. UNCHANGED <<bind, base>>
    BY <1>13 DEF SetEntry, process
  <2>4. \A f : Bindings(f)' = Bindings(f)
    BY <2>3 DEF Bindings
  <2>5. GoneInv'
    BY <2>1 DEF GoneInv, Balanced
  <2>6. CountLeaksOnlyByRestart'
    <3>. SUFFICES ASSUME NEW f \in Addr
         PROVE  count'[f] <= base[f] + Cardinality(Bindings(f))
      BY <2>3, <2>4 DEF CountLeaksOnlyByRestart
    <3>1. count[f] <= base[f] + Cardinality(Bindings(f)) /\ Cardinality(Bindings(f)) \in Nat
      BY BindingsFinite DEF Balanced, CountLeaksOnlyByRestart
    <3>. DEFINE k == Cardinality(Bindings(f))
    <3>. HIDE DEF k
    <3>. QED
      BY <2>1, <3>1 DEF k
  <2>. QED
    BY <2>5, <2>6 DEF Balanced
<1>14. CASE Restart
  <2>1. base' = count /\ count' = count /\ entry' = entry
    BY <1>14 DEF Restart
  <2>2. IsFiniteSet(Env)
    BY StockAssumption, FS_Interval DEF Env
  <2>3. \A f \in Addr : Cardinality(Bindings(f)') \in Nat
    <3>. SUFFICES ASSUME NEW f \in Addr PROVE Cardinality(Bindings(f)') \in Nat
      OBVIOUS
    <3>1. Bindings(f)' \in SUBSET Env
      BY DEF Bindings
    <3>. QED
      BY <2>2, <3>1, FS_Subset, FS_CardinalityType
  <2>4. ASSUME NEW f \in Addr PROVE count[f] <= count[f] + Cardinality(Bindings(f)')
    <3>. DEFINE k == Cardinality(Bindings(f)')
    <3>1. k \in Nat /\ count[f] \in Nat
      BY <2>3 DEF TypeOK
    <3>. HIDE DEF k
    <3>2. count[f] <= count[f] + k
      BY <3>1
    <3>. QED
      BY <3>2 DEF k
  <2>. QED
    BY <2>1, <2>4 DEF Balanced, GoneInv, CountLeaksOnlyByRestart
<1>15. CASE Import \/ RecoverEnds \/ RecoverClaims \/ UNCHANGED vars
  BY <1>15, SameKeeps DEF Import, RecoverEnds, RecoverClaims, vars, address, process
<1>. QED
  BY <1>3, <1>4, <1>5, <1>6, <1>7, <1>8, <1>9, <1>10, <1>11, <1>12, <1>13, <1>14, <1>15 DEF Next

LEMMA BalancedInit == Init => Balanced
<1>. SUFFICES ASSUME Init PROVE Balanced
  OBVIOUS
<1>1. ASSUME NEW e \in Addr PROVE count[e] <= base[e] + Cardinality(Bindings(e))
  <2>1. Bindings(e) = {}
    BY StockAssumption DEF Init, Bindings
  <2>2. Cardinality(Bindings(e)) = 0
    BY <2>1, FS_EmptySet
  <2>. QED
    BY <2>2 DEF Init
<1>. QED
  BY <1>1 DEF Init, Balanced, GoneInv, CountLeaksOnlyByRestart

\* Within the life of a process no address counts more environments than it
\* counted at its start and are bound to it since.
THEOREM CountsFollowBindings == Spec => []CountLeaksOnlyByRestart
<1>1. Balanced => CountLeaksOnlyByRestart
  BY DEF Balanced
<1>. QED
  BY <1>1, BalancedInit, BalancedNext, TypeCorrect, PTL DEF Spec

\* No count rises but that of an entry that is available at that moment.
LEMMA RisesNext ==
  TypeOK /\ [Next]_vars => \A e \in Addr : count'[e] > count[e] => entry[e] = "available"
<1>. DEFINE Rises == \A e \in Addr : count'[e] > count[e] => entry[e] = "available"
<1>. SUFFICES ASSUME TypeOK, [Next]_vars PROVE Rises
  OBVIOUS
<1>c. \A e \in Addr : count[e] \in Nat
  BY DEF TypeOK
<1>0. CASE UNCHANGED count
  BY <1>0, <1>c
<1>u. ASSUME NEW n \in Env, count' = Released(n) PROVE Rises
  BY <1>u, <1>c, ReleasedFact
<1>b. ASSUME NEW n \in Env, NEW e \in Available, BindTo(n, e) PROVE Rises
  <2>1. \A f \in Addr : count'[f] = IF f = e THEN Released(n)[f] + 1 ELSE Released(n)[f]
    BY <1>b, ReleasedFact DEF BindTo, Available
  <2>2. \A f \in Addr : Released(n)[f] <= count[f] /\ Released(n)[f] \in Nat
    BY ReleasedFact
  <2>. QED
    BY <1>c, <2>1, <2>2 DEF Available
<1>r. ASSUME NEW n \in Env, Remove(n) PROVE Rises
  BY <1>r, <1>0, <1>u DEF Remove
<1>. HIDE DEF Rises
<1>1. ASSUME NEW c, Reserve(c) PROVE Rises
  <2>1. next \in Env
    BY <1>1, StockAssumption DEF TypeOK, Reserve, Env
  <2>. QED
    BY <1>1, <2>1, <1>0, <1>b DEF Reserve, address
<1>2. ASSUME NEW a, NEW n \in Env, Destroy(a, n) PROVE Rises
  BY <1>2, <1>0, <1>r DEF Destroy, address
<1>3. ASSUME NEW t \in Tasks, TaskCreates(t) \/ Claims(t) \/ Refers(t) \/ TaskEnds(t)
      PROVE  Rises
  BY <1>1, <1>3, <1>0 DEF TaskCreates, Claims, Refers, TaskEnds, address
<1>4. ASSUME NEW w \in Windows, WindowChecks(w) \/ WindowCreates(w) \/ RuntimeFails(w)
      PROVE  Rises
  BY <1>1, <1>4, <1>0 DEF WindowChecks, WindowCreates, RuntimeFails, address
<1>5. ASSUME NEW c \in Creators,
             Created(c) \/ CreateFails(c) \/ Opened(c) \/ OpenFails(c) \/ Undo(c)
      PROVE  Rises
  <2>1. co[c].env \in Env
    BY DEF TypeOK, Creators, Adders, Actors
  <2>. QED
    BY <1>2, <1>5, <2>1, <1>0 DEF Created, CreateFails, Opened, OpenFails, Undo, address
<1>6. ASSUME NEW d \in Destroyers, NEW n \in Env, UserDestroys(d, n) PROVE Rises
  BY <1>2, <1>6 DEF UserDestroys
<1>7. ASSUME NEW n \in Env, GcDestroys(n) \/ RecoverOne(n) \/ Sync(n) PROVE Rises
  BY <1>2, <1>7, <1>0 DEF GcDestroys, RecoverOne, Sync, address
<1>8. ASSUME NEW n \in Env, EditPool(n) PROVE Rises
  BY <1>8, <1>b, <1>u DEF EditPool
<1>9. ASSUME NEW a \in Actors, Destroyed(a) \/ DestroyFails(a) PROVE Rises
  <2>1. co[a].env \in Env
    BY DEF TypeOK
  <2>. QED
    BY <1>9, <2>1, <1>0, <1>r DEF Destroyed, DestroyFails, address
<1>10. ASSUME NEW x \in Editors, EditEnds(x) PROVE Rises
  <2>. DEFINE n == co[x].env  e == co[x].addr
  <2>1. n \in Env /\ e \in Addr /\ entry[e] = "available"
    BY <1>10 DEF TypeOK, Adders, Actors, EditEnds, Available
  <2>2. /\ bind' = [bind EXCEPT ![n] = e]
        /\ count' = IF Let(n) = e THEN count
                    ELSE LET c == IF Known(Let(n)) THEN Less(count, Let(n)) ELSE count
                         IN  [c EXCEPT ![e] = @ + 1]
    BY <1>10 DEF EditEnds
  <2>. HIDE DEF n, e
  <2>3. \A f \in Addr \ {e} : count'[f] <= count[f]
    <3>1. count' \in [Addr -> Nat] /\ (Let(n) = e => count' = count)
          /\ (Let(n) # e => \A f \in Addr \ {e} : count'[f] <= count[f])
      BY <2>1, <2>2, EditCount
    <3>. QED
      BY <3>1, <1>c
  <2>4. count' \in [Addr -> Nat]
    BY <2>1, <2>2, EditCount
  <2>. QED
    BY <2>1, <2>3, <2>4, <1>c DEF Rises
<1>11. ASSUME NEW x \in Editors, EditFails(x) PROVE Rises
  BY <1>11, <1>0 DEF EditFails, address
<1>12. ASSUME NEW x \in Editors, NEW n \in Env, NEW e \in Addr, EditBegins(x, n, e)
       PROVE  Rises
  BY <1>12, <1>0 DEF EditBegins, address
<1>13. ASSUME NEW e \in Addr, NEW s \in {"available", "disabled", "deleted"}, SetEntry(e, s)
       PROVE  Rises
  BY <1>13, <1>c DEF SetEntry, TypeOK, Rises
<1>14. CASE Import \/ Restart \/ RecoverEnds \/ RecoverClaims \/ UNCHANGED vars
  BY <1>14, <1>0 DEF Import, Restart, RecoverEnds, RecoverClaims, vars, address
<1>. QED
  BY <1>3, <1>4, <1>5, <1>6, <1>7, <1>8, <1>9, <1>10, <1>11, <1>12, <1>13, <1>14 DEF Next, Rises

\* Whatever happened to an entry while the provider was asked: its count rises
\* only while it is available.
THEOREM RisesOnlyAvailable == Spec => RisesWhenAvailable
<1>1. TypeOK /\ [Next]_vars
        => [\A e \in Addr : count'[e] > count[e] => entry[e] = "available"]_vars
  BY RisesNext
<1>. QED
  BY <1>1, TypeCorrect, PTL DEF Spec, RisesWhenAvailable

-----------------------------------------------------------------------------
(* Start-up.                                                               *)

\* Before start-up is over no coroutine runs but the recovery.
QuietInv == boot # "up" => \A a \in Adders \cup Destroyers : At(a, "idle")

\* What the recovery has looked at is well, or being deleted, or could not be.
ReapInv ==
  boot = "recover" =>
    \A n \in row : \/ n \in todo
                   \/ status[n] = "up"
                   \/ n \in failed
                   \/ (At(Gc, "destroying") /\ co[Gc].env = n)

StartInv == QuietInv /\ ReapInv

LEMMA UpKeeps ==
  ASSUME boot = "up", boot' = "up"
  PROVE  StartInv'
BY DEF StartInv, QuietInv, ReapInv

\* A step of another actor than the recovery needs the process to be up.
LEMMA AwakeIsUp ==
  ASSUME QuietInv, NEW a \in Adders \cup Destroyers, ~At(a, "idle")
  PROVE  boot = "up"
BY DEF QuietInv

LEMMA StartNext == TypeOK /\ RowsCached /\ StartInv /\ [Next]_vars => StartInv'
<1>. SUFFICES ASSUME TypeOK, RowsCached, StartInv, [Next]_vars PROVE StartInv'
  OBVIOUS
<1>q. QuietInv /\ ReapInv
  BY DEF StartInv
<1>g. Gc \in Actors /\ Gc \notin Adders \cup Destroyers
  BY StockAssumption DEF Actors
<1>i. \A a, p : At(a, p) /\ p # "idle" => ~At(a, "idle")
  BY DEF At
<1>1. ASSUME NEW a \in Adders \cup Destroyers, ~At(a, "idle"), boot' = boot PROVE StartInv'
  BY <1>1, <1>q, AwakeIsUp, UpKeeps
<1>2. ASSUME NEW t \in Tasks, TaskCreates(t) \/ Claims(t) \/ Refers(t) \/ TaskEnds(t)
      PROVE  StartInv'
  <2>1. boot' = boot
    BY <1>2 DEF TaskCreates, Reserve, Claims, Refers, TaskEnds, process
  <2>2. TaskCreates(t) => boot = "up"
    BY DEF TaskCreates
  <2>. QED
    BY <1>1, <1>2, <1>i, <2>1, <2>2, UpKeeps DEF Claims, Refers, TaskEnds, Adders, Creators
<1>3. ASSUME NEW w \in Windows, WindowChecks(w) \/ WindowCreates(w) \/ RuntimeFails(w)
      PROVE  StartInv'
  <2>1. boot' = boot
    BY <1>3 DEF WindowChecks, WindowCreates, Reserve, RuntimeFails, process
  <2>2. WindowChecks(w) => boot = "up"
    BY DEF WindowChecks
  <2>. QED
    BY <1>1, <1>3, <1>i, <2>1, <2>2, UpKeeps DEF WindowCreates, RuntimeFails, Adders, Creators
<1>4. ASSUME NEW c \in Creators,
             Created(c) \/ CreateFails(c) \/ Opened(c) \/ OpenFails(c) \/ Undo(c)
      PROVE  StartInv'
  <2>1. boot' = boot
    BY <1>4 DEF Created, CreateFails, Opened, OpenFails, Undo, Destroy, process
  <2>. QED
    BY <1>1, <1>4, <1>i, <2>1 DEF Created, CreateFails, Opened, OpenFails, Undo, Adders
<1>5. ASSUME NEW d \in Destroyers, NEW n \in Env, UserDestroys(d, n) PROVE StartInv'
  BY <1>5, UpKeeps DEF UserDestroys, Destroy
<1>6. ASSUME NEW n \in Env, GcDestroys(n) \/ EditPool(n) \/ Sync(n) PROVE StartInv'
  BY <1>6, UpKeeps DEF GcDestroys, Destroy, EditPool, Sync, process
<1>7. ASSUME NEW x \in Editors, EditEnds(x) \/ EditFails(x) PROVE StartInv'
  BY <1>1, <1>7, <1>i DEF EditEnds, EditFails, process, Adders
<1>8. ASSUME NEW x \in Editors, NEW n \in Env, NEW e \in Addr, EditBegins(x, n, e)
      PROVE  StartInv'
  BY <1>8, UpKeeps DEF EditBegins, process
<1>9. ASSUME NEW e \in Addr, NEW s, SetEntry(e, s) PROVE StartInv'
  BY <1>9, UpKeeps DEF SetEntry, process
<1>10. ASSUME NEW n \in Env, RecoverOne(n) PROVE StartInv'
  <2>1. boot = "recover" /\ boot' = boot /\ todo' = todo \ {n} /\ At(Gc, "idle")
        /\ failed' = failed
    BY <1>10 DEF RecoverOne, Destroy
  <2>2. CASE status[n] \notin Reapable
    <3>1. UNCHANGED <<table, co>> /\ status[n] = "up"
      BY <1>10, <2>2 DEF RecoverOne, Reapable, TypeOK, Statuses
    <3>. QED
      BY <1>q, <2>1, <3>1 DEF StartInv, QuietInv, ReapInv, At, table
  <2>3. CASE status[n] \in Reapable
    <3>1. Destroy(Gc, n)
      BY <1>10, <2>3 DEF RecoverOne
    <3>2. \A a \in Adders \cup Destroyers : co'[a] = co[a]
      BY <3>1, <1>g DEF Destroy, Finish, TypeOK, Actors
    <3>3. QuietInv'
      BY <1>q, <2>1, <3>2 DEF QuietInv, At
    <3>4. CASE n \notin cached
      <4>1. UNCHANGED table /\ n \notin row
        BY <3>1, <3>4 DEF Destroy, RowsCached
      <4>. QED
        BY <1>q, <2>1, <3>3, <4>1 DEF StartInv, ReapInv, At, table
    <3>5. CASE n \in cached /\ n \notin ext
      <4>1. row' = row \ {n} /\ status' = [status EXCEPT ![n] = "terminating"]
        BY <3>1, <3>5 DEF Destroy, Remove
      <4>. QED
        BY <1>q, <2>1, <3>3, <4>1 DEF StartInv, ReapInv, At, TypeOK
    <3>6. CASE n \in cached /\ n \in ext
      <4>1. /\ row' = row /\ status' = [status EXCEPT ![n] = "terminating"]
            /\ co' = [co EXCEPT ![Gc] = [pc |-> "destroying", env |-> n, addr |-> NoAddr,
                                         prev |-> status[n]]]
        BY <3>1, <3>6 DEF Destroy
      <4>2. co'[Gc].pc = "destroying" /\ co'[Gc].env = n
        BY <4>1, <1>g DEF TypeOK
      <4>. QED
        BY <1>q, <2>1, <3>3, <4>1, <4>2 DEF StartInv, ReapInv, At, TypeOK
    <3>. QED
      BY <3>4, <3>5, <3>6
  <2>. QED
    BY <2>2, <2>3
<1>11. ASSUME NEW a \in Actors, Destroyed(a) \/ DestroyFails(a) PROVE StartInv'
  <2>1. boot' = boot /\ todo' = todo /\ At(a, "destroying")
    BY <1>11 DEF Destroyed, DestroyFails, process
  <2>2. CASE a \in Adders \cup Destroyers
    BY <1>1, <1>i, <2>1, <2>2
  <2>3. CASE a = Gc
    <3>1. \A b \in Adders \cup Destroyers : co'[b] = co[b]
      BY <1>11, <2>3, <1>g DEF Destroyed, DestroyFails, Finish, TypeOK, Actors
    <3>2. QuietInv'
      BY <1>q, <2>1, <3>1 DEF QuietInv, At
    <3>3. CASE Destroyed(a)
      <4>1. status' = status /\ failed' = failed
        BY <3>3 DEF Destroyed
      <4>2. row' \subseteq row \ {co[a].env}
        BY <3>3 DEF Destroyed, Remove, RowsCached
      <4>. QED
        BY <1>q, <2>1, <2>3, <3>2, <4>1, <4>2 DEF StartInv, ReapInv
    <3>4. CASE DestroyFails(a)
      <4>1. /\ row' = row /\ failed' = failed \cup {co[a].env}
            /\ \A n \in Env \ {co[a].env} : status'[n] = status[n]
        BY <3>4 DEF DestroyFails, TypeOK
      <4>. QED
        BY <1>q, <2>1, <2>3, <3>2, <4>1 DEF StartInv, ReapInv, TypeOK
    <3>. QED
      BY <1>11, <3>3, <3>4
  <2>. QED
    BY <2>2, <2>3 DEF Actors
<1>12. CASE Import
  BY <1>12, UpKeeps DEF Import, process
<1>13. CASE Restart
  <2>1. boot' = "recover" /\ todo' = row /\ row' = row
    BY <1>13 DEF Restart
  <2>2. \A a \in Actors : co'[a].pc = "idle"
    BY <1>13 DEF Restart, Idle
  <2>3. QuietInv'
    BY <2>2 DEF QuietInv, At, Actors
  <2>. QED
    BY <2>1, <2>3 DEF StartInv, ReapInv
<1>14. CASE RecoverEnds
  BY <1>14, <1>q DEF RecoverEnds, StartInv, QuietInv, ReapInv, At
<1>15. CASE RecoverClaims
  BY <1>15 DEF RecoverClaims, StartInv, QuietInv, ReapInv
<1>16. CASE UNCHANGED vars
  BY <1>16, <1>q DEF vars, table, process, StartInv, QuietInv, ReapInv, At
<1>. QED
  BY <1>2, <1>3, <1>4, <1>5, <1>6, <1>7, <1>8, <1>9, <1>10, <1>11, <1>12, <1>13, <1>14, <1>15,
     <1>16
  DEF Next

LEMMA StartInit == Init => StartInv
BY DEF Init, StartInv, QuietInv, ReapInv

THEOREM StartCorrect == Spec => []StartInv
BY StartInit, StartNext, TypeCorrect, RowsInPool, PTL DEF Spec

\* The recovery ends only by RecoverEnds, with nothing left to look at.
LEMMA ReapStep ==
  TypeOK /\ StartInv /\ [Next]_vars =>
    (boot = "recover" /\ boot' # "recover" => \A n \in row' : status'[n] = "up" \/ n \in failed)
<1>. SUFFICES ASSUME TypeOK, StartInv, [Next]_vars, boot = "recover", boot' # "recover"
     PROVE  \A n \in row' : status'[n] = "up" \/ n \in failed
  OBVIOUS
<1>1. CASE RecoverEnds
  BY <1>1 DEF RecoverEnds, StartInv, ReapInv, At, table
<1>2. CASE UNCHANGED boot
  BY <1>2
<1>3. \A a, n : Destroy(a, n) => UNCHANGED boot
  BY DEF Destroy
<1>4. \A c : Reserve(c) => UNCHANGED boot
  BY DEF Reserve, process
<1>. QED
  BY <1>1, <1>2, <1>3, <1>4
  DEF Next, vars, process, TaskCreates, Claims, Refers, TaskEnds, WindowChecks, WindowCreates,
      RuntimeFails, Created, CreateFails, Opened, OpenFails, Undo, UserDestroys, GcDestroys,
      RecoverOne, EditPool, Sync, Destroyed, DestroyFails, EditEnds, EditFails, EditBegins,
      SetEntry, Import, Restart, RecoverClaims

\* Start-up leaves no row of an unfinished creation or destruction but those
\* it could not delete itself.
THEOREM RecoveryComplete == Spec => RecoveryReaps
<1>1. TypeOK /\ StartInv /\ [Next]_vars
        => [boot = "recover" /\ boot' # "recover"
              => \A n \in row' : status'[n] = "up" \/ n \in failed]_vars
  BY ReapStep
<1>. QED
  BY <1>1, TypeCorrect, StartCorrect, PTL DEF Spec, RecoveryReaps

-----------------------------------------------------------------------------
(* Claims.                                                                 *)

Unclaimed == {"creating", "opening", "opened"}
Busy == Unclaimed \cup {"running"}

\* What the invariant asks of one environment.
Owned(n) ==
  claim[n].state = "pending" =>
    \/ boot # "up"
    \/ n \in failed
    \/ (claim[n].task # Nobody /\ At(claim[n].task, "running") /\ co[claim[n].task].env = n)

\* It also holds for what a coroutine may put back into the pool; and two
\* coroutines never create the same environment.
ClaimInv ==
  /\ \A n \in cached : Owned(n)
  /\ \A x \in Editors : At(x, "updating") => Owned(co[x].env)
  /\ \A n \in Env : n >= next => claim[n].state = "none"
  /\ \A c \in Creators : co[c].pc \in Unclaimed => claim[co[c].env].state = "none"
  /\ \A c \in Creators : co[c].pc \in Busy => co[c].env < next
  /\ \A c, d \in Creators :
       c # d /\ co[c].pc \in Busy /\ co[d].pc \in Busy => co[c].env # co[d].env

LEMMA OwnedKept ==
  ASSUME TypeOK, NEW n \in Env, Owned(n), claim'[n] = claim[n], failed \subseteq failed',
         boot' = boot, NEW a \in Actors, ~At(a, "running"),
         \A b \in Actors \ {a} : co'[b] = co[b]
  PROVE  Owned(n)'
<1>. SUFFICES ASSUME claim'[n].state = "pending"
     PROVE  (\/ boot # "up"
             \/ n \in failed
             \/ (claim[n].task # Nobody /\ At(claim[n].task, "running")
                   /\ co[claim[n].task].env = n))'
  BY DEF Owned
<1>1. CASE boot # "up"
  BY <1>1
<1>2. CASE n \in failed
  BY <1>2
<1>3. CASE claim[n].task # Nobody /\ At(claim[n].task, "running") /\ co[claim[n].task].env = n
  <2>1. claim[n].task \in Actors \ {a}
    BY <1>3 DEF TypeOK, Actors, Adders, Creators
  <2>. QED
    BY <1>3, <2>1 DEF At
<1>. QED
  BY <1>1, <1>2, <1>3 DEF Owned

\* A step that settles and makes no claim and starts no creation.
LEMMA PlainKeeps ==
  ASSUME TypeOK, ClaimInv, UNCHANGED <<claim, boot>>, next' >= next, next' \in Nat,
         failed \subseteq failed',
         NEW a \in Actors, ~At(a, "running"),
         \A b \in Actors \ {a} : co'[b] = co[b],
         cached' \subseteq cached \cup {n \in Env : Owned(n)},
         a \in Editors /\ co'[a].pc = "updating" => co'[a].env \in Env /\ Owned(co'[a].env),
         a \in Creators /\ co'[a].pc \in Busy =>
           co'[a].env = co[a].env /\ co[a].pc \in Unclaimed /\ co'[a].pc \in Unclaimed
  PROVE  ClaimInv'
<1>1. \A n \in cached' : n \in Env /\ Owned(n)
  BY DEF TypeOK, ClaimInv
<1>2. \A n \in cached' : Owned(n)'
  BY <1>1, OwnedKept
<1>3. ASSUME NEW x \in Editors, co'[x].pc = "updating" PROVE Owned(co[x].env)'
  <2>1. x \in Actors
    BY DEF Actors, Adders
  <2>2. co'[x].env \in Env /\ Owned(co'[x].env)
    BY <1>3, <2>1 DEF ClaimInv, At, TypeOK
  <2>3. \A n \in Env : Owned(n) => Owned(n)'
    BY OwnedKept
  <2>. QED
    BY <2>2, <2>3 DEF Owned
<1>4. \A n \in Env : n >= next' => claim'[n].state = "none"
  <2>1. Env \subseteq Nat /\ next \in Nat
    BY DEF Env, TypeOK
  <2>. QED
    BY <2>1 DEF ClaimInv
<1>5. \A c \in Creators : /\ c \in Actors
                          /\ co'[c].pc \in Busy => co'[c].env = co[c].env /\ co[c].pc \in Busy
                          /\ co'[c].pc \in Unclaimed => co[c].pc \in Unclaimed
  BY DEF Actors, Adders, Busy
<1>6. \A c \in Creators : co'[c].pc \in Unclaimed => claim'[co'[c].env].state = "none"
  BY <1>5 DEF ClaimInv, Busy
<1>7. ASSUME NEW c \in Creators, co'[c].pc \in Busy PROVE co'[c].env < next'
  <2>1. co[c].env \in Nat /\ next \in Nat
    BY <1>5 DEF Env, TypeOK
  <2>2. co'[c].env = co[c].env /\ co[c].env < next
    BY <1>5, <1>7 DEF ClaimInv
  <2>. QED
    BY <2>1, <2>2
<1>8. \A c, d \in Creators :
       c # d /\ co'[c].pc \in Busy /\ co'[d].pc \in Busy => co'[c].env # co'[d].env
  BY <1>5 DEF ClaimInv
<1>. QED
  BY <1>2, <1>3, <1>4, <1>6, <1>7, <1>8 DEF ClaimInv, At

\* A creation starts with an id nobody has used.
LEMMA ReserveKeeps ==
  ASSUME TypeOK, ClaimInv, NEW c \in Creators, ~At(c, "running"), Reserve(c)
  PROVE  ClaimInv'
<1>1. next \in Env /\ next' = next + 1 /\ claim' = claim /\ boot' = boot /\ failed' = failed
      /\ cached' = cached \cup {next}
  BY StockAssumption DEF TypeOK, Reserve, Env, claims, process
<1>2. c \in Actors
  BY DEF Actors, Adders
<1>3. /\ co'[c].pc = "creating" /\ co'[c].env = next
      /\ \A b \in Actors \ {c} : co'[b] = co[b]
  BY <1>2 DEF Reserve, TypeOK
<1>4. claim[next].state = "none" /\ Env \subseteq Nat
  BY <1>1 DEF ClaimInv, Env
<1>5. \A n \in cached' : n \in Env /\ Owned(n)
  BY <1>1, <1>4 DEF TypeOK, ClaimInv, Owned
<1>6. \A n \in cached' : Owned(n)'
  BY <1>1, <1>2, <1>3, <1>5, OwnedKept
<1>7. ASSUME NEW x \in Editors, co'[x].pc = "updating" PROVE Owned(co[x].env)'
  <2>1. x \in Actors /\ x # c
    BY StockAssumption DEF Actors, Adders
  <2>2. co'[x].env = co[x].env /\ co[x].env \in Env /\ Owned(co[x].env)
    BY <1>7, <1>3, <2>1 DEF ClaimInv, At, TypeOK
  <2>3. \A n \in Env : Owned(n) => Owned(n)'
    BY <1>1, <1>2, <1>3, OwnedKept
  <2>. QED
    BY <2>2, <2>3 DEF Owned
<1>8. \A n \in Env : n >= next' => claim'[n].state = "none"
  BY <1>1, <1>4 DEF ClaimInv
<1>9. \A d \in Creators : d \in Actors /\ (d # c => co'[d] = co[d])
  BY <1>3 DEF Actors, Adders
<1>10. \A d \in Creators : co'[d].pc \in Unclaimed => claim'[co'[d].env].state = "none"
  BY <1>1, <1>3, <1>4, <1>9 DEF ClaimInv
<1>11. \A d \in Creators : co'[d].pc \in Busy => co'[d].env < next'
  <2>1. \A d \in Actors : co[d].env \in Nat
    BY <1>4 DEF TypeOK
  <2>. QED
    BY <1>1, <1>3, <1>4, <1>9, <2>1 DEF ClaimInv
<1>12. \A d \in Creators : d # c /\ co'[d].pc \in Busy => co'[d].env < next
  BY <1>9 DEF ClaimInv
<1>13. \A b, d \in Creators :
        b # d /\ co'[b].pc \in Busy /\ co'[d].pc \in Busy => co'[b].env # co'[d].env
  BY <1>1, <1>3, <1>4, <1>9, <1>12 DEF ClaimInv
<1>. QED
  BY <1>6, <1>7, <1>8, <1>10, <1>11, <1>13 DEF ClaimInv, At

\* The moves of a coroutine, read off its place.
LEMMA GotoFact ==
  ASSUME TypeOK, NEW a \in Actors
  PROVE  /\ \A pc : Goto(a, pc) => /\ co'[a].pc = pc /\ co'[a].env = co[a].env
                                   /\ \A b \in Actors \ {a} : co'[b] = co[b]
         /\ Finish(a) => /\ co'[a].pc = "idle"
                         /\ \A b \in Actors \ {a} : co'[b] = co[b]
<1>1. ASSUME NEW pc, Goto(a, pc)
      PROVE  /\ co'[a].pc = pc /\ co'[a].env = co[a].env
             /\ \A b \in Actors \ {a} : co'[b] = co[b]
  BY <1>1 DEF Goto, TypeOK
<1>2. ASSUME Finish(a)
      PROVE  co'[a].pc = "idle" /\ \A b \in Actors \ {a} : co'[b] = co[b]
  BY <1>2 DEF Finish, Idle, TypeOK
<1>. QED
  BY <1>1, <1>2

LEMMA DestroyKeeps ==
  ASSUME TypeOK, ClaimInv, NEW a \in Actors, NEW n, ~At(a, "running"), Destroy(a, n)
  PROVE  ClaimInv'
<1>1. UNCHANGED <<claim, boot, next, failed>> /\ cached' \subseteq cached
  BY DEF Destroy, Remove, claims, table
<1>2. co'[a].pc \in {"idle", "destroying"} /\ \A b \in Actors \ {a} : co'[b] = co[b]
  <2>1. CASE Finish(a)
    BY <2>1, GotoFact
  <2>2. CASE ~Finish(a)
    BY <2>2 DEF Destroy, TypeOK
  <2>. QED
    BY <2>1, <2>2
<1>3. co'[a].pc # "updating" /\ co'[a].pc \notin Busy
  BY <1>2 DEF Busy, Unclaimed
<1>4. next \in Nat
  BY DEF TypeOK
<1>. QED
  BY <1>1, <1>2, <1>3, <1>4, PlainKeeps

LEMMA ClaimNext == TypeOK /\ StartInv /\ ClaimInv /\ [Next]_vars => ClaimInv'
<1>. SUFFICES ASSUME TypeOK, StartInv, ClaimInv, [Next]_vars PROVE ClaimInv'
  OBVIOUS
<1>n. next \in Nat
  BY DEF TypeOK
<1>a. /\ \A c \in Creators : c \in Actors /\ c \notin Editors
      /\ \A x \in Editors : x \in Actors /\ x \notin Creators
      /\ \A t \in Tasks : t \in Creators
      /\ \A w \in Windows : w \in Creators /\ w \notin Tasks
      /\ \A d \in Destroyers : d \in Actors /\ d \notin Creators /\ d \notin Editors
      /\ Gc \in Actors /\ Gc \notin Creators /\ Gc \notin Editors
  BY StockAssumption DEF Actors, Adders, Creators
<1>p. \A p : p \in {"idle", "runtime", "undo", "updating", "destroying"} => p \notin Busy
  BY DEF Busy, Unclaimed
<1>o. \A a \in Actors : co[a].pc # "running" <=> ~At(a, "running")
  BY DEF At
<1>1. ASSUME NEW t \in Tasks, TaskCreates(t) PROVE ClaimInv'
  BY <1>1, <1>a, ReserveKeeps DEF TaskCreates, At
<1>2. ASSUME NEW t \in Tasks, Claims(t) PROVE ClaimInv'
  <2>. DEFINE n == co[t].env
  <2>1. /\ t \in Actors /\ n \in Env /\ co[t].pc = "opened" /\ co[t].pc \in Busy
        /\ t # Nobody
    BY <1>2, <1>a, StockAssumption DEF Claims, At, TypeOK, Busy, Unclaimed
  <2>2. /\ co'[t].pc = "running" /\ co'[t].env = n
        /\ \A b \in Actors \ {t} : co'[b] = co[b]
    BY <1>2, <2>1, GotoFact DEF Claims
  <2>3. /\ claim'[n] = [state |-> "pending", task |-> t]
        /\ \A m \in Env \ {n} : claim'[m] = claim[m]
    BY <1>2, <2>1 DEF Claims, TypeOK
  <2>4. UNCHANGED <<cached, next, boot, failed>>
    BY <1>2 DEF Claims, table, process
  <2>5. Owned(n)'
    BY <2>1, <2>2, <2>3 DEF Owned, At
  <2>6. \A m \in Env : Owned(m) => Owned(m)'
    BY <2>1, <2>2, <2>3, <2>4, <2>5, OwnedKept DEF At
  <2>7. \A m \in cached' : Owned(m)'
    BY <2>4, <2>6 DEF ClaimInv, TypeOK
  <2>8. ASSUME NEW x \in Editors, co'[x].pc = "updating" PROVE Owned(co[x].env)'
    <3>1. co'[x] = co[x] /\ co[x].env \in Env /\ Owned(co[x].env)
      BY <1>a, <2>2, <2>8 DEF ClaimInv, At, TypeOK
    <3>. QED
      BY <2>6, <3>1 DEF Owned
  <2>9. n < next /\ n \in Nat
    BY <1>a, <2>1 DEF ClaimInv, Env
  <2>10. \A m \in Env : m >= next' => claim'[m].state = "none"
    BY <2>3, <2>4, <2>9, <1>n DEF ClaimInv, Env
  <2>11. \A c \in Creators : c \in Actors /\ (c # t => co'[c] = co[c])
    BY <1>a, <2>2
  <2>12. \A c \in Creators : co'[c].pc \in Unclaimed => claim'[co'[c].env].state = "none"
    <3>1. SUFFICES ASSUME NEW c \in Creators, co'[c].pc \in Unclaimed
                   PROVE  claim'[co'[c].env].state = "none"
      OBVIOUS
    <3>2. c # t
      BY <2>2, <3>1 DEF Unclaimed
    <3>3. co'[c] = co[c] /\ co[c].pc \in Busy /\ co[c].env \in Env /\ co[c].env # n
      BY <1>a, <2>1, <2>11, <3>1, <3>2 DEF ClaimInv, Busy, TypeOK
    <3>. QED
      BY <2>3, <3>1, <3>3 DEF ClaimInv
  <2>13. \A c \in Creators : co'[c].pc \in Busy => co[c].pc \in Busy /\ co'[c].env = co[c].env
    BY <2>1, <2>2, <2>11
  <2>. QED
    BY <2>4, <2>7, <2>8, <2>10, <2>12, <2>13 DEF ClaimInv, At
<1>3. ASSUME NEW t \in Tasks, Refers(t) PROVE ClaimInv'
  <2>1. UNCHANGED <<cached, co, claim, next, boot, failed>>
    BY <1>3 DEF Refers, table, process
  <2>. QED
    BY <2>1 DEF ClaimInv, Owned, At
<1>4. ASSUME NEW t \in Tasks, TaskEnds(t) PROVE ClaimInv'
  <2>n. PICK n : n = co[t].env
    OBVIOUS
  <2>1. t \in Actors /\ n \in Env /\ co[t].pc = "running" /\ co[t].pc \in Busy
    BY <1>4, <1>a, <2>n DEF TaskEnds, At, TypeOK, Busy
  <2>2. co'[t].pc = "idle" /\ \A b \in Actors \ {t} : co'[b] = co[b]
    BY <1>4, <2>1, GotoFact DEF TaskEnds
  <2>3. /\ UNCHANGED <<cached, next, boot>> /\ failed \subseteq failed'
        /\ \A m \in Env \ {n} : claim'[m] = claim[m]
        /\ (claim'[n].state = "pending" => n \in failed')
        /\ \A m \in Env : claim[m].state = "none" /\ m # n => claim'[m].state = "none"
    BY <1>4, <2>n, <2>1 DEF TaskEnds, table, process, Settled, TypeOK
  <2>4. Owned(n)'
    BY <2>3 DEF Owned
  <2>5. ASSUME NEW m \in Env \ {n}, Owned(m) PROVE Owned(m)'
    <3>1. claim'[m] = claim[m]
      BY <2>3
    <3>2. CASE claim[m].task # Nobody /\ At(claim[m].task, "running") /\ co[claim[m].task].env = m
      <4>1. claim[m].task \in Actors \ {t}
        BY <1>a, <2>n, <3>2 DEF TypeOK
      <4>2. co'[claim[m].task] = co[claim[m].task]
        BY <2>2, <4>1
      <4>. QED
        BY <3>1, <3>2, <4>2 DEF Owned, At
    <3>. QED
      BY <2>3, <2>5, <3>1, <3>2 DEF Owned
  <2>6. \A m \in cached' : Owned(m)'
    BY <2>3, <2>4, <2>5 DEF ClaimInv, TypeOK
  <2>7. ASSUME NEW x \in Editors, co'[x].pc = "updating" PROVE Owned(co[x].env)'
    <3>1. co'[x] = co[x] /\ co[x].env \in Env /\ Owned(co[x].env)
      BY <1>a, <2>2, <2>7 DEF ClaimInv, At, TypeOK
    <3>. QED
      BY <2>4, <2>5, <3>1 DEF Owned
  <2>8. n < next /\ n \in Nat
    BY <1>a, <2>n, <2>1 DEF ClaimInv, Env
  <2>9. \A m \in Env : m >= next' => claim'[m].state = "none"
    BY <2>3, <2>8, <1>n DEF ClaimInv, Env
  <2>10. \A c \in Creators : co'[c].pc \in Busy => c # t /\ co'[c] = co[c] /\ c \in Actors
    BY <1>a, <1>p, <2>2
  <2>11. \A c \in Creators : co'[c].pc \in Unclaimed => claim'[co'[c].env].state = "none"
    <3>1. SUFFICES ASSUME NEW c \in Creators, co'[c].pc \in Unclaimed
                   PROVE  claim'[co'[c].env].state = "none"
      OBVIOUS
    <3>2. c # t /\ co'[c] = co[c] /\ c \in Actors
      BY <2>10, <3>1 DEF Busy
    <3>3. co[c].pc \in Busy /\ co[c].env \in Env /\ co[c].env # n
      BY <1>a, <2>n, <2>1, <3>1, <3>2 DEF ClaimInv, Busy, TypeOK
    <3>. QED
      BY <2>3, <3>1, <3>2, <3>3 DEF ClaimInv
  <2>. QED
    BY <2>3, <2>6, <2>7, <2>9, <2>10, <2>11 DEF ClaimInv, At
<1>5. ASSUME NEW w \in Windows, WindowChecks(w) PROVE ClaimInv'
  <2>1. w \in Actors /\ w \notin Editors /\ w \in Creators /\ ~At(w, "running")
    BY <1>5, <1>a DEF WindowChecks, At
  <2>2. co'[w].pc = "runtime" /\ \A b \in Actors \ {w} : co'[b] = co[b]
    BY <1>5, <2>1, GotoFact DEF WindowChecks
  <2>3. UNCHANGED <<cached, claim, next, boot, failed>>
    BY <1>5 DEF WindowChecks, table, claims, process
  <2>. QED
    BY <1>n, <1>p, <2>1, <2>2, <2>3, PlainKeeps
<1>6. ASSUME NEW w \in Windows, WindowCreates(w) PROVE ClaimInv'
  BY <1>6, <1>a, ReserveKeeps DEF WindowCreates, At
<1>7. ASSUME NEW w \in Windows, RuntimeFails(w) PROVE ClaimInv'
  <2>1. w \in Actors /\ w \notin Editors /\ w \in Creators /\ ~At(w, "running")
    BY <1>7, <1>a DEF RuntimeFails, At
  <2>2. co'[w].pc = "idle" /\ \A b \in Actors \ {w} : co'[b] = co[b]
    BY <1>7, <2>1, GotoFact DEF RuntimeFails
  <2>3. UNCHANGED <<cached, claim, next, boot, failed>>
    BY <1>7 DEF RuntimeFails, table, claims, process
  <2>. QED
    BY <1>n, <1>p, <2>1, <2>2, <2>3, PlainKeeps
<1>8. ASSUME NEW c \in Creators, Created(c) \/ Opened(c) PROVE ClaimInv'
  <2>1. c \in Actors /\ c \notin Editors /\ co[c].pc \in Unclaimed /\ ~At(c, "running")
        /\ co[c].env \in Env
    BY <1>8, <1>a DEF Created, Opened, At, Unclaimed, TypeOK
  <2>2. Owned(co[c].env)
    BY <2>1 DEF ClaimInv, Owned
  <2>3. /\ \A b \in Actors \ {c} : co'[b] = co[b]
        /\ \/ co'[c].pc = "idle"
           \/ (co'[c].pc \in Unclaimed /\ co'[c].env = co[c].env)
    BY <1>8, <2>1, GotoFact DEF Created, Opened, Unclaimed
  <2>4. UNCHANGED <<claim, next, boot, failed>> /\ cached' = cached \cup {co[c].env}
    BY <1>8 DEF Created, Opened, claims, process
  <2>. QED
    BY <1>n, <1>p, <2>1, <2>2, <2>3, <2>4, PlainKeeps
<1>9. ASSUME NEW c \in Creators, CreateFails(c) \/ OpenFails(c) PROVE ClaimInv'
  <2>1. c \in Actors /\ c \notin Editors /\ ~At(c, "running")
    BY <1>9, <1>a DEF CreateFails, OpenFails, At
  <2>2. co'[c].pc = "undo" /\ \A b \in Actors \ {c} : co'[b] = co[b]
    BY <1>9, <2>1, GotoFact DEF CreateFails, OpenFails
  <2>3. UNCHANGED <<cached, claim, next, boot, failed>>
    BY <1>9 DEF CreateFails, OpenFails, table, claims, process
  <2>. QED
    BY <1>n, <1>p, <2>1, <2>2, <2>3, PlainKeeps
<1>10. ASSUME NEW c \in Creators, Undo(c) PROVE ClaimInv'
  BY <1>10, <1>a, DestroyKeeps DEF Undo, At
<1>11. ASSUME NEW d \in Destroyers, NEW n \in Env, UserDestroys(d, n) PROVE ClaimInv'
  BY <1>11, <1>a, DestroyKeeps DEF UserDestroys, At
<1>12. ASSUME NEW n \in Env, GcDestroys(n) PROVE ClaimInv'
  BY <1>12, <1>a, DestroyKeeps DEF GcDestroys, At
<1>13. ASSUME NEW n \in Env, RecoverOne(n) PROVE ClaimInv'
  <2>1. CASE Destroy(Gc, n)
    BY <1>13, <2>1, <1>a, DestroyKeeps DEF RecoverOne, At
  <2>2. CASE UNCHANGED <<table, address, entry, claims, next, co, boot, restarts, base,
                         imported, failed>>
    BY <2>2 DEF ClaimInv, Owned, At, table, claims
  <2>. QED
    BY <1>13, <2>1, <2>2 DEF RecoverOne
<1>14. ASSUME NEW n \in Env, EditPool(n) \/ Sync(n) PROVE ClaimInv'
  <2>1. UNCHANGED <<cached, claim, next, co, boot, failed>>
    BY <1>14 DEF EditPool, Sync, table, claims, process
  <2>. QED
    BY <2>1 DEF ClaimInv, Owned, At
<1>15. ASSUME NEW a \in Actors, Destroyed(a) \/ DestroyFails(a) PROVE ClaimInv'
  <2>1. ~At(a, "running")
    BY <1>15 DEF Destroyed, DestroyFails, At
  <2>2. co'[a].pc = "idle" /\ \A b \in Actors \ {a} : co'[b] = co[b]
    BY <1>15, GotoFact DEF Destroyed, DestroyFails
  <2>3. UNCHANGED <<claim, next, boot>> /\ cached' \subseteq cached /\ failed \subseteq failed'
    BY <1>15 DEF Destroyed, DestroyFails, Remove, claims, process
  <2>. QED
    BY <1>n, <1>p, <2>1, <2>2, <2>3, PlainKeeps
<1>16. ASSUME NEW x \in Editors, EditEnds(x) \/ EditFails(x) PROVE ClaimInv'
  <2>1. x \in Actors /\ x \notin Creators /\ ~At(x, "running") /\ co[x].env \in Env
    BY <1>16, <1>a DEF EditEnds, EditFails, At, TypeOK
  <2>2. co'[x].pc = "idle" /\ \A b \in Actors \ {x} : co'[b] = co[b]
    BY <1>16, <2>1, GotoFact DEF EditEnds, EditFails
  <2>3. Owned(co[x].env)
    BY <1>16 DEF EditEnds, EditFails, ClaimInv
  <2>4. UNCHANGED <<claim, next, boot, failed>> /\ cached' \subseteq cached \cup {co[x].env}
    BY <1>16 DEF EditEnds, EditFails, table, claims, process
  <2>. QED
    BY <1>n, <2>1, <2>2, <2>3, <2>4, PlainKeeps
<1>17. ASSUME NEW x \in Editors, NEW n \in Env, NEW e \in Addr, EditBegins(x, n, e)
       PROVE  ClaimInv'
  <2>1. x \in Actors /\ x \notin Creators /\ ~At(x, "running") /\ n \in cached
    BY <1>17, <1>a DEF EditBegins, At
  <2>2. co'[x].env = n /\ \A b \in Actors \ {x} : co'[b] = co[b]
    BY <1>17, <2>1 DEF EditBegins, TypeOK
  <2>3. Owned(n)
    BY <2>1 DEF ClaimInv
  <2>4. UNCHANGED <<cached, claim, next, boot, failed>>
    BY <1>17 DEF EditBegins, table, claims, process
  <2>. QED
    BY <1>n, <2>1, <2>2, <2>3, <2>4, PlainKeeps
<1>18. ASSUME NEW e \in Addr, NEW s, SetEntry(e, s) PROVE ClaimInv'
  <2>1. UNCHANGED <<cached, claim, next, co, boot, failed>>
    BY <1>18 DEF SetEntry, table, claims, process
  <2>. QED
    BY <2>1 DEF ClaimInv, Owned, At
<1>19. CASE Import
  <2>1. UNCHANGED <<claim, co, boot, failed>> /\ next' = next + 1 /\ cached' = cached \cup {next}
        /\ next \in Env
    BY <1>19, StockAssumption DEF Import, claims, process, TypeOK, Env
  <2>2. claim[next].state = "none" /\ Owned(next)
    BY <2>1, <1>n DEF ClaimInv, Owned
  <2>3. \A n : Owned(n) => Owned(n)'
    BY <2>1 DEF Owned, At
  <2>4. \A n \in Env : n >= next' => claim'[n].state = "none"
    BY <2>1, <1>n DEF ClaimInv, Env
  <2>5. \A c \in Creators : co'[c].pc \in Busy => co'[c].env < next'
    <3>1. \A c \in Actors : co[c].env \in Nat
      BY DEF TypeOK, Env
    <3>. QED
      BY <2>1, <1>n, <1>a, <3>1 DEF ClaimInv
  <2>6. \A x \in Editors : At(x, "updating")' => Owned(co[x].env)'
    BY <2>1 DEF ClaimInv, At, Owned
  <2>. QED
    BY <2>1, <2>2, <2>3, <2>4, <2>5, <2>6 DEF ClaimInv
<1>20. CASE Restart
  <2>1. boot' = "recover" /\ UNCHANGED <<claim, next>> /\ \A a \in Actors : co'[a].pc = "idle"
    BY <1>20 DEF Restart, Idle, claims
  <2>2. \A n : Owned(n)'
    BY <2>1 DEF Owned
  <2>3. \A c \in Creators : co'[c].pc \notin Busy /\ co'[c].pc \notin Unclaimed
    BY <2>1, <1>a DEF Busy, Unclaimed
  <2>. QED
    BY <2>1, <2>2, <2>3 DEF ClaimInv, Owned
<1>21. CASE RecoverEnds
  <2>1. boot' = "claims" /\ UNCHANGED <<cached, claim, next, co>>
    BY <1>21 DEF RecoverEnds, table, claims
  <2>2. \A n : Owned(n)'
    BY <2>1 DEF Owned
  <2>. QED
    BY <2>1, <2>2 DEF ClaimInv, At, Owned
<1>22. CASE UNCHANGED vars
  BY <1>22 DEF vars, table, claims, process, ClaimInv, Owned, At
<1>23. CASE RecoverClaims
  <2>1. PICK F \in SUBSET Pending :
          /\ failed' = failed \cup F
          /\ claim' = [n \in Env |-> IF n \in Pending \ F
                                     THEN [claim[n] EXCEPT !.state = Settled(n)] ELSE claim[n]]
    BY <1>23 DEF RecoverClaims
  <2>2. UNCHANGED <<cached, next, co>>
    BY <1>23 DEF RecoverClaims, table
  <2>3. \A n \in cached : claim'[n].state = "pending" => n \in failed'
    BY <2>1 DEF Pending, Settled, TypeOK
  <2>4. \A n \in cached : Owned(n)'
    BY <2>3 DEF Owned
  <2>5. \A n \in Env : claim[n].state = "none" => claim'[n].state = "none"
    BY <2>1 DEF Pending
  <2>6. \A a \in Adders : co[a].pc = "idle"
    BY <1>23 DEF RecoverClaims, StartInv, QuietInv, At
  <2>7. /\ \A x \in Editors : co[x].pc # "updating"
        /\ \A c \in Creators : co[c].pc \notin Busy /\ co[c].pc \notin Unclaimed
    BY <2>6 DEF Adders, Busy, Unclaimed
  <2>. QED
    BY <2>2, <2>4, <2>5, <2>7 DEF ClaimInv, At
<1>. QED
  BY <1>1, <1>2, <1>3, <1>4, <1>5, <1>6, <1>7, <1>8, <1>9, <1>10, <1>11, <1>12, <1>13, <1>14,
     <1>15, <1>16, <1>17, <1>18, <1>19, <1>20, <1>21, <1>22, <1>23
  DEF Next

LEMMA ClaimInit == Init => ClaimInv
BY DEF Init, ClaimInv, Owned, NoClaim, Idle, At, Busy, Unclaimed, Actors, Adders

\* No crash, failed creation or failed settlement leaves a pending claim in the
\* pool that nobody will settle: PendingHasTask.
THEOREM ClaimsAreSettled == Spec => []PendingHasTask
<1>1. TypeOK /\ ClaimInv => PendingHasTask
  BY DEF ClaimInv, Owned, PendingHasTask, Pending
<1>. QED
  BY <1>1, ClaimInit, ClaimNext, TypeCorrect, StartCorrect, PTL DEF Spec

-----------------------------------------------------------------------------
(* The quota.                                                              *)

\* Who may put an environment into the pool again, with which environments,
\* and who has read the quota without counting against it yet.
Returners == {a \in Adders : co[a].pc \in {"creating", "opening", "updating"}}
Returning == {co[a].env : a \in Returners}
Waiting == {a \in Adders : co[a].pc = "runtime"}

\* The environments that are in the pool or on their way back.
Near == (cached \cup Returning) \ imported

QuotaInv == Cardinality(Near) + Cardinality(Waiting) <= Max + Cardinality(Adders) - 1

LEMMA Finite ==
  /\ IsFiniteSet(Adders) /\ Cardinality(Adders) \in Nat /\ Cardinality(Adders) > 0
  /\ IsFiniteSet(Env)
<1>1. IsFiniteSet(Tasks) /\ IsFiniteSet(Windows) /\ IsFiniteSet(Editors)
  BY StockAssumption
<1>2. IsFiniteSet(Creators)
  BY <1>1, FS_Union DEF Creators
<1>3. IsFiniteSet(Adders)
  BY <1>1, <1>2, FS_Union DEF Adders
<1>4. Cardinality(Adders) \in Nat /\ Cardinality(Adders) # 0
  BY <1>3, StockAssumption, FS_CardinalityType, FS_EmptySet
<1>5. IsFiniteSet(Env)
  BY StockAssumption, FS_Interval DEF Env
<1>. QED
  BY <1>3, <1>4, <1>5

LEMMA SubsetSize ==
  ASSUME NEW S, NEW T, IsFiniteSet(T), S \subseteq T
  PROVE  /\ IsFiniteSet(S) /\ Cardinality(S) \in Nat /\ Cardinality(T) \in Nat
         /\ Cardinality(S) <= Cardinality(T)
BY FS_Subset, FS_CardinalityType

LEMMA NearFinite ==
  ASSUME TypeOK
  PROVE  /\ IsFiniteSet(Near) /\ Cardinality(Near) \in Nat
         /\ IsFiniteSet(Waiting) /\ Cardinality(Waiting) \in Nat
         /\ IsFiniteSet(cached) /\ Cardinality(cached) \in Nat
<1>1. Near \subseteq Env /\ Waiting \subseteq Adders /\ cached \subseteq Env
  BY DEF Near, Returning, Returners, Waiting, TypeOK, Actors
<1>. QED
  BY <1>1, Finite, SubsetSize

\* The returning coroutines bring back one environment each.
LEMMA ReturningSize ==
  ASSUME TypeOK
  PROVE  IsFiniteSet(Returning) /\ Cardinality(Returning) <= Cardinality(Returners)
         /\ Cardinality(Returning) \in Nat
<1>. DEFINE f == [a \in Returners |-> co[a].env]
<1>1. f \in Surjection(Returners, Returning)
  BY DEF Surjection, Returning
<1>2. IsFiniteSet(Returners)
  BY Finite, SubsetSize DEF Returners
<1>. QED
  BY <1>1, <1>2, FS_Surjection, FS_CardinalityType

\* Whoever finds room in the pool adds at most one to what the others may.
LEMMA RoomFact ==
  ASSUME TypeOK, CanCreate, NEW c \in Adders, At(c, "idle")
  PROVE  Cardinality(Near) + Cardinality(Waiting) + 1 <= Max + Cardinality(Adders) - 1
<1>1. /\ IsFiniteSet(Returners) /\ Cardinality(Returners) \in Nat
      /\ IsFiniteSet(Waiting) /\ Cardinality(Waiting) \in Nat
  BY Finite, SubsetSize DEF Returners, Waiting
<1>2. Cardinality(Near) <= Cardinality(cached) + Cardinality(Returning)
  <2>1. IsFiniteSet(cached \cup Returning)
        /\ Cardinality(cached \cup Returning)
             = Cardinality(cached) + Cardinality(Returning) - Cardinality(cached \cap Returning)
    BY NearFinite, ReturningSize, FS_Union
  <2>2. Cardinality(cached \cap Returning) \in Nat
    BY NearFinite, SubsetSize
  <2>3. Cardinality(Near) <= Cardinality(cached \cup Returning)
    BY <2>1, SubsetSize DEF Near
  <2>. QED
    BY <2>1, <2>2, <2>3, NearFinite, ReturningSize
<1>3. Cardinality(Returners) + Cardinality(Waiting) <= Cardinality(Adders) - 1
  <2>1. Returners \cap Waiting = {} /\ (Returners \cup Waiting) \subseteq Adders \ {c}
    BY DEF Returners, Waiting, At
  <2>2. Cardinality(Returners \cup Waiting) = Cardinality(Returners) + Cardinality(Waiting)
    <3>1. Cardinality(Returners \cap Waiting) = 0
      BY <2>1, FS_EmptySet
    <3>2. Cardinality(Returners \cup Waiting)
            = Cardinality(Returners) + Cardinality(Waiting) - Cardinality(Returners \cap Waiting)
      BY <1>1, FS_Union
    <3>. QED
      BY <1>1, <3>1, <3>2
  <2>3. IsFiniteSet(Adders \ {c}) /\ Cardinality(Adders \ {c}) = Cardinality(Adders) - 1
    BY Finite, FS_RemoveElement
  <2>. QED
    BY <1>1, <2>1, <2>2, <2>3, SubsetSize
<1>4. Cardinality(cached) < Max /\ Max \in Nat
  BY StockAssumption DEF CanCreate
<1>. QED
  BY <1>1, <1>2, <1>3, <1>4, NearFinite, ReturningSize, Finite

\* A step that adds nobody.
LEMMA QuotaShrinks ==
  ASSUME TypeOK, TypeOK', QuotaInv, Near' \subseteq Near, Waiting' \subseteq Waiting
  PROVE  QuotaInv'
<1>1. Cardinality(Near') <= Cardinality(Near) /\ Cardinality(Waiting') <= Cardinality(Waiting)
      /\ Cardinality(Near') \in Nat /\ Cardinality(Waiting') \in Nat
      /\ Cardinality(Near) \in Nat /\ Cardinality(Waiting) \in Nat
  BY NearFinite, SubsetSize
<1>2. Max \in Nat /\ Cardinality(Adders) \in Nat
  BY StockAssumption, Finite
<1>. QED
  BY <1>1, <1>2 DEF QuotaInv

\* A step of one actor whose place is not one to return from or wait at, or
\* that returns with the same environment.
LEMMA OneMoves ==
  ASSUME TypeOK, TypeOK', QuotaInv, NEW a \in Actors,
         \A b \in Actors \ {a} : co'[b] = co[b],
         cached' \subseteq cached \cup Returning, imported \subseteq imported',
         a \in Adders =>
           /\ co'[a].pc # "runtime"
           /\ co'[a].pc \in {"creating", "opening", "updating"} => co'[a].env \in cached \cup Returning
  PROVE  QuotaInv'
<1>1. Adders \subseteq Actors
  BY DEF Actors
<1>2. Waiting' \subseteq Waiting
  BY <1>1 DEF Waiting
<1>3. Returning' \subseteq cached \cup Returning
  <2>1. ASSUME NEW b \in Adders, co'[b].pc \in {"creating", "opening", "updating"}
        PROVE  co'[b].env \in cached \cup Returning
    <3>1. CASE b = a
      BY <2>1, <3>1
    <3>2. CASE b # a
      BY <1>1, <2>1, <3>2 DEF Returning, Returners
    <3>. QED
      BY <3>1, <3>2
  <2>. QED
    BY <2>1 DEF Returning, Returners
<1>. QED
  BY <1>2, <1>3, QuotaShrinks DEF Near

LEMMA ReserveCounts ==
  ASSUME TypeOK, TypeOK', NEW c \in Adders, Reserve(c),
         Cardinality(Near) + 1 + Cardinality(Waiting \ {c}) <= Max + Cardinality(Adders) - 1
  PROVE  QuotaInv'
<1>1. /\ co'[c].pc = "creating" /\ co'[c].env = next /\ cached' = cached \cup {next}
      /\ imported' = imported /\ \A b \in Adders \ {c} : co'[b] = co[b]
  BY DEF Reserve, TypeOK, Actors
<1>2. Waiting' \subseteq Waiting \ {c}
  BY <1>1 DEF Waiting
<1>3. Near' \subseteq Near \cup {next}
  BY <1>1 DEF Near, Returning, Returners
<1>4. /\ Cardinality(Near') <= Cardinality(Near \cup {next})
      /\ Cardinality(Near \cup {next}) <= Cardinality(Near) + 1
      /\ Cardinality(Near \cup {next}) \in Nat /\ Cardinality(Near') \in Nat
  <2>1. IsFiniteSet(Near) /\ Cardinality(Near) \in Nat
    BY NearFinite
  <2>2. IsFiniteSet(Near \cup {next})
        /\ Cardinality(Near \cup {next})
             = IF next \in Near THEN Cardinality(Near) ELSE Cardinality(Near) + 1
    BY <2>1, FS_AddElement
  <2>3. Cardinality(Near') <= Cardinality(Near \cup {next})
        /\ Cardinality(Near \cup {next}) \in Nat /\ Cardinality(Near') \in Nat
    BY <1>3, <2>2, SubsetSize
  <2>. QED
    BY <2>1, <2>2, <2>3
<1>5. /\ Cardinality(Waiting') <= Cardinality(Waiting \ {c})
      /\ Cardinality(Waiting \ {c}) \in Nat /\ Cardinality(Waiting') \in Nat
  <2>1. IsFiniteSet(Waiting \ {c})
    BY NearFinite, FS_RemoveElement
  <2>. QED
    BY <1>2, <2>1, SubsetSize
<1>6. Cardinality(Near) \in Nat
      /\ Max \in Nat /\ Cardinality(Adders) \in Nat
  BY NearFinite, StockAssumption, Finite
<1>. QED
  BY <1>4, <1>5, <1>6 DEF QuotaInv

LEMMA DestroyCounts ==
  ASSUME TypeOK, TypeOK', QuotaInv, NEW a \in Actors, NEW n, Destroy(a, n)
  PROVE  QuotaInv'
<1>1. imported' = imported /\ cached' \subseteq cached
  BY DEF Destroy, Remove, table
<1>2. co'[a].pc \in {"idle", "destroying"} /\ \A b \in Actors \ {a} : co'[b] = co[b]
  <2>1. CASE Finish(a)
    BY <2>1, GotoFact
  <2>2. CASE ~Finish(a)
    BY <2>2 DEF Destroy, TypeOK
  <2>. QED
    BY <2>1, <2>2
<1>. QED
  BY <1>1, <1>2, OneMoves

LEMMA QuotaNext == TypeOK /\ TypeOK' /\ RowsCached /\ QuotaInv /\ [Next]_vars => QuotaInv'
<1>. SUFFICES ASSUME TypeOK, TypeOK', RowsCached, QuotaInv, [Next]_vars PROVE QuotaInv'
  OBVIOUS
<1>a. /\ \A c \in Creators : c \in Actors /\ c \in Adders
      /\ \A x \in Editors : x \in Actors /\ x \in Adders
      /\ \A t \in Tasks : t \in Creators
      /\ \A w \in Windows : w \in Creators
      /\ \A d \in Destroyers : d \in Actors
      /\ Gc \in Actors
  BY DEF Actors, Adders, Creators
<1>0. CASE UNCHANGED <<cached, co>> /\ imported \subseteq imported'
  BY <1>0, QuotaShrinks DEF Near, Returning, Returners, Waiting
<1>1. ASSUME NEW t \in Tasks, TaskCreates(t) PROVE QuotaInv'
  <2>1. t \in Adders /\ At(t, "idle") /\ CanCreate /\ Reserve(t)
    BY <1>1, <1>a DEF TaskCreates
  <2>2. Cardinality(Near) + Cardinality(Waiting) + 1 <= Max + Cardinality(Adders) - 1
    BY <2>1, RoomFact
  <2>3. Waiting \ {t} = Waiting
    BY <2>1 DEF Waiting, At
  <2>. QED
    BY <2>1, <2>2, <2>3, NearFinite, ReserveCounts
<1>2. ASSUME NEW t \in Tasks, Claims(t) PROVE QuotaInv'
  <2>1. co'[t].pc = "running" /\ \A b \in Actors \ {t} : co'[b] = co[b]
    BY <1>2, <1>a, GotoFact DEF Claims
  <2>2. UNCHANGED <<cached, imported>>
    BY <1>2 DEF Claims, table
  <2>. QED
    BY <1>a, <2>1, <2>2, OneMoves
<1>3. ASSUME NEW t \in Tasks, Refers(t) PROVE QuotaInv'
  BY <1>3, <1>0 DEF Refers, table
<1>4. ASSUME NEW t \in Tasks, TaskEnds(t) PROVE QuotaInv'
  <2>1. co'[t].pc = "idle" /\ \A b \in Actors \ {t} : co'[b] = co[b]
    BY <1>4, <1>a, GotoFact DEF TaskEnds
  <2>2. UNCHANGED <<cached, imported>>
    BY <1>4 DEF TaskEnds, table
  <2>. QED
    BY <1>a, <2>1, <2>2, OneMoves
<1>5. ASSUME NEW w \in Windows, WindowChecks(w) PROVE QuotaInv'
  <2>1. w \in Adders /\ At(w, "idle") /\ CanCreate
    BY <1>5, <1>a DEF WindowChecks
  <2>2. Cardinality(Near) + Cardinality(Waiting) + 1 <= Max + Cardinality(Adders) - 1
    BY <2>1, RoomFact
  <2>3. /\ co'[w].pc = "runtime" /\ \A b \in Actors \ {w} : co'[b] = co[b]
        /\ UNCHANGED <<cached, imported>>
    BY <1>5, <1>a, GotoFact DEF WindowChecks, table
  <2>4. Waiting' \subseteq Waiting \cup {w} /\ Near' = Near
    BY <2>1, <2>3 DEF Waiting, Near, Returning, Returners, At, Actors
  <2>5. Cardinality(Waiting') <= Cardinality(Waiting) + 1 /\ Cardinality(Waiting') \in Nat
    <3>1. IsFiniteSet(Waiting \cup {w})
          /\ Cardinality(Waiting \cup {w})
               = IF w \in Waiting THEN Cardinality(Waiting) ELSE Cardinality(Waiting) + 1
      BY NearFinite, FS_AddElement
    <3>2. Cardinality(Waiting') <= Cardinality(Waiting \cup {w})
          /\ Cardinality(Waiting') \in Nat /\ Cardinality(Waiting \cup {w}) \in Nat
      BY <2>4, <3>1, SubsetSize
    <3>. QED
      BY <3>1, <3>2, NearFinite
  <2>6. Cardinality(Near') = Cardinality(Near)
    BY <2>4
  <2>7. Cardinality(Near) \in Nat /\ Cardinality(Waiting) \in Nat
        /\ Cardinality(Adders) \in Nat /\ Max \in Nat
    BY NearFinite, Finite, StockAssumption
  <2>. QED
    BY <2>2, <2>5, <2>6, <2>7 DEF QuotaInv
<1>6. ASSUME NEW w \in Windows, WindowCreates(w) PROVE QuotaInv'
  <2>1. w \in Adders /\ w \in Waiting /\ Reserve(w)
    BY <1>6, <1>a DEF WindowCreates, Waiting, At
  <2>2. Cardinality(Waiting \ {w}) = Cardinality(Waiting) - 1
    BY <2>1, NearFinite, FS_RemoveElement
  <2>3. Cardinality(Near) + 1 + Cardinality(Waiting \ {w}) <= Max + Cardinality(Adders) - 1
    BY <2>2, NearFinite, Finite, StockAssumption DEF QuotaInv
  <2>. QED
    BY <2>1, <2>3, ReserveCounts
<1>7. ASSUME NEW w \in Windows, RuntimeFails(w) PROVE QuotaInv'
  <2>1. co'[w].pc = "idle" /\ \A b \in Actors \ {w} : co'[b] = co[b]
    BY <1>7, <1>a, GotoFact DEF RuntimeFails
  <2>2. UNCHANGED <<cached, imported>>
    BY <1>7 DEF RuntimeFails, table
  <2>. QED
    BY <1>a, <2>1, <2>2, OneMoves
<1>8. ASSUME NEW c \in Creators, Created(c) \/ Opened(c) PROVE QuotaInv'
  <2>1. c \in Returners /\ co[c].env \in Returning
    BY <1>8, <1>a DEF Created, Opened, At, Returners, Returning
  <2>2. /\ co'[c].pc # "runtime" /\ \A b \in Actors \ {c} : co'[b] = co[b]
        /\ co'[c].pc \in {"creating", "opening", "updating"} => co'[c].env = co[c].env
    BY <1>8, <1>a, GotoFact DEF Created, Opened
  <2>3. imported' = imported /\ cached' = cached \cup {co[c].env}
    BY <1>8 DEF Created, Opened
  <2>. QED
    BY <1>a, <2>1, <2>2, <2>3, OneMoves
<1>9. ASSUME NEW c \in Creators, CreateFails(c) \/ OpenFails(c) PROVE QuotaInv'
  <2>1. co'[c].pc = "undo" /\ \A b \in Actors \ {c} : co'[b] = co[b]
    BY <1>9, <1>a, GotoFact DEF CreateFails, OpenFails
  <2>2. UNCHANGED <<cached, imported>>
    BY <1>9 DEF CreateFails, OpenFails, table
  <2>. QED
    BY <1>a, <2>1, <2>2, OneMoves
<1>10. ASSUME NEW c \in Creators, Undo(c) PROVE QuotaInv'
  BY <1>10, <1>a, DestroyCounts DEF Undo
<1>11. ASSUME NEW d \in Destroyers, NEW n \in Env, UserDestroys(d, n) PROVE QuotaInv'
  BY <1>11, <1>a, DestroyCounts DEF UserDestroys
<1>12. ASSUME NEW n \in Env, GcDestroys(n) PROVE QuotaInv'
  BY <1>12, <1>a, DestroyCounts DEF GcDestroys
<1>13. ASSUME NEW n \in Env, RecoverOne(n) PROVE QuotaInv'
  BY <1>13, <1>a, <1>0, DestroyCounts DEF RecoverOne, table
<1>14. ASSUME NEW n \in Env, EditPool(n) \/ Sync(n) PROVE QuotaInv'
  BY <1>14, <1>0 DEF EditPool, Sync, table
<1>15. ASSUME NEW a \in Actors, Destroyed(a) \/ DestroyFails(a) PROVE QuotaInv'
  <2>1. co'[a].pc = "idle" /\ \A b \in Actors \ {a} : co'[b] = co[b]
    BY <1>15, GotoFact DEF Destroyed, DestroyFails
  <2>2. imported' = imported /\ cached' \subseteq cached
    BY <1>15 DEF Destroyed, DestroyFails, Remove
  <2>. QED
    BY <2>1, <2>2, OneMoves
<1>16. ASSUME NEW x \in Editors, EditEnds(x) \/ EditFails(x) PROVE QuotaInv'
  <2>1. co[x].env \in Returning
    BY <1>16, <1>a DEF EditEnds, EditFails, At, Returners, Returning
  <2>2. co'[x].pc = "idle" /\ \A b \in Actors \ {x} : co'[b] = co[b]
    BY <1>16, <1>a, GotoFact DEF EditEnds, EditFails
  <2>3. imported' = imported /\ cached' \subseteq cached \cup {co[x].env}
    BY <1>16 DEF EditEnds, EditFails, table
  <2>. QED
    BY <1>a, <2>1, <2>2, <2>3, OneMoves
<1>17. ASSUME NEW x \in Editors, NEW n \in Env, NEW e \in Addr, EditBegins(x, n, e)
       PROVE  QuotaInv'
  <2>1. /\ n \in cached /\ UNCHANGED <<cached, imported>>
        /\ co'[x].pc = "updating" /\ co'[x].env = n /\ \A b \in Actors \ {x} : co'[b] = co[b]
    BY <1>17, <1>a DEF EditBegins, TypeOK, table
  <2>. QED
    BY <1>a, <2>1, OneMoves
<1>18. ASSUME NEW e \in Addr, NEW s, SetEntry(e, s) PROVE QuotaInv'
  BY <1>18, <1>0 DEF SetEntry, table
<1>19. CASE Import
  <2>1. cached' = cached \cup {next} /\ imported' = imported \cup {next} /\ co' = co
    BY <1>19 DEF Import
  <2>2. Near' \subseteq Near /\ Waiting' = Waiting
    BY <2>1 DEF Near, Returning, Returners, Waiting
  <2>. QED
    BY <2>2, QuotaShrinks
<1>20. CASE Restart
  <2>1. imported' = imported /\ cached' = row /\ \A a \in Adders : co'[a].pc = "idle"
    BY <1>20, <1>a DEF Restart, Idle, Actors
  <2>2. Returning' = {} /\ Waiting' = {}
    BY <2>1 DEF Returning, Returners, Waiting
  <2>. QED
    BY <2>1, <2>2, QuotaShrinks DEF Near, RowsCached
<1>21. CASE RecoverEnds \/ RecoverClaims \/ UNCHANGED vars
  BY <1>21, <1>0 DEF RecoverEnds, RecoverClaims, vars, table
<1>. QED
  BY <1>1, <1>2, <1>3, <1>4, <1>5, <1>6, <1>7, <1>8, <1>9, <1>10, <1>11, <1>12, <1>13, <1>14,
     <1>15, <1>16, <1>17, <1>18, <1>19, <1>20, <1>21
  DEF Next

LEMMA QuotaInit == Init => QuotaInv
<1>. SUFFICES ASSUME Init PROVE QuotaInv
  OBVIOUS
<1>1. Near = {} /\ Waiting = {}
  BY DEF Init, Near, Returning, Returners, Waiting, Idle, Actors, Adders
<1>2. Cardinality({}) = 0 /\ Max \in Nat
  BY FS_EmptySet, StockAssumption
<1>. QED
  BY <1>1, <1>2, Finite DEF QuotaInv

\* Creations and edits in progress pass the quota by at most one each, and one
\* of them finds room: QuotaOvershoot.
THEOREM QuotaHolds == Spec => []QuotaOvershoot
<1>1. TypeOK /\ QuotaInv => QuotaOvershoot
  <2>. SUFFICES ASSUME TypeOK, QuotaInv PROVE QuotaOvershoot
    OBVIOUS
  <2>1. cached \ imported \subseteq Near
    BY DEF Near
  <2>2. Cardinality(cached \ imported) <= Cardinality(Near)
        /\ Cardinality(cached \ imported) \in Nat
    BY <2>1, NearFinite, SubsetSize
  <2>. QED
    BY <2>2, NearFinite, Finite, StockAssumption DEF QuotaInv, QuotaOvershoot
<1>. QED
  BY <1>1, QuotaInit, QuotaNext, TypeCorrect, RowsInPool, PTL DEF Spec

===============================================================================
