-------------------------- MODULE ImportQueue_proofs --------------------------
(***************************************************************************)
(* Proofs about ImportQueue, for any number of environments, calls and     *)
(* targets.                                                                *)
(***************************************************************************)
EXTENDS ImportQueue, FiniteSetTheorems, TLAPS

-----------------------------------------------------------------------------
(* Type correctness, with what the calls own.                              *)

RowStatus == Active \cup Terminal \cup {"none", "deleted"}
QueueType ==
  [pc : {"idle", "importing", "counting", "dispatching", "marking", "polling", "ended"},
   envs : SUBSET Env, todo : SUBSET Env, batch : SUBSET Env, now : SUBSET Env,
   target : Targets \cup {1}, first : BOOLEAN]

\* A call works on environments of its own, which it has imported once it
\* counts; before its first batch none of them has a task, and no environment
\* has one that no call has asked for.
CallInv ==
  /\ \A i \in Import : /\ q[i].todo \subseteq q[i].envs
                       /\ q[i].batch \subseteq q[i].envs
                       /\ q[i].now \subseteq q[i].envs
  /\ \A i \in Import : q[i].pc = "idle" => q[i].envs = {}
  /\ \A i \in Import : q[i].pc = "importing" => q[i].todo = q[i].envs
  /\ \A i \in Import : q[i].pc \in {"importing", "counting"} /\ q[i].first =>
                         \A e \in q[i].envs : row[e] = "none"
  /\ \A i \in Import : q[i].pc \in {"counting", "dispatching", "marking", "polling"} =>
                         q[i].envs \subseteq taken
  /\ \A i \in Import : q[i].pc \in {"idle", "importing"} => q[i].first
  /\ \A i \in Import : q[i].pc = "polling" => ~q[i].first
  /\ \A i, k \in Import : i # k => q[i].envs \cap q[k].envs = {}
  /\ \A e \in Env : row[e] # "none" => \E i \in Import : e \in q[i].envs
  /\ once + others <= MaxTarget

TypeInv == TypeOK /\ CallInv

LEMMA ActiveFact ==
  /\ \A S \in SUBSET Env : ActiveOf(S) \in Nat /\ IsFiniteSet({e \in S : row[e] \in Active})
  /\ \A S \in SUBSET Env : ActiveOf(S) <= ActiveOf(Env)
<1>1. ASSUME NEW S \in SUBSET Env
      PROVE  /\ IsFiniteSet({e \in S : row[e] \in Active})
             /\ ActiveOf(S) \in Nat
             /\ ActiveOf(S) <= ActiveOf(Env)
  <2>1. {e \in Env : row[e] \in Active} \subseteq Env
    OBVIOUS
  <2>2. IsFiniteSet({e \in Env : row[e] \in Active})
    BY <2>1, ImportAssumption, FS_Subset
  <2>3. {e \in S : row[e] \in Active} \subseteq {e \in Env : row[e] \in Active}
    OBVIOUS
  <2>4. IsFiniteSet({e \in S : row[e] \in Active})
        /\ Cardinality({e \in S : row[e] \in Active}) <= Cardinality({e \in Env : row[e] \in Active})
    BY <2>2, <2>3, FS_Subset
  <2>. QED
    BY <2>4, FS_CardinalityType DEF ActiveOf
<1>. QED
  BY <1>1

LEMMA TargetFact == Targets \subseteq Nat /\ \A t \in Targets : 1 <= t /\ t <= MaxTarget
BY ImportAssumption

\* A step of one call that owns nothing new, and gives a task to an environment
\* of its own at most, when it dispatches.
LEMMA CallMoves ==
  ASSUME TypeInv, NEW i \in Import, NEW r \in QueueType, q' = [q EXCEPT ![i] = r],
         UNCHANGED <<once, others>>, taken \subseteq taken',
         \A e \in Env : row'[e] = row[e]
                         \/ (e \in q[i].envs /\ r.pc \notin {"importing", "counting"}),
         q[i].pc # "idle", r.pc \notin {"idle", "importing"} \/ r.pc = q[i].pc,
         r.envs = q[i].envs, r.todo \subseteq r.envs, r.batch \subseteq r.envs,
         r.now \subseteq r.envs, r.first => q[i].first,
         r.pc = "importing" => r.todo = q[i].todo /\ r.first = q[i].first,
         r.pc = "counting" => ~r.first \/ q[i].pc = "importing",
         r.pc = "polling" => ~r.first,
         r.pc \in {"counting", "dispatching", "marking", "polling"} => r.envs \subseteq taken'
  PROVE  CallInv'
<1>1. q'[i] = r /\ \A k \in Import \ {i} : q'[k] = q[k]
  BY DEF TypeInv, TypeOK
<1>2. \A k \in Import : q'[k].envs = q[k].envs
  BY <1>1
<1>3. \A k \in Import : /\ q'[k].todo \subseteq q'[k].envs
                        /\ q'[k].batch \subseteq q'[k].envs
                        /\ q'[k].now \subseteq q'[k].envs
  BY <1>1 DEF TypeInv, CallInv
<1>4. \A k \in Import : q'[k].pc = "idle" => q'[k].envs = {}
  BY <1>1 DEF TypeInv, CallInv
<1>5. \A k \in Import : q'[k].pc = "importing" => q'[k].todo = q'[k].envs
  BY <1>1 DEF TypeInv, CallInv
<1>6. \A k \in Import : q'[k].pc \in {"importing", "counting"} /\ q'[k].first =>
                         \A e \in q'[k].envs : row'[e] = "none"
  <2>1. SUFFICES ASSUME NEW k \in Import, q'[k].pc \in {"importing", "counting"}, q'[k].first,
                        NEW e \in q'[k].envs
                 PROVE  row'[e] = "none"
    OBVIOUS
  <2>2. q[k].envs \subseteq Env /\ e \in q[k].envs
    BY <1>2, <2>1 DEF TypeInv, TypeOK
  <2>3. q[k].pc \in {"importing", "counting"} /\ q[k].first
    BY <1>1, <2>1 DEF TypeInv, CallInv
  <2>4. row[e] = "none"
    BY <2>2, <2>3 DEF TypeInv, CallInv
  <2>5. k # i => e \notin q[i].envs
    BY <2>2 DEF TypeInv, CallInv
  <2>. QED
    BY <1>1, <2>1, <2>2, <2>4, <2>5
<1>7. \A k \in Import : q'[k].pc \in {"counting", "dispatching", "marking", "polling"} =>
                         q'[k].envs \subseteq taken'
  BY <1>1 DEF TypeInv, CallInv
<1>8. \A k \in Import : q'[k].pc \in {"idle", "importing"} => q'[k].first
  BY <1>1 DEF TypeInv, CallInv
<1>12. \A k \in Import : q'[k].pc = "polling" => ~q'[k].first
  BY <1>1 DEF TypeInv, CallInv
<1>9. \A j, k \in Import : j # k => q'[j].envs \cap q'[k].envs = {}
  BY <1>2 DEF TypeInv, CallInv
<1>10. \A e \in Env : row'[e] # "none" => \E k \in Import : e \in q'[k].envs
  <2>1. \A e \in Env : row[e] # "none" => \E k \in Import : e \in q[k].envs
    BY DEF TypeInv, CallInv
  <2>. QED
    BY <1>2, <2>1
<1>11. once' + others' <= MaxTarget
  BY DEF TypeInv, CallInv
<1>. QED
  BY <1>3, <1>4, <1>5, <1>6, <1>7, <1>8, <1>9, <1>10, <1>11, <1>12 DEF CallInv

\* The same step keeps the types when the rest of the state is well-formed.
LEMMA CallStep ==
  ASSUME TypeInv, NEW i \in Import, NEW r \in QueueType, q' = [q EXCEPT ![i] = r],
         UNCHANGED <<job, row, loop, others, stop, once, deleting, taken>>,
         mark' \in [Env -> Terminal \cup {"none", "running"}],
         watch' \subseteq taken, lost' \subseteq taken,
         q[i].pc \notin {"idle", "importing"}, r.pc \notin {"idle", "importing"},
         r.envs = q[i].envs, r.todo \subseteq q[i].todo, r.now \subseteq q[i].now,
         r.batch \subseteq q[i].batch \cup q[i].todo, r.first => q[i].first,
         r.pc = "counting" => ~r.first, r.pc = "polling" => ~r.first,
         q[i].envs \subseteq taken
  PROVE  TypeInv'
<1>1. r.todo \subseteq r.envs /\ r.batch \subseteq r.envs /\ r.now \subseteq r.envs
  BY DEF TypeInv, CallInv
<1>2. CallInv'
  BY <1>1, CallMoves
<1>3. q' \in [Import -> QueueType]
  BY DEF TypeInv, TypeOK, QueueType
<1>4. TypeOK'
  BY <1>3 DEF TypeInv, TypeOK, QueueType
<1>. QED
  BY <1>2, <1>4 DEF TypeInv

\* A step of a task, of the user or of the end of the process.
LEMMA RowMoves ==
  ASSUME TypeInv, UNCHANGED <<q, taken>>, once' + others' <= MaxTarget,
         \A e \in Env : row'[e] = "none" <=> row[e] = "none"
  PROVE  CallInv'
<1>1. \A i \in Import : q[i].envs \subseteq Env
  BY DEF TypeInv, TypeOK
<1>2. \A i \in Import : q[i].pc \in {"importing", "counting"} /\ q[i].first =>
                         \A e \in q[i].envs : row'[e] = "none"
  BY <1>1 DEF TypeInv, CallInv
<1>3. \A e \in Env : row'[e] # "none" => \E i \in Import : e \in q[i].envs
  BY DEF TypeInv, CallInv
<1>. QED
  BY <1>2, <1>3 DEF TypeInv, CallInv

LEMMA TypeInit == Init => TypeInv
<1>. SUFFICES ASSUME Init PROVE TypeInv
  OBVIOUS
<1>1. NoQueue \in QueueType
  BY DEF NoQueue, QueueType
<1>2. q \in [Import -> QueueType]
  BY <1>1 DEF Init
<1>3. TypeOK
  <2>1. job \in [there : BOOLEAN, valid : BOOLEAN, target : Targets]
    BY DEF Init
  <2>2. others \in 0..MaxTarget /\ once \in 0..MaxTarget
    BY ImportAssumption DEF Init
  <2>3. row \in [Env -> RowStatus] /\ mark \in [Env -> Terminal \cup {"none", "running"}]
    BY DEF Init, RowStatus
  <2>. QED
    BY <1>2, <2>1, <2>2, <2>3 DEF Init, TypeOK, QueueType, RowStatus
<1>4. CallInv
  BY ImportAssumption DEF Init, CallInv, NoQueue
<1>. QED
  BY <1>3, <1>4 DEF TypeInv

LEMMA TypeNext == TypeInv /\ [Next]_vars => TypeInv'
<1>. SUFFICES ASSUME TypeInv, [Next]_vars PROVE TypeInv'
  OBVIOUS
<1>t. TypeOK /\ CallInv
  BY DEF TypeInv
<1>q. q \in [Import -> QueueType] /\ row \in [Env -> RowStatus]
  BY <1>t DEF TypeOK, QueueType, RowStatus
<1>w. /\ watch \subseteq taken /\ lost \subseteq taken
      /\ mark \in [Env -> Terminal \cup {"none", "running"}]
  BY <1>t DEF TypeOK
<1>j. /\ job \in [there : BOOLEAN, valid : BOOLEAN, target : Targets]
      /\ job.target \in Targets
  BY <1>t DEF TypeOK
<1>g. ASSUME NEW i \in Import, NEW pc \in {"counting", "ended", "polling"}
      PROVE  [q[i] EXCEPT !.pc = pc] \in QueueType
  BY <1>q DEF QueueType
<1>1. ASSUME NEW i \in Import, StartImport(i) PROVE TypeInv'
  <2>1. PICK S \in SUBSET (Env \ UNION {q[k].envs : k \in Import}) :
          q' = [q EXCEPT ![i] = [q[i] EXCEPT !.pc = "importing", !.envs = S, !.todo = S,
                                             !.target = job.target]]
    BY <1>1 DEF StartImport
  <2>2. UNCHANGED <<job, row, loop, others, stop, mark, watch, taken, lost, once, deleting>>
    BY <1>1 DEF StartImport, tasks, host, user
  <2>3. q[i].pc = "idle" /\ q[i].first /\ q[i].envs = {}
    BY <1>1, <1>t DEF StartImport, At, CallInv
  <2>. DEFINE r == [q[i] EXCEPT !.pc = "importing", !.envs = S, !.todo = S,
                                !.target = job.target]
  <2>4. r \in QueueType /\ r.envs = S /\ r.todo = S /\ r.pc = "importing" /\ r.first = q[i].first
        /\ r.batch = q[i].batch /\ r.now = q[i].now
    <3>1. q[i] \in QueueType /\ S \in SUBSET Env
      BY <1>q
    <3>. QED
      BY <3>1, <1>j DEF QueueType
  <2>. HIDE DEF r
  <2>5. q'[i] = r /\ \A k \in Import \ {i} : q'[k] = q[k]
    BY <2>1, <1>q DEF r
  <2>6. q' \in [Import -> QueueType]
    BY <2>1, <2>4, <1>q DEF r
  <2>7. TypeOK'
    BY <1>t, <2>2, <2>6 DEF TypeOK, QueueType
  <2>8. \A e \in S : row[e] = "none"
    BY <1>t DEF CallInv
  <2>9. \A k \in Import \ {i} : S \cap q[k].envs = {}
    OBVIOUS
  <2>10. q[i].batch = {} /\ q[i].now = {}
    BY <1>t, <2>3 DEF CallInv
  <2>11. \A k \in Import : q[k].envs \subseteq q'[k].envs
    BY <2>3, <2>5
  <2>12. \A e \in Env : row'[e] # "none" => \E k \in Import : e \in q'[k].envs
    BY <1>t, <2>2, <2>11 DEF CallInv
  <2>13. \A j, k \in Import : j # k => q'[j].envs \cap q'[k].envs = {}
    BY <1>t, <2>4, <2>5, <2>9 DEF CallInv
  <2>14. \A k \in Import : /\ q'[k].todo \subseteq q'[k].envs
                           /\ q'[k].batch \subseteq q'[k].envs
                           /\ q'[k].now \subseteq q'[k].envs
    BY <1>t, <2>4, <2>5, <2>10 DEF CallInv
  <2>15. \A k \in Import : q'[k].pc \in {"importing", "counting"} /\ q'[k].first =>
                             \A e \in q'[k].envs : row'[e] = "none"
    BY <1>t, <2>2, <2>4, <2>5, <2>8 DEF CallInv
  <2>16. \A k \in Import : q'[k].pc = "idle" => q'[k].envs = {}
    BY <1>t, <2>4, <2>5 DEF CallInv
  <2>17. \A k \in Import : q'[k].pc = "importing" => q'[k].todo = q'[k].envs
    BY <1>t, <2>4, <2>5 DEF CallInv
  <2>18. \A k \in Import : q'[k].pc \in {"counting", "dispatching", "marking", "polling"} =>
                              q'[k].envs \subseteq taken'
    BY <1>t, <2>2, <2>4, <2>5 DEF CallInv
  <2>19. \A k \in Import : q'[k].pc \in {"idle", "importing"} => q'[k].first
    BY <1>t, <2>3, <2>4, <2>5 DEF CallInv
  <2>20. once' + others' <= MaxTarget
    BY <1>t, <2>2 DEF CallInv
  <2>21. \A k \in Import : q'[k].pc = "polling" => ~q'[k].first
    BY <1>t, <2>4, <2>5 DEF CallInv
  <2>. QED
    BY <2>21, <2>7, <2>12, <2>13, <2>14, <2>15, <2>16, <2>17, <2>18, <2>19, <2>20 DEF TypeInv, CallInv
<1>2. ASSUME NEW i \in Import, ImportEnv(i) PROVE TypeInv'
  <2>1. q[i].pc = "importing" /\ q[i].todo = q[i].envs
        /\ UNCHANGED <<job, row, loop, others, stop, mark, watch, once, deleting>>
    BY <1>2, <1>t DEF ImportEnv, At, tasks, user, CallInv
  <2>2. ASSUME NEW e \in q[i].todo \ taken, taken' = taken \cup {e}, UNCHANGED lost,
               Goto(i, IF q[i].todo \subseteq taken' THEN "counting" ELSE "importing")
        PROVE  TypeInv'
    <3>1. e \in Env
      BY <1>q DEF QueueType
    <3>. DEFINE pc == IF q[i].todo \subseteq taken' THEN "counting" ELSE "importing"
                r == [q[i] EXCEPT !.pc = pc]
    <3>2. r \in QueueType /\ q' = [q EXCEPT ![i] = r]
      BY <2>2, <1>q DEF Goto, QueueType
    <3>3. r.envs = q[i].envs /\ r.todo = q[i].todo /\ r.batch = q[i].batch /\ r.now = q[i].now
          /\ r.first = q[i].first /\ r.pc = pc
      BY <1>q DEF QueueType
    <3>4. r.todo \subseteq r.envs /\ r.batch \subseteq r.envs /\ r.now \subseteq r.envs
      BY <1>t, <3>3 DEF CallInv
    <3>5. pc = "counting" => q[i].envs \subseteq taken'
      BY <2>1
    <3>6. pc \in {"counting", "importing"}
      OBVIOUS
    <3>. HIDE DEF r, pc
    <3>7. CallInv'
      BY <2>1, <2>2, <3>2, <3>3, <3>4, <3>5, <3>6, CallMoves
    <3>8. q' \in [Import -> QueueType]
      BY <3>2, <1>q
    <3>9. TypeOK'
      BY <1>t, <2>1, <2>2, <3>1, <3>8 DEF TypeOK, QueueType
    <3>. QED
      BY <3>7, <3>9 DEF TypeInv
  <2>3. CASE GivesUp(i, q[i].todo) /\ UNCHANGED taken
    <3>. DEFINE r == [q[i] EXCEPT !.pc = "ended"]
    <3>1. q' = [q EXCEPT ![i] = r] /\ lost' \subseteq lost \cup taken /\ r \in QueueType
      BY <2>3, <1>g DEF GivesUp, Goto
    <3>2. r.envs = q[i].envs /\ r.todo = q[i].todo /\ r.batch = q[i].batch /\ r.now = q[i].now
          /\ r.first = q[i].first /\ r.pc = "ended"
      BY <1>q DEF QueueType
    <3>3. r.todo \subseteq r.envs /\ r.batch \subseteq r.envs /\ r.now \subseteq r.envs
      BY <1>t, <3>2 DEF CallInv
    <3>. HIDE DEF r
    <3>4. CallInv'
      BY <2>1, <2>3, <3>1, <3>2, <3>3, CallMoves
    <3>5. q' \in [Import -> QueueType]
      BY <3>1, <1>q
    <3>6. TypeOK'
      BY <1>t, <2>1, <2>3, <3>1, <3>5 DEF TypeOK, QueueType
    <3>. QED
      BY <3>4, <3>6 DEF TypeInv
  <2>. QED
    BY <1>2, <2>2, <2>3 DEF ImportEnv
<1>3. ASSUME NEW i \in Import, Count(i) PROVE TypeInv'
  <2>1. q[i].pc = "counting" /\ UNCHANGED <<job, tasks, host, user>>
        /\ q[i].envs \subseteq taken
    BY <1>3, <1>t DEF Count, At, CallInv
  <2>2. CASE Slots(i) = 0 /\ ~q[i].first
    <3>. DEFINE r == [q[i] EXCEPT !.pc = "polling"]
    <3>1. q' = [q EXCEPT ![i] = r] /\ r \in QueueType
      BY <1>3, <1>g, <2>2 DEF Count, Goto
    <3>2. r.envs = q[i].envs /\ r.todo = q[i].todo /\ r.batch = q[i].batch /\ r.now = q[i].now
          /\ r.first = q[i].first /\ r.pc = "polling"
      BY <1>q DEF QueueType
    <3>. HIDE DEF r
    <3>. QED
      BY <1>t, <1>w, <2>1, <2>2, <3>1, <3>2, CallStep DEF CallInv, tasks, host, user
  <2>3. CASE ~(Slots(i) = 0 /\ ~q[i].first)
    <3>1. PICK B \in SUBSET q[i].todo :
            q' = [q EXCEPT ![i] = [@ EXCEPT !.pc = "dispatching", !.batch = B,
                                            !.todo = q[i].todo \ B]]
      BY <1>3, <2>3 DEF Count, kSubset
    <3>. DEFINE r == [q[i] EXCEPT !.pc = "dispatching", !.batch = B, !.todo = q[i].todo \ B]
    <3>2. q[i] \in QueueType /\ q[i].todo \subseteq Env
      BY <1>q DEF QueueType
    <3>3. r \in QueueType
      BY <3>2 DEF QueueType
    <3>4. r.envs = q[i].envs /\ r.todo \subseteq q[i].todo /\ r.batch \subseteq q[i].todo
          /\ r.now = q[i].now /\ r.first = q[i].first /\ r.pc = "dispatching"
      BY <3>2 DEF QueueType
    <3>5. q' = [q EXCEPT ![i] = r]
      BY <3>1
    <3>. HIDE DEF r
    <3>. QED
      BY <1>t, <1>w, <2>1, <3>3, <3>4, <3>5, CallStep DEF CallInv, tasks, host, user
  <2>. QED
    BY <2>2, <2>3
<1>4. ASSUME NEW i \in Import, Dispatch(i) PROVE TypeInv'
  <2>1. PICK e \in q[i].batch :
          /\ row' = [row EXCEPT ![e] = "pending"] /\ loop' = loop \cup {e}
          /\ q' = [q EXCEPT ![i] = [@ EXCEPT !.pc = "marking", !.batch = q[i].batch \ {e},
                                             !.now = {e}]]
    BY <1>4 DEF Dispatch
  <2>2. q[i].pc = "dispatching" /\ UNCHANGED <<job, others, stop, host, user>>
        /\ q[i].envs \subseteq taken /\ e \in q[i].envs /\ e \in Env
    BY <1>4, <1>t, <2>1 DEF Dispatch, At, CallInv, TypeOK
  <2>. DEFINE r == [q[i] EXCEPT !.pc = "marking", !.batch = q[i].batch \ {e}, !.now = {e}]
  <2>3. q[i] \in QueueType
    BY <1>q
  <2>4. r \in QueueType
    BY <2>2, <2>3 DEF QueueType
  <2>5. r.envs = q[i].envs /\ r.todo = q[i].todo /\ r.batch \subseteq q[i].batch
        /\ r.now = {e} /\ r.first = q[i].first /\ r.pc = "marking"
    BY <2>3 DEF QueueType
  <2>6. q' = [q EXCEPT ![i] = r]
    BY <2>1
  <2>7. row' \in [Env -> RowStatus] /\ \A f \in Env : row'[f] = row[f] \/ f = e
    BY <1>q, <2>1 DEF RowStatus, Active
  <2>. HIDE DEF r
  <2>8. /\ r.todo \subseteq r.envs
        /\ r.batch \subseteq r.envs
        /\ r.now \subseteq r.envs
    BY <1>t, <2>2, <2>5 DEF CallInv
  <2>9. \A f \in Env : row'[f] = row[f] \/ (f \in q[i].envs /\ r.pc \notin {"importing", "counting"})
    BY <2>2, <2>5, <2>7
  <2>10. UNCHANGED <<once, others, taken, watch, lost>>
    BY <2>2 DEF host, user
  <2>11. CallInv'
    BY <1>t, <2>2, <2>4, <2>5, <2>6, <2>8, <2>9, <2>10, CallMoves
  <2>12. q' \in [Import -> QueueType] /\ loop' \subseteq Env
    BY <1>q, <1>t, <2>1, <2>2, <2>4, <2>6 DEF TypeOK
  <2>13. TypeOK'
    BY <1>t, <2>2, <2>7, <2>12 DEF TypeOK, QueueType, RowStatus, host, user
  <2>. QED
    BY <2>11, <2>13 DEF TypeInv
<1>5. ASSUME NEW i \in Import, DispatchFails(i) PROVE TypeInv'
  <2>1. PICK e \in q[i].batch, m \in {"failed", "none"} :
          /\ mark' = [mark EXCEPT ![e] = m]
          /\ IF q[i].first
             THEN GivesUp(i, q[i].todo \cup (IF m = "failed" THEN q[i].batch \ {e} ELSE q[i].batch))
             ELSE /\ q' = [q EXCEPT ![i] = [q[i] EXCEPT !.batch = q[i].batch \ {e}]]
                  /\ lost' = IF m = "failed" THEN lost ELSE lost \cup {e}
    BY <1>5 DEF DispatchFails
  <2>2. q[i].pc = "dispatching" /\ UNCHANGED <<job, tasks, watch, taken, user>>
        /\ q[i].envs \subseteq taken /\ e \in taken /\ e \in Env
    BY <1>5, <1>t, <2>1 DEF DispatchFails, At, CallInv, TypeOK
  <2>3. mark' \in [Env -> Terminal \cup {"none", "running"}] /\ q[i] \in QueueType
    BY <1>q, <1>t, <2>1 DEF TypeOK, Terminal
  <2>4. lost' \subseteq lost \cup taken
    BY <2>1, <2>2 DEF GivesUp
  <2>5. CASE q[i].first
    <3>. DEFINE r == [q[i] EXCEPT !.pc = "ended"]
    <3>1. q' = [q EXCEPT ![i] = r] /\ r \in QueueType
      BY <1>g, <2>1, <2>5 DEF GivesUp, Goto
    <3>2. r.envs = q[i].envs /\ r.todo = q[i].todo /\ r.batch = q[i].batch /\ r.now = q[i].now
          /\ r.first = q[i].first /\ r.pc = "ended"
      BY <2>3 DEF QueueType
    <3>. HIDE DEF r
    <3>. QED
      BY <1>t, <1>w, <2>2, <2>3, <2>4, <3>1, <3>2, CallStep DEF CallInv, tasks, user
  <2>6. CASE ~q[i].first
    <3>. DEFINE r == [q[i] EXCEPT !.batch = q[i].batch \ {e}]
    <3>1. q' = [q EXCEPT ![i] = r] /\ r \in QueueType
      BY <2>1, <2>3, <2>6 DEF QueueType
    <3>2. r.envs = q[i].envs /\ r.todo = q[i].todo /\ r.batch \subseteq q[i].batch
          /\ r.now = q[i].now /\ r.first = q[i].first /\ r.pc = q[i].pc
      BY <2>3 DEF QueueType
    <3>. HIDE DEF r
    <3>. QED
      BY <1>t, <1>w, <2>2, <2>3, <2>4, <3>1, <3>2, CallStep DEF CallInv, tasks, user
  <2>. QED
    BY <2>5, <2>6
<1>6. ASSUME NEW i \in Import, MarkRunning(i) PROVE TypeInv'
  <2>1. PICK e \in q[i].now :
          \/ /\ mark' = [mark EXCEPT ![e] = "running"] /\ watch' = watch \cup {e}
             /\ q' = [q EXCEPT ![i] = [q[i] EXCEPT !.pc = "dispatching", !.now = {}]]
             /\ UNCHANGED lost
          \/ /\ IF q[i].first
                THEN GivesUp(i, q[i].todo \cup q[i].batch \cup {e})
                ELSE /\ q' = [q EXCEPT ![i] = [q[i] EXCEPT !.pc = "dispatching", !.now = {}]]
                     /\ lost' = lost \cup {e}
             /\ UNCHANGED <<mark, watch>>
    BY <1>6 DEF MarkRunning
  <2>2. q[i].pc = "marking" /\ UNCHANGED <<job, tasks, taken, user>>
        /\ q[i].envs \subseteq taken /\ e \in taken /\ e \in Env
    BY <1>6, <1>t, <2>1 DEF MarkRunning, At, CallInv, TypeOK
  <2>3. mark' \in [Env -> Terminal \cup {"none", "running"}] /\ watch' \subseteq watch \cup {e}
        /\ q[i] \in QueueType /\ lost' \subseteq lost \cup taken
    BY <1>q, <1>t, <2>1, <2>2 DEF TypeOK, GivesUp
  <2>6. watch' \subseteq taken /\ lost' \subseteq taken
    BY <1>w, <2>2, <2>3
  <2>4. CASE q' = [q EXCEPT ![i] = [q[i] EXCEPT !.pc = "ended"]]
    <3>. DEFINE r == [q[i] EXCEPT !.pc = "ended"]
    <3>1. q' = [q EXCEPT ![i] = r] /\ r \in QueueType
      BY <1>g, <2>4
    <3>2. r.envs = q[i].envs /\ r.todo = q[i].todo /\ r.batch = q[i].batch /\ r.now = q[i].now
          /\ r.first = q[i].first /\ r.pc = "ended"
      BY <2>3 DEF QueueType
    <3>. HIDE DEF r
    <3>. QED
      BY <1>t, <2>2, <2>3, <2>6, <3>1, <3>2, CallStep DEF CallInv, tasks, user
  <2>5. CASE q' = [q EXCEPT ![i] = [q[i] EXCEPT !.pc = "dispatching", !.now = {}]]
    <3>. DEFINE r == [q[i] EXCEPT !.pc = "dispatching", !.now = {}]
    <3>1. q' = [q EXCEPT ![i] = r] /\ r \in QueueType
      BY <2>3, <2>5 DEF QueueType
    <3>2. r.envs = q[i].envs /\ r.todo = q[i].todo /\ r.batch = q[i].batch
          /\ r.now = {} /\ r.first = q[i].first /\ r.pc = "dispatching"
      BY <2>3 DEF QueueType
    <3>. HIDE DEF r
    <3>. QED
      BY <1>t, <2>2, <2>3, <2>6, <3>1, <3>2, CallStep DEF CallInv, tasks, user
  <2>. QED
    BY <2>1, <2>4, <2>5 DEF GivesUp, Goto
<1>7. ASSUME NEW i \in Import, BatchDone(i) PROVE TypeInv'
  <2>1. q[i].pc = "dispatching" /\ UNCHANGED <<job, tasks, host, user>> /\ q[i] \in QueueType
        /\ q[i].envs \subseteq taken
    BY <1>7, <1>q, <1>t DEF BatchDone, At, CallInv
  <2>2. CASE q[i].todo = {}
    <3>. DEFINE r == [q[i] EXCEPT !.pc = "ended"]
    <3>1. q' = [q EXCEPT ![i] = r] /\ r \in QueueType
      BY <1>7, <1>g, <2>2 DEF BatchDone, Goto
    <3>2. r.envs = q[i].envs /\ r.todo = q[i].todo /\ r.batch = q[i].batch /\ r.now = q[i].now
          /\ r.first = q[i].first /\ r.pc = "ended"
      BY <2>1 DEF QueueType
    <3>. HIDE DEF r
    <3>. QED
      BY <1>t, <1>w, <2>1, <3>1, <3>2, CallStep DEF CallInv, tasks, host, user
  <2>3. CASE q[i].todo # {}
    <3>. DEFINE r == [q[i] EXCEPT !.pc = "polling", !.first = FALSE]
    <3>1. q' = [q EXCEPT ![i] = r]
      BY <1>7, <2>3 DEF BatchDone
    <3>2. r \in QueueType
      BY <2>1 DEF QueueType
    <3>3. r.envs = q[i].envs /\ r.todo = q[i].todo /\ r.batch = q[i].batch /\ r.now = q[i].now
          /\ ~r.first /\ r.pc = "polling"
      BY <2>1 DEF QueueType
    <3>. HIDE DEF r
    <3>. QED
      BY <1>t, <1>w, <2>1, <3>1, <3>2, <3>3, CallStep DEF CallInv, tasks, host, user
  <2>. QED
    BY <2>2, <2>3
<1>8. ASSUME NEW i \in Import, Poll(i) PROVE TypeInv'
  <2>1. q[i].pc = "polling" /\ UNCHANGED <<job, tasks, mark, watch, taken, user>>
        /\ q[i] \in QueueType /\ ~q[i].first /\ q[i].envs \subseteq taken
    BY <1>8, <1>q, <1>t DEF Poll, At, CallInv
  <2>2. CASE job.there /\ job.valid
    <3>. DEFINE r == [q[i] EXCEPT !.pc = "counting", !.target = job.target]
    <3>1. q' = [q EXCEPT ![i] = r] /\ lost' = lost
      BY <1>8, <2>2 DEF Poll
    <3>2. r \in QueueType
      BY <1>j, <2>1 DEF QueueType
    <3>3. r.envs = q[i].envs /\ r.todo = q[i].todo /\ r.batch = q[i].batch /\ r.now = q[i].now
          /\ r.first = q[i].first /\ r.pc = "counting"
      BY <2>1 DEF QueueType
    <3>. HIDE DEF r
    <3>. QED
      BY <1>t, <1>w, <2>1, <3>1, <3>2, <3>3, CallStep DEF CallInv, tasks, user
  <2>3. CASE ~(job.there /\ job.valid)
    <3>. DEFINE r == [q[i] EXCEPT !.pc = "ended"]
    <3>1. q' = [q EXCEPT ![i] = r] /\ r \in QueueType /\ lost' \subseteq lost \cup taken
      BY <1>8, <1>g, <2>3 DEF Poll, GivesUp, Goto
    <3>2. r.envs = q[i].envs /\ r.todo = q[i].todo /\ r.batch = q[i].batch /\ r.now = q[i].now
          /\ r.first = q[i].first /\ r.pc = "ended"
      BY <2>1 DEF QueueType
    <3>. HIDE DEF r
    <3>. QED
      BY <1>t, <1>w, <2>1, <3>1, <3>2, CallStep DEF CallInv, tasks, user
  <2>. QED
    BY <2>2, <2>3
<1>9. ASSUME NEW e \in Env, Task(e) PROVE TypeInv'
  <2>1. UNCHANGED <<job, others, host, q, user>> /\ loop' \subseteq loop /\ stop' \in BOOLEAN
    BY <1>9, <1>t DEF Task, TaskStarts, TaskEnds, LoopEnds, TypeOK
  <2>2. row' \in [Env -> RowStatus] /\ \A f \in Env : row'[f] = "none" <=> row[f] = "none"
    BY <1>9, <1>q DEF Task, TaskStarts, TaskEnds, LoopEnds, RowStatus, Active, Terminal
  <2>3. CallInv'
    BY <1>t, <2>1, <2>2, RowMoves DEF CallInv, host, user
  <2>4. TypeOK'
    BY <1>t, <2>1, <2>2 DEF TypeOK, RowStatus, host, user
  <2>. QED
    BY <2>3, <2>4 DEF TypeInv
<1>10. ASSUME NEW e \in Env, Watch(e) PROVE TypeInv'
  <2>1. UNCHANGED <<job, tasks, taken, q, user>> /\ watch' \subseteq watch /\ e \in taken
        /\ lost' \subseteq lost \cup {e}
    BY <1>10, <1>t DEF Watch, TypeOK
  <2>2. mark' \in [Env -> Terminal \cup {"none", "running"}]
    BY <1>10, <1>t DEF Watch, TypeOK
  <2>3. CallInv'
    BY <1>t, <2>1, RowMoves DEF CallInv, tasks, user
  <2>4. TypeOK'
    BY <1>t, <2>1, <2>2 DEF TypeOK, tasks, user
  <2>. QED
    BY <2>3, <2>4 DEF TypeInv
<1>11. CASE OtherEnds
  <2>1. UNCHANGED <<job, row, loop, host, q, user>> /\ others' = others - 1 /\ others > 0
        /\ stop' \in BOOLEAN
    BY <1>11, <1>t DEF OtherEnds, TypeOK
  <2>2. others' \in 0..MaxTarget /\ once' + others' <= MaxTarget
    BY <1>t, <2>1, ImportAssumption DEF TypeOK, CallInv, user
  <2>3. CallInv'
    BY <2>1, <2>2, RowMoves DEF host
  <2>4. TypeOK'
    BY <1>t, <2>1, <2>2 DEF TypeOK, host, user
  <2>. QED
    BY <2>3, <2>4 DEF TypeInv
<1>12. CASE RunOnce
  <2>1. UNCHANGED <<job, tasks, host, q, deleting>> /\ once' = job.target
    BY <1>12 DEF RunOnce
  <2>2. others = 0
    <3>1. ActiveOf(Env) \in Nat
      BY ActiveFact
    <3>2. ActiveOf(Env) + others = 0
      BY <1>12 DEF RunOnce, ActiveTasks
    <3>3. others \in 0..MaxTarget
      BY <1>t DEF TypeOK
    <3>. QED
      BY <3>1, <3>2, <3>3
  <2>3. once' \in 0..MaxTarget /\ once' + others' <= MaxTarget
    BY <1>j, <2>1, <2>2, ImportAssumption DEF tasks
  <2>4. CallInv'
    BY <2>1, <2>3, RowMoves DEF host, tasks
  <2>5. TypeOK'
    BY <1>t, <2>1, <2>3 DEF TypeOK, host, tasks
  <2>. QED
    BY <2>4, <2>5 DEF TypeInv
<1>13. CASE RunOnceDispatches
  <2>1. UNCHANGED <<job, row, loop, stop, host, q, deleting>>
    BY <1>13 DEF RunOnceDispatches
  <2>2. once' \in 0..MaxTarget /\ others' \in 0..MaxTarget /\ once' + others' <= MaxTarget
    BY <1>13, <1>t, ImportAssumption DEF RunOnceDispatches, TypeOK, CallInv
  <2>3. CallInv'
    BY <2>1, <2>2, RowMoves DEF host
  <2>4. TypeOK'
    BY <1>t, <2>1, <2>2 DEF TypeOK, host
  <2>. QED
    BY <2>3, <2>4 DEF TypeInv
<1>14. CASE StopOnce \/ DeleteBegins \/ DeleteWaits
  <2>1. /\ UNCHANGED <<job, row, loop, others, host, q, once>> /\ stop' \in BOOLEAN
        /\ deleting' \in {"no", "waiting", "rows"}
    BY <1>14, <1>t DEF StopOnce, DeleteBegins, DeleteWaits, tasks, user, TypeOK
  <2>2. CallInv'
    BY <1>t, <2>1, RowMoves DEF CallInv, host
  <2>3. TypeOK'
    BY <1>t, <2>1 DEF TypeOK, host
  <2>. QED
    BY <2>2, <2>3 DEF TypeInv
<1>15. CASE Edit
  <2>1. UNCHANGED <<tasks, host, q, user>>
    BY <1>15 DEF Edit
  <2>2. job' \in [there : BOOLEAN, valid : BOOLEAN, target : Targets]
    <3>1. PICK t \in Targets, v \in BOOLEAN : job' = [job EXCEPT !.target = t, !.valid = v]
      BY <1>15 DEF Edit
    <3>. QED
      BY <1>j, <3>1
  <2>3. CallInv'
    BY <1>t, <2>1, RowMoves DEF CallInv, tasks, host, user
  <2>4. TypeOK'
    BY <1>t, <2>1, <2>2 DEF TypeOK, tasks, host, user
  <2>. QED
    BY <2>3, <2>4 DEF TypeInv
<1>16. CASE DeleteRows
  <2>1. UNCHANGED <<loop, stop, mark, watch, taken, q, once>> /\ others' = 0 /\ deleting' = "no"
        /\ lost' \subseteq lost \cup taken
    BY <1>16 DEF DeleteRows
  <2>2. row' \in [Env -> RowStatus] /\ \A f \in Env : row'[f] = "none" <=> row[f] = "none"
    BY <1>16, <1>q DEF DeleteRows, RowStatus
  <2>3. job' \in [there : BOOLEAN, valid : BOOLEAN, target : Targets]
    BY <1>16, <1>j DEF DeleteRows
  <2>4. others' \in 0..MaxTarget /\ once' + others' <= MaxTarget
    BY <1>t, <2>1, ImportAssumption DEF TypeOK
  <2>5. CallInv'
    BY <2>1, <2>2, <2>4, RowMoves
  <2>6. TypeOK'
    BY <1>t, <2>1, <2>2, <2>3, <2>4 DEF TypeOK, RowStatus
  <2>. QED
    BY <2>5, <2>6 DEF TypeInv
<1>17. CASE Restart
  <2>1. UNCHANGED <<job, mark, taken>> /\ loop' = {} /\ others' = 0 /\ stop' = FALSE /\ watch' = {}
        /\ once' = 0 /\ deleting' = "no" /\ lost' \subseteq lost \cup taken
    BY <1>17 DEF Restart
  <2>2. row' \in [Env -> RowStatus] /\ \A f \in Env : row'[f] = "none" <=> row[f] = "none"
    BY <1>17, <1>q DEF Restart, RowStatus, Active, Terminal
  <2>3. \A i \in Import : /\ [q[i] EXCEPT !.pc = "ended"] \in QueueType
                          /\ q'[i] = IF q[i].pc = "idle" THEN q[i] ELSE [q[i] EXCEPT !.pc = "ended"]
    BY <1>17, <1>g, <1>q DEF Restart, At
  <2>4. q' \in [Import -> QueueType]
    BY <1>17, <1>q, <2>3 DEF Restart, At
  <2>5. \A i \in Import : /\ q'[i].envs = q[i].envs /\ q'[i].todo = q[i].todo
                          /\ q'[i].batch = q[i].batch /\ q'[i].now = q[i].now
                          /\ q'[i].first = q[i].first
                          /\ q'[i].pc \in {"idle", "ended"}
                          /\ (q'[i].pc = "idle" <=> q[i].pc = "idle")
    BY <2>3, <1>q DEF QueueType
  <2>6. \A e \in Env : row'[e] # "none" => \E i \in Import : e \in q'[i].envs
    BY <1>t, <2>2, <2>5 DEF CallInv
  <2>7. once' + others' <= MaxTarget /\ others' \in 0..MaxTarget /\ once' \in 0..MaxTarget
    BY <2>1, ImportAssumption
  <2>8. \A i \in Import : /\ q'[i].todo \subseteq q'[i].envs
                          /\ q'[i].batch \subseteq q'[i].envs
                          /\ q'[i].now \subseteq q'[i].envs
    BY <1>t, <2>5 DEF CallInv
  <2>9. \A i \in Import : q'[i].pc = "idle" => q'[i].envs = {} /\ q'[i].first
    BY <1>t, <2>5 DEF CallInv
  <2>10. \A i, k \in Import : i # k => q'[i].envs \cap q'[k].envs = {}
    BY <1>t, <2>5 DEF CallInv
  <2>11. CallInv'
    BY <2>5, <2>6, <2>7, <2>8, <2>9, <2>10 DEF CallInv
  <2>12. TypeOK'
    BY <1>t, <2>1, <2>2, <2>4, <2>7 DEF TypeOK, QueueType, RowStatus
  <2>. QED
    BY <2>11, <2>12 DEF TypeInv
<1>18. CASE UNCHANGED vars
  BY <1>18, <1>t DEF vars, tasks, host, user, TypeInv, TypeOK, CallInv
<1>. QED
  BY <1>1, <1>2, <1>3, <1>4, <1>5, <1>6, <1>7, <1>8, <1>9, <1>10, <1>11, <1>12, <1>13, <1>14,
     <1>15, <1>16, <1>17, <1>18
  DEF Next, Queue

THEOREM TypeCorrect == Spec => []TypeOK
<1>1. TypeInv => TypeOK
  BY DEF TypeInv
<1>. QED
  BY <1>1, TypeInit, TypeNext, PTL DEF Spec

-----------------------------------------------------------------------------
(* The target of one import.                                               *)

InBatch == {"dispatching", "marking"}

LEMMA EntryFact ==
  ASSUME TypeOK, NEW i \in Import
  PROVE  /\ q[i].envs \in SUBSET Env /\ q[i].todo \in SUBSET Env /\ q[i].batch \in SUBSET Env
         /\ q[i].target \in Nat /\ others \in Nat
<1>1. q \in [Import -> QueueType]
  BY DEF TypeOK, QueueType
<1>2. q[i] \in QueueType
  BY <1>1
<1>3. q[i].target \in Targets \cup {1} /\ q[i].envs \in SUBSET Env /\ q[i].todo \in SUBSET Env
      /\ q[i].batch \in SUBSET Env
  BY <1>2 DEF QueueType
<1>4. Targets \subseteq Nat /\ others \in Nat /\ 1 \in Nat
  BY ImportAssumption DEF TypeOK
<1>5. q[i].target \in Nat
  BY <1>3, <1>4
<1>. QED
  BY <1>3, <1>4, <1>5

LEMMA QuotaKept ==
  ASSUME TypeOK, ImportQuota, NEW i \in Import, q'[i].pc \in InBatch,
         q[i].pc \in InBatch, q'[i].envs = q[i].envs, q'[i].target = q[i].target,
         q'[i].batch \subseteq q[i].batch,
         \A e \in q[i].envs : row'[e] \in Active => row[e] \in Active
  PROVE  ActiveOf(q[i].envs)' + Cardinality(q[i].batch)' <= q[i].target'
<1>1. q[i].envs \in SUBSET Env /\ q[i].batch \in SUBSET Env /\ q[i].target \in Nat
  BY EntryFact
<1>2. ActiveOf(q[i].envs) + Cardinality(q[i].batch) <= q[i].target
  BY DEF ImportQuota, InBatch
<1>. DEFINE S == {e \in q[i].envs : row[e] \in Active}
            T == {e \in q[i].envs : row'[e] \in Active}
<1>3. IsFiniteSet(S) /\ Cardinality(S) \in Nat /\ ActiveOf(q[i].envs) = Cardinality(S)
  BY <1>1, ActiveFact DEF ActiveOf
<1>4. T \subseteq S /\ ActiveOf(q[i].envs)' = Cardinality(T)
  BY DEF ActiveOf
<1>5. Cardinality(T) <= Cardinality(S) /\ Cardinality(T) \in Nat
  <2>. HIDE DEF S, T
  <2>. QED
    BY <1>3, <1>4, FS_Subset, FS_CardinalityType
<1>6. Cardinality(q'[i].batch) <= Cardinality(q[i].batch) /\ Cardinality(q'[i].batch) \in Nat
      /\ Cardinality(q[i].batch) \in Nat
  <2>1. IsFiniteSet(q[i].batch)
    BY <1>1, ImportAssumption, FS_Subset
  <2>. QED
    BY <2>1, FS_Subset, FS_CardinalityType
<1>. HIDE DEF S, T
<1>. QED
  BY <1>1, <1>2, <1>3, <1>4, <1>5, <1>6

\* A call that is not in a batch after the step, or was and does not grow.
LEMMA QuotaQuiet ==
  ASSUME TypeInv, ImportQuota,
         \A k \in Import : q'[k].pc \in InBatch =>
           /\ q[k].pc \in InBatch
           /\ q'[k].envs = q[k].envs
           /\ q'[k].target = q[k].target
           /\ q'[k].batch \subseteq q[k].batch,
         \A e \in Env : row'[e] \in Active => row[e] \in Active
  PROVE  ImportQuota'
<1>1. \A k \in Import : q[k].envs \subseteq Env
  BY DEF TypeInv, TypeOK
<1>2. \A k \in Import : q'[k].pc \in InBatch =>
        ActiveOf(q[k].envs)' + Cardinality(q[k].batch)' <= q[k].target'
  BY <1>1, QuotaKept DEF TypeInv
<1>. QED
  BY <1>2 DEF ImportQuota, InBatch

LEMMA SlotsFact ==
  ASSUME TypeInv, NEW i \in Import, q[i].pc = "counting",
         NEW B \in kSubset(Min({Slots(i), Cardinality(q[i].todo)}), q[i].todo),
         ~(Slots(i) = 0 /\ ~q[i].first)
  PROVE  /\ B \subseteq q[i].todo
         /\ ActiveOf(q[i].envs) + Cardinality(B) <= q[i].target
<1>1. q[i].envs \in SUBSET Env /\ q[i].todo \in SUBSET Env /\ q[i].target \in Nat /\ others \in Nat
  BY EntryFact DEF TypeInv
<1>2. B \subseteq q[i].todo /\ Cardinality(B) = Min({Slots(i), Cardinality(q[i].todo)})
  BY DEF kSubset
<1>3. ActiveOf(q[i].envs) \in Nat /\ ActiveOf(Env) \in Nat /\ ActiveOf(q[i].envs) <= ActiveOf(Env)
  BY <1>1, ActiveFact
<1>4. Slots(i) \in Nat /\ (Slots(i) > 0 => Slots(i) = q[i].target - ActiveTasks)
      /\ ActiveTasks = ActiveOf(Env) + others
  BY <1>1, <1>3 DEF Slots, ActiveTasks
<1>5. Cardinality(q[i].todo) \in Nat
  BY <1>1, ImportAssumption, FS_Subset, FS_CardinalityType
<1>6. Cardinality(B) <= Slots(i) /\ Cardinality(B) \in Nat
  <2>1. \A a, b \in Nat : Min({a, b}) <= a /\ Min({a, b}) \in Nat
    <3>1. SUFFICES ASSUME NEW a \in Nat, NEW b \in Nat PROVE Min({a, b}) <= a /\ Min({a, b}) \in Nat
      OBVIOUS
    <3>2. \E x \in {a, b} : \A y \in {a, b} : x =< y
      BY <3>1
    <3>3. Min({a, b}) \in {a, b} /\ \A y \in {a, b} : Min({a, b}) =< y
      BY <3>2 DEF Min
    <3>. QED
      BY <3>1, <3>3
  <2>. QED
    BY <1>2, <1>4, <1>5, <2>1
<1>7. CASE Slots(i) > 0
  BY <1>1, <1>2, <1>3, <1>4, <1>6, <1>7
<1>8. CASE Slots(i) = 0
  <2>1. \A e \in q[i].envs : row[e] = "none"
    BY <1>8 DEF TypeInv, CallInv
  <2>2. {e \in q[i].envs : row[e] \in Active} = {}
    BY <2>1 DEF Active
  <2>3. ActiveOf(q[i].envs) = 0
    BY <2>2, FS_EmptySet DEF ActiveOf
  <2>. QED
    BY <1>1, <1>2, <1>6, <1>8, <2>3
<1>. QED
  BY <1>2, <1>4, <1>7, <1>8

LEMMA QuotaNext == TypeInv /\ ImportQuota /\ [Next]_vars => ImportQuota'
<1>. SUFFICES ASSUME TypeInv, ImportQuota, [Next]_vars PROVE ImportQuota'
  OBVIOUS
<1>t. TypeOK /\ CallInv
  BY DEF TypeInv
<1>q. q \in [Import -> QueueType]
  BY <1>t DEF TypeOK, QueueType
<1>0. CASE UNCHANGED <<q, row>>
  BY <1>0, QuotaQuiet
\* A call leaves its batch, or stays out of one.
<1>g. ASSUME NEW i \in Import, NEW r, q' = [q EXCEPT ![i] = r], UNCHANGED row, r.pc \notin InBatch
      PROVE  ImportQuota'
  BY <1>g, <1>q, QuotaQuiet
\* A call moves on in its batch.
<1>m. ASSUME NEW i \in Import, NEW r, q' = [q EXCEPT ![i] = r], UNCHANGED row,
             q[i].pc \in InBatch, r.envs = q[i].envs, r.target = q[i].target,
             r.batch \subseteq q[i].batch
      PROVE  ImportQuota'
  BY <1>m, <1>q, QuotaQuiet
<1>1. ASSUME NEW i \in Import, StartImport(i) PROVE ImportQuota'
  <2>1. PICK S : q' = [q EXCEPT ![i] = [q[i] EXCEPT !.pc = "importing", !.envs = S, !.todo = S,
                                                    !.target = job.target]]
    BY <1>1 DEF StartImport
  <2>2. [q[i] EXCEPT !.pc = "importing", !.envs = S, !.todo = S, !.target = job.target].pc
          = "importing"
    BY <1>q DEF QueueType
  <2>3. UNCHANGED row
    BY <1>1 DEF StartImport, tasks
  <2>. QED
    BY <1>g, <2>1, <2>2, <2>3 DEF InBatch
<1>p. ASSUME NEW i \in Import, NEW pc, Goto(i, pc), pc \notin InBatch, UNCHANGED row
      PROVE  ImportQuota'
  <2>1. q' = [q EXCEPT ![i] = [q[i] EXCEPT !.pc = pc]]
    BY <1>p DEF Goto
  <2>2. [q[i] EXCEPT !.pc = pc].pc = pc
    BY <1>q DEF QueueType
  <2>. QED
    BY <1>g, <1>p, <2>1, <2>2
<1>2. ASSUME NEW i \in Import, ImportEnv(i) PROVE ImportQuota'
  BY <1>2, <1>p DEF ImportEnv, GivesUp, tasks, InBatch
<1>3. ASSUME NEW i \in Import, Count(i) PROVE ImportQuota'
  <2>1. q[i].pc = "counting" /\ UNCHANGED row
    BY <1>3 DEF Count, At, tasks
  <2>2. CASE Slots(i) = 0 /\ ~q[i].first
    BY <1>3, <1>p, <2>1, <2>2 DEF Count, InBatch
  <2>3. CASE ~(Slots(i) = 0 /\ ~q[i].first)
    <3>1. PICK B \in kSubset(Min({Slots(i), Cardinality(q[i].todo)}), q[i].todo) :
            q' = [q EXCEPT ![i] = [@ EXCEPT !.pc = "dispatching", !.batch = B,
                                            !.todo = q[i].todo \ B]]
      BY <1>3, <2>3 DEF Count
    <3>2. /\ ActiveOf(q[i].envs) + Cardinality(B) <= q[i].target
      BY <2>1, <2>3, SlotsFact
    <3>3. /\ q'[i].envs = q[i].envs /\ q'[i].target = q[i].target /\ q'[i].batch = B
          /\ \A k \in Import \ {i} : q'[k] = q[k]
      BY <3>1, <1>q DEF QueueType
    <3>4. ActiveOf(q[i].envs)' = ActiveOf(q[i].envs)
      BY <2>1, <3>3 DEF ActiveOf
    <3>5. ActiveOf(q[i].envs)' + Cardinality(q[i].batch)' <= q[i].target'
      BY <3>2, <3>3, <3>4
    <3>6. ASSUME NEW k \in Import \ {i}, q'[k].pc \in InBatch
          PROVE  ActiveOf(q[k].envs)' + Cardinality(q[k].batch)' <= q[k].target'
      BY <1>t, <2>1, <3>3, <3>6, QuotaKept
    <3>. QED
      BY <3>5, <3>6 DEF ImportQuota, InBatch
  <2>. QED
    BY <2>2, <2>3
<1>4. ASSUME NEW i \in Import, Dispatch(i) PROVE ImportQuota'
  <2>1. PICK e \in q[i].batch :
          /\ row' = [row EXCEPT ![e] = "pending"]
          /\ q' = [q EXCEPT ![i] = [@ EXCEPT !.pc = "marking", !.batch = q[i].batch \ {e},
                                             !.now = {e}]]
    BY <1>4 DEF Dispatch
  <2>2. q[i].pc \in InBatch /\ e \in q[i].envs /\ e \in Env
    BY <1>4, <1>t, <2>1 DEF Dispatch, At, CallInv, TypeOK, InBatch
  <2>3. /\ q'[i].envs = q[i].envs /\ q'[i].target = q[i].target /\ q'[i].batch = q[i].batch \ {e}
        /\ \A k \in Import \ {i} : q'[k] = q[k]
    BY <2>1, <1>q DEF QueueType
  <2>4. \A f \in Env \ {e} : row'[f] = row[f]
    BY <1>t, <2>1 DEF TypeOK
  <2>5. ActiveOf(q[i].envs)' + Cardinality(q[i].batch)' <= q[i].target'
    <3>. DEFINE S == {f \in q[i].envs : row[f] \in Active}
                T == {f \in q[i].envs : row'[f] \in Active}
    <3>1. q[i].envs \in SUBSET Env /\ q[i].batch \in SUBSET Env /\ q[i].target \in Nat
      BY <1>t, EntryFact
    <3>2. IsFiniteSet(S) /\ Cardinality(S) \in Nat
          /\ Cardinality(S) + Cardinality(q[i].batch) <= q[i].target
      BY <2>2, <3>1, ActiveFact DEF ActiveOf, ImportQuota, InBatch
    <3>3. T \subseteq S \cup {e} /\ ActiveOf(q[i].envs)' = Cardinality(T)
      BY <2>3, <2>4, <3>1 DEF ActiveOf
    <3>4. IsFiniteSet(q[i].batch)
      BY <3>1, ImportAssumption, FS_Subset
    <3>5. Cardinality(q'[i].batch) = Cardinality(q[i].batch) - 1 /\ Cardinality(q[i].batch) \in Nat
      BY <2>1, <2>3, <3>4, FS_RemoveElement, FS_CardinalityType
    <3>. HIDE DEF S, T
    <3>6. IsFiniteSet(S \cup {e}) /\ Cardinality(S \cup {e}) \in Nat
          /\ Cardinality(S \cup {e}) <= Cardinality(S) + 1
      <4>1. /\ IsFiniteSet(S \cup {e})
            /\ Cardinality(S \cup {e}) =
                 IF e \in S THEN Cardinality(S) ELSE Cardinality(S) + 1
        BY <3>2, FS_AddElement
      <4>. QED
        BY <3>2, <4>1
    <3>7. Cardinality(T) <= Cardinality(S \cup {e}) /\ Cardinality(T) \in Nat
      BY <3>3, <3>6, FS_Subset, FS_CardinalityType
    <3>. QED
      BY <2>3, <3>1, <3>2, <3>3, <3>5, <3>6, <3>7
  <2>6. ASSUME NEW k \in Import \ {i}, q'[k].pc \in InBatch
        PROVE  ActiveOf(q[k].envs)' + Cardinality(q[k].batch)' <= q[k].target'
    <3>1. e \notin q[k].envs /\ q[k].envs \subseteq Env
      BY <1>t, <2>2 DEF CallInv, TypeOK
    <3>2. \A f \in q[k].envs : row'[f] = row[f]
      BY <2>4, <3>1
    <3>. QED
      BY <1>t, <2>3, <2>6, <3>2, QuotaKept
  <2>. QED
    BY <2>5, <2>6 DEF ImportQuota, InBatch
<1>5. ASSUME NEW i \in Import, DispatchFails(i) PROVE ImportQuota'
  <2>1. PICK e \in q[i].batch, m \in {"failed", "none"} :
          /\ mark' = [mark EXCEPT ![e] = m]
          /\ IF q[i].first
             THEN GivesUp(i, q[i].todo \cup (IF m = "failed" THEN q[i].batch \ {e} ELSE q[i].batch))
             ELSE /\ q' = [q EXCEPT ![i] = [q[i] EXCEPT !.batch = q[i].batch \ {e}]]
                  /\ lost' = IF m = "failed" THEN lost ELSE lost \cup {e}
    BY <1>5 DEF DispatchFails
  <2>2. UNCHANGED row /\ q[i].pc \in InBatch
    BY <1>5 DEF DispatchFails, tasks, At, InBatch
  <2>3. CASE q[i].first
    BY <1>p, <2>1, <2>2, <2>3 DEF GivesUp, InBatch
  <2>4. CASE ~q[i].first
    <3>. DEFINE r == [q[i] EXCEPT !.batch = q[i].batch \ {e}]
    <3>1. r.envs = q[i].envs /\ r.target = q[i].target /\ r.batch \subseteq q[i].batch
      BY <1>q DEF QueueType
    <3>2. q' = [q EXCEPT ![i] = r]
      BY <2>1, <2>4
    <3>. HIDE DEF r
    <3>. QED
      BY <1>m, <2>2, <3>1, <3>2
  <2>. QED
    BY <2>3, <2>4
<1>6. ASSUME NEW i \in Import, MarkRunning(i) PROVE ImportQuota'
  <2>1. UNCHANGED row /\ q[i].pc \in InBatch
    BY <1>6 DEF MarkRunning, tasks, At, InBatch
  <2>. DEFINE r == [q[i] EXCEPT !.pc = "dispatching", !.now = {}]
  <2>2. Goto(i, "ended") \/ q' = [q EXCEPT ![i] = r]
    BY <1>6 DEF MarkRunning, GivesUp
  <2>3. r.envs = q[i].envs /\ r.target = q[i].target /\ r.batch \subseteq q[i].batch
    BY <1>q DEF QueueType
  <2>. HIDE DEF r
  <2>. QED
    BY <1>m, <1>p, <2>1, <2>2, <2>3 DEF InBatch
<1>7. ASSUME NEW i \in Import, BatchDone(i) PROVE ImportQuota'
  <2>1. UNCHANGED row
    BY <1>7 DEF BatchDone, tasks
  <2>. DEFINE r == [q[i] EXCEPT !.pc = "polling", !.first = FALSE]
  <2>2. Goto(i, "ended") \/ q' = [q EXCEPT ![i] = r]
    BY <1>7 DEF BatchDone
  <2>3. r.pc = "polling"
    BY <1>q DEF QueueType
  <2>. HIDE DEF r
  <2>. QED
    BY <1>g, <1>p, <2>1, <2>2, <2>3 DEF InBatch
<1>8. ASSUME NEW i \in Import, Poll(i) PROVE ImportQuota'
  <2>1. UNCHANGED row
    BY <1>8 DEF Poll, tasks
  <2>. DEFINE r == [q[i] EXCEPT !.pc = "counting", !.target = job.target]
  <2>2. Goto(i, "ended") \/ q' = [q EXCEPT ![i] = r]
    BY <1>8 DEF Poll, GivesUp
  <2>3. r.pc = "counting"
    BY <1>q DEF QueueType
  <2>. HIDE DEF r
  <2>. QED
    BY <1>g, <1>p, <2>1, <2>2, <2>3 DEF InBatch
<1>9. ASSUME NEW e \in Env, Task(e) PROVE ImportQuota'
  <2>1. UNCHANGED q /\ \A f \in Env : row'[f] \in Active => row[f] \in Active
    BY <1>9, <1>t DEF Task, TaskStarts, TaskEnds, LoopEnds, Active, TypeOK
  <2>. QED
    BY <2>1, QuotaQuiet
<1>10. ASSUME NEW e \in Env, Watch(e) PROVE ImportQuota'
  BY <1>10, <1>0 DEF Watch, tasks
<1>11. CASE OtherEnds \/ RunOnce \/ RunOnceDispatches \/ StopOnce \/ DeleteBegins \/ DeleteWaits
            \/ Edit \/ UNCHANGED vars
  BY <1>11, <1>0
  DEF OtherEnds, RunOnce, RunOnceDispatches, StopOnce, DeleteBegins, DeleteWaits, Edit, vars, tasks
<1>12. CASE DeleteRows
  <2>1. UNCHANGED q /\ \A f \in Env : row'[f] \notin Active
    BY <1>12 DEF DeleteRows, Active
  <2>. QED
    BY <2>1, QuotaQuiet
<1>13. CASE Restart
  <2>1. \A f \in Env : row'[f] \notin Active
    BY <1>13 DEF Restart, Active
  <2>2. \A i \in Import : q'[i].pc \notin InBatch
    <3>1. \A i \in Import : [q[i] EXCEPT !.pc = "ended"].pc = "ended"
      BY <1>q DEF QueueType
    <3>. QED
      BY <1>13, <3>1 DEF Restart, At, InBatch
  <2>. QED
    BY <2>1, <2>2, QuotaQuiet
<1>. QED
  BY <1>1, <1>2, <1>3, <1>4, <1>5, <1>6, <1>7, <1>8, <1>9, <1>10, <1>11, <1>12, <1>13
  DEF Next, Queue

\* Whatever ends, is edited or dispatched after an import counted its free
\* slots, its tasks that run and those it dispatches fit in the target it read.
THEOREM ImportFits == Spec => []ImportQuota
<1>1. Init => ImportQuota
  BY DEF Init, ImportQuota, NoQueue
<1>. QED
  BY <1>1, TypeInit, TypeNext, QuotaNext, PTL DEF Spec

===============================================================================
