------------------------- MODULE BrowserWindows_proofs -------------------------
(* Proofs about BrowserWindows: the locks, the connections, the cookies and   *)
(* the reference count of the driver.                                         *)
EXTENDS BrowserWindows, FiniteSetTheorems, TLAPS

-----------------------------------------------------------------------------
(* The inductive invariant: first what is said of each environment alone.  *)

Closing == {"closing", "releasing", "stopping"}
Starting == {"opening", "launching", "writing", "connecting", "acquiring", "starting",
             "attaching"}
Statuses == {"creating", "ready", "busy", "running"}

\* Where an operation can be, who called it, and the status that a failure restores.
OpOk(e) ==
  /\ op[e].do = "none" => op[e].pc = "none" /\ op[e].by = "self"
  /\ op[e].do = "create" => op[e].pc = "asked"
  /\ op[e].do = "start" => op[e].pc \in {"asked", "closed"} \cup Starting \cup Closing
  /\ op[e].do \in {"stop", "recycle"} =>
       /\ op[e].pc \in {"asked", "opening", "closed", "waiting"} \cup Closing
       /\ op[e].pc = "opening" => e \in Bit
  /\ op[e].do = "destroy" => op[e].pc \in {"asked", "closed", "deleting"} \cup Closing
  /\ op[e].do = "ensure" => op[e].pc \in {"asked", "replacing", "verifying", "checking"}
  /\ op[e].do \in {"create", "destroy"} => op[e].by # "ensure"
  /\ op[e].do = "recycle" => op[e].by = "self"
  /\ op[e].do = "ensure" => op[e].by = "ensure"
  /\ op[e].by = "ensure" => e \notin Bit
  /\ op[e].do \in {"start", "stop", "recycle", "destroy"} /\ op[e].pc # "asked" =>
       op[e].was \in Statuses
  /\ op[e].do \in {"start", "stop", "recycle", "ensure"} => status[e] \in Statuses
  /\ op[e].do = "destroy" /\ op[e].pc = "asked" => status[e] \in Statuses
  /\ op[e].do = "create" => status[e] = "gone"

\* A live connection is to an open window and counts on the driver; safe_close
\* leaves neither connection nor reference.
PageOk(e) ==
  /\ page[e] = "live" => ref[e] /\ win[e]
  /\ op[e].pc \in {"releasing", "stopping", "closed", "waiting", "deleting"} => page[e] # "live"
  /\ op[e].pc \in {"closed", "waiting", "deleting"} => ~ref[e]
  /\ op[e].pc = "attaching" => ref[e]
  /\ status[e] = "gone" => ~ref[e]

\* Without cancellations a connection outlives its user only while stop closes it.
Bare(e) ==
  \/ status[e] = "ready" /\ ~(op[e].do = "stop" /\ op[e].pc = "closing")
  \/ op[e].do = "start" /\ op[e].was = "ready" /\ op[e].pc # "asked"

DetachOk(e) == cancels = 0 /\ e \notin Bit /\ Bare(e) => page[e] # "live"

\* From the moment ensure has seen its cookies in the profile, a window that
\* shows them has not lost them to the profile.
Seen(e) ==
  /\ op[e].by = "ensure"
  /\ op[e].do \in {"start", "stop"} \/ op[e].pc \in {"verifying", "checking"}

CookieOk(e) ==
  /\ e \in sure => kept[e] = "asked" /\ shown[e] = "asked" /\ page[e] = "live"
                 /\ op[e].do = "none"
  /\ Seen(e) /\ win[e] /\ shown[e] = "asked" => kept[e] = "asked"

\* Whoever starts or stops the driver holds its lock, and only they; whoever
\* holds the lock of a provider is past waiting for one.
LockOk(e) ==
  /\ op[e].pc \in {"starting", "stopping"} <=> dlock = e
  /\ \A k \in {"virtual", "bit"} : plock[k] = e =>
       \/ op[e].pc \in {"launching", "writing", "acquiring", "starting", "attaching", "closing",
                       "releasing", "stopping", "closed", "waiting", "deleting"}
       \/ At(e, {"stop", "recycle"}, "opening")

Mine(e) == OpOk(e) /\ PageOk(e) /\ DetachOk(e) /\ CookieOk(e) /\ LockOk(e)

-----------------------------------------------------------------------------
(* Then what relates the environments to each other.                       *)

\* Every reference in use is counted, and the driver runs while one is.
CountInv ==
  /\ ~CancelInStop => Cardinality(Users) <= refs
  /\ ~CancelInStop => \A e \in Envs : op[e].pc = "stopping" => refs = 0
  /\ refs > 0 => up

\* Environments whose next connection counts a reference although none is
\* released first.
Leaky(e) ==
  \/ ~ref[e]
  \/ op[e].do \in {"none", "ensure"} /\ status[e] # "running"
  \/ op[e].do = "create"
  \/ op[e].do = "start" /\ op[e].pc \notin {"attaching"} \cup Closing
  \/ e \in Bit /\ op[e].do \in {"stop", "recycle"} /\ op[e].pc \in {"asked", "opening"}

Leaking == {e \in Envs : Leaky(e)}

\* The leak is bounded: by the environments, the cancellations to come, and what
\* Ask allows BitBrowser.
LeakInv == refs + Cardinality(Leaking) + (MaxCancel - cancels) <= MaxRefs

IInv ==
  TypeOK /\ (\A e \in Envs : Mine(e)) /\ CountInv /\ LeakInv

-----------------------------------------------------------------------------
(* What a step leaves alone.                                               *)

OpSet == [do : {"none", "create", "start", "stop", "recycle", "destroy", "ensure"},
          pc : {"none", "asked", "opening", "launching", "writing", "connecting",
                "acquiring", "starting", "attaching", "closing", "releasing", "stopping",
                "closed", "waiting", "deleting", "replacing", "verifying", "checking"},
          was : {"none", "creating", "ready", "busy", "running"},
          by : {"self", "ensure", "create"}]

\* The type invariant but for the bound on the count.
Typed ==
  /\ status \in [Envs -> {"creating", "ready", "busy", "running", "terminating", "gone"}]
  /\ win \in [Envs -> BOOLEAN] /\ here \in [Envs -> BOOLEAN]
  /\ ws \in [Envs -> {"none", "live", "stale"}]
  /\ page \in [Envs -> {"none", "live", "dead"}] /\ ref \in [Envs -> BOOLEAN]
  /\ kept \in [Envs -> Cookies] /\ shown \in [Envs -> Cookies] /\ sure \subseteq Envs
  /\ plock \in [{"virtual", "bit"} -> Envs \cup {Nobody}]
  /\ up \in BOOLEAN /\ refs \in Nat /\ dlock \in Envs \cup {Nobody}
  /\ op \in [Envs -> OpSet]
  /\ cancels \in 0..MaxCancel

LEMMA TypedFact == TypeOK <=> Typed /\ refs <= MaxRefs
  BY BrowserAssumption DEF TypeOK, Typed, OpSet

\* The operation of e, and no other, changes to this.
Becomes(e, do, pc, was, by) ==
  /\ op' \in [Envs -> OpSet]
  /\ \A f \in Envs \ {e} : op'[f] = op[f]
  /\ op'[e].do = do /\ op'[e].pc = pc /\ op'[e].was = was /\ op'[e].by = by

Asks(e, do) == Becomes(e, do, "asked", "none", op[e].by)
Finishes(e) == Becomes(e, "none", "none", "none", "self")

LEMMA GotoFact ==
  ASSUME Typed, NEW e \in Envs, NEW pc, Goto(e, pc),
         pc \in {"attaching", "starting", "closing", "releasing", "stopping", "closed",
                 "launching", "writing", "acquiring", "waiting", "deleting", "replacing",
                 "verifying"}
  PROVE  Becomes(e, op[e].do, pc, op[e].was, op[e].by)
  <1>1. op[e] \in OpSet
    BY DEF Typed
  <1>2. [op[e] EXCEPT !.pc = pc] \in OpSet
    BY <1>1 DEF OpSet
  <1>. QED
    BY <1>1, <1>2 DEF Goto, Typed, Becomes, OpSet

LEMMA NowFact ==
  ASSUME Typed, NEW e \in Envs, NEW do, NEW pc, NEW was, Now(e, do, pc, was),
         do \in {"start", "stop", "recycle", "destroy", "ensure"},
         pc \in {"asked", "opening", "connecting", "closing", "checking"},
         was \in {"none", "creating", "ready", "busy", "running"}
  PROVE  Becomes(e, do, pc, was, op[e].by)
  <1>1. op'[e].do = do /\ op'[e].pc = pc /\ op'[e].was = was /\ op'[e].by = op[e].by
    BY DEF Now, Typed, OpSet
  <1>2. op'[e] = [op[e] EXCEPT !.do = do, !.pc = pc, !.was = was]
    BY DEF Now, Typed, OpSet
  <1>3. op'[e] \in OpSet
    BY <1>1, <1>2 DEF Typed, OpSet
  <1>4. \A f \in Envs \ {e} : op'[f] = op[f]
    BY DEF Now, Typed
  <1>5. op' \in [Envs -> OpSet]
    BY <1>3, <1>4 DEF Now, Typed
  <1>. QED
    BY <1>1, <1>4, <1>5 DEF Becomes

LEMMA NoOpFact ==
  ASSUME Typed, NEW e \in Envs, op' = [op EXCEPT ![e] = NoOp]
  PROVE  Finishes(e)
  BY DEF Typed, OpSet, NoOp, Becomes, Finishes

LEMMA PlockFact ==
  ASSUME Typed, NEW e \in Envs, Takes(e) \/ Drops(e) \/ UNCHANGED plock
  PROVE  plock' \in [{"virtual", "bit"} -> Envs \cup {Nobody}]
  BY DEF Typed, Takes, Drops

\* What an operation that succeeds, and one that fails, leads to.
EndedWell(e) ==
  \/ Finishes(e)
  \/ op[e].by = "ensure" /\ op[e].do = "stop" /\ Asks(e, "start")
  \/ /\ op[e].by = "ensure" /\ op[e].do # "stop"
     /\ Becomes(e, "ensure", "checking", "none", "ensure")
  \/ op[e].by = "create" /\ op[e].do = "stop" /\ Asks(e, "destroy")

EndedBadly(e) ==
  \/ Finishes(e)
  \/ /\ op[e].by = "create" /\ op[e].do = "start" /\ op[e].pc \in {"launching", "writing"}
     /\ Asks(e, "destroy")
  \/ /\ op[e].by = "create" /\ op[e].do = "start" /\ op[e].pc \notin {"launching", "writing"}
     /\ Asks(e, "stop")
  \/ op[e].by = "create" /\ op[e].do = "stop" /\ Asks(e, "destroy")

LEMMA EndsWell ==
  ASSUME Typed, NEW e \in Envs, Ends(e, TRUE)
  PROVE  EndedWell(e)
  <1>1. \/ op[e].by = "ensure" /\ op[e].do = "stop" /\ Now(e, "start", "asked", "none")
        \/ op[e].by = "ensure" /\ op[e].do # "stop" /\ Now(e, "ensure", "checking", "none")
        \/ op[e].by = "create" /\ op[e].do = "stop" /\ Now(e, "destroy", "asked", "none")
        \/ op' = [op EXCEPT ![e] = NoOp]
    BY DEF Ends
  <1>. QED
    BY <1>1, NowFact, NoOpFact DEF EndedWell, Asks

LEMMA EndsBadly ==
  ASSUME Typed, NEW e \in Envs, Ends(e, FALSE)
  PROVE  EndedBadly(e)
  <1>1. \/ /\ op[e].by = "create" /\ op[e].do = "start"
           /\ Now(e, IF op[e].pc \in {"launching", "writing"} THEN "destroy" ELSE "stop",
                  "asked", "none")
        \/ op[e].by = "create" /\ op[e].do = "stop" /\ Now(e, "destroy", "asked", "none")
        \/ op' = [op EXCEPT ![e] = NoOp]
    BY DEF Ends
  <1>. QED
    BY <1>1, NowFact, NoOpFact DEF EndedBadly, Asks

-----------------------------------------------------------------------------
(* A step concerns one environment: what it leaves alone, and what it does   *)
(* to the count.                                                           *)

Frame(e) ==
  /\ \A f \in Envs \ {e} :
       /\ op'[f] = op[f] /\ status'[f] = status[f] /\ win'[f] = win[f]
       /\ page'[f] = page[f] /\ ref'[f] = ref[f]
       /\ kept'[f] = kept[f] /\ shown'[f] = shown[f] /\ (f \in sure' <=> f \in sure)
       /\ dlock' = f <=> dlock = f
       /\ \A k \in {"virtual", "bit"} : plock'[k] = f <=> plock[k] = f
  /\ cancels' = 0 => cancels = 0

\* A lock that is taken or dropped is of no one else.
Apart(e) == \A f \in Envs \ {e} : \A k \in {"virtual", "bit"} : plock'[k] = f <=> plock[k] = f

LEMMA TakesFact ==
  ASSUME Typed, NEW e \in Envs, LockFree(e), Takes(e)
  PROVE  Apart(e)
  BY BrowserAssumption DEF Typed, Takes, LockFree, Lock, Apart

LEMMA DropsFact ==
  ASSUME Typed, NEW e \in Envs, Drops(e)
  PROVE  Apart(e) /\ \A k \in {"virtual", "bit"} : plock'[k] # e
  BY BrowserAssumption DEF Typed, Drops, Apart

\* The status of e, and no other, changes to this.
Turns(e, s) ==
  /\ status' \in [Envs -> {"creating", "ready", "busy", "running", "terminating", "gone"}]
  /\ status'[e] = s /\ \A f \in Envs \ {e} : status'[f] = status[f]

LEMMA TurnsFact ==
  ASSUME Typed, NEW e \in Envs, NEW s \in Statuses \cup {"gone"}, Status(e, s)
  PROVE  Turns(e, s)
  BY DEF Typed, Status, Turns, Statuses

\* What is left when a window has closed,
Shut(e) ==
  /\ win' \in [Envs -> BOOLEAN] /\ ws' \in [Envs -> {"none", "live", "stale"}]
  /\ page' \in [Envs -> {"none", "live", "dead"}] /\ kept' \in [Envs -> Cookies]
  /\ \A f \in Envs \ {e} : win'[f] = win[f] /\ page'[f] = page[f] /\ kept'[f] = kept[f]
  /\ ~win'[e] /\ page'[e] # "live" /\ kept'[e] \in {kept[e], shown[e]}
  /\ win[e] \/ kept'[e] = kept[e]

LEMMA ShutFact ==
  ASSUME Typed, NEW e \in Envs, CloseWindow(e)
  PROVE  Shut(e)
  <1>1. PICK c \in IF win[e] THEN {kept[e], shown[e]} ELSE {kept[e]} :
          kept' = [kept EXCEPT ![e] = c]
    BY DEF CloseWindow
  <1>2. kept' \in [Envs -> Cookies] /\ kept'[e] = c /\ \A f \in Envs \ {e} : kept'[f] = kept[f]
    BY <1>1 DEF Typed
  <1>3. page' \in [Envs -> {"none", "live", "dead"}] /\ page'[e] # "live"
        /\ \A f \in Envs \ {e} : page'[f] = page[f]
    BY DEF CloseWindow, Typed
  <1>4. win' \in [Envs -> BOOLEAN] /\ ~win'[e] /\ \A f \in Envs \ {e} : win'[f] = win[f]
    BY DEF CloseWindow, Typed
  <1>5. ws' \in [Envs -> {"none", "live", "stale"}]
    BY DEF CloseWindow, Typed
  <1>. QED
    BY <1>1, <1>2, <1>3, <1>4, <1>5 DEF Shut

\* and when a stop has closed it.
Emptied(e) ==
  /\ ws' \in [Envs -> {"none", "live", "stale"}] /\ page' \in [Envs -> {"none", "live", "dead"}]
  /\ ref' \in [Envs -> BOOLEAN] /\ page'[e] = "none" /\ ~ref'[e]
  /\ \A f \in Envs \ {e} : page'[f] = page[f] /\ ref'[f] = ref[f]
  /\ Drops(e) /\ Status(e, "ready") /\ Ends(e, TRUE)

LEMMA EmptiedFact ==
  ASSUME Typed, NEW e \in Envs, Closed(e)
  PROVE  Emptied(e)
  <1>1. ws' \in [Envs -> {"none", "live", "stale"}]
    BY DEF Closed, Typed
  <1>2. page' \in [Envs -> {"none", "live", "dead"}] /\ page'[e] = "none"
        /\ \A f \in Envs \ {e} : page'[f] = page[f]
    BY DEF Closed, Typed
  <1>3. ref' \in [Envs -> BOOLEAN] /\ ~ref'[e] /\ \A f \in Envs \ {e} : ref'[f] = ref[f]
    BY DEF Closed, Typed
  <1>. QED
    BY <1>1, <1>2, <1>3 DEF Closed, Emptied

LEMMA FrameFact ==
  ASSUME NEW e \in Envs, Frame(e), NEW f \in Envs \ {e}, Mine(f)
  PROVE  Mine(f)'
  <1>1. OpOk(f)' /\ PageOk(f)'
    BY DEF Frame, Mine, OpOk, PageOk
  <1>2. DetachOk(f)' /\ CookieOk(f)'
    BY DEF Frame, Mine, DetachOk, Bare, CookieOk, Seen
  <1>3. LockOk(f)'
    BY DEF Frame, Mine, LockOk, At
  <1>. QED
    BY <1>1, <1>2, <1>3 DEF Mine

\* Most steps count nothing, and bring nobody closer to counting twice.
Quiet(e) ==
  /\ refs' = refs /\ up' = up /\ cancels' = cancels
  /\ (op'[e].pc = "stopping" => op[e].pc = "stopping")
  /\ (Uses(e)' => Uses(e)) /\ (Leaky(e)' => Leaky(e))

\* BitBrowser may count twice, which Ask allows while there is room.
Roomy(e) ==
  /\ refs' = refs /\ up' = up /\ cancels' = cancels /\ op'[e].pc # "stopping"
  /\ Uses(e)' => Uses(e)
  /\ refs + Cardinality(Envs) + MaxCancel <= MaxRefs

\* A reference is taken while nobody stops the driver,
Counted(e) ==
  /\ refs' = refs + 1 /\ up' /\ cancels' = cancels /\ op'[e].pc # "stopping"
  /\ Leaky(e) /\ ~Leaky(e)' /\ dlock \in {e, Nobody}

\* or given back;
GivenBack(e) ==
  /\ refs' = Less /\ up' = up /\ cancels' = cancels
  /\ Uses(e) /\ ~Uses(e)' /\ (op'[e].pc = "stopping" => refs' = 0)

\* the last one stops the driver,
Stopped(e) ==
  /\ refs' = 0 /\ ~up' /\ cancels' = cancels /\ op[e].pc = "stopping" /\ op'[e].pc # "stopping"
  /\ ~Uses(e)'

\* unless it is cancelled.
Cancelled(e) ==
  /\ cancels' = cancels + 1 /\ op'[e].pc # "stopping"
  /\ \/ refs' = refs /\ up' = up /\ (Uses(e)' => Uses(e))
     \/ refs' = 0 /\ CancelInStop

Effect(e) ==
  Quiet(e) \/ Roomy(e) \/ Counted(e) \/ GivenBack(e) \/ Stopped(e) \/ Cancelled(e)

\* What a step of e does to e.
Keeps(e) == Typed' /\ Mine(e)' /\ Frame(e) /\ Effect(e)

-----------------------------------------------------------------------------
(* One lemma per action.                                                   *)

LEMMA AskKeeps ==
  ASSUME Typed, NEW e \in Envs, Mine(e),
         NEW do \in {"create", "start", "stop", "recycle", "destroy", "ensure"},
         Ask(e, do)
  PROVE  Keeps(e)
  <1>1. Becomes(e, do, "asked", "none", IF do \in {"ensure", "create"} THEN do ELSE "self")
    BY DEF Ask, Typed, OpSet, Becomes
  <1>2. Typed'
    <2>1. status' \in [Envs -> {"creating", "ready", "busy", "running", "terminating", "gone"}]
      BY DEF Ask, Idle, Typed
    <2>2. win' \in [Envs -> BOOLEAN] /\ here' \in [Envs -> BOOLEAN]
      BY DEF Ask, Idle, outside, Typed
    <2>3. /\ ws' \in [Envs -> {"none", "live", "stale"}]
        /\ page' \in [Envs -> {"none", "live", "dead"}] /\ ref' \in [Envs -> BOOLEAN]
      BY DEF Ask, Idle, handle, Typed
    <2>4. kept' \in [Envs -> Cookies] /\ shown' \in [Envs -> Cookies] /\ sure' \subseteq Envs
      BY DEF Ask, Idle, Typed
    <2>5. up' \in BOOLEAN /\ refs' \in Nat /\ dlock' \in Envs \cup {Nobody}
      BY DEF Ask, Idle, driver, Typed
    <2>6. cancels' \in 0..MaxCancel
      BY DEF Ask, Idle, Typed
    <2>7. plock' \in [{"virtual", "bit"} -> Envs \cup {Nobody}]
      BY PlockFact DEF Ask
    <2>8. op' \in [Envs -> OpSet]
      BY <1>1 DEF Ask, Idle, Becomes
    <2>. QED
      BY <2>1, <2>2, <2>3, <2>4, <2>5, <2>6, <2>7, <2>8 DEF Typed
  <1>3. Mine(e)'
    <2>1. OpOk(e)'
      BY DEF Ask, Idle, Mine, OpOk, Statuses
    <2>2. PageOk(e)'
      BY DEF Ask, Idle, outside, handle, Mine, OpOk, PageOk
    <2>3. DetachOk(e)'
      BY DEF Ask, Idle, handle, Mine, OpOk, DetachOk, Bare
    <2>4. CookieOk(e)'
      BY <1>1 DEF Ask, Idle, Becomes, CookieOk, Seen
    <2>5. LockOk(e)'
      BY DEF Ask, Idle, At, driver, Mine, OpOk, LockOk
    <2>. QED
      BY <2>1, <2>2, <2>3, <2>4, <2>5 DEF Mine
  <1>4. Frame(e)
    BY DEF Ask, Idle, outside, handle, jar, driver, Frame
  <1>5. Effect(e)
    BY DEF Ask, Idle, handle, driver, Mine, OpOk, PageOk, LockOk, Effect, Quiet, Roomy,
       Uses, Leaky
  <1>. QED
    BY <1>2, <1>3, <1>4, <1>5 DEF Keeps

LEMMA CreateKeeps ==
  ASSUME Typed, NEW e \in Envs, Mine(e), Create(e)
  PROVE  Keeps(e)
  <1>1. Now(e, "start", "opening", "creating")
        => Becomes(e, "start", "opening", "creating", op[e].by)
    BY NowFact
  <1>2. op' = [op EXCEPT ![e] = NoOp] => Finishes(e)
    BY NoOpFact
  <1>3. Typed'
    <2>1. status' \in [Envs -> {"creating", "ready", "busy", "running", "terminating", "gone"}]
      BY <1>1 DEF Create, Status, Typed
    <2>2. win' \in [Envs -> BOOLEAN] /\ here' \in [Envs -> BOOLEAN]
      BY DEF Create, Typed
    <2>3. /\ ws' \in [Envs -> {"none", "live", "stale"}]
        /\ page' \in [Envs -> {"none", "live", "dead"}] /\ ref' \in [Envs -> BOOLEAN]
      BY DEF Create, Typed
    <2>4. kept' \in [Envs -> Cookies] /\ shown' \in [Envs -> Cookies] /\ sure' \subseteq Envs
      BY DEF Create, Typed, Cookies
    <2>5. up' \in BOOLEAN /\ refs' \in Nat /\ dlock' \in Envs \cup {Nobody}
      BY DEF Create, driver, Typed
    <2>6. cancels' \in 0..MaxCancel
      BY DEF Create, Typed
    <2>7. plock' \in [{"virtual", "bit"} -> Envs \cup {Nobody}]
      BY PlockFact DEF Create
    <2>8. op' \in [Envs -> OpSet]
      BY <1>1, <1>2 DEF Create, Becomes, Asks, Finishes
    <2>. QED
      BY <2>1, <2>2, <2>3, <2>4, <2>5, <2>6, <2>7, <2>8 DEF Typed
  <1>4. Mine(e)'
    <2>1. OpOk(e)'
      BY <1>1, <1>2
      DEF Create, Status, Becomes, Asks, Finishes, Typed, Mine, OpOk, Starting, Statuses
    <2>2. PageOk(e)'
      BY <1>1, <1>2 DEF Create, Status, Becomes, Asks, Finishes, Typed, PageOk
    <2>3. DetachOk(e)'
      BY <1>1 DEF Create, Status, Typed, DetachOk, Bare
    <2>4. CookieOk(e)'
      BY <1>1, <1>2 DEF Create, Becomes, Asks, Finishes, At, Mine, OpOk, CookieOk, Seen
    <2>5. LockOk(e)'
      BY <1>1, <1>2 DEF Create, Becomes, Asks, Finishes, At, driver, Mine, OpOk, LockOk
    <2>. QED
      BY <2>1, <2>2, <2>3, <2>4, <2>5 DEF Mine
  <1>5. Frame(e)
    BY <1>1
    DEF Create, Status, Becomes, Asks, Finishes, outside, handle, jar, driver, Typed, Frame
  <1>6. Effect(e)
    BY <1>1, <1>2
    DEF Create, Status, Becomes, Asks, Finishes, At, driver, PageOk, LockOk, Effect, Quiet,
        Uses, Leaky
  <1>. QED
    BY <1>3, <1>4, <1>5, <1>6 DEF Keeps

LEMMA StartBeginsKeeps ==
  ASSUME Typed, NEW e \in Envs, Mine(e), StartBegins(e)
  PROVE  Keeps(e)
  <1>1. Now(e, "start", "connecting", "busy")
        => Becomes(e, "start", "connecting", "busy", op[e].by)
    BY NowFact
  <1>2. Now(e, "start", "opening", status[e])
        => Becomes(e, "start", "opening", status[e], op[e].by)
    BY NowFact DEF StartBegins, At, Mine, OpOk, Statuses
  <1>3. Typed'
    BY <1>1, <1>2 DEF StartBegins, Status, Becomes, outside, handle, jar, driver, Typed
  <1>4. Mine(e)'
    <2>1. OpOk(e)'
      BY <1>1, <1>2
      DEF StartBegins, Status, Becomes, At, Typed, Mine, OpOk, Starting, Statuses
    <2>2. PageOk(e)'
      BY <1>1, <1>2
      DEF StartBegins, Status, Becomes, outside, handle, Typed, Mine, OpOk, PageOk
    <2>3. DetachOk(e)'
      BY <1>1, <1>2
      DEF StartBegins, Status, Becomes, At, handle, Typed, Mine, OpOk, DetachOk, Bare
    <2>4. CookieOk(e)'
      BY <1>1, <1>2
      DEF StartBegins, Becomes, At, outside, handle, jar, Mine, OpOk, CookieOk, Seen
    <2>5. LockOk(e)'
      BY <1>1, <1>2 DEF StartBegins, Becomes, At, driver, Mine, OpOk, LockOk
    <2>. QED
      BY <2>1, <2>2, <2>3, <2>4, <2>5 DEF Mine
  <1>5. Frame(e)
    BY <1>1, <1>2
    DEF StartBegins, Status, Becomes, outside, handle, jar, driver, Typed, Frame
  <1>6. Effect(e)
    BY <1>1, <1>2
    DEF StartBegins, Status, Becomes, At, handle, driver, PageOk, LockOk, Closing, Effect,
        Quiet, Uses, Leaky
  <1>. QED
    BY <1>3, <1>4, <1>5, <1>6 DEF Keeps

LEMMA OpenKeeps ==
  ASSUME Typed, NEW e \in Envs, Mine(e), Open(e)
  PROVE  Keeps(e)
  <1>1. Now(e, "start", "connecting", "busy")
        => Becomes(e, "start", "connecting", "busy", op[e].by)
    BY NowFact
  <1>2. Goto(e, "launching") => Becomes(e, op[e].do, "launching", op[e].was, op[e].by)
    BY GotoFact
  <1>3. Typed'
    BY <1>1, <1>2 DEF Open, Takes, Becomes, outside, handle, jar, driver, Typed
  <1>4. Mine(e)'
    <2>1. OpOk(e)'
      BY <1>1, <1>2 DEF Open, Becomes, At, Mine, OpOk, Starting, Statuses
    <2>2. PageOk(e)'
      BY <1>1, <1>2 DEF Open, Becomes, outside, handle, Mine, OpOk, PageOk
    <2>3. DetachOk(e)'
      BY <1>1, <1>2 DEF Open, Becomes, At, handle, Mine, OpOk, DetachOk, Bare
    <2>4. CookieOk(e)'
      BY <1>1, <1>2 DEF Open, Becomes, At, outside, handle, jar, Mine, OpOk, CookieOk, Seen
    <2>5. LockOk(e)'
      BY <1>1, <1>2 DEF Open, Takes, Becomes, At, driver, Mine, OpOk, LockOk
    <2>. QED
      BY <2>1, <2>2, <2>3, <2>4, <2>5 DEF Mine
  <1>5. Frame(e)
    BY <1>1, <1>2, BrowserAssumption
    DEF Open, Takes, Becomes, Lock, LockFree, outside, handle, jar, driver, Typed, Frame
  <1>6. Effect(e)
    BY <1>1, <1>2
    DEF Open, Becomes, At, handle, driver, PageOk, LockOk, Closing, Effect, Quiet, Uses,
        Leaky
  <1>. QED
    BY <1>3, <1>4, <1>5, <1>6 DEF Keeps

LEMMA LaunchSucceedsKeeps ==
  ASSUME Typed, NEW e \in Envs, Mine(e), LaunchSucceeds(e)
  PROVE  Keeps(e)
  <1>1. Now(e, "start", "connecting", "busy")
        => Becomes(e, "start", "connecting", "busy", op[e].by)
    BY NowFact
  <1>2. Goto(e, "writing") => Becomes(e, op[e].do, "writing", op[e].was, op[e].by)
    BY GotoFact
  <1>3. Drops(e) => Apart(e) /\ \A k \in {"virtual", "bit"} : plock'[k] # e
    BY DropsFact
  <1>4. Typed'
    <2>1. status' \in [Envs -> {"creating", "ready", "busy", "running", "terminating", "gone"}]
      BY <1>1 DEF LaunchSucceeds, Typed
    <2>2. win' \in [Envs -> BOOLEAN] /\ here' \in [Envs -> BOOLEAN]
      BY DEF LaunchSucceeds, Typed
    <2>3. /\ ws' \in [Envs -> {"none", "live", "stale"}]
        /\ page' \in [Envs -> {"none", "live", "dead"}] /\ ref' \in [Envs -> BOOLEAN]
      BY DEF LaunchSucceeds, Typed
    <2>4. kept' \in [Envs -> Cookies] /\ shown' \in [Envs -> Cookies] /\ sure' \subseteq Envs
      BY DEF LaunchSucceeds, Typed
    <2>5. up' \in BOOLEAN /\ refs' \in Nat /\ dlock' \in Envs \cup {Nobody}
      BY DEF LaunchSucceeds, driver, Typed
    <2>6. cancels' \in 0..MaxCancel
      BY DEF LaunchSucceeds, Typed
    <2>7. plock' \in [{"virtual", "bit"} -> Envs \cup {Nobody}]
      BY PlockFact DEF LaunchSucceeds
    <2>8. op' \in [Envs -> OpSet]
      BY <1>1, <1>2 DEF LaunchSucceeds, Becomes
    <2>. QED
      BY <2>1, <2>2, <2>3, <2>4, <2>5, <2>6, <2>7, <2>8 DEF Typed
  <1>5. Mine(e)'
    <2>1. OpOk(e)'
      BY <1>1, <1>2 DEF LaunchSucceeds, Becomes, At, Mine, OpOk, Starting, Statuses
    <2>2. PageOk(e)'
      BY <1>1, <1>2 DEF LaunchSucceeds, Becomes, Typed, Mine, OpOk, PageOk
    <2>3. DetachOk(e)'
      BY <1>1 DEF LaunchSucceeds, Becomes, At, Typed, Mine, OpOk, DetachOk, Bare
    <2>4. CookieOk(e)'
      BY <1>1 DEF LaunchSucceeds, Becomes, At, Typed, Mine, OpOk, CookieOk, Seen
    <2>5. LockOk(e)'
      BY <1>1, <1>2, <1>3 DEF LaunchSucceeds, Becomes, At, driver, Mine, OpOk, LockOk
    <2>. QED
      BY <2>1, <2>2, <2>3, <2>4, <2>5 DEF Mine
  <1>6. Frame(e)
    BY <1>1, <1>2, <1>3
    DEF LaunchSucceeds, Becomes, Apart, outside, handle, jar, driver, Typed, Frame
  <1>7. Effect(e)
    BY <1>1, <1>2
    DEF LaunchSucceeds, Becomes, At, driver, PageOk, LockOk, Closing, Effect, Quiet, Uses,
        Leaky
  <1>. QED
    BY <1>4, <1>5, <1>6, <1>7 DEF Keeps

LEMMA LaunchFailsKeeps ==
  ASSUME Typed, NEW e \in Envs, Mine(e), LaunchFails(e)
  PROVE  Keeps(e)
  <1>1. Ends(e, FALSE) => EndedBadly(e)
    BY EndsBadly
  <1>2. EndedBadly(e) /\ Turns(e, op[e].was) /\ Drops(e)
    <2>1. op[e].was \in Statuses
      BY DEF LaunchFails, At, Mine, OpOk
    <2>2. \A s \in Statuses \cup {"gone"} : Status(e, s) => Turns(e, s)
      BY TurnsFact
    <2>. QED
      BY <1>1, <2>1, <2>2 DEF LaunchFails, OpenFails, CloseWindow
  <1>3. Drops(e) => Apart(e) /\ \A k \in {"virtual", "bit"} : plock'[k] # e
    BY DropsFact
  <1>4. Typed'
    <2>1. status' \in [Envs -> {"creating", "ready", "busy", "running", "terminating", "gone"}]
      BY <1>2 DEF Turns
    <2>2. win' \in [Envs -> BOOLEAN] /\ here' \in [Envs -> BOOLEAN]
      BY DEF LaunchFails, CloseWindow, outside, Typed
    <2>3. /\ ws' \in [Envs -> {"none", "live", "stale"}]
        /\ page' \in [Envs -> {"none", "live", "dead"}] /\ ref' \in [Envs -> BOOLEAN]
      BY DEF LaunchFails, CloseWindow, handle, Typed
    <2>4. kept' \in [Envs -> Cookies] /\ shown' \in [Envs -> Cookies] /\ sure' \subseteq Envs
      BY DEF LaunchFails, CloseWindow, jar, Typed
    <2>5. up' \in BOOLEAN /\ refs' \in Nat /\ dlock' \in Envs \cup {Nobody}
      BY DEF LaunchFails, driver, Typed
    <2>6. cancels' \in 0..MaxCancel
      BY DEF LaunchFails, Typed
    <2>7. plock' \in [{"virtual", "bit"} -> Envs \cup {Nobody}]
      BY PlockFact DEF LaunchFails, OpenFails
    <2>8. op' \in [Envs -> OpSet]
      BY <1>2 DEF Becomes, Asks, Finishes, EndedBadly
    <2>. QED
      BY <2>1, <2>2, <2>3, <2>4, <2>5, <2>6, <2>7, <2>8 DEF Typed
  <1>5. Mine(e)'
    <2>1. OpOk(e)'
      BY <1>2 DEF LaunchFails, Becomes, Asks, Finishes, EndedBadly, Turns, At, Mine, OpOk
    <2>2. PageOk(e)'
      BY <1>2
      DEF LaunchFails, OpenFails, CloseWindow, Becomes, Asks, Finishes, EndedBadly, Turns,
          At, outside, handle, Typed, Mine, OpOk, Statuses, PageOk
    <2>3. DetachOk(e)'
      BY <1>2
      DEF LaunchFails, OpenFails, CloseWindow, Becomes, Asks, Finishes, EndedBadly, Turns,
          At, handle, Typed, Mine, OpOk, DetachOk, Bare
    <2>4. CookieOk(e)'
      BY <1>2
      DEF LaunchFails, OpenFails, CloseWindow, Becomes, Asks, Finishes, EndedBadly, At,
          outside, handle, jar, Mine, OpOk, CookieOk, Seen
    <2>5. LockOk(e)'
      BY <1>2, <1>3
      DEF LaunchFails, Becomes, Asks, Finishes, EndedBadly, At, driver, Mine, OpOk, LockOk
    <2>. QED
      BY <2>1, <2>2, <2>3, <2>4, <2>5 DEF Mine
  <1>6. Frame(e)
    BY <1>2, <1>3
    DEF LaunchFails, OpenFails, CloseWindow, Becomes, Asks, Finishes, EndedBadly, Turns,
        Apart, outside, handle, jar, driver, Typed, Frame
  <1>7. Effect(e)
    BY <1>2
    DEF LaunchFails, OpenFails, Becomes, Asks, Finishes, EndedBadly, Turns, At, handle,
        driver, PageOk, LockOk, Closing, Effect, Quiet, Uses, Leaky
  <1>. QED
    BY <1>4, <1>5, <1>6, <1>7 DEF Keeps

LEMMA WriteBackKeeps ==
  ASSUME Typed, NEW e \in Envs, Mine(e), WriteBack(e)
  PROVE  Keeps(e)
  <1>1. Ends(e, FALSE) => EndedBadly(e)
    BY EndsBadly
  <1>2. Now(e, "start", "connecting", "busy")
        => Becomes(e, "start", "connecting", "busy", op[e].by)
    BY NowFact
  <1>3. \/ /\ Becomes(e, "start", "connecting", "busy", op[e].by)
           /\ UNCHANGED status
           /\ Drops(e)
        \/ EndedBadly(e) /\ Turns(e, op[e].was) /\ Drops(e)
    <2>1. op[e].was \in Statuses
      BY DEF WriteBack, At, Mine, OpOk
    <2>2. \A s \in Statuses \cup {"gone"} : Status(e, s) => Turns(e, s)
      BY TurnsFact
    <2>. QED
      BY <1>1, <1>2, <2>1, <2>2 DEF WriteBack, OpenFails
  <1>4. Drops(e) => Apart(e) /\ \A k \in {"virtual", "bit"} : plock'[k] # e
    BY DropsFact
  <1>5. Typed'
    <2>1. status' \in [Envs -> {"creating", "ready", "busy", "running", "terminating", "gone"}]
      BY <1>3 DEF Turns, Typed
    <2>2. win' \in [Envs -> BOOLEAN] /\ here' \in [Envs -> BOOLEAN]
      BY DEF WriteBack, outside, Typed
    <2>3. /\ ws' \in [Envs -> {"none", "live", "stale"}]
        /\ page' \in [Envs -> {"none", "live", "dead"}] /\ ref' \in [Envs -> BOOLEAN]
      BY DEF WriteBack, Typed
    <2>4. kept' \in [Envs -> Cookies] /\ shown' \in [Envs -> Cookies] /\ sure' \subseteq Envs
      BY DEF WriteBack, jar, Typed
    <2>5. up' \in BOOLEAN /\ refs' \in Nat /\ dlock' \in Envs \cup {Nobody}
      BY DEF WriteBack, driver, Typed
    <2>6. cancels' \in 0..MaxCancel
      BY DEF WriteBack, Typed
    <2>7. plock' \in [{"virtual", "bit"} -> Envs \cup {Nobody}]
      BY PlockFact DEF WriteBack, OpenFails
    <2>8. op' \in [Envs -> OpSet]
      BY <1>3 DEF Becomes, Asks, Finishes, EndedBadly
    <2>. QED
      BY <2>1, <2>2, <2>3, <2>4, <2>5, <2>6, <2>7, <2>8 DEF Typed
  <1>6. Mine(e)'
    <2>1. OpOk(e)'
      BY <1>3
      DEF WriteBack, Becomes, Asks, Finishes, EndedBadly, Turns, At, Mine, OpOk, Starting,
          Statuses
    <2>2. PageOk(e)'
      BY <1>3
      DEF WriteBack, OpenFails, Becomes, Asks, Finishes, EndedBadly, Turns, outside, Typed,
          OpSet, Mine, OpOk, PageOk
    <2>3. DetachOk(e)'
      BY <1>3
      DEF WriteBack, OpenFails, Becomes, Asks, Finishes, EndedBadly, Turns, At, Mine, OpOk,
          DetachOk, Bare
    <2>4. CookieOk(e)'
      BY <1>3
      DEF WriteBack, OpenFails, Becomes, Asks, Finishes, EndedBadly, At, outside, jar, Mine,
          OpOk, CookieOk, Seen
    <2>5. LockOk(e)'
      BY <1>3, <1>4
      DEF WriteBack, Becomes, Asks, Finishes, EndedBadly, At, driver, Mine, OpOk, LockOk
    <2>. QED
      BY <2>1, <2>2, <2>3, <2>4, <2>5 DEF Mine
  <1>7. Frame(e)
    <2>1. Apart(e)
      BY <1>4 DEF WriteBack, OpenFails, Apart
    <2>2. \A f \in Envs \ {e} : op'[f] = op[f] /\ status'[f] = status[f]
      BY <1>3 DEF Becomes, Asks, Finishes, EndedBadly, Turns
    <2>3. \A f \in Envs \ {e} :
           /\ win'[f] = win[f] /\ page'[f] = page[f] /\ ref'[f] = ref[f]
           /\ kept'[f] = kept[f] /\ shown'[f] = shown[f] /\ (f \in sure' <=> f \in sure)
      BY DEF WriteBack, outside, jar
    <2>4. UNCHANGED <<dlock, cancels>>
      BY DEF WriteBack, driver
    <2>. QED
      BY <2>1, <2>2, <2>3, <2>4 DEF Frame, Apart
  <1>8. Effect(e)
    BY <1>3
    DEF WriteBack, OpenFails, Becomes, Asks, Finishes, EndedBadly, Turns, At, driver,
        PageOk, LockOk, Closing, Effect, Quiet, Uses, Leaky
  <1>. QED
    BY <1>5, <1>6, <1>7, <1>8 DEF Keeps

LEMMA ConnectKeeps ==
  ASSUME Typed, NEW e \in Envs, Mine(e), Connect(e)
  PROVE  Keeps(e)
  <1>1. Ends(e, FALSE) => EndedBadly(e)
    BY EndsBadly
  <1>2. Goto(e, "acquiring") => Becomes(e, op[e].do, "acquiring", op[e].was, op[e].by)
    BY GotoFact
  <1>3. \/ /\ Becomes(e, op[e].do, "acquiring", op[e].was, op[e].by)
           /\ UNCHANGED status
           /\ LockFree(e) /\ Takes(e)
        \/ /\ EndedBadly(e) /\ Drops(e)
           /\ \E s \in {op[e].was} \cup (IF win[e] THEN {"busy"} ELSE {}) : Turns(e, s)
    <2>1. op[e].was \in Statuses
      BY DEF Connect, At, Mine, OpOk
    <2>2. \A s \in Statuses \cup {"gone"} : Status(e, s) => Turns(e, s)
      BY TurnsFact
    <2>. QED
      BY <1>1, <1>2, <2>1, <2>2 DEF Connect, ConnectFails, Statuses
  <1>4. Drops(e) => Apart(e) /\ \A k \in {"virtual", "bit"} : plock'[k] # e
    BY DropsFact
  <1>5. LockFree(e) /\ Takes(e) => Apart(e)
    BY TakesFact
  <1>6. Typed'
    <2>1. status' \in [Envs -> {"creating", "ready", "busy", "running", "terminating", "gone"}]
        <3>1. UNCHANGED status \/ \E s \in Statuses : Status(e, s)
          BY DEF Connect, ConnectFails, At, Mine, OpOk, Statuses
        <3>. QED
          BY <3>1 DEF Status, Typed, Statuses
    <2>2. win' \in [Envs -> BOOLEAN] /\ here' \in [Envs -> BOOLEAN]
      BY DEF Connect, outside, Typed
    <2>3. /\ ws' \in [Envs -> {"none", "live", "stale"}]
        /\ page' \in [Envs -> {"none", "live", "dead"}] /\ ref' \in [Envs -> BOOLEAN]
      BY DEF Connect, Typed
    <2>4. kept' \in [Envs -> Cookies] /\ shown' \in [Envs -> Cookies] /\ sure' \subseteq Envs
      BY DEF Connect, jar, Typed
    <2>5. up' \in BOOLEAN /\ refs' \in Nat /\ dlock' \in Envs \cup {Nobody}
      BY DEF Connect, driver, Typed
    <2>6. cancels' \in 0..MaxCancel
      BY DEF Connect, Typed
    <2>7. plock' \in [{"virtual", "bit"} -> Envs \cup {Nobody}]
      BY PlockFact DEF Connect, ConnectFails
    <2>8. op' \in [Envs -> OpSet]
      BY <1>3 DEF Becomes, Asks, Finishes, EndedBadly
    <2>. QED
      BY <2>1, <2>2, <2>3, <2>4, <2>5, <2>6, <2>7, <2>8 DEF Typed
  <1>7. Mine(e)'
    <2>1. OpOk(e)'
      BY <1>3
      DEF Connect, Becomes, Asks, Finishes, EndedBadly, Turns, At, Mine, OpOk, Starting,
          Statuses
    <2>2. PageOk(e)'
      BY <1>3
      DEF Connect, ConnectFails, Becomes, Asks, Finishes, EndedBadly, Turns, At, outside,
          Mine, OpOk, Statuses, PageOk
    <2>3. DetachOk(e)'
      BY <1>3
      DEF Connect, ConnectFails, Becomes, Asks, Finishes, EndedBadly, Turns, At, Mine, OpOk,
          DetachOk, Bare
    <2>4. CookieOk(e)'
      BY <1>3
      DEF Connect, ConnectFails, Becomes, Asks, Finishes, EndedBadly, outside, jar, Mine,
          OpOk, CookieOk, Seen
    <2>5. LockOk(e)'
      BY <1>3, <1>4
      DEF Connect, Becomes, Asks, Finishes, EndedBadly, At, driver, Mine, OpOk, LockOk
    <2>. QED
      BY <2>1, <2>2, <2>3, <2>4, <2>5 DEF Mine
  <1>8. Frame(e)
    <2>1. Apart(e)
      BY <1>4, <1>5 DEF Connect, ConnectFails, Apart
    <2>2. \A f \in Envs \ {e} : op'[f] = op[f] /\ status'[f] = status[f]
      BY <1>3 DEF Becomes, Asks, Finishes, EndedBadly, Turns
    <2>3. \A f \in Envs \ {e} :
           /\ win'[f] = win[f] /\ page'[f] = page[f] /\ ref'[f] = ref[f]
           /\ kept'[f] = kept[f] /\ shown'[f] = shown[f] /\ (f \in sure' <=> f \in sure)
      BY DEF Connect, outside, jar
    <2>4. UNCHANGED <<dlock, cancels>>
      BY DEF Connect, driver
    <2>. QED
      BY <2>1, <2>2, <2>3, <2>4 DEF Frame, Apart
  <1>9. Effect(e)
    BY <1>3
    DEF Connect, ConnectFails, Becomes, Asks, Finishes, EndedBadly, Turns, At, driver,
        PageOk, LockOk, Closing, Effect, Quiet, Uses, Leaky
  <1>. QED
    BY <1>6, <1>7, <1>8, <1>9 DEF Keeps

LEMMA AcquireKeeps ==
  ASSUME Typed, NEW e \in Envs, Mine(e), Acquire(e)
  PROVE  Keeps(e)
  <1>1. Goto(e, "attaching") => Becomes(e, op[e].do, "attaching", op[e].was, op[e].by)
    BY GotoFact
  <1>2. Goto(e, "starting") => Becomes(e, op[e].do, "starting", op[e].was, op[e].by)
    BY GotoFact
  <1>3. Typed'
    <2>1. status' \in [Envs -> {"creating", "ready", "busy", "running", "terminating", "gone"}]
      BY <1>1 DEF Acquire, Typed
    <2>2. win' \in [Envs -> BOOLEAN] /\ here' \in [Envs -> BOOLEAN]
      BY DEF Acquire, outside, Typed
    <2>3. /\ ws' \in [Envs -> {"none", "live", "stale"}]
        /\ page' \in [Envs -> {"none", "live", "dead"}] /\ ref' \in [Envs -> BOOLEAN]
      BY DEF Acquire, Counts, Typed
    <2>4. kept' \in [Envs -> Cookies] /\ shown' \in [Envs -> Cookies] /\ sure' \subseteq Envs
      BY DEF Acquire, jar, Typed
    <2>5. up' \in BOOLEAN /\ refs' \in Nat /\ dlock' \in Envs \cup {Nobody}
      BY DEF Acquire, Counts, Typed
    <2>6. cancels' \in 0..MaxCancel
      BY DEF Acquire, Typed
    <2>7. plock' \in [{"virtual", "bit"} -> Envs \cup {Nobody}]
      BY PlockFact DEF Acquire
    <2>8. op' \in [Envs -> OpSet]
      BY <1>1, <1>2 DEF Acquire, Counts, Becomes
    <2>. QED
      BY <2>1, <2>2, <2>3, <2>4, <2>5, <2>6, <2>7, <2>8 DEF Typed
  <1>4. Mine(e)'
    <2>1. OpOk(e)'
      BY <1>1, <1>2 DEF Acquire, Counts, Becomes, At, Mine, OpOk, Starting
    <2>2. PageOk(e)'
      BY <1>1, <1>2
      DEF Acquire, Counts, Becomes, At, outside, Typed, Mine, OpOk, Statuses, PageOk
    <2>3. DetachOk(e)'
      BY <1>1, <1>2 DEF Acquire, Counts, Becomes, At, Mine, OpOk, DetachOk, Bare
    <2>4. CookieOk(e)'
      BY <1>1, <1>2 DEF Acquire, Counts, Becomes, outside, jar, Mine, OpOk, CookieOk, Seen
    <2>5. LockOk(e)'
      BY <1>1, <1>2 DEF Acquire, Counts, Becomes, At, Mine, OpOk, LockOk
    <2>. QED
      BY <2>1, <2>2, <2>3, <2>4, <2>5 DEF Mine
  <1>5. Frame(e)
    BY <1>1, <1>2, BrowserAssumption
    DEF Acquire, Counts, Becomes, outside, handle, jar, driver, Typed, Frame
  <1>6. Effect(e)
    BY <1>1, <1>2
    DEF Acquire, Counts, Becomes, At, Typed, PageOk, LockOk, Closing, Effect, Quiet,
        Counted, Uses, Leaky
  <1>. QED
    BY <1>3, <1>4, <1>5, <1>6 DEF Keeps

LEMMA DriverStartsKeeps ==
  ASSUME Typed, NEW e \in Envs, Mine(e), DriverStarts(e)
  PROVE  Keeps(e)
  <1>1. Goto(e, "attaching") => Becomes(e, op[e].do, "attaching", op[e].was, op[e].by)
    BY GotoFact
  <1>2. Goto(e, "closing") => Becomes(e, op[e].do, "closing", op[e].was, op[e].by)
    BY GotoFact
  <1>3. Typed'
    <2>1. status' \in [Envs -> {"creating", "ready", "busy", "running", "terminating", "gone"}]
      BY <1>1 DEF DriverStarts, Typed
    <2>2. win' \in [Envs -> BOOLEAN] /\ here' \in [Envs -> BOOLEAN]
      BY DEF DriverStarts, outside, Typed
    <2>3. /\ ws' \in [Envs -> {"none", "live", "stale"}]
        /\ page' \in [Envs -> {"none", "live", "dead"}] /\ ref' \in [Envs -> BOOLEAN]
      BY DEF DriverStarts, Counts, Typed
    <2>4. kept' \in [Envs -> Cookies] /\ shown' \in [Envs -> Cookies] /\ sure' \subseteq Envs
      BY DEF DriverStarts, jar, Typed
    <2>5. up' \in BOOLEAN /\ refs' \in Nat /\ dlock' \in Envs \cup {Nobody}
        <3>1. refs' = refs \/ refs' = refs + 1
          BY DEF DriverStarts, Counts
        <3>2. up' \in BOOLEAN /\ dlock' = Nobody
          BY DEF DriverStarts, Typed
        <3>. QED
          BY <3>1, <3>2 DEF Typed
    <2>6. cancels' \in 0..MaxCancel
      BY DEF DriverStarts, Typed
    <2>7. plock' \in [{"virtual", "bit"} -> Envs \cup {Nobody}]
      BY PlockFact DEF DriverStarts
    <2>8. op' \in [Envs -> OpSet]
      BY <1>1, <1>2 DEF DriverStarts, Counts, Becomes
    <2>. QED
      BY <2>1, <2>2, <2>3, <2>4, <2>5, <2>6, <2>7, <2>8 DEF Typed
  <1>4. Mine(e)'
    <2>1. OpOk(e)'
      BY <1>1, <1>2 DEF DriverStarts, Counts, Becomes, At, Mine, OpOk, Closing, Starting
    <2>2. PageOk(e)'
      BY <1>1, <1>2
      DEF DriverStarts, Counts, Becomes, At, outside, Typed, Mine, OpOk, Statuses, PageOk
    <2>3. DetachOk(e)'
      BY <1>1, <1>2 DEF DriverStarts, Counts, Becomes, At, Mine, OpOk, DetachOk, Bare
    <2>4. CookieOk(e)'
      BY <1>1, <1>2
      DEF DriverStarts, Counts, Becomes, outside, jar, Mine, OpOk, CookieOk, Seen
    <2>5. LockOk(e)'
      BY <1>1, <1>2, BrowserAssumption DEF DriverStarts, Counts, Becomes, LockOk
    <2>. QED
      BY <2>1, <2>2, <2>3, <2>4, <2>5 DEF Mine
  <1>5. Frame(e)
    BY <1>1, <1>2, BrowserAssumption
    DEF DriverStarts, Counts, Becomes, At, outside, handle, jar, driver, Typed, Frame, Mine,
        LockOk
  <1>6. Effect(e)
    BY <1>1, <1>2
    DEF DriverStarts, Counts, Becomes, At, Typed, Mine, OpOk, PageOk, LockOk, Closing,
        Effect, Quiet, Counted, Uses, Leaky
  <1>. QED
    BY <1>3, <1>4, <1>5, <1>6 DEF Keeps

LEMMA AttachKeeps ==
  ASSUME Typed, NEW e \in Envs, Mine(e), Attach(e)
  PROVE  Keeps(e)
  <1>1. Ends(e, TRUE) => EndedWell(e)
    BY EndsWell
  <1>2. Goto(e, "closing") => Becomes(e, op[e].do, "closing", op[e].was, op[e].by)
    BY GotoFact
  <1>3. \/ /\ EndedWell(e) /\ Turns(e, "running")
           /\ Drops(e)
           /\ win[e] /\ page' = [page EXCEPT ![e] = "live"]
        \/ /\ Becomes(e, op[e].do, "closing", op[e].was, op[e].by)
           /\ UNCHANGED <<status, plock>> /\ page' = [page EXCEPT ![e] = "none"]
    <2>1. \A s \in Statuses \cup {"gone"} : Status(e, s) => Turns(e, s)
      BY TurnsFact
    <2>. QED
      BY <1>1, <1>2, <2>1 DEF Attach, Statuses
  <1>4. Drops(e) => Apart(e) /\ \A k \in {"virtual", "bit"} : plock'[k] # e
    BY DropsFact
  <1>5. Typed'
    <2>1. status' \in [Envs -> {"creating", "ready", "busy", "running", "terminating", "gone"}]
      BY <1>3 DEF Turns, Typed
    <2>2. win' \in [Envs -> BOOLEAN] /\ here' \in [Envs -> BOOLEAN]
      BY DEF Attach, outside, Typed
    <2>3. /\ ws' \in [Envs -> {"none", "live", "stale"}]
        /\ page' \in [Envs -> {"none", "live", "dead"}] /\ ref' \in [Envs -> BOOLEAN]
      BY DEF Attach, Typed
    <2>4. kept' \in [Envs -> Cookies] /\ shown' \in [Envs -> Cookies] /\ sure' \subseteq Envs
      BY DEF Attach, jar, Typed
    <2>5. up' \in BOOLEAN /\ refs' \in Nat /\ dlock' \in Envs \cup {Nobody}
      BY DEF Attach, driver, Typed
    <2>6. cancels' \in 0..MaxCancel
      BY DEF Attach, Typed
    <2>7. plock' \in [{"virtual", "bit"} -> Envs \cup {Nobody}]
      BY PlockFact DEF Attach
    <2>8. op' \in [Envs -> OpSet]
      BY <1>3 DEF Becomes, Asks, Finishes, EndedWell
    <2>. QED
      BY <2>1, <2>2, <2>3, <2>4, <2>5, <2>6, <2>7, <2>8 DEF Typed
  <1>6. Mine(e)'
    <2>1. OpOk(e)'
      BY <1>3
      DEF Attach, Becomes, Asks, Finishes, EndedWell, Turns, At, Mine, OpOk, Closing,
          Statuses
    <2>2. PageOk(e)'
      BY <1>3
      DEF Attach, Becomes, Asks, Finishes, EndedWell, Turns, At, outside, Typed, Mine, OpOk,
          PageOk
    <2>3. DetachOk(e)'
      BY <1>3 DEF Attach, Becomes, Asks, Finishes, EndedWell, Turns, Typed, DetachOk, Bare
    <2>4. CookieOk(e)'
      BY <1>3
      DEF Attach, Becomes, Asks, Finishes, EndedWell, At, outside, jar, Mine, OpOk,
          CookieOk, Seen
    <2>5. LockOk(e)'
      BY <1>3, <1>4
      DEF Attach, Becomes, Asks, Finishes, EndedWell, At, driver, Mine, OpOk, LockOk
    <2>. QED
      BY <2>1, <2>2, <2>3, <2>4, <2>5 DEF Mine
  <1>7. Frame(e)
    <2>1. Apart(e)
      BY <1>4 DEF Attach, Apart
    <2>2. \A f \in Envs \ {e} : op'[f] = op[f] /\ status'[f] = status[f]
      BY <1>3 DEF Becomes, Asks, Finishes, EndedWell, Turns
    <2>3. \A f \in Envs \ {e} :
           /\ win'[f] = win[f] /\ page'[f] = page[f] /\ ref'[f] = ref[f]
           /\ kept'[f] = kept[f] /\ shown'[f] = shown[f] /\ (f \in sure' <=> f \in sure)
      BY DEF Attach, outside, jar, Typed
    <2>4. UNCHANGED <<dlock, cancels>>
      BY DEF Attach, driver
    <2>. QED
      BY <2>1, <2>2, <2>3, <2>4 DEF Frame, Apart
  <1>8. Effect(e)
    BY <1>3
    DEF Attach, Becomes, Asks, Finishes, EndedWell, Turns, At, driver, PageOk, LockOk,
        Closing, Effect, Quiet, Uses, Leaky
  <1>. QED
    BY <1>5, <1>6, <1>7, <1>8 DEF Keeps

LEMMA ConnectGivesUpKeeps ==
  ASSUME Typed, NEW e \in Envs, Mine(e), ConnectGivesUp(e)
  PROVE  Keeps(e)
  <1>1. Ends(e, FALSE) => EndedBadly(e)
    BY EndsBadly
  <1>2. /\ EndedBadly(e) /\ Drops(e)
        /\ \E s \in {op[e].was} \cup (IF win[e] THEN {"busy"} ELSE {}) : Turns(e, s)
    <2>1. op[e].was \in Statuses
      BY DEF ConnectGivesUp, At, Mine, OpOk
    <2>2. \A s \in Statuses \cup {"gone"} : Status(e, s) => Turns(e, s)
      BY TurnsFact
    <2>. QED
      BY <1>1, <2>1, <2>2 DEF ConnectGivesUp, ConnectFails, Statuses
  <1>3. Drops(e) => Apart(e) /\ \A k \in {"virtual", "bit"} : plock'[k] # e
    BY DropsFact
  <1>4. Typed'
    <2>1. status' \in [Envs -> {"creating", "ready", "busy", "running", "terminating", "gone"}]
      BY <1>2 DEF Turns
    <2>2. win' \in [Envs -> BOOLEAN] /\ here' \in [Envs -> BOOLEAN]
      BY DEF ConnectGivesUp, outside, Typed
    <2>3. /\ ws' \in [Envs -> {"none", "live", "stale"}]
        /\ page' \in [Envs -> {"none", "live", "dead"}] /\ ref' \in [Envs -> BOOLEAN]
      BY DEF ConnectGivesUp, handle, Typed
    <2>4. kept' \in [Envs -> Cookies] /\ shown' \in [Envs -> Cookies] /\ sure' \subseteq Envs
      BY DEF ConnectGivesUp, jar, Typed
    <2>5. up' \in BOOLEAN /\ refs' \in Nat /\ dlock' \in Envs \cup {Nobody}
      BY DEF ConnectGivesUp, driver, Typed
    <2>6. cancels' \in 0..MaxCancel
      BY DEF ConnectGivesUp, Typed
    <2>7. plock' \in [{"virtual", "bit"} -> Envs \cup {Nobody}]
      BY PlockFact DEF ConnectGivesUp, ConnectFails
    <2>8. op' \in [Envs -> OpSet]
      BY <1>2 DEF Becomes, Asks, Finishes, EndedBadly
    <2>. QED
      BY <2>1, <2>2, <2>3, <2>4, <2>5, <2>6, <2>7, <2>8 DEF Typed
  <1>5. Mine(e)'
    <2>1. OpOk(e)'
      BY <1>2
      DEF ConnectGivesUp, Becomes, Asks, Finishes, EndedBadly, Turns, At, Mine, OpOk,
          Statuses
    <2>2. PageOk(e)'
      BY <1>2
      DEF ConnectGivesUp, ConnectFails, Becomes, Asks, Finishes, EndedBadly, Turns, At,
          outside, handle, Mine, OpOk, PageOk
    <2>3. DetachOk(e)'
      BY <1>2
      DEF ConnectGivesUp, ConnectFails, Becomes, Asks, Finishes, EndedBadly, Turns, At,
          handle, Mine, OpOk, DetachOk, Bare
    <2>4. CookieOk(e)'
      BY <1>2
      DEF ConnectGivesUp, ConnectFails, Becomes, Asks, Finishes, EndedBadly, outside,
          handle, jar, Mine, OpOk, CookieOk, Seen
    <2>5. LockOk(e)'
      BY <1>2, <1>3
      DEF ConnectGivesUp, Becomes, Asks, Finishes, EndedBadly, At, driver, Mine, OpOk,
          LockOk
    <2>. QED
      BY <2>1, <2>2, <2>3, <2>4, <2>5 DEF Mine
  <1>6. Frame(e)
    BY <1>2, <1>3
    DEF ConnectGivesUp, ConnectFails, Becomes, Asks, Finishes, EndedBadly, Turns, Apart,
        outside, handle, jar, driver, Frame
  <1>7. Effect(e)
    BY <1>2
    DEF ConnectGivesUp, ConnectFails, Becomes, Asks, Finishes, EndedBadly, Turns, At,
        handle, driver, Mine, OpOk, PageOk, LockOk, Effect, Quiet, Uses, Leaky
  <1>. QED
    BY <1>4, <1>5, <1>6, <1>7 DEF Keeps

LEMMA ClosePageKeeps ==
  ASSUME Typed, NEW e \in Envs, Mine(e), ClosePage(e)
  PROVE  Keeps(e)
  <1>1. Goto(e, "releasing") => Becomes(e, op[e].do, "releasing", op[e].was, op[e].by)
    BY GotoFact
  <1>2. Typed'
    BY <1>1 DEF ClosePage, Becomes, outside, jar, driver, Typed
  <1>3. Mine(e)'
    BY <1>1
    DEF ClosePage, Becomes, outside, handle, jar, driver, Typed, Mine, OpOk, Closing,
        PageOk, DetachOk, Bare, CookieOk, Seen, LockOk
  <1>4. Frame(e)
    BY <1>1 DEF ClosePage, Becomes, outside, handle, jar, driver, Frame
  <1>5. Effect(e)
    BY <1>1
    DEF ClosePage, Becomes, driver, PageOk, LockOk, Closing, Effect, Quiet, Uses, Leaky
  <1>. QED
    BY <1>2, <1>3, <1>4, <1>5 DEF Keeps

LEMMA ReleaseKeeps ==
  ASSUME Typed, NEW e \in Envs, Mine(e), Release(e)
  PROVE  Keeps(e)
  <1>1. Goto(e, "closed") => Becomes(e, op[e].do, "closed", op[e].was, op[e].by)
    BY GotoFact
  <1>2. Goto(e, "stopping") => Becomes(e, op[e].do, "stopping", op[e].was, op[e].by)
    BY GotoFact
  <1>3. Typed'
    <2>1. status' \in [Envs -> {"creating", "ready", "busy", "running", "terminating", "gone"}]
      BY <1>1 DEF Release, Typed
    <2>2. win' \in [Envs -> BOOLEAN] /\ here' \in [Envs -> BOOLEAN]
      BY DEF Release, outside, Typed
    <2>3. /\ ws' \in [Envs -> {"none", "live", "stale"}]
        /\ page' \in [Envs -> {"none", "live", "dead"}] /\ ref' \in [Envs -> BOOLEAN]
      BY DEF Release, Typed
    <2>4. kept' \in [Envs -> Cookies] /\ shown' \in [Envs -> Cookies] /\ sure' \subseteq Envs
      BY DEF Release, jar, Typed
    <2>5. up' \in BOOLEAN /\ refs' \in Nat /\ dlock' \in Envs \cup {Nobody}
      BY DEF Release, Less, driver, Typed
    <2>6. cancels' \in 0..MaxCancel
      BY DEF Release, Typed
    <2>7. plock' \in [{"virtual", "bit"} -> Envs \cup {Nobody}]
      BY PlockFact DEF Release
    <2>8. op' \in [Envs -> OpSet]
      BY <1>1, <1>2 DEF Release, Becomes
    <2>. QED
      BY <2>1, <2>2, <2>3, <2>4, <2>5, <2>6, <2>7, <2>8 DEF Typed
  <1>4. Mine(e)'
    <2>1. OpOk(e)'
      BY <1>1, <1>2 DEF Release, Becomes, Mine, OpOk, Closing
    <2>2. PageOk(e)'
      BY <1>1, <1>2 DEF Release, Becomes, Typed, Mine, OpOk, PageOk
    <2>3. DetachOk(e)'
      BY <1>1, <1>2 DEF Release, Becomes, Mine, OpOk, DetachOk, Bare
    <2>4. CookieOk(e)'
      BY <1>1, <1>2 DEF Release, Becomes, outside, jar, Mine, OpOk, CookieOk, Seen
    <2>5. LockOk(e)'
      BY <1>1, <1>2 DEF Release, Becomes, driver, Mine, OpOk, LockOk
    <2>. QED
      BY <2>1, <2>2, <2>3, <2>4, <2>5 DEF Mine
  <1>5. Frame(e)
    BY <1>1, <1>2, BrowserAssumption
    DEF Release, Less, Becomes, outside, handle, jar, driver, Typed, Frame
  <1>6. Effect(e)
    BY <1>1, <1>2
    DEF Release, Less, Becomes, driver, Typed, PageOk, LockOk, Effect, Quiet, GivenBack,
        Uses, Leaky
  <1>. QED
    BY <1>3, <1>4, <1>5, <1>6 DEF Keeps

LEMMA DriverStopsKeeps ==
  ASSUME Typed, NEW e \in Envs, Mine(e), DriverStops(e)
  PROVE  Keeps(e)
  <1>1. Goto(e, "closed") => Becomes(e, op[e].do, "closed", op[e].was, op[e].by)
    BY GotoFact
  <1>2. Typed'
    BY <1>1 DEF DriverStops, Becomes, outside, jar, Typed
  <1>3. Mine(e)'
    <2>1. OpOk(e)'
      BY <1>1 DEF DriverStops, Becomes, Mine, OpOk
    <2>2. PageOk(e)'
      BY <1>1 DEF DriverStops, Becomes, Typed, Mine, OpOk, PageOk
    <2>3. DetachOk(e)'
      BY <1>1 DEF DriverStops, Becomes, Mine, OpOk, DetachOk, Bare
    <2>4. CookieOk(e)'
      BY <1>1 DEF DriverStops, Becomes, outside, jar, Mine, OpOk, CookieOk, Seen
    <2>5. LockOk(e)'
      BY <1>1, BrowserAssumption DEF DriverStops, Becomes, LockOk
    <2>. QED
      BY <2>1, <2>2, <2>3, <2>4, <2>5 DEF Mine
  <1>4. Frame(e)
    BY <1>1, BrowserAssumption
    DEF DriverStops, Becomes, outside, handle, jar, driver, Frame, Mine, LockOk
  <1>5. Effect(e)
    BY <1>1 DEF DriverStops, Becomes, Typed, PageOk, LockOk, Effect, Stopped, Uses, Leaky
  <1>. QED
    BY <1>2, <1>3, <1>4, <1>5 DEF Keeps

LEMMA StopBeginsKeeps ==
  ASSUME Typed, NEW e \in Envs, Mine(e), StopBegins(e)
  PROVE  Keeps(e)
  <1>1. Becomes(e, op[e].do, IF e \in Bit THEN "opening" ELSE "closing", status[e], op[e].by)
    BY NowFact DEF StopBegins, At, Mine, OpOk, Statuses
  <1>2. Typed'
    BY <1>1 DEF StopBegins, Takes, Status, Becomes, outside, handle, jar, driver, Typed
  <1>3. Mine(e)'
    <2>1. OpOk(e)'
      BY <1>1 DEF StopBegins, Status, Becomes, At, Typed, Mine, OpOk, Closing, Statuses
    <2>2. PageOk(e)'
      BY <1>1 DEF StopBegins, Status, Becomes, outside, handle, Typed, Mine, OpOk, PageOk
    <2>3. DetachOk(e)'
      BY <1>1 DEF StopBegins, Status, Becomes, handle, Mine, OpOk, DetachOk, Bare
    <2>4. CookieOk(e)'
      BY <1>1 DEF StopBegins, Becomes, outside, handle, jar, Mine, OpOk, CookieOk, Seen
    <2>5. LockOk(e)'
      BY <1>1 DEF StopBegins, Takes, Becomes, At, driver, Mine, OpOk, LockOk
    <2>. QED
      BY <2>1, <2>2, <2>3, <2>4, <2>5 DEF Mine
  <1>4. Frame(e)
    BY <1>1, BrowserAssumption
    DEF StopBegins, Takes, Status, Becomes, Lock, LockFree, outside, handle, jar, driver,
        Typed, Frame
  <1>5. Effect(e)
    BY <1>1
    DEF StopBegins, Status, Becomes, At, handle, driver, PageOk, LockOk, Effect, Quiet,
        Uses, Leaky
  <1>. QED
    BY <1>2, <1>3, <1>4, <1>5 DEF Keeps

LEMMA BitLooksKeeps ==
  ASSUME Typed, NEW e \in Envs, Mine(e), BitLooks(e)
  PROVE  Keeps(e)
  <1>1. Ends(e, TRUE) => EndedWell(e)
    BY EndsWell
  <1>2. Goto(e, "closing") => Becomes(e, op[e].do, "closing", op[e].was, op[e].by)
    BY GotoFact
  <1>3. \/ Becomes(e, op[e].do, "closing", op[e].was, op[e].by) /\ UNCHANGED <<status, plock>>
        \/ EndedWell(e) /\ Turns(e, "ready") /\ Drops(e)
    <2>1. \A s \in Statuses \cup {"gone"} : Status(e, s) => Turns(e, s)
      BY TurnsFact
    <2>. QED
      BY <1>1, <1>2, <2>1 DEF BitLooks, Statuses
  <1>4. Drops(e) => Apart(e) /\ \A k \in {"virtual", "bit"} : plock'[k] # e
    BY DropsFact
  <1>5. Typed'
    <2>1. status' \in [Envs -> {"creating", "ready", "busy", "running", "terminating", "gone"}]
      BY <1>3 DEF Turns, Typed
    <2>2. win' \in [Envs -> BOOLEAN] /\ here' \in [Envs -> BOOLEAN]
      BY DEF BitLooks, outside, Typed
    <2>3. /\ ws' \in [Envs -> {"none", "live", "stale"}]
        /\ page' \in [Envs -> {"none", "live", "dead"}] /\ ref' \in [Envs -> BOOLEAN]
      BY DEF BitLooks, handle, Typed
    <2>4. kept' \in [Envs -> Cookies] /\ shown' \in [Envs -> Cookies] /\ sure' \subseteq Envs
      BY DEF BitLooks, jar, Typed
    <2>5. up' \in BOOLEAN /\ refs' \in Nat /\ dlock' \in Envs \cup {Nobody}
      BY DEF BitLooks, driver, Typed
    <2>6. cancels' \in 0..MaxCancel
      BY DEF BitLooks, Typed
    <2>7. plock' \in [{"virtual", "bit"} -> Envs \cup {Nobody}]
      BY PlockFact DEF BitLooks
    <2>8. op' \in [Envs -> OpSet]
      BY <1>3 DEF Becomes, Asks, Finishes, EndedWell
    <2>. QED
      BY <2>1, <2>2, <2>3, <2>4, <2>5, <2>6, <2>7, <2>8 DEF Typed
  <1>6. Mine(e)'
    <2>1. OpOk(e)'
      BY <1>3
      DEF BitLooks, Becomes, Asks, Finishes, EndedWell, Turns, At, Mine, OpOk, Closing,
          Statuses
    <2>2. PageOk(e)'
      BY <1>3
      DEF BitLooks, Becomes, Asks, Finishes, EndedWell, Turns, outside, handle, Mine, OpOk,
          PageOk
    <2>3. DetachOk(e)'
      BY DEF BitLooks, Turns, At, Mine, OpOk, DetachOk, Bare
    <2>4. CookieOk(e)'
      BY <1>3
      DEF BitLooks, Becomes, Asks, Finishes, EndedWell, At, outside, handle, jar, Mine,
          OpOk, CookieOk, Seen
    <2>5. LockOk(e)'
      BY <1>3, <1>4
      DEF BitLooks, Becomes, Asks, Finishes, EndedWell, At, driver, Mine, OpOk, LockOk
    <2>. QED
      BY <2>1, <2>2, <2>3, <2>4, <2>5 DEF Mine
  <1>7. Frame(e)
    BY <1>3, <1>4
    DEF BitLooks, Becomes, Asks, Finishes, EndedWell, Turns, Apart, outside, handle, jar,
        driver, Frame
  <1>8. Effect(e)
    BY <1>3
    DEF BitLooks, Becomes, Asks, Finishes, EndedWell, Turns, At, handle, driver, Mine, OpOk,
        PageOk, LockOk, Effect, Quiet, Uses, Leaky
  <1>. QED
    BY <1>5, <1>6, <1>7, <1>8 DEF Keeps

LEMMA StopWindowKeeps ==
  ASSUME Typed, NEW e \in Envs, Mine(e), StopWindow(e)
  PROVE  Keeps(e)
  <1>1. Ends(e, TRUE) => EndedWell(e)
    BY EndsWell
  <1>2. Ends(e, FALSE) => EndedBadly(e)
    BY EndsBadly
  <1>3. Goto(e, "waiting") => Becomes(e, op[e].do, "waiting", op[e].was, op[e].by)
    BY GotoFact
  <1>4. CloseWindow(e) => Shut(e)
    BY ShutFact
  <1>5. Closed(e) => Emptied(e)
    BY EmptiedFact
  <1>6. \/ Becomes(e, op[e].do, "waiting", op[e].was, op[e].by) /\ UNCHANGED <<status, plock>>
        \/ EndedWell(e) /\ Turns(e, "ready") /\ Drops(e)
        \/ EndedBadly(e) /\ Turns(e, op[e].was) /\ Drops(e)
    <2>1. op[e].was \in Statuses
      BY DEF StopWindow, At, Mine, OpOk
    <2>2. \A s \in Statuses \cup {"gone"} : Status(e, s) => Turns(e, s)
      BY TurnsFact
    <2>. QED
      BY <1>1, <1>2, <1>3, <1>5, <2>1, <2>2
      DEF StopWindow, Shut, Emptied, CloseFails, Statuses
  <1>7. Drops(e) => Apart(e) /\ \A k \in {"virtual", "bit"} : plock'[k] # e
    BY DropsFact
  <1>8. Typed'
    <2>1. status' \in [Envs -> {"creating", "ready", "busy", "running", "terminating", "gone"}]
      BY <1>6 DEF Turns, Typed
    <2>2. win' \in [Envs -> BOOLEAN] /\ here' \in [Envs -> BOOLEAN]
      BY <1>4 DEF StopWindow, Shut, Typed
    <2>3. /\ ws' \in [Envs -> {"none", "live", "stale"}]
        /\ page' \in [Envs -> {"none", "live", "dead"}] /\ ref' \in [Envs -> BOOLEAN]
      BY <1>4, <1>5 DEF StopWindow, Shut, Emptied, CloseFails, handle, Typed
    <2>4. kept' \in [Envs -> Cookies] /\ shown' \in [Envs -> Cookies] /\ sure' \subseteq Envs
        <3>1. \/ UNCHANGED kept
              \/ \E c \in {kept[e], shown[e]} : kept' = [kept EXCEPT ![e] = c]
          BY DEF StopWindow, CloseWindow, Closed
        <3>2. kept' \in [Envs -> Cookies]
          BY <3>1 DEF Typed
        <3>. QED
          BY <3>2 DEF StopWindow, Typed
    <2>5. up' \in BOOLEAN /\ refs' \in Nat /\ dlock' \in Envs \cup {Nobody}
      BY <1>4 DEF StopWindow, driver, Typed
    <2>6. cancels' \in 0..MaxCancel
      BY <1>4 DEF StopWindow, Typed
    <2>7. plock' \in [{"virtual", "bit"} -> Envs \cup {Nobody}]
      BY <1>6, <1>4, PlockFact DEF StopWindow, Emptied, CloseFails
    <2>8. op' \in [Envs -> OpSet]
      BY <1>6 DEF Becomes, Asks, Finishes, EndedWell, EndedBadly
    <2>. QED
      BY <2>1, <2>2, <2>3, <2>4, <2>5, <2>6, <2>7, <2>8 DEF Typed
  <1>9. Mine(e)'
    <2>1. OpOk(e)'
      BY <1>6
      DEF StopWindow, Becomes, Asks, Finishes, EndedWell, EndedBadly, Turns, At, Mine, OpOk,
          Statuses
    <2>2. PageOk(e)'
      <3>1. page'[e] # "live" /\ ~ref'[e]
        BY <1>4, <1>5 DEF StopWindow, Shut, Emptied, CloseFails, handle, Mine, PageOk, At
      <3>2. op'[e].pc # "attaching"
        BY <1>6 DEF Becomes, Asks, Finishes, EndedWell, EndedBadly
      <3>. QED
        BY <3>1, <3>2 DEF PageOk
    <2>3. DetachOk(e)'
      BY <1>4, <1>5
      DEF StopWindow, Shut, Emptied, CloseFails, Turns, At, handle, Mine, OpOk, DetachOk,
          Bare, PageOk
    <2>4. CookieOk(e)'
      <3>1. Seen(e)' => Seen(e)
        BY <1>6
        DEF StopWindow, At, Mine, OpOk, Becomes, Asks, Finishes, EndedWell, EndedBadly, Seen
      <3>2. win'[e] => win[e] /\ kept'[e] = kept[e]
        BY <1>4 DEF StopWindow, Shut, Typed
      <3>3. UNCHANGED <<shown, sure>> /\ e \notin sure
        BY DEF StopWindow, Mine, CookieOk, At
      <3>. QED
        BY <3>1, <3>2, <3>3 DEF Mine, CookieOk
    <2>5. LockOk(e)'
      BY <1>6, <1>7
      DEF StopWindow, Becomes, Asks, Finishes, EndedWell, EndedBadly, At, driver, Mine,
          OpOk, LockOk
    <2>. QED
      BY <2>1, <2>2, <2>3, <2>4, <2>5 DEF Mine
  <1>10. Frame(e)
    <2>1. Apart(e)
      BY <1>6, <1>4, <1>7 DEF StopWindow, Emptied, CloseFails, Apart
    <2>2. \A f \in Envs \ {e} : op'[f] = op[f] /\ status'[f] = status[f]
      BY <1>6 DEF Becomes, Asks, Finishes, EndedWell, EndedBadly, Turns
    <2>3. \A f \in Envs \ {e} : win'[f] = win[f] /\ page'[f] = page[f] /\ ref'[f] = ref[f]
      BY <1>4, <1>5 DEF StopWindow, Shut, Emptied, CloseFails, handle, Typed
    <2>4. UNCHANGED <<shown, sure>> /\ \A f \in Envs \ {e} : kept'[f] = kept[f]
      <3>1. \/ UNCHANGED kept
            \/ \E c \in {kept[e], shown[e]} : kept' = [kept EXCEPT ![e] = c]
        BY DEF StopWindow, CloseWindow, Closed
      <3>. QED
      BY <3>1 DEF StopWindow, Typed
    <2>5. UNCHANGED <<dlock, cancels>>
      BY <1>4 DEF StopWindow, driver
    <2>. QED
      BY <2>1, <2>2, <2>3, <2>4, <2>5 DEF Frame, Apart
  <1>11. Effect(e)
    BY <1>6, <1>5
    DEF StopWindow, Emptied, CloseFails, Becomes, Asks, Finishes, EndedWell, EndedBadly,
        Turns, At, handle, driver, Mine, OpOk, PageOk, LockOk, Effect, Quiet, Uses, Leaky
  <1>. QED
    BY <1>8, <1>9, <1>10, <1>11 DEF Keeps

LEMMA WaitClosedKeeps ==
  ASSUME Typed, NEW e \in Envs, Mine(e), WaitClosed(e)
  PROVE  Keeps(e)
  <1>1. Ends(e, TRUE) => EndedWell(e)
    BY EndsWell
  <1>2. Ends(e, FALSE) => EndedBadly(e)
    BY EndsBadly
  <1>3. Closed(e) => Emptied(e)
    BY EmptiedFact
  <1>4. \/ EndedWell(e) /\ Turns(e, "ready") /\ Drops(e)
        \/ EndedBadly(e) /\ Turns(e, op[e].was) /\ Drops(e)
    <2>1. op[e].was \in Statuses
      BY DEF WaitClosed, At, Mine, OpOk
    <2>2. \A s \in Statuses \cup {"gone"} : Status(e, s) => Turns(e, s)
      BY TurnsFact
    <2>. QED
      BY <1>1, <1>2, <1>3, <2>1, <2>2 DEF WaitClosed, Emptied, CloseFails, Statuses
  <1>5. Drops(e) => Apart(e) /\ \A k \in {"virtual", "bit"} : plock'[k] # e
    BY DropsFact
  <1>6. Typed'
    <2>1. status' \in [Envs -> {"creating", "ready", "busy", "running", "terminating", "gone"}]
      BY <1>4 DEF Turns
    <2>2. win' \in [Envs -> BOOLEAN] /\ here' \in [Envs -> BOOLEAN]
      BY <1>4 DEF WaitClosed, outside, Typed
    <2>3. /\ ws' \in [Envs -> {"none", "live", "stale"}]
        /\ page' \in [Envs -> {"none", "live", "dead"}] /\ ref' \in [Envs -> BOOLEAN]
      BY <1>3 DEF WaitClosed, Emptied, CloseFails, handle, Typed
    <2>4. kept' \in [Envs -> Cookies] /\ shown' \in [Envs -> Cookies] /\ sure' \subseteq Envs
      BY <1>4 DEF WaitClosed, jar, Typed
    <2>5. up' \in BOOLEAN /\ refs' \in Nat /\ dlock' \in Envs \cup {Nobody}
      BY <1>4 DEF WaitClosed, driver, Typed
    <2>6. cancels' \in 0..MaxCancel
      BY <1>4 DEF WaitClosed, Typed
    <2>7. plock' \in [{"virtual", "bit"} -> Envs \cup {Nobody}]
      BY <1>4, PlockFact DEF WaitClosed, Emptied, CloseFails
    <2>8. op' \in [Envs -> OpSet]
      BY <1>4 DEF Becomes, Asks, Finishes, EndedWell, EndedBadly
    <2>. QED
      BY <2>1, <2>2, <2>3, <2>4, <2>5, <2>6, <2>7, <2>8 DEF Typed
  <1>7. Mine(e)'
    <2>1. OpOk(e)'
      BY <1>4
      DEF WaitClosed, Becomes, Asks, Finishes, EndedWell, EndedBadly, Turns, At, Mine, OpOk,
          Statuses
    <2>2. PageOk(e)'
      BY <1>4, <1>3
      DEF WaitClosed, Emptied, CloseFails, Becomes, Asks, Finishes, EndedWell, EndedBadly,
          Turns, At, outside, handle, Mine, OpOk, PageOk
    <2>3. DetachOk(e)'
      BY <1>3
      DEF WaitClosed, Emptied, CloseFails, Turns, At, handle, Mine, OpOk, DetachOk, Bare,
          PageOk
    <2>4. CookieOk(e)'
      BY <1>4
      DEF WaitClosed, Emptied, CloseFails, Becomes, Asks, Finishes, EndedWell, EndedBadly,
          At, outside, handle, jar, Mine, OpOk, CookieOk, Seen
    <2>5. LockOk(e)'
      BY <1>4, <1>5
      DEF WaitClosed, Becomes, Asks, Finishes, EndedWell, EndedBadly, At, driver, Mine,
          OpOk, LockOk
    <2>. QED
      BY <2>1, <2>2, <2>3, <2>4, <2>5 DEF Mine
  <1>8. Frame(e)
    <2>1. Apart(e)
      BY <1>4, <1>5 DEF WaitClosed, Emptied, CloseFails, Apart
    <2>2. \A f \in Envs \ {e} : op'[f] = op[f] /\ status'[f] = status[f]
      BY <1>4 DEF Becomes, Asks, Finishes, EndedWell, EndedBadly, Turns
    <2>3. \A f \in Envs \ {e} :
           /\ win'[f] = win[f] /\ page'[f] = page[f] /\ ref'[f] = ref[f]
           /\ kept'[f] = kept[f] /\ shown'[f] = shown[f] /\ (f \in sure' <=> f \in sure)
      BY <1>3 DEF WaitClosed, Emptied, CloseFails, outside, handle, jar
    <2>4. UNCHANGED <<dlock, cancels>>
      BY <1>4 DEF WaitClosed, driver
    <2>. QED
      BY <2>1, <2>2, <2>3, <2>4 DEF Frame, Apart
  <1>9. Effect(e)
    BY <1>4, <1>3
    DEF WaitClosed, Emptied, CloseFails, Becomes, Asks, Finishes, EndedWell, EndedBadly,
        Turns, At, handle, driver, Mine, OpOk, PageOk, LockOk, Effect, Quiet, Uses, Leaky
  <1>. QED
    BY <1>6, <1>7, <1>8, <1>9 DEF Keeps

LEMMA DestroyBeginsKeeps ==
  ASSUME Typed, NEW e \in Envs, Mine(e), DestroyBegins(e)
  PROVE  Keeps(e)
  <1>1. Now(e, "destroy", "closing", status[e])
        => Becomes(e, "destroy", "closing", status[e], op[e].by)
    BY NowFact DEF DestroyBegins, At, Mine, OpOk, Statuses
  <1>2. Typed'
    BY <1>1 DEF DestroyBegins, Takes, Status, Becomes, outside, handle, jar, driver, Typed
  <1>3. Mine(e)'
    <2>1. OpOk(e)'
      BY <1>1 DEF DestroyBegins, Status, Becomes, At, Mine, OpOk, Closing
    <2>2. PageOk(e)'
      BY <1>1 DEF DestroyBegins, Status, Becomes, outside, handle, Mine, OpOk, PageOk
    <2>3. DetachOk(e)'
      BY <1>1 DEF DestroyBegins, Status, Becomes, Typed, DetachOk, Bare
    <2>4. CookieOk(e)'
      BY <1>1
      DEF DestroyBegins, Becomes, At, outside, handle, jar, Mine, OpOk, CookieOk, Seen
    <2>5. LockOk(e)'
      BY <1>1 DEF DestroyBegins, Takes, Becomes, At, driver, Mine, OpOk, LockOk
    <2>. QED
      BY <2>1, <2>2, <2>3, <2>4, <2>5 DEF Mine
  <1>4. Frame(e)
    BY <1>1, BrowserAssumption
    DEF DestroyBegins, Takes, Status, Becomes, Lock, LockFree, outside, handle, jar, driver,
        Typed, Frame
  <1>5. Effect(e)
    BY <1>1
    DEF DestroyBegins, Status, Becomes, At, handle, driver, PageOk, LockOk, Effect, Quiet,
        Uses, Leaky
  <1>. QED
    BY <1>2, <1>3, <1>4, <1>5 DEF Keeps

LEMMA LookUpKeeps ==
  ASSUME Typed, NEW e \in Envs, Mine(e), LookUp(e)
  PROVE  Keeps(e)
  <1>1. Ends(e, TRUE) => EndedWell(e)
    BY EndsWell
  <1>2. Ends(e, FALSE) => EndedBadly(e)
    BY EndsBadly
  <1>3. Goto(e, "deleting") => Becomes(e, op[e].do, "deleting", op[e].was, op[e].by)
    BY GotoFact
  <1>4. CloseWindow(e) => Shut(e)
    BY ShutFact
  <1>5. \/ EndedWell(e) /\ Turns(e, "gone") /\ Drops(e)
        \/ Becomes(e, op[e].do, "deleting", op[e].was, op[e].by) /\ UNCHANGED <<status, plock>>
        \/ EndedBadly(e) /\ Turns(e, op[e].was) /\ Drops(e)
    <2>1. op[e].was \in Statuses
      BY DEF LookUp, At, Mine, OpOk
    <2>2. \A s \in Statuses \cup {"gone"} : Status(e, s) => Turns(e, s)
      BY TurnsFact
    <2>. QED
      BY <1>1, <1>2, <1>3, <2>1, <2>2 DEF LookUp, Gone, DestroyFails, Shut
  <1>6. Drops(e) => Apart(e) /\ \A k \in {"virtual", "bit"} : plock'[k] # e
    BY DropsFact
  <1>7. Typed'
    <2>1. status' \in [Envs -> {"creating", "ready", "busy", "running", "terminating", "gone"}]
      BY <1>5 DEF Turns, Typed
    <2>2. win' \in [Envs -> BOOLEAN] /\ here' \in [Envs -> BOOLEAN]
      BY <1>4 DEF LookUp, Shut, Typed
    <2>3. /\ ws' \in [Envs -> {"none", "live", "stale"}]
        /\ page' \in [Envs -> {"none", "live", "dead"}] /\ ref' \in [Envs -> BOOLEAN]
      BY <1>4 DEF LookUp, Shut, Typed
    <2>4. kept' \in [Envs -> Cookies] /\ shown' \in [Envs -> Cookies] /\ sure' \subseteq Envs
        <3>1. \/ UNCHANGED kept
              \/ \E c \in {kept[e], shown[e]} : kept' = [kept EXCEPT ![e] = c]
          BY DEF LookUp, CloseWindow
        <3>2. kept' \in [Envs -> Cookies]
          BY <3>1 DEF Typed
        <3>. QED
          BY <3>2 DEF LookUp, Typed
    <2>5. up' \in BOOLEAN /\ refs' \in Nat /\ dlock' \in Envs \cup {Nobody}
      BY <1>5 DEF LookUp, driver, Typed
    <2>6. cancels' \in 0..MaxCancel
      BY <1>5 DEF LookUp, Typed
    <2>7. plock' \in [{"virtual", "bit"} -> Envs \cup {Nobody}]
      BY <1>5, PlockFact DEF LookUp, Gone, DestroyFails
    <2>8. op' \in [Envs -> OpSet]
      BY <1>5 DEF Becomes, Asks, Finishes, EndedWell, EndedBadly
    <2>. QED
      BY <2>1, <2>2, <2>3, <2>4, <2>5, <2>6, <2>7, <2>8 DEF Typed
  <1>8. Mine(e)'
    <2>1. OpOk(e)'
      BY <1>5
      DEF LookUp, Becomes, Asks, Finishes, EndedWell, EndedBadly, Turns, At, Mine, OpOk
    <2>2. PageOk(e)'
      BY <1>5, <1>4
      DEF LookUp, Gone, DestroyFails, Shut, Becomes, Asks, Finishes, EndedWell, EndedBadly,
          Turns, At, Mine, OpOk, PageOk
    <2>3. DetachOk(e)'
      BY <1>4
      DEF LookUp, Gone, DestroyFails, Shut, Turns, At, Mine, OpOk, DetachOk, Bare, PageOk
    <2>4. CookieOk(e)'
      BY <1>5
      DEF LookUp, Gone, DestroyFails, Shut, Becomes, Asks, Finishes, EndedWell, EndedBadly,
          At, Mine, OpOk, CookieOk, Seen
    <2>5. LockOk(e)'
      BY <1>5, <1>6
      DEF LookUp, Becomes, Asks, Finishes, EndedWell, EndedBadly, At, driver, Mine, OpOk,
          LockOk
    <2>. QED
      BY <2>1, <2>2, <2>3, <2>4, <2>5 DEF Mine
  <1>9. Frame(e)
    <2>1. Apart(e)
      BY <1>5, <1>6 DEF LookUp, Gone, DestroyFails, Apart
    <2>2. \A f \in Envs \ {e} : op'[f] = op[f] /\ status'[f] = status[f]
      BY <1>5 DEF Becomes, Asks, Finishes, EndedWell, EndedBadly, Turns
    <2>3. \A f \in Envs \ {e} :
           /\ win'[f] = win[f] /\ page'[f] = page[f] /\ ref'[f] = ref[f]
           /\ kept'[f] = kept[f] /\ shown'[f] = shown[f] /\ (f \in sure' <=> f \in sure)
      BY <1>4 DEF LookUp, Shut
    <2>4. UNCHANGED <<dlock, cancels>>
      BY <1>5 DEF LookUp, driver
    <2>. QED
      BY <2>1, <2>2, <2>3, <2>4 DEF Frame, Apart
  <1>10. Effect(e)
    BY <1>5
    DEF LookUp, Gone, DestroyFails, Becomes, Asks, Finishes, EndedWell, EndedBadly, Turns,
        At, driver, Mine, OpOk, PageOk, LockOk, Effect, Quiet, Uses, Leaky
  <1>. QED
    BY <1>7, <1>8, <1>9, <1>10 DEF Keeps

LEMMA DeleteKeeps ==
  ASSUME Typed, NEW e \in Envs, Mine(e), Delete(e)
  PROVE  Keeps(e)
  <1>1. Ends(e, TRUE) => EndedWell(e)
    BY EndsWell
  <1>2. Ends(e, FALSE) => EndedBadly(e)
    BY EndsBadly
  <1>3. CloseWindow(e) => Shut(e)
    BY ShutFact
  <1>4. \/ EndedWell(e) /\ Turns(e, "gone") /\ Drops(e)
        \/ EndedBadly(e) /\ Turns(e, op[e].was) /\ Drops(e)
    <2>1. op[e].was \in Statuses
      BY DEF Delete, At, Mine, OpOk
    <2>2. \A s \in Statuses \cup {"gone"} : Status(e, s) => Turns(e, s)
      BY TurnsFact
    <2>. QED
      BY <1>1, <1>2, <2>1, <2>2 DEF Delete, Gone, DestroyFails, Shut
  <1>5. Drops(e) => Apart(e) /\ \A k \in {"virtual", "bit"} : plock'[k] # e
    BY DropsFact
  <1>6. Typed'
    <2>1. status' \in [Envs -> {"creating", "ready", "busy", "running", "terminating", "gone"}]
      BY <1>4 DEF Turns
    <2>2. win' \in [Envs -> BOOLEAN] /\ here' \in [Envs -> BOOLEAN]
      BY <1>3 DEF Delete, Shut, outside, Typed
    <2>3. /\ ws' \in [Envs -> {"none", "live", "stale"}]
        /\ page' \in [Envs -> {"none", "live", "dead"}] /\ ref' \in [Envs -> BOOLEAN]
      BY <1>3 DEF Delete, Shut, Typed
    <2>4. kept' \in [Envs -> Cookies] /\ shown' \in [Envs -> Cookies] /\ sure' \subseteq Envs
        <3>1. \/ UNCHANGED kept
              \/ \E c \in {kept[e], shown[e]} : kept' = [kept EXCEPT ![e] = c]
          BY DEF Delete, CloseWindow
        <3>2. kept' \in [Envs -> Cookies]
          BY <3>1 DEF Typed
        <3>. QED
          BY <3>2 DEF Delete, Typed
    <2>5. up' \in BOOLEAN /\ refs' \in Nat /\ dlock' \in Envs \cup {Nobody}
      BY <1>4 DEF Delete, driver, Typed
    <2>6. cancels' \in 0..MaxCancel
      BY <1>4 DEF Delete, Typed
    <2>7. plock' \in [{"virtual", "bit"} -> Envs \cup {Nobody}]
      BY <1>4, PlockFact DEF Delete, Gone, DestroyFails
    <2>8. op' \in [Envs -> OpSet]
      BY <1>4 DEF Becomes, Asks, Finishes, EndedWell, EndedBadly
    <2>. QED
      BY <2>1, <2>2, <2>3, <2>4, <2>5, <2>6, <2>7, <2>8 DEF Typed
  <1>7. Mine(e)'
    <2>1. OpOk(e)'
      BY <1>4
      DEF Delete, Becomes, Asks, Finishes, EndedWell, EndedBadly, Turns, At, Mine, OpOk
    <2>2. PageOk(e)'
      BY <1>4, <1>3
      DEF Delete, Gone, DestroyFails, Shut, Becomes, Asks, Finishes, EndedWell, EndedBadly,
          Turns, At, Mine, OpOk, PageOk
    <2>3. DetachOk(e)'
      BY <1>3
      DEF Delete, Gone, DestroyFails, Shut, Turns, At, Mine, OpOk, DetachOk, Bare, PageOk
    <2>4. CookieOk(e)'
      BY <1>4
      DEF Delete, Gone, DestroyFails, Shut, Becomes, Asks, Finishes, EndedWell, EndedBadly,
          At, Mine, OpOk, CookieOk, Seen
    <2>5. LockOk(e)'
      BY <1>4, <1>5
      DEF Delete, Becomes, Asks, Finishes, EndedWell, EndedBadly, At, driver, Mine, OpOk,
          LockOk
    <2>. QED
      BY <2>1, <2>2, <2>3, <2>4, <2>5 DEF Mine
  <1>8. Frame(e)
    <2>1. Apart(e)
      BY <1>4, <1>5 DEF Delete, Gone, DestroyFails, Apart
    <2>2. \A f \in Envs \ {e} : op'[f] = op[f] /\ status'[f] = status[f]
      BY <1>4 DEF Becomes, Asks, Finishes, EndedWell, EndedBadly, Turns
    <2>3. \A f \in Envs \ {e} :
           /\ win'[f] = win[f] /\ page'[f] = page[f] /\ ref'[f] = ref[f]
           /\ kept'[f] = kept[f] /\ shown'[f] = shown[f] /\ (f \in sure' <=> f \in sure)
      BY <1>3 DEF Delete, Shut, outside
    <2>4. UNCHANGED <<dlock, cancels>>
      BY <1>4 DEF Delete, driver
    <2>. QED
      BY <2>1, <2>2, <2>3, <2>4 DEF Frame, Apart
  <1>9. Effect(e)
    BY <1>4
    DEF Delete, Gone, DestroyFails, Becomes, Asks, Finishes, EndedWell, EndedBadly, Turns,
        At, driver, Mine, OpOk, PageOk, LockOk, Effect, Quiet, Uses, Leaky
  <1>. QED
    BY <1>6, <1>7, <1>8, <1>9 DEF Keeps

LEMMA CompareKeeps ==
  ASSUME Typed, NEW e \in Envs, Mine(e), Compare(e)
  PROVE  Keeps(e)
  <1>1. op' = [op EXCEPT ![e] = NoOp] => Finishes(e)
    BY NoOpFact
  <1>2. Restart(e) => Asks(e, IF status[e] = "ready" THEN "start" ELSE "stop")
    BY NowFact DEF Restart, Asks
  <1>3. Goto(e, "replacing") => Becomes(e, op[e].do, "replacing", op[e].was, op[e].by)
    BY GotoFact
  <1>4. Typed'
    <2>1. status' \in [Envs -> {"creating", "ready", "busy", "running", "terminating", "gone"}]
      BY <1>2 DEF Compare, Matches, Context, Typed
    <2>2. win' \in [Envs -> BOOLEAN] /\ here' \in [Envs -> BOOLEAN]
      BY DEF Compare, Matches, Context, outside, Typed
    <2>3. /\ ws' \in [Envs -> {"none", "live", "stale"}]
        /\ page' \in [Envs -> {"none", "live", "dead"}] /\ ref' \in [Envs -> BOOLEAN]
      BY DEF Compare, Matches, Context, handle, Typed
    <2>4. kept' \in [Envs -> Cookies] /\ shown' \in [Envs -> Cookies] /\ sure' \subseteq Envs
      BY DEF Compare, GivesUp, Matches, Context, Succeeds, Restart, Typed
    <2>5. up' \in BOOLEAN /\ refs' \in Nat /\ dlock' \in Envs \cup {Nobody}
      BY DEF Compare, Matches, Context, driver, Typed
    <2>6. cancels' \in 0..MaxCancel
      BY DEF Compare, Matches, Context, Typed
    <2>7. plock' \in [{"virtual", "bit"} -> Envs \cup {Nobody}]
      BY PlockFact DEF Compare
    <2>8. op' \in [Envs -> OpSet]
      BY <1>1, <1>2, <1>3
      DEF Compare, GivesUp, Matches, Context, Succeeds, Restart, Becomes, Asks, Finishes
    <2>. QED
      BY <2>1, <2>2, <2>3, <2>4, <2>5, <2>6, <2>7, <2>8 DEF Typed
  <1>5. Mine(e)'
    <2>1. OpOk(e)'
      BY <1>1, <1>2, <1>3
      DEF Compare, GivesUp, Matches, Context, Succeeds, Restart, Becomes, Asks, Finishes,
          At, Mine, OpOk
    <2>2. PageOk(e)'
      BY <1>1, <1>2, <1>3
      DEF Compare, GivesUp, Matches, Context, Succeeds, Restart, Becomes, Asks, Finishes,
          outside, handle, Mine, OpOk, PageOk
    <2>3. DetachOk(e)'
      BY <1>1, <1>2, <1>3
      DEF Compare, GivesUp, Matches, Context, Succeeds, Restart, Becomes, Asks, Finishes,
          At, handle, Mine, OpOk, DetachOk, Bare
    <2>4. CookieOk(e)'
      BY <1>1, <1>3
      DEF Compare, GivesUp, Matches, Context, Succeeds, Restart, Becomes, Asks, Finishes,
          outside, handle, Mine, OpOk, CookieOk, Seen
    <2>5. LockOk(e)'
      BY <1>1, <1>2, <1>3
      DEF Compare, GivesUp, Matches, Context, Succeeds, Restart, Becomes, Asks, Finishes,
          At, driver, Mine, OpOk, LockOk
    <2>. QED
      BY <2>1, <2>2, <2>3, <2>4, <2>5 DEF Mine
  <1>6. Frame(e)
    BY <1>1, <1>2, <1>3
    DEF Compare, GivesUp, Matches, Context, Succeeds, Restart, Becomes, Asks, Finishes,
        outside, handle, jar, driver, Frame
  <1>7. Effect(e)
    BY <1>1, <1>2, <1>3
    DEF Compare, GivesUp, Matches, Context, Succeeds, Restart, Becomes, Asks, Finishes, At,
        handle, driver, Mine, OpOk, PageOk, LockOk, Effect, Quiet, Uses, Leaky
  <1>. QED
    BY <1>4, <1>5, <1>6, <1>7 DEF Keeps

LEMMA ReplaceKeeps ==
  ASSUME Typed, NEW e \in Envs, Mine(e), Replace(e)
  PROVE  Keeps(e)
  <1>1. op' = [op EXCEPT ![e] = NoOp] => Finishes(e)
    BY NoOpFact
  <1>2. Goto(e, "verifying") => Becomes(e, op[e].do, "verifying", op[e].was, op[e].by)
    BY GotoFact
  <1>3. Typed'
    <2>1. status' \in [Envs -> {"creating", "ready", "busy", "running", "terminating", "gone"}]
      BY <1>1 DEF Replace, Typed
    <2>2. win' \in [Envs -> BOOLEAN] /\ here' \in [Envs -> BOOLEAN]
      BY DEF Replace, outside, Typed
    <2>3. /\ ws' \in [Envs -> {"none", "live", "stale"}]
        /\ page' \in [Envs -> {"none", "live", "dead"}] /\ ref' \in [Envs -> BOOLEAN]
      BY DEF Replace, handle, Typed
    <2>4. kept' \in [Envs -> Cookies] /\ shown' \in [Envs -> Cookies] /\ sure' \subseteq Envs
      BY DEF Replace, GivesUp, Typed, Cookies
    <2>5. up' \in BOOLEAN /\ refs' \in Nat /\ dlock' \in Envs \cup {Nobody}
      BY DEF Replace, driver, Typed
    <2>6. cancels' \in 0..MaxCancel
      BY DEF Replace, Typed
    <2>7. plock' \in [{"virtual", "bit"} -> Envs \cup {Nobody}]
      BY PlockFact DEF Replace
    <2>8. op' \in [Envs -> OpSet]
      BY <1>1, <1>2 DEF Replace, GivesUp, Becomes, Asks, Finishes
    <2>. QED
      BY <2>1, <2>2, <2>3, <2>4, <2>5, <2>6, <2>7, <2>8 DEF Typed
  <1>4. Mine(e)'
    <2>1. OpOk(e)'
      BY <1>1, <1>2 DEF Replace, GivesUp, Becomes, Asks, Finishes, At, Mine, OpOk
    <2>2. PageOk(e)'
      BY <1>1, <1>2
      DEF Replace, GivesUp, Becomes, Asks, Finishes, outside, handle, Mine, OpOk, PageOk
    <2>3. DetachOk(e)'
      BY <1>1, <1>2
      DEF Replace, GivesUp, Becomes, Asks, Finishes, At, handle, Mine, OpOk, DetachOk, Bare
    <2>4. CookieOk(e)'
      BY <1>1
      DEF Replace, GivesUp, Becomes, Asks, Finishes, At, Typed, Mine, OpOk, CookieOk, Seen
    <2>5. LockOk(e)'
      BY <1>1, <1>2
      DEF Replace, GivesUp, Becomes, Asks, Finishes, At, driver, Mine, OpOk, LockOk
    <2>. QED
      BY <2>1, <2>2, <2>3, <2>4, <2>5 DEF Mine
  <1>5. Frame(e)
    BY <1>2
    DEF Replace, GivesUp, Becomes, Asks, Finishes, outside, handle, jar, driver, Typed,
        Frame
  <1>6. Effect(e)
    BY <1>1, <1>2
    DEF Replace, GivesUp, Becomes, Asks, Finishes, At, handle, driver, PageOk, LockOk,
        Effect, Quiet, Uses, Leaky
  <1>. QED
    BY <1>3, <1>4, <1>5, <1>6 DEF Keeps

LEMMA VerifyKeeps ==
  ASSUME Typed, NEW e \in Envs, Mine(e), Verify(e)
  PROVE  Keeps(e)
  <1>1. op' = [op EXCEPT ![e] = NoOp] => Finishes(e)
    BY NoOpFact
  <1>2. Restart(e) => Asks(e, IF status[e] = "ready" THEN "start" ELSE "stop")
    BY NowFact DEF Restart, Asks
  <1>3. Typed'
    <2>1. status' \in [Envs -> {"creating", "ready", "busy", "running", "terminating", "gone"}]
      BY <1>1 DEF Verify, Typed
    <2>2. win' \in [Envs -> BOOLEAN] /\ here' \in [Envs -> BOOLEAN]
      BY DEF Verify, outside, Typed
    <2>3. /\ ws' \in [Envs -> {"none", "live", "stale"}]
        /\ page' \in [Envs -> {"none", "live", "dead"}] /\ ref' \in [Envs -> BOOLEAN]
      BY DEF Verify, handle, Typed
    <2>4. kept' \in [Envs -> Cookies] /\ shown' \in [Envs -> Cookies] /\ sure' \subseteq Envs
      BY DEF Verify, GivesUp, Restart, Typed
    <2>5. up' \in BOOLEAN /\ refs' \in Nat /\ dlock' \in Envs \cup {Nobody}
      BY DEF Verify, driver, Typed
    <2>6. cancels' \in 0..MaxCancel
      BY DEF Verify, Typed
    <2>7. plock' \in [{"virtual", "bit"} -> Envs \cup {Nobody}]
      BY PlockFact DEF Verify
    <2>8. op' \in [Envs -> OpSet]
      BY <1>1, <1>2 DEF Verify, GivesUp, Restart, Becomes, Asks, Finishes
    <2>. QED
      BY <2>1, <2>2, <2>3, <2>4, <2>5, <2>6, <2>7, <2>8 DEF Typed
  <1>4. Mine(e)'
    <2>1. OpOk(e)'
      BY <1>1, <1>2 DEF Verify, GivesUp, Restart, Becomes, Asks, Finishes, At, Mine, OpOk
    <2>2. PageOk(e)'
      BY <1>1, <1>2
      DEF Verify, GivesUp, Restart, Becomes, Asks, Finishes, outside, handle, Mine, OpOk,
          PageOk
    <2>3. DetachOk(e)'
      BY <1>1, <1>2
      DEF Verify, GivesUp, Restart, Becomes, Asks, Finishes, At, handle, Mine, OpOk,
          DetachOk, Bare
    <2>4. CookieOk(e)'
      BY <1>1 DEF Verify, GivesUp, Restart, At, outside, handle, Mine, OpOk, CookieOk, Seen
    <2>5. LockOk(e)'
      BY <1>1, <1>2
      DEF Verify, GivesUp, Restart, Becomes, Asks, Finishes, At, driver, Mine, OpOk, LockOk
    <2>. QED
      BY <2>1, <2>2, <2>3, <2>4, <2>5 DEF Mine
  <1>5. Frame(e)
    BY <1>1, <1>2
    DEF Verify, GivesUp, Restart, Becomes, Asks, Finishes, outside, handle, jar, driver,
        Frame
  <1>6. Effect(e)
    BY <1>1, <1>2
    DEF Verify, GivesUp, Restart, Becomes, Asks, Finishes, At, handle, driver, Mine, OpOk,
        PageOk, LockOk, Effect, Quiet, Uses, Leaky
  <1>. QED
    BY <1>3, <1>4, <1>5, <1>6 DEF Keeps

LEMMA CheckKeeps ==
  ASSUME Typed, NEW e \in Envs, Mine(e), Check(e)
  PROVE  Keeps(e)
  <1>1. op' = [op EXCEPT ![e] = NoOp] => Finishes(e)
    BY NoOpFact
  <1>2. Typed'
    <2>1. status' \in [Envs -> {"creating", "ready", "busy", "running", "terminating", "gone"}]
      BY DEF Check, Matches, Context, Typed
    <2>2. win' \in [Envs -> BOOLEAN] /\ here' \in [Envs -> BOOLEAN]
      BY DEF Check, Matches, Context, outside, Typed
    <2>3. /\ ws' \in [Envs -> {"none", "live", "stale"}]
        /\ page' \in [Envs -> {"none", "live", "dead"}] /\ ref' \in [Envs -> BOOLEAN]
      BY DEF Check, Matches, Context, handle, Typed
    <2>4. kept' \in [Envs -> Cookies] /\ shown' \in [Envs -> Cookies] /\ sure' \subseteq Envs
      BY DEF Check, Matches, Context, Succeeds, GivesUp, Typed
    <2>5. up' \in BOOLEAN /\ refs' \in Nat /\ dlock' \in Envs \cup {Nobody}
      BY DEF Check, Matches, Context, driver, Typed
    <2>6. cancels' \in 0..MaxCancel
      BY DEF Check, Matches, Context, Typed
    <2>7. plock' \in [{"virtual", "bit"} -> Envs \cup {Nobody}]
      BY PlockFact DEF Check
    <2>8. op' \in [Envs -> OpSet]
      BY <1>1 DEF Check, Matches, Context, Succeeds, GivesUp, Becomes, Asks, Finishes
    <2>. QED
      BY <2>1, <2>2, <2>3, <2>4, <2>5, <2>6, <2>7, <2>8 DEF Typed
  <1>3. Mine(e)'
    <2>1. OpOk(e)'
      BY <1>1
      DEF Check, Matches, Context, Succeeds, GivesUp, Becomes, Asks, Finishes, Mine, OpOk
    <2>2. PageOk(e)'
      BY <1>1
      DEF Check, Matches, Context, Succeeds, GivesUp, Becomes, Asks, Finishes, outside,
          handle, Mine, OpOk, PageOk
    <2>3. DetachOk(e)'
      BY <1>1
      DEF Check, Matches, Context, Succeeds, GivesUp, Becomes, Asks, Finishes, At, handle,
          Mine, OpOk, DetachOk, Bare
    <2>4. CookieOk(e)'
      BY <1>1
      DEF Check, Matches, Context, Succeeds, GivesUp, Becomes, Asks, Finishes, At, outside,
          handle, Mine, OpOk, CookieOk, Seen, PageOk
    <2>5. LockOk(e)'
      BY <1>1
      DEF Check, Matches, Context, Succeeds, GivesUp, Becomes, Asks, Finishes, At, driver,
          Mine, OpOk, LockOk
    <2>. QED
      BY <2>1, <2>2, <2>3, <2>4, <2>5 DEF Mine
  <1>4. Frame(e)
    BY <1>1
    DEF Check, Matches, Context, Succeeds, GivesUp, Becomes, Asks, Finishes, outside,
        handle, jar, driver, Frame
  <1>5. Effect(e)
    BY <1>1
    DEF Check, Matches, Context, Succeeds, GivesUp, Becomes, Asks, Finishes, At, handle,
        driver, PageOk, LockOk, Effect, Quiet, Uses, Leaky
  <1>. QED
    BY <1>2, <1>3, <1>4, <1>5 DEF Keeps

LEMMA CancelKeeps ==
  ASSUME Typed, NEW e \in Envs, Mine(e), Cancel(e)
  PROVE  Keeps(e)
  <1>1. op' = [op EXCEPT ![e] = NoOp] => Finishes(e)
    BY NoOpFact
  <1>2. Typed'
    BY <1>1, BrowserAssumption
    DEF Cancel, Drops, Becomes, Asks, Finishes, outside, jar, Typed
  <1>3. Mine(e)'
    <2>1. OpOk(e)'
      BY <1>1 DEF Cancel, Becomes, Asks, Finishes, Mine, OpOk
    <2>2. PageOk(e)'
      BY <1>1 DEF Cancel, Becomes, Asks, Finishes, outside, Mine, OpOk, PageOk
    <2>3. DetachOk(e)'
      BY DEF Cancel, Typed, DetachOk, Bare
    <2>4. CookieOk(e)'
      BY <1>1 DEF Cancel, Becomes, Asks, Finishes, outside, jar, Mine, OpOk, CookieOk, Seen
    <2>5. LockOk(e)'
      BY <1>1, BrowserAssumption DEF Cancel, Drops, Becomes, Asks, Finishes, Typed, LockOk
    <2>. QED
      BY <2>1, <2>2, <2>3, <2>4, <2>5 DEF Mine
  <1>4. Frame(e)
    BY BrowserAssumption DEF Cancel, Drops, outside, handle, jar, driver, Typed, Frame
  <1>5. Effect(e)
    BY <1>1
    DEF Cancel, Becomes, Asks, Finishes, Typed, PageOk, LockOk, Effect, Cancelled, Uses,
        Leaky
  <1>. QED
    BY <1>2, <1>3, <1>4, <1>5 DEF Keeps

LEMMA LeaseKeeps ==
  ASSUME Typed, NEW e \in Envs, Mine(e), Lease(e)
  PROVE  Keeps(e)
  <1>1. Typed'
    BY DEF Lease, Idle, Status, outside, handle, jar, driver, Typed
  <1>2. Mine(e)'
    BY DEF Lease, Idle, Status, At, outside, handle, jar, driver, Mine, OpOk, PageOk,
       DetachOk, Bare, CookieOk, Seen, LockOk
  <1>3. Frame(e)
    BY DEF Lease, Idle, Status, outside, handle, jar, driver, Frame
  <1>4. Effect(e)
    BY DEF Lease, Idle, Status, handle, driver, PageOk, LockOk, Effect, Quiet, Uses, Leaky
  <1>. QED
    BY <1>1, <1>2, <1>3, <1>4 DEF Keeps

LEMMA WindowEndsKeeps ==
  ASSUME Typed, NEW e \in Envs, Mine(e), WindowEnds(e)
  PROVE  Keeps(e)
  <1>1. Typed'
    BY DEF WindowEnds, CloseWindow, driver, Typed
  <1>2. Mine(e)'
    <2>1. OpOk(e)'
      BY DEF WindowEnds, Mine, OpOk
    <2>2. PageOk(e)'
      BY DEF WindowEnds, CloseWindow, Typed, Mine, OpOk, PageOk
    <2>3. DetachOk(e)'
      BY DEF WindowEnds, CloseWindow, Typed, DetachOk, Bare
    <2>4. CookieOk(e)'
      BY DEF WindowEnds, CloseWindow, Typed, CookieOk, Seen
    <2>5. LockOk(e)'
      BY DEF WindowEnds, At, driver, Mine, OpOk, LockOk
    <2>. QED
      BY <2>1, <2>2, <2>3, <2>4, <2>5 DEF Mine
  <1>3. Frame(e)
    BY DEF WindowEnds, CloseWindow, outside, handle, jar, driver, Frame
  <1>4. Effect(e)
    BY DEF WindowEnds, driver, PageOk, LockOk, Effect, Quiet, Uses, Leaky
  <1>. QED
    BY <1>1, <1>2, <1>3, <1>4 DEF Keeps

LEMMA OpenedOutsideKeeps ==
  ASSUME Typed, NEW e \in Envs, Mine(e), OpenedOutside(e)
  PROVE  Keeps(e)
  <1>1. Typed'
    BY DEF OpenedOutside, handle, driver, Typed
  <1>2. Mine(e)'
    <2>1. OpOk(e)'
      BY DEF OpenedOutside, Mine, OpOk
    <2>2. PageOk(e)'
      BY DEF OpenedOutside, handle, Mine, OpOk, PageOk
    <2>3. DetachOk(e)'
      BY DEF OpenedOutside, handle, Mine, OpOk, DetachOk, Bare
    <2>4. CookieOk(e)'
      BY DEF OpenedOutside, handle, Typed, Mine, OpOk, CookieOk, Seen
    <2>5. LockOk(e)'
      BY DEF OpenedOutside, At, driver, Mine, OpOk, LockOk
    <2>. QED
      BY <2>1, <2>2, <2>3, <2>4, <2>5 DEF Mine
  <1>3. Frame(e)
    BY DEF OpenedOutside, outside, handle, jar, driver, Frame
  <1>4. Effect(e)
    BY DEF OpenedOutside, handle, driver, PageOk, LockOk, Effect, Quiet, Uses, Leaky
  <1>. QED
    BY <1>1, <1>2, <1>3, <1>4 DEF Keeps

LEMMA DeletedOutsideKeeps ==
  ASSUME Typed, NEW e \in Envs, Mine(e), DeletedOutside(e)
  PROVE  Keeps(e)
  <1>1. Typed'
    BY DEF DeletedOutside, handle, jar, driver, Typed
  <1>2. Mine(e)'
    <2>1. OpOk(e)'
      BY DEF DeletedOutside, Mine, OpOk
    <2>2. PageOk(e)'
      BY DEF DeletedOutside, handle, Mine, OpOk, PageOk
    <2>3. DetachOk(e)'
      BY DEF DeletedOutside, handle, Mine, OpOk, DetachOk, Bare
    <2>4. CookieOk(e)'
      BY DEF DeletedOutside, handle, jar, Mine, OpOk, CookieOk, Seen
    <2>5. LockOk(e)'
      BY DEF DeletedOutside, At, driver, Mine, OpOk, LockOk
    <2>. QED
      BY <2>1, <2>2, <2>3, <2>4, <2>5 DEF Mine
  <1>3. Frame(e)
    BY DEF DeletedOutside, outside, handle, jar, driver, Frame
  <1>4. Effect(e)
    BY DEF DeletedOutside, handle, driver, PageOk, LockOk, Effect, Quiet, Uses, Leaky
  <1>. QED
    BY <1>1, <1>2, <1>3, <1>4 DEF Keeps

LEMMA PageSetsCookiesKeeps ==
  ASSUME Typed, NEW e \in Envs, Mine(e), PageSetsCookies(e)
  PROVE  Keeps(e)
  <1>1. Typed'
    BY DEF PageSetsCookies, outside, handle, driver, Typed, Cookies
  <1>2. Mine(e)'
    <2>1. OpOk(e)'
      BY DEF PageSetsCookies, Mine, OpOk
    <2>2. PageOk(e)'
      BY DEF PageSetsCookies, outside, handle, Mine, OpOk, PageOk
    <2>3. DetachOk(e)'
      BY DEF PageSetsCookies, handle, Mine, OpOk, DetachOk, Bare
    <2>4. CookieOk(e)'
      BY DEF PageSetsCookies, Typed, CookieOk, Seen
    <2>5. LockOk(e)'
      BY DEF PageSetsCookies, At, driver, Mine, OpOk, LockOk
    <2>. QED
      BY <2>1, <2>2, <2>3, <2>4, <2>5 DEF Mine
  <1>3. Frame(e)
    BY DEF PageSetsCookies, outside, handle, jar, driver, Frame
  <1>4. Effect(e)
    BY DEF PageSetsCookies, handle, driver, PageOk, LockOk, Effect, Quiet, Uses, Leaky
  <1>. QED
    BY <1>1, <1>2, <1>3, <1>4 DEF Keeps

-----------------------------------------------------------------------------
(* The count.                                                              *)

LEMMA CardFacts ==
  ASSUME NEW e \in Envs, NEW S \in SUBSET Envs, NEW T \in SUBSET Envs
  PROVE  /\ Cardinality(S) \in Nat /\ Cardinality(T) \in Nat
         /\ Cardinality(S) <= Cardinality(Envs) /\ Cardinality(Envs) \in Nat
         /\ S \subseteq T => Cardinality(S) <= Cardinality(T)
         /\ S \subseteq T \cup {e} => Cardinality(S) <= Cardinality(T) + 1
         /\ e \in T /\ S \subseteq T \ {e} => Cardinality(S) <= Cardinality(T) - 1
  <1>1. IsFiniteSet(Envs) /\ IsFiniteSet(S) /\ IsFiniteSet(T) /\ IsFiniteSet(T \cup {e})
        /\ IsFiniteSet(T \ {e})
    BY BrowserAssumption, FS_Subset, FS_AddElement, FS_RemoveElement
  <1>2. /\ Cardinality(S) \in Nat /\ Cardinality(T) \in Nat /\ Cardinality(Envs) \in Nat
    BY <1>1, FS_CardinalityType
  <1>3. Cardinality(S) <= Cardinality(Envs) /\ (S \subseteq T => Cardinality(S) <= Cardinality(T))
    BY <1>1, FS_Subset
  <1>4. S \subseteq T \cup {e} => Cardinality(S) <= Cardinality(T) + 1
    <2>1. Cardinality(T \cup {e}) <= Cardinality(T) + 1
      BY <1>1, <1>2, FS_AddElement
    <2>2. S \subseteq T \cup {e} => Cardinality(S) <= Cardinality(T \cup {e})
      BY <1>1, FS_Subset
    <2>3. Cardinality(T \cup {e}) \in Nat
      BY <1>1, FS_CardinalityType
    <2>. QED
      BY <1>2, <2>1, <2>2, <2>3
  <1>5. e \in T /\ S \subseteq T \ {e} => Cardinality(S) <= Cardinality(T) - 1
    <2>1. e \in T => Cardinality(T \ {e}) = Cardinality(T) - 1
      BY <1>1, FS_RemoveElement
    <2>2. S \subseteq T \ {e} => Cardinality(S) <= Cardinality(T \ {e})
      BY <1>1, FS_Subset
    <2>. QED
      BY <2>1, <2>2
  <1>. QED
    BY <1>2, <1>3, <1>4, <1>5

\* One lemma for every action: what the effects do to the count and to the leak.
LEMMA CountKeeps ==
  ASSUME TypeOK, \A f \in Envs : Mine(f), CountInv, LeakInv, NEW e \in Envs, Keeps(e)
  PROVE  CountInv' /\ LeakInv'
  <1>. DEFINE h == Cardinality(Users)  hh == Cardinality(Users')
              l == Cardinality(Leaking)  ll == Cardinality(Leaking')
              room == MaxCancel - cancels  m == Cardinality(Envs)
  <1>1. /\ refs \in Nat /\ refs' \in Nat /\ cancels \in Nat /\ cancels' \in Nat
        /\ cancels <= MaxCancel /\ cancels' <= MaxCancel
        /\ MaxCancel \in Nat /\ MaxRefs \in Nat /\ m + MaxCancel <= MaxRefs
    BY BrowserAssumption, TypedFact DEF Keeps, Typed
  <1>2. /\ \A f \in Envs \ {e} : Uses(f)' <=> Uses(f)
        /\ \A f \in Envs \ {e} : Leaky(f)' <=> Leaky(f)
        /\ \A f \in Envs \ {e} : op'[f].pc = op[f].pc
    BY DEF Keeps, Frame, Uses, Leaky
  <1>3. /\ Users \in SUBSET Envs /\ Users' \in SUBSET Envs
        /\ Leaking \in SUBSET Envs /\ Leaking' \in SUBSET Envs
        /\ Users' \subseteq Users \cup {e} /\ Leaking' \subseteq Leaking \cup {e}
        /\ (Uses(e)' => Uses(e)) => Users' \subseteq Users
        /\ ~Uses(e)' => Users' \subseteq Users \ {e}
        /\ (Leaky(e)' => Leaky(e)) => Leaking' \subseteq Leaking
        /\ ~Leaky(e)' => Leaking' \subseteq Leaking \ {e}
        /\ (Uses(e) <=> e \in Users) /\ (Leaky(e) <=> e \in Leaking)
    BY <1>2 DEF Users, Leaking
  <1>4. /\ h \in Nat /\ hh \in Nat /\ hh <= h + 1
        /\ (Uses(e)' => Uses(e)) => hh <= h
        /\ Uses(e) /\ ~Uses(e)' => hh <= h - 1
    BY <1>3, CardFacts
  <1>5. /\ l \in Nat /\ ll \in Nat /\ m \in Nat /\ ll <= m /\ ll <= l + 1
        /\ (Leaky(e)' => Leaky(e)) => ll <= l
        /\ Leaky(e) /\ ~Leaky(e)' => ll <= l - 1
    BY <1>3, CardFacts
  <1>6. (~CancelInStop => h <= refs) /\ (refs > 0 => up) /\ refs + l + room <= MaxRefs
    BY DEF CountInv, LeakInv
  <1>7. /\ ~CancelInStop => hh <= refs'
        /\ refs' > 0 => up'
        /\ refs' + ll + (MaxCancel - cancels') <= MaxRefs
    <2>1. CASE Quiet(e)
      BY <2>1, <1>1, <1>4, <1>5, <1>6 DEF Quiet
    <2>2. CASE Roomy(e)
      BY <2>2, <1>1, <1>4, <1>5, <1>6 DEF Roomy
    <2>3. CASE Counted(e)
      BY <2>3, <1>1, <1>4, <1>5, <1>6 DEF Counted
    <2>4. CASE GivenBack(e)
      BY <2>4, <1>1, <1>4, <1>5, <1>6 DEF GivenBack, Less
    <2>5. CASE Stopped(e)
      <3>1. ~CancelInStop => refs = 0
        BY <2>5 DEF CountInv, Stopped
      <3>. QED
        BY <2>5, <3>1, <1>1, <1>4, <1>5, <1>6 DEF Stopped
    <2>6. CASE Cancelled(e)
      BY <2>6, <1>1, <1>4, <1>5, <1>6 DEF Cancelled
    <2>. QED
      BY <2>1, <2>2, <2>3, <2>4, <2>5, <2>6 DEF Keeps, Effect
  <1>8. ~CancelInStop => \A f \in Envs : op'[f].pc = "stopping" => refs' = 0
    <2>1. SUFFICES ASSUME ~CancelInStop, NEW f \in Envs, op'[f].pc = "stopping"
                   PROVE  refs' = 0
      OBVIOUS
    <2>2. op[f].pc = "stopping" => refs = 0 /\ dlock = f
      BY <2>1 DEF CountInv, Mine, LockOk
    <2>3. f # e => op[f].pc = "stopping"
      BY <2>1, <1>2
    <2>4. f # Nobody
      BY BrowserAssumption
    <2>. QED
      BY <2>1, <2>2, <2>3, <2>4, <1>1
      DEF Keeps, Effect, Quiet, Roomy, Counted, GivenBack, Stopped, Cancelled, Less
  <1>. QED
    BY <1>7, <1>8 DEF CountInv, LeakInv

-----------------------------------------------------------------------------
(* The theorems.                                                           *)

LEMMA InitHolds ==
  ASSUME Init
  PROVE  IInv
  <1>1. Typed
    <2>1. op \in [Envs -> OpSet]
      BY DEF Init, NoOp, OpSet
    <2>2. /\ status \in [Envs -> {"creating", "ready", "busy", "running", "terminating", "gone"}]
          /\ win \in [Envs -> BOOLEAN] /\ here \in [Envs -> BOOLEAN]
          /\ ws \in [Envs -> {"none", "live", "stale"}]
          /\ page \in [Envs -> {"none", "live", "dead"}] /\ ref \in [Envs -> BOOLEAN]
          /\ kept \in [Envs -> Cookies] /\ shown \in [Envs -> Cookies]
      BY DEF Init, Cookies
    <2>3. plock \in [{"virtual", "bit"} -> Envs \cup {Nobody}]
      BY DEF Init
    <2>4. /\ sure \subseteq Envs /\ up = FALSE /\ refs \in Nat
          /\ dlock \in Envs \cup {Nobody} /\ cancels \in 0..MaxCancel
      BY BrowserAssumption DEF Init
    <2>. QED
      BY <2>1, <2>2, <2>3, <2>4 DEF Typed
  <1>2. \A e \in Envs : Mine(e)
    BY BrowserAssumption
    DEF Init, NoOp, Mine, OpOk, PageOk, DetachOk, CookieOk, Seen, LockOk
  <1>3. Users = {}
    BY DEF Init, Users, Uses
  <1>4. CountInv
    BY <1>3, FS_EmptySet DEF Init, CountInv, NoOp
  <1>5. Leaking \in SUBSET Envs
    BY DEF Leaking
  <1>6. Cardinality(Leaking) <= Cardinality(Envs) /\ Cardinality(Leaking) \in Nat
        /\ Cardinality(Envs) \in Nat
    BY <1>5, BrowserAssumption, FS_Subset, FS_CardinalityType
  <1>7. LeakInv
    BY <1>6, BrowserAssumption DEF Init, LeakInv
  <1>8. refs = 0
    BY DEF Init
  <1>. QED
    BY <1>1, <1>2, <1>4, <1>7, <1>8, TypedFact, BrowserAssumption DEF IInv

\* Every step is a step of one environment.
LEMMA StepKeeps ==
  ASSUME IInv, Next
  PROVE  \E e \in Envs : Keeps(e)
  <1>1. TypeOK /\ Typed /\ (\A f \in Envs : Mine(f)) /\ CountInv /\ LeakInv
    BY TypedFact DEF IInv
  <1>2. PICK e \in Envs :
          \/ \E do \in {"create", "start", "stop", "recycle", "destroy", "ensure"} : Ask(e, do)
          \/ Step(e) \/ Cancel(e) \/ Lease(e)
          \/ WindowEnds(e) \/ OpenedOutside(e) \/ DeletedOutside(e) \/ PageSetsCookies(e)
    BY DEF Next
  <1>3. Keeps(e)
    <2>1. CASE \E do \in {"create", "start", "stop", "recycle", "destroy", "ensure"} : Ask(e, do)
      BY <1>1, <2>1, AskKeeps
    <2>2. CASE Step(e)
      BY <1>1, <2>2, CreateKeeps, StartBeginsKeeps, OpenKeeps, LaunchSucceedsKeeps,
         LaunchFailsKeeps, WriteBackKeeps, ConnectKeeps, AcquireKeeps, DriverStartsKeeps,
         AttachKeeps, ConnectGivesUpKeeps, ClosePageKeeps, ReleaseKeeps, DriverStopsKeeps,
         StopBeginsKeeps, BitLooksKeeps, StopWindowKeeps, WaitClosedKeeps,
         DestroyBeginsKeeps, LookUpKeeps, DeleteKeeps, CompareKeeps, ReplaceKeeps,
         VerifyKeeps, CheckKeeps
      DEF Step
    <2>3. CASE \/ Cancel(e) \/ Lease(e) \/ WindowEnds(e) \/ OpenedOutside(e)
               \/ DeletedOutside(e) \/ PageSetsCookies(e)
      BY <1>1, <2>3, CancelKeeps, LeaseKeeps, WindowEndsKeeps, OpenedOutsideKeeps,
         DeletedOutsideKeeps, PageSetsCookiesKeeps
    <2>. QED
      BY <1>2, <2>1, <2>2, <2>3
  <1>. QED
    BY <1>3

LEMMA Invariant == Spec => []IInv
  <1>1. Init => IInv
    BY InitHolds
  <1>2. IInv /\ [Next]_vars => IInv'
    <2>1. SUFFICES ASSUME IInv, [Next]_vars
                   PROVE  IInv'
      OBVIOUS
    <2>2. CASE UNCHANGED vars
      <3>1. UNCHANGED <<status, win, here, ws, page, ref, kept, shown, sure, plock, up, refs,
                        dlock, op, cancels>>
        BY <2>2 DEF vars, outside, handle, jar, driver
      <3>2. TypeOK'
        BY <2>1, <3>1 DEF IInv, TypeOK
      <3>3. \A e \in Envs : Mine(e)'
        BY <2>1, <3>1
        DEF IInv, Mine, OpOk, PageOk, DetachOk, Bare, CookieOk, Seen, LockOk, At
      <3>4. CountInv' /\ LeakInv'
        BY <2>1, <3>1 DEF IInv, CountInv, LeakInv, Users, Uses, Leaking, Leaky
      <3>. QED
        BY <3>2, <3>3, <3>4 DEF IInv
    <2>3. CASE Next
      <3>1. TypeOK /\ Typed /\ (\A f \in Envs : Mine(f)) /\ CountInv /\ LeakInv
        BY <2>1, TypedFact DEF IInv
      <3>2. PICK e \in Envs : Keeps(e)
        BY <2>1, <2>3, StepKeeps
      <3>3. \A f \in Envs : Mine(f)'
        BY <3>1, <3>2, FrameFact DEF Keeps
      <3>4. CountInv' /\ LeakInv'
        BY <3>1, <3>2, CountKeeps
      <3>5. refs' <= MaxRefs
        <4>1. Leaking' \in SUBSET Envs
          BY DEF Leaking
        <4>2. Cardinality(Leaking') \in Nat
          BY <4>1, CardFacts
        <4>3. refs' \in Nat /\ cancels' \in Nat /\ cancels' <= MaxCancel /\ MaxCancel \in Nat
          BY <3>2, BrowserAssumption DEF Keeps, Typed
        <4>. QED
          BY <3>4, <4>2, <4>3, BrowserAssumption DEF LeakInv
      <3>6. TypeOK'
        BY <3>2, <3>5, BrowserAssumption DEF Keeps, Typed, TypeOK, OpSet
      <3>. QED
        BY <3>3, <3>4, <3>6 DEF IInv
    <2>. QED
      BY <2>1, <2>2, <2>3
  <1>. QED
    BY <1>1, <1>2, PTL DEF Spec

\* In every state each variable has its type, and the count stays within the room
\* for each environment and each cancellation: PlaywrightManager.acquire and
\* release leak no more references than that.
THEOREM TypeCorrect == Spec => []TypeOK
  <1>1. IInv => TypeOK
    BY DEF IInv
  <1>. QED
    BY <1>1, Invariant, PTL

\* Nobody uses a driver that counts no reference, so whoever does finds it running.
LEMMA UnusedAtZero ==
  ASSUME ~CancelInStop, IInv
  PROVE  (refs = 0 => Users = {}) /\ (Users # {} => up)
  <1>1. Cardinality(Users) <= refs /\ (refs > 0 => up) /\ refs \in Nat
    BY TypedFact DEF IInv, CountInv, Typed
  <1>2. ASSUME NEW e \in Users
        PROVE  refs > 0
    <2>1. e \in Envs /\ {e} \in SUBSET Envs /\ Users \in SUBSET Envs /\ {e} \subseteq Users
      BY <1>2 DEF Users
    <2>2. Cardinality({e}) <= Cardinality(Users) /\ Cardinality(Users) \in Nat
      BY <2>1, CardFacts
    <2>3. Cardinality({e}) = 1
      BY FS_Singleton
    <2>. QED
      BY <1>1, <2>2, <2>3
  <1>. QED
    BY <1>1, <1>2

\* Unless a cancellation hits PlaywrightManager.release while it waits for the
\* driver to stop, the driver runs under every live connection: whatever starts,
\* stops, fails and is cancelled, no reference is given back twice.
THEOREM DriverKept == ~CancelInStop => (Spec => []DriverServes)
  <1>. SUFFICES ASSUME ~CancelInStop
                PROVE  Spec => []DriverServes
    OBVIOUS
  <1>1. ASSUME IInv
        PROVE  DriverServes
    <2>1. SUFFICES ASSUME NEW e \in Envs, page[e] = "live"
                   PROVE  up
      BY DEF DriverServes
    <2>2. Uses(e)
      BY <1>1, <2>1 DEF IInv, Mine, PageOk, Uses
    <2>. QED
      BY <1>1, <2>2, UnusedAtZero DEF Users
  <1>. QED
    BY <1>1, Invariant, PTL

\* What a step does to the users of the driver: one begins, one ends, the unused
\* driver rests, or nothing that SharedDriver sees.
LEMMA DriverStep ==
  ASSUME ~CancelInStop, IInv, [Next]_vars
  PROVE  [Driver!Next]_<<Users, up>>
  <1>1. CASE UNCHANGED vars
    BY <1>1 DEF vars, handle, driver, Users, Uses
  <1>2. CASE Next
    <2>1. PICK e \in Envs : Keeps(e)
      BY <1>2, StepKeeps
    <2>2. /\ up \in BOOLEAN /\ up' \in BOOLEAN /\ refs \in Nat /\ refs' \in Nat
      BY <2>1, TypedFact DEF IInv, Keeps, Typed
    <2>3. \A f \in Envs \ {e} : Uses(f)' <=> Uses(f)
      BY <2>1 DEF Keeps, Frame, Uses
    <2>4. /\ (Uses(e)' <=> Uses(e)) => Users' = Users
          /\ Uses(e) /\ ~Uses(e)' => Users' = Users \ {e}
          /\ ~Uses(e) /\ Uses(e)' => Users' = Users \cup {e}
          /\ Uses(e) <=> e \in Users
      BY <2>3 DEF Users
    <2>5. up' = up /\ (Uses(e)' => Uses(e)) => [Driver!Next]_<<Users, up>>
      BY <2>4 DEF Driver!Next, Driver!End
    <2>6. refs = 0 => Users = {}
      BY UnusedAtZero
    <2>7. CASE Quiet(e) \/ Roomy(e)
      BY <2>5, <2>7 DEF Quiet, Roomy
    <2>8. CASE Counted(e)
      <3>1. Uses(e)' /\ up' = TRUE
        BY <2>2, <2>8 DEF Counted, Leaky, Uses
      <3>2. Uses(e) => up
        BY <2>2, <2>4, <2>6 DEF IInv, CountInv
      <3>. QED
        BY <2>2, <2>4, <3>1, <3>2 DEF Driver!Next, Driver!Begin
    <2>9. CASE GivenBack(e)
      BY <2>5, <2>9 DEF GivenBack
    <2>10. CASE Stopped(e)
      <3>1. refs = 0 /\ ~Uses(e)
        BY <2>10 DEF IInv, CountInv, Stopped, Uses
      <3>2. Users = {} /\ Users' = {} /\ up' = FALSE
        BY <2>2, <2>4, <2>6, <2>10, <3>1 DEF Stopped
      <3>. QED
        BY <3>2 DEF Driver!Next, Driver!Rest
    <2>11. CASE Cancelled(e)
      BY <2>5, <2>11 DEF Cancelled
    <2>. QED
      BY <2>1, <2>7, <2>8, <2>9, <2>10, <2>11 DEF Keeps, Effect
  <1>. QED
    BY <1>1, <1>2

\* Under the same condition the driver that all connections share is the driver of
\* SharedDriver: PlaywrightManager starts it for its first user and stops it only
\* when nobody holds a reference that is not being given back.
THEOREM DriverRefined == ~CancelInStop => (Spec => KeepsDriver)
  <1>. SUFFICES ASSUME ~CancelInStop
                PROVE  Spec => KeepsDriver
    OBVIOUS
  <1>1. Init => Driver!Init
    BY DEF Init, Driver!Init, Users, Uses
  <1>2. IInv /\ [Next]_vars => [Driver!Next]_<<Users, up>>
    BY DriverStep
  <1>. QED
    BY <1>1, <1>2, Invariant, PTL DEF Spec, KeepsDriver, Driver!Spec

\* An environment that start, stop, recycle or ensure left ready is not driven by
\* the connection of its last user, BitBrowser and cancellations excepted.
THEOREM ReadyDetached == Spec => []ReadyIsDetached
  <1>1. IInv => ReadyIsDetached
    BY DEF IInv, Mine, DetachOk, Bare, ReadyIsDetached, Idle, Envs
  <1>. QED
    BY <1>1, Invariant, PTL

\* What EnvCookieService.ensure reported holds until a page, or the window, ends
\* it: the profile and the connected page have the cookies that were asked for.
THEOREM CookiesEnsured == Spec => []EnsuredCookies
  <1>1. IInv => EnsuredCookies
    BY TypedFact DEF IInv, Typed, Mine, CookieOk, EnsuredCookies
  <1>. QED
    BY <1>1, Invariant, PTL

\* Whoever holds the lock of a provider or of the driver is where it can go on:
\* no one who failed, was cancelled or is done still holds one.
THEOREM HoldersMove == Spec => []HolderMoves
  <1>1. ASSUME IInv
        PROVE  HolderMoves
    <2>1. /\ plock \in [{"virtual", "bit"} -> Envs \cup {Nobody}]
          /\ dlock \in Envs \cup {Nobody} /\ \A e \in Envs : LockOk(e)
      BY <1>1, TypedFact DEF IInv, Typed, Mine
    <2>. QED
      BY <2>1 DEF LockOk, HolderMoves
  <1>. QED
    BY <1>1, Invariant, PTL
=============================================================================
