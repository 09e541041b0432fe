---------------------------- MODULE BrowserWindows ----------------------------
(***************************************************************************)
(* The browser windows behind the environments: what EnvironmentManager     *)
(* does with a provider (create, start, stop, recycle, destroy, cookies),   *)
(* how the providers do it, the connection that a BrowserHandle keeps, and the one  *)
(* Playwright driver that all connections share by counting references.     *)
(*                                                                          *)
(* At most one operation of an environment is in progress: it holds the     *)
(* environment's lifecycle lock (EnvPool models that lock).  Operations of  *)
(* different environments meet at the lock of their provider and at the     *)
(* lock of the driver.                                                      *)
(***************************************************************************)
EXTENDS Integers, FiniteSets

CONSTANTS
  Virtual,       \* environments of VirtualBrowser
  Bit,           \* environments of BitBrowser
  Hub,           \* environments of HubStudio
  Nobody,        \* no environment holds a lock
  CancelInStop,  \* a cancellation may hit the wait for the driver to stop
  MaxCancel,     \* bound on the number of cancellations
  MaxRefs        \* bound on the references counted: Bit may leak them

Envs == Virtual \cup Bit \cup Hub

ASSUME BrowserAssumption ==
  /\ IsFiniteSet(Envs) /\ Nobody \notin Envs
  /\ Virtual \cap Bit = {} /\ Virtual \cap Hub = {} /\ Bit \cap Hub = {}
  /\ CancelInStop \in BOOLEAN /\ MaxCancel \in Nat
  /\ MaxRefs \in Nat /\ Cardinality(Envs) + MaxCancel <= MaxRefs

VARIABLES
  status,   \* status[e] in the pool
  win,      \* the window of e is open
  here,     \* the external software has the browser of e
  ws,       \* the debugging address in the handle: of this window, or stale
  page,     \* the connection of the handle: "none", "live", or "dead"
  ref,      \* the handle holds a reference to the driver
  kept,     \* the cookies in the profile: what a module asked for, or other
  shown,    \* the cookies in the open window
  sure,     \* environments whose cookies were ensured and not touched since
  plock,    \* plock[k]: who holds the lock of provider k
  up,       \* the driver process runs
  refs,     \* its reference count
  dlock,    \* who holds the lock of PlaywrightManager
  op,       \* op[e]: the operation in progress
  cancels

handle == <<ws, page, ref>>
driver == <<up, refs, dlock>>
jar == <<kept, shown, sure>>
outside == <<win, here>>
vars == <<status, outside, handle, jar, plock, driver, op, cancels>>

Cookies == {"asked", "other"}
NoOp == [do |-> "none", pc |-> "none", was |-> "none", by |-> "self"]

TypeOK ==
  /\ status \in [Envs -> {"creating", "ready", "busy", "running", "terminating", "gone"}]
  /\ win \in [Envs -> BOOLEAN] /\ here \in [Envs -> BOOLEAN]
  /\ ws \in [Envs -> {"none", "live", "stale"}]
  /\ page \in [Envs -> {"none", "live", "dead"}] /\ ref \in [Envs -> BOOLEAN]
  /\ kept \in [Envs -> Cookies] /\ shown \in [Envs -> Cookies] /\ sure \subseteq Envs
  /\ plock \in [{"virtual", "bit"} -> Envs \cup {Nobody}]
  /\ up \in BOOLEAN /\ refs \in 0..MaxRefs /\ dlock \in Envs \cup {Nobody}
  /\ op \in [Envs -> [do : {"none", "create", "start", "stop", "recycle", "destroy",
                            "ensure"},
                      pc : {"none", "asked", "opening", "launching", "writing",
                            "connecting", "acquiring", "starting", "attaching",
                            "closing", "releasing", "stopping", "closed", "waiting",
                            "deleting", "replacing", "verifying", "checking"},
                      was : {"none", "creating", "ready", "busy", "running"},
                      by : {"self", "ensure", "create"}]]
  /\ cancels \in 0..MaxCancel

Init ==
  /\ status = [e \in Envs |-> "ready"]
  /\ win = [e \in Envs |-> FALSE] /\ here = [e \in Envs |-> TRUE]
  /\ ws = [e \in Envs |-> "none"] /\ page = [e \in Envs |-> "none"]
  /\ ref = [e \in Envs |-> FALSE]
  /\ kept = [e \in Envs |-> "other"] /\ shown = [e \in Envs |-> "other"] /\ sure = {}
  /\ plock = [k \in {"virtual", "bit"} |-> Nobody]
  /\ up = FALSE /\ refs = 0 /\ dlock = Nobody
  /\ op = [e \in Envs |-> NoOp] /\ cancels = 0

-----------------------------------------------------------------------------
(* Operations and locks.                                                   *)

Idle(e) == op[e].do = "none"
At(e, do, pc) == op[e].do \in do /\ op[e].pc = pc
Goto(e, pc) == op' = [op EXCEPT ![e].pc = pc]
Now(e, do, pc, was) == op' = [op EXCEPT ![e].do = do, ![e].pc = pc, ![e].was = was]

\* An operation that ensure called goes back to ensure, which gives up if it
\* failed; a creation that failed closes what it may have connected to and
\* destroys the environment.
Ends(e, ok) ==
  CASE op[e].by = "ensure" /\ ok ->
         IF op[e].do = "stop" THEN Now(e, "start", "asked", "none")
                              ELSE Now(e, "ensure", "checking", "none")
    [] op[e].by = "create" /\ op[e].do = "start" /\ ~ok ->
         Now(e, IF op[e].pc \in {"launching", "writing"} THEN "destroy" ELSE "stop",
             "asked", "none")
    [] op[e].by = "create" /\ op[e].do = "stop" -> Now(e, "destroy", "asked", "none")
    [] OTHER -> op' = [op EXCEPT ![e] = NoOp]

Lock(e) == IF e \in Virtual THEN {"virtual"} ELSE IF e \in Bit THEN {"bit"} ELSE {}
LockFree(e) == \A k \in Lock(e) : plock[k] = Nobody
Takes(e) == plock' = [k \in DOMAIN plock |-> IF k \in Lock(e) THEN e ELSE plock[k]]
Drops(e) == plock' = [k \in DOMAIN plock |-> IF plock[k] = e THEN Nobody ELSE plock[k]]
Status(e, s) == status' = [status EXCEPT ![e] = s]

\* A window that closes takes its addresses with it, and may write the cookies
\* it shows to the profile.
CloseWindow(e) ==
  /\ win' = [win EXCEPT ![e] = FALSE]
  /\ ws' = [ws EXCEPT ![e] = IF @ = "live" THEN "stale" ELSE @]
  /\ page' = [page EXCEPT ![e] = IF @ = "live" THEN "dead" ELSE @]
  /\ \E c \in IF win[e] THEN {kept[e], shown[e]} ELSE {kept[e]} : kept' = [kept EXCEPT ![e] = c]

-----------------------------------------------------------------------------
(* start: open the window, then connect to it.                             *)

Ask(e, do) ==
  /\ Idle(e)
  /\ e \in Bit /\ do \in {"stop", "recycle"} =>
       refs + Cardinality(Envs) + MaxCancel <= MaxRefs
  /\ CASE do = "create" -> status[e] = "gone" /\ ~here[e]
       [] do = "destroy" -> status[e] \in {"creating", "ready", "busy", "running"}
       [] do = "start" -> status[e] \in {"ready", "busy"}
       [] do = "ensure" -> status[e] \in {"ready", "busy", "running"} /\ e \notin Bit
       [] OTHER -> status[e] \in {"ready", "busy", "running"}
  /\ op' = [op EXCEPT ![e] = [do |-> do, pc |-> "asked", was |-> "none",
                              by |-> IF do \in {"ensure", "create"} THEN do ELSE "self"]]
  /\ sure' = sure \ {e}
  /\ UNCHANGED <<status, outside, handle, kept, shown, plock, driver, cancels>>

\* provider.create, under its lock, and a new handle; what it created and could
\* not accept it deletes, if it can.
Create(e) ==
  /\ At(e, {"create"}, "asked") /\ LockFree(e)
  /\ \/ here' = [here EXCEPT ![e] = TRUE]
        /\ Status(e, "busy") /\ Now(e, "start", "opening", "creating")
     \/ /\ here' = [here EXCEPT ![e] = FALSE] \/ (e \in Virtual /\ here' = [here EXCEPT ![e] = TRUE])
        /\ op' = [op EXCEPT ![e] = NoOp] /\ UNCHANGED status
  /\ ws' = [ws EXCEPT ![e] = "none"] /\ page' = [page EXCEPT ![e] = "none"]
  /\ ref' = [ref EXCEPT ![e] = FALSE]
  /\ kept' = [kept EXCEPT ![e] = "other"]
  /\ UNCHANGED <<win, shown, sure, plock, driver, cancels>>

\* start on an environment that is busy connects to an open window; a query
\* that fails counts as closed.
StartBegins(e) ==
  /\ At(e, {"start"}, "asked")
  /\ \/ status[e] = "busy" /\ win[e] /\ LockFree(e)
        /\ Now(e, "start", "connecting", "busy") /\ UNCHANGED status
     \/ Status(e, "busy") /\ Now(e, "start", "opening", status[e])
  /\ UNCHANGED <<outside, handle, jar, plock, driver, cancels>>

\* open of VirtualBrowser and BitBrowser does nothing to a window it finds open.
Open(e) ==
  /\ At(e, {"start"}, "opening") /\ LockFree(e)
  /\ \/ win[e] /\ e \notin Hub
        /\ Now(e, "start", "connecting", "busy") /\ UNCHANGED plock
     \/ Takes(e) /\ Goto(e, "launching")
  /\ UNCHANGED <<status, outside, handle, jar, driver, cancels>>

OpenFailsLocked(e) ==
  /\ UNCHANGED plock /\ Status(e, op[e].was) /\ Ends(e, FALSE)

OpenFails(e) ==
  /\ Drops(e) /\ Status(e, op[e].was) /\ Ends(e, FALSE)

\* A window that is launched shows the cookies of the profile; VirtualBrowser
\* first stops one that was open after all.
LaunchSucceeds(e) ==
  /\ At(e, {"start"}, "launching") /\ here[e]
  /\ win' = [win EXCEPT ![e] = TRUE]
  /\ \E c \in IF win[e] THEN {kept[e], shown[e]} ELSE {kept[e]} :
       /\ kept' = [kept EXCEPT ![e] = IF e \in Virtual THEN c ELSE @]
       /\ shown' = [shown EXCEPT ![e] = IF win[e] /\ e \notin Virtual THEN @ ELSE c]
  /\ IF e \in Virtual
     THEN /\ page' = [page EXCEPT ![e] = IF @ = "live" THEN "dead" ELSE @]
          /\ Goto(e, "writing") /\ UNCHANGED <<ws, plock>>
     ELSE /\ ws' = [ws EXCEPT ![e] = "live"]
          /\ Drops(e) /\ Now(e, "start", "connecting", "busy") /\ UNCHANGED page
  /\ UNCHANGED <<status, here, ref, sure, driver, cancels>>

\* It may fail before or after the window opened; VirtualBrowser may have
\* stopped the window to try once more.
LaunchFails(e) ==
  /\ At(e, {"start"}, "launching")
  /\ OpenFails(e)
  /\ \/ UNCHANGED <<outside, handle, jar>>
     \/ /\ here[e] /\ ~win[e] /\ win' = [win EXCEPT ![e] = TRUE]
        /\ shown' = [shown EXCEPT ![e] = kept[e]] /\ UNCHANGED <<here, handle, kept, sure>>
     \/ /\ e \in Virtual /\ win[e] /\ CloseWindow(e)
        /\ UNCHANGED <<here, ref, shown, sure>>
  /\ UNCHANGED <<driver, cancels>>

\* VirtualBrowser writes the proxy back into the configuration it launched from;
\* if that fails open fails, and the window stays open.
WriteBack(e) ==
  /\ At(e, {"start"}, "writing")
  /\ \/ /\ ws' = [ws EXCEPT ![e] = IF win[e] THEN "live" ELSE "stale"]
        /\ Drops(e) /\ Now(e, "start", "connecting", "busy") /\ UNCHANGED status
     \/ OpenFails(e) /\ UNCHANGED ws
  /\ UNCHANGED <<outside, page, ref, jar, driver, cancels>>

\* _handle_connect_failure: busy if the window is open, the former status if it
\* is not, or cannot be asked.
ConnectFails(e) ==
  /\ Drops(e) /\ Ends(e, FALSE)
  /\ \E s \in {op[e].was} \cup (IF win[e] THEN {"busy"} ELSE {}) : Status(e, s)

\* Only VirtualBrowser finds the address of a window it did not launch.
Connect(e) ==
  /\ At(e, {"start"}, "connecting") /\ LockFree(e)
  /\ \/ /\ ws[e] # "none" \/ (e \in Virtual /\ win[e])
        /\ ws' = [ws EXCEPT ![e] = IF @ = "none" THEN "live" ELSE @]
        /\ Takes(e) /\ Goto(e, "acquiring") /\ UNCHANGED status
     \/ ws[e] = "none" /\ ConnectFails(e) /\ UNCHANGED ws
  /\ UNCHANGED <<outside, page, ref, jar, driver, cancels>>

Counts(e) ==
  /\ refs' = refs + 1
  /\ ref' = [ref EXCEPT ![e] = TRUE]
  /\ Goto(e, "attaching")

\* Fault: only the first reference is counted.
AcquireUncounted(e) ==
  /\ At(e, {"start"}, "acquiring") /\ dlock = Nobody
  /\ IF up THEN ref' = [ref EXCEPT ![e] = TRUE] /\ Goto(e, "attaching") /\ UNCHANGED <<refs, dlock>>
     ELSE dlock' = e /\ Goto(e, "starting") /\ UNCHANGED <<refs, ref>>
  /\ UNCHANGED <<status, outside, ws, page, jar, plock, up, cancels>>

\* PlaywrightManager.acquire, under its lock; the first one starts the driver.
Acquire(e) ==
  /\ At(e, {"start"}, "acquiring") /\ dlock = Nobody
  /\ IF up THEN Counts(e) /\ UNCHANGED dlock
     ELSE dlock' = e /\ Goto(e, "starting") /\ UNCHANGED <<refs, ref>>
  /\ UNCHANGED <<status, outside, ws, page, jar, plock, up, cancels>>

DriverStarts(e) ==
  /\ At(e, {"start"}, "starting")
  /\ dlock' = Nobody
  /\ \/ up' = TRUE /\ Counts(e)
     \/ Goto(e, "closing") /\ UNCHANGED <<up, refs, ref>>
  /\ UNCHANGED <<status, outside, ws, page, jar, plock, cancels>>

\* connect_over_cdp, tried several times; in the end it has a page, or closes.
Attach(e) ==
  /\ At(e, {"start"}, "attaching")
  /\ \/ /\ win[e] /\ ws[e] = "live" /\ up
        /\ page' = [page EXCEPT ![e] = "live"]
        /\ Drops(e) /\ Status(e, "running") /\ Ends(e, TRUE)
     \/ /\ page' = [page EXCEPT ![e] = "none"]
        /\ Goto(e, "closing") /\ UNCHANGED <<status, plock>>
  /\ UNCHANGED <<outside, ws, ref, jar, driver, cancels>>

-----------------------------------------------------------------------------
(* safe_close: the connection, then the reference.                         *)

ClosePage(e) ==
  /\ op[e].pc = "closing"
  /\ page' = [page EXCEPT ![e] = "none"]
  /\ Goto(e, "releasing")
  /\ UNCHANGED <<status, outside, ws, ref, jar, plock, driver, cancels>>

Less == IF refs > 0 THEN refs - 1 ELSE 0

\* Fault: whoever gives a reference back stops the driver.
ReleaseStopsAlways(e) ==
  /\ op[e].pc = "releasing"
  /\ IF ~ref[e] THEN Goto(e, "closed") /\ UNCHANGED <<ref, driver>>
     ELSE /\ dlock = Nobody /\ refs' = Less
          /\ dlock' = e /\ Goto(e, "stopping") /\ UNCHANGED <<ref, up>>
  /\ UNCHANGED <<status, outside, ws, page, jar, plock, cancels>>

\* PlaywrightManager.release; the last one stops the driver.
Release(e) ==
  /\ op[e].pc = "releasing"
  /\ IF ~ref[e] THEN Goto(e, "closed") /\ UNCHANGED <<ref, driver>>
     ELSE /\ dlock = Nobody /\ refs' = Less
          /\ IF Less = 0 /\ up
             THEN dlock' = e /\ Goto(e, "stopping") /\ UNCHANGED <<ref, up>>
             ELSE /\ ref' = [ref EXCEPT ![e] = FALSE]
                  /\ Goto(e, "closed") /\ UNCHANGED <<up, dlock>>
  /\ UNCHANGED <<status, outside, ws, page, jar, plock, cancels>>

DriverStops(e) ==
  /\ op[e].pc = "stopping"
  /\ up' = FALSE /\ refs' = 0 /\ dlock' = Nobody
  /\ ref' = [ref EXCEPT ![e] = FALSE]
  /\ Goto(e, "closed")
  /\ UNCHANGED <<status, outside, ws, page, jar, plock, cancels>>

ConnectGivesUp(e) ==
  /\ At(e, {"start"}, "closed")
  /\ ConnectFails(e)
  /\ UNCHANGED <<outside, handle, jar, driver, cancels>>

-----------------------------------------------------------------------------
(* stop, recycle and destroy.                                              *)

\* Fault: the connection is kept when the window is found closed.
StopLooksFirst(e) ==
  /\ At(e, {"stop", "recycle"}, "asked") /\ LockFree(e)
  /\ IF op[e].do = "stop" THEN Status(e, "ready") ELSE UNCHANGED status
  /\ Takes(e) /\ Now(e, op[e].do, "opening", status[e])
  /\ UNCHANGED <<outside, handle, jar, driver, cancels>>

\* stop makes the environment ready before it closes the window.
StopBegins(e) ==
  /\ At(e, {"stop", "recycle"}, "asked") /\ LockFree(e)
  /\ IF op[e].do = "stop" THEN Status(e, "ready") ELSE UNCHANGED status
  /\ Takes(e) /\ Now(e, op[e].do, IF e \in Bit THEN "opening" ELSE "closing", status[e])
  /\ UNCHANGED <<outside, handle, jar, driver, cancels>>

Closed(e) ==
  /\ ws' = [ws EXCEPT ![e] = "none"] /\ page' = [page EXCEPT ![e] = "none"]
  /\ ref' = [ref EXCEPT ![e] = FALSE]
  /\ Drops(e) /\ Status(e, "ready") /\ Ends(e, TRUE)

CloseFails(e) ==
  /\ Drops(e) /\ Status(e, op[e].was) /\ Ends(e, FALSE)
  /\ UNCHANGED handle

\* close of BitBrowser leaves everything alone when it finds the window closed,
\* or cannot ask.
BitLooks(e) ==
  /\ At(e, {"stop", "recycle"}, "opening")
  /\ \/ win[e] /\ Goto(e, "closing") /\ UNCHANGED <<status, plock>>
     \/ Drops(e) /\ Status(e, "ready") /\ Ends(e, TRUE)
  /\ UNCHANGED <<outside, handle, jar, driver, cancels>>

\* The request to close the window.  VirtualBrowser and HubStudio report a
\* failure, BitBrowser ignores it; VirtualBrowser then waits until it is closed.
StopWindow(e) ==
  /\ At(e, {"stop", "recycle"}, "closed")
  /\ \/ /\ e \in Virtual
        /\ Goto(e, "waiting") /\ UNCHANGED <<status, ref, plock>>
        /\ \/ CloseWindow(e)
           \/ UNCHANGED <<win, ws, page, kept>>
     \/ /\ e \notin Virtual
        /\ win' = [win EXCEPT ![e] = FALSE] /\ Closed(e)
        /\ \E c \in IF win[e] THEN {kept[e], shown[e]} ELSE {kept[e]} :
             kept' = [kept EXCEPT ![e] = c]
     \/ IF e \in Bit THEN Closed(e) /\ UNCHANGED <<win, kept>>
                     ELSE CloseFails(e) /\ UNCHANGED <<win, kept>>
  /\ UNCHANGED <<here, shown, sure, driver, cancels>>

WaitClosed(e) ==
  /\ At(e, {"stop", "recycle"}, "waiting")
  /\ \/ ~win[e] /\ Closed(e)
     \/ CloseFails(e)
  /\ UNCHANGED <<outside, jar, driver, cancels>>

DestroyBegins(e) ==
  /\ At(e, {"destroy"}, "asked") /\ LockFree(e)
  /\ Status(e, "terminating")
  /\ Takes(e) /\ Now(e, "destroy", "closing", status[e])
  /\ UNCHANGED <<outside, handle, jar, driver, cancels>>

Gone(e) == Drops(e) /\ Status(e, "gone") /\ Ends(e, TRUE)
DestroyFails(e) == Drops(e) /\ Status(e, op[e].was) /\ Ends(e, FALSE)

\* A browser that the software does not have is destroyed; one that cannot be
\* looked up counts as such.  A window that is open is asked to close.
LookUp(e) ==
  /\ At(e, {"destroy"}, "closed")
  /\ \/ Gone(e) /\ UNCHANGED <<win, ws, page, kept>>
     \/ /\ here[e] /\ Goto(e, "deleting") /\ UNCHANGED <<status, plock>>
        /\ \/ win[e] /\ CloseWindow(e)
           \/ UNCHANGED <<win, ws, page, kept>>
     \/ here[e] /\ win[e] /\ DestroyFails(e) /\ UNCHANGED <<win, ws, page, kept>>
  /\ UNCHANGED <<here, ref, shown, sure, driver, cancels>>

Delete(e) ==
  /\ At(e, {"destroy"}, "deleting")
  /\ \/ /\ CloseWindow(e) /\ here' = [here EXCEPT ![e] = FALSE] /\ Gone(e)
     \/ DestroyFails(e) /\ UNCHANGED <<outside, ws, page, kept>>
  /\ UNCHANGED <<ref, shown, sure, driver, cancels>>

-----------------------------------------------------------------------------
(* EnvCookieService.ensure.                                                *)

Context(e) == page[e] # "none"
Matches(e) == Context(e) /\ shown[e] = "asked"
GivesUp(e) == op' = [op EXCEPT ![e] = NoOp] /\ UNCHANGED sure
Succeeds(e) == op' = [op EXCEPT ![e] = NoOp] /\ sure' = sure \cup {e}

Restart(e) ==
  /\ Now(e, IF status[e] = "ready" THEN "start" ELSE "stop", "asked", "none")
  /\ UNCHANGED sure

\* Reading either set of cookies may fail.
Compare(e) ==
  /\ At(e, {"ensure"}, "asked")
  /\ \/ GivesUp(e)
     \/ kept[e] = "asked" /\ Matches(e) /\ page[e] = "live" /\ Succeeds(e)
     \/ kept[e] = "asked" /\ ~Matches(e) /\ Restart(e)
     \/ kept[e] # "asked" /\ Goto(e, "replacing") /\ UNCHANGED sure
  /\ UNCHANGED <<status, outside, handle, kept, shown, plock, driver, cancels>>

Replace(e) ==
  /\ At(e, {"ensure"}, "replacing")
  /\ \/ kept' = [kept EXCEPT ![e] = "asked"] /\ Goto(e, "verifying") /\ UNCHANGED sure
     \/ \E c \in Cookies : kept' = [kept EXCEPT ![e] = c] /\ GivesUp(e)
  /\ UNCHANGED <<status, outside, handle, shown, plock, driver, cancels>>

Verify(e) ==
  /\ At(e, {"ensure"}, "verifying")
  /\ \/ kept[e] = "asked" /\ Restart(e)
     \/ GivesUp(e)
  /\ UNCHANGED <<status, outside, handle, kept, shown, plock, driver, cancels>>

\* Fault: a page that is ready is taken for one that shows the cookies.
CheckReadyOnly(e) ==
  /\ At(e, {"ensure"}, "checking")
  /\ IF Context(e) THEN Succeeds(e) ELSE GivesUp(e)
  /\ UNCHANGED <<status, outside, handle, kept, shown, plock, driver, cancels>>

Check(e) ==
  /\ At(e, {"ensure"}, "checking")
  /\ \/ Matches(e) /\ page[e] = "live" /\ Succeeds(e)
     \/ GivesUp(e)
  /\ UNCHANGED <<status, outside, handle, kept, shown, plock, driver, cancels>>

-----------------------------------------------------------------------------
(* Time limits and stopped tasks cancel a recycle or an ensure where it     *)
(* waits: the locks are let go, what was done stays.                        *)

Cancel(e) ==
  /\ op[e].do = "recycle" \/ op[e].by = "ensure"
  /\ op[e].pc = "stopping" => CancelInStop
  /\ cancels < MaxCancel /\ cancels' = cancels + 1
  /\ op' = [op EXCEPT ![e] = NoOp]
  /\ Drops(e)
  /\ dlock' = IF dlock = e THEN Nobody ELSE dlock
  /\ up' = (up /\ op[e].pc # "stopping")
  /\ refs' = IF op[e].pc = "stopping" THEN 0 ELSE refs
  /\ page' = [page EXCEPT ![e] = IF op[e].pc \in {"attaching", "closing"} THEN "none" ELSE @]
  /\ UNCHANGED <<status, outside, ws, ref, jar>>

\* A lease makes a ready environment busy.
Lease(e) ==
  /\ Idle(e) /\ status[e] = "ready"
  /\ Status(e, "busy")
  /\ UNCHANGED <<outside, handle, jar, plock, driver, op, cancels>>

\* Outside: windows close by themselves, or are opened and browsers deleted in
\* the external software; a page sets cookies.
WindowEnds(e) ==
  /\ win[e] /\ CloseWindow(e) /\ sure' = sure \ {e}
  /\ UNCHANGED <<status, here, ref, shown, plock, driver, op, cancels>>

OpenedOutside(e) ==
  /\ here[e] /\ ~win[e] /\ win' = [win EXCEPT ![e] = TRUE]
  /\ shown' = [shown EXCEPT ![e] = kept[e]]
  /\ UNCHANGED <<status, here, handle, kept, sure, plock, driver, op, cancels>>

DeletedOutside(e) ==
  /\ here[e] /\ ~win[e] /\ here' = [here EXCEPT ![e] = FALSE]
  /\ UNCHANGED <<status, win, handle, jar, plock, driver, op, cancels>>

PageSetsCookies(e) ==
  /\ win[e] /\ shown' = [shown EXCEPT ![e] = "other"] /\ sure' = sure \ {e}
  /\ UNCHANGED <<status, outside, handle, kept, plock, driver, op, cancels>>

Step(e) ==
  \/ Create(e) \/ StartBegins(e) \/ Open(e) \/ LaunchSucceeds(e) \/ LaunchFails(e) \/ WriteBack(e)
  \/ Connect(e) \/ Acquire(e) \/ DriverStarts(e) \/ Attach(e) \/ ConnectGivesUp(e)
  \/ ClosePage(e) \/ Release(e) \/ DriverStops(e)
  \/ StopBegins(e) \/ BitLooks(e) \/ StopWindow(e) \/ WaitClosed(e)
  \/ DestroyBegins(e) \/ LookUp(e) \/ Delete(e)
  \/ Compare(e) \/ Replace(e) \/ Verify(e) \/ Check(e)

Next ==
  \E e \in Envs :
    \/ \E do \in {"create", "start", "stop", "recycle", "destroy", "ensure"} : Ask(e, do)
    \/ Step(e) \/ Cancel(e) \/ Lease(e)
    \/ WindowEnds(e) \/ OpenedOutside(e) \/ DeletedOutside(e) \/ PageSetsCookies(e)

Spec == Init /\ [][Next]_vars

-----------------------------------------------------------------------------
(* What must hold.                                                         *)

\* The driver is never stopped under a connection: releases count only for
\* references that are held, whatever was cancelled elsewhere.
DriverServes == \A e \in Envs : page[e] = "live" => up

\* An environment uses the driver while it holds a reference that it is not
\* giving back to a driver that stops.
Uses(e) == ref[e] /\ op[e].pc # "stopping"
Users == {e \in Envs : Uses(e)}

Driver == INSTANCE SharedDriver WITH User <- Envs, users <- Users, running <- up

\* The driver runs from the first acquire to the last release, whatever fails or is
\* cancelled in between, and is stopped only when nobody holds a reference.
KeepsDriver == Driver!Spec

\* Except for BitBrowser, an environment that is ready is not driven by a
\* connection of its last user, unless a cancellation left one.
ReadyIsDetached ==
  \A e \in Envs \ Bit :
    Idle(e) /\ status[e] = "ready" /\ cancels = 0 => page[e] # "live"

\* Cookies that ensure reported are those of the profile and of the page, also
\* when the window wrote its own over them while it closed.
EnsuredCookies ==
  \A e \in sure : kept[e] = "asked" /\ shown[e] = "asked" /\ page[e] = "live"

\* Nobody waits for everybody: who holds the lock of a provider is past waiting
\* for one, and who holds the driver's lock waits for no lock at all; whoever
\* fails, is cancelled or is done holds none.
HolderMoves ==
  /\ \A k \in DOMAIN plock : plock[k] # Nobody =>
       \/ op[plock[k]].pc \in {"launching", "writing", "acquiring", "starting", "attaching",
                               "closing", "releasing", "stopping", "closed", "waiting",
                               "deleting"}
       \/ At(plock[k], {"stop", "recycle"}, "opening")
  /\ dlock # Nobody => op[dlock].pc \in {"starting", "stopping"}

-----------------------------------------------------------------------------
(* What is said of the code and does not hold.                             *)

\* models.py:46: running means connected.
RunningIsConnected ==
  \A e \in Envs : Idle(e) /\ status[e] = "running" => page[e] # "none"
=============================================================================
