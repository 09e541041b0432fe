---------------------------- MODULE DebugSession ----------------------------
(***************************************************************************)
(* One debug session (DebugService) and the process that works for it        *)
(* (worker_entry): the session is started once, its worker reports through   *)
(* a pipe, a watcher records how it ended, and any number of calls stop it   *)
(* through a file, then by signals.  The host may restart at any point; its  *)
(* worker goes on without it.                                                *)
(*                                                                           *)
(* A row is saved by a thread that first reads the session and then writes.  *)
(***************************************************************************)
EXTENDS Naturals, Sequences

CONSTANTS
  Stopper,      \* calls of stop_session: stop, restart, shutdown
  MaxRestart    \* bound on restarts of the host

ASSUME SessionAssumption ==
  Stopper \cap {"start", "stream", "watch"} = {} /\ MaxRestart \in Nat

VARIABLES
  state,    \* the state of the session in memory
  row,      \* its state in the database
  flag,     \* the file that asks the worker to stop
  start,    \* the progress of start_session
  proc,     \* the process is in _processes
  worker,   \* the process: what it does, its report, its code, its signal, its pipe
  pipe,     \* events that were written and not read
  stream,   \* the progress of _consume_stream
  watch,    \* the progress of _watch_process
  stop,     \* stop[s]: the progress of a call of stop_session
  save,     \* save[c]: the progress of the row c saves, or the state it has read
  restarts

process == <<worker, pipe>>
session == <<state, flag, proc>>
vars == <<session, row, start, process, stream, watch, stop, save, restarts>>

Final == {"succeeded", "failed", "stopped"}
States == Final \cup {"created", "starting", "waiting_for_attach", "running", "stopping"}
Saver == {"start", "stream", "watch"} \cup Stopper
Alive == {"boot", "attach", "ready", "run", "exiting"}
Process ==
  [life : Alive \cup {"none", "dead"}, said : Final \cup {"nothing"}, clean : BOOLEAN,
   signal : {"none", "term", "kill"}, piped : BOOLEAN]
StopCall ==
  [at : {"idle", "saving", "grace", "term", "kill", "watch", "returned", "gone"},
   watch : BOOLEAN, after : BOOLEAN]
NoStop == [at |-> "idle", watch |-> FALSE, after |-> FALSE]

TypeOK ==
  /\ state \in States /\ row \in States /\ flag \in BOOLEAN /\ proc \in BOOLEAN
  /\ start \in {"idle", "saving", "spawning", "failed", "registered", "returned", "gone"}
  /\ worker \in Process
  /\ pipe \in Seq(States)
  /\ stream \in {"none", "reading", "saving", "failed", "eof"}
  /\ watch \in {"none", "waiting", "draining", "saving", "ended"}
  /\ stop \in [Stopper -> StopCall]
  /\ save \in [Saver -> States \cup {"idle", "asked", "done"}]
  /\ restarts \in 0..MaxRestart

Init ==
  /\ state = "created" /\ row = "created" /\ flag = FALSE /\ proc = FALSE
  /\ start = "idle" /\ stream = "none" /\ watch = "none" /\ pipe = <<>>
  /\ worker = [life |-> "none", said |-> "nothing", clean |-> FALSE, signal |-> "none",
               piped |-> TRUE]
  /\ stop = [s \in Stopper |-> NoStop] /\ save = [c \in Saver |-> "idle"]
  /\ restarts = 0

-----------------------------------------------------------------------------
(* Saving.                                                                 *)

Ask(c) == save' = [save EXCEPT ![c] = "asked"]
Saved(c) == save[c] = "done" /\ save' = [save EXCEPT ![c] = "idle"]

SaveReads(c) ==
  /\ save[c] = "asked" /\ save' = [save EXCEPT ![c] = state]
  /\ UNCHANGED <<session, row, start, process, stream, watch, stop, restarts>>

SaveWrites(c) ==
  /\ save[c] \in States /\ row' = save[c] /\ save' = [save EXCEPT ![c] = "done"]
  /\ UNCHANGED <<session, start, process, stream, watch, stop, restarts>>

-----------------------------------------------------------------------------
(* start_session.                                                          *)

StartBegins ==
  /\ start = "idle" /\ start' = "saving" /\ state' = "starting" /\ Ask("start")
  /\ UNCHANGED <<flag, proc, row, process, stream, watch, stop, restarts>>

\* The file of a stop before this start is removed.
StartPrepares ==
  /\ start = "saving" /\ Saved("start") /\ start' = "spawning" /\ flag' = FALSE
  /\ UNCHANGED <<state, proc, row, process, stream, watch, stop, restarts>>

Spawn ==
  /\ start = "spawning"
  /\ \/ /\ worker' = [worker EXCEPT !.life = "boot"] /\ proc' = TRUE
        /\ start' = "registered" /\ Ask("start")
     \/ start' = "failed" /\ UNCHANGED <<worker, proc, save>>
  /\ UNCHANGED <<state, flag, row, pipe, stream, watch, stop, restarts>>

StartReturns ==
  /\ start = "registered" /\ Saved("start") /\ start' = "returned"
  /\ stream' = "reading" /\ watch' = "waiting"
  /\ UNCHANGED <<session, row, process, stop, restarts>>

-----------------------------------------------------------------------------
(* The worker.                                                             *)

\* It writes an event and goes on, unless the host it was forked by is gone.
Emits(event, life, said, clean) ==
  IF worker.piped
  THEN /\ pipe' = Append(pipe, event)
       /\ worker' = [worker EXCEPT !.life = life, !.said = said, !.clean = clean]
  ELSE /\ worker' = [worker EXCEPT !.life = "dead", !.clean = FALSE]
       /\ UNCHANGED pipe

Reports(r) == Emits(r, "exiting", r, r # "failed")
NoHost == UNCHANGED <<session, row, start, stream, watch, stop, save, restarts>>

WorkerBoots ==
  /\ worker.life = "boot" /\ NoHost
  /\ \/ Reports("failed")
     \/ Emits("waiting_for_attach", "attach", "nothing", FALSE)
     \/ worker' = [worker EXCEPT !.life = "ready"] /\ UNCHANGED pipe

WorkerAttaches ==
  /\ worker.life = "attach" /\ NoHost
  /\ \/ flag /\ Reports("stopped")
     \/ ~flag /\ worker' = [worker EXCEPT !.life = "ready"] /\ UNCHANGED pipe

WorkerRuns ==
  /\ worker.life = "ready" /\ NoHost
  /\ IF flag THEN Reports("stopped") ELSE Emits("running", "run", "nothing", FALSE)

WorkerEnds ==
  /\ worker.life = "run" /\ NoHost
  /\ \E r \in Final : Reports(r)

WorkerExits ==
  /\ worker.life = "exiting" /\ NoHost
  /\ worker' = [worker EXCEPT !.life = "dead"] /\ UNCHANGED pipe

\* An exception nobody catches, or a signal.
WorkerDies ==
  /\ worker.life \in Alive /\ NoHost
  /\ worker' = [worker EXCEPT !.life = "dead", !.clean = FALSE] /\ UNCHANGED pipe

Killed == worker.signal = "kill" /\ WorkerDies
Worker == WorkerBoots \/ WorkerAttaches \/ WorkerRuns \/ WorkerEnds \/ WorkerExits \/ WorkerDies

-----------------------------------------------------------------------------
(* Reading what the worker writes.                                         *)

Consume ==
  /\ stream = "reading" /\ pipe # <<>>
  /\ state' = Head(pipe) /\ pipe' = Tail(pipe)
  /\ stream' = "saving" /\ Ask("stream")
  /\ UNCHANGED <<flag, proc, row, start, worker, watch, stop, restarts>>

ConsumeSaved ==
  /\ stream = "saving" /\ Saved("stream") /\ stream' = "reading"
  /\ UNCHANGED <<session, row, start, process, watch, stop, restarts>>

\* The worker has closed the pipe, or a line is too long for the reader.
ConsumeEnds ==
  /\ stream = "reading"
  /\ \/ pipe = <<>> /\ worker.life = "dead" /\ stream' = "eof"
     \/ worker.life \in Alive /\ stream' = "failed"
  /\ UNCHANGED <<session, row, start, process, watch, stop, save, restarts>>

-----------------------------------------------------------------------------
(* _watch_process.                                                         *)

Outcome ==
  IF state = "stopping" THEN "stopped"
  ELSE IF state \in Final THEN state
  ELSE IF worker.clean THEN "stopped" ELSE "failed"

WatchWaits ==
  /\ watch = "waiting" /\ worker.life = "dead" /\ watch' = "draining"
  /\ UNCHANGED <<session, row, start, process, stream, stop, save, restarts>>

\* Fault: the readers of the pipe are not waited for.
WatchDecidesEarly ==
  /\ watch = "draining" /\ watch' = "saving"
  /\ state' = Outcome /\ Ask("watch")
  /\ UNCHANGED <<flag, proc, row, start, process, stream, stop, restarts>>

WatchDecides ==
  /\ watch = "draining" /\ stream \in {"eof", "failed"} /\ watch' = "saving"
  /\ state' = Outcome /\ Ask("watch")
  /\ UNCHANGED <<flag, proc, row, start, process, stream, stop, restarts>>

WatchEnds ==
  /\ watch = "saving" /\ Saved("watch") /\ watch' = "ended" /\ proc' = FALSE
  /\ UNCHANGED <<state, flag, row, start, process, stream, stop, restarts>>

-----------------------------------------------------------------------------
(* stop_session.                                                           *)

Watched == watch \in {"waiting", "draining", "saving"}
Goto(s, at) == stop' = [stop EXCEPT ![s].at = at]
Call(s, at) ==
  stop' = [stop EXCEPT ![s] = [at |-> at, watch |-> Watched, after |-> start = "returned"]]
AfterDeath(s) == IF stop[s].watch THEN "watch" ELSE "returned"

\* Fault: a session that reported how it ended is taken for one that is over.
StopBeginsLazy(s) ==
  /\ stop[s].at = "idle" /\ start # "idle"
  /\ \/ /\ state \in Final /\ Call(s, "returned")
        /\ UNCHANGED <<state, save>>
     \/ /\ state \notin Final /\ Call(s, "saving")
        /\ state' = "stopping" /\ Ask(s)
  /\ UNCHANGED <<flag, proc, row, start, process, stream, watch, restarts>>

StopBegins(s) ==
  /\ stop[s].at = "idle" /\ start # "idle"
  /\ \/ /\ state \in Final /\ Call(s, IF Watched THEN "watch" ELSE "returned")
        /\ UNCHANGED <<state, save>>
     \/ /\ state \notin Final /\ Call(s, "saving")
        /\ state' = "stopping" /\ Ask(s)
  /\ UNCHANGED <<flag, proc, row, start, process, stream, watch, restarts>>

StopFlags(s) ==
  /\ stop[s].at = "saving" /\ Saved(s) /\ flag' = TRUE
  /\ Goto(s, IF proc THEN "grace" ELSE AfterDeath(s))
  /\ UNCHANGED <<state, proc, row, start, process, stream, watch, restarts>>

StopSeesDeath(s) ==
  /\ stop[s].at \in {"grace", "term", "kill"} /\ worker.life = "dead"
  /\ Goto(s, AfterDeath(s))
  /\ UNCHANGED <<session, row, start, process, stream, watch, save, restarts>>

\* Fault: nothing follows terminate.
StopEscalatesOnce(s) ==
  /\ worker.life \in Alive /\ stop[s].at = "grace"
  /\ Goto(s, "term")
  /\ worker' = [worker EXCEPT !.signal = IF @ = "kill" THEN @ ELSE "term"]
  /\ UNCHANGED <<session, row, start, pipe, stream, watch, save, restarts>>

\* Both waits have a limit; the third has none.
StopEscalates(s) ==
  /\ worker.life \in Alive
  /\ \/ /\ stop[s].at = "grace" /\ Goto(s, "term")
        /\ worker' = [worker EXCEPT !.signal = IF @ = "kill" THEN @ ELSE "term"]
     \/ /\ stop[s].at = "term" /\ Goto(s, "kill")
        /\ worker' = [worker EXCEPT !.signal = "kill"]
  /\ UNCHANGED <<session, row, start, pipe, stream, watch, save, restarts>>

StopReturns(s) ==
  /\ stop[s].at = "watch" /\ watch = "ended" /\ Goto(s, "returned")
  /\ UNCHANGED <<session, row, start, process, stream, watch, save, restarts>>

-----------------------------------------------------------------------------

\* The next process finds the row; what a thread had not written is lost.
Restart ==
  /\ restarts < MaxRestart /\ restarts' = restarts + 1
  /\ state' = row /\ proc' = FALSE /\ start' = "gone"
  /\ worker' = [worker EXCEPT !.piped = FALSE] /\ pipe' = <<>>
  /\ stream' = "none" /\ watch' = "none"
  /\ stop' = [s \in Stopper |-> IF stop[s].at = "idle" THEN NoStop
                                ELSE [stop[s] EXCEPT !.at = "gone"]]
  /\ save' = [c \in Saver |-> "idle"]
  /\ UNCHANGED <<flag, row>>

Start == StartBegins \/ StartPrepares \/ Spawn \/ StartReturns
Stream == Consume \/ ConsumeSaved \/ ConsumeEnds
Watch == WatchWaits \/ WatchDecides \/ WatchEnds
Stop(s) == StopFlags(s) \/ StopSeesDeath(s) \/ StopEscalates(s) \/ StopReturns(s)
Save(c) == SaveReads(c) \/ SaveWrites(c)

Next ==
  \/ Start \/ Worker \/ Stream \/ Watch \/ Restart
  \/ \E s \in Stopper : StopBegins(s) \/ Stop(s)
  \/ \E c \in Saver : Save(c)

\* The event loop and its threads go on; a worker that has reported exits, and one
\* that is killed dies.  Nothing else is asked of a worker, nor of a user.
Fairness ==
  /\ WF_vars(StartPrepares \/ Spawn \/ StartReturns)
  /\ WF_vars(Stream) /\ WF_vars(Watch)
  /\ WF_vars(WorkerExits) /\ WF_vars(Killed)
  /\ \A s \in Stopper : WF_vars(Stop(s))
  /\ \A c \in Saver : WF_vars(Save(c))

Spec == Init /\ [][Next]_vars
FairSpec == Spec /\ Fairness

-----------------------------------------------------------------------------
(* What must hold.                                                         *)

\* When the watcher is through, the session has ended the way its worker said it
\* did, whoever asked it to stop and however late the report was read.
ResultKept ==
  watch = "ended" =>
    /\ state \in Final
    /\ stream = "eof" /\ worker.said # "nothing" => state = worker.said

\* A stop that was asked for after the start had returned answers only when the
\* worker is over and the session shows how it ended.
StoppedIsDead ==
  \A s \in Stopper : stop[s].at = "returned" /\ stop[s].after =>
    worker.life = "dead" /\ state \in Final

\* Every stop is answered, whatever the worker and other stops do.
StopsAnswer ==
  \A s \in Stopper : stop[s].at # "idle" ~> stop[s].at \in {"returned", "gone"}

-----------------------------------------------------------------------------
(* What is said of the code and does not hold.                             *)

\* test_service.py: a session that was stopped ends "stopped"; a worker that says
\* it is running after the stop, and is then terminated, has "failed".
StoppedIsStopped ==
  [][(watch = "draining" /\ watch' = "saving" /\ flag) => (state' # "failed")]_vars

\* The row of a session that has ended says so; a save that read the session
\* before may be written last.
RowIsFinal == [][(row \in Final) => (row' \in Final)]_vars

\* A stop that was answered leaves no worker; one during the start does.
NoWorkerLeft ==
  \A s \in Stopper : stop[s].at = "returned" /\ start = "returned" => worker.life = "dead"
=============================================================================
