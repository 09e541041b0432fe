-------------------------- MODULE DebugSession_proofs --------------------------
(***************************************************************************)
(* Proofs about DebugSession, for any number of calls that stop a session   *)
(* and any number of restarts.                                               *)
(***************************************************************************)
EXTENDS DebugSession, SequenceTheorems, TLAPS

USE SessionAssumption

-----------------------------------------------------------------------------
(* The invariant.                                                          *)

\* How far the start, the worker, the reader and the watcher can be apart: the
\* reader and the watcher exist from the end of the start to the next restart, the
\* watcher gets past its first wait only with the worker, and past the reader.
StageInv ==
  /\ start \in {"idle", "saving", "spawning", "failed"} => worker.life = "none"
  /\ start # "gone" => worker.piped
  /\ (start = "returned") <=> (watch # "none")
  /\ (start = "returned") <=> (stream # "none")
  /\ stream = "eof" => pipe = <<>> /\ worker.life = "dead"
  /\ watch \in {"draining", "saving", "ended"} => worker.life = "dead"
  /\ watch \in {"saving", "ended"} => stream \in {"eof", "failed"} /\ state \in Final

\* A report is the last event of the pipe until it is the state of the session.
ReportInv ==
  /\ worker.said # "nothing" => worker.life \in {"exiting", "dead"}
  /\ worker.said # "nothing" /\ start # "gone" =>
       \/ pipe # <<>> /\ pipe[Len(pipe)] = worker.said
       \/ pipe = <<>> /\ state = worker.said

\* A stop that came after the start waits for the watcher, or the watcher is through.
StopInv ==
  \A s \in Stopper :
    /\ stop[s].at = "idle" => ~stop[s].after /\ ~stop[s].watch
    /\ stop[s].at # "gone" /\ stop[s].after =>
         start = "returned" /\ (stop[s].watch \/ watch = "ended")
    /\ stop[s].at = "returned" /\ stop[s].after => watch = "ended"

IInv == TypeOK /\ StageInv /\ ReportInv /\ StopInv

-----------------------------------------------------------------------------
(* Types.                                                                  *)

LEMMA EmitsType ==
  ASSUME TypeOK, NEW event \in States, NEW life \in Alive, NEW said \in Final \cup {"nothing"},
         NEW clean \in BOOLEAN, Emits(event, life, said, clean)
  PROVE  worker' \in Process /\ pipe' \in Seq(States)
<1>1. CASE worker.piped
  <2>1. Append(pipe, event) \in Seq(States)
    BY DEF TypeOK
  <2>2. [worker EXCEPT !.life = life, !.said = said, !.clean = clean] \in Process
    BY DEF TypeOK, Process
  <2>. QED
    BY <1>1, <2>1, <2>2 DEF Emits
<1>2. CASE ~worker.piped
  BY <1>2 DEF Emits, TypeOK, Process
<1>. QED
  BY <1>1, <1>2

LEMMA WorkerType ==
  ASSUME TypeOK, Worker
  PROVE  worker' \in Process /\ pipe' \in Seq(States)
<1>0. Final \subseteq States /\ "exiting" \in Alive /\ "attach" \in Alive /\ "run" \in Alive
      /\ "waiting_for_attach" \in States /\ "running" \in States /\ "nothing" \in Final \cup {"nothing"}
  BY DEF Final, States, Alive
<1>1. ASSUME NEW r \in Final, Reports(r)
      PROVE  worker' \in Process /\ pipe' \in Seq(States)
  BY <1>0, <1>1, EmitsType DEF Reports
<1>2. ASSUME UNCHANGED pipe, NEW life \in Alive \cup {"dead"}, NEW clean \in BOOLEAN,
             worker' = [worker EXCEPT !.life = life] \/
             worker' = [worker EXCEPT !.life = life, !.clean = clean]
      PROVE  worker' \in Process /\ pipe' \in Seq(States)
  BY <1>2 DEF TypeOK, Process
<1>3. CASE WorkerBoots
  <2>1. CASE Reports("failed")
    BY <2>1, <1>1 DEF Final
  <2>2. CASE Emits("waiting_for_attach", "attach", "nothing", FALSE)
    BY <2>2, <1>0, EmitsType
  <2>3. CASE worker' = [worker EXCEPT !.life = "ready"] /\ UNCHANGED pipe
    BY <2>3, <1>2 DEF Alive
  <2>. QED
    BY <1>3, <2>1, <2>2, <2>3 DEF WorkerBoots
<1>4. CASE WorkerAttaches
  <2>1. CASE Reports("stopped")
    BY <2>1, <1>1 DEF Final
  <2>2. CASE worker' = [worker EXCEPT !.life = "ready"] /\ UNCHANGED pipe
    BY <2>2, <1>2 DEF Alive
  <2>. QED
    BY <1>4, <2>1, <2>2 DEF WorkerAttaches
<1>5. CASE WorkerRuns
  <2>1. CASE Reports("stopped")
    BY <2>1, <1>1 DEF Final
  <2>2. CASE Emits("running", "run", "nothing", FALSE)
    BY <2>2, <1>0, EmitsType
  <2>. QED
    BY <1>5, <2>1, <2>2 DEF WorkerRuns
<1>6. CASE WorkerEnds
  BY <1>6, <1>1 DEF WorkerEnds
<1>7. CASE WorkerExits \/ WorkerDies
  BY <1>7, <1>2 DEF WorkerExits, WorkerDies
<1>. QED
  BY <1>3, <1>4, <1>5, <1>6, <1>7 DEF Worker

LEMMA TypeNext == TypeOK /\ [Next]_vars => TypeOK'
<1>. SUFFICES ASSUME TypeOK, [Next]_vars PROVE TypeOK'
  OBVIOUS
<1>0. /\ "start" \in Saver /\ "stream" \in Saver /\ "watch" \in Saver /\ Stopper \subseteq Saver
      /\ Final \subseteq States
      /\ {"created", "starting", "waiting_for_attach", "running", "stopping", "stopped", "failed"}
           \subseteq States
  BY DEF Saver, Final, States
<1>1. ASSUME NEW c \in Saver, NEW v \in States \cup {"idle", "asked", "done"},
             save' = [save EXCEPT ![c] = v]
      PROVE  save' \in [Saver -> States \cup {"idle", "asked", "done"}]
  BY <1>1 DEF TypeOK
<1>2. ASSUME NEW c \in Saver, Ask(c) \/ Saved(c)
      PROVE  save' \in [Saver -> States \cup {"idle", "asked", "done"}]
  BY <1>1, <1>2 DEF Ask, Saved
<1>3. ASSUME NEW s \in Stopper, NEW at \in {"saving", "grace", "term", "kill", "watch", "returned"},
             Goto(s, at) \/ Call(s, at)
      PROVE  stop' \in [Stopper -> StopCall]
  <2>1. [stop[s] EXCEPT !.at = at] \in StopCall
    BY DEF TypeOK, StopCall
  <2>2. [at |-> at, watch |-> Watched, after |-> start = "returned"] \in StopCall
    BY DEF StopCall, Watched
  <2>3. CASE Goto(s, at)
    <3>1. stop' = [stop EXCEPT ![s] = [stop[s] EXCEPT !.at = at]]
      BY <2>3 DEF Goto
    <3>. QED
      BY <3>1, <2>1 DEF TypeOK
  <2>4. CASE Call(s, at)
    BY <2>4, <2>2 DEF Call, TypeOK
  <2>. QED
    BY <1>3, <2>3, <2>4
<1>4. CASE Start
  <2>1. CASE StartBegins
    BY <2>1, <1>0, <1>2 DEF StartBegins, TypeOK, process
  <2>2. CASE StartPrepares
    BY <2>2, <1>0, <1>2 DEF StartPrepares, TypeOK, process
  <2>3. CASE Spawn
    <3>1. worker' \in Process
      BY <2>3 DEF Spawn, TypeOK, Process, Alive
    <3>2. save' \in [Saver -> States \cup {"idle", "asked", "done"}]
      BY <2>3, <1>0, <1>2 DEF Spawn, TypeOK
    <3>. QED
      BY <2>3, <3>1, <3>2 DEF Spawn, TypeOK
  <2>4. CASE StartReturns
    BY <2>4, <1>0, <1>2 DEF StartReturns, TypeOK, process, session
  <2>. QED
    BY <1>4, <2>1, <2>2, <2>3, <2>4 DEF Start
<1>5. CASE Worker
  <2>1. NoHost
    BY <1>5 DEF Worker, WorkerBoots, WorkerAttaches, WorkerRuns, WorkerEnds, WorkerExits, WorkerDies
  <2>. QED
    BY <1>5, <2>1, WorkerType DEF NoHost, session, TypeOK
<1>6. CASE Stream
  <2>1. CASE Consume
    <3>1. Head(pipe) \in States /\ Tail(pipe) \in Seq(States)
      BY <2>1 DEF Consume, TypeOK
    <3>2. save' \in [Saver -> States \cup {"idle", "asked", "done"}]
      BY <2>1, <1>0, <1>2 DEF Consume
    <3>. QED
      BY <2>1, <3>1, <3>2 DEF Consume, TypeOK
  <2>2. CASE ConsumeSaved
    BY <2>2, <1>0, <1>2 DEF ConsumeSaved, TypeOK, process, session
  <2>3. CASE ConsumeEnds
    BY <2>3 DEF ConsumeEnds, TypeOK, process, session
  <2>. QED
    BY <1>6, <2>1, <2>2, <2>3 DEF Stream
<1>7. CASE Watch
  <2>1. CASE WatchWaits
    BY <2>1 DEF WatchWaits, TypeOK, process, session
  <2>2. CASE WatchDecides
    <3>1. Outcome \in States
      BY <1>0 DEF Outcome, TypeOK
    <3>. QED
      BY <2>2, <3>1, <1>0, <1>2 DEF WatchDecides, TypeOK, process
  <2>3. CASE WatchEnds
    BY <2>3, <1>0, <1>2 DEF WatchEnds, TypeOK, process
  <2>. QED
    BY <1>7, <2>1, <2>2, <2>3 DEF Watch
<1>8. CASE Restart
  <2>1. worker' \in Process
    BY <1>8 DEF Restart, TypeOK, Process
  <2>2. stop' \in [Stopper -> StopCall]
    <3>1. \A s \in Stopper : [stop[s] EXCEPT !.at = "gone"] \in StopCall
      BY DEF TypeOK, StopCall
    <3>2. NoStop \in StopCall
      BY DEF NoStop, StopCall
    <3>. QED
      BY <1>8, <3>1, <3>2 DEF Restart
  <2>3. restarts' \in 0..MaxRestart
    BY <1>8 DEF Restart, TypeOK
  <2>4. pipe' \in Seq(States) /\ save' \in [Saver -> States \cup {"idle", "asked", "done"}]
    BY <1>8 DEF Restart
  <2>5. state' \in States /\ row' \in States /\ flag' \in BOOLEAN /\ proc' \in BOOLEAN
    BY <1>8 DEF Restart, TypeOK
  <2>. QED
    BY <1>8, <2>1, <2>2, <2>3, <2>4, <2>5 DEF Restart, TypeOK
<1>9. ASSUME NEW s \in Stopper, StopBegins(s) \/ Stop(s) PROVE TypeOK'
  <2>1. CASE StopBegins(s)
    <3>1. stop' \in [Stopper -> StopCall]
      BY <2>1, <1>3 DEF StopBegins
    <3>2. save' \in [Saver -> States \cup {"idle", "asked", "done"}] /\ state' \in States
      BY <2>1, <1>0, <1>2 DEF StopBegins, TypeOK
    <3>. QED
      BY <2>1, <3>1, <3>2 DEF StopBegins, TypeOK, process
  <2>2. CASE StopFlags(s)
    <3>1. stop' \in [Stopper -> StopCall]
      BY <2>2, <1>3 DEF StopFlags, AfterDeath
    <3>2. save' \in [Saver -> States \cup {"idle", "asked", "done"}]
      BY <2>2, <1>0, <1>2 DEF StopFlags
    <3>. QED
      BY <2>2, <3>1, <3>2 DEF StopFlags, TypeOK, process
  <2>3. CASE StopSeesDeath(s)
    <3>1. stop' \in [Stopper -> StopCall]
      BY <2>3, <1>3 DEF StopSeesDeath, AfterDeath
    <3>. QED
      BY <2>3, <3>1 DEF StopSeesDeath, TypeOK, process, session
  <2>4. CASE StopEscalates(s)
    <3>1. stop' \in [Stopper -> StopCall]
      BY <2>4, <1>3 DEF StopEscalates
    <3>2. worker' \in Process
      BY <2>4 DEF StopEscalates, TypeOK, Process
    <3>. QED
      BY <2>4, <3>1, <3>2 DEF StopEscalates, TypeOK, session
  <2>5. CASE StopReturns(s)
    <3>1. stop' \in [Stopper -> StopCall]
      BY <2>5, <1>3 DEF StopReturns
    <3>. QED
      BY <2>5, <3>1 DEF StopReturns, TypeOK, process, session
  <2>. QED
    BY <1>9, <2>1, <2>2, <2>3, <2>4, <2>5 DEF Stop
<1>10. ASSUME NEW c \in Saver, Save(c) PROVE TypeOK'
  <2>1. CASE SaveReads(c)
    BY <2>1, <1>1 DEF SaveReads, TypeOK, process, session
  <2>2. CASE SaveWrites(c)
    BY <2>2, <1>1 DEF SaveWrites, TypeOK, process, session
  <2>. QED
    BY <1>10, <2>1, <2>2 DEF Save
<1>11. CASE UNCHANGED vars
  BY <1>11 DEF vars, session, process, TypeOK
<1>. QED
  BY <1>4, <1>5, <1>6, <1>7, <1>8, <1>9, <1>10, <1>11 DEF Next

LEMMA TypeInit == Init => TypeOK
<1>. SUFFICES ASSUME Init PROVE TypeOK
  OBVIOUS
<1>1. worker \in Process /\ stop \in [Stopper -> StopCall]
  BY DEF Init, Process, StopCall, NoStop
<1>2. "created" \in States /\ restarts \in 0..MaxRestart /\ pipe \in Seq(States)
  BY DEF Init, States
<1>3. save \in [Saver -> States \cup {"idle", "asked", "done"}]
  BY DEF Init
<1>. QED
  BY <1>1, <1>2, <1>3 DEF Init, TypeOK

\* Every variable keeps its type, in particular no row holds anything but a state.
THEOREM TypeCorrect == Spec => []TypeOK
BY TypeInit, TypeNext, PTL DEF Spec

-----------------------------------------------------------------------------
(* What a step of the worker does.                                         *)

\* A worker that goes on stays what it was for everybody else, and an end is an end.
LEMMA WorkerEffect ==
  ASSUME TypeOK, StageInv, ReportInv, Worker
  PROVE  /\ worker.life \in Alive /\ worker'.life \in Alive \cup {"dead"}
         /\ worker'.piped = worker.piped
         /\ \/ worker'.said = worker.said /\ worker.said = "nothing"
               /\ (worker.piped => pipe' = pipe \/ \E e \in States : pipe' = Append(pipe, e))
            \/ worker'.said = worker.said /\ pipe' = pipe /\ worker'.life = "dead"
            \/ /\ worker.said = "nothing" /\ worker'.said \in Final
               /\ worker.piped /\ pipe' = Append(pipe, worker'.said)
               /\ worker'.life = "exiting"
<1>0. worker \in Process
  BY DEF TypeOK
<1>1. ASSUME NEW r \in Final, Reports(r), worker.said = "nothing", worker.life \in Alive
      PROVE  /\ worker'.life \in Alive \cup {"dead"} /\ worker'.piped = worker.piped
             /\ \/ worker'.said = worker.said /\ ~worker.piped
                \/ /\ worker'.said = r /\ worker.piped /\ pipe' = Append(pipe, r)
                   /\ worker'.life = "exiting"
  BY <1>0, <1>1 DEF Reports, Emits, Process, Alive
<1>2. ASSUME NEW e \in States, NEW life \in Alive, Emits(e, life, "nothing", FALSE),
             worker.said = "nothing"
      PROVE  /\ worker'.life \in Alive \cup {"dead"} /\ worker'.piped = worker.piped
             /\ worker'.said = worker.said
             /\ (worker.piped => pipe' = Append(pipe, e))
  BY <1>0, <1>2 DEF Emits, Process, Alive
<1>3. "running" \in States /\ "waiting_for_attach" \in States /\ Final \subseteq States
      /\ {"attach", "run", "ready", "boot", "exiting"} \subseteq Alive
      /\ {"stopped", "failed"} \subseteq Final
  BY DEF States, Final, Alive
<1>4. worker.life \in {"boot", "attach", "ready", "run"} => worker.said = "nothing"
  BY <1>0 DEF ReportInv, Process
<1>5. CASE WorkerBoots
  <2>1. worker.said = "nothing" /\ worker.life \in Alive
    BY <1>5, <1>4, <1>3 DEF WorkerBoots
  <2>2. CASE Reports("failed")
    BY <2>1, <2>2, <1>1, <1>3
  <2>3. CASE Emits("waiting_for_attach", "attach", "nothing", FALSE)
    BY <2>1, <2>3, <1>2, <1>3
  <2>4. CASE worker' = [worker EXCEPT !.life = "ready"] /\ UNCHANGED pipe
    BY <2>1, <2>4, <1>0, <1>3 DEF Process
  <2>. QED
    BY <1>5, <2>2, <2>3, <2>4 DEF WorkerBoots
<1>6. CASE WorkerAttaches
  <2>1. worker.said = "nothing" /\ worker.life \in Alive
    BY <1>6, <1>4, <1>3 DEF WorkerAttaches
  <2>2. CASE Reports("stopped")
    BY <2>1, <2>2, <1>1, <1>3
  <2>3. CASE worker' = [worker EXCEPT !.life = "ready"] /\ UNCHANGED pipe
    BY <2>1, <2>3, <1>0, <1>3 DEF Process
  <2>. QED
    BY <1>6, <2>2, <2>3 DEF WorkerAttaches
<1>7. CASE WorkerRuns
  <2>1. worker.said = "nothing" /\ worker.life \in Alive
    BY <1>7, <1>4, <1>3 DEF WorkerRuns
  <2>2. CASE Reports("stopped")
    BY <2>1, <2>2, <1>1, <1>3
  <2>3. CASE Emits("running", "run", "nothing", FALSE)
    BY <2>1, <2>3, <1>2, <1>3
  <2>. QED
    BY <1>7, <2>2, <2>3 DEF WorkerRuns
<1>8. CASE WorkerEnds
  <2>1. worker.said = "nothing" /\ worker.life \in Alive
    BY <1>8, <1>4, <1>3 DEF WorkerEnds
  <2>2. PICK r \in Final : Reports(r)
    BY <1>8 DEF WorkerEnds
  <2>. QED
    BY <2>1, <2>2, <1>1, <1>3
<1>9. CASE WorkerExits \/ WorkerDies
  BY <1>9, <1>0, <1>3 DEF WorkerExits, WorkerDies, Process
<1>. QED
  BY <1>5, <1>6, <1>7, <1>8, <1>9 DEF Worker

LEMMA WorkerFrame == Worker => NoHost
BY DEF Worker, WorkerBoots, WorkerAttaches, WorkerRuns, WorkerEnds, WorkerExits, WorkerDies

LEMMA AliveFact == "dead" \notin Alive /\ "none" \notin Alive /\ "exiting" \in Alive
BY DEF Alive

-----------------------------------------------------------------------------
(* The stages.                                                             *)

LEMMA StageNext == IInv /\ [Next]_vars => StageInv'
<1>. SUFFICES ASSUME IInv, [Next]_vars PROVE StageInv'
  OBVIOUS
<1>. USE DEF IInv
<1>0. worker \in Process
  BY DEF TypeOK
<1>1. CASE Start
  <2>1. CASE StartBegins
    BY <2>1 DEF StartBegins, StageInv, process
  <2>2. CASE StartPrepares
    BY <2>2 DEF StartPrepares, StageInv, process
  <2>3. CASE Spawn
    BY <2>3, <1>0 DEF Spawn, StageInv, Process
  <2>4. CASE StartReturns
    BY <2>4 DEF StartReturns, StageInv, process, session
  <2>. QED
    BY <1>1, <2>1, <2>2, <2>3, <2>4 DEF Start
<1>2. CASE Worker
  <2>1. worker.life \in Alive /\ worker'.piped = worker.piped
    BY <1>2, WorkerEffect
  <2>2. watch \in {"none", "waiting"} /\ start \notin {"idle", "saving", "spawning", "failed"}
    BY <2>1, AliveFact DEF StageInv, TypeOK
  <2>3. stream # "eof"
    BY <2>1, AliveFact DEF StageInv
  <2>. QED
    BY <1>2, <2>1, <2>2, <2>3, WorkerFrame DEF NoHost, session, StageInv
<1>3. CASE Stream
  <2>1. CASE Consume
    BY <2>1 DEF Consume, StageInv
  <2>2. CASE ConsumeSaved
    BY <2>2 DEF ConsumeSaved, StageInv, process, session
  <2>3. CASE ConsumeEnds
    BY <2>3 DEF ConsumeEnds, StageInv, process, session
  <2>. QED
    BY <1>3, <2>1, <2>2, <2>3 DEF Stream
<1>4. CASE Watch
  <2>1. CASE WatchWaits
    BY <2>1 DEF WatchWaits, StageInv, process, session
  <2>2. CASE WatchDecides
    BY <2>2 DEF WatchDecides, StageInv, Outcome, Final, process
  <2>3. CASE WatchEnds
    BY <2>3 DEF WatchEnds, StageInv, process
  <2>. QED
    BY <1>4, <2>1, <2>2, <2>3 DEF Watch
<1>5. CASE Restart
  BY <1>5 DEF Restart, StageInv
<1>6. ASSUME NEW s \in Stopper, StopBegins(s) \/ Stop(s) PROVE StageInv'
  <2>1. CASE StopBegins(s)
    BY <2>1 DEF StopBegins, StageInv, process
  <2>2. CASE StopEscalates(s)
    <3>1. worker'.life = worker.life /\ worker'.piped = worker.piped
      BY <2>2, <1>0 DEF StopEscalates, Process
    <3>. QED
      BY <2>2, <3>1 DEF StopEscalates, StageInv, session
  <2>3. CASE StopFlags(s) \/ StopSeesDeath(s) \/ StopReturns(s)
    BY <2>3 DEF StopFlags, StopSeesDeath, StopReturns, StageInv, process, session
  <2>. QED
    BY <1>6, <2>1, <2>2, <2>3 DEF Stop
<1>7. CASE (\E c \in Saver : Save(c)) \/ UNCHANGED vars
  BY <1>7 DEF Save, SaveReads, SaveWrites, StageInv, vars, process, session
<1>. QED
  BY <1>1, <1>2, <1>3, <1>4, <1>5, <1>6, <1>7 DEF Next

-----------------------------------------------------------------------------
(* The report.                                                             *)

LEMMA ReportNext == IInv /\ [Next]_vars => ReportInv'
<1>. SUFFICES ASSUME IInv, [Next]_vars PROVE ReportInv'
  OBVIOUS
<1>. USE DEF IInv
<1>0. worker \in Process /\ pipe \in Seq(States)
  BY DEF TypeOK
<1>1. CASE Start
  <2>1. CASE StartBegins
    <3>1. worker.said = "nothing"
      BY <2>1, <1>0 DEF StartBegins, StageInv, ReportInv
    <3>. QED
      BY <2>1, <3>1 DEF StartBegins, ReportInv, process
  <2>2. CASE StartPrepares
    BY <2>2 DEF StartPrepares, ReportInv, process
  <2>3. CASE Spawn
    <3>1. worker.said = "nothing" /\ worker'.said = worker.said
      BY <2>3, <1>0 DEF Spawn, StageInv, ReportInv, Process
    <3>. QED
      BY <3>1 DEF ReportInv
  <2>4. CASE StartReturns
    BY <2>4 DEF StartReturns, ReportInv, process, session
  <2>. QED
    BY <1>1, <2>1, <2>2, <2>3, <2>4 DEF Start
<1>2. CASE Worker
  <2>1. UNCHANGED <<start, state>>
    BY <1>2, WorkerFrame DEF NoHost, session
  <2>2. CASE worker'.said = "nothing"
    BY <2>2 DEF ReportInv
  <2>3. CASE worker'.said = worker.said /\ pipe' = pipe /\ worker'.life = "dead"
    BY <2>1, <2>3 DEF ReportInv
  <2>4. CASE /\ worker'.said \in Final /\ pipe' = Append(pipe, worker'.said)
             /\ worker'.life = "exiting"
    <3>1. worker'.said \in States
      BY <2>4 DEF States
    <3>2. Append(pipe, worker'.said) # <<>>
          /\ Append(pipe, worker'.said)[Len(Append(pipe, worker'.said))] = worker'.said
      BY <1>0, <3>1
    <3>. QED
      BY <2>4, <3>2 DEF ReportInv
  <2>. QED
    BY <1>2, <2>2, <2>3, <2>4, WorkerEffect
<1>3. CASE Stream
  <2>1. CASE Consume
    <3>1. UNCHANGED <<worker, start>> /\ pipe # <<>> /\ state' = Head(pipe) /\ pipe' = Tail(pipe)
      BY <2>1 DEF Consume
    <3>2. ASSUME pipe[Len(pipe)] = worker.said
          PROVE  \/ pipe' # <<>> /\ pipe'[Len(pipe')] = worker.said
                 \/ pipe' = <<>> /\ state' = worker.said
      <4>1. CASE Len(pipe) = 1
        BY <1>0, <3>1, <3>2, <4>1
      <4>2. CASE Len(pipe) # 1
        <5>1. Len(pipe) \in Nat /\ Len(pipe) > 1
          <6>1. \A seq \in Seq(States) : (seq # <<>>) => (Len(seq) \in Nat \ {0})
            BY EmptySeq
          <6>2. Len(pipe) \in Nat \ {0}
            BY <1>0, <3>1, <6>1
          <6>3. \A n \in Nat \ {0} : n # 1 => n \in Nat /\ n > 1
            OBVIOUS
          <6>. QED
            BY <4>2, <6>2, <6>3, Zenon
        <5>2. Tail(pipe) # <<>> /\ Len(Tail(pipe)) = Len(pipe) - 1
          <6>1. Tail(pipe) \in Seq(States) /\ Len(Tail(pipe)) = Len(pipe) - 1
            BY <1>0, <3>1, HeadTailProperties
          <6>2. Len(<<>>) = 0
            OBVIOUS
          <6>3. Len(Tail(pipe)) # 0
            BY <5>1, <6>1
          <6>. QED
            BY <6>1, <6>2, <6>3
        <5>3. Tail(pipe)[Len(pipe) - 1] = pipe[Len(pipe)]
          BY <1>0, <5>1
        <5>. QED
          BY <3>1, <3>2, <5>2, <5>3
      <4>. QED
        BY <4>1, <4>2
    <3>. QED
      BY <3>1, <3>2 DEF ReportInv
  <2>2. CASE ConsumeSaved \/ ConsumeEnds
    BY <2>2 DEF ConsumeSaved, ConsumeEnds, ReportInv, process, session
  <2>. QED
    BY <1>3, <2>1, <2>2 DEF Stream
<1>4. CASE Watch
  <2>1. CASE WatchDecides
    <3>1. worker.said # "nothing" => worker.said \in Final
      BY <1>0 DEF Process
    <3>2. state \in Final => Outcome = state
      BY DEF Outcome, Final
    <3>. QED
      BY <2>1, <3>1, <3>2 DEF WatchDecides, ReportInv, process
  <2>2. CASE WatchWaits \/ WatchEnds
    BY <2>2 DEF WatchWaits, WatchEnds, ReportInv, process, session
  <2>. QED
    BY <1>4, <2>1, <2>2 DEF Watch
<1>5. CASE Restart
  BY <1>5, <1>0 DEF Restart, ReportInv, Process
<1>6. ASSUME NEW s \in Stopper, StopBegins(s) \/ Stop(s) PROVE ReportInv'
  <2>1. CASE StopBegins(s)
    <3>1. worker.said # "nothing" => worker.said \in Final
      BY <1>0 DEF Process
    <3>2. state' = state \/ state \notin Final
      BY <2>1 DEF StopBegins
    <3>. QED
      BY <2>1, <3>1, <3>2 DEF StopBegins, ReportInv, process
  <2>2. CASE StopEscalates(s)
    <3>1. worker'.life = worker.life /\ worker'.said = worker.said
      BY <2>2, <1>0 DEF StopEscalates, Process
    <3>. QED
      BY <2>2, <3>1 DEF StopEscalates, ReportInv, session
  <2>3. CASE StopFlags(s) \/ StopSeesDeath(s) \/ StopReturns(s)
    BY <2>3 DEF StopFlags, StopSeesDeath, StopReturns, ReportInv, process, session
  <2>. QED
    BY <1>6, <2>1, <2>2, <2>3 DEF Stop
<1>7. CASE (\E c \in Saver : Save(c)) \/ UNCHANGED vars
  BY <1>7 DEF Save, SaveReads, SaveWrites, ReportInv, vars, process, session
<1>. QED
  BY <1>1, <1>2, <1>3, <1>4, <1>5, <1>6, <1>7 DEF Next

-----------------------------------------------------------------------------
(* The stops.                                                              *)

\* A step that touches no stop keeps the invariant if it takes back neither the
\* start nor the end of the watcher.
LEMMA StopQuiet ==
  ASSUME StopInv, UNCHANGED stop,
         start = "returned" => start' = "returned", watch = "ended" => watch' = "ended"
  PROVE  StopInv'
BY DEF StopInv

LEMMA StopNext == IInv /\ [Next]_vars => StopInv'
<1>. SUFFICES ASSUME IInv, [Next]_vars PROVE StopInv'
  OBVIOUS
<1>. USE DEF IInv
<1>1. CASE Start \/ Stream \/ Watch \/ (\E c \in Saver : Save(c)) \/ UNCHANGED vars
  <2>1. /\ UNCHANGED stop
        /\ start = "returned" => start' = "returned"
        /\ (watch = "ended" => watch' = "ended") \/ start = "registered"
    BY <1>1 DEF Start, StartBegins, StartPrepares, Spawn, StartReturns, Stream, Consume,
      ConsumeSaved, ConsumeEnds, Watch, WatchWaits, WatchDecides, WatchEnds, Save, SaveReads,
      SaveWrites, vars
  <2>. QED
    BY <2>1, StopQuiet DEF StageInv
<1>2. CASE Worker
  BY <1>2, WorkerFrame, StopQuiet DEF NoHost
<1>3. CASE Restart
  BY <1>3 DEF Restart, StopInv, NoStop, TypeOK, StopCall
<1>4. ASSUME NEW s \in Stopper, StopBegins(s) \/ Stop(s) PROVE StopInv'
  <2>0. UNCHANGED <<start, watch>> /\ stop \in [Stopper -> StopCall]
    BY <1>4 DEF TypeOK, StopBegins, Stop, StopFlags, StopSeesDeath, StopEscalates, StopReturns
  <2>1. \A u \in Stopper \ {s} : stop'[u] = stop[u]
    BY <1>4, <2>0 DEF StopBegins, Stop, StopFlags, StopSeesDeath, StopEscalates, StopReturns,
      Goto, Call
  <2>2. SUFFICES
          /\ stop'[s].at # "idle"
          /\ stop'[s].at # "gone" /\ stop'[s].after =>
               start = "returned" /\ (stop'[s].watch \/ watch = "ended")
          /\ stop'[s].at = "returned" /\ stop'[s].after => watch = "ended"
    BY <2>0, <2>1 DEF StopInv
  <2>3. CASE StopBegins(s)
    <3>1. start = "returned" => Watched \/ watch = "ended"
      BY DEF StageInv, Watched, TypeOK
    <3>2. PICK at \in {"watch", "returned", "saving"} :
            stop'[s] = [at |-> at, watch |-> Watched, after |-> start = "returned"]
            /\ (at = "returned" => ~Watched)
      BY <2>3, <2>0 DEF StopBegins, Call
    <3>3. /\ stop'[s].at = at /\ stop'[s].watch = Watched
          /\ stop'[s].after = (start = "returned")
      BY <3>2
    <3>. QED
      BY <3>1, <3>2, <3>3, Zenon
  <2>4. ASSUME NEW at \in {"grace", "term", "kill", "watch", "returned"}, Goto(s, at),
               stop[s].at \notin {"idle", "gone"},
               at = "returned" => ~stop[s].watch \/ watch = "ended"
        PROVE  /\ stop'[s].at # "idle"
               /\ stop'[s].at # "gone" /\ stop'[s].after =>
                    start = "returned" /\ (stop'[s].watch \/ watch = "ended")
               /\ stop'[s].at = "returned" /\ stop'[s].after => watch = "ended"
    <3>1. stop'[s] = [stop[s] EXCEPT !.at = at] /\ stop[s] \in StopCall
      BY <2>0, <2>4 DEF Goto
    <3>2. stop'[s].at = at /\ stop'[s].watch = stop[s].watch /\ stop'[s].after = stop[s].after
      BY <3>1 DEF StopCall
    <3>. QED
      BY <2>4, <3>2 DEF StopInv
  <2>5. CASE StopFlags(s)
    BY <2>5, <2>4 DEF StopFlags, AfterDeath
  <2>6. CASE StopSeesDeath(s)
    BY <2>6, <2>4 DEF StopSeesDeath, AfterDeath
  <2>7. CASE StopEscalates(s)
    BY <2>7, <2>4 DEF StopEscalates
  <2>8. CASE StopReturns(s)
    BY <2>8, <2>4 DEF StopReturns
  <2>. QED
    BY <1>4, <2>3, <2>5, <2>6, <2>7, <2>8 DEF Stop
<1>. QED
  BY <1>1, <1>2, <1>3, <1>4 DEF Next

-----------------------------------------------------------------------------
(* The theorems.                                                           *)

LEMMA IInvHolds == Spec => []IInv
<1>1. Init => IInv
  <2>. SUFFICES ASSUME Init PROVE IInv
    OBVIOUS
  <2>1. StageInv /\ ReportInv /\ StopInv
    BY DEF Init, StageInv, ReportInv, StopInv, NoStop
  <2>. QED
    BY <2>1, TypeInit DEF IInv
<1>2. IInv /\ [Next]_vars => IInv'
  BY TypeNext, StageNext, ReportNext, StopNext DEF IInv
<1>. QED
  BY <1>1, <1>2, PTL DEF Spec

\* When the watcher is through, the session has ended as its worker reported, for
\* any stops at any time.
THEOREM ResultIsKept == Spec => []ResultKept
<1>1. IInv => ResultKept
  BY DEF IInv, StageInv, ReportInv, ResultKept
<1>. QED
  BY <1>1, IInvHolds, PTL

\* A stop that came after the start had returned is answered when the worker is
\* over and the session has ended.
THEOREM StoppedMeansDead == Spec => []StoppedIsDead
<1>1. IInv => StoppedIsDead
  BY DEF IInv, StageInv, StopInv, StoppedIsDead
<1>. QED
  BY <1>1, IInvHolds, PTL

===============================================================================
