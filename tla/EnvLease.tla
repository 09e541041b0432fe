------------------------------- MODULE EnvLease -------------------------------
(***************************************************************************)
(* What the environment pool promises of one environment: it is handed to  *)
(* one task at a time, only while it is ready, and it is ready again only  *)
(* when the task before has let go of it.                                  *)
(***************************************************************************)
CONSTANT Task

VARIABLES
  holder,  \* the tasks the environment is bound to
  ready    \* it may be handed out

TypeOK == holder \subseteq Task /\ ready \in BOOLEAN

Init == holder = {} /\ ready = FALSE

Grab(t) == ready /\ holder = {} /\ holder' = {t} /\ ready' = FALSE

\* The task ends, or the process does, with or without a reusable environment.
Drop == holder # {} /\ holder' = {} /\ ready' \in BOOLEAN

\* Operators open, pause, recycle and destroy an environment nobody holds.
Operate == holder = {} /\ UNCHANGED holder /\ ready' \in BOOLEAN

Next == (\E t \in Task : Grab(t)) \/ Drop \/ Operate

Spec == Init /\ [][Next]_<<holder, ready>>
===============================================================================
