------------------------------ MODULE TaskQuota ------------------------------
(***************************************************************************)
(* What the task engine promises of the tasks of one job: every task is    *)
(* opened at most once and closed at most once, and never more than a      *)
(* quota of them are open.                                                 *)
(***************************************************************************)
EXTENDS Naturals, FiniteSets

CONSTANTS Task,   \* the tasks
          Quotas  \* the quotas that may be in force

VARIABLES open,   \* the tasks that are open
          closed  \* the tasks that were closed

vars == <<open, closed>>

Init == open = {} /\ closed = {}

Open(t) ==
  /\ t \notin open \cup closed
  /\ \E q \in Quotas : Cardinality(open \cup {t}) <= q
  /\ open' = open \cup {t}
  /\ UNCHANGED closed

\* A crash may close several tasks at once.
Close(tasks) ==
  /\ tasks \subseteq open
  /\ open' = open \ tasks
  /\ closed' = closed \cup tasks

Next == \/ \E t \in Task : Open(t)
        \/ \E tasks \in SUBSET Task : Close(tasks)

Spec == Init /\ [][Next]_vars
=============================================================================
