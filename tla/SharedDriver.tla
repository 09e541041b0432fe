----------------------------- MODULE SharedDriver -----------------------------
(***************************************************************************)
(* What PlaywrightManager promises: one driver process for all who asked   *)
(* for it, that runs as long as anyone uses it.                            *)
(***************************************************************************)
CONSTANT User

VARIABLES
  users,   \* those who have acquired the driver and not yet released it
  running  \* its process runs

Init == users = {} /\ running = FALSE

\* The first user starts the driver, the others find it running.
Begin(u) == u \notin users /\ users' = users \cup {u} /\ running' = TRUE

\* A user that is done leaves the driver to the others.
End(u) == u \in users /\ users' = users \ {u} /\ UNCHANGED running

\* Only a driver that nobody uses is stopped.
Rest == users = {} /\ UNCHANGED users /\ running' = FALSE

Next == (\E u \in User : Begin(u) \/ End(u)) \/ Rest

Spec == Init /\ [][Next]_<<users, running>>
===============================================================================
