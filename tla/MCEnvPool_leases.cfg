\* leases
SPECIFICATION Spec
CONSTANTS
  t1 = t1
  t2 = t2
  t3 = t3
  u1 = u1
  u2 = u2
  boot = boot
  nobody = nobody
  Task = {t1, t2, t3}
  Operator = {u1, u2}
  Boot = boot
  NoCo = nobody
  Ops = {"start", "pause", "destroy", "clean"}
  Fixed = FALSE
  Gens = 1
  MaxRestart = 2
SYMMETRY Symmetry
INVARIANTS
  RecycleSparesHolders
  
  NoDeadLease
PROPERTIES
  KeepsLease
