\* lock
SPECIFICATION FairSpec
CONSTANTS
  t1 = t1
  u1 = u1
  boot = boot
  nobody = nobody
  Task = {t1}
  Operator = {u1}
  Boot = boot
  NoCo = nobody
  Ops = {"start", "stop", "resume", "destroy"}
  Fixed = TRUE
  Gens = 2
  MaxRestart = 1
PROPERTIES
  GoneStaysGone
  LockIsServed
