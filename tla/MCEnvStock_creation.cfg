\* creation
SPECIFICATION Spec
CONSTANTS
  t1 = t1
  t2 = t2
  w1 = w1
  x1 = x1
  d1 = d1
  gc = gc
  e1 = e1
  e2 = e2
  noaddr = noaddr
  nobody = nobody
  Tasks = {t1}
  Windows = {w1}
  Editors = {}
  Destroyers = {d1}
  Gc = gc
  Addr = {}
  NoAddr = noaddr
  Nobody = nobody
  Ops = {"gc", "import"}
  Max = 1
  Envs = 3
  MaxRestart = 1
CHECK_DEADLOCK FALSE
INVARIANTS
  QuotaOvershoot
  PendingHasTask

  
