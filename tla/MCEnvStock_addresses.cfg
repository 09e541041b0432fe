\* addresses
SPECIFICATION Spec
CONSTANTS
  t1 = t1
  t2 = t2
  w1 = w1
  x1 = x1
  d1 = d1
  gc = gc
  e1 = e1
  e2 = e2
  noaddr = noaddr
  nobody = nobody
  Tasks = {}
  Windows = {w1}
  Editors = {x1}
  Destroyers = {d1}
  Gc = gc
  Addr = {e1, e2}
  NoAddr = noaddr
  Nobody = nobody
  Ops = {"sync", "pool", "address"}
  Max = 2
  Envs = 2
  MaxRestart = 1
CHECK_DEADLOCK FALSE
SYMMETRY Symmetry
INVARIANTS
  CountLeaksOnlyByRestart
