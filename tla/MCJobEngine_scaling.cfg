\* scaling
SPECIFICATION Spec
CONSTANTS
  t1 = t1
  t2 = t2
  t3 = t3
  c1 = c1
  c2 = c2
  rec = rec
  Task = {t1, t2, t3}
  Call = {c1, c2}
  Rec = rec
  Ops = {"start", "update"}
  Kinds = {"service"}
  Targets = {1, 2}
  InitJob <- Service
  Acquisition = "create"
  TickTimesOut = TRUE
  MaxRestart = 1
SYMMETRY Symmetry
INVARIANTS
  TypeOK

  
