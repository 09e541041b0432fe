\* kinds
SPECIFICATION Spec
CONSTANTS
  t1 = t1
  t2 = t2
  c1 = c1
  rec = rec
  Task = {t1, t2}
  Call = {c1}
  Rec = rec
  Ops = {"start", "pause", "disable", "enable", "update", "delete", "runOnce", "stopOnce"}
  Kinds = {"service", "cron", "manual"}
  Targets = {1}
  InitJob <- Manual
  Acquisition = "fixed"
  TickTimesOut = FALSE
  MaxRestart = 1
SYMMETRY Symmetry
INVARIANTS
  NoLostTask
  RunningIsRecorded
PROPERTIES
  StaysLocked
  VerdictIsFinal
