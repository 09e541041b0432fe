\* live
SPECIFICATION FairSpec
CONSTANTS
  t1 = t1
  t2 = t2
  c1 = c1
  rec = rec
  Task = {t1, t2}
  Call = {c1}
  Rec = rec
  Ops = {"start", "pause"}
  Kinds = {"service"}
  Targets = {1}
  InitJob <- Service
  Acquisition = "candidates"
  TickTimesOut = FALSE
  MaxRestart = 0
PROPERTIES
  Refills
  PauseQuiesces
  
