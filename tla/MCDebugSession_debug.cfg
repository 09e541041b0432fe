\* debug
SPECIFICATION FairSpec
CONSTANTS
  s1 = s1
  s2 = s2
  Stopper = {s1, s2}
  MaxRestart = 1
INVARIANTS
  ResultKept
  StoppedIsDead

  
CHECK_DEADLOCK FALSE
