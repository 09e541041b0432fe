\* imports
SPECIFICATION FairSpec
CONSTANTS
  e1 = e1
  e2 = e2
  i1 = i1
  Env = {e1, e2}
  Import = {i1}
  Targets = {1, 2}
  MaxTarget = 2
INVARIANTS
  ImportQuota
PROPERTIES
  EnvsSettle
CHECK_DEADLOCK FALSE
