\* browser
SPECIFICATION Spec
CONSTANTS
  v1 = v1
  b1 = b1
  nobody = nobody
  Virtual = {v1}
  Bit = {b1}
  Hub = {}
  Nobody = nobody
  CancelInStop = FALSE
  MaxCancel = 1
  MaxRefs = 4
INVARIANTS
  
  ReadyIsDetached
  EnsuredCookies
  HolderMoves
PROPERTIES
  KeepsDriver
