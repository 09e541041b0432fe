\* install
SPECIFICATION FairSpec
CONSTANTS
  u1 = u1
  u2 = u2
  j1 = j1
  j2 = j2
  user = user
  nobody = nobody
  Upgraders = {u1, u2}
  Jobs = {j1, j2}
  Versions = 3
  NoSync = {3}
  NoProbe = {2}
  User = user
  Nobody = nobody
  Faults = {"move", "restore", "remove"}
  MaxRestart = 1
INVARIANTS
  UpgradeIsLater
  OldIsOnDisk
  RegistryMatchesDisk
  DisabledStays
  EnabledIsSynced
  OnlyEarlyJobs
PROPERTIES
  LockFreed
