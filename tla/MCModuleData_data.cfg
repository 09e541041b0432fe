\* data
SPECIFICATION Spec
CONSTANTS
  m1 = m1
  m2 = m2
  r1 = r1
  r2 = r2
  v1 = v1
  s1 = s1
  s2 = s2
  k1 = k1
  k2 = k2
  NoSchema = NoSchema
  NoContract = NoContract
  Nobody = Nobody
  th1 = th1
  Module = {m1, m2}
  Res = {r1, r2}
  View = {v1}
  Table <- Names
  TableOf <- Own
  Schema = {s1, s2}
  Key = {k1, k2}
  SeedKeys = {k1}
  Ops <- Writes
  Contracts <- Versions
  Thread = {th1}
  MaxRestart = 1
INVARIANTS
  EnabledIsReadable
PROPERTIES
  RecordsSurvive
  
