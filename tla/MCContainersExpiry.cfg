CONSTANTS
  Client = {p}
  Sweeper = sweeper
  Cont = {c1}
  f0 = f0
  f1 = f1
  File = {f0, f1}
  ClientFile = {f0}
  Path <- MCPath
  RowId = {r1, r2}
  TTL = 1
  MaxTime = 1
  MaxFaults = 1
  MaxDrops = 1
  Enforced = {TRUE, FALSE}
  None = None
SPECIFICATION Spec
PROPERTY ContainersExpire
INVARIANTS
  NoDanglingUploads
  ClientFilesSurvive
