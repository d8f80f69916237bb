CONSTANTS
  Client = {p}
  Sweeper = sweeper
  Cont = {c1, c2}
  f0 = f0
  f1 = f1
  File = {f0, f1}
  ClientFile = {f0}
  Path <- MCPath
  RowId = {r1, r2}
  TTL = 1
  MaxTime = 1
  MaxFaults = 0
  MaxDrops = 0
  Enforced = {TRUE, FALSE}
  None = None
SPECIFICATION Spec
INVARIANTS
  ContainersTypeOK
  NoDanglingUploads
  ClientFilesSurvive
SYMMETRY Symmetry
