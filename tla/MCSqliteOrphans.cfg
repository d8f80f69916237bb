CONSTANTS
  Resp = {r1}
  Client = {c1, c2}
  MaxIdle = 2
  None = None
SPECIFICATION Spec
SYMMETRY Symmetry
PROPERTY NoOrphanArtifacts
