SPECIFICATION ResponsesSpec
CONSTANTS
  Parts = {"races", "background", "chains", "sockets"}
  Resp = {r1, r2, r3, r4}
  TwoResp = {r1, r2}
  ThreeResp = {r1, r2, r3}
  Client = {c1, c2}
  OneClient = {c1}
  Session = {s1, s2}
  LineageMax = 2
  Backgrounds = {TRUE, FALSE}
  None = None
SYMMETRY Symmetry
INVARIANTS
  TypeOK
  LineageIsAcyclic
  TurnsAreCarriedOver
  EndedAsUpstreamSays
  CachedIsStored
  RootShadowsAreCached
CHECK_DEADLOCK FALSE
