CONSTANTS
  Key = {k1}
  Req = {q1, q2, q3}
  Unit = 5
  Rate = 2
  Burst = 2
  MaxTime = 6
  None = None
SPECIFICATION Spec
SYMMETRY Symmetry
INVARIANTS TypeOK GrantsAreBounded ResetIsEnough
