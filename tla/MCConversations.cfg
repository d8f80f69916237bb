SPECIFICATION ConversationsSpec
CONSTANTS
  Parts = {"turns", "pages"}
  Conv = {c1}
  Item = {i1, i2, i3, i4}
  Proc = {p1, p2}
  MaxVersion = 3
  MaxBatch = 2
  Limits = {1, 2}
  PageProc = {p1}
  PageItem = {i1, i2, i3}
INVARIANTS
  TypeOK
  FreshVersionFreshContext
  RowsAreUnique
  PagesAreOrdered
  PagesAreComplete
PROPERTIES
  ContextNeverShrinks
  AtomicTurns
SYMMETRY Symmetry
CHECK_DEADLOCK FALSE
