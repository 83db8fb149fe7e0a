SPECIFICATION Spec
CONSTANTS
  None = None
  Items = {i1, i2}
  RequestIds = {q1, q2, q3}
  RowIds = {d1, d2}
  Workers = {w1, w2}
  ApproveWhen = {"open", "sent"}
  MaxStock = 2
SYMMETRY MCSymmetry
INVARIANTS
  TypeOK
  UnitsAccounted
  OneOfEach
  ClosedGivesBack
PROPERTIES
  ResolvedOnce
  ImplementsStockAccount
