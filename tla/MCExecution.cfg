SPECIFICATION Spec
CONSTANTS
  Caller = {a, b}
  Product = {p}
  Price <- MCPrice
  None = None
  MaxEdits = 1
  MaxDbFailures = 1
  MaxCrashes = 1
INVARIANT TypeOK
INVARIANT RowsTellTheTruth
INVARIANT StorefrontAgreement
PROPERTY PushesRespectFloor
CHECK_DEADLOCK FALSE
