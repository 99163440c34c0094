SPECIFICATION Safe
CONSTANTS
  Request = {a}
  Rec = {r1}
  p1 = p1
  Product = {p1}
  ProductOf <- OneProduct
  Price <- TwoPrices
  None = None
  Ops = {"approve"}
  MaxEdits = 0
  MaxDbFailures = 0
  MaxCrashes = 0
  MaxFailures = 0
SYMMETRY Symmetry
INVARIANT NoSecondPush
CHECK_DEADLOCK FALSE
