SPECIFICATION Spec
CONSTANTS
  Request = {a, b}
  Rec = {r1}
  p1 = p1
  Product = {p1}
  ProductOf <- OneProduct
  Price <- OnePrice
  None = None
  Ops = {"approve", "undo"}
  MaxEdits = 1
  MaxDbFailures = 1
  MaxCrashes = 0
  MaxFailures = 0
PROPERTY HandlersAnswer
PROPERTY FailedPushRequeues
CHECK_DEADLOCK FALSE
