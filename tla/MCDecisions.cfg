SPECIFICATION Safe
CONSTANTS
  Request = {a, b}
  Rec = {r1}
  p1 = p1
  Product = {p1}
  ProductOf <- OneProduct
  Price <- TwoPrices
  None = None
  Ops = {"approve", "reject", "modify", "undo"}
  MaxEdits = 0
  MaxDbFailures = 1
  MaxCrashes = 1
  MaxFailures = 1
SYMMETRY Symmetry
INVARIANT TypeOK
INVARIANT EachFurtherPushLostARow
INVARIANT RowsTellTheStory
PROPERTY ImplementsExecution
CONSTRAINT FewFaults
CHECK_DEADLOCK FALSE
