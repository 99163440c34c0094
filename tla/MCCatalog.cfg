SPECIFICATION Spec
CONSTANTS
  Actor = {a1, a2}
  Product = {p1, p2}
  Sku = {s1}
  Price = {2, 3}
  Cost = {1, 2}
  Level = {20, 21, 400}
  Input <- MCInput
  Patch <- MCPatch
  Low = 20
  Overstocked = 400
  None = None
  MaxFailures = 1
SYMMETRY Symmetry
INVARIANT TypeOK
INVARIANT RowsHoldTogether
INVARIANT TrailTellsTheCatalog
