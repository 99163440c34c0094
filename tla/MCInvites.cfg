SPECIFICATION Spec
CONSTANTS
  Actor = {a1, a2}
  Org = {o1, o2}
  Email = {e1, e2}
  None = None
  MaxInvites = 3
  MaxFailures = 1
SYMMETRY Symmetry
INVARIANT TypeOK
INVARIANT CodesMakeTheirMembers
INVARIANT OrgHasAdmin
