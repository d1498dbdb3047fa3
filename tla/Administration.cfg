SPECIFICATION Spec
CONSTANTS
  a0 = a0
  a1 = a1
  Account = {a0, a1}
  Email = {e0, e1}
  Lot = {l1, l2}
  LotName = {n1}
  Place = {q1}
  Floor = {f1, f2}
  FloorNumber = {0, 1}
  Document = {d1}
  Request = {p1, p2}
  None = None
  MaxDim = 2
  MaxSlots = 2
  Root = a0
  Plans <- MCPlans
  LotEdits <- MCLotEdits
  MaxOps = 3
SYMMETRY Symmetry
INVARIANTS
  TypeOK
  KeysUnique
  ReferencesResolve
  SlotsFormGrid
  StaffTokensAreStaff
  AdminInv
PROPERTIES
  CustomersDecideForThemselves
CHECK_DEADLOCK FALSE
