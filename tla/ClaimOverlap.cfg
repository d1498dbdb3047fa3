SPECIFICATION Spec
CONSTANTS
  User = {u1}
  Slot = {s1}
  Resv = {r1, r2}
  Request = {p1, p2}
  Instance = {i1}
  None = None
  Horizon = 3
  Grace = 1
  Early = 1
  Buffer = 2
  Extension = 1
  DayLength = 2
  AdvanceDays = 2
  Durations = {1}
  SavedCards = {"accepted"}
  LotSwitch = {}
  Restrictable = {}
  Blockable = {}
  Leavers = {}
SYMMETRY Symmetry
INVARIANTS
  SlotClaimedOnce
