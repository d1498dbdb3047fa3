SPECIFICATION Spec
CONSTANTS
  User = {u1}
  Slot = {s1}
  Resv = {r1, r2}
  Request = {p1, p2}
  Instance = {i1}
  None = None
  Horizon = 2
  Grace = 1
  Early = 1
  Buffer = 1
  Extension = 1
  DayLength = 2
  AdvanceDays = 2
  Durations = {1}
  SavedCards = {"accepted"}
  LotSwitch = {}
  Restrictable = {s1}
  Blockable = {u1}
  Leavers = {u1}
SYMMETRY Symmetry
INVARIANTS
  ReservedIsBacked
  NoOrphans
  NothingLeftBehind
PROPERTIES
  CodesAreFinal
