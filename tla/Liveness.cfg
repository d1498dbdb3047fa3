SPECIFICATION LiveSpec
CONSTANTS
  User = {u1}
  Slot = {s1}
  Resv = {r1, r2}
  Request = {p1}
  Instance = {i1}
  None = None
  Horizon = 2
  Grace = 1
  Early = 1
  Buffer = 1
  Extension = 1
  DayLength = 1
  AdvanceDays = 1
  Durations = {1}
  SavedCards = {"accepted"}
  LotSwitch = {}
  Restrictable = {}
  Blockable = {}
  Leavers = {}
PROPERTIES
  NoShowsAreReleased
  OverstaysAreResolved
  TicksEnd
