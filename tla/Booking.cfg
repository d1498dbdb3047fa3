SPECIFICATION Spec
CONSTANTS
  User = {u1}
  Slot = {s1}
  Resv = {r1, r2}
  Request = {p1, p2}
  Instance = {i1}
  None = None
  Horizon = 3
  Grace = 1
  Early = 1
  Buffer = 1
  Extension = 1
  DayLength = 2
  AdvanceDays = 2
  Durations = {1}
  SavedCards = {"accepted", "declined"}
  LotSwitch = {FALSE}
  Restrictable = {}
  Blockable = {}
  Leavers = {u1}
SYMMETRY Symmetry
INVARIANTS
  TypeOK
  NoDoubleBooking
  CodesMatchStatus
  CompletedIsPaid
  ReservedIsBacked
  EveryExtensionIsBilled
  BilledAfterGrace
  CycleResolvedOneWay
  ParkingInv
PROPERTIES
  CodesAreFinal
  ChargedOnce
  SweepSparesValidCodes
  ImplementsLedger
