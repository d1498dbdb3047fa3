SPECIFICATION WebSpec
CONSTANTS
  a1 = a1
  a2 = a2
  Account = {a1}
  Others = Others
  None = None
  f1 = f1
  f2 = f2
  s1 = s1
  s2 = s2
  Floor = {f1, f2}
  Slot = {s1, s2}
  FloorOf <- MCFloorOf
  Arrival = {1}
  Duration = {1, 2}
  MaxTime = 2
  MaxWrites <- PolledWrites
  MaxAccounts <- MCMaxAccounts
  MaxChanges <- MCMaxChanges
PROPERTIES
  SignedOutTabsLeave
  PolledDataCatchesUp
