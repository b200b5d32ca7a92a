SPECIFICATION Spec
CONSTANTS
  None = None
  Old = Old
  New = New
  MaxVersion = 2
  MaxChanges = 2
  MaxLoads = 2
  MaxBusy = 2
  MaxClears = 2
  MaxFaults = 1
  PageLimit = 1
INVARIANTS HistoryIsOneList CostsAreOfNewestPull
PROPERTIES TableKeepsUp SelectionIsKept
CHECK_DEADLOCK FALSE
