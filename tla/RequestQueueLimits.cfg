SPECIFICATION Spec
CONSTANTS
  Procs = {web, cli}
  DirectCreators = {cli}
  Names = {n1, n2}
  Journeys = {j1, j2}
  CreateIds = {c1}
  Owners = {alice, bob}
  Requesters = {dave}
  Approvers = {carol}
  Terms = {t1}
  NoRecord = NoRecord
  NoCreation = NoCreation
  NoRef = NoRef
  None = None
  MaxTags = 2
  MaxPerOwner = 1
  RequestTTL = 1
  DayLong = 1
  PlacementGrace = 0
  FailedRetention = 1
  AllowSelfApproval = FALSE
  MaxTime = 1
  LastInput = 1
  Faults = {"lost", "root"}
  MaxFaults = 1
SYMMETRY LimitSymmetry
INVARIANTS
  OwnerWithinLimit
CHECK_DEADLOCK FALSE
