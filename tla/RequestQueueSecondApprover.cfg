SPECIFICATION Spec
CONSTANTS
  Procs = {web, cli}
  DirectCreators = {}
  Names = {n1}
  Journeys = {j1}
  CreateIds = {c1, c2}
  Owners = {alice}
  Requesters = {alice}
  Approvers = {carol}
  Terms = {t1}
  NoRecord = NoRecord
  NoCreation = NoCreation
  NoRef = NoRef
  None = None
  MaxTags = 1
  MaxPerOwner = 1
  RequestTTL = 1
  DayLong = 1
  PlacementGrace = 0
  FailedRetention = 1
  AllowSelfApproval = FALSE
  MaxTime = 0
  LastInput = 0
  Faults = {}
  MaxFaults = 0
PROPERTY ClaimFindsPending
CHECK_DEADLOCK FALSE
