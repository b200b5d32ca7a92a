SPECIFICATION FairSpec
CONSTANTS
  Procs = {web}
  DirectCreators = {}
  Names = {n1}
  Journeys = {j1, j2}
  CreateIds = {c1, c2}
  Owners = {alice}
  Requesters = {alice}
  Approvers = {carol}
  Terms = {t1}
  NoRecord = NoRecord
  NoCreation = NoCreation
  NoRef = NoRef
  None = None
  MaxTags = 2
  MaxPerOwner = 1
  RequestTTL = 1
  DayLong = 1
  PlacementGrace = 0
  FailedRetention = 1
  AllowSelfApproval = FALSE
  MaxTime = 3
  LastInput = 1
  Faults = {"fail", "root"}
  MaxFaults = 2
PROPERTIES
  EveryRecordLeaves
  EveryFailureAnnounced
CHECK_DEADLOCK FALSE
