SPECIFICATION Spec
CONSTANTS
  Procs = {web}
  DirectCreators = {}
  Names = {n1}
  Journeys = {j1, j2}
  CreateIds = {c1, c2}
  Owners = {alice}
  Requesters = {alice}
  Approvers = {alice, carol}
  Terms = {t1, t2}
  NoRecord = NoRecord
  NoCreation = NoCreation
  NoRef = NoRef
  None = None
  MaxTags = 2
  MaxPerOwner = 1
  RequestTTL = 1
  DayLong = 1
  PlacementGrace = 0
  FailedRetention = 1
  AllowSelfApproval = FALSE
  MaxTime = 2
  LastInput = 2
  Faults = {"fail", "lost", "lostCreate", "crash", "root"}
  MaxFaults = 2
SYMMETRY IdSymmetry
INVARIANTS
  OneAccountPerRequest
  ApprovedAsSeen
  FailureNotifiedOnce
PROPERTIES
  NoFailureForgotten
  DropsAreDue
  ImplementsJourney
CHECK_DEADLOCK FALSE
