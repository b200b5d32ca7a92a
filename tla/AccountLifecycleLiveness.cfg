SPECIFICATION FairSpec
CONSTANTS
  Procs = {web}
  Never = Never
  NoRow = NoRow
  AccessEnabled = TRUE
  DefaultTTL = 1
  MaxTTL = 2
  WarnBefore = 1
  CloseAlertAfter = 1
  MaxTime = 2
  Faults = {"fail", "crash", "quota", "suspend"}
  MaxFaults = 1
PROPERTIES
  ExpiredIsClosed
  OwnedIsHandedOver
  ClosureIsConfirmed
  OverdueIsReported
CHECK_DEADLOCK FALSE
