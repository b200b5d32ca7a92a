SPECIFICATION Spec
CONSTANTS
  Procs = {web}
  Never = Never
  NoRow = NoRow
  AccessEnabled = TRUE
  DefaultTTL = 1
  MaxTTL = 2
  WarnBefore = 1
  CloseAlertAfter = 1
  MaxTime = 3
  Faults = {"fail", "lost", "crash", "quota", "budget", "suspend", "external"}
  MaxFaults = 2
INVARIANTS
  ClosedOnlyWhenConfirmed
  NoticesAtMostOnce
PROPERTIES
  ExpiryClosesOnlyExpired
  NoHandoffAgainstIntent
  ReadyMeansAccess
  ClosureClockKept
CHECK_DEADLOCK FALSE
