SPECIFICATION Spec
CONSTANTS
  None = None
  Names = {"a", "b"}
  Queue <- OldestOfTwo
  Clicks = {"c"}
  Forms <- SomeForms
  Mine <- OwnB
  MaxApprovals = 2
  MaxDenials = 3
  Budget = 2
  RefLimit = 3
  ClickLimit = 2
  RestoreLimit = 2
  Drain = 3
  CallTime = 1
  MaxChanges = 1
  MaxFaults = 1
  MaxHangs = 1
INVARIANTS ResultsAreTrue ClaimsAreSettled DecisionsEndInTime
CHECK_DEADLOCK FALSE
