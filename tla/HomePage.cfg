SPECIFICATION FairSpec
CONSTANTS
  None = None
  Unavailable = Unavailable
  Poll = Poll
  Landed = Landed
  Slots = {a1}
  Names = {n1}
  Versions = {v1, v2}
  Fleets = {f1}
  MaxClicks = 2
  MaxChanges = 1
  MaxFaults = 1
INVARIANT NothingUndone
PROPERTY PageCatchesUp
CHECK_DEADLOCK FALSE
