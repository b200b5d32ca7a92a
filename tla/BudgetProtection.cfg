SPECIFICATION FairSpec
CONSTANTS
  a = a
  b = b
  Limits = {1, 2}
  MaxSpend = 2
  Months = 2
  Emails = {a, b}
  NoEmail = NoEmail
  Foreign = sns
  Alerts = {1}
  SettleAlert = 1
  Configs <- MCConfigs
  MaxFaults = 1
  MaxChanges = 2
INVARIANTS
  RetiredIsGone
PROPERTIES
  ReversalAsApproved
  SettledIsProtected
  AlertsHaveNoGap
  RecoveryEnds
  UnsettledIsReported
  ClosedIsRetired
CHECK_DEADLOCK FALSE
