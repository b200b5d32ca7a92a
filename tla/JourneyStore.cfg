SPECIFICATION Spec
CONSTANTS
  Clients = {c1, c2}
  None = None
  j1 = j1
  j2 = j2
  acct = acct
  req = req
  Documents <- MCDocuments
  Events <- MCEvents
  MaxRevision = 2
  MaxTimeouts = 1
  MaxCorrelations = 2
SYMMETRY Symmetry
INVARIANTS NeverCorrupt AcknowledgedIsStored
PROPERTIES HistoryOnlyGrows
CHECK_DEADLOCK FALSE
