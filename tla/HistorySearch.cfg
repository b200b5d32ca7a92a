SPECIFICATION Spec
CONSTANTS
  Procs = {p1, p2}
  None = None
  Damaged = Damaged
  a = a
  b = b
  Events <- MCEvents
  Legacy <- MCLegacy
  Filters <- MCFilters
  Stores <- MCStores
  PageLimit = 2
  Chunk = 1
  MaxCuts = 2
SYMMETRY Symmetry
INVARIANTS NothingLostInSilence PagesAreOneList
CHECK_DEADLOCK FALSE
