--------------------------- MODULE MCHistorySearch ---------------------------
(* A small instance: four events, two of one time, and a line that an older *)
(* version wrote twice; by the account, by both fields, and everything.      *)
EXTENDS HistorySearch

CONSTANTS a, b

Event(i, at, account, actor, legacy) ==
  [id |-> i, at |-> at, account |-> account, actor |-> actor, legacy |-> legacy]
MCEvents == {Event(1, 2, a, a, FALSE), Event(2, 1, a, b, FALSE), Event(3, 2, a, a, FALSE), Event(4, 3, a, a, FALSE)}
MCLegacy == LET line == Event(9, 1, b, a, TRUE) IN <<line, line>>
Filter(account, actor, oldest) == [account |-> account, actor |-> actor, oldestFirst |-> oldest]
MCFilters == {Filter(None, None, o) : o \in BOOLEAN} \cup {Filter(a, a, o) : o \in BOOLEAN}
MCStores == {"log", "table"}
Symmetry == Permutations(Procs)
=============================================================================
