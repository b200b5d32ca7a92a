-------------------------- MODULE HistorySearchProofs --------------------------
(***************************************************************************)
(* Theorems about HistorySearch, for any processes, events, old lines,     *)
(* filters, page lengths and writes that are cut short.                    *)
(***************************************************************************)
EXTENDS HistorySearch, TLAPS, FiniteSetTheorems

Pending == [event : Events, newline : BOOLEAN]
Readers ==
  [step : {"read", "page", "complete"}, filter : Filters, after : Positions \cup {None},
   page : Seq(Nat), found : Seq(All), incomplete : BOOLEAN,
   due : UNION {[S -> Nat] : S \in SUBSET All}]

TypeOK ==
  /\ store \in {"log", "table"} /\ open \in BOOLEAN /\ cuts \in Nat
  /\ lines \in Seq(All \cup {Damaged})
  /\ writing \in [Procs -> Pending \cup {None}]
  /\ recorded \subseteq Events /\ saved \subseteq recorded
  /\ reader = NoReader \/ reader \in Readers

-----------------------------------------------------------------------------
(* The inductive invariant: the store.                                     *)

Intact == \A k \in DOMAIN lines : lines[k] # Damaged

\* A line is written once, and what is being written is not there yet.
WrittenOnce ==
  /\ \A k \in DOMAIN lines : lines[k] \in Events => lines[k] \in recorded
  /\ \A i, k \in DOMAIN lines : lines[i] = lines[k] /\ lines[i] \in Events => i = k
  /\ \A p \in Procs : writing[p] # None =>
       /\ writing[p].event \in recorded \ saved
       /\ \A k \in DOMAIN lines : lines[k] # writing[p].event
  /\ \A p, q \in Procs : p # q /\ writing[p] # None /\ writing[q] # None
       => writing[p].event # writing[q].event
  /\ store = "table" => Intact /\ \A p \in Procs : writing[p] = None

\* Until a line is damaged, nothing that was stored has gone.
Kept ==
  /\ \A k \in DOMAIN OldLines : k \in DOMAIN lines /\ lines[k] = OldLines[k]
  /\ \A e \in saved : \E k \in DOMAIN lines : lines[k] = e

-----------------------------------------------------------------------------
(* The inductive invariant: the reader r.                                  *)

\* An event that was found stood at this position, with n for its occurrence.
PlaceOf(e, n) == [at |-> e.at, tie |-> e.id, nth |-> n]
Occurrences(e) == IF e.legacy THEN Nat ELSE {0}

\* The event was found before the reader comes to the position p, or at p.
Ahead(f, e, p) == \E n \in Occurrences(e) : Later(f, p, PlaceOf(e, n))
NotBeyond(f, e, p) == \E n \in Occurrences(e) : ~Later(f, PlaceOf(e, n), p)

\* Where the reader stands: what is found, then the page, then the cursor.
Standing(r) ==
  /\ r.step = "read" /\ r.after = None => r.found = <<>> /\ r.page = <<>>
  /\ r.step = "page" => r.after # None
  /\ r.after # None => \A i \in DOMAIN r.found : NotBeyond(r.filter, r.found[i], r.after)
  /\ r.page # <<>> => store = "table" /\ r.step = "read"
  /\ Len(r.page) <= PageLimit

OnPage(r) ==
  /\ \A m \in DOMAIN r.page : r.page[m] \in Matching(r.filter)
  /\ \A m \in DOMAIN r.page : ~Later(r.filter, Position(r.page[m]), r.after)
  /\ \A l, m \in DOMAIN r.page : l < m =>
       Later(r.filter, Position(r.page[m]), Position(r.page[l]))
  /\ \A i \in DOMAIN r.found, m \in DOMAIN r.page :
       Ahead(r.filter, r.found[i], Position(r.page[m]))

\* What is due: no more than is stored, and only what is stored once for all.
DueIsStored(r) ==
  /\ \A e \in DOMAIN r.due : e \in saved \cup ToSet(OldLines) /\ Matches(r.filter, e)
  /\ Intact => \A e \in DOMAIN r.due : r.due[e] <= Count(e, lines)

\* The lines that the events found were read from include each line that is
\* due, up to the cursor and except for those on the page.
Found1(found, src, k) == \E i \in DOMAIN found : src[i] = k /\ found[i] = lines[k]
Passed(r, src) ==
  \A k \in DOMAIN lines : lines[k] \in DOMAIN r.due =>
    \/ Found1(r.found, src, k)
    \/ \E m \in DOMAIN r.page : r.page[m] = k
    \/ r.after = None \/ Later(r.filter, Position(k), r.after)
NothingPassed(r) ==
  Intact /\ r.step # "complete" => \E src \in [DOMAIN r.found -> Nat] : Passed(r, src)

ReaderOK(r) == Standing(r) /\ OnPage(r) /\ DueIsStored(r) /\ NothingPassed(r)

Inv ==
  /\ TypeOK /\ WrittenOnce /\ (Intact => Kept)
  /\ reader # NoReader => ReaderOK(reader)
  /\ NothingLostInSilence /\ PagesAreOneList

-----------------------------------------------------------------------------
(* Positions are ordered.                                                  *)

LEMMA PositionFields ==
  ASSUME NEW p \in Positions
  PROVE  /\ p.at \in Nat /\ p.tie \in Nat /\ p.nth \in Nat
         /\ p = [at |-> p.at, tie |-> p.tie, nth |-> p.nth]
  BY DEF Positions

LEMMA BeforeIsOrder ==
  ASSUME NEW p \in Positions, NEW q \in Positions, NEW r \in Positions
  PROVE  /\ ~Before(p, p)
         /\ Before(p, q) /\ Before(q, r) => Before(p, r)
         /\ p = q \/ Before(p, q) \/ Before(q, p)
<1>1. /\ p.at \in Nat /\ p.tie \in Nat /\ p.nth \in Nat
      /\ q.at \in Nat /\ q.tie \in Nat /\ q.nth \in Nat
      /\ r.at \in Nat /\ r.tie \in Nat /\ r.nth \in Nat
  BY PositionFields
<1>2. p.at = q.at /\ p.tie = q.tie /\ p.nth = q.nth => p = q
  BY PositionFields
<1>3. ~Before(p, p) /\ (Before(p, q) /\ Before(q, r) => Before(p, r))
  BY <1>1, SMT DEF Before
<1>4. p = q \/ Before(p, q) \/ Before(q, p)
  BY <1>1, <1>2, SMT DEF Before
<1>5. QED
  BY <1>3, <1>4

LEMMA LaterIsOrder ==
  ASSUME NEW f, NEW p \in Positions, NEW q \in Positions, NEW r \in Positions
  PROVE  /\ ~Later(f, p, p)
         /\ Later(f, p, q) /\ Later(f, q, r) => Later(f, p, r)
         /\ p = q \/ Later(f, p, q) \/ Later(f, q, p)
<1>1. CASE f.oldestFirst
  BY <1>1, BeforeIsOrder, Zenon DEF Later
<1>2. CASE ~f.oldestFirst
  BY <1>2, BeforeIsOrder, Zenon DEF Later
<1>3. QED
  BY <1>1, <1>2

(* What follows from it for two positions and a cursor between them. *)
LEMMA LaterTurns ==
  ASSUME NEW f, NEW p \in Positions, NEW q \in Positions, NEW r \in Positions
  PROVE  /\ ~Later(f, p, q) /\ Later(f, r, q) => Later(f, r, p)
         /\ Later(f, p, q) /\ ~Later(f, r, q) => Later(f, p, r)
         /\ Later(f, p, q) => ~Later(f, q, p)
  BY LaterIsOrder, Zenon

LEMMA LaterTimes ==
  ASSUME NEW f, NEW p \in Positions, NEW q \in Positions, ~Later(f, p, q)
  PROVE  IF f.oldestFirst THEN p.at <= q.at ELSE p.at >= q.at
<1>1. p.at \in Nat /\ q.at \in Nat
  BY PositionFields
<1>2. QED
  BY <1>1, SMT DEF Later, Before

-----------------------------------------------------------------------------
(* Lines and their positions.                                              *)

LEMMA LinesFinite ==
  ASSUME TypeOK
  PROVE  /\ DOMAIN lines = 1..Len(lines) /\ Len(lines) \in Nat
         /\ \A S \in SUBSET (DOMAIN lines) : IsFiniteSet(S)
<1>1. DOMAIN lines = 1..Len(lines) /\ Len(lines) \in Nat
  BY DEF TypeOK
<1>2. IsFiniteSet(1..Len(lines))
  BY <1>1, FS_Interval
<1>3. QED
  BY <1>1, <1>2, FS_Subset

LEMMA ReadableLines ==
  ASSUME TypeOK, NEW k \in Readable
  PROVE  /\ k \in DOMAIN lines /\ k \in Nat \ {0} /\ lines[k] \in All
         /\ lines[k].id \in Nat /\ lines[k].at \in Nat
<1>1. k \in DOMAIN lines /\ lines[k] # Damaged
  BY DEF Readable
<1>2. k \in 1..Len(lines) /\ Len(lines) \in Nat
  BY <1>1, LinesFinite
<1>3. lines[k] \in All \cup {Damaged}
  BY <1>1 DEF TypeOK
<1>4. lines[k] \in All
  BY <1>1, <1>3
<1>5. QED
  BY <1>1, <1>2, <1>4, EventAssumption

LEMMA OccurrenceTyped ==
  ASSUME TypeOK, NEW k \in DOMAIN lines
  PROVE  Occurrence(k) \in Nat
<1>1. k \in Nat /\ IsFiniteSet(1..k)
  BY LinesFinite, FS_Interval
<1>2. IsFiniteSet({i \in 1..k : lines[i] = lines[k]})
  BY <1>1, FS_Subset
<1>3. QED
  BY <1>2, FS_CardinalityType DEF Occurrence

LEMMA PositionTyped ==
  ASSUME TypeOK, NEW k \in Readable
  PROVE  Position(k) \in Positions
<1>1. lines[k].id \in Nat /\ lines[k].at \in Nat /\ k \in DOMAIN lines
  BY ReadableLines
<1>2. (IF lines[k].legacy THEN Occurrence(k) ELSE 0) \in Nat
  BY <1>1, OccurrenceTyped
<1>3. QED
  BY <1>1, <1>2 DEF Position, Positions

(* Later occurrences have a larger number. *)
LEMMA OccurrenceGrows ==
  ASSUME TypeOK, NEW i \in DOMAIN lines, NEW k \in DOMAIN lines, i < k, lines[i] = lines[k]
  PROVE  Occurrence(i) < Occurrence(k)
<1> DEFINE S == {l \in 1..i : lines[l] = lines[i]}
           T == {l \in 1..k : lines[l] = lines[k]}
<1>0. i \in 1..Len(lines) /\ k \in 1..Len(lines) /\ Len(lines) \in Nat
  BY LinesFinite
<1>1. i \in Nat /\ k \in Nat /\ i >= 1 /\ k \in 1..k /\ k \notin 1..i /\ 1..i \subseteq 1..k
  BY <1>0
<1>9. IsFiniteSet(1..k)
  BY <1>1, FS_Interval
<1>2. S \subseteq T /\ k \in T /\ k \notin S
  BY <1>1
<1>3. IsFiniteSet(T)
  BY <1>9, FS_Subset
<1>4. Cardinality(S) <= Cardinality(T) /\ (Cardinality(T) = Cardinality(S) => T = S)
  BY <1>2, <1>3, FS_Subset
<1>5. Occurrence(i) \in Nat /\ Occurrence(k) \in Nat
  BY OccurrenceTyped
<1>6. Occurrence(i) = Cardinality(S) /\ Occurrence(k) = Cardinality(T)
  BY DEF Occurrence
<1>7. QED
  BY <1>2, <1>4, <1>5, <1>6

(* No two lines that can be read stand at one position. *)
LEMMA PositionsDiffer ==
  ASSUME TypeOK, WrittenOnce, NEW i \in Readable, NEW k \in Readable, Position(i) = Position(k)
  PROVE  i = k
<1>1. /\ i \in DOMAIN lines /\ lines[i] \in All /\ i \in Nat
      /\ k \in DOMAIN lines /\ lines[k] \in All /\ k \in Nat
  BY ReadableLines
<1>2. Position(i).tie = lines[i].id /\ Position(k).tie = lines[k].id
  BY DEF Position
<1>3. lines[i] = lines[k]
  BY <1>1, <1>2, EventAssumption
<1>4. CASE lines[i] \in Events
  BY <1>1, <1>3, <1>4 DEF WrittenOnce
<1>5. CASE lines[i] \notin Events
  <2>1. lines[i].legacy /\ lines[k].legacy
    BY <1>1, <1>3, <1>5, EventAssumption DEF All
  <2>2. Position(i).nth = Occurrence(i) /\ Position(k).nth = Occurrence(k)
    BY <2>1 DEF Position
  <2>3. Occurrence(i) = Occurrence(k) /\ Occurrence(i) \in Nat
    BY <2>2, <1>1, OccurrenceTyped
  <2>4. ~(i < k) /\ ~(k < i)
    BY <2>3, <1>1, <1>3, OccurrenceGrows
  <2>5. QED
    BY <2>4, <1>1
<1>6. QED
  BY <1>4, <1>5

-----------------------------------------------------------------------------
(* InOrder sorts.                                                          *)

LEMMA PrecedesIsOrder ==
  ASSUME TypeOK, NEW i \in Readable, NEW k \in Readable, NEW l \in Readable
  PROVE  /\ ~Precedes(i, i)
         /\ Precedes(i, k) /\ Precedes(k, l) => Precedes(i, l)
         /\ i = k \/ Precedes(i, k) \/ Precedes(k, i)
<1>1. Position(i) \in Positions /\ Position(k) \in Positions /\ Position(l) \in Positions
  BY PositionTyped
<1>2. i \in Nat /\ k \in Nat /\ l \in Nat
  BY ReadableLines
<1> DEFINE f == reader.filter
           p == Position(i)
           q == Position(k)
           r == Position(l)
<1> HIDE DEF f, p, q, r
<1>3. /\ Precedes(i, k) <=> Later(f, q, p) \/ (p = q /\ i < k)
      /\ Precedes(k, i) <=> Later(f, p, q) \/ (q = p /\ k < i)
      /\ Precedes(k, l) <=> Later(f, r, q) \/ (q = r /\ k < l)
      /\ Precedes(i, l) <=> Later(f, r, p) \/ (p = r /\ i < l)
      /\ Precedes(i, i) <=> Later(f, p, p) \/ (p = p /\ i < i)
  BY DEF Precedes, f, p, q, r
<1>4. /\ ~Later(f, p, p)
      /\ Later(f, r, q) /\ Later(f, q, p) => Later(f, r, p)
      /\ p = q \/ Later(f, p, q) \/ Later(f, q, p)
  BY <1>1, LaterIsOrder DEF p, q, r
<1>5. ~(i < i) /\ (i < k /\ k < l => i < l) /\ (i = k \/ i < k \/ k < i)
  BY <1>2
<1>6. QED
  BY <1>3, <1>4, <1>5, Zenon

LEMMA InOrderSorts ==
  ASSUME TypeOK, NEW ks, ks \subseteq Readable
  PROVE  /\ InOrder(ks) \in Seq(ks)
         /\ \A k \in ks : \E m \in DOMAIN InOrder(ks) : InOrder(ks)[m] = k
         /\ \A l, m \in DOMAIN InOrder(ks) : l < m => Precedes(InOrder(ks)[l], InOrder(ks)[m])
<1> DEFINE below(k) == {i \in ks : Precedes(i, k)}
           rank == [k \in ks |-> Cardinality(below(k))]
           n == Cardinality(ks)
           s == InOrder(ks)
<1>1. IsFiniteSet(ks) /\ n \in Nat
  BY LinesFinite, FS_CardinalityType DEF Readable
<1>2. \A k \in ks : IsFiniteSet(below(k)) /\ Cardinality(below(k)) \in Nat
  BY <1>1, FS_Subset, FS_CardinalityType
<1>3. ASSUME NEW k \in ks PROVE Cardinality(below(k)) \in 0..(n - 1)
  <2>1. below(k) \subseteq ks \ {k}
    BY PrecedesIsOrder
  <2>2. IsFiniteSet(ks \ {k}) /\ Cardinality(ks \ {k}) = n - 1
    BY <1>1, FS_RemoveElement
  <2>3. Cardinality(below(k)) <= n - 1
    BY <2>1, <2>2, FS_Subset
  <2>4. QED
    BY <2>3, <1>1, <1>2
<1>4. ASSUME NEW i \in ks, NEW k \in ks, Precedes(i, k)
      PROVE  Cardinality(below(i)) < Cardinality(below(k))
  <2>1. \A l \in ks : Precedes(l, i) => Precedes(l, k)
    BY <1>4, PrecedesIsOrder
  <2>2. below(i) \subseteq below(k)
    BY <2>1
  <2>3. i \in below(k) /\ i \notin below(i)
    BY <1>4, PrecedesIsOrder
  <2>4. Cardinality(below(i)) <= Cardinality(below(k)) /\ Cardinality(below(i)) # Cardinality(below(k))
    BY <1>2, <2>2, <2>3, FS_Subset
  <2>5. QED
    BY <2>4, <1>2
<1>5. \A i, k \in ks : rank[i] = rank[k] => i = k
  <2> SUFFICES ASSUME NEW i \in ks, NEW k \in ks, rank[i] = rank[k] PROVE i = k
    OBVIOUS
  <2>1. Cardinality(below(i)) = Cardinality(below(k)) /\ Cardinality(below(k)) \in Nat
    BY <1>2
  <2>2. ~Precedes(i, k) /\ ~Precedes(k, i)
    BY <2>1, <1>4
  <2>3. QED
    BY <2>2, PrecedesIsOrder
<1>6. rank \in [ks -> 0..(n - 1)]
  BY <1>3
<1>7. rank \in Injection(ks, 0..(n - 1))
  BY <1>5, <1>6 DEF Injection, IsInjective
<1>8. IsFiniteSet(0..(n - 1)) /\ Cardinality(0..(n - 1)) = n
  BY <1>1, FS_Interval
<1>9. rank \in Surjection(ks, 0..(n - 1))
  BY <1>7, <1>8, FS_Injection
<1>10. \A m \in 0..(n - 1) : \E k \in ks : rank[k] = m
  BY <1>9 DEF Surjection
<1>11. \A m \in 1..n : \E k \in ks : Cardinality(below(k)) = m - 1
  <2> SUFFICES ASSUME NEW m \in 1..n PROVE \E k \in ks : Cardinality(below(k)) = m - 1
    OBVIOUS
  <2>1. m - 1 \in 0..(n - 1)
    BY <1>1
  <2>2. PICK k \in ks : rank[k] = m - 1
    BY <2>1, <1>10
  <2>3. rank[k] = Cardinality(below(k))
    OBVIOUS
  <2>4. QED
    BY <2>2, <2>3
<1>12. s = [m \in 1..n |-> CHOOSE k \in ks : Cardinality(below(k)) = m - 1]
  BY DEF InOrder
<1>13. \A m \in 1..n : s[m] \in ks /\ Cardinality(below(s[m])) = m - 1
  BY <1>11, <1>12
<1>14. DOMAIN s = 1..n
  BY <1>12
<1>15. s \in Seq(ks)
  <2>1. s \in [1..n -> ks]
    BY <1>12, <1>13, Zenon
  <2>2. QED
    BY <2>1, <1>1
<1>16. \A k \in ks : \E m \in DOMAIN s : s[m] = k
  <2> SUFFICES ASSUME NEW k \in ks PROVE \E m \in DOMAIN s : s[m] = k
    OBVIOUS
  <2>1. rank[k] \in 0..(n - 1) /\ rank[k] = Cardinality(below(k))
    BY <1>6
  <2>2. rank[k] + 1 \in 1..n
    BY <2>1, <1>1
  <2>3. s[rank[k] + 1] \in ks /\ Cardinality(below(s[rank[k] + 1])) = (rank[k] + 1) - 1
    BY <2>2, <1>13
  <2>4. rank[s[rank[k] + 1]] = rank[k]
    BY <2>1, <2>3, <1>1
  <2>5. QED
    BY <2>2, <2>3, <2>4, <1>5, <1>14
<1>17. \A l, m \in DOMAIN s : l < m => Precedes(s[l], s[m])
  <2> SUFFICES ASSUME NEW l \in 1..n, NEW m \in 1..n, l < m PROVE Precedes(s[l], s[m])
    BY <1>14
  <2>1. /\ s[l] \in ks /\ s[m] \in ks
        /\ Cardinality(below(s[l])) = l - 1 /\ Cardinality(below(s[m])) = m - 1
    BY <1>13
  <2> DEFINE i == s[l]
             k == s[m]
  <2> HIDE DEF i, k
  <2>2. i \in ks /\ k \in ks /\ Cardinality(below(i)) = l - 1 /\ Cardinality(below(k)) = m - 1
    BY <2>1 DEF i, k
  <2>3. l \in Int /\ m \in Int /\ l - 1 < m - 1
    BY <1>1
  <2>4. ~Precedes(k, i)
    <3>1. ASSUME Precedes(k, i) PROVE m - 1 < l - 1
      <4>1. Cardinality(below(k)) < Cardinality(below(i))
        BY <3>1, <2>2, <1>4, Zenon
      <4>2. QED
        BY <4>1, <2>2, Zenon
    <3>2. QED
      BY <3>1, <2>3
  <2>5. i # k
    <3>1. i = k => l - 1 = m - 1
      BY <2>2, Zenon
    <3>2. QED
      BY <3>1, <2>3
  <2>6. Precedes(i, k)
    BY <2>2, <2>4, <2>5, PrecedesIsOrder
  <2>7. QED
    BY <2>6 DEF i, k
<1>18. QED
  BY <1>15, <1>16, <1>17

-----------------------------------------------------------------------------
(* What a write does to the lines.                                         *)

\* The lines grow by one that can be read, or a damaged one tells of the rest.
Grown(line) ==
  /\ lines' \in Seq(All \cup {Damaged})
  /\ \A k \in DOMAIN lines' :
       \/ lines'[k] = Damaged
       \/ k \in DOMAIN lines /\ lines'[k] = lines[k]
       \/ k = Len(lines') /\ lines'[k] = line
  /\ Intact' => Intact /\ lines' = Append(lines, line)

LEMMA AppendFacts ==
  ASSUME TypeOK, NEW line, lines' = Append(lines, line)
  PROVE  /\ DOMAIN lines' = 1..(Len(lines) + 1) /\ Len(lines') = Len(lines) + 1
         /\ \A k \in DOMAIN lines : k \in DOMAIN lines' /\ lines'[k] = lines[k]
         /\ \A k \in DOMAIN lines' : k \in DOMAIN lines \/ k = Len(lines')
         /\ lines'[Len(lines')] = line /\ Len(lines') \in DOMAIN lines'
<1>1. lines \in Seq(All \cup {Damaged})
  BY DEF TypeOK
<1>2. DOMAIN lines = 1..Len(lines) /\ Len(lines) \in Nat
  BY <1>1
<1>3. DOMAIN lines' = 1..(Len(lines) + 1) /\ Len(lines') = Len(lines) + 1
  BY <1>1
<1>4. \A k \in 1..Len(lines) : lines'[k] = lines[k]
  BY <1>1
<1>5. lines'[Len(lines) + 1] = line
  BY <1>1
<1>6. QED
  BY <1>2, <1>3, <1>4, <1>5

LEMMA AppendGrows ==
  ASSUME TypeOK, NEW line \in All \cup {Damaged}, lines' = Append(lines, line)
  PROVE  Grown(line)
<1>1. lines' \in Seq(All \cup {Damaged})
  BY DEF TypeOK
<1>2. Intact' => Intact
  BY AppendFacts DEF Intact
<1>3. QED
  BY <1>1, <1>2, AppendFacts DEF Grown

LEMMA WithLineGrows ==
  ASSUME TypeOK, NEW w \in Pending, NEW line \in {Damaged, w.event}, lines' = WithLine(w, line)
  PROVE  Grown(line)
<1>1. line \in All \cup {Damaged} /\ Damaged \in All \cup {Damaged}
  BY DEF Pending, All
<1>2. CASE open /\ ~w.newline
  <2> DEFINE front == Front(lines)
  <2>1. lines \in Seq(All \cup {Damaged}) /\ Len(lines) \in Nat /\ DOMAIN lines = 1..Len(lines)
    BY DEF TypeOK
  <2>2. front = [i \in 1..(Len(lines) - 1) |-> lines[i]]
    BY <2>1 DEF Front
  <2>3. \E n \in Nat : /\ 1..(Len(lines) - 1) = 1..n /\ 1..n \subseteq 1..Len(lines)
    <3>1. CASE Len(lines) = 0
      <4>1. 0 \in Nat /\ 1..(Len(lines) - 1) = 1..0 /\ 1..0 \subseteq 1..Len(lines)
        BY <3>1
      <4>2. QED
        BY <4>1, Zenon
    <3>2. CASE Len(lines) # 0
      <4>1. /\ Len(lines) - 1 \in Nat
            /\ 1..(Len(lines) - 1) \subseteq 1..Len(lines)
        BY <3>2, <2>1
      <4>2. QED
        BY <4>1, Zenon
    <3>3. QED
      BY <3>1, <3>2
  <2>4. PICK n \in Nat : 1..(Len(lines) - 1) = 1..n /\ 1..n \subseteq 1..Len(lines)
    BY <2>3
  <2>5. front \in Seq(All \cup {Damaged}) /\ DOMAIN front = 1..n /\ Len(front) = n
    <3>1. front \in [1..n -> All \cup {Damaged}]
      <4> DEFINE D == 1..(Len(lines) - 1)
      <4>1. \A i \in D : lines[i] \in All \cup {Damaged}
        <5>1. D \subseteq 1..Len(lines)
          BY <2>4
        <5>2. QED
          BY <2>1, <5>1
      <4>2. [i \in D |-> lines[i]] \in [D -> All \cup {Damaged}]
        BY <4>1
      <4>3. D = 1..n
        BY <2>4
      <4> HIDE DEF D
      <4>4. [i \in D |-> lines[i]] \in [1..n -> All \cup {Damaged}]
        BY <4>2, <4>3, Zenon
      <4>5. QED
        BY <2>2, <4>4, Zenon DEF D
    <3>2. QED
      BY <3>1
  <2>6. \A i \in 1..n : front[i] = lines[i]
    BY <2>2, <2>4
  <2> HIDE DEF front
  <2>7. lines' = Append(front, Damaged)
    BY <1>2 DEF WithLine, front
  <2>8. lines' \in Seq(All \cup {Damaged}) /\ DOMAIN lines' = 1..(n + 1) /\ lines'[n + 1] = Damaged
    BY <2>5, <2>7
  <2>9. \A k \in 1..n : lines'[k] = front[k]
    BY <2>5, <2>7
  <2>10. \A k \in DOMAIN lines' : lines'[k] = Damaged \/ (k \in DOMAIN lines /\ lines'[k] = lines[k])
    <3>1. \A k \in 1..(n + 1) : k \in 1..n \/ k = n + 1
      OBVIOUS
    <3>2. \A k \in 1..n : k \in DOMAIN lines /\ lines'[k] = lines[k]
      BY <2>1, <2>4, <2>6, <2>9, Zenon
    <3>3. QED
      BY <2>8, <3>1, <3>2, Zenon
  <2>11. ~Intact'
    BY <2>8 DEF Intact
  <2>12. QED
    BY <2>8, <2>10, <2>11 DEF Grown
<1>3. CASE ~(open /\ ~w.newline) /\ ~open /\ w.newline
  <2>1. lines' = lines \o <<Damaged, line>>
    BY <1>3 DEF WithLine
  <2>2. lines \in Seq(All \cup {Damaged}) /\ Len(lines) \in Nat /\ DOMAIN lines = 1..Len(lines)
    BY DEF TypeOK
  <2>3. <<Damaged, line>> \in Seq(All \cup {Damaged}) /\ Len(<<Damaged, line>>) = 2
    BY <1>1
  <2>4. /\ lines' \in Seq(All \cup {Damaged}) /\ Len(lines') = Len(lines) + 2
        /\ DOMAIN lines' = 1..(Len(lines) + 2)
    BY <2>1, <2>2, <2>3
  <2>5. \A k \in 1..Len(lines) : lines'[k] = lines[k]
    BY <2>1, <2>2, <2>3
  <2>6. lines'[Len(lines) + 1] = Damaged /\ lines'[Len(lines) + 2] = line
    BY <2>1, <2>2, <2>3
  <2>7. ~Intact'
    BY <2>2, <2>4, <2>6 DEF Intact
  <2>8. \A k \in DOMAIN lines' : \/ k \in DOMAIN lines
                                 \/ k = Len(lines) + 1 \/ k = Len(lines')
    BY <2>2, <2>4
  <2>9. QED
    BY <2>2, <2>4, <2>5, <2>6, <2>7, <2>8 DEF Grown
<1>4. CASE ~(open /\ ~w.newline) /\ ~(~open /\ w.newline)
  <2>1. lines' = Append(lines, line)
    BY <1>4 DEF WithLine
  <2>2. QED
    BY <1>1, <2>1, AppendGrows
<1>5. QED
  BY <1>2, <1>3, <1>4

(* A line keeps its position when others are added after it. *)
LEMMA PositionKept ==
  ASSUME TypeOK, NEW line, lines' = Append(lines, line), NEW k \in DOMAIN lines
  PROVE  Position(k)' = Position(k)
<1>1. lines'[k] = lines[k]
  BY AppendFacts
<1>2. k \in 1..Len(lines) /\ Len(lines) \in Nat /\ DOMAIN lines = 1..Len(lines)
  BY LinesFinite
<1>3. \A i \in 1..k : lines'[i] = lines[i]
  BY <1>2, AppendFacts
<1>4. {i \in 1..k : lines'[i] = lines'[k]} = {i \in 1..k : lines[i] = lines[k]}
  BY <1>1, <1>3
<1>5. Occurrence(k)' = Occurrence(k)
  BY <1>4 DEF Occurrence
<1>6. QED
  BY <1>1, <1>5 DEF Position

(* Lines that are stored stay countable. *)
LEMMA CountTyped ==
  ASSUME NEW S, NEW s \in Seq(S), NEW e
  PROVE  IsFiniteSet({i \in DOMAIN s : s[i] = e}) /\ Count(e, s) \in Nat
<1>1. DOMAIN s = 1..Len(s) /\ Len(s) \in Nat
  OBVIOUS
<1>2. IsFiniteSet(DOMAIN s)
  BY <1>1, FS_Interval
<1>3. IsFiniteSet({i \in DOMAIN s : s[i] = e})
  BY <1>2, FS_Subset
<1>4. QED
  BY <1>3, FS_CardinalityType DEF Count

LEMMA CountGrows ==
  ASSUME NEW S, NEW s \in Seq(S), NEW T, NEW t \in Seq(T), NEW e,
         \A i \in DOMAIN s : i \in DOMAIN t /\ t[i] = s[i]
  PROVE  Count(e, s) <= Count(e, t)
<1>1. {i \in DOMAIN s : s[i] = e} \subseteq {i \in DOMAIN t : t[i] = e}
  OBVIOUS
<1>2. IsFiniteSet({i \in DOMAIN t : t[i] = e})
  BY CountTyped
<1>3. QED
  BY <1>1, <1>2, FS_Subset DEF Count

-----------------------------------------------------------------------------
(* The reader while others write.                                          *)

\* What a write leaves to the reader: events that are new, at the end.
Added ==
  Intact' =>
    /\ Intact
    /\ \/ lines' = lines
       \/ \E e \in Events : /\ lines' = Append(lines, e) /\ e \notin saved
                            /\ \A k \in DOMAIN lines : lines[k] # e

LEMMA AddedKeeps ==
  ASSUME TypeOK, Added, Intact'
  PROVE  /\ lines \in Seq(All \cup {Damaged}) /\ lines' \in Seq(All \cup {Damaged})
         /\ \A k \in DOMAIN lines : /\ k \in DOMAIN lines' /\ lines'[k] = lines[k]
                                    /\ Position(k)' = Position(k)
         /\ \A k \in DOMAIN lines' : k \notin DOMAIN lines => lines'[k] \in Events \ saved
<1>1. lines \in Seq(All \cup {Damaged})
  BY DEF TypeOK
<1>2. CASE lines' = lines
  BY <1>1, <1>2 DEF Position, Occurrence
<1>3. CASE \E e \in Events : lines' = Append(lines, e) /\ e \notin saved
  <2>1. PICK e \in Events : lines' = Append(lines, e) /\ e \notin saved
    BY <1>3
  <2>2. e \in All \cup {Damaged}
    BY DEF All
  <2>3. lines' \in Seq(All \cup {Damaged})
    BY <1>1, <2>1, <2>2
  <2>4. \A k \in DOMAIN lines : Position(k)' = Position(k)
    BY <2>1, PositionKept
  <2>5. QED
    BY <1>1, <2>1, <2>3, <2>4, AppendFacts
<1>4. QED
  BY <1>2, <1>3 DEF Added

LEMMA OldLinesKept ==
  ASSUME store' = store
  PROVE  OldLines' = OldLines
  BY DEF OldLines

(* Old lines have no event of the processes among them. *)
LEMMA OldIsLegacy ==
  /\ OldLines \in Seq(ToSet(Legacy))
  /\ \A e \in ToSet(OldLines) : e \in ToSet(Legacy) /\ e \in All /\ e \notin Events
<1>1. OldLines = Legacy \/ OldLines = <<>>
  BY DEF OldLines
<1>2. OldLines \in Seq(ToSet(Legacy))
  <2>1. Legacy \in Seq(ToSet(Legacy))
    BY EventAssumption
  <2>2. \A S : <<>> \in Seq(S)
    OBVIOUS
  <2>3. QED
    BY <1>1, <2>1, <2>2, Zenon
<1>3. \A e \in ToSet(OldLines) : e \in ToSet(Legacy)
  BY <1>2 DEF ToSet
<1>4. \A e \in ToSet(Legacy) : e \in All /\ e \notin Events
  BY EventAssumption DEF All
<1>5. QED
  BY <1>2, <1>3, <1>4

LEMMA ReaderKept ==
  ASSUME TypeOK, reader \in Readers, ReaderOK(reader), Added, store = "table" => Intact',
         reader' = reader, store' = store, saved \subseteq saved'
  PROVE  ReaderOK(reader)'
<1> DEFINE r == reader
<1>1. Standing(reader)'
  BY DEF ReaderOK, Standing, Later, NotBeyond, Occurrences, PlaceOf, Before
<1>2. OnPage(reader)'
  <2>1. CASE r.page = <<>>
    BY <2>1 DEF OnPage
  <2>2. CASE r.page # <<>>
    <3>1. Intact'
      BY <2>2 DEF ReaderOK, Standing
    <3>2. \A m \in DOMAIN r.page : r.page[m] \in Matching(r.filter)
      BY DEF ReaderOK, OnPage
    <3>3. \A m \in DOMAIN r.page : r.page[m] \in DOMAIN lines
      BY <3>2 DEF Matching, Readable
    <3>4. \A m \in DOMAIN r.page : Position(r.page[m])' = Position(r.page[m])
      BY <3>1, <3>3, AddedKeeps
    <3>5. \A m \in DOMAIN r.page : r.page[m] \in Matching(r.filter)'
      BY <3>1, <3>2, <3>3, AddedKeeps DEF Matching, Readable
    <3>6. QED
      BY <3>4, <3>5 DEF ReaderOK, OnPage, Later, Before, Ahead, Occurrences, PlaceOf
  <2>3. QED
    BY <2>1, <2>2
<1>3. DueIsStored(reader)'
  <2>1. \A e \in DOMAIN r.due : e \in (saved \cup ToSet(OldLines))' /\ Matches(r.filter, e)
    BY OldLinesKept DEF ReaderOK, DueIsStored
  <2>2. ASSUME Intact' PROVE \A e \in DOMAIN r.due : r.due[e] <= Count(e, lines')
    <3>1. Intact
      BY <2>2 DEF Added
    <3>2. \A e \in DOMAIN r.due : r.due[e] <= Count(e, lines)
      BY <3>1 DEF ReaderOK, DueIsStored
    <3>3. ASSUME NEW e \in DOMAIN r.due PROVE r.due[e] <= Count(e, lines')
      <4>1. Count(e, lines) <= Count(e, lines')
        BY <2>2, AddedKeeps, CountGrows
      <4>2. Count(e, lines) \in Nat /\ Count(e, lines') \in Nat
        BY <2>2, AddedKeeps, CountTyped
      <4>3. r.due[e] \in Nat
        BY DEF Readers
      <4>4. QED
        BY <3>2, <4>1, <4>2, <4>3
    <3>4. QED
      BY <3>3
  <2>3. QED
    BY <2>1, <2>2 DEF DueIsStored
<1>4. NothingPassed(reader)'
  <2> SUFFICES ASSUME Intact', r.step # "complete"
               PROVE  \E src \in [DOMAIN r.found -> Nat] : Passed(reader, src)'
    BY DEF NothingPassed
  <2>1. PICK src \in [DOMAIN r.found -> Nat] : Passed(r, src)
    BY DEF Added, ReaderOK, NothingPassed
  <2>2. ASSUME NEW k \in DOMAIN lines', lines'[k] \in DOMAIN r.due
        PROVE  /\ k \in DOMAIN lines /\ lines'[k] = lines[k]
               /\ Position(k)' = Position(k)
    <3>1. lines'[k] \in saved \cup ToSet(OldLines)
      BY <2>2 DEF ReaderOK, DueIsStored
    <3>2. lines'[k] \notin Events \ saved
      BY <3>1, OldIsLegacy DEF TypeOK
    <3>3. QED
      BY <3>2, AddedKeeps
  <2>3. Passed(reader, src)'
    BY <2>1, <2>2 DEF Passed, Found1, Later, Before
  <2>4. QED
    BY <2>3
<1>5. QED
  BY <1>1, <1>2, <1>3, <1>4 DEF ReaderOK

-----------------------------------------------------------------------------
(* The actions of the writers.                                             *)

(* What an action of a writer keeps: its new lines are those of Grown, and  *)
(* the reader goes on as it was.                                            *)
LEMMA WriterKeeps ==
  ASSUME Inv, TypeOK', WrittenOnce', Intact' => Kept', Added,
         reader' = reader, store' = store, saved \subseteq saved'
  PROVE  Inv'
<1>1. reader # NoReader => ReaderOK(reader)'
  <2> SUFFICES ASSUME reader # NoReader PROVE ReaderOK(reader)'
    OBVIOUS
  <2>1. reader \in Readers /\ ReaderOK(reader) /\ TypeOK
    BY DEF Inv, TypeOK
  <2>2. store = "table" => Intact'
    BY DEF WrittenOnce
  <2>3. QED
    BY <2>1, <2>2, ReaderKept
<1>2. NothingLostInSilence' /\ PagesAreOneList'
  BY DEF Inv, NothingLostInSilence, PagesAreOneList, Count, Matches
<1>3. NoReader' = NoReader
  BY DEF NoReader
<1>4. QED
  BY <1>1, <1>2, <1>3 DEF Inv

LEMMA PendingFields ==
  ASSUME NEW w \in Pending
  PROVE  w.event \in Events /\ w.event \in All /\ w.newline \in BOOLEAN
  BY DEF Pending, All

LEMMA RecordKeeps ==
  ASSUME Inv, NEW p \in Procs, NEW e \in Events, Record(p, e)
  PROVE  Inv'
<1>1. /\ store = "log" /\ writing[p] = None /\ e \notin recorded
      /\ recorded' = recorded \cup {e}
      /\ writing' = [writing EXCEPT ![p] = [event |-> e, newline |-> open]]
      /\ store' = store /\ lines' = lines /\ open' = open /\ saved' = saved
      /\ reader' = reader /\ cuts' = cuts
  BY DEF Record, Begin, NeedsNewline
<1>2. TypeOK /\ WrittenOnce /\ (Intact => Kept)
  BY DEF Inv
<1>3. [event |-> e, newline |-> open] \in Pending
  BY <1>2 DEF Pending, TypeOK
<1>4. TypeOK'
  <2>1. writing' \in [Procs -> Pending \cup {None}]
    BY <1>1, <1>2, <1>3 DEF TypeOK
  <2>2. recorded' \subseteq Events /\ saved' \subseteq recorded'
    BY <1>1, <1>2 DEF TypeOK
  <2>3. NoReader' = NoReader
    BY DEF NoReader
  <2>4. QED
    BY <1>1, <1>2, <2>1, <2>2, <2>3 DEF TypeOK
<1>5. /\ writing'[p] = [event |-> e, newline |-> open]
      /\ \A q \in Procs : q # p => writing'[q] = writing[q]
  BY <1>1, <1>2 DEF TypeOK
<1>6. WrittenOnce'
  <2>1. \A k \in DOMAIN lines : lines[k] # e
    BY <1>1, <1>2 DEF WrittenOnce
  <2>2. e \notin saved
    BY <1>1, <1>2 DEF TypeOK
  <2>3. \A q \in Procs : writing[q] # None => writing[q].event # e
    BY <1>1, <1>2 DEF WrittenOnce
  <2>4. \A q \in Procs : writing'[q] # None =>
          writing'[q].event \in recorded' \ saved' /\ \A k \in DOMAIN lines' : lines'[k] # writing'[q].event
    BY <1>1, <1>2, <1>5, <2>1, <2>2 DEF WrittenOnce
  <2>5. \A o, q \in Procs : o # q /\ writing'[o] # None /\ writing'[q] # None
          => writing'[o].event # writing'[q].event
    BY <1>2, <1>5, <2>3 DEF WrittenOnce
  <2>6. QED
    BY <1>1, <1>2, <2>4, <2>5 DEF WrittenOnce
<1>7. Intact' => Kept'
  BY <1>1, <1>2 DEF Intact, Kept, OldLines
<1>8. Added
  BY <1>1 DEF Added, Intact
<1>9. QED
  BY <1>1, <1>4, <1>6, <1>7, <1>8, WriterKeeps

(* The end of a write: of the event, or of less of it. *)
LEMMA WriteEnds ==
  ASSUME Inv, NEW p \in Procs, writing[p] # None, NEW line \in {Damaged, writing[p].event},
         lines' = WithLine(writing[p], line), writing' = [writing EXCEPT ![p] = None],
         store' = store, recorded' = recorded, reader' = reader,
         open' \in BOOLEAN, cuts' \in Nat,
         saved' = saved \/ (saved' = saved \cup {writing[p].event} /\ line = writing[p].event)
  PROVE  Inv'
<1> DEFINE w == writing[p]
           e == w.event
<1>1. TypeOK /\ WrittenOnce /\ (Intact => Kept)
  BY DEF Inv
<1>2. w \in Pending
  BY <1>1 DEF TypeOK
<1>3. e \in Events /\ e \in All /\ e # Damaged
  BY <1>2, PendingFields, ValueAssumption
<1>4. e \in recorded /\ e \notin saved /\ \A k \in DOMAIN lines : lines[k] # e
  BY <1>1 DEF WrittenOnce
<1>5. Grown(line)
  BY <1>1, <1>2, WithLineGrows
<1>6. TypeOK'
  <2>1. writing' \in [Procs -> Pending \cup {None}]
    BY <1>1 DEF TypeOK
  <2>2. recorded' \subseteq Events /\ saved' \subseteq recorded'
    BY <1>1, <1>4 DEF TypeOK
  <2>3. NoReader' = NoReader
    BY DEF NoReader
  <2>4. lines' \in Seq(All \cup {Damaged})
    BY <1>5 DEF Grown
  <2>5. QED
    BY <1>1, <2>1, <2>2, <2>3, <2>4 DEF TypeOK
<1>7. writing'[p] = None /\ \A q \in Procs : q # p => writing'[q] = writing[q]
  BY <1>1 DEF TypeOK
<1>8. \A k \in DOMAIN lines' : lines'[k] \in Events =>
        (k \in DOMAIN lines /\ lines'[k] = lines[k]) \/ (k = Len(lines') /\ lines'[k] = e)
  BY <1>5, ValueAssumption DEF Grown, All
<1>9. WrittenOnce'
  <2>1. \A k \in DOMAIN lines' : lines'[k] \in Events => lines'[k] \in recorded'
    BY <1>1, <1>4, <1>8 DEF WrittenOnce
  <2>2. \A i, k \in DOMAIN lines' : lines'[i] = lines'[k] /\ lines'[i] \in Events => i = k
    BY <1>1, <1>4, <1>8 DEF WrittenOnce
  <2>3. \A q \in Procs : writing'[q] # None => writing'[q] = writing[q] /\ q # p
    BY <1>7
  <2>4. \A q \in Procs : writing'[q] # None => writing'[q].event # e /\ writing'[q].event \in Events
    BY <1>1, <2>3, PendingFields DEF WrittenOnce, TypeOK
  <2>5. \A q \in Procs : writing'[q] # None =>
          writing'[q].event \in recorded' \ saved' /\ \A k \in DOMAIN lines' : lines'[k] # writing'[q].event
    BY <1>1, <1>8, <2>3, <2>4 DEF WrittenOnce
  <2>6. \A o, q \in Procs : o # q /\ writing'[o] # None /\ writing'[q] # None
          => writing'[o].event # writing'[q].event
    BY <1>1, <2>3 DEF WrittenOnce
  <2>7. store' # "table"
    BY <1>1 DEF WrittenOnce
  <2>8. QED
    BY <2>1, <2>2, <2>5, <2>6, <2>7 DEF WrittenOnce
<1>10. Intact' => Intact /\ lines' = Append(lines, e) /\ line = e
  <2> SUFFICES ASSUME Intact' PROVE Intact /\ lines' = Append(lines, e) /\ line = e
    OBVIOUS
  <2>1. Intact /\ lines' = Append(lines, line)
    BY <1>5 DEF Grown
  <2>2. line # Damaged
    BY <1>1, <2>1, AppendFacts DEF Intact
  <2>3. QED
    BY <2>1, <2>2
<1>11. Intact' => Kept'
  <2> SUFFICES ASSUME Intact' PROVE Kept'
    OBVIOUS
  <2>1. Kept /\ lines' = Append(lines, e)
    BY <1>1, <1>10
  <2>2. OldLines' = OldLines
    BY OldLinesKept
  <2>3. \A k \in DOMAIN OldLines' : k \in DOMAIN lines' /\ lines'[k] = OldLines'[k]
    BY <1>1, <2>1, <2>2, AppendFacts DEF Kept
  <2>4. \A x \in saved' : \E k \in DOMAIN lines' : lines'[k] = x
    BY <1>1, <2>1, AppendFacts DEF Kept
  <2>5. QED
    BY <2>3, <2>4 DEF Kept
<1>12. Added
  BY <1>3, <1>4, <1>10 DEF Added
<1>13. QED
  BY <1>6, <1>9, <1>11, <1>12, WriterKeeps

LEMMA WriteKeeps ==
  ASSUME Inv, NEW p \in Procs, Write(p)
  PROVE  Inv'
<1>1. /\ writing[p] # None /\ lines' = WithLine(writing[p], writing[p].event)
      /\ writing' = [writing EXCEPT ![p] = None] /\ open' \in BOOLEAN
      /\ saved' = saved \cup {writing[p].event}
      /\ store' = store /\ recorded' = recorded /\ reader' = reader /\ cuts' = cuts
  BY DEF Write
<1>2. cuts' \in Nat
  BY <1>1 DEF Inv, TypeOK
<1>3. QED
  BY <1>1, <1>2, WriteEnds

LEMMA CutWriteKeeps ==
  ASSUME Inv, NEW p \in Procs, CutWrite(p)
  PROVE  Inv'
<1>1. PICK line \in {Damaged, writing[p].event} : lines' = WithLine(writing[p], line)
  BY DEF CutWrite
<1>2. /\ writing[p] # None /\ writing' = [writing EXCEPT ![p] = None] /\ open' \in BOOLEAN
      /\ store' = store /\ recorded' = recorded /\ reader' = reader /\ saved' = saved
      /\ cuts' = cuts + 1
  BY DEF CutWrite
<1>3. cuts' \in Nat
  BY <1>2 DEF Inv, TypeOK
<1>4. QED
  BY <1>1, <1>2, <1>3, WriteEnds

LEMMA RecordRowKeeps ==
  ASSUME Inv, NEW p \in Procs, NEW e \in Events, RecordRow(p, e)
  PROVE  Inv'
<1>1. /\ store = "table" /\ e \notin recorded /\ recorded' = recorded \cup {e}
      /\ lines' = Append(lines, e) /\ saved' = saved \cup {e}
      /\ store' = store /\ open' = open /\ writing' = writing /\ reader' = reader /\ cuts' = cuts
  BY DEF RecordRow, Begin
<1>2. TypeOK /\ WrittenOnce /\ (Intact => Kept)
  BY DEF Inv
<1>3. e \in All /\ e # Damaged
  BY ValueAssumption DEF All
<1>4. Grown(e)
  BY <1>1, <1>2, <1>3, AppendGrows
<1>5. e \notin saved /\ \A k \in DOMAIN lines : lines[k] # e
  BY <1>1, <1>2 DEF WrittenOnce, TypeOK
<1>6. Intact /\ Intact'
  <2>1. Intact
    BY <1>1, <1>2 DEF WrittenOnce
  <2>2. Intact'
    BY <1>1, <1>2, <1>3, <2>1, AppendFacts DEF Intact
  <2>3. QED
    BY <2>1, <2>2
<1>7. TypeOK'
  <2>1. recorded' \subseteq Events /\ saved' \subseteq recorded'
    BY <1>1, <1>2 DEF TypeOK
  <2>2. NoReader' = NoReader
    BY DEF NoReader
  <2>3. lines' \in Seq(All \cup {Damaged})
    BY <1>4 DEF Grown
  <2>4. QED
    BY <1>1, <1>2, <2>1, <2>2, <2>3 DEF TypeOK
<1>8. WrittenOnce'
  <2>1. \A k \in DOMAIN lines' : (k \in DOMAIN lines /\ lines'[k] = lines[k])
                                 \/ (k = Len(lines') /\ lines'[k] = e)
    BY <1>1, <1>2, AppendFacts
  <2>2. \A k \in DOMAIN lines' : lines'[k] \in Events => lines'[k] \in recorded'
    BY <1>1, <1>2, <2>1 DEF WrittenOnce
  <2>3. \A i, k \in DOMAIN lines' : lines'[i] = lines'[k] /\ lines'[i] \in Events => i = k
    BY <1>2, <1>5, <2>1 DEF WrittenOnce
  <2>4. \A q \in Procs : writing'[q] = None
    BY <1>1, <1>2 DEF WrittenOnce
  <2>5. QED
    BY <1>6, <2>2, <2>3, <2>4 DEF WrittenOnce
<1>9. Kept'
  <2>1. OldLines' = OldLines
    BY <1>1, OldLinesKept
  <2>2. \A k \in DOMAIN OldLines' : k \in DOMAIN lines' /\ lines'[k] = OldLines'[k]
    BY <1>1, <1>2, <1>6, <2>1, AppendFacts DEF Kept
  <2>3. \A x \in saved' : \E k \in DOMAIN lines' : lines'[k] = x
    BY <1>1, <1>2, <1>6, AppendFacts DEF Kept
  <2>4. QED
    BY <2>2, <2>3 DEF Kept
<1>10. Added
  BY <1>1, <1>5, <1>6 DEF Added
<1>11. QED
  BY <1>1, <1>7, <1>8, <1>9, <1>10, WriterKeeps

-----------------------------------------------------------------------------
(* The actions of the reader, which leave the store alone.                 *)

StoreSame ==
  /\ store' = store /\ lines' = lines /\ open' = open /\ writing' = writing
  /\ recorded' = recorded /\ saved' = saved /\ cuts' = cuts

LEMMA ReaderMoves ==
  ASSUME lines' = lines, store' = store, saved' = saved, NEW q, reader' = q, ReaderOK(q)
  PROVE  ReaderOK(reader)'
<1>1. \A k : Position(k)' = Position(k)
  BY DEF Position, Occurrence
<1>2. Intact' = Intact
  BY DEF Intact
<1>3. Matching(q.filter)' = Matching(q.filter)
  BY DEF Matching, Readable
<1>4. OldLines' = OldLines
  BY OldLinesKept
<1>5. Standing(reader)'
  BY DEF ReaderOK, Standing
<1>6. OnPage(reader)'
  BY <1>1, <1>3 DEF ReaderOK, OnPage
<1>7. DueIsStored(reader)'
  BY <1>2, <1>4 DEF ReaderOK, DueIsStored
<1>8. NothingPassed(reader)'
  <2> SUFFICES ASSUME Intact', q.step # "complete"
               PROVE  \E src \in [DOMAIN q.found -> Nat] : Passed(reader, src)'
    BY DEF NothingPassed
  <2>1. PICK src \in [DOMAIN q.found -> Nat] : Passed(q, src)
    BY <1>2 DEF ReaderOK, NothingPassed
  <2>2. Passed(reader, src)'
    BY <1>1, <2>1 DEF Passed, Found1
  <2>3. QED
    BY <2>2
<1>9. QED
  BY <1>5, <1>6, <1>7, <1>8 DEF ReaderOK

LEMMA ReadingKeeps ==
  ASSUME Inv, StoreSame, NEW q \in Readers, reader' = q, ReaderOK(q),
         NothingLostInSilence', PagesAreOneList'
  PROVE  Inv'
<1>1. TypeOK /\ WrittenOnce /\ (Intact => Kept)
  BY DEF Inv
<1>2. TypeOK' /\ WrittenOnce' /\ (Intact' => Kept')
  <2>1. TypeOK'
    BY <1>1 DEF TypeOK, StoreSame
  <2>2. WrittenOnce'
    BY <1>1 DEF WrittenOnce, Intact, StoreSame
  <2>3. Intact' => Kept'
    BY <1>1 DEF Kept, Intact, OldLines, StoreSame
  <2>4. QED
    BY <2>1, <2>2, <2>3
<1>3. ReaderOK(reader)'
  BY ReaderMoves DEF StoreSame
<1>4. QED
  BY <1>2, <1>3 DEF Inv

LEMMA ReaderFields ==
  ASSUME NEW r \in Readers
  PROVE  /\ r.step \in {"read", "page", "complete"} /\ r.filter \in Filters
         /\ r.after \in Positions \cup {None} /\ r.page \in Seq(Nat) /\ r.found \in Seq(All)
         /\ r.incomplete \in BOOLEAN /\ r.due \in UNION {[S -> Nat] : S \in SUBSET All}
         /\ r # NoReader
<1>1. /\ r.step \in {"read", "page", "complete"} /\ r.filter \in Filters
      /\ r.after \in Positions \cup {None} /\ r.page \in Seq(Nat) /\ r.found \in Seq(All)
      /\ r.incomplete \in BOOLEAN /\ r.due \in UNION {[S -> Nat] : S \in SUBSET All}
  BY DEF Readers
<1>2. NoReader.step = "none"
  BY DEF NoReader
<1>3. QED
  BY <1>1, <1>2

(* The reader that a step meets is at work. *)
LEMMA AtWork ==
  ASSUME Inv, reader.step # "none"
  PROVE  /\ reader \in Readers /\ ReaderOK(reader) /\ TypeOK /\ WrittenOnce
         /\ store = "table" => Intact
<1>1. reader # NoReader
  BY DEF NoReader
<1>2. QED
  BY <1>1 DEF Inv, TypeOK, WrittenOnce

LEMMA SearchKeeps ==
  ASSUME Inv, NEW f \in Filters, Search(f)
  PROVE  Inv'
<1> DEFINE q == [step |-> "read", filter |-> f, after |-> None,
                 page |-> <<>>, found |-> <<>>, incomplete |-> FALSE, due |-> Due(f)]
           S == {x \in saved \cup ToSet(OldLines) : Matches(f, x)}
<1>1. StoreSame /\ reader' = q
  BY DEF Search, StoreSame
<1>2. TypeOK /\ (Intact => Kept)
  BY DEF Inv
<1>3. \A e \in S : Count(e, OldLines) \in Nat
  BY OldIsLegacy, CountTyped
<1>4. Due(f) = [e \in S |-> Count(e, OldLines) + (IF e \in saved THEN 1 ELSE 0)]
  BY DEF Due
<1>5. \A e \in S : e \in All
  BY <1>2, OldIsLegacy DEF TypeOK, All
<1>6. Due(f) \in [S -> Nat] /\ S \in SUBSET All
  BY <1>3, <1>4, <1>5
<1>7. q \in Readers
  <2>1. Due(f) \in UNION {[T -> Nat] : T \in SUBSET All}
    BY <1>6
  <2>2. <<>> \in Seq(Nat) /\ <<>> \in Seq(All)
    OBVIOUS
  <2> HIDE DEF S
  <2>3. QED
    BY <2>1, <2>2 DEF Readers
<1>8. /\ q.step = "read" /\ q.filter = f /\ q.after = None /\ q.page = <<>> /\ q.found = <<>>
      /\ q.incomplete = FALSE /\ q.due = Due(f) /\ DOMAIN q.due = S
  BY <1>6
<1>9. DOMAIN q.page = {} /\ DOMAIN q.found = {} /\ Len(q.page) = 0
  BY <1>8
<1> HIDE DEF q
<1>10. Standing(q)
  BY <1>8, <1>9, LimitAssumption DEF Standing
<1>11. OnPage(q)
  BY <1>9 DEF OnPage
<1>12. DueIsStored(q)
  <2>1. \A e \in S : e \in saved \cup ToSet(OldLines) /\ Matches(f, e)
    OBVIOUS
  <2>2. ASSUME Intact, NEW e \in S PROVE Due(f)[e] <= Count(e, lines)
    <3>1. Kept /\ lines \in Seq(All \cup {Damaged}) /\ OldLines \in Seq(ToSet(Legacy))
      BY <1>2, <2>2, OldIsLegacy DEF TypeOK
    <3>2. Count(e, OldLines) <= Count(e, lines)
      BY <3>1, CountGrows DEF Kept
    <3>3. Count(e, lines) \in Nat /\ Count(e, OldLines) \in Nat
      BY <3>1, CountTyped
    <3>4. CASE e \notin saved
      <4>1. Due(f)[e] = Count(e, OldLines) + 0
        BY <1>4, <3>4
      <4>2. QED
        BY <4>1, <3>2, <3>3
    <3>5. CASE e \in saved
      <4>1. Due(f)[e] = Count(e, OldLines) + 1
        BY <1>4, <3>5
      <4>2. e \notin ToSet(OldLines)
        BY <3>5, <1>2, OldIsLegacy DEF TypeOK
      <4>3. {i \in DOMAIN OldLines : OldLines[i] = e} = {}
        BY <4>2 DEF ToSet
      <4>4. Count(e, OldLines) = 0
        BY <4>3, FS_EmptySet DEF Count
      <4>5. PICK k \in DOMAIN lines : lines[k] = e
        BY <3>1, <3>5 DEF Kept
      <4>6. {i \in DOMAIN lines : lines[i] = e} # {}
        BY <4>5
      <4>7. IsFiniteSet({i \in DOMAIN lines : lines[i] = e})
        BY <3>1, CountTyped
      <4>8. Count(e, lines) # 0
        BY <4>6, <4>7, FS_EmptySet DEF Count
      <4>9. QED
        BY <4>1, <4>4, <4>8, <3>3
    <3>6. QED
      BY <3>4, <3>5
  <2>3. QED
    BY <1>8, <2>1, <2>2 DEF DueIsStored
<1>13. NothingPassed(q)
  <2>1. [i \in DOMAIN q.found |-> 0] \in [DOMAIN q.found -> Nat]
    OBVIOUS
  <2>2. \A src : Passed(q, src)
    BY <1>8 DEF Passed
  <2>3. QED
    BY <2>1, <2>2 DEF NothingPassed
<1>14. NothingLostInSilence' /\ PagesAreOneList'
  BY <1>1, <1>8, <1>9 DEF NothingLostInSilence, PagesAreOneList
<1>15. QED
  BY <1>1, <1>7, <1>10, <1>11, <1>12, <1>13, <1>14, ReadingKeeps DEF ReaderOK

LEMMA NextPageKeeps ==
  ASSUME Inv, NextPage
  PROVE  Inv'
<1> DEFINE r == reader
           q == [reader EXCEPT !.step = "read"]
<1>1. StoreSame /\ reader' = q /\ r.step = "page"
  BY DEF NextPage, StoreSame
<1>2. r \in Readers /\ ReaderOK(r)
  BY <1>1, AtWork
<1>3. q \in Readers
  BY <1>2 DEF Readers
<1>4. /\ q.step = "read" /\ q.filter = r.filter /\ q.after = r.after /\ q.page = r.page
      /\ q.found = r.found /\ q.incomplete = r.incomplete /\ q.due = r.due
  BY <1>2 DEF Readers
<1> HIDE DEF q
<1>5. Standing(q)
  BY <1>1, <1>2, <1>4 DEF ReaderOK, Standing
<1>6. OnPage(q)
  BY <1>2, <1>4 DEF ReaderOK, OnPage
<1>7. DueIsStored(q)
  BY <1>2, <1>4 DEF ReaderOK, DueIsStored
<1>8. NothingPassed(q)
  BY <1>1, <1>2, <1>4 DEF ReaderOK, NothingPassed, Passed, Found1
<1>9. NothingLostInSilence'
  BY <1>1, <1>4 DEF NothingLostInSilence
<1>10. PagesAreOneList'
  BY <1>1, <1>4 DEF Inv, PagesAreOneList
<1>11. QED
  BY <1>1, <1>3, <1>5, <1>6, <1>7, <1>8, <1>9, <1>10, ReadingKeeps DEF ReaderOK

LEMMA LeaveKeeps ==
  ASSUME Inv, Leave
  PROVE  Inv'
<1>1. StoreSame /\ reader' = NoReader /\ NoReader' = NoReader
  BY DEF Leave, StoreSame, NoReader
<1>2. reader'.step = "none"
  BY <1>1 DEF NoReader
<1>3. TypeOK /\ WrittenOnce /\ (Intact => Kept)
  BY DEF Inv
<1>4. TypeOK'
  BY <1>1, <1>3 DEF TypeOK, StoreSame
<1>5. WrittenOnce'
  BY <1>1, <1>3 DEF WrittenOnce, Intact, StoreSame
<1>6. Intact' => Kept'
  BY <1>1, <1>3 DEF Kept, Intact, OldLines, StoreSame
<1>7. NothingLostInSilence' /\ PagesAreOneList'
  BY <1>2 DEF NothingLostInSilence, PagesAreOneList
<1>8. QED
  BY <1>1, <1>4, <1>5, <1>6, <1>7 DEF Inv

-----------------------------------------------------------------------------
(* What a page is cut from.                                                *)

LEMMA UpToFacts ==
  ASSUME NEW S, NEW s \in Seq(S), NEW n \in Nat
  PROVE  /\ UpTo(s, n) \in Seq(S) /\ Len(UpTo(s, n)) <= n
         /\ \A i \in DOMAIN UpTo(s, n) : i \in DOMAIN s /\ i <= n /\ UpTo(s, n)[i] = s[i]
         /\ \A i \in DOMAIN s : i <= n => i \in DOMAIN UpTo(s, n)
         /\ Len(s) <= n => UpTo(s, n) = s
         /\ Len(s) > n => Len(UpTo(s, n)) = n
<1>1. CASE Len(s) <= n
  BY <1>1 DEF UpTo
<1>2. CASE ~(Len(s) <= n)
  <2>1. UpTo(s, n) = SubSeq(s, 1, n)
    BY <1>2 DEF UpTo
  <2>2. QED
    BY <1>2, <2>1
<1>3. QED
  BY <1>1, <1>2

(* What is found after a page: what was found, then the lines of the page. *)
LEMMA FoundGrows ==
  ASSUME TypeOK, reader \in Readers, NEW page \in Seq(Nat),
         \A m \in DOMAIN page : page[m] \in Readable
  PROVE  /\ Found(page) \in Seq(All)
         /\ \A i \in DOMAIN reader.found : i \in DOMAIN Found(page) /\ Found(page)[i] = reader.found[i]
         /\ \A m \in DOMAIN page : /\ Len(reader.found) + m \in DOMAIN Found(page)
                                   /\ Found(page)[Len(reader.found) + m] = lines[page[m]]
         /\ \A i \in DOMAIN Found(page) :
              \/ i \in DOMAIN reader.found
              \/ \E m \in DOMAIN page : i = Len(reader.found) + m
<1> DEFINE found == reader.found
           new == [i \in DOMAIN page |-> lines[page[i]]]
<1>1. found \in Seq(All)
  BY ReaderFields
<1>2. DOMAIN page = 1..Len(page) /\ Len(page) \in Nat
  OBVIOUS
<1>3. \A m \in DOMAIN page : lines[page[m]] \in All
  BY ReadableLines
<1>4. new \in [1..Len(page) -> All]
  BY <1>2, <1>3, Zenon
<1>5. new \in Seq(All) /\ Len(new) = Len(page) /\ DOMAIN new = DOMAIN page
  BY <1>2, <1>4
<1>6. \A m \in DOMAIN page : new[m] = lines[page[m]]
  OBVIOUS
<1>7. Found(page) = found \o new
  BY DEF Found
<1> HIDE DEF new, found
<1>8. /\ found \o new \in Seq(All)
      /\ \A i \in DOMAIN found : i \in DOMAIN (found \o new) /\ (found \o new)[i] = found[i]
      /\ \A m \in DOMAIN new : /\ Len(found) + m \in DOMAIN (found \o new)
                               /\ (found \o new)[Len(found) + m] = new[m]
  BY <1>1, <1>5
<1>9. ASSUME NEW i \in DOMAIN (found \o new), i \notin DOMAIN found
      PROVE  \E m \in DOMAIN new : i = Len(found) + m
  <2>1. i - Len(found) \in DOMAIN new /\ i = Len(found) + (i - Len(found))
    BY <1>1, <1>5, <1>9
  <2>2. QED
    BY <2>1
<1>10. QED
  BY <1>5, <1>6, <1>7, <1>8, <1>9 DEF found

LEMMA PlaceTyped ==
  ASSUME NEW e \in All, NEW n \in Occurrences(e)
  PROVE  PlaceOf(e, n) \in Positions /\ (~e.legacy => n = 0)
<1>1. e.at \in Nat /\ e.id \in Nat
  BY EventAssumption
<1>2. n \in Nat /\ (~e.legacy => n = 0)
  BY DEF Occurrences
<1>3. QED
  BY <1>1, <1>2 DEF PlaceOf, Positions

(* The line k is a place of its event. *)
LEMMA PlaceOfLine ==
  ASSUME TypeOK, NEW k \in Readable
  PROVE  \E n \in Occurrences(lines[k]) : Position(k) = PlaceOf(lines[k], n)
<1>1. k \in DOMAIN lines
  BY ReadableLines
<1>2. Occurrence(k) \in Nat
  BY <1>1, OccurrenceTyped
<1>3. CASE lines[k].legacy
  BY <1>2, <1>3 DEF Occurrences, PlaceOf, Position
<1>4. CASE ~lines[k].legacy
  BY <1>4 DEF Occurrences, PlaceOf, Position
<1>5. QED
  BY <1>3, <1>4

(* What is found ahead of a line is ordered before it and is not its event. *)
LEMMA AheadFacts ==
  ASSUME TypeOK, NEW f, NEW e \in All, NEW k \in Readable, Ahead(f, e, Position(k))
  PROVE  /\ IF f.oldestFirst THEN e.at <= lines[k].at ELSE e.at >= lines[k].at
         /\ e.legacy \/ e # lines[k]
         /\ NotBeyond(f, e, Position(k))
<1>1. PICK n \in Occurrences(e) : Later(f, Position(k), PlaceOf(e, n))
  BY DEF Ahead
<1>2. PlaceOf(e, n) \in Positions /\ Position(k) \in Positions
  BY PlaceTyped, PositionTyped
<1>3. ~Later(f, PlaceOf(e, n), Position(k))
  BY <1>1, <1>2, LaterTurns
<1>4. PlaceOf(e, n).at = e.at /\ Position(k).at = lines[k].at
  BY DEF PlaceOf, Position
<1>5. IF f.oldestFirst THEN e.at <= lines[k].at ELSE e.at >= lines[k].at
  BY <1>2, <1>3, <1>4, LaterTimes
<1>6. ASSUME ~e.legacy, e = lines[k] PROVE FALSE
  <2>1. n = 0
    BY <1>6, PlaceTyped
  <2>2. Position(k) = PlaceOf(e, n)
    BY <1>6, <2>1 DEF PlaceOf, Position
  <2>3. QED
    BY <1>1, <1>2, <2>2, LaterIsOrder
<1>7. QED
  BY <1>3, <1>5, <1>6 DEF NotBeyond

LEMMA BeyondIsAhead ==
  ASSUME NEW f, NEW e \in All, NEW p \in Positions, NEW q \in Positions,
         NotBeyond(f, e, p), Later(f, q, p)
  PROVE  Ahead(f, e, q)
<1>1. PICK n \in Occurrences(e) : ~Later(f, PlaceOf(e, n), p)
  BY DEF NotBeyond
<1>2. PlaceOf(e, n) \in Positions
  BY PlaceTyped
<1>3. Later(f, q, PlaceOf(e, n))
  BY <1>1, <1>2, LaterTurns
<1>4. QED
  BY <1>3 DEF Ahead

(* What was read from each of some lines is as often there as on the lines. *)
LEMMA CountCovered ==
  ASSUME NEW S, NEW s \in Seq(S), NEW T, NEW t \in Seq(T), NEW e,
         NEW src \in [DOMAIN t -> Nat],
         \A k \in DOMAIN s : s[k] = e => \E i \in DOMAIN t : src[i] = k /\ t[i] = e
  PROVE  Count(e, s) <= Count(e, t)
<1> DEFINE B == {k \in DOMAIN s : s[k] = e}
           A == {i \in DOMAIN t : t[i] = e}
           C == {i \in A : src[i] \in B}
           g == [i \in C |-> src[i]]
<1>1. IsFiniteSet(A) /\ Count(e, t) \in Nat /\ Count(e, s) \in Nat
  BY CountTyped
<1>2. C \in SUBSET A
  OBVIOUS
<1>3. IsFiniteSet(C) /\ Cardinality(C) <= Cardinality(A)
  BY <1>1, <1>2, FS_Subset
<1>4. g \in [C -> B]
  OBVIOUS
<1>5. \A k \in B : \E i \in C : g[i] = k
  OBVIOUS
<1>6. g \in Surjection(C, B)
  BY <1>4, <1>5 DEF Surjection
<1>7. Cardinality(B) <= Cardinality(C) /\ IsFiniteSet(B)
  BY <1>3, <1>6, FS_Surjection
<1>8. Cardinality(A) \in Nat /\ Cardinality(B) \in Nat /\ Cardinality(C) \in Nat
  BY <1>1, <1>3, <1>7, FS_CardinalityType
<1>9. Cardinality(B) <= Cardinality(A)
  BY <1>3, <1>7, <1>8
<1>10. QED
  BY <1>9 DEF Count

-----------------------------------------------------------------------------
(* A page is delivered.                                                    *)

\* The rows for the next page: matching, in order, and after what is found.
Fitting(rows) ==
  /\ rows \in Seq(Nat)
  /\ \A m \in DOMAIN rows : rows[m] \in Matching(reader.filter)
  /\ \A l, m \in DOMAIN rows : l < m =>
       Later(reader.filter, Position(rows[m]), Position(rows[l]))
  /\ \A i \in DOMAIN reader.found, m \in DOMAIN rows :
       Ahead(reader.filter, reader.found[i], Position(rows[m]))

\* Each line that is due is found, or among the rows, or after a full page.
Gathered(rows, src) ==
  \A k \in DOMAIN lines : lines[k] \in DOMAIN reader.due =>
    \/ Found1(reader.found, src, k)
    \/ \E m \in DOMAIN rows : rows[m] = k
    \/ Len(rows) > PageLimit
       /\ \A m \in DOMAIN rows : Later(reader.filter, Position(k), Position(rows[m]))

LEMMA PageOfRows ==
  ASSUME TypeOK, reader \in Readers, NEW rows, Fitting(rows)
  PROVE  LET page == UpTo(rows, PageLimit) IN
         /\ page \in Seq(Nat) /\ \A m \in DOMAIN page : page[m] \in Readable
         /\ \A m \in DOMAIN page : m \in DOMAIN rows /\ m <= PageLimit /\ page[m] = rows[m]
         /\ \A m \in DOMAIN rows : m <= PageLimit => m \in DOMAIN page
         /\ Len(rows) <= PageLimit => page = rows
<1>1. PageLimit \in Nat /\ rows \in Seq(Nat)
  BY LimitAssumption DEF Fitting
<1>2. \A m \in DOMAIN rows : rows[m] \in Readable
  BY DEF Fitting, Matching
<1>3. QED
  BY <1>1, <1>2, UpToFacts

(* The list of what is found stays in order, without an event twice. *)
LEMMA PageIsInOrder ==
  ASSUME Inv, reader.step = "read", NEW rows, Fitting(rows)
  PROVE  LET f == reader.filter
             found == Found(UpTo(rows, PageLimit))
         IN /\ \A i \in DOMAIN found : Matches(f, found[i])
            /\ \A i, k \in DOMAIN found : i < k =>
                 /\ IF f.oldestFirst THEN found[i].at <= found[k].at
                                     ELSE found[i].at >= found[k].at
                 /\ found[i].legacy \/ found[i] # found[k]
<1> DEFINE f == reader.filter
           n == Len(reader.found)
           page == UpTo(rows, PageLimit)
           found == Found(page)
           Old(i) == i \in DOMAIN reader.found /\ found[i] = reader.found[i]
           New(i, m) == i = n + m /\ m \in DOMAIN rows /\ m \in DOMAIN page
                        /\ rows[m] \in Readable /\ rows[m] \in Matching(f)
                        /\ found[i] = lines[rows[m]]
<1>1. reader \in Readers /\ TypeOK /\ reader.step # "none"
  BY AtWork
<1>2. reader.found \in Seq(All) /\ n \in Nat /\ DOMAIN reader.found = 1..n
  BY <1>1, ReaderFields
<1>3. ASSUME NEW i \in DOMAIN found
      PROVE  Old(i) \/ \E m \in DOMAIN rows : New(i, m)
  <2>1. /\ page \in Seq(Nat) /\ \A m \in DOMAIN page : page[m] \in Readable
        /\ \A m \in DOMAIN page : m \in DOMAIN rows /\ page[m] = rows[m]
    BY <1>1, PageOfRows
  <2>2. \A m \in DOMAIN rows : rows[m] \in Matching(f)
    BY DEF Fitting
  <2> HIDE DEF page, f
  <2>3. i \in DOMAIN reader.found \/ \E m \in DOMAIN page : i = n + m
    BY <1>1, <2>1, FoundGrows
  <2>4. CASE i \in DOMAIN reader.found
    BY <1>1, <2>1, <2>4, FoundGrows
  <2>5. CASE \E m \in DOMAIN page : i = n + m
    <3>1. PICK m \in DOMAIN page : i = n + m
      BY <2>5
    <3>2. found[n + m] = lines[page[m]]
      BY <1>1, <2>1, FoundGrows
    <3>3. New(i, m)
      BY <2>1, <2>2, <3>1, <3>2
    <3>4. QED
      BY <2>1, <3>3
  <2>6. QED
    BY <2>3, <2>4, <2>5
<1>4. /\ \A i \in DOMAIN reader.found : Matches(f, reader.found[i])
      /\ \A i, k \in DOMAIN reader.found : i < k =>
           /\ IF f.oldestFirst THEN reader.found[i].at <= reader.found[k].at
                               ELSE reader.found[i].at >= reader.found[k].at
           /\ reader.found[i].legacy \/ reader.found[i] # reader.found[k]
  BY <1>1 DEF Inv, PagesAreOneList
<1>5. \A m \in DOMAIN rows : m \in Nat \ {0}
  BY DEF Fitting
<1> HIDE DEF found, page
<1>6. ASSUME NEW i \in DOMAIN found PROVE Matches(f, found[i])
  BY <1>3, <1>4 DEF Matching
<1>7. ASSUME NEW i \in DOMAIN found, NEW k \in DOMAIN found, i < k
      PROVE  /\ IF f.oldestFirst THEN found[i].at <= found[k].at ELSE found[i].at >= found[k].at
             /\ found[i].legacy \/ found[i] # found[k]
  <2>1. CASE Old(k)
    <3>1. Old(i)
      <4>1. \A m \in DOMAIN rows : ~New(i, m)
        <5> SUFFICES ASSUME NEW m \in DOMAIN rows, i = n + m PROVE FALSE
          OBVIOUS
        <5>1. k \in 1..n /\ m \in Nat \ {0}
          BY <1>2, <1>5, <2>1
        <5>2. QED
          BY <1>2, <1>7, <5>1
      <4>2. QED
        BY <1>3, <4>1
    <3>2. QED
      BY <1>4, <1>7, <2>1, <3>1
  <2>2. CASE \E m \in DOMAIN rows : New(k, m)
    <3>1. PICK m \in DOMAIN rows : New(k, m)
      BY <2>2
    <3>2. CASE Old(i)
      <4>1. reader.found[i] \in All /\ i \in DOMAIN reader.found
        BY <1>2, <3>2
      <4>2. Ahead(f, reader.found[i], Position(rows[m]))
        BY <4>1 DEF Fitting
      <4> HIDE DEF f
      <4>3. /\ IF f.oldestFirst THEN reader.found[i].at <= lines[rows[m]].at
                                ELSE reader.found[i].at >= lines[rows[m]].at
            /\ reader.found[i].legacy \/ reader.found[i] # lines[rows[m]]
        BY <1>1, <3>1, <4>1, <4>2, AheadFacts
      <4>4. found[i] = reader.found[i] /\ found[k] = lines[rows[m]]
        BY <3>1, <3>2
      <4>5. QED
        BY <4>3, <4>4
    <3>3. CASE \E l \in DOMAIN rows : New(i, l)
      <4>1. PICK l \in DOMAIN rows : New(i, l)
        BY <3>3
      <4>2. l < m
        <5>1. i = n + l /\ k = n + m /\ l \in Nat /\ m \in Nat
          BY <1>5, <3>1, <4>1
        <5>2. QED
          BY <1>2, <1>7, <5>1
      <4>3. Later(f, Position(rows[m]), Position(rows[l]))
        BY <4>2 DEF Fitting
      <4>4. PICK o \in Occurrences(lines[rows[l]]) :
              Position(rows[l]) = PlaceOf(lines[rows[l]], o)
        BY <1>1, <4>1, PlaceOfLine
      <4>5. Ahead(f, lines[rows[l]], Position(rows[m]))
        BY <4>3, <4>4 DEF Ahead
      <4>6. lines[rows[l]] \in All
        BY <1>1, <4>1, ReadableLines
      <4> HIDE DEF f
      <4>7. /\ IF f.oldestFirst THEN lines[rows[l]].at <= lines[rows[m]].at
                                ELSE lines[rows[l]].at >= lines[rows[m]].at
            /\ lines[rows[l]].legacy \/ lines[rows[l]] # lines[rows[m]]
        BY <1>1, <3>1, <4>5, <4>6, AheadFacts
      <4>8. found[i] = lines[rows[l]] /\ found[k] = lines[rows[m]]
        BY <3>1, <4>1
      <4>9. QED
        BY <4>7, <4>8
    <3>4. QED
      BY <1>3, <3>2, <3>3
  <2>3. QED
    BY <1>3, <2>1, <2>2
<1>8. QED
  BY <1>6, <1>7 DEF found, page

(* What a page leaves of the reader. *)
LEMMA PageFields ==
  ASSUME Inv, reader.step = "read", NEW rows, Fitting(rows), NEW inc, inc \in BOOLEAN,
         Page(rows, inc)
  PROVE  LET q == reader' IN
         /\ q \in Readers /\ q.filter = reader.filter /\ q.page = <<>> /\ q.due = reader.due
         /\ q.found = Found(UpTo(rows, PageLimit)) /\ q.incomplete = inc
         /\ IF Len(rows) > PageLimit
            THEN /\ q.step = "page" /\ q.after = Position(rows[PageLimit])
                 /\ PageLimit \in DOMAIN rows /\ rows[PageLimit] \in Readable
            ELSE q.step = "complete" /\ q.after = None
<1> DEFINE page == UpTo(rows, PageLimit)
           step == IF Len(rows) > PageLimit THEN "page" ELSE "complete"
           after == IF Len(rows) > PageLimit THEN Position(rows[PageLimit]) ELSE None
           q == [reader EXCEPT !.step = step, !.after = after, !.page = <<>>,
                               !.found = Found(page), !.incomplete = inc]
<1>1. reader' = q
  BY DEF Page, NextCursor
<1>2. reader \in Readers /\ TypeOK
  BY AtWork
<1>3. Len(rows) > PageLimit => PageLimit \in DOMAIN rows /\ rows[PageLimit] \in Readable
  <2>1. rows \in Seq(Nat) /\ PageLimit \in Nat \ {0}
    BY LimitAssumption DEF Fitting
  <2>2. Len(rows) > PageLimit => PageLimit \in DOMAIN rows
    BY <2>1
  <2>3. \A m \in DOMAIN rows : rows[m] \in Readable
    BY DEF Fitting, Matching
  <2>4. QED
    BY <2>2, <2>3
<1>4. after \in Positions \cup {None}
  BY <1>2, <1>3, PositionTyped
<1>5. Found(page) \in Seq(All)
  BY <1>2, PageOfRows, FoundGrows
<1>6. step \in {"read", "page", "complete"} /\ <<>> \in Seq(Nat)
  OBVIOUS
<1>7. /\ Len(rows) > PageLimit => step = "page" /\ after = Position(rows[PageLimit])
      /\ ~(Len(rows) > PageLimit) => step = "complete" /\ after = None
  OBVIOUS
<1> HIDE DEF page, step, after
<1>8. q \in Readers
  BY <1>2, <1>4, <1>5, <1>6 DEF Readers
<1>9. /\ q.step = step /\ q.filter = reader.filter /\ q.after = after /\ q.page = <<>>
      /\ q.found = Found(page) /\ q.incomplete = inc /\ q.due = reader.due
  BY <1>2 DEF Readers
<1> HIDE DEF q
<1>10. QED
  BY <1>1, <1>3, <1>7, <1>8, <1>9 DEF page

(* Where the found events were read, after a page. *)
LEMMA PageCovers ==
  ASSUME Inv, reader.step = "read", NEW rows, Fitting(rows),
         NEW src \in [DOMAIN reader.found -> Nat], Gathered(rows, src)
  PROVE  LET found == Found(UpTo(rows, PageLimit)) IN
         \E more \in [DOMAIN found -> Nat] :
           \A k \in DOMAIN lines : lines[k] \in DOMAIN reader.due =>
             \/ Found1(found, more, k)
             \/ Len(rows) > PageLimit /\ Later(reader.filter, Position(k), Position(rows[PageLimit]))
<1> DEFINE n == Len(reader.found)
           page == UpTo(rows, PageLimit)
           found == Found(page)
           from == [i \in DOMAIN found |-> IF i \in DOMAIN reader.found THEN src[i]
                                           ELSE page[i - n]]
<1>1. reader \in Readers /\ TypeOK /\ reader.found \in Seq(All) /\ n \in Nat
      /\ DOMAIN reader.found = 1..n
  BY AtWork, ReaderFields
<1>2. /\ page \in Seq(Nat) /\ \A m \in DOMAIN page : page[m] \in Readable
      /\ \A m \in DOMAIN page : m \in DOMAIN rows /\ m <= PageLimit /\ page[m] = rows[m]
      /\ \A m \in DOMAIN rows : m <= PageLimit => m \in DOMAIN page
      /\ Len(rows) <= PageLimit => page = rows
  BY <1>1, PageOfRows
<1> HIDE DEF page
<1>3. /\ \A i \in DOMAIN reader.found : i \in DOMAIN found /\ found[i] = reader.found[i]
      /\ \A m \in DOMAIN page : n + m \in DOMAIN found /\ found[n + m] = lines[page[m]]
      /\ \A i \in DOMAIN found : i \in DOMAIN reader.found \/ \E m \in DOMAIN page : i = n + m
  BY <1>1, <1>2, FoundGrows
<1> HIDE DEF found
<1>4. \A m \in DOMAIN page : m \in Nat \ {0} /\ (n + m) - n = m /\ n + m \notin DOMAIN reader.found
  BY <1>1, <1>2
<1>5. from \in [DOMAIN found -> Nat]
  <2>1. ASSUME NEW i \in DOMAIN found
        PROVE  (IF i \in DOMAIN reader.found THEN src[i] ELSE page[i - n]) \in Nat
    <3>1. CASE i \in DOMAIN reader.found
      BY <3>1
    <3>2. CASE i \notin DOMAIN reader.found
      <4>1. PICK m \in DOMAIN page : i = n + m
        BY <1>3, <3>2
      <4>2. page[i - n] = page[m] /\ page[m] \in Nat
        BY <1>2, <1>4, <4>1
      <4>3. QED
        BY <3>2, <4>2
    <3>3. QED
      BY <3>1, <3>2
  <2>2. QED
    BY <2>1
<1>6. \A i \in DOMAIN reader.found : from[i] = src[i]
  BY <1>3
<1>7. \A m \in DOMAIN page : from[n + m] = page[m]
  BY <1>3, <1>4
<1> HIDE DEF from
<1>8. ASSUME NEW k \in DOMAIN lines, lines[k] \in DOMAIN reader.due
      PROVE  \/ Found1(found, from, k)
             \/ Len(rows) > PageLimit /\ Later(reader.filter, Position(k), Position(rows[PageLimit]))
  <2>1. CASE Found1(reader.found, src, k)
    BY <1>3, <1>6, <2>1 DEF Found1
  <2>2. CASE \E m \in DOMAIN page : page[m] = k
    BY <1>3, <1>7, <2>2 DEF Found1
  <2>3. CASE \E m \in DOMAIN rows : rows[m] = k /\ m \notin DOMAIN page
    <3>1. PICK m \in DOMAIN rows : rows[m] = k /\ m \notin DOMAIN page
      BY <2>3
    <3>2. rows \in Seq(Nat) /\ PageLimit \in Nat \ {0}
      BY LimitAssumption DEF Fitting
    <3>3. ~(m <= PageLimit)
      BY <1>2, <3>1
    <3>4. Len(rows) > PageLimit /\ PageLimit \in DOMAIN rows /\ PageLimit < m
      BY <3>2, <3>3
    <3>5. QED
      BY <3>1, <3>4 DEF Fitting
  <2>4. CASE /\ Len(rows) > PageLimit
             /\ \A m \in DOMAIN rows : Later(reader.filter, Position(k), Position(rows[m]))
    <3>1. rows \in Seq(Nat) /\ PageLimit \in Nat \ {0}
      BY LimitAssumption DEF Fitting
    <3>2. PageLimit \in DOMAIN rows
      BY <2>4, <3>1
    <3>3. QED
      BY <2>4, <3>2
  <2>5. CASE \E m \in DOMAIN rows : rows[m] = k
    <3>1. PICK m \in DOMAIN rows : rows[m] = k
      BY <2>5
    <3>2. m \in DOMAIN page => page[m] = k
      BY <1>2, <3>1
    <3>3. QED
      BY <2>2, <2>3, <3>1, <3>2
  <2>6. QED
    BY <1>8, <2>1, <2>4, <2>5 DEF Gathered
<1>9. QED
  BY <1>5, <1>8 DEF found, page

LEMMA PageKeeps ==
  ASSUME Inv, reader.step = "read", NEW rows, Fitting(rows), NEW inc, inc \in BOOLEAN,
         Page(rows, inc), StoreSame, ~inc => Intact,
         Intact => \E src \in [DOMAIN reader.found -> Nat] : Gathered(rows, src)
  PROVE  Inv'
<1> DEFINE q == reader'
           f == reader.filter
           n == Len(reader.found)
           page == UpTo(rows, PageLimit)
<1>1. reader \in Readers /\ TypeOK /\ ReaderOK(reader) /\ reader.step # "none"
  BY AtWork
<1>2. /\ q \in Readers /\ q.filter = f /\ q.page = <<>> /\ q.due = reader.due
      /\ q.found = Found(page) /\ q.incomplete = inc
  BY PageFields
<1>3. IF Len(rows) > PageLimit
      THEN /\ q.step = "page" /\ q.after = Position(rows[PageLimit])
           /\ PageLimit \in DOMAIN rows /\ rows[PageLimit] \in Readable
      ELSE q.step = "complete" /\ q.after = None
  BY PageFields
<1>4. /\ page \in Seq(Nat) /\ \A m \in DOMAIN page : page[m] \in Readable
      /\ \A m \in DOMAIN page : m \in DOMAIN rows /\ m <= PageLimit /\ page[m] = rows[m]
  BY <1>1, PageOfRows
<1>5. DOMAIN q.page = {} /\ Len(q.page) = 0
  BY <1>2
<1>6. \A k \in Readable : Position(k) \in Positions /\ Position(k) # None
  BY <1>1, PositionTyped, ValueAssumption
<1>7. ASSUME Len(rows) > PageLimit, NEW i \in DOMAIN q.found
      PROVE  NotBeyond(f, q.found[i], q.after)
  <2> HIDE DEF page, q
  <2>1. i \in DOMAIN reader.found \/ \E m \in DOMAIN page : i = n + m
    BY <1>1, <1>2, <1>4, FoundGrows
  <2>2. q.after = Position(rows[PageLimit]) /\ PageLimit \in DOMAIN rows
        /\ rows[PageLimit] \in Readable
    BY <1>3, <1>7
  <2>3. CASE i \in DOMAIN reader.found
    <3>1. q.found[i] = reader.found[i]
      BY <1>1, <1>2, <1>4, <2>3, FoundGrows
    <3>2. Ahead(f, reader.found[i], Position(rows[PageLimit]))
      BY <2>2, <2>3 DEF Fitting
    <3>3. reader.found[i] \in All
      BY <1>1, <2>3, ReaderFields
    <3> HIDE DEF f
    <3>4. QED
      BY <1>1, <2>2, <3>1, <3>2, <3>3, AheadFacts
  <2>4. CASE \E m \in DOMAIN page : i = n + m
    <3>1. PICK m \in DOMAIN page : i = n + m
      BY <2>4
    <3>2. q.found[n + m] = lines[page[m]]
      BY <1>1, <1>2, <1>4, FoundGrows
    <3>3. m \in DOMAIN rows /\ m <= PageLimit /\ page[m] = rows[m] /\ rows[m] \in Readable
      BY <1>4
    <3>4. ~Later(f, Position(rows[m]), Position(rows[PageLimit]))
      <4>1. m = PageLimit \/ m < PageLimit
        <5>1. m \in Nat /\ PageLimit \in Nat
          BY <3>3, LimitAssumption DEF Fitting
        <5>2. QED
          BY <5>1, <3>3
      <4>2. CASE m = PageLimit
        BY <1>6, <3>3, <4>2, LaterIsOrder
      <4>3. CASE m < PageLimit
        <5>1. Later(f, Position(rows[PageLimit]), Position(rows[m]))
          BY <2>2, <3>3, <4>3 DEF Fitting
        <5>2. QED
          BY <1>6, <2>2, <3>3, <5>1, LaterTurns
      <4>4. QED
        BY <4>1, <4>2, <4>3
    <3>5. PICK o \in Occurrences(lines[rows[m]]) : Position(rows[m]) = PlaceOf(lines[rows[m]], o)
      BY <1>1, <3>3, PlaceOfLine
    <3>6. QED
      BY <2>2, <3>1, <3>2, <3>3, <3>4, <3>5 DEF NotBeyond
  <2>5. QED
    BY <2>1, <2>3, <2>4
<1> HIDE DEF q
<1>8. Standing(q)
  <2>1. Len(q.page) <= PageLimit
    BY <1>5, LimitAssumption
  <2>2. q.after # None => Len(rows) > PageLimit
    BY <1>3
  <2>3. q.step = "page" => q.after # None
    BY <1>3, <1>6
  <2>4. q.step # "read"
    BY <1>3
  <2>5. QED
    BY <1>2, <1>7, <2>1, <2>2, <2>3, <2>4 DEF Standing
<1>9. OnPage(q)
  BY <1>5 DEF OnPage
<1>10. DueIsStored(q)
  BY <1>1, <1>2 DEF ReaderOK, DueIsStored
<1>11. Intact => \E more \in [DOMAIN q.found -> Nat] :
         \A k \in DOMAIN lines : lines[k] \in DOMAIN q.due =>
           \/ Found1(q.found, more, k)
           \/ Len(rows) > PageLimit /\ Later(f, Position(k), Position(rows[PageLimit]))
  BY <1>2, PageCovers
<1>12. NothingPassed(q)
  <2> SUFFICES ASSUME Intact, q.step # "complete"
               PROVE  \E src \in [DOMAIN q.found -> Nat] : Passed(q, src)
    BY DEF NothingPassed
  <2>1. q.after = Position(rows[PageLimit])
    BY <1>3
  <2>2. QED
    BY <1>2, <1>11, <2>1 DEF Passed
<1>13. NothingLostInSilence'
  <2> SUFFICES ASSUME q.step = "complete", ~q.incomplete, NEW e \in DOMAIN q.due
               PROVE  Count(e, q.found) >= q.due[e]
    BY DEF NothingLostInSilence, q, Count
  <2>1. Intact /\ ~(Len(rows) > PageLimit)
    BY <1>2, <1>3
  <2>2. PICK more \in [DOMAIN q.found -> Nat] :
          \A k \in DOMAIN lines : lines[k] \in DOMAIN q.due => Found1(q.found, more, k)
    BY <1>11, <2>1
  <2>3. \A k \in DOMAIN lines : lines[k] = e =>
          \E i \in DOMAIN q.found : more[i] = k /\ q.found[i] = e
    BY <2>2 DEF Found1
  <2>4. lines \in Seq(All \cup {Damaged}) /\ q.found \in Seq(All)
    BY <1>1, <1>2, ReaderFields DEF TypeOK
  <2>5. Count(e, lines) <= Count(e, q.found)
    BY <2>3, <2>4, CountCovered
  <2>6. Count(e, lines) \in Nat /\ Count(e, q.found) \in Nat
    BY <2>4, CountTyped
  <2>7. q.due[e] <= Count(e, lines) /\ q.due[e] \in Nat
    <3>1. q.due \in UNION {[S -> Nat] : S \in SUBSET All}
      BY <1>2, ReaderFields
    <3>2. QED
      BY <1>10, <2>1, <3>1 DEF DueIsStored
  <2>8. QED
    BY <2>5, <2>6, <2>7
<1>14. PagesAreOneList'
  <2>1. reader'.filter = f /\ reader'.found = Found(page)
    BY <1>2 DEF q
  <2>2. /\ \A i \in DOMAIN Found(page) : Matches(f, Found(page)[i])
        /\ \A i, k \in DOMAIN Found(page) : i < k =>
             /\ IF f.oldestFirst THEN Found(page)[i].at <= Found(page)[k].at
                                 ELSE Found(page)[i].at >= Found(page)[k].at
             /\ Found(page)[i].legacy \/ Found(page)[i] # Found(page)[k]
    BY PageIsInOrder
  <2>3. QED
    BY <2>1, <2>2 DEF PagesAreOneList, Matches
<1>15. QED
  BY <1>2, <1>8, <1>9, <1>10, <1>12, <1>13, <1>14, ReadingKeeps DEF q, ReaderOK

-----------------------------------------------------------------------------
(* The rows after a cursor, in order.                                      *)

LEMMA PositionsTyped ==
  ASSUME TypeOK
  PROVE  \A k \in Readable : /\ Position(k) \in Positions /\ Position(k) # None
                             /\ k \in DOMAIN lines /\ k \in Nat /\ lines[k] \in All
BY PositionTyped, ReadableLines, ValueAssumption

LEMMA OrderedRows ==
  ASSUME TypeOK, WrittenOnce, NEW ks, ks \subseteq Readable
  PROVE  /\ InOrder(ks) \in Seq(Nat)
         /\ \A m \in DOMAIN InOrder(ks) : InOrder(ks)[m] \in ks
         /\ \A k \in ks : \E m \in DOMAIN InOrder(ks) : InOrder(ks)[m] = k
         /\ \A l, m \in DOMAIN InOrder(ks) : l < m =>
              Later(reader.filter, Position(InOrder(ks)[m]), Position(InOrder(ks)[l]))
<1> DEFINE s == InOrder(ks)
<1>1. /\ s \in Seq(ks)
      /\ \A k \in ks : \E m \in DOMAIN s : s[m] = k
      /\ \A l, m \in DOMAIN s : l < m => Precedes(s[l], s[m])
  BY InOrderSorts
<1> HIDE DEF s
<1>2. \A m \in DOMAIN s : s[m] \in ks
  BY <1>1
<1>3. ks \subseteq Nat
  BY PositionsTyped
<1>4. s \in Seq(Nat)
  <2>1. DOMAIN s = 1..Len(s) /\ Len(s) \in Nat /\ s = [m \in 1..Len(s) |-> s[m]]
    BY <1>1
  <2>2. \A m \in 1..Len(s) : s[m] \in Nat
    BY <1>2, <1>3, <2>1
  <2>3. s \in [1..Len(s) -> Nat]
    BY <2>1, <2>2, Zenon
  <2>4. QED
    BY <2>1, <2>3
<1>5. ASSUME NEW l \in DOMAIN s, NEW m \in DOMAIN s, l < m
      PROVE  Later(reader.filter, Position(s[m]), Position(s[l]))
  <2>1. Precedes(s[l], s[m]) /\ s[l] \in Readable /\ s[m] \in Readable
    BY <1>1, <1>2, <1>5
  <2>2. s[l] = s[m] => Precedes(s[l], s[l])
    BY <2>1
  <2>3. s[l] # s[m]
    BY <2>1, <2>2, PrecedesIsOrder
  <2>4. Position(s[l]) # Position(s[m])
    BY <2>1, <2>3, PositionsDiffer
  <2>5. QED
    BY <2>1, <2>4 DEF Precedes
<1>6. QED
  BY <1>1, <1>2, <1>4, <1>5 DEF s

LEMMA RowsFacts ==
  ASSUME TypeOK, WrittenOnce, NEW ks, ks \subseteq Readable, NEW after
  PROVE  LET rows == Rows(ks, after) IN
         /\ rows \in Seq(Nat)
         /\ \A m \in DOMAIN rows : rows[m] \in ks /\ Beyond(Position(rows[m]), after)
         /\ \A k \in ks : Beyond(Position(k), after) => \E m \in DOMAIN rows : rows[m] = k
         /\ \A l, m \in DOMAIN rows : l < m =>
              Later(reader.filter, Position(rows[m]), Position(rows[l]))
<1> DEFINE C == {k \in ks : Beyond(Position(k), after)}
<1>1. C \subseteq Readable
  OBVIOUS
<1>2. Rows(ks, after) = InOrder(C)
  BY DEF Rows
<1>3. \A k : k \in C <=> k \in ks /\ Beyond(Position(k), after)
  OBVIOUS
<1> HIDE DEF C
<1>4. QED
  BY <1>1, <1>2, <1>3, OrderedRows

(* What is found stands ahead of every line that is beyond the cursor. *)
LEMMA FoundIsAhead ==
  ASSUME Inv, reader.step = "read", NEW i \in DOMAIN reader.found, NEW k \in Readable,
         Beyond(Position(k), reader.after)
  PROVE  Ahead(reader.filter, reader.found[i], Position(k))
<1>1. reader \in Readers /\ TypeOK /\ ReaderOK(reader)
  BY AtWork
<1>2. reader.after # None
  <2>1. reader.found # <<>>
    OBVIOUS
  <2>2. QED
    BY <1>1, <2>1 DEF ReaderOK, Standing
<1>3. reader.after \in Positions /\ reader.found[i] \in All
  BY <1>1, <1>2, ReaderFields
<1>4. NotBeyond(reader.filter, reader.found[i], reader.after)
  BY <1>1, <1>2 DEF ReaderOK, Standing
<1>5. Later(reader.filter, Position(k), reader.after)
  BY <1>2 DEF Beyond
<1>6. Position(k) \in Positions
  BY <1>1, PositionsTyped
<1>7. QED
  BY <1>3, <1>4, <1>5, <1>6, BeyondIsAhead

(* A line that is due matches, and can be read. *)
LEMMA DueMatches ==
  ASSUME Inv, reader.step # "none", NEW k \in DOMAIN lines, lines[k] \in DOMAIN reader.due
  PROVE  k \in Matching(reader.filter)
<1>1. reader \in Readers /\ ReaderOK(reader)
  BY AtWork
<1>2. PICK S \in SUBSET All : reader.due \in [S -> Nat]
  BY <1>1, ReaderFields
<1>3. lines[k] \in All
  BY <1>2
<1>4. lines[k] # Damaged
  BY <1>3, ValueAssumption
<1>5. Matches(reader.filter, lines[k])
  BY <1>1 DEF ReaderOK, DueIsStored
<1>6. QED
  BY <1>4, <1>5 DEF Matching, Readable

LEMMA ReadLogKeeps ==
  ASSUME Inv, ReadLog
  PROVE  Inv'
<1> DEFINE f == reader.filter
           ks == Matching(f)
           rows == Rows(ks, reader.after)
           inc == LogDamaged
<1>1. store = "log" /\ reader.step = "read" /\ StoreSame /\ Page(rows, inc)
  BY DEF ReadLog, Reading, StoreSame
<1>2. reader \in Readers /\ TypeOK /\ WrittenOnce /\ ReaderOK(reader)
  BY <1>1, AtWork
<1>3. ks \subseteq Readable
  BY DEF Matching
<1> HIDE DEF ks
<1>4. /\ rows \in Seq(Nat)
      /\ \A m \in DOMAIN rows : rows[m] \in ks /\ Beyond(Position(rows[m]), reader.after)
      /\ \A k \in ks : Beyond(Position(k), reader.after) => \E m \in DOMAIN rows : rows[m] = k
      /\ \A l, m \in DOMAIN rows : l < m => Later(f, Position(rows[m]), Position(rows[l]))
  BY <1>2, <1>3, RowsFacts
<1> HIDE DEF rows
<1>5. Fitting(rows)
  <2>1. ASSUME NEW i \in DOMAIN reader.found, NEW m \in DOMAIN rows
        PROVE  Ahead(f, reader.found[i], Position(rows[m]))
    BY <1>1, <1>3, <1>4, FoundIsAhead
  <2>2. QED
    BY <1>4, <2>1 DEF Fitting, ks
<1>6. ASSUME Intact PROVE \E src \in [DOMAIN reader.found -> Nat] : Gathered(rows, src)
  <2>1. PICK src \in [DOMAIN reader.found -> Nat] : Passed(reader, src)
    BY <1>1, <1>2, <1>6 DEF ReaderOK, NothingPassed
  <2>2. reader.page = <<>>
    BY <1>1, <1>2 DEF ReaderOK, Standing
  <2>3. ASSUME NEW k \in DOMAIN lines, lines[k] \in DOMAIN reader.due
        PROVE  Found1(reader.found, src, k) \/ \E m \in DOMAIN rows : rows[m] = k
    <3>1. Found1(reader.found, src, k) \/ Beyond(Position(k), reader.after)
      BY <2>1, <2>2, <2>3 DEF Passed, Beyond
    <3>2. k \in ks
      BY <1>1, <2>3, DueMatches DEF ks
    <3>3. QED
      BY <1>4, <3>1, <3>2
  <2>4. QED
    BY <2>3 DEF Gathered
<1>7. inc \in BOOLEAN /\ (~inc => Intact)
  BY DEF LogDamaged, Intact
<1> HIDE DEF inc
<1>8. QED
  BY <1>1, <1>5, <1>6, <1>7, PageKeeps

-----------------------------------------------------------------------------
(* One query of the table.                                                 *)

\* The rows, what one query answers of them, and the page that it fills.
Queried(rows, chunk, fits) ==
  /\ rows = Rows(Partition(reader.filter), reader.after)
  /\ chunk = UpTo(rows, Chunk)
  /\ fits = reader.page \o
       InOrder({k \in ToSet(chunk) : Matches(reader.filter, lines[k])})

(* What matches is in the partition that is asked for. *)
LEMMA PartitionHolds ==
  ASSUME NEW f
  PROVE  Matching(f) \subseteq Partition(f) /\ Partition(f) \subseteq Readable
BY DEF Matching, Partition, Matches

LEMMA TableRows ==
  ASSUME Inv, reader.step = "read", NEW rows, NEW chunk, NEW fits, Queried(rows, chunk, fits)
  PROVE  /\ rows \in Seq(Nat) /\ chunk \in Seq(Nat)
         /\ \A m \in DOMAIN rows : rows[m] \in Readable /\ Beyond(Position(rows[m]), reader.after)
         /\ \A k \in Matching(reader.filter) : Beyond(Position(k), reader.after) =>
              \E m \in DOMAIN rows : rows[m] = k
         /\ \A l, m \in DOMAIN rows : l < m =>
              Later(reader.filter, Position(rows[m]), Position(rows[l]))
         /\ \A m \in DOMAIN chunk : m \in DOMAIN rows /\ m <= Chunk /\ chunk[m] = rows[m]
         /\ \A m \in DOMAIN rows : m \notin DOMAIN chunk => m > Chunk
         /\ Len(rows) > Chunk => /\ Chunk \in DOMAIN rows /\ Chunk \in DOMAIN chunk
                                 /\ Last(chunk) = rows[Chunk]
<1> DEFINE ks == Partition(reader.filter)
<1>1. TypeOK /\ WrittenOnce
  BY AtWork
<1>2. ks \subseteq Readable /\ Matching(reader.filter) \subseteq ks
  BY PartitionHolds
<1>3. rows = Rows(ks, reader.after) /\ chunk = UpTo(rows, Chunk)
  BY DEF Queried
<1> HIDE DEF ks
<1>4. /\ rows \in Seq(Nat)
      /\ \A m \in DOMAIN rows : rows[m] \in ks /\ Beyond(Position(rows[m]), reader.after)
      /\ \A k \in ks : Beyond(Position(k), reader.after) => \E m \in DOMAIN rows : rows[m] = k
      /\ \A l, m \in DOMAIN rows : l < m =>
           Later(reader.filter, Position(rows[m]), Position(rows[l]))
  <2> DEFINE R == Rows(ks, reader.after)
  <2>1. /\ R \in Seq(Nat)
        /\ \A m \in DOMAIN R : R[m] \in ks /\ Beyond(Position(R[m]), reader.after)
        /\ \A k \in ks : Beyond(Position(k), reader.after) => \E m \in DOMAIN R : R[m] = k
        /\ \A l, m \in DOMAIN R : l < m =>
             Later(reader.filter, Position(R[m]), Position(R[l]))
    BY <1>1, <1>2, RowsFacts, Zenon
  <2>2. rows = R
    BY <1>3
  <2> HIDE DEF R
  <2>3. QED
    BY <2>1, <2>2, Zenon
<1>5. Chunk \in Nat \ {0} /\ Chunk \in Nat
  BY LimitAssumption
<1>6. /\ chunk \in Seq(Nat)
      /\ \A m \in DOMAIN chunk : m \in DOMAIN rows /\ m <= Chunk /\ chunk[m] = rows[m]
      /\ \A m \in DOMAIN rows : m <= Chunk => m \in DOMAIN chunk
      /\ Len(rows) > Chunk => Len(chunk) = Chunk
  <2> DEFINE c == UpTo(rows, Chunk)
  <2>1. /\ c \in Seq(Nat)
        /\ \A m \in DOMAIN c : m \in DOMAIN rows /\ m <= Chunk /\ c[m] = rows[m]
        /\ \A m \in DOMAIN rows : m <= Chunk => m \in DOMAIN c
        /\ Len(rows) > Chunk => Len(c) = Chunk
    BY <1>4, <1>5, UpToFacts
  <2>2. chunk = c
    BY <1>3
  <2> HIDE DEF c
  <2>3. QED
    BY <2>1, <2>2
<1>7. \A m \in DOMAIN rows : m \notin DOMAIN chunk => m > Chunk
  BY <1>4, <1>5, <1>6
<1>8. ASSUME Len(rows) > Chunk
      PROVE  Chunk \in DOMAIN rows /\ Chunk \in DOMAIN chunk /\ Last(chunk) = rows[Chunk]
  <2>1. Chunk \in DOMAIN chunk /\ Last(chunk) = chunk[Chunk]
    BY <1>5, <1>6, <1>8 DEF Last
  <2>2. QED
    BY <1>6, <2>1
<1>9. QED
  BY <1>2, <1>4, <1>6, <1>7, <1>8

(* The page so far, then what matches of the chunk. *)
LEMMA TableFits ==
  ASSUME Inv, reader.step = "read", NEW rows, NEW chunk, NEW fits, Queried(rows, chunk, fits)
  PROVE  LET n == Len(reader.page) IN
         /\ n \in Nat /\ DOMAIN reader.page = 1..n /\ fits \in Seq(Nat)
         /\ \A m \in DOMAIN reader.page : m \in DOMAIN fits /\ fits[m] = reader.page[m]
         /\ \A m \in DOMAIN fits : m \notin DOMAIN reader.page =>
              /\ \E l \in DOMAIN chunk : fits[m] = chunk[l]
              /\ fits[m] \in Matching(reader.filter)
              /\ m > n
         /\ \A l \in DOMAIN chunk : chunk[l] \in Matching(reader.filter) =>
              \E m \in DOMAIN fits : fits[m] = chunk[l]
         /\ \A l, m \in DOMAIN fits :
              l < m /\ l \notin DOMAIN reader.page /\ m \notin DOMAIN reader.page =>
              Later(reader.filter, Position(fits[m]), Position(fits[l]))
<1> DEFINE page == reader.page
           n == Len(page)
           C == {k \in ToSet(chunk) : Matches(reader.filter, lines[k])}
           s == InOrder(C)
<1>1. TypeOK /\ WrittenOnce /\ reader \in Readers
  BY AtWork
<1>2. /\ chunk \in Seq(Nat)
      /\ \A m \in DOMAIN chunk : m \in DOMAIN rows /\ chunk[m] = rows[m]
      /\ \A m \in DOMAIN rows : rows[m] \in Readable
  BY TableRows
<1>3. \A k : k \in C => /\ k \in Readable /\ k \in Matching(reader.filter)
                        /\ \E l \in DOMAIN chunk : k = chunk[l]
  BY <1>2 DEF ToSet, Matching
<1>4. \A l \in DOMAIN chunk : chunk[l] \in Matching(reader.filter) => chunk[l] \in C
  BY <1>2 DEF ToSet, Matching
<1>5. fits = page \o s
  BY DEF Queried
<1> HIDE DEF C
<1>6. /\ s \in Seq(Nat)
      /\ \A m \in DOMAIN s : s[m] \in C
      /\ \A k \in C : \E m \in DOMAIN s : s[m] = k
      /\ \A l, m \in DOMAIN s : l < m =>
           Later(reader.filter, Position(s[m]), Position(s[l]))
  BY <1>1, <1>3, OrderedRows
<1>7. page \in Seq(Nat) /\ n \in Nat /\ DOMAIN page = 1..n
  BY <1>1, ReaderFields
<1> HIDE DEF s, page
<1>8. /\ fits \in Seq(Nat)
      /\ \A m \in DOMAIN page : m \in DOMAIN fits /\ fits[m] = page[m]
      /\ \A m \in DOMAIN s : n + m \in DOMAIN fits /\ fits[n + m] = s[m]
  BY <1>5, <1>6, <1>7
<1>9. ASSUME NEW m \in DOMAIN fits, m \notin DOMAIN page
      PROVE  m > n /\ m - n \in DOMAIN s /\ fits[m] = s[m - n]
  BY <1>5, <1>6, <1>7, <1>9
<1>10. \A l \in DOMAIN chunk : chunk[l] \in Matching(reader.filter) =>
         \E m \in DOMAIN fits : fits[m] = chunk[l]
  BY <1>4, <1>6, <1>8
<1>11. ASSUME NEW l \in DOMAIN fits, NEW m \in DOMAIN fits, l < m,
              l \notin DOMAIN page, m \notin DOMAIN page
       PROVE  Later(reader.filter, Position(fits[m]), Position(fits[l]))
  <2>1. /\ m - n \in DOMAIN s /\ fits[m] = s[m - n]
        /\ l - n \in DOMAIN s /\ fits[l] = s[l - n]
    BY <1>9, <1>11
  <2>2. l \in Nat /\ m \in Nat
    BY <1>8
  <2>3. l - n < m - n
    BY <1>7, <1>11, <2>2
  <2>4. QED
    BY <1>6, <2>1, <2>3
<1>12. \A m \in DOMAIN fits : m \notin DOMAIN page =>
         /\ \E l \in DOMAIN chunk : fits[m] = chunk[l]
         /\ fits[m] \in Matching(reader.filter)
         /\ m > n
  BY <1>3, <1>6, <1>9
<1>13. QED
  BY <1>7, <1>8, <1>10, <1>11, <1>12 DEF page

(* The cursor of the reader, where the page ends, and the rows after it. *)
LEMMA RowsAfterPage ==
  ASSUME Inv, reader.step = "read", NEW m \in DOMAIN reader.page, NEW k \in Readable,
         Beyond(Position(k), reader.after)
  PROVE  /\ Later(reader.filter, Position(k), Position(reader.page[m]))
         /\ reader.page[m] \in Readable /\ reader.after \in Positions
         /\ Later(reader.filter, Position(k), reader.after)
         /\ ~Later(reader.filter, Position(reader.page[m]), reader.after)
<1>1. reader \in Readers /\ TypeOK /\ ReaderOK(reader)
  BY AtWork
<1>2. reader.page # <<>>
  OBVIOUS
<1>3. reader.after # None
  BY <1>1, <1>2 DEF ReaderOK, Standing
<1>4. reader.after \in Positions
  BY <1>1, <1>3, ReaderFields
<1>5. Later(reader.filter, Position(k), reader.after)
  BY <1>3 DEF Beyond
<1>6. ~Later(reader.filter, Position(reader.page[m]), reader.after)
  BY <1>1 DEF ReaderOK, OnPage
<1>7. reader.page[m] \in Readable
  BY <1>1 DEF ReaderOK, OnPage, Matching
<1>8. Position(k) \in Positions /\ Position(reader.page[m]) \in Positions
  BY <1>1, <1>7, PositionsTyped
<1>9. Later(reader.filter, Position(k), Position(reader.page[m]))
  BY <1>4, <1>5, <1>6, <1>8, LaterTurns
<1>10. QED
  BY <1>4, <1>5, <1>6, <1>7, <1>9

LEMMA TableFitting ==
  ASSUME Inv, reader.step = "read", NEW rows, NEW chunk, NEW fits, Queried(rows, chunk, fits)
  PROVE  Fitting(fits)
<1> DEFINE f == reader.filter
           page == reader.page
           New(m) == /\ m \notin DOMAIN page /\ fits[m] \in Readable
                     /\ Beyond(Position(fits[m]), reader.after)
           Old(m) == m \in DOMAIN page /\ fits[m] = page[m]
<1>1. reader \in Readers /\ TypeOK /\ ReaderOK(reader)
  BY AtWork
<1>2. /\ \A m \in DOMAIN rows : rows[m] \in Readable /\ Beyond(Position(rows[m]), reader.after)
      /\ \A m \in DOMAIN chunk : m \in DOMAIN rows /\ chunk[m] = rows[m]
  BY TableRows
<1>3. /\ Len(page) \in Nat /\ DOMAIN page = 1..Len(page) /\ fits \in Seq(Nat)
      /\ \A m \in DOMAIN page : m \in DOMAIN fits /\ fits[m] = page[m]
      /\ \A m \in DOMAIN fits : m \notin DOMAIN page =>
           /\ \E l \in DOMAIN chunk : fits[m] = chunk[l]
           /\ fits[m] \in Matching(f)
           /\ m > Len(page)
      /\ \A l, m \in DOMAIN fits : l < m /\ l \notin DOMAIN page /\ m \notin DOMAIN page =>
           Later(f, Position(fits[m]), Position(fits[l]))
  BY TableFits
<1>4. /\ \A m \in DOMAIN page : page[m] \in Matching(f)
      /\ \A l, m \in DOMAIN page : l < m => Later(f, Position(page[m]), Position(page[l]))
      /\ \A i \in DOMAIN reader.found, m \in DOMAIN page :
           Ahead(f, reader.found[i], Position(page[m]))
  BY <1>1 DEF ReaderOK, OnPage
<1>5. \A m \in DOMAIN fits : Old(m) \/ New(m)
  BY <1>2, <1>3
<1>6. \A m \in DOMAIN fits : fits[m] \in Matching(f)
  BY <1>3, <1>4
<1>7. ASSUME NEW l \in DOMAIN fits, NEW m \in DOMAIN fits, l < m
      PROVE  Later(f, Position(fits[m]), Position(fits[l]))
  <2>1. CASE Old(l) /\ Old(m)
    BY <1>4, <1>7, <2>1
  <2>2. CASE Old(l) /\ New(m)
    BY <2>2, RowsAfterPage
  <2>3. CASE New(l) /\ New(m)
    BY <1>3, <1>7, <2>3
  <2>4. CASE New(l) /\ Old(m)
    <3>1. l > Len(page) /\ m <= Len(page)
      BY <1>3, <2>4
    <3>2. l \in Nat /\ m \in Nat
      BY <1>3
    <3>3. QED
      BY <1>3, <1>7, <3>1, <3>2
  <2>5. QED
    BY <1>5, <2>1, <2>2, <2>3, <2>4
<1>8. ASSUME NEW i \in DOMAIN reader.found, NEW m \in DOMAIN fits
      PROVE  Ahead(f, reader.found[i], Position(fits[m]))
  <2>1. CASE Old(m)
    BY <1>4, <2>1
  <2>2. CASE New(m)
    BY <2>2, FoundIsAhead
  <2>3. QED
    BY <1>5, <2>1, <2>2
<1>9. QED
  BY <1>3, <1>6, <1>7, <1>8 DEF Fitting

(* Each line that is due was found, or is on the page, or is a later row. *)
LEMMA TableGathers ==
  ASSUME Inv, reader.step = "read", NEW rows, NEW chunk, NEW fits, Queried(rows, chunk, fits),
         NEW src, Passed(reader, src),
         NEW k \in DOMAIN lines, lines[k] \in DOMAIN reader.due
  PROVE  \/ Found1(reader.found, src, k)
         \/ \E m \in DOMAIN fits : fits[m] = k
         \/ /\ \E l \in DOMAIN rows : rows[l] = k /\ l > Chunk
            /\ \A m \in DOMAIN fits : Later(reader.filter, Position(k), Position(fits[m]))
<1> DEFINE f == reader.filter
           page == reader.page
<1>1. /\ rows \in Seq(Nat)
      /\ \A m \in DOMAIN rows : rows[m] \in Readable /\ Beyond(Position(rows[m]), reader.after)
      /\ \A i \in Matching(f) : Beyond(Position(i), reader.after) =>
           \E m \in DOMAIN rows : rows[m] = i
      /\ \A l, m \in DOMAIN rows : l < m => Later(f, Position(rows[m]), Position(rows[l]))
      /\ \A m \in DOMAIN chunk : m \in DOMAIN rows /\ m <= Chunk /\ chunk[m] = rows[m]
      /\ \A m \in DOMAIN rows : m \notin DOMAIN chunk => m > Chunk
  BY TableRows
<1>2. /\ \A m \in DOMAIN page : m \in DOMAIN fits /\ fits[m] = page[m]
      /\ \A m \in DOMAIN fits : m \notin DOMAIN page => \E l \in DOMAIN chunk : fits[m] = chunk[l]
      /\ \A l \in DOMAIN chunk : chunk[l] \in Matching(f) => \E m \in DOMAIN fits : fits[m] = chunk[l]
  BY TableFits
<1>3. k \in Matching(f)
  BY DueMatches
<1>4. \/ Found1(reader.found, src, k)
      \/ \E m \in DOMAIN page : page[m] = k
      \/ Beyond(Position(k), reader.after)
  BY DEF Passed, Beyond
<1>5. CASE \E m \in DOMAIN page : page[m] = k
  BY <1>2, <1>5
<1>6. CASE Beyond(Position(k), reader.after)
  <2>1. PICK l \in DOMAIN rows : rows[l] = k
    BY <1>1, <1>3, <1>6
  <2>2. CASE l \in DOMAIN chunk
    BY <1>1, <1>2, <1>3, <2>1, <2>2
  <2>3. CASE l \notin DOMAIN chunk
    <3>1. l > Chunk
      BY <1>1, <2>3
    <3>2. ASSUME NEW m \in DOMAIN fits
          PROVE  Later(f, Position(k), Position(fits[m]))
      <4>1. CASE m \in DOMAIN page
        BY <1>1, <1>2, <1>6, <2>1, <4>1, RowsAfterPage
      <4>2. CASE m \notin DOMAIN page
        <5>1. PICK j \in DOMAIN chunk : fits[m] = chunk[j]
          BY <1>2, <4>2
        <5>2. j \in DOMAIN rows /\ j <= Chunk /\ fits[m] = rows[j]
          BY <1>1, <5>1
        <5>3. j < l
          <6>1. j \in Nat /\ l \in Nat /\ Chunk \in Nat
            BY <1>1, <5>2, LimitAssumption
          <6>2. QED
            BY <3>1, <5>2, <6>1
        <5>4. QED
          BY <1>1, <2>1, <5>2, <5>3
      <4>3. QED
        BY <4>1, <4>2
    <3>3. QED
      BY <2>1, <3>1, <3>2
  <2>4. QED
    BY <2>2, <2>3
<1>7. QED
  BY <1>4, <1>5, <1>6

(* A query that does not fill the page, and is not the last. *)
LEMMA QueryKeeps ==
  ASSUME Inv, store = "table", reader.step = "read", StoreSame,
         NEW rows, NEW chunk, NEW fits, Queried(rows, chunk, fits),
         Len(fits) <= PageLimit, Len(rows) > Chunk,
         reader' = [reader EXCEPT !.page = fits, !.after = Position(Last(chunk))]
  PROVE  Inv'
<1> DEFINE q == [reader EXCEPT !.page = fits, !.after = Position(Last(chunk))]
           f == reader.filter
           k == rows[Chunk]
<1>1. reader \in Readers /\ TypeOK /\ ReaderOK(reader) /\ Intact
  BY AtWork
<1>2. /\ rows \in Seq(Nat)
      /\ \A m \in DOMAIN rows : rows[m] \in Readable /\ Beyond(Position(rows[m]), reader.after)
      /\ \A l, m \in DOMAIN rows : l < m => Later(f, Position(rows[m]), Position(rows[l]))
      /\ \A m \in DOMAIN chunk : m \in DOMAIN rows /\ m <= Chunk /\ chunk[m] = rows[m]
      /\ Chunk \in DOMAIN rows /\ Last(chunk) = k
  BY TableRows
<1>3. Fitting(fits)
  BY TableFitting
<1>4. k \in Readable /\ Position(k) \in Positions /\ Position(k) # None
      /\ Beyond(Position(k), reader.after)
  BY <1>1, <1>2, PositionsTyped
<1> HIDE DEF k
<1>5. q \in Readers
  <2>1. Position(k) \in Positions \cup {None} /\ fits \in Seq(Nat)
    BY <1>3, <1>4 DEF Fitting
  <2>2. QED
    BY <1>1, <1>2, <2>1 DEF Readers
<1>6. /\ q.step = "read" /\ q.filter = f /\ q.after = Position(k) /\ q.page = fits
      /\ q.found = reader.found /\ q.incomplete = reader.incomplete /\ q.due = reader.due
  BY <1>1, <1>2 DEF Readers
<1>7. reader' = q
  OBVIOUS
<1> HIDE DEF q
<1>8. Standing(q)
  <2>1. ASSUME NEW i \in DOMAIN reader.found PROVE NotBeyond(f, reader.found[i], Position(k))
    <3>1. Ahead(f, reader.found[i], Position(k))
      BY <1>4, FoundIsAhead
    <3>2. reader.found[i] \in All
      BY <1>1, ReaderFields
    <3>3. QED
      BY <1>1, <1>4, <3>1, <3>2, AheadFacts
  <2>2. QED
    BY <1>4, <1>6, <2>1 DEF Standing
<1>9. OnPage(q)
  <2>1. ASSUME NEW m \in DOMAIN fits
        PROVE  ~Later(f, Position(fits[m]), Position(k))
    <3>1. \A i \in Readable : Position(i) \in Positions
      BY <1>1, PositionsTyped
    <3>2. /\ \A i \in DOMAIN reader.page : fits[i] = reader.page[i]
          /\ m \notin DOMAIN reader.page => \E l \in DOMAIN chunk : fits[m] = chunk[l]
      BY TableFits
    <3>3. CASE m \in DOMAIN reader.page
      <4>1. /\ Later(f, Position(k), Position(reader.page[m]))
            /\ reader.page[m] \in Readable
        BY <1>4, <3>3, RowsAfterPage
      <4>2. ~Later(f, Position(reader.page[m]), Position(k))
        BY <1>4, <3>1, <4>1, LaterTurns
      <4>3. QED
        BY <3>2, <3>3, <4>2
    <3>4. CASE m \notin DOMAIN reader.page
      <4>1. PICK l \in DOMAIN chunk : fits[m] = chunk[l]
        BY <3>2, <3>4
      <4>2. l \in DOMAIN rows /\ l <= Chunk /\ fits[m] = rows[l] /\ rows[l] \in Readable
        BY <1>2, <4>1
      <4>3. l = Chunk \/ l < Chunk
        <5>1. l \in Nat /\ Chunk \in Nat
          BY <1>2, <4>2, LimitAssumption
        <5>2. QED
          BY <4>2, <5>1
      <4>4. CASE l = Chunk
        BY <1>4, <4>2, <4>4, LaterIsOrder DEF k
      <4>5. CASE l < Chunk
        <5>1. Later(f, Position(k), Position(rows[l]))
          BY <1>2, <4>2, <4>5 DEF k
        <5>2. QED
          BY <1>4, <3>1, <4>2, <5>1, LaterTurns
      <4>6. QED
        BY <4>3, <4>4, <4>5
    <3>5. QED
      BY <3>3, <3>4
  <2>2. QED
    BY <1>3, <1>6, <2>1 DEF OnPage, Fitting
<1>10. DueIsStored(q)
  BY <1>1, <1>6 DEF ReaderOK, DueIsStored
<1>11. NothingPassed(q)
  <2>1. PICK src \in [DOMAIN reader.found -> Nat] : Passed(reader, src)
    BY <1>1 DEF ReaderOK, NothingPassed
  <2>2. ASSUME NEW j \in DOMAIN lines, lines[j] \in DOMAIN reader.due
        PROVE  \/ Found1(reader.found, src, j)
               \/ \E m \in DOMAIN fits : fits[m] = j
               \/ Later(f, Position(j), Position(k))
    <3>1. CASE \E l \in DOMAIN rows : rows[l] = j /\ l > Chunk
      BY <1>2, <3>1 DEF k
    <3>2. QED
      BY <2>1, <2>2, <3>1, TableGathers
  <2>3. Passed(q, src)
    BY <1>6, <2>2 DEF Passed
  <2>4. QED
    BY <1>6, <2>1, <2>3 DEF NothingPassed
<1>12. NothingLostInSilence'
  BY <1>6, <1>7 DEF NothingLostInSilence
<1>13. PagesAreOneList'
  BY <1>6, <1>7 DEF Inv, PagesAreOneList, Matches
<1>14. QED
  BY <1>5, <1>7, <1>8, <1>9, <1>10, <1>11, <1>12, <1>13, ReadingKeeps DEF ReaderOK

LEMMA ReadRowsKeeps ==
  ASSUME Inv, ReadRows
  PROVE  Inv'
<1>1. PICK rows, chunk, fits :
        /\ Queried(rows, chunk, fits)
        /\ IF Len(fits) <= PageLimit /\ Len(rows) > Chunk
           THEN reader' = [reader EXCEPT !.page = fits, !.after = Position(Last(chunk))]
           ELSE Page(fits, FALSE)
  BY Zenon DEF ReadRows, Queried
<1>2. store = "table" /\ reader.step = "read" /\ StoreSame
  BY DEF ReadRows, Reading, StoreSame
<1>3. CASE Len(fits) <= PageLimit /\ Len(rows) > Chunk
  BY <1>1, <1>2, <1>3, QueryKeeps
<1>4. CASE ~(Len(fits) <= PageLimit /\ Len(rows) > Chunk)
  <2>1. Fitting(fits) /\ Page(fits, FALSE)
    BY <1>1, <1>2, <1>4, TableFitting
  <2>2. reader \in Readers /\ ReaderOK(reader) /\ Intact
    BY <1>2, AtWork
  <2>3. PICK src \in [DOMAIN reader.found -> Nat] : Passed(reader, src)
    BY <1>2, <2>2 DEF ReaderOK, NothingPassed
  <2>4. (\E l \in DOMAIN rows : l > Chunk) => Len(fits) > PageLimit
    <3>1. rows \in Seq(Nat) /\ fits \in Seq(Nat) /\ Chunk \in Nat /\ PageLimit \in Nat
      BY <1>1, <1>2, <2>1, TableRows, LimitAssumption DEF Fitting
    <3>2. QED
      BY <1>4, <3>1
  <2>5. Gathered(fits, src)
    <3> SUFFICES ASSUME NEW k \in DOMAIN lines, lines[k] \in DOMAIN reader.due
                 PROVE  \/ Found1(reader.found, src, k)
                        \/ \E m \in DOMAIN fits : fits[m] = k
                        \/ Len(fits) > PageLimit
                           /\ \A m \in DOMAIN fits : Later(reader.filter, Position(k), Position(fits[m]))
      BY DEF Gathered
    <3>1. QED
      BY <1>1, <1>2, <2>3, <2>4, TableGathers
  <2>6. QED
    BY <1>2, <2>1, <2>2, <2>3, <2>5, PageKeeps
<1>5. QED
  BY <1>3, <1>4

-----------------------------------------------------------------------------
(* The theorems.                                                           *)

LEMMA InitInv == Init => Inv
<1> SUFFICES ASSUME Init PROVE Inv
  OBVIOUS
<1>1. OldLines \in Seq(ToSet(Legacy)) /\ lines = OldLines
  BY OldIsLegacy DEF Init
<1>2. \A k \in DOMAIN lines : lines[k] \in ToSet(OldLines)
  BY <1>1 DEF ToSet
<1>3. \A k \in DOMAIN lines : lines[k] \in All /\ lines[k] \notin Events
  BY <1>2, OldIsLegacy
<1>4. Intact
  BY <1>3, ValueAssumption DEF Intact
<1>5. reader = NoReader /\ reader.step = "none"
  BY DEF Init, NoReader
<1>6. TypeOK
  <2>1. lines \in Seq(All \cup {Damaged})
    <3>1. DOMAIN lines = 1..Len(lines) /\ Len(lines) \in Nat
          /\ lines = [k \in 1..Len(lines) |-> lines[k]]
      BY <1>1
    <3>2. \A k \in 1..Len(lines) : lines[k] \in All \cup {Damaged}
      BY <1>3, <3>1
    <3>3. lines \in [1..Len(lines) -> All \cup {Damaged}]
      BY <3>1, <3>2, Zenon
    <3>4. QED
      BY <3>1, <3>3
  <2>2. writing \in [Procs -> Pending \cup {None}]
    BY DEF Init
  <2>3. QED
    BY <1>5, <2>1, <2>2, LimitAssumption DEF Init, TypeOK
<1>7. WrittenOnce
  BY <1>3, <1>4 DEF Init, WrittenOnce
<1>8. Kept
  BY <1>1 DEF Init, Kept
<1>9. NothingLostInSilence /\ PagesAreOneList
  BY <1>5 DEF NothingLostInSilence, PagesAreOneList
<1>10. QED
  BY <1>5, <1>6, <1>7, <1>8, <1>9 DEF Inv

LEMMA StutterKeeps == Inv /\ UNCHANGED vars => Inv'
<1> SUFFICES ASSUME Inv, UNCHANGED vars PROVE Inv'
  OBVIOUS
<1>1. StoreSame /\ reader' = reader
  BY DEF vars, StoreSame
<1>2. CASE reader = NoReader
  <2>1. TypeOK' /\ WrittenOnce' /\ (Intact' => Kept')
    BY <1>1 DEF Inv, TypeOK, WrittenOnce, Kept, Intact, OldLines, StoreSame
  <2>2. reader'.step = "none" /\ reader' = NoReader
    BY <1>1, <1>2 DEF NoReader
  <2>3. NothingLostInSilence' /\ PagesAreOneList'
    BY <2>2 DEF NothingLostInSilence, PagesAreOneList
  <2>4. QED
    BY <2>1, <2>2, <2>3 DEF Inv, NoReader
<1>3. CASE reader # NoReader
  <2>1. reader \in Readers /\ ReaderOK(reader)
    BY <1>3 DEF Inv, TypeOK
  <2>2. NothingLostInSilence'
    BY <1>1 DEF Inv, NothingLostInSilence, Count
  <2>3. PagesAreOneList'
    BY <1>1 DEF Inv, PagesAreOneList, Matches
  <2>4. QED
    BY <1>1, <2>1, <2>2, <2>3, ReadingKeeps
<1>4. QED
  BY <1>2, <1>3

LEMMA NextKeeps == Inv /\ [Next]_vars => Inv'
<1> SUFFICES ASSUME Inv, [Next]_vars PROVE Inv'
  OBVIOUS
<1>1. ASSUME NEW p \in Procs, NEW e \in Events, Record(p, e) PROVE Inv'
  BY <1>1, RecordKeeps
<1>2. ASSUME NEW p \in Procs, NEW e \in Events, RecordRow(p, e) PROVE Inv'
  BY <1>2, RecordRowKeeps
<1>3. ASSUME NEW p \in Procs, Write(p) PROVE Inv'
  BY <1>3, WriteKeeps
<1>4. ASSUME NEW p \in Procs, CutWrite(p) PROVE Inv'
  BY <1>4, CutWriteKeeps
<1>5. ASSUME NEW f \in Filters, Search(f) PROVE Inv'
  BY <1>5, SearchKeeps
<1>6. CASE ReadLog
  BY <1>6, ReadLogKeeps
<1>7. CASE ReadRows
  BY <1>7, ReadRowsKeeps
<1>8. CASE NextPage
  BY <1>8, NextPageKeeps
<1>9. CASE Leave
  BY <1>9, LeaveKeeps
<1>10. CASE UNCHANGED vars
  BY <1>10, StutterKeeps
<1>11. QED
  BY <1>1, <1>2, <1>3, <1>4, <1>5, <1>6, <1>7, <1>8, <1>9, <1>10 DEF Next

(* In every reachable state lines are written once, nothing is lost from a  *)
(* log without damaged lines, and the reader stands where it says: found    *)
(* events before its page, its page before its cursor, and nothing that is  *)
(* due between them (Record, Search and paginate of internal/audit).        *)
THEOREM Invariance == Spec => []Inv
BY InitInv, NextKeeps, PTL DEF Spec

(* The state of the stores, of the writers and of the reader has its type,  *)
(* and every event that Record saved was recorded.                          *)
THEOREM TypeCorrect == Spec => []TypeOK
<1>1. Inv => TypeOK
  BY DEF Inv
<1>2. QED
  BY Invariance, <1>1, PTL

(* What Record acknowledged stays readable until some line is damaged: only *)
(* a write that was cut short, or a line that another process appended at   *)
(* the same moment, can take it away, and either leaves a damaged line      *)
(* behind, which is what File.Search reports (the torn lines of file.go).   *)
THEOREM SavedIsKept ==
  Spec => [](Intact => \A e \in saved : \E k \in DOMAIN lines : lines[k] = e)
<1>1. Inv => (Intact => \A e \in saved : \E k \in DOMAIN lines : lines[k] = e)
  BY DEF Inv, Kept
<1>2. QED
  BY Invariance, <1>1, PTL

(* Whoever reads page after page to the end gets every matching event that  *)
(* was saved when the reading began, as often as it was saved, or is told   *)
(* that the history is incomplete: for any number of processes that write   *)
(* meanwhile, any writes cut short, any length of a page and of a query     *)
(* (Page.Incomplete of File.Search; the cursor loop of DynamoDB.Search).    *)
THEOREM NothingLostInSilenceHolds == Spec => []NothingLostInSilence
<1>1. Inv => NothingLostInSilence
  BY DEF Inv
<1>2. QED
  BY Invariance, <1>1, PTL

(* The pages together are one list in the order asked for, of matching      *)
(* events, with no event that has an id on them twice, whatever is written  *)
(* between two pages (compare, paginate and decodeCursor of search.go).     *)
THEOREM PagesAreOneListHolds == Spec => []PagesAreOneList
<1>1. Inv => PagesAreOneList
  BY DEF Inv
<1>2. QED
  BY Invariance, <1>1, PTL
=============================================================================
