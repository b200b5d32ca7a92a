---------------------------- MODULE HistorySearch ----------------------------
(***************************************************************************)
(* Reading the history back, page after page, while processes write it     *)
(* (internal/audit: search.go, file.go, dynamodb_search.go).               *)
(*                                                                         *)
(* Two stores.  The log is a file of lines that several processes append   *)
(* to; a write may be cut short and leave a line without its end.  A page  *)
(* of the log is cut from the whole log.  The table keeps rows in the      *)
(* order of their keys; a page of it is collected by several queries.      *)
(***************************************************************************)
EXTENDS Integers, Sequences, FiniteSets, SequencesExt

CONSTANTS
  Procs,     \* processes that record events
  Events,    \* what they record; every event has a new id
  Legacy,    \* lines without an id that an older version left: a sequence
  Filters,   \* what readers ask for
  Stores,    \* the stores explored, a subset of {"log", "table"}
  None, Damaged,
  PageLimit, \* events on a page
  Chunk,     \* rows that one query of the table answers (128)
  MaxCuts    \* bound: writes cut short

All == Events \cup ToSet(Legacy)
Positions == [at : Nat, tie : Nat, nth : Nat]

(* The id of an event is new, and the digest that stands for the id of an   *)
(* old line is that of its content.                                         *)
ASSUME EventAssumption ==
  /\ Legacy \in Seq(ToSet(Legacy))
  /\ \A e \in All : e.id \in Nat /\ e.at \in Nat
  /\ \A d, e \in All : d.id = e.id => d = e
  /\ \A e \in Events : ~e.legacy
  /\ \A e \in ToSet(Legacy) : e.legacy
ASSUME ValueAssumption ==
  /\ Damaged \notin All
  /\ None \notin Positions /\ None \notin [event : Events, newline : BOOLEAN]
ASSUME LimitAssumption ==
  /\ PageLimit \in Nat \ {0} /\ Chunk \in Nat \ {0} /\ MaxCuts \in Nat
  /\ Stores \subseteq {"log", "table"}

VARIABLES
  store,     \* which store the deployment uses
  lines,     \* the log: readable events and damaged lines; or the rows, as they came
  open,      \* the last line of the log has no newline
  writing,   \* per process: the write that follows its look at the log's end
  recorded,  \* events whose Record was called
  saved,     \* events whose Record returned no error
  reader,    \* a reading from its first page to its last
  cuts

vars == <<store, lines, open, writing, recorded, saved, reader, cuts>>

-----------------------------------------------------------------------------
(* Record. *)

Begin(p, e) ==
  /\ e \notin recorded
  /\ recorded' = recorded \cup {e}

(* The look at the last byte; a mutex holds for one process only. *)
NeedsNewline == open

Record(p, e) ==
  /\ store = "log" /\ writing[p] = None
  /\ Begin(p, e)
  /\ writing' = [writing EXCEPT ![p] = [event |-> e, newline |-> NeedsNewline]]
  /\ UNCHANGED <<store, lines, open, saved, reader, cuts>>

(* The log with a line that starts here, given what another process may have *)
(* done since the look: an unfinished line swallows this one, and a newline  *)
(* that is no longer needed makes an empty line.                             *)
WithLine(w, line) ==
  IF open /\ ~w.newline THEN Append(Front(lines), Damaged)
  ELSE IF ~open /\ w.newline THEN lines \o <<Damaged, line>>
  ELSE Append(lines, line)

Write(p) ==
  LET w == writing[p] IN
  /\ w # None
  /\ lines' = WithLine(w, w.event)
  /\ open' = FALSE
  /\ saved' = saved \cup {w.event}
  /\ writing' = [writing EXCEPT ![p] = None]
  /\ UNCHANGED <<store, recorded, reader, cuts>>

(* A write that is cut short leaves a part of the line, or all of it but its *)
(* newline; Record returns the error, and nobody records the event again.    *)
CutWrite(p) ==
  LET w == writing[p] IN
  /\ w # None /\ cuts < MaxCuts
  /\ \E line \in {Damaged, w.event} : lines' = WithLine(w, line)
  /\ open' = TRUE
  /\ writing' = [writing EXCEPT ![p] = None]
  /\ cuts' = cuts + 1
  /\ UNCHANGED <<store, recorded, saved, reader>>

(* DynamoDB.Record, see JourneyStore: the event and its rows at once. *)
RecordRow(p, e) ==
  /\ store = "table"
  /\ Begin(p, e)
  /\ lines' = Append(lines, e)
  /\ saved' = saved \cup {e}
  /\ UNCHANGED <<store, open, writing, reader, cuts>>

-----------------------------------------------------------------------------
(* Positions.  An event without an id has its content for a tie-breaker, and *)
(* the number of its occurrence among the lines that match.                  *)

Matches(f, e) == f.account \in {None, e.account} /\ f.actor \in {None, e.actor}

Occurrence(k) == Cardinality({i \in 1..k : lines[i] = lines[k]})

Position(k) ==
  [at |-> lines[k].at, tie |-> lines[k].id,
   nth |-> IF lines[k].legacy THEN Occurrence(k) ELSE 0]

Before(p, q) ==
  \/ p.at < q.at
  \/ p.at = q.at /\ (p.tie < q.tie \/ (p.tie = q.tie /\ p.nth < q.nth))

(* p comes after q in the order of the query. *)
Later(f, p, q) == IF f.oldestFirst THEN Before(q, p) ELSE Before(p, q)

\* Faulty variant: the next page begins with the event of the cursor.
BeyondOrAt(p, after) == after = None \/ ~Later(reader.filter, after, p)

(* After the cursor, which is None at the beginning. *)
Beyond(p, after) == after = None \/ Later(reader.filter, p, after)

Readable == {k \in DOMAIN lines : lines[k] # Damaged}
Matching(f) == {k \in Readable : Matches(f, lines[k])}

(* searchPartition: one exact index, by the first field that is asked for. *)
Partition(f) ==
  {k \in Readable : IF f.account # None THEN lines[k].account = f.account
                    ELSE f.actor \in {None, lines[k].actor}}

(* Lines in the order of the query; equal positions stay as they came. *)
Precedes(i, k) ==
  \/ Later(reader.filter, Position(k), Position(i))
  \/ Position(i) = Position(k) /\ i < k

(* Line m of the result is the one that m - 1 others precede. *)
InOrder(ks) ==
  [m \in 1..Cardinality(ks) |->
     CHOOSE k \in ks : Cardinality({i \in ks : Precedes(i, k)}) = m - 1]

Rows(ks, after) == InOrder({k \in ks : Beyond(Position(k), after)})

-----------------------------------------------------------------------------
(* Search. *)

NoReader == [step |-> "none"]

Count(e, s) == Cardinality({i \in DOMAIN s : s[i] = e})
UpTo(s, n) == IF Len(s) <= n THEN s ELSE SubSeq(s, 1, n)

(* How often each matching event was saved when the reading began. *)
OldLines == IF store = "log" THEN Legacy ELSE <<>>
Due(f) ==
  [e \in {x \in saved \cup ToSet(OldLines) : Matches(f, x)} |->
    Count(e, OldLines) + (IF e \in saved THEN 1 ELSE 0)]

Search(f) ==
  /\ reader.step = "none"
  /\ reader' = [step |-> "read", filter |-> f, after |-> None,
                page |-> <<>>, found |-> <<>>, incomplete |-> FALSE, due |-> Due(f)]
  /\ UNCHANGED <<store, lines, open, writing, recorded, saved, cuts>>

Reading == reader.step = "read" /\ UNCHANGED <<store, lines, open, writing, recorded, saved, cuts>>

Found(page) == reader.found \o [i \in DOMAIN page |-> lines[page[i]]]

(* The position of the last event on a full page. *)
NextCursor(rows) == Position(rows[PageLimit])

Page(rows, incomplete) ==
  LET page == UpTo(rows, PageLimit) IN
  reader' = [reader EXCEPT
    !.step = IF Len(rows) > PageLimit THEN "page" ELSE "complete",
    !.after = IF Len(rows) > PageLimit THEN NextCursor(rows) ELSE None,
    !.page = <<>>, !.found = Found(page), !.incomplete = incomplete]

\* Faulty variant: lines that cannot be read are skipped in silence.
LogDamagedNever == FALSE

LogDamaged == \E k \in DOMAIN lines : lines[k] = Damaged

(* File.Search, CloudWatch.Search: all that matches, then paginate. *)
ReadLog ==
  /\ store = "log" /\ Reading
  /\ Page(Rows(Matching(reader.filter), reader.after), LogDamaged)

(* DynamoDB.Search: one query answers the next rows of one partition; what   *)
(* matches fills the page until one more than a page has matched.            *)
ReadRows ==
  LET f == reader.filter
      rows == Rows(Partition(f), reader.after)
      chunk == UpTo(rows, Chunk)
      fits == reader.page \o InOrder({k \in ToSet(chunk) : Matches(f, lines[k])})
  IN
  /\ store = "table" /\ Reading
  /\ IF Len(fits) <= PageLimit /\ Len(rows) > Chunk
     THEN reader' = [reader EXCEPT !.page = fits, !.after = Position(Last(chunk))]
     ELSE Page(fits, FALSE)

(* The reader asks for the next page with the cursor, or leaves. *)
NextPage ==
  /\ reader.step = "page"
  /\ reader' = [reader EXCEPT !.step = "read"]
  /\ UNCHANGED <<store, lines, open, writing, recorded, saved, cuts>>

Leave ==
  /\ reader.step \in {"page", "complete"}
  /\ reader' = NoReader
  /\ UNCHANGED <<store, lines, open, writing, recorded, saved, cuts>>

-----------------------------------------------------------------------------
Init ==
  /\ store \in Stores
  /\ lines = OldLines
  /\ open = FALSE
  /\ writing = [p \in Procs |-> None]
  /\ recorded = {} /\ saved = {}
  /\ reader = NoReader
  /\ cuts = 0

Next ==
  \/ \E p \in Procs :
       \/ \E e \in Events : Record(p, e) \/ RecordRow(p, e)
       \/ Write(p) \/ CutWrite(p)
  \/ \E f \in Filters : Search(f)
  \/ ReadLog \/ ReadRows \/ NextPage \/ Leave

Spec == Init /\ [][Next]_vars

-----------------------------------------------------------------------------
(* The properties. *)

(* Reading page after page to the end gives every matching event that was    *)
(* saved when the reading began, as often as it was saved, or the last page  *)
(* says that the history is incomplete: whatever was cut short, and whatever *)
(* was written meanwhile (Page.Incomplete, TestFileSinkSkipsTornLines).      *)
NothingLostInSilence ==
  reader.step = "complete" /\ ~reader.incomplete =>
    \A e \in DOMAIN reader.due : Count(e, reader.found) >= reader.due[e]

(* The pages together are one list in the order asked for: everything on     *)
(* them matches, no event with an id is on them twice, and none is ordered   *)
(* before one of an earlier page ("newer writes do not shift subsequent      *)
(* pages", search.go).                                                       *)
PagesAreOneList ==
  reader.step # "none" =>
    LET f == reader.filter
        found == reader.found
    IN /\ \A i \in DOMAIN found : Matches(f, found[i])
       /\ \A i, k \in DOMAIN found : i < k =>
            /\ IF f.oldestFirst THEN found[i].at <= found[k].at ELSE found[i].at >= found[k].at
            /\ found[i].legacy \/ found[i] # found[k]

=============================================================================
