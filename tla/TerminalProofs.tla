--------------------------- MODULE TerminalProofs ---------------------------
(***************************************************************************)
(* Theorems about Terminal, for any number of loads, pulls, pages, actions *)
(* and changes, and pages of any length.                                   *)
(***************************************************************************)
EXTENDS Terminal, SequenceTheorems, TLAPS

Listing == [version : Nat, newer : Nat]
Load == [force : BOOLEAN, step : {"list", "costs", "pull", "done"}, seen : Listing \cup {None},
         pull : Nat, failed : BOOLEAN]
ActionCall == [kind : {"account", "edit", "decide", "sync"}, step : {"run", "done"},
               result : Nat \cup {None}]
Read == [gen : Nat, cursor : Nat \cup {None}, step : {"search", "done"}, page : Seq(Nat),
         next : Nat \cup {None}, failed : BOOLEAN]
History == [events : Seq(Nat), next : Nat \cup {None}, read : BOOLEAN, failed : BOOLEAN,
            loading : BOOLEAN]

AwsOK == version \in Nat /\ newer \in Nat
TableOK ==
  /\ rows \in Listing \cup {None}
  /\ table \in [section : Sections, cursor : Nat]
  /\ loadSeq \in 0..MaxLoads

\* A pull has its number before it ends, and the entry is of the newest that ended.
CostsOK ==
  /\ costs \in [seq : Nat, ok : BOOLEAN, spend : Nat \cup {None}]
  /\ pulls \in Nat /\ ended \in [seq : Nat, ok : BOOLEAN]
  /\ costs.seq = ended.seq /\ costs.ok = ended.ok
  /\ costs.ok => costs.spend = costs.seq

\* What a reader saw is of the past.
Past(listing) == listing.version <= version /\ listing.newer <= newer

\* No load is newer than the newest one, whose listing is as new as the table and
\* as the outcome that the table does not show yet.
LoadsOK ==
  /\ loads \in [0..MaxLoads -> Load \cup {None}]
  /\ \A s \in 0..MaxLoads : loads[s] # None =>
       /\ s <= loadSeq
       /\ loads[s].step \in {"costs", "pull"} \/ (loads[s].step = "done" /\ ~loads[s].failed)
            => loads[s].seen # None
       /\ loads[s].seen # None =>
            /\ Past(loads[s].seen)
            /\ s = loadSeq =>
                 /\ rows # None => /\ loads[s].seen.version >= rows.version
                                   /\ loads[s].seen.newer >= rows.newer
                 /\ ~outcome.shown => loads[s].seen.version >= outcome.version

ShownOK ==
  /\ outcome \in [version : Nat, shown : BOOLEAN]
  /\ outcome.version <= version
  /\ rows # None => Past(rows)
  /\ outcome.shown => IF rows = None THEN outcome.version = 0 ELSE rows.version >= outcome.version

\* The calls of the service that returned saw a version of the past.
Calls(v) == {a \in ActionCall : a.step = "done" => a.result \in 0..v}
ActionsOK == actions \in Seq(Calls(version)) /\ syncing \in BOOLEAN

\* A page that was read for the history on the screen, which is of version v at least.
PageOf(r, v) ==
  \E n \in Nat :
    /\ r.page = Page(n)
    /\ r.next = IF n > PageLimit THEN n + 1 - PageLimit ELSE None
    /\ IF r.cursor = None THEN n >= v ELSE n = r.cursor - 1
Reads(h, v) ==
  {r \in Read : /\ r.gen <= h /\ r.cursor # 0
                /\ r.gen = h /\ r.step = "done" /\ ~r.failed => PageOf(r, v)}
ReadsOK == histSeq \in Nat /\ reads \in Seq(Reads(histSeq, outcome.version))

HistOK ==
  hist # None =>
    /\ hist \in History
    /\ hist.next # None => hist.read /\ hist.next >= 2
    /\ ~hist.read => hist.events = <<>>
    /\ HistoryIsOneList

Inv == /\ AwsOK /\ TableOK /\ CostsOK /\ LoadsOK /\ ShownOK /\ ActionsOK /\ ReadsOK /\ HistOK

-----------------------------------------------------------------------------
(* The larger and the smaller of two numbers; the steps of a sequence.     *)

LEMMA MaxOfTwo ==
  ASSUME NEW a \in Int, NEW b \in Int
  PROVE  Max({a, b}) = IF a >= b THEN a ELSE b
<1>1. CASE a >= b
  <2>1. a \in {a, b} /\ \A y \in {a, b} : a >= y
    BY <1>1
  <2>2. \A x \in {a, b} : (\A y \in {a, b} : x >= y) => x = a
    BY <1>1
  <2>3. QED
    BY <1>1, <2>1, <2>2 DEF Max
<1>2. CASE ~(a >= b)
  <2>1. b \in {a, b} /\ \A y \in {a, b} : b >= y
    BY <1>2
  <2>2. \A x \in {a, b} : (\A y \in {a, b} : x >= y) => x = b
    BY <1>2
  <2>3. QED
    BY <1>2, <2>1, <2>2 DEF Max
<1>3. QED
  BY <1>1, <1>2

LEMMA MinOfTwo ==
  ASSUME NEW a \in Int, NEW b \in Int
  PROVE  Min({a, b}) = IF a <= b THEN a ELSE b
<1>1. CASE a <= b
  <2>1. a \in {a, b} /\ \A y \in {a, b} : a <= y
    BY <1>1
  <2>2. \A x \in {a, b} : (\A y \in {a, b} : x <= y) => x = a
    BY <1>1
  <2>3. QED
    BY <1>1, <2>1, <2>2 DEF Min
<1>2. CASE ~(a <= b)
  <2>1. b \in {a, b} /\ \A y \in {a, b} : b <= y
    BY <1>2
  <2>2. \A x \in {a, b} : (\A y \in {a, b} : x <= y) => x = b
    BY <1>2
  <2>3. QED
    BY <1>2, <2>1, <2>2 DEF Min
<1>3. QED
  BY <1>1, <1>2

LEMMA RemoveAtTyped ==
  ASSUME NEW S, NEW s \in Seq(S), NEW i \in DOMAIN s
  PROVE  RemoveAt(s, i) \in Seq(S)
<1>1. i \in 1..Len(s) /\ Len(s) \in Nat
  OBVIOUS
<1>2. SubSeq(s, 1, i - 1) \in Seq(S) /\ SubSeq(s, i + 1, Len(s)) \in Seq(S)
  BY <1>1
<1>3. QED
  BY <1>2 DEF RemoveAt

LEMMA SeqReplaceTyped ==
  ASSUME NEW S, NEW s \in Seq(S), NEW i \in DOMAIN s, NEW e \in S
  PROVE  [s EXCEPT ![i] = e] \in Seq(S)
OBVIOUS

LEMMA SeqWidens ==
  ASSUME NEW S, NEW T, S \subseteq T, NEW s \in Seq(S)
  PROVE  s \in Seq(T)
OBVIOUS

LEMMA PageFacts ==
  ASSUME NEW n \in Nat
  PROVE  /\ Page(n) \in Seq(Nat)
         /\ Len(Page(n)) = IF PageLimit <= n THEN PageLimit ELSE n
         /\ \A k \in 1..Len(Page(n)) : Page(n)[k] = n + 1 - k
<1> DEFINE m == IF PageLimit <= n THEN PageLimit ELSE n
<1>1. m = Min({PageLimit, n}) /\ m \in Nat /\ m <= n
  BY MinOfTwo, TerminalAssumption
<1>2. Page(n) = [k \in 1..m |-> n + 1 - k]
  BY <1>1 DEF Page
<1>3. \A k \in 1..m : n + 1 - k \in Nat
  BY <1>1
<1> HIDE DEF m
<1>4. Page(n) \in Seq(Nat) /\ Len(Page(n)) = m
  <2>1. Page(n) \in [1..m -> Nat]
    BY <1>2, <1>3
  <2>2. Page(n) \in Seq(Nat)
    BY <1>1, <2>1, SeqDef
  <2>3. Len(Page(n)) \in Nat /\ DOMAIN Page(n) = 1..Len(Page(n))
    BY <2>2, LenProperties
  <2>4. 1..Len(Page(n)) = 1..m
    BY <2>1, <2>3
  <2>5. Len(Page(n)) = m
    BY <1>1, <2>3, <2>4
  <2>6. QED
    BY <2>2, <2>5
<1>5. QED
  BY <1>2, <1>4 DEF m

-----------------------------------------------------------------------------
(* Steps that leave a part of the state alone.                             *)

LEMMA CostsSame == CostsOK /\ UNCHANGED service => CostsOK'
BY DEF CostsOK, service

LEMMA TableSame == TableOK /\ UNCHANGED screen => TableOK'
BY DEF TableOK, screen

LEMMA HistSame == HistOK /\ UNCHANGED <<hist, outcome>> => HistOK'
BY DEF HistOK, HistoryIsOneList

LEMMA ReadsSame == ReadsOK /\ UNCHANGED <<reads, histSeq, outcome>> => ReadsOK'
BY DEF ReadsOK

\* AWS only goes on.
LEMMA LoadsLater ==
  ASSUME LoadsOK, AwsOK, version' \in Nat, newer' \in Nat, version' >= version, newer' >= newer,
         UNCHANGED <<loads, loadSeq, rows, outcome>>
  PROVE  LoadsOK'
<1> SUFFICES ASSUME NEW s \in 0..MaxLoads, loads[s] # None
             PROVE  loads[s].seen # None => loads[s].seen.version <= version' /\ loads[s].seen.newer <= newer'
  BY DEF LoadsOK, Past
<1>1. loads[s] \in Load
  BY DEF LoadsOK
<1>2. loads[s].seen # None => loads[s].seen \in Listing
  BY <1>1 DEF Load
<1>3. QED
  BY <1>2 DEF LoadsOK, Past, Listing, AwsOK

LEMMA ShownLater ==
  ASSUME ShownOK, AwsOK, TableOK, version' \in Nat, newer' \in Nat, version' >= version,
         newer' >= newer, UNCHANGED <<rows, outcome>>
  PROVE  ShownOK'
BY DEF ShownOK, AwsOK, TableOK, Past, Listing

LEMMA ActionsLater ==
  ASSUME ActionsOK, AwsOK, version' \in Nat, version' >= version, UNCHANGED <<actions, syncing>>
  PROVE  ActionsOK'
<1>1. Calls(version) \subseteq Calls(version')
  BY DEF Calls, AwsOK
<1>2. QED
  BY <1>1, SeqWidens DEF ActionsOK

\* The table and what it was loaded from stay as they are.
LEMMA ScreenSame ==
  ASSUME LoadsOK, ShownOK, UNCHANGED <<version, newer, loads, loadSeq, rows, outcome>>
  PROVE  LoadsOK' /\ ShownOK'
BY DEF LoadsOK, ShownOK, Past

LEMMA ActionsSame == ActionsOK /\ UNCHANGED <<version, actions, syncing>> => ActionsOK'
BY DEF ActionsOK

LEMMA AwsSame == AwsOK /\ UNCHANGED aws => AwsOK'
BY DEF AwsOK, aws

-----------------------------------------------------------------------------
(* A load.                                                                 *)

\* A load goes on, to where it has a listing unless it failed.
LEMMA StepKeeps ==
  ASSUME Inv, NEW s \in 0..MaxLoads, loads[s] # None, NEW load \in Load, Step(s, load),
         UNCHANGED <<version, newer, loadSeq, rows, outcome>>,
         load.step \in {"costs", "pull"} \/ (load.step = "done" /\ ~load.failed) => load.seen # None,
         load.seen \in {loads[s].seen, [version |-> version, newer |-> newer]}
  PROVE  LoadsOK'
<1>1. loads' \in [0..MaxLoads -> Load \cup {None}] /\ loads'[s] = load
      /\ \A r \in 0..MaxLoads \ {s} : loads'[r] = loads[r]
  BY DEF Step, Inv, LoadsOK
<1>2. s <= loadSeq
  BY DEF Inv, LoadsOK
<1>3. load.seen # None =>
        /\ Past(load.seen)
        /\ s = loadSeq =>
             /\ rows # None => /\ load.seen.version >= rows.version
                               /\ load.seen.newer >= rows.newer
             /\ ~outcome.shown => load.seen.version >= outcome.version
  <2>1. CASE load.seen = loads[s].seen
    BY <2>1 DEF Inv, LoadsOK
  <2>2. CASE load.seen = [version |-> version, newer |-> newer]
    <3>1. load.seen.version = version /\ load.seen.newer = newer
      BY <2>2
    <3>2. Past(load.seen)
      BY <3>1 DEF Past, Inv, AwsOK
    <3>3. rows # None => version >= rows.version /\ newer >= rows.newer
      BY DEF Inv, ShownOK, Past, AwsOK, TableOK, Listing
    <3>4. version >= outcome.version
      BY DEF Inv, ShownOK, AwsOK
    <3>5. QED
      BY <3>1, <3>2, <3>3, <3>4
  <2>3. QED
    BY <2>1, <2>2
<1>4. QED
  BY <1>1, <1>2, <1>3 DEF Inv, LoadsOK, Past

LEMMA LoadFacts ==
  ASSUME Inv, NEW s \in 0..MaxLoads, loads[s] # None
  PROVE  /\ loads[s] \in Load
         /\ \A t \in {"list", "costs", "pull", "done"} :
              /\ [loads[s] EXCEPT !.step = t] \in Load
              /\ [loads[s] EXCEPT !.step = t].step = t
              /\ [loads[s] EXCEPT !.step = t].seen = loads[s].seen
<1>1. loads[s] \in Load
  BY DEF Inv, LoadsOK
<1>2. QED
  BY <1>1 DEF Load

\* What LoadElse leaves alone.
LEMMA LoadElseKeeps ==
  ASSUME Inv, LoadElse, LoadsOK', CostsOK'
  PROVE  Inv'
<1>1. /\ UNCHANGED <<version, newer, reads, actions, rows, table, loadSeq, hist, histSeq, syncing,
                     outcome, screen, aws>>
  BY DEF LoadElse, aws, screen, history
<1>2. AwsOK' /\ TableOK' /\ ReadsOK' /\ HistOK' /\ ActionsOK'
  BY <1>1, AwsSame, TableSame, ReadsSame, HistSame, ActionsSame DEF Inv
<1>3. ShownOK'
  BY <1>1 DEF Inv, ShownOK, Past
<1>4. QED
  BY <1>2, <1>3 DEF Inv

LEMMA LoadListOK ==
  ASSUME Inv, NEW s \in 0..MaxLoads, LoadList(s)
  PROVE  Inv'
<1> DEFINE l == [version |-> version, newer |-> newer]
           ok == [loads[s] EXCEPT !.step = "costs", !.seen = l]
           bad == [loads[s] EXCEPT !.step = "done", !.failed = TRUE]
<1>1. loads[s] # None /\ loads[s] \in Load
  BY LoadFacts DEF LoadList, InStep
<1>2. l \in Listing /\ l # None
  <2>1. l \in [version : Nat, newer : Nat]
    BY DEF Inv, AwsOK
  <2> HIDE DEF l
  <2>2. QED
    BY <2>1, TerminalAssumption DEF Listing
<1>3. UNCHANGED <<version, newer, loadSeq, rows, outcome>> /\ LoadElse /\ UNCHANGED service
  BY DEF LoadList, LoadElse, aws, screen
<1>4. CASE Step(s, ok)
  <2>1. ok \in Load /\ ok.step = "costs" /\ ok.seen = l
    BY <1>1, <1>2 DEF Load
  <2>2. ok.seen # None
    BY <1>2, <2>1
  <2> HIDE DEF ok
  <2>3. LoadsOK'
    BY <1>1, <1>3, <1>4, <2>1, <2>2, StepKeeps
  <2>4. QED
    BY <1>3, <2>3, CostsSame, LoadElseKeeps DEF Inv
<1>5. CASE Step(s, bad)
  <2>1. bad \in Load /\ bad.step = "done" /\ bad.failed /\ bad.seen = loads[s].seen
    BY <1>1 DEF Load
  <2> HIDE DEF bad
  <2>2. LoadsOK'
    BY <1>1, <1>3, <1>5, <2>1, StepKeeps
  <2>3. QED
    BY <1>3, <2>2, CostsSame, LoadElseKeeps DEF Inv
<1>6. QED
  BY <1>4, <1>5 DEF LoadList

LEMMA LoadCostsOK ==
  ASSUME Inv, NEW s \in 0..MaxLoads, LoadCosts(s)
  PROVE  Inv'
<1> DEFINE old == [loads[s] EXCEPT !.step = "done"]
           new == [loads[s] EXCEPT !.step = "pull", !.pull = pulls + 1]
<1>1. loads[s] # None /\ loads[s].step = "costs" /\ loads[s] \in Load /\ loads[s].seen # None
  BY LoadFacts DEF LoadCosts, InStep, Inv, LoadsOK
<1>2. UNCHANGED <<version, newer, loadSeq, rows, outcome>> /\ LoadElse
  BY DEF LoadCosts, LoadElse, aws, screen
<1>3. pulls \in Nat
  BY DEF Inv, CostsOK
<1>4. CostsOK'
  BY <1>3 DEF LoadCosts, Inv, CostsOK
<1>5. CASE Step(s, old)
  <2>1. old \in Load /\ old.seen = loads[s].seen
    BY <1>1 DEF Load
  <2> HIDE DEF old
  <2>2. LoadsOK'
    BY <1>1, <1>2, <1>5, <2>1, StepKeeps
  <2>3. QED
    BY <1>2, <1>4, <2>2, LoadElseKeeps
<1>6. CASE Step(s, new)
  <2>1. pulls + 1 \in Nat
    BY <1>3
  <2>2. new \in Load /\ new.seen = loads[s].seen
    BY <1>1, <2>1 DEF Load
  <2> HIDE DEF new
  <2>3. LoadsOK'
    BY <1>1, <1>2, <1>6, <2>2, StepKeeps
  <2>4. QED
    BY <1>2, <1>4, <2>3, LoadElseKeeps
<1>7. QED
  BY <1>5, <1>6 DEF LoadCosts

LEMMA LoadPullOK ==
  ASSUME Inv, NEW s \in 0..MaxLoads, LoadPull(s)
  PROVE  Inv'
<1> DEFINE done == [loads[s] EXCEPT !.step = "done"]
           pull == loads[s].pull
<1>1. loads[s] # None /\ loads[s].step = "pull" /\ loads[s] \in Load /\ loads[s].seen # None
  BY LoadFacts DEF LoadPull, InStep, Inv, LoadsOK
<1>2. UNCHANGED <<version, newer, loadSeq, rows, outcome, pulls>> /\ LoadElse /\ Step(s, done)
  BY DEF LoadPull, LoadElse, aws, screen
<1>3. pull \in Nat
  BY <1>1 DEF Load
<1> HIDE DEF pull
<1>4. PICK ok \in BOOLEAN :
        /\ costs' = IF Newest(pull)
                    THEN IF ok THEN [seq |-> pull, ok |-> TRUE, spend |-> pull]
                         ELSE [costs EXCEPT !.seq = pull, !.ok = FALSE]
                    ELSE costs
        /\ ended' = NewestEnded(pull, ok)
  <2>1. \/ /\ costs' = IF Newest(pull) THEN [seq |-> pull, ok |-> TRUE, spend |-> pull] ELSE costs
           /\ ended' = NewestEnded(pull, TRUE)
        \/ /\ costs' = IF Newest(pull) THEN [costs EXCEPT !.seq = pull, !.ok = FALSE] ELSE costs
           /\ ended' = NewestEnded(pull, FALSE)
    BY DEF LoadPull, pull
  <2>2. QED
    BY <2>1
<1>5. CostsOK'
  <2>1. /\ costs \in [seq : Nat, ok : BOOLEAN, spend : Nat \cup {None}]
        /\ ended \in [seq : Nat, ok : BOOLEAN] /\ costs.seq = ended.seq /\ costs.ok = ended.ok
    BY DEF Inv, CostsOK
  <2>2. CASE Newest(pull)
    <3>1. pull > ended.seq
      BY <1>3, <2>1, <2>2 DEF Newest
    <3>2. ended' = [seq |-> pull, ok |-> ok]
      BY <1>4, <3>1 DEF NewestEnded
    <3>3. CASE ok
      BY <1>2, <1>3, <1>4, <2>2, <3>2, <3>3 DEF Inv, CostsOK
    <3>4. CASE ~ok
      <4>1. costs' = [costs EXCEPT !.seq = pull, !.ok = FALSE]
        BY <1>4, <2>2, <3>4
      <4>2. /\ costs' \in [seq : Nat, ok : BOOLEAN, spend : Nat \cup {None}]
            /\ costs'.seq = pull /\ costs'.ok = FALSE
        BY <1>3, <2>1, <4>1
      <4>3. QED
        BY <1>2, <1>3, <3>2, <3>4, <4>2 DEF Inv, CostsOK
    <3>5. QED
      BY <3>3, <3>4
  <2>3. CASE ~Newest(pull)
    <3>1. ~(pull > ended.seq)
      BY <1>3, <2>1, <2>3 DEF Newest
    <3>2. QED
      BY <1>2, <1>4, <2>3, <3>1 DEF NewestEnded, Inv, CostsOK
  <2>4. QED
    BY <2>2, <2>3
<1>6. done \in Load /\ done.seen = loads[s].seen
  BY <1>1 DEF Load
<1> HIDE DEF done
<1>7. LoadsOK'
  BY <1>1, <1>2, <1>6, StepKeeps
<1>8. QED
  BY <1>2, <1>5, <1>7, LoadElseKeeps

-----------------------------------------------------------------------------
(* The table.                                                              *)

LEMMA VisibleTyped ==
  ASSUME NEW listing, NEW section
  PROVE  Visible(listing, section) \in Seq({Old, New})
<1> DEFINE a == <<New>>
           b == <<Old>>
           e == <<>>
<1>1. a \in Seq({Old, New}) /\ b \in Seq({Old, New}) /\ e \in Seq({Old, New})
  OBVIOUS
<1>2. \E x \in {a, e}, y \in {b, e} : Visible(listing, section) = x \o y
  BY DEF Visible
<1> HIDE DEF a, b, e
<1>3. QED
  BY <1>1, <1>2

LEMMA ClampTyped ==
  ASSUME NEW c \in Nat, NEW n \in Nat
  PROVE  Clamp(c, n) \in Nat
<1> DEFINE m == Min({c, n})
<1>1. m \in Nat
  BY MinOfTwo
<1>2. Clamp(c, n) = Max({1, m})
  BY DEF Clamp
<1> HIDE DEF m
<1>3. Max({1, m}) = IF 1 >= m THEN 1 ELSE m
  BY <1>1, MaxOfTwo
<1>4. QED
  BY <1>1, <1>2, <1>3

\* The filter keeps the section, and the selected row if that is still shown.
LEMMA ApplyFilterFacts ==
  ASSUME NEW listing, NEW view \in [section : Sections, cursor : Nat], NEW kept
  PROVE  /\ ApplyFilter(listing, view, kept) \in [section : Sections, cursor : Nat]
         /\ ApplyFilter(listing, view, kept).section = view.section
         /\ Contains(Visible(listing, view.section), kept)
              => SelectedIn(listing, ApplyFilter(listing, view, kept)) = kept
<1> DEFINE visible == Visible(listing, view.section)
           line == IF Contains(visible, kept) THEN CHOOSE i \in DOMAIN visible : visible[i] = kept
                   ELSE Clamp(view.cursor, Len(visible))
           new == ApplyFilter(listing, view, kept)
<1>1. visible \in Seq({Old, New}) /\ Len(visible) \in Nat /\ DOMAIN visible = 1..Len(visible)
  BY VisibleTyped
<1>2. Contains(visible, kept) =>
        /\ line \in 1..Len(visible)
        /\ visible[line] = kept
  BY <1>1 DEF Contains
<1>3. line \in Nat
  <2>1. CASE Contains(visible, kept)
    BY <1>1, <1>2, <2>1
  <2>2. CASE ~Contains(visible, kept)
    BY <1>1, <2>2, ClampTyped
  <2>3. QED
    BY <2>1, <2>2
<1>4. new = [view EXCEPT !.cursor = line]
  BY DEF ApplyFilter
<1> HIDE DEF line
<1>5. new \in [section : Sections, cursor : Nat] /\ new.section = view.section /\ new.cursor = line
  BY <1>3, <1>4
<1>6. Contains(visible, kept) => SelectedIn(listing, new) = kept
  BY <1>1, <1>2, <1>5 DEF SelectedIn
<1>7. QED
  BY <1>5, <1>6

-----------------------------------------------------------------------------
(* Reads of history.                                                       *)

\* A read of an earlier history is not waited for.
LEMMA ReadsOutdated ==
  ASSUME ReadsOK, NEW v
  PROVE  reads \in Seq(Reads(histSeq + 1, v))
<1>1. Reads(histSeq, outcome.version) \subseteq Reads(histSeq + 1, v)
  BY DEF Reads, ReadsOK, Read
<1>2. QED
  BY <1>1, SeqWidens DEF ReadsOK

LEMMA NewReadTyped ==
  ASSUME NEW h \in Nat, NEW v, NEW cursor \in (Nat \ {0}) \cup {None}
  PROVE  NewRead(h, cursor) \in Reads(h, v)
<1>1. <<>> \in Seq(Nat)
  OBVIOUS
<1>2. NewRead(h, cursor) \in Read
  BY <1>1 DEF NewRead, Read
<1>3. NewRead(h, cursor).gen = h /\ NewRead(h, cursor).cursor = cursor
      /\ NewRead(h, cursor).step = "search"
  BY DEF NewRead
<1>4. QED
  BY <1>2, <1>3, TerminalAssumption DEF Reads

\* A new read is of the history that is on the screen then.
LEMMA FetchKeeps ==
  ASSUME ReadsOK, NEW cursor \in (Nat \ {0}) \cup {None}, Fetch(cursor),
         \/ histSeq' = histSeq /\ outcome'.version = outcome.version
         \/ histSeq' = histSeq + 1
  PROVE  ReadsOK'
<1>1. histSeq' \in Nat /\ reads \in Seq(Reads(histSeq', outcome'.version))
  BY ReadsOutdated DEF ReadsOK
<1>2. NewRead(histSeq', cursor) \in Reads(histSeq', outcome'.version)
  BY <1>1, NewReadTyped
<1>3. reads' = Append(reads, NewRead(histSeq', cursor))
  BY DEF Fetch
<1> HIDE DEF ReadsOK
<1>4. QED
  BY <1>1, <1>2, <1>3 DEF ReadsOK

LEMMA LoadHistoryKeeps ==
  ASSUME ReadsOK, LoadHistory, histSeq' = histSeq, outcome'.version = outcome.version
  PROVE  ReadsOK'
<1>1. CASE Fetch(None)
  BY <1>1, FetchKeeps
<1>2. CASE UNCHANGED reads
  BY <1>2 DEF ReadsOK
<1>3. QED
  BY <1>1, <1>2 DEF LoadHistory

LEMMA SearchPageOK ==
  ASSUME Inv, NEW i \in DOMAIN reads, SearchPage(i)
  PROVE  Inv'
<1> DEFINE r == reads[i]
           n == Older(r.cursor)
           next == IF n > PageLimit THEN Last(Page(n)) ELSE None
           ok == [r EXCEPT !.step = "done", !.page = Page(n), !.next = next]
           bad == [r EXCEPT !.step = "done", !.failed = TRUE]
           R == Reads(histSeq, outcome.version)
<1>1. reads \in Seq(R) /\ r \in R /\ histSeq \in Nat
  BY DEF Inv, ReadsOK
<1>2. r \in Read /\ r.gen <= histSeq /\ r.cursor # 0 /\ r.step = "search"
  BY <1>1 DEF Reads, SearchPage
<1>3. n \in Nat /\ (IF r.cursor = None THEN n >= outcome.version ELSE n = r.cursor - 1)
  BY <1>2 DEF Older, Read, Inv, AwsOK, ShownOK
<1>4. next = (IF n > PageLimit THEN n + 1 - PageLimit ELSE None) /\ next \in Nat \cup {None}
  <2> HIDE DEF n
  <2>1. PageLimit \in Nat \ {0}
    BY TerminalAssumption
  <2>2. ASSUME n > PageLimit
        PROVE  Last(Page(n)) = n + 1 - PageLimit
    <3>1. Len(Page(n)) = PageLimit
      BY <1>3, <2>1, <2>2, PageFacts
    <3>2. \A k \in 1..PageLimit : Page(n)[k] = n + 1 - k
      BY <1>3, <3>1, PageFacts
    <3>3. PageLimit \in 1..PageLimit
      BY <2>1
    <3>4. Page(n)[PageLimit] = n + 1 - PageLimit
      BY <3>2, <3>3
    <3>5. QED
      BY <3>1, <3>4 DEF Last
  <2>3. QED
    BY <1>3, <2>1, <2>2
<1>5. Page(n) \in Seq(Nat)
  BY <1>3, PageFacts
<1>6. ok \in R
  <2>1. ok \in Read
    BY <1>2, <1>4, <1>5 DEF Read
  <2>2. ok.gen = r.gen /\ ok.cursor = r.cursor /\ ok.page = Page(n) /\ ok.next = next
    BY <1>2 DEF Read
  <2>3. PageOf(ok, outcome.version)
    BY <1>3, <1>4, <2>2 DEF PageOf
  <2> HIDE DEF ok
  <2>4. QED
    BY <1>2, <2>1, <2>2, <2>3 DEF Reads
<1>7. bad \in R
  <2>1. bad \in Read /\ bad.gen = r.gen /\ bad.cursor = r.cursor /\ bad.failed
    BY <1>2 DEF Read
  <2> HIDE DEF bad
  <2>2. QED
    BY <1>2, <2>1 DEF Reads
<1>8. reads' \in {[reads EXCEPT ![i] = ok], [reads EXCEPT ![i] = bad]}
  BY <1>1 DEF SearchPage
<1>9. UNCHANGED <<version, newer, costs, pulls, ended, loads, rows, table, loadSeq, hist, histSeq,
                  actions, syncing, outcome>>
  BY DEF SearchPage, aws, service, screen, history
<1> HIDE DEF ok, bad
<1>10. ReadsOK'
  <2>1. reads' \in Seq(R)
    BY <1>1, <1>6, <1>7, <1>8, SeqReplaceTyped
  <2>2. QED
    BY <1>9, <2>1 DEF Inv, ReadsOK
<1>11. LoadsOK' /\ ShownOK'
  BY <1>9, ScreenSame DEF Inv
<1>12. QED
  BY <1>9, <1>10, <1>11, CostsSame, TableSame, HistSame, ActionsSame, AwsSame
  DEF Inv, service, screen, aws

-----------------------------------------------------------------------------
(* What the history becomes.                                               *)

\* One page alone.
LEMMA FirstPage ==
  ASSUME NEW n \in Nat, NEW v \in Nat, n >= v
  PROVE  LET page == Page(n) IN
         /\ \A k \in DOMAIN page : k > 1 => page[k] = page[k - 1] - 1
         /\ v > 0 => page # <<>> /\ page[1] >= v
         /\ page # <<>> => Last(page) = IF n > PageLimit THEN n + 1 - PageLimit ELSE 1
<1> DEFINE page == Page(n)
<1>1. page \in Seq(Nat) /\ Len(page) = (IF PageLimit <= n THEN PageLimit ELSE n)
      /\ \A k \in 1..Len(page) : page[k] = n + 1 - k
  BY PageFacts
<1>2. PageLimit \in Nat \ {0}
  BY TerminalAssumption
<1> HIDE DEF page
<1>3. Len(page) \in Nat /\ DOMAIN page = 1..Len(page)
  BY <1>1, LenProperties
<1>4. (page # <<>> => Len(page) >= 1) /\ (Len(page) >= 1 => page # <<>>)
  BY <1>1, EmptySeq
<1>5. ASSUME NEW k \in DOMAIN page, k > 1
      PROVE  page[k] = page[k - 1] - 1
  <2>1. k \in 1..Len(page) /\ k - 1 \in 1..Len(page)
    BY <1>3, <1>5
  <2>2. page[k] = n + 1 - k /\ page[k - 1] = n + 1 - (k - 1)
    BY <1>1, <2>1
  <2>3. QED
    BY <2>1, <2>2
<1>6. ASSUME v > 0
      PROVE  page # <<>> /\ page[1] >= v
  <2>1. Len(page) >= 1
    BY <1>1, <1>2, <1>6
  <2>2. 1 \in 1..Len(page)
    BY <1>3, <2>1
  <2>3. page[1] = n + 1 - 1
    BY <1>1, <2>2
  <2>4. QED
    BY <1>4, <2>1, <2>3
<1>7. ASSUME page # <<>>
      PROVE  Last(page) = IF n > PageLimit THEN n + 1 - PageLimit ELSE 1
  <2>1. Len(page) \in 1..Len(page)
    BY <1>3, <1>4, <1>7
  <2>2. page[Len(page)] = n + 1 - Len(page)
    BY <1>1, <2>1
  <2>3. n + 1 - Len(page) = IF n > PageLimit THEN n + 1 - PageLimit ELSE 1
    BY <1>1, <1>2
  <2>4. QED
    BY <2>2, <2>3 DEF Last
<1>8. QED
  BY <1>5, <1>6, <1>7 DEF page

\* A list, and the page of what is older than its last event.
LEMMA NextPage ==
  ASSUME NEW old \in Seq(Nat), NEW c \in Nat, c >= 2,
         \A k \in DOMAIN old : k > 1 => old[k] = old[k - 1] - 1,
         old # <<>> => Last(old) = c
  PROVE  LET all == old \o Page(c - 1) IN
         /\ \A k \in DOMAIN all : k > 1 => all[k] = all[k - 1] - 1
         /\ old # <<>> => all # <<>> /\ all[1] = old[1]
         /\ Last(all) = IF c - 1 > PageLimit THEN c - PageLimit ELSE 1
<1> DEFINE page == Page(c - 1)
           all == old \o page
<1>1. page \in Seq(Nat) /\ Len(page) = (IF PageLimit <= c - 1 THEN PageLimit ELSE c - 1)
      /\ \A k \in 1..Len(page) : page[k] = (c - 1) + 1 - k
  <2>1. c - 1 \in Nat
    OBVIOUS
  <2>2. QED
    BY <2>1, PageFacts
<1>2. PageLimit \in Nat \ {0}
  BY TerminalAssumption
<1> HIDE DEF page
<1>3. Len(page) \in Nat /\ Len(page) >= 1 /\ Len(old) \in Nat /\ DOMAIN old = 1..Len(old)
  BY <1>1, <1>2, LenProperties
<1>4. all \in Seq(Nat) /\ Len(all) = Len(old) + Len(page)
      /\ \A k \in 1..(Len(old) + Len(page)) :
           all[k] = IF k <= Len(old) THEN old[k] ELSE page[k - Len(old)]
  BY <1>1, ConcatProperties
<1> HIDE DEF all
<1>5. DOMAIN all = 1..(Len(old) + Len(page))
  BY <1>4, LenProperties
<1>6. old # <<>> => Len(old) >= 1
  BY EmptySeq
<1>7. Len(old) >= 1 => old # <<>>
  BY EmptySeq
<1>8. Len(all) >= 1 => all # <<>>
  BY <1>4, EmptySeq
<1>9. ASSUME NEW k \in DOMAIN all, k > Len(old)
      PROVE  all[k] = c - (k - Len(old))
  <2>1. k \in 1..(Len(old) + Len(page)) /\ ~(k <= Len(old)) /\ k - Len(old) \in 1..Len(page)
    BY <1>3, <1>5, <1>9
  <2>2. all[k] = page[k - Len(old)]
    BY <1>4, <2>1
  <2>3. page[k - Len(old)] = (c - 1) + 1 - (k - Len(old))
    BY <1>1, <2>1
  <2>4. QED
    BY <1>3, <2>1, <2>2, <2>3
<1>10. ASSUME NEW k \in DOMAIN all, k <= Len(old)
       PROVE  all[k] = old[k]
  BY <1>4, <1>5, <1>10
<1>11. ASSUME NEW k \in DOMAIN all, k > 1
       PROVE  all[k] = all[k - 1] - 1
  <2>1. k \in Nat /\ k - 1 \in DOMAIN all
    BY <1>3, <1>5, <1>11
  <2>2. CASE k <= Len(old)
    <3>1. k \in DOMAIN old /\ k - 1 <= Len(old)
      BY <1>3, <1>11, <2>1, <2>2
    <3>2. all[k] = old[k] /\ all[k - 1] = old[k - 1]
      BY <1>10, <2>1, <2>2, <3>1
    <3>3. QED
      BY <1>11, <3>1, <3>2
  <2>3. CASE k = Len(old) + 1
    <3>1. k - 1 = Len(old) /\ k - 1 <= Len(old) /\ k > Len(old) /\ Len(old) >= 1
          /\ k - Len(old) = 1
      BY <1>3, <1>11, <2>3
    <3>2. all[k - 1] = old[Len(old)]
      BY <1>10, <2>1, <3>1
    <3>3. old[Len(old)] = c
      BY <1>7, <3>1 DEF Last
    <3>4. all[k] = c - 1
      BY <1>9, <3>1
    <3>5. QED
      BY <3>2, <3>3, <3>4
  <2>4. CASE k > Len(old) + 1
    <3>1. k > Len(old) /\ k - 1 > Len(old)
      BY <1>3, <2>1, <2>4
    <3>2. all[k] = c - (k - Len(old)) /\ all[k - 1] = c - ((k - 1) - Len(old))
      BY <1>9, <2>1, <3>1
    <3>3. QED
      BY <1>3, <2>1, <3>2
  <2>5. QED
    BY <1>3, <2>1, <2>2, <2>3, <2>4
<1>12. ASSUME old # <<>>
       PROVE  all # <<>> /\ all[1] = old[1]
  <2>1. Len(all) >= 1 /\ 1 \in DOMAIN all /\ 1 <= Len(old)
    BY <1>3, <1>4, <1>5, <1>6, <1>12
  <2>2. QED
    BY <1>8, <1>10, <2>1
<1>13. Last(all) = IF c - 1 > PageLimit THEN c - PageLimit ELSE 1
  <2>1. Len(all) \in DOMAIN all /\ Len(all) > Len(old) /\ Len(all) - Len(old) = Len(page)
    BY <1>3, <1>4, <1>5
  <2>2. all[Len(all)] = c - Len(page)
    BY <1>9, <2>1
  <2>3. c - Len(page) = IF c - 1 > PageLimit THEN c - PageLimit ELSE 1
    BY <1>1, <1>2
  <2>4. QED
    BY <2>2, <2>3 DEF Last
<1>14. QED
  BY <1>11, <1>12, <1>13 DEF all, page

LEMMA ReadHistory ==
  ASSUME NEW events \in Seq(Nat), NEW next \in Nat \cup {None}, NEW h,
         h = [events |-> events, next |-> next, read |-> TRUE, failed |-> FALSE, loading |-> FALSE]
  PROVE  h \in History /\ h.events = events /\ h.next = next /\ h.read
BY DEF History

\* The first page stands for itself, the next one goes on where the list ends.
LEMMA PageJoins ==
  ASSUME Inv, NEW r \in Read, Expected(r), ~r.failed, PageOf(r, outcome.version), r.cursor # 0,
         hist' = [events |-> State.events \o r.page, next |-> r.next, read |-> TRUE,
                  failed |-> FALSE, loading |-> FALSE],
         outcome' = outcome
  PROVE  HistOK'
<1> DEFINE old == State.events
           all == old \o r.page
<1>1. PICK n \in Nat :
        /\ r.page = Page(n)
        /\ r.next = IF n > PageLimit THEN n + 1 - PageLimit ELSE None
        /\ IF r.cursor = None THEN n >= outcome.version ELSE n = r.cursor - 1
  BY DEF PageOf
<1>2. r.page \in Seq(Nat) /\ r.next \in Nat \cup {None} /\ r.cursor \in Nat \cup {None}
  BY DEF Read
<1>3. old \in Seq(Nat) /\ (~State.read => old = <<>>)
  <2>1. <<>> \in Seq(Nat)
    BY EmptySeq
  <2>2. QED
    BY <2>1 DEF State, NoPage, Inv, HistOK, History
<1> HIDE DEF old
<1>4. all \in Seq(Nat)
  BY <1>2, <1>3, ConcatProperties
<1>5. hist' = [events |-> all, next |-> r.next, read |-> TRUE, failed |-> FALSE, loading |-> FALSE]
  BY DEF old
<1>6. outcome.version \in Nat /\ PageLimit \in Nat \ {0} /\ None \notin Nat
  BY TerminalAssumption DEF Inv, ShownOK
\* The newest first, without a gap, down to the last of the page.
<1>7. /\ \A k \in DOMAIN all : k > 1 => all[k] = all[k - 1] - 1
      /\ outcome.version > 0 => all # <<>> /\ all[1] >= outcome.version
      /\ all # <<>> => Last(all) = IF n > PageLimit THEN n + 1 - PageLimit ELSE 1
  <2>1. CASE r.cursor = None
    <3>1. old = <<>> /\ n >= outcome.version
      BY <1>1, <1>3, <2>1 DEF Expected
    <3>2. all = Page(n)
      BY <1>1, <1>2, <3>1, ConcatEmptySeq
    <3> HIDE DEF all
    <3>3. QED
      BY <1>6, <3>1, <3>2, FirstPage
  <2>2. CASE r.cursor # None
    <3>1. hist # None /\ State = hist /\ hist.next = r.cursor
      BY <2>2 DEF Expected, State, NoPage
    <3>2. hist.read /\ r.cursor \in Nat /\ r.cursor >= 2 /\ HistoryIsOneList /\ old = hist.events
      BY <1>2, <2>2, <3>1 DEF Inv, HistOK, old
    <3>3. n = r.cursor - 1 /\ all = old \o Page(r.cursor - 1)
      BY <1>1, <2>2
    <3>4. /\ \A k \in DOMAIN old : k > 1 => old[k] = old[k - 1] - 1
          /\ outcome.version > 0 => old # <<>> /\ old[1] >= outcome.version
          /\ old # <<>> => Last(old) = r.cursor
      BY <2>2, <3>1, <3>2 DEF HistoryIsOneList
    <3> HIDE DEF all
    <3>5. /\ \A k \in DOMAIN all : k > 1 => all[k] = all[k - 1] - 1
          /\ old # <<>> => all # <<>> /\ all[1] = old[1]
          /\ Last(all) = IF r.cursor - 1 > PageLimit THEN r.cursor - PageLimit ELSE 1
      BY <1>3, <3>2, <3>3, <3>4, NextPage
    <3>6. (IF r.cursor - 1 > PageLimit THEN r.cursor - PageLimit ELSE 1)
            = IF n > PageLimit THEN n + 1 - PageLimit ELSE 1
      BY <1>6, <3>2, <3>3
    <3>7. QED
      BY <3>4, <3>5, <3>6
  <2>3. QED
    BY <2>1, <2>2
<1> HIDE DEF all
<1>8. hist' \in History /\ hist'.events = all /\ hist'.next = r.next /\ hist'.read
  BY <1>2, <1>4, <1>5, ReadHistory
<1>9. hist'.next # None => hist'.next >= 2
  <2>1. ASSUME r.next # None PROVE r.next >= 2
    <3>1. n > PageLimit /\ r.next = n + 1 - PageLimit
      BY <1>1, <2>1
    <3>2. QED
      BY <1>6, <3>1
  <2>2. QED
    BY <1>8, <2>1
<1>10. (IF r.next = None THEN 1 ELSE r.next) = IF n > PageLimit THEN n + 1 - PageLimit ELSE 1
  <2>1. CASE n > PageLimit
    <3>1. n + 1 - PageLimit \in Nat
      BY <1>6, <2>1
    <3>2. QED
      BY <1>1, <1>6, <2>1, <3>1
  <2>2. CASE ~(n > PageLimit)
    BY <1>1, <2>2
  <2>3. QED
    BY <2>1, <2>2
<1>11. HistoryIsOneList'
  BY <1>7, <1>8, <1>10 DEF HistoryIsOneList
<1>12. QED
  BY <1>8, <1>9, <1>11 DEF HistOK

LEMMA HistoryLandsOK ==
  ASSUME Inv, NEW i \in DOMAIN reads, HistoryLands(i)
  PROVE  Inv'
<1> DEFINE r == reads[i]
           failed == [State EXCEPT !.failed = TRUE, !.loading = FALSE]
           read == [events |-> State.events \o r.page, next |-> r.next, read |-> TRUE,
                    failed |-> FALSE, loading |-> FALSE]
<1>1. r \in Reads(histSeq, outcome.version) /\ r.step = "done"
  BY DEF Inv, ReadsOK, HistoryLands
<1>2. r \in Read /\ r.cursor # 0 /\ (r.gen = histSeq /\ ~r.failed => PageOf(r, outcome.version))
  BY <1>1 DEF Reads
<1>3. UNCHANGED <<version, newer, costs, pulls, ended, loads, rows, table, loadSeq, histSeq,
                  actions, syncing, outcome>>
  BY DEF HistoryLands, aws, service, screen
<1>4. ReadsOK'
  <2>1. reads' \in Seq(Reads(histSeq, outcome.version))
    BY RemoveAtTyped DEF HistoryLands, Inv, ReadsOK
  <2>2. QED
    BY <1>3, <2>1 DEF Inv, ReadsOK
<1>5. HistOK'
  <2>1. CASE hist' = hist
    BY <1>3, <2>1, HistSame DEF Inv
  <2>2. CASE Expected(r) /\ r.failed /\ hist' = failed
    <3>1. <<>> \in Seq(Nat)
      BY EmptySeq
    <3>2. State \in History /\ (State.next # None => State.read /\ State.next >= 2)
          /\ (~State.read => State.events = <<>>)
      BY <3>1 DEF State, NoPage, Inv, HistOK, History
    <3>3. /\ hist' \in History
          /\ hist'.events = State.events /\ hist'.next = State.next /\ hist'.read = State.read
      BY <2>2, <3>2 DEF History
    <3>4. State.read => HistoryIsOneList /\ State = hist /\ hist # None
      BY DEF State, NoPage, Inv, HistOK
    <3>5. HistoryIsOneList'
      BY <1>3, <3>3, <3>4 DEF HistoryIsOneList
    <3>6. QED
      BY <3>2, <3>3, <3>5 DEF HistOK
  <2>3. CASE Expected(r) /\ ~r.failed /\ hist' = read
    <3>1. PageOf(r, outcome.version)
      BY <1>2, <2>3 DEF Expected
    <3>2. QED
      BY <1>2, <1>3, <2>3, <3>1, PageJoins
  <2>4. QED
    BY <2>1, <2>2, <2>3 DEF HistoryLands
<1>6. LoadsOK' /\ ShownOK'
  BY <1>3, ScreenSame DEF Inv
<1>7. QED
  BY <1>3, <1>4, <1>5, <1>6, CostsSame, TableSame, ActionsSame, AwsSame
  DEF Inv, service, screen, aws

\* A step that touches only the reads and the history.
LEMMA HistoryKeeps ==
  ASSUME Inv, UNCHANGED <<aws, service, loads, actions, screen, syncing, outcome>>,
         ReadsOK', HistOK'
  PROVE  Inv'
<1>1. UNCHANGED <<version, newer, costs, pulls, ended, loads, rows, table, loadSeq,
                  actions, syncing, outcome>>
  BY DEF aws, service, screen
<1>2. LoadsOK' /\ ShownOK'
  BY <1>1, ScreenSame DEF Inv
<1>3. QED
  BY <1>1, <1>2, CostsSame, TableSame, ActionsSame, AwsSame DEF Inv, service, screen, aws

LEMMA ScrollHistoryOK ==
  ASSUME Inv, ScrollHistory
  PROVE  Inv'
<1>1. hist # None /\ hist \in History /\ hist.next # None /\ hist.next >= 2 /\ hist.read
      /\ HistoryIsOneList
  BY DEF ScrollHistory, Inv, HistOK
<1>2. hist' = [hist EXCEPT !.loading = TRUE]
      /\ UNCHANGED <<aws, service, loads, actions, screen, syncing, outcome, histSeq>>
  BY DEF ScrollHistory
<1>3. /\ hist' \in History /\ hist'.events = hist.events /\ hist'.next = hist.next
      /\ hist'.read = hist.read
  BY <1>1, <1>2 DEF History
<1>4. HistoryIsOneList'
  BY <1>1, <1>2, <1>3 DEF HistoryIsOneList
<1>5. HistOK'
  BY <1>1, <1>3, <1>4 DEF HistOK
<1>6. hist.next \in Nat \ {0}
  BY <1>1 DEF History
<1>7. ReadsOK'
  BY <1>2, <1>6, FetchKeeps DEF Inv, ScrollHistory
<1>8. QED
  BY <1>2, <1>5, <1>7, HistoryKeeps

\* A step that moves the cursor or changes the section.
LEMMA TableMoves ==
  ASSUME Inv, table' \in [section : Sections, cursor : Nat],
         UNCHANGED <<rows, loadSeq, history>>, LoadHistory,
         UNCHANGED <<aws, faults, service, loads, actions, syncing, outcome>>
  PROVE  Inv'
<1>1. UNCHANGED <<version, newer, costs, pulls, ended, loads, rows, loadSeq, hist, histSeq,
                  actions, syncing, outcome>>
  BY DEF aws, service, history
<1>2. ReadsOK'
  BY <1>1, LoadHistoryKeeps DEF Inv
<1>3. TableOK'
  BY <1>1 DEF Inv, TableOK
<1>4. LoadsOK' /\ ShownOK'
  BY <1>1, ScreenSame DEF Inv
<1>5. QED
  BY <1>1, <1>2, <1>3, <1>4, CostsSame, HistSame, ActionsSame, AwsSame DEF Inv, service, aws

LEMMA MoveCursorOK ==
  ASSUME Inv, MoveCursor
  PROVE  Inv'
<1>1. PICK line \in 1..Len(Visible(rows, table.section)) : table' = [table EXCEPT !.cursor = line]
  BY DEF MoveCursor
<1>2. line \in Nat
  <2>1. Len(Visible(rows, table.section)) \in Nat
    BY VisibleTyped, LenProperties
  <2>2. QED
    BY <2>1
<1>3. table' \in [section : Sections, cursor : Nat]
  BY <1>1, <1>2 DEF Inv, TableOK
<1>4. QED
  BY <1>3, TableMoves DEF MoveCursor

LEMMA SetSectionOK ==
  ASSUME Inv, SetSection
  PROVE  Inv'
<1> DEFINE first == [table EXCEPT !.cursor = 1]
<1>1. PICK section \in Sections :
        table' = ApplyFilter(rows, [first EXCEPT !.section = section], SelectedIn(rows, first))
  BY DEF SetSection
<1>2. first \in [section : Sections, cursor : Nat]
  BY DEF Inv, TableOK
<1> HIDE DEF first
<1>3. [first EXCEPT !.section = section] \in [section : Sections, cursor : Nat]
  BY <1>2
<1>4. table' \in [section : Sections, cursor : Nat]
  BY <1>1, <1>3, ApplyFilterFacts
<1>5. QED
  BY <1>4, TableMoves DEF SetSection

LEMMA ReloadHistoryOK ==
  ASSUME Inv, ReloadHistory
  PROVE  Inv'
<1>1. UNCHANGED <<aws, service, loads, actions, screen, syncing, outcome>>
      /\ hist' = None /\ histSeq' = histSeq + 1
  BY DEF ReloadHistory, ClearHistory
<1>2. ReadsOK'
  BY <1>1, FetchKeeps DEF Inv, ReloadHistory
<1>3. HistOK'
  BY <1>1 DEF HistOK
<1>4. QED
  BY <1>1, <1>2, <1>3, HistoryKeeps

-----------------------------------------------------------------------------
(* Loads start and land.                                                   *)

\* A new load has seen nothing yet, and the others are no longer the newest.
LEMMA StartLoadKeeps ==
  ASSUME Inv, NEW force \in BOOLEAN, StartLoad(force), UNCHANGED <<version, newer, rows>>
  PROVE  LoadsOK' /\ loadSeq' \in 0..MaxLoads
<1>1. loadSeq \in 0..MaxLoads /\ loadSeq' = loadSeq + 1 /\ loadSeq' \in 0..MaxLoads
  BY TerminalAssumption DEF Inv, TableOK, StartLoad
<1>2. NewLoad(force) \in Load /\ NewLoad(force).seen = None /\ NewLoad(force).step = "list"
  BY DEF NewLoad, Load
<1>3. loads \in [0..MaxLoads -> Load \cup {None}]
      /\ loads' = [loads EXCEPT ![loadSeq'] = NewLoad(force)]
  BY <1>1 DEF Inv, LoadsOK, StartLoad
<1>4. loads' \in [0..MaxLoads -> Load \cup {None}]
  BY <1>1, <1>2, <1>3
<1>5. loads'[loadSeq'] = NewLoad(force)
      /\ \A s \in 0..MaxLoads \ {loadSeq'} : loads'[s] = loads[s]
  BY <1>1, <1>3
<1> HIDE DEF LoadsOK
<1>6. ASSUME NEW s \in 0..MaxLoads, loads'[s] # None, s # loadSeq'
      PROVE  /\ s <= loadSeq' /\ s # loadSeq'
             /\ loads'[s].step \in {"costs", "pull"} \/ (loads'[s].step = "done" /\ ~loads'[s].failed)
                  => loads'[s].seen # None
             /\ loads'[s].seen # None => Past(loads[s].seen) /\ loads'[s].seen = loads[s].seen
  <2>1. loads'[s] = loads[s]
    BY <1>5, <1>6
  <2>2. s <= loadSeq
    BY <1>6, <2>1 DEF Inv, LoadsOK
  <2>3. s <= loadSeq'
    BY <1>1, <2>2
  <2>4. QED
    BY <1>6, <2>1, <2>3 DEF Inv, LoadsOK
<1>7. ASSUME NEW s \in 0..MaxLoads, s = loadSeq'
      PROVE  s <= loadSeq' /\ loads'[s].seen = None /\ loads'[s].step = "list"
  BY <1>1, <1>2, <1>5, <1>7
<1>8. QED
  BY <1>1, <1>4, <1>6, <1>7 DEF LoadsOK, Past

\* To clear the history is to wait for no read in flight.
LEMMA ClearHistoryKeeps ==
  ASSUME Inv, ClearHistory
  PROVE  HistOK' /\ (UNCHANGED reads => ReadsOK')
<1>1. hist' = None /\ histSeq' = histSeq + 1
  BY DEF ClearHistory
<1>2. histSeq' \in Nat /\ reads \in Seq(Reads(histSeq', outcome'.version))
  BY <1>1, ReadsOutdated DEF Inv, ReadsOK
<1>3. QED
  BY <1>1, <1>2 DEF HistOK, ReadsOK

LEMMA TickOK ==
  ASSUME Inv, Tick
  PROVE  Inv'
<1>1. UNCHANGED <<version, newer, costs, pulls, ended, rows, table, hist, histSeq, reads,
                  actions, syncing, outcome>>
  BY DEF Tick, aws, service, history
<1>2. LoadsOK' /\ loadSeq' \in 0..MaxLoads
  BY <1>1, StartLoadKeeps DEF Tick
<1>3. TableOK'
  BY <1>1, <1>2 DEF Inv, TableOK
<1>4. ShownOK'
  BY <1>1 DEF Inv, ShownOK, Past
<1>5. QED
  BY <1>1, <1>2, <1>3, <1>4, CostsSame, HistSame, ReadsSame, ActionsSame, AwsSame
  DEF Inv, service, aws

LEMMA ReloadOK ==
  ASSUME Inv, Reload
  PROVE  Inv'
<1>1. UNCHANGED <<version, newer, costs, pulls, ended, rows, table, reads,
                  actions, syncing, outcome>>
  BY DEF Reload, aws, service
<1>2. LoadsOK' /\ loadSeq' \in 0..MaxLoads
  BY <1>1, StartLoadKeeps DEF Reload
<1>3. TableOK'
  BY <1>1, <1>2 DEF Inv, TableOK
<1>4. ShownOK'
  BY <1>1 DEF Inv, ShownOK, Past
<1>5. HistOK' /\ ReadsOK'
  BY <1>1, ClearHistoryKeeps DEF Reload
<1>6. QED
  BY <1>1, <1>2, <1>3, <1>4, <1>5, CostsSame, ActionsSame, AwsSame DEF Inv, service, aws


\* The newest load fills the table; an older one is dropped.
LEMMA LoadedFacts ==
  ASSUME Inv, NEW s \in 0..MaxLoads, Loaded(s)
  PROVE  \/ UNCHANGED <<rows, table, reads, outcome>>
         \/ /\ s = loadSeq /\ rows' = loads[s].seen /\ rows' \in Listing /\ rows' # None
            /\ table' = ApplyFilter(rows', table, Selected) /\ LoadHistory
            /\ outcome' = [outcome EXCEPT !.shown = TRUE]
            /\ Past(rows')
            /\ rows # None => rows'.version >= rows.version /\ rows'.newer >= rows.newer
            /\ ~outcome.shown => rows'.version >= outcome.version
<1> SUFFICES ASSUME ~(Outdated(s) \/ loads[s].failed)
             PROVE  /\ s = loadSeq /\ loads[s].seen # None /\ loads[s].seen \in Listing
                    /\ Past(loads[s].seen)
                    /\ rows # None => /\ loads[s].seen.version >= rows.version
                                      /\ loads[s].seen.newer >= rows.newer
                    /\ ~outcome.shown => loads[s].seen.version >= outcome.version
  BY DEF Loaded
<1>1. loads[s] # None /\ loads[s].step = "done" /\ ~loads[s].failed /\ loads[s] \in Load
  BY LoadFacts DEF Loaded, InStep
<1>2. s <= loadSeq /\ loadSeq \in 0..MaxLoads
  BY <1>1 DEF Inv, LoadsOK, TableOK
<1>3. s = loadSeq
  BY <1>2 DEF Outdated
<1>4. loads[s].seen # None
  BY <1>1 DEF Inv, LoadsOK
<1>5. loads[s].seen \in Listing
  BY <1>1, <1>4 DEF Load
<1>6. QED
  BY <1>1, <1>3, <1>4, <1>5 DEF Inv, LoadsOK

\* The outcome that is shown changes nothing for the history.
LEMMA HistSameVersion == HistOK /\ hist' = hist /\ outcome'.version = outcome.version => HistOK'
BY DEF HistOK, HistoryIsOneList

LEMMA LoadedOK ==
  ASSUME Inv, NEW s \in 0..MaxLoads, Loaded(s)
  PROVE  Inv'
<1>1. UNCHANGED <<version, newer, costs, pulls, ended, loadSeq, hist, histSeq, actions, syncing>>
  BY DEF Loaded, aws, service
<1>2. /\ loads' \in [0..MaxLoads -> Load \cup {None}]
      /\ \A r \in 0..MaxLoads : loads'[r] # None => r # s /\ loads'[r] = loads[r]
  <2>1. loads \in [0..MaxLoads -> Load \cup {None}] /\ loads' = [loads EXCEPT ![s] = None]
    BY DEF Inv, LoadsOK, Loaded
  <2>2. QED
    BY <2>1
<1>3. CASE UNCHANGED <<rows, table, reads, outcome>>
  <2>1. LoadsOK'
    BY <1>1, <1>2, <1>3 DEF Inv, LoadsOK, Past
  <2>2. TableOK' /\ ShownOK'
    BY <1>1, <1>3 DEF Inv, TableOK, ShownOK, Past
  <2>3. QED
    BY <1>1, <1>3, <2>1, <2>2, CostsSame, HistSame, ReadsSame, ActionsSame, AwsSame
    DEF Inv, service, aws
<1>4. CASE /\ s = loadSeq /\ rows' \in Listing /\ rows' # None
           /\ table' = ApplyFilter(rows', table, Selected) /\ LoadHistory
           /\ outcome' = [outcome EXCEPT !.shown = TRUE]
           /\ Past(rows')
           /\ rows # None => rows'.version >= rows.version /\ rows'.newer >= rows.newer
           /\ ~outcome.shown => rows'.version >= outcome.version
  <2>1. outcome' \in [version : Nat, shown : BOOLEAN] /\ outcome'.version = outcome.version
        /\ outcome.version \in Nat /\ outcome.version <= version /\ outcome.shown \in BOOLEAN
    BY <1>4 DEF Inv, ShownOK
  <2>2. rows'.version >= outcome.version
    <3>1. rows'.version \in Nat
      BY <1>4 DEF Listing
    <3>2. CASE rows = None /\ outcome.shown
      BY <2>1, <3>1, <3>2 DEF Inv, ShownOK
    <3>3. CASE rows # None /\ outcome.shown
      <4>1. rows.version \in Nat /\ rows.version >= outcome.version
        BY <3>3 DEF Inv, ShownOK, TableOK, Listing
      <4>2. QED
        BY <1>4, <2>1, <3>1, <3>3, <4>1
    <3>4. QED
      BY <1>4, <3>2, <3>3
  <2>3. ShownOK'
    BY <1>1, <1>4, <2>1, <2>2 DEF ShownOK, Past
  <2>4. LoadsOK'
    BY <1>1, <1>2, <1>4 DEF Inv, LoadsOK, Past
  <2>5. TableOK'
    <3>1. table' \in [section : Sections, cursor : Nat]
      BY <1>4, ApplyFilterFacts DEF Inv, TableOK
    <3>2. QED
      BY <1>1, <1>4, <3>1 DEF Inv, TableOK
  <2>6. ReadsOK' /\ HistOK'
    BY <1>1, <1>4, <2>1, LoadHistoryKeeps, HistSameVersion DEF Inv
  <2>7. QED
    BY <1>1, <2>3, <2>4, <2>5, <2>6, CostsSame, ActionsSame, AwsSame DEF Inv, service, aws
<1>5. QED
  BY <1>3, <1>4, LoadedFacts

-----------------------------------------------------------------------------
(* Actions, their outcome, and what others do.                             *)

LEMMA NewActionTyped ==
  ASSUME NEW kind \in {"account", "edit", "decide", "sync"}, NEW v
  PROVE  NewAction(kind) \in Calls(v)
BY DEF NewAction, Calls, ActionCall

LEMMA ActionStarts ==
  ASSUME Inv, NEW kind \in {"account", "edit", "decide", "sync"},
         actions' = Append(actions, NewAction(kind)), syncing' \in BOOLEAN,
         UNCHANGED <<aws, faults, service, loads, reads, screen, history, outcome>>
  PROVE  Inv'
<1>1. UNCHANGED <<version, newer, costs, pulls, ended, loads, reads, rows, table, loadSeq, hist,
                  histSeq, outcome>>
  BY DEF aws, service, screen, history
<1>2. actions' \in Seq(Calls(version))
  <2>1. actions \in Seq(Calls(version)) /\ NewAction(kind) \in Calls(version)
    BY NewActionTyped DEF Inv, ActionsOK
  <2>2. QED
    BY <2>1
<1>3. ActionsOK'
  BY <1>1, <1>2 DEF ActionsOK
<1>4. LoadsOK' /\ ShownOK'
  BY <1>1, ScreenSame DEF Inv
<1>5. QED
  BY <1>1, <1>3, <1>4, CostsSame, TableSame, HistSame, ReadsSame, AwsSame
  DEF Inv, service, screen, aws

LEMMA ConfirmOK ==
  ASSUME Inv, NEW kind \in {"account", "edit", "decide"}, Confirm(kind)
  PROVE  Inv'
BY ActionStarts DEF Confirm, Inv, ActionsOK

LEMMA KeysOK ==
  ASSUME Inv, Sync \/ Extend \/ Close \/ DecideRequest \/ Withdraw
  PROVE  Inv'
<1>1. CASE Sync
  BY <1>1, ActionStarts DEF Sync
<1>2. CASE Extend \/ Close \/ DecideRequest \/ Withdraw
  BY <1>2, ConfirmOK DEF Extend, Close, DecideRequest, Withdraw
<1>3. QED
  BY <1>1, <1>2

\* AWS goes on, and the rest stays but for what the service answers.
LEMMA AwsGoesOn ==
  ASSUME Inv, OldChanges \/ NewChanges \/ UNCHANGED aws,
         UNCHANGED <<service, loads, reads, screen, history, outcome>>, ActionsOK'
  PROVE  Inv'
<1>1. UNCHANGED <<costs, pulls, ended, loads, reads, rows, table, loadSeq, hist, histSeq, outcome>>
  BY DEF service, screen, history
<1>2. /\ version \in Nat /\ newer \in Nat /\ version' \in Nat /\ newer' \in Nat
      /\ version' >= version /\ newer' >= newer
  BY DEF Inv, AwsOK, OldChanges, NewChanges, aws
<1>3. AwsOK'
  BY <1>2 DEF AwsOK
<1>4. LoadsOK' /\ ShownOK'
  BY <1>1, <1>2, LoadsLater, ShownLater DEF Inv
<1>5. QED
  BY <1>1, <1>3, <1>4, CostsSame, TableSame, HistSame, ReadsSame DEF Inv, service, screen

LEMMA VersionLater ==
  ASSUME AwsOK, OldChanges \/ NewChanges \/ UNCHANGED aws
  PROVE  version' \in Nat /\ version' >= version
BY DEF AwsOK, OldChanges, NewChanges, aws

LEMMA RunOK ==
  ASSUME Inv, NEW i \in DOMAIN actions, Run(i)
  PROVE  Inv'
<1> DEFINE done == [actions[i] EXCEPT !.step = "done", !.result = version']
<1>1. OldChanges \/ NewChanges \/ UNCHANGED aws
  BY DEF Run
<1>2. version' \in Nat /\ version' >= version /\ version \in Nat
  BY <1>1, VersionLater DEF Inv, AwsOK
<1>3. actions \in Seq(Calls(version')) /\ actions[i] \in ActionCall
  <2>1. Calls(version) \subseteq Calls(version')
    BY <1>2 DEF Calls
  <2>2. actions \in Seq(Calls(version)) /\ actions[i] \in Calls(version)
    BY DEF Inv, ActionsOK
  <2>3. QED
    BY <2>1, <2>2, SeqWidens DEF Calls
<1>4. done \in ActionCall /\ done.step = "done" /\ done.result = version'
  BY <1>2, <1>3 DEF ActionCall
<1>5. actions' = [actions EXCEPT ![i] = done]
  <2>1. actions' = [actions EXCEPT ![i].step = "done", ![i].result = version']
    BY DEF Run
  <2>2. QED
    BY <1>3, <2>1, Zenon
<1> HIDE DEF done
<1>6. done \in Calls(version')
  BY <1>2, <1>4 DEF Calls
<1>7. ActionsOK'
  <2>1. actions' \in Seq(Calls(version'))
    BY <1>3, <1>5, <1>6, SeqReplaceTyped
  <2>2. syncing' \in BOOLEAN
    BY DEF Run, Inv, ActionsOK
  <2>3. QED
    BY <2>1, <2>2 DEF ActionsOK
<1>8. QED
  BY <1>1, <1>7, AwsGoesOn DEF Run

LEMMA OtherChangeOK ==
  ASSUME Inv, OtherChange
  PROVE  Inv'
<1>1. (OldChanges \/ NewChanges) /\ UNCHANGED <<actions, syncing>>
  BY DEF OtherChange
<1>2. version' \in Nat /\ version' >= version
  BY <1>1, VersionLater DEF Inv
<1>3. ActionsOK'
  BY <1>1, <1>2, ActionsLater DEF Inv
<1>4. QED
  BY <1>1, <1>3, AwsGoesOn DEF OtherChange

LEMMA OutcomeOK ==
  ASSUME Inv, NEW i \in DOMAIN actions, Outcome(i)
  PROVE  Inv'
<1> DEFINE a == actions[i]
           sync == a.kind = "sync"
<1>1. UNCHANGED <<version, newer, costs, pulls, ended, rows, table, reads>>
  BY DEF Outcome, aws, service
<1>2. actions \in Seq(Calls(version)) /\ a \in Calls(version) /\ a.step = "done"
  BY DEF Inv, ActionsOK, Outcome
<1>3. a.result \in 0..version /\ version \in Nat
  BY <1>2 DEF Calls, Inv, AwsOK
<1>4. ActionsOK'
  <2>1. actions' \in Seq(Calls(version))
    BY <1>2, RemoveAtTyped DEF Outcome
  <2>2. syncing' \in BOOLEAN
    BY DEF Outcome
  <2>3. QED
    BY <1>1, <2>1, <2>2 DEF ActionsOK
<1>5. ShownOK'
  <2>1. outcome.version \in Nat /\ outcome.version <= version
    BY DEF Inv, ShownOK
  <2>2. Max({a.result, outcome.version}) = IF a.result >= outcome.version THEN a.result
                                          ELSE outcome.version
    BY <1>3, <2>1, MaxOfTwo
  <2>3. outcome' = [version |-> Max({a.result, outcome.version}), shown |-> FALSE]
    BY DEF Outcome
  <2> HIDE DEF a
  <2>4. outcome' \in [version : Nat, shown : BOOLEAN] /\ outcome'.version <= version
        /\ ~outcome'.shown
    BY <1>3, <2>1, <2>2, <2>3
  <2>5. QED
    BY <1>1, <2>4 DEF Inv, ShownOK, Past
<1>6. LoadsOK' /\ loadSeq' \in 0..MaxLoads
  <2>1. sync \in BOOLEAN /\ StartLoad(sync)
    BY DEF Outcome
  <2> HIDE DEF sync
  <2>2. QED
    BY <1>1, <2>1, StartLoadKeeps
<1>7. TableOK'
  BY <1>1, <1>6 DEF Inv, TableOK
<1>8. HistOK' /\ ReadsOK'
  BY <1>1, ClearHistoryKeeps DEF Outcome
<1>9. QED
  BY <1>1, <1>4, <1>5, <1>6, <1>7, <1>8, CostsSame, AwsSame DEF Inv, service, aws


-----------------------------------------------------------------------------
LEMMA InitOK == Init => Inv
<1> SUFFICES ASSUME Init
             PROVE  Inv
  OBVIOUS
<1>1. NewLoad(FALSE) \in Load /\ NewLoad(FALSE).seen = None /\ NewLoad(FALSE).step = "list"
  BY DEF NewLoad, Load
<1>2. loads = [s \in 0..MaxLoads |-> IF s = 0 THEN NewLoad(FALSE) ELSE None]
      /\ loadSeq = 0 /\ 0 \in 0..MaxLoads
  BY TerminalAssumption DEF Init
<1>3. /\ loads \in [0..MaxLoads -> Load \cup {None}]
      /\ \A s \in 0..MaxLoads : loads[s] # None => s = 0 /\ loads[s] = NewLoad(FALSE)
  BY <1>1, <1>2
<1>4. LoadsOK
  <2>1. \A s \in 0..MaxLoads : loads[s] # None =>
          s <= loadSeq /\ loads[s].seen = None /\ loads[s].step = "list"
    <3>1. 0 <= loadSeq
      BY <1>2
    <3>2. QED
      BY <1>1, <1>3, <3>1, Zenon
  <2>2. \A s \in 0..MaxLoads : ~(loads[s].step \in {"costs", "pull"} \/ loads[s].step = "done")
                                \/ loads[s] = None
    BY <2>1
  <2>3. QED
    BY <1>3, <2>1, <2>2 DEF LoadsOK
<1>5. AwsOK /\ TableOK /\ ShownOK
  BY <1>2 DEF Init, AwsOK, TableOK, ShownOK, Sections
<1>6. CostsOK
  BY DEF Init, CostsOK
<1>7. ActionsOK /\ ReadsOK
  BY EmptySeq DEF Init, ActionsOK, ReadsOK
<1>8. HistOK
  BY DEF Init, HistOK
<1>9. QED
  BY <1>4, <1>5, <1>6, <1>7, <1>8 DEF Inv

LEMMA VarsSame ==
  ASSUME Inv, UNCHANGED vars
  PROVE  Inv'
<1>1. UNCHANGED <<aws, service, loads, reads, actions, screen, history, syncing, outcome>>
  BY DEF vars
<1>2. ReadsOK' /\ HistOK'
  BY <1>1, ReadsSame, HistSame DEF Inv, history
<1>3. QED
  BY <1>1, <1>2, HistoryKeeps

LEMMA NextOK ==
  ASSUME Inv, Next
  PROVE  Inv'
<1>1. ASSUME NEW s \in 0..MaxLoads, LoadList(s) \/ WarmCosts(s) \/ Loaded(s)
      PROVE  Inv'
  BY <1>1, LoadListOK, LoadCostsOK, LoadPullOK, LoadedOK DEF WarmCosts
<1>2. ASSUME NEW i \in DOMAIN reads, SearchPage(i) \/ HistoryLands(i)
      PROVE  Inv'
  BY <1>2, SearchPageOK, HistoryLandsOK
<1>3. CASE ScrollHistory \/ MoveCursor \/ SetSection \/ ReloadHistory
  BY <1>3, ScrollHistoryOK, MoveCursorOK, SetSectionOK, ReloadHistoryOK
<1>4. CASE Tick \/ Reload
  BY <1>4, TickOK, ReloadOK
<1>5. CASE Sync \/ Extend \/ Close \/ DecideRequest \/ Withdraw
  BY <1>5, KeysOK
<1>6. ASSUME NEW i \in DOMAIN actions, Run(i) \/ Outcome(i)
      PROVE  Inv'
  BY <1>6, RunOK, OutcomeOK
<1>7. CASE OtherChange
  BY <1>7, OtherChangeOK
<1>8. QED
  BY <1>1, <1>2, <1>3, <1>4, <1>5, <1>6, <1>7 DEF Next

\* The inductive invariant: the messages under way are of a state that the table, the
\* history and the costs have reached or will reach (model.Update, Service.Costs).
THEOREM Invariant == Spec => []Inv
<1>1. Inv /\ [Next]_vars => Inv'
  BY NextOK, VarsSame
<1>2. QED
  BY InitOK, <1>1, PTL DEF Spec

\* The costs on the screen are those of the newest pull that came back, however slow the
\* others are (Service.pullCosts).
THEOREM CostsAreOfNewestPullHolds == Spec => []CostsAreOfNewestPull
<1>1. Inv => CostsAreOfNewestPull
  BY DEF Inv, CostsOK, CostsAreOfNewestPull, CostState
<1>2. QED
  BY <1>1, Invariant, PTL

\* The pages of history make one list without a gap or a double, which has the event of the
\* last outcome, for pages of any length (historyMsg, clearHistory).
THEOREM HistoryIsOneListHolds == Spec => []HistoryIsOneList
<1>1. Inv => HistoryIsOneList
  BY DEF Inv, HistOK, HistoryIsOneList
<1>2. QED
  BY <1>1, Invariant, PTL

-----------------------------------------------------------------------------
(* What the steps do to the table.                                         *)

\* Only a load that lands changes the rows.
LEMMA RowsOfLoad ==
  ASSUME [Next]_vars, rows' # rows
  PROVE  \E s \in 0..MaxLoads : Loaded(s)
<1>1. ASSUME NEW s \in 0..MaxLoads, LoadList(s) \/ WarmCosts(s)
      PROVE  UNCHANGED rows
  BY <1>1 DEF LoadList, WarmCosts, LoadCosts, LoadPull, LoadElse, screen
<1>2. ASSUME NEW i \in DOMAIN reads, SearchPage(i) \/ HistoryLands(i)
      PROVE  UNCHANGED rows
  BY <1>2 DEF SearchPage, HistoryLands, screen
<1>3. ASSUME ScrollHistory \/ MoveCursor \/ SetSection \/ ReloadHistory \/ Tick \/ Reload
      PROVE  UNCHANGED rows
  BY <1>3 DEF ScrollHistory, MoveCursor, SetSection, ReloadHistory, Tick, Reload, screen
<1>4. ASSUME Sync \/ Extend \/ Close \/ DecideRequest \/ Withdraw \/ OtherChange
      PROVE  UNCHANGED rows
  BY <1>4 DEF Sync, Extend, Close, DecideRequest, Withdraw, Confirm, OtherChange, screen
<1>5. ASSUME NEW i \in DOMAIN actions, Run(i) \/ Outcome(i)
      PROVE  UNCHANGED rows
  BY <1>5 DEF Run, Outcome, screen
<1>6. CASE UNCHANGED vars
  BY <1>6 DEF vars, screen
<1>7. QED
  BY <1>1, <1>2, <1>3, <1>4, <1>5, <1>6 DEF Next

LEMMA TableKeepsUpStep ==
  ASSUME Inv, Inv', [Next]_vars, rows' # None
  PROVE  /\ rows # None => rows'.version >= rows.version /\ rows'.newer >= rows.newer
         /\ outcome'.shown => rows'.version >= outcome'.version
<1>1. outcome'.shown => rows'.version >= outcome'.version
  BY DEF Inv, ShownOK
<1>2. CASE rows' = rows
  <2>1. rows # None => rows.version \in Nat /\ rows.newer \in Nat
    BY DEF Inv, TableOK, Listing
  <2>2. QED
    BY <1>1, <1>2, <2>1
<1>3. CASE rows' # rows
  <2>1. PICK s \in 0..MaxLoads : Loaded(s)
    BY <1>3, RowsOfLoad
  <2>2. QED
    BY <1>1, <1>3, <2>1, LoadedFacts
<1>4. QED
  BY <1>2, <1>3

\* The table never goes back, and shows what the last outcome made of the account once it
\* was loaded after it, in whatever order the loads land (loadedMsg, loadSeq).
THEOREM TableKeepsUpHolds == Spec => TableKeepsUp
<1>1. Inv /\ Inv' /\ [Next]_vars =>
        [rows' # None =>
           /\ rows # None => rows'.version >= rows.version /\ rows'.newer >= rows.newer
           /\ outcome'.shown => rows'.version >= outcome'.version]_vars
  BY TableKeepsUpStep
<1>2. QED
  BY <1>1, Invariant, PTL DEF Spec, TableKeepsUp

LEMMA SelectionIsKeptStep ==
  ASSUME Inv, [Next]_vars, rows' # rows, Contains(Visible(rows', table.section), Selected)
  PROVE  Selected' = Selected
<1>1. PICK s \in 0..MaxLoads : Loaded(s)
  BY RowsOfLoad
<1>2. table' = ApplyFilter(rows', table, Selected)
  BY <1>1, LoadedFacts
<1>3. table \in [section : Sections, cursor : Nat]
  BY DEF Inv, TableOK
<1>4. SelectedIn(rows', table') = Selected
  BY <1>2, <1>3, ApplyFilterFacts
<1>5. QED
  BY <1>4 DEF Selected

\* The cursor stays on its row while that is still in the section (applyFilter).
THEOREM SelectionIsKeptHolds == Spec => SelectionIsKept
<1>1. Inv /\ [Next]_vars =>
        [rows' # rows /\ Contains(Visible(rows', table.section), Selected)
           => Selected' = Selected]_vars
  BY SelectionIsKeptStep
<1>2. QED
  BY <1>1, Invariant, PTL DEF Spec, SelectionIsKept

=============================================================================
