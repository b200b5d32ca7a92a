------------------------------ MODULE Terminal ------------------------------
(***************************************************************************)
(* The terminal interface over core.Service (internal/tui, and the cost    *)
(* cache of core/service.go that its loads fill).                          *)
(*                                                                         *)
(* Update handles one message at a time and never waits.  Commands run     *)
(* beside it: loads of the table, reads of history pages, a sync, actions  *)
(* that the operator confirmed.  Their results come back as messages, in   *)
(* any order, and other processes change the accounts meanwhile.           *)
(*                                                                         *)
(* The table has two rows.  Old is an account whose changes are counted,   *)
(* so that what a reader saw of it is that count; its history has one      *)
(* event for every change.  New is a request that comes later, stands      *)
(* above it, and leaves the table when somebody decides it.                *)
(***************************************************************************)
EXTENDS Integers, Sequences, FiniteSets, SequencesExt, FiniteSetsExt

CONSTANTS
  None,
  Old, New,     \* ids of the rows
  MaxVersion,   \* bound: changes of Old, the last of which closes it
  MaxChanges,   \* bound: changes of both rows
  MaxLoads,     \* bound: loads that the terminal starts
  MaxBusy,      \* bound: commands under way at the same time
  MaxClears,    \* bound: times that the history is cleared
  MaxFaults,    \* bound: calls that fail
  PageLimit     \* events on a page of history (50)

ASSUME TerminalAssumption ==
  /\ Old # New /\ None \notin {Old, New} \cup Nat
  /\ None \notin [version : Nat, newer : Nat]
  /\ MaxVersion \in Nat /\ MaxLoads \in Nat /\ PageLimit \in Nat \ {0}

VARIABLES
  version,   \* AWS: changes made to Old so far
  newer,     \* AWS: New did not come yet (0), is pending (1), was decided (2)
  faults,
  costs,     \* Service.costs: [seq, ok, spend]
  pulls,     \* Service.costPulls
  ended,     \* the newest pull that came back (kept for the properties)
  loads,     \* loads under way, by their sequence number
  reads,     \* reads of history pages under way
  actions,   \* confirmed actions under way, and the sync
  rows,      \* model.rows: the listing in the table, None before the first load
  table,     \* model.section and model.grid.cursor
  loadSeq,
  hist,      \* model.hist of Old: None until a page was read
  histSeq,
  syncing,
  outcome    \* what the last outcome says of the account (kept for the properties)

aws == <<version, newer>>
service == <<costs, pulls, ended>>
screen == <<rows, table, loadSeq>>
history == <<hist, histSeq>>
vars == <<aws, faults, service, loads, reads, actions, screen, history,
          syncing, outcome>>

-----------------------------------------------------------------------------
(* The table.                                                              *)

Sections == {"open", "closed"}
Closed(listing) == listing.version = MaxVersion

(* inSection.  The sections of active and of expiring accounts, which       *)
(* narrow the open one, are left out.                                       *)
InSection(id, listing, section) ==
  IF id = New THEN listing.newer = 1 /\ section = "open"
  ELSE Closed(listing) = (section = "closed")

(* model.visible: the newest row first. *)
Visible(listing, section) ==
  LET shown(id) == listing # None /\ InSection(id, listing, section)
  IN (IF shown(New) THEN <<New>> ELSE <<>>) \o (IF shown(Old) THEN <<Old>> ELSE <<>>)

Clamp(cursor, n) == Max({1, Min({cursor, n})})

SelectedIn(listing, view) ==
  LET visible == Visible(listing, view.section) IN
  IF view.cursor <= Len(visible) THEN visible[view.cursor] ELSE None
Selected == SelectedIn(rows, table)

\* Faulty variant: the cursor keeps its line and not its row.
ApplyFilterByLine(listing, view, kept) ==
  [view EXCEPT !.cursor = Clamp(@, Len(Visible(listing, view.section)))]

(* applyFilter: the cursor follows its row, or stays on its line. *)
ApplyFilter(listing, view, kept) ==
  LET visible == Visible(listing, view.section) IN
  [view EXCEPT !.cursor = IF Contains(visible, kept)
                          THEN CHOOSE i \in DOMAIN visible : visible[i] = kept
                          ELSE Clamp(@, Len(visible))]

-----------------------------------------------------------------------------
(* A load, step by step: list the accounts, pull their costs, come back.    *)

NewLoad(force) ==
  [force |-> force, step |-> "list", seen |-> None, pull |-> 0, failed |-> FALSE]

(* Commands under way. *)
Busy == Cardinality({s \in DOMAIN loads : loads[s] # None}) + Len(reads) + Len(actions)

(* load and poll number the load that they start. *)
StartLoad(force) ==
  /\ loadSeq < MaxLoads
  /\ loadSeq' = loadSeq + 1
  /\ loads' = [loads EXCEPT ![loadSeq + 1] = NewLoad(force)]

Step(s, load) == loads' = [loads EXCEPT ![s] = load]
InStep(s, step) == loads[s] # None /\ loads[s].step = step
Fault == faults < MaxFaults /\ faults' = faults + 1

LoadElse == UNCHANGED <<aws, reads, actions, screen, history, syncing, outcome>>

(* Inventory, forced or with nothing cached. *)
LoadList(s) ==
  /\ InStep(s, "list")
  /\ \/ Step(s, [loads[s] EXCEPT !.step = "costs",
                                   !.seen = [version |-> version, newer |-> newer]]) /\ UNCHANGED faults
     \/ Step(s, [loads[s] EXCEPT !.step = "done", !.failed = TRUE]) /\ Fault
  /\ UNCHANGED service /\ LoadElse

(* The spend of a closed account is not asked for. *)
Pulls(listing) == ~Closed(listing)

(* Costs answers from its entry, or takes a number and pulls.  An entry of  *)
(* any age is found: younger than CostTTL, or than costRetryAfter, or not.  *)
LoadCosts(s) ==
  /\ \/ /\ InStep(s, "costs")
        /\ ~Pulls(loads[s].seen) \/ (costs.seq > 0 /\ ~loads[s].force)
        /\ Step(s, [loads[s] EXCEPT !.step = "done"]) /\ UNCHANGED pulls
     \/ /\ InStep(s, "costs") /\ Pulls(loads[s].seen)
        /\ pulls' = pulls + 1
        /\ Step(s, [loads[s] EXCEPT !.step = "pull", !.pull = pulls + 1])
  /\ UNCHANGED <<costs, ended, faults>> /\ LoadElse

\* Faulty variant: the pull that comes back last writes.
NewestAlways(pull) == TRUE

(* A pull writes only when no later pull wrote first. *)
Newest(pull) == costs.seq < pull

NewestEnded(pull, ok) == IF pull > ended.seq THEN [seq |-> pull, ok |-> ok] ELSE ended

LoadPull(s) ==
  LET load == loads[s] IN
  /\ InStep(s, "pull")
  /\ \/ /\ costs' = IF Newest(load.pull)
                    THEN [seq |-> load.pull, ok |-> TRUE, spend |-> load.pull] ELSE costs
        /\ ended' = NewestEnded(load.pull, TRUE)
        /\ UNCHANGED faults
     \/ /\ costs' = IF Newest(load.pull)
                    THEN [costs EXCEPT !.seq = load.pull, !.ok = FALSE] ELSE costs
        /\ ended' = NewestEnded(load.pull, FALSE)
        /\ Fault
  /\ Step(s, [load EXCEPT !.step = "done"])
  /\ UNCHANGED pulls /\ LoadElse

(* One account to ask for; WarmCosts waits for it, and no error stops the load. *)
WarmCosts(s) == LoadCosts(s) \/ LoadPull(s)

(* What the rows show: a spend is known only while the last pull succeeded. *)
CostState == IF costs.ok THEN costs.spend ELSE None

-----------------------------------------------------------------------------
(* History. *)

NewRead(gen, cursor) ==
  [gen |-> gen, cursor |-> cursor, step |-> "search", page |-> <<>>, next |-> None, failed |-> FALSE]
Fetch(cursor) == Busy < MaxBusy /\ reads' = Append(reads, NewRead(histSeq', cursor))

(* loadHistory of the selected row, unless it is cached. *)
LoadHistory == IF Selected' = Old /\ hist = None THEN Fetch(None) ELSE UNCHANGED reads

\* Faulty variant: reads in flight outlive the clearing.
ClearHistoryOnly == hist' = None /\ histSeq' = histSeq

(* clearHistory outranks every read in flight. *)
ClearHistory == histSeq < MaxClears /\ hist' = None /\ histSeq' = histSeq + 1

(* The events of Old are numbered.  Search answers a page of those before   *)
(* the cursor, the newest first, and the last one when there are more.      *)
Older(cursor) == IF cursor = None THEN version ELSE cursor - 1
Page(n) == [k \in 1..Min({PageLimit, n}) |-> n + 1 - k]

SearchPage(i) ==
  LET n == Older(reads[i].cursor)
      page == Page(n)
  IN
  /\ reads[i].step = "search"
  /\ \/ /\ reads' = [reads EXCEPT ![i].step = "done", ![i].page = page,
                                  ![i].next = IF n > PageLimit THEN Last(page) ELSE None]
        /\ UNCHANGED faults
     \/ reads' = [reads EXCEPT ![i].step = "done", ![i].failed = TRUE] /\ Fault
  /\ UNCHANGED <<aws, service, loads, actions, screen, history, syncing, outcome>>

NoPage == [events |-> <<>>, next |-> None, read |-> FALSE, failed |-> FALSE, loading |-> FALSE]
State == IF hist = None THEN NoPage ELSE hist

(* A result of an earlier generation, of a duplicate, or out of order. *)
Expected(r) ==
  /\ r.gen = histSeq
  /\ IF r.cursor = None THEN ~State.read ELSE r.cursor = State.next

HistoryLands(i) ==
  LET r == reads[i] IN
  /\ r.step = "done"
  /\ reads' = RemoveAt(reads, i)
  /\ hist' = IF ~Expected(r) THEN hist
             ELSE IF r.failed THEN [State EXCEPT !.failed = TRUE, !.loading = FALSE]
             ELSE [events |-> State.events \o r.page, next |-> r.next, read |-> TRUE,
                   failed |-> FALSE, loading |-> FALSE]
  /\ UNCHANGED <<aws, faults, service, loads, actions, screen, histSeq, syncing, outcome>>

(* scrollHistory at the end of what is loaded. *)
ScrollHistory ==
  /\ Selected = Old
  /\ hist # None /\ hist.next # None /\ ~hist.loading
  /\ hist' = [hist EXCEPT !.loading = TRUE]
  /\ UNCHANGED histSeq /\ Fetch(hist.next)
  /\ UNCHANGED <<aws, faults, service, loads, actions, screen, syncing, outcome>>

(* A key that moves the cursor asks for the history of the selected row. *)
MoveCursor ==
  /\ \E line \in 1..Len(Visible(rows, table.section)) : table' = [table EXCEPT !.cursor = line]
  /\ UNCHANGED <<rows, loadSeq, history>> /\ LoadHistory
  /\ UNCHANGED <<aws, faults, service, loads, actions, syncing, outcome>>

(* setSection puts the cursor on the first line before it filters. *)
SetSection ==
  /\ \E section \in Sections \ {table.section} :
       LET first == [table EXCEPT !.cursor = 1] IN
       table' = ApplyFilter(rows, [first EXCEPT !.section = section], SelectedIn(rows, first))
  /\ UNCHANGED <<rows, loadSeq, history>> /\ LoadHistory
  /\ UNCHANGED <<aws, faults, service, loads, actions, syncing, outcome>>

(* r in the detail view. *)
ReloadHistory ==
  /\ Selected = Old
  /\ ClearHistory /\ Fetch(None)
  /\ UNCHANGED <<aws, faults, service, loads, actions, screen, syncing, outcome>>

-----------------------------------------------------------------------------
(* Messages and keys that change the table. *)

\* Faulty variant: a result is dropped only when a newer one has landed.
OutdatedNever(s) == FALSE

(* A newer load is in flight or has landed. *)
Outdated(s) == s < loadSeq

Loaded(s) ==
  LET load == loads[s] IN
  /\ InStep(s, "done")
  /\ loads' = [loads EXCEPT ![s] = None]
  /\ UNCHANGED <<loadSeq, histSeq, hist>>
  /\ IF Outdated(s) \/ load.failed THEN UNCHANGED <<rows, table, reads, outcome>>
     ELSE /\ rows' = load.seen
          /\ table' = ApplyFilter(load.seen, table, Selected)
          /\ LoadHistory
          /\ outcome' = [outcome EXCEPT !.shown = TRUE]
  /\ UNCHANGED <<aws, faults, service, actions, syncing>>

(* The timer polls: live accounts, costs from the cache. *)
Tick ==
  /\ Busy < MaxBusy
  /\ StartLoad(FALSE)
  /\ UNCHANGED <<aws, faults, service, reads, actions, rows, table, history, syncing, outcome>>

(* r: everything anew. *)
Reload ==
  /\ Busy < MaxBusy
  /\ StartLoad(TRUE)
  /\ ClearHistory
  /\ UNCHANGED <<aws, faults, service, reads, actions, rows, table, syncing, outcome>>

NewAction(kind) == [kind |-> kind, step |-> "run", result |-> None]

(* S: a pass of Refresh, one at a time. *)
Sync ==
  /\ ~syncing /\ Busy < MaxBusy
  /\ syncing' = TRUE
  /\ actions' = Append(actions, NewAction("sync"))
  /\ UNCHANGED <<aws, faults, service, loads, reads, screen, history, outcome>>

(* A dialog or a form keeps the row that was selected, as it was loaded;    *)
(* it stops nothing but the keys.  To open and confirm it is one step, and  *)
(* what comes meanwhile comes before the call.                              *)
Confirm(kind) ==
  /\ Busy < MaxBusy
  /\ actions' = Append(actions, NewAction(kind))
  /\ UNCHANGED <<aws, faults, service, loads, reads, screen, history, syncing, outcome>>

InUse == Selected = Old /\ ~Closed(rows)

(* e extends an account, and edits a request. *)
Extend == \/ InUse /\ Confirm("account")
          \/ Selected = New /\ Confirm("edit")
Close == InUse /\ Confirm("account")

(* Approve or deny. *)
DecideRequest == Selected = New /\ Confirm("decide")

(* The operator may withdraw the request of anyone.  The dialog keeps its   *)
(* reference, so that a request that was changed meanwhile is refused.      *)
Withdraw == Selected = New /\ Confirm("decide")

MayChange == version + newer < MaxChanges
OldChanges == MayChange /\ version < MaxVersion /\ version' = version + 1 /\ UNCHANGED newer
NewChanges == MayChange /\ newer < 2 /\ newer' = newer + 1 /\ UNCHANGED version

(* The service: an action changes its row or is refused, as a request that  *)
(* was decided meanwhile; a pass may change both.  An edit leaves the row.  *)
Run(i) ==
  LET kind == actions[i].kind IN
  /\ actions[i].step = "run"
  /\ \/ kind \in {"account", "sync"} /\ OldChanges
     \/ kind \in {"decide", "sync"} /\ newer = 1 /\ NewChanges
     \/ UNCHANGED aws
  /\ actions' = [actions EXCEPT ![i].step = "done", ![i].result = version']
  /\ UNCHANGED <<faults, service, loads, reads, screen, history, syncing, outcome>>

(* actionMsg and syncMsg: the history is read anew, and so is the table. *)
Outcome(i) ==
  LET a == actions[i] IN
  /\ a.step = "done"
  /\ actions' = RemoveAt(actions, i)
  /\ syncing' = (syncing /\ a.kind # "sync")
  /\ StartLoad(a.kind = "sync")
  /\ ClearHistory
  /\ outcome' = [version |-> Max({a.result, outcome.version}), shown |-> FALSE]
  /\ UNCHANGED <<aws, faults, service, reads, rows, table>>

(* Another process changes an account, submits a request or decides it. *)
OtherChange ==
  /\ OldChanges \/ NewChanges
  /\ UNCHANGED <<faults, service, loads, reads, actions, screen, history, syncing, outcome>>

-----------------------------------------------------------------------------
Init ==
  /\ version = 0 /\ newer = 0 /\ faults = 0
  /\ costs = [seq |-> 0, ok |-> FALSE, spend |-> None]
  /\ pulls = 0 /\ ended = [seq |-> 0, ok |-> FALSE]
  /\ loads = [s \in 0..MaxLoads |-> IF s = 0 THEN NewLoad(FALSE) ELSE None]
  /\ reads = <<>> /\ actions = <<>>
  /\ rows = None /\ loadSeq = 0
  /\ table = [section |-> "open", cursor |-> 1] 
  /\ hist = None /\ histSeq = 0
  /\ syncing = FALSE
  /\ outcome = [version |-> 0, shown |-> TRUE]

Next ==
  \/ \E s \in 0..MaxLoads :
       LoadList(s) \/ WarmCosts(s) \/ Loaded(s)
  \/ \E i \in DOMAIN reads : SearchPage(i) \/ HistoryLands(i)
  \/ ScrollHistory \/ MoveCursor \/ SetSection \/ ReloadHistory
  \/ Tick \/ Reload \/ Sync
  \/ Extend \/ Close \/ DecideRequest \/ Withdraw
  \/ \E i \in DOMAIN actions : Run(i) \/ Outcome(i)
  \/ OtherChange

Spec == Init /\ [][Next]_vars

-----------------------------------------------------------------------------
(* The properties. *)

(* The table never goes back to an older state of its rows, whatever order  *)
(* the loads come back in; and once it was loaded after the outcome of an   *)
(* action or a sync, it shows what that made of the account.                *)
TableKeepsUp ==
  [][rows' # None =>
       /\ rows # None => rows'.version >= rows.version /\ rows'.newer >= rows.newer
       /\ outcome'.shown => rows'.version >= outcome'.version]_vars

(* A load that lands never moves the cursor to another row while the        *)
(* selected one stays in the section, so a key acts on the row that the     *)
(* operator chose (applyFilter).                                            *)
SelectionIsKept ==
  [][rows' # rows /\ Contains(Visible(rows', table.section), Selected)
       => Selected' = Selected]_vars

(* The history on the screen is one list without a gap: the newest event    *)
(* first, down to the last that was read, and complete when no more is      *)
(* offered.  It was read after the last outcome, whose event it has.        *)
HistoryIsOneList ==
  hist # None /\ hist.read =>
    LET events == hist.events IN
    /\ \A i \in DOMAIN events : i > 1 => events[i] = events[i - 1] - 1
    /\ outcome.version > 0 => events # <<>> /\ events[1] >= outcome.version
    /\ events # <<>> => Last(events) = (IF hist.next = None THEN 1 ELSE hist.next)

(* Spend is known exactly when the newest pull that came back succeeded,    *)
(* and is the answer of that pull: a slow pull never hides a newer one.     *)
CostsAreOfNewestPull ==
  /\ costs.seq = ended.seq
  /\ CostState = IF ended.ok THEN ended.seq ELSE None

=============================================================================
