# A TLA+ verification of playplace

playplace hands out short-lived AWS accounts. A person requests an account, an
approver decides, AWS creates the account, playplace places it, protects it with
a budget, grants access, warns before the expiry, and closes it. It keeps no
database: accounts are described by tags on the accounts, requests by tags on the
Playground OU, and every process (web server, CLI, TUI, cron job) reads these
tags, decides, and writes them back one AWS call at a time. AWS tags have no
compare-and-swap. Each process serialises its own operations with a mutex
(`opMu`); nothing serialises two processes.

Paths below are relative to `internal/` of the repository; `service.go`,
`readiness.go`, `request.go`, `account.go` and `creation_failure.go` are in `core/`.

## Inventory

| part | state | operations | what makes it correct |
|---|---|---|---|
| Request queue (`service.go`, `request.go`, `creation_failure.go`) | OU tags: one record per name, pending or approved | submit, edit, approve, deny, withdraw, create directly, expire, report a failed creation | an account is only created for what an approver saw; one account per request; owner and queue limits; every failure announced once; every record leaves |
| Account lifecycle (`service.go`, `readiness.go`, `account.go`) | tags of each account, AWS's state, the owner's grant | `Refresh`, `PollCreate`, `Extend`, `RequestClose` | resumes after any cut; no closure before expiry; closure announced only when AWS confirms it; notices once |
| Budget protection (`core/budget*.go`, `provider/aws/budget*.go`) | budget tags, AWS budget, alerts and action | `SetBudget`, `reconcileBudget`, `advanceBudgetRecovery`, `retireBudget` | an old approval never reverses a new restriction; recovery survives failures and the month's end; a paid action is never forgotten |
| Inventory and cost caches (`service.go` 215-369, 1786-1913) | cached rows, cost entries, their times | `Inventory`, `Invalidate`, `Costs`, `WarmCosts` | the newest answer wins; no stale row is acted on without a check |
| History (`audit/`) | journeys and events in DynamoDB, a file or a log group | `PutJourney`, `ResolveJourney`, `Record`, `Search` | conditional writes, no terminal status left again, nothing lost in silence, pages that fit together |
| Web decisions and Slack (`web/decide.go`, `web/slack.go`, `web/server.go`) | running batch, interactions under way | `decideAll`, `interact`, shutdown | what was decided is told apart from what was not; nothing is dropped on shutdown |
| Home page (`web/server.go`, `web/views_templ.go`, `web/static/app.js`) | the page in the browser, its hash, requests under way | poll, submit, edit, decide, withdraw, extend, close, sync | late answers undo nothing; the polls bring the page up to date |
| Terminal interface (`tui/`) | rows, selection, history, commands under way | loads, polls, sync, dialogs, history pages | results in any order leave one true screen; a key acts on the chosen row |
| Web sessions (`web/auth.go`) | cookies, OIDC state | login, callback | a session belongs to whoever logged in |
| Worker (`worker/worker.go`) | none | runs `Refresh` on a timer, with a timeout and a recover | passes go on after a failure |
| AWS provider (`provider/aws/aws.go`, `access.go`) | cached organization ids | one or a few AWS calls per method | idempotent steps |
| CLI, notifier, fake provider, tools | none of their own | call the core | - |

Processes interact only through AWS: the OU tags, the account tags, the history
table, and the account itself. Inside a process the parts call each other; pages
and terminals read the inventory cache without the mutex. The hard behaviours are
interleavings of processes, calls that fail or whose reply is lost after they were
applied, crashes between two calls, answers that arrive in another order than they
were asked for, and listings that are old when they are used. The hazards are
listed, each at its line, in `PROJECT.json`.

## Modules

| module | what it is |
|---|---|
| `ApprovalJourney` | abstract specification: the life of one request |
| `RequestQueue` | the approval queue, all operations, any number of processes; implements `ApprovalJourney` |
| `RequestQueueProofs` | theorems about `RequestQueue` for any number of processes, then for one process on the queue, and the refinement of `ApprovalJourney` |
| `AccountLifecycle` | one account from creation or adoption to confirmed closure |
| `AccountLifecycleProofs` | theorems about `AccountLifecycle` for any number of processes, then for one |
| `BudgetProtection` | the budget of one account, its alerts and its action, the recovery and the retirement |
| `JourneyStore` | journeys and events in DynamoDB, written through conditional transactions |
| `HistorySearch` | appending to the history and reading it back page by page, in every store |
| `Decisions` | a decision post, clicks in Slack, `opMu` and the stop of the server |
| `HomePage` | the home page of one viewer, its requests, and the inventory cache behind it |
| `Terminal` | the terminal interface, its commands, and the cost cache behind it |
| `BudgetProtectionProofs`, `JourneyStoreProofs`, `HistorySearchProofs`, `DecisionsProofs`, `HomePageProofs`, `TerminalProofs` | theorems about the module of that name |
| `MC...` | the values that a configuration cannot write down, and the symmetry sets |

Definitions that start with a comment "Faulty variant" are not part of any
specification. Each is one defect put into one definition, which shows that a
property would notice it.

The modules share what they are about, not their text. `RequestQueue` is the
approval as AWS sees it, with lost replies; `Decisions` is the same `Approve` under
time limits and a stopping server; `HomePage` is the same queue through a cache and a browser, where a decision is one step.
`AccountLifecycle` has the budget as a step that settles or does not;
`BudgetProtection` is that step.

### RequestQueue

`queue` is the OU tags, a record or `NoRecord` per name. `creation` is what AWS
knows: the creations and accounts, each with the name, journey, owner and terms
it was asked with, and its state (creating, failed, unplaced, placed, closed).
`op[p]` is the operation that process `p` runs under its `opMu`: the next
provider call (`pc`), the record it will write, what it has read (`seen`, `tags`)
and where to go on after a failure report (`back`). `shown` holds the versions
any page, terminal or Slack message has ever shown, so an actor may decide on an
arbitrarily old one. `issued` (journeys given out) and `notices` (announcements
per creation) are bookkeeping, and so are the fields `ref` and `missed` of a creation.

One action is one provider call with the decisions that follow it. Every call
may fail; every write may be applied and reported as failed;
a process may crash at any point and loses `op[p]`. `Inventory` is read in two
steps (accounts and creations, then records), which is how old its parts can be
relative to each other. It goes on without the root listing when that call fails
(fault `root`, `Listed`): a finished creation that waits in the root then shows as one
under way, with the owner its approved record gives, and is left out once
`PlacementGrace` is over (`Inventory`, `Overlooks`; `service.go:240`, 299). `missed` says
that an inventory on which an operation decided left the creation out. `Refresh` goes on
without the root listing as well. `playplace create` calls `Request` without `opMu`; the
processes that do only that are `DirectCreators`.

Abstractions: owner and terms are model values, and a version is the record they
make (so versions are equal exactly when the values are). Only tags of the queue
count against `MaxTags`. `LookupUser` and the other reads before the first
decision fail together with the first call. `reportReplacedFailure` reads records
and creations in one step, because `reportCreationFailure` reads the record again
before it writes. AWS still lists every creation within the bound of the clock.
The root email of a closed account is covered by its name. The branch of
`PollCreate` for a failed creation that no record names (it reports on every call,
by design) is left out.

Observed: a creation whose reply was lost, which then waits in the root for longer than
an hour while the root listing fails, leaves its name free. The request it was for can be
approved again, so AWS is asked for a second account (it refuses that one only because
the root email is taken), and its owner can ask for one account more than the limit. When
the missed account is placed at last, its journey takes the record away while the second
creation may be under way, so that this one shows under no owner. Hence `Gone` in
`OneAccountPerRequest`, `Noticed` in `OwnerWithinLimit`, and `Delivered` in
`NoFailureForgotten` and `DropsAreDue`. Nothing else is exempt: a creation within the
grace, or listed in the root, counts however many listings fail, and the mutant that
leaves it out at once (`InventoryInRoot`) breaks the limit.

### AccountLifecycle

`aws` is the account at AWS: its state, whether it is in the OU, whether its owner
has access, whether a closure was accepted. `tags` are its playplace tags, `op[p]`
the operation of `p` with the row it works on, which gets older while it works,
`view[p]` a row from the inventory cache, `sent` the notices.

The body of `Refresh` is `Visit`; `reconcileReadiness` is `Readiness`, `Protect`,
`Granting`, `Handoff`; the end of a pass is `Expiry`; `tryClose` is `Closing`,
`AfterRevoke`, `Close`, `Verify`, `Confirm`; `checkClosureDelay` is `Delay` and
`Alert`. `AfterError` says which errors end an operation and which do not: a
readiness error does not keep a pass from the expiry, a failed revocation does not
keep it from the closure.

Abstractions: one account; the budget reconciliation is one step that settles or
does not; the notice comes with the reply of the write before it, so a crash between the two
is the lost reply. A cached row may outlive `Invalidate`, because an
`Inventory` that was reading meanwhile stores its rows afterwards (lines 315-317).
Not modelled: damaged tags, the admin override of `MaxTTL`, accounts moved out of
the OU, `PENDING_ACTIVATION`.

### BudgetProtection

`tags` are the budget tags (limit, recovery phase and its month, health, policy
marker, age of an unsettled protection), `budget` the AWS budget, `alerts` the
subscribers of each owned notification, `action` and `attached` the AWS action and the
restriction, `cal` the month and the stage of the account: active, paused (expired, asked
to close, or suspended) or closed. Passes and `SetBudget` need an active account, as
`reconcileReadiness` does (`readiness.go:46`); retirement a closed one. `op` is the operation under `opMu`; each
step of it is one AWS call with the decisions that follow. A pass reads the clock once
(`op.month`); `SetBudget` looks at the action (`See`), stamps the month (`Approve`) and
writes (`Save`) in three steps. AWS moves alone, also in the middle of an operation: a
month begins, spend
grows, an action executes, a deletion, a reversal or a reset ends, well or badly. A
process may start again with another configuration.

`action.seen` is bookkeeping: the last execution is the one that the caller of
`SetBudget` saw; so is `look` in a recovery, the month in which that was.
`ReversalAsApproved` says that no other execution is ever undone, in any order of
executions, approvals, passes and restarts, but for the two races below.

Abstractions: one control plane writes (comment of `SetBudget`); one owned action at a
time, so ids are left out; the checks on approval model, type and threshold are the
flag `trigger`; the text of an error is the health `error`; `PENDING` does not occur
with automatic approval; AWS turns the month only while no transition of the action is
under way.

Observed: the stamp of a recovery is the month of `budget.go:361`, not that of the look
at the action (344). When the month turns between the two, an execution of the new month
carries the stamp of an approval that was for the old one and is undone. The same happens when the
month turns during a pass, which compares the stamp with a clock read before. The comment at
`budget_recovery.go:20` says "old approval cannot reverse this month's action"; both windows
are a few calls long, and the property exempts exactly them. After such a reversal in a pass the
action stands at `REVERSE_SUCCESS` under an approval of an earlier month, and passes fail
until the next one. An account that expires or is asked to close gets no more passes, so an
approved recovery waits with its restriction until the account is extended or closed: hence
`cal.stage` in `RecoveryEnds` and `UnsettledIsReported`.

An approval of an earlier month stays marked while AWS reports
`EXECUTION_FAILURE`, because the pass fails before it clears the marker; only a person
can go on (`Intact` in `RecoveryEnds`). A first pass that creates the action and then
fails to write the tags, followed by a start without a policy, settles on the alerts
although the action exists (compare `ARCHITECTURE.md:38`).

### JourneyStore

`journeys`, `links`, `events` and `index` are the rows META, LINK, EVENT and the search
rows. A client's call reads, then writes one transaction with its conditions; a reply
that does not arrive leaves the transaction in `late`, from where it may still take
effect. `Valid` and `Follows` are the checks of `journey.go`. The store is not used by
the command line yet ("deliberately not wired into the CLI"), so the callers are free:
any document of `Documents`, under any revision.

### HistorySearch

`lines` is the file or the table's rows, `open` says that the last line has no
newline, `writing` is a write between its look at the last byte and its effect. A
reader reads one page after another while the writers go on; `due` is what it must
find. The DynamoDB search collects a page by several queries per partition; all stores
share `paginate`. `InOrder` says what sorting means rather than how it is done: line m
of the result is the one that m - 1 others precede. Positions of different readable lines
differ, so there is always exactly one (`PositionsDiffer`, `InOrderSorts` in the proofs).

Observed: when another process's write is cut short between the look and the write, an
acknowledged line is appended to the torn one and lost; the page says `Incomplete`, so
`NothingLostInSilence` holds.

### Decisions

A post decides its requests one after the other with one budget of time; a click is
answered at once and decides afterwards. `lock` is `opMu` with the time it is held,
`calls` the decision each caller has in core, `server` and `drained` the stop. Time is
counted in units of the 15 seconds that the limits leave for one approval.

A call that fails, is cut or hangs may have been carried out by AWS before: a removal, a
mark, a creation, a restore. `decide` answers all of these "failed" (`decide.go:271-276`).
Reading the page before the first decision, and again to render the answer
(`decide.go:279`, 421), runs under the context of the request, which has no limit, and takes
any time in the model; only while the page is read does the budget of the post run with it.

The answer of a post is true (`ResultsAreTrue`): what it calls approved or denied this post
decided, in the version shown; what it calls anything else but "failed" it did not touch;
"failed" leaves open what AWS did, and after it nothing was tried. A stop
or a slow batch leaves no claim behind (`ClaimsAreSettled`). `DecisionsEndInTime` is about
the decisions of a post, not about its answer. Both time properties
exempt decisions that waited for `opMu` (`waited`): several that queue for it can
outlast the drain. A `Refresh` that holds `opMu` is not modelled, which is a wait of
the same kind. Decisions outlive the browser (`WithoutCancel`), so its cancellation is
left out. `Deny` through Slack does not check the own-request rule; the model follows.

Observed: a denial that is cut after AWS removed the record is answered "failed", and the
requester gets no notice of it. A creation that is cut after AWS made the account is answered
"failed" and its request is made pending again; a later approval is refused, because the name
is taken (`NameTaken`). A post can outlast the 60 seconds of a proxy although its decisions
do not, because the reads of the page around them have no limit of their own.

### HomePage

`page` is the browser: the card, the open edit forms, the rows of the panel, and the
hash. `sent` holds the poll and one other request, each with the list of what its
handler still does (`Script`): read for the card, act in core, read the rows. Every
read goes through `Inventory` and its cache in its steps: list the accounts, read the
tags, store. `NothingUndone` is stated with ghosts: each reading carries the viewer's
changes it misses.

Left out: roles and texts, the view with closed accounts, costs, text that depends on
the clock. Listings of accounts, creations and the root are one value. `PendingRequests`
takes its records in a step of its own; here it is part of `Store`. Two actions of one
viewer at the same time are not checked (one slot).

Observed, and outside what the properties promise:

- An `Inventory` under way stores its old listing after `Invalidate`
  (`service.go:315-317`), so for up to `InventoryTTL` the answer to an action, and the
  polls, can show the queue before it. `pendingAt` avoids the cache for this reason
  (lines 1322-1325). Such listings are `overtaken`, and `NothingUndone` exempts them.
- A refusal and a cancelled form show a newer card or row without a hash, although
  `server.go:282-286` says that an answer carries the hash of what the page shows. When
  the queue then goes back to what it was, polls answer 204 and the page keeps what it
  shows until something else changes. Hence `~HashIsOfPage` in `PageCatchesUp`.
- `Sync` reads the card before its pass (`server.go:571`).
- Only polls are dropped when they are late; the answers of two overlapping actions are
  swapped in the order of their arrival.

### Terminal

`Update` handles one message at a time. `loads`, `reads` and `actions` are the commands
under way, each in steps, in any order; `loadSeq` and `histSeq` are the numbers by which
`Update` drops late results. The table has an account, whose changes are counted, and a
request that comes above it and goes; `table` is the section and the cursor.
`costs`, `pulls` are the cost entry of the service (`CostState`) and its pulls; a load of the
terminal and `WarmCosts` each wait for one.

Left out: the text filter and the sections that narrow the open one, the detail view
(its keys are always available, which allows more), notices, forms' fields, rendering.
To open a dialog and to confirm it is one step: the dialog keeps its row, and whatever
comes while it is open comes before the call.

Observed: `working` is one flag, so the header stops spinning after the first of two
results (`REVIEW.md:299-300`). The poll every 30 seconds outranks a load in flight, so
loads slower than that are always dropped. When the selected row leaves the section
the cursor falls on its neighbour, also under an open detail view. `Feed.push` says
"without blocking", but may wait for the reader when another push takes the room that
it made.

## Runs

| run | question | bounds |
|---|---|---|
| `one_name` | does the queue of one process keep its promises, and implement `ApprovalJourney`, whatever fails? | one name, so that every request competes for the same key; two requests, two creations, two faults of any kind, a failed root listing included, clock 0..2 with all periods 1 and the grace 0; 1.67 million states |
| `limits` | does the owner limit hold with a `playplace create` beside the server? | two names, two owners, two requests, one creation, limit 1, one lost reply or failed root listing, clock 0..1; 3.27 million states |
| `queue_liveness` | does the queue empty itself, and is every failure announced? | inputs until time 1, clock until 3, two failed calls or root listings |
| `second_approver` | does a second approver find nothing pending? (no, see below) | two processes, one request |
| `lifecycle` | safety of one account | one process, two faults of any kind (failed call, lost reply, crash, quota, unsettled budget, suspension, external closure), clock 0..3 with periods 1 and a ceiling of 2 |
| `lifecycle_liveness` | is the account handed over, closed, confirmed or reported? | one fault (failed call, crash, quota, suspension), clock 0..2 |
| `budget` | are reversals only of what was approved, and do recovery and retirement end? | two months, which turn at any step, two amounts, spend 0..2, two `SetBudget`, one fault or drift, two configurations; 0.86 million states |
| `journey` | is the store never corrupt, and what it acknowledged kept? | two clients, seven documents of two journeys that compete for an account, two events with one id, two revisions, one lost reply |
| `search` | do the pages of a growing history lose nothing? | two writers, four events, two of one time, a line that is there twice, pages of two, queries of one row, two cut writes |
| `decisions` | are the answers true, and does everything end in time? | two requests, a post of two or three refs, one click, one edit, one failed and one unanswered call; the limits are related as the code's are |
| `home_page` | is nothing undone, and does the page catch up? | one name, two versions, two clicks, one change elsewhere, one failed listing |
| `terminal` | do the table, its selection, the history and the costs stay true? | the initial load and two more, two commands at a time, two changes, two clearings, one failed call, pages of one event |

Two faults are enough for a failure during the recovery from another one; the
clock reaches past every period plus one, so "before", "at" and "after" a deadline
all occur. Overtaking needs two of what overtakes: two loads, two pulls, two reads of
history, a poll and an action. `CHECK_DEADLOCK FALSE` in every configuration, because
the bounds end the behaviours: ids and clicks run out, the clock stops, and an idle
system with nothing to do may stop.

Bounds in guards: `LastInput` and `MaxTime` (clock), `MaxFaults`, `MaxChanges`,
`MaxClicks`, `MaxLoads`, `MaxBusy`, `MaxClears`, `MaxVersion`, `MaxRevision`,
`MaxTimeouts`, `MaxCuts`, `MaxHangs`, `MaxSpend`, `Months`, `Journeys` and `CreateIds`
(`OutOfIds` refuses the write that would need another one); counters of notices stop
at 2.

What the safety runs show of the queue: the approval of a stale version never leads to a
creation (`ApprovedAsSeen`), a request that was given back after a lost reply does
not get a second account while the inventory knows of the first (`OneAccountPerRequest`), no failure is forgotten when
its record is replaced or dropped (`NoFailureForgotten`, `FailureNotifiedOnce`),
records leave only when due (`DropsAreDue`), the owner limit holds for what the
inventory can see (`OwnerWithinLimit`). Of the account: an expiry closes only what is
expired by the live tag (`ExpiryClosesOnlyExpired`), closure is announced only when AWS
says so (`ClosedOnlyWhenConfirmed`), nothing is prepared against a close intent
(`NoHandoffAgainstIntent`), the ready notice means usable (`ReadyMeansAccess`), notices
are sent at most once by one process (`NoticesAtMostOnce`), and the overdue clock is not
restarted (`ClosureClockKept`). Of the budget: `SettledIsProtected` is what readiness
and access rely on, `RetiredIsGone` and `ClosedIsRetired` are the promise of retirement
in both directions, `AlertsHaveNoGap` holds while addresses rotate, and
`UnsettledIsReported` says that nothing stays half protected in silence. Of the history:
`NeverCorrupt` covers the two separate reads of `ResolveJourney`; `AcknowledgedIsStored`
covers the retry that finds its own event, and no second winner of a revision.

### Disagreements with the text

`second_approver`: two processes both claim the same pending request, where the comment
of `Approve` (`service.go:1465`) says that the second finds nothing pending.

Smaller ones, seen while modelling and not checked by a run:

- When the last write of `Approve` fails, the creation is not paired with its owner, so
  the owner can come to hold more than `MaxPerOwner` (`service.go:33`, 1517), and a
  failure of that creation is not reported (`service.go:1713`, 1734).
- A `create` polls and hands an account over while a pass of another process works on an
  older listing, and both send the ready notice (`ARCHITECTURE.md:132-134`,
  `readiness.go:94`).
- The others are listed as "Observed" with the modules above.

## Fairness

`WF` of an operation under way: every AWS call has a deadline and the operation goes
on after it. `SF` of `Refresh`: the worker's timer runs it again and again, and
`sync.Mutex` gives the lock to a waiter after a millisecond, so other operations
cannot starve it. `WF` of what AWS has accepted (creation, closure). In `RequestQueue`
the clock is strongly fair: the bound `LastInput` makes it wait for running inputs,
which real time does not. In `AccountLifecycle` nothing is assumed of the clock, so
the handoff does not happen merely because the expiry comes. People owe nothing,
and faults end because they are bounded.

`BudgetProtection`: the worker comes back to the account as long as it stays active or stays
closed, a call under way returns, and AWS ends what it began, well or badly; that a month
begins, or that an account moves on, is not assumed. `HomePage`: the page polls every
15 seconds when no other request runs, requests are answered, and the cache grows older
than `InventoryTTL`. That the viewer clicks is not assumed. `Decisions` states time as a
clock that no step may outrun, and its properties are safety; `Terminal`,
`JourneyStore` and `HistorySearch` need no fairness.

## Proofs

Every invariant and every action property that a run checks is a theorem as well. The
theorems hold for every value of the constants that the named assumptions of the modules
allow, so for any number of processes, names, clients, clicks, faults and periods. Each
proof module states the inductive invariant first, then one lemma for each action, then
the theorems.

The prefix "one process" below means a hypothesis of the theorem, not an assumption of
the module. The mutex `opMu` serialises the operations of a process, and the usual
deployment has one server; with two processes several of these properties are false
(see "Disagreements with the text"), so the hypothesis cannot be dropped.

| module | theorems | assumptions |
|---|---|---|
| `RequestQueueProofs` | `TypeCorrect`, `ApprovalsAreAsSeen`; with one process on the queue `OneAccountPerRequestHolds`, `FailureNotifiedOnceHolds`, `NoFailureForgottenHolds`, `DropsAreDueHolds`, `OwnerWithinLimitHolds`, `QueueImplementsJourney` | those of `RequestQueue` |
| `AccountLifecycleProofs` | `TypeCorrect`, `ClosureIsReal`; with one process `NoticesAtMostOnceHolds`, `ExpiryClosesOnlyExpiredHolds`, `NoHandoffAgainstIntentHolds`, `ReadyMeansAccessHolds`, `ClosureClockKeptHolds` | `ParametersAssumption` |
| `BudgetProtectionProofs` | `TypeCorrect`, `RetiredIsGoneHolds`, `ReversalAsApprovedHolds`, `SettledIsProtectedHolds`, `AlertsHaveNoGapHolds` | `BudgetAssumption` |
| `JourneyStoreProofs` | `NeverCorruptHolds`, `AcknowledgedIsStoredHolds`, `HistoryOnlyGrowsHolds` | `StoreAssumption` |
| `HistorySearchProofs` | `TypeCorrect`, `SavedIsKept`, `NothingLostInSilenceHolds`, `PagesAreOneListHolds` | `EventAssumption`, `ValueAssumption`, `LimitAssumption` |
| `DecisionsProofs` | `TypeCorrect`, `ResultsAreTrueHolds`, `ClaimsAreSettledHolds`, `DecisionsEndInTimeHolds` | the five of `Decisions` |
| `HomePageProofs` | `NothingUndoneHolds` | `KindsAssumption` |
| `TerminalProofs` | `CostsAreOfNewestPullHolds`, `HistoryIsOneListHolds`, `TableKeepsUpHolds`, `SelectionIsKeptHolds` | `TerminalAssumption` |

**The queue, any number of processes.** `ApprovedAsSeen` is not inductive: it speaks of
creations, and they are made from the record an operation carries. `Inv` adds for each
operation `Good(op[p], creation)`: at every label the record, target and creation it will
need are there, and an approving operation carries the values of the version its approver
saw (`CarriesWhatWasSeen`). It survives the steps of other processes because no creation
disappears (`Grows`, `GoodGrows`). No mutual exclusion is assumed: the property rests on
the version check alone.

**The queue, one process.** `OneQueueProcess` says that one process at most works on the
queue. `DirectCreators` are exempt: `playplace create` does not take `opMu`, and any
number of them may run beside it. `OneInv` has three parts. `Records` ties the tags to
AWS: a journey is one record, all its creations but the last have failed or were missed, and
an approved record names the last. `Announced` says that an announced failure is flagged on the
record that names it. `Knows` says what the one operation under way still knows: nobody
else writes the records, so they are as it read them, while the creations it read are an
earlier state of those AWS has now (`Past`). `OneAccountPerRequest` then needs the step
that makes an approval safe after a lost reply: at `create` every creation of the journey
that AWS has was read, and all have failed or are missing from the inventory.

`QueueImplementsJourney` is the refinement. `InitMoves` maps the initial state,
`NextMoves` shows that each action moves the requests by an action of `ApprovalJourney`
or not at all, and the theorem puts the two together. `ImplementsJourney` is about safety:
the specification of `ApprovalJourney` states no fairness.

`OwnerWithinLimit` needs `LimitInv`: the room that the checks found (`Below`) is still
there when the record is written, because only this operation adds to what an owner
holds. A claim takes the request out of what is pending, but keeps its room until it is
confirmed or given back. `Reads` relates the creations that were read to the accounts
that count, which AWS may have moved on since; `Covers` says the same of the inventory made
from them. Without the root listing an account that waits there is shown as a creation,
whose owner only a record can give. `Lingers` says when it is still shown so, and `Accounts`
that an approved record names it all that time: `dropApprovedRecord` and a pass keep the
record for a day, and the grace is an hour (`PlacementGrace <= DayLong`). An account that
outlasts the grace is `missed`, and no longer counted (`MissGoes`).

In `Records`, a creation that was missed stands like a failed one: `OthersFailed` lets the
journey have another. `Lasting` says that only a creation that led to an account can be missed,
so that what `Delivered` exempts is not a failure.

**The account.** For `ClosureIsReal`, `Good` and `Works` say that the row of an
operation says `CLOSED` only if AWS had closed the account, and that an operation stands
before `Confirm` only after it saw that. It holds after the step of another process
because AWS never leaves `CLOSED` (`GoodLater`). For one process, `OneInv` adds `Fits`
(what an operation before a call knows of the tags and of AWS), `Told` (a notice was sent
only after the tag that prevents the next one) and `Tagged`. `view` still holds rows as
old as it likes, because pages do not take the mutex: the theorems say that this does no
harm.

**The budget.** `Good(op)` has four parts. `Retiring`: nothing that was retired is touched
again. `Recovering`: a reversal is sent under its phase and the month that its pass read
(`Asked`), and an approval is stamped and written while the execution it lifts still
stands, or the month has turned since the look. `Protecting`: what a pass has put in
order so far stays in order until its end. `Marked` ties the tags to AWS between the
operations: under an approval of the calendar's month, looked at in that month (`Reversing`),
the action is the one that the approver saw, or is gone.

**The journey store.** `Stored` says that a link and its journey agree both ways, that an
event is in a journey which has its account, and that the search rows are those of the
stored events. A call about to write knows the revision it read, and if that is still the
revision stored, its document follows the stored one (`PutOK`); the same holds of the
transactions whose reply was lost (`LateOK`), which is why they may come at any time.

**The history search.** The invariant has a half for the store and one for the reader.
`WrittenOnce` says that an event stands on one line at most and that nothing still being
written is there. `Kept` says that all old lines and all acknowledged events are on their
lines, but only while the log is `Intact`: a damaged line never becomes readable again, so
a last page without `Incomplete` proves that it held during the whole reading.

Of the reader, `Standing` and `OnPage` put everything in one order: what was found, then
the page that several queries of the table fill, then the cursor. An event that was found
is remembered by the position it had (`PlaceOf`), not by its line, because the line may be
damaged later. Each row of the next page is later than the cursor, so it is in order after
all that was found and is none of those events (`AheadFacts`): that is
`PagesAreOneList`. For `NothingLostInSilence`, `Passed` says that every line that is due
was found, is on the page, or is beyond the cursor. It holds with a witness `src`, the line
each found event was read from: an old line can be there several times with the same
content, and `src` tells its copies apart, so that they can be counted (`CountCovered`). A
page cut at `PageLimit` leaves only lines later than its last row (`PageCovers`); a query
that does not fill the page leaves only rows later than its last one (`TableGathers`). New
lines do no harm: they are at the end, keep the positions of the others (`PositionKept`),
and are not due (`ReaderKept`).

The invariant was first checked with TLC, on the 332494 states of `search`, and then
proved. The assumptions are on the data: events have ids of their own, old lines have none
and the digest that stands for it is that of their content, and no page and no query is
empty.

**Decisions.** `Told` relates the results given so far and the places of the form still
left: together they have each request once, a result that says "approved" or "denied" has its
decision in `decided`, a decision of the post has a result that says so or "failed", and
nothing is tried after a failure. While a call is under way `Told` leaves its own decision
out, since the account may be there before the answer, and so does `ToldBut` of a post that the
end of the process cut. `HeldInTime` bounds `opMu` by the age of its holder's
call. `Prompt` bounds the last decision of a post by its budget and the time of the call it
is in, as long as AWS answers and nobody waited: the loop starts none after the budget,
however long the page took. `Settled` adds the stop: the drain began no earlier than
the oldest decision at work, and `Drain = Budget + CallTime`, so it cannot end before
that decision does. `TimeAssumption` asks for this relation of the limits, and that an answered
call ends within the limit of a click, of a ref and of a restore, and for nothing
else of their values (60, 45 and 15 seconds in the code; a click has 60 seconds, one ref
of a post has two minutes, a restore 30 seconds).

**The home page.** A listing that misses a change of the viewer is known to be overtaken
(`Told` in the cache and in readings), the card of a request does not miss that request's
own change, and a poll under way either runs beside no action or is late and will be
dropped (`PollOK`).

**The terminal.** `LoadsOK`: no load is newer than the newest one, and the newest has
seen at least what the table shows and what the last outcome did. `ReadsOK`: a page of
history that `Update` will accept continues the pages on the screen. `CostsOK`: the cost
entry carries the number of the newest pull that ended well.

**Only model-checked.** All liveness (temporal fairness and `ENABLED` are beyond the
prover): `EveryRecordLeaves`, `EveryFailureAnnounced`, `ExpiredIsClosed`,
`OwnedIsHandedOver`, `ClosureIsConfirmed`, `OverdueIsReported`, `RecoveryEnds`,
`UnsettledIsReported`, `ClosedIsRetired`, `PageCatchesUp`.

## Not modelled

- Sessions and login (`web/auth.go`): who acts is a parameter of the models.
- The encoding of records, cursors and tags (`request.go`, `tag.go`): pure functions on
  text; the models work on what they decode to.
- `core/attention.go` and other derived views.
- The text filter, forms and rendering of the terminal; generated views beyond the home
  page; argument parsing; the notifier (best effort); the fake provider (a test double);
  release tools.
- Provider methods that only read, and `EnsureOrganization`.
- Damaged tags, the admin override of `MaxTTL`, accounts moved out of the OU.

## Plan

All planned modules exist, and what the runs check beside liveness is proved. The proof of
`HistorySearch` needed its pages stated by what they contain rather than by a sorting
operator that is defined by recursion; TLC finds the same states with both. Left for later:
the parts listed above as not modelled, first the admin override of `MaxTTL` and damaged
tags in `AccountLifecycle`, and the queue at AWS's limit of 50 tags.
