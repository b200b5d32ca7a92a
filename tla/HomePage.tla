------------------------------ MODULE HomePage ------------------------------
(***************************************************************************)
(* The home page of an admin who approves requests: the page in the        *)
(* browser (app.js), the requests that it sends, the handlers that answer  *)
(* them (internal/web server.go, decide.go) and the inventory cache of     *)
(* core.Service that every handler reads through.                          *)
(*                                                                         *)
(* AWS holds the pending requests and, as one value, the fleet.  Who may   *)
(* click what, the texts, the view with closed accounts and the costs are  *)
(* left out: the page is the pending card, the accounts panel and the hash *)
(* that the panel carries.  What a reading misses is kept with it for the  *)
(* properties: the changes of this viewer that were made after it.         *)
(***************************************************************************)
EXTENDS Naturals, Sequences

CONSTANTS
  None, Unavailable,
  Landed,       \* in place of a slot: a change that the page has the answer to
  Poll,         \* the poll of the page, and
  Slots,        \* the other requests that may be under way at once
  Names,        \* names of requests
  Versions,     \* RequestRef.Version: what a request holds
  Fleets,       \* what the listing of the accounts can say
  MaxClicks,    \* bound: requests the viewer sends
  MaxChanges,   \* bound: changes that other processes make
  MaxFaults     \* bound: calls to AWS that fail

ASSUME KindsAssumption == {Poll, Landed} \cap Slots = {} /\ None \notin Versions

VARIABLES
  live,     \* AWS: the pending requests and the fleet
  cache,    \* Service.inv and recs: the listing that is fresh, or None
  sent,     \* requests under way, by slot
  page,     \* what the browser shows
  clicks, changes, faults

budgets == <<clicks, changes, faults>>
vars == <<live, cache, sent, page, budgets>>

Queues == [Names -> Versions \cup {None}]
NoRows == [n \in Names |-> None]
Requests == {Poll} \cup Slots
Running == {s \in Slots : sent[s] # None}

-----------------------------------------------------------------------------
(* Answers.                                                                *)

\* Faulty variant: the hash covers the card only.
CardHash(card, rows) == [card |-> card, rows |-> Unavailable]

(* The hash of an answer stands for what it shows. *)
PollHash(card, rows) == [card |-> card, rows |-> rows]

\* A row of the card, unless it is an open form that the answer keeps.
Kept(card, own) ==
  [n \in Names |-> IF card[n] # None /\ n # own THEN page.edit[n] ELSE None]

(* The card of an answer, morphed into the page; own is the row whose form *)
(* or button the answer is for.                                            *)
MorphCard(card, own) ==
  IF card = Unavailable
  THEN [page EXCEPT !.card = Unavailable, !.edit = NoRows]
  ELSE [page EXCEPT !.card = card, !.edit = Kept(card, own)]

WithPanel(p, rows, card) == [p EXCEPT !.rows = rows, !.hash = PollHash(card, rows)]

(* The answer to a poll or to an action outside of the card: a card that   *)
(* did not load stays out of it.                                           *)
AccountsAnswer(card, rows) ==
  WithPanel(IF card = Unavailable THEN page ELSE MorphCard(card, None), rows, card)

(* The answer to an action in the card. *)
CardAnswer(card, rows, own) == WithPanel(MorphCard(card, own), rows, card)

-----------------------------------------------------------------------------
(* What a handler does, in order: read the page's queue to show it, or for *)
(* the checks of Decisions ("page"); act in core; list the rows.           *)

Script ==
  [poll     |-> <<"queue", "rows">>,
   decide   |-> <<"page", "core", "queue", "rows">>,
   withdraw |-> <<"core", "queue", "rows">>,
   save     |-> <<"core", "queue", "rows">>,
   submit   |-> <<"core", "queue", "rows">>,
   account  |-> <<"core", "queue", "rows">>,
   edit     |-> <<"page", "core">>,
   cancel   |-> <<"page", "core">>,
   sync     |-> <<"queue", "core", "rows">>]

\* A reading of AWS; missing and overtaken are kept for the properties.
NoReading == [queue |-> NoRows, fleet |-> None, missing |-> {}, overtaken |-> FALSE]

Send(kind, name, ver) ==
  [kind |-> kind, name |-> name, ver |-> ver, todo |-> Script[kind], step |-> "check",
   listing |-> NoReading, card |-> Unavailable, rows |-> Unavailable,
   outcome |-> "done", late |-> FALSE]

InTodo(r, part) == sent[r] # None /\ sent[r].todo # <<>> /\ Head(sent[r].todo) = part
Reading(r) == \E part \in {"page", "queue", "rows"} : InTodo(r, part)
AtStep(r, step) == Reading(r) /\ sent[r].step = step
Answered(r) == sent[r] # None /\ sent[r].todo = <<>>

Set(r, next) == sent' = [sent EXCEPT ![r] = next]
Done(q) == [q EXCEPT !.todo = Tail(q.todo), !.step = "check"]
End(q, outcome) == [q EXCEPT !.todo = <<>>, !.outcome = outcome]

Fault == faults < MaxFaults /\ faults' = faults + 1

-----------------------------------------------------------------------------
(* Service.Inventory and PendingRequests.                                  *)

\* The panel lists the accounts and the pending requests of one listing.
Panel(listing) == [fleet |-> listing.fleet, pending |-> listing.queue]

(* What was read goes to the part of the answer that it is for.  What a    *)
(* late poll would show is dropped anyway.                                 *)
Show(q, listing) ==
  LET next == [q EXCEPT !.todo = Tail(@), !.step = "check", !.listing = NoReading]
  IN CASE q.late \/ Head(q.todo) = "page" -> next
       [] Head(q.todo) = "queue" -> [next EXCEPT !.card = [listing EXCEPT !.fleet = None]]
       [] OTHER -> [next EXCEPT !.rows = Panel(listing)]

UseCache(r) ==
  /\ AtStep(r, "check") /\ cache # None
  /\ Set(r, Show(sent[r], cache))
  /\ UNCHANGED <<live, cache, page, budgets>>

(* A cache that is empty, dropped or too old: list the accounts, ... *)
ListAccounts(r) ==
  /\ AtStep(r, "check") /\ cache = None
  /\ Set(r, [sent[r] EXCEPT !.step = "records", !.listing.fleet = live.fleet])
  /\ UNCHANGED <<live, cache, page, budgets>>

(* ... read the tags of the queue, ... *)
ReadRecords(r) ==
  /\ AtStep(r, "records")
  /\ Set(r, [sent[r] EXCEPT !.step = "store", !.listing.queue = live.queue,
                            !.listing.missing = {}])
  /\ UNCHANGED <<live, cache, page, budgets>>

(* ... and keep both, whatever was dropped meanwhile.  PendingRequests      *)
(* takes the records from the cache afterwards; the answer is the same as  *)
(* of a reader that finds them there.                                      *)
Store(r) ==
  /\ AtStep(r, "store")
  /\ cache' = sent[r].listing
  /\ Set(r, Show(sent[r], sent[r].listing))
  /\ UNCHANGED <<live, page, budgets>>

(* A page without its queue says so.  Without its rows, the answer to a    *)
(* poll or a decision says so too, and every other one is a refusal.       *)
FailListing(r) ==
  LET q == sent[r] IN
  /\ AtStep(r, "records") /\ Fault
  /\ Set(r, IF Head(q.todo) = "rows" /\ q.kind \notin {"poll", "decide"} THEN End(q, "error")
            ELSE [Done(q) EXCEPT !.listing = NoReading])
  /\ UNCHANGED <<live, cache, page, clicks, changes>>

\* Invalidate: the next reader lists anew.  A listing under way is not told.
Overtaken == [r \in Requests |->
  IF AtStep(r, "records") \/ AtStep(r, "store")
  THEN [sent[r] EXCEPT !.listing.overtaken = TRUE] ELSE sent[r]]

(* The cache is older than InventoryTTL. *)
Expire ==
  /\ cache # None
  /\ cache' = None
  /\ UNCHANGED <<live, sent, page, budgets>>

-----------------------------------------------------------------------------
(* The part of a handler in core.  A change, or a refusal of a version, is *)
(* followed by Invalidate before the answer is read.                       *)

\* Every reading so far misses the change of slot s.
Missed(s, listing) ==
  IF listing \in {None, Unavailable} THEN listing ELSE [listing EXCEPT !.missing = @ \cup {s}]
AllMiss(s, requests) ==
  [r \in Requests |-> IF requests[r] = None THEN None
     ELSE [requests[r] EXCEPT !.listing = Missed(s, @), !.card = Missed(s, @)]]

Write(s, state) ==
  /\ live' = state
  /\ cache' = None
  /\ sent' = [AllMiss(s, Overtaken) EXCEPT ![s] = Done(@)]

(* failRequest and refuseDecisions: the card alone is rendered again. *)
Refuse(s) ==
  /\ cache' = None
  /\ sent' = [AllMiss(s, Overtaken) EXCEPT
                ![s] = [sent[s] EXCEPT !.todo = <<"queue">>, !.step = "check", !.outcome = "refused"]]
  /\ UNCHANGED live

Put(n, v) == [live EXCEPT !.queue[n] = v]

(* Approve, deny and withdraw take the version that the page shows. *)
Decide(r) ==
  LET q == sent[r] IN
  /\ InTodo(r, "core") /\ q.kind \in {"decide", "withdraw"}
  /\ IF live.queue[q.name] = q.ver THEN Write(r, Put(q.name, None)) ELSE Refuse(r)
  /\ UNCHANGED <<page, budgets>>

(* editSave takes the version that filled the form. *)
Save(r) ==
  LET q == sent[r] IN
  /\ InTodo(r, "core") /\ q.kind = "save"
  /\ IF live.queue[q.name] = q.ver
     THEN \E v \in Versions : Write(r, Put(q.name, v))
     ELSE Refuse(r)
  /\ UNCHANGED <<page, budgets>>

(* A name that is taken is refused under the form, not in the card. *)
Submit(r) ==
  LET q == sent[r] IN
  /\ InTodo(r, "core") /\ q.kind = "submit"
  /\ IF live.queue[q.name] = None
     THEN \E v \in Versions : Write(r, Put(q.name, v))
     ELSE Set(r, End(q, "error")) /\ UNCHANGED <<live, cache>>
  /\ UNCHANGED <<page, budgets>>

(* Extend and close. *)
ChangeAccount(r) ==
  /\ InTodo(r, "core") /\ sent[r].kind = "account"
  /\ \E f \in Fleets : Write(r, [live EXCEPT !.fleet = f])
  /\ UNCHANGED <<page, budgets>>

(* A form or a plain row is filled from a live read. *)
FillRow(r) ==
  LET q == sent[r] IN
  /\ InTodo(r, "core") /\ q.kind \in {"edit", "cancel"}
  /\ IF live.queue[q.name] = None THEN Refuse(r)
     ELSE Set(r, [End(q, "row") EXCEPT !.ver = live.queue[q.name]]) /\ UNCHANGED <<live, cache>>
  /\ UNCHANGED <<page, budgets>>

(* What a pass of Refresh may leave: requests that expired, accounts that  *)
(* moved on.                                                               *)
Passed == {w \in [queue : Queues, fleet : Fleets] :
             \A n \in Names : w.queue[n] \in {live.queue[n], None}}

(* Sync: a pass, then Invalidate.  The card was read before the pass. *)
Sync(r) ==
  /\ InTodo(r, "core") /\ sent[r].kind = "sync"
  /\ \E w \in Passed : live' = w
  /\ cache' = None
  /\ sent' = [Overtaken EXCEPT ![r] = Done(sent[r])]
  /\ UNCHANGED <<page, budgets>>

(* Core fails: a refusal with no card. *)
CoreFails(r) ==
  /\ InTodo(r, "core") /\ Fault
  /\ Set(r, End(sent[r], "error"))
  /\ UNCHANGED <<live, cache, page, clicks, changes>>

-----------------------------------------------------------------------------
(* The browser.                                                            *)

\* Faulty variant: a poll never learns that an action started after it.
OutdateNothing == sent

\* actionSeq: the answer of a poll under way is not swapped any more.
OutdatePoll ==
  IF sent[Poll] = None THEN sent
  ELSE [sent EXCEPT ![Poll] = [@ EXCEPT !.late = TRUE, !.card = Unavailable, !.rows = Unavailable]]

\* A poll that is due while another request runs waits for the next one.
PollDue ==
  /\ sent[Poll] = None /\ Running = {}
  /\ Set(Poll, Send("poll", None, None))
  /\ UNCHANGED <<live, cache, page, budgets>>

Click(s, kind, name, ver) ==
  /\ sent[s] = None /\ clicks < MaxClicks
  /\ sent' = [OutdatePoll EXCEPT ![s] = Send(kind, name, ver)]
  /\ clicks' = clicks + 1
  /\ UNCHANGED <<live, cache, page, changes, faults>>

ShowsRow(n) == page.card # Unavailable /\ page.card[n] # None

(* The buttons of a plain row, of an open form, and outside of the card. A *)
(* form under way drops a second click (hx-sync).                          *)
ClickRow(s) ==
  \E n \in Names, kind \in {"decide", "withdraw", "edit"} :
    /\ ShowsRow(n) /\ page.edit[n] = None
    /\ ~\E t \in Running : sent[t].kind = kind /\ sent[t].name = n
    /\ Click(s, kind, n, page.card[n])

ClickForm(s) ==
  \E n \in Names, kind \in {"save", "cancel"} :
    /\ page.edit[n] # None
    /\ ~\E t \in Running : sent[t].kind = kind /\ sent[t].name = n
    /\ Click(s, kind, n, page.edit[n])

ClickAccount(s) ==
  /\ ~\E t \in Running : sent[t].kind = "account"
  /\ page.rows # Unavailable
  /\ \E n \in Names : Click(s, "account", n, None)

ClickPage(s) ==
  \E kind \in {"submit", "sync"} :
    /\ ~\E t \in Running : sent[t].kind = kind
    /\ \E n \in Names : Click(s, kind, n, None)

\* A reading that missed the change of slot s misses a change that the page has
\* the answer to.
Relabel(s, listing) ==
  IF listing \notin {None, Unavailable} /\ s \in listing.missing
  THEN [listing EXCEPT !.missing = (@ \ {s}) \cup {Landed}] ELSE listing

(* A request that ended; next is what the page shows with its answer. *)
Land(s, next) ==
  /\ page' = next
  /\ sent' = [r \in Requests |-> IF r = s \/ sent[r] = None THEN None
       ELSE [sent[r] EXCEPT !.listing = Relabel(s, @), !.card = Relabel(s, @)]]
  /\ cache' = Relabel(s, cache)
  /\ UNCHANGED <<live, budgets>>

Shown(card) == IF card = Unavailable THEN card ELSE card.queue

\* The server answers 204 to a poll that sent the hash of the answer.  It is
\* still the hash of the page: what changed the page since began later.
Unchanged(q) == PollHash(Shown(q.card), q.rows) = page.hash

LandPoll ==
  LET q == sent[Poll] IN
  /\ Answered(Poll)
  /\ Land(Poll, IF q.late \/ Unchanged(q) THEN page ELSE AccountsAnswer(Shown(q.card), q.rows))

LandChange(s) ==
  LET q == sent[s] IN
  /\ Answered(s) /\ q.outcome = "done"
  /\ Land(s, IF q.kind \in {"decide", "withdraw", "save"}
             THEN CardAnswer(Shown(q.card), q.rows, q.name)
             ELSE AccountsAnswer(Shown(q.card), q.rows))

(* The row of the request takes the form, or the plain row.  No row, no    *)
(* swap.                                                                   *)
LandRow(s) ==
  LET q == sent[s] IN
  /\ Answered(s) /\ q.outcome = "row"
  /\ Land(s, CASE ~ShowsRow(q.name) -> page
               [] q.kind = "edit" -> [page EXCEPT !.edit[q.name] = q.ver]
               [] OTHER -> [page EXCEPT !.edit[q.name] = None, !.card[q.name] = q.ver])

(* The card of a refusal carries no hash. *)
LandRefusal(s) ==
  LET q == sent[s] IN
  /\ Answered(s) /\ q.outcome = "refused"
  /\ Land(s, MorphCard(Shown(q.card), q.name))

LandError(s) == Answered(s) /\ sent[s].outcome = "error" /\ Land(s, page)

-----------------------------------------------------------------------------
(* Other processes, and the worker of this one.                            *)

Elsewhere ==
  /\ changes < MaxChanges /\ changes' = changes + 1
  /\ \E n \in Names, v \in Versions \cup {None}, f \in Fleets :
       /\ <<v, f>> # <<live.queue[n], live.fleet>>
       /\ live' = [queue |-> [live.queue EXCEPT ![n] = v], fleet |-> f]
  /\ UNCHANGED <<cache, sent, page, clicks, faults>>

(* A pass of the worker that changed something drops the cache. *)
Pass ==
  /\ changes < MaxChanges /\ changes' = changes + 1
  /\ \E w \in Passed \ {live} : live' = w
  /\ cache' = None
  /\ sent' = Overtaken
  /\ UNCHANGED <<page, clicks, faults>>

-----------------------------------------------------------------------------

(* The page was just loaded: index, from a cache that holds what it shows. *)
Init ==
  /\ live \in [queue : Queues, fleet : Fleets]
  /\ cache = [NoReading EXCEPT !.queue = live.queue, !.fleet = live.fleet]
  /\ page = [card |-> live.queue, edit |-> NoRows, rows |-> Panel(cache),
             hash |-> PollHash(live.queue, Panel(cache))]
  /\ sent = [r \in Requests |-> None]
  /\ clicks = 0 /\ changes = 0 /\ faults = 0

ReadStep(r) ==
  \/ UseCache(r) \/ ListAccounts(r) \/ ReadRecords(r) \/ Store(r)
  \/ FailListing(r)
CoreStep(r) ==
  \/ Decide(r) \/ Save(r) \/ Submit(r) \/ ChangeAccount(r) \/ FillRow(r) \/ Sync(r)
  \/ CoreFails(r)
Landing(s) == LandChange(s) \/ LandRow(s) \/ LandRefusal(s) \/ LandError(s)

Next ==
  \/ \E r \in Requests : ReadStep(r)
  \/ \E s \in Slots : CoreStep(s) \/ Landing(s) \/ ClickRow(s) \/ ClickForm(s)
                      \/ ClickAccount(s) \/ ClickPage(s)
  \/ PollDue \/ LandPoll \/ Expire \/ Elsewhere \/ Pass

Spec == Init /\ [][Next]_vars

(* The page polls every 15 seconds, requests are answered, and the cache   *)
(* grows old.                                                              *)
Fairness ==
  /\ WF_vars(PollDue) /\ WF_vars(LandPoll) /\ WF_vars(Expire)
  /\ \A r \in Requests : WF_vars(ReadStep(r))
  /\ \A s \in Slots : WF_vars(CoreStep(s)) /\ WF_vars(Landing(s))

FairSpec == Spec /\ Fairness

-----------------------------------------------------------------------------

\* What the viewer did is never undone on the page.  The answer to a change
\* or to a refusal shows a queue read after it, and a poll that is swapped
\* shows one read after every change that the page has the answer to; except
\* from a listing that an Invalidate overtook and that the cache kept all the
\* same (app.js actionSeq, requestRunning; pendingAt, PendingRequests).
Shows(r, change) ==
  \/ sent[r].card = Unavailable
  \/ change \notin sent[r].card.missing
  \/ sent[r].card.overtaken
NothingUndone ==
  /\ \A s \in Slots : Answered(s) /\ sent[s].outcome \in {"done", "refused"} => Shows(s, s)
  /\ Answered(Poll) /\ ~sent[Poll].late => Shows(Poll, Landed)

ShowsLive ==
  /\ page.card # Unavailable
  /\ \A n \in Names : page.edit[n] # None \/ page.card[n] = live.queue[n]
  /\ page.rows = [fleet |-> live.fleet, pending |-> live.queue]

\* The hash stands for what the page shows; a card that did not load stayed
\* out of the answer.
HashIsOfPage == \E card \in {page.card, Unavailable} : page.hash = PollHash(card, page.rows)

\* Whatever answers come late, are dropped, fail or are refused, and whatever
\* others change meanwhile: the page comes to show the live queue and fleet
\* again, unless its hash is not of what it shows (table, pollHash, app.js).
PageCatchesUp == []<>(ShowsLive \/ ~HashIsOfPage)
=============================================================================
