---------------------------- MODULE RequestQueue ----------------------------
(***************************************************************************)
(* The approval queue of playplace (internal/core/service.go, request.go,  *)
(* creation_failure.go).  A request for an account is one tag on the       *)
(* Playground OU; its key holds the account's name and its value the       *)
(* request record.  Every process (web and Slack server, worker, TUI, CLI) *)
(* works on these tags with separate AWS calls.  opMu serializes the       *)
(* operations of one process, so a process here runs one operation at a    *)
(* time; nothing serializes two processes.                                 *)
(*                                                                         *)
(* One action is one provider call together with the local computation     *)
(* that follows it.  A call may fail, may be applied and still be reported *)
(* as failed, and a process may crash between two calls.                   *)
(***************************************************************************)
EXTENDS Naturals, FiniteSets

CONSTANTS
  Procs,              \* processes that hold one opMu each
  DirectCreators,     \* those among them that only run `playplace create`
  Names,              \* account names, hence tag keys and derived root emails
  Journeys,           \* journey ids NewHistoryID can return
  CreateIds,          \* creation request ids AWS can return
  Owners, Requesters, \* people named in requests
  Approvers,          \* people who decide
  Terms,              \* lifetime, budget, purpose and override of a request
  NoRecord, NoCreation, NoRef, None,
  MaxTags,            \* MaxTagsPerResource
  MaxPerOwner,        \* Config.MaxPerOwner
  RequestTTL,         \* Config.RequestTTL
  DayLong,            \* 24 hours
  PlacementGrace,     \* placementGrace, one hour
  FailedRetention,    \* Config.FailedRetention
  AllowSelfApproval,  \* Config.AllowSelfApproval
  MaxTime, LastInput, \* bounds: of the clock, and of the time people act
  Faults, MaxFaults   \* kinds of fault that occur, and a bound on their number

\* Names and AWS request ids are strings of bounded length.
ASSUME FiniteAssumption == IsFiniteSet(Names) /\ IsFiniteSet(CreateIds)

ASSUME BoundsAssumption ==
  /\ MaxTags \in Nat /\ MaxPerOwner \in Nat
  /\ RequestTTL \in Nat /\ DayLong \in Nat /\ FailedRetention \in Nat
  /\ PlacementGrace \in Nat /\ PlacementGrace <= DayLong
  /\ MaxTime \in Nat /\ LastInput \in Nat /\ MaxFaults \in Nat
  /\ AllowSelfApproval \in BOOLEAN
  /\ DirectCreators \subseteq Procs
  /\ Faults \subseteq {"fail", "lost", "lostCreate", "crash", "root"}

VARIABLES
  queue,    \* the OU's request tags: name -> record
  creation, \* AWS: creation requests and the accounts they led to
  now,      \* the clock
  op,       \* each process: the operation under its opMu
  faults,   \* number of faults so far
  issued,   \* history: journeys whose record was written or created directly
  shown,    \* history: every version of a pending request anybody could load
  notices   \* history: failure notices sent for each creation

vars == <<queue, creation, now, op, faults, issued, shown, notices>>

Times == 0 .. MaxTime
People == Owners \cup Requesters

Record ==
  [jid : Journeys \cup {None}, owner : Owners, by : People, terms : Terms,
   requestedAt : Times, approved : BOOLEAN, approver : Approvers \cup {None},
   approvedAt : Times, cid : CreateIds \cup {None}, reported : BOOLEAN]

\* RequestRef: the name, and the version, a digest of what the actor sees.
Ref ==
  [name : Names, jid : Journeys \cup {None}, owner : Owners, by : People,
   terms : Terms, requestedAt : Times]

States == {"creating", "failed", "unplaced", "placed", "closed"}

Creation ==
  [name : Names, jid : Journeys, owner : Owners, by : People, terms : Terms,
   approver : Approvers \cup {None}, ref : Ref \cup {NoRef}, state : States,
   doneAt : Times, confirmed : BOOLEAN, missed : BOOLEAN]

ASSUME DistinctAssumption ==
  /\ None \notin Names \cup Journeys \cup CreateIds \cup Owners \cup Approvers
  /\ NoRecord \notin Record /\ NoCreation \notin Creation /\ NoRef \notin Ref

Queues == [Names -> Record \cup {NoRecord}]
Creations == [CreateIds -> Creation \cup {NoCreation}]
EmptyQueue == [n \in Names |-> NoRecord]
NoCreations == [c \in CreateIds |-> NoCreation]

\* Where an operation stands; the name tells the next provider call.
Labels == {"idle", "checks", "room", "replaced", "enqueue", "claim", "list",
           "records", "create", "restore", "confirm", "editList", "editChecks",
           "edit", "remove", "place", "dropRead", "dropRemove", "expireList",
           "expire", "reportRead", "reportWrite", "announce"}
Callers == {"idle", "enqueue", "expire", "refresh", "poll"}

OpState ==
  [pc : Labels, target : Names \cup {None}, ref : Ref \cup {NoRef},
   rec : Record \cup {NoRecord}, cid : CreateIds \cup {None},
   tags : Queues, seen : Creations, root : BOOLEAN, at : Times,
   todo : SUBSET Names, back : Callers]

Idle ==
  [pc |-> "idle", target |-> None, ref |-> NoRef, rec |-> NoRecord,
   cid |-> None, tags |-> EmptyQueue, seen |-> NoCreations, root |-> TRUE,
   at |-> 0, todo |-> {}, back |-> "idle"]

Version(n, r) ==
  [name |-> n, jid |-> r.jid, owner |-> r.owner, by |-> r.by,
   terms |-> r.terms, requestedAt |-> r.requestedAt]

Pending(q, n) == q[n] # NoRecord /\ ~q[n].approved
Approved(q, n) == q[n] # NoRecord /\ q[n].approved

Init ==
  /\ queue = EmptyQueue
  /\ creation = NoCreations
  /\ now = 0
  /\ op = [p \in Procs |-> Idle]
  /\ faults = 0
  /\ issued = {}
  /\ shown = {}
  /\ notices = [c \in CreateIds |-> 0]

-----------------------------------------------------------------------------
(* What the code computes from what it read.                               *)

\* The owner the inventory shows for creation c: the creation's own tags once
\* the account exists, before that the approved record with its request id.
PairedOwners(s, q, c) ==
  IF s[c].state \in {"unplaced", "placed", "closed"} THEN {s[c].owner}
  ELSE {q[n].owner : n \in {m \in Names : Approved(q, m) /\ q[m].cid = c}}

Open(s, c) == s[c] # NoCreation /\ s[c].state \in {"creating", "unplaced", "placed"}

\* Open rows of the inventory under an owner, leaving out the name `except`.
Held(s, q, owner, except) ==
  Cardinality({n \in Names \ {except} : Pending(q, n) /\ q[n].owner = owner})
  + Cardinality({c \in CreateIds : /\ Open(s, c)
                                   /\ s[c].name # except
                                   /\ owner \in PairedOwners(s, q, c)})

\* Faulty variant: the exception for a request's own journey covers creations.
NameFreeForJourney(s, q, n, j) ==
  /\ \A c \in CreateIds :
       s[c] # NoCreation /\ s[c].name = n => s[c].state = "failed" \/ s[c].jid = j
  /\ Pending(q, n) => j # None /\ q[n].jid = j

\* A failed creation does not hold its name; a closed account does, because
\* the root email is derived from the name; a pending request does, except
\* against the approval of its own journey j.
NameFree(s, q, n, j) ==
  /\ \A c \in CreateIds : s[c] # NoCreation /\ s[c].name = n => s[c].state = "failed"
  /\ Pending(q, n) => j # None /\ q[n].jid = j

UsedTags(q) == Cardinality({n \in Names : q[n] # NoRecord})

MayApprove(r, approver) == AllowSelfApproval \/ approver \notin {r.by, r.owner}

-----------------------------------------------------------------------------
(* Provider calls, and what an operation does when one of them fails.      *)

\* Back to the loop over the accounts to place.
Placing(o) == [o EXCEPT !.pc = "place", !.target = None, !.cid = None]

\* The operation of p after its current call returned an error.
AfterError(p) ==
  LET o == op[p] IN
  IF o.pc \in {"list", "records", "create"} /\ o.ref # NoRef THEN [o EXCEPT !.pc = "restore"]
  ELSE IF o.pc \in {"dropRead", "dropRemove"} THEN Placing(o)
  ELSE IF o.pc \in {"reportRead", "reportWrite"} /\ o.back = "expire"
       THEN [o EXCEPT !.pc = "expire", !.todo = @ \ {o.target}]
  ELSE Idle

Continue(p, o) == op' = [op EXCEPT ![p] = o]

Fault(kind) == kind \in Faults /\ faults < MaxFaults /\ faults' = faults + 1

\* SetOUTags or RemoveOUTags: applied, and either acknowledged or reported as
\* failed.  A call that fails without effect is CallFails.
WriteTags(p, q, next) ==
  /\ queue' = q
  /\ \/ Continue(p, next) /\ UNCHANGED faults
     \/ Fault("lost") /\ Continue(p, AfterError(p))

CallFails(p) ==
  /\ op[p].pc \notin {"idle", "announce", "place"}
  /\ Fault("fail")
  /\ Continue(p, AfterError(p))
  /\ UNCHANGED <<queue, creation, now, issued, shown, notices>>

\* Bound: a write that needs a new id is refused once the ids have run out.
OutOfIds(p) ==
  /\ \/ op[p].pc = "enqueue" /\ issued = Journeys
     \/ op[p].pc = "create" /\ op[p].ref = NoRef /\ issued = Journeys
     \/ op[p].pc = "create" /\ \A c \in CreateIds : creation[c] # NoCreation
  /\ Continue(p, AfterError(p))
  /\ UNCHANGED <<queue, creation, now, faults, issued, shown, notices>>

Crash(p) ==
  /\ op[p] # Idle
  /\ Fault("crash")
  /\ Continue(p, Idle)
  /\ UNCHANGED <<queue, creation, now, issued, shown, notices>>

Env == <<creation, now, issued, shown, notices>>

-----------------------------------------------------------------------------
(* Inventory(force): the accounts and the creations in one step, then the  *)
(* records.                                                                *)

\* p reads the creations and goes on with o.  Inventory does without the root
\* listing when that call fails.
Listed(p, o) ==
  \/ Continue(p, [o EXCEPT !.seen = creation]) /\ UNCHANGED faults
  \/ Fault("root") /\ Continue(p, [o EXCEPT !.seen = creation, !.root = FALSE])

\* Creation c waits in the root that o could not list.
Hidden(o, c) == ~o.root /\ o.seen[c] # NoCreation /\ o.seen[c].state = "unplaced"

\* It goes missing once the records are read PlacementGrace after its end.
Overlooks(o, c) == Hidden(o, c) /\ now > o.seen[c].doneAt + PlacementGrace

\* Faulty variant: it goes missing at once.
InventoryInRoot(o) ==
  [c \in CreateIds |-> IF Hidden(o, c) THEN NoCreation ELSE o.seen[c]]

\* Until then it shows as a creation that goes on.
Inventory(o) ==
  [c \in CreateIds |-> IF Overlooks(o, c) THEN NoCreation
                       ELSE IF Hidden(o, c) THEN [o.seen[c] EXCEPT !.state = "creating"]
                       ELSE o.seen[c]]

\* History: the creations the inventory lacks.
Miss(o) ==
  creation' = [c \in CreateIds |-> IF Overlooks(o, c) THEN [creation[c] EXCEPT !.missed = TRUE]
                                                     ELSE creation[c]]

AfterInventory(o, pc) == [o EXCEPT !.pc = pc, !.seen = NoCreations, !.root = TRUE]

-----------------------------------------------------------------------------
(* SubmitRequest.                                                          *)

Draft(o, b, t) ==
  [jid |-> None, owner |-> o, by |-> b, terms |-> t, requestedAt |-> 0,
   approved |-> FALSE, approver |-> None, approvedAt |-> 0, cid |-> None,
   reported |-> FALSE]

Submit(p) ==
  /\ op[p] = Idle /\ now <= LastInput
  /\ \E n \in Names, o \in Owners, b \in Requesters, t \in Terms :
       Listed(p, [Idle EXCEPT !.pc = "checks", !.target = n, !.rec = Draft(o, b, t)])
  /\ UNCHANGED <<queue, Env>>

BelowLimit(held) == MaxPerOwner > 0 => held < MaxPerOwner

SubmitChecks(p) ==
  LET o == op[p] IN
  /\ o.pc = "checks"
  /\ Continue(p, IF /\ NameFree(Inventory(o), queue, o.target, None)
                    /\ BelowLimit(Held(Inventory(o), queue, o.rec.owner, None))
                  THEN AfterInventory(o, "room") ELSE Idle)
  /\ Miss(o)
  /\ UNCHANGED <<queue, now, faults, issued, shown, notices>>

SubmitRoom(p) ==
  LET o == op[p] IN
  /\ o.pc = "room"
  /\ Continue(p, IF UsedTags(queue) < MaxTags
                  THEN [o EXCEPT !.pc = "replaced", !.rec.requestedAt = now] ELSE Idle)
  /\ UNCHANGED <<queue, faults, Env>>

Failed(s, c) == c # None /\ s[c] # NoCreation /\ s[c].state = "failed"

\* Start reportCreationFailure on the record that q holds under n.
Reporting(o, q, n, back) ==
  [o EXCEPT !.pc = "reportRead", !.target = n, !.tags[n] = q[n], !.back = back]

\* Faulty variant: a new request takes the key without a look at the old record.
SubmitOverwrites(p) ==
  /\ op[p].pc = "replaced"
  /\ Continue(p, [op[p] EXCEPT !.pc = "enqueue"])
  /\ UNCHANGED <<queue, faults, Env>>

\* reportReplacedFailure reads the records and then the creations.  One step
\* suffices: reportCreationFailure reads the record again before it acts.
SubmitReplaced(p) ==
  LET o == op[p]
      n == o.target IN
  /\ o.pc = "replaced"
  /\ Continue(p, IF Approved(queue, n) /\ ~queue[n].reported /\ Failed(creation, queue[n].cid)
                  THEN Reporting(o, queue, n, "enqueue")
                  ELSE [o EXCEPT !.pc = "enqueue"])
  /\ UNCHANGED <<queue, faults, Env>>

Enqueue(p) ==
  LET o == op[p] IN
  /\ o.pc = "enqueue"
  /\ \E j \in Journeys \ issued :
       LET r == [o.rec EXCEPT !.jid = j] IN
       /\ WriteTags(p, [queue EXCEPT ![o.target] = r], Idle)
       /\ issued' = issued \cup {j}
       /\ shown' = shown \cup {Version(o.target, r)}
  /\ UNCHANGED <<creation, now, notices>>

-----------------------------------------------------------------------------
(* reportCreationFailure: flag the live record, then announce.             *)

AfterReport(p) ==
  LET o == op[p] IN
  IF o.back = "enqueue" THEN [o EXCEPT !.pc = "enqueue", !.tags = EmptyQueue, !.back = "idle"]
  ELSE IF o.back = "expire" THEN [o EXCEPT !.pc = "expire", !.tags[o.target].reported = TRUE]
  ELSE Idle

ReportRead(p) ==
  LET o == op[p]
      n == o.target
      cur == queue[n] IN
  /\ o.pc = "reportRead"
  /\ Continue(p, IF /\ Approved(queue, n) /\ ~cur.reported
                    /\ cur.jid = o.tags[n].jid /\ cur.cid = o.tags[n].cid
                  THEN [o EXCEPT !.pc = "reportWrite", !.tags[n] = cur]
                  ELSE AfterReport(p))
  /\ UNCHANGED <<queue, faults, Env>>

\* Faulty variant: the failure is announced without the durable flag.
ReportUnflagged(p) ==
  /\ op[p].pc = "reportWrite"
  /\ Continue(p, [op[p] EXCEPT !.pc = "announce"])
  /\ UNCHANGED <<queue, faults, Env>>

ReportWrite(p) ==
  LET o == op[p]
      n == o.target IN
  /\ o.pc = "reportWrite"
  /\ WriteTags(p, [queue EXCEPT ![n] = [o.tags[n] EXCEPT !.reported = TRUE]],
                 [o EXCEPT !.pc = "announce"])
  /\ UNCHANGED Env

Announce(p) ==
  LET o == op[p] IN
  /\ o.pc = "announce"
  /\ notices' = [notices EXCEPT ![o.tags[o.target].cid] = IF @ = 2 THEN 2 ELSE @ + 1]
  /\ Continue(p, AfterReport(p))
  /\ UNCHANGED <<queue, creation, now, faults, issued, shown>>

-----------------------------------------------------------------------------
(* Approve, and Request, which it calls.                                   *)

\* Faulty variant: the request is found by its name alone.
SeenByName(ref) == Pending(queue, ref.name)

\* pendingAt: the live record is pending and has the version the actor saw.
SeenAs(ref) == Pending(queue, ref.name) /\ Version(ref.name, queue[ref.name]) = ref

Approve(p) ==
  /\ op[p] = Idle /\ now <= LastInput
  /\ \E ref \in shown, a \in Approvers :
       /\ SeenAs(ref)
       /\ MayApprove(queue[ref.name], a)
       /\ Continue(p, [Idle EXCEPT !.pc = "claim", !.target = ref.name, !.ref = ref,
                        !.rec = [queue[ref.name] EXCEPT !.approved = TRUE, !.approver = a,
                                                        !.approvedAt = now]])
  /\ UNCHANGED <<queue, faults, Env>>

\* Faulty variant: the creation is requested before the record is marked.
ClaimLater(p) ==
  /\ op[p].pc = "claim"
  /\ Continue(p, [op[p] EXCEPT !.pc = "list"])
  /\ UNCHANGED <<queue, faults, Env>>

Claim(p) ==
  LET o == op[p] IN
  /\ o.pc = "claim"
  /\ WriteTags(p, [queue EXCEPT ![o.target] = o.rec], [o EXCEPT !.pc = "list"])
  /\ UNCHANGED Env

\* `playplace create` calls Request without the queue and without opMu.
DirectCreate(p) ==
  /\ op[p] = Idle /\ now <= LastInput
  /\ \E n \in Names, o \in Owners, b \in Requesters, t \in Terms :
       Continue(p, [Idle EXCEPT !.pc = "list", !.target = n, !.rec = Draft(o, b, t)])
  /\ UNCHANGED <<queue, faults, Env>>

RequestList(p) ==
  LET o == op[p] IN
  /\ o.pc = "list"
  /\ Listed(p, [o EXCEPT !.pc = "records"])
  /\ UNCHANGED <<queue, Env>>

RequestRecords(p) ==
  LET o == op[p] IN
  /\ o.pc = "records"
  /\ Continue(p, IF NameFree(Inventory(o), queue, o.target, o.rec.jid)
                  THEN AfterInventory(o, "create") ELSE AfterError(p))
  /\ Miss(o)
  /\ UNCHANGED <<queue, now, faults, issued, shown, notices>>

\* RequestAccount.  A reply can be lost after AWS accepted the creation.
CreateAccount(p) ==
  LET o == op[p] IN
  /\ o.pc = "create"
  /\ \E c \in CreateIds, j \in Journeys :
       /\ creation[c] = NoCreation
       /\ IF o.ref = NoRef THEN j \notin issued ELSE j = o.rec.jid
       /\ creation' = [creation EXCEPT ![c] =
            [name |-> o.target, jid |-> j, owner |-> o.rec.owner, by |-> o.rec.by,
             terms |-> o.rec.terms, approver |-> o.rec.approver, ref |-> o.ref,
             state |-> "creating", doneAt |-> 0, confirmed |-> FALSE,
             missed |-> FALSE]]
       /\ issued' = issued \cup {j}
       /\ \/ /\ UNCHANGED faults
             /\ Continue(p, IF o.ref = NoRef THEN Idle
                             ELSE [o EXCEPT !.pc = "confirm", !.cid = c,
                                     !.rec.approvedAt = now, !.rec.cid = c])
          \/ Fault("lostCreate") /\ Continue(p, AfterError(p))
  /\ UNCHANGED <<queue, now, shown, notices>>

ApproveRestore(p) ==
  LET o == op[p] IN
  /\ o.pc = "restore"
  /\ WriteTags(p, [queue EXCEPT ![o.target] =
                    [o.rec EXCEPT !.approved = FALSE, !.approver = None, !.approvedAt = 0]], Idle)
  /\ UNCHANGED Env

ApproveConfirm(p) ==
  LET o == op[p] IN
  /\ o.pc = "confirm"
  /\ WriteTags(p, [queue EXCEPT ![o.target] = o.rec], Idle)
  /\ creation' = [creation EXCEPT ![o.cid].confirmed = TRUE]
  /\ UNCHANGED <<now, issued, shown, notices>>

-----------------------------------------------------------------------------
(* UpdateRequest, Deny and Withdraw.                                       *)

UpdateRequest(p) ==
  /\ op[p] = Idle /\ now <= LastInput
  /\ \E ref \in shown, o \in Owners, t \in Terms :
       /\ SeenAs(ref) /\ <<o, t>> # <<ref.owner, ref.terms>>
       /\ Continue(p, [Idle EXCEPT !.pc = IF o # ref.owner THEN "editList" ELSE "edit",
                        !.target = ref.name, !.ref = ref,
                        !.rec = [queue[ref.name] EXCEPT !.owner = o, !.terms = t]])
  /\ UNCHANGED <<queue, faults, Env>>

UpdateList(p) ==
  LET o == op[p] IN
  /\ o.pc = "editList"
  /\ Listed(p, [o EXCEPT !.pc = "editChecks"])
  /\ UNCHANGED <<queue, Env>>

UpdateChecks(p) ==
  LET o == op[p] IN
  /\ o.pc = "editChecks"
  /\ Continue(p, IF BelowLimit(Held(Inventory(o), queue, o.rec.owner, o.target))
                  THEN AfterInventory(o, "edit") ELSE Idle)
  /\ Miss(o)
  /\ UNCHANGED <<queue, now, faults, issued, shown, notices>>

UpdateWrite(p) ==
  LET o == op[p] IN
  /\ o.pc = "edit"
  /\ WriteTags(p, [queue EXCEPT ![o.target] = o.rec], Idle)
  /\ shown' = shown \cup {Version(o.target, o.rec)}
  /\ UNCHANGED <<creation, now, issued, notices>>

DenyOrWithdraw(p) ==
  /\ op[p] = Idle /\ now <= LastInput
  /\ \E ref \in shown :
       /\ SeenAs(ref)
       /\ Continue(p, [Idle EXCEPT !.pc = "remove", !.target = ref.name, !.ref = ref])
  /\ UNCHANGED <<queue, faults, Env>>

RemoveDecided(p) ==
  LET o == op[p] IN
  /\ o.pc = "remove"
  /\ WriteTags(p, [queue EXCEPT ![o.target] = NoRecord], Idle)
  /\ UNCHANGED Env

-----------------------------------------------------------------------------
(* The part of Refresh and PollCreate that works on the queue: placement,  *)
(* dropApprovedRecord, expireRequests and the failure report.              *)

\* Refresh lists the organization root for creations that wait there, and
\* goes on without when that fails.
Refresh(p) ==
  LET pass == [Idle EXCEPT !.pc = "place", !.back = "refresh"] IN
  /\ op[p] = Idle
  /\ \/ Continue(p, [pass EXCEPT !.seen = creation]) /\ UNCHANGED faults
     \/ Fault("root") /\ Continue(p, pass)
  /\ UNCHANGED <<queue, Env>>

PollSucceeded(p) ==
  /\ op[p] = Idle
  /\ \E c \in CreateIds :
       /\ creation[c] # NoCreation /\ creation[c].state = "unplaced"
       /\ Continue(p, [Idle EXCEPT !.pc = "place", !.back = "poll",
                                   !.seen = [NoCreations EXCEPT ![c] = creation[c]]])
  /\ UNCHANGED <<queue, faults, Env>>

Unplaced(s) == {c \in CreateIds : s[c] # NoCreation /\ s[c].state = "unplaced"}

\* PlaceAccount.  An account that is already in the OU is left there.
Place(p) ==
  LET o == op[p] IN
  /\ o.pc = "place"
  /\ \E c \in Unplaced(o.seen) :
       LET rest == [o EXCEPT !.seen[c] = NoCreation]
           placed == [creation EXCEPT ![c].state = IF @ = "unplaced" THEN "placed" ELSE @] IN
       \/ /\ creation' = placed /\ UNCHANGED faults
          /\ Continue(p, [rest EXCEPT !.pc = "dropRead", !.cid = c, !.target = creation[c].name])
       \/ Fault("lost") /\ creation' = placed /\ Continue(p, rest)
       \/ Fault("fail") /\ UNCHANGED creation /\ Continue(p, rest)
  /\ UNCHANGED <<queue, now, issued, shown, notices>>

DropRead(p) ==
  LET o == op[p]
      n == o.target IN
  /\ o.pc = "dropRead"
  /\ Continue(p, IF Approved(queue, n) /\ queue[n].jid = creation[o.cid].jid
                  THEN [o EXCEPT !.pc = "dropRemove"] ELSE Placing(o))
  /\ UNCHANGED <<queue, faults, Env>>

DropRemove(p) ==
  LET o == op[p] IN
  /\ o.pc = "dropRemove"
  /\ WriteTags(p, [queue EXCEPT ![o.target] = NoRecord], Placing(o))
  /\ UNCHANGED Env

PollDone(p) ==
  /\ op[p].pc = "place" /\ op[p].back = "poll" /\ Unplaced(op[p].seen) = {}
  /\ Continue(p, Idle)
  /\ UNCHANGED <<queue, faults, Env>>

\* expireRequests, the last part of a pass: the records ...
ExpireRead(p) ==
  LET o == op[p] IN
  /\ o.pc = "place" /\ o.back = "refresh" /\ Unplaced(o.seen) = {}
  /\ Continue(p, [Idle EXCEPT !.pc = "expireList", !.tags = queue,
                              !.todo = {n \in Names : queue[n] # NoRecord}, !.back = "expire"])
  /\ UNCHANGED <<queue, faults, Env>>

\* ... then the creations.
ExpireList(p) ==
  /\ op[p].pc = "expireList"
  /\ Continue(p, [op[p] EXCEPT !.pc = "expire", !.seen = creation, !.at = now])
  /\ UNCHANGED <<queue, faults, Env>>

\* Faulty variant: only whoever waits for a creation reports its failure.
UnreportedLeft(o) == {}

Unreported(o) ==
  {n \in o.todo : /\ o.tags[n].approved /\ ~o.tags[n].reported
                  /\ Failed(o.seen, o.tags[n].cid)}

ExpireReport(p) ==
  LET o == op[p] IN
  /\ o.pc = "expire"
  /\ \E n \in Unreported(o) : Continue(p, Reporting(o, o.tags, n, "expire"))
  /\ UNCHANGED <<queue, faults, Env>>

\* Faulty variants: the deadline itself counts as past; approved records stay.
DropsAtDeadline(r, s, t) == ~r.approved /\ t >= r.requestedAt + RequestTTL
DropsPending(r, s, t) == ~r.approved /\ t > r.requestedAt + RequestTTL

\* stale, failedLongAgo and placedLongAgo; a pending record goes after DropsAt.
Drops(r, s, t) ==
  \/ ~r.approved /\ t > r.requestedAt + RequestTTL
  \/ r.approved /\ r.cid = None /\ t > r.approvedAt + DayLong
  \/ /\ r.approved /\ r.cid # None
     /\ \/ s[r.cid].state = "failed" /\ t > s[r.cid].doneAt + FailedRetention
        \/ s[r.cid].state \in {"unplaced", "placed", "closed"} /\ t > s[r.cid].doneAt + DayLong

ExpireRemove(p) ==
  LET o == op[p]
      keys == {n \in o.todo : Drops(o.tags[n], o.seen, o.at)} IN
  /\ o.pc = "expire" /\ Unreported(o) = {}
  /\ IF keys = {} THEN Continue(p, Idle) /\ UNCHANGED <<queue, faults>>
     ELSE WriteTags(p, [n \in Names |-> IF n \in keys THEN NoRecord ELSE queue[n]], Idle)
  /\ UNCHANGED Env

\* PollCreate on a creation that failed, by whoever waits for it.
PollFailed(p) ==
  /\ op[p] = Idle
  /\ \E n \in Names :
       /\ Approved(queue, n) /\ ~queue[n].reported /\ Failed(creation, queue[n].cid)
       /\ Continue(p, Reporting(Idle, queue, n, "idle"))
  /\ UNCHANGED <<queue, faults, Env>>

-----------------------------------------------------------------------------
(* AWS, and time.                                                          *)

\* AWS never frees a root email: a second account with the derived email fails.
CreationEnds(c) ==
  /\ creation[c] # NoCreation /\ creation[c].state = "creating"
  /\ \E s \in {"failed", "unplaced"} :
       /\ s = "unplaced" =>
            \A d \in CreateIds : creation[d] # NoCreation /\ creation[d].name = creation[c].name
                                    => creation[d].state \in {"creating", "failed"}
       /\ creation' = [creation EXCEPT ![c].state = s, ![c].doneAt = now]
  /\ UNCHANGED <<queue, now, op, faults, issued, shown, notices>>

\* An account in the OU reaches the end of its life.
AccountCloses(c) ==
  /\ creation[c] # NoCreation /\ creation[c].state = "placed"
  /\ creation' = [creation EXCEPT ![c].state = "closed"]
  /\ UNCHANGED <<queue, now, op, faults, issued, shown, notices>>

\* Past LastInput the clock waits for what was started to end, so that every
\* retention period fits under MaxTime.
Tick ==
  /\ now < MaxTime
  /\ now >= LastInput =>
       /\ \A c \in CreateIds : creation[c] # NoCreation => creation[c].state # "creating"
       /\ \A p \in Procs \ DirectCreators : op[p] = Idle \/ op[p].back # "idle"
  /\ now' = now + 1
  /\ UNCHANGED <<queue, creation, op, faults, issued, shown, notices>>

-----------------------------------------------------------------------------
SubmitSteps(p) == SubmitChecks(p) \/ SubmitRoom(p) \/ SubmitReplaced(p) \/ Enqueue(p)
ReportSteps(p) == ReportRead(p) \/ ReportWrite(p) \/ Announce(p)
ApproveSteps(p) ==
  \/ Claim(p) \/ RequestList(p) \/ RequestRecords(p)
  \/ CreateAccount(p) \/ ApproveRestore(p) \/ ApproveConfirm(p)
EditSteps(p) == UpdateList(p) \/ UpdateChecks(p) \/ UpdateWrite(p) \/ RemoveDecided(p)
PassSteps(p) ==
  \/ Place(p) \/ DropRead(p) \/ DropRemove(p) \/ PollDone(p) \/ ExpireRead(p)
  \/ ExpireList(p) \/ ExpireReport(p) \/ ExpireRemove(p)

\* The operation under way in p goes on.
Proceed(p) ==
  \/ SubmitSteps(p) \/ ReportSteps(p) \/ ApproveSteps(p) \/ EditSteps(p) \/ PassSteps(p)
  \/ OutOfIds(p)

Start(p) ==
  \/ Submit(p) \/ Approve(p) \/ UpdateRequest(p) \/ DenyOrWithdraw(p)
  \/ Refresh(p) \/ PollSucceeded(p) \/ PollFailed(p)

Next ==
  \/ \E p \in Procs \ DirectCreators : Start(p)
  \/ \E p \in DirectCreators : DirectCreate(p)
  \/ \E p \in Procs : Proceed(p) \/ CallFails(p) \/ Crash(p)
  \/ \E c \in CreateIds : CreationEnds(c) \/ AccountCloses(c)
  \/ Tick

Spec == Init /\ [][Next]_vars

TypeOK ==
  /\ queue \in Queues
  /\ creation \in Creations
  /\ now \in Times
  /\ op \in [Procs -> OpState]
  /\ faults \in 0 .. MaxFaults
  /\ issued \subseteq Journeys
  /\ shown \subseteq Ref
  /\ notices \in [CreateIds -> 0 .. 2]

-----------------------------------------------------------------------------
(* Safety of any number of processes.                                      *)

AsSeen(k) ==
  k.approver # None =>
    /\ k.ref # NoRef
    /\ k.ref.name = k.name /\ k.ref.jid = k.jid /\ k.ref.owner = k.owner
    /\ k.ref.by = k.by /\ k.ref.terms = k.terms
    /\ MayApprove(k, k.approver)

\* Whatever stale page, TUI row or Slack message an approver acts on, the
\* account AWS is asked for is the one that approver saw, and the approver
\* neither asked for it nor would own it (pendingAt, CheckApprover, and the
\* hand-over of the claimed values to Request).
ApprovedAsSeen == \A c \in CreateIds : creation[c] # NoCreation => AsSeen(creation[c])

-----------------------------------------------------------------------------
(* Safety of one process, which opMu gives, whatever calls fail.           *)

\* Creation k failed, or an inventory lacked it for want of the root listing.
Gone(k) == k.state = "failed" \/ k.missed

\* One request never has two creations that AWS did not refuse, also when the
\* reply to the first was lost, the request went back to pending and was
\* approved again (checkNameFree against the live inventory); unless one waited
\* in the root for longer than the grace and an inventory lacked it.
OneAccountPerRequest ==
  \A c, d \in CreateIds :
    /\ c # d /\ creation[c] # NoCreation /\ creation[d] # NoCreation
    /\ creation[c].jid = creation[d].jid
    => Gone(creation[c]) \/ Gone(creation[d])

\* No inventory lacked a creation of the request behind creation c.
Noticed(s, c) ==
  \A d \in CreateIds : s[d] # NoCreation /\ s[d].jid = s[c].jid => ~s[d].missed

Holding(o) ==
  Cardinality({n \in Names : Pending(queue, n) /\ queue[n].owner = o})
  + Cardinality({c \in CreateIds : /\ Open(creation, c) /\ creation[c].owner = o
                                   /\ creation[c].confirmed /\ Noticed(creation, c)})

\* Pending requests and open accounts of one owner stay within MaxPerOwner
\* (SubmitRequest and UpdateRequest check it, Approve does not), counting the
\* accounts whose approved record got its creation id and of whose request no
\* inventory lacked a creation for want of the root listing.
OwnerWithinLimit ==
  MaxPerOwner > 0 => \A o \in Owners : Holding(o) <= MaxPerOwner

\* A failed creation is announced at most once, by whichever of Refresh,
\* PollCreate or a new request under the name comes first.
FailureNotifiedOnce == \A c \in CreateIds : notices[c] <= 1

Replaced(n) == queue[n] # NoRecord /\ (queue'[n] = NoRecord \/ queue'[n].jid # queue[n].jid)

Delivered(s, j) ==
  \E c \in CreateIds : s[c] # NoCreation /\ s[c].jid = j /\ s[c].state \in {"placed", "closed"}

\* No record of a creation known to have failed disappears unreported, also
\* when a new request takes its tag key (reportReplacedFailure), except that
\* another creation of the same request led to an account in the OU.
NoFailureForgotten ==
  [][\A n \in Names :
       (Replaced(n) /\ queue[n].approved /\ Failed(creation, queue[n].cid))
         => queue[n].reported \/ Delivered(creation, queue[n].jid)]_vars

\* A record leaves the queue only when it is due: a pending one after DropsAt
\* or by a decision on exactly this version, an approved one after its account
\* was placed, after its failure was reported, or a day after the approval.
DropsAreDue ==
  [][\A n \in Names :
       (queue[n] # NoRecord /\ queue'[n] = NoRecord) =>
         LET r == queue[n] IN
         IF r.approved
         THEN r.reported \/ now > r.approvedAt + DayLong \/ Delivered(creation, r.jid)
         ELSE \/ now > r.requestedAt + RequestTTL
              \/ \E p \in Procs : op[p].pc = "remove" /\ op[p].ref = Version(n, r)]_vars

\* The queue of one process implements ApprovalJourney.
JourneyState(j) ==
  IF \E c \in CreateIds : /\ creation[c] # NoCreation /\ creation[c].jid = j
                          /\ creation[c].state # "failed" THEN "accepted"
  ELSE IF \E n \in Names : Pending(queue, n) /\ queue[n].jid = j THEN "waiting"
  ELSE IF \E n \in Names : Approved(queue, n) /\ queue[n].jid = j THEN "claimed"
  ELSE IF j \in issued THEN "over" ELSE "unused"

Abstract == INSTANCE ApprovalJourney WITH state <- [j \in Journeys |-> JourneyState(j)]

ImplementsJourney == Abstract!Spec

-----------------------------------------------------------------------------
(* Liveness.  The worker runs a pass again and again, an operation under   *)
(* way goes on (every AWS call has a deadline), AWS decides a creation, and *)
(* faults stop after MaxFaults.  sync.Mutex does not starve the worker; the *)
(* clock is strongly fair because the bound LastInput makes it wait.        *)

Fairness ==
  /\ \A p \in Procs : WF_vars(Proceed(p))
  /\ \A p \in Procs \ DirectCreators : SF_vars(Refresh(p))
  /\ \A c \in CreateIds : WF_vars(CreationEnds(c))
  /\ SF_vars(Tick)

FairSpec == Spec /\ Fairness

RecordOf(j) == \E n \in Names : queue[n] # NoRecord /\ queue[n].jid = j

\* No request holds its tag forever, whatever happened to its approval.
EveryRecordLeaves == \A j \in Journeys : RecordOf(j) ~> ~RecordOf(j)

\* A creation that failed while its approved record named it is announced,
\* also when nobody waited for it.
EveryFailureAnnounced ==
  \A c \in CreateIds :
    (Failed(creation, c) /\ \E n \in Names : Approved(queue, n) /\ queue[n].cid = c)
      ~> notices[c] = 1

-----------------------------------------------------------------------------
(* What comments promise and the code does not keep.                       *)

\* service.go, Approve: "a second approver, in this process or another, finds
\* nothing pending".  Hence a claim never overwrites another claim.
ClaimFindsPending ==
  [][\A p \in Procs : (op[p].pc = "claim" /\ op'[p].pc = "list")
                        => Pending(queue, op[p].target)]_vars

=============================================================================
