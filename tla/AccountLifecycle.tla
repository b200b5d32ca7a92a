-------------------------- MODULE AccountLifecycle --------------------------
(***************************************************************************)
(* The life of one account from its creation at AWS to its confirmed       *)
(* closure (internal/core/service.go, readiness.go, account.go).  All that *)
(* playplace knows of an account is the account's tags; Refresh, PollCreate *)
(* Extend and RequestClose read them, decide, and write them back one AWS  *)
(* call at a time.  opMu lets one process run one of these operations at a *)
(* time; a page of the same process may still act on a row it cached.      *)
(*                                                                         *)
(* One action is one provider call together with the decisions that follow *)
(* it.  A call may fail, may be applied and be reported as failed, and the *)
(* process may crash between two calls.  AWS closes an account some time   *)
(* after it accepted the request, and may suspend or close one by itself.  *)
(***************************************************************************)
EXTENDS Naturals

CONSTANTS
  Procs,            \* processes that hold one opMu each
  Never, NoRow,
  AccessEnabled,    \* AccessEnabled of the provider
  DefaultTTL,       \* Config.DefaultTTL, of an adopted account
  MaxTTL,           \* Config.MaxTTL; the account was created at time 0
  WarnBefore,       \* Config.WarnBefore
  CloseAlertAfter,  \* Config.CloseAlertAfter
  MaxTime,          \* bound of the clock
  Faults, MaxFaults \* kinds of fault that occur, and a bound on their number

ASSUME ParametersAssumption ==
  /\ AccessEnabled \in BOOLEAN
  /\ DefaultTTL \in Nat /\ MaxTTL \in Nat /\ WarnBefore \in Nat /\ CloseAlertAfter \in Nat
  /\ MaxTime \in Nat /\ MaxFaults \in Nat
  /\ Never \notin Nat
  /\ Faults \subseteq {"fail", "lost", "crash", "quota", "budget", "suspend", "external"}

VARIABLES
  aws,     \* the account at AWS: its state, its place, the owner's grant
  tags,    \* its tags
  now,     \* the clock
  op,      \* each process: the operation under its opMu
  view,    \* each process: a row of an earlier inventory, or NoRow
  faults,  \* number of faults so far
  sent     \* history: the notices sent, the expiring one with its expiry

vars == <<aws, tags, now, op, view, faults, sent>>

Times == 0 .. (MaxTime + DefaultTTL + MaxTTL)
ProviderStates == {"ACTIVE", "SUSPENDED", "PENDING_CLOSURE", "CLOSED"}
Handoffs == {"", "placing", "pending", "complete"}

\* expires is Never while the tag is missing; owner: the tag names a user.
Tags ==
  [managed : BOOLEAN, owner : BOOLEAN, expires : Times \cup {Never}, warned : BOOLEAN,
   intent : Times \cup {Never}, closed : BOOLEAN, alerted : BOOLEAN, access : BOOLEAN,
   handoff : Handoffs]

Row == [state : ProviderStates, tags : Tags]

Kinds == {"none", "pass", "expiry", "poll", "extend", "close"}

\* Where an operation stands; the name tells the next provider call.
Labels == {"idle", "root", "move", "placeTags", "fresh", "adopt", "record", "budget", "grant",
           "grantTag", "handoff", "expire", "warn", "track", "revoke", "revokeTag", "close",
           "verify", "confirm", "alert", "extendTag", "extendUntag", "closeTag"}

OpState ==
  [pc : Labels, kind : Kinds, row : Row \cup {NoRow}, start : Times, healthy : BOOLEAN]

Idle == [pc |-> "idle", kind |-> "none", row |-> NoRow, start |-> 0, healthy |-> FALSE]

Live == [state |-> aws.state, tags |-> tags]

\* Either CreateAccount made it, with the tags of the request and in the
\* organization root, or somebody moved it into the OU without tags.
Init ==
  /\ aws \in [state : {"ACTIVE"}, ou : BOOLEAN, grant : {FALSE}, asked : {FALSE}]
  /\ tags \in IF aws.ou
              THEN [managed : {FALSE}, owner : BOOLEAN, expires : {Never}, warned : {FALSE},
                    intent : {Never}, closed : {FALSE}, alerted : {FALSE}, access : {FALSE},
                    handoff : {""}]
              ELSE [managed : {TRUE}, owner : {TRUE}, expires : 1 .. MaxTTL, warned : {FALSE},
                    intent : {Never}, closed : {FALSE}, alerted : {FALSE}, access : {FALSE},
                    handoff : {"placing"}]
  /\ now = 0
  /\ op = [p \in Procs |-> Idle]
  /\ view = [p \in Procs |-> NoRow]
  /\ faults = 0
  /\ sent = [ready |-> 0, closed |-> 0, overdue |-> 0, expiring |-> Never]

-----------------------------------------------------------------------------
(* What an operation does after the call it has just made.                 *)

At(o, l) == [o EXCEPT !.pc = l]

\* checkClosureDelay, which only the closing branch of a pass reaches.
Delay(o) ==
  IF /\ o.kind = "pass" /\ CloseAlertAfter > 0
     /\ now >= o.row.tags.intent + CloseAlertAfter /\ ~o.row.tags.alerted
  THEN At(o, "alert") ELSE Idle

\* Faulty variant: a closure that AWS no longer lets us ask for is not watched.
AfterRevokeUnwatched(o) == IF o.row.state = "ACTIVE" THEN At(o, "close") ELSE Idle

AfterRevoke(o) == IF o.row.state = "ACTIVE" THEN At(o, "close") ELSE Delay(o)

\* revokeAccess first, if a grant is recorded.
Closing(o) == IF AccessEnabled /\ o.row.tags.access THEN At(o, "revoke") ELSE AfterRevoke(o)

\* Faulty variant: the warning's margin also decides the closure.
ExpiryEarly(o) ==
  IF o.kind # "pass" THEN Idle
  ELSE IF o.row.tags.expires <= o.start + WarnBefore
       THEN At(o, IF o.row.tags.warned THEN "expire" ELSE "warn")
  ELSE Idle

\* The end of a pass over the account: only its expiry counts.
Expiry(o) ==
  IF o.kind # "pass" THEN Idle
  ELSE IF o.row.tags.expires <= o.start THEN At(o, "expire")
  ELSE IF o.row.tags.expires <= o.start + WarnBefore /\ ~o.row.tags.warned THEN At(o, "warn")
  ELSE Idle

\* The initial handoff, once the account is usable by its owner.
Handoff(o) ==
  IF /\ o.row.tags.handoff = "pending" /\ o.row.tags.expires > now /\ o.healthy
     /\ IF AccessEnabled THEN o.row.tags.access ELSE o.row.tags.owner
  THEN At(o, "handoff") ELSE Expiry(o)

\* Faulty variant: the grant is recorded and not made.
GrantingRecorded(o) ==
  IF o.row.tags.expires <= now THEN Expiry(o)
  ELSE IF AccessEnabled /\ ~o.row.tags.access
       THEN IF o.row.tags.owner THEN At(o, "grantTag") ELSE Expiry(o)
       ELSE Handoff(o)

\* grantAccess; without an identifiable owner the account waits for one.
Granting(o) ==
  IF o.row.tags.expires <= now THEN Expiry(o)
  ELSE IF AccessEnabled /\ ~o.row.tags.access
       THEN IF o.row.tags.owner THEN At(o, "grant") ELSE Expiry(o)
       ELSE Handoff(o)

Protect(o) ==
  IF o.row.state = "ACTIVE" /\ o.row.tags.intent = Never /\ o.row.tags.expires > now
  THEN At(o, "budget") ELSE Expiry(o)

\* Faulty variant: readiness only follows a placement, and is not resumed.
ReadinessOnce(o) == IF o.row.tags.handoff = "placing" THEN At(o, "record") ELSE Expiry(o)

\* reconcileReadiness.
Readiness(o) == IF o.row.tags.handoff = "placing" THEN At(o, "record") ELSE Protect(o)

\* Faulty variant: only AWS's own state makes a pass close, not the intent.
VisitByState(o) ==
  IF o.row.state = "CLOSED"
  THEN IF o.row.tags.intent # Never /\ ~o.row.tags.closed THEN At(o, "confirm") ELSE Idle
  ELSE IF o.row.state = "PENDING_CLOSURE"
       THEN IF o.row.tags.intent = Never THEN At(o, "track") ELSE Closing(o)
  ELSE IF o.row.state # "ACTIVE" THEN Idle
  ELSE IF ~o.row.tags.managed THEN At(o, "adopt")
  ELSE Readiness(o)

\* Faulty variant: the closing clock starts with every pass.
VisitRestarts(o) ==
  IF o.row.state = "CLOSED"
  THEN IF o.row.tags.intent # Never /\ ~o.row.tags.closed THEN At(o, "confirm") ELSE Idle
  ELSE IF o.row.state = "PENDING_CLOSURE" THEN At(o, "track")
  ELSE IF o.row.tags.intent # Never THEN Closing(o)
  ELSE IF o.row.state # "ACTIVE" THEN Idle
  ELSE IF ~o.row.tags.managed THEN At(o, "adopt")
  ELSE Readiness(o)

\* Faulty variant: a closure that AWS deferred is not asked for again.
VisitOnce(o) ==
  IF o.row.state = "CLOSED"
  THEN IF o.row.tags.intent # Never /\ ~o.row.tags.closed THEN At(o, "confirm") ELSE Idle
  ELSE IF o.row.tags.intent # Never THEN Delay(o)
  ELSE IF o.row.state = "PENDING_CLOSURE" THEN At(o, "track")
  ELSE IF o.row.state # "ACTIVE" THEN Idle
  ELSE IF ~o.row.tags.managed THEN At(o, "adopt")
  ELSE Readiness(o)

\* Faulty variant: only the closing call itself confirms a closure.
VisitConfirmsNothing(o) ==
  IF o.row.state = "CLOSED" THEN Idle
  ELSE IF o.row.tags.intent # Never THEN Closing(o)
  ELSE IF o.row.state = "PENDING_CLOSURE" THEN At(o, "track")
  ELSE IF o.row.state # "ACTIVE" THEN Idle
  ELSE IF ~o.row.tags.managed THEN At(o, "adopt")
  ELSE Readiness(o)

\* The body of Refresh for one account.
Visit(o) ==
  IF o.row.state = "CLOSED"
  THEN IF o.row.tags.intent # Never /\ ~o.row.tags.closed THEN At(o, "confirm") ELSE Idle
  ELSE IF o.row.tags.intent # Never THEN Closing(o)
  ELSE IF o.row.state = "PENDING_CLOSURE" THEN At(o, "track")
  ELSE IF o.row.state # "ACTIVE" THEN Idle
  ELSE IF ~o.row.tags.managed THEN At(o, "adopt")
  ELSE Readiness(o)

\* The close call is over, whatever AWS said.
AfterClose(o) == Delay(o)

\* The operation of p after its current call returned an error.
AfterError(p) ==
  LET o == op[p] IN
  IF o.pc = "root" /\ o.row # NoRow THEN Visit(o)
  ELSE IF o.pc \in {"record", "budget", "grant", "grantTag", "handoff"} THEN Expiry(o)
  ELSE IF o.pc \in {"revoke", "revokeTag"} THEN AfterRevoke(o)
  ELSE IF o.pc \in {"close", "verify"} THEN AfterClose(o)
  ELSE Idle

-----------------------------------------------------------------------------
(* Provider calls.                                                         *)

Continue(p, o) == op' = [op EXCEPT ![p] = o]

Fault(kind) == kind \in Faults /\ faults < MaxFaults /\ faults' = faults + 1

\* The call is applied; its reply arrives or is lost.
Replies(p, next) ==
  \/ Continue(p, next) /\ UNCHANGED faults
  \/ Fault("lost") /\ Continue(p, AfterError(p))

\* SetTags or RemoveTags.
Write(p, t, next) == tags' = t /\ Replies(p, next)

\* SetTags, and after its reply the notice n, which now reads v.
WriteThenNotify(p, t, next, n, v) ==
  /\ tags' = t
  /\ \/ Continue(p, next) /\ UNCHANGED faults /\ sent' = [sent EXCEPT ![n] = v]
     \/ Fault("lost") /\ Continue(p, AfterError(p)) /\ UNCHANGED sent

More(n) == IF sent[n] = 2 THEN 2 ELSE sent[n] + 1

CallFails(p) ==
  /\ op[p].pc # "idle"
  /\ Fault("fail")
  /\ Continue(p, AfterError(p))
  /\ UNCHANGED <<aws, tags, now, view, sent>>

Crash(p) ==
  /\ op[p] # Idle \/ view[p] # NoRow
  /\ Fault("crash")
  /\ Continue(p, Idle)
  /\ view' = [view EXCEPT ![p] = NoRow]
  /\ UNCHANGED <<aws, tags, now, sent>>

-----------------------------------------------------------------------------
(* Refresh.                                                                *)

\* List the OU ...
Refresh(p) ==
  /\ op[p] = Idle
  /\ Continue(p, [Idle EXCEPT !.pc = "root", !.kind = "pass", !.start = now,
                              !.row = IF aws.ou THEN Live ELSE NoRow])
  /\ UNCHANGED <<aws, tags, now, view, faults, sent>>

AwaitsPlacement == ~aws.ou /\ aws.state = "ACTIVE" /\ tags.managed /\ tags.handoff = "placing"

\* ... then the root, for an account that was never placed.
RefreshRoot(p) ==
  LET o == op[p] IN
  /\ o.pc = "root"
  /\ Continue(p, IF o.row # NoRow THEN Visit(o)
                  ELSE IF AwaitsPlacement THEN [o EXCEPT !.pc = "move", !.row = Live]
                  ELSE Idle)
  /\ UNCHANGED <<aws, tags, now, view, faults, sent>>

\* PollCreate of a creation that succeeded and was never placed, as far as
\* its tags tell; a crash can leave it in the OU with these tags.
PollCreate(p) ==
  /\ op[p] = Idle
  /\ tags.managed /\ tags.handoff = "placing" /\ aws.state = "ACTIVE" /\ tags.intent = Never
  /\ Continue(p, [Idle EXCEPT !.pc = "move", !.kind = "poll", !.start = now, !.row = Live])
  /\ UNCHANGED <<aws, tags, now, view, faults, sent>>

\* PlaceAccount: the move, unless it happened before ...
Move(p) ==
  /\ op[p].pc = "move"
  /\ aws' = [aws EXCEPT !.ou = TRUE]
  /\ Replies(p, At(op[p], "placeTags"))
  /\ UNCHANGED <<tags, now, view, sent>>

\* Account.Tags written over the live tags t; a tag it lacks is left alone.
WithTags(t, listed) ==
  [t EXCEPT !.managed = TRUE, !.owner = listed.owner, !.expires = listed.expires,
            !.warned = @ \/ listed.warned, !.access = @ \/ listed.access,
            !.intent = IF listed.intent # Never THEN listed.intent ELSE @]

\* ... then its tags without the handoff.
PlaceTags(p) ==
  LET o == op[p] IN
  /\ o.pc = "placeTags"
  /\ Write(p, WithTags(tags, o.row.tags), At(o, "fresh"))
  /\ UNCHANGED <<aws, now, view, sent>>

\* The account is read again after the placement.
Fresh(p) ==
  LET o == [op[p] EXCEPT !.row = Live] IN
  /\ op[p].pc = "fresh"
  /\ Continue(p, IF o.kind = "poll" THEN Readiness(o) ELSE Visit(o))
  /\ UNCHANGED <<aws, tags, now, view, faults, sent>>

\* An account in the OU without our tags is adopted with the defaults.
Adopt(p) ==
  LET o == op[p]
      t == [o.row.tags EXCEPT !.managed = TRUE, !.handoff = IF @ = "" THEN "pending" ELSE @,
                              !.expires = IF @ = Never THEN o.start + DefaultTTL ELSE @] IN
  /\ o.pc = "adopt"
  /\ Write(p, [WithTags(tags, t) EXCEPT !.handoff = t.handoff],
              Readiness([o EXCEPT !.row.tags = t]))
  /\ UNCHANGED <<aws, now, view, sent>>

\* The placement is a fact before anything else is.
Record(p) ==
  LET o == [op[p] EXCEPT !.row.tags.handoff = "pending"] IN
  /\ op[p].pc = "record"
  /\ Write(p, [tags EXCEPT !.handoff = "pending"], Protect(o))
  /\ UNCHANGED <<aws, now, view, sent>>

\* reconcileBudget settles, and leaves the account usable or restricted; or
\* it has not settled, or failed, and the pass only looks at the expiry.
Budget(p) ==
  LET o == op[p] IN
  /\ o.pc = "budget"
  /\ \/ Continue(p, Granting([o EXCEPT !.healthy = TRUE])) /\ UNCHANGED faults
     \/ Fault("budget") /\ (Continue(p, Granting(o)) \/ Continue(p, Expiry(o)))
  /\ UNCHANGED <<aws, tags, now, view, sent>>

Grant(p) ==
  /\ op[p].pc = "grant"
  /\ aws' = [aws EXCEPT !.grant = TRUE]
  /\ Replies(p, At(op[p], "grantTag"))
  /\ UNCHANGED <<tags, now, view, sent>>

GrantTag(p) ==
  LET o == [op[p] EXCEPT !.row.tags.access = TRUE] IN
  /\ op[p].pc = "grantTag"
  /\ Write(p, [tags EXCEPT !.access = TRUE], Handoff(o))
  /\ UNCHANGED <<aws, now, view, sent>>

\* Faulty variant: the owner is told before the handoff is durable.
HandoffNotified(p) ==
  LET o == op[p] IN
  /\ o.pc = "handoff"
  /\ sent' = [sent EXCEPT !.ready = More("ready")]
  /\ \/ Write(p, [tags EXCEPT !.handoff = "complete"], Expiry(o))
     \/ Fault("fail") /\ Continue(p, AfterError(p)) /\ UNCHANGED tags
  /\ UNCHANGED <<aws, now, view>>

HandoffWrite(p) ==
  LET o == op[p] IN
  /\ o.pc = "handoff"
  /\ WriteThenNotify(p, [tags EXCEPT !.handoff = "complete"], Expiry(o), "ready", More("ready"))
  /\ UNCHANGED <<aws, now, view>>

WarnTag(p) ==
  LET o == op[p] IN
  /\ o.pc = "warn"
  /\ WriteThenNotify(p, [tags EXCEPT !.warned = TRUE], Idle, "expiring", o.row.tags.expires)
  /\ UNCHANGED <<aws, now, view>>

-----------------------------------------------------------------------------
(* Closing: the intent, the access, the call, the confirmation.            *)

ExpireTag(p) ==
  LET o == [op[p] EXCEPT !.kind = "expiry", !.row.tags.intent = op[p].start] IN
  /\ op[p].pc = "expire"
  /\ Write(p, [tags EXCEPT !.intent = o.start], Closing(o))
  /\ UNCHANGED <<aws, now, view, sent>>

\* AWS or an operator closes the account: only the clock is recorded.
Track(p) ==
  LET o == [op[p] EXCEPT !.row.tags.intent = op[p].start] IN
  /\ op[p].pc = "track"
  /\ Write(p, [tags EXCEPT !.intent = o.start], Closing(o))
  /\ UNCHANGED <<aws, now, view, sent>>

Revoke(p) ==
  /\ op[p].pc = "revoke"
  /\ aws' = [aws EXCEPT !.grant = FALSE]
  /\ Replies(p, At(op[p], "revokeTag"))
  /\ UNCHANGED <<tags, now, view, sent>>

RevokeTag(p) ==
  /\ op[p].pc = "revokeTag"
  /\ Write(p, [tags EXCEPT !.access = FALSE], AfterRevoke(op[p]))
  /\ UNCHANGED <<aws, now, view, sent>>

\* CloseAccount; AWS accepts it, has accepted it before, or defers it.
Close(p) ==
  LET o == op[p] IN
  /\ o.pc = "close"
  /\ \/ /\ aws.state \in {"ACTIVE", "CLOSED"}
        /\ aws' = [aws EXCEPT !.asked = TRUE]
        /\ Replies(p, At(o, "verify"))
     \/ /\ aws.state \in {"SUSPENDED", "PENDING_CLOSURE"}
        /\ Continue(p, AfterClose(o)) /\ UNCHANGED <<aws, faults>>
     \/ Fault("quota") /\ Continue(p, AfterClose(o)) /\ UNCHANGED aws
  /\ UNCHANGED <<tags, now, view, sent>>

\* Faulty variant: the accepted request counts as the closure.
VerifyAccepted(p) ==
  /\ op[p].pc = "verify"
  /\ Continue(p, IF tags.closed THEN Idle ELSE At(op[p], "confirm"))
  /\ UNCHANGED <<aws, tags, now, view, faults, sent>>

\* A fresh read decides what became of the request.
Verify(p) ==
  LET o == op[p] IN
  /\ o.pc = "verify"
  /\ Continue(p, IF aws.state # "CLOSED"
                  THEN AfterClose([o EXCEPT !.row = Live,
                                     !.row.tags.intent = IF tags.intent = Never
                                                         THEN o.row.tags.intent ELSE tags.intent])
                  ELSE IF tags.closed THEN Idle ELSE At(o, "confirm"))
  /\ UNCHANGED <<aws, tags, now, view, faults, sent>>

Confirm(p) ==
  /\ op[p].pc = "confirm"
  /\ WriteThenNotify(p, [tags EXCEPT !.closed = TRUE], Idle, "closed", More("closed"))
  /\ UNCHANGED <<aws, now, view>>

Alert(p) ==
  /\ op[p].pc = "alert"
  /\ WriteThenNotify(p, [tags EXCEPT !.alerted = TRUE], Idle, "overdue", More("overdue"))
  /\ UNCHANGED <<aws, now, view>>

-----------------------------------------------------------------------------
(* Extend and RequestClose, on a row that may come from the cache.         *)

\* CanExtend and CanClose.
InUse(row) == row.state = "ACTIVE" /\ row.tags.intent = Never

\* A page reads the inventory, and the row stays until InventoryTTL is over.
\* A read that was under way while something changed stores the old row
\* after Invalidate, so no change is sure to end it.  (A row that is not in
\* use gives its reader nothing to do.)
View(p) ==
  /\ aws.ou /\ InUse(Live) /\ view[p] = NoRow
  /\ view' = [view EXCEPT ![p] = Live]
  /\ UNCHANGED <<aws, tags, now, op, faults, sent>>

ViewEnds(p) ==
  /\ view[p] # NoRow
  /\ view' = [view EXCEPT ![p] = NoRow]
  /\ UNCHANGED <<aws, tags, now, op, faults, sent>>

\* What Get can return for an account in the OU.
Rows(p) == (IF aws.ou THEN {Live} ELSE {}) \cup ({view[p]} \ {NoRow})

ExpiresAt(row) == IF row.tags.expires = Never THEN now + DefaultTTL ELSE row.tags.expires

\* The ceiling counts from the creation; no admin overrides it.
CheckLifetime(until) == until <= MaxTTL

Extend(p) ==
  /\ op[p] = Idle
  /\ \E row \in Rows(p), until \in Times :
       /\ CheckLifetime(until)
       /\ InUse(row) /\ until > ExpiresAt(row)
       /\ Continue(p, [Idle EXCEPT !.pc = "extendTag", !.kind = "extend", !.start = now,
                                   !.row = [row EXCEPT !.tags.expires = until]])
  /\ UNCHANGED <<aws, tags, now, view, faults, sent>>

ExtendTag(p) ==
  LET o == op[p] IN
  /\ o.pc = "extendTag"
  /\ Write(p, [tags EXCEPT !.expires = o.row.tags.expires], At(o, "extendUntag"))
  /\ UNCHANGED <<aws, now, view, sent>>

ExtendUntag(p) ==
  /\ op[p].pc = "extendUntag"
  /\ Write(p, [tags EXCEPT !.warned = FALSE], Idle)
  /\ UNCHANGED <<aws, now, view, sent>>

RequestClose(p) ==
  /\ op[p] = Idle
  /\ \E row \in Rows(p) :
       /\ InUse(row)
       /\ Continue(p, [Idle EXCEPT !.pc = "closeTag", !.kind = "close", !.start = now,
                                   !.row = [row EXCEPT !.tags.intent = now]])
  /\ UNCHANGED <<aws, tags, now, view, faults, sent>>

CloseTag(p) ==
  LET o == op[p] IN
  /\ o.pc = "closeTag"
  /\ Write(p, [tags EXCEPT !.intent = o.start], Closing(o))
  /\ UNCHANGED <<aws, now, view, sent>>

-----------------------------------------------------------------------------
(* AWS, and time.                                                          *)

AwsCloses ==
  /\ \/ aws.state = "ACTIVE" /\ aws.asked /\ aws' = [aws EXCEPT !.state = "PENDING_CLOSURE"]
     \/ aws.state = "PENDING_CLOSURE" /\ aws' = [aws EXCEPT !.state = "CLOSED"]
  /\ UNCHANGED <<tags, now, op, view, faults, sent>>

\* Somebody closes the account at AWS, or AWS suspends it.
AwsActsAlone ==
  /\ aws.state = "ACTIVE"
  /\ \/ Fault("external") /\ aws' = [aws EXCEPT !.state = "PENDING_CLOSURE"]
     \/ Fault("suspend") /\ aws' = [aws EXCEPT !.state = "SUSPENDED"]
  /\ UNCHANGED <<tags, now, op, view, sent>>

AwsReinstates ==
  /\ aws.state = "SUSPENDED"
  /\ aws' = [aws EXCEPT !.state = "ACTIVE"]
  /\ UNCHANGED <<tags, now, op, view, faults, sent>>

Tick ==
  /\ now < MaxTime
  /\ now' = now + 1
  /\ UNCHANGED <<aws, tags, op, view, faults, sent>>

-----------------------------------------------------------------------------
PlaceSteps(p) == RefreshRoot(p) \/ Move(p) \/ PlaceTags(p) \/ Fresh(p) \/ Adopt(p)
ReadySteps(p) ==
  Record(p) \/ Budget(p) \/ Grant(p) \/ GrantTag(p) \/ HandoffWrite(p) \/ WarnTag(p)
CloseSteps(p) ==
  \/ ExpireTag(p) \/ Track(p) \/ Revoke(p) \/ RevokeTag(p) \/ Close(p) \/ Verify(p)
  \/ Confirm(p) \/ Alert(p)
PersonSteps(p) == ExtendTag(p) \/ ExtendUntag(p) \/ CloseTag(p)

\* The operation under way in p goes on.
Proceed(p) == PlaceSteps(p) \/ ReadySteps(p) \/ CloseSteps(p) \/ PersonSteps(p)

Next ==
  \/ \E p \in Procs :
       \/ Refresh(p) \/ PollCreate(p) \/ Extend(p) \/ RequestClose(p)
       \/ Proceed(p) \/ CallFails(p) \/ Crash(p) \/ View(p) \/ ViewEnds(p)
  \/ AwsCloses \/ AwsActsAlone \/ AwsReinstates \/ Tick

Spec == Init /\ [][Next]_vars

\* A call returns, so an operation under opMu goes on; the schedule runs
\* Refresh again and again, and sync.Mutex starves nobody; AWS finishes what it
\* accepted.  Time and people owe nothing.
Fairness ==
  /\ \A p \in Procs : WF_vars(Proceed(p)) /\ SF_vars(Refresh(p))
  /\ WF_vars(AwsCloses)

FairSpec == Spec /\ Fairness

TypeOK ==
  /\ aws \in [state : ProviderStates, ou : BOOLEAN, grant : BOOLEAN, asked : BOOLEAN]
  /\ tags \in Tags
  /\ now \in 0 .. MaxTime
  /\ op \in [Procs -> OpState]
  /\ view \in [Procs -> Row \cup {NoRow}]
  /\ faults \in 0 .. MaxFaults
  /\ sent \in [ready : 0 .. 2, closed : 0 .. 2, overdue : 0 .. 2, expiring : Times \cup {Never}]

-----------------------------------------------------------------------------
(* Safety.                                                                 *)

\* A pass closes an account by itself only when the expiry that its tags
\* carry at that moment has passed, also when extensions, damaged passes and
\* crashes came before (Refresh under opMu).
ExpiryClosesOnlyExpired ==
  [][\A p \in Procs :
       (op[p].pc = "expire" /\ tags.intent = Never /\ tags'.intent # Never)
         => tags.expires <= now]_vars

\* Closure is recorded and announced only when AWS reports it, never on the
\* acceptance of the request (tryClose, confirmClosed).
ClosedOnlyWhenConfirmed == (tags.closed \/ sent.closed > 0) => aws.state = "CLOSED"

\* Nobody is told twice that an account is ready, closed or overdue, whatever
\* call fails and wherever the process crashes.
NoticesAtMostOnce == sent.ready <= 1 /\ sent.closed <= 1 /\ sent.overdue <= 1

\* An account that is to be closed is neither granted to its owner nor moves
\* on in its handoff: the durable close intent applies also while AWS still
\* says ACTIVE, and after a creation that stopped half-way.
NoHandoffAgainstIntent ==
  [][((aws'.grant /\ ~aws.grant) \/ tags'.handoff # tags.handoff)
       => tags.intent = Never]_vars

\* The owner is told that the account is ready only when the owner can use it.
ReadyMeansAccess ==
  [][(sent'.ready > sent.ready) => (AccessEnabled => aws.grant) /\ aws.ou /\ tags.managed]_vars

\* A pass does not restart the clock of the closure alert.
ClosureClockKept ==
  [][\A p \in Procs :
       (op[p].kind \in {"pass", "expiry"} /\ tags.intent # Never /\ op'[p] # op[p])
         => tags'.intent = tags.intent]_vars

-----------------------------------------------------------------------------
(* Liveness.                                                               *)

Expired == tags.expires # Never /\ tags.expires <= now
Overdue == tags.intent # Never /\ tags.intent + CloseAlertAfter <= now

\* An expired account does not stay open: whatever failed before, a later pass
\* makes AWS close it, unless somebody extended it in time.
ExpiredIsClosed ==
  (aws.ou /\ aws.state = "ACTIVE" /\ Expired) ~> (aws.state # "ACTIVE" \/ ~Expired)

\* An account of a known owner is handed over, unless it ends before: a creation
\* that nobody waited for, and one whose placement or grant failed half-way.
OwnedIsHandedOver ==
  (tags.owner /\ aws.state = "ACTIVE")
    ~> \/ tags.handoff = "complete"
       \/ aws.state # "ACTIVE" \/ tags.intent # Never \/ Expired

\* The confirmation of a closure is recorded, however long AWS took and
\* whoever asked for it.
ClosureIsConfirmed == (aws.ou /\ aws.state = "CLOSED" /\ tags.intent # Never) ~> tags.closed

\* A closure that AWS does not confirm is reported once it is overdue.
OverdueIsReported ==
  (aws.ou /\ CloseAlertAfter > 0 /\ Overdue) ~> (tags.alerted \/ aws.state = "CLOSED" \/ ~Overdue)

=============================================================================
