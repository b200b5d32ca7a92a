------------------------ MODULE AccountLifecycleProofs ------------------------
(***************************************************************************)
(* Theorems about AccountLifecycle: first those for any number of          *)
(* processes and faults, then those for one process.                       *)
(***************************************************************************)
EXTENDS AccountLifecycle, TLAPS

\* What is known of an operation with a row to work on, when AWS has the
\* account in state s: a row that says CLOSED was read after AWS said so.
Works(o, s) ==
  /\ o \in OpState /\ o.row \in Row /\ o.start \in 0 .. MaxTime
  /\ o.row.state = "CLOSED" => s = "CLOSED"

\* What holds of an operation at every point of it: it has a row once it has
\* listed the OU, and it is about to confirm only a closure it has seen.
Good(o, s) ==
  /\ o \in OpState /\ o.start \in 0 .. MaxTime
  /\ (o.pc \notin {"idle", "root"} \/ o.row # NoRow) => Works(o, s)
  /\ o.pc = "confirm" => s = "CLOSED"

OpsOK == op \in [Procs -> OpState] /\ \A p \in Procs : Good(op[p], aws.state)

AwsOK == aws \in [state : ProviderStates, ou : BOOLEAN, grant : BOOLEAN, asked : BOOLEAN]

SentOK ==
  sent \in [ready : 0 .. 2, closed : 0 .. 2, overdue : 0 .. 2, expiring : Times \cup {Never}]

FaultsOK == faults \in 0 .. MaxFaults

ViewOK == now \in 0 .. MaxTime /\ view \in [Procs -> Row \cup {NoRow}]

\* The inductive invariant.
Inv == /\ OpsOK /\ AwsOK /\ tags \in Tags /\ ViewOK /\ FaultsOK /\ SentOK
       /\ ClosedOnlyWhenConfirmed

-----------------------------------------------------------------------------
(* What the parts of a pass do with an operation.                          *)

LEMMA ZeroTime == 0 \in Times /\ 0 \in 0 .. MaxTime
BY ParametersAssumption DEF Times

LEMMA IdleTyped == Idle \in OpState
BY ZeroTime DEF Idle, OpState, Labels, Kinds

LEMMA IdleGood == \A s : Good(Idle, s)
BY IdleTyped, ZeroTime DEF Good, Idle

LEMMA WorksGood ==
  ASSUME NEW o, NEW s, Works(o, s), o.pc # "confirm"
  PROVE  Good(o, s)
BY DEF Works, Good

LEMMA AtGood ==
  ASSUME NEW o, NEW s, Works(o, s), NEW l \in Labels, l = "confirm" => s = "CLOSED"
  PROVE  Good(At(o, l), s)
<1> DEFINE x == [o EXCEPT !.pc = l]
<1>1. o \in OpState
  BY DEF Works
<1>2. x \in OpState /\ x.pc = l /\ x.row = o.row /\ x.start = o.start
  BY <1>1 DEF OpState
<1>3. QED
  BY <1>2 DEF Good, Works, At

LEMMA DelayGood ==
  ASSUME NEW o, NEW s, Works(o, s)
  PROVE  Good(Delay(o), s)
<1>1. "alert" \in Labels
  BY DEF Labels
<1>2. Good(At(o, "alert"), s)
  BY <1>1, AtGood
<1>3. QED
  BY <1>2, IdleGood DEF Delay

LEMMA AfterRevokeGood ==
  ASSUME NEW o, NEW s, Works(o, s)
  PROVE  Good(AfterRevoke(o), s)
<1>1. "close" \in Labels
  BY DEF Labels
<1>2. Good(At(o, "close"), s)
  BY <1>1, AtGood
<1>3. QED
  BY <1>2, DelayGood DEF AfterRevoke

LEMMA ClosingGood ==
  ASSUME NEW o, NEW s, Works(o, s)
  PROVE  Good(Closing(o), s)
<1>1. "revoke" \in Labels
  BY DEF Labels
<1>2. Good(At(o, "revoke"), s)
  BY <1>1, AtGood
<1>3. QED
  BY <1>2, AfterRevokeGood DEF Closing

LEMMA ExpiryGood ==
  ASSUME NEW o, NEW s, Works(o, s)
  PROVE  Good(Expiry(o), s)
<1>1. "expire" \in Labels /\ "warn" \in Labels
  BY DEF Labels
<1>2. Good(At(o, "expire"), s) /\ Good(At(o, "warn"), s)
  BY <1>1, AtGood
<1>3. QED
  BY <1>2, IdleGood DEF Expiry

LEMMA HandoffGood ==
  ASSUME NEW o, NEW s, Works(o, s)
  PROVE  Good(Handoff(o), s)
<1>1. "handoff" \in Labels
  BY DEF Labels
<1>2. Good(At(o, "handoff"), s)
  BY <1>1, AtGood
<1>3. QED
  BY <1>2, ExpiryGood DEF Handoff

LEMMA GrantingGood ==
  ASSUME NEW o, NEW s, Works(o, s)
  PROVE  Good(Granting(o), s)
<1>1. "grant" \in Labels
  BY DEF Labels
<1>2. Good(At(o, "grant"), s)
  BY <1>1, AtGood
<1>3. Good(Handoff(o), s) /\ Good(Expiry(o), s)
  BY HandoffGood, ExpiryGood
<1>4. QED
  BY <1>2, <1>3 DEF Granting

LEMMA ProtectGood ==
  ASSUME NEW o, NEW s, Works(o, s)
  PROVE  Good(Protect(o), s)
<1>1. "budget" \in Labels
  BY DEF Labels
<1>2. Good(At(o, "budget"), s) /\ Good(Expiry(o), s)
  BY <1>1, AtGood, ExpiryGood
<1>3. QED
  BY <1>2 DEF Protect

LEMMA ReadinessGood ==
  ASSUME NEW o, NEW s, Works(o, s)
  PROVE  Good(Readiness(o), s)
<1>1. "record" \in Labels
  BY DEF Labels
<1>2. Good(At(o, "record"), s) /\ Good(Protect(o), s)
  BY <1>1, AtGood, ProtectGood
<1>3. QED
  BY <1>2 DEF Readiness

LEMMA VisitGood ==
  ASSUME NEW o, NEW s, Works(o, s)
  PROVE  Good(Visit(o), s)
<1>1. "confirm" \in Labels /\ "track" \in Labels /\ "adopt" \in Labels
  BY DEF Labels
<1>2. Good(At(o, "track"), s) /\ Good(At(o, "adopt"), s)
  BY <1>1, AtGood
<1>3. o.row.state = "CLOSED" => Good(At(o, "confirm"), s)
  BY <1>1, AtGood DEF Works
<1>4. Good(Closing(o), s) /\ Good(Readiness(o), s) /\ Good(Idle, s)
  BY ClosingGood, ReadinessGood, IdleGood
<1>5. QED
  BY <1>2, <1>3, <1>4 DEF Visit

LEMMA GoodLater ==
  ASSUME NEW o, NEW s, NEW t, Good(o, s), s = "CLOSED" => t = "CLOSED"
  PROVE  Good(o, t)
BY DEF Good, Works

\* Edits of the operation's own copy of the row.
LEMMA RowTags ==
  ASSUME NEW o, NEW s, Works(o, s), NEW t \in Tags
  PROVE  Works([o EXCEPT !.row.tags = t], s)
<1> DEFINE r == [o.row EXCEPT !.tags = t]
           x == [o EXCEPT !.row = r]
<1>1. o \in OpState /\ o.row \in Row
  BY DEF Works
<1>2. r \in Row /\ r.state = o.row.state
  BY <1>1 DEF Row
<1>3. x \in OpState /\ x.row = r /\ x.start = o.start
  <2> HIDE DEF r
  <2> QED BY <1>1, <1>2 DEF OpState
<1>4. Works(x, s)
  <2> HIDE DEF x, r
  <2> QED BY <1>2, <1>3 DEF Works
<1>5. QED
  BY <1>4

LEMMA IntentEdit ==
  ASSUME NEW o, NEW s, Works(o, s), NEW e \in Times
  PROVE  /\ Works([o EXCEPT !.row.tags.intent = e], s)
         /\ [o EXCEPT !.row.tags.intent = e].start = o.start
<1>1. o.row.tags \in Tags /\ o \in OpState
  BY DEF Works, Row
<1>2. Works([o EXCEPT !.row.tags = [o.row.tags EXCEPT !.intent = e]], s)
  <2>1. [o.row.tags EXCEPT !.intent = e] \in Tags
    BY <1>1 DEF Tags
  <2>2. QED
    BY <2>1, RowTags
<1>3. [o EXCEPT !.row.tags.intent = e].start = o.start
  BY <1>1 DEF OpState
<1>4. QED
  BY <1>2, <1>3

LEMMA HandoffEdit ==
  ASSUME NEW o, NEW s, Works(o, s), NEW h \in Handoffs
  PROVE  Works([o EXCEPT !.row.tags.handoff = h], s)
<1>1. o.row.tags \in Tags
  BY DEF Works, Row
<1>2. Works([o EXCEPT !.row.tags = [o.row.tags EXCEPT !.handoff = h]], s)
  <2>1. [o.row.tags EXCEPT !.handoff = h] \in Tags
    BY <1>1 DEF Tags
  <2>2. QED
    BY <2>1, RowTags
<1>3. QED
  BY <1>2

LEMMA AccessEdit ==
  ASSUME NEW o, NEW s, Works(o, s), NEW b \in BOOLEAN
  PROVE  Works([o EXCEPT !.row.tags.access = b], s)
<1>1. o.row.tags \in Tags
  BY DEF Works, Row
<1>2. Works([o EXCEPT !.row.tags = [o.row.tags EXCEPT !.access = b]], s)
  <2>1. [o.row.tags EXCEPT !.access = b] \in Tags
    BY <1>1 DEF Tags
  <2>2. QED
    BY <2>1, RowTags
<1>3. QED
  BY <1>2

-----------------------------------------------------------------------------
(* What a provider call leaves behind.                                     *)

LEMMA GoodWorks ==
  ASSUME NEW o, NEW s, Good(o, s), o.pc \notin {"idle", "root"} \/ o.row # NoRow
  PROVE  Works(o, s)
BY DEF Good

LEMMA AfterErrorGood ==
  ASSUME NEW p, NEW s, Good(op[p], s)
  PROVE  Good(AfterError(p), s)
<1> DEFINE o == op[p]
<1>1. Good(o, s)
  OBVIOUS
<1>2. AfterError(p) =
        IF o.pc = "root" /\ o.row # NoRow THEN Visit(o)
        ELSE IF o.pc \in {"record", "budget", "grant", "grantTag", "handoff"} THEN Expiry(o)
        ELSE IF o.pc \in {"revoke", "revokeTag"} THEN AfterRevoke(o)
        ELSE IF o.pc \in {"close", "verify"} THEN AfterClose(o)
        ELSE Idle
  BY DEF AfterError
<1> HIDE DEF o
<1>3. CASE o.pc \notin {"idle", "root"} \/ o.row # NoRow
  <2>1. Works(o, s)
    BY <1>1, <1>3, GoodWorks
  <2>2. Good(Visit(o), s) /\ Good(Expiry(o), s)
    BY <2>1, VisitGood, ExpiryGood
  <2>3. Good(AfterRevoke(o), s) /\ Good(AfterClose(o), s)
    BY <2>1, AfterRevokeGood, DelayGood DEF AfterClose
  <2>4. QED
    BY <1>2, <2>2, <2>3, IdleGood
<1>4. CASE o.pc \in {"idle", "root"} /\ o.row = NoRow
  <2>1. AfterError(p) = Idle
    BY <1>2, <1>4
  <2>2. QED
    BY <2>1, IdleGood
<1>5. QED
  BY <1>3, <1>4

\* The operations, after a step of p to an operation that is good by then,
\* and in which AWS did not reopen a closed account.
LEMMA ContinueOK ==
  ASSUME OpsOK, NEW p \in Procs, NEW x, Good(x, aws'.state), Continue(p, x),
         aws.state = "CLOSED" => aws'.state = "CLOSED"
  PROVE  OpsOK'
<1>1. x \in OpState
  BY DEF Good
<1>2. op' \in [Procs -> OpState]
  BY <1>1 DEF OpsOK, Continue
<1>3. ASSUME NEW q \in Procs
      PROVE  Good(op'[q], aws'.state)
  <2>1. CASE q = p
    <3>1. op'[q] = x
      BY <2>1 DEF OpsOK, Continue
    <3>2. QED
      BY <3>1
  <2>2. CASE q # p
    <3>1. op'[q] = op[q]
      BY <2>2 DEF OpsOK, Continue
    <3>2. Good(op[q], aws.state)
      BY DEF OpsOK
    <3>3. Good(op[q], aws'.state)
      BY <3>2, GoodLater
    <3>4. QED
      BY <3>1, <3>3
  <2>3. QED
    BY <2>1, <2>2
<1>4. QED
  BY <1>2, <1>3 DEF OpsOK

LEMMA FaultOK ==
  ASSUME FaultsOK, NEW k, Fault(k)
  PROVE  FaultsOK'
BY ParametersAssumption DEF FaultsOK, Fault

LEMMA RepliesOK ==
  ASSUME OpsOK, FaultsOK, NEW p \in Procs, NEW x, Good(x, aws.state), Replies(p, x),
         aws'.state = aws.state
  PROVE  OpsOK' /\ FaultsOK'
<1>1. Good(op[p], aws.state)
  BY DEF OpsOK
<1>2. Good(AfterError(p), aws.state)
  BY <1>1, AfterErrorGood
<1>3. Good(AfterError(p), aws'.state) /\ Good(x, aws'.state)
  BY <1>2
<1>4. CASE Continue(p, x) /\ UNCHANGED faults
  BY <1>3, <1>4, ContinueOK DEF FaultsOK
<1>5. CASE Fault("lost") /\ Continue(p, AfterError(p))
  BY <1>3, <1>5, ContinueOK, FaultOK
<1>6. QED
  BY <1>4, <1>5 DEF Replies

\* A tag write whose reply may be lost, in a step that changes nothing else.
LEMMA WriteOK ==
  ASSUME Inv, NEW p \in Procs, NEW t \in Tags, NEW x, t.closed = tags.closed,
         Good(x, aws.state), Write(p, t, x), UNCHANGED <<aws, now, view, sent>>
  PROVE  Inv'
<1>1. OpsOK' /\ FaultsOK'
  BY RepliesOK DEF Inv, Write
<1>2. AwsOK' /\ ViewOK' /\ SentOK'
  BY DEF Inv, AwsOK, ViewOK, SentOK
<1>3. tags' \in Tags /\ ClosedOnlyWhenConfirmed'
  BY DEF Inv, Write, ClosedOnlyWhenConfirmed
<1>4. QED
  BY <1>1, <1>2, <1>3 DEF Inv

\* The same with a notice after the reply.
LEMMA NotifyOK ==
  ASSUME Inv, NEW p \in Procs, NEW t \in Tags, NEW x, NEW n, NEW v,
         Good(x, aws.state), WriteThenNotify(p, t, x, n, v), UNCHANGED <<aws, now, view>>,
         n \in {"ready", "closed", "overdue"} => v \in 0 .. 2,
         n \notin {"ready", "closed", "overdue"} => n = "expiring" /\ v \in Times \cup {Never},
         aws.state = "CLOSED" \/ (t.closed = tags.closed /\ n # "closed")
  PROVE  Inv'
<1>1. OpsOK' /\ FaultsOK'
  <2>1. Replies(p, x)
    BY DEF WriteThenNotify, Replies
  <2>2. QED
    BY <2>1, RepliesOK DEF Inv
<1>2. AwsOK' /\ ViewOK'
  BY DEF Inv, AwsOK, ViewOK
<1>3. sent' = sent \/ sent' = [sent EXCEPT ![n] = v]
  BY DEF WriteThenNotify
<1>4. SentOK
  BY DEF Inv
<1>5. CASE sent' = sent
  <2>1. SentOK'
    BY <1>4, <1>5 DEF SentOK
  <2>2. tags' \in Tags /\ ClosedOnlyWhenConfirmed'
    BY <1>5 DEF Inv, WriteThenNotify, ClosedOnlyWhenConfirmed
  <2>3. QED
    BY <1>1, <1>2, <2>1, <2>2 DEF Inv
<1>6. CASE sent' = [sent EXCEPT ![n] = v]
  <2>1. SentOK'
    BY <1>4, <1>6 DEF SentOK
  <2>2. n # "closed" => sent'.closed = sent.closed
    BY <1>4, <1>6 DEF SentOK
  <2>3. tags' \in Tags /\ ClosedOnlyWhenConfirmed'
    BY <2>2 DEF Inv, WriteThenNotify, ClosedOnlyWhenConfirmed
  <2>4. QED
    BY <1>1, <1>2, <2>1, <2>3 DEF Inv
<1>7. QED
  BY <1>3, <1>5, <1>6

\* A step that only reads, and decides what the operation does next.
LEMMA ReadOK ==
  ASSUME Inv, NEW p \in Procs, NEW x, Good(x, aws.state), Continue(p, x),
         UNCHANGED <<aws, tags, now, view, sent>>, FaultsOK'
  PROVE  Inv'
<1>1. OpsOK'
  BY ContinueOK DEF Inv
<1>2. AwsOK' /\ tags' \in Tags /\ ViewOK' /\ SentOK' /\ ClosedOnlyWhenConfirmed'
  BY DEF Inv, AwsOK, ViewOK, SentOK, ClosedOnlyWhenConfirmed
<1>3. QED
  BY <1>1, <1>2 DEF Inv

\* A call that changes the account at AWS, and neither reopens nor closes it.
LEMMA CallOK ==
  ASSUME Inv, NEW p \in Procs, NEW x, Good(x, aws.state), Replies(p, x),
         aws' \in {[aws EXCEPT !.ou = TRUE], [aws EXCEPT !.grant = TRUE],
                   [aws EXCEPT !.grant = FALSE], [aws EXCEPT !.asked = TRUE]},
         UNCHANGED <<tags, now, view, sent>>
  PROVE  Inv'
<1>1. AwsOK' /\ aws'.state = aws.state
  BY DEF Inv, AwsOK
<1>2. OpsOK' /\ FaultsOK'
  BY <1>1, RepliesOK DEF Inv
<1>3. tags' \in Tags /\ ViewOK' /\ SentOK' /\ ClosedOnlyWhenConfirmed'
  BY <1>1 DEF Inv, ViewOK, SentOK, ClosedOnlyWhenConfirmed
<1>4. QED
  BY <1>1, <1>2, <1>3 DEF Inv

-----------------------------------------------------------------------------
(* Facts that the actions share.                                           *)

LEMMA OpFacts ==
  ASSUME Inv, NEW p \in Procs
  PROVE  /\ Good(op[p], aws.state)
         /\ op[p].pc \notin {"idle", "root"} => Works(op[p], aws.state)
<1>1. Good(op[p], aws.state)
  BY DEF Inv, OpsOK
<1>2. QED
  BY <1>1, GoodWorks

LEMMA LiveOK ==
  ASSUME Inv
  PROVE  Live \in Row /\ Live.state = aws.state /\ Live.tags = tags
BY DEF Inv, AwsOK, Live, Row

\* A new operation, with a row that is not known to be closed.
LEMMA StartGood ==
  ASSUME Inv, NEW l \in Labels, l # "confirm", NEW k \in Kinds, NEW row \in Row,
         row.state = "CLOSED" => aws.state = "CLOSED"
  PROVE  Good([Idle EXCEPT !.pc = l, !.kind = k, !.start = now, !.row = row], aws.state)
<1> DEFINE x == [Idle EXCEPT !.pc = l, !.kind = k, !.start = now, !.row = row]
<1>1. now \in 0 .. MaxTime /\ now \in Times
  BY ParametersAssumption DEF Inv, ViewOK, Times
<1>2. x \in OpState /\ x.pc = l /\ x.row = row /\ x.start = now
  BY <1>1, IdleTyped DEF OpState
<1>3. Works(x, aws.state) /\ x.pc # "confirm"
  <2> HIDE DEF x
  <2> QED BY <1>1, <1>2 DEF Works
<1>4. Good(x, aws.state)
  <2> HIDE DEF x
  <2> QED BY <1>3, WorksGood
<1>5. QED
  BY <1>4

\* The operation with a fresh read of the account as its row.
LEMMA FreshWorks ==
  ASSUME Inv, NEW o, Works(o, aws.state)
  PROVE  Works([o EXCEPT !.row = Live], aws.state)
<1> DEFINE x == [o EXCEPT !.row = Live]
<1>1. Live \in Row /\ Live.state = aws.state
  BY LiveOK
<1>2. x \in OpState /\ x.row = Live /\ x.start = o.start
  BY <1>1 DEF Works, OpState
<1>3. QED
  BY <1>1, <1>2 DEF Works

\* The tags that a pass or PlaceAccount writes over the live ones.
LEMMA WithTagsOK ==
  ASSUME NEW t \in Tags, NEW listed \in Tags
  PROVE  WithTags(t, listed) \in Tags /\ WithTags(t, listed).closed = t.closed
<1> DEFINE w == t.warned \/ listed.warned
           a == t.access \/ listed.access
           i == IF listed.intent # Never THEN listed.intent ELSE t.intent
           x == [t EXCEPT !.managed = TRUE, !.owner = listed.owner, !.expires = listed.expires,
                          !.warned = w, !.access = a, !.intent = i]
<1>1. w \in BOOLEAN /\ a \in BOOLEAN
  OBVIOUS
<1>2. i \in Times \cup {Never}
  BY DEF Tags
<1>3. x \in Tags /\ x.closed = t.closed
  <2> HIDE DEF w, a, i
  <2> QED BY <1>1, <1>2 DEF Tags
<1>4. WithTags(t, listed) = x
  BY DEF WithTags
<1>5. QED
  <2> HIDE DEF x
  <2> QED BY <1>3, <1>4

-----------------------------------------------------------------------------
(* Refresh, and the placement.                                             *)

LEMMA RefreshOK ==
  ASSUME Inv, NEW p \in Procs, Refresh(p)
  PROVE  Inv'
<1>1. CASE aws.ou
  <2>1. Good([Idle EXCEPT !.pc = "root", !.kind = "pass", !.start = now, !.row = Live], aws.state)
    BY LiveOK, StartGood DEF Labels, Kinds
  <2>2. Continue(p, [Idle EXCEPT !.pc = "root", !.kind = "pass", !.start = now, !.row = Live])
    BY <1>1 DEF Refresh
  <2>3. UNCHANGED <<aws, tags, now, view, sent>> /\ FaultsOK'
    BY DEF Refresh, Inv, FaultsOK
  <2>4. QED
    BY <2>1, <2>2, <2>3, ReadOK
<1>2. CASE ~aws.ou
  <2> DEFINE x == [Idle EXCEPT !.pc = "root", !.kind = "pass", !.start = now, !.row = NoRow]
  <2>1. now \in Times /\ now \in 0 .. MaxTime
    BY ParametersAssumption DEF Inv, ViewOK, Times
  <2>2. x \in OpState /\ x.pc = "root" /\ x.row = NoRow /\ x.start = now
    BY <2>1, IdleTyped DEF OpState, Labels, Kinds
  <2>3. Good(x, aws.state)
    <3> HIDE DEF x
    <3> QED BY <2>1, <2>2 DEF Good
  <2>4. Continue(p, x)
    BY <1>2 DEF Refresh
  <2>5. UNCHANGED <<aws, tags, now, view, sent>> /\ FaultsOK'
    BY DEF Refresh, Inv, FaultsOK
  <2>6. QED
    BY <2>3, <2>4, <2>5, ReadOK
<1>3. QED
  BY <1>1, <1>2

LEMMA RefreshRootOK ==
  ASSUME Inv, NEW p \in Procs, RefreshRoot(p)
  PROVE  Inv'
<1> DEFINE o == op[p]
           x == [o EXCEPT !.pc = "move", !.row = Live]
<1>1. Good(o, aws.state)
  BY OpFacts
<1>2. o.row # NoRow => Good(Visit(o), aws.state)
  BY <1>1, GoodWorks, VisitGood
<1>3. Good(x, aws.state)
  <2>1. Live \in Row /\ Live.state = aws.state /\ o \in OpState /\ o.start \in 0 .. MaxTime
    BY <1>1, LiveOK DEF Good
  <2>2. x \in OpState /\ x.row = Live /\ x.start = o.start /\ x.pc = "move"
    <3> HIDE DEF o
    <3> QED BY <2>1 DEF OpState, Labels
  <2>3. QED
    <3> HIDE DEF x
    <3> QED BY <2>1, <2>2 DEF Good, Works
<1>4. PICK y : Good(y, aws.state) /\ Continue(p, y)
  BY <1>2, <1>3, IdleGood DEF RefreshRoot
<1>5. UNCHANGED <<aws, tags, now, view, sent>> /\ FaultsOK'
  BY DEF RefreshRoot, Inv, FaultsOK
<1>6. QED
  BY <1>4, <1>5, ReadOK

LEMMA PollCreateOK ==
  ASSUME Inv, NEW p \in Procs, PollCreate(p)
  PROVE  Inv'
<1>1. Good([Idle EXCEPT !.pc = "move", !.kind = "poll", !.start = now, !.row = Live], aws.state)
  BY LiveOK, StartGood DEF Labels, Kinds
<1>2. UNCHANGED <<aws, tags, now, view, sent>> /\ FaultsOK'
  BY DEF PollCreate, Inv, FaultsOK
<1>3. Continue(p, [Idle EXCEPT !.pc = "move", !.kind = "poll", !.start = now, !.row = Live])
  BY DEF PollCreate
<1>4. QED
  BY <1>1, <1>2, <1>3, ReadOK

LEMMA MoveOK ==
  ASSUME Inv, NEW p \in Procs, Move(p)
  PROVE  Inv'
<1>1. Works(op[p], aws.state)
  BY OpFacts DEF Move
<1>2. Good(At(op[p], "placeTags"), aws.state)
  BY <1>1, AtGood DEF Labels
<1>3. QED
  BY <1>2, CallOK DEF Move

LEMMA PlaceTagsOK ==
  ASSUME Inv, NEW p \in Procs, PlaceTags(p)
  PROVE  Inv'
<1> DEFINE o == op[p]
<1>1. Works(o, aws.state)
  BY OpFacts DEF PlaceTags
<1>2. o.row.tags \in Tags /\ tags \in Tags
  BY <1>1 DEF Works, Row, Inv
<1>3. Good(At(o, "fresh"), aws.state)
  BY <1>1, AtGood DEF Labels
<1>4. WithTags(tags, o.row.tags) \in Tags /\ WithTags(tags, o.row.tags).closed = tags.closed
  BY <1>2, WithTagsOK
<1>5. QED
  BY <1>3, <1>4, WriteOK DEF PlaceTags

LEMMA FreshOK ==
  ASSUME Inv, NEW p \in Procs, Fresh(p)
  PROVE  Inv'
<1> DEFINE o == [op[p] EXCEPT !.row = Live]
<1>1. Works(o, aws.state)
  BY OpFacts, FreshWorks DEF Fresh
<1>2. Good(Readiness(o), aws.state) /\ Good(Visit(o), aws.state)
  BY <1>1, ReadinessGood, VisitGood
<1>3. PICK y : Good(y, aws.state) /\ Continue(p, y)
  BY <1>2 DEF Fresh
<1>4. UNCHANGED <<aws, tags, now, view, sent>> /\ FaultsOK'
  BY DEF Fresh, Inv, FaultsOK
<1>5. QED
  BY <1>3, <1>4, ReadOK

LEMMA AdoptOK ==
  ASSUME Inv, NEW p \in Procs, Adopt(p)
  PROVE  Inv'
<1> DEFINE o == op[p]
           t == [o.row.tags EXCEPT !.managed = TRUE, !.handoff = IF @ = "" THEN "pending" ELSE @,
                                   !.expires = IF @ = Never THEN o.start + DefaultTTL ELSE @]
           w == WithTags(tags, t)
           x == [o EXCEPT !.row.tags = t]
<1>1. Works(o, aws.state)
  BY OpFacts DEF Adopt
<1>2. o.row.tags \in Tags /\ tags \in Tags /\ o.start + DefaultTTL \in Times
  BY <1>1, ParametersAssumption DEF Works, Row, Inv, Times
<1>3. t \in Tags
  <2> HIDE DEF o
  <2> QED BY <1>2 DEF Tags, Handoffs
<1>4. w \in Tags /\ w.closed = tags.closed
  <2> HIDE DEF t
  <2> QED BY <1>2, <1>3, WithTagsOK
<1>5. [w EXCEPT !.handoff = t.handoff] \in Tags /\ [w EXCEPT !.handoff = t.handoff].closed = tags.closed
  <2> HIDE DEF t, w
  <2> QED BY <1>3, <1>4 DEF Tags
<1>6. Works(x, aws.state)
  <2> HIDE DEF t, o
  <2> QED BY <1>1, <1>3, RowTags
<1>7. Good(Readiness(x), aws.state)
  <2> HIDE DEF x
  <2> QED BY <1>6, ReadinessGood
<1>8. /\ Write(p, [w EXCEPT !.handoff = t.handoff], Readiness(x))
      /\ UNCHANGED <<aws, now, view, sent>>
  BY DEF Adopt
<1>9. QED
  <2> HIDE DEF t, w, x
  <2> QED BY <1>5, <1>7, <1>8, WriteOK

-----------------------------------------------------------------------------
(* Readiness, access, the handoff and the warning.                         *)

LEMMA RecordOK ==
  ASSUME Inv, NEW p \in Procs, Record(p)
  PROVE  Inv'
<1> DEFINE x == [op[p] EXCEPT !.row.tags.handoff = "pending"]
<1>1. Works(op[p], aws.state) /\ op[p].start \in Times
  BY OpFacts DEF Record, Works, OpState
<1>2. Works(x, aws.state)
  BY <1>1, HandoffEdit DEF Handoffs
<1>3. Good(Protect(x), aws.state)
  <2> HIDE DEF x
  <2> QED BY <1>2, ProtectGood
<1>4. [tags EXCEPT !.handoff = "pending"] \in Tags /\ [tags EXCEPT !.handoff = "pending"].closed = tags.closed
  BY <1>1 DEF Inv, Tags, Handoffs
<1>5. Write(p, [tags EXCEPT !.handoff = "pending"], Protect(x)) /\ UNCHANGED <<aws, now, view, sent>>
  BY DEF Record
<1>6. QED
  <2> HIDE DEF x
  <2> QED BY <1>3, <1>4, <1>5, WriteOK

LEMMA BudgetOK ==
  ASSUME Inv, NEW p \in Procs, Budget(p)
  PROVE  Inv'
<1> DEFINE o == op[p]
           h == [o EXCEPT !.healthy = TRUE]
<1>1. Works(o, aws.state)
  BY OpFacts DEF Budget
<1>2. Works(h, aws.state)
  <2>1. o \in OpState
    BY <1>1 DEF Works
  <2>2. h \in OpState /\ h.row = o.row /\ h.start = o.start
    <3> HIDE DEF o
    <3> QED BY <2>1 DEF OpState
  <2>3. QED
    <3> HIDE DEF h, o
    <3> QED BY <1>1, <2>2 DEF Works
<1>3. Good(Granting(h), aws.state)
  <2> HIDE DEF h
  <2> QED BY <1>2, GrantingGood
<1>4. Good(Granting(o), aws.state) /\ Good(Expiry(o), aws.state)
  BY <1>1, GrantingGood, ExpiryGood
<1>5. PICK y : Good(y, aws.state) /\ Continue(p, y)
  BY <1>3, <1>4 DEF Budget
<1>6. UNCHANGED <<aws, tags, now, view, sent>> /\ FaultsOK'
  BY FaultOK DEF Budget, Inv, FaultsOK
<1>7. QED
  BY <1>5, <1>6, ReadOK

LEMMA GrantOK ==
  ASSUME Inv, NEW p \in Procs, Grant(p)
  PROVE  Inv'
<1>1. Works(op[p], aws.state)
  BY OpFacts DEF Grant
<1>2. Good(At(op[p], "grantTag"), aws.state)
  BY <1>1, AtGood DEF Labels
<1>3. QED
  BY <1>2, CallOK DEF Grant

LEMMA GrantTagOK ==
  ASSUME Inv, NEW p \in Procs, GrantTag(p)
  PROVE  Inv'
<1> DEFINE x == [op[p] EXCEPT !.row.tags.access = TRUE]
<1>1. Works(op[p], aws.state) /\ op[p].start \in Times
  BY OpFacts DEF GrantTag, Works, OpState
<1>2. Works(x, aws.state)
  BY <1>1, AccessEdit
<1>3. Good(Handoff(x), aws.state)
  <2> HIDE DEF x
  <2> QED BY <1>2, HandoffGood
<1>4. [tags EXCEPT !.access = TRUE] \in Tags /\ [tags EXCEPT !.access = TRUE].closed = tags.closed
  BY <1>1 DEF Inv, Tags, Handoffs
<1>5. Write(p, [tags EXCEPT !.access = TRUE], Handoff(x)) /\ UNCHANGED <<aws, now, view, sent>>
  BY DEF GrantTag
<1>6. QED
  <2> HIDE DEF x
  <2> QED BY <1>3, <1>4, <1>5, WriteOK

LEMMA MoreOK ==
  ASSUME SentOK, NEW n \in {"ready", "closed", "overdue"}
  PROVE  More(n) \in 0 .. 2
BY DEF SentOK, More

LEMMA HandoffWriteOK ==
  ASSUME Inv, NEW p \in Procs, HandoffWrite(p)
  PROVE  Inv'
<1>1. Works(op[p], aws.state)
  BY OpFacts DEF HandoffWrite
<1>2. Good(Expiry(op[p]), aws.state)
  BY <1>1, ExpiryGood
<1>3. [tags EXCEPT !.handoff = "complete"] \in Tags /\ [tags EXCEPT !.handoff = "complete"].closed = tags.closed
  BY DEF Inv, Tags, Handoffs
<1>4. More("ready") \in 0 .. 2
  BY MoreOK DEF Inv
<1>5. QED
  BY <1>2, <1>3, <1>4, NotifyOK DEF HandoffWrite

LEMMA WarnTagOK ==
  ASSUME Inv, NEW p \in Procs, WarnTag(p)
  PROVE  Inv'
<1>1. Works(op[p], aws.state)
  BY OpFacts DEF WarnTag
<1>2. [tags EXCEPT !.warned = TRUE] \in Tags /\ [tags EXCEPT !.warned = TRUE].closed = tags.closed
  BY DEF Inv, Tags
<1>3. op[p].row.tags.expires \in Times \cup {Never}
  BY <1>1 DEF Works, Row, Tags
<1>4. QED
  BY <1>2, <1>3, IdleGood, NotifyOK DEF WarnTag

-----------------------------------------------------------------------------
(* Closing.                                                                *)

\* Both closing passes write the intent and go on to close.
LEMMA IntentWrite ==
  ASSUME Inv, NEW p \in Procs, NEW x, Works(x, aws.state), x.start \in Times,
         Write(p, [tags EXCEPT !.intent = x.start], Closing(x)),
         UNCHANGED <<aws, now, view, sent>>
  PROVE  Inv'
<1>1. Good(Closing(x), aws.state)
  BY ClosingGood
<1>2. /\ [tags EXCEPT !.intent = x.start] \in Tags
      /\ [tags EXCEPT !.intent = x.start].closed = tags.closed
  BY DEF Inv, Tags
<1>3. QED
  BY <1>1, <1>2, WriteOK

LEMMA TrackOK ==
  ASSUME Inv, NEW p \in Procs, Track(p)
  PROVE  Inv'
<1> DEFINE x == [op[p] EXCEPT !.row.tags.intent = op[p].start]
<1>1. Works(op[p], aws.state) /\ op[p].start \in Times /\ op[p] \in OpState
  BY OpFacts DEF Track, Works, OpState
<1>2. Works(x, aws.state) /\ x.start = op[p].start
  BY <1>1, IntentEdit
<1>3. Write(p, [tags EXCEPT !.intent = x.start], Closing(x)) /\ UNCHANGED <<aws, now, view, sent>>
  BY DEF Track
<1>4. QED
  <2> HIDE DEF x
  <2> QED BY <1>1, <1>2, <1>3, IntentWrite

LEMMA ExpireTagOK ==
  ASSUME Inv, NEW p \in Procs, ExpireTag(p)
  PROVE  Inv'
<1> DEFINE k == [op[p] EXCEPT !.kind = "expiry"]
           x == [k EXCEPT !.row.tags.intent = op[p].start]
<1>1. Works(op[p], aws.state) /\ op[p].start \in Times /\ op[p] \in OpState
  BY OpFacts DEF ExpireTag, Works, OpState
<1>2. k \in OpState /\ k.row = op[p].row /\ k.start = op[p].start
  BY <1>1 DEF OpState, Kinds
<1>3. Works(k, aws.state)
  <2> HIDE DEF k
  <2> QED BY <1>1, <1>2 DEF Works
<1>4. Works(x, aws.state) /\ x.start = op[p].start
  <2> HIDE DEF k
  <2> QED BY <1>1, <1>2, <1>3, IntentEdit
<1>5. x = [op[p] EXCEPT !.kind = "expiry", !.row.tags.intent = op[p].start]
  BY <1>1 DEF OpState
<1>6. Write(p, [tags EXCEPT !.intent = x.start], Closing(x)) /\ UNCHANGED <<aws, now, view, sent>>
  BY <1>5 DEF ExpireTag
<1>7. QED
  <2> HIDE DEF x
  <2> QED BY <1>1, <1>4, <1>6, IntentWrite

LEMMA CloseTagOK ==
  ASSUME Inv, NEW p \in Procs, CloseTag(p)
  PROVE  Inv'
<1>1. Works(op[p], aws.state) /\ op[p].start \in Times
  BY OpFacts DEF CloseTag, Works, OpState
<1>2. QED
  BY <1>1, IntentWrite DEF CloseTag

LEMMA RevokeOK ==
  ASSUME Inv, NEW p \in Procs, Revoke(p)
  PROVE  Inv'
<1>1. Works(op[p], aws.state)
  BY OpFacts DEF Revoke
<1>2. Good(At(op[p], "revokeTag"), aws.state)
  BY <1>1, AtGood DEF Labels
<1>3. QED
  BY <1>2, CallOK DEF Revoke

LEMMA RevokeTagOK ==
  ASSUME Inv, NEW p \in Procs, RevokeTag(p)
  PROVE  Inv'
<1>1. Works(op[p], aws.state) /\ op[p].start \in Times
  BY OpFacts DEF RevokeTag, Works, OpState
<1>2. Good(AfterRevoke(op[p]), aws.state)
  BY <1>1, AfterRevokeGood
<1>3. [tags EXCEPT !.access = FALSE] \in Tags /\ [tags EXCEPT !.access = FALSE].closed = tags.closed
  BY <1>1 DEF Inv, Tags
<1>4. QED
  BY <1>2, <1>3, WriteOK DEF RevokeTag

LEMMA CloseOK ==
  ASSUME Inv, NEW p \in Procs, Close(p)
  PROVE  Inv'
<1> DEFINE o == op[p]
<1>1. Works(o, aws.state)
  BY OpFacts DEF Close
<1>2. Good(At(o, "verify"), aws.state) /\ Good(AfterClose(o), aws.state)
  BY <1>1, AtGood, DelayGood DEF Labels, AfterClose
<1>3. CASE aws' = [aws EXCEPT !.asked = TRUE] /\ Replies(p, At(o, "verify"))
  BY <1>2, <1>3, CallOK DEF Close
<1>4. CASE Continue(p, AfterClose(o)) /\ UNCHANGED aws /\ (UNCHANGED faults \/ Fault("quota"))
  <2>1. FaultsOK'
    BY <1>4, FaultOK DEF Inv, FaultsOK
  <2>2. QED
    BY <1>2, <1>4, <2>1, ReadOK DEF Close
<1>5. QED
  BY <1>3, <1>4 DEF Close

LEMMA VerifyOK ==
  ASSUME Inv, NEW p \in Procs, Verify(p)
  PROVE  Inv'
<1> DEFINE o == op[p]
           l == [o EXCEPT !.row = Live]
           i == IF tags.intent = Never THEN o.row.tags.intent ELSE tags.intent
           x == [l EXCEPT !.row.tags = [tags EXCEPT !.intent = i]]
<1>1. Works(o, aws.state) /\ o \in OpState
  BY OpFacts DEF Verify, Works
<1>2. i \in Times \cup {Never} /\ tags \in Tags
  BY <1>1 DEF Works, Row, Tags, Inv
<1>3. Works(l, aws.state)
  BY <1>1, FreshWorks
<1>4. [tags EXCEPT !.intent = i] \in Tags
  <2> HIDE DEF i
  <2> QED BY <1>2 DEF Tags
<1>5. Works(x, aws.state)
  <2> HIDE DEF i, l
  <2> QED BY <1>3, <1>4, RowTags
<1>6. x = [o EXCEPT !.row = Live, !.row.tags.intent = i]
  <2>1. Live.tags = tags
    BY DEF Live
  <2>2. l.row.tags = tags
    <3> HIDE DEF o
    <3> QED BY <1>1, <2>1 DEF OpState
  <2>3. x = [l EXCEPT !.row.tags.intent = i]
    <3> HIDE DEF l, i
    <3> QED BY <2>2
  <2>4. QED
    BY <2>3
<1>7. Good(AfterClose(x), aws.state)
  <2> HIDE DEF x
  <2> QED BY <1>5, DelayGood DEF AfterClose
<1>8. aws.state = "CLOSED" => Good(At(o, "confirm"), aws.state)
  BY <1>1, AtGood DEF Labels
<1>9. PICK y : Good(y, aws.state) /\ Continue(p, y)
  BY <1>6, <1>7, <1>8, IdleGood DEF Verify
<1>10. UNCHANGED <<aws, tags, now, view, sent>> /\ FaultsOK'
  BY DEF Verify, Inv, FaultsOK
<1>11. QED
  BY <1>9, <1>10, ReadOK

LEMMA ConfirmOK ==
  ASSUME Inv, NEW p \in Procs, Confirm(p)
  PROVE  Inv'
<1>1. aws.state = "CLOSED"
  BY OpFacts DEF Confirm, Good
<1>2. [tags EXCEPT !.closed = TRUE] \in Tags
  BY DEF Inv, Tags
<1>3. More("closed") \in 0 .. 2
  BY MoreOK DEF Inv
<1>4. QED
  BY <1>1, <1>2, <1>3, IdleGood, NotifyOK DEF Confirm

LEMMA AlertOK ==
  ASSUME Inv, NEW p \in Procs, Alert(p)
  PROVE  Inv'
<1>1. [tags EXCEPT !.alerted = TRUE] \in Tags /\ [tags EXCEPT !.alerted = TRUE].closed = tags.closed
  BY DEF Inv, Tags
<1>2. More("overdue") \in 0 .. 2
  BY MoreOK DEF Inv
<1>3. QED
  BY <1>1, <1>2, IdleGood, NotifyOK DEF Alert

-----------------------------------------------------------------------------
(* What people ask for, on a row that may be old.                          *)

LEMMA RowsTyped ==
  ASSUME Inv, NEW p \in Procs, NEW row \in Rows(p)
  PROVE  row \in Row
<1>1. view[p] \in Row \cup {NoRow}
  BY DEF Inv, ViewOK
<1>2. QED
  BY <1>1, LiveOK DEF Rows

LEMMA RowEdits ==
  ASSUME NEW row \in Row, NEW e \in Times
  PROVE  /\ [row EXCEPT !.tags.expires = e] \in Row
         /\ [row EXCEPT !.tags.expires = e].state = row.state
         /\ [row EXCEPT !.tags.intent = e] \in Row
         /\ [row EXCEPT !.tags.intent = e].state = row.state
<1>1. row.tags \in Tags
  BY DEF Row
<1>2. [row.tags EXCEPT !.expires = e] \in Tags /\ [row.tags EXCEPT !.intent = e] \in Tags
  BY <1>1 DEF Tags
<1>3. QED
  BY <1>2 DEF Row

LEMMA ExtendOK ==
  ASSUME Inv, NEW p \in Procs, Extend(p)
  PROVE  Inv'
<1>1. PICK row \in Rows(p), until \in Times :
         /\ InUse(row)
         /\ Continue(p, [Idle EXCEPT !.pc = "extendTag", !.kind = "extend", !.start = now,
                                     !.row = [row EXCEPT !.tags.expires = until]])
  BY DEF Extend
<1> DEFINE r == [row EXCEPT !.tags.expires = until]
<1>2. row \in Row
  BY RowsTyped
<1>3. r \in Row /\ r.state # "CLOSED"
  BY <1>1, <1>2, RowEdits DEF InUse
<1>4. Good([Idle EXCEPT !.pc = "extendTag", !.kind = "extend", !.start = now, !.row = r],
           aws.state)
  <2> HIDE DEF r
  <2> QED BY <1>3, StartGood DEF Labels, Kinds
<1>5. UNCHANGED <<aws, tags, now, view, sent>> /\ FaultsOK'
  BY DEF Extend, Inv, FaultsOK
<1>6. QED
  BY <1>1, <1>4, <1>5, ReadOK

LEMMA RequestCloseOK ==
  ASSUME Inv, NEW p \in Procs, RequestClose(p)
  PROVE  Inv'
<1>1. PICK row \in Rows(p) :
         /\ InUse(row)
         /\ Continue(p, [Idle EXCEPT !.pc = "closeTag", !.kind = "close", !.start = now,
                                     !.row = [row EXCEPT !.tags.intent = now]])
  BY DEF RequestClose
<1> DEFINE r == [row EXCEPT !.tags.intent = now]
<1>2. row \in Row /\ now \in Times
  BY RowsTyped, ParametersAssumption DEF Inv, ViewOK, Times
<1>3. r \in Row /\ r.state # "CLOSED"
  BY <1>1, <1>2, RowEdits DEF InUse
<1>4. Good([Idle EXCEPT !.pc = "closeTag", !.kind = "close", !.start = now, !.row = r],
           aws.state)
  <2> HIDE DEF r
  <2> QED BY <1>3, StartGood DEF Labels, Kinds
<1>5. UNCHANGED <<aws, tags, now, view, sent>> /\ FaultsOK'
  BY DEF RequestClose, Inv, FaultsOK
<1>6. QED
  BY <1>1, <1>4, <1>5, ReadOK

LEMMA ExtendTagOK ==
  ASSUME Inv, NEW p \in Procs, ExtendTag(p)
  PROVE  Inv'
<1> DEFINE e == op[p].row.tags.expires
<1>1. Works(op[p], aws.state)
  BY OpFacts DEF ExtendTag
<1>2. e \in Times \cup {Never}
  BY <1>1 DEF Works, Row, Tags
<1>3. [tags EXCEPT !.expires = e] \in Tags /\ [tags EXCEPT !.expires = e].closed = tags.closed
  <2> HIDE DEF e
  <2> QED BY <1>2 DEF Inv, Tags
<1>4. Good(At(op[p], "extendUntag"), aws.state)
  BY <1>1, AtGood DEF Labels
<1>5. QED
  BY <1>3, <1>4, WriteOK DEF ExtendTag

LEMMA ExtendUntagOK ==
  ASSUME Inv, NEW p \in Procs, ExtendUntag(p)
  PROVE  Inv'
<1>1. [tags EXCEPT !.warned = FALSE] \in Tags /\ [tags EXCEPT !.warned = FALSE].closed = tags.closed
  BY DEF Inv, Tags
<1>2. QED
  BY <1>1, IdleGood, WriteOK DEF ExtendUntag

-----------------------------------------------------------------------------
(* Failures, the cache, AWS and time.                                      *)

LEMMA CallFailsOK ==
  ASSUME Inv, NEW p \in Procs, CallFails(p)
  PROVE  Inv'
<1>1. Good(AfterError(p), aws.state)
  BY OpFacts, AfterErrorGood
<1>2. FaultsOK'
  BY FaultOK DEF CallFails, Inv
<1>3. QED
  BY <1>1, <1>2, ReadOK DEF CallFails

\* What the tags say of the closure does not depend on the operations.
LEMMA ViewStep ==
  ASSUME Inv, OpsOK', FaultsOK', ViewOK', UNCHANGED <<aws, tags, sent>>
  PROVE  Inv'
BY DEF Inv, AwsOK, SentOK, ClosedOnlyWhenConfirmed

LEMMA CrashOK ==
  ASSUME Inv, NEW p \in Procs, Crash(p)
  PROVE  Inv'
<1>1. OpsOK'
  <2>1. Good(Idle, aws'.state)
    BY IdleGood
  <2>2. QED
    BY <2>1, ContinueOK DEF Crash, Inv
<1>2. FaultsOK'
  BY FaultOK DEF Crash, Inv
<1>3. ViewOK'
  BY DEF Crash, Inv, ViewOK
<1>4. QED
  BY <1>1, <1>2, <1>3, ViewStep DEF Crash

LEMMA ViewOKStep ==
  ASSUME Inv, NEW p \in Procs, View(p)
  PROVE  Inv'
<1>1. ViewOK'
  BY LiveOK DEF View, Inv, ViewOK
<1>2. OpsOK' /\ FaultsOK'
  BY DEF View, Inv, OpsOK, FaultsOK
<1>3. QED
  BY <1>1, <1>2, ViewStep DEF View

LEMMA ViewEndsOK ==
  ASSUME Inv, NEW p \in Procs, ViewEnds(p)
  PROVE  Inv'
<1>1. ViewOK'
  BY DEF ViewEnds, Inv, ViewOK
<1>2. OpsOK' /\ FaultsOK'
  BY DEF ViewEnds, Inv, OpsOK, FaultsOK
<1>3. QED
  BY <1>1, <1>2, ViewStep DEF ViewEnds

LEMMA TickOK ==
  ASSUME Inv, Tick
  PROVE  Inv'
<1>1. ViewOK'
  BY ParametersAssumption DEF Tick, Inv, ViewOK
<1>2. OpsOK' /\ FaultsOK'
  BY DEF Tick, Inv, OpsOK, FaultsOK
<1>3. QED
  BY <1>1, <1>2, ViewStep DEF Tick

\* AWS by itself changes the state of an account that is not closed.
LEMMA AwsStep ==
  ASSUME Inv, NEW s \in ProviderStates, aws.state # "CLOSED", aws' = [aws EXCEPT !.state = s],
         UNCHANGED <<tags, now, op, view, sent>>, FaultsOK'
  PROVE  Inv'
<1>1. AwsOK'
  BY DEF Inv, AwsOK
<1>2. ASSUME NEW p \in Procs
      PROVE  Good(op[p], aws'.state)
  <2>1. Good(op[p], aws.state)
    BY DEF Inv, OpsOK
  <2>2. QED
    BY <2>1, GoodLater
<1>3. OpsOK'
  BY <1>2 DEF Inv, OpsOK
<1>4. tags' \in Tags /\ ViewOK' /\ SentOK' /\ ClosedOnlyWhenConfirmed'
  BY DEF Inv, ViewOK, SentOK, ClosedOnlyWhenConfirmed
<1>5. QED
  BY <1>1, <1>3, <1>4 DEF Inv

LEMMA AwsOwnSteps ==
  ASSUME Inv, AwsCloses \/ AwsActsAlone \/ AwsReinstates
  PROVE  Inv'
<1>1. CASE AwsCloses
  <2>1. FaultsOK'
    BY <1>1 DEF AwsCloses, Inv, FaultsOK
  <2>2. QED
    BY <1>1, <2>1, AwsStep DEF AwsCloses, ProviderStates
<1>2. CASE AwsActsAlone
  <2>1. FaultsOK'
    BY <1>2, FaultOK DEF AwsActsAlone, Inv
  <2>2. QED
    BY <1>2, <2>1, AwsStep DEF AwsActsAlone, ProviderStates
<1>3. CASE AwsReinstates
  <2>1. FaultsOK'
    BY <1>3 DEF AwsReinstates, Inv, FaultsOK
  <2>2. QED
    BY <1>3, <2>1, AwsStep DEF AwsReinstates, ProviderStates
<1>4. QED
  BY <1>1, <1>2, <1>3

-----------------------------------------------------------------------------
(* The invariant.                                                          *)

LEMMA InitInv == Init => Inv
<1> SUFFICES ASSUME Init
             PROVE  Inv
  OBVIOUS
<1>1. OpsOK
  BY IdleGood, IdleTyped DEF Init, OpsOK
<1>2. AwsOK
  BY DEF Init, AwsOK, ProviderStates
<1>3. tags \in Tags /\ tags.closed = FALSE
  <2>1. CASE aws.ou
    BY <2>1 DEF Init, Tags, Handoffs
  <2>2. CASE ~aws.ou
    <3>1. 1 .. MaxTTL \subseteq Times
      BY ParametersAssumption DEF Times
    <3>2. QED
      BY <2>2, <3>1 DEF Init, Tags, Handoffs
  <2>3. QED
    BY <2>1, <2>2
<1>4. ViewOK /\ FaultsOK
  <2>1. now = 0 /\ faults = 0 /\ view = [p \in Procs |-> NoRow]
    BY DEF Init
  <2>2. 0 \in 0 .. MaxTime /\ 0 \in 0 .. MaxFaults
    BY ParametersAssumption
  <2>3. view \in [Procs -> Row \cup {NoRow}]
    BY <2>1
  <2>4. QED
    BY <2>1, <2>2, <2>3 DEF ViewOK, FaultsOK
<1>5. SentOK /\ sent.closed = 0
  <2>1. sent = [ready |-> 0, closed |-> 0, overdue |-> 0, expiring |-> Never]
    BY DEF Init
  <2>2. 0 \in 0 .. 2
    OBVIOUS
  <2>3. QED
    BY <2>1, <2>2 DEF SentOK
<1>6. QED
  BY <1>1, <1>2, <1>3, <1>4, <1>5 DEF Inv, ClosedOnlyWhenConfirmed

LEMMA ProceedInv ==
  ASSUME Inv, NEW p \in Procs, Proceed(p)
  PROVE  Inv'
<1>1. CASE PlaceSteps(p)
  BY <1>1, RefreshRootOK, MoveOK, PlaceTagsOK, FreshOK, AdoptOK DEF PlaceSteps
<1>2. CASE ReadySteps(p)
  BY <1>2, RecordOK, BudgetOK, GrantOK, GrantTagOK, HandoffWriteOK, WarnTagOK DEF ReadySteps
<1>3. CASE CloseSteps(p)
  BY <1>3, ExpireTagOK, TrackOK, RevokeOK, RevokeTagOK, CloseOK, VerifyOK, ConfirmOK, AlertOK
     DEF CloseSteps
<1>4. CASE PersonSteps(p)
  BY <1>4, ExtendTagOK, ExtendUntagOK, CloseTagOK DEF PersonSteps
<1>5. QED
  BY <1>1, <1>2, <1>3, <1>4 DEF Proceed

LEMMA NextInv == Inv /\ [Next]_vars => Inv'
<1> SUFFICES ASSUME Inv, [Next]_vars
             PROVE  Inv'
  OBVIOUS
<1>1. ASSUME NEW p \in Procs,
             \/ Refresh(p) \/ PollCreate(p) \/ Extend(p) \/ RequestClose(p)
             \/ Proceed(p) \/ CallFails(p) \/ Crash(p) \/ View(p) \/ ViewEnds(p)
      PROVE  Inv'
  BY <1>1, RefreshOK, PollCreateOK, ExtendOK, RequestCloseOK, ProceedInv, CallFailsOK, CrashOK,
     ViewOKStep, ViewEndsOK
<1>2. CASE AwsCloses \/ AwsActsAlone \/ AwsReinstates
  BY <1>2, AwsOwnSteps
<1>3. CASE Tick
  BY <1>3, TickOK
<1>4. CASE UNCHANGED vars
  <2>1. UNCHANGED <<aws, tags, now, op, view, faults, sent>>
    BY <1>4 DEF vars
  <2>2. OpsOK' /\ FaultsOK' /\ ViewOK'
    BY <2>1 DEF Inv, OpsOK, FaultsOK, ViewOK
  <2>3. QED
    BY <2>1, <2>2, ViewStep
<1>5. QED
  BY <1>1, <1>2, <1>3, <1>4 DEF Next

LEMMA InvAlways == Spec => []Inv
BY InitInv, NextInv, PTL DEF Spec

LEMMA InvTyped == Inv => TypeOK
<1> SUFFICES ASSUME Inv
             PROVE  TypeOK
  OBVIOUS
<1>1. op \in [Procs -> OpState]
  BY DEF Inv, OpsOK
<1>2. QED
  BY <1>1 DEF Inv, AwsOK, ViewOK, FaultsOK, SentOK, TypeOK

LEMMA InvConfirmed == Inv => ClosedOnlyWhenConfirmed
BY DEF Inv

\* Every variable keeps its type, for any number of processes and of faults.
THEOREM TypeCorrect == Spec => []TypeOK
BY InvAlways, InvTyped, PTL

\* A closure is recorded and announced only when AWS reports it, whichever
\* processes work on the account and whatever fails (tryClose, confirmClosed).
THEOREM ClosureIsReal == Spec => []ClosedOnlyWhenConfirmed
BY InvAlways, InvConfirmed, PTL

-----------------------------------------------------------------------------
(* The theorems for one process on the account, which is what its mutex    *)
(* opMu gives: whatever fails and wherever the process crashes.  Pages of  *)
(* the process may still hold old rows.                                    *)

OneProcess == \A p, q \in Procs : p = q

\* The calls that prepare the account for its owner, and those that close it.
Preparing == {"record", "budget", "grant", "grantTag", "handoff"}
Ending == {"revoke", "revokeTag", "close", "verify", "alert", "confirm"}

\* What an operation that stands before a call knows of the tags t and of the
\* account a: nobody else writes them under opMu, so what was read still holds.
Fits(o, t, a, n) ==
  /\ o.start <= n
  /\ o.pc \in {"move", "placeTags", "adopt", "track"} \cup Preparing => o.row.tags = t
  /\ o.pc \in {"placeTags", "fresh", "adopt"} \cup Preparing => a.ou
  /\ o.pc \in {"move", "placeTags", "fresh"} \cup Preparing
       => o.kind \in {"pass", "poll"} /\ t.managed /\ (o.kind = "poll" => t.intent = Never)
  /\ o.pc = "root" => o.kind = "pass" /\ (o.row # NoRow => o.row.tags = t /\ a.ou)
  /\ o.pc \in {"adopt", "expire", "warn", "track"} => o.kind = "pass"
  /\ o.pc \in {"adopt", "expire", "warn", "track"} \cup Preparing => t.intent = Never
  /\ o.pc = "record" => t.handoff = "placing"
  /\ o.pc = "grantTag" => a.grant
  /\ o.pc = "handoff" => t.handoff = "pending" /\ (AccessEnabled => t.access)
  /\ o.pc = "expire" => t.expires # Never /\ t.expires <= n
  /\ o.pc \in Ending => t.intent # Never /\ (o.kind = "pass" => o.row.tags.alerted = t.alerted)
  /\ o.pc = "alert" => ~t.alerted
  /\ o.pc = "confirm" => ~t.closed
  /\ o.pc = "extendTag" => o.kind = "extend" /\ o.row.tags.expires # Never
  /\ o.pc = "extendUntag" => o.kind = "extend"
  /\ o.pc = "closeTag" => o.kind = "close"

\* A notice was sent only after its tag was written.
Told ==
  /\ sent.ready <= 1 /\ (sent.ready > 0 => tags.handoff = "complete")
  /\ sent.closed <= 1 /\ (sent.closed > 0 => tags.closed)
  /\ sent.overdue <= 1 /\ (sent.overdue > 0 => tags.alerted)

\* A managed account has an expiry; a recorded grant exists until a closure begins.
Tagged ==
  /\ tags.managed => tags.expires # Never
  /\ tags.intent = Never /\ tags.access => aws.grant

OneInv == Told /\ Tagged /\ \A p \in Procs : Fits(op[p], tags, aws, now)

-----------------------------------------------------------------------------
(* What the parts of a pass do.                                            *)

LEMMA AtFields ==
  ASSUME NEW o \in OpState, NEW l
  PROVE  At(o, l).pc = l /\ At(o, l).kind = o.kind /\ At(o, l).row = o.row /\ At(o, l).start = o.start
BY DEF At, OpState

\* An operation that closes the account.
Closes(o, t, n) ==
  /\ o \in OpState /\ o.start <= n /\ 0 <= n
  /\ t.intent # Never /\ (o.kind = "pass" => o.row.tags.alerted = t.alerted)

\* An operation that has only the expiry left to look at.
Ends(o, t, n) ==
  /\ o \in OpState /\ o.start \in Nat /\ o.start <= n /\ n \in Nat /\ t.expires \in Nat \cup {Never}
  /\ o.kind = "pass" => t.intent = Never /\ t.expires # Never /\ o.row.tags.expires = t.expires

\* An operation that prepares the account.
Prepares(o, t, a, n) ==
  /\ o \in OpState /\ o.start \in Nat /\ o.start <= n /\ n \in Nat /\ t.expires \in Nat \cup {Never}
  /\ o.kind \in {"pass", "poll"} /\ o.row.tags = t /\ a.ou
  /\ t.managed /\ t.intent = Never /\ t.expires # Never

LEMMA PreparesEnds ==
  ASSUME NEW o, NEW t, NEW a, NEW n, Prepares(o, t, a, n)
  PROVE  Ends(o, t, n)
BY DEF Prepares, Ends

LEMMA DelayFits ==
  ASSUME NEW o, NEW t, NEW a, NEW n, Closes(o, t, n)
  PROVE  Fits(Delay(o), t, a, n)
<1>1. Fits(Idle, t, a, n)
  BY DEF Fits, Idle, Preparing, Ending, Closes
<1>2. ASSUME o.kind = "pass", ~o.row.tags.alerted
      PROVE  Fits(At(o, "alert"), t, a, n)
  BY <1>2, AtFields DEF Fits, Preparing, Ending, Closes
<1>3. QED
  BY <1>1, <1>2 DEF Delay

LEMMA AfterRevokeFits ==
  ASSUME NEW o, NEW t, NEW a, NEW n, Closes(o, t, n)
  PROVE  Fits(AfterRevoke(o), t, a, n)
<1>1. Fits(At(o, "close"), t, a, n)
  BY AtFields DEF Fits, Preparing, Ending, Closes
<1>2. QED
  BY <1>1, DelayFits DEF AfterRevoke

LEMMA ClosingFits ==
  ASSUME NEW o, NEW t, NEW a, NEW n, Closes(o, t, n)
  PROVE  Fits(Closing(o), t, a, n)
<1>1. Fits(At(o, "revoke"), t, a, n)
  BY AtFields DEF Fits, Preparing, Ending, Closes
<1>2. QED
  BY <1>1, AfterRevokeFits DEF Closing

LEMMA ExpiryFits ==
  ASSUME NEW o, NEW t, NEW a, NEW n, Ends(o, t, n)
  PROVE  Fits(Expiry(o), t, a, n)
<1>1. Fits(Idle, t, a, n)
  BY DEF Fits, Idle, Preparing, Ending, Ends
<1>2. ASSUME o.kind = "pass"
      PROVE  Fits(At(o, "warn"), t, a, n)
  BY <1>2, AtFields DEF Fits, Preparing, Ending, Ends
<1>3. ASSUME o.kind = "pass", o.row.tags.expires <= o.start
      PROVE  Fits(At(o, "expire"), t, a, n)
  <2>1. t.expires \in Nat /\ t.expires <= n
    BY <1>3 DEF Ends
  <2>2. QED
    BY <1>3, <2>1, AtFields DEF Fits, Preparing, Ending, Ends
<1>4. QED
  BY <1>1, <1>2, <1>3 DEF Expiry

LEMMA HandoffFits ==
  ASSUME NEW o, NEW t, NEW a, NEW n, Prepares(o, t, a, n)
  PROVE  Fits(Handoff(o), t, a, n)
<1>1. ASSUME t.handoff = "pending", AccessEnabled => t.access
      PROVE  Fits(At(o, "handoff"), t, a, n)
  BY <1>1, AtFields DEF Fits, Preparing, Ending, Prepares
<1>2. QED
  BY <1>1, PreparesEnds, ExpiryFits DEF Handoff, Prepares

LEMMA GrantingFits ==
  ASSUME NEW o, NEW t, NEW a, NEW n, Prepares(o, t, a, n)
  PROVE  Fits(Granting(o), t, a, n)
<1>1. Fits(At(o, "grant"), t, a, n)
  BY AtFields DEF Fits, Preparing, Ending, Prepares
<1>2. QED
  BY <1>1, HandoffFits, PreparesEnds, ExpiryFits DEF Granting

LEMMA ProtectFits ==
  ASSUME NEW o, NEW t, NEW a, NEW n, Prepares(o, t, a, n)
  PROVE  Fits(Protect(o), t, a, n)
<1>1. Fits(At(o, "budget"), t, a, n)
  BY AtFields DEF Fits, Preparing, Ending, Prepares
<1>2. QED
  BY <1>1, PreparesEnds, ExpiryFits DEF Protect

LEMMA ReadinessFits ==
  ASSUME NEW o, NEW t, NEW a, NEW n, Prepares(o, t, a, n)
  PROVE  Fits(Readiness(o), t, a, n)
<1>1. ASSUME t.handoff = "placing"
      PROVE  Fits(At(o, "record"), t, a, n)
  BY <1>1, AtFields DEF Fits, Preparing, Ending, Prepares
<1>2. QED
  BY <1>1, ProtectFits DEF Readiness, Prepares

\* A row that was just read, in a pass.
Visits(o, t, a, n) ==
  /\ o \in OpState /\ o.start \in Nat /\ o.start <= n /\ n \in Nat /\ t.expires \in Nat \cup {Never}
  /\ o.kind = "pass" /\ o.row.tags = t /\ a.ou /\ (t.managed => t.expires # Never)

LEMMA VisitFits ==
  ASSUME NEW o, NEW t, NEW a, NEW n, Visits(o, t, a, n)
  PROVE  Fits(Visit(o), t, a, n)
<1>1. Fits(Idle, t, a, n)
  BY DEF Fits, Idle, Preparing, Ending, Visits
<1>2. ASSUME t.intent # Never, ~t.closed
      PROVE  Fits(At(o, "confirm"), t, a, n)
  BY <1>2, AtFields DEF Fits, Preparing, Ending, Visits
<1>3. ASSUME t.intent # Never
      PROVE  Fits(Closing(o), t, a, n)
  BY <1>3, ClosingFits DEF Visits, Closes
<1>4. ASSUME t.intent = Never
      PROVE  Fits(At(o, "track"), t, a, n) /\ Fits(At(o, "adopt"), t, a, n)
  BY <1>4, AtFields DEF Fits, Preparing, Ending, Visits
<1>5. ASSUME t.intent = Never, t.managed
      PROVE  Fits(Readiness(o), t, a, n)
  BY <1>5, ReadinessFits DEF Visits, Prepares
<1>6. QED
  BY <1>1, <1>2, <1>3, <1>4, <1>5 DEF Visit, Visits

-----------------------------------------------------------------------------
(* After a call.                                                           *)

\* What the invariants say of an operation and of the tags, in one place.
LEMMA Facts ==
  ASSUME Inv, OneInv, NEW p \in Procs
  PROVE  /\ op[p] \in OpState /\ op[p].start \in Nat /\ Fits(op[p], tags, aws, now)
         /\ op[p].pc \notin {"idle", "root"} \/ op[p].row # NoRow => op[p].row \in Row
         /\ now \in Nat /\ tags \in Tags /\ tags.expires \in Nat \cup {Never}
         /\ tags.intent \in Nat \cup {Never}
         /\ aws \in [state : ProviderStates, ou : BOOLEAN, grant : BOOLEAN, asked : BOOLEAN]
         /\ sent \in [ready : 0 .. 2, closed : 0 .. 2, overdue : 0 .. 2,
                      expiring : Times \cup {Never}]
<1>1. /\ op[p] \in OpState /\ op[p].start \in 0 .. MaxTime
      /\ op[p].pc \notin {"idle", "root"} \/ op[p].row # NoRow => op[p].row \in Row
  BY DEF Inv, OpsOK, Good, Works
<1>2. now \in Nat /\ tags \in Tags /\ tags.expires \in Times \cup {Never} /\ tags.intent \in Times \cup {Never}
  BY ParametersAssumption DEF Inv, ViewOK, Tags
<1>3. Times \subseteq Nat /\ 0 .. MaxTime \subseteq Nat
  BY ParametersAssumption DEF Times
<1>4. QED
  BY <1>1, <1>2, <1>3 DEF Inv, OneInv, AwsOK, SentOK

LEMMA IdleFits ==
  ASSUME NEW t, NEW a, NEW n \in Nat
  PROVE  Fits(Idle, t, a, n)
BY DEF Fits, Idle, Preparing, Ending

\* An operation whose call returned an error, when the call left the account as it
\* was or did what it was to do (the tags are now u, the account is b).
LEMMA AfterErrorFits ==
  ASSUME Inv, OneInv, NEW p \in Procs, NEW u \in Tags, NEW b,
         op[p].pc \in Preparing \cup Ending =>
           u.intent = tags.intent /\ u.expires = tags.expires /\ u.alerted = tags.alerted,
         op[p].pc = "root" => u = tags /\ b.ou = aws.ou
  PROVE  Fits(AfterError(p), u, b, now)
<1> DEFINE o == op[p]
<1>1. /\ o \in OpState /\ o.start \in Nat /\ Fits(o, tags, aws, now) /\ now \in Nat
      /\ tags.expires \in Nat \cup {Never} /\ Tagged /\ Fits(Idle, u, b, now)
  BY Facts, IdleFits DEF OneInv
<1>2. AfterError(p) =
        IF o.pc = "root" /\ o.row # NoRow THEN Visit(o)
        ELSE IF o.pc \in {"record", "budget", "grant", "grantTag", "handoff"} THEN Expiry(o)
        ELSE IF o.pc \in {"revoke", "revokeTag"} THEN AfterRevoke(o)
        ELSE IF o.pc \in {"close", "verify"} THEN AfterClose(o)
        ELSE Idle
  BY DEF AfterError
<1> HIDE DEF o
<1>3. ASSUME o.pc = "root", o.row # NoRow, u = tags, b.ou = aws.ou
      PROVE  Fits(Visit(o), u, b, now)
  <2>1. Visits(o, u, b, now)
    BY <1>1, <1>3 DEF Visits, Fits, Tagged
  <2>2. QED
    BY <2>1, VisitFits
<1>4. ASSUME o.pc \in Preparing, u.intent = tags.intent, u.expires = tags.expires
      PROVE  Fits(Expiry(o), u, b, now)
  <2>1. Ends(o, u, now)
    BY <1>1, <1>4 DEF Ends, Fits, Tagged
  <2>2. QED
    BY <2>1, ExpiryFits
<1>5. ASSUME o.pc \in Ending, u.intent = tags.intent, u.alerted = tags.alerted
      PROVE  Fits(AfterRevoke(o), u, b, now) /\ Fits(AfterClose(o), u, b, now)
  <2>1. Closes(o, u, now)
    BY <1>1, <1>5 DEF Closes, Fits
  <2>2. QED
    BY <2>1, AfterRevokeFits, DelayFits DEF AfterClose
<1>6. /\ o.pc = "root" => u = tags /\ b.ou = aws.ou
      /\ o.pc \in Preparing \cup Ending =>
           u.intent = tags.intent /\ u.expires = tags.expires /\ u.alerted = tags.alerted
  BY DEF o
<1>7. QED
  BY <1>1, <1>2, <1>3, <1>4, <1>5, <1>6 DEF Preparing, Ending

\* The one operation after a step.
LEMMA OneStep ==
  ASSUME OneProcess, Inv, NEW p \in Procs, NEW x, Continue(p, x), Fits(x, tags', aws', now'),
         Told', Tagged'
  PROVE  OneInv'
<1>1. op' = [op EXCEPT ![p] = x] /\ op \in [Procs -> OpState]
  BY DEF Inv, OpsOK, Continue
<1>2. \A q \in Procs : op'[q] = x
  BY <1>1 DEF OneProcess
<1>3. QED
  BY <1>2 DEF OneInv

-----------------------------------------------------------------------------
(* The steps.                                                              *)

\* What no step may do.
Steps ==
  /\ (aws'.grant /\ ~aws.grant) \/ tags'.handoff # tags.handoff => tags.intent = Never
  /\ sent'.ready > sent.ready => (AccessEnabled => aws.grant) /\ aws.ou /\ tags.managed
  /\ \A p \in Procs :
       op[p].kind \in {"pass", "expiry"} /\ tags.intent # Never /\ op'[p] # op[p]
         => tags'.intent = tags.intent

LEMMA QuietSteps ==
  ASSUME Inv, OneInv, UNCHANGED <<tags, sent>>, aws'.grant = aws.grant
  PROVE  Told' /\ Tagged' /\ Steps
<1>1. sent \in [ready : 0 .. 2, closed : 0 .. 2, overdue : 0 .. 2, expiring : Times \cup {Never}]
  BY DEF Inv, SentOK
<1>2. QED
  BY <1>1 DEF OneInv, Told, Tagged, Steps

\* A step that only reads.
LEMMA QuietOne ==
  ASSUME OneProcess, Inv, OneInv, NEW p \in Procs, NEW x, Continue(p, x),
         Fits(x, tags, aws, now), UNCHANGED <<tags, aws, sent, now>>
  PROVE  OneInv' /\ Steps
<1>1. Told' /\ Tagged' /\ Steps
  BY QuietSteps
<1>2. Fits(x, tags', aws', now')
  OBVIOUS
<1>3. QED
  BY <1>1, <1>2, OneStep

LEMMA CallFailsOne ==
  ASSUME OneProcess, Inv, OneInv, NEW p \in Procs, CallFails(p)
  PROVE  OneInv' /\ Steps
<1>1. Fits(AfterError(p), tags, aws, now)
  BY Facts, AfterErrorFits
<1>2. QED
  BY <1>1, QuietOne DEF CallFails

LEMMA CrashOne ==
  ASSUME OneProcess, Inv, OneInv, NEW p \in Procs, Crash(p)
  PROVE  OneInv' /\ Steps
BY Facts, IdleFits, QuietOne DEF Crash


LEMMA RefreshOne ==
  ASSUME OneProcess, Inv, OneInv, NEW p \in Procs, Refresh(p)
  PROVE  OneInv' /\ Steps
<1> DEFINE r == IF aws.ou THEN Live ELSE NoRow
           x == [Idle EXCEPT !.pc = "root", !.kind = "pass", !.start = now, !.row = r]
<1>1. x.pc = "root" /\ x.kind = "pass" /\ x.start = now /\ x.row = r
  BY DEF Idle
<1>2. r # NoRow => r.tags = tags /\ aws.ou
  BY DEF Live
<1>3. Continue(p, x)
  BY DEF Refresh
<1> HIDE DEF r, x
<1>4. Fits(x, tags, aws, now)
  BY <1>1, <1>2, Facts DEF Fits, Preparing, Ending
<1>5. QED
  BY <1>3, <1>4, QuietOne DEF Refresh

LEMMA RefreshRootOne ==
  ASSUME OneProcess, Inv, OneInv, NEW p \in Procs, RefreshRoot(p)
  PROVE  OneInv' /\ Steps
<1> DEFINE o == op[p]
           y == [o EXCEPT !.pc = "move", !.row = Live]
           x == IF o.row # NoRow THEN Visit(o) ELSE IF AwaitsPlacement THEN y ELSE Idle
<1>1. o.pc = "root" /\ Continue(p, x)
  BY DEF RefreshRoot
<1>2. /\ o \in OpState /\ o.start \in Nat /\ Fits(o, tags, aws, now) /\ now \in Nat
      /\ tags.expires \in Nat \cup {Never} /\ Tagged /\ Fits(Idle, tags, aws, now)
  BY Facts, IdleFits DEF OneInv
<1>3. y.pc = "move" /\ y.kind = o.kind /\ y.start = o.start /\ y.row.tags = tags
  <2> HIDE DEF o
  <2> QED BY <1>2 DEF OpState, Live
<1> HIDE DEF o, y
<1>4. ASSUME o.row # NoRow
      PROVE  Fits(Visit(o), tags, aws, now)
  <2>1. Visits(o, tags, aws, now)
    BY <1>1, <1>2, <1>4 DEF Visits, Fits, Tagged
  <2>2. QED
    BY <2>1, VisitFits
<1>5. ASSUME AwaitsPlacement
      PROVE  Fits(y, tags, aws, now)
  BY <1>1, <1>2, <1>3, <1>5 DEF Fits, Preparing, Ending, AwaitsPlacement
<1>6. Fits(x, tags, aws, now)
  BY <1>2, <1>4, <1>5
<1> HIDE DEF x
<1>7. QED
  BY <1>1, <1>6, QuietOne DEF RefreshRoot

LEMMA PollCreateOne ==
  ASSUME OneProcess, Inv, OneInv, NEW p \in Procs, PollCreate(p)
  PROVE  OneInv' /\ Steps
<1> DEFINE x == [Idle EXCEPT !.pc = "move", !.kind = "poll", !.start = now, !.row = Live]
<1>1. x.pc = "move" /\ x.kind = "poll" /\ x.start = now /\ x.row = Live /\ Live.tags = tags
  BY DEF Idle, Live
<1>2. Continue(p, x) /\ tags.managed /\ tags.intent = Never
  BY DEF PollCreate
<1> HIDE DEF x
<1>3. Fits(x, tags, aws, now)
  BY <1>1, <1>2, Facts DEF Fits, Preparing, Ending
<1>4. QED
  BY <1>2, <1>3, QuietOne DEF PollCreate

\* A call to AWS that may be applied without a reply.
LEMMA RepliesOne ==
  ASSUME OneProcess, Inv, OneInv, NEW p \in Procs, NEW x, Replies(p, x),
         Fits(x, tags', aws', now), Fits(AfterError(p), tags', aws', now),
         Told', Tagged', UNCHANGED now
  PROVE  OneInv'
<1>1. Fits(x, tags', aws', now') /\ Fits(AfterError(p), tags', aws', now')
  OBVIOUS
<1>2. CASE Continue(p, x)
  BY <1>1, <1>2, OneStep
<1>3. CASE Continue(p, AfterError(p))
  BY <1>1, <1>3, OneStep
<1>4. QED
  BY <1>2, <1>3 DEF Replies


LEMMA MoveOne ==
  ASSUME OneProcess, Inv, OneInv, NEW p \in Procs, Move(p)
  PROVE  OneInv' /\ Steps
<1>1. op[p].pc = "move" /\ Replies(p, At(op[p], "placeTags")) /\ UNCHANGED <<tags, now, sent>>
  BY DEF Move
<1>2. aws'.ou /\ aws'.grant = aws.grant
  BY Facts DEF Move
<1>3. Fits(At(op[p], "placeTags"), tags, aws', now)
  BY <1>1, <1>2, Facts, AtFields DEF Fits, Preparing, Ending
<1>4. Fits(AfterError(p), tags, aws', now)
  BY <1>1, Facts, AfterErrorFits DEF Preparing, Ending
<1>5. Told' /\ Tagged' /\ Steps
  BY <1>1, <1>2, QuietSteps
<1>6. QED
  BY <1>1, <1>3, <1>4, <1>5, RepliesOne

LEMMA WithTagsSame ==
  ASSUME NEW t \in Tags
  PROVE  WithTags(t, t) = [t EXCEPT !.managed = TRUE]
<1>1. t.warned \in BOOLEAN /\ t.access \in BOOLEAN
  BY DEF Tags
<1>2. (t.warned \/ t.warned) = t.warned /\ (t.access \/ t.access) = t.access
  BY <1>1
<1>3. WithTags(t, t) = [t EXCEPT !.managed = TRUE, !.owner = t.owner, !.expires = t.expires,
                                 !.warned = t.warned, !.access = t.access, !.intent = t.intent]
  BY <1>2 DEF WithTags
<1>4. QED
  BY <1>3 DEF Tags

LEMMA PlaceTagsOne ==
  ASSUME OneProcess, Inv, OneInv, NEW p \in Procs, PlaceTags(p)
  PROVE  OneInv' /\ Steps
<1>1. op[p].pc = "placeTags" /\ Replies(p, At(op[p], "fresh")) /\ UNCHANGED <<aws, now, sent>>
  BY DEF PlaceTags, Write
<1>2. op[p].row.tags = tags /\ tags.managed /\ tags \in Tags
  BY <1>1, Facts DEF Fits
<1>3. tags' = [tags EXCEPT !.managed = TRUE]
  BY <1>2, WithTagsSame DEF PlaceTags, Write
<1>4. tags' = tags
  BY <1>2, <1>3 DEF Tags
<1>5. Fits(At(op[p], "fresh"), tags, aws, now)
  BY <1>1, Facts, AtFields DEF Fits, Preparing, Ending
<1>6. Fits(AfterError(p), tags, aws, now)
  BY Facts, AfterErrorFits
<1>7. Told' /\ Tagged' /\ Steps
  BY <1>1, <1>4, QuietSteps
<1>8. QED
  BY <1>1, <1>4, <1>5, <1>6, <1>7, RepliesOne

LEMMA FreshOne ==
  ASSUME OneProcess, Inv, OneInv, NEW p \in Procs, Fresh(p)
  PROVE  OneInv' /\ Steps
<1> DEFINE q == op[p]
           o == [q EXCEPT !.row = Live]
<1>1. q.pc = "fresh" /\ Continue(p, IF o.kind = "poll" THEN Readiness(o) ELSE Visit(o))
  BY DEF Fresh
<1>2. /\ q \in OpState /\ q.start \in Nat /\ Fits(q, tags, aws, now) /\ now \in Nat
      /\ tags.expires \in Nat \cup {Never} /\ Tagged /\ Live \in Row
  BY Facts, LiveOK DEF OneInv
<1> HIDE DEF q
<1>3. o \in OpState /\ o.kind = q.kind /\ o.start = q.start /\ o.row.tags = tags
  BY <1>2 DEF OpState, Live
<1> HIDE DEF o
<1>4. aws.ou /\ tags.managed /\ tags.expires # Never /\ q.kind \in {"pass", "poll"}
      /\ (q.kind = "poll" => tags.intent = Never)
  BY <1>1, <1>2 DEF Fits, Tagged
<1>5. ASSUME o.kind = "poll"
      PROVE  Fits(Readiness(o), tags, aws, now)
  BY <1>2, <1>3, <1>4, <1>5, ReadinessFits DEF Prepares, Fits
<1>6. ASSUME o.kind # "poll"
      PROVE  Fits(Visit(o), tags, aws, now)
  BY <1>2, <1>3, <1>4, <1>6, VisitFits DEF Visits, Fits
<1>7. QED
  BY <1>1, <1>5, <1>6, QuietOne DEF Fresh

\* A tag write in a step that sends no notice.
LEMMA WriteOne ==
  ASSUME OneProcess, Inv, OneInv, NEW p \in Procs, NEW t \in Tags, NEW x,
         Write(p, t, x), UNCHANGED <<aws, now, sent>>,
         Fits(x, t, aws, now), op[p].pc # "root",
         op[p].pc \in Preparing \cup Ending =>
           t.intent = tags.intent /\ t.expires = tags.expires /\ t.alerted = tags.alerted,
         tags.handoff = "complete" => t.handoff = "complete",
         t.handoff # tags.handoff => tags.intent = Never,
         t.closed = tags.closed, t.alerted = tags.alerted,
         t.managed => t.expires # Never, t.intent = Never /\ t.access => aws.grant,
         op[p].kind \in {"pass", "expiry"} /\ tags.intent # Never => t.intent = tags.intent
  PROVE  OneInv' /\ Steps
<1>1. tags' = t /\ Replies(p, x)
  BY DEF Write
<1>2. Fits(AfterError(p), t, aws, now)
  BY AfterErrorFits
<1>3. Told' /\ Tagged'
  BY <1>1 DEF OneInv, Told, Tagged
<1>4. Fits(x, tags', aws', now) /\ Fits(AfterError(p), tags', aws', now)
  BY <1>1, <1>2
<1>5. OneInv'
  BY <1>1, <1>3, <1>4, RepliesOne
<1>6. ASSUME NEW q \in Procs, op[q].kind \in {"pass", "expiry"}, tags.intent # Never
      PROVE  t.intent = tags.intent
  <2>1. q = p
    BY DEF OneProcess
  <2>2. QED
    BY <1>6, <2>1
<1>7. sent'.ready = sent.ready /\ sent.ready \in Nat /\ aws'.grant = aws.grant
  BY Facts
<1>8. Steps
  BY <1>1, <1>6, <1>7 DEF Steps
<1>9. QED
  BY <1>5, <1>8

Adopted(t, h, e) == [t EXCEPT !.managed = TRUE, !.handoff = h, !.expires = e]

LEMMA AdoptSame ==
  ASSUME NEW t \in Tags, NEW h \in Handoffs, NEW e \in Times \cup {Never}
  PROVE  /\ Adopted(t, h, e) \in Tags
         /\ [WithTags(t, Adopted(t, h, e)) EXCEPT !.handoff = Adopted(t, h, e).handoff]
              = Adopted(t, h, e)
<1> DEFINE u == [t EXCEPT !.managed = TRUE, !.handoff = h, !.expires = e]
<1>1. /\ u \in Tags /\ u.owner = t.owner /\ u.expires = e /\ u.warned = t.warned /\ u.handoff = h
      /\ u.access = t.access /\ u.intent = t.intent
  BY DEF Tags
<1>2. t.warned \in BOOLEAN /\ t.access \in BOOLEAN
  BY DEF Tags
<1>3. (t.warned \/ u.warned) = t.warned /\ (t.access \/ u.access) = t.access
      /\ (IF u.intent # Never THEN u.intent ELSE t.intent) = t.intent
  BY <1>1, <1>2
<1>4. WithTags(t, u) = [t EXCEPT !.managed = TRUE, !.owner = t.owner, !.expires = e,
                                 !.warned = t.warned, !.access = t.access, !.intent = t.intent]
  <2> HIDE DEF u
  <2> QED BY <1>1, <1>3 DEF WithTags
<1>5. WithTags(t, u) = [t EXCEPT !.managed = TRUE, !.expires = e]
  BY <1>4 DEF Tags
<1>6. [WithTags(t, u) EXCEPT !.handoff = h] = u
  BY <1>5 DEF Tags
<1>7. Adopted(t, h, e) = u
  BY DEF Adopted
<1> HIDE DEF u
<1>8. QED
  BY <1>1, <1>6, <1>7

LEMMA AdoptOne ==
  ASSUME OneProcess, Inv, OneInv, NEW p \in Procs, Adopt(p)
  PROVE  OneInv' /\ Steps
<1> DEFINE o == op[p]
           h == IF o.row.tags.handoff = "" THEN "pending" ELSE o.row.tags.handoff
           e == IF o.row.tags.expires = Never THEN o.start + DefaultTTL ELSE o.row.tags.expires
           u == [o.row.tags EXCEPT !.managed = TRUE, !.handoff = h, !.expires = e]
           x == [o EXCEPT !.row.tags = u]
<1>1. /\ o.pc = "adopt" /\ UNCHANGED <<aws, now, sent>>
      /\ Write(p, [WithTags(tags, u) EXCEPT !.handoff = u.handoff], Readiness(x))
  BY DEF Adopt
<1>2. /\ o \in OpState /\ o.start \in Nat /\ Fits(o, tags, aws, now) /\ now \in Nat /\ o.row \in Row
      /\ tags \in Tags /\ Tagged /\ o.start \in 0 .. MaxTime
  BY <1>1, Facts DEF OneInv, Inv, OpsOK, Good
<1>3. o.row.tags = tags /\ tags.intent = Never /\ aws.ou /\ o.kind = "pass" /\ o.start <= now
  BY <1>1, <1>2 DEF Fits
<1>4. h \in Handoffs /\ tags.handoff \in Handoffs
  BY <1>2, <1>3 DEF Tags, Handoffs
<1>5. e \in Nat /\ e \in Times
  <2>1. tags.expires \in Times \cup {Never}
    BY <1>2 DEF Tags
  <2>2. o.start + DefaultTTL \in Times
    BY <1>2, ParametersAssumption DEF Times
  <2>3. e \in Times
    BY <1>3, <2>1, <2>2
  <2>4. QED
    BY <2>3, ParametersAssumption DEF Times
<1>6. u \in Tags /\ [WithTags(tags, u) EXCEPT !.handoff = u.handoff] = u
  <2> HIDE DEF h, e, o
  <2>1. u = Adopted(tags, h, e)
    BY <1>3 DEF Adopted
  <2> HIDE DEF u
  <2>2. QED
    BY <1>2, <1>4, <1>5, <2>1, AdoptSame
<1>7. /\ u.managed /\ u.expires = e /\ u.handoff = h /\ u.intent = tags.intent
      /\ u.closed = tags.closed /\ u.alerted = tags.alerted /\ u.access = tags.access
  <2> HIDE DEF h, e, o
  <2> QED BY <1>2, <1>3 DEF Tags
<1>8. x \in OpState /\ x.kind = o.kind /\ x.start = o.start /\ x.row.tags = u
  <2> HIDE DEF u, o
  <2> DEFINE r == [o.row EXCEPT !.tags = u]
  <2>1. r \in Row /\ r.tags = u
    BY <1>2, <1>6 DEF Row
  <2>2. x = [o EXCEPT !.row = r]
    BY <1>2 DEF OpState
  <2> HIDE DEF r, x
  <2>3. QED
    BY <1>2, <2>1, <2>2 DEF OpState
<1>9. h = tags.handoff \/ tags.handoff = ""
  BY <1>3
<1>10. e # Never
  BY <1>5, ParametersAssumption
<1>11. o = op[p]
  OBVIOUS
<1> HIDE DEF u, x, o, h, e
<1>12. Prepares(x, u, aws, now)
  BY <1>2, <1>3, <1>5, <1>7, <1>8, <1>10 DEF Prepares
<1>13. Fits(Readiness(x), u, aws, now)
  BY <1>12, ReadinessFits
<1>14. Write(p, u, Readiness(x))
  BY <1>1, <1>6
<1>15. tags.access => aws.grant
  BY <1>2, <1>3 DEF Tagged
<1>16. QED
  BY <1>1, <1>3, <1>6, <1>7, <1>9, <1>10, <1>11, <1>13, <1>14, <1>15, WriteOne DEF Preparing, Ending

LEMMA PreparingFacts ==
  ASSUME Inv, OneInv, NEW p \in Procs, op[p].pc \in Preparing
  PROVE  Prepares(op[p], tags, aws, now) /\ op[p].row \in Row /\ op[p].row.tags = tags
<1>1. op[p].pc \notin {"idle", "root"}
  BY DEF Preparing
<1>2. QED
  BY <1>1, Facts DEF Fits, Prepares, OneInv, Tagged

LEMMA RowEdit ==
  ASSUME NEW o \in OpState, o.row \in Row, NEW u \in Tags
  PROVE  LET x == [o EXCEPT !.row.tags = u]
         IN  x \in OpState /\ x.kind = o.kind /\ x.start = o.start /\ x.row.tags = u
             /\ x.row.state = o.row.state /\ x.row \in Row
<1> DEFINE r == [o.row EXCEPT !.tags = u]
           x == [o EXCEPT !.row.tags = u]
<1>1. r \in Row /\ r.tags = u /\ r.state = o.row.state
  BY DEF Row
<1>2. x = [o EXCEPT !.row = r]
  BY DEF OpState
<1> HIDE DEF r, x
<1>3. x \in OpState /\ x.kind = o.kind /\ x.start = o.start /\ x.row = r
  BY <1>1, <1>2 DEF OpState
<1>4. QED
  BY <1>1, <1>3 DEF x

LEMMA RecordOne ==
  ASSUME OneProcess, Inv, OneInv, NEW p \in Procs, Record(p)
  PROVE  OneInv' /\ Steps
<1> DEFINE o == op[p]
           u == [tags EXCEPT !.handoff = "pending"]
           x == [o EXCEPT !.row.tags.handoff = "pending"]
<1>1. o.pc = "record" /\ Write(p, u, Protect(x)) /\ UNCHANGED <<aws, now, sent>>
  BY DEF Record
<1>2. Prepares(o, tags, aws, now) /\ o.row \in Row /\ o.row.tags = tags
  BY <1>1, PreparingFacts DEF Preparing
<1>3. tags \in Tags /\ Tagged /\ tags.handoff = "placing"
  BY <1>1, Facts DEF OneInv, Fits
<1>4. /\ u \in Tags /\ u.managed = tags.managed /\ u.expires = tags.expires
      /\ u.intent = tags.intent /\ u.access = tags.access
      /\ u.closed = tags.closed /\ u.alerted = tags.alerted /\ u.handoff = "pending"
  BY <1>3 DEF Tags, Handoffs
<1>5. x = [o EXCEPT !.row.tags = u]
  BY <1>2
<1>6. x \in OpState /\ x.kind = o.kind /\ x.start = o.start /\ x.row.tags = u
  <2>1. o \in OpState
    BY <1>2 DEF Prepares
  <2> HIDE DEF o, u, x
  <2>2. QED
    BY <1>2, <1>4, <1>5, <2>1, RowEdit
<1>7. o = op[p]
  OBVIOUS
<1> HIDE DEF o, u, x
<1>8. Prepares(x, u, aws, now)
  BY <1>2, <1>4, <1>6 DEF Prepares
<1>9. Fits(Protect(x), u, aws, now)
  BY <1>8, ProtectFits
<1>10. QED
  BY <1>1, <1>2, <1>3, <1>4, <1>7, <1>9, WriteOne DEF Prepares, Tagged, Preparing

LEMMA BudgetOne ==
  ASSUME OneProcess, Inv, OneInv, NEW p \in Procs, Budget(p)
  PROVE  OneInv' /\ Steps
<1> DEFINE o == op[p]
           x == [o EXCEPT !.healthy = TRUE]
<1>1. /\ o.pc = "budget" /\ UNCHANGED <<aws, tags, now, sent>>
      /\ Continue(p, Granting(x)) \/ Continue(p, Granting(o)) \/ Continue(p, Expiry(o))
  BY DEF Budget
<1>2. Prepares(o, tags, aws, now)
  BY <1>1, PreparingFacts DEF Preparing
<1> HIDE DEF o
<1>3. Prepares(x, tags, aws, now)
  <2>1. x \in OpState /\ x.kind = o.kind /\ x.start = o.start /\ x.row = o.row
    BY <1>2 DEF Prepares, OpState
  <2> HIDE DEF x
  <2>2. QED
    BY <1>2, <2>1 DEF Prepares
<1> HIDE DEF x
<1>4. Fits(Granting(x), tags, aws, now) /\ Fits(Granting(o), tags, aws, now)
      /\ Fits(Expiry(o), tags, aws, now)
  BY <1>2, <1>3, GrantingFits, PreparesEnds, ExpiryFits
<1>5. QED
  BY <1>1, <1>4, QuietOne

\* The same edit of the tags and of the operation's copy of them, while it prepares.
LEMMA PreparedEdit ==
  ASSUME NEW o, NEW n, NEW a, NEW t \in Tags, NEW u \in Tags, o.row \in Row, Prepares(o, t, a, n),
         u.managed = t.managed, u.expires = t.expires, u.intent = t.intent
  PROVE  Prepares([o EXCEPT !.row.tags = u], u, a, n)
<1> DEFINE x == [o EXCEPT !.row.tags = u]
<1>1. x \in OpState /\ x.kind = o.kind /\ x.start = o.start /\ x.row.tags = u
  BY RowEdit DEF Prepares
<1> HIDE DEF x
<1>2. Prepares(x, u, a, n)
  BY <1>1 DEF Prepares
<1>3. QED
  BY <1>2 DEF x

LEMMA GrantOne ==
  ASSUME OneProcess, Inv, OneInv, NEW p \in Procs, Grant(p)
  PROVE  OneInv' /\ Steps
<1>1. op[p].pc = "grant" /\ Replies(p, At(op[p], "grantTag")) /\ UNCHANGED <<tags, now, sent>>
  BY DEF Grant
<1>2. aws'.ou = aws.ou /\ aws'.grant
  BY Facts DEF Grant
<1>3. Fits(At(op[p], "grantTag"), tags, aws', now) /\ tags.intent = Never
  BY <1>1, <1>2, Facts, AtFields DEF Fits, Preparing, Ending
<1>4. Fits(AfterError(p), tags, aws', now)
  BY <1>1, Facts, AfterErrorFits
<1>5. Told' /\ Tagged' /\ sent'.ready = sent.ready /\ sent.ready \in Nat
  BY <1>1, <1>2, Facts DEF OneInv, Told, Tagged
<1>6. OneInv'
  BY <1>1, <1>3, <1>4, <1>5, RepliesOne
<1>7. Steps
  BY <1>1, <1>3, <1>5 DEF Steps
<1>8. QED
  BY <1>6, <1>7

LEMMA GrantTagOne ==
  ASSUME OneProcess, Inv, OneInv, NEW p \in Procs, GrantTag(p)
  PROVE  OneInv' /\ Steps
<1> DEFINE o == op[p]
           u == [tags EXCEPT !.access = TRUE]
           x == [o EXCEPT !.row.tags.access = TRUE]
<1>1. o.pc = "grantTag" /\ Write(p, u, Handoff(x)) /\ UNCHANGED <<aws, now, sent>>
  BY DEF GrantTag
<1>2. Prepares(o, tags, aws, now) /\ o.row \in Row /\ o.row.tags = tags
  BY <1>1, PreparingFacts DEF Preparing
<1>3. tags \in Tags /\ Tagged /\ aws.grant
  BY <1>1, Facts DEF OneInv, Fits
<1>4. /\ u \in Tags /\ u.managed = tags.managed /\ u.expires = tags.expires
      /\ u.intent = tags.intent /\ u.handoff = tags.handoff
      /\ u.closed = tags.closed /\ u.alerted = tags.alerted
  BY <1>3 DEF Tags
<1>5. x = [o EXCEPT !.row.tags = u]
  BY <1>2
<1>6. o = op[p]
  OBVIOUS
<1> HIDE DEF o, u, x
<1>7. Prepares(x, u, aws, now)
  BY <1>2, <1>3, <1>4, <1>5, PreparedEdit
<1>8. Fits(Handoff(x), u, aws, now)
  BY <1>7, HandoffFits
<1>9. QED
  BY <1>1, <1>2, <1>3, <1>4, <1>6, <1>8, WriteOne DEF Prepares, Tagged, Preparing

\* A tag write with a notice after its reply.
LEMMA NotifyOne ==
  ASSUME OneProcess, Inv, OneInv, NEW p \in Procs, NEW t \in Tags, NEW x, NEW n, NEW v,
         WriteThenNotify(p, t, x, n, v), UNCHANGED <<aws, now>>,
         Fits(x, t, aws, now), Fits(AfterError(p), t, aws, now), Told',
         t.handoff # tags.handoff => tags.intent = Never,
         t.managed = tags.managed, t.expires = tags.expires, t.intent = tags.intent,
         t.access = tags.access,
         n = "ready" => (AccessEnabled => aws.grant) /\ aws.ou /\ tags.managed
  PROVE  OneInv' /\ Steps
<1>1. tags' = t /\ Replies(p, x) /\ (sent' = sent \/ sent' = [sent EXCEPT ![n] = v])
  BY DEF WriteThenNotify, Replies
<1>2. Tagged'
  BY <1>1 DEF OneInv, Tagged
<1>3. Fits(x, tags', aws', now) /\ Fits(AfterError(p), tags', aws', now)
  BY <1>1
<1>4. OneInv'
  BY <1>2, <1>3, <1>1, RepliesOne
<1>5. n # "ready" => sent'.ready = sent.ready /\ sent.ready \in Nat
  BY <1>1, Facts
<1>6. Steps
  BY <1>1, <1>5 DEF Steps
<1>7. QED
  BY <1>4, <1>6

LEMMA MoreOne ==
  ASSUME Inv, NEW n \in {"ready", "closed", "overdue"}, sent[n] = 0
  PROVE  More(n) = 1
BY DEF More

LEMMA HandoffWriteOne ==
  ASSUME OneProcess, Inv, OneInv, NEW p \in Procs, HandoffWrite(p)
  PROVE  OneInv' /\ Steps
<1> DEFINE o == op[p]
           u == [tags EXCEPT !.handoff = "complete"]
<1>1. /\ o.pc = "handoff" /\ UNCHANGED <<aws, now>>
      /\ WriteThenNotify(p, u, Expiry(o), "ready", More("ready"))
  BY DEF HandoffWrite
<1>2. Prepares(o, tags, aws, now)
  BY <1>1, PreparingFacts DEF Preparing
<1>3. tags \in Tags /\ Tagged /\ tags.handoff = "pending" /\ (AccessEnabled => tags.access)
      /\ Told /\ sent.ready \in Nat
  BY <1>1, Facts DEF OneInv, Fits
<1>4. /\ u \in Tags /\ u.managed = tags.managed /\ u.expires = tags.expires
      /\ u.intent = tags.intent /\ u.access = tags.access
      /\ u.closed = tags.closed /\ u.alerted = tags.alerted /\ u.handoff = "complete"
  BY <1>3 DEF Tags, Handoffs
<1>5. More("ready") = 1
  BY <1>3, MoreOne DEF Told
<1>6. (sent' = sent \/ sent' = [sent EXCEPT !.ready = 1]) /\ tags' = u
  BY <1>1, <1>5 DEF WriteThenNotify
<1>7. o = op[p]
  OBVIOUS
<1> HIDE DEF o, u
<1>8. Ends(o, u, now)
  BY <1>2, <1>4 DEF Prepares, Ends
<1>9. Fits(Expiry(o), u, aws, now)
  BY <1>8, ExpiryFits
<1>10. Fits(AfterError(p), u, aws, now)
  BY <1>1, <1>4, <1>7, AfterErrorFits
<1>11. Told'
  BY <1>3, <1>4, <1>6, Facts DEF Told
<1>12. aws.ou /\ tags.managed /\ tags.intent = Never /\ (AccessEnabled => aws.grant)
  BY <1>2, <1>3 DEF Prepares, Tagged
<1>13. QED
  BY <1>1, <1>4, <1>9, <1>10, <1>11, <1>12, NotifyOne

LEMMA WarnTagOne ==
  ASSUME OneProcess, Inv, OneInv, NEW p \in Procs, WarnTag(p)
  PROVE  OneInv' /\ Steps
<1> DEFINE u == [tags EXCEPT !.warned = TRUE]
           v == op[p].row.tags.expires
<1>1. op[p].pc = "warn" /\ WriteThenNotify(p, u, Idle, "expiring", v) /\ UNCHANGED <<aws, now>>
  BY DEF WarnTag
<1>2. tags \in Tags /\ Told /\ now \in Nat
  BY Facts DEF OneInv
<1>3. /\ u \in Tags /\ u.managed = tags.managed /\ u.expires = tags.expires
      /\ u.intent = tags.intent /\ u.access = tags.access
      /\ u.closed = tags.closed /\ u.alerted = tags.alerted /\ u.handoff = tags.handoff
  BY <1>2 DEF Tags
<1>4. (sent' = sent \/ sent' = [sent EXCEPT !.expiring = v]) /\ tags' = u
  BY <1>1 DEF WriteThenNotify
<1> HIDE DEF u, v
<1>5. Told'
  BY <1>2, <1>3, <1>4, Facts DEF Told
<1>6. Fits(Idle, u, aws, now) /\ Fits(AfterError(p), u, aws, now)
  BY <1>1, <1>2, <1>3, IdleFits, AfterErrorFits
<1>7. QED
  BY <1>1, <1>3, <1>5, <1>6, NotifyOne

-----------------------------------------------------------------------------
(* Closing.                                                                *)

\* The intent was written, and the operation closes the account from here on.
LEMMA IntentOne ==
  ASSUME OneProcess, Inv, OneInv, NEW p \in Procs, NEW e \in Nat, e \in Times, NEW x,
         op[p].pc \in {"expire", "track", "closeTag"}, Closes(x, [tags EXCEPT !.intent = e], now),
         Write(p, [tags EXCEPT !.intent = e], Closing(x)), UNCHANGED <<aws, now, sent>>
  PROVE  OneInv' /\ Steps
<1> DEFINE u == [tags EXCEPT !.intent = e]
<1>1. tags \in Tags /\ Tagged /\ e # Never
  BY Facts, ParametersAssumption DEF OneInv
<1>2. /\ u \in Tags /\ u.managed = tags.managed /\ u.expires = tags.expires
      /\ u.intent = e /\ u.access = tags.access
      /\ u.closed = tags.closed /\ u.alerted = tags.alerted /\ u.handoff = tags.handoff
  BY <1>1 DEF Tags
<1>3. Closes(x, u, now) /\ Write(p, u, Closing(x))
  OBVIOUS
<1> HIDE DEF u
<1>4. Fits(Closing(x), u, aws, now)
  BY <1>3, ClosingFits
<1>5. op[p].kind \in {"pass", "expiry"} => tags.intent = Never
  BY Facts DEF Fits
<1>6. op[p].pc \notin Preparing \cup Ending \cup {"root"}
  BY DEF Preparing, Ending
<1>7. QED
  BY <1>1, <1>2, <1>3, <1>4, <1>5, <1>6, WriteOne DEF Tagged

LEMMA ExpireTagOne ==
  ASSUME OneProcess, Inv, OneInv, NEW p \in Procs, ExpireTag(p)
  PROVE  OneInv' /\ Steps
<1> DEFINE o == op[p]
           y == [o EXCEPT !.kind = "expiry"]
           x == [o EXCEPT !.kind = "expiry", !.row.tags.intent = op[p].start]
<1>1. o.pc = "expire" /\ Write(p, [tags EXCEPT !.intent = o.start], Closing(x))
      /\ UNCHANGED <<aws, now, sent>>
  <2>1. o.pc = "expire" /\ Write(p, [tags EXCEPT !.intent = x.start], Closing(x))
        /\ UNCHANGED <<aws, now, sent>>
    BY DEF ExpireTag
  <2>2. x.start = o.start
    BY Facts DEF OpState
  <2>3. QED
    BY <2>1, <2>2
<1>2. o \in OpState /\ o.row \in Row /\ o.start \in Nat /\ o.start <= now /\ now \in Nat
      /\ o.start \in 0 .. MaxTime /\ tags \in Tags
  BY <1>1, Facts DEF Fits, Inv, OpsOK, Good
<1>3. o.start \in Times /\ o.start # Never
  BY <1>2, ParametersAssumption DEF Times
<1>4. x \in OpState /\ x.kind = "expiry" /\ x.start = o.start
  <2> DEFINE t == [o.row.tags EXCEPT !.intent = o.start]
  <2>1. t \in Tags
    BY <1>2, <1>3 DEF Row, Tags
  <2>2. y \in OpState /\ y.row = o.row /\ y.start = o.start /\ y.kind = "expiry"
    BY <1>2 DEF OpState, Kinds
  <2>3. x = [y EXCEPT !.row.tags = t]
    BY <1>2 DEF OpState
  <2> HIDE DEF t, y, x
  <2>4. QED
    BY <1>2, <2>1, <2>2, <2>3, RowEdit
<1>5. o = op[p] /\ [tags EXCEPT !.intent = o.start].intent = o.start
  BY <1>2 DEF Tags
<1> HIDE DEF x, o
<1>6. Closes(x, [tags EXCEPT !.intent = o.start], now)
  BY <1>2, <1>3, <1>4, <1>5 DEF Closes
<1>7. QED
  BY <1>1, <1>2, <1>3, <1>5, <1>6, IntentOne

\* The intent in the operation's own copy of the row.
LEMMA IntentCopy ==
  ASSUME NEW o \in OpState, o.row \in Row, NEW e \in Times
  PROVE  LET x == [o EXCEPT !.row.tags.intent = e]
         IN  x \in OpState /\ x.kind = o.kind /\ x.start = o.start
             /\ x.row.tags = [o.row.tags EXCEPT !.intent = e] /\ x.row.state = o.row.state
<1> DEFINE t == [o.row.tags EXCEPT !.intent = e]
           x == [o EXCEPT !.row.tags.intent = e]
<1>1. t \in Tags
  BY DEF Row, Tags
<1>2. x = [o EXCEPT !.row.tags = t]
  BY DEF OpState
<1> HIDE DEF t, x
<1>3. /\ x \in OpState /\ x.kind = o.kind /\ x.start = o.start /\ x.row.tags = t
      /\ x.row.state = o.row.state
  BY <1>1, <1>2, RowEdit
<1>4. QED
  BY <1>3 DEF x, t

LEMMA TrackOne ==
  ASSUME OneProcess, Inv, OneInv, NEW p \in Procs, Track(p)
  PROVE  OneInv' /\ Steps
<1> DEFINE o == op[p]
           x == [o EXCEPT !.row.tags.intent = op[p].start]
<1>1. o.pc = "track" /\ Write(p, [tags EXCEPT !.intent = o.start], Closing(x))
      /\ UNCHANGED <<aws, now, sent>>
  <2>1. o.pc = "track" /\ Write(p, [tags EXCEPT !.intent = x.start], Closing(x))
        /\ UNCHANGED <<aws, now, sent>>
    BY DEF Track
  <2>2. x.start = o.start
    BY Facts DEF OpState
  <2>3. QED
    BY <2>1, <2>2
<1>2. o \in OpState /\ o.row \in Row /\ o.start \in Nat /\ o.start <= now /\ now \in Nat
      /\ o.start \in 0 .. MaxTime /\ tags \in Tags /\ o.row.tags = tags
  BY <1>1, Facts DEF Fits, Inv, OpsOK, Good
<1>3. o.start \in Times /\ o.start # Never
  BY <1>2, ParametersAssumption DEF Times
<1>4. x \in OpState /\ x.kind = o.kind /\ x.start = o.start
      /\ x.row.tags = [tags EXCEPT !.intent = o.start]
  <2>1. x = [o EXCEPT !.row.tags.intent = o.start]
    OBVIOUS
  <2> HIDE DEF x, o
  <2>2. QED
    BY <1>2, <1>3, <2>1, IntentCopy
<1>5. o = op[p] /\ [tags EXCEPT !.intent = o.start].intent = o.start
  BY <1>2 DEF Tags
<1> HIDE DEF x, o
<1>6. Closes(x, [tags EXCEPT !.intent = o.start], now)
  BY <1>2, <1>3, <1>4, <1>5 DEF Closes
<1>7. QED
  BY <1>1, <1>2, <1>3, <1>5, <1>6, IntentOne

LEMMA EndingFacts ==
  ASSUME Inv, OneInv, NEW p \in Procs, op[p].pc \in Ending
  PROVE  Closes(op[p], tags, now) /\ tags.intent # Never
<1>1. op[p].pc \in Ending => tags.intent # Never /\ (op[p].kind = "pass" => op[p].row.tags.alerted = tags.alerted)
  BY Facts DEF Fits
<1>2. op[p].start <= now
  BY Facts DEF Fits
<1>3. QED
  BY <1>1, <1>2, Facts DEF Closes

LEMMA RevokeOne ==
  ASSUME OneProcess, Inv, OneInv, NEW p \in Procs, Revoke(p)
  PROVE  OneInv' /\ Steps
<1>1. op[p].pc = "revoke" /\ Replies(p, At(op[p], "revokeTag")) /\ UNCHANGED <<tags, now, sent>>
  BY DEF Revoke
<1>2. aws'.ou = aws.ou /\ ~aws'.grant
  BY Facts DEF Revoke
<1>3. Closes(op[p], tags, now) /\ tags.intent # Never
  BY <1>1, EndingFacts DEF Ending
<1>4. Fits(At(op[p], "revokeTag"), tags, aws', now)
  BY <1>3, AtFields DEF Fits, Preparing, Ending, Closes
<1>5. Fits(AfterError(p), tags, aws', now)
  BY <1>1, Facts, AfterErrorFits
<1>6. Told' /\ Tagged' /\ sent'.ready = sent.ready /\ sent.ready \in Nat
  BY <1>1, <1>3, Facts DEF OneInv, Told, Tagged
<1>7. OneInv'
  BY <1>1, <1>4, <1>5, <1>6, RepliesOne
<1>8. Steps
  BY <1>1, <1>2, <1>6 DEF Steps
<1>9. QED
  BY <1>7, <1>8

LEMMA RevokeTagOne ==
  ASSUME OneProcess, Inv, OneInv, NEW p \in Procs, RevokeTag(p)
  PROVE  OneInv' /\ Steps
<1> DEFINE u == [tags EXCEPT !.access = FALSE]
<1>1. op[p].pc = "revokeTag" /\ Write(p, u, AfterRevoke(op[p])) /\ UNCHANGED <<aws, now, sent>>
  BY DEF RevokeTag
<1>2. Closes(op[p], tags, now) /\ tags.intent # Never /\ tags \in Tags /\ Tagged
  BY <1>1, EndingFacts, Facts DEF Ending, OneInv
<1>3. /\ u \in Tags /\ u.managed = tags.managed /\ u.expires = tags.expires
      /\ u.intent = tags.intent /\ u.access = FALSE
      /\ u.closed = tags.closed /\ u.alerted = tags.alerted /\ u.handoff = tags.handoff
  BY <1>2 DEF Tags
<1> HIDE DEF u
<1>4. Closes(op[p], u, now)
  BY <1>2, <1>3 DEF Closes
<1>5. Fits(AfterRevoke(op[p]), u, aws, now)
  BY <1>4, AfterRevokeFits
<1>6. QED
  BY <1>1, <1>2, <1>3, <1>5, WriteOne DEF Tagged

LEMMA CloseOne ==
  ASSUME OneProcess, Inv, OneInv, NEW p \in Procs, Close(p)
  PROVE  OneInv' /\ Steps
<1>1. op[p].pc = "close" /\ UNCHANGED <<tags, now, sent>>
  BY DEF Close
<1>2. aws'.ou = aws.ou /\ aws'.grant = aws.grant
  BY Facts DEF Close
<1>3. Closes(op[p], tags, now)
  BY <1>1, EndingFacts DEF Ending
<1>4. /\ Fits(At(op[p], "verify"), tags, aws', now)
      /\ Fits(AfterClose(op[p]), tags, aws', now)
      /\ Fits(AfterError(p), tags, aws', now)
  <2>1. Fits(At(op[p], "verify"), tags, aws', now)
    BY <1>3, AtFields DEF Fits, Preparing, Ending, Closes
  <2>2. QED
    BY <1>1, <1>3, <2>1, DelayFits, Facts, AfterErrorFits DEF AfterClose
<1>5. Told' /\ Tagged' /\ Steps
  BY <1>1, <1>2, QuietSteps
<1>6. CASE Replies(p, At(op[p], "verify"))
  BY <1>1, <1>4, <1>5, <1>6, RepliesOne
<1>7. CASE Continue(p, AfterClose(op[p]))
  <2>1. Fits(AfterClose(op[p]), tags', aws', now')
    BY <1>1, <1>4
  <2>2. QED
    BY <1>5, <1>7, <2>1, OneStep
<1>8. QED
  BY <1>6, <1>7 DEF Close

LEMMA VerifyOne ==
  ASSUME OneProcess, Inv, OneInv, NEW p \in Procs, Verify(p)
  PROVE  OneInv' /\ Steps
<1> DEFINE o == op[p]
           y == [o EXCEPT !.row = Live]
           i == IF tags.intent = Never THEN o.row.tags.intent ELSE tags.intent
           x == [o EXCEPT !.row = Live, !.row.tags.intent = i]
           z == IF aws.state # "CLOSED" THEN AfterClose(x)
                ELSE IF tags.closed THEN Idle ELSE At(o, "confirm")
<1>1. o.pc = "verify" /\ Continue(p, z) /\ UNCHANGED <<tags, now, sent, aws>>
  BY DEF Verify
<1>2. Closes(o, tags, now) /\ tags.intent # Never /\ tags \in Tags /\ now \in Nat /\ Live \in Row
      /\ Live.tags = tags
  BY <1>1, EndingFacts, Facts, LiveOK DEF Ending
<1>3. tags.intent \in Times
  BY <1>2 DEF Tags
<1>4. x \in OpState /\ x.kind = o.kind /\ x.start = o.start
      /\ x.row.tags = [tags EXCEPT !.intent = tags.intent]
  <2>1. y \in OpState /\ y.row = Live /\ y.kind = o.kind /\ y.start = o.start
    BY <1>2 DEF Closes, OpState
  <2>2. x = [y EXCEPT !.row.tags.intent = tags.intent]
    BY <1>2 DEF Closes, OpState
  <2> HIDE DEF x, y, o
  <2>3. QED
    BY <1>2, <1>3, <2>1, <2>2, IntentCopy
<1>5. x.row.tags.alerted = tags.alerted
  BY <1>2, <1>4 DEF Tags
<1> HIDE DEF x, o, y, i
<1>6. Closes(x, tags, now)
  BY <1>2, <1>4, <1>5 DEF Closes
<1>7. Fits(AfterClose(x), tags, aws, now) /\ Fits(Idle, tags, aws, now)
  BY <1>2, <1>6, DelayFits, IdleFits DEF AfterClose
<1>8. ~tags.closed => Fits(At(o, "confirm"), tags, aws, now)
  BY <1>2, AtFields DEF Fits, Preparing, Ending, Closes
<1>9. Fits(z, tags, aws, now)
  BY <1>7, <1>8
<1> HIDE DEF z
<1>10. QED
  BY <1>1, <1>9, QuietOne

LEMMA ConfirmOne ==
  ASSUME OneProcess, Inv, OneInv, NEW p \in Procs, Confirm(p)
  PROVE  OneInv' /\ Steps
<1> DEFINE u == [tags EXCEPT !.closed = TRUE]
<1>1. op[p].pc = "confirm" /\ WriteThenNotify(p, u, Idle, "closed", More("closed"))
      /\ UNCHANGED <<aws, now>>
  BY DEF Confirm
<1>2. tags \in Tags /\ Told /\ now \in Nat /\ ~tags.closed /\ sent.closed \in Nat
  BY <1>1, Facts DEF OneInv, Fits
<1>3. /\ u \in Tags /\ u.managed = tags.managed /\ u.expires = tags.expires
      /\ u.intent = tags.intent /\ u.access = tags.access
      /\ u.closed /\ u.alerted = tags.alerted /\ u.handoff = tags.handoff
  BY <1>2 DEF Tags
<1>4. More("closed") = 1
  BY <1>2, MoreOne DEF Told
<1>5. (sent' = sent \/ sent' = [sent EXCEPT !.closed = 1]) /\ tags' = u
  BY <1>1, <1>4 DEF WriteThenNotify
<1> HIDE DEF u
<1>6. Told'
  BY <1>2, <1>3, <1>5, Facts DEF Told
<1>7. Fits(Idle, u, aws, now) /\ Fits(AfterError(p), u, aws, now)
  BY <1>1, <1>2, <1>3, IdleFits, AfterErrorFits
<1>8. QED
  BY <1>1, <1>3, <1>6, <1>7, NotifyOne

LEMMA AlertOne ==
  ASSUME OneProcess, Inv, OneInv, NEW p \in Procs, Alert(p)
  PROVE  OneInv' /\ Steps
<1> DEFINE u == [tags EXCEPT !.alerted = TRUE]
<1>1. op[p].pc = "alert" /\ WriteThenNotify(p, u, Idle, "overdue", More("overdue"))
      /\ UNCHANGED <<aws, now>>
  BY DEF Alert
<1>2. tags \in Tags /\ Told /\ now \in Nat /\ ~tags.alerted /\ sent.overdue \in Nat
  BY <1>1, Facts DEF OneInv, Fits
<1>3. /\ u \in Tags /\ u.managed = tags.managed /\ u.expires = tags.expires
      /\ u.intent = tags.intent /\ u.access = tags.access
      /\ u.closed = tags.closed /\ u.alerted /\ u.handoff = tags.handoff
  BY <1>2 DEF Tags
<1>4. More("overdue") = 1
  BY <1>2, MoreOne DEF Told
<1>5. (sent' = sent \/ sent' = [sent EXCEPT !.overdue = 1]) /\ tags' = u
  BY <1>1, <1>4 DEF WriteThenNotify
<1>6. AfterError(p) = Idle
  BY <1>1 DEF AfterError
<1> HIDE DEF u
<1>7. Told'
  BY <1>2, <1>3, <1>5, Facts DEF Told
<1>8. Fits(Idle, u, aws, now)
  BY <1>2, IdleFits
<1>9. QED
  BY <1>1, <1>3, <1>6, <1>7, <1>8, NotifyOne

-----------------------------------------------------------------------------
(* Extend and RequestClose, on a row of any age.                           *)

LEMMA ExtendOne ==
  ASSUME OneProcess, Inv, OneInv, NEW p \in Procs, Extend(p)
  PROVE  OneInv' /\ Steps
<1>1. PICK row \in Rows(p), until \in Times :
        Continue(p, [Idle EXCEPT !.pc = "extendTag", !.kind = "extend", !.start = now,
                                 !.row = [row EXCEPT !.tags.expires = until]])
  BY DEF Extend
<1> DEFINE r == [row EXCEPT !.tags.expires = until]
           x == [Idle EXCEPT !.pc = "extendTag", !.kind = "extend", !.start = now, !.row = r]
<1>2. r.tags.expires = until /\ until # Never
  BY RowsTyped, ParametersAssumption DEF Row, Tags, Times
<1> HIDE DEF r
<1>3. x.pc = "extendTag" /\ x.kind = "extend" /\ x.start = now /\ x.row = r
  BY DEF Idle
<1>4. Continue(p, x)
  BY <1>1 DEF r
<1> HIDE DEF x
<1>5. Fits(x, tags, aws, now)
  BY <1>2, <1>3, Facts DEF Fits, Preparing, Ending
<1>6. QED
  BY <1>4, <1>5, QuietOne DEF Extend

LEMMA ExtendTagOne ==
  ASSUME OneProcess, Inv, OneInv, NEW p \in Procs, ExtendTag(p)
  PROVE  OneInv' /\ Steps
<1> DEFINE e == op[p].row.tags.expires
           u == [tags EXCEPT !.expires = e]
<1>1. op[p].pc = "extendTag" /\ Write(p, u, At(op[p], "extendUntag")) /\ UNCHANGED <<aws, now, sent>>
  BY DEF ExtendTag
<1>2. /\ op[p].kind = "extend" /\ e # Never /\ op[p].row \in Row /\ tags \in Tags /\ Tagged
      /\ op[p] \in OpState /\ op[p].start <= now
  BY <1>1, Facts DEF Fits, OneInv
<1>3. e \in Times \cup {Never}
  BY <1>2 DEF Row, Tags
<1> HIDE DEF e
<1>4. /\ u \in Tags /\ u.managed = tags.managed /\ u.expires = e
      /\ u.intent = tags.intent /\ u.access = tags.access
      /\ u.closed = tags.closed /\ u.alerted = tags.alerted /\ u.handoff = tags.handoff
  BY <1>2, <1>3 DEF Tags
<1> HIDE DEF u
<1>5. Fits(At(op[p], "extendUntag"), u, aws, now)
  BY <1>2, AtFields DEF Fits, Preparing, Ending
<1>6. op[p].pc \notin Preparing \cup Ending \cup {"root"}
  BY <1>1 DEF Preparing, Ending
<1>7. QED
  BY <1>1, <1>2, <1>4, <1>5, <1>6, WriteOne DEF Tagged

LEMMA ExtendUntagOne ==
  ASSUME OneProcess, Inv, OneInv, NEW p \in Procs, ExtendUntag(p)
  PROVE  OneInv' /\ Steps
<1> DEFINE u == [tags EXCEPT !.warned = FALSE]
<1>1. op[p].pc = "extendUntag" /\ Write(p, u, Idle) /\ UNCHANGED <<aws, now, sent>>
  BY DEF ExtendUntag
<1>2. tags \in Tags /\ Tagged /\ now \in Nat
  BY Facts DEF OneInv
<1>3. /\ u \in Tags /\ u.managed = tags.managed /\ u.expires = tags.expires
      /\ u.intent = tags.intent /\ u.access = tags.access
      /\ u.closed = tags.closed /\ u.alerted = tags.alerted /\ u.handoff = tags.handoff
  BY <1>2 DEF Tags
<1> HIDE DEF u
<1>4. Fits(Idle, u, aws, now)
  BY <1>2, IdleFits
<1>5. QED
  BY <1>1, <1>2, <1>3, <1>4, WriteOne DEF Tagged

LEMMA RequestCloseOne ==
  ASSUME OneProcess, Inv, OneInv, NEW p \in Procs, RequestClose(p)
  PROVE  OneInv' /\ Steps
<1>1. PICK row \in Rows(p) :
        Continue(p, [Idle EXCEPT !.pc = "closeTag", !.kind = "close", !.start = now,
                                 !.row = [row EXCEPT !.tags.intent = now]])
  BY DEF RequestClose
<1> DEFINE r == [row EXCEPT !.tags.intent = now]
           x == [Idle EXCEPT !.pc = "closeTag", !.kind = "close", !.start = now, !.row = r]
<1>2. x.pc = "closeTag" /\ x.kind = "close" /\ x.start = now
  BY DEF Idle
<1>3. Continue(p, x)
  BY <1>1
<1> HIDE DEF x
<1>4. Fits(x, tags, aws, now)
  BY <1>2, Facts DEF Fits, Preparing, Ending
<1>5. QED
  BY <1>3, <1>4, QuietOne DEF RequestClose

LEMMA CloseTagOne ==
  ASSUME OneProcess, Inv, OneInv, NEW p \in Procs, CloseTag(p)
  PROVE  OneInv' /\ Steps
<1> DEFINE o == op[p]
<1>1. o.pc = "closeTag" /\ Write(p, [tags EXCEPT !.intent = o.start], Closing(o))
      /\ UNCHANGED <<aws, now, sent>>
  BY DEF CloseTag
<1>2. o \in OpState /\ o.start \in Nat /\ o.start <= now /\ now \in Nat
      /\ o.start \in 0 .. MaxTime /\ tags \in Tags /\ o.kind = "close"
  BY <1>1, Facts DEF Fits, Inv, OpsOK, Good
<1>3. o.start \in Times /\ o.start # Never /\ [tags EXCEPT !.intent = o.start].intent = o.start
  BY <1>2, ParametersAssumption DEF Times, Tags
<1>4. o = op[p]
  OBVIOUS
<1> HIDE DEF o
<1>5. Closes(o, [tags EXCEPT !.intent = o.start], now)
  BY <1>2, <1>3 DEF Closes
<1>6. QED
  BY <1>1, <1>2, <1>3, <1>4, <1>5, IntentOne

-----------------------------------------------------------------------------
(* The pages, AWS and time; every step.                                    *)

\* A step of nobody's operation.
LEMMA OtherOne ==
  ASSUME Inv, OneInv, UNCHANGED <<tags, op, sent>>, now <= now', now' \in Nat,
         aws'.ou = aws.ou, aws'.grant = aws.grant
  PROVE  OneInv' /\ Steps
<1>1. Told' /\ Tagged' /\ Steps
  BY QuietSteps
<1>2. ASSUME NEW q \in Procs
      PROVE  Fits(op'[q], tags', aws', now')
  <2>1. PICK o : o = op[q]
    OBVIOUS
  <2>2. o.start \in Nat /\ now \in Nat /\ tags.expires \in Nat \cup {Never} /\ Fits(o, tags, aws, now)
    BY <2>1, Facts
  <2>3. Fits(o, tags, aws', now')
    BY <2>2 DEF Fits, Preparing, Ending
  <2>4. QED
    BY <2>1, <2>3
<1>3. QED
  BY <1>1, <1>2 DEF OneInv

LEMMA AwsOne ==
  ASSUME Inv, OneInv, AwsCloses \/ AwsActsAlone \/ AwsReinstates
  PROVE  OneInv' /\ Steps
<1>1. aws \in [state : ProviderStates, ou : BOOLEAN, grant : BOOLEAN, asked : BOOLEAN]
  BY DEF Inv, AwsOK
<1>2. aws'.ou = aws.ou /\ aws'.grant = aws.grant /\ UNCHANGED <<tags, op, sent, now>>
  BY <1>1 DEF AwsCloses, AwsActsAlone, AwsReinstates
<1>3. now \in Nat
  BY DEF Inv, ViewOK
<1>4. QED
  BY <1>2, <1>3, OtherOne

LEMMA TickOne ==
  ASSUME Inv, OneInv, Tick
  PROVE  OneInv' /\ Steps
<1>1. now \in Nat
  BY DEF Inv, ViewOK
<1>2. QED
  BY <1>1, OtherOne DEF Tick

LEMMA StillOne ==
  ASSUME Inv, OneInv, UNCHANGED <<aws, tags, op, sent, now>>
  PROVE  OneInv' /\ Steps
<1>1. now \in Nat
  BY DEF Inv, ViewOK
<1>2. QED
  BY <1>1, OtherOne

LEMMA NextOne ==
  ASSUME OneProcess, Inv, OneInv, [Next]_vars
  PROVE  OneInv' /\ Steps
<1>1. ASSUME NEW p \in Procs, PlaceSteps(p)
      PROVE  OneInv' /\ Steps
  BY <1>1, RefreshRootOne, MoveOne, PlaceTagsOne, FreshOne, AdoptOne DEF PlaceSteps
<1>2. ASSUME NEW p \in Procs, ReadySteps(p)
      PROVE  OneInv' /\ Steps
  BY <1>2, RecordOne, BudgetOne, GrantOne, GrantTagOne, HandoffWriteOne, WarnTagOne DEF ReadySteps
<1>3. ASSUME NEW p \in Procs, CloseSteps(p)
      PROVE  OneInv' /\ Steps
  BY <1>3, ExpireTagOne, TrackOne, RevokeOne, RevokeTagOne, CloseOne, VerifyOne, ConfirmOne, AlertOne
  DEF CloseSteps
<1>4. ASSUME NEW p \in Procs, PersonSteps(p)
      PROVE  OneInv' /\ Steps
  BY <1>4, ExtendTagOne, ExtendUntagOne, CloseTagOne DEF PersonSteps
<1>5. ASSUME NEW p \in Procs, Refresh(p) \/ PollCreate(p) \/ Extend(p) \/ RequestClose(p)
      PROVE  OneInv' /\ Steps
  BY <1>5, RefreshOne, PollCreateOne, ExtendOne, RequestCloseOne
<1>6. ASSUME NEW p \in Procs, CallFails(p) \/ Crash(p) \/ View(p) \/ ViewEnds(p)
      PROVE  OneInv' /\ Steps
  BY <1>6, CallFailsOne, CrashOne, StillOne DEF View, ViewEnds
<1>7. CASE UNCHANGED vars
  BY <1>7, StillOne DEF vars
<1>8. QED
  BY <1>1, <1>2, <1>3, <1>4, <1>5, <1>6, <1>7, AwsOne, TickOne DEF Next, Proceed

LEMMA InitOne == Init => OneInv
<1> SUFFICES ASSUME Init
             PROVE  OneInv
  OBVIOUS
<1>1. (tags.managed => tags.expires # Never) /\ tags.access = FALSE
  <2>1. CASE aws.ou
    BY <2>1 DEF Init
  <2>2. CASE ~aws.ou
    <3>1. tags.expires \in 1 .. MaxTTL /\ tags.access = FALSE
      BY <2>2 DEF Init
    <3>2. QED
      BY <3>1, ParametersAssumption
  <2>3. QED
    BY <2>1, <2>2
<1>2. sent.ready = 0 /\ sent.closed = 0 /\ sent.overdue = 0
  BY DEF Init
<1>3. \A p \in Procs : op[p] = Idle
  BY DEF Init
<1>4. Fits(Idle, tags, aws, now)
  BY IdleFits DEF Init
<1>5. Told
  BY <1>2 DEF Told
<1>6. QED
  BY <1>1, <1>2, <1>3, <1>4, <1>5 DEF OneInv, Tagged

-----------------------------------------------------------------------------
(* The theorems.                                                           *)

\* The inductive invariant: what the operation has read is what the tags still say,
\* and a notice was sent only after its tag was written (Refresh, opMu).
THEOREM OneInvariant ==
  ASSUME OneProcess
  PROVE  Spec => []OneInv
<1>1. Inv /\ OneInv /\ [Next]_vars => OneInv'
  BY NextOne
<1>2. QED
  BY <1>1, InitOne, InvAlways, PTL DEF Spec

\* Every step keeps the promises of Steps.
LEMMA StepsAlways ==
  ASSUME OneProcess
  PROVE  Spec => [][Steps]_vars
<1>1. Inv /\ OneInv /\ [Next]_vars => [Steps]_vars
  BY NextOne
<1>2. QED
  BY <1>1, OneInvariant, InvAlways, PTL DEF Spec

\* Nobody is told twice that an account is ready, closed or overdue, whatever fails
\* and wherever the process crashes (each notice is sent after its tag is written).
THEOREM NoticesAtMostOnceHolds ==
  ASSUME OneProcess
  PROVE  Spec => []NoticesAtMostOnce
<1>1. OneInv => NoticesAtMostOnce
  BY DEF OneInv, Told, NoticesAtMostOnce
<1>2. QED
  BY <1>1, OneInvariant, PTL

\* A pass closes by itself only an account whose tags carry an expiry that has passed,
\* whatever extensions came before (Refresh under opMu).
THEOREM ExpiryClosesOnlyExpiredHolds ==
  ASSUME OneProcess
  PROVE  Spec => ExpiryClosesOnlyExpired
<1>1. OneInv => \A p \in Procs : op[p].pc = "expire" => tags.expires <= now
  BY DEF OneInv, Fits
<1>2. OneInv =>
        [\A p \in Procs :
           (op[p].pc = "expire" /\ tags.intent = Never /\ tags'.intent # Never)
             => tags.expires <= now]_vars
  BY <1>1
<1>3. QED
  BY <1>2, OneInvariant, PTL DEF ExpiryClosesOnlyExpired

\* An account that is to be closed is neither granted nor handed over, however its
\* creation or adoption was cut (the close intent in the tags).
THEOREM NoHandoffAgainstIntentHolds ==
  ASSUME OneProcess
  PROVE  Spec => NoHandoffAgainstIntent
<1>1. [Steps]_vars =>
        [((aws'.grant /\ ~aws.grant) \/ tags'.handoff # tags.handoff) => tags.intent = Never]_vars
  BY DEF Steps
<1>2. QED
  BY <1>1, StepsAlways, PTL DEF NoHandoffAgainstIntent

\* The owner is told of an account only when it is placed, managed and granted
\* (grantAccess, the handoff).
THEOREM ReadyMeansAccessHolds ==
  ASSUME OneProcess
  PROVE  Spec => ReadyMeansAccess
<1>1. [Steps]_vars =>
        [(sent'.ready > sent.ready) => (AccessEnabled => aws.grant) /\ aws.ou /\ tags.managed]_vars
  BY DEF Steps
<1>2. QED
  BY <1>1, StepsAlways, PTL DEF ReadyMeansAccess

\* A pass never writes another time of the close intent over the one that is there
\* (the clock of the closure alert).
THEOREM ClosureClockKeptHolds ==
  ASSUME OneProcess
  PROVE  Spec => ClosureClockKept
<1>1. [Steps]_vars =>
        [\A p \in Procs :
           (op[p].kind \in {"pass", "expiry"} /\ tags.intent # Never /\ op'[p] # op[p])
             => tags'.intent = tags.intent]_vars
  BY DEF Steps
<1>2. QED
  BY <1>1, StepsAlways, PTL DEF ClosureClockKept

=============================================================================
