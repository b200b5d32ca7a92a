----------------------- MODULE BudgetProtectionProofs -----------------------
(***************************************************************************)
(* Theorems about BudgetProtection, for any limits, months, addresses,     *)
(* alerts, configurations and faults.                                      *)
(***************************************************************************)
EXTENDS BudgetProtection, TLAPS

PassLabels == {"read", "write", "alerts", "find", "attach", "repair", "execute", "record"}
SetLabels == {"inspect", "see", "approve", "save"}
RetireLabels == {"check", "retireFind", "recheck", "delete", "record"}

\* The statuses that a restriction goes through until its reversal is recorded.
Undoing == {"EXECUTION_SUCCESS", "REVERSE_IN_PROGRESS", "REVERSE_SUCCESS", "REVERSE_FAILURE",
            "DELETING"}

\* An approval of this month, whose approver saw the action in this month.
Reversing == /\ tags.recovery.phase = "reverse" /\ tags.recovery.month = cal.month
             /\ tags.recovery.look = tags.recovery.month
\* The approval as the clock of o reads it.
Asked(o) == tags.recovery.phase = "reverse" /\ tags.recovery.month = o.month
Gone == action.status \in {"NONE", "DELETING"}

\* An operation has one kind, and every kind its labels.
Shape(o) ==
  /\ o.kind = "none" => o = Idle
  /\ o.kind = "pass" => o.pc \in PassLabels
  /\ o.kind = "set" => o.pc \in SetLabels
  /\ o.kind = "retire" => o.pc \in RetireLabels

\* Nothing that was retired is touched again.
Retiring(o) ==
  /\ o.kind = "retire" => cal.stage = "closed"
  /\ o.kind \in {"pass", "set"} => tags.health # "retired"
  /\ o.state = "retired" => o.kind = "retire" /\ action.status = "NONE"

\* A reversal or a reset is sent under the phase that asks for it. An approval is
\* written while the execution that it lifts still stands, unless the month turned
\* after its approver looked.
Recovering(o) ==
  /\ o.pc = "execute" /\ o.todo = "reverse" => Asked(o)
  /\ o.pc = "execute" /\ o.todo = "reset" => ~Reversing
  /\ o.kind = "set" => tags.recovery = NoRecovery
  /\ o.pc = "approve" => /\ o.month <= cal.month
                         /\ o.act.status = "EXECUTION_SUCCESS" /\ o.month = cal.month
                              => action.status = "EXECUTION_SUCCESS"
  /\ o.pc = "save" => /\ o.recovery.month <= cal.month /\ o.recovery.look <= cal.month
                      /\ o.recovery.look = cal.month => action.status = "EXECUTION_SUCCESS"

\* What a pass has put in order so far.
Protecting(o) ==
  /\ o.kind = "pass" /\ (o.pc \in {"alerts", "find", "attach", "repair"} \/ o.configured)
       => budget.limit = tags.limit
  /\ o.kind = "pass" /\ (o.pc \in {"find", "attach", "repair"} \/ o.configured)
       => \A n \in Alerts : InOrder(alerts[n])
  /\ o.pc \in {"attach", "repair"} /\ o.act.status \notin {"NONE", "DELETING"}
       => ~Gone /\ (o.act.trigger => action.trigger)
  /\ o.kind = "pass" /\ o.configured /\ config.policy
       => ~Gone /\ action.trigger /\ (tags.recovery = NoRecovery \/ o.done)

Good(o) == Shape(o) /\ Retiring(o) /\ Recovering(o) /\ Protecting(o)

\* What the tags say of AWS between and during operations.
Marked ==
  /\ tags.health = "retired" => action.status = "NONE" /\ cal.stage = "closed"
  /\ tags.recovery.month <= cal.month
  /\ Reversing => action.status = "NONE" \/ (action.seen /\ action.status \in Undoing)

Inv == TypeOK /\ Good(op) /\ Marked

-----------------------------------------------------------------------------
(* Types of the operations' records.                                       *)

LEMMA SomeLimitTyped == SomeLimit \in Limits
  BY BudgetAssumption DEF SomeLimit

LEMMA NoActionTyped == NoAction \in Action
  BY DEF NoAction, Action, Statuses

LEMMA NoRecoveryTyped == NoRecovery \in Recovery
  BY BudgetAssumption DEF NoRecovery, Recovery

LEMMA IdleTyped == Idle \in Op
  BY SomeLimitTyped, NoActionTyped, NoRecoveryTyped, BudgetAssumption DEF Idle, Op, Labels, Health

LEMMA IdleGood == Good(Idle)
  BY DEF Good, Shape, Retiring, Recovering, Protecting, Idle, NoAction

LEMMA FailedTyped ==
  ASSUME NEW o \in Op
  PROVE  Failed(o) \in Op
<1>1. o.kind \in {"none", "pass", "set", "retire"}
  BY DEF Op
<1>2. QED
  BY <1>1, IdleTyped DEF Failed, Op, Labels

\* A pass or a retirement that fails leaves nothing but its error.
LEMMA FailedGood ==
  ASSUME NEW o \in Op, Good(o), o.kind \in {"pass", "retire"}
  PROVE  Good(Failed(o))
<1> DEFINE f == Failed(o)
<1>1. /\ f.kind = o.kind /\ f.pc = "record" /\ f.state = "setup-pending"
      /\ f.configured = FALSE /\ f.todo = "none"
  BY DEF Failed, Idle
<1> HIDE DEF f
<1>2. Good(f)
  BY <1>1 DEF Good, Shape, Retiring, Recovering, Protecting, PassLabels, RetireLabels
<1>3. QED
  BY <1>2 DEF f

LEMMA AtTyped ==
  ASSUME NEW o \in Op, NEW l \in Labels
  PROVE  /\ At(o, l) \in Op
         /\ At(o, l).pc = l /\ At(o, l).kind = o.kind /\ At(o, l).state = o.state
         /\ At(o, l).configured = o.configured /\ At(o, l).todo = o.todo
         /\ At(o, l).act = o.act /\ At(o, l).done = o.done
         /\ At(o, l).month = o.month /\ At(o, l).recovery = o.recovery
BY DEF At, Op

-----------------------------------------------------------------------------
(* Steps by their kind.                                                    *)

Typed(b, a, s) ==
  /\ b \in [limit : Limits \cup {0}, shown : 0 .. MaxSpend]
  /\ a \in Action
  /\ s \in [Alerts -> SUBSET (Emails \cup {Foreign})]

CountOK == count \in [faults : 0 .. MaxFaults, changes : 0 .. MaxChanges]

LEMMA FaultyTyped ==
  ASSUME CountOK, Faulty
  PROVE  CountOK'
<1>1. count.faults \in 0 .. MaxFaults /\ count.faults < MaxFaults
  BY DEF CountOK, Faulty
<1>2. count.faults + 1 \in 0 .. MaxFaults
  BY <1>1, BudgetAssumption
<1>3. QED
  BY <1>2 DEF CountOK, Faulty

\* Nothing but the operation moves.
LEMMA Keeps ==
  ASSUME Inv, UNCHANGED <<cal, tags, config, outcome>>, AwsSame, CountOK', op' \in Op,
         Good(op')
  PROVE  Inv'
<1>1. TypeOK'
  BY DEF Inv, TypeOK, AwsSame, CountOK
<1>2. Good(op)'
  BY DEF Good, Shape, Retiring, Recovering, Protecting, Reversing, Asked, Gone, InOrder, AwsSame
<1>3. Marked'
  BY DEF Inv, Marked, Reversing, AwsSame
<1>4. QED
  BY <1>1, <1>2, <1>3 DEF Inv

\* An operation ends, whatever else changed.
LEMMA IdleKeeps ==
  ASSUME op' = Idle, TypeOK', Marked'
  PROVE  Inv'
<1>1. Good(op)'
  BY DEF Good, Shape, Retiring, Recovering, Protecting, Idle, NoAction
<1>2. QED
  BY <1>1 DEF Inv

LEMMA FailedKeeps ==
  ASSUME Inv, op.kind \in {"pass", "retire"}, op' = Failed(op),
         UNCHANGED <<cal, tags, config>>, TypeOK', Marked'
  PROVE  Inv'
<1>1. /\ op'.kind = op.kind /\ op'.pc = "record" /\ op'.state = "setup-pending"
      /\ op'.configured = FALSE /\ op'.todo = "none"
  BY DEF Failed, Idle
<1>2. Good(op)'
  BY <1>1 DEF Inv, Good, Shape, Retiring, Recovering, Protecting, PassLabels, RetireLabels
<1>3. QED
  BY <1>2 DEF Inv

LEMMA GoKeeps ==
  ASSUME Inv, NEW l, NEW next \in Op, Go(l, next), Good(next)
  PROVE  Inv'
BY Keeps DEF Go, Rest, CountOK, Inv, TypeOK

LEMMA RefusedKeeps ==
  ASSUME Inv, NEW l, Refused(l), op.kind \in {"pass", "retire"}
  PROVE  Inv'
<1>1. op \in Op /\ Good(op)
  BY DEF Inv, TypeOK
<1>2. QED
  BY <1>1, FailedTyped, FailedGood, GoKeeps DEF Refused

LEMMA ReadKeeps ==
  ASSUME Inv, NEW l, NEW next \in Op, Read(l, next), Good(next), op.kind \in {"pass", "retire"}
  PROVE  Inv'
<1>1. op \in Op /\ Good(op) /\ CountOK
  BY DEF Inv, TypeOK, CountOK
<1>2. Failed(op) \in Op /\ Good(Failed(op))
  BY <1>1, FailedTyped, FailedGood
<1>3. CountOK'
  BY <1>1, FaultyTyped DEF Read, CountOK
<1>4. QED
  BY <1>2, <1>3, Keeps DEF Read, Rest

LEMMA ReturnKeeps ==
  ASSUME Inv, NEW l, Return(l), CountOK'
  PROVE  Inv'
BY Keeps, IdleTyped, IdleGood DEF Return, Rest

\* A write, applied or not, heard or not.
LEMMA WriteKeeps ==
  ASSUME Inv, NEW l, NEW b, NEW a, NEW s, NEW next, Write(l, b, a, s, next),
         op.kind \in {"pass", "retire"}, Typed(b, a, s), next \in Op,
         action' = a => Marked',
         budget' = b /\ action' = a /\ alerts' = s /\ op' = next => Good(op)'
  PROVE  Inv'
<1>1. op \in Op /\ CountOK
  BY DEF Inv, TypeOK, CountOK
<1>2. Failed(op) \in Op
  BY <1>1, FailedTyped
<1>3. CountOK'
  BY <1>1, FaultyTyped DEF Write, CountOK
<1>4. UNCHANGED <<cal, tags, config, outcome, attached>>
  BY DEF Write, Rest
<1>5. CASE UNCHANGED <<budget, action, alerts>> /\ op' = Failed(op)
  <2>1. TypeOK'
    BY <1>2, <1>3, <1>4, <1>5 DEF Inv, TypeOK, CountOK
  <2>2. Marked'
    BY <1>4, <1>5 DEF Inv, Marked, Reversing
  <2>3. QED
    BY <1>4, <1>5, <2>1, <2>2, FailedKeeps
<1>6. CASE budget' = b /\ action' = a /\ alerts' = s /\ op' \in {next, Failed(op)}
  <2>1. TypeOK'
    BY <1>2, <1>3, <1>4, <1>6 DEF Inv, TypeOK, CountOK, Typed
  <2>2. Marked'
    BY <1>6
  <2>3. CASE op' = next
    BY <1>6, <2>1, <2>2, <2>3 DEF Inv
  <2>4. CASE op' = Failed(op)
    BY <1>4, <2>1, <2>2, <2>4, FailedKeeps
  <2>5. QED
    BY <1>6, <2>3, <2>4
<1>7. QED
  BY <1>5, <1>6 DEF Write

-----------------------------------------------------------------------------
(* A pass, up to the action.                                               *)

LEMMA InvFacts ==
  ASSUME Inv
  PROVE  /\ op \in Op /\ Good(op) /\ CountOK
         /\ Typed(budget, action, alerts)
         /\ op.pc \in {"read", "write", "alerts", "find", "attach", "repair", "execute"}
              => op.kind = "pass"
         /\ op.pc \in SetLabels => op.kind = "set"
         /\ op.pc \in {"check", "retireFind", "recheck", "delete"} => op.kind = "retire"
<1>1. op \in Op /\ Good(op) /\ CountOK /\ Typed(budget, action, alerts)
  BY DEF Inv, TypeOK, CountOK, Typed
<1>2. op.kind \in {"none", "pass", "set", "retire"}
  BY <1>1 DEF Op
<1>3. op.kind = "none" => op.pc = "idle"
  BY <1>1 DEF Good, Shape, Idle
<1>4. QED
  BY <1>1, <1>2, <1>3 DEF Good, Shape, PassLabels, SetLabels, RetireLabels

LEMMA ReconcileFacts ==
  ASSUME cal.month \in 1 .. Months
  PROVE
  /\ Reconcile \in Op
  /\ Reconcile.kind = "pass" /\ Reconcile.pc \in {"read", "record"}
  /\ Reconcile.state = "setup-pending" /\ Reconcile.configured = FALSE /\ Reconcile.todo = "none"
<1> DEFINE o == [Idle EXCEPT !.kind = "pass", !.month = cal.month]
<1>0. cal.month \in 0 .. Months
  BY BudgetAssumption
<1>1. o \in Op
  BY <1>0, IdleTyped DEF Op
<1>2. o.kind = "pass" /\ o.state = "setup-pending" /\ o.configured = FALSE /\ o.todo = "none"
  BY DEF Idle
<1>3. /\ Failed(o).kind = o.kind /\ Failed(o).pc = "record" /\ Failed(o).state = "setup-pending"
      /\ Failed(o).configured = FALSE /\ Failed(o).todo = "none"
  BY DEF Failed, Idle
<1>4. "read" \in Labels
  BY DEF Labels
<1>5. Reconcile \in {Failed(o), At(o, "read")}
  BY DEF Reconcile
<1> HIDE DEF o
<1>6. CASE Reconcile = Failed(o)
  BY <1>1, <1>2, <1>3, <1>6, FailedTyped
<1>7. CASE Reconcile = At(o, "read")
  BY <1>1, <1>2, <1>4, <1>7, AtTyped
<1>8. QED
  BY <1>5, <1>6, <1>7

LEMMA ReconcileGood ==
  ASSUME tags.health # "retired", cal.month \in 1 .. Months
  PROVE  Good(Reconcile)
BY ReconcileFacts DEF Good, Shape, Retiring, Recovering, Protecting, PassLabels

LEMMA StartPassOK == Inv /\ StartPass => Inv'
<1> SUFFICES ASSUME Inv, StartPass
             PROVE  Inv'
  OBVIOUS
<1>1. tags.health # "retired" /\ cal.month \in 1 .. Months
  BY DEF Inv, Marked, StartPass, TypeOK
<1>2. QED
  BY <1>1, ReconcileGood, ReconcileFacts, Keeps, InvFacts DEF StartPass, Rest, CountOK

LEMMA ReadBudgetOK == Inv /\ ReadBudget => Inv'
<1> SUFFICES ASSUME Inv, ReadBudget
             PROVE  Inv'
  OBVIOUS
<1> DEFINE l == IF budget.limit = tags.limit THEN "alerts" ELSE "write"
<1>1. op.kind = "pass" /\ op \in Op /\ Good(op) /\ l \in Labels
  BY InvFacts DEF ReadBudget, Read, Labels
<1>2. At(op, l) \in Op
  BY <1>1, AtTyped
<1>3. Good(At(op, l))
  BY <1>1, AtTyped DEF Good, Shape, Retiring, Recovering, Protecting, PassLabels, ReadBudget, Read
<1>4. Read("read", At(op, l))
  BY DEF ReadBudget
<1> HIDE DEF l
<1>5. QED
  BY <1>1, <1>2, <1>3, <1>4, ReadKeeps

LEMMA WriteBudgetOK == Inv /\ WriteBudget => Inv'
<1> SUFFICES ASSUME Inv, WriteBudget
             PROVE  Inv'
  OBVIOUS
<1> DEFINE b == [limit |-> tags.limit, shown |-> 0]
           next == At(op, "alerts")
<1>1. op.kind = "pass" /\ op.pc = "write" /\ op \in Op /\ Good(op) /\ "alerts" \in Labels
  BY InvFacts DEF WriteBudget, Write, Labels
<1>2. next \in Op /\ next.pc = "alerts" /\ next.kind = op.kind /\ next.state = op.state
      /\ next.configured = op.configured /\ next.act = op.act /\ next.done = op.done
  BY <1>1, AtTyped
<1>3. Typed(b, action, alerts)
  BY InvFacts, BudgetAssumption DEF Typed, Inv, TypeOK, Tags
<1>4. UNCHANGED <<cal, tags, config>> /\ Write("write", b, action, alerts, next)
  BY DEF WriteBudget, Write, Rest
<1>5. action' = action => Marked'
  BY <1>4 DEF Inv, Marked, Reversing
<1>6. b.limit = tags.limit
  OBVIOUS
<1> HIDE DEF b, next
<1>7. budget' = b /\ action' = action /\ alerts' = alerts /\ op' = next => Good(op)'
  BY <1>1, <1>2, <1>4, <1>6
  DEF Good, Shape, Retiring, Recovering, Protecting, PassLabels, Reversing, Gone, InOrder
<1>8. QED
  BY <1>1, <1>2, <1>3, <1>4, <1>5, <1>7, WriteKeeps

LEMMA NextSubscribersTyped ==
  ASSUME config \in Config, NEW s \in SUBSET (Emails \cup {Foreign}), NEW t \in NextSubscribers(s)
  PROVE  t \in SUBSET (Emails \cup {Foreign})
BY DEF NextSubscribers, Mails, Config

LEMMA NotifyOK == Inv /\ Notify => Inv'
<1> SUFFICES ASSUME Inv, Notify
             PROVE  Inv'
  OBVIOUS
<1> DEFINE wrong == {m \in Alerts : ~InOrder(alerts[m])}
           n == CHOOSE m \in wrong : \A k \in wrong : m <= k
<1>1. wrong # {} /\ \E s \in NextSubscribers(alerts[n]) :
         Write("alerts", budget, action, [alerts EXCEPT ![n] = s], op)
  BY DEF Notify
<1> HIDE DEF n
<1> PICK s \in NextSubscribers(alerts[n]) :
         Write("alerts", budget, action, [alerts EXCEPT ![n] = s], op)
  BY <1>1
<1> DEFINE a == [alerts EXCEPT ![n] = s]
<1>2. op.kind = "pass" /\ op.pc = "alerts" /\ op \in Op /\ Good(op)
      /\ Typed(budget, action, alerts) /\ config \in Config
  BY <1>1, InvFacts DEF Write, Inv, TypeOK
<1>3. a \in [Alerts -> SUBSET (Emails \cup {Foreign})]
  <2>1. CASE n \in Alerts
    BY <1>2, <2>1, NextSubscribersTyped DEF Typed
  <2>2. CASE n \notin Alerts
    BY <1>2, <2>2 DEF Typed
  <2>3. QED
    BY <2>1, <2>2
<1> HIDE DEF a
<1>4. Typed(budget, action, a)
  BY <1>2, <1>3 DEF Typed
<1>5. ~op.configured
  BY <1>1, <1>2 DEF Good, Protecting
<1>6. UNCHANGED <<cal, tags, config>> /\ Write("alerts", budget, action, a, op)
  BY <1>1 DEF Write, Rest, a
<1>7. action' = action => Marked'
  BY <1>6 DEF Inv, Marked, Reversing
<1>8. budget' = budget /\ action' = action /\ alerts' = a /\ op' = op => Good(op)'
  BY <1>2, <1>5, <1>6
  DEF Good, Shape, Retiring, Recovering, Protecting, PassLabels, Reversing, Gone, InOrder
<1>9. QED
  BY <1>2, <1>4, <1>6, <1>7, <1>8, WriteKeeps

LEMMA NotifiedOK == Inv /\ Notified => Inv'
<1> SUFFICES ASSUME Inv, Notified
             PROVE  Inv'
  OBVIOUS
<1> DEFINE ok == [op EXCEPT !.pc = "record", !.state = "alerts", !.configured = TRUE]
           next == IF config.policy THEN At(op, "find") ELSE ok
<1>1. op.kind = "pass" /\ op.pc = "alerts" /\ op \in Op /\ Good(op) /\ "find" \in Labels
  BY InvFacts DEF Notified, Read, Labels
<1>2. \A n \in Alerts : InOrder(alerts[n])
  BY DEF Notified
<1>3. budget.limit = tags.limit
  BY <1>1 DEF Good, Protecting
<1>4. ok \in Op
  BY <1>1 DEF Op, Labels, Health
<1>5. ok.kind = "pass" /\ ok.pc = "record" /\ ok.state = "alerts"
  BY <1>1 DEF Op
<1>6. Read("alerts", next)
  BY DEF Notified
<1> HIDE DEF ok
<1>7. next \in Op
  BY <1>1, <1>4, AtTyped
<1>8. Good(next)
  <2>1. CASE config.policy
    BY <1>1, <1>2, <1>3, <2>1, AtTyped
    DEF Good, Shape, Retiring, Recovering, Protecting, PassLabels
  <2>2. CASE ~config.policy
    BY <1>1, <1>2, <1>3, <1>5, <2>2 DEF Good, Shape, Retiring, Recovering, Protecting, PassLabels
  <2>3. QED
    BY <2>1, <2>2
<1> HIDE DEF next
<1>9. QED
  BY <1>1, <1>6, <1>7, <1>8, ReadKeeps

LEMMA FindActionOK == Inv /\ FindAction => Inv'
<1> SUFFICES ASSUME Inv, FindAction
             PROVE  Inv'
  OBVIOUS
<1> DEFINE next == [op EXCEPT !.pc = "attach", !.act = action]
<1>1. op.kind = "pass" /\ op.pc = "find" /\ op \in Op /\ Good(op) /\ action \in Action
  BY InvFacts DEF FindAction, Read, Typed
<1>2. next \in Op
  BY <1>1 DEF Op, Labels
<1>3. next.kind = op.kind /\ next.pc = "attach" /\ next.act = action /\ next.state = op.state
      /\ next.configured = op.configured /\ next.done = op.done
  BY <1>1 DEF Op
<1>4. Read("find", next)
  BY DEF FindAction
<1> HIDE DEF next
<1>5. Good(next)
  BY <1>1, <1>3 DEF Good, Shape, Retiring, Recovering, Protecting, PassLabels, Gone
<1>6. QED
  BY <1>1, <1>2, <1>4, <1>5, ReadKeeps

LEMMA AttachmentOK == Inv /\ Attachment => Inv'
<1> SUFFICES ASSUME Inv, Attachment
             PROVE  Inv'
  OBVIOUS
<1> DEFINE next == [op EXCEPT !.pc = "repair", !.held = attached]
<1>1. op.kind = "pass" /\ op.pc = "attach" /\ op \in Op /\ Good(op) /\ attached \in BOOLEAN
  BY InvFacts DEF Attachment, Read, Inv, TypeOK
<1>2. next \in Op
  BY <1>1 DEF Op, Labels
<1>3. next.kind = op.kind /\ next.pc = "repair" /\ next.act = op.act /\ next.state = op.state
      /\ next.configured = op.configured /\ next.done = op.done
  BY <1>1 DEF Op
<1>4. Read("attach", next)
  BY DEF Attachment
<1> HIDE DEF next
<1>5. Good(next)
  BY <1>1, <1>3 DEF Good, Shape, Retiring, Recovering, Protecting, PassLabels, Gone
<1>6. QED
  BY <1>1, <1>2, <1>4, <1>5, ReadKeeps

-----------------------------------------------------------------------------
(* advanceBudgetRecovery.                                                  *)

\* What a later step may count on in the result of an observation.
Follows(a, o) ==
  /\ a \in Op /\ a.kind = o.kind /\ a.pc \in {"record", "execute"} /\ a.state # "retired"
  /\ a.pc = "execute" /\ a.todo = "reverse" => Asked(a)
  /\ a.pc = "execute" /\ a.todo = "reset" => ~Reversing
  /\ a.configured =>
       \/ o.configured /\ (o.done => a.done)
       \/ o.act.status \in {"STANDBY", "EXECUTION_SUCCESS"} /\ (tags.recovery = NoRecovery \/ a.done)

LEMMA DoFollows ==
  ASSUME NEW o \in Op, NEW t \in {"reverse", "reset"},
         t = "reverse" => Asked(o), t = "reset" => ~Reversing
  PROVE  Follows(Do(o, t), o)
<1> DEFINE g == o.act.status \in {"REVERSE_FAILURE", "RESET_FAILURE"}
<1>1. g \in BOOLEAN
  OBVIOUS
<1>2. Do(o, t) = [o EXCEPT !.pc = "execute", !.state = "recovering", !.todo = t, !.again = g]
  BY DEF Do
<1> HIDE DEF g
<1> DEFINE e == [o EXCEPT !.pc = "execute", !.state = "recovering"]
<1>5. e \in Op
  BY DEF Op, Labels, Health
<1>6. Do(o, t) = [e EXCEPT !.todo = t, !.again = g]
  BY <1>2
<1> HIDE DEF e
<1>3. Do(o, t) \in Op
  BY <1>1, <1>5, <1>6 DEF Op
<1>4. /\ Do(o, t).kind = o.kind /\ Do(o, t).pc = "execute" /\ Do(o, t).state = "recovering"
      /\ Do(o, t).todo = t /\ Do(o, t).configured = o.configured /\ Do(o, t).done = o.done
      /\ Do(o, t).month = o.month
  BY <1>2 DEF Op
<1>7. QED
  BY <1>3, <1>4 DEF Follows, Asked

LEMMA AwaitFollows ==
  ASSUME NEW o \in Op
  PROVE  Follows(Await(o), o)
<1>1. Await(o) \in Op
  BY DEF Await, Op, Labels, Health
<1>2. /\ Await(o).kind = o.kind /\ Await(o).pc = "record" /\ Await(o).state = "recovering"
      /\ Await(o).configured = o.configured /\ Await(o).done = o.done
  BY DEF Await, Op
<1>3. QED
  BY <1>1, <1>2 DEF Follows

LEMMA AwaitResetFollows ==
  ASSUME NEW o \in Op
  PROVE  Follows([Await(o) EXCEPT !.phase = "reset"], o)
<1> DEFINE w == Await(o)
           a == [w EXCEPT !.phase = "reset"]
<1>1. w \in Op /\ w.kind = o.kind /\ w.pc = "record" /\ w.state = "recovering"
      /\ w.configured = o.configured /\ w.done = o.done
  BY DEF Await, Op, Labels, Health
<1> HIDE DEF w
<1>2. a \in Op
  BY <1>1 DEF Op
<1>3. a.kind = o.kind /\ a.pc = "record" /\ a.state = "recovering"
      /\ a.configured = o.configured /\ a.done = o.done
  BY <1>1 DEF Op
<1> HIDE DEF a
<1>4. Follows(a, o)
  BY <1>2, <1>3 DEF Follows
<1>5. QED
  BY <1>4 DEF a, w

LEMMA FailedFollows ==
  ASSUME NEW o \in Op
  PROVE  Follows(Failed(o), o)
<1>1. Failed(o).kind = o.kind /\ Failed(o).pc = "record" /\ Failed(o).state = "setup-pending"
      /\ Failed(o).configured = FALSE
  BY DEF Failed, Idle
<1>2. QED
  BY <1>1, FailedTyped DEF Follows

LEMMA ObserveFollows ==
  ASSUME NEW o \in Op, tags.recovery = NoRecovery \/ o.done
  PROVE  Follows(Observe(o), o)
<1> DEFINE ok == [o EXCEPT !.pc = "record", !.configured = TRUE]
           ready == [ok EXCEPT !.state = "ready"]
           restricted == [ok EXCEPT !.state = "restricted"]
           restricting == [o EXCEPT !.pc = "record", !.state = "restricting"]
<1>1. ok \in Op /\ ok.kind = o.kind /\ ok.pc = "record" /\ ok.done = o.done
  BY DEF Op, Labels
<1>2. Observe(o) = IF o.act.status = "STANDBY" /\ ~o.held THEN ready
                   ELSE IF o.act.status = "EXECUTION_SUCCESS" /\ o.held THEN restricted
                   ELSE IF o.act.status = "EXECUTION_IN_PROGRESS" THEN restricting
                   ELSE Failed(o)
  BY DEF Observe
<1> HIDE DEF ok
<1>3. /\ ready \in Op /\ ready.kind = o.kind /\ ready.pc = "record" /\ ready.state = "ready"
      /\ ready.done = o.done
  BY <1>1 DEF Op, Health
<1>4. /\ restricted \in Op /\ restricted.kind = o.kind /\ restricted.pc = "record"
      /\ restricted.state = "restricted" /\ restricted.done = o.done
  BY <1>1 DEF Op, Health
<1>5. /\ restricting \in Op /\ restricting.kind = o.kind /\ restricting.pc = "record"
      /\ restricting.state = "restricting" /\ restricting.configured = o.configured
      /\ restricting.done = o.done
  BY DEF Op, Labels, Health
<1> HIDE DEF ready, restricted, restricting
<1>6. o.act.status = "STANDBY" => Follows(ready, o)
  BY <1>3 DEF Follows
<1>7. o.act.status = "EXECUTION_SUCCESS" => Follows(restricted, o)
  BY <1>4 DEF Follows
<1>8. Follows(restricting, o)
  BY <1>5 DEF Follows
<1>9. Follows(Failed(o), o)
  BY FailedFollows
<1>10. QED
  BY <1>2, <1>6, <1>7, <1>8, <1>9

LEMMA OverFollows ==
  ASSUME NEW o \in Op
  PROVE  Follows(Over(o), o)
<1> DEFINE d == [o EXCEPT !.done = TRUE]
<1>1. /\ d \in Op /\ d.done /\ d.kind = o.kind /\ d.act = o.act
      /\ d.configured = o.configured
  BY DEF Op
<1> HIDE DEF d
<1>2. Follows(Observe(d), d)
  BY <1>1, ObserveFollows
<1>3. Follows(Observe(d), o)
  BY <1>1, <1>2 DEF Follows
<1>4. QED
  BY <1>3 DEF Over, d

LEMMA AdvancedFollows ==
  ASSUME NEW o \in Op
  PROVE  Follows(Advanced(o), o)
<1> DEFINE r == tags.recovery
<1>1. CASE r = NoRecovery
  BY <1>1, ObserveFollows DEF Advanced
<1>2. CASE r # NoRecovery /\ r.month # o.month
  BY <1>2, OverFollows DEF Advanced
<1>3. CASE r # NoRecovery /\ r.month = o.month /\ r.phase = "reverse"
  <2>1. Advanced(o) = ReversePhase(o)
    BY <1>3 DEF Advanced
  <2>2. Asked(o)
    BY <1>3 DEF Asked
  <2>3. ReversePhase(o) \in {Do(o, "reverse"), [Await(o) EXCEPT !.phase = "reset"], Await(o),
                            Over(o), Failed(o)}
    BY DEF ReversePhase
  <2>4. Follows(Do(o, "reverse"), o)
    BY <2>2, DoFollows
  <2>5. QED
    BY <2>1, <2>3, <2>4, AwaitFollows, AwaitResetFollows, OverFollows, FailedFollows
<1>4. CASE r # NoRecovery /\ r.month = o.month /\ r.phase # "reverse"
  <2>1. Advanced(o) = ResetPhase(o)
    BY <1>4 DEF Advanced
  <2>2. ~Reversing
    BY <1>4 DEF Reversing
  <2>3. ResetPhase(o) \in {Do(o, "reset"), Await(o), Over(o), Failed(o)}
    BY DEF ResetPhase
  <2>4. Follows(Do(o, "reset"), o)
    BY <2>2, DoFollows
  <2>5. QED
    BY <2>1, <2>3, <2>4, AwaitFollows, OverFollows, FailedFollows
<1>5. QED
  BY <1>1, <1>2, <1>3, <1>4

LEMMA AdvanceFollows ==
  ASSUME NEW o \in Op
  PROVE  Follows(Advance(o), o) /\ Advance(o).act = NoAction
<1> DEFINE x == Advanced(o)
           a == [x EXCEPT !.act = NoAction, !.held = FALSE]
<1>1. x \in Op /\ Follows(x, o)
  BY AdvancedFollows DEF Follows
<1> HIDE DEF x
<1>2. a \in Op
  BY <1>1, NoActionTyped DEF Op
<1>3. /\ a.kind = x.kind /\ a.pc = x.pc /\ a.state = x.state /\ a.todo = x.todo
      /\ a.configured = x.configured /\ a.done = x.done /\ a.act = NoAction
      /\ a.month = x.month
  BY <1>1 DEF Op
<1> HIDE DEF a
<1>4. Follows(a, o)
  BY <1>1, <1>2, <1>3 DEF Follows, Asked
<1>5. QED
  BY <1>3, <1>4 DEF Advance, a, x

\* Where the budget is in order and the action was seen to act, the observation of it is right.
LEMMA AdvanceGood ==
  ASSUME Inv, op.pc = "repair", op.act.status # "NONE", op.act.trigger
  PROVE  Advance(op) \in Op /\ Good(Advance(op))
<1> DEFINE a == Advance(op)
<1>1. op \in Op /\ Good(op) /\ op.kind = "pass"
  BY InvFacts
<1>2. Follows(a, op)
  BY <1>1, AdvanceFollows
<1> HIDE DEF a
<1>3. op.act.status \in {"STANDBY", "EXECUTION_SUCCESS"} => ~Gone /\ action.trigger
  BY <1>1 DEF Good, Protecting
<1>4. budget.limit = tags.limit /\ \A n \in Alerts : InOrder(alerts[n])
  BY <1>1 DEF Good, Protecting
<1>5. a.configured /\ config.policy
        => ~Gone /\ action.trigger /\ (tags.recovery = NoRecovery \/ a.done)
  BY <1>1, <1>2, <1>3 DEF Follows, Good, Protecting
<1>6. Shape(a) /\ Retiring(a) /\ Recovering(a)
  BY <1>1, <1>2 DEF Follows, Good, Shape, Retiring, Recovering, PassLabels
<1>7. Protecting(a)
  BY <1>2, <1>4, <1>5 DEF Follows, Protecting
<1>8. QED
  BY <1>2, <1>6, <1>7 DEF Follows, Good, a

LEMMA MadeFacts ==
  ASSUME Inv
  PROVE  /\ Made \in Op /\ Made.kind = op.kind /\ Made.pc = "record" /\ Made.act = NoAction
         /\ Made.state = op.state /\ Made.configured = op.configured /\ Made.done = op.done
<1>1. op \in Op
  BY InvFacts
<1>2. QED
  BY <1>1, NoActionTyped DEF Made, Op, Labels

LEMMA CreateActionOK == Inv /\ CreateAction => Inv'
<1> SUFFICES ASSUME Inv, CreateAction
             PROVE  Inv'
  OBVIOUS
<1>1. op.pc = "repair" /\ op.kind = "pass" /\ Good(op) /\ Typed(budget, action, alerts)
  BY InvFacts DEF CreateAction, Refused, Go, Write
<1>2. CASE Refused("repair")
  BY <1>1, <1>2, RefusedKeeps
<1>3. CASE tags.recovery = NoRecovery /\ Write("repair", budget, New, alerts, Made)
  <2>1. New \in Action
    BY DEF New, Action, Statuses, Inv, TypeOK, Config
  <2>2. New.status = "STANDBY" /\ New.trigger
    BY DEF New
  <2>3. Typed(budget, New, alerts)
    BY <1>1, <2>1 DEF Typed
  <2>4. UNCHANGED <<cal, tags, config>>
    BY <1>3 DEF Write, Rest
  <2>5. tags.health # "retired" /\ ~Reversing
    BY <1>1, <1>3 DEF Good, Retiring, Reversing, NoRecovery
  <2>6. action' = New => Marked'
    BY <2>4, <2>5 DEF Inv, Marked, Reversing
  <2>7. budget' = budget /\ action' = New /\ alerts' = alerts /\ op' = Made => Good(op)'
    <3>1. SUFFICES ASSUME budget' = budget, action' = New, alerts' = alerts, op' = Made
                   PROVE  Good(op)'
      OBVIOUS
    <3>2. Shape(op)' /\ Recovering(op)'
      BY <1>1, <3>1, MadeFacts DEF Shape, Recovering, PassLabels
    <3>3. Retiring(op)'
      BY <1>1, <2>4, <3>1, MadeFacts DEF Good, Retiring
    <3>4. Protecting(op)'
      BY <1>1, <1>3, <2>2, <2>4, <3>1, MadeFacts DEF Good, Protecting, Gone, InOrder
    <3>5. QED
      BY <3>2, <3>3, <3>4 DEF Good
  <2>8. QED
    BY <1>1, <1>3, <2>3, <2>6, <2>7, MadeFacts, WriteKeeps
<1>4. QED
  BY <1>2, <1>3 DEF CreateAction

\* The trigger and the recipient may change under a pass; the status and what was seen may not.
LEMMA RepairKeeps ==
  ASSUME Inv, op.pc = "repair", NEW a \in Action, NEW next \in Op,
         Write("repair", budget, a, alerts, next),
         a.status = action.status, a.seen = action.seen, action.trigger => a.trigger,
         Good(next), next.kind = "pass", next.pc \in {"record", "execute"}
  PROVE  Inv'
<1>1. op.kind = "pass" /\ Typed(budget, a, alerts)
  BY InvFacts DEF Typed
<1>2. UNCHANGED <<cal, tags, config>>
  BY DEF Write, Rest
<1>3. action' = a => Marked'
  BY <1>2 DEF Inv, Marked, Reversing
<1>4. budget' = budget /\ action' = a /\ alerts' = alerts /\ op' = next => Good(op)'
  BY <1>2 DEF Good, Shape, Retiring, Recovering, Protecting, Gone, InOrder, Reversing, Asked
<1>5. QED
  BY <1>1, <1>3, <1>4, WriteKeeps

LEMMA RepairTriggerOK == Inv /\ RepairTrigger => Inv'
<1> SUFFICES ASSUME Inv, RepairTrigger
             PROVE  Inv'
  OBVIOUS
<1> DEFINE a == [action EXCEPT !.trigger = TRUE, !.to = config.email]
<1>1. /\ op.pc = "repair" /\ op.kind = "pass" /\ Good(op) /\ action \in Action
      /\ config \in Config
  BY InvFacts DEF RepairTrigger, Refused, Go, Write, Typed, Inv, TypeOK
<1>2. CASE Refused("repair")
  BY <1>1, <1>2, RefusedKeeps
<1>3. CASE Write("repair", budget, a, alerts, Made)
  <2>1. a \in Action /\ a.status = action.status /\ a.seen = action.seen /\ a.trigger
    BY <1>1 DEF Action, Config
  <2> HIDE DEF a
  <2>2. Good(Made)
    BY <1>1, MadeFacts DEF Good, Shape, Retiring, Recovering, Protecting, PassLabels
  <2>3. QED
    BY <1>1, <1>3, <2>1, <2>2, MadeFacts, RepairKeeps
<1>4. QED
  BY <1>2, <1>3 DEF RepairTrigger

LEMMA RepairRecipientOK == Inv /\ RepairRecipient => Inv'
<1> SUFFICES ASSUME Inv, RepairRecipient
             PROVE  Inv'
  OBVIOUS
<1> DEFINE a == [action EXCEPT !.to = config.email]
           next == Advance(op)
<1>1. /\ op.pc = "repair" /\ op.kind = "pass" /\ Good(op) /\ action \in Action /\ op \in Op
      /\ config \in Config /\ op.act.status # "NONE" /\ op.act.trigger
  BY InvFacts DEF RepairRecipient, Refused, Go, Write, Typed, Inv, TypeOK
<1>2. CASE Refused("repair")
  BY <1>1, <1>2, RefusedKeeps
<1>3. CASE Write("repair", budget, a, alerts, next)
  <2>1. a \in Action /\ a.status = action.status /\ a.seen = action.seen
        /\ a.trigger = action.trigger
    BY <1>1 DEF Action, Config
  <2>2. next \in Op /\ Good(next)
    BY <1>1, AdvanceGood
  <2>3. next.kind = "pass" /\ next.pc \in {"record", "execute"}
    BY <1>1, AdvanceFollows DEF Follows
  <2> HIDE DEF a, next
  <2>4. QED
    BY <1>1, <1>3, <2>1, <2>2, <2>3, RepairKeeps
<1>4. QED
  BY <1>2, <1>3 DEF RepairRecipient

LEMMA NothingToRepairOK == Inv /\ NothingToRepair => Inv'
<1> SUFFICES ASSUME Inv, NothingToRepair
             PROVE  Inv'
  OBVIOUS
<1>1. op.pc = "repair" /\ op.act.status # "NONE" /\ op.act.trigger
  BY DEF NothingToRepair, Go
<1>2. Advance(op) \in Op /\ Good(Advance(op))
  BY <1>1, AdvanceGood
<1>3. QED
  BY <1>2, GoKeeps DEF NothingToRepair

LEMMA ExecuteOK == Inv /\ Execute => Inv'
<1> SUFFICES ASSUME Inv, Execute
             PROVE  Inv'
  OBVIOUS
<1> DEFINE a == [action EXCEPT !.status = Started]
           next == [op EXCEPT !.pc = "record", !.todo = "none"]
<1>1. /\ op.pc = "execute" /\ op.kind = "pass" /\ Good(op) /\ op \in Op
      /\ Typed(budget, action, alerts)
  BY InvFacts DEF Execute, Refused, Go, Write
<1>2. CASE Refused("execute")
  BY <1>1, <1>2, RefusedKeeps
<1>3. CASE Accepts /\ Write("execute", budget, a, alerts, next)
  <2>1. /\ a \in Action /\ a.status = Started /\ a.seen = action.seen
        /\ a.trigger = action.trigger
    BY <1>1 DEF Typed, Action, Statuses, Started
  <2>2. next \in Op /\ next.kind = op.kind /\ next.pc = "record" /\ next.state = op.state
        /\ next.configured = op.configured /\ next.done = op.done /\ next.act = op.act
    BY <1>1 DEF Op, Labels
  <2>3. Typed(budget, a, alerts)
    BY <1>1, <2>1 DEF Typed
  <2>4. UNCHANGED <<cal, tags, config>>
    BY <1>3 DEF Write, Rest
  <2>5. Reversing => action.seen /\ Started = "REVERSE_IN_PROGRESS"
    BY <1>1, <1>3 DEF Accepts, Started, Inv, Good, Recovering, Marked
  <2>6. tags.health # "retired"
    BY <1>1 DEF Good, Retiring
  <2> HIDE DEF a, next
  <2>7. action' = a => Marked'
    BY <2>1, <2>4, <2>5, <2>6 DEF Inv, Marked, Reversing, Undoing
  <2>8. budget' = budget /\ action' = a /\ alerts' = alerts /\ op' = next => Good(op)'
    <3>1. SUFFICES ASSUME budget' = budget, action' = a, alerts' = alerts, op' = next
                   PROVE  Good(op)'
      OBVIOUS
    <3>2. Shape(op)' /\ Recovering(op)'
      BY <1>1, <3>1, <2>2 DEF Shape, Recovering, PassLabels
    <3>3. Retiring(op)'
      BY <1>1, <2>2, <2>4, <3>1 DEF Good, Retiring
    <3>4. Protecting(op)'
      BY <1>1, <2>1, <2>2, <2>4, <3>1 DEF Good, Protecting, Gone, InOrder, Started
    <3>5. QED
      BY <3>2, <3>3, <3>4 DEF Good
  <2>9. QED
    BY <1>1, <1>3, <2>2, <2>3, <2>7, <2>8, WriteKeeps
<1>4. QED
  BY <1>2, <1>3 DEF Execute

-----------------------------------------------------------------------------
(* What a pass writes down.                                                *)

LEMMA NewTagsFacts ==
  ASSUME tags \in Tags, config \in Config, NEW o \in Op
  PROVE  /\ NewTags(o) \in Tags
         /\ NewTags(o).limit = tags.limit
         /\ NewTags(o).health = IF o.err THEN "error" ELSE o.state
         /\ \/ NewTags(o).recovery = NoRecovery
            \/ NewTags(o).recovery = tags.recovery
            \/ /\ NewTags(o).recovery.phase = "reset"
               /\ NewTags(o).recovery.month = tags.recovery.month
         /\ o.kind # "retire" /\ ~o.err /\ (o.done \/ tags.recovery = NoRecovery)
              => NewTags(o).recovery = NoRecovery
<1> DEFINE health == IF o.err THEN "error" ELSE o.state
           changed == health # tags.health
           policy == tags.policy \/ config.policy
           reset == [tags.recovery EXCEPT !.phase = "reset"]
           r == IF health = "retired" \/ (o.kind # "retire" /\ ~o.err /\ o.done) THEN NoRecovery
                ELSE IF tags.recovery # NoRecovery /\ ~o.err /\ o.phase = "reset"
                     THEN reset ELSE tags.recovery
           h == IF changed THEN health ELSE tags.health
           age == IF changed THEN 0 ELSE tags.age
<1>1. NewTags(o) = [tags EXCEPT !.policy = policy, !.health = h, !.age = age, !.recovery = r]
  BY DEF NewTags
<1>2. policy \in BOOLEAN
  OBVIOUS
<1>3. h \in Health /\ h = health
  BY DEF Op, Health, Tags
<1>4. age \in 0 .. SettleAlert
  BY BudgetAssumption DEF Tags
<1>5. reset \in Recovery /\ reset.phase = "reset" /\ reset.month = tags.recovery.month
  BY DEF Tags, Recovery
<1>6. r \in Recovery
  BY <1>5, NoRecoveryTyped DEF Tags
<1>7. \/ r = NoRecovery \/ r = tags.recovery \/ r = reset
  OBVIOUS
<1>8. o.kind # "retire" /\ ~o.err /\ (o.done \/ tags.recovery = NoRecovery) => r = NoRecovery
  OBVIOUS
<1> HIDE DEF policy, h, age, r, reset
<1>9. NewTags(o) \in Tags
  BY <1>1, <1>2, <1>3, <1>4, <1>6 DEF Tags
<1>10. /\ NewTags(o).limit = tags.limit /\ NewTags(o).health = h /\ NewTags(o).recovery = r
  BY <1>1 DEF Tags
<1>11. QED
  BY <1>3, <1>5, <1>7, <1>8, <1>9, <1>10

LEMMA RecordOK == Inv /\ Record => Inv'
<1> SUFFICES ASSUME Inv, Record
             PROVE  Inv'
  OBVIOUS
<1>1. /\ op \in Op /\ Good(op) /\ CountOK /\ tags \in Tags /\ config \in Config
      /\ cal.month \in 1 .. Months
  BY InvFacts DEF Inv, TypeOK
<1>2. /\ op' = Idle /\ tags' \in {tags, NewTags(op)} /\ AwsSame /\ UNCHANGED <<cal, config>>
      /\ outcome' \in {"settled", "progress", "error"} /\ (UNCHANGED count \/ Faulty)
  BY DEF Record, Finish, Ending
<1>3. CountOK'
  BY <1>1, <1>2, FaultyTyped DEF CountOK
<1>4. tags' \in Tags
  BY <1>1, <1>2, NewTagsFacts
<1>5. TypeOK'
  BY <1>2, <1>3, <1>4, IdleTyped DEF Inv, TypeOK, AwsSame, CountOK
<1>6. Marked'
  <2>1. CASE tags' = tags
    BY <1>2, <2>1 DEF Inv, Marked, Reversing, AwsSame
  <2>2. CASE tags' = NewTags(op)
    <3>1. tags'.health = "retired" => op.state = "retired"
      BY <1>1, <2>2, NewTagsFacts
    <3>2. op.state = "retired" => action.status = "NONE" /\ cal.stage = "closed"
      BY <1>1 DEF Good, Retiring
    <3>3. \/ tags'.recovery = NoRecovery \/ tags'.recovery = tags.recovery
          \/ tags'.recovery.phase = "reset" /\ tags'.recovery.month = tags.recovery.month
      BY <1>1, <2>2, NewTagsFacts
    <3>4. tags'.recovery.month <= cal.month
      <4>1. tags.recovery.month <= cal.month /\ NoRecovery.month <= cal.month
        BY <1>1, BudgetAssumption DEF Inv, Marked, NoRecovery
      <4>2. QED
        BY <3>3, <4>1
    <3>5. Reversing' => Reversing
      BY <1>2, <3>3 DEF Reversing, NoRecovery
    <3>6. QED
      BY <1>2, <3>1, <3>2, <3>4, <3>5 DEF Inv, Marked, AwsSame
  <2>3. QED
    BY <1>2, <2>1, <2>2
<1>7. QED
  BY <1>2, <1>5, <1>6, IdleKeeps

-----------------------------------------------------------------------------
(* SetBudget.                                                              *)

LEMMA SetBudgetOK ==
  ASSUME Inv, NEW amount \in Limits, SetBudget(amount)
  PROVE  Inv'
<1> DEFINE o == [Idle EXCEPT !.kind = "set", !.amount = amount]
           l == IF config.policy THEN "inspect" ELSE "approve"
<1>1. tags.health # "retired" /\ cal.month \in 1 .. Months
  BY DEF Inv, Marked, SetBudget, TypeOK
<1>2. CountOK'
  <2>1. count \in [faults : 0 .. MaxFaults, changes : 0 .. MaxChanges]
        /\ count' = [count EXCEPT !.changes = @ + 1] /\ count.changes < MaxChanges
    BY InvFacts DEF SetBudget, CountOK
  <2>2. count.changes + 1 \in 0 .. MaxChanges
    BY <2>1, BudgetAssumption
  <2>3. QED
    BY <2>1, <2>2 DEF CountOK
<1>3. o \in Op /\ o.kind = "set" /\ o.state = "setup-pending" /\ o.act = NoAction
      /\ l \in Labels /\ l \in SetLabels \ {"save"} /\ o.month = 0
  BY IdleTyped DEF Op, Idle, Labels, SetLabels
<1>4. \/ op' = Idle
      \/ op' = Reconcile
      \/ op' = At(o, l) /\ tags.recovery = NoRecovery
  BY DEF SetBudget
<1> HIDE DEF o
<1>5. At(o, l) \in Op
  BY <1>3, AtTyped
<1>6. tags.recovery = NoRecovery => Good(At(o, l))
  BY <1>1, <1>3, AtTyped DEF Good, Shape, Retiring, Recovering, Protecting, SetLabels, NoAction
<1>7. op' \in Op /\ Good(op')
  BY <1>1, <1>4, <1>5, <1>6, IdleTyped, IdleGood, ReconcileFacts, ReconcileGood
<1>8. QED
  BY <1>2, <1>7, Keeps DEF SetBudget, Rest

LEMMA InspectOK == Inv /\ Inspect => Inv'
<1> SUFFICES ASSUME Inv, Inspect
             PROVE  Inv'
  OBVIOUS
<1> DEFINE next == [op EXCEPT !.pc = "see", !.spend = budget.shown]
<1>1. op.pc = "inspect" /\ op.kind = "set" /\ op \in Op /\ Good(op) /\ CountOK
      /\ Typed(budget, action, alerts)
  BY InvFacts DEF Inspect, Go, Return, SetLabels
<1>2. CASE Go("inspect", next)
  <2>1. next \in Op /\ next.kind = "set" /\ next.pc = "see" /\ next.state = op.state
    BY <1>1 DEF Op, Labels, Typed
  <2> HIDE DEF next
  <2>2. Good(next)
    BY <1>1, <2>1 DEF Good, Shape, Retiring, Recovering, Protecting, SetLabels
  <2>3. QED
    BY <1>2, <2>1, <2>2, GoKeeps
<1>3. CASE Return("inspect") /\ (Faulty \/ UNCHANGED count)
  BY <1>1, <1>3, FaultyTyped, ReturnKeeps DEF CountOK
<1>4. QED
  BY <1>2, <1>3 DEF Inspect

LEMMA SeeOK == Inv /\ See => Inv'
<1> SUFFICES ASSUME Inv, See
             PROVE  Inv'
  OBVIOUS
<1> DEFINE next == [op EXCEPT !.pc = "approve", !.act = action, !.month = cal.month]
<1>1. op.pc = "see" /\ op.kind = "set" /\ op \in Op /\ Good(op) /\ CountOK
      /\ Typed(budget, action, alerts) /\ cal.month \in 0 .. Months
  BY InvFacts, BudgetAssumption DEF See, Go, Return, SetLabels, Inv, TypeOK
<1>2. CASE Go("see", next)
  <2>1. next \in Op /\ next.kind = "set" /\ next.pc = "approve" /\ next.state = op.state
        /\ next.act = action /\ next.month = cal.month
    BY <1>1 DEF Op, Labels, Typed
  <2> HIDE DEF next
  <2>2. Good(next)
    BY <1>1, <2>1 DEF Good, Shape, Retiring, Recovering, Protecting, SetLabels
  <2>3. QED
    BY <1>2, <2>1, <2>2, GoKeeps
<1>3. CASE Return("see") /\ (Faulty \/ UNCHANGED count)
  BY <1>1, <1>3, FaultyTyped, ReturnKeeps DEF CountOK
<1>4. QED
  BY <1>2, <1>3 DEF See

\* What is stamped was looked for, in an execution that stands unless the month turned.
LEMMA ApproveOK == Inv /\ Approve => Inv'
<1> SUFFICES ASSUME Inv, Approve
             PROVE  Inv'
  OBVIOUS
<1> DEFINE ap == Approval
           next == [Idle EXCEPT !.pc = "save", !.kind = "set", !.amount = op.amount,
                                !.recovery = ap]
<1>1. /\ op.pc = "approve" /\ op.kind = "set" /\ op \in Op /\ Good(op)
      /\ cal.month \in 1 .. Months /\ op.month \in 0 .. Months
  BY InvFacts DEF Approve, Go, SetLabels, Inv, TypeOK, Op
<1>2. op.month <= cal.month
  BY <1>1 DEF Good, Recovering
<1>3. /\ ap \in Recovery /\ ap.month <= cal.month /\ ap.look <= cal.month
      /\ ap.look = cal.month
           => op.act.status = "EXECUTION_SUCCESS" /\ op.month = cal.month
  <2>1. CASE ap = NoRecovery
    BY <1>1, <2>1, NoRecoveryTyped, BudgetAssumption DEF NoRecovery
  <2>2. CASE ap # NoRecovery
    <3>1. /\ ap = [phase |-> "reverse", month |-> cal.month, look |-> op.month]
          /\ op.act.status = "EXECUTION_SUCCESS"
      BY <2>2 DEF Approval
    <3>2. QED
      BY <1>1, <1>2, <3>1, BudgetAssumption DEF Recovery
  <2>3. QED
    BY <2>1, <2>2
<1>4. ap.look = cal.month => action.status = "EXECUTION_SUCCESS"
  BY <1>1, <1>3 DEF Good, Recovering
<1>5. Go("approve", next)
  BY DEF Approve
<1> HIDE DEF ap
<1>6. next \in Op
  <2>1. op.amount \in Limits
    BY <1>1 DEF Op
  <2>2. QED
    BY <1>3, <2>1, IdleTyped DEF Op, Labels
<1>7. /\ next.pc = "save" /\ next.kind = "set" /\ next.recovery = ap
      /\ next.state = "setup-pending" /\ next.configured = FALSE
  BY DEF Idle
<1> HIDE DEF next
<1>8. tags.recovery = NoRecovery /\ tags.health # "retired"
  BY <1>1 DEF Good, Retiring, Recovering
<1>9. Good(next)
  BY <1>3, <1>4, <1>7, <1>8 DEF Good, Shape, Retiring, Recovering, Protecting, SetLabels
<1>10. QED
  BY <1>5, <1>6, <1>9, GoKeeps

\* What was stamped is written, and from then on stands for the execution that was seen.
LEMMA SaveOK == Inv /\ Save => Inv'
<1> SUFFICES ASSUME Inv, Save
             PROVE  Inv'
  OBVIOUS
<1> DEFINE t == [tags EXCEPT !.limit = op.amount, !.recovery = op.recovery]
           g == op.recovery.look = cal.month /\ tags' = t
<1>1. /\ op.pc = "save" /\ op.kind = "set" /\ op \in Op /\ Good(op) /\ CountOK
      /\ tags \in Tags /\ action \in Action /\ cal.month \in 1 .. Months
  BY InvFacts DEF Save, SetLabels, Typed, Inv, TypeOK
<1>2. /\ op.recovery \in Recovery /\ op.recovery.month <= cal.month
      /\ op.recovery.look = cal.month => action.status = "EXECUTION_SUCCESS"
  BY <1>1 DEF Op, Good, Recovering
<1>3. t \in Tags /\ t.health = tags.health /\ t.recovery = op.recovery
  BY <1>1, <1>2 DEF Tags, Op
<1>4. /\ action' = [action EXCEPT !.seen = g] /\ tags' \in {tags, t}
      /\ op' \in {Reconcile, Idle} /\ (UNCHANGED count \/ Faulty)
      /\ UNCHANGED <<cal, budget, attached, alerts, config, outcome>>
  BY DEF Save
<1>5. g \in BOOLEAN
  OBVIOUS
<1>6. tags' = t => g = (op.recovery.look = cal.month)
  OBVIOUS
<1> HIDE DEF g
<1>7. /\ action' \in Action /\ action'.status = action.status /\ action'.seen = g
  BY <1>1, <1>4, <1>5 DEF Action
<1>8. CountOK'
  BY <1>1, <1>4, FaultyTyped DEF CountOK
<1> HIDE DEF t
<1>9. Reconcile \in Op
  BY <1>1, ReconcileFacts
<1>10. TypeOK'
  BY <1>1, <1>3, <1>4, <1>7, <1>8, <1>9, IdleTyped DEF Inv, TypeOK, CountOK
<1>11. tags'.health = tags.health /\ tags.health # "retired"
  BY <1>1, <1>3, <1>4 DEF Good, Retiring
<1>12. Marked'
  <2>1. CASE tags' = tags
    <3>1. ~Reversing'
      BY <1>1, <2>1 DEF Good, Recovering, Reversing, NoRecovery
    <3>2. QED
      BY <1>4, <1>11, <2>1, <3>1 DEF Inv, Marked
  <2>2. CASE tags' = t
    <3>1. Reversing' => op.recovery.look = cal.month
      BY <1>3, <1>4, <2>2 DEF Reversing
    <3>2. Reversing' => action'.seen /\ action'.status \in Undoing
      BY <1>2, <1>6, <1>7, <2>2, <3>1 DEF Undoing
    <3>3. tags'.recovery.month <= cal'.month
      BY <1>2, <1>3, <1>4, <2>2
    <3>4. QED
      BY <1>11, <3>2, <3>3 DEF Marked
  <2>3. QED
    BY <1>4, <2>1, <2>2
<1>13. CASE op' = Idle
  BY <1>10, <1>12, <1>13, IdleKeeps
<1>14. CASE op' = Reconcile
  <2>1. Good(op)'
    BY <1>1, <1>11, <1>14, ReconcileFacts
    DEF Good, Shape, Retiring, Recovering, Protecting, PassLabels
  <2>2. QED
    BY <1>10, <1>12, <2>1 DEF Inv
<1>15. QED
  BY <1>4, <1>13, <1>14

-----------------------------------------------------------------------------
(* Retirement.                                                             *)

LEMMA StartRetireOK == Inv /\ StartRetire => Inv'
<1> SUFFICES ASSUME Inv, StartRetire
             PROVE  Inv'
  OBVIOUS
<1> DEFINE o == [Idle EXCEPT !.kind = "retire", !.state = "retiring"]
<1>1. o \in Op /\ o.kind = "retire" /\ o.state = "retiring" /\ "check" \in Labels
      /\ o.configured = FALSE
  BY IdleTyped DEF Op, Idle, Labels, Health
<1>2. cal.stage = "closed" /\ op' \in {At(o, "check"), Failed(o)}
  BY DEF StartRetire
<1> HIDE DEF o
<1>3. At(o, "check") \in Op /\ Failed(o) \in Op
  BY <1>1, AtTyped, FailedTyped
<1>4. Good(At(o, "check"))
  BY <1>1, <1>2, AtTyped DEF Good, Shape, Retiring, Recovering, Protecting, RetireLabels
<1>5. Failed(o).kind = o.kind /\ Failed(o).pc = "record" /\ Failed(o).state = "setup-pending"
  BY DEF Failed, Idle
<1>6. Good(Failed(o))
  BY <1>1, <1>2, <1>5 DEF Good, Shape, Retiring, Recovering, Protecting, RetireLabels
<1>7. QED
  BY <1>2, <1>3, <1>4, <1>6, InvFacts, Keeps DEF StartRetire, Rest, CountOK

LEMMA ClosedOK ==
  ASSUME Inv, NEW l \in {"check", "recheck"}, NEW next \in {"retireFind", "delete"},
         Closed(l, next)
  PROVE  Inv'
<1>1. op.kind = "retire" /\ op \in Op /\ Good(op) /\ next \in Labels
  BY InvFacts DEF Closed, Read, Refused, Go, Labels
<1>2. CASE Refused(l)
  BY <1>1, <1>2, RefusedKeeps
<1>3. CASE Read(l, At(op, next))
  <2>1. At(op, next) \in Op
    BY <1>1, AtTyped
  <2>2. Good(At(op, next))
    BY <1>1, AtTyped DEF Good, Shape, Retiring, Recovering, Protecting, RetireLabels
  <2>3. QED
    BY <1>1, <1>3, <2>1, <2>2, ReadKeeps
<1>4. QED
  BY <1>2, <1>3 DEF Closed

LEMMA RetireFindOK == Inv /\ RetireFind => Inv'
<1> SUFFICES ASSUME Inv, RetireFind
             PROVE  Inv'
  OBVIOUS
<1> DEFINE next == IF action.status = "NONE" THEN Retired(op) ELSE At(op, "recheck")
<1>1. op.kind = "retire" /\ op \in Op /\ Good(op) /\ "recheck" \in Labels
  BY InvFacts DEF RetireFind, Read, Labels
<1>2. Retired(op) \in Op /\ Retired(op).kind = "retire" /\ Retired(op).pc = "record"
  BY <1>1 DEF Retired, Op, Labels, Health
<1>3. At(op, "recheck") \in Op
  BY <1>1, AtTyped
<1>4. action.status = "NONE" => Good(Retired(op))
  BY <1>1, <1>2 DEF Good, Shape, Retiring, Recovering, Protecting, RetireLabels
<1>5. Good(At(op, "recheck"))
  BY <1>1, AtTyped DEF Good, Shape, Retiring, Recovering, Protecting, RetireLabels
<1>6. next \in Op /\ Good(next) /\ Read("retireFind", next)
  BY <1>2, <1>3, <1>4, <1>5 DEF RetireFind
<1> HIDE DEF next
<1>7. QED
  BY <1>1, <1>6, ReadKeeps

LEMMA DeleteOK == Inv /\ Delete => Inv'
<1> SUFFICES ASSUME Inv, Delete
             PROVE  Inv'
  OBVIOUS
<1> DEFINE a == IF action.status = "NONE" THEN action ELSE [action EXCEPT !.status = "DELETING"]
           next == At(op, "record")
<1>1. op.pc = "delete" /\ op.kind = "retire" /\ op \in Op /\ Good(op) /\ "record" \in Labels
      /\ Typed(budget, action, alerts)
  BY InvFacts DEF Delete, Refused, Go, Write, Labels
<1>2. CASE Refused("delete")
  BY <1>1, <1>2, RefusedKeeps
<1>3. CASE Write("delete", budget, a, alerts, next)
  <2>1. /\ a \in Action /\ a.seen = action.seen
        /\ action.status = "NONE" => a.status = "NONE"
        /\ action.status # "NONE" => a.status = "DELETING"
    BY <1>1 DEF Typed, Action, Statuses
  <2>2. Typed(budget, a, alerts)
    BY <1>1, <2>1 DEF Typed
  <2>3. next \in Op /\ next.kind = "retire" /\ next.pc = "record" /\ next.state = op.state
    BY <1>1, AtTyped
  <2>4. UNCHANGED <<cal, tags, config>>
    BY <1>3 DEF Write, Rest
  <2> HIDE DEF a, next
  <2>5. action' = a => Marked'
    BY <2>1, <2>4 DEF Inv, Marked, Reversing, Undoing
  <2>6. budget' = budget /\ action' = a /\ alerts' = alerts /\ op' = next => Good(op)'
    BY <1>1, <2>1, <2>3, <2>4 DEF Good, Shape, Retiring, Recovering, Protecting, RetireLabels
  <2>7. QED
    BY <1>1, <1>3, <2>2, <2>3, <2>5, <2>6, WriteKeeps
<1>4. QED
  BY <1>2, <1>3 DEF Delete

LEMMA RetireOK == Inv /\ Retire => Inv'
BY StartRetireOK, ClosedOK, RetireFindOK, DeleteOK DEF Retire

-----------------------------------------------------------------------------
(* AWS, the operator and the clock.                                        *)

\* AWS moves its action, and nothing else that an operation has to rely on.
LEMMA AwsKeeps ==
  ASSUME Inv, UNCHANGED <<tags, config, op, outcome, alerts>>, UNCHANGED cal,
         budget'.limit = budget.limit, Typed(budget', action', alerts'), attached' \in BOOLEAN,
         CountOK',
         action'.trigger = action.trigger \/ Gone,
         action.status = "NONE" => action' = action,
         Gone <=> Gone',
         op.kind = "set" /\ action.status = "EXECUTION_SUCCESS" => action'.status = "EXECUTION_SUCCESS",
         Reversing => action'.status = "NONE" \/ (action'.seen /\ action'.status \in Undoing)
  PROVE  Inv'
<1>1. TypeOK'
  BY DEF Inv, TypeOK, Typed, CountOK
<1>2. Shape(op)' /\ Retiring(op)' /\ Recovering(op)'
  <2>1. op.pc \in {"approve", "save"} => op.kind = "set"
    BY InvFacts DEF SetLabels
  <2>2. QED
    BY <2>1 DEF Inv, Good, Shape, Retiring, Recovering, Reversing, Asked
<1>3. Protecting(op)'
  BY DEF Inv, Good, Protecting, InOrder, Gone
<1>4. Marked'
  BY DEF Inv, Marked, Reversing
<1>5. QED
  BY <1>1, <1>2, <1>3, <1>4 DEF Inv, Good

LEMMA CalculateOK == Inv /\ Calculate => Inv'
<1> SUFFICES ASSUME Inv, Calculate
             PROVE  Inv'
  OBVIOUS
<1>1. PICK n \in (budget.shown + 1) .. MaxSpend : budget' = [budget EXCEPT !.shown = n]
  BY DEF Calculate
<1>2. budget'.limit = budget.limit /\ budget' \in [limit : Limits \cup {0}, shown : 0 .. MaxSpend]
  BY <1>1, BudgetAssumption DEF Inv, TypeOK
<1>3. UNCHANGED <<cal, action, attached, alerts, count, tags, config, op, outcome>>
  BY DEF Calculate, Ours
<1>4. Typed(budget', action', alerts') /\ attached' \in BOOLEAN /\ CountOK'
  BY <1>2, <1>3 DEF Inv, TypeOK, Typed, CountOK
<1>5. Gone <=> Gone'
  BY <1>3 DEF Gone
<1>6. Reversing => action'.status = "NONE" \/ (action'.seen /\ action'.status \in Undoing)
  BY <1>3 DEF Inv, Marked
<1>7. QED
  BY <1>2, <1>3, <1>4, <1>5, <1>6, AwsKeeps

LEMMA AwsExecutesOK == Inv /\ AwsExecutes => Inv'
<1> SUFFICES ASSUME Inv, AwsExecutes
             PROVE  Inv'
  OBVIOUS
<1>1. /\ action.status = "STANDBY" /\ action \in Action
      /\ action' = [action EXCEPT !.status = "EXECUTION_IN_PROGRESS", !.seen = FALSE]
      /\ UNCHANGED <<cal, budget, attached, alerts, count, tags, config, op, outcome>>
  BY DEF AwsExecutes, Ours, Inv, TypeOK
<1>2. action' \in Action /\ action'.status = "EXECUTION_IN_PROGRESS"
      /\ action'.trigger = action.trigger
  BY <1>1 DEF Action, Statuses
<1>3. Typed(budget', action', alerts') /\ attached' \in BOOLEAN /\ CountOK'
  BY <1>1, <1>2 DEF Inv, TypeOK, Typed, CountOK
<1>4. (Gone <=> Gone') /\ ~Reversing
  BY <1>1, <1>2 DEF Gone, Inv, Marked, Undoing
<1>5. QED
  BY <1>1, <1>2, <1>3, <1>4, AwsKeeps

LEMMA OutcomeOK ==
  ASSUME Inv, NEW from, NEW ok \in Statuses, NEW bad \in Statuses, NEW att \in BOOLEAN,
         Outcome(from, ok, bad, att),
         from \notin {"NONE", "DELETING", "EXECUTION_SUCCESS"},
         {ok, bad} \cap {"NONE", "DELETING"} = {},
         from \in Undoing => {ok, bad} \subseteq Undoing
  PROVE  Inv'
<1>1. PICK st \in {ok, bad} : action' = [action EXCEPT !.status = st]
  BY DEF Outcome
<1>2. /\ action.status = from /\ action \in Action
      /\ attached' \in BOOLEAN /\ CountOK /\ (UNCHANGED count \/ Faulty)
      /\ UNCHANGED <<cal, budget, alerts, tags, config, op, outcome>>
  BY DEF Outcome, Ours, Inv, TypeOK, CountOK
<1>3. CountOK'
  BY <1>2, FaultyTyped DEF CountOK
<1>4. /\ action' \in Action /\ action'.status = st /\ action'.trigger = action.trigger
      /\ action'.seen = action.seen
  BY <1>1, <1>2 DEF Action
<1>5. Typed(budget', action', alerts')
  BY <1>2, <1>4 DEF Inv, TypeOK, Typed
<1>6. Gone <=> Gone'
  BY <1>2, <1>4 DEF Gone
<1>7. Reversing => action'.status = "NONE" \/ (action'.seen /\ action'.status \in Undoing)
  BY <1>2, <1>4 DEF Inv, Marked
<1>8. QED
  BY <1>2, <1>3, <1>4, <1>5, <1>6, <1>7, AwsKeeps

LEMMA AwsFinishesOK == Inv /\ AwsFinishes => Inv'
<1> SUFFICES ASSUME Inv, AwsFinishes
             PROVE  Inv'
  OBVIOUS
<1>1. CASE Outcome("EXECUTION_IN_PROGRESS", "EXECUTION_SUCCESS", "EXECUTION_FAILURE", TRUE)
  BY <1>1, OutcomeOK DEF Statuses, Undoing
<1>2. CASE Outcome("REVERSE_IN_PROGRESS", "REVERSE_SUCCESS", "REVERSE_FAILURE", FALSE)
  BY <1>2, OutcomeOK DEF Statuses, Undoing
<1>3. CASE Outcome("RESET_IN_PROGRESS", "STANDBY", "RESET_FAILURE", attached)
  <2>1. attached \in BOOLEAN
    BY DEF Inv, TypeOK
  <2>2. QED
    BY <1>3, <2>1, OutcomeOK DEF Statuses, Undoing
<1>4. CASE /\ action.status = "DELETING" /\ action' = NoAction
           /\ UNCHANGED <<cal, budget, attached, alerts, count>> /\ Ours
  <2>1. UNCHANGED <<cal, budget, attached, alerts, count, tags, config, op, outcome>>
    BY <1>4 DEF Ours
  <2>2. action' \in Action /\ action'.status = "NONE"
    BY <1>4, NoActionTyped DEF NoAction
  <2>3. Typed(budget', action', alerts') /\ attached' \in BOOLEAN /\ CountOK'
    BY <2>1, <2>2 DEF Inv, TypeOK, Typed, CountOK
  <2>4. Gone /\ (Gone <=> Gone')
    BY <1>4, <2>2 DEF Gone
  <2>5. QED
    BY <1>4, <2>1, <2>2, <2>3, <2>4, AwsKeeps
<1>5. QED
  BY <1>1, <1>2, <1>3, <1>4 DEF AwsFinishes

\* No approval that was stamped or looked for before is one of the new month.
LEMMA NewMonthOK == Inv /\ NewMonth => Inv'
<1> SUFFICES ASSUME Inv, NewMonth
             PROVE  Inv'
  OBVIOUS
<1>1. /\ cal.month \in 1 .. Months /\ cal.month < Months /\ op' = op /\ Good(op) /\ op \in Op
      /\ cal' = [cal EXCEPT !.month = @ + 1] /\ budget' = [budget EXCEPT !.shown = 0]
      /\ attached' = FALSE /\ UNCHANGED <<alerts, count, tags, config, outcome>>
      /\ cal \in [month : 1 .. Months, stage : Stages] /\ action \in Action
      /\ budget \in [limit : Limits \cup {0}, shown : 0 .. MaxSpend] /\ tags \in Tags
      /\ action' = IF action.status = "NONE" THEN action ELSE [action EXCEPT !.status = "STANDBY"]
      /\ action.status # "DELETING"
  BY DEF NewMonth, Ours, Moving, Inv, TypeOK
<1>2. cal.month + 1 \in 1 .. Months
  BY <1>1, BudgetAssumption
<1>3. /\ cal' \in [month : 1 .. Months, stage : Stages] /\ cal'.month = cal.month + 1
      /\ cal'.stage = cal.stage
  BY <1>1, <1>2
<1>4. /\ action' \in Action /\ (action.status = "NONE" => action'.status = "NONE")
      /\ (action.status # "NONE" => action'.status = "STANDBY")
      /\ action'.trigger = action.trigger
  BY <1>1 DEF Action, Statuses
<1>13. Gone <=> Gone'
  BY <1>1, <1>4 DEF Gone
<1>5. budget' \in [limit : Limits \cup {0}, shown : 0 .. MaxSpend] /\ budget'.limit = budget.limit
  BY <1>1, BudgetAssumption
<1>6. TypeOK'
  BY <1>1, <1>3, <1>4, <1>5 DEF Inv, TypeOK
<1>7. tags.recovery.month \in 0 .. Months /\ tags.recovery.month <= cal.month
  BY <1>1 DEF Tags, Recovery, Inv, Marked
<1>8. ~Reversing' /\ tags'.recovery.month <= cal'.month
  BY <1>1, <1>3, <1>7, BudgetAssumption DEF Reversing
<1>9. Marked'
  BY <1>1, <1>3, <1>4, <1>8 DEF Inv, Marked
<1>10. Recovering(op)'
  <2>1. op.month \in 0 .. Months /\ op.recovery.month \in 0 .. Months /\ op.recovery.look \in 0 .. Months
    BY <1>1 DEF Op, Recovery
  <2>2. op.pc = "approve" => op.month <= cal'.month /\ op.month # cal'.month
    BY <1>1, <1>3, <2>1, BudgetAssumption DEF Good, Recovering
  <2>3. op.pc = "save" => /\ op.recovery.month <= cal'.month /\ op.recovery.look <= cal'.month
                          /\ op.recovery.look # cal'.month
    BY <1>1, <1>3, <2>1, BudgetAssumption DEF Good, Recovering
  <2>4. QED
    BY <1>1, <1>8, <2>2, <2>3 DEF Good, Recovering, Asked
<1>11. Shape(op)' /\ Retiring(op)' /\ Protecting(op)'
  BY <1>1, <1>3, <1>4, <1>5, <1>13 DEF Good, Shape, Retiring, Protecting, InOrder
<1>12. QED
  BY <1>1, <1>6, <1>9, <1>10, <1>11 DEF Inv, Good

LEMMA AccountMovesOK == Inv /\ AccountMoves => Inv'
<1> SUFFICES ASSUME Inv, AccountMoves
             PROVE  Inv'
  OBVIOUS
<1>1. PICK st \in Stages : cal' = [cal EXCEPT !.stage = st]
  BY DEF AccountMoves
<1>2. /\ UNCHANGED <<budget, action, attached, alerts, tags, config, op, outcome, count>>
      /\ cal \in [month : 1 .. Months, stage : Stages] /\ cal.stage # "closed"
  BY DEF AccountMoves, AwsSame, Ours, Inv, TypeOK
<1>3. cal' \in [month : 1 .. Months, stage : Stages] /\ cal'.month = cal.month
  BY <1>1, <1>2
<1>4. TypeOK'
  BY <1>2, <1>3 DEF Inv, TypeOK
<1>5. Good(op)'
  BY <1>2, <1>3 DEF Inv, Good, Shape, Retiring, Recovering, Protecting, Reversing, Asked, Gone,
                    InOrder
<1>6. Marked'
  BY <1>2, <1>3 DEF Inv, Marked, Reversing
<1>7. QED
  BY <1>4, <1>5, <1>6 DEF Inv

LEMMA DriftOK == Inv /\ Drift => Inv'
<1> SUFFICES ASSUME Inv, Drift
             PROVE  Inv'
  OBVIOUS
<1>1. /\ op = Idle /\ Faulty /\ UNCHANGED <<cal, attached, tags, config, op, outcome>>
      /\ TypeOK /\ CountOK
  BY DEF Drift, Ours, Inv, TypeOK, CountOK
<1>2. CountOK'
  BY <1>1, FaultyTyped
<1>3. budget' \in [limit : Limits \cup {0}, shown : 0 .. MaxSpend]
  <2>1. ASSUME NEW l \in Limits \cup {0}
        PROVE  [budget EXCEPT !.limit = l] \in [limit : Limits \cup {0}, shown : 0 .. MaxSpend]
    BY <1>1 DEF TypeOK
  <2>2. QED
    BY <1>1, <2>1 DEF Drift, TypeOK
<1>4. \/ action' = action
      \/ action' = NoAction
      \/ action' = [action EXCEPT !.trigger = FALSE]
      \/ \E m \in Emails : action' = [action EXCEPT !.to = m]
  BY DEF Drift
<1>5. action' \in Action /\ (action'.status = "NONE"
                              \/ (action'.status = action.status /\ action'.seen = action.seen))
  <2>1. action \in Action
    BY <1>1 DEF TypeOK
  <2>2. CASE action' = [action EXCEPT !.trigger = FALSE]
    BY <2>1, <2>2 DEF Action
  <2>3. CASE \E m \in Emails : action' = [action EXCEPT !.to = m]
    BY <2>1, <2>3 DEF Action
  <2>4. CASE action' = action
    BY <2>1, <2>4
  <2>5. CASE action' = NoAction
    BY <2>5, NoActionTyped DEF NoAction
  <2>6. QED
    BY <1>4, <2>2, <2>3, <2>4, <2>5
<1>6. alerts' \in [Alerts -> SUBSET (Emails \cup {Foreign})]
  <2>1. ASSUME NEW n \in Alerts, NEW s \in SUBSET (Emails \cup {Foreign})
        PROVE  [alerts EXCEPT ![n] = s] \in [Alerts -> SUBSET (Emails \cup {Foreign})]
    BY <1>1 DEF TypeOK
  <2>2. \/ alerts' = alerts
        \/ \E n \in Alerts, s \in SUBSET (Emails \cup {Foreign}) : alerts' = [alerts EXCEPT ![n] = s]
    BY DEF Drift
  <2>3. QED
    BY <1>1, <2>1, <2>2 DEF TypeOK
<1>7. TypeOK'
  BY <1>1, <1>2, <1>3, <1>5, <1>6 DEF TypeOK, CountOK
<1>8. Marked'
  BY <1>1, <1>5 DEF Inv, Marked, Reversing
<1>9. QED
  BY <1>1, <1>7, <1>8, IdleKeeps

LEMMA TickOK == Inv /\ Tick => Inv'
<1> SUFFICES ASSUME Inv, Tick
             PROVE  Inv'
  OBVIOUS
<1>1. /\ tags.age < SettleAlert /\ tags' = [tags EXCEPT !.age = @ + 1] /\ op = Idle /\ op' = op
      /\ UNCHANGED <<budget, action, attached, alerts, cal, config, outcome, count>>
      /\ tags \in Tags /\ tags.age \in 0 .. SettleAlert
  BY DEF Tick, AwsSame, Inv, TypeOK, Tags
<1>2. tags.age + 1 \in 0 .. SettleAlert
  BY <1>1, BudgetAssumption
<1>3. tags' \in Tags /\ tags'.recovery = tags.recovery /\ tags'.health = tags.health
  BY <1>1, <1>2 DEF Tags
<1>4. TypeOK'
  BY <1>1, <1>3 DEF Inv, TypeOK
<1>5. Marked'
  BY <1>1, <1>3 DEF Inv, Marked, Reversing
<1>6. QED
  BY <1>1, <1>4, <1>5, IdleKeeps

LEMMA RestartOK == Inv /\ Restart => Inv'
<1> SUFFICES ASSUME Inv, Restart
             PROVE  Inv'
  OBVIOUS
<1>1. /\ Faulty /\ op' = Idle /\ config' \in Config /\ outcome' = "progress"
      /\ UNCHANGED <<budget, action, attached, alerts, cal, tags>> /\ CountOK
  BY InvFacts, BudgetAssumption DEF Restart, AwsSame
<1>2. TypeOK'
  BY <1>1, FaultyTyped, IdleTyped DEF Inv, TypeOK, CountOK
<1>3. Marked'
  BY <1>1 DEF Inv, Marked, Reversing
<1>4. QED
  BY <1>1, <1>2, <1>3, IdleKeeps

-----------------------------------------------------------------------------
(* The invariant, and what follows from it.                                *)

LEMMA InitInv == Init => Inv
<1> SUFFICES ASSUME Init
             PROVE  Inv
  OBVIOUS
<1>1. /\ cal = [month |-> 1, stage |-> "active"] /\ budget = [limit |-> 0, shown |-> 0]
      /\ action = NoAction /\ attached = FALSE /\ op = Idle /\ outcome = "progress"
      /\ alerts = [n \in Alerts |-> Emails \cup {Foreign}] /\ config \in Configs
      /\ count = [faults |-> 0, changes |-> 0]
  BY DEF Init
<1>2. PICK l \in Limits : tags = [NoTags EXCEPT !.limit = l]
  BY DEF Init
<1>3. /\ tags \in Tags /\ tags.recovery = NoRecovery /\ tags.health = ""
  <2>1. NoTags \in Tags
    BY SomeLimitTyped, NoRecoveryTyped, BudgetAssumption DEF NoTags, Tags, Health
  <2>2. NoTags.recovery = NoRecovery /\ NoTags.health = ""
    BY DEF NoTags
  <2>3. QED
    BY <1>2, <2>1, <2>2 DEF Tags
<1>4. cal \in [month : 1 .. Months, stage : Stages]
  BY <1>1, BudgetAssumption DEF Stages
<1>5. budget \in [limit : Limits \cup {0}, shown : 0 .. MaxSpend]
      /\ count \in [faults : 0 .. MaxFaults, changes : 0 .. MaxChanges]
  BY <1>1, BudgetAssumption
<1>6. TypeOK
  BY <1>1, <1>3, <1>4, <1>5, NoActionTyped, IdleTyped, BudgetAssumption DEF TypeOK
<1>7. Marked
  <2>1. cal.month = 1 /\ action.status = "NONE"
    BY <1>1 DEF NoAction
  <2>2. NoRecovery.month = 0 /\ NoRecovery.phase = "none"
    BY DEF NoRecovery
  <2>3. tags.recovery = NoRecovery /\ tags.health # "retired"
    BY <1>3
  <2>4. tags.recovery.month <= cal.month /\ ~Reversing
    BY <2>1, <2>2, <2>3 DEF Reversing
  <2>5. QED
    BY <2>1, <2>3, <2>4 DEF Marked
<1>8. QED
  BY <1>1, <1>6, <1>7, IdleGood DEF Inv

LEMMA NextInv == Inv /\ [Next]_vars => Inv'
<1> SUFFICES ASSUME Inv, [Next]_vars
             PROVE  Inv'
  OBVIOUS
<1>1. CASE Ensure
  BY <1>1, ReadBudgetOK, WriteBudgetOK, NotifyOK, NotifiedOK, FindActionOK, AttachmentOK,
     CreateActionOK, RepairTriggerOK, RepairRecipientOK, NothingToRepairOK, ExecuteOK, RecordOK
  DEF Ensure
<1>2. CASE Change
  BY <1>2, InspectOK, SeeOK, ApproveOK, SaveOK DEF Change
<1>3. CASE Aws
  BY <1>3, CalculateOK, AwsExecutesOK, AwsFinishesOK DEF Aws
<1>4. CASE \E l \in Limits : SetBudget(l)
  BY <1>4, SetBudgetOK
<1>5. CASE UNCHANGED vars
  <2>1. TypeOK'
    BY <1>5 DEF vars, Inv, TypeOK
  <2>2. Good(op)' /\ Marked'
    BY <1>5 DEF vars, Inv, Good, Shape, Retiring, Recovering, Protecting, Marked, Reversing, Asked,
                Gone, InOrder
  <2>3. QED
    BY <2>1, <2>2 DEF Inv
<1>6. QED
  BY <1>1, <1>2, <1>3, <1>4, <1>5, StartPassOK, RetireOK, NewMonthOK, AccountMovesOK, DriftOK,
     TickOK, RestartOK DEF Next

\* The inductive invariant: what each step of a pass has read is what AWS and the tags still
\* have when it acts on it (SetBudget, reconcileBudget, EnsureBudget, retireBudget).
THEOREM Invariant == Spec => []Inv
<1>1. Init => Inv
  BY InitInv
<1>2. Inv /\ [Next]_vars => Inv'
  BY NextInv
<1>3. QED
  BY <1>1, <1>2, PTL DEF Spec

\* Every variable keeps its type.
THEOREM TypeCorrect == Spec => []TypeOK
<1>1. Inv => TypeOK
  BY DEF Inv
<1>2. QED
  BY <1>1, Invariant, PTL

\* An account is marked retired only while AWS holds no action, however many
\* deletions were reported wrongly (budget_retirement.go).
THEOREM RetiredIsGoneHolds == Spec => []RetiredIsGone
<1>1. Inv => RetiredIsGone
  BY DEF Inv, Marked, RetiredIsGone
<1>2. QED
  BY <1>1, Invariant, PTL

\* A reversal is sent only by Execute, under the phase that asks for it.
LEMMA StepReverses ==
  ASSUME Inv, Next, action.status # action'.status, action'.status = "REVERSE_IN_PROGRESS"
  PROVE  \/ action.seen /\ tags.recovery.month = cal.month
         \/ tags.recovery.look # tags.recovery.month
         \/ op.month # cal.month
<1>1. action \in Action
  BY DEF Inv, TypeOK
<1>2. action' # action
  OBVIOUS
<1>3. CASE Ensure
  <2>1. CASE CreateAction
    BY <1>2, <2>1 DEF CreateAction, Refused, Go, Write, AwsSame, New
  <2>2. CASE RepairTrigger
    <3>1. [action EXCEPT !.trigger = TRUE, !.to = config.email].status = action.status
      BY <1>1 DEF Action
    <3>2. QED
      BY <1>2, <2>2, <3>1 DEF RepairTrigger, Refused, Go, Write, AwsSame
  <2>3. CASE RepairRecipient
    <3>1. [action EXCEPT !.to = config.email].status = action.status
      BY <1>1 DEF Action
    <3>2. QED
      BY <1>2, <2>3, <3>1 DEF RepairRecipient, Refused, Go, Write, AwsSame
  <2>4. CASE Execute
    <3>1. [action EXCEPT !.status = Started].status = Started
      BY <1>1 DEF Action
    <3>2. op.pc = "execute" /\ Accepts /\ Started = "REVERSE_IN_PROGRESS"
      BY <1>2, <2>4, <3>1 DEF Execute, Refused, Go, Write, AwsSame
    <3>3. op.todo = "reverse"
      BY <3>2 DEF Started
    <3>4. Asked(op) /\ action.status \in {"EXECUTION_SUCCESS", "REVERSE_FAILURE"}
      BY <3>2, <3>3 DEF Accepts, Inv, Good, Recovering
    <3>5. QED
      BY <3>4 DEF Inv, Marked, Reversing, Asked
  <2>5. CASE ReadBudget \/ WriteBudget \/ Notify \/ Notified \/ FindAction \/ Attachment
             \/ NothingToRepair \/ Record
    BY <1>2, <2>5 DEF ReadBudget, WriteBudget, Notify, Notified, FindAction, Attachment,
                    NothingToRepair, Record, Read, Write, Go, AwsSame
  <2>6. QED
    BY <1>3, <2>1, <2>2, <2>3, <2>4, <2>5 DEF Ensure
<1>4. CASE Change
  <2>1. CASE Save
    <3>1. action'.status = action.status
      BY <1>1, <2>1 DEF Save, Action
    <3>2. QED
      BY <3>1
  <2>2. CASE Inspect \/ See \/ Approve
    BY <1>2, <2>2 DEF Inspect, See, Approve, Go, Return, AwsSame
  <2>3. QED
    BY <1>4, <2>1, <2>2 DEF Change
<1>5. CASE Retire
  <2>1. CASE Delete
    <3>1. [action EXCEPT !.status = "DELETING"].status = "DELETING"
      BY <1>1 DEF Action
    <3>2. QED
      BY <1>2, <2>1, <3>1 DEF Delete, Refused, Go, Write, AwsSame
  <2>2. CASE StartRetire \/ Closed("check", "retireFind") \/ RetireFind \/ Closed("recheck", "delete")
    BY <1>2, <2>2 DEF StartRetire, Closed, RetireFind, Read, Refused, Go, AwsSame
  <2>3. QED
    BY <1>5, <2>1, <2>2 DEF Retire
<1>6. CASE Aws
  <2>1. CASE Calculate
    BY <1>2, <2>1 DEF Calculate
  <2>2. CASE AwsExecutes
    BY <1>1, <2>2 DEF AwsExecutes, Action
  <2>3. CASE AwsFinishes
    BY <1>1, <2>3 DEF AwsFinishes, Outcome, Action, NoAction
  <2>4. QED
    BY <1>6, <2>1, <2>2, <2>3 DEF Aws
<1>7. CASE NewMonth
  BY <1>1, <1>7 DEF NewMonth, Action
<1>8. CASE Drift
  <2>1. \/ action' = action \/ action' = NoAction \/ action' = [action EXCEPT !.trigger = FALSE]
        \/ \E m \in Emails : action' = [action EXCEPT !.to = m]
    BY <1>8 DEF Drift
  <2>2. QED
    BY <1>1, <2>1 DEF Action, NoAction
<1>9. QED
  BY <1>2, <1>3, <1>4, <1>5, <1>6, <1>7, <1>8
  DEF Next, StartPass, SetBudget, AccountMoves, Tick, Restart, AwsSame

\* A reversal undoes the execution that its approver saw, in the month of the
\* approval, unless the month turned between the look and the stamp or during the
\* pass that sends it (SetBudget, advanceBudgetRecovery).
THEOREM ReversalAsApprovedHolds == Spec => ReversalAsApproved
<1>1. Inv /\ [Next]_vars =>
        [action.status # action'.status /\ action'.status = "REVERSE_IN_PROGRESS"
           => \/ action.seen /\ tags.recovery.month = cal.month
              \/ tags.recovery.look # tags.recovery.month
              \/ op.month # cal.month]_vars
  BY StepReverses
<1>2. QED
  BY <1>1, Invariant, PTL DEF Spec, ReversalAsApproved

LEMMA StepSettles ==
  ASSUME Inv, Next, op.pc = "record", op.kind # "retire", outcome' = "settled", op' = Idle
  PROVE  /\ budget.limit = tags.limit /\ \A n \in Alerts : InOrder(alerts[n])
         /\ config.policy => /\ action.status # "NONE" /\ action.trigger
                             /\ tags'.recovery = NoRecovery
<1>1. op # Idle /\ op \in Op /\ Good(op)
  BY InvFacts DEF Idle
<1>2. op.kind = "pass"
  <2>1. op.kind \in {"none", "pass", "set", "retire"}
    BY <1>1 DEF Op
  <2>2. QED
    BY <1>1, <2>1 DEF Good, Shape, SetLabels
<1>3. Record
  <2>1. op' # op
    BY <1>1
  <2>2. ~Ensure \/ Record
    BY DEF Ensure, ReadBudget, WriteBudget, Notify, Notified, FindAction, Attachment,
           CreateAction, RepairTrigger, RepairRecipient, NothingToRepair, Execute, Read, Write,
           Go, Refused
  <2>3. ~Change
    BY DEF Change, Inspect, See, Approve, Save, Go, Return
  <2>4. ~Retire
    BY <1>1 DEF Retire, StartRetire, Closed, RetireFind, Delete, Read, Write, Refused, Go
  <2>5. ~Aws
    BY <2>1 DEF Aws, Calculate, AwsExecutes, AwsFinishes, Outcome, Ours
  <2>6. ~(StartPass \/ NewMonth \/ AccountMoves \/ Drift \/ Tick \/ Restart)
    BY <1>1, <2>1 DEF StartPass, NewMonth, AccountMoves, Drift, Tick, Restart, Ours
  <2>7. ~\E l \in Limits : SetBudget(l)
    BY <1>1 DEF SetBudget
  <2>8. QED
    BY <2>2, <2>3, <2>4, <2>5, <2>6, <2>7 DEF Next
<1>4. tags' = NewTags(op) /\ Ending(op, NewTags(op)) = "settled"
  BY <1>3 DEF Record, Finish
<1>5. ~op.err /\ op.configured
  BY <1>4 DEF Ending
<1>6. tags \in Tags /\ config \in Config
  BY DEF Inv, TypeOK
<1>7. op.done \/ tags.recovery = NoRecovery => tags'.recovery = NoRecovery
  BY <1>1, <1>2, <1>4, <1>5, <1>6, NewTagsFacts
<1>8. QED
  BY <1>1, <1>2, <1>5, <1>7 DEF Good, Protecting, Gone

\* A pass that ends settled leaves AWS as the tags and the configuration ask
\* for it (reconcileBudget).
THEOREM SettledIsProtectedHolds == Spec => SettledIsProtected
<1>1. Inv /\ [Next]_vars =>
        [op.pc = "record" /\ op.kind # "retire" /\ outcome' = "settled" /\ op' = Idle
           => /\ budget.limit = tags.limit /\ \A n \in Alerts : InOrder(alerts[n])
              /\ config.policy => /\ action.status # "NONE" /\ action.trigger
                                  /\ tags'.recovery = NoRecovery]_vars
  BY StepSettles
<1>2. QED
  BY <1>1, Invariant, PTL DEF Spec, SettledIsProtected

LEMMA NextSubscribersCover ==
  ASSUME config \in Config, config.email # NoEmail, NEW s \in SUBSET (Emails \cup {Foreign}),
         Mails(s) # {}, NEW t \in NextSubscribers(s)
  PROVE  Mails(t) # {}
<1>1. config.email \in Emails
  BY DEF Config
<1>2. config.email \in t
  BY <1>1 DEF NextSubscribers, Mails
<1>3. QED
  BY <1>1, <1>2 DEF Mails

LEMMA StepCovers ==
  ASSUME Inv, Next, op # Idle, config.email # NoEmail, NEW n \in Alerts, Mails(alerts[n]) # {}
  PROVE  Mails(alerts'[n]) # {}
<1>1. CASE alerts' = alerts
  BY <1>1
<1>2. CASE Notify
  <2> DEFINE wrong == {k \in Alerts : ~InOrder(alerts[k])}
             m == CHOOSE k \in wrong : \A j \in wrong : k <= j
  <2>1. \E s \in NextSubscribers(alerts[m]) :
           Write("alerts", budget, action, [alerts EXCEPT ![m] = s], op)
    BY <1>2 DEF Notify
  <2> HIDE DEF m
  <2>2. PICK s \in NextSubscribers(alerts[m]) : alerts' \in {alerts, [alerts EXCEPT ![m] = s]}
    BY <2>1 DEF Write
  <2>3. alerts \in [Alerts -> SUBSET (Emails \cup {Foreign})] /\ config \in Config
    BY DEF Inv, TypeOK
  <2>4. m = n => Mails(s) # {}
    BY <2>2, <2>3, NextSubscribersCover
  <2>5. QED
    BY <2>2, <2>3, <2>4
<1>3. CASE Ensure /\ ~Notify
  BY <1>1, <1>3 DEF Ensure, ReadBudget, WriteBudget, Notified, FindAction, Attachment,
         CreateAction, RepairTrigger, RepairRecipient, NothingToRepair, Execute, Record, Read,
         Write, Go, Refused, AwsSame
<1>4. CASE Change \/ Retire \/ Aws
  BY <1>1, <1>4 DEF Change, Inspect, See, Approve, Save, Retire, StartRetire, Closed, RetireFind, Delete,
         Aws, Calculate, AwsExecutes, AwsFinishes, Outcome, Read, Write, Go, Refused, Return,
         AwsSame
<1>5. QED
  BY <1>1, <1>2, <1>3, <1>4
  DEF Next, StartPass, SetBudget, NewMonth, AccountMoves, Drift, Tick, Restart, AwsSame, Ours

\* While playplace rotates addresses, an alert that had one keeps one
\* (reconcileNotifications).
THEOREM AlertsHaveNoGapHolds == Spec => AlertsHaveNoGap
<1>1. Inv /\ [Next]_vars =>
        [\A n \in Alerts : op # Idle /\ config.email # NoEmail /\ Mails(alerts[n]) # {}
           => Mails(alerts'[n]) # {}]_vars
  BY StepCovers
<1>2. QED
  BY <1>1, Invariant, PTL DEF Spec, AlertsHaveNoGap

=============================================================================
