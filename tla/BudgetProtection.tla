-------------------------- MODULE BudgetProtection --------------------------
(***************************************************************************)
(* The budget of one account and the AWS budget action that restricts the  *)
(* account when its limit is spent (internal/core/budget.go,               *)
(* budget_recovery.go; internal/provider/aws/budget.go, budget_action.go,  *)
(* budget_retirement.go).                                                  *)
(*                                                                         *)
(* Every pass reads the tags, repairs what AWS holds, and writes down what *)
(* it saw.  SetBudget approves a new limit, and with it the reversal of    *)
(* the restriction that its caller saw.  The approval is carried out over  *)
(* several passes: reverse, write the reset phase, reset.  Meanwhile AWS   *)
(* moves its action on its own, and may execute it again.                  *)
(*                                                                         *)
(* One action is one AWS call with the decisions that follow it.  A call   *)
(* may fail, or be applied and reported as failed; the process may stop    *)
(* between two calls and start again with another configuration.  One      *)
(* control plane writes, as the comment of SetBudget demands.              *)
(***************************************************************************)
EXTENDS Integers, FiniteSets

CONSTANTS
  Limits,      \* amounts a budget may have
  MaxSpend,    \* bound of the spend in one month
  Months,      \* bound of the calendar
  Emails,      \* addresses an operator may configure
  NoEmail,     \* no --alert-email
  Foreign,     \* a subscriber that playplace does not own (SNS)
  Alerts,      \* the notifications that playplace owns
  SettleAlert, \* ProtectionSettleAlert
  Configs,     \* the configurations a start may have
  MaxFaults, MaxChanges \* bounds on faults (and drifts), and on SetBudget calls

Config == [email : Emails \cup {NoEmail}, policy : BOOLEAN]

ASSUME BudgetAssumption ==
  /\ Limits \subseteq Nat \ {0} /\ Limits # {} /\ Alerts \subseteq Nat
  /\ MaxSpend \in Nat /\ Months \in Nat \ {0} /\ SettleAlert \in Nat \ {0}
  /\ MaxFaults \in Nat /\ MaxChanges \in Nat
  /\ NoEmail \notin Emails /\ Foreign \notin Emails
  /\ Configs \subseteq Config /\ \A c \in Configs : c.policy => c.email # NoEmail

VARIABLES
  cal,      \* the month, and whether passes visit the account
  budget,   \* the AWS budget: its limit (0: none), the spend AWS calculated
  action,   \* the AWS budget action
  attached, \* whether the restriction is attached to the account
  alerts,   \* the subscribers of each owned notification; none: no notification
  tags,     \* the account's tags
  config,   \* the configuration of the running process
  op,       \* the operation under opMu
  outcome,  \* how the last reconciliation of the budget ended
  count     \* numbers of faults and of SetBudget calls so far

vars == <<cal, budget, action, attached, alerts, tags, config, op, outcome, count>>

Statuses == {"NONE", "DELETING", "STANDBY", "EXECUTION_IN_PROGRESS", "EXECUTION_SUCCESS",
             "EXECUTION_FAILURE", "REVERSE_IN_PROGRESS", "REVERSE_SUCCESS", "REVERSE_FAILURE",
             "RESET_IN_PROGRESS", "RESET_FAILURE"}
Moving == {"DELETING", "EXECUTION_IN_PROGRESS", "REVERSE_IN_PROGRESS", "RESET_IN_PROGRESS"}

\* trigger: threshold, type and approval model are right. seen is history: the
\* last execution is the one that the approver of the recovery saw.
Action == [status : Statuses, seen : BOOLEAN, trigger : BOOLEAN, to : Emails \cup {NoEmail}]

\* The durable approval, for the month that was stamped on it. look is history:
\* the month in which its approver saw the action.
Recovery == [phase : {"none", "reverse", "reset"}, month : 0 .. Months, look : 0 .. Months]
NoRecovery == [phase |-> "none", month |-> 0, look |-> 0]

\* paused: expired, asked to close, or suspended by AWS.
Stages == {"active", "paused", "closed"}

Health == {"", "setup-pending", "alerts", "ready", "restricting", "restricted", "recovering",
           "error", "retiring", "retired"}

Tags == [limit : Limits, recovery : Recovery, health : Health, policy : BOOLEAN,
         age : 0 .. SettleAlert]

Labels == {"idle", "read", "write", "alerts", "find", "attach", "repair", "execute",
           "record", "inspect", "see", "approve", "save", "check", "retireFind", "recheck", "delete"}

\* act: the action as it was found. month: the clock of a pass is read once, as it
\* starts; in SetBudget it is history, the month of the look. recovery: the approval
\* to be saved. The other fields are the result so far.
Op == [pc : Labels, kind : {"none", "pass", "set", "retire"},
       amount : Limits, act : Action, held : BOOLEAN, state : Health, configured : BOOLEAN,
       phase : {"none", "reset"}, done : BOOLEAN, again : BOOLEAN, err : BOOLEAN,
       todo : {"none", "reverse", "reset"}, spend : 0 .. MaxSpend,
       month : 0 .. Months, recovery : Recovery]

NoAction == [status |-> "NONE", seen |-> FALSE, trigger |-> FALSE, to |-> NoEmail]
SomeLimit == CHOOSE l \in Limits : TRUE
NoTags == [limit |-> SomeLimit, recovery |-> NoRecovery, health |-> "", policy |-> FALSE, age |-> 0]

Idle ==
  [pc |-> "idle", kind |-> "none", amount |-> SomeLimit,
   act |-> NoAction, held |-> FALSE, state |-> "setup-pending", configured |-> FALSE,
   phase |-> "none", done |-> FALSE, again |-> FALSE, err |-> FALSE, todo |-> "none", spend |-> 0,
   month |-> 0, recovery |-> NoRecovery]

\* An account without a budget yet. Its alerts have every subscriber that an
\* earlier configuration or an operator may have left on them; Drift takes them away.
Init ==
  /\ cal = [month |-> 1, stage |-> "active"]
  /\ budget = [limit |-> 0, shown |-> 0]
  /\ action = NoAction
  /\ attached = FALSE
  /\ alerts = [n \in Alerts |-> Emails \cup {Foreign}]
  /\ \E l \in Limits : tags = [NoTags EXCEPT !.limit = l]
  /\ config \in Configs
  /\ op = Idle
  /\ outcome = "progress"
  /\ count = [faults |-> 0, changes |-> 0]

-----------------------------------------------------------------------------
At(o, l) == [o EXCEPT !.pc = l]
Failed(o) == [Idle EXCEPT !.pc = "record", !.kind = o.kind, !.err = TRUE]

Faulty == /\ count.faults < MaxFaults
          /\ count' = [count EXCEPT !.faults = @ + 1]

AwsSame == UNCHANGED <<budget, action, attached, alerts>>
Rest == UNCHANGED <<cal, tags, config, outcome>>

\* The next call only reads: it answers, or it fails.
Read(l, next) ==
  /\ op.pc = l
  /\ \/ op' = next /\ UNCHANGED count
     \/ op' = Failed(op) /\ Faulty
  /\ AwsSame /\ Rest

\* The next call writes: it is applied, or fails, or is applied unheard.
Write(l, b, a, s, next) ==
  /\ op.pc = l
  /\ \/ budget' = b /\ action' = a /\ alerts' = s /\ op' = next /\ UNCHANGED count
     \/ budget' = b /\ action' = a /\ alerts' = s /\ op' = Failed(op) /\ Faulty
     \/ UNCHANGED <<budget, action, alerts>> /\ op' = Failed(op) /\ Faulty
  /\ UNCHANGED attached /\ Rest

\* What follows from the calls made so far, without a call.
Go(l, next) == op.pc = l /\ op' = next /\ AwsSame /\ Rest /\ UNCHANGED count

\* AWS refuses the next call in the present state of the action.
Refused(l) == Go(l, Failed(op))

-----------------------------------------------------------------------------
(* advanceBudgetRecovery                                                   *)

Do(o, t) == [o EXCEPT !.pc = "execute", !.state = "recovering", !.todo = t,
                      !.again = o.act.status \in {"REVERSE_FAILURE", "RESET_FAILURE"}]
Await(o) == [o EXCEPT !.pc = "record", !.state = "recovering"]

\* The observation without an approval, or with one that is over.
Observe(o) ==
  LET ok == [o EXCEPT !.pc = "record", !.configured = TRUE]
      st == o.act.status
  IN IF st = "STANDBY" /\ ~o.held THEN [ok EXCEPT !.state = "ready"]
     ELSE IF st = "EXECUTION_SUCCESS" /\ o.held THEN [ok EXCEPT !.state = "restricted"]
     ELSE IF st = "EXECUTION_IN_PROGRESS" THEN [o EXCEPT !.pc = "record", !.state = "restricting"]
     ELSE Failed(o)

Over(o) == Observe([o EXCEPT !.done = TRUE])

\* Faulty variant: the success of the reversal is waited for and not recorded.
ReversePhaseStays(o) ==
  CASE o.act.status \in {"EXECUTION_SUCCESS", "REVERSE_FAILURE"} -> Do(o, "reverse")
    [] o.act.status = "STANDBY" -> IF o.held THEN Await(o) ELSE Over(o)
    [] OTHER -> Await(o)

ReversePhase(o) ==
  CASE o.act.status \in {"EXECUTION_SUCCESS", "REVERSE_FAILURE"} -> Do(o, "reverse")
    [] o.act.status = "REVERSE_SUCCESS" -> [Await(o) EXCEPT !.phase = "reset"]
    [] o.act.status \in {"REVERSE_IN_PROGRESS", "EXECUTION_IN_PROGRESS"} -> Await(o)
    [] o.act.status = "STANDBY" -> IF o.held THEN Await(o) ELSE Over(o)
    [] OTHER -> Failed(o)

ResetPhase(o) ==
  CASE o.act.status \in {"REVERSE_SUCCESS", "RESET_FAILURE"} -> Do(o, "reset")
    [] o.act.status = "RESET_IN_PROGRESS" -> Await(o)
    [] o.act.status = "STANDBY" -> IF o.held THEN Await(o) ELSE Over(o)
    [] o.act.status \in {"EXECUTION_SUCCESS", "EXECUTION_IN_PROGRESS", "EXECUTION_FAILURE"} -> Over(o)
    [] OTHER -> Failed(o)

\* Faulty variant: the reset is sent in the pass that first wants to record its phase.
AdvancedAtOnce(o) ==
  LET r == tags.recovery IN
  IF r = NoRecovery THEN Observe(o)
  ELSE IF r.month # o.month THEN Over(o)
  ELSE IF o.act.status = "REVERSE_SUCCESS" THEN [Do(o, "reset") EXCEPT !.phase = "reset"]
  ELSE IF r.phase = "reverse" THEN ReversePhase(o) ELSE ResetPhase(o)

\* One pass of an approved reversal; an approval of an earlier month is over.
Advanced(o) ==
  LET r == tags.recovery IN
  IF r = NoRecovery THEN Observe(o)
  ELSE IF r.month # o.month THEN Over(o)
  ELSE IF r.phase = "reverse" THEN ReversePhase(o) ELSE ResetPhase(o)

\* The observation is needed no longer.
Advance(o) == [Advanced(o) EXCEPT !.act = NoAction, !.held = FALSE]

-----------------------------------------------------------------------------
(* reconcileBudget and EnsureBudget                                        *)

\* The configuration is checked against the policy that the tags record.
Reconcile ==
  LET o == [Idle EXCEPT !.kind = "pass", !.month = cal.month]
  IN IF tags.policy /\ ~config.policy THEN Failed(o) ELSE At(o, "read")

\* Passes reconcile the budget of an active account only, one that neither expired
\* nor was asked to close (reconcileReadiness).
StartPass ==
  /\ op = Idle /\ cal.stage = "active"
  /\ op' = Reconcile
  /\ AwsSame /\ Rest /\ UNCHANGED count

\* Faulty variant: an amount that AWS has is left alone while a recovery is under way.
ReadBudgetOnce ==
  Read("read", At(op, IF \/ budget.limit = tags.limit
                         \/ budget.limit # 0 /\ action.status # "STANDBY"
                      THEN "alerts" ELSE "write"))

ReadBudget == Read("read", At(op, IF budget.limit = tags.limit THEN "alerts" ELSE "write"))

\* CreateBudget or UpdateBudget; both begin with no calculated spend.
WriteBudget ==
  Write("write", [limit |-> tags.limit, shown |-> 0], action, alerts, At(op, "alerts"))

Mails(s) == s \cap Emails
InOrder(s) == Mails(s) = IF config.email = NoEmail THEN {} ELSE {config.email}

\* Faulty variant: the stale address goes before the new one comes.
NextSubscribersGap(s) ==
  IF \E m \in Mails(s) : m # config.email
  THEN {s \ {m} : m \in {x \in Mails(s) : x # config.email}}
  ELSE {s \cup {config.email}}

\* What the next call may make of the subscribers of a notification: remove
\* them, rotate one in place, add one, or remove a stale one.
NextSubscribers(s) ==
  LET stale == {m \in Mails(s) : m # config.email} IN
  IF config.email = NoEmail
  THEN IF s \subseteq Emails THEN {{}} ELSE {s \ {m} : m \in stale}
  ELSE IF config.email \in s THEN {s \ {m} : m \in stale}
  ELSE IF stale # {} THEN {(s \ {m}) \cup {config.email} : m \in stale}
  ELSE {s \cup {config.email}}

\* One write of reconcileNotifications, for the first notification that needs it.
Notify ==
  LET wrong == {n \in Alerts : ~InOrder(alerts[n])}
      n == CHOOSE m \in wrong : \A k \in wrong : m <= k
  IN /\ wrong # {}
     /\ \E s \in NextSubscribers(alerts[n]) :
          Write("alerts", budget, action, [alerts EXCEPT ![n] = s], op)

Notified ==
  /\ \A n \in Alerts : InOrder(alerts[n])
  /\ Read("alerts", IF config.policy THEN At(op, "find")
                    ELSE [op EXCEPT !.pc = "record", !.state = "alerts", !.configured = TRUE])

FindAction == Read("find", [op EXCEPT !.pc = "attach", !.act = action])
Attachment == Read("attach", [op EXCEPT !.pc = "repair", !.held = attached])

\* What was changed is observed by a later pass.
Made == [op EXCEPT !.pc = "record", !.act = NoAction, !.held = FALSE]

New == [status |-> "STANDBY", seen |-> FALSE, trigger |-> TRUE, to |-> config.email]

\* A missing action is created, unless what is left of it forbids that.
CreateAction ==
  /\ op.act.status = "NONE"
  /\ IF op.held \/ tags.recovery # NoRecovery THEN Refused("repair")
     ELSE Write("repair", budget, New, alerts, Made)

\* A trigger that drifted is repaired in STANDBY only, and observed by a later pass.
RepairTrigger ==
  /\ op.act.status # "NONE" /\ ~op.act.trigger
  /\ IF op.act.status # "STANDBY" \/ action.status \in Moving THEN Refused("repair")
     ELSE Write("repair", budget, [action EXCEPT !.trigger = TRUE, !.to = config.email], alerts, Made)

\* A new recipient does not change what was observed.
RepairRecipient ==
  /\ op.act.status # "NONE" /\ op.act.trigger /\ op.act.to # config.email
  /\ IF action.status \in Moving THEN Refused("repair")
     ELSE Write("repair", budget, [action EXCEPT !.to = config.email], alerts, Advance(op))

NothingToRepair ==
  /\ op.act.status # "NONE" /\ op.act.trigger /\ op.act.to = config.email
  /\ Go("repair", Advance(op))

\* AWS takes a reversal or a reset only from the states that allow it.
Accepts == action.status \in
  CASE op.todo = "reverse" -> {"EXECUTION_SUCCESS", "REVERSE_FAILURE"}
    [] op.todo = "reset" -> {"REVERSE_SUCCESS", "RESET_FAILURE"}
    [] OTHER -> {}
Started == IF op.todo = "reverse" THEN "REVERSE_IN_PROGRESS" ELSE "RESET_IN_PROGRESS"

Execute ==
  IF Accepts THEN Write("execute", budget, [action EXCEPT !.status = Started], alerts,
                        [op EXCEPT !.pc = "record", !.todo = "none"])
  ELSE Refused("execute")

-----------------------------------------------------------------------------
(* recordBudgetProtection                                                  *)

\* Faulty variant: every pass renews the time of the last change.
NewTagsRenewed(o) ==
  [tags EXCEPT !.policy = @ \/ config.policy, !.health = IF o.err THEN "error" ELSE o.state,
               !.age = 0, !.recovery = IF o.state = "retired" \/ o.done THEN NoRecovery ELSE @]

\* The marker moves only after a pass without an error; a reset phase is written
\* before the reset is sent.
NewTags(o) ==
  LET health == IF o.err THEN "error" ELSE o.state
      r == tags.recovery
      changed == health # tags.health
  IN [tags EXCEPT
        !.policy = @ \/ config.policy,
        !.health = IF changed THEN health ELSE @,
        !.age = IF changed THEN 0 ELSE @,
        !.recovery = IF health = "retired" \/ (o.kind # "retire" /\ ~o.err /\ o.done) THEN NoRecovery
                     ELSE IF r # NoRecovery /\ ~o.err /\ o.phase = "reset"
                          THEN [@ EXCEPT !.phase = "reset"] ELSE @]

\* How the pass ends once its tags are written, or if there are none to write.
Ending(o, t) ==
  IF o.err \/ o.again THEN "error"
  ELSE IF o.configured THEN "settled"
  ELSE IF t.age < SettleAlert THEN "progress" ELSE "error"

Finish(t, e) == tags' = t /\ outcome' = e /\ op' = Idle

Record ==
  /\ op.pc = "record"
  /\ \/ Finish(NewTags(op), Ending(op, NewTags(op))) /\ UNCHANGED count
     \/ NewTags(op) # tags /\ Faulty /\ \E t \in {tags, NewTags(op)} : Finish(t, "error")
  /\ AwsSame /\ UNCHANGED <<cal, config>>

-----------------------------------------------------------------------------
(* SetBudget                                                               *)

\* The caller gets an error, and nothing was changed.
Return(l) == op.pc = l /\ op' = Idle /\ AwsSame /\ Rest

SetBudget(amount) ==
  /\ op = Idle /\ cal.stage = "active" /\ count.changes < MaxChanges
  /\ count' = [count EXCEPT !.changes = @ + 1]
  /\ LET o == [Idle EXCEPT !.kind = "set", !.amount = amount]
     IN IF (tags.policy /\ ~config.policy) \/ tags.recovery # NoRecovery THEN op' = Idle
        ELSE IF amount = tags.limit THEN op' = Reconcile
        ELSE op' = At(o, IF config.policy THEN "inspect" ELSE "approve")
  /\ AwsSame /\ Rest

\* InspectBudget reads the budget, then the action.
Inspect ==
  IF budget.limit = tags.limit
  THEN \/ Go("inspect", [op EXCEPT !.pc = "see", !.spend = budget.shown])
       \/ Return("inspect") /\ Faulty
  ELSE Return("inspect") /\ UNCHANGED count

Raised == op.amount > tags.limit /\ action.status = "EXECUTION_SUCCESS"

\* The action is settled and, where a reversal may be approved, AWS knows the spend.
See ==
  IF action.status \in {"STANDBY", "EXECUTION_SUCCESS"} /\ (Raised => op.spend > 0)
  THEN \/ Go("see", [op EXCEPT !.pc = "approve", !.act = action, !.month = cal.month])
       \/ Return("see") /\ Faulty
  ELSE Return("see") /\ UNCHANGED count

\* The reversal that comes with the new limit, if it lifts the restriction seen.
Approval ==
  IF /\ op.amount > tags.limit /\ op.act.status = "EXECUTION_SUCCESS"
     /\ op.amount > op.spend
  THEN [phase |-> "reverse", month |-> cal.month, look |-> op.month] ELSE NoRecovery

\* The clock is read after the action was: the month may have turned between them.
Approve == Go("approve", [Idle EXCEPT !.pc = "save", !.kind = "set", !.amount = op.amount,
                                      !.recovery = Approval])

\* The amount and the approval become durable together, before AWS hears of them.
Save ==
  LET t == [tags EXCEPT !.limit = op.amount, !.recovery = op.recovery] IN
  /\ op.pc = "save"
  /\ \/ tags' = t /\ op' = Reconcile /\ UNCHANGED count
     \/ tags' \in {tags, t} /\ op' = Idle /\ Faulty
  /\ action' = [action EXCEPT !.seen = op.recovery.look = cal.month /\ tags' = t]
  /\ UNCHANGED <<cal, budget, attached, alerts, config, outcome>>

-----------------------------------------------------------------------------
(* retireBudget and RetireBudgetAction                                     *)

\* Faulty variant: an account that is being retired is not visited again.
StartRetireOnce ==
  /\ op = Idle /\ cal.stage = "closed" /\ (tags.policy \/ config.policy) /\ tags.health # "retiring"
  /\ LET o == [Idle EXCEPT !.kind = "retire", !.state = "retiring"]
     IN op' = IF config.policy THEN At(o, "check") ELSE Failed(o)
  /\ AwsSame /\ Rest /\ UNCHANGED count

StartRetire ==
  /\ op = Idle /\ cal.stage = "closed" /\ (tags.policy \/ config.policy)
  /\ LET o == [Idle EXCEPT !.kind = "retire", !.state = "retiring"]
     IN op' = IF config.policy THEN At(o, "check") ELSE Failed(o)
  /\ AwsSame /\ Rest /\ UNCHANGED count

\* DescribeAccount, before the action is looked for and again before it is deleted.
Closed(l, next) == IF cal.stage = "closed" THEN Read(l, At(op, next)) ELSE Refused(l)

Retired(o) == [o EXCEPT !.pc = "record", !.state = "retired", !.configured = TRUE]

RetireFind == Read("retireFind", IF action.status = "NONE" THEN Retired(op) ELSE At(op, "recheck"))

\* Faulty variant: an accepted deletion is taken for one that was observed.
DeleteTrusted ==
  Write("delete", budget, [action EXCEPT !.status = "DELETING"], alerts, Retired(op))

\* A transition locks the action. Nothing is observed before the next pass.
Delete ==
  IF action.status \in Moving \ {"DELETING"} THEN Refused("delete")
  ELSE Write("delete", budget,
             IF action.status = "NONE" THEN action ELSE [action EXCEPT !.status = "DELETING"],
             alerts, At(op, "record"))

Retire == StartRetire \/ Closed("check", "retireFind") \/ RetireFind
          \/ Closed("recheck", "delete") \/ Delete

-----------------------------------------------------------------------------
(* AWS, the operator, the clock                                            *)

Ours == UNCHANGED <<tags, config, op, outcome>>

\* AWS calculates the spend of the month anew, also after a change of the budget.
Calculate == /\ budget.limit # 0 /\ cal.stage # "closed"
             /\ \E n \in (budget.shown + 1) .. MaxSpend : budget' = [budget EXCEPT !.shown = n]
             /\ UNCHANGED <<cal, action, attached, alerts, count>> /\ Ours

\* At 100 percent of the limit the action executes, once, until it is reset.
AwsExecutes ==
  /\ action.status = "STANDBY" /\ action.trigger
  /\ budget.limit # 0 /\ budget.shown >= budget.limit
  /\ action' = [action EXCEPT !.status = "EXECUTION_IN_PROGRESS", !.seen = FALSE]
  /\ UNCHANGED <<cal, budget, attached, alerts, count>> /\ Ours

Outcome(from, ok, bad, att) ==
  /\ action.status = from
  /\ \/ action' = [action EXCEPT !.status = ok] /\ attached' = att /\ UNCHANGED count
     \/ action' = [action EXCEPT !.status = bad] /\ UNCHANGED attached /\ Faulty
  /\ UNCHANGED <<cal, budget, alerts>> /\ Ours

AwsFinishes ==
  \/ Outcome("EXECUTION_IN_PROGRESS", "EXECUTION_SUCCESS", "EXECUTION_FAILURE", TRUE)
  \/ Outcome("REVERSE_IN_PROGRESS", "REVERSE_SUCCESS", "REVERSE_FAILURE", FALSE)
  \/ Outcome("RESET_IN_PROGRESS", "STANDBY", "RESET_FAILURE", attached)
  \/ /\ action.status = "DELETING" /\ action' = NoAction
     /\ UNCHANGED <<cal, budget, attached, alerts, count>> /\ Ours

\* A new budget period, also while an operation is under way: AWS resets its policy
\* actions.
NewMonth ==
  /\ cal.month < Months /\ action.status \notin Moving
  /\ cal' = [cal EXCEPT !.month = @ + 1]
  /\ budget' = [budget EXCEPT !.shown = 0]
  /\ action' = IF action.status = "NONE" THEN action ELSE [action EXCEPT !.status = "STANDBY"]
  /\ attached' = FALSE
  /\ UNCHANGED <<alerts, count>> /\ Ours

\* The account expires, is asked to close, is suspended or closed; an extension or
\* AWS may bring it back, but not once it is closed.
AccountMoves == /\ cal.stage # "closed"
                /\ \E s \in Stages \ {cal.stage} : cal' = [cal EXCEPT !.stage = s]
                /\ AwsSame /\ Ours /\ UNCHANGED count

\* Between two operations an operator changes what playplace owns.
Drift ==
  /\ op = Idle /\ Faulty
  /\ \/ /\ \E l \in Limits \cup {0} : budget' = [budget EXCEPT !.limit = l]
        /\ UNCHANGED <<action, alerts>>
     \/ /\ action.status \notin Moving \cup {"NONE"}
        /\ action' \in {[action EXCEPT !.trigger = FALSE], NoAction}
                         \cup {[action EXCEPT !.to = m] : m \in Emails}
        /\ UNCHANGED <<budget, alerts>>
     \/ /\ \E n \in Alerts, s \in {{}, {Foreign}} \cup {{m} : m \in Emails} : alerts' = [alerts EXCEPT ![n] = s]
        /\ UNCHANGED <<budget, action>>
  /\ UNCHANGED <<cal, attached>> /\ Ours

\* The age counts in the states that a pass leaves unsettled; no other reads it.
Tick == /\ tags.age < SettleAlert /\ tags' = [tags EXCEPT !.age = @ + 1] /\ op = Idle
        /\ tags.health \in {"setup-pending", "restricting", "recovering", "retiring"}
        /\ AwsSame /\ UNCHANGED <<cal, config, op, outcome, count>>

\* The process stops, and starts with a configuration.
Restart == /\ Faulty /\ op' = Idle /\ config' \in Configs
           /\ outcome' = "progress" /\ AwsSame /\ UNCHANGED <<cal, tags>>

Ensure ==
  \/ ReadBudget \/ WriteBudget \/ Notify \/ Notified \/ FindAction \/ Attachment
  \/ CreateAction \/ RepairTrigger \/ RepairRecipient \/ NothingToRepair
  \/ Execute \/ Record
Change == Inspect \/ See \/ Approve \/ Save
Start == StartPass \/ StartRetire
Aws == Calculate \/ AwsExecutes \/ AwsFinishes

Next ==
  \/ StartPass \/ Ensure \/ Change \/ Retire
  \/ \E l \in Limits : SetBudget(l)
  \/ Aws \/ NewMonth \/ AccountMoves \/ Drift \/ Tick \/ Restart

Spec == Init /\ [][Next]_vars

\* The worker comes back to the account, a call under way returns, and AWS
\* finishes what it began; none of it promises that a call succeeds.
FairSpec == /\ Spec /\ WF_vars(Start) /\ WF_vars(Ensure \/ Change \/ (Retire /\ op # Idle))
            /\ WF_vars(AwsFinishes) /\ WF_vars(Tick)

-----------------------------------------------------------------------------
(* Properties                                                              *)

TypeOK ==
  /\ cal \in [month : 1 .. Months, stage : Stages]
  /\ budget \in [limit : Limits \cup {0}, shown : 0 .. MaxSpend]
  /\ action \in Action /\ attached \in BOOLEAN
  /\ alerts \in [Alerts -> SUBSET (Emails \cup {Foreign})]
  /\ tags \in Tags /\ config \in Config /\ op \in Op
  /\ outcome \in {"settled", "progress", "error"}
  /\ count \in [faults : 0 .. MaxFaults, changes : 0 .. MaxChanges]

\* retired is written only once AWS shows no action, however the deletion was
\* reported: otherwise a paid action is forgotten (budget_retirement.go).
RetiredIsGone == tags.health = "retired" => action.status = "NONE"

\* A reversal undoes the execution that the approver of the recovery saw, in the
\* month of the approval, and never one that came after it (BudgetRecovery). Two
\* races with the calendar escape the stamp, and nothing else does: the month turns
\* between the look and the stamp (budget.go:344 and 361), or during the pass that
\* sends the reversal, which reads the clock once (budgetSpec).
ReversalAsApproved ==
  [][action.status # action'.status /\ action'.status = "REVERSE_IN_PROGRESS"
     => \/ action.seen /\ tags.recovery.month = cal.month
        \/ tags.recovery.look # tags.recovery.month
        \/ op.month # cal.month]_vars

\* A pass that ends settled, on which access and handoff wait, leaves AWS with the
\* approved limit, the owned alerts at the configured address, a trigger that acts
\* at the limit, and no approval half carried out (reconcileBudget). Without a policy in
\* the configuration or the tags a pass knows of no action and settles on the alerts.
SettledIsProtected ==
  [][op.pc = "record" /\ op.kind # "retire" /\ outcome' = "settled" /\ op' = Idle
     => /\ budget.limit = tags.limit /\ \A n \in Alerts : InOrder(alerts[n])
        /\ config.policy => /\ action.status # "NONE" /\ action.trigger
                            /\ tags'.recovery = NoRecovery]_vars

\* While addresses are rotated, an alert that had one is never without
\* (reconcileNotifications: no gap).
AlertsHaveNoGap ==
  [][\A n \in Alerts : op # Idle /\ config.email # NoEmail /\ Mails(alerts[n]) # {}
     => Mails(alerts'[n]) # {}]_vars

\* An approval of an earlier month stays while AWS reports a failed execution, or a
\* reversal that was sent as the month turned: the pass fails before it clears the
\* marker, and a person must act or the next month come.
Intact == /\ config.policy /\ action.trigger
          /\ action.status \notin {"NONE", "DELETING", "EXECUTION_FAILURE"}
          /\ \/ tags.recovery.month = cal.month
             \/ action.status \in {"STANDBY", "EXECUTION_IN_PROGRESS", "EXECUTION_SUCCESS"}

\* An approved reversal is finished, or ends with its month, unless passes left the
\* account alone or an operator took the action or the enforcement away
\* (advanceBudgetRecovery).
RecoveryEnds ==
  tags.recovery # NoRecovery ~> tags.recovery = NoRecovery \/ ~Intact \/ cal.stage # "active"

\* Protection of an active account does not stay unsettled in silence: again and
\* again a pass finds it settled or fails (ProtectionSettleAlert). An account that
\* expired or was asked to close is not looked at until it is closed.
UnsettledIsReported ==
  []<>(outcome # "progress" \/ cal.stage = "paused" \/ (cal.stage = "closed" /\ ~tags.policy))

\* The action of a closed account is removed, and its absence written down, while
\* enforcement stays configured (retireBudget).
ClosedIsRetired == (cal.stage = "closed" /\ tags.policy) ~> (tags.health = "retired" \/ ~config.policy)
=============================================================================
