----------------------------- MODULE Decisions -----------------------------
(***************************************************************************)
(* The decisions of the web server: a post of the decision page, clicks in *)
(* Slack, and the stop of the server (internal/web decide.go, slack.go,    *)
(* server.go), over Approve and Deny of core.Service and its opMu.         *)
(*                                                                         *)
(* Time is counted in units of CallTime, the 15 seconds that the limits    *)
(* leave for one approval.  A call takes up to one unit, or hangs until    *)
(* its context ends; the page of a post, before and after its decisions,   *)
(* takes any time, and everything else between calls takes none.  A call   *)
(* that fails or is cut may have been carried out in AWS or not.           *)
(***************************************************************************)
EXTENDS Integers, Sequences, FiniteSets

CONSTANTS
  None,
  Names,         \* names of requests
  Queue,         \* the names, oldest request first
  Clicks,        \* clicks on the buttons of Slack messages
  Forms,         \* forms of decision posts: sequences of refs
  Mine,          \* refs that the approver of the post requested or would own
  MaxApprovals,  \* requests that one post may approve (10)
  MaxDenials,    \* requests that one post may deny (50)
  Budget,        \* decideBudget (45 s)
  RefLimit,      \* decideRefLimit (2 min)
  ClickLimit,    \* the context of a click (60 s)
  RestoreLimit,  \* restoreTimeout (30 s)
  Drain,         \* shutdownDrain (60 s)
  CallTime,      \* the time of a call that does not hang
  MaxChanges,    \* bound: edits and withdrawals of requests
  MaxFaults,     \* bound: calls that fail
  MaxHangs       \* bound: calls that AWS never answers

ASSUME QueueAssumption ==
  /\ Names = {Queue[i] : i \in DOMAIN Queue}
  /\ \A i, j \in DOMAIN Queue : Queue[i] = Queue[j] => i = j
ASSUME TimeAssumption ==
  /\ {Budget, RefLimit, ClickLimit, RestoreLimit, Drain, CallTime} \subseteq Nat \ {0}
  /\ Drain = Budget + CallTime
  /\ CallTime < ClickLimit /\ ClickLimit <= RefLimit /\ CallTime < RestoreLimit

Post == "post"
Deciders == {Post} \cup Clicks

Steps == {"email", "get", "lock", "read", "remove", "claim", "create", "restore", "undo"}
Call == [ref : [name : Names, ver : Nat], action : {"approve", "deny"}, step : Steps,
         age : Nat, spent : Nat, hung : BOOLEAN]

ASSUME FormAssumption == \A form \in Forms : form \in Seq([name : Names, ver : Nat])
ASSUME IdAssumption ==
  /\ Post \notin Clicks
  /\ None \notin Deciders /\ None \notin Call /\ None \notin Nat /\ None \notin {"approve", "deny"}
ASSUME BoundsAssumption == {MaxApprovals, MaxDenials, MaxChanges, MaxFaults, MaxHangs} \subseteq Nat

VARIABLES
  pending,   \* the queue in AWS: the version of each pending request
  claimed,   \* requests marked approved for which no creation is under way yet
  decided,   \* decisions carried out in AWS: [name, ver, by]
  post,      \* the decision post
  clicked,   \* clicks that Slack sent
  calls,     \* the decision that each decider has in core
  lock,      \* opMu: who holds it, and for how long
  server,    \* "up", "stopping" or "gone"
  drained,   \* time since the stop
  waited,    \* a decision waited for opMu (kept for the properties)
  changes, faults, hangs

budgets == <<changes, faults, hangs>>
vars == <<pending, claimed, decided, post, clicked, calls, lock, server, drained, waited, budgets>>

-----------------------------------------------------------------------------
(* The form: refs of which the first one for a name counts. *)

Limit(action) == IF action = "approve" THEN MaxApprovals ELSE MaxDenials

\* Faulty variant: only a ref with the same version is a duplicate.
SameRef(r, o) == r = o

SameRequest(r, o) == r.name = o.name

(* The places in the form of the refs that count. *)
Distinct(form) ==
  {i \in DOMAIN form : \A j \in DOMAIN form : j < i => ~SameRequest(form[j], form[i])}

(* Oldest request first; what the queue does not list goes last. *)
Place(view, ref) ==
  IF view[ref.name] = None THEN Len(Queue) + 1 ELSE CHOOSE i \in DOMAIN Queue : Queue[i] = ref.name
(* The ref of todo that comes next in this order, which is stable. *)
IsOldest(i, todo, refs, view) ==
  \A j \in todo \ {i} :
    \/ Place(view, refs[i]) < Place(view, refs[j])
    \/ Place(view, refs[i]) = Place(view, refs[j]) /\ i < j

NoPost == [phase |-> "none", action |-> None, todo |-> {}, results |-> <<>>,
           age |-> 0, stopped |-> FALSE, view |-> None, refs |-> <<>>]

(* decideAll and decideOne: a form over the limit decides nothing. *)
ReceivePost(form, action) ==
  /\ server = "up" /\ post.phase = "none"
  /\ Cardinality(Distinct(form)) \in 1..Limit(action)
  /\ post' = [NoPost EXCEPT !.phase = "view", !.action = action, !.refs = form]
  /\ UNCHANGED <<pending, claimed, decided, clicked, calls, lock, server, drained, waited, budgets>>

Fault == faults < MaxFaults /\ faults' = faults + 1

(* decide begins: the queue of the page, which the cache may have or a call *)
(* that fails, then nothing is listed.  Its context has no limit of its own.*)
ReadPage ==
  /\ post.phase = "view"
  /\ \E view \in {pending, [n \in Names |-> None]} :
       post' = [post EXCEPT !.phase = "loop", !.view = view, !.todo = Distinct(post.refs)]
  /\ UNCHANGED <<pending, claimed, decided, clicked, calls, lock, server, drained, waited, budgets>>

-----------------------------------------------------------------------------
(* One decision in core.  Its context ends after a limit of its own.       *)

NewCall(ref, action, step) ==
  [ref |-> ref, action |-> action, step |-> step, age |-> 0, spent |-> 0, hung |-> FALSE]

(* The restore of a claim: after a failed creation, after a refused one. *)
Restores == {"restore", "undo"}

TimeLimit(d) == IF calls[d].step \in Restores THEN RestoreLimit
                ELSE IF d = Post THEN RefLimit ELSE ClickLimit

\* Faulty variant: only a click has a limit.
EndedClick(d) == d # Post /\ calls[d].age >= TimeLimit(d)

(* The context of a decision ignores the cancellation of the request, so a  *)
(* browser that goes away has no part here.                                 *)
Ended(d) == calls[d].age >= TimeLimit(d)

InStep(d, step) == calls[d] # None /\ calls[d].step = step
Answers(d) == ~calls[d].hung /\ ~Ended(d)
Fails(d) == IF Ended(d) THEN UNCHANGED faults ELSE ~calls[d].hung /\ Fault
GoOn(d, step) == calls' = [calls EXCEPT ![d].step = step]
Free == [by |-> None, held |-> 0]

Done(kind) == kind \in {"approved", "denied"}

(* The decision returns; decide keeps the result and stops after a failure. *)
Return(d, kind) ==
  /\ calls' = [calls EXCEPT ![d] = None]
  /\ lock' = IF lock.by = d THEN Free ELSE lock
  /\ post' = IF d # Post THEN post
             ELSE [post EXCEPT !.phase = "loop", !.stopped = kind = "failed",
                               !.results = Append(@, [ref |-> calls[d].ref, kind |-> kind])]

CallElse == UNCHANGED <<clicked, server, drained, waited, changes, hangs>>

(* decideRef reads a request live that the page does not list. *)
GetRequest(d) ==
  LET ref == calls[d].ref IN
  /\ InStep(d, "get")
  /\ \/ /\ Answers(d) /\ UNCHANGED faults
        /\ IF pending[ref.name] = None THEN Return(d, "gone")
           ELSE IF pending[ref.name] = ref.ver /\ ref \in Mine THEN Return(d, "own")
           ELSE GoOn(d, "lock") /\ UNCHANGED <<lock, post>>
     \/ Fails(d) /\ Return(d, "failed")
  /\ UNCHANGED <<pending, claimed, decided>> /\ CallElse

Lock(d) ==
  /\ InStep(d, "lock") /\ lock.by = None
  /\ lock' = [by |-> d, held |-> 0]
  /\ GoOn(d, "read")
  /\ UNCHANGED <<pending, claimed, decided, post, faults>> /\ CallElse

(* pendingAt, and CheckApprover of an approval. *)
PendingAt(d) ==
  LET ref == calls[d].ref IN
  /\ InStep(d, "read")
  /\ \/ /\ Answers(d) /\ UNCHANGED faults
        /\ IF pending[ref.name] = None THEN Return(d, "gone")
           ELSE IF pending[ref.name] # ref.ver THEN Return(d, "changed")
           ELSE IF calls[d].action = "deny" THEN GoOn(d, "remove") /\ UNCHANGED <<lock, post>>
           ELSE IF d = Post /\ ref \in Mine THEN Return(d, "own")
           ELSE GoOn(d, "claim") /\ UNCHANGED <<lock, post>>
     \/ Fails(d) /\ Return(d, "failed")
  /\ UNCHANGED <<pending, claimed, decided>> /\ CallElse

Decide(d) == decided' = decided \cup {[name |-> calls[d].ref.name, ver |-> calls[d].ref.ver, by |-> d]}

(* Deny removes the record, also when its call is cut after AWS had it. *)
Removed(d) == pending' = [pending EXCEPT ![calls[d].ref.name] = None] /\ Decide(d)
RemoveDecided(d) ==
  /\ InStep(d, "remove")
  /\ \/ Answers(d) /\ UNCHANGED faults /\ Removed(d) /\ Return(d, "denied")
     \/ /\ Fails(d) /\ Return(d, "failed")
        /\ Removed(d) \/ UNCHANGED <<pending, decided>>
  /\ UNCHANGED claimed /\ CallElse

(* The mark.  When the call is cut it may have been written, and nothing    *)
(* takes it back.                                                           *)
Mark(n) == pending' = [pending EXCEPT ![n] = None] /\ claimed' = claimed \cup {n}
Claim(d) ==
  /\ InStep(d, "claim")
  /\ \/ Answers(d) /\ Mark(calls[d].ref.name) /\ GoOn(d, "create") /\ UNCHANGED <<lock, post, faults>>
     \/ /\ Fails(d) /\ Return(d, "failed")
        /\ Mark(calls[d].ref.name) \/ UNCHANGED <<pending, claimed>>
  /\ UNCHANGED decided /\ CallElse

(* Request: it refuses a name that has an account, or an owner that is no   *)
(* user; CreateAccount.  A call that fails may have created the account.    *)
(* After an error the request is made pending again.                        *)
NameTaken(n) == \E x \in decided : x.name = n
Created(d) ==
  /\ ~NameTaken(calls[d].ref.name)
  /\ claimed' = claimed \ {calls[d].ref.name} /\ Decide(d)
GoBack(d, step) ==
  calls' = [calls EXCEPT ![d].step = step, ![d].age = 0, ![d].hung = FALSE] /\ UNCHANGED <<lock, post>>
Create(d) ==
  /\ InStep(d, "create")
  /\ \/ Answers(d) /\ UNCHANGED faults /\ Created(d) /\ Return(d, "approved")
     \/ Answers(d) /\ UNCHANGED <<claimed, decided, faults>> /\ GoBack(d, "undo")
     \/ Fails(d) /\ (Created(d) \/ UNCHANGED <<claimed, decided>>) /\ GoBack(d, "restore")
  /\ UNCHANGED pending /\ CallElse

Restored(d) ==
  /\ pending' = [pending EXCEPT ![calls[d].ref.name] = calls[d].ref.ver]
  /\ claimed' = claimed \ {calls[d].ref.name}
Restore(d) ==
  /\ calls[d] # None /\ calls[d].step \in Restores
  /\ \/ Answers(d) /\ UNCHANGED faults /\ Restored(d)
     \/ Fails(d) /\ (Restored(d) \/ UNCHANGED <<pending, claimed>>)
  /\ Return(d, IF calls[d].step = "undo" THEN "refused" ELSE "failed")
  /\ UNCHANGED decided /\ CallElse

(* AWS never answers the call. *)
Hang(d) ==
  /\ calls[d] # None /\ calls[d].step \notin {"lock", "email"} /\ ~calls[d].hung
  /\ hangs < MaxHangs /\ hangs' = hangs + 1
  /\ calls' = [calls EXCEPT ![d].hung = TRUE]
  /\ UNCHANGED <<pending, claimed, decided, post, clicked, lock, server, drained, waited, changes, faults>>

-----------------------------------------------------------------------------
(* The post. *)

(* A ref is not tried after a failure, or when the budget is used up. *)
Stopped == post.stopped \/ post.age >= Budget

DecideNext ==
  /\ post.phase = "loop" /\ calls[Post] = None
  /\ \E i \in post.todo :
       LET ref == post.refs[i] IN
       /\ IsOldest(i, post.todo, post.refs, post.view)
       /\ IF Stopped
          THEN /\ post' = [post EXCEPT !.todo = @ \ {i}, !.stopped = TRUE,
                                       !.results = Append(@, [ref |-> ref, kind |-> "not-tried"])]
               /\ UNCHANGED calls
          ELSE IF post.view[ref.name] = ref.ver /\ ref \in Mine
          THEN /\ post' = [post EXCEPT !.todo = @ \ {i},
                                       !.results = Append(@, [ref |-> ref, kind |-> "own"])]
               /\ UNCHANGED calls
          ELSE /\ post' = [post EXCEPT !.todo = @ \ {i}, !.phase = "call"]
               /\ calls' = [calls EXCEPT ![Post] =
                              NewCall(ref, post.action, IF post.view[ref.name] = None THEN "get" ELSE "lock")]
  /\ UNCHANGED <<pending, claimed, decided, clicked, lock, server, drained, waited, budgets>>

(* answerDecisions reads the page, the rows and the hash of the poll again, *)
(* which takes any time, and then writes the answer.                        *)
RenderPost ==
  /\ post.phase = "loop" /\ post.todo = {}
  /\ post' = [post EXCEPT !.phase = "render"]
  /\ UNCHANGED <<pending, claimed, decided, clicked, calls, lock, server, drained, waited, budgets>>
Answer ==
  /\ post.phase = "render"
  /\ post' = [post EXCEPT !.phase = "answered"]
  /\ UNCHANGED <<pending, claimed, decided, clicked, calls, lock, server, drained, waited, budgets>>

(* interact answers at once and decides in a goroutine of its own. *)
Interact(c, ref, action) ==
  /\ server = "up" /\ c \notin clicked
  /\ clicked' = clicked \cup {c}
  /\ calls' = [calls EXCEPT ![c] = NewCall(ref, action, "email")]
  /\ UNCHANGED <<pending, claimed, decided, post, lock, server, drained, waited, budgets>>

(* userEmail, the approver rule and the ref of the button. *)
LookUp(c) ==
  /\ InStep(c, "email")
  /\ \/ GoOn(c, "lock") /\ UNCHANGED <<lock, post>>
     \/ Return(c, "refused")
  /\ UNCHANGED <<pending, claimed, decided, faults>> /\ CallElse

(* The requester edits or withdraws; core takes opMu for it. *)
Change(n, ver) ==
  /\ lock.by = None /\ pending[n] # None /\ changes < MaxChanges
  /\ ver = None \/ ver = pending[n] + 1
  /\ changes' = changes + 1
  /\ pending' = [pending EXCEPT ![n] = ver]
  /\ UNCHANGED <<claimed, decided, post, clicked, calls, lock, server, drained, waited, faults, hangs>>

-----------------------------------------------------------------------------
(* The stop, and time. *)

Stop ==
  /\ server = "up" /\ server' = "stopping"
  /\ UNCHANGED <<pending, claimed, decided, post, clicked, calls, lock, drained, waited, budgets>>

\* Faulty variant: the stop waits for the answers alone.
AnswersAreOut == post.phase \in {"none", "answered"}

(* Shutdown: every handler returned, and wait: every click ended. *)
AllEnded == post.phase \in {"none", "answered"} /\ \A d \in Deciders : calls[d] = None

(* The process ends; a call under way may be carried out in AWS. *)
Exit ==
  /\ server = "stopping" /\ (AllEnded \/ drained >= Drain)
  /\ server' = "gone"
  /\ \/ UNCHANGED <<pending, claimed, decided>>
     \/ \E d \in Deciders :
          \/ InStep(d, "claim") /\ Mark(calls[d].ref.name) /\ UNCHANGED decided
          \/ InStep(d, "remove") /\ Removed(d) /\ UNCHANGED claimed
          \/ InStep(d, "create") /\ Created(d) /\ UNCHANGED pending
  /\ calls' = [d \in Deciders |-> None] /\ lock' = Free
  /\ post' = IF post.phase \in {"none", "answered"} THEN post ELSE [post EXCEPT !.phase = "cut"]
  /\ UNCHANGED <<clicked, drained, waited, budgets>>

Waits(d) == InStep(d, "lock") /\ lock.by # None

(* A decision in which time may pass. *)
TakesTime(d) ==
  Waits(d) \/ (/\ calls[d].step # "lock" /\ ~Ended(d)
               /\ calls[d].hung \/ calls[d].spent < CallTime)

Older(d) ==
  IF calls[d] = None THEN None
  ELSE [calls[d] EXCEPT !.age = @ + 1, !.spent = IF Waits(d) \/ calls[d].hung THEN @ ELSE @ + 1]

(* The age of a post counts until its last decision; while the page is read *)
(* it counts to the budget, since from there on the loop tries nothing.     *)
Counts == post.phase = "call" \/ (post.phase = "view" /\ post.age < Budget)

Tick ==
  /\ server # "gone" /\ drained < Drain
  /\ \/ post.phase \in {"view", "call", "render"}
     \/ post.phase \in {"none", "answered"} /\ \E d \in Deciders : calls[d] # None
  /\ \A d \in {e \in Deciders : calls[e] # None} : TakesTime(d)
  /\ calls' = [d \in Deciders |-> Older(d)]
  /\ post' = IF Counts THEN [post EXCEPT !.age = @ + 1] ELSE post
  /\ lock' = IF lock.by = None THEN lock ELSE [lock EXCEPT !.held = @ + 1]
  /\ drained' = IF server = "stopping" THEN drained + 1 ELSE drained
  /\ waited' = (waited \/ \E d \in Deciders : Waits(d))
  /\ UNCHANGED <<pending, claimed, decided, clicked, server, budgets>>

-----------------------------------------------------------------------------
Init ==
  /\ pending = [n \in Names |-> 1] /\ claimed = {} /\ decided = {}
  /\ post = NoPost /\ clicked = {}
  /\ calls = [d \in Deciders |-> None] /\ lock = Free
  /\ server = "up" /\ drained = 0 /\ waited = FALSE
  /\ changes = 0 /\ faults = 0 /\ hangs = 0

Refs == [name : Names, ver : 1..MaxChanges + 1]

Next ==
  \/ \E form \in Forms, action \in {"approve", "deny"} : ReceivePost(form, action)
  \/ ReadPage \/ DecideNext \/ RenderPost \/ Answer
  \/ \E c \in Clicks, n \in Names, action \in {"approve", "deny"} :
       pending[n] # None /\ Interact(c, [name |-> n, ver |-> pending[n]], action)
  \/ \E c \in Clicks : LookUp(c)
  \/ \E d \in Deciders :
       GetRequest(d) \/ Lock(d) \/ PendingAt(d) \/ RemoveDecided(d) \/ Claim(d) \/ Create(d)
         \/ Restore(d) \/ Hang(d)
  \/ \E n \in Names, ver \in {None} \cup (1..MaxChanges + 1) : Change(n, ver)
  \/ Stop \/ Exit \/ Tick

Spec == Init /\ [][Next]_vars

-----------------------------------------------------------------------------
(* The properties. *)

(* The answer of a post is true: it has one result for each request of the  *)
(* form, a request it calls approved or denied was decided by this post in  *)
(* the version that the page showed, and a request it calls gone, changed,  *)
(* the viewer's own, refused or not tried was not decided by it.  A result  *)
(* "failed" leaves open what AWS did, though never to another version, and  *)
(* after a failure nothing was tried.                                       *)
ResultsAreTrue ==
  LET results == post.results
      DecidedHere(ref) == [name |-> ref.name, ver |-> ref.ver, by |-> Post] \in decided
      By(ref) == \E x \in decided : x.by = Post /\ x.name = ref.name
  IN
  /\ \A i, j \in DOMAIN results : i # j => results[i].ref.name # results[j].ref.name
  /\ \A i \in DOMAIN results :
       LET ref == results[i].ref  kind == results[i].kind IN
       /\ Done(kind) => DecidedHere(ref)
       /\ By(ref) => DecidedHere(ref) /\ (Done(kind) \/ kind = "failed")
       /\ kind = "failed" => \A j \in DOMAIN results : j > i => results[j].kind = "not-tried"
  /\ post.phase = "answered" =>
       {results[i].ref.name : i \in DOMAIN results} = {post.refs[i].name : i \in DOMAIN post.refs}

(* A request is left marked approved without an account only when AWS       *)
(* failed or did not answer, or when decisions waited for each other until  *)
(* the drain of the stop was over: never because a batch took its time, or  *)
(* because the server stopped beside it or after the answer to a click.     *)
ClaimsAreSettled ==
  \A n \in claimed :
    \/ \E d \in Deciders : calls[d] # None /\ calls[d].ref.name = n
    \/ faults > 0 \/ hangs > 0 \/ waited

(* opMu comes back, also when AWS never answers; and a decision of a post   *)
(* whose calls are answered and wait for nobody is over one approval after  *)
(* the budget of the post at the latest, however long its page took to read.*)
DecisionsEndInTime ==
  /\ lock.by # None => lock.held <= RefLimit + RestoreLimit
  /\ calls[Post] # None => post.age <= Budget + CallTime \/ hangs > 0 \/ waited

=============================================================================
