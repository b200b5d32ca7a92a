---------------------------- MODULE JourneyStore ----------------------------
(***************************************************************************)
(* The shared history: journeys, their correlations and their events in    *)
(* one DynamoDB table (internal/audit).  Producers read a journey, extend  *)
(* it and put it back under the revision they read; they record events of  *)
(* it; they find it again by a correlation.                                *)
(*                                                                         *)
(* The table is the only shared state.  A transaction takes effect as a    *)
(* whole or not at all, but its reply may not arrive: then the producer    *)
(* does not know whether it took effect, or still will.                    *)
(***************************************************************************)
EXTENDS Integers, Sequences, FiniteSets, SequencesExt

CONSTANTS
  Clients,      \* calls under way at the same time, of any processes
  Documents,    \* the journeys that producers put
  Events,       \* the events that producers record
  None,         \* no record, no account
  MaxRevision,  \* bound: the revisions explored
  MaxTimeouts,  \* bound: replies that do not arrive
  MaxCorrelations \* 90 in the code

Ids == {d.id : d \in Documents}
Correlations == UNION {ToSet(d.corr) : d \in Documents}
EventIds == {e.id : e \in Events}

Account(a) == [kind |-> "account", id |-> a]
ProviderRequest(r) == [kind |-> "provider-request", id |-> r]
OfKind(d, kind) == {c \in ToSet(d.corr) : c.kind = kind}
Has(d, c) == c \in ToSet(d.corr)

Owners == UNION {ToSet(d.owned) : d \in Documents}

ASSUME StoreAssumption ==
  /\ None \notin Ids /\ None \notin Events /\ None \notin {"ok", "corrupt"}
  /\ None \notin [doc : Documents, rev : Nat]
  /\ \A d \in Documents : d.corr \in Seq(Correlations) /\ d.owned \in Seq(Owners)
  /\ \A e \in Events : e.journey \in Ids
  /\ MaxRevision \in Nat

VARIABLES
  journeys,  \* META rows: a document with its revision, or None
  links,     \* LINK rows: the journey that claimed a correlation, or None
  events,    \* EVENT rows: an event by its id, or None
  index,     \* the search rows: <<partition, event>>
  calls,     \* the call that each client makes
  late,      \* transactions whose client no longer waits
  timeouts   \* bounded counter

table == <<journeys, links, events, index>>
vars == <<journeys, links, events, index, calls, late, timeouts>>

-----------------------------------------------------------------------------
(* What a journey may say, and how it may change. *)

OwnershipProven(d) ==
  \A i \in DOMAIN d.owned :
    LET o == d.owned[i] IN
    /\ o.at >= (IF i = 1 THEN d.start ELSE d.owned[i - 1].at)
    /\ \/ o.source = "request-queue" /\ d.origin = "request" /\ o.ref = d.id
       \/ o.source = "provider-tags" /\ Has(d, Account(o.ref))

(* An outcome is terminal only with the identity that proves it. *)
TerminalProven(d) ==
  LET t == d.terminal IN
  t # None =>
    /\ t.at >= d.start
    /\ \/ t.kind = "account-closed" /\ Has(d, Account(t.ref))
       \/ /\ t.kind \in {"request-denied", "request-withdrawn", "request-expired"}
          /\ d.origin = "request" /\ t.ref = d.id /\ OfKind(d, "account") = {}
       \/ /\ t.kind = "creation-failed" /\ d.origin \in {"request", "direct"}
          /\ OfKind(d, "account") = {}
          /\ OfKind(d, "provider-request") = {ProviderRequest(t.ref)}

Valid(d) ==
  /\ Len(d.corr) <= MaxCorrelations
  /\ IsInjective(d.corr)
  /\ Cardinality(OfKind(d, "account")) <= 1
  /\ OwnershipProven(d)
  /\ TerminalProven(d)

Follows(d, old) ==
  /\ d.id = old.id /\ d.origin = old.origin /\ d.start = old.start
  /\ IsPrefix(old.corr, d.corr)
  /\ IsPrefix(old.owned, d.owned)
  /\ old.terminal # None => d.terminal = old.terminal /\ d.corr = old.corr

-----------------------------------------------------------------------------
(* The table: two kinds of transaction, each with its conditions. *)

Revision(j) == IF journeys[j] = None THEN 0 ELSE journeys[j].rev

\* Faulty variant: the links are written without a condition.
ClaimableAlways(d) == TRUE

Claimable(d) == \A c \in ToSet(d.corr) : links[c] \in {None, d.id}

\* Faulty variant: the stored revision is not part of the condition of the write.
PutConditionUnversioned(tx) ==
  (tx.rev = 0 => journeys[tx.doc.id] = None) /\ Claimable(tx.doc)

PutCondition(tx) == Revision(tx.doc.id) = tx.rev /\ Claimable(tx.doc)

PutEffect(tx) ==
  /\ journeys' = [journeys EXCEPT ![tx.doc.id] = [doc |-> tx.doc, rev |-> tx.rev + 1]]
  /\ links' = [c \in Correlations |-> IF Has(tx.doc, c) THEN tx.doc.id ELSE links[c]]
  /\ UNCHANGED <<events, index>>

Partitions(e) ==
  {<<"all">>, <<"journey", e.journey>>}
    \cup (IF e.account = None THEN {} ELSE {<<"account-id", e.account>>})

EventCondition(tx) == Revision(tx.event.journey) = tx.rev /\ events[tx.event.id] = None

EventEffect(tx) ==
  /\ events' = [events EXCEPT ![tx.event.id] = tx.event]
  /\ index' = index \cup (Partitions(tx.event) \X {tx.event})
  /\ UNCHANGED <<journeys, links>>

Condition(tx) == IF tx.kind = "put" THEN PutCondition(tx) ELSE EventCondition(tx)
Effect(tx) == IF tx.kind = "put" THEN PutEffect(tx) ELSE EventEffect(tx)

-----------------------------------------------------------------------------
(* Calls.  A call has its kind, its argument and its next step.  A write    *)
(* that was acknowledged is kept until the client's next call; a call that  *)
(* ended with an error (not found, conflict, unavailable), or with nothing  *)
(* but an answer, leaves no trace, except that it found the store corrupt.  *)

Idle == [kind |-> "none", step |-> "done", answer |-> None]

(* A call starts when the client's last one ended. *)
Start(w, call) == calls[w].step = "done" /\ calls' = [calls EXCEPT ![w] = call]
At(w, kind, step) == calls[w].kind = kind /\ calls[w].step = step
Goto(w, step) == calls' = [calls EXCEPT ![w].step = step]
Acknowledge(w) == calls' = [calls EXCEPT ![w].step = "done", ![w].answer = "ok"]
End(w) == calls' = [calls EXCEPT ![w] = Idle]
Corrupt(w) == calls' = [calls EXCEPT ![w] = [Idle EXCEPT !.answer = "corrupt"]]

(* PutJourney: revision 0 creates, any other must be the one that was read. *)
Put(w, d, rev) ==
  /\ Valid(d)
  /\ rev < MaxRevision
  /\ Start(w, [kind |-> "put", step |-> IF rev = 0 THEN "write" ELSE "read",
               answer |-> None, doc |-> d, rev |-> rev])
  /\ UNCHANGED <<table, late, timeouts>>

PutRead(w) ==
  /\ At(w, "put", "read")
  /\ LET c == calls[w]
         old == journeys[c.doc.id]
     IN IF old # None /\ old.rev = c.rev /\ Follows(c.doc, old.doc)
        THEN Goto(w, "write") ELSE End(w)
  /\ UNCHANGED <<table, late, timeouts>>

PutWrite(w) ==
  /\ At(w, "put", "write")
  /\ \/ Condition(calls[w]) /\ Effect(calls[w]) /\ Acknowledge(w)
     \/ ~Condition(calls[w]) /\ End(w) /\ UNCHANGED table
  /\ UNCHANGED <<late, timeouts>>

(* Record: the event must belong to its journey, as the client read it. *)
Record(w, e) ==
  /\ Start(w, [kind |-> "event", step |-> "read", answer |-> None, event |-> e, rev |-> 0])
  /\ UNCHANGED <<table, late, timeouts>>

RecordRead(w) ==
  /\ At(w, "event", "read")
  /\ LET e == calls[w].event
         j == journeys[e.journey]
     IN IF j # None /\ (e.account = None \/ Has(j.doc, Account(e.account)))
        THEN calls' = [calls EXCEPT ![w].step = "write", ![w].rev = j.rev] ELSE End(w)
  /\ UNCHANGED <<table, late, timeouts>>

RecordWrite(w) ==
  /\ At(w, "event", "write")
  /\ \/ Condition(calls[w]) /\ Effect(calls[w]) /\ Acknowledge(w)
     \/ ~Condition(calls[w]) /\ Goto(w, "verify") /\ UNCHANGED table
  /\ UNCHANGED <<late, timeouts>>

\* Faulty variant: an event whose id is taken counts as saved.
AlreadySavedById(e) == events[e.id] # None

(* A conflict may be the event itself, from an earlier delivery. *)
AlreadySaved(e) == events[e.id] = e

RecordVerify(w) ==
  /\ At(w, "event", "verify")
  /\ IF AlreadySaved(calls[w].event) THEN Acknowledge(w) ELSE End(w)
  /\ UNCHANGED <<table, late, timeouts>>

(* ResolveJourney: the link first, then the journey it names. *)
Resolve(w, c) ==
  /\ Start(w, [kind |-> "resolve", step |-> "link", answer |-> None, corr |-> c, id |-> None])
  /\ UNCHANGED <<table, late, timeouts>>

ResolveLink(w) ==
  /\ At(w, "resolve", "link")
  /\ LET j == links[calls[w].corr] IN
     IF j = None THEN End(w)
     ELSE calls' = [calls EXCEPT ![w].step = "journey", ![w].id = j]
  /\ UNCHANGED <<table, late, timeouts>>

ResolveJourney(w) ==
  /\ At(w, "resolve", "journey")
  /\ LET j == journeys[calls[w].id] IN
     IF j # None /\ Has(j.doc, calls[w].corr) THEN End(w) ELSE Corrupt(w)
  /\ UNCHANGED <<table, late, timeouts>>

(* A reply that does not arrive.  A read changes nothing; a transaction may *)
(* take effect at any later time, or never.                                 *)
Timeout(w) ==
  /\ calls[w].step # "done" /\ timeouts < MaxTimeouts
  /\ timeouts' = timeouts + 1
  /\ late' = IF calls[w].step = "write" THEN late \cup {calls[w]} ELSE late
  /\ End(w)
  /\ UNCHANGED table

Land(tx) ==
  /\ late' = late \ {tx}
  /\ Condition(tx) /\ Effect(tx)
  /\ UNCHANGED <<calls, timeouts>>

-----------------------------------------------------------------------------
Init ==
  /\ journeys = [j \in Ids |-> None]
  /\ links = [c \in Correlations |-> None]
  /\ events = [i \in EventIds |-> None]
  /\ index = {}
  /\ calls = [w \in Clients |-> Idle]
  /\ late = {}
  /\ timeouts = 0

Next ==
  \/ \E w \in Clients :
       \/ \E d \in Documents, rev \in 0..MaxRevision : Put(w, d, rev)
       \/ PutRead(w) \/ PutWrite(w)
       \/ \E e \in Events : Record(w, e)
       \/ RecordRead(w) \/ RecordWrite(w) \/ RecordVerify(w)
       \/ \E c \in Correlations : Resolve(w, c)
       \/ ResolveLink(w) \/ ResolveJourney(w)
       \/ Timeout(w)
  \/ \E tx \in late : Land(tx)

Spec == Init /\ [][Next]_vars

-----------------------------------------------------------------------------
(* The properties. *)

StoredEvents == {e \in Events : events[e.id] = e}

(* A read of the store never finds it corrupt: every stored journey is      *)
(* valid, a correlation is claimed by exactly the journey that has it, the  *)
(* search rows are those of the stored events, and an event that names an   *)
(* account is in the journey of that account.  No ResolveJourney, whose two *)
(* reads are apart, answers ErrCorrupt.                                     *)
NeverCorrupt ==
  /\ \A j \in Ids : journeys[j] # None => journeys[j].doc.id = j /\ Valid(journeys[j].doc)
  /\ \A c \in Correlations, j \in Ids :
       links[c] = j <=> journeys[j] # None /\ Has(journeys[j].doc, c)
  /\ index = UNION {Partitions(e) \X {e} : e \in StoredEvents}
  /\ \A e \in StoredEvents :
       /\ journeys[e.journey] # None
       /\ e.account # None => links[Account(e.account)] = e.journey
  /\ \A w \in Clients : calls[w].answer # "corrupt"

(* Everything that `old` says is still said, word for word. *)
Keeps(new, old) ==
  /\ new.id = old.id /\ new.origin = old.origin /\ new.start = old.start
  /\ ToSet(old.corr) \subseteq ToSet(new.corr)
  /\ \A i \in DOMAIN old.owned : i \in DOMAIN new.owned /\ new.owned[i] = old.owned[i]
  /\ old.terminal # None => new.terminal = old.terminal /\ ToSet(new.corr) = ToSet(old.corr)

(* Evidence is only added: a stored journey keeps its identity, its         *)
(* correlations and its ownership, an outcome once accepted is final and    *)
(* closes the journey for further accounts, every change takes the next     *)
(* revision, and a stored event never changes (PutJourney, Record).         *)
HistoryOnlyGrows ==
  [][/\ \A j \in Ids : journeys[j] # None =>
          \/ journeys'[j] = journeys[j]
          \/ journeys'[j].rev = journeys[j].rev + 1 /\ Keeps(journeys'[j].doc, journeys[j].doc)
     /\ \A i \in EventIds : events[i] # None => events'[i] = events[i]]_vars

Acknowledged(w, kind) == calls[w].kind = kind /\ calls[w].answer = "ok"

(* What the store acknowledged is stored and stays: the journey as it was   *)
(* put, or one that follows it, with no second winner of the same revision; *)
(* the very event that was recorded, also when a retry found it there.      *)
AcknowledgedIsStored ==
  \A w \in Clients :
    LET c == calls[w] IN
    /\ Acknowledged(w, "put") =>
         /\ Revision(c.doc.id) > c.rev /\ Keeps(journeys[c.doc.id].doc, c.doc)
         /\ \A v \in Clients \ {w} :
              Acknowledged(v, "put") /\ calls[v].doc.id = c.doc.id => calls[v].rev # c.rev
    /\ Acknowledged(w, "event") => events[c.event.id] = c.event

=============================================================================
