-------------------------- MODULE JourneyStoreProofs --------------------------
(***************************************************************************)
(* Theorems about JourneyStore, for any journeys, events and correlations, *)
(* any number of clients, and replies that are lost in any number.         *)
(***************************************************************************)
EXTENDS JourneyStore, SequenceTheorems, TLAPS

Journey == [doc : Documents, rev : Nat]

IdleCall == [kind : {"none"}, step : {"done"}, answer : {None}]
PutCall == [kind : {"put"}, step : {"read", "write", "done"}, answer : {None, "ok"},
            doc : Documents, rev : Nat]
EventCall == [kind : {"event"}, step : {"read", "write", "verify", "done"}, answer : {None, "ok"},
              event : Events, rev : Nat]
ResolveCall == [kind : {"resolve"}, step : {"link", "journey"}, answer : {None},
                corr : Correlations, id : Ids \cup {None}]

JourneysOK ==
  /\ journeys \in [Ids -> Journey \cup {None}]
  /\ \A j \in Ids : journeys[j] # None =>
       journeys[j].rev > 0 /\ journeys[j].doc.id = j /\ Valid(journeys[j].doc)

LinksOK ==
  /\ links \in [Correlations -> Ids \cup {None}]
  /\ \A c \in Correlations, j \in Ids :
       links[c] = j <=> journeys[j] # None /\ Has(journeys[j].doc, c)

\* The journey of an event is there, with the account that the event names.
InJourney(e) ==
  /\ journeys[e.journey] # None
  /\ e.account # None => Has(journeys[e.journey].doc, Account(e.account))

EventsOK ==
  /\ events \in [EventIds -> Events \cup {None}]
  /\ \A e \in StoredEvents : InJourney(e)
  /\ index = UNION {Partitions(e) \X {e} : e \in StoredEvents}

\* A put about to write follows the journey as it is, or comes too late.
PutOK(c) ==
  /\ c \in PutCall /\ Valid(c.doc)
  /\ c.step = "write" =>
       /\ c.rev <= Revision(c.doc.id)
       /\ c.rev > 0 /\ c.rev = Revision(c.doc.id) => Follows(c.doc, journeys[c.doc.id].doc)
  /\ c.answer = "ok" =>
       /\ c.step = "done" /\ Revision(c.doc.id) > c.rev
       /\ Keeps(journeys[c.doc.id].doc, c.doc)

EventOK(c) ==
  /\ c \in EventCall
  /\ c.step \in {"write", "verify"} => InJourney(c.event)
  /\ c.answer = "ok" => c.step = "done" /\ events[c.event.id] = c.event

\* A link names a journey that has the correlation, and keeps it.
ResolveOK(c) ==
  /\ c \in ResolveCall
  /\ c.step = "journey" => /\ c.id \in Ids /\ journeys[c.id] # None
                           /\ Has(journeys[c.id].doc, c.corr)

CallOK(c) == c \in IdleCall \/ PutOK(c) \/ EventOK(c) \/ ResolveOK(c)

\* No two puts of the same revision were acknowledged.
OneWinner ==
  \A w, v \in Clients :
    /\ w # v /\ Acknowledged(w, "put") /\ Acknowledged(v, "put")
    /\ calls[v].doc.id = calls[w].doc.id
    => calls[v].rev # calls[w].rev

CallsOK ==
  /\ DOMAIN calls = Clients
  /\ \A w \in Clients : CallOK(calls[w])
  /\ OneWinner

LateOK == \A tx \in late : tx.step = "write" /\ (PutOK(tx) \/ EventOK(tx))

Stored == JourneysOK /\ LinksOK /\ EventsOK
Inv == Stored /\ CallsOK /\ LateOK

-----------------------------------------------------------------------------
(* Documents.                                                              *)

LEMMA DocumentFacts ==
  ASSUME NEW d \in Documents
  PROVE  /\ d.id \in Ids /\ d.corr \in Seq(Correlations) /\ d.owned \in Seq(Owners)
         /\ ToSet(d.corr) \subseteq Correlations
BY StoreAssumption DEF Ids, Correlations

LEMMA PrefixElements ==
  ASSUME NEW S, NEW s \in Seq(S), NEW t \in Seq(S), IsPrefix(s, t)
  PROVE  \A i \in DOMAIN s : i \in DOMAIN t /\ t[i] = s[i]
<1>1. /\ Len(s) \in Nat /\ Len(t) \in Nat /\ DOMAIN s = 1..Len(s) /\ DOMAIN t = 1..Len(t)
      /\ Len(s) <= Len(t)
  BY LenProperties DEF IsPrefix
<1>2. ASSUME NEW i \in DOMAIN s
      PROVE  i \in DOMAIN t /\ t[i] = s[i]
  <2>1. i \in 1..Len(s) /\ i \in 1..Len(t)
    BY <1>1
  <2>2. SubSeq(s, 1, Len(s)) = SubSeq(t, 1, Len(s))
    BY DEF IsPrefix
  <2>3. SubSeq(s, 1, Len(s))[i] = s[i] /\ SubSeq(t, 1, Len(s))[i] = t[i]
    BY <1>1, <2>1
  <2>4. QED
    BY <1>1, <2>1, <2>2, <2>3
<1>3. QED
  BY <1>2

LEMMA PrefixSet ==
  ASSUME NEW S, NEW s \in Seq(S), NEW t \in Seq(S), IsPrefix(s, t)
  PROVE  ToSet(s) \subseteq ToSet(t)
<1>1. \A i \in DOMAIN s : i \in DOMAIN t /\ t[i] = s[i]
  BY PrefixElements
<1>2. QED
  BY <1>1 DEF ToSet

\* What follows a journey keeps what it says.
LEMMA FollowsKeeps ==
  ASSUME NEW d \in Documents, NEW old \in Documents, Follows(d, old)
  PROVE  Keeps(d, old)
<1>1. d.corr \in Seq(Correlations) /\ old.corr \in Seq(Correlations)
      /\ d.owned \in Seq(Owners) /\ old.owned \in Seq(Owners)
  BY DocumentFacts
<1>2. ToSet(old.corr) \subseteq ToSet(d.corr)
  BY <1>1, PrefixSet DEF Follows
<1>3. \A i \in DOMAIN old.owned : i \in DOMAIN d.owned /\ d.owned[i] = old.owned[i]
  BY <1>1, PrefixElements DEF Follows
<1>4. QED
  BY <1>2, <1>3 DEF Follows, Keeps

LEMMA KeepsSame ==
  ASSUME NEW d
  PROVE  Keeps(d, d)
BY DEF Keeps

LEMMA KeepsTransitive ==
  ASSUME NEW a, NEW b, NEW c, Keeps(a, b), Keeps(b, c)
  PROVE  Keeps(a, c)
BY DEF Keeps

LEMMA KeepsHas ==
  ASSUME NEW a, NEW b, NEW c, Keeps(a, b), Has(b, c)
  PROVE  Has(a, c)
BY DEF Keeps, Has

-----------------------------------------------------------------------------
(* How the table changes.                                                  *)

\* A journey appears, or stays, or is replaced by one that follows it.
Grows ==
  /\ \A j \in Ids : journeys[j] # None =>
       /\ journeys'[j] # None
       /\ \/ journeys'[j] = journeys[j]
          \/ journeys'[j].rev = journeys[j].rev + 1 /\ Keeps(journeys'[j].doc, journeys[j].doc)
  /\ \A i \in EventIds : events[i] # None => events'[i] = events[i]

LEMMA StoredGrows == UNCHANGED table => Grows
BY DEF table, Grows

LEMMA RevisionFacts ==
  ASSUME JourneysOK, NEW j \in Ids
  PROVE  /\ Revision(j) \in Nat
         /\ Revision(j) > 0 <=> journeys[j] # None
         /\ journeys[j] # None => /\ Revision(j) = journeys[j].rev /\ journeys[j].doc \in Documents
                                  /\ journeys[j].doc.id = j
<1>1. journeys[j] # None => journeys[j] \in Journey /\ journeys[j].rev > 0 /\ journeys[j].doc.id = j
  BY DEF JourneysOK
<1>2. QED
  BY <1>1 DEF Revision, Journey

\* In a table that grew, a journey that stands where it did is the same.
LEMMA GrowsFacts ==
  ASSUME JourneysOK, JourneysOK', Grows, NEW j \in Ids
  PROVE  /\ Revision(j)' >= Revision(j)
         /\ journeys[j] # None =>
              /\ journeys'[j] # None /\ Keeps(journeys'[j].doc, journeys[j].doc)
              /\ Revision(j)' = Revision(j) => journeys'[j] = journeys[j]
<1>1. /\ Revision(j) \in Nat /\ Revision(j)' \in Nat
      /\ Revision(j) > 0 <=> journeys[j] # None
      /\ journeys[j] # None => Revision(j) = journeys[j].rev
      /\ journeys'[j] # None => Revision(j)' = journeys'[j].rev
  BY RevisionFacts DEF Revision, JourneysOK, Journey
<1>2. CASE journeys[j] = None
  BY <1>1, <1>2
<1>3. CASE journeys[j] # None /\ journeys'[j] = journeys[j]
  BY <1>1, <1>3, KeepsSame
<1>4. CASE /\ journeys[j] # None /\ journeys'[j] # None
           /\ journeys'[j].rev = journeys[j].rev + 1 /\ Keeps(journeys'[j].doc, journeys[j].doc)
  BY <1>1, <1>4
<1>5. QED
  BY <1>2, <1>3, <1>4 DEF Grows

-----------------------------------------------------------------------------
(* A put takes effect.                                                     *)

LEMMA PutGrows ==
  ASSUME Stored, NEW tx, PutOK(tx), tx.step = "write", PutCondition(tx), PutEffect(tx)
  PROVE  Grows /\ JourneysOK' /\ Revision(tx.doc.id)' = tx.rev + 1
         /\ journeys'[tx.doc.id].doc = tx.doc /\ journeys'[tx.doc.id] # None
         /\ \A j \in Ids \ {tx.doc.id} : journeys'[j] = journeys[j]
<1> DEFINE d == tx.doc
           new == [doc |-> d, rev |-> tx.rev + 1]
<1>1. d \in Documents /\ tx.rev \in Nat /\ d.id \in Ids /\ Valid(d) /\ tx.rev + 1 \in Nat
  BY DocumentFacts DEF PutOK, PutCall
<1>2. new \in Journey /\ new.doc = d /\ new.rev = tx.rev + 1 /\ new # None
  <2>1. new \in [doc : Documents, rev : Nat] /\ new.doc = d /\ new.rev = tx.rev + 1
    BY <1>1
  <2> HIDE DEF new
  <2>2. QED
    BY <2>1, StoreAssumption DEF Journey
<1>3. journeys' = [journeys EXCEPT ![d.id] = new] /\ events' = events
  BY DEF PutEffect
<1> HIDE DEF new
<1>4. journeys \in [Ids -> Journey \cup {None}]
  BY DEF Stored, JourneysOK
<1>5. journeys' \in [Ids -> Journey \cup {None}] /\ journeys'[d.id] = new
      /\ \A j \in Ids \ {d.id} : journeys'[j] = journeys[j]
  BY <1>1, <1>2, <1>3, <1>4
<1>6. new.rev > 0
  BY <1>1, <1>2
<1>7. JourneysOK'
  <2>1. ASSUME NEW j \in Ids, journeys'[j] # None
        PROVE  journeys'[j].rev > 0 /\ journeys'[j].doc.id = j /\ Valid(journeys'[j].doc)
    <3>1. CASE j = d.id
      BY <1>1, <1>2, <1>5, <1>6, <3>1
    <3>2. CASE j # d.id
      BY <1>5, <2>1, <3>2 DEF Stored, JourneysOK
    <3>3. QED
      BY <3>1, <3>2
  <2>2. QED
    BY <1>5, <2>1 DEF JourneysOK
<1>8. journeys[d.id] # None => new.rev = journeys[d.id].rev + 1 /\ Keeps(d, journeys[d.id].doc)
  <2>1. SUFFICES ASSUME journeys[d.id] # None
                 PROVE  tx.rev = journeys[d.id].rev /\ Keeps(d, journeys[d.id].doc)
    BY <1>2
  <2>2. Revision(d.id) = journeys[d.id].rev /\ Revision(d.id) > 0 /\ journeys[d.id].doc \in Documents
    BY <1>1, <2>1, RevisionFacts DEF Stored
  <2>3. tx.rev = Revision(d.id)
    BY DEF PutCondition
  <2>4. Follows(d, journeys[d.id].doc)
    BY <2>2, <2>3 DEF PutOK
  <2>5. QED
    BY <1>1, <2>2, <2>3, <2>4, FollowsKeeps
<1>9. Grows
  BY <1>2, <1>3, <1>5, <1>8 DEF Grows
<1>10. Revision(d.id)' = tx.rev + 1
  BY <1>1, <1>2, <1>5 DEF Revision
<1>11. QED
  BY <1>2, <1>5, <1>7, <1>9, <1>10

LEMMA PutStored ==
  ASSUME Stored, NEW tx, PutOK(tx), tx.step = "write", PutCondition(tx), PutEffect(tx)
  PROVE  Grows /\ Stored'
<1> DEFINE d == tx.doc
<1>1. /\ Grows /\ JourneysOK' /\ journeys'[d.id] # None /\ journeys'[d.id].doc = d
      /\ \A j \in Ids \ {d.id} : journeys'[j] = journeys[j]
  BY PutGrows
<1>2. d \in Documents /\ d.id \in Ids
  BY DocumentFacts DEF PutOK, PutCall
<1>3. links' = [c \in Correlations |-> IF Has(d, c) THEN d.id ELSE links[c]]
      /\ events' = events /\ index' = index
  BY DEF PutEffect
<1>4. /\ links \in [Correlations -> Ids \cup {None}]
      /\ \A c \in Correlations, j \in Ids :
           links[c] = j <=> journeys[j] # None /\ Has(journeys[j].doc, c)
  BY DEF Stored, LinksOK
<1>5. \A c \in ToSet(d.corr) : links[c] \in {None, d.id}
  BY DEF PutCondition, Claimable
<1>6. ASSUME NEW c \in Correlations, NEW j \in Ids
      PROVE  links'[c] = j <=> journeys'[j] # None /\ Has(journeys'[j].doc, c)
  <2>1. links'[c] = IF Has(d, c) THEN d.id ELSE links[c]
    BY <1>3
  <2>2. CASE Has(d, c) /\ j = d.id
    BY <1>1, <2>1, <2>2
  <2>3. CASE Has(d, c) /\ j # d.id
    <3>1. links[c] # j
      BY <1>5, <2>3, StoreAssumption DEF Has
    <3>2. QED
      BY <1>1, <1>4, <2>1, <2>3, <3>1
  <2>4. CASE ~Has(d, c) /\ j = d.id
    <3>1. links[c] # d.id
      <4>1. journeys[d.id] # None => Keeps(d, journeys[d.id].doc)
        BY <1>1, <1>2, KeepsSame DEF Grows
      <4>2. ~(journeys[d.id] # None /\ Has(journeys[d.id].doc, c))
        BY <2>4, <4>1, KeepsHas
      <4>3. QED
        BY <1>2, <1>4, <4>2
    <3>2. QED
      BY <1>1, <2>1, <2>4, <3>1
  <2>5. CASE ~Has(d, c) /\ j # d.id
    BY <1>1, <1>4, <2>1, <2>5
  <2>6. QED
    BY <2>2, <2>3, <2>4, <2>5
<1>7. links' \in [Correlations -> Ids \cup {None}]
  BY <1>2, <1>3, <1>4
<1>8. LinksOK'
  BY <1>6, <1>7 DEF LinksOK
<1>9. EventsOK'
  <2>1. StoredEvents' = StoredEvents
    BY <1>3 DEF StoredEvents
  <2>2. ASSUME NEW e \in StoredEvents
        PROVE  /\ journeys'[e.journey] # None
               /\ e.account # None => Has(journeys'[e.journey].doc, Account(e.account))
    <3>1. InJourney(e) /\ e.journey \in Ids
      BY StoreAssumption DEF Stored, EventsOK, StoredEvents
    <3>2. journeys'[e.journey] # None /\ Keeps(journeys'[e.journey].doc, journeys[e.journey].doc)
      BY <1>1, <3>1, GrowsFacts DEF InJourney, Stored
    <3>3. QED
      BY <3>1, <3>2, KeepsHas DEF InJourney
  <2>3. QED
    BY <1>3, <2>1, <2>2 DEF Stored, EventsOK, InJourney
<1>10. QED
  BY <1>1, <1>8, <1>9 DEF Stored

\* An event is recorded.
LEMMA EventStored ==
  ASSUME Stored, NEW tx, EventOK(tx), tx.step = "write", EventCondition(tx), EventEffect(tx)
  PROVE  Grows /\ Stored' /\ events'[tx.event.id] = tx.event
<1> DEFINE e == tx.event
<1>1. e \in Events /\ e.id \in EventIds /\ e # None /\ InJourney(e) /\ events[e.id] = None
  BY StoreAssumption DEF EventOK, EventCall, EventIds, EventCondition
<1>2. /\ events' = [events EXCEPT ![e.id] = e] /\ index' = index \cup (Partitions(e) \X {e})
      /\ journeys' = journeys /\ links' = links
  BY DEF EventEffect
<1>3. events \in [EventIds -> Events \cup {None}]
  BY DEF Stored, EventsOK
<1>4. /\ events' \in [EventIds -> Events \cup {None}] /\ events'[e.id] = e
      /\ \A i \in EventIds \ {e.id} : events'[i] = events[i]
  BY <1>1, <1>2, <1>3
<1>5. Grows
  BY <1>1, <1>2, <1>4 DEF Grows
<1>6. StoredEvents' = StoredEvents \cup {e}
  <2>1. ASSUME NEW f \in Events
        PROVE  events'[f.id] = f <=> f = e \/ events[f.id] = f
    <3>1. f.id \in EventIds /\ f # None
      BY StoreAssumption DEF EventIds
    <3>2. QED
      BY <1>1, <1>4, <3>1
  <2>2. QED
    BY <1>1, <2>1 DEF StoredEvents
<1>7. EventsOK'
  <2>1. index = UNION {Partitions(f) \X {f} : f \in StoredEvents}
        /\ \A f \in StoredEvents : InJourney(f)
    BY DEF Stored, EventsOK
  <2>2. index' = UNION {Partitions(f) \X {f} : f \in StoredEvents \cup {e}}
    BY <1>2, <2>1
  <2>3. \A f \in StoredEvents \cup {e} : InJourney(f)
    BY <1>1, <2>1
  <2>4. QED
    BY <1>2, <1>4, <1>6, <2>2, <2>3 DEF EventsOK, InJourney
<1>8. JourneysOK' /\ LinksOK'
  BY <1>2 DEF Stored, JourneysOK, LinksOK
<1>9. QED
  BY <1>4, <1>5, <1>7, <1>8 DEF Stored

-----------------------------------------------------------------------------
(* Calls in a table that grew.                                             *)

LEMMA CallKept ==
  ASSUME Stored, Stored', Grows, NEW c
  PROVE  /\ PutOK(c) => PutOK(c)'
         /\ EventOK(c) => EventOK(c)'
         /\ CallOK(c) => CallOK(c)'
<1> USE DEF Stored
<1>1. ASSUME PutOK(c)
      PROVE  PutOK(c)'
  <2>1. c \in PutCall /\ c.doc \in Documents /\ c.doc.id \in Ids /\ c.rev \in Nat /\ Valid(c.doc)
    BY <1>1, DocumentFacts DEF PutOK, PutCall
  <2> DEFINE j == c.doc.id
  <2>2. /\ Revision(j) \in Nat /\ Revision(j)' \in Nat /\ Revision(j)' >= Revision(j)
        /\ Revision(j) > 0 <=> journeys[j] # None
        /\ journeys[j] # None =>
              /\ journeys'[j] # None /\ Keeps(journeys'[j].doc, journeys[j].doc)
              /\ Revision(j)' = Revision(j) => journeys'[j] = journeys[j]
    <3>1. Revision(j)' \in Nat
      BY <2>1 DEF Revision, JourneysOK, Journey
    <3>2. QED
      BY <2>1, <3>1, RevisionFacts, GrowsFacts
  <2>3. ASSUME c.step = "write"
        PROVE  /\ c.rev <= Revision(j)'
               /\ c.rev > 0 /\ c.rev = Revision(j)' => Follows(c.doc, journeys'[j].doc)
    <3>1. c.rev <= Revision(j) /\ (c.rev > 0 /\ c.rev = Revision(j) => Follows(c.doc, journeys[j].doc))
      BY <1>1, <2>3 DEF PutOK
    <3>2. c.rev = Revision(j)' => Revision(j)' = Revision(j)
      BY <2>1, <2>2, <3>1
    <3>3. QED
      BY <2>1, <2>2, <3>1, <3>2
  <2>4. ASSUME c.answer = "ok"
        PROVE  c.step = "done" /\ Revision(j)' > c.rev /\ Keeps(journeys'[j].doc, c.doc)
    <3>1. c.step = "done" /\ Revision(j) > c.rev /\ Keeps(journeys[j].doc, c.doc)
      BY <1>1, <2>4 DEF PutOK
    <3>2. Revision(j) > 0 /\ Revision(j)' > c.rev
      BY <2>1, <2>2, <3>1
    <3>3. QED
      BY <2>2, <3>1, <3>2, KeepsTransitive
  <2>5. QED
    BY <2>1, <2>3, <2>4 DEF PutOK
<1>2. ASSUME EventOK(c)
      PROVE  EventOK(c)'
  <2>1. c \in EventCall /\ c.event \in Events /\ c.event.journey \in Ids /\ c.event.id \in EventIds
        /\ c.event # None
    BY <1>2, StoreAssumption DEF EventOK, EventCall, EventIds
  <2>2. InJourney(c.event) => InJourney(c.event)'
    BY <2>1, GrowsFacts, KeepsHas DEF InJourney
  <2>3. events[c.event.id] = c.event => events'[c.event.id] = c.event
    BY <2>1 DEF Grows
  <2>4. QED
    BY <1>2, <2>1, <2>2, <2>3 DEF EventOK
<1>3. ASSUME ResolveOK(c)
      PROVE  ResolveOK(c)'
  BY <1>3, GrowsFacts, KeepsHas DEF ResolveOK
<1>4. QED
  BY <1>1, <1>2, <1>3 DEF CallOK

-----------------------------------------------------------------------------
(* The steps of a call.                                                    *)

LEMMA CallKinds ==
  ASSUME NEW c, CallOK(c)
  PROVE  /\ c.kind = "put" => PutOK(c)
         /\ c.kind = "event" => EventOK(c)
         /\ c.kind = "resolve" => ResolveOK(c)
         /\ c.step = "write" => PutOK(c) \/ EventOK(c)
BY DEF CallOK, PutOK, EventOK, ResolveOK, IdleCall, PutCall, EventCall, ResolveCall

LEMMA IdleOK == CallOK(Idle) /\ Idle.answer # "ok"
BY StoreAssumption DEF CallOK, Idle, IdleCall

LEMMA LateKept ==
  ASSUME Inv, Stored', Grows,
         \A tx \in late' : tx \in late \/ (tx.step = "write" /\ (PutOK(tx) \/ EventOK(tx)))
  PROVE  LateOK'
<1>1. ASSUME NEW tx \in late'
      PROVE  tx.step = "write" /\ (PutOK(tx)' \/ EventOK(tx)')
  <2>1. tx.step = "write" /\ (PutOK(tx) \/ EventOK(tx))
    BY DEF Inv, LateOK
  <2>2. QED
    BY <2>1, CallKept DEF Inv
<1>2. QED
  BY <1>1 DEF LateOK, PutOK, EventOK, InJourney, Revision

LEMMA CallsKept ==
  ASSUME Inv, Stored', Grows, UNCHANGED calls
  PROVE  CallsOK'
<1>1. ASSUME NEW w \in Clients
      PROVE  CallOK(calls[w])'
  <2>1. PICK c : c = calls[w]
    OBVIOUS
  <2>2. CallOK(c)'
    BY <2>1, CallKept DEF Inv, CallsOK
  <2>3. calls'[w] = c
    BY <2>1
  <2>4. QED
    BY <2>2, <2>3
<1>2. QED
  BY <1>1 DEF Inv, CallsOK, OneWinner, Acknowledged

\* A call goes on, and no put is acknowledged.
LEMMA CallGoesOn ==
  ASSUME Inv, UNCHANGED table, NEW w \in Clients, NEW next, CallOK(next),
         ~(next.kind = "put" /\ next.answer = "ok"),
         calls' = [calls EXCEPT ![w] = next],
         \A tx \in late' : tx \in late \/ (tx.step = "write" /\ (PutOK(tx) \/ EventOK(tx)))
  PROVE  Inv'
<1>1. Grows /\ Stored'
  BY StoredGrows DEF Inv, Stored, table, JourneysOK, LinksOK, EventsOK, StoredEvents, InJourney
<1>2. LateOK'
  BY <1>1, LateKept
<1>3. /\ DOMAIN calls = Clients /\ DOMAIN calls' = Clients /\ calls'[w] = next
      /\ \A v \in Clients \ {w} : calls'[v] = calls[v]
  BY DEF Inv, CallsOK
<1>4. ASSUME NEW v \in Clients
      PROVE  CallOK(calls[v])'
  <2>1. PICK c : c = calls'[v]
    OBVIOUS
  <2>2. CallOK(c)
    BY <1>3, <2>1 DEF Inv, CallsOK
  <2>3. CallOK(c)'
    BY <1>1, <2>2, CallKept DEF Inv
  <2>4. QED
    BY <2>1, <2>3
<1>5. OneWinner'
  BY <1>3 DEF Inv, CallsOK, OneWinner, Acknowledged
<1>6. QED
  BY <1>1, <1>2, <1>3, <1>4, <1>5 DEF Inv, CallsOK


\* What a call may become, by its kind.
LEMMA PutSteps ==
  ASSUME Inv, NEW w \in Clients, calls[w].kind = "put"
  PROVE  LET c == calls[w] IN
         /\ PutOK(c) /\ c.doc.id \in Ids
         /\ [c EXCEPT !.step = "done", !.answer = "ok"] \in PutCall
         /\ [c EXCEPT !.step = "write"] \in PutCall
<1>1. PutOK(calls[w])
  BY CallKinds DEF Inv, CallsOK
<1>2. calls[w] \in PutCall
  BY <1>1 DEF PutOK
<1>3. QED
  BY <1>1, <1>2, DocumentFacts DEF PutCall

LEMMA EventSteps ==
  ASSUME Inv, NEW w \in Clients, calls[w].kind = "event"
  PROVE  LET c == calls[w] IN
         /\ EventOK(c)
         /\ [c EXCEPT !.step = "done", !.answer = "ok"] \in EventCall
         /\ [c EXCEPT !.step = "verify"] \in EventCall
         /\ \A r \in Nat : [c EXCEPT !.step = "write", !.rev = r] \in EventCall
<1>1. EventOK(calls[w])
  BY CallKinds DEF Inv, CallsOK
<1>2. calls[w] \in EventCall
  BY <1>1 DEF EventOK
<1>3. QED
  BY <1>1, <1>2 DEF EventCall

LEMMA EndOK ==
  ASSUME Inv, NEW w \in Clients, End(w), UNCHANGED <<table, late>>
  PROVE  Inv'
BY IdleOK, CallGoesOn DEF End

LEMMA PutStarts ==
  ASSUME Inv, NEW w \in Clients, NEW d \in Documents, NEW rev \in 0..MaxRevision, Put(w, d, rev)
  PROVE  Inv'
<1> DEFINE step == IF rev = 0 THEN "write" ELSE "read"
           next == [kind |-> "put", step |-> step, answer |-> None, doc |-> d, rev |-> rev]
<1>1. rev \in Nat /\ Valid(d) /\ d.id \in Ids
  BY DocumentFacts, StoreAssumption DEF Put
<1>2. next \in PutCall /\ next.kind = "put" /\ next.step = step /\ next.answer = None
      /\ next.doc = d /\ next.rev = rev
  BY <1>1 DEF PutCall
<1>3. calls' = [calls EXCEPT ![w] = next] /\ UNCHANGED <<table, late>>
  BY DEF Put, Start
<1>4. Revision(d.id) \in Nat
  BY <1>1, RevisionFacts DEF Inv, Stored
<1> HIDE DEF next
<1>5. PutOK(next)
  BY <1>1, <1>2, <1>4, StoreAssumption DEF PutOK
<1>6. CallOK(next) /\ next.answer # "ok"
  BY <1>2, <1>5, StoreAssumption DEF CallOK
<1>7. QED
  BY <1>3, <1>6, CallGoesOn

LEMMA PutReadOK ==
  ASSUME Inv, NEW w \in Clients, PutRead(w)
  PROVE  Inv'
<1> DEFINE c == calls[w]
           old == journeys[c.doc.id]
           next == [c EXCEPT !.step = "write"]
<1>1. calls[w].kind = "put" /\ c.step = "read" /\ UNCHANGED <<table, late>>
  BY DEF PutRead, At
<1>2. PutOK(c) /\ c.doc.id \in Ids /\ next \in PutCall
  BY <1>1, PutSteps
<1>3. CASE End(w)
  BY <1>1, <1>3, EndOK
<1>4. CASE old # None /\ old.rev = c.rev /\ Follows(c.doc, old.doc) /\ Goto(w, "write")
  <2>1. next.doc = c.doc /\ next.rev = c.rev /\ next.step = "write" /\ next.answer = c.answer
        /\ next.kind = "put"
    BY <1>1, <1>2 DEF PutOK, PutCall
  <2>2. c.answer # "ok" /\ Valid(c.doc)
    BY <1>1, <1>2 DEF PutOK
  <2>3. Revision(c.doc.id) = c.rev /\ Revision(c.doc.id) \in Nat
    BY <1>2, <1>4, RevisionFacts DEF Inv, Stored
  <2>4. calls' = [calls EXCEPT ![w] = next]
    BY <1>4 DEF Goto, Inv, CallsOK
  <2> HIDE DEF next
  <2>5. PutOK(next)
    BY <1>2, <1>4, <2>1, <2>2, <2>3 DEF PutOK
  <2>6. CallOK(next)
    BY <2>5 DEF CallOK
  <2>7. QED
    BY <1>1, <2>1, <2>2, <2>4, <2>6, CallGoesOn
<1>5. QED
  BY <1>3, <1>4 DEF PutRead

\* The write of a put takes effect and is acknowledged.
LEMMA PutWriteOK ==
  ASSUME Inv, NEW w \in Clients, PutWrite(w)
  PROVE  Inv'
<1> DEFINE next == [calls[w] EXCEPT !.step = "done", !.answer = "ok"]
<1>1. calls[w].kind = "put" /\ calls[w].step = "write" /\ late' = late
  BY DEF PutWrite, At
<1>2. CASE End(w) /\ UNCHANGED table
  BY <1>1, <1>2, EndOK
<1>3. CASE Condition(calls[w]) /\ Effect(calls[w]) /\ Acknowledge(w)
  <2>1. PICK c, n : c = calls[w] /\ n = next
    OBVIOUS
  <2>2. PutOK(c) /\ c.doc.id \in Ids /\ n \in PutCall /\ c.step = "write" /\ c \in PutCall
    BY <1>1, <2>1, PutSteps DEF PutOK
  <2>3. n.doc = c.doc /\ n.rev = c.rev /\ n.step = "done" /\ n.answer = "ok" /\ n.kind = "put"
        /\ c.kind = "put" /\ c.rev \in Nat
    BY <2>1, <2>2 DEF PutCall
  <2>4. calls' = [calls EXCEPT ![w] = n]
    BY <1>3, <2>1 DEF Acknowledge, Inv, CallsOK
  <2>5. PutCondition(c) /\ PutEffect(c)
    BY <1>1, <1>3, <2>1 DEF Condition, Effect
  <2>6. Grows /\ Stored'
    BY <2>2, <2>5, PutStored DEF Inv
  <2>7. Revision(c.doc.id)' = c.rev + 1 /\ journeys'[c.doc.id].doc = c.doc
    BY <2>2, <2>5, PutGrows DEF Inv
  <2>8. LateOK'
    BY <1>1, <2>6, LateKept
  <2>9. PutOK(n)'
    <3>1. Valid(n.doc) /\ Keeps(journeys'[n.doc.id].doc, n.doc) /\ Revision(n.doc.id)' > n.rev
      BY <2>2, <2>3, <2>7, KeepsSame DEF PutOK
    <3>2. QED
      BY <2>2, <2>3, <3>1 DEF PutOK
  <2>10. /\ DOMAIN calls' = Clients /\ calls'[w] = n
         /\ \A v \in Clients \ {w} : calls'[v] = calls[v]
    BY <2>4 DEF Inv, CallsOK
  <2>11. ASSUME NEW v \in Clients
         PROVE  CallOK(calls[v])'
    <3>1. CASE v = w
      BY <2>9, <2>10, <3>1 DEF CallOK
    <3>2. CASE v # w
      <4>1. PICK k : k = calls'[v]
        OBVIOUS
      <4>2. CallOK(k)
        BY <2>10, <3>2, <4>1 DEF Inv, CallsOK
      <4>3. CallOK(k)'
        BY <2>6, <4>2, CallKept DEF Inv
      <4>4. QED
        BY <4>1, <4>3
    <3>3. QED
      BY <3>1, <3>2
  <2>12. ASSUME NEW v \in Clients, v # w, Acknowledged(v, "put"), calls[v].doc.id = c.doc.id
         PROVE  calls[v].rev # c.rev
    <3>1. PutOK(calls[v])
      BY <2>12, CallKinds DEF Inv, CallsOK, Acknowledged
    <3>2. Revision(c.doc.id) > calls[v].rev
      BY <2>12, <3>1 DEF PutOK, Acknowledged
    <3>3. Revision(c.doc.id) = c.rev
      BY <2>5 DEF PutCondition
    <3>4. calls[v].rev \in Nat
      BY <3>1 DEF PutOK, PutCall
    <3>5. QED
      BY <2>3, <3>2, <3>3, <3>4
  <2>13. OneWinner'
    BY <2>3, <2>10, <2>12 DEF Inv, CallsOK, OneWinner, Acknowledged
  <2>14. QED
    BY <2>6, <2>8, <2>10, <2>11, <2>13 DEF Inv, CallsOK
<1>4. QED
  BY <1>2, <1>3 DEF PutWrite

LEMMA RecordStarts ==
  ASSUME Inv, NEW w \in Clients, NEW e \in Events, Record(w, e)
  PROVE  Inv'
<1> DEFINE next == [kind |-> "event", step |-> "read", answer |-> None, event |-> e, rev |-> 0]
<1>1. next \in EventCall /\ next.kind = "event" /\ next.step = "read" /\ next.answer = None
  BY DEF EventCall
<1>2. calls' = [calls EXCEPT ![w] = next] /\ UNCHANGED <<table, late>>
  BY DEF Record, Start
<1> HIDE DEF next
<1>3. CallOK(next)
  BY <1>1, StoreAssumption DEF CallOK, EventOK
<1>4. QED
  BY <1>1, <1>2, <1>3, CallGoesOn

LEMMA RecordReadOK ==
  ASSUME Inv, NEW w \in Clients, RecordRead(w)
  PROVE  Inv'
<1> DEFINE c == calls[w]
           j == journeys[c.event.journey]
           next == [c EXCEPT !.step = "write", !.rev = j.rev]
<1>1. calls[w].kind = "event" /\ c.step = "read" /\ UNCHANGED <<table, late>>
  BY DEF RecordRead, At
<1>2. CASE End(w)
  BY <1>1, <1>2, EndOK
<1>3. CASE /\ j # None /\ (c.event.account = None \/ Has(j.doc, Account(c.event.account)))
           /\ calls' = [calls EXCEPT ![w] = next]
  <2>1. EventOK(c) /\ c.event \in Events /\ c.event.journey \in Ids /\ c \in EventCall
    BY <1>1, EventSteps, StoreAssumption DEF EventOK, EventCall
  <2>2. j.rev \in Nat
    BY <1>3, <2>1 DEF Inv, Stored, JourneysOK, Journey
  <2>3. next \in EventCall
    BY <1>1, <2>2, EventSteps
  <2>4. next.event = c.event /\ next.answer = c.answer /\ next.kind = "event"
    BY <2>1 DEF EventCall
  <2>5. InJourney(c.event) /\ c.answer # "ok"
    BY <1>1, <1>3, <2>1 DEF InJourney, EventOK
  <2> HIDE DEF next
  <2>6. CallOK(next)
    BY <2>3, <2>4, <2>5 DEF CallOK, EventOK
  <2>7. QED
    BY <1>1, <1>3, <2>4, <2>6, CallGoesOn
<1>4. QED
  BY <1>2, <1>3 DEF RecordRead, Inv, CallsOK

LEMMA RecordWriteOK ==
  ASSUME Inv, NEW w \in Clients, RecordWrite(w)
  PROVE  Inv'
<1> DEFINE next == [calls[w] EXCEPT !.step = "done", !.answer = "ok"]
           verify == [calls[w] EXCEPT !.step = "verify"]
<1>1. calls[w].kind = "event" /\ calls[w].step = "write" /\ late' = late
  BY DEF RecordWrite, At
<1>2. CASE Goto(w, "verify") /\ UNCHANGED table
  <2>1. calls' = [calls EXCEPT ![w] = verify]
    BY <1>2 DEF Goto, Inv, CallsOK
  <2>2. EventOK(calls[w]) /\ verify \in EventCall /\ calls[w] \in EventCall
    BY <1>1, EventSteps DEF EventOK
  <2>3. verify.event = calls[w].event /\ verify.answer = calls[w].answer /\ verify.kind = "event"
    BY <2>2 DEF EventCall
  <2> HIDE DEF verify
  <2>4. CallOK(verify)
    BY <1>1, <2>2, <2>3 DEF CallOK, EventOK
  <2>5. QED
    BY <1>1, <1>2, <2>1, <2>3, <2>4, CallGoesOn
<1>3. CASE Condition(calls[w]) /\ Effect(calls[w]) /\ Acknowledge(w)
  <2>1. PICK c, n : c = calls[w] /\ n = next
    OBVIOUS
  <2>2. EventOK(c) /\ n \in EventCall /\ c.step = "write" /\ c \in EventCall /\ c.kind = "event"
    BY <1>1, <2>1, EventSteps DEF EventOK
  <2>3. n.event = c.event /\ n.step = "done" /\ n.answer = "ok" /\ n.kind = "event"
    BY <2>1, <2>2 DEF EventCall
  <2>4. calls' = [calls EXCEPT ![w] = n]
    BY <1>3, <2>1 DEF Acknowledge, Inv, CallsOK
  <2>5. EventCondition(c) /\ EventEffect(c)
    BY <1>1, <1>3, <2>1 DEF Condition, Effect
  <2>6. Grows /\ Stored' /\ events'[c.event.id] = c.event
    BY <2>2, <2>5, EventStored DEF Inv
  <2>7. LateOK'
    BY <1>1, <2>6, LateKept
  <2>8. EventOK(n)'
    BY <2>2, <2>3, <2>6 DEF EventOK
  <2>9. /\ DOMAIN calls' = Clients /\ calls'[w] = n
        /\ \A v \in Clients \ {w} : calls'[v] = calls[v]
    BY <2>4 DEF Inv, CallsOK
  <2>10. ASSUME NEW v \in Clients
         PROVE  CallOK(calls[v])'
    <3>1. CASE v = w
      BY <2>8, <2>9, <3>1 DEF CallOK
    <3>2. CASE v # w
      <4>1. PICK k : k = calls'[v]
        OBVIOUS
      <4>2. CallOK(k)
        BY <2>9, <3>2, <4>1 DEF Inv, CallsOK
      <4>3. CallOK(k)'
        BY <2>6, <4>2, CallKept DEF Inv
      <4>4. QED
        BY <4>1, <4>3
    <3>3. QED
      BY <3>1, <3>2
  <2>11. OneWinner'
    BY <2>3, <2>9 DEF Inv, CallsOK, OneWinner, Acknowledged
  <2>12. QED
    BY <2>6, <2>7, <2>9, <2>10, <2>11 DEF Inv, CallsOK
<1>4. QED
  BY <1>2, <1>3 DEF RecordWrite

LEMMA RecordVerifyOK ==
  ASSUME Inv, NEW w \in Clients, RecordVerify(w)
  PROVE  Inv'
<1> DEFINE next == [calls[w] EXCEPT !.step = "done", !.answer = "ok"]
<1>1. calls[w].kind = "event" /\ UNCHANGED <<table, late>>
  BY DEF RecordVerify, At
<1>2. CASE End(w)
  BY <1>1, <1>2, EndOK
<1>3. CASE AlreadySaved(calls[w].event) /\ Acknowledge(w)
  <2>1. calls' = [calls EXCEPT ![w] = next]
    BY <1>3 DEF Acknowledge, Inv, CallsOK
  <2>2. next \in EventCall /\ calls[w] \in EventCall
    BY <1>1, EventSteps DEF EventOK
  <2>3. next.event = calls[w].event /\ next.step = "done" /\ next.kind = "event"
    BY <2>2 DEF EventCall
  <2> HIDE DEF next
  <2>4. CallOK(next)
    BY <1>3, <2>2, <2>3 DEF CallOK, EventOK, AlreadySaved
  <2>5. QED
    BY <1>1, <2>1, <2>3, <2>4, CallGoesOn
<1>4. QED
  BY <1>2, <1>3 DEF RecordVerify

\* The link that a call follows names a journey that has the correlation, then and later.
LEMMA ResolveOneOK ==
  ASSUME Inv, NEW w \in Clients,
         (\E c \in Correlations : Resolve(w, c)) \/ ResolveLink(w) \/ ResolveJourney(w)
  PROVE  Inv' /\ (ResolveJourney(w) => End(w))
<1>1. ASSUME NEW c \in Correlations, Resolve(w, c)
      PROVE  Inv'
  <2> DEFINE next == [kind |-> "resolve", step |-> "link", answer |-> None, corr |-> c, id |-> None]
  <2>1. next \in ResolveCall /\ next.step = "link" /\ next.kind = "resolve"
    BY DEF ResolveCall
  <2>2. calls' = [calls EXCEPT ![w] = next] /\ UNCHANGED <<table, late>>
    BY <1>1 DEF Resolve, Start
  <2> HIDE DEF next
  <2>3. CallOK(next)
    BY <2>1 DEF CallOK, ResolveOK
  <2>4. QED
    BY <2>1, <2>2, <2>3, CallGoesOn
<1>2. ASSUME ResolveLink(w)
      PROVE  Inv'
  <2> DEFINE c == calls[w]
             j == links[c.corr]
             next == [c EXCEPT !.step = "journey", !.id = j]
  <2>1. c.kind = "resolve" /\ UNCHANGED <<table, late>>
    BY <1>2 DEF ResolveLink, At
  <2>2. c \in ResolveCall /\ c.corr \in Correlations
    BY <2>1, CallKinds DEF Inv, CallsOK, ResolveOK, ResolveCall
  <2>3. CASE End(w)
    BY <2>1, <2>3, EndOK
  <2>4. CASE j # None /\ calls' = [calls EXCEPT ![w] = next]
    <3>1. j \in Ids /\ journeys[j] # None /\ Has(journeys[j].doc, c.corr)
      BY <2>2, <2>4 DEF Inv, Stored, LinksOK
    <3>2. next \in ResolveCall /\ next.id = j /\ next.corr = c.corr /\ next.kind = "resolve"
      BY <2>2, <3>1 DEF ResolveCall
    <3> HIDE DEF next
    <3>3. CallOK(next)
      BY <3>1, <3>2 DEF CallOK, ResolveOK
    <3>4. QED
      BY <2>1, <2>4, <3>2, <3>3, CallGoesOn
  <2>5. QED
    BY <1>2, <2>3, <2>4 DEF ResolveLink, Inv, CallsOK
<1>3. ASSUME ResolveJourney(w)
      PROVE  End(w) /\ Inv'
  <2>1. calls[w].kind = "resolve" /\ calls[w].step = "journey" /\ UNCHANGED <<table, late>>
    BY <1>3 DEF ResolveJourney, At
  <2>2. ResolveOK(calls[w])
    BY <2>1, CallKinds DEF Inv, CallsOK
  <2>3. journeys[calls[w].id] # None /\ Has(journeys[calls[w].id].doc, calls[w].corr)
    BY <2>1, <2>2 DEF ResolveOK
  <2>4. End(w)
    BY <1>3, <2>3 DEF ResolveJourney
  <2>5. QED
    BY <2>1, <2>4, EndOK
<1>4. QED
  BY <1>1, <1>2, <1>3

\* A transaction whose reply is lost may still take effect.
LEMMA TimeoutOK ==
  ASSUME Inv, NEW w \in Clients, Timeout(w)
  PROVE  Inv'
<1>1. calls' = [calls EXCEPT ![w] = Idle] /\ UNCHANGED table
  BY DEF Timeout, End
<1>2. CallOK(calls[w])
  BY DEF Inv, CallsOK
<1>3. \A tx \in late' : tx \in late \/ (tx.step = "write" /\ (PutOK(tx) \/ EventOK(tx)))
  BY <1>2, CallKinds DEF Timeout
<1>4. QED
  BY <1>1, <1>3, IdleOK, CallGoesOn

LEMMA LandOK ==
  ASSUME Inv, NEW tx \in late, Land(tx)
  PROVE  Inv'
<1>1. tx.step = "write" /\ Condition(tx) /\ Effect(tx) /\ UNCHANGED calls
      /\ late' \subseteq late /\ (PutOK(tx) \/ EventOK(tx))
  BY DEF Inv, LateOK, Land
<1>2. Grows /\ Stored'
  <2>1. CASE PutOK(tx)
    <3>1. tx.kind = "put"
      BY <2>1 DEF PutOK, PutCall
    <3>2. QED
      BY <1>1, <2>1, <3>1, PutStored DEF Condition, Effect, Inv
  <2>2. CASE EventOK(tx)
    <3>1. tx.kind = "event"
      BY <2>2 DEF EventOK, EventCall
    <3>2. QED
      BY <1>1, <2>2, <3>1, EventStored DEF Condition, Effect, Inv
  <2>3. QED
    BY <1>1, <2>1, <2>2
<1>3. QED
  BY <1>1, <1>2, LateKept, CallsKept DEF Inv


-----------------------------------------------------------------------------
LEMMA InitOK == Init => Inv
<1> SUFFICES ASSUME Init
             PROVE  Inv
  OBVIOUS
<1>1. JourneysOK /\ LinksOK
  BY StoreAssumption DEF Init, JourneysOK, LinksOK
<1>2. StoredEvents = {}
  BY StoreAssumption DEF Init, StoredEvents, EventIds
<1>3. EventsOK
  BY <1>2 DEF Init, EventsOK
<1>4. CallsOK
  BY IdleOK DEF Init, CallsOK, OneWinner, Acknowledged
<1>5. LateOK
  BY DEF Init, LateOK
<1>6. QED
  BY <1>1, <1>3, <1>4, <1>5 DEF Inv, Stored

LEMMA NextOK ==
  ASSUME Inv, Next
  PROVE  Inv'
<1>1. ASSUME NEW w \in Clients, NEW d \in Documents, NEW rev \in 0..MaxRevision, Put(w, d, rev)
      PROVE  Inv'
  BY <1>1, PutStarts
<1>2. ASSUME NEW w \in Clients, PutRead(w) \/ PutWrite(w)
      PROVE  Inv'
  BY <1>2, PutReadOK, PutWriteOK
<1>3. ASSUME NEW w \in Clients, NEW e \in Events, Record(w, e)
      PROVE  Inv'
  BY <1>3, RecordStarts
<1>4. ASSUME NEW w \in Clients, RecordRead(w) \/ RecordWrite(w) \/ RecordVerify(w)
      PROVE  Inv'
  BY <1>4, RecordReadOK, RecordWriteOK, RecordVerifyOK
<1>5. ASSUME NEW w \in Clients,
             (\E c \in Correlations : Resolve(w, c)) \/ ResolveLink(w) \/ ResolveJourney(w)
      PROVE  Inv'
  BY <1>5, ResolveOneOK
<1>6. ASSUME NEW w \in Clients, Timeout(w)
      PROVE  Inv'
  BY <1>6, TimeoutOK
<1>7. ASSUME NEW tx \in late, Land(tx)
      PROVE  Inv'
  BY <1>7, LandOK
<1>8. QED
  BY <1>1, <1>2, <1>3, <1>4, <1>5, <1>6, <1>7 DEF Next

LEMMA VarsSame ==
  ASSUME Inv, UNCHANGED vars
  PROVE  Inv'
<1>1. UNCHANGED <<table, calls, late>>
  BY DEF vars, table
<1>2. Grows /\ Stored'
  BY <1>1, StoredGrows DEF Inv, Stored, table, JourneysOK, LinksOK, EventsOK, StoredEvents, InJourney
<1>3. QED
  BY <1>1, <1>2, LateKept, CallsKept DEF Inv

\* The inductive invariant: the rows of the table agree, and every write under way follows
\* what it will replace or will be refused (PutJourney, Record).
THEOREM Invariant == Spec => []Inv
<1>1. Inv /\ [Next]_vars => Inv'
  BY NextOK, VarsSame
<1>2. QED
  BY InitOK, <1>1, PTL DEF Spec

\* No read finds the store corrupt, however producers, retries and late transactions
\* interleave (audit.PutJourney, Record and ResolveJourney of the DynamoDB store).
THEOREM NeverCorruptHolds == Spec => []NeverCorrupt
<1>1. ASSUME Inv
      PROVE  NeverCorrupt
  <2>1. \A j \in Ids : journeys[j] # None => journeys[j].doc.id = j /\ Valid(journeys[j].doc)
    BY <1>1 DEF Inv, Stored, JourneysOK
  <2>2. \A c \in Correlations, j \in Ids :
          links[c] = j <=> journeys[j] # None /\ Has(journeys[j].doc, c)
    BY <1>1 DEF Inv, Stored, LinksOK
  <2>3. index = UNION {Partitions(e) \X {e} : e \in StoredEvents}
    BY <1>1 DEF Inv, Stored, EventsOK
  <2>4. ASSUME NEW e \in StoredEvents
        PROVE  /\ journeys[e.journey] # None
               /\ e.account # None => links[Account(e.account)] = e.journey
    <3>1. InJourney(e) /\ e.journey \in Ids
      BY <1>1, StoreAssumption DEF Inv, Stored, EventsOK, StoredEvents
    <3>2. ASSUME e.account # None
          PROVE  links[Account(e.account)] = e.journey
      <4>1. Has(journeys[e.journey].doc, Account(e.account)) /\ journeys[e.journey] # None
        BY <3>1, <3>2 DEF InJourney
      <4>2. journeys[e.journey].doc \in Documents
        BY <1>1, <3>1, <4>1, RevisionFacts DEF Inv, Stored
      <4>3. Account(e.account) \in Correlations
        BY <4>1, <4>2, DocumentFacts DEF Has
      <4>4. QED
        BY <2>2, <3>1, <4>1, <4>3
    <3>3. QED
      BY <3>1, <3>2 DEF InJourney
  <2>5. ASSUME NEW w \in Clients
        PROVE  calls[w].answer # "corrupt"
    <3>1. CallOK(calls[w])
      BY <1>1 DEF Inv, CallsOK
    <3>2. QED
      BY <3>1, StoreAssumption
      DEF CallOK, PutOK, EventOK, ResolveOK, IdleCall, PutCall, EventCall, ResolveCall
  <2>6. QED
    BY <2>1, <2>2, <2>3, <2>4, <2>5 DEF NeverCorrupt
<1>2. QED
  BY <1>1, Invariant, PTL

\* What was acknowledged is stored and stays, also when a reply was lost and the producer
\* tried again (PutJourney, Record).
THEOREM AcknowledgedIsStoredHolds == Spec => []AcknowledgedIsStored
<1>1. ASSUME Inv, NEW w \in Clients
      PROVE  LET c == calls[w] IN
             /\ Acknowledged(w, "put") =>
                  /\ Revision(c.doc.id) > c.rev /\ Keeps(journeys[c.doc.id].doc, c.doc)
                  /\ \A v \in Clients \ {w} :
                       Acknowledged(v, "put") /\ calls[v].doc.id = c.doc.id => calls[v].rev # c.rev
             /\ Acknowledged(w, "event") => events[c.event.id] = c.event
  <2>1. CallOK(calls[w])
    BY <1>1 DEF Inv, CallsOK
  <2>2. Acknowledged(w, "put") =>
          Revision(calls[w].doc.id) > calls[w].rev
          /\ Keeps(journeys[calls[w].doc.id].doc, calls[w].doc)
    BY <2>1, CallKinds DEF Acknowledged, PutOK
  <2>3. Acknowledged(w, "event") => events[calls[w].event.id] = calls[w].event
    BY <2>1, CallKinds DEF Acknowledged, EventOK
  <2>4. QED
    BY <1>1, <2>2, <2>3 DEF Inv, CallsOK, OneWinner
<1>2. Inv => AcknowledgedIsStored
  BY <1>1 DEF AcknowledgedIsStored
<1>3. QED
  BY <1>2, Invariant, PTL

-----------------------------------------------------------------------------
\* A step changes the table by the effect of one transaction whose condition holds.
LEMMA NextGrows ==
  ASSUME Inv, [Next]_vars
  PROVE  Grows
<1>1. CASE UNCHANGED table
  BY <1>1, StoredGrows
<1>2. ASSUME NEW tx, PutOK(tx) \/ EventOK(tx), tx.step = "write", Condition(tx), Effect(tx)
      PROVE  Grows
  <2>1. CASE PutOK(tx)
    <3>1. tx.kind = "put"
      BY <2>1 DEF PutOK, PutCall
    <3>2. QED
      BY <1>2, <2>1, <3>1, PutStored DEF Condition, Effect, Inv
  <2>2. CASE EventOK(tx)
    <3>1. tx.kind = "event"
      BY <2>2 DEF EventOK, EventCall
    <3>2. QED
      BY <1>2, <2>2, <3>1, EventStored DEF Condition, Effect, Inv
  <2>3. QED
    BY <1>2, <2>1, <2>2
<1>3. ASSUME NEW w \in Clients, PutWrite(w) \/ RecordWrite(w)
      PROVE  Grows
  <2>1. UNCHANGED table
        \/ (calls[w].step = "write" /\ Condition(calls[w]) /\ Effect(calls[w]))
    BY <1>3 DEF PutWrite, RecordWrite, At
  <2>2. calls[w].step = "write" => PutOK(calls[w]) \/ EventOK(calls[w])
    BY CallKinds DEF Inv, CallsOK
  <2>3. QED
    BY <1>1, <1>2, <2>1, <2>2
<1>4. ASSUME NEW tx \in late, Land(tx)
      PROVE  Grows
  BY <1>2, <1>4 DEF Inv, LateOK, Land
<1>5. ASSUME NEW w \in Clients,
             \/ \E d \in Documents, rev \in 0..MaxRevision : Put(w, d, rev)
             \/ PutRead(w)
             \/ \E e \in Events : Record(w, e)
             \/ RecordRead(w) \/ RecordVerify(w)
             \/ \E c \in Correlations : Resolve(w, c)
             \/ ResolveLink(w) \/ ResolveJourney(w)
             \/ Timeout(w)
      PROVE  UNCHANGED table
  BY <1>5 DEF Put, PutRead, Record, RecordRead, RecordVerify, Resolve, ResolveLink,
              ResolveJourney, Timeout
<1>6. CASE UNCHANGED vars
  BY <1>1, <1>6 DEF vars, table
<1>7. QED
  BY <1>1, <1>3, <1>4, <1>5, <1>6 DEF Next

\* The history only grows: a stored journey keeps its evidence, takes one revision after the
\* other, and keeps an accepted outcome; a stored event never changes (PutJourney, Record).
THEOREM HistoryOnlyGrowsHolds == Spec => HistoryOnlyGrows
<1>1. Inv /\ [Next]_vars =>
        [/\ \A j \in Ids : journeys[j] # None =>
              \/ journeys'[j] = journeys[j]
              \/ journeys'[j].rev = journeys[j].rev + 1 /\ Keeps(journeys'[j].doc, journeys[j].doc)
         /\ \A i \in EventIds : events[i] # None => events'[i] = events[i]]_vars
  BY NextGrows DEF Grows
<1>2. QED
  BY <1>1, Invariant, PTL DEF Spec, HistoryOnlyGrows

=============================================================================
