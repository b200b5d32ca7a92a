---------------------------- MODULE HomePageProofs ----------------------------
(***************************************************************************)
(* A theorem about HomePage, for any names, versions and fleets, any       *)
(* number of requests at once, of clicks, of changes and of faults.        *)
(***************************************************************************)
EXTENDS HomePage, SequenceTheorems, TLAPS

Live == [queue : Queues, fleet : Fleets]
Readings == [queue : Queues, fleet : Fleets \cup {None}, missing : SUBSET (Slots \cup {Landed}),
             overtaken : BOOLEAN]
Kinds == {"poll", "decide", "withdraw", "save", "submit", "account", "edit", "cancel", "sync"}

\* What is left to do: the end of a script, or the card of a refusal.
SyncTodos == {<<"queue", "core", "rows">>, <<"core", "rows">>}
CardTodos == {<<"rows">>, <<>>}
EarlyTodos == {<<"queue">>, <<"queue", "rows">>, <<"core">>, <<"page", "core">>,
               <<"core", "queue", "rows">>, <<"page", "core", "queue", "rows">>}
Todos == SyncTodos \cup CardTodos \cup EarlyTodos

\* A reading that misses a change is known to be overtaken by it.
Told(reading) == reading.missing # {} => reading.overtaken

Reads(todo) == todo # <<>> /\ Head(todo) \in {"page", "queue", "rows"}

\* The fields of a request; of any name, version and rows.
RequestIn(name, ver, rows) ==
  [kind : Kinds, name : {name}, ver : {ver}, todo : Todos,
   step : {"check", "records", "store"}, listing : Readings,
   card : Readings \cup {Unavailable}, rows : {rows},
   outcome : {"done", "refused", "error", "row"}, late : BOOLEAN]
RequestOf(q) == RequestIn(q.name, q.ver, q.rows)

\* The card is read after the change, but for a sync, whose change is of nobody.
RequestOK(q) ==
  /\ q \in RequestOf(q)
  /\ q.kind # "sync" => q.todo \notin SyncTodos /\ (q.card # Unavailable => q.todo \in CardTodos)
  /\ q.step = "store" => Reads(q.todo) /\ Told(q.listing)

\* The card of a request does not miss its own change, that of a poll no change at all.
CardOK(r, q) ==
  q.card # Unavailable =>
    IF r = Poll THEN q.late \/ Told(q.card)
    ELSE r \in q.card.missing => q.card.overtaken

LiveOK == live \in Live
CacheOK == cache # None => cache \in Readings /\ Told(cache)
SentOK ==
  /\ DOMAIN sent = Requests
  /\ \A r \in Requests : sent[r] # None => RequestOK(sent[r]) /\ CardOK(r, sent[r])

\* A poll waits for no action, and an action outdates it.
PollOK == sent[Poll] = None \/ sent[Poll].late \/ Running = {}

Inv == LiveOK /\ CacheOK /\ SentOK /\ PollOK

-----------------------------------------------------------------------------
(* What is left to do.                                                     *)

LEMMA TodoFacts ==
  /\ \A t \in Todos : t # <<>> => Tail(t) \in Todos
  /\ \A t \in Todos \ SyncTodos : t # <<>> => Tail(t) \notin SyncTodos
  /\ \A t \in Todos \ SyncTodos : t # <<>> /\ Head(t) = "queue" => Tail(t) \in CardTodos
  /\ \A t \in CardTodos : t # <<>> => Tail(t) \in CardTodos /\ Head(t) = "rows"
<1> DEFINE a == <<"rows">> b == <<"queue">> c == <<"core">>
           d == <<"queue", "rows">> e == <<"core", "rows">> f == <<"page", "core">>
           g == <<"queue", "core", "rows">> h == <<"core", "queue", "rows">>
           i == <<"page", "core", "queue", "rows">>
<1>1. Tail(a) = <<>> /\ Tail(b) = <<>> /\ Tail(c) = <<>>
  OBVIOUS
<1>2. Tail(d) = a /\ Tail(e) = a /\ Tail(f) = c
  OBVIOUS
<1>3. Tail(g) = e /\ Tail(h) = d
  OBVIOUS
<1>4. Tail(i) = h
  OBVIOUS
<1>5. Head(a) = "rows" /\ Head(b) = "queue" /\ Head(c) = "core" /\ Head(d) = "queue"
      /\ Head(e) = "core" /\ Head(f) = "page" /\ Head(g) = "queue" /\ Head(h) = "core"
      /\ Head(i) = "page"
  OBVIOUS
<1>6. <<>> \notin SyncTodos /\ a \notin SyncTodos /\ c \notin SyncTodos /\ d \notin SyncTodos
      /\ h \notin SyncTodos
  BY DEF SyncTodos
<1>7. Todos = {g, e, a, <<>>, b, d, c, f, h, i} /\ SyncTodos = {g, e} /\ CardTodos = {a, <<>>}
  BY DEF Todos, SyncTodos, CardTodos, EarlyTodos
<1> HIDE DEF a, b, c, d, e, f, g, h, i
<1>8. QED
  BY <1>1, <1>2, <1>3, <1>4, <1>5, <1>6, <1>7

-----------------------------------------------------------------------------
(* Readings.                                                               *)

LEMMA NoReadingOK == NoReading \in Readings /\ Told(NoReading)
BY DEF NoReading, Readings, Queues, NoRows, Told

LEMMA ReadingEdits ==
  ASSUME NEW L \in Readings
  PROVE  /\ \A f \in Fleets \cup {None} :
              /\ [L EXCEPT !.fleet = f] \in Readings
              /\ [L EXCEPT !.fleet = f].missing = L.missing
              /\ [L EXCEPT !.fleet = f].overtaken = L.overtaken
         /\ \A q \in Queues : /\ [L EXCEPT !.queue = q, !.missing = {}] \in Readings
                              /\ [L EXCEPT !.queue = q, !.missing = {}].missing = {}
         /\ [L EXCEPT !.overtaken = TRUE] \in Readings
         /\ [L EXCEPT !.overtaken = TRUE].overtaken
         /\ [L EXCEPT !.overtaken = TRUE].missing = L.missing
BY DEF Readings

LEMMA MissedFacts ==
  ASSUME NEW L \in Readings, NEW s \in Slots
  PROVE  /\ Missed(s, L) \in Readings
         /\ Missed(s, L).overtaken = L.overtaken
         /\ Missed(s, L).missing \in {L.missing, L.missing \cup {s}}
BY DEF Missed, Readings

LEMMA RelabelFacts ==
  ASSUME NEW L \in Readings, NEW s \in Requests
  PROVE  /\ Relabel(s, L) \in Readings
         /\ Relabel(s, L).overtaken = L.overtaken
         /\ Relabel(s, L).missing \in {L.missing, (L.missing \ {s}) \cup {Landed}}
         /\ Told(L) => Told(Relabel(s, L))
         /\ \A r \in Slots : r \in Relabel(s, L).missing => r \in L.missing
<1>1. Relabel(s, L) = L \/ Relabel(s, L) = [L EXCEPT !.missing = (L.missing \ {s}) \cup {Landed}]
  BY DEF Relabel
<1>2. [L EXCEPT !.missing = (L.missing \ {s}) \cup {Landed}] \in Readings
  BY DEF Readings
<1>3. Relabel(s, L) \in Readings /\ Relabel(s, L).overtaken = L.overtaken
      /\ Relabel(s, L).missing \in {L.missing, (L.missing \ {s}) \cup {Landed}}
  BY <1>1, <1>2 DEF Readings
<1>4. Told(L) => Told(Relabel(s, L))
  <2>1. Relabel(s, L) = L \/ s \in L.missing
    BY DEF Relabel
  <2>2. QED
    BY <1>3, <2>1 DEF Told
<1>5. \A r \in Slots : r \in Relabel(s, L).missing => r \in L.missing
  BY <1>3, KindsAssumption
<1>6. QED
  BY <1>3, <1>4, <1>5

-----------------------------------------------------------------------------
(* Requests.                                                               *)

LEMMA InOf ==
  ASSUME NEW name, NEW ver, NEW rows, NEW n \in RequestIn(name, ver, rows)
  PROVE  n \in RequestOf(n)
<1>1. n.name = name /\ n.ver = ver /\ n.rows = rows
  BY DEF RequestIn
<1>2. QED
  BY <1>1 DEF RequestOf

\* A new request.
LEMMA SendOK ==
  ASSUME NEW kind \in Kinds, NEW name, NEW ver, NEW r
  PROVE  /\ RequestOK(Send(kind, name, ver)) /\ CardOK(r, Send(kind, name, ver))
         /\ ~Send(kind, name, ver).late
<1> DEFINE n == Send(kind, name, ver)
<1>1. Script[kind] \in Todos /\ (kind # "sync" => Script[kind] \notin SyncTodos)
  BY TodoFacts DEF Kinds, Script, Todos, SyncTodos, CardTodos, EarlyTodos
<1>2. /\ n.kind = kind /\ n.todo = Script[kind] /\ n.step = "check" /\ n.card = Unavailable
      /\ n.late = FALSE
  BY DEF Send
<1>3. n \in RequestIn(name, ver, Unavailable)
  BY <1>1, NoReadingOK DEF Send, RequestIn
<1> HIDE DEF n
<1>4. RequestOK(n) /\ CardOK(r, n) /\ ~n.late
  BY <1>1, <1>2, <1>3, InOf DEF RequestOK, CardOK
<1>5. QED
  BY <1>4 DEF n

\* A request whose card and listing stay what they are.
LEMMA DoneOK ==
  ASSUME NEW q, RequestOK(q), q.todo # <<>>,
         q.card # Unavailable /\ q.kind # "sync" => Head(q.todo) # "queue" \/ q.todo \in CardTodos
  PROVE  LET n == Done(q) IN
         /\ RequestOK(n) /\ n.card = q.card /\ n.late = q.late /\ n.listing = q.listing
<1> DEFINE n == Done(q)
<1>1. q \in RequestOf(q) /\ Tail(q.todo) \in Todos
  BY TodoFacts DEF RequestOK, RequestOf, RequestIn
<1>2. /\ n.kind = q.kind /\ n.todo = Tail(q.todo) /\ n.step = "check" /\ n.card = q.card
      /\ n.late = q.late /\ n.listing = q.listing
  BY <1>1 DEF Done, RequestOf, RequestIn
<1>3. n \in RequestOf(q)
  BY <1>1 DEF Done, RequestOf, RequestIn
<1>4. q.kind # "sync" => Tail(q.todo) \notin SyncTodos /\ (q.card # Unavailable => Tail(q.todo) \in CardTodos)
  BY <1>1, TodoFacts DEF RequestOK, RequestOf, RequestIn
<1> HIDE DEF n
<1>5. RequestOK(n)
  BY <1>2, <1>3, <1>4, InOf DEF RequestOK, RequestOf
<1>6. QED
  BY <1>2, <1>5 DEF n

LEMMA EndOK ==
  ASSUME NEW q, RequestOK(q), q.step # "store", NEW o \in {"error", "row"}
  PROVE  LET n == End(q, o) IN RequestOK(n) /\ n.card = q.card /\ n.late = q.late
<1> DEFINE n == End(q, o)
<1>1. q \in RequestOf(q) /\ <<>> \in CardTodos /\ <<>> \in Todos /\ <<>> \notin SyncTodos
  BY TodoFacts DEF RequestOK, Todos, CardTodos, SyncTodos
<1>2. /\ n.kind = q.kind /\ n.todo = <<>> /\ n.step = q.step /\ n.card = q.card /\ n.late = q.late
  BY <1>1 DEF End, RequestOf, RequestIn
<1>3. n \in RequestOf(q)
  BY <1>1 DEF End, RequestOf, RequestIn
<1> HIDE DEF n
<1>4. RequestOK(n)
  BY <1>1, <1>2, <1>3, InOf DEF RequestOK, RequestOf
<1>5. QED
  BY <1>2, <1>4 DEF n

\* What was read goes to the card, to the rows, or nowhere.
LEMMA ShowOK ==
  ASSUME NEW q, RequestOK(q), Reads(q.todo), NEW L \in Readings, Told(L), NEW r,
         CardOK(r, q)
  PROVE  LET n == Show(q, L) IN RequestOK(n) /\ CardOK(r, n) /\ n.late = q.late
<1> DEFINE n == Show(q, L)
           m == [q EXCEPT !.todo = Tail(q.todo), !.step = "check", !.listing = NoReading]
           shown == [L EXCEPT !.fleet = None]
           c == [m EXCEPT !.card = shown]
           o == [m EXCEPT !.rows = Panel(L)]
<1>1. q \in RequestOf(q) /\ Tail(q.todo) \in Todos /\ q.todo \in Todos /\ q.todo # <<>>
  BY TodoFacts DEF RequestOK, RequestOf, RequestIn, Reads
<1>2. q.kind # "sync" => /\ Tail(q.todo) \notin SyncTodos
                         /\ q.card # Unavailable \/ Head(q.todo) = "queue" => Tail(q.todo) \in CardTodos
  BY <1>1, TodoFacts DEF RequestOK
<1>3. shown \in Readings /\ Told(shown)
  BY ReadingEdits DEF Told
<1> HIDE DEF shown
<1>4. /\ m.kind = q.kind /\ m.todo = Tail(q.todo) /\ m.step = "check" /\ m.card = q.card
      /\ m.late = q.late /\ m \in RequestOf(q)
  BY <1>1, NoReadingOK DEF RequestOf, RequestIn
<1> HIDE DEF m
<1>5. CASE n = m
  <2>1. RequestOK(m)
    BY <1>2, <1>4, InOf DEF RequestOK, RequestOf
  <2>2. CardOK(r, m)
    BY <1>4 DEF CardOK
  <2>3. QED
    BY <1>4, <1>5, <2>1, <2>2
<1>6. CASE n = c /\ Head(q.todo) = "queue"
  <2>1. /\ c.kind = q.kind /\ c.todo = Tail(q.todo) /\ c.step = "check" /\ c.card = shown
        /\ c.late = q.late /\ c \in RequestOf(q)
    BY <1>3, <1>4 DEF RequestOf, RequestIn
  <2> HIDE DEF c
  <2>2. RequestOK(c)
    BY <1>2, <1>6, <2>1, InOf DEF RequestOK, RequestOf
  <2>3. CardOK(r, c)
    BY <1>3, <2>1 DEF CardOK, Told
  <2>4. QED
    BY <1>6, <2>1, <2>2, <2>3
<1>7. CASE n = o
  <2>1. /\ o.kind = q.kind /\ o.todo = Tail(q.todo) /\ o.step = "check" /\ o.card = q.card
        /\ o.late = q.late /\ o \in RequestIn(q.name, q.ver, Panel(L))
    BY <1>4 DEF RequestOf, RequestIn
  <2> HIDE DEF o
  <2>2. RequestOK(o)
    BY <1>2, <2>1, InOf DEF RequestOK
  <2>3. CardOK(r, o)
    BY <2>1 DEF CardOK
  <2>4. QED
    BY <1>7, <2>1, <2>2, <2>3
<1>8. n \in {m, o} \/ (n = c /\ Head(q.todo) = "queue")
  BY DEF Show, m, shown
<1>9. QED
  BY <1>5, <1>6, <1>7, <1>8

\* What a step of one request leaves alone.
LEMMA OneRequest ==
  ASSUME Inv, NEW r \in Requests, sent[r] # None, NEW next, RequestOK(next), CardOK(r, next),
         next.late = sent[r].late, Set(r, next), LiveOK', CacheOK'
  PROVE  Inv'
<1>1. DOMAIN sent' = Requests /\ sent'[r] = next /\ \A x \in Requests \ {r} : sent'[x] = sent[x]
  BY DEF Inv, SentOK, Set
<1>2. SentOK'
  BY <1>1 DEF Inv, SentOK
<1>3. PollOK'
  <2>1. CASE r = Poll
    <3>1. Running' = Running
      BY <1>1, <2>1, KindsAssumption DEF Running, Requests
    <3>2. QED
      BY <1>1, <2>1, <3>1 DEF Inv, PollOK
  <2>2. CASE r # Poll
    <3>1. r \in Running /\ sent'[Poll] = sent[Poll]
      BY <1>1, <2>2 DEF Running, Requests
    <3>2. QED
      BY <3>1 DEF Inv, PollOK
  <2>3. QED
    BY <2>1, <2>2
<1>4. QED
  BY <1>2, <1>3 DEF Inv

LEMMA ReadingFacts ==
  ASSUME Inv, NEW r \in Requests, Reading(r)
  PROVE  /\ sent[r] # None /\ RequestOK(sent[r]) /\ CardOK(r, sent[r]) /\ Reads(sent[r].todo)
         /\ sent[r].listing \in Readings
<1>1. sent[r] # None /\ Reads(sent[r].todo)
  BY DEF Reading, InTodo, Reads
<1>2. QED
  BY <1>1 DEF Inv, SentOK, RequestOK, RequestOf, RequestIn

LEMMA LiveSame == LiveOK /\ UNCHANGED live => LiveOK'
BY DEF LiveOK
LEMMA CacheSame == CacheOK /\ UNCHANGED cache => CacheOK'
BY DEF CacheOK

\* A request in a step that changes nothing of its card.
LEMMA StepOK ==
  ASSUME NEW q, RequestOK(q), NEW L \in Readings, NEW step \in {"records", "store"},
         step = "store" => Reads(q.todo) /\ Told(L), NEW n,
         n = [q EXCEPT !.step = step, !.listing = L]
  PROVE  RequestOK(n) /\ n.late = q.late /\ n.card = q.card
<1>1. q \in RequestOf(q)
  BY DEF RequestOK
<1>2. /\ n.kind = q.kind /\ n.todo = q.todo /\ n.step = step /\ n.card = q.card
      /\ n.late = q.late /\ n.listing = L /\ n \in RequestOf(q)
  BY <1>1 DEF RequestOf, RequestIn
<1>3. QED
  BY <1>2, InOf DEF RequestOK, RequestOf

LEMMA ReadStepOK ==
  ASSUME Inv, NEW r \in Requests, ReadStep(r)
  PROVE  Inv'
<1> DEFINE q == sent[r]
<1>1. CASE UseCache(r)
  <2>1. Reading(r) /\ cache # None /\ UNCHANGED <<live, cache>> /\ Set(r, Show(q, cache))
    BY <1>1 DEF UseCache, AtStep
  <2>2. cache \in Readings /\ Told(cache)
    BY <2>1 DEF Inv, CacheOK
  <2>3. QED
    BY <2>1, <2>2, ReadingFacts, ShowOK, OneRequest, LiveSame, CacheSame DEF Inv
<1>2. CASE ListAccounts(r)
  <2> DEFINE L == [q.listing EXCEPT !.fleet = live.fleet]
             n == [q EXCEPT !.step = "records", !.listing = L]
  <2>1. Reading(r) /\ UNCHANGED <<live, cache>>
    BY <1>2 DEF ListAccounts, AtStep
  <2>2. q # None /\ RequestOK(q) /\ CardOK(r, q) /\ q.listing \in Readings
    BY <2>1, ReadingFacts
  <2>3. Set(r, n)
    BY <1>2, <2>2 DEF ListAccounts, RequestOK, RequestOf, RequestIn
  <2>4. L \in Readings
    BY <2>2, ReadingEdits DEF Inv, LiveOK, Live
  <2> HIDE DEF L
  <2>5. RequestOK(n) /\ n.late = q.late /\ n.card = q.card
    BY <2>2, <2>4, StepOK
  <2> HIDE DEF n
  <2>6. CardOK(r, n)
    BY <2>2, <2>5 DEF CardOK
  <2>7. QED
    BY <2>1, <2>2, <2>3, <2>5, <2>6, OneRequest, LiveSame, CacheSame DEF Inv
<1>3. CASE ReadRecords(r)
  <2> DEFINE L == [q.listing EXCEPT !.queue = live.queue, !.missing = {}]
             n == [q EXCEPT !.step = "store", !.listing = L]
  <2>1. Reading(r) /\ UNCHANGED <<live, cache>>
    BY <1>3 DEF ReadRecords, AtStep
  <2>2. q # None /\ RequestOK(q) /\ CardOK(r, q) /\ q.listing \in Readings /\ Reads(q.todo)
    BY <2>1, ReadingFacts
  <2>3. Set(r, n)
    BY <1>3, <2>2 DEF ReadRecords, RequestOK, RequestOf, RequestIn
  <2>4. L \in Readings /\ Told(L)
    BY <2>2, ReadingEdits DEF Inv, LiveOK, Live, Told
  <2> HIDE DEF L
  <2>5. RequestOK(n) /\ n.late = q.late /\ n.card = q.card
    BY <2>2, <2>4, StepOK
  <2> HIDE DEF n
  <2>6. CardOK(r, n)
    BY <2>2, <2>5 DEF CardOK
  <2>7. QED
    BY <2>1, <2>2, <2>3, <2>5, <2>6, OneRequest, LiveSame, CacheSame DEF Inv
<1>4. CASE Store(r)
  <2>1. Reading(r) /\ q.step = "store" /\ UNCHANGED live /\ cache' = q.listing
        /\ Set(r, Show(q, q.listing))
    BY <1>4 DEF Store, AtStep
  <2>2. q # None /\ RequestOK(q) /\ CardOK(r, q) /\ q.listing \in Readings /\ Reads(q.todo)
        /\ Told(q.listing)
    BY <2>1, ReadingFacts DEF RequestOK
  <2>3. CacheOK'
    BY <2>1, <2>2 DEF CacheOK
  <2>4. QED
    BY <2>1, <2>2, <2>3, ShowOK, OneRequest, LiveSame DEF Inv
<1>5. CASE FailListing(r)
  <2> DEFINE d == Done(q)
             n == [d EXCEPT !.listing = NoReading]
  <2>1. Reading(r) /\ q.step = "records" /\ UNCHANGED <<live, cache>>
    BY <1>5 DEF FailListing, AtStep
  <2>2. q # None /\ RequestOK(q) /\ CardOK(r, q) /\ Reads(q.todo)
    BY <2>1, ReadingFacts
  <2>3. CASE Set(r, End(q, "error"))
    <3>1. RequestOK(End(q, "error")) /\ CardOK(r, End(q, "error")) /\ End(q, "error").late = q.late
      BY <2>1, <2>2, EndOK DEF CardOK
    <3>2. QED
      BY <2>1, <2>2, <2>3, <3>1, OneRequest, LiveSame, CacheSame DEF Inv
  <2>4. CASE Set(r, n)
    <3>1. RequestOK(d) /\ d.card = q.card /\ d.late = q.late /\ d.step = "check"
      <4>1. q.card # Unavailable /\ q.kind # "sync" => q.todo \in CardTodos
        BY <2>2 DEF RequestOK
      <4>2. d.step = "check"
        BY <2>2 DEF Done, RequestOK, RequestOf, RequestIn
      <4>3. QED
        BY <2>2, <4>1, <4>2, DoneOK DEF Reads
    <3> HIDE DEF d
    <3>2. d \in RequestOf(d)
      BY <3>1 DEF RequestOK
    <3>3. /\ n.kind = d.kind /\ n.todo = d.todo /\ n.step = d.step /\ n.card = d.card
          /\ n.late = d.late /\ n \in RequestOf(d)
      BY <3>2, NoReadingOK DEF RequestOf, RequestIn
    <3> HIDE DEF n
    <3>4. RequestOK(n)
      BY <3>1, <3>3, InOf DEF RequestOK, RequestOf
    <3>5. CardOK(r, n)
      BY <2>2, <3>1, <3>3 DEF CardOK
    <3>6. QED
      BY <2>1, <2>2, <2>4, <3>1, <3>3, <3>4, <3>5, OneRequest, LiveSame, CacheSame DEF Inv
  <2>5. QED
    BY <1>5, <2>3, <2>4 DEF FailListing
<1>6. QED
  BY <1>1, <1>2, <1>3, <1>4, <1>5 DEF ReadStep


-----------------------------------------------------------------------------
(* A change: every reading under way is overtaken and misses it.           *)

\* The card of a request that is about to change something was not read yet.
LEMMA CoreFacts ==
  ASSUME Inv, NEW s \in Slots, InTodo(s, "core")
  PROVE  /\ sent[s] # None /\ RequestOK(sent[s]) /\ CardOK(s, sent[s])
         /\ sent[s].todo # <<>> /\ Head(sent[s].todo) = "core" /\ sent[s].step # "store"
         /\ sent[s].kind # "sync" => sent[s].card = Unavailable
<1>1. sent[s] # None /\ sent[s].todo # <<>> /\ Head(sent[s].todo) = "core" /\ s \in Requests
  BY DEF InTodo, Requests
<1>2. RequestOK(sent[s]) /\ CardOK(s, sent[s])
  BY <1>1 DEF Inv, SentOK
<1>3. sent[s].step # "store"
  BY <1>1, <1>2 DEF RequestOK, Reads
<1>4. sent[s].kind # "sync" => sent[s].card = Unavailable
  BY <1>1, <1>2, TodoFacts DEF RequestOK
<1>5. QED
  BY <1>1, <1>2, <1>3, <1>4

LEMMA OvertakenFacts ==
  ASSUME Inv, NEW r \in Requests, sent[r] # None, NEW n, n = Overtaken[r]
  PROVE  /\ RequestOK(n) /\ CardOK(r, n) /\ n.late = sent[r].late /\ n.card = sent[r].card
         /\ n.kind = sent[r].kind /\ n.todo = sent[r].todo /\ n.step = sent[r].step
         /\ n.step = "store" => n.listing.overtaken
<1> DEFINE q == sent[r]
           L == [q.listing EXCEPT !.overtaken = TRUE]
           o == [q EXCEPT !.listing = L]
<1>1. RequestOK(q) /\ CardOK(r, q) /\ q \in RequestOf(q) /\ q.listing \in Readings
  BY DEF Inv, SentOK, RequestOK, RequestOf, RequestIn
<1>2. L \in Readings /\ L.overtaken /\ Told(L)
  BY <1>1, ReadingEdits DEF Told
<1>3. CASE AtStep(r, "records") \/ AtStep(r, "store")
  <2>1. n = o
    BY <1>1, <1>3 DEF Overtaken, RequestOf, RequestIn
  <2> HIDE DEF L
  <2>2. /\ o.kind = q.kind /\ o.todo = q.todo /\ o.step = q.step /\ o.card = q.card
        /\ o.late = q.late /\ o.listing = L /\ o \in RequestOf(q)
    BY <1>1, <1>2 DEF RequestOf, RequestIn
  <2> HIDE DEF o
  <2>3. RequestOK(o)
    BY <1>1, <1>2, <2>2, InOf DEF RequestOK, RequestOf
  <2>4. CardOK(r, o)
    BY <1>1, <2>2 DEF CardOK
  <2>5. QED
    BY <1>2, <2>1, <2>2, <2>3, <2>4
<1>4. CASE ~(AtStep(r, "records") \/ AtStep(r, "store"))
  <2>1. n = q
    BY <1>4 DEF Overtaken
  <2>2. q.step # "store"
    BY <1>1, <1>4 DEF AtStep, Reading, InTodo, RequestOK, Reads
  <2>3. QED
    BY <1>1, <2>1, <2>2
<1>5. QED
  BY <1>3, <1>4

\* The card and the listing of a request miss the change of slot s.
MissedBy(s, q) == [q EXCEPT !.listing = Missed(s, q.listing), !.card = Missed(s, q.card)]

LEMMA MissOK ==
  ASSUME NEW s \in Slots, NEW r \in Requests, NEW q, RequestOK(q), CardOK(r, q),
         q.step = "store" => q.listing.overtaken,
         r = s => q.card = Unavailable,
         r = Poll => q.late
  PROVE  /\ RequestOK(MissedBy(s, q)) /\ CardOK(r, MissedBy(s, q))
         /\ MissedBy(s, q).late = q.late
         /\ r = s => MissedBy(s, q).card = Unavailable
         /\ MissedBy(s, q).todo = q.todo /\ MissedBy(s, q).kind = q.kind
<1> DEFINE n == MissedBy(s, q)
           L == Missed(s, q.listing)
           C == Missed(s, q.card)
<1>1. q \in RequestOf(q) /\ q.listing \in Readings /\ q.card \in Readings \cup {Unavailable}
  BY DEF RequestOK, RequestOf, RequestIn
<1>2. L \in Readings /\ L.overtaken = q.listing.overtaken
  BY <1>1, MissedFacts
<1>3. C \in Readings \cup {Unavailable} /\ (q.card = Unavailable => C = Unavailable)
      /\ (C # Unavailable => /\ q.card # Unavailable /\ C.overtaken = q.card.overtaken
                             /\ C.missing \subseteq q.card.missing \cup {s})
  <2>1. CASE q.card = Unavailable
    BY <2>1 DEF Missed
  <2>2. CASE q.card # Unavailable
    BY <1>1, <2>2, MissedFacts
  <2>3. QED
    BY <2>1, <2>2
<1> HIDE DEF L, C
<1>4. /\ n.kind = q.kind /\ n.todo = q.todo /\ n.step = q.step /\ n.card = C /\ n.listing = L
      /\ n.late = q.late /\ n \in RequestOf(q)
  BY <1>1, <1>2, <1>3 DEF RequestOf, RequestIn, L, C, MissedBy
<1> HIDE DEF n
<1>5. RequestOK(n)
  BY <1>2, <1>3, <1>4, InOf DEF RequestOK, RequestOf, Told
<1>6. CardOK(r, n)
  BY <1>3, <1>4, KindsAssumption DEF CardOK
<1>7. QED
  BY <1>3, <1>4, <1>5, <1>6 DEF n

\* At the change of slot s.
LEMMA AllMissOK ==
  ASSUME Inv, NEW s \in Slots, sent[s] # None, sent[s].card = Unavailable,
         NEW m, m = AllMiss(s, Overtaken)
  PROVE  /\ DOMAIN m = Requests
         /\ \A r \in Requests : sent[r] = None => m[r] = None
         /\ \A r \in Requests : m[r] # None =>
              /\ RequestOK(m[r]) /\ CardOK(r, m[r]) /\ m[r].late = sent[r].late
              /\ m[r].todo = sent[r].todo /\ m[r].kind = sent[r].kind
<1>1. sent[Poll] # None => sent[Poll].late
  BY DEF Inv, PollOK, Running
<1>2. DOMAIN m = Requests
  BY DEF AllMiss
<1>3. ASSUME NEW r \in Requests, sent[r] = None
      PROVE  m[r] = None
  <2>1. Overtaken[r] = None
    BY <1>3 DEF Overtaken, AtStep, Reading, InTodo
  <2>2. QED
    BY <2>1 DEF AllMiss
<1>4. ASSUME NEW r \in Requests, m[r] # None
      PROVE  /\ RequestOK(m[r]) /\ CardOK(r, m[r]) /\ m[r].late = sent[r].late
             /\ m[r].todo = sent[r].todo /\ m[r].kind = sent[r].kind
  <2>1. sent[r] # None
    BY <1>3, <1>4
  <2>2. PICK q : q = Overtaken[r]
    OBVIOUS
  <2>3. /\ RequestOK(q) /\ CardOK(r, q) /\ q.late = sent[r].late /\ q.card = sent[r].card
        /\ q.kind = sent[r].kind /\ q.todo = sent[r].todo
        /\ q.step = "store" => q.listing.overtaken
    BY <2>1, <2>2, OvertakenFacts
  <2>4. m[r] = MissedBy(s, q)
    <3>1. m[r] = IF q = None THEN None
                 ELSE [q EXCEPT !.listing = Missed(s, @), !.card = Missed(s, @)]
      BY <2>2 DEF AllMiss
    <3>2. QED
      BY <1>4, <2>3, <3>1 DEF RequestOK, RequestOf, RequestIn, MissedBy
  <2>5. (r = s => q.card = Unavailable) /\ (r = Poll => q.late)
    BY <1>1, <2>1, <2>3
  <2>6. q.step = "store" => q.listing.overtaken
    BY <2>3
  <2>7. RequestOK(q) /\ CardOK(r, q)
    BY <2>3
  <2>8. RequestOK(m[r]) /\ CardOK(r, m[r]) /\ m[r].late = q.late
        /\ m[r].todo = q.todo /\ m[r].kind = q.kind
    BY <2>4, <2>5, <2>6, <2>7, MissOK
  <2>9. QED
    BY <2>3, <2>8
<1>5. QED
  BY <1>2, <1>3, <1>4, KindsAssumption DEF Requests

\* Of the slot itself: it reads nothing then.
LEMMA OwnMissOK ==
  ASSUME Inv, NEW s \in Slots, InTodo(s, "core"), sent[s].kind # "sync"
  PROVE  LET n == AllMiss(s, Overtaken)[s] IN
         RequestOK(n) /\ n.card = Unavailable /\ n.todo = sent[s].todo /\ n.kind = sent[s].kind
<1> DEFINE n == AllMiss(s, Overtaken)[s]
           q == sent[s]
<1>1. /\ q # None /\ RequestOK(q) /\ CardOK(s, q) /\ q.card = Unavailable /\ q.step # "store"
      /\ q.todo # <<>> /\ Head(q.todo) = "core" /\ s \in Requests /\ s # Poll
  BY CoreFacts, KindsAssumption DEF Requests
<1>2. Overtaken[s] = q
  BY <1>1 DEF Overtaken, AtStep, Reading, InTodo
<1>3. n = MissedBy(s, q)
  <2>1. n = [q EXCEPT !.listing = Missed(s, @), !.card = Missed(s, @)]
    BY <1>1, <1>2 DEF AllMiss
  <2>2. QED
    BY <1>1, <2>1 DEF RequestOK, RequestOf, RequestIn, MissedBy
<1> HIDE DEF n, q
<1>4. RequestOK(n) /\ n.card = Unavailable /\ n.todo = q.todo /\ n.kind = q.kind
  BY <1>1, <1>3, MissOK
<1>5. QED
  BY <1>4 DEF n, q

\* The slot goes on, and what others have under way was overtaken.
LEMMA ChangeLands ==
  ASSUME Inv, NEW s \in Slots, sent[s] # None, cache' = None, LiveOK',
         NEW m, DOMAIN m = Requests,
         \A r \in Requests : sent[r] = None => m[r] = None,
         \A r \in Requests : m[r] # None =>
           RequestOK(m[r]) /\ CardOK(r, m[r]) /\ m[r].late = sent[r].late,
         NEW next, RequestOK(next), CardOK(s, next), sent' = [m EXCEPT ![s] = next]
  PROVE  Inv'
<1>1. DOMAIN sent' = Requests /\ sent'[s] = next
      /\ \A r \in Requests \ {s} : sent'[r] = m[r]
  BY DEF Requests
<1>2. SentOK'
  BY <1>1 DEF SentOK
<1>3. PollOK'
  <2>1. Running # {} /\ s # Poll /\ Poll \in Requests
    BY KindsAssumption DEF Running, Requests
  <2>2. sent[Poll] = None \/ sent[Poll].late
    BY <2>1 DEF Inv, PollOK
  <2>3. QED
    BY <1>1, <2>1, <2>2 DEF PollOK
<1>4. CacheOK'
  BY DEF CacheOK
<1>5. QED
  BY <1>2, <1>3, <1>4 DEF Inv

LEMMA WriteOK ==
  ASSUME Inv, NEW s \in Slots, InTodo(s, "core"), sent[s].kind # "sync", NEW state \in Live,
         Write(s, state)
  PROVE  Inv'
<1>1. sent[s] # None /\ sent[s].card = Unavailable /\ sent[s].todo # <<>> /\ s \in Requests
      /\ Head(sent[s].todo) = "core"
  BY CoreFacts DEF Requests
<1>2. PICK m : m = AllMiss(s, Overtaken)
  OBVIOUS
<1>3. /\ DOMAIN m = Requests
      /\ \A r \in Requests : sent[r] = None => m[r] = None
      /\ \A r \in Requests : m[r] # None =>
              RequestOK(m[r]) /\ CardOK(r, m[r]) /\ m[r].late = sent[r].late
      /\ RequestOK(m[s]) /\ m[s].card = Unavailable /\ m[s].todo = sent[s].todo
  BY <1>1, <1>2, AllMissOK, OwnMissOK
<1>4. cache' = None /\ live' = state /\ sent' = [m EXCEPT ![s] = Done(m[s])]
  BY <1>1, <1>2, <1>3 DEF Write
<1>5. LiveOK'
  BY <1>4 DEF LiveOK
<1>6. RequestOK(Done(m[s])) /\ Done(m[s]).card = Unavailable
  BY <1>1, <1>3, DoneOK
<1>7. CardOK(s, Done(m[s]))
  BY <1>6 DEF CardOK
<1>8. QED
  BY <1>1, <1>3, <1>4, <1>5, <1>6, <1>7, ChangeLands

LEMMA RefuseOK ==
  ASSUME Inv, NEW s \in Slots, InTodo(s, "core"), sent[s].kind # "sync", Refuse(s)
  PROVE  Inv'
<1> DEFINE q == sent[s]
           n == [q EXCEPT !.todo = <<"queue">>, !.step = "check", !.outcome = "refused"]
<1>1. q # None /\ RequestOK(q) /\ q.card = Unavailable /\ s \in Requests /\ q \in RequestOf(q)
  BY CoreFacts DEF Requests, RequestOK
<1>2. PICK m : m = AllMiss(s, Overtaken)
  OBVIOUS
<1>3. /\ DOMAIN m = Requests
      /\ \A r \in Requests : sent[r] = None => m[r] = None
      /\ \A r \in Requests : m[r] # None =>
              RequestOK(m[r]) /\ CardOK(r, m[r]) /\ m[r].late = sent[r].late
  BY <1>1, <1>2, AllMissOK
<1>4. cache' = None /\ live' = live /\ sent' = [m EXCEPT ![s] = n]
  BY <1>2 DEF Refuse
<1>5. LiveOK'
  BY <1>4 DEF Inv, LiveOK
<1>6. <<"queue">> \in Todos /\ <<"queue">> \notin SyncTodos
  <2>1. <<"queue">> # <<"queue", "core", "rows">> /\ <<"queue">> # <<"core", "rows">>
    OBVIOUS
  <2>2. QED
    BY <2>1 DEF Todos, EarlyTodos, SyncTodos
<1>7. n.kind = q.kind /\ n.todo = <<"queue">> /\ n.step = "check" /\ n.card = Unavailable
      /\ n \in RequestOf(q)
  BY <1>1, <1>6 DEF RequestOf, RequestIn
<1> HIDE DEF n
<1>8. RequestOK(n) /\ CardOK(s, n)
  BY <1>6, <1>7, InOf DEF RequestOK, RequestOf, CardOK
<1>9. QED
  BY <1>1, <1>3, <1>4, <1>5, <1>8, ChangeLands

LEMMA LiveEdits ==
  ASSUME LiveOK
  PROVE  /\ \A n : \A v \in Versions \cup {None} : Put(n, v) \in Live
         /\ \A f \in Fleets : [live EXCEPT !.fleet = f] \in Live
         /\ Passed \subseteq Live
BY DEF LiveOK, Live, Put, Passed, Queues

LEMMA OvertakenOK ==
  ASSUME Inv, NEW m, m = Overtaken
  PROVE  /\ DOMAIN m = Requests
         /\ \A r \in Requests : sent[r] = None => m[r] = None
         /\ \A r \in Requests : m[r] # None =>
              RequestOK(m[r]) /\ CardOK(r, m[r]) /\ m[r].late = sent[r].late
<1>1. DOMAIN m = Requests
  BY DEF Overtaken
<1>2. ASSUME NEW r \in Requests, sent[r] = None
      PROVE  m[r] = None
  BY <1>2 DEF Overtaken, AtStep, Reading, InTodo
<1>3. ASSUME NEW r \in Requests, m[r] # None
      PROVE  RequestOK(m[r]) /\ CardOK(r, m[r]) /\ m[r].late = sent[r].late
  <2>1. PICK n : n = Overtaken[r]
    OBVIOUS
  <2>2. sent[r] # None
    BY <1>2, <1>3
  <2>3. RequestOK(n) /\ CardOK(r, n) /\ n.late = sent[r].late
    BY <2>1, <2>2, OvertakenFacts
  <2>4. QED
    BY <2>1, <2>3
<1>4. QED
  BY <1>1, <1>2, <1>3

LEMMA SyncOK ==
  ASSUME Inv, NEW s \in Slots, Sync(s)
  PROVE  Inv'
<1>1. InTodo(s, "core") /\ sent[s].kind = "sync" /\ cache' = None /\ live' \in Passed
      /\ sent' = [Overtaken EXCEPT ![s] = Done(sent[s])]
  BY DEF Sync
<1>2. sent[s] # None /\ RequestOK(sent[s]) /\ CardOK(s, sent[s]) /\ sent[s].todo # <<>>
  BY <1>1, CoreFacts
<1>3. RequestOK(Done(sent[s])) /\ Done(sent[s]).card = sent[s].card
      /\ Done(sent[s]).late = sent[s].late
  BY <1>1, <1>2, DoneOK
<1>4. CardOK(s, Done(sent[s]))
  BY <1>2, <1>3 DEF CardOK
<1>5. LiveOK'
  BY <1>1, LiveEdits DEF Inv, LiveOK
<1>6. PICK m : m = Overtaken
  OBVIOUS
<1>7. QED
  BY <1>1, <1>2, <1>3, <1>4, <1>5, <1>6, OvertakenOK, ChangeLands

LEMMA CoreEnds ==
  ASSUME Inv, NEW s \in Slots, InTodo(s, "core"), NEW o \in {"error", "row"},
         Set(s, End(sent[s], o)), UNCHANGED <<live, cache>>
  PROVE  Inv'
<1>1. /\ sent[s] # None /\ RequestOK(sent[s]) /\ CardOK(s, sent[s]) /\ sent[s].step # "store"
      /\ s \in Requests
  BY CoreFacts DEF Requests
<1>2. RequestOK(End(sent[s], o)) /\ End(sent[s], o).card = sent[s].card
      /\ End(sent[s], o).late = sent[s].late
  BY <1>1, EndOK
<1>3. CardOK(s, End(sent[s], o))
  BY <1>1, <1>2 DEF CardOK
<1>4. QED
  BY <1>1, <1>2, <1>3, OneRequest, LiveSame, CacheSame DEF Inv

LEMMA FillRowOK ==
  ASSUME Inv, NEW s \in Slots, FillRow(s)
  PROVE  Inv'
<1> DEFINE q == sent[s]
           e == End(q, "row")
           n == [e EXCEPT !.ver = live.queue[q.name]]
<1>1. /\ InTodo(s, "core") /\ q.kind # "sync" /\ s \in Requests
      /\ Refuse(s) \/ (Set(s, n) /\ UNCHANGED <<live, cache>>)
  BY DEF FillRow, Requests
<1>2. CASE Refuse(s)
  BY <1>1, <1>2, RefuseOK
<1>3. CASE Set(s, n) /\ UNCHANGED <<live, cache>>
  <2>1. q # None /\ RequestOK(q) /\ q.step # "store" /\ q.card = Unavailable /\ CardOK(s, q)
    BY <1>1, CoreFacts
  <2>2. RequestOK(e) /\ e.card = q.card /\ e.late = q.late
    BY <2>1, EndOK
  <2> HIDE DEF e
  <2>3. e \in RequestOf(e)
    BY <2>2 DEF RequestOK
  <2>4. /\ n.kind = e.kind /\ n.todo = e.todo /\ n.step = e.step /\ n.card = e.card
        /\ n.late = e.late /\ n.listing = e.listing
        /\ n \in RequestIn(e.name, live.queue[q.name], e.rows)
    BY <2>3 DEF RequestOf, RequestIn
  <2> HIDE DEF n
  <2>5. RequestOK(n) /\ CardOK(s, n)
    BY <2>1, <2>2, <2>4, InOf DEF RequestOK, CardOK
  <2>6. QED
    BY <1>1, <1>3, <2>1, <2>2, <2>4, <2>5, OneRequest, LiveSame, CacheSame DEF Inv
<1>4. QED
  BY <1>1, <1>2, <1>3

LEMMA CoreStepOK ==
  ASSUME Inv, NEW s \in Slots, CoreStep(s)
  PROVE  Inv'
<1>1. LiveOK
  BY DEF Inv
<1>2. CASE Decide(s)
  <2>1. InTodo(s, "core") /\ sent[s].kind # "sync"
        /\ (Refuse(s) \/ Write(s, Put(sent[s].name, None)))
    BY <1>2 DEF Decide
  <2>2. QED
    BY <1>1, <2>1, LiveEdits, WriteOK, RefuseOK
<1>3. CASE Save(s)
  <2>1. InTodo(s, "core") /\ sent[s].kind # "sync"
        /\ (Refuse(s) \/ \E v \in Versions : Write(s, Put(sent[s].name, v)))
    BY <1>3 DEF Save
  <2>2. QED
    BY <1>1, <2>1, LiveEdits, WriteOK, RefuseOK
<1>4. CASE Submit(s)
  <2>1. InTodo(s, "core") /\ sent[s].kind # "sync"
        /\ \/ \E v \in Versions : Write(s, Put(sent[s].name, v))
           \/ Set(s, End(sent[s], "error")) /\ UNCHANGED <<live, cache>>
    BY <1>4 DEF Submit
  <2>2. QED
    BY <1>1, <2>1, LiveEdits, WriteOK, CoreEnds
<1>5. CASE ChangeAccount(s)
  <2>1. InTodo(s, "core") /\ sent[s].kind # "sync"
        /\ \E f \in Fleets : Write(s, [live EXCEPT !.fleet = f])
    BY <1>5 DEF ChangeAccount
  <2>2. QED
    BY <1>1, <2>1, LiveEdits, WriteOK
<1>6. CASE CoreFails(s)
  BY <1>6, CoreEnds DEF CoreFails
<1>7. QED
  BY <1>2, <1>3, <1>4, <1>5, <1>6, FillRowOK, SyncOK DEF CoreStep


-----------------------------------------------------------------------------
(* The browser.                                                            *)

LEMMA PollDueOK ==
  ASSUME Inv, PollDue
  PROVE  Inv'
<1>1. PICK n : n = Send("poll", None, None)
  OBVIOUS
<1>2. RequestOK(n) /\ CardOK(Poll, n)
  BY <1>1, SendOK DEF Kinds
<1>3. sent' = [sent EXCEPT ![Poll] = n] /\ Running = {} /\ UNCHANGED <<live, cache>>
  BY <1>1 DEF PollDue, Set
<1>4. DOMAIN sent' = Requests /\ sent'[Poll] = n /\ \A r \in Requests \ {Poll} : sent'[r] = sent[r]
  BY <1>3 DEF Inv, SentOK, Requests
<1>5. SentOK'
  BY <1>2, <1>4 DEF Inv, SentOK
<1>6. PollOK'
  <2>1. Running' = {}
    BY <1>3, <1>4, KindsAssumption DEF Running, Requests
  <2>2. QED
    BY <2>1 DEF PollOK
<1>7. QED
  BY <1>3, <1>5, <1>6, LiveSame, CacheSame DEF Inv

\* An action outdates the poll that is under way.
LEMMA OutdatedOK ==
  ASSUME Inv, NEW m, m = OutdatePoll
  PROVE  /\ DOMAIN m = Requests /\ \A r \in Requests \ {Poll} : m[r] = sent[r]
         /\ m[Poll] # None => RequestOK(m[Poll]) /\ CardOK(Poll, m[Poll]) /\ m[Poll].late
<1> DEFINE q == sent[Poll]
           n == [q EXCEPT !.late = TRUE, !.card = Unavailable, !.rows = Unavailable]
<1>1. DOMAIN sent = Requests /\ Poll \in Requests
  BY DEF Inv, SentOK, Requests
<1>2. CASE q = None
  BY <1>1, <1>2 DEF OutdatePoll
<1>3. CASE q # None
  <2>1. RequestOK(q) /\ q \in RequestOf(q)
    BY <1>1, <1>3 DEF Inv, SentOK, RequestOK
  <2>2. m = [sent EXCEPT ![Poll] = n]
    BY <1>3 DEF OutdatePoll
  <2>3. /\ n.kind = q.kind /\ n.todo = q.todo /\ n.step = q.step /\ n.card = Unavailable /\ n.late
        /\ n.listing = q.listing /\ n \in RequestIn(q.name, q.ver, Unavailable)
    BY <2>1 DEF RequestOf, RequestIn
  <2> HIDE DEF n
  <2>4. RequestOK(n) /\ CardOK(Poll, n)
    BY <2>1, <2>3, InOf DEF RequestOK, CardOK
  <2>5. QED
    BY <1>1, <2>2, <2>3, <2>4
<1>4. QED
  BY <1>2, <1>3

LEMMA ClickOK ==
  ASSUME Inv, NEW s \in Slots, NEW kind \in Kinds, NEW name, NEW ver, Click(s, kind, name, ver)
  PROVE  Inv'
<1>1. PICK n : n = Send(kind, name, ver)
  OBVIOUS
<1>2. RequestOK(n) /\ CardOK(s, n)
  BY <1>1, SendOK
<1>3. PICK m : m = OutdatePoll
  OBVIOUS
<1>4. /\ DOMAIN m = Requests /\ \A r \in Requests \ {Poll} : m[r] = sent[r]
      /\ m[Poll] # None => RequestOK(m[Poll]) /\ CardOK(Poll, m[Poll]) /\ m[Poll].late
  BY <1>3, OutdatedOK
<1>5. sent' = [m EXCEPT ![s] = n] /\ UNCHANGED <<live, cache>>
  BY <1>1, <1>3 DEF Click
<1>6. s # Poll /\ s \in Requests /\ Poll \in Requests
  BY KindsAssumption DEF Requests
<1>7. /\ DOMAIN sent' = Requests /\ sent'[s] = n /\ sent'[Poll] = m[Poll]
      /\ \A r \in Requests \ {s, Poll} : sent'[r] = sent[r]
  BY <1>4, <1>5, <1>6
<1>8. SentOK'
  BY <1>2, <1>4, <1>7 DEF Inv, SentOK
<1>9. PollOK'
  BY <1>4, <1>7 DEF PollOK
<1>10. QED
  BY <1>5, <1>8, <1>9, LiveSame, CacheSame DEF Inv

LEMMA ClicksOK ==
  ASSUME Inv, NEW s \in Slots, ClickRow(s) \/ ClickForm(s) \/ ClickAccount(s) \/ ClickPage(s)
  PROVE  Inv'
<1>1. \E kind \in Kinds, name \in Names \cup {None} : \E ver : Click(s, kind, name, ver)
  BY DEF ClickRow, ClickForm, ClickAccount, ClickPage, Kinds
<1>2. QED
  BY <1>1, ClickOK

\* A request whose card and listing had missed the change of a request that landed.
RelabelledBy(s, q) == [q EXCEPT !.listing = Relabel(s, q.listing), !.card = Relabel(s, q.card)]

LEMMA RelabelledOK ==
  ASSUME NEW s \in Requests, NEW r \in Requests, NEW q, RequestOK(q), CardOK(r, q)
  PROVE  /\ RequestOK(RelabelledBy(s, q)) /\ CardOK(r, RelabelledBy(s, q))
         /\ RelabelledBy(s, q).late = q.late
<1> DEFINE n == RelabelledBy(s, q)
           L == Relabel(s, q.listing)
           C == Relabel(s, q.card)
<1>1. q \in RequestOf(q) /\ q.listing \in Readings /\ q.card \in Readings \cup {Unavailable}
  BY DEF RequestOK, RequestOf, RequestIn
<1>2. L \in Readings /\ (Told(q.listing) => Told(L))
  BY <1>1, RelabelFacts
<1>3. C \in Readings \cup {Unavailable} /\ (q.card = Unavailable => C = Unavailable)
      /\ (C # Unavailable => /\ q.card # Unavailable /\ C.overtaken = q.card.overtaken
                             /\ Told(q.card) => Told(C)
                             /\ \A x \in Slots : x \in C.missing => x \in q.card.missing)
  <2>1. CASE q.card = Unavailable
    BY <2>1 DEF Relabel
  <2>2. CASE q.card # Unavailable
    BY <1>1, <2>2, RelabelFacts
  <2>3. QED
    BY <2>1, <2>2
<1>4. /\ n.kind = q.kind /\ n.todo = q.todo /\ n.step = q.step /\ n.card = C /\ n.listing = L
      /\ n.late = q.late /\ n \in RequestOf(q)
  BY <1>1, <1>2, <1>3 DEF RequestOf, RequestIn, RelabelledBy
<1> HIDE DEF L, C, n
<1>5. RequestOK(n)
  BY <1>2, <1>3, <1>4, InOf DEF RequestOK, RequestOf
<1>6. CardOK(r, n)
  BY <1>3, <1>4 DEF CardOK, Requests
<1>7. QED
  BY <1>4, <1>5, <1>6 DEF n

LEMMA LandOK ==
  ASSUME Inv, NEW s \in Requests, NEW next, Land(s, next)
  PROVE  Inv'
<1>1. /\ sent' = [r \in Requests |-> IF r = s \/ sent[r] = None THEN None
            ELSE [sent[r] EXCEPT !.listing = Relabel(s, @), !.card = Relabel(s, @)]]
      /\ cache' = Relabel(s, cache) /\ UNCHANGED live
  BY DEF Land
<1>2. \A r \in Requests : sent[r] = None => sent'[r] = None
  BY <1>1
<1>3. ASSUME NEW r \in Requests, sent'[r] # None
      PROVE  RequestOK(sent'[r]) /\ CardOK(r, sent'[r]) /\ sent'[r].late = sent[r].late
  <2>1. RequestOK(sent[r]) /\ CardOK(r, sent[r])
    BY <1>2, <1>3 DEF Inv, SentOK
  <2>2. sent'[r] = [sent[r] EXCEPT !.listing = Relabel(s, @), !.card = Relabel(s, @)]
    BY <1>1, <1>3
  <2>3. sent'[r] = RelabelledBy(s, sent[r])
    BY <2>1, <2>2 DEF RequestOK, RequestOf, RequestIn, RelabelledBy
  <2>4. QED
    BY <2>1, <2>3, RelabelledOK
<1>4. SentOK'
  BY <1>1, <1>3 DEF SentOK
<1>5. PollOK'
  BY <1>2, <1>3 DEF Inv, PollOK, Running, Requests
<1>6. CacheOK'
  <2>1. CASE cache = None
    BY <1>1, <2>1 DEF CacheOK, Relabel
  <2>2. CASE cache # None
    BY <1>1, <2>2, RelabelFacts DEF Inv, CacheOK
  <2>3. QED
    BY <2>1, <2>2
<1>7. QED
  BY <1>1, <1>4, <1>5, <1>6, LiveSame DEF Inv

LEMMA LandingsOK ==
  ASSUME Inv, LandPoll \/ \E s \in Slots : Landing(s)
  PROVE  Inv'
<1>1. \E s \in Requests : \E next : Land(s, next)
  BY DEF LandPoll, Landing, LandChange, LandRow, LandRefusal, LandError, Requests
<1>2. QED
  BY <1>1, LandOK

-----------------------------------------------------------------------------
(* Others, and time.                                                       *)

LEMMA ExpireOK ==
  ASSUME Inv, Expire
  PROVE  Inv'
BY DEF Inv, Expire, LiveOK, CacheOK, SentOK, PollOK, Running

LEMMA ElsewhereOK ==
  ASSUME Inv, Elsewhere
  PROVE  Inv'
<1>1. LiveOK'
  BY DEF Inv, Elsewhere, LiveOK, Live, Queues
<1>2. QED
  BY <1>1 DEF Inv, Elsewhere, CacheOK, SentOK, PollOK, Running

LEMMA PassOK ==
  ASSUME Inv, Pass
  PROVE  Inv'
<1>1. LiveOK' /\ CacheOK'
  BY LiveEdits DEF Inv, Pass, LiveOK, CacheOK
<1>2. /\ DOMAIN sent' = Requests
      /\ \A r \in Requests : sent[r] = None => sent'[r] = None
      /\ \A r \in Requests : sent'[r] # None =>
           RequestOK(sent'[r]) /\ CardOK(r, sent'[r]) /\ sent'[r].late = sent[r].late
  <2>1. PICK m : m = Overtaken
    OBVIOUS
  <2>2. sent' = m
    BY <2>1 DEF Pass
  <2>3. QED
    BY <2>1, <2>2, OvertakenOK
<1>3. SentOK'
  BY <1>2 DEF SentOK
<1>4. PollOK'
  BY <1>2 DEF Inv, PollOK, Running, Requests
<1>5. QED
  BY <1>1, <1>3, <1>4 DEF Inv

-----------------------------------------------------------------------------
LEMMA InitOK == Init => Inv
<1> SUFFICES ASSUME Init
             PROVE  Inv
  OBVIOUS
<1>1. live \in Live
  BY DEF Init, Live
<1>2. cache \in Readings /\ Told(cache)
  <2>1. cache = [NoReading EXCEPT !.queue = live.queue, !.fleet = live.fleet]
    BY DEF Init
  <2>2. live.queue \in Queues /\ live.fleet \in Fleets
    BY <1>1 DEF Live
  <2>3. QED
    BY <2>1, <2>2, NoReadingOK DEF Readings, Told, NoReading
<1>3. DOMAIN sent = Requests /\ \A r \in Requests : sent[r] = None
  BY DEF Init
<1>4. QED
  BY <1>1, <1>2, <1>3 DEF Inv, LiveOK, CacheOK, SentOK, PollOK, Requests

LEMMA NextOK ==
  ASSUME Inv, Next
  PROVE  Inv'
<1>1. ASSUME NEW s \in Slots,
             CoreStep(s) \/ Landing(s) \/ ClickRow(s) \/ ClickForm(s) \/ ClickAccount(s)
               \/ ClickPage(s)
      PROVE  Inv'
  BY <1>1, CoreStepOK, LandingsOK, ClicksOK
<1>2. QED
  BY <1>1, ReadStepOK, PollDueOK, LandingsOK, ExpireOK, ElsewhereOK, PassOK DEF Next

LEMMA VarsSame ==
  ASSUME Inv, UNCHANGED vars
  PROVE  Inv'
BY DEF Inv, vars, LiveOK, CacheOK, SentOK, PollOK, Running

\* The inductive invariant: a listing that missed a change knows that it was overtaken, the
\* card of a request does not miss its own change, and no poll is shown beside an action.
THEOREM Invariant == Spec => []Inv
<1>1. Inv /\ [Next]_vars => Inv'
  BY NextOK, VarsSame
<1>2. QED
  BY InitOK, <1>1, PTL DEF Spec

\* What the viewer did is not undone by an answer that comes later, for any number of requests
\* at once (app.js actionSeq and requestRunning, pendingAt, Service.PendingRequests).
THEOREM NothingUndoneHolds == Spec => []NothingUndone
<1>1. ASSUME Inv
      PROVE  NothingUndone
  <2>1. ASSUME NEW s \in Slots, Answered(s)
        PROVE  Shows(s, s)
    <3>1. CardOK(s, sent[s]) /\ s # Poll
      BY <1>1, <2>1, KindsAssumption DEF Inv, SentOK, Answered, Requests
    <3>2. QED
      BY <3>1 DEF CardOK, Shows
  <2>2. ASSUME Answered(Poll), ~sent[Poll].late
        PROVE  Shows(Poll, Landed)
    <3>1. CardOK(Poll, sent[Poll])
      BY <1>1, <2>2 DEF Inv, SentOK, Answered, Requests
    <3>2. QED
      BY <2>2, <3>1 DEF CardOK, Shows, Told
  <2>3. QED
    BY <2>1, <2>2 DEF NothingUndone
<1>2. QED
  BY <1>1, Invariant, PTL

=============================================================================
