------------------------- MODULE RequestQueueProofs -------------------------
(***************************************************************************)
(* Theorems about RequestQueue, for any number of names, people and faults:*)
(* first for any number of processes, then for one process on the queue.   *)
(***************************************************************************)
EXTENDS RequestQueue, TLAPS, FiniteSetTheorems

\* Labels of the operations that carry a record they will write.
Writers == {"checks", "room", "replaced", "enqueue", "claim", "list", "records",
            "create", "restore", "confirm", "editList", "editChecks", "edit"}
Approving == {"claim", "list", "records", "create"}
Reports == {"reportRead", "reportWrite", "announce"}

\* The record an approving operation carries is the one its ref names, and
\* its approver may approve it; a direct creation has no approver.
CarriesWhatWasSeen(o) ==
  IF o.ref = NoRef THEN o.rec.approver = None
  ELSE /\ o.ref.name = o.target /\ o.ref.jid = o.rec.jid /\ o.ref.owner = o.rec.owner
       /\ o.ref.by = o.rec.by /\ o.ref.terms = o.rec.terms
       /\ MayApprove(o.rec, o.rec.approver)

\* The states in which the account is there.
Existing == {"unplaced", "placed", "closed"}

\* What holds of one operation at every point of it, when s is what exists
\* at AWS: its record, its target and its creation are there when it needs
\* them, and a creation it has read or asked for still exists.
Good(o, s) ==
  /\ o \in OpState
  /\ o.pc \in Writers => o.rec \in Record /\ o.target \in Names
  /\ o.pc \in Approving => CarriesWhatWasSeen(o)
  /\ o.pc = "remove" => o.target \in Names
  /\ o.pc = "confirm" => o.cid \in CreateIds /\ s[o.cid] # NoCreation
  /\ o.pc \in {"dropRead", "dropRemove"} => o.cid \in CreateIds /\ o.target \in Names
  /\ o.pc \in Reports =>
       /\ o.target \in Names /\ o.tags[o.target] \in Record
       /\ o.tags[o.target].cid \in CreateIds
       /\ o.back = "enqueue" => o.rec \in Record
  /\ o.pc \in {"expireList", "expire"} => o.back = "expire"
  /\ o.back = "expire" => \A n \in o.todo : o.tags[n] \in Record
  /\ \A c \in CreateIds : o.seen[c] # NoCreation =>
       s[c] # NoCreation /\ (o.seen[c].state = "unplaced" => s[c].state \in Existing)

\* No creation disappears, nor the account it led to.
Grows(s, t) ==
  \A c \in CreateIds : s[c] # NoCreation =>
    t[c] # NoCreation /\ (s[c].state \in Existing => t[c].state \in Existing)

Inv ==
  /\ TypeOK
  /\ \A p \in Procs : Good(op[p], creation)
  /\ ApprovedAsSeen

LEMMA ZeroTime == 0 \in Times
  BY BoundsAssumption DEF Times

LEMMA EmptyTyped == EmptyQueue \in Queues /\ NoCreations \in Creations
  BY DEF EmptyQueue, NoCreations, Queues, Creations

LEMMA IdleGood == \A s : Good(Idle, s)
<1>1. Idle \in OpState
  BY EmptyTyped, ZeroTime DEF Idle, OpState, Labels, Callers
<1>2. QED
  BY <1>1 DEF Good, Idle, NoCreations, Writers, Approving, Reports

LEMMA GoodGrows ==
  ASSUME NEW o, NEW s, NEW t, Good(o, s), Grows(s, t)
  PROVE  Good(o, t)
BY DEF Good, Grows

\* A change of label alone, to one that asks for nothing new.
LEMMA LabelGood ==
  ASSUME NEW o \in OpState, NEW s, Good(o, s), NEW l \in Labels,
         l \in Writers => o.pc \in Writers,
         l \in Approving => o.pc \in Approving,
         l \notin {"remove", "confirm", "expireList", "expire"},
         l \in {"dropRead", "dropRemove"} => o.pc \in {"dropRead", "dropRemove"},
         l \in Reports => o.pc \in Reports
  PROVE  Good([o EXCEPT !.pc = l], s)
<1> DEFINE x == [o EXCEPT !.pc = l]
<1>1. /\ x \in OpState
      /\ x.pc = l /\ x.target = o.target /\ x.ref = o.ref /\ x.rec = o.rec
      /\ x.cid = o.cid /\ x.tags = o.tags /\ x.seen = o.seen /\ x.todo = o.todo
      /\ x.back = o.back
  BY DEF OpState
<1> HIDE DEF x
<1>2. CarriesWhatWasSeen(x) <=> CarriesWhatWasSeen(o)
  BY <1>1 DEF CarriesWhatWasSeen
<1>3. Good(x, s)
  BY <1>1, <1>2 DEF Good
<1>4. QED
  BY <1>3 DEF x

LEMMA PlacingGood ==
  ASSUME NEW o \in OpState, NEW s, Good(o, s)
  PROVE  Good(Placing(o), s)
<1> DEFINE x == [o EXCEPT !.pc = "place", !.target = None, !.cid = None]
<1>1. /\ x \in OpState
      /\ x.pc = "place" /\ x.tags = o.tags /\ x.seen = o.seen /\ x.todo = o.todo
      /\ x.back = o.back
  BY DEF OpState, Labels
<1> HIDE DEF x
<1>2. Good(x, s)
  BY <1>1 DEF Good, Writers, Approving, Reports
<1>3. QED
  BY <1>2 DEF Placing, x

\* Whatever call fails, the operation goes on in a sound state.
LEMMA AfterErrorGood ==
  ASSUME NEW p \in Procs, NEW s, op[p] \in OpState, Good(op[p], s)
  PROVE  Good(AfterError(p), s)
<1> DEFINE o == op[p]
<1> DEFINE Restores == o.pc \in {"list", "records", "create"} /\ o.ref # NoRef
           Drops1 == o.pc \in {"dropRead", "dropRemove"}
           Expires == o.pc \in {"reportRead", "reportWrite"} /\ o.back = "expire"
           x == [o EXCEPT !.pc = "restore"]
           y == [o EXCEPT !.pc = "expire", !.todo = @ \ {o.target}]
<1>1. AfterError(p) = IF Restores THEN x ELSE IF Drops1 THEN Placing(o)
                      ELSE IF Expires THEN y ELSE Idle
  BY DEF AfterError
<1>2. o \in OpState /\ Good(o, s)
  OBVIOUS
<1> HIDE DEF o
<1>3. ASSUME Restores PROVE Good(x, s)
  BY <1>2, <1>3, LabelGood, Zenon DEF Labels, Writers, Approving, Reports
<1>4. Good(Placing(o), s)
  BY <1>2, PlacingGood
<1>5. ASSUME Expires PROVE Good(y, s)
  <2>1. /\ y \in OpState /\ y.pc = "expire" /\ y.todo = o.todo \ {o.target}
        /\ y.tags = o.tags /\ y.seen = o.seen
    BY <1>2 DEF OpState, Labels
  <2>2. y.back = o.back
    BY <1>2 DEF OpState
  <2> HIDE DEF y
  <2>3. QED
    BY <1>2, <1>5, <2>1, <2>2 DEF Good, Writers, Approving, Reports
<1> HIDE DEF x, y, Restores, Drops1, Expires
<1>6. QED
  BY <1>1, <1>3, <1>4, <1>5, IdleGood

-----------------------------------------------------------------------------
(* What every step of a process preserves.                                 *)

OpsGood == op \in [Procs -> OpState] /\ \A p \in Procs : Good(op[p], creation)

LEMMA OpsStep ==
  ASSUME Inv, NEW p \in Procs, NEW o, Good(o, creation'), Continue(p, o),
         Grows(creation, creation')
  PROVE  OpsGood'
<1>1. op \in [Procs -> OpState] /\ \A q \in Procs : Good(op[q], creation')
  BY GoodGrows DEF Inv, TypeOK
<1>2. o \in OpState
  BY DEF Good
<1>3. op' = [op EXCEPT ![p] = o]
  BY DEF Continue
<1>4. QED
  BY <1>1, <1>2, <1>3 DEF OpsGood

LEMMA GrowsSame == ASSUME UNCHANGED creation PROVE Grows(creation, creation')
  BY DEF Grows

\* A creation that is new or changes keeps its approver's word.
LEMMA CreationStep ==
  ASSUME Inv, NEW c \in CreateIds, NEW k \in Creation, AsSeen(k),
         creation[c] # NoCreation /\ creation[c].state \in Existing => k.state \in Existing,
         creation' = [creation EXCEPT ![c] = k]
  PROVE  creation' \in Creations /\ Grows(creation, creation') /\ ApprovedAsSeen'
<1>1. creation \in Creations
  BY DEF Inv, TypeOK
<1>2. creation' \in Creations /\ Grows(creation, creation')
  BY <1>1, DistinctAssumption DEF Creations, Grows
<1>3. ASSUME NEW d \in CreateIds, creation'[d] # NoCreation
      PROVE  AsSeen(creation'[d])
  <2>1. CASE d = c
    BY <1>1, <2>1 DEF Creations
  <2>2. CASE d # c
    BY <1>1, <1>3, <2>2, Zenon DEF Inv, ApprovedAsSeen, Creations
  <2>3. QED
    BY <2>1, <2>2
<1>4. ApprovedAsSeen'
  BY <1>3 DEF ApprovedAsSeen, AsSeen, MayApprove
<1>5. QED
  BY <1>2, <1>4

LEMMA FrameInv ==
  ASSUME Inv, OpsGood', queue' \in Queues, faults' \in 0 .. MaxFaults, UNCHANGED Env
  PROVE  Inv'
BY DEF Inv, TypeOK, OpsGood, Env, ApprovedAsSeen, AsSeen, MayApprove

\* A step that only reads.
LEMMA ReadStep ==
  ASSUME Inv, NEW p \in Procs, NEW o, Good(o, creation), Continue(p, o),
         UNCHANGED <<queue, faults, Env>>
  PROVE  Inv'
<1>1. UNCHANGED <<creation, queue, faults>> /\ UNCHANGED Env
  BY DEF Env
<1>2. OpsGood'
  BY <1>1, OpsStep, GrowsSame
<1>3. QED
  BY <1>1, <1>2, FrameInv DEF Inv, TypeOK

\* A step that writes the tags, whatever becomes of the reply.
LEMMA WriteStep ==
  ASSUME Inv, NEW p \in Procs, NEW q \in Queues, NEW next, Grows(creation, creation'),
         Good(next, creation'), WriteTags(p, q, next)
  PROVE  OpsGood' /\ queue' \in Queues /\ faults' \in 0 .. MaxFaults
<1>1. faults \in 0 .. MaxFaults /\ MaxFaults \in Nat
  BY BoundsAssumption DEF Inv, TypeOK
<1>2. queue' = q
  BY DEF WriteTags
<1>3. CASE Continue(p, next) /\ UNCHANGED faults
  BY <1>1, <1>2, <1>3, OpsStep
<1>4. CASE Fault("lost") /\ Continue(p, AfterError(p))
  <2>1. op[p] \in OpState /\ Good(op[p], creation')
    BY GoodGrows DEF Inv, TypeOK
  <2>2. Good(AfterError(p), creation')
    BY <2>1, AfterErrorGood
  <2>3. faults' \in 0 .. MaxFaults
    BY <1>1, <1>4 DEF Fault
  <2>4. QED
    BY <1>2, <1>4, <2>2, <2>3, OpsStep
<1>5. QED
  BY <1>3, <1>4 DEF WriteTags

LEMMA WriteInv ==
  ASSUME Inv, NEW p \in Procs, NEW q \in Queues, NEW next,
         Good(next, creation), WriteTags(p, q, next), UNCHANGED Env
  PROVE  Inv'
<1>1. UNCHANGED creation
  BY DEF Env
<1>2. QED
  BY <1>1, WriteStep, FrameInv, GrowsSame

LEMMA OpFacts ==
  ASSUME Inv, NEW p \in Procs
  PROVE  op[p] \in OpState /\ Good(op[p], creation)
BY DEF Inv, TypeOK

LEMMA CallFailsInv == ASSUME Inv, NEW p \in Procs, CallFails(p) PROVE Inv'
<1>1. Good(AfterError(p), creation)
  BY OpFacts, AfterErrorGood
<1>2. OpsGood'
  BY <1>1, OpsStep, GrowsSame DEF CallFails
<1>3. faults' \in 0 .. MaxFaults
  BY BoundsAssumption DEF CallFails, Fault, Inv, TypeOK
<1>4. QED
  BY <1>2, <1>3, FrameInv DEF CallFails, Env, Inv, TypeOK

LEMMA OutOfIdsInv == ASSUME Inv, NEW p \in Procs, OutOfIds(p) PROVE Inv'
<1>1. Good(AfterError(p), creation)
  BY OpFacts, AfterErrorGood
<1>2. QED
  BY <1>1, ReadStep DEF OutOfIds, Env

LEMMA CrashInv == ASSUME Inv, NEW p \in Procs, Crash(p) PROVE Inv'
<1>1. OpsGood'
  BY IdleGood, OpsStep, GrowsSame DEF Crash
<1>2. faults' \in 0 .. MaxFaults
  BY BoundsAssumption DEF Crash, Fault, Inv, TypeOK
<1>3. QED
  BY <1>1, <1>2, FrameInv DEF Crash, Env, Inv, TypeOK

-----------------------------------------------------------------------------
(* SubmitRequest.                                                          *)

LEMMA DraftRecord ==
  ASSUME NEW o \in Owners, NEW b \in Requesters, NEW t \in Terms
  PROVE  Draft(o, b, t) \in Record
BY ZeroTime DEF Draft, Record, People

LEMMA IdleFields ==
  /\ Idle \in OpState /\ Idle.tags = EmptyQueue /\ Idle.seen = NoCreations
  /\ Idle.todo = {} /\ Idle.ref = NoRef /\ Idle.rec = NoRecord /\ Idle.pc = "idle"
  /\ Idle.back = "idle" /\ Idle.cid = None
BY IdleGood DEF Good, Idle

\* A listing that fails.
LEMMA FaultStep ==
  ASSUME Inv, NEW p \in Procs, NEW o, Good(o, creation), Continue(p, o), Fault("root"),
         UNCHANGED <<queue, Env>>
  PROVE  Inv'
<1>1. OpsGood'
  BY OpsStep, GrowsSame DEF Env
<1>2. faults' \in 0 .. MaxFaults /\ queue' \in Queues
  BY BoundsAssumption DEF Fault, Inv, TypeOK
<1>3. QED
  BY <1>1, <1>2, FrameInv

\* A step that reads the creations, with the root listing or without.
LEMMA ListedInv ==
  ASSUME Inv, NEW p \in Procs, NEW o \in OpState,
         Good([o EXCEPT !.seen = creation], creation), Listed(p, o), UNCHANGED <<queue, Env>>
  PROVE  Inv'
<1> DEFINE x == [o EXCEPT !.seen = creation]
           y == [o EXCEPT !.seen = creation, !.root = FALSE]
<1>1. creation \in Creations
  BY DEF Inv, TypeOK
<1>2. /\ y \in OpState /\ y.pc = x.pc /\ y.target = x.target /\ y.ref = x.ref /\ y.rec = x.rec
      /\ y.cid = x.cid /\ y.tags = x.tags /\ y.seen = x.seen /\ y.todo = x.todo
      /\ y.back = x.back
  BY <1>1 DEF OpState
<1>3. \/ Continue(p, x) /\ UNCHANGED faults
      \/ Fault("root") /\ Continue(p, y)
  BY DEF Listed
<1> HIDE DEF x, y
<1>4. CarriesWhatWasSeen(y) <=> CarriesWhatWasSeen(x)
  BY <1>2 DEF CarriesWhatWasSeen
<1>5. Good(x, creation) /\ Good(y, creation)
  BY <1>2, <1>4 DEF Good, x
<1>6. CASE Fault("root") /\ Continue(p, y)
  BY <1>5, <1>6, FaultStep
<1>7. CASE Continue(p, x) /\ UNCHANGED faults
  BY <1>5, <1>7, ReadStep
<1>8. QED
  BY <1>3, <1>6, <1>7

\* What an inventory lacks goes on as it is.
LEMMA MissFacts ==
  ASSUME Inv, NEW o, Good(o, creation), Miss(o)
  PROVE  creation' \in Creations /\ Grows(creation, creation') /\ ApprovedAsSeen'
<1> DEFINE u == [c \in CreateIds |-> IF Overlooks(o, c) THEN [creation[c] EXCEPT !.missed = TRUE]
                                                       ELSE creation[c]]
<1>1. creation' = u /\ creation \in Creations
  BY DEF Miss, Inv, TypeOK
<1>2. ASSUME NEW c \in CreateIds, Overlooks(o, c)
      PROVE  /\ u[c] \in Creation /\ creation[c] # NoCreation
             /\ u[c].approver = creation[c].approver /\ u[c].ref = creation[c].ref
             /\ u[c].name = creation[c].name /\ u[c].jid = creation[c].jid
             /\ u[c].owner = creation[c].owner /\ u[c].by = creation[c].by
             /\ u[c].terms = creation[c].terms /\ u[c].state = creation[c].state
  <2>1. creation[c] # NoCreation
    BY <1>2 DEF Overlooks, Hidden, Good
  <2>2. creation[c] \in Creation
    BY <1>1, <2>1 DEF Creations
  <2>3. u[c] = [creation[c] EXCEPT !.missed = TRUE]
    BY <1>2
  <2> HIDE DEF u
  <2>4. QED
    BY <2>1, <2>2, <2>3 DEF Creation
<1>3. ASSUME NEW c \in CreateIds, ~Overlooks(o, c)
      PROVE  u[c] = creation[c]
  BY <1>3
<1>4. \A c \in CreateIds : u[c] \in Creation \cup {NoCreation}
  BY <1>1, <1>2, <1>3, Zenon DEF Creations
<1>5. u \in Creations
  <2>1. u = [c \in CreateIds |-> u[c]]
    OBVIOUS
  <2> HIDE DEF u
  <2>2. QED
    BY <1>4, <2>1, Zenon DEF Creations
<1> HIDE DEF u
<1>6. Grows(creation, u)
  BY <1>2, <1>3, DistinctAssumption DEF Grows
<1>7. ASSUME NEW c \in CreateIds, u[c] # NoCreation PROVE AsSeen(u[c])
  <2>1. CASE Overlooks(o, c)
    <3>1. AsSeen(creation[c])
      BY <1>2, <2>1 DEF Inv, ApprovedAsSeen
    <3>2. QED
      BY <1>2, <2>1, <3>1 DEF AsSeen, MayApprove
  <2>2. CASE ~Overlooks(o, c)
    BY <1>3, <1>7, <2>2 DEF Inv, ApprovedAsSeen
  <2>3. QED
    BY <2>1, <2>2
<1>8. ApprovedAsSeen'
  BY <1>1, <1>7 DEF ApprovedAsSeen, AsSeen, MayApprove
<1>9. QED
  BY <1>1, <1>5, <1>6, <1>8

\* A step that reads the records after the creations.
LEMMA RecordsStep ==
  ASSUME Inv, NEW p \in Procs, NEW x, Good(x, creation), Continue(p, x), Miss(op[p]),
         UNCHANGED <<queue, now, faults, issued, shown, notices>>
  PROVE  Inv'
<1>1. creation' \in Creations /\ Grows(creation, creation') /\ ApprovedAsSeen'
  BY OpFacts, MissFacts
<1>2. Good(x, creation')
  BY <1>1, GoodGrows
<1>3. OpsGood'
  BY <1>1, <1>2, OpsStep
<1>4. QED
  BY <1>1, <1>3 DEF Inv, TypeOK, OpsGood

LEMMA AfterInventoryFields ==
  ASSUME NEW o \in OpState, NEW l \in Labels
  PROVE  LET x == AfterInventory(o, l) IN
         /\ x \in OpState /\ x.pc = l /\ x.target = o.target /\ x.rec = o.rec /\ x.ref = o.ref
         /\ x.cid = o.cid /\ x.seen = NoCreations /\ x.todo = o.todo /\ x.tags = o.tags
         /\ x.at = o.at /\ x.back = o.back
BY EmptyTyped DEF AfterInventory, OpState

LEMMA SubmitInv == ASSUME Inv, NEW p \in Procs, Submit(p) PROVE Inv'
<1>1. PICK n \in Names, o \in Owners, b \in Requesters, t \in Terms :
        Listed(p, [Idle EXCEPT !.pc = "checks", !.target = n, !.rec = Draft(o, b, t)])
  BY DEF Submit
<1> DEFINE r == Draft(o, b, t)
           w == [Idle EXCEPT !.pc = "checks", !.target = n, !.rec = r]
           x == [Idle EXCEPT !.pc = "checks", !.target = n, !.rec = r, !.seen = creation]
<1>2. r \in Record /\ creation \in Creations
  BY DraftRecord DEF Inv, TypeOK
<1> HIDE DEF r
<1>3. /\ x \in OpState /\ x.pc = "checks" /\ x.target = n /\ x.rec = r
      /\ x.seen = creation /\ x.todo = {} /\ x.back = "idle"
  BY <1>2, IdleFields DEF OpState, Labels
<1>4. Good(x, creation)
  <2> HIDE DEF x
  <2>1. QED
    BY <1>2, <1>3 DEF Good, Approving, Reports, Existing
<1>5. w \in OpState /\ x = [w EXCEPT !.seen = creation]
  BY <1>2, IdleFields DEF OpState, Labels
<1> HIDE DEF w, x
<1>6. QED
  BY <1>1, <1>4, <1>5, ListedInv DEF Submit, r, w

LEMMA SubmitChecksInv == ASSUME Inv, NEW p \in Procs, SubmitChecks(p) PROVE Inv'
<1> DEFINE o == op[p]
           x == AfterInventory(o, "room")
           C == /\ NameFree(Inventory(o), queue, o.target, None)
                /\ BelowLimit(Held(Inventory(o), queue, o.rec.owner, None))
<1>1. o.pc = "checks" /\ Continue(p, IF C THEN x ELSE Idle)
  BY DEF SubmitChecks
<1>2. o \in OpState /\ Good(o, creation)
  BY OpFacts
<1> HIDE DEF o, C
<1>3. /\ x \in OpState /\ x.pc = "room" /\ x.target = o.target /\ x.rec = o.rec
      /\ x.seen = NoCreations /\ x.todo = o.todo /\ x.tags = o.tags /\ x.back = o.back
  BY <1>2, AfterInventoryFields DEF Labels
<1> HIDE DEF x
<1>4. Good(x, creation)
  BY <1>1, <1>2, <1>3 DEF Good, Writers, Approving, Reports, NoCreations
<1>5. Good(IF C THEN x ELSE Idle, creation)
  BY <1>4, IdleGood
<1>6. QED
  BY <1>1, <1>5, RecordsStep DEF SubmitChecks, o

LEMMA SubmitRoomInv == ASSUME Inv, NEW p \in Procs, SubmitRoom(p) PROVE Inv'
<1> DEFINE o == op[p]
           r == [o.rec EXCEPT !.requestedAt = now]
           x == [o EXCEPT !.pc = "replaced", !.rec.requestedAt = now]
           C == UsedTags(queue) < MaxTags
<1>1. o.pc = "room" /\ Continue(p, IF C THEN x ELSE Idle)
  BY DEF SubmitRoom
<1>2. o \in OpState /\ Good(o, creation)
  BY OpFacts
<1> HIDE DEF o, C
<1>3. o.rec \in Record /\ o.target \in Names /\ now \in Times
  BY <1>1, <1>2 DEF Good, Writers, Inv, TypeOK
<1>4. r \in Record
  BY <1>3 DEF Record
<1>5. x = [o EXCEPT !.pc = "replaced", !.rec = r]
  OBVIOUS
<1> HIDE DEF r, x
<1>6. /\ x \in OpState /\ x.pc = "replaced" /\ x.target = o.target /\ x.rec = r
      /\ x.seen = o.seen /\ x.todo = o.todo /\ x.tags = o.tags /\ x.back = o.back
  BY <1>2, <1>4, <1>5 DEF OpState, Labels
<1>7. Good(x, creation)
  BY <1>1, <1>2, <1>3, <1>4, <1>6 DEF Good, Writers, Approving, Reports
<1>8. QED
  BY <1>1, <1>7, IdleGood, ReadStep DEF SubmitRoom

\* A report starts on an approved record that names a creation.
LEMMA ReportingGood ==
  ASSUME NEW o \in OpState, Good(o, creation), NEW q \in Queues, NEW n \in Names,
         q[n] \in Record, q[n].cid \in CreateIds,
         NEW b \in Callers, b = "enqueue" => o.rec \in Record,
         b = "expire" => o.back = "expire"
  PROVE  Good(Reporting(o, q, n, b), creation)
<1> DEFINE t == [o.tags EXCEPT ![n] = q[n]]
           x == [o EXCEPT !.pc = "reportRead", !.target = n, !.tags = t, !.back = b]
<1>1. Reporting(o, q, n, b) = x
  BY DEF Reporting
<1>2. t \in Queues /\ t[n] = q[n] /\ \A m \in Names : m # n => t[m] = o.tags[m]
  BY DEF Queues, OpState
<1> HIDE DEF t
<1>3. /\ x \in OpState /\ x.pc = "reportRead" /\ x.target = n /\ x.rec = o.rec
      /\ x.seen = o.seen /\ x.todo = o.todo /\ x.tags = t /\ x.back = b
  BY <1>2 DEF OpState, Labels
<1> HIDE DEF x
<1>4. o.todo \subseteq Names
  BY DEF OpState
<1>5. Good(x, creation)
  BY <1>2, <1>3, <1>4 DEF Good, Writers, Approving, Reports
<1>6. QED
  BY <1>1, <1>5

LEMMA SubmitReplacedInv == ASSUME Inv, NEW p \in Procs, SubmitReplaced(p) PROVE Inv'
<1> DEFINE o == op[p]
           n == o.target
           y == [o EXCEPT !.pc = "enqueue"]
           C == Approved(queue, n) /\ ~queue[n].reported /\ Failed(creation, queue[n].cid)
<1>1. o.pc = "replaced" /\ Continue(p, IF C THEN Reporting(o, queue, n, "enqueue") ELSE y)
  BY DEF SubmitReplaced
<1>2. o \in OpState /\ Good(o, creation)
  BY OpFacts
<1> HIDE DEF o
<1>3. o.rec \in Record /\ n \in Names
  BY <1>1, <1>2 DEF Good, Writers
<1>4. ASSUME C PROVE Good(Reporting(o, queue, n, "enqueue"), creation)
  <2>1. queue \in Queues /\ queue[n] \in Record /\ queue[n].cid \in CreateIds
    BY <1>3, <1>4 DEF Inv, TypeOK, Queues, Approved, Failed, Record
  <2>2. "enqueue" \in Callers
    BY DEF Callers
  <2>3. QED
    BY <1>2, <1>3, <2>1, <2>2, ReportingGood
<1>5. Good(y, creation)
  BY <1>1, <1>2, LabelGood, Zenon DEF Labels, Writers, Approving, Reports
<1> HIDE DEF C, y, n
<1>6. Good(IF C THEN Reporting(o, queue, n, "enqueue") ELSE y, creation)
  BY <1>4, <1>5
<1>7. QED
  BY <1>1, <1>6, ReadStep DEF SubmitReplaced

LEMMA EnqueueInv == ASSUME Inv, NEW p \in Procs, Enqueue(p) PROVE Inv'
<1> DEFINE o == op[p]
<1>1. PICK j \in Journeys \ issued :
        LET r == [o.rec EXCEPT !.jid = j] IN
        /\ WriteTags(p, [queue EXCEPT ![o.target] = r], Idle)
        /\ issued' = issued \cup {j}
        /\ shown' = shown \cup {Version(o.target, r)}
  BY DEF Enqueue
<1> DEFINE r == [o.rec EXCEPT !.jid = j]
           q == [queue EXCEPT ![o.target] = r]
<1>2. o.rec \in Record /\ o.target \in Names
  BY OpFacts DEF Enqueue, Good, Writers
<1>3. r \in Record
  BY <1>2 DEF Record
<1> HIDE DEF r
<1>4. q \in Queues
  BY <1>2, <1>3 DEF Inv, TypeOK, Queues
<1>5. Version(o.target, r) \in Ref
  BY <1>2, <1>3 DEF Version, Ref, Record
<1> HIDE DEF q
<1>6. OpsGood' /\ queue' \in Queues /\ faults' \in 0 .. MaxFaults
  BY <1>1, <1>4, IdleGood, WriteStep, GrowsSame DEF Enqueue, r, q
<1>7. issued' \subseteq Journeys /\ shown' \subseteq Ref
  BY <1>1, <1>5 DEF Inv, TypeOK, r
<1>8. QED
  BY <1>6, <1>7 DEF Enqueue, Inv, TypeOK, OpsGood, ApprovedAsSeen, AsSeen, MayApprove

-----------------------------------------------------------------------------
(* reportCreationFailure.                                                  *)

LEMMA AfterReportGood ==
  ASSUME NEW p \in Procs, op[p] \in OpState, Good(op[p], creation), op[p].pc \in Reports
  PROVE  Good(AfterReport(p), creation)
<1> DEFINE o == op[p]
           x == [o EXCEPT !.pc = "enqueue", !.tags = EmptyQueue, !.back = "idle"]
           r == [o.tags[o.target] EXCEPT !.reported = TRUE]
           t == [o.tags EXCEPT ![o.target] = r]
           y == [o EXCEPT !.pc = "expire", !.tags[o.target].reported = TRUE]
           E == o.back = "enqueue"
           X == o.back = "expire"
<1>1. AfterReport(p) = IF E THEN x ELSE IF X THEN y ELSE Idle
  BY DEF AfterReport
<1>2. o \in OpState /\ Good(o, creation) /\ o.pc \in Reports
  OBVIOUS
<1>3. y = [o EXCEPT !.pc = "expire", !.tags = t]
  OBVIOUS
<1> HIDE DEF o, y
<1>4. /\ o.target \in Names /\ o.tags[o.target] \in Record
      /\ o.tags \in Queues /\ o.todo \subseteq Names
  BY <1>2 DEF Good, Reports, OpState
<1>5. ASSUME E PROVE Good(x, creation)
  <2>1. /\ x.pc = "enqueue" /\ x.target = o.target /\ x.rec = o.rec
        /\ x.seen = o.seen /\ x.tags = EmptyQueue /\ x.back = "idle"
    BY <1>2 DEF OpState
  <2>2. x \in OpState
    BY <1>2, EmptyTyped DEF OpState, Labels, Callers
  <2> HIDE DEF x
  <2>3. QED
    BY <1>2, <1>4, <1>5, <2>1, <2>2 DEF Good, Writers, Approving, Reports
<1>6. ASSUME X PROVE Good(y, creation)
  <2>1. r \in Record
    BY <1>4 DEF Record
  <2> HIDE DEF r
  <2>2. t \in Queues /\ t[o.target] = r /\ \A m \in Names : m # o.target => t[m] = o.tags[m]
    BY <1>4, <2>1 DEF Queues
  <2> HIDE DEF t
  <2>3. /\ y \in OpState /\ y.pc = "expire" /\ y.seen = o.seen /\ y.todo = o.todo
        /\ y.tags = t /\ y.back = o.back
    BY <1>2, <1>3, <2>2 DEF OpState, Labels
  <2>4. QED
    BY <1>2, <1>4, <1>6, <2>1, <2>2, <2>3 DEF Good, Writers, Approving, Reports
<1> HIDE DEF x, E, X
<1>7. QED
  BY <1>1, <1>5, <1>6, IdleGood

LEMMA ReportReadInv == ASSUME Inv, NEW p \in Procs, ReportRead(p) PROVE Inv'
<1> DEFINE o == op[p]
           n == o.target
           t == [o.tags EXCEPT ![n] = queue[n]]
           x == [o EXCEPT !.pc = "reportWrite", !.tags[n] = queue[n]]
           C == /\ Approved(queue, n) /\ ~queue[n].reported
                /\ queue[n].jid = o.tags[n].jid /\ queue[n].cid = o.tags[n].cid
<1>1. o.pc = "reportRead" /\ Continue(p, IF C THEN x ELSE AfterReport(p))
  BY DEF ReportRead
<1>2. o \in OpState /\ Good(o, creation)
  BY OpFacts
<1>3. Good(AfterReport(p), creation)
  BY <1>1, <1>2, AfterReportGood DEF Reports
<1>4. x = [o EXCEPT !.pc = "reportWrite", !.tags = t]
  OBVIOUS
<1> HIDE DEF o, x
<1>5. ASSUME C PROVE Good(x, creation)
  <2>1. /\ n \in Names /\ o.tags[n] \in Record /\ o.tags \in Queues /\ o.todo \subseteq Names
        /\ o.tags[n].cid \in CreateIds
    BY <1>1, <1>2 DEF Good, Reports, OpState
  <2>2. queue[n] \in Record /\ queue[n].cid \in CreateIds
    BY <1>5, <2>1 DEF Inv, TypeOK, Queues, Approved
  <2>3. t \in Queues /\ t[n] = queue[n] /\ \A m \in Names : m # n => t[m] = o.tags[m]
    BY <2>1, <2>2 DEF Queues
  <2> HIDE DEF t
  <2>4. /\ x \in OpState /\ x.pc = "reportWrite" /\ x.target = n /\ x.rec = o.rec
        /\ x.seen = o.seen /\ x.todo = o.todo /\ x.tags = t /\ x.back = o.back
    BY <1>2, <1>4, <2>3 DEF OpState, Labels
  <2> HIDE DEF n
  <2>5. QED
    BY <1>1, <1>2, <2>1, <2>2, <2>3, <2>4 DEF Good, Writers, Approving, Reports
<1> HIDE DEF C
<1>6. Good(IF C THEN x ELSE AfterReport(p), creation)
  BY <1>3, <1>5
<1>7. QED
  BY <1>1, <1>6, ReadStep DEF ReportRead

LEMMA ReportWriteInv == ASSUME Inv, NEW p \in Procs, ReportWrite(p) PROVE Inv'
<1> DEFINE o == op[p]
           n == o.target
           r == [o.tags[n] EXCEPT !.reported = TRUE]
           q == [queue EXCEPT ![n] = r]
           x == [o EXCEPT !.pc = "announce"]
<1>1. o.pc = "reportWrite" /\ WriteTags(p, q, x)
  BY DEF ReportWrite
<1>2. o \in OpState /\ Good(o, creation)
  BY OpFacts
<1> HIDE DEF o
<1>3. n \in Names /\ o.tags[n] \in Record
  BY <1>1, <1>2 DEF Good, Reports
<1>4. r \in Record
  BY <1>3 DEF Record
<1> HIDE DEF r
<1>5. q \in Queues
  BY <1>3, <1>4 DEF Inv, TypeOK, Queues
<1>6. Good(x, creation)
  BY <1>1, <1>2, LabelGood, Zenon DEF Labels, Writers, Approving, Reports
<1> HIDE DEF q, x
<1>7. QED
  BY <1>1, <1>5, <1>6, WriteInv DEF ReportWrite

LEMMA AnnounceInv == ASSUME Inv, NEW p \in Procs, Announce(p) PROVE Inv'
<1>1. Good(AfterReport(p), creation)
  BY OpFacts, AfterReportGood DEF Announce, Reports
<1>2. OpsGood'
  BY <1>1, OpsStep, GrowsSame DEF Announce
<1>3. op[p].tags[op[p].target].cid \in CreateIds
  BY OpFacts DEF Announce, Good, Reports
<1>4. notices' \in [CreateIds -> 0 .. 2]
  BY <1>3 DEF Announce, Inv, TypeOK
<1>5. QED
  BY <1>2, <1>4 DEF Announce, Inv, TypeOK, OpsGood, ApprovedAsSeen, AsSeen, MayApprove

-----------------------------------------------------------------------------
(* Approve, and Request.                                                   *)

\* A ref that still finds its request describes it.
LEMMA SeenFacts ==
  ASSUME Inv, NEW ref \in shown, SeenAs(ref)
  PROVE  LET r == queue[ref.name] IN
         /\ ref \in Ref /\ ref.name \in Names /\ r \in Record
         /\ ref.jid = r.jid /\ ref.owner = r.owner /\ ref.by = r.by /\ ref.terms = r.terms
<1>1. ref \in Ref /\ ref.name \in Names
  BY DEF Inv, TypeOK, Ref
<1>2. queue[ref.name] \in Record
  BY <1>1 DEF SeenAs, Pending, Inv, TypeOK, Queues
<1>3. Version(ref.name, queue[ref.name]) = ref
  BY DEF SeenAs
<1>4. QED
  BY <1>1, <1>2, <1>3 DEF Version, Ref, Record

LEMMA ApproveInv == ASSUME Inv, NEW p \in Procs, Approve(p) PROVE Inv'
<1>1. PICK ref \in shown, a \in Approvers :
        /\ SeenAs(ref)
        /\ MayApprove(queue[ref.name], a)
        /\ Continue(p, [Idle EXCEPT !.pc = "claim", !.target = ref.name, !.ref = ref,
                         !.rec = [queue[ref.name] EXCEPT !.approved = TRUE, !.approver = a,
                                                         !.approvedAt = now]])
  BY DEF Approve
<1> DEFINE r == [queue[ref.name] EXCEPT !.approved = TRUE, !.approver = a, !.approvedAt = now]
           x == [Idle EXCEPT !.pc = "claim", !.target = ref.name, !.ref = ref, !.rec = r]
<1>2. /\ ref \in Ref /\ ref.name \in Names /\ queue[ref.name] \in Record
      /\ ref.jid = queue[ref.name].jid /\ ref.owner = queue[ref.name].owner
      /\ ref.by = queue[ref.name].by /\ ref.terms = queue[ref.name].terms
  BY <1>1, SeenFacts
<1>3. now \in Times
  BY DEF Inv, TypeOK
<1>4. /\ r \in Record /\ r.approver = a /\ r.jid = ref.jid /\ r.owner = ref.owner
      /\ r.by = ref.by /\ r.terms = ref.terms
  BY <1>2, <1>3 DEF Record
<1>5. MayApprove(r, a)
  BY <1>1, <1>2, <1>4 DEF MayApprove
<1> HIDE DEF r
<1>6. /\ x \in OpState /\ x.pc = "claim" /\ x.target = ref.name /\ x.rec = r /\ x.ref = ref
      /\ x.seen = NoCreations /\ x.back = "idle"
  BY <1>2, <1>4, IdleFields DEF OpState, Labels
<1> HIDE DEF x
<1>7. ref # NoRef
  BY <1>2, DistinctAssumption
<1>8. CarriesWhatWasSeen(x)
  BY <1>4, <1>5, <1>6, <1>7 DEF CarriesWhatWasSeen
<1>9. Good(x, creation)
  BY <1>2, <1>4, <1>6, <1>8 DEF Good, Approving, Reports, NoCreations
<1>10. QED
  BY <1>1, <1>9, ReadStep DEF Approve, r, x

LEMMA ClaimInv == ASSUME Inv, NEW p \in Procs, Claim(p) PROVE Inv'
<1> DEFINE o == op[p]
           q == [queue EXCEPT ![o.target] = o.rec]
           x == [o EXCEPT !.pc = "list"]
<1>1. o.pc = "claim" /\ WriteTags(p, q, x)
  BY DEF Claim
<1>2. o \in OpState /\ Good(o, creation)
  BY OpFacts
<1> HIDE DEF o
<1>3. q \in Queues
  BY <1>1, <1>2 DEF Inv, TypeOK, Queues, Good, Writers
<1>4. Good(x, creation)
  BY <1>1, <1>2, LabelGood, Zenon DEF Labels, Writers, Approving, Reports
<1> HIDE DEF q, x
<1>5. QED
  BY <1>1, <1>3, <1>4, WriteInv DEF Claim

LEMMA DirectCreateInv == ASSUME Inv, NEW p \in Procs, DirectCreate(p) PROVE Inv'
<1>1. PICK n \in Names, o \in Owners, b \in Requesters, t \in Terms :
        Continue(p, [Idle EXCEPT !.pc = "list", !.target = n, !.rec = Draft(o, b, t)])
  BY DEF DirectCreate
<1> DEFINE r == Draft(o, b, t)
           x == [Idle EXCEPT !.pc = "list", !.target = n, !.rec = r]
<1>2. r \in Record /\ r.approver = None
  BY DraftRecord DEF Draft
<1> HIDE DEF r
<1>3. /\ x \in OpState /\ x.pc = "list" /\ x.target = n /\ x.rec = r /\ x.ref = NoRef
      /\ x.seen = NoCreations /\ x.back = "idle"
  BY <1>2, IdleFields DEF OpState, Labels
<1> HIDE DEF x
<1>4. Good(x, creation)
  BY <1>2, <1>3 DEF Good, Reports, NoCreations, CarriesWhatWasSeen
<1>5. QED
  BY <1>1, <1>4, ReadStep DEF DirectCreate, r, x

LEMMA RequestListInv == ASSUME Inv, NEW p \in Procs, RequestList(p) PROVE Inv'
<1> DEFINE o == op[p]
           w == [o EXCEPT !.pc = "records"]
           x == [o EXCEPT !.pc = "records", !.seen = creation]
<1>1. o.pc = "list" /\ Listed(p, w) /\ UNCHANGED <<queue, Env>>
  BY DEF RequestList
<1>2. o \in OpState /\ Good(o, creation) /\ creation \in Creations
  BY OpFacts DEF Inv, TypeOK
<1> HIDE DEF o
<1>3. /\ x \in OpState /\ x.pc = "records" /\ x.target = o.target /\ x.rec = o.rec
      /\ x.ref = o.ref /\ x.seen = creation /\ x.todo = o.todo /\ x.tags = o.tags
      /\ x.back = o.back
  BY <1>2 DEF OpState, Labels
<1>4. w \in OpState /\ x = [w EXCEPT !.seen = creation]
  BY <1>2 DEF OpState, Labels
<1> HIDE DEF x, w
<1>5. Good(x, creation)
  BY <1>1, <1>2, <1>3 DEF Good, Writers, Approving, Reports, CarriesWhatWasSeen, Existing
<1>6. QED
  BY <1>1, <1>4, <1>5, ListedInv

LEMMA RequestRecordsInv == ASSUME Inv, NEW p \in Procs, RequestRecords(p) PROVE Inv'
<1> DEFINE o == op[p]
           x == AfterInventory(o, "create")
           C == NameFree(Inventory(o), queue, o.target, o.rec.jid)
<1>1. o.pc = "records" /\ Continue(p, IF C THEN x ELSE AfterError(p))
  BY DEF RequestRecords
<1>2. o \in OpState /\ Good(o, creation) /\ Good(AfterError(p), creation)
  BY OpFacts, AfterErrorGood
<1> HIDE DEF o, C
<1>3. /\ x \in OpState /\ x.pc = "create" /\ x.target = o.target /\ x.rec = o.rec
      /\ x.ref = o.ref /\ x.seen = NoCreations /\ x.todo = o.todo /\ x.tags = o.tags
      /\ x.back = o.back
  BY <1>2, AfterInventoryFields DEF Labels
<1> HIDE DEF x
<1>4. Good(x, creation)
  BY <1>1, <1>2, <1>3 DEF Good, Writers, Approving, Reports, CarriesWhatWasSeen, NoCreations
<1>5. Good(IF C THEN x ELSE AfterError(p), creation)
  BY <1>2, <1>4
<1>6. QED
  BY <1>1, <1>5, RecordsStep DEF RequestRecords, o

LEMMA ApproveRestoreInv == ASSUME Inv, NEW p \in Procs, ApproveRestore(p) PROVE Inv'
<1> DEFINE o == op[p]
           r == [o.rec EXCEPT !.approved = FALSE, !.approver = None, !.approvedAt = 0]
           q == [queue EXCEPT ![o.target] = r]
<1>1. o.pc = "restore" /\ WriteTags(p, q, Idle)
  BY DEF ApproveRestore
<1>2. o.rec \in Record /\ o.target \in Names
  BY <1>1, OpFacts DEF Good, Writers
<1> HIDE DEF o
<1>3. r \in Record
  BY <1>2, ZeroTime DEF Record
<1> HIDE DEF r
<1>4. q \in Queues
  BY <1>2, <1>3 DEF Inv, TypeOK, Queues
<1> HIDE DEF q
<1>5. QED
  BY <1>1, <1>4, IdleGood, WriteInv DEF ApproveRestore

LEMMA ApproveConfirmInv == ASSUME Inv, NEW p \in Procs, ApproveConfirm(p) PROVE Inv'
<1> DEFINE o == op[p]
           q == [queue EXCEPT ![o.target] = o.rec]
           k == creation[o.cid]
<1>1. /\ o.pc = "confirm" /\ WriteTags(p, q, Idle)
      /\ creation' = [creation EXCEPT ![o.cid] = [k EXCEPT !.confirmed = TRUE]]
      /\ UNCHANGED <<now, issued, shown, notices>>
  BY DEF ApproveConfirm
<1>2. o \in OpState /\ Good(o, creation)
  BY OpFacts
<1> HIDE DEF o
<1>3. /\ o.rec \in Record /\ o.target \in Names
      /\ o.cid \in CreateIds /\ k # NoCreation
  BY <1>1, <1>2 DEF Good, Writers
<1>4. creation \in Creations /\ k \in Creation
  BY <1>3 DEF Inv, TypeOK, Creations
<1>5. q \in Queues
  BY <1>3 DEF Inv, TypeOK, Queues
<1> DEFINE x == [k EXCEPT !.confirmed = TRUE]
<1>6. x \in Creation /\ x.state = k.state /\ AsSeen(x)
  <2>1. /\ x \in Creation /\ x.state = k.state /\ x.approver = k.approver /\ x.ref = k.ref /\ x.name = k.name
        /\ x.jid = k.jid /\ x.owner = k.owner /\ x.by = k.by /\ x.terms = k.terms
    BY <1>4 DEF Creation
  <2>2. AsSeen(k)
    BY <1>3 DEF Inv, ApprovedAsSeen
  <2> HIDE DEF k, x
  <2>3. QED
    BY <2>1, <2>2 DEF AsSeen, MayApprove
<1> HIDE DEF x, q
<1>7. creation' = [creation EXCEPT ![o.cid] = x]
  BY <1>1 DEF x
<1>8. creation' \in Creations /\ Grows(creation, creation') /\ ApprovedAsSeen'
  BY <1>3, <1>6, <1>7, CreationStep, Zenon
<1>9. OpsGood' /\ queue' \in Queues /\ faults' \in 0 .. MaxFaults
  BY <1>1, <1>5, <1>8, IdleGood, WriteStep
<1>10. QED
  BY <1>1, <1>8, <1>9 DEF Inv, TypeOK, OpsGood

LEMMA CreateAccountInv == ASSUME Inv, NEW p \in Procs, CreateAccount(p) PROVE Inv'
<1> DEFINE o == op[p]
           x(c) == [o EXCEPT !.pc = "confirm", !.cid = c, !.rec.approvedAt = now, !.rec.cid = c]
           k(j) == [name |-> o.target, jid |-> j, owner |-> o.rec.owner, by |-> o.rec.by,
                    terms |-> o.rec.terms, approver |-> o.rec.approver, ref |-> o.ref,
                    state |-> "creating", doneAt |-> 0, confirmed |-> FALSE,
                    missed |-> FALSE]
<1>1. PICK c \in CreateIds, j \in Journeys :
        /\ creation[c] = NoCreation
        /\ IF o.ref = NoRef THEN j \notin issued ELSE j = o.rec.jid
        /\ creation' = [creation EXCEPT ![c] = k(j)]
        /\ issued' = issued \cup {j}
        /\ \/ /\ UNCHANGED faults
              /\ Continue(p, IF o.ref = NoRef THEN Idle ELSE x(c))
           \/ Fault("lostCreate") /\ Continue(p, AfterError(p))
  BY DEF CreateAccount
<1>2. o.pc = "create" /\ UNCHANGED <<queue, now, shown, notices>>
  BY DEF CreateAccount
<1>3. o \in OpState /\ Good(o, creation)
  BY OpFacts
<1>4. op[p] = o
  OBVIOUS
<1> HIDE DEF o
<1>5. o.rec \in Record /\ o.target \in Names /\ CarriesWhatWasSeen(o) /\ o.ref \in Ref \cup {NoRef}
  BY <1>2, <1>3 DEF Good, Writers, Approving, OpState
<1>6. k(j) \in Creation
  BY <1>5, ZeroTime DEF Creation, Record, States
<1>7. AsSeen(k(j))
  <2>1. CASE o.ref = NoRef
    BY <1>5, <2>1 DEF AsSeen, CarriesWhatWasSeen
  <2>2. CASE o.ref # NoRef
    BY <1>1, <1>5, <2>2 DEF AsSeen, CarriesWhatWasSeen, MayApprove
  <2>3. QED
    BY <2>1, <2>2
<1> HIDE DEF k
<1>8. creation' \in Creations /\ Grows(creation, creation') /\ ApprovedAsSeen'
  BY <1>1, <1>6, <1>7, CreationStep
<1>9. Good(o, creation') /\ Good(AfterError(p), creation')
  BY <1>3, <1>4, <1>8, GoodGrows, AfterErrorGood
<1>10. ASSUME o.ref # NoRef PROVE Good(x(c), creation')
  <2> DEFINE r == [o.rec EXCEPT !.approvedAt = now, !.cid = c]
             y == [o EXCEPT !.pc = "confirm", !.cid = c, !.rec = r]
  <2>1. x(c) = y
    OBVIOUS
  <2>2. now \in Times
    BY DEF Inv, TypeOK
  <2>3. r \in Record
    BY <1>5, <2>2 DEF Record
  <2> HIDE DEF r
  <2>4. /\ y \in OpState /\ y.pc = "confirm" /\ y.target = o.target /\ y.rec = r /\ y.cid = c
        /\ y.seen = o.seen /\ y.todo = o.todo /\ y.tags = o.tags /\ y.back = o.back
    BY <1>3, <2>3 DEF OpState, Labels
  <2> HIDE DEF y
  <2>5. creation'[c] # NoCreation
    BY <1>1, <1>6, DistinctAssumption DEF Inv, TypeOK, Creations
  <2>6. Good(y, creation')
    BY <1>2, <1>5, <1>9, <2>3, <2>4, <2>5 DEF Good, Writers, Approving, Reports
  <2>7. QED
    BY <2>1, <2>6
<1> HIDE DEF x
<1>11. OpsGood' /\ faults' \in 0 .. MaxFaults
  <2>1. CASE UNCHANGED faults /\ Continue(p, IF o.ref = NoRef THEN Idle ELSE x(c))
    BY <1>8, <1>10, <2>1, IdleGood, OpsStep DEF Inv, TypeOK
  <2>2. CASE Fault("lostCreate") /\ Continue(p, AfterError(p))
    BY <1>8, <1>9, <2>2, OpsStep, BoundsAssumption DEF Inv, TypeOK, Fault
  <2>3. QED
    BY <1>1, <2>1, <2>2
<1>12. QED
  BY <1>1, <1>2, <1>8, <1>11 DEF Inv, TypeOK, OpsGood

-----------------------------------------------------------------------------
(* UpdateRequest, Deny and Withdraw.                                       *)

LEMMA UpdateRequestInv == ASSUME Inv, NEW p \in Procs, UpdateRequest(p) PROVE Inv'
<1>1. PICK ref \in shown, o \in Owners, t \in Terms :
        /\ SeenAs(ref)
        /\ Continue(p, [Idle EXCEPT !.pc = IF o # ref.owner THEN "editList" ELSE "edit",
                         !.target = ref.name, !.ref = ref,
                         !.rec = [queue[ref.name] EXCEPT !.owner = o, !.terms = t]])
  BY DEF UpdateRequest
<1> DEFINE r == [queue[ref.name] EXCEPT !.owner = o, !.terms = t]
           l == IF o # ref.owner THEN "editList" ELSE "edit"
           x == [Idle EXCEPT !.pc = l, !.target = ref.name, !.ref = ref, !.rec = r]
<1>2. ref \in Ref /\ ref.name \in Names /\ queue[ref.name] \in Record
  BY <1>1, SeenFacts
<1>3. r \in Record /\ l \in {"editList", "edit"}
  BY <1>2 DEF Record
<1> HIDE DEF r, l
<1>4. /\ x \in OpState /\ x.pc = l /\ x.target = ref.name /\ x.rec = r
      /\ x.seen = NoCreations /\ x.back = "idle"
  BY <1>2, <1>3, IdleFields DEF OpState, Labels
<1> HIDE DEF x
<1>5. Good(x, creation)
  BY <1>2, <1>3, <1>4 DEF Good, Approving, Reports, NoCreations
<1>6. QED
  BY <1>1, <1>5, ReadStep DEF UpdateRequest, r, x, l

LEMMA UpdateListInv == ASSUME Inv, NEW p \in Procs, UpdateList(p) PROVE Inv'
<1> DEFINE o == op[p]
           w == [o EXCEPT !.pc = "editChecks"]
           x == [o EXCEPT !.pc = "editChecks", !.seen = creation]
<1>1. o.pc = "editList" /\ Listed(p, w) /\ UNCHANGED <<queue, Env>>
  BY DEF UpdateList
<1>2. o \in OpState /\ Good(o, creation) /\ creation \in Creations
  BY OpFacts DEF Inv, TypeOK
<1> HIDE DEF o
<1>3. /\ x \in OpState /\ x.pc = "editChecks" /\ x.target = o.target /\ x.rec = o.rec
      /\ x.seen = creation /\ x.todo = o.todo /\ x.tags = o.tags /\ x.back = o.back
  BY <1>2 DEF OpState, Labels
<1>4. w \in OpState /\ x = [w EXCEPT !.seen = creation]
  BY <1>2 DEF OpState, Labels
<1> HIDE DEF x, w
<1>5. Good(x, creation)
  BY <1>1, <1>2, <1>3 DEF Good, Writers, Approving, Reports, Existing
<1>6. QED
  BY <1>1, <1>4, <1>5, ListedInv

LEMMA UpdateChecksInv == ASSUME Inv, NEW p \in Procs, UpdateChecks(p) PROVE Inv'
<1> DEFINE o == op[p]
           x == AfterInventory(o, "edit")
           C == BelowLimit(Held(Inventory(o), queue, o.rec.owner, o.target))
<1>1. o.pc = "editChecks" /\ Continue(p, IF C THEN x ELSE Idle)
  BY DEF UpdateChecks
<1>2. o \in OpState /\ Good(o, creation)
  BY OpFacts
<1> HIDE DEF o, C
<1>3. /\ x \in OpState /\ x.pc = "edit" /\ x.target = o.target /\ x.rec = o.rec
      /\ x.seen = NoCreations /\ x.todo = o.todo /\ x.tags = o.tags /\ x.back = o.back
  BY <1>2, AfterInventoryFields DEF Labels
<1> HIDE DEF x
<1>4. Good(x, creation)
  BY <1>1, <1>2, <1>3 DEF Good, Writers, Approving, Reports, NoCreations
<1>5. Good(IF C THEN x ELSE Idle, creation)
  BY <1>4, IdleGood
<1>6. QED
  BY <1>1, <1>5, RecordsStep DEF UpdateChecks, o

LEMMA UpdateWriteInv == ASSUME Inv, NEW p \in Procs, UpdateWrite(p) PROVE Inv'
<1> DEFINE o == op[p]
           q == [queue EXCEPT ![o.target] = o.rec]
<1>1. /\ WriteTags(p, q, Idle) /\ shown' = shown \cup {Version(o.target, o.rec)}
      /\ UNCHANGED <<creation, now, issued, notices>>
  BY DEF UpdateWrite
<1>2. o.rec \in Record /\ o.target \in Names
  BY OpFacts DEF UpdateWrite, Good, Writers
<1> HIDE DEF o
<1>3. q \in Queues /\ Version(o.target, o.rec) \in Ref
  BY <1>2 DEF Inv, TypeOK, Queues, Version, Ref, Record
<1> HIDE DEF q
<1>4. OpsGood' /\ queue' \in Queues /\ faults' \in 0 .. MaxFaults
  BY <1>1, <1>3, IdleGood, WriteStep, GrowsSame
<1>5. QED
  BY <1>1, <1>3, <1>4 DEF Inv, TypeOK, OpsGood, ApprovedAsSeen, AsSeen, MayApprove

LEMMA DenyOrWithdrawInv == ASSUME Inv, NEW p \in Procs, DenyOrWithdraw(p) PROVE Inv'
<1>1. PICK ref \in shown :
        /\ SeenAs(ref)
        /\ Continue(p, [Idle EXCEPT !.pc = "remove", !.target = ref.name, !.ref = ref])
  BY DEF DenyOrWithdraw
<1> DEFINE x == [Idle EXCEPT !.pc = "remove", !.target = ref.name, !.ref = ref]
<1>2. ref \in Ref /\ ref.name \in Names
  BY <1>1, SeenFacts
<1>3. /\ x \in OpState /\ x.pc = "remove" /\ x.target = ref.name
      /\ x.seen = NoCreations /\ x.back = "idle"
  BY <1>2, IdleFields DEF OpState, Labels
<1> HIDE DEF x
<1>4. Good(x, creation)
  BY <1>2, <1>3 DEF Good, Writers, Approving, Reports, NoCreations
<1>5. QED
  BY <1>1, <1>4, ReadStep DEF DenyOrWithdraw, x

LEMMA EmptiedQueue ==
  ASSUME Inv, NEW n \in Names
  PROVE  [queue EXCEPT ![n] = NoRecord] \in Queues
BY DEF Inv, TypeOK, Queues

LEMMA RemoveDecidedInv == ASSUME Inv, NEW p \in Procs, RemoveDecided(p) PROVE Inv'
<1>1. op[p].target \in Names
  BY OpFacts DEF RemoveDecided, Good
<1>2. [queue EXCEPT ![op[p].target] = NoRecord] \in Queues
  BY <1>1, EmptiedQueue
<1>3. QED
  BY <1>2, IdleGood, WriteInv DEF RemoveDecided

-----------------------------------------------------------------------------
(* Refresh and PollCreate.                                                 *)

LEMMA RefreshInv == ASSUME Inv, NEW p \in Procs, Refresh(p) PROVE Inv'
<1> DEFINE w == [Idle EXCEPT !.pc = "place", !.back = "refresh"]
           x == [Idle EXCEPT !.pc = "place", !.back = "refresh", !.seen = creation]
<1>1. creation \in Creations
  BY DEF Inv, TypeOK
<1>2. x \in OpState /\ x.pc = "place" /\ x.seen = creation /\ x.back = "refresh"
  BY <1>1, IdleFields DEF OpState, Labels, Callers
<1>3. w \in OpState /\ w.pc = "place" /\ w.seen = NoCreations /\ w.back = "refresh"
  BY IdleFields DEF OpState, Labels, Callers
<1>4. \/ Continue(p, x) /\ UNCHANGED <<queue, faults, Env>>
      \/ Fault("root") /\ Continue(p, w) /\ UNCHANGED <<queue, Env>>
  BY DEF Refresh
<1> HIDE DEF x, w
<1>5. Good(x, creation)
  BY <1>2 DEF Good, Writers, Approving, Reports, Existing
<1>6. Good(w, creation)
  BY <1>3 DEF Good, Writers, Approving, Reports, NoCreations
<1>7. CASE Fault("root") /\ Continue(p, w) /\ UNCHANGED <<queue, Env>>
  BY <1>6, <1>7, FaultStep
<1>8. QED
  BY <1>4, <1>5, <1>7, ReadStep

LEMMA PollSucceededInv == ASSUME Inv, NEW p \in Procs, PollSucceeded(p) PROVE Inv'
<1>1. PICK c \in CreateIds :
        /\ creation[c] # NoCreation
        /\ Continue(p, [Idle EXCEPT !.pc = "place", !.back = "poll",
                                    !.seen = [NoCreations EXCEPT ![c] = creation[c]]])
  BY DEF PollSucceeded
<1> DEFINE s == [NoCreations EXCEPT ![c] = creation[c]]
           x == [Idle EXCEPT !.pc = "place", !.back = "poll", !.seen = s]
<1>2. s \in Creations /\ \A d \in CreateIds : s[d] # NoCreation => creation[d] = s[d]
  BY DEF Inv, TypeOK, Creations, NoCreations
<1> HIDE DEF s
<1>3. x \in OpState /\ x.pc = "place" /\ x.seen = s /\ x.back = "poll"
  BY <1>2, IdleFields DEF OpState, Labels, Callers
<1> HIDE DEF x
<1>4. Good(x, creation)
  BY <1>2, <1>3 DEF Good, Writers, Approving, Reports, Existing
<1>5. QED
  BY <1>1, <1>4, ReadStep DEF PollSucceeded, x, s

LEMMA PlaceInv == ASSUME Inv, NEW p \in Procs, Place(p) PROVE Inv'
<1> DEFINE o == op[p]
           rest(c) == [o EXCEPT !.seen[c] = NoCreation]
           placed(c) == [creation EXCEPT ![c].state = IF @ = "unplaced" THEN "placed" ELSE @]
           next(c) == [rest(c) EXCEPT !.pc = "dropRead", !.cid = c, !.target = creation[c].name]
<1>1. /\ o.pc = "place" /\ UNCHANGED <<queue, now, issued, shown, notices>>
      /\ \E c \in Unplaced(o.seen) :
           \/ /\ creation' = placed(c) /\ UNCHANGED faults
              /\ Continue(p, next(c))
           \/ Fault("lost") /\ creation' = placed(c) /\ Continue(p, rest(c))
           \/ Fault("fail") /\ UNCHANGED creation /\ Continue(p, rest(c))
  BY DEF Place
<1>2. PICK c \in Unplaced(o.seen) :
        \/ /\ creation' = placed(c) /\ UNCHANGED faults
           /\ Continue(p, next(c))
        \/ Fault("lost") /\ creation' = placed(c) /\ Continue(p, rest(c))
        \/ Fault("fail") /\ UNCHANGED creation /\ Continue(p, rest(c))
  BY <1>1
<1>3. o \in OpState /\ Good(o, creation) /\ creation \in Creations
  BY OpFacts DEF Inv, TypeOK
<1> HIDE DEF o
<1>4. c \in CreateIds /\ o.seen[c] # NoCreation
  BY DEF Unplaced
<1>5. creation[c] \in Creation
  BY <1>3, <1>4 DEF Good, Creations
<1> DEFINE s == [o.seen EXCEPT ![c] = NoCreation]
           x == [o EXCEPT !.seen = s]
           y == [o EXCEPT !.seen = s, !.pc = "dropRead", !.cid = c, !.target = creation[c].name]
<1>6. rest(c) = x /\ next(c) = y
  OBVIOUS
<1>7. /\ s \in Creations
      /\ \A d \in CreateIds : s[d] # NoCreation =>
           creation[d] # NoCreation /\ (s[d].state = "unplaced" => creation[d].state \in Existing)
  BY <1>3, <1>4 DEF Good, OpState, Creations
<1> HIDE DEF rest, next, s
<1>8. Good(x, creation)
  <2>1. /\ x \in OpState /\ x.pc = o.pc /\ x.seen = s /\ x.tags = o.tags
        /\ x.todo = o.todo /\ x.back = o.back
    BY <1>3, <1>7 DEF OpState
  <2> HIDE DEF x
  <2>2. QED
    BY <1>1, <1>3, <1>7, <2>1 DEF Good, Writers, Approving, Reports
<1>9. Good(y, creation)
  <2>1. creation[c].name \in Names
    BY <1>5 DEF Creation
  <2>2. "dropRead" \in Labels
    BY DEF Labels
  <2>3. /\ y \in OpState /\ y.pc = "dropRead" /\ y.seen = s /\ y.tags = o.tags
        /\ y.todo = o.todo /\ y.back = o.back /\ y.cid = c /\ y.target = creation[c].name
    BY <1>3, <1>4, <1>7, <2>1, <2>2 DEF OpState
  <2> HIDE DEF y
  <2>4. QED
    BY <1>3, <1>4, <1>7, <2>1, <2>3 DEF Good, Writers, Approving, Reports
<1> HIDE DEF x, y
<1> DEFINE st == IF creation[c].state = "unplaced" THEN "placed" ELSE creation[c].state
           k == [creation[c] EXCEPT !.state = st]
<1>10. placed(c) = [creation EXCEPT ![c] = k]
  OBVIOUS
<1>11. k \in Creation /\ AsSeen(k) /\ (creation[c].state \in Existing => k.state \in Existing)
  <2>1. st \in States /\ (creation[c].state \in Existing => st \in Existing)
    BY <1>5 DEF Creation, States, Existing
  <2> HIDE DEF st
  <2>2. /\ k \in Creation /\ k.state = st /\ k.approver = creation[c].approver /\ k.ref = creation[c].ref
        /\ k.name = creation[c].name /\ k.jid = creation[c].jid /\ k.owner = creation[c].owner
        /\ k.by = creation[c].by /\ k.terms = creation[c].terms
    BY <1>5, <2>1 DEF Creation
  <2>3. AsSeen(creation[c])
    BY <1>4, <1>3 DEF Inv, ApprovedAsSeen, Good
  <2> HIDE DEF k
  <2>4. AsSeen(k)
    BY <2>2, <2>3 DEF AsSeen, MayApprove
  <2>5. QED
    BY <2>1, <2>2, <2>4
<1> HIDE DEF k, placed
<1>12. creation' = placed(c) => creation' \in Creations /\ Grows(creation, creation')
                                /\ ApprovedAsSeen'
  <2>1. c \in CreateIds /\ k \in Creation /\ AsSeen(k)
        /\ (creation[c] # NoCreation /\ creation[c].state \in Existing => k.state \in Existing)
    BY <1>4, <1>11
  <2>2. QED
    BY <1>10, <2>1, CreationStep, Zenon
<1>13. UNCHANGED creation => creation' \in Creations /\ Grows(creation, creation')
                             /\ ApprovedAsSeen'
  BY <1>3, GrowsSame DEF Inv, ApprovedAsSeen, AsSeen, MayApprove
<1>14. creation' \in Creations /\ Grows(creation, creation') /\ ApprovedAsSeen'
  BY <1>2, <1>12, <1>13
<1>15. Good(x, creation') /\ Good(y, creation')
  BY <1>8, <1>9, <1>14, GoodGrows
<1>16. OpsGood'
  BY <1>2, <1>6, <1>14, <1>15, OpsStep
<1>17. faults' \in 0 .. MaxFaults
  BY <1>2, BoundsAssumption DEF Fault, Inv, TypeOK
<1>18. QED
  BY <1>1, <1>14, <1>16, <1>17 DEF Inv, TypeOK, OpsGood

LEMMA DropReadInv == ASSUME Inv, NEW p \in Procs, DropRead(p) PROVE Inv'
<1> DEFINE o == op[p]
           x == [o EXCEPT !.pc = "dropRemove"]
           C == Approved(queue, o.target) /\ queue[o.target].jid = creation[o.cid].jid
<1>1. o.pc = "dropRead" /\ Continue(p, IF C THEN x ELSE Placing(o))
  BY DEF DropRead
<1>2. o \in OpState /\ Good(o, creation)
  BY OpFacts
<1> HIDE DEF o, C
<1>3. Good(x, creation)
  BY <1>1, <1>2, LabelGood, Zenon DEF Labels, Writers, Approving, Reports
<1>4. Good(Placing(o), creation)
  BY <1>2, PlacingGood
<1> HIDE DEF x
<1>5. QED
  BY <1>1, <1>3, <1>4, ReadStep DEF DropRead

LEMMA DropRemoveInv == ASSUME Inv, NEW p \in Procs, DropRemove(p) PROVE Inv'
<1>1. op[p].target \in Names /\ Good(Placing(op[p]), creation)
  BY OpFacts, PlacingGood DEF DropRemove, Good
<1>2. [queue EXCEPT ![op[p].target] = NoRecord] \in Queues
  BY <1>1, EmptiedQueue
<1>3. QED
  BY <1>1, <1>2, WriteInv DEF DropRemove

LEMMA PollDoneInv == ASSUME Inv, NEW p \in Procs, PollDone(p) PROVE Inv'
BY IdleGood, ReadStep DEF PollDone

LEMMA ExpireReadInv == ASSUME Inv, NEW p \in Procs, ExpireRead(p) PROVE Inv'
<1> DEFINE d == {n \in Names : queue[n] # NoRecord}
           x == [Idle EXCEPT !.pc = "expireList", !.tags = queue, !.todo = d, !.back = "expire"]
<1>1. queue \in Queues /\ d \in SUBSET Names /\ \A n \in d : queue[n] \in Record
  BY DEF Inv, TypeOK, Queues
<1> HIDE DEF d
<1>2. /\ x.pc = "expireList" /\ x.tags = queue /\ x.todo = d /\ x.back = "expire"
      /\ x.seen = NoCreations
  BY IdleFields DEF OpState
<1>3. x \in OpState
  BY <1>1, IdleFields DEF OpState, Labels, Callers
<1> HIDE DEF x
<1>4. Good(x, creation)
  BY <1>1, <1>2, <1>3 DEF Good, Writers, Approving, Reports, NoCreations
<1>5. QED
  BY <1>4, ReadStep DEF ExpireRead, x, d

LEMMA ExpireListInv == ASSUME Inv, NEW p \in Procs, ExpireList(p) PROVE Inv'
<1> DEFINE o == op[p]
           x == [o EXCEPT !.pc = "expire", !.seen = creation, !.at = now]
<1>1. o.pc = "expireList" /\ Continue(p, x)
  BY DEF ExpireList
<1>2. o \in OpState /\ Good(o, creation) /\ creation \in Creations /\ now \in Times
  BY OpFacts DEF Inv, TypeOK
<1> HIDE DEF o
<1>3. /\ x.pc = "expire" /\ x.seen = creation /\ x.todo = o.todo /\ x.tags = o.tags
      /\ x.back = o.back
  BY <1>2 DEF OpState
<1>4. x \in OpState
  BY <1>2 DEF OpState, Labels
<1> HIDE DEF x
<1>5. Good(x, creation)
  BY <1>1, <1>2, <1>3, <1>4 DEF Good, Writers, Approving, Reports, Existing
<1>6. QED
  BY <1>1, <1>5, ReadStep DEF ExpireList

LEMMA ExpireReportInv == ASSUME Inv, NEW p \in Procs, ExpireReport(p) PROVE Inv'
<1> DEFINE o == op[p]
<1>1. PICK n \in Unreported(o) : Continue(p, Reporting(o, o.tags, n, "expire"))
  BY DEF ExpireReport
<1>2. o \in OpState /\ Good(o, creation) /\ o.pc = "expire"
  BY OpFacts DEF ExpireReport
<1> HIDE DEF o
<1>3. o.tags \in Queues /\ n \in Names /\ n \in o.todo
  BY <1>2 DEF OpState, Unreported
<1>4. /\ o.back = "expire" /\ "expire" \in Callers /\ o.tags[n] \in Record
      /\ o.tags[n].cid \in CreateIds
  BY <1>2, <1>3 DEF Good, Unreported, Failed, Record, Callers
<1>5. Good(Reporting(o, o.tags, n, "expire"), creation)
  BY <1>2, <1>3, <1>4, ReportingGood
<1>6. QED
  BY <1>1, <1>5, ReadStep DEF ExpireReport

LEMMA ExpireRemoveInv == ASSUME Inv, NEW p \in Procs, ExpireRemove(p) PROVE Inv'
<1> DEFINE o == op[p]
           keys == {n \in o.todo : Drops(o.tags[n], o.seen, o.at)}
           q == [n \in Names |-> IF n \in keys THEN NoRecord ELSE queue[n]]
<1>1. /\ UNCHANGED Env
      /\ \/ Continue(p, Idle) /\ UNCHANGED <<queue, faults>>
         \/ WriteTags(p, q, Idle)
  BY DEF ExpireRemove
<1>2. q \in Queues
  BY DEF Inv, TypeOK, Queues
<1> HIDE DEF q
<1>3. QED
  BY <1>1, <1>2, IdleGood, ReadStep, WriteInv

LEMMA PollFailedInv == ASSUME Inv, NEW p \in Procs, PollFailed(p) PROVE Inv'
<1>1. PICK n \in Names :
        /\ Approved(queue, n) /\ Failed(creation, queue[n].cid)
        /\ Continue(p, Reporting(Idle, queue, n, "idle"))
  BY DEF PollFailed
<1>2. queue \in Queues /\ queue[n] \in Record /\ queue[n].cid \in CreateIds
  BY <1>1 DEF Inv, TypeOK, Queues, Approved, Failed, Record
<1>3. "idle" \in Callers /\ Idle \in OpState /\ Good(Idle, creation)
  BY IdleGood, IdleFields DEF Callers
<1>4. Good(Reporting(Idle, queue, n, "idle"), creation)
  BY <1>2, <1>3, ReportingGood
<1>5. QED
  BY <1>1, <1>4, ReadStep DEF PollFailed

-----------------------------------------------------------------------------
(* AWS, and time.                                                          *)

LEMMA AwsStep ==
  ASSUME Inv, creation' \in Creations, Grows(creation, creation'), ApprovedAsSeen',
         UNCHANGED <<queue, now, op, faults, issued, shown, notices>>
  PROVE  Inv'
BY GoodGrows DEF Inv, TypeOK

LEMMA CreationEndsInv == ASSUME Inv, NEW c \in CreateIds, CreationEnds(c) PROVE Inv'
<1>1. PICK s \in {"failed", "unplaced"} :
        creation' = [creation EXCEPT ![c].state = s, ![c].doneAt = now]
  BY DEF CreationEnds
<1> DEFINE k == [creation[c] EXCEPT !.state = s, !.doneAt = now]
<1>2. creation \in Creations /\ creation[c] \in Creation /\ now \in Times
  BY DEF CreationEnds, Inv, TypeOK, Creations
<1>3. creation' = [creation EXCEPT ![c] = k]
  BY <1>1, <1>2 DEF Creations
<1>4. /\ k \in Creation /\ k.approver = creation[c].approver /\ k.ref = creation[c].ref
      /\ k.name = creation[c].name /\ k.jid = creation[c].jid /\ k.owner = creation[c].owner
      /\ k.by = creation[c].by /\ k.terms = creation[c].terms
  BY <1>2 DEF Creation, States
<1>5. AsSeen(creation[c])
  BY DEF CreationEnds, Inv, ApprovedAsSeen
<1>8. creation[c].state \notin Existing
  BY DEF CreationEnds, Existing
<1> HIDE DEF k
<1>6. AsSeen(k)
  BY <1>4, <1>5 DEF AsSeen, MayApprove
<1>7. QED
  BY <1>3, <1>4, <1>6, <1>8, CreationStep, AwsStep DEF CreationEnds

LEMMA AccountClosesInv == ASSUME Inv, NEW c \in CreateIds, AccountCloses(c) PROVE Inv'
<1> DEFINE k == [creation[c] EXCEPT !.state = "closed"]
<1>1. creation[c] \in Creation
  BY DEF AccountCloses, Inv, TypeOK, Creations
<1>2. creation' = [creation EXCEPT ![c] = k]
  BY DEF AccountCloses
<1>3. /\ k \in Creation /\ k.state \in Existing /\ k.approver = creation[c].approver /\ k.ref = creation[c].ref
      /\ k.name = creation[c].name /\ k.jid = creation[c].jid /\ k.owner = creation[c].owner
      /\ k.by = creation[c].by /\ k.terms = creation[c].terms
  BY <1>1 DEF Creation, States, Existing
<1>4. AsSeen(creation[c])
  BY DEF AccountCloses, Inv, ApprovedAsSeen
<1> HIDE DEF k
<1>5. AsSeen(k)
  BY <1>3, <1>4 DEF AsSeen, MayApprove
<1>6. QED
  BY <1>2, <1>3, <1>5, CreationStep, AwsStep DEF AccountCloses

LEMMA TickInv == ASSUME Inv, Tick PROVE Inv'
<1>1. now' \in Times
  BY BoundsAssumption DEF Tick, Inv, TypeOK, Times
<1>2. QED
  BY <1>1 DEF Tick, Inv, TypeOK, ApprovedAsSeen, AsSeen, MayApprove

-----------------------------------------------------------------------------
LEMMA InitInv == Init => Inv
<1> SUFFICES ASSUME Init PROVE Inv
  OBVIOUS
<1>1. TypeOK
  BY IdleGood, EmptyTyped, ZeroTime, BoundsAssumption DEF Init, TypeOK, Good
<1>2. ApprovedAsSeen
  BY DEF Init, ApprovedAsSeen, NoCreations
<1>3. \A p \in Procs : Good(op[p], creation)
  BY IdleGood DEF Init
<1>4. QED
  BY <1>1, <1>2, <1>3 DEF Inv

LEMMA ProceedInv == ASSUME Inv, NEW p \in Procs, Proceed(p) PROVE Inv'
<1>1. CASE SubmitSteps(p)
  BY <1>1, SubmitChecksInv, SubmitRoomInv, SubmitReplacedInv, EnqueueInv DEF SubmitSteps
<1>2. CASE ReportSteps(p)
  BY <1>2, ReportReadInv, ReportWriteInv, AnnounceInv DEF ReportSteps
<1>3. CASE ApproveSteps(p)
  BY <1>3, ClaimInv, RequestListInv, RequestRecordsInv, CreateAccountInv,
     ApproveRestoreInv, ApproveConfirmInv DEF ApproveSteps
<1>4. CASE EditSteps(p)
  BY <1>4, UpdateListInv, UpdateChecksInv, UpdateWriteInv, RemoveDecidedInv DEF EditSteps
<1>5. CASE PassSteps(p)
  BY <1>5, PlaceInv, DropReadInv, DropRemoveInv, PollDoneInv, ExpireReadInv,
     ExpireListInv, ExpireReportInv, ExpireRemoveInv DEF PassSteps
<1>6. CASE OutOfIds(p)
  BY <1>6, OutOfIdsInv
<1>7. QED
  BY <1>1, <1>2, <1>3, <1>4, <1>5, <1>6 DEF Proceed

LEMMA StartInv == ASSUME Inv, NEW p \in Procs, Start(p) PROVE Inv'
BY SubmitInv, ApproveInv, UpdateRequestInv, DenyOrWithdrawInv, RefreshInv,
   PollSucceededInv, PollFailedInv DEF Start

LEMMA NextInv == Inv /\ [Next]_vars => Inv'
<1> SUFFICES ASSUME Inv, [Next]_vars PROVE Inv'
  OBVIOUS
<1>1. CASE \E p \in Procs \ DirectCreators : Start(p)
  BY <1>1, StartInv
<1>2. CASE \E p \in DirectCreators : DirectCreate(p)
  BY <1>2, DirectCreateInv, BoundsAssumption
<1>3. CASE \E p \in Procs : Proceed(p) \/ CallFails(p) \/ Crash(p)
  BY <1>3, ProceedInv, CallFailsInv, CrashInv
<1>4. CASE \E c \in CreateIds : CreationEnds(c) \/ AccountCloses(c)
  BY <1>4, CreationEndsInv, AccountClosesInv
<1>5. CASE Tick
  BY <1>5, TickInv
<1>6. CASE UNCHANGED vars
  BY <1>6 DEF vars, Inv, TypeOK, ApprovedAsSeen, AsSeen, MayApprove
<1>7. QED
  BY <1>1, <1>2, <1>3, <1>4, <1>5, <1>6 DEF Next

LEMMA Invariance == Spec => []Inv
BY InitInv, NextInv, PTL DEF Spec

\* Type correctness, for every number of processes and every set of faults.
THEOREM TypeCorrect == Spec => []TypeOK
<1>1. Inv => TypeOK
  BY DEF Inv
<1>2. QED
  BY <1>1, Invariance, PTL

\* Whoever approves, from whatever stale view and in however many processes,
\* AWS is asked for exactly the account the approver saw, by an approver who
\* may approve it (Approve, pendingAt, CheckApprover, Request).
THEOREM ApprovalsAreAsSeen == Spec => []ApprovedAsSeen
<1>1. Inv => ApprovedAsSeen
  BY DEF Inv
<1>2. QED
  BY <1>1, Invariance, PTL

-----------------------------------------------------------------------------
(* The theorems for one process on the queue, which is what its mutex opMu *)
(* gives: whatever fails and wherever the process crashes.  `playplace     *)
(* create` may run beside it any number of times.                          *)

\* The processes that work on the queue; the others only run DirectCreate,
\* which does not take opMu and may run beside them in any number.
QueueProcs == Procs \ DirectCreators

OneQueueProcess == \A p, q \in QueueProcs : p = q

-----------------------------------------------------------------------------
(* The records, the creations and the notices, whoever is at work.         *)

\* All creations of a journey, except c, have failed or are missing.
OthersFailed(j, c, s) ==
  \A d \in CreateIds : d # c /\ s[d] # NoCreation /\ s[d].jid = j => Gone(s[d])

\* Only a creation that led to an account can be missing.
Lasting(s) ==
  \A c \in CreateIds : s[c] # NoCreation /\ s[c].missed
                         => s[c].state \in {"unplaced", "placed", "closed"}

\* The creation that the approved record r names is the last of its journey.
LastOf(r, s) ==
  /\ r.approved /\ r.cid \in CreateIds
  /\ s[r.cid] # NoCreation /\ s[r.cid].jid = r.jid
  /\ s[r.cid].state # "creating" => r.approvedAt <= s[r.cid].doneAt
  /\ OthersFailed(r.jid, r.cid, s)

\* What holds of a record r under the name n; i are the issued ids, t is now.
Filed(n, r, s, i, t) ==
  /\ r.jid \in i /\ r.approvedAt <= t
  /\ \A c \in CreateIds : s[c] # NoCreation /\ s[c].jid = r.jid => s[c].name = n
  /\ IF r.cid = None THEN ~r.reported ELSE LastOf(r, s)

\* Journey ids are given out once, and a journey is one record.
Records(q, s, i, t) ==
  /\ \A n \in Names : q[n] # NoRecord => Filed(n, q[n], s, i, t)
  /\ \A m, n \in Names : q[m] # NoRecord /\ q[n] # NoRecord /\ q[m].jid = q[n].jid => m = n
  /\ \A c \in CreateIds : s[c] # NoCreation => s[c].jid \in i

\* An announced failure is flagged on the record that still names it.
Announced(q, s, k) ==
  \A c \in CreateIds :
    /\ k[c] <= 1
    /\ k[c] > 0 => /\ s[c] # NoCreation
                   /\ \A n \in Names : q[n] # NoRecord /\ q[n].cid = c => q[n].reported

-----------------------------------------------------------------------------
(* What the operation of the one process knows: what it read still holds.  *)

\* What was read of the creations is an earlier state of them.
Past(s, t) ==
  \A c \in CreateIds : s[c] # NoCreation =>
    /\ t[c] # NoCreation /\ t[c].jid = s[c].jid /\ t[c].name = s[c].name
    /\ s[c].state = "failed" => t[c].state = "failed"
    /\ s[c].state = "unplaced" => t[c].state \in {"unplaced", "placed", "closed"}
    /\ s[c].state \in {"placed", "closed"} => t[c].state \in {"placed", "closed"}
    /\ s[c].state # "creating" => t[c].doneAt = s[c].doneAt
    /\ s[c].missed => t[c].missed

\* The key n is free, or its record is over: approved, and its creations gone.
Takes(n, q, s) ==
  q[n] # NoRecord => q[n].approved /\ OthersFailed(q[n].jid, None, s)

Unclaimed(r, t) == ~r.approved /\ r.cid = None /\ ~r.reported /\ r.approvedAt <= t
Claimed(r, t) == r.approved /\ r.cid = None /\ ~r.reported /\ r.approvedAt <= t

Submitting == {"room", "replaced", "enqueue"}
Requesting == {"list", "records", "create", "restore"}
Editing == {"editList", "editChecks", "edit"}
Expiring == {"expireList", "expire"}

\* The creations that were read include all of journey j.
Saw(t, j, s) == \A c \in CreateIds : s[c] # NoCreation /\ s[c].jid = j => t[c] # NoCreation

Submits(o, q, s, t) ==
  /\ (o.pc \in {"checks"} \cup Submitting \/ o.back = "enqueue") => Unclaimed(o.rec, t)
  /\ o.pc = "checks" => \A n \in Names : q[n] # NoRecord => Saw(o.seen, q[n].jid, s)
  /\ (o.pc \in Submitting \/ o.back = "enqueue") => Takes(o.target, q, s)
  /\ o.pc = "enqueue" => (q[o.target] # NoRecord /\ q[o.target].cid # None
                            => q[o.target].reported \/ s[q[o.target].cid].missed)

Approves(o, q, s, k, t) ==
  /\ o.pc \in {"claim", "confirm"} \cup Requesting => o.ref # NoRef /\ q[o.target] # NoRecord
  /\ o.pc = "claim" => ~q[o.target].approved /\ q[o.target].jid = o.rec.jid
  /\ o.pc \in {"claim"} \cup Requesting => Claimed(o.rec, t)
  /\ o.pc \in Requesting => q[o.target] = o.rec
  /\ o.pc = "records" => Saw(o.seen, o.rec.jid, s)
  /\ o.pc = "create" => OthersFailed(o.rec.jid, None, s)
  /\ o.pc = "confirm" =>
       /\ Claimed(q[o.target], t) /\ q[o.target].jid = o.rec.jid
       /\ o.rec.approvedAt <= t /\ LastOf(o.rec, s) /\ o.cid = o.rec.cid
       /\ ~o.rec.reported /\ k[o.cid] = 0

Edits(o, q, t) ==
  /\ o.pc \in Editing => Pending(q, o.target) /\ q[o.target].jid = o.rec.jid /\ Unclaimed(o.rec, t)
  /\ o.pc = "remove" => Pending(q, o.target) /\ o.ref = Version(o.target, q[o.target])

Places(o, q, s) ==
  /\ o.pc \in {"dropRead", "dropRemove"} =>
       s[o.cid] # NoCreation /\ s[o.cid].state \in {"placed", "closed"}
  /\ o.pc = "dropRemove" => Approved(q, o.target) /\ q[o.target].jid = s[o.cid].jid

Expires(o, q, t) ==
  /\ o.back = "expire" => \A n \in o.todo : o.tags[n] = q[n] \/ (o.pc = "announce" /\ n = o.target)
  /\ o.back = "expire" /\ o.pc # "expireList" =>
       /\ o.at <= t
       /\ \A n \in o.todo : o.tags[n].cid # None => o.seen[o.tags[n].cid] # NoCreation

Reported(o, q, k) ==
  /\ o.pc \in {"reportRead", "reportWrite"} =>
       q[o.target] = o.tags[o.target] /\ q[o.target].approved /\ ~q[o.target].reported
  /\ o.pc = "announce" =>
       q[o.target] = [o.tags[o.target] EXCEPT !.reported = TRUE] /\ k[o.tags[o.target].cid] = 0

Knows(o, q, s, k, t) ==
  /\ Past(o.seen, s)
  /\ Submits(o, q, s, t) /\ Approves(o, q, s, k, t) /\ Edits(o, q, t) /\ Places(o, q, s)
  /\ Expires(o, q, t) /\ Reported(o, q, k)
  /\ o.back \in {"idle", "refresh", "poll"} \/ o.pc \in Reports \/ (o.back = "expire" /\ o.pc \in Expiring)

Direct(o) == o.pc \in {"idle", "list", "records", "create"} /\ o.ref = NoRef /\ o.back = "idle"

OneInv ==
  /\ Records(queue, creation, issued, now) /\ Announced(queue, creation, notices)
  /\ OneAccountPerRequest /\ Lasting(creation)
  /\ \A p \in QueueProcs : Knows(op[p], queue, creation, notices, now)
  /\ \A p \in DirectCreators : Direct(op[p])

-----------------------------------------------------------------------------
(* AWS and direct creations go on beside the operation.                    *)

\* The creations go on from s to u, with ids issued so far i, at time t.
Evolves(s, u, i, t) ==
  /\ Past(s, u) /\ Lasting(u)
  /\ \A c \in CreateIds : u[c] # NoCreation =>
       IF s[c] = NoCreation THEN u[c].jid \notin i
       ELSE s[c].state = "creating" /\ u[c].state # "creating" => u[c].doneAt = t
  /\ \A c, d \in CreateIds :
       s[c] = NoCreation /\ s[d] = NoCreation /\ u[c] # NoCreation /\ u[d] # NoCreation => c = d

\* Of two creations of a journey one is gone.
OneEach(s) ==
  /\ Lasting(s)
  /\ \A c, d \in CreateIds :
       /\ c # d /\ s[c] # NoCreation /\ s[d] # NoCreation /\ s[c].jid = s[d].jid
       => Gone(s[c]) \/ Gone(s[d])

LEMMA PastTransitive ==
  ASSUME NEW a \in Creations, NEW s, NEW u, Past(a, s), Past(s, u)
  PROVE  Past(a, u)
<1> SUFFICES ASSUME NEW c \in CreateIds, a[c] # NoCreation
             PROVE  /\ u[c] # NoCreation /\ u[c].jid = a[c].jid /\ u[c].name = a[c].name
                    /\ a[c].state = "failed" => u[c].state = "failed"
                    /\ a[c].state = "unplaced" => u[c].state \in {"unplaced", "placed", "closed"}
                    /\ a[c].state \in {"placed", "closed"} => u[c].state \in {"placed", "closed"}
                    /\ a[c].state # "creating" => u[c].doneAt = a[c].doneAt
                    /\ a[c].missed => u[c].missed
  BY DEF Past
<1>1. a[c].state \in States
  BY DEF Creations, Creation
<1>2. QED
  BY <1>1 DEF Past, States

LEMMA PastSame == ASSUME NEW s \in Creations PROVE Past(s, s)
<1>1. \A c \in CreateIds : s[c] # NoCreation => s[c].state \in States
  BY DEF Creations, Creation
<1>2. QED
  BY <1>1 DEF Past, States

LEMMA PastNone == \A s : Past(NoCreations, s)
BY DEF Past, NoCreations

LEMMA OthersLater ==
  ASSUME NEW s, NEW u, NEW i, NEW t, Evolves(s, u, i, t), NEW j \in i, NEW c, OthersFailed(j, c, s)
  PROVE  OthersFailed(j, c, u)
BY DEF OthersFailed, Evolves, Past, Gone

LEMMA LastLater ==
  ASSUME NEW s, NEW u, NEW i, NEW t, Evolves(s, u, i, t), NEW r \in Record, r.jid \in i,
         r.approvedAt <= t, LastOf(r, s)
  PROVE  LastOf(r, u)
<1>1. OthersFailed(r.jid, r.cid, u)
  BY OthersLater DEF LastOf
<1>2. u[r.cid] # NoCreation /\ u[r.cid].jid = r.jid
  BY DEF LastOf, Evolves, Past
<1>3. u[r.cid].state # "creating" => r.approvedAt <= u[r.cid].doneAt
  BY <1>2 DEF LastOf, Evolves, Past
<1>4. QED
  BY <1>1, <1>2, <1>3 DEF LastOf

LEMMA FiledLater ==
  ASSUME NEW s, NEW u, NEW i, NEW i2, NEW t \in Nat, NEW t2 \in Nat, t <= t2, i \subseteq i2,
         Evolves(s, u, i, t), NEW n, NEW r \in Record, Filed(n, r, s, i, t)
  PROVE  Filed(n, r, u, i2, t2)
<1>1. r.jid \in i /\ r.approvedAt <= t
  BY DEF Filed
<1>2. r.approvedAt \in Nat
  BY BoundsAssumption DEF Record, Times
<1>3. r.approvedAt <= t2
  BY <1>1, <1>2
<1>4. \A c \in CreateIds : u[c] # NoCreation /\ u[c].jid = r.jid => u[c].name = n
  BY <1>1 DEF Filed, Evolves, Past
<1>5. r.cid # None => LastOf(r, u)
  BY <1>1, LastLater DEF Filed
<1>6. QED
  BY <1>1, <1>3, <1>4, <1>5 DEF Filed

LEMMA RecordsLater ==
  ASSUME NEW q \in Queues, NEW s, NEW u, NEW i, NEW i2, NEW t \in Nat, NEW t2 \in Nat,
         t <= t2, i \subseteq i2, Evolves(s, u, i, t), Records(q, s, i, t),
         \A c \in CreateIds : s[c] = NoCreation /\ u[c] # NoCreation => u[c].jid \in i2
  PROVE  Records(q, u, i2, t2)
<1>1. ASSUME NEW n \in Names, q[n] # NoRecord PROVE Filed(n, q[n], u, i2, t2)
  <2>1. q[n] \in Record /\ Filed(n, q[n], s, i, t)
    BY <1>1 DEF Records, Queues
  <2>2. QED
    BY <2>1, FiledLater
<1>2. \A c \in CreateIds : u[c] # NoCreation => u[c].jid \in i2
  BY DEF Records, Evolves, Past
<1>3. QED
  BY <1>1, <1>2 DEF Records

LEMMA OneEachLater ==
  ASSUME NEW s, NEW u, NEW i, NEW t, Evolves(s, u, i, t), OneEach(s),
         \A c \in CreateIds : s[c] # NoCreation => s[c].jid \in i
  PROVE  OneEach(u)
BY DEF OneEach, Evolves, Past, Gone

LEMMA AnnouncedLater ==
  ASSUME NEW q, NEW s, NEW u, NEW k, Past(s, u), Announced(q, s, k)
  PROVE  Announced(q, u, k)
BY DEF Announced, Past

LEMMA TakesLater ==
  ASSUME NEW q \in Queues, NEW s, NEW u, NEW i, NEW t, Records(q, s, i, t), Evolves(s, u, i, t),
         NEW n \in Names, Takes(n, q, s)
  PROVE  Takes(n, q, u)
<1>1. ASSUME q[n] # NoRecord PROVE q[n].jid \in i
  BY <1>1 DEF Records, Filed
<1>2. QED
  BY <1>1, OthersLater DEF Takes

LEMMA SawLater ==
  ASSUME NEW s, NEW u, NEW i, NEW t, Evolves(s, u, i, t), NEW a, NEW j \in i, Saw(a, j, s)
  PROVE  Saw(a, j, u)
BY DEF Saw, Evolves, Past

\* What an operation knows survives what others do.
LEMMA KnowsLater ==
  ASSUME NEW q \in Queues, NEW s, NEW u, NEW i, NEW k, NEW t \in Nat, NEW t2 \in Nat, t <= t2,
         Records(q, s, i, t), Evolves(s, u, i, t),
         NEW o \in OpState, Good(o, s), Knows(o, q, s, k, t)
  PROVE  Knows(o, q, u, k, t2)
<1>1. Past(s, u)
  BY DEF Evolves
<1>2. Past(o.seen, u)
  BY <1>1, PastTransitive DEF Knows, OpState
<1>3. ASSUME NEW r \in Record, r.approvedAt <= t PROVE r.approvedAt <= t2
  <2>1. r.approvedAt \in Nat
    BY BoundsAssumption DEF Record, Times
  <2>2. QED
    BY <1>3, <2>1
<1>4. Submits(o, q, u, t2)
  <2>1. ASSUME o.pc \in Submitting \/ o.back = "enqueue" PROVE Takes(o.target, q, u)
    <3>1. o.target \in Names
      BY <2>1 DEF Good, Writers, Submitting, Knows, Reports
    <3>2. QED
      BY <2>1, <3>1, TakesLater DEF Knows, Submits
  <2>2. ASSUME o.pc = "checks", NEW n \in Names, q[n] # NoRecord PROVE Saw(o.seen, q[n].jid, u)
    <3>1. q[n].jid \in i /\ Saw(o.seen, q[n].jid, s)
      BY <2>2 DEF Records, Filed, Knows, Submits
    <3>2. QED
      BY <3>1, SawLater
  <2>3. ASSUME o.pc \in {"checks"} \cup Submitting \/ o.back = "enqueue" PROVE Unclaimed(o.rec, t2)
    <3>1. o.rec \in Record
      BY <2>3 DEF Good, Writers, Submitting, Knows, Reports
    <3>2. Unclaimed(o.rec, t)
      BY <2>3 DEF Knows, Submits
    <3>3. QED
      BY <1>3, <3>1, <3>2 DEF Unclaimed
  <2>4. ASSUME o.pc = "enqueue", q[o.target] # NoRecord, q[o.target].cid # None
        PROVE  q[o.target].reported \/ u[q[o.target].cid].missed
    <3>1. o.target \in Names
      BY <2>4 DEF Good, Writers
    <3>2. LastOf(q[o.target], s)
      BY <2>4, <3>1 DEF Records, Filed
    <3>3. q[o.target].reported \/ s[q[o.target].cid].missed
      BY <2>4 DEF Knows, Submits
    <3>4. QED
      BY <1>1, <3>2, <3>3 DEF Past, LastOf
  <2>5. QED
    BY <2>1, <2>2, <2>3, <2>4 DEF Knows, Submits
<1>5. Approves(o, q, u, k, t2)
  <2>1. ASSUME o.pc \in {"claim", "confirm"} \cup Requesting
        PROVE  /\ o.target \in Names /\ o.rec \in Record /\ q[o.target] \in Record
               /\ o.rec.jid = q[o.target].jid /\ o.rec.jid \in i
    BY <2>1 DEF Good, Writers, Requesting, Knows, Approves, Records, Filed, Queues
  <2>2. Approves(o, q, s, k, t)
    BY DEF Knows
  <2>3. ASSUME o.pc \in {"claim"} \cup Requesting PROVE Claimed(o.rec, t2)
    BY <1>3, <2>1, <2>2, <2>3 DEF Approves, Claimed
  <2>4. ASSUME o.pc = "records"
        PROVE  Saw(o.seen, o.rec.jid, u)
    BY <2>1, <2>2, <2>4, SawLater DEF Approves, Requesting
  <2>5. ASSUME o.pc = "create" PROVE OthersFailed(o.rec.jid, None, u)
    BY <2>1, <2>2, <2>5, OthersLater DEF Approves, Requesting
  <2>6. ASSUME o.pc = "confirm"
        PROVE  /\ Claimed(q[o.target], t2) /\ o.rec.approvedAt <= t2 /\ LastOf(o.rec, u)
    <3>1. /\ Claimed(q[o.target], t) /\ o.rec.approvedAt <= t /\ LastOf(o.rec, s)
      BY <2>2, <2>6 DEF Approves
    <3>2. LastOf(o.rec, u)
      BY <2>1, <2>6, <3>1, LastLater
    <3>3. QED
      BY <1>3, <2>1, <2>6, <3>1, <3>2 DEF Claimed
  <2>7. QED
    BY <2>2, <2>3, <2>4, <2>5, <2>6 DEF Approves
<1>6. Edits(o, q, t2)
  <2>1. ASSUME o.pc \in Editing PROVE o.rec \in Record
    BY <2>1 DEF Good, Writers, Editing
  <2>2. QED
    BY <1>3, <2>1 DEF Knows, Edits, Unclaimed
<1>7. Places(o, q, u)
  BY <1>1 DEF Knows, Places, Past, Good
<1>8. Expires(o, q, t2)
  <2>1. o.at \in Nat
    BY BoundsAssumption DEF OpState, Times
  <2>2. QED
    BY <2>1 DEF Knows, Expires
<1>9. QED
  BY <1>2, <1>4, <1>5, <1>6, <1>7, <1>8 DEF Knows


-----------------------------------------------------------------------------
(* Steps of others, and of the process that works on the queue.            *)

LEMMA OneFacts ==
  ASSUME Inv
  PROVE  /\ queue \in Queues /\ creation \in Creations /\ now \in Nat /\ issued \subseteq Journeys
         /\ notices \in [CreateIds -> 0 .. 2]
         /\ \A p \in Procs : op[p] \in OpState /\ Good(op[p], creation)
BY BoundsAssumption DEF Inv, TypeOK, Times

LEMMA EvolvesSame == ASSUME Inv, OneInv PROVE Evolves(creation, creation, issued, now)
BY OneFacts, PastSame DEF Evolves, OneInv

\* No queue process moves: AWS, the clock, or a direct creation.
LEMMA BesideOne ==
  ASSUME Inv, OneInv, now' \in Nat, now <= now', UNCHANGED <<queue, notices>>,
         issued \subseteq issued', Evolves(creation, creation', issued, now),
         \A c \in CreateIds :
           creation[c] = NoCreation /\ creation'[c] # NoCreation => creation'[c].jid \in issued',
         \A p \in QueueProcs : op'[p] = op[p],
         \A p \in DirectCreators : Direct(op'[p])
  PROVE  OneInv'
<1>1. /\ queue \in Queues /\ creation \in Creations /\ now \in Nat
      /\ queue' = queue /\ notices' = notices
  BY OneFacts
<1>2. Records(queue, creation, issued, now) /\ Announced(queue, creation, notices)
  BY DEF OneInv
<1>3. Records(queue', creation', issued', now')
  BY <1>1, <1>2, RecordsLater
<1>4. Past(creation, creation')
  BY DEF Evolves
<1>5. Announced(queue', creation', notices')
  BY <1>1, <1>2, <1>4, AnnouncedLater
<1>6. OneEach(creation) /\ \A c \in CreateIds : creation[c] # NoCreation => creation[c].jid \in issued
  BY <1>2 DEF OneInv, OneEach, OneAccountPerRequest, Records
<1>7. OneEach(creation')
  BY <1>6, OneEachLater
<1>8. ASSUME NEW p \in QueueProcs PROVE Knows(op'[p], queue', creation', notices', now')
  <2>1. op[p] \in OpState /\ Good(op[p], creation) /\ op'[p] = op[p]
    BY OneFacts DEF QueueProcs
  <2>2. Knows(op[p], queue, creation, notices, now)
    BY DEF OneInv
  <2> DEFINE o == op[p]
  <2>3. o \in OpState /\ Good(o, creation) /\ Knows(o, queue, creation, notices, now) /\ op'[p] = o
    BY <2>1, <2>2
  <2> HIDE DEF o
  <2>4. Knows(o, queue, creation', notices, now')
    BY <1>1, <1>2, <2>3, KnowsLater
  <2>5. QED
    BY <1>1, <2>3, <2>4
<1>9. QED
  BY <1>3, <1>5, <1>7, <1>8 DEF OneInv, OneEach, OneAccountPerRequest, Evolves

\* The queue process p goes on with o.
LEMMA ProcOne ==
  ASSUME OneQueueProcess, Inv, OneInv, NEW p \in QueueProcs, NEW o, Continue(p, o),
         Knows(o, queue', creation', notices', now'),
         Records(queue', creation', issued', now'), Announced(queue', creation', notices'),
         OneEach(creation')
  PROVE  OneInv'
<1>1. op \in [Procs -> OpState] /\ op' = [op EXCEPT ![p] = o] /\ p \in Procs /\ p \notin DirectCreators
  BY DEF Inv, TypeOK, Continue, QueueProcs
<1>2. \A r \in QueueProcs : op'[r] = o
  BY <1>1 DEF OneQueueProcess, QueueProcs
<1>3. \A r \in DirectCreators : op'[r] = op[r]
  BY <1>1, BoundsAssumption
<1>4. QED
  BY <1>2, <1>3 DEF OneInv, OneEach, OneAccountPerRequest, QueueProcs

\* A step that only reads.
LEMMA ReadOne ==
  ASSUME OneQueueProcess, Inv, OneInv, NEW p \in QueueProcs, NEW o, Continue(p, o),
         Knows(o, queue, creation, notices, now),
         UNCHANGED <<queue, faults, Env>>
  PROVE  OneInv'
<1>1. UNCHANGED <<queue, creation, now, issued, notices>>
  BY DEF Env
<1>2. /\ Records(queue, creation, issued, now) /\ Announced(queue, creation, notices)
      /\ OneEach(creation)
  BY DEF OneInv, OneEach, OneAccountPerRequest
<1>3. QED
  BY <1>1, <1>2, ProcOne

\* A step that reads the creations, with the root listing or without.
LEMMA ListedOne ==
  ASSUME OneQueueProcess, Inv, OneInv, NEW p \in QueueProcs, NEW o \in OpState,
         Knows([o EXCEPT !.seen = creation], queue, creation, notices, now),
         Listed(p, o), UNCHANGED <<queue, Env>>
  PROVE  OneInv'
<1> DEFINE x == [o EXCEPT !.seen = creation]
           y == [o EXCEPT !.seen = creation, !.root = FALSE]
<1>1. /\ y.pc = x.pc /\ y.target = x.target /\ y.ref = x.ref /\ y.rec = x.rec
      /\ y.cid = x.cid /\ y.tags = x.tags /\ y.seen = x.seen /\ y.at = x.at
      /\ y.todo = x.todo /\ y.back = x.back
  BY DEF OpState
<1>2. Continue(p, x) \/ Continue(p, y)
  BY DEF Listed
<1> HIDE DEF x, y
<1>3. Knows(x, queue, creation, notices, now)
  BY DEF x
<1>4. Knows(y, queue, creation, notices, now)
  BY <1>1, <1>3 DEF Knows, Submits, Approves, Edits, Places, Expires, Reported
<1>5. UNCHANGED <<queue, creation, now, issued, notices>>
  BY DEF Env
<1>6. /\ Records(queue, creation, issued, now) /\ Announced(queue, creation, notices)
      /\ OneEach(creation)
  BY DEF OneInv, OneEach, OneAccountPerRequest
<1>7. QED
  BY <1>2, <1>3, <1>4, <1>5, <1>6, ProcOne

\* The creations an inventory lacks were there when it read them.
LEMMA MissEvolves ==
  ASSUME Inv, OneInv, NEW p \in Procs, Miss(op[p])
  PROVE  /\ Evolves(creation, creation', issued, now)
         /\ \A c \in CreateIds : creation[c] = NoCreation => creation'[c] = NoCreation
         /\ \A c \in CreateIds : Overlooks(op[p], c) => creation'[c].missed
<1> DEFINE o == op[p]
           u == creation'
<1>1. /\ creation \in Creations /\ Good(o, creation) /\ Lasting(creation)
  BY OneFacts DEF OneInv
<1>2. u = [c \in CreateIds |-> IF Overlooks(o, c) THEN [creation[c] EXCEPT !.missed = TRUE]
                                                 ELSE creation[c]]
  BY DEF Miss
<1> HIDE DEF o, u
<1>3. ASSUME NEW c \in CreateIds, Overlooks(o, c)
      PROVE  /\ creation[c] # NoCreation /\ u[c] # NoCreation
             /\ u[c].jid = creation[c].jid /\ u[c].name = creation[c].name
             /\ u[c].state = creation[c].state /\ u[c].doneAt = creation[c].doneAt
             /\ u[c].missed /\ creation[c].state \in Existing
  <2>1. creation[c] # NoCreation /\ creation[c].state \in Existing
    BY <1>1, <1>3 DEF Overlooks, Hidden, Good
  <2>2. creation[c] \in Creation
    BY <1>1, <2>1 DEF Creations
  <2>3. u[c] = [creation[c] EXCEPT !.missed = TRUE]
    BY <1>2, <1>3
  <2>4. u[c] \in Creation
    BY <2>2, <2>3 DEF Creation
  <2>5. /\ u[c].jid = creation[c].jid /\ u[c].name = creation[c].name
        /\ u[c].state = creation[c].state /\ u[c].doneAt = creation[c].doneAt /\ u[c].missed
    BY <2>2, <2>3 DEF Creation
  <2>6. QED
    BY <2>1, <2>4, <2>5, DistinctAssumption
<1>4. ASSUME NEW c \in CreateIds, ~Overlooks(o, c) PROVE u[c] = creation[c]
  BY <1>2, <1>4
<1>5. \A c \in CreateIds : creation[c] # NoCreation => creation[c].state \in States
  BY <1>1 DEF Creations, Creation
<1>6. ASSUME NEW c \in CreateIds, creation[c] # NoCreation
      PROVE  /\ u[c] # NoCreation /\ u[c].jid = creation[c].jid /\ u[c].name = creation[c].name
             /\ u[c].state = creation[c].state /\ u[c].doneAt = creation[c].doneAt
             /\ creation[c].missed => u[c].missed
  BY <1>3, <1>4, <1>6
<1>7. Past(creation, u)
  BY <1>5, <1>6 DEF Past, States
<1>8. Lasting(u)
  BY <1>1, <1>3, <1>4 DEF Lasting, Existing
<1>9. \A c \in CreateIds : creation[c] = NoCreation => u[c] = NoCreation
  BY <1>3, <1>4
<1>10. Evolves(creation, u, issued, now)
  BY <1>6, <1>7, <1>8, <1>9 DEF Evolves
<1>11. QED
  BY <1>3, <1>9, <1>10 DEF u, o

\* Where the inventory leaves a name free, whoever held it is over or missing.
LEMMA InventoryFree ==
  ASSUME NEW o \in OpState, NEW q, NEW n, NEW j, NameFree(Inventory(o), q, n, j),
         NEW c \in CreateIds, o.seen[c] # NoCreation, o.seen[c].name = n
  PROVE  o.seen[c].state = "failed" \/ Overlooks(o, c)
<1> SUFFICES ASSUME ~Overlooks(o, c) PROVE o.seen[c].state = "failed"
  OBVIOUS
<1> DEFINE k == Inventory(o)[c]
<1>1. o.seen[c] \in Creation
  BY DEF OpState, Creations
<1>2. k = IF Hidden(o, c) THEN [o.seen[c] EXCEPT !.state = "creating"] ELSE o.seen[c]
  BY DEF Inventory
<1>3. k # NoCreation /\ k.name = n => k.state = "failed"
  BY DEF NameFree
<1> HIDE DEF k
<1>4. CASE Hidden(o, c)
  <2>1. k \in Creation /\ k.name = n /\ k.state = "creating"
    BY <1>1, <1>2, <1>4 DEF Creation, States
  <2>2. QED
    BY <1>3, <2>1, DistinctAssumption
<1>5. CASE ~Hidden(o, c)
  BY <1>2, <1>3, <1>5
<1>6. QED
  BY <1>4, <1>5

\* The records are read after the creations: what is known once the creations
\* an inventory lacks are marked.
LEMMA MissKnows ==
  ASSUME Inv, OneInv, NEW p \in QueueProcs, Miss(op[p]),
         UNCHANGED <<queue, now, faults, issued, shown, notices>>
  PROVE  /\ Knows(op[p], queue, creation', notices, now)
         /\ Records(queue, creation', issued, now) /\ Announced(queue, creation', notices)
         /\ OneEach(creation') /\ Past(op[p].seen, creation')
<1> DEFINE o == op[p]
           u == creation'
<1>1. /\ queue \in Queues /\ creation \in Creations /\ now \in Nat /\ p \in Procs
      /\ o \in OpState /\ Good(o, creation)
  BY OneFacts DEF QueueProcs
<1>2. /\ Records(queue, creation, issued, now) /\ Announced(queue, creation, notices)
      /\ OneEach(creation) /\ Knows(o, queue, creation, notices, now)
  BY DEF OneInv, OneEach, OneAccountPerRequest
<1>3. /\ Evolves(creation, u, issued, now)
      /\ \A c \in CreateIds : creation[c] = NoCreation => u[c] = NoCreation
  BY <1>1, MissEvolves
<1>4. now <= now /\ issued \subseteq issued /\ Past(creation, u)
  BY <1>1, <1>3 DEF Evolves
<1> HIDE DEF o, u
<1>5. \A c \in CreateIds : creation[c] # NoCreation => creation[c].jid \in issued
  BY <1>2 DEF Records
<1>6. Records(queue, u, issued, now)
  BY <1>1, <1>2, <1>3, <1>4, RecordsLater, Zenon
<1>7. Announced(queue, u, notices)
  BY <1>2, <1>4, AnnouncedLater
<1>8. OneEach(u)
  BY <1>2, <1>3, <1>5, OneEachLater
<1>9. Knows(o, queue, u, notices, now)
  BY <1>1, <1>2, <1>3, <1>4, KnowsLater
<1>10. QED
  BY <1>4, <1>6, <1>7, <1>8, <1>9 DEF o, u, Knows

\* A step that writes the tags, whatever becomes of the reply.
LEMMA WriteOne ==
  ASSUME OneQueueProcess, Inv, OneInv, NEW p \in QueueProcs, NEW q, NEW next, WriteTags(p, q, next),
         Knows(next, q, creation', notices', now'),
         Knows(AfterError(p), q, creation', notices', now'),
         Records(q, creation', issued', now'), Announced(q, creation', notices'),
         OneEach(creation')
  PROVE  OneInv'
<1>1. queue' = q /\ (Continue(p, next) \/ Continue(p, AfterError(p)))
  BY DEF WriteTags
<1>2. QED
  BY <1>1, ProcOne

\* A record takes the key n.
LEMMA RecordsPut ==
  ASSUME NEW q \in Queues, NEW s, NEW i, NEW t, Records(q, s, i, t),
         NEW n \in Names, NEW r \in Record, Filed(n, r, s, i, t),
         \A m \in Names : m # n /\ q[m] # NoRecord => q[m].jid # r.jid
  PROVE  Records([q EXCEPT ![n] = r], s, i, t)
<1> DEFINE x == [q EXCEPT ![n] = r]
<1>1. x[n] = r /\ \A m \in Names : m # n => x[m] = q[m]
  BY DEF Queues
<1> HIDE DEF x
<1>2. Records(x, s, i, t)
  BY <1>1 DEF Records
<1>3. QED
  BY <1>2 DEF x

\* The record under n is written anew for the same journey.
LEMMA RecordsAgain ==
  ASSUME NEW q \in Queues, NEW s, NEW i, NEW t, Records(q, s, i, t),
         NEW n \in Names, NEW r \in Record, Filed(n, r, s, i, t),
         q[n] # NoRecord, q[n].jid = r.jid
  PROVE  Records([q EXCEPT ![n] = r], s, i, t)
<1>1. \A m \in Names : m # n /\ q[m] # NoRecord => q[m].jid # r.jid
  BY DEF Records
<1>2. QED
  BY <1>1, RecordsPut

\* Records leave.
LEMMA RecordsDrop ==
  ASSUME NEW q \in Queues, NEW s, NEW i, NEW t, Records(q, s, i, t),
         NEW x, \A n \in Names : x[n] \in {q[n], NoRecord}
  PROVE  Records(x, s, i, t)
<1>1. \A n \in Names : x[n] # NoRecord => x[n] = q[n]
  OBVIOUS
<1>2. QED
  BY <1>1 DEF Records

LEMMA AnnouncedPut ==
  ASSUME NEW q \in Queues, NEW s, NEW k, Announced(q, s, k), NEW n \in Names, NEW r \in Record,
         r.cid \in CreateIds /\ k[r.cid] > 0 => r.reported
  PROVE  Announced([q EXCEPT ![n] = r], s, k)
<1> DEFINE x == [q EXCEPT ![n] = r]
<1>1. x[n] = r /\ \A m \in Names : m # n => x[m] = q[m]
  BY DEF Queues
<1> HIDE DEF x
<1>2. Announced(x, s, k)
  BY <1>1 DEF Announced
<1>3. QED
  BY <1>2 DEF x

LEMMA AnnouncedDrop ==
  ASSUME NEW q \in Queues, NEW s, NEW k, Announced(q, s, k),
         NEW x, \A n \in Names : x[n] \in {q[n], NoRecord}
  PROVE  Announced(x, s, k)
<1>1. \A n \in Names : x[n] # NoRecord => x[n] = q[n]
  OBVIOUS
<1>2. QED
  BY <1>1 DEF Announced


-----------------------------------------------------------------------------
(* What an operation knows after one of its steps.                         *)

LEMMA QuietKnows ==
  ASSUME NEW o, o.pc \in {"idle", "place"}, o.back \in {"idle", "refresh", "poll"},
         NEW q, NEW s, NEW k, NEW t, Past(o.seen, s)
  PROVE  Knows(o, q, s, k, t)
BY DEF Knows, Submits, Approves, Edits, Places, Expires, Reported, Submitting, Requesting, Editing

LEMMA IdleKnows == \A q, s, k, t : Knows(Idle, q, s, k, t)
BY QuietKnows, PastNone, IdleFields

LEMMA ProcFacts ==
  ASSUME Inv, OneInv, NEW p \in QueueProcs
  PROVE  /\ p \in Procs /\ op[p] \in OpState /\ Good(op[p], creation)
         /\ Knows(op[p], queue, creation, notices, now)
BY OneFacts DEF OneInv, QueueProcs

\* What is true of the records before every step.
LEMMA StateFacts ==
  ASSUME OneInv
  PROVE  /\ Records(queue, creation, issued, now) /\ Announced(queue, creation, notices)
         /\ OneEach(creation)
BY DEF OneInv, OneEach, OneAccountPerRequest

LEMMA SubmitOne ==
  ASSUME OneQueueProcess, Inv, OneInv, NEW p \in QueueProcs, Submit(p) PROVE OneInv'
<1>1. PICK n \in Names, o \in Owners, b \in Requesters, t \in Terms :
        Listed(p, [Idle EXCEPT !.pc = "checks", !.target = n, !.rec = Draft(o, b, t)])
  BY DEF Submit
<1> DEFINE r == Draft(o, b, t)
           w == [Idle EXCEPT !.pc = "checks", !.target = n, !.rec = r]
           x == [Idle EXCEPT !.pc = "checks", !.target = n, !.rec = r, !.seen = creation]
<1>2. x.pc = "checks" /\ x.seen = creation /\ x.back = "idle" /\ x.rec = r
  BY IdleFields DEF OpState
<1>3. creation \in Creations /\ Unclaimed(r, now)
  BY OneFacts DEF Draft, Unclaimed
<1>7. r \in Record
  BY DraftRecord
<1>8. w \in OpState /\ x = [w EXCEPT !.seen = creation]
  BY <1>7, IdleFields DEF OpState, Labels
<1> HIDE DEF x, r, w
<1>4. Past(x.seen, creation)
  BY <1>2, <1>3, PastSame
<1>5. Knows(x, queue, creation, notices, now)
  BY <1>2, <1>3, <1>4 DEF Knows, Submits, Approves, Edits, Places, Expires, Reported, Submitting,
     Requesting, Editing, Saw
<1>6. UNCHANGED <<queue, Env>>
  BY DEF Submit
<1>9. QED
  BY <1>1, <1>5, <1>6, <1>8, ListedOne DEF r, w

LEMMA SubmitChecksOne ==
  ASSUME OneQueueProcess, Inv, OneInv, NEW p \in QueueProcs, SubmitChecks(p) PROVE OneInv'
<1> DEFINE o == op[p]
           u == creation'
           x == AfterInventory(o, "room")
           F == NameFree(Inventory(o), queue, o.target, None)
           C == F /\ BelowLimit(Held(Inventory(o), queue, o.rec.owner, None))
<1>1. /\ o.pc = "checks" /\ Continue(p, IF C THEN x ELSE Idle) /\ Miss(o)
      /\ UNCHANGED <<queue, now, faults, issued, shown, notices>>
  BY DEF SubmitChecks
<1>2. /\ o \in OpState /\ Good(o, creation) /\ p \in Procs
  BY ProcFacts
<1>10. /\ Knows(o, queue, u, notices, now)
       /\ Records(queue, u, issued, now) /\ Announced(queue, u, notices)
       /\ OneEach(u) /\ Past(o.seen, u)
  BY <1>1, MissKnows
<1>11. \A c \in CreateIds : Overlooks(o, c) => u[c].missed
  BY <1>1, <1>2, MissEvolves
<1> HIDE DEF o, u
<1>3. /\ x.pc = "room" /\ x.target = o.target /\ x.seen = NoCreations /\ x.back = o.back
      /\ x.rec = o.rec
  BY <1>2, AfterInventoryFields DEF Labels
<1>4. o.target \in Names
  BY <1>1, <1>2 DEF Good, Writers
<1>5. ASSUME F PROVE Takes(o.target, queue, u)
  <2> SUFFICES ASSUME queue[o.target] # NoRecord
               PROVE  queue[o.target].approved /\ OthersFailed(queue[o.target].jid, None, u)
    BY DEF Takes
  <2>1. queue[o.target].approved
    BY <1>5 DEF NameFree, Pending
  <2>2. Filed(o.target, queue[o.target], u, issued, now)
    BY <1>4, <1>10 DEF Records
  <2>3. Saw(o.seen, queue[o.target].jid, u)
    BY <1>1, <1>4, <1>10 DEF Knows, Submits
  <2>4. ASSUME NEW d \in CreateIds, u[d] # NoCreation, u[d].jid = queue[o.target].jid
        PROVE  Gone(u[d])
    <3>1. o.seen[d] # NoCreation /\ o.seen[d].name = o.target
      BY <1>10, <2>2, <2>3, <2>4 DEF Saw, Filed, Past
    <3>2. o.seen[d].state = "failed" \/ Overlooks(o, d)
      BY <1>2, <1>5, <3>1, InventoryFree
    <3>3. QED
      BY <1>10, <1>11, <3>1, <3>2 DEF Gone, Past
  <2>5. QED
    BY <2>1, <2>4 DEF OthersFailed
<1>6. Past(x.seen, u)
  BY <1>3, PastNone
<1> HIDE DEF x, F
<1>7. ASSUME F PROVE Knows(x, queue, u, notices, now)
  BY <1>1, <1>2, <1>10, <1>3, <1>5, <1>6, <1>7 DEF Knows, Submits, Approves, Edits, Places, Expires, Reported, Submitting,
     Requesting, Editing, Reports, Expiring
<1>8. Knows(IF C THEN x ELSE Idle, queue, u, notices, now)
  BY <1>7, IdleKnows
<1> HIDE DEF C
<1>9. QED
  BY <1>1, <1>8, <1>10, ProcOne DEF u


LEMMA SubmitRoomOne ==
  ASSUME OneQueueProcess, Inv, OneInv, NEW p \in QueueProcs, SubmitRoom(p) PROVE OneInv'
<1> DEFINE o == op[p]
           r == [o.rec EXCEPT !.requestedAt = now]
           x == [o EXCEPT !.pc = "replaced", !.rec.requestedAt = now]
           C == UsedTags(queue) < MaxTags
<1>1. o.pc = "room" /\ Continue(p, IF C THEN x ELSE Idle)
  BY DEF SubmitRoom
<1>2. o \in OpState /\ Good(o, creation) /\ Knows(o, queue, creation, notices, now)
  BY ProcFacts
<1> HIDE DEF o, C
<1>3. o.rec \in Record
  BY <1>1, <1>2 DEF Good, Writers
<1>4. x = [o EXCEPT !.pc = "replaced", !.rec = r]
  OBVIOUS
<1>5. r.approved = o.rec.approved /\ r.cid = o.rec.cid /\ r.reported = o.rec.reported
      /\ r.approvedAt = o.rec.approvedAt
  BY <1>3 DEF Record
<1> HIDE DEF r, x
<1>6. /\ x.pc = "replaced" /\ x.target = o.target /\ x.seen = o.seen /\ x.back = o.back
      /\ x.rec = r
  BY <1>2, <1>4 DEF OpState
<1>7. Knows(x, queue, creation, notices, now)
  BY <1>1, <1>2, <1>5, <1>6 DEF Knows, Submits, Approves, Edits, Places, Expires, Reported,
     Submitting, Requesting, Editing, Expiring, Reports, Unclaimed
<1>8. Knows(IF C THEN x ELSE Idle, queue, creation, notices, now)
  BY <1>7, IdleKnows
<1>9. QED
  BY <1>1, <1>8, ReadOne DEF SubmitRoom

LEMMA ReportingFields ==
  ASSUME NEW o \in OpState, NEW q \in Queues, NEW n \in Names, NEW b
  PROVE  LET x == Reporting(o, q, n, b) IN
         /\ x.pc = "reportRead" /\ x.target = n /\ x.tags[n] = q[n] /\ x.back = b
         /\ x.rec = o.rec /\ x.seen = o.seen /\ x.todo = o.todo /\ x.at = o.at
         /\ \A m \in Names : m # n => x.tags[m] = o.tags[m]
<1> DEFINE t == [o.tags EXCEPT ![n] = q[n]]
           x == [o EXCEPT !.pc = "reportRead", !.target = n, !.tags = t, !.back = b]
<1>1. Reporting(o, q, n, b) = x
  BY DEF Reporting
<1>2. t[n] = q[n] /\ \A m \in Names : m # n => t[m] = o.tags[m]
  BY DEF OpState, Queues
<1> HIDE DEF t
<1>3. /\ x.pc = "reportRead" /\ x.target = n /\ x.tags = t /\ x.back = b
      /\ x.rec = o.rec /\ x.seen = o.seen /\ x.todo = o.todo /\ x.at = o.at
  BY DEF OpState
<1> HIDE DEF x
<1>4. QED
  BY <1>1, <1>2, <1>3

LEMMA SubmitReplacedOne ==
  ASSUME OneQueueProcess, Inv, OneInv, NEW p \in QueueProcs, SubmitReplaced(p) PROVE OneInv'
<1> DEFINE o == op[p]
           n == o.target
           r == Reporting(o, queue, n, "enqueue")
           y == [o EXCEPT !.pc = "enqueue"]
           C == Approved(queue, n) /\ ~queue[n].reported /\ Failed(creation, queue[n].cid)
<1>1. o.pc = "replaced" /\ Continue(p, IF C THEN r ELSE y)
  BY DEF SubmitReplaced
<1>2. o \in OpState /\ Good(o, creation) /\ Knows(o, queue, creation, notices, now)
  BY ProcFacts
<1> HIDE DEF o
<1>3. n \in Names /\ queue \in Queues
  BY <1>1, <1>2, OneFacts DEF Good, Writers
<1>4. /\ r.pc = "reportRead" /\ r.target = n /\ r.tags[n] = queue[n] /\ r.back = "enqueue"
      /\ r.seen = o.seen /\ r.rec = o.rec
  BY <1>2, <1>3, ReportingFields
<1>5. /\ y.pc = "enqueue" /\ y.target = n /\ y.seen = o.seen /\ y.back = o.back /\ y.rec = o.rec
  BY <1>2 DEF OpState
<1> HIDE DEF r, y
<1>6. ASSUME C PROVE Knows(r, queue, creation, notices, now)
  BY <1>1, <1>2, <1>4, <1>6 DEF Knows, Submits, Approves, Edits, Places, Expires, Reported,
     Submitting, Requesting, Editing, Expiring, Reports, Approved
<1>7. ASSUME ~C PROVE Knows(y, queue, creation, notices, now)
  <2>1. ASSUME queue[n] # NoRecord, queue[n].cid # None 
        PROVE  queue[n].reported \/ creation[queue[n].cid].missed
    <3>1. Takes(n, queue, creation)
      BY <1>1, <1>2 DEF Knows, Submits, Submitting
    <3>2. LastOf(queue[n], creation)
      BY <1>3, <2>1, StateFacts DEF Records, Filed
    <3>3. Failed(creation, queue[n].cid) \/ creation[queue[n].cid].missed
      BY <2>1, <3>1, <3>2, DistinctAssumption DEF Takes, OthersFailed, LastOf, Failed, Gone
    <3>4. QED
      BY <1>7, <2>1, <3>1, <3>3 DEF Takes, Approved
  <2>2. QED
    BY <1>1, <1>2, <1>5, <2>1 DEF Knows, Submits, Approves, Edits, Places, Expires, Reported,
     Submitting, Requesting, Editing, Expiring, Reports
<1> HIDE DEF C
<1>8. Knows(IF C THEN r ELSE y, queue, creation, notices, now)
  BY <1>6, <1>7
<1>9. QED
  BY <1>1, <1>8, ReadOne DEF SubmitReplaced

\* More ids are issued.
LEMMA RecordsIssued ==
  ASSUME NEW q, NEW s, NEW i, NEW i2, NEW t, Records(q, s, i, t), i \subseteq i2
  PROVE  Records(q, s, i2, t)
BY DEF Records, Filed

\* Where an error ends the operation.
LEMMA ErrorIdle ==
  ASSUME NEW p, op[p].pc \in {"enqueue", "claim", "restore", "confirm", "edit", "remove", "expire"}
  PROVE  AfterError(p) = Idle
BY DEF AfterError

LEMMA EnqueueOne ==
  ASSUME OneQueueProcess, Inv, OneInv, NEW p \in QueueProcs, Enqueue(p) PROVE OneInv'
<1> DEFINE o == op[p]
<1>1. PICK j \in Journeys \ issued :
        LET r == [o.rec EXCEPT !.jid = j] IN
        /\ WriteTags(p, [queue EXCEPT ![o.target] = r], Idle)
        /\ issued' = issued \cup {j}
        /\ shown' = shown \cup {Version(o.target, r)}
  BY DEF Enqueue
<1> DEFINE r == [o.rec EXCEPT !.jid = j]
           q == [queue EXCEPT ![o.target] = r]
<1>2. o.pc = "enqueue" /\ UNCHANGED <<creation, now, notices>>
  BY DEF Enqueue
<1>3. o \in OpState /\ Good(o, creation) /\ Knows(o, queue, creation, notices, now)
  BY ProcFacts
<1>4. AfterError(p) = Idle
  BY <1>2, ErrorIdle
<1>5. WriteTags(p, q, Idle) /\ issued' = issued \cup {j}
  BY <1>1
<1> HIDE DEF o
<1>6. o.rec \in Record /\ o.target \in Names /\ Unclaimed(o.rec, now)
  BY <1>2, <1>3 DEF Good, Writers, Knows, Submits, Submitting
<1>7. /\ r \in Record /\ r.jid = j /\ Unclaimed(r, now)
  BY <1>6 DEF Record, Unclaimed
<1> HIDE DEF r
<1>8. Records(queue, creation, issued, now) /\ Announced(queue, creation, notices) /\ OneEach(creation)
  BY StateFacts
<1>9. Records(queue, creation, issued', now)
  BY <1>5, <1>8, RecordsIssued
<1>10. Filed(o.target, r, creation, issued', now)
  BY <1>5, <1>7, <1>8 DEF Filed, Records, Unclaimed
<1>11. \A m \in Names : queue[m] # NoRecord => queue[m].jid # j
  BY <1>8 DEF Records, Filed
<1>12. queue \in Queues
  BY OneFacts
<1>13. Records(q, creation, issued', now)
  BY <1>6, <1>7, <1>9, <1>10, <1>11, <1>12, RecordsPut
<1>14. Announced(q, creation, notices)
  BY <1>6, <1>7, <1>8, <1>12, AnnouncedPut, DistinctAssumption DEF Unclaimed
<1> HIDE DEF q
<1>15. QED
  BY <1>2, <1>4, <1>5, <1>8, <1>13, <1>14, IdleKnows, WriteOne


-----------------------------------------------------------------------------
(* Calls that fail, and crashes.                                           *)

LEMMA PlacingKnows ==
  ASSUME NEW o \in OpState, o.back \in {"idle", "refresh", "poll"},
         NEW q, NEW s, NEW k, NEW t, Past(o.seen, s)
  PROVE  Knows(Placing(o), q, s, k, t)
<1>1. Placing(o).pc = "place" /\ Placing(o).back = o.back /\ Placing(o).seen = o.seen
  BY DEF Placing, OpState
<1>2. QED
  BY <1>1, QuietKnows

\* A failure that could not be reported is left for the next pass.
LEMMA SkipKnows ==
  ASSUME NEW o \in OpState, o.pc \in {"reportRead", "reportWrite"}, o.back = "expire",
         NEW b, NEW q, NEW s, NEW k, NEW t, Knows(o, b, s, k, t),
         \A n \in Names : n # o.target => q[n] = b[n]
  PROVE  Knows([o EXCEPT !.pc = "expire", !.todo = @ \ {o.target}], q, s, k, t)
<1> DEFINE x == [o EXCEPT !.pc = "expire", !.todo = @ \ {o.target}]
<1>1. /\ x.pc = "expire" /\ x.todo = o.todo \ {o.target} /\ x.tags = o.tags /\ x.seen = o.seen
      /\ x.at = o.at /\ x.back = o.back
  BY DEF OpState
<1>2. o.todo \subseteq Names
  BY DEF OpState
<1> HIDE DEF x
<1>3. Expires(o, b, t) /\ Past(o.seen, s)
  BY DEF Knows
<1>4. Expires(x, q, t)
  BY <1>1, <1>2, <1>3 DEF Expires
<1>5. Knows(x, q, s, k, t)
  BY <1>1, <1>3, <1>4 DEF Knows, Submits, Approves, Edits, Places, Reported,
     Submitting, Requesting, Editing, Expiring
<1>6. QED
  BY <1>5 DEF x

LEMMA RestoreKnows ==
  ASSUME NEW o \in OpState, o.pc \in {"list", "records", "create"},
         NEW q, NEW s, NEW k, NEW t, Knows(o, q, s, k, t)
  PROVE  Knows([o EXCEPT !.pc = "restore"], q, s, k, t)
<1> DEFINE x == [o EXCEPT !.pc = "restore"]
<1>1. /\ x.pc = "restore" /\ x.target = o.target /\ x.ref = o.ref /\ x.rec = o.rec
      /\ x.seen = o.seen /\ x.back = o.back /\ x.todo = o.todo /\ x.tags = o.tags
  BY DEF OpState
<1> HIDE DEF x
<1>2. Knows(x, q, s, k, t)
  BY <1>1 DEF Knows, Submits, Approves, Edits, Places, Expires, Reported,
     Submitting, Requesting, Editing, Expiring, Reports
<1>3. QED
  BY <1>2 DEF x

LEMMA ErrorKnows ==
  ASSUME NEW p, op[p] \in OpState, NEW q, NEW s, NEW k, NEW t, Knows(op[p], q, s, k, t)
  PROVE  Knows(AfterError(p), q, s, k, t)
<1> DEFINE o == op[p]
           Restores == o.pc \in {"list", "records", "create"} /\ o.ref # NoRef
           Leaves == o.pc \in {"dropRead", "dropRemove"}
           Skips == o.pc \in {"reportRead", "reportWrite"} /\ o.back = "expire"
           x == [o EXCEPT !.pc = "restore"]
           y == [o EXCEPT !.pc = "expire", !.todo = @ \ {o.target}]
<1>1. AfterError(p) = IF Restores THEN x ELSE IF Leaves THEN Placing(o)
                      ELSE IF Skips THEN y ELSE Idle
  BY DEF AfterError
<1>2. o \in OpState /\ Knows(o, q, s, k, t)
  OBVIOUS
<1> HIDE DEF o
<1>3. ASSUME Restores PROVE Knows(x, q, s, k, t)
  BY <1>2, <1>3, RestoreKnows
<1>4. ASSUME Leaves PROVE Knows(Placing(o), q, s, k, t)
  BY <1>2, <1>4, PlacingKnows DEF Knows, Reports, Expiring
<1>5. ASSUME Skips PROVE Knows(y, q, s, k, t)
  BY <1>2, <1>5, SkipKnows
<1> HIDE DEF x, y, Restores, Leaves, Skips
<1>6. QED
  BY <1>1, <1>3, <1>4, <1>5, IdleKnows

\* The process goes on with o and writes nothing.
LEMMA SilentOne ==
  ASSUME OneQueueProcess, Inv, OneInv, NEW p \in QueueProcs, NEW o, Continue(p, o),
         Knows(o, queue, creation, notices, now), UNCHANGED <<queue, creation, now, issued, notices>>
  PROVE  OneInv'
BY StateFacts, ProcOne

LEMMA CallFailsOne ==
  ASSUME OneQueueProcess, Inv, OneInv, NEW p \in QueueProcs, CallFails(p) PROVE OneInv'
<1>1. Knows(AfterError(p), queue, creation, notices, now)
  BY ProcFacts, ErrorKnows
<1>2. QED
  BY <1>1, SilentOne DEF CallFails

LEMMA OutOfIdsOne ==
  ASSUME OneQueueProcess, Inv, OneInv, NEW p \in QueueProcs, OutOfIds(p) PROVE OneInv'
<1>1. Knows(AfterError(p), queue, creation, notices, now)
  BY ProcFacts, ErrorKnows
<1>2. QED
  BY <1>1, SilentOne DEF OutOfIds

LEMMA CrashOne ==
  ASSUME OneQueueProcess, Inv, OneInv, NEW p \in QueueProcs, Crash(p) PROVE OneInv'
BY IdleKnows, SilentOne DEF Crash

-----------------------------------------------------------------------------
(* reportCreationFailure.                                                  *)

LEMMA ReportReadOne ==
  ASSUME OneQueueProcess, Inv, OneInv, NEW p \in QueueProcs, ReportRead(p) PROVE OneInv'
<1> DEFINE o == op[p]
           n == o.target
           t == [o.tags EXCEPT ![n] = queue[n]]
           x == [o EXCEPT !.pc = "reportWrite", !.tags[n] = queue[n]]
           C == /\ Approved(queue, n) /\ ~queue[n].reported
                /\ queue[n].jid = o.tags[n].jid /\ queue[n].cid = o.tags[n].cid
<1>1. o.pc = "reportRead" /\ Continue(p, IF C THEN x ELSE AfterReport(p))
  BY DEF ReportRead
<1>2. o \in OpState /\ Good(o, creation) /\ Knows(o, queue, creation, notices, now)
  BY ProcFacts
<1>3. x = [o EXCEPT !.pc = "reportWrite", !.tags = t]
  OBVIOUS
<1> HIDE DEF o, x
<1>4. n \in Names /\ o.tags[n] \in Record /\ o.tags \in Queues
  BY <1>1, <1>2 DEF Good, Reports, OpState
<1>5. queue[n] = o.tags[n] /\ queue[n].approved /\ ~queue[n].reported
  BY <1>1, <1>2 DEF Knows, Reported
<1>6. C
  BY <1>4, <1>5, DistinctAssumption DEF Approved
<1>7. t = o.tags
  BY <1>4, <1>5 DEF Queues
<1> HIDE DEF t, C
<1>8. /\ x.pc = "reportWrite" /\ x.target = o.target /\ x.tags = o.tags /\ x.rec = o.rec
      /\ x.seen = o.seen /\ x.back = o.back /\ x.todo = o.todo /\ x.at = o.at
  BY <1>2, <1>3, <1>7 DEF OpState
<1>9. Knows(x, queue, creation, notices, now)
  BY <1>1, <1>2, <1>8 DEF Knows, Submits, Approves, Edits, Places, Expires, Reported,
     Submitting, Requesting, Editing, Expiring, Reports
<1>10. QED
  BY <1>1, <1>6, <1>9, SilentOne DEF ReportRead, Env

\* The record that is flagged is filed as before.
LEMMA ReportWriteOne ==
  ASSUME OneQueueProcess, Inv, OneInv, NEW p \in QueueProcs, ReportWrite(p) PROVE OneInv'
<1> DEFINE o == op[p]
           n == o.target
           r == [o.tags[n] EXCEPT !.reported = TRUE]
           q == [queue EXCEPT ![n] = r]
           x == [o EXCEPT !.pc = "announce"]
<1>1. o.pc = "reportWrite" /\ WriteTags(p, q, x) /\ UNCHANGED Env
  BY DEF ReportWrite
<1>2. o \in OpState /\ Good(o, creation) /\ Knows(o, queue, creation, notices, now) /\ op[p] = o
  BY ProcFacts
<1> HIDE DEF o
<1>3. n \in Names /\ o.tags[n] \in Record /\ o.tags[n].cid \in CreateIds
  BY <1>1, <1>2 DEF Good, Reports
<1>4. queue[n] = o.tags[n] /\ queue[n].approved /\ ~queue[n].reported /\ queue[n] # NoRecord
  BY <1>1, <1>2, <1>3, DistinctAssumption DEF Knows, Reported
<1>5. /\ r \in Record /\ r.jid = queue[n].jid /\ r.cid = queue[n].cid /\ r.approved = queue[n].approved
      /\ r.approvedAt = queue[n].approvedAt /\ r.reported
  BY <1>3, <1>4 DEF Record
<1>6. r = [o.tags[n] EXCEPT !.reported = TRUE]
  OBVIOUS
<1> HIDE DEF r
<1>7. queue \in Queues /\ notices \in [CreateIds -> 0 .. 2]
  BY OneFacts
<1>8. q[n] = r /\ \A m \in Names : m # n => q[m] = queue[m]
  BY <1>3, <1>7 DEF Queues
<1>9. Records(queue, creation, issued, now) /\ Announced(queue, creation, notices) /\ OneEach(creation)
  BY StateFacts
<1>10. Filed(n, queue[n], creation, issued, now)
  BY <1>3, <1>4, <1>9 DEF Records
<1>11. Filed(n, r, creation, issued, now)
  BY <1>3, <1>4, <1>5, <1>10, DistinctAssumption DEF Filed, LastOf
<1>12. Records(q, creation, issued, now)
  BY <1>3, <1>4, <1>5, <1>7, <1>9, <1>11, RecordsAgain
<1>13. Announced(q, creation, notices)
  BY <1>3, <1>5, <1>7, <1>9, AnnouncedPut
<1>14. notices[o.tags[n].cid] = 0
  BY <1>3, <1>4, <1>7, <1>9 DEF Announced
<1> HIDE DEF q
<1>15. /\ x.pc = "announce" /\ x.target = o.target /\ x.tags = o.tags /\ x.rec = o.rec
       /\ x.seen = o.seen /\ x.back = o.back /\ x.todo = o.todo /\ x.at = o.at
  BY <1>2 DEF OpState
<1>16. o.todo \subseteq Names
  BY <1>2 DEF OpState
<1> HIDE DEF x
<1>17. Takes(n, queue, creation) => Takes(n, q, creation)
  BY <1>4, <1>5, <1>8 DEF Takes
<1>18. Knows(x, q, creation, notices, now)
  BY <1>1, <1>2, <1>3, <1>4, <1>6, <1>8, <1>14, <1>15, <1>16, <1>17 DEF Knows, Submits, Approves, Edits, Places, Expires, Reported,
     Submitting, Requesting, Editing, Expiring, Reports
<1>19. Knows(AfterError(p), q, creation, notices, now)
  <2>1. ASSUME o.back = "expire"
        PROVE  Knows([o EXCEPT !.pc = "expire", !.todo = @ \ {o.target}], q, creation, notices, now)
    BY <1>1, <1>2, <1>8, <2>1, SkipKnows
  <2>2. AfterError(p) = IF o.back = "expire" THEN [o EXCEPT !.pc = "expire", !.todo = @ \ {o.target}]
                        ELSE Idle
    BY <1>1, <1>2 DEF AfterError
  <2>3. QED
    BY <2>1, <2>2, IdleKnows
<1>20. UNCHANGED <<creation, now, issued, notices>>
  BY <1>1 DEF Env
<1>21. QED
  BY <1>1, <1>9, <1>12, <1>13, <1>18, <1>19, <1>20, WriteOne


\* The operation after its failure report.
LEMMA AfterReportKnows ==
  ASSUME NEW p, op[p] \in OpState, op[p].pc = "announce", op[p].target \in Names,
         op[p].tags[op[p].target] \in Record,
         NEW q, NEW s, NEW k, NEW l, NEW t, Knows(op[p], q, s, k, t)
  PROVE  Knows(AfterReport(p), q, s, l, t)
<1> DEFINE o == op[p]
           r == [o.tags[o.target] EXCEPT !.reported = TRUE]
           a == [o.tags EXCEPT ![o.target] = r]
           x == [o EXCEPT !.pc = "enqueue", !.tags = EmptyQueue, !.back = "idle"]
           y == [o EXCEPT !.pc = "expire", !.tags[o.target].reported = TRUE]
           E == o.back = "enqueue"
           X == o.back = "expire"
<1>1. AfterReport(p) = IF E THEN x ELSE IF X THEN y ELSE Idle
  BY DEF AfterReport
<1>2. /\ o \in OpState /\ Knows(o, q, s, k, t) /\ o.pc = "announce" /\ o.target \in Names
      /\ o.tags[o.target] \in Record
  OBVIOUS
<1>3. y = [o EXCEPT !.pc = "expire", !.tags = a]
  OBVIOUS
<1> HIDE DEF o, y
<1>4. r = [o.tags[o.target] EXCEPT !.reported = TRUE] /\ r.reported /\ r.cid = o.tags[o.target].cid
  BY <1>2 DEF Record
<1> HIDE DEF r
<1>5. q[o.target] = r
  BY <1>2, <1>4 DEF Knows, Reported
<1>6. ASSUME E PROVE Knows(x, q, s, l, t)
  <2>1. /\ x.pc = "enqueue" /\ x.target = o.target /\ x.rec = o.rec /\ x.seen = o.seen /\ x.back = "idle"
    BY <1>2 DEF OpState
  <2> HIDE DEF x
  <2>2. QED
    BY <1>2, <1>4, <1>5, <1>6, <2>1 DEF Knows, Submits, Approves, Edits, Places, Expires, Reported,
     Submitting, Requesting, Editing, Expiring, Reports
<1>7. ASSUME X PROVE Knows(y, q, s, l, t)
  <2>1. a[o.target] = r /\ \A m \in Names : m # o.target => a[m] = o.tags[m]
    BY <1>2 DEF OpState, Queues
  <2> HIDE DEF a
  <2>2. /\ y.pc = "expire" /\ y.tags = a /\ y.seen = o.seen /\ y.back = o.back /\ y.todo = o.todo
        /\ y.at = o.at /\ o.todo \subseteq Names
    BY <1>2, <1>3 DEF OpState
  <2>3. Expires(o, q, t) /\ Past(o.seen, s)
    BY <1>2 DEF Knows
  <2>4. Expires(y, q, t)
    <3>1. \A m \in o.todo : y.tags[m] = q[m]
      BY <1>2, <1>5, <1>7, <2>1, <2>2, <2>3 DEF Expires
    <3>2. /\ o.at <= t
          /\ \A m \in o.todo : o.tags[m].cid # None => o.seen[o.tags[m].cid] # NoCreation
      BY <1>2, <1>7, <2>3 DEF Expires
    <3>3. \A m \in o.todo : y.tags[m].cid = o.tags[m].cid
      BY <1>2, <1>4, <2>1, <2>2
    <3>4. QED
      BY <2>2, <3>1, <3>2, <3>3 DEF Expires
  <2>5. QED
    BY <1>7, <2>2, <2>3, <2>4 DEF Knows, Submits, Approves, Edits, Places, Reported,
       Submitting, Requesting, Editing, Expiring
<1> HIDE DEF x, E, X
<1>8. QED
  BY <1>1, <1>6, <1>7, IdleKnows

LEMMA AnnounceOne ==
  ASSUME OneQueueProcess, Inv, OneInv, NEW p \in QueueProcs, Announce(p) PROVE OneInv'
<1> DEFINE o == op[p]
           n == o.target
           c == o.tags[n].cid
<1>1. /\ o.pc = "announce" /\ Continue(p, AfterReport(p)) /\ UNCHANGED <<queue, creation, now, issued>>
      /\ notices' = [notices EXCEPT ![c] = IF @ = 2 THEN 2 ELSE @ + 1]
  BY DEF Announce
<1>2. /\ o \in OpState /\ Good(o, creation) /\ Knows(o, queue, creation, notices, now) /\ o = op[p]
  BY ProcFacts
<1>3. n \in Names /\ o.tags[n] \in Record /\ c \in CreateIds
  BY <1>1, <1>2 DEF Good, Reports
<1>4. Knows(AfterReport(p), queue, creation, notices', now)
  BY <1>1, <1>2, <1>3, AfterReportKnows
<1> HIDE DEF o
<1>5. /\ queue[n] = [o.tags[n] EXCEPT !.reported = TRUE] /\ notices[c] = 0
  BY <1>1, <1>2 DEF Knows, Reported
<1>6. queue[n] \in Record /\ queue[n].reported /\ queue[n].cid = c /\ queue[n] # NoRecord
  BY <1>3, <1>5, DistinctAssumption DEF Record
<1>7. Records(queue, creation, issued, now) /\ Announced(queue, creation, notices) /\ OneEach(creation)
  BY StateFacts
<1>8. notices'[c] = 1 /\ \A d \in CreateIds : d # c => notices'[d] = notices[d]
  BY <1>1, <1>3, <1>5, OneFacts
<1>9. \A m \in Names : queue[m] # NoRecord => (queue[m].cid = None \/ LastOf(queue[m], creation))
  BY <1>7 DEF Records, Filed
<1>10. creation[c] # NoCreation /\ creation[c].jid = queue[n].jid
  BY <1>3, <1>6, <1>9, DistinctAssumption DEF LastOf
<1>11. ASSUME NEW m \in Names, queue[m] # NoRecord, queue[m].cid = c PROVE queue[m].reported
  <2>1. queue[m].jid = queue[n].jid
    BY <1>3, <1>9, <1>10, <1>11, DistinctAssumption DEF LastOf
  <2>2. m = n
    BY <1>3, <1>6, <1>7, <1>11, <2>1 DEF Records
  <2>3. QED
    BY <1>6, <2>2
<1>12. Announced(queue, creation, notices')
  BY <1>7, <1>8, <1>10, <1>11 DEF Announced
<1>13. QED
  BY <1>1, <1>4, <1>7, <1>12, ProcOne

-----------------------------------------------------------------------------
(* Approve, and Request.                                                   *)

\* A pending record has no creation.
LEMMA PendingFacts ==
  ASSUME Inv, OneInv, NEW n \in Names, Pending(queue, n)
  PROVE  queue[n] \in Record /\ Unclaimed(queue[n], now) /\ queue[n] # NoRecord
BY StateFacts, OneFacts DEF Pending, Records, Filed, LastOf, Unclaimed, Queues

LEMMA ApproveOne ==
  ASSUME OneQueueProcess, Inv, OneInv, NEW p \in QueueProcs, Approve(p) PROVE OneInv'
<1>1. PICK ref \in shown, a \in Approvers :
        /\ SeenAs(ref)
        /\ Continue(p, [Idle EXCEPT !.pc = "claim", !.target = ref.name, !.ref = ref,
                         !.rec = [queue[ref.name] EXCEPT !.approved = TRUE, !.approver = a,
                                                         !.approvedAt = now]])
  BY DEF Approve
<1> DEFINE r == [queue[ref.name] EXCEPT !.approved = TRUE, !.approver = a, !.approvedAt = now]
           x == [Idle EXCEPT !.pc = "claim", !.target = ref.name, !.ref = ref, !.rec = r]
<1>2. ref \in Ref /\ ref.name \in Names
  BY <1>1, SeenFacts
<1>3. Pending(queue, ref.name) /\ ref # NoRef
  BY <1>1, <1>2, DistinctAssumption DEF SeenAs
<1>4. queue[ref.name] \in Record /\ Unclaimed(queue[ref.name], now) /\ queue[ref.name] # NoRecord
  BY <1>2, <1>3, PendingFacts
<1>5. r.jid = queue[ref.name].jid /\ Claimed(r, now)
  BY <1>4, OneFacts DEF Record, Claimed, Unclaimed
<1> HIDE DEF r
<1>6. x.pc = "claim" /\ x.target = ref.name /\ x.rec = r /\ x.ref = ref /\ x.seen = NoCreations
      /\ x.back = "idle"
  BY IdleFields DEF OpState
<1> HIDE DEF x
<1>7. Past(x.seen, creation)
  BY <1>6, PastNone
<1>8. Knows(x, queue, creation, notices, now)
  BY <1>3, <1>4, <1>5, <1>6, <1>7 DEF Knows, Submits, Approves, Edits, Places, Expires, Reported,
     Submitting, Requesting, Editing, Expiring, Reports, Pending
<1>9. QED
  BY <1>1, <1>8, SilentOne DEF Approve, Env, r, x

LEMMA ClaimOne ==
  ASSUME OneQueueProcess, Inv, OneInv, NEW p \in QueueProcs, Claim(p) PROVE OneInv'
<1> DEFINE o == op[p]
           n == o.target
           q == [queue EXCEPT ![n] = o.rec]
           x == [o EXCEPT !.pc = "list"]
<1>1. o.pc = "claim" /\ WriteTags(p, q, x) /\ UNCHANGED Env
  BY DEF Claim
<1>2. o \in OpState /\ Good(o, creation) /\ Knows(o, queue, creation, notices, now)
  BY ProcFacts
<1>3. AfterError(p) = Idle
  BY <1>1, ErrorIdle
<1> HIDE DEF o
<1>4. n \in Names /\ o.rec \in Record
  BY <1>1, <1>2 DEF Good, Writers
<1>5. /\ o.ref # NoRef /\ queue[n] # NoRecord /\ queue[n].jid = o.rec.jid /\ Claimed(o.rec, now)
  BY <1>1, <1>2 DEF Knows, Approves
<1>6. Records(queue, creation, issued, now) /\ Announced(queue, creation, notices) /\ OneEach(creation)
  BY StateFacts
<1>7. queue \in Queues
  BY OneFacts
<1>8. Filed(n, o.rec, creation, issued, now)
  BY <1>4, <1>5, <1>6 DEF Records, Filed, Claimed
<1>9. Records(q, creation, issued, now)
  BY <1>4, <1>5, <1>6, <1>7, <1>8, RecordsAgain
<1>10. Announced(q, creation, notices)
  BY <1>4, <1>5, <1>6, <1>7, AnnouncedPut, DistinctAssumption DEF Claimed
<1>11. q[n] = o.rec /\ o.rec # NoRecord
  BY <1>4, <1>7, DistinctAssumption DEF Queues
<1> HIDE DEF q
<1>12. /\ x.pc = "list" /\ x.target = o.target /\ x.rec = o.rec /\ x.ref = o.ref
       /\ x.seen = o.seen /\ x.back = o.back
  BY <1>2 DEF OpState
<1> HIDE DEF x
<1>13. Knows(x, q, creation, notices, now)
  BY <1>1, <1>2, <1>5, <1>11, <1>12 DEF Knows, Submits, Approves, Edits, Places, Expires, Reported,
     Submitting, Requesting, Editing, Expiring, Reports
<1>14. QED
  BY <1>1, <1>3, <1>6, <1>9, <1>10, <1>13, IdleKnows, WriteOne DEF Env

LEMMA RequestListOne ==
  ASSUME OneQueueProcess, Inv, OneInv, NEW p \in QueueProcs, RequestList(p) PROVE OneInv'
<1> DEFINE o == op[p]
           w == [o EXCEPT !.pc = "records"]
           x == [w EXCEPT !.seen = creation]
<1>1. o.pc = "list" /\ Listed(p, w) /\ UNCHANGED <<queue, Env>>
  BY DEF RequestList
<1>2. o \in OpState /\ Good(o, creation) /\ Knows(o, queue, creation, notices, now)
  BY ProcFacts
<1> HIDE DEF o
<1>3. /\ w \in OpState /\ w.pc = "records" /\ w.target = o.target /\ w.rec = o.rec
      /\ w.ref = o.ref /\ w.back = o.back
  BY <1>2 DEF OpState, Labels
<1> HIDE DEF w
<1>4. /\ x.pc = "records" /\ x.target = o.target /\ x.rec = o.rec /\ x.ref = o.ref
      /\ x.seen = creation /\ x.back = o.back
  BY <1>3 DEF OpState
<1> HIDE DEF x
<1>5. Past(x.seen, creation)
  BY <1>4, OneFacts, PastSame
<1>6. Saw(x.seen, x.rec.jid, creation)
  BY <1>4 DEF Saw
<1>7. Knows(x, queue, creation, notices, now)
  BY <1>1, <1>2, <1>4, <1>5, <1>6 DEF Knows, Submits, Approves, Edits, Places, Expires, Reported,
     Submitting, Requesting, Editing, Expiring, Reports
<1>8. QED
  BY <1>1, <1>3, <1>7, ListedOne DEF x

LEMMA RequestRecordsOne ==
  ASSUME OneQueueProcess, Inv, OneInv, NEW p \in QueueProcs, RequestRecords(p) PROVE OneInv'
<1> DEFINE o == op[p]
           u == creation'
           x == AfterInventory(o, "create")
           C == NameFree(Inventory(o), queue, o.target, o.rec.jid)
<1>1. /\ o.pc = "records" /\ Continue(p, IF C THEN x ELSE AfterError(p)) /\ Miss(o)
      /\ UNCHANGED <<queue, now, faults, issued, shown, notices>>
  BY DEF RequestRecords
<1>2. /\ o \in OpState /\ Good(o, creation) /\ p \in Procs /\ op[p] = o
  BY ProcFacts
<1>10. /\ Knows(o, queue, u, notices, now)
       /\ Records(queue, u, issued, now) /\ Announced(queue, u, notices)
       /\ OneEach(u) /\ Past(o.seen, u)
  BY <1>1, MissKnows
<1>11. \A c \in CreateIds : Overlooks(o, c) => u[c].missed
  BY <1>1, <1>2, MissEvolves
<1> HIDE DEF o, u
<1>12. Knows(AfterError(p), queue, u, notices, now)
  BY <1>2, <1>10, ErrorKnows
<1>3. /\ x.pc = "create" /\ x.target = o.target /\ x.rec = o.rec /\ x.ref = o.ref
      /\ x.seen = NoCreations /\ x.back = o.back
  BY <1>2, AfterInventoryFields DEF Labels
<1> HIDE DEF x
<1>4. /\ o.target \in Names /\ queue[o.target] = o.rec /\ queue[o.target] # NoRecord
      /\ Saw(o.seen, o.rec.jid, u)
  BY <1>1, <1>2, <1>10 DEF Good, Writers, Knows, Approves, Requesting
<1>5. Filed(o.target, o.rec, u, issued, now)
  BY <1>4, <1>10 DEF Records
<1>6. ASSUME C PROVE OthersFailed(o.rec.jid, None, u)
  <2> SUFFICES ASSUME NEW d \in CreateIds, u[d] # NoCreation, u[d].jid = o.rec.jid
               PROVE  Gone(u[d])
    BY DEF OthersFailed
  <2>1. o.seen[d] # NoCreation /\ o.seen[d].name = o.target
    BY <1>4, <1>5, <1>10 DEF Saw, Filed, Past
  <2>2. o.seen[d].state = "failed" \/ Overlooks(o, d)
    BY <1>2, <1>6, <2>1, InventoryFree
  <2>3. QED
    BY <1>10, <1>11, <2>1, <2>2 DEF Gone, Past
<1> HIDE DEF C
<1>7. Past(x.seen, u)
  BY <1>3, PastNone
<1>8. ASSUME C PROVE Knows(x, queue, u, notices, now)
  BY <1>1, <1>2, <1>3, <1>6, <1>7, <1>8, <1>10 DEF Knows, Submits, Approves, Edits, Places, Expires,
     Reported, Submitting, Requesting, Editing, Expiring, Reports
<1>9. Knows(IF C THEN x ELSE AfterError(p), queue, u, notices, now)
  BY <1>8, <1>12
<1>13. QED
  BY <1>1, <1>9, <1>10, ProcOne DEF u

\* AWS accepts a creation c for the claimed request of the record r.
LEMMA CreatedState ==
  ASSUME Inv, OneInv, NEW k \in Creation, queue[k.name] \in Record,
         queue[k.name].jid = k.jid, Claimed(queue[k.name], now),
         OthersFailed(k.jid, None, creation), k.state = "creating", ~k.missed,
         NEW c \in CreateIds, creation[c] = NoCreation,
         NEW u, u = [creation EXCEPT ![c] = k]
  PROVE  /\ Records(queue, u, issued, now) /\ Announced(queue, u, notices) /\ OneEach(u)
         /\ Past(creation, u) /\ OthersFailed(k.jid, c, u) /\ u[c] = k /\ k # NoCreation
<1> DEFINE n == k.name
           r == queue[n]
<1>0. /\ n \in Names /\ r \in Record /\ queue[n] = r /\ Claimed(r, now) /\ OthersFailed(r.jid, None, creation)
      /\ k.name = n /\ k.jid = r.jid
  BY DEF Creation
<1> HIDE DEF n, r
<1>1. /\ Records(queue, creation, issued, now) /\ Announced(queue, creation, notices)
      /\ OneEach(creation) /\ queue \in Queues /\ creation \in Creations
  BY StateFacts, OneFacts
<1>2. u[c] = k /\ k # NoCreation /\ \A d \in CreateIds : d # c => u[d] = creation[d]
  BY <1>1, DistinctAssumption DEF Creations
<1>3. Past(creation, u)
  <2>1. Past(creation, creation)
    BY <1>1, PastSame
  <2>2. QED
    BY <1>2, <2>1 DEF Past
<1>4. OthersFailed(r.jid, c, u)
  BY <1>0, <1>2, DistinctAssumption DEF OthersFailed
<1>5. Announced(queue, u, notices)
  BY <1>1, <1>3, AnnouncedLater
<1>6. OneEach(u)
  <2>1. Lasting(u)
    BY <1>1, <1>2 DEF OneEach, Lasting
  <2>2. QED
    BY <1>0, <1>1, <1>2, <1>4, <2>1 DEF OneEach, OthersFailed
<1>7. r # NoRecord /\ r.cid = None /\ ~r.reported
  BY <1>0, DistinctAssumption DEF Claimed
<1>8. r.jid \in issued /\ r.approvedAt <= now
      /\ \A d \in CreateIds : creation[d] # NoCreation /\ creation[d].jid = r.jid => creation[d].name = n
  BY <1>0, <1>1, <1>7 DEF Records, Filed
<1>9. Filed(n, r, u, issued, now)
  BY <1>0, <1>2, <1>7, <1>8 DEF Filed
<1>10. ASSUME NEW m \in Names, m # n, queue[m] # NoRecord PROVE Filed(m, queue[m], u, issued, now)
  <2>1. queue[m].jid # r.jid /\ Filed(m, queue[m], creation, issued, now)
    BY <1>0, <1>1, <1>7, <1>10 DEF Records
  <2>2. LastOf(queue[m], creation) => LastOf(queue[m], u)
    BY <1>0, <1>2, <2>1 DEF LastOf, OthersFailed
  <2>3. QED
    BY <1>0, <1>2, <2>1, <2>2 DEF Filed
<1>11. \A d \in CreateIds : u[d] # NoCreation => u[d].jid \in issued
  BY <1>0, <1>1, <1>2, <1>8 DEF Records
<1>12. Records(queue, u, issued, now)
  BY <1>0, <1>1, <1>9, <1>10, <1>11 DEF Records
<1>13. QED
  BY <1>0, <1>2, <1>3, <1>4, <1>5, <1>6, <1>12

LEMMA CreateAccountOne ==
  ASSUME OneQueueProcess, Inv, OneInv, NEW p \in QueueProcs, CreateAccount(p) PROVE OneInv'
<1> DEFINE o == op[p]
           x(c) == [o EXCEPT !.pc = "confirm", !.cid = c, !.rec.approvedAt = now, !.rec.cid = c]
           k(j) == [name |-> o.target, jid |-> j, owner |-> o.rec.owner, by |-> o.rec.by,
                    terms |-> o.rec.terms, approver |-> o.rec.approver, ref |-> o.ref,
                    state |-> "creating", doneAt |-> 0, confirmed |-> FALSE,
                    missed |-> FALSE]
<1>1. PICK c \in CreateIds, j \in Journeys :
        /\ creation[c] = NoCreation
        /\ IF o.ref = NoRef THEN j \notin issued ELSE j = o.rec.jid
        /\ creation' = [creation EXCEPT ![c] = k(j)]
        /\ issued' = issued \cup {j}
        /\ \/ /\ UNCHANGED faults
              /\ Continue(p, IF o.ref = NoRef THEN Idle ELSE x(c))
           \/ Fault("lostCreate") /\ Continue(p, AfterError(p))
  BY DEF CreateAccount
<1>2. o.pc = "create" /\ UNCHANGED <<queue, now, shown, notices>>
  BY DEF CreateAccount
<1>3. o \in OpState /\ Good(o, creation) /\ Knows(o, queue, creation, notices, now) /\ op[p] = o
  BY ProcFacts
<1> HIDE DEF o
<1>4. /\ o.ref # NoRef /\ Claimed(o.rec, now) /\ queue[o.target] = o.rec /\ Past(o.seen, creation)
      /\ OthersFailed(o.rec.jid, None, creation) /\ o.target \in Names /\ o.rec \in Record
      /\ queue[o.target] # NoRecord
  BY <1>2, <1>3 DEF Knows, Approves, Requesting, Good, Writers
<1>5. j = o.rec.jid /\ o.ref \in Ref
  BY <1>1, <1>3, <1>4 DEF OpState
<1> DEFINE kj == k(j)
<1>6. /\ kj \in Creation /\ kj.jid = o.rec.jid /\ kj.name = o.target /\ kj.state = "creating"
      /\ ~kj.missed /\ creation' = [creation EXCEPT ![c] = kj]
  BY <1>1, <1>4, <1>5, ZeroTime DEF Creation, Record, States
<1> HIDE DEF k, kj
<1>7. /\ Records(queue, creation', issued, now) /\ Announced(queue, creation', notices) /\ OneEach(creation')
      /\ Past(creation, creation') /\ OthersFailed(j, c, creation') /\ creation'[c] = kj
      /\ creation'[c] # NoCreation
  <2>1. /\ queue[kj.name] \in Record /\ queue[kj.name].jid = kj.jid /\ Claimed(queue[kj.name], now)
        /\ OthersFailed(kj.jid, None, creation) /\ kj.jid = j /\ ~kj.missed
    BY <1>4, <1>5, <1>6
  <2>2. /\ creation[c] = NoCreation /\ creation' = [creation EXCEPT ![c] = kj]
        /\ kj \in Creation /\ kj.state = "creating"
    BY <1>1, <1>6
  <2>3. /\ Records(queue, creation', issued, now) /\ Announced(queue, creation', notices)
        /\ OneEach(creation') /\ Past(creation, creation') /\ OthersFailed(kj.jid, c, creation')
        /\ creation'[c] = kj /\ kj # NoCreation
    BY <2>1, <2>2, CreatedState
  <2>4. QED
    BY <2>1, <2>3
<1>8. Records(queue, creation', issued', now)
  BY <1>1, <1>7, RecordsIssued
<1>9. Past(o.seen, creation')
  BY <1>3, <1>4, <1>7, PastTransitive DEF OpState
<1>10. notices[c] = 0
  <2>1. notices[c] \in 0 .. 2 /\ Announced(queue, creation, notices)
    BY OneFacts, StateFacts
  <2>2. QED
    BY <1>1, <2>1 DEF Announced
<1>11. Knows(x(c), queue, creation', notices, now)
  <2> DEFINE r == [o.rec EXCEPT !.approvedAt = now, !.cid = c]
             y == [o EXCEPT !.pc = "confirm", !.cid = c, !.rec = r]
  <2>1. x(c) = y
    OBVIOUS
  <2>2. r.jid = j /\ r.cid = c /\ r.approvedAt = now /\ r.approved /\ ~r.reported
    BY <1>4, <1>5 DEF Record, Claimed
  <2> HIDE DEF r
  <2>3. /\ y.pc = "confirm" /\ y.target = o.target /\ y.rec = r /\ y.cid = c /\ y.ref = o.ref
        /\ y.seen = o.seen /\ y.back = o.back
    BY <1>3 DEF OpState
  <2> HIDE DEF y
  <2>4. LastOf(r, creation')
    BY <1>5, <1>6, <1>7, <2>2 DEF LastOf
  <2>5. now <= now
    BY OneFacts
  <2>6. Knows(y, queue, creation', notices, now)
    BY <1>2, <1>3, <1>4, <1>5, <1>9, <1>10, <2>2, <2>3, <2>4, <2>5 DEF Knows, Submits, Approves, Edits, Places, Expires, Reported,
     Submitting, Requesting, Editing, Expiring, Reports
  <2>7. QED
    BY <2>1, <2>6
<1> HIDE DEF x
<1>12. Knows(AfterError(p), queue, creation', notices, now)
  <2> DEFINE z == [o EXCEPT !.pc = "restore"]
  <2>1. AfterError(p) = z
    BY <1>2, <1>3, <1>4 DEF AfterError
  <2>2. /\ z.pc = "restore" /\ z.target = o.target /\ z.ref = o.ref /\ z.rec = o.rec
        /\ z.seen = o.seen /\ z.back = o.back
    BY <1>3 DEF OpState
  <2> HIDE DEF z
  <2>3. Knows(z, queue, creation', notices, now)
    BY <1>2, <1>3, <1>4, <1>9, <2>2 DEF Knows, Submits, Approves, Edits, Places, Expires, Reported,
     Submitting, Requesting, Editing, Expiring, Reports
  <2>4. QED
    BY <2>1, <2>3
<1>13. Continue(p, x(c)) \/ Continue(p, AfterError(p))
  BY <1>1, <1>4
<1>14. QED
  BY <1>2, <1>7, <1>8, <1>11, <1>12, <1>13, ProcOne

LEMMA ApproveRestoreOne ==
  ASSUME OneQueueProcess, Inv, OneInv, NEW p \in QueueProcs, ApproveRestore(p) PROVE OneInv'
<1> DEFINE o == op[p]
           n == o.target
           r == [o.rec EXCEPT !.approved = FALSE, !.approver = None, !.approvedAt = 0]
           q == [queue EXCEPT ![n] = r]
<1>1. o.pc = "restore" /\ WriteTags(p, q, Idle) /\ UNCHANGED Env
  BY DEF ApproveRestore
<1>2. o \in OpState /\ Good(o, creation) /\ Knows(o, queue, creation, notices, now)
  BY ProcFacts
<1>3. AfterError(p) = Idle
  BY <1>1, ErrorIdle
<1> HIDE DEF o
<1>4. /\ n \in Names /\ o.rec \in Record /\ queue[n] = o.rec /\ queue[n] # NoRecord /\ Claimed(o.rec, now)
  BY <1>1, <1>2 DEF Good, Writers, Knows, Approves, Requesting
<1>5. /\ r \in Record /\ r.jid = o.rec.jid /\ r.approvedAt = 0 /\ r.cid = o.rec.cid
      /\ r.reported = o.rec.reported
  BY <1>4, ZeroTime DEF Record
<1> HIDE DEF r
<1>6. Records(queue, creation, issued, now) /\ Announced(queue, creation, notices) /\ OneEach(creation)
  BY StateFacts
<1>7. queue \in Queues /\ 0 <= now
  BY OneFacts
<1>8. Filed(n, r, creation, issued, now)
  BY <1>4, <1>5, <1>6, <1>7 DEF Records, Filed, Claimed
<1>9. Records(q, creation, issued, now)
  BY <1>4, <1>5, <1>6, <1>7, <1>8, RecordsAgain
<1>10. Announced(q, creation, notices)
  BY <1>4, <1>5, <1>6, <1>7, AnnouncedPut, DistinctAssumption DEF Claimed
<1> HIDE DEF q
<1>11. QED
  BY <1>1, <1>3, <1>6, <1>9, <1>10, IdleKnows, WriteOne DEF Env

\* The creation c gets its confirmation.
LEMMA ConfirmEvolves ==
  ASSUME Inv, OneInv, NEW c \in CreateIds, creation[c] # NoCreation, NEW u,
         u = [creation EXCEPT ![c].confirmed = TRUE]
  PROVE  Evolves(creation, u, issued, now)
<1> DEFINE k == [creation[c] EXCEPT !.confirmed = TRUE]
<1>1. creation \in Creations /\ creation[c] \in Creation
  BY OneFacts DEF Creations
<1>2. u = [creation EXCEPT ![c] = k]
  OBVIOUS
<1>3. k # NoCreation /\ k.jid = creation[c].jid /\ k.name = creation[c].name
      /\ k.state = creation[c].state /\ k.doneAt = creation[c].doneAt
      /\ k.missed = creation[c].missed
  <2>1. k \in Creation
    BY <1>1 DEF Creation
  <2>2. QED
    BY <1>1, <2>1, DistinctAssumption DEF Creation
<1> HIDE DEF k
<1>4. u[c] = k /\ \A d \in CreateIds : d # c => u[d] = creation[d]
  BY <1>1, <1>2 DEF Creations
<1>5. Past(creation, creation)
  BY <1>1, PastSame
<1>6. Past(creation, u)
  BY <1>3, <1>4, <1>5 DEF Past
<1>7. Lasting(u)
  BY <1>3, <1>4 DEF Lasting, OneInv
<1>8. QED
  BY <1>3, <1>4, <1>6, <1>7 DEF Evolves

LEMMA ApproveConfirmOne ==
  ASSUME OneQueueProcess, Inv, OneInv, NEW p \in QueueProcs, ApproveConfirm(p) PROVE OneInv'
<1> DEFINE o == op[p]
           n == o.target
           q == [queue EXCEPT ![n] = o.rec]
<1>1. /\ o.pc = "confirm" /\ WriteTags(p, q, Idle)
      /\ creation' = [creation EXCEPT ![o.cid].confirmed = TRUE]
      /\ UNCHANGED <<now, issued, notices>>
  BY DEF ApproveConfirm
<1>2. o \in OpState /\ Good(o, creation) /\ Knows(o, queue, creation, notices, now)
  BY ProcFacts
<1>3. AfterError(p) = Idle
  BY <1>1, ErrorIdle
<1> HIDE DEF o
<1>4. /\ n \in Names /\ o.rec \in Record /\ o.cid \in CreateIds /\ creation[o.cid] # NoCreation
      /\ queue[n] # NoRecord /\ queue[n].jid = o.rec.jid /\ o.rec.approvedAt <= now
      /\ LastOf(o.rec, creation) /\ o.cid = o.rec.cid /\ ~o.rec.reported /\ notices[o.cid] = 0
  BY <1>1, <1>2 DEF Good, Writers, Knows, Approves
<1>5. /\ Records(queue, creation, issued, now) /\ Announced(queue, creation, notices) /\ OneEach(creation)
      /\ \A c \in CreateIds : creation[c] # NoCreation => creation[c].jid \in issued
  BY StateFacts DEF Records
<1>6. Evolves(creation, creation', issued, now)
  BY <1>1, <1>4, ConfirmEvolves
<1>7. queue \in Queues /\ now \in Nat /\ now <= now
  BY OneFacts
<1>8. \A c \in CreateIds : creation[c] = NoCreation => creation'[c] = NoCreation
  BY <1>1, <1>4, OneFacts DEF Creations
<1>9. Records(queue, creation', issued, now)
  BY <1>5, <1>6, <1>7, <1>8, RecordsLater
<1>10. OneEach(creation')
  BY <1>5, <1>6, OneEachLater
<1>11. Announced(queue, creation', notices)
  BY <1>5, <1>6, AnnouncedLater DEF Evolves
<1>12. o.rec.jid \in issued
  BY <1>4, <1>5 DEF Records, Filed
<1>13. LastOf(o.rec, creation')
  BY <1>4, <1>6, <1>12, LastLater
<1>14. \A c \in CreateIds : creation'[c] # NoCreation /\ creation'[c].jid = o.rec.jid => creation'[c].name = n
  BY <1>4, <1>9 DEF Records, Filed
<1>15. Filed(n, o.rec, creation', issued, now)
  BY <1>4, <1>12, <1>13, <1>14 DEF Filed
<1>16. Records(q, creation', issued, now)
  BY <1>4, <1>7, <1>9, <1>15, RecordsAgain
<1>17. Announced(q, creation', notices)
  BY <1>4, <1>7, <1>11, AnnouncedPut
<1> HIDE DEF q
<1>18. QED
  BY <1>1, <1>3, <1>10, <1>16, <1>17, IdleKnows, WriteOne


-----------------------------------------------------------------------------
(* UpdateRequest, Deny and Withdraw.                                       *)

LEMMA UpdateRequestOne ==
  ASSUME OneQueueProcess, Inv, OneInv, NEW p \in QueueProcs, UpdateRequest(p) PROVE OneInv'
<1>1. PICK ref \in shown, o \in Owners, t \in Terms :
        /\ SeenAs(ref)
        /\ Continue(p, [Idle EXCEPT !.pc = IF o # ref.owner THEN "editList" ELSE "edit",
                         !.target = ref.name, !.ref = ref,
                         !.rec = [queue[ref.name] EXCEPT !.owner = o, !.terms = t]])
  BY DEF UpdateRequest
<1> DEFINE r == [queue[ref.name] EXCEPT !.owner = o, !.terms = t]
           l == IF o # ref.owner THEN "editList" ELSE "edit"
           x == [Idle EXCEPT !.pc = l, !.target = ref.name, !.ref = ref, !.rec = r]
<1>2. ref.name \in Names /\ Pending(queue, ref.name)
  BY <1>1, SeenFacts DEF SeenAs
<1>3. queue[ref.name] \in Record /\ Unclaimed(queue[ref.name], now)
  BY <1>2, PendingFacts
<1>4. r.jid = queue[ref.name].jid /\ Unclaimed(r, now) /\ l \in {"editList", "edit"}
  BY <1>3 DEF Record, Unclaimed
<1> HIDE DEF r, l
<1>5. x.pc = l /\ x.target = ref.name /\ x.rec = r /\ x.seen = NoCreations /\ x.back = "idle"
  BY IdleFields DEF OpState
<1> HIDE DEF x
<1>6. Past(x.seen, creation)
  BY <1>5, PastNone
<1>7. Knows(x, queue, creation, notices, now)
  BY <1>2, <1>4, <1>5, <1>6 DEF Knows, Submits, Approves, Edits, Places, Expires, Reported,
     Submitting, Requesting, Editing, Expiring, Reports
<1>8. QED
  BY <1>1, <1>7, SilentOne DEF UpdateRequest, Env, r, x, l

LEMMA UpdateListOne ==
  ASSUME OneQueueProcess, Inv, OneInv, NEW p \in QueueProcs, UpdateList(p) PROVE OneInv'
<1> DEFINE o == op[p]
           w == [o EXCEPT !.pc = "editChecks"]
           x == [w EXCEPT !.seen = creation]
<1>1. o.pc = "editList" /\ Listed(p, w) /\ UNCHANGED <<queue, Env>>
  BY DEF UpdateList
<1>2. o \in OpState /\ Knows(o, queue, creation, notices, now)
  BY ProcFacts
<1> HIDE DEF o
<1>3. /\ w \in OpState /\ w.pc = "editChecks" /\ w.target = o.target /\ w.rec = o.rec
      /\ w.back = o.back
  BY <1>2 DEF OpState, Labels
<1> HIDE DEF w
<1>4. x.pc = "editChecks" /\ x.target = o.target /\ x.rec = o.rec /\ x.seen = creation /\ x.back = o.back
  BY <1>3 DEF OpState
<1> HIDE DEF x
<1>5. Past(x.seen, creation)
  BY <1>4, OneFacts, PastSame
<1>6. Knows(x, queue, creation, notices, now)
  BY <1>1, <1>2, <1>4, <1>5 DEF Knows, Submits, Approves, Edits, Places, Expires, Reported,
     Submitting, Requesting, Editing, Expiring, Reports
<1>7. QED
  BY <1>1, <1>3, <1>6, ListedOne DEF x

LEMMA UpdateChecksOne ==
  ASSUME OneQueueProcess, Inv, OneInv, NEW p \in QueueProcs, UpdateChecks(p) PROVE OneInv'
<1> DEFINE o == op[p]
           u == creation'
           x == AfterInventory(o, "edit")
           C == BelowLimit(Held(Inventory(o), queue, o.rec.owner, o.target))
<1>1. /\ o.pc = "editChecks" /\ Continue(p, IF C THEN x ELSE Idle) /\ Miss(o)
      /\ UNCHANGED <<queue, now, faults, issued, shown, notices>>
  BY DEF UpdateChecks
<1>2. o \in OpState
  BY ProcFacts
<1>3. /\ Knows(o, queue, u, notices, now)
      /\ Records(queue, u, issued, now) /\ Announced(queue, u, notices) /\ OneEach(u)
  BY <1>1, MissKnows
<1> HIDE DEF o, u, C
<1>4. x.pc = "edit" /\ x.target = o.target /\ x.rec = o.rec /\ x.seen = NoCreations /\ x.back = o.back
  BY <1>2, AfterInventoryFields DEF Labels
<1> HIDE DEF x
<1>5. Past(x.seen, u)
  BY <1>4, PastNone
<1>6. Knows(x, queue, u, notices, now)
  BY <1>1, <1>2, <1>3, <1>4, <1>5 DEF Knows, Submits, Approves, Edits, Places, Expires, Reported,
     Submitting, Requesting, Editing, Expiring, Reports
<1>7. Knows(IF C THEN x ELSE Idle, queue, u, notices, now)
  BY <1>6, IdleKnows
<1>8. QED
  BY <1>1, <1>3, <1>7, ProcOne DEF u

LEMMA UpdateWriteOne ==
  ASSUME OneQueueProcess, Inv, OneInv, NEW p \in QueueProcs, UpdateWrite(p) PROVE OneInv'
<1> DEFINE o == op[p]
           n == o.target
           q == [queue EXCEPT ![n] = o.rec]
<1>1. o.pc = "edit" /\ WriteTags(p, q, Idle) /\ UNCHANGED <<creation, now, issued, notices>>
  BY DEF UpdateWrite
<1>2. o \in OpState /\ Good(o, creation) /\ Knows(o, queue, creation, notices, now)
  BY ProcFacts
<1>3. AfterError(p) = Idle
  BY <1>1, ErrorIdle
<1> HIDE DEF o
<1>4. /\ n \in Names /\ o.rec \in Record /\ queue[n] # NoRecord /\ queue[n].jid = o.rec.jid
      /\ Unclaimed(o.rec, now)
  BY <1>1, <1>2 DEF Good, Writers, Knows, Edits, Editing, Pending
<1>5. Records(queue, creation, issued, now) /\ Announced(queue, creation, notices) /\ OneEach(creation)
  BY StateFacts
<1>6. queue \in Queues
  BY OneFacts
<1>7. Filed(n, o.rec, creation, issued, now)
  BY <1>4, <1>5 DEF Records, Filed, Unclaimed
<1>8. Records(q, creation, issued, now)
  BY <1>4, <1>5, <1>6, <1>7, RecordsAgain
<1>9. Announced(q, creation, notices)
  BY <1>4, <1>5, <1>6, AnnouncedPut, DistinctAssumption DEF Unclaimed
<1> HIDE DEF q
<1>10. QED
  BY <1>1, <1>3, <1>5, <1>8, <1>9, IdleKnows, WriteOne

LEMMA DenyOrWithdrawOne ==
  ASSUME OneQueueProcess, Inv, OneInv, NEW p \in QueueProcs, DenyOrWithdraw(p) PROVE OneInv'
<1>1. PICK ref \in shown :
        /\ SeenAs(ref)
        /\ Continue(p, [Idle EXCEPT !.pc = "remove", !.target = ref.name, !.ref = ref])
  BY DEF DenyOrWithdraw
<1> DEFINE x == [Idle EXCEPT !.pc = "remove", !.target = ref.name, !.ref = ref]
<1>2. x.pc = "remove" /\ x.target = ref.name /\ x.ref = ref /\ x.seen = NoCreations /\ x.back = "idle"
  BY IdleFields DEF OpState
<1> HIDE DEF x
<1>3. Past(x.seen, creation)
  BY <1>2, PastNone
<1>4. Knows(x, queue, creation, notices, now)
  BY <1>1, <1>2, <1>3 DEF Knows, Submits, Approves, Edits, Places, Expires, Reported,
     Submitting, Requesting, Editing, Expiring, Reports, SeenAs
<1>5. QED
  BY <1>1, <1>4, SilentOne DEF DenyOrWithdraw, Env, x

\* Records leave, and the process goes on with next.
LEMMA DropOne ==
  ASSUME OneQueueProcess, Inv, OneInv, NEW p \in QueueProcs, NEW q, NEW next, WriteTags(p, q, next),
         UNCHANGED Env, \A n \in Names : q[n] \in {queue[n], NoRecord},
         Knows(next, q, creation, notices, now), Knows(AfterError(p), q, creation, notices, now)
  PROVE  OneInv'
<1>1. Records(queue, creation, issued, now) /\ Announced(queue, creation, notices) /\ OneEach(creation)
  BY StateFacts
<1>2. queue \in Queues /\ UNCHANGED <<creation, now, issued, notices>>
  BY OneFacts DEF Env
<1>3. Records(q, creation, issued, now) /\ Announced(q, creation, notices)
  BY <1>1, <1>2, RecordsDrop, AnnouncedDrop
<1>4. QED
  BY <1>1, <1>2, <1>3, WriteOne

LEMMA OneDropped ==
  ASSUME Inv, NEW n
  PROVE  \A m \in Names : [queue EXCEPT ![n] = NoRecord][m] \in {queue[m], NoRecord}
BY OneFacts DEF Queues

LEMMA RemoveDecidedOne ==
  ASSUME OneQueueProcess, Inv, OneInv, NEW p \in QueueProcs, RemoveDecided(p) PROVE OneInv'
<1>1. AfterError(p) = Idle
  BY ErrorIdle DEF RemoveDecided
<1>2. QED
  BY <1>1, IdleKnows, OneDropped, DropOne DEF RemoveDecided

-----------------------------------------------------------------------------
(* Refresh and PollCreate.                                                 *)

LEMMA RefreshOne ==
  ASSUME OneQueueProcess, Inv, OneInv, NEW p \in QueueProcs, Refresh(p) PROVE OneInv'
<1> DEFINE w == [Idle EXCEPT !.pc = "place", !.back = "refresh"]
           x == [w EXCEPT !.seen = creation]
<1>1. w.pc = "place" /\ w.back = "refresh" /\ w.seen = NoCreations /\ w \in OpState
  BY IdleFields DEF OpState, Labels, Callers
<1>2. (Continue(p, x) \/ Continue(p, w)) /\ UNCHANGED <<queue, creation, now, issued, notices>>
  BY DEF Refresh, Env
<1> HIDE DEF w
<1>3. x.pc = "place" /\ x.back = "refresh" /\ x.seen = creation
  BY <1>1 DEF OpState
<1> HIDE DEF x
<1>4. Knows(x, queue, creation, notices, now)
  BY <1>3, OneFacts, PastSame, QuietKnows
<1>5. Knows(w, queue, creation, notices, now)
  BY <1>1, PastNone, QuietKnows
<1>6. QED
  BY <1>2, <1>4, <1>5, SilentOne

LEMMA PollSucceededOne ==
  ASSUME OneQueueProcess, Inv, OneInv, NEW p \in QueueProcs, PollSucceeded(p) PROVE OneInv'
<1>1. PICK c \in CreateIds :
        Continue(p, [Idle EXCEPT !.pc = "place", !.back = "poll",
                                 !.seen = [NoCreations EXCEPT ![c] = creation[c]]])
  BY DEF PollSucceeded
<1> DEFINE s == [NoCreations EXCEPT ![c] = creation[c]]
           x == [Idle EXCEPT !.pc = "place", !.back = "poll", !.seen = s]
<1>2. \A d \in CreateIds : s[d] # NoCreation => s[d] = creation[d]
  BY DEF NoCreations
<1> HIDE DEF s
<1>3. x.pc = "place" /\ x.seen = s /\ x.back = "poll"
  BY IdleFields DEF OpState
<1> HIDE DEF x
<1>4. Past(creation, creation)
  BY OneFacts, PastSame
<1>5. Past(s, creation)
  BY <1>2, <1>4 DEF Past
<1>6. Knows(x, queue, creation, notices, now)
  BY <1>3, <1>5, QuietKnows
<1>7. QED
  BY <1>1, <1>6, SilentOne DEF PollSucceeded, Env, x, s

\* The creation a goes on to k at time t.
GoesOn(a, k, t) ==
  /\ a # NoCreation /\ k \in Creation /\ k.jid = a.jid /\ k.name = a.name
  /\ k.missed = a.missed
  /\ \/ k.state = a.state /\ k.doneAt = a.doneAt
     \/ a.state = "creating" /\ k.doneAt = t
     \/ /\ a.state \in {"unplaced", "placed"} /\ k.state \in {"placed", "closed"}
        /\ k.doneAt = a.doneAt

LEMMA EvolvesPut ==
  ASSUME Inv, OneInv, NEW c \in CreateIds, NEW k, GoesOn(creation[c], k, now),
         NEW u, u = [creation EXCEPT ![c] = k]
  PROVE  /\ Evolves(creation, u, issued, now) /\ u[c] = k
         /\ \A d \in CreateIds : creation[d] = NoCreation => u[d] = NoCreation
<1>1. /\ creation \in Creations /\ creation[c].state \in States /\ k.state \in States
      /\ creation[c] # NoCreation /\ k \in Creation
  BY OneFacts DEF Creations, Creation, GoesOn
<1>2. u[c] = k /\ k # NoCreation /\ \A d \in CreateIds : d # c => u[d] = creation[d]
  BY <1>1, DistinctAssumption DEF Creations
<1>3. Past(creation, creation)
  BY <1>1, PastSame
<1>4. Past(creation, u)
  BY <1>1, <1>2, <1>3 DEF Past, States, GoesOn
<1>5. Lasting(u)
  BY <1>1, <1>2 DEF Lasting, OneInv, GoesOn
<1>6. QED
  BY <1>1, <1>2, <1>4, <1>5 DEF Evolves, States, GoesOn

\* The process goes on with o while creations go on.
LEMMA EvolvesOne ==
  ASSUME OneQueueProcess, Inv, OneInv, NEW p \in QueueProcs, NEW o, Continue(p, o),
         UNCHANGED <<queue, now, issued, notices>>, Evolves(creation, creation', issued, now),
         \A d \in CreateIds : creation[d] = NoCreation => creation'[d] = NoCreation,
         Knows(o, queue, creation', notices, now)
  PROVE  OneInv'
<1>1. /\ Records(queue, creation, issued, now) /\ Announced(queue, creation, notices) /\ OneEach(creation)
      /\ \A c \in CreateIds : creation[c] # NoCreation => creation[c].jid \in issued
  BY StateFacts DEF Records
<1>2. queue \in Queues /\ now \in Nat /\ now <= now
  BY OneFacts
<1>3. Records(queue, creation', issued, now)
  BY <1>1, <1>2, RecordsLater
<1>4. Announced(queue, creation', notices) /\ OneEach(creation')
  BY <1>1, AnnouncedLater, OneEachLater DEF Evolves
<1>5. QED
  BY <1>3, <1>4, ProcOne

LEMMA PlaceOne ==
  ASSUME OneQueueProcess, Inv, OneInv, NEW p \in QueueProcs, Place(p) PROVE OneInv'
<1> DEFINE o == op[p]
           rest(c) == [o EXCEPT !.seen[c] = NoCreation]
           placed(c) == [creation EXCEPT ![c].state = IF @ = "unplaced" THEN "placed" ELSE @]
           next(c) == [rest(c) EXCEPT !.pc = "dropRead", !.cid = c, !.target = creation[c].name]
<1>1. PICK c \in Unplaced(o.seen) :
        \/ creation' = placed(c) /\ (Continue(p, next(c)) \/ Continue(p, rest(c)))
        \/ UNCHANGED creation /\ Continue(p, rest(c))
  BY DEF Place
<1>2. o.pc = "place" /\ UNCHANGED <<queue, now, issued, shown, notices>>
  BY DEF Place
<1>3. o \in OpState /\ Good(o, creation) /\ Knows(o, queue, creation, notices, now)
  BY ProcFacts
<1> HIDE DEF o
<1>4. c \in CreateIds /\ o.seen[c] # NoCreation /\ o.seen[c].state = "unplaced"
  BY DEF Unplaced
<1>5. /\ Past(o.seen, creation) /\ creation[c] # NoCreation /\ creation[c] \in Creation
      /\ creation[c].state \in {"unplaced", "placed", "closed"} /\ o.back \in {"idle", "refresh", "poll"}
  BY <1>2, <1>3, <1>4, OneFacts DEF Knows, Past, Creations, Reports, Expiring
<1> DEFINE s == [o.seen EXCEPT ![c] = NoCreation]
           x == [o EXCEPT !.seen = s]
           y == [o EXCEPT !.seen = s, !.pc = "dropRead", !.cid = c, !.target = creation[c].name]
           st == IF creation[c].state = "unplaced" THEN "placed" ELSE creation[c].state
           k == [creation[c] EXCEPT !.state = st]
<1>6. rest(c) = x /\ next(c) = y /\ placed(c) = [creation EXCEPT ![c] = k]
  OBVIOUS
<1>7. \A d \in CreateIds : s[d] # NoCreation => s[d] = o.seen[d]
  BY <1>3 DEF OpState, Creations
<1> HIDE DEF rest, next, placed, s
<1>8. Past(s, creation)
  BY <1>5, <1>7 DEF Past
<1>9. s \in Creations
  BY <1>3 DEF s, OpState, Creations
<1>10. st \in {"placed", "closed"}
  BY <1>5
<1> HIDE DEF st
<1>11. k \in Creation /\ k.jid = creation[c].jid /\ k.name = creation[c].name /\ k.state = st
       /\ k.doneAt = creation[c].doneAt /\ k.missed = creation[c].missed
  BY <1>5, <1>10 DEF Creation, States
<1>12. st = creation[c].state \/ creation[c].state \in {"unplaced", "placed"}
  BY <1>5 DEF st
<1> HIDE DEF k
<1>13. x.pc = "place" /\ x.seen = s /\ x.back = o.back
  BY <1>2, <1>3 DEF OpState
<1>14. y.pc = "dropRead" /\ y.seen = s /\ y.back = o.back /\ y.cid = c
  BY <1>3 DEF OpState
<1> HIDE DEF x, y
<1>15. CASE creation' = placed(c) /\ (Continue(p, y) \/ Continue(p, x))
  <2>1. /\ Evolves(creation, creation', issued, now) /\ creation'[c] = k
        /\ \A d \in CreateIds : creation[d] = NoCreation => creation'[d] = NoCreation
    <3>1. GoesOn(creation[c], k, now)
      BY <1>5, <1>10, <1>11, <1>12 DEF GoesOn
    <3>2. creation' = [creation EXCEPT ![c] = k]
      BY <1>6, <1>15
    <3>3. QED
      <4>1. Evolves(creation, creation', issued, now)
        BY <1>4, <3>1, <3>2, EvolvesPut
      <4>2. creation'[c] = k
        BY <1>4, <3>1, <3>2, EvolvesPut
      <4>3. \A d \in CreateIds : creation[d] = NoCreation => creation'[d] = NoCreation
        BY <1>4, <3>1, <3>2, EvolvesPut
      <4>4. QED
        BY <4>1, <4>2, <4>3
  <2>2. Past(s, creation')
    BY <1>8, <1>9, <2>1, PastTransitive DEF Evolves
  <2>3. Knows(x, queue, creation', notices, now)
    BY <1>5, <1>13, <2>2, QuietKnows
  <2>4. k # NoCreation
    BY <1>11, DistinctAssumption
  <2>5. Knows(y, queue, creation', notices, now)
    BY <1>5, <1>10, <1>11, <1>14, <2>1, <2>2, <2>4 DEF Knows, Submits, Approves, Edits, Places, Expires, Reported,
     Submitting, Requesting, Editing, Expiring, Reports
  <2>6. QED
    BY <1>2, <1>15, <2>1, <2>3, <2>5, EvolvesOne
<1>16. CASE UNCHANGED creation /\ Continue(p, x)
  BY <1>2, <1>5, <1>8, <1>13, <1>16, QuietKnows, SilentOne
<1>17. QED
  BY <1>1, <1>6, <1>15, <1>16


LEMMA DropReadOne ==
  ASSUME OneQueueProcess, Inv, OneInv, NEW p \in QueueProcs, DropRead(p) PROVE OneInv'
<1> DEFINE o == op[p]
           x == [o EXCEPT !.pc = "dropRemove"]
           C == Approved(queue, o.target) /\ queue[o.target].jid = creation[o.cid].jid
<1>1. o.pc = "dropRead" /\ Continue(p, IF C THEN x ELSE Placing(o))
  BY DEF DropRead
<1>2. o \in OpState /\ Knows(o, queue, creation, notices, now)
  BY ProcFacts
<1> HIDE DEF o
<1>3. /\ x.pc = "dropRemove" /\ x.target = o.target /\ x.cid = o.cid /\ x.seen = o.seen
      /\ x.back = o.back
  BY <1>2 DEF OpState
<1> HIDE DEF x
<1>4. ASSUME C PROVE Knows(x, queue, creation, notices, now)
  BY <1>1, <1>2, <1>3, <1>4 DEF Knows, Submits, Approves, Edits, Places, Expires, Reported,
     Submitting, Requesting, Editing, Expiring, Reports
<1>5. Knows(Placing(o), queue, creation, notices, now)
  BY <1>1, <1>2, PlacingKnows DEF Knows, Reports, Expiring
<1> HIDE DEF C
<1>6. Knows(IF C THEN x ELSE Placing(o), queue, creation, notices, now)
  BY <1>4, <1>5
<1>7. QED
  BY <1>1, <1>6, SilentOne DEF DropRead, Env

LEMMA DropRemoveOne ==
  ASSUME OneQueueProcess, Inv, OneInv, NEW p \in QueueProcs, DropRemove(p) PROVE OneInv'
<1> DEFINE q == [queue EXCEPT ![op[p].target] = NoRecord]
<1>1. op[p].pc = "dropRemove" /\ WriteTags(p, q, Placing(op[p])) /\ UNCHANGED Env
  BY DEF DropRemove
<1>2. op[p] \in OpState /\ Knows(op[p], queue, creation, notices, now)
  BY ProcFacts
<1>3. AfterError(p) = Placing(op[p])
  BY <1>1 DEF AfterError
<1>4. Knows(Placing(op[p]), q, creation, notices, now)
  BY <1>1, <1>2, PlacingKnows DEF Knows, Reports, Expiring
<1>5. \A m \in Names : q[m] \in {queue[m], NoRecord}
  BY OneDropped
<1> HIDE DEF q
<1>6. QED
  BY <1>1, <1>3, <1>4, <1>5, DropOne

LEMMA PollDoneOne ==
  ASSUME OneQueueProcess, Inv, OneInv, NEW p \in QueueProcs, PollDone(p) PROVE OneInv'
BY IdleKnows, SilentOne DEF PollDone, Env

LEMMA ExpireReadOne ==
  ASSUME OneQueueProcess, Inv, OneInv, NEW p \in QueueProcs, ExpireRead(p) PROVE OneInv'
<1> DEFINE d == {n \in Names : queue[n] # NoRecord}
           x == [Idle EXCEPT !.pc = "expireList", !.tags = queue, !.todo = d, !.back = "expire"]
<1>1. /\ x.pc = "expireList" /\ x.tags = queue /\ x.todo = d /\ x.back = "expire"
      /\ x.seen = NoCreations
  BY IdleFields DEF OpState
<1> HIDE DEF x
<1>2. Past(x.seen, creation)
  BY <1>1, PastNone
<1>3. Knows(x, queue, creation, notices, now)
  BY <1>1, <1>2 DEF Knows, Submits, Approves, Edits, Places, Expires, Reported,
     Submitting, Requesting, Editing, Expiring, Reports
<1>4. QED
  BY <1>3, SilentOne DEF ExpireRead, Env, x, d

LEMMA ExpireListOne ==
  ASSUME OneQueueProcess, Inv, OneInv, NEW p \in QueueProcs, ExpireList(p) PROVE OneInv'
<1> DEFINE o == op[p]
           x == [o EXCEPT !.pc = "expire", !.seen = creation, !.at = now]
<1>1. o.pc = "expireList" /\ Continue(p, x)
  BY DEF ExpireList
<1>2. o \in OpState /\ Good(o, creation) /\ Knows(o, queue, creation, notices, now)
  BY ProcFacts
<1> HIDE DEF o
<1>3. /\ x.pc = "expire" /\ x.seen = creation /\ x.todo = o.todo /\ x.tags = o.tags
      /\ x.back = o.back /\ x.at = now /\ o.todo \subseteq Names
  BY <1>2 DEF OpState
<1>4. o.back = "expire" /\ \A n \in o.todo : o.tags[n] = queue[n] /\ o.tags[n] \in Record
  BY <1>1, <1>2 DEF Good, Knows, Expires
<1>5. ASSUME NEW n \in o.todo, o.tags[n].cid # None PROVE creation[o.tags[n].cid] # NoCreation
  <2>1. Filed(n, queue[n], creation, issued, now)
    BY <1>3, <1>4, StateFacts, DistinctAssumption DEF Records
  <2>2. QED
    BY <1>4, <1>5, <2>1 DEF Filed, LastOf
<1> HIDE DEF x
<1>6. Past(x.seen, creation) /\ now <= now
  BY <1>3, OneFacts, PastSame
<1>7. Expires(x, queue, now)
  BY <1>3, <1>4, <1>5, <1>6 DEF Expires
<1>8. Knows(x, queue, creation, notices, now)
  BY <1>3, <1>4, <1>6, <1>7 DEF Knows, Submits, Approves, Edits, Places, Reported,
     Submitting, Requesting, Editing, Expiring, Reports
<1>9. QED
  BY <1>1, <1>8, SilentOne DEF ExpireList, Env

LEMMA ExpireReportOne ==
  ASSUME OneQueueProcess, Inv, OneInv, NEW p \in QueueProcs, ExpireReport(p) PROVE OneInv'
<1> DEFINE o == op[p]
<1>1. PICK n \in Unreported(o) : Continue(p, Reporting(o, o.tags, n, "expire"))
  BY DEF ExpireReport
<1> DEFINE x == Reporting(o, o.tags, n, "expire")
<1>2. /\ o \in OpState /\ Good(o, creation) /\ o.pc = "expire" /\ Knows(o, queue, creation, notices, now)
  BY ProcFacts DEF ExpireReport
<1> HIDE DEF o
<1>3. /\ o.tags \in Queues /\ n \in Names /\ n \in o.todo /\ o.todo \subseteq Names /\ o.back = "expire"
      /\ o.tags[n].approved /\ ~o.tags[n].reported
  BY <1>2 DEF OpState, Unreported, Good
<1>4. o.tags[n] = queue[n]
  BY <1>2, <1>3 DEF Knows, Expires
<1>5. /\ x.pc = "reportRead" /\ x.target = n /\ x.tags[n] = o.tags[n] /\ x.back = "expire"
      /\ x.seen = o.seen /\ x.todo = o.todo /\ x.at = o.at
      /\ \A m \in Names : m # n => x.tags[m] = o.tags[m]
  BY <1>2, <1>3, ReportingFields
<1> HIDE DEF x
<1>6. \A m \in o.todo : x.tags[m] = o.tags[m]
  BY <1>3, <1>5
<1>7. Expires(x, queue, now)
  BY <1>2, <1>3, <1>5, <1>6 DEF Knows, Expires
<1>8. Knows(x, queue, creation, notices, now)
  BY <1>2, <1>3, <1>4, <1>5, <1>7 DEF Knows, Submits, Approves, Edits, Places, Reported,
     Submitting, Requesting, Editing, Expiring, Reports
<1>9. QED
  BY <1>1, <1>8, SilentOne DEF ExpireReport, Env, x

LEMMA ExpireRemoveOne ==
  ASSUME OneQueueProcess, Inv, OneInv, NEW p \in QueueProcs, ExpireRemove(p) PROVE OneInv'
<1> DEFINE o == op[p]
           keys == {n \in o.todo : Drops(o.tags[n], o.seen, o.at)}
           q == [n \in Names |-> IF n \in keys THEN NoRecord ELSE queue[n]]
<1>1. /\ UNCHANGED Env /\ o.pc = "expire"
      /\ \/ Continue(p, Idle) /\ UNCHANGED <<queue, faults>>
         \/ WriteTags(p, q, Idle)
  BY DEF ExpireRemove
<1>2. AfterError(p) = Idle
  BY <1>1, ErrorIdle
<1>3. \A n \in Names : q[n] \in {queue[n], NoRecord}
  OBVIOUS
<1> HIDE DEF q
<1>4. CASE Continue(p, Idle) /\ UNCHANGED <<queue, faults>>
  BY <1>1, <1>4, IdleKnows, SilentOne DEF Env
<1>5. CASE WriteTags(p, q, Idle)
  BY <1>1, <1>2, <1>3, <1>5, IdleKnows, DropOne
<1>6. QED
  BY <1>1, <1>4, <1>5

LEMMA PollFailedOne ==
  ASSUME OneQueueProcess, Inv, OneInv, NEW p \in QueueProcs, PollFailed(p) PROVE OneInv'
<1>1. PICK n \in Names :
        /\ Approved(queue, n) /\ ~queue[n].reported
        /\ Continue(p, Reporting(Idle, queue, n, "idle"))
  BY DEF PollFailed
<1> DEFINE x == Reporting(Idle, queue, n, "idle")
<1>2. x.pc = "reportRead" /\ x.target = n /\ x.tags[n] = queue[n] /\ x.back = "idle" /\ x.seen = NoCreations
  BY OneFacts, IdleFields, ReportingFields
<1> HIDE DEF x
<1>3. Past(x.seen, creation)
  BY <1>2, PastNone
<1>4. Knows(x, queue, creation, notices, now)
  BY <1>1, <1>2, <1>3 DEF Knows, Submits, Approves, Edits, Places, Expires, Reported,
     Submitting, Requesting, Editing, Expiring, Reports, Approved
<1>5. QED
  BY <1>1, <1>4, SilentOne DEF PollFailed, Env, x

-----------------------------------------------------------------------------
(* AWS, the clock, and direct creations.                                   *)

LEMMA CreationGoesOn ==
  ASSUME Inv, OneInv, NEW c \in CreateIds, NEW k, GoesOn(creation[c], k, now),
         creation' = [creation EXCEPT ![c] = k], UNCHANGED <<queue, now, op, issued, notices>>
  PROVE  OneInv'
<1>1. Evolves(creation, creation', issued, now)
  BY EvolvesPut
<1>2. \A d \in CreateIds : creation[d] = NoCreation => creation'[d] = NoCreation
  BY EvolvesPut
<1>3. now \in Nat /\ now <= now
  BY OneFacts
<1>4. \A p \in DirectCreators : Direct(op[p])
  BY DEF OneInv
<1>5. QED
  BY <1>1, <1>2, <1>3, <1>4, BesideOne

LEMMA CreationEndsOne == ASSUME Inv, OneInv, NEW c \in CreateIds, CreationEnds(c) PROVE OneInv'
<1>1. PICK s \in {"failed", "unplaced"} :
        creation' = [creation EXCEPT ![c].state = s, ![c].doneAt = now]
  BY DEF CreationEnds
<1> DEFINE k == [creation[c] EXCEPT !.state = s, !.doneAt = now]
<1>2. /\ creation \in Creations /\ creation[c] \in Creation /\ now \in Times
      /\ creation[c] # NoCreation /\ creation[c].state = "creating"
  BY DEF CreationEnds, Inv, TypeOK, Creations
<1>3. creation' = [creation EXCEPT ![c] = k]
  BY <1>1, <1>2 DEF Creations
<1>4. GoesOn(creation[c], k, now)
  BY <1>2 DEF GoesOn, Creation, States
<1> HIDE DEF k
<1>5. QED
  BY <1>3, <1>4, CreationGoesOn DEF CreationEnds

LEMMA AccountClosesOne == ASSUME Inv, OneInv, NEW c \in CreateIds, AccountCloses(c) PROVE OneInv'
<1> DEFINE k == [creation[c] EXCEPT !.state = "closed"]
<1>1. creation[c] \in Creation /\ creation[c] # NoCreation /\ creation[c].state = "placed"
  BY DEF AccountCloses, Inv, TypeOK, Creations
<1>2. creation' = [creation EXCEPT ![c] = k]
  BY DEF AccountCloses
<1>3. GoesOn(creation[c], k, now)
  BY <1>1 DEF GoesOn, Creation, States
<1> HIDE DEF k
<1>4. QED
  BY <1>2, <1>3, CreationGoesOn DEF AccountCloses

LEMMA TickOne == ASSUME Inv, OneInv, Tick PROVE OneInv'
<1>1. now \in Nat /\ now' = now + 1
  BY OneFacts DEF Tick
<1>2. now' \in Nat /\ now <= now'
  BY <1>1
<1>3. \A p \in DirectCreators : Direct(op[p])
  BY DEF OneInv
<1>4. QED
  BY <1>2, <1>3, EvolvesSame, BesideOne DEF Tick

\* A direct creation goes on with o and asks AWS for nothing.
LEMMA DirectOne ==
  ASSUME Inv, OneInv, NEW p \in DirectCreators, NEW o, Direct(o), Continue(p, o),
         UNCHANGED <<queue, creation, now, issued, notices>>
  PROVE  OneInv'
<1>1. op \in [Procs -> OpState] /\ op' = [op EXCEPT ![p] = o] /\ DirectCreators \subseteq Procs
  BY BoundsAssumption DEF Inv, TypeOK, Continue
<1>2. \A r \in DirectCreators : Direct(op'[r])
  BY <1>1 DEF OneInv
<1>3. \A r \in QueueProcs : op'[r] = op[r]
  BY <1>1 DEF QueueProcs
<1>4. now \in Nat /\ now <= now
  BY OneFacts
<1>5. QED
  BY <1>2, <1>3, <1>4, EvolvesSame, BesideOne

LEMMA DirectFacts ==
  ASSUME Inv, OneInv, NEW p \in DirectCreators
  PROVE  p \in Procs /\ op[p] \in OpState /\ Good(op[p], creation) /\ Direct(op[p])
BY OneFacts, BoundsAssumption DEF OneInv

LEMMA IdleDirect == Direct(Idle)
BY IdleFields DEF Direct

LEMMA DirectCreateOne == ASSUME Inv, OneInv, NEW p \in DirectCreators, DirectCreate(p) PROVE OneInv'
<1>1. PICK n \in Names, o \in Owners, b \in Requesters, t \in Terms :
        Continue(p, [Idle EXCEPT !.pc = "list", !.target = n, !.rec = Draft(o, b, t)])
  BY DEF DirectCreate
<1> DEFINE x == [Idle EXCEPT !.pc = "list", !.target = n, !.rec = Draft(o, b, t)]
<1>2. x.pc = "list" /\ x.ref = NoRef /\ x.back = "idle"
  BY IdleFields DEF OpState
<1> HIDE DEF x
<1>3. Direct(x)
  BY <1>2 DEF Direct
<1>4. QED
  BY <1>1, <1>3, DirectOne DEF DirectCreate, Env, x

LEMMA DirectError ==
  ASSUME Inv, OneInv, NEW p \in DirectCreators PROVE AfterError(p) = Idle
BY DirectFacts DEF Direct, AfterError

\* A direct creation is the first of a new journey.
LEMMA DirectAccountOne ==
  ASSUME Inv, OneInv, NEW p \in DirectCreators, CreateAccount(p) PROVE OneInv'
<1> DEFINE o == op[p]
           k(j) == [name |-> o.target, jid |-> j, owner |-> o.rec.owner, by |-> o.rec.by,
                    terms |-> o.rec.terms, approver |-> o.rec.approver, ref |-> o.ref,
                    state |-> "creating", doneAt |-> 0, confirmed |-> FALSE,
                    missed |-> FALSE]
<1>1. o.ref = NoRef /\ AfterError(p) = Idle
  BY DirectFacts, DirectError DEF Direct
<1>2. PICK c \in CreateIds, j \in Journeys :
        /\ creation[c] = NoCreation /\ j \notin issued
        /\ creation' = [creation EXCEPT ![c] = k(j)]
        /\ issued' = issued \cup {j} /\ Continue(p, Idle)
  BY <1>1 DEF CreateAccount
<1>3. UNCHANGED <<queue, now, notices>>
  BY DEF CreateAccount
<1> DEFINE kj == k(j)
<1>4. kj.jid = j /\ kj.state = "creating" /\ ~kj.missed /\ creation' = [creation EXCEPT ![c] = kj]
  BY <1>2
<1> HIDE DEF kj, k, o
<1>5. creation \in Creations /\ now \in Nat /\ now <= now
  BY OneFacts
<1>6. creation'[c] = kj /\ \A d \in CreateIds : d # c => creation'[d] = creation[d]
  BY <1>4, <1>5 DEF Creations
<1>7. Past(creation, creation)
  BY <1>5, PastSame
<1>8. Past(creation, creation')
  BY <1>2, <1>6, <1>7 DEF Past
<1>9. creation[c] = NoCreation /\ j \notin issued
  BY <1>2
<1>17. Lasting(creation')
  BY <1>4, <1>6 DEF Lasting, OneInv
<1>10. Evolves(creation, creation', issued, now)
  BY <1>4, <1>6, <1>8, <1>9, <1>17 DEF Evolves
<1>11. op \in [Procs -> OpState] /\ op' = [op EXCEPT ![p] = Idle] /\ DirectCreators \subseteq Procs
  BY <1>2, BoundsAssumption DEF Inv, TypeOK, Continue
<1>12. \A r \in DirectCreators : Direct(op'[r])
  BY <1>11, IdleDirect DEF OneInv
<1>13. \A r \in QueueProcs : op'[r] = op[r]
  BY <1>11 DEF QueueProcs
<1>14. issued \subseteq issued' /\ j \in issued'
  BY <1>2
<1>15. \A d \in CreateIds :
         creation[d] = NoCreation /\ creation'[d] # NoCreation => creation'[d].jid \in issued'
  BY <1>4, <1>6, <1>14
<1>16. QED
  BY <1>3, <1>5, <1>10, <1>12, <1>13, <1>14, <1>15, BesideOne


LEMMA DirectListOne == ASSUME Inv, OneInv, NEW p \in DirectCreators, RequestList(p) PROVE OneInv'
<1> DEFINE w == [op[p] EXCEPT !.pc = "records"]
           x == [w EXCEPT !.seen = creation]
           y == [w EXCEPT !.seen = creation, !.root = FALSE]
<1>1. Continue(p, x) \/ Continue(p, y)
  BY DEF RequestList, Listed
<1>2. op[p] \in OpState /\ Direct(op[p])
  BY DirectFacts
<1>3. w.pc = "records" /\ w.ref = op[p].ref /\ w.back = op[p].back /\ w \in OpState
  BY <1>2 DEF OpState, Labels
<1> HIDE DEF w
<1>4. /\ x.pc = w.pc /\ x.ref = w.ref /\ x.back = w.back
      /\ y.pc = w.pc /\ y.ref = w.ref /\ y.back = w.back
  BY <1>3 DEF OpState
<1> HIDE DEF x, y
<1>5. Direct(x) /\ Direct(y)
  BY <1>2, <1>3, <1>4 DEF Direct
<1>6. QED
  BY <1>1, <1>5, DirectOne DEF RequestList, Env

LEMMA DirectRecordsOne == ASSUME Inv, OneInv, NEW p \in DirectCreators, RequestRecords(p) PROVE OneInv'
<1> DEFINE x == AfterInventory(op[p], "create")
           C == NameFree(Inventory(op[p]), queue, op[p].target, op[p].rec.jid)
           y == IF C THEN x ELSE Idle
<1>1. Continue(p, y) /\ Miss(op[p]) /\ UNCHANGED <<queue, now, faults, issued, shown, notices>>
  BY DirectError DEF RequestRecords
<1> HIDE DEF C
<1>2. op[p] \in OpState /\ Direct(op[p]) /\ p \in Procs
  BY DirectFacts, BoundsAssumption
<1>3. x.pc = "create" /\ x.ref = op[p].ref /\ x.back = op[p].back
  BY <1>2, AfterInventoryFields DEF Labels
<1> HIDE DEF x
<1>4. Direct(y)
  BY <1>2, <1>3, IdleDirect DEF Direct
<1> HIDE DEF y
<1>5. op \in [Procs -> OpState] /\ op' = [op EXCEPT ![p] = y] /\ DirectCreators \subseteq Procs
  BY <1>1, BoundsAssumption DEF Inv, TypeOK, Continue
<1>6. \A r \in DirectCreators : Direct(op'[r])
  BY <1>4, <1>5 DEF OneInv
<1>7. \A r \in QueueProcs : op'[r] = op[r]
  BY <1>5 DEF QueueProcs
<1>8. /\ Evolves(creation, creation', issued, now)
      /\ \A c \in CreateIds : creation[c] = NoCreation => creation'[c] = NoCreation
  BY <1>1, <1>2, MissEvolves
<1>9. now' \in Nat /\ now <= now' /\ issued \subseteq issued'
  BY <1>1, OneFacts
<1>10. QED
  BY <1>1, <1>6, <1>7, <1>8, <1>9, BesideOne

\* `playplace create` beside the process that works on the queue.
LEMMA DirectStepOne ==
  ASSUME Inv, OneInv, NEW p \in DirectCreators, Proceed(p) \/ CallFails(p) \/ Crash(p)
  PROVE  OneInv'
<1>1. op[p].pc \in {"idle", "list", "records", "create"}
  BY DirectFacts DEF Direct
<1>2. Direct(Idle) /\ AfterError(p) = Idle
  BY IdleDirect, DirectError
<1>3. CASE CallFails(p)
  BY <1>2, <1>3, DirectOne DEF CallFails
<1>4. CASE Crash(p)
  BY <1>2, <1>4, DirectOne DEF Crash
<1>5. CASE Proceed(p)
  <2>1. ~SubmitSteps(p)
    BY <1>1 DEF SubmitSteps, SubmitChecks, SubmitRoom, SubmitReplaced, Enqueue
  <2>2. ~ReportSteps(p)
    BY <1>1 DEF ReportSteps, ReportRead, ReportWrite, Announce
  <2>3. ~EditSteps(p)
    BY <1>1 DEF EditSteps, UpdateList, UpdateChecks, UpdateWrite, RemoveDecided
  <2>4. ~PassSteps(p)
    BY <1>1 DEF PassSteps, Place, DropRead, DropRemove, PollDone, ExpireRead, ExpireList,
       ExpireReport, ExpireRemove
  <2>5. CASE ApproveSteps(p)
    <3>1. RequestList(p) \/ RequestRecords(p) \/ CreateAccount(p)
      BY <1>1, <2>5 DEF ApproveSteps, Claim, ApproveRestore, ApproveConfirm
    <3>2. QED
      BY <3>1, DirectListOne, DirectRecordsOne, DirectAccountOne
  <2>6. CASE OutOfIds(p)
    BY <1>2, <2>6, DirectOne DEF OutOfIds
  <2>7. QED
    BY <1>5, <2>1, <2>2, <2>3, <2>4, <2>5, <2>6 DEF Proceed
<1>6. QED
  BY <1>3, <1>4, <1>5

-----------------------------------------------------------------------------
LEMMA ProceedOne ==
  ASSUME OneQueueProcess, Inv, OneInv, NEW p \in QueueProcs, Proceed(p) PROVE OneInv'
<1>1. CASE SubmitSteps(p)
  BY <1>1, SubmitChecksOne, SubmitRoomOne, SubmitReplacedOne, EnqueueOne DEF SubmitSteps
<1>2. CASE ReportSteps(p)
  BY <1>2, ReportReadOne, ReportWriteOne, AnnounceOne DEF ReportSteps
<1>3. CASE ApproveSteps(p)
  BY <1>3, ClaimOne, RequestListOne, RequestRecordsOne, CreateAccountOne,
     ApproveRestoreOne, ApproveConfirmOne DEF ApproveSteps
<1>4. CASE EditSteps(p)
  BY <1>4, UpdateListOne, UpdateChecksOne, UpdateWriteOne, RemoveDecidedOne DEF EditSteps
<1>5. CASE PassSteps(p)
  BY <1>5, PlaceOne, DropReadOne, DropRemoveOne, PollDoneOne, ExpireReadOne,
     ExpireListOne, ExpireReportOne, ExpireRemoveOne DEF PassSteps
<1>6. CASE OutOfIds(p)
  BY <1>6, OutOfIdsOne
<1>7. QED
  BY <1>1, <1>2, <1>3, <1>4, <1>5, <1>6 DEF Proceed

LEMMA StartOne ==
  ASSUME OneQueueProcess, Inv, OneInv, NEW p \in QueueProcs, Start(p) PROVE OneInv'
BY SubmitOne, ApproveOne, UpdateRequestOne, DenyOrWithdrawOne, RefreshOne,
   PollSucceededOne, PollFailedOne DEF Start

LEMMA InitOne == Init => OneInv
<1> SUFFICES ASSUME Init PROVE OneInv
  OBVIOUS
<1>1. /\ \A n \in Names : queue[n] = NoRecord
      /\ \A c \in CreateIds : creation[c] = NoCreation /\ notices[c] = 0
      /\ \A p \in Procs : op[p] = Idle
  BY DEF Init, EmptyQueue, NoCreations
<1>2. Records(queue, creation, issued, now) /\ Announced(queue, creation, notices)
      /\ OneAccountPerRequest /\ Lasting(creation)
  BY <1>1 DEF Records, Announced, OneAccountPerRequest, Lasting
<1>3. \A p \in QueueProcs : Knows(op[p], queue, creation, notices, now)
  BY <1>1, IdleKnows DEF QueueProcs
<1>4. \A p \in DirectCreators : Direct(op[p])
  BY <1>1, IdleDirect, BoundsAssumption
<1>5. QED
  BY <1>2, <1>3, <1>4 DEF OneInv

LEMMA NextOne == ASSUME OneQueueProcess, Inv, OneInv, [Next]_vars PROVE OneInv'
<1>1. CASE \E p \in Procs \ DirectCreators : Start(p)
  BY <1>1, StartOne DEF QueueProcs
<1>2. CASE \E p \in DirectCreators : DirectCreate(p)
  BY <1>2, DirectCreateOne
<1>3. CASE \E p \in Procs : Proceed(p) \/ CallFails(p) \/ Crash(p)
  <2>1. PICK p \in Procs : Proceed(p) \/ CallFails(p) \/ Crash(p)
    BY <1>3
  <2>2. CASE p \in DirectCreators
    BY <2>1, <2>2, DirectStepOne
  <2>3. CASE p \in QueueProcs
    BY <2>1, <2>3, ProceedOne, CallFailsOne, CrashOne
  <2>4. QED
    BY <2>2, <2>3 DEF QueueProcs
<1>4. CASE \E c \in CreateIds : CreationEnds(c) \/ AccountCloses(c)
  BY <1>4, CreationEndsOne, AccountClosesOne
<1>5. CASE Tick
  BY <1>5, TickOne
<1>6. CASE UNCHANGED vars
  BY <1>6 DEF vars, OneInv, OneAccountPerRequest
<1>7. QED
  BY <1>1, <1>2, <1>3, <1>4, <1>5, <1>6 DEF Next

\* What one process knows under opMu, and what the records then say.
THEOREM OneInvariant == ASSUME OneQueueProcess PROVE Spec => []OneInv
<1>1. OneInv /\ Inv /\ [Next]_vars => OneInv'
  BY NextOne
<1>2. QED
  BY <1>1, InitOne, Invariance, PTL DEF Spec

\* One request never has two creations that AWS did not refuse, also when the
\* reply to the first was lost and the request was approved again
\* (checkNameFree against the live inventory); unless one waited in the root
\* for longer than the grace and an inventory without the root listing lacked it.
THEOREM OneAccountPerRequestHolds == ASSUME OneQueueProcess PROVE Spec => []OneAccountPerRequest
<1>1. OneInv => OneAccountPerRequest
  BY DEF OneInv
<1>2. QED
  BY <1>1, OneInvariant, PTL

\* A failed creation is announced at most once, by whichever of Refresh,
\* PollCreate or a new request under the name comes first, because the flag is
\* on the record before the message is sent (reportCreationFailure).
THEOREM FailureNotifiedOnceHolds == ASSUME OneQueueProcess PROVE Spec => []FailureNotifiedOnce
<1>1. OneInv => FailureNotifiedOnce
  BY DEF OneInv, Announced, FailureNotifiedOnce
<1>2. QED
  BY <1>1, OneInvariant, PTL

-----------------------------------------------------------------------------
(* What may become of a record in a step.                                  *)

Forgotten(n) ==
  /\ Replaced(n) /\ queue[n].approved /\ Failed(creation, queue[n].cid)
  /\ ~queue[n].reported /\ ~Delivered(creation, queue[n].jid)

Due(n) ==
  LET r == queue[n] IN
  IF r.approved
  THEN r.reported \/ now > r.approvedAt + DayLong \/ Delivered(creation, r.jid)
  ELSE \/ now > r.requestedAt + RequestTTL
       \/ \E p \in Procs : op[p].pc = "remove" /\ op[p].ref = Version(n, r)

Lawful ==
  \A n \in Names : ~Forgotten(n) /\ (queue[n] # NoRecord /\ queue'[n] = NoRecord => Due(n))

\* A record written anew for the same journey is still there.
LEMMA RewriteLawful ==
  ASSUME Inv, NEW m \in Names, NEW r \in Record, queue' = [queue EXCEPT ![m] = r],
         queue[m] # NoRecord, r.jid = queue[m].jid
  PROVE  Lawful
<1>1. queue \in Queues /\ r # NoRecord
  BY OneFacts, DistinctAssumption
<1>2. queue'[m] = r /\ \A n \in Names : n # m => queue'[n] = queue[n]
  BY <1>1 DEF Queues
<1>3. QED
  BY <1>1, <1>2 DEF Lawful, Forgotten, Replaced

LEMMA SameLawful == ASSUME queue' = queue PROVE Lawful
BY DEF Lawful, Forgotten, Replaced

\* The new request takes a free key, or that of a record whose failure, if it
\* has one, is reported (reportReplacedFailure).
LEMMA EnqueueLawful ==
  ASSUME Inv, OneInv, NEW p \in QueueProcs, Enqueue(p) PROVE Lawful
<1> DEFINE o == op[p]
<1>1. PICK j \in Journeys : queue' = [queue EXCEPT ![o.target] = [o.rec EXCEPT !.jid = j]]
  BY DEF Enqueue, WriteTags
<1> DEFINE r == [o.rec EXCEPT !.jid = j]
<1>2. o.pc = "enqueue"
  BY DEF Enqueue
<1>3. o \in OpState /\ Good(o, creation) /\ Knows(o, queue, creation, notices, now)
  BY ProcFacts
<1>4. queue' = [queue EXCEPT ![o.target] = r]
  BY <1>1
<1> HIDE DEF o
<1>5. /\ o.rec \in Record /\ o.target \in Names
      /\ queue[o.target] # NoRecord /\ queue[o.target].cid # None
           => queue[o.target].reported \/ creation[queue[o.target].cid].missed
  BY <1>2, <1>3 DEF Good, Writers, Knows, Submits
<1>6. r \in Record
  BY <1>5 DEF Record
<1> HIDE DEF r
<1>7. r # NoRecord /\ queue \in Queues
  BY <1>6, DistinctAssumption, OneFacts
<1>8. queue'[o.target] = r /\ \A n \in Names : n # o.target => queue'[n] = queue[n]
  BY <1>4, <1>5, <1>7 DEF Queues
<1>9. ASSUME queue[o.target] # NoRecord, queue[o.target].approved
      PROVE  ~Failed(creation, queue[o.target].cid) \/ queue[o.target].reported
  <2>1. queue[o.target].cid # None => queue[o.target].cid \in CreateIds
    BY <1>5, <1>7, <1>9 DEF Queues, Record
  <2>2. QED
    BY <1>5, <1>9, <2>1 DEF Failed, OneInv, Lasting
<1>10. QED
  BY <1>7, <1>8, <1>9 DEF Lawful, Forgotten, Replaced

LEMMA ReportWriteLawful ==
  ASSUME Inv, OneInv, NEW p \in QueueProcs, ReportWrite(p) PROVE Lawful
<1> DEFINE o == op[p]
           n == o.target
           r == [o.tags[n] EXCEPT !.reported = TRUE]
<1>1. o.pc = "reportWrite" /\ queue' = [queue EXCEPT ![n] = r]
  BY DEF ReportWrite, WriteTags
<1>2. Good(o, creation) /\ Knows(o, queue, creation, notices, now)
  BY ProcFacts
<1> HIDE DEF o
<1>3. n \in Names /\ o.tags[n] \in Record /\ queue[n] = o.tags[n]
  BY <1>1, <1>2 DEF Good, Reports, Knows, Reported
<1>4. r \in Record /\ r.jid = o.tags[n].jid /\ queue[n] # NoRecord
  BY <1>3, DistinctAssumption DEF Record
<1> HIDE DEF r
<1>5. QED
  BY <1>1, <1>3, <1>4, RewriteLawful

LEMMA ClaimLawful ==
  ASSUME Inv, OneInv, NEW p \in QueueProcs, Claim(p) PROVE Lawful
<1> DEFINE o == op[p]
<1>1. o.pc = "claim" /\ queue' = [queue EXCEPT ![o.target] = o.rec]
  BY DEF Claim, WriteTags
<1>2. Good(o, creation) /\ Knows(o, queue, creation, notices, now)
  BY ProcFacts
<1> HIDE DEF o
<1>3. /\ o.target \in Names /\ o.rec \in Record
      /\ queue[o.target] # NoRecord /\ o.rec.jid = queue[o.target].jid
  BY <1>1, <1>2 DEF Good, Writers, Knows, Approves
<1>4. QED
  BY <1>1, <1>3, RewriteLawful

LEMMA RestoreLawful ==
  ASSUME Inv, OneInv, NEW p \in QueueProcs, ApproveRestore(p) PROVE Lawful
<1> DEFINE o == op[p]
           r == [o.rec EXCEPT !.approved = FALSE, !.approver = None, !.approvedAt = 0]
<1>1. o.pc = "restore" /\ queue' = [queue EXCEPT ![o.target] = r]
  BY DEF ApproveRestore, WriteTags
<1>2. Good(o, creation) /\ Knows(o, queue, creation, notices, now)
  BY ProcFacts
<1> HIDE DEF o
<1>3. /\ o.target \in Names /\ o.rec \in Record
      /\ queue[o.target] # NoRecord /\ o.rec = queue[o.target]
  BY <1>1, <1>2 DEF Good, Writers, Knows, Approves, Requesting
<1>4. r \in Record /\ r.jid = o.rec.jid
  BY <1>3, ZeroTime DEF Record
<1> HIDE DEF r
<1>5. QED
  BY <1>1, <1>3, <1>4, RewriteLawful

LEMMA ConfirmLawful ==
  ASSUME Inv, OneInv, NEW p \in QueueProcs, ApproveConfirm(p) PROVE Lawful
<1> DEFINE o == op[p]
<1>1. o.pc = "confirm" /\ queue' = [queue EXCEPT ![o.target] = o.rec]
  BY DEF ApproveConfirm, WriteTags
<1>2. Good(o, creation) /\ Knows(o, queue, creation, notices, now)
  BY ProcFacts
<1> HIDE DEF o
<1>3. /\ o.target \in Names /\ o.rec \in Record
      /\ queue[o.target] # NoRecord /\ o.rec.jid = queue[o.target].jid
  BY <1>1, <1>2 DEF Good, Writers, Knows, Approves
<1>4. QED
  BY <1>1, <1>3, RewriteLawful

LEMMA UpdateLawful ==
  ASSUME Inv, OneInv, NEW p \in QueueProcs, UpdateWrite(p) PROVE Lawful
<1> DEFINE o == op[p]
<1>1. o.pc = "edit" /\ queue' = [queue EXCEPT ![o.target] = o.rec]
  BY DEF UpdateWrite, WriteTags
<1>2. Good(o, creation) /\ Knows(o, queue, creation, notices, now)
  BY ProcFacts
<1> HIDE DEF o
<1>3. /\ o.target \in Names /\ o.rec \in Record
      /\ queue[o.target] # NoRecord /\ o.rec.jid = queue[o.target].jid
  BY <1>1, <1>2 DEF Good, Writers, Knows, Edits, Editing, Pending
<1>4. QED
  BY <1>1, <1>3, RewriteLawful

\* A decision removes the version that was decided on.
LEMMA RemoveLawful ==
  ASSUME Inv, OneInv, NEW p \in QueueProcs, RemoveDecided(p) PROVE Lawful
<1> DEFINE o == op[p]
<1>1. o.pc = "remove" /\ queue' = [queue EXCEPT ![o.target] = NoRecord]
  BY DEF RemoveDecided, WriteTags
<1>2. Good(o, creation) /\ Knows(o, queue, creation, notices, now) /\ p \in Procs
  BY ProcFacts
<1>3. Pending(queue, o.target) /\ o.ref = Version(o.target, queue[o.target]) /\ o.target \in Names
  BY <1>1, <1>2 DEF Good, Knows, Edits
<1>4. queue'[o.target] = NoRecord /\ \A n \in Names : n # o.target => queue'[n] = queue[n]
  BY <1>1, <1>3, OneFacts DEF Queues
<1>5. Due(o.target)
  BY <1>1, <1>2, <1>3 DEF Due, Pending
<1> HIDE DEF o
<1>6. QED
  BY <1>3, <1>4, <1>5 DEF Lawful, Forgotten, Replaced, Pending

\* The record of an account that was placed.
LEMMA DropLawful ==
  ASSUME Inv, OneInv, NEW p \in QueueProcs, DropRemove(p) PROVE Lawful
<1> DEFINE o == op[p]
           n == o.target
<1>1. o.pc = "dropRemove" /\ queue' = [queue EXCEPT ![n] = NoRecord]
  BY DEF DropRemove, WriteTags
<1>2. Good(o, creation) /\ Knows(o, queue, creation, notices, now)
  BY ProcFacts
<1> HIDE DEF o
<1>3. /\ n \in Names /\ o.cid \in CreateIds
      /\ creation[o.cid] # NoCreation /\ creation[o.cid].state \in {"placed", "closed"}
      /\ Approved(queue, n) /\ queue[n].jid = creation[o.cid].jid
  BY <1>1, <1>2 DEF Good, Knows, Places
<1>4. queue'[n] = NoRecord /\ \A m \in Names : m # n => queue'[m] = queue[m]
  BY <1>1, <1>3, OneFacts DEF Queues
<1>5. Delivered(creation, queue[n].jid)
  BY <1>3 DEF Delivered
<1>6. Due(n)
  BY <1>3, <1>5 DEF Due, Approved
<1>7. QED
  BY <1>4, <1>5, <1>6 DEF Lawful, Forgotten, Replaced

\* expireRequests: what it read of the records and the creations still holds.
LEMMA ExpireLawful ==
  ASSUME Inv, OneInv, NEW p \in QueueProcs, ExpireRemove(p) PROVE Lawful
<1> DEFINE o == op[p]
           Leaves(n) == n \in o.todo /\ Drops(o.tags[n], o.seen, o.at)
<1>1. /\ o.pc = "expire" /\ Unreported(o) = {}
      /\ \A n \in Names : queue'[n] = IF Leaves(n) THEN NoRecord ELSE queue[n]
  BY OneFacts DEF ExpireRemove, WriteTags
<1>2. Good(o, creation) /\ Knows(o, queue, creation, notices, now) /\ o \in OpState
  BY ProcFacts
<1> HIDE DEF o
<1>3. ASSUME NEW n \in Names, Leaves(n)
      PROVE  ~Forgotten(n) /\ Due(n)
  <2> DEFINE r == queue[n]
             c == r.cid
  <2>1. /\ o.tags[n] = r /\ o.at <= now /\ r \in Record
        /\ c # None => o.seen[c] # NoCreation
    BY <1>1, <1>2, <1>3 DEF Good, Knows, Expires
  <2>2. Drops(r, o.seen, o.at) /\ n \in o.todo
    BY <1>3, <2>1
  <2>3. Filed(n, r, creation, issued, now)
    BY <2>1, StateFacts, DistinctAssumption DEF Records
  <2>4. r.approved /\ Failed(o.seen, c) => r.reported
    BY <1>1, <2>1, <2>2 DEF Unreported
  <2>5. Past(o.seen, creation)
    BY <1>2 DEF Knows
  <2>6. o.at \in Nat /\ now \in Nat /\ r.approvedAt \in Nat /\ r.requestedAt \in Nat
    BY <1>2, <2>1, OneFacts, BoundsAssumption DEF OpState, Record, Times
  <2>7. DayLong \in Nat /\ RequestTTL \in Nat
    BY BoundsAssumption
  <2>8. CASE ~r.approved /\ o.at > r.requestedAt + RequestTTL
    <3>1. now > r.requestedAt + RequestTTL
      BY <2>1, <2>6, <2>7, <2>8
    <3>2. QED
      BY <2>8, <3>1 DEF Forgotten, Due
  <2>9. CASE r.approved /\ r.cid = None /\ o.at > r.approvedAt + DayLong
    <3>1. now > r.approvedAt + DayLong
      BY <2>1, <2>6, <2>7, <2>9
    <3>2. QED
      BY <2>9, <3>1 DEF Forgotten, Due, Failed
  <2>10. CASE r.approved /\ r.cid # None /\ o.seen[c].state = "failed"
    <3>1. r.reported
      BY <2>1, <2>4, <2>10 DEF Failed
    <3>2. QED
      BY <2>10, <3>1 DEF Forgotten, Due
  <2>11. CASE /\ r.approved /\ r.cid # None
              /\ o.seen[c].state \in {"unplaced", "placed", "closed"}
              /\ o.at > o.seen[c].doneAt + DayLong
    <3>1. c \in CreateIds /\ o.seen[c] # NoCreation
      BY <2>1, <2>11 DEF Record
    <3>2. o.seen[c].doneAt \in Nat
      BY <1>2, <3>1, BoundsAssumption DEF OpState, Creations, Creation, Times
    <3>3. /\ creation[c].state \in {"unplaced", "placed", "closed"}
          /\ creation[c].doneAt = o.seen[c].doneAt
      BY <2>5, <2>11, <3>1 DEF Past
    <3>4. r.approvedAt <= o.seen[c].doneAt
      BY <2>3, <2>11, <3>3 DEF Filed, LastOf
    <3>5. now > r.approvedAt + DayLong
      BY <2>1, <2>6, <2>7, <2>11, <3>2, <3>4
    <3>6. ~Failed(creation, c)
      BY <3>3 DEF Failed
    <3>7. QED
      BY <2>11, <3>5, <3>6 DEF Forgotten, Due
  <2>12. QED
    BY <2>2, <2>8, <2>9, <2>10, <2>11 DEF Drops
<1> HIDE DEF Leaves
<1>4. QED
  BY <1>1, <1>3 DEF Lawful, Forgotten, Replaced

LEMMA ProceedLawful ==
  ASSUME Inv, OneInv, NEW p \in QueueProcs, Proceed(p) PROVE Lawful
<1>1. CASE SubmitSteps(p)
  <2>1. queue' = queue \/ Enqueue(p)
    BY <1>1 DEF SubmitSteps, SubmitChecks, SubmitRoom, SubmitReplaced
  <2>2. QED
    BY <2>1, SameLawful, EnqueueLawful
<1>2. CASE ReportSteps(p)
  <2>1. queue' = queue \/ ReportWrite(p)
    BY <1>2 DEF ReportSteps, ReportRead, Announce
  <2>2. QED
    BY <2>1, SameLawful, ReportWriteLawful
<1>3. CASE ApproveSteps(p)
  <2>1. queue' = queue \/ Claim(p) \/ ApproveRestore(p) \/ ApproveConfirm(p)
    BY <1>3 DEF ApproveSteps, RequestList, RequestRecords, CreateAccount
  <2>2. QED
    BY <2>1, SameLawful, ClaimLawful, RestoreLawful, ConfirmLawful
<1>4. CASE EditSteps(p)
  <2>1. queue' = queue \/ UpdateWrite(p) \/ RemoveDecided(p)
    BY <1>4 DEF EditSteps, UpdateList, UpdateChecks
  <2>2. QED
    BY <2>1, SameLawful, UpdateLawful, RemoveLawful
<1>5. CASE PassSteps(p)
  <2>1. queue' = queue \/ DropRemove(p) \/ ExpireRemove(p)
    BY <1>5 DEF PassSteps, Place, DropRead, PollDone, ExpireRead, ExpireList, ExpireReport
  <2>2. QED
    BY <2>1, SameLawful, DropLawful, ExpireLawful
<1>6. CASE OutOfIds(p)
  BY <1>6, SameLawful DEF OutOfIds
<1>7. QED
  BY <1>1, <1>2, <1>3, <1>4, <1>5, <1>6 DEF Proceed

\* A direct creation does not touch the queue.
LEMMA DirectLawful ==
  ASSUME Inv, OneInv, NEW p \in DirectCreators, Proceed(p) PROVE queue' = queue
<1>1. op[p].pc \in {"idle", "list", "records", "create"}
  BY DirectFacts DEF Direct
<1>2. CASE SubmitSteps(p)
  BY <1>1, <1>2 DEF SubmitSteps, SubmitChecks, SubmitRoom, SubmitReplaced, Enqueue
<1>3. CASE ReportSteps(p)
  BY <1>1, <1>3 DEF ReportSteps, ReportRead, ReportWrite, Announce
<1>4. CASE ApproveSteps(p)
  BY <1>1, <1>4 DEF ApproveSteps, Claim, RequestList, RequestRecords, CreateAccount,
     ApproveRestore, ApproveConfirm
<1>5. CASE EditSteps(p)
  BY <1>1, <1>5 DEF EditSteps, UpdateList, UpdateChecks, UpdateWrite, RemoveDecided
<1>6. CASE PassSteps(p)
  BY <1>1, <1>6 DEF PassSteps, Place, DropRead, DropRemove, PollDone, ExpireRead, ExpireList,
     ExpireReport, ExpireRemove
<1>7. CASE OutOfIds(p)
  BY <1>7 DEF OutOfIds
<1>8. QED
  BY <1>2, <1>3, <1>4, <1>5, <1>6, <1>7 DEF Proceed

LEMMA NextLawful == Inv /\ OneInv /\ [Next]_vars => Lawful
<1> SUFFICES ASSUME Inv, OneInv, [Next]_vars PROVE Lawful
  OBVIOUS
<1>1. CASE \E p \in Procs \ DirectCreators : Start(p)
  <2>1. queue' = queue
    BY <1>1 DEF Start, Submit, Approve, UpdateRequest, DenyOrWithdraw, Refresh, PollSucceeded,
       PollFailed
  <2>2. QED
    BY <2>1, SameLawful
<1>2. CASE \E p \in DirectCreators : DirectCreate(p)
  <2>1. queue' = queue
    BY <1>2 DEF DirectCreate
  <2>2. QED
    BY <2>1, SameLawful
<1>3. CASE \E p \in Procs : Proceed(p) \/ CallFails(p) \/ Crash(p)
  <2>1. PICK p \in Procs : Proceed(p) \/ CallFails(p) \/ Crash(p)
    BY <1>3
  <2>2. CASE CallFails(p) \/ Crash(p)
    BY <2>2, SameLawful DEF CallFails, Crash
  <2>3. CASE Proceed(p) /\ p \in DirectCreators
    BY <2>3, DirectLawful, SameLawful
  <2>4. CASE Proceed(p) /\ p \in QueueProcs
    BY <2>4, ProceedLawful
  <2>5. QED
    BY <2>1, <2>2, <2>3, <2>4 DEF QueueProcs
<1>4. CASE \E c \in CreateIds : CreationEnds(c) \/ AccountCloses(c)
  BY <1>4, SameLawful DEF CreationEnds, AccountCloses
<1>5. CASE Tick
  BY <1>5, SameLawful DEF Tick
<1>6. CASE UNCHANGED vars
  BY <1>6, SameLawful DEF vars
<1>7. QED
  BY <1>1, <1>2, <1>3, <1>4, <1>5, <1>6 DEF Next

\* No record of a creation known to have failed disappears unreported, also
\* when a new request takes its tag key (reportReplacedFailure) or its
\* retention ends (expireRequests reports before it removes), except that
\* another creation of the same request led to an account in the OU.
THEOREM NoFailureForgottenHolds == ASSUME OneQueueProcess PROVE Spec => NoFailureForgotten
<1> DEFINE Step ==
      \A n \in Names :
        (Replaced(n) /\ queue[n].approved /\ Failed(creation, queue[n].cid))
          => queue[n].reported \/ Delivered(creation, queue[n].jid)
<1>1. Lawful => Step
  BY DEF Lawful, Forgotten
<1>2. Inv /\ OneInv /\ [Next]_vars => Step
  BY <1>1, NextLawful
<1> HIDE DEF Step
<1>3. Spec => [][Step]_vars
  BY <1>2, OneInvariant, Invariance, PTL DEF Spec
<1>4. QED
  BY <1>3 DEF Step, NoFailureForgotten

\* A record leaves the queue only when it is due: a pending one after DropsAt
\* or by a decision on exactly this version, an approved one after its account
\* was placed, after its failure was reported, or a day after the approval.
THEOREM DropsAreDueHolds == ASSUME OneQueueProcess PROVE Spec => DropsAreDue
<1> DEFINE Step == \A n \in Names : (queue[n] # NoRecord /\ queue'[n] = NoRecord) => Due(n)
<1>1. Lawful => Step
  BY DEF Lawful
<1>2. Inv /\ OneInv /\ [Next]_vars => Step
  BY <1>1, NextLawful
<1> HIDE DEF Step
<1>3. Spec => [][Step]_vars
  BY <1>2, OneInvariant, Invariance, PTL DEF Spec
<1>4. QED
  BY <1>3 DEF Step, Due, DropsAreDue

-----------------------------------------------------------------------------
(* The queue of one process implements ApprovalJourney.                    *)

Accepted(j, s) == \E c \in CreateIds : s[c] # NoCreation /\ s[c].jid = j /\ s[c].state # "failed"
Waits(j, q) == \E n \in Names : Pending(q, n) /\ q[n].jid = j
Claims(j, q) == \E n \in Names : Approved(q, n) /\ q[n].jid = j

\* Where journey j stands; JourneyState with the state as its arguments.
Stands(j, q, s, i) ==
  IF Accepted(j, s) THEN "accepted"
  ELSE IF Waits(j, q) THEN "waiting"
  ELSE IF Claims(j, q) THEN "claimed"
  ELSE IF j \in i THEN "over" ELSE "unused"

Before(j) == Stands(j, queue, creation, issued)
After(j) == Stands(j, queue', creation', issued')

\* The journeys, a step of them, and a step that leaves all but those in J.
Journey == [j \in Journeys |-> JourneyState(j)]
Moves == Abstract!Next \/ Journey' = Journey
Only(J) == \A i \in Journeys \ J : After(i) = Before(i)

LEMMA JourneyIs ==
  /\ Journey = [j \in Journeys |-> Before(j)]
  /\ Journey' = [j \in Journeys |-> After(j)]
BY DEF Journey, Before, After, Stands, Accepted, Waits, Claims, JourneyState

LEMMA StaysMoves == ASSUME Only({}) PROVE Moves
<1>1. Journey' = Journey
  BY JourneyIs, Zenon DEF Only
<1>2. QED
  BY <1>1 DEF Moves

LEMMA QueueMoves ==
  ASSUME NEW j \in Journeys, Before(j) = "unused", After(j) = "waiting", Only({j})
  PROVE  Moves
<1>1. Abstract!Queue(j)
  BY JourneyIs DEF Abstract!Queue, Abstract!Becomes, Journey, Only
<1>2. QED
  BY <1>1 DEF Moves, Abstract!Next

\* The new request takes the key of a claimed one.
LEMMA QueueOverMoves ==
  ASSUME NEW j \in Journeys, NEW i \in Journeys, Before(j) = "unused", After(j) = "waiting",
         Before(i) = "claimed", After(i) = "over", Only({i, j})
  PROVE  Moves
<1>1. Journey[j] = "unused" /\ Journey[i] = "claimed" /\ i # j
  BY JourneyIs
<1>2. Journey' = [[j2 \in Journeys |-> Journey[j2]] EXCEPT ![j] = "waiting", ![i] = "over"]
  BY JourneyIs, <1>1 DEF Only
<1>3. Journey' = [Journey EXCEPT ![j] = "waiting", ![i] = "over"]
  BY <1>2 DEF Journey
<1>4. Abstract!Queue(j)
  BY <1>1, <1>3 DEF Abstract!Queue, Abstract!In, Journey
<1>5. QED
  BY <1>4 DEF Moves, Abstract!Next

LEMMA ClaimMoves ==
  ASSUME NEW j \in Journeys, Before(j) = "waiting", After(j) = "claimed", Only({j})
  PROVE  Moves
<1>1. Abstract!Claim(j)
  BY JourneyIs DEF Abstract!Claim, Abstract!Becomes, Journey, Only
<1>2. QED
  BY <1>1 DEF Moves, Abstract!Next

LEMMA GiveBackMoves ==
  ASSUME NEW j \in Journeys, Before(j) = "claimed", After(j) = "waiting", Only({j})
  PROVE  Moves
<1>1. Abstract!GiveBack(j)
  BY JourneyIs DEF Abstract!GiveBack, Abstract!Becomes, Journey, Only
<1>2. QED
  BY <1>1 DEF Moves, Abstract!Next

LEMMA AcceptMoves ==
  ASSUME NEW j \in Journeys, Before(j) \in {"claimed", "unused"}, After(j) = "accepted", Only({j})
  PROVE  Moves
<1>1. Abstract!Accept(j)
  BY JourneyIs DEF Abstract!Accept, Abstract!Becomes, Journey, Only
<1>2. QED
  BY <1>1 DEF Moves, Abstract!Next

LEMMA FailMoves ==
  ASSUME NEW j \in Journeys, Before(j) = "accepted", After(j) \in {"claimed", "waiting", "over"},
         Only({j})
  PROVE  Moves
<1>1. Abstract!Fail(j)
  BY JourneyIs DEF Abstract!Fail, Abstract!Becomes, Journey, Only
<1>2. QED
  BY <1>1 DEF Moves, Abstract!Next

LEMMA EndMoves ==
  ASSUME NEW J \in SUBSET Journeys,
         \A j \in J : Before(j) \in {"waiting", "claimed"} /\ After(j) = "over",
         Only(J)
  PROVE  Moves
<1>1. CASE J = {}
  BY <1>1, StaysMoves
<1>2. CASE J # {}
  <2>1. Abstract!End(J)
    BY <1>2, JourneyIs DEF Abstract!End, Abstract!Becomes, Abstract!In, Journey, Only
  <2>2. QED
    BY <2>1 DEF Moves, Abstract!Next
<1>3. QED
  BY <1>1, <1>2

\* One record per journey.
Sole(q) == \A m, n \in Names : q[m] # NoRecord /\ q[n] # NoRecord /\ q[m].jid = q[n].jid => m = n

LEMMA SoleFacts ==
  ASSUME Inv, OneInv
  PROVE  /\ Sole(queue)
         /\ \A n \in Names : queue[n] # NoRecord => queue[n].jid \in issued /\ queue[n].jid \in Journeys
         /\ \A c \in CreateIds : creation[c] # NoCreation => creation[c].jid \in issued
BY OneFacts DEF OneInv, Records, Filed, Sole

LEMMA SoleAfter == ASSUME OneInv' PROVE Sole(queue')
BY DEF OneInv, Records, Sole

\* What the only record of a journey says of it.
LEMMA RecordStands ==
  ASSUME NEW q, Sole(q), NEW m \in Names, q[m] # NoRecord
  PROVE  /\ Waits(q[m].jid, q) <=> ~q[m].approved
         /\ Claims(q[m].jid, q) <=> (q[m].approved = TRUE)
BY Zenon DEF Sole, Waits, Claims, Pending, Approved

LEMMA NoRecordStands ==
  ASSUME NEW q, NEW j, \A n \in Names : q[n] # NoRecord => q[n].jid # j
  PROVE  ~Waits(j, q) /\ ~Claims(j, q)
BY Zenon DEF Waits, Claims, Pending, Approved

\* Records of other journeys do not matter.
LEMMA BesideStands ==
  ASSUME NEW q, NEW x, NEW j, NEW m,
         \A n \in Names : n # m => x[n] = q[n],
         q[m] # NoRecord => q[m].jid # j,
         x[m] # NoRecord => x[m].jid # j
  PROVE  (Waits(j, x) <=> Waits(j, q)) /\ (Claims(j, x) <=> Claims(j, q))
BY Zenon DEF Waits, Claims, Pending, Approved

LEMMA SameStands ==
  ASSUME NEW j, Accepted(j, creation') <=> Accepted(j, creation),
         Waits(j, queue') <=> Waits(j, queue), Claims(j, queue') <=> Claims(j, queue),
         j \in issued' <=> j \in issued
  PROVE  After(j) = Before(j)
BY DEF After, Before, Stands

LEMMA PutFacts ==
  ASSUME Inv, NEW m \in Names, NEW r \in Record, queue' = [queue EXCEPT ![m] = r]
  PROVE  queue'[m] = r /\ r # NoRecord /\ \A n \in Names : n # m => queue'[n] = queue[n]
BY OneFacts, DistinctAssumption DEF Queues

\* The record under m is written anew: only its own journey may move.
LEMMA AgainMoves ==
  ASSUME Inv, OneInv, NEW m \in Names, NEW r \in Record, queue' = [queue EXCEPT ![m] = r],
         queue[m] # NoRecord, r.jid = queue[m].jid, UNCHANGED issued,
         \A j \in Journeys : Accepted(j, creation') <=> Accepted(j, creation)
  PROVE  Only({r.jid})
<1>1. /\ queue'[m] = r /\ r # NoRecord
      /\ \A n \in Names : n # m => queue'[n] = queue[n]
  BY PutFacts
<1>2. ASSUME NEW j \in Journeys \ {r.jid} PROVE After(j) = Before(j)
  <2>1. (Waits(j, queue') <=> Waits(j, queue)) /\ (Claims(j, queue') <=> Claims(j, queue))
    BY <1>1, BesideStands
  <2>2. QED
    BY <2>1, SameStands
<1>3. QED
  BY <1>2 DEF Only

\* ... and it moves only when the record is claimed or given back.
LEMMA RewriteMoves ==
  ASSUME Inv, OneInv, OneInv', NEW m \in Names, NEW r \in Record, queue' = [queue EXCEPT ![m] = r],
         queue[m] # NoRecord, r.jid = queue[m].jid, r.approved = queue[m].approved, UNCHANGED issued,
         \A j \in Journeys : Accepted(j, creation') <=> Accepted(j, creation)
  PROVE  Moves
<1>1. queue'[m] = r /\ r # NoRecord /\ Sole(queue) /\ Sole(queue') /\ r.jid \in Journeys
  BY PutFacts, SoleFacts, SoleAfter
<1>2. /\ Waits(r.jid, queue) <=> ~queue[m].approved
      /\ Claims(r.jid, queue) <=> (queue[m].approved = TRUE)
  BY <1>1, RecordStands
<1>3. /\ Waits(r.jid, queue') <=> ~r.approved
      /\ Claims(r.jid, queue') <=> (r.approved = TRUE)
  <2>1. /\ Waits(queue'[m].jid, queue') <=> ~queue'[m].approved
        /\ Claims(queue'[m].jid, queue') <=> (queue'[m].approved = TRUE)
    BY <1>1, RecordStands
  <2>2. QED
    BY <1>1, <2>1
<1>4. After(r.jid) = Before(r.jid)
  BY <1>1, <1>2, <1>3, SameStands
<1>5. Only({r.jid})
  BY AgainMoves
<1>6. Only({})
  BY <1>4, <1>5 DEF Only
<1>7. QED
  BY <1>6, StaysMoves

\* Nothing happens to the queue and to what AWS accepted.
LEMMA QuietMoves ==
  ASSUME UNCHANGED <<queue, issued>>,
         \A j \in Journeys : Accepted(j, creation') <=> Accepted(j, creation)
  PROVE  Moves
<1>1. \A j \in Journeys : After(j) = Before(j)
  BY SameStands
<1>2. QED
  BY <1>1, StaysMoves DEF Only

\* Records leave: the journeys AWS did not accept are over.
LEMMA DropMoves ==
  ASSUME Inv, OneInv, \A n \in Names : queue'[n] \in {queue[n], NoRecord},
         UNCHANGED <<creation, issued>>
  PROVE  Moves
<1> DEFINE Leaves(j) == \E n \in Names : queue[n] # NoRecord /\ queue[n].jid = j /\ queue'[n] = NoRecord
           J == {j \in Journeys : Leaves(j) /\ ~Accepted(j, creation)}
<1>1. Sole(queue) /\ \A n \in Names : queue[n] # NoRecord => queue[n].jid \in issued
  BY SoleFacts
<1>2. ASSUME NEW j \in J PROVE Before(j) \in {"waiting", "claimed"} /\ After(j) = "over"
  <2>1. PICK n \in Names : queue[n] # NoRecord /\ queue[n].jid = j /\ queue'[n] = NoRecord
    BY <1>2
  <2>2. Waits(j, queue) \/ Claims(j, queue)
    BY <2>1 DEF Waits, Claims, Pending, Approved
  <2>3. \A m \in Names : queue'[m] # NoRecord => queue'[m].jid # j
    BY <1>1, <2>1 DEF Sole
  <2>4. ~Waits(j, queue') /\ ~Claims(j, queue')
    BY <2>3, NoRecordStands
  <2>5. j \in issued /\ ~Accepted(j, creation)
    BY <1>1, <1>2, <2>1
  <2>6. QED
    BY <2>2, <2>4, <2>5 DEF Before, After, Stands
<1>3. ASSUME NEW j \in Journeys \ J PROVE After(j) = Before(j)
  <2>1. CASE Accepted(j, creation)
    BY <2>1 DEF After, Before, Stands
  <2>2. CASE ~Leaves(j)
    <3>1. \A n \in Names : queue[n] # NoRecord /\ queue[n].jid = j => queue'[n] = queue[n]
      BY <2>2
    <3>2. \A n \in Names : queue'[n] # NoRecord => queue'[n] = queue[n]
      OBVIOUS
    <3>3. Waits(j, queue') <=> Waits(j, queue)
      BY <3>1, <3>2, Zenon DEF Waits, Pending
    <3>4. Claims(j, queue') <=> Claims(j, queue)
      BY <3>1, <3>2, Zenon DEF Claims, Approved
    <3>5. QED
      BY <3>3, <3>4, SameStands
  <2>3. QED
    BY <1>3, <2>1, <2>2
<1> HIDE DEF Leaves
<1>4. J \in SUBSET Journeys
  OBVIOUS
<1> HIDE DEF J
<1>5. QED
  BY <1>2, <1>3, <1>4, EndMoves DEF Only

-----------------------------------------------------------------------------
(* What each step does to the journeys.                                    *)

\* Another state of creation c that is as much of an account as the last one.
LEMMA AcceptedSame ==
  ASSUME Inv, NEW c \in CreateIds, creation[c] # NoCreation, NEW k \in Creation,
         creation' = [creation EXCEPT ![c] = k], k.jid = creation[c].jid,
         k.state = "failed" <=> creation[c].state = "failed"
  PROVE  \A j \in Journeys : Accepted(j, creation') <=> Accepted(j, creation)
<1>1. creation'[c] = k /\ k # NoCreation /\ \A d \in CreateIds : d # c => creation'[d] = creation[d]
  BY OneFacts, DistinctAssumption DEF Creations
<1>2. QED
  BY <1>1 DEF Accepted

\* What an inventory marks of the creations it lacks is of no account here.
LEMMA MissSame ==
  ASSUME Inv, NEW p \in Procs, Miss(op[p]), NEW c \in CreateIds
  PROVE  /\ creation'[c] = NoCreation <=> creation[c] = NoCreation
         /\ ~Overlooks(op[p], c) => creation'[c] = creation[c]
         /\ Overlooks(op[p], c) => creation[c] # NoCreation /\ creation'[c].missed
         /\ creation[c] # NoCreation =>
              /\ creation'[c].jid = creation[c].jid /\ creation'[c].name = creation[c].name
              /\ creation'[c].owner = creation[c].owner /\ creation'[c].state = creation[c].state
              /\ creation'[c].doneAt = creation[c].doneAt
              /\ creation'[c].confirmed = creation[c].confirmed
<1> DEFINE o == op[p]
           u == creation'[c]
           k == [creation[c] EXCEPT !.missed = TRUE]
<1>1. creation \in Creations /\ Good(o, creation)
  BY OneFacts
<1>2. u = IF Overlooks(o, c) THEN k ELSE creation[c]
  BY DEF Miss
<1> HIDE DEF u
<1>3. CASE Overlooks(o, c)
  <2>1. creation[c] # NoCreation
    BY <1>1, <1>3 DEF Overlooks, Hidden, Good
  <2>2. creation[c] \in Creation
    BY <1>1, <2>1 DEF Creations
  <2>3. k \in Creation
    BY <2>2 DEF Creation
  <2>4. u # NoCreation
    BY <1>2, <1>3, <2>3, DistinctAssumption
  <2>5. /\ u.jid = creation[c].jid /\ u.name = creation[c].name /\ u.owner = creation[c].owner
        /\ u.state = creation[c].state /\ u.doneAt = creation[c].doneAt
        /\ u.confirmed = creation[c].confirmed /\ u.missed
    BY <1>2, <1>3, <2>2 DEF Creation
  <2>6. QED
    BY <1>3, <2>1, <2>4, <2>5 DEF u, o
<1>4. CASE ~Overlooks(o, c)
  BY <1>2, <1>4 DEF u, o
<1>5. QED
  BY <1>3, <1>4

LEMMA MissMoves ==
  ASSUME Inv, NEW p \in Procs, Miss(op[p]), UNCHANGED <<queue, issued>> PROVE Moves
<1>1. \A c \in CreateIds :
        /\ creation'[c] = NoCreation <=> creation[c] = NoCreation
        /\ creation[c] # NoCreation => creation'[c].jid = creation[c].jid
                                       /\ creation'[c].state = creation[c].state
  BY MissSame
<1>2. \A j \in Journeys : Accepted(j, creation') <=> Accepted(j, creation)
  BY <1>1, Zenon DEF Accepted
<1>3. QED
  BY <1>2, QuietMoves

LEMMA EnqueueMoves ==
  ASSUME Inv, OneInv, OneInv', NEW p \in QueueProcs, Enqueue(p) PROVE Moves
<1> DEFINE o == op[p]
           m == o.target
<1>1. PICK j \in Journeys \ issued :
        queue' = [queue EXCEPT ![m] = [o.rec EXCEPT !.jid = j]] /\ issued' = issued \cup {j}
  BY DEF Enqueue, WriteTags
<1> DEFINE r == [o.rec EXCEPT !.jid = j]
<1>2. o.pc = "enqueue" /\ UNCHANGED creation
  BY DEF Enqueue
<1>3. Good(o, creation) /\ Knows(o, queue, creation, notices, now)
  BY ProcFacts
<1>4. queue' = [queue EXCEPT ![m] = r]
  BY <1>1
<1> HIDE DEF o
<1>5. /\ o.rec \in Record /\ m \in Names /\ Takes(m, queue, creation)
      /\ ~o.rec.approved
  BY <1>2, <1>3 DEF Good, Writers, Knows, Submits, Submitting, Unclaimed
<1>6. r \in Record /\ r.jid = j /\ ~r.approved
  BY <1>5 DEF Record
<1> HIDE DEF r, m
<1>7. queue'[m] = r /\ r # NoRecord /\ \A n \in Names : n # m => queue'[n] = queue[n]
  BY <1>4, <1>5, <1>6, PutFacts
<1>8. /\ Sole(queue) /\ Sole(queue')
      /\ \A n \in Names : queue[n] # NoRecord => queue[n].jid \in issued /\ queue[n].jid \in Journeys
      /\ \A c \in CreateIds : creation[c] # NoCreation => creation[c].jid \in issued
  BY SoleFacts, SoleAfter
<1>9. Before(j) = "unused"
  <2>1. ~Waits(j, queue) /\ ~Claims(j, queue)
    BY <1>8, NoRecordStands
  <2>2. ~Accepted(j, creation)
    BY <1>8 DEF Accepted
  <2>3. QED
    BY <2>1, <2>2 DEF Before, Stands
<1>10. After(j) = "waiting"
  <2>1. Waits(queue'[m].jid, queue')
    BY <1>5, <1>6, <1>7, <1>8, RecordStands
  <2>2. Waits(j, queue')
    BY <1>6, <1>7, <2>1
  <2>3. ~Accepted(j, creation')
    BY <1>2, <1>8 DEF Accepted
  <2>4. QED
    BY <2>2, <2>3 DEF After, Stands
<1>11. ASSUME NEW i \in Journeys \ {j}, queue[m] # NoRecord => queue[m].jid # i
       PROVE  After(i) = Before(i)
  <2>1. (Waits(i, queue') <=> Waits(i, queue)) /\ (Claims(i, queue') <=> Claims(i, queue))
    BY <1>6, <1>7, <1>11, BesideStands
  <2>2. QED
    BY <1>1, <1>2, <2>1, SameStands
<1>12. CASE queue[m] = NoRecord
  BY <1>9, <1>10, <1>11, <1>12, QueueMoves DEF Only
<1>13. CASE queue[m] # NoRecord /\ Accepted(queue[m].jid, creation)
  <2> DEFINE i == queue[m].jid
  <2>1. After(i) = Before(i)
    BY <1>2, <1>13 DEF After, Before, Stands
  <2>2. Only({j})
    BY <1>11, <2>1 DEF Only
  <2>3. QED
    BY <1>9, <1>10, <2>2, QueueMoves
<1>14. CASE queue[m] # NoRecord /\ ~Accepted(queue[m].jid, creation)
  <2> DEFINE i == queue[m].jid
  <2>1. i \in issued /\ i \in Journeys /\ queue[m].approved /\ ~Accepted(i, creation)
    BY <1>5, <1>8, <1>14 DEF Takes
  <2>2. ~Waits(i, queue) /\ Claims(i, queue)
    BY <1>5, <1>8, <1>14, <2>1, RecordStands
  <2>3. Before(i) = "claimed"
    BY <2>1, <2>2 DEF Before, Stands
  <2>4. \A n \in Names : queue'[n] # NoRecord => queue'[n].jid # i
    BY <1>1, <1>5, <1>6, <1>7, <1>8, <1>14, <2>1 DEF Sole
  <2>5. ~Waits(i, queue') /\ ~Claims(i, queue')
    BY <2>4, NoRecordStands
  <2>6. After(i) = "over"
    BY <1>1, <1>2, <2>1, <2>5 DEF After, Stands
  <2>7. Only({i, j})
    BY <1>11 DEF Only
  <2> HIDE DEF i
  <2>8. QED
    BY <1>9, <1>10, <2>1, <2>3, <2>6, <2>7, QueueOverMoves
<1>15. QED
  BY <1>12, <1>13, <1>14

LEMMA ReportWriteMoves ==
  ASSUME Inv, OneInv, OneInv', NEW p \in QueueProcs, ReportWrite(p) PROVE Moves
<1> DEFINE o == op[p]
           n == o.target
           r == [o.tags[n] EXCEPT !.reported = TRUE]
<1>1. o.pc = "reportWrite" /\ queue' = [queue EXCEPT ![n] = r] /\ UNCHANGED <<creation, issued>>
  BY DEF ReportWrite, WriteTags, Env
<1>2. Good(o, creation) /\ Knows(o, queue, creation, notices, now)
  BY ProcFacts
<1> HIDE DEF o
<1>3. n \in Names /\ o.tags[n] \in Record /\ queue[n] = o.tags[n]
  BY <1>1, <1>2 DEF Good, Reports, Knows, Reported
<1>4. r \in Record /\ r.jid = o.tags[n].jid /\ r.approved = o.tags[n].approved /\ queue[n] # NoRecord
  BY <1>3, DistinctAssumption DEF Record
<1> HIDE DEF r
<1>5. QED
  BY <1>1, <1>3, <1>4, RewriteMoves

LEMMA UpdateMoves ==
  ASSUME Inv, OneInv, OneInv', NEW p \in QueueProcs, UpdateWrite(p) PROVE Moves
<1> DEFINE o == op[p]
           n == o.target
<1>1. o.pc = "edit" /\ queue' = [queue EXCEPT ![n] = o.rec] /\ UNCHANGED <<creation, issued>>
  BY DEF UpdateWrite, WriteTags
<1>2. Good(o, creation) /\ Knows(o, queue, creation, notices, now)
  BY ProcFacts
<1> HIDE DEF o
<1>3. /\ n \in Names /\ o.rec \in Record /\ queue[n] # NoRecord /\ o.rec.jid = queue[n].jid
      /\ ~queue[n].approved /\ ~o.rec.approved
  BY <1>1, <1>2 DEF Good, Writers, Knows, Edits, Editing, Pending, Unclaimed
<1>4. queue[n] \in Record
  BY <1>3, OneFacts DEF Queues
<1>5. o.rec.approved = queue[n].approved
  BY <1>3, <1>4 DEF Record
<1>6. QED
  BY <1>1, <1>3, <1>5, RewriteMoves

LEMMA ConfirmMoves ==
  ASSUME Inv, OneInv, OneInv', NEW p \in QueueProcs, ApproveConfirm(p) PROVE Moves
<1> DEFINE o == op[p]
           n == o.target
<1>1. /\ o.pc = "confirm" /\ queue' = [queue EXCEPT ![n] = o.rec] /\ UNCHANGED issued
      /\ creation' = [creation EXCEPT ![o.cid].confirmed = TRUE]
  BY DEF ApproveConfirm, WriteTags
<1>2. Good(o, creation) /\ Knows(o, queue, creation, notices, now)
  BY ProcFacts
<1> HIDE DEF o
<1>3. /\ n \in Names /\ o.rec \in Record /\ queue[n] # NoRecord /\ o.rec.jid = queue[n].jid
      /\ queue[n].approved /\ o.rec.approved /\ o.cid \in CreateIds
  BY <1>1, <1>2 DEF Good, Writers, Knows, Approves, Claimed, LastOf
<1>4. queue[n] \in Record
  BY <1>3, OneFacts DEF Queues
<1>5. o.rec.approved = queue[n].approved
  BY <1>3, <1>4 DEF Record
<1>6. creation[o.cid] \in Creation /\ creation[o.cid] # NoCreation
  BY <1>1, <1>2, <1>3, OneFacts DEF Good, Creations
<1> DEFINE k == [creation[o.cid] EXCEPT !.confirmed = TRUE]
<1>7. /\ creation' = [creation EXCEPT ![o.cid] = k]
      /\ k \in Creation /\ k.jid = creation[o.cid].jid /\ k.state = creation[o.cid].state
  BY <1>1, <1>6 DEF Creation
<1> HIDE DEF k
<1>8. \A j \in Journeys : Accepted(j, creation') <=> Accepted(j, creation)
  BY <1>3, <1>6, <1>7, AcceptedSame
<1>9. QED
  BY <1>1, <1>3, <1>5, <1>8, RewriteMoves

LEMMA ClaimStepMoves ==
  ASSUME Inv, OneInv, OneInv', NEW p \in QueueProcs, Claim(p) PROVE Moves
<1> DEFINE o == op[p]
           n == o.target
           j == o.rec.jid
<1>1. o.pc = "claim" /\ queue' = [queue EXCEPT ![n] = o.rec] /\ UNCHANGED <<creation, issued>>
  BY DEF Claim, WriteTags, Env
<1>2. Good(o, creation) /\ Knows(o, queue, creation, notices, now)
  BY ProcFacts
<1> HIDE DEF o
<1>3. /\ n \in Names /\ o.rec \in Record /\ queue[n] # NoRecord /\ j = queue[n].jid
      /\ ~queue[n].approved /\ o.rec.approved
  BY <1>1, <1>2 DEF Good, Writers, Knows, Approves, Claimed
<1>4. queue'[n] = o.rec /\ o.rec # NoRecord /\ Sole(queue) /\ Sole(queue') /\ j \in Journeys
  BY <1>1, <1>3, PutFacts, SoleFacts, SoleAfter
<1>5. Waits(queue[n].jid, queue) /\ ~Waits(queue'[n].jid, queue') /\ Claims(queue'[n].jid, queue')
  BY <1>3, <1>4, RecordStands
<1>6. Waits(j, queue) /\ ~Waits(j, queue') /\ Claims(j, queue')
  BY <1>3, <1>4, <1>5
<1>7. Only({j})
  BY <1>1, <1>3, AgainMoves
<1> HIDE DEF j
<1>8. CASE Accepted(j, creation)
  <2>1. After(j) = Before(j)
    BY <1>1, <1>8 DEF After, Before, Stands
  <2>2. QED
    BY <1>7, <2>1, StaysMoves DEF Only
<1>9. CASE ~Accepted(j, creation)
  <2>1. Before(j) = "waiting" /\ After(j) = "claimed"
    BY <1>1, <1>6, <1>9 DEF After, Before, Stands
  <2>2. QED
    BY <1>4, <1>7, <2>1, ClaimMoves
<1>10. QED
  BY <1>8, <1>9

LEMMA RestoreMoves ==
  ASSUME Inv, OneInv, OneInv', NEW p \in QueueProcs, ApproveRestore(p) PROVE Moves
<1> DEFINE o == op[p]
           n == o.target
           r == [o.rec EXCEPT !.approved = FALSE, !.approver = None, !.approvedAt = 0]
           j == r.jid
<1>1. o.pc = "restore" /\ queue' = [queue EXCEPT ![n] = r] /\ UNCHANGED <<creation, issued>>
  BY DEF ApproveRestore, WriteTags, Env
<1>2. Good(o, creation) /\ Knows(o, queue, creation, notices, now)
  BY ProcFacts
<1> HIDE DEF o
<1>3. /\ n \in Names /\ o.rec \in Record /\ queue[n] # NoRecord /\ o.rec = queue[n]
      /\ queue[n].approved
  BY <1>1, <1>2 DEF Good, Writers, Knows, Approves, Requesting, Claimed
<1>4. r \in Record /\ j = queue[n].jid /\ ~r.approved
  BY <1>3, ZeroTime DEF Record
<1> HIDE DEF r
<1>5. queue'[n] = r /\ r # NoRecord /\ Sole(queue) /\ Sole(queue') /\ j \in Journeys
  BY <1>1, <1>3, <1>4, PutFacts, SoleFacts, SoleAfter
<1>6. ~Waits(queue[n].jid, queue) /\ Claims(queue[n].jid, queue) /\ Waits(queue'[n].jid, queue')
  BY <1>3, <1>4, <1>5, RecordStands
<1>7. ~Waits(j, queue) /\ Claims(j, queue) /\ Waits(j, queue')
  BY <1>4, <1>5, <1>6
<1>8. Only({j})
  BY <1>1, <1>3, <1>4, AgainMoves
<1> HIDE DEF j
<1>9. CASE Accepted(j, creation)
  <2>1. After(j) = Before(j)
    BY <1>1, <1>9 DEF After, Before, Stands
  <2>2. QED
    BY <1>8, <2>1, StaysMoves DEF Only
<1>10. CASE ~Accepted(j, creation)
  <2>1. Before(j) = "claimed" /\ After(j) = "waiting"
    BY <1>1, <1>7, <1>10 DEF After, Before, Stands
  <2>2. QED
    BY <1>5, <1>8, <2>1, GiveBackMoves
<1>11. QED
  BY <1>9, <1>10

\* AWS accepts the creation k of a journey, perhaps beside one that is missing.
LEMMA CreatedMoves ==
  ASSUME Inv, NEW c \in CreateIds, creation[c] = NoCreation, NEW k \in Creation,
         creation' = [creation EXCEPT ![c] = k], k.state = "creating",
         issued' = issued \cup {k.jid}, UNCHANGED queue,
         Before(k.jid) \in {"claimed", "unused", "accepted"}
  PROVE  Moves
<1> DEFINE j == k.jid
<1>1. creation'[c] = k /\ k # NoCreation /\ \A d \in CreateIds : d # c => creation'[d] = creation[d]
  BY OneFacts, DistinctAssumption DEF Creations
<1>2. j \in Journeys
  BY DEF Creation
<1>3. After(j) = "accepted"
  <2>1. Accepted(j, creation')
    BY <1>1 DEF Accepted
  <2>2. QED
    BY <2>1 DEF After, Stands
<1>4. ASSUME NEW i \in Journeys \ {j} PROVE After(i) = Before(i)
  <2>1. Accepted(i, creation') <=> Accepted(i, creation)
    BY <1>1, <1>4 DEF Accepted
  <2>2. QED
    BY <1>4, <2>1, SameStands
<1>5. Only({j})
  BY <1>4 DEF Only
<1> HIDE DEF j
<1>6. Before(j) \in {"claimed", "unused"} \/ Before(j) = "accepted"
  BY DEF j
<1>7. CASE Before(j) \in {"claimed", "unused"}
  BY <1>2, <1>3, <1>5, <1>7, AcceptMoves
<1>8. CASE Before(j) = "accepted"
  <2>1. Only({})
    BY <1>3, <1>5, <1>8 DEF Only
  <2>2. QED
    BY <2>1, StaysMoves
<1>9. QED
  BY <1>6, <1>7, <1>8

LEMMA CreateMoves ==
  ASSUME Inv, OneInv, NEW p \in Procs, CreateAccount(p) PROVE Moves
<1> DEFINE o == op[p]
           k(j) == [name |-> o.target, jid |-> j, owner |-> o.rec.owner, by |-> o.rec.by,
                    terms |-> o.rec.terms, approver |-> o.rec.approver, ref |-> o.ref,
                    state |-> "creating", doneAt |-> 0, confirmed |-> FALSE,
                    missed |-> FALSE]
<1>1. PICK c \in CreateIds, j \in Journeys :
        /\ creation[c] = NoCreation
        /\ IF o.ref = NoRef THEN j \notin issued ELSE j = o.rec.jid
        /\ creation' = [creation EXCEPT ![c] = k(j)] /\ issued' = issued \cup {j}
  BY DEF CreateAccount
<1>2. o.pc = "create" /\ UNCHANGED queue
  BY DEF CreateAccount
<1>3. /\ o \in OpState /\ Good(o, creation)
      /\ p \in QueueProcs => Knows(o, queue, creation, notices, now)
      /\ p \notin QueueProcs => o.ref = NoRef
  BY OneFacts DEF OneInv, QueueProcs, Direct
<1> HIDE DEF o
<1>4. o.rec \in Record /\ o.target \in Names
  BY <1>2, <1>3 DEF Good, Writers
<1> DEFINE kj == k(j)
<1>5. /\ kj \in Creation /\ kj.jid = j /\ kj.state = "creating"
      /\ creation' = [creation EXCEPT ![c] = kj]
  BY <1>1, <1>3, <1>4, ZeroTime DEF Creation, Record, States, OpState
<1> HIDE DEF kj, k
<1>6. /\ Sole(queue) /\ \A n \in Names : queue[n] # NoRecord => queue[n].jid \in issued
      /\ \A d \in CreateIds : creation[d] # NoCreation => creation[d].jid \in issued
  BY SoleFacts
<1>7. Before(j) \in {"claimed", "unused", "accepted"}
  <2>1. CASE j \notin issued
    <3>1. ~Waits(j, queue) /\ ~Claims(j, queue)
      BY <1>6, <2>1, NoRecordStands
    <3>2. ~Accepted(j, creation)
      BY <1>6, <2>1 DEF Accepted
    <3>3. QED
      BY <2>1, <3>1, <3>2 DEF Before, Stands
  <2>2. CASE o.ref # NoRef
    <3>1. /\ queue[o.target] = o.rec /\ queue[o.target] # NoRecord /\ o.rec.approved /\ j = o.rec.jid
      BY <1>1, <1>2, <1>3, <2>2 DEF Knows, Approves, Requesting, Claimed
    <3>2. ~Waits(queue[o.target].jid, queue) /\ Claims(queue[o.target].jid, queue)
      BY <1>4, <1>6, <3>1, RecordStands
    <3>3. QED
      BY <3>1, <3>2 DEF Before, Stands
  <2>3. QED
    BY <1>1, <2>1, <2>2
<1>8. issued' = issued \cup {kj.jid} /\ Before(kj.jid) \in {"claimed", "unused", "accepted"}
  BY <1>1, <1>5, <1>7
<1>9. QED
  BY <1>1, <1>2, <1>5, <1>8, CreatedMoves

LEMMA RemoveMoves ==
  ASSUME Inv, OneInv, NEW p \in Procs, RemoveDecided(p) \/ DropRemove(p) \/ ExpireRemove(p)
  PROVE  Moves
<1>1. UNCHANGED <<creation, issued>>
  BY DEF RemoveDecided, DropRemove, ExpireRemove, Env
<1>2. queue \in Queues
  BY OneFacts
<1>3. \A n \in Names : queue'[n] \in {queue[n], NoRecord}
  BY <1>2 DEF RemoveDecided, DropRemove, ExpireRemove, WriteTags, Queues
<1>4. QED
  BY <1>1, <1>3, DropMoves

\* An account that exists goes on as one that AWS accepted.
LEMMA GoesOnMoves ==
  ASSUME Inv, NEW c \in CreateIds, creation[c] # NoCreation, NEW k \in Creation,
         creation' = [creation EXCEPT ![c] = k], k.jid = creation[c].jid,
         k.state = "failed" <=> creation[c].state = "failed", UNCHANGED <<queue, issued>>
  PROVE  Moves
BY AcceptedSame, QuietMoves

LEMMA PlaceMoves ==
  ASSUME Inv, NEW p \in Procs, Place(p) PROVE Moves
<1> DEFINE o == op[p]
           placed(c) == [creation EXCEPT ![c].state = IF @ = "unplaced" THEN "placed" ELSE @]
<1>1. PICK c \in Unplaced(o.seen) : creation' = placed(c) \/ UNCHANGED creation
  BY DEF Place
<1>2. UNCHANGED <<queue, issued>>
  BY DEF Place
<1>3. c \in CreateIds /\ creation[c] # NoCreation /\ creation[c] \in Creation
  BY OneFacts DEF Unplaced, Good, Creations
<1> HIDE DEF o
<1> DEFINE st == IF creation[c].state = "unplaced" THEN "placed" ELSE creation[c].state
           k == [creation[c] EXCEPT !.state = st]
<1>4. placed(c) = [creation EXCEPT ![c] = k]
  OBVIOUS
<1>5. st \in States /\ (st = "failed" <=> creation[c].state = "failed")
  BY <1>3 DEF Creation, States
<1> HIDE DEF st, placed
<1>6. k \in Creation /\ k.jid = creation[c].jid /\ k.state = st
  BY <1>3, <1>5 DEF Creation
<1> HIDE DEF k
<1>7. CASE creation' = placed(c)
  BY <1>2, <1>3, <1>4, <1>5, <1>6, <1>7, GoesOnMoves
<1>8. CASE UNCHANGED creation
  BY <1>2, <1>8, QuietMoves
<1>9. QED
  BY <1>1, <1>7, <1>8

LEMMA AccountClosesMoves ==
  ASSUME Inv, NEW c \in CreateIds, AccountCloses(c) PROVE Moves
<1> DEFINE k == [creation[c] EXCEPT !.state = "closed"]
<1>1. creation[c] \in Creation /\ creation[c] # NoCreation /\ creation[c].state = "placed"
  BY DEF AccountCloses, Inv, TypeOK, Creations
<1>2. creation' = [creation EXCEPT ![c] = k] /\ UNCHANGED <<queue, issued>>
  BY DEF AccountCloses
<1>3. k \in Creation /\ k.jid = creation[c].jid /\ k.state = "closed"
  BY <1>1 DEF Creation, States
<1> HIDE DEF k
<1>4. QED
  BY <1>1, <1>2, <1>3, GoesOnMoves

\* A creation ends; when it fails, another one of its journey is accepted only
\* where an inventory lacked that.
LEMMA CreationEndsMoves ==
  ASSUME Inv, OneInv, NEW c \in CreateIds, CreationEnds(c) PROVE Moves
<1>1. PICK s \in {"failed", "unplaced"} :
        creation' = [creation EXCEPT ![c].state = s, ![c].doneAt = now]
  BY DEF CreationEnds
<1> DEFINE k == [creation[c] EXCEPT !.state = s, !.doneAt = now]
           j == creation[c].jid
<1>2. /\ creation \in Creations /\ creation[c] \in Creation /\ now \in Times
      /\ creation[c] # NoCreation /\ creation[c].state = "creating" /\ UNCHANGED <<queue, issued>>
  BY DEF CreationEnds, Inv, TypeOK, Creations
<1>3. creation' = [creation EXCEPT ![c] = k]
  BY <1>1, <1>2 DEF Creations
<1>4. k \in Creation /\ k.jid = j /\ k.state = s
  BY <1>2 DEF Creation, States
<1> HIDE DEF k
<1>5. CASE s = "unplaced"
  BY <1>2, <1>3, <1>4, <1>5, GoesOnMoves
<1>6. CASE s = "failed"
  <2>1. creation'[c] = k /\ \A d \in CreateIds : d # c => creation'[d] = creation[d]
    BY <1>2, <1>3 DEF Creations
  <2>2. j \in Journeys /\ j \in issued
    BY <1>2, SoleFacts DEF Creation
  <2>3. Accepted(j, creation)
    BY <1>2 DEF Accepted
  <2>4. Before(j) = "accepted" /\ After(j) \in {"accepted", "claimed", "waiting", "over"}
    BY <1>2, <2>2, <2>3 DEF Before, After, Stands
  <2>6. ASSUME NEW i \in Journeys \ {j} PROVE After(i) = Before(i)
    <3>1. Accepted(i, creation') <=> Accepted(i, creation)
      BY <1>4, <2>1, <2>6 DEF Accepted
    <3>2. QED
      BY <1>2, <3>1, SameStands
  <2>7. Only({j})
    BY <2>6 DEF Only
  <2> HIDE DEF j
  <2>8. CASE After(j) = "accepted"
    <3>1. Only({})
      BY <2>4, <2>7, <2>8 DEF Only
    <3>2. QED
      BY <3>1, StaysMoves
  <2>9. CASE After(j) # "accepted"
    BY <2>2, <2>4, <2>7, <2>9, FailMoves
  <2>10. QED
    BY <2>8, <2>9
<1>7. QED
  BY <1>5, <1>6

LEMMA QuietStepMoves == ASSUME UNCHANGED <<queue, creation, issued>> PROVE Moves
BY QuietMoves

LEMMA ProceedMoves ==
  ASSUME Inv, OneInv, OneInv', NEW p \in QueueProcs, Proceed(p) PROVE Moves
<1>1. p \in Procs
  BY DEF QueueProcs
<1>2. CASE SubmitSteps(p)
  <2>1. \/ UNCHANGED <<queue, creation, issued>> \/ Enqueue(p)
        \/ Miss(op[p]) /\ UNCHANGED <<queue, issued>>
    BY <1>2 DEF SubmitSteps, SubmitChecks, SubmitRoom, SubmitReplaced, Env
  <2>2. QED
    BY <1>1, <2>1, QuietStepMoves, EnqueueMoves, MissMoves
<1>3. CASE ReportSteps(p)
  <2>1. UNCHANGED <<queue, creation, issued>> \/ ReportWrite(p)
    BY <1>3 DEF ReportSteps, ReportRead, Announce, Env
  <2>2. QED
    BY <2>1, QuietStepMoves, ReportWriteMoves
<1>4. CASE ApproveSteps(p)
  <2>1. \/ UNCHANGED <<queue, creation, issued>>
        \/ Claim(p) \/ CreateAccount(p) \/ ApproveRestore(p) \/ ApproveConfirm(p)
        \/ Miss(op[p]) /\ UNCHANGED <<queue, issued>>
    BY <1>4 DEF ApproveSteps, RequestList, RequestRecords, Env
  <2>2. QED
    BY <1>1, <2>1, QuietStepMoves, MissMoves, ClaimStepMoves, CreateMoves, RestoreMoves, ConfirmMoves
<1>5. CASE EditSteps(p)
  <2>1. \/ UNCHANGED <<queue, creation, issued>> \/ UpdateWrite(p) \/ RemoveDecided(p)
        \/ Miss(op[p]) /\ UNCHANGED <<queue, issued>>
    BY <1>5 DEF EditSteps, UpdateList, UpdateChecks, Env
  <2>2. QED
    BY <1>1, <2>1, QuietStepMoves, MissMoves, UpdateMoves, RemoveMoves
<1>6. CASE PassSteps(p)
  <2>1. UNCHANGED <<queue, creation, issued>> \/ Place(p) \/ DropRemove(p) \/ ExpireRemove(p)
    BY <1>6 DEF PassSteps, DropRead, PollDone, ExpireRead, ExpireList, ExpireReport, Env
  <2>2. QED
    BY <1>1, <2>1, QuietStepMoves, PlaceMoves, RemoveMoves
<1>7. CASE OutOfIds(p)
  BY <1>7, QuietStepMoves DEF OutOfIds
<1>8. QED
  BY <1>2, <1>3, <1>4, <1>5, <1>6, <1>7 DEF Proceed

LEMMA DirectMoves ==
  ASSUME Inv, OneInv, NEW p \in DirectCreators, Proceed(p) PROVE Moves
<1>1. p \in Procs /\ op[p].pc \in {"idle", "list", "records", "create"}
  BY DirectFacts, BoundsAssumption DEF Direct
<1>2. CASE SubmitSteps(p)
  BY <1>1, <1>2 DEF SubmitSteps, SubmitChecks, SubmitRoom, SubmitReplaced, Enqueue
<1>3. CASE ReportSteps(p)
  BY <1>1, <1>3 DEF ReportSteps, ReportRead, ReportWrite, Announce
<1>4. CASE ApproveSteps(p)
  <2>1. \/ UNCHANGED <<queue, creation, issued>> \/ CreateAccount(p)
        \/ Miss(op[p]) /\ UNCHANGED <<queue, issued>>
    BY <1>1, <1>4 DEF ApproveSteps, Claim, RequestList, RequestRecords, ApproveRestore,
       ApproveConfirm, Env
  <2>2. QED
    BY <1>1, <2>1, QuietStepMoves, MissMoves, CreateMoves
<1>5. CASE EditSteps(p)
  BY <1>1, <1>5 DEF EditSteps, UpdateList, UpdateChecks, UpdateWrite, RemoveDecided
<1>6. CASE PassSteps(p)
  BY <1>1, <1>6 DEF PassSteps, Place, DropRead, DropRemove, PollDone, ExpireRead, ExpireList,
     ExpireReport, ExpireRemove
<1>7. CASE OutOfIds(p)
  BY <1>7, QuietStepMoves DEF OutOfIds
<1>8. QED
  BY <1>2, <1>3, <1>4, <1>5, <1>6, <1>7 DEF Proceed

LEMMA NextMoves == Inv /\ OneInv /\ OneInv' /\ [Next]_vars => Moves
<1> SUFFICES ASSUME Inv, OneInv, OneInv', [Next]_vars PROVE Moves
  OBVIOUS
<1>1. CASE \E p \in Procs \ DirectCreators : Start(p)
  <2>1. UNCHANGED <<queue, creation, issued>>
    BY <1>1 DEF Start, Submit, Approve, UpdateRequest, DenyOrWithdraw, Refresh, PollSucceeded,
       PollFailed, Env
  <2>2. QED
    BY <2>1, QuietStepMoves
<1>2. CASE \E p \in DirectCreators : DirectCreate(p)
  <2>1. UNCHANGED <<queue, creation, issued>>
    BY <1>2 DEF DirectCreate, Env
  <2>2. QED
    BY <2>1, QuietStepMoves
<1>3. CASE \E p \in Procs : Proceed(p) \/ CallFails(p) \/ Crash(p)
  <2>1. PICK p \in Procs : Proceed(p) \/ CallFails(p) \/ Crash(p)
    BY <1>3
  <2>2. CASE CallFails(p) \/ Crash(p)
    BY <2>2, QuietStepMoves DEF CallFails, Crash
  <2>3. CASE Proceed(p) /\ p \in DirectCreators
    BY <2>3, DirectMoves
  <2>4. CASE Proceed(p) /\ p \in QueueProcs
    BY <2>4, ProceedMoves
  <2>5. QED
    BY <2>1, <2>2, <2>3, <2>4 DEF QueueProcs
<1>4. CASE \E c \in CreateIds : CreationEnds(c) \/ AccountCloses(c)
  BY <1>4, CreationEndsMoves, AccountClosesMoves
<1>5. CASE Tick
  BY <1>5, QuietStepMoves DEF Tick
<1>6. CASE UNCHANGED vars
  BY <1>6, QuietStepMoves DEF vars
<1>7. QED
  BY <1>1, <1>2, <1>3, <1>4, <1>5, <1>6 DEF Next

LEMMA InitMoves == Init => Abstract!Init
<1> SUFFICES ASSUME Init PROVE Abstract!Init
  OBVIOUS
<1>1. /\ \A n \in Names : queue[n] = NoRecord
      /\ \A c \in CreateIds : creation[c] = NoCreation
      /\ issued = {}
  BY DEF Init, EmptyQueue, NoCreations
<1>2. \A j \in Journeys : Before(j) = "unused"
  BY <1>1, Zenon DEF Before, Stands, Accepted, Waits, Claims, Pending, Approved
<1>3. Journey = [j \in Journeys |-> "unused"]
  BY <1>2, JourneyIs
<1>4. QED
  BY <1>3 DEF Abstract!Init, Journey

\* The queue of one process implements ApprovalJourney: a request is claimed
\* before AWS is asked for its account, waits again when the creation was
\* refused, and once over stays over, whatever fails and wherever it crashes.
THEOREM QueueImplementsJourney == ASSUME OneQueueProcess PROVE Spec => ImplementsJourney
<1>1. Inv /\ OneInv /\ OneInv' /\ [Next]_vars => [Abstract!Next]_Journey
  BY NextMoves DEF Moves
<1>2. Spec => [][Abstract!Next]_Journey
  BY <1>1, OneInvariant, Invariance, PTL DEF Spec
<1>3. Spec => Abstract!Init
  BY InitMoves DEF Spec
<1>4. QED
  BY <1>2, <1>3, PTL DEF Journey, ImplementsJourney, Abstract!Spec

-----------------------------------------------------------------------------
(* The limit of accounts per owner.                                        *)

Counted(s, c) == Open(s, c) /\ s[c].confirmed /\ Noticed(s, c)

\* Creation c needs a record that names it, for the inventory to show its owner:
\* it is under way, or an inventory without the root may show it so.
Lingers(s, c, t) == s[c].state = "creating" \/ (s[c].state = "unplaced" /\ t <= s[c].doneAt + DayLong)

\* No counted account has the name n.
Vacant(n, s) == \A c \in CreateIds : Counted(s, c) => s[c].name # n

\* Some approved record of the owner o names creation c.
Names1(c, o, q) == \E n \in Names : Approved(q, n) /\ q[n].cid = c /\ q[n].owner = o

\* The inventory shows every counted account under its owner, and a pending
\* request is not for a name that has one.
Accounts(q, s, t) ==
  /\ \A c \in CreateIds : Counted(s, c) /\ Lingers(s, c, t) => Names1(c, s[c].owner, q)
  /\ \A n \in Names : Pending(q, n) => Vacant(n, s)

\* The creations e that were read have every counted account ...
Reads(e, q, s, t) ==
  \A c \in CreateIds : Counted(s, c) =>
    /\ Open(e, c) /\ e[c].owner = s[c].owner /\ e[c].name = s[c].name
    /\ Lingers(e, c, t) => Names1(c, s[c].owner, q)

\* ... and the inventory e shows it under its owner.
Covers(e, q, s) ==
  \A c \in CreateIds : Counted(s, c) =>
    /\ Open(e, c) /\ e[c].owner = s[c].owner /\ e[c].name = s[c].name
    /\ e[c].state = "creating" => Names1(c, s[c].owner, q)

PendingOf(o, q) == {n \in Names : Pending(q, n) /\ q[n].owner = o}
CountedOf(o, s) == {c \in CreateIds : Counted(s, c) /\ s[c].owner = o}
HeldBy(o, q, s) == Cardinality(PendingOf(o, q)) + Cardinality(CountedOf(o, s))

Within(o, q, s) == MaxPerOwner > 0 => HeldBy(o, q, s) <= MaxPerOwner
Below(o, q, s) == MaxPerOwner > 0 => HeldBy(o, q, s) < MaxPerOwner

\* What the operation under way knows of the limit.
Counts(o, q, s, t) ==
  /\ o.pc \in {"checks", "editChecks"} => Reads(o.seen, q, s, t)
  /\ (o.pc \in Submitting \/ o.back = "enqueue") => Vacant(o.target, s) /\ Below(o.rec.owner, q, s)
  /\ o.pc = "claim" => o.rec.owner = q[o.target].owner
  /\ o.pc \in Requesting \cup {"confirm"} => Vacant(o.target, s) /\ Below(o.rec.owner, q, s)
  /\ o.pc = "confirm" => s[o.cid].owner = o.rec.owner /\ ~s[o.cid].confirmed
  /\ o.pc = "edit" => o.rec.owner = q[o.target].owner \/ Below(o.rec.owner, q, s)

Limited(q, s, t) == Accounts(q, s, t) /\ \A o \in Owners : Within(o, q, s)

LimitInv ==
  /\ Limited(queue, creation, now)
  /\ \A p \in QueueProcs : Counts(op[p], queue, creation, now)

-----------------------------------------------------------------------------
(* Counting.                                                               *)

LEMMA HeldNat ==
  \A o, q, s : /\ IsFiniteSet(PendingOf(o, q)) /\ IsFiniteSet(CountedOf(o, s))
               /\ Cardinality(PendingOf(o, q)) \in Nat /\ Cardinality(CountedOf(o, s)) \in Nat
<1> SUFFICES ASSUME NEW o, NEW q, NEW s
             PROVE  /\ IsFiniteSet(PendingOf(o, q)) /\ IsFiniteSet(CountedOf(o, s))
                    /\ Cardinality(PendingOf(o, q)) \in Nat /\ Cardinality(CountedOf(o, s)) \in Nat
  OBVIOUS
<1>1. PendingOf(o, q) \in SUBSET Names /\ CountedOf(o, s) \in SUBSET CreateIds
  BY DEF PendingOf, CountedOf
<1>2. IsFiniteSet(PendingOf(o, q)) /\ IsFiniteSet(CountedOf(o, s))
  BY <1>1, FiniteAssumption, FS_Subset
<1>3. QED
  BY <1>2, FS_CardinalityType

LEMMA HeldLess ==
  ASSUME NEW o, NEW q, NEW s, NEW x, NEW u,
         PendingOf(o, x) \subseteq PendingOf(o, q), CountedOf(o, u) \subseteq CountedOf(o, s)
  PROVE  HeldBy(o, x, u) <= HeldBy(o, q, s)
<1>1. /\ IsFiniteSet(PendingOf(o, q)) /\ IsFiniteSet(CountedOf(o, s))
      /\ Cardinality(PendingOf(o, q)) \in Nat /\ Cardinality(CountedOf(o, s)) \in Nat
      /\ Cardinality(PendingOf(o, x)) \in Nat /\ Cardinality(CountedOf(o, u)) \in Nat
  BY HeldNat
<1>2. Cardinality(PendingOf(o, x)) <= Cardinality(PendingOf(o, q))
  BY <1>1, FS_Subset
<1>3. Cardinality(CountedOf(o, u)) <= Cardinality(CountedOf(o, s))
  BY <1>1, FS_Subset
<1>4. QED
  BY <1>1, <1>2, <1>3 DEF HeldBy

\* One more pending request, or one more counted account.
LEMMA HeldMore ==
  ASSUME NEW o, NEW q, NEW s, NEW x, NEW u, NEW n,
         \/ PendingOf(o, x) \subseteq PendingOf(o, q) \cup {n} /\ CountedOf(o, u) \subseteq CountedOf(o, s)
         \/ PendingOf(o, x) \subseteq PendingOf(o, q) /\ CountedOf(o, u) \subseteq CountedOf(o, s) \cup {n}
  PROVE  HeldBy(o, x, u) <= HeldBy(o, q, s) + 1
<1> DEFINE P == PendingOf(o, q)
           C == CountedOf(o, s)
           P2 == PendingOf(o, x)
           C2 == CountedOf(o, u)
<1>1. /\ IsFiniteSet(P) /\ IsFiniteSet(C) /\ Cardinality(P) \in Nat /\ Cardinality(C) \in Nat
      /\ IsFiniteSet(P2) /\ IsFiniteSet(C2) /\ Cardinality(P2) \in Nat /\ Cardinality(C2) \in Nat
      /\ HeldBy(o, q, s) = Cardinality(P) + Cardinality(C)
      /\ HeldBy(o, x, u) = Cardinality(P2) + Cardinality(C2)
  BY HeldNat DEF HeldBy
<1>2. \/ P2 \subseteq P \cup {n} /\ C2 \subseteq C
      \/ P2 \subseteq P /\ C2 \subseteq C \cup {n}
  OBVIOUS
<1> HIDE DEF P, C, P2, C2
<1>3. ASSUME NEW S, NEW T, IsFiniteSet(S), T \subseteq S
      PROVE  Cardinality(T) <= Cardinality(S)
  BY <1>3, FS_Subset
<1>4. ASSUME NEW S, NEW T, IsFiniteSet(S), Cardinality(T) \in Nat, T \subseteq S \cup {n}
      PROVE  Cardinality(T) <= Cardinality(S) + 1
  <2>1. /\ IsFiniteSet(S \cup {n})
        /\ Cardinality(S \cup {n}) = IF n \in S THEN Cardinality(S) ELSE Cardinality(S) + 1
    BY <1>4, FS_AddElement
  <2>2. Cardinality(T) <= Cardinality(S \cup {n})
    BY <1>3, <1>4, <2>1
  <2>3. Cardinality(S) \in Nat
    BY <1>4, FS_CardinalityType
  <2>4. QED
    BY <1>4, <2>1, <2>2, <2>3
<1>5. CASE P2 \subseteq P \cup {n} /\ C2 \subseteq C
  <2>1. Cardinality(P2) <= Cardinality(P) + 1 /\ Cardinality(C2) <= Cardinality(C)
    BY <1>1, <1>3, <1>4, <1>5
  <2>2. QED
    BY <1>1, <2>1
<1>6. CASE P2 \subseteq P /\ C2 \subseteq C \cup {n}
  <2>1. Cardinality(P2) <= Cardinality(P) /\ Cardinality(C2) <= Cardinality(C) + 1
    BY <1>1, <1>3, <1>4, <1>6
  <2>2. QED
    BY <1>1, <2>1
<1>7. QED
  BY <1>2, <1>5, <1>6

\* One pending request less.
LEMMA HeldFewer ==
  ASSUME NEW o, NEW q, NEW s, NEW x, NEW n, n \in PendingOf(o, q),
         PendingOf(o, x) \subseteq PendingOf(o, q) \ {n}
  PROVE  HeldBy(o, x, s) < HeldBy(o, q, s)
<1> DEFINE P == PendingOf(o, q)
           P2 == PendingOf(o, x)
<1>1. /\ IsFiniteSet(P) /\ Cardinality(P) \in Nat /\ Cardinality(P2) \in Nat
      /\ Cardinality(CountedOf(o, s)) \in Nat
      /\ HeldBy(o, q, s) = Cardinality(P) + Cardinality(CountedOf(o, s))
      /\ HeldBy(o, x, s) = Cardinality(P2) + Cardinality(CountedOf(o, s))
  BY HeldNat DEF HeldBy
<1>2. n \in P /\ P2 \subseteq P \ {n}
  OBVIOUS
<1> HIDE DEF P, P2
<1>3. /\ IsFiniteSet(P \ {n}) /\ Cardinality(P \ {n}) = Cardinality(P) - 1
  BY <1>1, <1>2, FS_RemoveElement
<1>4. Cardinality(P2) <= Cardinality(P \ {n})
  BY <1>2, <1>3, FS_Subset
<1>5. QED
  BY <1>1, <1>3, <1>4

LEMMA HeldInt == \A o, q, s : HeldBy(o, q, s) \in Nat
BY HeldNat DEF HeldBy

LEMMA BelowLess ==
  ASSUME NEW o, NEW q, NEW s, NEW x, NEW u, HeldBy(o, x, u) <= HeldBy(o, q, s)
  PROVE  (Below(o, q, s) => Below(o, x, u)) /\ (Within(o, q, s) => Within(o, x, u))
<1>1. HeldBy(o, x, u) \in Nat /\ HeldBy(o, q, s) \in Nat /\ MaxPerOwner \in Nat
  BY HeldInt, BoundsAssumption
<1>2. QED
  BY <1>1 DEF Below, Within

LEMMA BelowMore ==
  ASSUME NEW o, NEW q, NEW s, NEW x, NEW u, HeldBy(o, x, u) <= HeldBy(o, q, s) + 1,
         Below(o, q, s)
  PROVE  Within(o, x, u)
<1>1. HeldBy(o, x, u) \in Nat /\ HeldBy(o, q, s) \in Nat /\ MaxPerOwner \in Nat
  BY HeldInt, BoundsAssumption
<1>2. QED
  BY <1>1 DEF Below, Within

LEMMA BelowFewer ==
  ASSUME NEW o, NEW q, NEW s, NEW x, NEW u, HeldBy(o, x, u) < HeldBy(o, q, s),
         Within(o, q, s)
  PROVE  Below(o, x, u)
<1>1. HeldBy(o, x, u) \in Nat /\ HeldBy(o, q, s) \in Nat /\ MaxPerOwner \in Nat
  BY HeldInt, BoundsAssumption
<1>2. QED
  BY <1>1 DEF Below, Within

-----------------------------------------------------------------------------
(* The limit while creations go on.                                        *)

\* Creation k goes on to l.
GoesTo(k, l) ==
  /\ l # NoCreation /\ l.owner = k.owner /\ l.name = k.name /\ l.jid = k.jid
  /\ l.confirmed = k.confirmed /\ (k.missed => l.missed)
  /\ l.state \in {"creating", "unplaced", "placed"} => k.state \in {"creating", "unplaced", "placed"}
  /\ l.state = "creating" => k.state = "creating"
  /\ l.state = "unplaced" => k.state = "creating" \/ (k.state = "unplaced" /\ l.doneAt = k.doneAt)

\* Creations go on from s to u: none is counted that was not before.
Goes(s, u) ==
  \A c \in CreateIds : IF s[c] # NoCreation THEN GoesTo(s[c], u[c])
                       ELSE u[c] # NoCreation => ~u[c].confirmed

LEMMA GoesCounted ==
  ASSUME NEW s, NEW u, Goes(s, u)
  PROVE  \A c \in CreateIds : Counted(u, c) =>
           /\ Counted(s, c) /\ u[c].owner = s[c].owner /\ u[c].name = s[c].name
           /\ \A t : Lingers(u, c, t) => Lingers(s, c, t)
<1> SUFFICES ASSUME NEW c \in CreateIds, Counted(u, c)
             PROVE  /\ Counted(s, c) /\ u[c].owner = s[c].owner /\ u[c].name = s[c].name
                    /\ \A t : Lingers(u, c, t) => Lingers(s, c, t)
  OBVIOUS
<1>1. s[c] # NoCreation /\ GoesTo(s[c], u[c])
  BY DEF Goes, Counted, Open
<1>2. Open(s, c) /\ s[c].confirmed
  BY <1>1 DEF GoesTo, Counted, Open
<1>3. Noticed(s, c)
  <2>1. ASSUME NEW d \in CreateIds, s[d] # NoCreation, s[d].jid = s[c].jid PROVE ~s[d].missed
    <3>1. GoesTo(s[d], u[d])
      BY <2>1 DEF Goes
    <3>2. u[d] # NoCreation /\ u[d].jid = u[c].jid /\ (s[d].missed => u[d].missed)
      BY <1>1, <2>1, <3>1 DEF GoesTo
    <3>3. QED
      BY <3>2 DEF Counted, Noticed
  <2>2. QED
    BY <2>1 DEF Noticed
<1>4. \A t : Lingers(u, c, t) => Lingers(s, c, t)
  BY <1>1 DEF GoesTo, Lingers
<1>5. QED
  BY <1>1, <1>2, <1>3, <1>4 DEF Counted, GoesTo

LEMMA GoesHeld ==
  ASSUME NEW s, NEW u, Goes(s, u), NEW o, NEW q
  PROVE  HeldBy(o, q, u) <= HeldBy(o, q, s)
<1>1. CountedOf(o, u) \subseteq CountedOf(o, s)
  BY GoesCounted DEF CountedOf
<1>2. QED
  BY <1>1, HeldLess

LEMMA GoesBelow ==
  ASSUME NEW s, NEW u, Goes(s, u), NEW o, NEW q
  PROVE  (Below(o, q, s) => Below(o, q, u)) /\ (Within(o, q, s) => Within(o, q, u))
BY GoesHeld, BelowLess

LEMMA GoesVacant ==
  ASSUME NEW s, NEW u, Goes(s, u), NEW n
  PROVE  Vacant(n, s) => Vacant(n, u)
<1>1. \A c \in CreateIds : Counted(u, c) => Counted(s, c) /\ u[c].name = s[c].name
  BY GoesCounted
<1>2. QED
  BY <1>1 DEF Vacant

LEMMA GoesAccounts ==
  ASSUME NEW s, NEW u, Goes(s, u), NEW q, NEW v, Accounts(q, s, v)
  PROVE  Accounts(q, u, v)
<1>1. \A c \in CreateIds : Counted(u, c) =>
           /\ Counted(s, c) /\ u[c].owner = s[c].owner
           /\ Lingers(u, c, v) => Lingers(s, c, v)
  BY GoesCounted
<1>2. \A c \in CreateIds : Counted(u, c) /\ Lingers(u, c, v) => Names1(c, u[c].owner, q)
  BY <1>1 DEF Accounts
<1>3. \A n \in Names : Pending(q, n) => Vacant(n, u)
  BY GoesVacant DEF Accounts
<1>4. QED
  BY <1>2, <1>3 DEF Accounts

LEMMA GoesReads ==
  ASSUME NEW s, NEW u, Goes(s, u), NEW q, NEW e, NEW v, Reads(e, q, s, v)
  PROVE  Reads(e, q, u, v)
<1>1. \A c \in CreateIds : Counted(u, c) =>
           Counted(s, c) /\ u[c].owner = s[c].owner /\ u[c].name = s[c].name
  BY GoesCounted
<1>2. QED
  BY <1>1 DEF Reads

LEMMA GoesLimited ==
  ASSUME NEW s, NEW u, Goes(s, u), NEW q, NEW v, Limited(q, s, v)
  PROVE  Limited(q, u, v)
<1>1. Accounts(q, u, v)
  BY GoesAccounts DEF Limited
<1>2. \A o \in Owners : Within(o, q, u)
  BY GoesBelow DEF Limited
<1>3. QED
  BY <1>1, <1>2 DEF Limited

LEMMA GoesSame == \A s : Goes(s, s)
BY DEF Goes, GoesTo

\* What an operation knows of the limit survives what creations do.
LEMMA CountsLater ==
  ASSUME NEW s, NEW u, Goes(s, u), NEW q, NEW o, NEW v, Good(o, s), Counts(o, q, s, v)
  PROVE  Counts(o, q, u, v)
<1>1. o.pc \in {"checks", "editChecks"} => Reads(o.seen, q, u, v)
  BY GoesReads DEF Counts
<1>2. (o.pc \in Submitting \/ o.back = "enqueue") => Vacant(o.target, u) /\ Below(o.rec.owner, q, u)
  BY GoesVacant, GoesBelow DEF Counts
<1>3. o.pc \in Requesting \cup {"confirm"} => Vacant(o.target, u) /\ Below(o.rec.owner, q, u)
  BY GoesVacant, GoesBelow DEF Counts
<1>4. o.pc = "confirm" => u[o.cid].owner = o.rec.owner /\ ~u[o.cid].confirmed
  <2> SUFFICES ASSUME o.pc = "confirm" PROVE u[o.cid].owner = o.rec.owner /\ ~u[o.cid].confirmed
    OBVIOUS
  <2>1. o.cid \in CreateIds /\ s[o.cid] # NoCreation
    BY DEF Good
  <2>2. GoesTo(s[o.cid], u[o.cid])
    BY <2>1 DEF Goes
  <2>3. QED
    BY <2>2 DEF Counts, GoesTo
<1>5. o.pc = "edit" => o.rec.owner = q[o.target].owner \/ Below(o.rec.owner, q, u)
  BY GoesBelow DEF Counts
<1>6. QED
  BY <1>1, <1>2, <1>3, <1>4, <1>5 DEF Counts

\* The creations an inventory lacks go on so.
LEMMA MissGoes ==
  ASSUME Inv, NEW p \in Procs, Miss(op[p]) PROVE Goes(creation, creation')
<1> SUFFICES ASSUME NEW c \in CreateIds
             PROVE  IF creation[c] # NoCreation THEN GoesTo(creation[c], creation'[c])
                    ELSE creation'[c] # NoCreation => ~creation'[c].confirmed
  BY DEF Goes
<1>1. CASE creation[c] = NoCreation
  BY <1>1, MissSame
<1>2. CASE creation[c] # NoCreation
  <2>1. creation[c].missed => creation'[c].missed
    BY MissSame
  <2>2. GoesTo(creation[c], creation'[c])
    BY <1>2, <2>1, MissSame DEF GoesTo
  <2>3. QED
    BY <1>2, <2>2
<1>3. QED
  BY <1>1, <1>2

\* Time passes: fewer creations wait.
LEMMA LaterWaits ==
  ASSUME NEW s \in Creations, NEW v \in Nat, NEW w \in Nat, v <= w,
         NEW c \in CreateIds, s[c] # NoCreation, Lingers(s, c, w)
  PROVE  Lingers(s, c, v)
<1>1. s[c].doneAt \in Nat /\ DayLong \in Nat
  BY BoundsAssumption DEF Creations, Creation, Times
<1>2. QED
  BY <1>1 DEF Lingers

LEMMA LaterLimited ==
  ASSUME NEW s \in Creations, NEW v \in Nat, NEW w \in Nat, v <= w, NEW q, Limited(q, s, v)
  PROVE  Limited(q, s, w)
<1>1. \A c \in CreateIds : Counted(s, c) /\ Lingers(s, c, w) => Names1(c, s[c].owner, q)
  BY LaterWaits DEF Limited, Accounts, Counted, Open
<1>2. QED
  BY <1>1 DEF Limited, Accounts

LEMMA LaterCounts ==
  ASSUME NEW o \in OpState, NEW v \in Nat, NEW w \in Nat, v <= w, NEW q, NEW s, Counts(o, q, s, v)
  PROVE  Counts(o, q, s, w)
<1> DEFINE e == o.seen
<1>1. e \in Creations
  BY DEF OpState
<1> HIDE DEF e
<1>2. ASSUME Reads(e, q, s, v) PROVE Reads(e, q, s, w)
  <2>1. ASSUME NEW c \in CreateIds, Counted(s, c), Lingers(e, c, w) PROVE Names1(c, s[c].owner, q)
    <3>1. e[c] # NoCreation
      BY <1>2, <2>1 DEF Reads, Open
    <3>2. Lingers(e, c, v)
      BY <1>1, <2>1, <3>1, LaterWaits
    <3>3. QED
      BY <1>2, <2>1, <3>2 DEF Reads
  <2>2. QED
    BY <1>2, <2>1 DEF Reads
<1>3. QED
  BY <1>2 DEF Counts, e

-----------------------------------------------------------------------------
(* The operation of the one process.                                       *)

\* The labels at which the limit matters.
Limiting == {"checks", "editChecks", "claim", "confirm", "edit"} \cup Submitting \cup Requesting

LEMMA QuietCounts ==
  ASSUME NEW o, o.pc \notin Limiting, o.back # "enqueue", NEW q, NEW s, NEW v
  PROVE  Counts(o, q, s, v)
BY DEF Counts, Limiting

LEMMA IdleCounts == \A q, s, v : Counts(Idle, q, s, v)
BY QuietCounts, IdleFields DEF Limiting, Submitting, Requesting

\* Operation x goes on from o towards the record it will enqueue.
LEMMA CarriedCounts ==
  ASSUME NEW o, NEW x, NEW q, NEW s, NEW v, Counts(o, q, s, v),
         x.pc \notin Limiting \ Submitting,
         x.pc \in Submitting \/ x.back = "enqueue" =>
           /\ o.pc \in Submitting \/ o.back = "enqueue"
           /\ x.target = o.target /\ x.rec.owner = o.rec.owner
  PROVE  Counts(x, q, s, v)
BY DEF Counts, Limiting, Submitting, Requesting

\* The queue process p goes on with o.
LEMMA LimitProc ==
  ASSUME OneQueueProcess, Inv, NEW p \in QueueProcs, NEW o, Continue(p, o),
         Counts(o, queue', creation', now), Limited(queue', creation', now), UNCHANGED now
  PROVE  LimitInv'
<1>1. op \in [Procs -> OpState] /\ op' = [op EXCEPT ![p] = o] /\ p \in Procs
  BY DEF Inv, TypeOK, Continue, QueueProcs
<1>2. \A r \in QueueProcs : op'[r] = o
  BY <1>1 DEF OneQueueProcess, QueueProcs
<1>3. QED
  BY <1>2 DEF LimitInv

\* No tag is written, and the process goes on with o.
LEMMA LimitStep ==
  ASSUME OneQueueProcess, Inv, LimitInv, NEW p \in QueueProcs, NEW o, Continue(p, o),
         UNCHANGED <<queue, now>>, Goes(creation, creation'), Counts(o, queue, creation', now)
  PROVE  LimitInv'
<1>1. Limited(queue, creation', now)
  BY GoesLimited DEF LimitInv
<1>2. QED
  BY <1>1, LimitProc

\* A step that only reads.
LEMMA LimitRead ==
  ASSUME OneQueueProcess, Inv, LimitInv, NEW p \in QueueProcs, NEW o, Continue(p, o),
         UNCHANGED <<queue, creation, now>>, Counts(o, queue, creation, now)
  PROVE  LimitInv'
<1>1. Goes(creation, creation')
  BY GoesSame
<1>2. QED
  BY <1>1, LimitStep

\* No queue process moves: AWS, the clock, or a direct creation.
LEMMA LimitBeside ==
  ASSUME Inv, LimitInv, UNCHANGED <<queue, now>>, Goes(creation, creation'),
         \A p \in QueueProcs : op'[p] = op[p]
  PROVE  LimitInv'
<1>1. Limited(queue, creation', now)
  BY GoesLimited DEF LimitInv
<1>2. ASSUME NEW p \in QueueProcs PROVE Counts(op'[p], queue', creation', now)
  <2> DEFINE o == op[p]
  <2>1. Good(o, creation) /\ Counts(o, queue, creation, now) /\ op'[p] = o
    BY OneFacts DEF LimitInv, QueueProcs
  <2> HIDE DEF o
  <2>2. Counts(o, queue, creation', now)
    BY <2>1, CountsLater
  <2>3. QED
    BY <2>1, <2>2
<1>3. QED
  BY <1>1, <1>2 DEF LimitInv

LEMMA LimitFacts ==
  ASSUME Inv, OneInv, LimitInv, NEW p \in QueueProcs
  PROVE  /\ op[p] \in OpState /\ Good(op[p], creation) /\ Knows(op[p], queue, creation, notices, now)
         /\ Counts(op[p], queue, creation, now) /\ Limited(queue, creation, now)
BY ProcFacts DEF LimitInv

\* A step to where the limit does not matter.
LEMMA LimitQuiet ==
  ASSUME OneQueueProcess, Inv, LimitInv, NEW p \in QueueProcs, NEW o, Continue(p, o),
         o.pc \notin Limiting, o.back # "enqueue",
         UNCHANGED <<queue, now>>, Goes(creation, creation')
  PROVE  LimitInv'
BY QuietCounts, LimitStep

LEMMA LimitIdle ==
  ASSUME OneQueueProcess, Inv, LimitInv, NEW p \in QueueProcs, Continue(p, Idle),
         UNCHANGED <<queue, creation, now>>
  PROVE  LimitInv'
BY IdleCounts, LimitRead

\* Outside the report of a failure, nothing will be enqueued later.
LEMMA BackFacts ==
  ASSUME NEW o, NEW q, NEW s, NEW k, NEW t, Knows(o, q, s, k, t), o.pc \notin Reports
  PROVE  o.back # "enqueue"
BY DEF Knows

LEMMA ErrorCounts ==
  ASSUME NEW p, op[p] \in OpState, NEW q, NEW s, NEW k, NEW t, Knows(op[p], q, s, k, t),
         NEW x, NEW u, NEW v, op[p].pc \in Requesting => Counts(op[p], x, u, v)
  PROVE  Counts(AfterError(p), x, u, v)
<1> DEFINE o == op[p]
           Restores == o.pc \in {"list", "records", "create"} /\ o.ref # NoRef
           Leaves == o.pc \in {"dropRead", "dropRemove"}
           Skips == o.pc \in {"reportRead", "reportWrite"} /\ o.back = "expire"
           a == [o EXCEPT !.pc = "restore"]
           b == [o EXCEPT !.pc = "expire", !.todo = @ \ {o.target}]
<1>1. AfterError(p) = IF Restores THEN a ELSE IF Leaves THEN Placing(o)
                      ELSE IF Skips THEN b ELSE Idle
  BY DEF AfterError
<1>2. /\ o \in OpState
      /\ o.pc \in Requesting => Counts(o, x, u, v)
      /\ o.pc \notin Reports => o.back # "enqueue"
  BY BackFacts
<1> HIDE DEF o
<1>3. ASSUME Restores PROVE Counts(a, x, u, v)
  <2>1. /\ a.pc = "restore" /\ a.target = o.target /\ a.rec = o.rec /\ a.back = o.back
    BY <1>2 DEF OpState
  <2>2. Counts(o, x, u, v) /\ o.back # "enqueue"
    BY <1>2, <1>3 DEF Requesting, Reports
  <2> HIDE DEF a
  <2>3. QED
    BY <1>3, <2>1, <2>2 DEF Counts, Submitting, Requesting
<1>4. ASSUME Leaves PROVE Counts(Placing(o), x, u, v)
  <2>1. Placing(o).pc = "place" /\ Placing(o).back = o.back
    BY <1>2 DEF Placing, OpState
  <2>2. o.back # "enqueue"
    BY <1>2, <1>4 DEF Reports
  <2>3. QED
    BY <2>1, <2>2, QuietCounts DEF Limiting, Submitting, Requesting
<1>5. ASSUME Skips PROVE Counts(b, x, u, v)
  <2>1. b.pc = "expire" /\ b.back = o.back
    BY <1>2 DEF OpState
  <2> HIDE DEF b
  <2>2. QED
    BY <1>5, <2>1, QuietCounts DEF Limiting, Submitting, Requesting
<1> HIDE DEF a, b, Restores, Leaves, Skips
<1>6. QED
  BY <1>1, <1>3, <1>4, <1>5, IdleCounts

\* A call that fails, without ids left, or cut off by a crash.
LEMMA FailLimit ==
  ASSUME OneQueueProcess, Inv, OneInv, LimitInv, NEW p \in QueueProcs,
         CallFails(p) \/ OutOfIds(p) \/ Crash(p)
  PROVE  LimitInv'
<1>1. Counts(AfterError(p), queue, creation, now)
  BY LimitFacts, ErrorCounts
<1>2. /\ Continue(p, AfterError(p)) \/ Continue(p, Idle)
      /\ UNCHANGED <<queue, creation, now>>
  BY DEF CallFails, OutOfIds, Crash
<1>3. QED
  BY <1>1, <1>2, IdleCounts, LimitRead

-----------------------------------------------------------------------------
(* The limit in SubmitRequest.                                             *)

LEMMA ReadsSelf ==
  ASSUME NEW q, NEW s, NEW v, Accounts(q, s, v) PROVE Reads(s, q, s, v)
BY DEF Accounts, Reads, Counted

\* Once the creations it lacks are marked, the inventory shows the others.
LEMMA InventoryCovers ==
  ASSUME Inv, NEW p \in Procs, Miss(op[p]), NEW q, Reads(op[p].seen, q, creation, now)
  PROVE  Covers(Inventory(op[p]), q, creation')
<1> DEFINE o == op[p]
           u == creation'
           e == o.seen
           i == Inventory(o)
<1>1. o \in OpState /\ now \in Nat /\ Reads(e, q, creation, now)
  BY OneFacts
<1>2. Goes(creation, u) /\ \A c \in CreateIds : Overlooks(o, c) => creation[c] # NoCreation /\ u[c].missed
  BY MissGoes, MissSame
<1> HIDE DEF o, u
<1> SUFFICES ASSUME NEW c \in CreateIds, Counted(u, c)
             PROVE  /\ Open(i, c) /\ i[c].owner = u[c].owner /\ i[c].name = u[c].name
                    /\ i[c].state = "creating" => Names1(c, u[c].owner, q)
  BY DEF Covers, o, u
<1>3. /\ Counted(creation, c) /\ u[c].owner = creation[c].owner /\ u[c].name = creation[c].name
  BY <1>2, GoesCounted
<1>4. /\ Open(e, c) /\ e[c].owner = u[c].owner /\ e[c].name = u[c].name
      /\ Lingers(e, c, now) => Names1(c, u[c].owner, q)
  BY <1>1, <1>3 DEF Reads
<1>5. ~Overlooks(o, c)
  BY <1>2 DEF Counted, Noticed, Open
<1>6. e[c] \in Creation
  BY <1>1, <1>4 DEF OpState, Creations, Open
<1> DEFINE k == [e[c] EXCEPT !.state = "creating"]
<1>7. i[c] = IF Hidden(o, c) THEN k ELSE e[c]
  BY <1>5 DEF Inventory
<1>8. k \in Creation /\ k.owner = e[c].owner /\ k.name = e[c].name /\ k.state = "creating"
  BY <1>6 DEF Creation, States
<1> HIDE DEF k, i
<1>9. CASE Hidden(o, c)
  <2>1. e[c].state = "unplaced" /\ now <= e[c].doneAt + PlacementGrace
    BY <1>1, <1>5, <1>6, <1>9, BoundsAssumption DEF Hidden, Overlooks, Creation, Times
  <2>2. e[c].doneAt \in Nat /\ PlacementGrace \in Nat /\ DayLong \in Nat /\ PlacementGrace <= DayLong
    BY <1>6, BoundsAssumption DEF Creation, Times
  <2>3. Lingers(e, c, now)
    BY <1>1, <2>1, <2>2 DEF Lingers
  <2>4. Open(i, c)
    BY <1>7, <1>8, <1>9, DistinctAssumption DEF Open
  <2>5. QED
    BY <1>4, <1>7, <1>8, <1>9, <2>3, <2>4
<1>10. CASE ~Hidden(o, c)
  BY <1>4, <1>7, <1>10 DEF Open, Lingers
<1>11. QED
  BY <1>9, <1>10

\* What the inventory counts, leaving out the name e, is no less than what is held.
LEMMA HeldSeen ==
  ASSUME NEW o, NEW q, NEW s, NEW t, NEW e, Covers(t, q, s),
         e \notin PendingOf(o, q), \A c \in CountedOf(o, s) : s[c].name # e,
         BelowLimit(Held(t, q, o, e))
  PROVE  Below(o, q, s)
<1> DEFINE P == {n \in Names \ {e} : Pending(q, n) /\ q[n].owner = o}
           C == {c \in CreateIds : /\ Open(t, c) /\ t[c].name # e
                                   /\ o \in PairedOwners(t, q, c)}
<1>1. Held(t, q, o, e) = Cardinality(P) + Cardinality(C)
  BY DEF Held
<1>2. PendingOf(o, q) \subseteq P
  BY DEF PendingOf
<1>3. CountedOf(o, s) \subseteq C
  <2>1. ASSUME NEW c \in CountedOf(o, s) PROVE c \in C
    <3>1. /\ c \in CreateIds /\ Counted(s, c) /\ s[c].owner = o /\ Open(t, c)
          /\ t[c].owner = o /\ t[c].name # e
          /\ t[c].state = "creating" => Names1(c, o, q)
      BY DEF CountedOf, Covers
    <3>2. o \in PairedOwners(t, q, c)
      <4>1. CASE t[c].state = "creating"
        BY <3>1, <4>1 DEF PairedOwners, Names1
      <4>2. CASE t[c].state \in {"unplaced", "placed"}
        BY <3>1, <4>2 DEF PairedOwners
      <4>3. QED
        BY <3>1, <4>1, <4>2 DEF Open
    <3>3. QED
      BY <3>1, <3>2
  <2>2. QED
    BY <2>1
<1>4. IsFiniteSet(P) /\ IsFiniteSet(C)
  <2>1. P \in SUBSET Names /\ C \in SUBSET CreateIds
    OBVIOUS
  <2>2. QED
    BY <2>1, FiniteAssumption, FS_Subset
<1>5. /\ Cardinality(PendingOf(o, q)) \in Nat /\ Cardinality(CountedOf(o, s)) \in Nat
  BY HeldNat
<1> HIDE DEF P, C
<1>6. /\ Cardinality(P) \in Nat /\ Cardinality(C) \in Nat
      /\ Cardinality(PendingOf(o, q)) <= Cardinality(P)
      /\ Cardinality(CountedOf(o, s)) <= Cardinality(C)
  BY <1>2, <1>3, <1>4, FS_Subset, FS_CardinalityType
<1>7. MaxPerOwner > 0 => Cardinality(P) + Cardinality(C) < MaxPerOwner
  BY <1>1 DEF BelowLimit
<1>8. HeldBy(o, q, s) = Cardinality(PendingOf(o, q)) + Cardinality(CountedOf(o, s))
  BY DEF HeldBy
<1>9. MaxPerOwner > 0 => HeldBy(o, q, s) < MaxPerOwner
  BY <1>5, <1>6, <1>7, <1>8, BoundsAssumption
<1>10. QED
  BY <1>9 DEF Below

\* The creations are read, and the process goes on with o.
LEMMA ListedCounts ==
  ASSUME OneQueueProcess, Inv, OneInv, LimitInv, NEW p \in QueueProcs, NEW o \in OpState,
         Counts([o EXCEPT !.seen = creation], queue, creation, now),
         Listed(p, o), UNCHANGED <<queue, Env>>
  PROVE  LimitInv'
<1> DEFINE x == [o EXCEPT !.seen = creation]
           y == [o EXCEPT !.seen = creation, !.root = FALSE]
<1>1. /\ y.pc = x.pc /\ y.target = x.target /\ y.rec = x.rec /\ y.cid = x.cid
      /\ y.seen = x.seen /\ y.back = x.back
  BY DEF OpState
<1>2. Continue(p, x) \/ Continue(p, y)
  BY DEF Listed
<1> HIDE DEF x, y
<1>3. Counts(x, queue, creation, now)
  BY DEF x
<1>4. Counts(y, queue, creation, now)
  BY <1>1, <1>3 DEF Counts
<1>5. QED
  BY <1>2, <1>3, <1>4, LimitRead DEF Env

LEMMA SubmitLimit ==
  ASSUME OneQueueProcess, Inv, OneInv, LimitInv, NEW p \in QueueProcs, Submit(p) PROVE LimitInv'
<1>1. PICK n \in Names, o \in Owners, b \in Requesters, t \in Terms :
        Listed(p, [Idle EXCEPT !.pc = "checks", !.target = n, !.rec = Draft(o, b, t)])
  BY DEF Submit
<1> DEFINE r == Draft(o, b, t)
           w == [Idle EXCEPT !.pc = "checks", !.target = n, !.rec = r]
           x == [w EXCEPT !.seen = creation]
<1>2. r \in Record
  BY ZeroTime DEF Draft, Record, People
<1> HIDE DEF r
<1>3. w \in OpState /\ w.pc = "checks" /\ w.back = "idle"
  BY <1>2, IdleFields DEF OpState, Labels
<1>4. Listed(p, w) /\ UNCHANGED <<queue, Env>>
  BY <1>1 DEF r, Submit
<1> HIDE DEF w
<1>5. x.pc = "checks" /\ x.seen = creation /\ x.back = "idle"
  BY <1>3 DEF OpState
<1>6. Reads(creation, queue, creation, now)
  BY ReadsSelf DEF LimitInv, Limited
<1> HIDE DEF x
<1>7. Counts(x, queue, creation, now)
  BY <1>5, <1>6 DEF Counts, Submitting, Requesting
<1>8. QED
  BY <1>3, <1>4, <1>7, ListedCounts DEF x

LEMMA SubmitChecksLimit ==
  ASSUME OneQueueProcess, Inv, OneInv, LimitInv, NEW p \in QueueProcs, SubmitChecks(p)
  PROVE  LimitInv'
<1> DEFINE o == op[p]
           u == creation'
           x == AfterInventory(o, "room")
           F == NameFree(Inventory(o), queue, o.target, None)
           B == BelowLimit(Held(Inventory(o), queue, o.rec.owner, None))
<1>1. /\ o.pc = "checks" /\ Continue(p, IF F /\ B THEN x ELSE Idle) /\ Miss(o)
      /\ UNCHANGED <<queue, now>>
  BY DEF SubmitChecks
<1>2. /\ o \in OpState /\ Good(o, creation) /\ Counts(o, queue, creation, now) /\ p \in Procs
  BY LimitFacts DEF QueueProcs
<1>3. Goes(creation, u)
  BY <1>1, <1>2, MissGoes
<1>4. Reads(o.seen, queue, creation, now)
  BY <1>1, <1>2 DEF Counts
<1>5. Covers(Inventory(o), queue, u)
  BY <1>1, <1>2, <1>4, InventoryCovers
<1> HIDE DEF o, u
<1>6. /\ x.pc = "room" /\ x.target = o.target /\ x.back = o.back /\ x.rec = o.rec
  BY <1>2, AfterInventoryFields DEF Labels
<1>7. ASSUME F PROVE Vacant(o.target, u)
  BY <1>5, <1>7 DEF NameFree, Covers, Vacant, Open
<1>8. ASSUME B PROVE Below(o.rec.owner, queue, u)
  <2>1. None \notin PendingOf(o.rec.owner, queue)
    BY DistinctAssumption DEF PendingOf
  <2>2. \A c \in CountedOf(o.rec.owner, u) : u[c].name # None
    <3>1. \A c \in CountedOf(o.rec.owner, u) : Counted(creation, c) /\ u[c].name = creation[c].name
      BY <1>3, GoesCounted DEF CountedOf
    <3>2. QED
      BY <3>1, OneFacts, DistinctAssumption DEF CountedOf, Counted, Open, Creations, Creation
  <2>3. QED
    BY <1>5, <1>8, <2>1, <2>2, HeldSeen
<1> HIDE DEF x, F, B
<1>9. ASSUME F, B PROVE Counts(x, queue, u, now)
  BY <1>6, <1>7, <1>8, <1>9 DEF Counts, Submitting, Requesting
<1>10. Counts(IF F /\ B THEN x ELSE Idle, queue, u, now)
  BY <1>9, IdleCounts
<1>11. QED
  BY <1>1, <1>3, <1>10, LimitStep DEF u

LEMMA SubmitRoomLimit ==
  ASSUME OneQueueProcess, Inv, OneInv, LimitInv, NEW p \in QueueProcs, SubmitRoom(p)
  PROVE  LimitInv'
<1> DEFINE o == op[p]
           r == [o.rec EXCEPT !.requestedAt = now]
           x == [o EXCEPT !.pc = "replaced", !.rec = r]
<1>1. /\ o.pc = "room" /\ UNCHANGED <<queue, creation, now>>
      /\ Continue(p, x) \/ Continue(p, Idle)
  BY DEF SubmitRoom, Env
<1>2. o \in OpState /\ Good(o, creation) /\ Counts(o, queue, creation, now)
  BY LimitFacts
<1> HIDE DEF o
<1>3. o.rec \in Record
  BY <1>1, <1>2 DEF Good, Writers
<1>4. r.owner = o.rec.owner
  BY <1>3 DEF Record
<1> HIDE DEF r
<1>5. x.pc = "replaced" /\ x.target = o.target /\ x.back = o.back /\ x.rec = r
  BY <1>2 DEF OpState
<1> HIDE DEF x
<1>6. Counts(x, queue, creation, now)
  BY <1>1, <1>2, <1>4, <1>5, CarriedCounts DEF Limiting, Submitting, Requesting
<1>7. QED
  BY <1>1, <1>6, LimitRead, LimitIdle

LEMMA SubmitReplacedLimit ==
  ASSUME OneQueueProcess, Inv, OneInv, LimitInv, NEW p \in QueueProcs, SubmitReplaced(p)
  PROVE  LimitInv'
<1> DEFINE o == op[p]
           n == o.target
           r == Reporting(o, queue, n, "enqueue")
           y == [o EXCEPT !.pc = "enqueue"]
<1>1. /\ o.pc = "replaced" /\ UNCHANGED <<queue, creation, now>>
      /\ Continue(p, r) \/ Continue(p, y)
  BY DEF SubmitReplaced, Env
<1>2. o \in OpState /\ Good(o, creation) /\ Counts(o, queue, creation, now)
  BY LimitFacts
<1> HIDE DEF o
<1>3. n \in Names /\ queue \in Queues
  BY <1>1, <1>2, OneFacts DEF Good, Writers
<1>4. r.pc = "reportRead" /\ r.target = n /\ r.back = "enqueue" /\ r.rec = o.rec
  BY <1>2, <1>3, ReportingFields
<1>5. y.pc = "enqueue" /\ y.target = n /\ y.back = o.back /\ y.rec = o.rec
  BY <1>2 DEF OpState
<1> HIDE DEF r, y
<1>6. Counts(r, queue, creation, now) /\ Counts(y, queue, creation, now)
  BY <1>1, <1>2, <1>4, <1>5, CarriedCounts DEF Limiting, Submitting, Requesting
<1>7. QED
  BY <1>1, <1>6, LimitRead

-----------------------------------------------------------------------------
(* The limit when tags are written.                                        *)

\* One record is written; what shows a creation that waits is kept.
LEMMA AccountsPut ==
  ASSUME NEW q, NEW x, NEW s, NEW v, NEW n \in Names, Accounts(q, s, v),
         \A m \in Names : m # n => x[m] = q[m],
         \A c \in CreateIds :
           Approved(q, n) /\ q[n].cid = c /\ Counted(s, c) /\ Lingers(s, c, v)
             => Approved(x, n) /\ x[n].cid = c /\ x[n].owner = q[n].owner,
         Pending(x, n) => Vacant(n, s)
  PROVE  Accounts(x, s, v)
<1>1. ASSUME NEW c \in CreateIds, Counted(s, c), Lingers(s, c, v)
      PROVE  Names1(c, s[c].owner, x)
  <2>1. PICK m \in Names : Approved(q, m) /\ q[m].cid = c /\ q[m].owner = s[c].owner
    BY <1>1 DEF Accounts, Names1
  <2>2. CASE m = n
    BY <1>1, <2>1, <2>2 DEF Names1
  <2>3. CASE m # n
    BY <2>1, <2>3 DEF Names1, Approved
  <2>4. QED
    BY <2>2, <2>3
<1>2. \A m \in Names : Pending(x, m) => Vacant(m, s)
  BY DEF Accounts, Pending
<1>3. QED
  BY <1>1, <1>2 DEF Accounts

LEMMA WithinPut ==
  ASSUME NEW q, NEW x, NEW s, NEW n \in Names, \A m \in Names : m # n => x[m] = q[m],
         \A o \in Owners : Within(o, q, s),
         Pending(x, n) => \/ Below(x[n].owner, q, s)
                          \/ Pending(q, n) /\ q[n].owner = x[n].owner
  PROVE  \A o \in Owners : Within(o, x, s)
<1> SUFFICES ASSUME NEW o \in Owners PROVE Within(o, x, s)
  OBVIOUS
<1>1. CASE Pending(x, n) /\ x[n].owner = o /\ Below(o, q, s)
  <2>1. PendingOf(o, x) \subseteq PendingOf(o, q) \cup {n}
    BY DEF PendingOf, Pending
  <2>2. HeldBy(o, x, s) <= HeldBy(o, q, s) + 1
    BY <2>1, HeldMore
  <2>3. QED
    BY <1>1, <2>2, BelowMore
<1>2. CASE ~(Pending(x, n) /\ x[n].owner = o) \/ (Pending(q, n) /\ q[n].owner = o)
  <2>1. PendingOf(o, x) \subseteq PendingOf(o, q)
    BY <1>2 DEF PendingOf, Pending
  <2>2. HeldBy(o, x, s) <= HeldBy(o, q, s)
    BY <2>1, HeldLess
  <2>3. QED
    BY <2>2, BelowLess
<1>3. QED
  BY <1>1, <1>2

\* Records leave that do not show a creation that waits.
LEMMA LimitedDrop ==
  ASSUME NEW q, NEW x, NEW s, NEW v, Limited(q, s, v), \A m \in Names : x[m] \in {q[m], NoRecord},
         \A m \in Names, c \in CreateIds :
           x[m] = NoRecord /\ Approved(q, m) /\ q[m].cid = c /\ Counted(s, c)
             => ~Lingers(s, c, v)
  PROVE  Limited(x, s, v)
<1>1. ASSUME NEW c \in CreateIds, Counted(s, c), Lingers(s, c, v)
      PROVE  Names1(c, s[c].owner, x)
  <2>1. PICK m \in Names : Approved(q, m) /\ q[m].cid = c /\ q[m].owner = s[c].owner
    BY <1>1 DEF Limited, Accounts, Names1
  <2>2. x[m] = q[m]
    BY <1>1, <2>1
  <2>3. QED
    BY <2>1, <2>2 DEF Names1, Approved
<1>2. \A m \in Names : Pending(x, m) => Pending(q, m) /\ x[m] = q[m]
  BY DEF Pending
<1>3. \A m \in Names : Pending(x, m) => Vacant(m, s)
  BY <1>2 DEF Limited, Accounts
<1>4. ASSUME NEW o \in Owners PROVE Within(o, x, s)
  <2>1. PendingOf(o, x) \subseteq PendingOf(o, q)
    BY <1>2 DEF PendingOf
  <2>2. HeldBy(o, x, s) <= HeldBy(o, q, s)
    BY <2>1, HeldLess
  <2>3. QED
    BY <2>2, BelowLess DEF Limited
<1>5. QED
  BY <1>1, <1>3, <1>4 DEF Limited, Accounts

LEMMA EnqueueLimit ==
  ASSUME OneQueueProcess, Inv, OneInv, LimitInv, NEW p \in QueueProcs, Enqueue(p) PROVE LimitInv'
<1> DEFINE o == op[p]
           n == o.target
<1>1. PICK j \in Journeys :
        /\ queue' = [queue EXCEPT ![n] = [o.rec EXCEPT !.jid = j]]
        /\ Continue(p, Idle) \/ Continue(p, AfterError(p))
  BY DEF Enqueue, WriteTags
<1> DEFINE r == [o.rec EXCEPT !.jid = j]
<1>2. o.pc = "enqueue" /\ UNCHANGED <<creation, now>>
  BY DEF Enqueue
<1>3. /\ o \in OpState /\ Good(o, creation) /\ Knows(o, queue, creation, notices, now)
      /\ Counts(o, queue, creation, now) /\ Limited(queue, creation, now)
  BY LimitFacts
<1>4. queue' = [queue EXCEPT ![n] = r] /\ Continue(p, Idle)
  BY <1>1, <1>2, ErrorIdle
<1> HIDE DEF o
<1>5. /\ o.rec \in Record /\ n \in Names /\ Takes(n, queue, creation)
      /\ Vacant(n, creation) /\ Below(o.rec.owner, queue, creation)
  BY <1>2, <1>3 DEF Good, Writers, Knows, Submits, Submitting, Counts
<1>6. r \in Record /\ r.owner = o.rec.owner
  BY <1>5 DEF Record
<1> HIDE DEF r, n
<1>7. queue'[n] = r /\ r # NoRecord /\ \A m \in Names : m # n => queue'[m] = queue[m]
  BY <1>4, <1>5, <1>6, PutFacts
<1>8. ASSUME NEW c \in CreateIds, Approved(queue, n), queue[n].cid = c, Counted(creation, c)
      PROVE  FALSE
  <2>1. LastOf(queue[n], creation)
    BY <1>5, <1>8, StateFacts, DistinctAssumption DEF Records, Filed, Approved
  <2>2. OthersFailed(queue[n].jid, None, creation)
    BY <1>5, <1>8 DEF Takes, Approved
  <2>3. Gone(creation[c])
    BY <1>8, <2>1, <2>2, DistinctAssumption DEF LastOf, OthersFailed
  <2>4. QED
    BY <1>8, <2>3 DEF Gone, Counted, Noticed, Open
<1>9. Accounts(queue', creation, now)
  BY <1>3, <1>5, <1>7, <1>8, AccountsPut DEF Limited
<1>10. \A w \in Owners : Within(w, queue', creation)
  BY <1>3, <1>5, <1>6, <1>7, WithinPut DEF Limited
<1>11. Limited(queue', creation', now)
  BY <1>2, <1>9, <1>10 DEF Limited
<1>12. QED
  BY <1>2, <1>4, <1>11, IdleCounts, LimitProc

-----------------------------------------------------------------------------
(* The limit in reportCreationFailure.                                     *)

LEMMA AfterReportCounts ==
  ASSUME NEW p, op[p] \in OpState, NEW q, NEW s, NEW v, Counts(op[p], q, s, v)
  PROVE  Counts(AfterReport(p), q, s, v)
<1> DEFINE o == op[p]
           x == [o EXCEPT !.pc = "enqueue", !.tags = EmptyQueue, !.back = "idle"]
           a == [o.tags EXCEPT ![o.target].reported = TRUE]
           y == [o EXCEPT !.pc = "expire", !.tags = a]
           E == o.back = "enqueue"
           X == o.back = "expire"
<1>1. AfterReport(p) = IF E THEN x ELSE IF X THEN y ELSE Idle
  BY DEF AfterReport
<1>2. o \in OpState /\ Counts(o, q, s, v)
  OBVIOUS
<1> HIDE DEF o, a
<1>3. /\ x.pc = "enqueue" /\ x.target = o.target /\ x.rec = o.rec /\ x.back = "idle"
      /\ y.pc = "expire" /\ y.back = o.back
  BY <1>2 DEF OpState
<1> HIDE DEF x, y
<1>4. E => Counts(x, q, s, v)
  BY <1>2, <1>3, CarriedCounts DEF Limiting, Submitting, Requesting
<1>5. X => Counts(y, q, s, v)
  BY <1>3, QuietCounts DEF Limiting, Submitting, Requesting
<1> HIDE DEF E, X
<1>6. QED
  BY <1>1, <1>4, <1>5, IdleCounts

LEMMA ReportReadLimit ==
  ASSUME OneQueueProcess, Inv, OneInv, LimitInv, NEW p \in QueueProcs, ReportRead(p) PROVE LimitInv'
<1> DEFINE o == op[p]
           t == [o.tags EXCEPT ![o.target] = queue[o.target]]
           x == [o EXCEPT !.pc = "reportWrite", !.tags = t]
<1>1. /\ o.pc = "reportRead" /\ UNCHANGED <<queue, creation, now>>
      /\ Continue(p, x) \/ Continue(p, AfterReport(p))
  BY DEF ReportRead, Env
<1>2. o \in OpState /\ Counts(o, queue, creation, now) /\ Counts(AfterReport(p), queue, creation, now)
  BY LimitFacts, AfterReportCounts
<1> HIDE DEF o, t
<1>3. x.pc = "reportWrite" /\ x.target = o.target /\ x.rec = o.rec /\ x.back = o.back
  BY <1>2 DEF OpState
<1> HIDE DEF x
<1>4. Counts(x, queue, creation, now)
  BY <1>1, <1>2, <1>3, CarriedCounts DEF Limiting, Submitting, Requesting
<1>5. QED
  BY <1>1, <1>2, <1>4, LimitRead

LEMMA AnnounceLimit ==
  ASSUME OneQueueProcess, Inv, OneInv, LimitInv, NEW p \in QueueProcs, Announce(p) PROVE LimitInv'
<1>1. Counts(AfterReport(p), queue, creation, now)
  BY LimitFacts, AfterReportCounts
<1>2. QED
  BY <1>1, LimitRead DEF Announce

LEMMA ReportWriteLimit ==
  ASSUME OneQueueProcess, Inv, OneInv, LimitInv, NEW p \in QueueProcs, ReportWrite(p)
  PROVE  LimitInv'
<1> DEFINE o == op[p]
           n == o.target
           r == [o.tags[n] EXCEPT !.reported = TRUE]
           x == [o EXCEPT !.pc = "announce"]
<1>1. /\ o.pc = "reportWrite" /\ queue' = [queue EXCEPT ![n] = r] /\ UNCHANGED <<creation, now>>
      /\ Continue(p, x) \/ Continue(p, AfterError(p))
  BY DEF ReportWrite, WriteTags, Env
<1>2. /\ o \in OpState /\ Good(o, creation) /\ Knows(o, queue, creation, notices, now)
      /\ Counts(o, queue, creation, now) /\ Limited(queue, creation, now)
  BY LimitFacts
<1>3. Counts(AfterError(p), queue', creation', now)
  BY <1>1, <1>2, ErrorCounts DEF Requesting
<1> HIDE DEF o
<1>4. /\ n \in Names /\ o.tags[n] \in Record /\ queue[n] = o.tags[n] /\ queue[n].approved
  BY <1>1, <1>2 DEF Good, Reports, Knows, Reported
<1>5. r \in Record /\ r.owner = queue[n].owner /\ r.approved /\ r.cid = queue[n].cid
  BY <1>4 DEF Record
<1>6. x.pc = "announce" /\ x.target = o.target /\ x.rec = o.rec /\ x.back = o.back
  BY <1>2 DEF OpState
<1> HIDE DEF r, x
<1>7. queue'[n] = r /\ r # NoRecord /\ \A m \in Names : m # n => queue'[m] = queue[m]
  BY <1>1, <1>4, <1>5, PutFacts
<1>8. ~Pending(queue', n) /\ Approved(queue', n)
  BY <1>5, <1>7 DEF Pending, Approved
<1>9. Accounts(queue', creation, now)
  BY <1>2, <1>4, <1>5, <1>7, <1>8, AccountsPut DEF Limited
<1>10. \A w \in Owners : Within(w, queue', creation)
  BY <1>2, <1>4, <1>7, <1>8, WithinPut DEF Limited
<1>11. Limited(queue', creation', now)
  BY <1>1, <1>9, <1>10 DEF Limited
<1>12. Counts(x, queue', creation', now)
  <2>1. CASE o.back = "enqueue"
    <3>1. Vacant(o.target, creation) /\ Below(o.rec.owner, queue, creation)
      BY <1>2, <2>1 DEF Counts
    <3>2. PendingOf(o.rec.owner, queue') \subseteq PendingOf(o.rec.owner, queue)
      BY <1>7, <1>8 DEF PendingOf, Pending
    <3>3. HeldBy(o.rec.owner, queue', creation) <= HeldBy(o.rec.owner, queue, creation)
      BY <3>2, HeldLess
    <3>4. Below(o.rec.owner, queue', creation)
      BY <3>1, <3>3, BelowLess
    <3>5. QED
      BY <1>1, <1>6, <3>1, <3>4 DEF Counts, Submitting, Requesting
  <2>2. CASE o.back # "enqueue"
    BY <1>6, <2>2, QuietCounts DEF Limiting, Submitting, Requesting
  <2>3. QED
    BY <2>1, <2>2
<1>13. QED
  BY <1>1, <1>3, <1>11, <1>12, LimitProc

-----------------------------------------------------------------------------
(* The limit in Approve and Request.                                       *)

LEMMA ApproveLimit ==
  ASSUME OneQueueProcess, Inv, OneInv, LimitInv, NEW p \in QueueProcs, Approve(p) PROVE LimitInv'
<1>1. PICK ref \in shown, a \in Approvers :
        /\ SeenAs(ref)
        /\ Continue(p, [Idle EXCEPT !.pc = "claim", !.target = ref.name, !.ref = ref,
                         !.rec = [queue[ref.name] EXCEPT !.approved = TRUE, !.approver = a,
                                                         !.approvedAt = now]])
  BY DEF Approve
<1> DEFINE n == ref.name
           r == [queue[n] EXCEPT !.approved = TRUE, !.approver = a, !.approvedAt = now]
           x == [Idle EXCEPT !.pc = "claim", !.target = n, !.ref = ref, !.rec = r]
<1>2. Continue(p, x) /\ UNCHANGED <<queue, creation, now>>
  BY <1>1 DEF Approve, Env
<1>3. n \in Names /\ queue[n] \in Record
  BY <1>1, OneFacts DEF SeenAs, Pending, Inv, TypeOK, Ref, Queues
<1>4. r.owner = queue[n].owner
  BY <1>3 DEF Record
<1> HIDE DEF r, n
<1>5. x.pc = "claim" /\ x.target = n /\ x.rec = r /\ x.back = "idle"
  BY IdleFields DEF OpState
<1> HIDE DEF x
<1>6. Counts(x, queue, creation, now)
  BY <1>4, <1>5 DEF Counts, Submitting, Requesting
<1>7. QED
  BY <1>2, <1>6, LimitRead

LEMMA ClaimLimit ==
  ASSUME OneQueueProcess, Inv, OneInv, LimitInv, NEW p \in QueueProcs, Claim(p) PROVE LimitInv'
<1> DEFINE o == op[p]
           n == o.target
           w == o.rec.owner
           x == [o EXCEPT !.pc = "list"]
<1>1. /\ o.pc = "claim" /\ queue' = [queue EXCEPT ![n] = o.rec] /\ UNCHANGED <<creation, now>>
      /\ Continue(p, x) \/ Continue(p, Idle)
  BY ErrorIdle DEF Claim, WriteTags, Env
<1>2. /\ o \in OpState /\ Good(o, creation) /\ Knows(o, queue, creation, notices, now)
      /\ Counts(o, queue, creation, now) /\ Limited(queue, creation, now)
  BY LimitFacts
<1> HIDE DEF o
<1>3. /\ n \in Names /\ o.rec \in Record /\ Pending(queue, n) /\ o.rec.approved
      /\ w = queue[n].owner /\ w \in Owners /\ o.back # "enqueue"
  BY <1>1, <1>2, BackFacts
     DEF Good, Writers, Knows, Approves, Pending, Claimed, Counts, Record, Reports
<1>4. queue'[n] = o.rec /\ o.rec # NoRecord /\ \A m \in Names : m # n => queue'[m] = queue[m]
  BY <1>1, <1>3, PutFacts
<1>5. ~Pending(queue', n) /\ ~Approved(queue, n)
  BY <1>3, <1>4 DEF Pending, Approved
<1>6. Accounts(queue', creation, now)
  BY <1>2, <1>3, <1>4, <1>5, AccountsPut DEF Limited
<1>7. \A v \in Owners : Within(v, queue', creation)
  BY <1>2, <1>3, <1>4, <1>5, WithinPut DEF Limited
<1>8. Limited(queue', creation', now)
  BY <1>1, <1>6, <1>7 DEF Limited
<1>9. Below(w, queue', creation)
  <2>1. n \in PendingOf(w, queue) /\ PendingOf(w, queue') \subseteq PendingOf(w, queue) \ {n}
    BY <1>3, <1>4, <1>5 DEF PendingOf, Pending
  <2>2. HeldBy(w, queue', creation) < HeldBy(w, queue, creation)
    BY <2>1, HeldFewer
  <2>3. QED
    BY <1>2, <1>3, <2>2, BelowFewer DEF Limited
<1>10. Vacant(n, creation)
  BY <1>2, <1>3 DEF Limited, Accounts
<1>11. x.pc = "list" /\ x.target = n /\ x.rec = o.rec /\ x.back = o.back
  BY <1>2 DEF OpState
<1> HIDE DEF x
<1>12. Counts(x, queue', creation', now)
  BY <1>1, <1>3, <1>9, <1>10, <1>11 DEF Counts, Submitting, Requesting
<1>13. QED
  BY <1>1, <1>8, <1>12, IdleCounts, LimitProc

\* On the way from the claim to the creation.
LEMMA RequestCounts ==
  ASSUME NEW o, NEW x, NEW q, NEW s, NEW v, Counts(o, q, s, v), o.pc \in Requesting, x.pc \in Requesting,
         x.target = o.target, x.rec = o.rec, x.back # "enqueue"
  PROVE  Counts(x, q, s, v)
BY DEF Counts, Submitting, Requesting

LEMMA RequestListLimit ==
  ASSUME OneQueueProcess, Inv, OneInv, LimitInv, NEW p \in QueueProcs, RequestList(p)
  PROVE  LimitInv'
<1> DEFINE o == op[p]
           w == [o EXCEPT !.pc = "records"]
           x == [w EXCEPT !.seen = creation]
<1>1. o.pc = "list" /\ Listed(p, w) /\ UNCHANGED <<queue, Env>>
  BY DEF RequestList
<1>2. /\ o \in OpState /\ Counts(o, queue, creation, now) /\ Knows(o, queue, creation, notices, now)
  BY LimitFacts
<1>3. o.back # "enqueue" /\ o.pc \in Requesting
  BY <1>1, <1>2, BackFacts DEF Reports, Requesting
<1> HIDE DEF o
<1>4. /\ w \in OpState /\ w.pc = "records" /\ w.target = o.target /\ w.rec = o.rec /\ w.back = o.back
  BY <1>2 DEF OpState, Labels
<1> HIDE DEF w
<1>5. x.pc \in Requesting /\ x.target = o.target /\ x.rec = o.rec /\ x.back # "enqueue"
  BY <1>3, <1>4 DEF OpState, Requesting
<1> HIDE DEF x
<1>6. Counts(x, queue, creation, now)
  BY <1>2, <1>3, <1>5, RequestCounts
<1>7. QED
  BY <1>1, <1>4, <1>6, ListedCounts DEF x

LEMMA RequestRecordsLimit ==
  ASSUME OneQueueProcess, Inv, OneInv, LimitInv, NEW p \in QueueProcs, RequestRecords(p)
  PROVE  LimitInv'
<1> DEFINE o == op[p]
           u == creation'
           x == AfterInventory(o, "create")
<1>1. /\ o.pc = "records" /\ Miss(o) /\ UNCHANGED <<queue, now>>
      /\ Continue(p, x) \/ Continue(p, AfterError(p))
  BY DEF RequestRecords
<1>2. /\ o \in OpState /\ Good(o, creation) /\ Counts(o, queue, creation, now)
      /\ Knows(o, queue, creation, notices, now) /\ p \in Procs
  BY LimitFacts DEF QueueProcs
<1>3. Goes(creation, u)
  BY <1>1, <1>2, MissGoes
<1> HIDE DEF u
<1>4. Counts(o, queue, u, now)
  BY <1>2, <1>3, CountsLater
<1>5. Counts(AfterError(p), queue, u, now)
  BY <1>2, <1>4, ErrorCounts
<1>6. o.back # "enqueue" /\ o.pc \in Requesting
  BY <1>1, <1>2, BackFacts DEF Reports, Requesting
<1> HIDE DEF o
<1>7. /\ x.pc \in Requesting /\ x.target = o.target /\ x.rec = o.rec /\ x.back # "enqueue"
  BY <1>2, <1>6, AfterInventoryFields DEF Labels, Requesting
<1> HIDE DEF x
<1>8. Counts(x, queue, u, now)
  BY <1>4, <1>6, <1>7, RequestCounts
<1>9. QED
  BY <1>1, <1>3, <1>5, <1>8, LimitStep DEF u

\* A new creation is not counted before its record has its id.
LEMMA CreatedGoes ==
  ASSUME Inv, NEW c \in CreateIds, creation[c] = NoCreation, NEW k, ~k.confirmed,
         NEW u, u = [creation EXCEPT ![c] = k]
  PROVE  Goes(creation, u)
<1>1. u[c] = k /\ \A d \in CreateIds : d # c => u[d] = creation[d]
  BY OneFacts DEF Creations
<1>2. QED
  BY <1>1, GoesSame DEF Goes

LEMMA CreateLimit ==
  ASSUME OneQueueProcess, Inv, OneInv, LimitInv, NEW p \in QueueProcs, CreateAccount(p)
  PROVE  LimitInv'
<1> DEFINE o == op[p]
           k(j) == [name |-> o.target, jid |-> j, owner |-> o.rec.owner, by |-> o.rec.by,
                    terms |-> o.rec.terms, approver |-> o.rec.approver, ref |-> o.ref,
                    state |-> "creating", doneAt |-> 0, confirmed |-> FALSE,
                    missed |-> FALSE]
           x(c) == [o EXCEPT !.pc = "confirm", !.cid = c, !.rec.approvedAt = now, !.rec.cid = c]
<1>1. PICK c \in CreateIds, j \in Journeys :
        /\ creation[c] = NoCreation /\ creation' = [creation EXCEPT ![c] = k(j)]
        /\ Continue(p, Idle) \/ Continue(p, x(c)) \/ Continue(p, AfterError(p))
  BY DEF CreateAccount
<1>2. o.pc = "create" /\ UNCHANGED <<queue, now>>
  BY DEF CreateAccount
<1>3. /\ o \in OpState /\ Good(o, creation) /\ Knows(o, queue, creation, notices, now)
      /\ Counts(o, queue, creation, now)
  BY LimitFacts
<1> DEFINE kj == k(j)
<1>4. kj.owner = o.rec.owner /\ ~kj.confirmed /\ creation' = [creation EXCEPT ![c] = kj]
  BY <1>1
<1> HIDE DEF kj
<1>5. creation'[c] = kj /\ Goes(creation, creation')
  BY <1>1, <1>4, OneFacts, CreatedGoes DEF Creations
<1>6. Counts(o, queue, creation', now)
  BY <1>3, <1>5, CountsLater
<1>7. Counts(AfterError(p), queue, creation', now)
  BY <1>3, <1>6, ErrorCounts
<1>8. o.rec \in Record /\ o.back # "enqueue"
  BY <1>2, <1>3, BackFacts DEF Good, Writers, Reports
<1> HIDE DEF o
<1> DEFINE rc == [o.rec EXCEPT !.approvedAt = now, !.cid = c]
           xc == [o EXCEPT !.pc = "confirm", !.cid = c, !.rec = rc]
<1>9. rc.owner = o.rec.owner
  BY <1>8 DEF Record
<1>10. x(c) = xc
  BY <1>3, <1>8 DEF OpState, Record
<1> HIDE DEF rc
<1>11. xc.pc = "confirm" /\ xc.target = o.target /\ xc.rec = rc /\ xc.back = o.back /\ xc.cid = c
  BY <1>3 DEF OpState
<1>12. Continue(p, Idle) \/ Continue(p, xc) \/ Continue(p, AfterError(p))
  BY <1>1, <1>10
<1> HIDE DEF xc, x, k
<1>13. Counts(xc, queue, creation', now)
  BY <1>2, <1>4, <1>5, <1>6, <1>8, <1>9, <1>11 DEF Counts, Submitting, Requesting
<1>14. QED
  BY <1>2, <1>5, <1>7, <1>12, <1>13, IdleCounts, LimitStep

LEMMA RestoreLimit ==
  ASSUME OneQueueProcess, Inv, OneInv, LimitInv, NEW p \in QueueProcs, ApproveRestore(p)
  PROVE  LimitInv'
<1> DEFINE o == op[p]
           n == o.target
           r == [o.rec EXCEPT !.approved = FALSE, !.approver = None, !.approvedAt = 0]
<1>1. /\ o.pc = "restore" /\ queue' = [queue EXCEPT ![n] = r] /\ UNCHANGED <<creation, now>>
      /\ Continue(p, Idle)
  BY ErrorIdle DEF ApproveRestore, WriteTags, Env
<1>2. /\ Good(o, creation) /\ Knows(o, queue, creation, notices, now)
      /\ Counts(o, queue, creation, now) /\ Limited(queue, creation, now)
  BY LimitFacts
<1> HIDE DEF o
<1>3. /\ n \in Names /\ o.rec \in Record /\ queue[n] = o.rec /\ queue[n].cid = None
      /\ Vacant(n, creation) /\ Below(o.rec.owner, queue, creation)
  BY <1>1, <1>2 DEF Good, Writers, Knows, Approves, Requesting, Claimed, Counts
<1>4. r \in Record /\ r.owner = o.rec.owner
  BY <1>3, ZeroTime DEF Record
<1> HIDE DEF r
<1>5. queue'[n] = r /\ r # NoRecord /\ \A m \in Names : m # n => queue'[m] = queue[m]
  BY <1>1, <1>3, <1>4, PutFacts
<1>6. Accounts(queue', creation, now)
  <2>1. \A c \in CreateIds : queue[n].cid # c
    BY <1>3, DistinctAssumption
  <2>2. Accounts(queue, creation, now)
    BY <1>2 DEF Limited
  <2>3. QED
    BY <1>3, <1>5, <2>1, <2>2, AccountsPut
<1>7. \A w \in Owners : Within(w, queue', creation)
  BY <1>2, <1>3, <1>4, <1>5, WithinPut DEF Limited
<1>8. Limited(queue', creation', now)
  BY <1>1, <1>6, <1>7 DEF Limited
<1>9. QED
  BY <1>1, <1>8, IdleCounts, LimitProc

\* The creation is counted from here on, and its approved record shows it.
LEMMA ConfirmLimit ==
  ASSUME OneQueueProcess, Inv, OneInv, LimitInv, NEW p \in QueueProcs, ApproveConfirm(p)
  PROVE  LimitInv'
<1> DEFINE o == op[p]
           n == o.target
           c == o.cid
           w == o.rec.owner
           k == [creation[c] EXCEPT !.confirmed = TRUE]
<1>1. /\ o.pc = "confirm" /\ queue' = [queue EXCEPT ![n] = o.rec]
      /\ creation' = [creation EXCEPT ![c].confirmed = TRUE] /\ Continue(p, Idle)
      /\ UNCHANGED now
  BY ErrorIdle DEF ApproveConfirm, WriteTags
<1>2. /\ Good(o, creation) /\ Knows(o, queue, creation, notices, now)
      /\ Counts(o, queue, creation, now) /\ Limited(queue, creation, now)
  BY LimitFacts
<1> HIDE DEF o
<1>3. /\ n \in Names /\ o.rec \in Record /\ c \in CreateIds /\ creation[c] # NoCreation
      /\ queue[n] # NoRecord /\ queue[n].approved /\ queue[n].cid = None
      /\ queue[n].jid = o.rec.jid /\ creation[c].jid = o.rec.jid
      /\ o.rec.cid = c /\ o.rec.approved
      /\ Vacant(n, creation) /\ Below(w, queue, creation) /\ creation[c].owner = w
  BY <1>1, <1>2 DEF Good, Writers, Knows, Approves, Claimed, LastOf, Counts, Requesting
<1>4. creation[c].name = n
  BY <1>3, StateFacts DEF Records, Filed
<1>5. creation[c] \in Creation /\ creation \in Creations
  BY <1>3, OneFacts DEF Creations
<1>6. /\ k # NoCreation /\ k.name = n /\ k.owner = w /\ k.state = creation[c].state
      /\ k.jid = creation[c].jid /\ k.missed = creation[c].missed /\ k.doneAt = creation[c].doneAt
      /\ creation' = [creation EXCEPT ![c] = k]
  <2>1. /\ k \in Creation /\ k.name = n /\ k.owner = w /\ k.state = creation[c].state
        /\ k.jid = creation[c].jid /\ k.missed = creation[c].missed
        /\ k.doneAt = creation[c].doneAt
    BY <1>3, <1>4, <1>5 DEF Creation
  <2>2. QED
    BY <1>1, <2>1, DistinctAssumption
<1> HIDE DEF k
<1>7. creation'[c] = k /\ \A d \in CreateIds : d # c => creation'[d] = creation[d]
  BY <1>3, <1>5, <1>6 DEF Creations
<1>8. queue'[n] = o.rec /\ o.rec # NoRecord /\ \A m \in Names : m # n => queue'[m] = queue[m]
  BY <1>1, <1>3, PutFacts
<1>9. ~Pending(queue', n) /\ Approved(queue', n)
  BY <1>3, <1>8 DEF Pending, Approved
<1>16. ASSUME NEW d \in CreateIds, d # c, Counted(creation', d)
       PROVE  Counted(creation, d) /\ creation'[d] = creation[d]
  <2>1. creation'[d] = creation[d] /\ Open(creation, d) /\ creation[d].confirmed
    BY <1>7, <1>16 DEF Counted, Open
  <2>2. Noticed(creation, d)
    <3>1. ASSUME NEW e \in CreateIds, creation[e] # NoCreation, creation[e].jid = creation[d].jid
          PROVE  ~creation[e].missed
      <4>1. creation'[e] # NoCreation /\ creation'[e].jid = creation'[d].jid
        BY <1>6, <1>7, <2>1, <3>1
      <4>2. ~creation'[e].missed
        BY <1>16, <4>1 DEF Counted, Noticed
      <4>3. QED
        BY <1>6, <1>7, <4>2
    <3>2. QED
      BY <3>1 DEF Noticed
  <2>3. QED
    BY <2>1, <2>2 DEF Counted
<1>10. ASSUME NEW d \in CreateIds, Counted(creation', d), Lingers(creation', d, now)
       PROVE  Names1(d, creation'[d].owner, queue')
  <2>1. CASE d = c
    BY <1>3, <1>6, <1>7, <1>8, <1>9, <2>1 DEF Names1
  <2>2. CASE d # c
    <3>1. Counted(creation, d) /\ creation'[d] = creation[d]
      BY <1>10, <1>16, <2>2
    <3>2. Lingers(creation, d, now)
      BY <1>10, <3>1 DEF Lingers
    <3>3. PICK m \in Names : Approved(queue, m) /\ queue[m].cid = d /\ queue[m].owner = creation[d].owner
      BY <1>2, <3>1, <3>2 DEF Limited, Accounts, Names1
    <3>4. m # n
      BY <1>3, <3>3, DistinctAssumption
    <3>5. QED
      BY <1>8, <3>1, <3>3, <3>4 DEF Names1, Approved
  <2>3. QED
    BY <2>1, <2>2
<1>11. ASSUME NEW m \in Names, Pending(queue', m) PROVE Vacant(m, creation')
  <2>1. m # n /\ Pending(queue, m)
    BY <1>8, <1>9, <1>11 DEF Pending
  <2>2. Vacant(m, creation)
    BY <1>2, <2>1 DEF Limited, Accounts
  <2>3. ASSUME NEW d \in CreateIds, Counted(creation', d) PROVE creation'[d].name # m
    BY <1>6, <1>7, <1>16, <2>1, <2>2, <2>3 DEF Vacant
  <2>4. QED
    BY <2>3 DEF Vacant
<1>12. Accounts(queue', creation', now)
  BY <1>10, <1>11 DEF Accounts
<1>13. ASSUME NEW v \in Owners PROVE Within(v, queue', creation')
  <2>1. PendingOf(v, queue') \subseteq PendingOf(v, queue)
    BY <1>8, <1>9 DEF PendingOf, Pending
  <2>2. CountedOf(v, creation') \subseteq CountedOf(v, creation) \cup {c}
    BY <1>16 DEF CountedOf
  <2>3. CASE v = w
    <3>1. HeldBy(v, queue', creation') <= HeldBy(v, queue, creation) + 1
      BY <2>1, <2>2, HeldMore
    <3>2. QED
      BY <1>3, <2>3, <3>1, BelowMore
  <2>4. CASE v # w
    <3>1. CountedOf(v, creation') \subseteq CountedOf(v, creation)
      BY <1>6, <1>7, <2>2, <2>4 DEF CountedOf
    <3>2. HeldBy(v, queue', creation') <= HeldBy(v, queue, creation)
      BY <2>1, <3>1, HeldLess
    <3>3. QED
      BY <1>2, <3>2, BelowLess DEF Limited
  <2>5. QED
    BY <2>3, <2>4
<1>14. Limited(queue', creation', now)
  BY <1>12, <1>13 DEF Limited
<1>15. QED
  BY <1>1, <1>14, IdleCounts, LimitProc

-----------------------------------------------------------------------------
(* The limit in UpdateRequest.                                             *)

LEMMA UpdateRequestLimit ==
  ASSUME OneQueueProcess, Inv, OneInv, LimitInv, NEW p \in QueueProcs, UpdateRequest(p)
  PROVE  LimitInv'
<1>1. PICK ref \in shown, o \in Owners, t \in Terms :
        /\ SeenAs(ref)
        /\ Continue(p, [Idle EXCEPT !.pc = IF o # ref.owner THEN "editList" ELSE "edit",
                         !.target = ref.name, !.ref = ref,
                         !.rec = [queue[ref.name] EXCEPT !.owner = o, !.terms = t]])
  BY DEF UpdateRequest
<1> DEFINE n == ref.name
           r == [queue[n] EXCEPT !.owner = o, !.terms = t]
           l == IF o # ref.owner THEN "editList" ELSE "edit"
           x == [Idle EXCEPT !.pc = l, !.target = n, !.ref = ref, !.rec = r]
<1>2. Continue(p, x) /\ UNCHANGED <<queue, creation, now>>
  BY <1>1 DEF UpdateRequest, Env
<1>3. n \in Names /\ Pending(queue, n)
  BY <1>1, SeenFacts DEF SeenAs
<1>4. queue[n] \in Record /\ ref.owner = queue[n].owner
  BY <1>1, <1>3, PendingFacts DEF SeenAs, Version
<1>5. r.owner = o
  BY <1>4 DEF Record
<1> HIDE DEF r
<1>6. l \in {"editList", "edit"} /\ (l = "edit" => r.owner = queue[n].owner)
  BY <1>4, <1>5
<1> HIDE DEF l, n
<1>7. x.pc = l /\ x.target = n /\ x.rec = r /\ x.back = "idle"
  BY IdleFields DEF OpState
<1> HIDE DEF x
<1>8. Counts(x, queue, creation, now)
  BY <1>6, <1>7 DEF Counts, Submitting, Requesting
<1>9. QED
  BY <1>2, <1>8, LimitRead

LEMMA UpdateListLimit ==
  ASSUME OneQueueProcess, Inv, OneInv, LimitInv, NEW p \in QueueProcs, UpdateList(p)
  PROVE  LimitInv'
<1> DEFINE o == op[p]
           w == [o EXCEPT !.pc = "editChecks"]
           x == [w EXCEPT !.seen = creation]
<1>1. o.pc = "editList" /\ Listed(p, w) /\ UNCHANGED <<queue, Env>>
  BY DEF UpdateList
<1>2. /\ o \in OpState /\ Knows(o, queue, creation, notices, now)
      /\ Limited(queue, creation, now)
  BY LimitFacts
<1>3. o.back # "enqueue"
  BY <1>1, <1>2, BackFacts DEF Reports
<1> HIDE DEF o
<1>4. w \in OpState /\ w.pc = "editChecks" /\ w.back = o.back
  BY <1>2 DEF OpState, Labels
<1> HIDE DEF w
<1>5. x.pc = "editChecks" /\ x.seen = creation /\ x.back = o.back
  BY <1>4 DEF OpState
<1> HIDE DEF x
<1>6. Reads(x.seen, queue, creation, now)
  BY <1>2, <1>5, ReadsSelf DEF Limited
<1>7. Counts(x, queue, creation, now)
  BY <1>3, <1>5, <1>6 DEF Counts, Submitting, Requesting
<1>8. QED
  BY <1>1, <1>4, <1>7, ListedCounts DEF x

LEMMA UpdateChecksLimit ==
  ASSUME OneQueueProcess, Inv, OneInv, LimitInv, NEW p \in QueueProcs, UpdateChecks(p)
  PROVE  LimitInv'
<1> DEFINE o == op[p]
           u == creation'
           n == o.target
           w == o.rec.owner
           x == AfterInventory(o, "edit")
           B == BelowLimit(Held(Inventory(o), queue, w, n))
<1>1. /\ o.pc = "editChecks" /\ Continue(p, IF B THEN x ELSE Idle) /\ Miss(o)
      /\ UNCHANGED <<queue, now>>
  BY DEF UpdateChecks
<1>2. /\ o \in OpState /\ Good(o, creation) /\ Knows(o, queue, creation, notices, now)
      /\ Counts(o, queue, creation, now) /\ Limited(queue, creation, now) /\ p \in Procs
  BY LimitFacts DEF QueueProcs
<1>3. o.back # "enqueue"
  BY <1>1, <1>2, BackFacts DEF Reports
<1>4. Goes(creation, u)
  BY <1>1, <1>2, MissGoes
<1>5. Reads(o.seen, queue, creation, now)
  BY <1>1, <1>2 DEF Counts
<1>6. Covers(Inventory(o), queue, u)
  BY <1>1, <1>2, <1>5, InventoryCovers
<1> HIDE DEF o, u
<1>7. n \in Names /\ Pending(queue, n)
  BY <1>1, <1>2 DEF Good, Writers, Knows, Edits, Editing
<1>8. Vacant(n, u)
  BY <1>2, <1>4, <1>7, GoesVacant DEF Limited, Accounts
<1>9. ASSUME B, w # queue[n].owner PROVE Below(w, queue, u)
  <2>1. n \notin PendingOf(w, queue)
    BY <1>9 DEF PendingOf
  <2>2. \A c \in CountedOf(w, u) : u[c].name # n
    BY <1>8 DEF CountedOf, Vacant
  <2>3. QED
    BY <1>6, <1>9, <2>1, <2>2, HeldSeen
<1>10. x.pc = "edit" /\ x.target = n /\ x.rec = o.rec /\ x.back = o.back
  BY <1>2, AfterInventoryFields DEF Labels
<1> HIDE DEF x, B
<1>11. ASSUME B PROVE Counts(x, queue, u, now)
  BY <1>3, <1>9, <1>10, <1>11 DEF Counts, Submitting, Requesting
<1>12. Counts(IF B THEN x ELSE Idle, queue, u, now)
  BY <1>11, IdleCounts
<1>13. QED
  BY <1>1, <1>4, <1>12, LimitStep DEF u

LEMMA UpdateWriteLimit ==
  ASSUME OneQueueProcess, Inv, OneInv, LimitInv, NEW p \in QueueProcs, UpdateWrite(p)
  PROVE  LimitInv'
<1> DEFINE o == op[p]
           n == o.target
<1>1. /\ o.pc = "edit" /\ queue' = [queue EXCEPT ![n] = o.rec] /\ UNCHANGED <<creation, now>>
      /\ Continue(p, Idle)
  BY ErrorIdle DEF UpdateWrite, WriteTags
<1>2. /\ Good(o, creation) /\ Knows(o, queue, creation, notices, now)
      /\ Counts(o, queue, creation, now) /\ Limited(queue, creation, now)
  BY LimitFacts
<1> HIDE DEF o
<1>3. /\ n \in Names /\ o.rec \in Record /\ Pending(queue, n)
      /\ o.rec.owner = queue[n].owner \/ Below(o.rec.owner, queue, creation)
  BY <1>1, <1>2 DEF Good, Writers, Knows, Edits, Editing, Counts
<1>4. queue'[n] = o.rec /\ o.rec # NoRecord /\ \A m \in Names : m # n => queue'[m] = queue[m]
  BY <1>1, <1>3, PutFacts
<1>5. ~Approved(queue, n) /\ Vacant(n, creation) /\ Accounts(queue, creation, now)
  BY <1>2, <1>3 DEF Approved, Pending, Limited, Accounts
<1>6. Accounts(queue', creation, now)
  BY <1>3, <1>4, <1>5, AccountsPut
<1>7. \A v \in Owners : Within(v, queue', creation)
  BY <1>2, <1>3, <1>4, WithinPut DEF Limited
<1>8. Limited(queue', creation', now)
  BY <1>1, <1>6, <1>7 DEF Limited
<1>9. QED
  BY <1>1, <1>8, IdleCounts, LimitProc

-----------------------------------------------------------------------------
(* The limit when records leave.                                           *)

LEMMA RemoveDecidedLimit ==
  ASSUME OneQueueProcess, Inv, OneInv, LimitInv, NEW p \in QueueProcs, RemoveDecided(p)
  PROVE  LimitInv'
<1> DEFINE o == op[p]
<1>1. /\ o.pc = "remove" /\ queue' = [queue EXCEPT ![o.target] = NoRecord] /\ UNCHANGED <<creation, now>>
      /\ Continue(p, Idle)
  BY ErrorIdle DEF RemoveDecided, WriteTags, Env
<1>2. /\ Knows(o, queue, creation, notices, now) /\ Limited(queue, creation, now)
  BY LimitFacts
<1> HIDE DEF o
<1>3. Pending(queue, o.target)
  BY <1>1, <1>2 DEF Knows, Edits
<1>4. \A m \in Names : queue'[m] = IF m = o.target THEN NoRecord ELSE queue[m]
  BY <1>1, OneFacts DEF Queues
<1>5. \A m \in Names : queue'[m] \in {queue[m], NoRecord}
  BY <1>4
<1>6. \A m \in Names : queue'[m] = NoRecord => ~Approved(queue, m)
  BY <1>3, <1>4 DEF Pending, Approved
<1>7. Limited(queue', creation, now)
  BY <1>2, <1>5, <1>6, LimitedDrop
<1>8. QED
  BY <1>1, <1>7, IdleCounts, LimitProc

LEMMA PlacingCounts ==
  ASSUME NEW o \in OpState, o.back # "enqueue", NEW q, NEW s, NEW v
  PROVE  Counts(Placing(o), q, s, v)
<1>1. Placing(o).pc = "place" /\ Placing(o).back = o.back
  BY DEF Placing, OpState
<1>2. QED
  BY <1>1, QuietCounts DEF Limiting, Submitting, Requesting

\* dropApprovedRecord: the record that goes names the account that was placed.
LEMMA DropRemoveLimit ==
  ASSUME OneQueueProcess, Inv, OneInv, LimitInv, NEW p \in QueueProcs, DropRemove(p)
  PROVE  LimitInv'
<1> DEFINE o == op[p]
           n == o.target
<1>1. /\ o.pc = "dropRemove" /\ queue' = [queue EXCEPT ![n] = NoRecord] /\ UNCHANGED <<creation, now>>
      /\ Continue(p, Placing(o))
  BY DEF DropRemove, WriteTags, AfterError, Env
<1>2. /\ o \in OpState /\ Good(o, creation) /\ Knows(o, queue, creation, notices, now)
      /\ Limited(queue, creation, now)
  BY LimitFacts
<1>3. Counts(Placing(o), queue', creation', now)
  BY <1>1, <1>2, BackFacts, PlacingCounts DEF Reports
<1> HIDE DEF o
<1>4. /\ n \in Names /\ o.cid \in CreateIds
      /\ creation[o.cid] # NoCreation /\ creation[o.cid].state \in {"placed", "closed"}
      /\ Approved(queue, n) /\ queue[n].jid = creation[o.cid].jid
  BY <1>1, <1>2 DEF Good, Knows, Places
<1>5. \A m \in Names : queue'[m] = IF m = n THEN NoRecord ELSE queue[m]
  BY <1>1, OneFacts DEF Queues
<1>6. \A m \in Names : queue'[m] \in {queue[m], NoRecord}
  BY <1>5
<1>7. Filed(n, queue[n], creation, issued, now)
  BY <1>4, StateFacts DEF Records, Approved
<1>8. ASSUME NEW c \in CreateIds, queue[n].cid = c, Counted(creation, c)
      PROVE  ~Lingers(creation, c, now)
  <2>1. OthersFailed(queue[n].jid, c, creation) /\ creation[c].jid = queue[n].jid
    BY <1>7, <1>8, DistinctAssumption DEF Filed, LastOf
  <2>2. ASSUME o.cid # c PROVE FALSE
    <3>1. Gone(creation[o.cid])
      BY <1>4, <2>1, <2>2 DEF OthersFailed
    <3>2. creation[o.cid].missed
      BY <1>4, <3>1 DEF Gone
    <3>3. QED
      BY <1>4, <1>8, <2>1, <3>2 DEF Counted, Noticed
  <2>3. QED
    BY <1>4, <2>2 DEF Lingers
<1>9. ASSUME NEW m \in Names, NEW c \in CreateIds, queue'[m] = NoRecord, Approved(queue, m),
             queue[m].cid = c, Counted(creation, c)
      PROVE  ~Lingers(creation, c, now)
  BY <1>5, <1>8, <1>9 DEF Approved
<1>10. Limited(queue', creation, now)
  BY <1>2, <1>6, <1>9, LimitedDrop
<1>11. QED
  BY <1>1, <1>3, <1>10, LimitProc

\* expireRequests: no record goes whose creation waits.
LEMMA ExpireRemoveLimit ==
  ASSUME OneQueueProcess, Inv, OneInv, LimitInv, NEW p \in QueueProcs, ExpireRemove(p)
  PROVE  LimitInv'
<1> DEFINE o == op[p]
           Leaves(n) == n \in o.todo /\ Drops(o.tags[n], o.seen, o.at)
<1>1. /\ o.pc = "expire" /\ Continue(p, Idle) /\ UNCHANGED <<creation, now>>
      /\ \A n \in Names : queue'[n] = IF Leaves(n) THEN NoRecord ELSE queue[n]
  BY OneFacts, ErrorIdle DEF ExpireRemove, WriteTags, Env
<1>2. /\ Good(o, creation) /\ Knows(o, queue, creation, notices, now) /\ o \in OpState
      /\ Limited(queue, creation, now)
  BY LimitFacts
<1> HIDE DEF o
<1>3. ASSUME NEW n \in Names, NEW c \in CreateIds, Leaves(n), Approved(queue, n), queue[n].cid = c
      PROVE  ~Lingers(creation, c, now)
  <2>1. o.tags[n] = queue[n] /\ o.seen[c] # NoCreation
    BY <1>1, <1>2, <1>3, DistinctAssumption DEF Good, Knows, Expires
  <2>2. \/ o.seen[c].state = "failed"
        \/ /\ o.seen[c].state \in {"unplaced", "placed", "closed"}
           /\ o.at > o.seen[c].doneAt + DayLong
    BY <1>3, <2>1, DistinctAssumption DEF Drops, Approved
  <2>3. Past(o.seen, creation)
    BY <1>2 DEF Knows
  <2>4. /\ o.at \in Nat /\ now \in Nat /\ o.at <= now /\ DayLong \in Nat
        /\ o.seen[c].doneAt \in Nat
    <3>1. o.at \in Times /\ o.seen \in Creations
      BY <1>2 DEF OpState
    <3>2. o.seen[c] \in Creation
      BY <2>1, <3>1 DEF Creations
    <3>3. o.at <= now
      BY <1>1, <1>2 DEF Good, Knows, Expires
    <3>4. QED
      BY <3>1, <3>2, <3>3, OneFacts, BoundsAssumption DEF Creation, Times
  <2>5. CASE o.seen[c].state = "failed"
    BY <2>1, <2>3, <2>5 DEF Past, Lingers
  <2>6. CASE o.seen[c].state \in {"unplaced", "placed", "closed"} /\ o.at > o.seen[c].doneAt + DayLong
    <3>1. creation[c].state # "creating" /\ creation[c].doneAt = o.seen[c].doneAt
      BY <2>1, <2>3, <2>6 DEF Past
    <3>2. QED
      BY <2>4, <2>6, <3>1 DEF Lingers
  <2>7. QED
    BY <2>2, <2>5, <2>6
<1>4. \A n \in Names : queue'[n] \in {queue[n], NoRecord}
  BY <1>1
<1> HIDE DEF Leaves
<1>5. ASSUME NEW n \in Names, NEW c \in CreateIds, queue'[n] = NoRecord, Approved(queue, n),
             queue[n].cid = c
      PROVE  ~Lingers(creation, c, now)
  BY <1>1, <1>3, <1>5 DEF Approved
<1>6. Limited(queue', creation, now)
  BY <1>2, <1>4, <1>5, LimitedDrop
<1>7. QED
  BY <1>1, <1>6, IdleCounts, LimitProc

-----------------------------------------------------------------------------
(* The limit while creations end, are placed and close.                    *)

\* Creation c goes on to k and does not become counted.
LEMMA GoesPut ==
  ASSUME Inv, NEW c \in CreateIds, creation[c] # NoCreation, NEW k, GoesTo(creation[c], k),
         NEW u, u = [creation EXCEPT ![c] = k]
  PROVE  Goes(creation, u)
<1>1. u[c] = k /\ \A d \in CreateIds : d # c => u[d] = creation[d]
  BY OneFacts DEF Creations
<1>2. QED
  BY <1>1, GoesSame DEF Goes

LEMMA CreationEndsLimit ==
  ASSUME Inv, LimitInv, NEW c \in CreateIds, CreationEnds(c) PROVE LimitInv'
<1>1. PICK s \in {"failed", "unplaced"} :
        creation' = [creation EXCEPT ![c].state = s, ![c].doneAt = now]
  BY DEF CreationEnds
<1> DEFINE k == [creation[c] EXCEPT !.state = s, !.doneAt = now]
<1>2. /\ creation \in Creations /\ creation[c] \in Creation /\ now \in Times
      /\ creation[c] # NoCreation /\ creation[c].state = "creating" /\ UNCHANGED <<queue, now, op>>
  BY DEF CreationEnds, Inv, TypeOK, Creations
<1>3. creation' = [creation EXCEPT ![c] = k]
  BY <1>1, <1>2 DEF Creations
<1>4. /\ k \in Creation /\ k.owner = creation[c].owner /\ k.name = creation[c].name
      /\ k.confirmed = creation[c].confirmed /\ k.state = s /\ k.jid = creation[c].jid
      /\ k.missed = creation[c].missed
  BY <1>2 DEF Creation, States
<1> HIDE DEF k
<1>5. GoesTo(creation[c], k)
  BY <1>2, <1>4, DistinctAssumption DEF GoesTo
<1>6. Goes(creation, creation')
  BY <1>2, <1>3, <1>4, <1>5, GoesPut
<1>7. QED
  BY <1>2, <1>6, LimitBeside

LEMMA AccountClosesLimit ==
  ASSUME Inv, LimitInv, NEW c \in CreateIds, AccountCloses(c) PROVE LimitInv'
<1> DEFINE k == [creation[c] EXCEPT !.state = "closed"]
<1>1. creation[c] \in Creation /\ creation[c] # NoCreation /\ UNCHANGED <<queue, now, op>>
  BY DEF AccountCloses, Inv, TypeOK, Creations
<1>2. creation' = [creation EXCEPT ![c] = k]
  BY DEF AccountCloses
<1>3. /\ k \in Creation /\ k.owner = creation[c].owner /\ k.name = creation[c].name
      /\ k.confirmed = creation[c].confirmed /\ k.state = "closed" /\ k.jid = creation[c].jid
      /\ k.missed = creation[c].missed
  BY <1>1 DEF Creation, States
<1> HIDE DEF k
<1>4. GoesTo(creation[c], k)
  BY <1>1, <1>3, DistinctAssumption DEF GoesTo
<1>5. Goes(creation, creation')
  BY <1>1, <1>2, <1>3, <1>4, GoesPut
<1>6. QED
  BY <1>1, <1>5, LimitBeside

LEMMA PlaceLimit ==
  ASSUME OneQueueProcess, Inv, OneInv, LimitInv, NEW p \in QueueProcs, Place(p) PROVE LimitInv'
<1> DEFINE o == op[p]
           rest(c) == [o EXCEPT !.seen[c] = NoCreation]
           placed(c) == [creation EXCEPT ![c].state = IF @ = "unplaced" THEN "placed" ELSE @]
           next(c) == [rest(c) EXCEPT !.pc = "dropRead", !.cid = c, !.target = creation[c].name]
<1>1. PICK c \in Unplaced(o.seen) :
        \/ creation' = placed(c) /\ (Continue(p, next(c)) \/ Continue(p, rest(c)))
        \/ UNCHANGED <<creation, now>> /\ Continue(p, rest(c))
  BY DEF Place
<1>2. o.pc = "place" /\ UNCHANGED <<queue, now>>
  BY DEF Place
<1>3. o \in OpState /\ Knows(o, queue, creation, notices, now)
  BY LimitFacts
<1>4. o.back # "enqueue"
  BY <1>2, <1>3, BackFacts DEF Reports
<1> HIDE DEF o
<1>5. c \in CreateIds /\ o.seen[c] # NoCreation /\ o.seen[c].state = "unplaced"
  BY DEF Unplaced
<1>6. /\ creation[c] # NoCreation /\ creation[c] \in Creation
      /\ creation[c].state \in {"unplaced", "placed", "closed"}
  BY <1>3, <1>5, OneFacts DEF Knows, Past, Creations
<1> DEFINE s == [o.seen EXCEPT ![c] = NoCreation]
           x == [o EXCEPT !.seen = s]
           y == [o EXCEPT !.seen = s, !.pc = "dropRead", !.cid = c, !.target = creation[c].name]
           st == IF creation[c].state = "unplaced" THEN "placed" ELSE creation[c].state
           k == [creation[c] EXCEPT !.state = st]
<1>7. rest(c) = x /\ next(c) = y /\ placed(c) = [creation EXCEPT ![c] = k]
  OBVIOUS
<1> HIDE DEF rest, next, placed, s
<1>8. /\ st \in {"placed", "closed"}
      /\ st = "placed" => creation[c].state \in {"unplaced", "placed"}
  BY <1>6
<1> HIDE DEF st
<1>9. /\ k \in Creation /\ k.owner = creation[c].owner /\ k.name = creation[c].name
      /\ k.confirmed = creation[c].confirmed /\ k.state = st /\ k.jid = creation[c].jid
      /\ k.missed = creation[c].missed
  BY <1>6, <1>8 DEF Creation, States
<1> HIDE DEF k
<1>10. GoesTo(creation[c], k)
  BY <1>8, <1>9, DistinctAssumption DEF GoesTo
<1>12. creation' = [creation EXCEPT ![c] = k] => Goes(creation, creation')
  BY <1>5, <1>6, <1>10, GoesPut
<1>13. Goes(creation, creation')
  BY <1>1, <1>7, <1>12, GoesSame
<1>14. /\ x.pc = "place" /\ x.back = o.back /\ y.pc = "dropRead" /\ y.back = o.back
  BY <1>2, <1>3 DEF OpState
<1>15. Continue(p, x) \/ Continue(p, y)
  BY <1>1, <1>7
<1> HIDE DEF x, y
<1>16. x.pc \notin Limiting /\ y.pc \notin Limiting /\ x.back # "enqueue" /\ y.back # "enqueue"
  BY <1>4, <1>14 DEF Limiting, Submitting, Requesting
<1>17. QED
  BY <1>2, <1>13, <1>15, <1>16, LimitQuiet

-----------------------------------------------------------------------------
(* Steps at which the limit does not matter.                               *)

\* What starts a decision, a pass, or the report of a failure.
LEMMA StartQuiet ==
  ASSUME OneQueueProcess, Inv, OneInv, LimitInv, NEW p \in QueueProcs,
         DenyOrWithdraw(p) \/ Refresh(p) \/ PollSucceeded(p) \/ PollFailed(p)
  PROVE  LimitInv'
<1>1. UNCHANGED <<queue, now>> /\ Goes(creation, creation')
  BY GoesSame DEF DenyOrWithdraw, Refresh, PollSucceeded, PollFailed, Env
<1>2. CASE DenyOrWithdraw(p)
  <2>1. PICK ref \in shown :
          Continue(p, [Idle EXCEPT !.pc = "remove", !.target = ref.name, !.ref = ref])
    BY <1>2 DEF DenyOrWithdraw
  <2> DEFINE x == [Idle EXCEPT !.pc = "remove", !.target = ref.name, !.ref = ref]
  <2>2. x.pc = "remove" /\ x.back = "idle" /\ Continue(p, x)
    BY <2>1, IdleFields DEF OpState
  <2> HIDE DEF x
  <2>3. QED
    BY <1>1, <2>2, LimitQuiet DEF Limiting, Submitting, Requesting
<1>3. CASE Refresh(p)
  <2> DEFINE y == [Idle EXCEPT !.pc = "place", !.back = "refresh"]
             x == [y EXCEPT !.seen = creation]
  <2>1. Continue(p, x) \/ Continue(p, y)
    BY <1>3 DEF Refresh
  <2>2. y \in OpState /\ y.pc = "place" /\ y.back = "refresh"
    BY IdleFields DEF OpState, Labels, Callers
  <2> HIDE DEF y
  <2>3. x.pc = "place" /\ x.back = "refresh"
    BY <2>2 DEF OpState
  <2> HIDE DEF x
  <2>4. QED
    BY <1>1, <2>1, <2>2, <2>3, LimitQuiet DEF Limiting, Submitting, Requesting
<1>4. CASE PollSucceeded(p)
  <2>1. PICK c \in CreateIds :
          Continue(p, [Idle EXCEPT !.pc = "place", !.back = "poll",
                                   !.seen = [NoCreations EXCEPT ![c] = creation[c]]])
    BY <1>4 DEF PollSucceeded
  <2> DEFINE x == [Idle EXCEPT !.pc = "place", !.back = "poll",
                               !.seen = [NoCreations EXCEPT ![c] = creation[c]]]
  <2>2. x.pc = "place" /\ x.back = "poll" /\ Continue(p, x)
    BY <2>1, IdleFields DEF OpState
  <2> HIDE DEF x
  <2>3. QED
    BY <1>1, <2>2, LimitQuiet DEF Limiting, Submitting, Requesting
<1>5. CASE PollFailed(p)
  <2>1. PICK n \in Names : Continue(p, Reporting(Idle, queue, n, "idle"))
    BY <1>5 DEF PollFailed
  <2> DEFINE x == Reporting(Idle, queue, n, "idle")
  <2>2. x.pc = "reportRead" /\ x.back = "idle" /\ Continue(p, x)
    BY <2>1, OneFacts, IdleFields, ReportingFields
  <2> HIDE DEF x
  <2>3. QED
    BY <1>1, <2>2, LimitQuiet DEF Limiting, Submitting, Requesting
<1>6. QED
  BY <1>2, <1>3, <1>4, <1>5

\* The reading steps of a pass.
LEMMA PassQuiet ==
  ASSUME OneQueueProcess, Inv, OneInv, LimitInv, NEW p \in QueueProcs,
         DropRead(p) \/ PollDone(p) \/ ExpireRead(p) \/ ExpireList(p) \/ ExpireReport(p)
  PROVE  LimitInv'
<1>1. UNCHANGED <<queue, now>> /\ Goes(creation, creation') /\ UNCHANGED <<creation, now>>
  BY GoesSame DEF DropRead, PollDone, ExpireRead, ExpireList, ExpireReport, Env
<1>2. op[p] \in OpState /\ Knows(op[p], queue, creation, notices, now)
  BY LimitFacts
<1>3. op[p].pc \in {"dropRead", "place", "expireList", "expire"}
  BY DEF DropRead, PollDone, ExpireRead, ExpireList, ExpireReport
<1>4. op[p].back # "enqueue"
  BY <1>2, <1>3, BackFacts DEF Reports
<1>5. CASE DropRead(p)
  <2> DEFINE x == [op[p] EXCEPT !.pc = "dropRemove"]
  <2>1. Continue(p, x) \/ Continue(p, Placing(op[p]))
    BY <1>5 DEF DropRead
  <2>2. x.pc = "dropRemove" /\ x.back = op[p].back
    BY <1>2 DEF OpState
  <2> HIDE DEF x
  <2>3. Counts(x, queue, creation, now)
    BY <1>4, <2>2, QuietCounts DEF Limiting, Submitting, Requesting
  <2>4. Counts(Placing(op[p]), queue, creation, now)
    BY <1>2, <1>4, PlacingCounts
  <2>5. QED
    BY <1>1, <2>1, <2>3, <2>4, LimitRead
<1>6. CASE PollDone(p)
  BY <1>1, <1>6, LimitIdle DEF PollDone
<1>7. CASE ExpireRead(p)
  <2> DEFINE d == {n \in Names : queue[n] # NoRecord}
             x == [Idle EXCEPT !.pc = "expireList", !.tags = queue, !.todo = d, !.back = "expire"]
  <2>1. x.pc = "expireList" /\ x.back = "expire" /\ Continue(p, x)
    BY <1>7, IdleFields DEF OpState, ExpireRead
  <2> HIDE DEF x
  <2>2. QED
    BY <1>1, <2>1, LimitQuiet DEF Limiting, Submitting, Requesting
<1>8. CASE ExpireList(p)
  <2> DEFINE x == [op[p] EXCEPT !.pc = "expire", !.seen = creation, !.at = now]
  <2>1. x.pc = "expire" /\ x.back = op[p].back /\ Continue(p, x)
    BY <1>2, <1>8 DEF OpState, ExpireList
  <2> HIDE DEF x
  <2>2. QED
    BY <1>1, <1>4, <2>1, LimitQuiet DEF Limiting, Submitting, Requesting
<1>9. CASE ExpireReport(p)
  <2>1. PICK n \in Unreported(op[p]) : Continue(p, Reporting(op[p], op[p].tags, n, "expire"))
    BY <1>9 DEF ExpireReport
  <2> DEFINE x == Reporting(op[p], op[p].tags, n, "expire")
  <2>2. n \in Names /\ op[p].tags \in Queues
    BY <1>2 DEF Unreported, OpState
  <2>3. x.pc = "reportRead" /\ x.back = "expire" /\ Continue(p, x)
    BY <1>2, <2>1, <2>2, ReportingFields
  <2> HIDE DEF x
  <2>4. QED
    BY <1>1, <2>3, LimitQuiet DEF Limiting, Submitting, Requesting
<1>10. QED
  BY <1>5, <1>6, <1>7, <1>8, <1>9

-----------------------------------------------------------------------------
(* Direct creations, which the limit does not count.                       *)

LEMMA DirectSilentLimit ==
  ASSUME Inv, LimitInv, NEW p \in DirectCreators, NEW o, Continue(p, o),
         UNCHANGED <<queue, now>>, Goes(creation, creation')
  PROVE  LimitInv'
<1>1. op \in [Procs -> OpState] /\ op' = [op EXCEPT ![p] = o]
  BY DEF Inv, TypeOK, Continue
<1>2. \A r \in QueueProcs : op'[r] = op[r]
  BY <1>1 DEF QueueProcs
<1>3. QED
  BY <1>2, LimitBeside

LEMMA DirectCreationLimit ==
  ASSUME Inv, OneInv, LimitInv, NEW p \in DirectCreators, CreateAccount(p) PROVE LimitInv'
<1> DEFINE o == op[p]
           k(j) == [name |-> o.target, jid |-> j, owner |-> o.rec.owner, by |-> o.rec.by,
                    terms |-> o.rec.terms, approver |-> o.rec.approver, ref |-> o.ref,
                    state |-> "creating", doneAt |-> 0, confirmed |-> FALSE,
                    missed |-> FALSE]
<1>1. o.ref = NoRef /\ AfterError(p) = Idle
  BY DirectFacts, DirectError DEF Direct
<1>2. PICK c \in CreateIds, j \in Journeys :
        /\ creation[c] = NoCreation /\ creation' = [creation EXCEPT ![c] = k(j)]
        /\ Continue(p, Idle)
  BY <1>1 DEF CreateAccount
<1>3. UNCHANGED <<queue, now>>
  BY DEF CreateAccount
<1> DEFINE kj == k(j)
<1>4. ~kj.confirmed /\ creation' = [creation EXCEPT ![c] = kj]
  BY <1>2
<1> HIDE DEF kj, k, o
<1>5. Goes(creation, creation')
  BY <1>2, <1>4, CreatedGoes
<1>6. QED
  BY <1>2, <1>3, <1>5, DirectSilentLimit

LEMMA DirectStepLimit ==
  ASSUME Inv, OneInv, LimitInv, NEW p \in DirectCreators,
         DirectCreate(p) \/ Proceed(p) \/ CallFails(p) \/ Crash(p)
  PROVE  LimitInv'
<1>1. op[p].pc \in {"idle", "list", "records", "create"}
  BY DirectFacts DEF Direct
<1>2. ASSUME UNCHANGED <<creation, now>> PROVE Goes(creation, creation')
  BY <1>2, GoesSame
<1>3. CASE DirectCreate(p)
  BY <1>2, <1>3, DirectSilentLimit DEF DirectCreate, Env
<1>4. CASE CallFails(p) \/ Crash(p)
  BY <1>2, <1>4, DirectSilentLimit DEF CallFails, Crash
<1>5. CASE Proceed(p)
  <2>1. ~SubmitSteps(p)
    BY <1>1 DEF SubmitSteps, SubmitChecks, SubmitRoom, SubmitReplaced, Enqueue
  <2>2. ~ReportSteps(p)
    BY <1>1 DEF ReportSteps, ReportRead, ReportWrite, Announce
  <2>3. ~EditSteps(p)
    BY <1>1 DEF EditSteps, UpdateList, UpdateChecks, UpdateWrite, RemoveDecided
  <2>4. ~PassSteps(p)
    BY <1>1 DEF PassSteps, Place, DropRead, DropRemove, PollDone, ExpireRead, ExpireList,
       ExpireReport, ExpireRemove
  <2>5. CASE ApproveSteps(p)
    <3>1. RequestList(p) \/ RequestRecords(p) \/ CreateAccount(p)
      BY <1>1, <2>5 DEF ApproveSteps, Claim, ApproveRestore, ApproveConfirm
    <3>2. CASE RequestList(p)
      BY <1>2, <3>2, DirectSilentLimit DEF RequestList, Listed, Env
    <3>3. CASE RequestRecords(p)
      <4>1. Miss(op[p]) /\ UNCHANGED <<queue, now>> /\ p \in Procs
        BY <3>3, DirectFacts DEF RequestRecords
      <4>2. Goes(creation, creation')
        BY <4>1, MissGoes
      <4>3. QED
        BY <3>3, <4>1, <4>2, DirectSilentLimit DEF RequestRecords
    <3>4. QED
      BY <3>1, <3>2, <3>3, DirectCreationLimit
  <2>6. CASE OutOfIds(p)
    BY <1>2, <2>6, DirectSilentLimit DEF OutOfIds
  <2>7. QED
    BY <1>5, <2>1, <2>2, <2>3, <2>4, <2>5, <2>6 DEF Proceed
<1>6. QED
  BY <1>3, <1>4, <1>5

-----------------------------------------------------------------------------
LEMMA ProceedLimit ==
  ASSUME OneQueueProcess, Inv, OneInv, LimitInv, NEW p \in QueueProcs, Proceed(p) PROVE LimitInv'
<1>1. CASE SubmitSteps(p)
  BY <1>1, SubmitChecksLimit, SubmitRoomLimit, SubmitReplacedLimit, EnqueueLimit DEF SubmitSteps
<1>2. CASE ReportSteps(p)
  BY <1>2, ReportReadLimit, ReportWriteLimit, AnnounceLimit DEF ReportSteps
<1>3. CASE ApproveSteps(p)
  BY <1>3, ClaimLimit, RequestListLimit, RequestRecordsLimit, CreateLimit, RestoreLimit, ConfirmLimit DEF ApproveSteps
<1>4. CASE EditSteps(p)
  BY <1>4, UpdateListLimit, UpdateChecksLimit, UpdateWriteLimit, RemoveDecidedLimit DEF EditSteps
<1>5. CASE PassSteps(p)
  BY <1>5, PlaceLimit, PassQuiet, DropRemoveLimit, ExpireRemoveLimit DEF PassSteps
<1>6. CASE OutOfIds(p)
  BY <1>6, FailLimit
<1>7. QED
  BY <1>1, <1>2, <1>3, <1>4, <1>5, <1>6 DEF Proceed

LEMMA StartLimit ==
  ASSUME OneQueueProcess, Inv, OneInv, LimitInv, NEW p \in QueueProcs, Start(p) PROVE LimitInv'
BY SubmitLimit, ApproveLimit, UpdateRequestLimit, StartQuiet DEF Start

LEMMA InitLimit == Init => LimitInv
<1> SUFFICES ASSUME Init PROVE LimitInv
  OBVIOUS
<1>1. /\ \A n \in Names : ~Pending(queue, n)
      /\ \A c \in CreateIds : ~Counted(creation, c)
      /\ \A p \in Procs : op[p] = Idle
  BY DEF Init, EmptyQueue, NoCreations, Pending, Counted, Open
<1>2. Accounts(queue, creation, now)
  BY <1>1 DEF Accounts
<1>3. ASSUME NEW o \in Owners PROVE Within(o, queue, creation)
  <2>1. PendingOf(o, queue) = {} /\ CountedOf(o, creation) = {}
    BY <1>1 DEF PendingOf, CountedOf
  <2>2. HeldBy(o, queue, creation) = 0
    BY <2>1, FS_EmptySet DEF HeldBy
  <2>3. QED
    BY <2>2, BoundsAssumption DEF Within
<1>4. \A p \in QueueProcs : Counts(op[p], queue, creation, now)
  BY <1>1, IdleCounts DEF QueueProcs
<1>5. QED
  BY <1>2, <1>3, <1>4 DEF LimitInv, Limited

LEMMA NextLimit == ASSUME OneQueueProcess, Inv, OneInv, LimitInv, [Next]_vars PROVE LimitInv'
<1>1. CASE \E p \in Procs \ DirectCreators : Start(p)
  BY <1>1, StartLimit DEF QueueProcs
<1>2. CASE \E p \in DirectCreators : DirectCreate(p)
  BY <1>2, DirectStepLimit
<1>3. CASE \E p \in Procs : Proceed(p) \/ CallFails(p) \/ Crash(p)
  <2>1. PICK p \in Procs : Proceed(p) \/ CallFails(p) \/ Crash(p)
    BY <1>3
  <2>2. CASE p \in DirectCreators
    BY <2>1, <2>2, DirectStepLimit
  <2>3. CASE p \in QueueProcs
    BY <2>1, <2>3, ProceedLimit, FailLimit
  <2>4. QED
    BY <2>2, <2>3 DEF QueueProcs
<1>4. CASE \E c \in CreateIds : CreationEnds(c) \/ AccountCloses(c)
  BY <1>4, CreationEndsLimit, AccountClosesLimit
<1>5. CASE Tick
  <2>1. now \in Nat /\ now' \in Nat /\ now <= now' /\ creation \in Creations
    BY <1>5, OneFacts DEF Tick
  <2>2. UNCHANGED <<queue, creation, op>>
    BY <1>5 DEF Tick
  <2>3. Limited(queue, creation, now')
    BY <2>1, LaterLimited DEF LimitInv
  <2>4. ASSUME NEW p \in QueueProcs PROVE Counts(op[p], queue, creation, now')
    <3>1. op[p] \in OpState /\ Counts(op[p], queue, creation, now)
      BY LimitFacts
    <3>2. QED
      BY <2>1, <3>1, LaterCounts
  <2>5. QED
    BY <2>2, <2>3, <2>4 DEF LimitInv
<1>6. CASE UNCHANGED vars
  BY <1>6 DEF vars, LimitInv
<1>7. QED
  BY <1>1, <1>2, <1>3, <1>4, <1>5, <1>6 DEF Next

\* Pending requests and open accounts of one owner stay within MaxPerOwner,
\* counting the accounts whose approved record got its creation id and of whose
\* request no inventory lacked a creation: the room SubmitRequest and
\* UpdateRequest found is still there when the record is written, and a claim
\* keeps its room until the confirmation or the restore.
THEOREM OwnerWithinLimitHolds == ASSUME OneQueueProcess PROVE Spec => []OwnerWithinLimit
<1>1. LimitInv /\ OneInv /\ Inv /\ [Next]_vars => LimitInv'
  BY NextLimit
<1>2. ASSUME LimitInv PROVE OwnerWithinLimit
  <2> SUFFICES ASSUME MaxPerOwner > 0, NEW o \in Owners PROVE Holding(o) <= MaxPerOwner
    BY DEF OwnerWithinLimit
  <2>1. HeldBy(o, queue, creation) <= MaxPerOwner
    BY <1>2 DEF LimitInv, Limited, Within
  <2>2. CountedOf(o, creation) = {c \in CreateIds : /\ Open(creation, c) /\ creation[c].owner = o
                                                    /\ creation[c].confirmed
                                                    /\ Noticed(creation, c)}
    BY DEF CountedOf, Counted
  <2>3. Holding(o) = HeldBy(o, queue, creation)
    BY <2>2 DEF Holding, HeldBy, PendingOf
  <2>4. QED
    BY <2>1, <2>3
<1>3. LimitInv => OwnerWithinLimit
  BY <1>2
<1>4. QED
  BY <1>1, <1>3, InitLimit, OneInvariant, Invariance, PTL DEF Spec

=============================================================================
