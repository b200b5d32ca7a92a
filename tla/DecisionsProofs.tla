-------------------------- MODULE DecisionsProofs --------------------------
(***************************************************************************)
(* Theorems about Decisions, for all names, forms, clicks, limits and      *)
(* numbers of faults: the answers are true, claims are settled, and        *)
(* decisions end in time.                                                  *)
(***************************************************************************)
EXTENDS Decisions, FiniteSetTheorems, WellFoundedInduction, SequenceTheorems, TLAPS

-----------------------------------------------------------------------------
(* Types. *)

Ref == [name : Names, ver : Nat]
Kinds == {"approved", "denied", "gone", "own", "changed", "failed", "refused", "not-tried"}
Result == [ref : Ref, kind : Kinds]
Phases == {"none", "view", "loop", "call", "render", "answered", "cut"}
Versions == [Names -> Nat \cup {None}]
Calls == [Deciders -> Call \cup {None}]
Posts == [phase : Phases, action : {"approve", "deny", None}, todo : SUBSET Nat,
          results : Seq(Result), age : Nat, stopped : BOOLEAN,
          view : Versions \cup {None}, refs : Seq(Ref)]
Locks == [by : Deciders \cup {None}, held : Nat]

TypeOK ==
  /\ pending \in Versions
  /\ claimed \in SUBSET Names
  /\ decided \in SUBSET [name : Names, ver : Nat, by : Deciders]
  /\ post \in Posts
  /\ clicked \in SUBSET Clicks
  /\ calls \in Calls
  /\ lock \in Locks
  /\ server \in {"up", "stopping", "gone"}
  /\ drained \in Nat
  /\ waited \in BOOLEAN
  /\ changes \in Nat /\ faults \in Nat /\ hangs \in Nat

-----------------------------------------------------------------------------
(* The inductive invariant.  What is left of a post are the places of the  *)
(* form that have no result yet; what is done has one, of another name,    *)
(* except for the decision of a call under way, whose creation may be made *)
(* before its restore.                                                     *)

Decision(ref) == [name |-> ref.name, ver |-> ref.ver, by |-> Post]

Told(results, stopped, refs, left, decisions) ==
  /\ left \subseteq Distinct(refs)
  /\ \A i, j \in DOMAIN results : i # j => results[i].ref.name # results[j].ref.name
  /\ \A i \in DOMAIN results, k \in left : results[i].ref.name # refs[k].name
  /\ \A i \in DOMAIN results : \E k \in DOMAIN refs : results[i].ref = refs[k]
  /\ \A k \in DOMAIN refs : \/ \E i \in DOMAIN results : results[i].ref.name = refs[k].name
                            \/ \E j \in left : refs[j].name = refs[k].name
  /\ \A i \in DOMAIN results : Done(results[i].kind) => Decision(results[i].ref) \in decisions
  /\ \A x \in decisions : x.by = Post =>
       \E i \in DOMAIN results : /\ Done(results[i].kind) \/ results[i].kind = "failed"
                                 /\ results[i].ref.name = x.name /\ results[i].ref.ver = x.ver
  /\ \A i \in DOMAIN results : results[i].kind = "failed" =>
       stopped = TRUE /\ \A j \in DOMAIN results : j > i => results[j].kind = "not-tried"

(* The same when some decisions are left out, of requests that have none.  *)
ToldBut(results, stopped, refs, left, decisions, out) ==
  /\ Told(results, stopped, refs, left, decisions \ out)
  /\ \A x \in out : \E k \in left : x.name = refs[k].name

PostInv(q, call, decisions) ==
  /\ q.phase # "none" => q.action # None
  /\ q.phase # "call" => call = None
  /\ q.phase \in {"none", "view"} => q.stopped = FALSE /\ q.results = <<>>
  /\ q.phase = "none" => q.todo = {} /\ \A x \in decisions : x.by # Post
  /\ q.phase = "view" => Told(q.results, q.stopped, q.refs, Distinct(q.refs), decisions)
  /\ q.phase \in {"loop", "render", "answered"} => Told(q.results, q.stopped, q.refs, q.todo, decisions)
  /\ q.phase \in {"render", "answered"} => q.todo = {}
  /\ q.phase = "call" =>
       /\ call # None /\ q.stopped = FALSE
       /\ call.step # "restore" => Decision(call.ref) \notin decisions
       /\ \E k \in DOMAIN q.refs \ q.todo :
            /\ call.ref = q.refs[k]
            /\ Told(q.results, q.stopped, q.refs, q.todo \cup {k}, decisions \ {Decision(call.ref)})
  /\ q.phase = "cut" => \E left, out : ToldBut(q.results, q.stopped, q.refs, left, decisions, out)

(* opMu is held by whoever is past Lock, and no longer than its context. *)
Locked == {"read", "remove", "claim", "create", "restore", "undo"}
OwnLimit(d) == IF d = Post THEN RefLimit ELSE ClickLimit
HeldInTime(held, call, d) ==
  /\ call.step \notin Restores => held <= call.age /\ held <= OwnLimit(d)
  /\ call.step \in Restores => held <= OwnLimit(d) + call.age /\ call.age <= RestoreLimit

LockInv(l, cs) ==
  /\ \A d \in Deciders : cs[d] # None /\ cs[d].step \in Locked => l.by = d
  /\ l.by # None => /\ cs[l.by] # None /\ cs[l.by].step \in Locked
                    /\ HeldInTime(l.held, cs[l.by], l.by)

(* While AWS answers and nobody waits, no call is older than the time it   *)
(* spent, and the post has started its last call within its budget.        *)
Prompt(q, cs) ==
  /\ \A d \in Deciders : cs[d] # None => /\ cs[d].hung = FALSE
                                         /\ cs[d].age <= cs[d].spent /\ cs[d].spent <= CallTime
  /\ q.phase = "view" => q.age <= Budget
  /\ q.phase = "loop" => q.age <= Budget + CallTime
  /\ q.phase = "call" /\ cs[Post] # None => q.age <= Budget - 1 + cs[Post].spent
AgeInv(q, cs, h, w) == h = 0 /\ w = FALSE => Prompt(q, cs)

(* Then, and while no call fails, a claim belongs to a creation under way  *)
(* or to its restore, and the stop began no earlier than the oldest        *)
(* decision; a post that read its page for longer decides nothing.         *)
Creating == {"create", "undo"}
Settled(q, cs, marked, srv, drain) ==
  /\ \A d \in Deciders : cs[d] # None => cs[d].step # "restore"
  /\ \A n \in marked : \E d \in Deciders :
       cs[d] # None /\ cs[d].step \in Creating /\ cs[d].ref.name = n
  /\ srv = "up" => drain = 0
  /\ srv = "stopping" => /\ \A d \in Clicks : cs[d] # None => drain <= cs[d].spent
                         /\ q.phase \in {"view", "loop"} => drain <= q.age \/ q.age >= Budget
                         /\ q.phase = "call" => drain <= q.age
ClaimInv(q, cs, marked, srv, drain, f, h, w) ==
  f = 0 /\ h = 0 /\ w = FALSE => Settled(q, cs, marked, srv, drain)

(* A click decides once, and when the process has ended nothing runs. *)
CallerInv(srv, q, cs, sent) ==
  /\ \A c \in Clicks : cs[c] # None => c \in sent
  /\ srv = "gone" => q.phase \notin {"view", "loop", "call", "render"} /\ \A d \in Deciders : cs[d] = None

IInv ==
  /\ TypeOK
  /\ PostInv(post, calls[Post], decided)
  /\ LockInv(lock, calls)
  /\ AgeInv(post, calls, hangs, waited)
  /\ ClaimInv(post, calls, claimed, server, drained, faults, hangs, waited)
  /\ CallerInv(server, post, calls, clicked)


-----------------------------------------------------------------------------
(* Results: a set of numbers has a least one, and adding the result of one *)
(* place of the form keeps what is told of the others.                     *)

(* A set of numbers that is not empty has a least element. *)
LEMMA Least ==
  ASSUME NEW T, T \subseteq Nat, T # {}
  PROVE  \E m \in T : \A k \in T : m <= k
<1> DEFINE below(m) == {k \in T : k < m}
           B == {below(m) : m \in T}
           R == StrictSubsetOrdering(Nat)
<1>1. B \subseteq FiniteSubsetsOf(Nat) /\ B # {}
  <2>1. ASSUME NEW m \in T PROVE IsFiniteSet(below(m)) /\ below(m) \in SUBSET Nat
    <3>1. /\ \A k \in below(m) : k \in 0 .. m
          /\ m \in Int
      <4>1. m \in Nat /\ \A k \in T : k \in Nat
        OBVIOUS
      <4>2. \A k \in T : k < m => k \in 0 .. m
        BY <4>1
      <4>3. \A k \in below(m) : k \in T /\ k < m
        OBVIOUS
      <4>4. m \in Int
        BY <4>1
      <4>5. QED
        BY <4>2, <4>3, <4>4, Zenon
    <3>2. IsFiniteSet(0 .. m)
      BY <3>1, FS_Interval
    <3>4. below(m) \subseteq 0 .. m
      BY <3>1, Zenon
    <3>5. IsFiniteSet(below(m))
      BY <3>2, <3>4, FS_Subset
    <3>6. below(m) \subseteq Nat
      OBVIOUS
    <3>3. QED
      BY <3>5, <3>6
  <2> HIDE DEF below
  <2>2. QED
    BY <2>1 DEF FiniteSubsetsOf
<1>2. IsWellFoundedOn(R, FiniteSubsetsOf(Nat))
  BY FS_StrictSubsetOrderingWellFounded
<1> HIDE DEF B, R
<1>3. PICK X \in B : \A Y \in B : <<Y, X>> \notin R
  BY <1>1, <1>2, WFMin
<1>4. PICK m \in T : X = below(m)
  BY DEF B
<1>5. ASSUME NEW k \in T, k < m PROVE FALSE
  <2>1. below(k) \in B
    BY DEF B
  <2>2. below(k) \subseteq below(m) /\ k \in below(m) /\ k \notin below(k)
    <3>1. m \in Nat /\ k \in Nat /\ \A j \in T : j \in Nat
      OBVIOUS
    <3>2. \A j \in T : j < k => j < m
      BY <1>5, <3>1
    <3>3. ~(k < k)
      BY <3>1
    <3>4. QED
      BY <1>5, <3>2, <3>3
  <2>3. below(k) \in SUBSET Nat /\ below(m) \in SUBSET Nat
    OBVIOUS
  <2> HIDE DEF below
  <2>4. <<below(k), below(m)>> \in R
    BY <2>2, <2>3 DEF R, StrictSubsetOrdering
  <2>5. QED
    BY <1>3, <1>4, <2>1, <2>4
<1>6. QED
  BY <1>5

(* Two places of the form that count have different names. *)
LEMMA DistinctNames ==
  ASSUME NEW refs \in Seq(Ref), NEW i \in Distinct(refs), NEW j \in Distinct(refs), i # j
  PROVE  refs[i].name # refs[j].name
<1>1. /\ i \in DOMAIN refs /\ j \in DOMAIN refs
      /\ i \in Nat /\ j \in Nat
      /\ \A k \in DOMAIN refs : k < i => refs[k].name # refs[i].name
      /\ \A k \in DOMAIN refs : k < j => refs[k].name # refs[j].name
  BY DEF Distinct, SameRequest
<1>2. i < j \/ j < i
  BY <1>1
<1>3. QED
  BY <1>1, <1>2

(* Every request of the form has a place that counts. *)
LEMMA DistinctCovers ==
  ASSUME NEW refs \in Seq(Ref), NEW k \in DOMAIN refs
  PROVE  \E j \in Distinct(refs) : refs[j].name = refs[k].name
<1> DEFINE T == {j \in DOMAIN refs : refs[j].name = refs[k].name}
<1>1. T \subseteq Nat /\ T # {}
  OBVIOUS
<1>2. PICK m \in T : \A j \in T : m <= j
  <2> HIDE DEF T
  <2>1. QED
    BY <1>1, Least
<1>3. m \in DOMAIN refs /\ m \in Nat /\ refs[m].name = refs[k].name
  OBVIOUS
<1>4. ASSUME NEW j \in DOMAIN refs, j < m, refs[j].name = refs[m].name PROVE FALSE
  <2>1. j \in T /\ j \in Nat
    BY <1>3, <1>4
  <2>2. QED
    BY <1>2, <1>3, <1>4, <2>1
<1>5. QED
  BY <1>3, <1>4 DEF Distinct, SameRequest

(* A new post has nothing told. *)
LEMMA ToldNothing ==
  ASSUME NEW refs \in Seq(Ref), NEW decisions, \A x \in decisions : x.by # Post
  PROVE  Told(<<>>, FALSE, refs, Distinct(refs), decisions)
<1>1. DOMAIN <<>> = {}
  OBVIOUS
<1>2. \A k \in DOMAIN refs : \E j \in Distinct(refs) : refs[j].name = refs[k].name
  BY DistinctCovers
<1>3. QED
  BY <1>1, <1>2 DEF Told

(* What others decide changes nothing of what is told. *)
LEMMA ToldOfPost ==
  ASSUME NEW results, NEW stopped, NEW refs, NEW left, NEW decisions, NEW more,
         Told(results, stopped, refs, left, decisions),
         decisions \subseteq more, \A x \in more : x \in decisions \/ x.by # Post
  PROVE  Told(results, stopped, refs, left, more)
<1>1. \A x \in more : x.by = Post => x \in decisions
  OBVIOUS
<1>2. QED
  BY <1>1 DEF Told

(* A result for a place that was left. *)
LEMMA ToldOneMore ==
  ASSUME NEW results \in Seq(Result), NEW stopped, NEW refs \in Seq(Ref), NEW left,
         NEW decisions, NEW k \in left, NEW kind \in Kinds, NEW halt,
         Told(results, stopped, refs, left, decisions),
         stopped = TRUE => kind = "not-tried" /\ halt = TRUE,
         kind = "failed" => halt = TRUE,
         NEW more, decisions \subseteq more, Done(kind) => Decision(refs[k]) \in more,
         \A x \in more : x \in decisions
                          \/ (x = Decision(refs[k]) /\ (Done(kind) \/ kind = "failed"))
  PROVE  Told(Append(results, [ref |-> refs[k], kind |-> kind]), halt, refs, left \ {k}, more)
<1> DEFINE new == Append(results, [ref |-> refs[k], kind |-> kind])
           last == Len(results) + 1
<1>1. /\ Len(results) \in Nat /\ last \in Nat
      /\ DOMAIN new = DOMAIN results \cup {last}
      /\ \A i \in DOMAIN results : i \in Nat /\ i < last /\ i # last /\ new[i] = results[i]
      /\ new[last] = [ref |-> refs[k], kind |-> kind]
  <2>1. Len(results) \in Nat /\ last \in Nat /\ DOMAIN results = 1 .. Len(results)
    OBVIOUS
  <2>2. Len(new) = last /\ new \in Seq(Result \cup {[ref |-> refs[k], kind |-> kind]})
    OBVIOUS
  <2>3. DOMAIN new = 1 .. last
    BY <2>1, <2>2
  <2>4. \A i \in DOMAIN results : i \in Nat /\ i < last /\ i # last /\ new[i] = results[i]
    BY <2>1
  <2>5. new[last] = [ref |-> refs[k], kind |-> kind]
    OBVIOUS
  <2>6. DOMAIN new = DOMAIN results \cup {last}
    BY <2>1, <2>3
  <2> HIDE DEF new, last
  <2>7. QED
    BY <2>1, <2>4, <2>5, <2>6
<1>2. /\ new[last].ref = refs[k] /\ new[last].kind = kind
      /\ \A i \in DOMAIN new : i \in DOMAIN results \/ i = last
  BY <1>1
<1> HIDE DEF new, last
<1>3. left \subseteq Distinct(refs) /\ k \in DOMAIN refs
  BY DEF Told, Distinct
<1>4. \A i, j \in DOMAIN new : i # j => new[i].ref.name # new[j].ref.name
  <2>1. \A i, j \in DOMAIN results : i # j => results[i].ref.name # results[j].ref.name
    BY DEF Told
  <2>2. \A i \in DOMAIN results : results[i].ref.name # refs[k].name
    BY DEF Told
  <2>3. QED
    BY <1>1, <1>2, <2>1, <2>2
<1>5. ASSUME NEW i \in DOMAIN new, NEW l \in left \ {k} PROVE new[i].ref.name # refs[l].name
  <2>1. CASE i \in DOMAIN results
    BY <1>1, <2>1 DEF Told
  <2>2. CASE i = last
    <3>1. refs[k].name # refs[l].name
      BY <1>3, DistinctNames
    <3>2. QED
      BY <1>2, <2>2, <3>1
  <2>3. QED
    BY <1>2, <2>1, <2>2
<1>6. \A i \in DOMAIN new : \E l \in DOMAIN refs : new[i].ref = refs[l]
  <2>1. \A i \in DOMAIN results : \E l \in DOMAIN refs : results[i].ref = refs[l]
    BY DEF Told
  <2>2. QED
    BY <1>1, <1>2, <1>3, <2>1
<1>7. ASSUME NEW l \in DOMAIN refs
      PROVE  \/ \E i \in DOMAIN new : new[i].ref.name = refs[l].name
             \/ \E j \in left \ {k} : refs[j].name = refs[l].name
  <2>1. \/ \E i \in DOMAIN results : results[i].ref.name = refs[l].name
        \/ \E j \in left : refs[j].name = refs[l].name
    BY DEF Told
  <2>2. CASE \E i \in DOMAIN results : results[i].ref.name = refs[l].name
    BY <1>1, <2>2
  <2>3. CASE refs[k].name = refs[l].name
    BY <1>1, <1>2, <2>3
  <2>4. CASE \E j \in left \ {k} : refs[j].name = refs[l].name
    BY <2>4
  <2>5. QED
    BY <2>1, <2>2, <2>3, <2>4
<1>8. \A i \in DOMAIN new : Done(new[i].kind) => Decision(new[i].ref) \in more
  <2>1. \A i \in DOMAIN results : Done(results[i].kind) => Decision(results[i].ref) \in decisions
    BY DEF Told
  <2>2. decisions \subseteq more /\ (Done(kind) => Decision(refs[k]) \in more)
    OBVIOUS
  <2>3. QED
    BY <1>1, <1>2, <2>1, <2>2
<1>9. ASSUME NEW x \in more, x.by = Post
      PROVE  \E i \in DOMAIN new : /\ Done(new[i].kind) \/ new[i].kind = "failed"
                                   /\ new[i].ref.name = x.name /\ new[i].ref.ver = x.ver
  <2>1. CASE x \in decisions
    <3>1. PICK i \in DOMAIN results :
            /\ Done(results[i].kind) \/ results[i].kind = "failed"
            /\ results[i].ref.name = x.name /\ results[i].ref.ver = x.ver
      BY <1>9, <2>1 DEF Told
    <3>2. QED
      BY <1>1, <3>1
  <2>2. CASE (Done(kind) \/ kind = "failed") /\ x = Decision(refs[k])
    <3>1. x.name = refs[k].name /\ x.ver = refs[k].ver
      BY <2>2 DEF Decision
    <3>2. QED
      BY <1>1, <1>2, <2>2, <3>1
  <2>3. QED
    BY <2>1, <2>2
<1>10. ASSUME NEW i \in DOMAIN new, new[i].kind = "failed"
       PROVE  halt = TRUE /\ \A j \in DOMAIN new : j > i => new[j].kind = "not-tried"
  <2>1. CASE i \in DOMAIN results
    <3>1. stopped = TRUE /\ \A j \in DOMAIN results : j > i => results[j].kind = "not-tried"
      <4>1. results[i].kind = "failed"
        BY <1>1, <1>10, <2>1
      <4>2. QED
        BY <2>1, <4>1 DEF Told
    <3>2. kind = "not-tried" /\ halt = TRUE
      BY <3>1
    <3>3. QED
      BY <1>1, <1>2, <3>1, <3>2
  <2>2. CASE i = last
    <3>1. \A j \in DOMAIN new : ~(j > i)
      BY <1>1, <1>2, <2>2
    <3>2. kind = "failed"
      BY <1>2, <1>10, <2>2
    <3>3. QED
      BY <3>1, <3>2
  <2>3. QED
    BY <1>2, <2>1, <2>2
<1>11. left \ {k} \subseteq Distinct(refs)
  BY <1>3
<1>12. QED
  BY <1>4, <1>5, <1>6, <1>7, <1>8, <1>9, <1>10, <1>11 DEF Told, new

-----------------------------------------------------------------------------
(* The post. *)

(* The invariant of the post reads nothing of a call but its ref, and      *)
(* whether it is past the creation.                                        *)
LEMMA PostCarry ==
  ASSUME NEW q, NEW q2, NEW c, NEW c2, NEW D, NEW E, PostInv(q, c, D),
         q2.phase = q.phase, q2.action = q.action, q2.todo = q.todo, q2.results = q.results,
         q2.stopped = q.stopped, q2.refs = q.refs,
         c = None <=> c2 = None, c # None => c2.ref = c.ref /\ (c.step # "restore" \/ c2.step = "restore"),
         D \subseteq E,
         \A x \in E : \/ x \in D \/ x.by # Post
                      \/ c2 # None /\ c2.step = "restore" /\ x = Decision(c2.ref)
  PROVE  PostInv(q2, c2, E)
<1>1. ASSUME NEW left, NEW A, NEW B, A \subseteq B, \A x \in B : x \in A \/ x.by # Post,
             Told(q.results, q.stopped, q.refs, left, A)
      PROVE  Told(q2.results, q2.stopped, q2.refs, left, B)
  <2>1. Told(q.results, q.stopped, q.refs, left, B)
    BY <1>1, ToldOfPost
  <2>2. QED
    BY <2>1
<1>2. /\ q2.phase # "none" => q2.action # None
      /\ q2.phase # "call" => c2 = None
      /\ q2.phase \in {"none", "view"} => q2.stopped = FALSE /\ q2.results = <<>>
      /\ q2.phase \in {"render", "answered"} => q2.todo = {}
  BY DEF PostInv
<1>3. ASSUME q2.phase # "call"
      PROVE  \A x \in E : x \in D \/ x.by # Post
  BY <1>2, <1>3
<1>4. q2.phase = "none" => q2.todo = {} /\ \A x \in E : x.by # Post
  BY <1>3 DEF PostInv
<1>5. /\ q2.phase = "view" => Told(q2.results, q2.stopped, q2.refs, Distinct(q2.refs), E)
      /\ q2.phase \in {"loop", "render", "answered"} => Told(q2.results, q2.stopped, q2.refs, q2.todo, E)
  <2>1. ASSUME q2.phase = "view" PROVE Told(q2.results, q2.stopped, q2.refs, Distinct(q2.refs), E)
    <3>1. Told(q.results, q.stopped, q.refs, Distinct(q2.refs), D)
      BY <2>1 DEF PostInv
    <3>2. QED
      BY <1>1, <1>3, <2>1, <3>1
  <2>2. ASSUME q2.phase \in {"loop", "render", "answered"}
        PROVE  Told(q2.results, q2.stopped, q2.refs, q2.todo, E)
    <3>1. Told(q.results, q.stopped, q.refs, q2.todo, D)
      BY <2>2 DEF PostInv
    <3>2. QED
      BY <1>1, <1>3, <2>2, <3>1
  <2>3. QED
    BY <2>1, <2>2
<1>6. ASSUME q2.phase = "cut"
      PROVE  \E left, out : ToldBut(q2.results, q2.stopped, q2.refs, left, E, out)
  <2>1. PICK left, out : ToldBut(q.results, q.stopped, q.refs, left, D, out)
    BY <1>6 DEF PostInv
  <2>2. D \ out \subseteq E \ out /\ \A x \in E \ out : x \in D \ out \/ x.by # Post
    BY <1>3, <1>6
  <2>3. Told(q2.results, q2.stopped, q2.refs, left, E \ out)
    BY <1>1, <2>1, <2>2 DEF ToldBut
  <2>4. ToldBut(q2.results, q2.stopped, q2.refs, left, E, out)
    BY <2>1, <2>3 DEF ToldBut
  <2>5. QED
    BY <2>4
<1>7. ASSUME q2.phase = "call"
      PROVE  /\ c2 # None /\ q2.stopped = FALSE
             /\ c2.step # "restore" => Decision(c2.ref) \notin E
             /\ \E k \in DOMAIN q2.refs \ q2.todo :
                  /\ c2.ref = q2.refs[k]
                  /\ Told(q2.results, q2.stopped, q2.refs, q2.todo \cup {k}, E \ {Decision(c2.ref)})
  <2>1. PICK k \in DOMAIN q.refs \ q.todo :
          /\ c.ref = q.refs[k]
          /\ Told(q.results, q.stopped, q.refs, q.todo \cup {k}, D \ {Decision(c.ref)})
    BY <1>7 DEF PostInv
  <2>2. /\ c # None /\ q.stopped = FALSE /\ (c.step # "restore" => Decision(c.ref) \notin D)
    BY <1>7 DEF PostInv
  <2>3. c2 # None /\ c2.ref = c.ref /\ (c.step # "restore" \/ c2.step = "restore")
    BY <2>2
  <2> DEFINE m == Decision(c2.ref)
  <2>4. m.by = Post
    BY DEF Decision
  <2> HIDE DEF m
  <2>5. c2.step # "restore" => m \notin E
    BY <2>2, <2>3, <2>4 DEF m
  <2>6. D \ {m} \subseteq E \ {m} /\ \A x \in E \ {m} : x \in D \ {m} \/ x.by # Post
    BY DEF m
  <2>7. Told(q2.results, q2.stopped, q2.refs, q.todo \cup {k}, E \ {m})
    <3>1. Told(q.results, q.stopped, q.refs, q.todo \cup {k}, D \ {m})
      BY <2>1, <2>3 DEF m
    <3>2. QED
      BY <1>1, <2>6, <3>1
  <2>8. Told(q2.results, q2.stopped, q2.refs, q2.todo \cup {k}, E \ {m})
    BY <2>7
  <2>9. QED
    BY <2>1, <2>2, <2>3, <2>5, <2>8 DEF m
<1>8. QED
  BY <1>2, <1>4, <1>5, <1>6, <1>7 DEF PostInv

(* A result adds at most its own decision to what is decided. *)
Adds(decisions, more, made, kind) ==
  /\ decisions \subseteq more /\ (Done(kind) => made \in more)
  /\ \A x \in more : x \in decisions \/ (x = made /\ (Done(kind) \/ kind = "failed"))

(* The call of the post returns, and decide goes on with the next place. *)
LEMMA PostReturns ==
  ASSUME NEW q \in Posts, NEW c \in Call, NEW D, NEW E, NEW kind \in Kinds, NEW q2,
         PostInv(q, c, D), c # None,
         q2.phase = "loop", q2.stopped \in BOOLEAN, q2.stopped = TRUE <=> kind = "failed",
         q2.results = Append(q.results, [ref |-> c.ref, kind |-> kind]),
         q2.todo = q.todo, q2.refs = q.refs, q2.action = q.action,
         Adds(D, E, Decision(c.ref), kind), c.step = "restore" => kind = "failed"
  PROVE  PostInv(q2, None, E)
<1>1. q.phase = "call" /\ q.stopped = FALSE /\ q.action # None
  BY DEF PostInv
<1>2. PICK k \in DOMAIN q.refs \ q.todo :
        /\ c.ref = q.refs[k]
        /\ Told(q.results, q.stopped, q.refs, q.todo \cup {k}, D \ {Decision(c.ref)})
  BY <1>1 DEF PostInv
<1>3. /\ q.results \in Seq(Result) /\ q.refs \in Seq(Ref) /\ q.stopped \in BOOLEAN
      /\ q.todo \subseteq Nat /\ c.ref \in Ref
  BY DEF Posts, Call, Ref
<1>5. /\ q2.stopped \in BOOLEAN
      /\ q.stopped = TRUE => kind = "not-tried" /\ q2.stopped = TRUE
      /\ kind = "failed" => q2.stopped = TRUE
  BY <1>1
<1>6. Told(Append(q.results, [ref |-> q.refs[k], kind |-> kind]), q2.stopped, q.refs, (q.todo \cup {k}) \ {k}, E)
  <2> DEFINE before == D \ {Decision(q.refs[k])}
  <2>1. /\ before \subseteq E /\ (Done(kind) => Decision(q.refs[k]) \in E)
        /\ \A x \in E : \/ x \in before
                        \/ x = Decision(q.refs[k]) /\ (Done(kind) \/ kind = "failed")
    <3>1. c.step # "restore" => Decision(c.ref) \notin D
      BY <1>1 DEF PostInv
    <3>2. QED
      BY <1>2, <3>1 DEF Adds
  <2> HIDE DEF before
  <2> DEFINE left == q.todo \cup {k}
             results == q.results
             refs == q.refs
             halt == q2.stopped
             stopped == q.stopped
  <2>2. /\ k \in left /\ Told(results, stopped, refs, left, before)
        /\ results \in Seq(Result) /\ refs \in Seq(Ref)
        /\ stopped = TRUE => kind = "not-tried" /\ halt = TRUE
        /\ kind = "failed" => halt = TRUE
        /\ before \subseteq E /\ (Done(kind) => Decision(refs[k]) \in E)
        /\ \A x \in E : \/ x \in before
                        \/ x = Decision(refs[k]) /\ (Done(kind) \/ kind = "failed")
    BY <1>2, <1>3, <1>5, <2>1 DEF before
  <2> HIDE DEF left, results, refs, halt, stopped
  <2>3. Told(Append(results, [ref |-> refs[k], kind |-> kind]), halt, refs, left \ {k}, E)
    BY <2>2, ToldOneMore
  <2>4. QED
    BY <2>3 DEF left, results, refs, halt, stopped
<1>7. (q.todo \cup {k}) \ {k} = q.todo
  OBVIOUS
<1>8. Told(q2.results, q2.stopped, q2.refs, q2.todo, E)
  BY <1>2, <1>6, <1>7
<1>9. QED
  BY <1>1, <1>8 DEF PostInv

-----------------------------------------------------------------------------
(* One call goes on or returns. *)

(* What a call keeps when it goes on to its next step, and the others keep. *)
GoesOn(cs, cs2, d, s) ==
  /\ cs2 \in Calls /\ cs2[d] # None /\ cs2[d].step = s
  /\ cs2[d].ref = cs[d].ref /\ cs2[d].age = cs[d].age /\ cs2[d].spent = cs[d].spent
  /\ cs2[d].hung = cs[d].hung
  /\ \A e \in Deciders : e # d => cs2[e] = cs[e]

LEMMA CallsGoOn ==
  ASSUME NEW cs \in Calls, NEW d \in Deciders, cs[d] # None, NEW s \in Steps,
         NEW cs2, cs2 = [cs EXCEPT ![d].step = s]
  PROVE  GoesOn(cs, cs2, d, s)
<1>1. cs[d] \in Call
  BY DEF Calls
<1>2. cs2 = [cs EXCEPT ![d] = [cs[d] EXCEPT !.step = s]]
  OBVIOUS
<1> DEFINE c == [cs[d] EXCEPT !.step = s]
<1>3. c \in Call
  BY <1>1 DEF Call
<1>4. /\ c.step = s /\ c.ref = cs[d].ref /\ c.age = cs[d].age /\ c.spent = cs[d].spent
      /\ c.hung = cs[d].hung
  BY <1>1 DEF Call
<1>5. c # None
  BY <1>3, IdAssumption
<1> HIDE DEF c
<1>6. cs2 = [cs EXCEPT ![d] = c]
  BY <1>2 DEF c
<1>7. cs2 \in Calls /\ cs2[d] = c /\ \A e \in Deciders : e # d => cs2[e] = cs[e]
  BY <1>3, <1>6 DEF Calls
<1>8. QED
  BY <1>4, <1>5, <1>7 DEF GoesOn

Returns(cs, cs2, d) ==
  cs2 \in Calls /\ cs2[d] = None /\ \A e \in Deciders : e # d => cs2[e] = cs[e]

LEMMA CallsReturn ==
  ASSUME NEW cs \in Calls, NEW d \in Deciders
  PROVE  Returns(cs, [cs EXCEPT ![d] = None], d)
BY DEF Calls, Returns

(* opMu. *)
LEMMA LockReturns ==
  ASSUME NEW l \in Locks, NEW cs \in Calls, NEW d \in Deciders, LockInv(l, cs),
         NEW cs2, Returns(cs, cs2, d), NEW l2, l2 = IF l.by = d THEN Free ELSE l
  PROVE  LockInv(l2, cs2) /\ l2 \in Locks
<1>1. cs2 \in Calls /\ cs2[d] = None /\ \A e \in Deciders : e # d => cs2[e] = cs[e]
  BY DEF Returns
<1>2. Free.by = None /\ Free \in Locks
  BY DEF Free, Locks
<1>3. CASE l.by = d
  <2>1. \A e \in Deciders : cs[e] # None /\ cs[e].step \in Locked => e = d
    BY <1>3 DEF LockInv
  <2>2. l2 = Free
    BY <1>3
  <2>3. QED
    BY <1>1, <1>2, <2>1, <2>2 DEF LockInv
<1>4. CASE l.by # d
  <2>1. l2 = l
    BY <1>4
  <2>2. l.by \in Deciders \/ l.by = None
    BY DEF Locks
  <2>3. l.by # None => cs2[l.by] = cs[l.by]
    BY <1>1, <1>4, <2>2
  <2>4. \A e \in Deciders : cs2[e] # None /\ cs2[e].step \in Locked => l.by = e
    BY <1>1 DEF LockInv
  <2>5. l.by # None => /\ cs2[l.by] # None /\ cs2[l.by].step \in Locked
                       /\ HeldInTime(l.held, cs2[l.by], l.by)
    BY <2>3 DEF LockInv
  <2>6. QED
    BY <2>1, <2>4, <2>5 DEF LockInv
<1>5. QED
  BY <1>3, <1>4

LEMMA LockGoesOn ==
  ASSUME NEW l \in Locks, NEW cs, NEW cs2, NEW d \in Deciders, NEW s, LockInv(l, cs),
         GoesOn(cs, cs2, d, s), cs[d] # None,
         cs[d].step \notin Restores /\ s \notin Restores, cs[d].step \in Locked <=> s \in Locked
  PROVE  LockInv(l, cs2)
<1>1. /\ cs2[d] # None /\ cs2[d].step = s /\ cs2[d].age = cs[d].age
      /\ \A e \in Deciders : e # d => cs2[e] = cs[e]
  BY DEF GoesOn
<1>2. l.by \in Deciders \/ l.by = None
  BY DEF Locks
<1>3. \A e \in Deciders : cs2[e] # None /\ cs2[e].step \in Locked => l.by = e
  BY <1>1 DEF LockInv
<1>4. ASSUME l.by # None
      PROVE  /\ cs2[l.by] # None /\ cs2[l.by].step \in Locked
             /\ HeldInTime(l.held, cs2[l.by], l.by)
  <2>1. /\ cs[l.by] # None /\ cs[l.by].step \in Locked
        /\ HeldInTime(l.held, cs[l.by], l.by)
    BY <1>4 DEF LockInv
  <2>2. CASE l.by = d
    <3>1. HeldInTime(l.held, cs2[d], d)
      BY <1>1, <2>1, <2>2 DEF HeldInTime, Restores
    <3>2. QED
      BY <1>1, <2>1, <2>2, <3>1
  <2>3. CASE l.by # d
    <3>1. cs2[l.by] = cs[l.by]
      BY <1>1, <1>2, <1>4, <2>3
    <3>2. QED
      BY <2>1, <3>1
  <2>4. QED
    BY <2>2, <2>3
<1>5. QED
  BY <1>3, <1>4 DEF LockInv

LEMMA LockTaken ==
  ASSUME NEW l \in Locks, NEW cs \in Calls, NEW cs2, NEW d \in Deciders, LockInv(l, cs), l.by = None,
         GoesOn(cs, cs2, d, "read"), cs[d] # None, NEW l2, l2 = [by |-> d, held |-> 0]
  PROVE  LockInv(l2, cs2) /\ l2 \in Locks
<1>1. /\ cs2[d] # None /\ cs2[d].step = "read" /\ cs2[d].age = cs[d].age
      /\ \A e \in Deciders : e # d => cs2[e] = cs[e]
  BY DEF GoesOn
<1>2. \A e \in Deciders : cs[e] # None => cs[e].step \notin Locked
  BY IdAssumption DEF LockInv
<1>3. l2.by = d /\ l2.held = 0 /\ l2 \in Locks /\ d # None
  BY IdAssumption DEF Locks
<1>4. cs[d].age \in Nat /\ RefLimit \in Nat /\ ClickLimit \in Nat
  BY TimeAssumption DEF Calls, Call
<1>5. HeldInTime(l2.held, cs2[d], d)
  BY <1>1, <1>3, <1>4 DEF HeldInTime, OwnLimit, Restores
<1>6. cs2[d].step \in Locked
  BY <1>1 DEF Locked
<1>7. \A e \in Deciders : cs2[e] # None /\ cs2[e].step \in Locked => e = d
  BY <1>1, <1>2
<1>8. QED
  BY <1>1, <1>3, <1>5, <1>6, <1>7 DEF LockInv

(* Ages and claims. *)
LEMMA AgeReturns ==
  ASSUME NEW q \in Posts, NEW q2, NEW cs \in Calls, NEW cs2, NEW d \in Deciders, Prompt(q, cs),
         Returns(cs, cs2, d), cs[d] # None, q2.age = q.age,
         d # Post => q2.phase = q.phase, d = Post => q.phase = "call" /\ q2.phase = "loop"
  PROVE  Prompt(q2, cs2)
<1>1. Post \in Deciders
  BY DEF Deciders
<1>2. cs2[d] = None /\ \A e \in Deciders : e # d => cs2[e] = cs[e]
  BY DEF Returns
<1>3. CASE d = Post
  <2>1. q.age <= Budget - 1 + cs[Post].spent /\ cs[Post].spent <= CallTime
    BY <1>1, <1>3 DEF Prompt
  <2>2. q.age \in Nat /\ cs[Post].spent \in Nat /\ Budget \in Nat /\ CallTime \in Nat
    BY <1>1, <1>3, TimeAssumption DEF Posts, Calls, Call
  <2>3. q2.age <= Budget + CallTime
    BY <2>1, <2>2
  <2>4. QED
    BY <1>2, <1>3, <2>3 DEF Prompt
<1>4. CASE d # Post
  BY <1>1, <1>2, <1>4 DEF Prompt
<1>5. QED
  BY <1>3, <1>4

LEMMA AgeGoesOn ==
  ASSUME NEW q, NEW q2, NEW cs, NEW cs2, NEW d \in Deciders, NEW s, Prompt(q, cs), GoesOn(cs, cs2, d, s),
         cs[d] # None, q2.age = q.age, q2.phase = q.phase
  PROVE  Prompt(q2, cs2)
<1>1. Post \in Deciders
  BY DEF Deciders
<1>2. \A e \in Deciders : /\ cs2[e] # None => cs[e] # None /\ cs2[e].hung = cs[e].hung
                          /\ cs2[e].age = cs[e].age /\ cs2[e].spent = cs[e].spent
  BY DEF GoesOn
<1>3. QED
  BY <1>1, <1>2 DEF Prompt

LEMMA ClaimsReturn ==
  ASSUME NEW q, NEW q2, NEW cs, NEW cs2, NEW d \in Deciders, NEW marked, NEW marked2, NEW srv, NEW drain,
         Settled(q, cs, marked, srv, drain), Returns(cs, cs2, d), cs[d] # None, q2.age = q.age,
         q2.phase = q.phase \/ (q.phase = "call" /\ q2.phase = "loop"),
         \A n \in marked2 : n \in marked /\ (cs[d].step \in Creating => n # cs[d].ref.name)
  PROVE  Settled(q2, cs2, marked2, srv, drain)
<1>1. cs2[d] = None /\ \A e \in Deciders : e # d => cs2[e] = cs[e]
  BY DEF Returns
<1>2. ASSUME NEW n \in marked2
      PROVE  \E e \in Deciders : cs2[e] # None /\ cs2[e].step \in Creating /\ cs2[e].ref.name = n
  <2>1. PICK e \in Deciders : cs[e] # None /\ cs[e].step \in Creating /\ cs[e].ref.name = n
    BY DEF Settled
  <2>2. e # d
    BY <2>1
  <2>3. QED
    BY <1>1, <2>1, <2>2
<1>3. \A e \in Deciders : cs2[e] # None => cs2[e] = cs[e] /\ cs[e] # None
  BY <1>1
<1>4. \A e \in Deciders : cs2[e] # None => cs2[e].step # "restore"
  BY <1>3 DEF Settled
<1>5. Clicks \subseteq Deciders
  BY DEF Deciders
<1>6. srv = "stopping" => /\ \A e \in Clicks : cs2[e] # None => drain <= cs2[e].spent
                          /\ q2.phase \in {"view", "loop"} => drain <= q2.age \/ q2.age >= Budget
                          /\ q2.phase = "call" => drain <= q2.age
  BY <1>3, <1>5 DEF Settled
<1>7. srv = "up" => drain = 0
  BY DEF Settled
<1>8. QED
  BY <1>2, <1>4, <1>6, <1>7 DEF Settled

LEMMA ClaimsGoOn ==
  ASSUME NEW q, NEW q2, NEW cs, NEW cs2, NEW d \in Deciders, NEW s, NEW marked, NEW marked2, NEW srv, NEW drain,
         Settled(q, cs, marked, srv, drain), GoesOn(cs, cs2, d, s), cs[d] # None, q2.age = q.age,
         q2.phase = q.phase,
         s # "restore", cs[d].step \notin Creating,
         \A n \in marked2 : n \in marked \/ (s = "create" /\ n = cs[d].ref.name)
  PROVE  Settled(q2, cs2, marked2, srv, drain)
<1>1. /\ cs2[d] # None /\ cs2[d].step = s /\ cs2[d].ref = cs[d].ref /\ cs2[d].spent = cs[d].spent
      /\ \A e \in Deciders : e # d => cs2[e] = cs[e]
  BY DEF GoesOn
<1>2. ASSUME NEW n \in marked2
      PROVE  \E e \in Deciders : cs2[e] # None /\ cs2[e].step \in Creating /\ cs2[e].ref.name = n
  <2>1. CASE n \in marked
    <3>1. PICK e \in Deciders : cs[e] # None /\ cs[e].step \in Creating /\ cs[e].ref.name = n
      BY <2>1 DEF Settled
    <3>2. e # d
      BY <3>1
    <3>3. QED
      BY <1>1, <3>1, <3>2
  <2>2. CASE s = "create" /\ n = cs[d].ref.name
    BY <1>1, <2>2 DEF Creating
  <2>3. QED
    BY <2>1, <2>2
<1>3. \A e \in Deciders : cs2[e] # None => cs[e] # None /\ cs2[e].spent = cs[e].spent
  BY <1>1
<1>4. \A e \in Deciders : cs2[e] # None => cs2[e].step # "restore"
  BY <1>1 DEF Settled
<1>5. Clicks \subseteq Deciders
  BY DEF Deciders
<1>6. srv = "stopping" => /\ \A e \in Clicks : cs2[e] # None => drain <= cs2[e].spent
                          /\ q2.phase \in {"view", "loop"} => drain <= q2.age \/ q2.age >= Budget
                          /\ q2.phase = "call" => drain <= q2.age
  BY <1>3, <1>5 DEF Settled
<1>7. srv = "up" => drain = 0
  BY DEF Settled
<1>8. QED
  BY <1>2, <1>4, <1>6, <1>7 DEF Settled

-----------------------------------------------------------------------------
(* The call of one decider returns or goes on: the whole invariant. *)

(* What a decider decides. *)
MadeBy(d) == [name |-> calls[d].ref.name, ver |-> calls[d].ref.ver, by |-> d]

(* What the rest of a step does while a call returns. *)
LEMMA ReturnKeeps ==
  ASSUME IInv, NEW d \in Deciders, calls[d] # None, NEW kind \in Kinds, Return(d, kind),
         pending' \in Versions,
         claimed' \subseteq Names,
         faults' = 0 /\ hangs = 0 /\ waited = FALSE =>
           \A n \in claimed' : n \in claimed /\ (calls[d].step \in Creating => n # calls[d].ref.name),
         decided \subseteq decided', Done(kind) => MadeBy(d) \in decided',
         calls[d].step = "restore" => kind = "failed",
         \A x \in decided' : x \in decided \/ (x = MadeBy(d) /\ (Done(kind) \/ kind = "failed")),
         faults' \in Nat, faults' = 0 => faults = 0,
         UNCHANGED <<clicked, server, drained, waited, changes, hangs>>
  PROVE  IInv'
<1>1. /\ calls \in Calls /\ post \in Posts /\ lock \in Locks /\ calls[d] \in Call /\ Post \in Deciders
      /\ PostInv(post, calls[Post], decided) /\ LockInv(lock, calls)
      /\ AgeInv(post, calls, hangs, waited)
      /\ ClaimInv(post, calls, claimed, server, drained, faults, hangs, waited)
  BY DEF IInv, TypeOK, Calls, Deciders
<1>2. Returns(calls, calls', d)
  BY <1>1, CallsReturn DEF Return
<1>3. calls' \in Calls /\ calls'[d] = None /\ \A e \in Deciders : e # d => calls'[e] = calls[e]
  BY <1>2 DEF Returns
<1>4. LockInv(lock', calls') /\ lock' \in Locks
  <2>1. lock' = IF lock.by = d THEN Free ELSE lock
    BY DEF Return
  <2>2. QED
    BY <1>1, <1>2, <2>1, LockReturns
<1>5. d = Post => post.phase = "call"
  BY <1>1 DEF PostInv
<1> DEFINE PostKept == /\ PostInv(post', calls'[Post], decided') /\ AgeInv(post', calls', hangs', waited')
                       /\ post' \in Posts /\ post'.age = post.age
                       /\ post'.phase = post.phase \/ (post.phase = "call" /\ post'.phase = "loop")
<1>6. ASSUME d # Post PROVE PostKept
  <2>1. post' = post
    BY <1>6 DEF Return
  <2>2. /\ calls'[Post] = calls[Post]
        /\ decided \subseteq decided' /\ \A x \in decided' : x \in decided \/ x.by # Post
    BY <1>1, <1>3, <1>6 DEF MadeBy
  <2>3. PostInv(post', calls'[Post], decided')
    BY <1>1, <2>1, <2>2, PostCarry
  <2>4. post'.age = post.age /\ post'.phase = post.phase /\ post' \in Posts
    BY <1>1, <2>1
  <2>5. AgeInv(post', calls', hangs', waited')
    BY <1>1, <1>2, <1>6, <2>4, AgeReturns DEF AgeInv
  <2>6. QED
    BY <2>3, <2>4, <2>5, <1>5
<1>7. ASSUME d = Post PROVE PostKept
  <2>1. /\ post'.phase = "loop" /\ post'.stopped \in BOOLEAN /\ (post'.stopped = TRUE <=> kind = "failed")
        /\ post'.results = Append(post.results, [ref |-> calls[d].ref, kind |-> kind])
        /\ post'.todo = post.todo /\ post'.refs = post.refs /\ post'.action = post.action
        /\ post'.age = post.age /\ post' \in Posts
    <3> DEFINE r == [ref |-> calls[d].ref, kind |-> kind]
               stop == kind = "failed"
               told == Append(post.results, r)
    <3>1. post' = [post EXCEPT !.phase = "loop", !.stopped = stop, !.results = told]
      BY <1>7 DEF Return
    <3>2. r \in Result
      BY <1>1 DEF Call, Ref, Result
    <3>3. told \in Seq(Result)
      <4>1. post.results \in Seq(Result)
        BY <1>1 DEF Posts
      <4> HIDE DEF r
      <4>2. QED
        BY <3>2, <4>1, AppendProperties
    <3>4. stop \in BOOLEAN /\ (stop = TRUE <=> kind = "failed")
      OBVIOUS
    <3> HIDE DEF stop, told
    <3>5. /\ post'.phase = "loop" /\ post'.stopped = stop /\ post'.results = told
          /\ post'.todo = post.todo /\ post'.refs = post.refs /\ post'.action = post.action
          /\ post'.age = post.age
      BY <1>1, <3>1 DEF Posts
    <3>6. post' \in Posts
      BY <1>1, <3>1, <3>3, <3>4 DEF Posts, Phases
    <3>7. QED
      BY <3>4, <3>5, <3>6 DEF told
  <2>2. Decision(calls[Post].ref) = MadeBy(d)
    BY <1>7 DEF Decision, MadeBy
  <2>3. PostInv(post', None, decided')
    <3> DEFINE c == calls[Post]
               q2 == post'
               E == decided'
    <3>1. /\ PostInv(post, c, decided) /\ c # None /\ c \in Call /\ post \in Posts
          /\ Adds(decided, E, Decision(c.ref), kind) /\ (c.step = "restore" => kind = "failed")
          /\ q2.phase = "loop" /\ q2.stopped \in BOOLEAN /\ (q2.stopped = TRUE <=> kind = "failed")
          /\ q2.results = Append(post.results, [ref |-> c.ref, kind |-> kind])
          /\ q2.todo = post.todo /\ q2.refs = post.refs /\ q2.action = post.action
      BY <1>1, <1>7, <2>1, <2>2 DEF Adds
    <3> HIDE DEF c, q2, E
    <3>2. PostInv(q2, None, E)
      BY <3>1, PostReturns
    <3>3. QED
      BY <3>2 DEF q2, E
  <2>4. AgeInv(post', calls', hangs', waited')
    BY <1>1, <1>2, <1>5, <1>7, <2>1, AgeReturns DEF AgeInv
  <2>5. QED
    BY <1>3, <1>5, <1>7, <2>1, <2>3, <2>4
<1>8. PostKept
  BY <1>6, <1>7
<1>9. ClaimInv(post', calls', claimed', server', drained', faults', hangs', waited')
  <2>1. SUFFICES ASSUME faults' = 0 /\ hangs' = 0 /\ waited' = FALSE
                 PROVE  Settled(post', calls', claimed', server', drained')
    BY DEF ClaimInv
  <2>2. Settled(post, calls, claimed, server, drained)
    BY <1>1, <2>1 DEF ClaimInv
  <2>3. server' = server /\ drained' = drained
    OBVIOUS
  <2>4. \A n \in claimed' : n \in claimed /\ (calls[d].step \in Creating => n # calls[d].ref.name)
    BY <2>1
  <2>5. Settled(post', calls', claimed', server, drained)
    BY <1>2, <1>8, <2>2, <2>4, ClaimsReturn
  <2>6. QED
    BY <2>3, <2>5
<1>10. TypeOK'
  <2>1. /\ clicked' \in SUBSET Clicks /\ server' \in {"up", "stopping", "gone"} /\ drained' \in Nat
        /\ waited' \in BOOLEAN /\ changes' \in Nat /\ hangs' \in Nat
    BY DEF IInv, TypeOK
  <2>2. claimed' \in SUBSET Names
    BY DEF IInv, TypeOK
  <2>3. decided' \in SUBSET [name : Names, ver : Nat, by : Deciders]
    <3>1. decided \in SUBSET [name : Names, ver : Nat, by : Deciders]
      BY DEF IInv, TypeOK
    <3>2. MadeBy(d) \in [name : Names, ver : Nat, by : Deciders]
      BY <1>1 DEF Call, MadeBy
    <3>3. QED
      BY <3>1, <3>2
  <2>4. QED
    BY <1>3, <1>4, <1>8, <2>1, <2>2, <2>3 DEF TypeOK
<1>11. CallerInv(server', post', calls', clicked')
  BY <1>3 DEF IInv, CallerInv, Deciders
<1>12. QED
  BY <1>4, <1>8, <1>9, <1>10, <1>11 DEF IInv

(* What the rest of a step does while a call goes on. *)
LEMMA GoOnKeeps ==
  ASSUME IInv, NEW d \in Deciders, calls[d] # None, NEW s \in Steps, GoOn(d, s),
         calls[d].step \notin {"restore", "create", "undo"}, s \notin Restores,
         \/ lock' = lock /\ (calls[d].step \in Locked <=> s \in Locked)
         \/ lock.by = None /\ lock' = [by |-> d, held |-> 0] /\ s = "read",
         pending' \in Versions,
         \A n \in claimed' : n \in claimed \/ (s = "create" /\ n = calls[d].ref.name),
         UNCHANGED <<post, decided, clicked, server, drained, waited, changes, faults, hangs>>
  PROVE  IInv'
<1>1. /\ calls \in Calls /\ post \in Posts /\ lock \in Locks /\ calls[d] \in Call /\ Post \in Deciders
      /\ PostInv(post, calls[Post], decided) /\ LockInv(lock, calls)
      /\ AgeInv(post, calls, hangs, waited)
      /\ ClaimInv(post, calls, claimed, server, drained, faults, hangs, waited)
  BY DEF IInv, TypeOK, Calls, Deciders
<1>2. GoesOn(calls, calls', d, s)
  <2>1. calls' = [calls EXCEPT ![d].step = s]
    BY DEF GoOn
  <2>2. QED
    BY <1>1, <2>1, CallsGoOn
<1>3. /\ calls' \in Calls /\ calls'[d] # None /\ calls'[d].ref = calls[d].ref
      /\ \A e \in Deciders : e # d => calls'[e] = calls[e]
  BY <1>2 DEF GoesOn
<1>4. LockInv(lock', calls') /\ lock' \in Locks
  <2>1. CASE lock' = lock /\ (calls[d].step \in Locked <=> s \in Locked)
    BY <1>1, <1>2, <2>1, LockGoesOn DEF Restores
  <2>2. CASE lock.by = None /\ lock' = [by |-> d, held |-> 0] /\ s = "read"
    BY <1>1, <1>2, <2>2, LockTaken
  <2>3. QED
    BY <2>1, <2>2
<1>5. PostInv(post', calls'[Post], decided')
  <2>1. /\ calls[Post] = None <=> calls'[Post] = None
        /\ calls[Post] # None => /\ calls'[Post].ref = calls[Post].ref
                                 /\ calls[Post].step # "restore" \/ calls'[Post].step = "restore"
    BY <1>1, <1>3
  <2>2. post' = post /\ decided' = decided
    OBVIOUS
  <2>3. PostInv(post, calls'[Post], decided)
    BY <1>1, <2>1, PostCarry
  <2>4. QED
    BY <2>2, <2>3
<1>6. AgeInv(post', calls', hangs', waited')
  <2>1. AgeInv(post, calls', hangs, waited)
    BY <1>1, <1>2, AgeGoesOn DEF AgeInv
  <2>2. QED
    BY <2>1
<1>7. ClaimInv(post', calls', claimed', server', drained', faults', hangs', waited')
  <2>1. SUFFICES ASSUME faults = 0 /\ hangs = 0 /\ waited = FALSE
                 PROVE  Settled(post, calls', claimed', server, drained)
    BY DEF ClaimInv
  <2>2. Settled(post, calls, claimed, server, drained)
    BY <1>1, <2>1 DEF ClaimInv
  <2>3. calls[d].step \notin Creating /\ s # "restore"
    BY DEF Creating, Restores
  <2>4. QED
    BY <1>2, <2>2, <2>3, ClaimsGoOn
<1>8. TypeOK'
  <2>1. claimed' \in SUBSET Names
    <3>1. calls[d].ref.name \in Names /\ claimed \in SUBSET Names
      BY <1>1 DEF IInv, TypeOK, Call
    <3>2. QED
      BY <3>1
  <2>2. QED
    BY <1>3, <1>4, <2>1 DEF IInv, TypeOK
<1>9. CallerInv(server', post', calls', clicked')
  BY <1>3 DEF IInv, CallerInv, Deciders
<1>10. QED
  BY <1>4, <1>5, <1>6, <1>7, <1>8, <1>9 DEF IInv

-----------------------------------------------------------------------------
(* The steps of a call. *)

(* A call in a step is a call, and opMu is free for it only before Lock. *)
LEMMA CallOf ==
  ASSUME TypeOK, NEW d \in Deciders, calls[d] # None
  PROVE  /\ calls[d] \in Call /\ calls[d].ref.name \in Names /\ calls[d].ref.ver \in Nat
         /\ calls[d].hung \in BOOLEAN /\ calls[d].age \in Nat /\ calls[d].spent \in Nat
BY DEF TypeOK, Calls, Call

(* A failure is counted, unless the context has ended. *)
LEMMA FailsCounts ==
  ASSUME TypeOK, NEW d, Fails(d)
  PROVE  faults' \in Nat /\ (faults' = 0 => faults = 0 /\ Ended(d))
<1>1. faults \in Nat
  BY DEF TypeOK
<1>2. CASE Ended(d)
  BY <1>1, <1>2 DEF Fails
<1>3. CASE ~Ended(d)
  BY <1>1, <1>3 DEF Fails, Fault
<1>4. QED
  BY <1>2, <1>3

(* These results decide nothing. *)
LEMMA Undecided ==
  ASSUME NEW kind, kind \in {"gone", "own", "changed", "failed", "refused"}
  PROVE  ~Done(kind) /\ kind \in Kinds
BY DEF Done, Kinds

(* A call that returns without a decision, and marks nothing. *)
LEMMA ReturnsUndecided ==
  ASSUME IInv, NEW d \in Deciders, calls[d] # None, calls[d].step \notin {"create", "restore", "undo"},
         NEW kind \in {"gone", "own", "changed", "failed", "refused"}, Return(d, kind),
         Fails(d) \/ UNCHANGED faults,
         UNCHANGED <<pending, claimed, decided, clicked, server, drained, waited, changes, hangs>>
  PROVE  IInv'
<1>1. ~Done(kind) /\ kind \in Kinds
  BY Undecided
<1>2. faults' \in Nat /\ (faults' = 0 => faults = 0)
  <2>1. TypeOK /\ faults \in Nat
    BY DEF IInv, TypeOK
  <2>2. QED
    BY <2>1, FailsCounts
<1>3. pending' \in Versions /\ claimed' \subseteq Names
  BY DEF IInv, TypeOK
<1>4. /\ decided \subseteq decided' /\ \A x \in decided' : x \in decided
      /\ calls[d].step # "restore" /\ \A n \in claimed' : n \in claimed /\ calls[d].step \notin Creating
  BY DEF Creating
<1>5. QED
  BY <1>1, <1>2, <1>3, <1>4, ReturnKeeps

LEMMA StepGetRequest ==
  ASSUME IInv, NEW d \in Deciders, GetRequest(d)
  PROVE  IInv'
<1>1. TypeOK /\ calls[d] # None /\ calls[d].step = "get" /\ pending \in Versions /\ faults \in Nat
  BY DEF IInv, TypeOK, GetRequest, InStep
<1>2. UNCHANGED <<pending, claimed, decided, clicked, server, drained, waited, changes, hangs>>
  BY DEF GetRequest, CallElse
<1>3. CASE Fails(d) /\ Return(d, "failed")
  BY <1>1, <1>2, <1>3, ReturnsUndecided
<1>4. ASSUME NEW kind \in {"gone", "own"}, Return(d, kind), UNCHANGED faults PROVE IInv'
  BY <1>1, <1>2, <1>4, ReturnsUndecided
<1>5. ASSUME GoOn(d, "lock"), UNCHANGED <<lock, post, faults>> PROVE IInv'
  <2>1. "lock" \in Steps /\ "lock" \notin Locked /\ "get" \notin Locked /\ "lock" \notin Restores
    BY DEF Steps, Locked, Restores
  <2>2. QED
    BY <1>1, <1>2, <1>5, <2>1, GoOnKeeps
<1>6. QED
  BY <1>3, <1>4, <1>5 DEF GetRequest

LEMMA StepLock ==
  ASSUME IInv, NEW d \in Deciders, Lock(d)
  PROVE  IInv'
<1>1. TypeOK /\ calls[d] # None /\ calls[d].step = "lock" /\ pending \in Versions
  BY DEF IInv, TypeOK, Lock, InStep
<1>2. /\ UNCHANGED <<pending, claimed, post, decided, clicked, server, drained, waited, changes, faults, hangs>>
      /\ lock.by = None /\ lock' = [by |-> d, held |-> 0] /\ GoOn(d, "read")
  BY DEF Lock, CallElse
<1>3. "read" \in Steps /\ "read" \notin Restores
  BY DEF Steps, Restores
<1>4. QED
  BY <1>1, <1>2, <1>3, GoOnKeeps

LEMMA StepPendingAt ==
  ASSUME IInv, NEW d \in Deciders, PendingAt(d)
  PROVE  IInv'
<1>1. TypeOK /\ calls[d] # None /\ calls[d].step = "read" /\ pending \in Versions /\ faults \in Nat
  BY DEF IInv, TypeOK, PendingAt, InStep
<1>2. UNCHANGED <<pending, claimed, decided, clicked, server, drained, waited, changes, hangs>>
  BY DEF PendingAt, CallElse
<1>3. CASE Fails(d) /\ Return(d, "failed")
  BY <1>1, <1>2, <1>3, ReturnsUndecided
<1>4. ASSUME NEW kind \in {"gone", "changed", "own"}, Return(d, kind), UNCHANGED faults PROVE IInv'
  BY <1>1, <1>2, <1>4, ReturnsUndecided
<1>5. ASSUME NEW s \in {"remove", "claim"}, GoOn(d, s), UNCHANGED <<lock, post, faults>> PROVE IInv'
  <2>1. s \in Steps /\ s \in Locked /\ "read" \in Locked /\ s \notin Restores
    BY DEF Steps, Locked, Restores
  <2>2. QED
    BY <1>1, <1>2, <1>5, <2>1, GoOnKeeps
<1>6. QED
  BY <1>3, <1>4, <1>5 DEF PendingAt

LEMMA StepRemoveDecided ==
  ASSUME IInv, NEW d \in Deciders, RemoveDecided(d)
  PROVE  IInv'
<1>1. TypeOK /\ calls[d] # None /\ calls[d].step = "remove" /\ pending \in Versions /\ faults \in Nat
  BY DEF IInv, TypeOK, RemoveDecided, InStep
<1>2. UNCHANGED <<claimed, clicked, server, drained, waited, changes, hangs>>
  BY DEF RemoveDecided, CallElse
<1>3. ASSUME Fails(d), Return(d, "failed"), UNCHANGED <<pending, decided>> PROVE IInv'
  BY <1>1, <1>2, <1>3, ReturnsUndecided
<1>4. ASSUME NEW kind \in {"denied", "failed"}, faults' \in Nat, faults' = 0 => faults = 0,
             Removed(d), Return(d, kind)
      PROVE  IInv'
  <2>1. kind \in Kinds /\ (Done(kind) \/ kind = "failed")
    BY DEF Done, Kinds
  <2>2. pending' \in Versions
    BY <1>1, <1>4, CallOf DEF Versions, Removed
  <2>3. decided' = decided \cup {MadeBy(d)}
    BY <1>4 DEF Removed, Decide, MadeBy
  <2>4. /\ decided \subseteq decided' /\ MadeBy(d) \in decided'
        /\ \A x \in decided' : x \in decided \/ x = MadeBy(d)
    BY <2>3
  <2>5. claimed' \subseteq Names /\ \A n \in claimed' : n \in claimed /\ calls[d].step \notin Creating
    BY <1>1, <1>2 DEF TypeOK, Creating
  <2>6. QED
    BY <1>1, <1>2, <1>4, <2>1, <2>2, <2>4, <2>5, ReturnKeeps
<1>5. CASE Answers(d) /\ UNCHANGED faults /\ Removed(d) /\ Return(d, "denied")
  BY <1>1, <1>4, <1>5
<1>6. CASE Fails(d) /\ Return(d, "failed") /\ Removed(d)
  <2>1. faults' \in Nat /\ (faults' = 0 => faults = 0)
    BY <1>1, <1>6, FailsCounts
  <2>2. QED
    BY <1>4, <1>6, <2>1
<1>7. QED
  BY <1>3, <1>5, <1>6 DEF RemoveDecided

(* While AWS answers and nobody waits, no context ends before its call. *)
LEMMA NotEnded ==
  ASSUME IInv, NEW d \in Deciders, calls[d] # None, hangs = 0, waited = FALSE
  PROVE  ~Ended(d)
<1>1. Prompt(post, calls) /\ TypeOK
  BY DEF IInv, AgeInv
<1>2. calls[d].age <= calls[d].spent /\ calls[d].spent <= CallTime
  BY <1>1 DEF Prompt
<1>3. calls[d].age \in Nat /\ calls[d].spent \in Nat
  BY <1>1, CallOf
<1>4. /\ CallTime < ClickLimit /\ ClickLimit <= RefLimit /\ CallTime < RestoreLimit
      /\ {CallTime, ClickLimit, RefLimit, RestoreLimit} \subseteq Nat
  BY TimeAssumption
<1>5. TimeLimit(d) \in {ClickLimit, RefLimit, RestoreLimit}
  BY DEF TimeLimit
<1>6. QED
  BY <1>2, <1>3, <1>4, <1>5 DEF Ended

LEMMA StepClaim ==
  ASSUME IInv, NEW d \in Deciders, Claim(d)
  PROVE  IInv'
<1>1. TypeOK /\ calls[d] # None /\ calls[d].step = "claim" /\ pending \in Versions /\ faults \in Nat
      /\ claimed \subseteq Names
  BY DEF IInv, TypeOK, Claim, InStep
<1>2. UNCHANGED <<decided, clicked, server, drained, waited, changes, hangs>>
  BY DEF Claim, CallElse
<1>3. calls[d].ref.name \in Names
  BY <1>1, CallOf
<1>4. ASSUME Mark(calls[d].ref.name)
      PROVE  pending' \in Versions /\ claimed' = claimed \cup {calls[d].ref.name} /\ claimed' \subseteq Names
  BY <1>1, <1>3, <1>4 DEF Mark, Versions
<1>5. CASE Answers(d) /\ Mark(calls[d].ref.name) /\ GoOn(d, "create") /\ UNCHANGED <<lock, post, faults>>
  <2>1. "create" \in Steps /\ "create" \in Locked /\ "claim" \in Locked /\ "create" \notin Restores
    BY DEF Steps, Locked, Restores
  <2>2. \A n \in claimed' : n \in claimed \/ n = calls[d].ref.name
    BY <1>4, <1>5
  <2>3. QED
    BY <1>1, <1>2, <1>4, <1>5, <2>1, <2>2, GoOnKeeps
<1>6. CASE /\ Fails(d) /\ Return(d, "failed")
           /\ Mark(calls[d].ref.name) \/ UNCHANGED <<pending, claimed>>
  <2>1. faults' \in Nat /\ (faults' = 0 => faults = 0 /\ Ended(d))
    BY <1>1, <1>6, FailsCounts
  <2>2. ~(faults' = 0 /\ hangs = 0 /\ waited = FALSE)
    BY <1>1, <2>1, NotEnded
  <2>3. pending' \in Versions /\ claimed' \subseteq Names
    BY <1>1, <1>4, <1>6
  <2>4. "failed" \in Kinds /\ ~Done("failed")
    BY DEF Kinds, Done
  <2>5. decided \subseteq decided' /\ \A x \in decided' : x \in decided
    BY <1>2
  <2>6. faults' = 0 => faults = 0
    BY <2>1
  <2>7. QED
    BY <1>1, <1>2, <1>6, <2>1, <2>2, <2>3, <2>4, <2>5, <2>6, ReturnKeeps
<1>7. QED
  BY <1>5, <1>6 DEF Claim

LEMMA StepCreate ==
  ASSUME IInv, NEW d \in Deciders, Create(d)
  PROVE  IInv'
<1>1. /\ TypeOK /\ calls[d] # None /\ calls[d].step = "create" /\ pending \in Versions /\ faults \in Nat
      /\ claimed \subseteq Names /\ calls \in Calls /\ lock \in Locks /\ calls[d] \in Call
      /\ PostInv(post, calls[Post], decided) /\ LockInv(lock, calls)
      /\ AgeInv(post, calls, hangs, waited)
  BY DEF IInv, TypeOK, Create, InStep, Calls
<1>2. UNCHANGED <<pending, clicked, server, drained, waited, changes, hangs>>
  BY DEF Create, CallElse
<1>3. CASE Answers(d) /\ UNCHANGED faults /\ Created(d) /\ Return(d, "approved")
  <2>1. "approved" \in Kinds /\ Done("approved")
    BY DEF Kinds, Done
  <2>2. decided' = decided \cup {MadeBy(d)} /\ claimed' = claimed \ {calls[d].ref.name}
    BY <1>3 DEF Created, Decide, MadeBy
  <2>3. /\ decided \subseteq decided' /\ MadeBy(d) \in decided'
        /\ \A x \in decided' : x \in decided \/ x = MadeBy(d)
    BY <2>2
  <2>4. /\ claimed' \subseteq Names
        /\ \A n \in claimed' : n \in claimed /\ n # calls[d].ref.name
    BY <1>1, <2>2
  <2>5. pending' \in Versions /\ faults' \in Nat /\ (faults' = 0 => faults = 0)
    BY <1>1, <1>2, <1>3
  <2>6. QED
    BY <1>1, <1>2, <1>3, <2>1, <2>3, <2>4, <2>5, ReturnKeeps
<1>4. ASSUME NEW s \in Restores, GoBack(d, s),
             \/ UNCHANGED faults /\ UNCHANGED <<claimed, decided>> /\ s = "undo"
             \/ Fails(d) /\ (Created(d) \/ UNCHANGED <<claimed, decided>>) /\ s = "restore"
      PROVE  IInv'
  <2> DEFINE c == [calls[d] EXCEPT !.step = s, !.age = 0, !.hung = FALSE]
  <2>1. c \in Call
    BY <1>1, <1>4 DEF Call, Steps, Restores
  <2>2. /\ c.step = s /\ c.age = 0 /\ c.hung = FALSE /\ c.spent = calls[d].spent
        /\ c.ref = calls[d].ref
    BY <1>1 DEF Call
  <2>3. calls' = [calls EXCEPT ![d] = c] /\ UNCHANGED <<lock, post>>
    BY <1>4 DEF GoBack
  <2> HIDE DEF c
  <2>4. calls' \in Calls /\ calls'[d] = c /\ \A e \in Deciders : e # d => calls'[e] = calls[e]
    BY <1>1, <2>1, <2>3 DEF Calls
  <2>5. c # None
    BY <2>1, IdAssumption
  <2>15. /\ claimed' \subseteq claimed /\ decided \subseteq decided'
         /\ \A x \in decided' : x \in decided \/ (x = MadeBy(d) /\ s = "restore")
    BY <1>4 DEF Created, Decide, MadeBy
  <2>16. faults' \in Nat /\ (faults' = 0 => faults = 0 /\ (s = "undo" \/ Ended(d)))
    BY <1>1, <1>4, FailsCounts
  <2>6. Post \in Deciders
    BY DEF Deciders
  <2>7. PostInv(post', calls'[Post], decided')
    <3>1. /\ calls[Post] = None <=> calls'[Post] = None
          /\ calls[Post] # None => /\ calls'[Post].ref = calls[Post].ref
                                   /\ calls[Post].step # "restore" \/ calls'[Post].step = "restore"
      BY <1>1, <2>2, <2>4, <2>5, <2>6
    <3>2. \A x \in decided' : \/ x \in decided \/ x.by # Post
                              \/ /\ calls'[Post] # None /\ calls'[Post].step = "restore"
                                 /\ x = Decision(calls'[Post].ref)
      <4>1. CASE d = Post
        BY <2>2, <2>4, <2>5, <2>15, <4>1 DEF MadeBy, Decision
      <4>2. CASE d # Post
        <5>1. MadeBy(d).by # Post
          BY <4>2 DEF MadeBy
        <5>2. QED
          BY <2>15, <5>1
      <4>3. QED
        BY <4>1, <4>2
    <3>3. PostInv(post, calls'[Post], decided')
      BY <1>1, <2>15, <3>1, <3>2, PostCarry
    <3>4. QED
      BY <2>3, <3>3
  <2>8. LockInv(lock', calls')
    <3>1. lock.by = d
      BY <1>1 DEF LockInv, Locked
    <3>2. HeldInTime(lock.held, calls[d], d) /\ d # None
      BY <1>1, <3>1, IdAssumption DEF LockInv
    <3>3. lock.held \in Nat /\ OwnLimit(d) \in Nat /\ RestoreLimit \in Nat
      BY <1>1, TimeAssumption DEF Locks, OwnLimit
    <3>4. HeldInTime(lock.held, c, d)
      BY <1>1, <1>4, <2>2, <3>2, <3>3 DEF HeldInTime, Restores
    <3>5. \A e \in Deciders : calls'[e] # None /\ calls'[e].step \in Locked => lock.by = e
      BY <1>1, <2>4, <3>1 DEF LockInv
    <3>6. c.step \in Locked
      BY <1>4, <2>2 DEF Locked, Restores
    <3>7. LockInv(lock, calls')
      BY <2>4, <2>5, <3>1, <3>4, <3>5, <3>6 DEF LockInv
    <3>8. QED
      BY <2>3, <3>7
  <2>9. AgeInv(post', calls', hangs', waited')
    <3>1. SUFFICES ASSUME hangs = 0, waited = FALSE PROVE Prompt(post, calls')
      BY <1>2, <2>3 DEF AgeInv
    <3>2. Prompt(post, calls)
      BY <1>1, <3>1 DEF AgeInv
    <3>3. calls[d].spent \in Nat
      BY <1>1 DEF Call
    <3>4. \A e \in Deciders : calls'[e] # None =>
            /\ calls'[e].hung = FALSE /\ calls'[e].age <= calls'[e].spent /\ calls'[e].spent <= CallTime
            /\ calls[e] # None /\ calls'[e].spent = calls[e].spent
      <4>1. \A e \in Deciders : calls[e] # None =>
              /\ calls[e].hung = FALSE /\ calls[e].age <= calls[e].spent /\ calls[e].spent <= CallTime
        BY <3>2 DEF Prompt
      <4>2. /\ c.hung = FALSE /\ c.age <= c.spent /\ c.spent <= CallTime /\ c.spent = calls[d].spent
        BY <1>1, <2>2, <3>3, <4>1
      <4>3. QED
        BY <1>1, <2>4, <4>1, <4>2
    <3>5. QED
      BY <2>6, <3>2, <3>4 DEF Prompt
  <2>11. ClaimInv(post', calls', claimed', server', drained', faults', hangs', waited')
    <3>1. SUFFICES ASSUME faults' = 0, hangs = 0, waited = FALSE
                   PROVE  Settled(post, calls', claimed', server, drained)
      BY <1>2, <2>3 DEF ClaimInv
    <3>2. s = "undo" /\ faults = 0
      BY <1>1, <2>16, <3>1, NotEnded
    <3>3. Settled(post, calls, claimed, server, drained)
      BY <3>1, <3>2 DEF ClaimInv, IInv
    <3>4. \A e \in Deciders : calls'[e] # None => /\ calls[e] # None /\ calls'[e].spent = calls[e].spent
                                                 /\ calls'[e].step # "restore"
      BY <1>1, <2>2, <2>4, <3>2, <3>3 DEF Settled
    <3>5. ASSUME NEW n \in claimed'
          PROVE  \E e \in Deciders : calls'[e] # None /\ calls'[e].step \in Creating /\ calls'[e].ref.name = n
      <4>1. PICK e \in Deciders : calls[e] # None /\ calls[e].step \in Creating /\ calls[e].ref.name = n
        BY <2>15, <3>3 DEF Settled
      <4>2. CASE e = d
        BY <2>2, <2>4, <2>5, <3>2, <4>1, <4>2 DEF Creating
      <4>3. CASE e # d
        BY <2>4, <4>1, <4>3
      <4>4. QED
        BY <4>2, <4>3
    <3>6. Clicks \subseteq Deciders
      BY DEF Deciders
    <3>7. \A e \in Clicks : calls'[e] # None => calls[e] # None /\ calls'[e].spent = calls[e].spent
      BY <3>4, <3>6
    <3>8. QED
      BY <3>3, <3>4, <3>5, <3>7 DEF Settled
  <2>12. TypeOK'
    <3>1. decided' \in SUBSET [name : Names, ver : Nat, by : Deciders]
      <4>1. MadeBy(d) \in [name : Names, ver : Nat, by : Deciders]
        BY <1>1 DEF Call, MadeBy
      <4>2. decided \in SUBSET [name : Names, ver : Nat, by : Deciders]
        BY <1>1 DEF TypeOK
      <4>3. QED
        BY <2>15, <4>1, <4>2
    <3>2. QED
      BY <1>1, <1>2, <2>3, <2>4, <2>15, <2>16, <3>1 DEF TypeOK
  <2>13. CallerInv(server', post', calls', clicked')
    BY <1>1, <1>2, <2>3, <2>4 DEF IInv, CallerInv, Deciders
  <2>14. QED
    BY <2>7, <2>8, <2>9, <2>11, <2>12, <2>13 DEF IInv
<1>5. CASE Answers(d) /\ UNCHANGED <<claimed, decided, faults>> /\ GoBack(d, "undo")
  <2>1. "undo" \in Restores
    BY DEF Restores
  <2>2. QED
    BY <1>4, <1>5, <2>1
<1>6. CASE Fails(d) /\ (Created(d) \/ UNCHANGED <<claimed, decided>>) /\ GoBack(d, "restore")
  <2>1. "restore" \in Restores
    BY DEF Restores
  <2>2. QED
    BY <1>4, <1>6, <2>1
<1>7. QED
  BY <1>3, <1>5, <1>6 DEF Create

LEMMA StepRestore ==
  ASSUME IInv, NEW d \in Deciders, Restore(d)
  PROVE  IInv'
<1> DEFINE kind == IF calls[d].step = "undo" THEN "refused" ELSE "failed"
<1>1. TypeOK /\ calls[d] # None /\ calls[d].step \in Restores /\ pending \in Versions /\ faults \in Nat
      /\ claimed \subseteq Names
  BY DEF IInv, TypeOK, Restore
<1>2. UNCHANGED <<decided, clicked, server, drained, waited, changes, hangs>> /\ Return(d, kind)
  BY DEF Restore, CallElse
<1>3. calls[d].ref.name \in Names /\ calls[d].ref.ver \in Nat
  BY <1>1, CallOf
<1>4. Restored(d) => /\ pending' \in Versions /\ claimed' \subseteq claimed
                     /\ \A n \in claimed' : n # calls[d].ref.name
  BY <1>1, <1>3 DEF Restored, Versions
<1>5. \/ UNCHANGED faults /\ Restored(d)
      \/ Fails(d) /\ (Restored(d) \/ UNCHANGED <<pending, claimed>>)
  BY DEF Restore
<1>6. /\ pending' \in Versions /\ claimed' \subseteq claimed
      /\ faults' \in Nat /\ (faults' = 0 => faults = 0 /\ (Restored(d) \/ Ended(d)))
  BY <1>1, <1>4, <1>5, FailsCounts
<1>7. kind \in Kinds /\ ~Done(kind) /\ (calls[d].step = "restore" => kind = "failed")
  BY <1>1 DEF Kinds, Done, Restores
<1>8. decided \subseteq decided' /\ \A x \in decided' : x \in decided
  BY <1>2
<1>9. ASSUME faults' = 0, hangs = 0, waited = FALSE
      PROVE  \A n \in claimed' : n \in claimed /\ n # calls[d].ref.name
  <2>1. ~Ended(d)
    BY <1>1, <1>9, NotEnded
  <2>2. QED
    BY <1>4, <1>6, <1>9, <2>1
<1> HIDE DEF kind
<1>10. claimed' \subseteq Names
  BY <1>1, <1>6
<1>11. QED
  BY <1>1, <1>2, <1>6, <1>7, <1>8, <1>9, <1>10, ReturnKeeps

LEMMA StepLookUp ==
  ASSUME IInv, NEW c \in Clicks, LookUp(c)
  PROVE  IInv'
<1>1. TypeOK /\ c \in Deciders /\ calls[c] # None /\ calls[c].step = "email" /\ pending \in Versions
  BY DEF IInv, TypeOK, LookUp, InStep, Deciders
<1>2. UNCHANGED <<pending, claimed, decided, faults, clicked, server, drained, waited, changes, hangs>>
  BY DEF LookUp, CallElse
<1>3. CASE GoOn(c, "lock") /\ UNCHANGED <<lock, post>>
  <2>1. "lock" \in Steps /\ "lock" \notin Locked /\ "email" \notin Locked /\ "lock" \notin Restores
    BY DEF Steps, Locked, Restores
  <2>2. QED
    BY <1>1, <1>2, <1>3, <2>1, GoOnKeeps
<1>4. CASE Return(c, "refused")
  BY <1>1, <1>2, <1>4, ReturnsUndecided
<1>5. QED
  BY <1>3, <1>4 DEF LookUp

-----------------------------------------------------------------------------
(* The steps of the post, of clicks, of requesters and of the server. *)

(* What is known before every step. *)
LEMMA Before ==
  ASSUME IInv
  PROVE  /\ TypeOK /\ calls \in Calls /\ post \in Posts /\ lock \in Locks /\ Post \in Deciders
         /\ PostInv(post, calls[Post], decided) /\ LockInv(lock, calls)
         /\ AgeInv(post, calls, hangs, waited)
         /\ ClaimInv(post, calls, claimed, server, drained, faults, hangs, waited)
BY DEF IInv, TypeOK, Deciders

LEMMA StepHang ==
  ASSUME IInv, NEW d \in Deciders, Hang(d)
  PROVE  IInv'
<1>1. /\ calls[d] # None /\ hangs' = hangs + 1 /\ hangs \in Nat
      /\ calls' = [calls EXCEPT ![d].hung = TRUE] /\ calls[d] \in Call
      /\ UNCHANGED <<pending, claimed, decided, post, clicked, lock, server, drained, waited, changes, faults>>
  BY DEF Hang, IInv, TypeOK, Calls
<1> DEFINE c == [calls[d] EXCEPT !.hung = TRUE]
<1>2. c \in Call
  BY <1>1 DEF Call
<1>3. c.step = calls[d].step /\ c.age = calls[d].age /\ c.ref = calls[d].ref
  BY <1>1 DEF Call
<1>4. calls' = [calls EXCEPT ![d] = c]
  BY <1>1
<1> HIDE DEF c
<1>5. calls' \in Calls /\ calls'[d] = c /\ \A e \in Deciders : e # d => calls'[e] = calls[e]
  BY <1>2, <1>4, Before DEF Calls
<1>6. c # None
  BY <1>2, IdAssumption
<1>7. \A e \in Deciders : /\ calls'[e] = None <=> calls[e] = None
                          /\ calls[e] # None => /\ calls'[e].step = calls[e].step
                                                /\ calls'[e].age = calls[e].age
                                                /\ calls'[e].ref = calls[e].ref
  BY <1>1, <1>3, <1>5, <1>6
<1>8. PostInv(post', calls'[Post], decided')
  <2>1. PostInv(post, calls'[Post], decided)
    BY <1>7, Before, PostCarry
  <2>2. QED
    BY <1>1, <2>1
<1>9. LockInv(lock', calls')
  <2>1. LockInv(lock, calls) /\ lock.by \in Deciders \cup {None}
    BY Before DEF Locks
  <2>2. LockInv(lock, calls')
    BY <1>7, <2>1 DEF LockInv, HeldInTime
  <2>3. QED
    BY <1>1, <2>2
<1>10. hangs' # 0 /\ hangs' \in Nat
  BY <1>1
<1>11. AgeInv(post', calls', hangs', waited')
  BY <1>10 DEF AgeInv
<1>12. ClaimInv(post', calls', claimed', server', drained', faults', hangs', waited')
  BY <1>10 DEF ClaimInv
<1>13. TypeOK'
  BY <1>1, <1>5, <1>10 DEF IInv, TypeOK
<1>14. CallerInv(server', post', calls', clicked')
  BY <1>1, <1>7 DEF IInv, CallerInv, Deciders
<1>15. QED
  BY <1>8, <1>9, <1>11, <1>12, <1>13, <1>14 DEF IInv

(* A step that changes nothing but the post. *)
LEMMA PostMoves ==
  ASSUME IInv, post' \in Posts, PostInv(post', calls[Post], decided),
         post'.phase = "view" => post'.age <= Budget,
         hangs = 0 /\ waited = FALSE /\ post'.phase = "loop" => post'.age <= Budget + CallTime,
         post'.phase # "call",
         post'.phase \in {"view", "loop"} =>
           server = "up" \/ (post.phase \in {"view", "loop"} /\ post'.age = post.age),
         post'.phase = "render" => post.phase = "loop",
         UNCHANGED <<pending, claimed, decided, clicked, calls, lock, server, drained, waited, budgets>>
  PROVE  IInv'
<1>1. UNCHANGED <<pending, claimed, decided, clicked, calls, lock, server, drained, waited, changes, faults, hangs>>
  BY DEF budgets
<1>2. TypeOK'
  BY <1>1 DEF IInv, TypeOK
<1>3. PostInv(post', calls'[Post], decided') /\ LockInv(lock', calls')
  BY <1>1, Before
<1>4. AgeInv(post', calls', hangs', waited')
  <2>1. SUFFICES ASSUME hangs = 0, waited = FALSE PROVE Prompt(post', calls)
    BY <1>1 DEF AgeInv
  <2>2. Prompt(post, calls)
    BY <2>1, Before DEF AgeInv
  <2>3. QED
    BY <2>1, <2>2 DEF Prompt
<1>5. ClaimInv(post', calls', claimed', server', drained', faults', hangs', waited')
  <2>1. SUFFICES ASSUME faults = 0, hangs = 0, waited = FALSE
                 PROVE  Settled(post', calls, claimed, server, drained)
    BY <1>1 DEF ClaimInv
  <2>2. Settled(post, calls, claimed, server, drained)
    BY <2>1, Before DEF ClaimInv
  <2>3. server = "stopping" /\ post'.phase \in {"view", "loop"} => drained <= post'.age \/ post'.age >= Budget
    BY <2>2 DEF Settled
  <2>4. QED
    BY <2>2, <2>3 DEF Settled
<1>6. CallerInv(server', post', calls', clicked')
  BY <1>1 DEF IInv, CallerInv, Deciders
<1>7. QED
  BY <1>2, <1>3, <1>4, <1>5, <1>6 DEF IInv

LEMMA StepReceivePost ==
  ASSUME IInv, NEW form \in Forms, NEW action \in {"approve", "deny"}, ReceivePost(form, action)
  PROVE  IInv'
<1>1. /\ server = "up" /\ post.phase = "none"
      /\ post' = [NoPost EXCEPT !.phase = "view", !.action = action, !.refs = form]
      /\ UNCHANGED <<pending, claimed, decided, clicked, calls, lock, server, drained, waited, budgets>>
  BY DEF ReceivePost
<1>2. form \in Seq(Ref)
  BY FormAssumption DEF Ref
<1>3. NoPost \in Posts
  <2>1. <<>> \in Seq(Result) /\ <<>> \in Seq(Ref)
    BY EmptySeq
  <2>2. QED
    BY <2>1 DEF NoPost, Posts, Phases
<1>4. post' \in Posts
  BY <1>1, <1>2, <1>3 DEF Posts, Phases
<1>5. /\ post'.phase = "view" /\ post'.age = 0 /\ post'.stopped = FALSE /\ post'.results = <<>>
      /\ post'.todo = {} /\ post'.refs = form /\ post'.action = action
  BY <1>1 DEF NoPost
<1>6. action # None
  BY IdAssumption
<1>7. calls[Post] = None /\ \A x \in decided : x.by # Post
  BY <1>1, Before DEF PostInv
<1>8. Told(<<>>, FALSE, form, Distinct(form), decided)
  BY <1>2, <1>7, ToldNothing
<1>9. PostInv(post', calls[Post], decided)
  BY <1>5, <1>6, <1>7, <1>8 DEF PostInv
<1>10. post'.age <= Budget
  BY <1>5, TimeAssumption
<1>11. QED
  BY <1>1, <1>4, <1>5, <1>9, <1>10, PostMoves

LEMMA StepReadPage ==
  ASSUME IInv, ReadPage
  PROVE  IInv'
<1>1. PICK view \in {pending, [n \in Names |-> None]} :
        post' = [post EXCEPT !.phase = "loop", !.view = view, !.todo = Distinct(post.refs)]
  BY DEF ReadPage
<1>2. /\ post.phase = "view"
      /\ UNCHANGED <<pending, claimed, decided, clicked, calls, lock, server, drained, waited, budgets>>
  BY DEF ReadPage
<1>3. post \in Posts /\ view \in Versions
  BY Before DEF TypeOK, Versions
<1>4. Distinct(post.refs) \in SUBSET Nat
  <2>1. post.refs \in Seq(Ref)
    BY <1>3 DEF Posts
  <2>2. QED
    BY <2>1 DEF Distinct
<1>5. post' \in Posts
  BY <1>1, <1>3, <1>4 DEF Posts, Phases
<1>6. /\ post'.phase = "loop" /\ post'.todo = Distinct(post.refs) /\ post'.age = post.age
      /\ post'.results = post.results /\ post'.refs = post.refs /\ post'.stopped = post.stopped
      /\ post'.action = post.action
  BY <1>1, <1>3 DEF Posts
<1>7. PostInv(post', calls[Post], decided)
  BY <1>2, <1>6, Before DEF PostInv
<1>8. ASSUME hangs = 0, waited = FALSE PROVE post'.age <= Budget + CallTime
  <2>1. post.age <= Budget
    BY <1>2, <1>8, Before DEF AgeInv, Prompt
  <2>2. post.age \in Nat /\ Budget \in Nat /\ CallTime \in Nat
    BY <1>3, TimeAssumption DEF Posts
  <2>3. QED
    BY <1>6, <2>1, <2>2
<1>9. QED
  BY <1>2, <1>5, <1>6, <1>7, <1>8, PostMoves

LEMMA StepRender ==
  ASSUME IInv, RenderPost \/ Answer
  PROVE  IInv'
<1>1. PICK phase \in {"render", "answered"} :
        /\ post.phase = IF phase = "render" THEN "loop" ELSE "render"
        /\ phase = "render" => post.todo = {}
        /\ post' = [post EXCEPT !.phase = phase]
        /\ UNCHANGED <<pending, claimed, decided, clicked, calls, lock, server, drained, waited, budgets>>
  BY DEF RenderPost, Answer
<1>2. post \in Posts /\ post' \in Posts
  BY <1>1, Before DEF Posts, Phases
<1>3. /\ post'.phase = phase /\ post'.todo = post.todo /\ post'.results = post.results
      /\ post'.refs = post.refs /\ post'.stopped = post.stopped /\ post'.action = post.action
  BY <1>1, <1>2 DEF Posts
<1>4. PostInv(post', calls[Post], decided)
  BY <1>1, <1>3, Before DEF PostInv
<1>5. post'.phase \notin {"view", "loop", "call"} /\ (post'.phase = "render" => post.phase = "loop")
  BY <1>1, <1>3
<1>6. QED
  BY <1>1, <1>2, <1>4, <1>5, PostMoves

(* A place of the form gets a result without a call. *)
LEMMA NextWithoutCall ==
  ASSUME IInv, NEW i \in post.todo, NEW kind \in {"not-tried", "own"}, NEW stopped \in BOOLEAN,
         post.phase = "loop", post.stopped = TRUE => kind = "not-tried", stopped = FALSE => post.stopped = FALSE,
         post' = [post EXCEPT !.todo = @ \ {i}, !.stopped = stopped,
                              !.results = Append(@, [ref |-> post.refs[i], kind |-> kind])],
         UNCHANGED <<pending, claimed, decided, clicked, calls, lock, server, drained, waited, budgets>>
  PROVE  IInv'
<1> DEFINE r == [ref |-> post.refs[i], kind |-> kind]
           told == Append(post.results, r)
           left == post.todo \ {i}
<1>1. /\ post \in Posts /\ post.results \in Seq(Result) /\ post.refs \in Seq(Ref) /\ post.todo \subseteq Nat
      /\ post.stopped \in BOOLEAN
  BY Before DEF Posts
<1>2. /\ Told(post.results, post.stopped, post.refs, post.todo, decided)
      /\ calls[Post] = None /\ post.action # None
  BY Before DEF PostInv
<1>3. kind \in Kinds /\ ~Done(kind) /\ kind # "failed"
  BY DEF Kinds, Done
<1>4. i \in DOMAIN post.refs
  BY <1>2 DEF Told, Distinct
<1>5. r \in Result
  BY <1>1, <1>3, <1>4 DEF Result
<1>6. told \in Seq(Result)
  <2> HIDE DEF r
  <2>1. QED
    BY <1>1, <1>5, AppendProperties
<1>7. Told(told, stopped, post.refs, left, decided)
  <2>2. post.stopped = TRUE => kind = "not-tried" /\ stopped = TRUE
    BY <1>1
  <2>3. kind = "failed" => stopped = TRUE
    BY <1>3
  <2> DEFINE results == post.results
             refs == post.refs
             todo == post.todo
             halted == post.stopped
  <2>4. /\ i \in todo /\ Told(results, halted, refs, todo, decided)
        /\ results \in Seq(Result) /\ refs \in Seq(Ref)
        /\ halted = TRUE => kind = "not-tried" /\ stopped = TRUE
    BY <1>1, <1>2, <2>2
  <2> HIDE DEF results, refs, todo, halted
  <2>5. Told(Append(results, [ref |-> refs[i], kind |-> kind]), stopped, refs, todo \ {i}, decided)
    <3>1. decided \subseteq decided /\ \A x \in decided : x \in decided
      OBVIOUS
    <3>2. QED
      BY <1>3, <2>3, <2>4, <3>1, ToldOneMore
  <2>6. QED
    BY <2>5 DEF results, refs, todo, halted
<1> HIDE DEF told, left
<1>8. post' = [post EXCEPT !.todo = left, !.stopped = stopped, !.results = told]
  BY DEF left, told
<1>9. left \in SUBSET Nat
  BY <1>1 DEF left
<1>10. post' \in Posts
  BY <1>1, <1>6, <1>8, <1>9 DEF Posts
<1>11. /\ post'.phase = "loop" /\ post'.todo = left /\ post'.results = told /\ post'.stopped = stopped
       /\ post'.refs = post.refs /\ post'.action = post.action /\ post'.age = post.age
  BY <1>1, <1>8 DEF Posts
<1>12. PostInv(post', calls[Post], decided)
  BY <1>2, <1>7, <1>11 DEF PostInv
<1>13. hangs = 0 /\ waited = FALSE => post'.age <= Budget + CallTime
  BY <1>11, Before DEF AgeInv, Prompt
<1>14. QED
  BY <1>10, <1>11, <1>12, <1>13, PostMoves

LEMMA StepDecideNext ==
  ASSUME IInv, DecideNext
  PROVE  IInv'
<1>1. /\ post.phase = "loop" /\ calls[Post] = None
      /\ UNCHANGED <<pending, claimed, decided, clicked, lock, server, drained, waited, budgets>>
      /\ UNCHANGED <<changes, faults, hangs>>
  BY DEF DecideNext, budgets
<1>2. PICK i \in post.todo :
        \/ /\ Stopped
           /\ post' = [post EXCEPT !.todo = @ \ {i}, !.stopped = TRUE,
                                   !.results = Append(@, [ref |-> post.refs[i], kind |-> "not-tried"])]
           /\ UNCHANGED calls
        \/ /\ ~Stopped
           /\ post' = [post EXCEPT !.todo = @ \ {i},
                                   !.results = Append(@, [ref |-> post.refs[i], kind |-> "own"])]
           /\ UNCHANGED calls
        \/ /\ ~Stopped
           /\ post' = [post EXCEPT !.todo = @ \ {i}, !.phase = "call"]
           /\ calls' = [calls EXCEPT ![Post] =
                          NewCall(post.refs[i], post.action,
                                  IF post.view[post.refs[i].name] = None THEN "get" ELSE "lock")]
  BY DEF DecideNext
<1>3. /\ post \in Posts /\ post.refs \in Seq(Ref) /\ post.todo \subseteq Nat /\ post.age \in Nat
      /\ post.stopped \in BOOLEAN /\ post.action \in {"approve", "deny", None}
  BY Before DEF Posts
<1>4. /\ Told(post.results, post.stopped, post.refs, post.todo, decided)
      /\ post.action # None
  BY <1>1, Before DEF PostInv
<1>5. i \in DOMAIN post.refs
  BY <1>4 DEF Told, Distinct
<1>6. CASE /\ Stopped
           /\ post' = [post EXCEPT !.todo = @ \ {i}, !.stopped = TRUE,
                                   !.results = Append(@, [ref |-> post.refs[i], kind |-> "not-tried"])]
           /\ UNCHANGED calls
  <2>1. UNCHANGED <<pending, claimed, decided, clicked, calls, lock, server, drained, waited, budgets>>
    BY <1>1, <1>6
  <2>2. QED
    BY <1>1, <1>6, <2>1, NextWithoutCall
<1>7. CASE /\ ~Stopped
           /\ post' = [post EXCEPT !.todo = @ \ {i},
                                   !.results = Append(@, [ref |-> post.refs[i], kind |-> "own"])]
           /\ UNCHANGED calls
  <2>1. UNCHANGED <<pending, claimed, decided, clicked, calls, lock, server, drained, waited, budgets>>
    BY <1>1, <1>7
  <2>2. post.stopped = FALSE
    BY <1>3, <1>7 DEF Stopped
  <2>3. post' = [post EXCEPT !.todo = @ \ {i}, !.stopped = FALSE,
                             !.results = Append(@, [ref |-> post.refs[i], kind |-> "own"])]
    BY <1>3, <1>7, <2>2 DEF Posts
  <2>4. QED
    BY <1>1, <2>1, <2>2, <2>3, NextWithoutCall
<1>8. CASE /\ ~Stopped
           /\ post' = [post EXCEPT !.todo = @ \ {i}, !.phase = "call"]
           /\ calls' = [calls EXCEPT ![Post] =
                          NewCall(post.refs[i], post.action,
                                  IF post.view[post.refs[i].name] = None THEN "get" ELSE "lock")]
  <2> DEFINE s == IF post.view[post.refs[i].name] = None THEN "get" ELSE "lock"
             c == NewCall(post.refs[i], post.action, s)
             left == post.todo \ {i}
  <2>1. s \in {"get", "lock"}
    OBVIOUS
  <2> HIDE DEF s
  <2>2. /\ c \in Call /\ c.ref = post.refs[i] /\ c.step = s /\ c.age = 0 /\ c.spent = 0 /\ c.hung = FALSE
    <3>1. post.refs[i] \in [name : Names, ver : Nat]
      <4>1. post.refs[i] \in Ref
        BY <1>3, <1>5
      <4>2. QED
        BY <4>1, Zenon DEF Ref
    <3>2. post.action \in {"approve", "deny"} /\ s \in Steps
      BY <1>3, <1>4, <2>1 DEF Steps
    <3>3. c = [ref |-> post.refs[i], action |-> post.action, step |-> s, age |-> 0, spent |-> 0, hung |-> FALSE]
      BY DEF NewCall
    <3>4. 0 \in Nat /\ FALSE \in BOOLEAN
      OBVIOUS
    <3>5. c \in Call
      BY <3>1, <3>2, <3>3, <3>4 DEF Call
    <3>6. QED
      BY <3>3, <3>5
  <2>3. c # None
    BY <2>2, IdAssumption
  <2>4. calls' = [calls EXCEPT ![Post] = c]
    BY <1>8 DEF s
  <2> HIDE DEF c
  <2>5. calls' \in Calls /\ calls'[Post] = c /\ \A e \in Deciders : e # Post => calls'[e] = calls[e]
    BY <2>2, <2>4, Before DEF Calls
  <2>6. left \in SUBSET Nat
    BY <1>3
  <2>7. post' = [post EXCEPT !.todo = left, !.phase = "call"]
    BY <1>8
  <2> HIDE DEF left
  <2>8. post' \in Posts
    BY <1>3, <2>6, <2>7 DEF Posts, Phases
  <2>9. /\ post'.phase = "call" /\ post'.todo = left /\ post'.results = post.results
        /\ post'.stopped = post.stopped /\ post'.refs = post.refs /\ post'.action = post.action
        /\ post'.age = post.age
    BY <1>3, <2>7 DEF Posts
  <2>10. post.stopped = FALSE /\ post.age < Budget
    BY <1>3, <1>8, TimeAssumption DEF Stopped
  <2>11. PostInv(post', calls'[Post], decided')
    <3>1. i \in DOMAIN post'.refs \ post'.todo /\ c.ref = post'.refs[i]
      BY <1>5, <2>2, <2>9 DEF left
    <3>2. post'.todo \cup {i} = post.todo
      BY <2>9 DEF left
    <3>3. Told(post'.results, post'.stopped, post'.refs, post'.todo \cup {i}, decided')
      BY <1>1, <1>4, <2>9, <3>2
    <3>4. Decision(c.ref) \notin decided'
      <4>1. ASSUME Decision(c.ref) \in decided PROVE FALSE
        <5>1. /\ Decision(c.ref).by = Post /\ Decision(c.ref).name = post.refs[i].name
          BY <2>2 DEF Decision
        <5>2. PICK j \in DOMAIN post.results : post.results[j].ref.name = post.refs[i].name
          BY <1>4, <4>1, <5>1 DEF Told
        <5>3. QED
          BY <1>4, <5>2 DEF Told
      <4>2. QED
        BY <1>1, <4>1
    <3>5. decided' \ {Decision(c.ref)} = decided'
      BY <3>4
    <3>6. QED
      BY <1>4, <2>3, <2>5, <2>9, <2>10, <3>1, <3>3, <3>4, <3>5 DEF PostInv
  <2>12. LockInv(lock', calls')
    <3>1. c.step \notin Locked
      BY <2>1, <2>2 DEF Locked
    <3>2. \A e \in Deciders : calls'[e] # None /\ calls'[e].step \in Locked => lock.by = e
      BY <2>5, <3>1, Before DEF LockInv
    <3>3. lock.by # None => lock.by \in Deciders /\ lock.by # Post /\ calls'[lock.by] = calls[lock.by]
      BY <1>1, <2>5, Before DEF LockInv, Locks
    <3>4. LockInv(lock, calls')
      BY <3>2, <3>3, Before DEF LockInv
    <3>5. QED
      BY <1>1, <3>4
  <2>13. AgeInv(post', calls', hangs', waited')
    <3>1. SUFFICES ASSUME hangs = 0, waited = FALSE PROVE Prompt(post', calls')
      BY <1>1 DEF AgeInv
    <3>2. Prompt(post, calls)
      BY <3>1, Before DEF AgeInv
    <3>3. /\ c.hung = FALSE /\ c.age <= c.spent /\ c.spent <= CallTime
          /\ post'.age <= Budget - 1 + c.spent
      BY <1>3, <2>2, <2>9, <2>10, TimeAssumption
    <3>4. \A e \in Deciders : calls'[e] # None => /\ calls'[e].hung = FALSE
                              /\ calls'[e].age <= calls'[e].spent /\ calls'[e].spent <= CallTime
      BY <2>5, <3>2, <3>3 DEF Prompt
    <3>5. QED
      BY <2>5, <2>9, <3>3, <3>4 DEF Prompt
  <2>14. ClaimInv(post', calls', claimed', server', drained', faults', hangs', waited')
    <3>1. SUFFICES ASSUME faults = 0, hangs = 0, waited = FALSE
                   PROVE  Settled(post', calls', claimed, server, drained)
      BY <1>1 DEF ClaimInv
    <3>2. Settled(post, calls, claimed, server, drained)
      BY <3>1, Before DEF ClaimInv
    <3>3. \A e \in Clicks : e \in Deciders /\ e # Post
      BY IdAssumption DEF Deciders
    <3>4. c.step # "restore"
      BY <2>1, <2>2
    <3>5. \A e \in Deciders : calls'[e] # None => calls'[e].step # "restore"
      BY <2>5, <3>2, <3>4 DEF Settled
    <3>6. ASSUME NEW n \in claimed
          PROVE  \E e \in Deciders : calls'[e] # None /\ calls'[e].step \in Creating /\ calls'[e].ref.name = n
      <4>1. PICK e \in Deciders : calls[e] # None /\ calls[e].step \in Creating /\ calls[e].ref.name = n
        BY <3>2 DEF Settled
      <4>2. QED
        BY <1>1, <2>5, <4>1
    <3>7. server = "stopping" => /\ \A e \in Clicks : calls'[e] # None => drained <= calls'[e].spent
                                 /\ drained <= post'.age
      <4>1. server = "stopping" => drained <= post.age \/ post.age >= Budget
        BY <1>1, <3>2 DEF Settled
      <4>2. ~(post.age >= Budget)
        BY <1>3, <2>10, TimeAssumption
      <4>3. QED
        BY <2>5, <2>9, <3>2, <3>3, <4>1, <4>2 DEF Settled
    <3>8. server = "up" => drained = 0
      BY <3>2 DEF Settled
    <3>9. QED
      BY <3>5, <3>6, <3>7, <3>8 DEF Settled
  <2>15. TypeOK'
    BY <1>1, <2>5, <2>8 DEF IInv, TypeOK
  <2>16. CallerInv(server', post', calls', clicked')
    BY <1>1, <2>5, IdAssumption DEF IInv, CallerInv, Deciders
  <2>17. QED
    BY <2>11, <2>12, <2>13, <2>14, <2>15, <2>16 DEF IInv
<1>9. QED
  BY <1>2, <1>6, <1>7, <1>8

LEMMA StepInteract ==
  ASSUME IInv, NEW c \in Clicks, NEW n \in Names, NEW action \in {"approve", "deny"}, pending[n] # None,
         Interact(c, [name |-> n, ver |-> pending[n]], action)
  PROVE  IInv'
<1> DEFINE call == NewCall([name |-> n, ver |-> pending[n]], action, "email")
<1>1. /\ server = "up" /\ clicked' = clicked \cup {c} /\ calls' = [calls EXCEPT ![c] = call]
      /\ UNCHANGED <<pending, claimed, decided, post, lock, server, drained, waited, changes, faults, hangs>>
  BY DEF Interact, budgets
<1>2. call \in Call /\ call.step = "email" /\ call.age = 0 /\ call.spent = 0 /\ call.hung = FALSE
  <2>1. pending[n] \in Nat
    BY DEF IInv, TypeOK, Versions
  <2>2. QED
    BY <2>1 DEF NewCall, Call, Steps
<1>3. call # None
  BY <1>2, IdAssumption
<1>4. c \in Deciders /\ c # Post /\ calls[c] = None
  BY IdAssumption DEF Deciders, IInv, CallerInv, Interact
<1> HIDE DEF call
<1>5. calls' \in Calls /\ calls'[c] = call /\ \A e \in Deciders : e # c => calls'[e] = calls[e]
  BY <1>1, <1>2, <1>4, Before DEF Calls
<1>6. PostInv(post', calls'[Post], decided')
  BY <1>1, <1>4, <1>5, Before
<1>7. LockInv(lock', calls')
  <2>1. calls'[c].step \notin Locked
    BY <1>2, <1>5 DEF Locked
  <2>2. \A e \in Deciders : calls'[e] # None /\ calls'[e].step \in Locked => lock.by = e
    BY <1>5, <2>1, Before DEF LockInv
  <2>3. CASE lock.by = c
    <3>1. calls[c] # None /\ calls[c].step \in Locked /\ c # None
      BY <1>4, <2>3, IdAssumption, Before DEF LockInv
    <3>2. QED
      BY <1>4, <3>1
  <2>4. CASE lock.by # c
    <3>1. lock.by # None => calls'[lock.by] = calls[lock.by]
      BY <1>5, <2>4, Before DEF Locks
    <3>2. LockInv(lock, calls')
      BY <2>2, <3>1, Before DEF LockInv
    <3>3. QED
      BY <1>1, <3>2
  <2>5. QED
    BY <2>3, <2>4
<1>8. AgeInv(post', calls', hangs', waited')
  <2>1. SUFFICES ASSUME hangs = 0, waited = FALSE PROVE Prompt(post, calls')
    BY <1>1 DEF AgeInv
  <2>2. Prompt(post, calls)
    BY <2>1, Before DEF AgeInv
  <2>3. call.hung = FALSE /\ call.age <= call.spent /\ call.spent <= CallTime
    BY <1>2, TimeAssumption
  <2>4. \A e \in Deciders : calls'[e] # None => /\ calls'[e].hung = FALSE
                            /\ calls'[e].age <= calls'[e].spent /\ calls'[e].spent <= CallTime
    BY <1>5, <2>2, <2>3 DEF Prompt
  <2>5. calls'[Post] = calls[Post]
    BY <1>4, <1>5, Before
  <2>6. QED
    BY <2>2, <2>4, <2>5 DEF Prompt
<1>9. ClaimInv(post', calls', claimed', server', drained', faults', hangs', waited')
  <2>1. SUFFICES ASSUME faults = 0, hangs = 0, waited = FALSE
                 PROVE  Settled(post, calls', claimed, server, drained)
    BY <1>1 DEF ClaimInv
  <2>2. Settled(post, calls, claimed, server, drained)
    BY <2>1, Before DEF ClaimInv
  <2>3. \A e \in Deciders : calls'[e] # None => calls'[e].step # "restore"
    BY <1>2, <1>5, <2>2 DEF Settled
  <2>4. ASSUME NEW m \in claimed
        PROVE  \E e \in Deciders : calls'[e] # None /\ calls'[e].step \in Creating /\ calls'[e].ref.name = m
    <3>1. PICK e \in Deciders : calls[e] # None /\ calls[e].step \in Creating /\ calls[e].ref.name = m
      BY <2>2 DEF Settled
    <3>2. e # c
      BY <1>4, <3>1
    <3>3. QED
      BY <1>5, <3>1, <3>2
  <2>5. drained = 0
    BY <1>1, <2>2 DEF Settled
  <2>6. QED
    BY <1>1, <2>3, <2>4, <2>5 DEF Settled
<1>10. TypeOK'
  BY <1>1, <1>5 DEF IInv, TypeOK
<1>11. CallerInv(server', post', calls', clicked')
  BY <1>1, <1>5 DEF IInv, CallerInv, Deciders
<1>12. QED
  BY <1>6, <1>7, <1>8, <1>9, <1>10, <1>11 DEF IInv

LEMMA StepChange ==
  ASSUME IInv, NEW n \in Names, NEW ver \in {None} \cup (1 .. MaxChanges + 1), Change(n, ver)
  PROVE  IInv'
<1>1. /\ changes' = changes + 1 /\ pending' = [pending EXCEPT ![n] = ver]
      /\ UNCHANGED <<claimed, decided, post, clicked, calls, lock, server, drained, waited, faults, hangs>>
  BY DEF Change
<1>2. ver \in Nat \cup {None}
  BY BoundsAssumption
<1>3. pending' \in Versions /\ changes' \in Nat
  BY <1>1, <1>2, Before DEF TypeOK, Versions
<1>4. TypeOK'
  BY <1>1, <1>3 DEF IInv, TypeOK
<1>5. /\ PostInv(post', calls'[Post], decided') /\ LockInv(lock', calls')
      /\ AgeInv(post', calls', hangs', waited')
      /\ ClaimInv(post', calls', claimed', server', drained', faults', hangs', waited')
  BY <1>1, Before
<1>6. CallerInv(server', post', calls', clicked')
  BY <1>1 DEF IInv
<1>7. QED
  BY <1>4, <1>5, <1>6 DEF IInv

LEMMA StepStop ==
  ASSUME IInv, Stop
  PROVE  IInv'
<1>1. /\ server = "up" /\ server' = "stopping"
      /\ UNCHANGED <<pending, claimed, decided, post, clicked, calls, lock, drained, waited, changes, faults, hangs>>
  BY DEF Stop, budgets
<1>2. TypeOK'
  BY <1>1 DEF IInv, TypeOK
<1>3. PostInv(post', calls'[Post], decided') /\ LockInv(lock', calls') /\ AgeInv(post', calls', hangs', waited')
  BY <1>1, Before
<1>4. ClaimInv(post', calls', claimed', server', drained', faults', hangs', waited')
  <2>1. SUFFICES ASSUME faults = 0, hangs = 0, waited = FALSE
                 PROVE  Settled(post, calls, claimed, server', drained)
    BY <1>1 DEF ClaimInv
  <2>2. Settled(post, calls, claimed, server, drained)
    BY <2>1, Before DEF ClaimInv
  <2>3. drained = 0
    BY <1>1, <2>2 DEF Settled
  <2>4. \A e \in Clicks : calls[e] # None => 0 <= calls[e].spent
    <3>1. \A e \in Clicks : e \in Deciders
      BY DEF Deciders
    <3>2. QED
      BY <3>1, Before, CallOf
  <2>5. 0 <= post.age
    BY Before DEF Posts
  <2>6. QED
    BY <1>1, <2>2, <2>3, <2>4, <2>5 DEF Settled
<1>5. CallerInv(server', post', calls', clicked')
  BY <1>1 DEF IInv, CallerInv
<1>6. QED
  BY <1>2, <1>3, <1>4, <1>5 DEF IInv

LEMMA StepExit ==
  ASSUME IInv, Exit
  PROVE  IInv'
<1>1. /\ server = "stopping" /\ (AllEnded \/ drained >= Drain) /\ server' = "gone"
      /\ \/ UNCHANGED <<pending, claimed, decided>>
         \/ \E d \in Deciders :
              \/ InStep(d, "claim") /\ Mark(calls[d].ref.name) /\ UNCHANGED decided
              \/ InStep(d, "remove") /\ Removed(d) /\ UNCHANGED claimed
              \/ InStep(d, "create") /\ Created(d) /\ UNCHANGED pending
      /\ calls' = [d \in Deciders |-> None] /\ lock' = Free
      /\ post' = IF post.phase \in {"none", "answered"} THEN post ELSE [post EXCEPT !.phase = "cut"]
      /\ UNCHANGED <<clicked, drained, waited, changes, faults, hangs>>
  BY DEF Exit, budgets
<1>2. calls' \in Calls /\ \A d \in Deciders : calls'[d] = None
  BY <1>1 DEF Calls
<1>3. calls'[Post] = None
  BY <1>2, Before
<1>4. /\ pending' \in Versions /\ claimed' \in SUBSET Names
      /\ decided' \in SUBSET [name : Names, ver : Nat, by : Deciders]
      /\ \/ decided' = decided
         \/ \E d \in Deciders : calls[d] # None /\ calls[d].step # "restore" /\ decided' = decided \cup {MadeBy(d)}
  <2>1. /\ pending \in Versions /\ claimed \in SUBSET Names
        /\ decided \in SUBSET [name : Names, ver : Nat, by : Deciders]
    BY DEF IInv, TypeOK
  <2>2. CASE UNCHANGED <<pending, claimed, decided>>
    BY <2>1, <2>2
  <2>3. ASSUME NEW d \in Deciders, calls[d] # None
        PROVE  calls[d].ref.name \in Names /\ MadeBy(d) \in [name : Names, ver : Nat, by : Deciders]
    BY <2>3, Before, CallOf DEF MadeBy
  <2>4. ASSUME NEW d \in Deciders, InStep(d, "claim"), Mark(calls[d].ref.name), UNCHANGED decided
        PROVE  pending' \in Versions /\ claimed' \in SUBSET Names
    BY <2>1, <2>3, <2>4 DEF Mark, Versions, InStep
  <2>5. ASSUME NEW d \in Deciders, InStep(d, "remove"), Removed(d), UNCHANGED claimed
        PROVE  /\ pending' \in Versions /\ claimed' \in SUBSET Names /\ decided' = decided \cup {MadeBy(d)}
               /\ calls[d] # None /\ calls[d].step # "restore"
    BY <2>1, <2>3, <2>5 DEF Removed, Decide, MadeBy, Versions, InStep
  <2>6. ASSUME NEW d \in Deciders, InStep(d, "create"), Created(d), UNCHANGED pending
        PROVE  /\ pending' \in Versions /\ claimed' \in SUBSET Names /\ decided' = decided \cup {MadeBy(d)}
               /\ calls[d] # None /\ calls[d].step # "restore"
    BY <2>1, <2>6 DEF Created, Decide, MadeBy, InStep
  <2>7. ASSUME NEW d \in Deciders, calls[d] # None, decided' = decided \cup {MadeBy(d)}
        PROVE  decided' \in SUBSET [name : Names, ver : Nat, by : Deciders]
    BY <2>1, <2>3, <2>7
  <2>8. QED
    BY <1>1, <2>1, <2>2, <2>4, <2>5, <2>6, <2>7
<1>5. lock' \in Locks /\ lock'.by = None
  BY <1>1 DEF Free, Locks
<1>6. LockInv(lock', calls')
  BY <1>2, <1>5 DEF LockInv
<1>7. /\ post' \in Posts /\ post'.phase \notin {"view", "loop", "call", "render"}
      /\ PostInv(post', calls'[Post], decided')
  <2>1. CASE post.phase \in {"none", "answered"}
    <3>1. post' = post
      BY <1>1, <2>1
    <3>2. PostInv(post, calls[Post], decided) /\ post \in Posts
      BY Before
    <3>3. calls[Post] = None
      BY <2>1, <3>2 DEF PostInv
    <3>4. \A x \in decided' : x \in decided \/ x.by # Post
      <4>1. ASSUME NEW d \in Deciders, calls[d] # None PROVE MadeBy(d).by # Post
        BY <3>3, <4>1 DEF MadeBy
      <4>2. QED
        BY <1>4, <4>1
    <3>5. PostInv(post', calls'[Post], decided')
      BY <1>3, <1>4, <3>1, <3>2, <3>3, <3>4, PostCarry
    <3>6. QED
      BY <2>1, <3>1, <3>2, <3>5
  <2>2. CASE post.phase \notin {"none", "answered"}
    <3>1. post \in Posts /\ PostInv(post, calls[Post], decided)
      BY Before
    <3>2. post' = [post EXCEPT !.phase = "cut"]
      BY <1>1, <2>2
    <3>3. post' \in Posts
      BY <3>1, <3>2 DEF Posts, Phases
    <3>4. /\ post'.phase = "cut" /\ post'.results = post.results /\ post'.stopped = post.stopped
          /\ post'.refs = post.refs /\ post'.action = post.action
      BY <3>1, <3>2 DEF Posts
    <3>5. post.phase \in {"view", "loop", "render", "call", "cut"}
      BY <2>2, <3>1 DEF Posts, Phases
    <3>6. ASSUME NEW left, NEW out, NEW out2, out \subseteq out2,
                 Told(post.results, post.stopped, post.refs, left, decided \ out),
                 \A x \in decided' : x \in decided \/ x \in out2 \/ x.by # Post,
                 \A x \in out2 : \E k \in left : x.name = post.refs[k].name
          PROVE  ToldBut(post'.results, post'.stopped, post'.refs, left, decided', out2)
      <4>1. Told(post.results, post.stopped, post.refs, left, decided \ out2)
        <5>1. decided \ out2 \subseteq decided \ out
          BY <3>6
        <5>2. Told(post.results, post.stopped, post.refs, left, decided \ out)
          BY <3>6
        <5>3. ASSUME NEW i \in DOMAIN post.results, Done(post.results[i].kind)
              PROVE  Decision(post.results[i].ref) \in decided \ out2
          <6>1. Decision(post.results[i].ref) \in decided
            BY <5>2, <5>3 DEF Told
          <6>2. ASSUME Decision(post.results[i].ref) \in out2 PROVE FALSE
            <7>1. PICK k \in left : Decision(post.results[i].ref).name = post.refs[k].name
              BY <3>6, <6>2
            <7>2. post.results[i].ref.name = post.refs[k].name
              BY <7>1 DEF Decision
            <7>3. QED
              BY <5>2, <5>3, <7>2 DEF Told
          <6>3. QED
            BY <6>1, <6>2
        <5>4. QED
          BY <5>1, <5>2, <5>3 DEF Told
      <4>2. decided \ out2 \subseteq decided' \ out2
        BY <1>4
      <4>3. \A x \in decided' \ out2 : x \in decided \ out2 \/ x.by # Post
        BY <3>6
      <4>4. Told(post.results, post.stopped, post.refs, left, decided' \ out2)
        BY <4>1, <4>2, <4>3, ToldOfPost
      <4>5. QED
        BY <3>4, <3>6, <4>4 DEF ToldBut
    <3>7. \E left, out : ToldBut(post'.results, post'.stopped, post'.refs, left, decided', out)
      <4>1. ASSUME NEW d \in Deciders, calls[d] # None, d # Post PROVE MadeBy(d).by # Post
        BY <4>1 DEF MadeBy
      <4>2. CASE post.phase = "call"
        <5>1. PICK k \in DOMAIN post.refs \ post.todo :
                /\ calls[Post].ref = post.refs[k]
                /\ Told(post.results, post.stopped, post.refs, post.todo \cup {k},
                        decided \ {Decision(calls[Post].ref)})
          BY <3>1, <4>2 DEF PostInv
        <5>2. Decision(calls[Post].ref).name = post.refs[k].name /\ Decision(calls[Post].ref) = MadeBy(Post)
          BY <5>1 DEF Decision, MadeBy
        <5>3. \A x \in decided' : x \in decided \/ x \in {Decision(calls[Post].ref)} \/ x.by # Post
          BY <1>4, <4>1, <5>2
        <5>4. \A x \in {Decision(calls[Post].ref)} : \E l \in post.todo \cup {k} : x.name = post.refs[l].name
          BY <5>2
        <5> DEFINE left == post.todo \cup {k}
                   out == {Decision(calls[Post].ref)}
        <5>5. /\ Told(post.results, post.stopped, post.refs, left, decided \ out)
              /\ \A x \in decided' : x \in decided \/ x \in out \/ x.by # Post
              /\ \A x \in out : \E l \in left : x.name = post.refs[l].name
              /\ out \subseteq out
          BY <5>1, <5>3, <5>4
        <5> HIDE DEF left, out
        <5>6. ToldBut(post'.results, post'.stopped, post'.refs, left, decided', out)
          BY <3>6, <5>5
        <5>7. QED
          BY <5>6
      <4>3. CASE post.phase \in {"view", "loop", "render", "cut"}
        <5>1. calls[Post] = None
          BY <3>1, <4>3 DEF PostInv
        <5>2. \A x \in decided' : x \in decided \/ x.by # Post
          BY <1>4, <4>1, <5>1
        <5>3. \E left, out : ToldBut(post.results, post.stopped, post.refs, left, decided, out)
          <6>1. CASE post.phase = "cut"
            BY <3>1, <6>1 DEF PostInv
          <6>2. CASE post.phase # "cut"
            <7>1. PICK left : Told(post.results, post.stopped, post.refs, left, decided)
              BY <3>1, <4>3, <6>2 DEF PostInv
            <7>2. decided \ {} = decided
              OBVIOUS
            <7>3. Told(post.results, post.stopped, post.refs, left, decided \ {})
              BY <7>1, <7>2
            <7>4. ToldBut(post.results, post.stopped, post.refs, left, decided, {})
              BY <7>3 DEF ToldBut
            <7>5. QED
              BY <7>4
          <6>3. QED
            BY <6>1, <6>2
        <5>4. PICK left, out : ToldBut(post.results, post.stopped, post.refs, left, decided, out)
          BY <5>3
        <5>5. /\ Told(post.results, post.stopped, post.refs, left, decided \ out) /\ out \subseteq out
              /\ \A x \in decided' : x \in decided \/ x \in out \/ x.by # Post
              /\ \A x \in out : \E k \in left : x.name = post.refs[k].name
          BY <5>2, <5>4 DEF ToldBut
        <5>6. ToldBut(post'.results, post'.stopped, post'.refs, left, decided', out)
          BY <3>6, <5>5
        <5>7. QED
          BY <5>6
      <4>4. QED
        BY <3>5, <4>2, <4>3
    <3>8. post'.action # None
      BY <2>2, <3>1, <3>4 DEF PostInv
    <3>9. PostInv(post', calls'[Post], decided')
      BY <1>3, <3>4, <3>7, <3>8 DEF PostInv
    <3>10. QED
      BY <3>3, <3>4, <3>9
  <2>3. QED
    BY <2>1, <2>2
<1>8. AgeInv(post', calls', hangs', waited')
  BY <1>2, <1>3, <1>7 DEF AgeInv, Prompt
<1>9. ASSUME faults = 0, hangs = 0, waited = FALSE
      PROVE  \A d \in Deciders : calls[d] = None
  <2>1. Settled(post, calls, claimed, server, drained) /\ Prompt(post, calls)
    BY <1>9, Before DEF ClaimInv, AgeInv
  <2>2. CASE AllEnded
    BY <2>2 DEF AllEnded
  <2>3. CASE drained >= Drain
    <3>1. drained \in Nat /\ {Budget, CallTime, Drain} \subseteq Nat \ {0} /\ Drain = Budget + CallTime
      BY TimeAssumption DEF IInv, TypeOK
    <3>2. ASSUME NEW d \in Deciders, calls[d] # None PROVE FALSE
      <4>1. calls[d].spent <= CallTime /\ calls[d].spent \in Nat
        BY <2>1, <3>2, Before, CallOf DEF Prompt
      <4>2. CASE d = Post
        <5>1. post.phase = "call"
          BY <3>2, <4>2, Before DEF PostInv
        <5>2. post.age <= Budget - 1 + calls[d].spent /\ drained <= post.age
          BY <1>1, <2>1, <3>2, <4>2, <5>1 DEF Prompt, Settled
        <5>3. post.age \in Nat
          BY Before DEF Posts
        <5>4. QED
          BY <2>3, <3>1, <4>1, <5>2, <5>3
      <4>3. CASE d \in Clicks
        <5>1. drained <= calls[d].spent
          BY <1>1, <2>1, <3>2, <4>3 DEF Settled
        <5>2. QED
          BY <2>3, <3>1, <4>1, <5>1
      <4>4. QED
        BY <4>2, <4>3 DEF Deciders
    <3>3. QED
      BY <3>2
  <2>4. QED
    BY <1>1, <2>2, <2>3
<1>10. ClaimInv(post', calls', claimed', server', drained', faults', hangs', waited')
  <2>1. SUFFICES ASSUME faults = 0, hangs = 0, waited = FALSE
                 PROVE  Settled(post', calls', claimed', server', drained)
    BY <1>1 DEF ClaimInv
  <2>2. \A d \in Deciders : calls[d] = None
    BY <1>9, <2>1
  <2>3. claimed = {}
    BY <2>1, <2>2, Before DEF ClaimInv, Settled
  <2>4. claimed' = {}
    BY <1>1, <2>2, <2>3 DEF InStep
  <2>5. QED
    BY <1>1, <1>2, <2>4 DEF Settled
<1>11. TypeOK'
  BY <1>1, <1>2, <1>4, <1>5, <1>7 DEF IInv, TypeOK
<1>12. CallerInv(server', post', calls', clicked')
  BY <1>2, <1>7 DEF CallerInv, Deciders
<1>13. QED
  BY <1>6, <1>7, <1>8, <1>10, <1>11, <1>12 DEF IInv

(* One tick for one call. *)
LEMMA OlderCall ==
  ASSUME TypeOK, NEW d \in Deciders
  PROVE  /\ Older(d) \in Call \cup {None}
         /\ Older(d) = None <=> calls[d] = None
         /\ calls[d] # None => /\ Older(d).ref = calls[d].ref /\ Older(d).step = calls[d].step
                               /\ Older(d).hung = calls[d].hung /\ Older(d).age = calls[d].age + 1
                               /\ Older(d).spent = IF Waits(d) \/ calls[d].hung
                                                   THEN calls[d].spent ELSE calls[d].spent + 1
<1>1. CASE calls[d] = None
  BY <1>1 DEF Older
<1>2. CASE calls[d] # None
  <2> DEFINE spent == IF Waits(d) \/ calls[d].hung THEN calls[d].spent ELSE calls[d].spent + 1
             c == [calls[d] EXCEPT !.age = calls[d].age + 1, !.spent = spent]
  <2>1. calls[d] \in Call /\ calls[d].age + 1 \in Nat /\ calls[d].spent \in Nat
    BY <1>2, CallOf
  <2>2. spent \in Nat
    BY <2>1
  <2>3. Older(d) = c
    BY <1>2 DEF Older
  <2> HIDE DEF spent
  <2>4. c \in Call
    BY <2>1, <2>2 DEF Call
  <2>5. /\ c.ref = calls[d].ref /\ c.step = calls[d].step
        /\ c.hung = calls[d].hung /\ c.age = calls[d].age + 1 /\ c.spent = spent
    BY <2>1 DEF Call
  <2>6. c # None
    BY <2>4, IdAssumption
  <2> HIDE DEF c
  <2>7. QED
    BY <1>2, <2>3, <2>4, <2>5, <2>6 DEF spent
<1>3. QED
  BY <1>1, <1>2

LEMMA StepTick ==
  ASSUME IInv, Tick
  PROVE  IInv'
<1>1. /\ server # "gone" /\ drained < Drain
      /\ post.phase \in {"none", "view", "call", "render", "answered"}
      /\ \A d \in Deciders : calls[d] # None => TakesTime(d)
      /\ calls' = [d \in Deciders |-> Older(d)]
      /\ post' = IF Counts THEN [post EXCEPT !.age = @ + 1] ELSE post
      /\ lock' = IF lock.by = None THEN lock ELSE [lock EXCEPT !.held = @ + 1]
      /\ drained' = IF server = "stopping" THEN drained + 1 ELSE drained
      /\ waited' = (waited \/ \E d \in Deciders : Waits(d))
      /\ UNCHANGED <<pending, claimed, decided, clicked, server, changes, faults, hangs>>
  BY DEF Tick, budgets
<1>2. TypeOK /\ drained \in Nat /\ waited \in BOOLEAN /\ post.age \in Nat
  BY Before DEF TypeOK, Posts
<1>3. calls' \in Calls /\ \A d \in Deciders : calls'[d] = Older(d)
  <2>1. \A d \in Deciders : Older(d) \in Call \cup {None}
    BY <1>2, OlderCall
  <2>2. QED
    BY <1>1, <2>1 DEF Calls
<1>4. \A d \in Deciders :
        /\ calls'[d] = None <=> calls[d] = None
        /\ calls[d] # None => /\ calls'[d].ref = calls[d].ref /\ calls'[d].step = calls[d].step
                              /\ calls'[d].hung = calls[d].hung /\ calls'[d].age = calls[d].age + 1
                              /\ calls'[d].spent = IF Waits(d) \/ calls[d].hung
                                                   THEN calls[d].spent ELSE calls[d].spent + 1
  BY <1>2, <1>3, OlderCall
<1>5. \A d \in Deciders : calls[d] # None =>
        /\ calls[d].age \in Nat /\ calls[d].spent \in Nat
  BY <1>2, CallOf
<1>6. /\ post' \in Posts /\ post'.phase = post.phase /\ post'.action = post.action /\ post'.todo = post.todo
      /\ post'.results = post.results /\ post'.stopped = post.stopped /\ post'.refs = post.refs
      /\ post'.age = IF Counts THEN post.age + 1 ELSE post.age
  <2>1. post \in Posts /\ post.age + 1 \in Nat
    BY <1>2, Before
  <2>2. QED
    BY <1>1, <2>1 DEF Posts
<1>7. PostInv(post', calls'[Post], decided')
  <2>1. /\ PostInv(post, calls[Post], decided) /\ decided' = decided
        /\ calls[Post] = None <=> calls'[Post] = None
        /\ calls[Post] # None => /\ calls'[Post].ref = calls[Post].ref
                                 /\ calls[Post].step # "restore" \/ calls'[Post].step = "restore"
    BY <1>1, <1>4, Before
  <2>2. QED
    BY <1>6, <2>1, PostCarry
<1>8. LockInv(lock', calls') /\ lock' \in Locks
  <2>1. lock \in Locks /\ LockInv(lock, calls) /\ (lock.by # None => lock.by \in Deciders) /\ lock.held \in Nat
    BY Before DEF Locks
  <2>2. \A d \in Deciders : calls'[d] # None /\ calls'[d].step \in Locked => lock.by = d
    BY <1>4, <2>1 DEF LockInv
  <2>3. lock'.by = lock.by /\ lock' \in Locks /\ (lock.by # None => lock'.held = lock.held + 1)
    BY <1>1, <2>1 DEF Locks
  <2>4. ASSUME lock.by # None
        PROVE  /\ calls'[lock.by] # None /\ calls'[lock.by].step \in Locked
               /\ HeldInTime(lock'.held, calls'[lock.by], lock.by)
    <3> DEFINE d == lock.by
    <3>1. d \in Deciders /\ calls[d] # None /\ calls[d].step \in Locked /\ HeldInTime(lock.held, calls[d], d)
      BY <2>1, <2>4 DEF LockInv
    <3> HIDE DEF d
    <3>2. calls[d].step # "lock"
      BY <3>1 DEF Locked
    <3>3. ~Ended(d)
      BY <1>1, <3>1, <3>2 DEF TakesTime, Waits, InStep
    <3>4. calls'[d] # None /\ calls'[d].step = calls[d].step /\ calls'[d].age = calls[d].age + 1
      BY <1>4, <3>1
    <3>5. calls[d].age \in Nat /\ {RefLimit, ClickLimit, RestoreLimit} \subseteq Nat /\ OwnLimit(d) \in Nat
      BY <1>5, <3>1, TimeAssumption DEF OwnLimit
    <3>6. /\ calls[d].step \in Restores => calls[d].age < RestoreLimit
          /\ calls[d].step \notin Restores => calls[d].age < OwnLimit(d)
      BY <3>3, <3>5 DEF Ended, TimeLimit, OwnLimit
    <3>7. HeldInTime(lock.held + 1, calls'[d], d)
      <4>1. CASE calls[d].step \in Restores
        BY <2>1, <3>1, <3>4, <3>5, <3>6, <4>1 DEF HeldInTime
      <4>2. CASE calls[d].step \notin Restores
        BY <2>1, <3>1, <3>4, <3>5, <3>6, <4>2 DEF HeldInTime
      <4>3. QED
        BY <4>1, <4>2
    <3>8. QED
      BY <2>3, <2>4, <3>1, <3>4, <3>7 DEF d
  <2>5. QED
    BY <2>2, <2>3, <2>4 DEF LockInv
<1>9. ASSUME hangs = 0, waited' = FALSE
      PROVE  /\ waited = FALSE
             /\ \A d \in Deciders : calls[d] # None =>
                  /\ calls'[d].hung = FALSE /\ calls'[d].age <= calls'[d].spent /\ calls'[d].spent <= CallTime
                  /\ calls'[d].spent = calls[d].spent + 1
  <2>1. waited = FALSE /\ \A d \in Deciders : ~Waits(d)
    BY <1>1, <1>2, <1>9
  <2>2. Prompt(post, calls)
    BY <1>9, <2>1, Before DEF AgeInv
  <2>3. ASSUME NEW d \in Deciders, calls[d] # None
        PROVE  /\ calls'[d].hung = FALSE /\ calls'[d].age <= calls'[d].spent /\ calls'[d].spent <= CallTime
               /\ calls'[d].spent = calls[d].spent + 1
    <3>1. calls[d].hung = FALSE /\ calls[d].age <= calls[d].spent
      BY <2>2, <2>3 DEF Prompt
    <3>2. calls[d].spent < CallTime
      BY <1>1, <2>1, <2>3, <3>1 DEF TakesTime
    <3>3. calls[d].age \in Nat /\ calls[d].spent \in Nat /\ CallTime \in Nat
      BY <1>5, <2>3, TimeAssumption
    <3>4. calls'[d].spent = calls[d].spent + 1 /\ calls'[d].age = calls[d].age + 1 /\ calls'[d].hung = calls[d].hung
      BY <1>4, <2>1, <2>3, <3>1
    <3>5. QED
      BY <3>1, <3>2, <3>3, <3>4
  <2>4. QED
    BY <2>1, <2>3
<1>10. AgeInv(post', calls', hangs', waited')
  <2>1. SUFFICES ASSUME hangs = 0, waited' = FALSE PROVE Prompt(post', calls')
    BY <1>1 DEF AgeInv
  <2>2. Prompt(post, calls)
    BY <1>9, <2>1, Before DEF AgeInv
  <2>3. post.age \in Nat /\ {Budget, CallTime} \subseteq Nat
    BY <1>2, TimeAssumption
  <2>4. post'.phase = "view" => post'.age <= Budget
    <3>1. post.phase = "view" => post.age <= Budget
      BY <2>2 DEF Prompt
    <3>2. QED
      BY <1>6, <2>3, <3>1 DEF Counts
  <2>5. post'.phase # "loop"
    BY <1>1, <1>6
  <2>6. ASSUME post'.phase = "call", calls'[Post] # None PROVE post'.age <= Budget - 1 + calls'[Post].spent
    <3>1. calls[Post] # None /\ post.phase = "call"
      BY <1>4, <1>6, <2>6, Before
    <3>2. post.age <= Budget - 1 + calls[Post].spent /\ calls[Post].spent \in Nat
      BY <1>5, <2>2, <3>1, Before DEF Prompt
    <3>3. calls'[Post].spent = calls[Post].spent + 1 /\ post'.age = post.age + 1
      BY <1>6, <1>9, <2>1, <3>1, Before DEF Counts
    <3>4. QED
      BY <2>3, <3>2, <3>3
  <2>7. QED
    BY <1>4, <1>9, <2>1, <2>4, <2>5, <2>6 DEF Prompt
<1>11. ClaimInv(post', calls', claimed', server', drained', faults', hangs', waited')
  <2>1. SUFFICES ASSUME faults = 0, hangs = 0, waited' = FALSE
                 PROVE  Settled(post', calls', claimed, server, drained')
    BY <1>1 DEF ClaimInv
  <2>2. Settled(post, calls, claimed, server, drained)
    BY <1>9, <2>1, Before DEF ClaimInv
  <2>3. \A d \in Deciders : calls'[d] # None => calls'[d].step # "restore"
    BY <1>4, <2>2 DEF Settled
  <2>4. \A n \in claimed : \E d \in Deciders :
          calls'[d] # None /\ calls'[d].step \in Creating /\ calls'[d].ref.name = n
    BY <1>4, <2>2 DEF Settled
  <2>5. server = "up" => drained' = 0
    BY <1>1, <2>2 DEF Settled
  <2>6. ASSUME server = "stopping"
        PROVE  /\ \A d \in Clicks : calls'[d] # None => drained' <= calls'[d].spent
               /\ post'.phase \in {"view", "loop"} => drained' <= post'.age \/ post'.age >= Budget
               /\ post'.phase = "call" => drained' <= post'.age
    <3>1. drained' = drained + 1
      BY <1>1, <2>6
    <3>2. ASSUME NEW d \in Clicks, calls'[d] # None PROVE drained' <= calls'[d].spent
      <4>1. d \in Deciders
        BY DEF Deciders
      <4>2. calls[d] # None /\ calls'[d].spent = calls[d].spent + 1 /\ calls[d].spent \in Nat
        BY <1>4, <1>5, <1>9, <2>1, <3>2, <4>1
      <4>3. drained <= calls[d].spent
        BY <2>2, <2>6, <4>2 DEF Settled
      <4>4. QED
        BY <1>2, <3>1, <4>2, <4>3
    <3>3. ASSUME post'.phase = "call" PROVE drained' <= post'.age
      <4>1. post.phase = "call" /\ post'.age = post.age + 1
        BY <1>6, <3>3 DEF Counts
      <4>2. drained <= post.age
        BY <2>2, <2>6, <4>1 DEF Settled
      <4>3. QED
        BY <1>2, <3>1, <4>1, <4>2
    <3>4. ASSUME post'.phase \in {"view", "loop"} PROVE drained' <= post'.age \/ post'.age >= Budget
      <4>1. post.phase = "view" /\ Budget \in Nat
        BY <1>1, <1>6, <3>4, TimeAssumption
      <4>2. drained <= post.age \/ post.age >= Budget
        BY <2>2, <2>6, <4>1 DEF Settled
      <4>3. CASE post.age >= Budget
        BY <1>2, <1>6, <4>1, <4>3 DEF Counts
      <4>4. CASE drained <= post.age /\ post.age < Budget
        BY <1>2, <1>6, <3>1, <4>1, <4>4 DEF Counts
      <4>5. QED
        BY <1>2, <4>1, <4>2, <4>3, <4>4
    <3>5. QED
      BY <3>2, <3>3, <3>4
  <2>7. QED
    BY <2>3, <2>4, <2>5, <2>6 DEF Settled
<1>12. TypeOK'
  <2>1. drained' \in Nat /\ waited' \in BOOLEAN
    BY <1>1, <1>2
  <2>2. QED
    BY <1>1, <1>3, <1>6, <1>8, <2>1 DEF IInv, TypeOK
<1>13. CallerInv(server', post', calls', clicked')
  BY <1>1, <1>4, <1>6 DEF IInv, CallerInv, Deciders
<1>14. QED
  BY <1>7, <1>8, <1>10, <1>11, <1>12, <1>13 DEF IInv

LEMMA Initial ==
  ASSUME Init
  PROVE  IInv
<1>1. /\ pending = [n \in Names |-> 1] /\ claimed = {} /\ decided = {}
      /\ post = NoPost /\ clicked = {}
      /\ calls = [d \in Deciders |-> None] /\ lock = Free
      /\ server = "up" /\ drained = 0 /\ waited = FALSE
      /\ changes = 0 /\ faults = 0 /\ hangs = 0
  BY DEF Init
<1>2. post \in Posts /\ post.phase = "none" /\ post.stopped = FALSE /\ post.results = <<>> /\ post.todo = {}
  <2>1. <<>> \in Seq(Result) /\ <<>> \in Seq(Ref)
    BY EmptySeq
  <2>2. QED
    BY <1>1, <2>1 DEF NoPost, Posts, Phases
<1>3. calls \in Calls /\ (\A d \in Deciders : calls[d] = None) /\ Post \in Deciders /\ Clicks \subseteq Deciders
  BY <1>1 DEF Calls, Deciders
<1>4. lock \in Locks /\ lock.by = None
  BY <1>1 DEF Free, Locks
<1>5. TypeOK
  <2>1. pending \in Versions
    BY <1>1 DEF Versions
  <2>2. QED
    BY <1>1, <1>2, <1>3, <1>4, <2>1 DEF TypeOK
<1>6. PostInv(post, calls[Post], decided)
  BY <1>1, <1>2, <1>3 DEF PostInv
<1>7. LockInv(lock, calls)
  BY <1>3, <1>4 DEF LockInv
<1>8. AgeInv(post, calls, hangs, waited)
  BY <1>2, <1>3 DEF AgeInv, Prompt
<1>9. ClaimInv(post, calls, claimed, server, drained, faults, hangs, waited)
  BY <1>1, <1>3 DEF ClaimInv, Settled
<1>10. CallerInv(server, post, calls, clicked)
  BY <1>1, <1>3 DEF CallerInv
<1>11. QED
  BY <1>5, <1>6, <1>7, <1>8, <1>9, <1>10 DEF IInv

LEMMA Inductive ==
  ASSUME IInv, [Next]_vars
  PROVE  IInv'
<1>1. ASSUME UNCHANGED vars PROVE IInv'
  <2>1. UNCHANGED <<pending, claimed, decided, post, clicked, calls, lock, server, drained, waited>>
        /\ UNCHANGED <<changes, faults, hangs>>
    BY <1>1 DEF vars, budgets
  <2>2. TypeOK'
    BY <2>1 DEF IInv, TypeOK
  <2>3. QED
    BY <2>1, <2>2 DEF IInv
<1>2. ASSUME NEW form \in Forms, NEW action \in {"approve", "deny"}, ReceivePost(form, action) PROVE IInv'
  BY <1>2, StepReceivePost
<1>3. ASSUME ReadPage \/ DecideNext \/ RenderPost \/ Answer PROVE IInv'
  BY <1>3, StepReadPage, StepDecideNext, StepRender
<1>4. ASSUME NEW c \in Clicks, NEW n \in Names, NEW action \in {"approve", "deny"},
             pending[n] # None, Interact(c, [name |-> n, ver |-> pending[n]], action)
      PROVE  IInv'
  BY <1>4, StepInteract
<1>5. ASSUME NEW c \in Clicks, LookUp(c) PROVE IInv'
  BY <1>5, StepLookUp
<1>6. ASSUME NEW d \in Deciders,
             GetRequest(d) \/ Lock(d) \/ PendingAt(d) \/ RemoveDecided(d) \/ Claim(d) \/ Create(d)
               \/ Restore(d) \/ Hang(d)
      PROVE  IInv'
  BY <1>6, StepGetRequest, StepLock, StepPendingAt, StepRemoveDecided, StepClaim, StepCreate,
     StepRestore, StepHang
<1>7. ASSUME NEW n \in Names, NEW ver \in {None} \cup (1 .. MaxChanges + 1), Change(n, ver) PROVE IInv'
  BY <1>7, StepChange
<1>8. ASSUME Stop \/ Exit \/ Tick PROVE IInv'
  BY <1>8, StepStop, StepExit, StepTick
<1>9. QED
  BY <1>1, <1>2, <1>3, <1>4, <1>5, <1>6, <1>7, <1>8 DEF Next

LEMMA Invariant == Spec => []IInv
<1>1. Init => IInv
  BY Initial
<1>2. IInv /\ [Next]_vars => IInv'
  BY Inductive
<1>3. QED
  BY <1>1, <1>2, PTL DEF Spec

-----------------------------------------------------------------------------
(* The theorems. *)

(* Every reachable state of the post, the clicks, opMu and the server has  *)
(* the declared types.                                                     *)
THEOREM TypeCorrect == Spec => []TypeOK
<1>1. IInv => TypeOK
  BY DEF IInv
<1>2. QED
  BY <1>1, Invariant, PTL

(* The answer of a post tells the truth about each request of the form:    *)
(* decideAll, decide and undecided of decide.go, whatever AWS, requesters, *)
(* clicks and the stop of the server do meanwhile, and also when a failed  *)
(* or cut call was carried out.                                            *)
THEOREM ResultsAreTrueHolds == Spec => []ResultsAreTrue
<1>1. ASSUME IInv PROVE ResultsAreTrue
  <2>1. PostInv(post, calls[Post], decided) /\ post \in Posts
    BY <1>1, Before
  <2>2. CASE post.phase = "none"
    <3>1. post.results = <<>>
      BY <2>1, <2>2 DEF PostInv
    <3>2. DOMAIN post.results = {}
      BY <3>1
    <3>3. post.phase # "answered"
      BY <2>2
    <3>4. QED
      BY <3>2, <3>3 DEF ResultsAreTrue
  <2>3. ASSUME post.phase # "none"
        PROVE  \E left, out : ToldBut(post.results, post.stopped, post.refs, left, decided, out)
    <3>1. CASE post.phase = "cut"
      BY <2>1, <3>1 DEF PostInv
    <3>2. CASE post.phase = "call"
      <4>1. PICK k \in DOMAIN post.refs :
              /\ calls[Post].ref = post.refs[k]
              /\ Told(post.results, post.stopped, post.refs, post.todo \cup {k},
                      decided \ {Decision(calls[Post].ref)})
        BY <2>1, <3>2 DEF PostInv
      <4>2. Decision(calls[Post].ref).name = post.refs[k].name
        BY <4>1 DEF Decision
      <4>3. \A x \in {Decision(calls[Post].ref)} : \E l \in post.todo \cup {k} : x.name = post.refs[l].name
        BY <4>2
      <4>4. ToldBut(post.results, post.stopped, post.refs, post.todo \cup {k}, decided,
                    {Decision(calls[Post].ref)})
        BY <4>1, <4>3 DEF ToldBut
      <4>5. QED
        BY <4>4
    <3>3. CASE post.phase \notin {"cut", "call"}
      <4>1. PICK left : Told(post.results, post.stopped, post.refs, left, decided)
        BY <2>1, <2>3, <3>3 DEF PostInv, Posts, Phases
      <4>2. decided \ {} = decided
        OBVIOUS
      <4>3. Told(post.results, post.stopped, post.refs, left, decided \ {})
        BY <4>1, <4>2
      <4>4. ToldBut(post.results, post.stopped, post.refs, left, decided, {})
        BY <4>3 DEF ToldBut
      <4>5. QED
        BY <4>4
    <3>4. QED
      BY <3>1, <3>2, <3>3
  <2>4. ASSUME post.phase # "none" PROVE ResultsAreTrue
    <3>1. PICK left, out : /\ Told(post.results, post.stopped, post.refs, left, decided \ out)
                           /\ \A x \in out : \E k \in left : x.name = post.refs[k].name
      BY <2>3, <2>4 DEF ToldBut
    <3>2. \A i, j \in DOMAIN post.results : i # j => post.results[i].ref.name # post.results[j].ref.name
      BY <3>1 DEF Told
    <3>3. ASSUME NEW i \in DOMAIN post.results
          PROVE  LET ref == post.results[i].ref  kind == post.results[i].kind
                     mine == [name |-> ref.name, ver |-> ref.ver, by |-> Post] IN
                 /\ Done(kind) => mine \in decided
                 /\ (\E x \in decided : x.by = Post /\ x.name = ref.name)
                      => mine \in decided /\ (Done(kind) \/ kind = "failed")
                 /\ kind = "failed" =>
                      \A j \in DOMAIN post.results : j > i => post.results[j].kind = "not-tried"
      <4> DEFINE ref == post.results[i].ref
                 kind == post.results[i].kind
                 mine == [name |-> ref.name, ver |-> ref.ver, by |-> Post]
      <4>1. Done(kind) => mine \in decided
        BY <3>1 DEF Told, Decision
      <4>2. ASSUME NEW x \in decided, x.by = Post, x.name = ref.name
            PROVE  mine \in decided /\ (Done(kind) \/ kind = "failed")
        <5>1. x \notin out
          BY <3>1, <4>2 DEF Told
        <5>2. PICK j \in DOMAIN post.results :
                /\ Done(post.results[j].kind) \/ post.results[j].kind = "failed"
                /\ post.results[j].ref.name = x.name /\ post.results[j].ref.ver = x.ver
          BY <3>1, <4>2, <5>1 DEF Told
        <5>3. j = i
          BY <3>2, <4>2, <5>2
        <5>4. x = mine
          <6>1. x \in [name : Names, ver : Nat, by : Deciders]
            BY <1>1, Before DEF TypeOK
          <6>2. x.name = mine.name /\ x.ver = mine.ver /\ x.by = mine.by
            BY <4>2, <5>2, <5>3
          <6>3. x = [name |-> x.name, ver |-> x.ver, by |-> x.by]
            BY <6>1
          <6>4. QED
            BY <6>2, <6>3
        <5>5. QED
          BY <4>2, <5>2, <5>3, <5>4
      <4>3. kind = "failed" => \A j \in DOMAIN post.results : j > i => post.results[j].kind = "not-tried"
        BY <3>1 DEF Told
      <4>4. QED
        BY <4>1, <4>2, <4>3
    <3>4. post.phase = "answered" =>
            {post.results[i].ref.name : i \in DOMAIN post.results} = {post.refs[i].name : i \in DOMAIN post.refs}
      <4>1. SUFFICES ASSUME post.phase = "answered"
                     PROVE  {post.results[i].ref.name : i \in DOMAIN post.results}
                              = {post.refs[i].name : i \in DOMAIN post.refs}
        OBVIOUS
      <4>2. Told(post.results, post.stopped, post.refs, {}, decided)
        BY <2>1, <4>1 DEF PostInv
      <4>3. \A i \in DOMAIN post.results : \E k \in DOMAIN post.refs : post.results[i].ref.name = post.refs[k].name
        BY <4>2 DEF Told
      <4>4. \A k \in DOMAIN post.refs : \E i \in DOMAIN post.results : post.results[i].ref.name = post.refs[k].name
        BY <4>2 DEF Told
      <4>5. QED
        BY <4>3, <4>4
    <3>5. QED
      BY <3>2, <3>3, <3>4 DEF ResultsAreTrue
  <2>5. QED
    BY <2>2, <2>4
<1>2. QED
  BY <1>1, Invariant, PTL

(* Without a failed or unanswered call and without a wait for opMu, every  *)
(* request marked approved has its decision at work: Approve, the drain  *)
(* of ListenAndServe and wait never leave a claim behind.                  *)
THEOREM ClaimsAreSettledHolds == Spec => []ClaimsAreSettled
<1>1. ASSUME IInv PROVE ClaimsAreSettled
  <2>1. /\ ClaimInv(post, calls, claimed, server, drained, faults, hangs, waited)
        /\ faults \in Nat /\ hangs \in Nat /\ waited \in BOOLEAN
    BY <1>1 DEF IInv, TypeOK
  <2>2. CASE ~(faults = 0 /\ hangs = 0 /\ waited = FALSE)
    <3>1. faults > 0 \/ hangs > 0 \/ waited
      BY <2>1, <2>2
    <3>2. QED
      BY <3>1 DEF ClaimsAreSettled
  <2>3. CASE faults = 0 /\ hangs = 0 /\ waited = FALSE
    <3>1. \A n \in claimed : \E d \in Deciders :
            calls[d] # None /\ calls[d].ref.name = n
      BY <2>1, <2>3 DEF ClaimInv, Settled
    <3>2. QED
      BY <3>1 DEF ClaimsAreSettled
  <2>4. QED
    BY <2>2, <2>3
<1>2. QED
  BY <1>1, Invariant, PTL

(* opMu is given back in time, and a decision of a post whose calls are    *)
(* answered and wait for nobody is over one approval after the budget:     *)
(* decideBudget, decideRefLimit and the contexts of clicks and of the      *)
(* restore.                                                                *)
THEOREM DecisionsEndInTimeHolds == Spec => []DecisionsEndInTime
<1>1. ASSUME IInv PROVE DecisionsEndInTime
  <2>1. /\ LockInv(lock, calls) /\ AgeInv(post, calls, hangs, waited) /\ TypeOK
        /\ PostInv(post, calls[Post], decided)
    BY <1>1 DEF IInv
  <2>2. {RefLimit, ClickLimit, RestoreLimit, Budget, CallTime} \subseteq Nat /\ ClickLimit <= RefLimit
    BY TimeAssumption
  <2>3. ASSUME lock.by # None PROVE lock.held <= RefLimit + RestoreLimit
    <3> DEFINE d == lock.by
    <3>1. d \in Deciders /\ lock.held \in Nat
      BY <2>1, <2>3 DEF TypeOK, Locks
    <3>2. calls[d] # None /\ HeldInTime(lock.held, calls[d], d)
      BY <2>1, <2>3 DEF LockInv
    <3> HIDE DEF d
    <3>3. calls[d].age \in Nat
      BY <2>1, <3>1, <3>2, CallOf
    <3>4. OwnLimit(d) \in Nat /\ OwnLimit(d) <= RefLimit
      BY <2>2 DEF OwnLimit
    <3>5. QED
      BY <2>2, <3>1, <3>2, <3>3, <3>4 DEF HeldInTime
  <2>4. ASSUME calls[Post] # None, hangs = 0, waited = FALSE PROVE post.age <= Budget + CallTime
    <3>1. Prompt(post, calls) /\ Post \in Deciders
      BY <2>1, <2>4 DEF AgeInv, Deciders
    <3>2. post.phase = "call"
      BY <2>1, <2>4 DEF PostInv
    <3>3. post.age <= Budget - 1 + calls[Post].spent /\ calls[Post].spent <= CallTime
      BY <2>4, <3>1, <3>2 DEF Prompt
    <3>4. post.age \in Nat /\ calls[Post].spent \in Nat
      BY <2>1, <2>4, <3>1, CallOf DEF TypeOK, Posts
    <3>5. QED
      BY <2>2, <3>3, <3>4
  <2>5. hangs \in Nat /\ waited \in BOOLEAN
    BY <2>1 DEF TypeOK
  <2>6. calls[Post] # None => post.age <= Budget + CallTime \/ hangs > 0 \/ waited
    <3>1. CASE hangs = 0 /\ waited = FALSE
      BY <2>4, <3>1
    <3>2. CASE hangs # 0 \/ waited = TRUE
      BY <2>5, <3>2
    <3>3. QED
      BY <2>5, <3>1, <3>2
  <2>7. QED
    BY <2>3, <2>6 DEF DecisionsEndInTime
<1>2. QED
  BY <1>1, Invariant, PTL
=============================================================================
