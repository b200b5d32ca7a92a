--------------------------- MODULE MCJourneyStore ---------------------------
(* A small instance: two journeys that compete for an account and for a     *)
(* creation, and events that share an id, a time or an account.             *)
EXTENDS JourneyStore

CONSTANTS j1, j2, acct, req

Doc(j, origin, corr, owned, terminal) ==
  [id |-> j, origin |-> origin, start |-> 1, corr |-> corr, owned |-> owned, terminal |-> terminal]
Outcome(kind, ref) == [kind |-> kind, at |-> 2, ref |-> ref]
Requested == <<[at |-> 1, owner |-> "ann", source |-> "request-queue", ref |-> j1]>>
Observed == Append(Requested, [at |-> 2, owner |-> "bob", source |-> "provider-tags", ref |-> acct])
Created == <<ProviderRequest(req)>>
Joined == Append(Created, Account(acct))

MCDocuments ==
  { Doc(j1, "request", <<>>, <<>>, None),
    Doc(j1, "request", Created, Requested, None),
    Doc(j1, "request", Created, Requested, Outcome("creation-failed", req)),
    Doc(j1, "request", Joined, Requested, None),
    Doc(j1, "request", Joined, Observed, Outcome("account-closed", acct)),
    Doc(j1, "request", <<>>, <<>>, Outcome("request-denied", j1)),
    Doc(j2, "direct", <<Account(acct)>>, <<>>, None) }

Event(i, j, at, a) == [id |-> i, journey |-> j, at |-> at, account |-> a]
MCEvents == { Event(1, j1, 1, acct), Event(1, j1, 2, acct), Event(2, j1, 1, None) }

Symmetry == Permutations(Clients)
=============================================================================
