--------------------------- MODULE ApprovalJourney ---------------------------
(***************************************************************************)
(* What the approval queue promises about one request, without tags, calls *)
(* or processes: a request is queued, claimed by an approver, and at most  *)
(* then handed to AWS.  A request that is over stays over, and AWS is never *)
(* asked to create an account for a queued request nobody claimed.              *)
(***************************************************************************)
CONSTANT Journeys

VARIABLE state

JourneyStates == {"unused", "waiting", "claimed", "accepted", "over"}

TypeOK == state \in [Journeys -> JourneyStates]

Init == state = [j \in Journeys |-> "unused"]

In(S) == {j \in Journeys : state[j] \in S}

Becomes(J, s) == state' = [j \in Journeys |-> IF j \in J THEN s ELSE state[j]]

\* A new request; one claimed request whose creation failed may lose its
\* place to it, because both use the same name.
Queue(j) ==
  /\ state[j] = "unused"
  /\ \/ Becomes({j}, "waiting")
     \/ \E i \in In({"claimed"}) :
          state' = [state EXCEPT ![j] = "waiting", ![i] = "over"]

Claim(j) == state[j] = "waiting" /\ Becomes({j}, "claimed")

\* The creation was refused, and the request waits again.
GiveBack(j) == state[j] = "claimed" /\ Becomes({j}, "waiting")

\* AWS accepts the creation; an admin's own creation passes the queue by.
Accept(j) == state[j] \in {"claimed", "unused"} /\ Becomes({j}, "accepted")

\* AWS reports that it could not create the account.
Fail(j) ==
  /\ state[j] = "accepted"
  /\ \E s \in {"claimed", "waiting", "over"} : Becomes({j}, s)

\* Denied, withdrawn, expired, or dropped after a failure.
End(J) == J # {} /\ J \subseteq In({"waiting", "claimed"}) /\ Becomes(J, "over")

Next ==
  \/ \E j \in Journeys : Queue(j) \/ Claim(j) \/ GiveBack(j) \/ Accept(j) \/ Fail(j)
  \/ \E J \in SUBSET Journeys : End(J)

Spec == Init /\ [][Next]_state
=============================================================================
