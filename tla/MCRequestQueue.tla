--------------------------- MODULE MCRequestQueue ---------------------------
(***************************************************************************)
(* Model-checking instances of RequestQueue; the .cfg files name the sets. *)
(* Ids that AWS and NewHistoryID hand out carry no order, so permuting     *)
(* them is a symmetry of every run without liveness.  So is permuting the  *)
(* names and the owners where no owner is also a requester or an approver. *)
(***************************************************************************)
EXTENDS RequestQueue, TLC

IdSymmetry == Permutations(Journeys) \cup Permutations(CreateIds)

LimitSymmetry == IdSymmetry \cup Permutations(Names) \cup Permutations(Owners)
=============================================================================
