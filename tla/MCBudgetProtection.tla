------------------------ MODULE MCBudgetProtection ------------------------
(* The configurations of BudgetProtection that TLC starts a process with. *)
EXTENDS BudgetProtection

\* Enforcement with an address, and a start without either; b is stale.
CONSTANTS a, b
MCConfigs == {[email |-> a, policy |-> TRUE], [email |-> NoEmail, policy |-> FALSE]}
===========================================================================
