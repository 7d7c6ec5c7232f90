--------------------------- MODULE MCMissionBudget ---------------------------
(* One mission with tokens and tool calls budgeted; active time is unlimited
   and its amounts are left at 0.  Delegations may use nothing, less than their
   estimate, or more. *)
EXTENDS MissionBudget

CONSTANTS p, q, first

Budgeted == {"tokens", "toolCalls", "activeTimeMs"}
Amount(t, n) == [d \in Budgeted |-> CASE d = "tokens" -> t [] d = "toolCalls" -> n [] OTHER -> 0]

Estimate == Amount(2, 1)
Ceiling == Amount(5, 4)
Used == {Amount(0, 0), Amount(1, 1), Amount(3, 1)}

\* The first delegation runs in a process of its own.
TwoHomes == [c \in Children |-> IF c = first THEN p ELSE q]

=============================================================================
