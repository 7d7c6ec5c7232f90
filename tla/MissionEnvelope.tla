--------------------------- MODULE MissionEnvelope ---------------------------
(***************************************************************************)
(* What a mission's budget promises (packages/core/src/swarm/mission-budget.ts, *)
(* header): the whole swarm debits one envelope.  A child starts only if   *)
(* what the mission used, what its running children may use and the       *)
(* child's own estimate fit the limits; a limit of 0 is no limit.          *)
(***************************************************************************)
EXTENDS Integers, FiniteSets

CONSTANTS
  Children, \* delegations of one mission
  Dims,     \* what is budgeted: tokens, tool calls, active time
  Limit,    \* the mission's limits
  Reserve,  \* the estimate debited for each child
  Uses      \* what a child may turn out to use

VARIABLES
  used, \* what the finished children used
  live  \* the children that run

Zero == [d \in Dims |-> 0]
Plus(x, y) == [d \in Dims |-> x[d] + y[d]]

Init ==
  /\ used = Zero
  /\ live = {}

Admit(c) ==
  /\ c \notin live
  /\ \A d \in Dims : Limit[d] > 0 => used[d] + Reserve[d] * (Cardinality(live) + 1) <= Limit[d]
  /\ live' = live \union {c}
  /\ UNCHANGED used

Finish(c, use) ==
  /\ c \in live
  /\ live' = live \ {c}
  /\ used' = Plus(used, use)

Next ==
  \/ \E c \in Children : Admit(c)
  \/ \E c \in Children, use \in Uses : Finish(c, use)

Spec == Init /\ [][Next]_<<used, live>>

=============================================================================
