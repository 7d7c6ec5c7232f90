--------------------------- MODULE MCAgentMessages ---------------------------
(***************************************************************************)
(* Small instances of AgentMessages: two messages, and two claimers in one *)
(* process or in two.                                                      *)
(***************************************************************************)
EXTENDS AgentMessages, TLC

CONSTANTS m1, m2, c1, c2, p1, p2

OneProcess == [c \in Claimers |-> p1]
TwoProcesses == [c \in Claimers |-> IF c = c1 THEN p1 ELSE p2]
FromFirst == [m \in Messages |-> p1]
NoLegacy == {<<>>}
MaybeLegacy == {<<>>, <<m1>>}

\* Claimers of one process are interchangeable (used without liveness only).
Alike == Permutations(Claimers)

=============================================================================
