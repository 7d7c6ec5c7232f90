----------------------------- MODULE MCTaskGraph -----------------------------
(* Instances of TaskGraph for TLC: a plan run in one process, and another  *)
(* plan of the session run in a second one, which repeats a node of the    *)
(* first and has two nodes that wait for each other.                       *)
EXTENDS TaskGraph, TLC

CONSTANTS g1, g2, p1, p2, a, b, c, x

MCHome == g1 :> p1 @@ g2 :> p2

\* Listed against the order of the dependency of b on a.
MCOrder == g1 :> <<b, a>> @@ g2 :> <<a, c, x>>

MCNeeds ==
    g1 :> (a :> {} @@ b :> {a} @@ c :> {} @@ x :> {}) @@
    g2 :> (a :> {} @@ b :> {} @@ c :> {x, a} @@ x :> {c})

\* The second call completes the node they share between the two of the first,
\* and may record it before or after either.
MCCompletedAt ==
    g1 :> (a :> 1 @@ b :> 3 @@ c :> 0 @@ x :> 0) @@
    g2 :> (a :> 2 @@ b :> 0 @@ c :> 4 @@ x :> 5)

MCText == [g \in Calls |-> [n \in Nodes |-> "as first written"]]
=============================================================================
