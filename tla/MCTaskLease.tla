----------------------------- MODULE MCTaskLease -----------------------------
(* Instances of TaskLease for TLC. *)
EXTENDS TaskLease, TLC

CONSTANTS w1, w2, p1, p2

\* In a cluster each delegation runs in a process of its own.
TwoHosts == [w \in Workers |-> IF w = w1 THEN p1 ELSE p2]
OneHost == [w \in Workers |-> p1]

=============================================================================
