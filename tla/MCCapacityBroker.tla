-------------------------- MODULE MCCapacityBroker --------------------------
(* One endpoint of two units.  The heavy delegation asks for both, as the
   broker's tests do; every other one asks for one. *)
EXTENDS CapacityBroker, TLC

CONSTANTS p, q, a, b, c, heavy

Weights == [w \in Work |-> IF w = heavy THEN 2 ELSE 1]
Homes == [w \in Work |-> IF w = a THEN p ELSE q]
OneHome == [w \in Work |-> p]
SameClock == [r \in Processes |-> 0]
TwoClocks == [r \in Processes |-> IF r = p THEN 0 ELSE 1]

Symmetry == Permutations(Ids)

=============================================================================
