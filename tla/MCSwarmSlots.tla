---------------------------- MODULE MCSwarmSlots ----------------------------
(* Two agent types, the first with all runs but one. *)
EXTENDS SwarmSlots

CONSTANTS busy, idle, other

AgentTypes == {busy, idle}
Assignment == [r \in Runs |-> IF r = other THEN idle ELSE busy]

=============================================================================
