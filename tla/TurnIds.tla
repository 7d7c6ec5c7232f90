------------------------------- MODULE TurnIds -------------------------------
(* The turns of one chat session, in the order of their chat.send.         *)
EXTENDS Naturals

CONSTANT MaxTurns

ASSUME MaxTurnsAssumption == MaxTurns \in Nat

Turns == 1 .. MaxTurns
NoTurn == 0
=============================================================================
