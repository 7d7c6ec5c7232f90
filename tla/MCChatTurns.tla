----------------------------- MODULE MCChatTurns -----------------------------
(* The instance of ChatTurns for TLC.                                      *)
EXTENDS ChatTurns
=============================================================================
