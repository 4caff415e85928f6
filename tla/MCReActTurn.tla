---------------------------- MODULE MCReActTurn ----------------------------
(* The turns of one agent.                                                 *)
EXTENDS ReActTurn, TLC
=============================================================================
