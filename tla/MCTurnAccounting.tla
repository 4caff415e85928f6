------------------------- MODULE MCTurnAccounting -------------------------
(* Two goroutines serve two turns of two agents on one todo: one turn      *)
(* completes it, the other reports progress.  One slot in the window.      *)
EXTENDS TurnAccounting, TLC
CONSTANTS c1, c2, t1, t2, d1, d2, a1, a2
MCAgentOf == t1 :> a1 @@ t2 :> a2
MCOutcomeOf == t1 :> "completion" @@ t2 :> "progress"
CallerSymmetry == Permutations(Callers)
=============================================================================
