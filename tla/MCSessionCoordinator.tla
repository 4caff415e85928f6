------------------------ MODULE MCSessionCoordinator ------------------------
(***************************************************************************)
(* TLC instances of SessionCoordinator.                                    *)
(***************************************************************************)
EXTENDS SessionCoordinator, TLC

CONSTANTS q1, q2, r1, r2

\* Two requests, one on each replica.
Across == (q1 :> r1) @@ (q2 :> r2)

\* One request.
Alone == q1 :> r1
=============================================================================
