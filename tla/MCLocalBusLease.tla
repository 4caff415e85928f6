--------------------------- MODULE MCLocalBusLease ---------------------------
(***************************************************************************)
(* TLC instance of LocalBusLease: three goroutines, two of them of one     *)
(* replica, as when a session's next turn starts while the last one still  *)
(* winds down.                                                             *)
(***************************************************************************)
EXTENDS LocalBusLease

CONSTANTS a1, a2, a3, replica1, replica2

MCAttempts == {a1, a2, a3}
MCOwnerOf == [a \in MCAttempts |-> IF a = a3 THEN replica2 ELSE replica1]
===============================================================================
