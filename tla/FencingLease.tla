----------------------------- MODULE FencingLease -----------------------------
(***************************************************************************)
(* What messagebus.CoordLease promises its callers, free of any mechanism: *)
(* at any moment at most one attempt may act as the holder of a key, and   *)
(* each grant carries a token that no earlier grant carried, so that work  *)
(* done under an old grant can be told from work done under the new one.   *)
(* Not promised is that tokens grow from grant to grant.                   *)
(*                                                                         *)
(* An "attempt" is one goroutine that calls AcquireLease and acts on its   *)
(* result.  The contract is per key; keys never interact.                  *)
(***************************************************************************)
CONSTANTS Attempts,    \* the goroutines that ask for the lease
          Nobody       \* the value of holder while nobody holds the lease

VARIABLES holder,      \* the attempt entitled to act as the holder, or Nobody
          granted      \* the tokens of all grants so far

vars == <<holder, granted>>

Init ==
    /\ holder = Nobody
    /\ granted = {}

\* AcquireLease succeeds: only while there is no holder, and with a new token.
Grant(a) ==
    /\ holder = Nobody
    /\ holder' = a
    /\ \E t \in granted' \ granted : granted' = granted \cup {t}

\* The holder gives the lease up, dies, or lets it expire.
End ==
    /\ holder # Nobody
    /\ holder' = Nobody
    /\ UNCHANGED granted

Next ==
    \/ \E a \in Attempts : Grant(a)
    \/ End

Spec == Init /\ [][Next]_vars
===============================================================================
