------------------------------ MODULE TurnLedger ------------------------------
(***************************************************************************)
(* What the turn protocol of the control plane promises whoever pays for a *)
(* goal, free of tickets, rows, goroutines and retries: a turn that is     *)
(* charged was recorded before and is charged for good, a turn that is     *)
(* recorded stays to be charged, and a ledger that is enforced never holds *)
(* more charges in its rolling window than the quota allows.               *)
(***************************************************************************)
EXTENDS Naturals

CONSTANTS Turns, Allowed

VARIABLES account,     \* turn -> "open", "owed" or "charged"
          window,      \* charges inside the rolling window
          enforced     \* does the ledger enforce the quota when it charges

vars == <<account, window, enforced>>

Init ==
    /\ account = [t \in Turns |-> "open"]
    /\ window = 0
    /\ enforced \in BOOLEAN

Enter(t, from, to) == account[t] = from /\ account' = [account EXCEPT ![t] = to]

\* Work that counts is recorded.
Record(t) ==
    /\ Enter(t, "open", "owed")
    /\ UNCHANGED <<window, enforced>>

Charge(t) ==
    /\ Enter(t, "owed", "charged")
    /\ enforced => window < Allowed
    /\ window' = window + 1
    /\ UNCHANGED enforced

\* The oldest charge leaves the window.
Slide ==
    /\ window > 0 /\ window' = window - 1
    /\ UNCHANGED <<account, enforced>>

Next == Slide \/ \E t \in Turns : Record(t) \/ Charge(t)

Spec == Init /\ [][Next]_vars
===============================================================================
