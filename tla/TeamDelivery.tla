----------------------------- MODULE TeamDelivery -----------------------------
(***************************************************************************)
(* What TeamSay and the wakeup dispatcher together promise the members of  *)
(* a team, free of inboxes, signals and leases: a message that was sent is *)
(* kept until one turn gets it, and no turn gets it again.  Nothing is     *)
(* promised of messages that are kept when a dispatcher stops or dies; one *)
(* that is lost then stays lost.                                           *)
(***************************************************************************)
CONSTANT Messages

VARIABLES place,       \* message -> "unsent", "kept", "delivered" or "lost"
          stopped      \* has a dispatcher been stopped, or died

vars == <<place, stopped>>

Init ==
    /\ place = [m \in Messages |-> "unsent"]
    /\ stopped = FALSE

Kept == {m \in Messages : place[m] = "kept"}

Move(S, to) == place' = [m \in Messages |-> IF m \in S THEN to ELSE place[m]]

Send(m) ==
    /\ place[m] = "unsent"
    /\ Move({m}, "kept")
    /\ UNCHANGED stopped

\* A turn begins and gets what was collected for it.
Deliver(S) ==
    /\ Move(S, "delivered")
    /\ UNCHANGED stopped

\* A dispatcher stops or dies, now or before.
Lose(S) ==
    /\ stopped' = TRUE
    /\ Move(S, "lost")

Next ==
    \/ \E m \in Messages : Send(m)
    \/ \E S \in SUBSET Kept : Deliver(S) \/ Lose(S)

Spec == Init /\ [][Next]_vars
===============================================================================
