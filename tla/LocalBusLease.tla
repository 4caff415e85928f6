---------------------------- MODULE LocalBusLease ----------------------------
(***************************************************************************)
(* The fencing leases of LocalBus (src/messagebus/lease.go), for one key.  *)
(*                                                                         *)
(* Every attempt is a goroutine that calls AcquireLease, renews while it   *)
(* works and releases at the end.  AcquireLease draws its token from an    *)
(* atomic counter before it takes b.mu, so drawing and granting are two    *)
(* steps.  RenewLease reads the clock, then writes the new expiry, then    *)
(* resets the reaper timer, all under b.mu: the mutex stops the other      *)
(* attempts and the reapers, and does not stop the clock, so a renewal is  *)
(* two steps as well.  Everything else runs in one critical section.       *)
(*                                                                         *)
(* Time is relative: left[a] is what remains until the expiry of attempt   *)
(* a's grant.  The code keeps that instant three times (rec.expires, the   *)
(* caller's Lease.Expires and the reaper timer), always set together.      *)
(***************************************************************************)
EXTENDS Naturals

CONSTANTS Attempts,    \* goroutines that ask for the lease of this key
          OwnerOf,     \* attempt -> the owner name it passes (a replica id)
          TTL,         \* the ttl every attempt passes, in ticks
          MaxToken,    \* bound: how many tokens are drawn in a behaviour
          SlowRenew,   \* TRUE when a goroutine may be descheduled in RenewLease
          NoLease,     \* the value of lease while b.leases has no entry
          Nobody       \* "no attempt"

ASSUME TTLAssumption == TTL \in Nat \ {0}
ASSUME MaxTokenAssumption == MaxToken \in Nat
ASSUME SlowRenewAssumption == SlowRenew \in BOOLEAN
ASSUME NobodyAssumption == Nobody \notin Attempts
ASSUME NoLeaseAssumption == NoLease \notin [by : Attempts, token : Nat]

VARIABLES closed,      \* b.closed
          fence,       \* b.fences[key], the atomic counter
          lease,       \* b.leases[key]: the attempt that wrote it, its token
          mutex,       \* the attempt inside RenewLease's critical section
          pc,          \* where each attempt is
          token,       \* the token the attempt drew
          left,        \* ticks until the attempt's grant expires
          armed,       \* attempts whose reaper timer is running
          reapers,     \* tokens of fired timers whose function has yet to run
          granted      \* history: the tokens of all grants

vars == <<closed, fence, lease, mutex, pc, token, left, armed, reapers, granted>>

States == {"idle", "drawn", "held", "renewing", "lost", "dead"}

Init ==
    /\ closed = FALSE
    /\ fence = 0
    /\ lease = NoLease
    /\ mutex = Nobody
    /\ pc = [a \in Attempts |-> "idle"]
    /\ token = [a \in Attempts |-> 0]
    /\ left = [a \in Attempts |-> 0]
    /\ armed = {}
    /\ reapers = {}
    /\ granted = {}

\* The record exists and its expiry has not passed.
Live == lease # NoLease /\ left[lease.by] > 0

\* The record is the one this attempt wrote: same token, same owner.
IsCurrent(a) ==
    /\ lease # NoLease
    /\ lease.token = token[a]
    /\ OwnerOf[lease.by] = OwnerOf[a]

\* Mutant: the CAS forgets to compare the token.
LeaseWithoutUngated(t) == NoLease

\* The record is gone if it carried token t (the CAS of cancel and reaper).
LeaseWithout(t) ==
    IF lease # NoLease /\ lease.token = t THEN NoLease ELSE lease

\* Mutant: the counter is read and not advanced in the same operation.
DrawByLoad(a) ==
    /\ pc[a] = "idle"
    /\ fence < MaxToken
    /\ token' = [token EXCEPT ![a] = fence + 1]
    /\ pc' = [pc EXCEPT ![a] = "drawn"]
    /\ UNCHANGED <<closed, fence, lease, mutex, left, armed, reapers, granted>>

\* fence.Add(1), before the mutex is taken.
Draw(a) ==
    /\ pc[a] = "idle"
    /\ fence < MaxToken
    /\ fence' = fence + 1
    /\ token' = [token EXCEPT ![a] = fence + 1]
    /\ pc' = [pc EXCEPT ![a] = "drawn"]
    /\ UNCHANGED <<closed, lease, mutex, left, armed, reapers, granted>>

\* The key is free or its record has expired: take over.  The timer of the
\* record that is replaced keeps running.
Grant(a) ==
    /\ pc[a] = "drawn"
    /\ mutex = Nobody
    /\ ~closed
    /\ ~Live
    /\ lease' = [by |-> a, token |-> token[a]]
    /\ left' = [left EXCEPT ![a] = TTL]
    /\ armed' = armed \cup {a}
    /\ pc' = [pc EXCEPT ![a] = "held"]
    /\ granted' = granted \cup {token[a]}
    /\ UNCHANGED <<closed, fence, mutex, token, reapers>>

\* ErrLeaseHeld or ErrClosed: the caller may try again with another token.
Refuse(a) ==
    /\ pc[a] = "drawn"
    /\ mutex = Nobody
    /\ closed \/ Live
    /\ pc' = [pc EXCEPT ![a] = "idle"]
    /\ UNCHANGED <<closed, fence, lease, mutex, token, left, armed, reapers, granted>>

\* RenewLease up to its check of the record.
RenewCheck(a) ==
    /\ pc[a] = "held"
    /\ mutex = Nobody
    /\ ~closed
    /\ IsCurrent(a)
    /\ left[a] > 0
    /\ mutex' = a
    /\ pc' = [pc EXCEPT ![a] = "renewing"]
    /\ UNCHANGED <<closed, fence, lease, token, left, armed, reapers, granted>>

\* Mutant: the timer is stopped and not started again.
RenewCommitNoReset(a) ==
    /\ pc[a] = "renewing"
    /\ left' = [left EXCEPT ![a] = TTL]
    /\ armed' = armed \ {a}
    /\ mutex' = Nobody
    /\ pc' = [pc EXCEPT ![a] = "held"]
    /\ UNCHANGED <<closed, fence, lease, token, reapers, granted>>

\* The rest of RenewLease: new expiry, timer reset, b.mu released.
RenewCommit(a) ==
    /\ pc[a] = "renewing"
    /\ left' = [left EXCEPT ![a] = TTL]
    /\ armed' = armed \cup {a}
    /\ mutex' = Nobody
    /\ pc' = [pc EXCEPT ![a] = "held"]
    /\ UNCHANGED <<closed, fence, lease, token, reapers, granted>>

\* ErrLeaseLost or ErrClosed: the caller stops its work, then releases.
RenewLost(a) ==
    /\ pc[a] = "held"
    /\ mutex = Nobody
    /\ closed \/ ~IsCurrent(a) \/ left[a] = 0
    /\ pc' = [pc EXCEPT ![a] = "lost"]
    /\ UNCHANGED <<closed, fence, lease, mutex, token, left, armed, reapers, granted>>

\* Mutant: the delete compares the owner and not the token.
ReleaseByOwner(a) ==
    /\ pc[a] \in {"held", "lost"}
    /\ mutex = Nobody
    /\ lease' = IF lease # NoLease /\ OwnerOf[lease.by] = OwnerOf[a] THEN NoLease ELSE lease
    /\ armed' = armed \ {a}
    /\ pc' = [pc EXCEPT ![a] = "idle"]
    /\ UNCHANGED <<closed, fence, mutex, token, left, reapers, granted>>

\* The Cancel that AcquireLease returned: stop the timer, delete by token.
Release(a) ==
    /\ pc[a] \in {"held", "lost"}
    /\ mutex = Nobody
    /\ lease' = LeaseWithout(token[a])
    /\ armed' = armed \ {a}
    /\ pc' = [pc EXCEPT ![a] = "idle"]
    /\ UNCHANGED <<closed, fence, mutex, token, left, reapers, granted>>

\* The holder stops for good: it neither renews nor releases any more.
Die(a) ==
    /\ pc[a] \in {"held", "lost"}
    /\ pc' = [pc EXCEPT ![a] = "dead"]
    /\ UNCHANGED <<closed, fence, lease, mutex, token, left, armed, reapers, granted>>

\* The timer of a's grant elapses: its function is started in a goroutine.
Fire(a) ==
    /\ a \in armed
    /\ left[a] = 0
    /\ armed' = armed \ {a}
    /\ reapers' = reapers \cup {token[a]}
    /\ UNCHANGED <<closed, fence, lease, mutex, pc, token, left, granted>>

\* The timer function gets the mutex.
Reap(t) ==
    /\ t \in reapers
    /\ mutex = Nobody
    /\ lease' = LeaseWithout(t)
    /\ reapers' = reapers \ {t}
    /\ UNCHANGED <<closed, fence, mutex, pc, token, left, armed, granted>>

\* LocalBus.Close: leases stay as they are.
Close ==
    /\ mutex = Nobody
    /\ ~closed
    /\ closed' = TRUE
    /\ UNCHANGED <<fence, lease, mutex, pc, token, left, armed, reapers, granted>>

\* Time passes.  Without SlowRenew no tick falls inside RenewLease.
Tick ==
    /\ \E a \in Attempts : left[a] > 0
    /\ SlowRenew \/ mutex = Nobody
    /\ left' = [a \in Attempts |-> IF left[a] > 0 THEN left[a] - 1 ELSE 0]
    /\ UNCHANGED <<closed, fence, lease, mutex, pc, token, armed, reapers, granted>>

Next ==
    \/ \E a \in Attempts :
          \/ Draw(a) \/ Grant(a) \/ Refuse(a)
          \/ RenewCheck(a) \/ RenewCommit(a) \/ RenewLost(a)
          \/ Release(a) \/ Die(a) \/ Fire(a)
    \/ \E t \in reapers : Reap(t)
    \/ Close
    \/ Tick

Spec == Init /\ [][Next]_vars

\* Time passes, a goroutine inside b.mu leaves it, fired timers run.  Nothing
\* is assumed of the attempts: they may stop calling at any point.
Fairness ==
    /\ WF_vars(Tick)
    /\ \A a \in Attempts : WF_vars(RenewCommit(a)) /\ WF_vars(Fire(a))
    /\ \A t \in 1..MaxToken : SF_vars(Reap(t))

FairSpec == Spec /\ Fairness
-------------------------------------------------------------------------------
\* Type invariant: tokens stay within what the counter has handed out (lease.go
\* 94-99), what remains of a grant within the ttl (lease.go 139-141, 155).
TypeOK ==
    /\ closed \in BOOLEAN
    /\ fence \in 0..MaxToken
    /\ lease \in [by : Attempts, token : 1..MaxToken] \cup {NoLease}
    /\ mutex \in Attempts \cup {Nobody}
    /\ pc \in [Attempts -> States]
    /\ token \in [Attempts -> 0..MaxToken]
    /\ left \in [Attempts -> 0..TTL]
    /\ armed \subseteq Attempts
    /\ reapers \subseteq 1..MaxToken
    /\ granted \subseteq 1..MaxToken

\* An attempt that was told it holds the lease until an instant still to come.
Believes(a) == pc[a] \in {"held", "renewing"} /\ left[a] > 0

\* lease.go 34-38: a holder is replaced only after its ttl.  Two goroutines
\* never both act on an unexpired grant of the key, whatever old timers, late
\* releases and refused renewals are around.
AtMostOneLiveHolder ==
    \A a, b \in Attempts : Believes(a) /\ Believes(b) => a = b

\* lease.go 43-45, 113-121: the record of an unexpired grant goes away only
\* when its own holder releases it; a stale holder's release or timer, or a
\* newcomer, leaves it alone.
LiveLeaseOnlyEndsByItsHolder ==
    [][\A a \in Attempts :
         Believes(a) /\ lease # NoLease /\ lease.by = a /\ lease' # lease
            => pc[a] = "held" /\ pc'[a] = "idle"]_vars

\* lease.go 34-38: the entry of a holder that died does not stay for ever.
DeadHolderIsReplaced ==
    \A a \in Attempts :
        (pc[a] = "dead" /\ lease # NoLease /\ lease.by = a)
            ~> (lease = NoLease \/ lease.by # a)

\* lease.go 113-114: a renewed lease is never removed by a stale timer.
RenewedLeaseOutlivesOldTimer ==
    [][\A a \in Attempts :
         Believes(a) /\ lease # NoLease /\ lease.by = a /\ reapers' # reapers
            => lease' = lease]_vars

\* The contract of CoordLease, with the live holder as its holder.
LiveHolder ==
    IF \E a \in Attempts : Believes(a)
    THEN CHOOSE a \in Attempts : Believes(a)
    ELSE Nobody

Contract == INSTANCE FencingLease WITH holder <- LiveHolder

Implements == Contract!Spec
===============================================================================
