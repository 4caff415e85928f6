------------------------- MODULE LocalBusLease_proof -------------------------
(***************************************************************************)
(* Proofs about LocalBusLease, for any attempts, owners, ttl and number of *)
(* tokens.                                                                 *)
(***************************************************************************)
EXTENDS LocalBusLease, TLAPS

(* The inductive invariant.  Tokens identify attempts, a record is always  *)
(* the one its attempt wrote, and an attempt whose token a fired timer     *)
(* carries has no time left.                                               *)

TokensDrawn ==
    /\ \A a \in Attempts : token[a] <= fence
    /\ \A a \in Attempts : pc[a] # "idle" => token[a] > 0
    /\ \A a, b \in Attempts : a # b /\ token[a] > 0 => token[a] # token[b]

RecordOfItsAttempt ==
    lease # NoLease =>
        /\ lease.token = token[lease.by]
        /\ pc[lease.by] \notin {"idle", "drawn"}

HistoryBelowFence ==
    /\ \A t \in reapers \cup granted : t <= fence
    /\ \A a \in Attempts : pc[a] = "drawn" => token[a] \notin reapers \cup granted

TimersOfGrants ==
    \A a \in armed : pc[a] \notin {"idle", "drawn"}

MutexOfRenewer ==
    \A a \in Attempts : pc[a] = "renewing" <=> mutex = a

PromptRenewer ==
    \A a \in Attempts : pc[a] = "renewing" => left[a] > 0

LiveIsCurrent ==
    \A a \in Attempts :
        Believes(a) =>
            /\ lease # NoLease
            /\ lease.by = a
            /\ token[a] \notin reapers

Core == TypeOK /\ TokensDrawn /\ RecordOfItsAttempt /\ HistoryBelowFence
           /\ TimersOfGrants /\ MutexOfRenewer

IInv == Core /\ PromptRenewer /\ LiveIsCurrent

USE TTLAssumption, MaxTokenAssumption, NobodyAssumption

-------------------------------------------------------------------------------
(* The part that holds whatever the scheduler does.                        *)

(* No token is drawn and no grant made at first.                           *)
LEMMA CoreInit == Init => Core
<1> SUFFICES ASSUME Init PROVE Core
  OBVIOUS
<1>1. TypeOK
  <2>1. closed \in BOOLEAN
    BY DEF Init
  <2>6. fence \in 0..MaxToken
    BY DEF Init
  <2>2. lease \in [by : Attempts, token : 1..MaxToken] \cup {NoLease}
    BY DEF Init
  <2>3. mutex \in Attempts \cup {Nobody} /\ pc \in [Attempts -> States]
    BY DEF Init, States
  <2>4. token \in [Attempts -> 0..MaxToken] /\ left \in [Attempts -> 0..TTL]
    BY DEF Init
  <2>5. armed \subseteq Attempts /\ reapers \subseteq 1..MaxToken
           /\ granted \subseteq 1..MaxToken
    BY DEF Init
  <2> QED BY <2>1, <2>2, <2>3, <2>4, <2>5, <2>6 DEF TypeOK
<1>2. TokensDrawn /\ RecordOfItsAttempt /\ HistoryBelowFence
  BY DEF Init, TokensDrawn, RecordOfItsAttempt, HistoryBelowFence
<1>3. TimersOfGrants /\ MutexOfRenewer
  BY DEF Init, TimersOfGrants, MutexOfRenewer
<1> QED BY <1>1, <1>2, <1>3 DEF Core

(* Ranges are kept: a grant is made only with a token that was drawn.      *)
LEMMA TypeStep == TypeOK /\ TokensDrawn /\ TimersOfGrants /\ [Next]_vars => TypeOK'
<1> SUFFICES ASSUME TypeOK, TokensDrawn, TimersOfGrants, [Next]_vars PROVE TypeOK'
  OBVIOUS
<1> USE DEF TypeOK, States
<1>1. ASSUME NEW a \in Attempts, Draw(a) PROVE TypeOK'
  BY <1>1 DEF Draw
<1>2. ASSUME NEW a \in Attempts, Grant(a) PROVE TypeOK'
  <2>1. token[a] \in 1..MaxToken
    BY <1>2 DEF Grant, TokensDrawn
  <2>2. lease' \in [by : Attempts, token : 1..MaxToken]
    BY <1>2, <2>1 DEF Grant
  <2>3. pc' \in [Attempts -> States] /\ left' \in [Attempts -> 0..TTL]
    BY <1>2 DEF Grant
  <2>4. armed' \subseteq Attempts /\ granted' \subseteq 1..MaxToken
    BY <1>2, <2>1 DEF Grant
  <2> QED BY <1>2, <2>2, <2>3, <2>4 DEF Grant
<1>3. ASSUME NEW a \in Attempts, Refuse(a) PROVE TypeOK'
  BY <1>3 DEF Refuse
<1>4. ASSUME NEW a \in Attempts, RenewCheck(a) PROVE TypeOK'
  BY <1>4 DEF RenewCheck
<1>5. ASSUME NEW a \in Attempts, RenewCommit(a) PROVE TypeOK'
  BY <1>5 DEF RenewCommit
<1>6. ASSUME NEW a \in Attempts, RenewLost(a) PROVE TypeOK'
  BY <1>6 DEF RenewLost
<1>7. ASSUME NEW a \in Attempts, Release(a) PROVE TypeOK'
  BY <1>7 DEF Release, LeaseWithout
<1>8. ASSUME NEW a \in Attempts, Die(a) PROVE TypeOK'
  BY <1>8 DEF Die
<1>9. ASSUME NEW a \in Attempts, Fire(a) PROVE TypeOK'
  <2>1. token[a] \in 1..MaxToken
    BY <1>9 DEF Fire, TokensDrawn, TimersOfGrants
  <2> QED BY <1>9, <2>1 DEF Fire
<1>10. ASSUME NEW t \in reapers, Reap(t) PROVE TypeOK'
  BY <1>10 DEF Reap, LeaseWithout
<1>11. CASE Close
  BY <1>11 DEF Close
<1>12. CASE Tick
  BY <1>12 DEF Tick
<1>13. CASE UNCHANGED vars
  BY <1>13 DEF vars
<1> QED BY <1>1, <1>2, <1>3, <1>4, <1>5, <1>6, <1>7, <1>8, <1>9, <1>10, <1>11,
           <1>12, <1>13 DEF Next

(* The unconditional part of the invariant is kept by every action.        *)
LEMMA CoreStep == Core /\ [Next]_vars => Core'
<1> SUFFICES ASSUME Core, [Next]_vars PROVE Core'
  OBVIOUS
<1>0. TypeOK'
  BY TypeStep DEF Core
<1> DEFINE Rest == TokensDrawn /\ RecordOfItsAttempt /\ HistoryBelowFence
                     /\ TimersOfGrants /\ MutexOfRenewer
<1> USE DEF Core, TypeOK, States, TokensDrawn, RecordOfItsAttempt,
            HistoryBelowFence, TimersOfGrants, MutexOfRenewer
<1>1. ASSUME NEW a \in Attempts, Draw(a) PROVE Rest'
  BY <1>1 DEF Draw
<1>2. ASSUME NEW a \in Attempts, Grant(a) PROVE Rest'
  BY <1>2 DEF Grant
<1>3. ASSUME NEW a \in Attempts, Refuse(a) PROVE Rest'
  BY <1>3 DEF Refuse
<1>4. ASSUME NEW a \in Attempts, RenewCheck(a) PROVE Rest'
  BY <1>4 DEF RenewCheck
<1>5. ASSUME NEW a \in Attempts, RenewCommit(a) PROVE Rest'
  BY <1>5 DEF RenewCommit
<1>6. ASSUME NEW a \in Attempts, RenewLost(a) PROVE Rest'
  BY <1>6 DEF RenewLost
<1>7. ASSUME NEW a \in Attempts, Release(a) PROVE Rest'
  BY <1>7 DEF Release, LeaseWithout
<1>8. ASSUME NEW a \in Attempts, Die(a) PROVE Rest'
  BY <1>8 DEF Die
<1>9. ASSUME NEW a \in Attempts, Fire(a) PROVE Rest'
  BY <1>9 DEF Fire
<1>10. ASSUME NEW t \in reapers, Reap(t) PROVE Rest'
  BY <1>10 DEF Reap, LeaseWithout
<1>11. CASE Close
  BY <1>11 DEF Close
<1>12. CASE Tick
  BY <1>12 DEF Tick
<1>13. CASE UNCHANGED vars
  BY <1>13 DEF vars
<1>14. Rest'
  BY <1>1, <1>2, <1>3, <1>4, <1>5, <1>6, <1>7, <1>8, <1>9, <1>10, <1>11,
     <1>12, <1>13 DEF Next
<1> QED BY <1>0, <1>14

(* Type correctness, for every instance: lease.go keeps the fence counter, *)
(* the record and the callers' leases in their ranges at every step.       *)
THEOREM TypeCorrect == Spec => []TypeOK
<1>1. Core => TypeOK
  BY DEF Core
<1> QED BY CoreInit, CoreStep, <1>1, PTL DEF Spec

-------------------------------------------------------------------------------
(* The part that needs a renewal not to straddle the expiry.               *)

(* No tick falls between the check and the commit of a renewal.            *)
LEMMA PromptStep ==
    ASSUME ~SlowRenew, Core, PromptRenewer, [Next]_vars
    PROVE  PromptRenewer'
<1> USE DEF Core, TypeOK, States, MutexOfRenewer, PromptRenewer
<1>1. ASSUME NEW a \in Attempts,
             Draw(a) \/ Refuse(a) \/ RenewLost(a) \/ Release(a) \/ Die(a) \/ Fire(a)
      PROVE  PromptRenewer'
  BY <1>1 DEF Draw, Refuse, RenewLost, Release, Die, Fire
<1>2. ASSUME NEW a \in Attempts, Grant(a) PROVE PromptRenewer'
  BY <1>2 DEF Grant
<1>3. ASSUME NEW a \in Attempts, RenewCheck(a) PROVE PromptRenewer'
  BY <1>3 DEF RenewCheck
<1>4. ASSUME NEW a \in Attempts, RenewCommit(a) PROVE PromptRenewer'
  BY <1>4 DEF RenewCommit
<1>5. ASSUME NEW t \in reapers, Reap(t) PROVE PromptRenewer'
  BY <1>5 DEF Reap
<1>6. CASE Close
  BY <1>6 DEF Close
<1>7. CASE Tick
  BY <1>7 DEF Tick
<1>8. CASE UNCHANGED vars
  BY <1>8 DEF vars
<1> QED BY <1>1, <1>2, <1>3, <1>4, <1>5, <1>6, <1>7, <1>8 DEF Next

(* The record in b.leases stays that of the attempt with time left.        *)
LEMMA LiveStep ==
    ASSUME ~SlowRenew, Core, PromptRenewer, LiveIsCurrent, [Next]_vars
    PROVE  LiveIsCurrent'
<1> USE DEF Core, TypeOK, States, TokensDrawn, RecordOfItsAttempt,
            HistoryBelowFence, TimersOfGrants, LiveIsCurrent, Believes
<1>1. ASSUME NEW a \in Attempts, Draw(a) PROVE LiveIsCurrent'
  BY <1>1 DEF Draw
<1>2. ASSUME NEW a \in Attempts, Grant(a) PROVE LiveIsCurrent'
  <2>1. ASSUME NEW b \in Attempts, Believes(b)' PROVE b = a
    BY <1>2, <2>1 DEF Grant, Live
  <2>2. lease' # NoLease /\ lease'.by = a
    BY <1>2, NoLeaseAssumption DEF Grant
  <2>3. token'[a] \notin reapers'
    BY <1>2 DEF Grant
  <2> QED BY <2>1, <2>2, <2>3
<1>3. ASSUME NEW a \in Attempts, Refuse(a) \/ RenewLost(a) \/ Die(a)
      PROVE  LiveIsCurrent'
  BY <1>3 DEF Refuse, RenewLost, Die
<1>4. ASSUME NEW a \in Attempts, RenewCheck(a) PROVE LiveIsCurrent'
  BY <1>4 DEF RenewCheck
<1>5. ASSUME NEW a \in Attempts, RenewCommit(a) PROVE LiveIsCurrent'
  BY <1>5 DEF RenewCommit, PromptRenewer
<1>6. ASSUME NEW a \in Attempts, Release(a) PROVE LiveIsCurrent'
  BY <1>6 DEF Release, LeaseWithout
<1>7. ASSUME NEW a \in Attempts, Fire(a) PROVE LiveIsCurrent'
  BY <1>7 DEF Fire
<1>8. ASSUME NEW t \in reapers, Reap(t) PROVE LiveIsCurrent'
  BY <1>8 DEF Reap, LeaseWithout
<1>9. CASE Close
  BY <1>9 DEF Close
<1>10. CASE Tick
  BY <1>10 DEF Tick
<1>11. CASE UNCHANGED vars
  BY <1>11 DEF vars
<1> QED BY <1>1, <1>2, <1>3, <1>4, <1>5, <1>6, <1>7, <1>8, <1>9, <1>10, <1>11
        DEF Next

(* The whole inductive invariant, for renewals that do not straddle ticks. *)
LEMMA Invariance == ~SlowRenew => (Spec => []IInv)
<1>1. Init => IInv
  <2>1. Init => PromptRenewer /\ LiveIsCurrent
    BY DEF Init, PromptRenewer, LiveIsCurrent, Believes
  <2> QED BY <2>1, CoreInit DEF IInv
<1> SUFFICES ASSUME ~SlowRenew PROVE Spec => []IInv
  OBVIOUS
<1>2. IInv /\ [Next]_vars => IInv'
  BY CoreStep, PromptStep, LiveStep DEF IInv
<1> QED BY <1>1, <1>2, PTL DEF Spec

(* Only the attempt in the record can believe it holds the lease.          *)
LEMMA OneLive ==
    ASSUME LiveIsCurrent PROVE AtMostOneLiveHolder
BY DEF LiveIsCurrent, AtMostOneLiveHolder

(* lease.go 34-38: two goroutines never both act on an unexpired grant, if *)
(* no renewal is descheduled across its own expiry.                        *)
THEOREM MutualExclusion == ~SlowRenew => (Spec => []AtMostOneLiveHolder)
<1> SUFFICES ASSUME ~SlowRenew PROVE Spec => []AtMostOneLiveHolder
  OBVIOUS
<1>1. IInv => AtMostOneLiveHolder
  BY OneLive DEF IInv
<1>2. Spec => []IInv
  BY Invariance
<1> QED BY <1>1, <1>2, PTL

(* Timers and cancels carry tokens, and the live record has its own.       *)
LEMMA LiveLeaseStep ==
    ASSUME IInv, IInv', [Next]_vars,
           NEW a \in Attempts, Believes(a), lease # NoLease, lease.by = a,
           lease' # lease
    PROVE  pc[a] = "held" /\ pc'[a] = "idle"
<1> USE DEF IInv, Core, TypeOK, States, TokensDrawn, RecordOfItsAttempt,
            LiveIsCurrent, Believes
<1>1. ASSUME NEW b \in Attempts, Release(b) PROVE b = a
  BY <1>1 DEF Release, LeaseWithout
<1>2. ASSUME NEW b \in Attempts, Grant(b) PROVE FALSE
  BY <1>2 DEF Grant, Live
<1>3. ASSUME NEW t \in reapers, Reap(t) PROVE FALSE
  BY <1>3 DEF Reap, LeaseWithout
<1>4. \E b \in Attempts : Release(b) \/ Grant(b) \/ (\E t \in reapers : Reap(t))
  BY DEF Next, vars, Draw, Refuse, RenewCheck, RenewCommit, RenewLost, Die, Fire,
         Close, Tick
<1>5. Release(a)
  BY <1>1, <1>2, <1>3, <1>4
<1> QED BY <1>5 DEF Release

(* lease.go 43-45 and 113-121: no stale release, no old timer and no       *)
(* newcomer removes the record of an unexpired grant.                      *)
THEOREM LiveLeaseIsStable == ~SlowRenew => (Spec => LiveLeaseOnlyEndsByItsHolder)
<1> SUFFICES ASSUME ~SlowRenew PROVE Spec => LiveLeaseOnlyEndsByItsHolder
  OBVIOUS
<1>1. Spec => []IInv
  BY Invariance
<1>2. IInv /\ IInv' /\ [Next]_vars =>
        [\A a \in Attempts :
           Believes(a) /\ lease # NoLease /\ lease.by = a /\ lease' # lease
              => pc[a] = "held" /\ pc'[a] = "idle"]_vars
  BY LiveLeaseStep
<1> QED BY <1>1, <1>2, PTL DEF Spec, LiveLeaseOnlyEndsByItsHolder

-------------------------------------------------------------------------------
(* LocalBus implements the contract of CoordLease.                         *)

(* The refinement mapping names the attempt with time left.                *)
LEMMA LiveHolderIs ==
    ASSUME LiveIsCurrent, NEW a \in Attempts, Believes(a)
    PROVE  LiveHolder = a
BY DEF LiveHolder, LiveIsCurrent

(* And nobody, when there is none.                                         *)
LEMMA NoLiveHolder ==
    ASSUME \A a \in Attempts : ~Believes(a)
    PROVE  LiveHolder = Nobody
BY DEF LiveHolder

(* Granting is granting in the contract: nobody is live, the token is new. *)
LEMMA GrantImplements ==
    ASSUME Core, LiveIsCurrent, LiveIsCurrent', NEW a \in Attempts, Grant(a)
    PROVE  Contract!Grant(a)
<1> USE DEF Grant, Core, TypeOK, LiveIsCurrent, Believes
<1>1. LiveHolder = Nobody
  <2>1. \A b \in Attempts : ~Believes(b)
    BY DEF Live
  <2> QED BY <2>1, NoLiveHolder
<1>2. LiveHolder' = a
  <2>1. Believes(a)'
    BY DEF States
  <2>2. \A b \in Attempts : Believes(b)' => b = a
    BY <2>1
  <2> QED BY <2>1, <2>2 DEF LiveHolder
<1>3. token[a] \in granted' \ granted
  BY DEF HistoryBelowFence
<1> QED BY <1>1, <1>2, <1>3 DEF Contract!Grant

(* Every other step ends the holding or is a stutter of the contract.      *)
LEMMA OtherStepsImplement ==
    ASSUME Core, PromptRenewer, LiveIsCurrent, LiveIsCurrent', [Next]_vars,
           \A a \in Attempts : ~Grant(a)
    PROVE  Contract!End \/ UNCHANGED <<LiveHolder, granted>>
<1>1. granted' = granted
  BY DEF Next, vars, Draw, Refuse, RenewCheck, RenewCommit, RenewLost, Release,
         Die, Fire, Reap, Close, Tick
<1>2. \A b \in Attempts : Believes(b)' => Believes(b)
  <2> USE DEF Core, TypeOK, States, Believes, PromptRenewer
  <2>1. ASSUME NEW a \in Attempts,
               Draw(a) \/ Refuse(a) \/ RenewLost(a) \/ Release(a) \/ Die(a) \/ Fire(a)
        PROVE  \A b \in Attempts : Believes(b)' => Believes(b)
    BY <2>1 DEF Draw, Refuse, RenewLost, Release, Die, Fire
  <2>2. ASSUME NEW a \in Attempts, RenewCheck(a) \/ RenewCommit(a)
        PROVE  \A b \in Attempts : Believes(b)' => Believes(b)
    BY <2>2 DEF RenewCheck, RenewCommit
  <2>3. ASSUME (\E t \in reapers : Reap(t)) \/ Close \/ UNCHANGED vars
        PROVE  \A b \in Attempts : Believes(b)' => Believes(b)
    BY <2>3 DEF Reap, Close, vars
  <2>4. ASSUME Tick PROVE \A b \in Attempts : Believes(b)' => Believes(b)
    BY <2>4 DEF Tick
  <2> QED BY <2>1, <2>2, <2>3, <2>4 DEF Next
<1>3. CASE \E b \in Attempts : Believes(b)'
  <2>1. PICK b \in Attempts : Believes(b)'
    BY <1>3
  <2>2. LiveHolder = b
    BY <1>2, <2>1, LiveHolderIs
  <2>3. LiveHolder' = b
    <3>1. \A c \in Attempts : Believes(c)' => c = b
      BY <2>1 DEF LiveIsCurrent
    <3> QED BY <2>1, <3>1 DEF LiveHolder
  <2> QED BY <1>1, <2>2, <2>3
<1>4. CASE \A b \in Attempts : ~Believes(b)'
  <2>1. LiveHolder' = Nobody
    BY <1>4 DEF LiveHolder
  <2> QED BY <1>1, <2>1 DEF Contract!End
<1> QED BY <1>3, <1>4

(* lease.go 42-50: whatever the interleaving, callers see at most one live *)
(* holder at a time and a token of its own for every grant, if no renewal  *)
(* is descheduled across its own expiry.                                   *)
THEOREM LocalBusImplementsLease == ~SlowRenew => (Spec => Implements)
<1> SUFFICES ASSUME ~SlowRenew PROVE Spec => Implements
  OBVIOUS
<1>1. Init => Contract!Init
  <2>1. Init => \A a \in Attempts : ~Believes(a)
    BY DEF Init, Believes
  <2> QED BY <2>1, NoLiveHolder DEF Init, Contract!Init
<1>2. IInv /\ IInv' /\ [Next]_vars => [Contract!Next]_<<LiveHolder, granted>>
  <2> SUFFICES ASSUME IInv, IInv', [Next]_vars
               PROVE  Contract!Next \/ UNCHANGED <<LiveHolder, granted>>
    OBVIOUS
  <2>1. ASSUME NEW a \in Attempts, Grant(a) PROVE Contract!Next
    BY <2>1, GrantImplements DEF IInv, Contract!Next
  <2>2. CASE \A a \in Attempts : ~Grant(a)
    BY <2>2, OtherStepsImplement DEF IInv, Contract!Next
  <2> QED BY <2>1, <2>2
<1>3. Spec => []IInv
  BY Invariance
<1> QED BY <1>1, <1>2, <1>3, PTL DEF Spec, Implements, Contract!Spec, Contract!vars
===============================================================================
