----------------------- MODULE SessionCoordinator_proof -----------------------
(***************************************************************************)
(* Proofs about SessionCoordinator, for any replicas and requests, any     *)
(* crashes, cancels and clients: with renewals in time, a bus that does    *)
(* not fail and a ttl of more than one renewal interval, a session's turns *)
(* do not overlap and keep their markers; in any schedule, the types.      *)
(***************************************************************************)
EXTENDS SessionCoordinator, TLAPS

(* The request has acquired its lease and not told its pump to stop.       *)
Keeping(q) == pc[q] \in {"leased", "marked", "waiting", "running", "draining",
                         "drained", "failing", "unsubscribed"}

ControlType ==
    /\ pc \in [Requests -> RequestStates]
    /\ lease \in Requests \cup {None}
    /\ left \in 0..TTL
    /\ pump \in [Requests -> {"off", "ticking", "due"}]

(* A request that has only just begun has no pump and no cancelled one.    *)
FreshRequests ==
    \A q \in Requests : pc[q] = "new" => q \notin stopRenew /\ pump[q] = "off"

(* The heart of the argument: between two ticks the lease is either just   *)
(* renewed or due for renewal with an interval to spare.                   *)
LeaseKept ==
    \A q \in Requests : Keeping(q) =>
        /\ q \notin stopRenew
        /\ lease = q
        /\ \/ pump[q] = "ticking" /\ left = TTL
           \/ pump[q] = "due" /\ left = TTL - 1

(* What the registry shows once the marker is published.                   *)
MarkerKept ==
    \A q \in Requests : Keeping(q) /\ pc[q] # "leased" => marker = q

Inv == ControlType /\ FreshRequests /\ LeaseKept

Prompt == ~Stalls /\ ~BusErrors /\ TTL > 1

USE ReplicaAssumption, TimeAssumption, NoneAssumption

(* The inductive invariant holds before the first request.                 *)
LEMMA InvInit == Init => Inv
<1> SUFFICES ASSUME Init PROVE Inv
  OBVIOUS
<1>1. ControlType
  BY DEF Init, ControlType, RequestStates
<1>2. FreshRequests /\ LeaseKept
  BY DEF Init, FreshRequests, LeaseKept, Keeping
<1> QED BY <1>1, <1>2 DEF Inv

(* A request only ever touches a lease that is its own or has run out.     *)
LEMMA RequestStep ==
    ASSUME Prompt, Inv, NEW p \in Requests, RunStep(p) \/ Finish(p)
    PROVE  Inv'
<1> USE DEF Prompt, Inv, ControlType, FreshRequests, LeaseKept, Keeping, RequestStates,
            leaseVars, pumpVars
<1>1. CASE Acquire(p)
  BY <1>1 DEF Acquire
<1>2. CASE Busy(p)
  BY <1>2 DEF Busy
<1>3. CASE PublishMarker(p)
  BY <1>3 DEF PublishMarker
<1>4. CASE Subscribe(p)
  BY <1>4 DEF Subscribe
<1>5. CASE RunStarts(p) \/ RunFails(p)
  BY <1>5 DEF RunStarts, RunFails
<1>6. CASE Emit(p) \/ EmitSkipped(p) \/ Log(p) \/ Send(p)
  BY <1>6 DEF Emit, EmitSkipped, Log, Send
<1>7. CASE Finish(p) \/ StopEarly(p)
  BY <1>7 DEF Finish, StopEarly, EndRun
<1>8. CASE Drained(p)
  BY <1>8 DEF Drained
<1>9. CASE Unsubscribe(p)
  BY <1>9 DEF Unsubscribe
<1>10. CASE StopRenew(p)
  BY <1>10 DEF StopRenew
<1>11. CASE ReleaseLease(p)
  BY <1>11 DEF ReleaseLease
<1>12. CASE ForgetRunMarker(p)
  BY <1>12 DEF ForgetRunMarker
<1> QED BY <1>1, <1>2, <1>3, <1>4, <1>5, <1>6, <1>7, <1>8, <1>9, <1>10, <1>11,
           <1>12 DEF RunStep

(* A renewal restores the ttl; a tick takes one interval of it, and makes  *)
(* the pump due.                                                           *)
LEMMA PumpTickStep ==
    ASSUME Prompt, Inv, Tick \/ (\E p \in Requests : PumpStep(p))
    PROVE  Inv'
<1> USE DEF Prompt, Inv, ControlType, FreshRequests, LeaseKept, Keeping, RequestStates
<1>1. ASSUME NEW p \in Requests, PumpStops(p) PROVE Inv'
  BY <1>1 DEF PumpStops, leaseVars
<1>2. ASSUME NEW p \in Requests, PumpRenews(p) PROVE Inv'
  BY <1>2 DEF PumpRenews, Holds
<1>3. ASSUME NEW p \in Requests, PumpTerminates(p) PROVE Inv'
  BY <1>3 DEF PumpTerminates, Holds, leaseVars
<1>4. CASE Tick
  <2>1. ControlType'
    BY <1>4 DEF Tick
  <2>2. FreshRequests'
    BY <1>4 DEF Tick
  <2>3. LeaseKept'
    BY <1>4 DEF Tick
  <2> QED BY <2>1, <2>2, <2>3
<1> QED BY <1>1, <1>2, <1>3, <1>4 DEF PumpStep

(* Cancels, other turns, clients, the reaper and crashes only end things.  *)
LEMMA OtherStep ==
    ASSUME Inv, [Next]_vars, ~Tick,
           \A p \in Requests : ~(RunStep(p) \/ Finish(p) \/ PumpStep(p))
    PROVE  Inv'
<1> USE DEF Inv, ControlType, FreshRequests, LeaseKept, Keeping, RequestStates,
            leaseVars, pumpVars
<1>1. ASSUME NEW p \in Requests, Read(p) \/ CancelPump(p) \/ ClientLeaves(p) PROVE Inv'
  BY <1>1 DEF Read, CancelPump, ClientLeaves
<1>2. ASSUME NEW r \in Replicas, CancelLocal(r) \/ CancelRemote(r) PROVE Inv'
  BY <1>2 DEF CancelLocal, CancelRemote
<1>3. ASSUME NEW r \in Replicas, AgentTaken(r) \/ AgentFreed(r) \/ ReapMarker(r)
      PROVE  Inv'
  BY <1>3 DEF AgentTaken, AgentFreed, ReapMarker
<1>4. ASSUME NEW r \in Replicas, Crash(r) PROVE Inv'
  BY <1>4 DEF Crash
<1>5. CASE UNCHANGED vars
  BY <1>5 DEF vars
<1> QED BY <1>1, <1>2, <1>3, <1>4, <1>5 DEF Next

(* With renewals in time the lease is kept from Acquire to StopRenew.      *)
LEMMA Invariance == Prompt => (Spec => []Inv)
<1> SUFFICES ASSUME Prompt PROVE Spec => []Inv
  OBVIOUS
<1>1. Inv /\ [Next]_vars => Inv'
  BY RequestStep, PumpTickStep, OtherStep
<1> QED BY InvInit, <1>1, PTL DEF Spec

(* session_coord.go 25-27 and 85-88: a long turn under a short ttl is      *)
(* executed by one replica, whatever crashes and cancels happen.           *)
THEOREM OneReplicaAtATime == Prompt => (Spec => []OneReplicaRuns)
<1> SUFFICES ASSUME Prompt PROVE Spec => []OneReplicaRuns
  OBVIOUS
<1>1. Inv => OneReplicaRuns
  BY DEF Inv, LeaseKept, Keeping, OneReplicaRuns
<1>2. Spec => []Inv
  BY Invariance
<1> QED BY <1>1, <1>2, PTL

(* A step keeps the markers of the runs in progress: each is overwritten   *)
(* only by the request that holds the lease, and deleted only by its own   *)
(* request, which is then past Keeping.                                    *)
LEMMA MarkerStep ==
    ASSUME Prompt, Reapers = {}, Inv, MarkerKept, [Next]_vars
    PROVE  MarkerKept'
<1> USE DEF Prompt, Inv, ControlType, LeaseKept, MarkerKept, Keeping, RequestStates
<1>1. ASSUME NEW p \in Requests, RunStep(p) \/ Finish(p) PROVE MarkerKept'
  <2>1. CASE Acquire(p)
    BY <2>1 DEF Acquire, Holds, markerVars
  <2>2. CASE PublishMarker(p)
    BY <2>2 DEF PublishMarker
  <2>3. CASE Busy(p) \/ Subscribe(p)
    BY <2>3 DEF Busy, Subscribe, markerVars
  <2>4. CASE RunStarts(p) \/ RunFails(p)
    BY <2>4 DEF RunStarts, RunFails, markerVars
  <2>5. CASE Emit(p) \/ EmitSkipped(p) \/ Log(p) \/ Send(p)
    BY <2>5 DEF Emit, EmitSkipped, Log, Send, markerVars
  <2>6. CASE Finish(p) \/ StopEarly(p) \/ Drained(p)
    BY <2>6 DEF Finish, StopEarly, EndRun, Drained, markerVars
  <2>7. CASE Unsubscribe(p) \/ StopRenew(p) \/ ReleaseLease(p)
    BY <2>7 DEF Unsubscribe, StopRenew, ReleaseLease, markerVars
  <2>8. CASE ForgetRunMarker(p)
    BY <2>8 DEF ForgetRunMarker
  <2> QED BY <1>1, <2>1, <2>2, <2>3, <2>4, <2>5, <2>6, <2>7, <2>8 DEF RunStep
<1>2. ASSUME NEW p \in Requests, PumpStep(p) \/ Read(p) \/ CancelPump(p) \/ ClientLeaves(p)
      PROVE  MarkerKept'
  BY <1>2 DEF PumpStep, PumpStops, PumpRenews, PumpTerminates, Read, CancelPump,
              ClientLeaves, markerVars
<1>3. ASSUME NEW r \in Replicas,
             CancelLocal(r) \/ CancelRemote(r) \/ AgentTaken(r) \/ AgentFreed(r)
      PROVE  MarkerKept'
  BY <1>3 DEF CancelLocal, CancelRemote, AgentTaken, AgentFreed, markerVars
<1>4. ASSUME NEW r \in Replicas, ReapMarker(r) PROVE MarkerKept'
  BY <1>4 DEF ReapMarker
<1>5. ASSUME NEW r \in Replicas, Crash(r) PROVE MarkerKept'
  BY <1>5 DEF Crash, markerVars
<1>6. CASE Tick
  BY <1>6 DEF Tick
<1>7. CASE UNCHANGED vars
  BY <1>7 DEF vars, markerVars
<1> QED BY <1>1, <1>2, <1>3, <1>4, <1>5, <1>6, <1>7 DEF Next

(* session_coord.go 304-306: while no reaper runs, a clean-up never takes  *)
(* the marker of a turn that runs, however late it comes.                  *)
THEOREM MarkerOutlivesCleanups ==
    Prompt /\ Reapers = {} => (Spec => []RunningTurnHasMarker)
<1> SUFFICES ASSUME Prompt, Reapers = {} PROVE Spec => []RunningTurnHasMarker
  OBVIOUS
<1>1. Init => MarkerKept
  BY DEF Init, MarkerKept, Keeping
<1>2. Inv /\ MarkerKept /\ [Next]_vars => MarkerKept'
  BY MarkerStep
<1>3. MarkerKept => RunningTurnHasMarker
  BY DEF MarkerKept, Keeping, RunningTurnHasMarker
<1>4. Spec => []Inv
  BY Invariance
<1> QED BY <1>1, <1>2, <1>3, <1>4, PTL DEF Spec
-----------------------------------------------------------------------------
(* The type invariant.                                                     *)

(* An event that waits to be logged was produced before.                   *)
PendingInv == TypeOK /\ \A q \in Requests : pending[q] <= made[q]

(* Nothing has happened at first.                                          *)
LEMMA PendingInit == Init => PendingInv
BY DEF Init, PendingInv, TypeOK, RequestStates

(* A request's own steps, those of its events first.                       *)
LEMMA PendingEvents ==
    ASSUME PendingInv, NEW q \in Requests,
           Emit(q) \/ EmitSkipped(q) \/ Log(q) \/ Send(q) \/ Read(q) \/ ClientLeaves(q)
    PROVE  PendingInv'
<1> USE DEF PendingInv, TypeOK, leaseVars, pumpVars, markerVars, cancelVars, runVars
<1>1. CASE Emit(q)
  BY <1>1 DEF Emit
<1>2. CASE EmitSkipped(q)
  BY <1>2 DEF EmitSkipped
<1>3. CASE Log(q)
  <2>1. log' \in Seq(Requests)
    <3>1. Append(log, q) \in Seq(Requests)
      OBVIOUS
    <3> QED BY <1>3, <3>1 DEF Log
  <2>2. pending[q] \in 1..MaxEvents /\ pending[q] <= made[q] /\ made[q] \in 0..MaxEvents
    BY <1>3 DEF Log
  <2>3. pending' = [pending EXCEPT ![q] = pending[q] - 1]
    BY <1>3 DEF Log
  <2>4. pending' \in [Requests -> 0..MaxEvents] /\ \A p \in Requests : pending'[p] <= made[p]
    BY <2>2, <2>3
  <2> QED BY <1>3, <2>1, <2>4 DEF Log
<1>4. CASE Send(q)
  BY <1>4 DEF Send
<1>5. CASE Read(q)
  <2>1. out[q] \in 1..OutCap
    BY <1>5 DEF Read
  <2>2. out' = [out EXCEPT ![q] = out[q] - 1]
    BY <1>5 DEF Read
  <2>3. out' \in [Requests -> 0..OutCap]
    BY <2>1, <2>2
  <2> QED BY <1>5, <2>3 DEF Read
<1>6. CASE ClientLeaves(q)
  BY <1>6 DEF ClientLeaves
<1> QED BY <1>1, <1>2, <1>3, <1>4, <1>5, <1>6

(* Its way through Run and the clean-up.                                   *)
LEMMA PendingRun ==
    ASSUME PendingInv, NEW q \in Requests,
           \/ Acquire(q) \/ Busy(q) \/ PublishMarker(q) \/ Subscribe(q)
           \/ RunStarts(q) \/ RunFails(q) \/ Finish(q) \/ StopEarly(q) \/ Drained(q)
           \/ Unsubscribe(q) \/ StopRenew(q) \/ ReleaseLease(q) \/ ForgetRunMarker(q)
    PROVE  PendingInv'
<1> USE DEF PendingInv, TypeOK, leaseVars, pumpVars, markerVars, cancelVars, runVars, eventVars
<1> USE DEF RequestStates
<1>1. CASE Acquire(q)
  BY <1>1 DEF Acquire
<1>2. CASE Busy(q)
  BY <1>2 DEF Busy
<1>3. CASE PublishMarker(q)
  <2>1. marker' \in Requests \cup {None} /\ markerLeft' \in 0..TTL
    BY <1>3 DEF PublishMarker
  <2>2. pc' \in [Requests -> RequestStates]
    BY <1>3 DEF PublishMarker
  <2> QED BY <1>3, <2>1, <2>2 DEF PublishMarker
<1>4. CASE Subscribe(q)
  BY <1>4 DEF Subscribe
<1>5. CASE RunStarts(q)
  BY <1>5 DEF RunStarts
<1>6. CASE RunFails(q)
  BY <1>6 DEF RunFails
<1>7. CASE Finish(q) \/ StopEarly(q)
  <2>1. EndRun(q)
    BY <1>7 DEF Finish, StopEarly
  <2> QED BY <2>1 DEF EndRun
<1>8. CASE Drained(q)
  BY <1>8 DEF Drained
<1>9. CASE Unsubscribe(q)
  BY <1>9 DEF Unsubscribe
<1>10. CASE StopRenew(q)
  BY <1>10 DEF StopRenew
<1>11. CASE ReleaseLease(q)
  BY <1>11 DEF ReleaseLease
<1>12. CASE ForgetRunMarker(q)
  BY <1>12 DEF ForgetRunMarker
<1> QED BY <1>1, <1>2, <1>3, <1>4, <1>5, <1>6, <1>7, <1>8, <1>9, <1>10, <1>11, <1>12

(* The pumps, the clock, and what others do.                               *)
LEMMA PendingOther ==
    ASSUME PendingInv,
           \/ Tick \/ UNCHANGED vars
           \/ \E q \in Requests : PumpStep(q) \/ CancelPump(q)
           \/ \E r \in Replicas : \/ CancelLocal(r) \/ CancelRemote(r) \/ AgentTaken(r)
                                  \/ AgentFreed(r) \/ ReapMarker(r) \/ Crash(r)
    PROVE  PendingInv'
<1> USE DEF PendingInv, TypeOK, leaseVars, pumpVars, markerVars, cancelVars, runVars, eventVars
<1>1. CASE Tick
  <2>1. left' \in 0..TTL /\ markerLeft' \in 0..TTL
    BY <1>1 DEF Tick
  <2>2. pump' \in [Requests -> {"off", "ticking", "due"}]
    BY <1>1 DEF Tick
  <2> QED BY <1>1, <2>1, <2>2 DEF Tick
<1>2. CASE UNCHANGED vars
  BY <1>2 DEF vars
<1>3. ASSUME NEW q \in Requests, PumpStep(q) PROVE PendingInv'
  <2>1. CASE PumpStops(q)
    BY <2>1 DEF PumpStops
  <2>2. CASE PumpRenews(q)
    <3>1. left' \in 0..TTL
      BY <2>2 DEF PumpRenews
    <3> QED BY <2>2, <3>1 DEF PumpRenews
  <2>3. CASE PumpTerminates(q)
    <3>1. stopped' \subseteq Requests
      BY <2>3 DEF PumpTerminates, Terminated
    <3> QED BY <2>3, <3>1 DEF PumpTerminates
  <2> QED BY <1>3, <2>1, <2>2, <2>3 DEF PumpStep
<1>4. ASSUME NEW q \in Requests, CancelPump(q) PROVE PendingInv'
  BY <1>4 DEF CancelPump, Terminated
<1>5. ASSUME NEW r \in Replicas, CancelLocal(r) \/ CancelRemote(r) PROVE PendingInv'
  BY <1>5 DEF CancelLocal, CancelRemote, Terminated
<1>6. ASSUME NEW r \in Replicas, AgentTaken(r) \/ AgentFreed(r) \/ ReapMarker(r) PROVE PendingInv'
  BY <1>6 DEF AgentTaken, AgentFreed, ReapMarker
<1>7. ASSUME NEW r \in Replicas, Crash(r) PROVE PendingInv'
  <2>1. pc' \in [Requests -> RequestStates] /\ pump' \in [Requests -> {"off", "ticking", "due"}]
    BY <1>7 DEF Crash, RequestStates
  <2> QED BY <1>7, <2>1 DEF Crash
<1> QED BY <1>1, <1>2, <1>3, <1>4, <1>5, <1>6, <1>7

(* session_coord.go 291-299: no event is logged that was not delivered, in *)
(* any schedule, with any errors of the bus.                               *)
THEOREM TypeCorrect == Spec => []TypeOK
<1>1. PendingInv /\ [Next]_vars => PendingInv'
  BY PendingEvents, PendingRun, PendingOther DEF Next, RunStep
<1>2. PendingInv => TypeOK
  BY DEF PendingInv
<1> QED BY PendingInit, <1>1, <1>2, PTL DEF Spec
-----------------------------------------------------------------------------
(* The session's log.                                                      *)

(* A request that has events in the log has started its run.               *)
Started(q) == pc[q] \in {"running", "draining", "drained", "unsubscribed", "unpumped",
                         "released", "over", "dead"}

(* A request whose forwarding goroutine may still append.                  *)
Appending(q) == pc[q] \in {"running", "draining"}

LoggedHaveStarted == \A i \in 1..Len(log) : Started(log[i])

(* Nobody has logged anything since a request that goes on logging.        *)
AppenderIsLast ==
    \A q \in Requests : Appending(q) =>
        \A i \in 1..Len(log) : log[i] = q => log[Len(log)] = q

LogInv == LoggedHaveStarted /\ AppenderIsLast /\ TurnsAreContiguousInLog

(* A request that appends is the one that holds the lease.                 *)
LEMMA OneAppender ==
    ASSUME Inv, NEW p \in Requests, NEW q \in Requests, Appending(p), Appending(q)
    PROVE  p = q
BY DEF Inv, LeaseKept, Keeping, Appending

(* Steps that leave the log alone let no request append that has events in *)
(* it already and did not append before.                                   *)
LEMMA LogUnchanged ==
    ASSUME TypeOK, LogInv, UNCHANGED log,
           \A q \in Requests : (Started(q) => Started(q)')
                               /\ (Appending(q)' => Appending(q) \/ ~Started(q))
    PROVE  LogInv'
<1>1. \A i \in 1..Len(log) : log[i] \in Requests
  BY DEF TypeOK
<1>2. LoggedHaveStarted'
  BY <1>1 DEF LogInv, LoggedHaveStarted
<1>3. AppenderIsLast'
  BY <1>1 DEF LogInv, LoggedHaveStarted, AppenderIsLast
<1>4. TurnsAreContiguousInLog'
  BY DEF LogInv, TurnsAreContiguousInLog
<1> QED BY <1>2, <1>3, <1>4 DEF LogInv

(* An append continues the last turn of the log or opens a new one.        *)
LEMMA LogStep ==
    ASSUME Prompt, TypeOK, Inv, LogInv, NEW q \in Requests, Log(q)
    PROVE  LogInv'
<1>1. log' = Append(log, q) /\ pc' = pc
  BY DEF Log, Prompt
<1>2. Appending(q) /\ Started(q)
  BY DEF Log, Appending, Started
<1> DEFINE n == Len(log)
<1>3. /\ log \in Seq(Requests) /\ n \in Nat
      /\ Len(log') = n + 1 /\ log'[n + 1] = q
      /\ \A i \in 1..n : log'[i] = log[i]
  BY <1>1 DEF TypeOK
<1>4. LoggedHaveStarted'
  <2>1. LoggedHaveStarted
    BY DEF LogInv
  <2>2. ASSUME NEW i \in 1..(n + 1) PROVE Started(log'[i])
    <3>1. CASE i = n + 1
      BY <1>2, <1>3, <3>1
    <3>2. CASE i \in 1..n
      BY <1>3, <2>1, <3>2 DEF LoggedHaveStarted
    <3> QED BY <1>3, <3>1, <3>2
  <2> QED BY <1>1, <1>3, <2>2 DEF LoggedHaveStarted, Started
<1>5. AppenderIsLast'
  BY <1>1, <1>2, <1>3, OneAppender DEF AppenderIsLast, Appending
<1>6. TurnsAreContiguousInLog'
  <2>1. SUFFICES ASSUME NEW i \in 1..(n + 1), NEW j \in 1..(n + 1), NEW k \in 1..(n + 1),
                        i < j, j < k, log'[i] = log'[k]
                 PROVE  log'[j] = log'[i]
    BY <1>3 DEF TurnsAreContiguousInLog
  <2>2. i \in 1..n /\ j \in 1..n
    BY <1>3, <2>1
  <2>3. CASE k \in 1..n
    BY <1>3, <2>1, <2>2, <2>3 DEF LogInv, TurnsAreContiguousInLog
  <2>4. CASE k = n + 1
    <3>1. log[i] = q
      BY <1>3, <2>1, <2>2, <2>4
    <3>2. log[n] = q /\ n \in 1..n
      BY <1>2, <1>3, <2>2, <3>1 DEF LogInv, AppenderIsLast
    <3>3. log[j] = q
      <4>1. CASE j = n
        BY <3>2, <4>1
      <4>2. CASE j < n
        BY <1>3, <2>1, <2>2, <3>1, <3>2, <4>2 DEF LogInv, TurnsAreContiguousInLog
      <4> QED BY <1>3, <2>2, <4>1, <4>2
    <3> QED BY <1>3, <2>2, <3>1, <3>3
  <2> QED BY <1>3, <2>3, <2>4
<1> QED BY <1>4, <1>5, <1>6 DEF LogInv

(* Requests start once, stop appending for good, and nobody else appends.  *)
LEMMA LogInvStep ==
    ASSUME Prompt, TypeOK, Inv, LogInv, [Next]_vars
    PROVE  LogInv'
<1> USE DEF Started, Appending, TypeOK, eventVars
<1>1. ASSUME NEW q \in Requests, Log(q) PROVE LogInv'
  BY <1>1, LogStep
<1>2. ASSUME NEW q \in Requests,
             \/ Acquire(q) \/ Busy(q) \/ PublishMarker(q) \/ Subscribe(q)
             \/ RunStarts(q) \/ RunFails(q) \/ Finish(q) \/ StopEarly(q) \/ Drained(q)
      PROVE  LogInv'
  BY <1>2, LogUnchanged DEF Acquire, Busy, PublishMarker, Subscribe, RunStarts, RunFails,
          Finish, StopEarly, EndRun, Drained
<1>3. ASSUME NEW q \in Requests,
             Unsubscribe(q) \/ StopRenew(q) \/ ReleaseLease(q) \/ ForgetRunMarker(q)
      PROVE  LogInv'
  BY <1>3, LogUnchanged DEF Unsubscribe, StopRenew, ReleaseLease, ForgetRunMarker
<1>4. ASSUME NEW q \in Requests,
             \/ Emit(q) \/ EmitSkipped(q) \/ Send(q) \/ Read(q)
             \/ PumpStep(q) \/ CancelPump(q) \/ ClientLeaves(q)
      PROVE  LogInv'
  BY <1>4, LogUnchanged DEF Emit, EmitSkipped, Send, Read, PumpStep, PumpStops, PumpRenews,
          PumpTerminates, CancelPump, ClientLeaves
<1>5. ASSUME NEW r \in Replicas,
             CancelLocal(r) \/ CancelRemote(r) \/ AgentTaken(r) \/ AgentFreed(r) \/ ReapMarker(r)
      PROVE  LogInv'
  BY <1>5, LogUnchanged DEF CancelLocal, CancelRemote, AgentTaken, AgentFreed, ReapMarker
<1>6. ASSUME NEW r \in Replicas, Crash(r) PROVE LogInv'
  BY <1>6, LogUnchanged DEF Crash
<1>7. CASE Tick \/ UNCHANGED vars
  BY <1>7, LogUnchanged DEF Tick, vars
<1> QED BY <1>1, <1>2, <1>3, <1>4, <1>5, <1>6, <1>7 DEF Next, RunStep

(* session_coord.go 28-29: the log is a history of the session: two turns  *)
(* never mix in it, on whichever replicas they ran, because a request      *)
(* gives its lease up only after its last append.                          *)
THEOREM LogIsAHistory == Prompt => (Spec => []TurnsAreContiguousInLog)
<1> SUFFICES ASSUME Prompt PROVE Spec => []TurnsAreContiguousInLog
  OBVIOUS
<1>1. Init => LogInv
  BY DEF Init, LogInv, LoggedHaveStarted, AppenderIsLast, TurnsAreContiguousInLog
<1>2. TypeOK /\ Inv /\ LogInv /\ [Next]_vars => LogInv'
  BY LogInvStep
<1>3. LogInv => TurnsAreContiguousInLog
  BY DEF LogInv
<1> QED BY TypeCorrect, Invariance, <1>1, <1>2, <1>3, PTL DEF Spec
=============================================================================
