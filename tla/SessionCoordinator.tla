-------------------------- MODULE SessionCoordinator --------------------------
(***************************************************************************)
(* gateway.SessionCoordinator on its fencing-lease path                    *)
(* (src/gateway/session_coord.go, runWithLease): the turns of one session, *)
(* requested on several replicas that share a bus.                         *)
(*                                                                         *)
(* A request is one call of Run.  Of the bus it uses the lease, the        *)
(* running marker, the event log and the cancel channel.  Of its replica's *)
(* SessionManager it uses Run, which waits for the session's and the       *)
(* agent's mutex, and Terminate, which only finds a run that has started.  *)
(* The lease keeps the contract of FencingLease: here a request's token is *)
(* the request itself.                                                     *)
(*                                                                         *)
(* Time is relative.  A tick makes every running renewal ticker due; the   *)
(* lease lasts TTL ticks, so TTL > 1 is several renewals per ttl.          *)
(***************************************************************************)
EXTENDS Naturals, Sequences

CONSTANTS Requests, Replicas,
          ReplicaOf,   \* request -> the replica that serves it
          TTL,         \* the lease ttl, in renewal intervals
          MaxEvents,   \* bound: events an agent produces in a turn
          OutCap,      \* capacity of the channel Run returns (64 in the code)
          Stalls,      \* TRUE: a renewal may be late by any time
          BusErrors,   \* TRUE: any call on the bus may fail
          Reapers,     \* the replicas that run the retention reaper
          Crashers,    \* bound: the replicas that may crash
          Cancels,     \* bound: the replicas a client sends a cancel to
          Leavers,     \* bound: the requests whose client may go away
          None         \* "no request"

ASSUME ReplicaAssumption == ReplicaOf \in [Requests -> Replicas]
ASSUME TimeAssumption == TTL \in Nat \ {0} /\ MaxEvents \in Nat /\ OutCap \in Nat \ {0}
ASSUME SwitchAssumption == Stalls \in BOOLEAN /\ BusErrors \in BOOLEAN
ASSUME NoneAssumption == None \notin Requests

VARIABLES pc,          \* where each request is
          lease,       \* the request whose token the lease carries
          left,        \* ticks until that lease expires
          pump,        \* request -> its renewal goroutine
          stopRenew,   \* requests whose renewCtx is cancelled
          marker,      \* running registry entry: the request that wrote it
          markerLeft,  \* ticks until the expiry recorded in it
          subscribed,  \* requests subscribed to the session's cancel channel
          inbox,       \* requests with a cancel message in their buffer
          busyAgent,   \* replicas whose agent runs another session's turn
          run,         \* replica -> the request in its sm.runs
          made,        \* request -> events its agent produced
          pending,     \* request -> events delivered and not logged yet
          log,         \* the session's event log: who appended each entry
          sending,     \* requests with a logged event still to be sent on out
          out,         \* request -> events in the channel Run returned
          gone,        \* requests whose client went away
          stopped      \* requests whose run was terminated

leaseVars == <<lease, left>>
pumpVars == <<pump, stopRenew>>
markerVars == <<marker, markerLeft>>
cancelVars == <<subscribed, inbox>>
runVars == <<busyAgent, run, stopped>>
eventVars == <<made, pending, log, sending, out, gone>>
vars == <<pc, leaseVars, pumpVars, markerVars, cancelVars, runVars, eventVars>>

Init ==
    /\ pc = [q \in Requests |-> "new"]
    /\ lease = None
    /\ left = 0
    /\ pump = [q \in Requests |-> "off"]
    /\ stopRenew = {}
    /\ marker = None
    /\ markerLeft = 0
    /\ subscribed = {}
    /\ inbox = {}
    /\ busyAgent = {}
    /\ run = [r \in Replicas |-> None]
    /\ made = [q \in Requests |-> 0]
    /\ pending = [q \in Requests |-> 0]
    /\ log = <<>>
    /\ sending = {}
    /\ out = [q \in Requests |-> 0]
    /\ gone = {}
    /\ stopped = {}

Holds(q) == lease = q /\ left > 0

\* The effect of sm.Terminate on replica r: a run is found, interrupted and
\* its context cancelled, unless there is none.
Terminated(r) == IF run[r] = None THEN stopped ELSE stopped \cup {run[r]}
-----------------------------------------------------------------------------
\* runWithLease, up to sm.Run.

\* AcquireLease on a detached context, and bg.Register.
Acquire(q) ==
    /\ pc[q] = "new"
    /\ lease = None \/ left = 0
    /\ lease' = q
    /\ left' = TTL
    /\ pump' = [pump EXCEPT ![q] = "ticking"]
    /\ pc' = [pc EXCEPT ![q] = "leased"]
    /\ UNCHANGED <<stopRenew, markerVars, cancelVars, runVars, eventVars>>

\* ErrLeaseHeld, which the caller gets as ErrSessionBusy, or another error.
Busy(q) ==
    /\ pc[q] = "new"
    /\ BusErrors \/ (lease # None /\ left > 0)
    /\ pc' = [pc EXCEPT ![q] = "busy"]
    /\ UNCHANGED <<leaseVars, pumpVars, markerVars, cancelVars, runVars, eventVars>>

\* RegistrySet, whatever is there; an error is ignored.
PublishMarker(q) ==
    /\ pc[q] = "leased"
    /\ \/ /\ marker' = q
          /\ markerLeft' = IF lease = q THEN left ELSE 0
       \/ BusErrors /\ UNCHANGED markerVars
    /\ pc' = [pc EXCEPT ![q] = "marked"]
    /\ UNCHANGED <<leaseVars, pumpVars, cancelVars, runVars, eventVars>>

Subscribe(q) ==
    /\ pc[q] = "marked"
    /\ subscribed' = subscribed \cup {q}
    /\ pc' = [pc EXCEPT ![q] = "waiting"]
    /\ UNCHANGED <<leaseVars, pumpVars, markerVars, inbox, runVars, eventVars>>

\* sm.Run got the session's and the agent's mutex and the agent has started.
RunStarts(q) ==
    LET r == ReplicaOf[q] IN
    /\ pc[q] = "waiting"
    /\ run[r] = None
    /\ r \notin busyAgent
    /\ run' = [run EXCEPT ![r] = q]
    /\ pc' = [pc EXCEPT ![q] = "running"]
    /\ UNCHANGED <<leaseVars, pumpVars, markerVars, cancelVars, busyAgent, stopped, eventVars>>

\* sm.Run returned an error: straight to the clean-up, the mutexes given back.
RunFails(q) ==
    LET r == ReplicaOf[q] IN
    /\ pc[q] = "waiting"
    /\ run[r] = None
    /\ r \notin busyAgent
    /\ pc' = [pc EXCEPT ![q] = "failing"]
    /\ UNCHANGED <<leaseVars, pumpVars, markerVars, cancelVars, runVars, eventVars>>
-----------------------------------------------------------------------------
\* The turn and its events.

\* An event reaches the coordinator.
Emit(q) ==
    /\ pc[q] = "running"
    /\ made[q] < MaxEvents
    /\ made' = [made EXCEPT ![q] = @ + 1]
    /\ pending' = [pending EXCEPT ![q] = @ + 1]
    /\ UNCHANGED <<pc, leaseVars, pumpVars, markerVars, cancelVars, runVars, log, sending, out, gone>>

\* The fan-out's select takes <-ctx.Done() instead of the send.
EmitSkipped(q) ==
    /\ pc[q] = "running"
    /\ q \in gone
    /\ made[q] < MaxEvents
    /\ made' = [made EXCEPT ![q] = @ + 1]
    /\ UNCHANGED <<pc, leaseVars, pumpVars, markerVars, cancelVars, runVars, pending, log, sending, out, gone>>

\* appendEvent; an error of LogAppend is ignored.
Log(q) ==
    /\ pc[q] \in {"running", "draining"}
    /\ q \notin sending
    /\ pending[q] > 0
    /\ pending' = [pending EXCEPT ![q] = @ - 1]
    /\ log' = Append(log, q) \/ (BusErrors /\ UNCHANGED log)
    /\ sending' = sending \cup {q}
    /\ UNCHANGED <<pc, leaseVars, pumpVars, markerVars, cancelVars, runVars, made, out, gone>>

\* out <- ev, with no way out when nobody reads.
Send(q) ==
    /\ pc[q] \in {"running", "draining"}
    /\ q \in sending
    /\ out[q] < OutCap
    /\ sending' = sending \ {q}
    /\ out' = [out EXCEPT ![q] = @ + 1]
    /\ UNCHANGED <<pc, leaseVars, pumpVars, markerVars, cancelVars, runVars, made, pending, log, gone>>

\* The handler that called Run takes an event.
Read(q) ==
    /\ pc[q] # "dead"
    /\ out[q] > 0
    /\ out' = [out EXCEPT ![q] = @ - 1]
    /\ UNCHANGED <<pc, leaseVars, pumpVars, markerVars, cancelVars, runVars, made, pending, log,
                   sending, gone>>

\* Mutant: the lease is released with the run and not after the last append.
EndRunReleasing(q) ==
    /\ pc[q] = "running"
    /\ run' = [run EXCEPT ![ReplicaOf[q]] = None]
    /\ lease' = IF lease = q THEN None ELSE lease
    /\ left' = IF lease = q THEN 0 ELSE left
    /\ pc' = [pc EXCEPT ![q] = "draining"]
    /\ UNCHANGED <<pumpVars, markerVars, cancelVars, busyAgent, stopped, eventVars>>

\* The SessionManager retires the run: the agent finished, or was stopped.
EndRun(q) ==
    /\ pc[q] = "running"
    /\ run' = [run EXCEPT ![ReplicaOf[q]] = None]
    /\ pc' = [pc EXCEPT ![q] = "draining"]
    /\ UNCHANGED <<leaseVars, pumpVars, markerVars, cancelVars, busyAgent, stopped, eventVars>>

Finish(q) == q \notin stopped /\ EndRun(q)
StopEarly(q) == q \in stopped /\ EndRun(q)

\* The stream is closed and every delivered event is logged and sent on.
Drained(q) ==
    /\ pc[q] = "draining"
    /\ pending[q] = 0
    /\ q \notin sending
    /\ pc' = [pc EXCEPT ![q] = "drained"]
    /\ UNCHANGED <<leaseVars, pumpVars, markerVars, cancelVars, runVars, eventVars>>
-----------------------------------------------------------------------------
\* The clean-up, in its order.

\* cancelCancel closes the subscription.  A buffered message can still be read
\* by the cancel pump, which a failed sm.Run never started.
Unsubscribe(q) ==
    /\ pc[q] \in {"drained", "failing"}
    /\ subscribed' = subscribed \ {q}
    /\ inbox' = IF pc[q] = "failing" THEN inbox \ {q} ELSE inbox
    /\ pc' = [pc EXCEPT ![q] = "unsubscribed"]
    /\ UNCHANGED <<leaseVars, pumpVars, markerVars, runVars, eventVars>>

\* Mutant: the clean-up forgets stopRenew().
StopRenewNot(q) ==
    /\ pc[q] = "unsubscribed"
    /\ pc' = [pc EXCEPT ![q] = "unpumped"]
    /\ UNCHANGED <<leaseVars, pumpVars, markerVars, cancelVars, runVars, eventVars>>

\* The renewal context is cancelled; the pump will see it.
StopRenew(q) ==
    /\ pc[q] = "unsubscribed"
    /\ stopRenew' = stopRenew \cup {q}
    /\ pc' = [pc EXCEPT ![q] = "unpumped"]
    /\ UNCHANGED <<leaseVars, pump, markerVars, cancelVars, runVars, eventVars>>

\* Token-gated: only this request's lease goes, unless the bus fails.
ReleaseLease(q) ==
    /\ pc[q] = "unpumped"
    /\ IF lease = q
       THEN \/ lease' = None /\ left' = 0
            \/ BusErrors /\ UNCHANGED <<lease, left>>
       ELSE UNCHANGED <<lease, left>>
    /\ pc' = [pc EXCEPT ![q] = "released"]
    /\ UNCHANGED <<pumpVars, markerVars, cancelVars, runVars, eventVars>>

\* Mutant: a plain RegistryDelete.
ForgetAnyMarker(q) ==
    /\ pc[q] = "released"
    /\ marker' = None
    /\ pc' = [pc EXCEPT ![q] = "over"]
    /\ UNCHANGED <<leaseVars, pumpVars, markerLeft, cancelVars, runVars, eventVars>>

\* RegistryCompareAndDelete, or RegistryDelete if that failed; bg.MarkDone.
ForgetRunMarker(q) ==
    /\ pc[q] = "released"
    /\ \/ marker' = IF marker = q THEN None ELSE marker
       \/ BusErrors /\ marker' \in {marker, None}
    /\ pc' = [pc EXCEPT ![q] = "over"]
    /\ UNCHANGED <<leaseVars, pumpVars, markerLeft, cancelVars, runVars, eventVars>>
-----------------------------------------------------------------------------
\* The renewal pump.

\* The select takes <-renewCtx.Done(), maybe with a tick there as well.
PumpStops(q) ==
    /\ pump[q] # "off"
    /\ q \in stopRenew
    /\ pump' = [pump EXCEPT ![q] = "off"]
    /\ UNCHANGED <<pc, leaseVars, stopRenew, markerVars, cancelVars, runVars, eventVars>>

\* Mutant: the renewal does not move the expiry.
PumpRenewsNothing(q) ==
    /\ pump[q] = "due"
    /\ Holds(q)
    /\ pump' = [pump EXCEPT ![q] = "ticking"]
    /\ UNCHANGED <<pc, leaseVars, stopRenew, markerVars, cancelVars, runVars, eventVars>>

\* The select may take the tick after stopRenew, and then still renews.
PumpRenews(q) ==
    /\ pump[q] = "due"
    /\ Holds(q)
    /\ left' = TTL
    /\ pump' = [pump EXCEPT ![q] = "ticking"]
    /\ UNCHANGED <<pc, lease, stopRenew, markerVars, cancelVars, runVars, eventVars>>

\* Mutant: the pump returns and leaves the run alone.
PumpGivesUp(q) ==
    /\ pump[q] = "due"
    /\ BusErrors \/ ~Holds(q)
    /\ pump' = [pump EXCEPT ![q] = "off"]
    /\ UNCHANGED <<pc, leaseVars, stopRenew, markerVars, cancelVars, runVars, eventVars>>

\* Any error of RenewLease: sm.Terminate(sessionID), and the pump is gone.
PumpTerminates(q) ==
    /\ pump[q] = "due"
    /\ BusErrors \/ ~Holds(q)
    /\ stopped' = Terminated(ReplicaOf[q])
    /\ pump' = [pump EXCEPT ![q] = "off"]
    /\ UNCHANGED <<pc, leaseVars, stopRenew, markerVars, cancelVars, busyAgent, run, eventVars>>

\* A renewal interval passes.  Without Stalls no pump is behind: each has
\* handled the last tick and the end of its context.
Tick ==
    /\ \/ left > 0 \/ markerLeft > 0
       \/ \E q \in Requests : pump[q] = "ticking"
    /\ Stalls \/ \A q \in Requests :
                    pump[q] # "off" => pump[q] = "ticking" /\ q \notin stopRenew
    /\ left' = IF left > 0 THEN left - 1 ELSE 0
    /\ markerLeft' = IF markerLeft > 0 THEN markerLeft - 1 ELSE 0
    /\ pump' = [q \in Requests |-> IF pump[q] = "ticking" THEN "due" ELSE pump[q]]
    /\ UNCHANGED <<pc, lease, stopRenew, marker, cancelVars, runVars, eventVars>>
-----------------------------------------------------------------------------
\* Cancel, from a client of replica r.

CancelLocal(r) ==
    /\ r \in Cancels
    /\ run[r] # None /\ run[r] \notin stopped
    /\ stopped' = Terminated(r)
    /\ UNCHANGED <<pc, leaseVars, pumpVars, markerVars, subscribed, inbox, busyAgent, run, eventVars>>

\* Terminate found nothing: publish; every subscription gets the message.
CancelRemote(r) ==
    /\ r \in Cancels
    /\ run[r] = None \/ run[r] \in stopped
    /\ inbox' = inbox \cup subscribed
    /\ UNCHANGED <<pc, leaseVars, pumpVars, markerVars, subscribed, runVars, eventVars>>

\* Mutant: the cancel pump starts before sm.Run returns.
CancelPumpEarly(q) ==
    /\ q \in inbox
    /\ pc[q] # "dead"
    /\ inbox' = inbox \ {q}
    /\ stopped' = Terminated(ReplicaOf[q])
    /\ UNCHANGED <<pc, leaseVars, pumpVars, markerVars, subscribed, busyAgent, run, eventVars>>

\* The cancel pump, a goroutine that starts once sm.Run has returned.
CancelPump(q) ==
    /\ q \in inbox
    /\ pc[q] \notin {"waiting", "failing", "dead"}
    /\ inbox' = inbox \ {q}
    /\ stopped' = Terminated(ReplicaOf[q])
    /\ UNCHANGED <<pc, leaseVars, pumpVars, markerVars, subscribed, busyAgent, run, eventVars>>
-----------------------------------------------------------------------------
\* The rest of the replica.

\* A turn of another session takes and gives back the agent's mutex.
AgentTaken(r) ==
    /\ run[r] = None
    /\ r \notin busyAgent
    /\ busyAgent' = busyAgent \cup {r}
    /\ UNCHANGED <<pc, leaseVars, pumpVars, markerVars, cancelVars, run, stopped, eventVars>>

AgentFreed(r) ==
    /\ r \in busyAgent
    /\ busyAgent' = busyAgent \ {r}
    /\ UNCHANGED <<pc, leaseVars, pumpVars, markerVars, cancelVars, run, stopped, eventVars>>

\* dropStaleRunMarkers: the marker's recorded expiry is in the past.
ReapMarker(r) ==
    /\ r \in Reapers
    /\ marker # None
    /\ markerLeft = 0
    /\ marker' = None
    /\ UNCHANGED <<pc, leaseVars, pumpVars, markerLeft, cancelVars, runVars, eventVars>>

\* The client of a request goes away: its context, and the agent's, ends.
ClientLeaves(q) ==
    /\ q \in Leavers
    /\ pc[q] \notin {"busy", "over", "dead"}
    /\ q \notin gone
    /\ gone' = gone \cup {q}
    /\ stopped' = stopped \cup {q}
    /\ UNCHANGED <<pc, leaseVars, pumpVars, markerVars, subscribed, inbox, busyAgent, run, made, pending, log,
                   sending, out>>

\* The process dies; the bus keeps the lease, the marker and the log.
Crash(r) ==
    LET here == {q \in Requests : ReplicaOf[q] = r} IN
    /\ r \in Crashers
    /\ \E q \in here : pc[q] \notin {"new", "busy", "over", "dead"}
    /\ pc' = [q \in Requests |-> IF q \in here /\ pc[q] # "new" THEN "dead" ELSE pc[q]]
    /\ pump' = [q \in Requests |-> IF q \in here THEN "off" ELSE pump[q]]
    /\ subscribed' = subscribed \ here
    /\ inbox' = inbox \ here
    /\ run' = [run EXCEPT ![r] = None]
    /\ busyAgent' = busyAgent \ {r}
    /\ UNCHANGED <<leaseVars, stopRenew, markerVars, stopped, eventVars>>
-----------------------------------------------------------------------------
\* What a request's goroutine does, but for the agent finishing by itself.
RunStep(q) ==
    \/ Acquire(q) \/ Busy(q) \/ PublishMarker(q) \/ Subscribe(q)
    \/ RunStarts(q) \/ RunFails(q) \/ Emit(q) \/ EmitSkipped(q) \/ Log(q) \/ Send(q)
    \/ StopEarly(q) \/ Drained(q)
    \/ Unsubscribe(q) \/ StopRenew(q) \/ ReleaseLease(q) \/ ForgetRunMarker(q)

PumpStep(q) == PumpStops(q) \/ PumpRenews(q) \/ PumpTerminates(q)

Next ==
    \/ \E q \in Requests :
          RunStep(q) \/ Finish(q) \/ Read(q) \/ PumpStep(q) \/ CancelPump(q) \/ ClientLeaves(q)
    \/ \E r \in Replicas :
          \/ CancelLocal(r) \/ CancelRemote(r) \/ AgentTaken(r) \/ AgentFreed(r)
          \/ ReapMarker(r) \/ Crash(r)
    \/ Tick

Spec == Init /\ [][Next]_vars

\* Goroutines that can run do run, a select does not take the tick for ever when
\* it could take the end of its context (it draws among the ready cases), the
\* mutexes of sm.Run are not starved, turns of other sessions end, connected
\* clients read, and time passes.  Cancels and crashes owe nothing,
\* nor does a client that went away.
Scheduling ==
    /\ \A q \in Requests :
         /\ WF_vars(RunStep(q))
         /\ SF_vars(RunStarts(q) \/ RunFails(q))
         /\ WF_vars(PumpStep(q)) /\ SF_vars(PumpStops(q))
         /\ WF_vars(CancelPump(q))
         /\ WF_vars(q \notin gone /\ Read(q))
    /\ \A r \in Replicas : WF_vars(AgentFreed(r))
    /\ WF_vars(Tick)

\* Agents owe nothing: one may work on a turn without end.
FairSpec == Spec /\ Scheduling
-----------------------------------------------------------------------------
RequestStates == {"new", "busy", "leased", "marked", "waiting", "running",
                  "draining", "drained", "failing", "unsubscribed", "unpumped",
                  "released", "over", "dead"}

\* Type invariant: no event is logged that was not delivered (session_coord.go
\* 291-299), and a lease lasts for its ttl at most.
TypeOK ==
    /\ pc \in [Requests -> RequestStates]
    /\ lease \in Requests \cup {None}
    /\ left \in 0..TTL
    /\ pump \in [Requests -> {"off", "ticking", "due"}]
    /\ stopRenew \subseteq Requests
    /\ marker \in Requests \cup {None}
    /\ markerLeft \in 0..TTL
    /\ subscribed \subseteq Requests
    /\ inbox \subseteq Requests
    /\ busyAgent \subseteq Replicas
    /\ run \in [Replicas -> Requests \cup {None}]
    /\ made \in [Requests -> 0..MaxEvents]
    /\ pending \in [Requests -> 0..MaxEvents]
    /\ log \in Seq(Requests)
    /\ sending \subseteq Requests
    /\ out \in [Requests -> 0..OutCap]
    /\ gone \subseteq Requests
    /\ stopped \subseteq Requests

\* session_coord.go 25-27: at most one replica executes a session's turn, with
\* renewals in time and crashes at any point.
OneReplicaRuns ==
    \A p, q \in Requests : pc[p] = "running" /\ pc[q] = "running" => p = q

\* session_coord.go 28-29: the log is a history of the session: the events of
\* two turns are never mixed, whichever replicas they ran on.
TurnsAreContiguousInLog ==
    \A i, j, k \in 1..Len(log) :
        i < j /\ j < k /\ log[i] = log[k] => log[j] = log[i]

\* session_coord.go 304-306 and 497-504: while a turn runs its marker is in the
\* registry, whatever an earlier turn's clean-up still deletes; Status on
\* another replica reads it.
RunningTurnHasMarker ==
    \A q \in Requests : pc[q] = "running" => marker = q

\* session_coord.go 51-54 and 85-88: no request keeps the session for ever,
\* by failing to start, by crashing, or by ending: only a turn that still runs
\* can hold the lease on and on.
LeaseComesBack ==
    \A q \in Requests : lease = q ~> (lease # q \/ left = 0 \/ pc[q] = "running")

\* session_coord.go 225-228: a turn whose lease was lost is terminated while
\* its pump is there to notice, even when its agent would go on for ever.
StaleHolderStops ==
    \A q \in Requests :
        (pc[q] = "running" /\ pump[q] # "off" /\ ~Holds(q)) ~> pc[q] # "running"

\* session_coord.go 30-31: a cancel that reached the subscription of a request
\* stops its turn, also one that came before the turn had started.
CancelStopsTurn ==
    \A q \in Requests : q \in inbox ~> pc[q] \notin {"waiting", "running"}

\* session_coord.go 51-54: runs are guarded by a lease renewed for the whole
\* turn; a holder that loses its lease terminates its local run: a turn runs
\* with a renewal pump behind it, or is being stopped.
RunIsGuarded ==
    \A q \in Requests : pc[q] = "running" => pump[q] # "off" \/ q \in stopped

\* session_coord.go 74-76: normal completion releases the session; only a crash
\* leaves it to the ttl.
CompletionFreesSession ==
    \A q \in Requests : pc[q] = "draining" ~> lease # q
=============================================================================
