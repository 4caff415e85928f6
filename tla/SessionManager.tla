---------------------------- MODULE SessionManager ---------------------------
(***************************************************************************)
(* gateway.SessionManager (src/gateway/session_manager.go) inside one      *)
(* process: turns wait for their session's lock and then for their         *)
(* agent's lock, a fan-out goroutine per turn copies the agent's events to *)
(* every subscriber channel, viewers join a running or a finished turn,    *)
(* and Terminate interrupts a turn.                                        *)
(*                                                                         *)
(* A turn is one call of Run, a viewer one call of Subscribe.  Each owns   *)
(* one channel of capacity Cap (64 in the code).  Event n of a turn is the *)
(* number n, so run.buffer is its length, made[t].                         *)
(***************************************************************************)
EXTENDS Naturals, Sequences

CONSTANTS Turns, Sessions, Agents, Viewers,
          SessionOf,   \* turn or viewer -> the session it names
          AgentOf,     \* turn -> the agent instance it runs on
          V2Agents,    \* the agents that support ReplyStream
          StopTargets, \* bound: the turns that somebody calls Terminate on
          Leavers,     \* bound: the turns whose caller may go away
          MaxEvents,   \* bound: events an agent produces in a turn
          Cap,         \* capacity of a subscriber channel
          None         \* "no turn"

ASSUME SessionAssumption == SessionOf \in [Turns \cup Viewers -> Sessions]
ASSUME AgentAssumption == AgentOf \in [Turns -> Agents]
ASSUME CapAssumption == Cap \in Nat \ {0} /\ MaxEvents \in Nat \ {0}
ASSUME NoneAssumption == None \notin Turns
ASSUME ChannelAssumption == Turns \cap Viewers = {}

VARIABLES pc,          \* where each turn is
          sessionLock, \* session -> the turn that holds its mutex
          agentLock,   \* agent -> the turn that holds its mutex
          runs,        \* sm.runs: session -> turn
          completed,   \* sm.completed: session -> the turn whose buffer is kept
          made,        \* turn -> length of run.buffer
          subscribers, \* turn -> run.subscribers
          todo,        \* turn -> channels the fan-out has still to serve
          done,        \* turns with run.done set
          chan,        \* channel -> its buffered events
          closed,      \* closed channels
          got,         \* channel -> the events its reader took
          vpc,         \* where each Subscribe call is
          joined,      \* viewer -> the turn it replays or follows
          replay,      \* viewer -> buffered events its goroutine has to send
          term,        \* turn -> progress of the Terminate that marked it
          flag,        \* agent -> its interrupt flag
          fresh,       \* turns whose agent has yet to call ResetInterrupt
          cancelled,   \* turns whose runCtx is cancelled
          left,        \* turns whose caller's ctx is cancelled
          interrupted, \* turns whose stream ended on the interrupt flag
          panicked     \* a goroutine sent on a closed channel

turnVars == <<pc, sessionLock, agentLock, runs, completed>>
fanVars == <<made, subscribers, todo, done>>
chanVars == <<chan, closed, got>>
viewVars == <<vpc, joined, replay>>
stopVars == <<term, flag, fresh, cancelled, left, interrupted>>
vars == <<turnVars, fanVars, chanVars, viewVars, stopVars, panicked>>

Channels == Turns \cup Viewers

Init ==
    /\ pc = [t \in Turns |-> "new"]
    /\ sessionLock = [s \in Sessions |-> None]
    /\ agentLock = [a \in Agents |-> None]
    /\ runs = [s \in Sessions |-> None]
    /\ completed = [s \in Sessions |-> None]
    /\ made = [t \in Turns |-> 0]
    /\ subscribers = [t \in Turns |-> <<>>]
    /\ todo = [t \in Turns |-> <<>>]
    /\ done = {}
    /\ chan = [c \in Channels |-> <<>>]
    /\ closed = {}
    /\ got = [c \in Channels |-> <<>>]
    /\ vpc = [v \in Viewers |-> "new"]
    /\ joined = [v \in Viewers |-> None]
    /\ replay = [v \in Viewers |-> <<>>]
    /\ term = [t \in Turns |-> "no"]
    /\ flag = [a \in Agents |-> FALSE]
    /\ fresh = {}
    /\ cancelled = {}
    /\ left = {}
    /\ interrupted = {}
    /\ panicked = FALSE

-----------------------------------------------------------------------------
\* Run.

\* Mutant: the session's mutex is not waited for.
LockSessionAtOnce(t) ==
    /\ pc[t] = "new"
    /\ sessionLock' = [sessionLock EXCEPT ![SessionOf[t]] = t]
    /\ pc' = [pc EXCEPT ![t] = "session"]
    /\ UNCHANGED <<agentLock, runs, completed, fanVars, chanVars, viewVars, stopVars, panicked>>

LockSession(t) ==
    /\ pc[t] = "new"
    /\ sessionLock[SessionOf[t]] = None
    /\ sessionLock' = [sessionLock EXCEPT ![SessionOf[t]] = t]
    /\ pc' = [pc EXCEPT ![t] = "session"]
    /\ UNCHANGED <<agentLock, runs, completed, fanVars, chanVars, viewVars, stopVars, panicked>>

\* The agent does not stream (not a V2Agent): give the session back.
RefuseAgent(t) ==
    /\ pc[t] = "session"
    /\ AgentOf[t] \notin V2Agents
    /\ sessionLock' = [sessionLock EXCEPT ![SessionOf[t]] = None]
    /\ pc' = [pc EXCEPT ![t] = "failed"]
    /\ UNCHANGED <<agentLock, runs, completed, fanVars, chanVars, viewVars, stopVars, panicked>>

LockAgent(t) ==
    /\ pc[t] = "session"
    /\ AgentOf[t] \in V2Agents
    /\ agentLock[AgentOf[t]] = None
    /\ agentLock' = [agentLock EXCEPT ![AgentOf[t]] = t]
    /\ pc' = [pc EXCEPT ![t] = "agent"]
    /\ UNCHANGED <<sessionLock, runs, completed, fanVars, chanVars, viewVars, stopVars, panicked>>

\* Mutant: the error path gives back one of the two mutexes.
StartFailsKeepingSession(t) ==
    /\ pc[t] = "agent"
    /\ agentLock' = [agentLock EXCEPT ![AgentOf[t]] = None]
    /\ pc' = [pc EXCEPT ![t] = "failed"]
    /\ UNCHANGED <<sessionLock, runs, completed, fanVars, chanVars, viewVars, stopVars, panicked>>

\* ReplyStream returned an error.
StartFails(t) ==
    /\ pc[t] = "agent"
    /\ agentLock' = [agentLock EXCEPT ![AgentOf[t]] = None]
    /\ sessionLock' = [sessionLock EXCEPT ![SessionOf[t]] = None]
    /\ pc' = [pc EXCEPT ![t] = "failed"]
    /\ UNCHANGED <<runs, completed, fanVars, chanVars, viewVars, stopVars, panicked>>

\* ReplyStream started the agent; the run is published in sm.runs.
Start(t) ==
    /\ pc[t] = "agent"
    /\ runs' = [runs EXCEPT ![SessionOf[t]] = t]
    /\ fresh' = fresh \cup {t}
    /\ pc' = [pc EXCEPT ![t] = "started"]
    /\ UNCHANGED <<sessionLock, agentLock, completed, fanVars, chanVars, viewVars,
                   term, flag, cancelled, left, interrupted, panicked>>

\* The caller's own channel becomes a subscriber; the fan-out goroutine starts.
Attach(t) ==
    /\ pc[t] = "started"
    /\ subscribers' = [subscribers EXCEPT ![t] = Append(@, t)]
    /\ pc' = [pc EXCEPT ![t] = "streaming"]
    /\ UNCHANGED <<sessionLock, agentLock, runs, completed, made, todo, done,
                   chanVars, viewVars, stopVars, panicked>>

\* The next event enters run.buffer; the subscriber list is copied with it.
Receive(t) ==
    /\ pc[t] = "streaming"
    /\ todo[t] = <<>>
    /\ made[t] < MaxEvents
    /\ made' = [made EXCEPT ![t] = @ + 1]
    /\ todo' = [todo EXCEPT ![t] = subscribers[t]]
    /\ UNCHANGED <<turnVars, subscribers, done, chanVars, viewVars, stopVars, panicked>>

\* select { case s <- ev: }
Deliver(t) ==
    /\ pc[t] = "streaming"
    /\ todo[t] # <<>>
    /\ LET c == Head(todo[t]) IN
         /\ Len(chan[c]) < Cap
         /\ chan' = [chan EXCEPT ![c] = Append(@, made[t])]
    /\ todo' = [todo EXCEPT ![t] = Tail(@)]
    /\ UNCHANGED <<turnVars, made, subscribers, done, closed, got, viewVars, stopVars, panicked>>

\* Mutant: select with a default branch, a slow reader loses events.
SkipWhenFull(t) ==
    /\ pc[t] = "streaming"
    /\ todo[t] # <<>>
    /\ Len(chan[Head(todo[t])]) = Cap
    /\ todo' = [todo EXCEPT ![t] = Tail(@)]
    /\ UNCHANGED <<turnVars, made, subscribers, done, chanVars, viewVars, stopVars, panicked>>

\* select { case <-ctx.Done(): }: the event is lost for this subscriber.
Skip(t) ==
    /\ pc[t] = "streaming"
    /\ todo[t] # <<>>
    /\ t \in left
    /\ todo' = [todo EXCEPT ![t] = Tail(@)]
    /\ UNCHANGED <<turnVars, made, subscribers, done, chanVars, viewVars, stopVars, panicked>>

\* The agent closed its stream: it finished, saw its flag, or saw its context.
StreamEnds(t, why) ==
    /\ pc[t] = "streaming"
    /\ todo[t] = <<>>
    /\ made[t] > 0
    /\ t \notin fresh
    /\ interrupted' = IF why = "flag" THEN interrupted \cup {t} ELSE interrupted
    /\ pc' = [pc EXCEPT ![t] = "ended"]
    /\ UNCHANGED <<sessionLock, agentLock, runs, completed, fanVars, chanVars,
                   viewVars, term, flag, fresh, cancelled, left, panicked>>

Finish(t) == StreamEnds(t, "finished")
StopOnFlag(t) == flag[AgentOf[t]] /\ StreamEnds(t, "flag")
StopOnContext(t) == t \in cancelled /\ StreamEnds(t, "context")

\* The deferred clean-up: mark the run done, with the subscribers to close.
MarkDone(t) ==
    /\ pc[t] = "ended"
    /\ done' = done \cup {t}
    /\ todo' = [todo EXCEPT ![t] = subscribers[t]]
    /\ pc' = [pc EXCEPT ![t] = "closing"]
    /\ UNCHANGED <<sessionLock, agentLock, runs, completed, made, subscribers,
                   chanVars, viewVars, stopVars, panicked>>

CloseNext(t) ==
    /\ pc[t] = "closing"
    /\ todo[t] # <<>>
    /\ closed' = closed \cup {Head(todo[t])}
    /\ todo' = [todo EXCEPT ![t] = Tail(@)]
    /\ UNCHANGED <<turnVars, made, subscribers, done, chan, got, viewVars, stopVars, panicked>>

\* The run leaves sm.runs and its buffer is kept for replay.
Retire(t) ==
    /\ pc[t] = "closing"
    /\ todo[t] = <<>>
    /\ runs' = [runs EXCEPT ![SessionOf[t]] = None]
    /\ completed' = [completed EXCEPT ![SessionOf[t]] = t]
    /\ pc' = [pc EXCEPT ![t] = "retired"]
    /\ UNCHANGED <<sessionLock, agentLock, fanVars, chanVars, viewVars, stopVars, panicked>>

UnlockSession(t) ==
    /\ pc[t] = "retired"
    /\ sessionLock' = [sessionLock EXCEPT ![SessionOf[t]] = None]
    /\ pc' = [pc EXCEPT ![t] = "unlocking"]
    /\ UNCHANGED <<agentLock, runs, completed, fanVars, chanVars, viewVars, stopVars, panicked>>

UnlockAgent(t) ==
    /\ pc[t] = "unlocking"
    /\ agentLock' = [agentLock EXCEPT ![AgentOf[t]] = None]
    /\ cancelled' = cancelled \cup {t}
    /\ pc' = [pc EXCEPT ![t] = "over"]
    /\ UNCHANGED <<sessionLock, runs, completed, fanVars, chanVars, viewVars,
                   term, flag, fresh, left, interrupted, panicked>>

-----------------------------------------------------------------------------
\* The agent of the turn.

\* ResetInterrupt, early in the agent's goroutine.
ResetInterrupt(t) ==
    /\ t \in fresh
    /\ fresh' = fresh \ {t}
    /\ flag' = [flag EXCEPT ![AgentOf[t]] = FALSE]
    /\ UNCHANGED <<turnVars, fanVars, chanVars, viewVars, term, cancelled, left,
                   interrupted, panicked>>

-----------------------------------------------------------------------------
\* Subscribe.

\* No run and no kept buffer: an empty closed channel.
LookNothing(v) ==
    /\ vpc[v] = "new"
    /\ runs[SessionOf[v]] = None
    /\ completed[SessionOf[v]] = None
    /\ closed' = closed \cup {v}
    /\ vpc' = [vpc EXCEPT ![v] = "over"]
    /\ UNCHANGED <<turnVars, fanVars, chan, got, joined, replay, stopVars, panicked>>

\* No run, a kept buffer: replay it and close.
LookCompleted(v) ==
    /\ vpc[v] = "new"
    /\ runs[SessionOf[v]] = None
    /\ completed[SessionOf[v]] # None
    /\ LET t == completed[SessionOf[v]] IN
         /\ joined' = [joined EXCEPT ![v] = t]
         /\ replay' = [replay EXCEPT ![v] = [i \in 1..made[t] |-> i]]
    /\ vpc' = [vpc EXCEPT ![v] = "replaying"]
    /\ UNCHANGED <<turnVars, fanVars, chanVars, stopVars, panicked>>

\* A run is in sm.runs: its lock comes next, sm.mu is given up.
LookRunning(v) ==
    /\ vpc[v] = "new"
    /\ runs[SessionOf[v]] # None
    /\ joined' = [joined EXCEPT ![v] = runs[SessionOf[v]]]
    /\ vpc' = [vpc EXCEPT ![v] = "looked"]
    /\ UNCHANGED <<turnVars, fanVars, chanVars, replay, stopVars, panicked>>

\* Mutant: the fan-out walks the live subscriber list and not a copy of it.
JoinRoundInFlight(v) ==
    /\ vpc[v] = "looked"
    /\ LET t == joined[v] IN
         /\ replay' = [replay EXCEPT ![v] = [i \in 1..made[t] |-> i]]
         /\ IF t \in done
            THEN /\ vpc' = [vpc EXCEPT ![v] = "replaying"]
                 /\ UNCHANGED <<subscribers, todo>>
            ELSE /\ vpc' = [vpc EXCEPT ![v] = "following"]
                 /\ subscribers' = [subscribers EXCEPT ![t] = Append(@, v)]
                 /\ todo' = IF todo[t] = <<>> THEN todo ELSE [todo EXCEPT ![t] = Append(@, v)]
    /\ UNCHANGED <<turnVars, made, done, chanVars, joined, stopVars, panicked>>

\* Mutant: run.done is not looked at, as before fix 22.4.
JoinEvenIfDone(v) ==
    /\ vpc[v] = "looked"
    /\ LET t == joined[v] IN
         /\ replay' = [replay EXCEPT ![v] = [i \in 1..made[t] |-> i]]
         /\ subscribers' = [subscribers EXCEPT ![t] = Append(@, v)]
    /\ vpc' = [vpc EXCEPT ![v] = "following"]
    /\ UNCHANGED <<turnVars, made, todo, done, chanVars, joined, stopVars, panicked>>

\* Under run.mu: copy the buffer and, unless the run is done, subscribe.
Join(v) ==
    /\ vpc[v] = "looked"
    /\ LET t == joined[v] IN
         /\ replay' = [replay EXCEPT ![v] = [i \in 1..made[t] |-> i]]
         /\ IF t \in done
            THEN /\ vpc' = [vpc EXCEPT ![v] = "replaying"]
                 /\ UNCHANGED subscribers
            ELSE /\ vpc' = [vpc EXCEPT ![v] = "following"]
                 /\ subscribers' = [subscribers EXCEPT ![t] = Append(@, v)]
    /\ UNCHANGED <<turnVars, made, todo, done, chanVars, joined, stopVars, panicked>>

\* The replay goroutine sends the next buffered event.
Replay(v) ==
    /\ vpc[v] \in {"replaying", "following"}
    /\ replay[v] # <<>>
    /\ v \notin closed
    /\ Len(chan[v]) < Cap
    /\ chan' = [chan EXCEPT ![v] = Append(@, Head(replay[v]))]
    /\ replay' = [replay EXCEPT ![v] = Tail(@)]
    /\ UNCHANGED <<turnVars, fanVars, closed, got, vpc, joined, stopVars, panicked>>

\* It sends, or is blocked in a send, on a channel the fan-out has closed.
ReplayPanics(v) ==
    /\ vpc[v] = "following"
    /\ replay[v] # <<>>
    /\ v \in closed
    /\ panicked' = TRUE
    /\ UNCHANGED <<turnVars, fanVars, chanVars, viewVars, stopVars>>

\* The replay of a finished turn closes the channel itself.
CloseReplay(v) ==
    /\ vpc[v] = "replaying"
    /\ replay[v] = <<>>
    /\ closed' = closed \cup {v}
    /\ vpc' = [vpc EXCEPT ![v] = "over"]
    /\ UNCHANGED <<turnVars, fanVars, chan, got, joined, replay, stopVars, panicked>>

\* The reader of a channel takes an event.
Read(c) ==
    /\ chan[c] # <<>>
    /\ got' = [got EXCEPT ![c] = Append(@, Head(chan[c]))]
    /\ chan' = [chan EXCEPT ![c] = Tail(@)]
    /\ UNCHANGED <<turnVars, fanVars, closed, viewVars, stopVars, panicked>>

-----------------------------------------------------------------------------
\* Terminate, ClearCompleted, and a caller that goes away.

\* Terminate finds the run and, under run.mu, marks it.
Terminate(t) ==
    /\ t \in StopTargets
    /\ runs[SessionOf[t]] = t
    /\ t \notin done
    /\ term[t] = "no"
    /\ term' = [term EXCEPT ![t] = "marked"]
    /\ UNCHANGED <<turnVars, fanVars, chanVars, viewVars, flag, fresh, cancelled,
                   left, interrupted, panicked>>

\* interruptAgent, after run.mu is released.
InterruptAgent(t) ==
    /\ term[t] = "marked"
    /\ term' = [term EXCEPT ![t] = "interrupted"]
    /\ flag' = [flag EXCEPT ![AgentOf[t]] = TRUE]
    /\ UNCHANGED <<turnVars, fanVars, chanVars, viewVars, fresh, cancelled, left,
                   interrupted, panicked>>

\* Mutant: Terminate relies on the interrupt flag alone.
CancelRunNot(t) ==
    /\ term[t] = "interrupted"
    /\ term' = [term EXCEPT ![t] = "cancelled"]
    /\ UNCHANGED <<turnVars, fanVars, chanVars, viewVars, flag, fresh, cancelled,
                   left, interrupted, panicked>>

\* run.cancel(), after the agent was interrupted.
CancelRun(t) ==
    /\ term[t] = "interrupted"
    /\ term' = [term EXCEPT ![t] = "cancelled"]
    /\ cancelled' = cancelled \cup {t}
    /\ UNCHANGED <<turnVars, fanVars, chanVars, viewVars, flag, fresh, left,
                   interrupted, panicked>>

\* ClearCompleted, and the retention passes that drop old buffers.
ClearCompleted(s) ==
    /\ completed[s] # None
    /\ completed' = [completed EXCEPT ![s] = None]
    /\ UNCHANGED <<pc, sessionLock, agentLock, runs, fanVars, chanVars, viewVars,
                   stopVars, panicked>>

\* The context of Run's caller ends (its client went away); runCtx is a child.
CallerLeaves(t) ==
    /\ t \in Leavers
    /\ pc[t] \in {"session", "agent", "started", "streaming"}
    /\ t \notin left
    /\ left' = left \cup {t}
    /\ cancelled' = cancelled \cup {t}
    /\ UNCHANGED <<turnVars, fanVars, chanVars, viewVars, term, flag, fresh,
                   interrupted, panicked>>

-----------------------------------------------------------------------------
\* What a turn's goroutines do, but for the agent finishing by itself.
RunStep(t) ==
    \/ LockSession(t) \/ RefuseAgent(t) \/ LockAgent(t) \/ StartFails(t)
    \/ Start(t) \/ Attach(t) \/ Receive(t) \/ Deliver(t) \/ Skip(t)
    \/ StopOnFlag(t) \/ StopOnContext(t)
    \/ MarkDone(t) \/ CloseNext(t) \/ Retire(t)
    \/ UnlockSession(t) \/ UnlockAgent(t) \/ ResetInterrupt(t)

StopStep(t) ==
    \/ Terminate(t) \/ InterruptAgent(t) \/ CancelRun(t) \/ CallerLeaves(t)

ViewStep(v) ==
    \/ LookNothing(v) \/ LookCompleted(v) \/ LookRunning(v) \/ Join(v)
    \/ Replay(v) \/ ReplayPanics(v) \/ CloseReplay(v)

\* A panic in a goroutine ends the process.
Next ==
    /\ ~panicked
    /\ \/ \E t \in Turns : RunStep(t) \/ Finish(t) \/ StopStep(t)
       \/ \E v \in Viewers : ViewStep(v)
       \/ \E c \in Channels : Read(c)
       \/ \E s \in Sessions : ClearCompleted(s)

Spec == Init /\ [][Next]_vars

\* The Go scheduler runs every goroutine that can run; a sync.Mutex does not
\* starve its waiters; clients that are connected keep reading.
Scheduling ==
    /\ \A t \in Turns :
         /\ WF_vars(~panicked /\ RunStep(t))
         /\ SF_vars(~panicked /\ LockSession(t))
         /\ SF_vars(~panicked /\ LockAgent(t))
         /\ WF_vars(~panicked /\ (InterruptAgent(t) \/ CancelRun(t)))
    /\ \A v \in Viewers : WF_vars(~panicked /\ ViewStep(v))
    /\ \A c \in Channels : WF_vars(~panicked /\ Read(c))

\* Agents owe nothing: one may work on a turn without end.
FairSpec == Spec /\ Scheduling
-----------------------------------------------------------------------------
TurnStates == {"new", "session", "agent", "started", "streaming", "ended",
               "closing", "retired", "unlocking", "over", "failed"}
ViewStates == {"new", "looked", "following", "replaying", "over"}
TermStates == {"no", "marked", "interrupted", "cancelled"}

\* Type invariant: every channel carries events of the run's buffer
\* (session_manager.go 164-173), and nothing beyond its end.
TypeOK ==
    /\ pc \in [Turns -> TurnStates]
    /\ sessionLock \in [Sessions -> Turns \cup {None}]
    /\ agentLock \in [Agents -> Turns \cup {None}]
    /\ runs \in [Sessions -> Turns \cup {None}]
    /\ completed \in [Sessions -> Turns \cup {None}]
    /\ made \in [Turns -> 0..MaxEvents]
    /\ subscribers \in [Turns -> Seq(Channels)]
    /\ todo \in [Turns -> Seq(Channels)]
    /\ done \subseteq Turns
    /\ chan \in [Channels -> Seq(1..MaxEvents)]
    /\ closed \subseteq Channels
    /\ got \in [Channels -> Seq(1..MaxEvents)]
    /\ vpc \in [Viewers -> ViewStates]
    /\ joined \in [Viewers -> Turns \cup {None}]
    /\ replay \in [Viewers -> Seq(1..MaxEvents)]
    /\ term \in [Turns -> TermStates]
    /\ flag \in [Agents -> BOOLEAN]
    /\ fresh \subseteq Turns
    /\ cancelled \subseteq Turns
    /\ left \subseteq Turns
    /\ interrupted \subseteq Turns
    /\ panicked \in BOOLEAN

\* From the start of the agent's stream to the end of its clean-up.
Running(t) == pc[t] \in {"started", "streaming", "ended", "closing"}

\* session_manager.go 88-97: turns of one session, and turns on one agent
\* instance, never overlap, and a turn that runs is the one sm.runs names.
TurnsDoNotOverlap ==
    \A t \in Turns : Running(t) =>
        /\ runs[SessionOf[t]] = t
        /\ \A u \in Turns \ {t} :
              Running(u) => SessionOf[u] # SessionOf[t] /\ AgentOf[u] # AgentOf[t]

Stream(c) == got[c] \o chan[c]

\* session_manager.go 164-181: the caller of Run, as long as its context
\* lives, gets every event of its turn, once and in order.
CallerSeesWholeTurn ==
    \A t \in Turns :
        t \in closed /\ t \notin left => Stream(t) = [i \in 1..made[t] |-> i]

\* session_manager.go 21-23: a viewer that joined gets every event of the turn
\* exactly once, whenever it joined.
ViewerMissesNothing ==
    \A v \in Viewers :
        v \in closed /\ joined[v] # None /\ joined[v] \notin left /\ replay[v] = <<>> =>
            LET n == made[joined[v]] IN
              /\ Len(Stream(v)) = n
              /\ {Stream(v)[i] : i \in 1..Len(Stream(v))} = 1..n

\* The fan-out has nothing to do but to wait for the turn's agent.
AwaitsAgent(t) == pc[t] = "streaming" /\ todo[t] = <<>>

\* session_manager.go 217-223, fix 22.4: no viewer hangs on a channel that
\* nobody will close; only an agent at work can keep one waiting.
ViewerIsReleased ==
    \A v \in Viewers :
        vpc[v] \in {"looked", "following", "replaying"} ~>
            (v \in closed \/ panicked \/ \E t \in Turns : joined[v] = t /\ AwaitsAgent(t))

\* session_manager.go 72-73 and 95: a call of Run gets its turn and comes to an
\* end: the two levels of locks never deadlock and are always given back, and
\* only an agent at work can hold the others up.
EveryRunEnds ==
    \A t \in Turns :
        pc[t] # "over" ~>
            (pc[t] \in {"over", "failed"} \/ panicked \/ \E u \in Turns : AwaitsAgent(u))

\* session_manager.go 255-257: a turn that Terminate was told to stop does stop,
\* even when the agent would never finish by itself and even when the agent
\* clears its interrupt flag after Terminate has set it.
TerminatedTurnEnds ==
    \A t \in StopTargets : term[t] # "no" ~> (pc[t] = "over" \/ panicked)

\* session_manager.go 22-23: a joining client receives the full event history:
\* its channel is not closed while buffered events still have to be sent.
ClosedAfterReplay ==
    \A v \in Viewers : v \in closed => replay[v] = <<>>

\* session_manager.go 88-92 (22.4): the interrupt flag belongs to a single turn:
\* only a turn that Terminate was told to stop ends as interrupted.
InterruptStaysInItsTurn ==
    \A t \in Turns : t \in interrupted => term[t] # "no"
=============================================================================
