---------------------------- MODULE WakeupWorker ----------------------------
(***************************************************************************)
(* The wakeup role: worker processes that compete for its lease            *)
(* (src/gateway/worker.go), the dispatcher its holder runs                 *)
(* (src/gateway/wakeupapi/dispatcher.go), and the team inbox and wakeup    *)
(* signals of the bus (src/messagebus/team_bus.go), for one worker session *)
(* of a team.  The lease is the one of FencingLease: taken when free, gone *)
(* at its end.  A turn holds the session until it ends.                    *)
(***************************************************************************)
EXTENDS Naturals, Sequences, FiniteSets

CONSTANTS
    Workers,        \* worker processes that own the role
    Handlers,       \* bound: handleWakeup goroutines at a time
    Messages,       \* team messages
    Buffer,         \* defaultSubscriberBuffer
    MaxFaults,      \* bound: leases that run out, crashes, shutdowns
    None            \* no worker

ASSUME WakeupAssumption ==
    /\ None \notin Workers /\ Buffer \in Nat \ {0}
    /\ MaxFaults \in Nat

VARIABLES
    lease,          \* the holder in the lease record
    role,           \* role[w]: where runRole is
    leaving,        \* leaving[w]: the worker's context is done
    buf,            \* buf[w]: wakeups waiting in the dispatcher's channel
    handler,        \* handler[h]: a handleWakeup goroutine
    inbox,          \* the session's inbox
    sent,           \* sent[m]: how far the sender of m is
    session,        \* the worker process that runs a turn of the session
    command,        \* is a resume command stored for the session
    faults,         \* bound: how many of MaxFaults happened
    delivered,      \* history: how often m was given to a turn
    cut,            \* history: was a dispatcher stopped, or did it die
    late,           \* history: has a lease run out under its holder
    calm            \* history: no wakeup without a listener, no give-up, no resume

bus == <<lease, inbox, sent, session, command>>
history == <<delivered, cut, late, calm>>
vars == <<bus, role, leaving, buf, handler, faults, history>>

Idle == [pc |-> "idle", at |-> None, live |-> FALSE, msgs |-> <<>>]

Init ==
    /\ lease = None /\ inbox = <<>> /\ session = None /\ command \in BOOLEAN
    /\ sent = [m \in Messages |-> "no"]
    /\ role = [w \in Workers |-> "acquire"] /\ leaving = [w \in Workers |-> FALSE]
    /\ buf = [w \in Workers |-> 0]
    /\ handler = [h \in Handlers |-> Idle]
    /\ faults = 0
    /\ delivered = [m \in Messages |-> 0]
    /\ cut = FALSE /\ late = FALSE /\ calm = TRUE

\* The dispatcher's loop runs, subscribed to the signals.
Listening(w) == role[w] \in {"hold", "stop"}

-----------------------------------------------------------------------------
(* The role: runRole and heartbeat.                                        *)

Acquire(w) ==
    /\ role[w] = "acquire" /\ ~leaving[w] /\ lease = None
    /\ lease' = w
    /\ role' = [role EXCEPT ![w] = "start"]
    /\ UNCHANGED <<inbox, sent, session, command, leaving, buf, handler, faults, history>>

\* Dispatcher.Start subscribes.
StartRole(w) ==
    /\ role[w] = "start"
    /\ role' = [role EXCEPT ![w] = "hold"]
    /\ buf' = [buf EXCEPT ![w] = 0]
    /\ UNCHANGED <<bus, leaving, handler, faults, history>>

\* Mutant: a component that does not start ends the role's loop.
StartFailsEnding(w) ==
    /\ role[w] = "start"
    /\ lease' = IF lease = w THEN None ELSE lease
    /\ role' = [role EXCEPT ![w] = "over"]
    /\ UNCHANGED <<inbox, sent, session, command, leaving, buf, handler, faults, history>>

StartFails(w) ==
    /\ role[w] = "start"
    /\ role' = [role EXCEPT ![w] = "release"]
    /\ UNCHANGED <<bus, leaving, buf, handler, faults, history>>

\* Mutant: the role is given up before its component is stopped.
LoseRoleReleasing(w) ==
    /\ role[w] = "hold" /\ (lease # w \/ leaving[w])
    /\ lease' = IF lease = w THEN None ELSE lease
    /\ role' = [role EXCEPT ![w] = "stop"]
    /\ UNCHANGED <<inbox, sent, session, command, leaving, buf, handler, faults, history>>

\* A renewal fails, or the worker's context is done.
LoseRole(w) ==
    /\ role[w] = "hold" /\ (lease # w \/ leaving[w])
    /\ role' = [role EXCEPT ![w] = "stop"]
    /\ UNCHANGED <<bus, leaving, buf, handler, faults, history>>

\* Dispatcher.Stop cancels the context, which its handlers share, and waits for
\* the loop, not for them.
StopRole(w) ==
    /\ role[w] = "stop"
    /\ role' = [role EXCEPT ![w] = "release"]
    /\ buf' = [buf EXCEPT ![w] = 0]
    /\ handler' = [h \in Handlers |-> IF handler[h].at = w THEN [handler[h] EXCEPT !.live = FALSE]
                                                           ELSE handler[h]]
    /\ cut' = TRUE
    /\ UNCHANGED <<bus, leaving, faults, delivered, late, calm>>

\* The token is checked: only a lease of one's own is given up.
Release(w) ==
    /\ role[w] = "release"
    /\ lease' = IF lease = w THEN None ELSE lease
    /\ role' = [role EXCEPT ![w] = IF leaving[w] THEN "over" ELSE "acquire"]
    /\ UNCHANGED <<inbox, sent, session, command, leaving, buf, handler, faults, history>>

\* Worker.Stop, or the end of the server's context.
Leave(w) ==
    /\ faults < MaxFaults /\ faults' = faults + 1
    /\ ~leaving[w] /\ role[w] \notin {"over", "dead"}
    /\ leaving' = [leaving EXCEPT ![w] = TRUE]
    /\ role' = [role EXCEPT ![w] = IF @ = "acquire" THEN "over" ELSE @]
    /\ UNCHANGED <<bus, buf, handler, history>>

\* The ttl passes while the holder is stalled; or nobody renews it any more.
RunOut(w) ==
    /\ lease = w
    /\ IF role[w] \in {"acquire", "over", "dead"} THEN UNCHANGED <<faults, late>>
       ELSE faults < MaxFaults /\ faults' = faults + 1 /\ late' = TRUE
    /\ lease' = None
    /\ UNCHANGED <<inbox, sent, session, command, role, leaving, buf, handler,
                   delivered, cut, calm>>

Crash(w) ==
    /\ faults < MaxFaults /\ faults' = faults + 1
    /\ role[w] \notin {"over", "dead"}
    /\ role' = [role EXCEPT ![w] = "dead"]
    /\ buf' = [buf EXCEPT ![w] = 0]
    /\ handler' = [h \in Handlers |-> IF handler[h].at = w THEN Idle ELSE handler[h]]
    /\ session' = IF session = w THEN None ELSE session
    /\ cut' = TRUE
    /\ UNCHANGED <<lease, inbox, sent, command, leaving, delivered, late, calm>>

-----------------------------------------------------------------------------
(* The bus, and who sends.                                                 *)

\* EnqueueWakeup: every listener's channel, unless it is full.
Signal ==
    /\ buf' = [w \in Workers |-> IF Listening(w) /\ buf[w] < Buffer THEN buf[w] + 1 ELSE buf[w]]
    /\ calm' = (calm /\ \E w \in Workers : Listening(w))

\* TeamSay pushes the message, then signals.
Push(m) ==
    /\ sent[m] = "no"
    /\ sent' = [sent EXCEPT ![m] = "pushed"]
    /\ inbox' = Append(inbox, m)
    /\ UNCHANGED <<lease, session, command, role, leaving, buf, handler, faults, history>>

Wake(m) ==
    /\ sent[m] = "pushed"
    /\ sent' = [sent EXCEPT ![m] = "sent"]
    /\ Signal
    /\ UNCHANGED <<lease, inbox, session, command, role, leaving, handler, faults,
                   delivered, cut, late>>

\* A user's turn of the session, at any process; and the end of any turn.
UserTurn(w) ==
    /\ session = None /\ role[w] # "dead"
    /\ session' = w
    /\ UNCHANGED <<lease, inbox, sent, command, role, leaving, buf, handler, faults, history>>

EndTurn ==
    /\ session # None
    /\ session' = None
    /\ UNCHANGED <<lease, inbox, sent, command, role, leaving, buf, handler, faults, history>>

-----------------------------------------------------------------------------
(* The dispatcher: a goroutine for each wakeup.                            *)

Step(h, from, to) ==
    /\ handler[h].pc = from
    /\ handler' = [handler EXCEPT ![h].pc = to]
Done(h) == handler' = [handler EXCEPT ![h] = Idle]

Receive(w, h) ==
    /\ Listening(w) /\ buf[w] > 0 /\ handler[h].pc = "idle"
    /\ buf' = [buf EXCEPT ![w] = @ - 1]
    /\ handler' = [handler EXCEPT ![h] = [Idle EXCEPT !.pc = "check", !.at = w, !.live = TRUE]]
    /\ UNCHANGED <<bus, role, leaving, faults, history>>

\* handleWakeup asks whether this process runs the session.
Check(h) ==
    /\ Step(h, "check", IF session = handler[h].at THEN "poll" ELSE "look")
    /\ UNCHANGED <<bus, role, leaving, buf, faults, history>>

\* waitAndRun: until the session is idle, the context done, or the time over.
PollIdle(h) ==
    /\ session # handler[h].at /\ Step(h, "poll", "look")
    /\ UNCHANGED <<bus, role, leaving, buf, faults, history>>

PollEnds(h) ==
    /\ handler[h].pc = "poll" /\ Done(h)
    /\ calm' = FALSE
    /\ UNCHANGED <<bus, role, leaving, buf, faults, delivered, cut, late>>

\* drainAndRun: a stored command goes first, and the inbox stays as it is; when
\* the session is busy elsewhere the command stays and the inbox is drained.
Look(h) ==
    /\ \/ Step(h, "look", "drain") /\ UNCHANGED <<session, command, calm>>
       \/ /\ handler[h].pc = "look" /\ handler[h].live /\ command /\ session = None
          /\ Done(h)
          /\ session' = handler[h].at /\ command' = FALSE /\ calm' = FALSE
    /\ UNCHANGED <<lease, inbox, sent, role, leaving, buf, faults, delivered, cut, late>>

\* Mutant: the inbox is read, and cleared later.
DrainKeeping(h) ==
    /\ handler[h].pc = "drain"
    /\ handler' = [handler EXCEPT ![h].pc = "build", ![h].msgs = inbox]
    /\ UNCHANGED <<bus, role, leaving, buf, faults, history>>

\* InboxDrain refuses a context that is done.
Drain(h) ==
    /\ handler[h].pc = "drain"
    /\ IF handler[h].live /\ inbox # <<>>
       THEN /\ handler' = [handler EXCEPT ![h].pc = "build", ![h].msgs = inbox]
            /\ inbox' = <<>>
       ELSE Done(h) /\ UNCHANGED inbox
    /\ UNCHANGED <<lease, sent, session, command, role, leaving, buf, faults, history>>

\* Mutant: an agent that cannot be built ends the wakeup.
BuildGivingUp(h) ==
    /\ handler[h].pc = "build"
    /\ Step(h, "build", "start") \/ Done(h)
    /\ UNCHANGED <<bus, role, leaving, buf, faults, history>>

Build(h) ==
    /\ Step(h, "build", "start") \/ Step(h, "build", "requeue")
    /\ UNCHANGED <<bus, role, leaving, buf, faults, history>>

\* startTurn: the session is free, and the turn gets the messages.
StartTurn(h) ==
    /\ handler[h].pc = "start" /\ handler[h].live /\ session = None
    /\ session' = handler[h].at
    /\ delivered' = [m \in Messages |->
                        delivered[m] + Cardinality({i \in DOMAIN handler[h].msgs : handler[h].msgs[i] = m})]
    /\ Done(h)
    /\ UNCHANGED <<lease, inbox, sent, command, role, leaving, buf, faults, cut, late, calm>>

\* startTurn: an error, the deadline with the session busy, or the context done.
StartTurnFails(h) ==
    /\ Step(h, "start", "requeue")
    /\ UNCHANGED <<bus, role, leaving, buf, faults, history>>

\* requeue: the messages one by one, with the handler's own context; the errors
\* are ignored.
Requeue(h) ==
    /\ handler[h].pc = "requeue" /\ handler[h].msgs # <<>>
    /\ handler' = [handler EXCEPT ![h].msgs = Tail(@)]
    /\ inbox' = IF handler[h].live THEN Append(inbox, Head(handler[h].msgs)) ELSE inbox
    /\ UNCHANGED <<lease, sent, session, command, role, leaving, buf, faults, history>>

\* Mutant: the messages are put back and nobody is told.
RearmNot(h) ==
    /\ handler[h].pc = "requeue" /\ handler[h].msgs = <<>>
    /\ Done(h)
    /\ UNCHANGED <<bus, role, leaving, buf, faults, history>>

\* The wakeup is signalled again.
Rearm(h) ==
    /\ handler[h].pc = "requeue" /\ handler[h].msgs = <<>>
    /\ Done(h)
    /\ IF handler[h].live THEN Signal ELSE UNCHANGED <<buf, calm>>
    /\ UNCHANGED <<bus, role, leaving, faults, delivered, cut, late>>

Work(w) == Acquire(w) \/ StartRole(w) \/ StartFails(w) \/ LoseRole(w) \/ StopRole(w) \/ Release(w)
Handle(h) ==
    \/ Check(h) \/ PollIdle(h) \/ PollEnds(h) \/ Look(h) \/ Drain(h) \/ Build(h)
    \/ StartTurn(h) \/ StartTurnFails(h) \/ Requeue(h) \/ Rearm(h)

Next ==
    \/ \E w \in Workers :
          Work(w) \/ Leave(w) \/ RunOut(w) \/ Crash(w) \/ UserTurn(w) \/ \E h \in Handlers : Receive(w, h)
    \/ \E m \in Messages : Push(m) \/ Wake(m)
    \/ EndTurn
    \/ \E h \in Handlers : Handle(h)

\* The role loops run, an unrenewed lease runs out, Start does not fail for ever.
Fairness ==
    /\ \A w \in Workers : WF_vars(Work(w)) /\ SF_vars(StartRole(w))
    /\ \A w \in Workers : WF_vars(role[w] \in {"acquire", "over", "dead"} /\ RunOut(w))

Spec == Init /\ [][Next]_vars /\ Fairness

-----------------------------------------------------------------------------
(* Properties.                                                             *)

\* The lease record, the role loops, the inbox and the handlers have the shapes
\* the code gives them (worker.go 74-90, dispatcher.go 58-77, team_bus.go).
TypeOK ==
    /\ lease \in Workers \cup {None} /\ session \in Workers \cup {None} /\ command \in BOOLEAN
    /\ role \in [Workers -> {"acquire", "start", "hold", "stop", "release", "over", "dead"}]
    /\ leaving \in [Workers -> BOOLEAN]
    /\ buf \in [Workers -> 0..Buffer] /\ \A w \in Workers : buf[w] > 0 => Listening(w)
    /\ inbox \in Seq(Messages)
    /\ sent \in [Messages -> {"no", "pushed", "sent"}]
    /\ handler \in [Handlers -> [pc : {"idle", "check", "poll", "look", "drain", "build", "start", "requeue"},
                                 at : Workers \cup {None}, live : BOOLEAN, msgs : Seq(Messages)]]
    /\ faults \in 0..MaxFaults
    /\ delivered \in [Messages -> Nat]
    /\ cut \in BOOLEAN /\ late \in BOOLEAN /\ calm \in BOOLEAN

InHand(m) == \E h \in Handlers : \E i \in DOMAIN handler[h].msgs : handler[h].msgs[i] = m
Kept(m) == (\E i \in DOMAIN inbox : inbox[i] = m) \/ InHand(m) \/ delivered[m] > 0

\* No message is given to two turns, although handlers of one dispatcher, and of
\* two when a lease ran out, drain, fail and put back at the same time
\* (dispatcher.go drainAndRun, requeue; team_bus.go InboxDrain).
DeliveredOnce == \A m \in Messages : delivered[m] <= 1

\* A message is in the inbox, with a handler, or delivered, whatever failed, until
\* a dispatcher is stopped or dies (dispatcher.go requeue: "at-least-once").
NothingIsLost == ~cut => \A m \in Messages : sent[m] # "no" => Kept(m)

\* Inbox, handlers and turns keep what TeamDelivery promises: no step brings a
\* message back that was lost or delivered, however drains, failed turns, put-backs
\* and take-overs interleave (dispatcher.go drainAndRun, requeue; team_bus.go).
Place(m) ==
    IF delivered[m] > 1 THEN "repeated"
    ELSE IF delivered[m] = 1 THEN "delivered"
    ELSE IF sent[m] = "no" THEN "unsent"
    ELSE IF Kept(m) THEN "kept" ELSE "lost"
Whereabouts == [m \in Messages |-> Place(m)]
Promise == INSTANCE TeamDelivery WITH place <- Whereabouts, stopped <- cut
KeepsPromise == Promise!Spec

\* A message in the inbox always has a wakeup on its way, as long as there was a
\* dispatcher for each signal, none gave up polling or took a resume command
\* instead (dispatcher.go 200-270, team_bus.go EnqueueWakeup's dropped signals).
NeverStranded ==
    calm /\ ~cut /\ inbox # <<>> =>
        \/ \E m \in Messages : sent[m] = "pushed"
        \/ \E w \in Workers : buf[w] > 0
        \/ \E h \in Handlers : handler[h].pc \in {"check", "poll", "look", "drain", "requeue"}

\* Two dispatchers listen at the same time only when a lease ran out under its
\* holder (worker.go runRole: stop, then release).
OneDispatcher == ~late => \A v, w \in Workers : Listening(v) /\ Listening(w) => v = w

\* The role is held again and again while a worker is left that was not told to
\* stop, after a holder left, lost its lease or did not start its component
\* (worker.go 8-12).
RoleIsTakenOver ==
    \/ <>(\A w \in Workers : leaving[w] \/ role[w] = "dead")
    \/ []<>(\E w \in Workers : role[w] = "hold")

\* dispatcher.go:257: "drained-but-lost messages must not disappear
\* (at-least-once)".  A stopped dispatcher's handler puts its messages back with
\* the context that was just cancelled, which the bus refuses.
StopLosesNothing == (\A w \in Workers : role[w] # "dead") => \A m \in Messages : sent[m] # "no" => Kept(m)
=============================================================================
