--------------------------- MODULE SessionResume ---------------------------
(***************************************************************************)
(* Suspending a turn on a human answer and resuming it, for one session    *)
(* on several replicas that share the storage:                             *)
(*   - the agent's turn, which asks, parks and waits (src/agent/react);    *)
(*   - the WebSocket handler, which saves the snapshot, forwards answers   *)
(*     and resumes on reconnect (src/gateway/sessionapi/ws.go);            *)
(*   - SessionStateManager.Resume (src/gateway/session_state.go), also     *)
(*     reached by POST /v2/resume;                                         *)
(*   - the wakeup dispatcher, which consumes a stored command              *)
(*     (src/gateway/wakeupapi/dispatcher.go).                              *)
(* Confirm requests are numbered; 0 is no request.  A turn holds the       *)
(* session's run lease while it is not idle.                               *)
(***************************************************************************)
EXTENDS Naturals, Sequences, FiniteSets

CONSTANTS
    Replicas,       \* gateway processes
    Fronts,         \* those of them that clients open WebSockets to
    Posters,        \* clients of POST /v2/resume
    MaxAsks,        \* bound: confirm requests ever raised
    MaxAnswers,     \* bound: answers clients send
    MaxWakeups,     \* bound: wakeups the dispatchers get
    MaxFaults,      \* bound: lost connections and crashes
    MaxTurns,       \* bound: turns begun
    None            \* no replica

ASSUME ResumeAssumption ==
    /\ Fronts \subseteq Replicas /\ Replicas \cap Posters = {} /\ None \notin Replicas
    /\ {MaxAsks, MaxAnswers, MaxWakeups, MaxFaults, MaxTurns} \subseteq Nat

VARIABLES
    snap,           \* the stored snapshot
    parked,         \* parked[a]: runtimeState.WaitConfirmID, 0 when not suspended
    turn,           \* turn[a]: the turn agent a runs
    answer,         \* answer[a]: what is in the waiter's channel
    attach,         \* attach[r]: does the connection still take the turn's events
    inbox,          \* inbox[r]: events forwarded to the connection
    conn,           \* conn[r]: the WebSocket handler
    call,           \* call[x]: a Resume on behalf of a connection or a poster
    wake,           \* wake[r]: the dispatcher
    asks, answers, wakeups, faults, turns,     \* bounds
    shown,          \* history: requests a client has seen
    ran,            \* history: how often the tools of request k were run
    approvals,      \* history: how many answers approved request k
    calm            \* history: no fault, one connection, no answer but its own

bounds == <<asks, answers, wakeups, faults, turns>>
history == <<shown, ran, approvals, calm>>
vars == <<snap, parked, turn, answer, attach, inbox, conn, call, wake, bounds, history>>

\* The process-wide agent the connections use, the one the dispatcher builds.
Own(r) == <<r, "own">>
Woken(r) == <<r, "woken">>
Agents == Replicas \X {"own", "woken"}

Asked == 1..MaxAsks
NoSnap == [stored |-> FALSE, k |-> 0, command |-> 0]
IdleTurn == [pc |-> "idle", k |-> 0, resumed |-> FALSE, cancelled |-> FALSE]
NoCall == [pc |-> "idle", at |-> None, k |-> 0, approve |-> FALSE,
           seen |-> NoSnap]
Asleep == [pc |-> "idle", k |-> 0, command |-> 0]

Init ==
    /\ snap = NoSnap
    /\ parked = [a \in Agents |-> 0]
    /\ turn = [a \in Agents |-> IdleTurn]
    /\ answer = [a \in Agents |-> "none"]
    /\ attach = [r \in Replicas |-> "none"]
    /\ inbox = [r \in Replicas |-> <<>>]
    /\ conn = [r \in Replicas |-> [pc |-> "off", k |-> 0]]
    /\ call = [x \in Replicas \cup Posters |-> NoCall]
    /\ wake = [r \in Replicas |-> Asleep]
    /\ asks = 0 /\ answers = 0 /\ wakeups = 0 /\ faults = 0 /\ turns = 0
    /\ shown = {} /\ ran = [k \in Asked |-> 0] /\ approvals = [k \in Asked |-> 0] /\ calm = TRUE

-----------------------------------------------------------------------------
(* The agent's turn.                                                       *)

LeaseIsFree == \A a \in Agents : turn[a].pc = "idle"

\* ReplyStream: a suspended runtime state makes this turn a resumed one, which
\* asks again at once.
Begun(k) ==
    IF k # 0 THEN [pc |-> "asked", k |-> k, resumed |-> TRUE, cancelled |-> FALSE]
             ELSE [IdleTurn EXCEPT !.pc = "thinking"]

\* The channels between agent and handler: a connection that has given up this
\* stream may still be handed an event its forwarder was sending.
Emit(a, event) ==
    IF a = Own(a[1])
    THEN \E taken \in BOOLEAN :
            /\ attach[a[1]] = "live" => taken
            /\ attach[a[1]] = "none" => ~taken
            /\ inbox' = IF taken THEN [inbox EXCEPT ![a[1]] = Append(@, event)] ELSE inbox
    ELSE UNCHANGED inbox

\* executeToolsStream: a call needs confirmation.  The event goes out first.
Ask(a) ==
    /\ turn[a].pc = "thinking" /\ asks < MaxAsks
    /\ asks' = asks + 1
    /\ turn' = [turn EXCEPT ![a].pc = "asked", ![a].k = asks']
    /\ Emit(a, [is |-> "ask", k |-> asks'])
    /\ UNCHANGED <<snap, parked, answer, attach, conn, call, wake, answers, wakeups, faults, turns, history>>

\* SuspendedAt and WaitConfirmID are set after it.
Park(a) ==
    /\ turn[a].pc = "asked" /\ ~turn[a].resumed
    /\ parked' = [parked EXCEPT ![a] = turn[a].k]
    /\ turn' = [turn EXCEPT ![a].pc = "parked"]
    /\ UNCHANGED <<snap, answer, attach, inbox, conn, call, wake, bounds, history>>

\* waitForExternalEvent registers the waiter.
Wait(a) ==
    /\ turn[a].pc = IF turn[a].resumed THEN "asked" ELSE "parked"
    /\ turn' = [turn EXCEPT ![a].pc = "waiting"]
    /\ answer' = [answer EXCEPT ![a] = "none"]
    /\ UNCHANGED <<snap, parked, attach, inbox, conn, call, wake, bounds, history>>

\* Mutant: a call without a decision is approved.
ApprovedUnlessDenied(a) == answer[a] # "deny"

\* applyConfirmDecisions: a call without a decision is denied.
Approved(a) == answer[a] = "approve"

\* A resumed turn that is denied returns before it clears the suspended state.
Decide(a) ==
    /\ turn[a].pc = "waiting" /\ answer[a] # "none"
    /\ parked' = IF turn[a].resumed /\ ~Approved(a) THEN parked ELSE [parked EXCEPT ![a] = 0]
    /\ ran' = IF Approved(a) THEN [ran EXCEPT ![turn[a].k] = @ + 1] ELSE ran
    /\ turn' = [turn EXCEPT ![a].pc = IF turn[a].resumed THEN "ending" ELSE "thinking"]
    /\ answer' = [answer EXCEPT ![a] = "none"]
    /\ UNCHANGED <<snap, attach, inbox, conn, call, wake, bounds, shown, approvals, calm>>

\* The final answer, an error, or a cancelled context; the suspended state stays.
Finish(a) ==
    /\ turn[a].pc = "thinking" \/ turn[a].cancelled
    /\ turn[a].pc \notin {"idle", "ending", "closing"}
    /\ turn' = [turn EXCEPT ![a].pc = "ending"]
    /\ UNCHANGED <<snap, parked, answer, attach, inbox, conn, call, wake, bounds, history>>

\* ReplyEnd; then the stream closes and the lease is given back.
End(a) ==
    /\ turn[a].pc = "ending"
    /\ Emit(a, [is |-> "end", k |-> 0])
    /\ turn' = [turn EXCEPT ![a].pc = "closing"]
    /\ UNCHANGED <<snap, parked, answer, attach, conn, call, wake, bounds, history>>

Unlock(a) ==
    /\ turn[a].pc = "closing"
    /\ turn' = [turn EXCEPT ![a] = IdleTurn]
    /\ UNCHANGED <<snap, parked, answer, attach, inbox, conn, call, wake, bounds, history>>

-----------------------------------------------------------------------------
(* The WebSocket handler.                                                  *)

Connect(r) ==
    /\ r \in Fronts /\ conn[r].pc = "off"
    /\ conn' = [conn EXCEPT ![r] = [pc |-> "start", k |-> 0]]
    /\ calm' = (calm /\ \A q \in Replicas : conn[q].pc = "off")
    /\ UNCHANGED <<snap, parked, turn, answer, attach, inbox, call, wake, bounds, shown, ran, approvals>>

\* startStream: the old stream is cancelled; a busy session gives an error frame
\* and no stream, and the handler goes on to wait for events either way.
StartStream(r, k) ==
    /\ conn' = [conn EXCEPT ![r] = [pc |-> "stream", k |-> 0]]
    /\ IF LeaseIsFree
       THEN /\ turns < MaxTurns /\ turns' = turns + 1
            /\ turn' = [turn EXCEPT ![Own(r)] = Begun(k)]
            /\ attach' = [attach EXCEPT ![r] = "live"]
            /\ inbox' = [inbox EXCEPT ![r] = IF k # 0 THEN <<[is |-> "ask", k |-> k]>> ELSE <<>>]
       ELSE /\ turn' = [turn EXCEPT ![Own(r)].cancelled = @ \/ attach[r] = "live"]
            /\ attach' = [attach EXCEPT ![r] = IF @ = "live" THEN "cut" ELSE @]
            /\ inbox' = [inbox EXCEPT ![r] = <<>>]
            /\ UNCHANGED turns

\* HasPendingSnapshot.
Look(r) ==
    /\ conn[r].pc = "start"
    /\ conn' = [conn EXCEPT ![r].pc = IF snap.stored /\ snap.k # 0 THEN "load" ELSE "chat"]
    /\ UNCHANGED <<snap, parked, turn, answer, attach, inbox, call, wake, bounds, history>>

\* LoadSnapshot, and the stream the loaded state turns into a resumed one.
Reconnect(r) ==
    /\ conn[r].pc = "load"
    /\ IF snap.stored
       THEN /\ parked' = [parked EXCEPT ![Own(r)] = snap.k]
            /\ StartStream(r, snap.k)
       ELSE /\ conn' = [conn EXCEPT ![r].pc = "chat"]
            /\ UNCHANGED <<parked, turn, attach, inbox, turns>>
    /\ UNCHANGED <<snap, answer, call, wake, asks, answers, wakeups, faults, history>>

Chat(r) ==
    /\ conn[r].pc = "chat"
    /\ StartStream(r, parked[Own(r)])
    /\ UNCHANGED <<snap, parked, answer, call, wake, asks, answers, wakeups, faults, history>>

\* SaveSnapshot stores the agent's state of now, without a command.
Show(r) ==
    /\ conn[r].pc = "stream" /\ inbox[r] # <<>> /\ Head(inbox[r]).is = "ask"
    /\ snap' = [stored |-> TRUE, k |-> parked[Own(r)], command |-> 0]
    /\ conn' = [conn EXCEPT ![r] = [pc |-> "shown", k |-> Head(inbox[r]).k]]
    /\ inbox' = [inbox EXCEPT ![r] = Tail(@)]
    /\ shown' = shown \cup {Head(inbox[r]).k}
    /\ UNCHANGED <<parked, turn, answer, attach, call, wake, bounds, ran, approvals, calm>>

\* ReplyEnd deletes the snapshot, whoever's it is.
ShowEnd(r) ==
    /\ conn[r].pc = "stream" /\ inbox[r] # <<>> /\ Head(inbox[r]).is = "end"
    /\ snap' = NoSnap
    /\ conn' = [conn EXCEPT ![r] = [pc |-> "start", k |-> 0]]
    /\ inbox' = [inbox EXCEPT ![r] = Tail(@)]
    /\ UNCHANGED <<parked, turn, answer, attach, call, wake, bounds, history>>

\* A chat message while suspended drops the snapshot and starts afresh.
ChatInstead(r) ==
    /\ conn[r].pc = "shown" /\ call[r].pc = "idle"
    /\ snap' = NoSnap
    /\ StartStream(r, parked[Own(r)])
    /\ UNCHANGED <<parked, answer, call, wake, asks, answers, wakeups, faults, history>>

\* The client is gone: noticed when the handler reads or writes.
Drop(r) ==
    /\ faults < MaxFaults /\ faults' = faults + 1 /\ calm' = FALSE
    /\ \/ conn[r].pc \in {"chat", "shown"} /\ call[r].pc = "idle"
       \/ conn[r].pc = "stream" /\ inbox[r] # <<>>
    /\ conn' = [conn EXCEPT ![r] = [pc |-> "off", k |-> 0]]
    /\ inbox' = [inbox EXCEPT ![r] = <<>>]
    /\ turn' = [turn EXCEPT ![Own(r)].cancelled = @ \/ attach[r] = "live"]
    /\ attach' = [attach EXCEPT ![r] = "none"]
    /\ UNCHANGED <<snap, parked, answer, call, wake, asks, answers, wakeups, turns, shown, ran, approvals>>

-----------------------------------------------------------------------------
(* SessionStateManager.Resume.                                             *)

Answering(x, r, k) ==
    /\ answers < MaxAnswers /\ answers' = answers + 1
    /\ \E approve \in BOOLEAN :
          /\ call' = [call EXCEPT ![x] = [NoCall EXCEPT !.pc = "read", !.at = r, !.k = k,
                                                        !.approve = approve]]
          /\ approvals' = [approvals EXCEPT ![k] = IF approve THEN @ + 1 ELSE @]
    /\ calm' = (calm /\ x \in Replicas)
    /\ UNCHANGED <<snap, parked, turn, answer, attach, inbox, conn, wake, asks, wakeups, faults, turns,
                   shown, ran>>

\* The connection's client answers the request it was shown.
Reply(r) ==
    /\ conn[r].pc = "shown" /\ call[r].pc = "idle"
    /\ Answering(r, r, conn[r].k)

\* POST /v2/resume, at any replica, for any request a client has seen.
Post(x, r) ==
    /\ call[x].pc = "idle"
    /\ \E k \in shown : Answering(x, r, k)

Calling(x, pc) == call[x].pc = pc
Proceed(x, pc) == call' = [call EXCEPT ![x].pc = pc]

\* The handler reports the outcome: a connection shows the request again after
\* an error; a command nobody here waits for is announced by a wakeup.
Return(x, ok) ==
    /\ call' = [call EXCEPT ![x] = NoCall]
    /\ conn' = IF x \in Replicas /\ ok THEN [conn EXCEPT ![x] = [pc |-> "stream", k |-> 0]]
               ELSE conn

\* A command that is executing refuses its repetition.
Read(x) ==
    /\ Calling(x, "read")
    /\ IF snap.stored /\ snap.command = call[x].k
       THEN Return(x, FALSE)
       ELSE /\ call' = [call EXCEPT ![x].pc = IF snap.stored /\ snap.k # 0 THEN "load" ELSE "inject",
                                    ![x].seen = snap]
            /\ UNCHANGED conn
    /\ UNCHANGED <<snap, parked, turn, answer, attach, inbox, wake, bounds, history>>

\* LoadSnapshot reads again, and puts the state into the agent, running or not.
Load(x) ==
    /\ Calling(x, "load")
    /\ IF snap.stored
       THEN /\ parked' = [parked EXCEPT ![Own(call[x].at)] = snap.k]
            /\ Proceed(x, "save") /\ UNCHANGED conn
       ELSE Return(x, FALSE) /\ UNCHANGED parked
    /\ UNCHANGED <<snap, turn, answer, attach, inbox, wake, bounds, history>>

\* The snapshot as it was first read, with the command, already executing.
Save(x) ==
    /\ Calling(x, "save")
    /\ snap' = [call[x].seen EXCEPT !.command = call[x].k]
    /\ Proceed(x, "inject")
    /\ UNCHANGED <<parked, turn, answer, attach, inbox, conn, wake, bounds, history>>

\* signalWaiter: the channel takes one answer; a second one waits for its place
\* and ends as an error or in a channel nobody reads any more.
Inject(x) ==
    /\ Calling(x, "inject")
    /\ LET a == Own(call[x].at) IN
       IF turn[a].pc = "waiting" /\ turn[a].k = call[x].k
       THEN IF answer[a] = "none"
            THEN /\ answer' = [answer EXCEPT ![a] = IF call[x].approve THEN "approve" ELSE "deny"]
                 /\ Return(x, TRUE)
            ELSE /\ UNCHANGED answer
                 /\ \E ok \in BOOLEAN : Return(x, ok)
       ELSE UNCHANGED answer /\ Return(x, FALSE)
    /\ UNCHANGED <<snap, parked, turn, attach, inbox, wake, bounds, history>>

-----------------------------------------------------------------------------
(* The wakeup dispatcher.                                                  *)

\* A wakeup, for an undelivered command or a team message, reaches an idle
\* session; without a command the inbox is drained instead.
Wakeup(r) ==
    /\ wakeups < MaxWakeups /\ wakeups' = wakeups + 1
    /\ wake[r].pc = "idle" /\ turn[Own(r)].pc = "idle" /\ turn[Woken(r)].pc = "idle"
    /\ snap.stored /\ snap.k # 0 /\ snap.command # 0
    /\ wake' = [wake EXCEPT ![r] = [pc |-> "start", k |-> snap.k, command |-> snap.command]]
    /\ UNCHANGED <<snap, parked, turn, answer, attach, inbox, conn, call, asks, answers, faults, turns, history>>

\* A fresh agent with the snapshot's state; startTurn retries while busy.
StartResumed(r) ==
    /\ wake[r].pc = "start" /\ LeaseIsFree /\ turns < MaxTurns /\ turns' = turns + 1
    /\ parked' = [parked EXCEPT ![Woken(r)] = wake[r].k]
    /\ turn' = [turn EXCEPT ![Woken(r)] = Begun(wake[r].k)]
    /\ wake' = [wake EXCEPT ![r].pc = "deliver"]
    /\ UNCHANGED <<snap, answer, attach, inbox, conn, call, asks, answers, wakeups, faults, history>>

\* Mutant: the stored command is delivered as the approval it was.
DeliverApproval(r) ==
    /\ wake[r].pc = "deliver"
    /\ turn[Woken(r)].pc = "waiting" /\ turn[Woken(r)].k = wake[r].command
    /\ answer' = [answer EXCEPT ![Woken(r)] = "approve"]
    /\ wake' = [wake EXCEPT ![r].pc = "collect"]
    /\ UNCHANGED <<snap, parked, turn, attach, inbox, conn, call, bounds, history>>

\* The stored command carries no decisions.
Deliver(r) ==
    /\ wake[r].pc = "deliver"
    /\ turn[Woken(r)].pc = "waiting" /\ turn[Woken(r)].k = wake[r].command
    /\ answer' = [answer EXCEPT ![Woken(r)] = "undecided"]
    /\ wake' = [wake EXCEPT ![r].pc = "collect"]
    /\ UNCHANGED <<snap, parked, turn, attach, inbox, conn, call, bounds, history>>

\* startTurn's or the injector's deadline, or the session stays busy.
StopTrying(r) ==
    /\ wake[r].pc \in {"start", "deliver"}
    /\ wake' = [wake EXCEPT ![r] = IF @.pc = "start" THEN Asleep ELSE [@ EXCEPT !.pc = "collect"]]
    /\ UNCHANGED <<snap, parked, turn, answer, attach, inbox, conn, call, bounds, history>>

\* The stream is over: the snapshot is deleted.
Collect(r) ==
    /\ wake[r].pc \in {"deliver", "collect"} /\ turn[Woken(r)].pc = "idle"
    /\ snap' = NoSnap
    /\ wake' = [wake EXCEPT ![r] = Asleep]
    /\ UNCHANGED <<parked, turn, answer, attach, inbox, conn, call, bounds, history>>

-----------------------------------------------------------------------------

\* The process ends; its leases run out, the storage stays.
Crash(r) ==
    /\ faults < MaxFaults /\ faults' = faults + 1 /\ calm' = FALSE
    /\ parked' = [a \in Agents |-> IF a[1] = r THEN 0 ELSE parked[a]]
    /\ turn' = [a \in Agents |-> IF a[1] = r THEN IdleTurn ELSE turn[a]]
    /\ answer' = [a \in Agents |-> IF a[1] = r THEN "none" ELSE answer[a]]
    /\ attach' = [attach EXCEPT ![r] = "none"]
    /\ inbox' = [inbox EXCEPT ![r] = <<>>]
    /\ conn' = [conn EXCEPT ![r] = [pc |-> "off", k |-> 0]]
    /\ call' = [x \in DOMAIN call |-> IF x = r \/ call[x].at = r THEN NoCall ELSE call[x]]
    /\ wake' = [wake EXCEPT ![r] = Asleep]
    /\ UNCHANGED <<snap, asks, answers, wakeups, turns, shown, ran, approvals>>

Next ==
    \/ \E a \in Agents : Ask(a) \/ Park(a) \/ Wait(a) \/ Decide(a) \/ Finish(a) \/ End(a) \/ Unlock(a)
    \/ \E r \in Replicas :
          \/ Connect(r) \/ Look(r) \/ Reconnect(r) \/ Chat(r) \/ Show(r) \/ ShowEnd(r)
          \/ ChatInstead(r) \/ Drop(r) \/ Reply(r) \/ (\E x \in Posters : Post(x, r))
          \/ Wakeup(r) \/ StartResumed(r) \/ Deliver(r) \/ StopTrying(r) \/ Collect(r) \/ Crash(r)
    \/ \E x \in Replicas \cup Posters : Read(x) \/ Load(x) \/ Save(x) \/ Inject(x)

Spec == Init /\ [][Next]_vars

-----------------------------------------------------------------------------
(* Properties.                                                             *)

\* Tools behind a request never run more often than a client approved it: not
\* after a crash, a reconnect, a repeated answer or a stored command delivered
\* by the dispatcher (reply_stream.go applyConfirmDecisions, dispatcher.go).
RanOnlyApproved == \A k \in Asked : ran[k] <= approvals[k]

\* Over one connection that lasts, and answers itself, the tools behind a request
\* run at most once, although another replica's dispatcher may take up the stored
\* command again after the turn is over and before ReplyEnd deletes the snapshot
\* (ws.go 397-456, dispatcher.go 279-330).
CalmRunsOnce == calm => \A k \in Asked : ran[k] <= 1

\* session_state.go:98: "the resumed tool runs at most once".  A reconnect
\* saves the snapshot anew, without the command that would refuse a repetition.
RunsAtMostOnce == \A k \in Asked : ran[k] <= 1

\* session_state.go:127: "a crash between persist and delivery leaves a
\* retryable pending command".  The command is stored as executing, and a turn
\* that waits for its answer may never get it.
CommandWasDelivered ==
    \A a \in Agents : turn[a].pc = "waiting" /\ turn[a].k = snap.command /\ ~turn[a].cancelled =>
        answer[a] # "none" \/ \E x \in DOMAIN call : call[x].pc = "inject" \/ wake[a[1]].pc = "deliver"

\* ws.go:333: busy "is flagged in the error payload so clients can react
\* (retry/subscribe)".  The handler waits for events of no stream instead.
BusyClientIsHeard ==
    \A r \in Replicas : conn[r].pc = "stream" => attach[r] = "live" \/ inbox[r] # <<>>
=============================================================================
