----------------------------- MODULE ReActTurn -----------------------------
(***************************************************************************)
(* The turns of one ReActAgent (src/agent/react, src/agent/base.go): the   *)
(* reasoning loop, a goroutine per tool call, the confirmation wait, and   *)
(* what callers do from outside: Steer, Interrupt, Shutdown, and the       *)
(* cancelling of a turn's context.  Turns come one after the other, as     *)
(* SessionManager's agent mutex has it, and share the agent's steer queue, *)
(* interrupt flag, suspended state and permission engine.                  *)
(* Tool calls are numbered by their place in the response, all of one      *)
(* tool; confirm requests are numbered, 0 is none.  Events are drained.    *)
(***************************************************************************)
EXTENDS Naturals, Sequences, SequencesExt

CONSTANTS
    MaxTurns,           \* bound: turns, numbered as they begin
    MaxCalls,           \* bound: tool calls in a response
    MaxIters,           \* maxIterations
    Threshold,          \* maxConsecutiveToolFailures
    MaxAsks,            \* bound: confirm requests
    MaxSteers,          \* bound: steered messages
    MaxInterrupts       \* bound: interrupts

ASSUME ReActAssumption ==
    /\ MaxIters \in Nat \ {0} /\ Threshold \in Nat \ {0}
    /\ {MaxTurns, MaxCalls, MaxAsks, MaxSteers, MaxInterrupts} \subseteq Nat

VARIABLES
    turn,               \* turn[t]: the loop goroutine of turn t
    work,               \* work[t][c]: the goroutine of its tool call c
    stream,             \* stream[t]: what its events have opened so far
    steers,             \* steerQueue: the number of messages in it
    active,             \* activeTurns
    interrupted,        \* interruptFlag
    running,            \* CallWg
    shutdown,           \* Closed, and Shutdown's wait
    runtime,            \* runtimeState: the suspended request, the last calls
    waiter,             \* waiter[k]: the turn whose channel is filed under k
    engine,             \* is the permissionEngine there
    asks, steered, interrupts,      \* bounds
    late,               \* history: model calls and batches begun while interrupted
    last                \* history: the turn's last Threshold tool outcomes

loop == <<turn, work, stream>>
callers == <<steers, active, interrupted, running, shutdown>>
held == <<runtime, waiter, engine>>
bounds == <<asks, steered, interrupts>>
history == <<late, last>>
vars == <<loop, callers, held, bounds, history>>

Turns == 1..MaxTurns
None == 0           \* no turn
Calls == 1..MaxCalls
Fresh == [pc |-> "idle", iter |-> 0, resumed |-> FALSE, k |-> 0, calls |-> {},
          fails |-> 0, checked |-> FALSE, saved |-> TRUE, cancelled |-> FALSE]
Silent == [is |-> "silent", results |-> {}, fits |-> TRUE]

\* A new agent, or one that a suspended state was loaded into.
Init ==
    /\ turn = [t \in Turns |-> Fresh]
    /\ work = [t \in Turns |-> [c \in Calls |-> "none"]]
    /\ stream = [t \in Turns |-> Silent]
    /\ steers = 0 /\ active = 0 /\ interrupted = FALSE /\ running = 0 /\ shutdown = "no"
    /\ \E k \in {0, 1} \cap 0..MaxAsks :
          asks = k /\ runtime = [k |-> k, calls |-> IF k = 0 THEN {} ELSE Calls]
    /\ waiter = [k \in 0..MaxAsks |-> None]
    /\ engine = TRUE
    /\ steered = 0 /\ interrupts = 0
    /\ late = [t \in Turns |-> 0]
    /\ last = [t \in Turns |-> <<>>]

Go(t, pc) == turn' = [turn EXCEPT ![t].pc = pc]
At(t, pc) == turn[t].pc = pc

-----------------------------------------------------------------------------
(* The event stream: what an event opens or closes, and whether it fits.   *)

Says(s) == [s EXCEPT !.fits = @ /\ s.is = "open"]
Opens(s, c) == [Says(s) EXCEPT !.results = @ \cup {c}, !.fits = @ /\ c \notin s.results]
Closes(s, c) == [Says(s) EXCEPT !.results = @ \ {c}, !.fits = @ /\ c \in s.results]
\* A model call, a confirm request and ReplyEnd find no result open.
Settles(s) == [Says(s) EXCEPT !.fits = @ /\ s.results = {}]
Starts(s) == [s EXCEPT !.is = "open", !.fits = @ /\ s.is = "silent"]
Ends(s) == [Settles(s) EXCEPT !.is = "over"]

Emit(t, s) == stream' = [stream EXCEPT ![t] = s]

-----------------------------------------------------------------------------
(* Beginning and ending a turn.                                            *)

\* ReplyStream: refused once closed.
ReplyStream(t) ==
    /\ At(t, "idle") /\ shutdown = "no" /\ \A u \in 1..(t - 1) : At(u, "over")
    /\ Go(t, "admitted")
    /\ UNCHANGED <<work, stream, callers, held, bounds, history>>

\* bumpActive, before the loop goroutine is spawned.
BumpActive(t) ==
    /\ At(t, "admitted")
    /\ active' = active + 1
    /\ Go(t, "bumped")
    /\ UNCHANGED <<work, stream, steers, interrupted, running, shutdown, held, bounds, history>>

\* A suspended state makes the turn a resumed one; a fresh one replaces it.
Open(t) ==
    /\ At(t, "bumped")
    /\ turn' = [turn EXCEPT ![t].pc = "open", ![t].resumed = runtime.k # 0]
    /\ runtime' = IF runtime.k # 0 THEN runtime ELSE [k |-> 0, calls |-> {}]
    /\ Emit(t, Starts(stream[t]))
    /\ UNCHANGED <<work, callers, waiter, engine, bounds, history>>

\* CallWg.Add and ResetInterrupt.  A resumed turn restores the calls, which were
\* checked before it was suspended, and asks again; else a pre-call hook may end it.
Enter(t) ==
    /\ At(t, "open")
    /\ running' = running + 1
    /\ interrupted' = FALSE
    /\ late' = [u \in Turns |-> 0]
    /\ \/ /\ turn[t].resumed /\ runtime.calls # {}
          /\ turn' = [turn EXCEPT ![t].pc = "asked", ![t].k = runtime.k,
                                  ![t].calls = runtime.calls, ![t].checked = TRUE]
          /\ Emit(t, Settles(stream[t]))
       \/ ~turn[t].resumed /\ Go(t, "top") /\ UNCHANGED stream
       \/ (turn[t].resumed => runtime.calls = {}) /\ Go(t, "leaving") /\ UNCHANGED stream
    /\ UNCHANGED <<work, steers, active, shutdown, held, bounds, last>>

\* The deferred CallWg.Done.
Leave(t) ==
    /\ At(t, "leaving")
    /\ running' = running - 1
    /\ Go(t, "left")
    /\ UNCHANGED <<work, stream, steers, active, interrupted, shutdown, held, bounds, history>>

\* A final response takes the place of the last saved message; the error event,
\* if there is one, and the deferred ReplyEnd.
Finish(t) ==
    /\ At(t, "left")
    /\ runtime' \in IF turn[t].resumed THEN {runtime} ELSE {runtime, [runtime EXCEPT !.calls = {}]}
    /\ Emit(t, Ends(Says(stream[t])))
    /\ Go(t, "ended")
    /\ UNCHANGED <<work, callers, waiter, engine, bounds, history>>

\* Nothing of the turn but its stream is looked at any more.
Retire(t) ==
    /\ At(t, "ended")
    /\ active' = active - 1
    /\ turn' = [turn EXCEPT ![t] = [Fresh EXCEPT !.pc = "over"]]
    /\ late' = [late EXCEPT ![t] = 0] /\ last' = [last EXCEPT ![t] = <<>>]
    /\ UNCHANGED <<work, stream, steers, interrupted, running, shutdown, held, bounds>>

-----------------------------------------------------------------------------
(* The reasoning loop.                                                     *)

\* Mutant: the next iteration is not counted.
AgainUncounted(r) == [r EXCEPT !.pc = "top"]

\* The next iteration, or ExceedMaxIters.
Again(r) == [r EXCEPT !.iter = @ + 1, !.pc = IF r.iter + 1 < MaxIters THEN "top" ELSE "leaving"]

\* A cancelled turn leaves; the steer queue is drained before the loop guard.
Drain(t) ==
    /\ At(t, "top")
    /\ \/ turn[t].cancelled /\ Go(t, "leaving") /\ UNCHANGED steers
       \/ ~turn[t].cancelled /\ Go(t, "guard") /\ steers' = 0
    /\ UNCHANGED <<work, stream, active, interrupted, running, shutdown, held, bounds, history>>

\* Mutant: a shut down agent's turn goes on.
MustStopUnlessClosed == interrupted

\* Mutant: an interrupt is left to the model call.
MustStopIfClosed == shutdown # "no"

\* loopGuard.
MustStop == interrupted \/ shutdown # "no"

\* The guard, the saved history, and the before-model hooks, which may end it.
Guard(t) ==
    /\ At(t, "guard")
    /\ \/ MustStop /\ Go(t, "leaving") /\ UNCHANGED runtime
       \/ /\ ~MustStop
          /\ runtime' = [runtime EXCEPT !.calls = turn[t].calls]
          /\ Go(t, "ready") \/ Go(t, "leaving")
    /\ UNCHANGED <<work, stream, callers, waiter, engine, bounds, history>>

Count(t) == late' = IF interrupted THEN [late EXCEPT ![t] = @ + 1] ELSE late

\* runModelStream begins, unless a stream hook refuses.
CallModel(t) ==
    /\ At(t, "ready")
    /\ \/ Go(t, "calling") /\ Emit(t, Settles(stream[t])) /\ Count(t)
       \/ Go(t, "leaving") /\ UNCHANGED <<stream, late>>
    /\ UNCHANGED <<work, callers, held, bounds, last>>

\* The stream's end, or an error or an empty response.
ModelAnswers(t) ==
    /\ At(t, "calling")
    /\ \/ \E S \in SUBSET Calls :
             turn' = [turn EXCEPT ![t].pc = "answered", ![t].calls = S, ![t].checked = FALSE]
       \/ Go(t, "leaving")
    /\ Emit(t, Says(stream[t]))
    /\ UNCHANGED <<work, callers, held, bounds, history>>

\* A chunk finds the turn cancelled or interrupted.
ModelAborts(t) ==
    /\ At(t, "calling") /\ (turn[t].cancelled \/ interrupted)
    /\ Go(t, "leaving")
    /\ UNCHANGED <<work, stream, callers, held, bounds, history>>

\* A resumed turn's answer is final; else an interrupt or an after-model hook may
\* end the turn or go back to reasoning, and the response is saved.  A response
\* without calls is final, unless it only thinks.
Examine(t) ==
    /\ At(t, "answered")
    /\ \/ Go(t, "leaving") /\ runtime' \in {runtime, [runtime EXCEPT !.calls = turn[t].calls]}
       \/ /\ ~turn[t].resumed /\ ~interrupted
          /\ turn' = [turn EXCEPT ![t] = Again(@)] /\ UNCHANGED runtime
       \/ /\ ~turn[t].resumed /\ ~interrupted
          /\ Go(t, "act") /\ runtime' = [runtime EXCEPT !.calls = turn[t].calls]
    /\ UNCHANGED <<work, stream, callers, waiter, engine, bounds, history>>

-----------------------------------------------------------------------------
(* executeToolsStream.                                                     *)

\* The second guard; then the permission engine, if there is one, denies a call
\* (or fails), allows them all, or asks.
Act(t) ==
    /\ At(t, "act")
    /\ \/ (MustStop \/ (engine /\ turn[t].calls # {})) /\ Go(t, "leaving") /\ UNCHANGED <<stream, asks>>
       \/ /\ ~MustStop
          /\ turn' = [turn EXCEPT ![t].pc = "execute", ![t].checked = engine]
          /\ UNCHANGED <<stream, asks>>
       \/ /\ ~MustStop /\ engine /\ turn[t].calls # {} /\ asks < MaxAsks
          /\ asks' = asks + 1
          /\ turn' = [turn EXCEPT ![t].pc = "asked", ![t].k = asks', ![t].checked = TRUE]
          /\ Emit(t, Settles(stream[t]))
    /\ UNCHANGED <<work, callers, held, steered, interrupts, history>>

\* The suspended state is set after the event has gone out, and the channel filed.
Park(t) ==
    /\ At(t, "asked")
    /\ runtime' = IF turn[t].resumed THEN runtime ELSE [runtime EXCEPT !.k = turn[t].k]
    /\ waiter' = [waiter EXCEPT ![turn[t].k] = t]
    /\ Go(t, "waiting")
    /\ UNCHANGED <<work, stream, callers, engine, bounds, history>>

\* InjectEvent and applyConfirmDecisions: calls without an approval are dropped,
\* those the engine allowed too.  A resumed turn whose calls are all denied ends,
\* still suspended; one that goes on takes the engine away.
Answer(t) ==
    /\ At(t, "waiting") /\ waiter[turn[t].k] = t /\ turn[t].k # 0
    /\ waiter' = [waiter EXCEPT ![turn[t].k] = None]
    /\ \E A \in SUBSET turn[t].calls :
          \/ /\ A = {} /\ turn[t].resumed
             /\ Go(t, "leaving") /\ UNCHANGED <<runtime, engine>>
          \/ /\ A = {} /\ ~turn[t].resumed
             /\ turn' = [turn EXCEPT ![t] = Again(@)]
             /\ runtime' = [runtime EXCEPT !.k = 0] /\ UNCHANGED engine
          \/ /\ A # {}
             /\ turn' = [turn EXCEPT ![t].pc = "execute", ![t].calls = A, ![t].saved = engine]
             /\ runtime' = [runtime EXCEPT !.k = 0]
             /\ engine' = IF turn[t].resumed THEN FALSE ELSE engine
    /\ UNCHANGED <<work, stream, callers, bounds, history>>

\* The context ends first; the deferred delete takes whatever is filed under k.
GiveUp(t) ==
    /\ At(t, "waiting") /\ turn[t].cancelled
    /\ waiter' = [waiter EXCEPT ![turn[t].k] = None]
    /\ Go(t, "leaving")
    /\ UNCHANGED <<work, stream, callers, runtime, engine, bounds, history>>

\* A goroutine per call.
Execute(t) ==
    /\ At(t, "execute")
    /\ work' = [work EXCEPT ![t] = [c \in Calls |-> IF c \in turn[t].calls THEN "spawned" ELSE "none"]]
    /\ Go(t, "batch") /\ Count(t)
    /\ UNCHANGED <<stream, callers, held, bounds, last>>

\* The before-tool hook lets the call run, fails, or ends the turn.
BeforeTool(t, c) ==
    /\ work[t][c] = "spawned"
    /\ \/ /\ work' = [work EXCEPT ![t][c] = "running"]
          /\ Emit(t, Opens(stream[t], c))
       \/ /\ work' = [work EXCEPT ![t][c] = "ended"]
          /\ UNCHANGED stream
    /\ UNCHANGED <<turn, callers, held, bounds, history>>

\* The result, an error or not; the after-tool hook may fail or end the turn.
AfterTool(t, c) ==
    /\ work[t][c] = "running"
    /\ \E end \in {"good", "bad", "ended"} : work' = [work EXCEPT ![t][c] = end]
    /\ Emit(t, Closes(stream[t], c))
    /\ UNCHANGED <<turn, callers, held, bounds, history>>

Settled(t) == \A c \in Calls : work[t][c] \notin {"spawned", "running"}
HookEnded(t) == \E c \in Calls : work[t][c] = "ended"

\* Mutant: the batch ends with the first hook that ends it.
JoinedEarly(t) == Settled(t) \/ HookEnded(t)

\* g.Wait.
Joined(t) == Settled(t)

Failed(t, c) == work[t][c] = "bad"

\* The calls in the order of the response: the i-th has i of them up to it.
InOrder(S) == [i \in 1..Cardinality(S) |-> CHOOSE c \in S : Cardinality({d \in S : d <= c}) = i]

\* Mutant: each iteration counts from nothing.
FailuresOfBatch(t) == Len(SelectSeq(InOrder(turn[t].calls), LAMBDA c : Failed(t, c)))

\* consecutiveFailureBreaker.update: a success resets the count.
Failures(t) ==
    LET Step(n, c) == IF Failed(t, c) THEN n + 1 ELSE 0
    IN  FoldLeft(Step, turn[t].fails, InOrder(turn[t].calls))

Outcomes(t) ==
    LET calls == InOrder(turn[t].calls)
        all == last[t] \o [i \in DOMAIN calls |-> Failed(t, calls[i])]
    IN  IF Len(all) <= Threshold THEN all ELSE SubSeq(all, Len(all) - Threshold + 1, Len(all))

\* Mutant: a resumed turn that is stopped leaves the engine out.
RestoredUnlessStopped(t) == IF turn[t].resumed /\ ~HookEnded(t) THEN turn[t].saved ELSE engine

\* A resumed turn puts back what it took away.
Restored(t) == IF turn[t].resumed THEN turn[t].saved ELSE engine

\* A hook ends the turn; a resumed turn makes one model call more; the breaker
\* trips; or the next iteration begins.
Join(t) ==
    /\ At(t, "batch") /\ Joined(t)
    /\ engine' = Restored(t)
    /\ LET r == [turn[t] EXCEPT !.fails = IF turn[t].resumed THEN 0 ELSE Failures(t)] IN
       turn' = [turn EXCEPT ![t] =
                   IF HookEnded(t) \/ r.fails >= Threshold THEN [r EXCEPT !.pc = "leaving"]
                   ELSE IF r.resumed THEN [r EXCEPT !.pc = "ready"]
                   ELSE Again(r)]
    /\ Emit(t, Says(stream[t]))
    /\ last' = [last EXCEPT ![t] = IF HookEnded(t) THEN @ ELSE Outcomes(t)]
    /\ work' = [work EXCEPT ![t] = [c \in Calls |-> IF Settled(t) THEN "none" ELSE @[c]]]
    /\ UNCHANGED <<callers, runtime, waiter, bounds, late>>

-----------------------------------------------------------------------------
(* The callers.                                                            *)

\* Steer: refused when no turn is active.
Steer ==
    /\ active > 0 /\ steered < MaxSteers
    /\ steered' = steered + 1 /\ steers' = steers + 1
    /\ UNCHANGED <<loop, active, interrupted, running, shutdown, held, asks, interrupts, history>>

\* Interrupt, from any goroutine.
Interrupt ==
    /\ interrupts < MaxInterrupts
    /\ interrupts' = interrupts + 1 /\ interrupted' = TRUE
    /\ UNCHANGED <<loop, steers, active, running, shutdown, held, asks, steered, history>>

\* The caller's context, or maxTurnDuration.
Cancel(t) ==
    /\ ~turn[t].cancelled /\ turn[t].pc \notin {"idle", "over"}
    /\ turn' = [turn EXCEPT ![t].cancelled = TRUE]
    /\ UNCHANGED <<work, stream, callers, held, bounds, history>>

\* Shutdown closes the agent, then waits for CallWg.
Shutdown ==
    /\ shutdown = "no"
    /\ shutdown' = "waiting"
    /\ UNCHANGED <<loop, steers, active, interrupted, running, held, bounds, history>>

ShutdownDone ==
    /\ shutdown = "waiting" /\ running = 0
    /\ shutdown' = "done"
    /\ UNCHANGED <<loop, steers, active, interrupted, running, held, bounds, history>>

Step(t) ==
    \/ BumpActive(t) \/ Open(t) \/ Enter(t) \/ Leave(t) \/ Finish(t) \/ Retire(t)
    \/ Drain(t) \/ Guard(t) \/ CallModel(t) \/ ModelAnswers(t) \/ ModelAborts(t) \/ Examine(t)
    \/ Act(t) \/ Park(t) \/ GiveUp(t) \/ Execute(t) \/ Join(t)

Tool(t, c) == BeforeTool(t, c) \/ AfterTool(t, c)

Next ==
    \/ \E t \in Turns :
          ReplyStream(t) \/ Step(t) \/ Answer(t) \/ Cancel(t) \/ \E c \in Calls : Tool(t, c)
    \/ Steer \/ Interrupt \/ Shutdown \/ ShutdownDone

\* Goroutines run, models and tools return, hooks too; answers may never come.
Fairness == \A t \in Turns : WF_vars(Step(t)) /\ \A c \in Calls : WF_vars(Tool(t, c))

Spec == Init /\ [][Next]_vars /\ Fairness

-----------------------------------------------------------------------------
(* Properties.                                                             *)

\* Every event a turn emits lies between its ReplyStart and its one ReplyEnd, and
\* model calls, confirm requests and ReplyEnd come when every tool result that was
\* begun is finished, whichever hook ended the batch (reply_stream.go 100-103,
\* 934-1091).
StreamFits == \A t \in Turns : stream[t].fits

\* Once Shutdown has returned no turn calls a model or runs a tool, even one that
\* was admitted before the agent was closed; resumed turns pass no loop guard and
\* are not covered (base.go Shutdown, react_shared.go loopGuard).
QuietAfterShutdown ==
    shutdown = "done" => \A t \in Turns : ~turn[t].resumed => turn[t].pc \notin {"calling", "batch"}

\* After an interrupt a turn begins at most the one model call or tool batch that
\* was past its checkpoint (base.go Interrupt, CheckInterrupted's callers).
InterruptTakesHold == \A t \in Turns : ~turn[t].resumed => late[t] <= 1

\* No tool runs whose call the permission engine did not evaluate, in its own turn
\* or in the one it resumes, whatever became of earlier resumed turns, which take
\* the engine away while they run (reply_stream.go 463-467).
EvaluatedBeforeRun ==
    \A t \in Turns, c \in Calls : work[t][c] = "running" => turn[t].checked

\* A turn never begins another model call after Threshold failures in a row,
\* across batches and iterations (react_agent.go consecutiveFailureBreaker).
RetryStormStops ==
    \A t \in Turns : At(t, "ready") /\ ~turn[t].resumed =>
        \/ Len(last[t]) < Threshold
        \/ \E i \in 1..Threshold : ~last[t][i]

\* The loop always comes to its end or to a wait for an answer: hooks, denials,
\* failures and interrupts never keep it going (reply_stream.go 214-373).
TurnsEnd == \A t \in Turns : []<>(turn[t].pc \in {"idle", "waiting", "over"})

\* react_agent.go:696: a steered message "is appended to history at the next loop
\* iteration, so the model sees it within the same turn".  One that comes in the
\* last iteration stays in the queue when the turn is over.
SteeredInItsTurn == active = 0 => steers = 0
=============================================================================
