--------------------------- MODULE ReActTurn_proof ---------------------------
(***************************************************************************)
(* Proofs about ReActTurn, for any number of turns, tool calls,            *)
(* iterations, confirm requests, interrupts and steered messages: tools    *)
(* run only after the permission engine has seen their calls, a shut down  *)
(* agent is quiet, an interrupt takes hold, the events of a turn fit, and  *)
(* failing tools end it.                                                   *)
(***************************************************************************)
EXTENDS ReActTurn, FiniteSetTheorems, SequenceTheorems, WellFoundedInduction, TLAPS

USE ReActAssumption DEF Turns, Calls, None

PCs == {"idle", "admitted", "bumped", "open", "top", "guard", "ready", "calling", "answered", "act",
        "asked", "waiting", "execute", "batch", "leaving", "left", "ended", "over"}

(* A turn's record; its calls and failures are looked at with the breaker.  *)
IsTurn(r) ==
    /\ DOMAIN r = {"pc", "iter", "resumed", "k", "calls", "fails", "checked", "saved", "cancelled"}
    /\ r.pc \in PCs /\ r.resumed \in BOOLEAN /\ r.checked \in BOOLEAN /\ r.saved \in BOOLEAN

Streams == [is : {"silent", "open", "over"}, results : SUBSET Calls, fits : BOOLEAN]

Types ==
    /\ DOMAIN turn = Turns /\ \A t \in Turns : IsTurn(turn[t])
    /\ work \in [Turns -> [Calls -> {"none", "spawned", "running", "good", "bad", "ended"}]]
    /\ stream \in [Turns -> Streams]
    /\ engine \in BOOLEAN /\ interrupted \in BOOLEAN /\ late \in [Turns -> Nat]

(* The other turns' records are not touched, and of its own a step changes *)
(* these fields only.                                                      *)
Sets(t, pc, resumed, checked, saved) ==
    /\ DOMAIN turn' = Turns /\ \A u \in Turns \ {t} : turn'[u] = turn[u]
    /\ IsTurn(turn'[t])
    /\ turn'[t].pc = pc /\ turn'[t].resumed = resumed
    /\ turn'[t].checked = checked /\ turn'[t].saved = saved

Moves(t, pc) == Sets(t, pc, turn[t].resumed, turn[t].checked, turn[t].saved)

(* A step that sets the place only.                                        *)
LEMMA GoMoves ==
    ASSUME Types, NEW t \in Turns, NEW pc \in PCs, Go(t, pc)
    PROVE  Moves(t, pc)
BY DEF Types, IsTurn, Go, Moves, Sets

(* The loop goes on, or has used up its iterations.                        *)
LEMMA AgainMoves ==
    ASSUME Types, NEW t \in Turns, NEW r, IsTurn(r), turn' = [turn EXCEPT ![t] = Again(r)]
    PROVE  \E pc \in {"top", "leaving"} : Sets(t, pc, r.resumed, r.checked, r.saved)
<1>1. PICK pc \in {"top", "leaving"} : Again(r) = [r EXCEPT !.iter = @ + 1, !.pc = pc]
  BY DEF Again
<1>2. IsTurn(Again(r)) /\ Again(r).pc = pc /\ Again(r).resumed = r.resumed
      /\ Again(r).checked = r.checked /\ Again(r).saved = r.saved
  BY <1>1 DEF IsTurn, PCs
<1> HIDE DEF Again
<1>3. turn'[t] = Again(r)
  BY DEF Types
<1> QED BY <1>2, <1>3 DEF Types, Sets

(* Where each step takes its turn.                                         *)
LEMMA Moved ==
    ASSUME Types, NEW t \in Turns
    PROVE  /\ ReplyStream(t) => Moves(t, "admitted")
           /\ BumpActive(t) => Moves(t, "bumped")
           /\ Open(t) => \E b \in BOOLEAN : Sets(t, "open", b, turn[t].checked, turn[t].saved)
           /\ Enter(t) => \/ turn[t].resumed /\ Sets(t, "asked", TRUE, TRUE, turn[t].saved)
                          \/ ~turn[t].resumed /\ Moves(t, "top")
                          \/ Moves(t, "leaving")
           /\ Leave(t) => Moves(t, "left")
           /\ Finish(t) => Moves(t, "ended")
           /\ Retire(t) => Sets(t, "over", FALSE, FALSE, TRUE)
           /\ Drain(t) => Moves(t, "leaving") \/ Moves(t, "guard")
           /\ Guard(t) => Moves(t, "leaving") \/ (~MustStop /\ Moves(t, "ready"))
           /\ CallModel(t) => \/ Moves(t, "calling") /\ Count(t)
                              \/ Moves(t, "leaving") /\ late' = late
           /\ ModelAnswers(t) => \/ Moves(t, "leaving")
                                 \/ Sets(t, "answered", turn[t].resumed, FALSE, turn[t].saved)
           /\ ModelAborts(t) => Moves(t, "leaving")
           /\ Examine(t) => \/ Moves(t, "leaving")
                            \/ /\ ~turn[t].resumed /\ ~interrupted
                               /\ Moves(t, "top") \/ Moves(t, "act")
           /\ Act(t) => \/ Moves(t, "leaving")
                        \/ ~MustStop /\ Sets(t, "execute", turn[t].resumed, engine, turn[t].saved)
                        \/ ~MustStop /\ Sets(t, "asked", turn[t].resumed, TRUE, turn[t].saved)
           /\ Park(t) => Moves(t, "waiting")
           /\ Answer(t) => \/ Moves(t, "leaving") /\ engine' = engine
                           \/ ~turn[t].resumed /\ Moves(t, "top") /\ engine' = engine
                           \/ /\ Sets(t, "execute", turn[t].resumed, turn[t].checked, engine)
                              /\ engine' = IF turn[t].resumed THEN FALSE ELSE engine
           /\ GiveUp(t) => Moves(t, "leaving")
           /\ Execute(t) => Moves(t, "batch")
           /\ Join(t) => \/ Moves(t, "leaving")
                         \/ turn[t].resumed /\ Moves(t, "ready")
                         \/ ~turn[t].resumed /\ Moves(t, "top")
           /\ Cancel(t) => Moves(t, turn[t].pc)
<1>0. IsTurn(turn[t]) /\ turn[t].pc \in PCs
  BY DEF Types, IsTurn
<1>1. /\ ReplyStream(t) => Moves(t, "admitted")
      /\ BumpActive(t) => Moves(t, "bumped")
      /\ Leave(t) => Moves(t, "left")
      /\ Finish(t) => Moves(t, "ended")
  BY GoMoves DEF ReplyStream, BumpActive, Leave, Finish, PCs
<1>2. ASSUME Open(t)
      PROVE  \E b \in BOOLEAN : Sets(t, "open", b, turn[t].checked, turn[t].saved)
  <2>1. PICK b \in BOOLEAN : turn' = [turn EXCEPT ![t].pc = "open", ![t].resumed = b]
    BY <1>2 DEF Open
  <2> QED BY <2>1 DEF Types, IsTurn, Sets, PCs
<1>3. ASSUME Enter(t)
      PROVE  \/ turn[t].resumed /\ Sets(t, "asked", TRUE, TRUE, turn[t].saved)
             \/ ~turn[t].resumed /\ Moves(t, "top")
             \/ Moves(t, "leaving")
  <2>1. ASSUME turn[t].resumed,
               turn' = [turn EXCEPT ![t].pc = "asked", ![t].k = runtime.k,
                                    ![t].calls = runtime.calls, ![t].checked = TRUE]
        PROVE  Sets(t, "asked", TRUE, TRUE, turn[t].saved)
    BY <2>1 DEF Types, IsTurn, Sets, PCs
  <2> QED BY <1>3, <2>1, GoMoves DEF Enter, PCs
<1>4. ASSUME Retire(t) PROVE Sets(t, "over", FALSE, FALSE, TRUE)
  BY <1>4 DEF Retire, Fresh, Types, IsTurn, Sets, PCs
<1>5. /\ Drain(t) => Moves(t, "leaving") \/ Moves(t, "guard")
      /\ Guard(t) => Moves(t, "leaving") \/ (~MustStop /\ Moves(t, "ready"))
      /\ CallModel(t) => \/ Moves(t, "calling") /\ Count(t)
                         \/ Moves(t, "leaving") /\ late' = late
      /\ ModelAborts(t) => Moves(t, "leaving")
      /\ GiveUp(t) => Moves(t, "leaving")
      /\ Park(t) => Moves(t, "waiting")
      /\ Execute(t) => Moves(t, "batch")
  BY GoMoves DEF Drain, Guard, CallModel, ModelAborts, GiveUp, Park, Execute, PCs
<1>6. ASSUME ModelAnswers(t)
      PROVE  \/ Moves(t, "leaving")
             \/ Sets(t, "answered", turn[t].resumed, FALSE, turn[t].saved)
  <2>1. ASSUME NEW S \in SUBSET Calls,
               turn' = [turn EXCEPT ![t].pc = "answered", ![t].calls = S, ![t].checked = FALSE]
        PROVE  Sets(t, "answered", turn[t].resumed, FALSE, turn[t].saved)
    BY <2>1 DEF Types, IsTurn, Sets, PCs
  <2> QED BY <1>6, <2>1, GoMoves DEF ModelAnswers, PCs
<1>7. ASSUME Examine(t)
      PROVE  \/ Moves(t, "leaving")
             \/ /\ ~turn[t].resumed /\ ~interrupted
                /\ Moves(t, "top") \/ Moves(t, "act")
  <2>1. CASE turn' = [turn EXCEPT ![t] = Again(@)]
    <3>1. PICK pc \in {"top", "leaving"} :
             Sets(t, pc, turn[t].resumed, turn[t].checked, turn[t].saved)
      BY <1>0, <2>1, AgainMoves
    <3>2. Moves(t, "leaving") \/ (Moves(t, "top") /\ ~turn[t].resumed /\ ~interrupted)
          \/ Go(t, "leaving") \/ Go(t, "act")
      BY <1>7, <3>1 DEF Examine, Moves
    <3> QED BY <1>7, <3>1, <3>2, GoMoves DEF Examine, Moves, PCs
  <2> QED BY <1>7, <2>1, GoMoves DEF Examine, PCs
<1>8. ASSUME Act(t)
      PROVE  \/ Moves(t, "leaving")
             \/ ~MustStop /\ Sets(t, "execute", turn[t].resumed, engine, turn[t].saved)
             \/ ~MustStop /\ Sets(t, "asked", turn[t].resumed, TRUE, turn[t].saved)
  <2>1. ASSUME turn' = [turn EXCEPT ![t].pc = "execute", ![t].checked = engine]
        PROVE  Sets(t, "execute", turn[t].resumed, engine, turn[t].saved)
    BY <2>1 DEF Types, IsTurn, Sets, PCs
  <2>2. ASSUME turn' = [turn EXCEPT ![t].pc = "asked", ![t].k = asks', ![t].checked = TRUE]
        PROVE  Sets(t, "asked", turn[t].resumed, TRUE, turn[t].saved)
    BY <2>2 DEF Types, IsTurn, Sets, PCs
  <2> QED BY <1>8, <2>1, <2>2, GoMoves DEF Act, PCs
<1>9. ASSUME Answer(t)
      PROVE  \/ Moves(t, "leaving") /\ engine' = engine
             \/ ~turn[t].resumed /\ Moves(t, "top") /\ engine' = engine
             \/ /\ Sets(t, "execute", turn[t].resumed, turn[t].checked, engine)
                /\ engine' = IF turn[t].resumed THEN FALSE ELSE engine
  <2>1. ASSUME NEW A \in SUBSET turn[t].calls,
               turn' = [turn EXCEPT ![t].pc = "execute", ![t].calls = A, ![t].saved = engine]
        PROVE  Sets(t, "execute", turn[t].resumed, turn[t].checked, engine)
    BY <2>1 DEF Types, IsTurn, Sets, PCs
  <2>2. ASSUME turn' = [turn EXCEPT ![t] = Again(@)]
        PROVE  Moves(t, "top") \/ Moves(t, "leaving")
    BY <1>0, <2>2, AgainMoves DEF Moves
  <2> QED BY <1>9, <2>1, <2>2, GoMoves DEF Answer, PCs
<1>10. ASSUME Join(t)
       PROVE  \/ Moves(t, "leaving")
              \/ turn[t].resumed /\ Moves(t, "ready")
              \/ ~turn[t].resumed /\ Moves(t, "top")
  <2>1. PICK n : LET r == [turn[t] EXCEPT !.fails = n] IN
           turn' = [turn EXCEPT ![t] =
                       IF HookEnded(t) \/ r.fails >= Threshold THEN [r EXCEPT !.pc = "leaving"]
                       ELSE IF r.resumed THEN [r EXCEPT !.pc = "ready"]
                       ELSE Again(r)]
    BY <1>10 DEF Join
  <2> DEFINE r == [turn[t] EXCEPT !.fails = n]
  <2>2. IsTurn(r) /\ r.resumed = turn[t].resumed /\ r.checked = turn[t].checked
        /\ r.saved = turn[t].saved
    BY <1>0 DEF IsTurn
  <2>3. PICK s : /\ turn' = [turn EXCEPT ![t] = s]
                 /\ \/ s = [r EXCEPT !.pc = "leaving"]
                    \/ r.resumed /\ s = [r EXCEPT !.pc = "ready"]
                    \/ ~r.resumed /\ s = Again(r)
    BY <2>1
  <2> HIDE DEF r
  <2>4. ASSUME NEW pc \in {"leaving", "ready"}, turn' = [turn EXCEPT ![t] = [r EXCEPT !.pc = pc]]
        PROVE  Moves(t, pc)
    BY <2>2, <2>4 DEF Types, IsTurn, Moves, Sets, PCs
  <2>5. ASSUME turn' = [turn EXCEPT ![t] = Again(r)]
        PROVE  Moves(t, "top") \/ Moves(t, "leaving")
    BY <2>2, <2>5, AgainMoves DEF Moves
  <2> QED BY <2>2, <2>3, <2>4, <2>5
<1>11. Cancel(t) => Moves(t, turn[t].pc)
  BY DEF Cancel, Types, IsTurn, Moves, Sets
<1> QED BY <1>1, <1>2, <1>3, <1>4, <1>5, <1>6, <1>7, <1>8, <1>9, <1>10, <1>11

(* What the tools' goroutines and the callers leave alone.                 *)
Bystander ==
    \/ \E t \in Turns, c \in Calls : Tool(t, c)
    \/ Steer \/ Interrupt \/ Shutdown \/ ShutdownDone \/ UNCHANGED vars

LEMMA BystanderMoves == Bystander => UNCHANGED <<turn, engine, late>>
BY DEF Bystander, Tool, BeforeTool, AfterTool, Steer, Interrupt, Shutdown, ShutdownDone, vars,
       loop, held, history

(* A step of the loop, or of a caller about one turn.                      *)
Moving(t) == ReplyStream(t) \/ Step(t) \/ Answer(t) \/ Cancel(t)

(* The shapes of the variables.                                            *)
LEMMA TypesInit == Init => Types
<1> SUFFICES ASSUME Init PROVE Types
  OBVIOUS
<1>1. IsTurn(Fresh) /\ Silent \in Streams
  BY DEF IsTurn, Fresh, Silent, PCs, Streams
<1> HIDE DEF Fresh, Silent
<1>2. turn = [t \in Turns |-> Fresh] /\ stream = [t \in Turns |-> Silent]
  BY DEF Init
<1>3. DOMAIN turn = Turns /\ (\A t \in Turns : IsTurn(turn[t])) /\ stream \in [Turns -> Streams]
  BY <1>1, <1>2
<1>4. work \in [Turns -> [Calls -> {"none", "spawned", "running", "good", "bad", "ended"}]]
  BY DEF Init
<1>5. engine \in BOOLEAN /\ interrupted \in BOOLEAN
  BY DEF Init
<1>6. late \in [Turns -> Nat]
  BY DEF Init
<1> QED BY <1>3, <1>4, <1>5, <1>6 DEF Types

(* What an event makes of a stream.                                        *)
LEMMA Events ==
    ASSUME NEW s \in Streams, NEW c \in Calls
    PROVE  /\ Says(s) \in Streams /\ Says(s).is = s.is /\ Says(s).results = s.results
           /\ Says(s).fits <=> s.fits /\ s.is = "open"
           /\ Opens(s, c) \in Streams /\ Opens(s, c).is = s.is
           /\ Opens(s, c).results = s.results \cup {c}
           /\ Opens(s, c).fits <=> s.fits /\ s.is = "open" /\ c \notin s.results
           /\ Closes(s, c) \in Streams /\ Closes(s, c).is = s.is
           /\ Closes(s, c).results = s.results \ {c}
           /\ Closes(s, c).fits <=> s.fits /\ s.is = "open" /\ c \in s.results
<1>1. Says(s) \in Streams /\ Says(s).is = s.is /\ Says(s).results = s.results
      /\ (Says(s).fits <=> s.fits /\ s.is = "open")
  BY DEF Says, Streams
<1> HIDE DEF Calls
<1>2. Opens(s, c) \in Streams /\ Opens(s, c).is = s.is /\ Opens(s, c).results = s.results \cup {c}
      /\ (Opens(s, c).fits <=> Says(s).fits /\ c \notin s.results)
  BY <1>1 DEF Opens, Streams
<1>3. Closes(s, c) \in Streams /\ Closes(s, c).is = s.is /\ Closes(s, c).results = s.results \ {c}
      /\ (Closes(s, c).fits <=> Says(s).fits /\ c \in s.results)
  BY <1>1 DEF Closes, Streams
<1> QED BY <1>1, <1>2, <1>3

LEMMA MoreEvents ==
    ASSUME NEW s \in Streams
    PROVE  /\ Says(s) \in Streams /\ Says(s).is = s.is /\ Says(s).results = s.results
           /\ Says(s).fits <=> s.fits /\ s.is = "open"
           /\ Settles(s) \in Streams /\ Settles(s).is = s.is /\ Settles(s).results = s.results
           /\ Settles(s).fits <=> s.fits /\ s.is = "open" /\ s.results = {}
           /\ Starts(s) \in Streams /\ Starts(s).is = "open" /\ Starts(s).results = s.results
           /\ Starts(s).fits <=> s.fits /\ s.is = "silent"
           /\ Ends(s) \in Streams /\ Ends(s).is = "over" /\ Ends(s).results = s.results
           /\ Ends(s).fits <=> s.fits /\ s.is = "open" /\ s.results = {}
<1>1. Says(s) \in Streams /\ Says(s).is = s.is /\ Says(s).results = s.results
      /\ (Says(s).fits <=> s.fits /\ s.is = "open")
  BY DEF Says, Streams
<1>2. Settles(s) \in Streams /\ Settles(s).is = s.is /\ Settles(s).results = s.results
      /\ (Settles(s).fits <=> s.fits /\ s.is = "open" /\ s.results = {})
  <2> HIDE DEF Says
  <2> QED BY <1>1 DEF Settles, Streams
<1>3. Starts(s) \in Streams /\ Starts(s).is = "open" /\ Starts(s).results = s.results
      /\ (Starts(s).fits <=> s.fits /\ s.is = "silent")
  BY DEF Starts, Streams
<1>4. Ends(s) \in Streams /\ Ends(s).is = "over" /\ Ends(s).results = s.results
      /\ (Ends(s).fits <=> s.fits /\ s.is = "open" /\ s.results = {})
  BY <1>2 DEF Ends, Streams
<1> QED BY <1>1, <1>2, <1>3, <1>4

(* Every step of the loop goes from one place of its turn to the next.     *)
LEMMA MovingSets ==
    ASSUME Types, NEW t \in Turns, Moving(t)
    PROVE  \E p \in PCs, r, c, s \in BOOLEAN : Sets(t, p, r, c, s)
<1>1. IsTurn(turn[t]) /\ engine \in BOOLEAN
  BY DEF Types
<1>2. \E p \in PCs : \E r, c, s : Sets(t, p, r, c, s)
  <2>1. ASSUME NEW p \in PCs, Moves(t, p) PROVE \E q \in PCs : \E r, c, s : Sets(t, q, r, c, s)
    BY <2>1 DEF Moves
  <2>2. ASSUME NEW p \in PCs, NEW r, NEW c, NEW s, Sets(t, p, r, c, s)
        PROVE \E q \in PCs : \E x, y, z : Sets(t, q, x, y, z)
    BY <2>2
  <2>3. turn[t].pc \in PCs
    BY <1>1 DEF IsTurn
  <2> HIDE DEF Moves, Sets
  <2> QED BY <2>1, <2>2, <2>3, Moved DEF Moving, Step, PCs
<1> QED BY <1>2 DEF Sets, IsTurn

(* Turns, streams, calls and counters keep their shapes.                   *)
LEMMA TypesStep == ASSUME Types, [Next]_vars PROVE Types'
<1>1. DOMAIN turn' = Turns /\ \A u \in Turns : IsTurn(turn'[u])
  <2>1. ASSUME NEW t \in Turns, Moving(t)
        PROVE  DOMAIN turn' = Turns /\ \A u \in Turns : IsTurn(turn'[u])
    BY <2>1, MovingSets DEF Types, Sets
  <2>2. CASE Bystander
    BY <2>2, BystanderMoves DEF Types
  <2> QED BY <2>1, <2>2 DEF Next, Moving, Bystander
<1>2. work' \in [Turns -> [Calls -> {"none", "spawned", "running", "good", "bad", "ended"}]]
  <2> USE DEF Types
  <2>1. ASSUME NEW t \in Turns, NEW c \in Calls, NEW w \in {"none", "spawned", "running", "good", "bad", "ended"},
               work' = [work EXCEPT ![t][c] = w]
        PROVE  <1>2
    BY <2>1
  <2>2. ASSUME NEW t \in Turns, NEW c \in Calls, Tool(t, c) PROVE <1>2
    BY <2>1, <2>2 DEF Tool, BeforeTool, AfterTool
  <2>3. ASSUME NEW t \in Turns, Execute(t) PROVE <1>2
    BY <2>3 DEF Execute
  <2>4. ASSUME NEW t \in Turns, Join(t) PROVE <1>2
    BY <2>4 DEF Join
  <2>5. ASSUME NEW t \in Turns, Moving(t), ~Execute(t), ~Join(t) PROVE work' = work
    BY <2>5 DEF Moving, Step, ReplyStream, BumpActive, Open, Enter, Leave, Finish, Retire, Drain, Guard,
            CallModel, ModelAnswers, ModelAborts, Examine, Act, Park, GiveUp, Answer, Cancel
  <2>6. CASE Steer \/ Interrupt \/ Shutdown \/ ShutdownDone \/ UNCHANGED vars
    BY <2>6 DEF Steer, Interrupt, Shutdown, ShutdownDone, vars, loop
  <2> QED BY <2>2, <2>3, <2>4, <2>5, <2>6 DEF Next, Moving
<1>3. stream' \in [Turns -> Streams]
  <2>1. stream \in [Turns -> Streams]
    BY DEF Types
  <2>2. ASSUME NEW t \in Turns, NEW s \in Streams, Emit(t, s) PROVE <1>3
    BY <2>1, <2>2 DEF Emit
  <2>3. ASSUME NEW t \in Turns, NEW c \in Calls, Tool(t, c) PROVE <1>3
    BY <2>1, <2>2, <2>3, Events DEF Tool, BeforeTool, AfterTool
  <2>4. ASSUME NEW t \in Turns, Moving(t) PROVE <1>3
    <3>1. stream[t] \in Streams /\ Says(stream[t]) \in Streams
      BY <2>1, MoreEvents
    <3>2. \/ \E s \in Streams : Emit(t, s)
          \/ stream' = stream
      BY <2>4, <3>1, MoreEvents DEF Moving, Step, ReplyStream, BumpActive, Open, Enter, Leave, Finish, Retire,
              Drain, Guard, CallModel, ModelAnswers, ModelAborts, Examine, Act, Park, GiveUp, Answer,
              Cancel, Execute, Join
    <3> QED BY <2>1, <2>2, <3>2
  <2>5. CASE Steer \/ Interrupt \/ Shutdown \/ ShutdownDone \/ UNCHANGED vars
    BY <2>1, <2>5 DEF Steer, Interrupt, Shutdown, ShutdownDone, vars, loop
  <2> QED BY <2>3, <2>4, <2>5 DEF Next, Moving
<1>4. engine' \in BOOLEAN /\ interrupted' \in BOOLEAN
  <2> USE DEF Types
  <2>1. ASSUME NEW t \in Turns, Moving(t) PROVE <1>4
    <3>1. IsTurn(turn[t])
      OBVIOUS
    <3> QED BY <2>1, <3>1 DEF IsTurn, Moving, Step, ReplyStream, BumpActive, Open, Enter, Leave, Finish, Retire,
              Drain, Guard, CallModel, ModelAnswers, ModelAborts, Examine, Act, Park, GiveUp, Answer,
              Cancel, Execute, Join, Restored, held, callers
  <2>2. CASE Bystander
    BY <2>2 DEF Bystander, Tool, BeforeTool, AfterTool, Steer, Interrupt, Shutdown, ShutdownDone, vars,
       callers, held
  <2> QED BY <2>1, <2>2 DEF Next, Moving, Bystander
<1>5. late' \in [Turns -> Nat]
  <2> USE DEF Types
  <2>1. ASSUME NEW t \in Turns, Enter(t) \/ Leave(t) \/ Retire(t) \/ CallModel(t) \/ Execute(t)
        PROVE  <1>5
    <3>1. Count(t) => late' \in [Turns -> Nat]
      <4>1. late[t] + 1 \in Nat
        OBVIOUS
      <4> QED BY <4>1 DEF Count
    <3>2. CASE Enter(t)
      BY <3>2 DEF Enter
    <3>3. CASE Leave(t)
      BY <3>3 DEF Leave, history
    <3>4. CASE Retire(t)
      BY <3>4 DEF Retire
    <3>5. CASE CallModel(t) \/ Execute(t)
      BY <3>1, <3>5 DEF CallModel, Execute
    <3> QED BY <2>1, <3>2, <3>3, <3>4, <3>5
  <2>2. ASSUME NEW t \in Turns, Moving(t),
               ~(Enter(t) \/ Leave(t) \/ Retire(t) \/ CallModel(t) \/ Execute(t))
        PROVE  late' = late
    BY <2>2 DEF Moving, Step, ReplyStream, BumpActive, Open, Finish, Drain, Guard, ModelAnswers,
              ModelAborts, Examine, Act, Park, GiveUp, Answer, Cancel, Join, history
  <2>3. CASE Bystander
    BY <2>3 DEF Bystander, Tool, BeforeTool, AfterTool, Steer, Interrupt, Shutdown, ShutdownDone, vars,
       history
  <2> QED BY <2>1, <2>2, <2>3 DEF Next, Moving, Bystander
<1> QED BY <1>1, <1>2, <1>3, <1>4, <1>5 DEF Types

(* reply_stream.go, react_agent.go: turns, tool calls and streams keep their *)
(* shapes; what is open in a stream is one message and results of calls.   *)
THEOREM TypeCorrect == Spec => []Types
BY TypesInit, TypesStep, PTL DEF Spec

-----------------------------------------------------------------------------
(* Turns come one after the other.                                         *)

Alone == \A t, u \in Turns : u < t /\ ~At(t, "idle") => At(u, "over")

(* A turn begins when the earlier ones are over, and stays over.           *)
LEMMA AloneStep == ASSUME Types, Alone, [Next]_vars PROVE Alone'
<1>1. ASSUME NEW t \in Turns, ReplyStream(t) PROVE Alone'
  <2>1. Moves(t, "admitted") /\ \A u \in 1..(t - 1) : At(u, "over")
    BY <1>1, Moved DEF ReplyStream
  <2>2. turn[t].pc = "idle"
    BY <1>1 DEF ReplyStream, At
  <2> QED BY <2>1, <2>2 DEF Alone, At, Moves, Sets
<1>2. ASSUME NEW t \in Turns, Step(t) \/ Answer(t) \/ Cancel(t) PROVE Alone'
  <2>1. PICK p \in PCs : \E r, c, s \in BOOLEAN : Sets(t, p, r, c, s)
    BY <1>2, MovingSets DEF Moving
  <2>2. turn[t].pc \notin {"idle", "over"}
    BY <1>2 DEF Step, BumpActive, Open, Enter, Leave, Finish, Retire, Drain, Guard, CallModel,
        ModelAnswers, ModelAborts, Examine, Act, Park, GiveUp, Answer, Cancel, Execute, Join, At
  <2> QED BY <2>1, <2>2 DEF Alone, At, Sets
<1>3. CASE Bystander
  BY <1>3, BystanderMoves DEF Alone, At
<1> QED BY <1>1, <1>2, <1>3 DEF Next, Bystander

-----------------------------------------------------------------------------
(* The permission engine.                                                  *)

(* It is only away while a resumed turn executes, and a turn that saves it *)
(* finds it there.                                                         *)
EngineInv ==
    /\ \A t \in Turns :
          /\ turn[t].pc \in {"asked", "waiting", "execute", "batch"} => turn[t].checked
          /\ turn[t].saved
    /\ engine \/ \E t \in Turns : turn[t].pc \in {"execute", "batch"} /\ turn[t].resumed
    /\ \A t \in Turns, c \in Calls : work[t][c] \in {"spawned", "running"} => At(t, "batch")

(* Nobody executes who could have it away, but the turn itself.            *)
LEMMA EngineIsThere ==
    ASSUME Alone, EngineInv, NEW t \in Turns,
           turn[t].pc \notin {"idle", "over"},
           turn[t].pc \notin {"execute", "batch"} \/ ~turn[t].resumed
    PROVE  engine
<1>1. ASSUME NEW u \in Turns, u # t PROVE turn[u].pc \in {"idle", "over"}
  <2>1. u < t \/ t < u
    BY <1>1
  <2> QED BY <2>1 DEF Alone, At
<1> QED BY <1>1 DEF EngineInv

(* A step of the loop that neither takes the engine nor gives it back.     *)
LEMMA EngineMove ==
    ASSUME Types, EngineInv, NEW t \in Turns, NEW p, NEW r, NEW c, Sets(t, p, r, c, TRUE),
           UNCHANGED engine, turn[t].pc = "batch" => p = "batch",
           turn[t].pc \in {"execute", "batch"} =>
               p \in {"execute", "batch"} /\ r = turn[t].resumed,
           p \in {"asked", "waiting", "execute", "batch"} => c,
           \A u \in Turns, d \in Calls :
               work'[u][d] \in {"spawned", "running"} => work[u][d] \in {"spawned", "running"}
                                                         \/ (u = t /\ p = "batch")
    PROVE  EngineInv'
<1>1. \A u \in Turns \ {t} : turn'[u] = turn[u]
  BY DEF Sets
<1>2. turn'[t].pc = p /\ turn'[t].resumed = r /\ turn'[t].checked = c /\ turn'[t].saved
  BY DEF Sets
<1> QED BY <1>1, <1>2 DEF EngineInv, At

(* A turn executes what the engine has let through or a client approved;   *)
(* a resumed turn has the engine saved while it is away.                   *)
LEMMA EngineStep == ASSUME Types, Alone, EngineInv, [Next]_vars PROVE EngineInv'
<1> USE DEF EngineInv, At
<1>0. engine \in BOOLEAN /\ \A t \in Turns : turn[t].saved = TRUE
  BY DEF Types, IsTurn
<1>1. ASSUME NEW t \in Turns,
             \/ ReplyStream(t) \/ BumpActive(t) \/ Leave(t) \/ Finish(t)
             \/ Drain(t) \/ Guard(t) \/ CallModel(t) \/ ModelAborts(t) \/ Examine(t) \/ GiveUp(t)
      PROVE  EngineInv'
  <2>1. \E p \in {"admitted", "bumped", "left", "ended", "leaving", "guard", "ready", "calling",
                  "top", "act"} : Moves(t, p)
    BY <1>1, Moved
  <2>2. UNCHANGED <<engine, work>> /\ turn[t].pc \notin {"execute", "batch"}
    BY <1>1 DEF ReplyStream, BumpActive, Leave, Finish, Drain, Guard, CallModel, ModelAborts,
        Examine, GiveUp, held
  <2>3. PICK p \in {"admitted", "bumped", "left", "ended", "leaving", "guard", "ready", "calling",
                    "top", "act"} : Sets(t, p, turn[t].resumed, turn[t].checked, TRUE)
    BY <1>0, <2>1 DEF Moves
  <2>4. p \notin {"asked", "waiting", "execute", "batch"}
    OBVIOUS
  <2> HIDE DEF EngineInv
  <2> QED BY <2>2, <2>3, <2>4, EngineMove
<1>2. ASSUME NEW t \in Turns, Open(t) \/ Retire(t) \/ ModelAnswers(t) PROVE EngineInv'
  <2>1. \E p \in {"open", "over", "answered", "leaving"} : \E r, c : Sets(t, p, r, c, TRUE)
    <3>1. turn[t].saved = TRUE
      BY <1>0
    <3>2. CASE Open(t)
      BY <3>1, <3>2, Moved
    <3>3. CASE Retire(t)
      BY <3>3, Moved
    <3>4. CASE ModelAnswers(t)
      BY <3>1, <3>4, Moved DEF Moves
    <3> QED BY <1>2, <3>2, <3>3, <3>4
  <2>2. UNCHANGED <<engine, work>> /\ turn[t].pc \notin {"execute", "batch"}
    BY <1>2 DEF Open, Retire, ModelAnswers, held
  <2> HIDE DEF EngineInv
  <2> QED BY <2>1, <2>2, EngineMove
<1>3. ASSUME NEW t \in Turns, Enter(t) PROVE EngineInv'
  <2>1. \/ Sets(t, "asked", TRUE, TRUE, TRUE)
        \/ \E p \in {"top", "leaving"} : Sets(t, p, turn[t].resumed, turn[t].checked, TRUE)
    BY <1>0, <1>3, Moved DEF Moves
  <2>2. UNCHANGED <<engine, work>> /\ turn[t].pc \notin {"execute", "batch"}
    BY <1>3 DEF Enter, held
  <2> HIDE DEF EngineInv
  <2> QED BY <2>1, <2>2, EngineMove
<1>4. ASSUME NEW t \in Turns, Act(t) PROVE EngineInv'
  <2>1. turn[t].pc = "act" /\ UNCHANGED <<engine, work>>
    BY <1>4 DEF Act, held
  <2>2. engine = TRUE
    BY <1>0, <2>1, EngineIsThere
  <2>3. \E p \in {"execute", "asked"} : Sets(t, p, turn[t].resumed, TRUE, TRUE)
        \/ Sets(t, "leaving", turn[t].resumed, turn[t].checked, TRUE)
    BY <1>0, <1>4, <2>2, Moved DEF Moves
  <2> HIDE DEF EngineInv
  <2> QED BY <2>1, <2>3, EngineMove
<1>5. ASSUME NEW t \in Turns, Park(t) \/ Cancel(t) PROVE EngineInv'
  <2>1. UNCHANGED <<engine, work>>
    BY <1>5 DEF Park, Cancel, held
  <2>2. \/ turn[t].pc = "asked" /\ Sets(t, "waiting", turn[t].resumed, turn[t].checked, TRUE)
        \/ Sets(t, turn[t].pc, turn[t].resumed, turn[t].checked, TRUE)
    BY <1>0, <1>5, Moved DEF Park, Cancel, Moves
  <2>3. turn[t].pc \in {"asked", "waiting", "execute", "batch"} => turn[t].checked
    OBVIOUS
  <2> HIDE DEF EngineInv
  <2> QED BY <2>1, <2>2, <2>3, EngineMove
<1>6. ASSUME NEW t \in Turns, Answer(t) PROVE EngineInv'
  <2>1. turn[t].pc = "waiting" /\ work' = work
    BY <1>6 DEF Answer
  <2>2. engine /\ turn[t].checked
    BY <2>1, EngineIsThere
  <2>3. CASE engine' = engine /\ (Moves(t, "leaving") \/ Moves(t, "top"))
    <3>1. \E p \in {"leaving", "top"} : Sets(t, p, turn[t].resumed, turn[t].checked, TRUE)
      BY <1>0, <2>3 DEF Moves
    <3> HIDE DEF EngineInv
    <3> QED BY <2>1, <2>3, <3>1, EngineMove
  <2>4. CASE /\ Sets(t, "execute", turn[t].resumed, turn[t].checked, engine)
             /\ engine' = IF turn[t].resumed THEN FALSE ELSE engine
    BY <2>1, <2>2, <2>4 DEF Sets
  <2> QED BY <1>6, <2>3, <2>4, Moved
<1>7. ASSUME NEW t \in Turns, Execute(t) PROVE EngineInv'
  <2>1. /\ turn[t].pc = "execute" /\ engine' = engine /\ Moves(t, "batch")
        /\ \A u \in Turns, d \in Calls : u # t => work'[u][d] = work[u][d]
    BY <1>7, Moved DEF Execute, held, Types
  <2>2. Sets(t, "batch", turn[t].resumed, turn[t].checked, TRUE) /\ turn[t].checked
    BY <1>0, <2>1 DEF Moves
  <2> HIDE DEF EngineInv
  <2> QED BY <2>1, <2>2, EngineMove
<1>8. ASSUME NEW t \in Turns, Join(t) PROVE EngineInv'
  <2>1. /\ turn[t].pc = "batch" /\ engine' = Restored(t) /\ Settled(t)
        /\ \A u \in Turns, d \in Calls : work'[u][d] = IF u = t THEN "none" ELSE work[u][d]
    BY <1>8 DEF Join, Joined, Types
  <2>2. engine'
    BY <2>1, EngineIsThere DEF Restored
  <2>3. \E p \in {"leaving", "ready", "top"} : Moves(t, p)
    BY <1>8, Moved
  <2>4. PICK p \in {"leaving", "ready", "top"} : Moves(t, p)
    BY <2>3
  <2>5. turn'[t].pc = p /\ turn'[t].saved /\ \A u \in Turns \ {t} : turn'[u] = turn[u]
    BY <1>0, <2>4 DEF Moves, Sets
  <2>6. \A u \in Turns, d \in Calls : work'[u][d] \in {"spawned", "running"} => u # t /\ work[u][d] \in {"spawned", "running"}
    BY <2>1
  <2> QED BY <2>2, <2>5, <2>6
<1>9. ASSUME NEW t \in Turns, NEW c \in Calls, Tool(t, c) PROVE EngineInv'
  <2>1. UNCHANGED <<turn, engine>> /\ work[t][c] \in {"spawned", "running"}
    BY <1>9 DEF Tool, BeforeTool, AfterTool, held
  <2>2. PICK w : work' = [work EXCEPT ![t][c] = w]
    BY <1>9 DEF Tool, BeforeTool, AfterTool
  <2>3. \A u \in Turns, d \in Calls : work'[u][d] = work[u][d] \/ (u = t /\ d = c)
    BY <2>2 DEF Types
  <2> QED BY <2>1, <2>3
<1>10. CASE Steer \/ Interrupt \/ Shutdown \/ ShutdownDone \/ UNCHANGED vars
  BY <1>10 DEF Steer, Interrupt, Shutdown, ShutdownDone, vars, loop, held
<1> QED BY <1>1, <1>2, <1>3, <1>4, <1>5, <1>6, <1>7, <1>8, <1>9, <1>10 DEF Next, Step

(* reply_stream.go 455-458, 732-733: no tool runs whose call the engine   *)
(* has not evaluated, however turns are suspended, resumed and cancelled.  *)
THEOREM EngineSeesEveryCall == Spec => []EvaluatedBeforeRun
<1>1. Init => Alone /\ EngineInv
  BY DEF Init, Alone, EngineInv, At, Fresh
<1>2. Types /\ Alone /\ EngineInv /\ [Next]_vars => Types' /\ Alone' /\ EngineInv'
  BY TypesStep, AloneStep, EngineStep
<1>3. EngineInv => EvaluatedBeforeRun
  BY DEF EngineInv, EvaluatedBeforeRun, At
<1> QED BY TypesInit, <1>1, <1>2, <1>3, PTL DEF Spec

-----------------------------------------------------------------------------
(* Shutting down and interrupting.                                         *)

(* The turns that Shutdown waits for: past CallWg.Add, before its Done.    *)
Entered == {"top", "guard", "ready", "calling", "answered", "act", "asked", "waiting", "execute",
            "batch", "leaving"}

Beyond == Entered \ {"top", "guard", "leaving"}

(* A turn that was only admitted when the agent was closed still comes to  *)
(* its first guard, and no further.                                        *)
Calm == shutdown = "done" => \A t \in Turns : ~turn[t].resumed => turn[t].pc \notin Beyond

QuietInv ==
    /\ running = IF \E t \in Turns : turn[t].pc \in Entered THEN 1 ELSE 0
    /\ Calm

(* The count of CallWg, while turns come one after the other.              *)
LEMMA RunningStep ==
    ASSUME Types, Alone, QuietInv, [Next]_vars
    PROVE  running' = IF \E t \in Turns : turn'[t].pc \in Entered THEN 1 ELSE 0
<1> USE DEF QuietInv, Entered
<1>1. ASSUME NEW t \in Turns, turn[t].pc \notin {"idle", "over"}, NEW u \in Turns, u # t
      PROVE  turn[u].pc \in {"idle", "over"}
  <2>1. u < t \/ t < u
    BY <1>1
  <2> QED BY <1>1, <2>1 DEF Alone, At
<1>2. ASSUME NEW t \in Turns, Enter(t) PROVE running' = 1 /\ turn'[t].pc \in Entered
  <2>1. turn[t].pc = "open" /\ running' = running + 1
    BY <1>2 DEF Enter, At
  <2>2. running = 0
    BY <1>1, <2>1
  <2>3. turn'[t].pc \in {"asked", "top", "leaving"}
    BY <1>2, Moved DEF Moves, Sets
  <2> QED BY <2>1, <2>2, <2>3
<1>3. ASSUME NEW t \in Turns, Leave(t)
      PROVE  running' = 0 /\ \A u \in Turns : turn'[u].pc \notin Entered
  <2>1. turn[t].pc = "leaving" /\ running' = running - 1 /\ Moves(t, "left")
    BY <1>3, Moved DEF Leave, At
  <2>2. running = 1
    BY <2>1
  <2> QED BY <1>1, <2>1, <2>2 DEF Moves, Sets
<1>4. ASSUME NEW t \in Turns,
             \/ ReplyStream(t) \/ BumpActive(t) \/ Open(t) \/ Finish(t) \/ Retire(t) \/ Cancel(t)
      PROVE  running' = running /\ \A u \in Turns : turn'[u].pc \in Entered <=> turn[u].pc \in Entered
  <2>1. running' = running
    BY <1>4 DEF ReplyStream, BumpActive, Open, Finish, Retire, Cancel, callers
  <2>2. \/ /\ turn[t].pc \notin Entered
           /\ \E p \in {"admitted", "bumped", "open", "ended", "over"} : \E r, c, s : Sets(t, p, r, c, s)
        \/ Moves(t, turn[t].pc)
    BY <1>4, Moved DEF ReplyStream, BumpActive, Open, Finish, Retire, Moves, At
  <2> QED BY <2>1, <2>2 DEF Moves, Sets
<1>5. ASSUME NEW t \in Turns, Step(t) \/ Answer(t),
             ~(Enter(t) \/ Leave(t) \/ BumpActive(t) \/ Open(t) \/ Finish(t) \/ Retire(t))
      PROVE  running' = running /\ turn[t].pc \in Entered /\ turn'[t].pc \in Entered
  <2>1. running' = running /\ turn[t].pc \in Entered
    BY <1>5 DEF Step, Drain, Guard, CallModel, ModelAnswers, ModelAborts, Examine, Act, Park, GiveUp,
        Answer, Execute, Join, callers, At
  <2>2. turn'[t].pc \in Entered
    BY <1>5, Moved DEF Step, Moves, Sets
  <2> QED BY <2>1, <2>2
<1>6. CASE Bystander
  <2>1. UNCHANGED <<turn, running>>
    BY <1>6 DEF Bystander, Tool, BeforeTool, AfterTool, Steer, Interrupt, Shutdown, ShutdownDone, vars,
        loop, callers
  <2> QED BY <2>1
<1> HIDE DEF QuietInv, Entered
<1>7. ASSUME NEW t \in Turns, Step(t) \/ Answer(t),
             ~(Enter(t) \/ Leave(t) \/ BumpActive(t) \/ Open(t) \/ Finish(t) \/ Retire(t))
      PROVE  running' = IF \E u \in Turns : turn'[u].pc \in Entered THEN 1 ELSE 0
  BY <1>5, <1>7 DEF QuietInv
<1> QED BY <1>2, <1>3, <1>4, <1>6, <1>7 DEF Next, Step, Bystander, QuietInv

(* Shutdown returns when no turn is entered; a later one is not resumed    *)
(* into its calls, or leaves at the guard.                                 *)
LEMMA QuietStep == ASSUME Types, Alone, QuietInv, [Next]_vars PROVE QuietInv'
<1>1. Calm
  BY DEF QuietInv
<1>2. ASSUME NEW t \in Turns, Moving(t) PROVE Calm'
  <2>1. shutdown' = shutdown
    BY <1>2 DEF Moving, Step, ReplyStream, BumpActive, Open, Enter, Leave, Finish, Retire, Drain,
        Guard, CallModel, ModelAnswers, ModelAborts, Examine, Act, Park, GiveUp, Answer, Cancel,
        Execute, Join, callers
  <2>2. \A u \in Turns \ {t} : turn'[u] = turn[u]
    BY <1>2, MovingSets DEF Sets
  <2>3. ASSUME shutdown = "done", ~turn'[t].resumed PROVE turn'[t].pc \notin Beyond
    <3> USE DEF Entered, Beyond, Moves, Sets
    <3>1. MustStop
      BY <2>3 DEF MustStop
    <3>2. CASE ReplyStream(t) \/ BumpActive(t) \/ Open(t) \/ Leave(t) \/ Finish(t) \/ Retire(t)
               \/ Drain(t) \/ ModelAborts(t) \/ GiveUp(t)
      BY <3>2, Moved
    <3>3. CASE Enter(t)
      BY <2>3, <3>3, Moved
    <3>4. CASE Guard(t) \/ Act(t)
      BY <3>1, <3>4, Moved
    <3>5. CASE \/ CallModel(t) \/ ModelAnswers(t) \/ Examine(t) \/ Park(t) \/ Answer(t)
               \/ Execute(t) \/ Join(t)
      <4>1. turn[t].pc \in Beyond
        BY <3>5 DEF CallModel, ModelAnswers, Examine, Park, Answer, Execute, Join, At
      <4>2. turn[t].resumed
        BY <1>1, <2>3, <4>1 DEF Calm
      <4>3. turn'[t].resumed = turn[t].resumed
        BY <3>5, Moved
      <4> QED BY <2>3, <4>2, <4>3
    <3>6. CASE Cancel(t)
      BY <1>1, <2>3, <3>6, Moved DEF Calm
    <3> QED BY <1>2, <3>2, <3>3, <3>4, <3>5, <3>6 DEF Moving, Step
  <2> QED BY <1>1, <2>1, <2>2, <2>3 DEF Calm
<1>3. ASSUME ShutdownDone PROVE Calm'
  <2>1. running = 0 /\ turn' = turn
    BY <1>3 DEF ShutdownDone, loop
  <2>2. \A t \in Turns : turn[t].pc \notin Entered
    BY <2>1 DEF QuietInv
  <2> QED BY <2>1, <2>2 DEF Calm, Beyond, Entered
<1>4. ASSUME Bystander, ~ShutdownDone PROVE Calm'
  <2>1. turn' = turn /\ (shutdown' = "done" => shutdown = "done")
    BY <1>4 DEF Bystander, Tool, BeforeTool, AfterTool, Steer, Interrupt, Shutdown, vars, loop, callers
  <2> QED BY <1>1, <2>1 DEF Calm, Beyond, Entered
<1>5. Calm'
  <2>1. Bystander \/ \E t \in Turns : Moving(t)
    BY DEF Next, Moving, Bystander
  <2> QED BY <1>2, <1>3, <1>4, <2>1
<1> QED BY <1>5, RunningStep DEF QuietInv

(* base.go 134-150: when Shutdown has returned, no turn not resumed        *)
(* calls a model or runs a tool, also one that was admitted before.        *)
THEOREM ShutDownIsQuiet == Spec => []QuietAfterShutdown
<1>1. Init => Alone /\ QuietInv
  BY DEF Init, Alone, QuietInv, Calm, Beyond, Entered, At, Fresh
<1>2. Types /\ Alone /\ QuietInv /\ [Next]_vars => Types' /\ Alone' /\ QuietInv'
  BY TypesStep, AloneStep, QuietStep
<1>3. QuietInv => QuietAfterShutdown
  BY DEF QuietInv, Calm, Beyond, QuietAfterShutdown, Entered
<1> QED BY TypesInit, <1>1, <1>2, <1>3, PTL DEF Spec

-----------------------------------------------------------------------------
(* An interrupt.                                                           *)

(* Where a turn can be that began a call or a batch in spite of it: on its *)
(* way to the next checkpoint, or out.                                     *)
Spent == {"calling", "answered", "batch", "top", "guard", "leaving", "left", "ended"}

Outside == {"idle", "admitted", "bumped", "open", "over"}

LateInv ==
    \A t \in Turns :
        /\ turn[t].pc \in Outside => late[t] = 0
        /\ ~turn[t].resumed => \/ late[t] = 0
                               \/ late[t] = 1 /\ interrupted /\ turn[t].pc \in Spent

(* The step of a turn that does not count, nor lower the flag.             *)
LEMMA LateMove ==
    ASSUME LateInv, NEW t \in Turns, NEW p, NEW r, NEW c, NEW s, Sets(t, p, r, c, s),
           UNCHANGED <<late, interrupted>>,
           p \in Outside => turn[t].pc \in Outside,
           turn[t].pc \in Outside \/ r = turn[t].resumed,
           turn[t].pc \in Spent /\ interrupted /\ ~turn[t].resumed => p \in Spent
    PROVE  LateInv'
BY DEF LateInv, Sets

(* After a late call or batch, a checkpoint comes before the next one.     *)
LEMMA LateStep == ASSUME Types, LateInv, [Next]_vars PROVE LateInv'
<1> USE DEF Spent, Outside
<1>1. ASSUME NEW t \in Turns,
             \/ ReplyStream(t) \/ BumpActive(t) \/ Open(t) \/ Leave(t) \/ Finish(t) \/ Drain(t)
             \/ Guard(t) \/ ModelAnswers(t) \/ ModelAborts(t) \/ Examine(t) \/ Act(t) \/ Park(t)
             \/ Answer(t) \/ GiveUp(t) \/ Join(t) \/ Cancel(t)
      PROVE  LateInv'
  <2>1. UNCHANGED <<late, interrupted>>
    BY <1>1 DEF ReplyStream, BumpActive, Open, Leave, Finish, Drain, Guard, ModelAnswers, ModelAborts,
        Examine, Act, Park, Answer, GiveUp, Join, Cancel, callers, history
  <2>2. PICK p, r, c, s : /\ Sets(t, p, r, c, s)
                          /\ p \in Outside => turn[t].pc \in Outside
                          /\ turn[t].pc \in Outside \/ r = turn[t].resumed
                          /\ turn[t].pc \in Spent /\ interrupted /\ ~turn[t].resumed => p \in Spent
    <3>1. CASE ReplyStream(t) \/ BumpActive(t) \/ Leave(t) \/ Finish(t) \/ Drain(t) \/ ModelAborts(t)
               \/ Park(t) \/ GiveUp(t) \/ Cancel(t)
      <4>1. \/ \E p \in {"left", "ended", "leaving", "guard"} : Moves(t, p)
            \/ Moves(t, "admitted") /\ turn[t].pc = "idle"
            \/ Moves(t, "bumped") /\ turn[t].pc = "admitted"
            \/ Moves(t, "waiting") /\ turn[t].pc = "asked"
            \/ Moves(t, turn[t].pc)
        BY <3>1, Moved DEF ReplyStream, BumpActive, Park, At
      <4> QED BY <4>1 DEF Moves
    <3>2. CASE Open(t)
      BY <3>2, Moved DEF Open, At
    <3>3. CASE Guard(t) \/ Join(t)
      <4>1. \/ \E p \in {"leaving", "top"} : Moves(t, p)
            \/ Moves(t, "ready") /\ (~MustStop \/ turn[t].resumed)
        BY <3>3, Moved
      <4>2. turn[t].pc \in {"guard", "batch"}
        BY <3>3 DEF Guard, Join, At
      <4> QED BY <4>1, <4>2 DEF Moves, MustStop
    <3>4. CASE ModelAnswers(t)
      BY <3>4, Moved DEF Moves, ModelAnswers, At
    <3>5. CASE Examine(t)
      <4>1. \/ \E p \in {"leaving", "top"} : Moves(t, p)
            \/ Moves(t, "act") /\ ~interrupted
        BY <3>5, Moved
      <4> QED BY <4>1 DEF Moves
    <3>6. CASE Act(t)
      <4>1. turn[t].pc = "act"
        BY <3>6 DEF Act, At
      <4>2. PICK p \in {"leaving", "execute", "asked"} : \E c, s : Sets(t, p, turn[t].resumed, c, s)
        BY <3>6, Moved DEF Moves
      <4> QED BY <4>1, <4>2
    <3>7. CASE Answer(t)
      <4>1. turn[t].pc = "waiting"
        BY <3>7 DEF Answer, At
      <4>2. PICK p \in {"leaving", "execute", "top"} : \E c, s : Sets(t, p, turn[t].resumed, c, s)
        BY <3>7, Moved DEF Moves
      <4> QED BY <4>1, <4>2
    <3> QED BY <1>1, <3>1, <3>2, <3>3, <3>4, <3>5, <3>6, <3>7
  <2> QED BY <2>1, <2>2, LateMove
<1>2. ASSUME NEW t \in Turns, Enter(t) \/ Retire(t) PROVE LateInv'
  <2>1. CASE Enter(t)
    BY <2>1 DEF Enter, LateInv
  <2>2. CASE Retire(t)
    <3>1. Sets(t, "over", FALSE, FALSE, TRUE) /\ late' = [late EXCEPT ![t] = 0]
          /\ interrupted' = interrupted
      BY <2>2, Moved DEF Retire
    <3> QED BY <3>1 DEF LateInv, Sets, Types
  <2> QED BY <1>2, <2>1, <2>2
<1>3. ASSUME NEW t \in Turns, CallModel(t) \/ Execute(t) PROVE LateInv'
  <2>1. turn[t].pc \in {"ready", "execute"} /\ interrupted' = interrupted
    BY <1>3 DEF CallModel, Execute, At, callers
  <2>2. CASE late' = late /\ \E p \in {"leaving", "calling", "batch"} : Moves(t, p)
    BY <2>1, <2>2, LateMove DEF Moves
  <2>3. CASE /\ interrupted /\ late' = [late EXCEPT ![t] = @ + 1]
             /\ \E p \in {"calling", "batch"} : Moves(t, p)
    <3>1. PICK p \in {"calling", "batch"} : Moves(t, p)
      BY <2>3
    <3>2. late'[t] = late[t] + 1 /\ \A u \in Turns \ {t} : late'[u] = late[u]
      BY <2>3 DEF Types
    <3> QED BY <2>1, <2>3, <3>1, <3>2 DEF LateInv, Moves, Sets
  <2>4. \/ Moves(t, "calling") /\ Count(t)
        \/ Moves(t, "leaving") /\ late' = late
        \/ Moves(t, "batch") /\ Count(t)
    BY <1>3, Moved DEF Execute
  <2> QED BY <2>2, <2>3, <2>4 DEF Count
<1>4. CASE Bystander
  <2>1. UNCHANGED <<turn, late>> /\ (interrupted' \/ interrupted' = interrupted)
    BY <1>4 DEF Bystander, Tool, BeforeTool, AfterTool, Steer, Interrupt, Shutdown, ShutdownDone, vars,
        loop, callers, history
  <2> QED BY <2>1 DEF LateInv
<1> QED BY <1>1, <1>2, <1>3, <1>4 DEF Next, Step, Bystander

(* base.go Interrupt: after it a turn begins at most the one call or batch *)
(* that was past its checkpoint, whatever hooks, answers and tools do.     *)
THEOREM InterruptHolds == Spec => []InterruptTakesHold
<1>1. Init => LateInv
  BY DEF Init, LateInv
<1>2. Types /\ LateInv /\ [Next]_vars => Types' /\ LateInv'
  BY TypesStep, LateStep
<1>3. LateInv => InterruptTakesHold
  BY DEF LateInv, InterruptTakesHold
<1> QED BY TypesInit, <1>1, <1>2, <1>3, PTL DEF Spec

-----------------------------------------------------------------------------
(* The events.                                                             *)

Phase(pc) == IF pc \in {"idle", "admitted", "bumped"} THEN "silent"
             ELSE IF pc \in {"ended", "over"} THEN "over" ELSE "open"

(* The results that are open are those of the calls that run.              *)
StreamInv ==
    \A t \in Turns :
        /\ stream[t].is = Phase(turn[t].pc)
        /\ stream[t].fits
        /\ \A c \in Calls : c \in stream[t].results <=> work[t][c] = "running"

(* A turn that has not begun its batch, or has joined it, runs no call.    *)
LEMMA NothingOpen ==
    ASSUME Types, EngineInv, StreamInv, NEW t \in Turns, turn[t].pc # "batch" \/ Settled(t)
    PROVE  stream[t].results = {}
<1>1. stream[t].results \subseteq Calls
  BY DEF Types, Streams
<1>2. \A c \in Calls : work[t][c] # "running"
  BY DEF EngineInv, At, Settled
<1> QED BY <1>1, <1>2 DEF StreamInv

(* A step of the turn that begins and finishes no result.                  *)
LEMMA StreamMove ==
    ASSUME Types, StreamInv, NEW t \in Turns, NEW p, NEW r, NEW c, NEW s, Sets(t, p, r, c, s),
           \A u \in Turns, d \in Calls : work'[u][d] = "running" <=> work[u][d] = "running",
           \/ stream' = stream /\ Phase(p) = Phase(turn[t].pc)
           \/ \E e \in Streams : /\ Emit(t, e) /\ e.is = Phase(p) /\ e.fits
                                 /\ e.results = stream[t].results
    PROVE  StreamInv'
<1>1. turn'[t].pc = p /\ \A u \in Turns \ {t} : turn'[u] = turn[u]
  BY DEF Sets
<1>2. CASE stream' = stream /\ Phase(p) = Phase(turn[t].pc)
  BY <1>1, <1>2 DEF StreamInv, Phase
<1>3. ASSUME NEW e \in Streams, Emit(t, e), e.is = Phase(p), e.fits, e.results = stream[t].results
      PROVE  StreamInv'
  <2>1. stream'[t] = e /\ \A u \in Turns \ {t} : stream'[u] = stream[u]
    BY <1>3 DEF Emit, Types
  <2> QED BY <1>1, <1>3, <2>1 DEF StreamInv, Phase
<1> QED BY <1>2, <1>3

(* A tool's goroutine begins its result, or finishes it.                   *)
LEMMA ToolMove ==
    ASSUME Types, StreamInv, NEW t \in Turns, NEW c \in Calls, NEW w, NEW e,
           turn' = turn, turn[t].pc = "batch",
           work' = [work EXCEPT ![t][c] = w], Emit(t, e), e.is = "open", e.fits,
           e.results = IF w = "running" THEN stream[t].results \cup {c} ELSE stream[t].results \ {c}
    PROVE  StreamInv'
<1>1. stream'[t] = e /\ \A u \in Turns \ {t} : stream'[u] = stream[u]
  BY DEF Emit, Types
<1>2. \A u \in Turns, d \in Calls : work'[u][d] = IF u = t /\ d = c THEN w ELSE work[u][d]
  BY DEF Types
<1> QED BY <1>1, <1>2 DEF StreamInv, Phase

(* Every event finds the stream in the state it needs.                     *)
LEMMA StreamStep == ASSUME Types, EngineInv, StreamInv, [Next]_vars PROVE StreamInv'
<1>0. ASSUME NEW t \in Turns PROVE stream[t] \in Streams /\ stream[t].fits /\ stream[t].is = Phase(turn[t].pc)
  BY DEF Types, StreamInv
<1>1. ASSUME NEW t \in Turns,
             \/ ReplyStream(t) \/ BumpActive(t) \/ Leave(t) \/ Retire(t) \/ Drain(t) \/ Guard(t)
             \/ ModelAborts(t) \/ Examine(t) \/ Park(t) \/ GiveUp(t) \/ Answer(t) \/ Cancel(t)
      PROVE  StreamInv'
  <2>1. work' = work /\ stream' = stream
    BY <1>1 DEF ReplyStream, BumpActive, Leave, Retire, Drain, Guard, ModelAborts, Examine, Park, GiveUp,
        Answer, Cancel
  <2>2. CASE ReplyStream(t) \/ BumpActive(t) \/ Retire(t) \/ Cancel(t)
    <3>1. PICK p, r, c, s : Sets(t, p, r, c, s) /\ Phase(p) = Phase(turn[t].pc)
      BY <2>2, Moved DEF ReplyStream, BumpActive, Retire, At, Moves, Phase
    <3> QED BY <2>1, <3>1, StreamMove
  <2>3. CASE \/ Leave(t) \/ Drain(t) \/ Guard(t) \/ ModelAborts(t) \/ Examine(t) \/ Park(t) \/ GiveUp(t)
             \/ Answer(t)
    <3>1. Phase(turn[t].pc) = "open"
      BY <2>3 DEF Leave, Drain, Guard, ModelAborts, Examine, Park, GiveUp, Answer, At, Phase
    <3>2. \E p \in {"left", "leaving", "guard", "ready", "top", "act", "waiting", "execute"} : \E r, c, s :
             Sets(t, p, r, c, s)
      BY <2>3, Moved DEF Moves
    <3> QED BY <2>1, <3>1, <3>2, StreamMove DEF Phase
  <2> QED BY <1>1, <2>2, <2>3
<1>2. ASSUME NEW t \in Turns, Open(t) PROVE StreamInv'
  <2>1. work' = work /\ Emit(t, Starts(stream[t])) /\ stream[t].is = "silent"
    BY <1>0, <1>2 DEF Open, At, Phase
  <2>2. \E r, c, s : Sets(t, "open", r, c, s)
    BY <1>2, Moved
  <2>3. Starts(stream[t]) \in Streams /\ Starts(stream[t]).is = Phase("open") /\ Starts(stream[t]).fits
        /\ Starts(stream[t]).results = stream[t].results
    BY <1>0, <2>1, MoreEvents DEF Phase
  <2> QED BY <2>1, <2>2, <2>3, StreamMove
<1>3. ASSUME NEW t \in Turns, Finish(t) PROVE StreamInv'
  <2>1. work' = work /\ Emit(t, Ends(Says(stream[t]))) /\ stream[t].is = "open" /\ stream[t].results = {}
    BY <1>0, <1>3, NothingOpen DEF Finish, At, Phase
  <2>2. Sets(t, "ended", turn[t].resumed, turn[t].checked, turn[t].saved)
    BY <1>3, Moved DEF Moves
  <2>3. Says(stream[t]) \in Streams /\ Says(stream[t]).is = "open" /\ Says(stream[t]).fits
        /\ Says(stream[t]).results = {}
    BY <1>0, <2>1, MoreEvents
  <2>4. Ends(Says(stream[t])) \in Streams /\ Ends(Says(stream[t])).is = Phase("ended")
        /\ Ends(Says(stream[t])).fits /\ Ends(Says(stream[t])).results = {}
    BY <2>3, MoreEvents DEF Phase
  <2> QED BY <2>1, <2>2, <2>4, StreamMove
<1>4. ASSUME NEW t \in Turns,
             Enter(t) \/ CallModel(t) \/ ModelAnswers(t) \/ Act(t) \/ Execute(t) \/ Join(t)
      PROVE  StreamInv'
  <2>1. /\ stream[t].is = "open"
        /\ turn[t].pc \in {"open", "ready", "calling", "act", "execute", "batch"}
    BY <1>0, <1>4 DEF Enter, CallModel, ModelAnswers, Act, Execute, Join, At, Phase
  <2>2. \E p \in {"asked", "top", "leaving", "calling", "answered", "execute", "batch", "ready"} : \E r, c, s :
           Sets(t, p, r, c, s)
    BY <1>4, Moved DEF Moves
  <2>3. \A u \in Turns, d \in Calls : work'[u][d] = "running" <=> work[u][d] = "running"
    <3>1. CASE Execute(t)
      <4>1. \A d \in Calls : work[t][d] # "running"
        BY <3>1 DEF EngineInv, Execute, At
      <4>2. \A u \in Turns, d \in Calls : IF u = t THEN work'[u][d] # "running" ELSE work'[u][d] = work[u][d]
        BY <3>1 DEF Execute, Types
      <4> QED BY <4>1, <4>2
    <3>2. CASE Join(t)
      <4>1. \A d \in Calls : work[t][d] # "running"
        BY <3>2 DEF Join, Joined, Settled
      <4>2. \A u \in Turns, d \in Calls : IF u = t THEN work'[u][d] # "running" ELSE work'[u][d] = work[u][d]
        BY <3>2 DEF Join, Joined, Types
      <4> QED BY <4>1, <4>2
    <3>3. CASE Enter(t) \/ CallModel(t) \/ ModelAnswers(t) \/ Act(t)
      BY <3>3 DEF Enter, CallModel, ModelAnswers, Act
    <3> QED BY <1>4, <3>1, <3>2, <3>3
  <2>4. \/ stream' = stream
        \/ Emit(t, Says(stream[t]))
        \/ turn[t].pc # "batch" /\ Emit(t, Settles(stream[t]))
    BY <1>4 DEF Enter, CallModel, ModelAnswers, Act, Execute, Join, At
  <2>5. \/ stream' = stream
        \/ \E e \in Streams : Emit(t, e) /\ e.is = "open" /\ e.fits /\ e.results = stream[t].results
    <3>1. CASE Emit(t, Says(stream[t]))
      BY <1>0, <2>1, <3>1, MoreEvents
    <3>2. CASE turn[t].pc # "batch" /\ Emit(t, Settles(stream[t]))
      <4>1. stream[t].results = {}
        BY <3>2, NothingOpen
      <4> QED BY <1>0, <2>1, <3>2, <4>1, MoreEvents
    <3> QED BY <2>4, <3>1, <3>2
  <2>6. PICK p, r, c, s : Sets(t, p, r, c, s) /\ Phase(p) = "open"
    BY <2>2 DEF Phase
  <2>7. Phase(turn[t].pc) = "open"
    BY <2>1 DEF Phase
  <2> QED BY <2>3, <2>5, <2>6, <2>7, StreamMove
<1>5. ASSUME NEW t \in Turns, NEW c \in Calls, Tool(t, c) PROVE StreamInv'
  <2>1. turn' = turn /\ turn[t].pc = "batch" /\ stream[t].is = "open"
    BY <1>0, <1>5 DEF Tool, BeforeTool, AfterTool, EngineInv, At, Phase
  <2>2. c \in stream[t].results <=> work[t][c] = "running"
    BY DEF StreamInv
  <2>3. CASE work[t][c] = "spawned" /\ Emit(t, Opens(stream[t], c)) /\ work' = [work EXCEPT ![t][c] = "running"]
    <3>1. c \notin stream[t].results
      BY <2>2, <2>3
    <3>2. Opens(stream[t], c).is = "open" /\ Opens(stream[t], c).fits
          /\ Opens(stream[t], c).results = stream[t].results \cup {c}
      <4>1. stream[t] \in Streams /\ stream[t].fits
        BY <1>0 DEF StreamInv
      <4> HIDE DEF StreamInv
      <4> QED BY <2>1, <3>1, <4>1, Events
    <3> QED BY <2>1, <2>3, <3>2, ToolMove
  <2>4. CASE work[t][c] = "spawned" /\ stream' = stream /\ work' = [work EXCEPT ![t][c] = "ended"]
    <3>1. Emit(t, stream[t])
      BY <2>4 DEF Emit, Types
    <3>2. stream[t].results = stream[t].results \ {c}
      BY <2>2, <2>4
    <3> QED BY <1>0, <2>1, <2>4, <3>1, <3>2, ToolMove
  <2>5. CASE /\ work[t][c] = "running" /\ Emit(t, Closes(stream[t], c))
             /\ \E w \in {"good", "bad", "ended"} : work' = [work EXCEPT ![t][c] = w]
    <3>1. c \in stream[t].results
      BY <2>2, <2>5
    <3>2. Closes(stream[t], c).is = "open" /\ Closes(stream[t], c).fits
          /\ Closes(stream[t], c).results = stream[t].results \ {c}
      BY <1>0, <2>1, <3>1, Events
    <3> QED BY <2>1, <2>5, <3>2, ToolMove
  <2> QED BY <1>5, <2>3, <2>4, <2>5 DEF Tool, BeforeTool, AfterTool
<1>6. CASE Steer \/ Interrupt \/ Shutdown \/ ShutdownDone \/ UNCHANGED vars
  BY <1>6 DEF Steer, Interrupt, Shutdown, ShutdownDone, vars, loop, StreamInv
<1> QED BY <1>1, <1>2, <1>3, <1>4, <1>5, <1>6 DEF Next, Step

(* reply_stream.go 100-103, 934-1091: the deferred ReplyEnd and the join   *)
(* of the tools' goroutines keep every event of a turn in its place.       *)
THEOREM StreamsFit == Spec => []StreamFits
<1>1. Init => Alone /\ EngineInv /\ StreamInv
  BY DEF Init, Alone, EngineInv, StreamInv, Phase, At, Fresh, Silent
<1>2. Types /\ Alone /\ EngineInv /\ StreamInv /\ [Next]_vars => Types' /\ Alone' /\ EngineInv' /\ StreamInv'
  BY TypesStep, AloneStep, EngineStep, StreamStep
<1>3. StreamInv => StreamFits
  BY DEF StreamInv, StreamFits
<1> QED BY TypesInit, <1>1, <1>2, <1>3, PTL DEF Spec

-----------------------------------------------------------------------------
(* The failure breaker.  Its counter is a fold over the batch, which is    *)
(* given a closed form first.                                              *)

(* A set of numbers has a smallest element.                                *)
LEMMA Smallest ==
    ASSUME NEW S, S \subseteq Nat, S # {}
    PROVE  \E k \in S : \A j \in S : k <= j
<1> DEFINE Less == OpToRel(<, Nat)
<1>1. IsWellFoundedOn(Less, Nat)
  BY NatLessThanWellFounded
<1>2. PICK k \in S : \A j \in S : ~(<<j, k>> \in Less)
  <2> HIDE DEF Less
  <2> QED BY <1>1, WFMin
<1>3. \A j \in S : ~(j < k)
  BY <1>2 DEF OpToRel
<1> QED BY <1>3

(* The largest element of a set of bounded numbers.                        *)
LEMMA Largest ==
    ASSUME NEW n \in Nat, NEW S, S \subseteq 0..n, S # {}
    PROVE  Max(S) \in S /\ \A i \in S : i <= Max(S)
<1> DEFINE Above == {m \in Nat : \A i \in S : i <= m}
<1>1. n \in Above
  OBVIOUS
<1>2. PICK m \in Above : \A k \in Above : m <= k
  BY <1>1, Smallest
<1>3. m \in S
  <2> SUFFICES ASSUME m \notin S PROVE FALSE
    OBVIOUS
  <2>1. PICK x \in S : TRUE
    OBVIOUS
  <2>2. \A i \in S : i \in Nat /\ i <= m /\ i # m
    BY <1>2
  <2>3. m # 0
    BY <2>1, <2>2
  <2>4. \A i \in S : i <= m - 1
    BY <2>2, <2>3
  <2>5. m - 1 \in Above
    BY <2>3, <2>4
  <2> QED BY <1>2, <2>5
<1>4. \A i \in S : i <= m /\ i \in Nat
  BY <1>2
<1> QED BY <1>3, <1>4 DEF Max

(* The outcomes of s behind the last success, and what the counter makes   *)
(* of a batch: they are added to what it was if there is no success.       *)
Behind(b, s) == {j \in s : \A i \in s : i >= j => b[i]}
Tally(f, b, s) == Cardinality(Behind(b, s)) + (IF Behind(b, s) = s THEN f ELSE 0)

LEMMA TallyStep ==
    ASSUME NEW n \in Nat, NEW f \in Nat, NEW b \in [1..n -> BOOLEAN], NEW s \in SUBSET (1..n), s # {}
    PROVE  /\ Max(s) \in s
           /\ Tally(f, b, s) = IF b[Max(s)] THEN Tally(f, b, s \ {Max(s)}) + 1 ELSE 0
<1>1. PICK m : m = Max(s)
  OBVIOUS
<1>2. m \in s /\ m \in 1..n /\ \A i \in s : i <= m
  <2>1. s \subseteq 0..n
    OBVIOUS
  <2> QED BY <1>1, <2>1, Largest
<1>3. IsFiniteSet(s \ {m})
  <2>1. IsFiniteSet(1..n)
    BY FS_Interval
  <2>2. s \ {m} \in SUBSET (1..n)
    OBVIOUS
  <2> QED BY <2>1, <2>2, FS_Subset
<1>4. CASE b[m]
  <2>1. Behind(b, s) = Behind(b, s \ {m}) \cup {m}
    BY <1>2, <1>4 DEF Behind
  <2>2. m \notin Behind(b, s \ {m}) /\ IsFiniteSet(Behind(b, s \ {m}))
    BY <1>3, FS_Subset DEF Behind
  <2>3. Cardinality(Behind(b, s)) = Cardinality(Behind(b, s \ {m})) + 1
    BY <2>1, <2>2, FS_AddElement
  <2>4. Behind(b, s) = s <=> Behind(b, s \ {m}) = s \ {m}
    BY <1>2, <2>1, <2>2
  <2>5. Cardinality(Behind(b, s \ {m})) \in Nat
    BY <2>2, FS_CardinalityType
  <2>6. Tally(f, b, s) = Tally(f, b, s \ {m}) + 1
    <3> DEFINE x == IF Behind(b, s) = s THEN f ELSE 0
    <3>1. Tally(f, b, s) = Cardinality(Behind(b, s)) + x
      BY DEF Tally
    <3>2. Tally(f, b, s \ {m}) = Cardinality(Behind(b, s \ {m})) + x
      BY <2>4 DEF Tally
    <3>3. x \in Nat
      OBVIOUS
    <3> HIDE DEF x
    <3> QED BY <2>3, <2>5, <3>1, <3>2, <3>3
  <2> QED BY <1>1, <1>2, <1>4, <2>6
<1>5. CASE ~b[m]
  <2>1. Behind(b, s) = {}
    BY <1>2, <1>5 DEF Behind
  <2> QED BY <1>1, <1>2, <1>5, <2>1, FS_EmptySet DEF Tally
<1> QED BY <1>4, <1>5, <1>2

(* The fold of the library is a function that the equation defines.        *)
Folds(iter, n, f, b) ==
    iter = [s \in SUBSET (1..n) |->
              IF s = {} THEN f ELSE IF b[Max(s)] THEN iter[s \ {Max(s)}] + 1 ELSE 0]

LEMMA FoldExists ==
    ASSUME NEW n \in Nat, NEW f \in Nat, NEW b \in [1..n -> BOOLEAN]
    PROVE  \E iter : Folds(iter, n, f, b)
<1> DEFINE g == [s \in SUBSET (1..n) |-> Tally(f, b, s)]
<1>1. Tally(f, b, {}) = f
  BY FS_EmptySet DEF Tally, Behind
<1>2. ASSUME NEW s \in SUBSET (1..n), s # {}
      PROVE  g[s] = IF b[Max(s)] THEN g[s \ {Max(s)}] + 1 ELSE 0
  <2>1. s \ {Max(s)} \in SUBSET (1..n)
    OBVIOUS
  <2>2. g[s] = Tally(f, b, s) /\ g[s \ {Max(s)}] = Tally(f, b, s \ {Max(s)})
    BY <2>1
  <2> HIDE DEF Tally, g
  <2> QED BY <1>2, <2>2, TallyStep
<1>3. \A s \in SUBSET (1..n) : g[s] = IF s = {} THEN f ELSE IF b[Max(s)] THEN g[s \ {Max(s)}] + 1 ELSE 0
  BY <1>1, <1>2
<1>4. g = [s \in SUBSET (1..n) |-> g[s]]
  OBVIOUS
<1> HIDE DEF g
<1> QED BY <1>3, <1>4 DEF Folds

(* Two such functions cannot differ on a smallest set.                     *)
LEMMA FoldIsTally ==
    ASSUME NEW n \in Nat, NEW f \in Nat, NEW b \in [1..n -> BOOLEAN], NEW iter, Folds(iter, n, f, b)
    PROVE  \A s \in SUBSET (1..n) : iter[s] = Tally(f, b, s)
<1> DEFINE Wrong(s) == s \subseteq 1..n /\ iter[s] # Tally(f, b, s)
           Sizes == {k \in Nat : \E s : Wrong(s) /\ Cardinality(s) = k}
<1>1. \A s \in SUBSET (1..n) : IsFiniteSet(s) /\ Cardinality(s) \in Nat
  <2>1. IsFiniteSet(1..n)
    BY FS_Interval
  <2> QED BY <2>1, FS_Subset, FS_CardinalityType
<1> SUFFICES ASSUME NEW s0, Wrong(s0) PROVE FALSE
  OBVIOUS
<1>2. Cardinality(s0) \in Sizes
  BY <1>1
<1>3. PICK k \in Sizes : \A j \in Sizes : k <= j
  BY <1>2, Smallest
<1>4. PICK s : Wrong(s) /\ Cardinality(s) = k
  BY <1>3
<1>5. iter[s] = IF s = {} THEN f ELSE IF b[Max(s)] THEN iter[s \ {Max(s)}] + 1 ELSE 0
  BY <1>4 DEF Folds
<1>6. s # {}
  <2> SUFFICES ASSUME s = {} PROVE FALSE
    OBVIOUS
  <2>1. Tally(f, b, s) = f
    BY FS_EmptySet DEF Tally, Behind
  <2> QED BY <1>4, <1>5, <2>1
<1>7. Max(s) \in s /\ Tally(f, b, s) = IF b[Max(s)] THEN Tally(f, b, s \ {Max(s)}) + 1 ELSE 0
  BY <1>4, <1>6, TallyStep
<1>8. Cardinality(s \ {Max(s)}) = Cardinality(s) - 1 /\ s \ {Max(s)} \in SUBSET (1..n)
  BY <1>1, <1>4, <1>7, FS_RemoveElement
<1>9. ~Wrong(s \ {Max(s)})
  <2> SUFFICES ASSUME Wrong(s \ {Max(s)}) PROVE FALSE
    OBVIOUS
  <2>1. Cardinality(s \ {Max(s)}) \in Sizes
    BY <1>1, <1>8
  <2> QED BY <1>3, <1>4, <1>8, <2>1
<1> QED BY <1>4, <1>5, <1>6, <1>7, <1>8, <1>9

(* What the counter makes of a batch: all its failures more, or those after *)
(* its last success, the k-th outcome.                                     *)
LEMMA TallyOfBatch ==
    ASSUME NEW n \in Nat, NEW f \in Nat, NEW b \in [1..n -> BOOLEAN]
    PROVE  \E k \in 0..n : /\ Tally(f, b, 1..n) = (IF k = 0 THEN f + n ELSE n - k)
                           /\ k # 0 => ~b[k]
<1> DEFINE Good == {i \in 1..n : ~b[i]}
<1>1. CASE Good = {}
  <2>1. Behind(b, 1..n) = 1..n
    BY <1>1 DEF Behind
  <2>2. Cardinality(1..n) = n
    <3>1. Cardinality(1..n) = IF 1 > n THEN 0 ELSE n - 1 + 1
      BY FS_Interval
    <3> QED BY <3>1
  <2>3. Tally(f, b, 1..n) = f + n
    BY <2>1, <2>2 DEF Tally
  <2> HIDE DEF Good
  <2>4. 0 \in 0..n
    OBVIOUS
  <2> QED BY <2>3, <2>4
<1>2. CASE Good # {}
  <2>1. Good \subseteq 0..n
    OBVIOUS
  <2>2. PICK k \in Good : \A i \in Good : i <= k
    <3> HIDE DEF Good
    <3> QED BY <1>2, <2>1, Largest
  <2>3. Behind(b, 1..n) = (k + 1)..n
    BY <2>2 DEF Behind
  <2>4. Cardinality((k + 1)..n) = n - k
    BY <2>2, FS_Interval
  <2>5. (k + 1)..n # 1..n
    BY <2>2
  <2>6. Tally(f, b, 1..n) = n - k
    BY <2>3, <2>4, <2>5 DEF Tally
  <2>7. k \in 0..n /\ k # 0 /\ ~b[k]
    BY <2>2
  <2> QED BY <2>6, <2>7
<1> QED BY <1>1, <1>2

(* react_agent.go 149-175 for a whole batch.                               *)
LEMMA FailuresOfCalls ==
    ASSUME NEW t, NEW n \in Nat, DOMAIN InOrder(turn[t].calls) = 1..n, turn[t].fails \in Nat
    PROVE  \E k \in 0..n : /\ Failures(t) = (IF k = 0 THEN turn[t].fails + n ELSE n - k)
                           /\ k # 0 => ~Failed(t, InOrder(turn[t].calls)[k])
<1> DEFINE q == InOrder(turn[t].calls)
           b == [i \in 1..n |-> Failed(t, q[i])]
<1>1. b \in [1..n -> BOOLEAN]
  BY DEF Failed
<1> DEFINE Eq(iter) == iter = [s \in SUBSET (DOMAIN q) |->
                IF s = {} THEN turn[t].fails
                ELSE IF Failed(t, q[Max(s)]) THEN iter[s \ {Max(s)}] + 1 ELSE 0]
           fold == CHOOSE iter : Eq(iter)
<1>2. Failures(t) = fold[DOMAIN q]
  BY DEF Failures, FoldLeft, MapThenFoldSet
<1>3. \A s \in SUBSET (1..n) : s # {} => Failed(t, q[Max(s)]) = b[Max(s)]
  <2> TAKE s \in SUBSET (1..n)
  <2>1. s # {} => Max(s) \in 1..n
    <3>1. s \subseteq 0..n
      OBVIOUS
    <3> QED BY <3>1, Largest
  <2> QED BY <2>1
<1>4. DOMAIN q = 1..n
  OBVIOUS
<1> HIDE DEF b, q
<1>5. \A iter : Eq(iter) <=> Folds(iter, n, turn[t].fails, b)
  BY <1>3, <1>4 DEF Folds
<1>6. Folds(fold, n, turn[t].fails, b)
  <2> HIDE DEF Eq
  <2>1. \E iter : Eq(iter)
    BY <1>1, <1>5, FoldExists
  <2> QED BY <2>1, <1>5
<1> HIDE DEF fold
<1>7. Failures(t) = Tally(turn[t].fails, b, 1..n)
  BY <1>1, <1>2, <1>4, <1>6, FoldIsTally
<1>8. PICK k \in 0..n : /\ Failures(t) = (IF k = 0 THEN turn[t].fails + n ELSE n - k)
                        /\ k # 0 => ~b[k]
  BY <1>1, <1>7, TallyOfBatch
<1> QED BY <1>8 DEF b, q

(* The last k elements of a sequence, counted from its end.                *)
LEMMA LastOnes ==
    ASSUME NEW S, NEW s \in Seq(S), NEW l \in Nat, l = Len(s), NEW k \in 1..l
    PROVE  /\ SubSeq(s, l - k + 1, l) \in Seq(S) /\ Len(SubSeq(s, l - k + 1, l)) = k
           /\ \A j \in 0..(k - 1) : SubSeq(s, l - k + 1, l)[k - j] = s[l - j]
<1> DEFINE from == l - k + 1
<1>1. from \in Int /\ from <= l /\ l - from + 1 = k /\ \A i \in from..l : i \in 1..l
  OBVIOUS
<1> HIDE DEF from
<1>2. \A i \in 1..l : s[i] \in S
  OBVIOUS
<1>3. \A i \in from..l : s[i] \in S
  BY <1>1, <1>2
<1>4. /\ SubSeq(s, from, l) \in Seq(S)
      /\ Len(SubSeq(s, from, l)) = IF from <= l THEN l - from + 1 ELSE 0
      /\ \A i \in 1..(l - from + 1) : SubSeq(s, from, l)[i] = s[from + i - 1]
  BY <1>1, <1>3, SubSeqProperties, SMTT(30)
<1>5. \A j \in 0..(k - 1) : SubSeq(s, from, l)[k - j] = s[l - j]
  <2> TAKE j \in 0..(k - 1)
  <2>1. PICK i \in 1..k : i = k - j
    OBVIOUS
  <2>2. SubSeq(s, from, l)[i] = s[from + i - 1]
    BY <1>1, <1>4
  <2>3. from + i - 1 = l - j
    BY <2>1 DEF from
  <2> QED BY <2>1, <2>2, <2>3
<1> QED BY <1>1, <1>4, <1>5 DEF from

LEMMA FromTheEnd ==
    ASSUME NEW m \in Nat, NEW n \in Nat, NEW j \in 0..(m + n - 1)
    PROVE  /\ m + n - j \in 1..(m + n)
           /\ j < n => ~(m + n - j <= m) /\ m + n - j - m = n - j /\ n - j \in 1..n
           /\ ~(j < n) => m + n - j <= m
OBVIOUS

(* What a batch does to the turn's last outcomes: the new ones behind, and *)
(* of all of them at most Threshold.                                       *)
Lasts(s, l, t, n, m) ==
    /\ s \in Seq(BOOLEAN) /\ Len(s) = l /\ l <= m + n
    /\ \A j \in 0..(l - 1) : s[l - j] = IF j < n THEN Failed(t, InOrder(turn[t].calls)[n - j])
                                       ELSE last[t][m + n - j]

LEMMA OutcomesOfCalls ==
    ASSUME NEW t, NEW n \in Nat, DOMAIN InOrder(turn[t].calls) = 1..n, last[t] \in Seq(BOOLEAN),
           NEW m \in Nat, m = Len(last[t])
    PROVE  \E l \in 0..Threshold : Lasts(Outcomes(t), l, t, n, m)
<1> DEFINE q == InOrder(turn[t].calls)
           batch == [i \in DOMAIN q |-> Failed(t, q[i])]
           all == last[t] \o batch
<1>1. batch \in Seq(BOOLEAN) /\ Len(batch) = n /\ \A i \in 1..n : batch[i] = Failed(t, q[i])
  <2>1. batch = [i \in 1..n |-> Failed(t, q[i])] /\ \A i \in 1..n : Failed(t, q[i]) \in BOOLEAN
    BY DEF Failed
  <2> HIDE DEF batch, q
  <2>2. batch \in [1..n -> BOOLEAN]
    BY <2>1
  <2>3. batch \in Seq(BOOLEAN)
    BY <2>2
  <2> QED BY <2>1, <2>2, <2>3
<1>2. Outcomes(t) = IF Len(all) <= Threshold THEN all
                    ELSE SubSeq(all, Len(all) - Threshold + 1, Len(all))
  BY DEF Outcomes
<1> HIDE DEF batch, q
<1>3. /\ all \in Seq(BOOLEAN) /\ Len(all) = m + n
      /\ \A i \in 1..(m + n) : all[i] = IF i <= m THEN last[t][i] ELSE batch[i - m]
  <2>1. /\ all \in Seq(BOOLEAN) /\ Len(all) = Len(last[t]) + Len(batch)
        /\ \A i \in 1..(Len(last[t]) + Len(batch)) :
              all[i] = IF i <= Len(last[t]) THEN last[t][i] ELSE batch[i - Len(last[t])]
    <3>1. last[t] \in Seq(BOOLEAN) /\ batch \in Seq(BOOLEAN)
      BY <1>1
    <3> QED BY <3>1, ConcatProperties
  <2> HIDE DEF all
  <2> QED BY <1>1, <2>1
<1> HIDE DEF all
<1>4. \A j \in 0..(m + n - 1) :
         all[m + n - j] = IF j < n THEN Failed(t, q[n - j]) ELSE last[t][m + n - j]
  <2> TAKE j \in 0..(m + n - 1)
  <2>1. PICK i \in 1..(m + n) : i = m + n - j
    BY FromTheEnd
  <2>2. all[i] = IF i <= m THEN last[t][i] ELSE batch[i - m]
    BY <1>3
  <2>3. CASE j < n
    <3>1. ~(i <= m) /\ i - m = n - j /\ n - j \in 1..n
      BY <2>1, <2>3, FromTheEnd
    <3> QED BY <1>1, <2>1, <2>2, <2>3, <3>1
  <2>4. CASE ~(j < n)
    <3>1. i <= m
      BY <2>1, <2>4, FromTheEnd
    <3> QED BY <2>1, <2>2, <2>4, <3>1
  <2> QED BY <2>3, <2>4
<1>l. Len(all) = m + n
  BY <1>3
<1>5. CASE m + n <= Threshold
  <2>1. Outcomes(t) = all
    BY <1>2, <1>l, <1>5
  <2>2. m + n \in 0..Threshold /\ m + n <= m + n
    BY <1>5
  <2>3. Lasts(all, m + n, t, n, m)
    BY <1>3, <1>4, <2>2 DEF Lasts, q
  <2> QED BY <2>1, <2>2, <2>3
<1>6. CASE ~(m + n <= Threshold)
  <2> DEFINE cut == SubSeq(all, m + n - Threshold + 1, m + n)
  <2>1. Outcomes(t) = cut
    <3>1. ~(Len(all) <= Threshold)
      BY <1>l, <1>6
    <3>2. PICK a, b : a = Len(all) - Threshold + 1 /\ b = Len(all) /\ Outcomes(t) = SubSeq(all, a, b)
      BY <1>2, <3>1
    <3>3. a = m + n - Threshold + 1 /\ b = m + n
      BY <1>l, <3>2
    <3> QED BY <3>2, <3>3
  <2>2. Threshold \in 1..(m + n) /\ m + n \in Nat
    BY <1>6
  <2>3. cut \in Seq(BOOLEAN) /\ Len(cut) = Threshold
        /\ \A j \in 0..(Threshold - 1) : cut[Threshold - j] = all[m + n - j]
    BY <1>3, <2>2, LastOnes, SMTT(30)
  <2> HIDE DEF cut
  <2>4. \A j \in 0..(Threshold - 1) : j \in 0..(m + n - 1)
    BY <2>2
  <2>5. \A j \in 0..(Threshold - 1) :
           cut[Threshold - j] = IF j < n THEN Failed(t, q[n - j]) ELSE last[t][m + n - j]
    BY <1>4, <2>3, <2>4
  <2>6. Threshold \in 0..Threshold /\ Threshold <= m + n
    BY <2>2
  <2>7. Lasts(cut, Threshold, t, n, m)
    BY <2>3, <2>5, <2>6 DEF Lasts, q
  <2> QED BY <2>1, <2>6, <2>7
<1> QED BY <1>5, <1>6

(* The counter is never less than the outcomes since the last success.     *)
Streak(n, s) == n < Len(s) => ~s[Len(s) - n]

LEMMA BatchKeeps ==
    ASSUME NEW t, turn[t].calls \subseteq Calls, turn[t].fails \in Nat, last[t] \in Seq(BOOLEAN)
    PROVE  /\ Failures(t) \in Nat
           /\ Outcomes(t) \in Seq(BOOLEAN) /\ Len(Outcomes(t)) <= Threshold
           /\ Streak(turn[t].fails, last[t]) => Streak(Failures(t), Outcomes(t))
<1>1. PICK n \in Nat : DOMAIN InOrder(turn[t].calls) = 1..n
  <2>1. IsFiniteSet(Calls)
    BY FS_Interval
  <2>2. Cardinality(turn[t].calls) \in Nat
    BY <2>1, FS_Subset, FS_CardinalityType
  <2> QED BY <2>2 DEF InOrder
<1>2. PICK k \in 0..n : /\ Failures(t) = (IF k = 0 THEN turn[t].fails + n ELSE n - k)
                        /\ k # 0 => ~Failed(t, InOrder(turn[t].calls)[k])
  BY <1>1, FailuresOfCalls
<1>3. PICK m \in Nat : m = Len(last[t])
  BY LenProperties
<1>4. PICK l \in 0..Threshold : Lasts(Outcomes(t), l, t, n, m)
  BY <1>1, <1>3, OutcomesOfCalls
<1>5. PICK f \in Nat : f = Failures(t)
  BY <1>2
<1>6. ASSUME Streak(turn[t].fails, last[t]), f < l
      PROVE  ~Outcomes(t)[l - f]
  <2>1. Outcomes(t)[l - f] = IF f < n THEN Failed(t, InOrder(turn[t].calls)[n - f])
                             ELSE last[t][m + n - f]
    <3>1. f \in 0..(l - 1)
      BY <1>6
    <3> QED BY <1>4, <3>1 DEF Lasts
  <2>2. CASE k = 0
    <3>1. PICK g \in Nat : g = turn[t].fails
      OBVIOUS
    <3>2. f = g + n
      BY <1>2, <1>5, <2>2, <3>1
    <3>3. ~(f < n) /\ m + n - f = m - g /\ g < m
      BY <1>4, <1>6, <3>2 DEF Lasts
    <3> QED BY <1>3, <1>6, <2>1, <3>1, <3>3 DEF Streak
  <2>3. CASE k # 0
    <3>1. f = n - k
      BY <1>2, <1>5, <2>3
    <3>2. f < n /\ n - f = k
      BY <2>3, <3>1
    <3> QED BY <1>2, <2>1, <2>3, <3>2
  <2> QED BY <2>2, <2>3
<1> QED BY <1>4, <1>5, <1>6 DEF Streak, Lasts

(* A turn that is on its way out makes no model call any more.             *)
Going == {"leaving", "left", "ended"}

(* One whose failures count: not resumed, or not known to be.              *)
Counting(r) == r.pc \notin Going /\ (r.resumed => r.pc \in {"idle", "admitted", "bumped"})

Counted(t) ==
    /\ turn[t].calls \subseteq Calls /\ turn[t].fails \in Nat
    /\ last[t] \in Seq(BOOLEAN) /\ Len(last[t]) <= Threshold
    /\ Counting(turn[t]) => turn[t].fails < Threshold /\ Streak(turn[t].fails, last[t])

RestorableCalls == "calls" \in DOMAIN runtime /\ runtime.calls \subseteq Calls

BreakerInv == RestorableCalls /\ DOMAIN last = Turns /\ \A t \in Turns : Counted(t)

(* A step that leaves a turn's counter and outcomes alone.                 *)
LEMMA CountedStays ==
    ASSUME NEW t \in Turns, Counted(t), UNCHANGED <<turn[t].fails, last[t]>>,
           turn'[t].calls \subseteq Calls, Counting(turn'[t]) => Counting(turn[t])
    PROVE  Counted(t)'
BY DEF Counted

(* The other turns' are not touched.                                       *)
LEMMA CountedElsewhere ==
    ASSUME NEW t \in Turns, Counted(t), turn'[t] = turn[t], last'[t] = last[t]
    PROVE  Counted(t)'
BY DEF Counted

(* Again leaves all but the place and the number of iterations.            *)
LEMMA AgainCounts ==
    ASSUME NEW r, IsTurn(r)
    PROVE  Again(r).calls = r.calls /\ Again(r).fails = r.fails
BY DEF Again, IsTurn

(* Of its own record a turn changes neither the count nor the calls, or    *)
(* takes others: the model's, the suspended ones, those approved.          *)
LEMMA CallsMove ==
    ASSUME Types, RestorableCalls, NEW t \in Turns, turn[t].calls \subseteq Calls,
           Moving(t), ~Join(t), ~Retire(t)
    PROVE  turn'[t].fails = turn[t].fails /\ turn'[t].calls \subseteq Calls
<1>0. IsTurn(turn[t]) /\ t \in DOMAIN turn
  BY DEF Types
<1>1. ASSUME NEW pc, Go(t, pc)
      PROVE  turn'[t].fails = turn[t].fails /\ turn'[t].calls = turn[t].calls
  BY <1>0, <1>1 DEF Go, IsTurn
<1>2. CASE turn' = [turn EXCEPT ![t] = Again(@)]
  BY <1>0, <1>2, AgainCounts
<1>3. CASE Open(t) \/ Cancel(t)
  BY <1>0, <1>3 DEF Open, Cancel, IsTurn
<1>4. CASE \E k \in {runtime.k} :
              turn' = [turn EXCEPT ![t].pc = "asked", ![t].k = k,
                                   ![t].calls = runtime.calls, ![t].checked = TRUE]
  BY <1>0, <1>4 DEF IsTurn, RestorableCalls
<1>5. CASE \E S \in SUBSET Calls :
              turn' = [turn EXCEPT ![t].pc = "answered", ![t].calls = S, ![t].checked = FALSE]
  BY <1>0, <1>5 DEF IsTurn
<1>6. CASE \E A \in SUBSET turn[t].calls :
              turn' = [turn EXCEPT ![t].pc = "execute", ![t].calls = A, ![t].saved = engine]
  BY <1>0, <1>6 DEF IsTurn
<1>7. CASE turn' = [turn EXCEPT ![t].pc = "execute", ![t].checked = engine]
           \/ turn' = [turn EXCEPT ![t].pc = "asked", ![t].k = asks', ![t].checked = TRUE]
  BY <1>0, <1>7 DEF IsTurn
<1>8. CASE Enter(t)
  BY <1>1, <1>4, <1>8 DEF Enter
<1>9. CASE ModelAnswers(t)
  BY <1>1, <1>5, <1>9 DEF ModelAnswers
<1>10. CASE Answer(t)
  BY <1>1, <1>2, <1>6, <1>10 DEF Answer
<1>11. CASE Act(t)
  BY <1>1, <1>7, <1>11 DEF Act
<1>12. CASE Examine(t)
  BY <1>1, <1>2, <1>12 DEF Examine
<1>13. CASE \/ ReplyStream(t) \/ BumpActive(t) \/ Leave(t) \/ Finish(t) \/ Drain(t) \/ Guard(t)
            \/ CallModel(t) \/ ModelAborts(t) \/ Park(t) \/ GiveUp(t) \/ Execute(t)
  BY <1>1, <1>13 DEF ReplyStream, BumpActive, Leave, Finish, Drain, Guard, CallModel, ModelAborts,
                     Park, GiveUp, Execute
<1> QED BY <1>3, <1>8, <1>9, <1>10, <1>11, <1>12, <1>13 DEF Moving, Step

(* What is suspended are calls of a turn.                                  *)
LEMMA RestorableStep ==
    ASSUME RestorableCalls, \A t \in Turns : turn[t].calls \subseteq Calls, [Next]_vars
    PROVE  RestorableCalls'
<1>1. ASSUME NEW S, S \subseteq Calls, runtime' = [runtime EXCEPT !.calls = S] PROVE RestorableCalls'
  BY <1>1 DEF RestorableCalls
<1>2. ASSUME NEW k, runtime' = [runtime EXCEPT !.k = k] PROVE RestorableCalls'
  BY <1>2 DEF RestorableCalls
<1>3. CASE runtime' = runtime
  BY <1>3 DEF RestorableCalls
<1>4. ASSUME NEW t \in Turns, Moving(t) PROVE RestorableCalls'
  <2>1. CASE Open(t)
    BY <2>1 DEF Open, RestorableCalls
  <2>2. CASE Finish(t) \/ Guard(t) \/ Examine(t)
    BY <1>1, <1>3, <2>2 DEF Finish, Guard, Examine
  <2>3. CASE Park(t) \/ Answer(t)
    BY <1>2, <1>3, <2>3 DEF Park, Answer
  <2>4. CASE \/ ReplyStream(t) \/ BumpActive(t) \/ Enter(t) \/ Leave(t) \/ Retire(t) \/ Drain(t)
             \/ CallModel(t) \/ ModelAnswers(t) \/ ModelAborts(t) \/ Act(t) \/ GiveUp(t)
             \/ Execute(t) \/ Join(t) \/ Cancel(t)
    <3>1. runtime' = runtime
      BY <2>4 DEF ReplyStream, BumpActive, Enter, Leave, Retire, Drain, CallModel, ModelAnswers,
                  ModelAborts, Act, GiveUp, Execute, Join, Cancel, held
    <3> QED BY <1>3, <3>1
  <2> QED BY <1>4, <2>1, <2>2, <2>3, <2>4 DEF Moving, Step
<1>5. CASE Bystander
  <2>1. runtime' = runtime
    BY <1>5 DEF Bystander, Tool, BeforeTool, AfterTool, Steer, Interrupt, Shutdown, ShutdownDone,
                vars, held
  <2> QED BY <1>3, <2>1
<1> QED BY <1>4, <1>5 DEF Next, Moving, Bystander

(* react_agent.go 149-175: the turn goes on only below the threshold.      *)
LEMMA JoinCounts ==
    ASSUME Types, NEW t \in Turns, DOMAIN last = Turns, Counted(t), Join(t), turn[t].pc \notin Going
    PROVE  Counted(t)'
<1>1. IsTurn(turn[t]) /\ DOMAIN turn = Turns
  BY DEF Types
<1>2. PICK n : /\ n = IF turn[t].resumed THEN 0 ELSE Failures(t)
               /\ LET r == [turn[t] EXCEPT !.fails = n] IN
                  turn'[t] = IF HookEnded(t) \/ r.fails >= Threshold THEN [r EXCEPT !.pc = "leaving"]
                             ELSE IF r.resumed THEN [r EXCEPT !.pc = "ready"]
                             ELSE Again(r)
  BY <1>1 DEF Join
<1>3. last'[t] = IF HookEnded(t) THEN last[t] ELSE Outcomes(t)
  BY DEF Join
<1> DEFINE r == [turn[t] EXCEPT !.fails = n]
<1>4. IsTurn(r) /\ r.fails = n /\ r.calls = turn[t].calls /\ r.resumed = turn[t].resumed
  BY <1>1 DEF IsTurn
<1>5. \/ turn'[t] = [r EXCEPT !.pc = "leaving"]
      \/ /\ ~HookEnded(t) /\ ~(n >= Threshold)
         /\ (r.resumed /\ turn'[t] = [r EXCEPT !.pc = "ready"]) \/ turn'[t] = Again(r)
  BY <1>2, <1>4
<1> HIDE DEF r
<1>6. turn'[t].fails = n /\ turn'[t].calls = turn[t].calls /\ turn'[t].resumed = turn[t].resumed
  <2>1. CASE turn'[t] = Again(r)
    <3>1. Again(r).resumed = r.resumed
      BY <1>4 DEF Again, IsTurn
    <3> QED BY <1>4, <2>1, <3>1, AgainCounts
  <2>2. CASE \E pc \in {"leaving", "ready"} : turn'[t] = [r EXCEPT !.pc = pc]
    BY <1>4, <2>2 DEF IsTurn
  <2> QED BY <1>5, <2>1, <2>2
<1>7. turn'[t].pc \notin Going => ~HookEnded(t) /\ ~(n >= Threshold)
  <2>1. turn'[t] = [r EXCEPT !.pc = "leaving"] => turn'[t].pc = "leaving"
    BY <1>4 DEF IsTurn
  <2> QED BY <1>5, <2>1 DEF Going
<1>8. Failures(t) \in Nat /\ Outcomes(t) \in Seq(BOOLEAN) /\ Len(Outcomes(t)) <= Threshold
  BY BatchKeeps DEF Counted
<1>9. ~turn[t].resumed => Streak(Failures(t), Outcomes(t))
  BY BatchKeeps DEF Counted, Counting
<1>10. n \in Nat /\ last'[t] \in Seq(BOOLEAN) /\ Len(last'[t]) <= Threshold
  BY <1>2, <1>3, <1>8 DEF Counted
<1>11. ASSUME Counting(turn'[t])
       PROVE  n < Threshold /\ Streak(n, last'[t])
  <2>1. n < Threshold /\ last'[t] = Outcomes(t)
    BY <1>3, <1>7, <1>10, <1>11 DEF Counting
  <2>2. ~turn[t].resumed
    BY <1>5, <1>6, <1>11, <1>4 DEF Counting, Again, IsTurn
  <2> QED BY <1>2, <1>9, <2>1, <2>2
<1> QED BY <1>6, <1>10, <1>11 DEF Counted

LEMMA BreakerStep == ASSUME Types, BreakerInv, [Next]_vars PROVE BreakerInv'
<1> USE DEF BreakerInv
<1>1. RestorableCalls'
  BY RestorableStep DEF Counted
<1>2. ASSUME NEW t \in Turns, Moving(t) PROVE (DOMAIN last = Turns /\ \A u \in Turns : Counted(u))'
  <2>1. /\ DOMAIN last' = Turns
        /\ \A u \in Turns \ {t} : last'[u] = last[u]
        /\ ~Join(t) /\ ~Retire(t) => last'[t] = last[t]
    <3>1. CASE Join(t)
      BY <3>1 DEF Join
    <3>2. CASE Retire(t)
      BY <3>2 DEF Retire
    <3>3. CASE ~Join(t) /\ ~Retire(t)
      <4>1. last' = last
        BY <1>2, <3>3 DEF Moving, Step, ReplyStream, BumpActive, Open, Enter, Leave, Finish, Drain, Guard,
            CallModel, ModelAnswers, ModelAborts, Examine, Act, Park, Answer, GiveUp, Execute, Cancel,
            history
      <4> QED BY <4>1
    <3> QED BY <3>1, <3>2, <3>3
  <2>2. /\ DOMAIN turn' = Turns /\ \A u \in Turns \ {t} : turn'[u] = turn[u]
        /\ ~Retire(t) /\ ~Join(t) => (Counting(turn'[t]) => Counting(turn[t]))
    <3>1. CASE ReplyStream(t) \/ BumpActive(t) \/ Open(t)
      <4>1. Counting(turn[t])
        BY <3>1 DEF Counting, Going, At, ReplyStream, BumpActive, Open
      <4> QED BY <3>1, <4>1, Moved DEF Moves, Sets
    <3>2. CASE Leave(t) \/ Finish(t) \/ ModelAborts(t) \/ GiveUp(t)
      BY <3>2, Moved DEF Moves, Sets, Counting, Going
    <3>3. CASE \/ Enter(t) \/ Drain(t) \/ Guard(t) \/ CallModel(t) \/ ModelAnswers(t) \/ Examine(t)
               \/ Act(t) \/ Park(t) \/ Answer(t) \/ Execute(t)
      <4>1. turn[t].pc \notin Going
        BY <3>3 DEF Going, At, Enter, Drain, Guard, CallModel, ModelAnswers, Examine, Act, Park,
                    Answer, Execute
      <4>2. PICK p \in PCs \ {"idle", "admitted", "bumped"} :
               \E r \in {TRUE, turn[t].resumed} : \E c, s : Sets(t, p, r, c, s)
        BY <3>3, Moved DEF Moves, PCs
      <4> QED BY <4>1, <4>2 DEF Sets, Counting
    <3>4. CASE Retire(t) \/ Join(t)
      BY <3>4, Moved DEF Moves, Sets
    <3>5. CASE Cancel(t)
      BY <3>5, Moved DEF Moves, Sets, Counting
    <3> QED BY <1>2, <3>1, <3>2, <3>3, <3>4, <3>5 DEF Moving, Step
  <2>3. \A u \in Turns \ {t} : Counted(u)'
    BY <2>1, <2>2, CountedElsewhere
  <2>4. Counted(t)'
    <3>1. CASE Join(t)
      <4>1. turn[t].pc \notin Going
        BY <3>1 DEF Join, At, Going
      <4> QED BY <3>1, <4>1, JoinCounts
    <3>2. CASE Retire(t)
      <4>1. turn'[t].fails = 0 /\ turn'[t].calls = {} /\ last'[t] = <<>>
        BY <3>2 DEF Retire, Types, Fresh
      <4> QED BY <4>1, EmptySeq DEF Counted, Streak
    <3>3. CASE ~Join(t) /\ ~Retire(t)
      <4>1. turn'[t].fails = turn[t].fails /\ turn'[t].calls \subseteq Calls
        BY <1>2, <3>3, CallsMove DEF Counted
      <4> QED BY <2>1, <2>2, <3>3, <4>1, CountedStays
    <3> QED BY <3>1, <3>2, <3>3
  <2> QED BY <2>1, <2>3, <2>4
<1>3. CASE Bystander
  <2>1. UNCHANGED <<turn, last>>
    BY <1>3 DEF Bystander, Tool, BeforeTool, AfterTool, Steer, Interrupt, Shutdown, ShutdownDone, vars,
        loop, history
  <2> QED BY <1>1, <2>1, CountedElsewhere
<1> QED BY <1>1, <1>2, <1>3 DEF Next, Moving, Bystander

(* react_agent.go 149-175: across batches, denials and hooks that go back  *)
(* to reasoning, no model call follows Threshold failures in a row.        *)
THEOREM RetriesStop == Spec => []RetryStormStops
<1>1. Init => BreakerInv
  <2> SUFFICES ASSUME Init PROVE BreakerInv
    OBVIOUS
  <2>1. RestorableCalls
    BY DEF Init, RestorableCalls
  <2>2. ASSUME NEW t \in Turns PROVE Counted(t)
    <3>1. turn[t] = Fresh /\ last[t] = <<>>
      BY DEF Init
    <3> QED BY <3>1, EmptySeq DEF Counted, Streak, Fresh
  <2> QED BY <2>1, <2>2 DEF Init, BreakerInv
<1>2. Types /\ BreakerInv /\ [Next]_vars => Types' /\ BreakerInv'
  BY TypesStep, BreakerStep
<1>3. BreakerInv => RetryStormStops
  <2> SUFFICES ASSUME BreakerInv, NEW t \in Turns, turn[t].pc = "ready", ~turn[t].resumed
               PROVE  \/ Len(last[t]) < Threshold
                      \/ \E i \in 1..Threshold : ~last[t][i]
    BY DEF RetryStormStops, At
  <2>1. Counted(t) /\ Counting(turn[t])
    BY DEF BreakerInv, Counting, Going
  <2>2. PICK f, m \in Nat : f = turn[t].fails /\ m = Len(last[t])
    BY <2>1, LenProperties DEF Counted
  <2>3. f < Threshold /\ m <= Threshold /\ (f < m => ~last[t][m - f])
    BY <2>1, <2>2 DEF Counted, Streak
  <2>4. m = Threshold => m - f \in 1..Threshold
    BY <2>2, <2>3
  <2> QED BY <2>2, <2>3, <2>4
<1> QED BY TypesInit, <1>1, <1>2, <1>3, PTL DEF Spec
=============================================================================
