-------------------------- MODULE WakeupWorker_proof --------------------------
(***************************************************************************)
(* Proofs about WakeupWorker, for any workers, handlers and messages.      *)
(***************************************************************************)
EXTENDS WakeupWorker, FiniteSetTheorems, SequenceTheorems, TLAPS

USE WakeupAssumption

Roles == {"acquire", "start", "hold", "stop", "release", "over", "dead"}
HandlerRecords ==
    [pc : {"idle", "check", "poll", "look", "drain", "build", "start", "requeue"},
     at : Workers \cup {None}, live : BOOLEAN, msgs : Seq(Messages)]

(* The parts of a step that the role loops, the dispatcher and the bus do. *)
RoleStep == \E w \in Workers : Work(w) \/ Leave(w) \/ RunOut(w) \/ Crash(w) \/ UserTurn(w)
SendStep == EndTurn \/ \E m \in Messages : Push(m) \/ Wake(m)
HandlerStep == \E h \in Handlers : Handle(h) \/ \E w \in Workers : Receive(w, h)

(* Every step is one of these, or stutters.                                *)
LEMMA Steps == [Next]_vars => RoleStep \/ SendStep \/ HandlerStep \/ UNCHANGED vars
BY DEF Next, RoleStep, SendStep, HandlerStep

-----------------------------------------------------------------------------
(* Shapes.                                                                 *)

(* A goroutine that starts, moves, is cut off or ends is a handler record.  *)
LEMMA HandlerUpdates ==
    ASSUME NEW r \in HandlerRecords, NEW w \in Workers
    PROVE  /\ Idle \in HandlerRecords
           /\ [Idle EXCEPT !.pc = "check", !.at = w, !.live = TRUE] \in HandlerRecords
           /\ [r EXCEPT !.live = FALSE] \in HandlerRecords
           /\ \A pc \in {"poll", "look", "drain", "start", "requeue"} :
                 [r EXCEPT !.pc = pc] \in HandlerRecords
           /\ \A s \in Seq(Messages) : /\ [r EXCEPT !.msgs = s] \in HandlerRecords
                                       /\ [r EXCEPT !.pc = "build", !.msgs = s] \in HandlerRecords
BY EmptySeq DEF HandlerRecords, Idle

(* worker.go 119-200, dispatcher.go 109-150: the role loops keep the shapes. *)
LEMMA RoleTypeStep == ASSUME TypeOK, RoleStep PROVE TypeOK'
<1> USE DEF TypeOK, bus, history
<1>h. handler \in [Handlers -> HandlerRecords]
  BY DEF HandlerRecords
<1>1. ASSUME NEW w \in Workers, Acquire(w) PROVE TypeOK'
  BY <1>1 DEF Acquire, Listening
<1>2. ASSUME NEW w \in Workers, StartRole(w) PROVE TypeOK'
  BY <1>2 DEF StartRole, Listening
<1>3. ASSUME NEW w \in Workers, StartFails(w) PROVE TypeOK'
  BY <1>3 DEF StartFails, Listening
<1>4. ASSUME NEW w \in Workers, LoseRole(w) PROVE TypeOK'
  BY <1>4 DEF LoseRole, Listening
<1>5. ASSUME NEW w \in Workers, StopRole(w) PROVE TypeOK'
  <2>1. handler' \in [Handlers -> HandlerRecords]
    BY <1>h, <1>5, HandlerUpdates DEF StopRole
  <2>2. buf' \in [Workers -> 0..Buffer] /\ \A v \in Workers : buf'[v] > 0 => Listening(v)'
    BY <1>5 DEF StopRole, Listening
  <2>3. role' \in [Workers -> Roles] /\ cut' = TRUE
    BY <1>5 DEF StopRole, Roles
  <2>4. UNCHANGED <<bus, leaving, faults, delivered, late, calm>>
    BY <1>5 DEF StopRole
  <2> QED BY <2>1, <2>2, <2>3, <2>4 DEF HandlerRecords, Roles
<1>6. ASSUME NEW w \in Workers, Release(w) PROVE TypeOK'
  BY <1>6 DEF Release, Listening
<1>7. ASSUME NEW w \in Workers, Leave(w) PROVE TypeOK'
  BY <1>7 DEF Leave, Listening
<1>8. ASSUME NEW w \in Workers, RunOut(w) PROVE TypeOK'
  <2>1. faults' \in 0..MaxFaults /\ lease' = None
    BY <1>8 DEF RunOut
  <2>3. late' = late \/ late' = TRUE
    BY <1>8 DEF RunOut
  <2>2. UNCHANGED <<inbox, sent, session, command, role, leaving, buf, handler, delivered, cut, calm>>
    BY <1>8 DEF RunOut
  <2> QED BY <2>1, <2>2, <2>3 DEF Listening
<1>9. ASSUME NEW w \in Workers, Crash(w) PROVE TypeOK'
  <2>1. handler' \in [Handlers -> HandlerRecords]
    BY <1>h, <1>9, HandlerUpdates DEF Crash
  <2>2. buf' \in [Workers -> 0..Buffer] /\ \A v \in Workers : buf'[v] > 0 => Listening(v)'
    BY <1>9 DEF Crash, Listening
  <2>3. role' \in [Workers -> Roles] /\ cut' = TRUE
    BY <1>9 DEF Crash, Roles
  <2>4. faults' \in 0..MaxFaults /\ session' \in Workers \cup {None}
    BY <1>9 DEF Crash
  <2>5. UNCHANGED <<lease, inbox, sent, command, leaving, delivered, late, calm>>
    BY <1>9 DEF Crash
  <2> QED BY <2>1, <2>2, <2>3, <2>4, <2>5 DEF HandlerRecords, Roles
<1>10. ASSUME NEW w \in Workers, UserTurn(w) PROVE TypeOK'
  BY <1>10 DEF UserTurn, Listening
<1> QED BY <1>1, <1>2, <1>3, <1>4, <1>5, <1>6, <1>7, <1>8, <1>9, <1>10 DEF RoleStep, Work

(* team_bus.go 78-96: a signal fills the channel of a listener only.       *)
LEMMA SignalType ==
    ASSUME TypeOK, Signal, UNCHANGED role
    PROVE  /\ buf' \in [Workers -> 0..Buffer] /\ \A w \in Workers : buf'[w] > 0 => Listening(w)'
           /\ calm' \in BOOLEAN
<1>1. calm' \in BOOLEAN
  BY DEF Signal, TypeOK
<1>2. buf' \in [Workers -> 0..Buffer] /\ \A w \in Workers : buf'[w] > 0 => Listening(w)'
  BY DEF Signal, TypeOK, Listening
<1> QED BY <1>1, <1>2

(* team_bus.go 48-96: senders and turns keep the shapes.                   *)
LEMMA SendTypeStep == ASSUME TypeOK, SendStep PROVE TypeOK'
<1>1. CASE EndTurn
  BY <1>1 DEF EndTurn, TypeOK, Listening, history
<1>2. ASSUME NEW m \in Messages, Push(m) PROVE TypeOK'
  <2>1. Append(inbox, m) \in Seq(Messages)
    BY DEF TypeOK
  <2> QED BY <1>2, <2>1 DEF Push, TypeOK, Listening, history
<1>3. ASSUME NEW m \in Messages, Wake(m) PROVE TypeOK'
  BY <1>3, SignalType DEF Wake, TypeOK, Listening
<1> QED BY <1>1, <1>2, <1>3 DEF SendStep

(* dispatcher.go 125-268: the goroutines of the dispatcher keep the shapes. *)
LEMMA HandlerTypeStep == ASSUME TypeOK, HandlerStep PROVE TypeOK'
<1>h. handler \in [Handlers -> HandlerRecords]
  BY DEF HandlerRecords, TypeOK
<1>s. ASSUME NEW h \in Handlers, NEW from, NEW to \in {"poll", "look", "drain", "start", "requeue"}, Step(h, from, to)
      PROVE  handler' \in [Handlers -> HandlerRecords]
  <2>1. [handler[h] EXCEPT !.pc = to] \in HandlerRecords
    BY <1>h DEF HandlerRecords
  <2> QED BY <1>h, <1>s, <2>1 DEF Step
<1>d. ASSUME NEW h \in Handlers, Done(h) PROVE handler' \in [Handlers -> HandlerRecords]
  <2>1. Idle \in HandlerRecords
    BY EmptySeq DEF HandlerRecords, Idle
  <2> QED BY <1>h, <1>d, <2>1 DEF Done
<1>t. ASSUME handler' \in [Handlers -> HandlerRecords],
             UNCHANGED <<lease, sent, role, leaving, faults, cut, late>>,
             inbox' \in Seq(Messages), session' \in Workers \cup {None}, command' \in BOOLEAN,
             buf' \in [Workers -> 0..Buffer] /\ \A w \in Workers : buf'[w] > 0 => Listening(w)',
             delivered' \in [Messages -> Nat], calm' \in BOOLEAN
      PROVE  TypeOK'
  BY <1>t DEF TypeOK, HandlerRecords
<1>b. ASSUME UNCHANGED <<buf, role>>
      PROVE  buf' \in [Workers -> 0..Buffer] /\ \A w \in Workers : buf'[w] > 0 => Listening(w)'
  BY <1>b DEF TypeOK, Listening
<1>k. /\ inbox \in Seq(Messages) /\ session \in Workers \cup {None} /\ command \in BOOLEAN
      /\ delivered \in [Messages -> Nat] /\ calm \in BOOLEAN
  BY DEF TypeOK
<1>1. ASSUME NEW h \in Handlers, NEW w \in Workers, Receive(w, h) PROVE TypeOK'
  <2>1. handler' \in [Handlers -> HandlerRecords]
    BY <1>h, <1>1, HandlerUpdates DEF Receive
  <2>2. buf' \in [Workers -> 0..Buffer] /\ \A v \in Workers : buf'[v] > 0 => Listening(v)'
    BY <1>1 DEF Receive, TypeOK, Listening
  <2> QED BY <1>1, <1>t, <1>k, <2>1, <2>2 DEF Receive, bus, history
<1>2. ASSUME NEW h \in Handlers, Check(h) \/ PollIdle(h) \/ Build(h) \/ StartTurnFails(h) PROVE TypeOK'
  <2>1. handler' \in [Handlers -> HandlerRecords]
    BY <1>2, <1>s DEF Check, PollIdle, Build, StartTurnFails
  <2> QED BY <1>2, <1>t, <1>k, <1>b, <2>1 DEF Check, PollIdle, Build, StartTurnFails, bus, history
<1>3. ASSUME NEW h \in Handlers, PollEnds(h) PROVE TypeOK'
  <2>1. handler' \in [Handlers -> HandlerRecords]
    BY <1>3, <1>d DEF PollEnds
  <2> QED BY <1>3, <1>t, <1>k, <1>b, <2>1 DEF PollEnds, bus
<1>4. ASSUME NEW h \in Handlers, Look(h) PROVE TypeOK'
  <2>1. handler' \in [Handlers -> HandlerRecords]
    BY <1>4, <1>s, <1>d DEF Look
  <2>2. session' \in Workers \cup {None} /\ command' \in BOOLEAN /\ calm' \in BOOLEAN
    BY <1>4, <1>h, <1>k DEF Look, HandlerRecords
  <2> QED BY <1>4, <1>t, <1>k, <1>b, <2>1, <2>2 DEF Look
<1>5. ASSUME NEW h \in Handlers, Drain(h) PROVE TypeOK'
  <2>1. inbox' \in Seq(Messages)
    BY <1>5, <1>k, EmptySeq DEF Drain
  <2>2. handler' \in [Handlers -> HandlerRecords]
    <3>1. CASE handler[h].live /\ inbox # <<>>
      <4>1. [handler[h] EXCEPT !.pc = "build", !.msgs = inbox] \in HandlerRecords
        BY <1>h, <1>k DEF HandlerRecords
      <4> QED BY <1>h, <1>5, <3>1, <4>1 DEF Drain
    <3>2. CASE ~(handler[h].live /\ inbox # <<>>)
      BY <1>5, <1>d, <3>2 DEF Drain
    <3> QED BY <3>1, <3>2
  <2> QED BY <1>5, <1>t, <1>k, <1>b, <2>1, <2>2 DEF Drain, history
<1>6. ASSUME NEW h \in Handlers, Requeue(h) PROVE TypeOK'
  <2>1. handler[h].msgs \in Seq(Messages) /\ handler[h].msgs # <<>>
    BY <1>h, <1>6 DEF Requeue, HandlerRecords
  <2>2. Head(handler[h].msgs) \in Messages /\ Tail(handler[h].msgs) \in Seq(Messages)
    BY <2>1, HeadTailProperties
  <2>3. inbox' \in Seq(Messages)
    BY <1>6, <1>k, <2>2, AppendProperties DEF Requeue
  <2>4. handler' \in [Handlers -> HandlerRecords]
    <3>1. [handler[h] EXCEPT !.msgs = Tail(handler[h].msgs)] \in HandlerRecords
      BY <1>h, <2>2 DEF HandlerRecords
    <3>2. handler' = [handler EXCEPT ![h] = [handler[h] EXCEPT !.msgs = Tail(handler[h].msgs)]]
      BY <1>6 DEF Requeue
    <3> QED BY <1>h, <3>1, <3>2
  <2> QED BY <1>6, <1>t, <1>k, <1>b, <2>3, <2>4 DEF Requeue, history
<1>7. ASSUME NEW h \in Handlers, StartTurn(h) PROVE TypeOK'
  <2>1. handler' \in [Handlers -> HandlerRecords]
    BY <1>7, <1>d DEF StartTurn
  <2>2. session' \in Workers \cup {None}
    BY <1>7, <1>h DEF StartTurn, HandlerRecords
  <2>3. ASSUME NEW m \in Messages
        PROVE  Cardinality({i \in DOMAIN handler[h].msgs : handler[h].msgs[i] = m}) \in Nat
    <3>1. handler[h].msgs \in Seq(Messages)
      BY <1>h DEF HandlerRecords
    <3>2. DOMAIN handler[h].msgs = 1..Len(handler[h].msgs) /\ Len(handler[h].msgs) \in Nat
      BY <3>1
    <3>3. IsFiniteSet(DOMAIN handler[h].msgs)
      BY <3>2, FS_Interval
    <3> QED BY <3>3, FS_Subset, FS_CardinalityType
  <2>4. delivered' \in [Messages -> Nat]
    BY <1>7, <1>k, <2>3 DEF StartTurn
  <2> QED BY <1>7, <1>t, <1>k, <1>b, <2>1, <2>2, <2>4 DEF StartTurn
<1>8. ASSUME NEW h \in Handlers, Rearm(h) PROVE TypeOK'
  <2>1. handler' \in [Handlers -> HandlerRecords]
    BY <1>8, <1>d DEF Rearm
  <2>2. /\ buf' \in [Workers -> 0..Buffer] /\ \A w \in Workers : buf'[w] > 0 => Listening(w)'
        /\ calm' \in BOOLEAN
    BY <1>8, <1>b, <1>k, SignalType DEF Rearm
  <2> QED BY <1>8, <1>t, <1>k, <2>1, <2>2 DEF Rearm, bus
<1> QED BY <1>1, <1>2, <1>3, <1>4, <1>5, <1>6, <1>7, <1>8 DEF HandlerStep, Handle

(* worker.go, dispatcher.go, team_bus.go: lease, roles, channels, inbox and *)
(* goroutines keep their shapes, and only a listener has wakeups waiting.   *)
THEOREM TypeCorrect == Spec => []TypeOK
<1>1. Init => TypeOK
  <2> SUFFICES ASSUME Init PROVE TypeOK
    OBVIOUS
  <2>1. Idle \in HandlerRecords /\ <<>> \in Seq(Messages)
    BY EmptySeq DEF Idle, HandlerRecords
  <2>2. handler \in [Handlers -> HandlerRecords]
    BY <2>1 DEF Init
  <2>3. buf \in [Workers -> 0..Buffer] /\ \A w \in Workers : ~(buf[w] > 0)
    BY DEF Init
  <2>4. inbox \in Seq(Messages)
    BY <2>1 DEF Init
  <2>5. lease = None /\ session = None /\ faults \in 0..MaxFaults 
    BY DEF Init
  <2>7. command \in BOOLEAN /\ cut = FALSE /\ late = FALSE /\ calm = TRUE
    BY Zenon DEF Init
  <2>6. /\ role \in [Workers -> Roles] /\ leaving \in [Workers -> BOOLEAN]
        /\ sent \in [Messages -> {"no", "pushed", "sent"}] /\ delivered \in [Messages -> Nat]
    BY DEF Init, Roles
  <2> QED BY <2>2, <2>3, <2>4, <2>5, <2>6, <2>7 DEF TypeOK, HandlerRecords, Roles
<1>2. TypeOK /\ [Next]_vars => TypeOK'
  <2> SUFFICES ASSUME TypeOK, [Next]_vars PROVE TypeOK'
    OBVIOUS
  <2>1. CASE UNCHANGED vars
    BY <2>1 DEF TypeOK, Listening, vars, bus, history
  <2> QED BY <2>1, Steps, RoleTypeStep, SendTypeStep, HandlerTypeStep
<1> QED BY <1>1, <1>2, PTL DEF Spec

-----------------------------------------------------------------------------
(* One dispatcher.                                                         *)

(* Between taking and giving up the role the lease is the worker's own,     *)
(* unless a lease has run out under its holder.                            *)
RoleInv == ~late => \A w \in Workers : role[w] \in {"start", "hold", "stop", "release"} => lease = w

(* worker.go 109-200: stop first, then release, so that nobody else can     *)
(* take the lease while a component runs.                                  *)
LEMMA RoleInvStep == ASSUME TypeOK, RoleInv, [Next]_vars PROVE RoleInv'
<1> USE DEF RoleInv, TypeOK, bus, history
<1>1. ASSUME NEW w \in Workers, Acquire(w) PROVE RoleInv'
  BY <1>1 DEF Acquire
<1>2. ASSUME NEW w \in Workers, StartRole(w) \/ StartFails(w) \/ LoseRole(w) PROVE RoleInv'
  BY <1>2 DEF StartRole, StartFails, LoseRole
<1>3. ASSUME NEW w \in Workers, StopRole(w) PROVE RoleInv'
  BY <1>3 DEF StopRole
<1>4. ASSUME NEW w \in Workers, Release(w) PROVE RoleInv'
  BY <1>4 DEF Release
<1>5. ASSUME NEW w \in Workers, Leave(w) PROVE RoleInv'
  BY <1>5 DEF Leave
<1>6. ASSUME NEW w \in Workers, RunOut(w) PROVE RoleInv'
  BY <1>6 DEF RunOut
<1>7. ASSUME NEW w \in Workers, Crash(w) PROVE RoleInv'
  BY <1>7 DEF Crash
<1>8. ASSUME NEW w \in Workers, UserTurn(w) PROVE RoleInv'
  BY <1>8 DEF UserTurn
<1>9. CASE SendStep
  BY <1>9 DEF SendStep, EndTurn, Push, Wake
<1>10. CASE HandlerStep
  <2>1. UNCHANGED <<role, lease, late>>
    BY <1>10 DEF HandlerStep, Handle, Receive, Check, PollIdle, PollEnds, Look, Drain, Build,
                 StartTurn, StartTurnFails, Requeue, Rearm
  <2> QED BY <2>1
<1>11. CASE UNCHANGED vars
  BY <1>11 DEF vars
<1> QED BY <1>1, <1>2, <1>3, <1>4, <1>5, <1>6, <1>7, <1>8, <1>9, <1>10, <1>11, Steps DEF RoleStep, Work

(* worker.go runRole: whoever crashes, leaves, fails to start or loses the  *)
(* lease, two dispatchers never listen at the same time unless the ttl      *)
(* passed under a holder that still ran.                                   *)
THEOREM SingleDispatcher == Spec => []OneDispatcher
<1>1. Init => RoleInv
  BY DEF Init, RoleInv
<1>2. TypeOK /\ RoleInv /\ [Next]_vars => RoleInv'
  BY RoleInvStep
<1>3. RoleInv => OneDispatcher
  BY DEF RoleInv, OneDispatcher, Listening
<1> QED BY <1>1, <1>2, <1>3, TypeCorrect, PTL DEF Spec

-----------------------------------------------------------------------------
(* One delivery.                                                           *)

In(m, s) == \E i \in DOMAIN s : s[i] = m
NoRepeat(s) == \A i, j \in DOMAIN s : s[i] = s[j] => i = j

(* What an append, a removal of the head and an empty sequence hold.        *)
LEMMA Membership ==
    ASSUME NEW s \in Seq(Messages), NEW m \in Messages
    PROVE  /\ ~In(m, <<>>) /\ NoRepeat(<<>>)
           /\ \A x : In(x, Append(s, m)) <=> In(x, s) \/ x = m
           /\ NoRepeat(s) /\ ~In(m, s) => NoRepeat(Append(s, m))
           /\ s # <<>> => /\ In(Head(s), s)
                          /\ \A x : In(x, Tail(s)) => In(x, s)
                          /\ NoRepeat(s) => NoRepeat(Tail(s)) /\ ~In(Head(s), Tail(s))
<1>1. ~In(m, <<>>) /\ NoRepeat(<<>>)
  BY DEF In, NoRepeat
<1>2. /\ Append(s, m) \in Seq(Messages) /\ Len(Append(s, m)) = Len(s) + 1
      /\ \A i \in 1..Len(s) : Append(s, m)[i] = s[i]
      /\ Append(s, m)[Len(s) + 1] = m /\ Len(s) \in Nat
      /\ DOMAIN s = 1..Len(s) /\ DOMAIN Append(s, m) = 1..(Len(s) + 1)
  BY AppendProperties, LenProperties
<1>3. \A x : In(x, Append(s, m)) <=> In(x, s) \/ x = m
  BY <1>2 DEF In
<1>4. NoRepeat(s) /\ ~In(m, s) => NoRepeat(Append(s, m))
  BY <1>2 DEF In, NoRepeat
<1>5. ASSUME s # <<>>
      PROVE  /\ In(Head(s), s)
             /\ \A x : In(x, Tail(s)) => In(x, s)
             /\ NoRepeat(s) => NoRepeat(Tail(s)) /\ ~In(Head(s), Tail(s))
  <2>1. /\ Len(s) \in Nat \ {0} /\ DOMAIN s = 1..Len(s) /\ Head(s) = s[1]
        /\ DOMAIN Tail(s) = 1..(Len(s) - 1)
        /\ \A i \in 1..(Len(s) - 1) : Tail(s)[i] = s[i + 1]
    BY <1>5, HeadTailProperties, LenProperties, EmptySeq
  <2> QED BY <2>1 DEF In, NoRepeat
<1> QED BY <1>1, <1>3, <1>4, <1>5

(* A message is in one place at most: unsent, in the inbox, with one        *)
(* handler, or delivered; and once in that place.                          *)
OnceInv ==
    /\ NoRepeat(inbox)
    /\ \A h \in Handlers : NoRepeat(handler[h].msgs)
    /\ \A m \in Messages :
          /\ In(m, inbox) => \A h \in Handlers : ~In(m, handler[h].msgs)
          /\ \A g, h \in Handlers : In(m, handler[g].msgs) /\ In(m, handler[h].msgs) => g = h
          /\ delivered[m] <= 1
          /\ sent[m] = "no" => delivered[m] = 0
          /\ sent[m] = "no" \/ delivered[m] > 0 =>
                ~In(m, inbox) /\ \A h \in Handlers : ~In(m, handler[h].msgs)

(* Goroutines that keep or drop what they have in hand.                    *)
LEMMA HandsKeep ==
    ASSUME OnceInv, UNCHANGED <<inbox, sent, delivered>>,
           \A h \in Handlers : handler'[h].msgs \in {handler[h].msgs, <<>>}
    PROVE  OnceInv'
<1>1. \A m : ~In(m, <<>>)
  BY DEF In
<1>2. NoRepeat(<<>>)
  BY DEF NoRepeat
<1> QED BY <1>1, <1>2 DEF OnceInv

(* worker.go, team_bus.go: the role loops move no message, a sender puts a  *)
(* message into the inbox that was nowhere before.                         *)
LEMMA OnceOutside == ASSUME TypeOK, OnceInv, RoleStep \/ SendStep PROVE OnceInv'
<1>h. handler \in [Handlers -> HandlerRecords]
  BY DEF HandlerRecords, TypeOK
<1>1. ASSUME NEW w \in Workers, Work(w) \/ Leave(w) \/ RunOut(w) \/ UserTurn(w) PROVE OnceInv'
  <2>1. UNCHANGED <<inbox, sent, delivered>>
    BY <1>1 DEF Work, Acquire, StartRole, StartFails, LoseRole, StopRole, Release,
                Leave, RunOut, UserTurn, bus, history
  <2>2. \A h \in Handlers : handler'[h].msgs = handler[h].msgs
    <3>1. CASE StopRole(w)
      BY <1>h, <3>1 DEF StopRole, HandlerRecords
    <3>2. CASE UNCHANGED handler
      BY <3>2
    <3> QED BY <1>1, <3>1, <3>2 DEF Work, Acquire, StartRole, StartFails, LoseRole, Release,
                                    Leave, RunOut, UserTurn
  <2> QED BY <2>1, <2>2, HandsKeep
<1>2. ASSUME NEW w \in Workers, Crash(w) PROVE OnceInv'
  BY <1>h, <1>2, HandsKeep DEF Crash, Idle
<1>3. CASE EndTurn \/ \E m \in Messages : Wake(m)
  <2>1. ASSUME NEW m \in Messages, Wake(m) PROVE OnceInv'
    <3>1. /\ inbox' = inbox /\ handler' = handler /\ delivered' = delivered
          /\ \A n \in Messages : sent'[n] = "no" => sent[n] = "no"
      BY <2>1 DEF Wake, TypeOK
    <3> QED BY <3>1 DEF OnceInv
  <2> QED BY <1>3, <2>1, HandsKeep DEF EndTurn, history
<1>4. ASSUME NEW m \in Messages, Push(m) PROVE OnceInv'
  <2>1. /\ handler' = handler /\ delivered' = delivered /\ inbox' = Append(inbox, m)
        /\ sent[m] = "no" /\ \A n \in Messages : sent'[n] = IF n = m THEN "pushed" ELSE sent[n]
    BY <1>4 DEF Push, TypeOK, history
  <2>2. inbox \in Seq(Messages)
    BY DEF TypeOK
  <2>3. NoRepeat(inbox') /\ \A x : In(x, inbox') <=> In(x, inbox) \/ x = m
    BY <2>1, <2>2, Membership DEF OnceInv
  <2> QED BY <2>1, <2>3 DEF OnceInv
<1> QED BY <1>1, <1>2, <1>3, <1>4 DEF RoleStep, SendStep

(* dispatcher.go 199-268, team_bus.go 64-76: a drain takes the inbox whole, *)
(* a turn gets what the goroutine holds, and the rest is put back one by one.*)
LEMMA OnceHandling == ASSUME TypeOK, OnceInv, HandlerStep PROVE OnceInv'
<1>h. handler \in [Handlers -> HandlerRecords] /\ inbox \in Seq(Messages)
  BY DEF HandlerRecords, TypeOK
<1>1. ASSUME NEW h \in Handlers, NEW w \in Workers, Receive(w, h) PROVE OnceInv'
  BY <1>h, <1>1, HandsKeep DEF Receive, Idle, HandlerRecords, bus, history
<1>2. ASSUME NEW h \in Handlers, NEW from, NEW to, Step(h, from, to) PROVE \A g \in Handlers : handler'[g].msgs = handler[g].msgs
  BY <1>h, <1>2 DEF Step, HandlerRecords
<1>3. ASSUME NEW h \in Handlers, Done(h) PROVE \A g \in Handlers : handler'[g].msgs \in {handler[g].msgs, <<>>}
  BY <1>h, <1>3 DEF Done, Idle
<1>4. ASSUME NEW h \in Handlers,
             Check(h) \/ PollIdle(h) \/ PollEnds(h) \/ Look(h) \/ Build(h) \/ StartTurnFails(h) \/ Rearm(h)
      PROVE  OnceInv'
  <2>1. UNCHANGED <<inbox, sent, delivered>>
    BY <1>4 DEF Check, PollIdle, PollEnds, Look, Build, StartTurnFails, Rearm, bus, history
  <2>2. \A g \in Handlers : handler'[g].msgs \in {handler[g].msgs, <<>>}
    BY <1>4, <1>2, <1>3 DEF Check, PollIdle, PollEnds, Look, Build, StartTurnFails, Rearm
  <2> QED BY <2>1, <2>2, HandsKeep
<1>5. ASSUME NEW h \in Handlers, Drain(h) PROVE OnceInv'
  <2>1. CASE handler[h].live /\ inbox # <<>>
    <3>1. /\ inbox' = <<>> /\ handler'[h].msgs = inbox /\ UNCHANGED <<sent, delivered>>
          /\ \A g \in Handlers \ {h} : handler'[g] = handler[g]
      BY <1>h, <1>5, <2>1 DEF Drain, HandlerRecords, history
    <3>2. NoRepeat(<<>>) /\ \A m : ~In(m, <<>>)
      BY DEF NoRepeat, In
    <3> QED BY <3>1, <3>2 DEF OnceInv
  <2>2. CASE ~(handler[h].live /\ inbox # <<>>)
    BY <1>3, <1>5, <2>2, HandsKeep DEF Drain, history
  <2> QED BY <2>1, <2>2
<1>6. ASSUME NEW h \in Handlers, Requeue(h) PROVE OnceInv'
  <2> DEFINE s == handler[h].msgs
  <2>1. s \in Seq(Messages) /\ s # <<>>
    BY <1>h, <1>6 DEF Requeue, HandlerRecords
  <2>2. /\ handler'[h].msgs = Tail(s) /\ UNCHANGED <<sent, delivered>>
        /\ \A g \in Handlers \ {h} : handler'[g] = handler[g]
        /\ inbox' = inbox \/ inbox' = Append(inbox, Head(s))
    BY <1>h, <1>6 DEF Requeue, HandlerRecords, history
  <2>3. Head(s) \in Messages
    BY <2>1, HeadTailProperties
  <2>4. /\ In(Head(s), s) /\ NoRepeat(Tail(s)) /\ ~In(Head(s), Tail(s))
        /\ \A x : In(x, Tail(s)) => In(x, s)
    BY <2>1, <2>3, Membership DEF OnceInv
  <2>5. ~In(Head(s), inbox)
    BY <2>3, <2>4 DEF OnceInv
  <2>6. NoRepeat(inbox') /\ \A x : In(x, inbox') => In(x, inbox) \/ x = Head(s)
    <3> DEFINE m == Head(s)
    <3>1. NoRepeat(inbox)
      BY DEF OnceInv
    <3>2. m \in Messages /\ ~In(m, inbox) /\ (inbox' = inbox \/ inbox' = Append(inbox, m))
      BY <2>2, <2>3, <2>5
    <3> HIDE DEF m
    <3>3. /\ \A x : In(x, Append(inbox, m)) <=> In(x, inbox) \/ x = m
          /\ NoRepeat(Append(inbox, m))
      <4>1. inbox \in Seq(Messages) /\ m \in Messages
        BY <1>h, <3>2
      <4>2. /\ \A x : In(x, Append(inbox, m)) <=> In(x, inbox) \/ x = m
            /\ NoRepeat(inbox) /\ ~In(m, inbox) => NoRepeat(Append(inbox, m))
        BY <4>1, Membership
      <4> QED BY <3>1, <3>2, <4>2
    <3>4. NoRepeat(inbox') /\ \A x : In(x, inbox') => In(x, inbox) \/ x = m
      BY <3>1, <3>2, <3>3
    <3> QED BY <3>4 DEF m
  <2> HIDE DEF s
  <2>7. s = handler[h].msgs
    BY DEF s
  <2> QED BY <2>2, <2>3, <2>4, <2>6, <2>7 DEF OnceInv
<1>7. ASSUME NEW h \in Handlers, StartTurn(h) PROVE OnceInv'
  <2> DEFINE s == handler[h].msgs
             Places(m) == {i \in DOMAIN s : s[i] = m}
  <2>1. ASSUME NEW m \in Messages
        PROVE  Cardinality(Places(m)) = IF In(m, s) THEN 1 ELSE 0
    <3>1. CASE In(m, s)
      <4>1. PICK i \in DOMAIN s : s[i] = m
        BY <3>1 DEF In
      <4>2. Places(m) = {i}
        BY <4>1 DEF OnceInv, NoRepeat
      <4> QED BY <3>1, <4>2, FS_Singleton
    <3>2. CASE ~In(m, s)
      BY <3>2, FS_EmptySet DEF In
    <3> QED BY <3>1, <3>2
  <2>2. /\ UNCHANGED <<inbox, sent>> /\ handler'[h].msgs = <<>>
        /\ \A g \in Handlers \ {h} : handler'[g] = handler[g]
        /\ \A m \in Messages : delivered'[m] = delivered[m] + Cardinality(Places(m))
    BY <1>h, <1>7 DEF StartTurn, Done, Idle
  <2>3. \A m \in Messages : delivered'[m] = IF In(m, s) THEN delivered[m] + 1 ELSE delivered[m]
    <3> TAKE m \in Messages
    <3>1. delivered[m] \in Nat /\ delivered'[m] = delivered[m] + Cardinality(Places(m))
      BY <2>2 DEF TypeOK
    <3>2. Cardinality(Places(m)) = IF In(m, s) THEN 1 ELSE 0
      BY <2>1
    <3> HIDE DEF Places, s
    <3> QED BY <3>1, <3>2
  <2>4. NoRepeat(<<>>) /\ \A m : ~In(m, <<>>)
    BY DEF NoRepeat, In
  <2>5. \A m \in Messages : In(m, s) => delivered[m] = 0 /\ sent[m] # "no" /\ ~In(m, inbox)
    <3> TAKE m \in Messages
    <3>1. delivered[m] \in Nat
      BY DEF TypeOK
    <3>2. /\ In(m, inbox) => ~In(m, s)
          /\ sent[m] = "no" \/ delivered[m] > 0 => ~In(m, s)
      BY DEF OnceInv
    <3> HIDE DEF s, Places
    <3> QED BY <3>1, <3>2
  <2>6. /\ UNCHANGED <<inbox, sent>> /\ handler'[h].msgs = <<>>
        /\ \A g \in Handlers \ {h} : handler'[g] = handler[g]
    BY <2>2
  <2>7. delivered \in [Messages -> Nat]
    BY DEF TypeOK
  <2>8. s = handler[h].msgs
    OBVIOUS
  <2> HIDE DEF s, Places
  <2> QED BY <2>3, <2>4, <2>5, <2>6, <2>7, <2>8 DEF OnceInv
<1> QED BY <1>1, <1>4, <1>5, <1>6, <1>7 DEF HandlerStep, Handle

(* dispatcher.go drainAndRun, requeue; team_bus.go InboxDrain: no message   *)
(* is given to a turn twice, for any number of messages, handlers and       *)
(* dispatchers, leases that run out under their holder included.           *)
THEOREM AtMostOnce == Spec => []DeliveredOnce
<1>1. Init => OnceInv
  BY DEF Init, OnceInv, NoRepeat, In, Idle
<1>2. TypeOK /\ OnceInv /\ [Next]_vars => OnceInv'
  <2>1. ASSUME OnceInv, UNCHANGED vars PROVE OnceInv'
    BY <2>1, HandsKeep DEF vars, bus, history
  <2> QED BY <2>1, Steps, OnceOutside, OnceHandling
<1>3. OnceInv => DeliveredOnce
  BY DEF OnceInv, DeliveredOnce
<1> QED BY <1>1, <1>2, <1>3, TypeCorrect, PTL DEF Spec

-----------------------------------------------------------------------------
(* Nothing is lost.                                                        *)

Holding == {"build", "start", "requeue"}

(* Goroutines hold messages between their drain and their last step only,   *)
(* and have a context that is not done as long as no dispatcher was stopped.*)
HandsInv ==
    /\ \A h \in Handlers : handler[h].pc \notin Holding => handler[h].msgs = <<>>
    /\ ~cut => \A h \in Handlers : handler[h].pc # "idle" => handler[h].live

(* The other goroutines' records stay as they are.                         *)
Alters(h, r) == handler'[h] = r /\ \A g \in Handlers \ {h} : handler'[g] = handler[g]

(* What each step of a goroutine makes of its record.                      *)
LEMMA Altered ==
    ASSUME TypeOK, NEW h \in Handlers
    PROVE  /\ \A from, to : Step(h, from, to) => Alters(h, [handler[h] EXCEPT !.pc = to])
           /\ Done(h) => Alters(h, Idle)
           /\ \A w \in Workers : Receive(w, h) =>
                 Alters(h, [Idle EXCEPT !.pc = "check", !.at = w, !.live = TRUE])
           /\ Drain(h) => \/ /\ handler[h].live /\ inbox' = <<>>
                             /\ Alters(h, [handler[h] EXCEPT !.pc = "build", !.msgs = inbox])
                          \/ /\ ~(handler[h].live /\ inbox # <<>>) /\ inbox' = inbox
                             /\ Alters(h, Idle)
           /\ Requeue(h) => Alters(h, [handler[h] EXCEPT !.msgs = Tail(handler[h].msgs)])
<1>1. DOMAIN handler = Handlers
  BY DEF TypeOK
<1> QED BY <1>1 DEF Alters, Step, Done, Receive, Drain, Requeue

(* dispatcher.go 125-268: a drain fills the hands, the last step empties    *)
(* them; Dispatcher.Stop alone ends a goroutine's context.                 *)
LEMMA HandsStep == ASSUME TypeOK, HandsInv, [Next]_vars PROVE HandsInv'
<1> USE DEF HandsInv, Holding
<1>h. handler \in [Handlers -> HandlerRecords]
  BY DEF HandlerRecords, TypeOK
<1>a. ASSUME NEW h \in Handlers, NEW r, Alters(h, r), cut' = cut,
             r.pc \notin Holding => r.msgs = <<>>,
             ~cut /\ r.pc # "idle" => r.live
      PROVE  HandsInv'
  BY <1>a DEF Alters
<1>1. ASSUME NEW w \in Workers, StopRole(w) \/ Crash(w) PROVE HandsInv'
  <2>1. cut' = TRUE /\ \A h \in Handlers : handler'[h] \in {handler[h], Idle, [handler[h] EXCEPT !.live = FALSE]}
    BY <1>1 DEF StopRole, Crash
  <2>2. \A h \in Handlers : handler'[h].pc \notin Holding => handler'[h].msgs = <<>>
    <3> TAKE h \in Handlers
    <3>1. handler[h] \in HandlerRecords
      BY <1>h
    <3>2. handler'[h] \in {handler[h], Idle, [handler[h] EXCEPT !.live = FALSE]}
      BY <2>1
    <3> QED BY <3>1, <3>2 DEF HandlerRecords, Idle
  <2> QED BY <2>1, <2>2
<1>2. ASSUME NEW w \in Workers,
             \/ Acquire(w) \/ StartRole(w) \/ StartFails(w) \/ LoseRole(w) \/ Release(w)
             \/ Leave(w) \/ RunOut(w) \/ UserTurn(w)
      PROVE  HandsInv'
  <2>1. UNCHANGED <<handler, cut>>
    BY <1>2 DEF Acquire, StartRole, StartFails, LoseRole, Release, Leave, RunOut, UserTurn, history
  <2> QED BY <2>1
<1>3. CASE SendStep
  <2>1. UNCHANGED <<handler, cut>>
    BY <1>3 DEF SendStep, EndTurn, Push, Wake, history
  <2> QED BY <2>1
<1>4. ASSUME NEW h \in Handlers, NEW w \in Workers, Receive(w, h) PROVE HandsInv'
  <2>1. Alters(h, [Idle EXCEPT !.pc = "check", !.at = w, !.live = TRUE]) /\ cut' = cut
    BY <1>4, Altered DEF Receive, history
  <2> HIDE DEF HandsInv
  <2> QED BY <2>1, <1>a DEF Idle
<1>5. ASSUME NEW h \in Handlers, Handle(h) PROVE HandsInv'
  <2>1. cut' = cut /\ handler[h] \in HandlerRecords
    BY <1>h, <1>5 DEF Handle, Check, PollIdle, PollEnds, Look, Drain, Build, StartTurn,
        StartTurnFails, Requeue, Rearm, history
  <2>2. CASE Alters(h, Idle)
    <3> HIDE DEF HandsInv
    <3> QED BY <2>1, <2>2, <1>a DEF Idle
  <2>3. CASE \E to \in {"poll", "look", "drain", "start", "requeue"} :
                /\ Alters(h, [handler[h] EXCEPT !.pc = to])
                /\ handler[h].pc # "idle"
                /\ to \notin Holding => handler[h].pc \notin Holding
    <3>1. PICK to \in {"poll", "look", "drain", "start", "requeue"} :
             /\ Alters(h, [handler[h] EXCEPT !.pc = to])
             /\ handler[h].pc # "idle"
             /\ to \notin Holding => handler[h].pc \notin Holding
      BY <2>3
    <3> DEFINE r == [handler[h] EXCEPT !.pc = to]
    <3>2. r.pc = to /\ r.msgs = handler[h].msgs /\ r.live = handler[h].live
      BY <2>1 DEF HandlerRecords
    <3>3. (to \notin Holding => r.msgs = <<>>) /\ (~cut => r.live)
      BY <3>1, <3>2
    <3> HIDE DEF HandsInv, r
    <3>4. Alters(h, r)
      BY <3>1 DEF r
    <3> QED BY <2>1, <3>2, <3>3, <3>4, <1>a
  <2>4. CASE Drain(h)
    <3>1. CASE Alters(h, [handler[h] EXCEPT !.pc = "build", !.msgs = inbox]) /\ handler[h].live
      <4> HIDE DEF HandsInv
      <4> QED BY <2>1, <3>1, <1>a DEF HandlerRecords
    <3> QED BY <2>2, <2>4, <3>1, Altered
  <2>5. CASE Requeue(h)
    <3>1. /\ Alters(h, [handler[h] EXCEPT !.msgs = Tail(handler[h].msgs)])
          /\ handler[h].pc = "requeue" /\ (~cut => handler[h].live)
      BY <2>5, Altered DEF Requeue
    <3> HIDE DEF HandsInv
    <3> QED BY <2>1, <3>1, <1>a DEF HandlerRecords
  <2>6. CASE PollEnds(h) \/ StartTurn(h) \/ Rearm(h)
    BY <2>2, <2>6, Altered DEF PollEnds, StartTurn, Rearm
  <2>7. CASE Check(h) \/ PollIdle(h) \/ Build(h) \/ StartTurnFails(h)
    <3>1. \E from \in {"check", "poll", "build", "start"}, to \in {"poll", "look", "start", "requeue"} :
             Step(h, from, to) /\ (to \notin Holding => from \notin Holding)
      BY <2>7 DEF Check, PollIdle, Build, StartTurnFails
    <3> QED BY <2>3, <3>1, Altered DEF Step
  <2>8. CASE Look(h)
    BY <2>2, <2>3, <2>8, Altered DEF Look, Step
  <2> QED BY <1>5, <2>4, <2>5, <2>6, <2>7, <2>8 DEF Handle
<1>6. CASE UNCHANGED vars
  BY <1>6 DEF vars, history
<1> QED BY <1>1, <1>2, <1>3, <1>4, <1>5, <1>6, Steps DEF RoleStep, HandlerStep, Work

(* Where the messages are may change, but not whether they are somewhere.   *)
LEMMA KeptMoves ==
    ASSUME NothingIsLost, cut' = cut,
           \A m \in Messages : ~cut /\ sent'[m] # "no" =>
               \/ sent[m] # "no" /\ (Kept(m) => Kept(m)')
               \/ Kept(m)'
    PROVE  NothingIsLost'
BY DEF NothingIsLost

(* dispatcher.go 199-268: what leaves the inbox is in a goroutine's hands,  *)
(* and what leaves those is delivered or put back, as long as their context *)
(* lives.                                                                  *)
LEMMA KeptStep == ASSUME TypeOK, HandsInv, NothingIsLost, [Next]_vars PROVE NothingIsLost'
<1>h. handler \in [Handlers -> HandlerRecords] /\ inbox \in Seq(Messages)
      /\ delivered \in [Messages -> Nat]
  BY DEF HandlerRecords, TypeOK
<1>k. \A m : Kept(m) <=> In(m, inbox) \/ (\E h \in Handlers : In(m, handler[h].msgs)) \/ delivered[m] > 0
  BY DEF Kept, InHand, In
<1>p. \A m : Kept(m)' <=> \/ In(m, inbox') \/ (\E h \in Handlers : In(m, handler'[h].msgs))
                          \/ delivered'[m] > 0
  BY DEF Kept, InHand, In
<1>e. \A m : ~In(m, <<>>)
  BY DEF In
<1>1. ASSUME NEW w \in Workers, StopRole(w) \/ Crash(w) PROVE NothingIsLost'
  BY <1>1 DEF StopRole, Crash, NothingIsLost
<1>2. CASE UNCHANGED <<inbox, sent, delivered, cut>> /\ \A h \in Handlers : handler'[h].msgs = handler[h].msgs
  BY <1>2, <1>k, <1>p, KeptMoves
<1>3. ASSUME NEW w \in Workers,
             \/ Acquire(w) \/ StartRole(w) \/ StartFails(w) \/ LoseRole(w) \/ Release(w)
             \/ Leave(w) \/ RunOut(w) \/ UserTurn(w)
      PROVE  NothingIsLost'
  BY <1>2, <1>3 DEF Acquire, StartRole, StartFails, LoseRole, Release, Leave, RunOut, UserTurn, bus, history
<1>4. CASE EndTurn \/ UNCHANGED vars
  BY <1>2, <1>4 DEF EndTurn, vars, bus, history
<1>5. ASSUME NEW m \in Messages, Wake(m) PROVE NothingIsLost'
  <2>1. /\ UNCHANGED <<inbox, handler, delivered, cut>>
        /\ \A n \in Messages : sent'[n] # "no" => sent[n] # "no"
    BY <1>5 DEF Wake, TypeOK
  <2> QED BY <2>1, <1>k, <1>p, KeptMoves
<1>6. ASSUME NEW m \in Messages, Push(m) PROVE NothingIsLost'
  <2>1. /\ inbox' = Append(inbox, m) /\ UNCHANGED <<handler, delivered, cut>>
        /\ \A n \in Messages : n # m => sent'[n] = sent[n]
    BY <1>6 DEF Push, TypeOK, history
  <2>2. \A x : In(x, inbox') <=> In(x, inbox) \/ x = m
    BY <2>1, <1>h, Membership
  <2> QED BY <2>1, <2>2, <1>k, <1>p, KeptMoves
<1>7. ASSUME NEW h \in Handlers, NEW w \in Workers, Receive(w, h) PROVE NothingIsLost'
  <2>1. Alters(h, [Idle EXCEPT !.pc = "check", !.at = w, !.live = TRUE])
    BY <1>7, Altered
  <2>2. handler[h].msgs = <<>> /\ handler'[h].msgs = <<>>
    BY <1>7, <2>1 DEF Receive, HandsInv, Holding, Alters, Idle
  <2> QED BY <1>2, <1>7, <2>1, <2>2 DEF Receive, Alters, bus, history
<1>8. ASSUME NEW h \in Handlers, handler[h].pc \notin Holding, Alters(h, Idle),
             UNCHANGED <<inbox, sent, delivered, cut>>
      PROVE  NothingIsLost'
  BY <1>2, <1>8 DEF HandsInv, Alters, Idle
<1>9. ASSUME NEW h \in Handlers, NEW from, NEW to, Step(h, from, to), UNCHANGED <<inbox, sent, delivered, cut>>
      PROVE  NothingIsLost'
  <2>1. Alters(h, [handler[h] EXCEPT !.pc = to]) /\ handler[h] \in HandlerRecords
    BY <1>h, <1>9, Altered
  <2>2. [handler[h] EXCEPT !.pc = to].msgs = handler[h].msgs
    BY <2>1 DEF HandlerRecords
  <2>3. \A g \in Handlers : handler'[g].msgs = handler[g].msgs
    BY <2>1, <2>2 DEF Alters
  <2> QED BY <1>2, <1>9, <2>3
<1>10. ASSUME NEW h \in Handlers,
              Check(h) \/ PollIdle(h) \/ PollEnds(h) \/ Look(h) \/ Build(h) \/ StartTurnFails(h)
       PROVE  NothingIsLost'
  <2>1. UNCHANGED <<inbox, sent, delivered, cut>>
    BY <1>10 DEF Check, PollIdle, PollEnds, Look, Build, StartTurnFails, bus, history
  <2>2. \/ \E from, to : Step(h, from, to)
        \/ handler[h].pc \notin Holding /\ Done(h)
    BY <1>10 DEF Check, PollIdle, PollEnds, Look, Build, StartTurnFails, Holding
  <2> QED BY <1>8, <1>9, <2>1, <2>2, Altered
<1>11. ASSUME NEW h \in Handlers, Drain(h) PROVE NothingIsLost'
  <2>1. UNCHANGED <<sent, delivered, cut>> /\ handler[h].pc = "drain"
    BY <1>11 DEF Drain, history
  <2>2. CASE inbox' = <<>> /\ Alters(h, [handler[h] EXCEPT !.pc = "build", !.msgs = inbox])
    <3>1. /\ inbox' = <<>> /\ handler[h].msgs = <<>> /\ handler'[h].msgs = inbox
          /\ \A g \in Handlers \ {h} : handler'[g] = handler[g]
      BY <1>h, <2>1, <2>2 DEF HandsInv, Holding, Alters, HandlerRecords
    <3> QED BY <2>1, <3>1, <1>e, <1>k, <1>p, KeptMoves
  <2> QED BY <1>8, <1>11, <2>1, <2>2, Altered DEF Holding
<1>12. ASSUME NEW h \in Handlers, StartTurn(h) PROVE NothingIsLost'
  <2>1. UNCHANGED <<inbox, sent, cut>> /\ Alters(h, Idle)
    BY <1>12, Altered DEF StartTurn
  <2>2. ASSUME NEW m \in Messages
        PROVE  (delivered[m] > 0 => delivered'[m] > 0) /\ (In(m, handler[h].msgs) => delivered'[m] > 0)
    <3> DEFINE P == {i \in DOMAIN handler[h].msgs : handler[h].msgs[i] = m}
    <3>1. delivered'[m] = delivered[m] + Cardinality(P)
      BY <1>12 DEF StartTurn
    <3>2. IsFiniteSet(P) /\ Cardinality(P) \in Nat
      <4>1. DOMAIN handler[h].msgs = 1..Len(handler[h].msgs) /\ Len(handler[h].msgs) \in Nat
        BY <1>h DEF HandlerRecords
      <4>2. IsFiniteSet(DOMAIN handler[h].msgs)
        BY <4>1, FS_Interval
      <4> QED BY <4>2, FS_Subset, FS_CardinalityType
    <3>3. In(m, handler[h].msgs) => P # {}
      BY DEF In
    <3>4. P # {} => Cardinality(P) # 0
      BY <3>2, FS_EmptySet
    <3>5. delivered[m] \in Nat
      BY <1>h
    <3> HIDE DEF P
    <3> QED BY <3>1, <3>2, <3>3, <3>4, <3>5
  <2>3. ASSUME NEW m \in Messages, Kept(m) PROVE Kept(m)'
    <3>1. CASE delivered'[m] > 0
      BY <3>1, <1>p
    <3>2. CASE In(m, inbox)
      BY <2>1, <3>2, <1>p
    <3>3. CASE \E g \in Handlers \ {h} : In(m, handler[g].msgs)
      BY <2>1, <3>3, <1>p DEF Alters
    <3> QED BY <2>2, <2>3, <3>1, <3>2, <3>3, <1>k
  <2> HIDE DEF Kept
  <2> QED BY <2>1, <2>3, KeptMoves
<1>13. ASSUME NEW h \in Handlers, Requeue(h) PROVE NothingIsLost'
  <2>1. /\ handler[h] \in HandlerRecords /\ handler[h].msgs \in Seq(Messages)
        /\ handler[h].msgs # <<>> /\ UNCHANGED <<sent, delivered, cut>>
    BY <1>h, <1>13 DEF Requeue, HandlerRecords, history
  <2>2. PICK s \in Seq(Messages) : s = handler[h].msgs
    BY <2>1
  <2>3. /\ Len(s) \in Nat \ {0} /\ DOMAIN s = 1..Len(s) /\ Head(s) = s[1] /\ Head(s) \in Messages
        /\ DOMAIN Tail(s) = 1..(Len(s) - 1)
        /\ \A i \in 1..(Len(s) - 1) : Tail(s)[i] = s[i + 1]
    BY <2>1, <2>2, HeadTailProperties, LenProperties, EmptySeq
  <2>4. \A m : In(m, s) => In(m, Tail(s)) \/ m = Head(s)
    <3> SUFFICES ASSUME NEW m, In(m, s) PROVE In(m, Tail(s)) \/ m = Head(s)
      OBVIOUS
    <3>1. PICK i \in 1..Len(s) : s[i] = m
      BY <2>3 DEF In
    <3>2. i = 1 \/ (i - 1 \in 1..(Len(s) - 1) /\ i = (i - 1) + 1)
      BY <2>3
    <3> QED BY <2>3, <3>1, <3>2 DEF In
  <2>5. ~cut => \A m : In(m, inbox') <=> In(m, inbox) \/ m = Head(s)
    <3>1. PICK first \in Messages : first = Head(s)
      BY <2>3
    <3>2. \A m : In(m, Append(inbox, first)) <=> In(m, inbox) \/ m = first
      BY <1>h, Membership
    <3>3. ~cut => inbox' = Append(inbox, first)
      BY <1>13, <2>2, <3>1 DEF Requeue, HandsInv
    <3> QED BY <3>1, <3>2, <3>3
  <2>6. handler'[h].msgs = Tail(s) /\ \A g \in Handlers \ {h} : handler'[g].msgs = handler[g].msgs
    <3>1. Alters(h, [handler[h] EXCEPT !.msgs = Tail(handler[h].msgs)])
      BY <1>13, Altered
    <3>2. [handler[h] EXCEPT !.msgs = Tail(handler[h].msgs)].msgs = Tail(s)
      BY <2>1, <2>2 DEF HandlerRecords
    <3> QED BY <3>1, <3>2 DEF Alters
  <2>7. ~cut => \A m : Kept(m) => Kept(m)'
    BY <2>1, <2>2, <2>4, <2>5, <2>6, <1>k, <1>p
  <2> HIDE DEF Kept
  <2> QED BY <2>1, <2>7, KeptMoves
<1>14. ASSUME NEW h \in Handlers, Rearm(h) PROVE NothingIsLost'
  <2>1. UNCHANGED <<inbox, sent, delivered, cut>> /\ Alters(h, Idle) /\ handler[h].msgs = <<>>
    BY <1>14, Altered DEF Rearm, bus
  <2> QED BY <1>2, <2>1 DEF Alters, Idle
<1> QED BY <1>1, <1>3, <1>4, <1>5, <1>6, <1>7, <1>10, <1>11, <1>12, <1>13, <1>14, Steps
        DEF RoleStep, SendStep, HandlerStep, Handle, Work

(* dispatcher.go 199-268, team_bus.go 48-76: while no dispatcher was        *)
(* stopped or died, every message that was pushed is in the inbox, with a   *)
(* goroutine or delivered, whatever fails in between.                      *)
THEOREM AtLeastOnce == Spec => []NothingIsLost
<1>1. Init => HandsInv /\ NothingIsLost
  BY DEF Init, HandsInv, NothingIsLost, Holding, Idle
<1>2. TypeOK /\ HandsInv /\ NothingIsLost /\ [Next]_vars => HandsInv' /\ NothingIsLost'
  BY HandsStep, KeptStep
<1> QED BY <1>1, <1>2, TypeCorrect, PTL DEF Spec

-----------------------------------------------------------------------------
(* The promise of TeamDelivery.                                            *)

(* In the inbox or with a goroutine.                                       *)
Held(m) == In(m, inbox) \/ \E h \in Handlers : In(m, handler[h].msgs)

(* Where a message is, and that it was sent and not delivered when it is in *)
(* the inbox or with a goroutine.                                          *)
PlacesAre ==
    \A m \in Messages :
        /\ Place(m) = IF delivered[m] = 1 THEN "delivered"
                      ELSE IF sent[m] = "no" THEN "unsent"
                      ELSE IF Held(m) THEN "kept" ELSE "lost"
        /\ delivered[m] \in {0, 1}
        /\ Held(m) => delivered[m] = 0 /\ sent[m] # "no"

LEMMA PlaceOf == TypeOK /\ OnceInv => PlacesAre
<1> SUFFICES ASSUME TypeOK, OnceInv, NEW m \in Messages
             PROVE  /\ Place(m) = IF delivered[m] = 1 THEN "delivered"
                                  ELSE IF sent[m] = "no" THEN "unsent"
                                  ELSE IF Held(m) THEN "kept" ELSE "lost"
                    /\ delivered[m] \in {0, 1}
                    /\ Held(m) => delivered[m] = 0 /\ sent[m] # "no"
  BY DEF PlacesAre
<1>1. delivered[m] \in Nat /\ delivered[m] <= 1
  BY DEF TypeOK, OnceInv
<1>2. Kept(m) <=> Held(m) \/ delivered[m] > 0
  BY DEF Kept, InHand, In, Held
<1>3. Held(m) => ~(delivered[m] > 0) /\ sent[m] # "no"
  BY DEF OnceInv, Held
<1> QED BY <1>1, <1>2, <1>3 DEF Place

(* worker.go, team_bus.go, dispatcher.go: but for a sender and a turn that  *)
(* begins, nobody sends or delivers, and what is held was held before.     *)
LEMMA NothingNew ==
    ASSUME TypeOK, [Next]_vars, \A m \in Messages : ~Push(m), \A h \in Handlers : ~StartTurn(h)
    PROVE  /\ delivered' = delivered /\ (cut => cut')
           /\ \A m \in Messages : sent'[m] = "no" <=> sent[m] = "no"
           /\ \A m \in Messages : Held(m)' => Held(m)
<1> DEFINE Goal == /\ delivered' = delivered /\ (cut => cut')
                   /\ \A m \in Messages : sent'[m] = "no" <=> sent[m] = "no"
                   /\ \A m \in Messages : Held(m)' => Held(m)
<1>h. handler \in [Handlers -> HandlerRecords] /\ inbox \in Seq(Messages)
  BY DEF HandlerRecords, TypeOK
<1>e. \A m : ~In(m, <<>>)
  BY DEF In
<1>1. ASSUME UNCHANGED <<inbox, delivered>>, cut => cut',
             \A m \in Messages : sent'[m] = "no" <=> sent[m] = "no",
             \A h \in Handlers : handler'[h].msgs \in {handler[h].msgs, <<>>}
      PROVE  Goal
  BY <1>1, <1>e DEF Held
<1>2. ASSUME RoleStep PROVE Goal
  <2>1. UNCHANGED <<inbox, sent, delivered>> /\ (cut => cut')
    BY <1>2 DEF RoleStep, Work, Acquire, StartRole, StartFails, LoseRole, StopRole, Release,
                Leave, RunOut, Crash, UserTurn, bus, history
  <2>2. \A h \in Handlers : handler'[h] \in {handler[h], Idle, [handler[h] EXCEPT !.live = FALSE]}
    BY <1>2 DEF RoleStep, Work, Acquire, StartRole, StartFails, LoseRole, StopRole, Release,
                Leave, RunOut, Crash, UserTurn, bus, history
  <2>3. \A h \in Handlers : handler'[h].msgs \in {handler[h].msgs, <<>>}
    <3> TAKE h \in Handlers
    <3>1. handler[h] \in HandlerRecords
      BY <1>h
    <3> QED BY <2>2, <3>1 DEF HandlerRecords, Idle
  <2> HIDE DEF Goal
  <2> QED BY <1>1, <2>1, <2>3
<1>3. ASSUME SendStep \/ UNCHANGED vars PROVE Goal
  <2>1. UNCHANGED <<inbox, handler, delivered, cut>>
    BY <1>3 DEF SendStep, EndTurn, Wake, vars, bus, history
  <2>2. \A m \in Messages : sent'[m] = "no" <=> sent[m] = "no"
    BY <1>3 DEF SendStep, EndTurn, Wake, vars, bus, TypeOK
  <2> HIDE DEF Goal
  <2> QED BY <1>1, <2>1, <2>2
<1>4. ASSUME NEW h \in Handlers, Drain(h) PROVE Goal
  <2>1. UNCHANGED <<sent, delivered, cut>>
    BY <1>4 DEF Drain, history
  <2>2. \/ inbox' = <<>> /\ handler'[h].msgs = inbox
        \/ inbox' = inbox /\ handler'[h].msgs = <<>>
    <3>1. [handler[h] EXCEPT !.pc = "build", !.msgs = inbox].msgs = inbox /\ Idle.msgs = <<>>
      BY <1>h DEF HandlerRecords, Idle
    <3> QED BY <1>4, <3>1, Altered DEF Alters
  <2>3. \A g \in Handlers \ {h} : handler'[g] = handler[g]
    BY <1>4, Altered DEF Alters
  <2> QED BY <1>e, <2>1, <2>2, <2>3 DEF Held
<1>5. ASSUME NEW h \in Handlers, Requeue(h) PROVE Goal
  <2>1. /\ UNCHANGED <<sent, delivered, cut>>
        /\ handler[h].msgs \in Seq(Messages) /\ handler[h].msgs # <<>>
    BY <1>h, <1>5 DEF Requeue, HandlerRecords, history
  <2>2. PICK s \in Seq(Messages) : s = handler[h].msgs /\ s # <<>>
    BY <2>1
  <2>3. PICK first \in Messages : first = Head(s)
    BY <2>2, HeadTailProperties
  <2>4. In(first, s) /\ \A x : In(x, Tail(s)) => In(x, s)
    BY <2>2, <2>3, Membership
  <2>5. \A x : In(x, inbox') => In(x, inbox) \/ x = first
    <3>1. inbox' = inbox \/ inbox' = Append(inbox, first)
      BY <1>5, <2>2, <2>3 DEF Requeue
    <3>2. \A x : In(x, Append(inbox, first)) <=> In(x, inbox) \/ x = first
      BY <1>h, Membership
    <3> QED BY <3>1, <3>2
  <2>6. handler'[h].msgs = Tail(s) /\ \A g \in Handlers \ {h} : handler'[g] = handler[g]
    BY <1>h, <1>5, <2>2, Altered DEF Alters, HandlerRecords
  <2> QED BY <2>1, <2>2, <2>4, <2>5, <2>6 DEF Held
<1>6. ASSUME NEW h \in Handlers, NEW w \in Workers, Receive(w, h) PROVE Goal
  <2>1. UNCHANGED <<inbox, sent, delivered, cut>>
    BY <1>6 DEF Receive, bus, history
  <2>2. Alters(h, [Idle EXCEPT !.pc = "check", !.at = w, !.live = TRUE])
    BY <1>6, Altered
  <2>3. \A g \in Handlers : handler'[g].msgs \in {handler[g].msgs, <<>>}
    BY <2>2 DEF Alters, Idle
  <2> HIDE DEF Goal
  <2> QED BY <1>1, <2>1, <2>3
<1>7. ASSUME NEW h \in Handlers, Handle(h), ~Drain(h), ~Requeue(h) PROVE Goal
  <2>1. UNCHANGED <<inbox, sent, delivered, cut>>
    BY <1>7 DEF Handle, Check, PollIdle, PollEnds, Look, Build, StartTurnFails, Rearm, bus, history
  <2>2. Done(h) \/ \E from, to : Step(h, from, to)
    BY <1>7 DEF Handle, Check, PollIdle, PollEnds, Look, Build, StartTurnFails, Rearm
  <2>3. \/ Alters(h, Idle) 
        \/ \E to : Alters(h, [handler[h] EXCEPT !.pc = to])
    BY <2>2, Altered
  <2>4. \A g \in Handlers : handler'[g].msgs \in {handler[g].msgs, <<>>}
    <3>1. ASSUME NEW to PROVE [handler[h] EXCEPT !.pc = to].msgs = handler[h].msgs
      BY <1>h DEF HandlerRecords
    <3>2. \A g \in Handlers \ {h} : handler'[g].msgs = handler[g].msgs
      BY <2>3 DEF Alters
    <3>3. handler'[h].msgs \in {handler[h].msgs, <<>>}
      <4>1. CASE Alters(h, Idle)
        BY <4>1 DEF Alters, Idle
      <4>2. ASSUME NEW to, Alters(h, [handler[h] EXCEPT !.pc = to]) PROVE handler'[h].msgs = handler[h].msgs
        BY <3>1, <4>2 DEF Alters
      <4> QED BY <2>3, <4>1, <4>2
    <3> QED BY <3>2, <3>3
  <2> HIDE DEF Goal
  <2> QED BY <1>1, <2>1, <2>4
<1> HIDE DEF Goal
<1>8. Goal
  BY <1>2, <1>3, <1>4, <1>5, <1>6, <1>7, Steps DEF HandlerStep
<1> QED BY <1>8 DEF Goal

(* What all the steps of the promise rest on.                              *)
PromiseInv == TypeOK /\ HandsInv /\ OnceInv /\ NothingIsLost

LEMMA PlacesInv == (PromiseInv => PlacesAre) /\ (PromiseInv' => PlacesAre')
<1>1. PromiseInv => PlacesAre
  BY PlaceOf DEF PromiseInv
<1> QED BY <1>1, PTL

(* A step that sends and delivers nothing loses what is not held any more,  *)
(* and there is nothing of the kind before a dispatcher stops or dies.     *)
LEMMA LosingImplements ==
    ASSUME PromiseInv, PromiseInv', [Next]_vars,
           \A m \in Messages : ~Push(m), \A h \in Handlers : ~StartTurn(h)
    PROVE  (\E S \in SUBSET Promise!Kept : Promise!Lose(S)) \/ UNCHANGED <<Whereabouts, cut>>
<1>1. /\ delivered' = delivered /\ (cut => cut')
      /\ \A m \in Messages : sent'[m] = "no" <=> sent[m] = "no"
      /\ \A m \in Messages : Held(m)' => Held(m)
  BY NothingNew DEF PromiseInv
<1>2. PlacesAre /\ PlacesAre'
  BY PlacesInv
<1>c. cut \in BOOLEAN /\ cut' \in BOOLEAN
  BY DEF PromiseInv, TypeOK
<1>4. CASE cut'
  <2> DEFINE S == {m \in Messages : Held(m) /\ ~Held(m)'}
  <2>1. S \in SUBSET Promise!Kept
    BY <1>2 DEF Promise!Kept, Whereabouts, PlacesAre
  <2>2. \A m \in Messages : Place(m)' = IF m \in S THEN "lost" ELSE Place(m)
    BY <1>1, <1>2 DEF PlacesAre
  <2> HIDE DEF S
  <2>3. Whereabouts' = [m \in Messages |-> IF m \in S THEN "lost" ELSE Whereabouts[m]]
    BY <2>2 DEF Whereabouts
  <2>4. cut' = TRUE
    BY <1>c, <1>4
  <2> QED BY <2>1, <2>3, <2>4 DEF Promise!Lose, Promise!Move
<1>5. CASE ~cut'
  <2>1. ~cut /\ cut' = cut
    BY <1>1, <1>5, <1>c
  <2>2. \A m \in Messages : sent[m] # "no" /\ delivered[m] = 0 => Held(m) /\ Held(m)'
    <3> TAKE m \in Messages
    <3>1. /\ Kept(m) <=> Held(m) \/ delivered[m] > 0
          /\ Kept(m)' <=> Held(m)' \/ delivered'[m] > 0
      BY DEF Kept, InHand, In, Held
    <3>2. /\ sent[m] # "no" => Kept(m)
          /\ sent'[m] # "no" => Kept(m)'
      BY <1>5, <2>1 DEF PromiseInv, NothingIsLost
    <3> QED BY <1>1, <3>1, <3>2
  <2>3. \A m \in Messages : Place(m)' = Place(m)
    BY <1>1, <1>2, <2>2 DEF PlacesAre
  <2> QED BY <2>1, <2>3 DEF Whereabouts
<1> QED BY <1>4, <1>5

(* TeamSay's push sends: the message was nowhere, the others stay.         *)
LEMMA PushImplements ==
    ASSUME PromiseInv, PromiseInv', NEW m \in Messages, Push(m)
    PROVE  Promise!Send(m)
<1>1. /\ inbox' = Append(inbox, m) /\ UNCHANGED <<handler, delivered, cut>>
      /\ sent[m] = "no" /\ sent'[m] # "no" /\ \A n \in Messages : n # m => sent'[n] = sent[n]
  BY DEF Push, PromiseInv, TypeOK, history
<1>2. inbox \in Seq(Messages)
  BY DEF PromiseInv, TypeOK
<1>3. \A x : In(x, inbox') <=> In(x, inbox) \/ x = m
  BY <1>1, <1>2, Membership
<1>4. Held(m)' /\ \A n \in Messages : n # m => (Held(n)' <=> Held(n))
  BY <1>1, <1>3 DEF Held
<1>5. delivered[m] = 0
  BY <1>1 DEF PromiseInv, OnceInv
<1>6. Place(m) = "unsent" /\ Place(m)' = "kept"
  BY <1>1, <1>4, <1>5, PlacesInv DEF PlacesAre
<1>7. \A n \in Messages : n # m => Place(n)' = Place(n)
  BY <1>1, <1>4, PlacesInv DEF PlacesAre
<1> QED BY <1>1, <1>6, <1>7 DEF Promise!Send, Promise!Move, Whereabouts

(* startTurn delivers what the goroutine has in hand, and nothing else.    *)
LEMMA TurnImplements ==
    ASSUME PromiseInv, PromiseInv', NEW h \in Handlers, StartTurn(h)
    PROVE  \E S \in SUBSET Promise!Kept : Promise!Deliver(S)
<1> DEFINE S == {m \in Messages : In(m, handler[h].msgs)}
<1>1. S \in SUBSET Promise!Kept
  BY PlacesInv DEF Promise!Kept, Whereabouts, PlacesAre, Held
<1>2. UNCHANGED <<inbox, sent, cut>> /\ Alters(h, Idle)
  BY Altered DEF StartTurn, PromiseInv
<1>3. \A m \in Messages : delivered'[m] \in {0, 1} /\ delivered[m] \in {0, 1}
  BY PlacesInv DEF PlacesAre
<1>4. ASSUME NEW m \in Messages
      PROVE  IF m \in S THEN delivered'[m] = 1 ELSE delivered'[m] = delivered[m]
  <2> DEFINE P == {i \in DOMAIN handler[h].msgs : handler[h].msgs[i] = m}
  <2>1. delivered'[m] = delivered[m] + Cardinality(P)
    BY DEF StartTurn
  <2>2. IsFiniteSet(P) /\ Cardinality(P) \in Nat
    <3>1. handler[h].msgs \in Seq(Messages)
      BY DEF PromiseInv, TypeOK
    <3>2. DOMAIN handler[h].msgs = 1..Len(handler[h].msgs) /\ Len(handler[h].msgs) \in Nat
      BY <3>1
    <3>3. IsFiniteSet(DOMAIN handler[h].msgs)
      BY <3>2, FS_Interval
    <3> QED BY <3>3, FS_Subset, FS_CardinalityType
  <2>3. m \in S <=> P # {}
    BY DEF In
  <2>4. P = {} <=> Cardinality(P) = 0
    BY <2>2, FS_EmptySet
  <2> HIDE DEF P, S
  <2> QED BY <1>3, <2>1, <2>2, <2>3, <2>4
<1>5. \A m \in Messages : m \notin S => (Held(m)' <=> Held(m))
  BY <1>2 DEF Held, Alters, Idle, In
<1>6. \A m \in Messages : Place(m)' = IF m \in S THEN "delivered" ELSE Place(m)
  <2> TAKE m \in Messages
  <2>1. CASE m \in S
    BY <1>4, <2>1, PlacesInv DEF PlacesAre
  <2>2. CASE m \notin S
    <3> HIDE DEF S
    <3>1. delivered'[m] = delivered[m] /\ sent'[m] = sent[m] /\ (Held(m)' <=> Held(m))
      BY <1>2, <1>4, <1>5, <2>2
    <3> QED BY <2>2, <3>1, PlacesInv DEF PlacesAre
  <2> QED BY <2>1, <2>2
<1> HIDE DEF S
<1>7. Whereabouts' = [m \in Messages |-> IF m \in S THEN "delivered" ELSE Whereabouts[m]]
  BY <1>6 DEF Whereabouts
<1> QED BY <1>1, <1>2, <1>7 DEF Promise!Deliver, Promise!Move

(* dispatcher.go 199-268, team_bus.go: whatever is drained, handed over,    *)
(* put back, taken over or cut off, a sender sees each message kept until   *)
(* one turn gets it; only a dispatcher that stops or dies may lose it, and  *)
(* nothing comes back.                                                     *)
THEOREM WakeupKeepsPromise == Spec => KeepsPromise
<1>1. Init => Promise!Init
  <2> SUFFICES ASSUME Init PROVE Promise!Init
    OBVIOUS
  <2>1. cut = FALSE /\ \A m \in Messages : delivered[m] = 0 /\ sent[m] = "no"
    BY Zenon DEF Init
  <2>2. \A m \in Messages : Place(m) = "unsent"
    BY <2>1 DEF Place
  <2> QED BY <2>1, <2>2 DEF Promise!Init, Whereabouts
<1>2. PromiseInv /\ PromiseInv' /\ [Next]_vars => [Promise!Next]_<<Whereabouts, cut>>
  <2> SUFFICES ASSUME PromiseInv, PromiseInv', [Next]_vars
               PROVE  Promise!Next \/ UNCHANGED <<Whereabouts, cut>>
    OBVIOUS
  <2>1. ASSUME NEW m \in Messages, Push(m) PROVE Promise!Next
    BY <2>1, PushImplements DEF Promise!Next
  <2>2. ASSUME NEW h \in Handlers, StartTurn(h) PROVE Promise!Next
    BY <2>2, TurnImplements DEF Promise!Next
  <2>3. CASE (\A m \in Messages : ~Push(m)) /\ \A h \in Handlers : ~StartTurn(h)
    BY <2>3, LosingImplements DEF Promise!Next
  <2> QED BY <2>1, <2>2, <2>3
<1>3. Init => HandsInv /\ OnceInv /\ NothingIsLost
  BY DEF Init, HandsInv, NothingIsLost, Holding, Idle, OnceInv, NoRepeat, In
<1>4. TypeOK /\ HandsInv /\ OnceInv /\ NothingIsLost /\ [Next]_vars
          => HandsInv' /\ OnceInv' /\ NothingIsLost'
  <2>1. ASSUME OnceInv, UNCHANGED vars PROVE OnceInv'
    BY <2>1, HandsKeep DEF vars, bus, history
  <2> QED BY <2>1, HandsStep, KeptStep, Steps, OnceOutside, OnceHandling
<1> QED BY <1>1, <1>2, <1>3, <1>4, TypeCorrect, PTL
        DEF Spec, PromiseInv, KeepsPromise, Promise!Spec, Promise!vars

-----------------------------------------------------------------------------
(* Nobody is left waiting.                                                 *)

(* A goroutine that will look at the inbox, or signal once it put back.     *)
Looking == {"check", "poll", "look", "drain", "requeue"}

(* What NeverStranded promises a full inbox.                               *)
Awaited ==
    \/ \E m \in Messages : sent[m] = "pushed"
    \/ \E w \in Workers : buf[w] > 0
    \/ \E h \in Handlers : handler[h].pc \in Looking

(* team_bus.go 115-133: a signal nobody listens to ends the calm; any other *)
(* waits in a listener's channel, which is full or gets it.                *)
LEMMA SignalWakes ==
    ASSUME TypeOK, Signal, calm'
    PROVE  calm /\ \E w \in Workers : buf'[w] > 0
<1>1. PICK w \in Workers : Listening(w)
  BY DEF Signal
<1>2. buf[w] \in 0..Buffer /\ buf'[w] = IF buf[w] < Buffer THEN buf[w] + 1 ELSE buf[w]
  BY <1>1 DEF Signal, TypeOK
<1>3. buf'[w] > 0
  BY <1>2
<1> QED BY <1>3 DEF Signal

(* dispatcher.go 109-268: whoever takes a wakeup out of the channel looks   *)
(* into the inbox, and whoever fills the inbox signals afterwards.         *)
LEMMA AwaitedStep == ASSUME TypeOK, HandsInv, NeverStranded, [Next]_vars PROVE NeverStranded'
<1>h. handler \in [Handlers -> HandlerRecords]
  BY DEF HandlerRecords, TypeOK
<1>s. NeverStranded <=> (calm /\ ~cut /\ inbox # <<>> => Awaited)
  BY DEF NeverStranded, Awaited, Looking
<1>t. NeverStranded' <=> (calm' /\ ~cut' /\ inbox' # <<>> => Awaited')
  BY DEF NeverStranded, Awaited, Looking
<1>1. ASSUME NEW w \in Workers, StopRole(w) \/ Crash(w) PROVE NeverStranded'
  BY <1>1, <1>t DEF StopRole, Crash
<1>2. ASSUME NEW w \in Workers, StartRole(w) PROVE NeverStranded'
  <2>1. \A v \in Workers : buf[v] > 0 => buf'[v] > 0
    BY <1>2 DEF StartRole, TypeOK, Listening
  <2> QED BY <1>2, <1>s, <1>t, <2>1 DEF StartRole, Awaited, bus, history
<1>3. CASE UNCHANGED <<inbox, sent, buf, handler, calm, cut>>
  BY <1>3, <1>s, <1>t DEF Awaited
<1>4. ASSUME NEW w \in Workers,
             \/ Acquire(w) \/ StartFails(w) \/ LoseRole(w) \/ Release(w)
             \/ Leave(w) \/ RunOut(w) \/ UserTurn(w)
      PROVE  NeverStranded'
  BY <1>3, <1>4 DEF Acquire, StartFails, LoseRole, Release, Leave, RunOut, UserTurn, bus, history
<1>5. CASE EndTurn \/ UNCHANGED vars
  BY <1>3, <1>5 DEF EndTurn, vars, bus, history
<1>6. ASSUME NEW m \in Messages, Push(m) PROVE NeverStranded'
  <2>1. sent'[m] = "pushed"
    BY <1>6 DEF Push, TypeOK
  <2> QED BY <1>t, <2>1 DEF Awaited
<1>7. ASSUME Signal PROVE NeverStranded'
  BY <1>7, <1>t, SignalWakes DEF Awaited
<1>8. ASSUME NEW h \in Handlers, NEW w \in Workers, Receive(w, h) PROVE NeverStranded'
  <2>1. Alters(h, [Idle EXCEPT !.pc = "check", !.at = w, !.live = TRUE])
    BY <1>8, Altered
  <2>2. handler'[h].pc = "check"
    BY <2>1 DEF Alters, Idle
  <2> QED BY <1>t, <2>2 DEF Awaited, Looking
<1>9. ASSUME NEW h \in Handlers, NEW from, NEW to, Step(h, from, to), to \in Looking PROVE NeverStranded'
  <2>1. Alters(h, [handler[h] EXCEPT !.pc = to]) /\ handler[h] \in HandlerRecords
    BY <1>h, <1>9, Altered
  <2>2. handler'[h].pc = to
    BY <2>1 DEF Alters, HandlerRecords
  <2> QED BY <1>9, <1>t, <2>2 DEF Awaited
<1>10. ASSUME NEW h \in Handlers, handler[h].pc \notin Looking, NEW r, Alters(h, r),
              UNCHANGED <<inbox, sent, buf, calm, cut>>
       PROVE  NeverStranded'
  <2>1. \A g \in Handlers : handler[g].pc \in Looking => handler'[g].pc \in Looking
    BY <1>10 DEF Alters
  <2> QED BY <1>10, <1>s, <1>t, <2>1 DEF Awaited
<1>11. ASSUME NEW h \in Handlers, PollEnds(h) \/ Look(h) PROVE NeverStranded'
  <2>1. calm' = FALSE \/ Step(h, "look", "drain")
    BY <1>11 DEF PollEnds, Look
  <2> QED BY <1>9, <1>t, <2>1 DEF Looking
<1>12. ASSUME NEW h \in Handlers, Check(h) \/ PollIdle(h) \/ StartTurnFails(h) PROVE NeverStranded'
  <2>1. \E from, to : Step(h, from, to) /\ to \in Looking
    BY <1>12 DEF Check, PollIdle, StartTurnFails, Looking
  <2> QED BY <1>9, <2>1
<1>13. ASSUME NEW h \in Handlers, Build(h) PROVE NeverStranded'
  <2>1. CASE Step(h, "build", "requeue")
    BY <1>9, <2>1 DEF Looking
  <2>2. CASE Step(h, "build", "start")
    <3>1. handler[h].pc \notin Looking /\ Alters(h, [handler[h] EXCEPT !.pc = "start"])
      BY <2>2, Altered DEF Step, Looking
    <3> QED BY <1>10, <1>13, <3>1 DEF Build, bus, history
  <2> QED BY <1>13, <2>1, <2>2 DEF Build
<1>14. ASSUME NEW h \in Handlers, StartTurn(h) PROVE NeverStranded'
  <2>1. handler[h].pc \notin Looking /\ Alters(h, Idle)
    BY <1>14, Altered DEF StartTurn, Looking
  <2> QED BY <1>10, <1>14, <2>1 DEF StartTurn
<1>15. ASSUME NEW h \in Handlers, Drain(h) PROVE NeverStranded'
  <2>1. cut' = cut /\ (cut \/ handler[h].live)
    BY <1>15 DEF Drain, HandsInv, history
  <2>2. cut \/ inbox' = <<>>
    BY <1>15, <2>1, Altered
  <2> QED BY <1>t, <2>1, <2>2
<1>16. ASSUME NEW h \in Handlers, Requeue(h) PROVE NeverStranded'
  <2>1. handler[h].pc = "requeue" /\ handler[h] \in HandlerRecords
        /\ Alters(h, [handler[h] EXCEPT !.msgs = Tail(handler[h].msgs)])
    BY <1>h, <1>16, Altered DEF Requeue
  <2>2. handler'[h].pc = "requeue"
    BY <2>1 DEF Alters, HandlerRecords
  <2> QED BY <1>t, <2>2 DEF Awaited, Looking
<1>17. ASSUME NEW h \in Handlers, Rearm(h) PROVE NeverStranded'
  <2>1. cut' = cut /\ (cut \/ handler[h].live)
    BY <1>17 DEF Rearm, HandsInv
  <2> QED BY <1>7, <1>17, <1>t, <2>1 DEF Rearm
<1>18. ASSUME NEW m \in Messages, Wake(m) PROVE NeverStranded'
  BY <1>7, <1>18 DEF Wake
<1> QED BY <1>1, <1>2, <1>4, <1>5, <1>6, <1>8, <1>11, <1>12, <1>13, <1>14, <1>15, <1>16, <1>17, <1>18, Steps
        DEF RoleStep, SendStep, HandlerStep, Handle, Work

(* dispatcher.go 200-270, team_bus.go EnqueueWakeup's dropped signals: a    *)
(* full inbox has a wakeup on its way, as long as each signal found a       *)
(* listener and no goroutine gave up or took a resume command instead, for  *)
(* any number of dispatchers, handlers and messages and any channel size.  *)
THEOREM InboxIsAwaited == Spec => []NeverStranded
<1>1. Init => HandsInv /\ NeverStranded
  BY DEF Init, HandsInv, NeverStranded, Holding, Idle
<1>2. TypeOK /\ HandsInv /\ NeverStranded /\ [Next]_vars => HandsInv' /\ NeverStranded'
  BY HandsStep, AwaitedStep
<1> QED BY <1>1, <1>2, TypeCorrect, PTL DEF Spec
=============================================================================
