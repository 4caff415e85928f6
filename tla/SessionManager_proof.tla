------------------------- MODULE SessionManager_proof -------------------------
(***************************************************************************)
(* Proofs about SessionManager, for any turns, sessions, agents and        *)
(* viewers: whatever Subscribe, Terminate and the callers do, the two      *)
(* levels of mutexes keep turns apart, and the caller of Run and every     *)
(* viewer see the whole turn.                                              *)
(***************************************************************************)
EXTENDS SessionManager, SequenceTheorems, TLAPS

(* Where Run holds the session's mutex, and where the agent's.             *)
HasSession(t) == pc[t] \in {"session", "agent", "started", "streaming", "ended",
                            "closing", "retired"}
HasAgent(t) == pc[t] \in {"agent", "started", "streaming", "ended", "closing",
                          "retired", "unlocking"}

LockType ==
    /\ pc \in [Turns -> TurnStates]
    /\ sessionLock \in [Sessions -> Turns \cup {None}]
    /\ agentLock \in [Agents -> Turns \cup {None}]
    /\ runs \in [Sessions -> Turns \cup {None}]

(* TurnsDoNotOverlap is not inductive: it says nothing of a turn that has  *)
(* its locks and does not run yet, nor of one that ran and has not given   *)
(* them back.  What is inductive is which turn each mutex belongs to.      *)
LocksInv ==
    \A t \in Turns :
        /\ HasSession(t) => sessionLock[SessionOf[t]] = t
        /\ HasAgent(t) => agentLock[AgentOf[t]] = t
        /\ Running(t) => runs[SessionOf[t]] = t

Inv == LockType /\ LocksInv

USE SessionAssumption, AgentAssumption, NoneAssumption

(* No lock is held and nothing runs at first.                              *)
LEMMA InvInit == Init => Inv
<1> SUFFICES ASSUME Init PROVE Inv
  OBVIOUS
<1>1. LockType
  BY DEF Init, LockType, TurnStates
<1>2. LocksInv
  BY DEF Init, LocksInv, HasSession, HasAgent, Running
<1> QED BY <1>1, <1>2 DEF Inv

(* The steps that leave every lock, every run and every pc alone.          *)
LEMMA QuietStep ==
    ASSUME Inv, UNCHANGED <<pc, sessionLock, agentLock, runs>> PROVE Inv'
BY DEF Inv, LockType, LocksInv, HasSession, HasAgent, Running

(* Every step of a turn takes or gives back locks in the order of Run.     *)
LEMMA TurnStep ==
    ASSUME Inv, NEW t \in Turns, RunStep(t) \/ Finish(t) PROVE Inv'
<1> USE DEF Inv, LockType, LocksInv, HasSession, HasAgent, Running, TurnStates
<1>1. CASE LockSession(t)
  BY <1>1 DEF LockSession
<1>2. CASE RefuseAgent(t)
  BY <1>2 DEF RefuseAgent
<1>3. CASE LockAgent(t)
  BY <1>3 DEF LockAgent
<1>4. CASE StartFails(t)
  BY <1>4 DEF StartFails
<1>5. CASE Start(t)
  BY <1>5 DEF Start
<1>6. CASE Attach(t)
  BY <1>6 DEF Attach
<1>7. CASE Receive(t) \/ Deliver(t) \/ Skip(t) \/ CloseNext(t) \/ ResetInterrupt(t)
  BY <1>7, QuietStep DEF Receive, Deliver, Skip, CloseNext, ResetInterrupt, turnVars
<1>8. CASE Finish(t) \/ StopOnFlag(t) \/ StopOnContext(t)
  BY <1>8 DEF Finish, StopOnFlag, StopOnContext, StreamEnds
<1>9. CASE MarkDone(t)
  BY <1>9 DEF MarkDone
<1>10. CASE Retire(t)
  BY <1>10 DEF Retire
<1>11. CASE UnlockSession(t)
  BY <1>11 DEF UnlockSession
<1>12. CASE UnlockAgent(t)
  BY <1>12 DEF UnlockAgent
<1> QED BY <1>1, <1>2, <1>3, <1>4, <1>5, <1>6, <1>7, <1>8, <1>9, <1>10, <1>11,
           <1>12 DEF RunStep

(* Viewers, readers, Terminate and the clearing of buffers touch no lock.  *)
LEMMA OtherStep ==
    ASSUME Inv, [Next]_vars, \A t \in Turns : ~(RunStep(t) \/ Finish(t))
    PROVE  Inv'
<1>1. ASSUME NEW t \in Turns, StopStep(t)
      PROVE  UNCHANGED <<pc, sessionLock, agentLock, runs>>
  BY <1>1 DEF StopStep, Terminate, InterruptAgent, CancelRun, CallerLeaves, turnVars
<1>2. ASSUME NEW v \in Viewers, ViewStep(v)
      PROVE  UNCHANGED <<pc, sessionLock, agentLock, runs>>
  BY <1>2 DEF ViewStep, LookNothing, LookCompleted, LookRunning, Join, Replay,
              ReplayPanics, CloseReplay, turnVars
<1>3. ASSUME NEW c \in Channels, Read(c)
      PROVE  UNCHANGED <<pc, sessionLock, agentLock, runs>>
  BY <1>3 DEF Read, turnVars
<1>4. ASSUME NEW s \in Sessions, ClearCompleted(s)
      PROVE  UNCHANGED <<pc, sessionLock, agentLock, runs>>
  BY <1>4 DEF ClearCompleted
<1>5. UNCHANGED vars => UNCHANGED <<pc, sessionLock, agentLock, runs>>
  BY DEF vars, turnVars
<1> QED BY <1>1, <1>2, <1>3, <1>4, <1>5, QuietStep DEF Next

(* Two running turns would hold the same mutex.                            *)
LEMMA InvApart == ASSUME Inv PROVE TurnsDoNotOverlap
<1> SUFFICES ASSUME NEW t \in Turns, Running(t)
    PROVE  /\ runs[SessionOf[t]] = t
           /\ \A u \in Turns \ {t} :
                 Running(u) => SessionOf[u] # SessionOf[t] /\ AgentOf[u] # AgentOf[t]
  BY DEF TurnsDoNotOverlap
<1>1. \A u \in Turns : Running(u) => HasSession(u) /\ HasAgent(u)
  BY DEF Running, HasSession, HasAgent
<1> QED BY <1>1 DEF Inv, LocksInv

(* session_manager.go 88-97: turns of one session never overlap, nor turns *)
(* on one agent instance, and a running turn is the one Subscribe, Steer   *)
(* and Terminate find in sm.runs.                                          *)
THEOREM TurnsApart == Spec => []TurnsDoNotOverlap
<1>1. Inv /\ [Next]_vars => Inv'
  BY TurnStep, OtherStep
<1>2. Inv => TurnsDoNotOverlap
  BY InvApart
<1> QED BY InvInit, <1>1, <1>2, PTL DEF Spec

-------------------------------------------------------------------------------
(* TypeOK is not inductive: a send carries an event that was made, and a   *)
(* viewer that found a run has one to join.                                *)
EventsAreMade ==
    \A t \in Turns : pc[t] = "ended" \/ todo[t] # <<>> => made[t] \in 1..MaxEvents

LookersJoin == \A v \in Viewers : vpc[v] = "looked" => joined[v] \in Turns

TypeInv == TypeOK /\ EventsAreMade /\ LookersJoin

(* What the fan-out still has to serve, and the head of it.                *)
LEMMA HeadAndTail ==
    ASSUME NEW S, NEW s \in Seq(S), s # <<>>
    PROVE  Head(s) \in S /\ Tail(s) \in Seq(S)
OBVIOUS

(* Nothing is made, sent or joined at first.                               *)
LEMMA TypeInit == Init => TypeInv
<1> SUFFICES ASSUME Init PROVE TypeInv
  OBVIOUS
<1>1. /\ pc \in [Turns -> TurnStates] /\ sessionLock \in [Sessions -> Turns \cup {None}]
      /\ agentLock \in [Agents -> Turns \cup {None}]
      /\ runs \in [Sessions -> Turns \cup {None}]
      /\ completed \in [Sessions -> Turns \cup {None}]
  BY DEF Init, TurnStates
<1>2. /\ made \in [Turns -> 0..MaxEvents] /\ subscribers \in [Turns -> Seq(Channels)]
      /\ todo \in [Turns -> Seq(Channels)] /\ done \subseteq Turns
  BY CapAssumption DEF Init
<1>3. /\ chan \in [Channels -> Seq(1..MaxEvents)] /\ closed \subseteq Channels
      /\ got \in [Channels -> Seq(1..MaxEvents)]
  BY DEF Init
<1>4. /\ vpc \in [Viewers -> ViewStates] /\ joined \in [Viewers -> Turns \cup {None}]
      /\ replay \in [Viewers -> Seq(1..MaxEvents)]
  BY DEF Init, ViewStates
<1>5. /\ term \in [Turns -> TermStates] /\ flag \in [Agents -> BOOLEAN] /\ fresh \subseteq Turns
      /\ cancelled \subseteq Turns /\ left \subseteq Turns /\ interrupted \subseteq Turns
      /\ panicked \in BOOLEAN
  BY DEF Init, TermStates
<1>6. EventsAreMade /\ LookersJoin
  BY DEF Init, EventsAreMade, LookersJoin
<1> QED BY <1>1, <1>2, <1>3, <1>4, <1>5, <1>6 DEF TypeInv, TypeOK

(* The steps that take and give back locks, and those that only mark.      *)
LEMMA TypeLockStep ==
    ASSUME TypeInv, NEW t \in Turns,
           \/ LockSession(t) \/ RefuseAgent(t) \/ LockAgent(t) \/ StartFails(t)
           \/ Start(t) \/ UnlockSession(t) \/ UnlockAgent(t)
    PROVE  TypeInv'
<1> USE DEF TypeInv, TypeOK, EventsAreMade, LookersJoin, TurnStates, fanVars, chanVars,
            viewVars, stopVars
<1>1. CASE LockSession(t)
  BY <1>1 DEF LockSession
<1>2. CASE RefuseAgent(t)
  BY <1>2 DEF RefuseAgent
<1>3. CASE LockAgent(t)
  BY <1>3 DEF LockAgent
<1>4. CASE StartFails(t)
  BY <1>4 DEF StartFails
<1>5. CASE Start(t)
  BY <1>5 DEF Start
<1>6. CASE UnlockSession(t)
  BY <1>6 DEF UnlockSession
<1>7. CASE UnlockAgent(t)
  BY <1>7 DEF UnlockAgent
<1> QED BY <1>1, <1>2, <1>3, <1>4, <1>5, <1>6, <1>7

(* The fan-out.                                                            *)
LEMMA TypeFanStep ==
    ASSUME TypeInv, NEW t \in Turns,
           \/ Attach(t) \/ Receive(t) \/ Deliver(t) \/ Skip(t) \/ MarkDone(t)
           \/ CloseNext(t) \/ Retire(t)
    PROVE  TypeInv'
<1> USE CapAssumption DEF TypeInv, TypeOK, EventsAreMade, LookersJoin, TurnStates
<1> USE DEF turnVars, fanVars, chanVars, viewVars, stopVars
<1>1. CASE Attach(t)
  <2>1. Append(subscribers[t], t) \in Seq(Channels)
    BY DEF Channels
  <2> QED BY <1>1, <2>1 DEF Attach
<1>2. CASE Receive(t)
  <2>1. made'[t] \in 1..MaxEvents /\ todo'[t] \in Seq(Channels)
    BY <1>2 DEF Receive
  <2> QED BY <1>2, <2>1 DEF Receive
<1>3. CASE Deliver(t)
  <2> DEFINE c == Head(todo[t])
  <2>1. c \in Channels /\ Tail(todo[t]) \in Seq(Channels)
    BY <1>3, HeadAndTail DEF Deliver
  <2>2. Append(chan[c], made[t]) \in Seq(1..MaxEvents)
    BY <1>3, <2>1 DEF Deliver
  <2>3. /\ chan' = [chan EXCEPT ![c] = Append(chan[c], made[t])]
        /\ todo' = [todo EXCEPT ![t] = Tail(todo[t])]
        /\ UNCHANGED <<turnVars, made, subscribers, done, closed, got, viewVars, stopVars,
                       panicked>>
    BY <1>3 DEF Deliver
  <2> HIDE DEF c
  <2>4. chan' \in [Channels -> Seq(1..MaxEvents)] /\ todo' \in [Turns -> Seq(Channels)]
    BY <2>1, <2>2, <2>3
  <2>5. EventsAreMade'
    BY <2>3, <1>3 DEF Deliver
  <2> QED BY <2>3, <2>4, <2>5
<1>4. CASE Skip(t)
  <2>1. Tail(todo[t]) \in Seq(Channels)
    BY <1>4, HeadAndTail DEF Skip
  <2> QED BY <1>4, <2>1 DEF Skip
<1>5. CASE MarkDone(t)
  BY <1>5 DEF MarkDone
<1>6. CASE CloseNext(t)
  <2>1. Head(todo[t]) \in Channels /\ Tail(todo[t]) \in Seq(Channels)
    BY <1>6, HeadAndTail DEF CloseNext
  <2> QED BY <1>6, <2>1 DEF CloseNext
<1>7. CASE Retire(t)
  BY <1>7 DEF Retire
<1> QED BY <1>1, <1>2, <1>3, <1>4, <1>5, <1>6, <1>7

(* The agent, the end of its stream, and those who stop it.                *)
LEMMA TypeStopStep ==
    ASSUME TypeInv, NEW t \in Turns,
           \/ Finish(t) \/ StopOnFlag(t) \/ StopOnContext(t) \/ ResetInterrupt(t) \/ StopStep(t)
    PROVE  TypeInv'
<1> USE CapAssumption DEF TypeInv, TypeOK, EventsAreMade, LookersJoin, TurnStates, TermStates
<1> USE DEF turnVars, fanVars, chanVars, viewVars, stopVars
<1>1. ASSUME NEW why, StreamEnds(t, why) PROVE TypeInv'
  <2>1. pc' \in [Turns -> TurnStates] /\ interrupted' \subseteq Turns
    BY <1>1 DEF StreamEnds
  <2>2. EventsAreMade'
    BY <1>1 DEF StreamEnds
  <2> QED BY <1>1, <2>1, <2>2 DEF StreamEnds
<1>2. CASE ResetInterrupt(t)
  BY <1>2 DEF ResetInterrupt
<1>3. CASE Terminate(t)
  BY <1>3 DEF Terminate
<1>4. CASE InterruptAgent(t)
  BY <1>4 DEF InterruptAgent
<1>5. CASE CancelRun(t)
  BY <1>5 DEF CancelRun
<1>6. CASE CallerLeaves(t)
  BY <1>6 DEF CallerLeaves
<1> QED BY <1>1, <1>2, <1>3, <1>4, <1>5, <1>6 DEF StopStep, Finish, StopOnFlag, StopOnContext

(* The viewers: what they replay is part of the run's buffer.              *)
LEMMA TypeViewStep ==
    ASSUME TypeInv, NEW v \in Viewers, ViewStep(v) PROVE TypeInv'
<1> USE CapAssumption, SessionAssumption DEF TypeInv, TypeOK, LookersJoin, ViewStates
<1> USE DEF turnVars, fanVars, chanVars, viewVars, stopVars
<1>1. v \in Channels
  BY DEF Channels
<1>2. \A t \in Turns : [i \in 1..made[t] |-> i] \in Seq(1..MaxEvents)
  OBVIOUS
<1>3. CASE LookNothing(v)
  BY <1>1, <1>3 DEF LookNothing, EventsAreMade
<1>4. CASE LookCompleted(v)
  <2>1. completed[SessionOf[v]] \in Turns
    BY <1>4 DEF LookCompleted
  <2> QED BY <1>2, <1>4, <2>1 DEF LookCompleted, EventsAreMade
<1>5. CASE LookRunning(v)
  BY <1>5 DEF LookRunning, EventsAreMade
<1>6. CASE Join(v)
  <2>1. joined[v] \in Turns
    BY <1>6 DEF Join
  <2>2. Append(subscribers[joined[v]], v) \in Seq(Channels)
    BY <1>1, <2>1
  <2>3. subscribers' \in [Turns -> Seq(Channels)]
    <3>1. \/ subscribers' = subscribers
          \/ subscribers' = [subscribers EXCEPT ![joined[v]] = Append(subscribers[joined[v]], v)]
      BY <1>6 DEF Join
    <3>2. subscribers \in [Turns -> Seq(Channels)]
      OBVIOUS
    <3> HIDE DEF TypeInv
    <3> QED BY <2>1, <2>2, <3>1, <3>2
  <2>4. replay' \in [Viewers -> Seq(1..MaxEvents)] /\ vpc' \in [Viewers -> ViewStates]
    BY <1>2, <1>6, <2>1 DEF Join
  <2>5. LookersJoin'
    BY <1>6 DEF Join
  <2>6. EventsAreMade'
    BY <1>6 DEF Join, EventsAreMade
  <2> QED BY <1>6, <2>3, <2>4, <2>5, <2>6 DEF Join
<1>7. CASE Replay(v)
  <2>1. Head(replay[v]) \in 1..MaxEvents /\ Tail(replay[v]) \in Seq(1..MaxEvents)
    BY <1>7, HeadAndTail DEF Replay
  <2>2. Append(chan[v], Head(replay[v])) \in Seq(1..MaxEvents)
    BY <1>1, <2>1
  <2> QED BY <1>1, <1>7, <2>1, <2>2 DEF Replay, EventsAreMade
<1>8. CASE ReplayPanics(v)
  BY <1>8 DEF ReplayPanics, EventsAreMade
<1>9. CASE CloseReplay(v)
  BY <1>1, <1>9 DEF CloseReplay, EventsAreMade
<1> QED BY <1>3, <1>4, <1>5, <1>6, <1>7, <1>8, <1>9 DEF ViewStep

(* The readers, and the passes that drop kept buffers.                     *)
LEMMA TypeReadStep ==
    ASSUME TypeInv, (\E c \in Channels : Read(c)) \/ (\E s \in Sessions : ClearCompleted(s))
    PROVE  TypeInv'
<1> USE DEF TypeInv, TypeOK, EventsAreMade, LookersJoin, turnVars, fanVars, chanVars,
            viewVars, stopVars
<1>1. ASSUME NEW c \in Channels, Read(c) PROVE TypeInv'
  <2>1. Head(chan[c]) \in 1..MaxEvents /\ Tail(chan[c]) \in Seq(1..MaxEvents)
    BY <1>1, HeadAndTail DEF Read
  <2>2. Append(got[c], Head(chan[c])) \in Seq(1..MaxEvents)
    BY <2>1
  <2> QED BY <1>1, <2>1, <2>2 DEF Read
<1>2. ASSUME NEW s \in Sessions, ClearCompleted(s) PROVE TypeInv'
  BY <1>2 DEF ClearCompleted
<1> QED BY <1>1, <1>2

(* Every step keeps the types.                                             *)
LEMMA TypeStep == TypeInv /\ [Next]_vars => TypeInv'
<1> SUFFICES ASSUME TypeInv, [Next]_vars PROVE TypeInv'
  OBVIOUS
<1>1. CASE UNCHANGED vars
  BY <1>1 DEF TypeInv, TypeOK, EventsAreMade, LookersJoin, vars, turnVars, fanVars,
              chanVars, viewVars, stopVars
<1>2. CASE Next
  BY <1>2, TypeLockStep, TypeFanStep, TypeStopStep, TypeViewStep, TypeReadStep
     DEF Next, RunStep
<1> QED BY <1>1, <1>2

(* Every channel carries events of a run's buffer, none beyond its end,    *)
(* and the fan-out only sends to channels that exist (session_manager.go   *)
(* 164-181 and 217-250).                                                   *)
THEOREM TypeCorrect == Spec => []TypeOK
<1>1. TypeInv => TypeOK
  BY DEF TypeInv
<1> QED BY TypeInit, TypeStep, <1>1, PTL DEF Spec

-----------------------------------------------------------------------------
(* What the subscribers of a turn see: the caller of Run and every viewer   *)
(* get the whole turn, whenever a viewer joined and however the fan-out and *)
(* its replay interleave.                                                  *)

USE ChannelAssumption

(* The events 1 to n; whether c is in a list; a list without repetitions.  *)
Upto(n) == [i \in 1..n |-> i]
In(c, list) == \E i \in DOMAIN list : list[i] = c
NoRepeat(list) == \A i, j \in DOMAIN list : list[i] = list[j] => i = j

Before == {"new", "session", "agent", "started", "failed"}
Ending == {"closing", "retired", "unlocking", "over"}

(* How many events of turn t channel c has got from the fan-out, or will   *)
(* get from the replay: all but the one that is still on its way.          *)
Sent(t, c) == IF pc[t] = "streaming" /\ In(c, todo[t]) THEN made[t] - 1 ELSE made[t]

(* A channel is served by one turn only, once for each event.              *)
FanOf(u) ==
    /\ NoRepeat(subscribers[u]) /\ NoRepeat(todo[u])
    /\ \A c \in Channels : In(c, todo[u]) => In(c, subscribers[u])
    /\ \A t \in Turns : In(t, subscribers[u]) => t = u
    /\ \A v \in Viewers : In(v, subscribers[u]) => vpc[v] = "following" /\ joined[v] = u
    /\ u \in done <=> pc[u] \in Ending
    /\ pc[u] = "ended" => todo[u] = <<>>

CallerOf(t) ==
    /\ pc[t] \in Before =>
          made[t] = 0 /\ todo[t] = <<>> /\ chan[t] = <<>> /\ got[t] = <<>> /\ ~In(t, subscribers[t])
    /\ pc[t] \notin Before => In(t, subscribers[t])
    /\ t \in closed => t \in done
    /\ t \notin left => Stream(t) = Upto(Sent(t, t))

(* Of the first m events the replay has sent r and has to send those up to *)
(* k; the fan-out has sent the others, in between and not in order.        *)
Follows(v, m) ==
    \E r, k \in 0..m :
        /\ r <= k /\ Len(replay[v]) = k - r
        /\ \A i \in 1..(k - r) : replay[v][i] = r + i
        /\ Len(Stream(v)) = r + (m - k)
        /\ \A e \in 1..MaxEvents : In(e, Stream(v)) <=> e \in 1..r \cup (k + 1)..m

ViewerOf(v) ==
    /\ vpc[v] \in {"new", "looked"} => chan[v] = <<>> /\ got[v] = <<>>
    /\ vpc[v] = "new" => joined[v] = None
    /\ vpc[v] \in {"following", "replaying"} => joined[v] \in Turns
    /\ vpc[v] = "following" => In(v, subscribers[joined[v]])
    /\ vpc[v] \in {"replaying", "over"} /\ joined[v] # None => joined[v] \in done
    /\ v \in closed => vpc[v] = "over" \/ (vpc[v] = "following" /\ joined[v] \in done)
    /\ vpc[v] # "looked" /\ joined[v] # None /\ joined[v] \notin left =>
          Follows(v, Sent(joined[v], v))

KeptAreDone == \A s \in Sessions : completed[s] # None => completed[s] \in done

StreamInv ==
    /\ TypeInv /\ KeptAreDone
    /\ \A t \in Turns : FanOf(t) /\ CallerOf(t)
    /\ \A v \in Viewers : ViewerOf(v)

-----------------------------------------------------------------------------
(* Lists.                                                                  *)

(* What is in a list that got one more element.                            *)
LEMMA InAppend ==
    ASSUME NEW S, NEW s \in Seq(S), NEW e \in S
    PROVE  /\ \A c : In(c, Append(s, e)) <=> In(c, s) \/ c = e
           /\ NoRepeat(s) /\ ~In(e, s) => NoRepeat(Append(s, e))
           /\ Len(Append(s, e)) = Len(s) + 1 /\ Append(s, e) \in Seq(S)
<1>1. /\ DOMAIN s = 1..Len(s) /\ Len(s) \in Nat
      /\ DOMAIN Append(s, e) = 1..(Len(s) + 1) /\ Append(s, e)[Len(s) + 1] = e
      /\ \A i \in 1..Len(s) : Append(s, e)[i] = s[i]
  BY AppendProperties, LenProperties
<1>2. Len(Append(s, e)) = Len(s) + 1 /\ Append(s, e) \in Seq(S)
  BY AppendProperties
<1>3. ASSUME NEW c PROVE In(c, Append(s, e)) <=> In(c, s) \/ c = e
  BY <1>1 DEF In
<1>4. NoRepeat(s) /\ ~In(e, s) => NoRepeat(Append(s, e))
  BY <1>1 DEF In, NoRepeat
<1> QED BY <1>2, <1>3, <1>4

(* What is in a list without its head.                                     *)
LEMMA InTail ==
    ASSUME NEW S, NEW s \in Seq(S), s # <<>>, NoRepeat(s)
    PROVE  /\ \A c : In(c, Tail(s)) <=> In(c, s) /\ c # Head(s)
           /\ NoRepeat(Tail(s)) /\ In(Head(s), s)
<1>1. /\ DOMAIN s = 1..Len(s) /\ Len(s) \in Nat \ {0} /\ Head(s) = s[1]
      /\ DOMAIN Tail(s) = 1..(Len(s) - 1)
      /\ \A i \in 1..(Len(s) - 1) : Tail(s)[i] = s[i + 1]
  BY HeadTailProperties, LenProperties, EmptySeq
<1>2. ASSUME NEW c PROVE In(c, Tail(s)) <=> In(c, s) /\ c # Head(s)
  <2>1. CASE In(c, Tail(s))
    <3>1. PICK i \in 1..(Len(s) - 1) : s[i + 1] = c
      BY <1>1, <2>1 DEF In
    <3>2. i + 1 \in DOMAIN s /\ 1 \in DOMAIN s /\ i + 1 # 1
      BY <1>1
    <3> QED BY <1>1, <2>1, <3>1, <3>2 DEF In, NoRepeat
  <2>2. CASE In(c, s) /\ c # Head(s)
    <3>1. PICK i \in 1..Len(s) : s[i] = c
      BY <1>1, <2>2 DEF In
    <3>2. i - 1 \in 1..(Len(s) - 1) /\ (i - 1) + 1 = i
      BY <1>1, <2>2, <3>1
    <3> QED BY <1>1, <2>2, <3>1, <3>2 DEF In
  <2> QED BY <2>1, <2>2
<1>3. NoRepeat(Tail(s))
  <2> SUFFICES ASSUME NEW i \in 1..(Len(s) - 1), NEW j \in 1..(Len(s) - 1), s[i + 1] = s[j + 1]
               PROVE  i = j
    BY <1>1 DEF NoRepeat
  <2>1. i + 1 \in DOMAIN s /\ j + 1 \in DOMAIN s
    BY <1>1
  <2> QED BY <2>1 DEF NoRepeat
<1>4. In(Head(s), s)
  BY <1>1 DEF In
<1> QED BY <1>2, <1>3, <1>4

(* Nothing is in the empty list.                                          *)
LEMMA InNothing == \A c : ~In(c, <<>>)
BY DEF In

(* A send ends up at the end of what a channel carried and carries.        *)
LEMMA SendToStream ==
    ASSUME NEW S, NEW g \in Seq(S), NEW b \in Seq(S), NEW e \in S
    PROVE  g \o Append(b, e) = Append(g \o b, e) /\ g \o b \in Seq(S)
<1>1. g \o b \in Seq(S)
  BY ConcatProperties
<1>2. g \o Append(b, e) = Append(g \o b, e)
  BY ConcatProperties, AppendProperties
<1> QED BY <1>1, <1>2

(* A read leaves the stream as it is.                                      *)
LEMMA ReadFromStream ==
    ASSUME NEW S, NEW g \in Seq(S), NEW b \in Seq(S), b # <<>>
    PROVE  Append(g, Head(b)) \o Tail(b) = g \o b
BY HeadTailProperties, ConcatProperties, AppendProperties

(* One more event after the events up to it.                               *)
LEMMA UptoNext ==
    ASSUME NEW n \in Nat, n # 0
    PROVE  Append(Upto(n - 1), n) = Upto(n) /\ Upto(0) = <<>>
<1>1. Upto(n - 1) \in Seq(Nat) /\ Len(Upto(n - 1)) = n - 1
  BY DEF Upto
<1>2. Append(Upto(n - 1), n) = Upto(n)
  BY <1>1, AppendProperties DEF Upto
<1> QED BY <1>2 DEF Upto

-----------------------------------------------------------------------------
(* The steps.                                                              *)

(* Nothing is sent, and nobody has joined, at first.                       *)
LEMMA StreamInit == Init => StreamInv
<1> SUFFICES ASSUME Init PROVE StreamInv
  OBVIOUS
<1>1. TypeInv /\ KeptAreDone
  BY TypeInit DEF Init, KeptAreDone
<1>2. ASSUME NEW t \in Turns PROVE FanOf(t) /\ CallerOf(t)
  <2>1. /\ pc[t] = "new" /\ made[t] = 0 /\ todo[t] = <<>> /\ subscribers[t] = <<>>
        /\ chan[t] = <<>> /\ got[t] = <<>> /\ done = {} /\ closed = {}
    BY DEF Init, Channels
  <2>2. NoRepeat(<<>>)
    BY DEF NoRepeat
  <2>3. Stream(t) = <<>> /\ Upto(0) = <<>> /\ Sent(t, t) = 0
    BY <2>1 DEF Stream, Upto, Sent
  <2> QED BY <2>1, <2>2, <2>3, InNothing DEF FanOf, CallerOf, Before, Ending
<1>3. ASSUME NEW v \in Viewers PROVE ViewerOf(v)
  BY DEF Init, ViewerOf, Channels
<1> QED BY <1>1, <1>2, <1>3 DEF StreamInv

Phase(t) == CASE pc[t] \in Before -> "before" [] pc[t] \in Ending -> "ending" [] OTHER -> pc[t]

(* The steps that leave the fan-out, the channels and the viewers alone and *)
(* take no turn into or out of its stream.                                 *)
LEMMA QuietKeeps ==
    ASSUME StreamInv, TypeInv', KeptAreDone', UNCHANGED <<fanVars, chanVars, viewVars>>,
           left \subseteq left', \A t \in Turns : Phase(t)' = Phase(t)
    PROVE  StreamInv'
<1> USE DEF StreamInv, fanVars, chanVars, viewVars
<1>1. \A t \in Turns : /\ pc'[t] \in Before <=> pc[t] \in Before
                       /\ pc'[t] \in Ending <=> pc[t] \in Ending
                       /\ pc'[t] = "streaming" <=> pc[t] = "streaming"
                       /\ pc'[t] = "ended" <=> pc[t] = "ended"
  BY DEF Phase, Before, Ending, TypeInv, TypeOK, TurnStates
<1>2. \A t \in Turns : \A c : Sent(t, c)' = Sent(t, c)
  BY <1>1 DEF Sent
<1>3. \A c : Stream(c)' = Stream(c)
  BY DEF Stream
<1>4. \A t \in Turns : FanOf(t)'
  BY <1>1 DEF FanOf
<1>5. \A t \in Turns : CallerOf(t)'
  BY <1>1, <1>2, <1>3 DEF CallerOf
<1>6. ASSUME NEW v \in Viewers PROVE ViewerOf(v)'
  <2>1. \A m : Follows(v, m)' <=> Follows(v, m)
    BY <1>3 DEF Follows
  <2>2. joined[v] \in Turns \cup {None}
    BY DEF TypeInv, TypeOK
  <2> QED BY <1>2, <2>1, <2>2 DEF ViewerOf
<1> QED BY <1>4, <1>5, <1>6

(* Locks, starts, ends and Terminate are such steps.                       *)
LEMMA QuietSteps ==
    ASSUME StreamInv, TypeInv', NEW t \in Turns,
           \/ LockSession(t) \/ RefuseAgent(t) \/ LockAgent(t) \/ StartFails(t) \/ Start(t)
           \/ Retire(t) \/ UnlockSession(t) \/ UnlockAgent(t)
           \/ ResetInterrupt(t) \/ StopStep(t)
    PROVE  StreamInv'
<1>1. UNCHANGED <<fanVars, chanVars, viewVars>> /\ left \subseteq left'
  BY DEF LockSession, RefuseAgent, LockAgent, StartFails, Start, Retire, UnlockSession,
         UnlockAgent, ResetInterrupt, StopStep, Terminate, InterruptAgent, CancelRun,
         CallerLeaves, stopVars
<1>2. \A u \in Turns : Phase(u)' = Phase(u)
  <2>1. CASE UNCHANGED pc
    BY <2>1 DEF Phase
  <2>2. CASE /\ pc' \in [Turns -> TurnStates] /\ \A u \in Turns \ {t} : pc'[u] = pc[u]
             /\ \/ pc[t] \in Before /\ pc'[t] \in Before
                \/ pc[t] \in Ending /\ pc'[t] \in Ending
    BY <2>2 DEF Phase, Before, Ending
  <2>3. pc \in [Turns -> TurnStates]
    BY DEF StreamInv, TypeInv, TypeOK
  <2> QED BY <2>1, <2>2, <2>3 DEF LockSession, RefuseAgent, LockAgent, StartFails, Start, Retire,
         UnlockSession, UnlockAgent, ResetInterrupt, StopStep, Terminate, InterruptAgent,
         CancelRun, CallerLeaves, turnVars, TurnStates, Before, Ending
<1>3. KeptAreDone'
  <2>1. CASE Retire(t)
    <3>1. t \in done /\ done' = done /\ completed' = [completed EXCEPT ![SessionOf[t]] = t]
      BY <2>1 DEF Retire, StreamInv, FanOf, Ending, fanVars
    <3> QED BY <3>1 DEF KeptAreDone, StreamInv, TypeInv, TypeOK
  <2>2. CASE ~Retire(t)
    <3>1. completed' = completed /\ done' = done
      BY <2>2 DEF LockSession, RefuseAgent, LockAgent, StartFails, Start, UnlockSession,
         UnlockAgent, ResetInterrupt, StopStep, Terminate, InterruptAgent, CancelRun,
         CallerLeaves, turnVars, fanVars
    <3> QED BY <3>1 DEF KeptAreDone, StreamInv
  <2> QED BY <2>1, <2>2
<1> QED BY <1>1, <1>2, <1>3, QuietKeeps

(* So are a panic and the clearing of kept buffers.                        *)
LEMMA QuietOthers ==
    ASSUME StreamInv, TypeInv',
           \/ UNCHANGED vars \/ (\E v \in Viewers : ReplayPanics(v))
           \/ (\E s \in Sessions : ClearCompleted(s))
    PROVE  StreamInv'
<1>1. UNCHANGED <<pc, fanVars, chanVars, viewVars, left>>
  BY DEF vars, ReplayPanics, ClearCompleted, turnVars, stopVars
<1>2. \A u \in Turns : Phase(u)' = Phase(u)
  BY <1>1 DEF Phase
<1>3. KeptAreDone'
  BY DEF KeptAreDone, StreamInv, TypeInv, TypeOK, vars, ReplayPanics, ClearCompleted,
         turnVars, fanVars
<1> QED BY <1>1, <1>2, <1>3, QuietKeeps

(* The agent's stream ends when every subscriber was served.               *)
LEMMA EndKeeps ==
    ASSUME StreamInv, TypeInv', NEW t \in Turns, NEW why, StreamEnds(t, why)
    PROVE  StreamInv'
<1> USE DEF StreamInv, fanVars, chanVars, viewVars
<1>1. /\ UNCHANGED <<fanVars, chanVars, viewVars, completed, left>>
      /\ pc[t] = "streaming" /\ todo[t] = <<>> /\ pc'[t] = "ended"
      /\ \A u \in Turns \ {t} : pc'[u] = pc[u]
  BY DEF StreamEnds, TypeInv, TypeOK
<1>2. \A u \in Turns : \A c : Sent(u, c)' = Sent(u, c)
  BY <1>1, InNothing DEF Sent
<1>3. \A c : Stream(c)' = Stream(c)
  BY <1>1 DEF Stream
<1>4. \A u \in Turns : FanOf(u)'
  BY <1>1 DEF FanOf, Ending
<1>5. \A u \in Turns : CallerOf(u)'
  BY <1>1, <1>2, <1>3 DEF CallerOf, Before
<1>6. ASSUME NEW v \in Viewers PROVE ViewerOf(v)'
  <2>1. \A m : Follows(v, m)' <=> Follows(v, m)
    BY <1>1, <1>3 DEF Follows
  <2>2. joined[v] \in Turns \cup {None}
    BY DEF TypeInv, TypeOK
  <2> QED BY <1>1, <1>2, <2>1, <2>2 DEF ViewerOf
<1>7. KeptAreDone'
  BY <1>1 DEF KeptAreDone
<1> QED BY <1>4, <1>5, <1>6, <1>7

(* What follows of an unchanged stream and of what is still on its way.    *)
LEMMA SameFollows ==
    ASSUME NEW v \in Viewers, UNCHANGED <<replay[v], chan[v], got[v]>>
    PROVE  \A m : Follows(v, m)' <=> Follows(v, m)
<1>1. Stream(v)' = Stream(v)
  BY DEF Stream
<1> QED BY <1>1 DEF Follows

(* The caller's own channel is a subscriber before the first event.        *)
LEMMA AttachKeeps ==
    ASSUME StreamInv, TypeInv', NEW t \in Turns, Attach(t) PROVE StreamInv'
<1> USE DEF StreamInv, chanVars, viewVars, stopVars
<1>1. /\ UNCHANGED <<made, todo, done, chanVars, viewVars, completed, left>>
      /\ pc[t] = "started" /\ pc'[t] = "streaming" /\ todo[t] = <<>>
      /\ subscribers' = [subscribers EXCEPT ![t] = Append(subscribers[t], t)]
      /\ \A u \in Turns \ {t} : pc'[u] = pc[u] /\ subscribers'[u] = subscribers[u]
      /\ subscribers'[t] = Append(subscribers[t], t)
  BY DEF Attach, TypeInv, TypeOK, CallerOf, Before
<1>2. /\ subscribers[t] \in Seq(Channels) /\ t \in Channels /\ ~In(t, subscribers[t])
      /\ NoRepeat(subscribers[t])
  BY <1>1 DEF TypeInv, TypeOK, Channels, CallerOf, Before, FanOf
<1>3. /\ \A c : In(c, subscribers'[t]) <=> In(c, subscribers[t]) \/ c = t
      /\ NoRepeat(subscribers'[t])
  BY <1>1, <1>2, InAppend
<1>4. \A u \in Turns : \A c : Sent(u, c)' = Sent(u, c)
  BY <1>1, InNothing DEF Sent
<1>5. \A c : Stream(c)' = Stream(c)
  BY <1>1 DEF Stream
<1>6. \A u \in Turns : FanOf(u)'
  <2>1. FanOf(t)'
    BY <1>1, <1>3, InNothing DEF FanOf, Ending
  <2>2. ASSUME NEW u \in Turns \ {t} PROVE FanOf(u)'
    BY <1>1 DEF FanOf, Ending
  <2> QED BY <2>1, <2>2
<1>7. \A u \in Turns : CallerOf(u)'
  <2>1. CallerOf(t)'
    BY <1>1, <1>3, <1>4, <1>5 DEF CallerOf, Before
  <2>2. ASSUME NEW u \in Turns \ {t} PROVE CallerOf(u)'
    BY <1>1, <1>4, <1>5 DEF CallerOf, Before
  <2> QED BY <2>1, <2>2
<1>8. ASSUME NEW v \in Viewers PROVE ViewerOf(v)'
  <2>1. joined[v] \in Turns \cup {None}
    BY DEF TypeInv, TypeOK
  <2> QED BY <1>1, <1>3, <1>4, <2>1, SameFollows DEF ViewerOf
<1>9. KeptAreDone'
  BY <1>1 DEF KeptAreDone
<1> QED BY <1>6, <1>7, <1>8, <1>9

(* The run is done: from here on the lists say whose channel to close.     *)
LEMMA DoneKeeps ==
    ASSUME StreamInv, TypeInv', NEW t \in Turns, MarkDone(t) PROVE StreamInv'
<1> USE DEF StreamInv, chanVars, viewVars, stopVars
<1>1. /\ UNCHANGED <<made, subscribers, chanVars, viewVars, completed, left>>
      /\ pc[t] = "ended" /\ pc'[t] = "closing" /\ todo'[t] = subscribers[t]
      /\ done' = done \cup {t}
      /\ \A u \in Turns \ {t} : pc'[u] = pc[u] /\ todo'[u] = todo[u]
  BY DEF MarkDone, TypeInv, TypeOK
<1>2. \A u \in Turns : \A c : Sent(u, c)' = Sent(u, c)
  BY <1>1 DEF Sent
<1>3. \A c : Stream(c)' = Stream(c)
  BY <1>1 DEF Stream
<1>4. \A u \in Turns : FanOf(u)'
  <2>1. FanOf(t)'
    BY <1>1 DEF FanOf, Ending
  <2>2. ASSUME NEW u \in Turns \ {t} PROVE FanOf(u)'
    BY <1>1 DEF FanOf, Ending
  <2> QED BY <2>1, <2>2
<1>5. \A u \in Turns : CallerOf(u)'
  BY <1>1, <1>2, <1>3 DEF CallerOf, Before
<1>6. ASSUME NEW v \in Viewers PROVE ViewerOf(v)'
  <2>1. joined[v] \in Turns \cup {None}
    BY DEF TypeInv, TypeOK
  <2> QED BY <1>1, <1>2, <2>1, SameFollows DEF ViewerOf
<1>7. KeptAreDone'
  BY <1>1 DEF KeptAreDone
<1> QED BY <1>4, <1>5, <1>6, <1>7

(* Only channels of the run are closed.                                    *)
LEMMA CloseKeeps ==
    ASSUME StreamInv, TypeInv', NEW t \in Turns, CloseNext(t) PROVE StreamInv'
<1> USE DEF StreamInv, chanVars, viewVars, stopVars, turnVars
<1> DEFINE c == Head(todo[t])
<1>1. /\ UNCHANGED <<pc, made, subscribers, done, chan, got, viewVars, completed, left>>
      /\ pc[t] = "closing" /\ todo[t] # <<>> /\ todo'[t] = Tail(todo[t])
      /\ closed' = closed \cup {c}
      /\ \A u \in Turns \ {t} : todo'[u] = todo[u]
  BY DEF CloseNext, TypeInv, TypeOK
<1>2. /\ \A d : In(d, todo'[t]) <=> In(d, todo[t]) /\ d # c
      /\ NoRepeat(todo'[t]) /\ In(c, todo[t])
  BY <1>1, InTail DEF TypeInv, TypeOK, FanOf
<1>3. c \in Channels /\ In(c, subscribers[t]) /\ t \in done
  BY <1>1, <1>2, HeadAndTail DEF TypeInv, TypeOK, FanOf, Ending
<1> HIDE DEF c
<1>4. \A u \in Turns : \A d : Sent(u, d)' = Sent(u, d)
  BY <1>1 DEF Sent
<1>5. \A d : Stream(d)' = Stream(d)
  BY <1>1 DEF Stream
<1>6. \A u \in Turns : FanOf(u)'
  <2>1. FanOf(t)'
    BY <1>1, <1>2 DEF FanOf, Ending
  <2>2. ASSUME NEW u \in Turns \ {t} PROVE FanOf(u)'
    BY <1>1 DEF FanOf, Ending
  <2> QED BY <2>1, <2>2
<1>7. \A u \in Turns : CallerOf(u)'
  <2>1. ASSUME NEW u \in Turns, u = c PROVE u = t
    BY <1>3, <2>1 DEF FanOf
  <2>2. \A u \in Turns : u \in closed' => u \in done
    BY <1>1, <1>3, <2>1 DEF CallerOf
  <2>3. ASSUME NEW u \in Turns \ {t} PROVE CallerOf(u)'
    BY <1>1, <1>4, <1>5, <2>2 DEF CallerOf, Before
  <2>4. CallerOf(t)'
    BY <1>1, <1>4, <1>5, <2>2 DEF CallerOf, Before
  <2> QED BY <2>3, <2>4
<1>8. ASSUME NEW v \in Viewers PROVE ViewerOf(v)'
  <2>1. joined[v] \in Turns \cup {None}
    BY DEF TypeInv, TypeOK
  <2>2. v = c => vpc[v] = "following" /\ joined[v] = t
    BY <1>3 DEF FanOf
  <2> QED BY <1>1, <1>3, <1>4, <2>1, <2>2, SameFollows DEF ViewerOf
<1>9. KeptAreDone'
  BY <1>1 DEF KeptAreDone
<1> QED BY <1>6, <1>7, <1>8, <1>9

(* An event enters the buffer and is on its way to every subscriber.       *)
LEMMA ReceiveKeeps ==
    ASSUME StreamInv, TypeInv', NEW t \in Turns, Receive(t) PROVE StreamInv'
<1> USE DEF StreamInv, chanVars, viewVars, stopVars, turnVars
<1>1. /\ UNCHANGED <<pc, subscribers, done, chanVars, viewVars, completed, left>>
      /\ pc[t] = "streaming" /\ todo[t] = <<>> /\ todo'[t] = subscribers[t]
      /\ made'[t] = made[t] + 1 /\ made[t] \in Nat
      /\ \A u \in Turns \ {t} : todo'[u] = todo[u] /\ made'[u] = made[u]
  BY DEF Receive, TypeInv, TypeOK
<1>2. \A c : In(c, subscribers[t]) => Sent(t, c)' = Sent(t, c)
  BY <1>1, InNothing DEF Sent
<1>3. \A u \in Turns \ {t} : \A c : Sent(u, c)' = Sent(u, c)
  BY <1>1 DEF Sent
<1>4. \A c : Stream(c)' = Stream(c)
  BY <1>1 DEF Stream
<1>5. \A u \in Turns : FanOf(u)'
  <2>1. FanOf(t)'
    BY <1>1 DEF FanOf, Ending
  <2>2. ASSUME NEW u \in Turns \ {t} PROVE FanOf(u)'
    BY <1>1 DEF FanOf, Ending
  <2> QED BY <2>1, <2>2
<1>6. \A u \in Turns : CallerOf(u)'
  <2>1. CallerOf(t)'
    BY <1>1, <1>2, <1>4 DEF CallerOf, Before
  <2>2. ASSUME NEW u \in Turns \ {t} PROVE CallerOf(u)'
    BY <1>1, <1>3, <1>4 DEF CallerOf, Before
  <2> QED BY <2>1, <2>2
<1>7. ASSUME NEW v \in Viewers PROVE ViewerOf(v)'
  <2>1. joined[v] \in Turns \cup {None} /\ vpc[v] \in ViewStates
    BY DEF TypeInv, TypeOK
  <2>2. t \notin done
    BY <1>1 DEF FanOf, Ending
  <2>3. vpc[v] # "looked" /\ joined[v] # None => Sent(joined[v], v)' = Sent(joined[v], v)
    <3>1. CASE joined[v] = t /\ vpc[v] # "looked"
      <4>1. vpc[v] = "following"
        BY <2>1, <2>2, <3>1, NoneAssumption DEF ViewerOf, ViewStates
      <4> QED BY <1>1, <1>2, <3>1, <4>1 DEF ViewerOf
    <3>2. CASE joined[v] \in Turns \ {t}
      BY <1>1, <1>3, <3>2
    <3> QED BY <2>1, <3>1, <3>2
  <2> QED BY <1>1, <2>1, <2>3, SameFollows DEF ViewerOf
<1>8. KeptAreDone'
  BY <1>1 DEF KeptAreDone
<1> QED BY <1>5, <1>6, <1>7, <1>8

(* One more event from the fan-out, or from the replay.                    *)
LEMMA FollowsDelivered ==
    ASSUME NEW v \in Viewers, NEW m \in 1..MaxEvents, Follows(v, m - 1), replay'[v] = replay[v],
           Stream(v) \in Seq(1..MaxEvents), Stream(v)' = Append(Stream(v), m)
    PROVE  Follows(v, m)'
<1>1. PICK r \in 0..(m - 1), k \in 0..(m - 1) :
        /\ r <= k /\ Len(replay[v]) = k - r
        /\ \A i \in 1..(k - r) : replay[v][i] = r + i
        /\ Len(Stream(v)) = r + (m - 1 - k)
        /\ \A e \in 1..MaxEvents : In(e, Stream(v)) <=> e \in 1..r \cup (k + 1)..(m - 1)
  BY DEF Follows
<1> DEFINE s == Stream(v)
           n == Append(s, m)
<1>5. Len(n) = Len(s) + 1 /\ \A e : In(e, n) <=> In(e, s) \/ e = m
  BY InAppend
<1> HIDE DEF n
<1>2. Len(n) = r + (m - k)
  BY <1>1, <1>5
<1>3. \A e \in 1..MaxEvents : In(e, n) <=> e \in 1..r \cup (k + 1)..m
  BY <1>1, <1>5
<1>4. r \in 0..m /\ k \in 0..m /\ Stream(v)' = n
  BY <1>1 DEF n
<1>6. Len(replay'[v]) = k - r /\ \A i \in 1..(k - r) : replay'[v][i] = r + i
  BY <1>1
<1> QED BY <1>1, <1>2, <1>3, <1>4, <1>6 DEF Follows

(* The next event of the replay.                                           *)
LEMMA FollowsReplayed ==
    ASSUME NEW v \in Viewers, NEW m \in 0..MaxEvents, Follows(v, m), replay[v] \in Seq(1..MaxEvents),
           replay[v] # <<>>, replay'[v] = Tail(replay[v]),
           Stream(v) \in Seq(1..MaxEvents), Stream(v)' = Append(Stream(v), Head(replay[v]))
    PROVE  Follows(v, m)'
<1>1. PICK r \in 0..m, k \in 0..m :
        /\ r <= k /\ Len(replay[v]) = k - r
        /\ \A i \in 1..(k - r) : replay[v][i] = r + i
        /\ Len(Stream(v)) = r + (m - k)
        /\ \A e \in 1..MaxEvents : In(e, Stream(v)) <=> e \in 1..r \cup (k + 1)..m
  BY DEF Follows
<1>2. r < k /\ Head(replay[v]) = r + 1
  BY <1>1, EmptySeq, LenProperties, HeadTailProperties
<1>3. /\ Len(replay'[v]) = k - (r + 1)
      /\ \A i \in 1..(k - (r + 1)) : replay'[v][i] = (r + 1) + i
  BY <1>1, <1>2, HeadTailProperties
<1> DEFINE s == Stream(v)
           n == Append(s, r + 1)
<1>7. Len(n) = Len(s) + 1 /\ \A e : In(e, n) <=> In(e, s) \/ e = r + 1
  <2>1. r + 1 \in 1..MaxEvents
    BY <1>1, <1>2, CapAssumption
  <2>2. PICK x \in 1..MaxEvents : x = r + 1
    BY <2>1
  <2>3. s \in Seq(1..MaxEvents)
    OBVIOUS
  <2> HIDE DEF s
  <2>4. ASSUME NEW S, s \in Seq(S), x \in S
        PROVE  Len(Append(s, x)) = Len(s) + 1 /\ \A e : In(e, Append(s, x)) <=> In(e, s) \/ e = x
    BY <2>4, InAppend
  <2> QED BY <2>2, <2>3, <2>4
<1> HIDE DEF n
<1>4. Len(n) = (r + 1) + (m - k)
  BY <1>1, <1>2, <1>7
<1>5. \A e \in 1..MaxEvents : In(e, n) <=> e \in 1..(r + 1) \cup (k + 1)..m
  <2> TAKE e \in 1..MaxEvents
  <2>1. In(e, n) <=> e \in 1..r \cup (k + 1)..m \/ e = r + 1
    BY <1>1, <1>7
  <2>2. e \in 1..(r + 1) <=> e \in 1..r \/ e = r + 1
    BY <1>1
  <2> QED BY <2>1, <2>2
<1>6. r + 1 \in 0..m /\ k \in 0..m /\ r + 1 <= k /\ Stream(v)' = n
  BY <1>1, <1>2 DEF n
<1> QED BY <1>3, <1>4, <1>5, <1>6 DEF Follows

(* A context that is done takes the turn out of the promise.               *)
LEMMA SkipKeeps ==
    ASSUME StreamInv, TypeInv', NEW t \in Turns, Skip(t) PROVE StreamInv'
<1> USE DEF StreamInv, chanVars, viewVars, stopVars, turnVars
<1>1. /\ UNCHANGED <<pc, made, subscribers, done, chanVars, viewVars, completed, left>>
      /\ pc[t] = "streaming" /\ todo[t] # <<>> /\ todo'[t] = Tail(todo[t]) /\ t \in left
      /\ \A u \in Turns \ {t} : todo'[u] = todo[u]
  BY DEF Skip, TypeInv, TypeOK
<1>2. /\ \A d : In(d, todo'[t]) => In(d, todo[t])
      /\ NoRepeat(todo'[t])
  BY <1>1, InTail DEF TypeInv, TypeOK, FanOf
<1>3. \A u \in Turns \ {t} : \A c : Sent(u, c)' = Sent(u, c)
  BY <1>1 DEF Sent
<1>4. \A c : Stream(c)' = Stream(c)
  BY <1>1 DEF Stream
<1>5. \A u \in Turns : FanOf(u)'
  <2>1. FanOf(t)'
    BY <1>1, <1>2 DEF FanOf, Ending
  <2>2. ASSUME NEW u \in Turns \ {t} PROVE FanOf(u)'
    BY <1>1 DEF FanOf, Ending
  <2> QED BY <2>1, <2>2
<1>6. \A u \in Turns : CallerOf(u)'
  BY <1>1, <1>3, <1>4 DEF CallerOf, Before
<1>7. ASSUME NEW v \in Viewers PROVE ViewerOf(v)'
  <2>1. joined[v] \in Turns \cup {None}
    BY DEF TypeInv, TypeOK
  <2> QED BY <1>1, <1>3, <2>1, SameFollows DEF ViewerOf
<1>8. KeptAreDone'
  BY <1>1 DEF KeptAreDone
<1> QED BY <1>5, <1>6, <1>7, <1>8

(* A send goes to one channel of the turn that is served.                  *)
LEMMA DeliverKeeps ==
    ASSUME StreamInv, TypeInv', NEW t \in Turns, Deliver(t) PROVE StreamInv'
<1> USE DEF StreamInv, chanVars, viewVars, stopVars, turnVars
<1>0. PICK c : c = Head(todo[t])
  OBVIOUS
<1>1. /\ UNCHANGED <<pc, made, subscribers, done, closed, got, viewVars, completed, left>>
      /\ pc[t] = "streaming" /\ todo[t] # <<>> /\ todo'[t] = Tail(todo[t])
      /\ chan' = [chan EXCEPT ![c] = Append(chan[c], made[t])]
      /\ \A u \in Turns \ {t} : todo'[u] = todo[u]
  BY <1>0 DEF Deliver, TypeInv, TypeOK
<1>2. /\ \A d : In(d, todo'[t]) <=> In(d, todo[t]) /\ d # c
      /\ NoRepeat(todo'[t]) /\ In(c, todo[t])
  BY <1>0, <1>1, InTail DEF TypeInv, TypeOK, FanOf
<1>3. c \in Channels /\ In(c, subscribers[t]) /\ made[t] \in 1..MaxEvents
  BY <1>0, <1>1, <1>2, HeadAndTail DEF TypeInv, TypeOK, FanOf, EventsAreMade
<1>4. /\ \A u \in Turns : \A d : u # t \/ d # c => Sent(u, d)' = Sent(u, d)
      /\ Sent(t, c) = made[t] - 1 /\ Sent(t, c)' = made[t]
  BY <1>1, <1>2 DEF Sent
<1>5. /\ \A d \in Channels : d # c => chan'[d] = chan[d]
      /\ chan'[c] = Append(chan[c], made[t])
      /\ chan[c] \in Seq(1..MaxEvents) /\ got[c] \in Seq(1..MaxEvents)
  BY <1>1, <1>3 DEF TypeInv, TypeOK
<1>6. /\ \A d \in Channels : d # c => Stream(d)' = Stream(d)
      /\ Stream(c)' = Append(Stream(c), made[t]) /\ Stream(c) \in Seq(1..MaxEvents)
  <2>1. got[c] \o Append(chan[c], made[t]) = Append(got[c] \o chan[c], made[t])
        /\ got[c] \o chan[c] \in Seq(1..MaxEvents)
    BY <1>3, <1>5, SendToStream
  <2> QED BY <1>1, <1>5, <2>1 DEF Stream
<1>7. \A u \in Turns : FanOf(u)'
  <2>1. FanOf(t)'
    BY <1>1, <1>2 DEF FanOf, Ending
  <2>2. ASSUME NEW u \in Turns \ {t} PROVE FanOf(u)'
    BY <1>1 DEF FanOf, Ending
  <2> QED BY <2>1, <2>2
<1>8. ASSUME NEW u \in Turns PROVE CallerOf(u)'
  <2>1. u \in Channels
    BY DEF Channels
  <2>2. CASE u = c
    <3>1. u = t
      BY <1>3, <2>2 DEF FanOf
    <3>2. t \notin left => Stream(t)' = Upto(made[t])
      <4>1. Append(Upto(made[t] - 1), made[t]) = Upto(made[t])
        <5>1. made[t] \in Nat /\ made[t] # 0
          BY <1>3, CapAssumption
        <5> QED BY <5>1, UptoNext
      <4>2. t \notin left => Stream(t) = Upto(made[t] - 1)
        BY <1>4, <2>2, <3>1 DEF CallerOf
      <4> QED BY <1>6, <2>2, <3>1, <4>1, <4>2
    <3> QED BY <1>1, <1>4, <2>2, <3>1, <3>2 DEF CallerOf, Before
  <2>3. CASE u # c
    <3>1. todo'[u] = todo[u] \/ pc[u] \notin Before
      BY <1>1 DEF Before
    <3> QED BY <1>1, <1>4, <1>5, <1>6, <2>1, <2>3, <3>1 DEF CallerOf
  <2> QED BY <2>2, <2>3
<1>9. ASSUME NEW v \in Viewers PROVE ViewerOf(v)'
  <2>1. joined[v] \in Turns \cup {None} /\ v \in Channels
    BY DEF TypeInv, TypeOK, Channels
  <2>2. CASE v = c
    <3>1. vpc[v] = "following" /\ joined[v] = t
      BY <1>3, <2>2 DEF FanOf
    <3>2. joined[v] \notin left => Follows(v, made[t])'
      BY <1>1, <1>3, <1>4, <1>6, <2>2, <3>1, FollowsDelivered, NoneAssumption DEF ViewerOf
    <3> QED BY <1>1, <1>4, <2>2, <3>1, <3>2 DEF ViewerOf
  <2>3. CASE v # c
    BY <1>1, <1>4, <1>5, <2>1, <2>3, SameFollows DEF ViewerOf
  <2> QED BY <2>2, <2>3
<1>10. KeptAreDone'
  BY <1>1 DEF KeptAreDone
<1> QED BY <1>7, <1>8, <1>9, <1>10

(* A reader moves an event from the channel to what it got.                *)
LEMMA ReadKeeps ==
    ASSUME StreamInv, TypeInv', NEW c \in Channels, Read(c) PROVE StreamInv'
<1> USE DEF StreamInv, fanVars, viewVars, stopVars, turnVars
<1>1. /\ UNCHANGED <<pc, fanVars, closed, viewVars, completed, left>>
      /\ chan[c] # <<>> /\ chan'[c] = Tail(chan[c]) /\ got'[c] = Append(got[c], Head(chan[c]))
      /\ chan[c] \in Seq(1..MaxEvents) /\ got[c] \in Seq(1..MaxEvents)
      /\ \A d \in Channels \ {c} : chan'[d] = chan[d] /\ got'[d] = got[d]
  BY DEF Read, TypeInv, TypeOK
<1>2. \A d \in Channels : Stream(d)' = Stream(d)
  <2>1. Append(got[c], Head(chan[c])) \o Tail(chan[c]) = got[c] \o chan[c]
    <3>1. chan[c] \in Seq(1..MaxEvents) /\ got[c] \in Seq(1..MaxEvents) /\ chan[c] # <<>>
      BY <1>1
    <3> HIDE DEF StreamInv
    <3> QED BY <3>1, ReadFromStream
  <2> QED BY <1>1, <2>1 DEF Stream
<1>3. \A u \in Turns : \A d : Sent(u, d)' = Sent(u, d)
  BY <1>1 DEF Sent
<1>4. \A u \in Turns : FanOf(u)'
  BY <1>1 DEF FanOf
<1>5. ASSUME NEW u \in Turns PROVE CallerOf(u)'
  <2>1. u \in Channels
    BY DEF Channels
  <2> QED BY <1>1, <1>2, <1>3, <2>1 DEF CallerOf
<1>6. ASSUME NEW v \in Viewers PROVE ViewerOf(v)'
  <2>1. joined[v] \in Turns \cup {None} /\ v \in Channels
    BY DEF TypeInv, TypeOK, Channels
  <2>2. Stream(v)' = Stream(v) /\ replay' = replay
    BY <1>1, <1>2, <2>1
  <2>3. \A m : Follows(v, m)' <=> Follows(v, m)
    BY <2>2 DEF Follows
  <2> QED BY <1>1, <1>3, <2>1, <2>3 DEF ViewerOf
<1>7. KeptAreDone'
  BY <1>1 DEF KeptAreDone
<1> QED BY <1>4, <1>5, <1>6, <1>7

(* The buffer as a replay: nothing of it is sent, and nothing by others.   *)
LEMMA ReplayFollows ==
    ASSUME NEW v \in Viewers, NEW m \in 0..MaxEvents, replay'[v] = Upto(m), Stream(v)' = <<>>
    PROVE  Follows(v, m)'
<1>1. Len(Upto(m)) = m /\ \A i \in 1..m : Upto(m)[i] = i
  BY CapAssumption DEF Upto
<1>2. Len(<<>>) = 0 /\ \A e : ~In(e, <<>>)
  BY InNothing
<1>3. /\ 0 \in 0..m /\ m \in 0..m /\ 0 <= m
      /\ Len(replay'[v]) = m - 0 /\ \A i \in 1..(m - 0) : replay'[v][i] = 0 + i
      /\ Len(Stream(v)') = 0 + (m - m)
      /\ \A e \in 1..MaxEvents : In(e, Stream(v)') <=> e \in 1..0 \cup (m + 1)..m
  BY <1>1, <1>2, CapAssumption
<1> QED BY <1>3 DEF Follows

(* Subscribe's look at sm.runs and sm.completed.                           *)
LEMMA LookKeeps ==
    ASSUME StreamInv, TypeInv', NEW v \in Viewers,
           LookNothing(v) \/ LookCompleted(v) \/ LookRunning(v) \/ CloseReplay(v)
    PROVE  StreamInv'
<1> USE DEF StreamInv, fanVars, stopVars, turnVars, chanVars
<1>1. /\ UNCHANGED <<pc, fanVars, chan, got, completed, left>>
      /\ \A w \in Viewers \ {v} : vpc'[w] = vpc[w] /\ joined'[w] = joined[w] /\ replay'[w] = replay[w]
      /\ closed' \in {closed, closed \cup {v}}
      /\ vpc[v] \in {"new", "replaying"} /\ vpc'[v] \in {"over", "replaying", "looked"}
  BY DEF LookNothing, LookCompleted, LookRunning, CloseReplay, TypeInv, TypeOK
<1>2. \A u \in Turns : \A d : Sent(u, d)' = Sent(u, d)
  BY <1>1 DEF Sent
<1>3. \A d : Stream(d)' = Stream(d)
  BY <1>1 DEF Stream
<1>4. ASSUME NEW u \in Turns PROVE FanOf(u)'
  <2>1. ~In(v, subscribers[u])
    BY <1>1 DEF FanOf
  <2> QED BY <1>1, <2>1 DEF FanOf
<1>5. ASSUME NEW u \in Turns PROVE CallerOf(u)'
  <2>1. u \in closed' => u \in closed
    BY <1>1
  <2> QED BY <1>1, <1>2, <1>3, <2>1 DEF CallerOf
<1>6. ASSUME NEW w \in Viewers \ {v} PROVE ViewerOf(w)'
  <2>1. joined[w] \in Turns \cup {None} /\ (w \in closed' <=> w \in closed)
    BY <1>1 DEF TypeInv, TypeOK
  <2> QED BY <1>1, <1>2, <2>1, SameFollows DEF ViewerOf
<1>7. ViewerOf(v)'
  <2>1. CASE LookNothing(v)
    BY <1>1, <2>1 DEF LookNothing, ViewerOf, viewVars, TypeInv, TypeOK
  <2>2. CASE LookRunning(v)
    <3>1. vpc[v] = "new" /\ vpc'[v] = "looked" /\ closed' = closed
      BY <2>2 DEF LookRunning, TypeInv, TypeOK
    <3>2. v \notin closed /\ chan[v] = <<>> /\ got[v] = <<>>
      BY <3>1 DEF ViewerOf
    <3> QED BY <1>1, <3>1, <3>2 DEF ViewerOf
  <2>3. CASE LookCompleted(v)
    <3>1. PICK t \in Turns : t = completed[SessionOf[v]] /\ t \in done
      BY <2>3, SessionAssumption DEF LookCompleted, KeptAreDone, TypeInv, TypeOK
    <3>2. /\ vpc'[v] = "replaying" /\ joined'[v] = t /\ replay'[v] = Upto(made[t])
          /\ closed' = closed /\ chan[v] = <<>> /\ got[v] = <<>> /\ vpc[v] = "new"
      BY <2>3, <3>1 DEF LookCompleted, TypeInv, TypeOK, Upto, ViewerOf
    <3>3. Sent(t, v)' = made[t] /\ made[t] \in 0..MaxEvents
      BY <1>1, <3>1 DEF Sent, FanOf, Ending, TypeInv, TypeOK
    <3>4. Stream(v)' = <<>>
      BY <1>1, <3>2 DEF Stream
    <3>5. Follows(v, made[t])'
      BY <1>1, <3>2, <3>3, <3>4, ReplayFollows
    <3> QED BY <1>1, <3>1, <3>2, <3>3, <3>5, NoneAssumption DEF ViewerOf
  <2>4. CASE CloseReplay(v)
    <3>1. /\ vpc[v] = "replaying" /\ vpc'[v] = "over" /\ UNCHANGED <<joined, replay>>
      BY <2>4 DEF CloseReplay, TypeInv, TypeOK
    <3> QED BY <1>1, <1>2, <3>1, SameFollows DEF ViewerOf
  <2> QED BY <2>1, <2>2, <2>3, <2>4
<1>8. KeptAreDone'
  BY <1>1 DEF KeptAreDone
<1> QED BY <1>4, <1>5, <1>6, <1>7, <1>8

(* Under run.mu a viewer gets the buffer and its place in the list at once, *)
(* and the event that is on its way is in the buffer.                      *)
LEMMA JoinKeeps ==
    ASSUME StreamInv, TypeInv', NEW v \in Viewers, Join(v) PROVE StreamInv'
<1> USE DEF StreamInv, stopVars, turnVars, chanVars
<1>0. PICK t \in Turns : t = joined[v]
  BY DEF Join, TypeInv, LookersJoin
<1>1. /\ UNCHANGED <<pc, made, todo, done, chanVars, joined, completed, left>>
      /\ \A w \in Viewers \ {v} : vpc'[w] = vpc[w] /\ replay'[w] = replay[w]
      /\ vpc[v] = "looked" /\ replay'[v] = Upto(made[t])
      /\ \A u \in Turns \ {t} : subscribers'[u] = subscribers[u]
      /\ \/ t \in done /\ vpc'[v] = "replaying" /\ subscribers' = subscribers
         \/ /\ t \notin done /\ vpc'[v] = "following"
            /\ subscribers'[t] = Append(subscribers[t], v)
  BY <1>0 DEF Join, TypeInv, TypeOK, Upto
<1>2. /\ v \in Channels /\ subscribers[t] \in Seq(Channels) /\ v \notin Turns
      /\ \A u \in Turns : ~In(v, subscribers[u]) /\ ~In(v, todo[u])
  BY <1>1 DEF Channels, TypeInv, TypeOK, FanOf
<1>3. \/ t \in done /\ vpc'[v] = "replaying" /\ subscribers' = subscribers
      \/ /\ t \notin done /\ vpc'[v] = "following" /\ NoRepeat(subscribers'[t])
         /\ \A d : In(d, subscribers'[t]) <=> In(d, subscribers[t]) \/ d = v
  <2>1. NoRepeat(subscribers[t])
    BY DEF FanOf
  <2>2. /\ NoRepeat(Append(subscribers[t], v))
        /\ \A d : In(d, Append(subscribers[t], v)) <=> In(d, subscribers[t]) \/ d = v
    BY <1>2, <2>1, InAppend
  <2> QED BY <1>1, <2>2
<1>4. \A u \in Turns : \A d : Sent(u, d)' = Sent(u, d)
  BY <1>1 DEF Sent
<1>5. \A d : Stream(d)' = Stream(d)
  BY <1>1 DEF Stream
<1>6. ASSUME NEW u \in Turns PROVE FanOf(u)'
  <2>1. CASE u # t
    BY <1>1, <1>2, <2>1 DEF FanOf
  <2>2. CASE u = t
    BY <1>0, <1>1, <1>2, <1>3, <2>2 DEF FanOf
  <2> QED BY <2>1, <2>2
<1>7. ASSUME NEW u \in Turns PROVE CallerOf(u)'
  <2>1. In(u, subscribers'[u]) <=> In(u, subscribers[u])
    BY <1>1, <1>2, <1>3
  <2> QED BY <1>1, <1>4, <1>5, <2>1 DEF CallerOf
<1>8. ASSUME NEW w \in Viewers \ {v} PROVE ViewerOf(w)'
  <2>1. joined[w] \in Turns \cup {None}
    BY DEF TypeInv, TypeOK
  <2>2. \A u \in Turns : In(w, subscribers[u]) => In(w, subscribers'[u])
    BY <1>1, <1>3
  <2> QED BY <1>1, <1>4, <2>1, <2>2, SameFollows DEF ViewerOf
<1>9. ViewerOf(v)'
  <2>1. chan[v] = <<>> /\ got[v] = <<>> /\ v \notin closed
    BY <1>1 DEF ViewerOf
  <2>2. Sent(t, v)' = made[t] /\ made[t] \in 0..MaxEvents
    BY <1>1, <1>2 DEF Sent, TypeInv, TypeOK
  <2>3. Stream(v)' = <<>>
    BY <1>1, <2>1 DEF Stream
  <2>4. Follows(v, made[t])'
    BY <1>1, <2>2, <2>3, ReplayFollows
  <2>5. joined'[v] = t
    BY <1>0, <1>1
  <2> QED BY <1>1, <1>3, <2>1, <2>2, <2>4, <2>5 DEF ViewerOf
<1>10. KeptAreDone'
  BY <1>1 DEF KeptAreDone
<1> QED BY <1>6, <1>7, <1>8, <1>9, <1>10

(* The replay sends the next event of the buffer.                          *)
LEMMA ReplayKeeps ==
    ASSUME StreamInv, TypeInv', NEW v \in Viewers, Replay(v) PROVE StreamInv'
<1> USE DEF StreamInv, fanVars, stopVars, turnVars
<1>1. /\ UNCHANGED <<pc, fanVars, closed, got, vpc, joined, completed, left>>
      /\ vpc[v] \in {"replaying", "following"} /\ replay[v] # <<>>
      /\ replay'[v] = Tail(replay[v]) /\ v \in Channels /\ v \notin Turns
      /\ chan'[v] = Append(chan[v], Head(replay[v]))
      /\ \A w \in Viewers \ {v} : replay'[w] = replay[w]
      /\ \A d \in Channels \ {v} : chan'[d] = chan[d]
      /\ chan[v] \in Seq(1..MaxEvents) /\ got[v] \in Seq(1..MaxEvents)
      /\ replay[v] \in Seq(1..MaxEvents)
  BY DEF Replay, TypeInv, TypeOK, Channels
<1>2. /\ \A d \in Channels \ {v} : Stream(d)' = Stream(d)
      /\ Stream(v)' = Append(Stream(v), Head(replay[v])) /\ Stream(v) \in Seq(1..MaxEvents)
  <2>1. Head(replay[v]) \in 1..MaxEvents
    BY <1>1, HeadAndTail
  <2>2. got[v] \o Append(chan[v], Head(replay[v])) = Append(got[v] \o chan[v], Head(replay[v]))
        /\ got[v] \o chan[v] \in Seq(1..MaxEvents)
    BY <1>1, <2>1, SendToStream
  <2> QED BY <1>1, <2>2 DEF Stream
<1>3. \A u \in Turns : \A d : Sent(u, d)' = Sent(u, d)
  BY <1>1 DEF Sent
<1>4. \A u \in Turns : FanOf(u)'
  BY <1>1 DEF FanOf
<1>5. ASSUME NEW u \in Turns PROVE CallerOf(u)'
  <2>1. u \in Channels \ {v}
    BY <1>1 DEF Channels
  <2>2. chan'[u] = chan[u] /\ Stream(u)' = Stream(u) /\ Sent(u, u)' = Sent(u, u)
    BY <1>1, <1>2, <1>3, <2>1
  <2>3. CallerOf(u)
    OBVIOUS
  <2> HIDE DEF StreamInv
  <2> QED BY <1>1, <2>2, <2>3 DEF CallerOf
<1>6. ASSUME NEW w \in Viewers \ {v} PROVE ViewerOf(w)'
  <2>1. joined[w] \in Turns \cup {None} /\ w \in Channels \ {v}
    BY DEF TypeInv, TypeOK, Channels
  <2> QED BY <1>1, <1>3, <2>1, SameFollows DEF ViewerOf
<1>7. ViewerOf(v)'
  <2>1. joined[v] \in Turns /\ joined[v] # None
    BY <1>1, NoneAssumption DEF ViewerOf
  <2>2. ASSUME joined[v] \notin left PROVE Follows(v, Sent(joined[v], v))'
    <3>1. PICK m : m = Sent(joined[v], v) /\ m = Sent(joined[v], v)'
      BY <1>1, <1>3, <2>1
    <3>2. m \in 0..MaxEvents
      <4>1. made[joined[v]] \in 0..MaxEvents
        BY <2>1 DEF TypeInv, TypeOK
      <4>2. In(v, todo[joined[v]]) => made[joined[v]] \in 1..MaxEvents
        BY <2>1, InNothing DEF TypeInv, EventsAreMade
      <4> QED BY <3>1, <4>1, <4>2, CapAssumption DEF Sent
    <3>3. Follows(v, m)
      BY <1>1, <2>1, <2>2, <3>1 DEF ViewerOf
    <3>4. Follows(v, m)'
      BY <1>1, <1>2, <3>2, <3>3, FollowsReplayed
    <3> QED BY <3>1, <3>4
  <2> QED BY <1>1, <2>1, <2>2 DEF ViewerOf
<1>8. KeptAreDone'
  BY <1>1 DEF KeptAreDone
<1> QED BY <1>4, <1>5, <1>6, <1>7, <1>8

-----------------------------------------------------------------------------

(* No step of any goroutine breaks the invariant.                          *)
LEMMA StreamStep == StreamInv /\ [Next]_vars => StreamInv'
<1> SUFFICES ASSUME StreamInv, [Next]_vars PROVE StreamInv'
  OBVIOUS
<1>1. TypeInv'
  BY TypeStep DEF StreamInv
<1>2. ASSUME NEW t \in Turns, RunStep(t) \/ Finish(t) \/ StopStep(t) PROVE StreamInv'
  BY <1>1, <1>2, QuietSteps, EndKeeps, AttachKeeps, DoneKeeps, CloseKeeps, ReceiveKeeps,
     SkipKeeps, DeliverKeeps DEF RunStep, Finish, StopOnFlag, StopOnContext
<1>3. ASSUME NEW v \in Viewers, ViewStep(v) PROVE StreamInv'
  BY <1>1, <1>3, LookKeeps, JoinKeeps, ReplayKeeps, QuietOthers DEF ViewStep
<1>4. CASE UNCHANGED vars \/ \E s \in Sessions : ClearCompleted(s)
  BY <1>1, <1>4, QuietOthers
<1>5. ASSUME NEW c \in Channels, Read(c) PROVE StreamInv'
  BY <1>1, <1>5, ReadKeeps
<1> QED BY <1>2, <1>3, <1>4, <1>5 DEF Next

(* session_manager.go 164-181: while its context lives the caller of Run   *)
(* gets every event of its turn, once and in order, whoever else watches.  *)
THEOREM CallerIsServed == Spec => []CallerSeesWholeTurn
<1>1. StreamInv => CallerSeesWholeTurn
  <2> SUFFICES ASSUME StreamInv, NEW t \in Turns, t \in closed, t \notin left
               PROVE  Stream(t) = [i \in 1..made[t] |-> i]
    BY DEF CallerSeesWholeTurn
  <2>1. CallerOf(t) /\ FanOf(t)
    BY DEF StreamInv
  <2>2. Sent(t, t) = made[t]
    BY <2>1 DEF CallerOf, FanOf, Sent, Ending
  <2> QED BY <2>1, <2>2 DEF CallerOf, Upto
<1> QED BY StreamInit, StreamStep, <1>1, PTL DEF Spec

(* session_manager.go 21-23, 188-250: a viewer that joined at any moment   *)
(* of the turn gets every event once, unless its history was cut short.    *)
THEOREM ViewersAreServed == Spec => []ViewerMissesNothing
<1>1. StreamInv => ViewerMissesNothing
  <2> SUFFICES ASSUME StreamInv, NEW v \in Viewers, v \in closed, joined[v] # None,
                      joined[v] \notin left, replay[v] = <<>>
               PROVE  /\ Len(Stream(v)) = made[joined[v]]
                      /\ {Stream(v)[i] : i \in 1..Len(Stream(v))} = 1..made[joined[v]]
    BY DEF ViewerMissesNothing
  <2> DEFINE t == joined[v]
             s == Stream(v)
  <2>1. t \in Turns /\ ViewerOf(v) /\ FanOf(t) /\ made[t] \in 0..MaxEvents
    BY DEF StreamInv, TypeInv, TypeOK
  <2>2. t \in done /\ vpc[v] # "looked"
    BY <2>1 DEF ViewerOf
  <2>3. Follows(v, made[t])
    BY <2>1, <2>2 DEF ViewerOf, Sent, FanOf, Ending
  <2>4. Len(s) = made[t] /\ \A e \in 1..MaxEvents : In(e, s) <=> e \in 1..made[t]
    <3>1. Len(replay[v]) = 0
      OBVIOUS
    <3>2. PICK m \in 0..MaxEvents : m = made[t]
      BY <2>1
    <3>3. PICK r \in 0..m, k \in 0..m :
            /\ r <= k /\ 0 = k - r /\ Len(s) = r + (m - k)
            /\ \A e \in 1..MaxEvents : In(e, s) <=> e \in 1..r \cup (k + 1)..m
      BY <2>3, <3>1, <3>2 DEF Follows
    <3>4. r = k /\ 1..r \cup (k + 1)..m = 1..m
      BY <3>3
    <3>5. Len(s) = m
      BY <3>3, <3>4
    <3>6. \A e \in 1..MaxEvents : In(e, s) <=> e \in 1..m
      BY <3>3, <3>4
    <3> HIDE DEF t, s
    <3> QED BY <3>2, <3>5, <3>6
  <2>5. s \in Seq(1..MaxEvents)
    <3>1. got[v] \in Seq(1..MaxEvents) /\ chan[v] \in Seq(1..MaxEvents)
      BY DEF StreamInv, TypeInv, TypeOK, Channels
    <3> QED BY <3>1, ConcatProperties DEF Stream
  <2> HIDE DEF s, t
  <2>6. DOMAIN s = 1..Len(s) /\ \A i \in 1..Len(s) : s[i] \in 1..MaxEvents
    BY <2>5, LenProperties, ElementOfSeq
  <2>7. {s[i] : i \in 1..Len(s)} = 1..made[t]
    BY <2>1, <2>4, <2>6, CapAssumption DEF In
  <2> QED BY <2>4, <2>7 DEF s, t
<1> QED BY StreamInit, StreamStep, <1>1, PTL DEF Spec
=============================================================================
