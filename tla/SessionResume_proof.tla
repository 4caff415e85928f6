------------------------- MODULE SessionResume_proof -------------------------
(***************************************************************************)
(* Proofs about SessionResume, for any replicas, clients, requests, answers *)
(* and faults: what runs was approved, and over one connection that lasts   *)
(* it runs once.                                                           *)
(***************************************************************************)
EXTENDS SessionResume, FiniteSetTheorems, SequenceTheorems, TLAPS

USE ResumeAssumption

-----------------------------------------------------------------------------
(* Shapes.                                                                 *)

Sites == Replicas \cup Posters
Events == [is : {"ask", "end"}, k : Nat]
Snaps == [stored : BOOLEAN, k : Nat, command : Nat]
Turns == [pc : {"idle", "thinking", "asked", "parked", "waiting", "ending", "closing"},
          k : Nat, resumed : BOOLEAN, cancelled : BOOLEAN]
Conns == [pc : {"off", "start", "load", "chat", "stream", "shown"}, k : Nat]
Calls == [pc : {"idle", "read", "load", "save", "inject"}, at : Replicas \cup {None},
          k : Nat, approve : BOOLEAN, seen : Snaps]
Wakes == [pc : {"idle", "start", "deliver", "collect"}, k : Nat, command : Nat]

AgentShapes ==
    /\ parked \in [Agents -> Nat]
    /\ turn \in [Agents -> Turns]
    /\ answer \in [Agents -> {"none", "approve", "deny", "undecided"}]
ConnShapes ==
    /\ attach \in [Replicas -> {"none", "live", "cut"}]
    /\ inbox \in [Replicas -> Seq(Events)]
    /\ conn \in [Replicas -> Conns]
StoreShapes == snap \in Snaps /\ wake \in [Replicas -> Wakes]
CallShapes ==
    /\ call \in [Sites -> Calls]
    /\ \A x \in Sites : call[x].pc # "idle" => call[x].at \in Replicas
CountShapes ==
    /\ shown \subseteq Nat /\ asks \in Nat
    /\ ran \in [Asked -> Nat] /\ approvals \in [Asked -> Nat] /\ calm \in BOOLEAN

(* The records of the agents, the handlers, the calls and the storage.     *)
Shapes == AgentShapes /\ ConnShapes /\ StoreShapes /\ CallShapes /\ CountShapes

(* The parts of a step that the agents, the handlers, the calls and the     *)
(* dispatchers do.                                                         *)
AgentStep == \E a \in Agents : Ask(a) \/ Park(a) \/ Wait(a) \/ Decide(a) \/ Finish(a) \/ End(a) \/ Unlock(a)
ConnStep == \E r \in Replicas :
    \/ Connect(r) \/ Look(r) \/ Reconnect(r) \/ Chat(r) \/ Show(r) \/ ShowEnd(r) \/ ChatInstead(r) \/ Drop(r)
CallStep ==
    \/ \E r \in Replicas : Reply(r) \/ \E x \in Posters : Post(x, r)
    \/ \E x \in Sites : Read(x) \/ Load(x) \/ Save(x) \/ Inject(x)
WakeStep == \E r \in Replicas : Wakeup(r) \/ StartResumed(r) \/ Deliver(r) \/ StopTrying(r) \/ Collect(r)

(* Every step is one of these, or a crash, or stutters.                    *)
LEMMA Steps ==
    [Next]_vars => \/ AgentStep \/ ConnStep \/ CallStep \/ WakeStep \/ UNCHANGED vars
                   \/ \E r \in Replicas : Crash(r)
BY DEF Next, AgentStep, ConnStep, CallStep, WakeStep, Sites

(* The agents of a replica are two, and no other replica's.                *)
LEMMA AgentNames ==
    /\ \A r \in Replicas : Own(r) \in Agents /\ Woken(r) \in Agents /\ Own(r)[1] = r /\ Woken(r)[1] = r
    /\ \A q, r \in Replicas : Own(q) # Woken(r) /\ (Own(q) = Own(r) => q = r)
    /\ \A a \in Agents : /\ a[1] \in Replicas
                         /\ \/ \E r \in Replicas : a = Own(r)
                            \/ \E r \in Replicas : a = Woken(r)
BY DEF Agents, Own, Woken

(* A turn that begins, and the constant records, have their shapes.        *)
LEMMA ConstantShapes ==
    /\ IdleTurn \in Turns /\ NoSnap \in Snaps /\ NoCall \in Calls /\ Asleep \in Wakes
    /\ \A k \in Nat : Begun(k) \in Turns
BY DEF IdleTurn, NoSnap, NoCall, Asleep, Begun, Turns, Snaps, Calls, Wakes

(* Counting one more at some place leaves a function of counts.            *)
LEMMA CountUp ==
    ASSUME NEW S, NEW f \in [S -> Nat], NEW k
    PROVE  [f EXCEPT ![k] = f[k] + 1] \in [S -> Nat]
<1>1. CASE k \in S
  <2>1. f[k] + 1 \in Nat
    BY <1>1
  <2> QED BY <2>1
<1>2. CASE k \notin S
  <2>1. [f EXCEPT ![k] = f[k] + 1] = f
    BY <1>2
  <2> QED BY <2>1
<1> QED BY <1>1, <1>2

(* The runs of a request stay a count when one of its agents decides.      *)
LEMMA RanCounts ==
    ASSUME ran \in [Asked -> Nat], NEW a \in Agents, Decide(a) PROVE ran' \in [Asked -> Nat]
<1>1. PICK k : ran' = ran \/ ran' = [ran EXCEPT ![k] = ran[k] + 1]
  BY DEF Decide
<1>2. [ran EXCEPT ![k] = ran[k] + 1] \in [Asked -> Nat]
  BY CountUp
<1> QED BY <1>1, <1>2

(* A record that changes its place keeps its shape.                        *)
LEMMA RecordUpdates ==
    /\ \A t \in Turns : /\ \A pc \in {"parked", "waiting", "thinking", "ending", "closing"} : [t EXCEPT !.pc = pc] \in Turns
                        /\ \A b \in BOOLEAN : [t EXCEPT !.cancelled = b] \in Turns
    /\ \A c \in Conns : \A pc \in {"load", "chat"} : [c EXCEPT !.pc = pc] \in Conns
    /\ \A c \in Calls : \A pc \in {"load", "save", "inject"} :
          [c EXCEPT !.pc = pc] \in Calls /\ [c EXCEPT !.pc = pc].at = c.at
<1>1. \A t \in Turns : /\ \A pc \in {"parked", "waiting", "thinking", "ending", "closing"} : [t EXCEPT !.pc = pc] \in Turns
                       /\ \A b \in BOOLEAN : [t EXCEPT !.cancelled = b] \in Turns
  BY DEF Turns
<1>2. \A c \in Conns : \A pc \in {"load", "chat"} : [c EXCEPT !.pc = pc] \in Conns
  BY DEF Conns
<1>3. \A c \in Calls : \A pc \in {"load", "save", "inject"} :
          [c EXCEPT !.pc = pc] \in Calls /\ [c EXCEPT !.pc = pc].at = c.at
  BY DEF Calls
<1> QED BY <1>1, <1>2, <1>3

(* So does the record of a call that has seen the stored session.          *)
LEMMA SeenShape ==
    ASSUME call \in [Sites -> Calls], NEW x \in Sites, NEW s \in Snaps, NEW pc \in {"load", "inject"},
           call' = [call EXCEPT ![x].pc = pc, ![x].seen = s]
    PROVE  /\ call' \in [Sites -> Calls] /\ call'[x].at = call[x].at
           /\ \A y \in Sites \ {x} : call'[y] = call[y]
<1>1. ASSUME NEW c \in Calls
      PROVE  [c EXCEPT !.pc = pc, !.seen = s] \in Calls /\ [c EXCEPT !.pc = pc, !.seen = s].at = c.at
  BY DEF Calls
<1>2. PICK d \in Calls : d = [call[x] EXCEPT !.pc = pc, !.seen = s] /\ d.at = call[x].at
  BY <1>1
<1>3. call' = [call EXCEPT ![x] = d]
  BY <1>2
<1> QED BY <1>2, <1>3

(* What a handler gets is one more event, or nothing.                      *)
LEMMA EmitShape ==
    ASSUME ConnShapes, NEW a \in Agents, NEW e \in Events, Emit(a, e)
    PROVE  inbox' \in [Replicas -> Seq(Events)]
<1>1. CASE inbox' = inbox
  BY <1>1 DEF ConnShapes
<1>2. CASE inbox' = [inbox EXCEPT ![a[1]] = Append(@, e)]
  BY <1>2, AppendProperties DEF ConnShapes
<1> QED BY <1>1, <1>2 DEF Emit

(* The agents' turns keep the shapes (reply_stream.go).                    *)
LEMMA AgentShapeStep == ASSUME Shapes, AgentStep PROVE Shapes'
<1> USE DEF Shapes, AgentShapes, ConnShapes, StoreShapes, CallShapes, CountShapes, bounds, history
<1>1. ASSUME NEW a \in Agents, Ask(a) PROVE Shapes'
  <2>1. inbox' \in [Replicas -> Seq(Events)]
    <3>1. [is |-> "ask", k |-> asks'] \in Events
      BY <1>1 DEF Ask, Events
    <3> QED BY <1>1, <3>1, EmitShape DEF Ask
  <2>2. asks' \in Nat /\ turn[a] \in Turns
    BY <1>1 DEF Ask
  <2>3. [turn[a] EXCEPT !.pc = "asked", !.k = asks'] \in Turns
    BY <2>2 DEF Turns
  <2>4. turn' \in [Agents -> Turns]
    BY <1>1, <2>3 DEF Ask
  <2> QED BY <1>1, <2>1, <2>2, <2>4 DEF Ask
<1>t. ASSUME NEW a \in Agents, NEW pc \in {"parked", "waiting", "thinking", "ending", "closing"},
             turn' = [turn EXCEPT ![a].pc = pc]
      PROVE  turn' \in [Agents -> Turns]
  <2>1. [turn[a] EXCEPT !.pc = pc] \in Turns
    BY RecordUpdates
  <2>2. turn' = [turn EXCEPT ![a] = [turn[a] EXCEPT !.pc = pc]]
    BY <1>t
  <2> QED BY <2>1, <2>2
<1>2. ASSUME NEW a \in Agents, Park(a) PROVE Shapes'
  <2>1. turn' \in [Agents -> Turns]
    BY <1>2, <1>t DEF Park
  <2>2. turn[a].k \in Nat
    BY DEF Turns
  <2>3. parked' \in [Agents -> Nat]
    BY <1>2, <2>2 DEF Park
  <2> QED BY <1>2, <2>1, <2>3 DEF Park
<1>3. ASSUME NEW a \in Agents, Wait(a) PROVE Shapes'
  <2>1. turn' \in [Agents -> Turns]
    BY <1>3, <1>t DEF Wait
  <2> QED BY <1>3, <2>1 DEF Wait
<1>4. ASSUME NEW a \in Agents, Decide(a) PROVE Shapes'
  <2>1. turn' \in [Agents -> Turns]
    <3>1. PICK pc \in {"ending", "thinking"} : turn' = [turn EXCEPT ![a].pc = pc]
      BY <1>4 DEF Decide
    <3> QED BY <1>t, <3>1
  <2>4. parked' \in [Agents -> Nat]
    BY <1>4 DEF Decide
  <2>2. answer' \in [Agents -> {"none", "approve", "deny", "undecided"}]
    BY <1>4 DEF Decide
  <2>3. ran' \in [Asked -> Nat]
    <3>1. ran \in [Asked -> Nat]
      OBVIOUS
    <3> QED BY <1>4, <3>1, RanCounts
  <2> QED BY <1>4, <2>1, <2>2, <2>3, <2>4 DEF Decide
<1>5. ASSUME NEW a \in Agents, Finish(a) PROVE Shapes'
  <2>1. turn' \in [Agents -> Turns]
    BY <1>5, <1>t DEF Finish
  <2> QED BY <1>5, <2>1 DEF Finish
<1>6. ASSUME NEW a \in Agents, End(a) PROVE Shapes'
  <2>1. inbox' \in [Replicas -> Seq(Events)]
    BY <1>6, EmitShape DEF End, Events
  <2>2. turn' \in [Agents -> Turns]
    BY <1>6, <1>t DEF End
  <2> QED BY <1>6, <2>1, <2>2 DEF End
<1>7. ASSUME NEW a \in Agents, Unlock(a) PROVE Shapes'
  BY <1>7, ConstantShapes DEF Unlock
<1> QED BY <1>1, <1>2, <1>3, <1>4, <1>5, <1>6, <1>7 DEF AgentStep

(* A turn that is cancelled goes on as the same turn.                      *)
LEMMA CancelShape ==
    ASSUME AgentShapes, NEW r, turn' = [turn EXCEPT ![Own(r)].cancelled = @ \/ attach[r] = "live"]
    PROVE  turn' \in [Agents -> Turns]
<1>1. PICK b \in BOOLEAN : turn' = [turn EXCEPT ![Own(r)].cancelled = b]
  <2>1. turn[Own(r)].cancelled \in BOOLEAN \/ Own(r) \notin Agents
    BY DEF AgentShapes, Turns
  <2>2. (turn[Own(r)].cancelled \/ attach[r] = "live") \in BOOLEAN
    OBVIOUS
  <2> QED BY <2>2
<1>2. CASE Own(r) \in Agents
  <2>1. [turn[Own(r)] EXCEPT !.cancelled = b] \in Turns
    BY <1>2, RecordUpdates DEF AgentShapes
  <2>2. turn' = [turn EXCEPT ![Own(r)] = [turn[Own(r)] EXCEPT !.cancelled = b]]
    BY <1>1
  <2> QED BY <2>1, <2>2 DEF AgentShapes
<1>3. CASE Own(r) \notin Agents
  <2>1. turn' = turn
    BY <1>1, <1>3 DEF AgentShapes
  <2> QED BY <2>1 DEF AgentShapes
<1> QED BY <1>2, <1>3

(* A stream that starts is empty but for the request it is resumed for.    *)
LEMMA StreamShape ==
    ASSUME Shapes, NEW r \in Replicas, NEW k \in Nat, StartStream(r, k)
    PROVE  /\ turn' \in [Agents -> Turns] /\ attach' \in [Replicas -> {"none", "live", "cut"}]
           /\ conn' \in [Replicas -> Conns] /\ inbox' \in [Replicas -> Seq(Events)]
<1> USE DEF Shapes, AgentShapes, ConnShapes
<1>1. conn' \in [Replicas -> Conns]
  BY DEF StartStream, Conns
<1>2. inbox' \in [Replicas -> Seq(Events)]
  <2>1. <<>> \in Seq(Events) /\ <<[is |-> "ask", k |-> k]>> \in Seq(Events)
    BY EmptySeq DEF Events
  <2>2. \E s \in Seq(Events) : inbox' = [inbox EXCEPT ![r] = s]
    BY <2>1 DEF StartStream
  <2> QED BY <2>2
<1>3. turn' \in [Agents -> Turns]
  <2>1. CASE turn' = [turn EXCEPT ![Own(r)] = Begun(k)]
    BY <2>1, ConstantShapes
  <2>2. CASE turn' = [turn EXCEPT ![Own(r)].cancelled = @ \/ attach[r] = "live"]
    BY <2>2, CancelShape
  <2> QED BY <2>1, <2>2 DEF StartStream
<1>4. attach' \in [Replicas -> {"none", "live", "cut"}]
  BY DEF StartStream
<1> QED BY <1>1, <1>2, <1>3, <1>4

(* The handlers keep the shapes (ws.go).                                   *)
LEMMA ConnShapeStep == ASSUME Shapes, ConnStep PROVE Shapes'
<1> USE DEF Shapes, AgentShapes, ConnShapes, StoreShapes, CallShapes, CountShapes, bounds, history
<1>1. ASSUME NEW r \in Replicas, Connect(r) PROVE Shapes'
  BY <1>1 DEF Connect, Conns
<1>2. ASSUME NEW r \in Replicas, Look(r) PROVE Shapes'
  <2>1. PICK pc \in {"load", "chat"} : conn' = [conn EXCEPT ![r].pc = pc]
    BY <1>2 DEF Look
  <2>2. [conn[r] EXCEPT !.pc = pc] \in Conns
    BY RecordUpdates
  <2>3. conn' \in [Replicas -> Conns]
    BY <2>1, <2>2
  <2> QED BY <1>2, <2>3 DEF Look
<1>3. ASSUME NEW r \in Replicas, Reconnect(r) PROVE Shapes'
  <2>1. CASE snap.stored
    <3>1. snap.k \in Nat
      BY DEF Snaps
    <3>2. parked' \in [Agents -> Nat]
      BY <1>3, <2>1, <3>1 DEF Reconnect
    <3> QED BY <1>3, <2>1, <3>1, <3>2, StreamShape DEF Reconnect
  <2>2. CASE ~snap.stored
    <3>1. conn' \in [Replicas -> Conns]
      <4>1. [conn[r] EXCEPT !.pc = "chat"] \in Conns
        BY RecordUpdates
      <4> QED BY <1>3, <2>2, <4>1 DEF Reconnect
    <3> QED BY <1>3, <2>2, <3>1 DEF Reconnect
  <2> QED BY <2>1, <2>2
<1>4. ASSUME NEW r \in Replicas, Chat(r) \/ ChatInstead(r) PROVE Shapes'
  <2>1. parked[Own(r)] \in Nat
    BY AgentNames
  <2>2. snap' \in Snaps
    BY <1>4, ConstantShapes DEF Chat, ChatInstead
  <2> QED BY <1>4, <2>1, <2>2, StreamShape DEF Chat, ChatInstead
<1>5. ASSUME NEW r \in Replicas, Show(r) PROVE Shapes'
  <2>1. Head(inbox[r]) \in Events /\ Tail(inbox[r]) \in Seq(Events)
    BY <1>5, HeadTailProperties DEF Show
  <2>2. Head(inbox[r]).k \in Nat
    BY <2>1 DEF Events
  <2>3. parked[Own(r)] \in Nat
    BY AgentNames
  <2>4. snap' \in Snaps
    BY <1>5, <2>3 DEF Show, Snaps
  <2>5. conn' \in [Replicas -> Conns] /\ shown' \subseteq Nat
    BY <1>5, <2>2 DEF Show, Conns
  <2>6. inbox' \in [Replicas -> Seq(Events)]
    BY <1>5, <2>1 DEF Show
  <2> QED BY <1>5, <2>4, <2>5, <2>6 DEF Show
<1>6. ASSUME NEW r \in Replicas, ShowEnd(r) PROVE Shapes'
  <2>1. Tail(inbox[r]) \in Seq(Events)
    BY <1>6, HeadTailProperties DEF ShowEnd
  <2>2. inbox' \in [Replicas -> Seq(Events)]
    BY <1>6, <2>1 DEF ShowEnd
  <2>3. conn' \in [Replicas -> Conns]
    BY <1>6 DEF ShowEnd, Conns
  <2> QED BY <1>6, <2>2, <2>3, ConstantShapes DEF ShowEnd
<1>7. ASSUME NEW r \in Replicas, Drop(r) PROVE Shapes'
  <2>1. inbox' \in [Replicas -> Seq(Events)]
    BY <1>7, EmptySeq DEF Drop
  <2>2. turn' \in [Agents -> Turns]
    <3>1. turn' = [turn EXCEPT ![Own(r)].cancelled = @ \/ attach[r] = "live"]
      BY <1>7 DEF Drop
    <3> QED BY <3>1, CancelShape
  <2>3. conn' \in [Replicas -> Conns] /\ attach' \in [Replicas -> {"none", "live", "cut"}]
    BY <1>7 DEF Drop, Conns
  <2> QED BY <1>7, <2>1, <2>2, <2>3 DEF Drop
<1> QED BY <1>1, <1>2, <1>3, <1>4, <1>5, <1>6, <1>7 DEF ConnStep

(* SessionStateManager.Resume keeps the shapes (session_state.go).         *)
LEMMA CallShapeStep == ASSUME Shapes, CallStep PROVE Shapes'
<1> USE DEF Shapes, AgentShapes, ConnShapes, StoreShapes, CallShapes, CountShapes, bounds, history, Sites
<1>1. ASSUME NEW x \in Sites, NEW r \in Replicas, NEW k \in Nat, Answering(x, r, k) PROVE Shapes'
  <2>1. PICK approve \in BOOLEAN :
          /\ call' = [call EXCEPT ![x] = [NoCall EXCEPT !.pc = "read", !.at = r, !.k = k,
                                                        !.approve = approve]]
          /\ approvals' = [approvals EXCEPT ![k] = IF approve THEN @ + 1 ELSE @]
    BY <1>1 DEF Answering
  <2>2. [NoCall EXCEPT !.pc = "read", !.at = r, !.k = k, !.approve = approve] \in Calls
    BY DEF NoCall, NoSnap, Calls, Snaps
  <2>3. call' \in [Sites -> Calls] /\ \A y \in Sites : call'[y].pc # "idle" => call'[y].at \in Replicas
    BY <2>1, <2>2 DEF NoCall
  <2>4. approvals' \in [Asked -> Nat]
    <3>1. approvals' = approvals \/ approvals' = [approvals EXCEPT ![k] = @ + 1]
      BY <2>1
    <3>2. approvals \in [Asked -> Nat]
      OBVIOUS
    <3> HIDE DEF Shapes
    <3> QED BY <3>1, <3>2
  <2> QED BY <1>1, <2>3, <2>4 DEF Answering
<1>2. ASSUME NEW r \in Replicas, Reply(r) PROVE Shapes'
  <2>1. conn[r].k \in Nat
    BY DEF Conns
  <2> QED BY <1>1, <1>2, <2>1 DEF Reply
<1>3. ASSUME NEW r \in Replicas, NEW x \in Posters, Post(x, r) PROVE Shapes'
  BY <1>1, <1>3 DEF Post
<1>4. ASSUME NEW x \in Sites, NEW ok, Return(x, ok)
      PROVE  CallShapes' /\ conn' \in [Replicas -> Conns]
  <2>1. call' \in [Sites -> Calls] /\ \A y \in Sites : call'[y].pc # "idle" => call'[y].at \in Replicas
    BY <1>4, ConstantShapes DEF Return, NoCall
  <2>2. conn' \in [Replicas -> Conns]
    BY <1>4 DEF Return, Conns
  <2> QED BY <2>1, <2>2
<1>5. ASSUME NEW x \in Sites, call[x].pc # "idle",
             NEW pc \in {"load", "save", "inject"}, call' = [call EXCEPT ![x].pc = pc]
      PROVE  CallShapes'
  <2>1. call[x] \in Calls /\ call[x].at \in Replicas
    BY <1>5
  <2>2. PICK c \in Calls : c = [call[x] EXCEPT !.pc = pc] /\ c.at = call[x].at
    BY <2>1, RecordUpdates
  <2>3. call' = [call EXCEPT ![x] = c]
    BY <1>5, <2>2
  <2> QED BY <2>1, <2>2, <2>3
<1>6. ASSUME NEW x \in Sites, Read(x) PROVE Shapes'
  <2>1. CASE Return(x, FALSE)
    BY <1>4, <1>6, <2>1 DEF Read
  <2>2. CASE /\ call' = [call EXCEPT ![x].pc = IF snap.stored /\ snap.k # 0 THEN "load" ELSE "inject",
                                     ![x].seen = snap]
             /\ UNCHANGED conn
    <3>5. PICK pc \in {"load", "inject"} : pc = IF snap.stored /\ snap.k # 0 THEN "load" ELSE "inject"
      OBVIOUS
    <3>1. call \in [Sites -> Calls] /\ snap \in Snaps /\ call' = [call EXCEPT ![x].pc = pc, ![x].seen = snap]
      BY <2>2, <3>5
    <3>2. /\ call' \in [Sites -> Calls] /\ call'[x].at = call[x].at
          /\ \A y \in Sites \ {x} : call'[y] = call[y]
      <4> HIDE DEF Shapes, Sites
      <4> QED BY <3>1, SeenShape
    <3>4. call[x].at \in Replicas
      BY <1>6 DEF Read, Calling
    <3>3. call' \in [Sites -> Calls] /\ \A y \in Sites : call'[y].pc # "idle" => call'[y].at \in Replicas
      BY <3>2, <3>4
    <3> QED BY <1>6, <2>2, <3>3 DEF Read
  <2> QED BY <1>6, <2>1, <2>2 DEF Read
<1>7. ASSUME NEW x \in Sites, Load(x) PROVE Shapes'
  <2>1. CASE snap.stored
    <3>1. parked' \in [Agents -> Nat]
      BY <1>7, <2>1 DEF Load, Snaps
    <3>2. CallShapes'
      BY <1>5, <1>7, <2>1 DEF Load, Calling, Proceed
    <3> QED BY <1>7, <2>1, <3>1, <3>2 DEF Load
  <2>2. CASE ~snap.stored
    BY <1>4, <1>7, <2>2 DEF Load
  <2> QED BY <2>1, <2>2
<1>8. ASSUME NEW x \in Sites, Save(x) PROVE Shapes'
  <2>1. snap' \in Snaps
    BY <1>8 DEF Save, Calls, Snaps
  <2>2. CallShapes'
    BY <1>5, <1>8 DEF Save, Calling, Proceed
  <2> QED BY <1>8, <2>1, <2>2 DEF Save
<1>9. ASSUME NEW x \in Sites, Inject(x) PROVE Shapes'
  <2>1. \E ok : Return(x, ok)
    BY <1>9 DEF Inject
  <2>2. answer' \in [Agents -> {"none", "approve", "deny", "undecided"}]
    BY <1>9 DEF Inject
  <2> QED BY <1>4, <1>9, <2>1, <2>2 DEF Inject
<1> QED BY <1>2, <1>3, <1>6, <1>7, <1>8, <1>9 DEF CallStep

(* The dispatchers keep the shapes (dispatcher.go).                        *)
LEMMA WakeShapeStep == ASSUME Shapes, WakeStep PROVE Shapes'
<1> USE DEF Shapes, AgentShapes, ConnShapes, StoreShapes, CallShapes, CountShapes, bounds, history
<1>1. ASSUME NEW r \in Replicas, Wakeup(r) PROVE Shapes'
  BY <1>1 DEF Wakeup, Wakes, Snaps
<1>2. ASSUME NEW r \in Replicas, StartResumed(r) PROVE Shapes'
  <2>1. wake[r].k \in Nat /\ wake' \in [Replicas -> Wakes]
    BY <1>2 DEF StartResumed, Wakes
  <2>2. turn' \in [Agents -> Turns] /\ parked' \in [Agents -> Nat]
    BY <1>2, <2>1, ConstantShapes DEF StartResumed
  <2> QED BY <1>2, <2>1, <2>2 DEF StartResumed
<1>3. ASSUME NEW r \in Replicas, Deliver(r) PROVE Shapes'
  <2>4. wake[r] \in Wakes
    OBVIOUS
  <2>1. [wake[r] EXCEPT !.pc = "collect"] \in Wakes
    <3> HIDE DEF Shapes
    <3> QED BY <2>4 DEF Wakes
  <2>2. wake' \in [Replicas -> Wakes]
    BY <1>3, <2>1 DEF Deliver
  <2>3. answer' \in [Agents -> {"none", "approve", "deny", "undecided"}]
    BY <1>3 DEF Deliver
  <2> QED BY <1>3, <2>2, <2>3 DEF Deliver
<1>4. ASSUME NEW r \in Replicas, StopTrying(r) PROVE Shapes'
  <2>1. wake' \in [Replicas -> Wakes]
    BY <1>4, ConstantShapes DEF StopTrying, Wakes
  <2> QED BY <1>4, <2>1 DEF StopTrying
<1>5. ASSUME NEW r \in Replicas, Collect(r) PROVE Shapes'
  BY <1>5, ConstantShapes DEF Collect
<1> QED BY <1>1, <1>2, <1>3, <1>4, <1>5 DEF WakeStep

(* A crash takes the process's part of every record.                       *)
LEMMA CrashShapeStep == ASSUME Shapes, NEW r \in Replicas, Crash(r) PROVE Shapes'
<1> USE DEF Shapes, AgentShapes, ConnShapes, StoreShapes, CallShapes, CountShapes, bounds, history
<1>1. AgentShapes'
  BY ConstantShapes DEF Crash
<1>2. ConnShapes'
  BY EmptySeq DEF Crash, Conns
<1>3. CallShapes'
  BY ConstantShapes DEF Crash, NoCall
<1>4. StoreShapes'
  BY ConstantShapes DEF Crash
<1> QED BY <1>1, <1>2, <1>3, <1>4 DEF Crash

LEMMA ShapesHold == Init => Shapes
<1> SUFFICES ASSUME Init PROVE Shapes
  OBVIOUS
<1>1. AgentShapes
  BY ConstantShapes DEF Init, AgentShapes
<1>2. ConnShapes
  BY EmptySeq DEF Init, ConnShapes, Conns
<1>3. StoreShapes /\ CallShapes
  BY ConstantShapes DEF Init, StoreShapes, CallShapes, NoCall, Sites
<1>4. CountShapes
  BY DEF Init, CountShapes, Asked
<1> QED BY <1>1, <1>2, <1>3, <1>4 DEF Shapes

LEMMA ShapesStay == Shapes /\ [Next]_vars => Shapes'
<1> SUFFICES ASSUME Shapes, [Next]_vars PROVE Shapes'
  OBVIOUS
<1>1. CASE UNCHANGED vars
  BY <1>1 DEF Shapes, AgentShapes, ConnShapes, StoreShapes, CallShapes, CountShapes, vars, bounds, history
<1> QED BY <1>1, Steps, AgentShapeStep, ConnShapeStep, CallShapeStep, WakeShapeStep, CrashShapeStep

(* session_state.go, ws.go, dispatcher.go: agents, connections, the stored  *)
(* session, the calls in progress and the counts keep their shapes.        *)
THEOREM TypeCorrect == Spec => []Shapes
BY ShapesHold, ShapesStay, PTL DEF Spec

-----------------------------------------------------------------------------
(* Only what was approved runs.                                            *)

(* The calls that carry an approval of k, and the turns that have got one.  *)
Approves(x, k) == call[x].pc # "idle" /\ call[x].approve = TRUE /\ call[x].k = k
Grants(a, k) == turn[a].pc = "waiting" /\ turn[a].k = k /\ answer[a] = "approve"
Approving(k) == {x \in Sites : Approves(x, k)}
Granted(k) == {a \in Agents : Grants(a, k)}

(* What ran, what waits in a turn and what is under way, together, are      *)
(* answers that clients sent.                                              *)
Account(k) ==
    /\ IsFiniteSet(Approving(k)) /\ IsFiniteSet(Granted(k))
    /\ ran[k] + Cardinality(Approving(k)) + Cardinality(Granted(k)) <= approvals[k]
Accounted == \A k \in Asked : Account(k)

(* One element more, or one less.                                          *)
LEMMA OneMore ==
    ASSUME NEW S, NEW T, NEW x, IsFiniteSet(S), T \subseteq S \cup {x}
    PROVE  /\ IsFiniteSet(T) /\ Cardinality(T) \in Nat /\ Cardinality(S) \in Nat
           /\ Cardinality(T) <= Cardinality(S) + 1
<1>1. /\ IsFiniteSet(S \cup {x}) /\ Cardinality(S \cup {x}) <= Cardinality(S) + 1
      /\ Cardinality(S) \in Nat /\ Cardinality(S \cup {x}) \in Nat
  <2>1. /\ IsFiniteSet(S \cup {x})
        /\ Cardinality(S \cup {x}) = IF x \in S THEN Cardinality(S) ELSE Cardinality(S) + 1
    BY FS_AddElement
  <2>2. Cardinality(S) \in Nat /\ Cardinality(S \cup {x}) \in Nat
    BY <2>1, FS_CardinalityType
  <2> QED BY <2>1, <2>2
<1>2. IsFiniteSet(T) /\ Cardinality(T) \in Nat /\ Cardinality(T) <= Cardinality(S \cup {x})
  BY <1>1, FS_Subset, FS_CardinalityType
<1> QED BY <1>1, <1>2

LEMMA OneLess ==
    ASSUME NEW S, NEW T, NEW x \in S, IsFiniteSet(S), T \subseteq S \ {x}
    PROVE  /\ IsFiniteSet(T) /\ Cardinality(T) \in Nat /\ Cardinality(S) \in Nat
           /\ Cardinality(T) + 1 <= Cardinality(S)
<1>1. /\ IsFiniteSet(S \ {x}) /\ Cardinality(S \ {x}) = Cardinality(S) - 1
      /\ Cardinality(S) \in Nat /\ Cardinality(S \ {x}) \in Nat
  BY FS_RemoveElement, FS_CardinalityType
<1>2. IsFiniteSet(T) /\ Cardinality(T) \in Nat /\ Cardinality(T) <= Cardinality(S \ {x})
  BY <1>1, FS_Subset, FS_CardinalityType
<1> QED BY <1>1, <1>2

(* An answer is sent, gets to a turn, runs the tools, or is gone.           *)
LEMMA Balance ==
    ASSUME Shapes, Shapes', NEW k \in Asked, Account(k),
           \/ /\ Approving(k)' \subseteq Approving(k) /\ Granted(k)' \subseteq Granted(k)
              /\ ran'[k] = ran[k] /\ approvals'[k] = approvals[k]
           \/ /\ Approving(k)' \subseteq Approving(k)
              /\ \E a \in Granted(k) : Granted(k)' \subseteq Granted(k) \ {a}
              /\ ran'[k] = ran[k] + 1 /\ approvals'[k] = approvals[k]
           \/ /\ \E x : Approving(k)' \subseteq Approving(k) \cup {x}
              /\ Granted(k)' \subseteq Granted(k)
              /\ ran'[k] = ran[k] /\ approvals'[k] = approvals[k] + 1
           \/ /\ \E x \in Approving(k) : Approving(k)' \subseteq Approving(k) \ {x}
              /\ \E a : Granted(k)' \subseteq Granted(k) \cup {a}
              /\ ran'[k] = ran[k] /\ approvals'[k] = approvals[k]
    PROVE  Account(k)'
<1>1. PICK S, P, T, Q : /\ S = Approving(k) /\ P = Approving(k)' /\ T = Granted(k) /\ Q = Granted(k)'
                        /\ IsFiniteSet(S) /\ IsFiniteSet(T)
                        /\ ran[k] + Cardinality(S) + Cardinality(T) <= approvals[k]
  BY DEF Account
<1>2. ran[k] \in Nat /\ ran'[k] \in Nat /\ approvals[k] \in Nat /\ approvals'[k] \in Nat
  BY DEF Shapes, CountShapes
<1>3. P \subseteq S => IsFiniteSet(P) /\ Cardinality(P) \in Nat /\ Cardinality(P) <= Cardinality(S)
  BY <1>1, FS_Subset, FS_CardinalityType
<1>4. Q \subseteq T => IsFiniteSet(Q) /\ Cardinality(Q) \in Nat /\ Cardinality(Q) <= Cardinality(T)
  BY <1>1, FS_Subset, FS_CardinalityType
<1>5. Cardinality(S) \in Nat /\ Cardinality(T) \in Nat
  BY <1>1, FS_CardinalityType
<1>6. \/ P \subseteq S /\ Q \subseteq T /\ ran'[k] = ran[k] /\ approvals'[k] = approvals[k]
      \/ /\ P \subseteq S /\ \E a \in T : Q \subseteq T \ {a}
         /\ ran'[k] = ran[k] + 1 /\ approvals'[k] = approvals[k]
      \/ /\ \E x : P \subseteq S \cup {x}
         /\ Q \subseteq T /\ ran'[k] = ran[k] /\ approvals'[k] = approvals[k] + 1
      \/ /\ \E x \in S : P \subseteq S \ {x}
         /\ \E a : Q \subseteq T \cup {a}
         /\ ran'[k] = ran[k] /\ approvals'[k] = approvals[k]
  BY <1>1
<1> SUFFICES /\ IsFiniteSet(P) /\ IsFiniteSet(Q)
             /\ ran'[k] + Cardinality(P) + Cardinality(Q) <= approvals'[k]
  BY <1>1 DEF Account
<1>7. CASE P \subseteq S /\ Q \subseteq T /\ ran'[k] = ran[k] /\ approvals'[k] = approvals[k]
  BY <1>1, <1>2, <1>3, <1>4, <1>5, <1>7
<1>8. CASE /\ P \subseteq S /\ \E a \in T : Q \subseteq T \ {a}
           /\ ran'[k] = ran[k] + 1 /\ approvals'[k] = approvals[k]
  <2>1. /\ IsFiniteSet(Q) /\ Cardinality(Q) \in Nat
        /\ Cardinality(Q) + 1 <= Cardinality(T)
    BY <1>1, <1>8, OneLess
  <2> QED BY <1>1, <1>2, <1>3, <1>5, <1>8, <2>1
<1>9. CASE /\ \E x : P \subseteq S \cup {x}
           /\ Q \subseteq T /\ ran'[k] = ran[k] /\ approvals'[k] = approvals[k] + 1
  <2>1. /\ IsFiniteSet(P) /\ Cardinality(P) \in Nat
        /\ Cardinality(P) <= Cardinality(S) + 1
    BY <1>1, <1>9, OneMore
  <2> QED BY <1>1, <1>2, <1>4, <1>5, <1>9, <2>1
<1>10. CASE /\ \E x \in S : P \subseteq S \ {x}
            /\ \E a : Q \subseteq T \cup {a}
            /\ ran'[k] = ran[k] /\ approvals'[k] = approvals[k]
  <2>1. /\ IsFiniteSet(P) /\ Cardinality(P) \in Nat
        /\ Cardinality(P) + 1 <= Cardinality(S)
    BY <1>1, <1>10, OneLess
  <2>2. /\ IsFiniteSet(Q) /\ Cardinality(Q) \in Nat
        /\ Cardinality(Q) <= Cardinality(T) + 1
    BY <1>1, <1>10, OneMore
  <2> QED BY <1>1, <1>2, <1>5, <1>10, <2>1, <2>2
<1> QED BY <1>6, <1>7, <1>8, <1>9, <1>10

(* A step that grants nothing, sends no answer and runs no tool.            *)
LEMMA QuietAccount ==
    ASSUME Shapes, Shapes', Accounted, UNCHANGED <<ran, approvals>>,
           \A k \in Asked : /\ \A x \in Sites : Approves(x, k)' => Approves(x, k)
                            /\ \A a \in Agents : Grants(a, k)' => Grants(a, k)
    PROVE  Accounted'
<1> SUFFICES ASSUME NEW k \in Asked PROVE Account(k)'
  BY DEF Accounted
<1>1. Approving(k)' \subseteq Approving(k) /\ Granted(k)' \subseteq Granted(k)
  BY DEF Approving, Granted
<1> QED BY <1>1, Balance DEF Accounted

(* A turn that is not waiting afterwards has no answer.                    *)
LEMMA TurnAccount ==
    ASSUME Shapes, Shapes', Accounted, UNCHANGED <<ran, approvals, call>>,
           \A a \in Agents : \/ turn'[a].pc # "waiting" \/ answer'[a] # "approve"
                             \/ UNCHANGED <<turn[a].pc, turn[a].k, answer[a]>>
    PROVE  Accounted'
BY QuietAccount DEF Approves, Grants

(* A handler that starts or cancels a stream answers nothing.              *)
LEMMA StreamGrants ==
    ASSUME Shapes, NEW r \in Replicas,
           \/ \E k : StartStream(r, k)
           \/ turn' = [turn EXCEPT ![Own(r)].cancelled = @ \/ attach[r] = "live"]
    PROVE  \A a \in Agents : turn'[a].pc # "waiting" \/ UNCHANGED <<turn[a].pc, turn[a].k>>
<1>1. turn \in [Agents -> Turns]
  BY DEF Shapes, AgentShapes
<1>2. \A k : Begun(k).pc # "waiting"
  BY DEF Begun, IdleTurn
<1>3. CASE \E k : turn' = [turn EXCEPT ![Own(r)] = Begun(k)]
  BY <1>1, <1>2, <1>3
<1>4. CASE turn' = [turn EXCEPT ![Own(r)].cancelled = @ \/ attach[r] = "live"]
  BY <1>1, <1>4 DEF Turns
<1> QED BY <1>3, <1>4 DEF StartStream

(* reply_stream.go applyConfirmDecisions, session_state.go, ws.go,          *)
(* dispatcher.go: an answer is used up by the turn that runs its tools.     *)
LEMMA AccountStep == ASSUME Shapes, Shapes', Accounted, [Next]_vars PROVE Accounted'
<1>t. turn \in [Agents -> Turns] /\ answer \in [Agents -> {"none", "approve", "deny", "undecided"}]
      /\ call \in [Sites -> Calls] /\ ran \in [Asked -> Nat] /\ approvals \in [Asked -> Nat]
  BY DEF Shapes, AgentShapes, CallShapes, CountShapes
<1>1. ASSUME NEW a \in Agents, Ask(a) \/ Park(a) \/ Wait(a) \/ Finish(a) \/ End(a) \/ Unlock(a)
      PROVE  Accounted'
  <2>1. UNCHANGED <<ran, approvals, call>> /\ \A b \in Agents \ {a} : turn'[b] = turn[b] /\ answer'[b] = answer[b]
    BY <1>1, <1>t DEF Ask, Park, Wait, Finish, End, Unlock, bounds, history
  <2>2. turn'[a].pc # "waiting" \/ answer'[a] # "approve"
    BY <1>1, <1>t DEF Ask, Park, Wait, Finish, End, Unlock, IdleTurn, Turns
  <2> QED BY <2>1, <2>2, TurnAccount
<1>2. ASSUME NEW a \in Agents, Decide(a), ~Approved(a) PROVE Accounted'
  <2>1. UNCHANGED <<ran, approvals, call>> /\ \A b \in Agents \ {a} : turn'[b] = turn[b] /\ answer'[b] = answer[b]
    BY <1>2, <1>t DEF Decide
  <2>2. answer'[a] # "approve"
    BY <1>2, <1>t DEF Decide
  <2> QED BY <2>1, <2>2, TurnAccount
<1>3. ASSUME NEW a \in Agents, Decide(a), Approved(a) PROVE Accounted'
  <2> SUFFICES ASSUME NEW k \in Asked PROVE Account(k)'
    BY DEF Accounted
  <2>1. /\ UNCHANGED <<approvals, call>> /\ answer'[a] = "none"
        /\ \A b \in Agents \ {a} : turn'[b] = turn[b] /\ answer'[b] = answer[b]
        /\ ran' = [ran EXCEPT ![turn[a].k] = @ + 1]
    BY <1>3, <1>t DEF Decide
  <2>2. Approving(k)' \subseteq Approving(k) /\ Granted(k)' \subseteq Granted(k) \ {a}
    BY <2>1 DEF Approving, Approves, Granted, Grants
  <2>3. CASE turn[a].k = k
    <3>1. a \in Granted(k) /\ ran'[k] = ran[k] + 1
      BY <1>3, <1>t, <2>1, <2>3 DEF Decide, Approved, Granted, Grants
    <3> QED BY <2>1, <2>2, <3>1, Balance DEF Accounted
  <2>4. CASE turn[a].k # k
    <3>1. ran'[k] = ran[k]
      BY <1>t, <2>1, <2>4
    <3> QED BY <2>1, <2>2, <3>1, Balance DEF Accounted
  <2> QED BY <2>3, <2>4
<1>4. ASSUME NEW r \in Replicas, Connect(r) \/ Look(r) \/ Show(r) \/ ShowEnd(r) PROVE Accounted'
  <2>1. UNCHANGED <<ran, approvals, call, turn, answer>>
    BY <1>4 DEF Connect, Look, Show, ShowEnd, bounds, history
  <2> QED BY <2>1, TurnAccount
<1>5. ASSUME NEW r \in Replicas, Reconnect(r) \/ Chat(r) \/ ChatInstead(r) \/ Drop(r) PROVE Accounted'
  <2>1. UNCHANGED <<ran, approvals, call, answer>>
    BY <1>5 DEF Reconnect, Chat, ChatInstead, Drop, history
  <2>2. \/ \E k : StartStream(r, k)
        \/ turn' = [turn EXCEPT ![Own(r)].cancelled = @ \/ attach[r] = "live"]
        \/ turn' = turn
    BY <1>5 DEF Reconnect, Chat, ChatInstead, Drop
  <2>3. \A a \in Agents : turn'[a].pc # "waiting" \/ UNCHANGED <<turn[a].pc, turn[a].k>>
    BY <2>2, StreamGrants
  <2> QED BY <2>1, <2>3, TurnAccount
<1>6. ASSUME NEW x \in Sites, call[x].pc = "idle", NEW r \in Replicas, NEW n \in Nat, Answering(x, r, n)
      PROVE  Accounted'
  <2>1. PICK approve \in BOOLEAN :
          /\ call' = [call EXCEPT ![x] = [NoCall EXCEPT !.pc = "read", !.at = r, !.k = n,
                                                        !.approve = approve]]
          /\ approvals' = [approvals EXCEPT ![n] = IF approve THEN @ + 1 ELSE @]
    BY <1>6 DEF Answering
  <2>2. UNCHANGED <<ran, turn, answer>>
    BY <1>6 DEF Answering
  <2>3. /\ call'[x].approve = approve /\ call'[x].k = n
        /\ \A y \in Sites \ {x} : call'[y] = call[y]
    BY <1>t, <2>1 DEF NoCall
  <2> SUFFICES ASSUME NEW k \in Asked PROVE Account(k)'
    BY DEF Accounted
  <2>4. Granted(k)' \subseteq Granted(k) /\ Approving(k)' \subseteq Approving(k) \cup {x}
    BY <2>2, <2>3 DEF Granted, Grants, Approving, Approves
  <2>5. CASE approve = TRUE /\ n = k
    <3>1. approvals'[k] = approvals[k] + 1
      BY <1>t, <2>1, <2>5
    <3> QED BY <2>2, <2>4, <3>1, Balance DEF Accounted
  <2>6. CASE ~(approve = TRUE /\ n = k)
    <3>1. approvals'[k] = approvals[k]
      BY <1>t, <2>1, <2>6
    <3>2. Approving(k)' \subseteq Approving(k)
      BY <2>3, <2>6 DEF Approving, Approves
    <3> QED BY <2>2, <2>4, <3>1, <3>2, Balance DEF Accounted
  <2> QED BY <2>5, <2>6
<1>7. ASSUME NEW r \in Replicas, Reply(r) PROVE Accounted'
  <2>1. conn[r].k \in Nat
    BY DEF Shapes, ConnShapes, Conns
  <2> QED BY <1>6, <1>7, <2>1 DEF Reply, Sites
<1>8. ASSUME NEW r \in Replicas, NEW x \in Posters, Post(x, r) PROVE Accounted'
  <2>1. shown \subseteq Nat
    BY DEF Shapes, CountShapes
  <2> QED BY <1>6, <1>8, <2>1 DEF Post, Sites
<1>9. ASSUME NEW x \in Sites, NEW ok, Return(x, ok)
      PROVE  \A k \in Asked : Approving(k)' \subseteq Approving(k) \ {x}
  BY <1>9, <1>t DEF Return, NoCall, Approving, Approves
<1>10. ASSUME NEW x \in Sites, Read(x) \/ Load(x) \/ Save(x) PROVE Accounted'
  <2>1. UNCHANGED <<ran, approvals, turn, answer>>
    BY <1>10 DEF Read, Load, Save, history
  <2>2. \A k \in Asked : Granted(k)' \subseteq Granted(k)
    BY <2>1 DEF Granted, Grants
  <2>3. CASE Return(x, FALSE)
    <3>1. \A k \in Asked : Approving(k)' \subseteq Approving(k)
      BY <1>9, <2>3
    <3> QED BY <2>1, <2>2, <3>1, Balance DEF Accounted
  <2>4. CASE \/ \E pc : Proceed(x, pc)
             \/ call' = [call EXCEPT ![x].pc = IF snap.stored /\ snap.k # 0 THEN "load" ELSE "inject",
                                     ![x].seen = snap]
    <3>1. call[x].pc # "idle"
      BY <1>10 DEF Read, Load, Save, Calling
    <3>2. /\ \A y \in Sites \ {x} : call'[y] = call[y]
          /\ call'[x].approve = call[x].approve /\ call'[x].k = call[x].k
      BY <1>t, <2>4 DEF Proceed, Calls
    <3>3. \A k \in Asked : Approving(k)' \subseteq Approving(k)
      BY <3>1, <3>2 DEF Approving, Approves
    <3> QED BY <2>1, <2>2, <3>3, Balance DEF Accounted
  <2> QED BY <1>10, <2>3, <2>4 DEF Read, Load, Save
<1>11. ASSUME NEW x \in Sites, Inject(x) PROVE Accounted'
  <2> DEFINE a == Own(call[x].at)
  <2>1. UNCHANGED <<ran, approvals, turn>> /\ \E ok : Return(x, ok)
    BY <1>11 DEF Inject, history
  <2>2. \A k \in Asked : Approving(k)' \subseteq Approving(k) \ {x}
    BY <1>9, <2>1
  <2>3. CASE answer' = answer
    <3>1. \A k \in Asked : Granted(k)' \subseteq Granted(k)
      BY <2>1, <2>3 DEF Granted, Grants
    <3> QED BY <2>1, <2>2, <3>1, Balance DEF Accounted
  <2>4. CASE /\ turn[a].pc = "waiting" /\ turn[a].k = call[x].k
             /\ answer' = [answer EXCEPT ![a] = IF call[x].approve THEN "approve" ELSE "deny"]
    <3>1. \A b \in Agents \ {a} : answer'[b] = answer[b]
      BY <1>t, <2>4
    <3> SUFFICES ASSUME NEW k \in Asked PROVE Account(k)'
      BY DEF Accounted
    <3>2. Granted(k)' \subseteq Granted(k) \cup {a}
      BY <2>1, <3>1 DEF Granted, Grants
    <3>3. CASE x \in Approving(k)
      BY <2>1, <2>2, <3>2, <3>3, Balance DEF Accounted
    <3>4. CASE x \notin Approving(k)
      <4>1. ~(call[x].approve = TRUE /\ call[x].k = k)
        BY <1>11, <3>4 DEF Approving, Approves, Inject, Calling
      <4>2. a \notin Granted(k)'
        BY <1>t, <2>1, <2>4, <4>1 DEF Granted, Grants, Calls
      <4>3. Granted(k)' \subseteq Granted(k)
        BY <2>1, <3>1, <4>2 DEF Granted, Grants
      <4> QED BY <2>1, <2>2, <4>3, Balance DEF Accounted
    <3> QED BY <3>3, <3>4
  <2> QED BY <1>11, <2>3, <2>4 DEF Inject
<1>12. ASSUME NEW r \in Replicas, Wakeup(r) \/ StopTrying(r) \/ Collect(r) PROVE Accounted'
  <2>1. UNCHANGED <<ran, approvals, call, turn, answer>>
    BY <1>12 DEF Wakeup, StopTrying, Collect, history
  <2> QED BY <2>1, TurnAccount
<1>13. ASSUME NEW r \in Replicas, StartResumed(r) PROVE Accounted'
  <2>1. UNCHANGED <<ran, approvals, call, answer>> /\ turn' = [turn EXCEPT ![Woken(r)] = Begun(wake[r].k)]
    BY <1>13 DEF StartResumed, history
  <2>2. Begun(wake[r].k).pc # "waiting"
    BY DEF Begun, IdleTurn
  <2>3. \A a \in Agents : turn'[a].pc # "waiting" \/ turn'[a] = turn[a]
    BY <1>t, <2>1, <2>2
  <2> QED BY <2>1, <2>3, TurnAccount
<1>14. ASSUME NEW r \in Replicas, Deliver(r) PROVE Accounted'
  <2>1. UNCHANGED <<ran, approvals, call, turn>> /\ answer' = [answer EXCEPT ![Woken(r)] = "undecided"]
    BY <1>14 DEF Deliver, history
  <2>2. \A a \in Agents : answer'[a] # "approve" \/ answer'[a] = answer[a]
    BY <1>t, <2>1
  <2> QED BY <2>1, <2>2, TurnAccount
<1>15. ASSUME NEW r \in Replicas, Crash(r) PROVE Accounted'
  <2>1. /\ UNCHANGED <<ran, approvals>>
        /\ turn' = [a \in Agents |-> IF a[1] = r THEN IdleTurn ELSE turn[a]]
        /\ answer' = [a \in Agents |-> IF a[1] = r THEN "none" ELSE answer[a]]
        /\ call' = [x \in DOMAIN call |-> IF x = r \/ call[x].at = r THEN NoCall ELSE call[x]]
    BY <1>15 DEF Crash
  <2>2. \A k \in Asked : \A x \in Sites : Approves(x, k)' => Approves(x, k)
    BY <1>t, <2>1 DEF Approves, NoCall
  <2>3. \A k \in Asked : \A a \in Agents : Grants(a, k)' => Grants(a, k)
    BY <2>1 DEF Grants
  <2> QED BY <2>1, <2>2, <2>3, QuietAccount
<1>16. CASE UNCHANGED vars
  BY <1>16, TurnAccount DEF vars, history
<1> QED BY <1>1, <1>2, <1>3, <1>4, <1>5, <1>7, <1>8, <1>10, <1>11, <1>12, <1>13, <1>14, <1>15, <1>16, Steps
        DEF AgentStep, ConnStep, CallStep, WakeStep

(* session_state.go, dispatcher.go, reply_stream.go: no crash, reconnect,   *)
(* repeated answer or stored command runs tools that no client approved as  *)
(* often, for any number of replicas, requests, answers and faults.        *)
THEOREM ApprovedRuns == Spec => []RanOnlyApproved
<1>1. Init => Accounted
  <2> SUFFICES ASSUME Init, NEW k \in Asked PROVE Account(k)
    BY DEF Accounted
  <2>1. Approving(k) = {} /\ Granted(k) = {} /\ ran[k] = 0 /\ approvals[k] = 0
    BY DEF Init, Approving, Approves, Granted, Grants, NoCall, Sites
  <2> QED BY <2>1, FS_EmptySet DEF Account
<1>2. Shapes /\ Accounted => RanOnlyApproved
  <2> SUFFICES ASSUME Shapes, Accounted, NEW k \in Asked PROVE ran[k] <= approvals[k]
    BY DEF RanOnlyApproved
  <2>1. PICK i, j : /\ i = Cardinality(Approving(k)) /\ j = Cardinality(Granted(k))
                    /\ i \in Nat /\ j \in Nat /\ ran[k] + i + j <= approvals[k]
    BY FS_CardinalityType DEF Accounted, Account
  <2> QED BY <2>1 DEF Shapes, CountShapes
<1> QED BY ShapesHold, ShapesStay, AccountStep, <1>1, <1>2, PTL DEF Spec

-----------------------------------------------------------------------------
(* Over one connection that lasts, it runs once.                           *)

(* A request that was raised and whose tools have not run.                 *)
Open(k) == k <= asks /\ (k \in Asked => ran[k] = 0)

(* How often a list of events asks.                                        *)
NoAsk(s) == \A i \in DOMAIN s : s[i].is # "ask"
OneAsk(s) == \A i, j \in DOMAIN s : s[i].is = "ask" /\ s[j].is = "ask" => i = j

Connected(r) == conn[r].pc # "off"

(* The turn of the connection's agent has its answer, or none to wait for.  *)
Heard(r) == turn[Own(r)].pc = "thinking" \/ (turn[Own(r)].pc = "waiting" /\ answer[Own(r)] # "none")

(* A request that is shown, suspended or asked has not run, and while one   *)
(* is shown no other is on its way; once the turn has its answer none is    *)
(* shown.                                                                  *)
Conversation(r) ==
    /\ ~Connected(r) => turn[Own(r)].pc = "idle" /\ parked[Own(r)] = 0
    /\ conn[r].pc = "shown" => NoAsk(inbox[r]) /\ Open(snap.k)
    /\ OneAsk(inbox[r])
    /\ Heard(r) => conn[r].pc # "shown" /\ NoAsk(inbox[r])
    /\ Open(parked[Own(r)])
    /\ turn[Own(r)].pc \in {"asked", "parked", "waiting"} => Open(turn[Own(r)].k)

OneConnection == \A q, r \in Replicas : Connected(q) /\ Connected(r) => q = r
Unstored == (\A r \in Replicas : conn[r].pc \notin {"stream", "shown"}) => snap.stored = FALSE
CallsAreShown == \A x \in Sites : call[x].pc # "idle" =>
                    x \in Replicas /\ call[x].at = x /\ conn[x].pc = "shown" /\ Open(call[x].seen.k)
RanOnce == \A k \in Asked : ran[k] <= 1 /\ (ran[k] > 0 => k <= asks)
Calmness == OneConnection /\ Unstored /\ CallsAreShown /\ RanOnce /\ \A r \in Replicas : Conversation(r)

(* A dispatcher delivers no approval, calm or not.                         *)
NoWokenApproval == \A r \in Replicas : answer[Woken(r)] # "approve"
CalmInv == Shapes /\ NoWokenApproval /\ (calm => Calmness)

(* dispatcher.go 279-330: the stored command carries no decisions.         *)
LEMMA WokenStep == ASSUME Shapes, NoWokenApproval, [Next]_vars PROVE NoWokenApproval'
<1>t. answer \in [Agents -> {"none", "approve", "deny", "undecided"}]
  BY DEF Shapes, AgentShapes
<1>1. CASE AgentStep
  <2>1. \A a \in Agents : answer'[a] = answer[a] \/ answer'[a] = "none"
    BY <1>t, <1>1 DEF AgentStep, Ask, Park, Wait, Decide, Finish, End, Unlock
  <2> QED BY <2>1, AgentNames DEF NoWokenApproval
<1>2. CASE ConnStep
  <2>1. answer' = answer
    BY <1>2 DEF ConnStep, Connect, Look, Reconnect, Chat, Show, ShowEnd, ChatInstead, Drop
  <2> QED BY <2>1 DEF NoWokenApproval
<1>3. CASE CallStep
  <2>1. answer' = answer \/ \E r, s : answer' = [answer EXCEPT ![Own(r)] = s]
    BY <1>3 DEF CallStep, Reply, Post, Answering, Read, Load, Save, Inject
  <2>2. \A q \in Replicas : \A r : Woken(q) # Own(r)
    BY DEF Own, Woken
  <2>3. \A q \in Replicas : answer'[Woken(q)] = answer[Woken(q)]
    BY <1>t, <2>1, <2>2, AgentNames
  <2> QED BY <2>3 DEF NoWokenApproval
<1>4. CASE WakeStep
  <2>1. \A a \in Agents : answer'[a] = answer[a] \/ answer'[a] = "undecided"
    BY <1>t, <1>4 DEF WakeStep, Wakeup, StartResumed, Deliver, StopTrying, Collect
  <2> QED BY <2>1, AgentNames DEF NoWokenApproval
<1>5. ASSUME NEW r \in Replicas, Crash(r) PROVE NoWokenApproval'
  <2>1. \A a \in Agents : answer'[a] = answer[a] \/ answer'[a] = "none"
    BY <1>5 DEF Crash
  <2> QED BY <2>1, AgentNames DEF NoWokenApproval
<1>6. CASE UNCHANGED vars
  BY <1>6 DEF vars, NoWokenApproval
<1> QED BY <1>1, <1>2, <1>3, <1>4, <1>5, <1>6, Steps

(* One event more at the end, or less at the front.                        *)
LEMMA Queue ==
    ASSUME NEW s \in Seq(Events), NEW e \in Events
    PROVE  /\ NoAsk(<<>>) /\ OneAsk(<<>>) /\ OneAsk(<<e>>)
           /\ NoAsk(s) => OneAsk(Append(s, e))
           /\ e.is # "ask" => /\ NoAsk(s) => NoAsk(Append(s, e))
                              /\ OneAsk(s) => OneAsk(Append(s, e))
           /\ s # <<>> => /\ NoAsk(s) => NoAsk(Tail(s))
                          /\ OneAsk(s) => OneAsk(Tail(s))
                          /\ OneAsk(s) /\ Head(s).is = "ask" => NoAsk(Tail(s))
<1>1. NoAsk(<<>>) /\ OneAsk(<<>>) /\ OneAsk(<<e>>)
  BY DEF NoAsk, OneAsk
<1>2. /\ Len(s) \in Nat /\ DOMAIN s = 1..Len(s) /\ DOMAIN Append(s, e) = 1..(Len(s) + 1)
      /\ \A i \in 1..Len(s) : Append(s, e)[i] = s[i]
      /\ Append(s, e)[Len(s) + 1] = e
  BY AppendProperties, LenProperties
<1>3. NoAsk(s) => OneAsk(Append(s, e))
  BY <1>2 DEF NoAsk, OneAsk
<1>4. e.is # "ask" => /\ NoAsk(s) => NoAsk(Append(s, e))
                      /\ OneAsk(s) => OneAsk(Append(s, e))
  BY <1>2 DEF NoAsk, OneAsk
<1>5. ASSUME s # <<>>
      PROVE  /\ NoAsk(s) => NoAsk(Tail(s))
             /\ OneAsk(s) => OneAsk(Tail(s))
             /\ OneAsk(s) /\ Head(s).is = "ask" => NoAsk(Tail(s))
  <2>1. /\ Len(s) \in Nat \ {0} /\ Head(s) = s[1] /\ DOMAIN Tail(s) = 1..(Len(s) - 1)
        /\ \A i \in 1..(Len(s) - 1) : Tail(s)[i] = s[i + 1] /\ i + 1 \in 1..Len(s)
    BY <1>2, <1>5, HeadTailProperties, EmptySeq
  <2>2. NoAsk(s) => NoAsk(Tail(s))
    BY <1>2, <2>1 DEF NoAsk
  <2>3. ASSUME OneAsk(s), NEW i \in DOMAIN Tail(s), NEW j \in DOMAIN Tail(s),
               Tail(s)[i].is = "ask", Tail(s)[j].is = "ask"
        PROVE  i = j
    <3>1. i \in 1..(Len(s) - 1) /\ j \in 1..(Len(s) - 1)
      BY <2>1, <2>3
    <3>2. PICK m \in DOMAIN s, n \in DOMAIN s : m = i + 1 /\ n = j + 1 /\ s[m].is = "ask" /\ s[n].is = "ask"
      BY <1>2, <2>1, <2>3, <3>1
    <3>3. m = n
      BY <2>3, <3>2 DEF OneAsk
    <3> QED BY <2>1, <3>1, <3>2, <3>3
  <2>4. ASSUME OneAsk(s), Head(s).is = "ask", NEW i \in DOMAIN Tail(s), Tail(s)[i].is = "ask"
        PROVE  FALSE
    <3>1. 1 = i + 1
      BY <1>2, <2>1, <2>4 DEF OneAsk
    <3> QED BY <2>1, <3>1
  <2> QED BY <2>2, <2>3, <2>4 DEF NoAsk, OneAsk
<1> QED BY <1>1, <1>3, <1>4, <1>5

(* A request stays open unless its tools run.                              *)
LEMMA OpenStays ==
    ASSUME Shapes, Shapes', asks' >= asks, ran' = ran
    PROVE  \A k \in Nat : Open(k) => Open(k)'
BY DEF Shapes, CountShapes, Open

LEMMA RanOnceStays ==
    ASSUME Shapes, Shapes', asks' >= asks, ran' = ran, RanOnce
    PROVE  RanOnce'
<1> SUFFICES ASSUME NEW k \in Asked PROVE ran'[k] <= 1 /\ (ran'[k] > 0 => k <= asks')
  BY DEF RanOnce
<1>1. k \in Nat /\ asks \in Nat /\ asks' \in Nat
  BY DEF Asked, Shapes, CountShapes
<1>2. ran[k] <= 1 /\ (ran[k] > 0 => k <= asks)
  BY DEF RanOnce
<1> QED BY <1>1, <1>2

(* A connection that a step does not touch.                                *)
LEMMA Undisturbed ==
    ASSUME Shapes, NEW r \in Replicas, Conversation(r), \A k \in Nat : Open(k) => Open(k)',
           UNCHANGED <<conn[r], inbox[r], turn[Own(r)], parked[Own(r)], answer[Own(r)]>>,
           conn[r].pc = "shown" => Open(snap.k)'
    PROVE  Conversation(r)'
<1>1. parked[Own(r)] \in Nat /\ turn[Own(r)].k \in Nat
  BY AgentNames DEF Shapes, AgentShapes, Turns
<1> HIDE DEF Open
<1> QED BY <1>1 DEF Conversation, Connected, Heard

(* One connection's step: the others stay off.                             *)
LEMMA OneAtATime ==
    ASSUME Shapes, Shapes', Calmness, NEW r \in Replicas, asks' >= asks, ran' = ran,
           Connected(r) \/ UNCHANGED conn[r],
           \A q \in Replicas \ {r} :
               UNCHANGED <<conn[q], inbox[q], turn[Own(q)], parked[Own(q)], answer[Own(q)]>>,
           \A q \in Replicas \ {r} : conn[q].pc = "shown" => Open(snap.k)',
           Conversation(r)'
    PROVE  OneConnection' /\ RanOnce' /\ \A q \in Replicas : Conversation(q)'
<1>1. OneConnection'
  BY DEF Calmness, OneConnection, Connected
<1>2. RanOnce'
  BY RanOnceStays DEF Calmness
<1>3. \A q \in Replicas \ {r} : Conversation(q)'
  BY OpenStays, Undisturbed DEF Calmness
<1> QED BY <1>1, <1>2, <1>3

(* A turn of the dispatcher's agent leaves the connections alone.          *)
LEMMA CalmFrame ==
    ASSUME Shapes, Shapes', Calmness, asks' >= asks, UNCHANGED <<conn, inbox, call, ran>>,
           \A r \in Replicas : UNCHANGED <<turn[Own(r)], parked[Own(r)], answer[Own(r)]>>,
           snap' = snap \/ snap' = NoSnap
    PROVE  Calmness'
<1>1. snap \in Snaps /\ snap.k \in Nat
  BY DEF Shapes, StoreShapes, Snaps
<1>2. \A k \in Nat : Open(k) => Open(k)'
  BY OpenStays
<1>3. Open(0)'
  BY DEF Open, Shapes, CountShapes, Asked
<1>4. Open(snap.k) => Open(snap.k)'
  <2>1. CASE snap' = snap
    BY <1>1, <1>2, <2>1 DEF Open
  <2>2. CASE snap' = NoSnap
    BY <1>3, <2>2 DEF NoSnap, Open
  <2> QED BY <2>1, <2>2
<1>5. \A r \in Replicas : Conversation(r)'
  BY <1>2, <1>4, Undisturbed DEF Calmness, Conversation
<1>6. OneConnection' /\ Unstored'
  BY DEF Calmness, OneConnection, Connected, Unstored, NoSnap
<1>7. CallsAreShown'
  <2>1. \A x \in Sites : call[x].seen.k \in Nat
    BY DEF Shapes, CallShapes, Calls, Snaps
  <2> HIDE DEF Open
  <2>2. \A x \in Sites : Open(call[x].seen.k) => Open(call[x].seen.k)'
    BY <1>2, <2>1 DEF Open
  <2> QED BY <2>2 DEF Calmness, CallsAreShown
<1>8. RanOnce'
  BY RanOnceStays DEF Calmness
<1> QED BY <1>5, <1>6, <1>7, <1>8 DEF Calmness

(* reply_stream.go: a turn of the connection's agent asks only after it got *)
(* its answer, suspends on what it asked, and forgets what it ran.         *)
LEMMA CalmTurn ==
    ASSUME Shapes, Shapes', NoWokenApproval, Calmness, NEW a \in Agents,
           Ask(a) \/ Park(a) \/ Wait(a) \/ Finish(a) \/ End(a) \/ Unlock(a) \/ (Decide(a) /\ ~Approved(a))
    PROVE  Calmness'
<1>t. /\ turn \in [Agents -> Turns] /\ answer \in [Agents -> {"none", "approve", "deny", "undecided"}]
      /\ parked \in [Agents -> Nat] /\ inbox \in [Replicas -> Seq(Events)] /\ asks \in Nat
      /\ ran \in [Asked -> Nat]
  BY DEF Shapes, AgentShapes, ConnShapes, CountShapes
<1>1. /\ UNCHANGED <<conn, call, snap, ran, calm>> /\ asks' \in Nat /\ asks' >= asks
      /\ \A b \in Agents \ {a} : UNCHANGED <<turn[b], parked[b], answer[b]>>
  BY <1>t DEF Ask, Park, Wait, Finish, End, Unlock, Decide, bounds, history
<1>2. CASE \E r \in Replicas : a = Woken(r)
  <2>1. PICK r \in Replicas : a = Woken(r)
    BY <1>2
  <2>2. \A q \in Replicas : Own(q) \in Agents \ {a}
    BY <2>1, AgentNames
  <2>3. inbox' = inbox
    BY <2>1, AgentNames DEF Ask, Park, Wait, Finish, End, Unlock, Decide, Emit
  <2> QED BY <1>1, <2>2, <2>3, CalmFrame
<1>3. CASE \E r \in Replicas : a = Own(r)
  <2>1. PICK r \in Replicas : a = Own(r)
    BY <1>3
  <2>2. \A q \in Replicas \ {r} : Own(q) \in Agents \ {a}
    BY <2>1, AgentNames
  <2>3. \A k \in Nat : Open(k) => Open(k)'
    BY <1>1, OpenStays
  <2>4. /\ snap.k \in Nat /\ parked[a] \in Nat /\ turn[a].k \in Nat
        /\ \A x \in Sites : call[x].seen.k \in Nat
    BY <1>t DEF Shapes, StoreShapes, CallShapes, Snaps, Turns, Calls
  <2>5. Open(snap.k) => Open(snap.k)'
    BY <1>1, <2>3, <2>4 DEF Open
  <2>6. CallsAreShown'
    <3>1. \A x \in Sites : Open(call[x].seen.k) => Open(call[x].seen.k)'
      BY <1>1, <2>3, <2>4 DEF Open
    <3> HIDE DEF Open
    <3> QED BY <1>1, <3>1 DEF Calmness, CallsAreShown
  <2>7. Unstored'
    BY <1>1 DEF Calmness, Unstored
  <2>8. Conversation(r) /\ a[1] = r /\ turn[a].pc # "idle" /\ Connected(r)
    BY <2>1, AgentNames DEF Ask, Park, Wait, Finish, End, Unlock, Decide, Calmness, Conversation
  <2>9. ASSUME NEW e, Emit(a, e) PROVE inbox'[r] = inbox[r] \/ inbox'[r] = Append(inbox[r], e)
    BY <1>t, <2>8, <2>9 DEF Emit
  <2>10. \A q \in Replicas \ {r} : inbox'[q] = inbox[q]
    BY <1>t, <2>8 DEF Ask, Park, Wait, Finish, End, Unlock, Decide, Emit
  <2>11. ASSUME Ask(a) PROVE Conversation(r)'
    <3>1. conn[r].pc # "shown" /\ NoAsk(inbox[r])
      BY <2>1, <2>8, <2>11 DEF Ask, Conversation, Heard
    <3>2. [is |-> "ask", k |-> asks'] \in Events
      BY <1>1 DEF Events
    <3>3. inbox'[r] = inbox[r] \/ inbox'[r] = Append(inbox[r], [is |-> "ask", k |-> asks'])
      BY <2>9, <2>11 DEF Ask
    <3>4. OneAsk(inbox'[r])
      <4>1. inbox[r] \in Seq(Events)
        BY <1>t
      <4> QED BY <2>8, <3>1, <3>2, <3>3, <4>1, Queue DEF Conversation
    <3>5. turn'[a].pc = "asked" /\ turn'[a].k = asks + 1 /\ asks' = asks + 1 /\ parked' = parked
      BY <1>t, <2>11 DEF Ask, Turns
    <3>6. turn'[a].k <= asks' /\ (turn'[a].k \in Asked => ran'[turn'[a].k] = 0)
      <4>1. PICK n \in Nat : n = asks + 1
        BY <1>t
      <4>2. n \in Asked => ran[n] = 0
        <5>1. n \in Asked => ran[n] \in Nat /\ (ran[n] > 0 => n <= asks)
          BY <1>t DEF Calmness, RanOnce
        <5> QED BY <1>t, <4>1, <5>1
      <4> QED BY <1>1, <3>5, <4>1, <4>2
    <3>7. Open(parked[a])'
      BY <2>1, <2>3, <2>4, <2>8, <3>5 DEF Open, Conversation
    <3>8. conn'[r].pc # "shown" /\ Connected(r)' /\ ~Heard(r)'
      BY <1>1, <2>1, <2>8, <3>1, <3>5 DEF Connected, Heard
    <3>9. Open(turn[a].k)'
      BY <3>6 DEF Open
    <3> QED BY <2>1, <3>4, <3>7, <3>8, <3>9 DEF Conversation
  <2>12. ASSUME ~Ask(a)
         PROVE  /\ OneAsk(inbox'[r]) /\ (NoAsk(inbox[r]) => NoAsk(inbox'[r]))
                /\ asks' = asks /\ UNCHANGED ran
    <3>1. asks' = asks /\ (inbox' = inbox \/ Emit(a, [is |-> "end", k |-> 0]))
      BY <2>12 DEF Park, Wait, Finish, End, Unlock, Decide, bounds
    <3>2. inbox'[r] = inbox[r] \/ inbox'[r] = Append(inbox[r], [is |-> "end", k |-> 0])
      BY <2>9, <3>1
    <3>3. inbox[r] \in Seq(Events) /\ [is |-> "end", k |-> 0] \in Events
      BY <1>t DEF Events
    <3> QED BY <1>1, <2>8, <3>1, <3>2, <3>3, Queue DEF Conversation
  <2>13. ASSUME ~Ask(a), Heard(r)' => Heard(r), Open(parked'[a]),
                turn'[a].pc \in {"asked", "parked", "waiting"} => Open(turn'[a].k)
         PROVE  Conversation(r)'
    <3>1. Open(parked[a])' /\ (turn'[a].pc \in {"asked", "parked", "waiting"} => Open(turn[a].k)')
      BY <2>12, <2>13 DEF Open
    <3>2. conn'[r] = conn[r] /\ Connected(r)'
      BY <1>1, <2>8 DEF Connected
    <3> HIDE DEF Open, Heard
    <3> QED BY <2>1, <2>5, <2>8, <2>12, <2>13, <3>1, <3>2 DEF Conversation
  <2>14. ASSUME ~Ask(a) PROVE Conversation(r)'
    <3>1. Open(parked[a]) /\ (turn[a].pc \in {"asked", "parked", "waiting"} => Open(turn[a].k))
      BY <2>1, <2>8 DEF Conversation
    <3>2. Open(0)
      BY <1>t DEF Open, Asked
    <3>3. CASE Park(a)
      <4>1. parked'[a] = turn[a].k /\ turn'[a].pc = "parked" /\ turn'[a].k = turn[a].k /\ turn[a].pc = "asked"
        BY <1>t, <3>3 DEF Park, Turns
      <4> HIDE DEF Open
      <4> QED BY <2>1, <2>13, <2>14, <3>1, <4>1 DEF Heard
    <3>4. CASE Wait(a)
      <4>1. /\ parked'[a] = parked[a] /\ turn'[a].k = turn[a].k /\ answer'[a] = "none"
            /\ turn[a].pc \in {"asked", "parked"} /\ turn'[a].pc = "waiting"
        BY <1>t, <3>4 DEF Wait, Turns
      <4> HIDE DEF Open
      <4> QED BY <2>1, <2>13, <2>14, <3>1, <4>1 DEF Heard
    <3>5. CASE Finish(a) \/ End(a) \/ Unlock(a)
      <4>1. parked'[a] = parked[a] /\ turn'[a].pc \in {"ending", "closing", "idle"}
        BY <1>t, <3>5 DEF Finish, End, Unlock, Turns, IdleTurn
      <4> HIDE DEF Open
      <4> QED BY <2>1, <2>13, <2>14, <3>1, <4>1 DEF Heard
    <3>6. CASE Decide(a) /\ ~Approved(a)
      <4>1. /\ parked'[a] \in {0, parked[a]} /\ turn'[a].pc \in {"ending", "thinking"}
            /\ turn[a].pc = "waiting" /\ answer[a] # "none"
        BY <1>t, <3>6 DEF Decide, Turns
      <4> HIDE DEF Open
      <4> QED BY <2>1, <2>13, <2>14, <3>1, <3>2, <4>1 DEF Heard
    <3> QED BY <2>14, <3>3, <3>4, <3>5, <3>6
  <2>15. Conversation(r)'
    BY <2>11, <2>14
  <2> QED BY <1>1, <2>2, <2>5, <2>6, <2>7, <2>8, <2>10, <2>15, OneAtATime DEF Calmness, Conversation
<1> QED BY <1>2, <1>3, AgentNames

(* reply_stream.go: what runs was open, and is not asked, shown or          *)
(* suspended any more.                                                     *)
LEMMA CalmRun ==
    ASSUME Shapes, Shapes', NoWokenApproval, Calmness, NEW a \in Agents, Decide(a), Approved(a)
    PROVE  Calmness'
<1>t. /\ turn \in [Agents -> Turns] /\ answer \in [Agents -> {"none", "approve", "deny", "undecided"}]
      /\ parked \in [Agents -> Nat] /\ asks \in Nat /\ ran \in [Asked -> Nat]
  BY DEF Shapes, AgentShapes, CountShapes
<1>1. PICK r \in Replicas : a = Own(r)
  BY AgentNames DEF Approved, NoWokenApproval
<1>2. /\ UNCHANGED <<conn, call, snap, inbox, asks>> /\ parked'[a] = 0
      /\ turn[a].pc = "waiting" /\ answer[a] # "none" /\ turn'[a].pc \in {"ending", "thinking"}
      /\ \A b \in Agents \ {a} : UNCHANGED <<turn[b], parked[b]>>
      /\ ran' = [ran EXCEPT ![turn[a].k] = @ + 1]
  BY <1>t DEF Decide, Approved, bounds, Turns
<1>3. /\ conn[r].pc # "shown" /\ NoAsk(inbox[r]) /\ OneAsk(inbox[r]) /\ Open(turn[a].k) /\ Connected(r)
  BY <1>1, <1>2 DEF Calmness, Conversation, Heard
<1>4. \A q \in Replicas \ {r} : ~Connected(q)
  BY <1>3 DEF Calmness, OneConnection
<1>5. \A q \in Replicas : conn[q].pc # "shown"
  BY <1>3, <1>4 DEF Connected
<1>6. OneConnection' /\ Unstored' /\ CallsAreShown'
  BY <1>2, <1>5 DEF Calmness, OneConnection, Connected, Unstored, CallsAreShown
<1>7. RanOnce'
  <2> SUFFICES ASSUME NEW k \in Asked PROVE ran'[k] <= 1 /\ (ran'[k] > 0 => k <= asks)
    BY <1>2 DEF RanOnce
  <2>1. CASE k = turn[a].k
    <3>1. ran[k] = 0 /\ k <= asks
      BY <1>3, <2>1 DEF Open
    <3> QED BY <1>t, <1>2, <2>1, <3>1
  <2>2. CASE k # turn[a].k
    BY <1>t, <1>2, <2>2 DEF Calmness, RanOnce
  <2> QED BY <2>1, <2>2
<1>8. \A n : n = 0 => n <= asks' /\ (n \in Asked => ran'[n] = 0)
  BY <1>t, <1>2 DEF Asked
<1>9. Conversation(r)'
  <2>1. Open(parked[Own(r)])'
    BY <1>1, <1>2, <1>8 DEF Open
  <2>2. turn'[Own(r)].pc \notin {"asked", "parked", "waiting"}
    BY <1>1, <1>2
  <2> HIDE DEF Open
  <2> QED BY <1>2, <1>3, <2>1, <2>2 DEF Conversation, Connected
<1>10. ASSUME NEW q \in Replicas \ {r} PROVE Conversation(q)'
  <2>1. Own(q) \in Agents \ {a}
    BY <1>1, AgentNames
  <2>2. turn'[Own(q)].pc = "idle" /\ parked'[Own(q)] = 0 /\ OneAsk(inbox[q]) /\ conn'[q].pc # "shown"
    BY <1>2, <1>4, <1>5, <2>1 DEF Calmness, Conversation
  <2>3. Open(parked[Own(q)])'
    BY <1>8, <2>2 DEF Open
  <2> HIDE DEF Open
  <2> QED BY <1>2, <2>2, <2>3 DEF Conversation, Heard
<1> QED BY <1>6, <1>7, <1>9, <1>10 DEF Calmness

(* ws.go 254-292: a stream that starts is resumed for what is suspended,    *)
(* or asks nothing yet.                                                    *)
LEMMA CalmStream ==
    ASSUME Shapes, Shapes', Calmness, NEW r \in Replicas, StartStream(r, parked[Own(r)]),
           UNCHANGED <<asks, ran, parked, answer>>
    PROVE  /\ Conversation(r)' /\ conn'[r].pc = "stream"
           /\ \A q \in Replicas \ {r} :
                 UNCHANGED <<conn[q], inbox[q], turn[Own(q)], parked[Own(q)], answer[Own(q)]>>
<1> DEFINE a == Own(r)
           k == parked[a]
<1>t. /\ turn \in [Agents -> Turns] /\ conn \in [Replicas -> Conns] /\ a \in Agents
      /\ parked \in [Agents -> Nat] /\ inbox \in [Replicas -> Seq(Events)]
  BY AgentNames DEF Shapes, AgentShapes, ConnShapes
<1>1. conn'[r].pc = "stream" /\ \A q \in Replicas \ {r} : UNCHANGED <<conn[q], inbox[q]>>
  BY <1>t DEF StartStream
<1>2. \A q \in Replicas \ {r} : turn'[Own(q)] = turn[Own(q)]
  BY <1>t, AgentNames DEF StartStream
<1>3. Open(k) /\ Open(k)' /\ k \in Nat
  BY <1>t DEF Calmness, Conversation, Open
<1>4. NoAsk(<<>>) /\ OneAsk(<<>>) /\ OneAsk(<<[is |-> "ask", k |-> k]>>)
  <2>1. [is |-> "ask", k |-> k] \in Events /\ <<>> \in Seq(Events)
    BY <1>t, EmptySeq DEF Events
  <2> QED BY <2>1, Queue
<1>5. CASE turn' = [turn EXCEPT ![a] = Begun(k)]
           /\ inbox' = [inbox EXCEPT ![r] = IF k # 0 THEN <<[is |-> "ask", k |-> k]>> ELSE <<>>]
  <2>1. turn'[a] = Begun(k) /\ inbox'[r] = IF k # 0 THEN <<[is |-> "ask", k |-> k]>> ELSE <<>>
    BY <1>t, <1>5
  <2>2. \/ turn'[a].pc = "asked" /\ turn'[a].k = k /\ OneAsk(inbox'[r])
        \/ turn'[a].pc = "thinking" /\ NoAsk(inbox'[r]) /\ OneAsk(inbox'[r])
    BY <1>4, <2>1 DEF Begun, IdleTurn
  <2>3. turn'[a].pc = "asked" => Open(turn[a].k)'
    BY <1>3, <2>2 DEF Open
  <2>4. turn'[a].pc # "waiting" /\ turn'[a].pc # "parked"
    BY <2>2
  <2> HIDE DEF Open
  <2>5. Conversation(r)'
    BY <1>1, <1>3, <2>2, <2>3, <2>4 DEF Conversation, Connected, Heard
  <2> QED BY <1>1, <1>2, <2>5
<1>6. CASE turn' = [turn EXCEPT ![a].cancelled = @ \/ attach[r] = "live"] /\ inbox' = [inbox EXCEPT ![r] = <<>>]
  <2>1. turn'[a].pc = turn[a].pc /\ turn'[a].k = turn[a].k /\ inbox'[r] = <<>>
    BY <1>t, <1>6 DEF Turns
  <2>2. turn[a].pc \in {"asked", "parked", "waiting"} => Open(turn[a].k)'
    BY <2>1 DEF Calmness, Conversation, Open
  <2> HIDE DEF Open
  <2>5. Conversation(r)'
    BY <1>1, <1>3, <1>4, <2>1, <2>2 DEF Conversation, Connected, Heard
  <2> QED BY <1>1, <1>2, <2>5
<1> QED BY <1>5, <1>6 DEF StartStream

(* ws.go 254-456: a connection is alone, shows a request that is open, and  *)
(* resumes no other.                                                       *)
LEMMA CalmConn ==
    ASSUME Shapes, Shapes', Calmness, calm', ConnStep
    PROVE  Calmness'
<1>t. /\ turn \in [Agents -> Turns] /\ conn \in [Replicas -> Conns]
      /\ parked \in [Agents -> Nat] /\ inbox \in [Replicas -> Seq(Events)] /\ asks \in Nat
      /\ attach \in [Replicas -> {"none", "live", "cut"}] /\ snap \in Snaps /\ snap.k \in Nat
  BY DEF Shapes, AgentShapes, ConnShapes, CountShapes, StoreShapes, Snaps
<1>1. ASSUME NEW r \in Replicas, Connected(r)
      PROVE  \A q \in Replicas \ {r} : conn[q].pc = "off"
  BY <1>1 DEF Calmness, OneConnection, Connected
<1>2. ASSUME NEW r \in Replicas, Connected(r), call[r].pc = "idle", Conversation(r)', Unstored',
             UNCHANGED <<asks, ran, call>>,
             \A q \in Replicas \ {r} :
                 UNCHANGED <<conn[q], inbox[q], turn[Own(q)], parked[Own(q)], answer[Own(q)]>>
      PROVE  Calmness'
  <2>1. \A q \in Replicas \ {r} : conn[q].pc # "shown"
    BY <1>1, <1>2
  <2>2. \A x \in Sites : call[x].pc = "idle"
    BY <1>2, <2>1 DEF Calmness, CallsAreShown
  <2>3. CallsAreShown'
    BY <1>2, <2>2 DEF CallsAreShown
  <2>4. asks' >= asks
    BY <1>2, <1>t
  <2> QED BY <1>2, <2>1, <2>3, <2>4, OneAtATime DEF Calmness
<1>3. ASSUME NEW r \in Replicas, conn[r].pc # "shown" PROVE call[r].pc = "idle"
  BY <1>3 DEF Calmness, CallsAreShown, Sites
<1>4. ASSUME NEW r \in Replicas, conn[r].pc \in {"start", "load", "chat"} PROVE snap.stored = FALSE
  <2>1. \A q \in Replicas : conn[q].pc \notin {"stream", "shown"}
    BY <1>1, <1>4 DEF Connected
  <2> QED BY <2>1 DEF Calmness, Unstored
<1>5. ASSUME NEW r \in Replicas, conn'[r].pc \notin {"off", "shown"}, OneAsk(inbox'[r]),
             NoAsk(inbox[r]) => NoAsk(inbox'[r]),
             UNCHANGED <<asks, ran, turn, parked, answer>>
      PROVE  Conversation(r)'
  BY <1>5 DEF Calmness, Conversation, Connected, Heard, Open
<1>6. ASSUME NEW r \in Replicas, Connect(r) PROVE Calmness'
  <2>1. /\ \A q \in Replicas : conn[q].pc = "off"
        /\ conn'[r].pc = "start" /\ \A q \in Replicas \ {r} : conn'[q] = conn[q]
        /\ UNCHANGED <<snap, parked, turn, answer, inbox, call, asks, ran>>
    BY <1>6, <1>t DEF Connect, bounds
  <2>2. snap.stored = FALSE /\ \A x \in Sites : call[x].pc = "idle"
    BY <2>1 DEF Calmness, Unstored, CallsAreShown
  <2>3. OneConnection' /\ Unstored' /\ CallsAreShown' /\ RanOnce'
    BY <2>1, <2>2 DEF Calmness, OneConnection, Connected, Unstored, CallsAreShown, RanOnce
  <2>4. ASSUME NEW q \in Replicas PROVE Conversation(q)'
    <3>1. conn'[q].pc # "shown"
      BY <2>1
    <3>2. Conversation(q)
      BY DEF Calmness
    <3>3. turn[Own(q)].pc = "idle" /\ parked[Own(q)] = 0
      BY <2>1, <3>2 DEF Conversation, Connected
    <3> QED BY <2>1, <3>1, <3>2, <3>3 DEF Conversation, Heard, Open
  <2> QED BY <2>3, <2>4 DEF Calmness
<1>7. ASSUME NEW r \in Replicas, Look(r) \/ (Reconnect(r) /\ snap.stored = FALSE) PROVE Calmness'
  <2>1. /\ conn[r].pc \in {"start", "load"} /\ conn'[r].pc \in {"load", "chat"}
        /\ \A q \in Replicas \ {r} : conn'[q] = conn[q]
        /\ UNCHANGED <<snap, parked, turn, answer, inbox, call, asks, ran>>
    <3>1. conn[r].pc \in {"start", "load"} /\ UNCHANGED <<snap, parked, turn, answer, inbox, call, asks, ran>>
      BY <1>7 DEF Look, Reconnect, bounds, history
    <3>2. PICK pc \in {"load", "chat"} : conn' = [conn EXCEPT ![r].pc = pc]
      BY <1>7 DEF Look, Reconnect
    <3>3. conn'[r].pc = pc /\ \A q \in Replicas \ {r} : conn'[q] = conn[q]
      BY <1>t, <3>2 DEF Conns
    <3> QED BY <3>1, <3>3
  <2>2. Connected(r) /\ call[r].pc = "idle" /\ snap.stored = FALSE
    BY <1>3, <1>4, <2>1 DEF Connected
  <2>3. Unstored' /\ OneAsk(inbox'[r])
    BY <2>1, <2>2 DEF Unstored, Calmness, Conversation
  <2>4. Conversation(r)'
    BY <1>5, <2>1, <2>3
  <2> QED BY <1>2, <2>1, <2>2, <2>3, <2>4
<1>8. ASSUME NEW r \in Replicas, Chat(r) \/ ChatInstead(r) PROVE Calmness'
  <2>1. /\ StartStream(r, parked[Own(r)]) /\ UNCHANGED <<asks, ran, parked, answer, call>>
        /\ conn[r].pc \in {"chat", "shown"} /\ (conn[r].pc = "shown" => call[r].pc = "idle")
    BY <1>8 DEF Chat, ChatInstead, history
  <2>2. Connected(r) /\ call[r].pc = "idle"
    BY <1>3, <2>1 DEF Connected
  <2>3. /\ Conversation(r)' /\ conn'[r].pc = "stream"
        /\ \A q \in Replicas \ {r} :
              UNCHANGED <<conn[q], inbox[q], turn[Own(q)], parked[Own(q)], answer[Own(q)]>>
    BY <2>1, CalmStream
  <2>4. Unstored'
    BY <2>3 DEF Unstored
  <2> QED BY <1>2, <2>1, <2>2, <2>3, <2>4
<1>9. ASSUME NEW r \in Replicas, Show(r) PROVE Calmness'
  <2>1. /\ conn[r].pc = "stream" /\ conn'[r].pc = "shown" /\ inbox[r] # <<>>
        /\ Head(inbox[r]).is = "ask" /\ inbox'[r] = Tail(inbox[r])
        /\ snap'.k = parked[Own(r)]
        /\ \A q \in Replicas \ {r} : conn'[q] = conn[q] /\ inbox'[q] = inbox[q]
        /\ UNCHANGED <<parked, turn, answer, call, asks, ran>>
    BY <1>9, <1>t DEF Show, bounds
  <2>2. Connected(r) /\ call[r].pc = "idle" /\ Unstored'
    BY <1>3, <2>1 DEF Connected, Unstored
  <2>3. OneAsk(inbox[r]) /\ Conversation(r)
    BY DEF Calmness, Conversation
  <2>4. OneAsk(inbox'[r]) /\ NoAsk(inbox'[r]) /\ ~NoAsk(inbox[r])
    <3>1. inbox[r] \in Seq(Events) /\ [is |-> "end", k |-> 0] \in Events
      BY <1>t DEF Events
    <3>2. 1 \in DOMAIN inbox[r] /\ inbox[r][1] = Head(inbox[r])
      BY <2>1, <3>1, HeadTailProperties, LenProperties, EmptySeq
    <3>3. ~NoAsk(inbox[r])
      BY <2>1, <3>2 DEF NoAsk
    <3> QED BY <2>1, <2>3, <3>1, <3>3, Queue
  <2>5. ~Heard(r)
    BY <2>3, <2>4 DEF Conversation
  <2>6. Conversation(r)'
    BY <2>1, <2>3, <2>4, <2>5 DEF Conversation, Heard, Open, Connected
  <2> QED BY <1>2, <2>1, <2>2, <2>6
<1>10. ASSUME NEW r \in Replicas, ShowEnd(r) PROVE Calmness'
  <2>1. /\ conn[r].pc = "stream" /\ conn'[r].pc = "start" /\ inbox[r] # <<>>
        /\ inbox'[r] = Tail(inbox[r]) /\ snap' = NoSnap
        /\ \A q \in Replicas \ {r} : conn'[q] = conn[q] /\ inbox'[q] = inbox[q]
        /\ UNCHANGED <<parked, turn, answer, call, asks, ran>>
    BY <1>10, <1>t DEF ShowEnd, bounds, history
  <2>2. Connected(r) /\ call[r].pc = "idle" /\ Unstored'
    BY <1>3, <2>1 DEF Connected, Unstored, NoSnap
  <2>3. OneAsk(inbox'[r]) /\ (NoAsk(inbox[r]) => NoAsk(inbox'[r]))
    <3>1. inbox[r] \in Seq(Events) /\ [is |-> "end", k |-> 0] \in Events /\ OneAsk(inbox[r])
      BY <1>t DEF Events, Calmness, Conversation
    <3> QED BY <2>1, <3>1, Queue
  <2>4. Conversation(r)'
    BY <1>5, <2>1, <2>3
  <2> QED BY <1>2, <2>1, <2>2, <2>4
<1>11. ASSUME NEW r \in Replicas, Reconnect(r) PROVE Calmness'
  <2>1. snap.stored = FALSE
    BY <1>4, <1>11 DEF Reconnect
  <2> QED BY <1>7, <1>11, <2>1
<1>12. ASSUME NEW r \in Replicas, Drop(r) PROVE FALSE
  BY <1>12 DEF Drop
<1> QED BY <1>6, <1>7, <1>8, <1>9, <1>10, <1>11, <1>12 DEF ConnStep

(* session_state.go 98-190, ws.go 430-456: a call answers the request that  *)
(* is shown, and puts back the snapshot of it.                             *)
LEMMA CalmCall ==
    ASSUME Shapes, Shapes', Calmness, calm', CallStep
    PROVE  Calmness'
<1>t. /\ turn \in [Agents -> Turns] /\ conn \in [Replicas -> Conns] /\ call \in [Sites -> Calls]
      /\ answer \in [Agents -> {"none", "approve", "deny", "undecided"}]
      /\ parked \in [Agents -> Nat] /\ inbox \in [Replicas -> Seq(Events)] /\ asks \in Nat
      /\ snap \in Snaps /\ snap.k \in Nat
  BY DEF Shapes, AgentShapes, ConnShapes, CountShapes, StoreShapes, CallShapes, Snaps
<1>0. Open(0)
  BY <1>t DEF Open, Asked
<1>1. ASSUME NEW r \in Replicas, conn[r].pc = "shown"
      PROVE  /\ \A q \in Replicas \ {r} : conn[q].pc = "off"
             /\ \A x \in Sites \ {r} : call[x].pc = "idle"
             /\ NoAsk(inbox[r]) /\ OneAsk(inbox[r]) /\ Open(snap.k) /\ ~Heard(r)
  <2>1. \A q \in Replicas \ {r} : conn[q].pc = "off"
    BY <1>1 DEF Calmness, OneConnection, Connected
  <2>2. \A x \in Sites \ {r} : call[x].pc = "idle"
    BY <2>1 DEF Calmness, CallsAreShown
  <2> QED BY <1>1, <2>1, <2>2 DEF Calmness, Conversation
<1>2. ASSUME NEW r \in Replicas, conn[r].pc = "shown", Unstored', Conversation(r)',
             UNCHANGED <<asks, ran>>, \A x \in Sites \ {r} : call'[x] = call[x],
             call'[r].pc = "idle" \/ (/\ call'[r].at = r /\ conn'[r].pc = "shown"
                                      /\ Open(call'[r].seen.k)),
             \A q \in Replicas \ {r} :
                 UNCHANGED <<conn[q], inbox[q], turn[Own(q)], parked[Own(q)], answer[Own(q)]>>
      PROVE  Calmness'
  <2>1. Connected(r) /\ asks' >= asks /\ \A q \in Replicas \ {r} : conn[q].pc # "shown"
    BY <1>1, <1>2, <1>t DEF Connected
  <2>2. OneConnection' /\ RanOnce' /\ \A q \in Replicas : Conversation(q)'
    BY <1>2, <2>1, OneAtATime
  <2>3. CallsAreShown'
    BY <1>1, <1>2 DEF CallsAreShown, Open
  <2> QED BY <1>2, <2>2, <2>3 DEF Calmness
<1>3. ASSUME NEW r \in Replicas, conn[r].pc = "shown", Open(parked'[Own(r)]), Open(snap'.k),
             conn'[r].pc = "shown", UNCHANGED <<asks, ran, inbox, turn, answer>>
      PROVE  Conversation(r)' /\ Unstored'
  <2>1. Conversation(r) /\ ~Heard(r)
    BY <1>1, <1>3 DEF Calmness
  <2> QED BY <1>3, <2>1 DEF Conversation, Connected, Heard, Open, Unstored
<1>4. ASSUME NEW r \in Replicas, Reply(r) PROVE Calmness'
  <2>1. /\ conn[r].pc = "shown" /\ UNCHANGED <<snap, parked, turn, answer, inbox, conn, asks, ran>>
        /\ \E approve \in BOOLEAN :
              call' = [call EXCEPT ![r] = [NoCall EXCEPT !.pc = "read", !.at = r, !.k = conn[r].k,
                                                         !.approve = approve]]
    BY <1>4 DEF Reply, Answering
  <2>2. call'[r].at = r /\ call'[r].seen.k = 0 /\ \A x \in Sites \ {r} : call'[x] = call[x]
    BY <1>t, <2>1 DEF NoCall, NoSnap, Sites
  <2>3. Open(parked[Own(r)]) /\ Open(snap.k)
    BY <1>1, <2>1 DEF Calmness, Conversation
  <2>4. Conversation(r)' /\ Unstored'
    BY <1>3, <2>1, <2>3
  <2> QED BY <1>0, <1>2, <2>1, <2>2, <2>4
<1>5. ASSUME NEW r \in Replicas, NEW x \in Posters, Post(x, r) PROVE FALSE
  BY <1>5 DEF Post, Answering
<1>6. ASSUME NEW x \in Sites, Read(x) \/ Load(x) \/ Save(x) \/ Inject(x)
      PROVE  /\ x \in Replicas /\ call[x].at = x /\ conn[x].pc = "shown" /\ Open(call[x].seen.k)
             /\ Open(snap.k) /\ Open(parked[Own(x)]) /\ UNCHANGED <<asks, ran, inbox, turn>>
  <2>1. call[x].pc # "idle" /\ UNCHANGED <<asks, ran, inbox, turn>>
    BY <1>6 DEF Read, Load, Save, Inject, Calling, bounds, history
  <2> QED BY <1>1, <2>1 DEF Calmness, CallsAreShown, Conversation
<1>7. ASSUME NEW x \in Sites, NEW ok, Return(x, ok), x \in Replicas
      PROVE  /\ call'[x].pc = "idle" /\ \A y \in Sites \ {x} : call'[y] = call[y]
             /\ \A q \in Replicas \ {x} : conn'[q] = conn[q]
             /\ IF ok THEN conn'[x].pc = "stream" ELSE conn'[x] = conn[x]
  BY <1>7, <1>t DEF Return, NoCall, Sites
<1>8. ASSUME NEW x \in Sites, Read(x) PROVE Calmness'
  <2>1. UNCHANGED <<snap, parked, answer>>
    BY <1>8 DEF Read
  <2>2. CASE Return(x, FALSE)
    <3>1. /\ call'[x].pc = "idle" /\ \A y \in Sites \ {x} : call'[y] = call[y]
          /\ \A q \in Replicas : conn'[q] = conn[q]
      <4>1. x \in Replicas
        BY <1>6, <1>8
      <4> QED BY <1>7, <2>2, <4>1
    <3>2. Conversation(x)' /\ Unstored'
      BY <1>3, <1>6, <1>8, <2>1, <3>1
    <3> QED BY <1>2, <1>6, <1>8, <2>1, <3>1, <3>2
  <2>3. CASE /\ call' = [call EXCEPT ![x].pc = IF snap.stored /\ snap.k # 0 THEN "load" ELSE "inject",
                                     ![x].seen = snap]
             /\ UNCHANGED conn
    <3>1. /\ call'[x].seen = snap /\ call'[x].at = call[x].at
          /\ \A y \in Sites \ {x} : call'[y] = call[y]
      BY <1>t, <2>3 DEF Calls
    <3>2. Conversation(x)' /\ Unstored'
      BY <1>3, <1>6, <1>8, <2>1, <2>3
    <3>3. Open(call'[x].seen.k)
      BY <1>6, <1>8, <3>1
    <3> QED BY <1>2, <1>6, <1>8, <2>1, <2>3, <3>1, <3>2, <3>3
  <2> QED BY <1>8, <2>2, <2>3 DEF Read
<1>9. ASSUME NEW x \in Sites, Load(x) PROVE Calmness'
  <2>1. UNCHANGED <<snap, answer>> /\ x \in Replicas /\ call[x].at = x
    BY <1>6, <1>9 DEF Load
  <2>2. CASE parked' = [parked EXCEPT ![Own(x)] = snap.k] /\ Proceed(x, "save") /\ UNCHANGED conn
    <3>1. /\ call'[x].seen = call[x].seen /\ call'[x].at = x
          /\ \A y \in Sites \ {x} : call'[y] = call[y]
      BY <1>t, <2>1, <2>2 DEF Calls, Proceed
    <3>2. parked'[Own(x)] = snap.k /\ \A q \in Replicas \ {x} : parked'[Own(q)] = parked[Own(q)]
      BY <1>t, <2>1, <2>2, AgentNames
    <3>3. Conversation(x)' /\ Unstored'
      BY <1>3, <1>6, <1>9, <2>1, <2>2, <3>2
    <3> QED BY <1>2, <1>6, <1>9, <2>1, <2>2, <3>1, <3>2, <3>3
  <2>3. CASE Return(x, FALSE) /\ UNCHANGED parked
    <3>1. /\ call'[x].pc = "idle" /\ \A y \in Sites \ {x} : call'[y] = call[y]
          /\ \A q \in Replicas : conn'[q] = conn[q]
      BY <1>7, <2>1, <2>3
    <3>2. Conversation(x)' /\ Unstored'
      BY <1>3, <1>6, <1>9, <2>1, <2>3, <3>1
    <3> QED BY <1>2, <1>6, <1>9, <2>1, <2>3, <3>1, <3>2
  <2> QED BY <1>9, <2>1, <2>2, <2>3 DEF Load
<1>10. ASSUME NEW x \in Sites, Save(x) PROVE Calmness'
  <2>1. /\ snap' = [call[x].seen EXCEPT !.command = call[x].k] /\ Proceed(x, "inject")
        /\ UNCHANGED <<parked, answer, conn>> /\ x \in Replicas
    BY <1>6, <1>10 DEF Save
  <2>2. /\ call'[x].seen = call[x].seen /\ call'[x].at = call[x].at
        /\ \A y \in Sites \ {x} : call'[y] = call[y]
    BY <1>t, <2>1 DEF Calls, Proceed
  <2>3. snap'.k = call[x].seen.k
    BY <1>t, <2>1 DEF Calls, Snaps
  <2>4. Conversation(x)' /\ Unstored'
    BY <1>3, <1>6, <1>10, <2>1, <2>3
  <2> QED BY <1>2, <1>6, <1>10, <2>1, <2>2, <2>4
<1>11. ASSUME NEW x \in Sites, Inject(x) PROVE Calmness'
  <2> DEFINE a == Own(x)
  <2>1. UNCHANGED <<snap, parked>> /\ x \in Replicas /\ call[x].at = x /\ a \in Agents
    BY <1>6, <1>11, AgentNames DEF Inject
  <2>2. turn[a].pc = "waiting" => answer[a] = "none"
    BY <1>1, <1>6, <1>11 DEF Heard
  <2>3. CASE /\ Return(x, TRUE) /\ turn[a].pc = "waiting"
             /\ answer' = [answer EXCEPT ![a] = IF call[x].approve THEN "approve" ELSE "deny"]
    <3>1. /\ call'[x].pc = "idle" /\ \A y \in Sites \ {x} : call'[y] = call[y]
          /\ \A q \in Replicas \ {x} : conn'[q] = conn[q]
          /\ conn'[x].pc = "stream"
      BY <1>7, <2>1, <2>3
    <3>2. \A q \in Replicas \ {x} : answer'[Own(q)] = answer[Own(q)]
      BY <1>t, <2>1, <2>3, AgentNames
    <3>3. Unstored'
      BY <2>1, <3>1 DEF Unstored
    <3>4. Conversation(x) /\ NoAsk(inbox[x])
      BY <1>1, <1>6, <1>11, <2>1 DEF Calmness
    <3>5. Conversation(x)'
      BY <1>6, <1>11, <2>1, <3>1, <3>4 DEF Conversation, Connected, Open
    <3> QED BY <1>2, <1>6, <1>11, <2>1, <3>1, <3>2, <3>3, <3>5
  <2>4. CASE Return(x, FALSE) /\ UNCHANGED answer
    <3>1. /\ call'[x].pc = "idle" /\ \A y \in Sites \ {x} : call'[y] = call[y]
          /\ \A q \in Replicas : conn'[q] = conn[q]
      BY <1>7, <2>1, <2>4
    <3>2. Conversation(x)' /\ Unstored'
      BY <1>3, <1>6, <1>11, <2>1, <2>4, <3>1
    <3> QED BY <1>2, <1>6, <1>11, <2>1, <2>4, <3>1, <3>2
  <2> QED BY <1>11, <2>1, <2>2, <2>3, <2>4 DEF Inject
<1> QED BY <1>4, <1>5, <1>8, <1>9, <1>10, <1>11 DEF CallStep

(* ws.go, session_state.go, dispatcher.go: while one connection lasts, the  *)
(* request it is shown is open, and its answer is the only one.            *)
LEMMA CalmStep == CalmInv /\ [Next]_vars => CalmInv'
<1> SUFFICES ASSUME CalmInv, [Next]_vars PROVE CalmInv'
  OBVIOUS
<1>1. Shapes /\ NoWokenApproval /\ Shapes' /\ NoWokenApproval'
  BY ShapesStay, WokenStep DEF CalmInv
<1>2. calm' => calm
  <2>1. AgentStep => calm' = calm
    BY DEF AgentStep, Ask, Park, Wait, Decide, Finish, End, Unlock, history
  <2>2. ConnStep => (calm' => calm)
    BY DEF ConnStep, Connect, Look, Reconnect, Chat, Show, ShowEnd, ChatInstead, Drop, history
  <2>3. CallStep => (calm' => calm)
    <3>1. \A x, r, k : Answering(x, r, k) => (calm' => calm)
      BY DEF Answering
    <3>2. ASSUME NEW r \in Replicas, Reply(r) \/ \E x \in Posters : Post(x, r)
          PROVE  calm' => calm
      BY <3>1, <3>2 DEF Reply, Post
    <3>3. ASSUME NEW x \in Sites, Read(x) \/ Load(x) \/ Save(x) \/ Inject(x)
          PROVE  calm' = calm
      BY <3>3 DEF Read, Load, Save, Inject, history
    <3> QED BY <3>2, <3>3 DEF CallStep
  <2>4. WakeStep => (calm' => calm)
    BY DEF WakeStep, Wakeup, StartResumed, Deliver, StopTrying, Collect, history
  <2>5. (\E r \in Replicas : Crash(r)) => ~calm'
    BY DEF Crash
  <2>6. UNCHANGED vars => calm' = calm
    BY DEF vars, history
  <2> QED BY <2>1, <2>2, <2>3, <2>4, <2>5, <2>6, Steps
<1> SUFFICES ASSUME Calmness, calm' PROVE Calmness'
  BY <1>1, <1>2 DEF CalmInv
<1>3. CASE AgentStep
  BY <1>1, <1>3, CalmTurn, CalmRun DEF AgentStep
<1>4. CASE WakeStep
  <2>1. PICK r \in Replicas : Wakeup(r) \/ StartResumed(r) \/ Deliver(r) \/ StopTrying(r) \/ Collect(r)
    BY <1>4 DEF WakeStep
  <2>2. turn \in [Agents -> Turns] /\ parked \in [Agents -> Nat] /\ asks \in Nat
        /\ answer \in [Agents -> {"none", "approve", "deny", "undecided"}]
    BY <1>1 DEF Shapes, AgentShapes, CountShapes
  <2>3. /\ UNCHANGED <<conn, inbox, call, ran, asks>> /\ (snap' = snap \/ snap' = NoSnap)
    BY <2>1 DEF Wakeup, StartResumed, Deliver, StopTrying, Collect, bounds, history
  <2>4. \A q \in Replicas : UNCHANGED <<turn[Own(q)], parked[Own(q)], answer[Own(q)]>>
    <3>1. \A q \in Replicas : Own(q) \in Agents /\ Own(q) # Woken(r)
      BY AgentNames
    <3> QED BY <2>1, <2>2, <3>1 DEF Wakeup, StartResumed, Deliver, StopTrying, Collect
  <2> QED BY <1>1, <2>2, <2>3, <2>4, CalmFrame
<1>5. CASE UNCHANGED vars
  <2>1. asks \in Nat
    BY <1>1 DEF Shapes, CountShapes
  <2> QED BY <1>1, <1>5, <2>1, CalmFrame DEF vars, bounds, history
<1>6. ASSUME NEW r \in Replicas, Crash(r) PROVE FALSE
  BY <1>6 DEF Crash
<1> QED BY <1>1, <1>3, <1>4, <1>5, <1>6, CalmConn, CalmCall, Steps

(* ws.go 397-456, dispatcher.go 279-330: over one connection that lasts and *)
(* answers itself nothing runs twice, for any number of replicas and        *)
(* wakeups, of requests, answers and turns.                                *)
THEOREM CalmConnectionRunsOnce == Spec => []CalmRunsOnce
<1>1. Init => CalmInv
  <2> SUFFICES ASSUME Init PROVE NoWokenApproval /\ Calmness
    BY ShapesHold DEF CalmInv
  <2>1. \A r \in Replicas : /\ conn[r].pc = "off" /\ turn[Own(r)].pc = "idle" /\ parked[Own(r)] = 0
                            /\ answer[Own(r)] = "none" /\ answer[Woken(r)] = "none" /\ inbox[r] = <<>>
    BY AgentNames DEF Init, IdleTurn
  <2>2. Open(0)
    BY DEF Init, Open, Asked
  <2>3. NoAsk(<<>>) /\ OneAsk(<<>>)
    BY DEF NoAsk, OneAsk
  <2>4. \A r \in Replicas : Conversation(r)
    BY <2>1, <2>2, <2>3 DEF Conversation, Connected, Heard
  <2>5. OneConnection /\ Unstored /\ CallsAreShown /\ RanOnce
    BY <2>1 DEF Init, OneConnection, Connected, Unstored, NoSnap, CallsAreShown, NoCall, Sites, RanOnce
  <2>6. NoWokenApproval
    BY <2>1 DEF NoWokenApproval
  <2> QED BY <2>4, <2>5, <2>6 DEF Calmness
<1>2. CalmInv => CalmRunsOnce
  BY DEF CalmInv, Calmness, RanOnce, CalmRunsOnce
<1> QED BY <1>1, <1>2, CalmStep, PTL DEF Spec
=============================================================================
