------------------------ MODULE TurnAccounting_proof ------------------------
(***************************************************************************)
(* Proofs about TurnAccounting, for any callers, turns, todos, agents and  *)
(* quota, and any number of operator calls: what a turn is charged, and    *)
(* what the rolling window holds under enforcement.                        *)
(***************************************************************************)
EXTENDS TurnAccounting, TLAPS

USE TurnAssumption

TodoStates == {"none", "open", "done", "deferred"}
GoalStates == {"active", "paused", "completed"}

-----------------------------------------------------------------------------
(* The shapes of the rows and of what each goroutine carries.              *)

(* At first every table but the todo's is empty.                           *)
LEMMA TypeInit == Init => TypeOK
<1> SUFFICES ASSUME Init PROVE TypeOK
  OBVIOUS
<1>1. todo \in [Todos -> TodoRow] /\ goal \in GoalRow
  BY DEF Init, TodoRow, GoalRow
<1>2. held \in [Turns -> {Nothing} \cup [token : 1..MaxMints, todo : Todos]]
  BY DEF Init
<1>3. caller \in [Callers -> CallerState]
  BY DEF Init, CallerState
<1>4. ticket \in [Turns -> TicketRow]
  BY DEF Init, NoTicket, TicketRow
<1>5. delivery \in [Turns -> {"none", "pending", "spent"}] /\ charges \in [Turns -> Nat]
      /\ gate \in [Todos -> {"none", "open", "approved", "rejected"}]
  BY DEF Init
<1>6. recent \in Nat /\ minted \in 0..MaxMints /\ ops \in 0..MaxOps
  BY DEF Init
<1> QED BY <1>1, <1>2, <1>3, <1>4, <1>5, <1>6 DEF Init, TypeOK

(* A caller's record by the place it is at.                                *)
LEMMA Carried ==
    ASSUME TypeOK, NEW c \in Callers
    PROVE  /\ At(c, "mint") \/ At(c, "claim") \/ At(c, "load") =>
                caller[c] \in [at : {"mint", "claim", "load"}, turn : Turns, todo : Todos]
           /\ At(c, "claimed") \/ At(c, "supersede") =>
                caller[c] \in [at : {"claimed", "supersede"}, todo : Todos, seen : TodoRow]
           /\ At(c, "gate") \/ At(c, "commit") =>
                caller[c] \in [at : {"gate", "commit"}, turn : Turns, todo : Todos, seen : TodoRow]
           /\ At(c, "spend") => caller[c] \in [at : {"spend"}, turn : Turns, token : 1..MaxMints]
           /\ At(c, "patch") => caller[c] \in [at : {"patch"}, seen : GoalRow]
           /\ At(c, "upsertGate") =>
                caller[c] \in [at : {"upsertGate"}, todo : Todos,
                               outcome : {"open", "approved", "rejected"}]
<1>1. caller[c] \in CallerState
  BY DEF TypeOK
<1> QED BY <1>1 DEF CallerState, Idle, At

(* A record put into the caller, by the place it is for.                   *)
LEMMA Put ==
    /\ Idle \in CallerState
    /\ \A t \in Turns, d \in Todos :
          /\ [at |-> "mint", turn |-> t, todo |-> d] \in CallerState
          /\ [at |-> "claim", turn |-> t, todo |-> d] \in CallerState
          /\ [at |-> "load", turn |-> t, todo |-> d] \in CallerState
    /\ \A d \in Todos, row \in TodoRow :
          /\ [at |-> "claimed", todo |-> d, seen |-> row] \in CallerState
          /\ [at |-> "supersede", todo |-> d, seen |-> row] \in CallerState
    /\ \A t \in Turns, d \in Todos, row \in TodoRow :
          /\ [at |-> "gate", turn |-> t, todo |-> d, seen |-> row] \in CallerState
          /\ [at |-> "commit", turn |-> t, todo |-> d, seen |-> row] \in CallerState
    /\ \A t \in Turns, k \in 1..MaxMints : [at |-> "spend", turn |-> t, token |-> k] \in CallerState
    /\ \A row \in GoalRow : [at |-> "patch", seen |-> row] \in CallerState
    /\ \A d \in Todos, o \in {"open", "approved", "rejected"} :
          [at |-> "upsertGate", todo |-> d, outcome |-> o] \in CallerState
BY DEF CallerState

(* A row with columns changed.                                             *)
LEMMA Changed ==
    /\ \A r \in TodoRow : r.state \in TodoStates /\ r.by \in Agents \cup {None}
    /\ \A r \in TodoRow, s \in TodoStates : [r EXCEPT !.state = s] \in TodoRow
    /\ \A r \in TodoRow, a \in Agents : [r EXCEPT !.by = a] \in TodoRow
    /\ \A r \in TodoRow, s \in TodoStates, d \in Todos :
          [r EXCEPT !.state = s, !.next = d] \in TodoRow
    /\ \A r \in GoalRow, s \in GoalStates : [r EXCEPT !.state = s] \in GoalRow
    /\ \A r \in GoalRow, d \in Todos : [r EXCEPT !.current = d] \in GoalRow
    /\ \A r \in GoalRow : r.current \in Todos
    /\ \A r \in TicketRow : [r EXCEPT !.consumed = TRUE] \in TicketRow
BY DEF TodoRow, GoalRow, TicketRow, TodoStates, GoalStates

(* A step that changes no row but a caller's record.                       *)
LEMMA TypeGo ==
    ASSUME TypeOK, NEW c \in Callers, NEW r \in CallerState, Go(c, r),
           UNCHANGED <<enforced, rows, held, retired, minted, history>>, ops' \in 0..MaxOps
    PROVE  TypeOK'
BY DEF TypeOK, Go, rows, history

(* The three operations of a turn, up to what they put into the caller.    *)
LEMMA TypeTurn ==
    ASSUME TypeOK, NEW c \in Callers, Mint(c) \/ ClaimRead(c) \/ ClaimWrite(c)
                      \/ \E t \in Turns : Tick(c, t) \/ Writeback(c, t) \/ Spend(c, t)
    PROVE  TypeOK'
<1>0. ops \in 0..MaxOps
  BY DEF TypeOK
<1>1. ASSUME NEW t \in Turns, Tick(c, t) PROVE TypeOK'
  <2>1. [at |-> "mint", turn |-> t, todo |-> goal.current] \in CallerState
    BY Put, Changed DEF TypeOK
  <2> QED BY <1>0, <1>1, <2>1, TypeGo DEF Tick
<1>2. ASSUME NEW t \in Turns, Writeback(c, t) PROVE TypeOK'
  <2>1. held[t].todo \in Todos
    BY <1>2 DEF Writeback, TypeOK
  <2>2. [at |-> "load", turn |-> t, todo |-> held[t].todo] \in CallerState
    BY <2>1, Put
  <2> QED BY <1>0, <1>2, <2>2, TypeGo DEF Writeback
<1>3. ASSUME NEW t \in Turns, Spend(c, t) PROVE TypeOK'
  <2>1. held[t].token \in 1..MaxMints
    BY <1>3 DEF Spend, TypeOK
  <2>2. [at |-> "spend", turn |-> t, token |-> held[t].token] \in CallerState
    BY <2>1, Put
  <2> QED BY <1>0, <1>3, <2>2, TypeGo DEF Spend
<1>4. CASE Mint(c)
  <2> DEFINE t == caller[c].turn
  <2>1. caller[c] \in [at : {"mint", "claim", "load"}, turn : Turns, todo : Todos]
    BY <1>4, Carried DEF Mint
  <2>2. [at |-> "claim", turn |-> t, todo |-> caller[c].todo] \in CallerState
    BY <2>1, Put
  <2>3. caller' \in [Callers -> CallerState]
    BY <1>4, <2>2 DEF Mint, Go, TypeOK
  <2>4. /\ ticket' \in [Turns -> TicketRow] /\ minted' \in 0..MaxMints
        /\ ticket'[t].token \in 1..MaxMints
    <3>1. t \in Turns /\ ticket \in [Turns -> TicketRow] /\ minted \in 0..MaxMints
      BY <2>1 DEF TypeOK
    <3>2. CASE ticket[t].token = 0
      <4>1. minted' = minted + 1 /\ minted < MaxMints
            /\ ticket' = [ticket EXCEPT ![t] = [token |-> minted', consumed |-> FALSE]]
        BY <1>4, <3>2 DEF Mint
      <4> QED BY <3>1, <4>1 DEF TicketRow
    <3>3. CASE ticket[t].token # 0
      <4>1. ticket' = ticket /\ minted' = minted
        BY <1>4, <3>3 DEF Mint
      <4> QED BY <3>1, <3>3, <4>1 DEF TicketRow
    <3> QED BY <3>2, <3>3
  <2>6. [token |-> ticket'[t].token, todo |-> caller[c].todo] \in [token : 1..MaxMints, todo : Todos]
    BY <2>1, <2>4
  <2>7. held' \in [Turns -> {Nothing} \cup [token : 1..MaxMints, todo : Todos]]
    BY <1>4, <2>1, <2>6 DEF Mint, TypeOK
  <2> QED BY <1>4, <2>3, <2>4, <2>7 DEF Mint, TypeOK, history
<1>5. CASE ClaimRead(c)
  <2> DEFINE row == todo[caller[c].todo]
  <2>1. caller[c] \in [at : {"mint", "claim", "load"}, turn : Turns, todo : Todos]
    BY <1>5, Carried DEF ClaimRead
  <2>2. AgentOf[caller[c].turn] \in Agents /\ row \in TodoRow
    BY <2>1 DEF TypeOK
  <2>3. [at |-> "claimed", todo |-> caller[c].todo,
         seen |-> [row EXCEPT !.by = AgentOf[caller[c].turn]]] \in CallerState
    BY <2>1, <2>2, Changed, Put
  <2> QED BY <1>0, <1>5, <2>3, Put, TypeGo DEF ClaimRead
<1>6. CASE ClaimWrite(c)
  <2>1. caller[c] \in [at : {"claimed", "supersede"}, todo : Todos, seen : TodoRow]
    BY <1>6, Carried DEF ClaimWrite
  <2>2. todo' \in [Todos -> TodoRow]
    BY <1>6, <2>1 DEF ClaimWrite, TypeOK
  <2> QED BY <1>6, <2>2, Put DEF ClaimWrite, Go, TypeOK, history
<1> QED BY <1>1, <1>2, <1>3, <1>4, <1>5, <1>6

(* The writeback and the charge.                                           *)
LEMMA TypeWork ==
    ASSUME TypeOK, NEW c \in Callers,
           WritebackLoad(c) \/ WritebackGate(c) \/ WritebackCommit(c) \/ SpendCommit(c)
    PROVE  TypeOK'
<1>0. ops \in 0..MaxOps
  BY DEF TypeOK
<1>1. CASE WritebackLoad(c)
  <2> DEFINE row == todo[caller[c].todo]
             write(label, state) == [at |-> label, turn |-> caller[c].turn, todo |-> caller[c].todo,
                                     seen |-> [row EXCEPT !.state = state]]
  <2>1. caller[c] \in [at : {"mint", "claim", "load"}, turn : Turns, todo : Todos]
    BY <1>1, Carried DEF WritebackLoad
  <2>2. row \in TodoRow /\ row.state \in TodoStates
    BY <2>1, Changed DEF TypeOK
  <2>3. \A state \in TodoStates :
           write("gate", state) \in CallerState /\ write("commit", state) \in CallerState
    BY <2>1, <2>2, Changed, Put
  <2>4. \/ Go(c, Idle)
        \/ Go(c, write("commit", row.state))
        \/ Go(c, write("gate", "done"))
        \/ Go(c, write("commit", "done"))
    BY <1>1 DEF WritebackLoad
  <2>5. \E r \in CallerState : Go(c, r)
    <3> HIDE DEF write
    <3> QED BY <2>2, <2>3, <2>4, Put DEF TodoStates
  <2> QED BY <1>0, <1>1, <2>5, TypeGo DEF WritebackLoad
<1>2. CASE WritebackGate(c)
  <2>1. caller[c] \in [at : {"gate", "commit"}, turn : Turns, todo : Todos, seen : TodoRow]
    BY <1>2, Carried DEF WritebackGate
  <2>2. [at |-> "commit", turn |-> caller[c].turn, todo |-> caller[c].todo,
         seen |-> caller[c].seen] \in CallerState
    BY <2>1, Put
  <2> QED BY <1>0, <1>2, <2>2, TypeGo DEF WritebackGate
<1>3. CASE WritebackCommit(c)
  <2>1. caller[c] \in [at : {"gate", "commit"}, turn : Turns, todo : Todos, seen : TodoRow]
    BY <1>3, Carried DEF WritebackCommit
  <2>2. todo' \in [Todos -> TodoRow] /\ done' \subseteq Todos
    BY <1>3, <2>1 DEF WritebackCommit, TypeOK
  <2>3. delivery' \in [Turns -> {"none", "pending", "spent"}]
    BY <1>3, <2>1 DEF WritebackCommit, TypeOK
  <2> QED BY <1>3, <2>2, <2>3, Put DEF WritebackCommit, Go, TypeOK
<1>4. CASE SpendCommit(c)
  <2> DEFINE t == caller[c].turn
  <2>1. t \in Turns
    BY <1>4, Carried DEF SpendCommit
  <2>2. ticket' \in [Turns -> TicketRow]
    <3>1. ticket' = ticket \/ ticket' = [ticket EXCEPT ![t].consumed = TRUE]
      BY <1>4 DEF SpendCommit, Consume
    <3>2. ticket \in [Turns -> TicketRow] /\ [ticket[t] EXCEPT !.consumed = TRUE] \in TicketRow
      BY <2>1, Changed DEF TypeOK
    <3> QED BY <2>1, <3>1, <3>2
  <2>3. delivery' \in [Turns -> {"none", "pending", "spent"}]
    BY <1>4, <2>1 DEF SpendCommit, MarkSpent, TypeOK
  <2>4. recent' \in Nat /\ charges' \in [Turns -> Nat]
    BY <1>4, <2>1 DEF SpendCommit, TypeOK
  <2> QED BY <1>4, <2>2, <2>3, <2>4, Put DEF SpendCommit, Go, TypeOK
<1> QED BY <1>1, <1>2, <1>3, <1>4

(* The operators' calls.                                                   *)
LEMMA TypeOperator ==
    ASSUME TypeOK, NEW c \in Callers,
           \/ \E d \in Todos : OpenGate(c, d) \/ ResolveGate(c, d) \/ Supersede(c, d)
           \/ PatchGoal(c) \/ PatchGoalWrite(c) \/ UpsertGate(c) \/ SetVeto(c) \/ SupersedeWrite(c)
    PROVE  TypeOK'
<1>0. ASSUME Operator(c) PROVE ops' \in 0..MaxOps
  BY <1>0 DEF Operator, TypeOK
<1>1. ASSUME NEW d \in Todos, OpenGate(c, d) PROVE TypeOK'
  BY <1>0, <1>1, Put, TypeGo DEF OpenGate
<1>2. ASSUME NEW d \in Todos, ResolveGate(c, d) PROVE TypeOK'
  BY <1>0, <1>2, Put, TypeGo DEF ResolveGate
<1>3. ASSUME NEW d \in Todos, Supersede(c, d) PROVE TypeOK'
  <2>1. [at |-> "supersede", todo |-> d, seen |-> todo[d]] \in CallerState
    BY Put DEF TypeOK
  <2> QED BY <1>0, <1>3, <2>1, TypeGo DEF Supersede
<1>4. CASE PatchGoal(c)
  <2>1. PICK s \in GoalStates : Go(c, [at |-> "patch", seen |-> [goal EXCEPT !.state = s]])
    BY <1>4 DEF PatchGoal, GoalStates
  <2>2. [at |-> "patch", seen |-> [goal EXCEPT !.state = s]] \in CallerState
    BY Changed, Put DEF TypeOK
  <2> QED BY <1>0, <1>4, <2>1, <2>2, TypeGo DEF PatchGoal
<1>5. CASE PatchGoalWrite(c)
  <2>1. caller[c].seen \in GoalRow
    BY <1>5, Carried DEF PatchGoalWrite
  <2> QED BY <1>5, <2>1, Put DEF PatchGoalWrite, Go, TypeOK, history
<1>6. CASE UpsertGate(c)
  <2>1. caller[c] \in [at : {"upsertGate"}, todo : Todos, outcome : {"open", "approved", "rejected"}]
    BY <1>6, Carried DEF UpsertGate
  <2>2. gate' \in [Todos -> {"none", "open", "approved", "rejected"}] /\ approved' \subseteq Todos
    BY <1>6, <2>1 DEF UpsertGate, TypeOK
  <2> QED BY <1>6, <2>2, Put DEF UpsertGate, Go, TypeOK
<1>7. CASE SetVeto(c)
  BY <1>0, <1>7 DEF SetVeto, TypeOK, history
<1>8. CASE SupersedeWrite(c)
  <2> DEFINE d == caller[c].todo
  <2>1. caller[c] \in [at : {"claimed", "supersede"}, todo : Todos, seen : TodoRow]
    BY <1>8, Carried DEF SupersedeWrite
  <2>2. PICK n \in Todos :
           /\ todo' = [todo EXCEPT
                         ![n] = [state |-> "open", by |-> [caller[c].seen EXCEPT !.state = "deferred", !.next = n].by,
                                 gated |-> FALSE, next |-> None],
                         ![d] = [caller[c].seen EXCEPT !.state = "deferred", !.next = n]]
           /\ goal' = IF goal.current = d THEN [goal EXCEPT !.current = n] ELSE goal
    BY <1>8 DEF SupersedeWrite
  <2>3. [caller[c].seen EXCEPT !.state = "deferred", !.next = n] \in TodoRow
    BY <2>1, Changed DEF TodoStates
  <2>4. [state |-> "open", by |-> [caller[c].seen EXCEPT !.state = "deferred", !.next = n].by,
         gated |-> FALSE, next |-> None] \in TodoRow
    BY <2>3 DEF TodoRow
  <2>5. todo' \in [Todos -> TodoRow]
    BY <2>1, <2>2, <2>3, <2>4 DEF TypeOK
  <2>6. goal' \in GoalRow
    BY <2>2, Changed DEF TypeOK
  <2> QED BY <1>8, <2>5, <2>6, Put DEF SupersedeWrite, Go, TypeOK, history
<1> QED BY <1>1, <1>2, <1>3, <1>4, <1>5, <1>6, <1>7, <1>8

(* The window, the reaper, and calls that return.                          *)
LEMMA TypeOther ==
    ASSUME TypeOK, Slide \/ (\E t \in Turns : Reap(t)) \/ (\E c \in Callers : Return(c)) \/ UNCHANGED vars
    PROVE  TypeOK'
<1>1. CASE Slide
  BY <1>1 DEF Slide, TypeOK, history
<1>2. ASSUME NEW t \in Turns, Reap(t) PROVE TypeOK'
  <2>1. ticket' \in [Turns -> TicketRow]
        /\ delivery' \in [Turns -> {"none", "pending", "spent"}]
    <3>1. NoTicket \in TicketRow
      BY DEF NoTicket, TicketRow
    <3> QED BY <1>2, <3>1 DEF Reap, TypeOK
  <2> QED BY <1>2, <2>1 DEF Reap, TypeOK, history
<1>3. ASSUME NEW c \in Callers, Return(c) PROVE TypeOK'
  <2>1. ops' \in 0..MaxOps
    BY <1>3 DEF Return, TypeOK
  <2> QED BY <1>3, <2>1, Put, TypeGo DEF Return
<1>4. CASE UNCHANGED vars
  BY <1>4 DEF vars, rows, history, TypeOK
<1> QED BY <1>1, <1>2, <1>3, <1>4

(* sqlstore.go, kernel.go: rows, answers and locals keep their shapes.     *)
THEOREM TypeCorrect == Spec => []TypeOK
<1>1. TypeOK /\ [Next]_vars => TypeOK'
  BY TypeTurn, TypeWork, TypeOperator, TypeOther DEF Next, Step
<1> QED BY TypeInit, <1>1, PTL DEF Spec

-----------------------------------------------------------------------------
(* What a turn is charged.                                                 *)

(* ChargeIsWhole is not inductive: a charge could be repeated for a turn   *)
(* whose delivery was reaped.  No goroutine works for such a turn, and a   *)
(* turn that is not retired keeps all that shows its charge.               *)
ChargeInv ==
    /\ \A c \in Callers : OnTurn(c) => caller[c].turn \notin retired
    /\ \A t \in Turns :
          /\ charges[t] \in {0, 1}
          /\ delivery[t] = "spent" => charges[t] = 1
          /\ ticket[t].consumed => charges[t] = 1 /\ ticket[t].token # 0
          /\ charges[t] = 1 /\ t \notin retired =>
                delivery[t] = "spent" /\ (enforced => ticket[t].consumed)

(* Nothing is charged at first.                                            *)
LEMMA ChargeInit == Init => ChargeInv
BY DEF Init, ChargeInv, OnTurn, Idle, NoTicket

(* A step that leaves tickets, deliveries and charges alone, and takes up  *)
(* no turn that is retired.                                                *)
LEMMA ChargeGo ==
    ASSUME TypeOK, ChargeInv, NEW c \in Callers, NEW r, Go(c, r),
           r.at \in {"mint", "claim", "load", "gate", "commit", "spend"} => r.turn \notin retired,
           UNCHANGED <<enforced, ticket, delivery, retired, charges>>
    PROVE  ChargeInv'
BY DEF TypeOK, ChargeInv, OnTurn, Go

(* The steps of a turn's own operations.                                   *)
LEMMA ChargeTurn ==
    ASSUME TypeOK, ChargeInv, NEW c \in Callers,
           \/ \E t \in Turns : Tick(c, t) \/ Writeback(c, t) \/ Spend(c, t)
           \/ Mint(c) \/ ClaimRead(c) \/ ClaimWrite(c)
           \/ WritebackLoad(c) \/ WritebackGate(c) \/ WritebackCommit(c)
    PROVE  ChargeInv'
<1> USE DEF rows, history
<1>1. ASSUME NEW t \in Turns, Tick(c, t) \/ Writeback(c, t) \/ Spend(c, t) PROVE ChargeInv'
  BY <1>1, ChargeGo DEF Tick, Writeback, Spend
<1>2. CASE Mint(c)
  <2> DEFINE t == caller[c].turn
  <2>1. t \in Turns /\ t \notin retired
    BY <1>2, Carried DEF Mint, ChargeInv, OnTurn, At
  <2>2. \/ ticket' = ticket
        \/ /\ ticket[t].token = 0
           /\ ticket' = [ticket EXCEPT ![t] = [token |-> minted + 1, consumed |-> FALSE]]
    BY <1>2 DEF Mint
  <2>3. ticket' = ticket \/ (ticket[t].token = 0 /\ ~ticket'[t].consumed
                             /\ \A u \in Turns \ {t} : ticket'[u] = ticket[u])
    <3>1. CASE ticket[t].token = 0
               /\ ticket' = [ticket EXCEPT ![t] = [token |-> minted + 1, consumed |-> FALSE]]
      <4>1. ticket'[t] = [token |-> minted + 1, consumed |-> FALSE]
        BY <2>1, <3>1 DEF TypeOK
      <4>2. ~ticket'[t].consumed
        BY <4>1
      <4> QED BY <2>1, <3>1, <4>2 DEF TypeOK
    <3> QED BY <2>2, <3>1
  <2>4. \A u \in Turns : /\ ticket'[u].consumed => ticket[u].consumed /\ ticket'[u].token # 0
                         /\ ticket[u].consumed => ticket'[u].consumed
    BY <2>1, <2>3 DEF ChargeInv
  <2>5. caller' = [caller EXCEPT ![c] = [at |-> "claim", turn |-> t, todo |-> caller[c].todo]]
    BY <1>2 DEF Mint, Go
  <2>6. UNCHANGED <<enforced, delivery, retired, charges>>
    BY <1>2 DEF Mint
  <2> QED BY <2>1, <2>4, <2>5, <2>6 DEF ChargeInv, OnTurn, TypeOK
<1>3. CASE ClaimRead(c) \/ ClaimWrite(c)
  BY <1>3, ChargeGo DEF ClaimRead, ClaimWrite, Idle
<1>4. CASE WritebackLoad(c)
  <2>1. caller[c].turn \notin retired
    BY <1>4 DEF WritebackLoad, ChargeInv, OnTurn, At
  <2>2. \E r : Go(c, r) /\ (r = Idle \/ r.turn = caller[c].turn)
    <3> DEFINE row == todo[caller[c].todo]
               write(label, state) == [at |-> label, turn |-> caller[c].turn, todo |-> caller[c].todo,
                                       seen |-> [row EXCEPT !.state = state]]
    <3>1. \A label, state : write(label, state).turn = caller[c].turn
      OBVIOUS
    <3>2. \/ Go(c, Idle) \/ Go(c, write("commit", row.state))
          \/ Go(c, write("gate", "done")) \/ Go(c, write("commit", "done"))
      <4>1. CASE row.by \notin {None, AgentOf[caller[c].turn]}
        BY <1>4, <4>1 DEF WritebackLoad
      <4>2. CASE row.by \in {None, AgentOf[caller[c].turn]} /\ OutcomeOf[caller[c].turn] # "completion"
        BY <1>4, <4>2 DEF WritebackLoad
      <4>3. CASE row.by \in {None, AgentOf[caller[c].turn]} /\ OutcomeOf[caller[c].turn] = "completion"
        BY <1>4, <4>3 DEF WritebackLoad
      <4> QED BY <4>1, <4>2, <4>3
    <3> HIDE DEF write
    <3> QED BY <3>1, <3>2
  <2> QED BY <1>4, <2>1, <2>2, ChargeGo DEF WritebackLoad, Idle
<1>5. CASE WritebackGate(c)
  <2>1. caller[c].turn \notin retired
    BY <1>5 DEF WritebackGate, ChargeInv, OnTurn, At
  <2> QED BY <1>5, <2>1, ChargeGo DEF WritebackGate
<1>6. CASE WritebackCommit(c)
  <2> DEFINE t == caller[c].turn
  <2>1. t \in Turns
    BY <1>6, Carried DEF WritebackCommit
  <2>2. \/ delivery' = delivery
        \/ delivery[t] = "none" /\ delivery' = [delivery EXCEPT ![t] = "pending"]
    BY <1>6 DEF WritebackCommit
  <2>3. \A u \in Turns : (delivery'[u] = "spent") = (delivery[u] = "spent")
    BY <2>1, <2>2 DEF TypeOK
  <2>4. UNCHANGED <<enforced, ticket, retired, charges>> /\ caller' = [caller EXCEPT ![c] = Idle]
    BY <1>6 DEF WritebackCommit, Go
  <2> QED BY <2>3, <2>4 DEF ChargeInv, OnTurn, TypeOK, Idle
<1> QED BY <1>1, <1>2, <1>3, <1>4, <1>5, <1>6

(* The charge: the delivery was pending, so the turn had not been charged. *)
LEMMA ChargeSpend ==
    ASSUME TypeOK, ChargeInv, NEW c \in Callers, SpendCommit(c) PROVE ChargeInv'
<1> DEFINE t == caller[c].turn
<1>1. t \in Turns /\ t \notin retired /\ caller[c].token \in 1..MaxMints
  BY Carried DEF SpendCommit, ChargeInv, OnTurn, At
<1>2. delivery[t] = "pending" /\ delivery' = [delivery EXCEPT ![t] = "spent"]
  BY DEF SpendCommit, MarkSpent
<1>3. charges[t] = 0 /\ charges' = [charges EXCEPT ![t] = 1]
  <2>1. charges[t] = 0
    BY <1>1, <1>2 DEF ChargeInv
  <2>2. charges' = [charges EXCEPT ![t] = charges[t] + 1]
    BY DEF SpendCommit
  <2> QED BY <2>1, <2>2
<1>4. /\ ~enforced => ticket' = ticket
      /\ enforced => ticket[t].token # 0 /\ ticket' = [ticket EXCEPT ![t].consumed = TRUE]
  BY <1>1 DEF SpendCommit, Consume
<1>5. /\ \A u \in Turns \ {t} : ticket'[u] = ticket[u]
      /\ ticket'[t].token = ticket[t].token /\ (enforced => ticket'[t].consumed /\ ticket[t].token # 0)
      /\ ~enforced => ticket'[t] = ticket[t]
  BY <1>1, <1>4 DEF TypeOK, TicketRow
<1>6. UNCHANGED <<enforced, retired>> /\ caller' = [caller EXCEPT ![c] = Idle]
  BY DEF SpendCommit, Go
<1> QED BY <1>1, <1>2, <1>3, <1>5, <1>6 DEF ChargeInv, OnTurn, TypeOK, Idle

(* Operators, the window and the reaper; the reaper takes no turn that a   *)
(* goroutine still works for.                                              *)
LEMMA ChargeOther ==
    ASSUME TypeOK, ChargeInv,
           \/ Slide \/ UNCHANGED vars \/ \E t \in Turns : Reap(t)
           \/ \E c \in Callers :
                 \/ \E d \in Todos : OpenGate(c, d) \/ ResolveGate(c, d) \/ Supersede(c, d)
                 \/ PatchGoal(c) \/ PatchGoalWrite(c) \/ UpsertGate(c) \/ SetVeto(c)
                 \/ SupersedeWrite(c) \/ Return(c)
    PROVE  ChargeInv'
<1> USE DEF rows, history
<1>1. CASE Slide \/ UNCHANGED vars
  BY <1>1 DEF Slide, vars, ChargeInv, OnTurn
<1>2. ASSUME NEW t \in Turns, Reap(t) PROVE ChargeInv'
  <2>1. \/ ticket' = [ticket EXCEPT ![t] = NoTicket] /\ delivery' = delivery
        \/ delivery' = [delivery EXCEPT ![t] = "none"] /\ ticket' = ticket
    BY <1>2 DEF Reap
  <2>2. /\ \A u \in Turns \ {t} : ticket'[u] = ticket[u] /\ delivery'[u] = delivery[u]
        /\ ticket'[t].consumed => ticket'[t] = ticket[t]
        /\ delivery'[t] = "spent" => delivery[t] = "spent"
    BY <2>1 DEF TypeOK, NoTicket
  <2>3. /\ retired' = retired \cup {t} /\ UNCHANGED <<enforced, charges, caller>>
        /\ \A c \in Callers : OnTurn(c) => caller[c].turn # t
    BY <1>2 DEF Reap
  <2> QED BY <2>2, <2>3 DEF ChargeInv, OnTurn
<1>3. ASSUME NEW c \in Callers, NEW d \in Todos, OpenGate(c, d) \/ ResolveGate(c, d) \/ Supersede(c, d)
      PROVE  ChargeInv'
  BY <1>3, ChargeGo DEF OpenGate, ResolveGate, Supersede
<1>4. ASSUME NEW c \in Callers, PatchGoal(c) \/ PatchGoalWrite(c) \/ UpsertGate(c) PROVE ChargeInv'
  BY <1>4, ChargeGo DEF PatchGoal, PatchGoalWrite, UpsertGate, Idle
<1>5. ASSUME NEW c \in Callers, SetVeto(c) PROVE ChargeInv'
  BY <1>5 DEF SetVeto, ChargeInv, OnTurn
<1>6. ASSUME NEW c \in Callers, SupersedeWrite(c) \/ Return(c) PROVE ChargeInv'
  BY <1>6, ChargeGo DEF SupersedeWrite, Return, Idle
<1> QED BY <1>1, <1>2, <1>3, <1>4, <1>5, <1>6

(* kernel.go 783-864, delivery.go 190-207: a turn is charged at most once, *)
(* with enforcement on or off, however often anything is retried.          *)
THEOREM NoDoubleCharge == Spec => []ChargedOnce
<1>1. TypeOK /\ ChargeInv /\ [Next]_vars => ChargeInv'
  BY ChargeTurn, ChargeSpend, ChargeOther DEF Next, Step
<1>2. TypeOK /\ ChargeInv => ChargedOnce
  BY DEF TypeOK, ChargeInv, ChargedOnce
<1> QED BY TypeCorrect, ChargeInit, <1>1, <1>2, PTL DEF Spec

(* kernel.go 806-864: the delivery, the spend row and the ticket tell the  *)
(* same of a turn, until the reaper forgets it.                            *)
THEOREM ChargesAreWhole == Spec => []ChargeIsWhole
<1>1. TypeOK /\ ChargeInv /\ [Next]_vars => ChargeInv'
  BY ChargeTurn, ChargeSpend, ChargeOther DEF Next, Step
<1>2. ChargeInv => ChargeIsWhole
  BY DEF ChargeInv, ChargeIsWhole
<1> QED BY TypeCorrect, ChargeInit, <1>1, <1>2, PTL DEF Spec

-----------------------------------------------------------------------------
(* The quota.                                                              *)

(* kernel.go 824-830: with enforcement the window never holds more spends  *)
(* than the quota, whatever was admitted before: the second look at the    *)
(* window is in the transaction that appends to it.                        *)
THEOREM QuotaIsKept == Spec => []QuotaKept
<1>1. Init => QuotaKept
  BY DEF Init, QuotaKept
<1>2. TypeOK /\ QuotaKept /\ [Next]_vars => QuotaKept'
  <2> SUFFICES ASSUME TypeOK, QuotaKept, [Next]_vars PROVE QuotaKept'
    OBVIOUS
  <2> USE DEF QuotaKept, rows
  <2>1. ASSUME NEW c \in Callers, SpendCommit(c) PROVE QuotaKept'
    BY <2>1 DEF SpendCommit, Consume, StillEligible, Eligible, TypeOK
  <2>2. CASE Slide
    BY <2>2 DEF Slide, TypeOK
  <2>3. ASSUME NEW c \in Callers, Step(c), ~SpendCommit(c) PROVE UNCHANGED <<enforced, recent>>
    BY <2>3 DEF Step, Tick, Mint, ClaimRead, ClaimWrite, Writeback, WritebackLoad, WritebackGate,
                WritebackCommit, Spend, OpenGate, ResolveGate, Supersede, PatchGoal,
                PatchGoalWrite, UpsertGate, SetVeto, SupersedeWrite, Return
  <2>4. ASSUME NEW t \in Turns, Reap(t) PROVE UNCHANGED <<enforced, recent>>
    BY <2>4 DEF Reap
  <2>5. CASE UNCHANGED vars
    BY <2>5 DEF vars
  <2> QED BY <2>1, <2>2, <2>3, <2>4, <2>5 DEF Next
<1> QED BY TypeCorrect, <1>1, <1>2, PTL DEF Spec
-----------------------------------------------------------------------------
(* The ledger.                                                             *)

(* Nothing is recorded at first.                                           *)
LEMMA LedgerInit == Init => Ledger!Init
BY DEF Init, Ledger!Init, Accounts, Account

(* What writes no delivery and no charge, and leaves the window, does      *)
(* nothing to the ledger.                                                  *)
LEMMA LedgerQuiet ==
    UNCHANGED <<enforced, delivery, recent, charges>> => UNCHANGED Ledger!vars
BY DEF Ledger!vars, Accounts, Account

(* Most steps are of this kind.                                            *)
LEMMA QuietSteps ==
    ASSUME NEW c \in Callers, Step(c), ~SpendCommit(c), ~WritebackCommit(c)
    PROVE  UNCHANGED <<enforced, delivery, recent, charges>>
<1> USE DEF rows, history
<1>1. ASSUME NEW t \in Turns, Tick(c, t) \/ Writeback(c, t) \/ Spend(c, t)
      PROVE  UNCHANGED <<enforced, delivery, recent, charges>>
  BY <1>1 DEF Tick, Writeback, Spend
<1>2. CASE Mint(c) \/ ClaimRead(c) \/ ClaimWrite(c) \/ WritebackLoad(c) \/ WritebackGate(c)
  BY <1>2 DEF Mint, ClaimRead, ClaimWrite, WritebackLoad, WritebackGate
<1>3. ASSUME NEW d \in Todos, OpenGate(c, d) \/ ResolveGate(c, d) \/ Supersede(c, d)
      PROVE  UNCHANGED <<enforced, delivery, recent, charges>>
  BY <1>3 DEF OpenGate, ResolveGate, Supersede
<1>4. CASE \/ PatchGoal(c) \/ PatchGoalWrite(c) \/ UpsertGate(c) \/ SetVeto(c)
           \/ SupersedeWrite(c) \/ Return(c)
  BY <1>4 DEF PatchGoal, PatchGoalWrite, UpsertGate, SetVeto, SupersedeWrite, Return
<1> QED BY <1>1, <1>2, <1>3, <1>4 DEF Step

(* The account of one turn changes, and no other.                          *)
LEMMA OneAccount ==
    ASSUME NEW t \in Turns, \A u \in Turns \ {t} : Account(u)' = Account(u)
    PROVE  Accounts' = [Accounts EXCEPT ![t] = Account(t)'] /\ Accounts[t] = Account(t)
BY DEF Accounts

(* A writeback records a turn that has no delivery yet, or nothing.        *)
LEMMA LedgerRecord ==
    ASSUME TypeOK, NEW c \in Callers, WritebackCommit(c) PROVE [Ledger!Next]_Ledger!vars
<1>1. PICK t \in Turns : t = caller[c].turn
  BY Carried DEF WritebackCommit
<1>2. UNCHANGED <<enforced, recent, charges>>
  BY DEF WritebackCommit
<1>3. CASE delivery' = delivery
  BY <1>2, <1>3, LedgerQuiet
<1>4. CASE delivery[t] = "none" /\ delivery' = [delivery EXCEPT ![t] = "pending"]
  <2>1. delivery'[t] = "pending" /\ \A u \in Turns \ {t} : delivery'[u] = delivery[u]
    BY <1>4 DEF TypeOK
  <2>2. \A u \in Turns \ {t} : Account(u)' = Account(u)
    BY <1>2, <2>1 DEF Account
  <2>3. CASE charges[t] # 0
    <3>1. Account(t)' = Account(t)
      BY <1>2, <2>3 DEF Account
    <3>2. Accounts' = Accounts
      BY <2>2, <3>1 DEF Accounts
    <3> QED BY <1>2, <3>2 DEF Ledger!vars
  <2>4. CASE charges[t] = 0
    <3>1. Account(t) = "open" /\ Account(t)' = "owed"
      BY <1>2, <1>4, <2>1, <2>4 DEF Account
    <3>2. Ledger!Record(t)
      BY <1>2, <2>2, <3>1, OneAccount DEF Ledger!Record, Ledger!Enter
    <3> QED BY <3>2 DEF Ledger!Next
  <2> QED BY <2>3, <2>4
<1>5. delivery' = delivery \/ (delivery[t] = "none" /\ delivery' = [delivery EXCEPT ![t] = "pending"])
  BY <1>1 DEF WritebackCommit
<1> QED BY <1>3, <1>4, <1>5

(* A spend charges a turn that was recorded and not charged yet.           *)
LEMMA LedgerCharge ==
    ASSUME TypeOK, ChargeInv, NEW c \in Callers, SpendCommit(c) PROVE Ledger!Next
<1>1. PICK t \in Turns : t = caller[c].turn
  BY Carried DEF SpendCommit
<1>2. t \notin retired
  BY <1>1 DEF SpendCommit, ChargeInv, OnTurn, At
<1>3. delivery[t] = "pending" /\ delivery' = [delivery EXCEPT ![t] = "spent"]
  BY <1>1 DEF SpendCommit, MarkSpent
<1>4. charges[t] = 0
  BY <1>2, <1>3 DEF ChargeInv
<1>5. charges' = [charges EXCEPT ![t] = 1]
  <2>1. charges' = [charges EXCEPT ![t] = charges[t] + 1]
    BY <1>1 DEF SpendCommit
  <2> QED BY <1>4, <2>1
<1>6. /\ charges'[t] = 1 /\ \A u \in Turns \ {t} : charges'[u] = charges[u]
      /\ delivery'[t] = "spent" /\ \A u \in Turns \ {t} : delivery'[u] = delivery[u]
  BY <1>3, <1>5 DEF TypeOK
<1>7. Account(t) = "owed" /\ Account(t)' = "charged" /\ \A u \in Turns \ {t} : Account(u)' = Account(u)
  BY <1>3, <1>4, <1>6 DEF Account
<1>8. Ledger!Enter(t, "owed", "charged")
  BY <1>7, OneAccount DEF Ledger!Enter
<1>9. /\ enforced => recent < Allowed
      /\ recent' = recent + 1 /\ UNCHANGED enforced
  BY DEF SpendCommit, Consume, StillEligible, Eligible
<1>10. Ledger!Charge(t)
  BY <1>8, <1>9 DEF Ledger!Charge
<1> QED BY <1>10 DEF Ledger!Next

(* The reaper takes a delivery only after its charge.                      *)
LEMMA LedgerReap ==
    ASSUME TypeOK, ChargeInv, NEW t \in Turns, Reap(t) PROVE UNCHANGED Ledger!vars
<1>1. UNCHANGED <<enforced, recent, charges>>
  BY DEF Reap, history
<1>2. CASE delivery' = delivery
  BY <1>1, <1>2, LedgerQuiet
<1>3. CASE delivery[t] = "spent" /\ delivery' = [delivery EXCEPT ![t] = "none"]
  <2>1. charges[t] # 0
    BY <1>3 DEF ChargeInv
  <2>2. \A u \in Turns \ {t} : delivery'[u] = delivery[u]
    BY <1>3 DEF TypeOK
  <2>3. \A u \in Turns : Account(u)' = Account(u)
    BY <1>1, <2>1, <2>2 DEF Account
  <2> QED BY <1>1, <2>3 DEF Ledger!vars, Accounts
<1> QED BY <1>2, <1>3 DEF Reap

(* kernel.go Writeback, SpendSlot, reaper; delivery.go MarkSpent: for any  *)
(* number of goroutines, retries, crashes and operators, the deliveries    *)
(* and the spend rows are the accounts of a ledger that forgets no turn it *)
(* recorded, charges none twice and takes no charge back.                  *)
THEOREM TurnsKeepLedger == Spec => ImplementsLedger
<1>1. TypeOK /\ ChargeInv /\ [Next]_vars => ChargeInv'
  BY ChargeTurn, ChargeSpend, ChargeOther DEF Next, Step
<1>2. TypeOK /\ ChargeInv /\ [Next]_vars => [Ledger!Next]_Ledger!vars
  <2> SUFFICES ASSUME TypeOK, ChargeInv, [Next]_vars PROVE [Ledger!Next]_Ledger!vars
    OBVIOUS
  <2>1. ASSUME NEW c \in Callers, Step(c) PROVE [Ledger!Next]_Ledger!vars
    <3>1. CASE SpendCommit(c)
      BY <3>1, LedgerCharge
    <3>2. CASE WritebackCommit(c)
      BY <3>2, LedgerRecord
    <3>3. CASE ~SpendCommit(c) /\ ~WritebackCommit(c)
      BY <2>1, <3>3, QuietSteps, LedgerQuiet
    <3> QED BY <3>1, <3>2, <3>3
  <2>2. CASE Slide
    <3>1. /\ recent > 0 /\ recent' = recent - 1 /\ UNCHANGED enforced
          /\ Accounts' = Accounts
      BY <2>2 DEF Slide, history, Accounts, Account
    <3> QED BY <3>1 DEF Ledger!Next, Ledger!Slide
  <2>3. ASSUME NEW t \in Turns, Reap(t) PROVE [Ledger!Next]_Ledger!vars
    BY <2>3, LedgerReap
  <2>4. CASE UNCHANGED vars
    BY <2>4, LedgerQuiet DEF vars, rows, history
  <2> QED BY <2>1, <2>2, <2>3, <2>4 DEF Next
<1> QED BY TypeCorrect, ChargeInit, LedgerInit, <1>1, <1>2, PTL DEF Spec, ImplementsLedger, Ledger!Spec

-----------------------------------------------------------------------------
(* Approval of gated work, and the delivery behind work that is done.      *)

(* The todo has the delivery of a completed turn, or had it until the      *)
(* reaper took it.                                                         *)
Spendable(d) ==
    \E t \in Turns : /\ OutcomeOf[t] = "completion" /\ held[t].todo = d
                     /\ delivery[t] # "none" \/ t \in retired

(* A row that was read once may be upserted much later: all it can know of *)
(* the gate is in the column it carries along.                             *)
Copied(c) ==
    /\ caller[c].seen.gated = todo[caller[c].todo].gated
    /\ caller[c].seen.state = "none" => ~caller[c].seen.gated

(* What the calls in progress have established with what they have read.   *)
CallerWork(c) ==
    /\ caller[c].at \in {"claimed", "supersede"} => Copied(c) /\ caller[c].seen.state # "done"
    /\ caller[c].at \in {"load", "gate", "commit"} => caller[c].todo = held[caller[c].turn].todo
    /\ caller[c].at \in {"gate", "commit"} => Copied(c)
    /\ caller[c].at = "gate" => OutcomeOf[caller[c].turn] = "completion"
    /\ caller[c].at = "commit" /\ caller[c].seen.state = "done" =>
          /\ caller[c].seen.gated => caller[c].todo \in approved
          /\ Spendable(caller[c].todo) \/ OutcomeOf[caller[c].turn] = "completion"

(* Neither property is inductive: a writeback that is past its checks      *)
(* commits what it has read, whatever has happened to the rows since.      *)
RowsWork ==
    /\ \A d \in Todos : gate[d] = "approved" => d \in approved
    /\ \A d \in Todos : todo[d].state = "none" => ~todo[d].gated
    /\ \A d \in Todos : todo[d].state = "done" => d \in done /\ Spendable(d)
    /\ GatedWorkWasApproved

WorkInv == RowsWork /\ \A c \in Callers : CallerWork(c)

(* No step takes anything of this back.                                    *)
Lasting ==
    /\ \A d \in Todos : todo'[d].gated = todo[d].gated /\ (Spendable(d) => Spendable(d)')
    /\ approved \subseteq approved' /\ done \subseteq done'
    /\ \A t \in Turns : held[t] # Nothing => held'[t] = held[t]

(* Nothing is done at first.                                               *)
LEMMA WorkInit == Init => WorkInv
<1> SUFFICES ASSUME Init PROVE WorkInv
  OBVIOUS
<1>1. \A c \in Callers : CallerWork(c)
  BY DEF Init, CallerWork, Idle
<1>2. RowsWork
  <2>1. PICK gated \in BOOLEAN :
           todo = [d \in Todos |->
                     [state |-> IF d = First THEN "open" ELSE "none",
                      by |-> None, gated |-> d = First /\ gated, next |-> None]]
    BY DEF Init
  <2>2. ASSUME NEW d \in Todos
        PROVE  /\ todo[d].state # "done" /\ (todo[d].state = "none" => ~todo[d].gated)
               /\ gate[d] = "none"
    <3> DEFINE covered == d = First /\ gated
    <3>1. todo[d] = [state |-> IF d = First THEN "open" ELSE "none",
                     by |-> None, gated |-> covered, next |-> None]
      BY <2>1
    <3>2. d # First => ~covered
      OBVIOUS
    <3> HIDE DEF covered
    <3>3. todo[d].gated = covered /\ todo[d].state = IF d = First THEN "open" ELSE "none"
      BY <3>1
    <3> QED BY <3>2, <3>3 DEF Init
  <2>3. done = {}
    BY DEF Init
  <2> QED BY <2>2, <2>3 DEF RowsWork, GatedWorkWasApproved
<1> QED BY <1>1, <1>2 DEF WorkInv

(* The other calls in progress are not disturbed.                          *)
LEMMA WorkCallers ==
    ASSUME TypeOK, WorkInv, Lasting, NEW c \in Callers, NEW r, Go(c, r), CallerWork(c)'
    PROVE  \A b \in Callers : CallerWork(b)'
<1> SUFFICES ASSUME NEW b \in Callers, b # c PROVE CallerWork(b)'
  OBVIOUS
<1>1. caller'[b] = caller[b]
  BY DEF Go, TypeOK
<1>2. CallerWork(b)
  BY DEF WorkInv
<1>3. ASSUME caller[b].at \in {"claimed", "supersede", "load", "gate", "commit"}
      PROVE  caller[b].todo \in Todos
  BY <1>3, Carried DEF At
<1>4. ASSUME caller[b].at \in {"load", "gate", "commit"}
      PROVE  caller[b].todo = held'[caller[b].turn].todo
  <2>1. caller[b].turn \in Turns /\ caller[b].todo = held[caller[b].turn].todo
    BY <1>2, <1>4, Carried DEF CallerWork, At
  <2>2. held[caller[b].turn] # Nothing
    BY <1>3, <1>4, <2>1 DEF Nothing
  <2> QED BY <2>1, <2>2 DEF Lasting
<1>5. ASSUME Copied(b), caller[b].todo \in Todos PROVE Copied(b)'
  BY <1>1, <1>5 DEF Copied, Lasting
<1>6. ASSUME Spendable(caller[b].todo), caller[b].todo \in Todos PROVE Spendable(caller[b].todo)'
  <2>1. Spendable(caller[b].todo)'
        <=> \E t \in Turns : /\ OutcomeOf[t] = "completion" /\ held'[t].todo = caller'[b].todo
                             /\ delivery'[t] # "none" \/ t \in retired'
    BY DEF Spendable
  <2>2. PICK d \in Todos : d = caller[b].todo
    BY <1>6
  <2>3. Spendable(d)'
    BY <1>6, <2>2 DEF Lasting
  <2> QED BY <1>1, <2>1, <2>2, <2>3 DEF Spendable
<1> QED BY <1>1, <1>2, <1>3, <1>4, <1>5, <1>6 DEF CallerWork, Lasting

(* A call that is over owes nothing.                                       *)
LEMMA WorkIdle ==
    ASSUME TypeOK, NEW c \in Callers, Go(c, Idle) PROVE CallerWork(c)'
<1>1. caller'[c] = Idle
  BY DEF Go, TypeOK
<1> QED BY <1>1 DEF CallerWork, Idle

(* A step that changes none of the rows in question.                       *)
LEMMA WorkGo ==
    ASSUME TypeOK, WorkInv, NEW c \in Callers, NEW r, Go(c, r), CallerWork(c)',
           UNCHANGED <<todo, gate, delivery, held, retired, approved, done>>
    PROVE  WorkInv'
<1>1. Lasting
  BY DEF Lasting, Spendable
<1>2. RowsWork'
  BY DEF WorkInv, RowsWork, GatedWorkWasApproved, Spendable
<1> QED BY <1>1, <1>2, WorkCallers DEF WorkInv

(* Calls that read a todo, or none.                                        *)
LEMMA WorkReads ==
    ASSUME TypeOK, WorkInv, NEW c \in Callers,
           \/ \E t \in Turns : Tick(c, t) \/ Writeback(c, t) \/ Spend(c, t)
           \/ \E d \in Todos : OpenGate(c, d) \/ ResolveGate(c, d) \/ Supersede(c, d)
           \/ ClaimRead(c) \/ WritebackLoad(c) \/ WritebackGate(c)
           \/ PatchGoal(c) \/ PatchGoalWrite(c) \/ Return(c)
    PROVE  WorkInv'
<1> USE DEF rows, history
<1>0. caller \in [Callers -> CallerState]
  BY DEF TypeOK
<1>1. ASSUME NEW t \in Turns, Tick(c, t) \/ Spend(c, t) PROVE WorkInv'
  BY <1>0, <1>1, WorkGo DEF Tick, Spend, Go, CallerWork
<1>2. ASSUME NEW t \in Turns, Writeback(c, t) PROVE WorkInv'
  <2>1. caller'[c] = [at |-> "load", turn |-> t, todo |-> held[t].todo] /\ held' = held
    BY <1>0, <1>2 DEF Writeback, Go
  <2>2. CallerWork(c)'
    BY <2>1 DEF CallerWork
  <2> QED BY <1>2, <2>2, WorkGo DEF Writeback
<1>3. ASSUME NEW d \in Todos, OpenGate(c, d) \/ ResolveGate(c, d) PROVE WorkInv'
  BY <1>0, <1>3, WorkGo DEF OpenGate, ResolveGate, Go, CallerWork
<1>4. ASSUME NEW d \in Todos, Supersede(c, d) PROVE WorkInv'
  <2>1. caller'[c] = [at |-> "supersede", todo |-> d, seen |-> todo[d]] /\ todo' = todo
    BY <1>0, <1>4 DEF Supersede, Go
  <2>2. todo[d].state # "done" /\ (todo[d].state = "none" => ~todo[d].gated)
    BY <1>4 DEF Supersede, LegalTodoTransition, WorkInv, RowsWork
  <2>3. CallerWork(c)'
    BY <2>1, <2>2 DEF CallerWork, Copied
  <2> QED BY <1>4, <2>3, WorkGo DEF Supersede
<1>5. CASE ClaimRead(c)
  <2> DEFINE d == caller[c].todo
             row == [todo[d] EXCEPT !.by = AgentOf[caller[c].turn]]
  <2>1. d \in Todos
    BY <1>5, Carried DEF ClaimRead
  <2>2. row.gated = todo[d].gated /\ row.state = todo[d].state
    BY <2>1 DEF TypeOK, TodoRow
  <2>3. \/ Go(c, Idle)
        \/ Go(c, [at |-> "claimed", todo |-> d, seen |-> row]) /\ todo[d].state = "open"
    BY <1>5 DEF ClaimRead
  <2>4. CASE Go(c, Idle)
    BY <1>5, <2>4, WorkIdle, WorkGo DEF ClaimRead
  <2>5. CASE Go(c, [at |-> "claimed", todo |-> d, seen |-> row]) /\ todo[d].state = "open"
    <3>1. caller'[c] = [at |-> "claimed", todo |-> d, seen |-> row] /\ todo' = todo
      BY <1>0, <1>5, <2>5 DEF ClaimRead, Go
    <3>2. /\ caller'[c].at = "claimed" /\ caller'[c].todo = d
          /\ caller'[c].seen.gated = todo'[d].gated /\ caller'[c].seen.state = "open"
      <4>1. caller'[c].seen = row /\ row.state = "open" /\ row.gated = todo'[d].gated
        BY <2>2, <2>5, <3>1
      <4> HIDE DEF row
      <4> QED BY <3>1, <4>1
    <3>3. CallerWork(c)'
      BY <3>2 DEF CallerWork, Copied
    <3> QED BY <1>5, <2>5, <3>3, WorkGo DEF ClaimRead
  <2> QED BY <2>3, <2>4, <2>5
<1>6. CASE WritebackLoad(c)
  <2>1. PICK t \in Turns, d \in Todos :
           caller[c].turn = t /\ caller[c].todo = d /\ d = held[t].todo
    BY <1>6, Carried DEF WritebackLoad, WorkInv, CallerWork, At
  <2> DEFINE row(state) == [todo[d] EXCEPT !.state = state]
             write(label, state) == [at |-> label, turn |-> t, todo |-> d, seen |-> row(state)]
  <2>2. /\ \A state \in TodoStates : row(state).gated = todo[d].gated /\ row(state).state = state
        /\ todo[d].state \in TodoStates
    BY <2>1 DEF TypeOK, TodoRow, TodoStates
  <2>3. \/ Go(c, Idle)
        \/ Go(c, write("commit", todo[d].state))
        \/ OutcomeOf[t] = "completion" /\ todo[d].gated /\ Go(c, write("gate", "done"))
        \/ OutcomeOf[t] = "completion" /\ ~todo[d].gated /\ Go(c, write("commit", "done"))
    BY <1>6, <2>1 DEF WritebackLoad, TypeOK, TodoRow
  <2>4. UNCHANGED <<todo, gate, delivery, held, retired, approved, done>>
    BY <1>6 DEF WritebackLoad
  <2>5. /\ todo[d].state = "none" => ~todo[d].gated
        /\ todo[d].state = "done" => Spendable(d) /\ (todo[d].gated => d \in approved)
    BY <2>1 DEF WorkInv, RowsWork, GatedWorkWasApproved
  <2>6. Spendable(d) => Spendable(d)'
    BY <2>4 DEF Spendable
  <2>7. CASE Go(c, Idle)
    BY <2>4, <2>7, WorkIdle, WorkGo
  <2>8. ASSUME NEW label \in {"gate", "commit"}, NEW state \in TodoStates,
               Go(c, write(label, state)),
               label = "gate" => OutcomeOf[t] = "completion",
               state = "none" => ~todo[d].gated,
               label = "commit" /\ state = "done" =>
                   /\ todo[d].gated => d \in approved
                   /\ Spendable(d) \/ OutcomeOf[t] = "completion"
        PROVE  WorkInv'
    <3>1. caller'[c] = write(label, state)
      BY <1>0, <2>8 DEF Go
    <3>2. /\ caller'[c].at = label /\ caller'[c].turn = t /\ caller'[c].todo = d
          /\ caller'[c].seen.gated = todo[d].gated /\ caller'[c].seen.state = state
      <4>1. row(state).gated = todo[d].gated /\ row(state).state = state
        BY <2>2, <2>8
      <4> HIDE DEF row
      <4> QED BY <3>1, <4>1
    <3>3. Copied(c)'
      BY <2>4, <2>8, <3>2 DEF Copied
    <3>4. Spendable(d) => Spendable(caller[c].todo)'
      BY <2>4, <3>2 DEF Spendable
    <3>5. CallerWork(c)'
      BY <2>1, <2>4, <2>8, <3>2, <3>3, <3>4 DEF CallerWork
    <3> HIDE DEF write
    <3> QED BY <2>4, <2>8, <3>5, WorkGo
  <2> HIDE DEF write
  <2> QED BY <2>2, <2>3, <2>5, <2>7, <2>8 DEF TodoStates
<1>7. CASE WritebackGate(c)
  <2> DEFINE d == caller[c].todo
             to == [at |-> "commit", turn |-> caller[c].turn, todo |-> d, seen |-> caller[c].seen]
  <2>1. d \in Todos /\ CallerWork(c) /\ caller[c].at = "gate"
    BY <1>7, Carried DEF WritebackGate, WorkInv, At
  <2>2. d \in approved
    BY <1>7, <2>1 DEF WritebackGate, HasApprovedGate, WorkInv, RowsWork
  <2>3. caller'[c] = to /\ UNCHANGED <<todo, held, approved>>
    BY <1>0, <1>7 DEF WritebackGate, Go
  <2>4. CallerWork(c)'
    BY <2>1, <2>2, <2>3 DEF CallerWork, Copied
  <2> QED BY <1>7, <2>4, WorkGo DEF WritebackGate
<1>8. CASE PatchGoal(c) \/ PatchGoalWrite(c) \/ Return(c)
  BY <1>0, <1>8, WorkGo DEF PatchGoal, PatchGoalWrite, Return, Go, CallerWork, Idle
<1> QED BY <1>1, <1>2, <1>3, <1>4, <1>5, <1>6, <1>7, <1>8

(* A step that changes rows and ends the call.                             *)
LEMMA WorkWrite ==
    ASSUME TypeOK, WorkInv, Lasting, RowsWork', NEW c \in Callers, Go(c, Idle)
    PROVE  WorkInv'
BY WorkIdle, WorkCallers DEF WorkInv

(* Calls that write: a claim or a completion puts back the row as it was   *)
(* read, an answer closes its gate, a successor takes an unused id.        *)
LEMMA WorkWrites ==
    ASSUME TypeOK, WorkInv, NEW c \in Callers,
           \/ ClaimWrite(c) \/ WritebackCommit(c) \/ SpendCommit(c)
           \/ UpsertGate(c) \/ SupersedeWrite(c)
    PROVE  WorkInv'
<1> USE DEF rows, history
<1>0. RowsWork /\ CallerWork(c)
  BY DEF WorkInv
<1>1. CASE ClaimWrite(c)
  <2> DEFINE d == caller[c].todo
             seen == caller[c].seen
  <2>1. d \in Todos /\ Copied(c) /\ seen.state # "done" /\ seen \in TodoRow
    BY <1>0, <1>1, Carried DEF ClaimWrite, CallerWork, At
  <2>2. /\ \A e \in Todos : todo'[e] = IF e = d THEN seen ELSE todo[e]
        /\ UNCHANGED <<gate, delivery, held, retired, approved, done>>
    BY <1>1, <2>1 DEF ClaimWrite, TypeOK
  <2>3. Lasting
    BY <2>1, <2>2 DEF Lasting, Copied, Spendable
  <2>4. RowsWork'
    BY <1>0, <2>1, <2>2 DEF RowsWork, GatedWorkWasApproved, Copied, Spendable, TypeOK
  <2> QED BY <1>1, <2>3, <2>4, WorkWrite DEF ClaimWrite
<1>2. CASE WritebackCommit(c)
  <2>0. PICK t \in Turns, d \in Todos, seen \in TodoRow :
           caller[c].turn = t /\ caller[c].todo = d /\ caller[c].seen = seen
    BY <1>2, Carried DEF WritebackCommit, At
  <2>1. /\ Copied(c) /\ d = held[t].todo
        /\ seen.state = "done" => /\ seen.gated => d \in approved
                                  /\ Spendable(d) \/ OutcomeOf[t] = "completion"
    BY <1>0, <1>2, <2>0 DEF WritebackCommit, CallerWork, At
  <2>2. /\ \A e \in Todos : todo'[e] = IF e = d THEN seen ELSE todo[e]
        /\ done' = IF seen.state = "done" THEN done \cup {d} ELSE done
        /\ UNCHANGED <<gate, held, retired, approved>>
    BY <1>2, <2>0 DEF WritebackCommit, TypeOK
  <2>3. /\ \A u \in Turns : delivery[u] # "none" => delivery'[u] = delivery[u]
        /\ OutcomeOf[t] = "completion" => delivery'[t] # "none"
    BY <1>2, <2>0 DEF WritebackCommit, Accountable, TypeOK
  <2>4. \A e \in Todos : Spendable(e) => Spendable(e)'
    BY <2>2, <2>3 DEF Spendable
  <2>5. Lasting
    BY <2>0, <2>1, <2>2, <2>4 DEF Lasting, Copied
  <2>6. OutcomeOf[t] = "completion" => Spendable(d)'
    BY <2>1, <2>2, <2>3 DEF Spendable
  <2>7. \A e \in Todos : todo'[e].state = "done" => e \in done' /\ Spendable(e)'
    BY <1>0, <2>1, <2>2, <2>4, <2>6 DEF RowsWork
  <2>8. GatedWorkWasApproved'
    BY <1>0, <2>0, <2>1, <2>2, <2>5 DEF RowsWork, GatedWorkWasApproved, Copied, TypeOK
  <2>9. RowsWork'
    BY <1>0, <2>0, <2>1, <2>2, <2>7, <2>8 DEF RowsWork, Copied
  <2> QED BY <1>2, <2>5, <2>9, WorkWrite DEF WritebackCommit
<1>3. CASE SpendCommit(c)
  <2> DEFINE t == caller[c].turn
  <2>1. t \in Turns
    BY <1>3, Carried DEF SpendCommit
  <2>2. /\ \A u \in Turns : delivery[u] # "none" => delivery'[u] # "none"
        /\ UNCHANGED <<todo, gate, held, retired, approved, done>>
    BY <1>3, <2>1 DEF SpendCommit, MarkSpent, TypeOK
  <2>3. Lasting
    BY <2>2 DEF Lasting, Spendable
  <2>4. RowsWork'
    BY <1>0, <2>2, <2>3 DEF RowsWork, GatedWorkWasApproved, Lasting
  <2> QED BY <1>3, <2>3, <2>4, WorkWrite DEF SpendCommit
<1>4. CASE UpsertGate(c)
  <2> DEFINE d == caller[c].todo
  <2>1. d \in Todos
    BY <1>4, Carried DEF UpsertGate
  <2>2. /\ UNCHANGED <<todo, delivery, held, retired, done>> /\ approved \subseteq approved'
        /\ \A e \in Todos : gate'[e] = "approved" => gate[e] = "approved" \/ e \in approved'
    BY <1>4, <2>1 DEF UpsertGate, TypeOK
  <2>3. Lasting
    BY <2>2 DEF Lasting, Spendable
  <2>4. RowsWork'
    BY <1>0, <2>2, <2>3 DEF RowsWork, GatedWorkWasApproved, Lasting
  <2> QED BY <1>4, <2>3, <2>4, WorkWrite DEF UpsertGate
<1>5. CASE SupersedeWrite(c)
  <2> DEFINE d == caller[c].todo
             seen == caller[c].seen
  <2>1. d \in Todos /\ Copied(c) /\ seen \in TodoRow
    BY <1>0, <1>5, Carried DEF SupersedeWrite, CallerWork, At
  <2>2. PICK n \in Todos :
           /\ todo[n].state = "none"
           /\ todo' = [todo EXCEPT
                         ![n] = [state |-> "open", by |-> [seen EXCEPT !.state = "deferred", !.next = n].by,
                                 gated |-> FALSE, next |-> None],
                         ![d] = [seen EXCEPT !.state = "deferred", !.next = n]]
    BY <1>5 DEF SupersedeWrite
  <2>3. UNCHANGED <<gate, delivery, held, retired, approved, done>>
    BY <1>5 DEF SupersedeWrite
  <2>4. [seen EXCEPT !.state = "deferred", !.next = n].gated = seen.gated
        /\ [seen EXCEPT !.state = "deferred", !.next = n].state = "deferred"
    BY <2>1 DEF TodoRow
  <2>5. ~todo[n].gated
    BY <1>0, <2>2 DEF RowsWork
  <2>6. \A e \in Todos :
           /\ todo'[e].gated = todo[e].gated
           /\ todo'[e] = todo[e] \/ todo'[e].state \in {"open", "deferred"}
    <3>1. todo'[d] = [seen EXCEPT !.state = "deferred", !.next = n]
          /\ todo'[d].gated = seen.gated /\ todo'[d].state = "deferred"
      BY <2>1, <2>2, <2>4 DEF TypeOK
    <3>2. n # d => todo'[n].gated = FALSE /\ todo'[n].state = "open"
      BY <2>2 DEF TypeOK
    <3>3. \A e \in Todos \ {d, n} : todo'[e] = todo[e]
      BY <2>2 DEF TypeOK
    <3>4. todo[n].gated = FALSE
      BY <2>5 DEF TypeOK, TodoRow
    <3>5. todo'[d].gated = todo[d].gated
      BY <2>1, <3>1 DEF Copied
    <3> QED BY <3>1, <3>2, <3>3, <3>4, <3>5
  <2>7. Lasting
    BY <2>3, <2>6 DEF Lasting, Spendable
  <2>8. RowsWork'
    BY <1>0, <2>3, <2>6, <2>7 DEF RowsWork, GatedWorkWasApproved, Lasting, TypeOK
  <2> QED BY <1>5, <2>7, <2>8, WorkWrite DEF SupersedeWrite
<1> QED BY <1>1, <1>2, <1>3, <1>4, <1>5

(* A turn's first answer, vetoes, the window, and the reaper, which takes  *)
(* a delivery only to remember that it has been there.                     *)
LEMMA WorkOther ==
    ASSUME TypeOK, WorkInv,
           \/ Slide \/ UNCHANGED vars \/ \E t \in Turns : Reap(t)
           \/ \E c \in Callers : Mint(c) \/ SetVeto(c)
    PROVE  WorkInv'
<1> USE DEF rows, history
<1>1. CASE Slide \/ UNCHANGED vars \/ \E c \in Callers : SetVeto(c)
  <2>1. UNCHANGED <<todo, gate, delivery, held, retired, approved, done, caller>>
    BY <1>1 DEF Slide, vars, SetVeto
  <2> QED BY <2>1 DEF WorkInv, RowsWork, GatedWorkWasApproved, CallerWork, Copied, Spendable
<1>2. ASSUME NEW t \in Turns, Reap(t) PROVE WorkInv'
  <2>1. /\ UNCHANGED <<todo, gate, held, approved, done, caller>>
        /\ retired' = retired \cup {t}
        /\ \A u \in Turns : delivery'[u] = delivery[u] \/ u = t
    BY <1>2 DEF Reap, TypeOK
  <2>2. \A d : Spendable(d) => Spendable(d)'
    BY <2>1 DEF Spendable
  <2>3. RowsWork'
    BY <2>1, <2>2 DEF WorkInv, RowsWork, GatedWorkWasApproved
  <2>4. ASSUME NEW c \in Callers PROVE CallerWork(c)'
    <3>1. Spendable(caller[c].todo) => Spendable(caller[c].todo)'
      BY <2>1 DEF Spendable
    <3>2. CallerWork(c)
      BY DEF WorkInv
    <3> QED BY <2>1, <3>1, <3>2 DEF CallerWork, Copied
  <2> QED BY <2>3, <2>4 DEF WorkInv
<1>3. ASSUME NEW c \in Callers, Mint(c) PROVE WorkInv'
  <2> DEFINE r == [at |-> "claim", turn |-> caller[c].turn, todo |-> caller[c].todo]
  <2>1. /\ UNCHANGED <<todo, gate, delivery, retired, approved, done>> /\ Go(c, r)
        /\ \A u \in Turns : held[u] # Nothing => held'[u] = held[u]
    BY <1>3 DEF Mint, TypeOK
  <2>2. \A d \in Todos : Spendable(d) => Spendable(d)'
    <3>1. \A u \in Turns, d \in Todos : held[u].todo = d => held'[u] = held[u]
      BY <2>1 DEF Nothing
    <3> QED BY <2>1, <3>1 DEF Spendable
  <2>3. Lasting
    BY <2>1, <2>2 DEF Lasting
  <2>4. RowsWork'
    BY <2>1, <2>2 DEF WorkInv, RowsWork, GatedWorkWasApproved
  <2>5. caller'[c] = r
    BY <2>1 DEF Go, TypeOK
  <2>6. CallerWork(c)'
    BY <2>5 DEF CallerWork
  <2> QED BY <2>1, <2>3, <2>4, <2>6, WorkCallers DEF WorkInv
<1> QED BY <1>1, <1>2, <1>3

(* kernel.go 699-705: a todo at a gated stage is completed only            *)
(* after its gate was approved, however gates and writebacks interleave.   *)
THEOREM GatedWorkIsApproved == Spec => []GatedWorkWasApproved
<1>1. TypeOK /\ WorkInv /\ [Next]_vars => WorkInv'
  BY WorkReads, WorkWrites, WorkOther DEF Next, Step
<1>2. WorkInv => GatedWorkWasApproved
  BY DEF WorkInv, RowsWork
<1> QED BY TypeCorrect, WorkInit, <1>1, <1>2, PTL DEF Spec

(* kernel.go 708-760: done work has a delivery to be charged, or had one,  *)
(* although any call may fail or crash between any two of its statements.  *)
THEOREM DoneWorkCanBeCharged == Spec => []DoneWorkIsSpendable
<1>1. TypeOK /\ WorkInv /\ [Next]_vars => WorkInv'
  BY WorkReads, WorkWrites, WorkOther DEF Next, Step
<1>2. WorkInv => DoneWorkIsSpendable
  BY DEF WorkInv, RowsWork, Spendable, DoneWorkIsSpendable
<1> QED BY TypeCorrect, WorkInit, <1>1, <1>2, PTL DEF Spec
=============================================================================
