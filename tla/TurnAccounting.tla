--------------------------- MODULE TurnAccounting ---------------------------
(***************************************************************************)
(* The turn protocol of the control plane (src/controlplane, SQL kernel):  *)
(* Tick asks whether a turn may run and mints its ticket, Writeback turns  *)
(* the finished work into durable todo state and a pending delivery, and   *)
(* SpendSlot charges that delivery against the goal's rolling quota.       *)
(* Operators open and resolve gates, record and revoke vetoes, pause and   *)
(* complete the goal, supersede todos and reap old rows meanwhile.         *)
(*                                                                         *)
(* One goal.  A caller is one goroutine of one gateway process running one *)
(* kernel operation; two callers may serve retries of the same turn.  A    *)
(* statement, or a body handed to runTx, is one step; between two of them  *)
(* every other caller may run, and the caller may fail or crash (Return).  *)
(***************************************************************************)
EXTENDS Naturals, FiniteSets

CONSTANTS
    Callers,        \* goroutines serving kernel operations
    Turns,          \* turn ids of the agent runtimes
    Todos,          \* ids a todo of the goal may have
    First,          \* the todo the goal starts with
    Agents,         \* agent ids
    AgentOf,        \* [Turns -> Agents]
    OutcomeOf,      \* [Turns -> {"completion", "progress", "failed"}]
    Registered,     \* Goal.RegisteredAgents; {} admits everybody
    Allowed,        \* Quota.AllowedSlots() of the goal, positive
    None,           \* no todo, no agent
    MaxOps,         \* bound: operator calls in one behaviour
    MaxMints        \* bound: tickets ever minted

ASSUME TurnAssumption ==
    /\ First \in Todos
    /\ AgentOf \in [Turns -> Agents]
    /\ OutcomeOf \in [Turns -> {"completion", "progress", "failed"}]
    /\ Registered \subseteq Agents
    /\ Allowed \in Nat \ {0}
    /\ None \notin Todos \cup Agents
    /\ MaxOps \in Nat /\ MaxMints \in Nat

VARIABLES
    enforced,       \* WithTicketEnforcement, fixed when the kernel is built
    goal,           \* [state, current]: the cp_goals row
    todo,           \* todo[d]: the cp_todos row, state "none" before it exists
    gate,           \* gate[d]: the one user gate that may cover todo d
    veto,           \* an active hard_policy reward record
    ticket,         \* ticket[t] = [token, consumed]; token 0 is no row
    delivery,       \* delivery[t]: no row, pending or spent
    recent,         \* spend rows inside the rolling window
    held,           \* held[t] = [token, todo]: what Tick answered the runtime
    caller,         \* what each goroutine is doing, with what it has read
    retired,        \* turns whose rows the reaper has touched; their runtimes are gone
    minted,         \* tokens handed out so far
    ops,            \* operator calls so far
    charges,        \* history: spend rows ever appended for each turn
    approved,       \* history: gates that were ever resolved with approve
    done            \* history: todos that were ever committed as done

rows == <<goal, todo, gate, veto, ticket, delivery, recent>>
history == <<charges, approved, done>>
vars == <<enforced, rows, held, caller, retired, minted, ops, history>>

Idle == [at |-> "idle"]
NoTicket == [token |-> 0, consumed |-> FALSE]
Nothing == [token |-> 0, todo |-> None]

Init ==
    /\ enforced \in BOOLEAN
    /\ goal = [state |-> "active", current |-> First]
    /\ \E gated \in BOOLEAN :
          todo = [d \in Todos |->
                    [state |-> IF d = First THEN "open" ELSE "none",
                     by |-> None, gated |-> d = First /\ gated, next |-> None]]
    /\ gate = [d \in Todos |-> "none"]
    /\ veto = FALSE
    /\ ticket = [t \in Turns |-> NoTicket]
    /\ delivery = [t \in Turns |-> "none"]
    /\ recent = 0
    /\ held = [t \in Turns |-> Nothing]
    /\ caller = [c \in Callers |-> Idle]
    /\ retired = {} /\ minted = 0 /\ ops = 0
    /\ charges = [t \in Turns |-> 0]
    /\ approved = {} /\ done = {}

-----------------------------------------------------------------------------
(* Helpers.                                                                *)

At(c, label) == caller[c].at = label

Go(c, record) == caller' = [caller EXCEPT ![c] = record]

\* The operation is about a turn.
OnTurn(c) == caller[c].at \in {"mint", "claim", "load", "gate", "commit", "spend"}

\* shouldRun: the first check that refuses wins, the quota is applied last.
Eligible(agent) ==
    /\ goal.state \in {"active", "paused"}
    /\ Registered = {} \/ agent \in Registered
    /\ goal.state # "paused"
    /\ \A d \in Todos : gate[d] # "open"
    /\ ~veto
    /\ recent < Allowed

\* Mutant: the ticket is trusted, nothing is looked at again.
StillEligibleTrusted == TRUE

\* The probe inside SpendSlot's transaction passes no agent id.
StillEligible == Eligible(None)

LegalGoalTransition(from, to) ==
    \/ to = from
    \/ from = "active" /\ to \in {"paused", "completed"}
    \/ from = "paused" /\ to = "active"

LegalTodoTransition(from, to) == to = from \/ from = "open"

\* Mutant: no gate counts as approval.
HasApprovedGateOrNone(d) == gate[d] # "open"

HasApprovedGate(d) == gate[d] = "approved"

-----------------------------------------------------------------------------
(* Tick: decide, mint the ticket, claim the current todo.                  *)

\* Rows the decision finds closed answer ShouldRun=false and change nothing.
Tick(c, t) ==
    /\ At(c, "idle") /\ t \notin retired
    /\ Eligible(AgentOf[t])
    /\ Go(c, [at |-> "mint", turn |-> t, todo |-> goal.current])
    /\ UNCHANGED <<enforced, rows, held, retired, minted, ops, history>>

\* INSERT ... ON CONFLICT DO NOTHING, then the stored token is read back.
\* A runtime works on the first answer it gets for a turn.
Mint(c) ==
    /\ At(c, "mint")
    /\ LET t == caller[c].turn IN
       /\ IF ticket[t].token = 0
          THEN /\ minted < MaxMints
               /\ minted' = minted + 1
               /\ ticket' = [ticket EXCEPT ![t] = [token |-> minted', consumed |-> FALSE]]
          ELSE UNCHANGED <<minted, ticket>>
       /\ held' = IF held[t] # Nothing THEN held
                  ELSE [held EXCEPT ![t] = [token |-> ticket'[t].token, todo |-> caller[c].todo]]
       /\ Go(c, [at |-> "claim", turn |-> t, todo |-> caller[c].todo])
    /\ UNCHANGED <<enforced, goal, todo, gate, veto, delivery, recent, retired, ops, history>>

ClaimRead(c) ==
    /\ At(c, "claim")
    /\ LET d == caller[c].todo
           agent == AgentOf[caller[c].turn] IN
       IF todo[d].state = "open" /\ todo[d].by \in {None, agent}
       THEN Go(c, [at |-> "claimed", todo |-> d, seen |-> [todo[d] EXCEPT !.by = agent]])
       ELSE Go(c, Idle)
    /\ UNCHANGED <<enforced, rows, held, retired, minted, ops, history>>

\* The row is upserted as it was read, without a compare-and-set.
ClaimWrite(c) ==
    /\ At(c, "claimed")
    /\ todo' = [todo EXCEPT ![caller[c].todo] = caller[c].seen]
    /\ Go(c, Idle)
    /\ UNCHANGED <<enforced, goal, gate, veto, ticket, delivery, recent, held, retired, minted, ops, history>>

-----------------------------------------------------------------------------
(* Writeback: dedup, read and check the todo, check the lane gate, commit. *)

\* Mutant: only progress leaves something to charge.
AccountableProgress(t) == OutcomeOf[t] = "progress"

Accountable(t) == OutcomeOf[t] \in {"completion", "progress"}

\* A recorded delivery answers the retry at once, without a change.
Writeback(c, t) ==
    /\ At(c, "idle") /\ held[t] # Nothing /\ t \notin retired
    /\ Accountable(t) => delivery[t] = "none"
    /\ Go(c, [at |-> "load", turn |-> t, todo |-> held[t].todo])
    /\ UNCHANGED <<enforced, rows, held, retired, minted, ops, history>>

WritebackLoad(c) ==
    /\ At(c, "load")
    /\ LET t == caller[c].turn
           row == todo[caller[c].todo]
           write(label, state) == [at |-> label, turn |-> t, todo |-> caller[c].todo,
                                   seen |-> [row EXCEPT !.state = state]] IN
       Go(c, CASE row.by \notin {None, AgentOf[t]} -> Idle
               [] OutcomeOf[t] # "completion" -> write("commit", row.state)
               [] ~LegalTodoTransition(row.state, "done") -> Idle
               [] OTHER -> write(IF row.gated THEN "gate" ELSE "commit", "done"))
    /\ UNCHANGED <<enforced, rows, held, retired, minted, ops, history>>

\* A gated lane stage needs an approved gate and no open one.
WritebackGate(c) ==
    /\ At(c, "gate") /\ HasApprovedGate(caller[c].todo)
    /\ Go(c, [at |-> "commit", turn |-> caller[c].turn, todo |-> caller[c].todo,
              seen |-> caller[c].seen])
    /\ UNCHANGED <<enforced, rows, held, retired, minted, ops, history>>

\* The transaction: the todo as it was read, and the delivery if there is none.
WritebackCommit(c) ==
    /\ At(c, "commit")
    /\ LET t == caller[c].turn
           d == caller[c].todo IN
       /\ todo' = [todo EXCEPT ![d] = caller[c].seen]
       /\ delivery' = IF Accountable(t) /\ delivery[t] = "none"
                      THEN [delivery EXCEPT ![t] = "pending"] ELSE delivery
       /\ done' = IF caller[c].seen.state = "done" THEN done \cup {d} ELSE done
    /\ Go(c, Idle)
    /\ UNCHANGED <<enforced, goal, gate, veto, ticket, recent, held, retired, minted, ops,
                   charges, approved>>

-----------------------------------------------------------------------------
(* SpendSlot: load the delivery, then charge it in one transaction.        *)

Spend(c, t) ==
    /\ At(c, "idle") /\ held[t] # Nothing /\ t \notin retired
    /\ delivery[t] = "pending"
    /\ Go(c, [at |-> "spend", turn |-> t, token |-> held[t].token])
    /\ UNCHANGED <<enforced, rows, held, retired, minted, ops, history>>

\* Mutant: the ticket is compared and left as it is.
ConsumeCompared(c, t) ==
    /\ enforced => StillEligible /\ ticket[t].token = caller[c].token
    /\ UNCHANGED ticket

\* The ticket's compare-and-set; without enforcement the ticket is not looked at.
Consume(c, t) ==
    IF enforced
    THEN /\ StillEligible
         /\ ticket[t] = [token |-> caller[c].token, consumed |-> FALSE]
         /\ ticket' = [ticket EXCEPT ![t].consumed = TRUE]
    ELSE UNCHANGED ticket

\* Mutant: UPDATE without AND spent = 0.
MarkSpentAgain(t) == delivery' = [delivery EXCEPT ![t] = "spent"]

MarkSpent(t) ==
    /\ delivery[t] = "pending"
    /\ delivery' = [delivery EXCEPT ![t] = "spent"]

SpendCommit(c) ==
    /\ At(c, "spend")
    /\ LET t == caller[c].turn IN
       /\ Consume(c, t)
       /\ MarkSpent(t)
       /\ recent' = recent + 1
       /\ charges' = [charges EXCEPT ![t] = @ + 1]
    /\ Go(c, Idle)
    /\ UNCHANGED <<enforced, goal, todo, gate, veto, held, retired, minted, ops, approved, done>>

\* A spend row leaves the rolling window.
Slide ==
    /\ recent > 0 /\ recent' = recent - 1
    /\ UNCHANGED <<enforced, goal, todo, gate, veto, ticket, delivery, held, caller, retired,
                   minted, ops, history>>

-----------------------------------------------------------------------------
(* Operators.  Each call reads a row, checks it and upserts it later.      *)

Operator(c) == At(c, "idle") /\ ops < MaxOps /\ ops' = ops + 1

PatchGoal(c) ==
    /\ Operator(c)
    /\ \E s \in {"active", "paused", "completed"} :
          /\ LegalGoalTransition(goal.state, s)
          /\ Go(c, [at |-> "patch", seen |-> [goal EXCEPT !.state = s]])
    /\ UNCHANGED <<enforced, rows, held, retired, minted, history>>

PatchGoalWrite(c) ==
    /\ At(c, "patch")
    /\ goal' = caller[c].seen
    /\ Go(c, Idle)
    /\ UNCHANGED <<enforced, todo, gate, veto, ticket, delivery, recent, held, retired, minted,
                   ops, history>>

OpenGate(c, d) ==
    /\ Operator(c) /\ todo[d].state # "none"
    /\ gate[d] \in {"none", "open"}
    /\ Go(c, [at |-> "upsertGate", todo |-> d, outcome |-> "open"])
    /\ UNCHANGED <<enforced, rows, held, retired, minted, history>>

ResolveGate(c, d) ==
    /\ Operator(c) /\ gate[d] = "open"
    /\ \E outcome \in {"approved", "rejected"} :
          Go(c, [at |-> "upsertGate", todo |-> d, outcome |-> outcome])
    /\ UNCHANGED <<enforced, rows, held, retired, minted, history>>

UpsertGate(c) ==
    /\ At(c, "upsertGate")
    /\ LET d == caller[c].todo IN
       /\ gate' = [gate EXCEPT ![d] = caller[c].outcome]
       /\ approved' = IF gate'[d] = "approved" THEN approved \cup {d} ELSE approved
    /\ Go(c, Idle)
    /\ UNCHANGED <<enforced, goal, todo, veto, ticket, delivery, recent, held, retired, minted,
                   ops, charges, done>>

\* RecordReward of a hard_policy, RevokeReward of it.
SetVeto(c) ==
    /\ Operator(c) /\ veto' = ~veto
    /\ UNCHANGED <<enforced, goal, todo, gate, ticket, delivery, recent, held, caller, retired,
                   minted, history>>

Supersede(c, d) ==
    /\ Operator(c)
    /\ todo[d].next = None /\ LegalTodoTransition(todo[d].state, "deferred")
    /\ Go(c, [at |-> "supersede", todo |-> d, seen |-> todo[d]])
    /\ UNCHANGED <<enforced, rows, held, retired, minted, history>>

\* One transaction: the successor, the link from the old todo, the goal.
\* The successor keeps the claim; its lane stage is not copied.
SupersedeWrite(c) ==
    /\ At(c, "supersede")
    /\ \E n \in Todos :
          LET d == caller[c].todo
              old == [caller[c].seen EXCEPT !.state = "deferred", !.next = n]
              successor == [state |-> "open", by |-> old.by, gated |-> FALSE, next |-> None] IN
          /\ todo[n].state = "none"
          /\ todo' = [todo EXCEPT ![n] = successor, ![d] = old]
          /\ goal' = IF goal.current = d THEN [goal EXCEPT !.current = n] ELSE goal
    /\ Go(c, Idle)
    /\ UNCHANGED <<enforced, gate, veto, ticket, delivery, recent, held, retired, minted, ops,
                   history>>

\* ReapAll, one row at a time: consumed tickets, abandoned tickets, spent
\* deliveries.  The ages it is called with are longer than any turn lasts.
Reap(t) ==
    /\ \A c \in Callers : OnTurn(c) => caller[c].turn # t
    /\ \/ /\ ticket[t].token # 0
          /\ ticket' = [ticket EXCEPT ![t] = NoTicket]
          /\ UNCHANGED delivery
       \/ /\ delivery[t] = "spent"
          /\ delivery' = [delivery EXCEPT ![t] = "none"]
          /\ UNCHANGED ticket
    /\ retired' = retired \cup {t}
    /\ UNCHANGED <<enforced, goal, todo, gate, veto, recent, held, caller, minted, ops, history>>

\* A check that fails, a store error, a rolled back transaction, a crash.
Return(c) ==
    /\ ~At(c, "idle") /\ Go(c, Idle)
    /\ UNCHANGED <<enforced, rows, held, retired, minted, ops, history>>

-----------------------------------------------------------------------------

Step(c) ==
    \/ \E t \in Turns : Tick(c, t) \/ Writeback(c, t) \/ Spend(c, t)
    \/ Mint(c) \/ ClaimRead(c) \/ ClaimWrite(c)
    \/ WritebackLoad(c) \/ WritebackGate(c) \/ WritebackCommit(c)
    \/ SpendCommit(c)
    \/ \E d \in Todos : OpenGate(c, d) \/ ResolveGate(c, d) \/ Supersede(c, d)
    \/ PatchGoal(c) \/ PatchGoalWrite(c) \/ UpsertGate(c) \/ SetVeto(c) \/ SupersedeWrite(c)
    \/ Return(c)

Next == Slide \/ (\E t \in Turns : Reap(t)) \/ (\E c \in Callers : Step(c))

Spec == Init /\ [][Next]_vars

-----------------------------------------------------------------------------
(* Properties.                                                             *)

TodoRow == [state : {"none", "open", "done", "deferred"}, by : Agents \cup {None},
            gated : BOOLEAN, next : Todos \cup {None}]
GoalRow == [state : {"active", "paused", "completed"}, current : Todos]
TicketRow == [token : 0..MaxMints, consumed : BOOLEAN]
CallerState ==
    {Idle}
    \cup [at : {"mint", "claim", "load"}, turn : Turns, todo : Todos]
    \cup [at : {"claimed", "supersede"}, todo : Todos, seen : TodoRow]
    \cup [at : {"gate", "commit"}, turn : Turns, todo : Todos, seen : TodoRow]
    \cup [at : {"spend"}, turn : Turns, token : 1..MaxMints]
    \cup [at : {"patch"}, seen : GoalRow]
    \cup [at : {"upsertGate"}, todo : Todos, outcome : {"open", "approved", "rejected"}]

\* The rows, the answers and what each goroutine carries have the shapes of
\* the cp_* tables and of the kernel's locals (sqlstore.go, kernel.go).
TypeOK ==
    /\ enforced \in BOOLEAN /\ veto \in BOOLEAN
    /\ goal \in GoalRow
    /\ todo \in [Todos -> TodoRow]
    /\ gate \in [Todos -> {"none", "open", "approved", "rejected"}]
    /\ ticket \in [Turns -> TicketRow]
    /\ delivery \in [Turns -> {"none", "pending", "spent"}]
    /\ recent \in Nat
    /\ held \in [Turns -> {Nothing} \cup [token : 1..MaxMints, todo : Todos]]
    /\ caller \in [Callers -> CallerState]
    /\ retired \subseteq Turns /\ minted \in 0..MaxMints /\ ops \in 0..MaxOps
    /\ charges \in [Turns -> Nat] /\ approved \subseteq Todos /\ done \subseteq Todos

\* A turn is charged at most once, however often its writeback and its spend
\* are retried, in however many processes, with enforcement on or off
\* (kernel.go SpendSlot, delivery.go MarkSpent).
ChargedOnce == \A t \in Turns : charges[t] <= 1

\* A charge is whole: the delivery is marked, the spend row is there and, under
\* enforcement, the ticket is used up, or none of the three happened; reaping
\* only ever forgets what was charged (kernel.go SpendSlot's transaction).
ChargeIsWhole ==
    \A t \in Turns :
        /\ delivery[t] = "spent" => charges[t] = 1
        /\ charges[t] = 1 => delivery[t] = "spent" \/ t \in retired
        /\ ticket[t].consumed => charges[t] = 1
        /\ enforced /\ charges[t] = 1 => ticket[t].consumed \/ t \in retired

\* Under enforcement the rolling window never holds more spends than the quota
\* allows, although the turns were admitted, worked on and delivered before
\* the others were charged (kernel.go SpendSlot's second look at shouldRun).
QuotaKept == enforced => recent <= Allowed

\* A todo at a gated stage of the lane was never completed unless somebody had
\* approved its gate, whatever gates and writebacks interleave
\* (kernel.go hasApprovedGate).
GatedWorkWasApproved == \A d \in done : todo[d].gated => d \in approved

\* A todo that is done has the delivery of a completed turn to be charged, or it
\* was charged and reaped: no crash leaves done work that cannot be spent
\* (kernel.go Writeback's transaction).
DoneWorkIsSpendable ==
    \A d \in Todos : todo[d].state = "done" =>
        \E t \in Turns : /\ OutcomeOf[t] = "completion" /\ held[t].todo = d
                         /\ delivery[t] # "none" \/ t \in retired

\* kernel.go, delivery.go: the deliveries and charges of the turns, and the
\* quota's window, are the accounts of an abstract ledger: an owed turn is never
\* forgotten, not even by the reaper, and a charge is never repeated or undone.
Account(t) == IF charges[t] # 0 THEN "charged"
              ELSE IF delivery[t] = "none" THEN "open" ELSE "owed"
Accounts == [t \in Turns |-> Account(t)]
Ledger == INSTANCE TurnLedger WITH account <- Accounts, window <- recent
ImplementsLedger == Ledger!Spec

\* todo.go:42: "Terminal states (done/deferred) freeze."  A caller that read the
\* row while it was open upserts it later.
DoneIsFinal == \A d \in done : todo[d].state = "done"

\* kanban.go:80: the successor is created "inheriting the lane context".
LaneIsInherited ==
    \A d \in Todos : todo[d].gated /\ todo[d].next # None => todo[todo[d].next].gated
=============================================================================
