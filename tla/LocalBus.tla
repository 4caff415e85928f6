----------------------------- MODULE LocalBus -----------------------------
(***************************************************************************)
(* The in-process bus (src/messagebus/bus.go, coord.go): subscriptions,    *)
(* the named lock with a time-to-live, the FIFO queue with a blocking pop, *)
(* and the event log with its readers and the session coordinators that    *)
(* append to it and trim it (src/gateway/session_coord.go).  All four      *)
(* share one mutex and one closed flag; beyond that they touch disjoint    *)
(* state, so a behaviour drives one of them (workload).                    *)
(*                                                                         *)
(* A worker is a goroutine.  What runs under b.mu is one step; the channel *)
(* operations outside it (the lock's slot, the queue's notify token) and   *)
(* the queue's own mutex give steps of their own.                          *)
(***************************************************************************)
EXTENDS Naturals, Sequences, FiniteSets, Functions

CONSTANTS
    Workers,        \* goroutines
    Consumers,      \* the workers that pop in a loop, or read the log; the
                    \* others push, or append
    Topics,         \* channel names
    Values,         \* payloads, each pushed once
    Cap,            \* defaultSubscriberBuffer
    MaxPublishes,   \* bound: messages published in one behaviour
    MaxLocks,       \* bound: locks taken in one behaviour
    Retention,      \* the coordinators' retentionLimit
    Page,           \* entries that one LogRead asks for
    MaxEntries,     \* bound: entries appended in one behaviour
    Overrun,        \* a holder may outlive its ttl
    CloseEarly      \* Close may come before the subscriptions are cancelled

ASSUME LocalBusAssumption ==
    /\ Consumers \subseteq Workers /\ IsFiniteSet(Workers) /\ IsFiniteSet(Topics)
    /\ Cap \in Nat \ {0} /\ MaxPublishes \in Nat /\ MaxLocks \in Nat
    /\ Retention \in Nat \ {0} /\ Page \in Nat \ {0} /\ MaxEntries \in Nat
    /\ Overrun \in BOOLEAN /\ CloseEarly \in BOOLEAN /\ 0 \notin Values

VARIABLES
    workload,       \* which primitive this behaviour drives
    closed,         \* b.closed
    sub,            \* sub[w]: the subscription of worker w
    chan,           \* chan[w] = [buf, closes, once]: its channel, how often that was
                    \* closed, and whether its Cancel has run
    sent,           \* messages published so far
    slot,           \* the lock's one-slot channel is full
    hold,           \* hold[w]: what w does with the lock
    locks,          \* locks taken so far
    current,        \* the queue object the map holds, 0 before there is one
    queue,          \* queue[i] = [items, token]
    at,             \* at[w] = [pc, q, v]: where w is in QueuePush or QueuePop
    appended, taken,\* history: values in the order pushed, in the order popped
    log,            \* the log's entries, numbered as they were appended
    logged,         \* entries appended so far
    trimming,       \* workers between their append and its trim
    cursor,         \* cursor[w]: the index reader w goes on from
    last            \* history: last[w] is the last entry w read

subVars == <<sub, chan, sent>>
lockVars == <<slot, hold, locks>>
queueVars == <<current, queue, at, appended, taken>>
logVars == <<log, logged, trimming, cursor, last>>
vars == <<workload, closed, subVars, lockVars, queueVars, logVars>>

\* Two poppers may both find the map empty: each builds a queue object.
Objects == 1..Cardinality(Workers)
FreshQueue == [items |-> <<>>, token |-> FALSE]
Nowhere == [pc |-> "out", q |-> 0, v |-> 0]

Init ==
    /\ workload \in {"pubsub", "lock", "queue", "log"}
    /\ closed = FALSE
    /\ sub = [w \in Workers |-> {}]
    /\ chan = [w \in Workers |-> [buf |-> <<>>, closes |-> 0, once |-> FALSE]]
    /\ sent = 0
    /\ slot = FALSE /\ locks = 0
    /\ hold = [w \in Workers |-> [pc |-> "idle", timer |-> "none"]]
    /\ current = 0
    /\ queue = [i \in Objects |-> FreshQueue]
    /\ at = [w \in Workers |-> Nowhere]
    /\ appended = <<>> /\ taken = <<>>
    /\ log = <<>> /\ logged = 0 /\ trimming = {}
    /\ cursor = [w \in Workers |-> 0] /\ last = [w \in Workers |-> 0]

-----------------------------------------------------------------------------
(* Publish and subscribe.                                                  *)

\* One call may name several topics; the one channel is filed under each.
Subscribe(w, topics) ==
    /\ workload = "pubsub" /\ ~closed
    /\ sub[w] = {} /\ chan[w].closes = 0
    /\ sub' = [sub EXCEPT ![w] = topics]
    /\ UNCHANGED <<workload, closed, chan, sent, lockVars, queueVars, logVars>>

\* Never blocks: a subscriber whose buffer is full misses the message.
Publish(topic) ==
    /\ workload = "pubsub" /\ ~closed /\ sent < MaxPublishes
    /\ sent' = sent + 1
    /\ chan' = [w \in Workers |->
                  IF topic \in sub[w] /\ Len(chan[w].buf) < Cap
                  THEN [chan[w] EXCEPT !.buf = Append(@, sent')] ELSE chan[w]]
    /\ UNCHANGED <<workload, closed, sub, lockVars, queueVars, logVars>>

Receive(w) ==
    /\ workload = "pubsub" /\ chan[w].buf # <<>>
    /\ chan' = [chan EXCEPT ![w].buf = Tail(@)]
    /\ UNCHANGED <<workload, closed, sub, sent, lockVars, queueVars, logVars>>

\* Mutant: the channel is closed and stays filed under its topics.
UnsubscribeFiled(w) ==
    /\ workload = "pubsub" /\ sub[w] # {} /\ ~chan[w].once
    /\ chan' = [chan EXCEPT ![w].once = TRUE, ![w].closes = @ + 1]
    /\ UNCHANGED <<workload, closed, sub, sent, lockVars, queueVars, logVars>>

\* The Cancel of a subscription: once, whether or not the bus is closed by now.
Unsubscribe(w) ==
    /\ workload = "pubsub" /\ sub[w] # {} /\ ~chan[w].once
    /\ sub' = [sub EXCEPT ![w] = {}]
    /\ chan' = [chan EXCEPT ![w].once = TRUE, ![w].closes = @ + 1]
    /\ UNCHANGED <<workload, closed, sent, lockVars, queueVars, logVars>>

\* The channel is closed once for every topic it is filed under.
Close ==
    /\ ~closed
    /\ CloseEarly \/ \A w \in Workers : sub[w] = {}
    /\ closed' = TRUE
    /\ chan' = [w \in Workers |-> [chan[w] EXCEPT !.closes = @ + Cardinality(sub[w])]]
    /\ UNCHANGED <<workload, sub, sent, lockVars, queueVars, logVars>>

-----------------------------------------------------------------------------
(* The lock: a one-slot channel, a timer that empties it, a Cancel that    *)
(* empties it once.                                                        *)

\* The semaphore is looked up under b.mu; the wait for its slot is outside.
Lock(w) ==
    /\ workload = "lock" /\ ~closed /\ hold[w].pc = "idle" /\ locks < MaxLocks
    /\ locks' = locks + 1
    /\ hold' = [hold EXCEPT ![w] = [pc |-> "waiting", timer |-> "none"]]
    /\ UNCHANGED <<workload, closed, subVars, slot, queueVars, logVars>>

\* A ttl of zero arms no timer.
Acquire(w) ==
    /\ hold[w].pc = "waiting" /\ ~slot
    /\ slot' = TRUE
    /\ \E timer \in {"none", "armed"} :
          hold' = [hold EXCEPT ![w].pc = "holding", ![w].timer = timer]
    /\ UNCHANGED <<workload, closed, subVars, locks, queueVars, logVars>>

GiveUp(w) ==
    /\ hold[w].pc = "waiting"
    /\ hold' = [hold EXCEPT ![w].pc = "idle"]
    /\ UNCHANGED <<workload, closed, subVars, slot, locks, queueVars, logVars>>

\* The goroutine returns without calling its Cancel: the ttl is for this case.
Abandon(w) ==
    /\ hold[w].pc = "holding" /\ hold[w].timer = "armed"
    /\ hold' = [hold EXCEPT ![w].pc = "gone"]
    /\ UNCHANGED <<workload, closed, subVars, slot, locks, queueVars, logVars>>

\* The ttl is over.  Whoever's token is in the slot, it is taken out.
Expire(w) ==
    /\ hold[w].timer = "armed"
    /\ Overrun \/ hold[w].pc # "holding"
    /\ slot' = FALSE
    /\ hold' = [hold EXCEPT ![w].timer = "fired",
                            ![w].pc = IF @ = "gone" THEN "idle" ELSE @]
    /\ UNCHANGED <<workload, closed, subVars, locks, queueVars, logVars>>

\* Mutant: Cancel leaves the timer running.
ReleaseTicking(w) ==
    /\ hold[w].pc = "holding"
    /\ hold' = [hold EXCEPT ![w].pc = "releasing"]
    /\ UNCHANGED <<workload, closed, subVars, slot, locks, queueVars, logVars>>

\* once.Do, first half: the timer is stopped.
Release(w) ==
    /\ hold[w].pc = "holding"
    /\ hold' = [hold EXCEPT ![w].pc = "releasing",
                            ![w].timer = IF @ = "armed" THEN "stopped" ELSE @]
    /\ UNCHANGED <<workload, closed, subVars, slot, locks, queueVars, logVars>>

\* Mutant: the slot is emptied only when there was a timer to stop.
DrainStopped(w) ==
    /\ hold[w].pc = "releasing"
    /\ slot' = (slot /\ hold[w].timer # "stopped")
    /\ hold' = [hold EXCEPT ![w].pc = "released"]
    /\ UNCHANGED <<workload, closed, subVars, locks, queueVars, logVars>>

\* Second half: the slot is emptied.
Drain(w) ==
    /\ hold[w].pc = "releasing"
    /\ slot' = FALSE
    /\ hold' = [hold EXCEPT ![w].pc = "released"]
    /\ UNCHANGED <<workload, closed, subVars, locks, queueVars, logVars>>

\* The caller is done with its Cancel; calling it again meanwhile did nothing.
CancelAgain(w) ==
    /\ hold[w].pc = "released"
    /\ hold' = [hold EXCEPT ![w].pc = "idle"]
    /\ UNCHANGED <<workload, closed, subVars, slot, locks, queueVars, logVars>>

-----------------------------------------------------------------------------
(* The queue.                                                              *)

Go(w, record) == at' = [at EXCEPT ![w] = record]

\* An object nobody has got hold of.
Unused == CHOOSE i \in Objects : i # current /\ \A w \in Workers : at[w].q # i

\* QueuePush up to q.push: the queue is looked up or created under b.mu.
QueuePush(w) ==
    /\ workload = "queue" /\ ~closed /\ w \notin Consumers /\ at[w] = Nowhere
    /\ \E v \in Values :
          /\ v \notin Range(appended) /\ \A u \in Workers : at[u].v # v
          /\ current' = IF current = 0 THEN Unused ELSE current
          /\ Go(w, [pc |-> "append", q |-> current', v |-> v])
    /\ UNCHANGED <<workload, closed, subVars, lockVars, logVars, queue, appended, taken>>

AppendItem(w) ==
    /\ at[w].pc = "append"
    /\ queue' = [queue EXCEPT ![at[w].q].items = Append(@, at[w].v)]
    /\ appended' = Append(appended, at[w].v)
    /\ Go(w, [at[w] EXCEPT !.pc = "notify"])
    /\ UNCHANGED <<workload, closed, subVars, lockVars, logVars, current, taken>>

\* Mutant: the pusher of a queue that was not empty wakes nobody.
NotifyFirst(w) ==
    /\ at[w].pc = "notify"
    /\ queue' = [queue EXCEPT ![at[w].q].token = @ \/ Len(queue[at[w].q].items) = 1]
    /\ Go(w, Nowhere)
    /\ UNCHANGED <<workload, closed, subVars, lockVars, logVars, current, appended, taken>>

\* The token is dropped when one is there already.
Notify(w) ==
    /\ at[w].pc = "notify"
    /\ queue' = [queue EXCEPT ![at[w].q].token = TRUE]
    /\ Go(w, Nowhere)
    /\ UNCHANGED <<workload, closed, subVars, lockVars, logVars, current, appended, taken>>

\* QueuePop's first look at the map.
QueuePop(w) ==
    /\ workload = "queue" /\ ~closed /\ w \in Consumers /\ at[w] = Nowhere
    /\ Go(w, IF current = 0 THEN [pc |-> "create", q |-> 0, v |-> 0]
                            ELSE [pc |-> "check", q |-> current, v |-> 0])
    /\ UNCHANGED <<workload, closed, subVars, lockVars, logVars, current, queue, appended, taken>>

\* Mutant: the second look at the map is left out.
CreateBlind(w) ==
    /\ at[w].pc = "create"
    /\ IF closed
       THEN Go(w, Nowhere) /\ UNCHANGED <<current, queue>>
       ELSE /\ current' = Unused
            /\ queue' = [queue EXCEPT ![current'] = FreshQueue]
            /\ Go(w, [pc |-> "check", q |-> current', v |-> 0])
    /\ UNCHANGED <<workload, closed, subVars, lockVars, logVars, appended, taken>>

\* Under b.mu again: another goroutine may have filed a queue meanwhile.
Create(w) ==
    /\ at[w].pc = "create"
    /\ IF closed
       THEN Go(w, Nowhere) /\ UNCHANGED current
       ELSE /\ current' = IF current = 0 THEN Unused ELSE current
            /\ Go(w, [pc |-> "check", q |-> current', v |-> 0])
    /\ UNCHANGED <<workload, closed, subVars, lockVars, logVars, queue, appended, taken>>

Check(w) ==
    /\ at[w].pc = "check"
    /\ LET q == at[w].q IN
       IF queue[q].items # <<>>
       THEN /\ taken' = Append(taken, Head(queue[q].items))
            /\ queue' = [queue EXCEPT ![q].items = Tail(@)]
            /\ Go(w, Nowhere)
       ELSE /\ Go(w, [at[w] EXCEPT !.pc = "asleep"])
            /\ UNCHANGED <<queue, taken>>
    /\ UNCHANGED <<workload, closed, subVars, lockVars, logVars, current, appended>>

Wake(w) ==
    /\ at[w].pc = "asleep" /\ queue[at[w].q].token
    /\ queue' = [queue EXCEPT ![at[w].q].token = FALSE]
    /\ Go(w, [at[w] EXCEPT !.pc = "check"])
    /\ UNCHANGED <<workload, closed, subVars, lockVars, logVars, current, appended, taken>>

\* ctx.Done; Close wakes nobody.
Cancelled(w) ==
    /\ at[w].pc = "asleep"
    /\ Go(w, Nowhere)
    /\ UNCHANGED <<workload, closed, subVars, lockVars, logVars, current, queue, appended, taken>>

-----------------------------------------------------------------------------
(* The log.                                                                *)

\* Mutant: twice the limit is let in before a trim.
DueRarely(index) == index > 0 /\ index % (2 * Retention) = 0

\* appendEvent: which index of an append is followed by a trim.
Due(index) == index > 0 /\ index % Retention = 0

\* appendEvent of a coordinator whose turn goes on, or is drained.
LogAppend(w) ==
    /\ workload = "log" /\ ~closed /\ w \notin Consumers \cup trimming /\ logged < MaxEntries
    /\ logged' = logged + 1
    /\ log' = Append(log, logged')
    /\ trimming' = IF Due(Len(log)) THEN trimming \cup {w} ELSE trimming
    /\ UNCHANGED <<workload, closed, subVars, lockVars, queueVars, cursor, last>>

\* The newest entries stay; a shorter log stays as it is, and so does the log of
\* a bus that is closed by now, whose error the coordinator ignores.
LogTrim(w) ==
    /\ w \in trimming
    /\ trimming' = trimming \ {w}
    /\ log' = IF closed \/ Len(log) <= Retention THEN log
              ELSE SubSeq(log, Len(log) - Retention + 1, Len(log))
    /\ UNCHANGED <<workload, closed, subVars, lockVars, queueVars, logged, cursor, last>>

LogPurge ==
    /\ workload = "log" /\ ~closed
    /\ log' = <<>>
    /\ UNCHANGED <<workload, closed, subVars, lockVars, queueVars, logged, trimming, cursor, last>>

\* A page from the cursor on, or the refusal of a cursor beyond the end, after
\* which the reader starts over.
LogRead(w) ==
    /\ workload = "log" /\ ~closed /\ w \in Consumers /\ cursor[w] # Len(log)
    /\ LET end == IF cursor[w] + Page < Len(log) THEN cursor[w] + Page ELSE Len(log) IN
       IF cursor[w] > Len(log)
       THEN cursor' = [cursor EXCEPT ![w] = 0] /\ last' = [last EXCEPT ![w] = 0]
       ELSE cursor' = [cursor EXCEPT ![w] = end] /\ last' = [last EXCEPT ![w] = log[end]]
    /\ UNCHANGED <<workload, closed, subVars, lockVars, queueVars, log, logged, trimming>>

-----------------------------------------------------------------------------

Next ==
    \/ Close \/ LogPurge
    \/ \E topic \in Topics : Publish(topic)
    \/ \E w \in Workers :
          \/ \E topics \in SUBSET Topics : topics # {} /\ Subscribe(w, topics)
          \/ Receive(w) \/ Unsubscribe(w)
          \/ Lock(w) \/ Acquire(w) \/ GiveUp(w) \/ Abandon(w) \/ Expire(w)
          \/ Release(w) \/ Drain(w) \/ CancelAgain(w)
          \/ QueuePush(w) \/ AppendItem(w) \/ Notify(w)
          \/ QueuePop(w) \/ Create(w) \/ Check(w) \/ Wake(w) \/ Cancelled(w)
          \/ LogAppend(w) \/ LogTrim(w) \/ LogRead(w)

\* A goroutine that can run does; holders release or expire; consumers call
\* QueuePop again and again.  Nothing is assumed of GiveUp, Cancelled, Close.
Fairness ==
    \A w \in Workers :
        /\ WF_vars(Release(w)) /\ WF_vars(Drain(w)) /\ WF_vars(Expire(w))
        /\ WF_vars(AppendItem(w)) /\ WF_vars(Notify(w))
        /\ WF_vars(QueuePop(w)) /\ WF_vars(Create(w)) /\ WF_vars(Check(w)) /\ WF_vars(Wake(w))

Spec == Init /\ [][Next]_vars /\ Fairness

-----------------------------------------------------------------------------
(* Properties.                                                             *)

\* The bus's maps and the goroutines' places have their shapes (bus.go, coord.go).
TypeOK ==
    /\ workload \in {"pubsub", "lock", "queue", "log"} /\ closed \in BOOLEAN
    /\ sub \in [Workers -> SUBSET Topics]
    /\ chan \in [Workers -> [buf : Seq(1..MaxPublishes), closes : Nat, once : BOOLEAN]]
    /\ \A w \in Workers : Len(chan[w].buf) <= Cap
    /\ sent \in 0..MaxPublishes
    /\ slot \in BOOLEAN /\ locks \in 0..MaxLocks
    /\ hold \in [Workers -> [pc : {"idle", "waiting", "holding", "gone", "releasing", "released"},
                             timer : {"none", "armed", "stopped", "fired"}]]
    /\ current \in Objects \cup {0}
    /\ queue \in [Objects -> [items : Seq(Values), token : BOOLEAN]]
    /\ at \in [Workers -> [pc : {"out", "append", "notify", "create", "check", "asleep"},
                           q : Objects \cup {0}, v : Values \cup {0}]]
    /\ appended \in Seq(Values) /\ taken \in Seq(Values)
    /\ logged \in 0..MaxEntries /\ log \in Seq(1..MaxEntries) /\ trimming \subseteq Workers
    /\ cursor \in [Workers -> Nat] /\ last \in [Workers -> 0..MaxEntries]

\* No channel is closed twice and none is sent on after it was closed, both of
\* which panic in Go, as long as the subscriptions are cancelled before Close
\* (bus.go Subscribe's Cancel, Publish, Close).  With CloseEarly it does not hold,
\* although bus.go:51 calls Cancel "Safe to call multiple times" and bus.go:46 has
\* the channel "closed when cancel is invoked or the bus closes".
ChannelsAreSafe ==
    \A w \in Workers : chan[w].closes <= 1 /\ (chan[w].closes > 0 => sub[w] = {})

\* One goroutine at a time is between Lock's return and its Cancel, with Cancels
\* repeated, timers fired and waiters giving up, as long as no holder outlives its ttl: with
\* Overrun a timer, or a late Cancel, frees the lock of the next holder
\* (coord.go 149-166; lease.go 21-23 says so).
MutualExclusion ==
    \A v, w \in Workers : {hold[v].pc, hold[w].pc} \subseteq {"holding", "gone"} => v = w

\* Every value pushed is popped once, in the order of the pushes, or is in the
\* queue the map holds: two goroutines that create the queue do not lose one
\* (coord.go QueuePop's second look, pop).
Items == IF current = 0 THEN <<>> ELSE queue[current].items
FirstInFirstOut == appended = taken \o Items

\* coord.go QueuePush, QueuePop: whatever goroutines create the queue, sleep on it
\* and are woken for nothing, each call takes effect at once on one queue.
Call(w) == CASE at[w].pc = "out" -> [is |-> "idle"]
             [] at[w].pc = "append" -> [is |-> "push", v |-> at[w].v]
             [] at[w].pc = "notify" -> [is |-> "pushed"]
             [] OTHER -> [is |-> "pop"]
Calls == [w \in Workers |-> Call(w)]
OneQueue == INSTANCE FifoQueue WITH items <- Items, popped <- taken, op <- Calls
ImplementsQueue == OneQueue!Spec

\* The log never outgrows its cap by more than one cap for each coordinator that
\* has still to trim, however appends, trims and purges of several coordinators
\* interleave (session_coord.go 108-110: "never exceeds ~2x the cap").
LogIsBounded == ~closed => Len(log) <= Retention * (1 + Cardinality(trimming))

\* coord.go:55: "Trimming invalidates cursors issued before it - LogRead then
\* reports ErrLogCursorStale."  A cursor that is not beyond the trimmed log's end
\* is served, and the reader misses the entries that moved in front of it.
NoSilentGap ==
    [][\A w \in Consumers :
          cursor[w] > 0 /\ cursor'[w] > cursor[w] => log[cursor[w] + 1] = last[w] + 1]_vars

\* A lock that is taken is given back, by its holder or by its ttl (coord.go Lock).
TakenLockIsFreed == slot ~> ~slot

\* With consumers that keep popping no value stays behind, although the notify
\* channel holds one token for any number of pushes (coord.go push, pop).
ValuesAreTaken == \A v \in Values : v \in Range(appended) /\ ~closed ~> v \in Range(taken) \/ closed
=============================================================================
