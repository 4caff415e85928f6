---------------------------- MODULE LocalBus_proof ----------------------------
(***************************************************************************)
(* Proofs about LocalBus, for any goroutines, topics, values and bounds.   *)
(* The four primitives touch disjoint state; a step of one leaves the      *)
(* invariants of the others alone.                                         *)
(***************************************************************************)
EXTENDS LocalBus, FiniteSetTheorems, SequenceTheorems, TLAPS

USE LocalBusAssumption

PubSubStep ==
    \/ Close
    \/ \E topic \in Topics : Publish(topic)
    \/ \E w \in Workers : \/ \E topics \in SUBSET Topics : topics # {} /\ Subscribe(w, topics)
                          \/ Receive(w) \/ Unsubscribe(w)
LockStep ==
    \E w \in Workers : \/ Lock(w) \/ Acquire(w) \/ GiveUp(w) \/ Abandon(w) \/ Expire(w)
                       \/ Release(w) \/ Drain(w) \/ CancelAgain(w)
QueueStep ==
    \E w \in Workers : \/ QueuePush(w) \/ AppendItem(w) \/ Notify(w)
                       \/ QueuePop(w) \/ Create(w) \/ Check(w) \/ Wake(w) \/ Cancelled(w)
LogStep == LogPurge \/ \E w \in Workers : LogAppend(w) \/ LogTrim(w) \/ LogRead(w)

(* Every step is a step of one primitive, or stutters.                     *)
LEMMA Steps == [Next]_vars => PubSubStep \/ LockStep \/ QueueStep \/ LogStep \/ UNCHANGED vars
BY DEF Next, PubSubStep, LockStep, QueueStep, LogStep

(* What a step of one primitive does not touch.                            *)
LEMMA Frame ==
    /\ PubSubStep => UNCHANGED <<workload, lockVars, queueVars, logVars>>
    /\ LockStep => UNCHANGED <<workload, closed, subVars, queueVars, logVars>>
    /\ QueueStep => UNCHANGED <<workload, closed, subVars, lockVars, logVars>>
    /\ LogStep => UNCHANGED <<workload, closed, subVars, lockVars, queueVars>>
<1>1. PubSubStep => UNCHANGED <<workload, lockVars, queueVars, logVars>>
  BY DEF PubSubStep, Close, Publish, Subscribe, Receive, Unsubscribe
<1>2. LockStep => UNCHANGED <<workload, closed, subVars, queueVars, logVars>>
  BY DEF LockStep, Lock, Acquire, GiveUp, Abandon, Expire, Release, Drain, CancelAgain
<1>3. QueueStep => UNCHANGED <<workload, closed, subVars, lockVars, logVars>>
  BY DEF QueueStep, QueuePush, AppendItem, Notify, QueuePop, Create, Check, Wake, Cancelled
<1>4. LogStep => UNCHANGED <<workload, closed, subVars, lockVars, queueVars>>
  BY DEF LogStep, LogPurge, LogAppend, LogTrim, LogRead
<1> QED BY <1>1, <1>2, <1>3, <1>4

-----------------------------------------------------------------------------
(* Facts about sequences.                                                  *)

(* Moving the head of t to the end of s changes nothing of s \o t.         *)
LEMMA HeadMoves ==
    ASSUME NEW S, NEW s \in Seq(S), NEW t \in Seq(S), t # <<>>
    PROVE  s \o t = Append(s, Head(t)) \o Tail(t)
<1>1. /\ Head(t) \in S /\ Tail(t) \in Seq(S) /\ <<Head(t)>> \in Seq(S)
      /\ Len(Tail(t)) = Len(t) - 1 /\ Len(t) \in Nat /\ Len(t) > 0
  BY HeadTailProperties, EmptySeq
<1>2. t = <<Head(t)>> \o Tail(t)
  <2>1. /\ <<Head(t)>> \o Tail(t) \in Seq(S)
        /\ Len(<<Head(t)>> \o Tail(t)) = Len(t)
        /\ \A i \in 1..Len(t) : (<<Head(t)>> \o Tail(t))[i] =
                                  IF i <= 1 THEN Head(t) ELSE Tail(t)[i - 1]
    <3>1. Len(<<Head(t)>>) = 1 /\ <<Head(t)>>[1] = Head(t)
      OBVIOUS
    <3> QED BY <1>1, <3>1, ConcatProperties
  <2>2. \A i \in 1..Len(t) : (<<Head(t)>> \o Tail(t))[i] = t[i]
    BY <1>1, <2>1, HeadTailProperties
  <2> QED BY <2>1, <2>2, SeqEqual
<1>3. Append(s, Head(t)) = s \o <<Head(t)>>
  BY <1>1, AppendIsConcat
<1> QED BY <1>1, <1>2, <1>3, ConcatAssociative

-----------------------------------------------------------------------------
(* Publish and subscribe.                                                  *)

Channels == [buf : Seq(1..MaxPublishes), closes : Nat, once : BOOLEAN]

PubSubType ==
    /\ closed \in BOOLEAN
    /\ sub \in [Workers -> SUBSET Topics]
    /\ chan \in [Workers -> Channels]
    /\ \A w \in Workers : Len(chan[w].buf) <= Cap
    /\ sent \in 0..MaxPublishes

(* A channel with another buffer is a channel.                             *)
LEMMA SetBuf ==
    ASSUME NEW c \in Channels, NEW b \in Seq(1..MaxPublishes)
    PROVE  [c EXCEPT !.buf = b] \in Channels /\ [c EXCEPT !.buf = b].buf = b
BY DEF Channels

(* A channel closed once more, or cancelled, is a channel with the same    *)
(* buffer.                                                                 *)
LEMMA SetCloses ==
    ASSUME NEW c \in Channels, NEW n \in Nat
    PROVE  /\ [c EXCEPT !.closes = n] \in Channels /\ [c EXCEPT !.closes = n].buf = c.buf
           /\ [c EXCEPT !.once = TRUE, !.closes = n] \in Channels
           /\ [c EXCEPT !.once = TRUE, !.closes = n].buf = c.buf
BY DEF Channels

(* bus.go: subscribing, publishing, cancelling and closing keep the        *)
(* shapes, and no buffer grows beyond defaultSubscriberBuffer.             *)
LEMMA PubSubTypeStep ==
    ASSUME PubSubType, PubSubStep PROVE PubSubType'
<1> USE DEF PubSubType
<1>1. CASE Close
  <2>1. \A w \in Workers : Cardinality(sub[w]) \in Nat
    BY FS_Subset, FS_CardinalityType
  <2>2. ASSUME NEW w \in Workers PROVE chan'[w] \in Channels /\ chan'[w].buf = chan[w].buf
    <3>1. chan'[w] = [chan[w] EXCEPT !.closes = chan[w].closes + Cardinality(sub[w])]
      BY <1>1 DEF Close
    <3> DEFINE n == chan[w].closes + Cardinality(sub[w])
    <3>2. chan[w] \in Channels /\ n \in Nat
      BY <2>1 DEF Channels
    <3>3. [chan[w] EXCEPT !.closes = n] \in Channels /\ [chan[w] EXCEPT !.closes = n].buf = chan[w].buf
      <4> HIDE DEF n, PubSubType
      <4> QED BY <3>2, SetCloses
    <3> QED BY <3>1, <3>3
  <2>3. chan' \in [Workers -> Channels]
    BY <1>1, <2>2 DEF Close
  <2> QED BY <1>1, <2>2, <2>3 DEF Close
<1>2. ASSUME NEW topic \in Topics, Publish(topic) PROVE PubSubType'
  <2>1. sent' \in 1..MaxPublishes /\ closed' = closed /\ sub' = sub
    BY <1>2 DEF Publish
  <2>2. ASSUME NEW w \in Workers PROVE chan'[w] \in Channels /\ Len(chan'[w].buf) <= Cap
    <3>1. CASE topic \in sub[w] /\ Len(chan[w].buf) < Cap
      <4>1. chan'[w] = [chan[w] EXCEPT !.buf = Append(chan[w].buf, sent')]
        BY <1>2, <3>1 DEF Publish
      <4>2. chan[w] \in Channels /\ chan[w].buf \in Seq(1..MaxPublishes)
        BY DEF Channels
      <4>3. /\ Append(chan[w].buf, sent') \in Seq(1..MaxPublishes)
            /\ Len(Append(chan[w].buf, sent')) = Len(chan[w].buf) + 1
        BY <2>1, <4>2, AppendProperties
      <4>4. chan'[w] \in Channels /\ chan'[w].buf = Append(chan[w].buf, sent')
        <5>1. /\ [chan[w] EXCEPT !.buf = Append(chan[w].buf, sent')] \in Channels
              /\ [chan[w] EXCEPT !.buf = Append(chan[w].buf, sent')].buf = Append(chan[w].buf, sent')
          <6> HIDE DEF PubSubType
          <6> QED BY <4>2, <4>3, SetBuf
        <5> QED BY <4>1, <5>1
      <4>5. Len(chan[w].buf) \in Nat
        BY <4>2, LenProperties
      <4> QED BY <3>1, <4>3, <4>4, <4>5
    <3>2. CASE ~(topic \in sub[w] /\ Len(chan[w].buf) < Cap)
      BY <1>2, <3>2 DEF Publish
    <3> QED BY <3>1, <3>2
  <2>3. chan' \in [Workers -> Channels]
    BY <1>2, <2>2 DEF Publish
  <2> QED BY <2>1, <2>2, <2>3
<1>3. ASSUME NEW w \in Workers, NEW topics \in SUBSET Topics, Subscribe(w, topics)
      PROVE  PubSubType'
  BY <1>3 DEF Subscribe
<1>4. ASSUME NEW w \in Workers, Receive(w) PROVE PubSubType'
  <2>1. /\ chan[w] \in Channels /\ chan[w].buf \in Seq(1..MaxPublishes) /\ chan[w].buf # <<>>
        /\ Len(chan[w].buf) <= Cap
    BY <1>4 DEF Receive, Channels
  <2>2. /\ Tail(chan[w].buf) \in Seq(1..MaxPublishes) /\ Len(Tail(chan[w].buf)) = Len(chan[w].buf) - 1
        /\ Len(chan[w].buf) \in Nat
    BY <2>1, HeadTailProperties, LenProperties
  <2>3. chan' = [chan EXCEPT ![w] = [chan[w] EXCEPT !.buf = Tail(chan[w].buf)]]
    BY <1>4 DEF Receive
  <2>4. /\ [chan[w] EXCEPT !.buf = Tail(chan[w].buf)] \in Channels
        /\ [chan[w] EXCEPT !.buf = Tail(chan[w].buf)].buf = Tail(chan[w].buf)
    BY <2>1, <2>2, SetBuf
  <2>5. chan' \in [Workers -> Channels] /\ \A v \in Workers : Len(chan'[v].buf) <= Cap
    BY <2>1, <2>2, <2>3, <2>4
  <2> QED BY <1>4, <2>5 DEF Receive
<1>5. ASSUME NEW w \in Workers, Unsubscribe(w) PROVE PubSubType'
  <2>1. chan' = [chan EXCEPT ![w] = [chan[w] EXCEPT !.once = TRUE, !.closes = chan[w].closes + 1]]
    BY <1>5 DEF Unsubscribe
  <2>2. chan[w] \in Channels /\ chan[w].closes + 1 \in Nat
    BY DEF Channels
  <2>3. chan' \in [Workers -> Channels] /\ \A v \in Workers : chan'[v].buf = chan[v].buf
    <3>1. PICK c \in Channels : /\ c = [chan[w] EXCEPT !.once = TRUE, !.closes = chan[w].closes + 1]
                                /\ c.buf = chan[w].buf
      BY <2>2, SetCloses
    <3>2. chan' = [chan EXCEPT ![w] = c]
      BY <2>1, <3>1
    <3> QED BY <3>1, <3>2
  <2> QED BY <1>5, <2>3 DEF Unsubscribe
<1> QED BY <1>1, <1>2, <1>3, <1>4, <1>5 DEF PubSubStep

(* A channel with a subscription is open, and after Close there is none.   *)
ChannelInv ==
    /\ \A w \in Workers : /\ sub[w] # {} => chan[w].closes = 0
                          /\ chan[w].closes <= 1
    /\ closed => \A w \in Workers : sub[w] = {}

(* bus.go 112-170: a subscribed channel stays open until its Cancel, when  *)
(* no Close comes before it.                                               *)
LEMMA ChannelStep ==
    ASSUME ~CloseEarly, PubSubType, ChannelInv, PubSubStep PROVE ChannelInv'
<1> USE DEF PubSubType, ChannelInv, Channels
<1>1. CASE Close
  <2>1. \A w \in Workers : sub[w] = {} /\ Cardinality(sub[w]) = 0
    BY <1>1, FS_EmptySet DEF Close
  <2>2. \A w \in Workers : chan'[w].closes = chan[w].closes
    BY <1>1, <2>1 DEF Close
  <2> QED BY <1>1, <2>1, <2>2 DEF Close
<1>2. ASSUME NEW topic \in Topics, Publish(topic) PROVE ChannelInv'
  <2>1. \A w \in Workers : chan'[w].closes = chan[w].closes
    BY <1>2 DEF Publish
  <2> QED BY <1>2, <2>1 DEF Publish
<1>3. ASSUME NEW w \in Workers, NEW topics \in SUBSET Topics, Subscribe(w, topics)
      PROVE  ChannelInv'
  BY <1>3 DEF Subscribe
<1>4. ASSUME NEW w \in Workers, Receive(w) PROVE ChannelInv'
  <2>1. \A v \in Workers : chan'[v].closes = chan[v].closes
    BY <1>4 DEF Receive
  <2> QED BY <1>4, <2>1 DEF Receive
<1>5. ASSUME NEW w \in Workers, Unsubscribe(w) PROVE ChannelInv'
  <2>1. /\ sub' = [sub EXCEPT ![w] = {}] /\ sub[w] # {} /\ closed' = closed
        /\ chan'[w].closes = chan[w].closes + 1
        /\ \A v \in Workers \ {w} : chan'[v].closes = chan[v].closes
    BY <1>5 DEF Unsubscribe
  <2> QED BY <2>1
<1> QED BY <1>1, <1>2, <1>3, <1>4, <1>5 DEF PubSubStep

-----------------------------------------------------------------------------
(* The lock.                                                               *)

LockType ==
    /\ slot \in BOOLEAN /\ locks \in 0..MaxLocks
    /\ hold \in [Workers -> [pc : {"idle", "waiting", "holding", "gone", "releasing", "released"},
                             timer : {"none", "armed", "stopped", "fired"}]]

(* coord.go 124-167: the lock's slot and its holders keep their shapes.    *)
LEMMA LockTypeStep == ASSUME LockType, LockStep PROVE LockType'
<1> USE DEF LockType
<1>1. ASSUME NEW w \in Workers, Lock(w) PROVE LockType'
  BY <1>1 DEF Lock
<1>2. ASSUME NEW w \in Workers, Acquire(w) PROVE LockType'
  <2>1. PICK timer \in {"none", "armed"} : hold' = [hold EXCEPT ![w].pc = "holding", ![w].timer = timer]
    BY <1>2 DEF Acquire
  <2>2. hold' \in [Workers -> [pc : {"idle", "waiting", "holding", "gone", "releasing", "released"},
                               timer : {"none", "armed", "stopped", "fired"}]]
    BY <2>1
  <2> QED BY <1>2, <2>2 DEF Acquire
<1>3. ASSUME NEW w \in Workers, GiveUp(w) \/ Abandon(w) \/ CancelAgain(w) PROVE LockType'
  BY <1>3 DEF GiveUp, Abandon, CancelAgain
<1>4. ASSUME NEW w \in Workers, Expire(w) PROVE LockType'
  <2>1. \/ hold' = [hold EXCEPT ![w].timer = "fired", ![w].pc = "idle"]
        \/ hold' = [hold EXCEPT ![w].timer = "fired"]
    <3>1. CASE hold[w].pc = "gone"
      BY <1>4, <3>1 DEF Expire
    <3>2. CASE hold[w].pc # "gone"
      BY <1>4, <3>2 DEF Expire
    <3> QED BY <3>1, <3>2
  <2>2. hold' \in [Workers -> [pc : {"idle", "waiting", "holding", "gone", "releasing", "released"},
                               timer : {"none", "armed", "stopped", "fired"}]]
    BY <2>1
  <2> QED BY <1>4, <2>2 DEF Expire
<1>5. ASSUME NEW w \in Workers, Release(w) PROVE LockType'
  <2>1. hold'[w] \in [pc : {"releasing"}, timer : {"none", "armed", "stopped", "fired"}]
    BY <1>5 DEF Release
  <2> QED BY <1>5, <2>1 DEF Release
<1>6. ASSUME NEW w \in Workers, Drain(w) PROVE LockType'
  BY <1>6 DEF Drain
<1> QED BY <1>1, <1>2, <1>3, <1>4, <1>5, <1>6 DEF LockStep

(* Whoever has a token in the slot is the only one, and a timer runs only  *)
(* while its own token is there: that is what a holder that outlives its   *)
(* ttl breaks.                                                             *)
Inside == {"holding", "gone", "releasing"}
LockInv ==
    /\ \A v, w \in Workers : hold[v].pc \in Inside /\ hold[w].pc \in Inside => v = w
    /\ \A w \in Workers : hold[w].pc \in Inside => slot
    /\ \A w \in Workers : hold[w].timer = "armed" => hold[w].pc \in {"holding", "gone"}

(* coord.go 140-167: whoever is inside fills the slot, and a timer runs    *)
(* only for a holder that is still inside.                                 *)
LEMMA LockInvStep == ASSUME ~Overrun, LockType, LockInv, LockStep PROVE LockInv'
<1> USE DEF LockType, LockInv, Inside
<1>1. ASSUME NEW w \in Workers, Lock(w) PROVE LockInv'
  BY <1>1 DEF Lock
<1>2. ASSUME NEW w \in Workers, Acquire(w) PROVE LockInv'
  BY <1>2 DEF Acquire
<1>3. ASSUME NEW w \in Workers, GiveUp(w) \/ Abandon(w) \/ CancelAgain(w) PROVE LockInv'
  BY <1>3 DEF GiveUp, Abandon, CancelAgain
<1>4. ASSUME NEW w \in Workers, Expire(w) PROVE LockInv'
  BY <1>4 DEF Expire
<1>5. ASSUME NEW w \in Workers, Release(w) PROVE LockInv'
  BY <1>5 DEF Release
<1>6. ASSUME NEW w \in Workers, Drain(w) PROVE LockInv'
  BY <1>6 DEF Drain
<1> QED BY <1>1, <1>2, <1>3, <1>4, <1>5, <1>6 DEF LockStep

-----------------------------------------------------------------------------
(* The queue.                                                              *)

Queues == [items : Seq(Values), token : BOOLEAN]
Places == [pc : {"out", "append", "notify", "create", "check", "asleep"},
           q : Objects \cup {0}, v : Values \cup {0}]

QueueType ==
    /\ current \in Objects \cup {0}
    /\ queue \in [Objects -> Queues]
    /\ at \in [Workers -> Places]
    /\ appended \in Seq(Values) /\ taken \in Seq(Values)

(* A goroutine at work has the queue the map holds; no other was ever used.*)
QueueInv ==
    /\ \A w \in Workers :
          /\ at[w].pc \in {"append", "notify", "check", "asleep"} =>
                at[w].q = current /\ current # 0
          /\ at[w].pc = "append" => at[w].v \in Values
          /\ current = 0 => at[w].q = 0
    /\ current = 0 => appended = taken
    /\ current # 0 => appended = taken \o queue[current].items
    /\ \A i \in Objects : i # current => queue[i] = FreshQueue

(* There is an unused queue object while the map holds none.               *)
LEMMA UnusedIsObject ==
    ASSUME QueueInv, NEW w \in Workers, current = 0 PROVE Unused \in Objects /\ Unused # 0
<1>1. Cardinality(Workers) \in Nat \ {0}
  BY FS_EmptySet, FS_CardinalityType
<1>2. 1 \in Objects /\ 0 \notin Objects
  BY <1>1 DEF Objects
<1>3. \E i \in Objects : i # current /\ \A u \in Workers : at[u].q # i
  BY <1>2 DEF QueueInv
<1> QED BY <1>2, <1>3 DEF Unused

(* Looking the queue up, or creating it, by a goroutine that is about to   *)
(* use it.                                                                 *)
LEMMA LookUp ==
    ASSUME QueueType, QueueInv, NEW w \in Workers, NEW place \in {"append", "check"},
           NEW v \in Values \cup {0}, place = "append" => v \in Values,
           current' = (IF current = 0 THEN Unused ELSE current),
           Go(w, [pc |-> place, q |-> current', v |-> v]),
           UNCHANGED <<queue, appended, taken>>
    PROVE  QueueType' /\ QueueInv'
<1>1. current' \in Objects /\ current' # 0
  BY UnusedIsObject DEF QueueType, Objects
<1>2. [pc |-> place, q |-> current', v |-> v] \in Places
  BY <1>1 DEF Places
<1>3. QueueType'
  BY <1>1, <1>2 DEF QueueType, Go
<1>4. current = 0 => /\ queue[current'].items = <<>> /\ appended = taken
                     /\ taken \o queue[current'].items = taken
  BY <1>1, ConcatEmptySeq DEF QueueType, QueueInv, FreshQueue
<1>5. /\ at'[w] = [pc |-> place, q |-> current', v |-> v]
      /\ \A u \in Workers \ {w} : at'[u] = at[u]
  BY DEF Go, QueueType
<1>6. \A u \in Workers :
          /\ at'[u].pc \in {"append", "notify", "check", "asleep"} =>
                at'[u].q = current' /\ current' # 0
          /\ at'[u].pc = "append" => at'[u].v \in Values
          /\ current' = 0 => at'[u].q = 0
  BY <1>1, <1>5 DEF QueueInv
<1>7. appended' = taken' \o queue'[current'].items
  BY <1>1, <1>4 DEF QueueInv
<1>8. \A i \in Objects : i # current' => queue'[i] = FreshQueue
  BY <1>1 DEF QueueInv, Objects
<1> QED BY <1>1, <1>3, <1>6, <1>7, <1>8 DEF QueueInv

(* Leaving, or going to sleep with the queue in hand.                      *)
LEMMA Leave ==
    ASSUME QueueType, QueueInv, NEW w \in Workers,
           Go(w, Nowhere) \/ (at[w].pc = "check" /\ Go(w, [at[w] EXCEPT !.pc = "asleep"])),
           UNCHANGED <<current, queue, appended, taken>>
    PROVE  QueueType' /\ QueueInv'
<1>1. at[w] \in Places /\ Nowhere \in Places /\ [at[w] EXCEPT !.pc = "asleep"] \in Places
  BY DEF QueueType, Places, Nowhere
<1>2. QueueType'
  BY <1>1 DEF QueueType, Go
<1>3. /\ \A u \in Workers \ {w} : at'[u] = at[u]
      /\ \/ at'[w] = Nowhere
         \/ at[w].pc = "check" /\ at'[w].pc = "asleep" /\ at'[w].q = at[w].q
  BY <1>1 DEF QueueType, Go, Places
<1> QED BY <1>2, <1>3 DEF QueueInv, Nowhere

(* A queue object with other items or another token, as one update of the  *)
(* queue map.                                                              *)
LEMMA SetQueue ==
    ASSUME NEW q \in Objects, NEW items \in Seq(Values), NEW token \in BOOLEAN, QueueType
    PROVE  /\ [queue EXCEPT ![q].items = items] =
                  [queue EXCEPT ![q] = [items |-> items, token |-> queue[q].token]]
           /\ [queue EXCEPT ![q].token = token] =
                  [queue EXCEPT ![q] = [items |-> queue[q].items, token |-> token]]
<1>1. queue[q] \in Queues
  BY DEF QueueType
<1>2. /\ [queue[q] EXCEPT !.items = items] = [items |-> items, token |-> queue[q].token]
      /\ [queue[q] EXCEPT !.token = token] = [items |-> queue[q].items, token |-> token]
  BY <1>1 DEF Queues
<1> QED BY <1>2

(* coord.go 96-117: append, notify, wake and pop work on the queue the map *)
(* holds and keep pushed = popped \o queued.                               *)
LEMMA QueueWork ==
    ASSUME QueueType, QueueInv, NEW w \in Workers,
           AppendItem(w) \/ Notify(w) \/ Wake(w) \/ (Check(w) /\ queue[at[w].q].items # <<>>)
    PROVE  QueueType' /\ QueueInv'
<1> DEFINE q == at[w].q
<1>0. /\ q = current /\ q \in Objects /\ q # 0 /\ at[w] \in Places
      /\ queue[q] \in Queues /\ appended = taken \o queue[q].items
  BY DEF AppendItem, Notify, Wake, Check, QueueType, QueueInv, Places
<1>1. queue[q].items \in Seq(Values) /\ queue[q].token \in BOOLEAN
  BY <1>0 DEF Queues
<1>2. \E items \in Seq(Values), token \in BOOLEAN :
          /\ queue' = [queue EXCEPT ![q] = [items |-> items, token |-> token]]
          /\ appended' \in Seq(Values) /\ taken' \in Seq(Values)
          /\ appended' = taken' \o items
  <2>1. CASE AppendItem(w)
    <3>1. at[w].v \in Values
      BY <2>1 DEF AppendItem, QueueInv
    <3>2. queue' = [queue EXCEPT ![q] = [items |-> Append(queue[q].items, at[w].v), token |-> queue[q].token]]
      <4>1. queue' = [queue EXCEPT ![q].items = Append(queue[q].items, at[w].v)]
        BY <2>1 DEF AppendItem
      <4> HIDE DEF q
      <4>2. Append(queue[q].items, at[w].v) \in Seq(Values)
        BY <1>1, <3>1, AppendProperties
      <4> QED BY <1>0, <1>1, <4>1, <4>2, SetQueue
    <3>3. Append(queue[q].items, at[w].v) \in Seq(Values) /\ Append(appended, at[w].v) \in Seq(Values)
      BY <1>1, <3>1 DEF QueueType
    <3>4. Append(taken \o queue[q].items, at[w].v) = taken \o Append(queue[q].items, at[w].v)
      <4> DEFINE items == queue[q].items
                 v == at[w].v
      <4>1. taken \in Seq(Values) /\ items \in Seq(Values) /\ v \in Values
        BY <1>1, <3>1 DEF QueueType
      <4> HIDE DEF items, v
      <4>2. <<v>> \in Seq(Values) /\ taken \o items \in Seq(Values)
        BY <4>1, ConcatProperties
      <4>3. Append(taken \o items, v) = (taken \o items) \o <<v>> /\ Append(items, v) = items \o <<v>>
        BY <4>1, <4>2, AppendIsConcat
      <4>4. (taken \o items) \o <<v>> = taken \o (items \o <<v>>)
        BY <4>1, <4>2, ConcatAssociative
      <4> QED BY <4>3, <4>4 DEF items, v
    <3> QED BY <1>0, <1>1, <2>1, <3>2, <3>3, <3>4 DEF AppendItem, QueueType
  <2>2. CASE Notify(w)
    <3>1. queue' = [queue EXCEPT ![q] = [items |-> queue[q].items, token |-> TRUE]]
      BY <2>2, <1>0, <1>1, SetQueue DEF Notify
    <3> QED BY <1>0, <1>1, <2>2, <3>1 DEF Notify, QueueType
  <2>3. CASE Wake(w)
    <3>1. queue' = [queue EXCEPT ![q] = [items |-> queue[q].items, token |-> FALSE]]
      BY <2>3, <1>0, <1>1, SetQueue DEF Wake
    <3> QED BY <1>0, <1>1, <2>3, <3>1 DEF Wake, QueueType
  <2>4. CASE Check(w) /\ queue[q].items # <<>>
    <3>1. /\ queue' = [queue EXCEPT ![q] = [items |-> Tail(queue[q].items), token |-> queue[q].token]]
          /\ taken' = Append(taken, Head(queue[q].items)) /\ appended' = appended
      <4>1. Tail(queue[q].items) \in Seq(Values)
        BY <1>1, <2>4, HeadTailProperties
      <4> QED BY <2>4, <1>0, <1>1, <4>1, SetQueue DEF Check
    <3>2. /\ Tail(queue[q].items) \in Seq(Values) /\ Head(queue[q].items) \in Values
      BY <1>1, <2>4, HeadTailProperties
    <3>3. taken \in Seq(Values)
      BY DEF QueueType
    <3>4. Append(taken, Head(queue[q].items)) \in Seq(Values)
      BY <3>2, <3>3
    <3>5. taken \o queue[q].items = Append(taken, Head(queue[q].items)) \o Tail(queue[q].items)
      BY <1>1, <2>4, <3>3, HeadMoves
    <3> QED BY <1>0, <1>1, <3>1, <3>2, <3>4, <3>5 DEF QueueType
  <2> QED BY <2>1, <2>2, <2>3, <2>4
<1>3. PICK items \in Seq(Values), token \in BOOLEAN :
          /\ queue' = [queue EXCEPT ![q] = [items |-> items, token |-> token]]
          /\ appended' \in Seq(Values) /\ taken' \in Seq(Values)
          /\ appended' = taken' \o items
  BY <1>2
<1>4. \/ Go(w, Nowhere)
      \/ \E pc \in {"notify", "check"} : Go(w, [at[w] EXCEPT !.pc = pc])
  BY DEF AppendItem, Notify, Wake, Check
<1>5. current' = current
  BY DEF AppendItem, Notify, Wake, Check
<1>6. Nowhere \in Places /\ \A pc \in {"notify", "check"} : [at[w] EXCEPT !.pc = pc] \in Places
  BY <1>0 DEF Places, Nowhere
<1>7. QueueType'
  <2>1. at' \in [Workers -> Places]
    BY <1>4, <1>6 DEF Go, QueueType
  <2>2. queue' \in [Objects -> Queues]
    BY <1>0, <1>3 DEF QueueType, Queues
  <2> QED BY <1>3, <1>5, <2>1, <2>2 DEF QueueType
<1>8. /\ \A u \in Workers \ {w} : at'[u] = at[u]
      /\ \/ at'[w] = Nowhere
         \/ at'[w].pc \in {"notify", "check"} /\ at'[w].q = at[w].q
  BY <1>0, <1>4 DEF QueueType, Go, Places
<1>9. queue'[q].items = items /\ \A i \in Objects \ {q} : queue'[i] = queue[i]
  BY <1>0, <1>3 DEF QueueType
<1>10. \A u \in Workers :
          /\ at'[u].pc \in {"append", "notify", "check", "asleep"} =>
                at'[u].q = current' /\ current' # 0
          /\ at'[u].pc = "append" => at'[u].v \in Values
          /\ current' = 0 => at'[u].q = 0
  BY <1>0, <1>5, <1>8 DEF QueueInv, Nowhere
<1>11. appended' = taken' \o queue'[current'].items /\ current' # 0
  BY <1>0, <1>3, <1>5, <1>9
<1>12. \A i \in Objects : i # current' => queue'[i] = FreshQueue
  BY <1>0, <1>5, <1>9 DEF QueueInv
<1> QED BY <1>7, <1>10, <1>11, <1>12 DEF QueueInv

(* coord.go 235-279: every step of the queue keeps its invariant.          *)
LEMMA QueueInvStep ==
    ASSUME QueueType, QueueInv, QueueStep PROVE QueueType' /\ QueueInv'
<1>1. ASSUME NEW w \in Workers, QueuePush(w) PROVE QueueType' /\ QueueInv'
  <2>1. PICK v \in Values : /\ current' = (IF current = 0 THEN Unused ELSE current)
                            /\ Go(w, [pc |-> "append", q |-> current', v |-> v])
    BY <1>1 DEF QueuePush
  <2> QED BY <1>1, <2>1, LookUp DEF QueuePush
<1>2. ASSUME NEW w \in Workers, QueuePop(w) PROVE QueueType' /\ QueueInv'
  <2>1. CASE current = 0
    <3>1. Go(w, [pc |-> "create", q |-> 0, v |-> 0]) /\ UNCHANGED <<current, queue, appended, taken>>
      BY <1>2, <2>1 DEF QueuePop
    <3>2. [pc |-> "create", q |-> 0, v |-> 0] \in Places
      BY DEF Places
    <3>3. QueueType'
      BY <3>1, <3>2 DEF Go, QueueType
    <3> QED BY <2>1, <3>1, <3>3 DEF Go, QueueType, QueueInv
  <2>2. CASE current # 0
    BY <1>2, <2>2, LookUp DEF QueuePop
  <2> QED BY <2>1, <2>2
<1>3. ASSUME NEW w \in Workers, Create(w) PROVE QueueType' /\ QueueInv'
  BY <1>3, LookUp, Leave DEF Create
<1>4. ASSUME NEW w \in Workers, Cancelled(w) \/ (Check(w) /\ queue[at[w].q].items = <<>>)
      PROVE  QueueType' /\ QueueInv'
  BY <1>4, Leave DEF Cancelled, Check
<1> QED BY <1>1, <1>2, <1>3, <1>4, QueueWork DEF QueueStep

-----------------------------------------------------------------------------
(* The log.                                                                *)

(* Multiplication by a natural number is monotone.                         *)
LEMMA Monotone ==
    ASSUME NEW r \in Nat, NEW a \in Nat, NEW b \in Nat, a <= b PROVE r * a <= r * b
<1>1. PICK d \in Nat : b = a + d
  <2> WITNESS b - a \in Nat
  <2> QED OBVIOUS
<1>2. r * b = r * a + r * d /\ r * d >= 0
  BY <1>1
<1> QED BY <1>2

(* Below a multiple of r and not a multiple itself: one more still fits.   *)
LEMMA NotAMultiple ==
    ASSUME NEW r \in Nat \ {0}, NEW n \in Nat, NEW k \in Nat, n <= r * k, n % r # 0
    PROVE  n + 1 <= r * k
<1> DEFINE q == n \div r
           m == n % r
<1>1. q \in Nat /\ m \in 0..(r - 1) /\ n = r * q + m
  OBVIOUS
<1>2. q < k
  <2> SUFFICES ASSUME k <= q PROVE FALSE
    BY <1>1
  <2>1. r * k <= r * q
    BY <1>1, Monotone
  <2> QED BY <1>1, <2>1
<1>3. r * (q + 1) <= r * k
  BY <1>1, <1>2, Monotone
<1>4. r * (q + 1) = r * q + r
  BY <1>1
<1> QED BY <1>1, <1>3, <1>4

LogType ==
    /\ logged \in 0..MaxEntries /\ log \in Seq(1..MaxEntries) /\ trimming \subseteq Workers
    /\ cursor \in [Workers -> Nat] /\ last \in [Workers -> 0..MaxEntries]

(* The newest n entries of a log are a log of n entries.                   *)
LEMMA Newest ==
    ASSUME NEW S, NEW s \in Seq(S), NEW n \in Nat, n < Len(s)
    PROVE  /\ SubSeq(s, Len(s) - n + 1, Len(s)) \in Seq(S)
           /\ Len(SubSeq(s, Len(s) - n + 1, Len(s))) = n
<1>1. Len(s) \in Nat /\ Len(s) - n + 1 \in 1..(Len(s) + 1)
  BY LenProperties
<1> QED BY <1>1, SubSeqProperties

(* coord.go 281-383: appends, trims, purges and reads keep the shapes.     *)
LEMMA LogTypeStep == ASSUME LogType, LogStep PROVE LogType'
<1> USE DEF LogType
<1>1. CASE LogPurge
  BY <1>1, EmptySeq DEF LogPurge
<1>2. ASSUME NEW w \in Workers, LogAppend(w) PROVE LogType'
  BY <1>2, AppendProperties DEF LogAppend
<1>3. ASSUME NEW w \in Workers, LogTrim(w) PROVE LogType'
  <2>1. log' \in Seq(1..MaxEntries)
    <3>1. CASE closed \/ Len(log) <= Retention
      BY <1>3, <3>1 DEF LogTrim
    <3>2. CASE ~(closed \/ Len(log) <= Retention)
      <4>1. Retention < Len(log) /\ log' = SubSeq(log, Len(log) - Retention + 1, Len(log))
        BY <1>3, <3>2, LenProperties DEF LogTrim
      <4> QED BY <4>1, Newest
    <3> QED BY <3>1, <3>2
  <2> QED BY <1>3, <2>1 DEF LogTrim
<1>4. ASSUME NEW w \in Workers, LogRead(w) PROVE LogType'
  <2> DEFINE end == IF cursor[w] + Page < Len(log) THEN cursor[w] + Page ELSE Len(log)
  <2>1. CASE cursor[w] > Len(log)
    <3>1. /\ cursor' = [cursor EXCEPT ![w] = 0] /\ last' = [last EXCEPT ![w] = 0]
          /\ UNCHANGED <<log, logged, trimming>>
      BY <1>4, <2>1 DEF LogRead
    <3>2. 0 \in 0..MaxEntries
      OBVIOUS
    <3> QED BY <3>1, <3>2
  <2>2. CASE ~(cursor[w] > Len(log))
    <3>1. end \in 1..Len(log)
      BY <1>4, <2>2, LenProperties DEF LogRead
    <3>2. log[end] \in 1..MaxEntries
      BY <3>1, ElementOfSeq
    <3>3. cursor' = [cursor EXCEPT ![w] = end] /\ last' = [last EXCEPT ![w] = log[end]]
      BY <1>4, <2>2 DEF LogRead
    <3>4. end \in Nat
      BY <3>1, LenProperties
    <3>5. UNCHANGED <<log, logged, trimming>>
      BY <1>4 DEF LogRead
    <3> HIDE DEF end
    <3> QED BY <3>2, <3>3, <3>4, <3>5
  <2> QED BY <2>1, <2>2
<1> QED BY <1>1, <1>2, <1>3, <1>4 DEF LogStep

(* session_coord.go 111-118: an append beyond a multiple of the cap leaves *)
(* a coordinator that will trim; what a trim leaves is one cap.            *)
LEMMA LogBoundStep == ASSUME LogType, LogIsBounded, LogStep PROVE LogIsBounded'
<1> DEFINE waiting == Cardinality(trimming)
<1>1. SUFFICES ASSUME ~closed PROVE Len(log') <= Retention * (1 + Cardinality(trimming'))
  BY Frame DEF LogIsBounded
<1>2. /\ IsFiniteSet(trimming) /\ IsFiniteSet(trimming') /\ waiting \in Nat /\ Cardinality(trimming') \in Nat
      /\ log \in Seq(1..MaxEntries) /\ Len(log) \in Nat /\ Len(log) <= Retention * (1 + waiting)
  BY <1>1, LogTypeStep, FS_Subset, FS_CardinalityType, LenProperties DEF LogType, LogIsBounded
<1>3. Retention * (1 + Cardinality(trimming')) >= Retention
  BY <1>2, Monotone
<1>4. CASE LogPurge
  <2>1. Len(log') = 0
    BY <1>4, EmptySeq DEF LogPurge
  <2> QED BY <1>2, <1>3, <2>1
<1>5. ASSUME NEW w \in Workers, LogAppend(w)
      PROVE  Len(log') <= Retention * (1 + Cardinality(trimming'))
  <2>1. Len(log') = Len(log) + 1
    BY <1>2, <1>5, AppendProperties DEF LogAppend, LogType
  <2>2. CASE Due(Len(log))
    <3>1. Cardinality(trimming') = waiting + 1
      BY <1>2, <1>5, <2>2, FS_AddElement DEF LogAppend
    <3>2. Retention * (1 + (waiting + 1)) = Retention * (1 + waiting) + Retention
      BY <1>2
    <3> HIDE DEF waiting
    <3> QED BY <1>2, <2>1, <3>1, <3>2
  <2>3. CASE ~Due(Len(log))
    <3>1. trimming' = trimming
      BY <1>5, <2>3 DEF LogAppend
    <3>2. CASE Len(log) = 0
      BY <1>2, <1>3, <2>1, <3>2
    <3>3. CASE Len(log) # 0
      <4>1. Len(log) % Retention # 0
        BY <1>2, <2>3, <3>3 DEF Due
      <4>2. Len(log) + 1 <= Retention * (1 + waiting)
        <5> HIDE DEF waiting
        <5>1. 1 + waiting \in Nat
          BY <1>2
        <5> QED BY <1>2, <4>1, <5>1, NotAMultiple
      <4> QED BY <2>1, <3>1, <4>2
    <3> QED BY <3>2, <3>3
  <2> QED BY <2>2, <2>3
<1>6. ASSUME NEW w \in Workers, LogTrim(w)
      PROVE  Len(log') <= Retention * (1 + Cardinality(trimming'))
  <2>1. Len(log') <= Retention
    <3>1. CASE Len(log) <= Retention
      BY <1>1, <1>6, <3>1 DEF LogTrim
    <3>2. CASE ~(Len(log) <= Retention)
      BY <1>1, <1>2, <1>6, <3>2, Newest DEF LogTrim
    <3> QED BY <3>1, <3>2
  <2>2. Len(log') \in Nat
    BY LogTypeStep, LenProperties DEF LogType
  <2> QED BY <1>2, <1>3, <2>1, <2>2
<1>7. ASSUME NEW w \in Workers, LogRead(w)
      PROVE  Len(log') <= Retention * (1 + Cardinality(trimming'))
  BY <1>2, <1>7 DEF LogRead
<1> QED BY <1>4, <1>5, <1>6, <1>7 DEF LogStep

-----------------------------------------------------------------------------
(* The theorems.                                                           *)

(* The initial state (bus.go 76-89) satisfies every invariant.             *)
LEMMA Start ==
    Init => /\ PubSubType /\ ChannelInv /\ LockType /\ LockInv /\ QueueType /\ QueueInv
            /\ LogType /\ LogIsBounded
<1> SUFFICES ASSUME Init
             PROVE  /\ PubSubType /\ ChannelInv /\ LockType /\ LockInv /\ QueueType /\ QueueInv
                    /\ LogType /\ LogIsBounded
  OBVIOUS
<1>1. PubSubType
  <2>1. <<>> \in Seq(1..MaxPublishes) /\ Len(<<>>) = 0
    BY EmptySeq
  <2>2. [buf |-> <<>>, closes |-> 0, once |-> FALSE] \in Channels
    BY <2>1 DEF Channels
  <2>3. chan \in [Workers -> Channels] /\ \A w \in Workers : chan[w].buf = <<>>
    BY <2>2 DEF Init
  <2>4. 0 \in 0..MaxPublishes /\ Cap >= 0
    OBVIOUS
  <2> QED BY <2>1, <2>3, <2>4 DEF Init, PubSubType
<1>2. ChannelInv
  BY DEF Init, ChannelInv
<1>3. LockType
  <2>1. hold = [w \in Workers |-> [pc |-> "idle", timer |-> "none"]]
        /\ slot = FALSE /\ locks = 0
    BY DEF Init
  <2>2. 0 \in 0..MaxLocks
    OBVIOUS
  <2> QED BY <2>1, <2>2 DEF LockType
<1>6. LockInv
  BY DEF Init, LockInv, Inside
<1>4. QueueType
  <2>1. <<>> \in Seq(Values)
    BY EmptySeq
  <2> QED BY <2>1 DEF Init, QueueType, Queues, Places, FreshQueue, Nowhere
<1>5. QueueInv
  BY DEF Init, QueueInv, Nowhere
<1>7. LogType
  <2>1. <<>> \in Seq(1..MaxEntries) /\ 0 \in 0..MaxEntries
    BY EmptySeq
  <2> QED BY <2>1 DEF Init, LogType
<1>8. LogIsBounded
  BY FS_EmptySet, EmptySeq DEF Init, LogIsBounded
<1> QED BY <1>1, <1>2, <1>3, <1>4, <1>5, <1>6, <1>7, <1>8

(* The queue's invariant is needed for the types: the object a goroutine   *)
(* creates is one of Objects because the map held none.                    *)
BusInv == PubSubType /\ LockType /\ QueueType /\ QueueInv /\ LogType

(* A step of one primitive keeps what the others rely on.                  *)
LEMMA BusInvStep == BusInv /\ [Next]_vars => BusInv'
<1> SUFFICES ASSUME BusInv, [Next]_vars PROVE BusInv'
  OBVIOUS
<1>1. CASE PubSubStep
  BY <1>1, Frame, PubSubTypeStep DEF BusInv, LockType, QueueType, QueueInv, LogType, lockVars, queueVars, logVars
<1>2. CASE LockStep
  BY <1>2, Frame, LockTypeStep DEF BusInv, PubSubType, QueueType, QueueInv, LogType, subVars, queueVars, logVars
<1>3. CASE QueueStep
  BY <1>3, Frame, QueueInvStep DEF BusInv, PubSubType, LockType, LogType, subVars, lockVars, logVars
<1>4. CASE LogStep
  BY <1>4, Frame, LogTypeStep DEF BusInv, PubSubType, LockType, QueueType, QueueInv, subVars, lockVars, queueVars
<1>5. CASE UNCHANGED vars
  BY <1>5 DEF BusInv, PubSubType, LockType, QueueType, QueueInv, LogType, vars, subVars, lockVars, queueVars, logVars
<1> QED BY <1>1, <1>2, <1>3, <1>4, <1>5, Steps

(* The invariant holds in every behaviour.                                 *)
LEMMA BusInvariant == Spec => []BusInv
BY Start, BusInvStep, PTL DEF Spec, BusInv

(* bus.go, coord.go: maps and goroutines keep their shapes.                *)
THEOREM TypeCorrect == Spec => []TypeOK
<1> DEFINE Drives == workload \in {"pubsub", "lock", "queue", "log"}
<1>1. Init => Drives
  BY DEF Init
<1>2. Drives /\ [Next]_vars => Drives'
  BY Steps, Frame DEF vars
<1>3. Drives /\ BusInv => TypeOK
  BY DEF BusInv, PubSubType, Channels, LockType, QueueType, Queues, Places, LogType, TypeOK
<1> QED BY <1>1, <1>2, <1>3, BusInvariant, PTL DEF Spec

(* coord.go QueuePush, QueuePop: any number of goroutines push, pop and    *)
(* create the queue at the same time; nothing is lost, doubled or passed.  *)
THEOREM QueueIsFifo == Spec => []FirstInFirstOut
<1>1. BusInv => FirstInFirstOut
  <2> SUFFICES ASSUME BusInv PROVE FirstInFirstOut
    OBVIOUS
  <2>1. CASE current = 0
    <3>1. appended = taken /\ taken \o <<>> = taken
      BY <2>1, ConcatEmptySeq DEF BusInv, QueueType, QueueInv
    <3> QED BY <2>1, <3>1 DEF FirstInFirstOut, Items
  <2>2. CASE current # 0
    BY <2>2 DEF BusInv, QueueInv, FirstInFirstOut, Items
  <2> QED BY <2>1, <2>2
<1> QED BY <1>1, BusInvariant, PTL

(* The calls that begin, or leave, with nothing in the queue touched.      *)
LEMMA SameItems ==
    ASSUME QueueType, QueueInv,
           current' = current \/ (current = 0 /\ current' \in Objects),
           queue' = queue
    PROVE  Items' = Items
<1>1. CASE current' = current
  BY <1>1 DEF Items
<1>2. CASE current = 0 /\ current' \in Objects
  <2>1. current' # 0 /\ queue[current'] = FreshQueue
    BY <1>2 DEF QueueInv, Objects
  <2> QED BY <1>2, <2>1 DEF Items, FreshQueue
<1> QED BY <1>1, <1>2

(* One goroutine goes from one call to another.                            *)
LEMMA OneCall ==
    ASSUME QueueType, NEW w \in Workers, NEW r, Go(w, r), NEW e,
           e = CASE r.pc = "out" -> [is |-> "idle"]
                 [] r.pc = "append" -> [is |-> "push", v |-> r.v]
                 [] r.pc = "notify" -> [is |-> "pushed"]
                 [] OTHER -> [is |-> "pop"]
    PROVE  Calls' = [Calls EXCEPT ![w] = e] /\ Calls[w] = Call(w)
<1>1. at'[w] = r /\ \A u \in Workers \ {w} : at'[u] = at[u]
  BY DEF Go, QueueType
<1>2. Call(w)' = e /\ \A u \in Workers \ {w} : Call(u)' = Call(u)
  BY <1>1 DEF Call
<1> QED BY <1>2 DEF Calls

(* Pushes: the call, its effect, its return.                               *)
LEMMA PushImplements ==
    ASSUME QueueType, QueueInv, NEW w \in Workers,
           QueuePush(w) \/ AppendItem(w) \/ Notify(w)
    PROVE  OneQueue!Next
<1>1. CASE QueuePush(w)
  <2>1. PICK v \in Values : /\ current' = IF current = 0 THEN Unused ELSE current
                            /\ Go(w, [pc |-> "append", q |-> current', v |-> v])
    BY <1>1 DEF QueuePush
  <2>2. Items' = Items
    <3>1. current' = current \/ (current = 0 /\ current' \in Objects)
      BY <2>1, UnusedIsObject
    <3> QED BY <1>1, <3>1, SameItems DEF QueuePush
  <2>3. Calls' = [Calls EXCEPT ![w] = OneQueue!Pushing(v)] /\ Calls[w] = Call(w)
    BY <2>1, OneCall DEF OneQueue!Pushing
  <2>4. Call(w) = OneQueue!Idle
    BY <1>1 DEF QueuePush, Call, Nowhere, OneQueue!Idle
  <2>5. taken' = taken
    BY <1>1 DEF QueuePush
  <2>6. OneQueue!CallPush(w)
    BY <2>2, <2>3, <2>4, <2>5 DEF OneQueue!CallPush, OneQueue!Goes
  <2> QED BY <2>6 DEF OneQueue!Next
<1>2. CASE AppendItem(w)
  <2>1. /\ at[w] \in Places /\ at[w].q = current /\ current # 0 /\ current' = current /\ at[w].v \in Values
        /\ current \in Objects /\ queue[current] \in Queues
    BY <1>2 DEF AppendItem, QueueType, QueueInv
  <2>2. PICK v \in Values : v = at[w].v
    BY <2>1
  <2>3. Items' = Append(Items, v)
    <3>1. queue'[current].items = Append(queue[current].items, v)
      BY <1>2, <2>1, <2>2 DEF AppendItem, QueueType, Queues
    <3> QED BY <2>1, <3>1 DEF Items
  <2>4. PICK r : r = [at[w] EXCEPT !.pc = "notify"] /\ r.pc = "notify"
    <3>1. at[w] \in Places
      BY <2>1
    <3>2. [at[w] EXCEPT !.pc = "notify"].pc = "notify"
      BY <3>1 DEF Places
    <3> QED BY <3>2
  <2>5. Calls' = [Calls EXCEPT ![w] = OneQueue!Pushed] /\ Calls[w] = Call(w)
    <3>1. Go(w, r)
      BY <1>2, <2>4 DEF AppendItem
    <3> QED BY <2>4, <3>1, OneCall DEF OneQueue!Pushed
  <2>6. Call(w) = OneQueue!Pushing(v)
    BY <1>2, <2>2 DEF AppendItem, Call, OneQueue!Pushing
  <2>7. taken' = taken
    BY <1>2 DEF AppendItem
  <2>8. OneQueue!Push(w)
    BY <2>3, <2>5, <2>6, <2>7 DEF OneQueue!Push, OneQueue!Goes
  <2> QED BY <2>8 DEF OneQueue!Next
<1>3. CASE Notify(w)
  <2>1. Items' = Items
    <3>1. /\ at[w].q = current /\ current # 0 /\ current' = current
          /\ current \in Objects /\ queue[current] \in Queues
      BY <1>3 DEF Notify, QueueType, QueueInv
    <3>2. queue'[current].items = queue[current].items
      BY <1>3, <3>1 DEF Notify, QueueType, Queues
    <3> QED BY <3>1, <3>2 DEF Items
  <2>2. Calls' = [Calls EXCEPT ![w] = OneQueue!Idle] /\ Calls[w] = Call(w)
    <3>1. Go(w, Nowhere) /\ Nowhere.pc = "out"
      BY <1>3 DEF Notify, Nowhere
    <3> QED BY <3>1, OneCall DEF OneQueue!Idle
  <2>3. Call(w) = OneQueue!Pushed
    BY <1>3 DEF Notify, Call, OneQueue!Pushed
  <2>4. taken' = taken
    BY <1>3 DEF Notify
  <2>5. OneQueue!ReturnPush(w)
    BY <2>1, <2>2, <2>3, <2>4 DEF OneQueue!ReturnPush, OneQueue!Goes
  <2> QED BY <2>5 DEF OneQueue!Next
<1> QED BY <1>1, <1>2, <1>3

(* Pops: the call, its effect, a return with nothing; the rest of what a   *)
(* popper does nobody sees.                                                *)
LEMMA PopImplements ==
    ASSUME QueueType, QueueInv, NEW w \in Workers,
           QueuePop(w) \/ Create(w) \/ Check(w) \/ Wake(w) \/ Cancelled(w)
    PROVE  [OneQueue!Next]_OneQueue!vars
<1> DEFINE Pops(r) == r.pc \in {"create", "check", "asleep"}
<1>g. ASSUME NEW r, Go(w, r), Pops(r) PROVE Calls' = [Calls EXCEPT ![w] = OneQueue!Popping]
  <2>1. r.pc \notin {"out", "append", "notify"}
    BY <1>g
  <2> QED BY <1>g, <2>1, OneCall DEF OneQueue!Popping
<1>n. ASSUME Go(w, Nowhere) PROVE Calls' = [Calls EXCEPT ![w] = OneQueue!Idle]
  <2>1. Nowhere.pc = "out"
    BY DEF Nowhere
  <2> QED BY <1>n, <2>1, OneCall DEF OneQueue!Idle
<1>c. Calls[w] = Call(w) /\ DOMAIN Calls = Workers
  BY DEF Calls
<1>p. Pops(at[w]) => Calls[w] = OneQueue!Popping
  BY <1>c DEF Call, OneQueue!Popping
<1>1. CASE QueuePop(w)
  <2>1. PICK r : Go(w, r) /\ Pops(r)
    BY <1>1 DEF QueuePop
  <2>2. Calls[w] = OneQueue!Idle
    BY <1>1, <1>c DEF QueuePop, Call, Nowhere, OneQueue!Idle
  <2>3. Items' = Items /\ taken' = taken
    BY <1>1 DEF QueuePop, Items
  <2>4. OneQueue!CallPop(w)
    BY <1>g, <2>1, <2>2, <2>3 DEF OneQueue!CallPop, OneQueue!Goes
  <2> QED BY <2>4 DEF OneQueue!Next
<1>l. ASSUME Go(w, Nowhere), Pops(at[w]), UNCHANGED <<current, queue, taken>>
      PROVE  [OneQueue!Next]_OneQueue!vars
  <2>1. Items' = Items /\ taken' = taken
    BY <1>l DEF Items
  <2>2. OneQueue!LeavePop(w)
    BY <1>l, <1>n, <1>p, <2>1 DEF OneQueue!LeavePop, OneQueue!Goes
  <2> QED BY <2>2 DEF OneQueue!Next
<1>s. ASSUME NEW r, Go(w, r), Pops(r), Pops(at[w]), Items' = Items, taken' = taken
      PROVE  [OneQueue!Next]_OneQueue!vars
  <2>1. Calls' = [Calls EXCEPT ![w] = Calls[w]]
    BY <1>g, <1>p, <1>s
  <2>2. Calls' = Calls
    BY <2>1 DEF Calls
  <2> QED BY <1>s, <2>2 DEF OneQueue!vars
<1>2. CASE Create(w)
  <2>1. CASE closed
    BY <1>2, <1>l, <2>1 DEF Create
  <2>2. CASE ~closed
    <3>1. current' = current \/ (current = 0 /\ current' \in Objects)
      BY <1>2, <2>2, UnusedIsObject DEF Create
    <3>2. PICK r : Go(w, r) /\ Pops(r)
      BY <1>2, <2>2 DEF Create
    <3>3. Items' = Items
      BY <1>2, <3>1, SameItems DEF Create
    <3> QED BY <1>2, <1>s, <3>2, <3>3 DEF Create
  <2> QED BY <2>1, <2>2
<1>q. Pops(at[w]) /\ at[w].pc # "create" =>
          /\ at[w].q = current /\ current # 0 /\ current \in Objects
          /\ queue[current] \in Queues /\ at[w] \in Places
  BY DEF QueueType, QueueInv
<1>3. CASE Check(w)
  <2>1. at[w].pc = "check" /\ Pops(at[w])
    BY <1>3 DEF Check
  <2>2. CASE Items # <<>>
    <3>1. Items = queue[current].items /\ queue[current].items # <<>>
      BY <1>q, <2>1, <2>2 DEF Items
    <3>2. /\ taken' = Append(taken, Head(Items)) /\ current' = current /\ Go(w, Nowhere)
          /\ queue' = [queue EXCEPT ![current].items = Tail(Items)]
      BY <1>3, <1>q, <2>1, <3>1 DEF Check
    <3>3. Items' = Tail(Items)
      <4>1. queue'[current].items = Tail(Items)
        BY <1>q, <2>1, <3>2 DEF QueueType, Queues
      <4> QED BY <1>q, <2>1, <3>2, <4>1 DEF Items
    <3>4. OneQueue!Pop(w)
      BY <1>n, <1>p, <2>1, <2>2, <3>2, <3>3 DEF OneQueue!Pop, OneQueue!Goes
    <3> QED BY <3>4 DEF OneQueue!Next
  <2>3. CASE Items = <<>>
    <3>1. queue[current].items = <<>>
      BY <1>q, <2>1, <2>3 DEF Items
    <3>2. PICK r : r = [at[w] EXCEPT !.pc = "asleep"] /\ r.pc = "asleep"
      <4>1. at[w] \in Places
        BY <1>q, <2>1
      <4>2. [at[w] EXCEPT !.pc = "asleep"].pc = "asleep"
        BY <4>1 DEF Places
      <4> QED BY <4>2
    <3>3. Go(w, r) /\ Pops(r) /\ UNCHANGED <<current, queue, taken>>
      BY <1>3, <1>q, <2>1, <3>1, <3>2 DEF Check
    <3>4. Items' = Items
      BY <3>3 DEF Items
    <3> QED BY <1>s, <2>1, <3>3, <3>4
  <2> QED BY <2>2, <2>3
<1>4. CASE Wake(w)
  <2>1. at[w].pc = "asleep" /\ Pops(at[w])
    BY <1>4 DEF Wake
  <2>2. PICK r : r = [at[w] EXCEPT !.pc = "check"] /\ r.pc = "check"
    <3>1. at[w] \in Places
      BY <1>q, <2>1
    <3>2. [at[w] EXCEPT !.pc = "check"].pc = "check"
      BY <3>1 DEF Places
    <3> QED BY <3>2
  <2>3. Go(w, r) /\ Pops(r) /\ taken' = taken /\ current' = current
    BY <1>4, <2>2 DEF Wake
  <2>4. Items' = Items
    <3>1. queue'[current].items = queue[current].items
      BY <1>4, <1>q, <2>1 DEF Wake, QueueType, Queues
    <3> QED BY <2>3, <3>1 DEF Items
  <2> QED BY <1>s, <2>1, <2>3, <2>4
<1>5. CASE Cancelled(w)
  BY <1>5, <1>l DEF Cancelled
<1> QED BY <1>1, <1>2, <1>3, <1>4, <1>5

(* coord.go 88-117: for any number of goroutines that push, pop, create    *)
(* the queue, wake and give up, the calls take effect one after the other  *)
(* on one first-in-first-out queue.                                        *)
THEOREM CallsSeeOneQueue == Spec => ImplementsQueue
<1>1. Init => OneQueue!Init
  BY DEF Init, OneQueue!Init, Items, Calls, Call, Nowhere, OneQueue!Idle
<1>2. BusInv /\ [Next]_vars => [OneQueue!Next]_OneQueue!vars
  <2> SUFFICES ASSUME BusInv, [Next]_vars PROVE [OneQueue!Next]_OneQueue!vars
    OBVIOUS
  <2>1. CASE QueueStep
    BY <2>1, PushImplements, PopImplements DEF BusInv, QueueStep
  <2>2. CASE PubSubStep \/ LockStep \/ LogStep \/ UNCHANGED vars
    <3>1. UNCHANGED queueVars
      BY <2>2, Frame DEF vars
    <3> QED BY <3>1 DEF queueVars, OneQueue!vars, Items, Calls, Call
  <2> QED BY <2>1, <2>2, Steps
<1> QED BY <1>1, <1>2, BusInvariant, PTL DEF Spec, ImplementsQueue, OneQueue!Spec

(* coord.go 124-167: while no holder outlives its ttl, one goroutine holds *)
(* the lock, whoever cancels, cancels again, gives up or goes away.        *)
THEOREM LockExcludes == ~Overrun => (Spec => []MutualExclusion)
<1> SUFFICES ASSUME ~Overrun PROVE Spec => []MutualExclusion
  OBVIOUS
<1>1. BusInv /\ LockInv /\ [Next]_vars => LockInv'
  <2> SUFFICES ASSUME BusInv, LockInv, [Next]_vars PROVE LockInv'
    OBVIOUS
  <2>1. CASE LockStep
    BY <2>1, LockInvStep DEF BusInv
  <2>2. CASE PubSubStep \/ QueueStep \/ LogStep \/ UNCHANGED vars
    BY <2>2, Frame DEF LockInv, lockVars, vars
  <2> QED BY <2>1, <2>2, Steps
<1>2. LockInv => MutualExclusion
  BY DEF LockInv, Inside, MutualExclusion
<1> QED BY Start, <1>1, <1>2, BusInvariant, PTL DEF Spec

(* bus.go 92-170: no panic on a closed channel, as long as subscriptions   *)
(* are cancelled before Close.                                             *)
THEOREM NoChannelPanics == ~CloseEarly => (Spec => []ChannelsAreSafe)
<1> SUFFICES ASSUME ~CloseEarly PROVE Spec => []ChannelsAreSafe
  OBVIOUS
<1>1. BusInv /\ ChannelInv /\ [Next]_vars => ChannelInv'
  <2> SUFFICES ASSUME BusInv, ChannelInv, [Next]_vars PROVE ChannelInv'
    OBVIOUS
  <2>1. CASE PubSubStep
    BY <2>1, ChannelStep DEF BusInv
  <2>2. CASE LockStep \/ QueueStep \/ LogStep \/ UNCHANGED vars
    BY <2>2, Frame DEF ChannelInv, subVars, vars
  <2> QED BY <2>1, <2>2, Steps
<1>2. BusInv /\ ChannelInv => ChannelsAreSafe
  <2> SUFFICES ASSUME BusInv, ChannelInv, NEW w \in Workers
               PROVE  chan[w].closes <= 1 /\ (chan[w].closes > 0 => sub[w] = {})
    BY DEF ChannelsAreSafe
  <2>1. chan[w].closes \in Nat
    BY DEF BusInv, PubSubType, Channels
  <2>2. chan[w].closes <= 1 /\ (sub[w] # {} => chan[w].closes = 0)
    BY DEF ChannelInv
  <2> QED BY <2>1, <2>2
<1> QED BY Start, <1>1, <1>2, BusInvariant, PTL DEF Spec

(* session_coord.go 108-118, coord.go 281-383: any number of coordinators  *)
(* append to a log and trim it; each that has still to trim accounts for   *)
(* one more cap of entries.                                                *)
THEOREM LogStaysBounded == Spec => []LogIsBounded
<1>1. BusInv /\ LogIsBounded /\ [Next]_vars => LogIsBounded'
  <2> SUFFICES ASSUME BusInv, LogIsBounded, [Next]_vars PROVE LogIsBounded'
    OBVIOUS
  <2>1. CASE LogStep
    BY <2>1, LogBoundStep DEF BusInv
  <2>2. CASE PubSubStep
    <3>1. closed => closed'
      BY <2>2 DEF PubSubStep, Close, Publish, Subscribe, Receive, Unsubscribe
    <3> QED BY <2>2, <3>1, Frame DEF LogIsBounded, logVars
  <2>3. CASE LockStep \/ QueueStep \/ UNCHANGED vars
    BY <2>3, Frame DEF LogIsBounded, logVars, vars
  <2> QED BY <2>1, <2>2, <2>3, Steps
<1> QED BY Start, <1>1, BusInvariant, PTL DEF Spec
=============================================================================
