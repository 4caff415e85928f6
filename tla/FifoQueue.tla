------------------------------- MODULE FifoQueue -------------------------------
(***************************************************************************)
(* The queue of the message bus as its callers see it, free of the map, the *)
(* queue objects and the notify tokens: a push or a pop takes effect at one *)
(* moment between its call and its return, on the one queue there is; a pop *)
(* takes the oldest value, and leaves without one only empty-handed, when   *)
(* its caller gives up or the bus is closed.                               *)
(***************************************************************************)
EXTENDS Sequences

CONSTANTS Workers, Values

VARIABLES items,     \* the values pushed and not yet popped, oldest first
          popped,    \* the values popped, in this order
          op         \* worker -> what it is in the middle of

vars == <<items, popped, op>>

Idle == [is |-> "idle"]
Pushing(v) == [is |-> "push", v |-> v]
Pushed == [is |-> "pushed"]
Popping == [is |-> "pop"]

Init ==
    /\ items = <<>> /\ popped = <<>>
    /\ op = [w \in Workers |-> Idle]

Goes(w, from, to) == op[w] = from /\ op' = [op EXCEPT ![w] = to]

CallPush(w) == \E v \in Values : Goes(w, Idle, Pushing(v)) /\ UNCHANGED <<items, popped>>

Push(w) ==
    \E v \in Values : /\ Goes(w, Pushing(v), Pushed)
                      /\ items' = Append(items, v)
                      /\ UNCHANGED popped

ReturnPush(w) == Goes(w, Pushed, Idle) /\ UNCHANGED <<items, popped>>

CallPop(w) == Goes(w, Idle, Popping) /\ UNCHANGED <<items, popped>>

Pop(w) ==
    /\ items # <<>> /\ Goes(w, Popping, Idle)
    /\ popped' = Append(popped, Head(items))
    /\ items' = Tail(items)

LeavePop(w) == Goes(w, Popping, Idle) /\ UNCHANGED <<items, popped>>

Next == \E w \in Workers :
    CallPush(w) \/ Push(w) \/ ReturnPush(w) \/ CallPop(w) \/ Pop(w) \/ LeavePop(w)

Spec == Init /\ [][Next]_vars
===============================================================================
