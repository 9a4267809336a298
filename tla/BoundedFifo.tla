---------------------------- MODULE BoundedFifo ----------------------------
(***************************************************************************)
(* What lfringbuffer.c promises its users: a bounded first-in first-out    *)
(* pool of pointers.  A thread that holds an item may put it at the tail   *)
(* while there is room, and a thread may take the item at the head.  An    *)
(* item is owned by one thread or lies in the queue, never both and never  *)
(* neither.  A refused put and an empty-handed get change nothing.         *)
(***************************************************************************)
EXTENDS Naturals, Sequences

CONSTANTS Threads,    \* the threads that share the pool
          Capacity,   \* the number of slots
          FillOrder   \* the items, in the order they were first put

VARIABLES queue,      \* the items in the pool, oldest first
          held        \* held[t]: the items thread t owns

vars == <<queue, held>>

Init ==
    /\ queue = FillOrder
    /\ held = [t \in Threads |-> {}]

Put(t) ==
    /\ Len(queue) < Capacity
    /\ \E v \in held[t] :
          /\ queue' = Append(queue, v)
          /\ held' = [held EXCEPT ![t] = @ \ {v}]

Get(t) ==
    /\ queue # <<>>
    /\ queue' = Tail(queue)
    /\ held' = [held EXCEPT ![t] = @ \cup {Head(queue)}]

Next == \E t \in Threads : Put(t) \/ Get(t)

Spec == Init /\ [][Next]_vars

-----------------------------------------------------------------------------
Items == {FillOrder[i] : i \in 1..Len(FillOrder)}

InQueue == {queue[i] : i \in DOMAIN queue}

\* Every item lies in the queue once or is owned by one thread.
Conserved ==
    /\ InQueue \cup UNION {held[t] : t \in Threads} = Items
    /\ \A i, j \in DOMAIN queue : queue[i] = queue[j] => i = j
    /\ \A t \in Threads : held[t] \cap InQueue = {}
    /\ \A t, u \in Threads : held[t] \cap held[u] # {} => t = u
=============================================================================
