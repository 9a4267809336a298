------------------------------ MODULE Channels ------------------------------
(***************************************************************************)
(* What lfqueue.c promises audio.c: each queue is an unbounded first-in    *)
(* first-out channel from its producers to its consumer.                   *)
(***************************************************************************)
EXTENDS Naturals, Sequences

CONSTANTS Queues, Values,
          Null       \* what a queue has delivered before its first value

VARIABLES chan,      \* chan[q]: the values in q, oldest first
          delivered  \* delivered[q]: the last value taken out of q

vars == <<chan, delivered>>

Init ==
    /\ chan = [q \in Queues |-> <<>>]
    /\ delivered = [q \in Queues |-> Null]

Send(q, v) ==
    /\ chan' = [chan EXCEPT ![q] = Append(@, v)]
    /\ UNCHANGED delivered

Receive(q) ==
    /\ chan[q] # <<>>
    /\ chan' = [chan EXCEPT ![q] = Tail(@)]
    /\ delivered' = [delivered EXCEPT ![q] = Head(chan[q])]

Next == \E q \in Queues : Receive(q) \/ \E v \in Values : Send(q, v)

Spec == Init /\ [][Next]_vars
=============================================================================
