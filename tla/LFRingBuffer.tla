---------------------------- MODULE LFRingBuffer ----------------------------
(***************************************************************************)
(* src/lfringbuffer.c: the lock-free ring that audio.c uses twice, as the  *)
(* pool of free frame buffers and as the pool of free queue nodes.  One    *)
(* action per atomic load, store or compare-and-swap, so that every        *)
(* interleaving of the threads is explored.  Memory is sequentially        *)
(* consistent: the shared accesses of the code are __ATOMIC_SEQ_CST or     *)
(* aligned word accesses.  buffer->count is left out: the code marks it    *)
(* as untrusted, for debugging only, and nothing decides on it.            *)
(*                                                                         *)
(* Threads use the ring the way audio.c uses its pools: a thread enqueues  *)
(* an item it owns and owns what it dequeues.                              *)
(***************************************************************************)
EXTENDS Integers, Sequences, FiniteSets

CONSTANTS Threads,    \* threads that call the ring
          Size,       \* buffer->size
          FillOrder,  \* items in the order the init loop enqueued them
          Null,       \* the C null pointer, the mark of a claimed slot
          Junk,       \* the non-null bytes that memset puts in every slot
          Horizon     \* bound: tickets handed out before the run ends

Items == {FillOrder[i] : i \in 1..Len(FillOrder)}

ASSUME ThreadsAssumption == Threads # {}
ASSUME SizeAssumption == Size \in Nat \ {0}
ASSUME FillAssumption ==
    /\ FillOrder \in Seq(Items)
    /\ Len(FillOrder) \in 0..Size
    /\ \A i, j \in 1..Len(FillOrder) : FillOrder[i] = FillOrder[j] => i = j
ASSUME SentinelAssumption == Null \notin Items /\ Junk \notin Items /\ Junk # Null

VARIABLES readPointer,   \* next ticket to take
          writePointer,  \* next ticket to hand out
          buffer,        \* buffer[i]: contents of slot i
          pc,            \* pc[t]: the step thread t is about to do
          rp, wp,        \* locals readPointer and writePointer
          old,           \* local oldValue (enqueue) or result (dequeue)
          val,           \* argument of RingBuffer_enqueue
          held           \* held[t]: items owned by thread t outside the ring

vars == <<readPointer, writePointer, buffer, pc, rp, wp, old, val, held>>

EnqLabels == {"e_rp", "e_wp", "e_slot", "e_claim", "e_adv", "e_undo", "e_store"}
DeqLabels == {"d_wp", "d_rp", "d_slot", "d_adv"}

\* The slot of a ticket: realPointer in the code.
IndexOf(p) == p % Size

Slots == 0 .. Size - 1

TypeOK ==
    /\ readPointer \in Nat
    /\ writePointer \in Nat
    /\ buffer \in [Slots -> Items \cup {Null, Junk}]
    /\ pc \in [Threads -> {"idle"} \cup EnqLabels \cup DeqLabels]
    /\ rp \in [Threads -> Nat]
    /\ wp \in [Threads -> Nat]
    /\ old \in [Threads -> Items \cup {Null, Junk}]
    /\ val \in [Threads -> Items \cup {Null}]
    /\ held \in [Threads -> SUBSET Items]

\* RingBuffer_init, then the loop of initFreeBuffers / initFreeNodes, which
\* one thread runs before any other exists.
Init ==
    /\ readPointer = 0
    /\ writePointer = Len(FillOrder)
    /\ buffer = [i \in Slots |->
                    IF i < Len(FillOrder) THEN FillOrder[i + 1] ELSE Junk]
    /\ pc = [t \in Threads |-> "idle"]
    /\ rp = [t \in Threads |-> 0]
    /\ wp = [t \in Threads |-> 0]
    /\ old = [t \in Threads |-> Null]
    /\ val = [t \in Threads |-> Null]
    /\ held = [t \in Threads |-> {}]

-----------------------------------------------------------------------------
shared == <<readPointer, writePointer, buffer, held>>
locals == <<rp, wp, old, val>>

Goto(t, label) == pc' = [pc EXCEPT ![t] = label]

\* The call returns: its locals are dead.
Return(t) ==
    /\ Goto(t, "idle")
    /\ rp' = [rp EXCEPT ![t] = 0]
    /\ wp' = [wp EXCEPT ![t] = 0]
    /\ old' = [old EXCEPT ![t] = Null]
    /\ val' = [val EXCEPT ![t] = Null]

Slot(t) == IndexOf(wp[t])

\* --- RingBuffer_enqueue --------------------------------------------------

Enqueue(t, v) ==
    /\ pc[t] = "idle"
    /\ v \in held[t]
    /\ writePointer + Cardinality({u \in Threads : pc[u] \in EnqLabels}) < Horizon
    /\ val' = [val EXCEPT ![t] = v]
    /\ Goto(t, "e_rp")
    /\ UNCHANGED <<shared, rp, wp, old>>

EnqLoadRead(t) ==
    /\ pc[t] = "e_rp"
    /\ rp' = [rp EXCEPT ![t] = readPointer]
    /\ Goto(t, "e_wp")
    /\ UNCHANGED <<shared, wp, old, val>>

EnqRefuse(t) ==
    /\ pc[t] = "e_wp"
    /\ writePointer - rp[t] >= Size
    /\ Return(t)
    /\ UNCHANGED shared

EnqLoadWrite(t) ==
    /\ pc[t] = "e_wp"
    /\ writePointer - rp[t] < Size
    /\ wp' = [wp EXCEPT ![t] = writePointer]
    /\ Goto(t, "e_slot")
    /\ UNCHANGED <<shared, rp, old, val>>

EnqLoadSlot(t) ==
    /\ pc[t] = "e_slot"
    /\ old' = [old EXCEPT ![t] = buffer[Slot(t)]]
    /\ Goto(t, IF buffer[Slot(t)] = Null THEN "e_rp" ELSE "e_claim")
    /\ UNCHANGED <<shared, rp, wp, val>>

EnqClaim_Blind(t) ==
    /\ pc[t] = "e_claim"
    /\ buffer' = [buffer EXCEPT ![Slot(t)] = Null]
    /\ Goto(t, "e_adv")
    /\ UNCHANGED <<readPointer, writePointer, held, locals>>

EnqClaim(t) ==
    /\ pc[t] = "e_claim"
    /\ \/ /\ buffer[Slot(t)] = old[t]
          /\ buffer' = [buffer EXCEPT ![Slot(t)] = Null]
          /\ Goto(t, "e_adv")
       \/ /\ buffer[Slot(t)] # old[t]
          /\ Goto(t, "e_rp")
          /\ UNCHANGED buffer
    /\ UNCHANGED <<readPointer, writePointer, held, locals>>

\* Taking the ticket without comparing: a plain increment.
EnqAdvance_NoCompare(t) ==
    /\ pc[t] = "e_adv"
    /\ writePointer' = writePointer + 1
    /\ held' = [held EXCEPT ![t] = @ \ {val[t]}]
    /\ Goto(t, "e_store")
    /\ UNCHANGED <<readPointer, buffer, locals>>

EnqAdvance(t) ==
    /\ pc[t] = "e_adv"
    /\ \/ /\ writePointer = wp[t]
          /\ writePointer' = wp[t] + 1
          /\ held' = [held EXCEPT ![t] = @ \ {val[t]}]
          /\ Goto(t, "e_store")
       \/ /\ writePointer # wp[t]
          /\ Goto(t, "e_undo")
          /\ UNCHANGED <<writePointer, held>>
    /\ UNCHANGED <<readPointer, buffer, locals>>

\* Forgetting to give the slot back.
EnqUndo_Forget(t) ==
    /\ pc[t] = "e_undo"
    /\ Goto(t, "e_rp")
    /\ UNCHANGED <<shared, locals>>

EnqUndo(t) ==
    /\ pc[t] = "e_undo"
    /\ buffer' = IF buffer[Slot(t)] = Null
                 THEN [buffer EXCEPT ![Slot(t)] = old[t]] ELSE buffer
    /\ Goto(t, "e_rp")
    /\ UNCHANGED <<readPointer, writePointer, held, locals>>

EnqStore(t) ==
    /\ pc[t] = "e_store"
    /\ buffer' = [buffer EXCEPT ![Slot(t)] = val[t]]
    /\ Return(t)
    /\ UNCHANGED <<readPointer, writePointer, held>>

\* --- RingBuffer_dequeue --------------------------------------------------

Dequeue(t) ==
    /\ pc[t] = "idle"
    /\ Goto(t, "d_wp")
    /\ UNCHANGED <<shared, locals>>

DeqLoadWrite(t) ==
    /\ pc[t] = "d_wp"
    /\ wp' = [wp EXCEPT ![t] = writePointer]
    /\ Goto(t, "d_rp")
    /\ UNCHANGED <<shared, rp, old, val>>

DeqLoadRead(t) ==
    /\ pc[t] = "d_rp"
    /\ \/ /\ readPointer >= wp[t]
          /\ Return(t)
       \/ /\ readPointer < wp[t]
          /\ rp' = [rp EXCEPT ![t] = readPointer]
          /\ Goto(t, "d_slot")
          /\ UNCHANGED <<wp, old, val>>
    /\ UNCHANGED shared

DeqLoadSlot(t) ==
    /\ pc[t] = "d_slot"
    /\ \/ /\ buffer[IndexOf(rp[t])] = Null
          /\ Return(t)
       \/ /\ buffer[IndexOf(rp[t])] # Null
          /\ old' = [old EXCEPT ![t] = buffer[IndexOf(rp[t])]]
          /\ Goto(t, "d_adv")
          /\ UNCHANGED <<rp, wp, val>>
    /\ UNCHANGED shared

\* Moving the head without comparing: another consumer may have moved it.
DeqAdvance_NoCompare(t) ==
    /\ pc[t] = "d_adv"
    /\ readPointer' = readPointer + 1
    /\ held' = [held EXCEPT ![t] = @ \cup {old[t]}]
    /\ Return(t)
    /\ UNCHANGED <<writePointer, buffer>>

DeqAdvance(t) ==
    /\ pc[t] = "d_adv"
    /\ \/ /\ readPointer = rp[t]
          /\ readPointer' = rp[t] + 1
          /\ held' = [held EXCEPT ![t] = @ \cup {old[t]}]
          /\ Return(t)
       \/ /\ readPointer # rp[t]
          /\ Goto(t, "d_wp")
          /\ UNCHANGED <<readPointer, held, locals>>
    /\ UNCHANGED <<writePointer, buffer>>

-----------------------------------------------------------------------------
Call(t) == Dequeue(t) \/ \E v \in Items : Enqueue(t, v)

Step(t) ==
    \/ EnqLoadRead(t) \/ EnqRefuse(t) \/ EnqLoadWrite(t) \/ EnqLoadSlot(t)
    \/ EnqClaim(t) \/ EnqAdvance(t) \/ EnqUndo(t) \/ EnqStore(t)
    \/ DeqLoadWrite(t) \/ DeqLoadRead(t) \/ DeqLoadSlot(t) \/ DeqAdvance(t)

Next == \E t \in Threads : Call(t) \/ Step(t)

Spec == Init /\ [][Next]_vars

\* A thread that is inside a call keeps running.  Nothing obliges it to call.
FairSpec == Spec /\ \A t \in Threads : WF_vars(Step(t))

-----------------------------------------------------------------------------
(***************************************************************************)
(* What the ring holds.  A producer that has claimed a slot has left Null  *)
(* in it; what the slot stands for is then in that producer's locals.      *)
(***************************************************************************)
Claims(t, s) == pc[t] \in {"e_adv", "e_undo", "e_store"} /\ Slot(t) = s

Claimant(s) == CHOOSE t \in Threads : Claims(t, s)

\* The item the claimed slot will show once its claimant is done with it.
Pending(t) == IF pc[t] = "e_store" THEN val[t] ELSE old[t]

SlotContent(s) == IF buffer[s] # Null THEN buffer[s] ELSE Pending(Claimant(s))

Content(p) == SlotContent(IndexOf(p))

Live == readPointer .. writePointer - 1

LiveQueue == [i \in 1 .. writePointer - readPointer |->
                Content(readPointer + i - 1)]

Fifo == INSTANCE BoundedFifo WITH Capacity <- Size, queue <- LiveQueue

-----------------------------------------------------------------------------
(***************************************************************************)
(* The inductive invariant, part by part.                                  *)
(***************************************************************************)
\* The pool never holds more than Size items and never a negative number.
PointersInv ==
    /\ readPointer <= writePointer
    /\ writePointer - readPointer <= Size

\* A snapshot never runs ahead of the pointer it was read from, and a ticket
\* that passed the full or empty test was inside the window when it did.
SnapshotInv ==
    \A t \in Threads :
        /\ rp[t] <= readPointer
        /\ wp[t] <= writePointer
        /\ pc[t] \in EnqLabels \ {"e_rp", "e_wp"} => wp[t] - rp[t] < Size
        /\ pc[t] \in {"d_slot", "d_adv"} => rp[t] < wp[t]

\* A slot is Null exactly while one producer has it claimed.
ClaimInv ==
    /\ \A s \in Slots : buffer[s] = Null <=> \E t \in Threads : Claims(t, s)
    /\ \A t, u \in Threads :
          \A s \in Slots : Claims(t, s) /\ Claims(u, s) => t = u

\* A producer that has a ticket stores inside the window; one that is giving
\* the slot back has lost the race for its ticket.
TicketInv ==
    \A t \in Threads :
        /\ pc[t] = "e_store" => readPointer <= wp[t] /\ wp[t] < writePointer
        /\ pc[t] = "e_undo" => wp[t] < writePointer
        /\ pc[t] \in {"e_claim", "e_adv", "e_undo"} => old[t] # Null
        /\ pc[t] \in EnqLabels => val[t] \in Items
        /\ pc[t] \in EnqLabels \ {"e_store"} => val[t] \in held[t]

\* A consumer that has read an item for its ticket read it after the producer
\* of that ticket had stored it.
StoredInv ==
    \A t, u \in Threads :
        pc[t] = "d_adv" /\ pc[u] = "e_store" => rp[t] # wp[u]

\* What a live ticket stands for is an item, not Junk, and a consumer about
\* to take the head ticket has read the item of that ticket.
ContentInv ==
    /\ \A p \in Live : Content(p) \in Items
    /\ \A t \in Threads :
          pc[t] = "d_adv" /\ rp[t] = readPointer => old[t] = Content(readPointer)

IInv ==
    /\ TypeOK /\ PointersInv /\ SnapshotInv
    /\ ClaimInv /\ TicketInv /\ StoredInv /\ ContentInv

-----------------------------------------------------------------------------
(***************************************************************************)
(* Properties.                                                             *)
(***************************************************************************)
\* The ring is a bounded FIFO: each call takes effect at its successful
\* compare-and-swap on a pointer, or not at all.
RefinesFifo == Fifo!Spec

\* No frame buffer is lost, shared by two threads, or in the pool twice,
\* at any interleaving of RingBuffer_enqueue and RingBuffer_dequeue.
ItemsConserved == Fifo!Conserved

\* The ring is free of locks: while calls are under way and their threads keep
\* running, calls return again and again.  The continues of lines 42 and 46 and
\* the loop of lines 69-89 do not chase each other for ever.  One call may be
\* overtaken without end: it goes round only when another has got through.
\* It does not hold because of Horizon: a behaviour that refutes it has finitely
\* many returns, and so finitely many moves of the pointers.
SomeCallReturns ==
    \/ []<>(\A t \in Threads : pc[t] = "idle")
    \/ []<><<\E t \in Threads : pc[t] # "idle" /\ pc'[t] = "idle">>_vars

\* bufferFree's comment: enqueueing an item that was taken from the pool
\* never finds the pool full ("This shouldn't happen", src/audio.c:582).
PoolNeverRefuses == [][\A t \in Threads : ~ (pc[t] = "e_wp" /\ pc'[t] = "idle")]_vars
=============================================================================
