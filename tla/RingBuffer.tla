----------------------------- MODULE RingBuffer -----------------------------
(***************************************************************************)
(* src/ringbuffer.c, the first ring buffer of the project, as the loop of  *)
(* main_ringbuffer.c drives it: a number is enqueued, "dq" dequeues one    *)
(* element, "dqn" several.  A full buffer has its newest element           *)
(* overwritten.  RingBuffer_dequeueN, of which the source says "This       *)
(* doesn't work. Fix later.", moves head by the number asked for and count *)
(* by the number it copied; from then on they may disagree.                *)
(***************************************************************************)
EXTENDS Integers, Sequences

CONSTANTS maxElements, Elements,
          Unwritten,   \* what malloc left in a slot
          CountBound   \* bound on how far count may drift

ASSUME RingAssumption == maxElements \in Nat \ {0} /\ CountBound \in Nat /\ CountBound > maxElements

VARIABLES buffer, head, tail, count, full,
          queue,    \* history: the elements, oldest first, as the calls ask for it
          drifted   \* history: a dequeueN has copied another number than asked for

ringVars == <<buffer, head, tail, count, full, queue, drifted>>

Slots == 0 .. maxElements - 1

RingTypeOK ==
    /\ buffer \in [Slots -> Elements \cup {Unwritten}]
    /\ head \in Slots /\ tail \in Slots
    /\ count \in -CountBound - maxElements .. CountBound + 1
    /\ full \in BOOLEAN /\ drifted \in BOOLEAN
    /\ queue \in Seq(Elements) /\ Len(queue) <= maxElements

RingInit ==
    /\ buffer = [i \in Slots |-> Unwritten]
    /\ head = 0 /\ tail = 0 /\ count = 0 /\ full = FALSE
    /\ queue = <<>> /\ drifted = FALSE

-----------------------------------------------------------------------------
\* The slot before tail.
NewestSlot == IF tail - 1 < 0 THEN tail - 1 + maxElements ELSE tail - 1

EnqueueElement(e) ==
    /\ IF full
       THEN /\ buffer' = [buffer EXCEPT ![NewestSlot] = e]
            /\ UNCHANGED <<tail, full, count>>
       ELSE /\ buffer' = [buffer EXCEPT ![tail] = e]
            /\ tail' = (tail + 1) % maxElements
            /\ full' = (tail' = head)
            /\ count' = count + 1
    /\ queue' = Append(IF Len(queue) = maxElements
                       THEN SubSeq(queue, 1, maxElements - 1) ELSE queue, e)
    /\ UNCHANGED <<head, drifted>>

DequeueElement ==
    /\ count # 0
    /\ head' = (head + 1) % maxElements
    /\ full' = FALSE
    /\ count' = count - 1
    /\ queue' = IF queue = <<>> THEN queue ELSE Tail(queue)
    /\ UNCHANGED <<buffer, tail, drifted>>

\* The last slot dequeueN copies, from head on and round the end of the buffer.
EndSlot(n) ==
    LET end == (head + n) % maxElements
    IN  IF end < tail THEN end ELSE IF tail - 1 < 0 THEN tail - 1 + maxElements ELSE tail - 1

\* Mutant: the end is not cut off at tail.
Removed_NoClip(n) ==
    LET end == (head + n) % maxElements
    IN  IF end < head THEN maxElements - head + end + 1 ELSE end - head + 1

\* elementsRemoved.
Removed(n) ==
    IF EndSlot(n) < head
    THEN maxElements - head + EndSlot(n) + 1
    ELSE EndSlot(n) - head + 1

DequeueN(n) ==
    /\ n # 0 /\ count # 0 /\ n <= maxElements
    /\ head' = (head + n) % maxElements
    /\ full' = FALSE
    /\ count' = count - Removed(n)
    /\ queue' = SubSeq(queue, n + 1, Len(queue))
    /\ drifted' = (drifted \/ Removed(n) # n)
    /\ UNCHANGED <<buffer, tail>>

RingNext ==
    /\ count \in -CountBound .. CountBound
    /\ \/ \E e \in Elements : EnqueueElement(e)
       \/ DequeueElement
       \/ \E n \in 1 .. maxElements : DequeueN(n)

RingSpec == RingInit /\ [][RingNext]_ringVars

\* The slots printBuf prints; the others get an X.
Shown ==
    IF count = 0 THEN {}
    ELSE IF head = tail THEN Slots
    ELSE {i \in Slots : IF head < tail THEN head <= i /\ i < tail ELSE i < tail \/ head <= i}

-----------------------------------------------------------------------------
(* Properties. *)

\* The k-th oldest element is k slots after head.
Slot(k) == (head + k - 1) % maxElements

\* As long as dequeueN has done what it was asked for, the slots from head to
\* tail hold the elements in their order, and count and full say how many.
RingInStep ==
    ~drifted =>
        /\ count = Len(queue)
        /\ tail = (head + count) % maxElements
        /\ full <=> count = maxElements
        /\ \A k \in 1 .. count : buffer[Slot(k)] = queue[k]

\* What does not work about dequeueN (lines 109-189): it removes the number of
\* elements it is asked for if, and only if, that is all there are.
WorksForAllOnly ==
    ~drifted /\ count > 0 => \A n \in 1 .. maxElements : Removed(n) = n <=> n = count

\* printBuf shows the elements and nothing else (main_ringbuffer.c:14-69).
PrintShowsElements == ~drifted => Shown = {Slot(k) : k \in 1 .. Len(queue)}

\* The ring and what is printed of it stay in step until dequeueN has been asked
\* for less than all.
ElementsInv == RingInStep /\ WorksForAllOnly /\ PrintShowsElements
=============================================================================
