------------------------ MODULE LFRingBuffer_proofs ------------------------
(***************************************************************************)
(* Theorems of LFRingBuffer, for any threads, ring size and items.         *)
(***************************************************************************)
EXTENDS LFRingBuffer, SequenceTheorems, TLAPS

(***************************************************************************)
(* Arithmetic of slots: tickets less than Size apart have different slots. *)
(***************************************************************************)
LEMMA Division ==
  ASSUME NEW a \in Nat
  PROVE  /\ a \div Size \in Nat
         /\ a % Size \in 0 .. Size - 1
         /\ a = Size * (a \div Size) + (a % Size)
  BY SizeAssumption, Z3

\* Of the multiples of n only 0 lies below n, and not below 0.
LEMMA SmallMultiple ==
  ASSUME NEW n \in Nat \ {0}, NEW k \in Int, 0 <= n * k, n * k < n
  PROVE  k = 0
<1>1. CASE k >= 1
  <2>1. n * k >= n  BY <1>1, Z3
  <2> QED  BY <2>1, Z3
<1>2. CASE k <= -1
  <2>1. n * k <= -n  BY <1>2, Z3
  <2> QED  BY <2>1, Z3
<1> QED  BY <1>1, <1>2, Z3

\* Two tickets less than Size apart have different slots.
LEMMA IndexInjective ==
  ASSUME NEW a \in Nat, NEW b \in Nat,
         a <= b, b - a < Size, IndexOf(a) = IndexOf(b)
  PROVE  a = b
<1> DEFINE k == (b \div Size) - (a \div Size)
<1>1. k \in Int  BY Division
<1>2. b - a = Size * k  BY Division, SizeAssumption, Z3 DEF IndexOf
<1>3. k = 0  BY <1>1, <1>2, SmallMultiple, SizeAssumption
<1> QED  BY <1>2, <1>3, SizeAssumption

\* A ticket has a slot.
LEMMA IndexRange == ASSUME NEW a \in Nat PROVE IndexOf(a) \in Slots
  BY Division DEF IndexOf, Slots

\* The first tickets have the slots in order.
LEMMA IndexSmall == ASSUME NEW a \in Slots PROVE IndexOf(a) = a
<1>1. a \in Nat /\ a < Size  BY SizeAssumption DEF Slots
<1>2. IndexOf(a) \in 0 .. Size - 1 /\ IndexOf(IndexOf(a)) = IndexOf(a)
  BY <1>1, SizeAssumption, Z3 DEF IndexOf
<1> QED  BY <1>1, SizeAssumption, Z3 DEF IndexOf

-----------------------------------------------------------------------------
ContentsKept == \A s \in Slots : SlotContent(s)' = SlotContent(s)

OthersKept(t) ==
    \A u \in Threads \ {t} :
        /\ pc'[u] = pc[u] /\ rp'[u] = rp[u] /\ wp'[u] = wp[u]
        /\ old'[u] = old[u] /\ val'[u] = val[u]

ClaimLabels == {"e_adv", "e_undo", "e_store"}

\* A claimed slot has one claimant, which CHOOSE must pick.
LEMMA ClaimantIs ==
  ASSUME ClaimInv, NEW t \in Threads, NEW s \in Slots, Claims(t, s)
  PROVE  Claimant(s) = t
  BY DEF ClaimInv, Claimant

\* The claimant of a slot in the next state is named by the next state.
LEMMA ClaimantIsPrimed ==
  ASSUME ClaimInv', NEW t \in Threads, NEW s \in Slots, Claims(t, s)'
  PROVE  Claimant(s)' = t
  BY DEF ClaimInv, Claimant

\* A step that leaves the slots alone, by a thread that has no claim before
\* or after it, changes nothing the ring stands for.
LEMMA Quiet ==
  ASSUME IInv, NEW t \in Threads, OthersKept(t), buffer' = buffer,
         pc[t] \notin ClaimLabels, pc'[t] \notin ClaimLabels
  PROVE  ClaimInv' /\ ContentsKept
<1>1. \A u \in Threads, s \in Slots : Claims(u, s)' <=> Claims(u, s)
  BY DEF Claims, Slot, OthersKept, ClaimLabels
<1>2. ClaimInv'
  BY <1>1 DEF IInv, ClaimInv
<1>3. ASSUME NEW s \in Slots PROVE SlotContent(s)' = SlotContent(s)
  <2>1. CASE buffer[s] # Null
    BY <2>1 DEF SlotContent
  <2>2. CASE buffer[s] = Null
    <3>1. PICK u \in Threads : Claims(u, s)
      BY <2>2 DEF IInv, ClaimInv
    <3>2. Claimant(s) = u /\ Claimant(s)' = u
      BY <3>1, <1>1, <1>2, ClaimantIs, ClaimantIsPrimed DEF IInv
    <3>3. Pending(u)' = Pending(u)
      BY <3>1 DEF Claims, OthersKept, ClaimLabels, Pending
    <3> QED  BY <2>2, <3>2, <3>3 DEF SlotContent
  <2> QED  BY <2>1, <2>2
<1> QED  BY <1>2, <1>3 DEF ContentsKept

-----------------------------------------------------------------------------
(***************************************************************************)
(* Type correctness.                                                       *)
(***************************************************************************)
LEMMA TypeInit == Init => TypeOK
<1> SUFFICES ASSUME Init PROVE TypeOK  OBVIOUS
<1>1. Len(FillOrder) \in Nat /\ \A i \in 1..Len(FillOrder) : FillOrder[i] \in Items
  BY FillAssumption DEF Items
<1>2. buffer \in [Slots -> Items \cup {Null, Junk}]
  <2>1. ASSUME NEW i \in Slots, i < Len(FillOrder) PROVE FillOrder[i + 1] \in Items
    BY <1>1, <2>1, SizeAssumption DEF Slots
  <2> QED  BY <2>1 DEF Init
<1> QED  BY <1>1, <1>2 DEF Init, TypeOK

\* The type is not inductive by itself: that a consumer leaves with an item
\* and not with Null or Junk is the work of the other conjuncts.
LEMMA HeadItem ==
  ASSUME IInv, NEW t \in Threads, pc[t] = "d_adv", rp[t] = readPointer
  PROVE  old[t] \in Items /\ readPointer < writePointer
<1>1. readPointer < writePointer
  BY DEF IInv, TypeOK, SnapshotInv
<1>2. readPointer \in Live  BY <1>1 DEF Live, IInv, TypeOK
<1> QED  BY <1>1, <1>2 DEF IInv, ContentInv

\* No step breaks the type invariant.
LEMMA TypeStep == IInv /\ [Next]_vars => TypeOK'
<1> SUFFICES ASSUME IInv, [Next]_vars PROVE TypeOK'  OBVIOUS
<1>0. TypeOK  BY DEF IInv
<1> USE <1>0
<1> USE DEF TypeOK, EnqLabels, DeqLabels, Goto, Return, shared, locals
<1>1. ASSUME NEW t \in Threads, NEW v \in Items, Enqueue(t, v) PROVE TypeOK'
  BY <1>1 DEF Enqueue
<1>2. ASSUME NEW t \in Threads, EnqLoadRead(t) PROVE TypeOK'
  BY <1>2 DEF EnqLoadRead
<1>3. ASSUME NEW t \in Threads, EnqRefuse(t) PROVE TypeOK'
  BY <1>3 DEF EnqRefuse
<1>4. ASSUME NEW t \in Threads, EnqLoadWrite(t) PROVE TypeOK'
  BY <1>4 DEF EnqLoadWrite
<1>5. ASSUME NEW t \in Threads, EnqLoadSlot(t) PROVE TypeOK'
  BY <1>5, IndexRange DEF EnqLoadSlot, Slot
<1>6. ASSUME NEW t \in Threads, EnqClaim(t) PROVE TypeOK'
  BY <1>6 DEF EnqClaim
<1>7. ASSUME NEW t \in Threads, EnqAdvance(t) PROVE TypeOK'
  BY <1>7 DEF EnqAdvance
<1>8. ASSUME NEW t \in Threads, EnqUndo(t) PROVE TypeOK'
  BY <1>8 DEF EnqUndo
<1>9. ASSUME NEW t \in Threads, EnqStore(t) PROVE TypeOK'
  <2>1. buffer' \in [Slots -> Items \cup {Null, Junk}]
    <3>1. val[t] \in Items \cup {Null, Junk}  OBVIOUS
    <3> QED  BY <1>9, <3>1 DEF EnqStore
  <2> QED  BY <1>9, <2>1 DEF EnqStore
<1>10. ASSUME NEW t \in Threads, Dequeue(t) PROVE TypeOK'
  BY <1>10 DEF Dequeue
<1>11. ASSUME NEW t \in Threads, DeqLoadWrite(t) PROVE TypeOK'
  BY <1>11 DEF DeqLoadWrite
<1>12. ASSUME NEW t \in Threads, DeqLoadRead(t) PROVE TypeOK'
  BY <1>12 DEF DeqLoadRead
<1>13. ASSUME NEW t \in Threads, DeqLoadSlot(t) PROVE TypeOK'
  BY <1>13, IndexRange DEF DeqLoadSlot
<1>14. ASSUME NEW t \in Threads, DeqAdvance(t) PROVE TypeOK'
  <2>1. CASE readPointer = rp[t]
    <3>1. old[t] \in Items  BY <1>14, <2>1, HeadItem DEF DeqAdvance
    <3> QED  BY <1>14, <2>1, <3>1 DEF DeqAdvance
  <2>2. CASE readPointer # rp[t]
    BY <1>14, <2>2 DEF DeqAdvance
  <2> QED  BY <2>1, <2>2
<1>15. CASE UNCHANGED vars
  BY <1>15 DEF vars
<1> QED
  BY <1>1, <1>2, <1>3, <1>4, <1>5, <1>6, <1>7, <1>8, <1>9, <1>10, <1>11,
     <1>12, <1>13, <1>14, <1>15 DEF Next, Call, Step

-----------------------------------------------------------------------------
(***************************************************************************)
(* The inductive invariant.                                                *)
(***************************************************************************)
LEMMA InitContent ==
  ASSUME Init, NEW p \in Slots, p < Len(FillOrder)
  PROVE  Content(p) = FillOrder[p + 1] /\ FillOrder[p + 1] \in Items
<1>1. p + 1 \in 1 .. Len(FillOrder)  BY FillAssumption, SizeAssumption DEF Slots
<1>2. FillOrder[p + 1] \in Items  BY <1>1 DEF Items
<1>3. buffer[p] = FillOrder[p + 1]  BY DEF Init
<1> QED  BY <1>2, <1>3, IndexSmall, SentinelAssumption DEF Content, SlotContent

\* The ring as it is filled at first.
LEMMA InvInit == Init => IInv
<1> SUFFICES ASSUME Init PROVE IInv  OBVIOUS
<1>1. TypeOK  BY TypeInit
<1>2. PointersInv  BY FillAssumption, SizeAssumption DEF Init, PointersInv
<1>3. SnapshotInv
  BY FillAssumption, SizeAssumption DEF Init, SnapshotInv, EnqLabels
<1>4. ClaimInv
  <2>1. ASSUME NEW s \in Slots PROVE buffer[s] # Null
    <3>1. CASE s < Len(FillOrder)
      <4>1. s + 1 \in 1 .. Len(FillOrder)
        BY <3>1, FillAssumption, SizeAssumption DEF Slots
      <4>2. FillOrder[s + 1] \in Items  BY <4>1 DEF Items
      <4> QED  BY <3>1, <4>2, SentinelAssumption DEF Init
    <3>2. CASE ~ (s < Len(FillOrder))
      BY <3>2, SentinelAssumption DEF Init
    <3> QED  BY <3>1, <3>2
  <2>2. \A t \in Threads, s \in Slots : ~ Claims(t, s)
    BY DEF Init, Claims
  <2> QED  BY <2>1, <2>2 DEF ClaimInv
<1>5. TicketInv  BY DEF Init, TicketInv, EnqLabels
<1>7. StoredInv  BY DEF Init, StoredInv
<1>6. ContentInv
  <2>1. ASSUME NEW p \in Live PROVE Content(p) \in Items
    <3>1. p \in Slots /\ p < Len(FillOrder)
      BY FillAssumption, SizeAssumption DEF Live, Init, Slots
    <3> QED  BY <3>1, InitContent
  <2> QED  BY <2>1 DEF ContentInv, Init
<1> QED  BY <1>1, <1>2, <1>3, <1>4, <1>5, <1>6, <1>7 DEF IInv

\* A step that keeps what the slots stand for and hands out no ticket keeps
\* the contents of the live tickets.
LEMMA LiveKept ==
  ASSUME IInv, ContentsKept, writePointer' = writePointer,
         readPointer' \in Nat, readPointer <= readPointer'
  PROVE  \A p \in Live' : Content(p)' \in Items /\ Content(p)' = Content(p)
<1> SUFFICES ASSUME NEW p \in Live' PROVE Content(p)' \in Items /\ Content(p)' = Content(p)
  OBVIOUS
<1>1. p \in Live /\ p \in Nat  BY DEF Live, IInv, TypeOK
<1>2. IndexOf(p) \in Slots  BY <1>1, IndexRange
<1>3. Content(p)' = Content(p)
  BY <1>2 DEF Content, ContentsKept, IndexOf
<1> QED  BY <1>1, <1>3 DEF IInv, ContentInv

\* The steps that touch neither the slots nor the pointers.
LEMMA InvLocal ==
  ASSUME IInv, TypeOK', NEW t \in Threads,
         \/ \E v \in Items : Enqueue(t, v)
         \/ EnqLoadRead(t) \/ EnqRefuse(t) \/ EnqLoadWrite(t) \/ EnqLoadSlot(t)
         \/ Dequeue(t) \/ DeqLoadWrite(t) \/ DeqLoadRead(t) \/ DeqLoadSlot(t)
  PROVE  IInv' /\ UNCHANGED shared /\ ContentsKept
<1> DEFINE S == \/ \E v \in Items : Enqueue(t, v)
                \/ EnqLoadRead(t) \/ EnqRefuse(t) \/ EnqLoadWrite(t) \/ EnqLoadSlot(t)
                \/ Dequeue(t) \/ DeqLoadWrite(t) \/ DeqLoadRead(t) \/ DeqLoadSlot(t)
<1> USE DEF Goto, Return, locals
<1>1. UNCHANGED shared
  BY DEF Enqueue, EnqLoadRead, EnqRefuse, EnqLoadWrite, EnqLoadSlot, Dequeue,
         DeqLoadWrite, DeqLoadRead, DeqLoadSlot
<1>2. OthersKept(t) /\ pc[t] \notin ClaimLabels /\ pc'[t] \notin ClaimLabels
  <2>1. /\ DOMAIN pc = Threads /\ DOMAIN rp = Threads /\ DOMAIN wp = Threads
        /\ DOMAIN old = Threads /\ DOMAIN val = Threads
    BY DEF IInv, TypeOK
  <2>2. CASE \E v \in Items : Enqueue(t, v)
    BY <2>1, <2>2 DEF Enqueue, OthersKept, ClaimLabels
  <2>3. CASE EnqLoadRead(t)
    BY <2>1, <2>3 DEF EnqLoadRead, OthersKept, ClaimLabels
  <2>4. CASE EnqRefuse(t)
    BY <2>1, <2>4 DEF EnqRefuse, OthersKept, ClaimLabels
  <2>5. CASE EnqLoadWrite(t)
    BY <2>1, <2>5 DEF EnqLoadWrite, OthersKept, ClaimLabels
  <2>6. CASE EnqLoadSlot(t)
    BY <2>1, <2>6 DEF EnqLoadSlot, OthersKept, ClaimLabels
  <2>7. CASE Dequeue(t)
    BY <2>1, <2>7 DEF Dequeue, OthersKept, ClaimLabels
  <2>8. CASE DeqLoadWrite(t)
    BY <2>1, <2>8 DEF DeqLoadWrite, OthersKept, ClaimLabels
  <2>9. CASE DeqLoadRead(t)
    BY <2>1, <2>9 DEF DeqLoadRead, OthersKept, ClaimLabels
  <2>10. CASE DeqLoadSlot(t)
    BY <2>1, <2>10 DEF DeqLoadSlot, OthersKept, ClaimLabels
  <2> QED
    BY <2>2, <2>3, <2>4, <2>5, <2>6, <2>7, <2>8, <2>9, <2>10
<1>3. ClaimInv' /\ ContentsKept  BY <1>1, <1>2, Quiet DEF shared
<1>4. PointersInv'  BY <1>1 DEF IInv, PointersInv, shared
<1>5. SnapshotInv'
  <2> USE <1>1 DEF IInv, TypeOK, PointersInv, SnapshotInv, shared, EnqLabels
  <2>1. CASE \E v \in Items : Enqueue(t, v)  BY <2>1, SizeAssumption DEF Enqueue
  <2>2. CASE EnqLoadRead(t)   BY <2>2 DEF EnqLoadRead
  <2>3. CASE EnqRefuse(t)     BY <2>3 DEF EnqRefuse
  <2>4. CASE EnqLoadWrite(t)  BY <2>4 DEF EnqLoadWrite
  <2>5. CASE EnqLoadSlot(t)   BY <2>5 DEF EnqLoadSlot
  <2>6. CASE Dequeue(t)       BY <2>6 DEF Dequeue
  <2>7. CASE DeqLoadWrite(t)  BY <2>7 DEF DeqLoadWrite
  <2>8. CASE DeqLoadRead(t)   BY <2>8 DEF DeqLoadRead
  <2>9. CASE DeqLoadSlot(t)   BY <2>9 DEF DeqLoadSlot
  <2> QED  BY <2>1, <2>2, <2>3, <2>4, <2>5, <2>6, <2>7, <2>8, <2>9
<1>6. TicketInv'
  <2> USE <1>1 DEF IInv, TypeOK, TicketInv, shared, EnqLabels
  <2>1. CASE \E v \in Items : Enqueue(t, v)  BY <2>1 DEF Enqueue
  <2>2. CASE EnqLoadRead(t)   BY <2>2 DEF EnqLoadRead
  <2>3. CASE EnqRefuse(t)     BY <2>3 DEF EnqRefuse
  <2>4. CASE EnqLoadWrite(t)  BY <2>4 DEF EnqLoadWrite
  <2>5. CASE EnqLoadSlot(t)   BY <2>5 DEF EnqLoadSlot
  <2>6. CASE Dequeue(t)       BY <2>6 DEF Dequeue
  <2>7. CASE DeqLoadWrite(t)  BY <2>7 DEF DeqLoadWrite
  <2>8. CASE DeqLoadRead(t)   BY <2>8 DEF DeqLoadRead
  <2>9. CASE DeqLoadSlot(t)   BY <2>9 DEF DeqLoadSlot
  <2> QED  BY <2>1, <2>2, <2>3, <2>4, <2>5, <2>6, <2>7, <2>8, <2>9
<1>7. ContentInv'
  <2>1. \A p \in Live' : Content(p)' \in Items /\ Content(p)' = Content(p)
    BY <1>1, <1>3, LiveKept DEF shared, IInv, TypeOK
  <2>2. ASSUME NEW u \in Threads, pc'[u] = "d_adv", rp'[u] = readPointer'
        PROVE  old'[u] = Content(readPointer)'
    <3>1. rp'[u] < wp'[u] /\ wp'[u] <= writePointer'
      BY <2>2, <1>5 DEF SnapshotInv
    <3>2. readPointer \in Live /\ readPointer' = readPointer
          /\ writePointer' = writePointer
      BY <3>1, <2>2, <1>1 DEF Live, shared, IInv, TypeOK
    <3>3. Content(readPointer)' = Content(readPointer)
      BY <1>3, <3>2, IndexRange DEF Content, ContentsKept, IndexOf, IInv, TypeOK
    <3>4. CASE u # t
      BY <3>2, <3>3, <3>4, <2>2, <1>2 DEF OthersKept, IInv, ContentInv
    <3>5. CASE u = t
      <4>1. DeqLoadSlot(t)
        BY <3>5, <2>2 DEF Enqueue, EnqLoadRead, EnqRefuse, EnqLoadWrite, EnqLoadSlot,
           Dequeue, DeqLoadWrite, DeqLoadRead, IInv, TypeOK
      <4>2. old'[t] = buffer[IndexOf(rp[t])] /\ buffer[IndexOf(rp[t])] # Null
            /\ rp'[t] = rp[t]
        BY <4>1, <3>5, <2>2 DEF DeqLoadSlot, IInv, TypeOK
      <4> QED  BY <4>2, <3>2, <3>3, <2>2, <3>5 DEF Content, SlotContent
    <3> QED  BY <3>4, <3>5
  <2> QED  BY <2>1, <2>2 DEF ContentInv
<1>8. StoredInv'
  <2>1. ASSUME NEW u \in Threads, NEW w \in Threads, pc'[u] = "d_adv", pc'[w] = "e_store"
        PROVE  rp'[u] # wp'[w]
    <3>1. w # t /\ pc[w] = "e_store" /\ wp'[w] = wp[w]
      BY <2>1, <1>2 DEF OthersKept, ClaimLabels
    <3>2. CASE u # t
      BY <3>1, <3>2, <2>1, <1>2 DEF OthersKept, IInv, StoredInv
    <3>3. CASE u = t
      <4>1. DeqLoadSlot(t)
        BY <3>3, <2>1 DEF Enqueue, EnqLoadRead, EnqRefuse, EnqLoadWrite, EnqLoadSlot,
           Dequeue, DeqLoadWrite, DeqLoadRead, IInv, TypeOK
      <4>2. buffer[IndexOf(rp[t])] # Null /\ rp'[t] = rp[t]
        BY <4>1, <3>3, <2>1 DEF DeqLoadSlot, IInv, TypeOK
      <4>3. IndexOf(rp[t]) \in Slots  BY IndexRange DEF IInv, TypeOK
      <4>4. ~ Claims(w, IndexOf(rp[t]))
        BY <4>2, <4>3 DEF IInv, ClaimInv
      <4> QED  BY <4>2, <4>4, <3>1, <3>3 DEF Claims, Slot
    <3> QED  BY <3>2, <3>3
  <2> QED  BY <2>1 DEF StoredInv
<1> QED  BY <1>1, <1>3, <1>4, <1>5, <1>6, <1>7, <1>8 DEF IInv
\* Claiming a slot, and losing the race for it.
LEMMA InvClaim ==
  ASSUME IInv, TypeOK', NEW t \in Threads, EnqClaim(t)
  PROVE  IInv' /\ ContentsKept /\ UNCHANGED <<readPointer, writePointer, held>>
<1> USE DEF EnqClaim, Goto, locals
<1>0. /\ UNCHANGED <<readPointer, writePointer, held, rp, wp, old, val>>
      /\ \A u \in Threads \ {t} : pc'[u] = pc[u]
      /\ Slot(t) \in Slots
      /\ pc[t] = "e_claim"
  BY IndexRange DEF IInv, TypeOK, Slot
<1>1. ClaimInv' /\ ContentsKept
  <2>1. CASE buffer[Slot(t)] # old[t]
    <3>1. OthersKept(t) /\ buffer' = buffer /\ pc'[t] = "e_rp"
      BY <2>1, <1>0 DEF OthersKept, IInv, TypeOK
    <3> QED  BY <3>1, <1>0, Quiet DEF ClaimLabels
  <2>2. CASE buffer[Slot(t)] = old[t]
    <3>1. /\ buffer' = [buffer EXCEPT ![Slot(t)] = Null]
          /\ pc'[t] = "e_adv"
          /\ buffer[Slot(t)] # Null
      BY <2>2, <1>0 DEF IInv, TypeOK, TicketInv
    <3>2. \A u \in Threads : ~ Claims(u, Slot(t))
      BY <3>1, <1>0 DEF IInv, ClaimInv
    <3>3. \A u \in Threads, s \in Slots :
             Claims(u, s)' <=> Claims(u, s) \/ (u = t /\ s = Slot(t))
      BY <3>1, <1>0 DEF Claims, Slot
    <3>4. ClaimInv'
      BY <3>1, <3>2, <3>3, <1>0 DEF IInv, ClaimInv, TypeOK
    <3>5. ASSUME NEW s \in Slots PROVE SlotContent(s)' = SlotContent(s)
      <4>1. CASE s = Slot(t)
        <5>1. Claimant(s)' = t
          BY <4>1, <3>3, <3>4, ClaimantIsPrimed
        <5>2. buffer'[s] = Null /\ Pending(t)' = old[t]
          BY <4>1, <3>1, <1>0 DEF Pending, IInv, TypeOK
        <5> QED  BY <5>1, <5>2, <4>1, <2>2, <3>1 DEF SlotContent
      <4>2. CASE s # Slot(t) /\ buffer[s] # Null
        BY <4>2, <3>1 DEF SlotContent, IInv, TypeOK
      <4>3. CASE s # Slot(t) /\ buffer[s] = Null
        <5>1. PICK u \in Threads : Claims(u, s)
          BY <4>3 DEF IInv, ClaimInv
        <5>2. Claimant(s) = u /\ Claimant(s)' = u
          BY <5>1, <3>3, <3>4, ClaimantIs, ClaimantIsPrimed DEF IInv
        <5>3. Pending(u)' = Pending(u)
          BY <5>1, <1>0 DEF Pending, Claims
        <5> QED  BY <4>3, <5>2, <5>3, <3>1 DEF SlotContent, IInv, TypeOK
      <4> QED  BY <4>1, <4>2, <4>3
    <3> QED  BY <3>4, <3>5 DEF ContentsKept
  <2> QED  BY <2>1, <2>2
<1>2. PointersInv'  BY <1>0 DEF IInv, PointersInv
<1>3. SnapshotInv'
  BY <1>0 DEF IInv, SnapshotInv, EnqLabels, TypeOK
<1>4. TicketInv'
  BY <1>0 DEF IInv, TicketInv, EnqLabels, TypeOK
<1>5. ContentInv'
  <2>1. \A p \in Live' : Content(p)' \in Items
    BY <1>0, <1>1, LiveKept DEF IInv, TypeOK
  <2>2. ASSUME NEW u \in Threads, pc'[u] = "d_adv", rp'[u] = readPointer'
        PROVE  old'[u] = Content(readPointer)'
    <3>1. u # t  BY <2>2, <1>0 DEF IInv, TypeOK
    <3>2. old[u] = Content(readPointer)
      BY <2>2, <3>1, <1>0 DEF IInv, ContentInv
    <3>3. Content(readPointer)' = Content(readPointer)
      BY <1>0, <1>1, IndexRange DEF Content, ContentsKept, IndexOf, IInv, TypeOK
    <3> QED  BY <3>2, <3>3, <1>0
  <2> QED  BY <2>1, <2>2 DEF ContentInv
<1>6. StoredInv'
  BY <1>0 DEF IInv, StoredInv, TypeOK
<1> QED  BY <1>0, <1>1, <1>2, <1>3, <1>4, <1>5, <1>6 DEF IInv

\* Giving a slot up, with the old item (EnqUndo) or the new one (EnqStore):
\* the slot comes to show what it already stood for.
LEMMA InvRelease ==
  ASSUME IInv, TypeOK', NEW t \in Threads, EnqUndo(t) \/ EnqStore(t)
  PROVE  IInv' /\ ContentsKept /\ UNCHANGED <<readPointer, writePointer, held>>
<1> USE DEF Goto, Return, locals
<1>0. /\ UNCHANGED <<readPointer, writePointer, held>>
      /\ Slot(t) \in Slots
      /\ Claims(t, Slot(t))
      /\ buffer[Slot(t)] = Null
  BY IndexRange DEF EnqUndo, EnqStore, IInv, TypeOK, Slot, Claims, ClaimInv
<1>1. buffer' = [buffer EXCEPT ![Slot(t)] = Pending(t)] /\ Pending(t) # Null
  <2>1. CASE EnqUndo(t)
    BY <2>1, <1>0 DEF EnqUndo, Pending, IInv, TicketInv
  <2>2. CASE EnqStore(t)
    BY <2>2, SentinelAssumption DEF EnqStore, Pending, IInv, TicketInv, EnqLabels
  <2> QED  BY <2>1, <2>2
<1>2. OthersKept(t) /\ pc'[t] \in {"idle", "e_rp"}
  BY DEF EnqUndo, EnqStore, OthersKept, IInv, TypeOK
<1>3. \A u \in Threads, s \in Slots : Claims(u, s)' <=> Claims(u, s) /\ u # t
  BY <1>2 DEF Claims, Slot, OthersKept
<1>4. ClaimInv'
  <2>1. ASSUME NEW s \in Slots
        PROVE  buffer'[s] = Null <=> \E u \in Threads : Claims(u, s)'
    <3>1. CASE s = Slot(t)
      BY <3>1, <1>0, <1>1, <1>3 DEF IInv, ClaimInv, TypeOK
    <3>2. CASE s # Slot(t)
      <4>1. ~ Claims(t, s)  BY <3>2 DEF Claims
      <4>2. buffer'[s] = buffer[s]  BY <3>2, <1>1 DEF IInv, TypeOK
      <4> QED  BY <4>1, <4>2, <1>3 DEF IInv, ClaimInv
    <3> QED  BY <3>1, <3>2
  <2>2. \A u, w \in Threads : \A s \in Slots : Claims(u, s)' /\ Claims(w, s)' => u = w
    BY <1>3 DEF IInv, ClaimInv
  <2> QED  BY <2>1, <2>2 DEF ClaimInv
<1>5. ContentsKept
  <2>1. ASSUME NEW s \in Slots PROVE SlotContent(s)' = SlotContent(s)
    <3>1. CASE s = Slot(t)
      <4>1. Claimant(s) = t  BY <3>1, <1>0, ClaimantIs DEF IInv
      <4> QED  BY <4>1, <3>1, <1>0, <1>1 DEF SlotContent, IInv, TypeOK
    <3>2. CASE s # Slot(t) /\ buffer[s] # Null
      BY <3>2, <1>1 DEF SlotContent, IInv, TypeOK
    <3>3. CASE s # Slot(t) /\ buffer[s] = Null
      <4>1. PICK u \in Threads : Claims(u, s)
        BY <3>3 DEF IInv, ClaimInv
      <4>2. u # t  BY <4>1, <3>3 DEF Claims
      <4>3. Claimant(s) = u /\ Claimant(s)' = u
        BY <4>1, <4>2, <1>3, <1>4, ClaimantIs, ClaimantIsPrimed DEF IInv
      <4>4. Pending(u)' = Pending(u)
        BY <4>1, <4>2, <1>2 DEF Pending, Claims, OthersKept
      <4> QED  BY <3>3, <4>3, <4>4, <1>1 DEF SlotContent, IInv, TypeOK
    <3> QED  BY <3>1, <3>2, <3>3
  <2> QED  BY <2>1 DEF ContentsKept
<1>6. PointersInv'  BY <1>0 DEF IInv, PointersInv
<1>7. SnapshotInv'
  BY <1>0 DEF IInv, SnapshotInv, EnqLabels, TypeOK, EnqUndo, EnqStore
<1>8. TicketInv'
  BY <1>0 DEF IInv, TicketInv, EnqLabels, TypeOK, EnqUndo, EnqStore
<1>9. ContentInv'
  <2>1. \A p \in Live' : Content(p)' \in Items
    BY <1>0, <1>5, LiveKept DEF IInv, TypeOK
  <2>2. ASSUME NEW u \in Threads, pc'[u] = "d_adv", rp'[u] = readPointer'
        PROVE  old'[u] = Content(readPointer)'
    <3>1. u # t  BY <2>2, <1>2
    <3>2. old[u] = Content(readPointer)
      BY <2>2, <3>1, <1>0, <1>2 DEF IInv, ContentInv, OthersKept
    <3>3. Content(readPointer)' = Content(readPointer)
      BY <1>0, <1>5, IndexRange DEF Content, ContentsKept, IndexOf, IInv, TypeOK
    <3> QED  BY <3>1, <3>2, <3>3, <1>2 DEF OthersKept
  <2> QED  BY <2>1, <2>2 DEF ContentInv
<1>10. StoredInv'
  BY <1>0, <1>2 DEF IInv, StoredInv, OthersKept
<1> QED  BY <1>0, <1>4, <1>5, <1>6, <1>7, <1>8, <1>9, <1>10 DEF IInv
\* Taking a ticket: the claimed slot comes to stand for the new item, and it
\* is no slot of a ticket that was live before.
LEMMA AdvanceWins ==
  ASSUME IInv, NEW t \in Threads, EnqAdvance(t), writePointer = wp[t]
  PROVE  /\ writePointer' = writePointer + 1
         /\ writePointer - readPointer < Size
         /\ \A p \in Live : IndexOf(p) # Slot(t)
<1>1. /\ writePointer' = writePointer + 1
      /\ readPointer \in Nat /\ writePointer \in Nat
      /\ wp[t] - rp[t] < Size /\ rp[t] <= readPointer /\ rp[t] \in Nat
      /\ readPointer <= writePointer
  BY DEF EnqAdvance, IInv, TypeOK, SnapshotInv, PointersInv, EnqLabels
<1>2. writePointer - readPointer < Size  BY <1>1, SizeAssumption
<1>3. ASSUME NEW p \in Live, IndexOf(p) = Slot(t) PROVE FALSE
  <2>1. p \in Nat /\ p < writePointer /\ writePointer - p < Size
    BY <1>1, <1>2, SizeAssumption DEF Live
  <2>2. p = writePointer
    BY <2>1, <1>1, <1>3, IndexInjective DEF Slot
  <2> QED  BY <2>1, <2>2, <1>1
<1> QED  BY <1>1, <1>2, <1>3

\* A producer advances the write pointer.
LEMMA InvAdvance ==
  ASSUME IInv, TypeOK', NEW t \in Threads, EnqAdvance(t)
  PROVE  /\ IInv'
         /\ \A s \in Slots : s # Slot(t) => SlotContent(s)' = SlotContent(s)
         /\ writePointer = wp[t] => SlotContent(Slot(t))' = val[t]
         /\ writePointer # wp[t] => ContentsKept
<1> USE DEF EnqAdvance, Goto, locals
<1>0. /\ UNCHANGED <<readPointer, buffer, rp, wp, old, val>>
      /\ \A u \in Threads \ {t} : pc'[u] = pc[u] /\ held'[u] = held[u]
      /\ Slot(t) \in Slots
      /\ Claims(t, Slot(t))
      /\ pc[t] = "e_adv" /\ pc'[t] \in {"e_store", "e_undo"}
      /\ writePointer = wp[t] => pc'[t] = "e_store" /\ writePointer' = writePointer + 1
      /\ writePointer # wp[t] => pc'[t] = "e_undo" /\ writePointer' = writePointer
                                  /\ held' = held
  BY IndexRange DEF IInv, TypeOK, Slot, Claims
<1>1. \A u \in Threads, s \in Slots : Claims(u, s)' <=> Claims(u, s)
  BY <1>0 DEF Claims, Slot
<1>2. ClaimInv'
  BY <1>0, <1>1 DEF IInv, ClaimInv
<1>3. ASSUME NEW s \in Slots
      PROVE /\ s # Slot(t) => SlotContent(s)' = SlotContent(s)
            /\ s = Slot(t) => SlotContent(s)' = Pending(t)'
            /\ s = Slot(t) => SlotContent(s) = old[t]
  <2>1. CASE buffer[s] # Null
    BY <2>1, <1>0 DEF SlotContent, IInv, ClaimInv
  <2>2. CASE buffer[s] = Null
    <3>1. PICK u \in Threads : Claims(u, s)
      BY <2>2 DEF IInv, ClaimInv
    <3>2. Claimant(s) = u /\ Claimant(s)' = u
      BY <3>1, <1>1, <1>2, ClaimantIs, ClaimantIsPrimed DEF IInv
    <3>3. s = Slot(t) <=> u = t
      BY <3>1, <1>0 DEF Claims, IInv, ClaimInv
    <3>4. u # t => Pending(u)' = Pending(u)
      BY <3>1, <1>0 DEF Pending
    <3>5. Pending(t) = old[t]  BY <1>0 DEF Pending
    <3> QED  BY <2>2, <1>0, <3>2, <3>3, <3>4, <3>5 DEF SlotContent
  <2> QED  BY <2>1, <2>2
<1>4. /\ writePointer = wp[t] => SlotContent(Slot(t))' = val[t]
      /\ writePointer # wp[t] => ContentsKept
  <2>1. SlotContent(Slot(t))' = Pending(t)' /\ SlotContent(Slot(t)) = old[t]
    <3>1. Slot(t)' = Slot(t)  BY <1>0 DEF Slot
    <3> QED  BY <1>0, <1>3, <3>1
  <2>2. writePointer = wp[t] => Pending(t)' = val[t]  BY <1>0 DEF Pending
  <2>3. writePointer # wp[t] => Pending(t)' = old[t]  BY <1>0 DEF Pending
  <2> QED  BY <2>1, <2>2, <2>3, <1>3 DEF ContentsKept
<1>5. PointersInv'
  <2>1. CASE writePointer = wp[t]
    <3>1. writePointer' = writePointer + 1 /\ writePointer - readPointer < Size
      BY <2>1, AdvanceWins
    <3> QED  BY <3>1, <1>0, SizeAssumption DEF IInv, PointersInv, TypeOK
  <2>2. CASE writePointer # wp[t]
    BY <2>2, <1>0 DEF IInv, PointersInv
  <2> QED  BY <2>1, <2>2
<1>6. SnapshotInv'
  BY <1>0 DEF IInv, SnapshotInv, EnqLabels, TypeOK
<1>7. TicketInv'
  <2>1. ASSUME NEW u \in Threads, u # t
        PROVE /\ pc'[u] = "e_store" => readPointer' <= wp'[u] /\ wp'[u] < writePointer'
              /\ pc'[u] = "e_undo" => wp'[u] < writePointer'
              /\ pc'[u] \in {"e_claim", "e_adv", "e_undo"} => old'[u] # Null
              /\ pc'[u] \in EnqLabels => val'[u] \in Items
              /\ pc'[u] \in EnqLabels \ {"e_store"} => val'[u] \in held'[u]
    BY <2>1, <1>0 DEF IInv, TypeOK, TicketInv
  <2>2. CASE writePointer = wp[t]
    BY <2>1, <2>2, <1>0 DEF IInv, TypeOK, TicketInv, PointersInv, EnqLabels
  <2>3. CASE writePointer # wp[t]
    BY <2>1, <2>3, <1>0 DEF IInv, TypeOK, TicketInv, SnapshotInv, EnqLabels
  <2> QED  BY <2>2, <2>3
<1>8. ContentInv'
  <2>1. ASSUME NEW p \in Live PROVE Content(p)' = Content(p)
    <3>1. p \in Nat  BY DEF Live, IInv, TypeOK
    <3>2. writePointer = wp[t] => IndexOf(p) # Slot(t)  BY AdvanceWins
    <3> QED  BY <3>1, <3>2, <1>3, <1>4, IndexRange DEF Content, ContentsKept, IndexOf
  <2>2. ASSUME NEW p \in Live' PROVE Content(p)' \in Items
    <3>1. CASE p \in Live  BY <3>1, <2>1 DEF IInv, ContentInv
    <3>2. CASE p \notin Live
      <4>1. writePointer = wp[t] /\ p = wp[t]
        <5>1. p \in readPointer .. writePointer' - 1
          BY <1>0 DEF Live
        <5>2. CASE writePointer # wp[t]
          BY <5>1, <5>2, <3>2, <1>0 DEF Live
        <5>3. CASE writePointer = wp[t]
          BY <5>1, <5>3, <3>2, <1>0 DEF Live, IInv, TypeOK
        <5> QED  BY <5>2, <5>3
      <4>2. Content(p)' = SlotContent(Slot(t))'
        BY <4>1, <1>0 DEF Content, Slot, IndexOf
      <4> QED  BY <4>1, <4>2, <1>4, <1>0 DEF IInv, TicketInv, EnqLabels
    <3> QED  BY <3>1, <3>2
  <2>3. ASSUME NEW u \in Threads, pc'[u] = "d_adv", rp'[u] = readPointer'
        PROVE  old'[u] = Content(readPointer)'
    <3>1. u # t /\ pc[u] = "d_adv" /\ rp[u] = readPointer
      BY <2>3, <1>0
    <3>2. old[u] = Content(readPointer)  BY <3>1 DEF IInv, ContentInv
    <3>3. readPointer \in Live
      BY <3>1, HeadItem DEF Live, IInv, TypeOK
    <3>4. Content(readPointer)' = Content(readPointer)
      BY <2>1, <3>3, <1>0 DEF Content, IndexOf
    <3> QED  BY <3>2, <3>4, <1>0
  <2> QED  BY <2>2, <2>3 DEF ContentInv
<1>9. StoredInv'
  <2>1. ASSUME NEW u \in Threads, NEW w \in Threads, pc'[u] = "d_adv", pc'[w] = "e_store"
        PROVE  rp'[u] # wp'[w]
    <3>1. u # t /\ pc[u] = "d_adv"  BY <2>1, <1>0
    <3>2. CASE w # t
      BY <3>1, <3>2, <2>1, <1>0 DEF IInv, StoredInv
    <3>3. CASE w = t
      <4>1. writePointer = wp[t]  BY <3>3, <2>1, <1>0
      <4>2. rp[u] < wp[u] /\ wp[u] <= writePointer
        BY <3>1 DEF IInv, SnapshotInv
      <4> QED  BY <4>1, <4>2, <3>3, <1>0 DEF IInv, TypeOK
    <3> QED  BY <3>2, <3>3
  <2> QED  BY <2>1 DEF StoredInv
<1> QED  BY <1>2, <1>3, <1>4, <1>5, <1>6, <1>7, <1>8, <1>9 DEF IInv

\* Taking the head item: no other consumer has a claim on that ticket left.
LEMMA InvDeqAdvance ==
  ASSUME IInv, TypeOK', NEW t \in Threads, DeqAdvance(t)
  PROVE  IInv' /\ ContentsKept
<1> USE DEF DeqAdvance, Goto, Return, locals
<1>0. /\ UNCHANGED <<writePointer, buffer>>
      /\ OthersKept(t)
      /\ \A u \in Threads \ {t} : held'[u] = held[u]
      /\ pc[t] = "d_adv" /\ pc'[t] \in {"idle", "d_wp"}
      /\ rp[t] = readPointer => readPointer' = readPointer + 1
      /\ rp[t] # readPointer => readPointer' = readPointer
      /\ rp'[t] \in {0, rp[t]} /\ wp'[t] \in {0, wp[t]}
  BY DEF IInv, TypeOK, OthersKept
<1>1. ClaimInv' /\ ContentsKept
  BY <1>0, Quiet DEF ClaimLabels
<1>2. PointersInv'
  <2>1. CASE rp[t] = readPointer
    <3>1. readPointer < writePointer  BY <2>1, <1>0, HeadItem
    <3> QED  BY <2>1, <3>1, <1>0, SizeAssumption DEF IInv, PointersInv, TypeOK
  <2>2. CASE rp[t] # readPointer
    BY <2>2, <1>0 DEF IInv, PointersInv
  <2> QED  BY <2>1, <2>2
<1>3. SnapshotInv'
  BY <1>0 DEF IInv, SnapshotInv, EnqLabels, TypeOK, OthersKept
<1>4. TicketInv'
  <2>1. ASSUME NEW u \in Threads, pc[u] = "e_store" PROVE readPointer' <= wp[u]
    <3>1. CASE readPointer # rp[t]
      BY <2>1, <3>1, <1>0 DEF IInv, TicketInv, TypeOK
    <3>2. CASE readPointer = rp[t]
      <4>1. rp[t] # wp[u]  BY <2>1, <1>0 DEF IInv, StoredInv
      <4>2. readPointer <= wp[u]  BY <2>1 DEF IInv, TicketInv
      <4> QED  BY <4>1, <4>2, <3>2, <1>0 DEF IInv, TypeOK
    <3> QED  BY <3>1, <3>2
  <2> QED  BY <2>1, <1>0 DEF IInv, TicketInv, EnqLabels, TypeOK, OthersKept
<1>5. ContentInv'
  <2>1. \A p \in Live' : Content(p)' \in Items
    BY <1>0, <1>1, LiveKept DEF IInv, TypeOK
  <2>2. ASSUME NEW u \in Threads, pc'[u] = "d_adv", rp'[u] = readPointer'
        PROVE  old'[u] = Content(readPointer)'
    <3>1. u # t /\ pc[u] = "d_adv" /\ rp[u] = readPointer' /\ old'[u] = old[u]
      BY <2>2, <1>0 DEF OthersKept
    <3>2. readPointer' = readPointer
      BY <3>1, <1>0 DEF IInv, SnapshotInv, TypeOK
    <3>3. Content(readPointer)' = Content(readPointer)
      BY <3>2, <1>1, IndexRange DEF Content, ContentsKept, IndexOf, IInv, TypeOK
    <3> QED  BY <3>1, <3>2, <3>3 DEF IInv, ContentInv
  <2> QED  BY <2>1, <2>2 DEF ContentInv
<1>6. StoredInv'
  BY <1>0 DEF IInv, StoredInv, OthersKept
<1> QED  BY <1>1, <1>2, <1>3, <1>4, <1>5, <1>6 DEF IInv

\* No step breaks the inductive invariant.
LEMMA InvStep == IInv /\ [Next]_vars => IInv'
<1> SUFFICES ASSUME IInv, [Next]_vars PROVE IInv'  OBVIOUS
<1>1. TypeOK'  BY TypeStep
<1>2. ASSUME NEW t \in Threads, Call(t) \/ Step(t) PROVE IInv'
  BY <1>1, <1>2, InvLocal, InvClaim, InvRelease, InvAdvance, InvDeqAdvance
  DEF Call, Step
<1>3. CASE UNCHANGED vars
  BY <1>3 DEF vars, IInv, TypeOK, PointersInv, SnapshotInv, ClaimInv, TicketInv,
     StoredInv, ContentInv, Claims, Claimant, Slot, Content, SlotContent, Pending, Live
<1> QED  BY <1>2, <1>3 DEF Next

\* Every part of the inductive invariant holds at every interleaving.
THEOREM Invariance == Spec => []IInv
<1>1. Init => IInv  BY InvInit
<1>2. IInv /\ [Next]_vars => IInv'  BY InvStep
<1> QED  BY <1>1, <1>2, PTL DEF Spec

\* Every variable keeps its type, so no consumer leaves RingBuffer_dequeue
\* with the null of a claimed slot or the fill pattern of RingBuffer_init.
THEOREM TypeCorrect == Spec => []TypeOK
<1>1. IInv => TypeOK  BY DEF IInv
<1> QED  BY <1>1, Invariance, PTL

-----------------------------------------------------------------------------
(***************************************************************************)
(* The ring implements a bounded FIFO.  EnqAdvance's successful            *)
(* compare-and-swap is Put, DeqAdvance's is Get, and every other step      *)
(* leaves both the queue and the owners as they were.                      *)
(***************************************************************************)
LEMMA QueueLength ==
  ASSUME TypeOK, PointersInv
  PROVE  /\ LiveQueue \in Seq({Content(p) : p \in Live})
         /\ Len(LiveQueue) = writePointer - readPointer
         /\ DOMAIN LiveQueue = 1 .. writePointer - readPointer
<1>1. writePointer - readPointer \in Nat  BY DEF TypeOK, PointersInv
<1>2. \A i \in 1 .. writePointer - readPointer : readPointer + i - 1 \in Live
  BY DEF TypeOK, Live
<1>3. \A i \in 1 .. writePointer - readPointer :
         Content(readPointer + i - 1) \in {Content(p) : p \in Live}
  BY <1>2
<1> QED  BY <1>1, <1>3 DEF LiveQueue

\* The ring as it is filled at first is the FIFO as it is filled at first.
LEMMA FifoInit == Init => Fifo!Init
<1> SUFFICES ASSUME Init PROVE Fifo!Init  OBVIOUS
<1>1. IInv  BY InvInit
<1>2. Len(FillOrder) \in Nat /\ DOMAIN FillOrder = 1 .. Len(FillOrder)
      /\ FillOrder = [i \in 1 .. Len(FillOrder) |-> FillOrder[i]]
  BY FillAssumption
<1>3. ASSUME NEW i \in 1 .. Len(FillOrder)
      PROVE  Content(readPointer + i - 1) = FillOrder[i]
  <2>1. i - 1 \in Slots /\ i - 1 < Len(FillOrder)
        /\ readPointer + i - 1 = i - 1 /\ (i - 1) + 1 = i
    BY FillAssumption, SizeAssumption DEF Slots, Init
  <2>2. Content(i - 1) = FillOrder[(i - 1) + 1]  BY <2>1, InitContent
  <2> QED  BY <2>1, <2>2
<1>4. 1 .. writePointer - readPointer = 1 .. Len(FillOrder)
  BY <1>2 DEF Init
<1>5. LiveQueue = FillOrder  BY <1>2, <1>3, <1>4 DEF LiveQueue
<1> QED  BY <1>5 DEF Fifo!Init, Init

\* A step that keeps the pointers and what the slots stand for keeps the queue.
LEMMA QueueKept ==
  ASSUME IInv, ContentsKept, readPointer' = readPointer, writePointer' = writePointer
  PROVE  LiveQueue' = LiveQueue
<1>1. ASSUME NEW i \in 1 .. writePointer - readPointer
      PROVE  Content(readPointer + i - 1)' = Content(readPointer + i - 1)
  <2>1. readPointer + i - 1 \in Nat  BY DEF IInv, TypeOK
  <2> QED  BY <2>1, IndexRange DEF Content, ContentsKept, IndexOf
<1> QED  BY <1>1 DEF LiveQueue

\* The write pointer advances: the FIFO is put to.
LEMMA PutStep ==
  ASSUME IInv, IInv', NEW t \in Threads, EnqAdvance(t), writePointer = wp[t]
  PROVE  Fifo!Put(t)
<1>1. /\ writePointer' = writePointer + 1 /\ readPointer' = readPointer
      /\ held' = [held EXCEPT ![t] = @ \ {val[t]}]
      /\ wp' = wp /\ pc[t] = "e_adv"
      /\ readPointer \in Nat /\ writePointer \in Nat /\ readPointer <= writePointer
  BY DEF EnqAdvance, IInv, TypeOK, PointersInv, locals
<1>2. val[t] \in held[t]
  BY <1>1 DEF IInv, TicketInv, EnqLabels
<1>3. Len(LiveQueue) = writePointer - readPointer /\ Len(LiveQueue) < Size
  BY QueueLength, AdvanceWins DEF IInv
<1>4. ASSUME NEW i \in 1 .. writePointer - readPointer
      PROVE  Content(readPointer + i - 1)' = Content(readPointer + i - 1)
  <2>1. readPointer + i - 1 \in Live /\ readPointer + i - 1 \in Nat
    BY <1>1 DEF Live
  <2>2. IndexOf(readPointer + i - 1) # Slot(t) /\ IndexOf(readPointer + i - 1) \in Slots
    BY <2>1, AdvanceWins, IndexRange
  <2> QED  BY <2>2, <1>1, InvAdvance DEF Content, IndexOf, IInv
<1>5. SlotContent(Slot(t))' = val[t] /\ Slot(t)' = Slot(t)
  BY <1>1, InvAdvance DEF Slot, IInv
<1>6. LiveQueue' = Append(LiveQueue, val[t])
  <2>1. 1 .. writePointer' - readPointer' = 1 .. (writePointer - readPointer) + 1
    BY <1>1
  <2>2. ASSUME NEW i \in 1 .. (writePointer - readPointer) + 1
        PROVE  Content(readPointer + i - 1)' = Append(LiveQueue, val[t])[i]
    <3>1. CASE i \in 1 .. writePointer - readPointer
      <4>1. Append(LiveQueue, val[t])[i] = LiveQueue[i]
        BY <3>1, <1>1, QueueLength DEF IInv
      <4> QED  BY <4>1, <3>1, <1>4 DEF LiveQueue
    <3>2. CASE i = (writePointer - readPointer) + 1
      <4>1. Append(LiveQueue, val[t])[i] = val[t]
        BY <3>2, <1>1, <1>3, QueueLength DEF IInv
      <4>2. readPointer + i - 1 = writePointer  BY <3>2, <1>1
      <4>3. Content(readPointer + i - 1)' = SlotContent(Slot(t))'
        BY <4>2, <1>1 DEF Content, IndexOf, Slot
      <4>4. Content(readPointer + i - 1)' = val[t]  BY <4>3, <1>5
      <4> QED  BY <4>1, <4>4
    <3>3. i \in 1 .. writePointer - readPointer \/ i = (writePointer - readPointer) + 1
      BY <1>1
    <3> QED  BY <3>1, <3>2, <3>3, Zenon
  <2>3. LiveQueue' = [i \in 1 .. (writePointer - readPointer) + 1 |->
                        Append(LiveQueue, val[t])[i]]
    BY <2>1, <2>2 DEF LiveQueue
  <2>4. /\ DOMAIN Append(LiveQueue, val[t]) = 1 .. (writePointer - readPointer) + 1
        /\ Append(LiveQueue, val[t]) =
             [i \in DOMAIN Append(LiveQueue, val[t]) |-> Append(LiveQueue, val[t])[i]]
    BY <1>1, <1>3, QueueLength DEF IInv
  <2> QED  BY <2>3, <2>4
<1> QED  BY <1>1, <1>2, <1>3, <1>6 DEF Fifo!Put

\* The read pointer advances: the FIFO is taken from.
LEMMA GetStep ==
  ASSUME IInv, NEW t \in Threads, DeqAdvance(t), readPointer = rp[t], ContentsKept
  PROVE  Fifo!Get(t)
<1>1. /\ writePointer' = writePointer /\ readPointer' = readPointer + 1
      /\ held' = [held EXCEPT ![t] = @ \cup {old[t]}]
      /\ pc[t] = "d_adv"
      /\ readPointer \in Nat /\ writePointer \in Nat
  BY DEF DeqAdvance, IInv, TypeOK
<1>2. readPointer < writePointer  BY <1>1, HeadItem
<1>3. /\ LiveQueue \in Seq({Content(p) : p \in Live})
      /\ Len(LiveQueue) = writePointer - readPointer
  BY QueueLength DEF IInv
<1>4. LiveQueue # <<>>  BY <1>1, <1>2, <1>3
<1>5. Head(LiveQueue) = old[t]
  <2>1. LiveQueue[1] = Content(readPointer)
    <3>1. readPointer + 1 - 1 = readPointer  BY <1>1
    <3> QED  BY <1>1, <1>2, <3>1 DEF LiveQueue
  <2>2. old[t] = Content(readPointer)  BY <1>1 DEF IInv, ContentInv
  <2> QED  BY <2>1, <2>2, <1>3, <1>4
<1>6. LiveQueue' = Tail(LiveQueue)
  <2>1. /\ Tail(LiveQueue) \in Seq({Content(p) : p \in Live})
        /\ Len(Tail(LiveQueue)) = writePointer - readPointer - 1
        /\ \A i \in 1 .. writePointer - readPointer - 1 :
              Tail(LiveQueue)[i] = LiveQueue[i + 1]
    BY <1>1, <1>2, <1>3, <1>4
  <2>2. Tail(LiveQueue) =
          [i \in 1 .. writePointer - readPointer - 1 |-> Tail(LiveQueue)[i]]
    BY <2>1, LenProperties, Zenon
  <2>3. 1 .. writePointer' - readPointer' = 1 .. writePointer - readPointer - 1
    BY <1>1
  <2>4. ASSUME NEW i \in 1 .. writePointer - readPointer - 1
        PROVE  Content(readPointer + i - 1)' = Tail(LiveQueue)[i]
    <3>1. /\ i + 1 \in 1 .. writePointer - readPointer
          /\ readPointer + (i + 1) - 1 = readPointer + i
          /\ readPointer' + i - 1 = readPointer + i
          /\ readPointer + i \in Nat
      BY <1>1
    <3>2. Tail(LiveQueue)[i] = Content(readPointer + i)
      BY <3>1, <2>1 DEF LiveQueue
    <3>4. PICK s \in Slots : s = IndexOf(readPointer + i)
      BY <3>1, IndexRange
    <3>5. Content(readPointer + i - 1)' = SlotContent(s)'
      BY <3>1, <3>4 DEF Content, IndexOf
    <3> QED  BY <3>2, <3>4, <3>5 DEF Content, ContentsKept
  <2> QED  BY <2>2, <2>3, <2>4 DEF LiveQueue
<1> QED  BY <1>1, <1>4, <1>5, <1>6 DEF Fifo!Get

\* Every step is a step of the FIFO, or leaves it as it is.
LEMMA RefinementStep ==
  IInv /\ IInv' /\ [Next]_vars => [Fifo!Next]_Fifo!vars
<1> SUFFICES ASSUME IInv, IInv', [Next]_vars PROVE [Fifo!Next]_Fifo!vars
  OBVIOUS
<1>0. TypeOK'  BY DEF IInv
<1> DEFINE Idle == LiveQueue' = LiveQueue /\ held' = held
<1>1. ASSUME NEW t \in Threads,
             \/ Call(t) \/ EnqLoadRead(t) \/ EnqRefuse(t) \/ EnqLoadWrite(t)
             \/ EnqLoadSlot(t) \/ DeqLoadWrite(t) \/ DeqLoadRead(t) \/ DeqLoadSlot(t)
      PROVE  Idle
  BY <1>0, <1>1, InvLocal, QueueKept DEF Call, shared
<1>2. ASSUME NEW t \in Threads, EnqClaim(t) \/ EnqUndo(t) \/ EnqStore(t) PROVE Idle
  BY <1>0, <1>2, InvClaim, InvRelease, QueueKept
<1>3. ASSUME NEW t \in Threads, EnqAdvance(t) PROVE Idle \/ Fifo!Put(t)
  <2>1. CASE writePointer = wp[t]  BY <1>3, <2>1, PutStep
  <2>2. CASE writePointer # wp[t]
    <3>1. ContentsKept  BY <1>0, <1>3, <2>2, InvAdvance
    <3>2. UNCHANGED <<readPointer, writePointer, held>>
      BY <1>3, <2>2 DEF EnqAdvance
    <3> QED  BY <3>1, <3>2, QueueKept
  <2> QED  BY <2>1, <2>2
<1>4. ASSUME NEW t \in Threads, DeqAdvance(t) PROVE Idle \/ Fifo!Get(t)
  <2>1. ContentsKept  BY <1>0, <1>4, InvDeqAdvance
  <2>2. CASE readPointer = rp[t]  BY <1>4, <2>1, <2>2, GetStep
  <2>3. CASE readPointer # rp[t]
    <3>1. UNCHANGED <<readPointer, writePointer, held>>
      BY <1>4, <2>3 DEF DeqAdvance
    <3> QED  BY <2>1, <3>1, QueueKept
  <2> QED  BY <2>2, <2>3
<1>5. CASE UNCHANGED vars
  <2>1. \A s \in Slots : Claimant(s)' = Claimant(s)
    BY <1>5 DEF vars, Claimant, Claims, Slot
  <2>2. ContentsKept
    BY <1>5, <2>1 DEF vars, ContentsKept, SlotContent, Pending
  <2> QED  BY <1>5, <2>2, QueueKept DEF vars, Fifo!vars
<1>6. ASSUME NEW t \in Threads, Call(t) \/ Step(t)
      PROVE  Idle \/ Fifo!Put(t) \/ Fifo!Get(t)
  BY <1>1, <1>2, <1>3, <1>4, <1>6 DEF Step
<1> QED  BY <1>5, <1>6 DEF Next, Fifo!Next, Fifo!vars

\* The ring of lfringbuffer.c is linearizable to a bounded FIFO.
THEOREM Refinement == Spec => RefinesFifo
<1>1. Init => Fifo!Init  BY FifoInit
<1>2. IInv /\ IInv' /\ [Next]_vars => [Fifo!Next]_Fifo!vars  BY RefinementStep
<1> QED  BY <1>1, <1>2, Invariance, PTL DEF Spec, RefinesFifo, Fifo!Spec

-----------------------------------------------------------------------------
(***************************************************************************)
(* Conservation, proved of the FIFO and carried over by the refinement.    *)
(***************************************************************************)
LEMMA ConservedInit == Init => Fifo!Conserved
<1> SUFFICES ASSUME Init PROVE Fifo!Conserved  OBVIOUS
<1>1. LiveQueue = FillOrder /\ held = [t \in Threads |-> {}]
  BY FifoInit DEF Fifo!Init
<1>2. DOMAIN FillOrder = 1 .. Len(FillOrder)  BY FillAssumption
<1>3. Fifo!InQueue = Items /\ Fifo!Items = Items
  BY <1>1, <1>2 DEF Fifo!InQueue, Fifo!Items, Items
<1>4. UNION {held[t] : t \in Threads} = {}  BY <1>1
<1> QED  BY <1>1, <1>2, <1>3, <1>4, FillAssumption DEF Fifo!Conserved

\* No step breaks the conservation of items.
LEMMA ConservedStep ==
  ASSUME IInv, Fifo!Conserved, [Fifo!Next]_Fifo!vars
  PROVE  Fifo!Conserved'
<1> DEFINE n == Len(LiveQueue)
<1>0. /\ n \in Nat /\ DOMAIN LiveQueue = 1 .. n
      /\ LiveQueue \in Seq({Content(p) : p \in Live})
      /\ held \in [Threads -> SUBSET Items]
  BY QueueLength DEF IInv, TypeOK, PointersInv
<1>1. ASSUME NEW t \in Threads, Fifo!Put(t) PROVE Fifo!Conserved'
  <2>1. PICK v \in held[t] : /\ LiveQueue' = Append(LiveQueue, v)
                             /\ held' = [held EXCEPT ![t] = @ \ {v}]
    BY <1>1 DEF Fifo!Put
  <2>2. /\ DOMAIN LiveQueue' = 1 .. n + 1
        /\ \A i \in 1 .. n : LiveQueue'[i] = LiveQueue[i]
        /\ LiveQueue'[n + 1] = v
    BY <1>0, <2>1
  <2>3. Fifo!InQueue' = Fifo!InQueue \cup {v}
    BY <1>0, <2>2 DEF Fifo!InQueue
  <2>4. v \notin Fifo!InQueue /\ \A u \in Threads : v \in held[u] => u = t
    BY DEF Fifo!Conserved
  <2>5. \A i, j \in DOMAIN LiveQueue' : LiveQueue'[i] = LiveQueue'[j] => i = j
    BY <1>0, <2>2, <2>4 DEF Fifo!Conserved, Fifo!InQueue
  <2>6. /\ held'[t] = held[t] \ {v}
        /\ \A u \in Threads : u # t => held'[u] = held[u]
    BY <1>0, <2>1
  <2>7. Fifo!InQueue' \cup UNION {held'[u] : u \in Threads} = Fifo!Items
    <3>1. ASSUME NEW x
          PROVE  x \in UNION {held[u] : u \in Threads} <=>
                   x \in UNION {held'[u] : u \in Threads} \/ x = v
      BY <2>6, <2>4
    <3> QED  BY <3>1, <2>3 DEF Fifo!Conserved
  <2>8. /\ \A u \in Threads : held'[u] \cap Fifo!InQueue' = {}
        /\ \A u, w \in Threads : held'[u] \cap held'[w] # {} => u = w
    BY <2>3, <2>4, <2>6 DEF Fifo!Conserved
  <2> QED  BY <2>5, <2>7, <2>8 DEF Fifo!Conserved, Fifo!Items
<1>2. ASSUME NEW t \in Threads, Fifo!Get(t) PROVE Fifo!Conserved'
  <2>1. /\ LiveQueue # <<>> /\ LiveQueue' = Tail(LiveQueue)
        /\ held' = [held EXCEPT ![t] = @ \cup {Head(LiveQueue)}]
    BY <1>2 DEF Fifo!Get
  <2>2. /\ DOMAIN LiveQueue' = 1 .. n - 1 /\ n >= 1
        /\ \A i \in 1 .. n - 1 : LiveQueue'[i] = LiveQueue[i + 1]
        /\ Head(LiveQueue) = LiveQueue[1]
    BY <1>0, <2>1
  <2>3. Fifo!InQueue = Fifo!InQueue' \cup {LiveQueue[1]}
    <3>1. ASSUME NEW i \in 1 .. n PROVE LiveQueue[i] \in Fifo!InQueue' \cup {LiveQueue[1]}
      <4>1. CASE i = 1  BY <4>1
      <4>2. CASE i # 1
        <5>1. i - 1 \in 1 .. n - 1 /\ LiveQueue'[i - 1] = LiveQueue[i]
          BY <4>2, <2>2, <1>0
        <5> QED  BY <5>1, <2>2 DEF Fifo!InQueue
      <4> QED  BY <4>1, <4>2
    <3>2. \A i \in 1 .. n - 1 : LiveQueue'[i] \in Fifo!InQueue
      BY <2>2, <1>0 DEF Fifo!InQueue
    <3>3. LiveQueue[1] \in Fifo!InQueue  BY <2>2, <1>0 DEF Fifo!InQueue
    <3> QED  BY <3>1, <3>2, <3>3, <2>2, <1>0 DEF Fifo!InQueue
  <2>4. LiveQueue[1] \notin Fifo!InQueue'
    <3>1. \A i \in 1 .. n - 1 : LiveQueue'[i] # LiveQueue[1]
      BY <2>2, <1>0 DEF Fifo!Conserved
    <3> QED  BY <3>1, <2>2 DEF Fifo!InQueue
  <2>5. \A i, j \in DOMAIN LiveQueue' : LiveQueue'[i] = LiveQueue'[j] => i = j
    <3>1. ASSUME NEW i \in 1 .. n - 1, NEW j \in 1 .. n - 1, LiveQueue'[i] = LiveQueue'[j]
          PROVE  i = j
      <4>1. i + 1 \in 1 .. n /\ j + 1 \in 1 .. n /\ LiveQueue[i + 1] = LiveQueue[j + 1]
        BY <2>2, <3>1, <1>0
      <4>2. i + 1 = j + 1  BY <4>1, <1>0 DEF Fifo!Conserved
      <4> QED  BY <4>2
    <3> QED  BY <3>1, <2>2
  <2>6. /\ held'[t] = held[t] \cup {LiveQueue[1]}
        /\ \A u \in Threads : u # t => held'[u] = held[u]
        /\ \A u \in Threads : LiveQueue[1] \notin held[u]
    BY <1>0, <2>1, <2>2, <2>3 DEF Fifo!Conserved
  <2>7. Fifo!InQueue' \cup UNION {held'[u] : u \in Threads} = Fifo!Items
    <3>1. ASSUME NEW x
          PROVE  x \in UNION {held'[u] : u \in Threads} <=>
                   x \in UNION {held[u] : u \in Threads} \/ x = LiveQueue[1]
      BY <2>6
    <3> QED  BY <3>1, <2>3 DEF Fifo!Conserved
  <2>8. /\ \A u \in Threads : held'[u] \cap Fifo!InQueue' = {}
        /\ \A u, w \in Threads : held'[u] \cap held'[w] # {} => u = w
    BY <2>3, <2>4, <2>6 DEF Fifo!Conserved
  <2> QED  BY <2>5, <2>7, <2>8 DEF Fifo!Conserved, Fifo!Items
<1>3. CASE UNCHANGED Fifo!vars
  BY <1>3 DEF Fifo!vars, Fifo!Conserved, Fifo!InQueue
<1> QED  BY <1>1, <1>2, <1>3 DEF Fifo!Next

\* No item of the pool is lost, duplicated or owned by two threads.
THEOREM Conservation == Spec => []ItemsConserved
<1>1. Init => Fifo!Conserved  BY ConservedInit
<1>2. IInv /\ Fifo!Conserved /\ [Fifo!Next]_Fifo!vars => Fifo!Conserved'
  BY ConservedStep
<1> QED
  BY <1>1, <1>2, Invariance, RefinementStep, PTL DEF Spec, ItemsConserved
=============================================================================
