---------------------------- MODULE Audio_proofs ----------------------------
(***************************************************************************)
(* A frame buffer is in one place at a time, for any number of buffers,    *)
(* callers, sessions and queue nodes, whatever PortAudio and the network   *)
(* answer.  NoBufferShared counts places; the proof does not: it follows a *)
(* buffer through the five collections and the callback's hand, and says   *)
(* that it is at one index of a collection (Once) and in one of them only  *)
(* (Apart).  Audio_init fills the pool anew, which is harmless because it  *)
(* is called before any thread has taken a buffer (Asleep).                *)
(* The second part is the rest of AudioInv: a buffer that is nowhere is    *)
(* one that a ring or a queue did not take, and no other is lost.  It adds *)
(* what a hand holds at each step (HandsOK), the numbers that are left for *)
(* threads (NumberLeft), and a place for every buffer (KeptOK).            *)
(***************************************************************************)
EXTENDS Audio, FunctionTheorems, FiniteSetTheorems, SequenceTheorems, TLAPS

\* What a queue or a hand holds.
Held == Frames \cup {None}

\* A queue and the hands of a kind of threads are functions alike.
In(b, q) == \E i \in DOMAIN q : q[i] = b
Once(b, q) == \A i, j \in DOMAIN q : q[i] = b /\ q[j] = b => i = j

HoldsOK ==
    /\ freeBuffers \in Seq(Held) /\ playQ \in Seq(Held) /\ recQ \in Seq(Held)
    /\ fillBuf \in [FillIds -> Held] /\ flushBuf \in [FlushIds -> Held]
    /\ cbBuf \in Held

StepsOK ==
    /\ DOMAIN ctl = Controllers
    /\ DOMAIN fillPc = FillIds /\ DOMAIN flushPc = FlushIds

\* b is in one of the collections, or in the callback's hand.
Somewhere(b) ==
    \/ In(b, freeBuffers) \/ In(b, playQ) \/ In(b, recQ)
    \/ In(b, fillBuf) \/ In(b, flushBuf) \/ cbBuf = b

\* b is once in each and in one of them only, and in none of them once it is lost.
Apart(b) ==
    /\ Once(b, freeBuffers) /\ Once(b, playQ) /\ Once(b, recQ)
    /\ Once(b, fillBuf) /\ Once(b, flushBuf)
    /\ In(b, freeBuffers) =>
          ~In(b, playQ) /\ ~In(b, recQ) /\ ~In(b, fillBuf) /\ ~In(b, flushBuf) /\ cbBuf # b
    /\ In(b, playQ) =>
          ~In(b, recQ) /\ ~In(b, fillBuf) /\ ~In(b, flushBuf) /\ cbBuf # b
    /\ In(b, recQ) => ~In(b, fillBuf) /\ ~In(b, flushBuf) /\ cbBuf # b
    /\ In(b, fillBuf) => ~In(b, flushBuf) /\ cbBuf # b
    /\ In(b, flushBuf) => cbBuf # b
    /\ b \in lost => ~Somewhere(b)

\* Nobody has a buffer in hand, nor a stream that would let the callback take
\* one: no call of Audio_start has passed the test of line 264.
Untouched ==
    /\ \A c \in Controllers : ctl[c] \notin {"s_open", "s_fill", "s_wait", "s_run", "s_flush"}
    /\ \A f \in FillIds : fillPc[f] = "none" /\ fillBuf[f] = None
    /\ \A g \in FlushIds : flushPc[g] = "none" /\ flushBuf[g] = None
    /\ cbPc = "idle" /\ cbBuf = None
    /\ stream = "closed"

\* Before Audio_init nothing has been touched, and after Audio_teardown its
\* caller is gone, so Audio_init is not called again.
Asleep == initialized \/ (\E c \in Controllers : ctl[c] = "gone") \/ Untouched

BuffersIInv == HoldsOK /\ StepsOK /\ Asleep /\ \A b \in Buffers : Apart(b)

-----------------------------------------------------------------------------
(* The three ways a buffer moves. *)

\* The head of a queue is taken: the buffer taken is no longer in it.
LEMMA Taken ==
    ASSUME NEW q \in Seq(Held), q # <<>>, NEW b, Once(b, q)
    PROVE  /\ Head(q) \in Held /\ Tail(q) \in Seq(Held)
           /\ Once(b, Tail(q))
           /\ In(b, Tail(q)) => In(b, q)
           /\ Head(q) = b => In(b, q) /\ ~In(b, Tail(q))
<1>1. /\ Head(q) \in Held /\ Tail(q) \in Seq(Held)
      /\ Len(Tail(q)) = Len(q) - 1
      /\ \A i \in 1 .. Len(Tail(q)) : Tail(q)[i] = q[i + 1]
  BY HeadTailProperties
<1>2. /\ Len(q) \in Nat \ {0} /\ DOMAIN q = 1 .. Len(q)
      /\ DOMAIN Tail(q) = 1 .. Len(Tail(q)) /\ Head(q) = q[1]
  BY <1>1, LenProperties, EmptySeq
<1>3. Once(b, Tail(q))
  BY <1>1, <1>2 DEF Once
<1>4. In(b, Tail(q)) => In(b, q)
  BY <1>1, <1>2 DEF In
<1>5. Head(q) = b => In(b, q) /\ ~In(b, Tail(q))
  BY <1>1, <1>2 DEF In, Once
<1> QED
  BY <1>1, <1>3, <1>4, <1>5

\* A frame is put at the end of a queue that does not hold it.
LEMMA Put ==
    ASSUME NEW q \in Seq(Held), NEW x \in Held, NEW b, Once(b, q),
           x = b => ~In(b, q)
    PROVE  /\ Append(q, x) \in Seq(Held)
           /\ Once(b, Append(q, x))
           /\ In(b, Append(q, x)) => In(b, q) \/ x = b
<1>1. /\ Append(q, x) \in Seq(Held)
      /\ Len(Append(q, x)) = Len(q) + 1
      /\ \A i \in 1 .. Len(q) : Append(q, x)[i] = q[i]
      /\ Append(q, x)[Len(q) + 1] = x
  BY AppendProperties
<1>2. /\ Len(q) \in Nat /\ DOMAIN q = 1 .. Len(q)
      /\ DOMAIN Append(q, x) = 1 .. Len(Append(q, x))
  BY <1>1, LenProperties
<1>3. Once(b, Append(q, x))
  BY <1>1, <1>2 DEF Once, In
<1>4. In(b, Append(q, x)) => In(b, q) \/ x = b
  BY <1>1, <1>2 DEF In
<1> QED
  BY <1>1, <1>3, <1>4

\* A thread takes x in its hand, or lets go of what it had.
LEMMA Handed ==
    ASSUME NEW buf, NEW i \in DOMAIN buf, NEW x, NEW b, Once(b, buf),
           x = b => ~In(b, buf), NEW new, new = [buf EXCEPT ![i] = x]
    PROVE  /\ Once(b, new)
           /\ In(b, new) => In(b, buf) \/ x = b
           /\ buf[i] = b => In(b, buf)
           /\ (buf[i] = b /\ x # b) => ~In(b, new)
BY DEF Once, In

-----------------------------------------------------------------------------
(* Initial states. *)

\* A full pool holds each buffer once: there are as many places as buffers.
LEMMA PoolOnce ==
    ASSUME NEW s \in FullPools, NEW b
    PROVE  s \in Seq(Held) /\ Once(b, s)
<1> DEFINE N == Cardinality(Buffers)
<1>1. N \in Nat /\ IsFiniteSet(1 .. N) /\ Cardinality(1 .. N) = N /\ IsFiniteSet(Buffers)
  <2>1. IsFiniteSet(Buffers) /\ N \in Nat
    BY BuffersAssumption, FS_CardinalityType
  <2>2. 1 \in Int /\ N \in Int
    BY <2>1
  <2>3. IsFiniteSet(1 .. N) /\ Cardinality(1 .. N) = N
    BY <2>1, <2>2, FS_Interval
  <2> QED BY <2>1, <2>3
<1>2. s \in [1 .. N -> Buffers] /\ \A c \in Buffers : \E i \in 1 .. N : s[i] = c
  BY DEF FullPools
<1>3. s \in Surjection(1 .. N, Buffers)
  BY <1>2 DEF Surjection
<1>4. s \in Injection(1 .. N, Buffers)
  BY <1>1, <1>3, FS_SurjSameCardinalityImpliesInj
<1>5. Once(b, s)
  BY <1>2, <1>4 DEF Once, Injection, IsInjective
<1>6. s \in Seq(Held)
  BY <1>1, <1>2 DEF Held, Frames
<1> QED
  BY <1>5, <1>6

\* Nothing is in an empty queue, and no buffer in an empty hand.
LEMMA Nothing ==
    ASSUME NEW b
    PROVE  Once(b, <<>>) /\ ~In(b, <<>>) /\ <<>> \in Seq(Held)
BY EmptySeq DEF Once, In

\* Nor in hands that are all empty.
LEMMA EmptyHands ==
    ASSUME NEW Ids, NEW buf, DOMAIN buf = Ids, \A i \in Ids : buf[i] = None,
           NEW b \in Buffers
    PROVE  Once(b, buf) /\ ~In(b, buf)
BY BuffersAssumption DEF Once, In

\* At first nothing is in use.
LEMMA BuffersInit == Init => BuffersIInv
<1> SUFFICES ASSUME Init PROVE BuffersIInv
  OBVIOUS
<1>1. freeBuffers \in FullPools \/ freeBuffers = <<>>
  BY DEF Init
<1>2. HoldsOK
  BY <1>1, PoolOnce, Nothing DEF Init, HoldsOK, Held
<1>3. StepsOK
  BY DEF Init, StepsOK
<1>4. Asleep
  BY DEF Init, Asleep, Untouched
<1>5. ASSUME NEW b \in Buffers PROVE Apart(b)
  <2>1. Once(b, freeBuffers)
    BY <1>1, PoolOnce, Nothing
  <2>2. Once(b, fillBuf) /\ ~In(b, fillBuf)
    BY EmptyHands DEF Init
  <2>3. Once(b, flushBuf) /\ ~In(b, flushBuf)
    BY EmptyHands DEF Init
  <2>4. cbBuf # b
    BY BuffersAssumption DEF Init
  <2>5. playQ = <<>> /\ recQ = <<>> /\ lost = {}
    BY DEF Init
  <2> QED
    BY <2>1, <2>2, <2>3, <2>4, <2>5, Nothing DEF Apart
<1> QED
  BY <1>2, <1>3, <1>4, <1>5 DEF BuffersIInv

-----------------------------------------------------------------------------
(* Steps. *)

\* A step that moves no frame.
Still == UNCHANGED <<freeBuffers, playQ, recQ, lost, counted, fillBuf, flushBuf, cbBuf>>

\* Only these steps move frames.
LEMMA Movers ==
    ASSUME [Next]_vars
    PROVE  \/ AudioInit
           \/ \E c \in Controllers : StopClear(c) \/ Teardown(c)
           \/ \E f \in FillIds : FillAlloc(f) \/ FillEnq(f)
           \/ \E g \in FlushIds : FlushTake(g) \/ FlushGive(g)
           \/ CbPlay \/ CbReturn \/ CbAlloc \/ CbSilence \/ CbEnq
           \/ Still
<1>1. ASSUME NEW c \in Controllers, Start(c) \/ Stop(c) PROVE Still
  BY <1>1 DEF Start, Stop, Still, store, losses, fills, flushes, callback
<1>2. ASSUME NEW c \in Controllers, StartStep(c) PROVE Still
  <2>1. CASE StartTest(c) \/ StartFlags(c) \/ StartInit(c) \/ StartOpen(c)
    BY <2>1 DEF StartTest, StartFlags, StartInit, StartOpen, Still, store, losses, fills, flushes,
                callback
  <2>2. CASE StartFill(c) \/ StartWait(c) \/ StartRun(c) \/ StartFlush(c)
    BY <2>2 DEF StartFill, StartWait, StartRun, StartFlush, Still, store, losses, fills, flushes,
                callback
  <2>3. CASE StartDone(c) \/ StartClose(c)
    BY <2>3 DEF StartDone, StartClose, Still, store, losses, fills, flushes, callback
  <2> QED
    BY <1>2, <2>1, <2>2, <2>3 DEF StartStep
<1>3. ASSUME NEW c \in Controllers, StopStep(c)
      PROVE  StopClear(c) \/ Teardown(c) \/ Still
  <2>1. CASE StopTest(c) \/ StopJoinFill(c) \/ StopJoinFlush(c) \/ StopClose(c)
    BY <2>1 DEF StopTest, StopJoinFill, StopJoinFlush, StopClose, Still, store, losses, fills,
                flushes, callback
  <2>2. CASE StopClosing(c) \/ StopDone(c) \/ StopNull(c)
    BY <2>2 DEF StopClosing, StopDone, StopNull, Still, store, losses, fills, flushes, callback
  <2> QED
    BY <1>3, <2>1, <2>2 DEF StopStep
<1>4. ASSUME NEW f \in FillIds, FillStep(f)
      PROVE  FillAlloc(f) \/ FillEnq(f) \/ Still
  BY <1>4 DEF FillStep, FillLoop, FillProduce, FillDrop, Still, store, losses, flushes, callback
<1>5. ASSUME NEW g \in FlushIds, FlushStep(g)
      PROVE  FlushTake(g) \/ FlushGive(g) \/ Still
  BY <1>5 DEF FlushStep, FlushLoop, FlushConsume, Still, store, losses, fills, callback
<1>6. UNCHANGED vars => Still
  BY DEF vars, Still, store, losses, fills, flushes, callback
<1> QED
  BY <1>1, <1>2, <1>3, <1>4, <1>5, <1>6 DEF Next, CallbackStep

\* What a queue or a hand holds stays a frame or nothing.
LEMMA HoldsStep ==
    ASSUME HoldsOK, [Next]_vars
    PROVE  HoldsOK'
<1> USE DEF HoldsOK
<1>n. None \in Held /\ Silence \in Held /\ <<>> \in Seq(Held)
  BY EmptySeq DEF Held, Frames
<1>h. \A q \in Seq(Held) : q # <<>> => Head(q) \in Held /\ Tail(q) \in Seq(Held)
  BY HeadTailProperties
<1>a. \A q \in Seq(Held), x \in Held : Append(q, x) \in Seq(Held)
  BY AppendProperties
<1>p. ASSUME NEW x \in Held, PutBack(x) PROVE freeBuffers' \in Seq(Held)
  BY <1>p, <1>a DEF PutBack
<1>1. CASE AudioInit
  BY <1>1, <1>n, PoolOnce DEF AudioInit, fills, flushes, callback
<1>2. ASSUME NEW c \in Controllers, StopClear(c) PROVE HoldsOK'
  BY <1>2, <1>h, <1>p DEF StopClear, store, fills, flushes, callback
<1>3. ASSUME NEW c \in Controllers, Teardown(c) PROVE HoldsOK'
  BY <1>3, <1>n DEF Teardown, fills, flushes, callback
<1>4. ASSUME NEW f \in FillIds, FillAlloc(f) PROVE HoldsOK'
  BY <1>4, <1>h DEF FillAlloc, flushes, callback
<1>5. ASSUME NEW f \in FillIds, FillEnq(f) PROVE HoldsOK'
  BY <1>5, <1>a, <1>n DEF FillEnq, flushes, callback
<1>6. ASSUME NEW g \in FlushIds, FlushTake(g) PROVE HoldsOK'
  BY <1>6, <1>h DEF FlushTake, fills, callback
<1>7. ASSUME NEW g \in FlushIds, FlushGive(g) PROVE HoldsOK'
  BY <1>7, <1>p, <1>n DEF FlushGive, fills, callback
<1>8. CASE CbPlay
  BY <1>8, <1>h DEF CbPlay, fills, flushes
<1>9. CASE CbReturn
  BY <1>9, <1>p, <1>n DEF CbReturn, fills, flushes
<1>10. CASE CbAlloc
  BY <1>10, <1>h DEF CbAlloc, fills, flushes
<1>11. CASE CbSilence
  BY <1>11, <1>n DEF CbSilence, store, fills, flushes
<1>12. CASE CbEnq
  BY <1>12, <1>a, <1>n DEF CbEnq, fills, flushes
<1>13. CASE Still
  BY <1>13 DEF Still
<1> QED
  BY Movers, <1>1, <1>2, <1>3, <1>4, <1>5, <1>6, <1>7, <1>8, <1>9, <1>10, <1>11, <1>12, <1>13

\* Every step but Audio_init keeps a buffer in one place.
LEMMA ApartStep ==
    ASSUME HoldsOK, [Next]_vars, ~AudioInit, NEW b \in Buffers, Apart(b)
    PROVE  Apart(b)'
<1>b. b # None /\ b # Silence
  BY BuffersAssumption
<1>n. None \in Held /\ Silence \in Held
  BY DEF Held, Frames
<1>p. ASSUME NEW x \in Held, x = b => ~In(b, freeBuffers), PutBack(x)
      PROVE  /\ Once(b, freeBuffers')
             /\ In(b, freeBuffers') => In(b, freeBuffers) \/ x = b
             /\ b \in lost' => b \in lost \/ (x = b /\ freeBuffers' = freeBuffers)
  BY <1>p, Put DEF PutBack, Apart, HoldsOK
<1>1. ASSUME NEW c \in Controllers, StopClear(c) PROVE Apart(b)'
  <2>1. CASE playQ # <<>> /\ PutBack(Head(playQ)) /\ playQ' = Tail(playQ)
             /\ UNCHANGED <<recQ, fillBuf, flushBuf, cbBuf>>
    <3>1. /\ Head(playQ) \in Held /\ Once(b, Tail(playQ))
          /\ In(b, Tail(playQ)) => In(b, playQ)
          /\ Head(playQ) = b => In(b, playQ) /\ ~In(b, Tail(playQ))
      BY <2>1, Taken DEF Apart, HoldsOK
    <3>2. /\ Once(b, freeBuffers')
          /\ In(b, freeBuffers') => In(b, freeBuffers) \/ Head(playQ) = b
          /\ b \in lost' => b \in lost \/ (Head(playQ) = b /\ freeBuffers' = freeBuffers)
      BY <2>1, <3>1, <1>p DEF Apart
    <3> QED
      BY <2>1, <3>1, <3>2 DEF Apart, Somewhere
  <2>2. CASE recQ # <<>> /\ PutBack(Head(recQ)) /\ recQ' = Tail(recQ)
             /\ UNCHANGED <<playQ, fillBuf, flushBuf, cbBuf>>
    <3>1. /\ Head(recQ) \in Held /\ Once(b, Tail(recQ))
          /\ In(b, Tail(recQ)) => In(b, recQ)
          /\ Head(recQ) = b => In(b, recQ) /\ ~In(b, Tail(recQ))
      BY <2>2, Taken DEF Apart, HoldsOK
    <3>2. /\ Once(b, freeBuffers')
          /\ In(b, freeBuffers') => In(b, freeBuffers) \/ Head(recQ) = b
          /\ b \in lost' => b \in lost \/ (Head(recQ) = b /\ freeBuffers' = freeBuffers)
      BY <2>2, <3>1, <1>p DEF Apart
    <3> QED
      BY <2>2, <3>1, <3>2 DEF Apart, Somewhere
  <2>3. CASE Still
    BY <2>3 DEF Still, Apart, Somewhere
  <2> QED
    BY <1>1, <2>1, <2>2, <2>3 DEF StopClear, Still, store, losses, fills, flushes, callback
<1>2. ASSUME NEW c \in Controllers, Teardown(c) PROVE Apart(b)'
  BY <1>2, Nothing DEF Teardown, losses, fills, flushes, callback, Apart, Somewhere
<1>3. ASSUME NEW f \in FillIds, FillAlloc(f) PROVE Apart(b)'
  <2>1. /\ Head(freeBuffers) \in Held /\ Once(b, Tail(freeBuffers))
        /\ In(b, Tail(freeBuffers)) => In(b, freeBuffers)
        /\ Head(freeBuffers) = b => In(b, freeBuffers) /\ ~In(b, Tail(freeBuffers))
    BY <1>3, Taken DEF FillAlloc, Apart, HoldsOK
  <2>2. fillBuf' = [fillBuf EXCEPT ![f] = Head(freeBuffers)]
    BY <1>3 DEF FillAlloc
  <2>3. Once(b, fillBuf') /\ (In(b, fillBuf') => In(b, fillBuf) \/ Head(freeBuffers) = b)
    <3>1. f \in DOMAIN fillBuf /\ Once(b, fillBuf)
          /\ (Head(freeBuffers) = b => ~In(b, fillBuf))
      BY <2>1 DEF Apart, HoldsOK
    <3> QED
      BY <2>2, <3>1, Handed
  <2>4. freeBuffers' = Tail(freeBuffers) /\ UNCHANGED <<playQ, recQ, lost, flushBuf, cbBuf>>
    BY <1>3 DEF FillAlloc, losses, flushes, callback
  <2> QED
    BY <2>1, <2>3, <2>4 DEF Apart, Somewhere
<1>4. ASSUME NEW f \in FillIds, FillEnq(f) PROVE Apart(b)'
  <2>1. fillBuf' = [fillBuf EXCEPT ![f] = None] /\ fillBuf[f] \in Held
    BY <1>4 DEF FillEnq, HoldsOK
  <2>2. /\ Once(b, fillBuf') /\ (In(b, fillBuf') => In(b, fillBuf))
        /\ fillBuf[f] = b => In(b, fillBuf) /\ ~In(b, fillBuf')
    <3>1. f \in DOMAIN fillBuf /\ Once(b, fillBuf)
      BY DEF Apart, HoldsOK
    <3>2. fillBuf' = [fillBuf EXCEPT ![f] = None] /\ (None = b => ~In(b, fillBuf))
      BY <2>1, <1>b
    <3>3. /\ Once(b, fillBuf')
          /\ In(b, fillBuf') => In(b, fillBuf) \/ None = b
          /\ fillBuf[f] = b => In(b, fillBuf)
          /\ (fillBuf[f] = b /\ None # b) => ~In(b, fillBuf')
      BY <3>1, <3>2, Handed
    <3> QED
      BY <3>3, <1>b
  <2>3. \/ playQ' = Append(playQ, fillBuf[f]) /\ lost' = lost
        \/ playQ' = playQ /\ lost' = lost \cup {fillBuf[f]}
    BY <1>4 DEF FillEnq, losses
  <2>4. Once(b, playQ') /\ (In(b, playQ') => In(b, playQ) \/ fillBuf[f] = b)
    <3>1. playQ \in Seq(Held) /\ Once(b, playQ) /\ (fillBuf[f] = b => ~In(b, playQ))
      BY <2>2 DEF Apart, HoldsOK
    <3> QED
      BY <2>1, <2>3, <3>1, Put
  <2>5. UNCHANGED <<freeBuffers, recQ, flushBuf, cbBuf>>
    BY <1>4 DEF FillEnq, flushes, callback
  <2>6. b \in lost' => b \in lost \/ (fillBuf[f] = b /\ playQ' = playQ)
    BY <2>3
  <2> QED
    BY <2>2, <2>4, <2>5, <2>6 DEF Apart, Somewhere
<1>5. ASSUME NEW g \in FlushIds, FlushTake(g) PROVE Apart(b)'
  <2>1. UNCHANGED <<freeBuffers, playQ, lost, fillBuf, cbBuf>>
    BY <1>5 DEF FlushTake, losses, fills, callback
  <2>2. CASE recQ = <<>>
    BY <1>5, <2>1, <2>2 DEF FlushTake, Apart, Somewhere
  <2>3. CASE recQ # <<>>
    <3>1. recQ' = Tail(recQ) /\ flushBuf' = [flushBuf EXCEPT ![g] = Head(recQ)]
      BY <1>5, <2>3 DEF FlushTake
    <3>2. /\ Head(recQ) \in Held /\ Once(b, Tail(recQ))
          /\ In(b, Tail(recQ)) => In(b, recQ)
          /\ Head(recQ) = b => In(b, recQ) /\ ~In(b, Tail(recQ))
      BY <2>3, Taken DEF Apart, HoldsOK
    <3>3. Once(b, flushBuf') /\ (In(b, flushBuf') => In(b, flushBuf) \/ Head(recQ) = b)
      <4>1. g \in DOMAIN flushBuf /\ Once(b, flushBuf)
            /\ (Head(recQ) = b => ~In(b, flushBuf))
        BY <3>2 DEF Apart, HoldsOK
      <4> QED
        BY <3>1, <4>1, Handed
    <3> QED
      BY <2>1, <3>1, <3>2, <3>3 DEF Apart, Somewhere
  <2> QED
    BY <2>2, <2>3
<1>6. ASSUME NEW g \in FlushIds, FlushGive(g) PROVE Apart(b)'
  <2>1. flushBuf' = [flushBuf EXCEPT ![g] = None] /\ flushBuf[g] \in Held
    BY <1>6 DEF FlushGive, HoldsOK
  <2>2. /\ Once(b, flushBuf') /\ (In(b, flushBuf') => In(b, flushBuf))
        /\ flushBuf[g] = b => In(b, flushBuf) /\ ~In(b, flushBuf')
    <3>1. g \in DOMAIN flushBuf /\ Once(b, flushBuf)
      BY DEF Apart, HoldsOK
    <3>2. flushBuf' = [flushBuf EXCEPT ![g] = None] /\ (None = b => ~In(b, flushBuf))
      BY <2>1, <1>b
    <3>3. /\ Once(b, flushBuf')
          /\ In(b, flushBuf') => In(b, flushBuf) \/ None = b
          /\ flushBuf[g] = b => In(b, flushBuf)
          /\ (flushBuf[g] = b /\ None # b) => ~In(b, flushBuf')
      BY <3>1, <3>2, Handed
    <3> QED
      BY <3>3, <1>b
  <2>3. PutBack(flushBuf[g]) \/ UNCHANGED <<freeBuffers, lost>>
    BY <1>6 DEF FlushGive, losses
  <2>4. /\ Once(b, freeBuffers')
        /\ In(b, freeBuffers') => In(b, freeBuffers) \/ flushBuf[g] = b
        /\ b \in lost' => b \in lost \/ (flushBuf[g] = b /\ freeBuffers' = freeBuffers)
    BY <2>1, <2>2, <2>3, <1>p DEF Apart
  <2>5. UNCHANGED <<playQ, recQ, fillBuf, cbBuf>>
    BY <1>6 DEF FlushGive, fills, callback
  <2> QED
    BY <2>2, <2>4, <2>5 DEF Apart, Somewhere
<1>7. CASE CbPlay
  <2>1. UNCHANGED <<freeBuffers, recQ, lost, fillBuf, flushBuf>>
    BY <1>7 DEF CbPlay, losses, fills, flushes
  <2>2. CASE playQ = <<>>
    BY <1>7, <2>1, <2>2 DEF CbPlay, Apart, Somewhere
  <2>3. CASE playQ # <<>>
    <3>1. playQ' = Tail(playQ) /\ cbBuf' = Head(playQ)
      BY <1>7, <2>3 DEF CbPlay
    <3>2. /\ Once(b, Tail(playQ))
          /\ In(b, Tail(playQ)) => In(b, playQ)
          /\ Head(playQ) = b => In(b, playQ) /\ ~In(b, Tail(playQ))
      BY <2>3, Taken DEF Apart, HoldsOK
    <3> QED
      BY <2>1, <3>1, <3>2 DEF Apart, Somewhere
  <2> QED
    BY <2>2, <2>3
<1>8. CASE CbReturn
  <2>1. PutBack(cbBuf) /\ cbBuf' = None
        /\ UNCHANGED <<playQ, recQ, fillBuf, flushBuf>>
    BY <1>8 DEF CbReturn, fills, flushes
  <2>2. /\ Once(b, freeBuffers')
        /\ In(b, freeBuffers') => In(b, freeBuffers) \/ cbBuf = b
        /\ b \in lost' => b \in lost \/ (cbBuf = b /\ freeBuffers' = freeBuffers)
    BY <2>1, <1>p DEF Apart, HoldsOK
  <2> QED
    BY <2>1, <2>2, <1>b DEF Apart, Somewhere
<1>9. CASE CbAlloc
  <2>1. /\ freeBuffers # <<>>
        /\ freeBuffers' = Tail(freeBuffers) /\ cbBuf' = Head(freeBuffers)
        /\ UNCHANGED <<playQ, recQ, lost, fillBuf, flushBuf>>
    BY <1>9 DEF CbAlloc, losses, fills, flushes
  <2>2. /\ Once(b, Tail(freeBuffers))
        /\ In(b, Tail(freeBuffers)) => In(b, freeBuffers)
        /\ Head(freeBuffers) = b => In(b, freeBuffers) /\ ~In(b, Tail(freeBuffers))
    BY <2>1, Taken DEF Apart, HoldsOK
  <2> QED
    BY <2>1, <2>2 DEF Apart, Somewhere
<1>10. CASE CbSilence
  BY <1>10, <1>b DEF CbSilence, store, losses, fills, flushes, Apart, Somewhere
<1>11. CASE CbEnq
  <2>1. /\ \/ recQ' = Append(recQ, cbBuf) /\ lost' = lost
           \/ recQ' = recQ /\ lost' = lost \cup ({cbBuf} \cap Buffers)
        /\ cbBuf' = None
        /\ UNCHANGED <<freeBuffers, playQ, fillBuf, flushBuf>>
    BY <1>11 DEF CbEnq, fills, flushes
  <2>2. Once(b, recQ') /\ (In(b, recQ') => In(b, recQ) \/ cbBuf = b)
    <3>1. /\ recQ \in Seq(Held) /\ cbBuf \in Held
          /\ Once(b, recQ) /\ (cbBuf = b => ~In(b, recQ))
      BY DEF Apart, HoldsOK
    <3> QED
      BY <2>1, <3>1, Put
  <2>3. b \in lost' => b \in lost \/ (cbBuf = b /\ recQ' = recQ)
    BY <2>1
  <2> QED
    BY <2>1, <2>2, <2>3, <1>b DEF Apart, Somewhere
<1>12. CASE Still
  BY <1>12 DEF Still, Apart, Somewhere
<1> QED
  BY Movers, <1>1, <1>2, <1>3, <1>4, <1>5, <1>6, <1>7, <1>8, <1>9, <1>10, <1>11, <1>12

-----------------------------------------------------------------------------
(* Audio_init comes first and once. *)

\* A caller moves itself only, and one that is gone makes no step.
LEMMA CallerStep ==
    ASSUME NEW c \in Controllers, Start(c) \/ Stop(c) \/ StartStep(c) \/ StopStep(c)
    PROVE  ctl[c] # "gone" /\ (ctl' = ctl \/ \E s : ctl' = [ctl EXCEPT ![c] = s])
<1>1. CASE Start(c) \/ Stop(c)
  BY <1>1 DEF Start, Stop, At, Goto
<1>2. CASE StartTest(c) \/ StartFlags(c) \/ StartInit(c) \/ StartOpen(c) \/ StartFill(c)
  BY <1>2 DEF StartTest, StartFlags, StartInit, StartOpen, StartFill, At, Goto, Return
<1>3. CASE StartWait(c) \/ StartRun(c) \/ StartFlush(c) \/ StartDone(c) \/ StartClose(c)
  BY <1>3 DEF StartWait, StartRun, StartFlush, StartDone, StartClose, At, Goto, Return
<1>4. CASE StopTest(c) \/ StopJoinFill(c) \/ StopJoinFlush(c) \/ StopClose(c)
  BY <1>4 DEF StopTest, StopJoinFill, StopJoinFlush, StopClose, At, Goto, StopReturn
<1>5. CASE StopClosing(c) \/ StopClear(c) \/ StopDone(c) \/ StopNull(c) \/ Teardown(c)
  BY <1>5 DEF StopClosing, StopClear, StopDone, StopNull, Teardown, At, Goto, StopReturn
<1> QED
  BY <1>1, <1>2, <1>3, <1>4, <1>5 DEF StartStep, StopStep

\* The other steps leave the callers where they are.
LEMMA WorkerStep ==
    ASSUME \/ \E f \in FillIds : FillStep(f)
           \/ \E g \in FlushIds : FlushStep(g)
           \/ CallbackStep
    PROVE  UNCHANGED <<ctl, initialized, stream>>
<1>1. ASSUME NEW f \in FillIds, FillStep(f) PROVE UNCHANGED <<ctl, initialized, stream>>
  BY <1>1 DEF FillStep, FillLoop, FillProduce, FillDrop, FillAlloc, FillEnq, flags, control
<1>2. ASSUME NEW g \in FlushIds, FlushStep(g) PROVE UNCHANGED <<ctl, initialized, stream>>
  BY <1>2 DEF FlushStep, FlushLoop, FlushTake, FlushConsume, FlushGive, flags, control
<1>3. CASE CallbackStep
  BY <1>3 DEF CallbackStep, CbPlay, CbReturn, CbAlloc, CbSilence, CbEnq, flags, control
<1> QED
  BY <1>1, <1>2, <1>3

\* Steps change values, not the sets of callers and threads.
LEMMA StepsStep ==
    ASSUME StepsOK, [Next]_vars
    PROVE  StepsOK'
<1> USE DEF StepsOK
<1>1. CASE AudioInit
  BY <1>1 DEF AudioInit, fills, flushes, control
<1>2. ASSUME NEW c \in Controllers, Start(c) \/ Stop(c) PROVE StepsOK'
  BY <1>2, CallerStep DEF Start, Stop, fills, flushes
<1>3. ASSUME NEW c \in Controllers, StartStep(c) PROVE StepsOK'
  <2>1. DOMAIN ctl' = Controllers
    BY <1>3, CallerStep
  <2>2. DOMAIN fillPc' = FillIds /\ DOMAIN flushPc' = FlushIds
    BY <1>3 DEF StartStep, StartTest, StartFlags, StartInit, StartOpen, StartFill, StartWait,
                StartRun, StartFlush, StartDone, StartClose, fills, flushes, FillIds, FlushIds
  <2> QED
    BY <2>1, <2>2 DEF FillIds, FlushIds
<1>4. ASSUME NEW c \in Controllers, StopStep(c) PROVE StepsOK'
  <2>1. DOMAIN ctl' = Controllers
    BY <1>4, CallerStep
  <2>2. DOMAIN fillPc' = FillIds /\ DOMAIN flushPc' = FlushIds
    BY <1>4 DEF StopStep, StopTest, StopJoinFill, StopJoinFlush, StopClose, StopClosing,
                StopClear, StopDone, StopNull, Teardown, fills, flushes, FillIds, FlushIds
  <2> QED
    BY <2>1, <2>2 DEF FillIds, FlushIds
<1>5. ASSUME NEW f \in FillIds, FillStep(f) PROVE StepsOK'
  BY <1>5 DEF FillStep, FillLoop, FillProduce, FillDrop, FillAlloc, FillEnq, flushes, control,
              FillIds, FlushIds
<1>6. ASSUME NEW g \in FlushIds, FlushStep(g) PROVE StepsOK'
  BY <1>6 DEF FlushStep, FlushLoop, FlushTake, FlushConsume, FlushGive, fills, control,
              FillIds, FlushIds
<1>7. CASE CallbackStep
  BY <1>7 DEF CallbackStep, CbPlay, CbReturn, CbAlloc, CbSilence, CbEnq, fills, flushes,
              control, FillIds, FlushIds
<1>8. CASE UNCHANGED vars
  BY <1>8 DEF vars, fills, flushes, control
<1> QED
  BY <1>1, <1>2, <1>3, <1>4, <1>5, <1>6, <1>7, <1>8 DEF Next

\* A caller that is gone stays gone.
LEMMA GoneStep ==
    ASSUME StepsOK, [Next]_vars, NEW d \in Controllers, ctl[d] = "gone"
    PROVE  ctl'[d] = "gone"
<1>1. CASE AudioInit
  BY <1>1 DEF AudioInit
<1>2. ASSUME NEW c \in Controllers, Start(c) \/ Stop(c) \/ StartStep(c) \/ StopStep(c)
      PROVE  ctl'[d] = "gone"
  BY <1>2, CallerStep DEF StepsOK
<1>3. CASE UNCHANGED vars
  BY <1>3 DEF vars, control
<1> QED
  BY <1>1, <1>2, <1>3, WorkerStep DEF Next

\* Untouched lasts until Audio_init.
LEMMA UntouchedStep ==
    ASSUME StepsOK, Untouched, ~initialized, [Next]_vars
    PROVE  Untouched' \/ initialized'
<1>1. CASE AudioInit
  BY <1>1 DEF AudioInit
<1>2. ASSUME NEW c \in Controllers, Start(c) \/ Stop(c) PROVE Untouched'
  BY <1>2 DEF Start, Stop, At, Goto, Untouched, StepsOK, fills, flushes, callback,
              FillIds, FlushIds
<1>3. ASSUME NEW c \in Controllers, StartStep(c) PROVE Untouched'
  <2>1. ~(StartOpen(c) \/ StartFill(c) \/ StartWait(c) \/ StartRun(c) \/ StartFlush(c))
    BY DEF Untouched, StartOpen, StartFill, StartWait, StartRun, StartFlush, At
  <2>2. CASE StartTest(c) \/ StartFlags(c) \/ StartInit(c)
    BY <2>2 DEF StartTest, StartFlags, StartInit, At, Goto, Return, Untouched, StepsOK,
                fills, flushes, callback, FillIds, FlushIds
  <2>3. CASE StartDone(c) \/ StartClose(c)
    BY <2>3 DEF StartDone, StartClose, At, Goto, Return, Untouched, StepsOK, fills, flushes,
                callback, FillIds, FlushIds
  <2> QED
    BY <1>3, <2>1, <2>2, <2>3 DEF StartStep
<1>4. ASSUME NEW c \in Controllers, StopStep(c) PROVE Untouched'
  <2>1. CASE StopTest(c) \/ StopClose(c)
    BY <2>1 DEF StopTest, StopClose, At, Goto, StopReturn, Untouched, StepsOK,
                fills, flushes, callback, FillIds, FlushIds
  <2>2. CASE StopJoinFill(c)
    BY <2>2 DEF StopJoinFill, At, Goto, Untouched, StepsOK, flushes, callback, FillIds,
                FlushIds
  <2>3. CASE StopJoinFlush(c)
    BY <2>3 DEF StopJoinFlush, At, Goto, Untouched, StepsOK, fills, callback, FillIds,
                FlushIds
  <2>4. CASE StopClosing(c) \/ StopClear(c)
    BY <2>4 DEF StopClosing, StopClear, At, Goto, Untouched, StepsOK, fills, flushes,
                callback, FillIds, FlushIds
  <2>5. CASE StopDone(c) \/ StopNull(c)
    BY <2>5 DEF StopDone, StopNull, At, Goto, StopReturn, Untouched, StepsOK, fills,
                flushes, callback, FillIds, FlushIds
  <2>6. ~Teardown(c)
    BY DEF Teardown
  <2> QED
    BY <1>4, <2>1, <2>2, <2>3, <2>4, <2>5, <2>6 DEF StopStep
<1>5. ~\E f \in FillIds : FillStep(f)
  BY DEF FillStep, FillLoop, FillProduce, FillDrop, FillAlloc, FillEnq, FillAt, Untouched
<1>6. ~\E g \in FlushIds : FlushStep(g)
  BY DEF FlushStep, FlushLoop, FlushTake, FlushConsume, FlushGive, FlushAt, Untouched
<1>7. ~CallbackStep
  BY DEF CallbackStep, CbPlay, CbReturn, CbAlloc, CbSilence, CbEnq, CbAt, Untouched
<1>8. CASE UNCHANGED vars
  BY <1>8 DEF vars, fills, flushes, callback, control, Untouched, FillIds, FlushIds
<1> QED
  BY <1>1, <1>2, <1>3, <1>4, <1>5, <1>6, <1>7, <1>8 DEF Next

\* Audio_init stays first.
LEMMA AsleepStep ==
    ASSUME StepsOK, Asleep, [Next]_vars
    PROVE  Asleep'
<1>1. CASE \E c \in Controllers : ctl[c] = "gone"
  BY <1>1, GoneStep DEF Asleep
<1>2. CASE ~initialized /\ Untouched
  BY <1>2, UntouchedStep DEF Asleep
<1>3. CASE initialized
  <2>1. ASSUME AudioInit PROVE initialized'
    BY <2>1 DEF AudioInit
  <2>2. ASSUME NEW c \in Controllers, Start(c) \/ Stop(c) PROVE initialized' = initialized
    BY <2>2 DEF Start, Stop, flags
  <2>3. ASSUME NEW c \in Controllers, StartStep(c) PROVE initialized' = initialized
    BY <2>3 DEF StartStep, StartTest, StartFlags, StartInit, StartOpen, StartFill,
                      StartWait, StartRun, StartFlush, StartDone, StartClose, flags
  <2>4. ASSUME NEW c \in Controllers, StopStep(c), ~Teardown(c) PROVE initialized' = initialized
    BY <2>4 DEF StopStep, StopTest, StopJoinFill, StopJoinFlush, StopClose,
                      StopClosing, StopClear, StopDone, StopNull, flags
  <2>5. ASSUME NEW c \in Controllers, Teardown(c) PROVE ctl'[c] = "gone"
    BY <2>5 DEF Teardown, Goto, StepsOK
  <2>6. ASSUME UNCHANGED vars PROVE initialized' = initialized
    BY <2>6 DEF vars, flags
  <2>7. \/ AudioInit \/ initialized' = initialized
        \/ \E c \in Controllers : ctl'[c] = "gone"
    BY <2>2, <2>3, <2>4, <2>5, <2>6, WorkerStep DEF Next
  <2> QED
    BY <1>3, <2>1, <2>7, Zenon DEF Asleep
<1> QED
  BY <1>1, <1>2, <1>3 DEF Asleep

-----------------------------------------------------------------------------
(* The invariant, and the count of places. *)

\* Audio_init fills the pool when no buffer is anywhere else.
LEMMA ApartAtInit ==
    ASSUME HoldsOK, Asleep, AudioInit, NEW b \in Buffers
    PROVE  Apart(b)'
<1>1. Untouched
  <2>1. ~initialized /\ \A c \in Controllers : ctl[c] = "idle"
    BY DEF AudioInit
  <2> QED
    BY <2>1 DEF Asleep
<1>2. b # None
  BY BuffersAssumption
<1>3. freeBuffers' \in FullPools /\ playQ' = <<>> /\ recQ' = <<>> /\ lost' = {}
      /\ UNCHANGED <<fillBuf, flushBuf, cbBuf>>
  BY DEF AudioInit, fills, flushes, callback
<1>4. Once(b, freeBuffers')
  BY <1>3, PoolOnce
<1>5. Once(b, fillBuf) /\ ~In(b, fillBuf)
  BY <1>1, EmptyHands DEF Untouched, HoldsOK
<1>6. Once(b, flushBuf) /\ ~In(b, flushBuf)
  BY <1>1, EmptyHands DEF Untouched, HoldsOK
<1>7. cbBuf # b
  BY <1>1, <1>2 DEF Untouched
<1> QED
  BY <1>3, <1>4, <1>5, <1>6, <1>7, Nothing DEF Apart

\* Every step keeps the invariant.
LEMMA BuffersStep == BuffersIInv /\ [Next]_vars => BuffersIInv'
<1> SUFFICES ASSUME BuffersIInv, [Next]_vars PROVE BuffersIInv'
  OBVIOUS
<1>1. HoldsOK'
  BY HoldsStep DEF BuffersIInv
<1>2. StepsOK' /\ Asleep'
  BY StepsStep, AsleepStep DEF BuffersIInv
<1>3. ASSUME NEW b \in Buffers PROVE Apart(b)'
  BY ApartStep, ApartAtInit DEF BuffersIInv
<1> QED
  BY <1>1, <1>2, <1>3 DEF BuffersIInv

\* A set whose members are all equal has at most one.
LEMMA AtMostOne ==
    ASSUME NEW S, \A x, y \in S : x = y
    PROVE  Cardinality(S) \in {0, 1} /\ (Cardinality(S) = 1 <=> S # {})
<1>1. CASE S = {}
  BY <1>1, FS_EmptySet
<1>2. CASE S # {}
  <2>1. PICK x \in S : TRUE
    BY <1>2
  <2>2. S = {x}
    BY <2>1
  <2> QED
    BY <2>2, FS_Singleton
<1> QED
  BY <1>1, <1>2

\* What Places adds up for one collection.
LEMMA Counted ==
    ASSUME NEW b, NEW q, Once(b, q)
    PROVE  /\ Cardinality({i \in DOMAIN q : q[i] = b}) \in {0, 1}
           /\ Cardinality({i \in DOMAIN q : q[i] = b}) = 1 <=> In(b, q)
<1> DEFINE S == {i \in DOMAIN q : q[i] = b}
<1>1. \A i, j \in S : i = j
  BY DEF Once
<1>2. Cardinality(S) \in {0, 1} /\ (Cardinality(S) = 1 <=> S # {})
  BY <1>1, AtMostOne
<1>3. S # {} <=> In(b, q)
  BY DEF In
<1> QED
  BY <1>2, <1>3

\* The places of a buffer add up: none or one in each collection.
LEMMA PlacesCounted ==
    ASSUME BuffersIInv, NEW b \in Buffers
    PROVE  Places(b) \in {0, 1} /\ (Places(b) = 1 <=> Somewhere(b))
<1> DEFINE free == Copies(b, freeBuffers)
           play == Copies(b, playQ)
           rec == Copies(b, recQ)
           fill == Cardinality({f \in FillIds : fillBuf[f] = b})
           flush == Cardinality({g \in FlushIds : flushBuf[g] = b})
           cb == IF cbBuf = b THEN 1 ELSE 0
<1>1. Apart(b)
  BY DEF BuffersIInv
<1>2. free \in {0, 1} /\ (free = 1 <=> In(b, freeBuffers))
  BY <1>1, Counted DEF Apart, Copies
<1>3. play \in {0, 1} /\ (play = 1 <=> In(b, playQ))
  BY <1>1, Counted DEF Apart, Copies
<1>4. rec \in {0, 1} /\ (rec = 1 <=> In(b, recQ))
  BY <1>1, Counted DEF Apart, Copies
<1>5. fill \in {0, 1} /\ (fill = 1 <=> In(b, fillBuf))
  <2>1. DOMAIN fillBuf = FillIds
    BY DEF BuffersIInv, HoldsOK
  <2> QED
    BY <1>1, <2>1, Counted DEF Apart
<1>6. flush \in {0, 1} /\ (flush = 1 <=> In(b, flushBuf))
  <2>1. DOMAIN flushBuf = FlushIds
    BY DEF BuffersIInv, HoldsOK
  <2> QED
    BY <1>1, <2>1, Counted DEF Apart
<1>7. cb \in {0, 1} /\ (cb = 1 <=> cbBuf = b)
  OBVIOUS
<1>8. Places(b) = free + play + rec + fill + flush + cb
  BY DEF Places
<1> HIDE DEF free, play, rec, fill, flush, cb
<1> QED
  BY <1>1, <1>2, <1>3, <1>4, <1>5, <1>6, <1>7, <1>8 DEF Apart, Somewhere

\* A buffer that is once in one collection counts once.
LEMMA ApartMeansUnshared == BuffersIInv => NoBufferShared
BY PlacesCounted DEF NoBufferShared

\* The invariant that follows each buffer.
THEOREM BuffersInvariance == Spec => []BuffersIInv
<1> QED
  BY BuffersInit, BuffersStep, PTL DEF Spec

\* A frame buffer is never in two places at once, whoever starts and stops the
\* audio, whichever calls of PortAudio fail and however many nodes there are:
\* audio.c:413, 419, 459, 475, 497-508 and clearAllQueues only move buffers, and
\* initFreeBuffers runs before anything is moved.
THEOREM BuffersUnshared == Spec => []NoBufferShared
<1> QED
  BY BuffersInvariance, ApartMeansUnshared, PTL

-----------------------------------------------------------------------------
(* A buffer that is nowhere is one that a ring or a queue did not take: what *)
(* is taken from one place is put in another.  For that the hands must be    *)
(* empty when something is taken (HandsOK), which needs thread numbers of    *)
(* their own (NumberLeft).                                                   *)

BeforeFill == {"s_test", "s_flags", "s_init", "s_open", "s_fill"}
BeforeFlush == BeforeFill \cup {"s_wait", "s_run", "s_flush"}
Coming(steps) == {c \in Controllers : ctl[c] \in steps}

\* Threads are numbered as they are created, and a number is left for each call
\* of Audio_start that has its thread still to create.
NumberLeft(pc, steps) ==
    /\ IsFiniteSet(Coming(steps))
    /\ \E n \in 0 .. Sessions :
          /\ \A i \in 1 .. Sessions : pc[i] = "none" <=> i > n
          /\ n + Cardinality(Coming(steps)) <= sessions

\* A thread has a buffer in hand between the steps that take and put it.
HandsOK ==
    /\ \A f \in FillIds : IF fillPc[f] = "enq" THEN fillBuf[f] \in Buffers
                                              ELSE fillBuf[f] = None
    /\ \A g \in FlushIds : IF flushPc[g] \in {"consume", "give", "last"}
                             THEN flushBuf[g] \in Frames ELSE flushBuf[g] = None
    /\ cbPc \in {"idle", "alloc"} => cbBuf = None
    /\ cbPc \in {"return", "enq"} => cbBuf \in Frames

\* Every buffer is somewhere, or lost.
KeptOK == initialized => \A b \in Buffers : b \in lost \/ Somewhere(b)

EngineIInv ==
    /\ BuffersIInv /\ TypeOK
    /\ NumberLeft(fillPc, BeforeFill) /\ NumberLeft(flushPc, BeforeFlush)
    /\ ~dead => HandsOK

KeptIInv == EngineIInv /\ (~dead => KeptOK)

-----------------------------------------------------------------------------
(* What stays where it is. *)

\* The head of a queue is taken, and everything else stays in it.
LEMMA TakenIn ==
    ASSUME NEW q \in Seq(Held), q # <<>>, NEW x
    PROVE  In(x, q) <=> x = Head(q) \/ In(x, Tail(q))
<1>1. /\ Len(Tail(q)) = Len(q) - 1
      /\ \A i \in 1 .. Len(Tail(q)) : Tail(q)[i] = q[i + 1]
  BY HeadTailProperties
<1>2. /\ Len(q) \in Nat \ {0} /\ DOMAIN q = 1 .. Len(q)
      /\ DOMAIN Tail(q) = 1 .. Len(Tail(q)) /\ Head(q) = q[1]
  BY <1>1, HeadTailProperties, LenProperties, EmptySeq
<1>3. In(x, q) => x = Head(q) \/ In(x, Tail(q))
  <2> SUFFICES ASSUME NEW i \in 1 .. Len(q), q[i] = x PROVE x = Head(q) \/ In(x, Tail(q))
    BY <1>2 DEF In
  <2>1. CASE i = 1
    BY <2>1, <1>2
  <2>2. CASE i # 1
    <3>1. i - 1 \in 1 .. Len(Tail(q)) /\ Tail(q)[i - 1] = q[i]
      BY <1>1, <1>2, <2>2
    <3> QED
      BY <1>2, <3>1 DEF In
  <2> QED
    BY <2>1, <2>2
<1>4. In(Head(q), q)
  BY <1>2 DEF In
<1>5. In(x, Tail(q)) => In(x, q)
  BY <1>1, <1>2 DEF In
<1> QED
  BY <1>3, <1>4, <1>5

\* A frame is put at the end, and nothing leaves.
LEMMA PutIn ==
    ASSUME NEW q \in Seq(Held), NEW y \in Held, NEW x
    PROVE  In(x, Append(q, y)) <=> In(x, q) \/ x = y
<1>1. /\ Len(q) \in Nat /\ DOMAIN q = 1 .. Len(q)
      /\ DOMAIN Append(q, y) = 1 .. Len(q) + 1
      /\ \A i \in 1 .. Len(q) : Append(q, y)[i] = q[i]
      /\ Append(q, y)[Len(q) + 1] = y
  BY AppendProperties, LenProperties
<1> QED
  BY <1>1 DEF In

\* A thread takes y in its hand, or lets go of what it had: the rest stays.
LEMMA HandedIn ==
    ASSUME NEW buf, NEW i \in DOMAIN buf, NEW y, NEW x, NEW new,
           new = [buf EXCEPT ![i] = y]
    PROVE  /\ x = y => In(x, new)
           /\ In(x, buf) => In(x, new) \/ x = buf[i]
BY DEF In

-----------------------------------------------------------------------------
(* Counting. *)

\* pthread_create numbers the next thread.
LEMMA NextNumber ==
    ASSUME NEW N \in Nat, NEW h \in 0 .. N, NEW pc, DOMAIN pc = 1 .. N,
           \A i \in 1 .. N : pc[i] = "none" <=> i > h
    PROVE  Created(pc) = h
<1>1. {i \in DOMAIN pc : pc[i] # "none"} = 1 .. h
  OBVIOUS
<1>2. h \in Nat /\ 1 \in Int /\ h \in Int
  OBVIOUS
<1>3. Cardinality(1 .. h) = h
  BY <1>2, FS_Interval
<1> QED
  BY <1>1, <1>3 DEF Created

\* A caller moves: what becomes of those that are coming.
LEMMA ComingMoves ==
    ASSUME NEW steps, IsFiniteSet(Coming(steps)), NEW c \in Controllers, NEW s,
           DOMAIN ctl = Controllers, ctl' = [ctl EXCEPT ![c] = s]
    PROVE  /\ IsFiniteSet(Coming(steps)')
           /\ Cardinality(Coming(steps)) \in Nat
           /\ Cardinality(Coming(steps)') =
                 CASE s \in steps /\ ctl[c] \notin steps -> Cardinality(Coming(steps)) + 1
                   [] s \notin steps /\ ctl[c] \in steps -> Cardinality(Coming(steps)) - 1
                   [] OTHER -> Cardinality(Coming(steps))
<1> DEFINE C == Coming(steps)
<1>1. Cardinality(C) \in Nat
  BY FS_CardinalityType
<1>2. CASE s \in steps
  <2>1. Coming(steps)' = C \cup {c}
    BY <1>2 DEF Coming
  <2>2. c \in C <=> ctl[c] \in steps
    BY DEF Coming
  <2>3. /\ IsFiniteSet(C \cup {c})
        /\ Cardinality(C \cup {c}) = IF c \in C THEN Cardinality(C) ELSE Cardinality(C) + 1
    BY FS_AddElement
  <2> HIDE DEF C
  <2> QED
    BY <1>1, <1>2, <2>1, <2>2, <2>3, Zenon DEF C
<1>3. CASE s \notin steps
  <2>1. Coming(steps)' = C \ {c}
    BY <1>3 DEF Coming
  <2>2. c \in C <=> ctl[c] \in steps
    BY DEF Coming
  <2>3. /\ IsFiniteSet(C \ {c})
        /\ Cardinality(C \ {c}) = IF c \in C THEN Cardinality(C) - 1 ELSE Cardinality(C)
    BY FS_RemoveElement
  <2> HIDE DEF C
  <2> QED
    BY <1>1, <1>3, <2>1, <2>2, <2>3, Zenon DEF C
<1> QED
  BY <1>2, <1>3

\* A thread is created: a number is left for it.
LEMMA NumberTaken ==
    ASSUME NEW steps, NEW pc, NumberLeft(pc, steps), DOMAIN pc = 1 .. Sessions,
           sessions \in 0 .. Sessions, NEW c \in Controllers, ctl[c] \in steps
    PROVE  /\ Created(pc) + 1 \in 1 .. Sessions
           /\ pc[Created(pc) + 1] = "none"
<1>1. PICK n \in 0 .. Sessions :
         /\ \A i \in 1 .. Sessions : pc[i] = "none" <=> i > n
         /\ n + Cardinality(Coming(steps)) <= sessions
  BY DEF NumberLeft
<1>2. Sessions \in Nat
  BY LimitsAssumption
<1>3. Created(pc) = n
  BY <1>1, <1>2, NextNumber
<1>4. Cardinality(Coming(steps)) \in Nat \ {0}
  <2>1. c \in Coming(steps)
    BY DEF Coming
  <2>2. IsFiniteSet(Coming(steps))
    BY DEF NumberLeft
  <2> QED
    BY <2>1, <2>2, FS_CardinalityType, FS_EmptySet
<1>5. n + 1 \in 1 .. Sessions
  BY <1>1, <1>2, <1>4
<1> QED
  BY <1>1, <1>2, <1>3, <1>5

\* A caller moves that creates no thread of this kind: if it is coming now, it was
\* before, or has just begun its call.
LEMMA NumberKept ==
    ASSUME NEW steps, NEW pc, NEW new, NumberLeft(pc, steps),
           \A i \in 1 .. Sessions : new[i] = "none" <=> pc[i] = "none",
           sessions \in Nat, NEW c \in Controllers, NEW s,
           DOMAIN ctl = Controllers, ctl' = [ctl EXCEPT ![c] = s],
           \/ sessions' = sessions /\ (s \in steps => ctl[c] \in steps)
           \/ sessions' = sessions + 1
    PROVE  /\ IsFiniteSet(Coming(steps)')
           /\ \E n \in 0 .. Sessions :
                 /\ \A i \in 1 .. Sessions : new[i] = "none" <=> i > n
                 /\ n + Cardinality(Coming(steps)') <= sessions'
<1>1. PICK n \in 0 .. Sessions :
         /\ \A i \in 1 .. Sessions : pc[i] = "none" <=> i > n
         /\ n + Cardinality(Coming(steps)) <= sessions
  BY DEF NumberLeft
<1>2. IsFiniteSet(Coming(steps))
  BY DEF NumberLeft
<1>3. /\ IsFiniteSet(Coming(steps)')
      /\ Cardinality(Coming(steps)) \in Nat
      /\ \/ Cardinality(Coming(steps)') = Cardinality(Coming(steps)) + 1
            /\ s \in steps /\ ctl[c] \notin steps
         \/ Cardinality(Coming(steps)') = Cardinality(Coming(steps)) - 1
         \/ Cardinality(Coming(steps)') = Cardinality(Coming(steps))
  BY <1>2, ComingMoves, Zenon
<1>4. n + Cardinality(Coming(steps)') <= sessions'
  BY <1>1, <1>3
<1>5. \A i \in 1 .. Sessions : new[i] = "none" <=> i > n
  BY <1>1
<1> QED
  BY <1>3, <1>4, <1>5

\* The caller that creates the thread is no longer coming.
LEMMA NumberUsed ==
    ASSUME NEW steps, NEW pc, NEW new, NumberLeft(pc, steps), DOMAIN pc = 1 .. Sessions,
           sessions \in 0 .. Sessions, NEW c \in Controllers, NEW s,
           DOMAIN ctl = Controllers, ctl' = [ctl EXCEPT ![c] = s],
           ctl[c] \in steps, s \notin steps, sessions' = sessions,
           new = [pc EXCEPT ![Created(pc) + 1] = "loop"]
    PROVE  /\ IsFiniteSet(Coming(steps)')
           /\ \E n \in 0 .. Sessions :
                 /\ \A i \in 1 .. Sessions : new[i] = "none" <=> i > n
                 /\ n + Cardinality(Coming(steps)') <= sessions'
<1>1. PICK n \in 0 .. Sessions :
         /\ \A i \in 1 .. Sessions : pc[i] = "none" <=> i > n
         /\ n + Cardinality(Coming(steps)) <= sessions
  BY DEF NumberLeft
<1>2. Sessions \in Nat
  BY LimitsAssumption
<1>3. Created(pc) = n
  BY <1>1, <1>2, NextNumber
<1>4. n + 1 \in 1 .. Sessions
  BY <1>3, NumberTaken
<1>5. IsFiniteSet(Coming(steps))
  BY DEF NumberLeft
<1>6. /\ IsFiniteSet(Coming(steps)')
      /\ Cardinality(Coming(steps)) \in Nat
      /\ Cardinality(Coming(steps)') = Cardinality(Coming(steps)) - 1
  BY <1>5, ComingMoves, Zenon
<1>7. (n + 1) + Cardinality(Coming(steps)') <= sessions'
  BY <1>1, <1>6
<1>8. \A i \in 1 .. Sessions : new[i] = "none" <=> i > n + 1
  BY <1>1, <1>2, <1>3, <1>4
<1>9. n + 1 \in 0 .. Sessions
  BY <1>2, <1>4
<1> QED
  BY <1>6, <1>7, <1>8, <1>9

\* A process that has died makes no step.
LEMMA DeadStops ==
    ASSUME dead, [Next]_vars
    PROVE  UNCHANGED vars
BY DEF Next, AudioInit, Start, Stop, StartStep, StartTest, StartFlags, StartInit, StartOpen,
       StartFill, StartWait, StartRun, StartFlush, StartDone, StartClose, StopStep, StopTest,
       StopJoinFill, StopJoinFlush, StopClose, StopClosing, StopClear, StopDone, StopNull,
       Teardown, At, FillStep, FillLoop, FillProduce, FillDrop, FillAlloc, FillEnq, FillAt,
       FlushStep, FlushLoop, FlushTake, FlushConsume, FlushGive, FlushAt, CallbackStep, CbPlay,
       CbReturn, CbAlloc, CbSilence, CbEnq, CbAt

-----------------------------------------------------------------------------
(* Steps. *)

\* The two kinds of threads get their numbers: a caller moves, and may be about to
\* create one.
LEMMA NumbersStep ==
    ASSUME TypeOK, [Next]_vars,
           NumberLeft(fillPc, BeforeFill), NumberLeft(flushPc, BeforeFlush)
    PROVE  NumberLeft(fillPc, BeforeFill)' /\ NumberLeft(flushPc, BeforeFlush)'
<1>t. /\ DOMAIN ctl = Controllers /\ sessions \in Nat /\ sessions \in 0 .. Sessions
      /\ DOMAIN fillPc = 1 .. Sessions /\ DOMAIN flushPc = 1 .. Sessions
  BY LimitsAssumption DEF TypeOK, FillIds, FlushIds
\* No thread is created, and no caller goes back to where one is still to come.
<1>a. ASSUME NEW c \in Controllers, NEW s, ctl' = [ctl EXCEPT ![c] = s],
             \/ sessions' = sessions /\ (s \in BeforeFill => ctl[c] \in BeforeFill)
             \/ sessions' = sessions + 1,
             \A i \in 1 .. Sessions : fillPc'[i] = "none" <=> fillPc[i] = "none"
      PROVE  NumberLeft(fillPc, BeforeFill)'
  <2>1. /\ IsFiniteSet(Coming(BeforeFill)')
        /\ \E n \in 0 .. Sessions :
              /\ \A i \in 1 .. Sessions : fillPc'[i] = "none" <=> i > n
              /\ n + Cardinality(Coming(BeforeFill)') <= sessions'
    BY <1>a, <1>t, NumberKept
  <2> QED
    BY <2>1 DEF NumberLeft, Coming
<1>b. ASSUME NEW c \in Controllers, NEW s, ctl' = [ctl EXCEPT ![c] = s],
             \/ sessions' = sessions /\ (s \in BeforeFlush => ctl[c] \in BeforeFlush)
             \/ sessions' = sessions + 1,
             \A i \in 1 .. Sessions : flushPc'[i] = "none" <=> flushPc[i] = "none"
      PROVE  NumberLeft(flushPc, BeforeFlush)'
  <2>1. /\ IsFiniteSet(Coming(BeforeFlush)')
        /\ \E n \in 0 .. Sessions :
              /\ \A i \in 1 .. Sessions : flushPc'[i] = "none" <=> i > n
              /\ n + Cardinality(Coming(BeforeFlush)') <= sessions'
    BY <1>b, <1>t, NumberKept
  <2> QED
    BY <2>1 DEF NumberLeft, Coming
<1>c. ASSUME UNCHANGED <<ctl, sessions>>,
             \A i \in 1 .. Sessions : fillPc'[i] = "none" <=> fillPc[i] = "none",
             \A i \in 1 .. Sessions : flushPc'[i] = "none" <=> flushPc[i] = "none"
      PROVE  NumberLeft(fillPc, BeforeFill)' /\ NumberLeft(flushPc, BeforeFlush)'
  <2>1. Coming(BeforeFill)' = Coming(BeforeFill) /\ Coming(BeforeFlush)' = Coming(BeforeFlush)
    BY <1>c DEF Coming
  <2> QED
    BY <1>c, <2>1 DEF NumberLeft
<1>1. CASE AudioInit \/ UNCHANGED vars
  BY <1>1, <1>c DEF AudioInit, vars, control, fills, flushes
<1>2. ASSUME NEW c \in Controllers, Start(c)
      PROVE  NumberLeft(fillPc, BeforeFill)' /\ NumberLeft(flushPc, BeforeFlush)'
  BY <1>2, <1>a, <1>b DEF Start, Goto, fills, flushes
<1>3. ASSUME NEW c \in Controllers, Stop(c)
      PROVE  NumberLeft(fillPc, BeforeFill)' /\ NumberLeft(flushPc, BeforeFlush)'
  BY <1>3, <1>a, <1>b DEF Stop, At, Goto, fills, flushes, BeforeFill, BeforeFlush
<1>4. ASSUME NEW c \in Controllers, StartStep(c)
      PROVE  NumberLeft(fillPc, BeforeFill)' /\ NumberLeft(flushPc, BeforeFlush)'
  <2>1. CASE StartTest(c) \/ StartFlags(c) \/ StartInit(c) \/ StartOpen(c)
    <3>1. UNCHANGED <<fillPc, flushPc, sessions>>
      BY <2>1 DEF StartTest, StartFlags, StartInit, StartOpen, At, fills, flushes
    <3>2. \E s : ctl' = [ctl EXCEPT ![c] = s] /\ ctl[c] \in BeforeFill
      BY <2>1 DEF StartTest, StartFlags, StartInit, StartOpen, At, Goto, Return, BeforeFill
    <3> QED
      BY <3>1, <3>2, <1>a, <1>b DEF BeforeFlush
  <2>2. CASE StartFill(c)
    <3>1. /\ fillPc' = [fillPc EXCEPT ![Created(fillPc) + 1] = "loop"]
          /\ ctl' = [ctl EXCEPT ![c] = "s_wait"] /\ ctl[c] = "s_fill"
          /\ UNCHANGED <<flushPc, sessions>>
      BY <2>2 DEF StartFill, At, Goto, flushes
    <3>2. /\ IsFiniteSet(Coming(BeforeFill)')
          /\ \E n \in 0 .. Sessions :
                /\ \A i \in 1 .. Sessions : fillPc'[i] = "none" <=> i > n
                /\ n + Cardinality(Coming(BeforeFill)') <= sessions'
      <4>0. "s_wait" \notin BeforeFill
        BY DEF BeforeFill
      <4>1. PICK s : ctl' = [ctl EXCEPT ![c] = s] /\ s \notin BeforeFill
        BY <3>1, <4>0, Zenon
      <4>2. ctl[c] \in BeforeFill
        BY <3>1 DEF BeforeFill
      <4> QED
        BY <1>t, <3>1, <4>1, <4>2, NumberUsed
    <3>3. NumberLeft(fillPc, BeforeFill)'
      BY <3>2 DEF NumberLeft, Coming
    <3>4. NumberLeft(flushPc, BeforeFlush)'
      BY <3>1, <1>b DEF BeforeFlush, BeforeFill
    <3> QED
      BY <3>3, <3>4
  <2>3. CASE StartFlush(c)
    <3>1. /\ flushPc' = [flushPc EXCEPT ![Created(flushPc) + 1] = "loop"]
          /\ ctl' = [ctl EXCEPT ![c] = "s_done"] /\ ctl[c] = "s_flush"
          /\ UNCHANGED <<fillPc, sessions>>
      BY <2>3 DEF StartFlush, At, Goto, fills
    <3>2. /\ IsFiniteSet(Coming(BeforeFlush)')
          /\ \E n \in 0 .. Sessions :
                /\ \A i \in 1 .. Sessions : flushPc'[i] = "none" <=> i > n
                /\ n + Cardinality(Coming(BeforeFlush)') <= sessions'
      <4>0. "s_done" \notin BeforeFlush
        BY DEF BeforeFlush, BeforeFill
      <4>1. PICK s : ctl' = [ctl EXCEPT ![c] = s] /\ s \notin BeforeFlush
        BY <3>1, <4>0, Zenon
      <4>2. ctl[c] \in BeforeFlush
        BY <3>1 DEF BeforeFlush, BeforeFill
      <4> QED
        BY <1>t, <3>1, <4>1, <4>2, NumberUsed
    <3>3. NumberLeft(flushPc, BeforeFlush)'
      BY <3>2 DEF NumberLeft, Coming
    <3>4. NumberLeft(fillPc, BeforeFill)'
      BY <3>1, <1>a DEF BeforeFill
    <3> QED
      BY <3>3, <3>4
  <2>4. CASE StartWait(c) \/ StartRun(c) \/ StartDone(c) \/ StartClose(c)
    <3>1. UNCHANGED <<fillPc, flushPc, sessions>>
      BY <2>4 DEF StartWait, StartRun, StartDone, StartClose, At, fills, flushes
    <3>2. \E s : /\ ctl' = [ctl EXCEPT ![c] = s] /\ s \notin BeforeFill
                 /\ s \in BeforeFlush => ctl[c] \in BeforeFlush
      BY <2>4 DEF StartWait, StartRun, StartDone, StartClose, At, Goto, Return, BeforeFill,
                  BeforeFlush
    <3> QED
      BY <3>1, <3>2, <1>a, <1>b
  <2> QED
    BY <1>4, <2>1, <2>2, <2>3, <2>4 DEF StartStep
<1>5. ASSUME NEW c \in Controllers, StopStep(c)
      PROVE  NumberLeft(fillPc, BeforeFill)' /\ NumberLeft(flushPc, BeforeFlush)'
  <2>1. sessions' = sessions
    BY <1>5 DEF StopStep, StopTest, StopJoinFill, StopJoinFlush, StopClose, StopClosing,
                StopClear, StopDone, StopNull, Teardown, At
  <2>2. ctl' = ctl \/ \E s : ctl' = [ctl EXCEPT ![c] = s] /\ s \notin BeforeFlush
    <3>1. CASE StopTest(c) \/ StopJoinFill(c) \/ StopJoinFlush(c) \/ StopClose(c)
      BY <3>1 DEF StopTest, StopJoinFill, StopJoinFlush, StopClose, Goto, StopReturn,
                  BeforeFlush, BeforeFill
    <3>2. CASE StopClosing(c) \/ StopClear(c) \/ StopDone(c) \/ StopNull(c) \/ Teardown(c)
      <4>1. CASE StopClosing(c) \/ StopDone(c) \/ StopNull(c) \/ Teardown(c)
        BY <4>1 DEF StopClosing, StopDone, StopNull, Teardown, Goto, StopReturn,
                    BeforeFlush, BeforeFill
      <4>2. CASE StopClear(c)
        <5>1. ctl' = ctl \/ ctl' = [ctl EXCEPT ![c] = "t_done"]
          BY <4>2 DEF StopClear, Goto
        <5> QED
          BY <5>1 DEF BeforeFlush, BeforeFill
      <4> QED
        BY <3>2, <4>1, <4>2
    <3> QED
      BY <1>5, <3>1, <3>2 DEF StopStep
  <2>3. \A i \in 1 .. Sessions : fillPc'[i] = "none" <=> fillPc[i] = "none"
    BY <1>5, <1>t DEF StopStep, StopTest, StopJoinFill, StopJoinFlush, StopClose, StopClosing,
                      StopClear, StopDone, StopNull, Teardown, fills
  <2>4. \A i \in 1 .. Sessions : flushPc'[i] = "none" <=> flushPc[i] = "none"
    BY <1>5, <1>t DEF StopStep, StopTest, StopJoinFill, StopJoinFlush, StopClose, StopClosing,
                      StopClear, StopDone, StopNull, Teardown, flushes
  <2> QED
    BY <2>1, <2>2, <2>3, <2>4, <1>a, <1>b, <1>c DEF BeforeFlush
<1>6. ASSUME NEW f \in FillIds, FillStep(f)
      PROVE  NumberLeft(fillPc, BeforeFill)' /\ NumberLeft(flushPc, BeforeFlush)'
  <2>1. UNCHANGED <<ctl, sessions, flushPc>>
    BY <1>6 DEF FillStep, FillLoop, FillProduce, FillDrop, FillAlloc, FillEnq, flushes, control
  <2>2. \A i \in 1 .. Sessions : fillPc'[i] = "none" <=> fillPc[i] = "none"
    BY <1>6, <1>t DEF FillStep, FillLoop, FillProduce, FillDrop, FillAlloc, FillEnq, FillAt
  <2> QED
    BY <2>1, <2>2, <1>c
<1>7. ASSUME NEW g \in FlushIds, FlushStep(g)
      PROVE  NumberLeft(fillPc, BeforeFill)' /\ NumberLeft(flushPc, BeforeFlush)'
  <2>1. UNCHANGED <<ctl, sessions, fillPc>>
    BY <1>7 DEF FlushStep, FlushLoop, FlushTake, FlushConsume, FlushGive, fills, control
  <2>2. \A i \in 1 .. Sessions : flushPc'[i] = "none" <=> flushPc[i] = "none"
    BY <1>7, <1>t DEF FlushStep, FlushLoop, FlushTake, FlushConsume, FlushGive, FlushAt
  <2> QED
    BY <2>1, <2>2, <1>c
<1>8. CASE CallbackStep
  BY <1>8, <1>c DEF CallbackStep, CbPlay, CbReturn, CbAlloc, CbSilence, CbEnq, fills, flushes,
                    control
<1> QED
  BY <1>1, <1>2, <1>3, <1>4, <1>5, <1>6, <1>7, <1>8 DEF Next

\* Every step keeps the types: a thread that puts something has it in hand, and a
\* thread that is created has a number.
LEMMA TypesStep ==
    ASSUME TypeOK, HandsOK, ~dead, [Next]_vars,
           NumberLeft(fillPc, BeforeFill), NumberLeft(flushPc, BeforeFlush)
    PROVE  TypeOK'
<1>f. \A b \in Buffers : b \in Frames
  BY DEF Frames
<1>s. Silence \in Frames /\ None \in Frames \cup {None} /\ <<>> \in Seq(Frames)
  BY EmptySeq DEF Frames
<1>h. \A q \in Seq(Frames) : q # <<>> => Head(q) \in Frames /\ Tail(q) \in Seq(Frames)
  BY HeadTailProperties
<1>a. \A q \in Seq(Frames), x \in Frames : Append(q, x) \in Seq(Frames)
  BY AppendProperties
<1>p. ASSUME NEW x \in Frames, PutBack(x)
      PROVE  /\ freeBuffers' \in Seq(Frames)
             /\ lost' \in SUBSET Buffers /\ counted' \in SUBSET lost'
  BY <1>p, <1>a DEF PutBack, TypeOK
<1>c. Crowded \in BOOLEAN
  BY DEF Crowded
<1>1. CASE AudioInit
  <2>1. FullPools \subseteq Seq(Frames)
    <3> SUFFICES ASSUME NEW s \in FullPools PROVE s \in Seq(Frames)
      OBVIOUS
    <3>1. Cardinality(Buffers) \in Nat
      BY BuffersAssumption, FS_CardinalityType
    <3>2. s \in [1 .. Cardinality(Buffers) -> Frames]
      BY <1>f DEF FullPools
    <3> QED
      BY <3>1, <3>2
  <2> QED
    BY <1>1, <1>s, <2>1 DEF AudioInit, TypeOK, losses, fills, flushes, callback, handles, control
<1>2. ASSUME NEW c \in Controllers, Start(c) PROVE TypeOK'
  BY <1>2, LimitsAssumption DEF Start, Goto, TypeOK, StartSteps, flags, store, losses, fills, flushes,
     callback, handles
<1>3. ASSUME NEW c \in Controllers, Stop(c) PROVE TypeOK'
  BY <1>3 DEF Stop, At, Goto, TypeOK, StopSteps, flags, store, losses, fills, flushes, callback, handles
<1>4. ASSUME NEW c \in Controllers, StartStep(c) PROVE TypeOK'
  <2>1. CASE StartTest(c) \/ StartFlags(c) \/ StartInit(c)
    BY <2>1 DEF StartTest, StartFlags, StartInit, At, Goto, Return, TypeOK, StartSteps, Results,
       flags, store, losses, fills, flushes, callback, handles
  <2>2. CASE StartOpen(c) \/ StartWait(c) \/ StartRun(c)
    BY <2>2 DEF StartOpen, StartWait, StartRun, At, Goto, Return, TypeOK, StartSteps, Results,
       flags, store, losses, fills, flushes, callback, handles
  <2>3. CASE StartFill(c)
    <3>1. Created(fillPc) + 1 \in FillIds
      BY <2>3, NumberTaken DEF StartFill, At, TypeOK, FillIds, BeforeFill
    <3> QED
      BY <2>3, <3>1 DEF StartFill, At, Goto, TypeOK, StartSteps, flags, store, losses, flushes, callback
  <2>4. CASE StartFlush(c)
    <3>1. Created(flushPc) + 1 \in FlushIds
      BY <2>4, NumberTaken DEF StartFlush, At, TypeOK, FlushIds, BeforeFlush
    <3> QED
      BY <2>4, <3>1 DEF StartFlush, At, Goto, TypeOK, StartSteps, flags, store, losses, fills, callback
  <2>5. CASE StartDone(c) \/ StartClose(c)
    BY <2>5 DEF StartDone, StartClose, At, Goto, Return, TypeOK, StartSteps, Results,
       flags, store, losses, fills, flushes, callback, handles
  <2> QED
    BY <1>4, <2>1, <2>2, <2>3, <2>4, <2>5 DEF StartStep
<1>5. ASSUME NEW c \in Controllers, StopStep(c) PROVE TypeOK'
  <2>1. CASE StopTest(c) \/ StopClose(c) \/ StopClosing(c)
    BY <2>1 DEF StopTest, StopClose, StopClosing, At, Goto, StopReturn, TypeOK, StopSteps,
       Results, flags, store, losses, fills, flushes, callback, handles
  <2>2. CASE StopJoinFill(c)
    BY <2>2 DEF StopJoinFill, At, Goto, TypeOK, StopSteps, flags, store, losses, flushes, callback,
       handles
  <2>3. CASE StopJoinFlush(c)
    BY <2>3 DEF StopJoinFlush, At, Goto, TypeOK, StopSteps, flags, store, losses, fills, callback,
       handles
  <2>4. CASE StopClear(c)
    <3>1. ctl' = ctl \/ ctl' = [ctl EXCEPT ![c] = "t_done"]
      BY <2>4 DEF StopClear, Goto
    <3>2. /\ freeBuffers' \in Seq(Frames) /\ playQ' \in Seq(Frames) /\ recQ' \in Seq(Frames)
          /\ lost' \in SUBSET Buffers /\ counted' \in SUBSET lost'
      BY <2>4, <1>h, <1>p DEF StopClear, TypeOK, store, losses
    <3>3. UNCHANGED <<flags, stream, fills, flushes, callback, handles, result, sessions>>
      BY <2>4 DEF StopClear, At
    <3>4. dead' \in BOOLEAN
      BY <2>4, <1>c DEF StopClear, At, NodePutBack, TypeOK
    <3> QED
      BY <3>1, <3>2, <3>3, <3>4 DEF TypeOK, StopSteps, flags, fills, flushes, callback, handles
  <2>5. CASE StopDone(c) \/ StopNull(c)
    BY <2>5 DEF StopDone, StopNull, At, Goto, StopReturn, TypeOK, StopSteps, Results, store, losses,
       fills, flushes, callback, handles
  <2>6. CASE Teardown(c)
    BY <2>6, <1>s DEF Teardown, At, Goto, TypeOK, losses, fills, flushes, callback, handles
  <2> QED
    BY <1>5, <2>1, <2>2, <2>3, <2>4, <2>5, <2>6 DEF StopStep
<1>6. ASSUME NEW f \in FillIds, FillStep(f) PROVE TypeOK'
  <2>1. CASE FillLoop(f) \/ FillProduce(f) \/ FillDrop(f)
    BY <2>1 DEF FillLoop, FillProduce, FillDrop, TypeOK, flags, store, losses, flushes, callback,
       handles, control
  <2>2. CASE FillAlloc(f)
    BY <2>2, <1>h DEF FillAlloc, TypeOK, flags, losses, flushes, callback, handles, control
  <2>3. CASE FillEnq(f)
    <3>1. fillBuf[f] \in Frames /\ fillBuf[f] \in Buffers
      BY <2>3, <1>f DEF FillEnq, FillAt, HandsOK
    <3>2. lost' \in SUBSET Buffers /\ counted' \in SUBSET lost'
      BY <2>3, <3>1 DEF FillEnq, TypeOK, losses
    <3>3. playQ' \in Seq(Frames)
      BY <2>3, <3>1, <1>a DEF FillEnq, TypeOK
    <3> QED
      BY <2>3, <3>2, <3>3, <1>s DEF FillEnq, TypeOK, flags, flushes, callback, handles, control
  <2> QED
    BY <1>6, <2>1, <2>2, <2>3 DEF FillStep
<1>7. ASSUME NEW g \in FlushIds, FlushStep(g) PROVE TypeOK'
  <2>1. CASE FlushLoop(g) \/ FlushConsume(g)
    BY <2>1 DEF FlushLoop, FlushConsume, TypeOK, flags, store, losses, fills, callback,
       handles, control
  <2>2. CASE FlushTake(g)
    BY <2>2, <1>h, <1>c DEF FlushTake, FlushAt, NodePutBack, TypeOK, flags, losses, fills,
       callback, handles, control
  <2>3. CASE FlushGive(g)
    <3>1. flushBuf[g] \in Frames
      BY <2>3 DEF FlushGive, FlushAt, HandsOK
    <3>2. /\ freeBuffers' \in Seq(Frames)
          /\ lost' \in SUBSET Buffers /\ counted' \in SUBSET lost'
      BY <2>3, <3>1, <1>p DEF FlushGive, TypeOK, losses
    <3> QED
      BY <2>3, <3>2, <1>s DEF FlushGive, FlushAt, TypeOK, flags, fills, callback, handles,
         control
  <2> QED
    BY <1>7, <2>1, <2>2, <2>3 DEF FlushStep
<1>8. CASE CbPlay
  BY <1>8, <1>h, <1>c DEF CbPlay, CbAt, NodePutBack, TypeOK, flags, losses, fills, flushes,
     handles, control
<1>9. CASE CbReturn
  <2>1. cbBuf \in Frames
    BY <1>9, <1>f DEF CbReturn, CbAt, HandsOK
  <2>2. /\ freeBuffers' \in Seq(Frames)
        /\ lost' \in SUBSET Buffers /\ counted' \in SUBSET lost'
    BY <1>9, <2>1, <1>p DEF CbReturn
  <2> QED
    BY <1>9, <2>2, <1>s DEF CbReturn, TypeOK, flags, fills, flushes, handles, control
<1>10. CASE CbAlloc \/ CbSilence
  BY <1>10, <1>h, <1>s DEF CbAlloc, CbSilence, TypeOK, flags, store, losses, fills, flushes, handles,
     control
<1>11. CASE CbEnq
  <2>1. cbBuf \in Frames
    BY <1>11 DEF CbEnq, CbAt, HandsOK
  <2>2. lost' \in SUBSET Buffers /\ counted' \in SUBSET lost'
    BY <1>11 DEF CbEnq, TypeOK
  <2> QED
    BY <1>11, <2>1, <2>2, <1>a, <1>s, RolesAssumption DEF CbEnq, TypeOK, flags, fills, flushes,
       handles, control
<1>12. CASE UNCHANGED vars
  BY <1>12 DEF vars, TypeOK, flags, store, losses, fills, flushes, callback, handles, control
<1> QED
  BY <1>1, <1>2, <1>3, <1>4, <1>5, <1>6, <1>7, <1>8, <1>9, <1>10, <1>11, <1>12
     DEF Next, CallbackStep

\* What a thread has in hand goes with its step.
LEMMA HandsStep ==
    ASSUME TypeOK, StepsOK, HandsOK, ~dead, [Next]_vars, ~dead',
           NumberLeft(fillPc, BeforeFill), NumberLeft(flushPc, BeforeFlush)
    PROVE  HandsOK'
<1>n. None \notin Frames /\ \A b \in Frames : b = Silence \/ b \in Buffers
  BY BuffersAssumption DEF Frames
<1>h. \A q \in Seq(Frames) : q # <<>> => Head(q) \in Frames
  BY HeadTailProperties
<1>1. CASE AudioInit \/ UNCHANGED vars
  BY <1>1 DEF AudioInit, vars, HandsOK, fills, flushes, callback
<1>2. ASSUME NEW c \in Controllers, Start(c) \/ Stop(c) PROVE HandsOK'
  BY <1>2 DEF Start, Stop, HandsOK, fills, flushes, callback
<1>3. ASSUME NEW c \in Controllers, StartStep(c) PROVE HandsOK'
  <2>1. CASE StartTest(c) \/ StartFlags(c) \/ StartInit(c) \/ StartOpen(c) \/ StartWait(c)
             \/ StartRun(c) \/ StartDone(c) \/ StartClose(c)
    BY <2>1 DEF StartTest, StartFlags, StartInit, StartOpen, StartWait, StartRun, StartDone,
       StartClose, HandsOK, fills, flushes, callback
  <2>2. CASE StartFill(c)
    <3>1. Created(fillPc) + 1 \in FillIds /\ fillPc[Created(fillPc) + 1] = "none"
      <4>1. DOMAIN fillPc = 1 .. Sessions /\ sessions \in 0 .. Sessions
        BY DEF TypeOK, FillIds
      <4>2. ctl[c] \in BeforeFill
        BY <2>2 DEF StartFill, At, BeforeFill
      <4> QED
        BY <4>1, <4>2, NumberTaken, Zenon DEF FillIds
    <3>2. fillPc' = [fillPc EXCEPT ![Created(fillPc) + 1] = "loop"]
      BY <2>2 DEF StartFill
    <3>3. UNCHANGED <<fillBuf, flushPc, flushBuf, cbPc, cbBuf>>
      BY <2>2 DEF StartFill, flushes, callback
    <3> QED
      BY <3>1, <3>2, <3>3 DEF HandsOK, StepsOK, FillIds, FlushIds
  <2>3. CASE StartFlush(c)
    <3>1. Created(flushPc) + 1 \in FlushIds /\ flushPc[Created(flushPc) + 1] = "none"
      <4>1. DOMAIN flushPc = 1 .. Sessions /\ sessions \in 0 .. Sessions
        BY DEF TypeOK, FlushIds
      <4>2. ctl[c] \in BeforeFlush
        BY <2>3 DEF StartFlush, At, BeforeFlush, BeforeFill
      <4> QED
        BY <4>1, <4>2, NumberTaken, Zenon DEF FlushIds
    <3>2. flushPc' = [flushPc EXCEPT ![Created(flushPc) + 1] = "loop"]
      BY <2>3 DEF StartFlush
    <3>3. UNCHANGED <<fillPc, fillBuf, flushBuf, cbPc, cbBuf>>
      BY <2>3 DEF StartFlush, fills, callback
    <3> QED
      BY <3>1, <3>2, <3>3 DEF HandsOK, StepsOK, FillIds, FlushIds
  <2> QED
    BY <1>3, <2>1, <2>2, <2>3 DEF StartStep
<1>4. ASSUME NEW c \in Controllers, StopStep(c) PROVE HandsOK'
  <2>1. CASE StopTest(c) \/ StopClose(c) \/ StopClosing(c) \/ StopClear(c)
    BY <2>1 DEF StopTest, StopClose, StopClosing, StopClear, HandsOK, fills, flushes, callback
  <2>2. CASE StopDone(c) \/ StopNull(c) \/ Teardown(c)
    BY <2>2 DEF StopDone, StopNull, Teardown, HandsOK, fills, flushes, callback
  <2>3. CASE StopJoinFill(c)
    BY <2>3 DEF StopJoinFill, HandsOK, StepsOK, flushes, callback, FillIds, FlushIds
  <2>4. CASE StopJoinFlush(c)
    BY <2>4 DEF StopJoinFlush, HandsOK, StepsOK, fills, callback, FillIds, FlushIds
  <2> QED
    BY <1>4, <2>1, <2>2, <2>3, <2>4 DEF StopStep
<1>5. ASSUME NEW f \in FillIds, FillStep(f) PROVE HandsOK'
  <2>1. CASE FillLoop(f) \/ FillProduce(f) \/ FillDrop(f)
    BY <2>1 DEF FillLoop, FillProduce, FillDrop, FillAt, HandsOK, StepsOK, flushes, callback,
       FillIds, FlushIds
  <2>2. CASE FillAlloc(f)
    <3>1. Head(freeBuffers) \in Buffers
      BY <2>2, <1>h, <1>n DEF FillAlloc, TypeOK
    <3> QED
      BY <2>2, <3>1 DEF FillAlloc, HandsOK, TypeOK, flushes, callback, FillIds, FlushIds
  <2>3. CASE FillEnq(f)
    BY <2>3 DEF FillEnq, HandsOK, TypeOK, flushes, callback, FillIds, FlushIds
  <2> QED
    BY <1>5, <2>1, <2>2, <2>3 DEF FillStep
<1>6. ASSUME NEW g \in FlushIds, FlushStep(g) PROVE HandsOK'
  <2>1. CASE FlushLoop(g) \/ FlushConsume(g)
    BY <2>1 DEF FlushLoop, FlushConsume, FlushAt, HandsOK, StepsOK, fills, callback,
       FillIds, FlushIds
  <2>2. CASE FlushTake(g)
    BY <2>2, <1>h DEF FlushTake, FlushAt, HandsOK, TypeOK, fills, callback, FillIds, FlushIds
  <2>3. CASE FlushGive(g)
    BY <2>3 DEF FlushGive, FlushAt, HandsOK, TypeOK, fills, callback, FillIds, FlushIds
  <2> QED
    BY <1>6, <2>1, <2>2, <2>3 DEF FlushStep
<1>7. CASE CbPlay
  BY <1>7, <1>h DEF CbPlay, CbAt, HandsOK, TypeOK, fills, flushes
<1>8. CASE CbReturn \/ CbEnq
  BY <1>8 DEF CbReturn, CbEnq, HandsOK, fills, flushes
<1>9. CASE CbAlloc \/ CbSilence
  BY <1>9, <1>h DEF CbAlloc, CbSilence, HandsOK, TypeOK, Frames, fills, flushes
<1> QED
  BY <1>1, <1>2, <1>3, <1>4, <1>5, <1>6, <1>7, <1>8, <1>9 DEF Next, CallbackStep

\* Only streamCallback moves the callback, and only Audio_init makes the module
\* initialized.
LEMMA Bystanders ==
    ASSUME [Next]_vars
    PROVE  /\ CallbackStep \/ cbPc' = cbPc
           /\ AudioInit \/ (initialized' => initialized)
<1>1. ASSUME NEW c \in Controllers, Start(c) \/ Stop(c)
      PROVE  cbPc' = cbPc /\ initialized' = initialized
  BY <1>1 DEF Start, Stop, callback, flags
<1>2. ASSUME NEW c \in Controllers, StartStep(c)
      PROVE  cbPc' = cbPc /\ initialized' = initialized
  BY <1>2 DEF StartStep, StartTest, StartFlags, StartInit, StartOpen, StartFill, StartWait,
     StartRun, StartFlush, StartDone, StartClose, callback, flags
<1>3. ASSUME NEW c \in Controllers, StopStep(c)
      PROVE  cbPc' = cbPc /\ (initialized' => initialized)
  BY <1>3 DEF StopStep, StopTest, StopJoinFill, StopJoinFlush, StopClose, StopClosing,
     StopClear, StopDone, StopNull, Teardown, callback, flags
<1>4. ASSUME NEW f \in FillIds, FillStep(f) PROVE cbPc' = cbPc
  BY <1>4 DEF FillStep, FillLoop, FillProduce, FillDrop, FillAlloc, FillEnq, callback
<1>5. ASSUME NEW g \in FlushIds, FlushStep(g) PROVE cbPc' = cbPc
  BY <1>5 DEF FlushStep, FlushLoop, FlushTake, FlushConsume, FlushGive, callback
<1>6. CASE AudioInit
  BY <1>6 DEF AudioInit, callback
<1>7. CASE UNCHANGED vars
  BY <1>7 DEF vars, callback, flags
<1> QED
  BY <1>1, <1>2, <1>3, <1>4, <1>5, <1>6, <1>7, WorkerStep DEF Next

\* What goes back to the pool is in it, or lost, and nothing leaves.
LEMMA PutBackIn ==
    ASSUME HoldsOK, NEW x \in Held, PutBack(x)
    PROVE  /\ lost \subseteq lost'
           /\ x \in Buffers => x \in lost' \/ In(x, freeBuffers')
           /\ \A y : In(y, freeBuffers) => In(y, freeBuffers')
<1>1. \A y : In(y, Append(freeBuffers, x)) <=> In(y, freeBuffers) \/ y = x
  BY PutIn DEF HoldsOK
<1> QED
  BY <1>1 DEF PutBack

\* A step leaves a buffer somewhere or loses it: what is taken from one place is put
\* in another, or not taken there.
LEMMA KeptStep ==
    ASSUME BuffersIInv, TypeOK, HandsOK, KeptOK, ~dead, [Next]_vars
    PROVE  KeptOK'
<1> DEFINE Kept(b) == b \in lost \/ Somewhere(b)
<1> SUFFICES ASSUME initialized', NEW b \in Buffers PROVE Kept(b)'
  BY DEF KeptOK, Somewhere, In
<1>i. HoldsOK
  BY DEF BuffersIInv
<1>b. b # None /\ b # Silence /\ b \in Held /\ Silence \notin Buffers
  BY BuffersAssumption DEF Held, Frames
<1>k. ASSUME initialized PROVE b \in lost \/ Somewhere(b)
  BY <1>k DEF KeptOK
<1>1. CASE AudioInit
  <2>1. freeBuffers' \in FullPools
    BY <1>1 DEF AudioInit
  <2>2. In(b, freeBuffers')
    BY <2>1 DEF FullPools, In
  <2> QED
    BY <2>2 DEF Somewhere
<1>a. initialized \/ AudioInit
  BY Bystanders
<1>2. ASSUME NEW c \in Controllers, StopClear(c), ~AudioInit PROVE Kept(b)'
  <2>1. CASE playQ # <<>> /\ PutBack(Head(playQ)) /\ playQ' = Tail(playQ)
             /\ UNCHANGED <<recQ, fillBuf, flushBuf, cbBuf>>
    <3>1. /\ Head(playQ) \in Held
          /\ In(b, playQ) => b = Head(playQ) \/ In(b, playQ')
      BY <1>i, <2>1, TakenIn, HeadTailProperties DEF HoldsOK
    <3>2. /\ lost \subseteq lost'
          /\ b = Head(playQ) => b \in lost' \/ In(b, freeBuffers')
          /\ In(b, freeBuffers) => In(b, freeBuffers')
      BY <1>i, <2>1, <3>1, PutBackIn
    <3> QED
      BY <1>a, <1>k, <1>2, <2>1, <3>1, <3>2 DEF Somewhere
  <2>2. CASE recQ # <<>> /\ PutBack(Head(recQ)) /\ recQ' = Tail(recQ)
             /\ UNCHANGED <<playQ, fillBuf, flushBuf, cbBuf>>
    <3>1. /\ Head(recQ) \in Held
          /\ In(b, recQ) => b = Head(recQ) \/ In(b, recQ')
      BY <1>i, <2>2, TakenIn, HeadTailProperties DEF HoldsOK
    <3>2. /\ lost \subseteq lost'
          /\ b = Head(recQ) => b \in lost' \/ In(b, freeBuffers')
          /\ In(b, freeBuffers) => In(b, freeBuffers')
      BY <1>i, <2>2, <3>1, PutBackIn
    <3> QED
      BY <1>a, <1>k, <1>2, <2>2, <3>1, <3>2 DEF Somewhere
  <2>3. CASE Still
    BY <2>3, <1>a, <1>k, <1>2 DEF Still, Somewhere
  <2> QED
    BY <1>2, <2>1, <2>2, <2>3 DEF StopClear, Still, store, losses, fills, flushes, callback
<1>3. ASSUME NEW c \in Controllers, Teardown(c) PROVE Kept(b)'
  BY <1>3 DEF Teardown
<1>4. ASSUME NEW f \in FillIds, FillAlloc(f), ~AudioInit PROVE Kept(b)'
  <2>1. /\ freeBuffers # <<>> /\ freeBuffers' = Tail(freeBuffers)
        /\ fillBuf' = [fillBuf EXCEPT ![f] = Head(freeBuffers)]
        /\ fillBuf[f] = None /\ f \in DOMAIN fillBuf
        /\ UNCHANGED <<playQ, recQ, lost, flushBuf, cbBuf>>
    BY <1>4, <1>i DEF FillAlloc, FillAt, HandsOK, HoldsOK, losses, flushes, callback
  <2>2. \A y : In(y, freeBuffers) <=> y = Head(freeBuffers) \/ In(y, freeBuffers')
    BY <1>i, <2>1, TakenIn DEF HoldsOK
  <2>3. /\ b = Head(freeBuffers) => In(b, fillBuf')
        /\ In(b, fillBuf) => In(b, fillBuf') \/ b = None
    BY <2>1, HandedIn
  <2> QED
    BY <1>a, <1>b, <1>k, <1>4, <2>1, <2>2, <2>3 DEF Somewhere
<1>5. ASSUME NEW f \in FillIds, FillEnq(f), ~AudioInit PROVE Kept(b)'
  <2>1. /\ fillBuf' = [fillBuf EXCEPT ![f] = None] /\ f \in DOMAIN fillBuf
        /\ fillBuf[f] \in Held
        /\ UNCHANGED <<freeBuffers, recQ, flushBuf, cbBuf>>
    BY <1>5, <1>i DEF FillEnq, HoldsOK, flushes, callback
  <2>2. \/ playQ' = Append(playQ, fillBuf[f]) /\ lost' = lost
        \/ playQ' = playQ /\ lost' = lost \cup {fillBuf[f]}
    BY <1>5 DEF FillEnq, losses
  <2>3. In(b, Append(playQ, fillBuf[f])) <=> In(b, playQ) \/ b = fillBuf[f]
    BY <1>i, <2>1, PutIn DEF HoldsOK
  <2>4. In(b, fillBuf) => In(b, fillBuf') \/ b = fillBuf[f]
    BY <2>1, HandedIn
  <2> QED
    BY <1>a, <1>k, <1>5, <2>1, <2>2, <2>3, <2>4 DEF Somewhere
<1>6. ASSUME NEW g \in FlushIds, FlushTake(g), ~AudioInit PROVE Kept(b)'
  <2>1. CASE recQ = <<>>
    BY <1>6, <2>1, <1>a, <1>k DEF FlushTake, Somewhere, losses, fills, callback
  <2>2. CASE recQ # <<>>
    <3>1. /\ recQ' = Tail(recQ)
          /\ flushBuf' = [flushBuf EXCEPT ![g] = Head(recQ)]
          /\ flushBuf[g] = None /\ g \in DOMAIN flushBuf
          /\ UNCHANGED <<freeBuffers, playQ, lost, fillBuf, cbBuf>>
      BY <1>6, <1>i, <2>2 DEF FlushTake, FlushAt, HandsOK, HoldsOK, losses, fills, callback
    <3>2. In(b, recQ) <=> b = Head(recQ) \/ In(b, recQ')
      BY <1>i, <2>2, <3>1, TakenIn DEF HoldsOK
    <3>3. /\ b = Head(recQ) => In(b, flushBuf')
          /\ In(b, flushBuf) => In(b, flushBuf') \/ b = None
      BY <3>1, HandedIn
    <3> QED
      BY <1>a, <1>b, <1>k, <1>6, <3>1, <3>2, <3>3 DEF Somewhere
  <2> QED
    BY <2>1, <2>2
<1>7. ASSUME NEW g \in FlushIds, FlushGive(g), ~AudioInit PROVE Kept(b)'
  <2>1. /\ flushBuf' = [flushBuf EXCEPT ![g] = None] /\ g \in DOMAIN flushBuf
        /\ flushBuf[g] \in Held
        /\ UNCHANGED <<playQ, recQ, fillBuf, cbBuf>>
    BY <1>7, <1>i DEF FlushGive, HoldsOK, fills, callback
  <2>2. In(b, flushBuf) => In(b, flushBuf') \/ b = flushBuf[g]
    BY <2>1, HandedIn
  <2>3. /\ lost \subseteq lost'
        /\ b = flushBuf[g] => b \in lost' \/ In(b, freeBuffers')
        /\ In(b, freeBuffers) => In(b, freeBuffers')
    <3>1. CASE flushBuf[g] = Silence
      BY <1>7, <1>b, <3>1 DEF FlushGive, losses
    <3>2. CASE flushBuf[g] # Silence
      BY <1>7, <1>i, <2>1, <3>2, PutBackIn DEF FlushGive
    <3> QED
      BY <3>1, <3>2
  <2> QED
    BY <1>a, <1>k, <1>7, <2>1, <2>2, <2>3 DEF Somewhere
<1>8. CASE CbPlay /\ ~AudioInit
  <2>1. UNCHANGED <<freeBuffers, recQ, lost, fillBuf, flushBuf>>
    BY <1>8 DEF CbPlay, losses, fills, flushes
  <2>2. CASE playQ = <<>>
    BY <1>8, <1>a, <1>k, <2>1, <2>2 DEF CbPlay, Somewhere
  <2>3. CASE playQ # <<>>
    <3>1. playQ' = Tail(playQ) /\ cbBuf' = Head(playQ) /\ cbBuf = None
      BY <1>8, <2>3 DEF CbPlay, CbAt, HandsOK
    <3>2. In(b, playQ) <=> b = Head(playQ) \/ In(b, playQ')
      BY <1>i, <2>3, <3>1, TakenIn DEF HoldsOK
    <3> QED
      BY <1>8, <1>a, <1>b, <1>k, <2>1, <3>1, <3>2 DEF Somewhere
  <2> QED
    BY <2>2, <2>3
<1>9. CASE CbReturn /\ ~AudioInit
  <2>1. /\ PutBack(cbBuf) /\ cbBuf \in Held
        /\ UNCHANGED <<playQ, recQ, fillBuf, flushBuf>>
    BY <1>9, <1>i DEF CbReturn, HoldsOK, fills, flushes
  <2>2. /\ lost \subseteq lost'
        /\ b = cbBuf => b \in lost' \/ In(b, freeBuffers')
        /\ In(b, freeBuffers) => In(b, freeBuffers')
    BY <1>i, <2>1, PutBackIn
  <2> QED
    BY <1>9, <1>a, <1>k, <2>1, <2>2 DEF Somewhere
<1>10. CASE CbAlloc /\ ~AudioInit
  <2>1. /\ freeBuffers # <<>> /\ freeBuffers' = Tail(freeBuffers)
        /\ cbBuf = None /\ cbBuf' = Head(freeBuffers)
        /\ UNCHANGED <<playQ, recQ, lost, fillBuf, flushBuf>>
    BY <1>10 DEF CbAlloc, CbAt, HandsOK, losses, fills, flushes
  <2>2. \A y : In(y, freeBuffers) <=> y = Head(freeBuffers) \/ In(y, freeBuffers')
    BY <1>i, <2>1, TakenIn DEF HoldsOK
  <2> QED
    BY <1>10, <1>a, <1>b, <1>k, <2>1, <2>2 DEF Somewhere
<1>11. CASE CbSilence /\ ~AudioInit
  <2>1. cbBuf = None /\ UNCHANGED <<freeBuffers, playQ, recQ, lost, fillBuf, flushBuf>>
    BY <1>11 DEF CbSilence, CbAt, HandsOK, store, losses, fills, flushes
  <2> QED
    BY <1>11, <1>a, <1>b, <1>k, <2>1 DEF Somewhere
<1>12. CASE CbEnq /\ ~AudioInit
  <2>1. /\ cbBuf \in Held
        /\ UNCHANGED <<freeBuffers, playQ, fillBuf, flushBuf>>
    BY <1>12, <1>i DEF CbEnq, HoldsOK, fills, flushes
  <2>2. \/ recQ' = Append(recQ, cbBuf) /\ lost' = lost
        \/ recQ' = recQ /\ lost' = lost \cup ({cbBuf} \cap Buffers)
    BY <1>12 DEF CbEnq
  <2>3. In(b, Append(recQ, cbBuf)) <=> In(b, recQ) \/ b = cbBuf
    BY <1>i, <2>1, PutIn DEF HoldsOK
  <2> QED
    BY <1>12, <1>a, <1>k, <2>1, <2>2, <2>3 DEF Somewhere
<1>13. CASE Still /\ ~AudioInit
  BY <1>13, <1>a, <1>k DEF Still, Somewhere
<1> QED
  BY Movers, <1>1, <1>2, <1>3, <1>4, <1>5, <1>6, <1>7, <1>8, <1>9, <1>10, <1>11, <1>12, <1>13

-----------------------------------------------------------------------------
(* The invariants, and what they say. *)

\* At first nobody is in a call, nothing is in a hand and the pool is full, or
\* Audio_init is still to come.
LEMMA EngineInit == Init => EngineIInv
<1> SUFFICES ASSUME Init PROVE EngineIInv
  OBVIOUS
<1>1. BuffersIInv
  BY BuffersInit
<1>2. Cardinality(Buffers) \in Nat /\ Sessions \in Nat
  BY BuffersAssumption, FS_CardinalityType, LimitsAssumption
<1>3. TypeOK
  <2>1. freeBuffers \in Seq(Frames)
    <3>1. CASE freeBuffers = <<>>
      BY <3>1, EmptySeq
    <3>2. CASE freeBuffers \in FullPools
      <4>1. freeBuffers \in [1 .. Cardinality(Buffers) -> Frames]
        BY <3>2 DEF FullPools, Frames
      <4> QED
        BY <1>2, <4>1
    <3> QED
      BY <3>1, <3>2 DEF Init
  <2>2. /\ playQ \in Seq(Frames) /\ recQ \in Seq(Frames)
        /\ lost \in SUBSET Buffers /\ counted \in SUBSET lost
    BY EmptySeq DEF Init
  <2>3. {initialized, started, stopPlayback, stopRecording, callbackData, dead}
           \subseteq BOOLEAN
    <3>1. InitEarly \in BOOLEAN
      BY RolesAssumption
    <3> QED
      BY <3>1 DEF Init
  <2>4. /\ fillPc \in [FillIds -> {"none", "loop", "produce", "alloc", "enq", "ended",
                                  "joined"}]
        /\ fillBuf \in [FillIds -> Frames \cup {None}]
        /\ flushPc \in [FlushIds -> {"none", "loop", "take", "consume", "give", "last",
                                    "ended", "joined"}]
        /\ flushBuf \in [FlushIds -> Frames \cup {None}]
    BY DEF Init
  <2>5. /\ ctl \in [Controllers -> {"idle", "teardown", "gone"} \cup StartSteps \cup StopSteps]
        /\ result \in [Controllers -> Results \cup {None}]
        /\ sessions \in 0 .. Sessions
    BY <1>2 DEF Init
  <2>6. /\ stream \in {"closed", "open", "running"}
        /\ cbPc \in {"idle", "return", "alloc", "enq"} /\ cbBuf \in Frames \cup {None}
        /\ fillPlaybackQueueThread \in {0} \cup FillIds
        /\ flushRecordQueueThread \in {0} \cup FlushIds
    BY DEF Init
  <2> QED
    BY <2>1, <2>2, <2>3, <2>4, <2>5, <2>6, Zenon DEF TypeOK
<1>4. NumberLeft(fillPc, BeforeFill) /\ NumberLeft(flushPc, BeforeFlush)
  <2>1. Coming(BeforeFill) = {} /\ Coming(BeforeFlush) = {}
    BY DEF Init, Coming, BeforeFill, BeforeFlush
  <2>2. IsFiniteSet({}) /\ Cardinality({}) = 0
    BY FS_EmptySet
  <2> QED
    BY <1>2, <2>1, <2>2 DEF Init, NumberLeft, FillIds, FlushIds
<1>5. HandsOK
  BY DEF Init, HandsOK
<1> QED
  BY <1>1, <1>3, <1>4, <1>5 DEF EngineIInv

\* Every step keeps the types, the numbers and the hands.
LEMMA EngineStep == EngineIInv /\ [Next]_vars => EngineIInv'
<1> SUFFICES ASSUME EngineIInv, [Next]_vars PROVE EngineIInv'
  OBVIOUS
<1>1. BuffersIInv'
  BY BuffersStep DEF EngineIInv
<1>2. CASE dead
  <2>1. UNCHANGED vars
    BY <1>2, DeadStops
  <2>2. Coming(BeforeFill)' = Coming(BeforeFill) /\ Coming(BeforeFlush)' = Coming(BeforeFlush)
    BY <2>1 DEF vars, control, Coming
  <2>3. NumberLeft(fillPc, BeforeFill)' /\ NumberLeft(flushPc, BeforeFlush)'
    BY <2>1, <2>2 DEF EngineIInv, NumberLeft, vars, control, fills, flushes
  <2>4. TypeOK' /\ dead'
    BY <1>2, <2>1 DEF EngineIInv, TypeOK, vars, flags, store, losses, fills, flushes, callback, handles,
                      control
  <2> QED
    BY <1>1, <2>3, <2>4 DEF EngineIInv
<1>3. CASE ~dead
  <2>1. HoldsOK /\ StepsOK /\ Asleep
    BY DEF EngineIInv, BuffersIInv
  <2>2. NumberLeft(fillPc, BeforeFill)' /\ NumberLeft(flushPc, BeforeFlush)'
    BY NumbersStep DEF EngineIInv
  <2>3. TypeOK'
    BY <1>3, TypesStep DEF EngineIInv
  <2>4. ~dead' => HandsOK'
    BY <1>3, <2>1, HandsStep DEF EngineIInv
  <2> QED
    BY <1>1, <2>2, <2>3, <2>4 DEF EngineIInv
<1> QED
  BY <1>2, <1>3

\* Audio_init puts every buffer in the pool.
LEMMA KeptInit == Init => KeptIInv
<1> SUFFICES ASSUME Init PROVE KeptIInv
  OBVIOUS
<1>1. KeptOK
  <2> SUFFICES ASSUME initialized, NEW b \in Buffers PROVE In(b, freeBuffers)
    BY DEF KeptOK, Somewhere
  <2>1. freeBuffers \in FullPools
    BY DEF Init
  <2> QED
    BY <2>1 DEF FullPools, In
<1> QED
  BY <1>1, EngineInit DEF KeptIInv

\* Every step keeps the buffers too.
LEMMA KeptInductive == KeptIInv /\ [Next]_vars => KeptIInv'
<1> SUFFICES ASSUME KeptIInv, [Next]_vars PROVE KeptIInv'
  OBVIOUS
<1>1. EngineIInv'
  BY EngineStep DEF KeptIInv
<1>2. ASSUME ~dead' PROVE KeptOK'
  <2>1. ~dead
    <3>1. CASE dead
      BY <1>2, <3>1, DeadStops DEF vars
    <3> QED
      BY <3>1
  <2> QED
    BY <1>2, <2>1, KeptStep DEF KeptIInv, EngineIInv
<1> QED
  BY <1>1, <1>2 DEF KeptIInv

\* A buffer that is somewhere counts once, and a lost one is nowhere.
LEMMA KeptMeansConserved == KeptIInv => AudioInv
<1> SUFFICES ASSUME KeptIInv PROVE AudioInv
  OBVIOUS
<1>1. TypeOK /\ NoBufferShared
  BY ApartMeansUnshared DEF KeptIInv, EngineIInv
<1>2. BuffersConserved
  <2> SUFFICES ASSUME initialized, ~dead, NEW b \in Buffers
               PROVE  Places(b) = IF b \in lost THEN 0 ELSE 1
    BY DEF BuffersConserved
  <2>1. Places(b) \in {0, 1} /\ (Places(b) = 1 <=> Somewhere(b))
    BY PlacesCounted DEF KeptIInv, EngineIInv
  <2>2. b \in lost <=> ~Somewhere(b)
    BY DEF KeptIInv, EngineIInv, BuffersIInv, Apart, KeptOK
  <2> QED
    BY <2>1, <2>2
<1> QED
  BY <1>1, <1>2 DEF AudioInv

\* Types, thread numbers and hands, for any number of callers, buffers, nodes and
\* sessions.
THEOREM EngineInvariance == Spec => []EngineIInv
<1> QED
  BY EngineInit, EngineStep, PTL DEF Spec

\* The invariant that says where each buffer is, or that it is lost, for any number
\* of callers, buffers, sessions and nodes, and whatever the rings answer.
THEOREM KeptInvariance == Spec => []KeptIInv
<1> QED
  BY KeptInit, KeptInductive, PTL DEF Spec

\* Types hold, no frame buffer is in two places, and each is in one unless a ring or
\* a queue did not take it, and then in none: whoever starts and stops the audio,
\* whatever PortAudio and the network answer, and whether or not a ring looks full or
\* empty when it is not (audio.c:413-441, 459-475, 497-515, 372-382;
\* lfringbuffer.c:33-37, 74-80).
THEOREM AudioCorrect == Spec => []AudioInv
<1> QED
  BY KeptInvariance, KeptMeansConserved, PTL
=============================================================================
