------------------------- MODULE LFQueueTest_proofs -------------------------
(***************************************************************************)
(* The recycle list of lfqueue.c at work, in the test function             *)
(* one_enq_and_multi_deq with one worker: main puts and the worker takes   *)
(* with lfqueue_deq, any number of tests, turns, nodes and values, any     *)
(* allocator and any width of size_t.  The two lists are whole, no node is *)
(* freed that a thread may still look at, the queue is a FIFO channel and  *)
(* is empty after each test, and lfqueue_destroy frees what is left.       *)
(*                                                                         *)
(* The heart of the invariant is Seen: the node at which a putter is about *)
(* to do its compare-and-swap is in the queue, or the taker is about to    *)
(* recycle it, or it has been recycled since the putter began its call.    *)
(* In the last case it is no older than that call, which is shorter than   *)
(* the grace period, and it has a successor, so that the compare-and-swap  *)
(* fails.                                                                  *)
(***************************************************************************)
EXTENDS LFQueueTest, LFQueue_proofs, FunctionTheorems, NaturalsInduction, WellFoundedInduction

\* The worker that takes, and the threads that put.
Taker == IF Workers = {} THEN Main ELSE CHOOSE w \in Workers : TRUE
Putters == Threads \ {Taker}

\* main_lfqueue.c with nthreads = 1, its test function one_enq_and_multi_deq, and calls
\* that end within the grace period.
OneTaker ==
    Drivers = {"one_enq_and_multi_deq"} /\ Workers = {Taker} /\ MaxCall <= Grace

\* The queue, from its first node to its last, and the recycle list.
Q == chain[myq]
R == recycled[myq]
InQ == InChain(myq)
InR == InRecycled(myq)

\* Nodes the taker has left that are on no list yet, or have no time yet.
Unlisted == IF pc[Taker] \in {"r_load", "r_link"} THEN {hd[Taker]} ELSE {}
Untimed == IF pc[Taker] = "r_time" THEN {hd[Taker]} ELSE {}

\* The node a putter has not yet linked.
Hand(w) == IF pc[w] \in {"e_init", "e_tail", "e_link"} THEN {node[w]} ELSE {}

\* A putter has linked a node and not moved tail; the taker, a node and move_free.
TailBehind == \E w \in Putters : pc[w] = "e_swing"
MoveBehind == pc[Taker] \in {"r_time", "r_move"}
Freeing == {"c_step", "c_exit"}

PutterLabels == {"idle"} \cup EnqLabels \cup CheckLabels
TakerLabels == {"idle"} \cup (DeqLabels \ {"d_free"}) \cup RecycleLabels \cup CheckLabels

\* The putters put and the taker takes, with lfqueue_deq.
CallOK(t) ==
    /\ pc[t] \in IF t = Taker THEN TakerLabels ELSE PutterLabels
    /\ pc[t] # "idle" => on[t] = myq /\ left[t] > 0 /\ test \in Drivers
    /\ IF t = Taker
       THEN /\ arg[t] = Null /\ (pc[t] # "idle" => kind[t] = "deq")
            /\ pc[t] \in {"d_take", "d_size"} \cup RecycleLabels => val[t] \in Values
            /\ pc[t] \in {"idle", "d_head", "d_next", "d_tail", "d_value"} => val[t] = Null
       ELSE /\ val[t] = Null
            /\ pc[t] \in {"e_init", "e_tail", "e_link", "e_swing"} \cup CheckLabels =>
                  arg[t] \in Values

TurnsOK ==
    /\ test \in Drivers => \A t \in Threads : turn[t] = IF t = Taker THEN "take" ELSE "put"
    /\ test \notin Drivers => \A t \in Threads : left[t] = 0

CallsOK == TurnsOK /\ \A t \in Threads : CallOK(t)

\* A putter looks at the last node, or at one that is not the last any more: it is in
\* the queue, or the taker is about to recycle it, or it has been recycled since the
\* putter began its call, and will not be freed before that ends.
Seen(n, w) ==
    \/ n \in InQ /\ (TailBehind => n # Last(Q))
    \/ /\ next[n] # Null
       /\ \/ n \in Unlisted \cup Untimed
          \/ n \in InR /\ age[n] <= elapsed[w] /\ n \notin expired[myq]

ProducerOK(w) ==
    /\ pc[w] \in {"e_init", "e_tail", "e_link", "e_swing"} => node[w] \in Nodes
    /\ pc[w] \in {"e_tail", "e_link"} =>
          value[node[w]] = arg[w] /\ next[node[w]] = Null /\ nextfree[node[w]] = Null
    /\ pc[w] = "e_link" => tl[w] \in Nodes /\ Seen(tl[w], w)
    /\ pc[w] = "e_swing" => tl[w] = tail[myq] /\ node[w] = Last(Q)

OneLinks == \A v, w \in Putters : pc[v] = "e_swing" /\ pc[w] = "e_swing" => v = w

\* The taker finds head where it looked, and may leave it.
ConsumerOK ==
    /\ pc[Taker] \in {"d_next", "d_tail", "d_value", "d_take"} => hd[Taker] = head[myq]
    /\ pc[Taker] = "d_tail" => nx[Taker] = Null \/ (Len(Q) > 1 /\ nx[Taker] = Q[2])
    /\ pc[Taker] \in {"d_value", "d_take"} =>
          Len(Q) > 1 /\ nx[Taker] = Q[2] /\ tail[myq] # hd[Taker]
    /\ pc[Taker] = "d_take" => val[Taker] = value[nx[Taker]]

\* It finds move_free where it looked.
RecyclerOK ==
    /\ pc[Taker] \in RecycleLabels => hd[Taker] \in Nodes
    /\ pc[Taker] \in {"r_load", "r_link"} => next[hd[Taker]] # Null /\ nextfree[hd[Taker]] = Null
    /\ pc[Taker] \in {"r_link", "r_time", "r_move"} => fr[Taker] = move_free[myq]
    /\ pc[Taker] \in {"r_time", "r_move"} => hd[Taker] = Last(R)

ChainOK ==
    /\ Len(Q) > 0 /\ head[myq] = Q[1]
    /\ \A i \in 1 .. Len(Q) - 1 : next[Q[i]] = Q[i + 1]
    /\ next[Last(Q)] = Null
    /\ IF TailBehind THEN Len(Q) > 1 /\ tail[myq] = Q[Len(Q) - 1] ELSE tail[myq] = Last(Q)
    /\ \A i \in 1 .. Len(Q) : nextfree[Q[i]] = Null
    /\ \A i \in 2 .. Len(Q) : value[Q[i]] \in Values

ListOK ==
    /\ Len(R) > 0
    /\ \A i \in 1 .. Len(R) - 1 : nextfree[R[i]] = R[i + 1]
    /\ nextfree[Last(R)] = Null
    /\ IF MoveBehind THEN Len(R) > 1 /\ move_free[myq] = R[Len(R) - 1]
                    ELSE move_free[myq] = Last(R)

FreeModeOK ==
    /\ \A t, u \in Threads : pc[t] \in Freeing /\ pc[u] \in Freeing => t = u
    /\ \A t \in Threads : pc[t] \in Freeing => in_free_mode[myq] /\ fr[t] = R[1]
    /\ in_free_mode[myq] => \E t \in Threads : pc[t] \in Freeing
    /\ ~in_free_mode[myq] => root_free[myq] = R[1]

ApartOK ==
    /\ \A i, j \in 1 .. Len(Q) : Q[i] = Q[j] => i = j
    /\ \A i, j \in 1 .. Len(R) : R[i] = R[j] => i = j
    /\ InQ \cap InR = {} /\ InQ \cap pool = {} /\ InR \cap pool = {}
    /\ Unlisted \cap (InQ \cup InR \cup pool) = {}
    /\ \A w \in Putters : Hand(w) \cap (InQ \cup InR \cup pool \cup Unlisted) = {}
    /\ \A v, w \in Putters : v # w => Hand(v) \cap Hand(w) = {}

CoveredOK ==
    \A n \in Nodes :
        n \in pool \cup InQ \cup InR \cup Unlisted \/ \E w \in Putters : n \in Hand(w)

ListsIInv ==
    /\ TypeOK /\ CallsOK
    /\ \A w \in Putters : ProducerOK(w)
    /\ OneLinks /\ ConsumerOK /\ RecyclerOK
    /\ ChainOK /\ ListOK /\ FreeModeOK /\ ApartOK /\ CoveredOK

-----------------------------------------------------------------------------
(* The threads and the queue. *)

\* The putters and the taker use one queue.
LEMMA TestRoles ==
    /\ Queues = {myq} /\ Threads = Putters \cup {Taker} /\ Taker \notin Putters
    /\ Producers[myq] = Threads /\ Consumers[myq] = Threads
<1>1. Taker \in Threads
  BY TestAssumption DEF Taker
<1> QED
  BY <1>1, TestAssumption DEF Putters

\* There is one worker, which takes; main puts.
LEMMA OneWorker ==
    ASSUME OneTaker
    PROVE  Workers = {Taker} /\ Putters = {Main} /\ Main # Taker /\ nthreads = 1
<1>1. Workers = {Taker} /\ Putters = {Main} /\ Main # Taker
  BY TestAssumption DEF OneTaker, Putters
<1>2. nthreads = 1
  BY <1>1, FS_Singleton DEF nthreads
<1> QED
  BY <1>1, <1>2

\* The types of what belongs to the one queue, and of the rest.
LEMMA OneQueue ==
    ASSUME TypeOK
    PROVE  /\ Q \in Seq(Nodes) /\ R \in Seq(Nodes) /\ Len(Q) \in Nat /\ Len(R) \in Nat
           /\ \A i \in 1 .. Len(Q) : Q[i] \in Nodes /\ Q[i] \in InQ
           /\ \A i \in 1 .. Len(R) : R[i] \in Nodes /\ R[i] \in InR
           /\ InQ \subseteq Nodes /\ InR \subseteq Nodes /\ pool \subseteq Nodes
           /\ head[myq] \in Nodes /\ tail[myq] \in Nodes /\ move_free[myq] \in Nodes
           /\ expired[myq] \subseteq Nodes
           /\ DOMAIN head = {myq} /\ DOMAIN tail = {myq} /\ DOMAIN size = {myq}
           /\ DOMAIN root_free = {myq} /\ DOMAIN move_free = {myq}
           /\ DOMAIN in_free_mode = {myq} /\ DOMAIN expired = {myq}
           /\ DOMAIN chain = {myq} /\ DOMAIN recycled = {myq} /\ DOMAIN delivered = {myq}
<1>1. Q \in Seq(Nodes) /\ R \in Seq(Nodes)
  BY TestRoles DEF TypeOK, Q, R
<1>2. /\ Len(Q) \in Nat /\ \A i \in 1 .. Len(Q) : Q[i] \in Nodes
      /\ Len(R) \in Nat /\ \A i \in 1 .. Len(R) : R[i] \in Nodes
  BY <1>1, LenProperties
<1>3. /\ \A i \in 1 .. Len(Q) : Q[i] \in InQ
      /\ \A i \in 1 .. Len(R) : R[i] \in InR
  BY DEF Q, R, InQ, InR, InChain, InRecycled, Elements
<1>4. InQ \subseteq Nodes /\ InR \subseteq Nodes
  BY <1>2 DEF Q, R, InQ, InR, InChain, InRecycled, Elements
<1>5. /\ pool \subseteq Nodes
      /\ head[myq] \in Nodes /\ tail[myq] \in Nodes /\ move_free[myq] \in Nodes
      /\ expired[myq] \subseteq Nodes
      /\ DOMAIN head = {myq} /\ DOMAIN tail = {myq} /\ DOMAIN size = {myq}
      /\ DOMAIN root_free = {myq} /\ DOMAIN move_free = {myq}
      /\ DOMAIN in_free_mode = {myq} /\ DOMAIN expired = {myq}
      /\ DOMAIN chain = {myq} /\ DOMAIN recycled = {myq} /\ DOMAIN delivered = {myq}
  BY TestRoles DEF TypeOK
<1> QED
  BY <1>1, <1>2, <1>3, <1>4, <1>5

\* The locals are functions of the thread.
LEMMA LocalTypes ==
    ASSUME TypeOK
    PROVE  /\ DOMAIN pc = Threads /\ DOMAIN on = Threads /\ DOMAIN kind = Threads
           /\ DOMAIN arg = Threads /\ DOMAIN node = Threads /\ DOMAIN tl = Threads
           /\ DOMAIN hd = Threads /\ DOMAIN nx = Threads /\ DOMAIN val = Threads
           /\ DOMAIN fr = Threads /\ DOMAIN elapsed = Threads
           /\ elapsed \in [Threads -> 0 .. MaxCall]
BY DEF TypeOK

\* A thread has only its own locals to write.
OthersKeep(t) ==
    \A u \in Threads \ {t} :
        /\ pc'[u] = pc[u] /\ on'[u] = on[u] /\ kind'[u] = kind[u] /\ arg'[u] = arg[u]
        /\ node'[u] = node[u] /\ tl'[u] = tl[u] /\ hd'[u] = hd[u] /\ nx'[u] = nx[u]
        /\ val'[u] = val[u] /\ fr'[u] = fr[u] /\ elapsed'[u] = elapsed[u]

\* Each thread leaves the locals of the others alone.
LEMMA OwnSteps ==
    ASSUME TypeOK, NEW t \in Threads, Call(t) \/ Step(t)
    PROVE  OthersKeep(t)
<1> USE LocalTypes DEF OthersKeep, Goto, locals, time
<1>2. Return(t) => OthersKeep(t)
  BY DEF Return
<1>d. UNCHANGED elapsed /\ CheckDone(t) => OthersKeep(t)
  BY DEF CheckDone, Return
<1>e. CheckDone(t) => OthersKeep(t)
  <2>1. ASSUME NEW l, fr' = [fr EXCEPT ![t] = Null], Goto(t, l),
               UNCHANGED <<on, arg, node, tl, hd, nx, val, kind, time>>
        PROVE  OthersKeep(t)
    BY <2>1
  <2> QED
    BY <1>2, <2>1 DEF CheckDone
<1>3. ASSUME NEW q \in Queues, Dequeue(t, q) PROVE OthersKeep(t)
  BY <1>3 DEF Dequeue
<1>4. ASSUME NEW q \in Queues, NEW v \in Values, Enqueue(t, q, v) PROVE OthersKeep(t)
  BY <1>4 DEF Enqueue
<1>5. CASE EnqInit(t) \/ EnqLoadTail(t) \/ EnqLink(t) \/ EnqSwing(t)
  BY <1>5 DEF EnqInit, EnqLoadTail, EnqLink, EnqSwing
<1>6. CASE EnqSize(t) \/ DeqSize(t)
  BY <1>2, <1>6 DEF EnqSize, DeqSize
<1>7. CASE DeqLoadHead(t) \/ DeqLoadNext(t) \/ DeqValue(t) \/ DeqTake(t) \/ DeqFree(t)
  BY <1>7 DEF DeqLoadHead, DeqLoadNext, DeqValue, DeqTake, DeqFree
<1>8. CASE DeqTestTail(t)
  BY <1>2, <1>8 DEF DeqTestTail, DeqEmpty
<1>9. CASE RecycleLoad(t) \/ RecycleLink(t) \/ RecycleTime(t) \/ RecycleMove(t)
  BY <1>9 DEF RecycleLoad, RecycleLink, RecycleTime, RecycleMove
<1>10. CASE CheckEnter(t)
  <2>1. ASSUME fr' = [fr EXCEPT ![t] = root_free[on[t]]], Goto(t, "c_step"),
               UNCHANGED <<on, arg, node, tl, hd, nx, val, kind, time>>
        PROVE  OthersKeep(t)
    BY <2>1
  <2> QED
    BY <1>e, <1>10, <2>1 DEF CheckEnter
<1>11. CASE CheckStep(t)
  BY <1>11 DEF CheckStep, FreeNext
<1>12. CASE CheckExit(t)
  BY <1>e, <1>12 DEF CheckExit
<1> QED
  BY <1>3, <1>4, <1>5, <1>6, <1>7, <1>8, <1>9, <1>10, <1>11, <1>12
     DEF Call, Step, SingleStep, RecycleStep

-----------------------------------------------------------------------------
(* The steps of the threads. *)

\* What the putters do, what the taker does, and what both do.
PutStep(w) ==
    \/ \E v \in Values : Enqueue(w, myq, v)
    \/ EnqInit(w) \/ EnqLoadTail(w) \/ EnqLink(w) \/ EnqSwing(w) \/ EnqSize(w)

TakeStep ==
    \/ Dequeue(Taker, myq) /\ kind'[Taker] = "deq"
    \/ DeqLoadHead(Taker) \/ DeqLoadNext(Taker) \/ DeqTestTail(Taker) \/ DeqValue(Taker)
    \/ DeqTake(Taker) \/ DeqSize(Taker)
    \/ RecycleLoad(Taker) \/ RecycleLink(Taker) \/ RecycleTime(Taker) \/ RecycleMove(Taker)

FreeStep(t) == CheckEnter(t) \/ CheckStep(t) \/ CheckExit(t)

Acts(t) == FreeStep(t) \/ IF t = Taker THEN TakeStep ELSE PutStep(t)

\* The labels a thread is at say which calls it makes.
LEMMA TheActs ==
    ASSUME OneTaker, CallsOK, NEW t \in Threads, WorkerCall(t) \/ WorkerStep(t)
    PROVE  Acts(t) /\ (Call(t) \/ Step(t))
<1>1. CallOK(t)
  BY DEF CallsOK
<1>2. CASE WorkerCall(t)
  <2>1. left[t] > 0
    BY <1>2 DEF WorkerCall
  <2>2. test \in Drivers
    BY <2>1 DEF CallsOK, TurnsOK
  <2>3. turn[t] = IF t = Taker THEN "take" ELSE "put"
    BY <2>2 DEF CallsOK, TurnsOK
  <2>4. test = "one_enq_and_multi_deq"
    BY <2>2 DEF OneTaker
  <2>5. CASE t = Taker
    <3>1. Dequeue(t, myq) /\ Uses(kind'[t])
      BY <1>2, <2>3, <2>5 DEF WorkerCall
    <3>2. kind'[t] = "deq"
      BY <2>4, <3>1 DEF Uses
    <3> QED
      BY <2>5, <3>1, <3>2, TestRoles DEF Acts, TakeStep, Call
  <2>6. CASE t # Taker
    <3>1. \E v \in Values : Enqueue(t, myq, v)
      BY <1>2, <2>3, <2>6 DEF WorkerCall
    <3> QED
      BY <2>6, <3>1, TestRoles DEF Acts, PutStep, Call
  <2> QED
    BY <2>5, <2>6
<1>3. CASE WorkerStep(t)
  <2>1. Step(t)
    BY <1>3 DEF WorkerStep
  <2>2. CASE t = Taker
    <3>1. pc[t] \in TakerLabels
      BY <1>1, <2>2 DEF CallOK
    <3>2. pc[t] \notin EnqLabels \cup {"d_free"}
      BY <3>1 DEF TakerLabels, EnqLabels, DeqLabels, RecycleLabels, CheckLabels
    <3> QED
      BY <2>1, <2>2, <3>2
         DEF Step, SingleStep, RecycleStep, Acts, FreeStep, TakeStep, EnqLabels, EnqInit,
             EnqLoadTail, EnqLink, EnqSwing, EnqSize, DeqFree
  <2>3. CASE t # Taker
    <3>1. pc[t] \in PutterLabels
      BY <1>1, <2>3 DEF CallOK
    <3>2. pc[t] \notin DeqLabels \cup RecycleLabels
      BY <3>1 DEF PutterLabels, EnqLabels, DeqLabels, RecycleLabels, CheckLabels
    <3> QED
      BY <2>1, <2>3, <3>2
         DEF Step, SingleStep, RecycleStep, Acts, FreeStep, PutStep, DeqLabels, RecycleLabels,
             DeqLoadHead, DeqLoadNext, DeqTestTail, DeqValue, DeqTake, DeqFree, DeqSize,
             RecycleLoad, RecycleLink, RecycleTime, RecycleMove
  <2> QED
    BY <2>2, <2>3
<1> QED
  BY <1>2, <1>3

\* What a thread has in its locals where it is.
LEMMA AtLabel ==
    ASSUME ListsIInv, NEW t \in Threads
    PROVE  /\ pc[t] # "idle" => on[t] = myq
           /\ pc[t] \in {"e_init", "e_tail", "e_link", "e_swing"} =>
                 t \in Putters /\ node[t] \in Nodes /\ arg[t] \in Values
           /\ pc[t] = "e_link" => tl[t] \in Nodes
           /\ pc[t] \in DeqLabels \cup RecycleLabels => t = Taker
<1>1. CallOK(t)
  BY DEF ListsIInv, CallsOK
<1>2. pc[t] \in DeqLabels \cup RecycleLabels => t = Taker
  <2>1. PutterLabels \cap (DeqLabels \cup RecycleLabels) = {}
    BY DEF PutterLabels, EnqLabels, DeqLabels, RecycleLabels, CheckLabels
  <2> QED
    BY <1>1, <2>1 DEF CallOK
<1>3. pc[t] \in {"e_init", "e_tail", "e_link", "e_swing"} => t \in Putters
  <2>1. TakerLabels \cap {"e_init", "e_tail", "e_link", "e_swing"} = {}
    BY DEF TakerLabels, DeqLabels, RecycleLabels, CheckLabels
  <2> QED
    BY <1>1, <2>1, TestRoles DEF CallOK
<1>4. t \in Putters => ProducerOK(t) /\ t # Taker
  BY TestRoles DEF ListsIInv
<1>5. pc[t] \in {"e_init", "e_tail", "e_link", "e_swing"} => node[t] \in Nodes /\ arg[t] \in Values
  BY <1>1, <1>3, <1>4 DEF ProducerOK, CallOK
<1>6. pc[t] = "e_link" => tl[t] \in Nodes
  BY <1>3, <1>4 DEF ProducerOK
<1> QED
  BY <1>1, <1>2, <1>3, <1>5, <1>6 DEF CallOK

\* Every step of a thread keeps the types.
LEMMA TestTypeStep ==
    ASSUME ListsIInv, NEW t \in Threads, Acts(t)
    PROVE  TypeOK'
<1> USE DEF TypeOK, Goto, EnqLabels, DeqLabels, RecycleLabels, CheckLabels
<1>t. TypeOK
  BY DEF ListsIInv
<1>l. \A s \in Seq(Nodes), n \in Nodes : Append(s, n) \in Seq(Nodes)
  BY AppendProperties
<1>s. \A s \in Seq(Nodes) : Len(s) > 0 => SubSeq(s, 2, Len(s)) \in Seq(Nodes)
  <2>1. ASSUME NEW s \in Seq(Nodes), Len(s) > 0 PROVE SubSeq(s, 2, Len(s)) \in Seq(Nodes)
    BY <2>1, LenProperties, SubSeqProperties
  <2> QED
    BY <2>1
<1>q. /\ chain[myq] \in Seq(Nodes) /\ recycled[myq] \in Seq(Nodes) /\ myq \in Queues
      /\ Len(chain[myq]) > 0 /\ Len(recycled[myq]) > 0
  BY <1>t, OneQueue, TestRoles DEF Q, R, ListsIInv, ChainOK, ListOK
<1>z. 0 \in 0 .. MaxCall
  BY BoundsAssumption
<1>r. ASSUME Return(t), UNCHANGED <<mem, head, tail, recycling, pool, history>>,
             size' \in [Queues -> 0 .. Word - 1]
      PROVE  TypeOK'
  BY <1>t, <1>r, <1>z DEF Return, mem, recycling, history
<1>c. ASSUME CheckDone(t), UNCHANGED <<mem, queues, move_free, pool, history>>,
             root_free' \in [Queues -> Nodes \cup {Null}],
             in_free_mode' \in [Queues -> BOOLEAN], expired' \in [Queues -> SUBSET Nodes]
      PROVE  TypeOK'
  <2>1. CASE Return(t)
    BY <1>t, <1>c, <1>z, <2>1 DEF Return, mem, queues, history
  <2>2. ASSUME NEW l \in {"e_size", "d_size"}, fr' = [fr EXCEPT ![t] = Null], Goto(t, l),
               UNCHANGED <<on, arg, node, tl, hd, nx, val, kind, time>>
        PROVE  TypeOK'
    BY <1>t, <1>c, <2>2 DEF mem, queues, history, time
  <2> QED
    BY <1>c, <2>1, <2>2 DEF CheckDone
<1>1. ASSUME t = Taker, Dequeue(t, myq) PROVE TypeOK'
  <2>1. kind' \in [Threads -> {"single_deq", "deq", Null}]
    <3>1. PICK k \in Deqs[myq] : kind' = [kind EXCEPT ![t] = k]
      BY <1>1 DEF Dequeue
    <3>2. k \in {"single_deq", "deq"} /\ kind \in [Threads -> {"single_deq", "deq", Null}]
      BY <1>t, RolesAssumption, TestRoles
    <3> QED
      BY <3>1, <3>2
  <2> QED
    BY <1>t, <1>q, <1>1, <2>1 DEF Dequeue, mem, queues, recycling, time, history
<1>2. ASSUME NEW v \in Values, Enqueue(t, myq, v) PROVE TypeOK'
  <2>1. /\ pc' \in [Threads -> {"idle"} \cup EnqLabels \cup DeqLabels
                              \cup RecycleLabels \cup CheckLabels]
        /\ on' \in [Threads -> Queues \cup {Null}]
    <3>1. /\ on' = [on EXCEPT ![t] = myq]
          /\ pc' = [pc EXCEPT ![t] = "e_init"] \/ pc' = [pc EXCEPT ![t] = "e_size"]
      BY <1>2 DEF Enqueue
    <3> QED
      BY <1>t, <1>q, <3>1
  <2>2. /\ node' \in [Threads -> Nodes \cup {Null}] /\ arg' \in [Threads -> Values \cup {Null}]
        /\ pool' \in SUBSET Nodes
    <3>1. CASE UNCHANGED <<pool, node, arg>>
      BY <1>t, <3>1
    <3>2. ASSUME NEW n \in pool, pool' = pool \ {n}, node' = [node EXCEPT ![t] = n],
                 arg' = [arg EXCEPT ![t] = v]
          PROVE  /\ node' \in [Threads -> Nodes \cup {Null}]
                 /\ arg' \in [Threads -> Values \cup {Null}] /\ pool' \in SUBSET Nodes
      BY <1>t, <3>2
    <3> QED
      BY <1>2, <3>1, <3>2 DEF Enqueue
  <2>3. unlinked' \in [Queues -> Nat]
    <3>1. unlinked' = unlinked \/ unlinked' = [unlinked EXCEPT ![myq] = @ + 1]
      BY <1>2 DEF Enqueue
    <3>2. unlinked \in [Queues -> Nat] /\ unlinked[myq] + 1 \in Nat
      BY <1>t, <1>q
    <3> QED
      BY <3>1, <3>2
  <2>4. /\ UNCHANGED <<next, value, nextfree, head, tail, size, root_free, move_free>>
        /\ UNCHANGED <<in_free_mode, expired, tl, hd, nx, val, fr, kind, age, elapsed>>
        /\ UNCHANGED <<delivered, chain, recycled>>
    BY <1>2 DEF Enqueue, mem, queues, recycling, time
  <2> QED
    BY <1>t, <2>1, <2>2, <2>3, <2>4
<1>3. CASE EnqInit(t)
  BY <1>t, <1>3 DEF EnqInit, queues, recycling, locals, time, history
<1>4. CASE EnqLoadTail(t)
  <2>1. tail[on[t]] \in Nodes
    BY <1>4, AtLabel, OneQueue DEF EnqLoadTail, ListsIInv
  <2> QED
    BY <1>t, <1>4, <2>1 DEF EnqLoadTail, mem, queues, recycling, time, history
<1>5. CASE EnqLink(t)
  <2>1. on[t] = myq /\ node[t] \in Nodes
    BY <1>5, AtLabel DEF EnqLink
  <2>2. chain' \in [Queues -> Seq(Nodes)]
    <3>1. chain' = chain \/ chain' = [chain EXCEPT ![myq] = Linked(@, tl[t], node[t])]
      BY <1>5, <2>1 DEF EnqLink
    <3>2. Linked(chain[myq], tl[t], node[t]) \in Seq(Nodes)
      BY <1>l, <1>q, <2>1 DEF Linked
    <3> QED
      BY <1>t, <3>1, <3>2
  <2> QED
    BY <1>t, <1>5, <2>1, <2>2 DEF EnqLink, queues, recycling, locals, time
<1>6. CASE EnqSwing(t)
  <2>1. on[t] = myq /\ node[t] \in Nodes
    BY <1>6, AtLabel DEF EnqSwing
  <2>2. AfterSwing(t) \in {"c_enter", "e_size"}
    BY DEF AfterSwing
  <2>3. tail' \in [Queues -> Nodes]
    BY <1>t, <1>6, <2>1 DEF EnqSwing
  <2> QED
    BY <1>t, <1>6, <2>2, <2>3, SMTT(20) DEF EnqSwing, mem, recycling, time, history
<1>7. CASE EnqSize(t)
  <2>1. on[t] = myq
    BY <1>7, AtLabel DEF EnqSize
  <2>2. size' \in [Queues -> 0 .. Word - 1]
    BY <1>t, <1>q, <1>7, <2>1, ResizeType DEF EnqSize
  <2> QED
    BY <1>7, <1>r, <2>2 DEF EnqSize
<1>8. CASE DeqSize(t)
  <2>1. on[t] = myq
    BY <1>8, AtLabel DEF DeqSize
  <2>2. size' \in [Queues -> 0 .. Word - 1]
    BY <1>t, <1>q, <1>8, <2>1, ResizeType DEF DeqSize
  <2> QED
    BY <1>8, <1>r, <2>2 DEF DeqSize
<1>9. CASE DeqLoadHead(t)
  <2>1. head[on[t]] \in Nodes
    BY <1>9, AtLabel, OneQueue DEF DeqLoadHead, ListsIInv
  <2> QED
    BY <1>t, <1>9, <2>1 DEF DeqLoadHead, mem, queues, recycling, time, history
<1>10. CASE DeqLoadNext(t)
  <2>1. hd[t] \in Nodes
    BY <1>10, AtLabel, OneQueue DEF DeqLoadNext, ListsIInv, ConsumerOK
  <2> QED
    BY <1>t, <1>10, <2>1 DEF DeqLoadNext, mem, queues, recycling, time, history
<1>11. CASE DeqTestTail(t)
  <2>1. CASE Return(t)
    BY <1>t, <1>11, <2>1, <1>r DEF DeqTestTail, queues
  <2>2. ASSUME hd' = hd \/ hd' = [hd EXCEPT ![t] = Null],
               NEW l \in {"c_enter", "d_head", "d_value"}, Goto(t, l),
               UNCHANGED <<on, arg, node, tl, nx, val, fr, kind, time>>
        PROVE  TypeOK'
    <3>1. hd' \in [Threads -> Nodes \cup {Null}]
      BY <1>t, <2>2
    <3>2. pc' \in [Threads -> {"idle"} \cup EnqLabels \cup DeqLabels
                              \cup RecycleLabels \cup CheckLabels]
      BY <1>t, <2>2
    <3> QED
      BY <1>t, <1>11, <2>2, <3>1, <3>2 DEF DeqTestTail, mem, queues, recycling, time, history
  <2> QED
    BY <1>11, <2>1, <2>2 DEF DeqTestTail, DeqEmpty, locals
<1>12. CASE DeqValue(t)
  <2>1. nx[t] \in Nodes
    <3>1. t = Taker
      BY <1>12, AtLabel DEF DeqValue
    <3>2. Len(Q) > 1 /\ nx[Taker] = Q[2]
      BY <1>12, <3>1 DEF DeqValue, ListsIInv, ConsumerOK
    <3>3. Len(Q) \in Nat /\ \A i \in 1 .. Len(Q) : Q[i] \in Nodes
      BY <1>t, OneQueue
    <3>4. 2 \in 1 .. Len(Q)
      BY <3>2, <3>3
    <3> QED
      BY <3>1, <3>2, <3>3, <3>4
  <2> QED
    BY <1>t, <1>12, <2>1 DEF DeqValue, mem, queues, recycling, time, history
<1>13. CASE DeqTake(t)
  <2>1. t = Taker /\ on[t] = myq
    BY <1>13, AtLabel DEF DeqTake
  <2>2. Len(Q) > 1 /\ nx[Taker] = Q[2]
    BY <1>13, <2>1 DEF DeqTake, ListsIInv, ConsumerOK
  <2>3. nx[t] \in Nodes
    BY <1>t, <2>1, <2>2, OneQueue, SMTT(20)
  <2>4. head' \in [Queues -> Nodes] /\ delivered' \in [Queues -> Values \cup {Null}]
        /\ chain' \in [Queues -> Seq(Nodes)]
    <3>1. /\ head' = head \/ head' = [head EXCEPT ![myq] = nx[t]]
          /\ delivered' = delivered \/ delivered' = [delivered EXCEPT ![myq] = val[t]]
          /\ chain' = chain \/ chain' = [chain EXCEPT ![myq] = SubSeq(@, 2, Len(@))]
      BY <1>13, <2>1 DEF DeqTake
    <3>2. SubSeq(chain[myq], 2, Len(chain[myq])) \in Seq(Nodes)
      BY <1>q, <1>s
    <3>3. chain' \in [Queues -> Seq(Nodes)]
      BY <1>t, <3>1, <3>2
    <3>4. head' \in [Queues -> Nodes]
      BY <1>t, <2>3, <3>1
    <3>5. val[t] \in Values \cup {Null}
      BY <1>t
    <3>6. delivered' \in [Queues -> Values \cup {Null}]
      BY <1>t, <3>1, <3>5
    <3> QED
      BY <3>3, <3>4, <3>6
  <2>5. nx' \in [Threads -> Nodes \cup {Null}] /\ val' \in [Threads -> Values \cup {Null}]
        /\ pc' \in [Threads -> {"idle"} \cup EnqLabels \cup DeqLabels
                              \cup RecycleLabels \cup CheckLabels]
    BY <1>t, <1>13 DEF DeqTake
  <2>6. /\ UNCHANGED <<next, value, nextfree, tail, size, root_free, move_free, in_free_mode>>
        /\ UNCHANGED <<expired, pool, on, arg, node, tl, hd, fr, kind, age, elapsed>>
        /\ UNCHANGED <<recycled, unlinked>>
    BY <1>13 DEF DeqTake, mem, recycling, time
  <2> QED
    BY <1>t, <2>4, <2>5, <2>6
<1>14. CASE RecycleLoad(t)
  <2>1. move_free[on[t]] \in Nodes
    BY <1>14, AtLabel, OneQueue DEF RecycleLoad, ListsIInv
  <2> QED
    BY <1>t, <1>14, <2>1 DEF RecycleLoad, mem, queues, recycling, time, history
<1>15. CASE RecycleLink(t)
  <2>1. on[t] = myq /\ t = Taker
    BY <1>15, AtLabel DEF RecycleLink
  <2>2. hd[t] \in Nodes
    BY <1>15, <2>1 DEF RecycleLink, ListsIInv, RecyclerOK
  <2>3. recycled' \in [Queues -> Seq(Nodes)]
    <3>1. \/ recycled' = recycled
          \/ recycled' = [recycled EXCEPT ![myq] = Linked(@, fr[t], hd[t])]
      BY <1>15, <2>1 DEF RecycleLink
    <3>2. Linked(recycled[myq], fr[t], hd[t]) \in Seq(Nodes)
      BY <1>l, <1>q, <2>2 DEF Linked
    <3> QED
      BY <1>t, <3>1, <3>2
  <2> QED
    BY <1>t, <1>15, <2>2, <2>3 DEF RecycleLink, queues, recycling, locals, time
<1>16. CASE RecycleTime(t)
  <2>1. 0 \in 0 .. Grace + 1
    BY BoundsAssumption
  <2>2. expired[on[t]] \ {hd[t]} \in SUBSET Nodes
    BY <1>16, AtLabel, OneQueue DEF RecycleTime, ListsIInv
  <2> QED
    BY <1>t, <1>16, <2>1, <2>2 DEF RecycleTime, mem, queues, locals, history
<1>17. CASE RecycleMove(t)
  <2>1. on[t] = myq /\ t = Taker
    BY <1>17, AtLabel DEF RecycleMove
  <2>2. hd[t] \in Nodes
    BY <1>17, <2>1 DEF RecycleMove, ListsIInv, RecyclerOK
  <2>3. move_free' \in [Queues -> Nodes]
    BY <1>t, <1>17, <2>1, <2>2 DEF RecycleMove
  <2> QED
    <3>1. pc' \in [Threads -> {"idle"} \cup EnqLabels \cup DeqLabels
                              \cup RecycleLabels \cup CheckLabels]
      BY <1>t, <1>17 DEF RecycleMove
    <3>2. \A f \in {hd', nx', fr'} : f \in [Threads -> Nodes \cup {Null}]
      BY <1>t, <1>17 DEF RecycleMove
    <3>3. /\ UNCHANGED <<next, value, nextfree, head, tail, size, root_free, in_free_mode, expired>>
          /\ UNCHANGED <<pool, on, arg, node, tl, val, kind, age, elapsed>>
          /\ UNCHANGED <<delivered, chain, recycled, unlinked>>
      BY <1>17 DEF RecycleMove, mem, queues, time, history
    <3> QED
      BY <1>t, <2>3, <3>1, <3>2, <3>3
<1>18. CASE CheckEnter(t)
  <2>1. CASE CheckDone(t) /\ UNCHANGED <<in_free_mode, expired>>
    BY <1>t, <1>c, <1>18, <2>1 DEF CheckEnter
  <2>2. CASE /\ in_free_mode' = [in_free_mode EXCEPT ![on[t]] = TRUE]
             /\ expired' = [expired EXCEPT ![on[t]] = {n \in Nodes : age[n] > Grace}]
             /\ fr' = [fr EXCEPT ![t] = root_free[on[t]]]
             /\ Goto(t, "c_step")
             /\ UNCHANGED <<on, arg, node, tl, hd, nx, val, kind, time>>
    <3>1. root_free[on[t]] \in Nodes \cup {Null}
      BY <1>t, <1>18, <1>q, AtLabel, ZenonT(30) DEF CheckEnter
    <3>2. fr' \in [Threads -> Nodes \cup {Null}]
      BY <1>t, <2>2, <3>1
    <3>3. pc' \in [Threads -> {"idle"} \cup EnqLabels \cup DeqLabels
                              \cup RecycleLabels \cup CheckLabels]
      BY <1>t, <2>2
    <3>4. in_free_mode' \in [Queues -> BOOLEAN] /\ expired' \in [Queues -> SUBSET Nodes]
      BY <1>t, <2>2
    <3> QED
      BY <1>t, <1>18, <2>2, <3>2, <3>3, <3>4 DEF CheckEnter, mem, queues, time, history
  <2> QED
    BY <1>18, <2>1, <2>2 DEF CheckEnter
<1>19. CASE CheckStep(t)
  <2>1. on[t] = myq
    BY <1>19, AtLabel DEF CheckStep, FreeNext
  <2>2. recycled' \in [Queues -> Seq(Nodes)]
    BY <1>t, <1>q, <1>s, <1>19, <2>1, ZenonT(30) DEF CheckStep, FreeNext
  <2>3. fr' \in [Threads -> Nodes \cup {Null}]
    BY <1>t, <1>19, ZenonT(30) DEF CheckStep, FreeNext
  <2>4. pool' \in SUBSET Nodes
    BY <1>t, <1>19 DEF CheckStep, FreeNext
  <2>5. pc' \in [Threads -> {"idle"} \cup EnqLabels \cup DeqLabels
                              \cup RecycleLabels \cup CheckLabels]
    BY <1>t, <1>19, ZenonT(30) DEF CheckStep, FreeNext
  <2> QED
    BY <1>t, <1>19, <2>2, <2>3, <2>4, <2>5
       DEF CheckStep, FreeNext, mem, queues, recycling, time
<1>20. CASE CheckExit(t)
  <2>1. fr[t] \in Nodes \cup {Null} /\ on[t] = myq
    BY <1>t, <1>20, AtLabel DEF CheckExit
  <2> QED
    BY <1>t, <1>c, <1>20, <2>1 DEF CheckExit
<1>21. CASE t = Taker /\ TakeStep
  BY <1>21, <1>1, <1>8, <1>9, <1>10, <1>11, <1>12, <1>13, <1>14, <1>15, <1>16, <1>17
     DEF TakeStep
<1>22. CASE PutStep(t)
  BY <1>22, <1>2, <1>3, <1>4, <1>5, <1>6, <1>7 DEF PutStep
<1> QED
  BY <1>18, <1>19, <1>20, <1>21, <1>22 DEF Acts, FreeStep

-----------------------------------------------------------------------------
(* The calls. *)

\* What a thread makes of its own call.
CallKept(t) ==
    /\ pc'[t] \in IF t = Taker THEN TakerLabels ELSE PutterLabels
    /\ pc'[t] # "idle" => on'[t] = myq
    /\ IF t = Taker
       THEN /\ arg'[t] = Null /\ (pc'[t] # "idle" => kind'[t] = "deq")
            /\ pc'[t] \in {"d_take", "d_size"} \cup RecycleLabels => val'[t] \in Values
            /\ pc'[t] \in {"idle", "d_head", "d_next", "d_tail", "d_value"} => val'[t] = Null
       ELSE /\ val'[t] = Null
            /\ pc'[t] \in {"e_init", "e_tail", "e_link", "e_swing"} \cup CheckLabels =>
                  arg'[t] \in Values

\* A putter goes on with its call, and so does the taker.
LEMMA CallStep ==
    ASSUME ListsIInv, NEW t \in Threads, Acts(t)
    PROVE  CallKept(t)
<1>t. TypeOK /\ CallOK(t) /\ Null \notin Values
  BY NodesAssumption DEF ListsIInv, CallsOK
<1>a. /\ arg[t] \in Values \cup {Null} /\ val[t] \in Values \cup {Null}
      /\ (pc[t] # "idle" => on[t] = myq)
  BY <1>t DEF TypeOK, CallOK
<1> USE LocalTypes
    DEF Goto, locals, EnqLabels, DeqLabels, RecycleLabels, CheckLabels, PutterLabels, TakerLabels
<1>r. Return(t) => CallKept(t)
  <2>1. ASSUME Return(t)
        PROVE  pc'[t] = "idle" /\ arg'[t] = Null /\ val'[t] = Null
    BY <1>t, <2>1 DEF Return
  <2> QED
    BY <2>1 DEF CallKept
<1>c. ASSUME CheckDone(t), pc[t] \in CheckLabels PROVE CallKept(t)
  <2>1. ASSUME NEW l, fr' = [fr EXCEPT ![t] = Null], Goto(t, l),
               l = IF arg[t] # Null THEN "e_size" ELSE "d_size", arg[t] # Null \/ val[t] # Null,
               UNCHANGED <<on, arg, node, tl, hd, nx, val, kind, time>>
        PROVE  CallKept(t)
    <3>1. /\ pc'[t] = l /\ on'[t] = myq /\ arg'[t] = arg[t] /\ val'[t] = val[t]
          /\ kind'[t] = kind[t]
      BY <1>t, <1>a, <1>c, <2>1
    <3>2. CASE t = Taker
      BY <1>t, <1>a, <1>c, <2>1, <3>1, <3>2 DEF CallOK, CallKept
    <3>3. CASE t # Taker
      BY <1>t, <1>a, <1>c, <2>1, <3>1, <3>3 DEF CallOK, CallKept
    <3> QED
      BY <3>2, <3>3
  <2> QED
    BY <1>c, <1>r, <2>1 DEF CheckDone
<1>1. CASE CheckEnter(t)
  <2>1. CASE CheckDone(t)
    BY <1>1, <1>c, <2>1 DEF CheckEnter
  <2>2. CASE /\ Goto(t, "c_step") /\ UNCHANGED <<on, arg, node, tl, hd, nx, val, kind, time>>
    <3>1. /\ pc[t] = "c_enter" /\ pc'[t] = "c_step" /\ on'[t] = myq
          /\ arg'[t] = arg[t] /\ val'[t] = val[t] /\ kind'[t] = kind[t]
      BY <1>1, <1>t, <1>a, <2>2 DEF CheckEnter
    <3> QED
      BY <1>t, <3>1 DEF CallOK, CallKept
  <2> QED
    BY <1>1, <2>1, <2>2 DEF CheckEnter
<1>2. CASE CheckStep(t)
  <2>1. /\ pc[t] = "c_step" /\ pc'[t] \in {"c_step", "c_exit"} /\ on'[t] = myq
        /\ arg'[t] = arg[t] /\ val'[t] = val[t] /\ kind'[t] = kind[t]
    BY <1>2, <1>t, <1>a DEF CheckStep, FreeNext
  <2> QED
    BY <1>t, <2>1 DEF CallOK, CallKept
<1>3. CASE CheckExit(t)
  BY <1>3, <1>c DEF CheckExit
<1>4. CASE t # Taker /\ PutStep(t)
  <2>1. ASSUME NEW v \in Values, Enqueue(t, myq, v) PROVE CallKept(t)
    <3>1. /\ pc[t] = "idle" /\ on'[t] = myq /\ val'[t] = val[t]
          /\ \/ pc'[t] = "e_init" /\ arg'[t] = v
             \/ pc'[t] = "e_size" /\ arg'[t] = arg[t]
      BY <1>t, <2>1 DEF Enqueue
    <3> QED
      BY <1>t, <1>4, <3>1 DEF CallOK, CallKept
  <2>2. CASE EnqInit(t) \/ EnqLoadTail(t) \/ EnqLink(t)
    <3>1. /\ pc[t] \in {"e_init", "e_tail", "e_link"}
          /\ pc'[t] \in {"e_tail", "e_link", "e_swing"} /\ on'[t] = myq
          /\ arg'[t] = arg[t] /\ val'[t] = val[t]
      BY <1>t, <1>a, <2>2 DEF EnqInit, EnqLoadTail, EnqLink
    <3> QED
      BY <1>t, <1>4, <3>1 DEF CallOK, CallKept
  <2>3. CASE EnqSwing(t)
    <3>1. /\ pc[t] = "e_swing" /\ pc'[t] \in {"c_enter", "e_size"} /\ on'[t] = myq
          /\ arg'[t] = arg[t] /\ val'[t] = val[t]
      BY <1>t, <1>a, <2>3 DEF EnqSwing, AfterSwing
    <3> QED
      BY <1>t, <1>4, <3>1 DEF CallOK, CallKept
  <2>4. CASE EnqSize(t)
    BY <1>r, <2>4 DEF EnqSize
  <2> QED
    BY <1>4, <2>1, <2>2, <2>3, <2>4 DEF PutStep
<1>5. CASE t = Taker /\ TakeStep
  <2>1. CASE Dequeue(Taker, myq) /\ kind'[Taker] = "deq"
    <3>1. /\ pc[t] = "idle" /\ on'[t] = myq /\ arg'[t] = arg[t] /\ val'[t] = val[t]
          /\ pc'[t] = "d_head" /\ kind'[t] = "deq"
      BY <1>t, <1>5, <2>1 DEF Dequeue
    <3> QED
      BY <1>t, <1>5, <3>1 DEF CallOK, CallKept
  <2>2. CASE DeqLoadHead(t) \/ DeqLoadNext(t)
    <3>1. /\ pc[t] \in {"d_head", "d_next"} /\ on'[t] = myq /\ arg'[t] = arg[t]
          /\ val'[t] = val[t] /\ pc'[t] \in {"d_next", "d_tail"} /\ kind'[t] = kind[t]
      BY <1>t, <1>a, <2>2 DEF DeqLoadHead, DeqLoadNext
    <3> QED
      BY <1>t, <1>5, <3>1 DEF CallOK, CallKept
  <2>3. CASE DeqTestTail(t)
    <3>1. pc[t] = "d_tail" /\ kind[t] = "deq" /\ val[t] = Null
      BY <1>t, <1>5, <2>3 DEF DeqTestTail, CallOK
    <3>2. /\ on'[t] = myq /\ arg'[t] = arg[t] /\ val'[t] = val[t]
          /\ pc'[t] \in {"d_head", "d_value", "c_enter"} /\ kind'[t] = kind[t]
      BY <1>t, <1>a, <2>3, <3>1 DEF DeqTestTail, DeqEmpty
    <3> QED
      BY <1>t, <1>5, <3>1, <3>2 DEF CallOK, CallKept
  <2>4. CASE DeqValue(t)
    <3>1. /\ pc[t] = "d_value" /\ on'[t] = myq /\ arg'[t] = arg[t] /\ val'[t] = value[nx[t]]
          /\ pc'[t] = "d_take" /\ kind'[t] = kind[t]
      BY <1>t, <1>a, <2>4 DEF DeqValue
    <3>2. Len(Q) > 1 /\ nx[t] = Q[2]
      BY <1>5, <3>1 DEF ListsIInv, ConsumerOK
    <3>3. \A i \in 2 .. Len(Q) : value[Q[i]] \in Values
      BY DEF ListsIInv, ChainOK
    <3>4. value[nx[t]] \in Values
      BY <1>t, <3>2, <3>3, OneQueue
    <3> QED
      BY <1>t, <1>5, <3>1, <3>4 DEF CallOK, CallKept
  <2>5. CASE DeqTake(t)
    <3>1. pc[t] = "d_take" /\ kind[t] = "deq"
      BY <1>t, <1>5, <2>5 DEF DeqTake, CallOK
    <3>2. /\ on'[t] = myq /\ arg'[t] = arg[t] /\ kind'[t] = kind[t]
          /\ \/ pc'[t] = "r_load" /\ val'[t] = val[t]
             \/ pc'[t] = "d_head" /\ val'[t] = Null
      BY <1>t, <1>a, <2>5, <3>1 DEF DeqTake
    <3> QED
      BY <1>t, <1>5, <3>1, <3>2 DEF CallOK, CallKept
  <2>6. CASE DeqSize(t)
    BY <1>r, <2>6 DEF DeqSize
  <2>7. CASE RecycleLoad(t) \/ RecycleLink(t) \/ RecycleTime(t) \/ RecycleMove(t)
    <3>1. /\ pc[t] \in RecycleLabels /\ on'[t] = myq /\ arg'[t] = arg[t] /\ val'[t] = val[t]
          /\ pc'[t] \in RecycleLabels \cup {"c_enter"} /\ kind'[t] = kind[t]
      BY <1>t, <1>a, <2>7 DEF RecycleLoad, RecycleLink, RecycleTime, RecycleMove
    <3> QED
      BY <1>t, <1>5, <3>1 DEF CallOK, CallKept
  <2> QED
    BY <1>5, <2>1, <2>2, <2>3, <2>4, <2>5, <2>6, <2>7 DEF TakeStep
<1> QED
  BY <1>1, <1>2, <1>3, <1>4, <1>5 DEF Acts, FreeStep

\* What is still to be done grows less only where a call ends.
LEMMA LeftStep ==
    ASSUME OneTaker, ListsIInv, TestTypeOK, NEW t \in Threads, WorkerCall(t) \/ WorkerStep(t)
    PROVE  /\ test \in Drivers /\ test' = test /\ round' = round /\ destroyed' = destroyed
           /\ turn' = turn /\ left[t] > 0
           /\ IF pc[t] \in {"e_size", "d_size"}
              THEN left' = [left EXCEPT ![t] = @ - 1] /\ pc'[t] = "idle"
              ELSE left' = left
<1>1. left[t] > 0 /\ test \in Drivers
  <2>1. CASE WorkerCall(t)
    BY <2>1 DEF WorkerCall, ListsIInv, CallsOK, TurnsOK
  <2>2. CASE WorkerStep(t)
    <3>1. pc[t] # "idle"
      BY <2>2 DEF WorkerStep, Step, SingleStep, RecycleStep, EnqInit, EnqLoadTail, EnqLink,
          EnqSwing, EnqSize, DeqLoadHead, DeqLoadNext, DeqTestTail, DeqValue, DeqTake, DeqFree,
          DeqSize, RecycleLoad, RecycleLink, RecycleTime, RecycleMove, CheckEnter, CheckStep,
          FreeNext, CheckExit
    <3> QED
      BY <3>1 DEF ListsIInv, CallsOK, CallOK
  <2> QED
    BY <2>1, <2>2
<1>2. test' = test /\ round' = round /\ destroyed' = destroyed
  BY DEF WorkerCall, WorkerStep, testVars
<1>3. test = "one_enq_and_multi_deq" /\ turn[t] = IF t = Taker THEN "take" ELSE "put"
  BY <1>1 DEF OneTaker, ListsIInv, CallsOK, TurnsOK
<1>4. /\ Takes(test, t) <=> t = Taker
      /\ Puts(test, t) <=> t \in Putters
  BY <1>3, OneWorker DEF Takes, Puts
<1>5. CASE WorkerCall(t)
  <2>1. pc[t] = "idle"
    BY <1>5 DEF WorkerCall, Enqueue, Dequeue
  <2> QED
    BY <1>1, <1>2, <1>5, <2>1 DEF WorkerCall, testVars
<1>6. CASE WorkerStep(t) /\ pc[t] \notin {"e_size", "d_size"}
  BY <1>1, <1>2, <1>6 DEF WorkerStep
<1>7. CASE WorkerStep(t) /\ pc[t] \in {"e_size", "d_size"}
  <2>1. Turn(t)
    BY <1>7 DEF WorkerStep
  <2>2. ~(turn[t] = "put" /\ Takes(test, t))
    BY <1>3, <1>4
  <2>3. /\ left' = [left EXCEPT ![t] = @ - 1]
        /\ turn' = [turn EXCEPT ![t] = IF Puts(test, t) THEN "put" ELSE "take"]
    BY <2>1, <2>2 DEF Turn
  <2>4. turn[t] = IF Puts(test, t) THEN "put" ELSE "take"
    BY <1>3, <1>4, TestRoles
  <2>5. turn' = turn
    BY <2>3, <2>4 DEF TestTypeOK
  <2>6. EnqSize(t) \/ DeqSize(t)
    BY <1>7 DEF WorkerStep, Step, SingleStep, RecycleStep, EnqInit, EnqLoadTail, EnqLink,
          EnqSwing, DeqLoadHead, DeqLoadNext, DeqTestTail, DeqValue, DeqTake, DeqFree,
          RecycleLoad, RecycleLink, RecycleTime, RecycleMove, CheckEnter, CheckStep,
          FreeNext, CheckExit
  <2>7. pc'[t] = "idle"
    BY <2>6, LocalTypes DEF EnqSize, DeqSize, Return, Goto, ListsIInv
  <2> QED
    BY <1>1, <1>2, <1>7, <2>3, <2>5, <2>7
<1> QED
  BY <1>5, <1>6, <1>7

\* A step of one thread leaves the calls of all what they are.
LEMMA CallsStep ==
    ASSUME OneTaker, ListsIInv, TestTypeOK, NEW t \in Threads, WorkerCall(t) \/ WorkerStep(t)
    PROVE  CallsOK'
<1>1. /\ test \in Drivers /\ test' = test /\ turn' = turn /\ left[t] > 0
      /\ IF pc[t] \in {"e_size", "d_size"}
         THEN left' = [left EXCEPT ![t] = @ - 1] /\ pc'[t] = "idle"
         ELSE left' = left
  BY LeftStep
<1>2. Acts(t) /\ OthersKeep(t)
  BY TheActs, OwnSteps DEF ListsIInv
<1>3. TurnsOK'
  BY <1>1 DEF ListsIInv, CallsOK, TurnsOK
<1>4. CallOK(t)'
  <2>1. CallKept(t)
    BY <1>2, CallStep
  <2>2. pc'[t] # "idle" => left'[t] > 0 /\ test' \in Drivers
    BY <1>1
  <2> QED
    BY <2>1, <2>2 DEF CallKept, CallOK
<1>5. ASSUME NEW u \in Threads, u # t PROVE CallOK(u)'
  <2>1. /\ pc'[u] = pc[u] /\ on'[u] = on[u] /\ kind'[u] = kind[u] /\ arg'[u] = arg[u]
        /\ val'[u] = val[u]
    BY <1>2, <1>5 DEF OthersKeep
  <2>2. left'[u] = left[u]
    BY <1>1, <1>5 DEF TestTypeOK
  <2>3. CallOK(u)
    BY DEF ListsIInv, CallsOK
  <2> QED
    BY <1>1, <2>1, <2>2, <2>3 DEF CallOK
<1> QED
  BY <1>3, <1>4, <1>5 DEF CallsOK

-----------------------------------------------------------------------------
(* The two lists. *)

\* What is left of the invariant once the calls are what they are.
Shape ==
    /\ \A w \in Putters : ProducerOK(w)
    /\ OneLinks /\ ConsumerOK /\ RecyclerOK
    /\ ChainOK /\ ListOK /\ FreeModeOK /\ ApartOK /\ CoveredOK

\* The ends of the two lists.
LEMMA ListFacts ==
    ASSUME ListsIInv
    PROVE  /\ Len(Q) > 0 /\ Last(Q) \in InQ /\ Last(Q) \in Nodes /\ Last(Q) = Q[Len(Q)]
           /\ head[myq] \in InQ /\ tail[myq] \in InQ /\ next[Last(Q)] = Null
           /\ (TailBehind => tail[myq] # Last(Q))
           /\ Len(R) > 0 /\ Last(R) \in InR /\ Last(R) \in Nodes /\ Last(R) = R[Len(R)]
           /\ R[1] \in InR /\ R[1] \in Nodes /\ move_free[myq] \in InR
           /\ nextfree[Last(R)] = Null /\ Null \notin Nodes
<1>1. TypeOK /\ ChainOK /\ ListOK /\ ApartOK /\ Null \notin Nodes
  BY NodesAssumption DEF ListsIInv
<1>2. /\ Len(Q) > 0 /\ head[myq] = Q[1] /\ next[Last(Q)] = Null
      /\ IF TailBehind THEN Len(Q) > 1 /\ tail[myq] = Q[Len(Q) - 1] ELSE tail[myq] = Last(Q)
      /\ \A i, j \in 1 .. Len(Q) : Q[i] = Q[j] => i = j
  BY <1>1 DEF ChainOK, ApartOK
<1>3. /\ Len(R) > 0 /\ nextfree[Last(R)] = Null
      /\ \/ Len(R) > 1 /\ move_free[myq] = R[Len(R) - 1]
         \/ move_free[myq] = Last(R)
  BY <1>1 DEF ListOK
<1>4. Last(Q) = Q[Len(Q)] /\ Last(R) = R[Len(R)]
  BY DEF Last
<1>5. /\ Last(Q) \in InQ /\ Last(Q) \in Nodes /\ head[myq] \in InQ /\ tail[myq] \in InQ
      /\ (TailBehind => tail[myq] # Last(Q))
  BY <1>1, <1>2, <1>4, OneQueue
<1>6. /\ Last(R) \in InR /\ Last(R) \in Nodes /\ R[1] \in InR /\ R[1] \in Nodes
      /\ move_free[myq] \in InR
  BY <1>1, <1>3, <1>4, OneQueue
<1> QED
  BY <1>1, <1>2, <1>3, <1>4, <1>5, <1>6

ListsSame ==
    UNCHANGED <<mem, head, tail, recycling, pool, age, chain, recycled>>

\* A step that only loads, tests or counts.
Quiet(t) ==
    /\ ListsSame
    /\ IF t = Taker
       THEN /\ Unlisted' = Unlisted /\ Untimed' = Untimed /\ MoveBehind' = MoveBehind
            /\ ConsumerOK' /\ RecyclerOK'
       ELSE Hand(t)' = Hand(t) /\ ProducerOK(t)' /\ (pc'[t] = "e_swing" <=> pc[t] = "e_swing")
    /\ pc'[t] \in Freeing <=> pc[t] \in Freeing
    /\ pc[t] \in Freeing => fr'[t] = fr[t]

\* What the others see is what they saw.
LEMMA TestQuiet ==
    ASSUME ListsIInv, NEW t \in Threads, OthersKeep(t), Quiet(t)
    PROVE  Shape'
<1>r. /\ Threads = Putters \cup {Taker} /\ Taker \notin Putters /\ Taker \in Threads
  BY TestRoles
<1>1. /\ next' = next /\ value' = value /\ nextfree' = nextfree /\ head' = head /\ tail' = tail
      /\ root_free' = root_free /\ move_free' = move_free /\ in_free_mode' = in_free_mode
      /\ expired' = expired /\ pool' = pool /\ age' = age /\ chain' = chain
      /\ recycled' = recycled
  BY DEF Quiet, ListsSame, mem, recycling
<1>2. Q' = Q /\ R' = R /\ InQ' = InQ /\ InR' = InR
  BY <1>1 DEF Q, R, InQ, InR, InChain, InRecycled
<1>3. \A u \in Putters : Hand(u)' = Hand(u) /\ (pc'[u] = "e_swing" <=> pc[u] = "e_swing")
  BY <1>r DEF Quiet, OthersKeep, Hand
<1>4. Unlisted' = Unlisted /\ Untimed' = Untimed /\ MoveBehind' = MoveBehind
  BY <1>r DEF Quiet, OthersKeep, Unlisted, Untimed, MoveBehind
<1>5. TailBehind' = TailBehind
  BY <1>3 DEF TailBehind
<1>6. ConsumerOK'
  BY <1>r, <1>1, <1>2 DEF Quiet, OthersKeep, ListsIInv, ConsumerOK
<1>7. RecyclerOK'
  BY <1>r, <1>1, <1>2 DEF Quiet, OthersKeep, ListsIInv, RecyclerOK
<1>8. \A w \in Putters : ProducerOK(w)'
  <2>1. ASSUME NEW w \in Putters, w # t PROVE ProducerOK(w)'
    <3>1. /\ pc'[w] = pc[w] /\ node'[w] = node[w] /\ arg'[w] = arg[w] /\ tl'[w] = tl[w]
          /\ elapsed'[w] = elapsed[w]
      BY <1>r, <2>1 DEF OthersKeep
    <3>2. ProducerOK(w)
      BY DEF ListsIInv
    <3>3. ASSUME NEW n PROVE Seen(n, w) <=> Seen(n, w)'
      BY <1>1, <1>2, <1>4, <1>5, <3>1 DEF Seen
    <3> QED
      BY <1>1, <1>2, <3>1, <3>2, <3>3 DEF ProducerOK
  <2>2. ASSUME t \in Putters PROVE ProducerOK(t)'
    BY <1>r, <2>2 DEF Quiet
  <2> QED
    BY <2>1, <2>2
<1>9. OneLinks'
  BY <1>3 DEF ListsIInv, OneLinks
<1>10. ChainOK' /\ ListOK'
  BY <1>1, <1>2, <1>4, <1>5 DEF ListsIInv, ChainOK, ListOK
<1>11. FreeModeOK'
  <2>1. \A u \in Threads : /\ pc'[u] \in Freeing <=> pc[u] \in Freeing
                           /\ pc[u] \in Freeing => fr'[u] = fr[u]
    BY DEF Quiet, OthersKeep
  <2> QED
    BY <1>1, <1>2, <2>1 DEF ListsIInv, FreeModeOK
<1>12. ApartOK'
  BY <1>1, <1>2, <1>3, <1>4 DEF ListsIInv, ApartOK
<1>13. CoveredOK'
  BY <1>1, <1>2, <1>3, <1>4 DEF ListsIInv, CoveredOK
<1> QED
  BY <1>6, <1>7, <1>8, <1>9, <1>10, <1>11, <1>12, <1>13 DEF Shape

\* The lists and the nodes stay as they are.
LEMMA SameEnds ==
    ASSUME ListsSame
    PROVE  /\ next' = next /\ value' = value /\ nextfree' = nextfree /\ age' = age
           /\ head' = head /\ tail' = tail /\ move_free' = move_free /\ expired' = expired
           /\ Q' = Q /\ R' = R /\ InQ' = InQ /\ InR' = InR
BY DEF ListsSame, mem, recycling, Q, R, InQ, InR, InChain, InRecycled

\* A thread that is in no list's way before and after.
LEMMA TestElsewhere ==
    ASSUME ListsSame, NEW t \in Threads,
           pc[t] \in {"idle", "e_size", "d_head", "d_next", "d_tail", "d_value", "d_size", "c_enter"},
           pc'[t] \in {"idle", "e_size", "d_size", "c_enter", "d_head"}
    PROVE  Quiet(t)
BY DEF Quiet, Unlisted, Untimed, MoveBehind, Hand, ConsumerOK, RecyclerOK, ProducerOK, Freeing,
       RecycleLabels

\* A putter loads the tail, fails to link behind it, or counts; or has no node.
LEMMA PutQuiet ==
    ASSUME ListsIInv, NEW t \in Threads \ {Taker}, OthersKeep(t),
           \/ EnqLoadTail(t) \/ EnqSize(t) \/ (EnqLink(t) /\ next[tl[t]] # Null)
           \/ \E v \in Values : Enqueue(t, myq, v) /\ pool' = pool
    PROVE  Quiet(t)
<1>w. t \in Putters /\ ProducerOK(t) /\ TypeOK /\ CallOK(t)
  BY TestRoles DEF ListsIInv, CallsOK
<1> USE LocalTypes DEF Goto, locals
<1>1. CASE EnqLoadTail(t)
  <2>1. ListsSame
    BY <1>1 DEF EnqLoadTail, ListsSame, queues, time, history
  <2>2. /\ pc[t] = "e_tail" /\ pc'[t] = "e_link" /\ node'[t] = node[t] /\ arg'[t] = arg[t]
        /\ tl'[t] = tail[on[t]] /\ on[t] = myq
    BY <1>1, <1>w DEF EnqLoadTail, CallOK
  <2>3. TailBehind' = TailBehind
    BY <2>2, TestRoles DEF OthersKeep, TailBehind
  <2>4. Seen(tail[myq], t)'
    BY <2>1, <2>3, SameEnds, ListFacts DEF Seen
  <2>5. tail[myq] \in Nodes
    BY <1>w, OneQueue
  <2>6. ProducerOK(t)'
    BY <1>w, <2>1, <2>2, <2>4, <2>5, SameEnds DEF ProducerOK
  <2> QED
    BY <2>1, <2>2, <2>6 DEF Quiet, Hand, Freeing
<1>2. CASE EnqSize(t)
  <2>1. ListsSame /\ pc[t] = "e_size" /\ pc'[t] = "idle"
    BY <1>2, <1>w DEF EnqSize, ListsSame, history, Return
  <2> QED
    BY <2>1, TestElsewhere
<1>3. CASE EnqLink(t) /\ next[tl[t]] # Null
  <2>1. ListsSame
    BY <1>3 DEF EnqLink, ListsSame, queues, time, history, mem
  <2>2. /\ pc[t] = "e_link" /\ pc'[t] = "e_tail" /\ node'[t] = node[t] /\ arg'[t] = arg[t]
    BY <1>3, <1>w DEF EnqLink
  <2>3. ProducerOK(t)'
    BY <1>w, <2>1, <2>2, SameEnds DEF ProducerOK
  <2> QED
    BY <2>1, <2>2, <2>3 DEF Quiet, Hand, Freeing
<1>4. ASSUME NEW v \in Values, Enqueue(t, myq, v), pool' = pool PROVE Quiet(t)
  <2>1. pc[t] = "idle" /\ pc'[t] = "e_size"
    BY <1>4, <1>w DEF Enqueue
  <2>2. ListsSame
    BY <1>4 DEF Enqueue, ListsSame, queues, time, history
  <2> QED
    BY <2>1, <2>2, TestElsewhere
<1> QED
  BY <1>1, <1>2, <1>3, <1>4

\* The taker loads, tests and counts.
LEMMA TakeQuiet ==
    ASSUME ListsIInv,
           \/ Dequeue(Taker, myq) \/ DeqLoadHead(Taker) \/ DeqLoadNext(Taker)
           \/ DeqTestTail(Taker) \/ DeqValue(Taker) \/ DeqSize(Taker) \/ RecycleLoad(Taker)
    PROVE  Quiet(Taker)
<1>w. Taker \in Threads /\ TypeOK /\ CallOK(Taker) /\ ConsumerOK /\ RecyclerOK /\ ChainOK
  BY TestRoles DEF ListsIInv, CallsOK
<1> USE LocalTypes DEF Goto, locals
<1>1. CASE Dequeue(Taker, myq)
  <2>1. ListsSame /\ pc[Taker] = "idle" /\ pc'[Taker] = "d_head"
    BY <1>1, <1>w DEF Dequeue, ListsSame, queues, time, history
  <2> QED
    BY <1>w, <2>1, TestElsewhere
<1>2. CASE DeqLoadHead(Taker)
  <2>1. ListsSame
    BY <1>2 DEF DeqLoadHead, ListsSame, queues, time, history
  <2>2. pc[Taker] = "d_head" /\ pc'[Taker] = "d_next" /\ hd'[Taker] = head[on[Taker]] /\ on[Taker] = myq
    BY <1>2, <1>w DEF DeqLoadHead, CallOK
  <2>3. ConsumerOK' /\ RecyclerOK'
    BY <2>1, <2>2, SameEnds DEF ConsumerOK, RecyclerOK, RecycleLabels
  <2> QED
    BY <2>1, <2>2, <2>3 DEF Quiet, Freeing, Unlisted, Untimed, MoveBehind
<1>3. CASE DeqLoadNext(Taker)
  <2>1. ListsSame
    BY <1>3 DEF DeqLoadNext, ListsSame, queues, time, history
  <2>2. pc[Taker] = "d_next" /\ pc'[Taker] = "d_tail" /\ hd'[Taker] = hd[Taker]
        /\ nx'[Taker] = next[hd[Taker]]
    BY <1>3, <1>w DEF DeqLoadNext
  <2>3. hd[Taker] = Q[1]
    BY <1>w, <2>2 DEF ConsumerOK, ChainOK
  <2>4. next[Q[1]] = Null \/ (Len(Q) > 1 /\ next[Q[1]] = Q[2])
    <3>1. CASE Len(Q) = 1
      BY <1>w, <3>1, ListFacts
    <3>2. CASE Len(Q) > 1
      <4>1. 1 \in 1 .. Len(Q) - 1
        BY <1>w, <3>2, OneQueue
      <4> QED
        BY <1>w, <3>2, <4>1 DEF ChainOK
    <3> QED
      BY <1>w, <3>1, <3>2, OneQueue, OneOrMore, ListFacts
  <2>5. ConsumerOK' /\ RecyclerOK'
    BY <1>w, <2>1, <2>2, <2>3, <2>4, SameEnds DEF ConsumerOK, RecyclerOK, RecycleLabels
  <2> QED
    BY <2>1, <2>2, <2>5 DEF Quiet, Freeing, Unlisted, Untimed, MoveBehind
<1>4. CASE DeqTestTail(Taker)
  <2>1. pc[Taker] = "d_tail" /\ kind[Taker] = "deq" /\ on[Taker] = myq
    BY <1>4, <1>w DEF DeqTestTail, CallOK
  <2>2. ListsSame
    BY <1>4, <2>1 DEF DeqTestTail, DeqEmpty, ListsSame, queues, time, history
  <2>3. CASE pc'[Taker] \in {"d_head", "c_enter"}
    BY <1>w, <2>1, <2>2, <2>3, TestElsewhere
  <2>4. CASE pc'[Taker] = "d_value"
    <3>1. nx[Taker] # Null /\ tail[on[Taker]] # hd[Taker] /\ nx'[Taker] = nx[Taker]
          /\ hd'[Taker] = hd[Taker]
      BY <1>4, <1>w, <2>1, <2>4 DEF DeqTestTail, DeqEmpty
    <3>2. ConsumerOK' /\ RecyclerOK'
      BY <1>w, <2>1, <2>2, <2>4, <3>1, SameEnds DEF ConsumerOK, RecyclerOK, RecycleLabels
    <3> QED
      BY <2>1, <2>2, <2>4, <3>2 DEF Quiet, Freeing, Unlisted, Untimed, MoveBehind
  <2> QED
    BY <1>4, <1>w, <2>1, <2>3, <2>4 DEF DeqTestTail, DeqEmpty
<1>5. CASE DeqValue(Taker)
  <2>1. ListsSame
    BY <1>5 DEF DeqValue, ListsSame, queues, time, history
  <2>2. /\ pc[Taker] = "d_value" /\ pc'[Taker] = "d_take" /\ hd'[Taker] = hd[Taker]
        /\ nx'[Taker] = nx[Taker] /\ val'[Taker] = value[nx[Taker]]
    BY <1>5, <1>w DEF DeqValue
  <2>3. ConsumerOK' /\ RecyclerOK'
    BY <1>w, <2>1, <2>2, SameEnds DEF ConsumerOK, RecyclerOK, RecycleLabels
  <2> QED
    BY <2>1, <2>2, <2>3 DEF Quiet, Freeing, Unlisted, Untimed, MoveBehind
<1>6. CASE DeqSize(Taker)
  <2>1. ListsSame /\ pc[Taker] = "d_size" /\ pc'[Taker] = "idle"
    BY <1>6, <1>w DEF DeqSize, ListsSame, history, Return
  <2> QED
    BY <1>w, <2>1, TestElsewhere
<1>7. CASE RecycleLoad(Taker)
  <2>1. ListsSame
    BY <1>7 DEF RecycleLoad, ListsSame, queues, time, history
  <2>2. /\ pc[Taker] = "r_load" /\ pc'[Taker] = "r_link" /\ hd'[Taker] = hd[Taker]
        /\ fr'[Taker] = move_free[on[Taker]] /\ on[Taker] = myq
    BY <1>7, <1>w DEF RecycleLoad, CallOK
  <2>3. ConsumerOK' /\ RecyclerOK'
    BY <1>w, <2>1, <2>2, SameEnds DEF ConsumerOK, RecyclerOK, RecycleLabels
  <2> QED
    BY <2>1, <2>2, <2>3 DEF Quiet, Freeing, Unlisted, Untimed, MoveBehind
<1> QED
  BY <1>1, <1>2, <1>3, <1>4, <1>5, <1>6, <1>7

\* A thread finds the list in free mode, or looks no further.
LEMMA FreeQuiet ==
    ASSUME ListsIInv, NEW t \in Threads,
           \/ CheckEnter(t) /\ in_free_mode[myq]
           \/ CheckStep(t) /\ pool' = pool /\ fr' = fr
    PROVE  Quiet(t)
<1>w. TypeOK /\ CallOK(t)
  BY DEF ListsIInv, CallsOK
<1> USE LocalTypes DEF Goto, locals
<1>1. CASE CheckEnter(t) /\ in_free_mode[myq]
  <2>1. pc[t] = "c_enter" /\ on[t] = myq /\ CheckDone(t) /\ UNCHANGED <<in_free_mode, expired>>
    BY <1>1, <1>w DEF CheckEnter, CallOK
  <2>2. pc'[t] \in {"e_size", "d_size", "idle"} /\ age' = age
    BY <1>w, <2>1 DEF CheckDone, Return, time
  <2>3. ListsSame
    BY <1>1, <2>1, <2>2 DEF CheckEnter, ListsSame, queues, history, recycling
  <2> QED
    BY <2>1, <2>2, <2>3, TestElsewhere
<1>2. CASE CheckStep(t) /\ pool' = pool /\ fr' = fr
  <2>1. pc[t] = "c_step" /\ on[t] = myq
    BY <1>2, <1>w DEF CheckStep, FreeNext, CallOK
  <2>2. recycled' = recycled /\ pc'[t] \in {"c_step", "c_exit"}
    <3>1. CASE Goto(t, "c_exit") /\ UNCHANGED recycled
      BY <1>w, <3>1
    <3>2. CASE fr[t] # Null /\ fr' = [fr EXCEPT ![t] = nextfree[fr[t]]]
               /\ fr[t] # move_free[on[t]] /\ pool' = pool \cup {fr[t]}
      <4>1. fr[t] \in pool
        BY <1>2, <3>2
      <4>2. fr[t] = R[1]
        BY <2>1 DEF ListsIInv, FreeModeOK, Freeing
      <4> QED
        BY <4>1, <4>2, ListFacts DEF ListsIInv, ApartOK
    <3> QED
      BY <1>2, <3>1, <3>2 DEF CheckStep, FreeNext
  <2>3. ListsSame
    BY <1>2, <2>2 DEF CheckStep, FreeNext, ListsSame, queues, time, history
  <2>4. /\ t = Taker => ConsumerOK' /\ RecyclerOK'
        /\ t # Taker => ProducerOK(t)'
    BY <2>2 DEF ConsumerOK, RecyclerOK, ProducerOK, RecycleLabels
  <2>5. /\ t = Taker => Unlisted' = Unlisted /\ Untimed' = Untimed /\ MoveBehind' = MoveBehind
        /\ Hand(t)' = Hand(t) /\ (pc'[t] = "e_swing" <=> pc[t] = "e_swing")
    BY <2>1, <2>2 DEF Unlisted, Untimed, MoveBehind, Hand
  <2> QED
    BY <1>2, <2>1, <2>2, <2>3, <2>4, <2>5 DEF Quiet, Freeing
<1> QED
  BY <1>1, <1>2

-----------------------------------------------------------------------------
(* lfqueue_enq. *)

\* What a putter does to the queue is nothing to the recycle list.
LEMMA PutKeepsList ==
    ASSUME ListsIInv, NEW t \in Putters, OthersKeep(t),
           UNCHANGED <<recycling, age, recycled>>, pc[t] \notin Freeing, pc'[t] \notin Freeing,
           \A n \in InR \cup Unlisted :
              nextfree'[n] = nextfree[n] /\ (next[n] # Null => next'[n] # Null)
    PROVE  /\ R' = R /\ InR' = InR /\ Unlisted' = Unlisted /\ Untimed' = Untimed
           /\ ListOK' /\ FreeModeOK' /\ RecyclerOK'
<1>r. Threads = Putters \cup {Taker} /\ Taker \notin Putters /\ t # Taker
  BY TestRoles
<1>1. /\ root_free' = root_free /\ move_free' = move_free /\ in_free_mode' = in_free_mode
      /\ expired' = expired /\ R' = R /\ InR' = InR
  BY DEF recycling, R, InR, InRecycled
<1>2. pc'[Taker] = pc[Taker] /\ hd'[Taker] = hd[Taker] /\ fr'[Taker] = fr[Taker]
  BY <1>r DEF OthersKeep
<1>3. Unlisted' = Unlisted /\ Untimed' = Untimed /\ MoveBehind' = MoveBehind
  BY <1>2 DEF Unlisted, Untimed, MoveBehind
<1>4. /\ \A i \in 1 .. Len(R) : nextfree'[R[i]] = nextfree[R[i]]
      /\ nextfree'[Last(R)] = nextfree[Last(R)]
  BY OneQueue, ListFacts DEF ListsIInv
<1>5. ListOK'
  BY <1>1, <1>3, <1>4, OneQueue DEF ListOK, ListsIInv
<1>6. \A u \in Threads : /\ pc'[u] \in Freeing <=> pc[u] \in Freeing
                         /\ pc[u] \in Freeing => fr'[u] = fr[u]
  BY DEF OthersKeep
<1>7. FreeModeOK'
  BY <1>1, <1>6 DEF ListsIInv, FreeModeOK
<1>8. RecyclerOK'
  BY <1>1, <1>2 DEF ListsIInv, RecyclerOK, Unlisted
<1> QED
  BY <1>1, <1>3, <1>5, <1>7, <1>8

\* Nor to what another putter has in hand.
LEMMA PutKeepsOthers ==
    ASSUME ListsIInv, NEW t \in Putters, OthersKeep(t), NEW w \in Putters \ {t},
           \A n \in Hand(w) :
              value'[n] = value[n] /\ next'[n] = next[n] /\ nextfree'[n] = nextfree[n],
           \A n \in Nodes : Seen(n, w) => Seen(n, w)',
           pc[w] = "e_swing" => tail'[myq] = tail[myq] /\ Last(Q)' = Last(Q)
    PROVE  ProducerOK(w)' /\ Hand(w)' = Hand(w)
<1>1. /\ pc'[w] = pc[w] /\ node'[w] = node[w] /\ arg'[w] = arg[w] /\ tl'[w] = tl[w]
  BY TestRoles DEF OthersKeep
<1>2. ProducerOK(w)
  BY DEF ListsIInv
<1>3. pc[w] \in {"e_tail", "e_link"} => node[w] \in Hand(w)
  BY DEF Hand
<1> QED
  BY <1>1, <1>2, <1>3 DEF ProducerOK, Hand

\* A node that is looked at is no putter's own, nor in the pool.
LEMMA SeenOut ==
    ASSUME ListsIInv, NEW w \in Putters, NEW n \in Nodes, Seen(n, w)
    PROVE  n \in InQ \cup InR \cup Unlisted
<1>1. Untimed \subseteq InR
  BY ListFacts DEF Untimed, ListsIInv, RecyclerOK
<1> QED
  BY <1>1 DEF Seen

\* lfqueue_enq gets a node.
LEMMA TestEnqueue ==
    ASSUME ListsIInv, TypeOK', NEW t \in Putters, OthersKeep(t),
           NEW v \in Values, Enqueue(t, myq, v), pool' # pool
    PROVE  Shape'
<1>1. PICK n \in pool : /\ pool' = pool \ {n} /\ node' = [node EXCEPT ![t] = n]
                        /\ arg' = [arg EXCEPT ![t] = v] /\ Goto(t, "e_init")
  BY DEF Enqueue
<1>t. TypeOK /\ t \in Threads /\ t # Taker /\ Taker \in Threads /\ Threads = Putters \cup {Taker}
  BY TestRoles DEF ListsIInv
<1>2. /\ pc[t] = "idle" /\ pc'[t] = "e_init" /\ node'[t] = n /\ n \in Nodes
      /\ next' = next /\ value' = value /\ nextfree' = nextfree /\ head' = head /\ tail' = tail
      /\ chain' = chain /\ UNCHANGED <<recycling, age, recycled>> /\ expired' = expired
  BY <1>t, <1>1, OneQueue, LocalTypes DEF Enqueue, Goto, mem, queues, time, history, recycling
<1>3. Q' = Q /\ InQ' = InQ
  BY <1>2 DEF Q, InQ, InChain
<1>4. /\ R' = R /\ InR' = InR /\ Unlisted' = Unlisted /\ Untimed' = Untimed
      /\ ListOK' /\ FreeModeOK' /\ RecyclerOK'
  BY <1>2, PutKeepsList DEF Freeing
<1>5. TailBehind' = TailBehind
  BY <1>t, <1>2 DEF TailBehind, OthersKeep
<1>6. \A w \in Putters \ {t} : ProducerOK(w)' /\ Hand(w)' = Hand(w)
  <2>1. ASSUME NEW w \in Putters \ {t}, NEW m PROVE Seen(m, w) => Seen(m, w)'
    BY <1>t, <1>2, <1>3, <1>4, <1>5 DEF Seen, OthersKeep
  <2> QED
    BY <1>2, <1>3, <2>1, PutKeepsOthers
<1>7. ProducerOK(t)' /\ Hand(t)' = {n}
  BY <1>2 DEF ProducerOK, Hand
<1>8. OneLinks'
  BY <1>t, <1>2 DEF OneLinks, OthersKeep, ListsIInv
<1>9. ConsumerOK'
  BY <1>t, <1>2, <1>3 DEF ConsumerOK, OthersKeep, ListsIInv
<1>10. ChainOK'
  BY <1>2, <1>3, <1>5 DEF ChainOK, ListsIInv
<1>11. n \notin InQ \cup InR \cup Unlisted /\ \A w \in Putters \ {t} : n \notin Hand(w)
  BY <1>1 DEF ListsIInv, ApartOK
<1>12. ApartOK'
  BY <1>1, <1>3, <1>4, <1>6, <1>7, <1>11 DEF ApartOK, ListsIInv
<1>13. CoveredOK'
  <2>1. Hand(t) = {}
    BY <1>2 DEF Hand
  <2> QED
    BY <1>1, <1>3, <1>4, <1>6, <1>7, <2>1 DEF CoveredOK, ListsIInv
<1> QED
  BY <1>4, <1>6, <1>7, <1>8, <1>9, <1>10, <1>12, <1>13 DEF Shape

\* It fills the node in before anybody else can see it.
LEMMA TestEnqInit ==
    ASSUME ListsIInv, TypeOK', NEW t \in Putters, OthersKeep(t), EnqInit(t)
    PROVE  Shape'
<1>t. TypeOK /\ t \in Threads /\ t # Taker /\ Taker \in Threads /\ Threads = Putters \cup {Taker}
  BY TestRoles DEF ListsIInv
<1> DEFINE n == node[t]
<1>2. /\ pc[t] = "e_init" /\ pc'[t] = "e_tail" /\ node'[t] = n /\ n \in Nodes
      /\ arg'[t] = arg[t] /\ head' = head /\ tail' = tail
      /\ chain' = chain /\ UNCHANGED <<recycling, age, recycled>> /\ expired' = expired
      /\ pool' = pool
  BY <1>t, AtLabel, LocalTypes DEF EnqInit, Goto, queues, time, history, recycling, locals
<1>1. /\ next' = [next EXCEPT ![n] = Null] /\ nextfree' = [nextfree EXCEPT ![n] = Null]
      /\ value' = [value EXCEPT ![n] = arg[t]]
  BY DEF EnqInit
<1>3. Q' = Q /\ InQ' = InQ
  BY <1>2 DEF Q, InQ, InChain
<1>h. Hand(t) = {n} /\ Hand(t)' = {n}
  BY <1>2 DEF Hand
<1>11. /\ n \notin InQ \cup InR \cup Unlisted \cup pool
       /\ \A w \in Putters \ {t} : n \notin Hand(w)
  BY <1>h DEF ListsIInv, ApartOK
<1>12. \A m : m # n => next'[m] = next[m] /\ nextfree'[m] = nextfree[m] /\ value'[m] = value[m]
  <2>1. DOMAIN next = Nodes /\ DOMAIN nextfree = Nodes /\ DOMAIN value = Nodes
        /\ DOMAIN next' = Nodes /\ DOMAIN nextfree' = Nodes /\ DOMAIN value' = Nodes
    BY <1>t, TypeOK' DEF TypeOK
  <2> QED
    BY <1>1, <2>1
<1>4. /\ R' = R /\ InR' = InR /\ Unlisted' = Unlisted /\ Untimed' = Untimed
      /\ ListOK' /\ FreeModeOK' /\ RecyclerOK'
  BY <1>2, <1>11, <1>12, PutKeepsList DEF Freeing
<1>5. TailBehind' = TailBehind
  BY <1>t, <1>2 DEF TailBehind, OthersKeep
<1>6. \A w \in Putters \ {t} : ProducerOK(w)' /\ Hand(w)' = Hand(w)
  <2>1. ASSUME NEW w \in Putters \ {t}, NEW m \in Nodes, Seen(m, w) PROVE Seen(m, w)'
    <3>1. m # n
      BY <1>11, <2>1, SeenOut
    <3> QED
      BY <1>t, <1>2, <1>3, <1>4, <1>5, <1>12, <2>1, <3>1 DEF Seen, OthersKeep
  <2> QED
    BY <1>2, <1>3, <1>11, <1>12, <2>1, PutKeepsOthers
<1>7. ProducerOK(t)'
  BY <1>t, <1>1, <1>2 DEF ProducerOK, TypeOK
<1>8. OneLinks'
  BY <1>t, <1>2 DEF OneLinks, OthersKeep, ListsIInv
<1>q. /\ \A i \in 1 .. Len(Q) : Q[i] # n
      /\ Last(Q) # n
  BY <1>t, <1>11, OneQueue, ListFacts
<1>9. ConsumerOK'
  <2>1. /\ pc'[Taker] = pc[Taker] /\ hd'[Taker] = hd[Taker] /\ nx'[Taker] = nx[Taker]
        /\ val'[Taker] = val[Taker]
    BY <1>t DEF OthersKeep
  <2>2. Len(Q) > 1 => Q[2] # n
    BY <1>t, <1>q, OneQueue
  <2>3. ConsumerOK
    BY DEF ListsIInv
  <2> QED
    BY <1>2, <1>3, <1>12, <2>1, <2>2, <2>3 DEF ConsumerOK
<1>10. ChainOK'
  <2>1. ChainOK /\ Len(Q) \in Nat
    BY <1>t, OneQueue DEF ListsIInv
  <2>2. \A i \in 1 .. Len(Q) - 1 : next'[Q[i]] = Q[i + 1]
    BY <1>12, <1>q, <2>1 DEF ChainOK
  <2>3. \A i \in 1 .. Len(Q) : nextfree'[Q[i]] = Null
    BY <1>12, <1>q, <2>1 DEF ChainOK
  <2>4. \A i \in 2 .. Len(Q) : value'[Q[i]] \in Values
    BY <1>12, <1>q, <2>1 DEF ChainOK
  <2>5. next'[Last(Q)] = Null /\ Last(Q)' = Last(Q)
    BY <1>3, <1>12, <1>q, <2>1 DEF ChainOK
  <2> QED
    BY <1>2, <1>3, <1>5, <2>1, <2>2, <2>3, <2>4, <2>5 DEF ChainOK
<1>13. \A w \in Putters : Hand(w)' = Hand(w)
  BY <1>6, <1>h
<1>14. ApartOK' /\ CoveredOK'
  BY <1>2, <1>3, <1>4, <1>13 DEF ApartOK, CoveredOK, ListsIInv
<1> QED
  BY <1>4, <1>6, <1>7, <1>8, <1>9, <1>10, <1>14 DEF Shape

\* A node of the queue with nothing behind it is the last.
LEMMA OnlyLast ==
    ASSUME ListsIInv, NEW n \in InQ, next[n] = Null
    PROVE  n = Last(Q)
<1>1. PICK i \in 1 .. Len(Q) : n = Q[i]
  BY DEF InQ, InChain, Elements, Q
<1>2. Len(Q) \in Nat /\ Len(Q) > 0 /\ Last(Q) = Q[Len(Q)]
  BY OneQueue, ListFacts DEF ListsIInv
<1>3. \A j \in 1 .. Len(Q) - 1 : next[Q[j]] = Q[j + 1]
  BY DEF ListsIInv, ChainOK
<1>4. \A j \in 1 .. Len(Q) - 1 : next[Q[j]] \in Nodes
  BY <1>2, <1>3, OneQueue DEF ListsIInv
<1>5. i \notin 1 .. Len(Q) - 1
  BY <1>1, <1>4, ListFacts
<1> QED
  BY <1>1, <1>2, <1>5

\* lfqueue_enq links its node behind the last one, whatever it last saw of it.
LEMMA TestEnqLink ==
    ASSUME ListsIInv, TypeOK', NEW t \in Putters, OthersKeep(t), EnqLink(t), next[tl[t]] = Null
    PROVE  Shape'
<1>t. TypeOK /\ t \in Threads /\ t # Taker /\ Taker \in Threads /\ Threads = Putters \cup {Taker}
      /\ Null \notin Nodes
  BY TestRoles, NodesAssumption DEF ListsIInv
<1> DEFINE n == node[t]
<1>p. ProducerOK(t) /\ CallOK(t)
  BY <1>t DEF ListsIInv, CallsOK
<1>2. /\ pc[t] = "e_link" /\ pc'[t] = "e_swing" /\ node'[t] = n /\ n \in Nodes /\ on[t] = myq
      /\ tl'[t] = tl[t] /\ tl[t] \in Nodes /\ arg[t] \in Values
      /\ head' = head /\ tail' = tail /\ value' = value /\ nextfree' = nextfree
      /\ UNCHANGED <<recycling, age, recycled>> /\ expired' = expired
      /\ pool' = pool
  BY <1>t, <1>p, AtLabel, LocalTypes
     DEF EnqLink, Goto, queues, time, recycling, locals, ProducerOK, CallOK
<1>1. /\ next' = [next EXCEPT ![tl[t]] = n]
      /\ chain' = [chain EXCEPT ![myq] = Linked(@, tl[t], n)]
  BY <1>2 DEF EnqLink
<1>3. Seen(tl[t], t) /\ value[n] = arg[t] /\ next[n] = Null /\ nextfree[n] = Null
  BY <1>p, <1>2 DEF ProducerOK
<1>4. tl[t] \in InQ /\ (TailBehind => tl[t] # Last(Q))
  BY <1>3 DEF Seen
<1>5. tl[t] = Last(Q) /\ ~TailBehind
  BY <1>4, OnlyLast
<1>6. tail[myq] = Last(Q) /\ ChainOK
  BY <1>5 DEF ListsIInv, ChainOK
<1>7. Longer(Q', Q, n)
  <2>1. Q' = Append(Q, n)
    BY <1>t, <1>1, <1>5, ListFacts, OneQueue DEF Q, Linked
  <2> QED
    BY <1>t, <1>2, <2>1, OneQueue, ListFacts, Lengthened
<1>8. /\ Len(Q') = Len(Q) + 1 /\ \A i \in 1 .. Len(Q) : Q'[i] = Q[i]
      /\ Q'[Len(Q) + 1] = n /\ Last(Q)' = n /\ InQ' = InQ \cup {n}
  BY <1>7 DEF Longer, InQ, InChain, Q, Last
<1>9. Len(Q) \in Nat /\ Len(Q) > 0
  BY <1>t, OneQueue, ListFacts
<1>h. Hand(t) = {n} /\ Hand(t)' = {}
  BY <1>2 DEF Hand
<1>11. /\ n \notin InQ \cup InR \cup Unlisted \cup pool
       /\ \A w \in Putters \ {t} : n \notin Hand(w)
  BY <1>h DEF ListsIInv, ApartOK
<1>12. /\ next'[tl[t]] = n /\ n # tl[t] /\ next'[n] = Null
       /\ \A m \in Nodes : m # tl[t] => next'[m] = next[m]
  BY <1>t, <1>1, <1>2, <1>3, <1>4, <1>11 DEF TypeOK
<1>13. /\ R' = R /\ InR' = InR /\ Unlisted' = Unlisted /\ Untimed' = Untimed
       /\ ListOK' /\ FreeModeOK' /\ RecyclerOK'
  <2>1. InR \cup Unlisted \subseteq Nodes
    BY <1>t, OneQueue DEF Unlisted, ListsIInv, RecyclerOK, RecycleLabels
  <2> QED
    BY <1>t, <1>2, <1>12, <2>1, PutKeepsList DEF Freeing
<1>14. TailBehind'
  BY <1>2 DEF TailBehind
<1>15. \A w \in Putters \ {t} : pc[w] # "e_swing" /\ pc'[w] = pc[w]
  BY <1>t, <1>5 DEF TailBehind, OthersKeep
<1>16. \A w \in Putters \ {t} : ProducerOK(w)' /\ Hand(w)' = Hand(w)
  <2>1. ASSUME NEW w \in Putters \ {t}, NEW m \in Nodes, Seen(m, w) PROVE Seen(m, w)'
    <3>1. CASE m \in InQ
      BY <1>8, <1>11, <3>1 DEF Seen
    <3>2. CASE m \notin InQ
      <4>1. next'[m] # Null
        BY <1>4, <1>12, <2>1, <3>2 DEF Seen
      <4>2. elapsed'[w] = elapsed[w]
        BY <1>t DEF OthersKeep
      <4> QED
        BY <1>2, <1>13, <2>1, <3>2, <4>1, <4>2 DEF Seen
    <3> QED
      BY <3>1, <3>2
  <2>2. ASSUME NEW w \in Putters \ {t}, NEW m \in Hand(w) PROVE next'[m] = next[m]
    <3>1. m \notin InQ /\ m \in Nodes
      BY <2>2 DEF ListsIInv, ApartOK, Hand, ProducerOK
    <3> QED
      BY <1>4, <1>12, <3>1
  <2> QED
    BY <1>2, <1>15, <2>1, <2>2, PutKeepsOthers
<1>17. ProducerOK(t)'
  BY <1>2, <1>5, <1>6, <1>8 DEF ProducerOK
<1>18. OneLinks'
  BY <1>15 DEF OneLinks
<1>19. ConsumerOK'
  <2>1. /\ pc'[Taker] = pc[Taker] /\ hd'[Taker] = hd[Taker] /\ nx'[Taker] = nx[Taker]
        /\ val'[Taker] = val[Taker]
    BY <1>t DEF OthersKeep
  <2>2. Len(Q') > 1 /\ (Len(Q) > 1 => Q'[2] = Q[2])
    BY <1>8, <1>9
  <2>3. ConsumerOK
    BY DEF ListsIInv
  <2> QED
    BY <1>2, <2>1, <2>2, <2>3 DEF ConsumerOK
<1>20. ChainOK'
  <2>1. \A i \in 1 .. Len(Q) : Q[i] \in Nodes
    BY <1>t, OneQueue
  <2>2. ASSUME NEW i \in 1 .. Len(Q') - 1 PROVE next'[Q'[i]] = Q'[i + 1]
    <3>1. CASE i = Len(Q)
      BY <1>5, <1>8, <1>9, <1>12, <3>1 DEF Last
    <3>2. CASE i # Len(Q)
      <4>1. i \in 1 .. Len(Q) - 1 /\ Len(Q) \in 1 .. Len(Q) /\ i \in 1 .. Len(Q)
            /\ i + 1 \in 1 .. Len(Q)
        BY <1>8, <1>9, <2>2, <3>2
      <4>2. Q[i] # Last(Q)
        BY <3>2, <4>1 DEF ListsIInv, ApartOK, Last
      <4> QED
        BY <1>5, <1>6, <1>8, <1>12, <2>1, <4>1, <4>2 DEF ChainOK
    <3> QED
      BY <3>1, <3>2
  <2>3. ASSUME NEW i \in 1 .. Len(Q') PROVE nextfree'[Q'[i]] = Null
    <3>1. i \in 1 .. Len(Q) \/ i = Len(Q) + 1
      BY <1>8, <1>9
    <3> QED
      BY <1>2, <1>3, <1>6, <1>8, <3>1 DEF ChainOK
  <2>4. ASSUME NEW i \in 2 .. Len(Q') PROVE value'[Q'[i]] \in Values
    <3>1. (i \in 2 .. Len(Q) /\ i \in 1 .. Len(Q)) \/ i = Len(Q) + 1
      BY <1>8, <1>9
    <3> QED
      BY <1>2, <1>3, <1>6, <1>8, <3>1 DEF ChainOK
  <2>5. Len(Q') > 1 /\ tail'[myq] = Q'[Len(Q') - 1] /\ head'[myq] = Q'[1]
    BY <1>2, <1>6, <1>8, <1>9 DEF Last, ChainOK
  <2> QED
    BY <1>8, <1>12, <1>14, <2>2, <2>3, <2>4, <2>5 DEF ChainOK
<1>21. ApartOK'
  <2>1. ASSUME NEW i \in 1 .. Len(Q'), NEW j \in 1 .. Len(Q'), Q'[i] = Q'[j] PROVE i = j
    <3>1. \A k \in 1 .. Len(Q) : Q'[k] \in InQ
      BY <1>t, <1>8, OneQueue
    <3>2. (i \in 1 .. Len(Q) \/ i = Len(Q) + 1) /\ (j \in 1 .. Len(Q) \/ j = Len(Q) + 1)
      BY <1>8, <1>9
    <3> QED
      BY <1>8, <1>11, <2>1, <3>1, <3>2 DEF ListsIInv, ApartOK
  <2> QED
    BY <1>2, <1>8, <1>h, <1>11, <1>13, <1>16, <2>1 DEF ApartOK, ListsIInv
<1>22. CoveredOK'
  BY <1>2, <1>8, <1>h, <1>13, <1>16 DEF CoveredOK, ListsIInv
<1> QED
  BY <1>13, <1>16, <1>17, <1>18, <1>19, <1>20, <1>21, <1>22 DEF Shape

\* And moves tail, which nobody else has moved.
LEMMA TestEnqSwing ==
    ASSUME ListsIInv, TypeOK', NEW t \in Putters, OthersKeep(t), EnqSwing(t)
    PROVE  Shape'
<1>t. TypeOK /\ t \in Threads /\ t # Taker /\ Taker \in Threads /\ Threads = Putters \cup {Taker}
  BY TestRoles DEF ListsIInv
<1>p. ProducerOK(t) /\ CallOK(t)
  BY <1>t DEF ListsIInv, CallsOK
<1>2. /\ pc[t] = "e_swing" /\ pc'[t] \in {"c_enter", "e_size"} /\ on[t] = myq
      /\ next' = next /\ value' = value /\ nextfree' = nextfree /\ head' = head
      /\ chain' = chain /\ UNCHANGED <<recycling, age, recycled>> /\ expired' = expired
      /\ pool' = pool
  BY <1>t, <1>p, LocalTypes
     DEF EnqSwing, Goto, AfterSwing, mem, time, recycling, history, CallOK
<1>3. tl[t] = tail[myq] /\ node[t] = Last(Q)
  BY <1>p, <1>2 DEF ProducerOK
<1>4. tail'[myq] = Last(Q)
  BY <1>t, <1>2, <1>3, OneQueue DEF EnqSwing
<1>5. Q' = Q /\ InQ' = InQ
  BY <1>2 DEF Q, InQ, InChain
<1>6. \A w \in Putters \ {t} : pc[w] # "e_swing" /\ pc'[w] = pc[w]
  BY <1>t, <1>2 DEF OneLinks, OthersKeep, ListsIInv
<1>7. ~TailBehind' /\ TailBehind
  BY <1>2, <1>6 DEF TailBehind
<1>13. /\ R' = R /\ InR' = InR /\ Unlisted' = Unlisted /\ Untimed' = Untimed
       /\ ListOK' /\ FreeModeOK' /\ RecyclerOK'
  BY <1>2, PutKeepsList DEF Freeing
<1>16. \A w \in Putters \ {t} : ProducerOK(w)' /\ Hand(w)' = Hand(w)
  <2>1. ASSUME NEW w \in Putters \ {t}, NEW m PROVE Seen(m, w) => Seen(m, w)'
    BY <1>t, <1>2, <1>5, <1>7, <1>13 DEF Seen, OthersKeep
  <2> QED
    BY <1>2, <1>6, <2>1, PutKeepsOthers
<1>17. ProducerOK(t)' /\ Hand(t)' = Hand(t)
  BY <1>2 DEF ProducerOK, Hand
<1>18. OneLinks'
  BY <1>2, <1>6 DEF OneLinks
<1>q. Len(Q) > 1 => Last(Q) # Q[1]
  BY <1>t, OneQueue DEF Last, ListsIInv, ApartOK
<1>19. ConsumerOK'
  <2>1. /\ pc'[Taker] = pc[Taker] /\ hd'[Taker] = hd[Taker] /\ nx'[Taker] = nx[Taker]
        /\ val'[Taker] = val[Taker]
    BY <1>t DEF OthersKeep
  <2>2. ConsumerOK /\ head[myq] = Q[1]
    BY DEF ListsIInv, ChainOK
  <2> QED
    BY <1>2, <1>4, <1>5, <1>q, <2>1, <2>2 DEF ConsumerOK
<1>20. ChainOK'
  BY <1>2, <1>4, <1>5, <1>7 DEF ChainOK, ListsIInv
<1>21. ApartOK' /\ CoveredOK'
  BY <1>2, <1>5, <1>13, <1>16, <1>17 DEF ApartOK, CoveredOK, ListsIInv
<1> QED
  BY <1>13, <1>16, <1>17, <1>18, <1>19, <1>20, <1>21 DEF Shape

-----------------------------------------------------------------------------
(* lfqueue_deq and __lfq_recycle_free. *)

\* What the taker does with the nodes it has taken is nothing to the putters.
LEMMA TakeKeepsOthers ==
    ASSUME ListsIInv, OthersKeep(Taker), next' = next, value' = value, tail' = tail,
           Last(Q)' = Last(Q),
           \A w \in Putters : \A n \in Hand(w) : nextfree'[n] = nextfree[n],
           \A w \in Putters : \A n \in Nodes : Seen(n, w) => Seen(n, w)'
    PROVE  /\ TailBehind' = TailBehind /\ OneLinks'
           /\ \A w \in Putters : ProducerOK(w)' /\ Hand(w)' = Hand(w)
<1>1. \A w \in Putters : /\ pc'[w] = pc[w] /\ node'[w] = node[w] /\ arg'[w] = arg[w]
                         /\ tl'[w] = tl[w]
  BY TestRoles DEF OthersKeep
<1>2. TailBehind' = TailBehind /\ OneLinks'
  BY <1>1 DEF TailBehind, OneLinks, ListsIInv
<1>3. ASSUME NEW w \in Putters PROVE ProducerOK(w)' /\ Hand(w)' = Hand(w)
  <2>1. ProducerOK(w)
    BY DEF ListsIInv
  <2>2. pc[w] \in {"e_tail", "e_link"} => node[w] \in Hand(w)
    BY DEF Hand
  <2> QED
    BY <1>1, <2>1, <2>2 DEF ProducerOK, Hand
<1> QED
  BY <1>2, <1>3

\* The first node of the recycle list stays, and so does free mode.
LEMMA TakeKeepsFreeMode ==
    ASSUME ListsIInv, OthersKeep(Taker), UNCHANGED <<root_free, in_free_mode>>,
           R'[1] = R[1], pc[Taker] \notin Freeing, pc'[Taker] \notin Freeing
    PROVE  FreeModeOK'
<1>1. \A u \in Threads : /\ pc'[u] \in Freeing <=> pc[u] \in Freeing
                         /\ pc[u] \in Freeing => fr'[u] = fr[u]
  BY DEF OthersKeep
<1> QED
  BY <1>1 DEF ListsIInv, FreeModeOK

\* The compare-and-swap on head succeeds, as nobody else takes.
LEMMA TestDeqTake ==
    ASSUME ListsIInv, TypeOK', OthersKeep(Taker), DeqTake(Taker)
    PROVE  Shape'
<1>t. TypeOK /\ Taker \in Threads /\ CallOK(Taker) /\ ConsumerOK /\ ChainOK /\ Null \notin Nodes
  BY TestRoles, NodesAssumption DEF ListsIInv, CallsOK
<1>p. /\ pc[Taker] = "d_take" /\ on[Taker] = myq /\ kind[Taker] = "deq" /\ hd[Taker] = head[myq]
      /\ Len(Q) > 1 /\ nx[Taker] = Q[2] /\ tail[myq] # hd[Taker] /\ head[myq] = Q[1]
  BY <1>t DEF DeqTake, CallOK, ConsumerOK, ChainOK
<1> DEFINE n == hd[Taker]
<1>2. /\ head' = [head EXCEPT ![myq] = nx[Taker]]
      /\ chain' = [chain EXCEPT ![myq] = SubSeq(@, 2, Len(@))]
      /\ pc'[Taker] = "r_load" /\ hd'[Taker] = hd[Taker]
      /\ next' = next /\ value' = value /\ nextfree' = nextfree /\ tail' = tail /\ age' = age
      /\ recycled' = recycled /\ pool' = pool /\ expired' = expired
      /\ move_free' = move_free /\ UNCHANGED <<root_free, in_free_mode>>
  BY <1>t, <1>p, LocalTypes DEF DeqTake, Goto, mem, recycling, time
<1>3. Len(Q) \in Nat /\ \A i, j \in 1 .. Len(Q) : Q[i] = Q[j] => i = j
  BY <1>t, OneQueue DEF ListsIInv, ApartOK
<1>4. Shorter(Q', Q)
  <2>1. Q' = SubSeq(Q, 2, Len(Q))
    BY <1>t, <1>2, OneQueue DEF Q
  <2> QED
    BY <1>t, <1>p, <1>3, <2>1, OneQueue, Shortened
<1>5. /\ Len(Q') = Len(Q) - 1 /\ \A i \in 1 .. Len(Q') : Q'[i] = Q[i + 1]
      /\ Last(Q)' = Last(Q) /\ InQ' = InQ \ {n}
  BY <1>p, <1>4 DEF Shorter, InQ, InChain, Q, Last
<1>6. R' = R /\ InR' = InR
  BY <1>2 DEF R, InR, InRecycled
<1>7. /\ Unlisted = {} /\ Untimed = {} /\ Unlisted' = {n} /\ Untimed' = {}
      /\ ~MoveBehind /\ ~MoveBehind'
  BY <1>p, <1>2 DEF Unlisted, Untimed, MoveBehind
<1>8. n \in InQ /\ n \in Nodes /\ next[n] # Null /\ nextfree[n] = Null
  <2>1. 1 \in 1 .. Len(Q) /\ 2 \in 1 .. Len(Q) /\ 1 \in 1 .. Len(Q) - 1
    BY <1>p, <1>3
  <2>2. next[Q[1]] = Q[2] /\ nextfree[Q[1]] = Null
    BY <1>t, <2>1 DEF ChainOK
  <2> QED
    BY <1>t, <1>p, <2>1, <2>2, OneQueue
<1>9. /\ TailBehind' = TailBehind /\ OneLinks'
      /\ \A w \in Putters : ProducerOK(w)' /\ Hand(w)' = Hand(w)
  <2>1. TailBehind' = TailBehind
    BY TestRoles DEF TailBehind, OthersKeep
  <2>2. ASSUME NEW w \in Putters, NEW m \in Nodes, Seen(m, w) PROVE Seen(m, w)'
    BY <1>2, <1>5, <1>6, <1>7, <1>8, <2>1, <2>2, TestRoles DEF Seen, OthersKeep
  <2> QED
    BY <1>2, <1>5, <2>2, TakeKeepsOthers
<1>10. FreeModeOK'
  BY <1>p, <1>2, <1>6, TakeKeepsFreeMode DEF Freeing
<1>11. ConsumerOK' /\ RecyclerOK'
  BY <1>2, <1>8 DEF ConsumerOK, RecyclerOK, RecycleLabels
<1>12. ListOK'
  BY <1>2, <1>6, <1>7 DEF ListOK, ListsIInv
<1>13. ChainOK'
  <2>1. \A i \in 1 .. Len(Q') : i + 1 \in 1 .. Len(Q) /\ i + 1 \in 2 .. Len(Q)
    BY <1>3, <1>5
  <2>2. Len(Q') > 0 /\ head'[myq] = Q'[1]
    BY <1>t, <1>p, <1>2, <1>3, <1>5, OneQueue
  <2>3. ASSUME NEW i \in 1 .. Len(Q') - 1 PROVE next'[Q'[i]] = Q'[i + 1]
    <3>1. i + 1 \in 1 .. Len(Q) - 1 /\ i \in 1 .. Len(Q') /\ i + 1 \in 1 .. Len(Q')
      BY <1>3, <1>5, <2>3
    <3> QED
      BY <1>t, <1>2, <1>5, <3>1 DEF ChainOK
  <2>4. /\ \A i \in 1 .. Len(Q') : nextfree'[Q'[i]] = Null
        /\ \A i \in 2 .. Len(Q') : value'[Q'[i]] \in Values
    BY <1>t, <1>2, <1>3, <1>5, <2>1, SMTT(20) DEF ChainOK
  <2>5. next'[Last(Q)'] = Null
    BY <1>t, <1>2, <1>5 DEF ChainOK
  <2>6. CASE TailBehind
    <3>1. tail[myq] = Q[Len(Q) - 1]
      BY <1>t, <2>6 DEF ChainOK
    <3>2. Len(Q) - 1 > 1
      BY <1>p, <1>3, <3>1
    <3>3. Len(Q') > 1 /\ tail'[myq] = Q'[Len(Q') - 1]
      BY <1>2, <1>3, <1>5, <3>1, <3>2
    <3> QED
      BY <1>9, <2>2, <2>3, <2>4, <2>5, <2>6, <3>3 DEF ChainOK
  <2>7. CASE ~TailBehind
    <3>1. tail[myq] = Last(Q)
      BY <1>t, <2>7 DEF ChainOK
    <3> QED
      BY <1>2, <1>5, <1>9, <2>2, <2>3, <2>4, <2>5, <2>7, <3>1 DEF ChainOK
  <2> QED
    BY <2>6, <2>7
<1>14. ApartOK'
  <2>1. ASSUME NEW i \in 1 .. Len(Q'), NEW j \in 1 .. Len(Q'), Q'[i] = Q'[j] PROVE i = j
    <3>1. i + 1 \in 1 .. Len(Q) /\ j + 1 \in 1 .. Len(Q)
      BY <1>3, <1>5
    <3> QED
      BY <1>3, <1>5, <2>1, <3>1
  <2> QED
    <3>1. ApartOK
      BY DEF ListsIInv
    <3>2. \A i, j \in 1 .. Len(Q') : Q'[i] = Q'[j] => i = j
      BY <2>1
    <3>3. /\ InQ' \cap InR' = {} /\ InQ' \cap pool' = {} /\ InR' \cap pool' = {}
          /\ Unlisted' \cap (InQ' \cup InR' \cup pool') = {}
      BY <1>2, <1>5, <1>6, <1>7, <1>8, <3>1 DEF ApartOK
    <3>4. \A w \in Putters :
             /\ Hand(w)' \cap (InQ' \cup InR' \cup pool' \cup Unlisted') = {}
             /\ \A v \in Putters : v # w => Hand(v)' \cap Hand(w)' = {}
      BY <1>2, <1>5, <1>6, <1>7, <1>8, <1>9, <3>1 DEF ApartOK
    <3> QED
      BY <1>6, <3>1, <3>2, <3>3, <3>4 DEF ApartOK
<1>15. CoveredOK'
  BY <1>2, <1>5, <1>6, <1>7, <1>9 DEF CoveredOK, ListsIInv
<1> QED
  BY <1>9, <1>10, <1>11, <1>12, <1>13, <1>14, <1>15 DEF Shape

\* The taker links the node it has left behind the last of the recycle list.
LEMMA TestRecycleLink ==
    ASSUME ListsIInv, TypeOK', OthersKeep(Taker), RecycleLink(Taker)
    PROVE  Shape'
<1>t. TypeOK /\ Taker \in Threads /\ CallOK(Taker) /\ RecyclerOK /\ ListOK /\ Null \notin Nodes
  BY TestRoles, NodesAssumption DEF ListsIInv, CallsOK
<1> DEFINE n == hd[Taker]
<1>p. /\ pc[Taker] = "r_link" /\ on[Taker] = myq /\ fr[Taker] = move_free[myq] /\ n \in Nodes
      /\ next[n] # Null /\ nextfree[n] = Null
  BY <1>t DEF RecycleLink, CallOK, RecyclerOK, RecycleLabels
<1>3. /\ Unlisted = {n} /\ Untimed = {} /\ ~MoveBehind
  BY <1>p DEF Unlisted, Untimed, MoveBehind
<1>4. fr[Taker] = Last(R)
  BY <1>t, <1>p, <1>3 DEF ListOK
<1>2. /\ nextfree' = [nextfree EXCEPT ![Last(R)] = n]
      /\ recycled' = [recycled EXCEPT ![myq] = Linked(@, Last(R), n)]
      /\ pc'[Taker] = "r_time" /\ hd'[Taker] = hd[Taker] /\ fr'[Taker] = fr[Taker]
      /\ next' = next /\ value' = value /\ head' = head /\ tail' = tail /\ age' = age
      /\ chain' = chain /\ pool' = pool /\ expired' = expired
      /\ move_free' = move_free /\ UNCHANGED <<root_free, in_free_mode>>
  BY <1>t, <1>p, <1>4, LocalTypes, ListFacts
     DEF RecycleLink, Goto, queues, recycling, time, locals
<1>5. Longer(R', R, n)
  <2>1. R' = Append(R, n)
    BY <1>t, <1>2, ListFacts, OneQueue DEF R, Linked
  <2> QED
    BY <1>t, <1>p, <2>1, OneQueue, ListFacts, Lengthened
<1>6. /\ Len(R') = Len(R) + 1 /\ \A i \in 1 .. Len(R) : R'[i] = R[i]
      /\ R'[Len(R) + 1] = n /\ Last(R)' = n /\ InR' = InR \cup {n}
  BY <1>5 DEF Longer, InR, InRecycled, R, Last
<1>7. Len(R) \in Nat /\ Len(R) > 0 /\ Last(R) = R[Len(R)]
  BY <1>t, OneQueue, ListFacts
<1>8. Q' = Q /\ InQ' = InQ
  BY <1>2 DEF Q, InQ, InChain
<1>9. Unlisted' = {} /\ Untimed' = {n} /\ MoveBehind'
  BY <1>2 DEF Unlisted, Untimed, MoveBehind
<1>10. n \notin InQ \cup InR \cup pool /\ \A w \in Putters : n \notin Hand(w)
  BY <1>3 DEF ListsIInv, ApartOK
<1>11. /\ nextfree'[Last(R)] = n /\ n # Last(R) /\ nextfree'[n] = Null
       /\ \A m \in Nodes : m # Last(R) => nextfree'[m] = nextfree[m]
  BY <1>t, <1>p, <1>2, <1>10, ListFacts DEF TypeOK
<1>12. /\ TailBehind' = TailBehind /\ OneLinks'
       /\ \A w \in Putters : ProducerOK(w)' /\ Hand(w)' = Hand(w)
  <2>1. TailBehind' = TailBehind
    BY TestRoles DEF TailBehind, OthersKeep
  <2>2. ASSUME NEW w \in Putters, NEW m \in Nodes, Seen(m, w) PROVE Seen(m, w)'
    BY <1>2, <1>3, <1>6, <1>8, <1>9, <2>1, <2>2, TestRoles DEF Seen, OthersKeep
  <2>3. ASSUME NEW w \in Putters, NEW m \in Hand(w) PROVE nextfree'[m] = nextfree[m]
    <3>1. m # Last(R) /\ m \in Nodes
      BY <2>3, ListFacts DEF ListsIInv, ApartOK, Hand, ProducerOK
    <3> QED
      BY <1>11, <3>1
  <2> QED
    BY <1>2, <1>8, <2>2, <2>3, TakeKeepsOthers
<1>13. FreeModeOK'
  BY <1>p, <1>2, <1>6, <1>7, TakeKeepsFreeMode DEF Freeing
<1>14. ConsumerOK' /\ RecyclerOK'
  BY <1>p, <1>2, <1>6 DEF ConsumerOK, RecyclerOK, RecycleLabels
<1>15. ListOK'
  <2>1. \A i \in 1 .. Len(R) : R[i] \in Nodes
    BY <1>t, OneQueue
  <2>2. ASSUME NEW i \in 1 .. Len(R') - 1 PROVE nextfree'[R'[i]] = R'[i + 1]
    <3>1. CASE i = Len(R)
      BY <1>6, <1>7, <1>11, <3>1
    <3>2. CASE i # Len(R)
      <4>1. i \in 1 .. Len(R) - 1 /\ Len(R) \in 1 .. Len(R) /\ i \in 1 .. Len(R)
            /\ i + 1 \in 1 .. Len(R)
        BY <1>6, <1>7, <2>2, <3>2
      <4>2. R[i] # Last(R)
        BY <1>7, <3>2, <4>1 DEF ListsIInv, ApartOK
      <4> QED
        BY <1>t, <1>6, <1>11, <2>1, <4>1, <4>2 DEF ListOK
    <3> QED
      BY <3>1, <3>2
  <2>3. Len(R') > 1 /\ move_free'[myq] = R'[Len(R') - 1]
    BY <1>p, <1>2, <1>4, <1>6, <1>7
  <2> QED
    BY <1>6, <1>9, <1>11, <2>2, <2>3 DEF ListOK
<1>16. ChainOK'
  <2>1. \A i \in 1 .. Len(Q) : nextfree'[Q[i]] = Null
    <3>1. \A i \in 1 .. Len(Q) : Q[i] \in Nodes /\ Q[i] # Last(R)
      BY <1>t, OneQueue, ListFacts DEF ListsIInv, ApartOK
    <3> QED
      BY <1>11, <3>1 DEF ListsIInv, ChainOK
  <2> QED
    BY <1>2, <1>8, <1>12, <2>1 DEF ListsIInv, ChainOK
<1>17. ApartOK'
  <2>1. ASSUME NEW i \in 1 .. Len(R'), NEW j \in 1 .. Len(R'), R'[i] = R'[j] PROVE i = j
    <3>1. \A k \in 1 .. Len(R) : R'[k] \in InR
      BY <1>t, <1>6, OneQueue
    <3>2. (i \in 1 .. Len(R) \/ i = Len(R) + 1) /\ (j \in 1 .. Len(R) \/ j = Len(R) + 1)
      BY <1>6, <1>7
    <3> QED
      BY <1>6, <1>10, <2>1, <3>1, <3>2 DEF ListsIInv, ApartOK
  <2> QED
    BY <1>2, <1>6, <1>8, <1>9, <1>10, <1>12, <2>1 DEF ApartOK, ListsIInv
<1>18. CoveredOK'
  BY <1>2, <1>3, <1>6, <1>8, <1>12 DEF CoveredOK, ListsIInv
<1> QED
  BY <1>12, <1>13, <1>14, <1>15, <1>16, <1>17, <1>18 DEF Shape

\* The time of the node is taken: whoever still looks at it began its call before.
LEMMA TestRecycleTime ==
    ASSUME ListsIInv, TypeOK', OthersKeep(Taker), RecycleTime(Taker)
    PROVE  Shape'
<1>t. TypeOK /\ Taker \in Threads /\ CallOK(Taker) /\ RecyclerOK
  BY TestRoles DEF ListsIInv, CallsOK
<1> DEFINE n == hd[Taker]
<1>p. pc[Taker] = "r_time" /\ on[Taker] = myq /\ n = Last(R)
      /\ fr[Taker] = move_free[myq]
  BY <1>t DEF RecycleTime, CallOK, RecyclerOK
<1>2. /\ age' = [age EXCEPT ![n] = 0] /\ expired'[myq] = expired[myq] \ {n}
      /\ pc'[Taker] = "r_move" /\ hd'[Taker] = hd[Taker] /\ fr'[Taker] = fr[Taker]
      /\ next' = next /\ value' = value /\ nextfree' = nextfree /\ head' = head /\ tail' = tail
      /\ chain' = chain /\ pool' = pool /\ recycled' = recycled
      /\ move_free' = move_free /\ UNCHANGED <<root_free, in_free_mode>>
  BY <1>t, <1>p, LocalTypes, OneQueue DEF RecycleTime, Goto, mem, queues, history, locals
<1>3. Q' = Q /\ InQ' = InQ /\ R' = R /\ InR' = InR
  BY <1>2 DEF Q, InQ, InChain, R, InR, InRecycled
<1>4. /\ Unlisted = {} /\ Untimed = {n} /\ MoveBehind
      /\ Unlisted' = {} /\ Untimed' = {} /\ MoveBehind'
  BY <1>p, <1>2 DEF Unlisted, Untimed, MoveBehind
<1>5. n \in InR /\ n \in Nodes /\ age'[n] = 0 /\ \A m \in Nodes : m # n => age'[m] = age[m]
  BY <1>t, <1>p, <1>2, ListFacts DEF TypeOK
<1>6. /\ TailBehind' = TailBehind /\ OneLinks'
      /\ \A w \in Putters : ProducerOK(w)' /\ Hand(w)' = Hand(w)
  <2>1. TailBehind' = TailBehind
    BY TestRoles DEF TailBehind, OthersKeep
  <2>2. ASSUME NEW w \in Putters, NEW m \in Nodes, Seen(m, w) PROVE Seen(m, w)'
    <3>1. elapsed'[w] = elapsed[w] /\ elapsed[w] \in 0 .. MaxCall
      BY <1>t, TestRoles, LocalTypes DEF OthersKeep
    <3>2. 0 <= elapsed[w]
      BY <3>1, BoundsAssumption
    <3> QED
      BY <1>2, <1>3, <1>4, <1>5, <2>1, <2>2, <3>1, <3>2 DEF Seen
  <2> QED
    BY <1>2, <1>3, <2>2, TakeKeepsOthers
<1>7. FreeModeOK'
  BY <1>p, <1>2, <1>3, TakeKeepsFreeMode DEF Freeing
<1>8. ConsumerOK' /\ RecyclerOK'
  BY <1>t, <1>p, <1>2, <1>3 DEF ConsumerOK, RecyclerOK, RecycleLabels
<1>9. ListOK' /\ ChainOK'
  BY <1>2, <1>3, <1>4, <1>6 DEF ListOK, ChainOK, ListsIInv
<1>10. ApartOK' /\ CoveredOK'
  BY <1>2, <1>3, <1>4, <1>6 DEF ApartOK, CoveredOK, ListsIInv
<1> QED
  BY <1>6, <1>7, <1>8, <1>9, <1>10 DEF Shape

\* The taker moves move_free, which nobody else has moved.
LEMMA TestRecycleMove ==
    ASSUME ListsIInv, TypeOK', OthersKeep(Taker), RecycleMove(Taker)
    PROVE  Shape'
<1>t. TypeOK /\ Taker \in Threads /\ CallOK(Taker) /\ RecyclerOK
  BY TestRoles DEF ListsIInv, CallsOK
<1>p. pc[Taker] = "r_move" /\ on[Taker] = myq /\ hd[Taker] = Last(R) /\ fr[Taker] = move_free[myq]
  BY <1>t DEF RecycleMove, CallOK, RecyclerOK
<1>2. /\ move_free'[myq] = Last(R) /\ pc'[Taker] = "c_enter" /\ age' = age /\ expired' = expired
      /\ next' = next /\ value' = value /\ nextfree' = nextfree /\ head' = head /\ tail' = tail
      /\ chain' = chain /\ pool' = pool /\ recycled' = recycled
      /\ UNCHANGED <<root_free, in_free_mode>>
  BY <1>t, <1>p, LocalTypes, OneQueue DEF RecycleMove, Goto, mem, queues, history, time
<1>3. Q' = Q /\ InQ' = InQ /\ R' = R /\ InR' = InR
  BY <1>2 DEF Q, InQ, InChain, R, InR, InRecycled
<1>4. /\ Unlisted = {} /\ Untimed = {} /\ Unlisted' = {} /\ Untimed' = {} /\ ~MoveBehind'
  BY <1>p, <1>2 DEF Unlisted, Untimed, MoveBehind
<1>6. /\ TailBehind' = TailBehind /\ OneLinks'
      /\ \A w \in Putters : ProducerOK(w)' /\ Hand(w)' = Hand(w)
  <2>1. TailBehind' = TailBehind
    BY TestRoles DEF TailBehind, OthersKeep
  <2>2. ASSUME NEW w \in Putters, NEW m \in Nodes, Seen(m, w) PROVE Seen(m, w)'
    BY <1>2, <1>3, <1>4, <2>1, <2>2, TestRoles DEF Seen, OthersKeep
  <2> QED
    BY <1>2, <1>3, <2>2, TakeKeepsOthers
<1>7. FreeModeOK'
  BY <1>p, <1>2, <1>3, TakeKeepsFreeMode DEF Freeing
<1>8. ConsumerOK' /\ RecyclerOK'
  BY <1>2 DEF ConsumerOK, RecyclerOK, RecycleLabels
<1>9. ListOK' /\ ChainOK'
  BY <1>2, <1>3, <1>4, <1>6 DEF ListOK, ChainOK, ListsIInv
<1>10. ApartOK' /\ CoveredOK'
  BY <1>2, <1>3, <1>4, <1>6 DEF ApartOK, CoveredOK, ListsIInv
<1> QED
  BY <1>6, <1>7, <1>8, <1>9, <1>10 DEF Shape

-----------------------------------------------------------------------------
(* __lfq_check_free. *)

\* __lfq_check_free works on the recycle list alone.
LEMMA FreeKeeps ==
    ASSUME ListsIInv, NEW t \in Threads, OthersKeep(t),
           pc[t] \in CheckLabels, pc'[t] \in {"c_step", "e_size", "d_size", "idle"},
           UNCHANGED <<mem, head, tail, move_free, chain, age>>, Last(R)' = Last(R),
           \A w \in Putters \ {t} : \A n \in Nodes :
              Seen(n, w) /\ TailBehind' = TailBehind => Seen(n, w)'
    PROVE  /\ Q' = Q /\ InQ' = InQ /\ Unlisted' = Unlisted /\ MoveBehind' = MoveBehind
           /\ \A w \in Putters : ProducerOK(w)' /\ Hand(w)' = Hand(w)
           /\ OneLinks' /\ ConsumerOK' /\ RecyclerOK' /\ ChainOK'
<1>r. Threads = Putters \cup {Taker} /\ Taker \notin Putters /\ Taker \in Threads
  BY TestRoles
<1>1. /\ next' = next /\ value' = value /\ nextfree' = nextfree /\ Q' = Q /\ InQ' = InQ
  BY DEF mem, Q, InQ, InChain
<1>2. \A u \in Threads : /\ pc[u] \in {"e_init", "e_tail", "e_link"} => pc'[u] = pc[u] /\ u # t
                         /\ pc'[u] \in {"e_init", "e_tail", "e_link"} => pc'[u] = pc[u] /\ u # t
                         /\ pc'[u] = "e_swing" <=> pc[u] = "e_swing"
                         /\ pc[u] = "e_swing" => u # t
  BY DEF OthersKeep, CheckLabels
<1>3. \A w \in Putters : Hand(w)' = Hand(w)
  BY <1>r, <1>2 DEF Hand, OthersKeep
<1>4. TailBehind' = TailBehind
  BY <1>r, <1>2 DEF TailBehind
<1>5. ASSUME NEW w \in Putters PROVE ProducerOK(w)'
  <2>1. CASE w = t
    <3>1. pc'[w] \notin {"e_init", "e_tail", "e_link", "e_swing"}
      BY <2>1
    <3> QED
      BY <3>1 DEF ProducerOK
  <2>2. CASE w # t
    <3>1. /\ pc'[w] = pc[w] /\ node'[w] = node[w] /\ arg'[w] = arg[w] /\ tl'[w] = tl[w]
      BY <1>r, <2>2 DEF OthersKeep
    <3>2. ProducerOK(w)
      BY DEF ListsIInv
    <3>3. \A n \in Nodes : Seen(n, w) => Seen(n, w)'
      BY <1>4, <2>2
    <3> QED
      BY <1>1, <3>1, <3>2, <3>3 DEF ProducerOK
  <2> QED
    BY <2>1, <2>2
<1>6. OneLinks'
  BY <1>r, <1>2 DEF OneLinks, ListsIInv
<1>7. CASE t = Taker
  <2>1. /\ pc[Taker] \notin DeqLabels \cup RecycleLabels
        /\ pc'[Taker] \notin {"d_next", "d_tail", "d_value", "d_take"} \cup RecycleLabels
    BY <1>7 DEF DeqLabels, RecycleLabels, CheckLabels
  <2>2. Unlisted' = Unlisted /\ MoveBehind' = MoveBehind /\ ConsumerOK' /\ RecyclerOK'
    BY <2>1 DEF Unlisted, MoveBehind, ConsumerOK, RecyclerOK, RecycleLabels
  <2> QED
    BY <1>1, <1>3, <1>4, <1>5, <1>6, <2>2 DEF ChainOK, ListsIInv
<1>8. CASE t # Taker
  <2>1. /\ pc'[Taker] = pc[Taker] /\ hd'[Taker] = hd[Taker] /\ nx'[Taker] = nx[Taker]
        /\ val'[Taker] = val[Taker] /\ fr'[Taker] = fr[Taker]
    BY <1>r, <1>8 DEF OthersKeep
  <2>2. Unlisted' = Unlisted /\ MoveBehind' = MoveBehind
    BY <2>1 DEF Unlisted, MoveBehind
  <2>3. ConsumerOK' /\ RecyclerOK'
    BY <1>1, <2>1 DEF ListsIInv, ConsumerOK, RecyclerOK
  <2> QED
    BY <1>1, <1>3, <1>4, <1>5, <1>6, <2>2, <2>3 DEF ChainOK, ListsIInv
<1> QED
  BY <1>7, <1>8

\* A thread enters free mode: the grace of what a putter looks at is not over.
LEMMA TestCheckEnter ==
    ASSUME ListsIInv, OneTaker, TypeOK', NEW t \in Threads, OthersKeep(t), CheckEnter(t),
           ~in_free_mode[myq]
    PROVE  Shape'
<1>t. TypeOK /\ CallOK(t) /\ FreeModeOK /\ MaxCall <= Grace
  BY DEF ListsIInv, CallsOK, OneTaker
<1>p. pc[t] = "c_enter" /\ on[t] = myq
  BY <1>t DEF CheckEnter, CallOK
<1>2. /\ in_free_mode' = [in_free_mode EXCEPT ![myq] = TRUE]
      /\ expired' = [expired EXCEPT ![myq] = {n \in Nodes : age[n] > Grace}]
      /\ fr' = [fr EXCEPT ![t] = root_free[myq]] /\ pc' = [pc EXCEPT ![t] = "c_step"]
      /\ UNCHANGED <<mem, head, tail, move_free, chain, age>>
      /\ pool' = pool /\ recycled' = recycled /\ nextfree' = nextfree /\ move_free' = move_free
  BY <1>p DEF CheckEnter, Goto, mem, queues, history, time
<1>3. /\ in_free_mode'[myq] = TRUE /\ expired'[myq] = {n \in Nodes : age[n] > Grace}
      /\ fr'[t] = root_free[myq] /\ pc'[t] = "c_step"
  BY <1>t, <1>2, OneQueue, LocalTypes
<1>4. R' = R /\ InR' = InR
  BY <1>2 DEF R, InR, InRecycled
<1>u. Untimed' = Untimed /\ Unlisted' = Unlisted
  BY <1>p, <1>3, TestRoles DEF Untimed, Unlisted, OthersKeep
<1>5. ASSUME NEW w \in Putters \ {t}, NEW n \in Nodes, Seen(n, w), TailBehind' = TailBehind
      PROVE  Seen(n, w)'
  <2>1. Q' = Q /\ InQ' = InQ /\ age' = age /\ next' = next
    BY <1>2 DEF Q, InQ, InChain, mem
  <2>2. elapsed'[w] = elapsed[w] /\ elapsed[w] \in 0 .. MaxCall
    BY <1>t, TestRoles, LocalTypes DEF OthersKeep
  <2>3. age[n] <= elapsed[w] => n \notin expired'[myq]
    <3>1. age[n] \in 0 .. Grace + 1
      BY <1>t DEF TypeOK
    <3> QED
      BY <1>t, <1>3, <2>2, <3>1, BoundsAssumption
  <2> QED
    BY <1>4, <1>5, <1>u, <2>1, <2>2, <2>3 DEF Seen
<1>6. /\ Q' = Q /\ InQ' = InQ /\ Unlisted' = Unlisted /\ MoveBehind' = MoveBehind
      /\ \A w \in Putters : ProducerOK(w)' /\ Hand(w)' = Hand(w)
      /\ OneLinks' /\ ConsumerOK' /\ RecyclerOK' /\ ChainOK'
  <2>1. pc[t] \in CheckLabels /\ pc'[t] \in {"c_step", "e_size", "d_size", "idle"}
    BY <1>p, <1>3 DEF CheckLabels
  <2>2. Last(R)' = Last(R)
    BY <1>4 DEF Last
  <2> QED
    BY <1>2, <1>5, <2>1, <2>2, FreeKeeps
<1>7. ListOK'
  BY <1>2, <1>4, <1>6 DEF ListOK, ListsIInv
<1>8. FreeModeOK'
  <2>1. \A u \in Threads \ {t} : pc'[u] = pc[u] /\ pc[u] \notin Freeing
    BY <1>t DEF FreeModeOK, OthersKeep
  <2>2. fr'[t] = R[1] /\ pc'[t] \in Freeing
    BY <1>t, <1>3 DEF FreeModeOK, Freeing
  <2> QED
    BY <1>3, <1>4, <2>1, <2>2 DEF FreeModeOK
<1>9. ApartOK' /\ CoveredOK'
  BY <1>2, <1>4, <1>6 DEF ApartOK, CoveredOK, ListsIInv
<1> QED
  BY <1>6, <1>7, <1>8, <1>9 DEF Shape

\* It gives the first node of the list back to the pool, if another is behind it
\* and nobody looks at it.
LEMMA TestCheckStep ==
    ASSUME ListsIInv, TypeOK', NEW t \in Threads, OthersKeep(t), CheckStep(t),
           ~(pool' = pool /\ fr' = fr)
    PROVE  Shape'
<1>t. TypeOK /\ CallOK(t) /\ FreeModeOK /\ ListOK
  BY DEF ListsIInv, CallsOK
<1>p. pc[t] = "c_step" /\ on[t] = myq /\ fr[t] = R[1]
  BY <1>t DEF CheckStep, FreeNext, CallOK, FreeModeOK, Freeing
<1> DEFINE n == R[1]
<1>2. /\ n # move_free[myq] /\ n \in expired[myq]
      /\ pool' = pool \cup {n} /\ fr' = [fr EXCEPT ![t] = nextfree[n]]
      /\ recycled' = [recycled EXCEPT ![myq] = SubSeq(@, 2, Len(@))] /\ pc' = pc
      /\ UNCHANGED <<mem, head, tail, move_free, chain, age>>
      /\ nextfree' = nextfree /\ next' = next /\ move_free' = move_free /\ expired' = expired
      /\ in_free_mode' = in_free_mode /\ age' = age /\ chain' = chain
  BY <1>p DEF CheckStep, FreeNext, mem, queues, recycling, time
<1>3. Len(R) \in Nat /\ Len(R) > 1 /\ \A i, j \in 1 .. Len(R) : R[i] = R[j] => i = j
  <2>1. Len(R) \in Nat /\ Len(R) > 0
    BY <1>t, OneQueue, ListFacts
  <2>2. Len(R) # 1
    <3>1. SUFFICES ASSUME Len(R) = 1 PROVE FALSE
      OBVIOUS
    <3>2. ~MoveBehind
      BY <1>t, <3>1 DEF ListOK
    <3> QED
      BY <1>t, <1>2, <3>1, <3>2 DEF ListOK, Last
  <2>3. \A i, j \in 1 .. Len(R) : R[i] = R[j] => i = j
    BY DEF ListsIInv, ApartOK
  <2>4. Len(R) > 1
    <3>1. \A k \in Nat : k > 0 /\ k # 1 => k > 1
      OBVIOUS
    <3> QED
      BY <2>1, <2>2, <3>1, Zenon
  <2> QED
    BY <2>1, <2>3, <2>4, Zenon
<1>4. Shorter(R', R)
  <2>1. R' = SubSeq(R, 2, Len(R))
    BY <1>t, <1>2, OneQueue DEF R
  <2> QED
    BY <1>t, <1>3, <2>1, OneQueue, Shortened
<1>5. /\ Len(R') = Len(R) - 1 /\ \A i \in 1 .. Len(R') : R'[i] = R[i + 1]
      /\ Last(R)' = Last(R) /\ InR' = InR \ {n}
  BY <1>4 DEF Shorter, InR, InRecycled, R, Last
<1>u. Untimed' = Untimed /\ Unlisted' = Unlisted
  BY <1>2, <1>p, TestRoles DEF Untimed, Unlisted, OthersKeep
<1>6. /\ Q' = Q /\ InQ' = InQ /\ Unlisted' = Unlisted /\ MoveBehind' = MoveBehind
      /\ \A w \in Putters : ProducerOK(w)' /\ Hand(w)' = Hand(w)
      /\ OneLinks' /\ ConsumerOK' /\ RecyclerOK' /\ ChainOK'
  <2>1. pc[t] \in CheckLabels /\ pc'[t] \in {"c_step", "e_size", "d_size", "idle"}
    BY <1>p, <1>2 DEF CheckLabels
  <2>2. ASSUME NEW w \in Putters \ {t}, NEW m \in Nodes, Seen(m, w), TailBehind' = TailBehind
        PROVE  Seen(m, w)'
    <3>1. Q' = Q /\ InQ' = InQ
      BY <1>2 DEF Q, InQ, InChain
    <3>2. elapsed'[w] = elapsed[w]
      BY TestRoles DEF OthersKeep
    <3>3. m \in InR /\ m \notin expired[myq] => m \in InR'
      BY <1>2, <1>5
    <3> QED
      BY <1>2, <1>u, <2>2, <3>1, <3>2, <3>3 DEF Seen
  <2> QED
    BY <1>2, <1>5, <2>1, <2>2, FreeKeeps
<1>7. ListOK'
  <2>1. ASSUME NEW i \in 1 .. Len(R') - 1 PROVE nextfree'[R'[i]] = R'[i + 1]
    <3>1. i + 1 \in 1 .. Len(R) - 1 /\ i \in 1 .. Len(R') /\ i + 1 \in 1 .. Len(R')
      BY <1>3, <1>5, <2>1
    <3> QED
      BY <1>t, <1>2, <1>5, <3>1 DEF ListOK
  <2>2. Len(R') > 0 /\ nextfree'[Last(R)'] = Null
    BY <1>t, <1>2, <1>3, <1>5 DEF ListOK
  <2>3. MoveBehind => Len(R') > 1 /\ move_free[myq] = R'[Len(R') - 1]
    <3>1. SUFFICES ASSUME MoveBehind PROVE Len(R') > 1 /\ move_free[myq] = R'[Len(R') - 1]
      OBVIOUS
    <3>2. move_free[myq] = R[Len(R) - 1]
      BY <1>t, <3>1 DEF ListOK
    <3>3. Len(R) - 1 > 1
      BY <1>2, <1>3, <3>2
    <3> QED
      BY <1>3, <1>5, <3>2, <3>3
  <2>4. ~MoveBehind => move_free[myq] = Last(R)
    BY <1>t DEF ListOK
  <2> QED
    BY <1>2, <1>5, <1>6, <2>1, <2>2, <2>3, <2>4 DEF ListOK
<1>8. FreeModeOK'
  <2>1. nextfree[n] = R[2] /\ R'[1] = R[2]
    <3>1. 1 \in 1 .. Len(R) - 1 /\ 1 \in 1 .. Len(R')
      BY <1>3, <1>5
    <3> QED
      BY <1>t, <1>5, <3>1 DEF ListOK
  <2>2. fr'[t] = R'[1] /\ in_free_mode[myq]
    BY <1>t, <1>p, <1>2, <2>1, LocalTypes DEF FreeModeOK, Freeing
  <2>3. \A u \in Threads : pc[u] \in Freeing => u = t
    BY <1>t, <1>p DEF FreeModeOK, Freeing
  <2> QED
    BY <1>t, <1>2, <2>2, <2>3 DEF FreeModeOK
<1>9. n \in InR /\ n \notin InQ \cup pool \cup Unlisted /\ \A w \in Putters : n \notin Hand(w)
  BY ListFacts DEF ListsIInv, ApartOK
<1>10. ApartOK'
  <2>1. ASSUME NEW i \in 1 .. Len(R'), NEW j \in 1 .. Len(R'), R'[i] = R'[j] PROVE i = j
    <3>1. i + 1 \in 1 .. Len(R) /\ j + 1 \in 1 .. Len(R)
      BY <1>3, <1>5
    <3> QED
      BY <1>3, <1>5, <2>1, <3>1
  <2>2. ApartOK
    BY DEF ListsIInv
  <2>3. /\ InQ' \cap InR' = {} /\ InQ' \cap pool' = {} /\ InR' \cap pool' = {}
        /\ Unlisted' \cap (InQ' \cup InR' \cup pool') = {}
    BY <1>2, <1>5, <1>6, <1>9, <2>2 DEF ApartOK
  <2>4. \A w \in Putters :
             /\ Hand(w)' \cap (InQ' \cup InR' \cup pool' \cup Unlisted') = {}
             /\ \A v \in Putters : v # w => Hand(v)' \cap Hand(w)' = {}
    BY <1>2, <1>5, <1>6, <1>9, <2>2 DEF ApartOK
  <2> QED
    BY <1>6, <2>1, <2>2, <2>3, <2>4 DEF ApartOK
<1>11. CoveredOK'
  BY <1>2, <1>5, <1>6 DEF CoveredOK, ListsIInv
<1> QED
  BY <1>6, <1>7, <1>8, <1>10, <1>11 DEF Shape

\* It leaves free mode.
LEMMA TestCheckExit ==
    ASSUME ListsIInv, TypeOK', NEW t \in Threads, OthersKeep(t), CheckExit(t)
    PROVE  Shape'
<1>t. TypeOK /\ CallOK(t) /\ FreeModeOK
  BY DEF ListsIInv, CallsOK
<1>p. pc[t] = "c_exit" /\ on[t] = myq /\ fr[t] = R[1]
  BY <1>t DEF CheckExit, CallOK, FreeModeOK, Freeing
<1>1. pc'[t] \in {"e_size", "d_size", "idle"} /\ age' = age
  BY <1>t, LocalTypes DEF CheckExit, CheckDone, Return, Goto, time
<1>2. /\ root_free'[myq] = R[1] /\ in_free_mode'[myq] = FALSE /\ expired'[myq] = {}
      /\ UNCHANGED <<mem, head, tail, move_free, chain, age>>
      /\ pool' = pool /\ recycled' = recycled /\ nextfree' = nextfree /\ move_free' = move_free
  BY <1>t, <1>p, <1>1, OneQueue DEF CheckExit, mem, queues, history
<1>4. R' = R /\ InR' = InR
  BY <1>2 DEF R, InR, InRecycled
<1>u. Untimed' = Untimed /\ Unlisted' = Unlisted
  BY <1>p, <1>1, TestRoles DEF Untimed, Unlisted, OthersKeep
<1>6. /\ Q' = Q /\ InQ' = InQ /\ Unlisted' = Unlisted /\ MoveBehind' = MoveBehind
      /\ \A w \in Putters : ProducerOK(w)' /\ Hand(w)' = Hand(w)
      /\ OneLinks' /\ ConsumerOK' /\ RecyclerOK' /\ ChainOK'
  <2>1. pc[t] \in CheckLabels /\ pc'[t] \in {"c_step", "e_size", "d_size", "idle"}
    BY <1>p, <1>1 DEF CheckLabels
  <2>2. Last(R)' = Last(R)
    BY <1>4 DEF Last
  <2>3. ASSUME NEW w \in Putters \ {t}, NEW m \in Nodes, Seen(m, w), TailBehind' = TailBehind
        PROVE  Seen(m, w)'
    <3>1. Q' = Q /\ InQ' = InQ /\ next' = next
      BY <1>2 DEF Q, InQ, InChain, mem
    <3>2. elapsed'[w] = elapsed[w]
      BY TestRoles DEF OthersKeep
    <3> QED
      BY <1>1, <1>2, <1>4, <1>u, <2>3, <3>1, <3>2 DEF Seen
  <2> QED
    BY <1>2, <2>1, <2>2, <2>3, FreeKeeps
<1>7. ListOK'
  BY <1>2, <1>4, <1>6 DEF ListOK, ListsIInv
<1>8. FreeModeOK'
  <2>1. \A u \in Threads : pc'[u] \notin Freeing
    BY <1>t, <1>p, <1>1 DEF FreeModeOK, OthersKeep, Freeing
  <2> QED
    BY <1>2, <1>4, <2>1 DEF FreeModeOK
<1>9. ApartOK' /\ CoveredOK'
  BY <1>2, <1>4, <1>6 DEF ApartOK, CoveredOK, ListsIInv
<1> QED
  BY <1>6, <1>7, <1>8, <1>9 DEF Shape

-----------------------------------------------------------------------------
(* All the steps. *)

\* A step of a thread keeps the two lists.
LEMMA ThreadShape ==
    ASSUME OneTaker, ListsIInv, TypeOK', NEW t \in Threads, OthersKeep(t), Acts(t)
    PROVE  Shape'
<1>t. TypeOK /\ CallOK(t)
  BY DEF ListsIInv, CallsOK
<1>w. t # Taker => t \in Putters
  BY TestRoles
<1>1. CASE CheckEnter(t)
  <2>1. in_free_mode[myq] => Quiet(t)
    BY <1>1, FreeQuiet
  <2> QED
    BY <1>1, <2>1, TestQuiet, TestCheckEnter
<1>2. CASE CheckStep(t)
  <2>1. pool' = pool /\ fr' = fr => Quiet(t)
    BY <1>2, FreeQuiet
  <2> QED
    BY <1>2, <2>1, TestQuiet, TestCheckStep
<1>3. CASE CheckExit(t)
  BY <1>3, TestCheckExit
<1>4. CASE t # Taker /\ PutStep(t)
  <2>1. ASSUME NEW v \in Values, Enqueue(t, myq, v) PROVE Shape'
    <3>1. pool' = pool => Quiet(t)
      BY <1>4, <2>1, PutQuiet
    <3> QED
      BY <1>4, <1>w, <2>1, <3>1, TestQuiet, TestEnqueue
  <2>2. CASE EnqLink(t)
    <3>1. next[tl[t]] # Null => Quiet(t)
      BY <1>4, <2>2, PutQuiet
    <3> QED
      BY <1>4, <1>w, <2>2, <3>1, TestQuiet, TestEnqLink
  <2>3. CASE EnqLoadTail(t) \/ EnqSize(t)
    <3>1. Quiet(t)
      BY <1>4, <2>3, PutQuiet
    <3> QED
      BY <3>1, TestQuiet
  <2>4. CASE EnqInit(t) \/ EnqSwing(t)
    BY <1>4, <1>w, <2>4, TestEnqInit, TestEnqSwing
  <2> QED
    BY <1>4, <2>1, <2>2, <2>3, <2>4 DEF PutStep
<1>5. CASE t = Taker /\ TakeStep
  <2>1. CASE \/ Dequeue(Taker, myq) \/ DeqLoadHead(Taker) \/ DeqLoadNext(Taker)
             \/ DeqTestTail(Taker) \/ DeqValue(Taker) \/ DeqSize(Taker) \/ RecycleLoad(Taker)
    <3>1. Quiet(Taker)
      BY <2>1, TakeQuiet
    <3> QED
      BY <1>5, <3>1, TestQuiet
  <2>2. CASE DeqTake(Taker) \/ RecycleLink(Taker) \/ RecycleTime(Taker) \/ RecycleMove(Taker)
    BY <1>5, <2>2, TestDeqTake, TestRecycleLink, TestRecycleTime, TestRecycleMove
  <2> QED
    BY <1>5, <2>1, <2>2 DEF TakeStep
<1> QED
  BY <1>1, <1>2, <1>3, <1>4, <1>5 DEF Acts, FreeStep

\* A step of a thread in its test.
LEMMA ThreadLists ==
    ASSUME OneTaker, ListsIInv, TestTypeOK, NEW t \in Threads, WorkerCall(t) \/ WorkerStep(t)
    PROVE  ListsIInv'
<1>1. Acts(t) /\ OthersKeep(t)
  BY TheActs, OwnSteps DEF ListsIInv
<1>2. TypeOK' /\ CallsOK'
  BY <1>1, TestTypeStep, CallsStep
<1>3. Shape'
  BY <1>1, <1>2, ThreadShape
<1> QED
  BY <1>2, <1>3 DEF ListsIInv, Shape

\* A second passes for the nodes and for the calls.
LEMMA TickLists ==
    ASSUME ListsIInv, Tick, UNCHANGED testVars
    PROVE  ListsIInv'
<1>r. Threads = Putters \cup {Taker} /\ Taker \in Threads
  BY TestRoles
<1>t. TypeOK /\ age \in [Nodes -> 0 .. Grace + 1] /\ elapsed \in [Threads -> 0 .. MaxCall]
  BY DEF ListsIInv, TypeOK
<1>1. UNCHANGED <<mem, queues, recycling, pool, pc, locals, history, testVars>>
  BY DEF Tick
<1>2. /\ age' = [n \in Nodes |-> IF age[n] <= Grace THEN age[n] + 1 ELSE age[n]]
      /\ elapsed' = [t \in Threads |-> IF pc[t] # "idle" THEN elapsed[t] + 1 ELSE 0]
      /\ \A t \in Threads : pc[t] # "idle" => elapsed[t] < MaxCall
  BY DEF Tick
<1>3. TypeOK'
  <2>1. age' \in [Nodes -> 0 .. Grace + 1]
    BY <1>t, <1>2, BoundsAssumption
  <2>2. elapsed' \in [Threads -> 0 .. MaxCall]
    BY <1>t, <1>2, BoundsAssumption
  <2> QED
    BY <1>t, <1>1, <2>1, <2>2 DEF TypeOK, mem, queues, recycling, locals, history
<1>4. CallsOK'
  BY <1>1 DEF ListsIInv, CallsOK, TurnsOK, CallOK, locals, testVars
<1>5. /\ Q' = Q /\ R' = R /\ InQ' = InQ /\ InR' = InR /\ Unlisted' = Unlisted
      /\ Untimed' = Untimed /\ TailBehind' = TailBehind /\ MoveBehind' = MoveBehind
      /\ \A w \in Putters : Hand(w)' = Hand(w)
  BY <1>1 DEF Q, R, InQ, InR, InChain, InRecycled, Unlisted, Untimed, TailBehind, MoveBehind,
              Hand, locals, history
<1>6. ASSUME NEW w \in Putters PROVE ProducerOK(w)'
  <2>1. ProducerOK(w)
    BY DEF ListsIInv
  <2>2. ASSUME pc[w] = "e_link", NEW n \in Nodes, Seen(n, w) PROVE Seen(n, w)'
    <3>1. elapsed'[w] = elapsed[w] + 1 /\ elapsed[w] \in 0 .. MaxCall
      BY <1>r, <1>t, <1>2, <2>2
    <3>2. age'[n] = (IF age[n] <= Grace THEN age[n] + 1 ELSE age[n]) /\ age[n] \in 0 .. Grace + 1
      BY <1>t, <1>2
    <3>3. age[n] <= elapsed[w] => age'[n] <= elapsed'[w]
      BY <3>1, <3>2, BoundsAssumption
    <3>4. next' = next /\ expired' = expired
      BY <1>1 DEF mem, recycling
    <3> QED
      BY <1>5, <2>2, <3>3, <3>4 DEF Seen
  <2> QED
    BY <1>1, <1>5, <2>1, <2>2 DEF ProducerOK, mem, queues, locals
<1>7. OneLinks' /\ ConsumerOK' /\ RecyclerOK'
  BY <1>1, <1>5 DEF ListsIInv, OneLinks, ConsumerOK, RecyclerOK, mem, queues, recycling, locals
<1>8. ChainOK' /\ ListOK'
  BY <1>1, <1>5 DEF ListsIInv, ChainOK, ListOK, mem, queues, recycling
<1>9. FreeModeOK'
  BY <1>1, <1>5 DEF ListsIInv, FreeModeOK, recycling, locals
<1>10. ApartOK' /\ CoveredOK'
  BY <1>1, <1>5 DEF ListsIInv, ApartOK, CoveredOK
<1> QED
  BY <1>3, <1>4, <1>6, <1>7, <1>8, <1>9, <1>10 DEF ListsIInv

\* A test begins or ends, or main does: the lists are what they were.
LEMMA TestLists ==
    ASSUME OneTaker, ListsIInv, TestTypeOK, StartTest \/ EndTest \/ Destroy
    PROVE  ListsIInv'
<1>1. /\ next' = next /\ value' = value /\ nextfree' = nextfree /\ head' = head /\ tail' = tail
      /\ root_free' = root_free /\ move_free' = move_free /\ in_free_mode' = in_free_mode
      /\ expired' = expired /\ pool' = pool /\ age' = age /\ chain' = chain
      /\ recycled' = recycled /\ delivered' = delivered /\ elapsed' = elapsed
      /\ pc' = pc /\ on' = on /\ arg' = arg /\ node' = node /\ tl' = tl /\ hd' = hd
      /\ nx' = nx /\ val' = val /\ fr' = fr /\ kind' = kind /\ unlinked' = unlinked
  BY DEF StartTest, EndTest, Destroy, lfqVars, mem, queues, recycling, locals, time, history
<1>2. TypeOK'
  <2>1. size' \in [Queues -> 0 .. Word - 1]
    <3>1. 0 \in 0 .. Word - 1 /\ size \in [Queues -> 0 .. Word - 1]
      BY WordAssumption DEF ListsIInv, TypeOK
    <3>2. size' = size \/ size' = [size EXCEPT ![myq] = 0]
      BY DEF StartTest, EndTest, Destroy, lfqVars, queues
    <3> QED
      BY <3>1, <3>2
  <2>2. TypeOK
    BY DEF ListsIInv
  <2> QED
    BY <1>1, <2>1, <2>2 DEF TypeOK
<1>3. /\ \A t \in Threads : pc[t] = "idle"
      /\ Drivers = {"one_enq_and_multi_deq"}
  <2>1. CASE StartTest \/ Destroy
    <3>1. test = "none"
      BY <2>1 DEF StartTest, Destroy
    <3> QED
      BY <3>1 DEF OneTaker, ListsIInv, CallsOK, CallOK
  <2>2. CASE EndTest
    BY <2>2 DEF EndTest, Busy, OneTaker
  <2> QED
    BY <2>1, <2>2
<1>4. TurnsOK'
  <2>1. CASE StartTest
    <3>1. /\ test' = "one_enq_and_multi_deq"
          /\ turn' = [t \in Threads |-> IF Puts("one_enq_and_multi_deq", t) THEN "put" ELSE "take"]
      BY <1>3, <2>1 DEF StartTest
    <3>2. ASSUME NEW t \in Threads PROVE turn'[t] = IF t = Taker THEN "take" ELSE "put"
      BY <3>1, TestRoles, OneWorker DEF Puts
    <3> QED
      BY <1>3, <3>1, <3>2 DEF TurnsOK
  <2>2. CASE EndTest
    <3>1. \A t \in Threads : left[t] = 0
      <4>1. \A t \in Threads : ~(left[t] > 0) /\ left[t] \in 0 .. nthreads * total_put
        BY <2>2 DEF EndTest, Busy, TestTypeOK
      <4>2. \A x \in 0 .. nthreads * total_put : x \in Int /\ x >= 0
        OBVIOUS
      <4> QED
        BY <4>1, <4>2
    <3> QED
      BY <1>3, <2>2, <3>1 DEF EndTest, TurnsOK
  <2>3. CASE Destroy
    BY <1>3, <2>3 DEF Destroy, TurnsOK, ListsIInv, CallsOK
  <2> QED
    BY <2>1, <2>2, <2>3
<1>5. CallsOK'
  BY <1>1, <1>3, <1>4 DEF ListsIInv, CallsOK, CallOK
<1>6. /\ Q' = Q /\ R' = R /\ InQ' = InQ /\ InR' = InR /\ Unlisted' = Unlisted
      /\ Untimed' = Untimed /\ TailBehind' = TailBehind /\ MoveBehind' = MoveBehind
      /\ \A w \in Putters : Hand(w)' = Hand(w)
  BY <1>1 DEF Q, R, InQ, InR, InChain, InRecycled, Unlisted, Untimed, TailBehind, MoveBehind,
              Hand
<1>7. \A w \in Putters : ProducerOK(w)'
  BY <1>1, <1>6 DEF ListsIInv, ProducerOK, Seen
<1>8. OneLinks' /\ ConsumerOK' /\ RecyclerOK'
  BY <1>1, <1>6 DEF ListsIInv, OneLinks, ConsumerOK, RecyclerOK
<1>9. ChainOK' /\ ListOK'
  BY <1>1, <1>6 DEF ListsIInv, ChainOK, ListOK
<1>10. FreeModeOK'
  BY <1>1, <1>6 DEF ListsIInv, FreeModeOK
<1>11. ApartOK' /\ CoveredOK'
  BY <1>1, <1>6 DEF ListsIInv, ApartOK, CoveredOK
<1> QED
  BY <1>2, <1>5, <1>7, <1>8, <1>9, <1>10, <1>11 DEF ListsIInv

\* Nothing changes.
LEMMA StutterLists ==
    ASSUME ListsIInv, UNCHANGED <<vars, testVars>>
    PROVE  ListsIInv'
<1>1. UNCHANGED <<mem, queues, recycling, pool, pc, locals, time, history, testVars>>
  BY DEF vars
<1>2. TypeOK'
  BY <1>1 DEF ListsIInv, TypeOK, mem, queues, recycling, locals, time, history
<1>3. CallsOK'
  BY <1>1 DEF ListsIInv, CallsOK, TurnsOK, CallOK, locals, testVars
<1>4. /\ Q' = Q /\ R' = R /\ InQ' = InQ /\ InR' = InR /\ Unlisted' = Unlisted
      /\ Untimed' = Untimed /\ TailBehind' = TailBehind /\ MoveBehind' = MoveBehind
      /\ \A w \in Putters : Hand(w)' = Hand(w)
  BY <1>1 DEF Q, R, InQ, InR, InChain, InRecycled, Unlisted, Untimed, TailBehind, MoveBehind,
              Hand, locals, history
<1>5. \A w \in Putters : ProducerOK(w)'
  BY <1>1, <1>4 DEF ListsIInv, ProducerOK, Seen, mem, queues, recycling, locals, time
<1>6. OneLinks' /\ ConsumerOK' /\ RecyclerOK'
  BY <1>1, <1>4 DEF ListsIInv, OneLinks, ConsumerOK, RecyclerOK, mem, queues, recycling, locals
<1>7. ChainOK' /\ ListOK'
  BY <1>1, <1>4 DEF ListsIInv, ChainOK, ListOK, mem, queues, recycling
<1>8. FreeModeOK'
  BY <1>1, <1>4 DEF ListsIInv, FreeModeOK, recycling, locals
<1>9. ApartOK' /\ CoveredOK'
  BY <1>1, <1>4 DEF ListsIInv, ApartOK, CoveredOK
<1> QED
  BY <1>2, <1>3, <1>5, <1>6, <1>7, <1>8, <1>9 DEF ListsIInv

\* The queue of the tests begins with one node, and its recycle list with another.
LEMMA TestBegins ==
    ASSUME OneTaker, TestInit
    PROVE  ListsIInv
<1>1. Init
  BY DEF TestInit
<1>2. TypeOK
  BY <1>1, QueueInit DEF QueueIInv
<1>3. /\ Base[myq] \in Nodes /\ FreeBase[myq] \in Nodes /\ Base[myq] # FreeBase[myq]
      /\ myq \in Queues
  BY TestRoles, NodesAssumption
<1>4. /\ Q = <<Base[myq]>> /\ R = <<FreeBase[myq]>> /\ head[myq] = Base[myq]
      /\ tail[myq] = Base[myq] /\ root_free[myq] = FreeBase[myq]
      /\ move_free[myq] = FreeBase[myq] /\ in_free_mode[myq] = FALSE
      /\ pool = Nodes \ {Base[myq], FreeBase[myq]}
      /\ \A n \in Nodes : next[n] = Null /\ nextfree[n] = Null
  BY <1>1, <1>3, TestRoles DEF Init, Q, R
<1>5. /\ Len(Q) = 1 /\ Q[1] = Base[myq] /\ InQ = {Base[myq]} /\ Last(Q) = Base[myq]
      /\ Len(R) = 1 /\ R[1] = FreeBase[myq] /\ InR = {FreeBase[myq]} /\ Last(R) = FreeBase[myq]
  BY <1>4 DEF InQ, InR, InChain, InRecycled, Elements, Q, R, Last
<1>6. /\ \A t \in Threads : pc[t] = "idle" /\ arg[t] = Null /\ val[t] = Null
      /\ Taker \in Threads /\ Putters \subseteq Threads
  BY <1>1, TestRoles DEF Init
<1>7. CallsOK
  <2>1. test = "none" /\ \A t \in Threads : left[t] = 0
    BY DEF TestInit
  <2> QED
    BY <1>6, <2>1 DEF OneTaker, CallsOK, TurnsOK, CallOK, TakerLabels, PutterLabels, EnqLabels,
       CheckLabels, RecycleLabels
<1>8. /\ \A w \in Putters : ProducerOK(w) /\ Hand(w) = {}
      /\ OneLinks /\ ConsumerOK /\ RecyclerOK /\ ~TailBehind /\ ~MoveBehind /\ Unlisted = {}
  BY <1>6 DEF ProducerOK, Hand, OneLinks, ConsumerOK, RecyclerOK, TailBehind, MoveBehind,
              Unlisted, RecycleLabels
<1>9. ChainOK /\ ListOK
  BY <1>3, <1>4, <1>5, <1>8 DEF ChainOK, ListOK
<1>10. FreeModeOK
  BY <1>4, <1>5, <1>6 DEF FreeModeOK, Freeing
<1>11. ApartOK /\ CoveredOK
  BY <1>3, <1>4, <1>5, <1>8 DEF ApartOK, CoveredOK
<1> QED
  BY <1>2, <1>7, <1>8, <1>9, <1>10, <1>11 DEF ListsIInv

-----------------------------------------------------------------------------
(* The counts. *)

\* What the putters have still to put, one pair for each value; the putters that have
\* a value in the queue and have not yet counted it, or will count what they could not
\* put; and whether the taker has taken one and has not yet counted it.
Turns == {x \in Putters \X (1 .. total_put) : x[2] <= left[x[1]]}
Uncounted == {w \in Putters : pc[w] \in {"e_swing", "e_size"} \cup CheckLabels}
Took ==
    IF \/ pc[Taker] \in {"d_size"} \cup RecycleLabels
       \/ (pc[Taker] \in CheckLabels /\ val[Taker] # Null)
    THEN 1 ELSE 0

\* The taker has as many turns to do as the putters have, and the queue has values.
CountsOK ==
    /\ \A w \in Putters : left[w] \in 0 .. total_put
    /\ size[myq] = (left[Taker] - Cardinality(Turns)) % Word
    /\ Len(Q) - 1 + Cardinality(Turns) + Took <= left[Taker] + Cardinality(Uncounted)

EndOK == test \in {"none", "over"} => size[myq] = 0 /\ Len(Q) = 1

\* The counts are numbers.
LEMMA CountTypes ==
    /\ IsFiniteSet(Putters) /\ nthreads \in Nat /\ total_put \in Nat
    /\ nthreads * total_put \in Nat
    /\ IsFiniteSet(Turns) /\ Cardinality(Turns) \in Nat
    /\ IsFiniteSet(Uncounted) /\ Cardinality(Uncounted) \in Nat
    /\ Took \in {0, 1}
<1>1. IsFiniteSet(Putters) /\ total_put \in Nat
  <2>1. IsFiniteSet(Workers \cup {Main})
    BY TestAssumption, FS_AddElement
  <2>2. Putters \subseteq Workers \cup {Main}
    BY TestAssumption DEF Putters
  <2> QED
    BY <2>1, <2>2, TestAssumption, FS_Subset
<1>2. nthreads \in Nat
  BY TestAssumption, FS_CardinalityType DEF nthreads
<1>3. IsFiniteSet(1 .. total_put)
  BY <1>1, FS_Interval
<1>4. IsFiniteSet(Putters \X (1 .. total_put))
  BY <1>1, <1>3, FS_Product
<1>5. IsFiniteSet(Turns) /\ Cardinality(Turns) \in Nat
  BY <1>4, FS_Subset, FS_CardinalityType DEF Turns
<1>6. IsFiniteSet(Uncounted) /\ Cardinality(Uncounted) \in Nat
  BY <1>1, FS_Subset, FS_CardinalityType DEF Uncounted
<1>7. nthreads * total_put \in Nat
  BY <1>1, <1>2
<1> QED
  BY <1>1, <1>2, <1>5, <1>6, <1>7 DEF Took

\* A test begins with all turns to do.
LEMMA AllTurns ==
    ASSUME OneTaker, \A w \in Putters : left'[w] = total_put
    PROVE  Cardinality(Turns') = nthreads * total_put
<1>1. Turns' = Putters \X (1 .. total_put)
  BY CountTypes DEF Turns
<1>2. IsFiniteSet(1 .. total_put) /\ Cardinality(1 .. total_put) = total_put
  <2>1. total_put \in Int /\ 1 \in Int /\ total_put >= 0
    BY CountTypes
  <2>2. /\ IsFiniteSet(1 .. total_put)
        /\ Cardinality(1 .. total_put) = IF 1 > total_put THEN 0 ELSE total_put - 1 + 1
    BY <2>1, FS_Interval, Zenon
  <2> QED
    BY <2>1, <2>2
<1>3. Cardinality(Putters) = 1
  BY OneWorker, FS_Singleton
<1>4. Cardinality(Putters \X (1 .. total_put)) = 1 * total_put
  <2>1. Cardinality(Putters \X (1 .. total_put))
          = Cardinality(Putters) * Cardinality(1 .. total_put)
    BY <1>2, CountTypes, FS_Product, Zenon
  <2> QED
    BY <1>2, <1>3, <2>1
<1> QED
  BY <1>1, <1>4, OneWorker

\* And ends with none.
LEMMA NoTurns ==
    ASSUME \A w \in Putters : left[w] = 0
    PROVE  Cardinality(Turns) = 0
<1>1. Turns = {}
  BY DEF Turns
<1> QED
  BY <1>1, FS_EmptySet

\* A putter has done one.
LEMMA OneTurn ==
    ASSUME TestTypeOK, NEW w \in Putters, left[w] \in 1 .. total_put,
           left' = [left EXCEPT ![w] = @ - 1]
    PROVE  Cardinality(Turns') = Cardinality(Turns) - 1
<1>1. /\ left'[w] = left[w] - 1 /\ \A u \in Putters \ {w} : left'[u] = left[u]
      /\ \A u \in Putters : left[u] \in Int
  <2>1. Putters \subseteq Threads /\ DOMAIN left = Threads
    BY TestRoles DEF TestTypeOK
  <2>2. \A u \in Putters : left[u] \in 0 .. nthreads * total_put
    BY <2>1 DEF TestTypeOK
  <2>3. \A i \in 0 .. nthreads * total_put : i \in Int
    OBVIOUS
  <2> QED
    BY <2>1, <2>2, <2>3
<1>2. <<w, left[w]>> \in Turns
  BY DEF Turns
<1>3. Turns' = Turns \ {<<w, left[w]>>}
  <2>1. ASSUME NEW u \in Putters, NEW k \in 1 .. total_put
        PROVE  k <= left'[u] <=> k <= left[u] /\ <<u, k>> # <<w, left[w]>>
    BY <1>1, CountTypes
  <2>2. ASSUME NEW x \in Putters \X (1 .. total_put)
        PROVE  x[2] <= left'[x[1]] <=> x[2] <= left[x[1]] /\ x # <<w, left[w]>>
    BY <2>1
  <2> QED
    BY <2>2 DEF Turns
<1> QED
  BY <1>2, <1>3, CountTypes, FS_RemoveElement

\* What a step does to the queue and to the counts.
LEMMA CountFacts ==
    ASSUME OneTaker, ListsIInv, TypeOK', NEW t \in Threads, OthersKeep(t), Acts(t)
    PROVE  IF pc[t] \in {"e_size", "d_size"}
           THEN Resize(myq, IF t = Taker THEN -1 ELSE 1) /\ chain' = chain
           ELSE /\ size' = size
                /\ \/ chain' = chain /\ (t \in Uncounted => t \in Uncounted') /\ Took' <= Took
                   \/ /\ t # Taker /\ pc[t] = "e_link" /\ pc'[t] = "e_swing"
                      /\ Len(Q') = Len(Q) + 1
                   \/ /\ t = Taker /\ pc[t] = "d_take" /\ pc'[t] = "r_load"
                      /\ Len(Q') = Len(Q) - 1
<1>t. TypeOK /\ CallOK(t) /\ Null \notin Values /\ (t # Taker => t \in Putters)
      /\ (t \in Putters => t # Taker)
  BY NodesAssumption, TestRoles DEF ListsIInv, CallsOK
<1>k. t # Taker => Took' = Took
  BY TestRoles DEF Took, OthersKeep
<1>b. Took' \in {0, 1} /\ Took \in {0, 1}
  BY DEF Took
<1>u. t = Taker => t \notin Uncounted
  BY <1>t DEF Uncounted
<1>m. ASSUME pc[t] \in CheckLabels, pc'[t] \in CheckLabels, val' = val
      PROVE  (t \in Uncounted => t \in Uncounted') /\ Took' <= Took
  <2>1. CASE t = Taker
    <3>1. Took' = Took
      BY <1>m, <2>1 DEF Took, CheckLabels, RecycleLabels
    <3> QED
      BY <1>b, <1>u, <2>1, <3>1
  <2>2. CASE t # Taker
    BY <1>b, <1>k, <1>m, <2>2 DEF Uncounted
  <2> QED
    BY <2>1, <2>2
<1> USE DEF Goto, locals
<1>c. ASSUME CheckDone(t), pc[t] \in {"c_enter", "c_exit"}
      PROVE  (t \in Uncounted => t \in Uncounted') /\ Took' <= Took
  <2>1. ASSUME NEW l, fr' = [fr EXCEPT ![t] = Null], pc' = [pc EXCEPT ![t] = l],
               l = IF arg[t] # Null THEN "e_size" ELSE "d_size", arg[t] # Null \/ val[t] # Null,
               UNCHANGED <<on, arg, node, tl, hd, nx, val, kind, time>>
        PROVE  (t \in Uncounted => t \in Uncounted') /\ Took' <= Took
    <3>1. pc'[t] = l
      BY <1>t, <2>1, LocalTypes
    <3>2. CASE t = Taker
      BY <1>b, <1>c, <1>t, <1>u, <2>1, <3>1, <3>2 DEF CallOK, Took, CheckLabels
    <3>3. CASE t # Taker
      BY <1>b, <1>c, <1>k, <1>t, <2>1, <3>1, <3>3 DEF CallOK, Uncounted, CheckLabels
    <3> QED
      BY <3>2, <3>3
  <2>2. CASE arg[t] = Null /\ val[t] = Null /\ Return(t)
    <3>1. t = Taker
      BY <1>c, <1>t, <2>2 DEF CallOK, CheckLabels
    <3>2. pc'[t] = "idle"
      BY <1>t, <2>2, LocalTypes DEF Return
    <3> QED
      BY <1>b, <1>u, <3>1, <3>2 DEF Took, RecycleLabels, CheckLabels
  <2> QED
    BY <1>c, <2>1, <2>2 DEF CheckDone
<1>1. CASE CheckEnter(t)
  <2>1. pc[t] = "c_enter" /\ size' = size /\ chain' = chain
    BY <1>1 DEF CheckEnter, queues, history
  <2>2. CASE pc' = [pc EXCEPT ![t] = "c_step"] /\ val' = val
    <3>1. pc'[t] = "c_step"
      BY <1>t, <2>2, LocalTypes
    <3> QED
      BY <1>m, <2>1, <2>2, <3>1 DEF CheckLabels
  <2> QED
    BY <1>1, <1>c, <2>1, <2>2 DEF CheckEnter
<1>2. CASE CheckStep(t)
  <2>1. pc[t] = "c_step" /\ pc'[t] \in {"c_step", "c_exit"} /\ size' = size /\ chain' = chain
        /\ val' = val
    BY <1>2, <1>t, LocalTypes DEF CheckStep, FreeNext, queues
  <2> QED
    BY <1>m, <2>1 DEF CheckLabels
<1>3. CASE CheckExit(t)
  BY <1>3, <1>c DEF CheckExit, queues, history
<1>4. CASE t # Taker /\ PutStep(t)
  <2>1. CASE EnqSize(t)
    <3>1. on[t] = myq /\ pc[t] = "e_size"
      BY <1>t, <2>1 DEF EnqSize, CallOK
    <3> QED
      BY <1>4, <2>1, <3>1 DEF EnqSize, history
  <2>2. CASE EnqInit(t) \/ EnqLoadTail(t) \/ \E v \in Values : Enqueue(t, myq, v)
    <3>1. /\ pc[t] \in {"idle", "e_init", "e_tail"} /\ size' = size /\ chain' = chain
      BY <2>2 DEF EnqInit, EnqLoadTail, Enqueue, queues, history
    <3> QED
      BY <1>b, <1>k, <1>4, <3>1 DEF Uncounted, CheckLabels
  <2>3. CASE EnqSwing(t)
    <3>1. /\ pc[t] = "e_swing" /\ pc'[t] \in {"c_enter", "e_size"} /\ size' = size
          /\ chain' = chain
      BY <1>t, <2>3, LocalTypes DEF EnqSwing, AfterSwing, history
    <3> QED
      BY <1>b, <1>k, <1>t, <1>4, <3>1 DEF Uncounted, CheckLabels
  <2>4. CASE EnqLink(t)
    <3>1. pc[t] = "e_link" /\ on[t] = myq /\ size' = size
      BY <1>t, <2>4 DEF EnqLink, queues, CallOK
    <3>2. t \notin Uncounted
      BY <3>1 DEF Uncounted, CheckLabels
    <3>3. CASE chain' = chain
      BY <1>b, <1>k, <1>4, <3>1, <3>2, <3>3
    <3>4. CASE chain' # chain
      <4>1. /\ pc'[t] = "e_swing" /\ Q' = Linked(Q, tl[t], node[t])
        BY <1>t, <2>4, <3>1, <3>4, LocalTypes, OneQueue DEF EnqLink, Q
      <4>2. Linked(Q, tl[t], node[t]) # Q
        <5>1. chain' = [chain EXCEPT ![myq] = Linked(Q, tl[t], node[t])]
          BY <2>4, <3>1, <3>4 DEF EnqLink, Q
        <5>2. [chain EXCEPT ![myq] = Q] = chain
          BY <1>t DEF Q, TypeOK
        <5> QED
          BY <3>4, <5>1, <5>2
      <4>3. Q' = Append(Q, node[t])
        BY <4>1, <4>2 DEF Linked
      <4>4. node[t] \in Nodes /\ Q \in Seq(Nodes)
        BY <1>t, <3>1, AtLabel, OneQueue
      <4>5. Len(Q') = Len(Q) + 1
        BY <4>3, <4>4, AppendProperties
      <4> QED
        BY <1>4, <3>1, <4>1, <4>5
    <3> QED
      BY <3>3, <3>4
  <2> QED
    BY <1>4, <2>1, <2>2, <2>3, <2>4 DEF PutStep
<1>5. CASE t = Taker /\ TakeStep
  <2>1. CASE DeqSize(t)
    <3>1. on[t] = myq /\ pc[t] = "d_size"
      BY <1>t, <2>1 DEF DeqSize, CallOK
    <3> QED
      BY <1>5, <2>1, <3>1 DEF DeqSize, history
  <2>2. CASE \/ Dequeue(t, myq) \/ DeqLoadHead(t) \/ DeqLoadNext(t) \/ DeqValue(t)
    <3>1. /\ pc[t] \in {"idle", "d_head", "d_next", "d_value"}
          /\ pc'[t] \in {"d_head", "d_next", "d_tail", "d_take"} /\ size' = size
          /\ chain' = chain
      BY <1>t, <2>2, LocalTypes
         DEF Dequeue, DeqLoadHead, DeqLoadNext, DeqValue, queues, history
    <3>2. Took' = 0
      BY <1>5, <3>1 DEF Took, RecycleLabels, CheckLabels
    <3> QED
      BY <1>b, <1>u, <1>5, <3>1, <3>2
  <2>3. CASE DeqTestTail(t)
    <3>1. pc[t] = "d_tail" /\ val[t] = Null /\ kind[t] = "deq"
      BY <1>t, <1>5, <2>3 DEF DeqTestTail, CallOK
    <3>2. /\ pc'[t] \in {"d_head", "d_value", "c_enter"} /\ val' = val /\ size' = size
          /\ chain' = chain
      BY <1>t, <2>3, <3>1, LocalTypes DEF DeqTestTail, DeqEmpty, queues, history
    <3>3. Took' = 0
      BY <1>5, <3>1, <3>2 DEF Took, RecycleLabels, CheckLabels
    <3> QED
      BY <1>b, <1>u, <1>5, <3>1, <3>2, <3>3
  <2>4. CASE DeqTake(t)
    <3>1. pc[t] = "d_take" /\ on[t] = myq /\ kind[t] = "deq" /\ hd[t] = head[myq]
          /\ Len(Q) > 1
      BY <1>t, <1>5, <2>4 DEF DeqTake, CallOK, ListsIInv, ConsumerOK
    <3>2. /\ chain' = [chain EXCEPT ![myq] = SubSeq(@, 2, Len(@))] /\ size' = size
          /\ pc'[t] = "r_load"
      BY <1>t, <2>4, <3>1, LocalTypes DEF DeqTake
    <3>3. Q' = SubSeq(Q, 2, Len(Q))
      BY <1>t, <3>2, OneQueue DEF Q
    <3>4. Shorter(Q', Q)
      BY <1>t, <3>1, <3>3, OneQueue, Shortened DEF ListsIInv, ApartOK
    <3> QED
      BY <1>5, <3>1, <3>2, <3>4 DEF Shorter
  <2>5. CASE RecycleLoad(t) \/ RecycleLink(t) \/ RecycleTime(t) \/ RecycleMove(t)
    <3>1. /\ pc[t] \in RecycleLabels /\ size' = size /\ chain' = chain
      BY <2>5 DEF RecycleLoad, RecycleLink, RecycleTime, RecycleMove, queues, history,
                  RecycleLabels
    <3>2. Took = 1
      BY <1>5, <3>1 DEF Took
    <3> QED
      BY <1>b, <1>u, <1>5, <3>1, <3>2 DEF RecycleLabels
  <2> QED
    BY <1>5, <2>1, <2>2, <2>3, <2>4, <2>5 DEF TakeStep
<1> QED
  BY <1>1, <1>2, <1>3, <1>4, <1>5 DEF Acts, FreeStep

-----------------------------------------------------------------------------
(* The loop of lfqueue_destroy. *)

\* Of the turns of a loop that do not what they should there is a first.
LEMMA FirstTurn ==
    ASSUME NEW S, S \subseteq Nat, S # {}
    PROVE  \E k \in S : \A l \in S : ~(l < k)
<1>1. \E k \in S : \A l \in S : <<l, k>> \notin OpToRel(<, Nat)
  <2> DEFINE Less == OpToRel(<, Nat)
  <2>1. IsWellFoundedOn(Less, Nat)
    BY NatLessThanWellFounded, Zenon
  <2> HIDE DEF Less
  <2>2. \E k \in S : \A l \in S : <<l, k>> \notin Less
    BY <2>1, WFMin, Zenon
  <2> QED
    BY <2>2, Zenon DEF Less
<1>2. \A k, l \in Nat : l < k => <<l, k>> \in OpToRel(<, Nat)
  BY Zenon DEF OpToRel
<1> QED
  BY <1>1, <1>2, Zenon

\* A list without doubles has as many nodes as it is long.
LEMMA DistinctLength ==
    ASSUME NEW s \in Seq(Nodes), \A i, j \in 1 .. Len(s) : s[i] = s[j] => i = j
    PROVE  Cardinality(Elements(s)) = Len(s)
<1>1. Len(s) \in Nat /\ s \in [1 .. Len(s) -> Elements(s)]
  <2>1. Len(s) \in Nat /\ s \in [1 .. Len(s) -> Nodes]
    BY LenProperties
  <2> QED
    BY <2>1 DEF Elements
<1>2. s \in Bijection(1 .. Len(s), Elements(s))
  <2>1. \A a, b \in 1 .. Len(s) : s[a] = s[b] => a = b
    OBVIOUS
  <2>2. \A n \in Elements(s) : \E a \in 1 .. Len(s) : s[a] = n
    BY DEF Elements
  <2> QED
    BY <1>1, <2>1, <2>2, Fun_IsBij
<1>3. ExistsBijection(1 .. Len(s), Elements(s))
  BY <1>2 DEF ExistsBijection
<1> QED
  BY <1>1, <1>3, FS_CountingElements

\* And no longer than there are nodes.
LEMMA DistinctFits ==
    ASSUME NEW s \in Seq(Nodes), \A i, j \in 1 .. Len(s) : s[i] = s[j] => i = j
    PROVE  Len(s) <= Cardinality(Nodes) /\ Cardinality(Nodes) \in Nat
<1>1. IsFiniteSet(Nodes)
  BY TestAssumption
<1>2. Elements(s) \subseteq Nodes
  BY LenProperties DEF Elements
<1>3. Cardinality(Elements(s)) <= Cardinality(Nodes) /\ Cardinality(Nodes) \in Nat
  BY <1>1, <1>2, FS_Subset, FS_CardinalityType
<1> QED
  BY <1>3, DistinctLength

\* The first k nodes of the recycle list.
Walked(k) == SubSeq(R, 1, k)

\* They are k, as they are in the list.
LEMMA WalkedFacts ==
    ASSUME TypeOK, NEW k \in 1 .. Len(R)
    PROVE  /\ Walked(k) \in Seq(Nodes) /\ Len(Walked(k)) = k
           /\ \A i \in 1 .. k : Walked(k)[i] = R[i]
           /\ Last(Walked(k)) = R[k]
<1>1. Len(R) \in Nat /\ \A i \in 1 .. Len(R) : R[i] \in Nodes
  BY OneQueue
<1>2. /\ Walked(k) \in Seq(Nodes) /\ Len(Walked(k)) = IF 1 <= k THEN k - 1 + 1 ELSE 0
      /\ \A i \in 1 .. k - 1 + 1 : Walked(k)[i] = R[1 + i - 1]
  <2>1. 1 \in Int /\ k \in Int /\ \A i \in 1 .. k : R[i] \in Nodes
    BY <1>1
  <2>2. /\ SubSeq(R, 1, k) \in Seq(Nodes)
        /\ Len(SubSeq(R, 1, k)) = IF 1 <= k THEN k - 1 + 1 ELSE 0
        /\ \A i \in 1 .. k - 1 + 1 : SubSeq(R, 1, k)[i] = R[1 + i - 1]
    <3> HIDE DEF R
    <3> QED
      BY <2>1, SubSeqProperties
  <2> QED
    BY <2>2 DEF Walked
<1>3. Len(Walked(k)) = k /\ \A i \in 1 .. k : Walked(k)[i] = R[i]
  BY <1>1, <1>2
<1> QED
  BY <1>1, <1>2, <1>3 DEF Last

\* The whole of it is the list, and one more is one longer.
LEMMA WalkedOn ==
    ASSUME TypeOK, NEW k \in 1 .. Len(R)
    PROVE  /\ Walked(Len(R)) = R
           /\ k + 1 \in 1 .. Len(R) => Append(Walked(k), R[k + 1]) = Walked(k + 1)
<1>1. R \in Seq(Nodes) /\ Len(R) \in Nat /\ \A i \in 1 .. Len(R) : R[i] \in Nodes
  BY OneQueue
<1>2. Walked(Len(R)) = R
  <2>1. Len(R) \in 1 .. Len(R)
    BY <1>1
  <2>2. /\ Walked(Len(R)) \in Seq(Nodes) /\ Len(Walked(Len(R))) = Len(R)
        /\ \A i \in 1 .. Len(R) : Walked(Len(R))[i] = R[i]
    BY <2>1, WalkedFacts
  <2> QED
    BY <1>1, <2>2, SeqEqual
<1>3. ASSUME k + 1 \in 1 .. Len(R) PROVE Append(Walked(k), R[k + 1]) = Walked(k + 1)
  <2>1. /\ Walked(k) \in Seq(Nodes) /\ Len(Walked(k)) = k
        /\ \A i \in 1 .. k : Walked(k)[i] = R[i]
    BY WalkedFacts
  <2>2. /\ Walked(k + 1) \in Seq(Nodes) /\ Len(Walked(k + 1)) = k + 1
        /\ \A i \in 1 .. k + 1 : Walked(k + 1)[i] = R[i]
    BY <1>3, WalkedFacts
  <2>3. /\ Append(Walked(k), R[k + 1]) \in Seq(Nodes)
        /\ Len(Append(Walked(k), R[k + 1])) = k + 1
        /\ \A i \in 1 .. k : Append(Walked(k), R[k + 1])[i] = R[i]
        /\ Append(Walked(k), R[k + 1])[k + 1] = R[k + 1]
    BY <1>1, <1>3, <2>1, AppendProperties
  <2>4. \A i \in 1 .. k + 1 : i \in 1 .. k \/ i = k + 1
    BY <1>1
  <2>5. \A i \in 1 .. k + 1 : Append(Walked(k), R[k + 1])[i] = Walked(k + 1)[i]
    BY <2>2, <2>3, <2>4
  <2> QED
    BY <2>2, <2>3, <2>5, SeqEqual
<1> QED
  BY <1>2, <1>3

\* The loop of lfqueue_destroy walks the recycle list from its first node to its last.
LEMMA ListWalked ==
    ASSUME TypeOK, ListOK, ApartOK
    PROVE  ListFrom(R[1], Last(R)) = R
<1> DEFINE N == Cardinality(Nodes)
           S == 0 .. N
           Upto(i) == IF i < Len(R) THEN i + 1 ELSE Len(R)
           Body(f, i) ==
              IF i = 0 THEN <<R[1]>>
              ELSE LET s == f[i - 1]
                   IN  IF Last(s) = Last(R) \/ nextfree[Last(s)] = Null THEN s
                       ELSE Append(s, nextfree[Last(s)])
           F == [i \in S |-> Walked(Upto(i))]
           W == CHOOSE f : f = [i \in S |-> Body(f, i)]
<1>1. /\ Len(R) \in Nat /\ Len(R) > 0 /\ \A i \in 1 .. Len(R) : R[i] \in Nodes
      /\ \A i, j \in 1 .. Len(R) : R[i] = R[j] => i = j
      /\ \A i \in 1 .. Len(R) - 1 : nextfree[R[i]] = R[i + 1]
      /\ Last(R) = R[Len(R)] /\ Null \notin Nodes
  BY OneQueue, NodesAssumption DEF ListOK, ApartOK, Last
<1>2. Len(R) <= N /\ N \in Nat
  BY <1>1, OneQueue, DistinctFits
<1>3. Walked(1) = <<R[1]>>
  <2>1. /\ Walked(1) \in Seq(Nodes) /\ Len(Walked(1)) = 1
        /\ \A i \in 1 .. 1 : Walked(1)[i] = R[i]
    <3>1. 1 \in 1 .. Len(R)
      BY <1>1
    <3> QED
      BY <3>1, WalkedFacts
  <2>2. <<R[1]>> \in Seq(Nodes) /\ Len(<<R[1]>>) = 1 /\ <<R[1]>>[1] = R[1]
    BY <1>1
  <2> QED
    BY <2>1, <2>2, SeqEqual
<1> HIDE DEF N
<1>4. ASSUME NEW f, NEW i \in S, i # 0, f[i - 1] = Walked(Upto(i - 1))
      PROVE  Body(f, i) = Walked(Upto(i))
  <2>1. Upto(i - 1) \in 1 .. Len(R) /\ i - 1 \in Nat
    BY <1>1, <1>2, <1>4
  <2> DEFINE k == Upto(i - 1)
             s == Walked(k)
  <2>2. Last(s) = R[k]
    BY <2>1, WalkedFacts
  <2>3. CASE k = Len(R)
    <3>1. Upto(i) = Len(R)
      BY <1>1, <1>2, <1>4, <2>3
    <3> QED
      BY <1>1, <1>4, <2>2, <2>3, <3>1
  <2>4. CASE k # Len(R)
    <3>1. Upto(i) = k + 1 /\ k \in 1 .. Len(R) - 1 /\ k + 1 \in 1 .. Len(R)
          /\ Len(R) \in 1 .. Len(R)
      BY <1>1, <1>2, <1>4, <2>1, <2>4
    <3>2. Last(s) # Last(R) /\ nextfree[Last(s)] = R[k + 1] /\ R[k + 1] # Null
      BY <1>1, <2>1, <2>2, <2>4, <3>1
    <3>3. Append(s, R[k + 1]) = Walked(k + 1)
      BY <2>1, <3>1, WalkedOn
    <3>4. Body(f, i) = Append(s, R[k + 1])
      BY <1>4, <3>2
    <3> QED
      BY <3>1, <3>3, <3>4
  <2> QED
    BY <2>3, <2>4
<1>5. ASSUME NEW f PROVE Body(f, 0) = Walked(Upto(0))
  BY <1>1, <1>3
<1> HIDE DEF Body
<1>6. F = [i \in S |-> Body(F, i)]
  <2>1. ASSUME NEW i \in S PROVE Walked(Upto(i)) = Body(F, i)
    <3>1. CASE i = 0
      BY <1>5, <3>1
    <3>2. CASE i # 0
      <4>1. i - 1 \in S
        BY <1>2, <3>2
      <4>2. F[i - 1] = Walked(Upto(i - 1))
        BY <4>1
      <4> QED
        BY <1>4, <3>2, <4>2
    <3> QED
      BY <3>1, <3>2
  <2> QED
    BY <2>1
<1>7. W = [i \in S |-> Body(W, i)]
  <2>1. \E f : f = [i \in S |-> Body(f, i)]
    BY <1>6
  <2> QED
    BY <2>1, Zenon
<1> HIDE DEF W, Upto
<1>8. \A i \in S : W[i] = Walked(Upto(i))
  <2> DEFINE Bad == {i \in S : W[i] # Walked(Upto(i))}
  <2>1. SUFFICES ASSUME Bad # {} PROVE FALSE
    OBVIOUS
  <2>2. PICK k \in Bad : \A l \in Bad : ~(l < k)
    <3>1. Bad \subseteq Nat
      BY <1>2
    <3> HIDE DEF Bad
    <3> QED
      BY <2>1, <3>1, FirstTurn
  <2>3. k \in S /\ W[k] = Body(W, k)
    BY <1>7
  <2>4. CASE k = 0
    BY <1>5, <2>3, <2>4
  <2>5. CASE k # 0
    <3>1. k - 1 \in S /\ k - 1 < k
      BY <1>2, <2>3, <2>5
    <3>2. W[k - 1] = Walked(Upto(k - 1))
      BY <2>2, <3>1
    <3>3. Body(W, k) = Walked(Upto(k))
      BY <1>4, <2>3, <2>5, <3>2
    <3> QED
      BY <2>3, <3>3
  <2> QED
    BY <2>4, <2>5
<1>9. ListFrom(R[1], Last(R)) = W[N]
  BY Zenon DEF ListFrom, W, Body, N
<1>10. Upto(N) = Len(R) /\ N \in S
  BY <1>1, <1>2 DEF Upto
<1>11. Walked(Len(R)) = R
  <2>1. 1 \in 1 .. Len(R)
    BY <1>1
  <2> QED
    BY <2>1, WalkedOn
<1> QED
  BY <1>8, <1>9, <1>10, <1>11

-----------------------------------------------------------------------------
(* The counts at each step. *)

\* Some of the putters are a number of them, fewer are fewer.
LEMMA SomeWorkers ==
    ASSUME NEW U, NEW V, U \subseteq V, V \subseteq Putters
    PROVE  /\ IsFiniteSet(U) /\ Cardinality(U) \in Nat /\ Cardinality(V) \in Nat
           /\ Cardinality(U) <= Cardinality(V)
<1>1. IsFiniteSet(Putters)
  BY CountTypes
<1>2. IsFiniteSet(V)
  BY <1>1, FS_Subset
<1> QED
  BY <1>2, FS_Subset, FS_CardinalityType

\* A step of a thread keeps the counts.
LEMMA CountsStep ==
    ASSUME OneTaker, ListsIInv, TestTypeOK, CountsOK,
           NEW t \in Threads, WorkerCall(t) \/ WorkerStep(t)
    PROVE  CountsOK' /\ EndOK'
<1>1. Acts(t) /\ OthersKeep(t) /\ TypeOK /\ CallOK(t)
  BY TheActs, OwnSteps DEF ListsIInv, CallsOK
<1>2. TypeOK'
  BY <1>1, TestTypeStep
<1>3. /\ test \in Drivers /\ test' = test /\ left[t] > 0
      /\ IF pc[t] \in {"e_size", "d_size"}
         THEN left' = [left EXCEPT ![t] = @ - 1] /\ pc'[t] = "idle"
         ELSE left' = left
  BY LeftStep
<1>4. EndOK'
  BY <1>3 DEF OneTaker, EndOK
<1>5. IF pc[t] \in {"e_size", "d_size"}
      THEN Resize(myq, IF t = Taker THEN -1 ELSE 1) /\ chain' = chain
      ELSE /\ size' = size
           /\ \/ chain' = chain /\ (t \in Uncounted => t \in Uncounted') /\ Took' <= Took
              \/ /\ t # Taker /\ pc[t] = "e_link" /\ pc'[t] = "e_swing"
                 /\ Len(Q') = Len(Q) + 1
              \/ /\ t = Taker /\ pc[t] = "d_take" /\ pc'[t] = "r_load"
                 /\ Len(Q') = Len(Q) - 1
  BY <1>1, <1>2, CountFacts
<1>6. /\ Threads = Putters \cup {Taker} /\ Taker \notin Putters /\ Queues = {myq}
      /\ (t # Taker <=> t \in Putters)
  BY TestRoles
<1>7. /\ DOMAIN left = Threads /\ \A u \in Threads : left[u] \in Nat
  <2>1. \A x \in 0 .. nthreads * total_put : x \in Nat
    OBVIOUS
  <2> QED
    BY <2>1 DEF TestTypeOK
<1>8. \A u \in Threads \ {t} : pc'[u] = pc[u] /\ val'[u] = val[u]
  BY <1>1 DEF OthersKeep
<1>9. /\ size[myq] = (left[Taker] - Cardinality(Turns)) % Word
      /\ Len(Q) - 1 + Cardinality(Turns) + Took <= left[Taker] + Cardinality(Uncounted)
      /\ \A w \in Putters : left[w] \in 0 .. total_put
  BY DEF CountsOK
<1>10. Uncounted \subseteq Putters /\ Uncounted' \subseteq Putters
  BY DEF Uncounted
<1>11. /\ Cardinality(Turns) \in Nat /\ Cardinality(Uncounted) \in Nat /\ Took \in {0, 1}
       /\ total_put \in Nat /\ Len(Q) \in Nat /\ Cardinality(Uncounted') \in Nat
       /\ Took' \in {0, 1} /\ left[Taker] \in Nat /\ Word \in Nat \ {0}
  BY <1>1, <1>6, <1>7, <1>10, CountTypes, OneQueue, SomeWorkers, WordAssumption DEF Took
<1>12. \A u \in Putters \ {t} : u \in Uncounted' <=> u \in Uncounted
  BY <1>6, <1>8 DEF Uncounted
<1>13. t # Taker => Took' = Took
  BY <1>6, <1>8 DEF Took
<1>14. CASE pc[t] = "e_size"
  <2>1. t # Taker /\ t \in Putters
    BY <1>1, <1>6, <1>14 DEF CallOK, TakerLabels, DeqLabels, RecycleLabels, CheckLabels
  <2>2. left' = [left EXCEPT ![t] = @ - 1] /\ left[t] \in 1 .. total_put
    BY <1>3, <1>7, <1>9, <1>11, <1>14, <2>1, SMTT(20)
  <2>3. Cardinality(Turns') = Cardinality(Turns) - 1
    BY <2>1, <2>2, OneTurn
  <2>4. Uncounted' = Uncounted \ {t} /\ t \in Uncounted
    BY <1>3, <1>10, <1>12, <1>14, <2>1 DEF Uncounted, CheckLabels
  <2>5. Cardinality(Uncounted') = Cardinality(Uncounted) - 1
    BY <2>4, CountTypes, FS_RemoveElement
  <2>6. left'[Taker] = left[Taker] /\ \A w \in Putters : left'[w] \in 0 .. total_put
    BY <1>6, <1>7, <1>9, <1>11, <2>1, <2>2, SMTT(20)
  <2>7. size'[myq] = (size[myq] + 1) % Word /\ Q' = Q
    BY <1>1, <1>5, <1>14, <2>1, OneQueue, TestRoles DEF Resize, Q
  <2>8. size'[myq] = (left'[Taker] - Cardinality(Turns')) % Word
    <3>1. (size[myq] + 1) % Word = (left[Taker] - Cardinality(Turns) + 1) % Word
      <4>1. left[Taker] - Cardinality(Turns) \in Int /\ 1 \in Int
        BY <1>11
      <4>2. (((left[Taker] - Cardinality(Turns)) % Word) + 1) % Word
               = (left[Taker] - Cardinality(Turns) + 1) % Word
        BY <1>11, <4>1, CountWord, Zenon
      <4> QED
        BY <1>9, <4>2
    <3>2. left[Taker] - Cardinality(Turns) + 1 = left'[Taker] - Cardinality(Turns')
      BY <1>11, <2>3, <2>6
    <3> QED
      BY <2>7, <3>1, <3>2
  <2>9. Len(Q') - 1 + Cardinality(Turns') + Took' <= left'[Taker] + Cardinality(Uncounted')
    <3>1. \A a, b, c, d, e \in Int :
             a - 1 + b + c <= e + d => a - 1 + (b - 1) + c <= e + (d - 1)
      OBVIOUS
    <3>2. /\ Len(Q) \in Int /\ Cardinality(Turns) \in Int /\ Took \in Int
          /\ Cardinality(Uncounted) \in Int /\ left[Taker] \in Int
      BY <1>11
    <3>3. Len(Q) - 1 + (Cardinality(Turns) - 1) + Took
             <= left[Taker] + (Cardinality(Uncounted) - 1)
      BY <1>9, <3>1, <3>2, Zenon
    <3>4. Q' = Q /\ Took' = Took /\ left'[Taker] = left[Taker]
      BY <1>13, <2>1, <2>6, <2>7
    <3> QED
      BY <2>3, <2>5, <3>3, <3>4, Zenon
  <2> QED
    BY <1>4, <2>6, <2>8, <2>9 DEF CountsOK
<1>15. CASE pc[t] = "d_size"
  <2>1. t = Taker
    BY <1>15, AtLabel DEF DeqLabels
  <2>2. left'[Taker] = left[Taker] - 1 /\ \A w \in Putters : left'[w] = left[w]
    BY <1>3, <1>6, <1>7, <1>15, <2>1
  <2>3. Turns' = Turns
    BY <2>2 DEF Turns
  <2>4. Uncounted' = Uncounted
    BY <1>10, <1>6, <1>12, <2>1
  <2>5. Took = 1 /\ Took' = 0
    BY <1>3, <1>15, <2>1 DEF Took, RecycleLabels, CheckLabels
  <2>6. size'[myq] = (size[myq] + -1) % Word /\ Q' = Q
    BY <1>1, <1>5, <1>15, <2>1, OneQueue, TestRoles DEF Resize, Q
  <2>7. size'[myq] = (left'[Taker] - Cardinality(Turns')) % Word
    <3>1. (size[myq] + -1) % Word = (left[Taker] - Cardinality(Turns) + -1) % Word
      <4>1. left[Taker] - Cardinality(Turns) \in Int /\ -1 \in Int
        BY <1>11
      <4>2. (((left[Taker] - Cardinality(Turns)) % Word) + -1) % Word
               = (left[Taker] - Cardinality(Turns) + -1) % Word
        BY <1>11, <4>1, CountWord, Zenon
      <4> QED
        BY <1>9, <4>2
    <3>2. left[Taker] - Cardinality(Turns) + -1 = left'[Taker] - Cardinality(Turns')
      BY <1>11, <2>2, <2>3
    <3> QED
      BY <2>6, <3>1, <3>2
  <2>8. Len(Q') - 1 + Cardinality(Turns') + Took' <= left'[Taker] + Cardinality(Uncounted')
    BY <1>9, <1>11, <2>2, <2>3, <2>4, <2>5, <2>6
  <2> QED
    BY <1>4, <1>9, <2>2, <2>7, <2>8 DEF CountsOK
<1>16. CASE pc[t] \notin {"e_size", "d_size"}
  <2>1. left' = left /\ size' = size /\ Turns' = Turns
    BY <1>3, <1>5, <1>16 DEF Turns
  <2>2. Len(Q') + Took' - Cardinality(Uncounted') <= Len(Q) + Took - Cardinality(Uncounted)
    <3>1. CASE chain' = chain /\ (t \in Uncounted => t \in Uncounted') /\ Took' <= Took
      <4>1. Uncounted \subseteq Uncounted'
        BY <1>10, <1>12, <3>1
      <4>2. Cardinality(Uncounted) <= Cardinality(Uncounted') /\ Q' = Q
        BY <1>10, <3>1, <4>1, SomeWorkers DEF Q
      <4> QED
        BY <1>11, <3>1, <4>2
    <3>2. CASE t # Taker /\ pc[t] = "e_link" /\ pc'[t] = "e_swing" /\ Len(Q') = Len(Q) + 1
      <4>1. Uncounted' = Uncounted \cup {t} /\ t \notin Uncounted
        BY <1>6, <1>10, <1>12, <3>2 DEF Uncounted, CheckLabels
      <4>2. Cardinality(Uncounted') = Cardinality(Uncounted) + 1
        BY <4>1, CountTypes, FS_AddElement
      <4> QED
        BY <1>11, <1>13, <3>2, <4>2
    <3>3. CASE t = Taker /\ pc[t] = "d_take" /\ pc'[t] = "r_load" /\ Len(Q') = Len(Q) - 1
      <4>1. Uncounted' = Uncounted
        BY <1>6, <1>10, <1>12, <3>3
      <4>2. Took' = 1 /\ Took = 0
        BY <3>3 DEF Took, RecycleLabels, CheckLabels
      <4> QED
        BY <1>11, <3>3, <4>1, <4>2
    <3> QED
      BY <1>5, <1>16, <3>1, <3>2, <3>3
  <2>3. Len(Q') \in Nat
    BY <1>2, TestRoles, LenProperties DEF TypeOK, Q
  <2>4. Len(Q') - 1 + Cardinality(Turns') + Took' <= left'[Taker] + Cardinality(Uncounted')
    <3>1. left'[Taker] = left[Taker] /\ Cardinality(Turns') = Cardinality(Turns)
      BY <2>1
    <3>2. Len(Q) - 1 + Cardinality(Turns) + Took <= left[Taker] + Cardinality(Uncounted)
      BY <1>9
    <3>3. \A a, b, c, d, e, a2, c2, d2 \in Int :
             a2 + c2 - d2 <= a + c - d /\ a - 1 + b + c <= e + d => a2 - 1 + b + c2 <= e + d2
      OBVIOUS
    <3>4. /\ Len(Q) \in Int /\ Cardinality(Turns) \in Int /\ Took \in Int
          /\ Cardinality(Uncounted) \in Int /\ left[Taker] \in Int
          /\ Len(Q') \in Int /\ Took' \in Int /\ Cardinality(Uncounted') \in Int
      BY <1>11, <2>3
    <3>5. Len(Q') - 1 + Cardinality(Turns) + Took' <= left[Taker] + Cardinality(Uncounted')
      BY <2>2, <3>2, <3>3, <3>4, Zenon
    <3> QED
      BY <3>1, <3>5
  <2> QED
    BY <1>4, <1>9, <2>1, <2>4 DEF CountsOK
<1> QED
  BY <1>14, <1>15, <1>16

\* Between two tests, and when a test may end, nothing is left to do or to count.
LEMMA NoneLeft ==
    ASSUME OneTaker, ListsIInv, TestTypeOK, test \notin Drivers \/ ~Busy
    PROVE  /\ \A t \in Threads : left[t] = 0 /\ pc[t] = "idle"
           /\ Cardinality(Turns) = 0 /\ Cardinality(Uncounted) = 0 /\ Took = 0
<1>1. ASSUME NEW t \in Threads PROVE left[t] = 0 /\ pc[t] = "idle"
  <2>1. CASE test \notin Drivers
    <3>1. left[t] = 0
      BY <2>1 DEF ListsIInv, CallsOK, TurnsOK
    <3>2. pc[t] # "idle" => test \in Drivers
      BY DEF ListsIInv, CallsOK, CallOK
    <3> QED
      BY <2>1, <3>1, <3>2
  <2>2. CASE ~Busy
    <3>1. ~(left[t] > 0) /\ left[t] \in 0 .. nthreads * total_put /\ pc[t] = "idle"
      BY <2>2 DEF Busy, TestTypeOK
    <3>2. \A x \in 0 .. nthreads * total_put : x \in Int /\ x >= 0
      OBVIOUS
    <3> QED
      BY <3>1, <3>2
  <2> QED
    BY <2>1, <2>2
<1>2. Putters \subseteq Threads /\ Taker \in Threads
  BY TestRoles
<1>3. Cardinality(Turns) = 0
  BY <1>1, <1>2, NoTurns
<1>4. Cardinality(Uncounted) = 0
  <2>1. Uncounted = {}
    BY <1>1, <1>2 DEF Uncounted, CheckLabels
  <2> QED
    BY <2>1, FS_EmptySet
<1>5. Took = 0
  BY <1>1, <1>2 DEF Took, RecycleLabels, CheckLabels
<1> QED
  BY <1>1, <1>3, <1>4, <1>5

\* What the threads have counted is not touched.
LEMMA SameCounts ==
    ASSUME pc' = pc, val' = val, chain' = chain
    PROVE  Uncounted' = Uncounted /\ Took' = Took /\ Q' = Q
BY DEF Uncounted, Took, Q

\* The turns of a putter are no more than those of the taker.
LEMMA LoadFits ==
    ASSUME OneTaker
    PROVE  total_put \in 0 .. nthreads * total_put /\ nthreads * total_put = total_put
BY OneWorker, CountTypes

\* A test begins with an empty queue and with as much to take as to put.
LEMMA StartCounts ==
    ASSUME OneTaker, ListsIInv, TestTypeOK, CountsOK, EndOK, StartTest
    PROVE  TestTypeOK' /\ CountsOK' /\ EndOK'
<1>1. /\ test = "none" /\ test' = "one_enq_and_multi_deq" /\ round' = round + 1
      /\ round < Rounds /\ destroyed' = destroyed
      /\ left' = [t \in Threads |-> Load("one_enq_and_multi_deq", t)]
      /\ turn' = [t \in Threads |-> IF Puts("one_enq_and_multi_deq", t) THEN "put" ELSE "take"]
      /\ Drivers = {"one_enq_and_multi_deq"}
  BY DEF StartTest, OneTaker
<1>2. pc' = pc /\ val' = val /\ chain' = chain /\ size' = size
  BY DEF StartTest, lfqVars, queues, locals, history
<1>3. /\ Threads = Putters \cup {Taker} /\ Taker \notin Putters
  BY TestRoles
<1>4. left'[Taker] = nthreads * total_put /\ \A w \in Putters : left'[w] = total_put
  BY <1>1, <1>3, OneWorker, LoadFits DEF Load, Puts, Takes
<1>5. TestTypeOK'
  <2>1. \A t \in Threads : left'[t] \in 0 .. nthreads * total_put
    BY <1>3, <1>4, LoadFits
  <2>2. left' \in [Threads -> 0 .. nthreads * total_put]
    BY <1>1, <2>1
  <2>3. turn' \in [Threads -> {"put", "take"}]
    BY <1>1
  <2>4. round' \in 0 .. Rounds
    BY <1>1, TestAssumption DEF TestTypeOK
  <2> QED
    BY <1>1, <2>2, <2>3, <2>4 DEF TestTypeOK
<1>6. /\ Uncounted' = Uncounted /\ Took' = Took /\ Q' = Q
  BY <1>2, SameCounts
<1>7. /\ Cardinality(Uncounted) = 0 /\ Took = 0 /\ size[myq] = 0 /\ Len(Q) = 1
  BY <1>1, NoneLeft DEF EndOK
<1>8. Cardinality(Turns') = nthreads * total_put
  BY <1>4, AllTurns
<1>9. nthreads * total_put \in Nat /\ total_put \in Nat /\ Word \in Nat \ {0, 1}
  BY CountTypes, WordAssumption
<1>10. size'[myq] = (left'[Taker] - Cardinality(Turns')) % Word
  <2>1. left'[Taker] - Cardinality(Turns') = 0
    BY <1>4, <1>8, <1>9
  <2>2. 0 % Word = 0
    BY <1>9
  <2> QED
    BY <1>2, <1>7, <2>1, <2>2
<1>11. Len(Q') - 1 + Cardinality(Turns') + Took' <= left'[Taker] + Cardinality(Uncounted')
  <2>1. /\ Len(Q') = 1 /\ Cardinality(Turns') = nthreads * total_put /\ Took' = 0
        /\ left'[Taker] = nthreads * total_put /\ Cardinality(Uncounted') = 0
    BY <1>4, <1>6, <1>7, <1>8
  <2> HIDE DEF nthreads
  <2>2. \A x \in Nat : 1 - 1 + x + 0 <= x + 0
    OBVIOUS
  <2> QED
    BY <1>9, <2>1, <2>2
<1>12. \A w \in Putters : left'[w] \in 0 .. total_put
  BY <1>4, <1>9
<1>13. EndOK'
  BY <1>1 DEF EndOK
<1> QED
  BY <1>5, <1>10, <1>11, <1>12, <1>13 DEF CountsOK

\* It ends with an empty queue, and size says so.
LEMMA EndCounts ==
    ASSUME OneTaker, ListsIInv, TestTypeOK, CountsOK, EndTest
    PROVE  TestTypeOK' /\ CountsOK' /\ EndOK'
<1>1. /\ ~Busy /\ test' = "none" /\ round' = round /\ turn' = turn /\ left' = left
      /\ destroyed' = destroyed
  BY DEF EndTest
<1>2. pc' = pc /\ val' = val /\ chain' = chain /\ size' = size
  BY DEF EndTest, lfqVars, queues, locals, history
<1>3. Uncounted' = Uncounted /\ Took' = Took /\ Q' = Q /\ Turns' = Turns
  BY <1>1, <1>2, SameCounts DEF Turns
<1>4. /\ left[Taker] = 0 /\ Cardinality(Turns) = 0 /\ Cardinality(Uncounted) = 0 /\ Took = 0
  BY <1>1, NoneLeft, TestRoles
<1>5. TestTypeOK'
  BY <1>1 DEF TestTypeOK
<1>6. CountsOK'
  BY <1>1, <1>2, <1>3 DEF CountsOK
<1>7. size[myq] = 0
  <2>1. size[myq] = (0 - 0) % Word
    BY <1>4 DEF CountsOK
  <2> QED
    BY <2>1, WordAssumption
<1>8. Len(Q) = 1
  <2>1. Len(Q) - 1 + 0 + 0 <= 0 + 0
    BY <1>4 DEF CountsOK
  <2>2. Len(Q) \in Nat /\ Len(Q) > 0
    BY OneQueue DEF ListsIInv, ChainOK
  <2> QED
    BY <2>1, <2>2
<1>9. EndOK'
  BY <1>2, <1>3, <1>7, <1>8 DEF EndOK
<1> QED
  BY <1>5, <1>6, <1>9

\* Main ends after the last test, with nothing left.
LEMMA DestroyCounts ==
    ASSUME OneTaker, ListsIInv, TestTypeOK, CountsOK, EndOK, Destroy
    PROVE  CountsOK' /\ EndOK'
<1>1. /\ test = "none" /\ test' = "over" /\ left' = left
      /\ size' = [size EXCEPT ![myq] = 0]
      /\ pc' = pc /\ val' = val /\ chain' = chain
  BY DEF Destroy, locals, history
<1>2. Uncounted' = Uncounted /\ Took' = Took /\ Q' = Q /\ Turns' = Turns
  BY <1>1, SameCounts DEF Turns
<1>3. size'[myq] = 0 /\ size[myq] = 0
  BY <1>1, OneQueue DEF ListsIInv, EndOK
<1>4. CountsOK'
  BY <1>1, <1>2, <1>3 DEF CountsOK
<1> QED
  BY <1>1, <1>2, <1>3, <1>4 DEF EndOK

\* Nothing is counted while time passes or nothing happens.
LEMMA QuietCounts ==
    ASSUME TestTypeOK, CountsOK, EndOK,
           (Tick /\ UNCHANGED testVars) \/ UNCHANGED <<vars, testVars>>
    PROVE  TestTypeOK' /\ CountsOK' /\ EndOK'
<1>1. /\ pc' = pc /\ val' = val /\ chain' = chain /\ size' = size
      /\ test' = test /\ round' = round /\ turn' = turn /\ left' = left
      /\ destroyed' = destroyed
  BY DEF Tick, vars, queues, locals, history, testVars
<1>2. Uncounted' = Uncounted /\ Took' = Took /\ Q' = Q /\ Turns' = Turns
  BY <1>1, SameCounts DEF Turns
<1> QED
  BY <1>1, <1>2 DEF TestTypeOK, CountsOK, EndOK

\* The tests begin with an empty queue and nothing to do.
LEMMA InitCounts ==
    ASSUME OneTaker, TestInit
    PROVE  TestTypeOK /\ CountsOK /\ EndOK
<1>1. ListsIInv
  BY TestBegins
<1>2. TestTypeOK
  <2>1. 0 \in 0 .. nthreads * total_put /\ 0 \in 0 .. Rounds
    BY CountTypes, TestAssumption
  <2>2. <<>> \in Seq(Nodes)
    OBVIOUS
  <2> QED
    BY <2>1, <2>2 DEF TestInit, TestTypeOK
<1>3. test \notin Drivers
  BY DEF TestInit, OneTaker
<1>4. /\ left[Taker] = 0 /\ Cardinality(Turns) = 0 /\ Cardinality(Uncounted) = 0 /\ Took = 0
      /\ \A w \in Putters : left[w] = 0
  BY <1>1, <1>2, <1>3, NoneLeft, TestRoles
<1>5. size[myq] = 0 /\ Q = <<Base[myq]>>
  BY TestRoles DEF TestInit, Init, Q
<1>6. Len(Q) = 1
  BY <1>5
<1>7. CountsOK
  <2>1. 0 = (0 - 0) % Word
    BY WordAssumption
  <2>2. \A w \in Putters : left[w] \in 0 .. total_put
    BY <1>4, CountTypes
  <2>3. size[myq] = (left[Taker] - Cardinality(Turns)) % Word
    BY <1>4, <1>5, <2>1
  <2>4. Len(Q) - 1 + Cardinality(Turns) + Took <= left[Taker] + Cardinality(Uncounted)
    BY <1>4, <1>6
  <2> QED
    BY <2>2, <2>3, <2>4 DEF CountsOK
<1> QED
  BY <1>2, <1>5, <1>6, <1>7 DEF EndOK

-----------------------------------------------------------------------------
(* The end of the tests. *)

\* lfqueue_destroy frees the recycle list and the one node of the empty queue, which are
\* the nodes that are not in the pool.
LEMMA DestroyAll ==
    ASSUME OneTaker, ListsIInv, TestTypeOK, EndOK, Destroy
    PROVE  TestTypeOK' /\ DestroyComplete'
<1>1. /\ test = "none" /\ test' = "over" /\ destroyed' = Destroyed(myq) /\ pool' = pool
      /\ round' = round /\ turn' = turn /\ left' = left
  BY DEF Destroy
<1>2. \A t \in Threads : pc[t] = "idle"
  BY <1>1, NoneLeft DEF OneTaker
<1>3. Taker \in Threads /\ Putters \subseteq Threads
  BY TestRoles
<1>4. /\ ~TailBehind /\ ~MoveBehind /\ Unlisted = {} /\ \A w \in Putters : Hand(w) = {}
  BY <1>2, <1>3 DEF TailBehind, MoveBehind, Unlisted, Hand
<1>5. root_free[myq] = R[1] /\ move_free[myq] = Last(R) /\ tail[myq] = Last(Q)
  <2>1. ~in_free_mode[myq]
    BY <1>2 DEF ListsIInv, FreeModeOK, Freeing
  <2> QED
    BY <1>4, <2>1 DEF ListsIInv, FreeModeOK, ListOK, ChainOK
<1>6. TypeOK /\ Len(Q) = 1 /\ Last(Q) = Q[1] /\ InQ = {Q[1]} /\ Q[1] \in Nodes
  <2>1. TypeOK /\ Len(Q) = 1
    BY <1>1 DEF ListsIInv, EndOK
  <2> QED
    BY <2>1, OneQueue DEF Last, InQ, InChain, Elements, Q
<1>7. destroyed' = R \o <<Q[1]>>
  <2>1. ListFrom(R[1], Last(R)) = R
    BY ListWalked DEF ListsIInv
  <2> QED
    BY <1>1, <1>5, <1>6, <2>1 DEF Destroyed
<1> DEFINE d == R \o <<Q[1]>>
<1>8. /\ R \in Seq(Nodes) /\ Len(R) \in Nat
      /\ \A i \in 1 .. Len(R) : R[i] \in Nodes /\ R[i] \in InR
  BY <1>6, OneQueue
<1>9. /\ d \in Seq(Nodes) /\ Len(d) = Len(R) + 1
      /\ \A i \in 1 .. Len(R) : d[i] = R[i]
      /\ d[Len(R) + 1] = Q[1]
  <2>1. <<Q[1]>> \in Seq(Nodes) /\ Len(<<Q[1]>>) = 1 /\ <<Q[1]>>[1] = Q[1]
    BY <1>6
  <2>2. /\ d \in Seq(Nodes) /\ Len(d) = Len(R) + Len(<<Q[1]>>)
        /\ \A i \in 1 .. Len(R) + Len(<<Q[1]>>) :
              d[i] = IF i <= Len(R) THEN R[i] ELSE <<Q[1]>>[i - Len(R)]
    BY <1>8, <2>1, ConcatProperties
  <2> HIDE DEF d
  <2> QED
    BY <1>8, <2>1, <2>2
<1> HIDE DEF d
<1>10. \A i \in 1 .. Len(d) : i \in 1 .. Len(R) \/ i = Len(R) + 1
  BY <1>8, <1>9
<1>11. Elements(d) = InR \cup InQ
  <2>1. InR = {R[i] : i \in 1 .. Len(R)}
    BY DEF InR, InRecycled, Elements, R
  <2>2. Elements(d) = {d[i] : i \in 1 .. Len(d)}
    BY DEF Elements
  <2>3. Len(R) + 1 \in 1 .. Len(d) /\ \A i \in 1 .. Len(R) : i \in 1 .. Len(d)
    BY <1>8, <1>9
  <2> QED
    BY <1>6, <1>9, <1>10, <2>1, <2>2, <2>3
<1>12. InR \cup InQ = Nodes \ pool
  <2>1. InQ \cap pool = {} /\ InR \cap pool = {}
    BY DEF ListsIInv, ApartOK
  <2>2. \A n \in Nodes : n \in pool \cup InQ \cup InR
    BY <1>4 DEF ListsIInv, CoveredOK
  <2>3. InQ \subseteq Nodes /\ InR \subseteq Nodes
    BY <1>6, OneQueue
  <2> QED
    BY <2>1, <2>2, <2>3
<1>13. \A i, j \in 1 .. Len(d) : d[i] = d[j] => i = j
  <2>1. /\ \A i, j \in 1 .. Len(R) : R[i] = R[j] => i = j
        /\ Q[1] \notin InR
    BY <1>6 DEF ListsIInv, ApartOK
  <2> QED
    BY <1>8, <1>9, <1>10, <2>1
<1>14. Cardinality(Elements(d)) = Len(d)
  BY <1>9, <1>13, DistinctLength
<1>15. TestTypeOK'
  BY <1>1, <1>7, <1>9 DEF TestTypeOK, d
<1>16. Elements(destroyed') = Nodes \ pool' /\ Len(destroyed') = Cardinality(Elements(destroyed'))
  BY <1>1, <1>7, <1>11, <1>12, <1>14 DEF d
<1> QED
  BY <1>15, <1>16 DEF DestroyComplete, Elements

\* A step of a thread keeps the types of the tests.
LEMMA ThreadTypes ==
    ASSUME OneTaker, ListsIInv, TestTypeOK, NEW t \in Threads, WorkerCall(t) \/ WorkerStep(t)
    PROVE  TestTypeOK'
<1>1. /\ test' = test /\ round' = round /\ destroyed' = destroyed /\ turn' = turn
      /\ left[t] > 0
      /\ left' = [left EXCEPT ![t] = @ - 1] \/ left' = left
  BY LeftStep
<1>2. left' \in [Threads -> 0 .. nthreads * total_put]
  <2>1. nthreads * total_put \in Nat /\ left[t] \in 0 .. nthreads * total_put
    BY CountTypes DEF TestTypeOK
  <2>2. \A m \in Nat : \A x \in 0 .. m : x > 0 => x - 1 \in 0 .. m
    OBVIOUS
  <2>3. left[t] - 1 \in 0 .. nthreads * total_put
    BY <1>1, <2>1, <2>2
  <2> QED
    BY <1>1, <2>3 DEF TestTypeOK
<1> QED
  BY <1>1, <1>2 DEF TestTypeOK

-----------------------------------------------------------------------------
(* The inductive invariant. *)

TestIInv == ListsIInv /\ TestTypeOK /\ CountsOK /\ EndOK /\ DestroyComplete

\* It holds where main has set up the queue.
LEMMA TestIInit ==
    ASSUME OneTaker, TestInit
    PROVE  TestIInv
<1>1. DestroyComplete
  BY DEF TestInit, DestroyComplete
<1> QED
  BY <1>1, TestBegins, InitCounts DEF TestIInv

\* Every step keeps it.
LEMMA TestIStep ==
    ASSUME OneTaker, TestIInv, [TestNext]_<<vars, testVars>>
    PROVE  TestIInv'
<1>1. ListsIInv /\ TestTypeOK /\ CountsOK /\ EndOK /\ DestroyComplete
  BY DEF TestIInv
<1>2. ASSUME NEW t \in Threads, WorkerCall(t) \/ WorkerStep(t) PROVE TestIInv'
  <2>1. test' = test /\ test \in Drivers
    BY <1>1, <1>2, LeftStep
  <2>2. DestroyComplete'
    BY <2>1 DEF OneTaker, DestroyComplete
  <2> QED
    BY <1>1, <1>2, <2>2, ThreadLists, CountsStep, ThreadTypes DEF TestIInv
<1>3. CASE StartTest
  <2>1. test' \in Drivers
    BY <1>3 DEF StartTest
  <2>2. DestroyComplete'
    BY <2>1 DEF OneTaker, DestroyComplete
  <2> QED
    BY <1>1, <1>3, <2>2, TestLists, StartCounts DEF TestIInv
<1>4. CASE EndTest
  <2>1. DestroyComplete'
    BY <1>4 DEF EndTest, DestroyComplete
  <2> QED
    BY <1>1, <1>4, <2>1, TestLists, EndCounts DEF TestIInv
<1>5. CASE Destroy
  BY <1>1, <1>5, TestLists, DestroyCounts, DestroyAll DEF TestIInv
<1>6. CASE Tick /\ test # "over" /\ UNCHANGED testVars
  <2>1. DestroyComplete'
    BY <1>6 DEF DestroyComplete, testVars
  <2> QED
    BY <1>1, <1>6, <2>1, TickLists, QuietCounts DEF TestIInv
<1>7. CASE UNCHANGED <<vars, testVars>>
  <2>1. DestroyComplete'
    BY <1>1, <1>7 DEF DestroyComplete, testVars, vars
  <2> QED
    BY <1>1, <1>7, <2>1, StutterLists, QuietCounts DEF TestIInv
<1> QED
  BY <1>2, <1>3, <1>4, <1>5, <1>6, <1>7 DEF TestNext

\* The recycle list in memory is the one that was made.
LEMMA ListIsMade ==
    ASSUME ListsIInv
    PROVE  RecycleInv
<1>1. /\ Queues = {myq} /\ Consumers[myq] = Threads /\ Threads = Putters \cup {Taker}
  BY TestRoles
<1>2. Moving(myq) <=> MoveBehind
  <2>1. \A t \in Threads : pc[t] \in {"r_time", "r_move"} => t = Taker /\ on[t] = myq
    BY AtLabel DEF RecycleLabels
  <2>2. Taker \in Threads
    BY <1>1
  <2>3. ASSUME Moving(myq) PROVE MoveBehind
    BY <1>1, <2>1, <2>3 DEF Moving, MoveBehind
  <2>4. ASSUME MoveBehind PROVE Moving(myq)
    BY <1>1, <2>1, <2>2, <2>4 DEF Moving, MoveBehind
  <2> QED
    BY <2>3, <2>4
<1>3. in_free_mode[myq] => \E t \in Threads :
          on[t] = myq /\ pc[t] \in {"c_step", "c_exit"} /\ fr[t] = R[1]
  <2>1. \A t \in Threads : pc[t] \in {"c_step", "c_exit"} => on[t] = myq
    BY AtLabel
  <2> QED
    BY <2>1 DEF ListsIInv, FreeModeOK, Freeing
<1>4. ~in_free_mode[myq] => root_free[myq] = R[1]
  BY DEF ListsIInv, FreeModeOK
<1>5. ListOK
  BY DEF ListsIInv
<1> QED
  BY <1>1, <1>2, <1>3, <1>4, <1>5 DEF RecycleInv, ListOK, R

\* No thread looks at a node that has been freed.
LEMMA LooksAreFresh ==
    ASSUME ListsIInv
    PROVE  NoStaleAccess
<1>1. TypeOK /\ ConsumerOK /\ RecyclerOK /\ FreeModeOK
  BY DEF ListsIInv
<1>2. ASSUME NEW t \in Threads, pc[t] # "idle" PROVE on[t] = myq
  BY <1>2, AtLabel
<1>3. /\ InQ \subseteq Live(myq) /\ InR \subseteq Live(myq)
      /\ Taker \in Threads /\ InR = InRecycled(myq)
  BY TestRoles DEF Live, InQ, InR
<1>4. ASSUME NEW t \in Threads, pc[t] = "e_link" PROVE tl[t] \in Live(on[t])
  <2>1. t \in Putters /\ on[t] = myq
    BY <1>4, AtLabel
  <2>2. tl[t] \in Nodes /\ Seen(tl[t], t)
    BY <1>4, <2>1 DEF ListsIInv, ProducerOK
  <2>3. tl[t] \in InQ \cup InR \cup Unlisted
    BY <2>1, <2>2, SeenOut
  <2>4. Unlisted \subseteq Live(myq)
    <3>1. pc[Taker] \in {"r_load", "r_link"} => on[Taker] = myq
      BY <1>2, <1>3
    <3> QED
      BY <1>3, <3>1 DEF Unlisted, Live
  <2> QED
    BY <1>3, <2>1, <2>3, <2>4
<1>5. ASSUME NEW t \in Threads, pc[t] = "d_next" PROVE hd[t] \in Live(on[t])
  <2>1. t = Taker /\ on[t] = myq
    BY <1>2, <1>5, AtLabel DEF DeqLabels
  <2>2. hd[t] = head[myq]
    BY <1>1, <1>5, <2>1 DEF ConsumerOK
  <2> QED
    BY <1>3, <2>1, <2>2, ListFacts
<1>6. ASSUME NEW t \in Threads, pc[t] = "d_value" PROVE nx[t] \in Live(on[t])
  <2>1. t = Taker /\ on[t] = myq
    BY <1>2, <1>6, AtLabel DEF DeqLabels
  <2>2. Len(Q) > 1 /\ nx[t] = Q[2]
    BY <1>1, <1>6, <2>1 DEF ConsumerOK
  <2>3. 2 \in 1 .. Len(Q)
    BY <1>1, <2>2, OneQueue
  <2> QED
    BY <1>1, <1>3, <2>1, <2>2, <2>3, OneQueue
<1>7. ASSUME NEW t \in Threads, pc[t] = "r_link" PROVE fr[t] \in InRecycled(on[t])
  <2>1. t = Taker /\ on[t] = myq
    BY <1>2, <1>7, AtLabel DEF RecycleLabels
  <2>2. fr[t] = move_free[myq]
    BY <1>1, <1>7, <2>1 DEF RecyclerOK
  <2> QED
    BY <1>3, <2>1, <2>2, ListFacts
<1>8. ASSUME NEW t \in Threads, pc[t] = "c_step" PROVE fr[t] \in InRecycled(on[t])
  <2>1. on[t] = myq /\ fr[t] = R[1]
    BY <1>1, <1>2, <1>8 DEF FreeModeOK, Freeing
  <2> QED
    BY <1>3, <2>1, ListFacts
<1> QED
  BY <1>4, <1>5, <1>6, <1>7, <1>8 DEF NoStaleAccess

\* What the invariant says.
LEMMA TestIMeans ==
    ASSUME TestIInv
    PROVE  TestInv /\ NoStaleAccess /\ DestroyComplete
<1>1. AllConsumed
  BY DEF TestIInv, EndOK, AllConsumed, Q
<1> QED
  BY <1>1, ListIsMade, LooksAreFresh DEF TestIInv, TestInv

-----------------------------------------------------------------------------
(* The theorems. *)

\* The invariant holds whatever the threads do.
THEOREM TestInvariance ==
    ASSUME OneTaker
    PROVE  TestSpec => []TestIInv
<1>1. TestInit => TestIInv
  BY TestIInit
<1>2. TestIInv /\ [TestNext]_<<vars, testVars>> => TestIInv'
  BY TestIStep
<1>3. TestSpec => TestInit /\ [][TestNext]_<<vars, testVars>>
  BY PTL DEF TestSpec
<1> QED
  BY <1>1, <1>2, <1>3, PTL

\* The recycle list stays whole, and after each test the queue is empty and its size 0:
\* the "Error, all queue should be consumed but not" of main_lfqueue.c:289 is never said.
THEOREM TestCorrect ==
    ASSUME OneTaker
    PROVE  TestSpec => []TestInv
<1>1. TestIInv => TestInv
  BY TestIMeans
<1> QED
  BY <1>1, TestInvariance, PTL

\* No thread looks at a node that __lfq_check_free has given back.
THEOREM RecyclingIsFresh ==
    ASSUME OneTaker
    PROVE  TestSpec => []NoStaleAccess
<1>1. TestIInv => NoStaleAccess
  BY TestIMeans
<1> QED
  BY <1>1, TestInvariance, PTL

\* lfqueue_destroy frees every node that is not in the pool, and none twice.
THEOREM DestroyIsComplete ==
    ASSUME OneTaker
    PROVE  TestSpec => []DestroyComplete
<1>1. TestIInv => DestroyComplete
  BY TestIMeans
<1> QED
  BY <1>1, TestInvariance, PTL

-----------------------------------------------------------------------------
(* The channel. *)

\* The queue in memory is the one that was linked.
LEMMA QueueIsLinked ==
    ASSUME ListsIInv
    PROVE  ChainInv
<1>1. Queues = {myq} /\ Producers[myq] = Threads /\ Putters \subseteq Threads
  BY TestRoles
<1>2. Swinging(myq) <=> TailBehind
  <2>1. \A t \in Threads : pc[t] = "e_swing" => t \in Putters /\ on[t] = myq
    BY AtLabel
  <2>2. ASSUME Swinging(myq) PROVE TailBehind
    BY <1>1, <2>1, <2>2 DEF Swinging, TailBehind
  <2>3. ASSUME TailBehind PROVE Swinging(myq)
    BY <1>1, <2>1, <2>3 DEF Swinging, TailBehind
  <2> QED
    BY <2>2, <2>3
<1>3. ChainOK
  BY DEF ListsIInv
<1> QED
  BY <1>1, <1>2, <1>3 DEF ChainInv, ChainOK, Q

\* What is in the queue keeps its value.
LEMMA SameChannels ==
    ASSUME ListsIInv, chain' = chain, delivered' = delivered,
           \A n \in InQ : value'[n] = value[n]
    PROVE  UNCHANGED <<Chans, delivered>>
<1>1. TypeOK /\ ChainInv /\ Queues = {myq} /\ myq \in Queues
  BY QueueIsLinked, TestRoles DEF ListsIInv
<1>2. ChannelOf(myq)' = ChannelOf(myq)
  BY <1>1, ChannelKept DEF InQ
<1>3. \A q \in Queues : ChannelOf(q)' = ChannelOf(q)
  BY <1>1, <1>2
<1> QED
  BY <1>3 DEF Chans

\* The compare-and-swap on tail->next succeeds at the last node alone, and sends.
LEMMA TestLinkSends ==
    ASSUME ListsIInv, NEW t \in Putters, EnqLink(t), next[tl[t]] = Null
    PROVE  \E v \in Values : Fifos!Send(myq, v)
<1>1. TypeOK /\ ChainInv /\ myq \in Queues /\ t \in Threads /\ ProducerOK(t)
  BY QueueIsLinked, TestRoles DEF ListsIInv
<1>2. /\ pc[t] = "e_link" /\ on[t] = myq /\ node[t] \in Nodes /\ arg[t] \in Values
      /\ value[node[t]] = arg[t] /\ tl[t] \in Nodes /\ Seen(tl[t], t)
  BY <1>1, AtLabel DEF EnqLink, ProducerOK
<1>3. tl[t] \in InQ
  BY <1>2 DEF Seen
<1>4. tl[t] = Last(Q) /\ Len(Q) > 0
  BY <1>3, OnlyLast DEF ListsIInv, ChainOK
<1>5. /\ chain' = [chain EXCEPT ![myq] = Append(chain[myq], node[t])]
      /\ value' = value /\ delivered' = delivered
  BY <1>2, <1>4 DEF EnqLink, Linked, Q
<1> QED
  BY <1>1, <1>2, <1>5, AppendSends

\* The compare-and-swap on head receives what the first node behind it holds.
LEMMA TestTakeReceives ==
    ASSUME ListsIInv, DeqTake(Taker)
    PROVE  Fifos!Receive(myq)
<1>1. TypeOK /\ ChainInv /\ myq \in Queues /\ Taker \in Threads /\ ConsumerOK /\ ApartOK
  BY QueueIsLinked, TestRoles DEF ListsIInv
<1>2. /\ pc[Taker] = "d_take" /\ on[Taker] = myq
  BY <1>1, AtLabel DEF DeqTake
<1>3. /\ hd[Taker] = head[myq] /\ Len(Q) > 1 /\ val[Taker] = value[Q[2]]
      /\ \A i, j \in 1 .. Len(Q) : Q[i] = Q[j] => i = j
  BY <1>1, <1>2 DEF ConsumerOK, ApartOK
<1>4. /\ chain' = [chain EXCEPT ![myq] = SubSeq(chain[myq], 2, Len(chain[myq]))]
      /\ delivered' = [delivered EXCEPT ![myq] = value[chain[myq][2]]]
      /\ value' = value
  BY <1>2, <1>3 DEF DeqTake, mem, Q
<1> QED
  BY <1>1, <1>3, <1>4, LeaveReceives DEF Q

\* A step of a thread sends, receives or does neither.
LEMMA ThreadChannels ==
    ASSUME ListsIInv, NEW t \in Threads, Acts(t)
    PROVE  [Fifos!Next]_Fifos!vars
<1>t. TypeOK /\ myq \in Queues /\ (t # Taker => t \in Putters)
  BY TestRoles DEF ListsIInv
<1>k. ASSUME chain' = chain, delivered' = delivered, \A n \in InQ : value'[n] = value[n]
      PROVE  [Fifos!Next]_Fifos!vars
  BY <1>k, SameChannels DEF Fifos!vars
<1>1. CASE FreeStep(t)
  <2>1. chain' = chain /\ delivered' = delivered /\ value' = value
    BY <1>1 DEF FreeStep, CheckEnter, CheckStep, FreeNext, CheckExit, mem, history
  <2> QED
    BY <1>k, <2>1
<1>2. CASE t # Taker /\ PutStep(t)
  <2>1. CASE EnqLink(t) /\ next[tl[t]] = Null
    BY <1>2, <1>t, <2>1, TestLinkSends DEF Fifos!Next
  <2>2. CASE EnqLink(t) /\ next[tl[t]] # Null
    BY <1>k, <2>2 DEF EnqLink
  <2>3. CASE EnqInit(t)
    <3>1. pc[t] = "e_init" /\ Hand(t) = {node[t]}
      BY <2>3 DEF EnqInit, Hand
    <3>2. node[t] \notin InQ /\ InQ \subseteq Nodes
      BY <1>2, <1>t, <3>1, OneQueue DEF ListsIInv, ApartOK
    <3>3. \A n \in InQ : value'[n] = value[n]
      BY <1>t, <2>3, <3>2 DEF EnqInit, TypeOK
    <3>4. chain' = chain /\ delivered' = delivered
      BY <2>3 DEF EnqInit, history
    <3> QED
      BY <1>k, <3>3, <3>4
  <2>4. CASE \/ \E v \in Values : Enqueue(t, myq, v)
             \/ EnqLoadTail(t) \/ EnqSwing(t) \/ EnqSize(t)
    <3>1. chain' = chain /\ delivered' = delivered /\ value' = value
      BY <2>4 DEF Enqueue, EnqLoadTail, EnqSwing, EnqSize, mem, history
    <3> QED
      BY <1>k, <3>1
  <2> QED
    BY <1>2, <2>1, <2>2, <2>3, <2>4 DEF PutStep
<1>3. CASE t = Taker /\ TakeStep
  <2>1. CASE DeqTake(Taker)
    BY <1>t, <2>1, TestTakeReceives DEF Fifos!Next
  <2>2. CASE ~DeqTake(Taker)
    <3>1. chain' = chain /\ delivered' = delivered /\ value' = value
      BY <1>3, <2>2
         DEF TakeStep, Dequeue, DeqLoadHead, DeqLoadNext, DeqTestTail, DeqValue, DeqSize,
             RecycleLoad, RecycleLink, RecycleTime, RecycleMove, mem, history
    <3> QED
      BY <1>k, <3>1
  <2> QED
    BY <2>1, <2>2
<1> QED
  BY <1>1, <1>2, <1>3 DEF Acts

\* So does every step of the tests.
LEMMA TestChannels ==
    ASSUME OneTaker, TestIInv, [TestNext]_<<vars, testVars>>
    PROVE  [Fifos!Next]_Fifos!vars
<1>1. ListsIInv
  BY DEF TestIInv
<1>2. ASSUME NEW t \in Threads, WorkerCall(t) \/ WorkerStep(t) PROVE [Fifos!Next]_Fifos!vars
  <2>1. Acts(t)
    BY <1>1, <1>2, TheActs DEF ListsIInv
  <2> QED
    BY <1>1, <2>1, ThreadChannels
<1>3. CASE \/ StartTest \/ EndTest \/ Destroy \/ (Tick /\ test # "over" /\ UNCHANGED testVars)
           \/ UNCHANGED <<vars, testVars>>
  <2>1. chain' = chain /\ delivered' = delivered /\ value' = value
    BY <1>3 DEF StartTest, EndTest, Destroy, Tick, lfqVars, vars, mem, history
  <2>2. UNCHANGED <<Chans, delivered>>
    BY <1>1, <2>1, SameChannels
  <2> QED
    BY <2>2 DEF Fifos!vars
<1> QED
  BY <1>2, <1>3 DEF TestNext

\* With recycling at work the queue is still a first-in first-out channel: no node comes
\* back while a compare-and-swap could take it for the one that was there before.
THEOREM RecyclingRefinement ==
    ASSUME OneTaker
    PROVE  TestSpec => RefinesChannels
<1>1. TestInit => Fifos!Init
  BY ChannelsInit DEF TestInit
<1>2. TestIInv /\ [TestNext]_<<vars, testVars>> => [Fifos!Next]_Fifos!vars
  BY TestChannels
<1>3. TestSpec => TestInit /\ [][TestNext]_<<vars, testVars>>
  BY PTL DEF TestSpec
<1> QED
  BY <1>1, <1>2, <1>3, TestInvariance, PTL DEF RefinesChannels, Fifos!Spec
=============================================================================
