--------------------------- MODULE LFQueue_proofs ---------------------------
(***************************************************************************)
(* The queues of audio.c, for any number of queues, threads, nodes and     *)
(* values, any allocator and any width of size_t: the list in memory is    *)
(* the chain, no node is lost, doubled or touched after it was given back, *)
(* size is right, and each queue is a FIFO channel.                        *)
(***************************************************************************)
EXTENDS LFQueue, SequenceTheorems, FiniteSetTheorems, TLAPS

\* How audio.c uses its queues: one call of lfqueue_enq at a time is under way
\* on a queue and one that takes from it, always lfqueue_single_deq.  The
\* consumer may change between two calls, as it does when Audio_stop empties the
\* queues after the stream and the threads have ended (audio.c:375-381).
TakeTurns ==
    \A q \in Queues :
        /\ ~Recycles(q)
        /\ \A t, u \in Threads :
              on[t] = q /\ on[u] = q =>
                  /\ pc[t] \in EnqLabels /\ pc[u] \in EnqLabels => t = u
                  /\ pc[t] \in DeqLabels /\ pc[u] \in DeqLabels => t = u

\* What a thread knows at each step: a producer that tail is still where it
\* looked, a consumer that head is, and that it may leave it.
ThreadOK(t) ==
    /\ pc[t] \in {"idle"} \cup EnqLabels \cup DeqLabels
    /\ pc[t] \in EnqLabels => on[t] \in Queues /\ t \in Producers[on[t]]
    /\ pc[t] \in DeqLabels =>
          on[t] \in Queues /\ t \in Consumers[on[t]] /\ kind[t] = "single_deq"
    /\ pc[t] \in {"e_init", "e_tail", "e_link", "e_swing"} => node[t] \in Nodes
    /\ pc[t] \in {"e_init", "e_tail", "e_link"} => arg[t] \in Values
    /\ pc[t] \in {"e_tail", "e_link"} => value[node[t]] = arg[t] /\ next[node[t]] = Null
    /\ pc[t] \in {"e_link", "e_swing"} => tl[t] = tail[on[t]]
    /\ pc[t] = "e_swing" => node[t] = Last(chain[on[t]])
    /\ pc[t] \in {"d_next", "d_tail", "d_value", "d_take"} => hd[t] = head[on[t]]
    /\ pc[t] = "d_tail" =>
          nx[t] = Null \/ (Len(chain[on[t]]) > 1 /\ nx[t] = chain[on[t]][2])
    /\ pc[t] \in {"d_value", "d_take"} =>
          /\ Len(chain[on[t]]) > 1 /\ nx[t] = chain[on[t]][2]
          /\ tail[on[t]] # hd[t]
    /\ pc[t] = "d_take" => val[t] = value[nx[t]]
    /\ pc[t] = "d_free" => hd[t] \in Nodes

\* Nothing is recycled, so the second node of a queue stays where it is.
NothingRecycled == recycled = [q \in Queues |-> <<FreeBase[q]>>]

\* Every node is in one place, place by place.
NodesApart ==
    /\ \A q \in Queues : \A i, j \in 1 .. Len(chain[q]) : chain[q][i] = chain[q][j] => i = j
    /\ \A q, r \in Queues : q # r => InChain(q) \cap InChain(r) = {}
    /\ \A q \in Queues : InChain(q) \cap pool = {}
    /\ \A q, r \in Queues : FreeBase[r] \notin InChain(q) \cup pool
    /\ \A t \in Threads, q \in Queues :
          Private(t) \cap (InChain(q) \cup pool \cup {FreeBase[q]}) = {}
    /\ \A t, u \in Threads : t # u => Private(t) \cap Private(u) = {}

\* And in one place at least.
NodesCovered ==
    \A n \in Nodes :
        \/ n \in pool
        \/ \E q \in Queues : n \in InChain(q) \/ n = FreeBase[q]
        \/ \E t \in Threads : n \in Private(t)

QueueIInv ==
    /\ TypeOK /\ NothingRecycled /\ ChainInv
    /\ NodesApart /\ NodesCovered
    /\ \A t \in Threads : ThreadOK(t)

-----------------------------------------------------------------------------
(* The history of a list. *)

\* new is s with n behind it, and new is s without its first node.
Longer(new, s, n) ==
    /\ new \in Seq(Nodes) /\ Len(new) = Len(s) + 1
    /\ \A i \in 1 .. Len(s) : new[i] = s[i]
    /\ new[Len(s) + 1] = n /\ Last(new) = n
    /\ Elements(new) = Elements(s) \cup {n}

Shorter(new, s) ==
    /\ new \in Seq(Nodes) /\ Len(new) = Len(s) - 1
    /\ \A i \in 1 .. Len(new) : new[i] = s[i + 1]
    /\ Last(new) = Last(s)
    /\ Elements(new) = Elements(s) \ {s[1]}

\* A node is linked behind the last one.
LEMMA Lengthened ==
    ASSUME NEW s \in Seq(Nodes), NEW n \in Nodes, Len(s) > 0,
           NEW new, new = Append(s, n)
    PROVE  Longer(new, s, n)
<1>1. /\ new \in Seq(Nodes) /\ Len(new) = Len(s) + 1
      /\ \A i \in 1 .. Len(s) : new[i] = s[i]
      /\ new[Len(s) + 1] = n
  BY AppendProperties
<1>2. Len(s) \in Nat
  BY LenProperties
<1> QED
  BY <1>1, <1>2 DEF Longer, Elements, Last

\* The first node is left, and another is behind it.
LEMMA Shortened ==
    ASSUME NEW s \in Seq(Nodes), Len(s) > 1, NEW new, new = SubSeq(s, 2, Len(s)),
           \A i, j \in 1 .. Len(s) : s[i] = s[j] => i = j
    PROVE  Shorter(new, s)
<1>1. Len(s) \in Nat /\ \A i \in 1 .. Len(s) : s[i] \in Nodes
  BY LenProperties
<1>2. /\ new \in Seq(Nodes) /\ Len(new) = Len(s) - 1
      /\ \A i \in 1 .. Len(s) - 1 : new[i] = s[2 + i - 1]
  BY <1>1, SubSeqProperties
<1>3. \A i \in 1 .. Len(new) : new[i] = s[i + 1]
  BY <1>1, <1>2
<1>4. Last(new) = Last(s)
  BY <1>1, <1>2, <1>3 DEF Last
<1>5. Elements(new) \subseteq Elements(s) \ {s[1]}
  BY <1>1, <1>2, <1>3 DEF Elements
<1>6. ASSUME NEW n \in Elements(s) \ {s[1]} PROVE n \in Elements(new)
  <2>1. PICK i \in 1 .. Len(s) : s[i] = n
    BY <1>6 DEF Elements
  <2>2. i - 1 \in 1 .. Len(new) /\ new[i - 1] = n
    BY <1>1, <1>2, <1>3, <1>6, <2>1
  <2> QED
    BY <2>2 DEF Elements
<1> QED
  BY <1>2, <1>3, <1>4, <1>5, <1>6 DEF Shorter

\* The node that is left is the last, or another is behind it.
LEMMA OneOrMore ==
    ASSUME NEW s \in Seq(Nodes), Len(s) > 0
    PROVE  Len(s) = 1 \/ Len(s) > 1
<1>1. PICK k \in Nat : k = Len(s)
  BY LenProperties
<1> QED
  BY <1>1

\* What the chain of a queue is made of.
LEMMA ChainFacts ==
    ASSUME TypeOK, ChainInv, NEW q \in Queues
    PROVE  /\ chain[q] \in Seq(Nodes) /\ Len(chain[q]) \in Nat /\ Len(chain[q]) > 0
           /\ \A i \in 1 .. Len(chain[q]) : chain[q][i] \in InChain(q) /\ chain[q][i] \in Nodes
           /\ Last(chain[q]) \in InChain(q) /\ head[q] \in InChain(q) /\ tail[q] \in InChain(q)
           /\ InChain(q) \subseteq Nodes
           /\ next[Last(chain[q])] = Null
<1>1. chain[q] \in Seq(Nodes) /\ Len(chain[q]) > 0
  BY DEF TypeOK, ChainInv
<1>2. Len(chain[q]) \in Nat /\ \A i \in 1 .. Len(chain[q]) : chain[q][i] \in Nodes
  BY <1>1, LenProperties
<1>3. \A i \in 1 .. Len(chain[q]) : chain[q][i] \in InChain(q)
  BY DEF InChain, Elements
<1>4. /\ head[q] = chain[q][1] /\ next[Last(chain[q])] = Null
      /\ \/ Len(chain[q]) > 1 /\ tail[q] = chain[q][Len(chain[q]) - 1]
         \/ tail[q] = Last(chain[q])
  BY DEF ChainInv
<1>5. InChain(q) \subseteq Nodes
  BY <1>2 DEF InChain, Elements
<1> QED
  BY <1>1, <1>2, <1>3, <1>4, <1>5 DEF Last

-----------------------------------------------------------------------------
(* Initial states. *)

\* After lfqueue_init_mf each queue has its two nodes and the pool has the others.
LEMMA QueueInit == Init => QueueIInv
<1> SUFFICES ASSUME Init PROVE QueueIInv
  OBVIOUS
<1>1. Base \in [Queues -> Nodes] /\ FreeBase \in [Queues -> Nodes]
  BY NodesAssumption
<1>2. ASSUME NEW n \in Nodes PROVE <<n>> \in Seq(Nodes) /\ Len(<<n>>) = 1 /\ <<n>>[1] = n
  BY <1>2
<1>3. TypeOK
  <2>1. 0 \in 0 .. Word - 1 /\ 0 \in 0 .. MaxCall /\ Grace + 1 \in 0 .. Grace + 1
    BY WordAssumption, BoundsAssumption
  <2>2. chain \in [Queues -> Seq(Nodes)] /\ recycled \in [Queues -> Seq(Nodes)]
    BY <1>1, <1>2 DEF Init
  <2>3. /\ next \in [Nodes -> Nodes \cup {Null}] /\ nextfree \in [Nodes -> Nodes \cup {Null}]
        /\ value \in [Nodes -> Values \cup {Null}] /\ age \in [Nodes -> 0 .. Grace + 1]
        /\ size \in [Queues -> 0 .. Word - 1] /\ elapsed \in [Threads -> 0 .. MaxCall]
    BY <2>1 DEF Init
  <2>4. /\ head \in [Queues -> Nodes] /\ tail \in [Queues -> Nodes]
        /\ root_free \in [Queues -> Nodes \cup {Null}] /\ move_free \in [Queues -> Nodes]
        /\ in_free_mode \in [Queues -> BOOLEAN] /\ expired \in [Queues -> SUBSET Nodes]
        /\ pool \in SUBSET Nodes /\ delivered \in [Queues -> Values \cup {Null}]
        /\ unlinked \in [Queues -> Nat]
    BY <1>1 DEF Init
  <2>5. /\ pc \in [Threads -> {"idle"} \cup EnqLabels \cup DeqLabels
                              \cup RecycleLabels \cup CheckLabels]
        /\ on \in [Threads -> Queues \cup {Null}]
        /\ \A f \in {arg, val} : f \in [Threads -> Values \cup {Null}]
        /\ \A f \in {node, tl, hd, nx, fr} : f \in [Threads -> Nodes \cup {Null}]
        /\ kind \in [Threads -> {"single_deq", "deq", Null}]
    BY DEF Init
  <2> QED
    BY <2>2, <2>3, <2>4, <2>5 DEF TypeOK
<1>4. NothingRecycled
  BY DEF Init, NothingRecycled
<1>5. ASSUME NEW q \in Queues
      PROVE  /\ chain[q] = <<Base[q]>> /\ Len(chain[q]) = 1 /\ chain[q][1] = Base[q]
             /\ InChain(q) = {Base[q]} /\ Base[q] \in Nodes
  BY <1>1, <1>2 DEF Init, InChain, Elements
<1>6. ChainInv
  <2>1. \A q \in Queues : ~Swinging(q)
    BY RolesAssumption DEF Init, Swinging
  <2>2. ASSUME NEW q \in Queues
        PROVE  head[q] = Base[q] /\ tail[q] = Base[q] /\ next[Base[q]] = Null
    BY <1>5 DEF Init
  <2>3. \A q \in Queues : Last(chain[q]) = Base[q]
    BY <1>5 DEF Last
  <2> QED
    BY <1>5, <2>1, <2>2, <2>3 DEF ChainInv
<1>7. \A t \in Threads : Private(t) = {}
  BY DEF Init, Private
<1>8. NodesApart
  BY <1>5, <1>7, NodesAssumption DEF NodesApart, Init
<1>9. NodesCovered
  BY <1>5, <1>7 DEF NodesCovered, Init
<1>10. \A t \in Threads : ThreadOK(t)
  BY DEF Init, ThreadOK, EnqLabels, DeqLabels
<1> QED
  BY <1>3, <1>4, <1>6, <1>8, <1>9, <1>10 DEF QueueIInv

-----------------------------------------------------------------------------
(* Steps: types and what belongs to one thread. *)

\* The locals, the lists and the memory have their types, one by one.
LEMMA Types ==
    ASSUME TypeOK
    PROVE  /\ next \in [Nodes -> Nodes \cup {Null}] /\ nextfree \in [Nodes -> Nodes \cup {Null}]
           /\ value \in [Nodes -> Values \cup {Null}]
           /\ head \in [Queues -> Nodes] /\ tail \in [Queues -> Nodes]
           /\ size \in [Queues -> 0 .. Word - 1]
           /\ pool \in SUBSET Nodes
           /\ DOMAIN pc = Threads /\ DOMAIN kind = Threads
           /\ on \in [Threads -> Queues \cup {Null}]
           /\ arg \in [Threads -> Values \cup {Null}] /\ val \in [Threads -> Values \cup {Null}]
           /\ node \in [Threads -> Nodes \cup {Null}] /\ tl \in [Threads -> Nodes \cup {Null}]
           /\ hd \in [Threads -> Nodes \cup {Null}] /\ nx \in [Threads -> Nodes \cup {Null}]
           /\ fr \in [Threads -> Nodes \cup {Null}]
           /\ delivered \in [Queues -> Values \cup {Null}]
           /\ chain \in [Queues -> Seq(Nodes)]
BY DEF TypeOK

\* A thread has only its own locals to write.
OthersStay(t) ==
    \A u \in Threads \ {t} :
        /\ pc'[u] = pc[u] /\ on'[u] = on[u] /\ kind'[u] = kind[u]
        /\ arg'[u] = arg[u] /\ node'[u] = node[u] /\ tl'[u] = tl[u]
        /\ hd'[u] = hd[u] /\ nx'[u] = nx[u] /\ val'[u] = val[u]

\* Each thread leaves the locals of the others alone.
LEMMA OwnLocals ==
    ASSUME TypeOK, NEW t \in Threads, Call(t) \/ SingleStep(t)
    PROVE  OthersStay(t)
<1> USE DEF OthersStay, Goto, locals
<1>1. DOMAIN pc = Threads /\ DOMAIN on = Threads /\ DOMAIN kind = Threads
      /\ DOMAIN arg = Threads /\ DOMAIN node = Threads /\ DOMAIN tl = Threads
      /\ DOMAIN hd = Threads /\ DOMAIN nx = Threads /\ DOMAIN val = Threads
  BY Types
<1>2. Return(t) => OthersStay(t)
  BY <1>1 DEF Return
<1>3. ASSUME NEW q \in Queues, Dequeue(t, q) PROVE OthersStay(t)
  BY <1>1, <1>3 DEF Dequeue
<1>4. ASSUME NEW q \in Queues, NEW v \in Values, Enqueue(t, q, v) PROVE OthersStay(t)
  BY <1>1, <1>4 DEF Enqueue
<1>5. CASE EnqInit(t) \/ EnqLoadTail(t) \/ EnqLink(t) \/ EnqSwing(t)
  BY <1>1, <1>5 DEF EnqInit, EnqLoadTail, EnqLink, EnqSwing
<1>6. CASE EnqSize(t) \/ DeqSize(t)
  BY <1>2, <1>6 DEF EnqSize, DeqSize
<1>7. CASE DeqLoadHead(t) \/ DeqLoadNext(t) \/ DeqValue(t) \/ DeqTake(t) \/ DeqFree(t)
  BY <1>1, <1>7 DEF DeqLoadHead, DeqLoadNext, DeqValue, DeqTake, DeqFree
<1>8. CASE DeqTestTail(t)
  BY <1>1, <1>2, <1>8 DEF DeqTestTail, DeqEmpty
<1> QED
  BY <1>3, <1>4, <1>5, <1>6, <1>7, <1>8 DEF Call, SingleStep

\* size_t holds whatever is added.
LEMMA ResizeType ==
    ASSUME TypeOK, NEW q \in Queues, NEW k \in {1, -1}, Resize(q, k)
    PROVE  size' \in [Queues -> 0 .. Word - 1]
<1>1. \A i \in Int : i % Word \in 0 .. Word - 1
  BY WordAssumption, Z3
<1>2. (size[q] + k) % Word \in 0 .. Word - 1
  <2>1. size[q] + k \in Int
    BY WordAssumption, Types
  <2> QED
    BY <1>1, <2>1
<1> QED
  BY <1>2, Types DEF Resize

\* Every step keeps the types.
LEMMA QueueTypeStep ==
    ASSUME QueueIInv, NEW t \in Threads, Call(t) \/ SingleStep(t)
    PROVE  TypeOK'
<1> USE DEF TypeOK, Goto, EnqLabels, DeqLabels
<1>t. TypeOK /\ ThreadOK(t) /\ ChainInv
  BY DEF QueueIInv
<1>l. \A s \in Seq(Nodes), n \in Nodes : Append(s, n) \in Seq(Nodes)
  BY AppendProperties
<1>r. ASSUME Return(t), UNCHANGED <<mem, head, tail, recycling, pool, history>>,
             size' \in [Queues -> 0 .. Word - 1]
      PROVE  TypeOK'
  <2>1. 0 \in 0 .. MaxCall
    BY BoundsAssumption
  <2> QED
    BY <1>t, <1>r, <2>1 DEF Return, mem, recycling, history
<1>1. ASSUME NEW q \in Queues, Dequeue(t, q) PROVE TypeOK'
  <2>1. kind' \in [Threads -> {"single_deq", "deq", Null}]
    <3>1. PICK k \in Deqs[q] : kind' = [kind EXCEPT ![t] = k]
      BY <1>1 DEF Dequeue
    <3>2. k \in {"single_deq", "deq"} /\ kind \in [Threads -> {"single_deq", "deq", Null}]
      BY <1>t, RolesAssumption
    <3> QED
      BY <3>1, <3>2
  <2> QED
    BY <1>t, <1>1, <2>1 DEF Dequeue, mem, queues, recycling, time, history
<1>2. ASSUME NEW q \in Queues, NEW v \in Values, Enqueue(t, q, v) PROVE TypeOK'
  <2>1. CASE /\ on' = [on EXCEPT ![t] = q] /\ Goto(t, "e_size")
             /\ unlinked' = [unlinked EXCEPT ![q] = @ + 1]
             /\ UNCHANGED <<pool, node, arg>>
    <3>1. unlinked' \in [Queues -> Nat]
      BY <1>t, <2>1
    <3>2. UNCHANGED <<mem, queues, recycling, tl, hd, nx, val, fr, kind, time, delivered,
                      chain, recycled>>
      BY <1>2 DEF Enqueue
    <3> QED
      BY <1>t, <1>2, <2>1, <3>1, <3>2, SMTT(20) DEF mem, queues, recycling, time
  <2>2. ASSUME NEW n \in pool, pool' = pool \ {n}, node' = [node EXCEPT ![t] = n],
               arg' = [arg EXCEPT ![t] = v], on' = [on EXCEPT ![t] = q], Goto(t, "e_init"),
               UNCHANGED unlinked
        PROVE  TypeOK'
    BY <1>t, <1>2, <2>2, SMTT(20) DEF Enqueue, mem, queues, recycling, time, history
  <2> QED
    BY <1>2, <2>1, <2>2 DEF Enqueue
<1>3. CASE EnqInit(t)
  BY <1>t, <1>3 DEF EnqInit, queues, recycling, locals, time, history
<1>4. CASE EnqLoadTail(t)
  <2>1. tail[on[t]] \in Nodes
    BY <1>t, <1>4, Types DEF EnqLoadTail, ThreadOK
  <2> QED
    BY <1>t, <1>4, <2>1 DEF EnqLoadTail, mem, queues, recycling, time, history
<1>5. CASE EnqLink(t)
  <2>1. on[t] \in Queues /\ node[t] \in Nodes
    BY <1>t, <1>5 DEF EnqLink, ThreadOK
  <2>2. Linked(chain[on[t]], tl[t], node[t]) \in Seq(Nodes)
    BY <1>t, <1>l, <2>1, Types DEF Linked
  <2>3. CASE UNCHANGED <<next, chain>>
    BY <1>t, <1>5, <2>3 DEF EnqLink, queues, recycling, locals, time
  <2>4. CASE /\ next' = [next EXCEPT ![tl[t]] = node[t]]
             /\ chain' = [chain EXCEPT ![on[t]] = Linked(@, tl[t], node[t])]
    BY <1>t, <1>5, <2>1, <2>2, <2>4 DEF EnqLink, queues, recycling, locals, time
  <2> QED
    BY <1>5, <2>3, <2>4 DEF EnqLink
<1>6. CASE EnqSwing(t)
  <2>1. on[t] \in Queues /\ node[t] \in Nodes /\ ~Recycles(on[t]) => AfterSwing(t) = "e_size"
    BY <1>t, <1>6 DEF EnqSwing, ThreadOK, AfterSwing
  <2>2. AfterSwing(t) \in {"e_size", "c_enter"}
    BY DEF AfterSwing
  <2>3. tail' \in [Queues -> Nodes]
    BY <1>t, <1>6, Types DEF EnqSwing, ThreadOK
  <2> QED
    BY <1>t, <1>6, <2>2, <2>3, SMTT(20) DEF EnqSwing, mem, recycling, time, history, CheckLabels
<1>7. CASE EnqSize(t)
  BY <1>t, <1>7, <1>r, ResizeType DEF EnqSize, ThreadOK
<1>8. CASE DeqLoadHead(t)
  <2>1. head[on[t]] \in Nodes
    BY <1>t, <1>8, Types DEF DeqLoadHead, ThreadOK
  <2> QED
    BY <1>t, <1>8, <2>1, SMTT(20) DEF DeqLoadHead, mem, queues, recycling, time, history
<1>9. CASE DeqLoadNext(t)
  <2>1. hd[t] \in Nodes
    BY <1>t, <1>9, Types DEF DeqLoadNext, ThreadOK
  <2> QED
    BY <1>t, <1>9, <2>1 DEF DeqLoadNext, mem, queues, recycling, time, history
<1>10. CASE DeqTestTail(t)
  <2>1. kind[t] = "single_deq"
    BY <1>t, <1>10 DEF DeqTestTail, ThreadOK
  <2>2. CASE Return(t)
    BY <1>t, <1>10, <1>r, <2>2 DEF DeqTestTail, queues
  <2>3. CASE (Goto(t, "d_head") \/ Goto(t, "d_value")) /\ UNCHANGED <<locals, time>>
    BY <1>t, <1>10, <2>3 DEF DeqTestTail, mem, queues, recycling, history, locals, time
  <2> QED
    BY <1>10, <2>1, <2>2, <2>3 DEF DeqTestTail, DeqEmpty
<1>11. CASE DeqValue(t)
  <2>1. nx[t] \in Nodes
    BY <1>t, <1>11, ChainFacts, SMTT(20) DEF DeqValue, ThreadOK
  <2> QED
    BY <1>t, <1>11, <2>1 DEF DeqValue, mem, queues, recycling, time, history
<1>12. CASE DeqTake(t)
  <2>1. /\ on[t] \in Queues /\ kind[t] = "single_deq" /\ nx[t] \in Nodes
        /\ chain[on[t]] \in Seq(Nodes) /\ Len(chain[on[t]]) \in Nat
        /\ \A i \in 1 .. Len(chain[on[t]]) : chain[on[t]][i] \in Nodes
    <3>1. /\ on[t] \in Queues /\ kind[t] = "single_deq" /\ nx[t] = chain[on[t]][2]
          /\ Len(chain[on[t]]) > 1
      BY <1>t, <1>12 DEF DeqTake, ThreadOK
    <3>2. /\ chain[on[t]] \in Seq(Nodes) /\ Len(chain[on[t]]) \in Nat
          /\ \A i \in 1 .. Len(chain[on[t]]) : chain[on[t]][i] \in Nodes
      BY <1>t, <3>1, ChainFacts
    <3>3. 2 \in 1 .. Len(chain[on[t]])
      BY <3>1, <3>2
    <3> QED
      BY <3>1, <3>2, <3>3
  <2>2. SubSeq(chain[on[t]], 2, Len(chain[on[t]])) \in Seq(Nodes)
    BY <2>1, SubSeqProperties
  <2>3. CASE /\ head' = [head EXCEPT ![on[t]] = nx[t]]
             /\ delivered' = [delivered EXCEPT ![on[t]] = val[t]]
             /\ chain' = [chain EXCEPT ![on[t]] = SubSeq(@, 2, Len(@))]
             /\ nx' = [nx EXCEPT ![t] = Null] /\ UNCHANGED val
             /\ Goto(t, IF kind[t] = "deq" THEN "r_load" ELSE "d_free")
    <3>1. chain' \in [Queues -> Seq(Nodes)]
      BY <1>t, <2>2, <2>3, Types
    <3>2. head' \in [Queues -> Nodes] /\ delivered' \in [Queues -> Values \cup {Null}]
      BY <1>t, <2>1, <2>3, Types
    <3>3. pc' = [pc EXCEPT ![t] = "d_free"]
      BY <2>1, <2>3
    <3>4. UNCHANGED <<mem, tail, size, recycling, pool, on, arg, node, tl, hd, fr, kind, time,
                      recycled, unlinked>>
      BY <1>12 DEF DeqTake
    <3> QED
      BY <1>t, <2>3, <3>1, <3>2, <3>3, <3>4, SMTT(20) DEF mem, recycling, time
  <2>4. CASE /\ Goto(t, "d_head") /\ val' = [val EXCEPT ![t] = Null]
             /\ UNCHANGED <<head, delivered, chain, nx>>
    BY <1>t, <1>12, <2>4 DEF DeqTake, mem, recycling, time
  <2> QED
    BY <1>12, <2>3, <2>4 DEF DeqTake
<1>13. CASE DeqFree(t)
  BY <1>t, <1>13 DEF DeqFree, mem, queues, recycling, locals, time, history, ThreadOK
<1>14. CASE DeqSize(t)
  BY <1>t, <1>14, <1>r, ResizeType DEF DeqSize, ThreadOK
<1> QED
  BY <1>1, <1>2, <1>3, <1>4, <1>5, <1>6, <1>7, <1>8, <1>9, <1>10, <1>11, <1>12, <1>13, <1>14
     DEF Call, SingleStep

-----------------------------------------------------------------------------
(* Steps: the list and the nodes. *)

\* What a thread holds depends on its own locals.
LEMMA PrivateStays ==
    ASSUME NEW t \in Threads, OthersStay(t)
    PROVE  \A u \in Threads \ {t} : Private(u)' = Private(u)
BY DEF OthersStay, Private

\* A step that writes no memory and hands over no node.
LEMMA QuietStep ==
    ASSUME QueueIInv, TypeOK', NEW t \in Threads, OthersStay(t),
           ThreadOK(t)', Private(t)' = Private(t), pc[t] # "e_swing", pc'[t] # "e_swing",
           UNCHANGED <<next, value, head, tail, pool, chain, recycled>>
    PROVE  QueueIInv'
<1>1. \A u \in Threads : Private(u)' = Private(u)
  BY PrivateStays
<1>2. \A q \in Queues : InChain(q)' = InChain(q)
  BY DEF InChain, Elements
<1>3. NodesApart' /\ NodesCovered'
  BY <1>1, <1>2 DEF QueueIInv, NodesApart, NodesCovered
<1>4. ASSUME NEW q \in Queues PROVE Swinging(q)' = Swinging(q)
  BY RolesAssumption DEF Swinging, OthersStay
<1>5. ChainInv'
  BY <1>4 DEF QueueIInv, ChainInv, Last
<1>6. ASSUME NEW u \in Threads PROVE ThreadOK(u)'
  <2>1. CASE u # t
    BY <2>1 DEF QueueIInv, ThreadOK, OthersStay, Last
  <2> QED
    BY <2>1
<1> QED
  BY <1>3, <1>5, <1>6 DEF QueueIInv, NothingRecycled

\* Loads, tests and counting.
LEMMA QuietSteps ==
    ASSUME QueueIInv, TakeTurns, NEW t \in Threads, OthersStay(t), TypeOK',
           \/ \E q \in Queues : Dequeue(t, q)
           \/ EnqLoadTail(t) \/ EnqSize(t)
           \/ DeqLoadHead(t) \/ DeqLoadNext(t) \/ DeqTestTail(t) \/ DeqValue(t) \/ DeqSize(t)
    PROVE  QueueIInv'
<1> USE DEF EnqLabels, DeqLabels
<1>t. TypeOK /\ ThreadOK(t) /\ ChainInv
  BY DEF QueueIInv
<1>r. ASSUME Return(t), UNCHANGED <<mem, head, tail, recycling, pool, history>>,
             pc[t] \in {"e_size", "d_size", "d_tail"}
      PROVE  QueueIInv'
  <2>1. pc'[t] = "idle"
    BY <1>r, Types, <1>t DEF Return, Goto
  <2>2. ThreadOK(t)' /\ Private(t)' = {} /\ Private(t) = {}
    BY <1>r, <2>1 DEF ThreadOK, Private
  <2> QED
    BY <1>r, <2>1, <2>2, QuietStep DEF mem, history
<1>1. ASSUME NEW q \in Queues, Dequeue(t, q) PROVE QueueIInv'
  <2>1. pc'[t] = "d_head" /\ on'[t] = q /\ kind'[t] = "single_deq" /\ t \in Consumers[q]
    <3>1. PICK k \in Deqs[q] : kind' = [kind EXCEPT ![t] = k]
      BY <1>1 DEF Dequeue
    <3>2. k = "single_deq"
      BY RolesAssumption DEF TakeTurns, Recycles
    <3> QED
      BY <1>1, <1>t, <3>1, <3>2, Types DEF Dequeue, Goto
  <2>2. ThreadOK(t)' /\ Private(t)' = Private(t)
    BY <1>1, <2>1 DEF Dequeue, ThreadOK, Private
  <2> QED
    BY <1>1, <2>1, <2>2, QuietStep DEF Dequeue, mem, queues, history
<1>2. CASE EnqLoadTail(t)
  <2>1. pc'[t] = "e_link" /\ tl'[t] = tail[on[t]]
    BY <1>2, <1>t, Types DEF EnqLoadTail, Goto
  <2>2. ThreadOK(t)' /\ Private(t)' = Private(t)
    BY <1>2, <1>t, <2>1 DEF EnqLoadTail, ThreadOK, Private, mem, queues
  <2> QED
    BY <1>2, <2>1, <2>2, QuietStep DEF EnqLoadTail, mem, queues, history
<1>3. CASE EnqSize(t) \/ DeqSize(t)
  BY <1>3, <1>r DEF EnqSize, DeqSize
<1>4. CASE DeqLoadHead(t)
  <2>1. pc'[t] = "d_next" /\ hd'[t] = head[on[t]]
    BY <1>4, <1>t, Types DEF DeqLoadHead, Goto
  <2>2. ThreadOK(t)' /\ Private(t)' = Private(t)
    BY <1>4, <1>t, <2>1 DEF DeqLoadHead, ThreadOK, Private, mem, queues
  <2> QED
    BY <1>4, <2>1, <2>2, QuietStep DEF DeqLoadHead, mem, queues, history
<1>5. CASE DeqLoadNext(t)
  <2>1. pc'[t] = "d_tail" /\ nx'[t] = next[hd[t]] /\ on[t] \in Queues
    BY <1>5, <1>t, Types DEF DeqLoadNext, Goto, ThreadOK
  <2>2. nx'[t] = Null \/ (Len(chain[on[t]]) > 1 /\ nx'[t] = chain[on[t]][2])
    <3>1. hd[t] = chain[on[t]][1] /\ Len(chain[on[t]]) \in Nat /\ Len(chain[on[t]]) > 0
      BY <1>5, <1>t, <2>1, ChainFacts DEF DeqLoadNext, ThreadOK, ChainInv
    <3>2. CASE Len(chain[on[t]]) = 1
      BY <1>t, <2>1, <3>1, <3>2 DEF ChainInv, Last
    <3>3. CASE Len(chain[on[t]]) > 1
      <4>1. 1 \in 1 .. Len(chain[on[t]]) - 1
        BY <3>1, <3>3
      <4> QED
        BY <1>t, <2>1, <3>1, <3>3, <4>1 DEF ChainInv
    <3>4. Len(chain[on[t]]) = 1 \/ Len(chain[on[t]]) > 1
      BY <1>t, <2>1, ChainFacts, OneOrMore
    <3> QED
      BY <3>2, <3>3, <3>4
  <2>3. ThreadOK(t)' /\ Private(t)' = Private(t)
    BY <1>5, <1>t, <2>1, <2>2 DEF DeqLoadNext, ThreadOK, Private, mem, queues, history
  <2> QED
    BY <1>5, <2>1, <2>3, QuietStep DEF DeqLoadNext, mem, queues, history
<1>6. CASE DeqTestTail(t)
  <2>1. CASE Return(t)
    BY <1>6, <1>r, <2>1 DEF DeqTestTail, queues
  <2>2. CASE Goto(t, "d_head") /\ UNCHANGED <<locals, time>>
    <3>1. pc'[t] = "d_head"
      BY <1>t, <2>2, Types DEF Goto
    <3>2. ThreadOK(t)' /\ Private(t)' = Private(t)
      BY <1>6, <1>t, <2>2, <3>1 DEF DeqTestTail, ThreadOK, Private, locals
    <3> QED
      BY <1>6, <3>1, <3>2, QuietStep DEF DeqTestTail, mem, queues, history
  <2>3. CASE nx[t] # Null /\ tail[on[t]] # hd[t] /\ Goto(t, "d_value")
             /\ UNCHANGED <<locals, time>>
    <3>1. pc'[t] = "d_value"
      BY <1>t, <2>3, Types DEF Goto
    <3>2. ThreadOK(t)' /\ Private(t)' = Private(t)
      BY <1>6, <1>t, <2>3, <3>1
         DEF DeqTestTail, ThreadOK, Private, locals, mem, queues, history
    <3> QED
      BY <1>6, <3>1, <3>2, QuietStep DEF DeqTestTail, mem, queues, history
  <2> QED
    BY <1>6, <1>t, <2>1, <2>2, <2>3 DEF DeqTestTail, DeqEmpty, ThreadOK
<1>7. CASE DeqValue(t)
  <2>1. pc'[t] = "d_take" /\ val'[t] = value[nx[t]]
    BY <1>7, <1>t, Types DEF DeqValue, Goto
  <2>2. ThreadOK(t)' /\ Private(t)' = Private(t)
    BY <1>7, <1>t, <2>1 DEF DeqValue, ThreadOK, Private, mem, queues, history
  <2> QED
    BY <1>7, <2>1, <2>2, QuietStep DEF DeqValue, mem, queues, history
<1> QED
  BY <1>1, <1>2, <1>3, <1>4, <1>5, <1>6, <1>7

\* What the step of a thread at a queue can rely on.
LEMMA AtStep ==
    ASSUME QueueIInv, NEW t \in Threads
    PROVE  /\ TypeOK /\ ChainInv /\ NodesApart /\ NodesCovered /\ ThreadOK(t)
           /\ \A u \in Threads : ThreadOK(u)
BY DEF QueueIInv

\* A step that leaves the lists of the queues alone.
LEMMA SameLists ==
    ASSUME UNCHANGED chain
    PROVE  \A q \in Queues : InChain(q)' = InChain(q)
BY DEF InChain, Elements

\* The allocator hands out a node, or does not.
LEMMA EnqueueStep ==
    ASSUME QueueIInv, TypeOK', NEW t \in Threads, OthersStay(t),
           NEW q \in Queues, NEW v \in Values, Enqueue(t, q, v)
    PROVE  QueueIInv'
<1> USE AtStep DEF EnqLabels, DeqLabels
<1>p. pc[t] = "idle" /\ t \in Producers[q]
  BY DEF Enqueue
<1>1. CASE Goto(t, "e_size") /\ on' = [on EXCEPT ![t] = q] /\ UNCHANGED <<pool, node, arg>>
  <2>1. pc'[t] = "e_size" /\ on'[t] = q
    BY <1>1, Types DEF Goto
  <2>2. ThreadOK(t)' /\ Private(t)' = Private(t)
    BY <1>p, <2>1 DEF ThreadOK, Private
  <2> QED
    BY <1>1, <1>p, <2>1, <2>2, QuietStep DEF Enqueue, mem, queues, history
<1>2. ASSUME NEW n \in pool, pool' = pool \ {n}, node' = [node EXCEPT ![t] = n],
             arg' = [arg EXCEPT ![t] = v], on' = [on EXCEPT ![t] = q], Goto(t, "e_init")
      PROVE  QueueIInv'
  <2>0. UNCHANGED <<next, value, head, tail, chain, recycled>> /\ UNCHANGED chain
    BY DEF Enqueue, mem, queues, history
  <2>1. pc'[t] = "e_init" /\ on'[t] = q /\ node'[t] = n /\ arg'[t] = v /\ n \in Nodes
    BY <1>2, Types DEF Goto
  <2>2. Private(t) = {} /\ Private(t)' = {n}
    BY <1>p, <2>1 DEF Private
  <2>3. \A u \in Threads \ {t} : Private(u)' = Private(u)
    BY PrivateStays
  <2>4. \A r \in Queues : InChain(r)' = InChain(r)
    BY <2>0, SameLists
  <2>5. NodesApart'
    BY <1>2, <2>0, <2>2, <2>3, <2>4 DEF NodesApart
  <2>6. NodesCovered'
    BY <1>2, <2>2, <2>3, <2>4 DEF NodesCovered
  <2>7. ASSUME NEW r \in Queues PROVE Swinging(r)' = Swinging(r)
    BY <1>p, <2>1, RolesAssumption DEF Swinging, OthersStay
  <2>8. ChainInv'
    BY <2>0, <2>7 DEF ChainInv, Last
  <2>9. ASSUME NEW u \in Threads PROVE ThreadOK(u)'
    <3>1. CASE u # t
      BY <2>0, <3>1 DEF ThreadOK, OthersStay, Last
    <3>2. CASE u = t
      BY <1>p, <2>1, <3>2 DEF ThreadOK
    <3> QED
      BY <3>1, <3>2
  <2> QED
    BY <2>0, <2>5, <2>6, <2>8, <2>9 DEF QueueIInv, NothingRecycled
<1> QED
  BY <1>1, <1>2 DEF Enqueue

\* The fields of a node are written before anybody else can see it.
LEMMA EnqInitStep ==
    ASSUME QueueIInv, TypeOK', NEW t \in Threads, OthersStay(t), EnqInit(t)
    PROVE  QueueIInv'
<1> USE AtStep DEF EnqLabels, DeqLabels
<1>p. pc[t] = "e_init" /\ node[t] \in Nodes /\ on[t] \in Queues /\ t \in Producers[on[t]]
      /\ arg[t] \in Values
  BY DEF EnqInit, ThreadOK
<1>0. UNCHANGED <<head, tail, pool, chain, recycled>> /\ UNCHANGED chain
      /\ on'[t] = on[t] /\ node'[t] = node[t] /\ arg'[t] = arg[t]
  BY DEF EnqInit, queues, history, locals
<1>1. pc'[t] = "e_tail"
  BY Types DEF EnqInit, Goto
<1>2. Private(t) = {node[t]} /\ Private(t)' = {node[t]}
  BY <1>p, <1>0, <1>1 DEF Private
<1>3. \A u \in Threads : Private(u)' = Private(u)
  BY <1>2, PrivateStays
<1>4. \A r \in Queues : InChain(r)' = InChain(r)
  BY <1>0, SameLists
<1>5. NodesApart' /\ NodesCovered'
  BY <1>0, <1>3, <1>4 DEF NodesApart, NodesCovered
<1>6. /\ next'[node[t]] = Null /\ value'[node[t]] = arg[t]
      /\ \A m \in Nodes : m # node[t] => next'[m] = next[m] /\ value'[m] = value[m]
  BY <1>p, Types DEF EnqInit
<1>7. \A r \in Queues : \A m \in InChain(r) :
          m \in Nodes /\ next'[m] = next[m] /\ value'[m] = value[m]
  BY <1>2, <1>6, ChainFacts DEF NodesApart
<1>8. ASSUME NEW r \in Queues PROVE Swinging(r)' = Swinging(r)
  BY <1>p, <1>1, RolesAssumption DEF Swinging, OthersStay
<1>9. ChainInv'
  <2>1. ASSUME NEW r \in Queues
        PROVE  /\ \A i \in 1 .. Len(chain[r]) - 1 : next'[chain[r][i]] = chain[r][i + 1]
               /\ next'[Last(chain[r])] = Null
    BY <1>7, ChainFacts DEF ChainInv
  <2>2. \A r \in Queues : Last(chain[r])' = Last(chain[r])
    BY <1>0 DEF Last
  <2> QED
    BY <1>0, <1>8, <2>1, <2>2 DEF ChainInv
<1>10. ASSUME NEW u \in Threads PROVE ThreadOK(u)'
  <2>1. CASE u = t
    BY <1>p, <1>0, <1>1, <1>6, <2>1 DEF ThreadOK
  <2>2. CASE u # t
    <3>1. pc[u] \in {"e_tail", "e_link"} =>
              value'[node[u]] = value[node[u]] /\ next'[node[u]] = next[node[u]]
      <4>1. pc[u] \in {"e_tail", "e_link"} => Private(u) = {node[u]} /\ node[u] \in Nodes
        BY DEF Private, ThreadOK
      <4> QED
        BY <1>2, <1>6, <2>2, <4>1 DEF NodesApart
    <3>2. pc[u] = "d_take" => value'[nx[u]] = value[nx[u]]
      BY <1>7, ChainFacts DEF ThreadOK
    <3> QED
      BY <1>0, <2>2, <3>1, <3>2 DEF ThreadOK, OthersStay, Last
  <2> QED
    BY <2>1, <2>2
<1> QED
  BY <1>0, <1>5, <1>9, <1>10 DEF QueueIInv, NothingRecycled

\* The producer that is about to link finds tail at the last node.
LEMMA LinkFacts ==
    ASSUME QueueIInv, TakeTurns, NEW t \in Threads, pc[t] = "e_link", NEW q, q = on[t]
    PROVE  /\ q \in Queues /\ t \in Producers[q] /\ node[t] \in Nodes /\ arg[t] \in Values
           /\ tl[t] = Last(chain[q]) /\ tail[q] = Last(chain[q]) /\ next[tl[t]] = Null
           /\ next[node[t]] = Null /\ value[node[t]] = arg[t]
           /\ Private(t) = {node[t]} /\ node[t] \notin InChain(q) /\ node[t] # tl[t]
           /\ tl[t] \in Nodes
<1> USE AtStep DEF EnqLabels, DeqLabels
<1>1. /\ q \in Queues /\ t \in Producers[q] /\ node[t] \in Nodes /\ arg[t] \in Values
      /\ tl[t] = tail[q] /\ next[node[t]] = Null /\ value[node[t]] = arg[t]
  BY DEF ThreadOK
<1>2. ~Swinging(q)
  BY <1>1, RolesAssumption DEF Swinging, TakeTurns
<1>3. tail[q] = Last(chain[q]) /\ next[Last(chain[q])] = Null
  BY <1>1, <1>2 DEF ChainInv
<1>4. Private(t) = {node[t]}
  BY DEF Private
<1>5. node[t] \notin InChain(q)
  BY <1>1, <1>4 DEF NodesApart
<1> QED
  BY <1>1, <1>3, <1>4, <1>5, ChainFacts

\* A node is linked behind the last one of its queue.
LEMMA EnqLinkStep ==
    ASSUME QueueIInv, TakeTurns, TypeOK', NEW t \in Threads, OthersStay(t), EnqLink(t),
           NEW q, q = on[t], NEW s, s = chain[q], NEW n, n = node[t]
    PROVE  QueueIInv'
<1> USE DEF EnqLabels, DeqLabels
<1>a. /\ TypeOK /\ ChainInv /\ NodesApart /\ NodesCovered /\ ThreadOK(t)
      /\ \A u \in Threads : ThreadOK(u)
  BY AtStep
<1> USE <1>a
<1>p. /\ q \in Queues /\ t \in Producers[q] /\ n \in Nodes /\ pc[t] = "e_link"
      /\ tl[t] = Last(s) /\ tail[q] = Last(s) /\ next[tl[t]] = Null
      /\ next[n] = Null /\ Private(t) = {n} /\ n \notin InChain(q) /\ n # tl[t]
      /\ tl[t] \in Nodes
  BY LinkFacts DEF EnqLink
<1>s. s \in Seq(Nodes) /\ Len(s) \in Nat /\ Len(s) > 0
  BY <1>p, ChainFacts
<1>0. /\ next' = [next EXCEPT ![tl[t]] = n]
      /\ chain' = [chain EXCEPT ![q] = Append(s, n)]
      /\ pc'[t] = "e_swing" /\ UNCHANGED <<value, head, tail, pool, recycled>>
      /\ on'[t] = q /\ node'[t] = n /\ tl'[t] = tl[t]
  BY <1>p, <1>s, Types DEF EnqLink, Goto, Linked, queues, locals
<1>1. /\ chain'[q] = Append(s, n)
      /\ \A r \in Queues : r # q => chain'[r] = chain[r]
      /\ next'[tl[t]] = n /\ \A m \in Nodes : m # tl[t] => next'[m] = next[m]
  BY <1>p, <1>0, Types
<1>2. /\ Len(chain'[q]) = Len(s) + 1
      /\ \A i \in 1 .. Len(s) : chain'[q][i] = s[i]
      /\ chain'[q][Len(s) + 1] = n /\ Last(chain'[q]) = n
      /\ Elements(chain'[q]) = Elements(s) \cup {n}
  <2>1. chain'[q] = Append(s, n) /\ n \in Nodes
    BY <1>p, <1>1
  <2>2. Longer(chain'[q], s, n)
    BY <1>s, <2>1, Lengthened
  <2> QED
    BY <2>2 DEF Longer
<1>3. /\ InChain(q)' = InChain(q) \cup {n}
      /\ \A r \in Queues : r # q => InChain(r)' = InChain(r)
  BY <1>1, <1>2 DEF InChain, Elements
<1>4. Private(t)' = {} /\ \A u \in Threads \ {t} : Private(u)' = Private(u)
  BY <1>0, PrivateStays DEF Private
<1>5. NodesApart'
  <2>1. ASSUME NEW i \in 1 .. Len(chain'[q]), NEW j \in 1 .. Len(chain'[q]),
               chain'[q][i] = chain'[q][j]
        PROVE  i = j
    <3>1. \A k \in 1 .. Len(s) : s[k] # n
      BY <1>p DEF InChain, Elements
    <3>2. \A k, l \in 1 .. Len(s) : s[k] = s[l] => k = l
      BY <1>p DEF NodesApart
    <3>3. PICK k \in Nat : k = Len(s)
      BY <1>s
    <3>4. i \in 1 .. k \/ i = k + 1
      BY <1>2, <3>3
    <3>5. j \in 1 .. k \/ j = k + 1
      BY <1>2, <3>3
    <3>6. \A l \in 1 .. k : chain'[q][l] = s[l] /\ s[l] # n
      BY <1>2, <3>1, <3>3
    <3>7. chain'[q][k + 1] = n
      BY <1>2, <3>3
    <3> QED
      BY <2>1, <3>2, <3>3, <3>4, <3>5, <3>6, <3>7
  <2>2. \A r \in Queues : \A i, j \in 1 .. Len(chain'[r]) : chain'[r][i] = chain'[r][j] => i = j
    BY <1>1, <2>1, ZenonT(30) DEF NodesApart
  <2>3. \A r \in Queues : n \notin InChain(r) /\ n \notin pool /\ n # FreeBase[r]
    BY <1>p DEF NodesApart
  <2>4. \A u \in Threads \ {t} : n \notin Private(u)
    BY <1>p DEF NodesApart
  <2> QED
    BY <1>p, <1>0, <1>3, <1>4, <2>2, <2>3, <2>4, SMTT(20) DEF NodesApart
<1>6. NodesCovered'
  BY <1>p, <1>0, <1>3, <1>4 DEF NodesCovered
<1>7. Swinging(q)' /\ \A r \in Queues : r # q => Swinging(r)' = Swinging(r)
  BY <1>p, <1>0, RolesAssumption DEF Swinging, OthersStay
<1>8. ChainInv'
  <2>1. ASSUME NEW r \in Queues, r # q
        PROVE  /\ \A i \in 1 .. Len(chain[r]) - 1 : next'[chain[r][i]] = chain[r][i + 1]
               /\ next'[Last(chain[r])] = Null
    <3>1. Last(s) \in InChain(q)
      BY <1>p, ChainFacts
    <3>2. \A m \in InChain(r) : m # tl[t] /\ m \in Nodes
      BY <1>p, <2>1, <3>1, ChainFacts DEF NodesApart
    <3>3. \A m \in InChain(r) : next'[m] = next[m]
      BY <1>1, <3>2
    <3>4. /\ \A i \in 1 .. Len(chain[r]) - 1 :
                chain[r][i] \in InChain(r) /\ next[chain[r][i]] = chain[r][i + 1]
          /\ Last(chain[r]) \in InChain(r) /\ next[Last(chain[r])] = Null
      <4>1. /\ \A i \in 1 .. Len(chain[r]) : chain[r][i] \in InChain(r)
            /\ Last(chain[r]) \in InChain(r) /\ Len(chain[r]) \in Nat
        BY ChainFacts
      <4>2. /\ \A i \in 1 .. Len(chain[r]) - 1 : next[chain[r][i]] = chain[r][i + 1]
            /\ next[Last(chain[r])] = Null
        BY DEF ChainInv
      <4>3. \A i \in 1 .. Len(chain[r]) - 1 : i \in 1 .. Len(chain[r])
        BY <4>1
      <4> QED
        BY <4>1, <4>2, <4>3
    <3> QED
      BY <3>3, <3>4
  <2>2. ASSUME NEW i \in 1 .. Len(chain'[q]) - 1 PROVE next'[chain'[q][i]] = chain'[q][i + 1]
    <3>1. CASE i = Len(s)
      BY <1>s, <1>p, <1>1, <1>2, <3>1 DEF Last
    <3>2. CASE i # Len(s)
      <4>1. i \in 1 .. Len(s) - 1 /\ Len(s) \in 1 .. Len(s) /\ i \in 1 .. Len(s)
            /\ i + 1 \in 1 .. Len(s)
        BY <1>s, <1>2, <3>2
      <4>2. s[i] \in Nodes /\ s[i] # tl[t]
        BY <1>p, <4>1, <3>2, ChainFacts DEF NodesApart, Last
      <4>3. next[s[i]] = s[i + 1]
        BY <1>p, <4>1 DEF ChainInv
      <4> QED
        BY <1>1, <1>2, <4>1, <4>2, <4>3
    <3> QED
      BY <3>1, <3>2
  <2>3. /\ Len(chain'[q]) > 1 /\ tail'[q] = chain'[q][Len(chain'[q]) - 1]
        /\ head'[q] = chain'[q][1] /\ next'[Last(chain'[q])] = Null
    <3>1. Len(s) \in 1 .. Len(s) /\ 1 \in 1 .. Len(s) /\ Len(chain'[q]) - 1 = Len(s)
      BY <1>s, <1>2
    <3>2. head[q] = s[1]
      BY <1>p DEF ChainInv
    <3> QED
      BY <1>s, <1>p, <1>0, <1>1, <1>2, <3>1, <3>2 DEF Last
  <2>4. \A r \in Queues : r # q => Last(chain[r])' = Last(chain[r])
    BY <1>1 DEF Last
  <2>5. ASSUME NEW r \in Queues, r # q
        PROVE  /\ Len(chain'[r]) > 0 /\ head'[r] = chain'[r][1]
               /\ \A i \in 1 .. Len(chain'[r]) - 1 : next'[chain'[r][i]] = chain'[r][i + 1]
               /\ next'[Last(chain'[r])] = Null
               /\ IF Swinging(r)'
                  THEN Len(chain'[r]) > 1 /\ tail'[r] = chain'[r][Len(chain'[r]) - 1]
                  ELSE tail'[r] = Last(chain'[r])
    BY <1>0, <1>1, <1>7, <2>1, <2>4, <2>5 DEF ChainInv
  <2>6. Len(chain'[q]) > 0
    BY <1>s, <1>2
  <2> QED
    BY <1>7, <2>2, <2>3, <2>5, <2>6 DEF ChainInv
<1>9. ASSUME NEW u \in Threads PROVE ThreadOK(u)'
  <2>1. CASE u = t
    BY <1>p, <1>0, <1>1, <1>2, <2>1 DEF ThreadOK
  <2>2. CASE u # t
    <3>1. pc[u] \in {"e_tail", "e_link"} => next'[node[u]] = next[node[u]]
      <4>1. pc[u] \in {"e_tail", "e_link"} => Private(u) = {node[u]} /\ node[u] \in Nodes
        BY DEF Private, ThreadOK
      <4>2. tl[t] \in InChain(q)
        BY <1>p, ChainFacts
      <4> QED
        BY <1>p, <1>1, <4>1, <4>2 DEF NodesApart
    <3>2. pc[u] = "e_swing" => on[u] # q
      BY <1>p, <2>2 DEF TakeTurns
    <3>3. pc[u] \in {"d_tail", "d_value", "d_take"} /\ Len(chain[on[u]]) > 1 =>
              Len(chain'[on[u]]) > 1 /\ chain'[on[u]][2] = chain[on[u]][2]
      <4>1. pc[u] \in {"d_tail", "d_value", "d_take"} => on[u] \in Queues
        BY DEF ThreadOK
      <4>2. Len(s) > 1 => Len(chain'[q]) > 1 /\ 2 \in 1 .. Len(s)
        BY <1>s, <1>2
      <4>3. Len(s) > 1 => Len(chain'[q]) > 1 /\ chain'[q][2] = s[2]
        BY <1>2, <4>2
      <4> QED
        BY <1>1, <4>1, <4>3
    <3>4. pc[u] = "e_swing" => Last(chain'[on[u]]) = Last(chain[on[u]])
      BY <1>1, <3>2 DEF ThreadOK
    <3> QED
      BY <1>0, <2>2, <3>1, <3>3, <3>4 DEF ThreadOK, OthersStay
  <2> QED
    BY <2>1, <2>2
<1> QED
  BY <1>0, <1>5, <1>6, <1>8, <1>9 DEF QueueIInv, NothingRecycled

\* tail is moved to the node that was linked.
LEMMA EnqSwingStep ==
    ASSUME QueueIInv, TakeTurns, TypeOK', NEW t \in Threads, OthersStay(t), EnqSwing(t),
           NEW q, q = on[t]
    PROVE  QueueIInv'
<1> USE DEF EnqLabels, DeqLabels
<1>a. /\ TypeOK /\ ChainInv /\ NodesApart /\ NodesCovered /\ ThreadOK(t)
      /\ \A u \in Threads : ThreadOK(u)
  BY AtStep
<1> USE <1>a
<1>p. /\ q \in Queues /\ t \in Producers[q] /\ pc[t] = "e_swing" /\ tl[t] = tail[q]
      /\ node[t] = Last(chain[q]) /\ node[t] \in Nodes /\ Swinging(q)
  BY RolesAssumption DEF ThreadOK, EnqSwing, Swinging
<1>0. /\ tail' = [tail EXCEPT ![q] = node[t]]
      /\ pc'[t] = "e_size" /\ on'[t] = q
      /\ UNCHANGED <<next, value, head, pool, chain, recycled>> /\ UNCHANGED chain
  <2>1. AfterSwing(t) = "e_size"
    BY <1>p DEF AfterSwing, TakeTurns
  <2> QED
    BY <1>p, <2>1, Types DEF EnqSwing, Goto, mem, history
<1>1. tail'[q] = Last(chain[q]) /\ \A r \in Queues : r # q => tail'[r] = tail[r]
  BY <1>p, <1>0, Types
<1>2. Private(t)' = {} /\ Private(t) = {}
  BY <1>p, <1>0 DEF Private
<1>3. \A u \in Threads : Private(u)' = Private(u)
  BY <1>2, PrivateStays
<1>4. NodesApart' /\ NodesCovered'
  BY <1>0, <1>3, SameLists DEF NodesApart, NodesCovered
<1>5. ~Swinging(q)'
  BY <1>p, <1>0, RolesAssumption DEF Swinging, OthersStay, TakeTurns
<1>6. \A r \in Queues : r # q => Swinging(r)' = Swinging(r)
  BY <1>p, <1>0, RolesAssumption DEF Swinging, OthersStay
<1>7. \A r \in Queues : Last(chain[r])' = Last(chain[r])
  BY <1>0 DEF Last
<1>8. ChainInv'
  BY <1>0, <1>1, <1>5, <1>6, <1>7 DEF ChainInv
<1>9. ASSUME NEW u \in Threads PROVE ThreadOK(u)'
  <2>1. CASE u = t
    BY <1>p, <1>0, <2>1 DEF ThreadOK
  <2>2. CASE u # t
    <3>1. pc[u] \in {"e_link", "e_swing"} => tail'[on[u]] = tail[on[u]]
      <4>1. pc[u] \in {"e_link", "e_swing"} => on[u] # q /\ on[u] \in Queues
        BY <1>p, <2>2 DEF TakeTurns, ThreadOK
      <4> QED
        BY <1>1, <4>1
    <3>2. pc[u] \in {"d_value", "d_take"} => tail'[on[u]] # hd[u]
      <4>1. pc[u] \in {"d_value", "d_take"} =>
                /\ on[u] \in Queues /\ hd[u] = chain[on[u]][1] /\ Len(chain[on[u]]) > 1
                /\ tail[on[u]] # hd[u]
        BY DEF ThreadOK, ChainInv
      <4>2. Len(chain[q]) > 1 => Last(chain[q]) # chain[q][1]
        <5>1. PICK k \in Nat : k = Len(chain[q])
          BY <1>p, ChainFacts
        <5>2. k > 1 => 1 \in 1 .. k /\ k \in 1 .. k /\ k # 1
          OBVIOUS
        <5> QED
          BY <1>p, <5>1, <5>2 DEF NodesApart, Last
      <4> QED
        BY <1>1, <4>1, <4>2
    <3> QED
      BY <1>0, <1>7, <2>2, <3>1, <3>2 DEF ThreadOK, OthersStay
  <2> QED
    BY <2>1, <2>2
<1> QED
  BY <1>0, <1>4, <1>8, <1>9 DEF QueueIInv, NothingRecycled

\* The consumer that is about to take finds head where it was, and tail further on.
MayTake(t, q, s) ==
    /\ q \in Queues /\ t \in Consumers[q] /\ kind[t] = "single_deq"
    /\ s \in Seq(Nodes) /\ Len(s) > 1
    /\ hd[t] = s[1] /\ head[q] = hd[t] /\ nx[t] = s[2] /\ val[t] = value[s[2]]
    /\ tail[q] # hd[t] /\ s[1] \in Nodes /\ s[2] \in Nodes
    /\ \A i, j \in 1 .. Len(s) : s[i] = s[j] => i = j

\* This is so once it has read everything.
LEMMA TakeFacts ==
    ASSUME QueueIInv, NEW t \in Threads, pc[t] = "d_take", NEW q, q = on[t],
           NEW s, s = chain[q]
    PROVE  MayTake(t, q, s)
<1> USE AtStep DEF EnqLabels, DeqLabels
<1>1. /\ q \in Queues /\ t \in Consumers[q] /\ kind[t] = "single_deq"
      /\ Len(s) > 1 /\ hd[t] = head[q] /\ nx[t] = s[2] /\ val[t] = value[s[2]]
      /\ tail[q] # hd[t]
  BY DEF ThreadOK
<1>2. head[q] = s[1] /\ s \in Seq(Nodes)
  BY <1>1, ChainFacts DEF ChainInv
<1>3. s[1] \in Nodes /\ s[2] \in Nodes
  BY <1>1, <1>2, LenProperties
<1>4. \A i, j \in 1 .. Len(s) : s[i] = s[j] => i = j
  BY <1>1 DEF NodesApart
<1> QED
  BY <1>1, <1>2, <1>3, <1>4 DEF MayTake

\* head moves on, and the node that was left is the consumer's.
LEMMA DeqTakeStep ==
    ASSUME QueueIInv, TakeTurns, TypeOK', NEW t \in Threads, OthersStay(t), DeqTake(t),
           NEW q, q = on[t], NEW s, s = chain[q]
    PROVE  QueueIInv'
<1> USE DEF EnqLabels, DeqLabels
<1>a. /\ TypeOK /\ ChainInv /\ NodesApart /\ NodesCovered /\ ThreadOK(t)
      /\ \A u \in Threads : ThreadOK(u)
  BY AtStep
<1> USE <1>a
<1>p. /\ q \in Queues /\ t \in Consumers[q] /\ kind[t] = "single_deq" /\ pc[t] = "d_take"
      /\ s \in Seq(Nodes) /\ Len(s) > 1
      /\ hd[t] = s[1] /\ head[q] = hd[t] /\ nx[t] = s[2]
      /\ tail[q] # hd[t] /\ s[1] \in Nodes /\ s[2] \in Nodes
      /\ \A i, j \in 1 .. Len(s) : s[i] = s[j] => i = j
  <2>1. pc[t] = "d_take"
    BY DEF DeqTake
  <2>2. MayTake(t, q, s)
    BY <2>1, TakeFacts
  <2> QED
    BY <2>1, <2>2 DEF MayTake
<1>0. /\ head' = [head EXCEPT ![q] = s[2]]
      /\ chain' = [chain EXCEPT ![q] = SubSeq(s, 2, Len(s))]
      /\ pc'[t] = "d_free" /\ on'[t] = q /\ hd'[t] = s[1]
      /\ UNCHANGED <<next, value, tail, pool, recycled>>
  BY <1>p, Types DEF DeqTake, Goto, mem
<1>1. /\ chain'[q] = SubSeq(s, 2, Len(s)) /\ head'[q] = s[2]
      /\ \A r \in Queues : r # q => chain'[r] = chain[r] /\ head'[r] = head[r]
  BY <1>p, <1>0, Types
<1>2. Shorter(chain'[q], s)
  BY <1>p, <1>1, Shortened
<1>3. /\ InChain(q)' = InChain(q) \ {s[1]}
      /\ \A r \in Queues : r # q => InChain(r)' = InChain(r)
  <2>1. Elements(chain'[q]) = Elements(s) \ {s[1]}
    BY <1>2 DEF Shorter
  <2>2. \A r \in Queues : r # q => chain'[r] = chain[r]
    BY <1>1
  <2>3. \A r \in Queues : InChain(r)' = Elements(chain'[r])
    BY DEF InChain, Elements
  <2> QED
    BY <1>p, <2>1, <2>2, <2>3 DEF InChain
<1>4. Private(t)' = {s[1]} /\ Private(t) = {} /\ \A u \in Threads \ {t} : Private(u)' = Private(u)
  BY <1>p, <1>0, PrivateStays DEF Private
<1>i. s[1] \in InChain(q)
  BY <1>p, ChainFacts
<1>5. NodesApart'
  <2>1. ASSUME NEW i \in 1 .. Len(chain'[q]), NEW j \in 1 .. Len(chain'[q]),
               chain'[q][i] = chain'[q][j]
        PROVE  i = j
    <3>1. PICK k \in Nat : k = Len(s)
      BY <1>p, LenProperties
    <3>2. /\ i + 1 \in 1 .. k /\ j + 1 \in 1 .. k
          /\ chain'[q][i] = s[i + 1] /\ chain'[q][j] = s[j + 1]
      BY <1>2, <3>1 DEF Shorter
    <3>3. i + 1 = j + 1
      BY <1>p, <2>1, <3>1, <3>2, ZenonT(30)
    <3> QED
      BY <3>3
  <2>2. \A r \in Queues : \A i, j \in 1 .. Len(chain'[r]) : chain'[r][i] = chain'[r][j] => i = j
    <3>1. \A r \in Queues : r # q => chain'[r] = chain[r]
      BY <1>1
    <3> QED
      BY <2>1, <3>1 DEF NodesApart
  <2>3. /\ s[1] \notin pool
        /\ \A r \in Queues : s[1] # FreeBase[r] /\ (r # q => s[1] \notin InChain(r))
    BY <1>p, <1>i DEF NodesApart
  <2>4. \A u \in Threads \ {t} : s[1] \notin Private(u)
    BY <1>p, <1>i DEF NodesApart
  <2>5. \A r \in Queues : InChain(r)' \subseteq InChain(r) /\ s[1] \notin InChain(r)'
    BY <1>3, <2>3
  <2>6. UNCHANGED pool
    BY <1>0
  <2>7. /\ \A r1, r2 \in Queues : r1 # r2 => InChain(r1)' \cap InChain(r2)' = {}
        /\ \A r \in Queues : InChain(r)' \cap pool' = {}
        /\ \A r1, r2 \in Queues : FreeBase[r2] \notin InChain(r1)' \cup pool'
    BY <2>5, <2>6 DEF NodesApart
  <2>8. /\ \A u \in Threads, r \in Queues :
              Private(u)' \cap (InChain(r)' \cup pool' \cup {FreeBase[r]}) = {}
        /\ \A u1, u2 \in Threads : u1 # u2 => Private(u1)' \cap Private(u2)' = {}
    BY <1>4, <2>3, <2>4, <2>5, <2>6 DEF NodesApart
  <2> QED
    BY <2>2, <2>7, <2>8 DEF NodesApart
<1>6. NodesCovered'
  BY <1>p, <1>0, <1>3, <1>4 DEF NodesCovered
<1>7. \A r \in Queues : Swinging(r)' = Swinging(r)
  BY <1>p, <1>0, RolesAssumption DEF Swinging, OthersStay
<1>8. \A r \in Queues : Last(chain[r])' = Last(chain[r])
  BY <1>1, <1>2 DEF Shorter, Last
<1>9. ChainInv'
  <2>1. ASSUME NEW r \in Queues, r # q
        PROVE  /\ Len(chain'[r]) > 0 /\ head'[r] = chain'[r][1]
               /\ \A i \in 1 .. Len(chain'[r]) - 1 : next'[chain'[r][i]] = chain'[r][i + 1]
               /\ next'[Last(chain'[r])] = Null
               /\ IF Swinging(r)'
                  THEN Len(chain'[r]) > 1 /\ tail'[r] = chain'[r][Len(chain'[r]) - 1]
                  ELSE tail'[r] = Last(chain'[r])
    BY <1>0, <1>1, <1>7, <1>8, <2>1 DEF ChainInv
  <2>2. PICK k \in Nat : k = Len(s)
    BY <1>p, LenProperties
  <2>3. /\ k > 1 /\ Len(chain'[q]) = k - 1
        /\ \A i \in 1 .. k - 1 : chain'[q][i] = s[i + 1]
    BY <1>p, <1>2, <2>2 DEF Shorter
  <2>4. Len(chain'[q]) > 0 /\ head'[q] = chain'[q][1]
    BY <1>1, <2>3
  <2>5. ASSUME NEW i \in 1 .. Len(chain'[q]) - 1 PROVE next'[chain'[q][i]] = chain'[q][i + 1]
    <3>1. i \in 1 .. k - 1 /\ i + 1 \in 1 .. k - 1
      BY <2>3
    <3>2. next[s[i + 1]] = s[i + 1 + 1]
      BY <1>p, <2>2, <3>1 DEF ChainInv
    <3> QED
      BY <1>0, <2>3, <3>1, <3>2
  <2>6. next'[Last(chain'[q])] = Null
    BY <1>p, <1>0, <1>8 DEF ChainInv
  <2>7. CASE Swinging(q)
    <3>1. tail[q] = s[k - 1]
      BY <1>p, <2>2, <2>7 DEF ChainInv
    <3>2. k - 1 # 1
      BY <1>p, <3>1
    <3>3. k - 1 > 1 /\ k - 1 - 1 \in 1 .. k - 1
      BY <2>3, <3>2
    <3>4. chain'[q][k - 1 - 1] = s[k - 1]
      BY <2>3, <3>3
    <3>5. Len(chain'[q]) > 1 /\ tail'[q] = chain'[q][Len(chain'[q]) - 1]
      BY <1>0, <2>3, <3>1, <3>3, <3>4
    <3> QED
      BY <1>7, <1>p, <2>1, <2>4, <2>5, <2>6, <2>7, <3>5 DEF ChainInv
  <2>8. CASE ~Swinging(q)
    <3>1. tail[q] = Last(chain[q])
      BY <1>p, <2>8 DEF ChainInv
    <3> QED
      BY <1>0, <1>7, <1>8, <1>p, <2>1, <2>4, <2>5, <2>6, <2>8, <3>1 DEF ChainInv
  <2> QED
    BY <2>7, <2>8
<1>10. ASSUME NEW u \in Threads PROVE ThreadOK(u)'
  <2>1. CASE u = t
    BY <1>p, <1>0, <2>1 DEF ThreadOK, DeqTake
  <2>2. CASE u # t
    <3>1. pc[u] \in DeqLabels => on[u] # q /\ on[u] \in Queues
      BY <1>p, <2>2 DEF TakeTurns, ThreadOK
    <3>2. pc[u] \in DeqLabels => chain'[on[u]] = chain[on[u]] /\ head'[on[u]] = head[on[u]]
      BY <1>1, <3>1
    <3>3. pc[u] = "e_swing" => Last(chain'[on[u]]) = Last(chain[on[u]])
      BY <1>8 DEF ThreadOK
    <3>4. CASE pc[u] \in DeqLabels
      <4>1. UNCHANGED <<next, value, tail>>
        BY <1>0
      <4>2. /\ chain'[on[u]] = chain[on[u]] /\ head'[on[u]] = head[on[u]]
            /\ pc[u] \notin EnqLabels
        BY <3>2, <3>4
      <4> QED
        BY <2>2, <3>4, <4>1, <4>2 DEF ThreadOK, OthersStay
    <3>5. CASE pc[u] \notin DeqLabels
      <4>1. UNCHANGED <<next, value, tail>>
        BY <1>0
      <4> QED
        BY <2>2, <3>3, <3>5, <4>1 DEF ThreadOK, OthersStay
    <3> QED
      BY <3>4, <3>5
  <2> QED
    BY <2>1, <2>2
<1> QED
  BY <1>0, <1>5, <1>6, <1>9, <1>10 DEF QueueIInv, NothingRecycled

\* The node that was left goes back to the pool.
LEMMA DeqFreeStep ==
    ASSUME QueueIInv, TypeOK', NEW t \in Threads, OthersStay(t), DeqFree(t)
    PROVE  QueueIInv'
<1> USE DEF EnqLabels, DeqLabels
<1>a. /\ TypeOK /\ ChainInv /\ NodesApart /\ NodesCovered /\ ThreadOK(t)
      /\ \A u \in Threads : ThreadOK(u)
  BY AtStep
<1> USE <1>a
<1>0. /\ pc[t] = "d_free" /\ pc'[t] = "d_size" /\ pool' = pool \cup {hd[t]}
      /\ on'[t] = on[t] /\ kind'[t] = kind[t]
      /\ UNCHANGED <<next, value, head, tail, chain, recycled>> /\ UNCHANGED chain
  BY Types DEF DeqFree, Goto, mem, queues, history, locals
<1>1. Private(t) = {hd[t]} /\ Private(t)' = {} /\ \A u \in Threads \ {t} : Private(u)' = Private(u)
  BY <1>0, PrivateStays DEF Private
<1>2. \A r \in Queues : InChain(r)' = InChain(r)
  BY <1>0, SameLists
<1>3. NodesApart'
  BY <1>0, <1>1, <1>2 DEF NodesApart
<1>4. NodesCovered'
  BY <1>0, <1>1, <1>2 DEF NodesCovered
<1>5. \A r \in Queues : Swinging(r)' = Swinging(r)
  BY <1>0, RolesAssumption DEF Swinging, OthersStay
<1>6. \A r \in Queues : Last(chain[r])' = Last(chain[r])
  BY <1>0 DEF Last
<1>7. ChainInv'
  BY <1>0, <1>5, <1>6 DEF ChainInv
<1>8. ASSUME NEW u \in Threads PROVE ThreadOK(u)'
  <2>1. CASE u = t
    BY <1>0, <2>1 DEF ThreadOK
  <2>2. CASE u # t
    BY <1>0, <1>6, <2>2 DEF ThreadOK, OthersStay
  <2> QED
    BY <2>1, <2>2
<1> QED
  BY <1>0, <1>3, <1>4, <1>7, <1>8 DEF QueueIInv, NothingRecycled

\* Every step keeps the invariant, as long as each end of a queue is used by one
\* thread at a time.
LEMMA QueueStep ==
    ASSUME QueueIInv, TakeTurns, [Next]_vars
    PROVE  QueueIInv'
<1>1. ASSUME NEW t \in Threads, Call(t) \/ SingleStep(t) PROVE QueueIInv'
  <2>1. TypeOK
    BY DEF QueueIInv
  <2>2. OthersStay(t)
    BY <1>1, <2>1, OwnLocals
  <2>3. TypeOK'
    BY <1>1, QueueTypeStep
  <2>4. ASSUME NEW q \in Queues, NEW v \in Values, Enqueue(t, q, v) PROVE QueueIInv'
    BY <2>2, <2>3, <2>4, EnqueueStep
  <2>5. CASE EnqInit(t) \/ EnqLink(t) \/ EnqSwing(t) \/ DeqTake(t) \/ DeqFree(t)
    BY <2>2, <2>3, <2>5, EnqInitStep, EnqLinkStep, EnqSwingStep, DeqTakeStep, DeqFreeStep
  <2>6. CASE \/ \E q \in Queues : Dequeue(t, q)
             \/ EnqLoadTail(t) \/ EnqSize(t)
             \/ DeqLoadHead(t) \/ DeqLoadNext(t) \/ DeqTestTail(t) \/ DeqValue(t) \/ DeqSize(t)
    BY <2>2, <2>3, <2>6, QuietSteps
  <2> QED
    BY <1>1, <2>4, <2>5, <2>6 DEF Call, SingleStep
<1>2. CASE UNCHANGED vars
  <2>1. TypeOK'
    BY <1>2 DEF QueueIInv, TypeOK, vars, mem, queues, recycling, time, locals, history
  <2>2. \A t \in Threads : Private(t)' = Private(t)
    BY <1>2 DEF vars, locals, Private
  <2>3. \A q \in Queues : InChain(q)' = InChain(q) /\ Last(chain[q])' = Last(chain[q])
    BY <1>2 DEF vars, history, InChain, Elements, Last
  <2>4. \A q \in Queues : Swinging(q)' = Swinging(q)
    BY <1>2 DEF vars, locals, Swinging
  <2>5. NodesApart' /\ NodesCovered'
    BY <1>2, <2>2, <2>3 DEF QueueIInv, NodesApart, NodesCovered, vars, history
  <2>6. ChainInv'
    BY <1>2, <2>3, <2>4 DEF QueueIInv, ChainInv, vars, mem, queues, history
  <2>7. ASSUME NEW t \in Threads PROVE ThreadOK(t)'
    BY <1>2, <2>3 DEF QueueIInv, ThreadOK, vars, mem, queues, locals, history
  <2> QED
    BY <1>2, <2>1, <2>5, <2>6, <2>7 DEF QueueIInv, NothingRecycled, vars, history
<1> QED
  BY <1>1, <1>2 DEF Next

\* The invariant of the queues.
THEOREM QueueInvariance == Spec /\ []TakeTurns => []QueueIInv
<1>1. Init => QueueIInv
  BY QueueInit
<1>2. QueueIInv /\ TakeTurns /\ [Next]_vars => QueueIInv'
  BY QueueStep
<1> QED
  BY <1>1, <1>2, PTL DEF Spec

\* Place by place, each node is where NodesConserved says.
LEMMA NodesAccounted == QueueIInv => NodesConserved
<1> SUFFICES ASSUME QueueIInv PROVE NodesConserved
  OBVIOUS
<1> DEFINE Lists == {chain[q] : q \in Queues} \cup {recycled[q] : q \in Queues}
           Linkeds == UNION {Elements(s) : s \in Lists}
           Privates == UNION {Private(t) : t \in Threads}
<1>a. TypeOK /\ ChainInv /\ NodesApart /\ NodesCovered /\ NothingRecycled
  BY DEF QueueIInv
<1>1. \A q \in Queues : /\ InChain(q) = Elements(chain[q])
                        /\ InRecycled(q) = Elements(recycled[q])
  BY DEF InChain, InRecycled
<1>2. \A q \in Queues : /\ recycled[q] = <<FreeBase[q]>> /\ InRecycled(q) = {FreeBase[q]}
                        /\ Len(recycled[q]) = 1
  BY <1>a DEF NothingRecycled, InRecycled, Elements
<1>3. ASSUME NEW s \in Lists PROVE \A i, j \in 1 .. Len(s) : s[i] = s[j] => i = j
  <2>1. CASE \E q \in Queues : s = chain[q]
    BY <1>a, <2>1 DEF NodesApart
  <2>2. CASE \E q \in Queues : s = recycled[q]
    BY <1>2, <2>2
  <2> QED
    BY <2>1, <2>2
<1>4. ASSUME NEW r \in Lists, NEW s \in Lists, Elements(r) \cap Elements(s) # {}
      PROVE  r = s
  <2>1. \A q1, q2 \in Queues : InChain(q1) \cap InRecycled(q2) = {}
    BY <1>a, <1>2 DEF NodesApart
  <2>2. \A q1, q2 \in Queues : InChain(q1) \cap InChain(q2) # {} => q1 = q2
    BY <1>a DEF NodesApart
  <2>3. \A q1, q2 \in Queues : InRecycled(q1) \cap InRecycled(q2) # {} => q1 = q2
    BY <1>2, NodesAssumption
  <2> QED
    BY <1>1, <1>4, <2>1, <2>2, <2>3
<1>5. \A t, u \in Threads : Private(t) \cap Private(u) # {} => t = u
  BY <1>a DEF NodesApart
<1>6. \A n : n \in Linkeds <=> \E q \in Queues : n \in InChain(q) \/ n = FreeBase[q]
  BY <1>1, <1>2
<1>7. pool \cap Linkeds = {} /\ pool \cap Privates = {} /\ Linkeds \cap Privates = {}
  <2>1. ASSUME NEW n, n \in Linkeds PROVE n \notin pool /\ n \notin Privates
    BY <1>a, <1>6, <2>1 DEF NodesApart
  <2>2. ASSUME NEW n, n \in Privates PROVE n \notin pool
    <3>1. PICK t \in Threads : n \in Private(t)
      BY <2>2
    <3>2. Queues # {} => n \notin pool
      BY <1>a, <3>1 DEF NodesApart
    <3>3. on[t] \in Queues
      BY <3>1 DEF QueueIInv, ThreadOK, Private, EnqLabels, DeqLabels
    <3> QED
      BY <3>2, <3>3
  <2> QED
    BY <2>1, <2>2
<1>8. \A t \in Threads : Private(t) \subseteq Nodes
  BY DEF QueueIInv, ThreadOK, Private, EnqLabels, DeqLabels
<1>9. pool \cup Linkeds \cup Privates = Nodes
  <2>1. \A n \in Nodes : n \in pool \/ n \in Linkeds \/ n \in Privates
    BY <1>a, <1>6 DEF NodesCovered
  <2>2. pool \subseteq Nodes /\ Linkeds \subseteq Nodes
    BY <1>a, <1>6, Types, ChainFacts, NodesAssumption
  <2> QED
    BY <1>8, <2>1, <2>2
<1> QED
  BY <1>3, <1>4, <1>5, <1>7, <1>9 DEF NodesConserved

\* The list in memory is the chain, and every node is in one place.
THEOREM QueueCorrect == Spec /\ []TakeTurns => []QueueInv
<1>1. QueueIInv => QueueInv
  BY NodesAccounted DEF QueueIInv, QueueInv
<1> QED
  BY <1>1, QueueInvariance, PTL

\* No thread touches a node that it, or another, has given back.
THEOREM QueueFresh == Spec /\ []TakeTurns => []NoStaleAccess
<1>1. QueueIInv => NoStaleAccess
  <2> SUFFICES ASSUME QueueIInv, NEW t \in Threads
               PROVE  /\ pc[t] = "e_link" => tl[t] \in Live(on[t])
                      /\ pc[t] = "d_next" => hd[t] \in Live(on[t])
                      /\ pc[t] = "d_value" => nx[t] \in Live(on[t])
                      /\ pc[t] # "r_link" /\ pc[t] # "c_step"
    BY DEF NoStaleAccess
  <2>1. TypeOK /\ ChainInv /\ ThreadOK(t)
    BY DEF QueueIInv
  <2>2. ASSUME NEW q \in Queues
        PROVE  /\ head[q] \in Live(q) /\ tail[q] \in Live(q)
               /\ Len(chain[q]) > 1 => chain[q][2] \in Live(q)
    <3>1. head[q] \in InChain(q) /\ tail[q] \in InChain(q)
      BY <2>1, ChainFacts
    <3>2. Len(chain[q]) > 1 => chain[q][2] \in InChain(q)
      <4>1. PICK k \in Nat : k = Len(chain[q])
        BY <2>1, ChainFacts
      <4>2. k > 1 => 2 \in 1 .. k
        OBVIOUS
      <4> QED
        BY <2>1, <4>1, <4>2, ChainFacts
    <3> QED
      BY <3>1, <3>2 DEF Live
  <2> QED
    BY <2>1, <2>2 DEF ThreadOK, EnqLabels, DeqLabels
<1> QED
  BY <1>1, QueueInvariance, PTL

-----------------------------------------------------------------------------
(* The channels. *)

\* What a channel holds: the values of the nodes behind the head.
LEMMA ChannelFacts ==
    ASSUME TypeOK, ChainInv, NEW q \in Queues, NEW k \in Nat, Len(chain[q]) = k + 1
    PROVE  /\ ChannelOf(q) \in Seq(Values \cup {Null}) /\ Len(ChannelOf(q)) = k
           /\ \A i \in 1 .. k : ChannelOf(q)[i] = value[chain[q][i + 1]]
<1>1. \A i \in 1 .. k : value[chain[q][i + 1]] \in Values \cup {Null}
  <2>1. \A i \in 1 .. k : chain[q][i + 1] \in Nodes
    BY ChainFacts
  <2> QED
    BY <2>1, Types
<1>2. ChannelOf(q) = [i \in 1 .. k |-> value[chain[q][i + 1]]]
  BY DEF ChannelOf
<1>3. ChannelOf(q) \in [1 .. k -> Values \cup {Null}]
  BY <1>1, <1>2
<1>4. ChannelOf(q) \in Seq(Values \cup {Null})
  BY <1>3, SeqDef
<1>5. Len(ChannelOf(q)) = k
  BY <1>3, <1>4, LenProperties
<1> QED
  BY <1>2, <1>4, <1>5

\* A step that neither links nor takes leaves the channels alone.
LEMMA ChannelKept ==
    ASSUME TypeOK, ChainInv, NEW q \in Queues, chain'[q] = chain[q],
           \A n \in InChain(q) : value'[n] = value[n]
    PROVE  ChannelOf(q)' = ChannelOf(q)
<1>1. PICK k \in Nat : k = Len(chain[q])
  BY ChainFacts
<1>2. \A i \in 1 .. k - 1 : chain[q][i + 1] \in InChain(q)
  BY <1>1, ChainFacts
<1> QED
  BY <1>1, <1>2 DEF ChannelOf

\* A node linked behind the last one of a queue sends its value.
LEMMA AppendSends ==
    ASSUME TypeOK, ChainInv, NEW q \in Queues, NEW n \in Nodes, value[n] \in Values,
           chain' = [chain EXCEPT ![q] = Append(chain[q], n)],
           value' = value, delivered' = delivered
    PROVE  Fifos!Send(q, value[n])
<1>1. chain[q] \in Seq(Nodes) /\ Len(chain[q]) > 0
  BY ChainFacts
<1>2. /\ chain'[q] = Append(chain[q], n)
      /\ \A r \in Queues : r # q => chain'[r] = chain[r]
  BY Types
<1>3. Longer(chain'[q], chain[q], n)
  BY <1>1, <1>2, Lengthened
<1>4. PICK k \in Nat : Len(chain[q]) = k + 1
  <2>1. PICK l \in Nat : l = Len(chain[q])
    BY <1>1, LenProperties
  <2>2. l - 1 \in Nat /\ l = (l - 1) + 1
    BY <1>1, <2>1
  <2> QED
    BY <2>1, <2>2
<1>5. /\ ChannelOf(q) \in Seq(Values \cup {Null}) /\ Len(ChannelOf(q)) = k
      /\ \A i \in 1 .. k : ChannelOf(q)[i] = value[chain[q][i + 1]]
  BY <1>4, ChannelFacts
<1>6. Len(chain'[q]) = (k + 1) + 1 /\ k + 1 \in Nat
      /\ \A i \in 1 .. k + 1 : chain'[q][i] = chain[q][i]
      /\ chain'[q][(k + 1) + 1] = n
  BY <1>3, <1>4 DEF Longer
<1>7. ChannelOf(q)' = [i \in 1 .. k + 1 |-> value[chain'[q][i + 1]]]
  BY <1>6 DEF ChannelOf
<1>8. Append(ChannelOf(q), value[n]) = [i \in 1 .. k + 1 |-> value[chain'[q][i + 1]]]
  <2>1. /\ Append(ChannelOf(q), value[n]) \in Seq(Values \cup {Null})
        /\ Len(Append(ChannelOf(q), value[n])) = k + 1
        /\ \A i \in 1 .. k : Append(ChannelOf(q), value[n])[i] = ChannelOf(q)[i]
        /\ Append(ChannelOf(q), value[n])[k + 1] = value[n]
    BY <1>5, AppendProperties
  <2>2. PICK c : c = Append(ChannelOf(q), value[n])
    OBVIOUS
  <2>3. c \in [1 .. k + 1 -> Values \cup {Null}]
    BY <2>1, <2>2, LenProperties
  <2>4. ASSUME NEW i \in 1 .. k + 1 PROVE c[i] = value[chain'[q][i + 1]]
    <3>1. CASE i = k + 1
      BY <1>6, <2>1, <2>2, <3>1
    <3>2. CASE i # k + 1
      <4>1. i \in 1 .. k /\ i + 1 \in 1 .. k + 1
        BY <3>2
      <4>2. c[i] = ChannelOf(q)[i]
        BY <2>1, <2>2, <4>1
      <4>3. ChannelOf(q)[i] = value[chain[q][i + 1]]
        BY <1>5, <4>1
      <4>4. chain'[q][i + 1] = chain[q][i + 1]
        BY <1>6, <4>1
      <4> QED
        BY <4>2, <4>3, <4>4
    <3> QED
      BY <3>1, <3>2
  <2> QED
    BY <2>2, <2>3, <2>4
<1>9. \A r \in Queues : r # q => ChannelOf(r)' = ChannelOf(r)
  BY <1>2, ChannelKept
<1>10. Chans' = [Chans EXCEPT ![q] = Append(@, value[n])]
  BY <1>7, <1>8, <1>9 DEF Chans
<1> QED
  BY <1>10 DEF Fifos!Send

\* The compare-and-swap on tail->next sends.
LEMMA LinkSends ==
    ASSUME QueueIInv, TakeTurns, QueueIInv', NEW t \in Threads, OthersStay(t), EnqLink(t),
           NEW q, q = on[t]
    PROVE  q \in Queues /\ arg[t] \in Values /\ Fifos!Send(q, arg[t])
<1>1. TypeOK /\ ChainInv
  BY DEF QueueIInv
<1>2. /\ pc[t] = "e_link" /\ q \in Queues /\ node[t] \in Nodes /\ arg[t] \in Values
      /\ tl[t] = Last(chain[q]) /\ next[tl[t]] = Null /\ value[node[t]] = arg[t]
  BY LinkFacts DEF EnqLink
<1>3. Len(chain[q]) > 0
  BY <1>1, <1>2, ChainFacts
<1>4. /\ chain' = [chain EXCEPT ![q] = Append(chain[q], node[t])]
      /\ value' = value /\ delivered' = delivered
  BY <1>2, <1>3 DEF EnqLink, Linked, queues, locals
<1> QED
  BY <1>1, <1>2, <1>4, AppendSends

\* To leave the first node of a queue that has another is to receive the value of that.
LEMMA LeaveReceives ==
    ASSUME TypeOK, ChainInv, NEW q \in Queues, Len(chain[q]) > 1,
           \A i, j \in 1 .. Len(chain[q]) : chain[q][i] = chain[q][j] => i = j,
           chain' = [chain EXCEPT ![q] = SubSeq(chain[q], 2, Len(chain[q]))],
           delivered' = [delivered EXCEPT ![q] = value[chain[q][2]]],
           value' = value
    PROVE  Fifos!Receive(q)
<1>1. chain[q] \in Seq(Nodes) /\ Len(chain[q]) \in Nat
  BY ChainFacts
<1>2. /\ chain'[q] = SubSeq(chain[q], 2, Len(chain[q]))
      /\ \A r \in Queues : r # q => chain'[r] = chain[r]
  BY Types
<1>3. Shorter(chain'[q], chain[q])
  BY <1>1, <1>2, Shortened
<1>4. PICK k \in Nat : Len(chain[q]) = (k + 1) + 1
  <2>1. PICK l \in Nat : l = Len(chain[q]) /\ l > 1
    BY <1>1
  <2>2. l - 2 \in Nat /\ l = ((l - 2) + 1) + 1
    BY <2>1
  <2> QED
    BY <2>1, <2>2
<1>5. /\ ChannelOf(q) \in Seq(Values \cup {Null}) /\ Len(ChannelOf(q)) = k + 1
      /\ \A i \in 1 .. k + 1 : ChannelOf(q)[i] = value[chain[q][i + 1]]
  <2>1. k + 1 \in Nat
    OBVIOUS
  <2> QED
    BY <1>4, <2>1, ChannelFacts
<1>6. /\ ChannelOf(q) # <<>> /\ Head(ChannelOf(q)) = value[chain[q][2]]
      /\ Tail(ChannelOf(q)) \in [1 .. k -> Values \cup {Null}]
      /\ \A i \in 1 .. k : Tail(ChannelOf(q))[i] = value[chain[q][(i + 1) + 1]]
  <2>1. k + 1 # 0 /\ 1 \in 1 .. k + 1
    OBVIOUS
  <2>2. ChannelOf(q) # <<>>
    BY <1>5, <2>1, EmptySeq
  <2>3. /\ Tail(ChannelOf(q)) \in Seq(Values \cup {Null})
        /\ Len(Tail(ChannelOf(q))) = Len(ChannelOf(q)) - 1
        /\ \A i \in 1 .. Len(Tail(ChannelOf(q))) : Tail(ChannelOf(q))[i] = ChannelOf(q)[i + 1]
    BY <1>5, <2>2, HeadTailProperties
  <2>4. Len(Tail(ChannelOf(q))) = k
    BY <1>5, <2>3
  <2>5. Tail(ChannelOf(q)) \in [1 .. k -> Values \cup {Null}]
    BY <2>3, <2>4, LenProperties
  <2>6. ASSUME NEW i \in 1 .. k
        PROVE  Tail(ChannelOf(q))[i] = value[chain[q][(i + 1) + 1]]
    <3>1. i + 1 \in 1 .. k + 1
      OBVIOUS
    <3>2. Tail(ChannelOf(q))[i] = ChannelOf(q)[i + 1]
      BY <2>3, <2>4
    <3> QED
      BY <1>5, <3>1, <3>2
  <2>7. Head(ChannelOf(q)) = value[chain[q][2]]
    <3>1. Head(ChannelOf(q)) = ChannelOf(q)[1]
      BY <1>5
    <3> QED
      BY <1>5, <2>1, <3>1
  <2> QED
    BY <2>2, <2>5, <2>6, <2>7
<1>7. ChannelOf(q)' = Tail(ChannelOf(q))
  <2>1. Len(chain'[q]) = k + 1 /\ \A i \in 1 .. k + 1 : chain'[q][i] = chain[q][i + 1]
    <3>1. Len(chain'[q]) = Len(chain[q]) - 1
      BY <1>3 DEF Shorter
    <3>2. Len(chain'[q]) = k + 1
      BY <1>4, <3>1
    <3>3. \A i \in 1 .. Len(chain'[q]) : chain'[q][i] = chain[q][i + 1]
      BY <1>3 DEF Shorter
    <3> QED
      BY <3>2, <3>3
  <2>2. ChannelOf(q)' = [i \in 1 .. k |-> value[chain'[q][i + 1]]]
    BY <2>1 DEF ChannelOf
  <2>3. ASSUME NEW i \in 1 .. k PROVE chain'[q][i + 1] = chain[q][(i + 1) + 1]
    <3>1. i + 1 \in 1 .. k + 1
      OBVIOUS
    <3> QED
      BY <2>1, <3>1
  <2>4. \A i \in 1 .. k : Tail(ChannelOf(q))[i] = value[chain'[q][i + 1]]
    BY <1>6, <2>3
  <2>5. PICK c : c = Tail(ChannelOf(q))
    OBVIOUS
  <2>6. c \in [1 .. k -> Values \cup {Null}] /\ \A i \in 1 .. k : c[i] = value[chain'[q][i + 1]]
    BY <1>6, <2>4, <2>5
  <2>7. c = [i \in 1 .. k |-> value[chain'[q][i + 1]]]
    BY <2>6
  <2> QED
    BY <2>2, <2>5, <2>7
<1>8. \A r \in Queues : r # q => ChannelOf(r)' = ChannelOf(r)
  BY <1>2, ChannelKept
<1>9. Chans' = [Chans EXCEPT ![q] = Tail(@)] /\ Chans[q] = ChannelOf(q)
  BY <1>7, <1>8 DEF Chans
<1> QED
  BY <1>6, <1>9 DEF Fifos!Receive

\* The compare-and-swap on head receives.
LEMMA TakeReceives ==
    ASSUME QueueIInv, QueueIInv', NEW t \in Threads, OthersStay(t), DeqTake(t),
           NEW q, q = on[t]
    PROVE  q \in Queues /\ Fifos!Receive(q)
<1>1. TypeOK /\ ChainInv
  BY DEF QueueIInv
<1>2. MayTake(t, q, chain[q])
  BY TakeFacts DEF DeqTake
<1>3. /\ chain' = [chain EXCEPT ![q] = SubSeq(chain[q], 2, Len(chain[q]))]
      /\ delivered' = [delivered EXCEPT ![q] = value[chain[q][2]]]
      /\ value' = value
  <2>1. head[q] = hd[t] /\ val[t] = value[chain[q][2]]
    BY <1>2 DEF MayTake
  <2> QED
    BY <2>1 DEF DeqTake, mem
<1> QED
  BY <1>1, <1>2, <1>3, LeaveReceives DEF MayTake

\* The other steps neither send nor receive.
LEMMA OthersKeepChannels ==
    ASSUME QueueIInv, NEW t \in Threads, Call(t) \/ SingleStep(t), ~EnqLink(t), ~DeqTake(t)
    PROVE  UNCHANGED <<Chans, delivered>>
<1>a. TypeOK /\ ChainInv /\ NodesApart /\ ThreadOK(t)
  BY DEF QueueIInv
<1>1. UNCHANGED <<chain, delivered>>
  <2>1. CASE Call(t)
    BY <2>1 DEF Call, Enqueue, Dequeue, history
  <2>2. CASE EnqInit(t) \/ EnqLoadTail(t) \/ EnqSwing(t) \/ EnqSize(t)
    BY <2>2 DEF EnqInit, EnqLoadTail, EnqSwing, EnqSize, history
  <2>3. CASE \/ DeqLoadHead(t) \/ DeqLoadNext(t) \/ DeqTestTail(t) \/ DeqValue(t)
             \/ DeqFree(t) \/ DeqSize(t)
    BY <2>3 DEF DeqLoadHead, DeqLoadNext, DeqTestTail, DeqValue, DeqFree, DeqSize, history
  <2> QED
    BY <2>1, <2>2, <2>3 DEF SingleStep
<1>2. \A q \in Queues : \A n \in InChain(q) : value'[n] = value[n]
  <2>1. CASE EnqInit(t)
    <3>1. pc[t] = "e_init" /\ node[t] \in Nodes /\ Private(t) = {node[t]}
      BY <1>a, <2>1 DEF EnqInit, ThreadOK, Private
    <3>2. \A q \in Queues : node[t] \notin InChain(q)
      BY <1>a, <3>1 DEF NodesApart
    <3>3. \A n \in Nodes : n # node[t] => value'[n] = value[n]
      BY <1>a, <2>1, Types DEF EnqInit
    <3> QED
      BY <1>a, <3>2, <3>3, ChainFacts
  <2>2. CASE ~EnqInit(t)
    <3>1. CASE Call(t)
      BY <3>1 DEF Call, Enqueue, Dequeue, mem
    <3>2. CASE EnqLoadTail(t) \/ EnqSwing(t) \/ EnqSize(t)
      BY <3>2 DEF EnqLoadTail, EnqSwing, EnqSize, mem
    <3>3. CASE \/ DeqLoadHead(t) \/ DeqLoadNext(t) \/ DeqTestTail(t) \/ DeqValue(t)
               \/ DeqFree(t) \/ DeqSize(t)
      BY <3>3 DEF DeqLoadHead, DeqLoadNext, DeqTestTail, DeqValue, DeqFree, DeqSize, mem
    <3> QED
      BY <2>2, <3>1, <3>2, <3>3 DEF SingleStep
  <2> QED
    BY <2>1, <2>2
<1>3. \A q \in Queues : ChannelOf(q)' = ChannelOf(q)
  BY <1>a, <1>1, <1>2, ChannelKept
<1> QED
  BY <1>1, <1>3 DEF Chans

\* At first the channels are empty.
LEMMA ChannelsInit == Init => Fifos!Init
<1> SUFFICES ASSUME Init PROVE Fifos!Init
  OBVIOUS
<1>1. ASSUME NEW q \in Queues PROVE ChannelOf(q) = <<>>
  <2>1. Len(chain[q]) = 0 + 1
    BY DEF Init
  <2>2. ChannelOf(q) \in Seq(Values \cup {Null}) /\ Len(ChannelOf(q)) = 0
    BY <2>1, QueueInit, ChannelFacts DEF QueueIInv
  <2> QED
    BY <2>2, EmptySeq
<1>2. Chans = [q \in Queues |-> <<>>]
  BY <1>1 DEF Chans
<1> QED
  BY <1>2 DEF Fifos!Init, Init

\* Every step is a step of the channels, or leaves them as they are.
LEMMA ChannelsStep ==
    ASSUME QueueIInv, TakeTurns, QueueIInv', [Next]_vars
    PROVE  [Fifos!Next]_Fifos!vars
<1>1. ASSUME NEW t \in Threads, Call(t) \/ SingleStep(t) PROVE [Fifos!Next]_Fifos!vars
  <2>1. OthersStay(t)
    BY <1>1, OwnLocals DEF QueueIInv
  <2>2. CASE EnqLink(t)
    <3>1. \E q \in Queues : \E v \in Values : Fifos!Send(q, v)
      BY <2>1, <2>2, LinkSends
    <3> QED
      BY <3>1 DEF Fifos!Next
  <2>3. CASE DeqTake(t)
    <3>1. \E q \in Queues : Fifos!Receive(q)
      BY <2>1, <2>3, TakeReceives
    <3> QED
      BY <3>1 DEF Fifos!Next
  <2>4. CASE ~EnqLink(t) /\ ~DeqTake(t)
    BY <1>1, <2>4, OthersKeepChannels DEF Fifos!vars
  <2> QED
    BY <2>2, <2>3, <2>4
<1>2. CASE UNCHANGED vars
  BY <1>2 DEF vars, mem, history, Fifos!vars, Chans, ChannelOf
<1> QED
  BY <1>1, <1>2 DEF Next

\* Each queue is a first-in first-out channel.
THEOREM QueueRefinement == Spec /\ []TakeTurns => RefinesChannels
<1>1. Init => Fifos!Init
  BY ChannelsInit
<1>2. QueueIInv /\ TakeTurns /\ QueueIInv' /\ [Next]_vars => [Fifos!Next]_Fifos!vars
  BY ChannelsStep
<1> QED
  BY <1>1, <1>2, QueueInvariance, PTL DEF Spec, RefinesChannels, Fifos!Spec

-----------------------------------------------------------------------------
(* size. *)

\* Division with remainder.
LEMMA Division ==
    ASSUME NEW W \in Nat \ {0}, NEW a \in Int
    PROVE  /\ a \div W \in Int /\ a % W \in Int /\ 0 <= a % W /\ a % W < W
           /\ a = W * (a \div W) + (a % W)
BY Z3

\* Of the multiples of W only 0 lies between -W and W.
LEMMA SmallMultiple ==
    ASSUME NEW W \in Nat \ {0}, NEW m \in Int, -W < W * m, W * m < W
    PROVE  m = 0
<1>1. CASE m >= 1
  <2>1. W * m >= W
    BY <1>1, Z3
  <2> QED
    BY <2>1, Z3
<1>2. CASE m <= -1
  <2>1. W * m <= -W
    BY <1>2, Z3
  <2> QED
    BY <2>1, Z3
<1> QED
  BY <1>1, <1>2, Z3

\* Numbers that differ by a multiple of W are the same in a word.
LEMMA SameWord ==
    ASSUME NEW W \in Nat \ {0}, NEW a \in Int, NEW b \in Int, NEW d \in Int, a - b = W * d
    PROVE  a % W = b % W
<1> DEFINE m == d - (a \div W) + (b \div W)
<1>1. m \in Int
  BY Division
<1>2. (a % W) - (b % W) = W * m
  <2>1. PICK p \in Int : p = a \div W
    BY Division
  <2>2. PICK r \in Int : r = b \div W
    BY Division
  <2>3. PICK u \in Int : u = a % W /\ a = W * p + u
    BY <2>1, Division
  <2>4. PICK v \in Int : v = b % W /\ b = W * r + v
    BY <2>2, Division
  <2>5. (W * p + u) - (W * r + v) = W * d
    BY <2>3, <2>4
  <2>6. u - v = W * (d - p + r)
    BY <2>5, Z3
  <2> QED
    BY <2>1, <2>2, <2>3, <2>4, <2>6
<1> HIDE DEF m
<1>3. -W < W * m /\ W * m < W
  <2>1. /\ a % W \in Int /\ 0 <= a % W /\ a % W < W
        /\ b % W \in Int /\ 0 <= b % W /\ b % W < W
    BY Division
  <2> QED
    BY <1>2, <2>1
<1>4. m = 0
  BY <1>1, <1>3, SmallMultiple
<1>5. W * m = 0
  BY <1>4, Z3
<1> QED
  BY <1>2, <1>5, Division

\* Counting one up or down in a word.
LEMMA CountWord ==
    ASSUME NEW W \in Nat \ {0}, NEW a \in Int, NEW k \in Int
    PROVE  ((a % W) + k) % W = (a + k) % W
<1>1. PICK p \in Int : p = a \div W
  BY Division
<1>2. a % W \in Int /\ a = W * p + (a % W)
  BY <1>1, Division
<1>3. (a + k) - ((a % W) + k) = W * p
  BY <1>2, Z3
<1>4. (a % W) + k \in Int /\ a + k \in Int
  BY <1>2
<1> QED
  BY <1>3, <1>4, SameWord

\* One call has linked, or left, a node of q and has still to count it.
Linking(q) == \E t \in Threads : on[t] = q /\ pc[t] \in {"e_swing", "e_size"}
Leaving(q) == \E t \in Threads : on[t] = q /\ pc[t] \in {"d_free", "d_size"}
Elsewhere(q) ==
    Len(chain[q]) - 1 + unlinked[q]
        - (IF Linking(q) THEN 1 ELSE 0) + (IF Leaving(q) THEN 1 ELSE 0)

SizeRight == \A q \in Queues : size[q] = Elsewhere(q) % Word

\* The count of a queue is a number.
LEMMA ElsewhereType == ASSUME QueueIInv, NEW q \in Queues PROVE Elsewhere(q) \in Int
<1>1. PICK k \in Nat : k = Len(chain[q])
  BY ChainFacts DEF QueueIInv
<1>2. unlinked[q] \in Nat
  BY DEF QueueIInv, TypeOK
<1> QED
  BY <1>1, <1>2 DEF Elsewhere

\* Linking and leaving, one call at a time.
LEMMA SizeStep ==
    ASSUME QueueIInv, TakeTurns, TakeTurns', QueueIInv', SizeRight, [Next]_vars
    PROVE  SizeRight'
<1> USE DEF EnqLabels, DeqLabels
<1>a. TypeOK /\ ChainInv /\ \A u \in Threads : ThreadOK(u)
  BY DEF QueueIInv
<1>n. \A q \in Queues : unlinked[q] \in Nat
  BY <1>a DEF TypeOK
<1>k. ASSUME NEW q \in Queues, size'[q] = size[q], Elsewhere(q)' = Elsewhere(q)
      PROVE  size'[q] = Elsewhere(q)' % Word
  BY <1>k DEF SizeRight
<1>o. ASSUME NEW t \in Threads, OthersStay(t), NEW q \in Queues, q # on[t], q # on'[t]
      PROVE  Linking(q)' = Linking(q) /\ Leaving(q)' = Leaving(q)
  BY <1>o DEF Linking, Leaving, OthersStay
<1>1. ASSUME NEW t \in Threads, Call(t) \/ SingleStep(t), ~EnqLink(t), ~DeqTake(t),
             ~EnqSize(t), ~DeqSize(t), UNCHANGED unlinked
      PROVE  SizeRight'
  <2>1. OthersStay(t)
    BY <1>1, <1>a, OwnLocals
  <2>2. UNCHANGED <<chain, size>> /\ on'[t] \in {on[t], Null} \cup Queues
    <3>1. CASE Call(t)
      BY <3>1, <1>a, Types DEF Call, Enqueue, Dequeue, history, queues
    <3>2. CASE EnqInit(t) \/ EnqLoadTail(t) \/ EnqSwing(t)
      BY <3>2 DEF EnqInit, EnqLoadTail, EnqSwing, history, queues, locals
    <3>3. CASE DeqLoadHead(t) \/ DeqLoadNext(t) \/ DeqValue(t) \/ DeqFree(t)
      BY <3>3 DEF DeqLoadHead, DeqLoadNext, DeqValue, DeqFree, history, queues, locals
    <3>4. CASE DeqTestTail(t)
      BY <3>4, <1>a, Types DEF DeqTestTail, DeqEmpty, Return, history, queues, locals
    <3> QED
      BY <1>1, <3>1, <3>2, <3>3, <3>4 DEF SingleStep
  <2>3. /\ pc'[t] \in {"e_swing", "e_size"} <=> pc[t] \in {"e_swing", "e_size"}
        /\ pc'[t] \in {"d_free", "d_size"} <=> pc[t] \in {"d_free", "d_size"}
        /\ pc[t] \in {"e_swing", "e_size", "d_free", "d_size"} => on'[t] = on[t]
    <3>1. CASE Call(t)
      <4>1. CASE \E q \in Queues : Dequeue(t, q)
        BY <4>1, <1>a, Types DEF Dequeue, Goto
      <4>2. ASSUME NEW q \in Queues, NEW v \in Values, Enqueue(t, q, v) 
            PROVE  /\ pc'[t] \in {"e_swing", "e_size"} <=> pc[t] \in {"e_swing", "e_size"}
                   /\ pc'[t] \in {"d_free", "d_size"} <=> pc[t] \in {"d_free", "d_size"}
                   /\ pc[t] \in {"e_swing", "e_size", "d_free", "d_size"} => on'[t] = on[t]
        <5>1. unlinked' # [unlinked EXCEPT ![q] = @ + 1]
          BY <1>1, <1>a DEF TypeOK
        <5> QED
          BY <4>2, <5>1, <1>a, Types DEF Enqueue, Goto
      <4> QED
        BY <3>1, <4>1, <4>2 DEF Call
    <3>2. CASE EnqInit(t) \/ EnqLoadTail(t)
      BY <3>2, <1>a, Types DEF EnqInit, EnqLoadTail, Goto
    <3>3. CASE EnqSwing(t)
      <4>1. AfterSwing(t) = "e_size"
        BY <3>3, <1>a DEF AfterSwing, TakeTurns, EnqSwing, ThreadOK
      <4> QED
        BY <3>3, <4>1, <1>a, Types DEF EnqSwing, Goto
    <3>4. CASE DeqLoadHead(t) \/ DeqLoadNext(t) \/ DeqValue(t) \/ DeqFree(t)
      BY <3>4, <1>a, Types DEF DeqLoadHead, DeqLoadNext, DeqValue, DeqFree, Goto, locals
    <3>5. CASE DeqTestTail(t)
      BY <3>5, <1>a, Types DEF DeqTestTail, DeqEmpty, Return, Goto, ThreadOK
    <3> QED
      BY <1>1, <3>1, <3>2, <3>3, <3>4, <3>5 DEF SingleStep
  <2>4. \A q \in Queues : Linking(q)' = Linking(q) /\ Leaving(q)' = Leaving(q)
    BY <2>1, <2>3 DEF Linking, Leaving, OthersStay
  <2> QED
    BY <1>1, <2>2, <2>4 DEF SizeRight, Elsewhere
<1>2. CASE UNCHANGED vars
  BY <1>2 DEF vars, queues, locals, history, SizeRight, Elsewhere, Linking, Leaving
<1>3. ASSUME NEW t \in Threads, EnqLink(t), NEW q, q = on[t] PROVE SizeRight'
  <2>1. OthersStay(t)
    BY <1>3, <1>a, OwnLocals DEF SingleStep
  <2>2. /\ q \in Queues /\ next[tl[t]] = Null /\ tl[t] = Last(chain[q]) /\ pc[t] = "e_link"
        /\ t \in Producers[q] /\ node[t] \in Nodes
    BY <1>3, LinkFacts DEF EnqLink
  <2>3. PICK k \in Nat : k = Len(chain[q]) /\ k > 0
    BY <1>a, <2>2, ChainFacts
  <2>4. /\ chain' = [chain EXCEPT ![q] = Append(chain[q], node[t])]
        /\ pc'[t] = "e_swing" /\ on'[t] = q /\ UNCHANGED <<size, unlinked>>
    BY <1>3, <1>a, <2>2, <2>3, Types DEF EnqLink, Linked, Goto, queues, locals
  <2>5. \A r \in Queues : r # q => chain'[r] = chain[r] /\ Elsewhere(r)' = Elsewhere(r)
    BY <1>3, <1>a, <1>o, <2>1, <2>4, Types DEF Elsewhere
  <2>6. Longer(chain'[q], chain[q], node[t])
    <3>1. chain'[q] = Append(chain[q], node[t]) /\ chain[q] \in Seq(Nodes) /\ Len(chain[q]) > 0
      BY <1>a, <2>2, <2>3, <2>4, Types
    <3> QED
      BY <2>2, <3>1, Lengthened
  <2>7. Len(chain'[q]) = k + 1
    BY <2>3, <2>6 DEF Longer
  <2>8. ~Linking(q) /\ Linking(q)' /\ Leaving(q)' = Leaving(q)
    <3>1. ~Linking(q)
      BY <1>3, <2>2 DEF TakeTurns, Linking
    <3>2. Linking(q)'
      BY <2>4 DEF Linking
    <3>3. Leaving(q)' = Leaving(q)
      BY <1>3, <2>1, <2>2, <2>4 DEF Leaving, OthersStay
    <3> QED
      BY <3>1, <3>2, <3>3
  <2>9. Elsewhere(q)' = Elsewhere(q)
    BY <1>n, <2>2, <2>3, <2>4, <2>7, <2>8 DEF Elsewhere
  <2> QED
    BY <1>k, <2>4, <2>5, <2>9 DEF SizeRight
<1>4. ASSUME NEW t \in Threads, DeqTake(t), NEW q, q = on[t] PROVE SizeRight'
  <2>1. OthersStay(t)
    BY <1>4, <1>a, OwnLocals DEF SingleStep
  <2>2. MayTake(t, q, chain[q]) /\ pc[t] = "d_take"
    BY <1>4, TakeFacts DEF DeqTake
  <2>3. /\ q \in Queues /\ head[q] = hd[t] /\ kind[t] = "single_deq"
        /\ chain[q] \in Seq(Nodes) /\ Len(chain[q]) > 1
    BY <2>2 DEF MayTake
  <2>4. /\ chain' = [chain EXCEPT ![q] = SubSeq(chain[q], 2, Len(chain[q]))]
        /\ pc'[t] = "d_free" /\ on'[t] = q /\ UNCHANGED <<size, unlinked>>
    BY <1>4, <1>a, <2>3, Types DEF DeqTake, Goto
  <2>5. \A r \in Queues : r # q => chain'[r] = chain[r] /\ Elsewhere(r)' = Elsewhere(r)
    BY <1>4, <1>a, <1>o, <2>1, <2>4, Types DEF Elsewhere
  <2>6. Len(chain'[q]) = Len(chain[q]) - 1
    <3>1. chain'[q] = SubSeq(chain[q], 2, Len(chain[q]))
      BY <1>a, <2>3, <2>4, Types
    <3>2. \A i, j \in 1 .. Len(chain[q]) : chain[q][i] = chain[q][j] => i = j
      BY <2>2 DEF MayTake
    <3>3. Shorter(chain'[q], chain[q])
      BY <2>3, <3>1, <3>2, Shortened
    <3> QED
      BY <3>3 DEF Shorter
  <2>7. ~Leaving(q) /\ Leaving(q)' /\ Linking(q)' = Linking(q)
    <3>1. ~Leaving(q)
      BY <1>4, <2>2, <2>3 DEF TakeTurns, Leaving
    <3>2. Leaving(q)'
      BY <2>4 DEF Leaving
    <3>3. Linking(q)' = Linking(q)
      BY <1>4, <2>1, <2>2, <2>4 DEF Linking, OthersStay
    <3> QED
      BY <3>1, <3>2, <3>3
  <2>8. PICK k \in Nat : k = Len(chain[q])
    BY <2>3, LenProperties
  <2>9. Elsewhere(q)' = Elsewhere(q)
    BY <1>n, <2>3, <2>4, <2>6, <2>7, <2>8 DEF Elsewhere
  <2> QED
    BY <1>k, <2>4, <2>5, <2>9 DEF SizeRight
<1>5. ASSUME NEW t \in Threads, EnqSize(t) \/ DeqSize(t), NEW q, q = on[t],
             NEW k, k = IF pc[t] = "e_size" THEN 1 ELSE -1
      PROVE  SizeRight'
  <2>1. OthersStay(t)
    BY <1>5, <1>a, OwnLocals DEF SingleStep
  <2>2. q \in Queues /\ pc[t] \in {"e_size", "d_size"} /\ k \in Int
    BY <1>5, <1>a DEF EnqSize, DeqSize, ThreadOK
  <2>3. /\ size' = [size EXCEPT ![q] = (@ + k) % Word]
        /\ pc'[t] = "idle" /\ on'[t] = Null /\ UNCHANGED <<chain, unlinked>>
    BY <1>5, <1>a, Types DEF EnqSize, DeqSize, Resize, Return, Goto, history
  <2>4. \A r \in Queues : r # q => size'[r] = size[r] /\ Elsewhere(r)' = Elsewhere(r)
    <3>1. \A r \in Queues : r # Null
      BY NodesAssumption
    <3> QED
      BY <1>5, <1>a, <1>o, <2>1, <2>3, <3>1, Types DEF Elsewhere
  <2>5. size'[q] = (size[q] + k) % Word
    BY <1>a, <2>2, <2>3, Types
  <2>6. Elsewhere(q)' = Elsewhere(q) + k
    <3>1. PICK l \in Nat : l = Len(chain[q]) /\ l = Len(chain'[q])
      BY <1>a, <2>2, <2>3, ChainFacts
    <3>2. CASE pc[t] = "e_size"
      <4>1. Linking(q) /\ ~Linking(q)' /\ Leaving(q)' = Leaving(q)
        BY <1>5, <2>1, <2>2, <2>3, <3>2, NodesAssumption
           DEF Linking, Leaving, OthersStay, TakeTurns
      <4> QED
        BY <1>5, <1>n, <2>2, <2>3, <3>1, <3>2, <4>1 DEF Elsewhere
    <3>3. CASE pc[t] = "d_size"
      <4>1. Leaving(q) /\ ~Leaving(q)' /\ Linking(q)' = Linking(q)
        BY <1>5, <2>1, <2>2, <2>3, <3>3, NodesAssumption
           DEF Linking, Leaving, OthersStay, TakeTurns
      <4> QED
        BY <1>5, <1>n, <2>2, <2>3, <3>1, <3>3, <4>1 DEF Elsewhere
    <3> QED
      BY <2>2, <3>2, <3>3
  <2>7. size'[q] = Elsewhere(q)' % Word
    <3>1. Word \in Nat \ {0} /\ Elsewhere(q) \in Int
      BY <2>2, WordAssumption, ElsewhereType
    <3>2. ((Elsewhere(q) % Word) + k) % Word = (Elsewhere(q) + k) % Word
      BY <2>2, <3>1, CountWord
    <3> QED
      BY <2>2, <2>5, <2>6, <3>2 DEF SizeRight
  <2> QED
    BY <1>k, <2>4, <2>7 DEF SizeRight
<1>6. ASSUME NEW t \in Threads, NEW q \in Queues, NEW v \in Values, Enqueue(t, q, v),
             ~UNCHANGED unlinked
      PROVE  SizeRight'
  <2>1. OthersStay(t)
    BY <1>6, <1>a, OwnLocals DEF Call
  <2>2. /\ pc[t] = "idle"
        /\ pc'[t] = "e_size" /\ on'[t] = q /\ UNCHANGED <<chain, size>>
        /\ unlinked' = [unlinked EXCEPT ![q] = @ + 1]
    BY <1>6, <1>a, Types DEF Enqueue, Goto, queues
  <2>3. \A r \in Queues : r # q => Elsewhere(r)' = Elsewhere(r)
    BY <2>1, <2>2 DEF Elsewhere, Linking, Leaving, OthersStay
  <2>4. ~Linking(q) /\ Linking(q)' /\ Leaving(q)' = Leaving(q)
    <3>1. ASSUME NEW u \in Threads, on[u] = q, pc[u] \in {"e_swing", "e_size"} PROVE FALSE
      <4>1. u # t /\ on'[u] = q /\ pc'[u] = pc[u]
        BY <2>1, <2>2, <3>1 DEF OthersStay
      <4> QED
        BY <2>2, <3>1, <4>1 DEF TakeTurns
    <3>2. Linking(q)'
      BY <2>2 DEF Linking
    <3>3. Leaving(q)' = Leaving(q)
      BY <2>1, <2>2 DEF Leaving, OthersStay
    <3> QED
      BY <3>1, <3>2, <3>3 DEF Linking
  <2>5. PICK k \in Nat : k = Len(chain[q])
    BY <1>a, ChainFacts
  <2>6. Elsewhere(q)' = Elsewhere(q)
    <3>1. unlinked'[q] = unlinked[q] + 1 /\ unlinked[q] \in Nat
      BY <1>a, <2>2 DEF TypeOK
    <3> QED
      BY <2>2, <2>4, <2>5, <3>1 DEF Elsewhere
  <2> QED
    BY <1>k, <2>2, <2>3, <2>6 DEF SizeRight
<1>7. ASSUME NEW t \in Threads, Call(t) \/ SingleStep(t) PROVE SizeRight'
  <2>1. UNCHANGED unlinked \/ \E q \in Queues, v \in Values : Enqueue(t, q, v)
    BY <1>7 DEF Call, Dequeue, SingleStep, EnqInit, EnqLoadTail, EnqLink, EnqSwing, EnqSize,
       DeqLoadHead, DeqLoadNext, DeqTestTail, DeqValue, DeqTake, DeqFree, DeqSize, history
  <2> QED
    BY <1>1, <1>3, <1>4, <1>5, <1>6, <1>7, <2>1
<1> QED
  BY <1>2, <1>7 DEF Next

\* After lfqueue_init_mf the queues are empty.
LEMMA SizeInit == Init => SizeRight
<1> SUFFICES ASSUME Init, NEW q \in Queues PROVE size[q] = Elsewhere(q) % Word
  BY DEF SizeRight
<1>1. ~Linking(q) /\ ~Leaving(q)
  BY DEF Init, Linking, Leaving
<1>2. Len(chain[q]) = 1
  BY NodesAssumption DEF Init
<1>3. Elsewhere(q) = 0
  BY <1>1, <1>2 DEF Elsewhere, Init
<1>4. 0 % Word = 0
  BY WordAssumption, Z3
<1> QED
  BY <1>3, <1>4 DEF Init

\* Whatever errno an allocator that fails leaves, size is right give or take the
\* calls under way and the allocations that failed without one.
THEOREM QueueSizeInvariance == Spec /\ []TakeTurns => []SizeRight
<1>1. QueueIInv /\ TakeTurns /\ TakeTurns' /\ QueueIInv' /\ SizeRight /\ [Next]_vars => SizeRight'
  BY SizeStep
<1> QED
  BY <1>1, SizeInit, QueueInvariance, PTL DEF Spec

\* With one call of each kind at a time, the calls to be counted are one or none.
LEMMA SizeCounted ==
    ASSUME QueueIInv, TakeTurns, SizeRight
    PROVE  SizeAccounted
<1> SUFFICES ASSUME NEW q \in Queues,
                    NEW Uncounted, NEW Unlinked,
                    Uncounted = {t \in Threads : on[t] = q /\
                       (pc[t] \in {"e_swing", "e_size"} \/ (pc[t] \in CheckLabels /\ arg[t] # Null))},
                    Unlinked = {t \in Threads : on[t] = q /\
                       (pc[t] \in {"d_free", "d_size"} \cup RecycleLabels
                        \/ (pc[t] \in CheckLabels /\ val[t] # Null))}
             PROVE  size[q] = (Len(chain[q]) - 1 + unlinked[q] - Cardinality(Uncounted)
                                 + Cardinality(Unlinked)) % Word
  BY DEF SizeAccounted
<1>1. \A t \in Threads : pc[t] \notin CheckLabels \cup RecycleLabels
  BY DEF QueueIInv, ThreadOK, EnqLabels, DeqLabels, CheckLabels, RecycleLabels
<1>2. /\ \A t \in Threads : t \in Uncounted <=> on[t] = q /\ pc[t] \in {"e_swing", "e_size"}
      /\ \A t \in Threads : t \in Unlinked <=> on[t] = q /\ pc[t] \in {"d_free", "d_size"}
  BY <1>1
<1>3. Cardinality(Uncounted) = IF Linking(q) THEN 1 ELSE 0
  <2>1. CASE Linking(q)
    <3>1. PICK t \in Threads : on[t] = q /\ pc[t] \in {"e_swing", "e_size"}
      BY <2>1 DEF Linking
    <3>2. Uncounted = {t}
      BY <1>2, <3>1 DEF TakeTurns, EnqLabels
    <3> QED
      BY <2>1, <3>2, FS_Singleton
  <2>2. CASE ~Linking(q)
    <3>1. Uncounted = {}
      BY <1>2, <2>2 DEF Linking
    <3> QED
      BY <2>2, <3>1, FS_EmptySet
  <2> QED
    BY <2>1, <2>2
<1>4. Cardinality(Unlinked) = IF Leaving(q) THEN 1 ELSE 0
  <2>1. CASE Leaving(q)
    <3>1. PICK t \in Threads : on[t] = q /\ pc[t] \in {"d_free", "d_size"}
      BY <2>1 DEF Leaving
    <3>2. Unlinked = {t}
      BY <1>2, <3>1 DEF TakeTurns, DeqLabels
    <3> QED
      BY <2>1, <3>2, FS_Singleton
  <2>2. CASE ~Leaving(q)
    <3>1. Unlinked = {}
      BY <1>2, <2>2 DEF Leaving
    <3> QED
      BY <2>2, <3>1, FS_EmptySet
  <2> QED
    BY <2>1, <2>2
<1>5. Len(chain[q]) - 1 + unlinked[q] - Cardinality(Uncounted) + Cardinality(Unlinked)
        = Elsewhere(q)
  BY <1>3, <1>4 DEF Elsewhere
<1> QED
  BY <1>5 DEF SizeRight

\* size counts the elements, give or take the calls that have linked or unlinked
\* one and have still to count it, and one too many for every put that took a
\* failed allocation for a success.
THEOREM QueueSize == Spec /\ []TakeTurns => []SizeAccounted
<1>1. QueueIInv /\ TakeTurns /\ SizeRight => SizeAccounted
  BY SizeCounted
<1> QED
  BY <1>1, QueueInvariance, QueueSizeInvariance, PTL

-----------------------------------------------------------------------------
(* The threads of audio.c while it runs. *)

\* Each queue has one thread that enqueues and one that takes, with
\* lfqueue_single_deq (fillPlaybackQueue, streamCallback and flushRecordQueue).
OneEach ==
    \A q \in Queues :
        /\ Deqs[q] = {"single_deq"}
        /\ \A t, u \in Producers[q] : t = u
        /\ \A t, u \in Consumers[q] : t = u

\* A thread is in a call that it makes, on a queue on which it makes it.
RoleOK(t) ==
    /\ pc[t] \in {"idle"} \cup EnqLabels \cup DeqLabels
    /\ pc[t] \in EnqLabels => on[t] \in Queues /\ t \in Producers[on[t]]
    /\ pc[t] \in DeqLabels =>
          on[t] \in Queues /\ t \in Consumers[on[t]] /\ kind[t] = "single_deq"

Roles ==
    /\ DOMAIN pc = Threads /\ DOMAIN on = Threads /\ DOMAIN kind = Threads
    /\ \A t \in Threads : RoleOK(t)

\* With one thread for each call, the calls take turns.
LEMMA RolesTakeTurns == ASSUME OneEach, Roles PROVE TakeTurns
<1>1. \A q \in Queues : ~Recycles(q)
  BY DEF OneEach, Recycles
<1> QED
  BY <1>1 DEF OneEach, Roles, RoleOK, TakeTurns

\* A thread stays in its roles.
LEMMA RolesStep == ASSUME OneEach, Roles, [Next]_vars PROVE Roles'
<1> USE DEF Roles, RoleOK, EnqLabels, DeqLabels, Goto, locals
<1>1. ASSUME NEW t \in Threads, Return(t) PROVE Roles'
  BY <1>1 DEF Return
<1>2. ASSUME NEW t \in Threads, NEW q \in Queues, Dequeue(t, q) PROVE Roles'
  BY <1>2 DEF Dequeue, OneEach
<1>3. ASSUME NEW t \in Threads, NEW q \in Queues, NEW v \in Values, Enqueue(t, q, v)
      PROVE  Roles'
  BY <1>3 DEF Enqueue
<1>4. ASSUME NEW t \in Threads, EnqInit(t) \/ EnqLoadTail(t) \/ EnqLink(t) PROVE Roles'
  BY <1>4 DEF EnqInit, EnqLoadTail, EnqLink
<1>5. ASSUME NEW t \in Threads, EnqSwing(t) PROVE Roles'
  <2>1. AfterSwing(t) = "e_size"
    BY <1>5 DEF AfterSwing, EnqSwing, OneEach, Recycles
  <2> QED
    BY <1>5, <2>1 DEF EnqSwing
<1>6. ASSUME NEW t \in Threads, EnqSize(t) \/ DeqSize(t) PROVE Roles'
  BY <1>1, <1>6 DEF EnqSize, DeqSize
<1>7. ASSUME NEW t \in Threads,
             DeqLoadHead(t) \/ DeqLoadNext(t) \/ DeqValue(t) \/ DeqFree(t)
      PROVE  Roles'
  BY <1>7 DEF DeqLoadHead, DeqLoadNext, DeqValue, DeqFree
<1>8. ASSUME NEW t \in Threads, DeqTake(t) PROVE Roles'
  BY <1>8 DEF DeqTake
<1>9. ASSUME NEW t \in Threads, DeqTestTail(t) PROVE Roles'
  <2>1. kind[t] = "single_deq"
    BY <1>9 DEF DeqTestTail
  <2> QED
    BY <1>1, <1>9, <2>1 DEF DeqTestTail, DeqEmpty
<1>10. CASE UNCHANGED vars
  BY <1>10 DEF vars
<1> QED
  BY <1>2, <1>3, <1>4, <1>5, <1>6, <1>7, <1>8, <1>9, <1>10 DEF Next, Call, SingleStep

\* What the theorems ask for holds of the threads of audio.c.
THEOREM QueueTurns ==
    ASSUME OneEach
    PROVE  Spec => []TakeTurns
<1>1. Init => Roles
  BY DEF Init, Roles, RoleOK, EnqLabels, DeqLabels
<1>2. Roles /\ [Next]_vars => Roles'
  BY RolesStep
<1>3. Roles => TakeTurns
  BY RolesTakeTurns
<1> QED
  BY <1>1, <1>2, <1>3, PTL DEF Spec
=============================================================================
