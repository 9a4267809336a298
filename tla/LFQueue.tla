------------------------------ MODULE LFQueue ------------------------------
(***************************************************************************)
(* src/lfqueue.c: linked queues that take their nodes from one shared      *)
(* pool, used by audio.c for the frames to play and the frames recorded.   *)
(* One action per atomic access.  lfqueue_single_deq gives the node it     *)
(* leaves back to the pool at once.  lfqueue_deq puts it on the queue's    *)
(* recycle list, from which every enqueue and every lfqueue_deq frees what *)
(* has been there for more than Grace seconds.                             *)
(*                                                                         *)
(* The pool is any allocator: the ring of LFRingBuffer, which hands nodes  *)
(* out in order and may fail spuriously, or malloc.  A freed node keeps    *)
(* its fields until it is handed out and initialised again.                *)
(*                                                                         *)
(* Time passes in seconds.  A node has an age, the time since it was       *)
(* deactivated, that need not be told apart beyond Grace + 1; and a call   *)
(* takes at most MaxCall, as the grace period takes for granted.           *)
(***************************************************************************)
EXTENDS Integers, Sequences, FiniteSets

CONSTANTS Queues, Threads,
          Producers,   \* Producers[q]: threads that call lfqueue_enq on q
          Consumers,   \* Consumers[q]: threads that take values out of q
          Deqs,        \* Deqs[q]: the calls they use, "single_deq" or "deq"
          Nodes,
          Base,        \* Base[q]: the node lfqueue_init_mf took first for q
          FreeBase,    \* FreeBase[q]: the one it took second
          Values,      \* values that are enqueued
          Null,        \* the C null pointer
          Errnos,      \* values errno may have when the allocator fails
          Word,        \* 2^w for the w bits of size_t
          Grace,       \* the seconds __lfq_check_free waits, 2 in the code
          MaxCall,     \* bound: the seconds a call takes
          MaxUnlinked  \* bound, per queue: failed allocations taken for successes

ASSUME RolesAssumption ==
    /\ Producers \in [Queues -> SUBSET Threads]
    /\ Consumers \in [Queues -> SUBSET Threads]
    /\ Deqs \in [Queues -> SUBSET {"single_deq", "deq"}]
ASSUME NodesAssumption ==
    /\ Base \in [Queues -> Nodes] /\ FreeBase \in [Queues -> Nodes]
    /\ \A q, r \in Queues :
          /\ Base[q] = Base[r] => q = r
          /\ FreeBase[q] = FreeBase[r] => q = r
          /\ Base[q] # FreeBase[r]
    /\ Null \notin Nodes \cup Values \cup Queues
ASSUME WordAssumption == Word \in Nat \ {0, 1} /\ Errnos \subseteq Nat
ASSUME BoundsAssumption ==
    Grace \in Nat /\ MaxCall \in Nat /\ MaxUnlinked \in [Queues -> Nat]

VARIABLES next, value, nextfree,  \* fields of a node
          age,          \* seconds since _deactivate_tm of a node
          head, tail,   \* lfqueue->head and lfqueue->tail of a queue
          size,         \* lfqueue->size of a queue
          root_free, move_free, in_free_mode,  \* the recycle list of a queue
          expired,      \* nodes whose grace was over by the curr_time of the
                        \* thread that is in free mode
          pool,         \* the nodes the allocator may hand out
          pc,           \* pc[t]: the step thread t is about to do
          on,           \* on[t]: the queue t is working on
          arg,          \* the value t is enqueueing
          node,         \* local node of _enqueue
          tl,           \* local tail of _enqueue
          hd, nx, val,  \* locals head, next and val of a dequeue
          fr,           \* local freed of __lfq_recycle_free, then rtfree of
                        \* __lfq_check_free
          kind,         \* the dequeue the thread has called
          elapsed,      \* seconds the thread has been in its call
          delivered,    \* delivered[q]: last value a dequeue of q got
          chain,        \* history: nodes linked into q, from its head node on
          recycled,     \* history: the recycle list of q, from root_free on
          unlinked      \* history: calls on q that took a failed allocation for
                        \* a success

mem == <<next, value, nextfree>>
queues == <<head, tail, size>>
recycling == <<root_free, move_free, in_free_mode, expired>>
time == <<age, elapsed>>
locals == <<on, arg, node, tl, hd, nx, val, fr, kind>>
history == <<delivered, chain, recycled, unlinked>>
vars == <<mem, queues, recycling, pool, pc, locals, time, history>>

EnqLabels == {"e_init", "e_tail", "e_link", "e_swing", "e_size"}
DeqLabels == {"d_head", "d_next", "d_tail", "d_value", "d_take", "d_free", "d_size"}
RecycleLabels == {"r_load", "r_link", "r_time", "r_move"}
CheckLabels == {"c_enter", "c_step", "c_exit"}

TypeOK ==
    /\ next \in [Nodes -> Nodes \cup {Null}]
    /\ nextfree \in [Nodes -> Nodes \cup {Null}]
    /\ value \in [Nodes -> Values \cup {Null}]
    /\ age \in [Nodes -> 0 .. Grace + 1]
    /\ head \in [Queues -> Nodes] /\ tail \in [Queues -> Nodes]
    /\ size \in [Queues -> 0 .. Word - 1]
    /\ root_free \in [Queues -> Nodes \cup {Null}] /\ move_free \in [Queues -> Nodes]
    /\ in_free_mode \in [Queues -> BOOLEAN]
    /\ expired \in [Queues -> SUBSET Nodes]
    /\ pool \in SUBSET Nodes
    /\ pc \in [Threads -> {"idle"} \cup EnqLabels \cup DeqLabels
                          \cup RecycleLabels \cup CheckLabels]
    /\ on \in [Threads -> Queues \cup {Null}]
    /\ \A f \in {arg, val} : f \in [Threads -> Values \cup {Null}]
    /\ \A f \in {node, tl, hd, nx, fr} : f \in [Threads -> Nodes \cup {Null}]
    /\ kind \in [Threads -> {"single_deq", "deq", Null}]
    /\ elapsed \in [Threads -> 0 .. MaxCall]
    /\ delivered \in [Queues -> Values \cup {Null}]
    /\ chain \in [Queues -> Seq(Nodes)] /\ recycled \in [Queues -> Seq(Nodes)]
    /\ unlinked \in [Queues -> Nat]

\* lfqueue_init_mf of every queue: two nodes each, which hold no value.  Their
\* _deactivate_tm is 0, in 1970; that of the other nodes is never read before
\* it has been set.
Init ==
    /\ next = [n \in Nodes |-> Null] /\ nextfree = next /\ value = next
    /\ age = [n \in Nodes |-> Grace + 1]
    /\ head = Base /\ tail = Base
    /\ root_free = FreeBase /\ move_free = FreeBase
    /\ in_free_mode = [q \in Queues |-> FALSE]
    /\ expired = [q \in Queues |-> {}]
    /\ size = [q \in Queues |-> 0]
    /\ pool = Nodes \ UNION {{Base[q], FreeBase[q]} : q \in Queues}
    /\ pc = [t \in Threads |-> "idle"]
    /\ on = [t \in Threads |-> Null]
    /\ arg = on /\ node = on /\ tl = on /\ hd = on /\ nx = on /\ val = on /\ fr = on
    /\ kind = on
    /\ elapsed = [t \in Threads |-> 0]
    /\ delivered = [q \in Queues |-> Null]
    /\ chain = [q \in Queues |-> <<Base[q]>>]
    /\ recycled = [q \in Queues |-> <<FreeBase[q]>>]
    /\ unlinked = [q \in Queues |-> 0]

-----------------------------------------------------------------------------
Goto(t, label) == pc' = [pc EXCEPT ![t] = label]

\* The call returns: its locals are dead.
Return(t) ==
    /\ Goto(t, "idle")
    /\ on' = [on EXCEPT ![t] = Null]
    /\ arg' = [arg EXCEPT ![t] = Null]
    /\ node' = [node EXCEPT ![t] = Null]
    /\ tl' = [tl EXCEPT ![t] = Null]
    /\ hd' = [hd EXCEPT ![t] = Null]
    /\ nx' = [nx EXCEPT ![t] = Null]
    /\ val' = [val EXCEPT ![t] = Null]
    /\ fr' = [fr EXCEPT ![t] = Null]
    /\ kind' = [kind EXCEPT ![t] = Null]
    /\ elapsed' = [elapsed EXCEPT ![t] = 0]
    /\ UNCHANGED age

Last(s) == s[Len(s)]
Elements(s) == {s[i] : i \in 1 .. Len(s)}

\* The history s of a list after n was linked behind the node m: a link
\* behind any other node than the last does not lengthen the list.
Linked(s, m, n) == IF Len(s) > 0 /\ Last(s) = m THEN Append(s, n) ELSE s

Resize(q, k) == size' = [size EXCEPT ![q] = (@ + k) % Word]

\* A queue from which nobody takes with lfqueue_deq has only its first node on
\* the recycle list: root_free = move_free, and __lfq_check_free does nothing.
Recycles(q) == "deq" \in Deqs[q]

\* --- lfqueue_enq -----------------------------------------------------------

\* _malloc.  When it fails, _enqueue returns errno: if that is zero,
\* lfqueue_enq goes on as if the value had been linked; if not, it reports -1
\* and nothing has changed.
Enqueue(t, q, v) ==
    /\ pc[t] = "idle" /\ t \in Producers[q]
    /\ \/ \E n \in pool :
             /\ pool' = pool \ {n}
             /\ node' = [node EXCEPT ![t] = n]
             /\ arg' = [arg EXCEPT ![t] = v]
             /\ on' = [on EXCEPT ![t] = q]
             /\ Goto(t, "e_init")
             /\ UNCHANGED unlinked
       \/ /\ 0 \in Errnos /\ unlinked[q] < MaxUnlinked[q]
          /\ on' = [on EXCEPT ![t] = q]
          /\ Goto(t, "e_size")
          /\ unlinked' = [unlinked EXCEPT ![q] = @ + 1]
          /\ UNCHANGED <<pool, node, arg>>
    /\ UNCHANGED <<mem, queues, recycling, tl, hd, nx, val, fr, kind, time, delivered,
                   chain, recycled>>

EnqInit(t) ==
    /\ pc[t] = "e_init"
    /\ value' = [value EXCEPT ![node[t]] = arg[t]]
    /\ next' = [next EXCEPT ![node[t]] = Null]
    /\ nextfree' = [nextfree EXCEPT ![node[t]] = Null]
    /\ Goto(t, "e_tail")
    /\ UNCHANGED <<queues, recycling, pool, locals, time, history>>

\* Mutant: the end is looked for from the first node.
EnqLoadTail_Head(t) ==
    /\ pc[t] = "e_tail"
    /\ tl' = [tl EXCEPT ![t] = head[on[t]]]
    /\ Goto(t, "e_link")
    /\ UNCHANGED <<mem, queues, recycling, pool, on, arg, node, hd, nx, val, fr, kind,
                   time, history>>

EnqLoadTail(t) ==
    /\ pc[t] = "e_tail"
    /\ tl' = [tl EXCEPT ![t] = tail[on[t]]]
    /\ Goto(t, "e_link")
    /\ UNCHANGED <<mem, queues, recycling, pool, on, arg, node, hd, nx, val, fr, kind,
                   time, history>>

\* The compare-and-swap on tail->next.
EnqLink(t) ==
    /\ pc[t] = "e_link"
    /\ \/ /\ next[tl[t]] = Null
          /\ next' = [next EXCEPT ![tl[t]] = node[t]]
          /\ chain' = [chain EXCEPT ![on[t]] = Linked(@, tl[t], node[t])]
          /\ Goto(t, "e_swing")
       \/ /\ next[tl[t]] # Null
          /\ Goto(t, "e_tail")
          /\ UNCHANGED <<next, chain>>
    /\ UNCHANGED <<value, nextfree, queues, recycling, pool, locals, time, delivered,
                   recycled, unlinked>>

AfterSwing(t) == IF Recycles(on[t]) THEN "c_enter" ELSE "e_size"

\* Mutant: the element is linked and tail left behind.
EnqSwing_Forget(t) ==
    /\ pc[t] = "e_swing"
    /\ node' = [node EXCEPT ![t] = Null]
    /\ tl' = [tl EXCEPT ![t] = Null]
    /\ Goto(t, AfterSwing(t))
    /\ UNCHANGED <<mem, queues, recycling, pool, on, arg, hd, nx, val, fr, kind, time,
                   history>>

\* The compare-and-swap on lfqueue->tail, whose outcome the code ignores.
EnqSwing(t) ==
    /\ pc[t] = "e_swing"
    /\ tail' = IF tail[on[t]] = tl[t]
               THEN [tail EXCEPT ![on[t]] = node[t]] ELSE tail
    /\ node' = [node EXCEPT ![t] = Null]
    /\ tl' = [tl EXCEPT ![t] = Null]
    /\ Goto(t, AfterSwing(t))
    /\ UNCHANGED <<mem, head, size, recycling, pool, on, arg, hd, nx, val, fr, kind, time,
                   history>>

EnqSize(t) ==
    /\ pc[t] = "e_size"
    /\ Resize(on[t], 1)
    /\ Return(t)
    /\ UNCHANGED <<mem, head, tail, recycling, pool, history>>

\* --- _dequeue and _single_dequeue --------------------------------------------

\* The _must variants call again, after a millisecond, until there is a value.
Dequeue(t, q) ==
    /\ pc[t] = "idle" /\ t \in Consumers[q]
    /\ on' = [on EXCEPT ![t] = q]
    /\ \E k \in Deqs[q] : kind' = [kind EXCEPT ![t] = k]
    /\ Goto(t, "d_head")
    /\ UNCHANGED <<mem, queues, recycling, pool, arg, node, tl, hd, nx, val, fr, time,
                   history>>

\* The load of head and the compare-and-swap that re-reads it: if it finds
\* another head, the loop starts again with nothing changed.
DeqLoadHead(t) ==
    /\ pc[t] = "d_head"
    /\ hd' = [hd EXCEPT ![t] = head[on[t]]]
    /\ Goto(t, "d_next")
    /\ UNCHANGED <<mem, queues, recycling, pool, on, arg, node, tl, nx, val, fr, kind,
                   time, history>>

DeqLoadNext(t) ==
    /\ pc[t] = "d_next"
    /\ nx' = [nx EXCEPT ![t] = next[hd[t]]]
    /\ Goto(t, "d_tail")
    /\ UNCHANGED <<mem, queues, recycling, pool, on, arg, node, tl, hd, val, fr, kind,
                   time, history>>

\* val = NULL: _single_dequeue returns, _dequeue goes on to "_done".
DeqEmpty(t) ==
    \/ kind[t] = "single_deq" /\ Return(t)
    \/ /\ kind[t] = "deq"
       /\ hd' = [hd EXCEPT ![t] = Null]
       /\ Goto(t, "c_enter")
       /\ UNCHANGED <<on, arg, node, tl, nx, val, fr, kind, time>>

\* The compare-and-swap that re-reads tail: head = tail with a successor means
\* a producer has linked a node and not yet moved tail, and the consumer spins.
DeqTestTail(t) ==
    /\ pc[t] = "d_tail"
    /\ \/ /\ nx[t] = Null
          /\ DeqEmpty(t)
       \/ /\ nx[t] # Null /\ tail[on[t]] = hd[t]
          /\ Goto(t, "d_head")
          /\ UNCHANGED <<locals, time>>
       \/ /\ nx[t] # Null /\ tail[on[t]] # hd[t]
          /\ Goto(t, "d_value")
          /\ UNCHANGED <<locals, time>>
    /\ UNCHANGED <<mem, queues, recycling, pool, history>>

\* Mutant: val = head->value, the value of the node before.
DeqValue_Old(t) ==
    /\ pc[t] = "d_value"
    /\ val' = [val EXCEPT ![t] = value[hd[t]]]
    /\ Goto(t, "d_take")
    /\ UNCHANGED <<mem, queues, recycling, pool, on, arg, node, tl, hd, nx, fr, kind,
                   time, history>>

DeqValue(t) ==
    /\ pc[t] = "d_value"
    /\ val' = [val EXCEPT ![t] = value[nx[t]]]
    /\ Goto(t, "d_take")
    /\ UNCHANGED <<mem, queues, recycling, pool, on, arg, node, tl, hd, nx, fr, kind,
                   time, history>>

\* The compare-and-swap on head, which fails if another consumer has moved it.
DeqTake(t) ==
    /\ pc[t] = "d_take"
    /\ \/ /\ head[on[t]] = hd[t]
          /\ head' = [head EXCEPT ![on[t]] = nx[t]]
          /\ delivered' = [delivered EXCEPT ![on[t]] = val[t]]
          /\ chain' = [chain EXCEPT ![on[t]] = SubSeq(@, 2, Len(@))]
          /\ nx' = [nx EXCEPT ![t] = Null]
          /\ Goto(t, IF kind[t] = "deq" THEN "r_load" ELSE "d_free")
          /\ UNCHANGED val
       \/ /\ head[on[t]] # hd[t]
          /\ Goto(t, "d_head")
          /\ val' = [val EXCEPT ![t] = Null]
          /\ UNCHANGED <<head, delivered, chain, nx>>
    /\ UNCHANGED <<mem, tail, size, recycling, pool, on, arg, node, tl, hd, fr, kind, time,
                   recycled, unlinked>>

\* Mutant: the node that was reached is freed, not the one that was left.
DeqFree_Next(t) ==
    /\ pc[t] = "d_free"
    /\ pool' = pool \cup {next[hd[t]]}
    /\ Goto(t, "d_size")
    /\ UNCHANGED <<mem, queues, recycling, locals, time, history>>

DeqFree(t) ==
    /\ pc[t] = "d_free"
    /\ pool' = pool \cup {hd[t]}
    /\ Goto(t, "d_size")
    /\ UNCHANGED <<mem, queues, recycling, locals, time, history>>

\* Mutant: the element is taken and not counted.
DeqSize_Forget(t) ==
    /\ pc[t] = "d_size"
    /\ Return(t)
    /\ UNCHANGED <<mem, queues, recycling, pool, history>>

DeqSize(t) ==
    /\ pc[t] = "d_size"
    /\ Resize(on[t], -1)
    /\ Return(t)
    /\ UNCHANGED <<mem, head, tail, recycling, pool, history>>

\* --- __lfq_recycle_free ------------------------------------------------------

RecycleLoad(t) ==
    /\ pc[t] = "r_load"
    /\ fr' = [fr EXCEPT ![t] = move_free[on[t]]]
    /\ Goto(t, "r_link")
    /\ UNCHANGED <<mem, queues, recycling, pool, on, arg, node, tl, hd, nx, val, kind,
                   time, history>>

\* The compare-and-swap on freed->nextfree.
RecycleLink(t) ==
    /\ pc[t] = "r_link"
    /\ \/ /\ nextfree[fr[t]] = Null
          /\ nextfree' = [nextfree EXCEPT ![fr[t]] = hd[t]]
          /\ recycled' = [recycled EXCEPT ![on[t]] = Linked(@, fr[t], hd[t])]
          /\ Goto(t, "r_time")
       \/ /\ nextfree[fr[t]] # Null
          /\ Goto(t, "r_load")
          /\ UNCHANGED <<nextfree, recycled>>
    /\ UNCHANGED <<next, value, queues, recycling, pool, locals, time, delivered, chain,
                   unlinked>>

\* freenode->_deactivate_tm = now, later than any curr_time that was read.
RecycleTime(t) ==
    /\ pc[t] = "r_time"
    /\ age' = [age EXCEPT ![hd[t]] = 0]
    /\ expired' = [expired EXCEPT ![on[t]] = @ \ {hd[t]}]
    /\ Goto(t, "r_move")
    /\ UNCHANGED <<mem, queues, root_free, move_free, in_free_mode, pool, locals, elapsed,
                   history>>

\* Mutant: move_free is left behind.
RecycleMove_Forget(t) ==
    /\ pc[t] = "r_move"
    /\ hd' = [hd EXCEPT ![t] = Null]
    /\ nx' = [nx EXCEPT ![t] = Null]
    /\ fr' = [fr EXCEPT ![t] = Null]
    /\ Goto(t, "c_enter")
    /\ UNCHANGED <<mem, queues, recycling, pool, on, arg, node, tl, val, kind, time,
                   history>>

\* The compare-and-swap on lfqueue->move_free, whose outcome the code ignores.
RecycleMove(t) ==
    /\ pc[t] = "r_move"
    /\ move_free' = IF move_free[on[t]] = fr[t]
                    THEN [move_free EXCEPT ![on[t]] = hd[t]] ELSE move_free
    /\ hd' = [hd EXCEPT ![t] = Null]
    /\ nx' = [nx EXCEPT ![t] = Null]
    /\ fr' = [fr EXCEPT ![t] = Null]
    /\ Goto(t, "c_enter")
    /\ UNCHANGED <<mem, queues, root_free, in_free_mode, expired, pool, on, arg, node, tl,
                   val, kind, time, history>>

\* --- __lfq_check_free --------------------------------------------------------

\* After the check, lfqueue_enq counts its value, lfqueue_deq the value it got.
CheckDone(t) ==
    \/ /\ arg[t] # Null \/ val[t] # Null
       /\ fr' = [fr EXCEPT ![t] = Null]
       /\ Goto(t, IF arg[t] # Null THEN "e_size" ELSE "d_size")
       /\ UNCHANGED <<on, arg, node, tl, hd, nx, val, kind, time>>
    \/ arg[t] = Null /\ val[t] = Null /\ Return(t)

\* The compare-and-swap on in_free_mode, the clock and root_free, which only
\* the thread in free mode writes.
CheckEnter(t) ==
    /\ pc[t] = "c_enter"
    /\ \/ /\ in_free_mode[on[t]]
          /\ CheckDone(t)
          /\ UNCHANGED <<in_free_mode, expired>>
       \/ /\ ~in_free_mode[on[t]]
          /\ in_free_mode' = [in_free_mode EXCEPT ![on[t]] = TRUE]
          /\ expired' = [expired EXCEPT ![on[t]] = {n \in Nodes : age[n] > Grace}]
          /\ fr' = [fr EXCEPT ![t] = root_free[on[t]]]
          /\ Goto(t, "c_step")
          /\ UNCHANGED <<on, arg, node, tl, hd, nx, val, kind, time>>
    /\ UNCHANGED <<mem, queues, root_free, move_free, pool, history>>

\* One turn of the loop: the node fr is freed and its successor looked at, or
\* the loop ends.
FreeNext(t, goOn) ==
    /\ pc[t] = "c_step"
    /\ \/ /\ goOn
          /\ pool' = pool \cup {fr[t]}
          /\ fr' = [fr EXCEPT ![t] = nextfree[fr[t]]]
          /\ recycled' = [recycled EXCEPT ![on[t]] = SubSeq(@, 2, Len(@))]
          /\ UNCHANGED pc
       \/ /\ ~goOn
          /\ Goto(t, "c_exit")
          /\ UNCHANGED <<pool, fr, recycled>>
    /\ UNCHANGED <<mem, queues, recycling, on, arg, node, tl, hd, nx, val, kind, time,
                   delivered, chain, unlinked>>


\* The last node of the list stays, and one that has not waited long enough.
CheckStep(t) ==
    FreeNext(t, fr[t] \notin {Null, move_free[on[t]]} /\ fr[t] \in expired[on[t]])

CheckExit(t) ==
    /\ pc[t] = "c_exit"
    /\ root_free' = [root_free EXCEPT ![on[t]] = fr[t]]
    /\ in_free_mode' = [in_free_mode EXCEPT ![on[t]] = FALSE]
    /\ expired' = [expired EXCEPT ![on[t]] = {}]
    /\ CheckDone(t)
    /\ UNCHANGED <<mem, queues, move_free, pool, history>>

\* --- time --------------------------------------------------------------------

\* A second passes; it makes a difference only to a queue that recycles.
Tick ==
    /\ \E q \in Queues : Recycles(q)
    /\ \A t \in Threads : pc[t] # "idle" => elapsed[t] < MaxCall
    /\ \E n \in Nodes : age[n] <= Grace
    /\ age' = [n \in Nodes |-> IF age[n] <= Grace THEN age[n] + 1 ELSE age[n]]
    /\ elapsed' = [t \in Threads |-> IF pc[t] # "idle" THEN elapsed[t] + 1 ELSE 0]
    /\ UNCHANGED <<mem, queues, recycling, pool, pc, locals, history>>

-----------------------------------------------------------------------------
Call(t) == \E q \in Queues : Dequeue(t, q) \/ \E v \in Values : Enqueue(t, q, v)

SingleStep(t) ==
    \/ EnqInit(t) \/ EnqLoadTail(t) \/ EnqLink(t) \/ EnqSwing(t) \/ EnqSize(t)
    \/ DeqLoadHead(t) \/ DeqLoadNext(t) \/ DeqTestTail(t) \/ DeqValue(t) \/ DeqTake(t)
    \/ DeqFree(t) \/ DeqSize(t)

RecycleStep(t) ==
    \/ RecycleLoad(t) \/ RecycleLink(t) \/ RecycleTime(t) \/ RecycleMove(t)
    \/ CheckEnter(t) \/ CheckStep(t) \/ CheckExit(t)

Step(t) == SingleStep(t) \/ RecycleStep(t)

\* Queues from which values are taken with lfqueue_single_deq alone, as in
\* audio.c: there is nothing to recycle or to wait for.  LFQueueTest has all the
\* steps at work.
Next == \E t \in Threads : Call(t) \/ SingleStep(t)

Spec == Init /\ [][Next]_vars

-----------------------------------------------------------------------------
InChain(q) == Elements(chain[q])
InRecycled(q) == Elements(recycled[q])

\* The nodes thread t holds that no list and no pool holds.
Private(t) ==
    IF pc[t] \in {"e_init", "e_tail", "e_link"} THEN {node[t]}
    ELSE IF pc[t] \in {"d_free", "r_load", "r_link"} THEN {hd[t]} ELSE {}

Swinging(q) == \E t \in Producers[q] : pc[t] = "e_swing" /\ on[t] = q
Moving(q) == \E t \in Consumers[q] : pc[t] \in {"r_time", "r_move"} /\ on[t] = q

\* The nodes of q that may still be looked at: those in a list, and those that
\* have left the chain and are to be recycled.
Live(q) ==
    InChain(q) \cup InRecycled(q)
        \cup {hd[t] : t \in {u \in Threads : on[u] = q /\ pc[u] \in {"r_load", "r_link"}}}

(***************************************************************************)
(* Invariants.                                                             *)
(***************************************************************************)
\* Memory shows the chain: the nodes linked from head are chain[q] and no
\* others, and tail is the last of them, or the one before it while the
\* producer that linked the last has still to move tail (lines 165-167).
ChainInv ==
    \A q \in Queues :
        /\ Len(chain[q]) > 0
        /\ head[q] = chain[q][1]
        /\ \A i \in 1 .. Len(chain[q]) - 1 : next[chain[q][i]] = chain[q][i + 1]
        /\ next[Last(chain[q])] = Null
        /\ IF Swinging(q)
           THEN Len(chain[q]) > 1 /\ tail[q] = chain[q][Len(chain[q]) - 1]
           ELSE tail[q] = Last(chain[q])

\* Memory shows the recycle list in the same way, from the node that is looked
\* at in free mode or else root_free to move_free, which nobody frees; its end
\* is open, so that the next node can be linked (lines 180-207).
RecycleInv ==
    \A q \in Queues :
        /\ Len(recycled[q]) > 0
        /\ \A i \in 1 .. Len(recycled[q]) - 1 :
              nextfree[recycled[q][i]] = recycled[q][i + 1]
        /\ nextfree[Last(recycled[q])] = Null
        /\ IF Moving(q)
           THEN Len(recycled[q]) > 1 /\ move_free[q] = recycled[q][Len(recycled[q]) - 1]
           ELSE move_free[q] = Last(recycled[q])
        /\ IF in_free_mode[q]
           THEN \E t \in Threads :
                   on[t] = q /\ pc[t] \in {"c_step", "c_exit"} /\ fr[t] = recycled[q][1]
           ELSE root_free[q] = recycled[q][1]

\* Every node is in the pool, in one list once, or in the hands of one thread.
NodesConserved ==
    LET Lists == {chain[q] : q \in Queues} \cup {recycled[q] : q \in Queues}
        Linkeds == UNION {Elements(s) : s \in Lists}
        Privates == UNION {Private(t) : t \in Threads}
    IN  /\ \A s \in Lists : \A i, j \in 1 .. Len(s) : s[i] = s[j] => i = j
        /\ \A r, s \in Lists : Elements(r) \cap Elements(s) # {} => r = s
        /\ \A t, u \in Threads : Private(t) \cap Private(u) # {} => t = u
        /\ pool \cap Linkeds = {} /\ pool \cap Privates = {} /\ Linkeds \cap Privates = {}
        /\ pool \cup Linkeds \cup Privates = Nodes

\* The list is what it seems to be, and no node is lost or in two places, whatever
\* the threads have begun and not ended (lines 84-175).
QueueInv == TypeOK /\ ChainInv /\ NodesConserved

\* No thread reads or writes a node that was given back to the pool, nor one
\* that has meanwhile been handed out again or linked into another queue.
NoStaleAccess ==
    \A t \in Threads :
        /\ pc[t] = "e_link" => tl[t] \in Live(on[t])
        /\ pc[t] = "d_next" => hd[t] \in Live(on[t])
        /\ pc[t] = "d_value" => nx[t] \in Live(on[t])
        /\ pc[t] = "r_link" => fr[t] \in InRecycled(on[t])
        /\ pc[t] = "c_step" => fr[t] \in InRecycled(on[t])

\* size counts the elements, give or take the calls that have linked or
\* unlinked one and have still to count it, and one too many for every put whose
\* allocation failed without an errno, which reports success (lines 157, 270-273).
\* No other step makes it drift, whatever two or three threads count at once.
SizeAccounted ==
    \A q \in Queues :
        LET Uncounted == {t \in Threads : on[t] = q /\
                            (pc[t] \in {"e_swing", "e_size"} \/ (pc[t] \in CheckLabels /\ arg[t] # Null))}
            Unlinked == {t \in Threads : on[t] = q /\
                            (pc[t] \in {"d_free", "d_size"} \cup RecycleLabels
                             \/ (pc[t] \in CheckLabels /\ val[t] # Null))}
        IN  size[q] = (Len(chain[q]) - 1 + unlinked[q]
                         - Cardinality(Uncounted) + Cardinality(Unlinked)) % Word

-----------------------------------------------------------------------------
(***************************************************************************)
(* Properties.                                                             *)
(***************************************************************************)
ChannelOf(q) == [i \in 1 .. Len(chain[q]) - 1 |-> value[chain[q][i + 1]]]

Chans == [q \in Queues |-> ChannelOf(q)]

Fifos == INSTANCE Channels WITH chan <- Chans

\* Each queue is a FIFO channel: a value is sent at the compare-and-swap on
\* tail->next and received at the one on head, once and in order.
RefinesChannels == Fifos!Spec
=============================================================================
