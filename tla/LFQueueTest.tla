---------------------------- MODULE LFQueueTest ----------------------------
(***************************************************************************)
(* src/main_lfqueue.c: the tests of lfqueue.c.  The main thread runs one   *)
(* test function after another over the same queue; each starts nthreads   *)
(* workers, takes part itself or not, and waits for them.  A worker puts,  *)
(* takes, or does both by turns, a fixed number of times; where a call     *)
(* comes back with nothing, in the loops of the workers or in the _must    *)
(* variants, it is made again.                                             *)
(***************************************************************************)
EXTENDS LFQueue

CONSTANTS Main, Workers,   \* the threads; nthreads is the number of Workers
          myq,
          Drivers,         \* the test functions that are run
          total_put,
          Rounds           \* bound: test functions run before the end of main

ASSUME TestAssumption ==
    /\ Threads = {Main} \cup Workers /\ Main \notin Workers
    /\ Queues = {myq}
    /\ Producers[myq] = Threads /\ Consumers[myq] = Threads
    /\ total_put \in Nat /\ Rounds \in Nat
    /\ IsFiniteSet(Workers) /\ IsFiniteSet(Nodes)

VARIABLES test,    \* the test function that runs, "none" between two, or "over"
          round,   \* test functions begun
          turn,    \* what a thread does next: "put" or "take"
          left,    \* left[t]: turns of the loop of a worker still to do
          destroyed  \* nodes that lfqueue_destroy has freed, in its order

testVars == <<test, round, turn, left, destroyed>>
lfqVars == <<mem, queues, recycling, pool, pc, locals, time, history>>

nthreads == Cardinality(Workers)

TestTypeOK ==
    /\ test \in Drivers \cup {"none", "over"}
    /\ round \in 0 .. Rounds
    /\ turn \in [Threads -> {"put", "take"}]
    /\ left \in [Threads -> 0 .. nthreads * total_put]
    /\ destroyed \in Seq(Nodes)

TestInit ==
    /\ Init
    /\ test = "none" /\ round = 0
    /\ turn = [t \in Threads |-> "put"]
    /\ left = [t \in Threads |-> 0]
    /\ destroyed = <<>>

Busy == \E t \in Threads : left[t] > 0 \/ pc[t] # "idle"

\* Who puts in a test and who takes: worker_s, worker_c and worker_single_c, or
\* worker_sc.
Puts(d, t) ==
    \/ d = "multi_enq_deq" /\ t \in Workers
    \/ d = "one_deq_and_multi_enq" /\ t \in Workers
    \/ d = "one_enq_and_multi_deq" /\ t = Main

Takes(d, t) ==
    \/ d = "multi_enq_deq" /\ t \in Workers
    \/ d = "one_deq_and_multi_enq" /\ t = Main
    \/ d = "one_enq_and_multi_deq" /\ t \in Workers

\* The argument of a worker: nthreads for main, one_thread for the others.
Load(d, t) ==
    IF ~Puts(d, t) /\ ~Takes(d, t) THEN 0
    ELSE IF t = Main THEN nthreads * total_put ELSE total_put

\* running_test calls a test function, which starts the workers.
StartTest ==
    /\ test = "none" /\ round < Rounds
    /\ \E d \in Drivers :
         /\ test' = d
         /\ left' = [t \in Threads |-> Load(d, t)]
         /\ turn' = [t \in Threads |-> IF Puts(d, t) THEN "put" ELSE "take"]
    /\ round' = round + 1
    /\ UNCHANGED <<lfqVars, destroyed>>

\* worker_single_c is the one consumer of one_deq_and_multi_enq.
Uses(k) == k = IF test = "one_deq_and_multi_enq" THEN "single_deq" ELSE "deq"

\* A worker calls lfqueue_enq or a dequeue.
WorkerCall(t) ==
    /\ left[t] > 0
    /\ \/ turn[t] = "put" /\ \E v \in Values : Enqueue(t, myq, v)
       \/ turn[t] = "take" /\ Dequeue(t, myq) /\ Uses(kind'[t])
    /\ UNCHANGED testVars

\* A worker has put a value or has taken one; one that does both takes now, or
\* has done one turn more.
Turn(t) ==
    IF turn[t] = "put" /\ Takes(test, t)
    THEN turn' = [turn EXCEPT ![t] = "take"] /\ UNCHANGED left
    ELSE /\ left' = [left EXCEPT ![t] = @ - 1]
         /\ turn' = [turn EXCEPT ![t] = IF Puts(test, t) THEN "put" ELSE "take"]

WorkerStep(t) ==
    /\ Step(t)
    /\ IF pc[t] \in {"e_size", "d_size"} THEN Turn(t) ELSE UNCHANGED <<turn, left>>
    /\ UNCHANGED <<test, round, destroyed>>

\* The workers have been joined, or have all said that they exit.
EndTest ==
    /\ test \in Drivers /\ ~Busy
    /\ test' = "none"
    /\ UNCHANGED <<lfqVars, round, turn, left, destroyed>>

\* The recycle list in memory, from the node n to the end of the loop of line
\* 254: move_free, or a null pointer.
ListFrom(first, last) ==
    LET Walk[i \in 0 .. Cardinality(Nodes)] ==
            IF i = 0 THEN <<first>>
            ELSE LET s == Walk[i - 1]
                 IN  IF Last(s) = last \/ nextfree[Last(s)] = Null THEN s
                     ELSE Append(s, nextfree[Last(s)])
    IN  Walk[Cardinality(Nodes)]

\* Mutant: the loop ends at move_free, and nobody frees that.
Destroyed_KeepLast(q) ==
    LET list == ListFrom(root_free[q], move_free[q])
    IN  SubSeq(list, 1, Len(list) - 1) \o <<tail[q]>>

\* lfqueue_destroy of an empty queue: its lfqueue_deq finds nothing.
Destroyed(q) == ListFrom(root_free[q], move_free[q]) \o <<tail[q]>>

\* main ends.
Destroy ==
    /\ test = "none" /\ round = Rounds
    /\ destroyed' = Destroyed(myq)
    /\ size' = [size EXCEPT ![myq] = 0]
    /\ test' = "over"
    /\ UNCHANGED <<mem, head, tail, recycling, pool, pc, locals, time, history, round, turn,
                   left>>

TestNext ==
    \/ StartTest \/ EndTest \/ Destroy
    \/ \E t \in Threads : WorkerCall(t) \/ WorkerStep(t)
    \/ Tick /\ test # "over" /\ UNCHANGED testVars

\* Threads run and make their calls, and time passes whatever they do.
TestSpec ==
    /\ TestInit /\ [][TestNext]_<<vars, testVars>>
    /\ WF_<<vars, testVars>>(StartTest \/ EndTest \/ Destroy)
    /\ \A t \in Threads :
         WF_<<vars, testVars>>(WorkerCall(t)) /\ WF_<<vars, testVars>>(WorkerStep(t))
    /\ SF_<<vars, testVars>>(Tick /\ test # "over" /\ UNCHANGED testVars)

-----------------------------------------------------------------------------
(* Properties. *)

\* "Error, all queue should be consumed but not" (main_lfqueue.c:289): between
\* two tests the queue is empty and size says so.
AllConsumed == test = "none" => size[myq] = 0 /\ Len(chain[myq]) = 1

\* While both dequeues and the grace period are at work the recycle list stays
\* whole, and at the end of a test the queue is empty (lfqueue.c:177-207).
TestInv == TestTypeOK /\ RecycleInv /\ AllConsumed

\* "Test Pass!" (main_lfqueue.c:312): every test function returns, and so does
\* main.
TestsEnd == <>(test = "over")

\* lfqueue_destroy frees every node that is not in the pool, and none twice
\* (lines 252-263).
DestroyComplete ==
    test = "over" =>
        /\ Elements(destroyed) = Nodes \ pool
        /\ Len(destroyed) = Cardinality(Elements(destroyed))
=============================================================================
