--------------------------- MODULE MCLFQueueTest ---------------------------
(* The tests of lfqueue.c with one worker and with two, for TLC. *)
EXTENDS LFQueueTest, TLC

CONSTANTS main, w1, w2, queue, n1, n2, n3, n4, n5, a

OneWorker == {w1}
TwoThreads == {main, w1}
TwoWorkers == {w1, w2}
ThreeThreads == {main, w1, w2}
TheQueue == {queue}
Both == (queue :> TwoThreads)
Everyone == (queue :> ThreeThreads)
BothDeqs == (queue :> {"single_deq", "deq"})
FirstNode == (queue :> n1)
SecondNode == (queue :> n2)
FiveNodes == {n1, n2, n3, n4, n5}
TheValue == {a}

\* malloc, which the tests use, leaves ENOMEM.
OutOfMemory == {12}
NoUnlinked == (queue :> 0)

\* The test functions of a run.
AllDrivers == {"one_enq_and_multi_deq", "one_deq_and_multi_enq", "multi_enq_deq"}
MultiEnqDeq == {"multi_enq_deq"}
=============================================================================
