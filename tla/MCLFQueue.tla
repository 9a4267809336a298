----------------------------- MODULE MCLFQueue -----------------------------
(* The queues of audio.c, for TLC. *)
EXTENDS LFQueue, TLC

CONSTANTS play, record,             \* the queues
          fill, callback, flush,    \* the threads that use them
          n1, n2, n3, n4, n5, n6,   \* nodes
          a, b                      \* values

\* fillPlaybackQueue produces for streamCallback, which produces for
\* flushRecordQueue.
AudioQueues == {play, record}
AudioThreads == {fill, callback, flush}
AudioProducers == (play :> {fill}) @@ (record :> {callback})
AudioConsumers == (play :> {callback}) @@ (record :> {flush})
AudioDeqs == (play :> {"single_deq"}) @@ (record :> {"single_deq"})
AudioBase == (play :> n1) @@ (record :> n2)
AudioFreeBase == (play :> n5) @@ (record :> n6)
AudioNodes == {n1, n2, n3, n4, n5, n6}
TwoValues == {a, b}

\* The ring from which audio.c allocates sets no errno when it is empty: it is
\* what an earlier call left, or zero.
AnyErrno == {0, 12}
OneUnlinked == (play :> 1) @@ (record :> 1)

\* Values differ in nothing, nor do the nodes that make the round: Init alone
\* says which of them is first, and the properties do not.
DataSymmetry == Permutations({n1, n2, n3, n4}) \cup Permutations({a, b})
=============================================================================
