--------------------------- MODULE MCLFRingBuffer ---------------------------
(* Small instances of LFRingBuffer for TLC. *)
EXTENDS LFRingBuffer, TLC

CONSTANTS t1, t2, t3,  \* threads
          a, b         \* pool items

TwoThreads == {t1, t2}
ThreeThreads == {t1, t2, t3}
TwoItems == <<a, b>>
=============================================================================
