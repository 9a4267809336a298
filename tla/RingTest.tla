------------------------------ MODULE RingTest ------------------------------
(***************************************************************************)
(* testMultiThreaded of src/main_lfringbuffer.c: producers put numbers     *)
(* into one ring, each its own residue class, until one has reached        *)
(* MAX_NUMBER; consumers take numbers until they get such a one, and main  *)
(* joins the consumers.  Of the ring its promise is used, the bounded FIFO *)
(* that LFRingBuffer.tla implements.  A call that is refused, or finds     *)
(* nothing, is made again.                                                 *)
(***************************************************************************)
EXTENDS Naturals, Sequences, FiniteSets

CONSTANTS maxThreads,   \* producers, 7 in the code
          ConsumerIds,  \* consumers, 5 in the code
          MAX_NUMBER,   \* 40000 in the code
          RingSize      \* 1024 in the code

ASSUME RingTestAssumption ==
    /\ maxThreads \in Nat \ {0} /\ MAX_NUMBER \in Nat \ {0} /\ RingSize \in Nat \ {0}
    /\ IsFiniteSet(ConsumerIds) /\ Cardinality(ConsumerIds) <= maxThreads

VARIABLES numbers,         \* in the ring, oldest first
          number,          \* number[p]: what producer p puts next
          producing,       \* producers that have not exited
          consuming,       \* consumers that have not exited
          lastNumberSeen,  \* of each consumer, 0 at first
          violation        \* a consumer has printed "Found violation"

ringTestVars == <<numbers, number, producing, consuming, lastNumberSeen, violation>>

ProducerIds == 1 .. maxThreads

RingTestTypeOK ==
    /\ numbers \in Seq(1 .. MAX_NUMBER + maxThreads) /\ Len(numbers) <= RingSize
    /\ number \in [ProducerIds -> 1 .. MAX_NUMBER + maxThreads]
    /\ producing \subseteq ProducerIds /\ consuming \subseteq ConsumerIds
    /\ lastNumberSeen \in [ConsumerIds -> 0 .. MAX_NUMBER]
    /\ violation \in BOOLEAN

RingTestInit ==
    /\ numbers = <<>>
    /\ number = [p \in ProducerIds |-> p]
    /\ producing = ProducerIds /\ consuming = ConsumerIds
    /\ lastNumberSeen = [c \in ConsumerIds |-> 0]
    /\ violation = FALSE

\* Mutant: the next number of all.
Producer_ByOne(p) ==
    /\ p \in producing /\ Len(numbers) < RingSize
    /\ numbers' = Append(numbers, number[p])
    /\ IF number[p] >= MAX_NUMBER
       THEN producing' = producing \ {p} /\ UNCHANGED number
       ELSE number' = [number EXCEPT ![p] = @ + 1] /\ UNCHANGED producing
    /\ UNCHANGED <<consuming, lastNumberSeen, violation>>

\* Mutant: the end is tested for before the number is put.
Producer_Early(p) ==
    /\ p \in producing /\ Len(numbers) < RingSize
    /\ IF number[p] >= MAX_NUMBER
       THEN producing' = producing \ {p} /\ UNCHANGED <<number, numbers>>
       ELSE /\ numbers' = Append(numbers, number[p])
            /\ number' = [number EXCEPT ![p] = @ + maxThreads] /\ UNCHANGED producing
    /\ UNCHANGED <<consuming, lastNumberSeen, violation>>

Producer(p) ==
    /\ p \in producing /\ Len(numbers) < RingSize
    /\ numbers' = Append(numbers, number[p])
    /\ IF number[p] >= MAX_NUMBER
       THEN producing' = producing \ {p} /\ UNCHANGED number
       ELSE number' = [number EXCEPT ![p] = @ + maxThreads] /\ UNCHANGED producing
    /\ UNCHANGED <<consuming, lastNumberSeen, violation>>

Consumer(c) ==
    /\ c \in consuming /\ numbers # <<>>
    /\ LET n == Head(numbers)
       IN  /\ numbers' = Tail(numbers)
           /\ IF n >= MAX_NUMBER \/ n = lastNumberSeen[c]
              THEN consuming' = consuming \ {c} /\ UNCHANGED lastNumberSeen
              ELSE lastNumberSeen' = [lastNumberSeen EXCEPT ![c] = n] /\ UNCHANGED consuming
           /\ violation' = (violation \/ (n < MAX_NUMBER /\ n = lastNumberSeen[c]))
    /\ UNCHANGED <<number, producing>>

RingTestNext ==
    \/ \E p \in ProducerIds : Producer(p)
    \/ \E c \in ConsumerIds : Consumer(c)

\* Some thread that can go on does: that is enough, for each does a bounded
\* number of things.
RingTestFairness == WF_ringTestVars(RingTestNext)

RingTestSpec == RingTestInit /\ [][RingTestNext]_ringTestVars /\ RingTestFairness

-----------------------------------------------------------------------------
(* Properties. *)

\* No consumer gets a number twice in a row, whoever put it
\* (main_lfringbuffer.c:63-67).
NoViolationFound == ~violation

\* Once a number has been put, every consumer comes to one that ends it, so
\* main's joins return: there are at least as many producers, each of which puts
\* one such number (main_lfringbuffer.c:34, 58, 103-106).
ConsumersExit == numbers # <<>> ~> consuming = {}
=============================================================================
