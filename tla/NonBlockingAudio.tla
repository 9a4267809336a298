-------------------------- MODULE NonBlockingAudio --------------------------
(***************************************************************************)
(* src/main_nonblocking_audio.c, the program in which the scheme of the    *)
(* audio engine was tried out: a thread that makes frames, the PortAudio   *)
(* callback, and a thread that consumes frames, over one pool of buffers,  *)
(* one pool of nodes and two queues.  Nothing is ever stopped here, and    *)
(* nobody looks at what an enqueue returns.                                *)
(*                                                                         *)
(* The queues are the channels that LFQueue.tla implements, with the nodes *)
(* counted.  The pools are rings of lfringbuffer.c, which may refuse what  *)
(* is put back and may hand out nothing although they are not empty, when  *)
(* another call is under way; here they may always do so.                  *)
(***************************************************************************)
EXTENDS Naturals, Sequences, FiniteSets

CONSTANTS FreeBuffers,   \* the buffers, 300 in the code
          FREE_NODES,    \* nodes, 300 in the code; each queue keeps one of them
          totalSilence,  \* the constant frame
          NoBuffer       \* NULL

ASSUME DemoAssumption ==
    /\ IsFiniteSet(FreeBuffers) /\ totalSilence \notin FreeBuffers
    /\ FREE_NODES \in Nat /\ FREE_NODES > 2
    /\ NoBuffer \notin FreeBuffers \cup {totalSilence}

VARIABLES freeBuffers,        \* the pool of buffers
          lfQueueNodePool,    \* the number of nodes in the other pool
          recvBufferQueue, sendBufferQueue,
          demo,               \* how far main is: "fill", "stream", "send"
          recvBuffer,         \* what fillRecvBuffer holds
          cbpc,               \* the step of rwAudio
          played, recorded,   \* what rwAudio holds
          sendBuffer,         \* what flushSendBuffer holds
          dropped             \* history: buffers that no thread will find again

queues == <<recvBufferQueue, sendBufferQueue, lfQueueNodePool>>
callback == <<cbpc, played, recorded>>
demoVars == <<freeBuffers, queues, demo, recvBuffer, callback, sendBuffer, dropped>>

AnyBuffer == FreeBuffers \cup {totalSilence}
Held == AnyBuffer \cup {NoBuffer}

DemoTypeOK ==
    /\ freeBuffers \subseteq AnyBuffer /\ dropped \subseteq FreeBuffers
    /\ recvBufferQueue \in Seq(AnyBuffer) /\ sendBufferQueue \in Seq(AnyBuffer)
    /\ lfQueueNodePool \in 0 .. FREE_NODES - 2
    /\ Len(recvBufferQueue) + Len(sendBufferQueue) + lfQueueNodePool <= FREE_NODES - 2
    /\ demo \in {"fill", "stream", "send"}
    /\ cbpc \in {"play", "give", "take", "enqueue"}
    /\ recvBuffer \in Held /\ played \in Held /\ recorded \in Held /\ sendBuffer \in Held

DemoInit ==
    /\ freeBuffers = FreeBuffers /\ dropped = {}
    /\ lfQueueNodePool = FREE_NODES - 2
    /\ recvBufferQueue = <<>> /\ sendBufferQueue = <<>>
    /\ demo = "fill"
    /\ recvBuffer = NoBuffer /\ played = NoBuffer
    /\ recorded = NoBuffer /\ sendBuffer = NoBuffer
    /\ cbpc = "play"

-----------------------------------------------------------------------------
\* lfqueue_enq takes a node, or finds none; single_deq gives one back, or loses
\* it.
GetsNode(got) ==
    /\ got => lfQueueNodePool > 0
    /\ lfQueueNodePool' = IF got THEN lfQueueNodePool - 1 ELSE lfQueueNodePool

FreesNode == lfQueueNodePool' \in {lfQueueNodePool, lfQueueNodePool + 1}

\* What neither a queue nor a pool has taken is nowhere.
DropUnless(kept, b) ==
    dropped' = IF kept \/ b = totalSilence THEN dropped ELSE dropped \cup {b}

\* RingBuffer_enqueue(freeBuffers, b).
GiveBack(b) ==
    \E taken \in BOOLEAN :
        /\ freeBuffers' = IF taken THEN freeBuffers \cup {b} ELSE freeBuffers
        /\ DropUnless(taken, b)

\* main: the stream and the sending thread are started.
StartStream ==
    /\ demo = "fill" /\ demo' = "stream"
    /\ UNCHANGED <<freeBuffers, queues, recvBuffer, callback, sendBuffer, dropped>>

StartSend ==
    /\ demo = "stream" /\ demo' = "send"
    /\ UNCHANGED <<freeBuffers, queues, recvBuffer, callback, sendBuffer, dropped>>

\* fillRecvBuffer: without a buffer it tries again.
MakeFrame ==
    /\ recvBuffer = NoBuffer
    /\ recvBuffer' \in freeBuffers /\ freeBuffers' = freeBuffers \ {recvBuffer'}
    /\ UNCHANGED <<queues, demo, callback, sendBuffer, dropped>>

QueueFrame ==
    /\ recvBuffer # NoBuffer
    /\ \E got \in BOOLEAN :
         /\ GetsNode(got)
         /\ recvBufferQueue' = IF got THEN Append(recvBufferQueue, recvBuffer) ELSE recvBufferQueue
         /\ DropUnless(got, recvBuffer)
    /\ recvBuffer' = NoBuffer
    /\ UNCHANGED <<freeBuffers, sendBufferQueue, demo, callback, sendBuffer>>

\* rwAudio, up to the copy into the output.
Play ==
    /\ demo # "fill" /\ cbpc = "play"
    /\ IF recvBufferQueue = <<>>
       THEN cbpc' = "take" /\ UNCHANGED <<played, recvBufferQueue, lfQueueNodePool>>
       ELSE /\ FreesNode
            /\ played' = Head(recvBufferQueue) /\ recvBufferQueue' = Tail(recvBufferQueue)
            /\ cbpc' = "give"
    /\ UNCHANGED <<freeBuffers, sendBufferQueue, demo, recvBuffer, recorded, sendBuffer, dropped>>

GivePlayed ==
    /\ cbpc = "give"
    /\ GiveBack(played)
    /\ played' = NoBuffer /\ cbpc' = "take"
    /\ UNCHANGED <<queues, demo, recvBuffer, recorded, sendBuffer>>

\* A buffer for the input, or the constant if the pool is empty.
TakeBuffer ==
    /\ cbpc = "take"
    /\ recorded' \in freeBuffers \cup {totalSilence}
    /\ freeBuffers' = freeBuffers \ {recorded'}
    /\ cbpc' = "enqueue"
    /\ UNCHANGED <<queues, demo, recvBuffer, played, sendBuffer, dropped>>

QueueRecorded ==
    /\ cbpc = "enqueue"
    /\ \E got \in BOOLEAN :
         /\ GetsNode(got)
         /\ sendBufferQueue' = IF got THEN Append(sendBufferQueue, recorded) ELSE sendBufferQueue
         /\ DropUnless(got, recorded)
    /\ recorded' = NoBuffer /\ cbpc' = "play"
    /\ UNCHANGED <<freeBuffers, recvBufferQueue, demo, recvBuffer, played, sendBuffer>>

\* Mutant: the buffer goes back before it has been written.
TakeRecorded_Early ==
    /\ demo = "send" /\ sendBuffer = NoBuffer
    /\ sendBufferQueue # <<>> /\ FreesNode
    /\ sendBuffer' = Head(sendBufferQueue) /\ sendBufferQueue' = Tail(sendBufferQueue)
    /\ freeBuffers' = freeBuffers \cup ({sendBuffer'} \ {totalSilence})
    /\ UNCHANGED <<recvBufferQueue, demo, recvBuffer, callback, dropped>>

\* flushSendBuffer.
TakeRecorded ==
    /\ demo = "send" /\ sendBuffer = NoBuffer
    /\ sendBufferQueue # <<>> /\ FreesNode
    /\ sendBuffer' = Head(sendBufferQueue) /\ sendBufferQueue' = Tail(sendBufferQueue)
    /\ UNCHANGED <<freeBuffers, recvBufferQueue, demo, recvBuffer, callback, dropped>>

WriteFrame ==
    /\ sendBuffer # NoBuffer
    /\ IF sendBuffer = totalSilence
       THEN UNCHANGED <<freeBuffers, dropped>>
       ELSE GiveBack(sendBuffer)
    /\ sendBuffer' = NoBuffer
    /\ UNCHANGED <<queues, demo, recvBuffer, callback>>

DemoNext ==
    \/ StartStream \/ StartSend
    \/ MakeFrame \/ QueueFrame
    \/ Play \/ GivePlayed \/ TakeBuffer \/ QueueRecorded
    \/ TakeRecorded \/ WriteFrame

DemoSpec == DemoInit /\ [][DemoNext]_demoVars

-----------------------------------------------------------------------------
(* Properties. *)

\* The places a buffer b is in.
Places(b) ==
    {<<place, 0>> : place \in
        UNION {IF b \in freeBuffers THEN {"pool"} ELSE {},
               IF b \in dropped THEN {"dropped"} ELSE {},
               IF b = recvBuffer THEN {"filled"} ELSE {},
               IF b = played THEN {"played"} ELSE {},
               IF b = recorded THEN {"recorded"} ELSE {},
               IF b = sendBuffer THEN {"written"} ELSE {}}}
    \cup {<<"recv", k>> : k \in {i \in DOMAIN recvBufferQueue : recvBufferQueue[i] = b}}
    \cup {<<"send", k>> : k \in {i \in DOMAIN sendBufferQueue : sendBufferQueue[i] = b}}

\* Every buffer is in one place, so no two of the three threads write to it or
\* read it at once, whatever the pools and the queues refuse
\* (main_nonblocking_audio.c:237-255, 284-296, 333-351).
EachInOnePlace == \A b \in FreeBuffers : Cardinality(Places(b)) = 1

\* "In this edge case send silence" (line 341): the constant, which all threads
\* share, never becomes a buffer somebody writes to.
SilenceStaysOut ==
    totalSilence \notin freeBuffers \cup {recvBuffer, played}
        /\ \A k \in DOMAIN recvBufferQueue : recvBufferQueue[k] # totalSilence

\* Both hold at once, though no result of an enqueue is looked at.
DemoInv == EachInOnePlace /\ SilenceStaysOut
=============================================================================
