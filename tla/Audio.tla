------------------------------- MODULE Audio -------------------------------
(***************************************************************************)
(* src/audio.c: the engine that moves frame buffers between the network    *)
(* threads (fill, flush), the PortAudio callback and the pool, and the     *)
(* Audio_start / Audio_stop / Audio_teardown calls that run it.            *)
(*                                                                         *)
(* The queues and the pool are atomic here: LFQueue and LFRingBuffer are   *)
(* shown to implement FIFOs whose operations take effect at one step.      *)
(* Their blemishes remain visible.  While several threads are at work a    *)
(* ring, of buffers or of nodes, may look empty or full when it is not, so *)
(* that a buffer is not found, or not taken back, or not queued, and the   *)
(* process exits when it is a node that is not taken back.  lfqueue_enq    *)
(* may report success when it has found no node.                           *)
(*                                                                         *)
(* Outside the module: the network, which decides when the producer and    *)
(* the consumer callbacks return and with what, and PortAudio, which calls *)
(* streamCallback one call at a time while the stream runs.                *)
(***************************************************************************)
EXTENDS Integers, Sequences, FiniteSets

CONSTANTS Controllers,   \* threads that call the Audio_ functions
          Starters,      \* those that call Audio_start
          Stoppers,      \* those that call Audio_stop
          Closers,       \* those that call Audio_stop, then Audio_teardown
          Buffers,       \* the FREE_BUFFERS frame buffers
          Silence,       \* totalSilence, a constant array
          None,          \* no buffer, no thread
          MinPlayback,   \* MIN_PLAYBACK_QUEUE_LENGTH
          QueueNodes,    \* nodes for queue elements: FREE_NODES less four
          ProducerMay,   \* results the producer callback may return
          ConsumerMay,   \* results the consumer callback may return
          Failing,       \* PortAudio calls that may fail
          Contended,     \* whether a ring may look empty or full when it is not
          Reported,      \* whether a failed lfqueue_enq may return -1, or 0
          InitEarly,     \* whether Audio_init has run before all else
          Backlog,       \* bound: silent frames waiting in recQ
          Sessions       \* bound: number of calls of Audio_start

ASSUME RolesAssumption ==
    /\ Starters \cup Stoppers \cup Closers \subseteq Controllers
    /\ Contended \in BOOLEAN /\ InitEarly \in BOOLEAN
    /\ Reported \subseteq BOOLEAN /\ Reported # {}
ASSUME BuffersAssumption ==
    /\ IsFiniteSet(Buffers) /\ Silence \notin Buffers /\ None \notin Buffers
    /\ Silence # None
ASSUME LimitsAssumption ==
    /\ {MinPlayback, QueueNodes, Backlog, Sessions} \subseteq Nat
ASSUME OutcomesAssumption ==
    /\ ProducerMay \subseteq {"AUDIO_CONTINUE", "AUDIO_STOP"}
    /\ ConsumerMay \subseteq {"AUDIO_CONTINUE", "AUDIO_STOP"}
    /\ Failing \subseteq {"open", "start", "close"}

VARIABLES initialized, started, stopPlayback, stopRecording,
          callbackData,         \* whether it is set, that is, not NULL
          freeBuffers,          \* the pool, oldest first
          playQ, recQ,          \* playbackBufferQueue and recordBufferQueue
          lost,                 \* history: buffers a ring or a queue did not take
          counted,              \* those of them that the size of playQ counts
          stream,               \* the PortAudio stream
          fillPc, fillBuf,      \* the fill threads: next step, buffer in hand
          flushPc, flushBuf,    \* the flush threads, likewise
          cbPc, cbBuf,          \* streamCallback, likewise
          fillPlaybackQueueThread, flushRecordQueueThread,  \* pthread_t handles
          ctl,                  \* ctl[c]: the step controller c is about to do
          result,               \* result[c]: what c's last call returned
          sessions,             \* calls of Audio_start so far
          dead                  \* the process is gone: exit(1) or a fatal signal

flags == <<initialized, started, stopPlayback, stopRecording, callbackData>>
losses == <<lost, counted>>
store == <<freeBuffers, playQ, recQ, losses>>
fills == <<fillPc, fillBuf>>
flushes == <<flushPc, flushBuf>>
callback == <<cbPc, cbBuf>>
handles == <<fillPlaybackQueueThread, flushRecordQueueThread>>
control == <<ctl, result, sessions>>
vars == <<flags, store, stream, fills, flushes, callback, handles, control, dead>>

Frames == Buffers \cup {Silence}

\* The threads of each kind, numbered as they are created; 0 is no thread.
FillIds == 1 .. Sessions
FlushIds == 1 .. Sessions
Created(threads) == Cardinality({i \in DOMAIN threads : threads[i] # "none"})

Results == {"AUDIO_OK", "AUDIO_NOT_INITIALIZED", "AUDIO_OPEN_STREAM_FAIL",
            "AUDIO_START_STREAM_FAIL", "AUDIO_CLOSE_STREAM_FAIL",
            "AUDIO_ALREADY_STARTED", "AUDIO_ALREADY_STOPPED"}

StartSteps == {"s_test", "s_flags", "s_init", "s_open", "s_fill", "s_wait",
               "s_run", "s_close", "s_flush", "s_done"}
StopSteps == {"t_test", "t_joinFill", "t_joinFlush", "t_close", "t_closing",
              "t_clear", "t_done", "t_null"}

TypeOK ==
    /\ {initialized, started, stopPlayback, stopRecording, callbackData, dead} \subseteq BOOLEAN
    /\ freeBuffers \in Seq(Frames) /\ playQ \in Seq(Frames) /\ recQ \in Seq(Frames)
    /\ lost \in SUBSET Buffers /\ counted \in SUBSET lost
    /\ stream \in {"closed", "open", "running"}
    /\ fillPc \in [FillIds -> {"none", "loop", "produce", "alloc", "enq", "ended",
                              "joined"}]
    /\ fillBuf \in [FillIds -> Frames \cup {None}]
    /\ flushPc \in [FlushIds -> {"none", "loop", "take", "consume", "give", "last", "ended",
                                "joined"}]
    /\ flushBuf \in [FlushIds -> Frames \cup {None}]
    /\ cbPc \in {"idle", "return", "alloc", "enq"}
    /\ cbBuf \in Frames \cup {None}
    /\ fillPlaybackQueueThread \in {0} \cup FillIds
    /\ flushRecordQueueThread \in {0} \cup FlushIds
    /\ ctl \in [Controllers -> {"idle", "teardown", "gone"} \cup StartSteps \cup StopSteps]
    /\ result \in [Controllers -> Results \cup {None}]
    /\ sessions \in 0 .. Sessions

\* initFreeBuffers: the pool holds every buffer once, in some order.
FullPools == {s \in [1 .. Cardinality(Buffers) -> Buffers] :
                  \A b \in Buffers : \E i \in DOMAIN s : s[i] = b}

Init ==
    /\ initialized = InitEarly /\ started = FALSE
    /\ stopPlayback = FALSE /\ stopRecording = FALSE /\ callbackData = FALSE
    /\ freeBuffers \in IF InitEarly THEN FullPools ELSE {<<>>}
    /\ playQ = <<>> /\ recQ = <<>>
    /\ lost = {} /\ counted = {}
    /\ stream = "closed"
    /\ fillPc = [f \in FillIds |-> "none"] /\ fillBuf = [f \in FillIds |-> None]
    /\ flushPc = [g \in FlushIds |-> "none"] /\ flushBuf = [g \in FlushIds |-> None]
    /\ cbPc = "idle" /\ cbBuf = None
    /\ fillPlaybackQueueThread = 0 /\ flushRecordQueueThread = 0
    /\ ctl = [c \in Controllers |-> "idle"]
    /\ result = [c \in Controllers |-> None]
    /\ sessions = 0
    /\ dead = FALSE

-----------------------------------------------------------------------------
(* The pool and the queues. *)

AtRest(pc) == pc \in {"none", "ended", "joined"}

\* The threads that may be inside a ring.
AtWork ==
    {<<"fill", f>> : f \in {i \in FillIds : ~AtRest(fillPc[i])}}
    \cup {<<"flush", g>> : g \in {i \in FlushIds : ~AtRest(flushPc[i])}}
    \cup {<<"clear", c>> : c \in {d \in Controllers : ctl[d] = "t_clear"}}
    \cup (IF stream = "running" \/ cbPc # "idle" THEN {<<"callback", 0>>} ELSE {})

\* RingBuffer_enqueue and _dequeue load one pointer before the other: a thread
\* that is not alone may find the ring full, or empty, when it is not.
Crowded == Contended /\ Cardinality(AtWork) > 1

\* RingBuffer_dequeue(freeBuffers) may return NULL.
PoolNull == freeBuffers = <<>> \/ Crowded

\* RingBuffer_enqueue(freeBuffers, b) may refuse.
PoolFull == Len(freeBuffers) >= Cardinality(Buffers) \/ Crowded

\* No caller looks whether it did: then nobody has b any more.
PutBack(b) ==
    /\ \/ /\ Len(freeBuffers) < Cardinality(Buffers)
          /\ freeBuffers' = Append(freeBuffers, b) /\ UNCHANGED lost
       \/ /\ PoolFull
          /\ lost' = lost \cup ({b} \cap Buffers) /\ UNCHANGED freeBuffers
    /\ UNCHANGED counted

\* bufferMalloc, in lfqueue_enq, may find a node, or may find none.
NodeFree == Len(playQ) + Len(recQ) < QueueNodes
NodeNull == ~NodeFree \/ Crowded

\* bufferFree, in lfqueue_single_deq, exits if the ring does not take the node.
NodePutBack == dead' \in {FALSE, Crowded}

-----------------------------------------------------------------------------
(* fillPlaybackQueue. *)

FillAt(f, step) == ~dead /\ fillPc[f] = step

\* Line 450: stopPlayback is read once per round.
FillLoop(f) ==
    /\ FillAt(f, "loop")
    /\ fillPc' = [fillPc EXCEPT ![f] = IF stopPlayback THEN "ended" ELSE "produce"]
    /\ UNCHANGED <<flags, store, stream, fillBuf, flushes, callback, handles, control, dead>>

\* Lines 451-457: produceBuffer returns.
FillProduce(f) ==
    /\ FillAt(f, "produce")
    /\ \E r \in ProducerMay :
         fillPc' = [fillPc EXCEPT ![f] = IF r = "AUDIO_STOP" THEN "ended" ELSE "alloc"]
    /\ UNCHANGED <<flags, store, stream, fillBuf, flushes, callback, handles, control, dead>>

\* Lines 459-467: no free buffer, and the frame is dropped.
FillDrop(f) ==
    /\ FillAt(f, "alloc") /\ PoolNull
    /\ fillPc' = [fillPc EXCEPT ![f] = "loop"]
    /\ UNCHANGED <<flags, store, stream, fillBuf, flushes, callback, handles, control, dead>>

\* Lines 459, 473: a buffer is taken and written.  totalSilence is const:
\* writing it kills the process.
FillAlloc(f) ==
    /\ FillAt(f, "alloc") /\ freeBuffers # <<>>
    /\ fillBuf' = [fillBuf EXCEPT ![f] = Head(freeBuffers)]
    /\ freeBuffers' = Tail(freeBuffers)
    /\ dead' = (Head(freeBuffers) = Silence)
    /\ fillPc' = [fillPc EXCEPT ![f] = "enq"]
    /\ UNCHANGED <<flags, playQ, recQ, losses, stream, flushes, callback, handles, control>>

\* Line 475: nobody looks at the result of lfqueue_enq.  Without a node the
\* buffer is lost, and the size of the queue counts it unless -1 is returned.
FillEnq(f) ==
    /\ FillAt(f, "enq")
    /\ \/ NodeFree /\ playQ' = Append(playQ, fillBuf[f]) /\ UNCHANGED losses
       \/ /\ NodeNull /\ UNCHANGED playQ
          /\ lost' = lost \cup {fillBuf[f]}
          /\ \/ TRUE \in Reported /\ UNCHANGED counted
             \/ FALSE \in Reported /\ counted' = counted \cup {fillBuf[f]}
    /\ fillBuf' = [fillBuf EXCEPT ![f] = None]
    /\ fillPc' = [fillPc EXCEPT ![f] = "loop"]
    /\ UNCHANGED <<flags, freeBuffers, recQ, stream, flushes, callback, handles, control, dead>>

-----------------------------------------------------------------------------
(* streamCallback, called one call at a time while the stream runs. *)

CbAt(step) == ~dead /\ cbPc = step

\* The bound on silent frames in recQ is met before a call, never inside one.
SilencesWaiting == Cardinality({i \in DOMAIN recQ : recQ[i] = Silence})

\* Lines 396-410: a frame to play, or silence when there is none.
CbPlay ==
    /\ CbAt("idle") /\ stream = "running" /\ SilencesWaiting < Backlog
    /\ IF playQ = <<>>
         THEN cbPc' = "alloc" /\ UNCHANGED <<cbBuf, playQ, dead>>
         ELSE /\ cbPc' = "return" /\ cbBuf' = Head(playQ) /\ playQ' = Tail(playQ)
              /\ NodePutBack
    /\ UNCHANGED <<flags, freeBuffers, recQ, losses, stream, fills, flushes, handles, control>>

\* Line 413: the played buffer goes back.
CbReturn ==
    /\ CbAt("return")
    /\ PutBack(cbBuf)
    /\ cbBuf' = None
    /\ cbPc' = "alloc"
    /\ UNCHANGED <<flags, playQ, recQ, stream, fills, flushes, handles, control, dead>>

\* Lines 419, 424-427: a buffer for the recorded frame.
CbAlloc ==
    /\ CbAt("alloc") /\ freeBuffers # <<>>
    /\ cbBuf' = Head(freeBuffers)
    /\ freeBuffers' = Tail(freeBuffers)
    /\ dead' = (Head(freeBuffers) = Silence)
    /\ cbPc' = "enq"
    /\ UNCHANGED <<flags, playQ, recQ, losses, stream, fills, flushes, handles, control>>

\* Lines 430-434: no buffer, so the frame is lost and silence stands for it.
CbSilence ==
    /\ CbAt("alloc") /\ PoolNull
    /\ cbBuf' = Silence
    /\ cbPc' = "enq"
    /\ UNCHANGED <<flags, store, stream, fills, flushes, handles, control, dead>>

\* Lines 429-441: the frame is queued; a failure that is reported is fatal.
CbEnq ==
    /\ CbAt("enq")
    /\ \/ NodeFree /\ recQ' = Append(recQ, cbBuf) /\ UNCHANGED <<lost, dead>>
       \/ /\ NodeNull /\ UNCHANGED recQ
          /\ lost' = lost \cup ({cbBuf} \cap Buffers) /\ dead' \in Reported
    /\ cbBuf' = None
    /\ cbPc' = "idle"
    /\ UNCHANGED <<flags, freeBuffers, playQ, counted, stream, fills, flushes, handles,
                   control>>

-----------------------------------------------------------------------------
(* flushRecordQueue. *)

FlushAt(g, step) == ~dead /\ flushPc[g] = step

\* Lines 488-495: stopRecording is read, then a frame taken if there is one.
FlushLoop(g) ==
    /\ FlushAt(g, "loop")
    /\ \/ /\ stopRecording
          /\ flushPc' = [flushPc EXCEPT ![g] = "ended"]
       \/ /\ ~stopRecording
          /\ flushPc' = [flushPc EXCEPT ![g] = "take"]
    /\ UNCHANGED <<flags, store, stream, fills, flushBuf, callback, handles, control, dead>>

\* Mutant: The buffer is returned before it is consumed.
FlushTake_Early(g) ==
    /\ FlushAt(g, "take")
    /\ IF recQ = <<>>
         THEN /\ flushPc' = [flushPc EXCEPT ![g] = "loop"]
              /\ UNCHANGED <<flushBuf, recQ, freeBuffers, losses, dead>>
         ELSE /\ flushPc' = [flushPc EXCEPT ![g] = "consume"]
              /\ flushBuf' = [flushBuf EXCEPT ![g] = Head(recQ)]
              /\ PutBack(Head(recQ))
              /\ recQ' = Tail(recQ)
              /\ NodePutBack
    /\ UNCHANGED <<flags, playQ, stream, fills, callback, handles, control>>

FlushTake(g) ==
    /\ FlushAt(g, "take")
    /\ IF recQ = <<>>
         THEN /\ flushPc' = [flushPc EXCEPT ![g] = "loop"]
              /\ UNCHANGED <<flushBuf, recQ, dead>>
         ELSE /\ flushPc' = [flushPc EXCEPT ![g] = "consume"]
              /\ flushBuf' = [flushBuf EXCEPT ![g] = Head(recQ)]
              /\ recQ' = Tail(recQ)
              /\ NodePutBack
    /\ UNCHANGED <<flags, freeBuffers, playQ, losses, stream, fills, callback, handles,
                   control>>

\* Line 497: consumeBuffer returns.
FlushConsume(g) ==
    /\ FlushAt(g, "consume")
    /\ \E r \in ConsumerMay :
         flushPc' = [flushPc EXCEPT ![g] = IF r = "AUDIO_STOP" THEN "last" ELSE "give"]
    /\ UNCHANGED <<flags, store, stream, fills, flushBuf, callback, handles, control, dead>>

\* Mutant: AUDIO_STOP breaks out of the loop before the buffer is returned.
FlushGive_Break(g) ==
    /\ FlushAt(g, "give") \/ FlushAt(g, "last")
    /\ IF flushBuf[g] = Silence \/ flushPc[g] = "last"
         THEN UNCHANGED <<freeBuffers, losses>> ELSE PutBack(flushBuf[g])
    /\ flushBuf' = [flushBuf EXCEPT ![g] = None]
    /\ flushPc' = [flushPc EXCEPT ![g] = IF @ = "last" THEN "ended" ELSE "loop"]
    /\ UNCHANGED <<flags, playQ, recQ, stream, fills, callback, handles, control, dead>>

\* Lines 502-515: the buffer goes back unless it is the constant; AUDIO_STOP ends.
FlushGive(g) ==
    /\ FlushAt(g, "give") \/ FlushAt(g, "last")
    /\ IF flushBuf[g] = Silence
         THEN UNCHANGED <<freeBuffers, losses>> ELSE PutBack(flushBuf[g])
    /\ flushBuf' = [flushBuf EXCEPT ![g] = None]
    /\ flushPc' = [flushPc EXCEPT ![g] = IF @ = "last" THEN "ended" ELSE "loop"]
    /\ UNCHANGED <<flags, playQ, recQ, stream, fills, callback, handles, control, dead>>
-----------------------------------------------------------------------------
(* Audio_init, Audio_start, Audio_stop, Audio_teardown. *)

Goto(c, step) == ctl' = [ctl EXCEPT ![c] = step]

\* Audio_start returns r to c.
Return(c, r) == Goto(c, "idle") /\ result' = [result EXCEPT ![c] = r]

\* Audio_stop returns r to c, which may go on to Audio_teardown whatever r is.
StopReturn(c, r) ==
    /\ \/ c \in Stoppers /\ Goto(c, "idle")
       \/ c \in Closers /\ Goto(c, "teardown")
    /\ result' = [result EXCEPT ![c] = r]

At(c, step) == ~dead /\ ctl[c] = step /\ UNCHANGED sessions

\* Audio_init.  main calls it once, in no other thread's call of this module.
AudioInit ==
    /\ ~dead /\ ~initialized /\ \A c \in Controllers : ctl[c] = "idle"
    /\ initialized' = TRUE /\ started' = FALSE
    /\ stopPlayback' = FALSE /\ stopRecording' = FALSE
    /\ freeBuffers' \in FullPools /\ playQ' = <<>> /\ recQ' = <<>>
    /\ lost' = {} /\ counted' = {}
    /\ UNCHANGED <<callbackData, stream, fills, flushes, callback, handles, control, dead>>

Start(c) ==
    /\ ~dead /\ c \in Starters /\ ctl[c] = "idle" /\ sessions < Sessions
    /\ sessions' = sessions + 1
    /\ Goto(c, "s_test") /\ result' = [result EXCEPT ![c] = None]
    /\ UNCHANGED <<flags, store, stream, fills, flushes, callback, handles, dead>>

\* Mutant: started is not looked at.
StartTest_Blind(c) ==
    /\ At(c, "s_test")
    /\ Goto(c, "s_flags")
    /\ UNCHANGED <<flags, store, stream, fills, flushes, callback, handles, result, dead>>

\* Lines 253-255.
StartTest(c) ==
    /\ At(c, "s_test")
    /\ \/ started /\ Return(c, "AUDIO_ALREADY_STARTED")
       \/ ~started /\ Goto(c, "s_flags") /\ UNCHANGED result
    /\ UNCHANGED <<flags, store, stream, fills, flushes, callback, handles, dead>>

\* Mutant: only the stop flag of playback is reset.
StartFlags_KeepRecording(c) ==
    /\ At(c, "s_flags")
    /\ stopPlayback' = FALSE /\ started' = TRUE /\ callbackData' = TRUE
    /\ Goto(c, "s_init")
    /\ UNCHANGED <<initialized, stopRecording, store, stream, fills, flushes,
                   callback, handles, result, dead>>

\* Lines 257-260.
StartFlags(c) ==
    /\ At(c, "s_flags")
    /\ stopRecording' = FALSE /\ stopPlayback' = FALSE /\ started' = TRUE
    /\ callbackData' = TRUE
    /\ Goto(c, "s_init")
    /\ UNCHANGED <<initialized, store, stream, fills, flushes, callback, handles, result, dead>>

\* Lines 264-266: too late for started.
StartInit(c) ==
    /\ At(c, "s_init")
    /\ \/ initialized /\ Goto(c, "s_open") /\ UNCHANGED result
       \/ ~initialized /\ Return(c, "AUDIO_NOT_INITIALIZED")
    /\ UNCHANGED <<flags, store, stream, fills, flushes, callback, handles, dead>>

\* Lines 268-273.
StartOpen(c) ==
    /\ At(c, "s_open")
    /\ \/ Goto(c, "s_fill") /\ stream' = "open" /\ UNCHANGED result
       \/ "open" \in Failing /\ Return(c, "AUDIO_OPEN_STREAM_FAIL") /\ UNCHANGED stream
    /\ UNCHANGED <<flags, store, fills, flushes, callback, handles, dead>>

\* Line 277.
StartFill(c) ==
    /\ At(c, "s_fill")
    /\ fillPlaybackQueueThread' = Created(fillPc) + 1
    /\ fillPc' = [fillPc EXCEPT ![fillPlaybackQueueThread'] = "loop"]
    /\ Goto(c, "s_wait")
    /\ UNCHANGED <<flags, store, stream, fillBuf, flushes, callback,
                   flushRecordQueueThread, result, dead>>

\* Mutant: bufferPlaybackQueue does not wait.
StartWait_Not(c) ==
    /\ At(c, "s_wait")
    /\ Goto(c, "s_run")
    /\ UNCHANGED <<flags, store, stream, fills, flushes, callback, handles, result, dead>>

\* Line 279: the busy wait of bufferPlaybackQueue ends, when lfqueue_size says so.
StartWait(c) ==
    /\ At(c, "s_wait")
    /\ Len(playQ) + Cardinality(counted) >= MinPlayback
    /\ Goto(c, "s_run")
    /\ UNCHANGED <<flags, store, stream, fills, flushes, callback, handles, result, dead>>

\* Lines 285-290.  PortAudio refuses a stream that is not open.
StartRun(c) ==
    /\ At(c, "s_run")
    /\ \/ stream = "open" /\ stream' = "running" /\ Goto(c, "s_flush")
       \/ /\ stream # "open" \/ "start" \in Failing
          /\ Goto(c, "s_close") /\ UNCHANGED stream
    /\ UNCHANGED <<flags, store, fills, flushes, callback, handles, result, dead>>

\* Line 292.
StartFlush(c) ==
    /\ At(c, "s_flush")
    /\ flushRecordQueueThread' = Created(flushPc) + 1
    /\ flushPc' = [flushPc EXCEPT ![flushRecordQueueThread'] = "loop"]
    /\ Goto(c, "s_done")
    /\ UNCHANGED <<flags, store, stream, fills, flushBuf, callback,
                   fillPlaybackQueueThread, result, dead>>

\* Lines 294-296.
StartDone(c) ==
    /\ At(c, "s_done")
    /\ started' = TRUE
    /\ Return(c, "AUDIO_OK")
    /\ UNCHANGED <<initialized, stopPlayback, stopRecording, callbackData, store, stream,
                   fills, flushes, callback, handles, dead>>

\* Lines 298-305: the fill thread runs on.
StartClose(c) ==
    /\ At(c, "s_close")
    /\ \/ stream # "closed" /\ stream' = "closed" /\ Return(c, "AUDIO_START_STREAM_FAIL")
       \/ /\ stream = "closed" \/ "close" \in Failing
          /\ Return(c, "AUDIO_CLOSE_STREAM_FAIL") /\ UNCHANGED stream
    /\ UNCHANGED <<flags, store, fills, flushes, callback, handles, dead>>

Stop(c) ==
    /\ c \in Stoppers \cup Closers /\ At(c, "idle")
    /\ Goto(c, "t_test") /\ result' = [result EXCEPT ![c] = None]
    /\ UNCHANGED <<flags, store, stream, fills, flushes, callback, handles, dead>>

\* Mutant: Only the recording thread is told to stop.
StopTest_RecordOnly(c) ==
    /\ At(c, "t_test")
    /\ \/ ~started /\ StopReturn(c, "AUDIO_ALREADY_STOPPED") /\ UNCHANGED stopRecording
       \/ started /\ Goto(c, "t_joinFill") /\ stopRecording' = TRUE /\ UNCHANGED result
    /\ UNCHANGED <<initialized, started, stopPlayback, callbackData, store, stream, fills,
                   flushes, callback, handles, dead>>

\* Lines 310-316.
StopTest(c) ==
    /\ At(c, "t_test")
    /\ \/ /\ ~started /\ StopReturn(c, "AUDIO_ALREADY_STOPPED")
          /\ UNCHANGED <<stopPlayback, stopRecording>>
       \/ /\ started /\ Goto(c, "t_joinFill")
          /\ stopPlayback' = TRUE /\ stopRecording' = TRUE
          /\ UNCHANGED result
    /\ UNCHANGED <<initialized, started, callbackData, store, stream, fills, flushes,
                   callback, handles, dead>>

\* Line 318.  A handle never set is a null pthread_t, which pthread_join reads
\* through; one already joined is found ended, if nothing worse happens.
StopJoinFill(c) ==
    /\ At(c, "t_joinFill")
    /\ \/ /\ fillPlaybackQueueThread = 0
          /\ dead' = TRUE /\ UNCHANGED <<ctl, fillPc>>
       \/ /\ fillPlaybackQueueThread # 0
          /\ fillPc[fillPlaybackQueueThread] \in {"ended", "joined"}
          /\ fillPc' = [fillPc EXCEPT ![fillPlaybackQueueThread] = "joined"]
          /\ Goto(c, "t_joinFlush") /\ UNCHANGED dead
    /\ UNCHANGED <<flags, store, stream, fillBuf, flushes, callback, handles, result>>

\* Line 321.
StopJoinFlush(c) ==
    /\ At(c, "t_joinFlush")
    /\ \/ /\ flushRecordQueueThread = 0
          /\ dead' = TRUE /\ UNCHANGED <<ctl, flushPc>>
       \/ /\ flushRecordQueueThread # 0
          /\ flushPc[flushRecordQueueThread] \in {"ended", "joined"}
          /\ flushPc' = [flushPc EXCEPT ![flushRecordQueueThread] = "joined"]
          /\ Goto(c, "t_close") /\ UNCHANGED dead
    /\ UNCHANGED <<flags, store, stream, fills, flushBuf, callback, handles, result>>

\* Lines 324-331: Pa_CloseStream stops the calls, or fails at once ...
StopClose(c) ==
    /\ At(c, "t_close")
    /\ \/ stream # "closed" /\ stream' = "open" /\ Goto(c, "t_closing") /\ UNCHANGED result
       \/ /\ stream = "closed" \/ "close" \in Failing
          /\ StopReturn(c, "AUDIO_CLOSE_STREAM_FAIL") /\ UNCHANGED stream
    /\ UNCHANGED <<flags, store, fills, flushes, callback, handles, dead>>

\* ... and returns when the last call of streamCallback has.
StopClosing(c) ==
    /\ At(c, "t_closing")
    /\ CbAt("idle")
    /\ stream' = "closed"
    /\ Goto(c, "t_clear")
    /\ UNCHANGED <<flags, store, fills, flushes, callback, handles, result, dead>>

\* Mutant: Only the playback queue is cleared.
StopClear_PlayOnly(c) ==
    /\ At(c, "t_clear")
    /\ \/ /\ playQ # <<>>
          /\ PutBack(Head(playQ)) /\ playQ' = Tail(playQ) /\ NodePutBack
          /\ UNCHANGED <<recQ, ctl>>
       \/ playQ = <<>> /\ Goto(c, "t_done") /\ UNCHANGED <<store, dead>>
    /\ UNCHANGED <<flags, stream, fills, flushes, callback, handles, result>>

\* Lines 372-382: clearAllQueues pools what is left, playback first.
StopClear(c) ==
    /\ At(c, "t_clear")
    /\ \/ /\ playQ # <<>>
          /\ PutBack(Head(playQ)) /\ playQ' = Tail(playQ) /\ NodePutBack
          /\ UNCHANGED <<recQ, ctl>>
       \/ /\ playQ = <<>> /\ recQ # <<>>
          /\ PutBack(Head(recQ)) /\ recQ' = Tail(recQ) /\ NodePutBack
          /\ UNCHANGED <<playQ, ctl>>
       \/ /\ playQ = <<>> /\ recQ = <<>>
          /\ Goto(c, "t_done") /\ UNCHANGED <<store, dead>>
    /\ UNCHANGED <<flags, stream, fills, flushes, callback, handles, result>>

\* Mutant: started stays set.
StopDone_Forget(c) ==
    /\ At(c, "t_done")
    /\ Goto(c, "t_null")
    /\ UNCHANGED <<flags, store, stream, fills, flushes, callback, handles, result, dead>>

\* Line 347.
StopDone(c) ==
    /\ At(c, "t_done")
    /\ started' = FALSE
    /\ Goto(c, "t_null")
    /\ UNCHANGED <<initialized, stopPlayback, stopRecording, callbackData, store, stream,
                   fills, flushes, callback, handles, result, dead>>

\* Lines 348-351.
StopNull(c) ==
    /\ At(c, "t_null")
    /\ callbackData' = FALSE
    /\ StopReturn(c, "AUDIO_OK")
    /\ UNCHANGED <<initialized, started, stopPlayback, stopRecording, store, stream,
                   fills, flushes, callback, handles, dead>>

\* Lines 192-250.  Pa_Terminate closes the streams that are left.
Teardown(c) ==
    /\ At(c, "teardown")
    /\ initialized /\ cbPc = "idle"
    /\ initialized' = FALSE /\ started' = FALSE
    /\ stream' = "closed"
    /\ freeBuffers' = <<>> /\ playQ' = <<>> /\ recQ' = <<>>
    /\ Goto(c, "gone")
    /\ UNCHANGED <<losses, stopPlayback, stopRecording, callbackData, fills, flushes, callback,
                   handles, result, dead>>

-----------------------------------------------------------------------------
FillStep(f) == FillLoop(f) \/ FillProduce(f) \/ FillDrop(f) \/ FillAlloc(f) \/ FillEnq(f)
CallbackStep == CbPlay \/ CbReturn \/ CbAlloc \/ CbSilence \/ CbEnq
FlushStep(g) == FlushLoop(g) \/ FlushTake(g) \/ FlushConsume(g) \/ FlushGive(g)
StartStep(c) ==
    \/ StartTest(c) \/ StartFlags(c) \/ StartInit(c) \/ StartOpen(c) \/ StartFill(c)
    \/ StartWait(c) \/ StartRun(c) \/ StartFlush(c) \/ StartDone(c) \/ StartClose(c)
StopStep(c) ==
    \/ StopTest(c) \/ StopJoinFill(c) \/ StopJoinFlush(c) \/ StopClose(c)
    \/ StopClosing(c) \/ StopClear(c) \/ StopDone(c) \/ StopNull(c) \/ Teardown(c)

Next ==
    \/ AudioInit
    \/ \E c \in Controllers : Start(c) \/ Stop(c) \/ StartStep(c) \/ StopStep(c)
    \/ \E f \in FillIds : FillStep(f)
    \/ \E g \in FlushIds : FlushStep(g)
    \/ CallbackStep

Spec == Init /\ [][Next]_vars

\* Every thread is scheduled; produceBuffer and consumeBuffer return; PortAudio
\* ends each call it began.  Nobody has to call Audio_start or Audio_stop.
FairSpec ==
    /\ Spec
    /\ \A c \in Controllers : WF_vars(StartStep(c) \/ StopStep(c))
    /\ \A f \in FillIds : WF_vars(FillStep(f))
    /\ \A g \in FlushIds : WF_vars(FlushStep(g))
    /\ WF_vars(CallbackStep)

-----------------------------------------------------------------------------
(* Properties. *)

Items(q) == {q[i] : i \in DOMAIN q}
Copies(b, q) == Cardinality({i \in DOMAIN q : q[i] = b})

\* The places a buffer is in: the pool, the two queues, and the hands of the
\* threads, where the callback holds one buffer at a time.
Places(b) ==
    Copies(b, freeBuffers) + Copies(b, playQ) + Copies(b, recQ)
    + Cardinality({f \in FillIds : fillBuf[f] = b})
    + Cardinality({g \in FlushIds : flushBuf[g] = b})
    + (IF cbBuf = b THEN 1 ELSE 0)

\* A frame buffer is never in two places: two threads never write one buffer,
\* and no buffer is returned to the pool twice, whatever fails and whoever
\* stops (audio.c:413, 419, 459, 475, 508, 376, 380).
NoBufferShared == \A b \in Buffers : Places(b) <= 1

\* Every buffer is somewhere, or a ring or a queue did not take it, and then it
\* is nowhere: no other leaks across calls, drops, early AUDIO_STOPs and
\* clearAllQueues, and what is lost never comes back to be used twice
\* (audio.c:469-471 "keeps the number of buffers in circulation constant").
BuffersConserved ==
    (initialized /\ ~dead)
        => \A b \in Buffers : Places(b) = (IF b \in lost THEN 0 ELSE 1)

\* What holds of the buffers at every moment of two calls and the teardown.
AudioInv == TypeOK /\ NoBufferShared /\ BuffersConserved

\* No worker runs or waits to be joined, the stream is closed, both queues are
\* empty and no callback is inside the module.
Quiet ==
    /\ \A f \in FillIds : fillPc[f] \in {"none", "joined"}
    /\ \A g \in FlushIds : flushPc[g] \in {"none", "joined"}
    /\ stream = "closed" /\ cbPc = "idle"
    /\ playQ = <<>> /\ recQ = <<>>

\* started is false only when nothing of an earlier call is left, so the next
\* call begins with empty queues and its own threads, and Audio_teardown frees
\* nothing that is in use (audio.c:192-250, 307-352).
StoppedMeansQuiet == (~started /\ ~dead) => Quiet

\* Audio_stop joins threads that exist and that nobody has joined yet
\* (audio.c:318, 321).
JoinsValid ==
    \A c \in Controllers :
        /\ ctl[c] = "t_joinFill" =>
              fillPlaybackQueueThread # 0 /\ fillPc[fillPlaybackQueueThread] # "joined"
        /\ ctl[c] = "t_joinFlush" =>
              flushRecordQueueThread # 0 /\ flushPc[flushRecordQueueThread] # "joined"

\* Between calls, started means what it says: the stream is running and nothing
\* has told the workers to stop (audio.c:260, 294, 347; audio.h:49 "creates new
\* threads which begin playing and recording audio").
StartedMeansOn ==
    (started /\ ~dead /\ \A c \in Controllers : ctl[c] = "idle")
        => stream = "running" /\ ~stopPlayback /\ ~stopRecording

\* The stream begins to play only over MIN_PLAYBACK_QUEUE_LENGTH frames of this
\* call, unless the size of the queue counts frames that it does not hold: the
\* wait and the start of the stream are separate steps, and nothing consumes
\* between them (audio.c:279, 285).
StartPrebuffered ==
    [][(stream # "running" /\ stream' = "running" /\ counted = {})
          => Len(playQ) >= MinPlayback]_vars

\* As long as Audio_start has to wait for a frame, at most one fillPlaybackQueue
\* thread is alive: a second Audio_start is turned away while audio is on
\* (audio.h:52 "If audio has already been started previously,
\* AUDIO_ALREADY_STARTED will be returned").
OneSession ==
    Cardinality(counted) < MinPlayback =>
        Cardinality({f \in FillIds : ~AtRest(fillPc[f])}) <= 1

\* Buffers are left for bufferPlaybackQueue to wait for.
EnoughLeft == Cardinality(Buffers \ lost) + Cardinality(counted) >= MinPlayback

\* Audio_start returns, unless the process dies, or too many buffers have been
\* lost, or the producer has said AUDIO_STOP: then no one fills the queue that
\* bufferPlaybackQueue waits for (audio.c:279, 364-370, 453-457).
StartReturns ==
    \A c \in Controllers :
        (ctl[c] \in StartSteps) ~>
            \/ dead \/ ctl[c] \notin StartSteps \/ ~EnoughLeft
            \/ \E f \in FillIds : fillPc[f] = "ended"

\* Audio_stop returns: both workers see their flag and end, the stream closes,
\* the queues run empty (audio.c:307-352).
StopReturns ==
    \A c \in Controllers : (ctl[c] \in StopSteps) ~> (dead \/ ctl[c] \notin StopSteps)

\* Neither call of the pair waits for ever.
AudioReturns == StartReturns /\ StopReturns

\* audio.c:504 "Do NOT return totalSilence to the free buffer pool, because it's
\* not a real buffer."
SilenceNeverPooled == Silence \notin Items(freeBuffers)
=============================================================================
