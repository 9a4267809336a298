------------------------- MODULE AudioCalls_proofs -------------------------
(***************************************************************************)
(* Audio_start and Audio_stop do what they say for a thread that calls     *)
(* them in turn: an off engine is quiet, an on engine runs and the joins   *)
(* are those of live threads, for any number of calls, buffers and nodes   *)
(* and whatever the rings answer.  The invariant is a table: the step the  *)
(* caller is about to do says which threads live, whether the stream runs, *)
(* and what the flags are.  The hypotheses are those under which the code  *)
(* is right: one caller, Audio_init first, and a PortAudio that does not   *)
(* fail.  MCAudioOvertaken shows what a second caller breaks.              *)
(* The second part is about two threads, one that starts the audio and one *)
(* that stops it, at any moment and with a PortAudio that may fail: there  *)
(* is one fill thread at work at most, that of the handle, as long as      *)
(* Audio_start has to wait for a frame.                                    *)
(***************************************************************************)
EXTENDS Audio_proofs

\* One thread makes every call, after Audio_init, and PortAudio does not fail.
Caller == CHOOSE c \in Controllers : TRUE
CalledInOrder == Controllers = {Caller} /\ InitEarly = TRUE /\ Failing = {}

\* What the caller's step says of the rest: the audio is on, workers live, the
\* stream runs or is open.
step == ctl[Caller]
On == started = TRUE /\ step \in {"idle", "s_test", "t_test"}
Starting == {"s_init", "s_open", "s_fill", "s_wait", "s_run", "s_flush", "s_done"}
Stopping == {"t_joinFill", "t_joinFlush", "t_close", "t_closing", "t_clear", "t_done"}
Filling == On \/ step \in {"s_wait", "s_run", "s_flush", "s_done", "t_joinFill"}
Flushing == On \/ step \in {"s_done", "t_joinFill", "t_joinFlush"}
Running == On \/ step \in {"s_flush", "s_done", "t_joinFill", "t_joinFlush", "t_close"}
Opened == step \in {"s_fill", "s_wait", "s_run", "t_closing"}

Alive(pc) == pc \notin {"none", "joined"}

StepOK ==
    /\ DOMAIN ctl = Controllers
    /\ step \in {"idle", "teardown", "gone"} \cup StartSteps \cup StopSteps
    /\ step # "s_close"

FlagsOK ==
    /\ {initialized, started, stopPlayback, stopRecording} \subseteq BOOLEAN
    /\ step # "gone" => initialized = TRUE
    /\ step \in Starting \cup Stopping => started = TRUE
    /\ step \in {"s_flags", "t_null", "teardown", "gone"} => started = FALSE
    /\ On \/ step \in Starting => stopPlayback = FALSE /\ stopRecording = FALSE

\* The thread of the handle lives while the table says so, and no other does.
FillsOK ==
    /\ Filling => fillPlaybackQueueThread # 0 /\ Alive(fillPc[fillPlaybackQueueThread])
    /\ \A f \in FillIds : Alive(fillPc[f]) => Filling /\ f = fillPlaybackQueueThread

FlushesOK ==
    /\ Flushing => flushRecordQueueThread # 0 /\ Alive(flushPc[flushRecordQueueThread])
    /\ \A g \in FlushIds : Alive(flushPc[g]) => Flushing /\ g = flushRecordQueueThread

\* Threads are numbered as they come, at most one of a kind for a call of Audio_start.
FillsNumbered ==
    /\ fillPlaybackQueueThread \in 0 .. sessions
    /\ step \in {"s_test", "s_flags", "s_init", "s_open", "s_fill"}
          => fillPlaybackQueueThread < sessions
    /\ DOMAIN fillPc = FillIds
    /\ \A f \in FillIds : fillPc[f] = "none" <=> f > fillPlaybackQueueThread

FlushesNumbered ==
    /\ flushRecordQueueThread \in 0 .. sessions
    /\ step \in {"s_test", "s_flags", "s_init", "s_open", "s_fill", "s_wait", "s_run",
                "s_flush"}
          => flushRecordQueueThread < sessions
    /\ DOMAIN flushPc = FlushIds
    /\ \A g \in FlushIds : flushPc[g] = "none" <=> g > flushRecordQueueThread

StreamOK ==
    /\ Running => stream = "running"
    /\ Opened => stream = "open"
    /\ ~Running /\ ~Opened => stream = "closed"

CallbackOK == (~Running /\ step # "t_closing") => cbPc = "idle"

QueuesOK ==
    (~Filling /\ ~Running /\ ~Opened /\ step # "t_clear") => playQ = <<>> /\ recQ = <<>>

CallerIInv ==
    /\ StepOK /\ FlagsOK /\ FillsOK /\ FlushesOK /\ FillsNumbered /\ FlushesNumbered
    /\ StreamOK /\ CallbackOK /\ QueuesOK /\ sessions \in 0 .. Sessions

-----------------------------------------------------------------------------
(* Workers and the callback leave the table as it is. *)

\* A fill thread changes its own step and the queue; while it lives the table lets it.
LEMMA FillKeeps ==
    ASSUME CallerIInv, NEW f \in FillIds, FillStep(f)
    PROVE  CallerIInv'
<1>1. UNCHANGED <<flags, stream, flushes, callback, handles, control, recQ>>
  BY DEF FillStep, FillLoop, FillProduce, FillDrop, FillAlloc, FillEnq, store
<1>2. Alive(fillPc[f]) /\ \E pc : Alive(pc) /\ fillPc' = [fillPc EXCEPT ![f] = pc]
  BY DEF FillStep, FillLoop, FillProduce, FillDrop, FillAlloc, FillEnq, FillAt, Alive
<1>3. StepOK' /\ FlagsOK' /\ StreamOK' /\ CallbackOK' /\ FlushesOK' /\ FlushesNumbered'
      /\ sessions' \in 0 .. Sessions
  BY <1>1 DEF CallerIInv, StepOK, FlagsOK, StreamOK, CallbackOK, FlushesOK, FlushesNumbered,
              step, On, Filling, Flushing, Running, Opened, flags, flushes, callback, handles,
              control, FlushIds
<1>4. Filling' = Filling
  BY <1>1 DEF Filling, On, step, flags, control
<1>5. FillsOK'
  BY <1>1, <1>2, <1>4 DEF CallerIInv, FillsOK, FillsNumbered, handles, FillIds, Alive
<1>6. FillsNumbered'
  BY <1>1, <1>2 DEF CallerIInv, FillsNumbered, step, handles, control, FillIds, Alive
<1>7. QueuesOK'
  BY <1>1, <1>2, <1>4 DEF CallerIInv, FillsOK, QueuesOK
<1> QED
  BY <1>3, <1>5, <1>6, <1>7 DEF CallerIInv

\* So does a flush thread.
LEMMA FlushKeeps ==
    ASSUME CallerIInv, NEW g \in FlushIds, FlushStep(g)
    PROVE  CallerIInv'
<1>1. UNCHANGED <<flags, stream, fills, callback, handles, control, playQ>>
  BY DEF FlushStep, FlushLoop, FlushTake, FlushConsume, FlushGive, store
<1>2. Alive(flushPc[g]) /\ \E pc : Alive(pc) /\ flushPc' = [flushPc EXCEPT ![g] = pc]
  BY DEF FlushStep, FlushLoop, FlushTake, FlushConsume, FlushGive, FlushAt, Alive
<1>3. StepOK' /\ FlagsOK' /\ StreamOK' /\ CallbackOK' /\ FillsOK' /\ FillsNumbered'
      /\ sessions' \in 0 .. Sessions
  BY <1>1 DEF CallerIInv, StepOK, FlagsOK, StreamOK, CallbackOK, FillsOK, FillsNumbered,
              step, On, Filling, Flushing, Running, Opened, flags, fills, callback, handles,
              control, FillIds
<1>4. Flushing' = Flushing
  BY <1>1 DEF Flushing, On, step, flags, control
<1>5. FlushesOK'
  BY <1>1, <1>2, <1>4 DEF CallerIInv, FlushesOK, FlushesNumbered, handles, FlushIds, Alive
<1>6. FlushesNumbered'
  BY <1>1, <1>2 DEF CallerIInv, FlushesNumbered, step, handles, control, FlushIds, Alive
<1>7. Flushing /\ (Flushing => Running)
  BY <1>2 DEF CallerIInv, FlushesOK, Flushing, Running
<1>8. QueuesOK'
  BY <1>1, <1>7 DEF QueuesOK, Running, On, step, flags, control
<1> QED
  BY <1>3, <1>5, <1>6, <1>8 DEF CallerIInv

\* The callback acts only while the stream runs or is closing.
LEMMA CallbackKeeps ==
    ASSUME CallerIInv, CallbackStep
    PROVE  CallerIInv'
<1>1. UNCHANGED <<flags, stream, fills, flushes, handles, control>>
  BY DEF CallbackStep, CbPlay, CbReturn, CbAlloc, CbSilence, CbEnq
<1>2. stream = "running" \/ cbPc # "idle"
  BY DEF CallbackStep, CbPlay, CbReturn, CbAlloc, CbSilence, CbEnq, CbAt
<1>3. Running \/ step = "t_closing"
  BY <1>2 DEF CallerIInv, StreamOK, CallbackOK
<1>4. StepOK' /\ FlagsOK' /\ StreamOK' /\ FillsOK' /\ FillsNumbered'
      /\ FlushesOK' /\ FlushesNumbered' /\ sessions' \in 0 .. Sessions
  BY <1>1 DEF CallerIInv, StepOK, FlagsOK, StreamOK, FillsOK, FillsNumbered, FlushesOK,
              FlushesNumbered, step, On, Filling, Flushing, Running, Opened, flags, fills,
              flushes, handles, control, FillIds, FlushIds
<1>5. Running' \/ step' = "t_closing"
  BY <1>1, <1>3 DEF Running, On, step, flags, control
<1>6. CallbackOK' /\ QueuesOK'
  BY <1>5 DEF CallbackOK, QueuesOK, Opened
<1> QED
  BY <1>4, <1>6 DEF CallerIInv

-----------------------------------------------------------------------------
(* Audio_start. *)

\* What no call but the thread creations, the joins, the stream calls and
\* clearAllQueues touches.
EngineStill == UNCHANGED <<fillPc, flushPc, handles, stream, cbPc, playQ, recQ>>

\* A call of Audio_start begins.
LEMMA StartKeeps ==
    ASSUME CallerIInv, Controllers = {Caller}, Start(Caller)
    PROVE  CallerIInv'
<1>1. /\ step = "idle" /\ step' = "s_test" /\ DOMAIN ctl' = Controllers
      /\ sessions' = sessions + 1 /\ sessions < Sessions
      /\ UNCHANGED flags /\ EngineStill
  BY DEF CallerIInv, StepOK, step, Start, Goto, EngineStill, store, fills, flushes, callback
<1>2. UNCHANGED <<initialized, started, stopPlayback, stopRecording, callbackData>>
  BY <1>1 DEF flags
<1>3. On' = On /\ Filling' = Filling /\ Flushing' = Flushing /\ Running' = Running
      /\ Opened' = Opened
  BY <1>1, <1>2 DEF On, Filling, Flushing, Running, Opened
<1>4. StepOK'
  BY <1>1 DEF StepOK, StartSteps
<1>5. FlagsOK'
  BY <1>1, <1>2, <1>3 DEF CallerIInv, FlagsOK, Starting, Stopping
<1>6. FillsOK' /\ FlushesOK'
  BY <1>1, <1>3 DEF CallerIInv, FillsOK, FlushesOK, EngineStill, handles, FillIds, FlushIds
<1>7. FillsNumbered' /\ FlushesNumbered' /\ sessions' \in 0 .. Sessions
  BY <1>1, LimitsAssumption DEF CallerIInv, FillsNumbered, FlushesNumbered, EngineStill,
                                handles, FillIds, FlushIds
<1>8. StreamOK' /\ CallbackOK' /\ QueuesOK'
  BY <1>1, <1>3 DEF CallerIInv, StreamOK, CallbackOK, QueuesOK, EngineStill
<1> QED
  BY <1>4, <1>5, <1>6, <1>7, <1>8 DEF CallerIInv

\* Lines 253-266: before anything is opened.
LEMMA StartEarlyKeeps ==
    ASSUME CallerIInv, Controllers = {Caller},
           StartTest(Caller) \/ StartFlags(Caller) \/ StartInit(Caller)
    PROVE  CallerIInv'
<1>1. DOMAIN ctl' = Controllers /\ EngineStill /\ UNCHANGED sessions
  BY DEF CallerIInv, StepOK, StartTest, StartFlags, StartInit, At, Goto, Return, EngineStill, store,
         fills, flushes, callback
<1>2. \/ step = "s_test" /\ step' = "idle" /\ started = TRUE /\ UNCHANGED flags
      \/ step = "s_test" /\ step' = "s_flags" /\ started = FALSE /\ UNCHANGED flags
      \/ /\ step = "s_flags" /\ step' = "s_init"
         /\ started' = TRUE /\ callbackData' = TRUE
         /\ stopPlayback' = FALSE /\ stopRecording' = FALSE /\ UNCHANGED initialized
      \/ step = "s_init" /\ step' = "s_open" /\ UNCHANGED flags
  <2>1. CASE StartTest(Caller)
    BY <2>1 DEF CallerIInv, StepOK, FlagsOK, step, StartTest, At, Goto, Return
  <2>2. CASE StartFlags(Caller)
    BY <2>2 DEF CallerIInv, StepOK, step, StartFlags, At, Goto
  <2>3. CASE StartInit(Caller)
    BY <2>3 DEF CallerIInv, StepOK, FlagsOK, step, StartInit, At, Goto, Return
  <2> QED
    BY <2>1, <2>2, <2>3
<1>3. StepOK'
  BY <1>1, <1>2 DEF StepOK, StartSteps
<1>4. FlagsOK'
  BY <1>2 DEF CallerIInv, FlagsOK, Starting, Stopping, On, flags
<1>5. Filling' = Filling /\ Flushing' = Flushing /\ Running' = Running /\ Opened' = Opened
  BY <1>2 DEF On, Filling, Flushing, Running, Opened, flags
<1>6. FillsOK' /\ FlushesOK'
  BY <1>1, <1>5 DEF CallerIInv, FillsOK, FlushesOK, EngineStill, handles, FillIds, FlushIds
<1>7. FillsNumbered' /\ FlushesNumbered' /\ sessions' \in 0 .. Sessions
  BY <1>1, <1>2 DEF CallerIInv, FillsNumbered, FlushesNumbered, EngineStill, handles, FillIds,
                    FlushIds
<1>8. StreamOK' /\ CallbackOK' /\ QueuesOK'
  BY <1>1, <1>2, <1>5 DEF CallerIInv, StreamOK, CallbackOK, QueuesOK, EngineStill
<1> QED
  BY <1>3, <1>4, <1>6, <1>7, <1>8 DEF CallerIInv

\* Lines 268, 279-290: the stream is opened, waits for frames and runs.
LEMMA StartStreamKeeps ==
    ASSUME CallerIInv, CalledInOrder,
           StartOpen(Caller) \/ StartWait(Caller) \/ StartRun(Caller) \/ StartDone(Caller)
    PROVE  CallerIInv'
<1>1. /\ DOMAIN ctl' = Controllers
      /\ UNCHANGED <<fillPc, flushPc, handles, cbPc, playQ, recQ, sessions>>
  BY DEF CallerIInv, StepOK, StartOpen, StartWait, StartRun, StartDone, At, Goto, Return, store,
         fills, flushes, callback
<1>2. \/ step = "s_open" /\ step' = "s_fill" /\ stream' = "open" /\ UNCHANGED flags
      \/ step = "s_wait" /\ step' = "s_run" /\ UNCHANGED stream /\ UNCHANGED flags
      \/ step = "s_run" /\ step' = "s_flush" /\ stream' = "running" /\ UNCHANGED flags
      \/ /\ step = "s_done" /\ step' = "idle" /\ UNCHANGED stream /\ started' = TRUE
         /\ UNCHANGED <<initialized, stopPlayback, stopRecording, callbackData>>
  <2>1. CASE StartOpen(Caller)
    BY <2>1 DEF CallerIInv, StepOK, CalledInOrder, step, StartOpen, At, Goto, Return
  <2>2. CASE StartWait(Caller)
    <3>1. step = "s_wait" /\ step' = "s_run" /\ UNCHANGED stream /\ UNCHANGED flags
      BY <2>2 DEF CallerIInv, StepOK, CalledInOrder, step, StartWait, At, Goto
    <3> QED
      BY <3>1
  <2>3. CASE StartRun(Caller)
    <3>1. step = "s_run" /\ stream = "open"
      BY <2>3 DEF CallerIInv, StreamOK, Opened, step, StartRun, At
    <3> QED
      BY <2>3, <3>1 DEF CallerIInv, StepOK, CalledInOrder, step, StartRun, At, Goto
  <2>4. CASE StartDone(Caller)
    <3>1. /\ step = "s_done" /\ step' = "idle" /\ UNCHANGED stream /\ started' = TRUE
          /\ UNCHANGED <<initialized, stopPlayback, stopRecording, callbackData>>
      BY <2>4 DEF CallerIInv, StepOK, CalledInOrder, step, StartDone, At, Goto,
                      Return
    <3> QED
      BY <3>1
  <2> QED
    BY <2>1, <2>2, <2>3, <2>4
<1>3. StepOK'
  BY <1>1, <1>2 DEF StepOK, StartSteps
<1>4. FlagsOK'
  BY <1>2 DEF CallerIInv, FlagsOK, Starting, Stopping, On, flags
<1>5. Filling' = Filling /\ Flushing' = Flushing
  BY <1>2 DEF CallerIInv, FlagsOK, On, Filling, Flushing, flags
<1>6. FillsOK' /\ FlushesOK'
  BY <1>1, <1>5 DEF CallerIInv, FillsOK, FlushesOK, handles, FillIds, FlushIds
<1>7. FillsNumbered' /\ FlushesNumbered' /\ sessions' \in 0 .. Sessions
  BY <1>1, <1>2 DEF CallerIInv, FillsNumbered, FlushesNumbered, handles, FillIds, FlushIds
<1>8. StreamOK'
  BY <1>2 DEF CallerIInv, StreamOK, Running, Opened, On
<1>9. CallbackOK' /\ QueuesOK'
  BY <1>1, <1>2 DEF CallerIInv, CallbackOK, QueuesOK, Running, Opened, Filling, On
<1> QED
  BY <1>3, <1>4, <1>6, <1>7, <1>8, <1>9 DEF CallerIInv

\* Line 277: the next fill thread is created.
LEMMA StartFillKeeps ==
    ASSUME CallerIInv, Controllers = {Caller}, StartFill(Caller)
    PROVE  CallerIInv'
<1> DEFINE F == fillPlaybackQueueThread
<1>1. /\ step = "s_fill" /\ step' = "s_wait" /\ DOMAIN ctl' = Controllers
      /\ UNCHANGED <<flags, flushPc, flushRecordQueueThread, stream, cbPc, playQ, recQ, sessions>>
      /\ F' = Created(fillPc) + 1 /\ fillPc' = [fillPc EXCEPT ![F'] = "loop"]
  BY DEF CallerIInv, StepOK, step, StartFill, At, Goto, store, flushes, callback
<1>2. Created(fillPc) = F
  BY LimitsAssumption, NextNumber DEF CallerIInv, FillsNumbered, FillIds
<1>3. F \in Nat /\ F < sessions /\ sessions \in Nat /\ sessions <= Sessions /\ Sessions \in Nat
  BY <1>1, LimitsAssumption DEF CallerIInv, FillsNumbered
<1>4. F' = F + 1 /\ F' \in FillIds
  BY <1>1, <1>2, <1>3 DEF FillIds
<1>5. StepOK'
  BY <1>1 DEF StepOK, StartSteps
<1>6. FlagsOK'
  BY <1>1 DEF CallerIInv, FlagsOK, Starting, Stopping, On, flags
<1>7. ~Filling /\ Filling' /\ ~Flushing /\ ~Flushing' /\ ~Running /\ ~Running' /\ Opened'
      /\ Opened
  BY <1>1 DEF Filling, Flushing, Running, Opened, On
<1>8. \A f \in FillIds : ~Alive(fillPc[f])
  BY <1>7 DEF CallerIInv, FillsOK
<1>9. DOMAIN fillPc = FillIds
  BY DEF CallerIInv, FillsNumbered
<1>10. /\ fillPc'[F'] = "loop"
       /\ \A f \in FillIds : f # F' => fillPc'[f] = fillPc[f]
       /\ DOMAIN fillPc' = FillIds
  BY <1>1, <1>4, <1>9
<1>11. FillsOK'
  BY <1>3, <1>4, <1>7, <1>8, <1>10 DEF FillsOK, Alive, FillIds
<1>12. FillsNumbered'
  BY <1>1, <1>3, <1>4, <1>10 DEF CallerIInv, FillsNumbered, FillIds
<1>13. FlushesOK'
  BY <1>1, <1>7 DEF CallerIInv, FlushesOK, FlushIds
<1>14. FlushesNumbered' /\ sessions' \in 0 .. Sessions
  BY <1>1 DEF CallerIInv, FlushesNumbered, FlushIds
<1>15. StreamOK' /\ CallbackOK' /\ QueuesOK'
  BY <1>1, <1>7 DEF CallerIInv, StreamOK, CallbackOK, QueuesOK
<1> QED
  BY <1>5, <1>6, <1>11, <1>12, <1>13, <1>14, <1>15 DEF CallerIInv

\* Line 292: the next flush thread is created.
LEMMA StartFlushKeeps ==
    ASSUME CallerIInv, Controllers = {Caller}, StartFlush(Caller)
    PROVE  CallerIInv'
<1> DEFINE G == flushRecordQueueThread
<1>1. /\ step = "s_flush" /\ step' = "s_done" /\ DOMAIN ctl' = Controllers
      /\ UNCHANGED <<flags, fillPc, fillPlaybackQueueThread, stream, cbPc, playQ, recQ, sessions>>
      /\ G' = Created(flushPc) + 1 /\ flushPc' = [flushPc EXCEPT ![G'] = "loop"]
  BY DEF CallerIInv, StepOK, step, StartFlush, At, Goto, store, fills, callback
<1>2. Created(flushPc) = G
  <2>1. /\ Sessions \in Nat /\ G \in 0 .. sessions /\ sessions \in 0 .. Sessions
        /\ DOMAIN flushPc = 1 .. Sessions
    BY LimitsAssumption DEF CallerIInv, FlushesNumbered, FlushIds
  <2>2. \A i \in 1 .. Sessions : flushPc[i] = "none" <=> i > G
    BY DEF CallerIInv, FlushesNumbered, FlushIds
  <2>3. G \in 0 .. Sessions
    BY <2>1
  <2> HIDE DEF G
  <2> QED
    BY <2>1, <2>2, <2>3, NextNumber
<1>3. G \in Nat /\ G < sessions /\ sessions \in Nat /\ sessions <= Sessions /\ Sessions \in Nat
  BY <1>1, LimitsAssumption DEF CallerIInv, FlushesNumbered
<1>4. G' = G + 1 /\ G' \in FlushIds
  BY <1>1, <1>2, <1>3 DEF FlushIds
<1>5. StepOK'
  BY <1>1 DEF StepOK, StartSteps
<1>6. FlagsOK'
  BY <1>1 DEF CallerIInv, FlagsOK, Starting, Stopping, On, flags
<1>7. Filling /\ Filling' /\ ~Flushing /\ Flushing' /\ Running /\ Running' /\ ~Opened'
      /\ ~Opened
  BY <1>1 DEF Filling, Flushing, Running, Opened, On
<1>8. \A g \in FlushIds : ~Alive(flushPc[g])
  BY <1>7 DEF CallerIInv, FlushesOK
<1>9. DOMAIN flushPc = FlushIds
  BY DEF CallerIInv, FlushesNumbered
<1>10. /\ flushPc'[G'] = "loop"
       /\ \A g \in FlushIds : g # G' => flushPc'[g] = flushPc[g]
       /\ DOMAIN flushPc' = FlushIds
  BY <1>1, <1>4, <1>9
<1>11. FlushesOK'
  BY <1>3, <1>4, <1>7, <1>8, <1>10 DEF FlushesOK, Alive, FlushIds
<1>12. FlushesNumbered'
  BY <1>1, <1>3, <1>4, <1>10 DEF CallerIInv, FlushesNumbered, FlushIds
<1>13. FillsOK'
  BY <1>1, <1>7 DEF CallerIInv, FillsOK, FillIds
<1>14. FillsNumbered' /\ sessions' \in 0 .. Sessions
  BY <1>1 DEF CallerIInv, FillsNumbered, FillIds
<1>15. StreamOK' /\ CallbackOK' /\ QueuesOK'
  BY <1>1, <1>7 DEF CallerIInv, StreamOK, CallbackOK, QueuesOK
<1> QED
  BY <1>5, <1>6, <1>11, <1>12, <1>13, <1>14, <1>15 DEF CallerIInv

-----------------------------------------------------------------------------
(* Audio_stop and Audio_teardown. *)

\* Lines 309-316, 347-351: the flags, before and after.
LEMMA StopFlagsKeep ==
    ASSUME CallerIInv, Controllers = {Caller},
           Stop(Caller) \/ StopTest(Caller) \/ StopDone(Caller) \/ StopNull(Caller)
    PROVE  CallerIInv'
<1>1. DOMAIN ctl' = Controllers /\ EngineStill /\ UNCHANGED sessions
  BY DEF CallerIInv, StepOK, Stop, StopTest, StopDone, StopNull, At, Goto, StopReturn, EngineStill,
         store, fills, flushes, callback
<1>2. \/ step = "idle" /\ step' = "t_test" /\ UNCHANGED flags
      \/ /\ step = "t_test" /\ step' \in {"idle", "teardown"} /\ started = FALSE
         /\ UNCHANGED flags
      \/ /\ step = "t_test" /\ step' = "t_joinFill" /\ started = TRUE
         /\ stopPlayback' = TRUE /\ stopRecording' = TRUE
         /\ UNCHANGED <<initialized, started, callbackData>>
      \/ /\ step = "t_done" /\ step' = "t_null" /\ started' = FALSE
         /\ UNCHANGED <<initialized, stopPlayback, stopRecording, callbackData>>
      \/ /\ step = "t_null" /\ step' \in {"idle", "teardown"} /\ callbackData' = FALSE
         /\ UNCHANGED <<initialized, started, stopPlayback, stopRecording>>
  <2>1. CASE Stop(Caller)
    BY <2>1 DEF CallerIInv, StepOK, step, Stop, At, Goto
  <2>2. CASE StopTest(Caller)
    <3>1. step = "t_test" /\ started \in BOOLEAN
      BY <2>2 DEF CallerIInv, FlagsOK, step, StopTest, At
    <3>2. CASE started = FALSE
      BY <2>2, <3>1, <3>2 DEF CallerIInv, StepOK, step, StopTest, At, Goto, StopReturn, flags
    <3>3. CASE started = TRUE
      BY <2>2, <3>1, <3>3 DEF CallerIInv, StepOK, step, StopTest, At, Goto
    <3> QED
      BY <3>1, <3>2, <3>3
  <2>3. CASE StopDone(Caller)
    BY <2>3 DEF CallerIInv, StepOK, step, StopDone, At, Goto
  <2>4. CASE StopNull(Caller)
    BY <2>4 DEF CallerIInv, StepOK, step, StopNull, At, Goto, StopReturn
  <2> QED
    BY <2>1, <2>2, <2>3, <2>4
<1>3. StepOK'
  BY <1>1, <1>2 DEF StepOK, StopSteps
<1>4. FlagsOK'
  BY <1>2 DEF CallerIInv, FlagsOK, Starting, Stopping, On, flags
<1>5. Filling' = Filling /\ Flushing' = Flushing /\ Running' = Running /\ Opened' = Opened
  BY <1>2 DEF CallerIInv, FlagsOK, Stopping, On, Filling, Flushing, Running, Opened, flags
<1>6. FillsOK' /\ FlushesOK'
  BY <1>1, <1>5 DEF CallerIInv, FillsOK, FlushesOK, EngineStill, handles, FillIds, FlushIds
<1>7. FillsNumbered' /\ FlushesNumbered' /\ sessions' \in 0 .. Sessions
  BY <1>1, <1>2 DEF CallerIInv, FillsNumbered, FlushesNumbered, EngineStill, handles, FillIds,
                    FlushIds
<1>8. StreamOK' /\ CallbackOK' /\ QueuesOK'
  BY <1>1, <1>2, <1>5 DEF CallerIInv, StreamOK, CallbackOK, QueuesOK, EngineStill
<1> QED
  BY <1>3, <1>4, <1>6, <1>7, <1>8 DEF CallerIInv

\* Line 318: the fill thread has ended and is joined.
LEMMA StopJoinFillKeeps ==
    ASSUME CallerIInv, Controllers = {Caller}, StopJoinFill(Caller)
    PROVE  CallerIInv'
<1> DEFINE F == fillPlaybackQueueThread
<1>1. step = "t_joinFill" /\ Filling /\ F # 0 /\ Alive(fillPc[F])
  BY DEF CallerIInv, FillsOK, Filling, step, StopJoinFill, At
<1>2. /\ step' = "t_joinFlush" /\ DOMAIN ctl' = Controllers
      /\ fillPc' = [fillPc EXCEPT ![F] = "joined"] /\ fillPc[F] = "ended"
      /\ UNCHANGED <<flags, flushPc, handles, stream, cbPc, playQ, recQ, sessions>>
  BY <1>1 DEF CallerIInv, StepOK, step, StopJoinFill, At, Goto, Alive, store, flushes, callback
<1>3. StepOK'
  BY <1>2 DEF StepOK, StopSteps
<1>4. FlagsOK'
  BY <1>1, <1>2 DEF CallerIInv, FlagsOK, Starting, Stopping, On, flags
<1>5. ~Filling' /\ Flushing /\ Flushing' /\ Running /\ Running' /\ ~Opened /\ ~Opened'
  BY <1>1, <1>2 DEF Filling, Flushing, Running, Opened, On
<1>6. FillsOK'
  BY <1>2, <1>5 DEF CallerIInv, FillsOK, FillsNumbered, FillIds, Alive
<1>7. FillsNumbered'
  BY <1>1, <1>2 DEF CallerIInv, FillsNumbered, FillIds, handles
<1>8. FlushesOK'
  BY <1>2, <1>5 DEF CallerIInv, FlushesOK, FlushIds, handles
<1>9. FlushesNumbered' /\ sessions' \in 0 .. Sessions
  BY <1>2 DEF CallerIInv, FlushesNumbered, FlushIds, handles
<1>10. StreamOK' /\ CallbackOK' /\ QueuesOK'
  BY <1>2, <1>5 DEF CallerIInv, StreamOK, CallbackOK, QueuesOK
<1> QED
  BY <1>3, <1>4, <1>6, <1>7, <1>8, <1>9, <1>10 DEF CallerIInv

\* Line 321: and so is the flush thread.
LEMMA StopJoinFlushKeeps ==
    ASSUME CallerIInv, Controllers = {Caller}, StopJoinFlush(Caller)
    PROVE  CallerIInv'
<1> DEFINE G == flushRecordQueueThread
<1>1. step = "t_joinFlush" /\ Flushing /\ G # 0 /\ Alive(flushPc[G])
  BY DEF CallerIInv, FlushesOK, Flushing, step, StopJoinFlush, At
<1>2. /\ step' = "t_close" /\ DOMAIN ctl' = Controllers
      /\ flushPc' = [flushPc EXCEPT ![G] = "joined"] /\ flushPc[G] = "ended"
      /\ UNCHANGED <<flags, fillPc, handles, stream, cbPc, playQ, recQ, sessions>>
  BY <1>1 DEF CallerIInv, StepOK, step, StopJoinFlush, At, Goto, Alive, store, fills, callback
<1>3. StepOK'
  BY <1>2 DEF StepOK, StopSteps
<1>4. FlagsOK'
  BY <1>1, <1>2 DEF CallerIInv, FlagsOK, Starting, Stopping, On, flags
<1>5. ~Filling /\ ~Filling' /\ ~Flushing' /\ Running /\ Running' /\ ~Opened /\ ~Opened'
  BY <1>1, <1>2 DEF Filling, Flushing, Running, Opened, On
<1>6. FlushesOK'
  BY <1>2, <1>5 DEF CallerIInv, FlushesOK, FlushesNumbered, FlushIds, Alive
<1>7. FlushesNumbered'
  BY <1>1, <1>2 DEF CallerIInv, FlushesNumbered, FlushIds, handles
<1>8. FillsOK'
  BY <1>2, <1>5 DEF CallerIInv, FillsOK, FillIds, handles
<1>9. FillsNumbered' /\ sessions' \in 0 .. Sessions
  BY <1>2 DEF CallerIInv, FillsNumbered, FillIds, handles
<1>10. StreamOK' /\ CallbackOK' /\ QueuesOK'
  BY <1>2, <1>5 DEF CallerIInv, StreamOK, CallbackOK, QueuesOK
<1> QED
  BY <1>3, <1>4, <1>6, <1>7, <1>8, <1>9, <1>10 DEF CallerIInv

\* Lines 324, 372-382, 192-250: the stream is closed, the queues are emptied, the
\* engine is taken down.
LEMMA StopStreamKeeps ==
    ASSUME CallerIInv, CalledInOrder,
           \/ StopClose(Caller) \/ StopClosing(Caller) \/ StopClear(Caller)
           \/ Teardown(Caller)
    PROVE  CallerIInv'
<1>1. /\ DOMAIN ctl' = Controllers
      /\ UNCHANGED <<fillPc, flushPc, handles, cbPc, sessions>>
  BY DEF CallerIInv, StepOK, StopClose, StopClosing, StopClear, Teardown, At, Goto, StopReturn,
         fills, flushes, callback
<1>2. \/ /\ step = "t_close" /\ step' = "t_closing" /\ stream' = "open"
         /\ UNCHANGED flags
      \/ /\ step = "t_closing" /\ step' = "t_clear" /\ stream' = "closed" /\ cbPc = "idle"
         /\ UNCHANGED flags
      \/ step = "t_clear" /\ step' = "t_clear" /\ UNCHANGED stream /\ UNCHANGED flags
      \/ /\ step = "t_clear" /\ step' = "t_done" /\ UNCHANGED stream /\ UNCHANGED flags
         /\ playQ' = <<>> /\ recQ' = <<>>
      \/ /\ step = "teardown" /\ step' = "gone" /\ stream' = "closed" /\ cbPc = "idle"
         /\ started' = FALSE /\ initialized' = FALSE
         /\ UNCHANGED <<stopPlayback, stopRecording, callbackData>>
         /\ playQ' = <<>> /\ recQ' = <<>>
  <2>1. CASE StopClose(Caller)
    <3>1. step = "t_close" /\ stream = "running"
      BY <2>1 DEF CallerIInv, StreamOK, Running, step, StopClose, At
    <3> QED
      BY <2>1, <3>1 DEF CallerIInv, StepOK, CalledInOrder, step, StopClose, At, Goto
  <2>2. CASE StopClosing(Caller)
    BY <2>2 DEF CallerIInv, StepOK, CalledInOrder, step, StopClosing, At, CbAt, Goto
  <2>3. CASE StopClear(Caller)
    <3>1. step = "t_clear" /\ UNCHANGED stream /\ UNCHANGED flags
      BY <2>3 DEF step, StopClear, At
    <3>2. \/ UNCHANGED ctl
          \/ step' = "t_done" /\ playQ' = <<>> /\ recQ' = <<>>
      BY <2>3 DEF CallerIInv, StepOK, CalledInOrder, step, StopClear, Goto, store
    <3> QED
      BY <3>1, <3>2 DEF step
  <2>4. CASE Teardown(Caller)
    BY <2>4 DEF CallerIInv, StepOK, CalledInOrder, step, Teardown, At, Goto
  <2> QED
    BY <2>1, <2>2, <2>3, <2>4
<1>3. StepOK'
  BY <1>1, <1>2 DEF StepOK, StopSteps
<1>4. FlagsOK'
  BY <1>2 DEF CallerIInv, FlagsOK, Starting, Stopping, On, flags
<1>5. ~Filling /\ ~Filling' /\ ~Flushing /\ ~Flushing' /\ ~Running'
  BY <1>2 DEF On, Filling, Flushing, Running
<1>6. FillsOK' /\ FlushesOK'
  BY <1>1, <1>5 DEF CallerIInv, FillsOK, FlushesOK, FillIds, FlushIds
<1>7. FillsNumbered' /\ FlushesNumbered' /\ sessions' \in 0 .. Sessions
  BY <1>1, <1>2 DEF CallerIInv, FillsNumbered, FlushesNumbered, handles, FillIds, FlushIds
<1>8. StreamOK'
  BY <1>2, <1>5 DEF CallerIInv, StreamOK, Running, Opened, On
<1>9. CallbackOK'
  BY <1>1, <1>2 DEF CallerIInv, CallbackOK, Running, On
<1>10. QueuesOK'
  BY <1>2 DEF QueuesOK, Opened
<1> QED
  BY <1>3, <1>4, <1>6, <1>7, <1>8, <1>9, <1>10 DEF CallerIInv

-----------------------------------------------------------------------------
(* The invariant and what follows from it. *)

\* At first the engine is off and nothing was created.
LEMMA CallerInit == CalledInOrder /\ Init => CallerIInv
<1> SUFFICES ASSUME CalledInOrder, Init PROVE CallerIInv
  OBVIOUS
<1> USE DEF Init, CalledInOrder
<1>1. step = "idle" /\ DOMAIN ctl = Controllers
  BY DEF step
<1>2. started = FALSE /\ initialized = TRUE
  OBVIOUS
<1>3. ~Filling /\ ~Flushing /\ ~Running /\ ~Opened
  BY <1>1, <1>2 DEF Filling, Flushing, Running, Opened, On
<1>4. StepOK
  BY <1>1 DEF StepOK
<1>5. FlagsOK
  BY <1>1, <1>2 DEF FlagsOK, On, Starting, Stopping
<1>6. FillsOK /\ FlushesOK
  BY <1>3 DEF FillsOK, FlushesOK, Alive
<1>7. FillsNumbered /\ FlushesNumbered /\ sessions \in 0 .. Sessions
  BY <1>1, LimitsAssumption DEF FillsNumbered, FlushesNumbered, FillIds, FlushIds
<1>8. StreamOK /\ CallbackOK /\ QueuesOK
  BY <1>3 DEF StreamOK, CallbackOK, QueuesOK
<1> QED
  BY <1>4, <1>5, <1>6, <1>7, <1>8 DEF CallerIInv

\* Every step keeps the table.
LEMMA CallerSteps == CalledInOrder /\ CallerIInv /\ [Next]_vars => CallerIInv'
<1> SUFFICES ASSUME CalledInOrder, CallerIInv, [Next]_vars PROVE CallerIInv'
  OBVIOUS
<1>1. Controllers = {Caller}
  BY DEF CalledInOrder
<1>2. ~AudioInit
  <2>1. ASSUME AudioInit PROVE step = "idle" /\ initialized = FALSE
    <3>1. step = "idle" /\ ~initialized
      BY <1>1, <2>1 DEF AudioInit, step
    <3> QED
      BY <3>1 DEF CallerIInv, FlagsOK
  <2> QED
    BY <2>1 DEF CallerIInv, FlagsOK
<1>3. CASE Start(Caller) \/ Stop(Caller)
  BY <1>1, <1>3, StartKeeps, StopFlagsKeep
<1>4. CASE StartStep(Caller)
  <2>1. ~StartClose(Caller)
    BY DEF CallerIInv, StepOK, step, StartClose, At
  <2> QED
    BY <1>1, <1>4, <2>1, StartEarlyKeeps, StartStreamKeeps, StartFillKeeps, StartFlushKeeps
       DEF StartStep
<1>5. CASE StopStep(Caller)
  BY <1>1, <1>5, StopFlagsKeep, StopJoinFillKeeps, StopJoinFlushKeeps, StopStreamKeeps
     DEF StopStep
<1>6. CASE UNCHANGED vars
  BY <1>6 DEF vars, flags, store, fills, flushes, callback, handles, control, CallerIInv,
              StepOK, FlagsOK, FillsOK, FlushesOK, FillsNumbered, FlushesNumbered, StreamOK,
              CallbackOK, QueuesOK, step, On, Filling, Flushing, Running, Opened, FillIds,
              FlushIds
<1> QED
  BY <1>1, <1>2, <1>3, <1>4, <1>5, <1>6, FillKeeps, FlushKeeps, CallbackKeeps DEF Next

\* What the table says of the engine.
LEMMA CallerMeans ==
    CallerIInv /\ CalledInOrder
        => StoppedMeansQuiet /\ JoinsValid /\ StartedMeansOn /\ OneSession
<1> SUFFICES ASSUME CallerIInv, CalledInOrder
             PROVE  StoppedMeansQuiet /\ JoinsValid /\ StartedMeansOn /\ OneSession
  OBVIOUS
<1>1. Controllers = {Caller} /\ started \in BOOLEAN
  BY DEF CalledInOrder, CallerIInv, FlagsOK
<1>2. ASSUME started = FALSE PROVE Quiet
  <2>1. /\ ~Filling /\ ~Flushing /\ ~Running /\ ~Opened
        /\ step \notin {"t_closing", "t_clear"}
    BY <1>2 DEF CallerIInv, FlagsOK, Starting, Stopping, On, Filling, Flushing, Running, Opened
  <2> QED
    BY <2>1 DEF CallerIInv, FillsOK, FlushesOK, StreamOK, CallbackOK, QueuesOK, Alive, Quiet
<1>3. StoppedMeansQuiet
  BY <1>1, <1>2 DEF StoppedMeansQuiet
<1>4. JoinsValid
  <2>1. step = "t_joinFill" => Filling
    BY DEF Filling
  <2>2. step = "t_joinFlush" => Flushing
    BY DEF Flushing
  <2> QED
    BY <1>1, <2>1, <2>2 DEF CallerIInv, FillsOK, FlushesOK, Alive, JoinsValid, step
<1>5. StartedMeansOn
  <2>1. ASSUME started = TRUE, step = "idle"
        PROVE  stream = "running" /\ stopPlayback = FALSE /\ stopRecording = FALSE
    BY <2>1 DEF CallerIInv, FlagsOK, StreamOK, Running, On
  <2> QED
    BY <1>1, <2>1 DEF StartedMeansOn, step
<1>6. OneSession
  <2> DEFINE alive == {f \in FillIds : ~AtRest(fillPc[f])}
  <2>1. alive = {} \/ alive = {fillPlaybackQueueThread}
    BY DEF CallerIInv, FillsOK, Alive, AtRest
  <2>2. Cardinality(alive) \in {0, 1}
    BY <2>1, FS_EmptySet, FS_Singleton
  <2> HIDE DEF alive
  <2>3. Cardinality(alive) <= 1
    BY <2>2
  <2> QED
    BY <2>3 DEF OneSession, alive
<1> QED
  BY <1>3, <1>4, <1>5, <1>6

\* The table holds when one thread makes the calls, after Audio_init, and PortAudio
\* does not fail (audio.c:252-352), in any number of sessions and whatever the
\* workers do meanwhile.
THEOREM CallerInvariance == CalledInOrder /\ Spec => []CallerIInv
<1> SUFFICES ASSUME CalledInOrder PROVE Spec => []CallerIInv
  OBVIOUS
<1>1. Init => CallerIInv
  BY CallerInit
<1>2. CallerIInv /\ [Next]_vars => CallerIInv'
  BY CallerSteps
<1> QED
  BY <1>1, <1>2, PTL DEF Spec

\* An engine that is off has no worker left to join, no stream, no frame in a queue
\* and no callback inside: Audio_stop gives back all that Audio_start took
\* (audio.c:307-352).
THEOREM StoppedIsQuiet == CalledInOrder /\ Spec => []StoppedMeansQuiet
<1> SUFFICES ASSUME CalledInOrder PROVE Spec => []StoppedMeansQuiet
  OBVIOUS
<1>1. CallerIInv => StoppedMeansQuiet
  BY CallerMeans
<1> QED
  BY <1>1, CallerInvariance, PTL

\* Every pthread_join of Audio_stop is of a thread that was created and has not been
\* joined (audio.c:318, 321).
THEOREM JoinsAreValid == CalledInOrder /\ Spec => []JoinsValid
<1> SUFFICES ASSUME CalledInOrder PROVE Spec => []JoinsValid
  OBVIOUS
<1>1. CallerIInv => JoinsValid
  BY CallerMeans
<1> QED
  BY <1>1, CallerInvariance, PTL

\* Between calls started means a running stream and workers that are not told to stop
\* (audio.c:260, 294, 347).
THEOREM StartedIsOn == CalledInOrder /\ Spec => []StartedMeansOn
<1> SUFFICES ASSUME CalledInOrder PROVE Spec => []StartedMeansOn
  OBVIOUS
<1>1. CallerIInv => StartedMeansOn
  BY CallerMeans
<1> QED
  BY <1>1, CallerInvariance, PTL

\* One producer at most is alive: Audio_stop has joined the last one before
\* Audio_start can create another (audio.c:253, 277, 318).
THEOREM SessionsAreSingle == CalledInOrder /\ Spec => []OneSession
<1> SUFFICES ASSUME CalledInOrder PROVE Spec => []OneSession
  OBVIOUS
<1>1. CallerIInv => OneSession
  BY CallerMeans
<1> QED
  BY <1>1, CallerInvariance, PTL

-----------------------------------------------------------------------------
(* The frames that bufferPlaybackQueue has waited for. *)

\* No step but Audio_init makes the size of playQ count less that it does not hold.
LEMMA CountedGrows ==
    ASSUME [Next]_vars, ~AudioInit
    PROVE  counted \subseteq counted'
<1>1. ASSUME NEW c \in Controllers, StopClear(c) \/ Teardown(c) PROVE counted' = counted
  BY <1>1 DEF StopClear, Teardown, PutBack, store, losses
<1>2. ASSUME NEW f \in FillIds, FillAlloc(f) \/ FillEnq(f) PROVE counted \subseteq counted'
  BY <1>2 DEF FillAlloc, FillEnq, losses
<1>3. ASSUME NEW g \in FlushIds, FlushTake(g) \/ FlushGive(g) PROVE counted' = counted
  BY <1>3 DEF FlushTake, FlushGive, PutBack, losses
<1>4. CbPlay \/ CbReturn \/ CbAlloc \/ CbSilence \/ CbEnq => counted' = counted
  BY DEF CbPlay, CbReturn, CbAlloc, CbSilence, CbEnq, PutBack, store, losses
<1>5. Still => counted' = counted
  BY DEF Still
<1> QED
  BY Movers, <1>1, <1>2, <1>3, <1>4, <1>5

\* They are still there when the stream is started, unless the size of playQ counts
\* frames that it does not hold.
Waited == step = "s_run" => counted # {} \/ Len(playQ) >= MinPlayback

\* Only the caller's wait leads to s_run, and until it runs the queue only grows.
LEMMA WaitedStep ==
    ASSUME CalledInOrder, CallerIInv, HoldsOK, Waited, [Next]_vars
    PROVE  Waited'
<1>1. Controllers = {Caller} /\ DOMAIN ctl = Controllers
  BY DEF CalledInOrder, CallerIInv, StepOK
<1> SUFFICES ASSUME step' = "s_run", counted' = {} PROVE Len(playQ') >= MinPlayback
  BY DEF Waited
<1>2. CASE step = "s_run"
  <2>1. ~AudioInit /\ \A c \in Controllers : ~StopClear(c) /\ ~Teardown(c)
    BY <1>1, <1>2 DEF AudioInit, StopClear, Teardown, At, step
  <2>2. ~CbPlay
    BY <1>2 DEF CallerIInv, StreamOK, Opened, CbPlay
  <2>3. ASSUME NEW f \in FillIds, FillEnq(f) PROVE Len(playQ') >= Len(playQ)
    <3>1. playQ \in Seq(Held) /\ fillBuf[f] \in Held
      BY DEF HoldsOK
    <3>2. Len(playQ) \in Nat /\ Len(Append(playQ, fillBuf[f])) = Len(playQ) + 1
      BY <3>1, AppendProperties, LenProperties
    <3>3. playQ' = playQ \/ playQ' = Append(playQ, fillBuf[f])
      BY <2>3 DEF FillEnq
    <3> QED
      BY <3>2, <3>3
  <2>4. (\E f \in FillIds : FillEnq(f)) \/ UNCHANGED playQ
    <3>1. ASSUME NEW f \in FillIds, FillAlloc(f) PROVE UNCHANGED playQ
      BY <3>1 DEF FillAlloc
    <3>2. ASSUME NEW g \in FlushIds, FlushTake(g) \/ FlushGive(g) PROVE UNCHANGED playQ
      BY <3>2 DEF FlushTake, FlushGive
    <3>3. CbReturn \/ CbAlloc \/ CbSilence \/ CbEnq \/ Still => UNCHANGED playQ
      BY DEF CbReturn, CbAlloc, CbSilence, CbEnq, Still, store
    <3> QED
      BY Movers, <2>1, <2>2, <3>1, <3>2, <3>3
  <2>5. Len(playQ) >= MinPlayback /\ Len(playQ) \in Nat /\ MinPlayback \in Nat
    <3>1. counted = {}
      BY <2>1, CountedGrows
    <3> QED
      BY <1>2, <3>1, LimitsAssumption, LenProperties DEF Waited, HoldsOK
  <2>6. CASE \E f \in FillIds : FillEnq(f)
    <3>1. PICK f \in FillIds : FillEnq(f)
      BY <2>6
    <3>2. Len(playQ') >= Len(playQ)
      BY <2>3, <3>1
    <3>3. Len(playQ') \in Nat
      BY HoldsStep, LenProperties DEF HoldsOK
    <3> QED
      BY <2>5, <3>2, <3>3
  <2>7. CASE UNCHANGED playQ
    BY <2>5, <2>7
  <2> QED
    BY <2>4, <2>6, <2>7
<1>3. CASE step # "s_run"
  <2>1. ~UNCHANGED ctl
    BY <1>3 DEF step
  <2>2. ~AudioInit /\ ~UNCHANGED vars
    BY <2>1 DEF AudioInit, vars, control
  <2>3. ~Start(Caller) /\ ~Stop(Caller)
    BY <1>1 DEF Start, Stop, Goto, step
  <2>4. /\ ~StartTest(Caller) /\ ~StartFlags(Caller) /\ ~StartInit(Caller)
        /\ ~StartOpen(Caller) /\ ~StartFill(Caller)
    BY <1>1 DEF StartTest, StartFlags, StartInit, StartOpen, StartFill, Goto, Return, step
  <2>5. ~StartRun(Caller) /\ ~StartFlush(Caller) /\ ~StartDone(Caller) /\ ~StartClose(Caller)
    BY <1>1 DEF StartRun, StartFlush, StartDone, StartClose, Goto, Return, step
  <2>6. ~StopTest(Caller) /\ ~StopClose(Caller) /\ ~StopClosing(Caller)
    BY <1>1 DEF StopTest, StopClose, StopClosing, Goto, StopReturn, step
  <2>7. /\ ~StopJoinFill(Caller) /\ ~StopJoinFlush(Caller) /\ ~StopClear(Caller)
        /\ ~StopDone(Caller)
    BY <1>1, <2>1 DEF StopJoinFill, StopJoinFlush, StopClear, StopDone, Goto, step
  <2>8. ~StopNull(Caller) /\ ~Teardown(Caller)
    BY <1>1 DEF StopNull, Teardown, Goto, StopReturn, step
  <2>9. StartWait(Caller)
    BY <1>1, <2>1, <2>2, <2>3, <2>4, <2>5, <2>6, <2>7, <2>8, WorkerStep
       DEF Next, StartStep, StopStep
  <2>10. Len(playQ) + Cardinality(counted) >= MinPlayback /\ UNCHANGED <<playQ, counted>>
    BY <2>9 DEF StartWait, store, losses
  <2>11. Cardinality(counted) = 0
    BY <2>10, FS_EmptySet
  <2>12. Len(playQ) \in Nat
    BY LenProperties DEF HoldsOK
  <2> QED
    BY <2>10, <2>11, <2>12
<1> QED
  BY <1>2, <1>3

\* The stream begins to play only over MIN_PLAYBACK_QUEUE_LENGTH frames, unless an
\* lfqueue_enq has counted a frame that it had no node for: the fill thread adds to
\* them between the wait and Pa_StartStream, and nobody takes one
\* (audio.c:279, 285, 364-370).
THEOREM PlaybackIsBuffered == CalledInOrder /\ Spec => StartPrebuffered
<1> SUFFICES ASSUME CalledInOrder PROVE Spec => StartPrebuffered
  OBVIOUS
<1>1. Init => Waited
  BY DEF Init, Waited, step, CalledInOrder
<1>2. CallerIInv /\ BuffersIInv /\ Waited /\ [Next]_vars => Waited'
  BY WaitedStep DEF BuffersIInv
<1>3. CallerIInv /\ Waited /\ [Next]_vars
        => [(stream # "running" /\ stream' = "running" /\ counted = {})
                => Len(playQ) >= MinPlayback]_vars
  <2> SUFFICES ASSUME CallerIInv, Waited, [Next]_vars, stream # "running", stream' = "running",
                      counted = {}
               PROVE  Len(playQ) >= MinPlayback
    OBVIOUS
  <2>1. Controllers = {Caller}
    BY DEF CalledInOrder
  <2>2. ~UNCHANGED stream
    OBVIOUS
  <2>3. ~AudioInit /\ ~UNCHANGED vars
    BY <2>2 DEF AudioInit, vars
  <2>4. ~Start(Caller) /\ ~Stop(Caller)
    BY <2>2 DEF Start, Stop
  <2>5. /\ ~StartTest(Caller) /\ ~StartFlags(Caller) /\ ~StartInit(Caller)
        /\ ~StartOpen(Caller) /\ ~StartFill(Caller)
    BY <2>2 DEF StartTest, StartFlags, StartInit, StartOpen, StartFill
  <2>6. /\ ~StartWait(Caller) /\ ~StartFlush(Caller) /\ ~StartDone(Caller)
        /\ ~StartClose(Caller)
    BY <2>2 DEF StartWait, StartFlush, StartDone, StartClose
  <2>7. ~StopStep(Caller)
    BY <2>2 DEF StopStep, StopTest, StopJoinFill, StopJoinFlush, StopClose, StopClosing,
                StopClear, StopDone, StopNull, Teardown
  <2>8. StartRun(Caller)
    BY <2>1, <2>2, <2>3, <2>4, <2>5, <2>6, <2>7, WorkerStep DEF Next, StartStep
  <2> QED
    BY <2>8 DEF StartRun, At, Waited, step
<1> QED
  BY <1>1, <1>2, <1>3, CallerInvariance, BuffersInvariance, PTL DEF Spec, StartPrebuffered

-----------------------------------------------------------------------------
\* One thread calls Audio_start, one calls Audio_stop, and playback is buffered.
\* Audio_init may be late and PortAudio may fail.
Starter == CHOOSE c \in Starters : TRUE
Stopper == CHOOSE c \in Stoppers : TRUE
OnePair == Starters = {Starter} /\ Stoppers = {Stopper} /\ Closers = {} /\ MinPlayback > 0

starter == ctl[Starter]
stopper == ctl[Stopper]
Working(f) == ~AtRest(fillPc[f])
Entering == {"s_flags", "s_init", "s_open", "s_fill"}
Past == {"t_joinFlush", "t_close", "t_closing", "t_clear", "t_done"}

RolesOK ==
    \A c \in Controllers :
        /\ ctl[c] \in StartSteps => c = Starter
        /\ ctl[c] \in StopSteps => c = Stopper
        /\ ctl[c] \notin {"teardown", "gone"}

\* A stop that goes on has found started set and has told the workers, and nothing
\* takes that back before it ends.
TellOK ==
    /\ stopper \in Past \cup {"t_joinFill"} => started /\ stopPlayback
    /\ starter = "s_flags" => ~started
    /\ starter \in {"s_init", "s_open", "s_fill"} => started \/ stopPlayback

\* No frame is left for a start that has passed the test of started.
EmptyOK == (~started \/ stopper = "t_done" \/ starter \in Entering) => playQ = <<>>

\* Only the thread of the handle works.  It does so under a stop that has passed the
\* join only if it was created after it: then it finds stopPlayback set, has played
\* nothing, and Audio_start waits.
AliveOK ==
    \A f \in FillIds : Working(f) =>
        /\ f = fillPlaybackQueueThread
        /\ starter \notin Entering
        /\ \/ started /\ stopper \notin Past
           \/ fillPc[f] = "loop" /\ stopPlayback /\ playQ = <<>> /\ starter = "s_wait"

PairOK == RolesOK /\ TellOK /\ EmptyOK /\ AliveOK

\* bufferPlaybackQueue has to wait for a frame: what the size of playQ counts and
\* playQ does not hold is not enough for it.
HasToWait == Cardinality(counted) < MinPlayback

PairIInv == HasToWait => PairOK

\* Each call is made by its thread.
LEMMA PairRoles ==
    ASSUME OnePair
    PROVE  /\ Starter \in Controllers /\ Stopper \in Controllers
           /\ \A c : c \in Starters <=> c = Starter
           /\ \A c : c \in Stoppers <=> c = Stopper
           /\ Closers = {}
<1>1. Starter \in Starters /\ Stopper \in Stoppers
  BY DEF OnePair
<1> HIDE DEF Starter, Stopper
<1> QED
  BY <1>1, RolesAssumption DEF OnePair

\* At first nobody is in a call.
LEMMA PairInit == OnePair /\ Init => PairOK
<1> SUFFICES ASSUME OnePair, Init PROVE PairOK
  OBVIOUS
<1> HIDE DEF Starter, Stopper
<1>1. starter = "idle" /\ stopper = "idle"
  BY PairRoles DEF Init, starter, stopper
<1>2. RolesOK
  BY DEF Init, RolesOK, StartSteps, StopSteps
<1>3. TellOK /\ EmptyOK
  BY <1>1 DEF Init, TellOK, EmptyOK, Entering, Past
<1>4. AliveOK
  BY DEF Init, AliveOK, Working, AtRest
<1> QED
  BY <1>2, <1>3, <1>4 DEF PairOK

\* What the steps of the callers do not touch, when they touch none of it.
PairStill == UNCHANGED <<started, stopPlayback, playQ, fillPc, fillPlaybackQueueThread>>

\* Audio_start, one step of it.
LEMMA PairStart ==
    ASSUME OnePair, EngineIInv, PairOK, HasToWait,
           NEW c \in Controllers, Start(c) \/ StartStep(c)
    PROVE  PairOK'
<1> HIDE DEF Starter, Stopper
<1>t. /\ DOMAIN ctl = Controllers /\ started \in BOOLEAN /\ stopPlayback \in BOOLEAN
      /\ DOMAIN fillPc = FillIds /\ MinPlayback \in Nat /\ MinPlayback > 0
  BY LimitsAssumption DEF EngineIInv, TypeOK, OnePair
<1>c. c = Starter
  <2>1. CASE Start(c)
    BY <2>1, PairRoles DEF Start
  <2>2. CASE StartStep(c)
    <3>1. ctl[c] \in StartSteps
      BY <2>2 DEF StartStep, StartTest, StartFlags, StartInit, StartOpen, StartFill, StartWait,
         StartRun, StartFlush, StartDone, StartClose, At, StartSteps
    <3> QED
      BY <3>1 DEF PairOK, RolesOK
  <2> QED
    BY <2>1, <2>2
\* The step moves the starter only; where the stopper is the same thread it is in no stop.
<1>m. ASSUME NEW s, ctl' = [ctl EXCEPT ![c] = s], s \in StartSteps \cup {"idle"}
      PROVE  /\ starter' = s
             /\ stopper' = stopper \/ stopper' \notin StopSteps
             /\ RolesOK'
  <2>1. starter' = s
    BY <1>c, <1>m, <1>t DEF starter
  <2>2. stopper' = stopper \/ stopper' = s
    BY <1>m, <1>t, PairRoles DEF stopper
  <2>3. s \notin StopSteps /\ s \notin {"teardown", "gone"}
    BY <1>m DEF StartSteps, StopSteps
  <2>4. RolesOK'
    BY <1>c, <1>m, <1>t, <2>3 DEF PairOK, RolesOK
  <2> QED
    BY <2>1, <2>2, <2>3, <2>4
<1>p. Past \cup {"t_joinFill", "t_done"} \subseteq StopSteps
  BY DEF Past, StopSteps
<1>1. CASE Start(c)
  <2>1. ctl' = [ctl EXCEPT ![c] = "s_test"] /\ starter = "idle" /\ PairStill
    BY <1>1, <1>c DEF Start, Goto, starter, flags, store, fills, handles, PairStill
  <2>2. starter' = "s_test" /\ RolesOK' /\ (stopper' = stopper \/ stopper' \notin StopSteps)
    BY <2>1, <1>m DEF StartSteps
  <2> QED
    BY <2>1, <2>2, <1>p DEF PairOK, TellOK, EmptyOK, AliveOK, PairStill, Entering, Working, AtRest
<1>2. CASE StartTest(c)
  <2>1. PairStill /\ starter = "s_test"
    BY <1>2, <1>c DEF StartTest, At, starter, flags, store, fills, handles, PairStill
  <2>2. CASE started /\ ctl' = [ctl EXCEPT ![c] = "idle"]
    <3>1. starter' = "idle" /\ RolesOK' /\ (stopper' = stopper \/ stopper' \notin StopSteps)
      BY <2>2, <1>m
    <3> QED
      BY <2>1, <2>2, <3>1, <1>p DEF PairOK, TellOK, EmptyOK, AliveOK, PairStill, Entering,
                                    Working, AtRest
  <2>3. CASE ~started /\ ctl' = [ctl EXCEPT ![c] = "s_flags"]
    <3>1. starter' = "s_flags" /\ RolesOK' /\ (stopper' = stopper \/ stopper' \notin StopSteps)
      BY <2>3, <1>m DEF StartSteps
    <3> QED
      BY <2>1, <2>3, <3>1, <1>p DEF PairOK, TellOK, EmptyOK, AliveOK, PairStill, Entering,
                                    Working, AtRest
  <2> QED
    BY <1>2, <2>2, <2>3 DEF StartTest, Return, Goto
<1>3. CASE StartFlags(c)
  <2>1. /\ starter = "s_flags" /\ ctl' = [ctl EXCEPT ![c] = "s_init"]
        /\ started' = TRUE /\ stopPlayback' = FALSE
        /\ UNCHANGED <<playQ, fillPc, fillPlaybackQueueThread>>
    BY <1>3, <1>c DEF StartFlags, At, Goto, starter, store, fills, handles
  <2>2. stopper \notin Past \cup {"t_joinFill"} /\ playQ = <<>>
    BY <2>1 DEF PairOK, TellOK, EmptyOK, Entering
  <2>3. starter' = "s_init" /\ stopper' \notin Past \cup {"t_joinFill"} /\ RolesOK'
    BY <2>1, <2>2, <1>m, <1>p DEF StartSteps
  <2> QED
    BY <2>1, <2>2, <2>3 DEF PairOK, TellOK, EmptyOK, AliveOK, Entering, Working, AtRest
<1>4. CASE StartInit(c) \/ StartOpen(c)
  <2>1. /\ PairStill /\ starter \in {"s_init", "s_open"}
        /\ \E s \in {"s_open", "s_fill", "idle"} : ctl' = [ctl EXCEPT ![c] = s]
    BY <1>4, <1>c DEF StartInit, StartOpen, At, Goto, Return, starter, flags, store, fills,
                      handles, PairStill
  <2>2. /\ starter' \in {"s_open", "s_fill", "idle"} /\ RolesOK'
        /\ stopper' = stopper \/ stopper' \notin StopSteps
    BY <2>1, <1>m DEF StartSteps
  <2> QED
    BY <2>1, <2>2, <1>p DEF PairOK, TellOK, EmptyOK, AliveOK, PairStill, Entering, Working, AtRest
<1>5. CASE StartFill(c)
  <2>1. /\ starter = "s_fill" /\ ctl' = [ctl EXCEPT ![c] = "s_wait"]
        /\ fillPlaybackQueueThread' = Created(fillPc) + 1
        /\ fillPc' = [fillPc EXCEPT ![Created(fillPc) + 1] = "loop"]
        /\ UNCHANGED <<started, stopPlayback, playQ>>
    BY <1>5, <1>c DEF StartFill, At, Goto, starter, flags, store
  <2>2. playQ = <<>> /\ (started \/ stopPlayback) /\ \A f \in FillIds : ~Working(f)
    BY <2>1 DEF PairOK, TellOK, EmptyOK, AliveOK, Entering
  <2>3. starter' = "s_wait" /\ RolesOK' /\ (stopper' = stopper \/ stopper' \notin StopSteps)
    BY <2>1, <1>m DEF StartSteps
  <2>4. TellOK' /\ EmptyOK'
    BY <2>1, <2>2, <2>3, <1>p DEF PairOK, TellOK, EmptyOK, Entering
  <2>5. AliveOK'
    <3> SUFFICES ASSUME NEW f \in FillIds, Working(f)'
                 PROVE  /\ f = fillPlaybackQueueThread'
                        /\ \/ started' /\ stopper' \notin Past
                           \/ fillPc'[f] = "loop" /\ stopPlayback' /\ playQ' = <<>>
      BY <2>3 DEF AliveOK, Entering
    <3>1. f = Created(fillPc) + 1
      BY <2>1, <2>2, <1>t DEF Working, AtRest
    <3>2. fillPc'[f] = "loop"
      BY <2>1, <3>1, <1>t
    <3>3. stopPlayback \/ (started /\ stopper' \notin Past)
      BY <2>2, <2>3, <1>p DEF PairOK, TellOK
    <3> QED
      BY <2>1, <2>2, <3>1, <3>2, <3>3
  <2> QED
    BY <2>3, <2>4, <2>5 DEF PairOK
<1>6. CASE StartWait(c)
  <2>1. /\ PairStill /\ starter = "s_wait" /\ ctl' = [ctl EXCEPT ![c] = "s_run"]
        /\ Len(playQ) + Cardinality(counted) >= MinPlayback
    BY <1>6, <1>c DEF StartWait, At, Goto, starter, flags, store, fills, handles, PairStill
  <2>2. playQ # <<>>
    <3>1. Cardinality(counted) \in Nat
      BY BuffersAssumption, FS_Subset, FS_CardinalityType DEF EngineIInv, TypeOK
    <3> QED
      BY <2>1, <3>1, <1>t, EmptySeq DEF HasToWait
  <2>3. starter' = "s_run" /\ RolesOK' /\ (stopper' = stopper \/ stopper' \notin StopSteps)
    BY <2>1, <1>m DEF StartSteps
  <2> QED
    BY <2>1, <2>2, <2>3, <1>p DEF PairOK, TellOK, EmptyOK, AliveOK, PairStill, Entering, Working, AtRest
<1>7. CASE StartRun(c) \/ StartFlush(c) \/ StartClose(c)
  <2>1. /\ PairStill /\ starter \in {"s_run", "s_flush", "s_close"}
        /\ \E s \in {"s_flush", "s_close", "s_done", "idle"} : ctl' = [ctl EXCEPT ![c] = s]
    BY <1>7, <1>c DEF StartRun, StartFlush, StartClose, At, Goto, Return, starter, flags, store,
                      fills, handles, PairStill
  <2>2. /\ starter' \in {"s_flush", "s_close", "s_done", "idle"} /\ RolesOK'
        /\ stopper' = stopper \/ stopper' \notin StopSteps
    BY <2>1, <1>m DEF StartSteps
  <2> QED
    BY <2>1, <2>2, <1>p DEF PairOK, TellOK, EmptyOK, AliveOK, PairStill, Entering, Working, AtRest
<1>8. CASE StartDone(c)
  <2>1. /\ starter = "s_done" /\ ctl' = [ctl EXCEPT ![c] = "idle"] /\ started' = TRUE
        /\ UNCHANGED <<stopPlayback, playQ, fillPc, fillPlaybackQueueThread>>
    BY <1>8, <1>c DEF StartDone, At, Goto, Return, starter, store, fills, handles
  <2>2. starter' = "idle" /\ RolesOK' /\ (stopper' = stopper \/ stopper' \notin StopSteps)
    BY <2>1, <1>m
  <2> QED
    BY <2>1, <2>2, <1>p DEF PairOK, TellOK, EmptyOK, AliveOK, Entering, Working, AtRest
<1> QED
  BY <1>1, <1>2, <1>3, <1>4, <1>5, <1>6, <1>7, <1>8 DEF StartStep

\* Audio_stop, one step of it.
LEMMA PairStop ==
    ASSUME OnePair, EngineIInv, PairOK, NEW c \in Controllers, Stop(c) \/ StopStep(c)
    PROVE  PairOK'
<1> HIDE DEF Starter, Stopper
<1>t. /\ DOMAIN ctl = Controllers /\ started \in BOOLEAN /\ stopPlayback \in BOOLEAN
      /\ DOMAIN fillPc = FillIds
  BY DEF EngineIInv, TypeOK
<1>c. c = Stopper
  <2>1. CASE Stop(c)
    BY <2>1, PairRoles DEF Stop
  <2>2. CASE StopStep(c)
    <3>1. ctl[c] \in StopSteps \cup {"teardown"}
      BY <2>2 DEF StopStep, StopTest, StopJoinFill, StopJoinFlush, StopClose, StopClosing,
         StopClear, StopDone, StopNull, Teardown, At, StopSteps
    <3> QED
      BY <3>1 DEF PairOK, RolesOK
  <2> QED
    BY <2>1, <2>2
<1>r. ASSUME NEW r, StopReturn(c, r) PROVE ctl' = [ctl EXCEPT ![c] = "idle"]
  BY <1>r, PairRoles DEF StopReturn, Goto
\* The step moves the stopper only; where the starter is the same thread it is in no start.
<1>m. ASSUME NEW s, ctl' = [ctl EXCEPT ![c] = s], s \in StopSteps \cup {"idle"}
      PROVE  /\ stopper' = s
             /\ starter' = starter \/ starter' \notin StartSteps
             /\ RolesOK'
  <2>1. stopper' = s
    BY <1>c, <1>m, <1>t DEF stopper
  <2>2. starter' = starter \/ starter' = s
    BY <1>m, <1>t, PairRoles DEF starter
  <2>3. s \notin StartSteps /\ s \notin {"teardown", "gone"}
    BY <1>m DEF StartSteps, StopSteps
  <2>4. RolesOK'
    BY <1>c, <1>m, <1>t, <2>3 DEF PairOK, RolesOK
  <2> QED
    BY <2>1, <2>2, <2>3, <2>4
\* A doomed start is not the step of a stop.
<1>w. starter = "s_wait" => starter' = starter
  <2> SUFFICES ASSUME starter = "s_wait" PROVE starter' = starter
    OBVIOUS
  <2>1. c # Starter
    <3>1. ctl[c] \in StopSteps \cup {"idle", "teardown"}
      BY DEF Stop, StopStep, StopTest, StopJoinFill, StopJoinFlush, StopClose, StopClosing,
             StopClear, StopDone, StopNull, Teardown, At, StopSteps
    <3>2. "s_wait" \notin StopSteps \cup {"idle", "teardown"}
      BY DEF StopSteps
    <3> QED
      BY <3>1, <3>2 DEF starter
  <2>2. ctl' = ctl \/ \E s : ctl' = [ctl EXCEPT ![c] = s]
    BY CallerStep
  <2>3. CASE ctl' = ctl
    BY <2>3 DEF starter
  <2>4. CASE \E s : ctl' = [ctl EXCEPT ![c] = s]
    <3>1. PICK s : ctl' = [ctl EXCEPT ![c] = s]
      BY <2>4, Zenon
    <3>2. Starter \in DOMAIN ctl
      BY <1>t, PairRoles
    <3>3. ctl'[Starter] = ctl[Starter]
      BY <3>1, <3>2, <2>1
    <3> QED
      BY <3>3 DEF starter
  <2> QED
    BY <2>2, <2>3, <2>4
<1>p. Entering \cup {"s_flags", "s_init", "s_open", "s_fill"} \subseteq StartSteps
  BY DEF Entering, StartSteps
<1>1. CASE Stop(c)
  <2>1. ctl' = [ctl EXCEPT ![c] = "t_test"] /\ PairStill
    BY <1>1 DEF Stop, At, Goto, flags, store, fills, handles, PairStill
  <2>2. stopper' = "t_test" /\ RolesOK' /\ (starter' = starter \/ starter' \notin StartSteps)
    BY <2>1, <1>m DEF StopSteps
  <2> QED
    BY <2>1, <2>2, <1>p, <1>w DEF PairOK, TellOK, EmptyOK, AliveOK, PairStill, Past, Working, AtRest
<1>2. CASE StopTest(c)
  <2>1. stopper = "t_test" /\ UNCHANGED <<started, playQ, fillPc, fillPlaybackQueueThread>>
    BY <1>2, <1>c DEF StopTest, At, stopper, store, fills, handles
  <2>2. CASE ~started /\ StopReturn(c, "AUDIO_ALREADY_STOPPED") /\ UNCHANGED stopPlayback
    <3>1. stopper' = "idle" /\ RolesOK' /\ (starter' = starter \/ starter' \notin StartSteps)
      BY <2>2, <1>m, <1>r
    <3> QED
      BY <2>1, <2>2, <3>1, <1>p, <1>w DEF PairOK, TellOK, EmptyOK, AliveOK, Past, Working, AtRest
  <2>3. CASE started /\ ctl' = [ctl EXCEPT ![c] = "t_joinFill"] /\ stopPlayback' = TRUE
    <3>1. stopper' = "t_joinFill" /\ RolesOK' /\ (starter' = starter \/ starter' \notin StartSteps)
      BY <2>3, <1>m DEF StopSteps
    <3> QED
      BY <2>1, <2>3, <3>1, <1>p, <1>w DEF PairOK, TellOK, EmptyOK, AliveOK, Past, Working, AtRest
  <2> QED
    BY <1>2, <2>2, <2>3 DEF StopTest, Goto
<1>3. CASE StopJoinFill(c)
  <2>1. /\ stopper = "t_joinFill"
        /\ UNCHANGED <<started, stopPlayback, playQ, fillPlaybackQueueThread>>
    BY <1>3, <1>c DEF StopJoinFill, At, stopper, flags, store, handles
  <2>2. CASE UNCHANGED <<ctl, fillPc>>
    BY <2>1, <2>2 DEF PairOK, RolesOK, TellOK, EmptyOK, AliveOK, Working, AtRest, starter, stopper
  <2>3. CASE /\ fillPc[fillPlaybackQueueThread] \in {"ended", "joined"}
             /\ fillPc' = [fillPc EXCEPT ![fillPlaybackQueueThread] = "joined"]
             /\ ctl' = [ctl EXCEPT ![c] = "t_joinFlush"]
    <3>1. stopper' = "t_joinFlush" /\ RolesOK' /\ (starter' = starter \/ starter' \notin StartSteps)
      BY <2>3, <1>m DEF StopSteps
    <3>2. \A f \in FillIds : ~Working(f)'
      BY <2>3, <1>t DEF PairOK, AliveOK, Working, AtRest
    <3> QED
      BY <2>1, <3>1, <3>2, <1>p DEF PairOK, TellOK, EmptyOK, AliveOK
  <2> QED
    BY <1>3, <2>2, <2>3 DEF StopJoinFill, Goto
<1>4. CASE StopJoinFlush(c) \/ StopClose(c) \/ StopClosing(c)
  <2>1. PairStill /\ stopper \in {"t_joinFlush", "t_close", "t_closing"}
    BY <1>4, <1>c DEF StopJoinFlush, StopClose, StopClosing, At, stopper, flags, store, fills,
                      handles, PairStill
  <2>2. CASE ctl' = ctl
    BY <2>1, <2>2 DEF PairOK, RolesOK, TellOK, EmptyOK, AliveOK, Working, AtRest, starter, stopper,
                      PairStill
  <2>3. CASE \E s \in {"t_close", "t_closing", "t_clear", "idle"} : ctl' = [ctl EXCEPT ![c] = s]
    <3>1. /\ stopper' \in {"t_close", "t_closing", "t_clear", "idle"} /\ RolesOK'
          /\ starter' = starter \/ starter' \notin StartSteps
      BY <2>3, <1>m DEF StopSteps
    <3> QED
      BY <2>1, <3>1, <1>p, <1>w DEF PairOK, TellOK, EmptyOK, AliveOK, Past, Working, AtRest, PairStill
  <2>4. ctl' = ctl \/ \E s \in {"t_close", "t_closing", "t_clear", "idle"} :
                         ctl' = [ctl EXCEPT ![c] = s]
    <3>1. CASE StopJoinFlush(c) \/ StopClosing(c)
      BY <3>1 DEF StopJoinFlush, StopClosing, Goto
    <3>2. CASE StopClose(c)
      BY <3>2, <1>r DEF StopClose, Goto
    <3> QED
      BY <1>4, <3>1, <3>2
  <2> QED
    BY <2>2, <2>3, <2>4
<1>5. CASE StopClear(c)
  <2>1. /\ stopper = "t_clear"
        /\ UNCHANGED <<started, stopPlayback, fillPc, fillPlaybackQueueThread>>
    BY <1>5, <1>c DEF StopClear, At, stopper, flags, fills, handles
  <2>2. CASE ctl' = ctl /\ (playQ = <<>> => playQ' = <<>>)
    BY <2>1, <2>2 DEF PairOK, RolesOK, TellOK, EmptyOK, AliveOK, Working, AtRest, starter, stopper
  <2>3. CASE playQ = <<>> /\ playQ' = playQ /\ ctl' = [ctl EXCEPT ![c] = "t_done"]
    <3>1. stopper' = "t_done" /\ RolesOK' /\ (starter' = starter \/ starter' \notin StartSteps)
      BY <2>3, <1>m DEF StopSteps
    <3> QED
      BY <2>1, <2>3, <3>1, <1>p, <1>w DEF PairOK, TellOK, EmptyOK, AliveOK, Past, Working, AtRest
  <2> QED
    BY <1>5, <2>2, <2>3 DEF StopClear, Goto, store
<1>6. CASE StopDone(c)
  <2>1. /\ stopper = "t_done" /\ started' = FALSE /\ ctl' = [ctl EXCEPT ![c] = "t_null"]
        /\ UNCHANGED <<stopPlayback, playQ, fillPc, fillPlaybackQueueThread>>
    BY <1>6, <1>c DEF StopDone, At, Goto, stopper, store, fills, handles
  <2>2. stopper' = "t_null" /\ RolesOK' /\ (starter' = starter \/ starter' \notin StartSteps)
    BY <2>1, <1>m DEF StopSteps
  <2> QED
    BY <2>1, <2>2, <1>p, <1>w DEF PairOK, TellOK, EmptyOK, AliveOK, Past, Working, AtRest
<1>7. CASE StopNull(c)
  <2>1. stopper = "t_null" /\ PairStill /\ StopReturn(c, "AUDIO_OK")
    BY <1>7, <1>c DEF StopNull, At, stopper, store, fills, handles, PairStill
  <2>2. stopper' = "idle" /\ RolesOK' /\ (starter' = starter \/ starter' \notin StartSteps)
    BY <2>1, <1>m, <1>r
  <2> QED
    BY <2>1, <2>2, <1>p, <1>w DEF PairOK, TellOK, EmptyOK, AliveOK, Past, Working, AtRest, PairStill
<1>8. ~Teardown(c)
  BY DEF Teardown, At, PairOK, RolesOK
<1> QED
  BY <1>1, <1>2, <1>3, <1>4, <1>5, <1>6, <1>7, <1>8 DEF StopStep

\* Audio_init finds nobody in a call and no thread.
LEMMA PairAtInit ==
    ASSUME OnePair, EngineIInv, AudioInit
    PROVE  PairOK'
<1> HIDE DEF Starter, Stopper
<1>1. /\ \A c \in Controllers : ctl[c] = "idle"
      /\ ~initialized /\ UNCHANGED <<ctl, fillPc>> /\ playQ' = <<>>
  BY DEF AudioInit, control, fills
<1>2. Untouched
  BY <1>1 DEF EngineIInv, BuffersIInv, Asleep
<1>3. \A f \in FillIds : ~Working(f)'
  BY <1>1, <1>2 DEF Untouched, Working, AtRest
<1>4. starter' = "idle" /\ stopper' = "idle"
  BY <1>1, PairRoles DEF starter, stopper
<1>5. RolesOK'
  BY <1>1 DEF RolesOK, StartSteps, StopSteps
<1> QED
  BY <1>1, <1>3, <1>4, <1>5 DEF PairOK, TellOK, EmptyOK, AliveOK, Entering, Past

\* The workers and the callback: frames are put by the one thread that
\* works, while the audio is started.
LEMMA PairWork ==
    ASSUME OnePair, EngineIInv, PairOK,
           \/ CallbackStep \/ UNCHANGED vars
           \/ \E f \in FillIds : FillStep(f)
           \/ \E g \in FlushIds : FlushStep(g)
    PROVE  PairOK'
<1> HIDE DEF Starter, Stopper
<1>t. DOMAIN fillPc = FillIds
  BY DEF EngineIInv, TypeOK
<1>k. ASSUME UNCHANGED <<ctl, started, stopPlayback, fillPc, fillPlaybackQueueThread>>,
             playQ = <<>> => playQ' = <<>>
      PROVE  PairOK'
  BY <1>k DEF PairOK, RolesOK, TellOK, EmptyOK, AliveOK, Working, AtRest, starter, stopper
<1>1. CASE CallbackStep
  BY <1>1, <1>k DEF CallbackStep, CbPlay, CbReturn, CbAlloc, CbSilence, CbEnq, flags, store,
                    fills, handles, control
<1>2. CASE UNCHANGED vars
  BY <1>2, <1>k DEF vars, flags, store, fills, handles, control
<1>3. ASSUME NEW g \in FlushIds, FlushStep(g) PROVE PairOK'
  BY <1>3, <1>k DEF FlushStep, FlushLoop, FlushTake, FlushConsume, FlushGive, flags, store,
                    fills, handles, control
<1>4. ASSUME NEW f \in FillIds, FillStep(f) PROVE PairOK'
  <2>1. /\ UNCHANGED <<ctl, started, stopPlayback, fillPlaybackQueueThread>> /\ Working(f)
        /\ \E s : fillPc' = [fillPc EXCEPT ![f] = s]
    BY <1>4 DEF FillStep, FillLoop, FillProduce, FillDrop, FillAlloc, FillEnq, FillAt, flags,
                handles, control, Working, AtRest
  <2>2. \A x \in FillIds \ {f} : ~Working(x)'
    BY <2>1, <1>t DEF PairOK, AliveOK, Working, AtRest
  <2>3. UNCHANGED <<starter, stopper>> /\ RolesOK'
    BY <2>1 DEF PairOK, RolesOK, starter, stopper
  <2>4. CASE fillPc[f] = "loop"
    <3>1. /\ playQ' = playQ
          /\ fillPc' = [fillPc EXCEPT ![f] = IF stopPlayback THEN "ended" ELSE "produce"]
      BY <1>4, <2>4 DEF FillStep, FillLoop, FillProduce, FillDrop, FillAlloc, FillEnq, FillAt,
                        store
    <3>2. stopPlayback => ~Working(f)'
      BY <3>1, <1>t DEF Working, AtRest
    <3> QED
      BY <2>1, <2>2, <2>3, <3>1, <3>2 DEF PairOK, TellOK, EmptyOK, AliveOK
  <2>5. CASE fillPc[f] # "loop"
    <3>1. started /\ stopper \notin Past /\ starter \notin Entering
          /\ f = fillPlaybackQueueThread
      BY <2>1, <2>5 DEF PairOK, AliveOK
    <3> QED
      BY <2>1, <2>2, <2>3, <3>1 DEF PairOK, TellOK, EmptyOK, AliveOK, Past
  <2> QED
    BY <2>4, <2>5
<1> QED
  BY <1>1, <1>2, <1>3, <1>4

\* What is counted by mistake stays counted until Audio_init.
LEMMA PairStep ==
    ASSUME OnePair, EngineIInv, PairIInv, [Next]_vars
    PROVE  PairIInv'
<1> SUFFICES ASSUME HasToWait' PROVE PairOK'
  BY DEF PairIInv
<1>1. CASE AudioInit
  BY <1>1, PairAtInit
<1>2. CASE ~AudioInit
  <2>1. HasToWait
    <3>1. IsFiniteSet(counted') /\ Cardinality(counted') \in Nat
      <4>1. counted' \subseteq Buffers
        BY EngineStep DEF EngineIInv, TypeOK
      <4> QED
        BY <4>1, BuffersAssumption, FS_Subset, FS_CardinalityType
    <3>2. counted \subseteq counted'
      BY <1>2, CountedGrows
    <3>3. Cardinality(counted) \in Nat /\ Cardinality(counted) <= Cardinality(counted')
      BY <3>1, <3>2, FS_Subset, FS_CardinalityType
    <3> QED
      BY <3>1, <3>3, LimitsAssumption DEF HasToWait
  <2>2. PairOK
    BY <2>1 DEF PairIInv
  <2> QED
    BY <1>2, <2>1, <2>2, PairStart, PairStop, PairWork DEF Next
<1> QED
  BY <1>1, <1>2

\* The invariant of a starting and a stopping thread.
THEOREM PairInvariance == ASSUME OnePair PROVE Spec => []PairIInv
<1>1. Init => PairIInv
  BY PairInit DEF PairIInv
<1>2. PairIInv /\ EngineIInv /\ [Next]_vars => PairIInv'
  BY PairStep
<1> QED
  BY <1>1, <1>2, EngineInvariance, PTL DEF Spec

\* One thread starts the audio and another stops it, at any moment, and PortAudio
\* may fail: there is never a second fill thread at work (audio.c:253, 277, 318), as
\* long as Audio_start has to wait for a frame.  Unlike the properties above this does
\* not need the calls to be made in turn.
THEOREM PairIsSingle == ASSUME OnePair PROVE Spec => []OneSession
<1>1. PairIInv => OneSession
  <2> SUFFICES ASSUME PairIInv, HasToWait
               PROVE  Cardinality({f \in FillIds : ~AtRest(fillPc[f])}) <= 1
    BY DEF OneSession, HasToWait
  <2> DEFINE W == {f \in FillIds : ~AtRest(fillPc[f])}
  <2>1. \A x, y \in W : x = y
    BY DEF PairIInv, PairOK, AliveOK, Working, AtRest
  <2> HIDE DEF W
  <2>2. Cardinality(W) <= 1
    BY <2>1, AtMostOne
  <2> QED
    BY <2>2 DEF W
<1> QED
  BY <1>1, PairInvariance, PTL
=============================================================================
