-------------------------------- MODULE Board --------------------------------
(***************************************************************************)
(* The parts of the project that share no state with the audio, the queues *)
(* and the threads of the phone, nor with each other: two phones that set  *)
(* a call up, the keypad, the lamps, the first ring buffer, the volume     *)
(* mixer, the audio prototype, the test of the lock-free ring and the      *)
(* frames of a call over its socket, each as its own module has it.  part  *)
(* says which one runs; the others rest.                                   *)
(***************************************************************************)
EXTENDS CallSetup, Keypad, Leds, RingBuffer, VolumeMixer, NonBlockingAudio, RingTest,
        Datagram

VARIABLES part

boardVars ==
    <<part, setupVars, keypadVars, ledsVars, ringVars, mixerVars, demoVars, ringTestVars,
      transportVars>>

Parts == {"setup", "keypad", "leds", "ring", "mixer", "demo", "ringtest", "transport"}

BoardInit ==
    /\ part \in Parts
    /\ SetupInit /\ KeypadInit /\ LedsInit /\ RingInit /\ MixerInit
    /\ DemoInit /\ RingTestInit /\ TransportInit
    /\ part # "setup" => inetAddress = CHOOSE f \in Addresses : TRUE

Runs(p) == part = p /\ UNCHANGED part

SetupRuns ==
    /\ Runs("setup")
    /\ UNCHANGED <<keypadVars, ledsVars, ringVars, mixerVars, demoVars, ringTestVars, transportVars>>
KeypadRuns ==
    /\ Runs("keypad")
    /\ UNCHANGED <<setupVars, ledsVars, ringVars, mixerVars, demoVars, ringTestVars, transportVars>>
LedsRun ==
    /\ Runs("leds")
    /\ UNCHANGED <<setupVars, keypadVars, ringVars, mixerVars, demoVars, ringTestVars, transportVars>>
RingRuns ==
    /\ Runs("ring")
    /\ UNCHANGED <<setupVars, keypadVars, ledsVars, mixerVars, demoVars, ringTestVars, transportVars>>
MixerRuns ==
    /\ Runs("mixer")
    /\ UNCHANGED <<setupVars, keypadVars, ledsVars, ringVars, demoVars, ringTestVars, transportVars>>
DemoRuns ==
    /\ Runs("demo")
    /\ UNCHANGED <<setupVars, keypadVars, ledsVars, ringVars, mixerVars, ringTestVars, transportVars>>
RingTestRuns ==
    /\ Runs("ringtest")
    /\ UNCHANGED <<setupVars, keypadVars, ledsVars, ringVars, mixerVars, demoVars, transportVars>>
TransportRuns ==
    /\ Runs("transport")
    /\ UNCHANGED <<setupVars, keypadVars, ledsVars, ringVars, mixerVars, demoVars, ringTestVars>>

BoardNext ==
    \/ SetupRuns /\ SetupNext
    \/ KeypadRuns /\ KeypadNext
    \/ LedsRun /\ LedsNext
    \/ RingRuns /\ RingNext
    \/ MixerRuns /\ MixerNext
    \/ DemoRuns /\ DemoNext
    \/ RingTestRuns /\ RingTestNext
    \/ TransportRuns /\ TransportNext

\* What each module asks for of the part that runs.
BoardFairness ==
    /\ \A p \in Phones :
         /\ WF_setupVars(part = "setup" /\ Handler(p))
         /\ WF_setupVars(part = "setup" /\ CallThread(p))
         /\ WF_setupVars(part = "setup" /\ ReceiveFrame(p))
    /\ WF_keypadVars(part = "keypad" /\ Scanning)
    /\ WF_ledsVars(part = "leds" /\ BlinkJoin)
    /\ WF_ledsVars(part = "leds" /\ \E b \in Blinkers : BlinkEnd(b))
    /\ WF_mixerVars(part = "mixer" /\ MixerMain)
    /\ WF_mixerVars(part = "mixer" /\ VolumeThread)
    /\ WF_mixerVars(part = "mixer" /\ I2cThread)
    /\ WF_ringTestVars(part = "ringtest" /\ RingTestNext)
    /\ WF_transportVars(part = "transport" /\ (SendMore \/ SendReturn))
    /\ WF_transportVars(part = "transport" /\ (RecvMore \/ RecvStop \/ RecvReturn))

BoardSpec == BoardInit /\ [][BoardNext]_boardVars /\ BoardFairness

\* Every variable of every part keeps to its values: the counters of the set-up,
\* of the rings and of the digits do not pass their bounds.  And the test of the
\* lock-free ring never says "Found violation" (main_lfringbuffer.c:65).
BoardInv ==
    /\ SetupTypeOK /\ KeypadTypeOK /\ LedsTypeOK /\ RingTypeOK /\ MixerTypeOK
    /\ DemoTypeOK /\ RingTestTypeOK /\ TransportTypeOK
    /\ NoViolationFound

\* What waits for somebody comes back: getDial, LED_red_blink_stop and the mixer's
\* main (keypad.c:123, led.c:169, volume_mixer.c:51-55).
BoardReturns == CompleteReturns /\ BlinkStopReturns /\ MixerEnds
=============================================================================
