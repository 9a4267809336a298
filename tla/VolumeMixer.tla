---------------------------- MODULE VolumeMixer ----------------------------
(***************************************************************************)
(* volume_mixer/: a program of its own.  One thread reads a potentiometer  *)
(* and sets the volume of the sound card; another shows the volume on two  *)
(* digits that share the registers of one I2C device, by lighting them in  *)
(* turn; main waits for SIGINT and shuts both down.  One action per access *)
(* to a shared variable, a GPIO file or the bus.  Built with -g and no     *)
(* optimisation, so each access in the source is one in the program.       *)
(* Where a device cannot be opened or written the process exits; that is   *)
(* left out.                                                               *)
(***************************************************************************)
EXTENDS Integers

CONSTANTS Readings,   \* values the potentiometer may have, 0 to 4095
          Max,        \* the greatest playback volume of the mixer element
          Unset       \* volume of the mixer before the program sets it

ASSUME MixerAssumption ==
    Readings \subseteq 0 .. 4095 /\ 0 \in Readings /\ Max \in Nat /\ Unset \notin Int

VARIABLES knob,            \* the potentiometer
          keepRunning, currentVolume, stoppingVolume, stoppingI2C,
          mpc, vpc, ipc,   \* the steps main, volumeThread and i2cThread are about to do
          volume,          \* local of volumeThread
          mixer,           \* the playback volume
          num, digit,      \* the argument of writeTwoDigitsToI2cRegister, and the digit
                           \* it is at
          lit,             \* digits whose GPIO pin is on
          upper, lower,    \* the registers: the digit whose half they hold
          bus              \* the bus is open

flags == <<keepRunning, stoppingVolume, stoppingI2C>>
display == <<lit, upper, lower, bus>>
volumeLocals == <<vpc, volume, mixer, currentVolume>>
i2cLocals == <<ipc, num, digit>>
mixerVars == <<knob, flags, mpc, volumeLocals, i2cLocals, display>>

Digits == {"left", "right"}
Volumes == 0 .. 100

\* reading_to_volume: the quotient is cut off when it is stored in a long, and
\* round finds nothing left to do.
Volume(reading) == (reading * 100) \div 4095

\* volume * max / 100, in set_volume.
Level(v) == (v * Max) \div 100

\* "Cap at 99", then the tens or the ones.
Figure(v, d) ==
    LET capped == IF v > 99 THEN 99 ELSE v
    IN  IF d = "left" THEN capped \div 10 ELSE capped % 10

MixerTypeOK ==
    /\ knob \in Readings
    /\ keepRunning \in BOOLEAN /\ stoppingVolume \in BOOLEAN /\ stoppingI2C \in BOOLEAN
    /\ mpc \in {"init", "spin", "joinVolume", "stopI2C", "joinI2C", "dark", "close", "over"}
    /\ vpc \in {"none", "loop", "compare", "mixer", "store", "ended"}
    /\ ipc \in {"none", "loop", "dark", "light", "upper", "lower", "delay", "ended"}
    /\ currentVolume \in Volumes /\ volume \in Volumes /\ num \in Volumes
    /\ mixer \in {Unset} \cup {Level(v) : v \in Volumes}
    /\ digit \in Digits /\ lit \in SUBSET Digits
    /\ upper \in -1 .. 9 /\ lower \in -1 .. 9
    /\ bus \in BOOLEAN

MixerInit ==
    /\ knob = 0
    /\ keepRunning = TRUE /\ currentVolume = 0
    /\ stoppingVolume = FALSE /\ stoppingI2C = FALSE
    /\ mpc = "init" /\ vpc = "none" /\ ipc = "none"
    /\ volume = 0 /\ mixer = Unset
    /\ num = 0 /\ digit = "left"
    /\ lit = {} /\ upper = -1 /\ lower = -1
    /\ bus = FALSE

\* The digits' pins are set to value.
Gpio_setValue(pins, value) == lit' = IF value = 1 THEN lit \cup pins ELSE lit \ pins

-----------------------------------------------------------------------------
\* --- the world ---------------------------------------------------------------

Turn(r) ==
    /\ knob' = r /\ r # knob
    /\ UNCHANGED <<flags, mpc, volumeLocals, i2cLocals, display>>

\* SIGINT, whose handler is set after volume_init.
BoolHandler ==
    /\ mpc # "init" /\ keepRunning
    /\ keepRunning' = FALSE
    /\ UNCHANGED <<knob, stoppingVolume, stoppingI2C, mpc, volumeLocals, i2cLocals, display>>

\* --- main --------------------------------------------------------------------

VolumeInit ==
    /\ mpc = "init"
    /\ Gpio_setValue(Digits, 1) /\ bus' = TRUE
    /\ vpc' = "loop" /\ ipc' = "loop"
    /\ mpc' = "spin"
    /\ UNCHANGED <<knob, flags, volume, mixer, currentVolume, num, digit, upper, lower>>

\* while (keepRunning) ; and the first line of volume_cleanup.
Spin ==
    /\ mpc = "spin" /\ ~keepRunning
    /\ stoppingVolume' = TRUE
    /\ mpc' = "joinVolume"
    /\ UNCHANGED <<knob, keepRunning, stoppingI2C, volumeLocals, i2cLocals, display>>

JoinVolume ==
    /\ mpc = "joinVolume" /\ vpc = "ended"
    /\ mpc' = "stopI2C"
    /\ UNCHANGED <<knob, flags, volumeLocals, i2cLocals, display>>

\* Mutant: the flag is not set.
StopI2C_Forget ==
    /\ mpc = "stopI2C"
    /\ mpc' = "joinI2C"
    /\ UNCHANGED <<knob, flags, volumeLocals, i2cLocals, display>>

StopI2C ==
    /\ mpc = "stopI2C"
    /\ stoppingI2C' = TRUE
    /\ mpc' = "joinI2C"
    /\ UNCHANGED <<knob, keepRunning, stoppingVolume, volumeLocals, i2cLocals, display>>

\* Mutant: main does not wait for the thread.
JoinI2C_Not ==
    /\ mpc = "joinI2C"
    /\ mpc' = "dark"
    /\ UNCHANGED <<knob, flags, volumeLocals, i2cLocals, display>>

JoinI2C ==
    /\ mpc = "joinI2C" /\ ipc = "ended"
    /\ mpc' = "dark"
    /\ UNCHANGED <<knob, flags, volumeLocals, i2cLocals, display>>

DisableDigits ==
    /\ mpc = "dark"
    /\ Gpio_setValue(Digits, 0)
    /\ mpc' = "close"
    /\ UNCHANGED <<knob, flags, volumeLocals, i2cLocals, upper, lower, bus>>

CloseI2cBus ==
    /\ mpc = "close"
    /\ bus' = FALSE
    /\ mpc' = "over"
    /\ UNCHANGED <<knob, flags, volumeLocals, i2cLocals, lit, upper, lower>>

\* --- volumeThread --------------------------------------------------------------

ReadKnob ==
    /\ vpc = "loop"
    /\ IF stoppingVolume
       THEN vpc' = "ended" /\ UNCHANGED volume
       ELSE vpc' = "compare" /\ volume' = Volume(knob)
    /\ UNCHANGED <<knob, flags, mpc, mixer, currentVolume, i2cLocals, display>>

Compare ==
    /\ vpc = "compare"
    /\ vpc' = IF volume # currentVolume THEN "mixer" ELSE "loop"
    /\ UNCHANGED <<knob, flags, mpc, volume, mixer, currentVolume, i2cLocals, display>>

SetMixer ==
    /\ vpc = "mixer"
    /\ mixer' = Level(volume)
    /\ vpc' = "store"
    /\ UNCHANGED <<knob, flags, mpc, volume, currentVolume, i2cLocals, display>>

StoreVolume ==
    /\ vpc = "store"
    /\ currentVolume' = volume
    /\ vpc' = "loop"
    /\ UNCHANGED <<knob, flags, mpc, volume, mixer, i2cLocals, display>>

\* --- i2cThread -----------------------------------------------------------------

\* Mutant: the volume is loaded once.
LoadVolume_Once ==
    /\ ipc = "loop"
    /\ IF stoppingI2C
       THEN ipc' = "ended" /\ UNCHANGED <<num, digit>>
       ELSE ipc' = "dark" /\ digit' = "left" /\ UNCHANGED num
    /\ UNCHANGED <<knob, flags, mpc, volumeLocals, display>>

LoadVolume ==
    /\ ipc = "loop"
    /\ IF stoppingI2C
       THEN ipc' = "ended" /\ UNCHANGED <<num, digit>>
       ELSE ipc' = "dark" /\ num' = currentVolume /\ digit' = "left"
    /\ UNCHANGED <<knob, flags, mpc, volumeLocals, display>>

Darken ==
    /\ ipc = "dark"
    /\ Gpio_setValue(Digits, 0)
    /\ ipc' = "light"
    /\ UNCHANGED <<knob, flags, mpc, volumeLocals, num, digit, upper, lower, bus>>

Light ==
    /\ ipc = "light"
    /\ Gpio_setValue({digit}, 1)
    /\ ipc' = "upper"
    /\ UNCHANGED <<knob, flags, mpc, volumeLocals, num, digit, upper, lower, bus>>

WriteUpper ==
    /\ ipc = "upper"
    /\ upper' = Figure(num, digit)
    /\ ipc' = "lower"
    /\ UNCHANGED <<knob, flags, mpc, volumeLocals, num, digit, lit, lower, bus>>

WriteLower ==
    /\ ipc = "lower"
    /\ lower' = Figure(num, digit)
    /\ ipc' = "delay"
    /\ UNCHANGED <<knob, flags, mpc, volumeLocals, num, digit, lit, upper, bus>>

Delay ==
    /\ ipc = "delay"
    /\ IF digit = "left"
       THEN digit' = "right" /\ ipc' = "dark"
       ELSE ipc' = "loop" /\ UNCHANGED digit
    /\ UNCHANGED <<knob, flags, mpc, volumeLocals, num, display>>

-----------------------------------------------------------------------------
MixerMain ==
    \/ VolumeInit \/ Spin \/ JoinVolume \/ StopI2C \/ JoinI2C \/ DisableDigits \/ CloseI2cBus

VolumeThread == ReadKnob \/ Compare \/ SetMixer \/ StoreVolume

I2cThread == LoadVolume \/ Darken \/ Light \/ WriteUpper \/ WriteLower \/ Delay

MixerNext ==
    \/ MixerMain \/ VolumeThread \/ I2cThread \/ BoolHandler
    \/ \E r \in Readings : Turn(r)

\* The three threads run; the user turns the knob or not.
MixerFairness == WF_mixerVars(MixerMain) /\ WF_mixerVars(VolumeThread) /\ WF_mixerVars(I2cThread)

MixerSpec == MixerInit /\ [][MixerNext]_mixerVars /\ MixerFairness

-----------------------------------------------------------------------------
(* Properties. *)

\* Nobody writes to the bus before it is open or after closeI2cBus, where a
\* write would fail and the process exit with an error (i2c.c:188-193): the
\* order of volume_cleanup, lines 51-58.
BusOpenWhenWritten == ipc \in {"upper", "lower"} => bus

\* While a digit is shown it is the only one that is lit, and it shows a whole
\* figure of the number it was asked to show, not a half of the one before: the
\* two digits share their registers (i2c.c:173-181).
WholeFigures ==
    ipc = "delay" => lit = {digit} /\ upper = Figure(num, digit) /\ lower = upper

\* The display is dark when the program has ended (volume_mixer.c:57).
DarkAtTheEnd == mpc = "over" => lit = {}

\* currentVolume, from which line 104 tells whether the mixer has to be set and
\* which the display shows, is the volume of the mixer, once that has been set.
MixerInStep ==
    vpc \notin {"mixer", "store"} =>
        mixer = Level(currentVolume) \/ (mixer = Unset /\ currentVolume = 0)

\* The display is written to while it can be, shows whole figures, and is dark in
\* the end; what it shows is the mixer's.
MixerInv == BusOpenWhenWritten /\ WholeFigures /\ DarkAtTheEnd /\ MixerInStep

\* When the knob comes to rest, the mixer and the figures come to be those of its
\* volume.  The initial currentVolume, 0, is never set (volume_mixer.c:17, 104).
KnobRules ==
    \A r \in Readings :
        <>[](knob = r /\ keepRunning) =>
            <>[](/\ ipc = "delay" => upper = Figure(Volume(r), digit)
                 /\ mixer = Level(Volume(r)) \/ (mixer = Unset /\ Volume(r) = 0))

\* After SIGINT the program ends.
MixerEnds == ~keepRunning ~> mpc = "over"
=============================================================================
