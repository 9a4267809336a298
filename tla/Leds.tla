-------------------------------- MODULE Leds --------------------------------
(***************************************************************************)
(* src/led.c: two lamps, each a GPIO file, and a thread that blinks the    *)
(* red one.  One thread calls the operations, in any order.  The blinking  *)
(* thread is stopped by pthread_cancel, which it obeys at the next call    *)
(* that is a cancellation point: opening the file, or a delay.  The lamp   *)
(* changes when the file is closed.  LED_init only prepares the files; a   *)
(* file that cannot be opened ends the process and is left out.            *)
(***************************************************************************)
EXTENDS Naturals, FiniteSets

CONSTANTS RED, BLUE,
          Blinkers   \* bound: threads that pthread_create may have made and not ended

ASSUME LedsAssumption == RED # BLUE /\ IsFiniteSet(Blinkers) /\ Blinkers # {}

VARIABLES on,                     \* the lamps that are on
          lpc,                    \* the caller is "idle" or joins in LED_red_blink_stop
          blink_thread,           \* the handle
          blink_thread_running,
          bpc,                    \* bpc[b]: the step of led_red_blink_loop, or "none"
          doomed                  \* threads that were sent pthread_cancel

ledsVars == <<on, lpc, blink_thread, blink_thread_running, bpc, doomed>>

LedsTypeOK ==
    /\ on \subseteq {RED, BLUE}
    /\ lpc \in {"idle", "join"}
    /\ blink_thread \in Blinkers
    /\ blink_thread_running \in BOOLEAN
    /\ bpc \in [Blinkers -> {"none", "on", "delayOn", "off", "delayOff"}]
    /\ doomed \subseteq {b \in Blinkers : bpc[b] # "none"}

LedsInit ==
    /\ on = {} /\ lpc = "idle"
    /\ blink_thread = (CHOOSE b \in Blinkers : TRUE) /\ blink_thread_running = FALSE
    /\ bpc = [b \in Blinkers |-> "none"] /\ doomed = {}

-----------------------------------------------------------------------------
LED_on(colour) ==
    /\ lpc = "idle"
    /\ on' = on \cup {colour}
    /\ UNCHANGED <<lpc, blink_thread, blink_thread_running, bpc, doomed>>

LED_off(colour) ==
    /\ lpc = "idle"
    /\ on' = on \ {colour}
    /\ UNCHANGED <<lpc, blink_thread, blink_thread_running, bpc, doomed>>

\* Called while a thread blinks, it does nothing.
LED_red_blink_start ==
    /\ lpc = "idle" /\ ~blink_thread_running
    /\ blink_thread_running' = TRUE
    /\ \E b \in Blinkers :
         /\ bpc[b] = "none"
         /\ bpc' = [bpc EXCEPT ![b] = "on"]
         /\ blink_thread' = b
    /\ UNCHANGED <<on, lpc, doomed>>

\* Up to pthread_join.  Called while no thread blinks, it does nothing.
LED_red_blink_stop ==
    /\ lpc = "idle" /\ blink_thread_running
    /\ blink_thread_running' = FALSE
    /\ doomed' = doomed \cup {blink_thread}
    /\ lpc' = "join"
    /\ UNCHANGED <<on, blink_thread, bpc>>

\* Mutant: the caller does not wait for the thread.
BlinkJoin_Not ==
    /\ lpc = "join"
    /\ lpc' = "idle"
    /\ UNCHANGED <<on, blink_thread, blink_thread_running, bpc, doomed>>

BlinkJoin ==
    /\ lpc = "join" /\ bpc[blink_thread] = "none"
    /\ lpc' = "idle"
    /\ UNCHANGED <<on, blink_thread, blink_thread_running, bpc, doomed>>

\* led_red_blink_loop.
Blink(b) ==
    \/ /\ bpc[b] = "on"
       /\ on' = on \cup {RED} /\ bpc' = [bpc EXCEPT ![b] = "delayOn"]
       /\ UNCHANGED <<lpc, blink_thread, blink_thread_running, doomed>>
    \/ /\ bpc[b] = "off"
       /\ on' = on \ {RED} /\ bpc' = [bpc EXCEPT ![b] = "delayOff"]
       /\ UNCHANGED <<lpc, blink_thread, blink_thread_running, doomed>>
    \/ /\ bpc[b] \in {"delayOn", "delayOff"}
       /\ bpc' = [bpc EXCEPT ![b] = IF @ = "delayOn" THEN "off" ELSE "on"]
       /\ UNCHANGED <<on, lpc, blink_thread, blink_thread_running, doomed>>

\* pthread_cancel takes effect.  The lamp stays as it is.
BlinkEnd(b) ==
    /\ b \in doomed /\ bpc[b] # "none"
    /\ bpc' = [bpc EXCEPT ![b] = "none"] /\ doomed' = doomed \ {b}
    /\ UNCHANGED <<on, lpc, blink_thread, blink_thread_running>>

LedsNext ==
    \/ \E colour \in {RED, BLUE} : LED_on(colour) \/ LED_off(colour)
    \/ LED_red_blink_start \/ LED_red_blink_stop \/ BlinkJoin
    \/ \E b \in Blinkers : Blink(b) \/ BlinkEnd(b)

\* The caller goes on, and a cancelled thread comes to a cancellation point.
LedsFairness ==
    /\ WF_ledsVars(BlinkJoin)
    /\ WF_ledsVars(\E b \in Blinkers : BlinkEnd(b))

LedsSpec == LedsInit /\ [][LedsNext]_ledsVars /\ LedsFairness

-----------------------------------------------------------------------------
(* Properties. *)

\* LED_red_blink_stop and _start in any order leave one blinking thread at
\* most, and none that the handle does not name: the next stop can end it
\* (led.c:146-150, 162-166).
OneBlinker == \A b \in Blinkers : bpc[b] # "none" => b = blink_thread

\* A lamp that was set after LED_red_blink_stop has returned stays as it was
\* set: the thread changes lamps only between start and the end of the join
\* (led.c:168-169).
StaysAsSet ==
    [][(\E b \in Blinkers : Blink(b)) => blink_thread_running \/ lpc = "join"]_ledsVars

\* LED_red_blink_stop returns.
BlinkStopReturns == lpc = "join" ~> lpc = "idle"
=============================================================================
