------------------------------- MODULE Keypad -------------------------------
(***************************************************************************)
(* src/keypad.c: KEYPAD_getDial scans the pins of the keypad one after the *)
(* other until "#" has been pressed and released or DIAL_LENGTH digits     *)
(* have been typed.  One action per reading of a pin; between two of them  *)
(* the user presses and releases keys as he likes, and the thread may be   *)
(* cancelled, as dialservice.c does with it.  Of the number that is typed  *)
(* only its length matters here.                                           *)
(***************************************************************************)
EXTENDS Integers

CONSTANTS NUM_GPIO,     \* pins, 12 in the code
          Hash,         \* the pin of "#", 3 in the code
          DIAL_LENGTH   \* digits of a number, 15 in the code

ASSUME KeypadAssumption ==
    /\ NUM_GPIO \in Nat \ {0} /\ DIAL_LENGTH \in Nat \ {0}
    /\ Hash \in 0 .. NUM_GPIO - 1

VARIABLES pressed,    \* the pins that read "1"
          typed,      \* history: those of them that this call has typed
          kpc,        \* the step getDial is about to do, or "idle"
          pin,        \* local i
          result,     \* result[0] = '1'
          printFlag,
          stop,       \* static: outlives the call
          iter        \* digits in input

keypadVars == <<pressed, typed, kpc, pin, result, printFlag, stop, iter>>

Pins == 0 .. NUM_GPIO - 1

KeypadTypeOK ==
    /\ pressed \in SUBSET Pins /\ typed \in SUBSET pressed
    /\ kpc \in {"idle", "top", "scan", "hold", "hash"}
    /\ pin \in Pins
    /\ result \in BOOLEAN /\ printFlag \in BOOLEAN /\ stop \in BOOLEAN
    /\ iter \in Nat

\* KEYPAD_init makes every pin an input.
KeypadInit ==
    /\ pressed = {} /\ typed = {}
    /\ kpc = "idle" /\ pin = 0
    /\ result = FALSE /\ printFlag = TRUE /\ stop = FALSE
    /\ iter = 0

-----------------------------------------------------------------------------
Press(k) ==
    /\ k \notin pressed
    /\ pressed' = pressed \cup {k}
    /\ UNCHANGED <<typed, kpc, pin, result, printFlag, stop, iter>>

Release(k) ==
    /\ k \in pressed
    /\ pressed' = pressed \ {k} /\ typed' = typed \ {k}
    /\ UNCHANGED <<kpc, pin, result, printFlag, stop, iter>>

Dial ==
    /\ kpc = "idle"
    /\ kpc' = "top"
    /\ iter' = 0 /\ typed' = {}
    /\ UNCHANGED <<pressed, pin, result, printFlag, stop>>

\* while(!stop); the number is returned and stop is ready for the next call.
\* The "-1" of line 169 is overwritten by line 172.
Top ==
    /\ kpc = "top"
    /\ \/ /\ ~stop
          /\ pin' = 0 /\ kpc' = "scan"
          /\ UNCHANGED stop
       \/ /\ stop
          /\ stop' = FALSE /\ kpc' = "idle"
          /\ UNCHANGED pin
    /\ UNCHANGED <<pressed, typed, result, printFlag, iter>>

Scan ==
    /\ kpc = "scan"
    /\ result' = (pin \in pressed)
    /\ printFlag' = TRUE
    /\ kpc' = "hold"
    /\ UNCHANGED <<pressed, typed, pin, stop, iter>>

\* The for loop goes on to the last pin even when stop has been set.
NextPin ==
    IF pin = NUM_GPIO - 1
    THEN kpc' = "top" /\ UNCHANGED pin
    ELSE kpc' = "scan" /\ pin' = pin + 1

\* Mutant: while(result[0] == '1') types in every turn.
Hold_Repeat ==
    /\ kpc = "hold" /\ result /\ pin # Hash
    /\ result' = (pin \in pressed)
    /\ iter' = iter + 1
    /\ typed' = (typed \cup {pin}) \cap pressed
    /\ UNCHANGED <<pressed, kpc, pin, printFlag, stop>>

\* Mutant: the length is tested before the digit is counted.
Hold_LateTest ==
    /\ kpc = "hold" /\ result /\ pin # Hash
    /\ result' = (pin \in pressed)
    /\ IF printFlag
       THEN /\ iter' = iter + 1
            /\ typed' = (typed \cup {pin}) \cap pressed
            /\ printFlag' = FALSE
            /\ IF iter = DIAL_LENGTH
               THEN stop' = TRUE /\ NextPin
               ELSE UNCHANGED <<stop, kpc, pin>>
       ELSE UNCHANGED <<iter, typed, printFlag, stop, kpc, pin>>
    /\ UNCHANGED pressed

\* One turn of while(result[0] == '1'), for a digit: the first types it.
Hold ==
    /\ kpc = "hold" /\ result /\ pin # Hash
    /\ result' = (pin \in pressed)
    /\ IF printFlag
       THEN /\ iter' = iter + 1
            /\ typed' = (typed \cup {pin}) \cap pressed
            /\ printFlag' = FALSE
            /\ IF iter + 1 = DIAL_LENGTH
               THEN stop' = TRUE /\ NextPin
               ELSE UNCHANGED <<stop, kpc, pin>>
       ELSE UNCHANGED <<iter, typed, printFlag, stop, kpc, pin>>
    /\ UNCHANGED pressed

\* The same for "#".
HoldHash ==
    /\ kpc = "hold" /\ result /\ pin = Hash
    /\ result' = (pin \in pressed)
    /\ kpc' = "hash"
    /\ UNCHANGED <<pressed, typed, pin, printFlag, stop, iter>>

\* One turn of while(i == 3): wait for # to be unpressed.
HashWait ==
    /\ kpc = "hash"
    /\ stop' = TRUE
    /\ result' = (pin \in pressed)
    /\ kpc' = IF pin \in pressed THEN "hash" ELSE "hold"
    /\ UNCHANGED <<pressed, typed, pin, printFlag, iter>>

Unpressed ==
    /\ kpc = "hold" /\ ~result
    /\ NextPin
    /\ UNCHANGED <<pressed, typed, result, printFlag, stop, iter>>

\* pthread_cancel, at a call that is a cancellation point.  stop keeps what it
\* has.
CancelDial ==
    /\ kpc # "idle"
    /\ kpc' = "idle"
    /\ UNCHANGED <<pressed, typed, pin, result, printFlag, stop, iter>>

Scanning == Top \/ Scan \/ Hold \/ HoldHash \/ HashWait \/ Unpressed

KeypadNext ==
    \/ Dial \/ Scanning \/ CancelDial
    \/ \E k \in Pins : Press(k) \/ Release(k)

\* The user may press keys as he likes and not at all.
KeypadSpec ==
    KeypadInit /\ [][KeypadNext]_keypadVars /\ WF_keypadVars(Scanning)

-----------------------------------------------------------------------------
(* Properties. *)

\* The buffer input has 256 bytes, and nothing but the length test of line 152
\* keeps the digits from running past its end.  That test lets the scan go on
\* to the last pin: at most one digit per pin, "#" apart, comes on top of
\* DIAL_LENGTH - 1.
InputBounded == iter <= DIAL_LENGTH + NUM_GPIO - 2

\* A key that is held down is one digit, however long it is held and however
\* often it is read in a call (lines 112 and 150).
OnePressOneDigit == [][iter' > iter /\ kpc # "idle" => pin \notin typed]_keypadVars

\* Once a number is complete getDial returns, if no key is held down for ever.
CompleteReturns == <>[](pressed = {}) => (stop /\ kpc # "idle" ~> kpc = "idle")
=============================================================================
