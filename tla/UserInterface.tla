---------------------------- MODULE UserInterface ----------------------------
(***************************************************************************)
(* The library of source/ that talks to the user: the button, the LED and  *)
(* the player of LED patterns, used by an application that polls the one   *)
(* and starts and stops the other as it likes.  main_application itself    *)
(* only initialises them.                                                  *)
(***************************************************************************)
EXTENDS Blinky

uiVars == <<boardVars, blinkyVars>>

UIInit == BoardInit /\ BlinkyInit

Running == ~terminated /\ ~crashed

Poll == Running /\ (ReadButton \/ ReturnButton) /\ UNCHANGED blinkyVars

Button ==
    /\ Running
    /\ mcc_platform_init_button_and_led \/ button_press \/ EndOfInput
    /\ UNCHANGED blinkyVars

LedOff == Running /\ attached /\ mcc_platform_led_off /\ UNCHANGED blinkyVars

Signal == Running /\ handle_signal /\ UNCHANGED blinkyVars

Player == Running /\ attached /\ (Start \/ Stop)

Timer == Running /\ event_handler

UINext == Button \/ Poll \/ LedOff \/ Signal \/ Player \/ Timer

(***************************************************************************)
(* The application polls the button again and again, and a timer event is  *)
(* delivered.                                                              *)
(***************************************************************************)
UISpec ==
    /\ UIInit /\ [][UINext]_uiVars
    /\ WF_uiVars(Poll) /\ WF_uiVars(Timer)

-----------------------------------------------------------------------------
(* Properties                                                              *)

\* A press is followed by a call that reports it, even one that comes between
\* the read and the reset of the flag.
PressIsSeen == owed ~> ~owed \/ ~Running
=============================================================================
