---------------------------- MODULE ButtonAndLed -----------------------------
(***************************************************************************)
(* mcc_common_button_and_led of the two ports: a flag that an interrupt    *)
(* (mbed-os) or a thread that reads the keyboard (Linux) sets, that the    *)
(* application polls; the LED; and on Linux the handler of SIGTERM.  The   *)
(* two writers of the flag do not exclude each other: the poll reads it    *)
(* and clears it in two steps, and a press may come in between.            *)
(***************************************************************************)
EXTENDS Integers

CONSTANTS
    Boards,       \* the boards: port, and whether the pins are connected
    MaxPresses    \* bound: how often the button is pressed

\* Linux has a keyboard for a button and no LED.
ASSUME BoardsAssumption ==
    /\ Boards \subseteq [os : {"mbed", "linux"}, button : BOOLEAN, led : BOOLEAN]
    /\ \A b \in Boards : b.os = "linux" => b.button /\ ~b.led

ASSUME MaxPressesAssumption == MaxPresses \in Nat

VARIABLES
    board,            \* the board that runs; never changes
    attached,         \* mcc_platform_init_button_and_led has been called
    button_pressed,
    polling,          \* inside mcc_platform_button_clicked: what it has read
    eof,              \* Linux: the input has ended, getchar returns at once
    led,              \* the LED of the board is on
    terminated,       \* Linux: the handler of SIGTERM has called exit
    presses,          \* history: number of presses
    clicks,           \* history: number of calls that returned true, up to eof
    owed              \* history: pressed since a call last cleared the flag

buttonVars == <<button_pressed, polling, eof, presses, clicks, owed>>
boardVars == <<board, attached, led, terminated, buttonVars>>

BoardInit ==
    /\ board \in Boards
    /\ attached = FALSE
    /\ button_pressed = FALSE
    /\ polling = "no"
    /\ eof = FALSE
    /\ led = FALSE
    /\ terminated = FALSE
    /\ presses = 0
    /\ clicks = 0
    /\ owed = FALSE

-----------------------------------------------------------------------------
(* The button                                                              *)

\* Without a pin for the button no interrupt is attached.
mcc_platform_init_button_and_led ==
    /\ ~attached
    /\ attached' = TRUE
    /\ UNCHANGED <<board, led, terminated, buttonVars>>

\* The interrupt, or getchar() returns a character.
button_press ==
    /\ attached /\ board.button /\ ~eof /\ presses < MaxPresses
    /\ button_pressed' = TRUE
    /\ presses' = presses + 1
    /\ owed' = TRUE
    /\ UNCHANGED <<board, attached, led, terminated, polling, eof, clicks>>

\* The result of getchar() is not looked at: at the end of the input every
\* round of the thread's loop is a press.
EndOfInput ==
    /\ attached /\ board.os = "linux"
    /\ eof' = TRUE
    /\ button_pressed' = TRUE
    /\ UNCHANGED <<board, attached, led, terminated, polling, presses, clicks, owed>>

\* mcc_platform_button_clicked up to the decision.
ReadButton ==
    /\ attached /\ polling = "no"
    /\ polling' = IF button_pressed THEN "pressed" ELSE "not_pressed"
    /\ UNCHANGED <<board, attached, led, terminated, button_pressed, eof, presses,
                   clicks, owed>>

\* Mutations of ReturnButton: the flag is cleared whatever has been read, or
\* is not cleared.
ReturnButton_ClearsAlways ==
    /\ polling # "no"
    /\ polling' = "no"
    /\ button_pressed' = FALSE
    /\ owed' = (owed /\ polling = "not_pressed")
    /\ clicks' = IF polling = "pressed" /\ ~eof THEN clicks + 1 ELSE clicks
    /\ UNCHANGED <<board, attached, led, terminated, eof, presses>>

ReturnButton_KeepsFlag ==
    /\ polling # "no"
    /\ polling' = "no"
    /\ owed' = (owed /\ polling = "not_pressed")
    /\ clicks' = IF polling = "pressed" /\ ~eof THEN clicks + 1 ELSE clicks
    /\ UNCHANGED <<board, attached, led, terminated, button_pressed, eof, presses>>

ReturnButton ==
    /\ polling # "no"
    /\ polling' = "no"
    /\ IF polling = "pressed"
       THEN /\ button_pressed' = FALSE
            /\ owed' = FALSE
            /\ clicks' = IF eof THEN clicks ELSE clicks + 1
       ELSE UNCHANGED <<button_pressed, owed, clicks>>
    /\ UNCHANGED <<board, attached, led, terminated, eof, presses>>

-----------------------------------------------------------------------------
(* The LED, and the end of the program                                     *)

\* n calls of mcc_platform_toggle_led; without a pin they only print.
mcc_platform_toggle_led(n) ==
    led' = IF board.led /\ n % 2 = 1 THEN ~led ELSE led

\* mcc_platform_led_off; on Linux it does nothing.
mcc_platform_led_off ==
    /\ led' = FALSE
    /\ UNCHANGED <<board, attached, terminated, buttonVars>>

\* exit(0) in the middle of whatever is going on.
handle_signal ==
    /\ attached /\ board.os = "linux"
    /\ terminated' = TRUE
    /\ UNCHANGED <<board, attached, led, buttonVars>>

-----------------------------------------------------------------------------
(* Properties                                                              *)

\* No call reports a click that nobody made: every click has a press of its
\* own, as long as the input of the Linux port has not ended.
NoPhantomClicks == clicks <= presses
=============================================================================
