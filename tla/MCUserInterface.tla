--------------------------- MODULE MCUserInterface ---------------------------
(* Constants of the run of UserInterface: a Linux host, and an mbed-os     *)
(* board with a button and an LED or with neither.                         *)
EXTENDS UserInterface

MCBoards == {[os |-> "linux", button |-> TRUE, led |-> FALSE],
             [os |-> "mbed", button |-> TRUE, led |-> TRUE],
             [os |-> "mbed", button |-> FALSE, led |-> FALSE]}

\* Played to the end, cut short by a negative number, and not a pattern.
MCPatterns == {<<"delay", "delay">>, <<"delay", "negative", "delay">>, <<"invalid">>}
MCEncore == <<"delay">>
=============================================================================
