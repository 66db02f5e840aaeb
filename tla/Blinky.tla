-------------------------------- MODULE Blinky --------------------------------
(***************************************************************************)
(* The player of LED patterns, source/blinky.cpp: a Blinky object, its     *)
(* owner and the timer events of its tasklet.  Everything runs on the      *)
(* event-loop thread, so that a call and the handling of an event are one  *)
(* step each; what may come in any order is the calls and the events.      *)
(*                                                                         *)
(* A pattern is a sequence of tokens: a delay, a negative number, or       *)
(* something strtol does not take.  The object is one record, since        *)
(* run_step calls back into its owner, who may call start() or stop() in   *)
(* the middle of it.  _state is written and never read, and left out.      *)
(***************************************************************************)
EXTENDS ButtonAndLed, Sequences

CONSTANTS
    Patterns,     \* the patterns the owner plays
    Encore,       \* the pattern a callback starts
    MaxEvents     \* bound: the owner starts nothing with that many in flight

Tokens == {"delay", "negative", "invalid"}

ASSUME PatternsAssumption ==
    /\ Patterns \subseteq Seq(Tokens)
    /\ Encore \in Seq(Tokens)
    /\ Len(Encore) > 0 /\ Encore[1] = "delay"

ASSUME MaxEventsAssumption == MaxEvents \in Nat \ {0}

VARIABLES
    blinky,       \* the object: its members, and the result of run_step
    events,       \* timer events in flight
    crashed,      \* strtol was called on a pattern that is gone
    disturbed     \* history: start or stop while the last pattern was going on

blinkyVars == <<blinky, events, crashed, disturbed>>

Callbacks == {"notify", "stop", "encore"}

BlinkyInit ==
    /\ blinky = [tasklet |-> FALSE, present |-> FALSE, pattern |-> <<>>,
                 curr |-> 1, restart |-> FALSE, callback |-> "notify",
                 calls |-> 0, sent |-> 0, ok |-> TRUE, lost |-> FALSE]
    /\ events = 0
    /\ crashed = FALSE
    /\ disturbed = FALSE

-----------------------------------------------------------------------------
(* The methods, from object to object.  `sent` counts the events a call    *)
(* has sent, `calls` the callbacks since the last start (two are enough),  *)
(* and `lost` is set when the system refuses something.                    *)

Token(b) == IF b.curr \in 1 .. Len(b.pattern) THEN b.pattern[b.curr] ELSE "end"

\* Mutation of get_next_int: _curr_pattern stays where it is.
get_next_int_Stays(b) == b

\* A number is taken off the pattern, whatever its sign; the end and a wrong
\* character stay where they are.
get_next_int(b) ==
    IF Token(b) \in {"delay", "negative"} THEN [b EXCEPT !.curr = @ + 1] ELSE b

\* eventOS_event_send_after, and the LED.
SendEvent(b, accepted) ==
    [get_next_int(b) EXCEPT !.sent = @ + (IF accepted THEN 1 ELSE 0),
                            !.ok = accepted,
                            !.lost = @ \/ ~accepted]

stop(b) == [b EXCEPT !.present = FALSE, !.pattern = <<>>, !.curr = 1]

\* start() up to run_step.
Load(b, pattern, restart, callback) ==
    [b EXCEPT !.present = TRUE, !.pattern = pattern, !.curr = 1,
              !.restart = restart, !.callback = callback, !.calls = 0,
              !.ok = TRUE]

\* What the owner does when it is told that the pattern has completed.
Callback(b, accepted) ==
    LET called == [b EXCEPT !.calls = IF @ < 2 THEN @ + 1 ELSE 2]
    IN  CASE b.callback = "notify" -> called
          [] b.callback = "stop"   -> stop(called)
          [] b.callback = "encore" ->
                SendEvent(Load(called, Encore, FALSE, "notify"), accepted)

run_step(b, accepted) ==
    IF Token(b) = "delay"
    THEN SendEvent(b, accepted)
    ELSE [Callback(get_next_int(b), accepted) EXCEPT !.ok = FALSE]

\* The callback of a repeating pattern stops it: the handler then starts to
\* read from a pattern that is gone.
Restarts(b) == ~b.ok /\ b.restart

-----------------------------------------------------------------------------
(* The owner and the events                                                *)

\* The pattern of the last start still has something to do.
Playing == events > 0

Started(pattern, restart, callback, tasklet, buffer, accepted) ==
    LET named == [blinky EXCEPT !.restart = restart, !.callback = callback,
                                !.tasklet = tasklet, !.calls = 0,
                                !.lost = (@ /\ Playing) \/ ~tasklet \/ ~buffer]
        loaded == Load(stop(named), pattern, restart, callback)
    IN  CASE ~tasklet            -> named
          [] tasklet /\ ~buffer -> stop(named)
          [] tasklet /\ buffer  -> run_step(loaded, accepted)

\* What a call or an event has left is written back, and the LED has been
\* toggled once for every event sent.
Becomes(b) ==
    /\ blinky' = [b EXCEPT !.sent = 0, !.ok = TRUE]
    /\ mcc_platform_toggle_led(b.sent)
    /\ UNCHANGED <<board, attached, terminated, buttonVars>>

Start ==
    /\ ~crashed /\ events < MaxEvents
    /\ \E p \in Patterns, restart \in BOOLEAN, c \in Callbacks,
          created \in BOOLEAN, buffer \in BOOLEAN, accepted \in BOOLEAN :
          LET b == Started(p, restart, c, blinky.tasklet \/ created, buffer, accepted)
          IN  /\ Becomes(b)
              /\ events' = events + b.sent
    /\ disturbed' = (disturbed \/ Playing)
    /\ UNCHANGED crashed

\* stop(), and the destructor, which does no more.
Stop ==
    /\ ~crashed
    /\ Becomes(stop(blinky))
    /\ disturbed' = (disturbed \/ Playing)
    /\ UNCHANGED <<events, crashed>>

\* Mutation of Handled: it starts over even if there was a next step.
Handled_Always(once, accepted) ==
    IF once.restart THEN run_step([once EXCEPT !.curr = 1], accepted) ELSE once

\* event_handler after its first run_step.
Handled(once, accepted) ==
    IF Restarts(once) THEN run_step([once EXCEPT !.curr = 1], accepted) ELSE once

event_handler ==
    /\ ~crashed /\ events > 0
    /\ \E first \in BOOLEAN, second \in BOOLEAN :
          LET once == run_step(blinky, first)
              twice == Handled(once, second)
              gone == ~blinky.present \/ (Restarts(once) /\ ~once.present)
          IN  /\ crashed' = gone
              /\ IF gone
                 THEN UNCHANGED <<blinky, events, boardVars>>
                 ELSE /\ Becomes(twice)
                      /\ events' = events - 1 + twice.sent
              /\ disturbed' = (disturbed \/ (Restarts(once) /\ ~once.present))

BlinkyNext == Start \/ Stop \/ event_handler

-----------------------------------------------------------------------------
(* Properties                                                              *)

\* A Blinky object.
Object ==
    [tasklet : BOOLEAN, present : BOOLEAN, pattern : Seq(Tokens), curr : Nat,
     restart : BOOLEAN, callback : Callbacks, calls : {0, 1, 2}, sent : {0, 1},
     ok : BOOLEAN, lost : BOOLEAN]

\* Type invariant of the pattern player; between two steps nothing of a call
\* is left over.
BlinkyTypeOK ==
    /\ blinky \in Object /\ blinky.sent = 0 /\ blinky.ok
    /\ blinky.curr \in 1 .. Len(blinky.pattern) + 1
    /\ events \in 0 .. MaxEvents
    /\ crashed \in BOOLEAN /\ disturbed \in BOOLEAN

\* As long as the owner starts and stops only what has ended, one event at a
\* time plays the pattern, it finds the pattern there, and a pattern that is
\* not repeated completes once.
PlaysAlone ==
    ~disturbed =>
        /\ ~crashed
        /\ events <= 1
        /\ events = 1 => blinky.present
        /\ blinky.calls > 0 /\ ~blinky.restart => events = 0
        /\ ~blinky.restart => blinky.calls <= 1

\* A pattern that is played once comes to its end, and the owner is told,
\* unless it is started over, stopped, the system refused something or the
\* program was terminated.
Ongoing == Playing /\ ~blinky.restart /\ ~disturbed /\ ~blinky.lost

PatternEnds == Ongoing ~> blinky.calls > 0 \/ disturbed \/ blinky.lost \/ terminated
=============================================================================
