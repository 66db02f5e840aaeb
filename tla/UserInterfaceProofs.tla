------------------------ MODULE UserInterfaceProofs -------------------------
(***************************************************************************)
(* Proofs about the button and the player of LED patterns, for every set   *)
(* of boards and of patterns and whatever the bounds on presses and events.*)
(***************************************************************************)
EXTENDS UserInterface, TLAPS

-----------------------------------------------------------------------------
(* The button                                                              *)

\* A poll that has read the flag finds it set until it clears it itself, and a
\* flag that is set has a press that has not been counted as a click yet.
ButtonInv ==
    /\ presses \in Nat /\ clicks \in Nat
    /\ clicks <= presses
    /\ polling = "pressed" => button_pressed
    /\ button_pressed /\ ~eof => clicks < presses

\* The player toggles the LED and leaves the button alone.
LEMMA PlayerLeavesButton == Player \/ Timer => UNCHANGED buttonVars
<1>1. \A b : Becomes(b) => UNCHANGED buttonVars
  BY DEF Becomes
<1>2. Start => UNCHANGED buttonVars
  BY <1>1, Zenon DEF Start
<1>3. Stop => UNCHANGED buttonVars
  BY <1>1, Zenon DEF Stop
<1>4. event_handler => UNCHANGED buttonVars
  <2>1. UNCHANGED boardVars => UNCHANGED buttonVars
    BY DEF boardVars
  <2> QED
    BY <1>1, <2>1, Zenon DEF event_handler
<1> QED
  BY <1>2, <1>3, <1>4 DEF Player, Timer

LEMMA InitButtonInv == UIInit => ButtonInv
BY DEF UIInit, BoardInit, ButtonInv

LEMMA NextButtonInv == ButtonInv /\ [UINext]_uiVars => ButtonInv'
<1> SUFFICES ASSUME ButtonInv, [UINext]_uiVars PROVE ButtonInv'
  OBVIOUS
<1> USE DEF ButtonInv, buttonVars
<1>1. CASE Poll
  <2>1. CASE ReadButton
    BY <2>1 DEF ReadButton
  <2>2. CASE ReturnButton
    BY <2>2 DEF ReturnButton
  <2> QED
    BY <1>1, <2>1, <2>2 DEF Poll
<1>2. CASE Button
  <2>1. CASE mcc_platform_init_button_and_led
    BY <2>1 DEF mcc_platform_init_button_and_led
  <2>2. CASE button_press
    BY <2>2 DEF button_press
  <2>3. CASE EndOfInput
    BY <2>3 DEF EndOfInput
  <2> QED
    BY <1>2, <2>1, <2>2, <2>3 DEF Button
<1>3. CASE LedOff \/ Signal
  BY <1>3 DEF LedOff, Signal, mcc_platform_led_off, handle_signal
<1>4. CASE Player \/ Timer
  BY <1>4, PlayerLeavesButton
<1>5. CASE UNCHANGED uiVars
  BY <1>5 DEF uiVars, boardVars
<1> QED
  BY <1>1, <1>2, <1>3, <1>4, <1>5 DEF UINext

\* NoPhantomClicks: however presses, polls and the end of the input interleave,
\* no more clicks are reported than there were presses.
THEOREM ClicksArePresses == UISpec => []NoPhantomClicks
<1>1. ButtonInv => NoPhantomClicks
  BY DEF ButtonInv, NoPhantomClicks
<1> QED
  BY <1>1, InitButtonInv, NextButtonInv, PTL DEF UISpec

\* What is owed to the user is still in the flag, and the flag is cleared only
\* by a call that counts a click: the two halves of losing a press.
PressInFlag == owed => button_pressed
ClearedIsCounted ==
    button_pressed /\ ~button_pressed' =>
        polling = "pressed" /\ (eof \/ clicks' = clicks + 1)

LEMMA PressSteps ==
    ASSUME [UINext]_uiVars
    PROVE  (PressInFlag => PressInFlag') /\ ClearedIsCounted
<1> USE DEF PressInFlag, ClearedIsCounted, buttonVars
<1>1. CASE Poll
  <2>1. CASE ReadButton
    BY <2>1 DEF ReadButton
  <2>2. CASE ReturnButton
    BY <2>2 DEF ReturnButton
  <2> QED
    BY <1>1, <2>1, <2>2 DEF Poll
<1>2. CASE Button
  <2>1. CASE mcc_platform_init_button_and_led
    BY <2>1 DEF mcc_platform_init_button_and_led
  <2>2. CASE button_press
    BY <2>2 DEF button_press
  <2>3. CASE EndOfInput
    BY <2>3 DEF EndOfInput
  <2> QED
    BY <1>2, <2>1, <2>2, <2>3 DEF Button
<1>3. CASE LedOff \/ Signal
  BY <1>3 DEF LedOff, Signal, mcc_platform_led_off, handle_signal
<1>4. CASE Player \/ Timer
  BY <1>4, PlayerLeavesButton
<1>5. CASE UNCHANGED uiVars
  BY <1>5 DEF uiVars, boardVars
<1> QED
  BY <1>1, <1>2, <1>3, <1>4, <1>5 DEF UINext

\* A press that comes between the read and the reset of the flag is not lost
\* without a call that reports it: what PressIsSeen says, short of the promise
\* that the application polls.
THEOREM PressIsKept == UISpec => []PressInFlag /\ [][ClearedIsCounted]_uiVars
<1>1. UIInit => PressInFlag
  BY DEF UIInit, BoardInit, PressInFlag
<1>2. [UINext]_uiVars => (PressInFlag => PressInFlag') /\ ClearedIsCounted
  BY PressSteps
<1> QED
  BY <1>1, <1>2, PTL DEF UISpec

-----------------------------------------------------------------------------
(* The methods of the player                                               *)

\* An object of the right type that reads from inside its pattern.
Good(b) == b \in Object /\ b.curr \in 1 .. Len(b.pattern) + 1

\* Taking a number off the pattern changes the position and nothing else.
LEMMA NextIntFacts ==
    ASSUME NEW b, Good(b)
    PROVE  \E k \in 1 .. Len(b.pattern) + 1 : get_next_int(b) = [b EXCEPT !.curr = k]
<1>1. b \in Object /\ b.curr \in 1 .. Len(b.pattern) + 1
      /\ Len(b.pattern) \in Nat
  BY DEF Good, Object
<1>2. CASE Token(b) \in {"delay", "negative"}
  <2>1. b.curr \in 1 .. Len(b.pattern)
    BY <1>2 DEF Token
  <2>2. get_next_int(b) = [b EXCEPT !.curr = b.curr + 1]
    BY <1>2 DEF get_next_int
  <2>3. b.curr + 1 \in 1 .. Len(b.pattern) + 1
    <3> DEFINE n == Len(b.pattern)
    <3>1. n \in Nat /\ b.curr \in 1 .. n
      BY <1>1, <2>1
    <3> HIDE DEF n
    <3>2. b.curr + 1 \in 1 .. n + 1
      BY <3>1
    <3> QED
      BY <3>2 DEF n
  <2> QED
    BY <2>2, <2>3
<1>3. CASE Token(b) \notin {"delay", "negative"}
  <2>1. get_next_int(b) = [b EXCEPT !.curr = b.curr]
    BY <1>1, <1>3 DEF get_next_int, Object
  <2> QED
    BY <1>1, <2>1
<1> QED
  BY <1>2, <1>3

\* SendEvent: the event is counted if the system takes it, and the result says
\* whether it did.
LEMMA SendFacts ==
    ASSUME NEW b, Good(b), b.sent = 0, NEW accepted \in BOOLEAN
    PROVE  LET r == SendEvent(b, accepted)
           IN  /\ Good(r)
               /\ r.sent = IF accepted THEN 1 ELSE 0
               /\ (r.ok <=> accepted)
               /\ (r.present <=> b.present) /\ (r.restart <=> b.restart) /\ r.calls = b.calls
<1>1. PICK k \in 1 .. Len(b.pattern) + 1 : get_next_int(b) = [b EXCEPT !.curr = k]
  BY NextIntFacts
<1>2. b \in Object /\ k \in Nat
  BY DEF Good, Object
<1>3. \E l \in BOOLEAN :
          SendEvent(b, accepted) =
              [[b EXCEPT !.curr = k]
                 EXCEPT !.sent = @ + (IF accepted THEN 1 ELSE 0), !.ok = accepted,
                        !.lost = l]
  <2>1. ([b EXCEPT !.curr = k].lost \/ ~accepted) \in BOOLEAN
    BY Zenon
  <2> QED
    BY <1>1, <2>1, Zenon DEF SendEvent
<1>4. PICK l \in BOOLEAN :
          SendEvent(b, accepted) =
              [[b EXCEPT !.curr = k]
                 EXCEPT !.sent = @ + (IF accepted THEN 1 ELSE 0), !.ok = accepted,
                        !.lost = l]
  BY <1>3
<1> DEFINE r == SendEvent(b, accepted)
           n == IF accepted THEN 1 ELSE 0
<1>5. n \in {0, 1}
  OBVIOUS
<1>6. n = IF accepted THEN 1 ELSE 0
  OBVIOUS
<1>7. r = [[b EXCEPT !.curr = k] EXCEPT !.sent = n, !.ok = accepted, !.lost = l]
  <2>1. r = [[b EXCEPT !.curr = k] EXCEPT !.sent = @ + n, !.ok = accepted, !.lost = l]
    BY <1>4
  <2> HIDE DEF n, r
  <2>2. [b EXCEPT !.curr = k].sent + n = n
    BY <1>2, <1>5 DEF Object
  <2> QED
    BY <2>1, <2>2, Zenon
<1> HIDE DEF n
<1>8. Good(r)
  BY <1>2, <1>5, <1>7 DEF Good, Object
<1>9. r.sent = n /\ (r.ok <=> accepted)
  BY <1>2, <1>7 DEF Object
<1>10. (r.present <=> b.present) /\ (r.restart <=> b.restart) /\ r.calls = b.calls
  BY <1>2, <1>7 DEF Object
<1>11. r.sent = IF accepted THEN 1 ELSE 0
  BY <1>6, <1>9
<1> QED
  BY <1>8, <1>9, <1>10, <1>11, Zenon

LEMMA StopFacts ==
    ASSUME NEW b, Good(b)
    PROVE  LET r == stop(b)
           IN  /\ Good(r) /\ ~r.present
               /\ r.sent = b.sent /\ (r.restart <=> b.restart) /\ r.calls = b.calls
               /\ (r.ok <=> b.ok)
<1> DEFINE r == [b EXCEPT !.present = FALSE, !.pattern = <<>>, !.curr = 1]
<1>1. <<>> \in Seq(Tokens)
  OBVIOUS
<1>2. b \in Object
  BY DEF Good
<1>3. r \in Object
  BY <1>1, <1>2 DEF Object
<1>4. /\ r.present = FALSE /\ r.pattern = <<>> /\ r.curr = 1
      /\ r.sent = b.sent /\ (r.restart <=> b.restart) /\ r.calls = b.calls
      /\ (r.ok <=> b.ok)
  BY <1>2 DEF Object
<1>5. stop(b) = r
  BY Zenon DEF stop
<1> HIDE DEF r
<1>6. r.curr \in 1 .. Len(r.pattern) + 1
  BY <1>4
<1> QED
  BY <1>3, <1>4, <1>5, <1>6 DEF Good

LEMMA LoadFacts ==
    ASSUME NEW b, Good(b), NEW p \in Seq(Tokens), NEW restart \in BOOLEAN,
           NEW c \in Callbacks
    PROVE  LET r == Load(b, p, restart, c)
           IN  /\ Good(r) /\ r.present
               /\ r.sent = b.sent /\ (r.restart <=> restart) /\ r.calls = 0
<1> DEFINE r == [b EXCEPT !.present = TRUE, !.pattern = p, !.curr = 1,
                          !.restart = restart, !.callback = c, !.calls = 0,
                          !.ok = TRUE]
<1>1. b \in Object /\ Len(p) \in Nat
  BY DEF Good
<1>2. r \in Object
  BY <1>1 DEF Object
<1>3. /\ r.present = TRUE /\ r.pattern = p /\ r.curr = 1
      /\ r.sent = b.sent /\ (r.restart <=> restart) /\ r.calls = 0
  BY <1>1 DEF Object
<1>4. Load(b, p, restart, c) = r
  BY Zenon DEF Load
<1> HIDE DEF r
<1>5. r.curr \in 1 .. Len(r.pattern) + 1
  BY <1>1, <1>3
<1> QED
  BY <1>2, <1>3, <1>4, <1>5 DEF Good

\* What the owner is told and does: nothing is sent, or a pattern is started
\* that is played once and has not completed.
LEMMA CallbackFacts ==
    ASSUME NEW b, Good(b), b.sent = 0, NEW accepted \in BOOLEAN
    PROVE  LET r == Callback(b, accepted)
           IN  /\ Good(r)
               /\ \/ r.sent = 0 /\ (r.restart <=> b.restart)
                     /\ (b.calls = 0 => r.calls = 1)
                  \/ r.present /\ ~r.restart /\ r.calls = 0
<1> DEFINE called == [b EXCEPT !.calls = IF @ < 2 THEN @ + 1 ELSE 2]
           r == Callback(b, accepted)
<1>1. b \in Object /\ b.calls \in {0, 1, 2}
  BY DEF Good, Object
<1>2. \E n \in {0, 1, 2} :
         n = (IF b.calls < 2 THEN b.calls + 1 ELSE 2) /\ called = [b EXCEPT !.calls = n]
  BY <1>1
<1>3. /\ Good(called) /\ called.sent = 0 /\ (called.restart <=> b.restart)
      /\ (b.calls = 0 => called.calls = 1)
      /\ called.callback = b.callback
  BY <1>1, <1>2 DEF Good, Object
<1> HIDE DEF called
<1>4. CASE b.callback = "notify"
  <2>1. r = called
    BY <1>4 DEF Callback, called
  <2> QED
    BY <1>3, <2>1
<1>5. CASE b.callback = "stop"
  <2>1. r = stop(called)
    BY <1>5 DEF Callback, called
  <2> QED
    BY <1>3, <2>1, StopFacts
<1>6. CASE b.callback = "encore"
  <2> DEFINE loaded == Load(called, Encore, FALSE, "notify")
  <2>1. r = SendEvent(loaded, accepted)
    BY <1>6 DEF Callback, called
  <2>2. Good(loaded) /\ loaded.present /\ loaded.sent = 0 /\ loaded.calls = 0
        /\ ~loaded.restart
    BY <1>3, LoadFacts, PatternsAssumption DEF Callbacks
  <2> HIDE DEF loaded
  <2>3. /\ Good(r) /\ r.calls = 0
        /\ (r.present <=> loaded.present) /\ (r.restart <=> loaded.restart)
    BY <2>1, <2>2, SendFacts
  <2> QED
    BY <2>2, <2>3
<1> QED
  BY <1>1, <1>4, <1>5, <1>6 DEF Object, Callbacks

\* run_step sends the next event, tells the owner that the pattern has
\* completed, or has the owner start another one.
LEMMA RunFacts ==
    ASSUME NEW b, Good(b), b.sent = 0, NEW accepted \in BOOLEAN
    PROVE  LET r == run_step(b, accepted)
           IN  /\ Good(r)
               /\ \/ /\ (r.present <=> b.present) /\ (r.restart <=> b.restart)
                     /\ r.calls = b.calls
                     /\ r.sent = 0 \/ r.ok
                  \/ /\ r.sent = 0 /\ (r.restart <=> b.restart)
                     /\ (b.calls = 0 => r.calls = 1)
                  \/ /\ r.present /\ ~r.restart /\ r.calls = 0
<1> DEFINE r == run_step(b, accepted)
<1>1. CASE Token(b) = "delay"
  <2>1. r = SendEvent(b, accepted)
    BY <1>1 DEF run_step
  <2> HIDE DEF r
  <2>2. /\ Good(r) /\ r.sent = (IF accepted THEN 1 ELSE 0) /\ (r.ok <=> accepted)
        /\ (r.present <=> b.present) /\ (r.restart <=> b.restart) /\ r.calls = b.calls
    BY <2>1, SendFacts, Zenon
  <2>3. r.sent = 0 \/ r.ok
    BY <2>2, Zenon
  <2> QED
    BY <2>2, <2>3, Zenon DEF r
<1>2. CASE Token(b) # "delay"
  <2> DEFINE next == get_next_int(b)
             told == Callback(next, accepted)
  <2>1. r = [told EXCEPT !.ok = FALSE]
    BY <1>2 DEF run_step
  <2>2. Good(next) /\ next.sent = 0 /\ (next.restart <=> b.restart) /\ next.calls = b.calls
    <3>1. PICK k \in 1 .. Len(b.pattern) + 1 : next = [b EXCEPT !.curr = k]
      BY NextIntFacts
    <3>2. b \in Object /\ k \in Nat
      BY DEF Good, Object
    <3> HIDE DEF next
    <3> QED
      BY <3>1, <3>2 DEF Good, Object
  <2> HIDE DEF next
  <2>3. /\ Good(told)
        /\ \/ told.sent = 0 /\ (told.restart <=> next.restart)
              /\ (next.calls = 0 => told.calls = 1)
           \/ told.present /\ ~told.restart /\ told.calls = 0
    BY <2>2, CallbackFacts
  <2> HIDE DEF told, r
  <2>4. /\ Good(r)
        /\ r.sent = told.sent /\ (r.restart <=> told.restart) /\ r.calls = told.calls
        /\ (r.present <=> told.present)
    BY <2>1, <2>3 DEF Good, Object
  <2> QED
    BY <2>2, <2>3, <2>4 DEF r
<1> QED
  BY <1>1, <1>2

\* PlaysAlone for an object b with n events in flight.
Alone(b, n) ==
    /\ n <= 1
    /\ n = 1 => b.present
    /\ b.calls > 0 /\ ~b.restart => n = 0
    /\ ~b.restart => b.calls <= 1

\* A step of an object that is there, and that either repeats its pattern or
\* has not completed it.
LEMMA RunAlone ==
    ASSUME NEW b, Good(b), b.sent = 0, NEW accepted \in BOOLEAN,
           b.present, b.restart \/ b.calls = 0
    PROVE  LET r == run_step(b, accepted) IN Good(r) /\ Alone(r, r.sent)
<1> DEFINE r == run_step(b, accepted)
<1>1. /\ Good(r)
      /\ \/ /\ (r.present <=> b.present) /\ (r.restart <=> b.restart)
            /\ r.calls = b.calls
         \/ /\ r.sent = 0 /\ (r.restart <=> b.restart)
            /\ (b.calls = 0 => r.calls = 1)
         \/ /\ r.present /\ ~r.restart /\ r.calls = 0
  BY RunFacts
<1> HIDE DEF r
<1>2. r.sent \in {0, 1} /\ r.calls \in {0, 1, 2}
  BY <1>1 DEF Good, Object
<1>3. Alone(r, r.sent)
  BY <1>1, <1>2 DEF Alone
<1> QED
  BY <1>1, <1>3 DEF r

-----------------------------------------------------------------------------
(* The steps of the player                                                 *)

PlayerInv == BlinkyTypeOK /\ PlaysAlone

\* What is written back is the object without the traces of the call.
LEMMA BecomesFacts ==
    ASSUME NEW b, Good(b), Becomes(b)
    PROVE  /\ Good(blinky') /\ blinky'.sent = 0 /\ blinky'.ok
           /\ \A n : Alone(b, n) => Alone(blinky', n)
<1> DEFINE r == [b EXCEPT !.sent = 0, !.ok = TRUE]
<1>1. b \in Object
  BY DEF Good
<1>2. /\ r \in Object
      /\ r.curr = b.curr /\ r.pattern = b.pattern
      /\ r.sent = 0 /\ r.ok
      /\ (r.present <=> b.present) /\ (r.restart <=> b.restart) /\ r.calls = b.calls
  BY <1>1 DEF Object
<1>3. blinky' = r
  BY DEF Becomes
<1> HIDE DEF r
<1>4. Good(r)
  BY <1>2 DEF Good
<1>5. \A n : Alone(b, n) => Alone(r, n)
  BY <1>2 DEF Alone
<1> QED
  BY <1>2, <1>3, <1>4, <1>5

\* start() leaves at most one event behind, and the object that plays it.
LEMMA StartedFacts ==
    ASSUME Good(blinky), blinky.sent = 0,
           NEW p \in Seq(Tokens), NEW restart \in BOOLEAN, NEW c \in Callbacks,
           NEW tasklet \in BOOLEAN, NEW buffer \in BOOLEAN, NEW accepted \in BOOLEAN
    PROVE  LET r == Started(p, restart, c, tasklet, buffer, accepted)
           IN  Good(r) /\ Alone(r, r.sent)
<1> DEFINE l == (blinky.lost /\ Playing) \/ ~tasklet \/ ~buffer
           named == [blinky EXCEPT !.restart = restart, !.callback = c, !.tasklet = tasklet,
                                   !.calls = 0, !.lost = l]
           stopped == stop(named)
           loaded == Load(stopped, p, restart, c)
           r == Started(p, restart, c, tasklet, buffer, accepted)
<1>1. l \in BOOLEAN
  BY Zenon
<1>2. blinky \in Object
  BY DEF Good
<1>3. r = CASE ~tasklet            -> named
            [] tasklet /\ ~buffer -> stopped
            [] tasklet /\ buffer  -> run_step(loaded, accepted)
  BY Zenon DEF Started
<1> HIDE DEF r, l
<1>4. /\ named \in Object
      /\ named.curr = blinky.curr /\ named.pattern = blinky.pattern
      /\ named.sent = 0 /\ named.calls = 0
  BY <1>1, <1>2 DEF Object
<1> HIDE DEF named
<1>5. Good(named)
  BY <1>4 DEF Good
<1>6. Good(stopped) /\ stopped.sent = 0 /\ stopped.calls = 0
  BY <1>4, <1>5, StopFacts
<1> HIDE DEF stopped
<1>7. Good(loaded) /\ loaded.present /\ loaded.sent = 0 /\ loaded.calls = 0
  BY <1>6, LoadFacts
<1> HIDE DEF loaded
<1>8. CASE ~tasklet
  <2>1. r = named
    BY <1>3, <1>8
  <2> QED
    BY <1>4, <1>5, <2>1 DEF Alone, r
<1>9. CASE tasklet /\ ~buffer
  <2>1. r = stopped
    BY <1>3, <1>9
  <2> QED
    BY <1>6, <2>1 DEF Alone, r
<1>10. CASE tasklet /\ buffer
  <2>1. r = run_step(loaded, accepted)
    BY <1>3, <1>10
  <2> QED
    BY <1>7, <2>1, RunAlone DEF r
<1> QED
  BY <1>8, <1>9, <1>10

LEMMA StartKeeps == PlayerInv /\ Start => PlayerInv'
<1> SUFFICES ASSUME PlayerInv, Start PROVE PlayerInv'
  OBVIOUS
<1>1. /\ Good(blinky) /\ blinky.sent = 0 /\ blinky.ok
      /\ events \in 0 .. MaxEvents /\ disturbed \in BOOLEAN /\ crashed = FALSE
  BY DEF PlayerInv, BlinkyTypeOK, Good, Start
<1>2. PICK p \in Patterns, restart \in BOOLEAN, c \in Callbacks,
           created \in BOOLEAN, buffer \in BOOLEAN, accepted \in BOOLEAN :
          LET b == Started(p, restart, c, blinky.tasklet \/ created, buffer, accepted)
          IN  Becomes(b) /\ events' = events + b.sent
  BY Zenon DEF Start
<1> DEFINE tasklet == blinky.tasklet \/ created
           b == Started(p, restart, c, tasklet, buffer, accepted)
<1>3. tasklet \in BOOLEAN /\ p \in Seq(Tokens)
  BY PatternsAssumption, Zenon
<1>4. Good(b) /\ Alone(b, b.sent)
  <2> HIDE DEF tasklet
  <2> QED
    BY <1>1, <1>3, StartedFacts
<1>5. Becomes(b) /\ events' = events + b.sent
  BY <1>2
<1> HIDE DEF b
<1>6. /\ Good(blinky') /\ blinky'.sent = 0 /\ blinky'.ok
      /\ Alone(blinky', b.sent)
  BY <1>4, <1>5, BecomesFacts
<1>7. b.sent \in {0, 1}
  BY <1>4 DEF Good, Object
<1>8. /\ events < MaxEvents /\ crashed' = crashed
      /\ disturbed' = (disturbed \/ Playing)
  BY DEF Start
<1>9. events' \in 0 .. MaxEvents
  BY <1>1, <1>5, <1>7, <1>8, MaxEventsAssumption
<1>10. disturbed' \in BOOLEAN
  <2>1. (disturbed \/ Playing) \in BOOLEAN
    BY Zenon
  <2>2. disturbed' = (disturbed \/ Playing)
    BY <1>8
  <2> QED
    BY <2>1, <2>2, Zenon
<1>11. ~disturbed' => events' = b.sent
  <2>1. ~disturbed' => ~Playing
    BY <1>8, Zenon
  <2> QED
    BY <1>1, <1>5, <1>7, <2>1 DEF Playing
<1>12. BlinkyTypeOK'
  BY <1>1, <1>6, <1>8, <1>9, <1>10 DEF BlinkyTypeOK, Good
<1>13. PlaysAlone'
  BY <1>1, <1>6, <1>8, <1>11 DEF PlaysAlone, Alone
<1> QED
  BY <1>12, <1>13 DEF PlayerInv

LEMMA StopKeeps == PlayerInv /\ Stop => PlayerInv'
<1> SUFFICES ASSUME PlayerInv, Stop PROVE PlayerInv'
  OBVIOUS
<1>1. /\ Good(blinky) /\ blinky.sent = 0 /\ blinky.ok
      /\ events \in 0 .. MaxEvents /\ disturbed \in BOOLEAN /\ crashed = FALSE
  BY DEF PlayerInv, BlinkyTypeOK, Good, Stop
<1> DEFINE b == stop(blinky)
<1>2. Good(b) /\ (b.restart <=> blinky.restart) /\ b.calls = blinky.calls
  BY <1>1, StopFacts
<1>3. Becomes(b) /\ events' = events /\ crashed' = crashed
      /\ disturbed' = (disturbed \/ Playing)
  BY DEF Stop
<1> HIDE DEF b
<1>4. Good(blinky') /\ blinky'.sent = 0 /\ blinky'.ok
  BY <1>2, <1>3, BecomesFacts
<1>5. disturbed' \in BOOLEAN
  <2>1. (disturbed \/ Playing) \in BOOLEAN
    BY Zenon
  <2>2. disturbed' = (disturbed \/ Playing)
    BY <1>3
  <2> QED
    BY <2>1, <2>2, Zenon
<1>6. BlinkyTypeOK'
  BY <1>1, <1>3, <1>4, <1>5 DEF BlinkyTypeOK, Good
<1>7. ASSUME ~disturbed' PROVE Alone(b, 0) /\ events' = 0
  <2>1. ~disturbed /\ ~Playing
    BY <1>3, <1>7, Zenon
  <2> QED
    BY <1>1, <1>2, <1>3, <2>1 DEF PlayerInv, PlaysAlone, Alone, Playing
<1>8. ~disturbed' => Alone(blinky', 0) /\ events' = 0
  BY <1>2, <1>3, <1>7, BecomesFacts
<1>9. PlaysAlone'
  BY <1>1, <1>3, <1>8 DEF PlaysAlone, Alone
<1> QED
  BY <1>6, <1>9 DEF PlayerInv

\* The second run_step of the handler starts with nothing sent, since a pattern
\* is started over only if its next step has sent nothing.
LEMMA HandledFacts ==
    ASSUME Good(blinky), blinky.sent = 0, NEW first \in BOOLEAN, NEW second \in BOOLEAN
    PROVE  LET once == run_step(blinky, first)
               twice == Handled(once, second)
           IN  /\ Good(twice)
               /\ /\ blinky.present /\ (blinky.restart \/ blinky.calls = 0)
                  /\ Restarts(once) => once.present
                  => Alone(twice, twice.sent)
<1> DEFINE once == run_step(blinky, first)
           again == [once EXCEPT !.curr = 1]
           twice == Handled(once, second)
<1>1. Good(once) /\ (once.sent = 0 \/ once.ok \/ ~once.restart)
  BY RunFacts
<1>2. blinky.present /\ (blinky.restart \/ blinky.calls = 0) => Alone(once, once.sent)
  BY RunAlone
<1>3. twice = IF Restarts(once) THEN run_step(again, second) ELSE once
  BY Zenon DEF Handled
<1> HIDE DEF once, twice
<1>4. CASE Restarts(once)
  <2>1. once \in Object /\ once.sent = 0 /\ once.restart
    BY <1>1, <1>4 DEF Good, Restarts
  <2>2. /\ again \in Object /\ again.curr = 1 /\ again.pattern = once.pattern
        /\ again.sent = 0 /\ again.restart /\ (again.present <=> once.present)
    BY <2>1 DEF Object
  <2> HIDE DEF again
  <2>3. Len(again.pattern) \in Nat
    BY <2>2 DEF Object
  <2>4. Good(again)
    BY <2>2, <2>3 DEF Good
  <2>5. twice = run_step(again, second)
    BY <1>3, <1>4
  <2>6. Good(twice)
    BY <2>2, <2>4, <2>5, RunFacts
  <2>7. once.present => Alone(twice, twice.sent)
    BY <2>2, <2>4, <2>5, RunAlone
  <2> QED
    BY <1>4, <2>6, <2>7 DEF once, twice
<1>5. CASE ~Restarts(once)
  <2>1. twice = once
    BY <1>3, <1>5
  <2> QED
    BY <1>1, <1>2, <2>1 DEF once, twice
<1> QED
  BY <1>4, <1>5

LEMMA HandlerKeeps == PlayerInv /\ event_handler => PlayerInv'
<1> SUFFICES ASSUME PlayerInv, event_handler PROVE PlayerInv'
  OBVIOUS
<1>1. /\ Good(blinky) /\ blinky.sent = 0 /\ blinky.ok
      /\ events \in 1 .. MaxEvents /\ disturbed \in BOOLEAN
  BY MaxEventsAssumption DEF PlayerInv, BlinkyTypeOK, Good, event_handler
<1>2. PICK first \in BOOLEAN, second \in BOOLEAN :
          LET once == run_step(blinky, first)
              twice == Handled(once, second)
              gone == ~blinky.present \/ (Restarts(once) /\ ~once.present)
          IN  /\ crashed' = gone
              /\ IF gone
                 THEN UNCHANGED <<blinky, events, boardVars>>
                 ELSE /\ Becomes(twice)
                      /\ events' = events - 1 + twice.sent
              /\ disturbed' = (disturbed \/ (Restarts(once) /\ ~once.present))
  BY Zenon DEF event_handler
<1> DEFINE once == run_step(blinky, first)
           twice == Handled(once, second)
           lost == Restarts(once) /\ ~once.present
           gone == ~blinky.present \/ lost
<1>3. Good(twice)
  BY <1>1, HandledFacts
<1>4. blinky.present /\ (blinky.restart \/ blinky.calls = 0) /\ ~lost
          => Alone(twice, twice.sent)
  BY <1>1, HandledFacts, Zenon
<1>5. /\ crashed' = gone
      /\ gone => UNCHANGED <<blinky, events>>
      /\ ~gone => Becomes(twice) /\ events' = events - 1 + twice.sent
      /\ disturbed' = (disturbed \/ lost)
  BY <1>2
<1>6. (disturbed \/ lost) \in BOOLEAN /\ gone \in BOOLEAN
  BY Zenon
<1>7. crashed' \in BOOLEAN /\ disturbed' \in BOOLEAN
  <2> HIDE DEF gone, lost
  <2> QED
    BY <1>5, <1>6, Zenon
<1>8. ~disturbed' => ~disturbed /\ ~lost
  BY <1>5, Zenon
<1> HIDE DEF twice, once
<1>9. CASE gone
  <2>1. BlinkyTypeOK'
    BY <1>1, <1>5, <1>7, <1>9 DEF PlayerInv, BlinkyTypeOK
  <2>2. disturbed'
    BY <1>1, <1>8, <1>9 DEF PlayerInv, PlaysAlone
  <2> QED
    BY <2>1, <2>2 DEF PlayerInv, PlaysAlone
<1>10. CASE ~gone
  <2>1. /\ Good(blinky') /\ blinky'.sent = 0 /\ blinky'.ok
        /\ Alone(twice, twice.sent) => Alone(blinky', twice.sent)
    BY <1>3, <1>5, <1>10, BecomesFacts
  <2>2. twice.sent \in {0, 1}
    BY <1>3 DEF Good, Object
  <2>3. events' \in 0 .. MaxEvents
    BY <1>1, <1>5, <1>10, <2>2, MaxEventsAssumption
  <2>4. BlinkyTypeOK'
    BY <1>7, <2>1, <2>3 DEF BlinkyTypeOK, Good
  <2>5. ASSUME ~disturbed' PROVE ~crashed' /\ Alone(blinky', events')
    <3>1. events = 1 /\ blinky.present /\ (blinky.restart \/ blinky.calls = 0)
      <4>1. blinky.calls \in {0, 1, 2}
        BY <1>1 DEF Good, Object
      <4> QED
        BY <1>1, <1>8, <2>5, <4>1 DEF PlayerInv, PlaysAlone
    <3>2. Alone(blinky', twice.sent)
      BY <1>4, <1>8, <2>1, <2>5, <3>1
    <3>3. events' = twice.sent
      BY <1>5, <1>10, <2>2, <3>1
    <3>4. ~crashed'
      BY <1>5, <1>10, Zenon
    <3> QED
      BY <3>2, <3>3, <3>4
  <2>6. PlaysAlone'
    BY <2>5 DEF PlaysAlone, Alone
  <2> QED
    BY <2>4, <2>6 DEF PlayerInv
<1> QED
  BY <1>9, <1>10

LEMMA InitPlayerInv == UIInit => PlayerInv
<1> SUFFICES ASSUME UIInit PROVE PlayerInv
  OBVIOUS
<1>1. <<>> \in Seq(Tokens) /\ Len(<<>>) = 0
  OBVIOUS
<1>2. /\ blinky \in Object /\ blinky.curr = 1 /\ blinky.pattern = <<>>
      /\ blinky.sent = 0 /\ blinky.ok /\ blinky.calls = 0
  BY <1>1 DEF UIInit, BlinkyInit, Object, Callbacks
<1>3. events = 0 /\ crashed = FALSE /\ disturbed = FALSE
  BY DEF UIInit, BlinkyInit
<1>4. BlinkyTypeOK
  <2>1. Len(blinky.pattern) = 0
    BY <1>1, <1>2
  <2>2. blinky.curr \in 1 .. Len(blinky.pattern) + 1
    BY <1>2, <2>1
  <2>3. events \in 0 .. MaxEvents
    BY <1>3, MaxEventsAssumption
  <2>4. crashed \in BOOLEAN /\ disturbed \in BOOLEAN
    BY <1>3
  <2> QED
    BY <1>2, <2>2, <2>3, <2>4 DEF BlinkyTypeOK
<1>5. PlaysAlone
  BY <1>2, <1>3 DEF PlaysAlone
<1> QED
  BY <1>4, <1>5 DEF PlayerInv

LEMMA NextPlayerInv == PlayerInv /\ [UINext]_uiVars => PlayerInv'
<1> SUFFICES ASSUME PlayerInv, [UINext]_uiVars PROVE PlayerInv'
  OBVIOUS
<1>1. UNCHANGED blinkyVars => PlayerInv'
  BY DEF blinkyVars, PlayerInv, BlinkyTypeOK, PlaysAlone
<1>2. CASE Button \/ Poll \/ LedOff \/ Signal
  BY <1>1, <1>2 DEF Button, Poll, LedOff, Signal
<1>3. CASE Player
  BY <1>3, StartKeeps, StopKeeps DEF Player
<1>4. CASE Timer
  BY <1>4, HandlerKeeps DEF Timer
<1>5. CASE UNCHANGED uiVars
  BY <1>1, <1>5 DEF uiVars
<1> QED
  BY <1>2, <1>3, <1>4, <1>5 DEF UINext

\* PlaysAlone: an owner who starts and stops only what has ended is never
\* surprised by a timer event.
THEOREM PlayerPlaysAlone == UISpec => []PlaysAlone
<1>1. PlayerInv => PlaysAlone
  BY DEF PlayerInv
<1> QED
  BY <1>1, InitPlayerInv, NextPlayerInv, PTL DEF UISpec

\* The object and the number of events in flight stay in their types.
THEOREM PlayerTypeCorrect == UISpec => []BlinkyTypeOK
<1>1. PlayerInv => BlinkyTypeOK
  BY DEF PlayerInv
<1> QED
  BY <1>1, InitPlayerInv, NextPlayerInv, PTL DEF UISpec

-----------------------------------------------------------------------------
(* How a pattern that is played once ends                                  *)

\* One step nearer to the end: the next number of the same pattern, or the
\* encore that the owner starts instead of the pattern that has ended.
Nearer ==
    \/ /\ blinky'.pattern = blinky.pattern /\ blinky'.curr = blinky.curr + 1
       /\ blinky'.callback = blinky.callback
    \/ blinky.callback = "encore" /\ blinky'.callback = "notify"

\* An ongoing pattern never falls silent: each step leaves it as it is, brings
\* it nearer to its end with an event in flight, or is one of the ends of
\* PatternEnds.
GoesOn ==
    Ongoing /\ blinky.calls = 0 =>
        \/ UNCHANGED <<blinky, events>>
        \/ Ongoing' /\ blinky'.calls = 0 /\ Nearer
        \/ blinky'.calls > 0 \/ disturbed' \/ blinky'.lost

\* A delay takes one number off the pattern.
LEMMA DelayFacts ==
    ASSUME NEW b, Good(b), b.sent = 0, Token(b) = "delay", NEW accepted \in BOOLEAN
    PROVE  LET r == SendEvent(b, accepted)
           IN  /\ r.pattern = b.pattern /\ r.curr = b.curr + 1
               /\ r.callback = b.callback
               /\ (r.lost <=> b.lost \/ ~accepted)
<1> DEFINE n == IF accepted THEN 1 ELSE 0
           l == b.lost \/ ~accepted
           r == SendEvent(b, accepted)
<1>1. b \in Object
  BY DEF Good
<1>2. get_next_int(b) = [b EXCEPT !.curr = b.curr + 1]
  BY DEF get_next_int
<1>3. r = [[b EXCEPT !.curr = b.curr + 1]
             EXCEPT !.sent = @ + n, !.ok = accepted, !.lost = @ \/ ~accepted]
  BY <1>2, Zenon DEF SendEvent
<1>4. [b EXCEPT !.curr = b.curr + 1].lost = b.lost
  BY <1>1 DEF Object
<1>5. r = [[b EXCEPT !.curr = b.curr + 1]
             EXCEPT !.sent = @ + n, !.ok = accepted, !.lost = l]
  BY <1>3, <1>4, Zenon
<1> HIDE DEF n, l, r
<1>6. /\ r.pattern = b.pattern /\ r.curr = b.curr + 1 /\ r.callback = b.callback
      /\ r.lost = l
  BY <1>1, <1>5 DEF Object
<1> QED
  BY <1>6 DEF r, l

\* The owner of a pattern that has ended is told, and nothing follows unless
\* the owner starts the encore.
LEMMA ToldOrEncore ==
    ASSUME NEW b, Good(b), b.sent = 0, b.calls = 0, ~b.lost, NEW accepted \in BOOLEAN
    PROVE  LET r == Callback(b, accepted)
           IN  \/ r.calls > 0
               \/ r.lost
               \/ /\ b.callback = "encore" /\ r.callback = "notify"
                  /\ r.calls = 0 /\ r.sent = 1 /\ ~r.restart
<1> DEFINE called == [b EXCEPT !.calls = IF @ < 2 THEN @ + 1 ELSE 2]
           r == Callback(b, accepted)
<1>1. b \in Object
  BY DEF Good
<1>2. called = [b EXCEPT !.calls = 1]
  BY DEF Object
<1> HIDE DEF called
<1>3. called \in Object /\ Good(called) /\ called.calls = 1 /\ called.sent = 0
      /\ called.callback = b.callback /\ (called.lost <=> b.lost)
  BY <1>1, <1>2 DEF Good, Object
<1>4. CASE b.callback = "notify"
  <2>1. r = called
    BY <1>4 DEF Callback, called
  <2> QED
    BY <1>3, <2>1
<1>5. CASE b.callback = "stop"
  <2>1. r = stop(called)
    BY <1>5 DEF Callback, called
  <2> QED
    BY <1>3, <2>1, StopFacts
<1>6. CASE b.callback = "encore"
  <2> DEFINE loaded == Load(called, Encore, FALSE, "notify")
  <2>1. r = SendEvent(loaded, accepted)
    BY <1>6 DEF Callback, called
  <2>2. Good(loaded) /\ loaded.sent = 0 /\ loaded.calls = 0 /\ ~loaded.restart
    BY <1>3, LoadFacts, PatternsAssumption DEF Callbacks
  <2>3. loaded.pattern = Encore /\ loaded.curr = 1 /\ loaded.callback = "notify"
    BY <1>3 DEF Load, Object
  <2> HIDE DEF loaded, r
  <2>4. Token(loaded) = "delay"
    <3>1. 1 \in 1 .. Len(Encore)
      BY PatternsAssumption
    <3> QED
      BY <2>3, <3>1, PatternsAssumption DEF Token
  <2>5. r.callback = "notify" /\ (~accepted => r.lost)
    BY <2>1, <2>2, <2>3, <2>4, DelayFacts
  <2>6. r.sent = (IF accepted THEN 1 ELSE 0) /\ ~r.restart /\ r.calls = 0
    BY <2>1, <2>2, SendFacts
  <2> QED
    BY <1>6, <2>5, <2>6 DEF r
<1> QED
  BY <1>1, <1>4, <1>5, <1>6 DEF Object, Callbacks

\* A step of a pattern that is played once and has not ended.
LEMMA RunOnce ==
    ASSUME NEW b, Good(b), b.sent = 0, b.calls = 0, ~b.lost, ~b.restart,
           NEW accepted \in BOOLEAN
    PROVE  LET r == run_step(b, accepted)
           IN  \/ r.calls > 0
               \/ r.lost
               \/ /\ r.sent = 1 /\ r.calls = 0 /\ ~r.restart
                  /\ \/ /\ r.pattern = b.pattern /\ r.curr = b.curr + 1
                        /\ r.callback = b.callback
                     \/ b.callback = "encore" /\ r.callback = "notify"
<1> DEFINE r == run_step(b, accepted)
<1>1. CASE Token(b) = "delay"
  <2>1. r = SendEvent(b, accepted)
    BY <1>1 DEF run_step
  <2> HIDE DEF r
  <2>2. /\ r.pattern = b.pattern /\ r.curr = b.curr + 1 /\ r.callback = b.callback
        /\ (r.lost <=> b.lost \/ ~accepted)
    BY <1>1, <2>1, DelayFacts
  <2>3. r.sent = (IF accepted THEN 1 ELSE 0) /\ ~r.restart /\ r.calls = 0
    BY <2>1, SendFacts
  <2> QED
    BY <2>2, <2>3 DEF r
<1>2. CASE Token(b) # "delay"
  <2> DEFINE next == get_next_int(b)
             told == Callback(next, accepted)
  <2>1. r = [told EXCEPT !.ok = FALSE]
    BY <1>2 DEF run_step
  <2>2. /\ Good(next) /\ next.sent = 0 /\ next.calls = 0 /\ ~next.lost
        /\ next.callback = b.callback
    <3>1. PICK k \in 1 .. Len(b.pattern) + 1 : next = [b EXCEPT !.curr = k]
      BY NextIntFacts
    <3>2. b \in Object /\ k \in Nat
      BY DEF Good, Object
    <3> HIDE DEF next
    <3> QED
      BY <3>1, <3>2 DEF Good, Object
  <2> HIDE DEF next
  <2>3. /\ Good(told)
        /\ \/ told.calls > 0
           \/ told.lost
           \/ /\ next.callback = "encore" /\ told.callback = "notify"
              /\ told.calls = 0 /\ told.sent = 1 /\ ~told.restart
    BY <2>2, ToldOrEncore, CallbackFacts
  <2> HIDE DEF told, r
  <2>4. /\ r.calls = told.calls /\ (r.lost <=> told.lost) /\ r.sent = told.sent
        /\ r.callback = told.callback /\ (r.restart <=> told.restart)
    BY <2>1, <2>3 DEF Good, Object
  <2> QED
    BY <2>2, <2>3, <2>4 DEF r
<1> QED
  BY <1>1, <1>2

LEMMA EventGoesOn ==
    ASSUME PlayerInv, event_handler
    PROVE  GoesOn
<1> SUFFICES ASSUME Ongoing, blinky.calls = 0, ~disturbed', ~blinky'.lost,
                    ~(blinky'.calls > 0)
             PROVE  Ongoing' /\ blinky'.calls = 0 /\ Nearer
  BY DEF GoesOn
<1>1. /\ Good(blinky) /\ blinky.sent = 0 /\ events = 1 /\ blinky.present
      /\ ~blinky.restart /\ ~blinky.lost
  BY DEF PlayerInv, PlaysAlone, BlinkyTypeOK, Good, Ongoing, Playing
<1>2. PICK first \in BOOLEAN, second \in BOOLEAN :
          LET once == run_step(blinky, first)
              twice == Handled(once, second)
              gone == ~blinky.present \/ (Restarts(once) /\ ~once.present)
          IN  IF gone
              THEN UNCHANGED <<blinky, events, boardVars>>
              ELSE /\ Becomes(twice)
                   /\ events' = events - 1 + twice.sent
  BY Zenon DEF event_handler
<1> DEFINE once == run_step(blinky, first)
<1>3. /\ Good(once)
      /\ \/ once.calls > 0
         \/ once.lost
         \/ /\ once.sent = 1 /\ once.calls = 0 /\ ~once.restart
            /\ \/ /\ once.pattern = blinky.pattern /\ once.curr = blinky.curr + 1
                  /\ once.callback = blinky.callback
               \/ blinky.callback = "encore" /\ once.callback = "notify"
  BY <1>1, RunOnce, RunFacts
<1>4. ~once.restart
  BY <1>1, RunFacts
<1>5. Becomes(once) /\ events' = events - 1 + once.sent
  BY <1>1, <1>2, <1>4, Zenon DEF Restarts, Handled
<1> HIDE DEF once
<1>6. /\ blinky'.calls = once.calls /\ (blinky'.lost <=> once.lost)
      /\ (blinky'.restart <=> once.restart) /\ blinky'.pattern = once.pattern
      /\ blinky'.curr = once.curr /\ blinky'.callback = once.callback
  BY <1>3, <1>5 DEF Becomes, Good, Object
<1>7. Nearer /\ blinky'.calls = 0 /\ once.sent = 1
  BY <1>3, <1>6 DEF Nearer
<1>8. events' > 0
  BY <1>1, <1>5, <1>7
<1> QED
  BY <1>4, <1>6, <1>7, <1>8 DEF Ongoing, Playing

LEMMA StepGoesOn == PlayerInv /\ [UINext]_uiVars => GoesOn
<1> SUFFICES ASSUME PlayerInv, [UINext]_uiVars PROVE GoesOn
  OBVIOUS
<1>1. UNCHANGED <<blinky, events>> => GoesOn
  BY DEF GoesOn
<1>2. CASE Button \/ Poll \/ LedOff \/ Signal
  BY <1>1, <1>2 DEF Button, Poll, LedOff, Signal, blinkyVars
<1>3. CASE Player
  BY <1>3 DEF Player, Start, Stop, GoesOn, Ongoing
<1>4. CASE Timer
  BY <1>4, EventGoesOn DEF Timer
<1>5. CASE UNCHANGED uiVars
  BY <1>1, <1>5 DEF uiVars, blinkyVars
<1> QED
  BY <1>2, <1>3, <1>4, <1>5 DEF UINext

\* A pattern that is played once neither hangs nor starts over by itself: with
\* the delivery of its events it must reach one of the ends of PatternEnds,
\* since each step takes a number off it or is the only encore.
THEOREM PatternGoesOn == UISpec => [][GoesOn]_uiVars
<1>1. PlayerInv /\ [UINext]_uiVars => [GoesOn]_uiVars
  BY StepGoesOn
<1> QED
  BY <1>1, InitPlayerInv, NextPlayerInv, PTL DEF UISpec

=============================================================================
