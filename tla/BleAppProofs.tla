----------------------------- MODULE BleAppProofs -----------------------------
(***************************************************************************)
(* Proofs about the BLE build, for every size of the table and of the      *)
(* event queue, any bytes in the advertisements and whatever the server    *)
(* writes.  Two invariants that do not need each other: Phases, of the     *)
(* stack and its event queue, and DataInv, of the table and its shadows.   *)
(***************************************************************************)
EXTENDS BleApp, TLAPS, FiniteSetTheorems, SequenceTheorems

-----------------------------------------------------------------------------
(* The phases of a scan                                                    *)

\* What may be left in the queue when a dispatch is broken: the request to poll
\* a stack that has been shut down since.
Leftover == {<<>>, <<"process_events">>}

Off ==
    /\ ble = "off" /\ ~scanning /\ signal = "none" /\ duration_timers = 0
    /\ queue \in Leftover
    /\ break_requested <=> pc = "dispatch"

\* Between run() and the answer of the stack.
Starting ==
    /\ ble = "initialising" /\ ~scanning /\ duration_timers = 0
    /\ \/ queue \in Leftover /\ signal \in {"none", "init_done", "init_error"}
       \/ /\ queue = <<"process_events", "process_events">>
          /\ signal \in {"init_done", "init_error"}

Failed ==
    /\ ble = "init_failed" /\ ~scanning /\ duration_timers = 0
    /\ queue \in Leftover /\ signal = "none"

\* Between the answer and demo_mode_start, which may have been dropped.
Ready ==
    /\ ble = "ready" /\ ~scanning /\ duration_timers = 0 /\ signal = "none"
    /\ queue \in Leftover \cup
          {<<"demo_mode_start">>, <<"process_events", "demo_mode_start">>}

ScanPosted ==
    /\ ble = "ready" /\ ~scanning /\ duration_timers \in {0, 1} /\ signal = "none"
    /\ queue = <<"scan">>

\* While advertisements may come in, and after the scan has timed out.
Scanning ==
    /\ ble = "ready" /\ scanning \in BOOLEAN /\ duration_timers \in {0, 1}
    /\ signal \in {"none", "advertisement", "scan_timeout"}
    /\ queue \in Leftover /\ (signal = "none" => queue = <<>>)

\* After on_duration_end.
Ending ==
    /\ ble = "ready" /\ scanning \in BOOLEAN /\ duration_timers = 0
    /\ signal \in {"none", "advertisement", "scan_timeout"}
    /\ queue \in {<<"demo_mode_end">>, <<"process_events", "demo_mode_end">>,
                  <<"demo_mode_end", "process_events">>}
    /\ signal = "none" => queue = <<"demo_mode_end">>

Dispatching ==
    /\ pc = "dispatch" /\ ~break_requested
    /\ Starting \/ Failed \/ Ready \/ ScanPosted \/ Scanning \/ Ending

Phases ==
    /\ pc \in RegisterPc \cup BodyPc \cup {"loop", "exit"}
    /\ blink_timers \in Nat /\ Occupied <= QueueSize
    /\ break_requested \in BOOLEAN /\ dropped \in BOOLEAN
    /\ DropsOnlyWhenCrowded
    /\ Off \/ Dispatching

LEMMA InitPhases == Init => Phases
<1> SUFFICES ASSUME Init PROVE Phases
  OBVIOUS
<1> USE DEF Init, ClientInit, GapInit
<1>1. pc \in RegisterPc /\ blink_timers \in Nat
  BY DEF RegisterPc
<1>2. Occupied <= QueueSize
  BY GapAssumption DEF Occupied
<1>3. ~dropped /\ break_requested \in BOOLEAN /\ dropped \in BOOLEAN
  BY Zenon
<1>4. Off
  BY DEF Off, Leftover
<1> HIDE DEF Init
<1> QED
  BY <1>1, <1>2, <1>3, <1>4 DEF Phases, DropsOnlyWhenCrowded

LEMMA QueueSizeNat == QueueSize \in Nat
BY GapAssumption

LEMMA StillCrowded ==
    ASSUME NEW b \in Nat, NEW c \in Nat, c >= b, b + 3 > QueueSize
    PROVE  c + 3 > QueueSize
BY QueueSizeNat

\* What has been said of a crowded queue stays true: blink timers do not go away.
LEMMA CrowdedStays ==
    ASSUME DropsOnlyWhenCrowded, blink_timers \in Nat, blink_timers' \in Nat,
           blink_timers' >= blink_timers,
           dropped' => dropped \/ blink_timers' + 3 > QueueSize
    PROVE  DropsOnlyWhenCrowded'
<1>1. blink_timers + 3 > QueueSize => blink_timers' + 3 > QueueSize
  BY StillCrowded
<1> QED
  BY <1>1, Zenon DEF DropsOnlyWhenCrowded

\* Labels at which the application thread is not dispatching events.
AwayPc == RegisterPc \cup {"run", "upload", "bitmap", "wait", "loop", "exit"}

\* A step that leaves the stack and the queue alone keeps the phase, if the
\* application thread neither enters nor leaves the dispatch.
LEMMA AwayStep ==
    ASSUME Phases, UNCHANGED gapVars, pc' = pc \/ (pc \in AwayPc /\ pc' \in AwayPc)
    PROVE  Phases'
<1>1. /\ pc' \in RegisterPc \cup BodyPc \cup {"loop", "exit"}
      /\ pc = "dispatch" <=> pc' = "dispatch"
  BY DEF Phases, AwayPc, RegisterPc, BodyPc
<1>2. Off => Off'
  BY <1>1 DEF Off, gapVars
<1>3. Dispatching => Dispatching'
  BY <1>1 DEF Dispatching, Starting, Failed, Ready, ScanPosted, Scanning, Ending,
              gapVars
<1> QED
  BY <1>1, <1>2, <1>3 DEF Phases, DropsOnlyWhenCrowded, Occupied, gapVars

LEMMA RegisterPhases == Phases /\ Register => Phases'
<1> SUFFICES ASSUME Phases, Register PROVE Phases'
  OBVIOUS
<1>1. pc \in AwayPc /\ pc' \in AwayPc
  BY DEF Register, RegisterAndConnect, NoInterface, ConnectFails,
         ConnectSucceeds, Setup, Mark, SetClient, SetAuthorize, AwayPc, RegisterPc
<1> QED
  BY <1>1, AwayStep DEF Register

LEMMA LoopPhases == Phases /\ Loop => Phases'
<1> SUFFICES ASSUME Phases, Loop PROVE Phases'
  OBVIOUS
<1>1. pc \in AwayPc /\ pc' \in AwayPc
  BY DEF Loop, CheckLoop, Goto, AwayPc
<1> QED
  BY <1>1, AwayStep DEF Loop

LEMMA FinishPhases == Phases /\ Finish => Phases'
<1> SUFFICES ASSUME Phases, Finish PROVE Phases'
  OBVIOUS
<1>1. pc \in AwayPc /\ pc' \in AwayPc
  BY DEF Finish, UploadAndWait, Upload, Bitmap, Wait, Goto, AwayPc
<1> QED
  BY <1>1, AwayStep DEF Finish

LEMMA CallbackPhases == Phases /\ (Callback \/ Server) => Phases'
<1> SUFFICES ASSUME Phases, Callback \/ Server PROVE Phases'
  OBVIOUS
<1>1. pc' = pc
  BY DEF Callback, EventLoop, ClientRegistered, ClientError, PostUnregister,
         PostFactoryReset, close, FactoryReset, ClientUnregistered,
         UnregisteredReturns, UpdateRequest, Server, ServerPut, clientVars
<1>2. UNCHANGED gapVars
  BY DEF Callback, Server
<1> QED
  BY <1>1, <1>2, AwayStep

LEMMA RunPhases == Phases /\ Run => Phases'
<1> SUFFICES ASSUME Phases, Run PROVE Phases'
  OBVIOUS
<1>1. pc = "run" /\ Off /\ ~break_requested
  BY DEF Run, Goto, Phases, Dispatching, Off
<1>2. CASE Goto("run", "dispatch") /\ RunStarts
  <2>1. pc' = "dispatch" /\ ble' = "initialising"
    BY <1>2 DEF Goto, RunStarts
  <2>2. Starting' /\ ~break_requested'
    BY <1>1, <1>2, <2>1 DEF Starting, Off, RunStarts
  <2>3. /\ blink_timers \in Nat /\ Len(queue) \in {0, 1} /\ duration_timers = 0
        /\ Occupied <= QueueSize
    BY <1>1 DEF Off, Leftover, Phases
  <2>6. /\ blink_timers' = IF HasRoom THEN blink_timers + 1 ELSE blink_timers
        /\ UNCHANGED <<queue, duration_timers>>
    BY <1>2 DEF RunStarts
  <2>7. /\ blink_timers' \in Nat /\ blink_timers' >= blink_timers
        /\ Occupied' <= QueueSize
        /\ ~HasRoom => blink_timers' + 3 > QueueSize
    <3>1. Occupied = Len(queue) + blink_timers + duration_timers
          /\ Occupied' = Len(queue) + blink_timers' + duration_timers
          /\ (HasRoom <=> Occupied < QueueSize)
      BY <2>6 DEF Occupied, HasRoom
    <3>2. CASE HasRoom
      BY <2>3, <2>6, <3>1, <3>2, QueueSizeNat
    <3>3. CASE ~HasRoom
      <4>1. blink_timers' = blink_timers /\ ~(Occupied < QueueSize)
        BY <2>6, <3>1, <3>3
      <4> QED
        BY <2>3, <3>1, <4>1, QueueSizeNat
    <3> QED
      BY <3>2, <3>3
  <2>8. dropped' => dropped \/ ~HasRoom
    BY <1>2, Zenon DEF RunStarts
  <2>4. break_requested' \in BOOLEAN /\ dropped' \in BOOLEAN
    BY <1>2, Zenon DEF RunStarts, Phases
  <2>5. DropsOnlyWhenCrowded'
    BY <2>3, <2>7, <2>8, CrowdedStays DEF Phases
  <2> QED
    BY <2>1, <2>2, <2>4, <2>5, <2>7 DEF Phases, Dispatching, BodyPc
<1>3. CASE Goto("run", "upload") /\ RunFails
  <2>1. pc \in AwayPc /\ pc' \in AwayPc
    BY <1>3 DEF Goto, AwayPc
  <2> QED
    BY <1>3, <2>1, AwayStep DEF RunFails
<1> QED
  BY <1>2, <1>3 DEF Run

LEMMA ReturnPhases == Phases /\ Return => Phases'
<1> SUFFICES ASSUME Phases, Return PROVE Phases'
  OBVIOUS
<1>1. pc = "dispatch" /\ pc' = "upload" /\ break_requested /\ ~break_requested'
  BY DEF Return, Goto, DispatchReturns
<1>2. UNCHANGED <<ble, scanning, signal, queue, blink_timers, duration_timers,
                  dropped>>
  BY DEF Return, DispatchReturns
<1>3. Off'
  BY <1>1, <1>2 DEF Phases, Dispatching, Off
<1>4. break_requested' \in BOOLEAN
  BY Zenon DEF Return, DispatchReturns
<1>5. DropsOnlyWhenCrowded' /\ Occupied' <= QueueSize /\ pc' \in BodyPc
      /\ blink_timers' \in Nat /\ dropped' \in BOOLEAN
  BY <1>1, <1>2 DEF Phases, DropsOnlyWhenCrowded, Occupied, BodyPc
<1> QED
  BY <1>3, <1>4, <1>5 DEF Phases

-----------------------------------------------------------------------------
(* The events                                                              *)

Events == {"process_events", "demo_mode_start", "scan", "demo_mode_end"}

\* The queues a scan goes through, by length.
Short == {<<>>, <<"process_events">>, <<"demo_mode_start">>, <<"scan">>,
          <<"demo_mode_end">>}
Long == {<<"process_events", "process_events">>,
         <<"process_events", "demo_mode_start">>,
         <<"process_events", "demo_mode_end">>,
         <<"demo_mode_end", "process_events">>}

LEMMA Tuples ==
    ASSUME NEW S, NEW d \in S, NEW e \in S
    PROVE  /\ Append(<<>>, e) = <<e>> /\ Append(<<d>>, e) = <<d, e>>
           /\ Tail(<<e>>) = <<>> /\ Head(<<e>>) = e
           /\ Tail(<<d, e>>) = <<e>> /\ Head(<<d, e>>) = d
           /\ <<e>> # <<>> /\ <<d, e>> # <<>>
           /\ <<>> \in Seq(S) /\ <<e>> \in Seq(S) /\ <<d, e>> \in Seq(S)
           /\ Len(<<>>) = 0 /\ Len(<<e>>) = 1 /\ Len(<<d, e>>) = 2
<1>1. Append(<<>>, e) = <<e>>
  OBVIOUS
<1>7. Append(<<d>>, e) = <<d, e>>
  <2> DEFINE s == Append(<<d>>, e)
             t == <<d, e>>
  <2>1. s \in Seq(S) /\ Len(s) = 2 /\ s[1] = d /\ s[2] = e
    OBVIOUS
  <2>2. t \in Seq(S) /\ Len(t) = 2 /\ t[1] = d /\ t[2] = e
    OBVIOUS
  <2> HIDE DEF s, t
  <2>3. \A i \in 1 .. Len(s) : s[i] = t[i]
    BY <2>1, <2>2
  <2>4. s = t
    BY <2>1, <2>2, <2>3, SeqEqual
  <2> QED
    BY <2>4 DEF s, t
<1>2. Tail(<<e>>) = <<>> /\ Head(<<e>>) = e
  OBVIOUS
<1>3. Tail(<<d, e>>) = <<e>> /\ Head(<<d, e>>) = d
  OBVIOUS
<1>4. <<e>> # <<>> /\ <<d, e>> # <<>>
  OBVIOUS
<1>5. <<>> \in Seq(S) /\ <<e>> \in Seq(S) /\ <<d, e>> \in Seq(S)
  OBVIOUS
<1>6. Len(<<>>) = 0 /\ Len(<<e>>) = 1 /\ Len(<<d, e>>) = 2
  OBVIOUS
<1> QED
  BY <1>1, <1>2, <1>3, <1>4, <1>5, <1>6, <1>7, Zenon

LEMMA QueueLengths ==
    /\ \A q \in Short : q \in Seq(Events) /\ Len(q) \in 0 .. 1
    /\ \A q \in Long : q \in Seq(Events) /\ Len(q) = 2
<1> DEFINE EventTuples ==
        \A d, e \in Events : /\ <<>> \in Seq(Events) /\ Len(<<>>) = 0
                            /\ <<e>> \in Seq(Events) /\ Len(<<e>>) = 1
                            /\ <<d, e>> \in Seq(Events) /\ Len(<<d, e>>) = 2
<1>1. EventTuples
  BY Tuples
<1>2. /\ "process_events" \in Events /\ "demo_mode_start" \in Events
      /\ "scan" \in Events /\ "demo_mode_end" \in Events
  BY DEF Events
<1>3. \A q \in Short : q \in Seq(Events) /\ (Len(q) = 0 \/ Len(q) = 1)
  BY <1>1, <1>2, Zenon DEF Short
<1>4. \A q \in Long : q \in Seq(Events) /\ Len(q) = 2
  BY <1>1, <1>2, Zenon DEF Long
<1> QED
  BY <1>3, <1>4

\* How many events there can be beside the blink timers.
LEMMA FewEvents ==
    ASSUME Phases
    PROVE  /\ queue \in Seq(Events) /\ Len(queue) \in 0 .. 2
           /\ duration_timers \in 0 .. 1 /\ Len(queue) + duration_timers \in 0 .. 2
           /\ blink_timers \in Nat /\ Occupied <= QueueSize
           /\ Occupied = Len(queue) + blink_timers + duration_timers
<1>1. \/ queue \in Short /\ duration_timers \in {0, 1}
      \/ queue \in Long /\ duration_timers = 0
  <2>1. Off \/ Starting \/ Failed \/ Ready \/ ScanPosted \/ Scanning \/ Ending
    BY Zenon DEF Phases, Dispatching
  <2> USE DEF Short, Long, Leftover
  <2>2. CASE Off
    BY <2>2, Zenon DEF Off
  <2>3. CASE Starting
    BY <2>3, Zenon DEF Starting
  <2>4. CASE Failed
    BY <2>4, Zenon DEF Failed
  <2>5. CASE Ready
    BY <2>5, Zenon DEF Ready
  <2>6. CASE ScanPosted
    BY <2>6, Zenon DEF ScanPosted
  <2>7. CASE Scanning
    BY <2>7, Zenon DEF Scanning
  <2>8. CASE Ending
    BY <2>8, Zenon DEF Ending
  <2> QED
    BY <2>1, <2>2, <2>3, <2>4, <2>5, <2>6, <2>7, <2>8, Zenon
<1>2. blink_timers \in Nat /\ Occupied <= QueueSize
  BY Zenon DEF Phases
<1>3. Occupied = Len(queue) + blink_timers + duration_timers
  BY Zenon DEF Occupied
<1>4. queue \in Seq(Events) /\ Len(queue) \in 0 .. 2
      /\ (Len(queue) = 2 => duration_timers = 0)
  BY <1>1, QueueLengths
<1>5. duration_timers \in 0 .. 1
  BY <1>1
<1>6. Len(queue) + duration_timers \in 0 .. 2
  <2> DEFINE n == Len(queue)
  <2>1. n \in 0 .. 2 /\ (n = 2 => duration_timers = 0)
    BY <1>4
  <2> HIDE DEF n
  <2>2. n + duration_timers \in 0 .. 2
    BY <1>5, <2>1
  <2> QED
    BY <2>2 DEF n
<1> QED
  BY <1>2, <1>3, <1>4, <1>5, <1>6, Zenon

\* An event that is posted fits, or the queue is full of blink timers.
LEMMA PostRoom ==
    ASSUME Phases, NEW rest \in Seq(Events), NEW event \in Events, Post(rest, event),
           blink_timers' = blink_timers, duration_timers' \in Nat,
           Len(rest) + duration_timers' <= Len(queue) + duration_timers
    PROVE  /\ queue' \in {rest, Append(rest, event)}
           /\ Occupied' <= QueueSize
           /\ dropped' \in BOOLEAN /\ DropsOnlyWhenCrowded'
<1>1. /\ HasRoom <=> Occupied < QueueSize
      /\ Occupied' = Len(queue') + blink_timers' + duration_timers'
  BY DEF HasRoom, Occupied
<1>2. CASE HasRoom
  <2>0. queue' = Append(rest, event)
    BY <1>2, Zenon DEF Post
  <2>1. Len(queue') = Len(rest) + 1 /\ Len(rest) \in Nat
    BY <2>0
  <2>2. dropped' <=> dropped
    BY <1>2, Zenon DEF Post
  <2>3. Occupied' <= QueueSize
    BY <1>1, <1>2, <2>1, FewEvents, QueueSizeNat
  <2>4. DropsOnlyWhenCrowded'
    BY <2>2, FewEvents, CrowdedStays DEF Phases
  <2> QED
    BY <2>0, <2>3, <2>4, Zenon DEF Post
<1>3. CASE ~HasRoom
  <2>1. queue' = rest
    BY <1>3 DEF Post
  <2>2. ~(Occupied < QueueSize)
    BY <1>1, <1>3
  <2>3. Occupied' <= QueueSize /\ blink_timers' + 3 > QueueSize
    BY <1>1, <2>1, <2>2, FewEvents, QueueSizeNat
  <2>4. DropsOnlyWhenCrowded'
    BY <2>3, Zenon DEF DropsOnlyWhenCrowded
  <2> QED
    BY <2>1, <2>3, <2>4, Zenon DEF Post
<1> QED
  BY <1>2, <1>3

\* An event that posts nothing.
LEMMA NoPost ==
    ASSUME Phases, queue # <<>>, queue' = Tail(queue),
           UNCHANGED <<blink_timers, duration_timers, dropped>>
    PROVE  Occupied' <= QueueSize /\ dropped' \in BOOLEAN /\ DropsOnlyWhenCrowded'
<1>1. Len(queue') = Len(queue) - 1
  BY FewEvents
<1>2. Occupied' = Len(queue') + blink_timers' + duration_timers'
  BY DEF Occupied
<1> QED
  BY <1>1, <1>2, FewEvents, QueueSizeNat DEF Phases, DropsOnlyWhenCrowded

LEMMA StackPhases == Phases /\ BleStack => Phases'
<1> SUFFICES ASSUME Phases, BleStack PROVE Phases'
  OBVIOUS
<1>1. /\ pc' = pc /\ signal = "none" /\ Post(queue, "process_events")
      /\ UNCHANGED <<ble, scanning, blink_timers, duration_timers, break_requested>>
      /\ \/ ble = "initialising" /\ signal' \in {"init_done", "init_error"}
         \/ scanning /\ signal' \in {"advertisement", "scan_timeout"}
  BY DEF BleStack, Stack, InitSignal, ScanSignal, Signal, clientVars
<1>2. /\ queue' \in {queue, Append(queue, "process_events")}
      /\ Occupied' <= QueueSize /\ dropped' \in BOOLEAN /\ DropsOnlyWhenCrowded'
  <2>1. /\ queue \in Seq(Events) /\ duration_timers' \in Nat
        /\ Len(queue) + duration_timers' <= Len(queue) + duration_timers
    BY <1>1, FewEvents
  <2>2. "process_events" \in Events
    BY DEF Events
  <2>3. Post(queue, "process_events") /\ blink_timers' = blink_timers
    BY <1>1
  <2> QED
    BY <2>1, <2>2, <2>3, PostRoom
<1>3. Dispatching
  BY <1>1 DEF Phases, Off
<1>4. Starting => Starting'
  <2> SUFFICES ASSUME Starting PROVE Starting'
    OBVIOUS
  <2>1. queue \in Leftover
    BY <1>1 DEF Starting
  <2>2. queue' \in Leftover \cup {<<"process_events", "process_events">>}
    BY <1>2, <2>1, Tuples DEF Leftover
  <2> QED
    BY <1>1, <2>2 DEF Starting
<1>5. Scanning => Scanning'
  <2> SUFFICES ASSUME Scanning PROVE Scanning'
    OBVIOUS
  <2>1. queue = <<>>
    BY <1>1 DEF Scanning
  <2>2. queue' \in Leftover
    BY <1>2, <2>1, Tuples DEF Leftover
  <2> QED
    BY <1>1, <2>2 DEF Scanning
<1>6. Ending => Ending'
  <2> SUFFICES ASSUME Ending PROVE Ending'
    OBVIOUS
  <2>1. queue = <<"demo_mode_end">>
    BY <1>1 DEF Ending
  <2>2. queue' \in {<<"demo_mode_end">>, <<"demo_mode_end", "process_events">>}
    BY <1>2, <2>1, Tuples
  <2> QED
    BY <1>1, <2>2 DEF Ending
<1>7. ~Failed /\ ~Ready /\ ~ScanPosted
  BY <1>1 DEF Failed, Ready, ScanPosted
<1>8. Dispatching'
  BY <1>1, <1>3, <1>4, <1>5, <1>6, <1>7 DEF Dispatching
<1> QED
  BY <1>1, <1>2, <1>8, Zenon DEF Phases

\* A dispatched event leaves the application thread where it is, and nothing
\* but demo_mode_end breaks the dispatch.
LEMMA EventPhases ==
    ASSUME Phases, pc = "dispatch", pc' = pc, break_requested' = break_requested,
           blink_timers' = blink_timers,
           Occupied' <= QueueSize, dropped' \in BOOLEAN, DropsOnlyWhenCrowded',
           \/ Off /\ Off'
           \/ /\ ~break_requested
              /\ \/ Starting' \/ Failed' \/ Ready'
                 \/ ScanPosted' \/ Scanning' \/ Ending'
    PROVE  Phases'
BY Zenon DEF Phases, Dispatching

\* Where the stack may be while an event is run.
LEMMA InDispatch ==
    ASSUME Phases
    PROVE  \/ Off
           \/ /\ ~break_requested
              /\ Starting \/ Failed \/ Ready \/ ScanPosted \/ Scanning \/ Ending
BY Zenon DEF Phases, Dispatching

LEMMA ProcessPhases ==
    ASSUME Phases, Goto("dispatch", "dispatch"), queue # <<>>, process_events
    PROVE  Phases'
<1>1. /\ pc = "dispatch" /\ pc' = pc /\ Head(queue) = "process_events"
      /\ signal' = "none"
      /\ UNCHANGED <<blink_timers, duration_timers, break_requested>>
  BY DEF Goto, process_events
<1>2. /\ "process_events" \in Events /\ "demo_mode_start" \in Events
      /\ "scan" \in Events /\ "demo_mode_end" \in Events
  BY DEF Events
<1>3. CASE NothingToProcess
  <2>1. /\ queue' = Tail(queue) /\ signal = "none"
        /\ UNCHANGED <<ble, scanning, dropped>>
    BY <1>3 DEF NothingToProcess, Rest
  <2>2. Occupied' <= QueueSize /\ dropped' \in BOOLEAN /\ DropsOnlyWhenCrowded'
    BY <1>1, <2>1, NoPost
  <2>3. queue \in Leftover => queue' = <<>>
    BY <1>2, <2>1, Tuples DEF Leftover
  <2>4. Off => Off'
    BY <1>1, <2>1, <2>3 DEF Off, Leftover
  <2>5. Starting => Starting'
    BY <1>1, <2>1, <2>3 DEF Starting, Leftover
  <2>6. Failed => Failed'
    BY <1>1, <2>1, <2>3 DEF Failed, Leftover
  <2>7. Ready => Ready'
    <3> SUFFICES ASSUME Ready PROVE Ready'
      OBVIOUS
    <3>1. queue \in Leftover \/ queue = <<"process_events", "demo_mode_start">>
      BY <1>1, <1>2, Tuples DEF Ready
    <3>2. queue' \in Leftover \cup {<<"demo_mode_start">>}
      <4>1. Tail(<<"process_events", "demo_mode_start">>) = <<"demo_mode_start">>
        BY <1>2, Tuples
      <4> QED
        BY <2>1, <2>3, <3>1, <4>1, Zenon DEF Leftover
    <3> QED
      BY <1>1, <2>1, <3>2 DEF Ready
  <2>8. ~ScanPosted /\ ~Scanning /\ ~Ending
    <3>1. Head(<<"scan">>) # "process_events"
          /\ Head(<<"demo_mode_end">>) # "process_events"
      BY <1>2, Tuples
    <3> QED
      BY <1>1, <2>1, <3>1 DEF ScanPosted, Scanning, Ending
  <2> QED
    BY <1>1, <2>2, <2>4, <2>5, <2>6, <2>7, <2>8, InDispatch, EventPhases
<1>4. CASE on_init_complete
  <2>1. signal \in {"init_error", "init_done"} /\ scanning' = scanning
    BY <1>4 DEF on_init_complete
  <2>2. Starting /\ ~break_requested
    BY <2>1, InDispatch DEF Off, Failed, Ready, ScanPosted, Scanning, Ending
  <2>3. Tail(queue) \in Leftover
    BY <1>2, <2>2, Tuples DEF Starting, Leftover
  <2>4. CASE signal = "init_error"
    <3>1. /\ ble' = "init_failed" /\ queue' = Tail(queue) /\ dropped' = dropped
      BY <1>4, <2>4 DEF on_init_complete, Rest
    <3>2. Occupied' <= QueueSize /\ dropped' \in BOOLEAN /\ DropsOnlyWhenCrowded'
      BY <1>1, <3>1, NoPost
    <3>3. Failed'
      BY <1>1, <2>1, <2>2, <2>3, <3>1 DEF Starting, Failed
    <3> QED
      BY <1>1, <2>2, <3>2, <3>3, EventPhases
  <2>5. CASE signal = "init_done"
    <3>1. ble' = "ready" /\ Post(Tail(queue), "demo_mode_start")
      BY <1>4, <2>5 DEF on_init_complete, Rest
    <3>2. Tail(queue) \in Seq(Events) /\ Len(Tail(queue)) <= Len(queue)
      BY FewEvents
    <3>3. duration_timers' \in Nat /\ Len(Tail(queue)) \in Nat
          /\ Len(Tail(queue)) + duration_timers' <= Len(queue) + duration_timers
      BY <1>1, <3>2, FewEvents
    <3>4. /\ queue' \in {Tail(queue), Append(Tail(queue), "demo_mode_start")}
          /\ Occupied' <= QueueSize /\ dropped' \in BOOLEAN /\ DropsOnlyWhenCrowded'
      BY <1>1, <1>2, <3>1, <3>2, <3>3, PostRoom
    <3>5. queue' \in Leftover \cup
             {<<"demo_mode_start">>, <<"process_events", "demo_mode_start">>}
      <4>1. /\ Append(<<>>, "demo_mode_start") = <<"demo_mode_start">>
            /\ Append(<<"process_events">>, "demo_mode_start")
                  = <<"process_events", "demo_mode_start">>
        BY <1>2, Tuples
      <4> QED
        BY <2>3, <3>4, <4>1, Zenon DEF Leftover
    <3>6. Ready'
      BY <1>1, <2>1, <2>2, <3>1, <3>5 DEF Starting, Ready
    <3> QED
      BY <1>1, <2>2, <3>4, <3>6, EventPhases
  <2> QED
    BY <2>1, <2>4, <2>5
<1>5. CASE ReportAdvertisement \/ on_timeout
  <2>1. /\ signal \in {"advertisement", "scan_timeout"} /\ queue' = Tail(queue)
        /\ scanning' \in {scanning, FALSE} /\ ble' = ble /\ dropped' = dropped
    BY <1>5 DEF ReportAdvertisement, on_timeout, Rest
  <2>2. Occupied' <= QueueSize /\ dropped' \in BOOLEAN /\ DropsOnlyWhenCrowded'
    BY <1>1, <2>1, NoPost
  <2>3. ~break_requested /\ (Scanning \/ Ending)
    BY <2>1, InDispatch DEF Off, Starting, Failed, Ready, ScanPosted
  <2>4. Scanning => Scanning'
    <3> SUFFICES ASSUME Scanning PROVE Scanning'
      OBVIOUS
    <3>1. queue = <<"process_events">>
      BY DEF Scanning, Leftover
    <3>2. queue' = <<>>
      BY <1>2, <2>1, <3>1, Tuples
    <3>3. scanning' \in BOOLEAN
      BY <2>1 DEF Scanning
    <3> QED
      BY <1>1, <2>1, <3>2, <3>3 DEF Scanning, Leftover
  <2>5. Ending => Ending'
    <3> SUFFICES ASSUME Ending PROVE Ending'
      OBVIOUS
    <3>1. queue = <<"process_events", "demo_mode_end">>
      BY <1>1, <1>2, Tuples DEF Ending
    <3>2. queue' = <<"demo_mode_end">>
      BY <1>2, <2>1, <3>1, Tuples
    <3>3. scanning' \in BOOLEAN
      BY <2>1 DEF Ending
    <3> QED
      BY <1>1, <2>1, <3>2, <3>3 DEF Ending
  <2> QED
    BY <1>1, <2>2, <2>3, <2>4, <2>5, EventPhases
<1> QED
  BY <1>3, <1>4, <1>5 DEF process_events

LEMMA ScanPhases ==
    ASSUME Phases, Goto("dispatch", "dispatch"), queue # <<>>, scan
    PROVE  Phases'
<1>1. /\ pc = "dispatch" /\ pc' = pc /\ Head(queue) = "scan"
      /\ queue' = Tail(queue) /\ scanning' \in BOOLEAN
      /\ UNCHANGED <<ble, signal, blink_timers, duration_timers, break_requested,
                      dropped>>
  BY DEF Goto, scan, Rest
<1>2. /\ "process_events" \in Events /\ "demo_mode_start" \in Events
      /\ "scan" \in Events /\ "demo_mode_end" \in Events
  BY DEF Events
<1>3. Occupied' <= QueueSize /\ dropped' \in BOOLEAN /\ DropsOnlyWhenCrowded'
  BY <1>1, NoPost
<1>4. queue \notin Leftover /\ Head(<<"demo_mode_start">>) # "scan"
      /\ Head(<<"demo_mode_end">>) # "scan"
      /\ \A e \in Events : /\ Head(<<"process_events", e>>) # "scan"
                           /\ Head(<<"demo_mode_end", e>>) # "scan"
  BY <1>1, <1>2, Tuples DEF Leftover
<1>5. ScanPosted /\ ~break_requested
  BY <1>1, <1>2, <1>4, InDispatch
     DEF Off, Starting, Failed, Ready, Scanning, Ending
<1>6. queue' = <<>>
  BY <1>1, <1>2, <1>5, Tuples DEF ScanPosted
<1>7. Scanning'
  BY <1>1, <1>5, <1>6 DEF ScanPosted, Scanning, Leftover
<1> QED
  BY <1>1, <1>3, <1>5, <1>7, EventPhases

\* Of the two events it posts the timer is the one that may be dropped alone.
LEMMA StartPhases ==
    ASSUME Phases, Goto("dispatch", "dispatch"), queue # <<>>, demo_mode_start
    PROVE  Phases'
<1> DEFINE room == Occupied < QueueSize
           fits == Occupied + (IF room THEN 1 ELSE 0) < QueueSize
<1>1. /\ pc = "dispatch" /\ pc' = pc /\ Head(queue) = "demo_mode_start"
      /\ UNCHANGED <<ble, scanning, signal, blink_timers, break_requested>>
  BY DEF Goto, demo_mode_start
<1>2. /\ "process_events" \in Events /\ "demo_mode_start" \in Events
      /\ "scan" \in Events /\ "demo_mode_end" \in Events
  BY DEF Events
<1>3. /\ queue' = IF room THEN Append(Tail(queue), "scan") ELSE Tail(queue)
      /\ duration_timers' = duration_timers + (IF fits THEN 1 ELSE 0)
      /\ dropped' = (dropped \/ ~fits)
  BY Zenon DEF demo_mode_start, HasRoom, Rest
<1>4. queue \notin Leftover /\ Head(<<"scan">>) # "demo_mode_start"
      /\ Head(<<"demo_mode_end">>) # "demo_mode_start"
      /\ \A e \in Events : /\ Head(<<"process_events", e>>) # "demo_mode_start"
                           /\ Head(<<"demo_mode_end", e>>) # "demo_mode_start"
  BY <1>1, <1>2, Tuples DEF Leftover
<1>5. Ready /\ ~break_requested
  BY <1>1, <1>2, <1>4, InDispatch
     DEF Off, Starting, Failed, ScanPosted, Scanning, Ending
<1>6. queue = <<"demo_mode_start">>
  <2>1. Head(<<"process_events", "demo_mode_start">>) # "demo_mode_start"
    BY <1>2, <1>4
  <2> QED
    BY <1>1, <1>4, <1>5, <2>1, Zenon DEF Ready
<1>7. /\ Len(queue) = 1 /\ Tail(queue) = <<>> /\ Append(<<>>, "scan") = <<"scan">>
      /\ Len(<<>>) = 0 /\ Len(<<"scan">>) = 1
  BY <1>2, <1>6, Tuples
<1>8. /\ duration_timers = 0 /\ blink_timers \in Nat /\ Occupied <= QueueSize
      /\ Occupied = 1 + blink_timers
      /\ Occupied' = Len(queue') + blink_timers + duration_timers'
  BY <1>1, <1>5, <1>7, FewEvents DEF Ready, Occupied
<1>9. dropped' \in BOOLEAN /\ (dropped' => dropped \/ ~fits)
  BY <1>3, Zenon
<1> HIDE DEF fits
<1>13. duration_timers' = duration_timers + (IF fits THEN 1 ELSE 0)
  BY <1>3, Zenon
<1>14. (fits => duration_timers' = 1) /\ (~fits => duration_timers' = 0)
  BY <1>8, <1>13
<1>10. fits <=> Occupied + (IF room THEN 1 ELSE 0) < QueueSize
  BY DEF fits
<1>11. CASE room
  <2>1. queue' = <<"scan">> /\ Len(queue') = 1
    BY <1>3, <1>7, <1>11
  <2>2. duration_timers' \in {0, 1} /\ Occupied' <= QueueSize
        /\ (~fits => blink_timers + 3 > QueueSize)
    <3>1. fits <=> blink_timers + 2 < QueueSize
      BY <1>8, <1>10, <1>11, QueueSizeNat
    <3>2. CASE fits
      <4>1. Occupied' = 2 + blink_timers
        BY <1>8, <1>14, <2>1, <3>2
      <4> QED
        BY <1>8, <1>14, <3>1, <3>2, <4>1, QueueSizeNat
    <3>3. CASE ~fits
      <4>1. Occupied' = 1 + blink_timers
        BY <1>8, <1>14, <2>1, <3>3
      <4> QED
        BY <1>8, <1>14, <3>1, <3>3, <4>1, QueueSizeNat
    <3> QED
      BY <3>2, <3>3
  <2>3. DropsOnlyWhenCrowded'
    BY <1>1, <1>8, <1>9, <2>2, CrowdedStays DEF Phases
  <2>4. ScanPosted'
    BY <1>1, <1>5, <2>1, <2>2 DEF Ready, ScanPosted
  <2> QED
    BY <1>1, <1>5, <1>9, <2>2, <2>3, <2>4, EventPhases
<1>12. CASE ~room
  <2>1. queue' = <<>> /\ Len(queue') = 0
    BY <1>3, <1>7, <1>12
  <2>2. duration_timers' = 0 /\ Occupied' <= QueueSize
        /\ blink_timers + 3 > QueueSize
    <3>1. ~fits
      BY <1>8, <1>10, <1>12, QueueSizeNat
    <3>2. Occupied' = blink_timers
      BY <1>8, <1>14, <2>1, <3>1
    <3> QED
      BY <1>8, <1>12, <1>14, <3>1, <3>2, QueueSizeNat
  <2>3. DropsOnlyWhenCrowded'
    BY <1>1, <1>8, <1>9, <2>2, CrowdedStays DEF Phases
  <2>4. Ready'
    BY <1>1, <1>5, <2>1, <2>2 DEF Ready, Leftover
  <2> QED
    BY <1>1, <1>5, <1>9, <2>2, <2>3, <2>4, EventPhases
<1> QED
  BY <1>11, <1>12

LEMMA EndPhases ==
    ASSUME Phases, Goto("dispatch", "dispatch"), queue # <<>>, demo_mode_end
    PROVE  Phases'
<1>1. /\ pc = "dispatch" /\ pc' = pc /\ Head(queue) = "demo_mode_end"
      /\ queue' = Tail(queue) /\ ble' = "off" /\ ~scanning' /\ signal' = "none"
      /\ break_requested'
      /\ UNCHANGED <<blink_timers, duration_timers, dropped>>
  BY DEF Goto, demo_mode_end, Rest
<1>2. /\ "process_events" \in Events /\ "demo_mode_start" \in Events
      /\ "scan" \in Events /\ "demo_mode_end" \in Events
  BY DEF Events
<1>3. Occupied' <= QueueSize /\ dropped' \in BOOLEAN /\ DropsOnlyWhenCrowded'
  BY <1>1, NoPost
<1>4. queue \notin Leftover /\ Head(<<"scan">>) # "demo_mode_end"
      /\ Head(<<"demo_mode_start">>) # "demo_mode_end"
      /\ \A e \in Events : Head(<<"process_events", e>>) # "demo_mode_end"
  BY <1>1, <1>2, Tuples DEF Leftover
<1>5. Ending
  BY <1>1, <1>2, <1>4, InDispatch
     DEF Off, Starting, Failed, Ready, ScanPosted, Scanning
<1>6. queue' \in Leftover
  <2>1. /\ Tail(<<"demo_mode_end">>) = <<>>
        /\ Tail(<<"demo_mode_end", "process_events">>) = <<"process_events">>
    BY <1>2, Tuples
  <2>2. queue \in {<<"demo_mode_end">>, <<"demo_mode_end", "process_events">>}
    BY <1>1, <1>2, <1>4, <1>5 DEF Ending
  <2> QED
    BY <1>1, <2>1, <2>2, Zenon DEF Leftover
<1>7. Off'
  BY <1>1, <1>5, <1>6 DEF Off, Ending
<1>8. break_requested' \in BOOLEAN
  BY Zenon DEF demo_mode_end
<1>9. blink_timers' \in Nat /\ pc' \in RegisterPc \cup BodyPc \cup {"loop", "exit"}
  BY <1>1 DEF Phases
<1> QED
  BY <1>3, <1>7, <1>8, <1>9, Zenon DEF Phases

LEMMA DurationPhases ==
    ASSUME Phases, DurationEnd
    PROVE  Phases'
<1>1. /\ pc = "dispatch" /\ pc' = pc
      /\ duration_timers > 0 /\ duration_timers' = duration_timers - 1
      /\ \A k \in DOMAIN queue : queue[k] # "scan"
      /\ Post(queue, "demo_mode_end")
      /\ UNCHANGED <<ble, scanning, signal, blink_timers, break_requested>>
  BY DEF DurationEnd, Goto, on_duration_end
<1>2. "process_events" \in Events /\ "demo_mode_end" \in Events
  BY DEF Events
<1>3. ~ScanPosted
  BY <1>1 DEF ScanPosted
<1>4. Scanning /\ ~break_requested /\ duration_timers = 1
  BY <1>1, <1>3, InDispatch DEF Off, Starting, Failed, Ready, Scanning, Ending
<1>5. /\ duration_timers' = 0 /\ queue \in Seq(Events)
      /\ Len(queue) + duration_timers' <= Len(queue) + duration_timers
  BY <1>1, <1>4, FewEvents
<1>6. /\ queue' \in {queue, Append(queue, "demo_mode_end")}
      /\ Occupied' <= QueueSize /\ dropped' \in BOOLEAN /\ DropsOnlyWhenCrowded'
  <2>1. duration_timers' \in Nat /\ blink_timers' = blink_timers
    BY <1>1, <1>5
  <2> QED
    BY <1>1, <1>2, <1>5, <2>1, PostRoom
<1>7. CASE queue' = queue
  <2>1. Scanning'
    BY <1>1, <1>4, <1>5, <1>7 DEF Scanning
  <2> QED
    BY <1>1, <1>4, <1>6, <2>1, EventPhases
<1>8. CASE queue' = Append(queue, "demo_mode_end")
  <2>1. /\ Append(<<>>, "demo_mode_end") = <<"demo_mode_end">>
        /\ Append(<<"process_events">>, "demo_mode_end")
              = <<"process_events", "demo_mode_end">>
    BY <1>2, Tuples
  <2>2. queue' \in {<<"demo_mode_end">>, <<"process_events", "demo_mode_end">>}
        /\ (signal = "none" => queue' = <<"demo_mode_end">>)
    BY <1>4, <1>8, <2>1, Zenon DEF Scanning, Leftover
  <2>3. Ending'
    BY <1>1, <1>4, <1>5, <2>2 DEF Scanning, Ending
  <2> QED
    BY <1>1, <1>4, <1>6, <2>3, EventPhases
<1> QED
  BY <1>6, <1>7, <1>8

LEMMA NextPhases == Phases /\ [Next]_vars => Phases'
<1> SUFFICES ASSUME Phases, [Next]_vars PROVE Phases'
  OBVIOUS
<1>1. CASE Dispatch
  BY <1>1, ProcessPhases, StartPhases, ScanPhases, EndPhases DEF Dispatch, Event
<1>2. CASE UNCHANGED vars
  <2>1. pc' = pc /\ UNCHANGED gapVars
    BY <1>2 DEF vars, clientVars
  <2> QED
    BY <2>1, AwayStep
<1> QED
  BY <1>1, <1>2, RegisterPhases, LoopPhases, RunPhases, DurationPhases,
     ReturnPhases, FinishPhases, StackPhases, CallbackPhases DEF Next

THEOREM PhaseInvariance == Spec => []Phases
BY InitPhases, NextPhases, PTL DEF Spec

\* QuietOutsideDispatch: whatever fails or is dropped, a dispatch is broken with
\* the radio off, no timer of the scan pending, and nothing but a request to poll
\* the stack in the queue.
THEOREM QuietOutside == Spec => []QuietOutsideDispatch
<1>1. Phases => QuietOutsideDispatch
  <2> SUFFICES ASSUME Phases, pc # "dispatch"
               PROVE  /\ ble = "off" /\ ~scanning /\ ~break_requested
                      /\ duration_timers = 0
                      /\ \A k \in DOMAIN queue : queue[k] = "process_events"
    BY DEF QuietOutsideDispatch
  <2>1. Off
    BY Zenon DEF Phases, Dispatching
  <2> QED
    BY <2>1 DEF Off, Leftover
<1> QED
  BY <1>1, PhaseInvariance, PTL

\* DropsOnlyWhenCrowded: with any size of the queue, the first event that is
\* dropped finds it filled with the blink timers of earlier scans.
THEOREM DroppedForBlinks == Spec => []DropsOnlyWhenCrowded
<1>1. Phases => DropsOnlyWhenCrowded
  BY DEF Phases
<1> QED
  BY <1>1, PhaseInvariance, PTL

-----------------------------------------------------------------------------
(* A dispatch that does not end                                            *)

EndEvents == {"demo_mode_start", "demo_mode_end"}

\* Something is left that leads to demo_mode_end.
EndDue ==
    duration_timers = 1 \/ \E k \in DOMAIN queue : queue[k] \in EndEvents

\* The dispatch has nothing left that would ever break it.
Stranded ==
    /\ pc = "dispatch" /\ ~break_requested
    /\ ble = "init_failed" \/ (ble = "ready" /\ ~EndDue)

LEMMA Shifted ==
    ASSUME NEW q \in Seq(Events), q # <<>>
    PROVE  /\ \A k \in DOMAIN Tail(q) : k + 1 \in DOMAIN q /\ Tail(q)[k] = q[k + 1]
           /\ \A k \in DOMAIN q : \/ k = 1 /\ q[k] = Head(q)
                                  \/ k - 1 \in DOMAIN Tail(q) /\ Tail(q)[k - 1] = q[k]
OBVIOUS

LEMMA Appended ==
    ASSUME NEW q \in Seq(Events), NEW e \in Events
    PROVE  /\ \A k \in DOMAIN q : k \in DOMAIN Append(q, e) /\ Append(q, e)[k] = q[k]
           /\ \A k \in DOMAIN Append(q, e) :
                 \/ k \in DOMAIN q /\ Append(q, e)[k] = q[k]
                 \/ Append(q, e)[k] = e
           /\ Len(q) + 1 \in DOMAIN Append(q, e) /\ Append(q, e)[Len(q) + 1] = e
OBVIOUS

\* An event that leads to no end neither brings one nor takes one away.
LEMMA OtherEvent ==
    ASSUME Phases, queue # <<>>, Head(queue) \notin EndEvents, queue' = Tail(queue),
           duration_timers' = duration_timers
    PROVE  EndDue' <=> EndDue
<1>1. queue \in Seq(Events)
  BY FewEvents
<1>2. EndDue => EndDue'
  BY <1>1, Shifted DEF EndDue
<1>3. EndDue' => EndDue
  BY <1>1, Shifted DEF EndDue
<1> QED
  BY <1>2, <1>3

LEMMA PostDue ==
    ASSUME Phases, NEW e \in Events, Post(queue, e)
    PROVE  /\ duration_timers' = duration_timers /\ EndDue => EndDue'
           /\ duration_timers' = duration_timers /\ e \notin EndEvents =>
                  (EndDue' => EndDue)
           /\ e \in EndEvents => EndDue' \/ dropped'
<1>1. queue \in Seq(Events)
  BY FewEvents
<1>2. CASE HasRoom
  <2>1. queue' = Append(queue, e)
    BY <1>2 DEF Post
  <2> QED
    BY <1>1, <2>1, Appended DEF EndDue
<1>3. CASE ~HasRoom
  <2>1. queue' = queue /\ dropped'
    BY <1>3, Zenon DEF Post
  <2> QED
    BY <2>1 DEF EndDue
<1> QED
  BY <1>2, <1>3

\* What the stack can be polled for once it has answered init().
LEMMA Answered ==
    ASSUME Phases, Stranded
    PROVE  /\ signal \notin {"init_done", "init_error"}
           /\ duration_timers = 0
           /\ ble = "init_failed" => queue \in Leftover /\ signal = "none" /\ ~scanning
<1>1. Starting \/ Failed \/ Ready \/ ScanPosted \/ Scanning \/ Ending
  BY DEF Stranded, Phases, Dispatching, Off
<1>2. duration_timers = 0
  BY <1>1 DEF Stranded, EndDue, Starting, Failed, Ready, ScanPosted, Scanning, Ending
<1> QED
  BY <1>1, <1>2 DEF Stranded, Starting, Failed, Ready, ScanPosted, Scanning, Ending

\* The steps that stay clear of the dispatch.
LEMMA AwayAlone ==
    ASSUME Register \/ Loop \/ Finish \/ Callback \/ Server \/ UNCHANGED vars
    PROVE  UNCHANGED gapVars /\ (pc = "dispatch" <=> pc' = "dispatch")
<1>1. CASE Register
  BY <1>1 DEF Register, RegisterAndConnect, NoInterface, ConnectFails,
              ConnectSucceeds, Setup, Mark, SetClient, SetAuthorize
<1>2. CASE Loop \/ Finish
  BY <1>2 DEF Loop, CheckLoop, Finish, UploadAndWait, Upload, Bitmap, Wait, Goto
<1>3. CASE Callback
  BY <1>3 DEF Callback, EventLoop, ClientRegistered, ClientError, PostUnregister,
              PostFactoryReset, close, FactoryReset, ClientUnregistered,
              UnregisteredReturns, UpdateRequest
<1>4. CASE Server \/ UNCHANGED vars
  BY <1>4 DEF Server, ServerPut, vars, clientVars
<1> QED
  BY <1>1, <1>2, <1>3, <1>4

LEMMA StrandedStep == Phases /\ Stranded /\ [Next]_vars => Stranded'
<1> SUFFICES ASSUME Phases, Stranded, [Next]_vars PROVE Stranded'
  OBVIOUS
<1>1. pc = "dispatch" /\ ~break_requested /\ ble \in {"init_failed", "ready"}
      /\ (ble = "ready" => ~EndDue)
  BY DEF Stranded
<1>2. ASSUME pc' = pc, break_requested' = break_requested, ble' = ble,
             EndDue' => EndDue
      PROVE  Stranded'
  BY <1>1, <1>2 DEF Stranded
<1>3. CASE Dispatch
  <2>1. pc' = pc /\ queue # <<>>
    BY <1>3 DEF Dispatch, Goto, Event
  <2>2. queue \in Seq(Events)
    BY FewEvents
  <2>3. ble = "ready" => Head(queue) \notin EndEvents
    BY <1>1, <2>1, <2>2 DEF EndDue
  <2>4. ble = "init_failed" => Head(queue) = "process_events"
    BY <2>1, Answered DEF Leftover
  <2>5. Head(queue) \notin EndEvents
    BY <1>1, <2>3, <2>4 DEF EndEvents
  <2>6. process_events \/ scan
    BY <1>3, <2>5 DEF Dispatch, Event, demo_mode_start, demo_mode_end, EndEvents
  <2>7. queue' = Tail(queue) /\ ble' = ble
        /\ UNCHANGED <<break_requested, duration_timers>>
    BY <2>6, Answered
       DEF process_events, NothingToProcess, on_init_complete, ReportAdvertisement,
           on_timeout, scan, Rest
  <2> QED
    BY <1>2, <2>1, <2>5, <2>7, OtherEvent
<1>4. CASE BleStack
  <2>1. /\ pc' = pc /\ Post(queue, "process_events")
        /\ UNCHANGED <<ble, duration_timers, break_requested>>
    BY <1>4 DEF BleStack, Stack, InitSignal, ScanSignal, Signal, clientVars
  <2>2. "process_events" \in Events \ EndEvents
    BY DEF Events, EndEvents
  <2> QED
    BY <1>2, <2>1, <2>2, PostDue
<1>5. ~Run /\ ~DurationEnd /\ ~Return
  BY <1>1, Answered
     DEF Run, DurationEnd, on_duration_end, Return, DispatchReturns, Goto
<1>6. CASE Register \/ Loop \/ Finish \/ Callback \/ Server \/ UNCHANGED vars
  BY <1>1, <1>2, <1>6, AwayAlone DEF EndDue, gapVars
<1> QED
  BY <1>3, <1>4, <1>5, <1>6 DEF Next

\* Only a failed start of the stack, or an event that did not fit, strands the
\* dispatch.
StrandedByDrop == Stranded => ble = "init_failed" \/ dropped

LEMMA NextStranded ==
    Phases /\ StrandedByDrop /\ [Next]_vars => StrandedByDrop'
<1> SUFFICES ASSUME Phases, StrandedByDrop, [Next]_vars, Stranded', ble' = "ready"
             PROVE  dropped'
  BY DEF StrandedByDrop, Stranded
<1>1. pc' = "dispatch" /\ ~break_requested' /\ ~EndDue'
  BY DEF Stranded
<1>2. dropped => dropped'
  <2>1. CASE Dispatch
    BY <2>1, Zenon DEF Dispatch, Event, process_events, NothingToProcess,
       on_init_complete, ReportAdvertisement, on_timeout, demo_mode_start, scan,
       demo_mode_end, Post
  <2>2. CASE Run \/ DurationEnd \/ Return
    BY <2>2, Zenon DEF Run, RunStarts, RunFails, DurationEnd, on_duration_end,
       Return, DispatchReturns, Post, gapVars
  <2>3. CASE BleStack
    BY <2>3, Zenon DEF BleStack, Stack, InitSignal, ScanSignal, Signal, Post
  <2>4. CASE Register \/ Loop \/ Finish \/ Callback \/ Server \/ UNCHANGED vars
    BY <2>4, AwayAlone DEF gapVars
  <2> QED
    BY <2>1, <2>2, <2>3, <2>4 DEF Next
<1>3. SUFFICES ASSUME ~Stranded \/ ble = "init_failed" PROVE dropped'
  BY <1>2 DEF StrandedByDrop
<1>4. ASSUME pc = "dispatch", ~break_requested, ble' = ble, EndDue => EndDue'
      PROVE  FALSE
  BY <1>1, <1>3, <1>4 DEF Stranded
<1>5. CASE Dispatch
  <2>1. pc = "dispatch" /\ pc' = pc /\ queue # <<>> /\ queue \in Seq(Events)
    BY <1>5, FewEvents DEF Dispatch, Goto, Event
  <2>2. CASE process_events
    <3>1. Head(queue) \notin EndEvents
          /\ UNCHANGED <<break_requested, duration_timers>>
      BY <2>2 DEF process_events, EndEvents
    <3>2. CASE on_init_complete
      <4>1. Post(Tail(queue), "demo_mode_start")
        BY <3>2 DEF on_init_complete, Rest
      <4>2. CASE HasRoom
        <5>1. queue' = Append(Tail(queue), "demo_mode_start")
              /\ Tail(queue) \in Seq(Events) /\ "demo_mode_start" \in Events
          BY <2>1, <4>1, <4>2 DEF Post, Events
        <5>2. EndDue'
          BY <5>1, Appended DEF EndDue, EndEvents
        <5> QED
          BY <1>1, <5>2
      <4>3. CASE ~HasRoom
        BY <4>1, <4>3, Zenon DEF Post
      <4> QED
        BY <4>2, <4>3
    <3>3. CASE ~on_init_complete
      <4>1. queue' = Tail(queue) /\ ble' = ble
        BY <2>2, <3>3 DEF process_events, NothingToProcess, ReportAdvertisement,
                          on_timeout, Rest
      <4> QED
        BY <1>1, <1>4, <2>1, <3>1, <4>1, OtherEvent
    <3> QED
      BY <3>2, <3>3
  <2>3. CASE demo_mode_start
    <3>1. ~break_requested /\ duration_timers = 0
      <4>1. Ready /\ ~break_requested
        <5>1. /\ "process_events" \in Events /\ "demo_mode_start" \in Events
              /\ "scan" \in Events /\ "demo_mode_end" \in Events
          BY DEF Events
        <5>2. Head(queue) = "demo_mode_start"
          BY <2>3 DEF demo_mode_start
        <5>3. queue \notin Leftover /\ Head(<<"scan">>) # "demo_mode_start"
              /\ Head(<<"demo_mode_end">>) # "demo_mode_start"
              /\ \A e \in Events :
                    /\ Head(<<"process_events", e>>) # "demo_mode_start"
                    /\ Head(<<"demo_mode_end", e>>) # "demo_mode_start"
          BY <2>1, <5>1, <5>2, Tuples DEF Leftover
        <5> QED
          BY <5>1, <5>2, <5>3, InDispatch
             DEF Off, Starting, Failed, ScanPosted, Scanning, Ending
      <4> QED
        BY <4>1 DEF Ready
    <3> DEFINE fits == Occupied + (IF HasRoom THEN 1 ELSE 0) < QueueSize
    <3>2. /\ duration_timers' = duration_timers + (IF fits THEN 1 ELSE 0)
          /\ dropped' = (dropped \/ ~fits)
      BY <2>3, Zenon DEF demo_mode_start
    <3> HIDE DEF fits
    <3>3. CASE fits
      <4>1. duration_timers' = 1
        BY <3>1, <3>2, <3>3
      <4> QED
        BY <1>1, <4>1 DEF EndDue
    <3>4. CASE ~fits
      BY <3>2, <3>4, Zenon
    <3> QED
      BY <3>3, <3>4
  <2>4. CASE scan
    <3>1. /\ Head(queue) \notin EndEvents /\ queue' = Tail(queue) /\ ble' = ble
          /\ UNCHANGED <<break_requested, duration_timers>>
      BY <2>4 DEF scan, EndEvents, Rest
    <3> QED
      BY <1>1, <1>4, <2>1, <3>1, OtherEvent
  <2>5. CASE demo_mode_end
    BY <2>5 DEF demo_mode_end
  <2> QED
    BY <1>5, <2>2, <2>3, <2>4, <2>5 DEF Dispatch, Event
<1>6. CASE DurationEnd
  <2>1. Post(queue, "demo_mode_end")
    BY <1>6 DEF DurationEnd, on_duration_end
  <2>2. "demo_mode_end" \in Events /\ "demo_mode_end" \in EndEvents
    BY DEF Events, EndEvents
  <2> QED
    BY <1>1, <2>1, <2>2, PostDue
<1>7. CASE BleStack
  <2>1. /\ pc' = pc /\ Post(queue, "process_events")
        /\ UNCHANGED <<ble, duration_timers, break_requested>>
    BY <1>7 DEF BleStack, Stack, InitSignal, ScanSignal, Signal, clientVars
  <2>2. "process_events" \in Events
    BY DEF Events
  <2> QED
    BY <1>1, <1>4, <2>1, <2>2, PostDue
<1>8. ~Run /\ ~Return
  BY <1>1 DEF Run, RunStarts, Return, Goto
<1>9. CASE Register \/ Loop \/ Finish \/ Callback \/ Server \/ UNCHANGED vars
  BY <1>1, <1>4, <1>9, AwayAlone DEF EndDue, gapVars
<1> QED
  BY <1>5, <1>6, <1>7, <1>8, <1>9 DEF Next

\* The safety half of DispatchEnds: until the stack reports an error or an event
\* is dropped, something is always left that ends the dispatch.
THEOREM StrandedOnlyByDrop == Spec => []StrandedByDrop
<1>1. Init => StrandedByDrop
  BY DEF Init, GapInit, StrandedByDrop, Stranded
<1> QED
  BY <1>1, NextStranded, PhaseInvariance, PTL DEF Spec

\* And what may be lost with such an event: once nothing is left, the dispatch
\* never ends, whatever the stack and the other thread do, and the device
\* never uploads again.
THEOREM StrandedForGood == Spec => [][Stranded => Stranded']_vars
<1>1. Phases /\ [Next]_vars => (Stranded => Stranded')
  BY StrandedStep
<1> QED
  BY <1>1, PhaseInvariance, PTL DEF Spec

-----------------------------------------------------------------------------
(* The table and its shadows                                               *)

UploadIndex ==
    /\ pc = "upload" => upload_i \in Idx
    /\ pc \notin {"upload", "bitmap"} => upload_i = 0

\* A beacon in use has been reported, or will be before the bitmap is sent.
Awaiting ==
    \A i \in Idx :
        Used(beacon_tbl, i) =>
            \/ i \in reported
            \/ /\ beacon_tbl[i].updated = 1
               /\ pc # "bitmap" /\ (pc = "upload" => upload_i <= i)

\* Only a beacon in use has ever been reported.
ReportedIsKnown == reported \subseteq Known

BitsTypeOK == data_valid_bmp \in SUBSET Bits /\ strays \in SUBSET Bits

DataInv ==
    /\ UploadTypeOK
    /\ BitsTypeOK
    /\ UploadIndex
    /\ BitsAreKnownOrStray
    /\ CountCoversBits
    /\ Awaiting
    /\ ReportedIsKnown
    /\ BitmapIsReported
    /\ CloudInStep

LEMMA SmallSets ==
    /\ \A S \in SUBSET Idx : IsFiniteSet(S) /\ Cardinality(S) \in Nat
    /\ \A S \in SUBSET Bits : IsFiniteSet(S) /\ Cardinality(S) \in Nat
<1>1. IsFiniteSet(Idx)
  BY TableAssumption, FS_Interval DEF Idx
<1>2. IsFiniteSet(Bits)
  BY UploadAssumption, FS_Interval DEF Bits
<1> QED
  BY <1>1, <1>2, FS_Subset, FS_CardinalityType

LEMMA OneMore ==
    ASSUME NEW S, IsFiniteSet(S), NEW x
    PROVE  /\ Cardinality(S) \in Nat /\ Cardinality(S \cup {x}) \in Nat
           /\ Cardinality(S \cup {x}) <= Cardinality(S) + 1
<1>1. Cardinality(S) \in Nat
  BY FS_CardinalityType
<1>2. Cardinality(S \cup {x}) =
          IF x \in S THEN Cardinality(S) ELSE Cardinality(S) + 1
  BY FS_AddElement
<1> QED
  BY <1>1, <1>2

\* A bit of the index of a beacon is one of data_valid_bmp.
LEMMA IdxAreBits == Idx \subseteq Bits
BY TableAssumption, UploadAssumption DEF Idx, Bits

LEMMA InitDataInv == Init => DataInv
<1> SUFFICES ASSUME Init PROVE DataInv
  OBVIOUS
<1> USE TableAssumption DEF Init, ClientInit, UploadInit, GapInit
<1>1. \A i \in Idx : beacon_tbl[i] = FreeEntry
  BY DEF init_beacon_tbl
<1>2. beacon_tbl \in [Idx -> Entry]
  BY DEF init_beacon_tbl, FreeEntry, Entry
<1>3. UploadTypeOK
  <2>1. [by |-> "nobody", val |-> 0] \in TempRes
    BY DEF TempRes, Writers
  <2>2. [by |-> "nobody", val |-> {}] \in BmpRes
    BY DEF BmpRes, Writers
  <2>3. /\ beacon_data_res_tbl = [i \in Idx |-> [by |-> "nobody", val |-> 0]]
        /\ pelion_data_valid_bmp = [by |-> "nobody", val |-> {}]
        /\ connected_beacons = 0 /\ upload_i = 0
        /\ reported = {}
    OBVIOUS
  <2>4. 0 \in 0 .. MaxBeacons
    OBVIOUS
  <2> HIDE DEF Init, ClientInit, UploadInit, GapInit
  <2> QED
    BY <1>2, <2>1, <2>2, <2>3, <2>4 DEF UploadTypeOK
<1>4. \A i \in Idx : ~Used(beacon_tbl, i)
  BY <1>1 DEF Used, FreeEntry
<1>5. Known = {}
  BY <1>4 DEF Known
<1>6. BitsTypeOK /\ BitsAreKnownOrStray /\ CountCoversBits /\ ReportedIsKnown
  BY <1>5, FS_EmptySet
     DEF BitsTypeOK, BitsAreKnownOrStray, CountCoversBits, ReportedIsKnown
<1>7. UploadIndex /\ Awaiting /\ BitmapIsReported /\ CloudInStep
  BY <1>4 DEF UploadIndex, Awaiting, BitmapIsReported, CloudInStep
<1> QED
  BY <1>3, <1>6, <1>7 DEF DataInv

\* A step that leaves the data alone, between two labels at which nobody works
\* on it.
LEMMA DataAlone ==
    ASSUME DataInv, UNCHANGED dataVars,
           pc' = pc \/ (pc \notin {"upload", "bitmap"} /\ pc' \notin {"bitmap"})
    PROVE  DataInv'
<1> USE DEF dataVars, uploadVars, tableVars, resourceVars
<1>1. UploadTypeOK' /\ BitsTypeOK'
  BY DEF DataInv, UploadTypeOK, BitsTypeOK
<1>2. UploadIndex'
  BY TableAssumption DEF DataInv, UploadIndex, Idx
<1>3. /\ BitsAreKnownOrStray' /\ CountCoversBits' /\ ReportedIsKnown'
      /\ BitmapIsReported' /\ CloudInStep'
  BY DEF DataInv, BitsAreKnownOrStray, CountCoversBits, ReportedIsKnown,
         BitmapIsReported, CloudInStep, Known, Used
<1>4. Awaiting'
  <2> SUFFICES ASSUME NEW i \in Idx, Used(beacon_tbl, i)
               PROVE  \/ i \in reported
                      \/ /\ beacon_tbl[i].updated = 1
                         /\ pc' # "bitmap" /\ (pc' = "upload" => upload_i <= i)
    BY DEF Awaiting, Used
  <2>1. upload_i = 0 => upload_i <= i
    BY DEF Idx
  <2> QED
    BY <2>1 DEF DataInv, Awaiting, UploadIndex
<1> QED
  BY <1>1, <1>2, <1>3, <1>4 DEF DataInv

\* Steps that leave the data alone; none of them goes to "bitmap".
Quiet == Register \/ Loop \/ Run \/ DurationEnd \/ Return \/ Callback \/ BleStack

LEMMA QuietFacts ==
    ASSUME Quiet
    PROVE  /\ UNCHANGED dataVars
           /\ pc' = pc \/ (pc \notin {"upload", "bitmap"} /\ pc' # "bitmap")
<1>1. UNCHANGED dataVars
  BY DEF Quiet, Register, Loop, Run, DurationEnd, Return, Callback, BleStack,
         RunStarts, RunFails, on_duration_end, DispatchReturns, Stack,
         InitSignal, ScanSignal, Signal
<1>2. CASE Register
  BY <1>1, <1>2
     DEF Register, RegisterAndConnect, NoInterface, ConnectFails,
         ConnectSucceeds, Setup, Mark, SetClient, SetAuthorize
<1>3. CASE Loop \/ Run \/ Return
  BY <1>1, <1>3 DEF Loop, CheckLoop, Run, Return, Goto
<1>4. CASE DurationEnd \/ Callback \/ BleStack
  <2>1. pc' = pc
    BY <1>4 DEF DurationEnd, Goto, BleStack, clientVars,
         Callback, EventLoop, ClientRegistered, ClientError, PostUnregister,
         PostFactoryReset, close, FactoryReset, ClientUnregistered,
         UnregisteredReturns, UpdateRequest
  <2> QED
    BY <1>1, <2>1
<1> QED
  BY <1>2, <1>3, <1>4 DEF Quiet

LEMMA QuietData == DataInv /\ Quiet => DataInv'
BY QuietFacts, DataAlone

LEMMA ServerData == DataInv /\ Server => DataInv'
<1> SUFFICES ASSUME DataInv, Server PROVE DataInv'
  OBVIOUS
<1>1. /\ pc' = pc
      /\ UNCHANGED <<beacon_tbl, connected_beacons, data_valid_bmp, strays, reported,
                     upload_i>>
  BY DEF Server, ServerPut, ServerPutTemp, ServerPutBitmap, clientVars, tableVars
<1>2. /\ BitsTypeOK' /\ UploadIndex' /\ BitsAreKnownOrStray' /\ CountCoversBits'
      /\ Awaiting' /\ ReportedIsKnown'
  BY <1>1 DEF DataInv, BitsTypeOK, UploadIndex, BitsAreKnownOrStray, CountCoversBits,
              Awaiting, ReportedIsKnown, Known, Used
<1>3. CASE ServerPutTemp
  <2>1. PICK i \in Idx, t \in ServerTemps :
            beacon_data_res_tbl' =
                [beacon_data_res_tbl EXCEPT ![i] = [by |-> "server", val |-> t]]
    BY <1>3 DEF ServerPutTemp
  <2>2. [by |-> "server", val |-> t] \in TempRes
    BY UploadAssumption DEF TempRes, Writers
  <2>3. pelion_data_valid_bmp' = pelion_data_valid_bmp
    BY <1>3 DEF ServerPutTemp
  <2>4. UploadTypeOK'
    BY <1>1, <2>1, <2>2, <2>3 DEF DataInv, UploadTypeOK
  <2>5. BitmapIsReported'
    BY <1>1, <2>3 DEF DataInv, BitmapIsReported
  <2>6. CloudInStep'
    BY <1>1, <2>1 DEF DataInv, UploadTypeOK, CloudInStep, Used
  <2> QED
    BY <1>2, <2>4, <2>5, <2>6 DEF DataInv
<1>4. CASE ServerPutBitmap
  <2>1. PICK b \in ServerBitmaps :
            pelion_data_valid_bmp' = [by |-> "server", val |-> b]
    BY <1>4 DEF ServerPutBitmap
  <2>2. [by |-> "server", val |-> b] \in BmpRes
    BY UploadAssumption DEF BmpRes, Writers
  <2>3. beacon_data_res_tbl' = beacon_data_res_tbl
    BY <1>4 DEF ServerPutBitmap
  <2>4. UploadTypeOK'
    BY <1>1, <2>1, <2>2, <2>3 DEF DataInv, UploadTypeOK
  <2>5. BitmapIsReported'
    BY <2>1 DEF BitmapIsReported
  <2>6. CloudInStep'
    BY <1>1, <2>3 DEF DataInv, CloudInStep, Used
  <2> QED
    BY <1>2, <2>4, <2>5, <2>6 DEF DataInv
<1> QED
  BY <1>3, <1>4 DEF Server, ServerPut

\* What the report of one advertisement of a beacon of the table leaves behind:
\* its entry is in use, is to be uploaded and has the temperature reported,
\* unless it was refused; and only an entry that was free gets a new bit.
Scanned(i, t) ==
    /\ beacon_tbl' = [beacon_tbl EXCEPT ![i] =
                         [element_used |-> 1, updated |-> 1, temp |-> t]]
    /\ \/ /\ connected_beacons < MaxBeacons
          /\ connected_beacons' = connected_beacons + 1
          /\ data_valid_bmp' = data_valid_bmp \cup {i}
       \/ /\ Used(beacon_tbl, i)
          /\ UNCHANGED <<connected_beacons, data_valid_bmp>>
    /\ strays' = strays

\* What an index outside the table that is taken for a beacon leaves behind.
Strayed(b) ==
    /\ connected_beacons < MaxBeacons
    /\ connected_beacons' = connected_beacons + 1
    /\ data_valid_bmp' = SetBit(data_valid_bmp, b)
    /\ strays' = SetBit(strays, b)
    /\ UNCHANGED beacon_tbl

LEMMA StrayFacts ==
    ASSUME NEW i \in Nat \ Idx, NEW t, on_scan(i, t)
    PROVE  UNCHANGED <<tableVars, strays>> \/ \E b \in Nat : Strayed(b)
<1>1. PICK oob \in {0, 1}, bit \in ShiftedBit(i) :
          LET r == AddIfRoom(i, oob)
          IN  /\ beacon_tbl' = update_beacon_data(r.tbl, i, t)
              /\ IF r.ret # INVALID_U32
                 THEN Valid(i, bit) /\ connected_beacons' = connected_beacons + 1
                 ELSE UNCHANGED <<data_valid_bmp, strays, connected_beacons>>
  BY Zenon DEF on_scan
<1> DEFINE r == AddIfRoom(i, oob)
<1>2. bit \in Nat
  BY GapAssumption DEF ShiftedBit
<1>3. /\ r.tbl = beacon_tbl
      /\ r.ret # INVALID_U32 => connected_beacons < MaxBeacons
  <2>1. add_beacon(beacon_tbl, i, oob).tbl = beacon_tbl
    <3>1. i \notin Idx /\ i >= MaxBeacons
      BY TableAssumption DEF Idx
    <3>2. /\ oob # 0 => add_beacon(beacon_tbl, i, oob) = [tbl |-> beacon_tbl, ret |-> 0]
          /\ oob = 0 => add_beacon(beacon_tbl, i, oob) =
                            [tbl |-> beacon_tbl, ret |-> INVALID_U32]
      BY <3>1, Zenon DEF add_beacon
    <3> QED
      BY <3>2
  <2> QED
    BY <2>1, TableAssumption DEF AddIfRoom
<1> HIDE DEF r
<1>4. beacon_tbl' = beacon_tbl
  BY <1>1, <1>3 DEF update_beacon_data, r
<1>5. CASE r.ret # INVALID_U32
  <2>1. Valid(i, bit) /\ connected_beacons' = connected_beacons + 1
    BY <1>1, <1>5 DEF r
  <2> QED
    BY <1>2, <1>3, <1>4, <1>5, <2>1 DEF Valid, Strayed
<1>6. CASE ~(r.ret # INVALID_U32)
  BY <1>1, <1>4, <1>6 DEF r, tableVars
<1> QED
  BY <1>5, <1>6

LEMMA ScanFacts ==
    ASSUME DataInv, NEW i \in Idx, NEW t \in Nat, on_scan(i, t)
    PROVE  Scanned(i, t) \/ UNCHANGED <<tableVars, strays>>
<1>1. beacon_tbl \in [Idx -> Entry] /\ beacon_tbl[i] \in Entry
  BY DEF DataInv, UploadTypeOK
<1>2. i \in 0 .. BmpBits - 1 /\ i < MaxBeacons
  BY TableAssumption, UploadAssumption DEF Idx
<1>3. SetBit(data_valid_bmp, i) = data_valid_bmp \cup {i}
  BY <1>2 DEF SetBit
<1> DEFINE e == [element_used |-> 1, updated |-> 1, temp |-> 0]
           f == [element_used |-> 1, updated |-> 1, temp |-> t]
<1>4. e \in Entry /\ e.element_used = 1
  BY DEF Entry
<1>5. \A b \in Entry :
          b.element_used = 1 => [b EXCEPT !.temp = t, !.updated = 1] = f
  <2> SUFFICES ASSUME NEW b \in Entry, b.element_used = 1
               PROVE  [b EXCEPT !.temp = t, !.updated = 1] = f
    OBVIOUS
  <2> DEFINE c == [b EXCEPT !.temp = t, !.updated = 1]
  <2>1. c \in Entry /\ c.element_used = 1 /\ c.updated = 1 /\ c.temp = t
    BY DEF Entry
  <2> HIDE DEF c
  <2>2. c = [element_used |-> c.element_used, updated |-> c.updated, temp |-> c.temp]
    BY <2>1 DEF Entry
  <2>3. c = f
    BY <2>1, <2>2
  <2> QED
    BY <2>3 DEF c
<1>6. \A tbl \in [Idx -> Entry] :
          update_beacon_data(tbl, i, t) =
              IF Used(tbl, i)
              THEN [tbl EXCEPT ![i] = [tbl[i] EXCEPT !.temp = t, !.updated = 1]]
              ELSE tbl
  BY DEF update_beacon_data
<1> DEFINE add == IF Used(beacon_tbl, i)
                  THEN [tbl |-> beacon_tbl, ret |-> 0]
                  ELSE [tbl |-> [beacon_tbl EXCEPT ![i] = e], ret |-> 0]
<1>7. \A oob : add_beacon(beacon_tbl, i, oob) = add
  <2>1. beacon_tbl[i].element_used # 0 <=> Used(beacon_tbl, i)
    BY <1>1 DEF Used, Entry
  <2>2. ~(i >= MaxBeacons)
    BY <1>2, TableAssumption DEF Idx
  <2> QED
    BY <2>1, <2>2 DEF add_beacon
<1>8. 0 # INVALID_U32
  BY DEF INVALID_U32
<1>11. PICK oob \in {0, 1}, bit \in ShiftedBit(i) :
          LET r == AddIfRoom(i, oob)
          IN  /\ beacon_tbl' = update_beacon_data(r.tbl, i, t)
              /\ IF r.ret # INVALID_U32
                 THEN Valid(i, bit) /\ connected_beacons' = connected_beacons + 1
                 ELSE UNCHANGED <<data_valid_bmp, strays, connected_beacons>>
  BY Zenon DEF on_scan
<1>12. bit = i
  BY <1>2, GapAssumption, UploadAssumption DEF ShiftedBit
<1>9. CASE connected_beacons < MaxBeacons
  <2>4. AddIfRoom(i, oob) = add /\ add.ret = 0
    <3>1. AddIfRoom(i, oob) = add
      BY <1>7, <1>9, Zenon DEF AddIfRoom
    <3>2. add.ret = 0
      OBVIOUS
    <3> QED
      BY <3>1, <3>2
  <2> HIDE DEF add
  <2>1. /\ beacon_tbl' = update_beacon_data(add.tbl, i, t)
        /\ connected_beacons' = connected_beacons + 1
        /\ data_valid_bmp' = data_valid_bmp \cup {i}
        /\ strays' = strays
    BY <1>3, <1>8, <1>9, <1>11, <1>12, <2>4 DEF Valid
  <2> USE DEF add
  <2>2. CASE Used(beacon_tbl, i)
    <3>1. beacon_tbl' = [beacon_tbl EXCEPT ![i] = f]
      <4>1. add.tbl = beacon_tbl
        BY <2>2
      <4>2. [beacon_tbl[i] EXCEPT !.temp = t, !.updated = 1] = f
        BY <1>1, <1>5, <2>2 DEF Used
      <4> QED
        BY <1>1, <1>6, <2>1, <2>2, <4>1, <4>2
    <3> QED
      BY <1>9, <2>1, <3>1 DEF Scanned
  <2>3. CASE ~Used(beacon_tbl, i)
    <3> DEFINE g == [beacon_tbl EXCEPT ![i] = e]
    <3>1. g \in [Idx -> Entry] /\ g[i] = e
          /\ [g EXCEPT ![i] = f] = [beacon_tbl EXCEPT ![i] = f]
      BY <1>1, <1>4
    <3>2. add.tbl = g
      <4>1. add = [tbl |-> g, ret |-> 0]
        BY <2>3
      <4> HIDE DEF g, add
      <4> QED
        BY <4>1
    <3>3. [g[i] EXCEPT !.temp = t, !.updated = 1] = f
      BY <1>4, <1>5, <3>1
    <3> HIDE DEF e, f, g, add
    <3>4. update_beacon_data(g, i, t) = [g EXCEPT ![i] = f]
      BY <1>4, <1>6, <3>1, <3>3 DEF Used
    <3> QED
      BY <1>9, <2>1, <3>1, <3>2, <3>4 DEF Scanned, f
  <2> QED
    BY <2>2, <2>3
<1>10. CASE ~(connected_beacons < MaxBeacons)
  <2>1. /\ beacon_tbl' = update_beacon_data(beacon_tbl, i, t)
        /\ UNCHANGED <<connected_beacons, data_valid_bmp, strays>>
    BY <1>10, <1>11 DEF AddIfRoom
  <2> QED
    BY <1>1, <1>5, <1>6, <2>1 DEF Scanned, tableVars, Used
<1> QED
  BY <1>9, <1>10

LEMMA ScannedData ==
    ASSUME DataInv, pc = "dispatch", pc' = pc, NEW i \in Idx, NEW t \in Nat,
           Scanned(i, t), UNCHANGED <<resourceVars, upload_i>>
    PROVE  DataInv'
<1> DEFINE f == [element_used |-> 1, updated |-> 1, temp |-> t]
<1>1. /\ beacon_tbl \in [Idx -> Entry] /\ connected_beacons \in 0 .. MaxBeacons
      /\ f \in Entry /\ f.element_used = 1 /\ f.updated = 1
      /\ beacon_tbl' = [beacon_tbl EXCEPT ![i] = f]
  BY DEF DataInv, UploadTypeOK, Scanned, Entry
<1> HIDE DEF f
<1>2. /\ beacon_tbl' \in [Idx -> Entry] /\ beacon_tbl'[i] = f
      /\ \A j \in Idx : j # i => beacon_tbl'[j] = beacon_tbl[j]
  BY <1>1
<1> DEFINE U == {j \in Idx : Used(beacon_tbl, j)}
           V == {j \in Idx : Used(beacon_tbl', j)}
<1>3. V = U \cup {i}
  BY <1>1, <1>2 DEF Used
<1>4. Used(beacon_tbl, i) => V = U
  BY <1>3
<1>5. /\ data_valid_bmp = U \cup strays /\ strays' = strays
      /\ Cardinality(U) + Cardinality(strays) <= connected_beacons
  BY DEF DataInv, BitsAreKnownOrStray, CountCoversBits, Known, Scanned
<1>6. /\ Cardinality(U) \in Nat /\ Cardinality(U \cup {i}) <= Cardinality(U) + 1
      /\ Cardinality(V) \in Nat /\ Cardinality(strays) \in Nat
  <2>1. IsFiniteSet(U) /\ Cardinality(V) \in Nat
    BY SmallSets
  <2>2. Cardinality(strays) \in Nat
    BY SmallSets DEF DataInv, BitsTypeOK
  <2> HIDE DEF U, V
  <2> QED
    BY <2>1, <2>2, OneMore
<1>7. /\ data_valid_bmp' = V \cup strays
      /\ Cardinality(V) + Cardinality(strays) <= connected_beacons'
      /\ connected_beacons' \in 0 .. MaxBeacons
  <2> HIDE DEF U, V
  <2>1. CASE /\ connected_beacons < MaxBeacons
             /\ connected_beacons' = connected_beacons + 1
             /\ data_valid_bmp' = data_valid_bmp \cup {i}
    BY <1>1, <1>3, <1>5, <1>6, <2>1, TableAssumption
  <2>2. CASE /\ Used(beacon_tbl, i)
             /\ UNCHANGED <<connected_beacons, data_valid_bmp>>
    BY <1>1, <1>4, <1>5, <2>2
  <2> QED
    BY <2>1, <2>2 DEF Scanned
<1>8. BitsAreKnownOrStray' /\ CountCoversBits'
  BY <1>5, <1>7 DEF BitsAreKnownOrStray, CountCoversBits, Known
<1>9. UploadTypeOK' /\ BitsTypeOK'
  <2>1. V \subseteq Bits
    BY IdxAreBits
  <2> HIDE DEF V
  <2> QED
    BY <1>2, <1>5, <1>7, <2>1 DEF DataInv, UploadTypeOK, BitsTypeOK, resourceVars
<1>10. UploadIndex' /\ BitmapIsReported'
  BY <1>5 DEF DataInv, UploadIndex, BitmapIsReported, resourceVars
<1>13. ReportedIsKnown'
  BY <1>3 DEF DataInv, ReportedIsKnown, Known, resourceVars
<1>11. Awaiting'
  BY <1>1, <1>2 DEF DataInv, Awaiting, Used, resourceVars
<1>12. CloudInStep'
  BY <1>1, <1>2 DEF DataInv, CloudInStep, Used, resourceVars
<1> QED
  BY <1>8, <1>9, <1>10, <1>11, <1>12, <1>13 DEF DataInv

\* A stray takes the place of a beacon: its bit is the only one that is new.
LEMMA StrayedData ==
    ASSUME DataInv, pc = "dispatch", pc' = pc, NEW b \in Nat, Strayed(b),
           UNCHANGED <<resourceVars, upload_i>>
    PROVE  DataInv'
<1>1. /\ UNCHANGED <<beacon_tbl, resourceVars, upload_i>> /\ Known' = Known
      /\ data_valid_bmp' = SetBit(data_valid_bmp, b) /\ strays' = SetBit(strays, b)
      /\ connected_beacons < MaxBeacons /\ connected_beacons' = connected_beacons + 1
      /\ connected_beacons \in 0 .. MaxBeacons
  BY DEF Strayed, Known, Used, DataInv, UploadTypeOK
<1>2. /\ SetBit(strays, b) = strays \/ SetBit(strays, b) = strays \cup {b}
      /\ strays \subseteq SetBit(strays, b)
  BY DEF SetBit
<1>3. BitsTypeOK'
  BY <1>1 DEF DataInv, BitsTypeOK, SetBit, Bits
<1>4. BitsAreKnownOrStray'
  BY <1>1 DEF DataInv, BitsAreKnownOrStray, SetBit
<1>5. CountCoversBits' /\ connected_beacons' \in 0 .. MaxBeacons
  <2>1. Cardinality(Known) + Cardinality(strays) <= connected_beacons
    BY DEF DataInv, CountCoversBits
  <2>2. Cardinality(Known) \in Nat
    BY SmallSets DEF Known
  <2>3. /\ Cardinality(strays) \in Nat /\ Cardinality(strays') \in Nat
        /\ Cardinality(strays') <= Cardinality(strays) + 1
    <3>1. IsFiniteSet(strays) /\ Cardinality(strays) \in Nat
      BY SmallSets DEF DataInv, BitsTypeOK
    <3>2. CASE strays' = strays
      BY <3>1, <3>2
    <3>3. CASE strays' = strays \cup {b}
      BY <3>1, <3>3, OneMore
    <3> QED
      BY <1>1, <1>2, <3>2, <3>3
  <2> QED
    BY <1>1, <2>1, <2>2, <2>3, TableAssumption DEF CountCoversBits
<1>6. UploadTypeOK'
  BY <1>1, <1>5 DEF DataInv, UploadTypeOK, resourceVars
<1>7. /\ UploadIndex' /\ Awaiting' /\ ReportedIsKnown' /\ CloudInStep'
  BY <1>1 DEF DataInv, UploadIndex, Awaiting, ReportedIsKnown, CloudInStep, Used,
              resourceVars
<1>8. BitmapIsReported'
  BY <1>1, <1>2 DEF DataInv, BitmapIsReported, resourceVars
<1> QED
  BY <1>3, <1>4, <1>5, <1>6, <1>7, <1>8 DEF DataInv

\* An event leaves the data alone, or is the report of one advertisement.
LEMMA DispatchFacts ==
    ASSUME DataInv, Dispatch
    PROVE  /\ pc = "dispatch" /\ pc' = pc
           /\ UNCHANGED <<resourceVars, upload_i>>
           /\ \/ UNCHANGED <<tableVars, strays>>
              \/ \E i \in Idx, t \in ScanTemps \cap Nat : Scanned(i, t)
              \/ \E b \in Nat : Strayed(b)
<1>1. pc = "dispatch" /\ pc' = pc
  BY DEF Dispatch, Goto
<1>2. CASE process_events /\ ReportAdvertisement
  <2>1. UNCHANGED <<resourceVars, upload_i>>
    BY <1>2 DEF ReportAdvertisement
  <2>2. CASE UNCHANGED <<tableVars, strays>>
    BY <1>1, <2>1, <2>2
  <2>3. CASE \E i \in ScanIndices, t \in ScanTemps : on_scan(i, t)
    <3>1. PICK i \in ScanIndices, t \in ScanTemps : on_scan(i, t)
      BY <2>3
    <3>2. i \in Nat /\ t \in ScanTemps \cap Nat
      BY GapAssumption
    <3> QED
      BY <1>1, <2>1, <3>1, <3>2, ScanFacts, StrayFacts
  <2> QED
    BY <1>2, <2>2, <2>3 DEF ReportAdvertisement
<1>3. CASE ~(process_events /\ ReportAdvertisement)
  <2>1. UNCHANGED dataVars
    BY <1>3 DEF Dispatch, Event, process_events, NothingToProcess,
                on_init_complete, on_timeout, demo_mode_start, scan, demo_mode_end
  <2> QED
    BY <1>1, <2>1 DEF dataVars, uploadVars
<1> QED
  BY <1>2, <1>3

LEMMA DispatchData == DataInv /\ Dispatch => DataInv'
<1> SUFFICES ASSUME DataInv, Dispatch PROVE DataInv'
  OBVIOUS
<1>1. CASE UNCHANGED <<tableVars, strays>>
  BY <1>1, DispatchFacts, DataAlone DEF dataVars, uploadVars
<1>2. CASE \E i \in Idx, t \in ScanTemps \cap Nat : Scanned(i, t)
  BY <1>2, DispatchFacts, ScannedData
<1>3. CASE \E b \in Nat : Strayed(b)
  BY <1>3, DispatchFacts, StrayedData
<1> QED
  BY <1>1, <1>2, <1>3, DispatchFacts

LEMMA UploadData == DataInv /\ Upload /\ UNCHANGED strays => DataInv'
<1> SUFFICES ASSUME DataInv, Upload, UNCHANGED strays PROVE DataInv'
  OBVIOUS
<1> DEFINE b == beacon_tbl[upload_i]
           e == [b EXCEPT !.updated = 0]
           r == [by |-> "device", val |-> b.temp]
<1>1. /\ pc = "upload"
      /\ pc' = IF upload_i = MaxBeacons - 1 THEN "bitmap" ELSE "upload"
      /\ upload_i' = upload_i + 1
      /\ UploadEntry
      /\ UNCHANGED <<connected_beacons, data_valid_bmp, pelion_data_valid_bmp, strays>>
  BY DEF Upload, Goto
<1>2. /\ upload_i \in Idx /\ b \in Entry
      /\ beacon_tbl \in [Idx -> Entry] /\ beacon_data_res_tbl \in [Idx -> TempRes]
      /\ reported \in SUBSET Idx
  BY <1>1 DEF DataInv, UploadIndex, UploadTypeOK
<1>3. upload_i' \in 0 .. MaxBeacons /\ UploadIndex'
  BY <1>1, <1>2, TableAssumption DEF Idx, UploadIndex
<1>4. /\ e \in Entry /\ e.element_used = b.element_used
      /\ e.updated = 0 /\ e.temp = b.temp
      /\ r \in TempRes /\ r.by = "device" /\ r.val = b.temp
  BY <1>2 DEF Entry, TempRes, Writers
<1>5. b.element_used = 1 <=> Used(beacon_tbl, upload_i)
  BY DEF Used
<1>6. \A i \in Idx : upload_i <= i => i = upload_i \/ upload_i' <= i
  BY <1>1, <1>2 DEF Idx
<1>7. \A i \in Idx : upload_i <= i /\ i # upload_i => pc' # "bitmap"
  BY <1>1, <1>2, TableAssumption DEF Idx
<1>8. CASE b.element_used = 1 /\ b.updated = 1
  <2>1. /\ beacon_tbl' = [beacon_tbl EXCEPT ![upload_i] = e]
        /\ beacon_data_res_tbl' = [beacon_data_res_tbl EXCEPT ![upload_i] = r]
        /\ reported' = reported \cup {upload_i}
    BY <1>1, <1>8 DEF UploadEntry
  <2> HIDE DEF b, e, r
  <2>2. /\ beacon_tbl' \in [Idx -> Entry] /\ beacon_tbl'[upload_i] = e
        /\ \A i \in Idx : i # upload_i => beacon_tbl'[i] = beacon_tbl[i]
        /\ beacon_data_res_tbl' \in [Idx -> TempRes]
        /\ beacon_data_res_tbl'[upload_i] = r
        /\ \A i \in Idx : i # upload_i =>
              beacon_data_res_tbl'[i] = beacon_data_res_tbl[i]
    BY <1>2, <1>4, <2>1
  <2>3. \A i \in Idx : Used(beacon_tbl', i) <=> Used(beacon_tbl, i)
    BY <1>4, <2>2 DEF Used, b
  <2>4. BitsAreKnownOrStray' /\ CountCoversBits' /\ ReportedIsKnown'
    <3>1. Known' = Known
      BY <2>3 DEF Known
    <3>2. upload_i \in Known
      BY <1>2, <1>5, <1>8 DEF Known
    <3> QED
      BY <1>1, <2>1, <3>1, <3>2
         DEF DataInv, BitsAreKnownOrStray, CountCoversBits, ReportedIsKnown
  <2>5. UploadTypeOK' /\ BitsTypeOK'
    BY <1>1, <1>2, <1>3, <2>1, <2>2 DEF DataInv, UploadTypeOK, BitsTypeOK
  <2>6. BitmapIsReported'
    BY <1>1, <2>1 DEF DataInv, BitmapIsReported
  <2>7. Awaiting'
    <3> SUFFICES ASSUME NEW i \in Idx, Used(beacon_tbl', i), i \notin reported'
                 PROVE  /\ beacon_tbl'[i].updated = 1
                        /\ pc' # "bitmap" /\ (pc' = "upload" => upload_i' <= i)
      BY DEF Awaiting
    <3>1. i # upload_i /\ i \notin reported
      BY <2>1
    <3> QED
      BY <1>1, <1>6, <1>7, <2>2, <2>3, <3>1 DEF DataInv, Awaiting
  <2>8. CloudInStep'
    <3> SUFFICES ASSUME NEW i \in Idx, Used(beacon_tbl', i),
                        beacon_tbl'[i].updated = 0,
                        beacon_data_res_tbl'[i].by = "device"
                 PROVE  beacon_data_res_tbl'[i].val = beacon_tbl'[i].temp
      BY DEF CloudInStep
    <3>1. CASE i = upload_i
      BY <1>4, <2>2, <3>1
    <3>2. CASE i # upload_i
      BY <2>2, <2>3, <3>2 DEF DataInv, CloudInStep
    <3> QED
      BY <3>1, <3>2
  <2> QED
    BY <1>3, <2>4, <2>5, <2>6, <2>7, <2>8 DEF DataInv
<1>9. CASE ~(b.element_used = 1 /\ b.updated = 1)
  <2>1. UNCHANGED <<beacon_tbl, beacon_data_res_tbl, reported>>
    BY <1>1, <1>9 DEF UploadEntry
  <2>2. UploadTypeOK' /\ BitsTypeOK' /\ BitmapIsReported'
    BY <1>1, <1>3, <2>1 DEF DataInv, UploadTypeOK, BitsTypeOK, BitmapIsReported
  <2>3. BitsAreKnownOrStray' /\ CountCoversBits' /\ ReportedIsKnown' /\ CloudInStep'
    BY <1>1, <2>1 DEF DataInv, BitsAreKnownOrStray, CountCoversBits, ReportedIsKnown,
                      CloudInStep, Known, Used
  <2>4. Awaiting'
    <3> SUFFICES ASSUME NEW i \in Idx, Used(beacon_tbl, i), i \notin reported
                 PROVE  /\ beacon_tbl[i].updated = 1
                        /\ pc' # "bitmap" /\ (pc' = "upload" => upload_i' <= i)
      BY <2>1 DEF Awaiting, Used
    <3>1. beacon_tbl[i].updated = 1 /\ upload_i <= i
      BY <1>1 DEF DataInv, Awaiting
    <3>2. i # upload_i
      BY <1>5, <1>9, <3>1
    <3> QED
      BY <1>6, <1>7, <3>1, <3>2
  <2> QED
    BY <1>3, <2>2, <2>3, <2>4 DEF DataInv
<1> QED
  BY <1>8, <1>9

\* When the loop is over, the beacons in use have all been reported.
LEMMA BitmapTime ==
    ASSUME DataInv, pc = "bitmap"
    PROVE  data_valid_bmp = reported \cup strays
BY DEF DataInv, Awaiting, ReportedIsKnown, BitsAreKnownOrStray, Known

LEMMA BitmapData == DataInv /\ Bitmap /\ UNCHANGED strays => DataInv'
<1> SUFFICES ASSUME DataInv, Bitmap, UNCHANGED strays PROVE DataInv'
  OBVIOUS
<1>1. /\ pc = "bitmap" /\ pc' = "wait" /\ upload_i' = 0
      /\ pelion_data_valid_bmp' = [by |-> "device", val |-> data_valid_bmp]
      /\ UNCHANGED <<beacon_tbl, connected_beacons, data_valid_bmp,
                     beacon_data_res_tbl, reported, strays>>
  BY DEF Bitmap, Goto, tableVars
<1>2. data_valid_bmp \in SUBSET Nat
  BY DEF DataInv, BitsTypeOK, Bits
<1>3. [by |-> "device", val |-> data_valid_bmp] \in BmpRes
  BY <1>2 DEF BmpRes, Writers
<1>4. 0 \in 0 .. MaxBeacons
  BY TableAssumption
<1>5. UploadTypeOK'
  BY <1>1, <1>3, <1>4 DEF DataInv, UploadTypeOK
<1>6. /\ BitsTypeOK' /\ UploadIndex' /\ BitsAreKnownOrStray' /\ CountCoversBits'
      /\ CloudInStep' /\ Awaiting' /\ ReportedIsKnown'
  BY <1>1 DEF DataInv, BitsTypeOK, UploadIndex, BitsAreKnownOrStray, CountCoversBits,
              CloudInStep, Awaiting, ReportedIsKnown, Known, Used
<1>7. data_valid_bmp = reported \cup strays
  BY <1>1, BitmapTime
<1>8. BitmapIsReported'
  BY <1>1, <1>7 DEF BitmapIsReported
<1> QED
  BY <1>5, <1>6, <1>8 DEF DataInv

LEMMA NextDataInv == DataInv /\ [Next]_vars => DataInv'
<1> SUFFICES ASSUME DataInv, [Next]_vars PROVE DataInv'
  OBVIOUS
<1>1. CASE Finish
  <2>1. CASE Wait
    BY <1>1, <2>1, DataAlone DEF Finish, Wait, Goto, dataVars
  <2> QED
    BY <1>1, <2>1, UploadData, BitmapData DEF Finish, UploadAndWait
<1>2. CASE UNCHANGED vars
  BY <1>2, DataAlone DEF vars, clientVars
<1> QED
  BY <1>1, <1>2, QuietData, DispatchData, ServerData DEF Next, Quiet

THEOREM DataInvariance == Spec => []DataInv
BY InitDataInv, NextDataInv, PTL DEF Spec

\* TypeOK of the application with BLE, for every size of the table and of the
\* event queue and any bytes in the advertisements.
THEOREM BleTypeCorrect == Spec => []TypeOK
<1>1. Phases /\ DataInv => TypeOK
  <2> SUFFICES ASSUME Phases, DataInv PROVE TypeOK
    OBVIOUS
  <2>1. pc \in RegisterPc \cup BodyPc \cup {"loop", "exit"} /\ Occupied <= QueueSize
    BY DEF Phases
  <2>2. UploadTypeOK /\ data_valid_bmp \in SUBSET Bits /\ strays \in SUBSET Bits
    BY DEF DataInv, BitsTypeOK
  <2>3. /\ ble \in {"off", "initialising", "ready", "init_failed"}
        /\ duration_timers \in {0, 1}
    BY DEF Phases, Dispatching, Off, Starting, Failed, Ready, ScanPosted,
           Scanning, Ending
  <2>4. queue \in Seq({"process_events", "demo_mode_start", "scan", "demo_mode_end"})
    BY FewEvents DEF Events
  <2> QED
    BY <2>1, <2>2, <2>3, <2>4 DEF TypeOK
<1> QED
  BY <1>1, PhaseInvariance, DataInvariance, PTL

\* BitsAreKnownOrStray: whatever index an advertisement has, on_scan sets no bit
\* but that of a beacon whose entry is in use or of a stray, and keeps those.
THEOREM BitsAreBeacons == Spec => []BitsAreKnownOrStray
<1>1. DataInv => BitsAreKnownOrStray
  BY DEF DataInv
<1> QED
  BY <1>1, DataInvariance, PTL

\* CountCoversBits: connected_beacons may run ahead of the beacons and strays,
\* never behind.
THEOREM CountCovers == Spec => []CountCoversBits
<1>1. DataInv => CountCoversBits
  BY DEF DataInv
<1> QED
  BY <1>1, DataInvariance, PTL

\* BitmapIsReported: but for strays, a scan between two uploads never lets the
\* bitmap run ahead of the temperatures, nor fall behind them.
THEOREM BleAnnouncedReported == Spec => []BitmapIsReported
<1>1. DataInv => BitmapIsReported
  BY DEF DataInv
<1> QED
  BY <1>1, DataInvariance, PTL

\* CloudInStep: what is not marked for the next upload is what the cloud has.
THEOREM BleInStep == Spec => []CloudInStep
<1>1. DataInv => CloudInStep
  BY DEF DataInv
<1> QED
  BY <1>1, DataInvariance, PTL

\* The other side of RefusedOnlyIfFull: once the count has reached the size of
\* the table, which one talkative beacon is enough for, no beacon is added any
\* more and no bit set.
THEOREM LockedOutForGood ==
    Spec => [][connected_beacons = MaxBeacons =>
                   UNCHANGED <<connected_beacons, data_valid_bmp>>]_vars
<1>1. ASSUME DataInv, [Next]_vars, connected_beacons = MaxBeacons
      PROVE  UNCHANGED <<connected_beacons, data_valid_bmp>>
  <2>1. CASE Quiet
    BY <2>1, QuietFacts DEF dataVars, uploadVars, tableVars
  <2>2. CASE Dispatch
    <3>1. ASSUME NEW i \in Idx, NEW t \in Nat, Scanned(i, t)
          PROVE  UNCHANGED <<connected_beacons, data_valid_bmp>>
      BY <1>1, <3>1, TableAssumption DEF Scanned
    <3>2. ASSUME NEW b \in Nat, Strayed(b)
          PROVE  UNCHANGED <<connected_beacons, data_valid_bmp>>
      BY <1>1, <3>2, TableAssumption DEF Strayed
    <3> QED
      BY <1>1, <2>2, <3>1, <3>2, DispatchFacts DEF tableVars
  <2>3. CASE Finish \/ Server
    BY <2>3 DEF Finish, UploadAndWait, Upload, Bitmap, Wait, Server, ServerPut,
                ServerPutTemp, ServerPutBitmap, uploadVars, tableVars
  <2>4. CASE UNCHANGED vars
    BY <2>4 DEF vars, dataVars, uploadVars, tableVars
  <2> QED
    BY <1>1, <2>1, <2>2, <2>3, <2>4 DEF Next, Quiet
<1> QED
  BY <1>1, DataInvariance, PTL DEF Spec

-----------------------------------------------------------------------------
(* What the server sees                                                    *)

\* What a round of reports needs besides DataInv: the entries it has passed
\* have nothing to send.
RoundInv == \A i \in Pending : pc # "bitmap" /\ (pc = "upload" => upload_i <= i)

heardOf == [i \in Idx |-> beacon_tbl[i].temp]

sendingOf == pc \in {"upload", "bitmap"}

viewOf == <<heardOf, Pending, sendingOf, strays, beacon_data_res_tbl,
            pelion_data_valid_bmp, reported>>

LEMMA SameIdx == View!Idx = Idx
BY DEF View!Idx, Idx

LEMMA SameCardinality == \A S : View!Cardinality(S) = Cardinality(S)
BY Zenon DEF View!Cardinality, Cardinality

\* The beacons of the view are the entries in use, and while the count is not
\* full there is a place for one more.
LEMMA Places ==
    ASSUME DataInv
    PROVE  /\ View!Beacons = Known
           /\ connected_beacons < MaxBeacons => View!HasPlace
<1>1. View!Beacons = Known
  BY DEF View!Beacons, Pending, Known, DataInv, Awaiting, ReportedIsKnown
<1>2. Cardinality(Known) \in Nat /\ Cardinality(strays) \in Nat
  BY SmallSets DEF Known, DataInv, BitsTypeOK
<1>3. /\ Cardinality(Known) + Cardinality(strays) <= connected_beacons
      /\ connected_beacons \in Nat /\ MaxBeacons \in Nat
  BY TableAssumption DEF DataInv, CountCoversBits, UploadTypeOK
<1>4. connected_beacons < MaxBeacons =>
          Cardinality(Known) + Cardinality(strays) < MaxBeacons
  BY <1>2, <1>3
<1> QED
  BY <1>1, <1>4, SameCardinality DEF View!HasPlace

LEMMA InitRound == Init => RoundInv /\ View!ViewInit
<1> SUFFICES ASSUME Init PROVE RoundInv /\ View!ViewInit
  OBVIOUS
<1>1. /\ beacon_tbl = [i \in Idx |-> FreeEntry] /\ pc \notin {"upload", "bitmap"}
      /\ beacon_data_res_tbl = [i \in Idx |-> [by |-> "nobody", val |-> 0]]
      /\ pelion_data_valid_bmp = [by |-> "nobody", val |-> {}]
      /\ reported = {} /\ strays = {}
  BY DEF Init, ClientInit, UploadInit, GapInit, init_beacon_tbl
<1>2. Pending = {} /\ [i \in Idx |-> beacon_tbl[i].temp] = [i \in Idx |-> 0]
  BY <1>1 DEF Pending, Used, FreeEntry
<1>3. View!ViewInit
  BY <1>1, <1>2, SameIdx DEF View!ViewInit
<1> QED
  BY <1>1, <1>2, <1>3 DEF RoundInv

\* A quiet step starts a round or is not seen.
LEMMA QuietView ==
    ASSUME DataInv, RoundInv, UNCHANGED dataVars,
           pc' = pc \/ (pc \notin {"upload", "bitmap"} /\ pc' # "bitmap")
    PROVE  RoundInv' /\ [View!ViewNext]_viewOf
<1>1. /\ Pending' = Pending /\ heardOf' = heardOf
      /\ UNCHANGED <<beacon_tbl, beacon_data_res_tbl, pelion_data_valid_bmp,
                     reported, upload_i, strays>>
  BY DEF Pending, heardOf, Used, dataVars, uploadVars, tableVars, resourceVars
<1>2. RoundInv'
  <2>1. pc \notin {"upload", "bitmap"} => \A i \in Pending : upload_i <= i
    BY DEF DataInv, UploadIndex, Pending, Idx
  <2> QED
    BY <1>1, <2>1 DEF RoundInv
<1>3. CASE sendingOf' = sendingOf
  BY <1>1, <1>2, <1>3 DEF viewOf
<1>4. CASE sendingOf' # sendingOf
  <2>1. ~sendingOf /\ sendingOf'
    BY <1>4 DEF sendingOf
  <2>2. View!StartRound
    BY <1>1, <2>1 DEF View!StartRound, View!resourceView, heardOf, sendingOf
  <2> QED
    BY <1>2, <2>2 DEF View!ViewNext
<1> QED
  BY <1>3, <1>4

LEMMA ServerView ==
    ASSUME RoundInv, Server
    PROVE  RoundInv' /\ View!ViewNext
<1>1. /\ pc' = pc /\ UNCHANGED <<beacon_tbl, reported, upload_i, strays>>
      /\ Pending' = Pending
  BY DEF Server, ServerPut, ServerPutTemp, ServerPutBitmap, clientVars, tableVars,
         Pending, Used
<1>2. RoundInv'
  BY <1>1 DEF RoundInv
<1>3. CASE ServerPutTemp
  BY <1>1, <1>2, <1>3, SameIdx
     DEF ServerPutTemp, View!ViewNext, View!OverrideTemperature, View!deviceVars
<1>4. CASE ServerPutBitmap
  BY <1>1, <1>2, <1>4
     DEF ServerPutBitmap, View!ViewNext, View!OverrideValidity, View!deviceVars
<1> QED
  BY <1>3, <1>4 DEF Server, ServerPut

\* The report of an advertisement is heard, unless the beacon is refused, or is
\* a stray.
LEMMA DispatchView ==
    ASSUME DataInv, RoundInv, Dispatch
    PROVE  RoundInv' /\ [View!ViewNext]_viewOf
<1>1. /\ pc = "dispatch" /\ pc' = pc /\ UNCHANGED <<resourceVars, upload_i>>
  BY DispatchFacts
<1>2. CASE UNCHANGED <<tableVars, strays>>
  BY <1>1, <1>2, QuietView DEF dataVars, uploadVars
<1>3. CASE \E i \in Idx, t \in ScanTemps \cap Nat : Scanned(i, t)
  <2>1. PICK i \in Idx, t \in ScanTemps \cap Nat : Scanned(i, t)
    BY <1>3
  <2> DEFINE f == [element_used |-> 1, updated |-> 1, temp |-> t]
  <2>2. f.element_used = 1 /\ f.updated = 1 /\ f.temp = t
    OBVIOUS
  <2> HIDE DEF f
  <2>3. /\ beacon_tbl \in [Idx -> Entry]
        /\ beacon_tbl' = [beacon_tbl EXCEPT ![i] = f]
    BY <2>1 DEF Scanned, DataInv, UploadTypeOK, f
  <2>4. /\ beacon_tbl'[i] = f
        /\ \A j \in Idx : j # i => beacon_tbl'[j] = beacon_tbl[j]
    BY <2>3
  <2>5. heardOf' = [heardOf EXCEPT ![i] = t]
    BY <2>2, <2>4 DEF heardOf
  <2>6. Pending' = Pending \cup {i}
    BY <2>2, <2>4 DEF Pending, Used
  <2>7. RoundInv'
    BY <1>1 DEF RoundInv
  <2>9. i \in View!Beacons \/ View!HasPlace
    BY <2>1, Places DEF Scanned, Known
  <2>8. View!Hear(i, t)
    BY <1>1, <2>1, <2>5, <2>6, <2>9
       DEF View!Hear, View!resourceView, heardOf, resourceVars, Scanned
  <2> QED
    BY <2>7, <2>8, SameIdx DEF View!ViewNext
<1>4. CASE \E b \in Nat : Strayed(b)
  <2>1. PICK b \in Nat : Strayed(b)
    BY <1>4
  <2>2. RoundInv' /\ heardOf' = heardOf /\ Pending' = Pending
    BY <1>1, <2>1 DEF RoundInv, Strayed, heardOf, Pending, Used
  <2>3. CASE b \in Bits
    <3>1. View!HasPlace
      BY <2>1, Places DEF Strayed
    <3>2. strays' = strays \cup {b}
      BY <2>1, <2>3 DEF Strayed, SetBit, Bits
    <3>3. View!Stray(b)
      BY <1>1, <2>2, <3>1, <3>2
         DEF View!Stray, View!resourceView, heardOf, resourceVars
    <3> QED
      BY <2>2, <2>3, <3>3 DEF View!ViewNext
  <2>4. CASE b \notin Bits
    <3>1. strays' = strays
      BY <2>1, <2>4 DEF Strayed, SetBit, Bits
    <3> QED
      BY <1>1, <2>2, <3>1 DEF viewOf, sendingOf, resourceVars
  <2> QED
    BY <2>3, <2>4
<1> QED
  BY <1>2, <1>3, <1>4, DispatchFacts

\* One iteration of the upload loop is the report of one beacon, or is not seen.
LEMMA UploadView ==
    ASSUME DataInv, RoundInv, Upload, UNCHANGED strays
    PROVE  RoundInv' /\ [View!ViewNext]_viewOf
<1> DEFINE b == beacon_tbl[upload_i]
           e == [b EXCEPT !.updated = 0]
<1>1. /\ pc = "upload"
      /\ pc' = IF upload_i = MaxBeacons - 1 THEN "bitmap" ELSE "upload"
      /\ upload_i' = upload_i + 1
      /\ UploadEntry
      /\ pelion_data_valid_bmp' = pelion_data_valid_bmp
  BY DEF Upload, Goto
<1>2. /\ upload_i \in Idx /\ b \in Entry /\ beacon_tbl \in [Idx -> Entry]
      /\ reported \in SUBSET Idx
  BY <1>1 DEF DataInv, UploadIndex, UploadTypeOK
<1>3. sendingOf /\ sendingOf' /\ \A i \in Pending : upload_i <= i
  BY <1>1 DEF RoundInv, sendingOf
<1>4. \A i \in Idx : upload_i <= i /\ i # upload_i =>
                        pc' # "bitmap" /\ upload_i' <= i
  BY <1>1, <1>2, TableAssumption DEF Idx
<1>5. CASE upload_i \in Pending
  <2>1. /\ beacon_tbl' = [beacon_tbl EXCEPT ![upload_i] = e]
        /\ beacon_data_res_tbl' = [beacon_data_res_tbl EXCEPT
               ![upload_i] = [by |-> "device", val |-> b.temp]]
        /\ reported' = reported \cup {upload_i}
    BY <1>1, <1>5 DEF UploadEntry, Pending, Used
  <2>2. /\ e.element_used = b.element_used /\ e.updated = 0 /\ e.temp = b.temp
    BY <1>2 DEF Entry
  <2>3. Used(beacon_tbl, upload_i) /\ b.element_used = 1
    BY <1>5 DEF Pending, Used
  <2>4. heardOf[upload_i] = b.temp
    BY <1>2 DEF heardOf
  <2> HIDE DEF e
  <2>5. /\ beacon_tbl'[upload_i] = e
        /\ \A j \in Idx : j # upload_i => beacon_tbl'[j] = beacon_tbl[j]
    BY <1>2, <2>1
  <2>6. heardOf' = heardOf
    BY <2>2, <2>5 DEF heardOf
  <2>7. Pending' = Pending \ {upload_i}
    BY <2>2, <2>5 DEF Pending, Used
  <2>8. RoundInv'
    BY <1>3, <1>4, <2>7 DEF RoundInv, Pending
  <2>9. View!Report(upload_i)
    <3> HIDE DEF b
    <3> QED
      BY <1>1, <1>3, <1>5, <2>1, <2>4, <2>6, <2>7
         DEF View!Report, heardOf, sendingOf
  <2> QED
    BY <1>2, <2>8, <2>9, SameIdx DEF View!ViewNext
<1>6. CASE upload_i \notin Pending
  <2>1. UNCHANGED <<beacon_tbl, beacon_data_res_tbl, reported>>
    BY <1>1, <1>2, <1>6 DEF UploadEntry, Pending, Used
  <2>2. Pending' = Pending /\ heardOf' = heardOf
    BY <2>1 DEF Pending, heardOf, Used
  <2>3. RoundInv'
    BY <1>3, <1>4, <1>6, <2>2 DEF RoundInv, Pending
  <2>4. UNCHANGED viewOf
    BY <1>1, <1>3, <2>1, <2>2 DEF viewOf, sendingOf
  <2> QED
    BY <2>3, <2>4
<1> QED
  BY <1>5, <1>6

\* At the end of the loop nothing is pending, so the bits are the beacons
\* reported and the strays.
LEMMA BitmapView ==
    ASSUME DataInv, RoundInv, Bitmap, UNCHANGED strays
    PROVE  RoundInv' /\ View!Announce
<1>1. /\ pc = "bitmap" /\ pc' = "wait"
      /\ pelion_data_valid_bmp' = [by |-> "device", val |-> data_valid_bmp]
      /\ UNCHANGED <<beacon_tbl, beacon_data_res_tbl, reported>>
  BY DEF Bitmap, Goto, tableVars
<1>2. Pending = {} /\ Pending' = Pending /\ heardOf' = heardOf
  BY <1>1 DEF RoundInv, Pending, heardOf, Used
<1>3. data_valid_bmp = reported \cup strays
  BY <1>1, BitmapTime
<1>4. View!Announce
  BY <1>1, <1>2, <1>3 DEF View!Announce, heardOf
<1> QED
  BY <1>1, <1>2, <1>4 DEF RoundInv

LEMMA StepIsViewStep ==
    ASSUME DataInv, RoundInv, [Next]_vars
    PROVE  RoundInv' /\ [View!ViewNext]_viewOf
<1>1. CASE Quiet
  BY <1>1, QuietFacts, QuietView
<1>2. CASE Dispatch
  BY <1>2, DispatchView
<1>3. CASE Finish
  <2>1. CASE Wait
    BY <1>3, <2>1, QuietView DEF Finish, Wait, Goto, dataVars
  <2> QED
    BY <1>3, <2>1, UploadView, BitmapView DEF Finish, UploadAndWait, View!ViewNext
<1>4. CASE Server
  BY <1>4, ServerView
<1>5. CASE UNCHANGED vars
  BY <1>5, QuietView DEF vars, clientVars
<1> QED
  BY <1>1, <1>2, <1>3, <1>4, <1>5 DEF Next, Quiet

\* ImplementsView: seen from the server, the BLE build does to its resources
\* what ScanView allows, whatever is dropped from the event queue: what was
\* heard last of a beacon is what is reported, and a bitmap comes after all
\* that was heard and names the beacons reported and the strays, of both no
\* more than the table has entries.
THEOREM BleImplementsView == Spec => ImplementsView
<1>1. DataInv /\ RoundInv /\ [Next]_vars =>
          RoundInv' /\ [View!ViewNext]_(View!viewVars)
  BY StepIsViewStep
     DEF viewOf, heardOf, sendingOf, View!viewVars, View!deviceVars, View!resourceView
<1> QED
  BY <1>1, InitRound, DataInvariance, PTL
     DEF Spec, ImplementsView, View!ViewSpec

-----------------------------------------------------------------------------
(* The client                                                              *)

LEMMA ClientInitially == Init => Client!ClientInit
BY DEF Init, ClientInit, Client!ClientInit, BodyPc

\* Every step of register_and_connect is that step of the client.
LEMMA RegisterIsClientStep ==
    ASSUME Register
    PROVE  Client!RegisterAndConnect
<1> USE DEF BodyPc, connVars, flagVars, updateVars, libVars,
            Client!connVars, Client!flagVars, Client!updateVars, Client!libVars
<1>1. CASE NoInterface
  BY <1>1 DEF NoInterface, Client!NoInterface, Client!RegisterAndConnect
<1>2. CASE ConnectFails
  BY <1>2 DEF ConnectFails, Client!ConnectFails, Client!RegisterAndConnect
<1>3. CASE ConnectSucceeds
  BY <1>3 DEF ConnectSucceeds, Client!ConnectSucceeds, Client!RegisterAndConnect
<1>4. CASE Setup
  BY <1>4 DEF Setup, Client!Setup, Client!RegisterAndConnect
<1>5. CASE Mark
  BY <1>5 DEF Mark, Client!Mark, Client!RegisterAndConnect
<1>6. CASE SetClient
  BY <1>6 DEF SetClient, Client!SetClient, Client!RegisterAndConnect
<1>7. CASE SetAuthorize
  BY <1>7 DEF SetAuthorize, Client!SetAuthorize, Client!RegisterAndConnect
<1> QED
  BY <1>1, <1>2, <1>3, <1>4, <1>5, <1>6, <1>7 DEF Register, RegisterAndConnect

\* Every callback is that callback of the client.
LEMMA CallbackIsClientStep ==
    ASSUME Callback
    PROVE  Client!EventLoop
<1> USE DEF BodyPc, connVars, flagVars, updateVars, libVars,
            Client!connVars, Client!flagVars, Client!updateVars, Client!libVars
<1>1. CASE ClientRegistered
  BY <1>1 DEF ClientRegistered, Client!ClientRegistered, Client!EventLoop
<1>2. CASE ClientError
  BY <1>2 DEF ClientError, Client!ClientError, Client!EventLoop
<1>3. CASE PostUnregister
  BY <1>3 DEF PostUnregister, close, Client!PostUnregister, Client!close,
            Client!EventLoop
<1>4. CASE PostFactoryReset
  BY <1>4 DEF PostFactoryReset, close, Client!PostFactoryReset, Client!close,
            Client!EventLoop
<1>5. CASE FactoryReset
  BY <1>5 DEF FactoryReset, Client!FactoryReset, Client!EventLoop
<1>6. CASE ClientUnregistered
  BY <1>6 DEF ClientUnregistered, Client!ClientUnregistered, Client!EventLoop
<1>7. CASE UnregisteredReturns
  BY <1>7 DEF UnregisteredReturns, Client!UnregisteredReturns, Client!EventLoop
<1>8. CASE UpdateRequest
  BY <1>8 DEF UpdateRequest, Client!UpdateRequest, NextFw, Client!NextFw,
              Client!EventLoop
<1> QED
  BY <1>1, <1>2, <1>3, <1>4, <1>5, <1>6, <1>7, <1>8 DEF Callback, EventLoop

\* A scan is none: the body of the loop is one step of the client, its last.
LEMMA StepIsClientStep ==
    ASSUME [Next]_vars
    PROVE  [Client!ClientNext]_(Client!clientVars)
<1> USE DEF BodyPc, clientData, connVars, flagVars, updateVars, libVars,
            Client!clientVars, Client!clientData, Client!connVars,
            Client!flagVars, Client!updateVars, Client!libVars
<1>1. CASE Register
  BY <1>1, RegisterIsClientStep DEF Client!ClientNext
<1>2. CASE Loop
  BY <1>2 DEF Loop, CheckLoop, Goto, Client!ClientNext, Client!CheckLoop, Client!Goto
<1>3. CASE Run \/ Dispatch \/ DurationEnd \/ Return
  BY <1>3 DEF Run, Dispatch, DurationEnd, Return, Goto
<1>4. CASE Finish
  <2>1. CASE Upload \/ Bitmap
    BY <2>1 DEF Upload, Bitmap, Goto
  <2>2. CASE Wait
    BY <2>2 DEF Wait, Goto, Client!ClientNext, Client!LoopBody, Client!Goto
  <2> QED
    BY <1>4, <2>1, <2>2 DEF Finish, UploadAndWait
<1>5. CASE Callback
  BY <1>5, CallbackIsClientStep DEF Client!ClientNext
<1>6. CASE BleStack \/ Server \/ UNCHANGED vars
  BY <1>6 DEF BleStack, Server, ServerPut, vars, clientVars
<1> QED
  BY <1>1, <1>2, <1>3, <1>4, <1>5, <1>6 DEF Next

\* ImplementsClient: with a scan in the body of the loop, and whatever goes on
\* in the event queue, the two threads use SimpleM2MClient as CloudClient says.
THEOREM BleImplementsClient == Spec => ImplementsClient
<1> QED
  BY ClientInitially, StepIsClientStep, PTL
     DEF Spec, ImplementsClient, Client!ClientSpec

\* The same client, with the theorems about it.
Proved == INSTANCE CloudClientProofs
              WITH pc <- IF pc \in BodyPc THEN "work" ELSE pc

LEMMA SameClient ==
    /\ Client!ClientInit <=> Proved!ClientInit
    /\ [Client!ClientNext]_(Client!clientVars)
          <=> [Proved!ClientNext]_(Proved!clientVars)
<1> USE DEF Client!ClientInit, Proved!ClientInit, Client!NoInterface,
            Proved!NoInterface, Client!ConnectFails, Proved!ConnectFails,
            Client!ConnectSucceeds, Proved!ConnectSucceeds, Client!Setup,
            Proved!Setup, Client!Mark, Proved!Mark, Client!SetClient,
            Proved!SetClient, Client!SetAuthorize, Proved!SetAuthorize,
            Client!RegisterAndConnect, Proved!RegisterAndConnect,
            Client!CheckLoop, Proved!CheckLoop, Client!Goto, Proved!Goto,
            Client!LoopBody, Proved!LoopBody, Client!ClientRegistered,
            Proved!ClientRegistered, Client!ClientError, Proved!ClientError,
            Client!close, Proved!close, Client!PostUnregister, Proved!PostUnregister,
            Client!PostFactoryReset, Proved!PostFactoryReset,
            Client!FactoryReset, Proved!FactoryReset,
            Client!ClientUnregistered, Proved!ClientUnregistered,
            Client!UnregisteredReturns, Proved!UnregisteredReturns,
            Client!NextFw, Proved!NextFw, Client!UpdateRequest,
            Proved!UpdateRequest, Client!EventLoop, Proved!EventLoop,
            Client!ClientNext, Proved!ClientNext, Client!clientVars,
            Proved!clientVars, Client!clientData, Proved!clientData,
            Client!connVars, Proved!connVars, Client!flagVars,
            Proved!flagVars, Client!updateVars, Proved!updateVars,
            Client!libVars, Proved!libVars
<1>1. Client!ClientInit <=> Proved!ClientInit
  OBVIOUS
<1>2. [Client!ClientNext]_(Client!clientVars)
        <=> [Proved!ClientNext]_(Proved!clientVars)
  OBVIOUS
<1> QED
  BY <1>1, <1>2

\* In the BLE build too, the scans of which dispatch their own event queue on
\* the application thread, the loop is left only after client_unregistered or
\* for want of a network, no factory reset runs past that point or on a device
\* that stays, update_authorize always has its client, and _registered is
\* never left set on a device that is unregistered.
THEOREM BleClientSafe ==
    Spec => [](/\ ExitReason /\ ResetBeforeExit /\ WipedIsLeaving
               /\ NeverNullClient /\ RegisteredIsHonest)
<1>1. Spec => Proved!ClientSpec
  BY ClientInitially, StepIsClientStep, SameClient, PTL
     DEF Spec, Proved!ClientSpec
<1>2. Proved!ClientSpec =>
        [](/\ Proved!ExitReason /\ Proved!ResetBeforeExit /\ Proved!WipedIsLeaving
           /\ Proved!NeverNullClient /\ Proved!RegisteredIsHonest)
  BY Proved!ExitHasReason, Proved!ResetIsOverAtExit, Proved!ResetOnlyWhenLeaving,
     Proved!ClientIsSet, Proved!RegisteredHonest, RetriesAssumption, PTL
     DEF Proved!RetriesAssumption
<1>3. /\ Proved!ExitReason /\ Proved!ResetBeforeExit /\ Proved!WipedIsLeaving
      /\ Proved!NeverNullClient /\ Proved!RegisteredIsHonest
      => /\ ExitReason /\ ResetBeforeExit /\ WipedIsLeaving
         /\ NeverNullClient /\ RegisteredIsHonest
  BY DEF Proved!ExitReason, Proved!ResetBeforeExit, Proved!WipedIsLeaving,
         Proved!NeverNullClient, Proved!RegisteredIsHonest, ExitReason,
         ResetBeforeExit, WipedIsLeaving, NeverNullClient, RegisteredIsHonest,
         BodyPc
<1> QED
  BY <1>1, <1>2, <1>3, PTL
=============================================================================
