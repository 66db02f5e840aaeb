------------------------------- MODULE BleApp --------------------------------
(***************************************************************************)
(* The FEA_BLE = 1 build: main_application with GAPDevice.run as the first *)
(* half of the body of its loop.  The event queue is dispatched by the     *)
(* application thread itself, so a dispatch that never ends keeps it from  *)
(* uploading and from noticing that the device has been unregistered.      *)
(***************************************************************************)
EXTENDS GapDevice, FiniteSets

vars == <<clientVars, dataVars, gapVars>>

BodyPc == {"run", "dispatch", "upload", "bitmap", "wait"}

Init == ClientInit /\ UploadInit /\ GapInit

Register == RegisterAndConnect /\ UNCHANGED <<dataVars, gapVars>>

\* Mutation of Loop: the condition of the loop is not looked at.
Loop_Forever == Goto("loop", "run") /\ UNCHANGED <<dataVars, gapVars>>

Loop == CheckLoop("run") /\ UNCHANGED <<dataVars, gapVars>>

Run ==
    \/ Goto("run", "dispatch") /\ RunStarts
    \/ Goto("run", "upload") /\ RunFails

Dispatch == Goto("dispatch", "dispatch") /\ Event

DurationEnd == Goto("dispatch", "dispatch") /\ on_duration_end

Return == Goto("dispatch", "upload") /\ DispatchReturns

Finish == UploadAndWait /\ UNCHANGED <<gapVars, strays>>

\* The stack works on its own, whatever the application thread is doing.
BleStack == Stack /\ UNCHANGED clientVars

Callback == EventLoop /\ UNCHANGED <<dataVars, gapVars>>

Server == ServerPut /\ UNCHANGED <<gapVars, strays>>

Next ==
    \/ Register \/ Loop \/ Run \/ Dispatch \/ DurationEnd \/ Return \/ Finish
    \/ BleStack \/ Callback \/ Server

(***************************************************************************)
(* The application thread is scheduled, an event at the head of the queue  *)
(* is run, a timer that is due is run between two events however many      *)
(* advertisements come in, and a break ends the dispatch.  The stack       *)
(* answers init(), with success or with an error; it need never see an     *)
(* advertisement.                                                          *)
(***************************************************************************)
Fairness ==
    /\ WF_vars(Register \/ Loop \/ Run \/ Finish)
    /\ WF_vars(Dispatch)
    /\ WF_vars(DurationEnd)
    /\ WF_vars(Return)
    /\ WF_vars(InitSignal /\ UNCHANGED clientVars)
    /\ WF_vars(EventLoopProgress /\ UNCHANGED <<dataVars, gapVars>>)

Spec == Init /\ [][Next]_vars
FairSpec == Spec /\ Fairness

-----------------------------------------------------------------------------
(* Properties                                                              *)

\* The bits of data_valid_bmp.
Bits == 0 .. BmpBits - 1

\* Type invariant: the application thread, its data, the queue and the stack.
TypeOK ==
    /\ pc \in RegisterPc \cup BodyPc \cup {"loop", "exit"}
    /\ UploadTypeOK
    /\ data_valid_bmp \in SUBSET Bits /\ strays \in SUBSET Bits
    /\ ble \in {"off", "initialising", "ready", "init_failed"}
    /\ queue \in Seq({"process_events", "demo_mode_start", "scan", "demo_mode_end"})
    /\ Occupied <= QueueSize
    /\ duration_timers \in {0, 1}

\* The entries in use: the beacons the device knows.
Known == {i \in Idx : Used(beacon_tbl, i)}

\* The validity bits are those of the entries in use and the strays, at every
\* step: a beacon refused, or counted again, sets none.
BitsAreKnownOrStray == data_valid_bmp = Known \cup strays

\* connected_beacons never falls behind the table and the bits: an index
\* outside the table that is taken for a beacon takes the place of one.
CountCoversBits == Cardinality(Known) + Cardinality(strays) <= connected_beacons

\* However scans, uploads and writes of the server follow each other, a bitmap
\* written by the device names no beacon whose temperature the device has not
\* written, strays apart, and between two rounds it names every beacon whose
\* temperature it has written.
BitmapIsReported ==
    pelion_data_valid_bmp.by = "device" =>
        /\ pelion_data_valid_bmp.val \subseteq reported \cup strays
        /\ pc \notin {"upload", "bitmap"} => reported \subseteq pelion_data_valid_bmp.val

\* Outside the dispatch the radio is off and nothing of the last scan is
\* left to run: no advertisement touches the table while it is uploaded, and
\* run() never finds the stack initialised.
QuietOutsideDispatch ==
    pc # "dispatch" =>
        /\ ble = "off" /\ ~scanning /\ ~break_requested
        /\ duration_timers = 0
        /\ \A k \in DOMAIN queue : queue[k] = "process_events"

\* A scan needs room for three events at once, so nothing is dropped until the
\* blink timers left over from earlier scans have filled the rest of the
\* queue.
DropsOnlyWhenCrowded == dropped => blink_timers + 3 > QueueSize

\* dispatch_forever ends, and the loop goes on to upload, unless the stack
\* reported an error or the queue was too full for an event.
DispatchEnds ==
    pc = "dispatch" ~> pc = "upload" \/ ble = "init_failed" \/ dropped

\* The two threads use the client as CloudClient says, with a scan inside the
\* body of the loop as well.
Client == INSTANCE CloudClient
              WITH pc <- IF pc \in BodyPc THEN "work" ELSE pc
ImplementsClient == Client!ClientSpec

\* The entries of the table the next upload will send.
Pending == {i \in Idx : Used(beacon_tbl, i) /\ beacon_tbl[i].updated = 1}

\* Seen from the server: what was heard last of every beacon is what is
\* reported of it, each beacon heard in a scan is reported before the bitmap
\* that follows, and the bitmap names the beacons reported and the strays.
View == INSTANCE ScanView
            WITH heard <- [i \in Idx |-> beacon_tbl[i].temp],
                 pending <- Pending,
                 sending <- pc \in {"upload", "bitmap"},
                 temperature <- beacon_data_res_tbl,
                 validity <- pelion_data_valid_bmp,
                 StrayBits <- Bits
ImplementsView == View!ViewSpec

\* "after a set duration this cycles to the next demo mode".
DurationEndsMode == ble = "ready" ~> ble = "off"

\* A beacon is refused only if the "maximum number of devices already
\* connected" has been reached.
RefusedOnlyIfFull == connected_beacons = MaxBeacons => Full(beacon_tbl)
=============================================================================
