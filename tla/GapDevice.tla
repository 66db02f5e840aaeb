------------------------------ MODULE GapDevice ------------------------------
(***************************************************************************)
(* GAPDevice of main.cpp (FEA_BLE = 1): one scan of the BLE neighbourhood, *)
(* run by the application thread as the body of its loop.  run() starts    *)
(* the BLE stack and then dispatches the event queue until demo_mode_end   *)
(* breaks the dispatch; everything else happens in events of that queue.   *)
(*                                                                         *)
(* Not in the repository, and modelled by how run() and its callbacks use  *)
(* them: the EventQueue of Mbed OS, which has room for QueueSize events,   *)
(* timers included, and drops what does not fit; and the BLE stack, which  *)
(* initialises, reports advertisements and asks to be polled.              *)
(***************************************************************************)
EXTENDS BeaconUpload, Sequences

CONSTANTS
    QueueSize,    \* events an EventQueue has memory for, 32 by default
    WordBits,     \* width of the word the bit is computed in, 32
    ScanIndices,  \* beacon index in an advertisement: any byte
    ScanTemps     \* temperature in an advertisement: any byte

ASSUME GapAssumption ==
    /\ QueueSize \in Nat \ {0}
    /\ WordBits \in Nat \ {0}
    /\ BmpBits <= WordBits
    /\ ScanIndices \subseteq 0 .. 255
    /\ ScanTemps \subseteq 0 .. 255

VARIABLES
    ble,              \* the stack: hasInitialized() is ble = "ready"
    scanning,         \* startScan has succeeded
    signal,           \* what the stack wants to be polled for
    queue,            \* events to be run at once, in order
    blink_timers,     \* call_every(500, blink) still in the queue
    duration_timers,  \* call_in(MODE_DURATION_MS, on_duration_end) pending
    break_requested,  \* break_dispatch has been called
    dropped,          \* an event did not fit, and nobody looked at the result
    strays            \* history: bits set for an index outside the table

gapVars == <<ble, scanning, signal, queue, blink_timers, duration_timers,
             break_requested, dropped>>
dataVars == <<uploadVars, strays>>

GapInit ==
    /\ ble = "off"
    /\ scanning = FALSE
    /\ signal = "none"
    /\ queue = <<>>
    /\ blink_timers = 0
    /\ duration_timers = 0
    /\ break_requested = FALSE
    /\ dropped = FALSE
    /\ strays = {}

\* A timer keeps its place; the event being run gives its place back only
\* when it is over, so the callers below count it.
Occupied == Len(queue) + blink_timers + duration_timers

HasRoom == Occupied < QueueSize

\* _event_queue.call(event) from within the event `rest` follows.
Post(rest, event) ==
    /\ queue' = IF HasRoom THEN Append(rest, event) ELSE rest
    /\ dropped' = (dropped \/ ~HasRoom)

-----------------------------------------------------------------------------
(* run() up to dispatch_forever                                            *)

\* _ble.init refuses: run() returns, and so it does if the stack is up.
RunFails == UNCHANGED <<dataVars, gapVars>>

RunStarts ==
    /\ ble # "ready"
    /\ ble' = "initialising"
    /\ blink_timers' = IF HasRoom THEN blink_timers + 1 ELSE blink_timers
    /\ dropped' = (dropped \/ ~HasRoom)
    /\ UNCHANGED <<dataVars, scanning, signal, queue, duration_timers,
                   break_requested>>

-----------------------------------------------------------------------------
(* The stack asks to be polled: schedule_ble_events                        *)

Signal(why) ==
    /\ signal = "none"
    /\ signal' = why
    /\ Post(queue, "process_events")
    /\ UNCHANGED <<dataVars, ble, scanning, blink_timers, duration_timers,
                   break_requested>>

InitSignal ==
    /\ ble = "initialising"
    /\ \E why \in {"init_done", "init_error"} : Signal(why)

\* Scanning stops by itself when the timeout of the scan parameters expires.
ScanSignal ==
    /\ scanning
    /\ \E why \in {"advertisement", "scan_timeout"} : Signal(why)

Stack == InitSignal \/ ScanSignal

-----------------------------------------------------------------------------
(* The events of the queue                                                 *)

Rest == Tail(queue)

\* processEvents with nothing to report.
NothingToProcess ==
    /\ signal = "none"
    /\ queue' = Rest
    /\ UNCHANGED <<dataVars, ble, scanning, dropped>>

\* on_init_complete: an error is printed, and then nothing is ever posted.
on_init_complete ==
    \/ /\ signal = "init_error"
       /\ ble' = "init_failed"
       /\ queue' = Rest
       /\ UNCHANGED <<dataVars, scanning, dropped>>
    \/ /\ signal = "init_done"
       /\ ble' = "ready"
       /\ Post(Rest, "demo_mode_start")
       /\ UNCHANGED <<dataVars, scanning>>

\* The bit 0x1u << i sets.  A shift by the width of the word or more is
\* undefined: a machine shifts by i modulo the width, or the bit is out of the
\* word, where SetBit loses it.
ShiftedBit(i) == IF i < WordBits THEN {i} ELSE {i % WordBits, WordBits}

\* Once the count is full nothing is added.
AddIfRoom(i, oob) ==
    IF connected_beacons < MaxBeacons
    THEN add_beacon(beacon_tbl, i, oob)
    ELSE [tbl |-> beacon_tbl, ret |-> INVALID_U32]

\* What is set for an index outside the table that is taken for a beacon is a
\* stray.
Valid(i, bit) ==
    /\ data_valid_bmp' = SetBit(data_valid_bmp, bit)
    /\ strays' = IF i \in Idx THEN strays ELSE SetBit(strays, bit)

\* Mutations of on_scan: the result of add_beacon is not looked at, or the
\* beacon is not counted.
on_scan_Unchecked(i, t) ==
    \E oob \in {0, 1}, bit \in ShiftedBit(i) :
        LET r == AddIfRoom(i, oob)
        IN  /\ beacon_tbl' = update_beacon_data(r.tbl, i, t)
            /\ Valid(i, bit)
            /\ connected_beacons' =
                  connected_beacons + (IF r.ret # INVALID_U32 THEN 1 ELSE 0)

on_scan_Uncounted(i, t) ==
    \E oob \in {0, 1}, bit \in ShiftedBit(i) :
        LET r == AddIfRoom(i, oob)
        IN  /\ beacon_tbl' = update_beacon_data(r.tbl, i, t)
            /\ IF r.ret # INVALID_U32
               THEN Valid(i, bit)
               ELSE UNCHANGED <<data_valid_bmp, strays>>
            /\ UNCHANGED connected_beacons

\* The tagged advertisement of beacon i with temperature t.  The index is not
\* compared with anything but in add_beacon, and every advertisement counts as
\* a connected beacon until the count is full.
on_scan(i, t) ==
    \E oob \in {0, 1}, bit \in ShiftedBit(i) :
        LET r == AddIfRoom(i, oob)
        IN  /\ beacon_tbl' = update_beacon_data(r.tbl, i, t)
            /\ IF r.ret # INVALID_U32
               THEN Valid(i, bit) /\ connected_beacons' = connected_beacons + 1
               ELSE UNCHANGED <<data_valid_bmp, strays, connected_beacons>>

\* An advertisement that is too short or has another tag is only counted.
ReportAdvertisement ==
    /\ signal = "advertisement"
    /\ queue' = Rest
    /\ \/ UNCHANGED <<tableVars, strays>>
       \/ \E i \in ScanIndices, t \in ScanTemps : on_scan(i, t)
    /\ UNCHANGED <<resourceVars, upload_i, ble, scanning, dropped>>

\* on_timeout(TIMEOUT_SRC_SCAN) prints; the scan is over.
on_timeout ==
    /\ signal = "scan_timeout"
    /\ queue' = Rest
    /\ scanning' = FALSE
    /\ UNCHANGED <<dataVars, ble, dropped>>

process_events ==
    /\ Head(queue) = "process_events"
    /\ \/ NothingToProcess \/ on_init_complete
       \/ ReportAdvertisement \/ on_timeout
    /\ signal' = "none"
    /\ UNCHANGED <<blink_timers, duration_timers, break_requested>>

\* Posts scan and then the timer that ends the mode.
demo_mode_start ==
    /\ Head(queue) = "demo_mode_start"
    /\ queue' = IF HasRoom THEN Append(Rest, "scan") ELSE Rest
    /\ LET fits == Occupied + (IF HasRoom THEN 1 ELSE 0) < QueueSize
       IN  /\ duration_timers' = duration_timers + (IF fits THEN 1 ELSE 0)
           /\ dropped' = (dropped \/ ~fits)
    /\ UNCHANGED <<dataVars, ble, scanning, signal, blink_timers,
                   break_requested>>

\* setScanParams and startScan may fail, which ends the event early.
scan ==
    /\ Head(queue) = "scan"
    /\ queue' = Rest
    /\ scanning' \in BOOLEAN
    /\ UNCHANGED <<dataVars, ble, signal, blink_timers, duration_timers,
                   break_requested, dropped>>

\* Mutation of on_duration_end: the timer is periodic, like that of blink.
on_duration_end_Periodic ==
    /\ duration_timers > 0
    /\ \A k \in DOMAIN queue : queue[k] # "scan"
    /\ Post(queue, "demo_mode_end")
    /\ UNCHANGED <<dataVars, ble, scanning, signal, blink_timers,
                   duration_timers, break_requested>>

\* The timer is set after scan is posted and is due six seconds later, so
\* scan has been run by then.
on_duration_end ==
    /\ duration_timers > 0
    /\ \A k \in DOMAIN queue : queue[k] # "scan"
    /\ duration_timers' = duration_timers - 1
    /\ Post(queue, "demo_mode_end")
    /\ UNCHANGED <<dataVars, ble, scanning, signal, blink_timers,
                   break_requested>>

\* Mutations of demo_mode_end: the stack is not shut down, or the dispatch is
\* not broken.
demo_mode_end_NoShutdown ==
    /\ Head(queue) = "demo_mode_end"
    /\ queue' = Rest
    /\ break_requested' = TRUE
    /\ UNCHANGED <<dataVars, ble, scanning, signal, blink_timers,
                   duration_timers, dropped>>

demo_mode_end_NoBreak ==
    /\ Head(queue) = "demo_mode_end"
    /\ queue' = Rest
    /\ ble' = "off"
    /\ scanning' = FALSE
    /\ signal' = "none"
    /\ UNCHANGED <<dataVars, blink_timers, duration_timers,
                   break_requested, dropped>>

\* The periodic blink timer is not cancelled.
demo_mode_end ==
    /\ Head(queue) = "demo_mode_end"
    /\ queue' = Rest
    /\ ble' = "off"
    /\ scanning' = FALSE
    /\ signal' = "none"
    /\ break_requested' = TRUE
    /\ UNCHANGED <<dataVars, blink_timers, duration_timers, dropped>>

Event ==
    /\ queue # <<>>
    /\ process_events \/ demo_mode_start \/ scan \/ demo_mode_end

DispatchReturns ==
    /\ break_requested
    /\ break_requested' = FALSE
    /\ UNCHANGED <<dataVars, ble, scanning, signal, queue, blink_timers,
                   duration_timers, dropped>>
=============================================================================
