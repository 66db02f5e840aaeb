------------------------------ MODULE ScanView -------------------------------
(***************************************************************************)
(* What the server may rely on when it watches the resources of a device   *)
(* that scans for beacons, whatever goes on in its event queue:            *)
(*   - a report carries the temperature heard of the beacon last;          *)
(*   - every beacon heard since the last round is reported in the next     *)
(*     one, in the order of the resources, and no other beacon is;         *)
(*   - nothing is heard during a round, and the bitmap that ends it, when  *)
(*     nothing is left to report, names the beacons reported;              *)
(*   - it may also name strays, bits set for an index that is no beacon's, *)
(*     but each of them takes the place of a beacon.                       *)
(* The server itself may overwrite any resource at any time.               *)
(***************************************************************************)
EXTENDS BeaconTable, FiniteSets

CONSTANTS ScanTemps, ServerTemps, ServerBitmaps, StrayBits

VARIABLES
    heard,         \* the last temperature heard of each beacon
    pending,       \* the beacons heard of since their last report
    sending,       \* a round of reports is under way
    strays,        \* bits set for an index that is no beacon's
    temperature,   \* last writer and value of each temperature resource
    validity,      \* the same for the bitmap resource
    reported       \* the beacons of which the device has sent a temperature

deviceVars == <<heard, pending, sending, strays>>
resourceView == <<temperature, validity, reported>>
viewVars == <<deviceVars, resourceView>>

ViewInit ==
    /\ heard = [i \in Idx |-> 0]
    /\ pending = {}
    /\ sending = FALSE
    /\ strays = {}
    /\ temperature = [i \in Idx |-> [by |-> "nobody", val |-> 0]]
    /\ validity = [by |-> "nobody", val |-> {}]
    /\ reported = {}

Beacons == reported \cup pending

HasPlace == Cardinality(Beacons) + Cardinality(strays) < MaxBeacons

Hear(i, t) ==
    /\ ~sending
    /\ i \in Beacons \/ HasPlace
    /\ heard' = [heard EXCEPT ![i] = t]
    /\ pending' = pending \cup {i}
    /\ UNCHANGED <<sending, strays, resourceView>>

Stray(b) ==
    /\ ~sending
    /\ HasPlace
    /\ strays' = strays \cup {b}
    /\ UNCHANGED <<heard, pending, sending, resourceView>>

StartRound ==
    /\ ~sending
    /\ sending' = TRUE
    /\ UNCHANGED <<heard, pending, strays, resourceView>>

Report(i) ==
    /\ sending
    /\ i \in pending
    /\ \A j \in pending : i <= j
    /\ temperature' = [temperature EXCEPT ![i] = [by |-> "device", val |-> heard[i]]]
    /\ pending' = pending \ {i}
    /\ reported' = reported \cup {i}
    /\ UNCHANGED <<heard, sending, strays, validity>>

Announce ==
    /\ sending
    /\ pending = {}
    /\ validity' = [by |-> "device", val |-> reported \cup strays]
    /\ sending' = FALSE
    /\ UNCHANGED <<heard, pending, strays, temperature, reported>>

OverrideTemperature(i, t) ==
    /\ temperature' = [temperature EXCEPT ![i] = [by |-> "server", val |-> t]]
    /\ UNCHANGED <<deviceVars, validity, reported>>

OverrideValidity(b) ==
    /\ validity' = [by |-> "server", val |-> b]
    /\ UNCHANGED <<deviceVars, temperature, reported>>

ViewNext ==
    \/ \E i \in Idx, t \in ScanTemps : Hear(i, t)
    \/ \E b \in StrayBits : Stray(b)
    \/ StartRound
    \/ \E i \in Idx : Report(i)
    \/ Announce
    \/ \E i \in Idx, t \in ServerTemps : OverrideTemperature(i, t)
    \/ \E b \in ServerBitmaps : OverrideValidity(b)

ViewSpec == ViewInit /\ [][ViewNext]_viewVars
=============================================================================
