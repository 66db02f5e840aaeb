------------------------------ MODULE CloudView ------------------------------
(***************************************************************************)
(* What the server may rely on when it watches the resources of a device   *)
(* that runs the default build, without knowing how the device works:      *)
(*   - beacons appear in the order of their resources, none is skipped;    *)
(*   - the first temperature of a beacon is the one after the placeholder, *)
(*     and each later one is the successor of the one before: no sample is *)
(*     lost and none comes back (writing a value once more changes nothing *)
(*     and is not seen);                                                   *)
(*   - a bitmap from the device names exactly the beacons it has reported. *)
(* The server itself may overwrite any resource at any time.               *)
(***************************************************************************)
EXTENDS BeaconTable

CONSTANTS ServerTemps, ServerBitmaps

VARIABLES
    temperature,   \* last writer and value of each temperature resource
    validity,      \* the same for the bitmap resource
    reported       \* the beacons of which the device has sent a temperature

viewVars == <<temperature, validity, reported>>

ViewInit ==
    /\ temperature = [i \in Idx |-> [by |-> "nobody", val |-> 0]]
    /\ validity = [by |-> "nobody", val |-> {}]
    /\ reported = {}

Report(i, t) ==
    /\ \A j \in Idx : j < i => j \in reported
    /\ i \notin reported => t = NextDummyTemp(DummyTemp)
    /\ i \in reported /\ temperature[i].by = "device"
           => t = NextDummyTemp(temperature[i].val)
    /\ temperature' = [temperature EXCEPT ![i] = [by |-> "device", val |-> t]]
    /\ reported' = reported \cup {i}
    /\ UNCHANGED validity

Announce ==
    /\ validity' = [by |-> "device", val |-> reported]
    /\ UNCHANGED <<temperature, reported>>

OverrideTemperature(i, t) ==
    /\ temperature' = [temperature EXCEPT ![i] = [by |-> "server", val |-> t]]
    /\ UNCHANGED <<validity, reported>>

OverrideValidity(b) ==
    /\ validity' = [by |-> "server", val |-> b]
    /\ UNCHANGED <<temperature, reported>>

ViewNext ==
    \/ \E i \in Idx, t \in DummyTemp .. DummyLimit : Report(i, t)
    \/ Announce
    \/ \E i \in Idx, t \in ServerTemps : OverrideTemperature(i, t)
    \/ \E b \in ServerBitmaps : OverrideValidity(b)

ViewSpec == ViewInit /\ [][ViewNext]_viewVars
=============================================================================
