--------------------------- MODULE MCBeaconTableAPI --------------------------
(* Constants of the runs of BeaconTableAPI: every index of the table and   *)
(* the one the unit test uses, MAX_CONNECTED_BEACONS + 1.                  *)
EXTENDS BeaconTableAPI

MCIndices == Idx \cup {MaxBeacons + 1}
=============================================================================
