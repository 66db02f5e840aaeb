---------------------------- MODULE MCDeviceClient ----------------------------
(* Constants of the run of DeviceClient: an image whose size times 100     *)
(* does not fit the scaled uint32_t, and one with less than 100 bytes.     *)
EXTENDS DeviceClient

MCTotals == {70, 1000}
MCReceived == {0, 1, 35, 69, 70, 500, 999, 1000}
=============================================================================
