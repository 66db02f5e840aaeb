---------------------------- MODULE MCCloudClient ----------------------------
(* The client by itself; the constants are in the configurations.          *)
EXTENDS CloudClient
=============================================================================
