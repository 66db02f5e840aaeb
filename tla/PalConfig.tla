------------------------------ MODULE PalConfig -------------------------------
(***************************************************************************)
(* The headers a build can name as PAL_USER_DEFINED_CONFIGURATION.  What   *)
(* the start-up depends on: the system below it, and whether the board has *)
(* a hardware source of random numbers (PAL_USE_HW_TRNG).                  *)
(***************************************************************************)

Header == [os : {"mbed", "linux"}, hw_trng : BOOLEAN]

sotp_fs_config_MbedOS == [os |-> "mbed", hw_trng |-> TRUE]
sotp_fs_config_MbedOS_legacy == [os |-> "mbed", hw_trng |-> TRUE]
sotp_fs_config_ARIA_MbedOS == [os |-> "mbed", hw_trng |-> TRUE]
sotp_non_trng_config_MbedOS == [os |-> "mbed", hw_trng |-> FALSE]
sotp_fs_config_linux == [os |-> "linux", hw_trng |-> TRUE]
sotp_fs_config_ARIA_linux == [os |-> "linux", hw_trng |-> TRUE]
=============================================================================
