--------------------------- MODULE MCProvisioning ----------------------------
(* Constants of the runs of Provisioning: every build of an mbed-os board  *)
(* in partition mode, with and without a source of random numbers, and     *)
(* those of the other two kinds of storage.                                *)
EXTENDS Provisioning

Configurations(pal, modes, numbers) ==
    [pal : pal, partition_mode : modes, partitions : numbers,
     reset : BOOLEAN, auto_format : BOOLEAN]

AllBuilds ==
    Configurations({sotp_fs_config_MbedOS, sotp_non_trng_config_MbedOS}, {TRUE}, {1, 2})
    \cup Configurations({sotp_non_trng_config_MbedOS}, {FALSE}, {1})
    \cup Configurations({sotp_fs_config_linux}, {FALSE}, {1, 2})
=============================================================================
