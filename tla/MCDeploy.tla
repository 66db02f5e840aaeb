------------------------------ MODULE MCDeploy -------------------------------
(* Constants of the run of Deploy: the targets of pal-platform.json, of    *)
(* which three share their only element; two of them are enough.           *)
EXTENDS Deploy

MCTargets == {"K64F_FreeRTOS_mbedtls", "x86_x64_NativeLinux_mbedtls",
              "Yocto_Generic_YoctoLinux_mbedtls"}
MCElements == {"K64F_FreeRTOS", "K64F_mbedtls", "mbedtls"}
MCParts ==
    [t \in MCTargets |->
        IF t = "K64F_FreeRTOS_mbedtls" THEN <<"K64F_FreeRTOS", "K64F_mbedtls">>
        ELSE <<"mbedtls">>]
MCPatched == {"K64F_mbedtls"}
MCWithin(e) == IF e = "K64F_mbedtls" THEN {"K64F_FreeRTOS"} ELSE {}
=============================================================================
