---------------------------- MODULE Provisioning -----------------------------
(***************************************************************************)
(* The start of main_application in developer mode, from its first line to *)
(* the end of application_init_fcc: the trace library, the storage, the    *)
(* factory configurator (fcc), the entropy and the root of trust, the      *)
(* developer flow that writes the credentials, their verification and the  *)
(* automatic recovery.  Any call may fail and the power may fail between   *)
(* any two steps; what is on the card and in the flash is found again by   *)
(* the next start.                                                         *)
(*                                                                         *)
(* The configurator is not part of the repository.  It stores the          *)
(* credentials one after the other, refuses to when there are some, and    *)
(* verifies that all of them, the root of trust and, where the board does  *)
(* not make it itself, the entropy are there.                              *)
(***************************************************************************)
EXTENDS Storage

VARIABLES
    entropy,   \* in the flash: the entropy has been set
    rot,       \* in the flash: the root of trust has been set
    fcc_up,    \* between fcc_init and fcc_finalize
    stage,     \* which part of application_init_fcc runs
    retry      \* mcc_platform_reset_storage has reformatted and tries again

fccVars == <<entropy, rot, fcc_up, stage, retry>>
vars == <<build, cardVars, pc, part, creating, fs, after, faulted, fccVars>>

PowerOn ==
    /\ pc = "trace"
    /\ part = 1
    /\ creating = 0
    /\ fs = {}
    /\ after = "test"
    /\ faulted = FALSE
    /\ fcc_up = FALSE
    /\ stage = "start"
    /\ retry = FALSE

\* A board, or a host, with an empty card and an empty flash.
Init ==
    /\ build \in Builds
    /\ mbr = {}
    /\ formatted = {}
    /\ creds = "none"
    /\ entropy = FALSE
    /\ rot = FALSE
    /\ PowerOn

\* Power fails, or is switched off and on again after the program has ended.
PowerCycle ==
    /\ pc' = "trace" /\ part' = 1 /\ creating' = 0 /\ fs' = {} /\ after' = "test"
    /\ faulted' = FALSE
    /\ fcc_up' = FALSE /\ stage' = "start" /\ retry' = FALSE
    /\ UNCHANGED <<build, cardVars, entropy, rot>>

-----------------------------------------------------------------------------
(* application_init_mbed_trace, mcc_platform_init, mcc_platform_fcc_init,   *)
(* mcc_platform_sotp_init                                                  *)

\* The mutex of the trace may not be created; that is told as 1, from a
\* function that returns bool, and main_application compares it with 0.
TraceInit ==
    /\ pc = "trace"
    /\ \E ok \in BOOLEAN :
          Call(ok) /\ pc' = IF ok THEN "bd_init" ELSE "exit"
    /\ UNCHANGED <<cardVars, part, creating, fs, after, fccVars>>

\* On Linux the mask of signals may not be set; the LED and the button, next,
\* cannot fail.
PlatformInit ==
    /\ pc = "platform_init"
    /\ \E ok \in BOOLEAN :
          /\ Linux \/ ok
          /\ Call(ok)
          /\ pc' = IF ok THEN "fcc_init" ELSE "exit"
    /\ UNCHANGED <<cardVars, part, creating, fs, after, fccVars>>

\* Where mcc_platform_sotp_init starts.
SotpInit == IF build.pal.hw_trng THEN "rot_set" ELSE "entropy_set"

\* A root of trust or an entropy that is already set does not count as a failure.
FccInit ==
    /\ pc = "fcc_init"
    /\ \E ok \in BOOLEAN :
          Call(ok) /\ fcc_up' = ok /\ pc' = IF ok THEN SotpInit ELSE "exit"
    /\ UNCHANGED <<cardVars, part, creating, fs, after, entropy, rot, stage, retry>>

\* Each of the two failures finalizes the configurator.
EntropySet ==
    /\ pc = "entropy_set"
    /\ \E ok \in BOOLEAN :
          /\ Call(ok)
          /\ entropy' = (entropy \/ ok)
          /\ fcc_up' = ok
          /\ pc' = IF ok THEN "rot_set" ELSE "exit"
    /\ UNCHANGED <<cardVars, part, creating, fs, after, rot, stage, retry>>

\* With RESET_STORAGE the first call is followed by a reset.
ResetsFirst == stage = "start" /\ build.reset

\* Mutation of RotSet: nobody looks at the result.
RotSet_Ignored ==
    /\ pc = "rot_set"
    /\ \E ok \in BOOLEAN :
          /\ Call(ok)
          /\ rot' = (rot \/ ok)
          /\ fcc_up' = ok
    /\ pc' = IF ResetsFirst THEN "delete" ELSE "developer_flow"
    /\ stage' = IF ResetsFirst THEN "reset" ELSE stage
    /\ UNCHANGED <<cardVars, part, creating, fs, after, entropy, retry>>

RotSet ==
    /\ pc = "rot_set"
    /\ \E ok \in BOOLEAN :
          /\ Call(ok)
          /\ rot' = (rot \/ ok)
          /\ fcc_up' = ok
          /\ pc' = CASE ~ok -> "exit"
                     [] ok /\ ResetsFirst -> "delete"
                     [] ok /\ ~ResetsFirst -> "developer_flow"
          /\ stage' = IF ok /\ ResetsFirst THEN "reset" ELSE stage
    /\ UNCHANGED <<cardVars, part, creating, fs, after, entropy, retry>>

-----------------------------------------------------------------------------
(* mcc_platform_reset_storage                                              *)

\* What an interrupted deletion may leave of the credentials.
Remains == IF creds = "none" THEN {"none"} ELSE {"none", "some", creds}

DeleteSucceeds(next) ==
    /\ pc = "delete"
    /\ Call(TRUE)
    /\ creds' = "none"
    /\ entropy' = FALSE /\ rot' = FALSE
    /\ pc' = next
    /\ UNCHANGED <<mbr, formatted, part, creating, fs, after, fcc_up, stage, retry>>

\* On mbed-os a first failure is answered with a reformat and, if that can be
\* done, a second attempt.
DeleteFails ==
    /\ pc = "delete"
    /\ Call(FALSE)
    /\ creds' \in Remains
    /\ entropy' \in {entropy, FALSE} /\ rot' \in {rot, FALSE}
    /\ IF retry \/ Linux THEN pc' = "exit" /\ UNCHANGED <<part, after>> ELSE Wipe
    /\ retry' = TRUE
    /\ UNCHANGED <<mbr, formatted, creating, fs, fcc_up, stage>>

\* Mutation of Delete: the root of trust is not set again.
Delete_KeepsGoing == DeleteSucceeds("developer_flow") \/ DeleteFails

Delete == DeleteSucceeds(SotpInit) \/ DeleteFails

-----------------------------------------------------------------------------
(* application_init_verify_cloud_configuration and the recovery            *)

\* Mutations of CredentialsExist: they are taken for complete, or for a
\* reason to recover.
CredentialsExist_Trusts ==
    /\ pc = "developer_flow" /\ creds # "none"
    /\ pc' = "run"
    /\ UNCHANGED <<cardVars, part, creating, fs, after, faulted, fccVars>>

CredentialsExist_Recovers ==
    /\ pc = "developer_flow" /\ creds # "none"
    /\ Wipe
    /\ stage' = "recover"
    /\ UNCHANGED <<cardVars, creating, fs, faulted, entropy, rot, fcc_up, retry>>

\* "Developer credentials already exist, continuing.."
CredentialsExist ==
    /\ pc = "developer_flow" /\ creds # "none"
    /\ pc' = "verify"
    /\ UNCHANGED <<cardVars, part, creating, fs, after, faulted, fccVars>>

\* The developer flow stores them, a part of them first; a failure is printed
\* and the verification is left to find out.
DeveloperFlow ==
    /\ \/ pc = "developer_flow" /\ creds = "none"
       \/ pc = "developer_flow_rest"
    /\ \E ok \in BOOLEAN :
          /\ Call(ok)
          /\ creds' = CASE ~ok -> creds
                        [] ok /\ creds = "none" -> "some"
                        [] ok /\ creds = "some" -> "all"
          /\ pc' = IF ok /\ creds = "none" THEN "developer_flow_rest" ELSE "verify"
    /\ UNCHANGED <<mbr, formatted, part, creating, fs, after, fccVars>>

\* fcc_verify_device_configured_4mbed_cloud
Configured == creds = "all" /\ rot /\ (build.pal.hw_trng \/ entropy)

\* The recovery is tried once.
Verify ==
    /\ pc = "verify"
    /\ \E ok \in BOOLEAN :
          /\ Call(ok)
          /\ IF ok /\ Configured
             THEN pc' = "run" /\ UNCHANGED <<part, after, stage, retry>>
             ELSE IF stage = "recover" \/ ~build.auto_format
             THEN pc' = "exit" /\ UNCHANGED <<part, after, stage, retry>>
             ELSE Wipe /\ stage' = "recover" /\ retry' = FALSE
    /\ UNCHANGED <<cardVars, creating, fs, entropy, rot, fcc_up>>

Next ==
    \/ StorageNext /\ UNCHANGED <<build, fccVars>>
    \/ TraceInit /\ UNCHANGED build
    \/ (PlatformInit \/ FccInit \/ EntropySet) /\ UNCHANGED build
    \/ (RotSet \/ Delete) /\ UNCHANGED build
    \/ (CredentialsExist \/ DeveloperFlow \/ Verify) /\ UNCHANGED build
    \/ PowerCycle

Spec == Init /\ [][Next]_vars

-----------------------------------------------------------------------------
(* Properties                                                              *)

\* Labels at which the configurator is called.
FccCalls == {"entropy_set", "rot_set", "delete", "developer_flow",
             "developer_flow_rest", "verify"}

\* Type invariant of the start-up.
TypeOK ==
    /\ build \in Builds
    /\ mbr \subseteq 1 .. Last /\ formatted \subseteq Known /\ fs \subseteq 1 .. Last
    /\ creds \in {"none", "some", "all"}
    /\ pc \in {"trace", "bd_init", "mount", "test", "partition", "format", "formatting",
               "platform_init", "fcc_init", "run", "exit"} \cup FccCalls
    /\ part \in 1 .. Last /\ creating \in 0 .. Last
    /\ after \in {"test", "done", "wiped"}
    /\ stage \in {"start", "reset", "recover"}
    /\ entropy \in BOOLEAN /\ rot \in BOOLEAN
    /\ fcc_up \in BOOLEAN /\ retry \in BOOLEAN /\ faulted \in BOOLEAN

\* application_init_fcc finds every partition formatted, whatever the start
\* before has left half done, and whichever of them had to be created.
StorageReady ==
    pc \in FccCalls \cup {"platform_init", "fcc_init", "run"} => formatted = 1 .. Last

\* A device that goes on to register has all its credentials, a root of trust
\* and, where it needs one, its entropy, and the configurator is up.
StartedIsProvisioned == pc = "run" => Configured /\ fcc_up

\* The configurator is not called after it has been finalized.
FccOnlyWhileUp == pc \in FccCalls => fcc_up

\* A start in which no call fails succeeds, at whatever point the power failed
\* before and whatever calls failed then: the recovery repairs every state
\* that can be left behind.  There is one exception: a board without
\* partition mode cannot be reformatted, and stays with the part of its
\* credentials that an interrupted start has left.
CleanStartSucceeds ==
    pc = "exit" /\ build.auto_format /\ ~faulted =>
        ~Partitioned /\ ~Linux /\ ~build.reset /\ creds = "some"

\* Complete credentials are given up only in a start in which some call has
\* failed.
CredentialsSurvive ==
    [][creds = "all" /\ ~build.reset /\ ~faulted' => creds' = "all"]_vars

\* "auto-formatting the primary storage if no valid certificates exist": the
\* recovery starts to format only when the credentials are not complete.
RecoversOnlyWithoutCredentials ==
    pc = "format" /\ after = "wiped" /\ stage = "recover" /\ part = 1 /\ ~retry
        => creds # "all"
=============================================================================
