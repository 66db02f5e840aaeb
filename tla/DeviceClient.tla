---------------------------- MODULE DeviceClient -----------------------------
(***************************************************************************)
(* The client in its surroundings: main_application creates the resources, *)
(* hands them to the library, registers, and installs the callback for the *)
(* renewal of certificates before it enters its loop; the library's thread *)
(* runs the POST handlers of those resources, reports the progress of a    *)
(* download and the end of a renewal.                                      *)
(***************************************************************************)
EXTENDS CloudClient, ResourceTree, UpdateUi

VARIABLES
    client,           \* the pointer `client` of main.cpp is set
    renewal_cb,       \* certificate_renewal_cb is installed
    renewal           \* the last renewal that has ended: was the user told?

hereVars == <<client, renewal_cb, renewal>>
deviceVars == <<clientVars, treeVars, progressVars, hereVars>>

DeviceInit ==
    /\ ClientInit /\ TreeInit /\ ProgressInit
    /\ client = FALSE
    /\ renewal_cb = FALSE
    /\ renewal = "none"

-----------------------------------------------------------------------------
(* The application thread                                                  *)

SavePointer ==
    /\ ~client
    /\ client' = TRUE
    /\ UNCHANGED <<clientVars, treeVars, progressVars, renewal_cb, renewal>>

BuildTree ==
    /\ client
    /\ AddCloudResource \/ AddObjects
    /\ UNCHANGED <<clientVars, progressVars, hereVars>>

Register ==
    /\ offered # <<>>
    /\ RegisterAndConnect
    /\ UNCHANGED <<treeVars, progressVars, hereVars>>

\* After register_and_connect, whatever has become of it.
OnCertificateRenewal ==
    /\ pc = "loop" /\ ~renewal_cb
    /\ renewal_cb' = TRUE
    /\ UNCHANGED <<clientVars, treeVars, progressVars, client, renewal>>

Loop ==
    /\ renewal_cb
    /\ CheckLoop("work") \/ LoopBody
    /\ UNCHANGED <<treeVars, progressVars, hereVars>>

Application == SavePointer \/ BuildTree \/ Register \/ OnCertificateRenewal \/ Loop

-----------------------------------------------------------------------------
(* The event-loop thread                                                   *)

\* A POST is served by the function the tree has for its path, which closes
\* the client through the pointer.
Post ==
    /\ client
    /\ \/ Executes(<<5000, 0, 1>>, "unregister") /\ PostUnregister
       \/ Executes(<<5000, 0, 2>>, "factory_reset") /\ PostFactoryReset
    /\ UNCHANGED <<treeVars, progressVars, hereVars>>

Callback ==
    /\ \/ ClientRegistered \/ ClientError \/ FactoryReset
       \/ ClientUnregistered \/ UnregisteredReturns \/ UpdateRequest
    /\ UNCHANGED <<treeVars, progressVars, hereVars>>

\* The progress handler is set together with the one that authorizes.
Progress ==
    /\ evpc = "idle" /\ fw = "download" /\ authorize_set
    /\ Report
    /\ UNCHANGED <<clientVars, treeVars, hereVars>>

\* certificate_renewal_cb prints the result, if it is installed by then.
certificate_renewal_cb ==
    /\ evpc = "idle" /\ cloud = "registered"
    /\ renewal' = IF renewal_cb THEN "told" ELSE "untold"
    /\ UNCHANGED <<clientVars, treeVars, progressVars, client, renewal_cb>>

DeviceNext ==
    \/ Application
    \/ Post \/ Callback \/ Progress \/ certificate_renewal_cb

(***************************************************************************)
(* As in CloudClient: both threads are scheduled, but nobody has to send a *)
(* request, report progress or renew a certificate.                        *)
(***************************************************************************)
DeviceSpec ==
    /\ DeviceInit /\ [][DeviceNext]_deviceVars
    /\ WF_deviceVars(Application)
    /\ WF_deviceVars(EventLoopProgress /\ UNCHANGED <<treeVars, progressVars, hereVars>>)
=============================================================================
