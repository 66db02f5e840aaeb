----------------------------- MODULE CloudClient -----------------------------
(***************************************************************************)
(* SimpleM2MClient (source/simplem2mclient.h) between the two threads that *)
(* use it.  The application thread runs register_and_connect and then the  *)
(* loop of main_application.  The event-loop thread of the cloud client    *)
(* library runs the callbacks SimpleM2MClient registers, the POST handlers *)
(* of main.cpp and the update authorisation of update_ui_example.cpp.      *)
(*                                                                         *)
(* The library itself is not part of the repository.  It appears here as   *)
(* `cloud`, the state of the registration with the server, and as the      *)
(* right to start one callback at a time on its thread (`evpc`).           *)
(***************************************************************************)
EXTENDS Integers

CONSTANT Retries   \* MCC_PLATFORM_CONNECTION_RETRY_COUNT, 3 by default

ASSUME RetriesAssumption == Retries \in Nat \ {0}

VARIABLES
    pc,                \* where the application thread is
    network,           \* the interface, as mcc_platform_init_connection left it
    tries,             \* failed connect() calls of that function
    setup_ok,          \* the local `setup` of call_register
    registered,        \* _registered
    register_called,   \* _register_called
    update_client,     \* _client of update_ui_example.cpp is set
    authorize_set,     \* the authorize handler is installed
    cloud,             \* registration state kept by the library
    evpc,              \* what the event-loop thread is running
    credentials,       \* what is in the key store: kcm_factory_reset wipes it
    fw                 \* how far a firmware update has got

connVars == <<network, tries, setup_ok>>
flagVars == <<registered, register_called>>
updateVars == <<update_client, authorize_set, fw>>
libVars == <<cloud, evpc, credentials>>

\* Everything but the program counter of the application thread.
clientData == <<connVars, flagVars, updateVars, libVars>>
clientVars == <<pc, clientData>>

\* Labels of register_and_connect; "work" stands for the body of the loop.
RegisterPc == {"connect", "setup", "mark", "set_client", "set_authorize"}

ClientInit ==
    /\ pc = "connect"
    /\ network = "unknown"
    /\ tries = 0
    /\ setup_ok = FALSE
    /\ registered = FALSE
    /\ register_called = FALSE
    /\ update_client = FALSE
    /\ authorize_set = FALSE
    /\ cloud = "off"
    /\ evpc = "idle"
    /\ credentials = "present"
    /\ fw = "none"

-----------------------------------------------------------------------------
(* The application thread: register_and_connect                            *)

\* No network interface: call_register gives up, and its result is ignored.
NoInterface ==
    /\ pc = "connect" /\ network = "unknown"
    /\ network' = "missing"
    /\ pc' = "loop"
    /\ UNCHANGED <<tries, setup_ok, flagVars, updateVars, libVars>>

\* Mutation of ConnectFails: no limit on the number of attempts.
ConnectFails_Forever ==
    /\ pc = "connect"
    /\ network' = "down"
    /\ tries' = tries + 1
    /\ UNCHANGED <<pc, setup_ok, flagVars, updateVars, libVars>>

ConnectFails ==
    /\ pc = "connect"
    /\ network' = "down"
    /\ tries' = tries + 1
    /\ pc' = IF tries' < Retries THEN "connect" ELSE "loop"
    /\ UNCHANGED <<setup_ok, flagVars, updateVars, libVars>>

ConnectSucceeds ==
    /\ pc = "connect"
    /\ network' = "up"
    /\ pc' = "setup"
    /\ UNCHANGED <<tries, setup_ok, flagVars, updateVars, libVars>>

\* setup() succeeds or fails at once; success starts the registration.
Setup ==
    /\ pc = "setup"
    /\ \E ok \in BOOLEAN :
          /\ setup_ok' = ok
          /\ cloud' = IF ok THEN "registering" ELSE cloud
    /\ pc' = "mark"
    /\ UNCHANGED <<network, tries, flagVars, updateVars, evpc, credentials>>

\* Mutation of Mark: the flag is set only if the device is registered by now.
Mark_IfRegistered ==
    /\ pc = "mark"
    /\ register_called' = registered
    /\ pc' = IF setup_ok THEN "set_client" ELSE "loop"
    /\ UNCHANGED <<connVars, registered, updateVars, libVars>>

\* _register_called is set after setup() has returned, whatever it returned.
Mark ==
    /\ pc = "mark"
    /\ register_called' = TRUE
    /\ pc' = IF setup_ok THEN "set_client" ELSE "loop"
    /\ UNCHANGED <<connVars, registered, updateVars, libVars>>

SetClient ==
    /\ pc = "set_client"
    /\ update_client' = TRUE
    /\ pc' = "set_authorize"
    /\ UNCHANGED <<connVars, flagVars, authorize_set, fw, libVars>>

SetAuthorize ==
    /\ pc = "set_authorize"
    /\ authorize_set' = TRUE
    /\ pc' = "loop"
    /\ UNCHANGED <<connVars, flagVars, update_client, fw, libVars>>

RegisterAndConnect ==
    \/ NoInterface \/ ConnectFails \/ ConnectSucceeds
    \/ Setup \/ Mark \/ SetClient \/ SetAuthorize

\* A step of the application thread that leaves the client alone.
Goto(from, to) == pc = from /\ pc' = to /\ UNCHANGED clientData

\* Mutation of CheckLoop: the loop looks at _registered.
CheckLoop_Registered(work) == Goto("loop", IF registered THEN work ELSE "exit")

(* The application thread: the condition of the loop.  `work` is the label *)
(* of the first statement of the body.                                     *)
CheckLoop(work) == Goto("loop", IF register_called THEN work ELSE "exit")

-----------------------------------------------------------------------------
(* The event-loop thread                                                   *)

ClientRegistered ==
    /\ evpc = "idle" /\ cloud = "registering"
    /\ cloud' = "registered"
    /\ registered' = TRUE
    /\ UNCHANGED <<pc, connVars, register_called, updateVars, evpc, credentials>>

\* A network error drops the registration and the library starts again;
\* error() only prints, so the flags of the application stay as they are.
ClientError ==
    /\ evpc = "idle" /\ cloud = "registered"
    /\ cloud' = "registering"
    /\ UNCHANGED <<pc, connVars, flagVars, updateVars, evpc, credentials>>

\* SimpleM2MClient::close: the library starts to unregister.
close == cloud' = "unregistering"

\* POST to 5000/0/1 and to 5000/0/2.  A request can only come in while the
\* device is registered; the second handler has more to do after close().
PostUnregister ==
    /\ evpc = "idle" /\ cloud = "registered"
    /\ close
    /\ UNCHANGED <<pc, connVars, flagVars, updateVars, evpc, credentials>>

\* Mutation of PostFactoryReset: the handler does not close the client.
PostFactoryReset_NoClose ==
    /\ evpc = "idle" /\ cloud = "registered"
    /\ evpc' = "reset"
    /\ UNCHANGED <<pc, connVars, flagVars, updateVars, cloud, credentials>>

PostFactoryReset ==
    /\ evpc = "idle" /\ cloud = "registered"
    /\ close
    /\ evpc' = "reset"
    /\ UNCHANGED <<pc, connVars, flagVars, updateVars, credentials>>

\* kcm_factory_reset may fail, which is printed and otherwise ignored.
FactoryReset ==
    /\ evpc = "reset"
    /\ evpc' = "idle"
    /\ credentials' \in {"wiped", "reset_failed"}
    /\ UNCHANGED <<pc, connVars, flagVars, updateVars, cloud>>

\* Mutations of ClientUnregistered: one of the two flags is not cleared.
ClientUnregistered_KeepsRegistered ==
    /\ evpc = "idle" /\ cloud = "unregistering"
    /\ cloud' = "closed"
    /\ register_called' = FALSE
    /\ evpc' = "unregistered_cb"
    /\ UNCHANGED <<pc, connVars, registered, updateVars, credentials>>

ClientUnregistered_KeepsCalled ==
    /\ evpc = "idle" /\ cloud = "unregistering"
    /\ cloud' = "closed"
    /\ registered' = FALSE
    /\ evpc' = "unregistered_cb"
    /\ UNCHANGED <<pc, connVars, register_called, updateVars, credentials>>

\* client_unregistered clears both flags, then prints and returns into the
\* library.  The application thread sees the flag before the callback is over.
ClientUnregistered ==
    /\ evpc = "idle" /\ cloud = "unregistering"
    /\ cloud' = "closed"
    /\ registered' = FALSE
    /\ register_called' = FALSE
    /\ evpc' = "unregistered_cb"
    /\ UNCHANGED <<pc, connVars, updateVars, credentials>>

UnregisteredReturns ==
    /\ evpc = "unregistered_cb"
    /\ evpc' = "idle"
    /\ UNCHANGED <<pc, connVars, flagVars, updateVars, cloud, credentials>>

\* The server offers a firmware image.  With no handler installed the update
\* proceeds by itself; with one, update_authorize calls through _client.
NextFw == [none |-> "download", download |-> "install"]

UpdateRequest ==
    /\ evpc = "idle" /\ cloud = "registered" /\ fw \in DOMAIN NextFw
    /\ fw' = IF authorize_set /\ ~update_client THEN "null_client"
                                                ELSE NextFw[fw]
    /\ UNCHANGED <<pc, connVars, flagVars, update_client, authorize_set, libVars>>

EventLoop ==
    \/ ClientRegistered \/ ClientError
    \/ PostUnregister \/ PostFactoryReset \/ FactoryReset
    \/ ClientUnregistered \/ UnregisteredReturns
    \/ UpdateRequest

\* The steps the library's thread takes without anybody asking for them.
EventLoopProgress ==
    ClientRegistered \/ FactoryReset \/ ClientUnregistered \/ UnregisteredReturns

-----------------------------------------------------------------------------
(* The client by itself: the body of the application's loop is one step.   *)

LoopBody == Goto("work", "loop")

ClientNext ==
    RegisterAndConnect \/ CheckLoop("work") \/ LoopBody \/ EventLoop

ClientFairness ==
    /\ WF_clientVars(RegisterAndConnect \/ CheckLoop("work") \/ LoopBody)
    /\ WF_clientVars(EventLoopProgress)

ClientSpec == ClientInit /\ [][ClientNext]_clientVars
FairClientSpec == ClientSpec /\ ClientFairness

-----------------------------------------------------------------------------
(* Properties                                                              *)

\* Type invariant of the client.
ClientTypeOK ==
    /\ pc \in RegisterPc \cup {"loop", "work", "exit"}
    /\ network \in {"unknown", "missing", "down", "up"}
    /\ tries \in 0 .. Retries
    /\ setup_ok \in BOOLEAN
    /\ registered \in BOOLEAN /\ register_called \in BOOLEAN
    /\ update_client \in BOOLEAN /\ authorize_set \in BOOLEAN
    /\ cloud \in {"off", "registering", "registered", "unregistering", "closed"}
    /\ evpc \in {"idle", "reset", "unregistered_cb"}
    /\ credentials \in {"present", "wiped", "reset_failed"}
    /\ fw \in {"none", "download", "install", "null_client"}

\* The program ends for one of two reasons: the device has been unregistered,
\* or there never was a network.  In particular it does not end because the
\* loop looked at _register_called before call_register had set it.
ExitReason == pc = "exit" => cloud = "closed" \/ network # "up"

\* When main_application returns, the client object and with it `client` are
\* gone.  The factory reset, which the POST handler starts only after it has
\* asked the client to close, is over by then.
ResetBeforeExit == pc = "exit" => evpc # "reset"

\* A wiped key store is never left with a device that is still registered or
\* registering: close() comes first.
WipedIsLeaving == credentials # "present" => cloud \in {"unregistering", "closed"}

\* update_authorize is never run with a null _client.
NeverNullClient == fw # "null_client"

\* _registered is not left set on a device that has been unregistered, nor set
\* on one that has never tried to register.
RegisteredIsHonest ==
    registered => cloud \in {"registering", "registered", "unregistering"}

\* A POST to unregister or to reset that finds the application past the
\* assignment to _register_called ends the program.
PastMark == pc \notin {"connect", "setup", "mark"}

UnregisterEnds == cloud = "unregistering" /\ PastMark ~> pc = "exit"

\* The comment above the loop of main_application: it goes round while the
\* client is registering or registered.  At least the registration has been
\* started.
LoopsOnlyIfStarted == pc = "work" => cloud # "off"

\* "Client unregistered - Exiting application": a client that has been
\* unregistered ends the application.
UnregisteredExits == cloud = "closed" ~> pc = "exit"
=============================================================================
