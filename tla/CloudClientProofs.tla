-------------------------- MODULE CloudClientProofs --------------------------
(***************************************************************************)
(* Proofs about the two threads around SimpleM2MClient, for every number   *)
(* of connection attempts.                                                 *)
(***************************************************************************)
EXTENDS CloudClient, TLAPS

-----------------------------------------------------------------------------
(* The inductive invariant                                                 *)

\* Nothing runs on the event-loop thread before setup() has succeeded, and
\* setup() is called once, with the network up.
BeforeSetup ==
    /\ pc \in {"connect", "setup"} => cloud = "off"
    /\ pc \in {"setup", "mark", "set_client", "set_authorize"} => network = "up"
    /\ network # "up" => cloud = "off"
    /\ cloud = "off" => evpc = "idle"

\* An attempt to connect is made only while there are attempts left.
AttemptsLeft == pc = "connect" => tries < Retries

\* Past the assignment to _register_called the flag is cleared only by the
\* callback of an unregistration; on a device that has a network, that is.
ClearedByClose ==
    pc \in {"set_client", "set_authorize", "loop", "work", "exit"} =>
        register_called \/ cloud = "closed" \/ network # "up"

\* The reset runs after close() and before the callback that reports it.
ResetIsLeaving == evpc = "reset" => cloud = "unregistering"

\* The order of the two assignments in register_and_connect.
ClientBeforeHandler ==
    authorize_set \/ pc = "set_authorize" => update_client

CInv ==
    /\ ClientTypeOK
    /\ BeforeSetup
    /\ AttemptsLeft
    /\ ClearedByClose
    /\ ResetIsLeaving
    /\ ClientBeforeHandler
    /\ ExitReason
    /\ WipedIsLeaving
    /\ NeverNullClient
    /\ RegisteredIsHonest

LEMMA InitCInv == ClientInit => CInv
<1> SUFFICES ASSUME ClientInit PROVE CInv
  OBVIOUS
<1> USE RetriesAssumption DEF ClientInit
<1>1. ClientTypeOK
  <2>1. tries \in 0 .. Retries
    OBVIOUS
  <2>2. /\ setup_ok \in BOOLEAN
        /\ registered \in BOOLEAN /\ register_called \in BOOLEAN
        /\ update_client \in BOOLEAN /\ authorize_set \in BOOLEAN
    BY Zenon
  <2> QED
    BY <2>1, <2>2 DEF ClientTypeOK, RegisterPc
<1>2. BeforeSetup /\ AttemptsLeft /\ ClearedByClose /\ ResetIsLeaving
      /\ ClientBeforeHandler
  BY DEF BeforeSetup, AttemptsLeft, ClearedByClose, ResetIsLeaving,
         ClientBeforeHandler
<1>3. ExitReason /\ WipedIsLeaving /\ NeverNullClient /\ RegisteredIsHonest
  BY DEF ExitReason, WipedIsLeaving, NeverNullClient, RegisteredIsHonest
<1> QED
  BY <1>1, <1>2, <1>3 DEF CInv

-----------------------------------------------------------------------------
(* The application thread                                                  *)

LEMMA RegisterCInv == CInv /\ RegisterAndConnect => CInv'
<1> SUFFICES ASSUME CInv, RegisterAndConnect PROVE CInv'
  OBVIOUS
<1> USE RetriesAssumption
    DEF CInv, ClientTypeOK, RegisterPc, BeforeSetup, AttemptsLeft,
        ClearedByClose, ResetIsLeaving, ClientBeforeHandler, ExitReason,
        WipedIsLeaving, NeverNullClient, RegisteredIsHonest,
        connVars, flagVars, updateVars, libVars
<1>1. CASE NoInterface
  BY <1>1 DEF NoInterface
<1>2. CASE ConnectFails
  BY <1>2 DEF ConnectFails
<1>3. CASE ConnectSucceeds
  BY <1>3 DEF ConnectSucceeds
<1>4. CASE Setup
  BY <1>4 DEF Setup
<1>5. CASE Mark
  BY <1>5 DEF Mark
<1>6. CASE SetClient
  BY <1>6 DEF SetClient
<1>7. CASE SetAuthorize
  BY <1>7 DEF SetAuthorize
<1> QED
  BY <1>1, <1>2, <1>3, <1>4, <1>5, <1>6, <1>7 DEF RegisterAndConnect

LEMMA LoopCInv == CInv /\ (CheckLoop("work") \/ LoopBody) => CInv'
<1> SUFFICES ASSUME CInv, CheckLoop("work") \/ LoopBody PROVE CInv'
  OBVIOUS
<1>1. /\ pc \in {"loop", "work"}
      /\ pc' \in {"loop", "work", "exit"}
      /\ pc' = "exit" => ~register_called
      /\ UNCHANGED clientData
  BY DEF CheckLoop, LoopBody, Goto
<1>2. ClientTypeOK'
  BY <1>1 DEF CInv, ClientTypeOK, clientData, connVars, flagVars, updateVars, libVars
<1>3. /\ BeforeSetup' /\ AttemptsLeft' /\ ClearedByClose' /\ ResetIsLeaving'
      /\ ClientBeforeHandler' /\ ExitReason'
  BY <1>1
     DEF CInv, BeforeSetup, AttemptsLeft, ClearedByClose, ResetIsLeaving,
         ClientBeforeHandler, ExitReason,
         clientData, connVars, flagVars, updateVars, libVars
<1>4. WipedIsLeaving' /\ NeverNullClient' /\ RegisteredIsHonest'
  BY <1>1
     DEF CInv, WipedIsLeaving, NeverNullClient, RegisteredIsHonest,
         clientData, connVars, flagVars, updateVars, libVars
<1> QED
  BY <1>2, <1>3, <1>4 DEF CInv

-----------------------------------------------------------------------------
(* The event-loop thread                                                   *)

LEMMA EventLoopCInv == CInv /\ EventLoop => CInv'
<1> SUFFICES ASSUME CInv, EventLoop PROVE CInv'
  OBVIOUS
<1> USE DEF CInv, ClientTypeOK, RegisterPc, BeforeSetup, AttemptsLeft,
            ClearedByClose, ResetIsLeaving, ClientBeforeHandler, ExitReason,
            WipedIsLeaving, NeverNullClient, RegisteredIsHonest,
            connVars, flagVars, updateVars, libVars
<1>1. CASE ClientRegistered
  BY <1>1 DEF ClientRegistered
<1>2. CASE ClientError
  BY <1>2 DEF ClientError
<1>3. CASE PostUnregister
  BY <1>3 DEF PostUnregister, close
<1>4. CASE PostFactoryReset
  BY <1>4 DEF PostFactoryReset, close
<1>5. CASE FactoryReset
  BY <1>5 DEF FactoryReset
<1>6. CASE ClientUnregistered
  BY <1>6 DEF ClientUnregistered
<1>7. CASE UnregisteredReturns
  BY <1>7 DEF UnregisteredReturns
<1>8. CASE UpdateRequest
  BY <1>8 DEF UpdateRequest, NextFw
<1> QED
  BY <1>1, <1>2, <1>3, <1>4, <1>5, <1>6, <1>7, <1>8 DEF EventLoop

LEMMA NextCInv == CInv /\ [ClientNext]_clientVars => CInv'
<1> SUFFICES ASSUME CInv, [ClientNext]_clientVars PROVE CInv'
  OBVIOUS
<1>1. CASE ClientNext
  BY <1>1, RegisterCInv, LoopCInv, EventLoopCInv DEF ClientNext
<1>2. CASE UNCHANGED clientVars
  BY <1>2
     DEF CInv, ClientTypeOK, BeforeSetup, AttemptsLeft, ClearedByClose,
         ResetIsLeaving, ClientBeforeHandler, ExitReason, WipedIsLeaving,
         NeverNullClient, RegisteredIsHonest,
         clientVars, clientData, connVars, flagVars, updateVars, libVars
<1> QED
  BY <1>1, <1>2

-----------------------------------------------------------------------------
(* The results                                                             *)

\* Every state the two threads can reach has the invariant above.
THEOREM ClientInvariance == ClientSpec => []CInv
<1> QED
  BY InitCInv, NextCInv, PTL DEF ClientSpec

\* The flags, the counter of connection attempts and the states of the two
\* threads stay in their types.
THEOREM ClientTypeCorrect == ClientSpec => []ClientTypeOK
<1>1. CInv => ClientTypeOK
  BY DEF CInv
<1> QED
  BY <1>1, ClientInvariance, PTL

\* main_application leaves its loop only after client_unregistered has run, or
\* because register_and_connect found no network.
THEOREM ExitHasReason == ClientSpec => []ExitReason
<1>1. CInv => ExitReason
  BY DEF CInv
<1> QED
  BY <1>1, ClientInvariance, PTL

\* The handler of 5000/0/2 is not in kcm_factory_reset any more when
\* main_application returns and its client is destroyed.
THEOREM ResetIsOverAtExit == ClientSpec => []ResetBeforeExit
<1>1. CInv => ResetBeforeExit
  BY DEF CInv, BeforeSetup, ResetIsLeaving, ExitReason, ResetBeforeExit
<1> QED
  BY <1>1, ClientInvariance, PTL

\* kcm_factory_reset is run only on a device that is being, or has been,
\* unregistered, and that does not register again.
THEOREM ResetOnlyWhenLeaving == ClientSpec => []WipedIsLeaving
<1>1. CInv => WipedIsLeaving
  BY DEF CInv
<1> QED
  BY <1>1, ClientInvariance, PTL

\* update_authorize finds _client set whenever it is called.
THEOREM ClientIsSet == ClientSpec => []NeverNullClient
<1>1. CInv => NeverNullClient
  BY DEF CInv
<1> QED
  BY <1>1, ClientInvariance, PTL

\* _registered is never left set on a device that is unregistered.
THEOREM RegisteredHonest == ClientSpec => []RegisteredIsHonest
<1>1. CInv => RegisteredIsHonest
  BY DEF CInv
<1> QED
  BY <1>1, ClientInvariance, PTL

-----------------------------------------------------------------------------
(* What keeps a device without a registration in the loop                  *)

\* The application goes round its loop although nothing is registered or
\* registering and nothing ever will be.
Spinning ==
    /\ PastMark /\ pc # "exit" /\ register_called
    /\ cloud \in {"off", "closed"}

\* _register_called is set by one assignment only, and the library has been
\* started exactly if setup() succeeded.
MarkedOnce ==
    /\ ~PastMark => ~register_called
    /\ setup_ok <=> cloud # "off"

SpinInv == CInv /\ MarkedOnce

LEMMA InitSpinInv == ClientInit => SpinInv
BY InitCInv DEF ClientInit, SpinInv, MarkedOnce

LEMMA NextSpinInv == SpinInv /\ [ClientNext]_clientVars => SpinInv'
<1> SUFFICES ASSUME SpinInv, [ClientNext]_clientVars PROVE MarkedOnce'
  BY NextCInv DEF SpinInv
<1> USE DEF SpinInv, MarkedOnce, PastMark
<1>1. CASE RegisterAndConnect
  BY <1>1 DEF CInv, BeforeSetup, RegisterAndConnect, NoInterface, ConnectFails,
              ConnectSucceeds, Setup, Mark, SetClient, SetAuthorize,
              flagVars, libVars, connVars
<1>2. CASE CheckLoop("work") \/ LoopBody \/ UNCHANGED clientVars
  BY <1>2 DEF CheckLoop, LoopBody, Goto, clientVars, clientData, flagVars, libVars,
              connVars
<1>3. CASE EventLoop
  <2>1. pc' = pc /\ setup_ok' = setup_ok /\ (register_called' => register_called)
    BY <1>3 DEF EventLoop, ClientRegistered, ClientError, PostUnregister,
                PostFactoryReset, FactoryReset, ClientUnregistered,
                UnregisteredReturns, UpdateRequest, connVars, flagVars
  <2>2. cloud' = "off" <=> cloud = "off"
    BY <1>3 DEF EventLoop, ClientRegistered, ClientError, PostUnregister,
                PostFactoryReset, FactoryReset, ClientUnregistered,
                UnregisteredReturns, UpdateRequest, close, libVars
  <2> QED
    BY <2>1, <2>2
<1> QED
  BY <1>1, <1>2, <1>3 DEF ClientNext

LEMMA SpinInvariance == ClientSpec => []SpinInv
BY InitSpinInv, NextSpinInv, PTL DEF ClientSpec

\* Once the application goes round for nothing it does so for good.
THEOREM SpinsForGood == ClientSpec => [][Spinning => Spinning']_clientVars
<1>1. Spinning /\ [ClientNext]_clientVars => Spinning'
  <2> SUFFICES ASSUME Spinning, [ClientNext]_clientVars PROVE Spinning'
    OBVIOUS
  <2> USE DEF Spinning, PastMark
  <2>1. CASE RegisterAndConnect
    BY <2>1 DEF RegisterAndConnect, NoInterface, ConnectFails, ConnectSucceeds,
                Setup, Mark, SetClient, SetAuthorize, flagVars, libVars
  <2>2. CASE CheckLoop("work") \/ LoopBody \/ UNCHANGED clientVars
    BY <2>2 DEF CheckLoop, LoopBody, Goto, clientVars, clientData, flagVars, libVars
  <2>3. CASE EventLoop
    BY <2>3 DEF EventLoop, ClientRegistered, ClientError, PostUnregister,
                PostFactoryReset, FactoryReset, ClientUnregistered,
                UnregisteredReturns, UpdateRequest, close, flagVars, libVars
  <2> QED
    BY <2>1, <2>2, <2>3 DEF ClientNext
<1> QED
  BY <1>1, PTL DEF ClientSpec

\* There are two ways to get there, both through the assignment to
\* _register_called that call_register makes whatever setup() returned: setup()
\* had failed, or client_unregistered had already run.  On every other path a
\* device that is unregistered leaves the loop.
THEOREM SpinsOnlyFromMark ==
    ClientSpec =>
        [][~Spinning /\ Spinning' => Mark /\ (~setup_ok \/ cloud = "closed")]_clientVars
<1>1. SpinInv /\ [ClientNext]_clientVars =>
          (~Spinning /\ Spinning' => Mark /\ (~setup_ok \/ cloud = "closed"))
  <2> SUFFICES ASSUME SpinInv, [ClientNext]_clientVars, ~Spinning, Spinning'
               PROVE  Mark /\ (~setup_ok \/ cloud = "closed")
    OBVIOUS
  <2> USE DEF Spinning, PastMark, SpinInv, MarkedOnce
  <2>1. CASE RegisterAndConnect
    <3>1. CASE Mark
      BY <3>1 DEF Mark, libVars
    <3>2. CASE ~Mark
      BY <2>1, <3>2 DEF RegisterAndConnect, NoInterface, ConnectFails,
                        ConnectSucceeds, Setup, SetClient, SetAuthorize, flagVars,
                        libVars
    <3> QED
      BY <3>1, <3>2
  <2>2. CASE CheckLoop("work") \/ LoopBody \/ UNCHANGED clientVars
    BY <2>2 DEF CheckLoop, LoopBody, Goto, clientVars, clientData, flagVars, libVars
  <2>3. CASE EventLoop
    BY <2>3 DEF EventLoop, ClientRegistered, ClientError, PostUnregister,
                PostFactoryReset, FactoryReset, ClientUnregistered,
                UnregisteredReturns, UpdateRequest, close, flagVars, libVars
  <2> QED
    BY <2>1, <2>2, <2>3 DEF ClientNext
<1> QED
  BY <1>1, SpinInvariance, PTL DEF ClientSpec
=============================================================================
