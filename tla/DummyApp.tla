------------------------------ MODULE DummyApp -------------------------------
(***************************************************************************)
(* The default build (FEA_BLE = 0): main_application with dummy beacons.   *)
(* Once it has called register_and_connect the application thread loops:   *)
(* add a beacon while there is room, give one beacon a new temperature,    *)
(* upload, wait.  The event-loop thread of CloudClient runs beside it, and *)
(* the server may write the resources.                                     *)
(***************************************************************************)
EXTENDS BeaconUpload

VARIABLE dummy_update_idx

vars == <<clientVars, uploadVars, dummy_update_idx>>

\* Labels of the body of the loop, in the order the thread passes them.
BodyPc == {"add", "update", "upload", "bitmap", "wait"}

Init == ClientInit /\ UploadInit /\ dummy_update_idx = 0

-----------------------------------------------------------------------------

\* Mutation of AddDummy: the last entry of the table is left free.
AddDummy_OneShort ==
    /\ Goto("add", "update")
    /\ LET r == add_dummy_beacon(beacon_tbl)
       IN  IF connected_beacons < MaxBeacons - 1 /\ r.ret # INVALID_U32
           THEN /\ beacon_tbl' = r.tbl
                /\ data_valid_bmp' = SetBit(data_valid_bmp, r.ret)
                /\ connected_beacons' = connected_beacons + 1
           ELSE UNCHANGED tableVars
    /\ UNCHANGED <<resourceVars, upload_i, dummy_update_idx>>

\* A new dummy beacon, its validity bit and the count, while there is room.
AddDummy ==
    /\ Goto("add", "update")
    /\ LET r == add_dummy_beacon(beacon_tbl)
       IN  IF connected_beacons < MaxBeacons /\ r.ret # INVALID_U32
           THEN /\ beacon_tbl' = r.tbl
                /\ data_valid_bmp' = SetBit(data_valid_bmp, r.ret)
                /\ connected_beacons' = connected_beacons + 1
           ELSE UNCHANGED tableVars
    /\ UNCHANGED <<resourceVars, upload_i, dummy_update_idx>>

\* Mutations of UpdateDummy: the index runs over the end of the table, or
\* stays at its last entry.
UpdateDummy_Overruns ==
    /\ Goto("update", "upload")
    /\ beacon_tbl' = dummy_update_beacon_data(beacon_tbl, dummy_update_idx)
    /\ dummy_update_idx' =
          IF dummy_update_idx < MaxBeacons THEN dummy_update_idx + 1 ELSE 0
    /\ UNCHANGED <<connected_beacons, data_valid_bmp, resourceVars, upload_i>>

UpdateDummy_Sticks ==
    /\ Goto("update", "upload")
    /\ beacon_tbl' = dummy_update_beacon_data(beacon_tbl, dummy_update_idx)
    /\ dummy_update_idx' = IF dummy_update_idx < MaxBeacons - 1
                           THEN dummy_update_idx + 1 ELSE dummy_update_idx
    /\ UNCHANGED <<connected_beacons, data_valid_bmp, resourceVars, upload_i>>

UpdateDummy ==
    /\ Goto("update", "upload")
    /\ beacon_tbl' = dummy_update_beacon_data(beacon_tbl, dummy_update_idx)
    /\ dummy_update_idx' =
          IF dummy_update_idx < MaxBeacons - 1 THEN dummy_update_idx + 1 ELSE 0
    /\ UNCHANGED <<connected_beacons, data_valid_bmp, resourceVars, upload_i>>

Register == RegisterAndConnect /\ UNCHANGED <<uploadVars, dummy_update_idx>>

\* Mutation of Loop: the condition of the loop is not looked at.
Loop_Forever == Goto("loop", "add") /\ UNCHANGED <<uploadVars, dummy_update_idx>>

Loop == CheckLoop("add") /\ UNCHANGED <<uploadVars, dummy_update_idx>>

Finish == UploadAndWait /\ UNCHANGED dummy_update_idx

Application == Register \/ Loop \/ AddDummy \/ UpdateDummy \/ Finish

Server == ServerPut /\ UNCHANGED dummy_update_idx

Callback == EventLoop /\ UNCHANGED <<uploadVars, dummy_update_idx>>

Next == Application \/ Callback \/ Server

CallbackProgress == EventLoopProgress /\ UNCHANGED <<uploadVars, dummy_update_idx>>

\* Both threads are scheduled.  The network may still fail for ever and the
\* server need never ask for anything.
Fairness == WF_vars(Application) /\ WF_vars(CallbackProgress)

Spec == Init /\ [][Next]_vars
FairSpec == Spec /\ Fairness

-----------------------------------------------------------------------------
(* Properties                                                              *)

\* Type invariant: the application thread, and the data it works on.
TypeOK ==
    /\ pc \in RegisterPc \cup BodyPc \cup {"loop", "exit"}
    /\ UploadTypeOK
    /\ data_valid_bmp \in SUBSET Idx
    /\ dummy_update_idx \in Idx

\* The three records main.cpp and ble_beacon.c keep of the same fact agree:
\* element_used in the table, the bits of data_valid_bmp and the count
\* connected_beacons, and the used entries are the first ones of the table.
TableAgrees ==
    \A i \in Idx :
        /\ Used(beacon_tbl, i) <=> i < connected_beacons
        /\ Used(beacon_tbl, i) <=> i \in data_valid_bmp

\* dummy_update_beacon_data is never called with the index of an unused
\* entry ("Invalid dummy device index!"): the index that cycles through the
\* whole table never overtakes the beacons, added one per iteration.
NeverInvalidDummy == pc = "update" => Used(beacon_tbl, dummy_update_idx)

\* A bitmap written by the device marks no beacon as valid whose temperature
\* the device has not written before.
ValidIsReported ==
    pelion_data_valid_bmp.by = "device" =>
        pelion_data_valid_bmp.val \subseteq reported

\* The application thread and the server together do to the resources what
\* CloudView allows and nothing else.
View == INSTANCE CloudView
            WITH temperature <- beacon_data_res_tbl,
                 validity <- pelion_data_valid_bmp
ImplementsView == View!ViewSpec

\* Whatever the body of the loop does, the two threads use the client as
\* CloudClient says, where that body is one step: what is true of every
\* behaviour of CloudClient is true of this build.
Client == INSTANCE CloudClient
              WITH pc <- IF pc \in BodyPc THEN "work" ELSE pc
ImplementsClient == Client!ClientSpec

\* Every beacon of the table is reported in the end, unless the device is
\* unregistered first.
AllReported ==
    pc = "loop" /\ register_called ~> reported = Idx \/ pc = "exit"

\* What the server writes does not stay: the loop writes the bitmap in every
\* iteration, even when nothing has changed, and the update index comes round
\* to every used entry, which is then uploaded again.
BitmapHeals ==
    pelion_data_valid_bmp.by = "server"
        ~> pelion_data_valid_bmp.by = "device" \/ pc = "exit"

TemperatureHeals ==
    \A i \in Idx :
        i \in reported /\ beacon_data_res_tbl[i].by = "server"
            ~> beacon_data_res_tbl[i].by = "device" \/ pc = "exit"

WritesHeal == BitmapHeals /\ TemperatureHeals
=============================================================================
