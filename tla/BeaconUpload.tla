---------------------------- MODULE BeaconUpload -----------------------------
(***************************************************************************)
(* What both builds of main.cpp share: the beacon table with its two       *)
(* shadows (connected_beacons, data_valid_bmp), the cloud resources made   *)
(* from them, and the part of the loop of main_application that follows    *)
(* the work on the table.  update_beacon_cloud_data copies the table into  *)
(* the resources one entry at a time.  The resources are GET_PUT_ALLOWED   *)
(* and have no callback, so the server can overwrite them between any two  *)
(* of those steps and the application never hears of it.                   *)
(***************************************************************************)
EXTENDS CloudClient, BeaconTable

CONSTANTS
    BmpBits,         \* width of data_valid_bmp, a uint16_t
    ServerTemps,     \* values the server may PUT to a temperature resource
    ServerBitmaps    \* values the server may PUT to the bitmap resource

ASSUME UploadAssumption ==
    /\ BmpBits \in Nat
    /\ MaxBeacons <= BmpBits
    /\ ServerTemps \subseteq Nat
    /\ \A b \in ServerBitmaps : b \subseteq Nat

VARIABLES
    beacon_tbl,
    connected_beacons,
    data_valid_bmp,        \* the set of the bits that are 1
    beacon_data_res_tbl,   \* 3303/i/5700: who wrote the value, and the value
    pelion_data_valid_bmp, \* 3201/0/5853, the same for the bitmap
    reported,              \* temperature resources the device has written
    upload_i               \* the loop variable of update_beacon_cloud_data

tableVars == <<beacon_tbl, connected_beacons, data_valid_bmp>>
resourceVars == <<beacon_data_res_tbl, pelion_data_valid_bmp, reported>>
uploadVars == <<tableVars, resourceVars, upload_i>>

Writers == {"nobody", "device", "server"}

TempRes == [by : Writers, val : Nat]
BmpRes == [by : Writers, val : SUBSET Nat]

\* main_application clears the table and creates the resources, which have
\* no value yet.
UploadInit ==
    /\ beacon_tbl = init_beacon_tbl
    /\ connected_beacons = 0
    /\ data_valid_bmp = {}
    /\ beacon_data_res_tbl = [i \in Idx |-> [by |-> "nobody", val |-> 0]]
    /\ pelion_data_valid_bmp = [by |-> "nobody", val |-> {}]
    /\ reported = {}
    /\ upload_i = 0

\* Mutation of SetBit: = instead of |=.
SetBit_Assigns(bmp, i) == {i}

\* data_valid_bmp |= a word with bit i: a bit beyond the width is lost.
SetBit(bmp, i) == bmp \cup ({i} \cap (0 .. BmpBits - 1))

-----------------------------------------------------------------------------
(* The application thread: labels "upload", "bitmap" and "wait"            *)

\* One iteration of the loop of update_beacon_cloud_data.
UploadEntry ==
    LET b == beacon_tbl[upload_i]
    IN  IF b.element_used = 1 /\ b.updated = 1
        THEN /\ beacon_data_res_tbl' =
                   [beacon_data_res_tbl EXCEPT
                       ![upload_i] = [by |-> "device", val |-> b.temp]]
             /\ beacon_tbl' = [beacon_tbl EXCEPT ![upload_i].updated = 0]
             /\ reported' = reported \cup {upload_i}
        ELSE UNCHANGED <<beacon_data_res_tbl, beacon_tbl, reported>>

\* Mutation of Upload: the loop stops one entry early.
Upload_Short ==
    /\ Goto("upload", IF upload_i = MaxBeacons - 2 THEN "bitmap" ELSE "upload")
    /\ UploadEntry
    /\ upload_i' = upload_i + 1
    /\ UNCHANGED <<connected_beacons, data_valid_bmp, pelion_data_valid_bmp>>

Upload ==
    /\ Goto("upload", IF upload_i = MaxBeacons - 1 THEN "bitmap" ELSE "upload")
    /\ UploadEntry
    /\ upload_i' = upload_i + 1
    /\ UNCHANGED <<connected_beacons, data_valid_bmp, pelion_data_valid_bmp>>

\* After the loop: the whole bitmap, changed or not.
Bitmap ==
    /\ Goto("bitmap", "wait")
    /\ pelion_data_valid_bmp' = [by |-> "device", val |-> data_valid_bmp]
    /\ upload_i' = 0
    /\ UNCHANGED <<tableVars, beacon_data_res_tbl, reported>>

\* mcc_platform_do_wait(10000)
Wait == Goto("wait", "loop") /\ UNCHANGED uploadVars

UploadAndWait == Upload \/ Bitmap \/ Wait

-----------------------------------------------------------------------------
(* The server writes a resource.  The event-loop thread serves the request,*)
(* so only while the device is registered and no callback is running.      *)

ServerPutTemp ==
    /\ \E i \in Idx, t \in ServerTemps :
          beacon_data_res_tbl' =
              [beacon_data_res_tbl EXCEPT ![i] = [by |-> "server", val |-> t]]
    /\ UNCHANGED <<tableVars, pelion_data_valid_bmp, reported, upload_i>>

ServerPutBitmap ==
    /\ \E b \in ServerBitmaps :
          pelion_data_valid_bmp' = [by |-> "server", val |-> b]
    /\ UNCHANGED <<tableVars, beacon_data_res_tbl, reported, upload_i>>

ServerPut ==
    /\ cloud = "registered" /\ evpc = "idle"
    /\ ServerPutTemp \/ ServerPutBitmap
    /\ UNCHANGED clientVars

-----------------------------------------------------------------------------
(* Properties of the data, for either build                                *)

\* Type invariant of the table, the count and the resources.
UploadTypeOK ==
    /\ beacon_tbl \in [Idx -> Entry]
    /\ connected_beacons \in 0 .. MaxBeacons
    /\ beacon_data_res_tbl \in [Idx -> TempRes]
    /\ pelion_data_valid_bmp \in BmpRes
    /\ reported \in SUBSET Idx
    /\ upload_i \in 0 .. MaxBeacons

\* An entry whose `updated` flag is 0 is in step with its resource, unless
\* the server has written the resource since.
CloudInStep ==
    \A i \in Idx :
        /\ Used(beacon_tbl, i)
        /\ beacon_tbl[i].updated = 0
        /\ beacon_data_res_tbl[i].by = "device"
        => beacon_data_res_tbl[i].val = beacon_tbl[i].temp
=============================================================================
