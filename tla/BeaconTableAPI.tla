--------------------------- MODULE BeaconTableAPI ----------------------------
(***************************************************************************)
(* The functions of ble_beacon.h called in any order, the way the unit     *)
(* test test_ble_beacon.cpp calls some of them: the table on its own,      *)
(* without the application.  `call` is the last call with what it returned.*)
(***************************************************************************)
EXTENDS BeaconTable

CONSTANTS
    Indices,   \* uint8_t arguments of add_beacon
    Temps      \* uint8_t temperatures

ASSUME APIAssumption ==
    /\ Indices \subseteq 0 .. 255
    /\ Temps \subseteq 0 .. 255

VARIABLES beacon_tbl, call

apiVars == <<beacon_tbl, call>>

APIInit ==
    /\ beacon_tbl = init_beacon_tbl
    /\ call = [op |-> "init_beacon_tbl", arg |-> 0, ret |-> 0]

Called(op, arg, ret) == call' = [op |-> op, arg |-> arg, ret |-> ret]

AddDummyBeacon ==
    LET r == add_dummy_beacon(beacon_tbl)
    IN  beacon_tbl' = r.tbl /\ Called("add_dummy_beacon", 0, r.ret)

\* What the read outside the table finds is 0 or something else.
AddBeacon ==
    \E i \in Indices, oob \in {0, 1} :
        LET r == add_beacon(beacon_tbl, i, oob)
        IN  beacon_tbl' = r.tbl /\ Called("add_beacon", i, r.ret)

DeleteBeacon ==
    \E i \in Idx : /\ beacon_tbl' = delete_beacon(beacon_tbl, i)
                   /\ Called("delete_beacon", i, 0)

DummyUpdate ==
    \E i \in Idx : /\ beacon_tbl' = dummy_update_beacon_data(beacon_tbl, i)
                   /\ Called("dummy_update_beacon_data", i, 0)

UpdateBeacon ==
    \E i \in Indices, t \in Temps :
        /\ beacon_tbl' = update_beacon_data(beacon_tbl, i, t)
        /\ Called("update_beacon_data", i, 0)

\* What update_beacon_cloud_data does through get_beacon_tbl.
ClearUpdated ==
    \E i \in Idx :
        /\ Used(beacon_tbl, i)
        /\ beacon_tbl' = [beacon_tbl EXCEPT ![i].updated = 0]
        /\ Called("get_beacon_tbl", i, 0)

APINext ==
    \/ AddDummyBeacon \/ AddBeacon \/ DeleteBeacon
    \/ DummyUpdate \/ UpdateBeacon \/ ClearUpdated

APISpec == APIInit /\ [][APINext]_apiVars

-----------------------------------------------------------------------------
(* Properties                                                              *)

\* No call, however late or with whatever index, leaves data or a pending
\* upload in an entry that is not used: what a new beacon finds in its entry
\* is never what a deleted one left there.
FreeEntriesAreClear ==
    \A i \in Idx : ~Used(beacon_tbl, i) => beacon_tbl[i] = FreeEntry

\* Adding a beacon, new or known, dummy or not, touches at most one entry, a
\* free one: that of the index asked for, or the index returned.  A beacon that
\* is announced twice keeps its temperature and its pending upload, and a
\* beacon that is refused, or an index beyond the table, changes nothing.
AddKeepsOthers ==
    [][call'.op \in {"add_dummy_beacon", "add_beacon"}
         => /\ \A i \in Idx :
                  beacon_tbl'[i] # beacon_tbl[i] =>
                      /\ ~Used(beacon_tbl, i)
                      /\ i = IF call'.op = "add_beacon" THEN call'.arg ELSE call'.ret
            /\ call'.ret = INVALID_U32 => beacon_tbl' = beacon_tbl]_apiVars
=============================================================================
