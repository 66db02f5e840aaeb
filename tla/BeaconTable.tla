----------------------------- MODULE BeaconTable -----------------------------
(***************************************************************************)
(* The beacon table of ble_beacon.c as operators on a value: `tbl` is the  *)
(* static array beacon_tbl, each operator returns the array the C function *)
(* leaves behind (with the returned number where there is one).  Kept of   *)
(* an entry: the two flags, as the C integers 0 and 1, and the temperature *)
(* in whole degrees.  update_time, rstp, lat and lon are never read.       *)
(***************************************************************************)
EXTENDS Integers

CONSTANTS
    MaxBeacons,   \* MAX_CONNECTED_BEACONS, 10 in the shipped header
    DummyTemp,    \* first temperature of a dummy beacon, 23 degrees
    DummyLimit    \* the dummy temperature wraps when it reaches this, 50

\* Indices are uint8_t, so a larger table could not be addressed.
ASSUME TableAssumption ==
    /\ MaxBeacons \in 1 .. 255
    /\ DummyTemp \in Nat
    /\ DummyLimit \in Nat
    /\ DummyTemp < DummyLimit

Idx == 0 .. MaxBeacons - 1

\* 0xFFFFFFFF, which as an index means none.
INVALID_U32 == -1

Entry == [element_used : {0, 1}, updated : {0, 1}, temp : Nat]

FreeEntry == [element_used |-> 0, updated |-> 0, temp |-> 0]

init_beacon_tbl == [i \in Idx |-> FreeEntry]

Used(tbl, i) == tbl[i].element_used = 1

Full(tbl) == \A i \in Idx : Used(tbl, i)

\* Mutation of FirstFree: the last unused entry.
FirstFree_Last(tbl) ==
    CHOOSE i \in Idx : ~Used(tbl, i) /\ \A j \in Idx : j > i => Used(tbl, j)

\* The loop of add_dummy_beacon stops at the first unused entry.
FirstFree(tbl) ==
    CHOOSE i \in Idx : ~Used(tbl, i) /\ \A j \in Idx : j < i => Used(tbl, j)

add_dummy_beacon(tbl) ==
    IF Full(tbl)
    THEN [tbl |-> tbl, ret |-> INVALID_U32]
    ELSE [tbl |-> [tbl EXCEPT ![FirstFree(tbl)] =
                      [element_used |-> 1, updated |-> 1, temp |-> DummyTemp]],
          ret |-> FirstFree(tbl)]

\* Mutation of add_beacon: an entry already in use is filled in again.
add_beacon_Clobbers(tbl, i, oob) ==
    IF i >= MaxBeacons
    THEN [tbl |-> tbl, ret |-> INVALID_U32]
    ELSE [tbl |-> [tbl EXCEPT ![i] =
                      [element_used |-> 1, updated |-> 1, temp |-> 0]],
          ret |-> 0]

(***************************************************************************)
(* add_beacon reads element_used before it compares the index with the     *)
(* size.  For an index outside the table that read is undefined; `oob` is  *)
(* the value it happens to return.  An entry already used is reported as   *)
(* success, and success is always 0.                                       *)
(***************************************************************************)
add_beacon(tbl, i, oob) ==
    LET used == IF i \in Idx THEN tbl[i].element_used ELSE oob
    IN  IF used # 0
        THEN [tbl |-> tbl, ret |-> 0]
        ELSE IF i >= MaxBeacons
        THEN [tbl |-> tbl, ret |-> INVALID_U32]
        ELSE [tbl |-> [tbl EXCEPT ![i] =
                          [element_used |-> 1, updated |-> 1, temp |-> 0]],
              ret |-> 0]

\* Mutation of delete_beacon: only the flag is cleared.
delete_beacon_FlagOnly(tbl, i) == [tbl EXCEPT ![i].element_used = 0]

delete_beacon(tbl, i) == [tbl EXCEPT ![i] = FreeEntry]

NextDummyTemp(t) == IF t < DummyLimit THEN t + 1 ELSE DummyTemp

\* Mutations of dummy_update_beacon_data: `updated` is not set, or the wrap
\* comes one step late.
dummy_update_beacon_data_Silent(tbl, i) ==
    IF Used(tbl, i) THEN [tbl EXCEPT ![i].temp = NextDummyTemp(@)] ELSE tbl

dummy_update_beacon_data_WrapsLate(tbl, i) ==
    IF Used(tbl, i)
    THEN [tbl EXCEPT ![i].temp = IF @ <= DummyLimit THEN @ + 1 ELSE DummyTemp,
                     ![i].updated = 1]
    ELSE tbl

dummy_update_beacon_data(tbl, i) ==
    IF Used(tbl, i)
    THEN [tbl EXCEPT ![i].temp = NextDummyTemp(@), ![i].updated = 1]
    ELSE tbl

\* Mutation of update_beacon_data: `updated` is not set.
update_beacon_data_Silent(tbl, i, temp) ==
    IF i \in Idx /\ Used(tbl, i) THEN [tbl EXCEPT ![i].temp = temp] ELSE tbl

\* With an index outside the table the write, if any, is to memory that is
\* not the table.
update_beacon_data(tbl, i, temp) ==
    IF i \in Idx /\ Used(tbl, i)
    THEN [tbl EXCEPT ![i].temp = temp, ![i].updated = 1]
    ELSE tbl
=============================================================================
