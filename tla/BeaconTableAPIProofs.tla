------------------------ MODULE BeaconTableAPIProofs ------------------------
(***************************************************************************)
(* Proofs about the functions of ble_beacon.h called in any order, for     *)
(* every size of the table, every index a caller may pass and every        *)
(* temperature.                                                            *)
(***************************************************************************)
EXTENDS BeaconTableAPI, TLAPS, WellFoundedInduction

-----------------------------------------------------------------------------
(* What a call leaves in the table                                         *)

\* A table that is not full has a first unused entry, which is what the loop
\* of add_dummy_beacon finds.
LEMMA FirstFreeExists ==
    ASSUME NEW tbl, ~Full(tbl)
    PROVE  FirstFree(tbl) \in Idx /\ ~Used(tbl, FirstFree(tbl))
<1> DEFINE T == {i \in Idx : ~Used(tbl, i)}
           R == {s \in Nat \X Nat : s[1] < s[2]}
<1>1. T \subseteq Nat /\ T # {}
  BY DEF Full, Idx
<1>2. IsWellFoundedOn(R, Nat)
  BY NatLessThanWellFounded DEF OpToRel
<1>3. \E i \in T : \A j \in T : <<j, i>> \notin R
  <2> HIDE DEF T, R
  <2> QED
    BY <1>1, <1>2, WFMin
<1> PICK i \in T : \A j \in T : <<j, i>> \notin R
  BY <1>3
<1>4. ASSUME NEW j \in Idx, j < i PROVE Used(tbl, j)
  BY <1>4, <1>1
<1>5. \E k \in Idx : ~Used(tbl, k) /\ \A j \in Idx : j < k => Used(tbl, j)
  BY <1>4
<1> QED
  BY <1>5 DEF FirstFree

\* A dummy beacon takes a free entry, or the table is full and kept.
LEMMA AddDummyFacts ==
    ASSUME NEW tbl \in [Idx -> Entry]
    PROVE  LET r == add_dummy_beacon(tbl)
           IN  /\ r.tbl \in [Idx -> Entry]
               /\ \A i \in Idx :
                     r.tbl[i] # tbl[i] =>
                         ~Used(tbl, i) /\ i = r.ret /\ Used(r.tbl, i)
               /\ r.ret = INVALID_U32 => r.tbl = tbl
<1>1. CASE Full(tbl)
  BY <1>1 DEF add_dummy_beacon
<1>2. CASE ~Full(tbl)
  <2> DEFINE k == FirstFree(tbl)
             e == [element_used |-> 1, updated |-> 1, temp |-> DummyTemp]
  <2>1. k \in Idx /\ ~Used(tbl, k)
    BY <1>2, FirstFreeExists
  <2>2. e \in Entry
    BY TableAssumption DEF Entry
  <2>3. add_dummy_beacon(tbl) = [tbl |-> [tbl EXCEPT ![k] = e], ret |-> k]
    BY <1>2 DEF add_dummy_beacon
  <2>4. k # INVALID_U32
    BY <2>1 DEF Idx, INVALID_U32
  <2> HIDE DEF k
  <2> QED
    BY <2>1, <2>2, <2>3, <2>4 DEF Used
<1> QED
  BY <1>1, <1>2

\* add_beacon fills the free entry it is asked for; a known beacon, or an
\* index outside the table, changes nothing, whatever the read outside the
\* table has found.
LEMMA AddBeaconFacts ==
    ASSUME NEW tbl \in [Idx -> Entry], NEW n \in Indices, NEW oob \in {0, 1}
    PROVE  LET r == add_beacon(tbl, n, oob)
           IN  /\ r.tbl \in [Idx -> Entry]
               /\ \A i \in Idx :
                     r.tbl[i] # tbl[i] =>
                         ~Used(tbl, i) /\ i = n /\ Used(r.tbl, i)
               /\ r.ret = INVALID_U32 => r.tbl = tbl
<1> DEFINE used == IF n \in Idx THEN tbl[n].element_used ELSE oob
           e == [element_used |-> 1, updated |-> 1, temp |-> 0]
<1>1. n \in Nat /\ (n < MaxBeacons => n \in Idx)
  BY APIAssumption, TableAssumption DEF Idx
<1>2. CASE used # 0
  <2>1. add_beacon(tbl, n, oob) = [tbl |-> tbl, ret |-> 0]
    BY <1>2 DEF add_beacon
  <2> QED
    BY <2>1
<1>3. CASE used = 0 /\ n >= MaxBeacons
  <2>1. add_beacon(tbl, n, oob) = [tbl |-> tbl, ret |-> INVALID_U32]
    BY <1>3 DEF add_beacon
  <2> QED
    BY <2>1
<1>4. CASE used = 0 /\ ~(n >= MaxBeacons)
  <2>1. add_beacon(tbl, n, oob) = [tbl |-> [tbl EXCEPT ![n] = e], ret |-> 0]
    BY <1>4 DEF add_beacon
  <2>2. n \in Idx /\ ~Used(tbl, n)
    BY <1>1, <1>4, TableAssumption DEF Used
  <2>3. e \in Entry
    BY DEF Entry
  <2> QED
    BY <2>1, <2>2, <2>3 DEF Used, INVALID_U32
<1> QED
  BY <1>2, <1>3, <1>4

-----------------------------------------------------------------------------
(* The invariant                                                           *)

\* Type of the table, and the property itself.
AInv == beacon_tbl \in [Idx -> Entry] /\ FreeEntriesAreClear

\* A call that only changes entries that are used, and leaves them used, keeps
\* the free ones clear.
LEMMA KeepsClear ==
    ASSUME AInv, beacon_tbl' \in [Idx -> Entry],
           \A i \in Idx : beacon_tbl'[i] # beacon_tbl[i] =>
               beacon_tbl'[i] = FreeEntry \/ Used(beacon_tbl, i)'
    PROVE  AInv'
BY DEF AInv, FreeEntriesAreClear, Used

LEMMA InitAInv == APIInit => AInv
BY DEF APIInit, AInv, FreeEntriesAreClear, init_beacon_tbl, Entry, FreeEntry, Used

LEMMA NextAInv == AInv /\ [APINext]_apiVars => AInv'
<1> SUFFICES ASSUME AInv, [APINext]_apiVars PROVE AInv'
  OBVIOUS
<1>1. beacon_tbl \in [Idx -> Entry]
  BY DEF AInv
<1>2. CASE AddDummyBeacon
  BY <1>1, <1>2, AddDummyFacts, KeepsClear DEF AddDummyBeacon, Used
<1>3. CASE AddBeacon
  BY <1>1, <1>3, AddBeaconFacts, KeepsClear DEF AddBeacon, Used
<1>4. CASE DeleteBeacon
  <2>1. FreeEntry \in Entry
    BY DEF FreeEntry, Entry
  <2> QED
    BY <1>1, <1>4, <2>1, KeepsClear DEF DeleteBeacon, delete_beacon
<1>5. CASE DummyUpdate
  <2>1. PICK i \in Idx : beacon_tbl' = dummy_update_beacon_data(beacon_tbl, i)
    BY <1>5 DEF DummyUpdate
  <2>2. CASE Used(beacon_tbl, i)
    <3> DEFINE e == [beacon_tbl[i] EXCEPT !.temp = NextDummyTemp(@), !.updated = 1]
    <3>1. beacon_tbl' = [beacon_tbl EXCEPT ![i] = e]
      BY <1>1, <2>1, <2>2 DEF dummy_update_beacon_data
    <3>2. e \in Entry /\ e.element_used = 1
      <4>1. \A k \in Nat : NextDummyTemp(k) \in Nat
        BY TableAssumption DEF NextDummyTemp
      <4>2. beacon_tbl[i] \in Entry /\ beacon_tbl[i].element_used = 1
        BY <1>1, <2>2 DEF Used
      <4> QED
        BY <4>1, <4>2 DEF Entry
    <3> HIDE DEF e
    <3> QED
      BY <1>1, <3>1, <3>2, KeepsClear DEF Used
  <2>3. CASE ~Used(beacon_tbl, i)
    BY <1>1, <2>1, <2>3, KeepsClear DEF dummy_update_beacon_data
  <2> QED
    BY <2>2, <2>3
<1>6. CASE UpdateBeacon
  <2>1. Temps \subseteq Nat
    BY APIAssumption
  <2> QED
    BY <1>1, <1>6, <2>1, KeepsClear
       DEF UpdateBeacon, update_beacon_data, Used, Entry
<1>7. CASE ClearUpdated
  BY <1>1, <1>7, KeepsClear DEF ClearUpdated, Used, Entry
<1>8. CASE UNCHANGED apiVars
  BY <1>1, <1>8, KeepsClear DEF apiVars
<1> QED
  BY <1>2, <1>3, <1>4, <1>5, <1>6, <1>7, <1>8 DEF APINext

-----------------------------------------------------------------------------
(* The theorems                                                            *)

THEOREM TableInvariance == APISpec => []AInv
<1> QED
  BY InitAInv, NextAInv, PTL DEF APISpec

\* FreeEntriesAreClear: whatever is called, and in whatever order, what a new
\* beacon finds in its entry is never what a deleted one left there.
THEOREM FreeEntriesClear == APISpec => []FreeEntriesAreClear
<1>1. AInv => FreeEntriesAreClear
  BY DEF AInv
<1> QED
  BY <1>1, TableInvariance, PTL

\* AddKeepsOthers: adding a beacon touches at most one entry, a free one, that
\* of the index asked for or returned; a refusal changes nothing.
THEOREM AddingKeepsOthers == APISpec => AddKeepsOthers
<1> DEFINE Step ==
        call'.op \in {"add_dummy_beacon", "add_beacon"} =>
            /\ \A i \in Idx :
                  beacon_tbl'[i] # beacon_tbl[i] =>
                      /\ ~Used(beacon_tbl, i)
                      /\ i = IF call'.op = "add_beacon" THEN call'.arg ELSE call'.ret
            /\ call'.ret = INVALID_U32 => beacon_tbl' = beacon_tbl
<1>1. AInv /\ [APINext]_apiVars => [Step]_apiVars
  <2> SUFFICES ASSUME AInv, APINext PROVE Step
    OBVIOUS
  <2>1. beacon_tbl \in [Idx -> Entry]
    BY DEF AInv
  <2>2. CASE AddDummyBeacon
    BY <2>1, <2>2, AddDummyFacts DEF AddDummyBeacon, Called
  <2>3. CASE AddBeacon
    BY <2>1, <2>3, AddBeaconFacts DEF AddBeacon, Called
  <2>4. CASE DeleteBeacon \/ DummyUpdate \/ UpdateBeacon \/ ClearUpdated
    BY <2>4 DEF DeleteBeacon, DummyUpdate, UpdateBeacon, ClearUpdated, Called
  <2> QED
    BY <2>2, <2>3, <2>4 DEF APINext
<1> QED
  BY <1>1, TableInvariance, PTL DEF APISpec, AddKeepsOthers
=============================================================================
