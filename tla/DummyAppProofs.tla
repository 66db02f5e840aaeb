---------------------------- MODULE DummyAppProofs ----------------------------
(***************************************************************************)
(* Proofs about DummyApp for every size of the table, every range of the   *)
(* dummy temperature and whatever the server writes.                       *)
(***************************************************************************)
EXTENDS DummyApp, TLAPS

-----------------------------------------------------------------------------
(* The inductive invariant                                                 *)

\* While beacons are still being added, the update index and the number of
\* beacons go together; the addition is one step ahead at "update".
Lockstep ==
    connected_beacons < MaxBeacons =>
        dummy_update_idx = IF pc = "update" THEN connected_beacons - 1
                                            ELSE connected_beacons

\* upload_i is in the table while the loop runs and 0 before it starts.
UploadIndex ==
    /\ pc = "upload" => upload_i \in Idx
    /\ pc \notin {"upload", "bitmap"} => upload_i = 0

\* An entry has a temperature to upload in two places only: between the step
\* that adds it and the update of the same iteration, when it still has the
\* placeholder, and in the upload loop before its turn, when its temperature
\* is the successor of the one uploaded last.
JustAdded(i) ==
    /\ pc = "update"
    /\ i = dummy_update_idx /\ i \notin reported
    /\ beacon_tbl[i].temp = DummyTemp

ToUpload(i) ==
    /\ pc = "upload" /\ upload_i <= i
    /\ i \notin reported => beacon_tbl[i].temp = NextDummyTemp(DummyTemp)
    /\ i \in reported /\ beacon_data_res_tbl[i].by = "device"
         => beacon_tbl[i].temp = NextDummyTemp(beacon_data_res_tbl[i].val)

InStep(i) ==
    /\ i \in reported
    /\ beacon_data_res_tbl[i].by = "device"
         => beacon_data_res_tbl[i].val = beacon_tbl[i].temp

EntryOK(i) ==
    IF Used(beacon_tbl, i)
    THEN /\ beacon_tbl[i].temp \in DummyTemp .. DummyLimit
         /\ IF beacon_tbl[i].updated = 1 THEN JustAdded(i) \/ ToUpload(i)
                                         ELSE InStep(i)
    ELSE i \notin reported

Entries == \A i \in Idx : EntryOK(i)

IInv ==
    /\ TypeOK
    /\ TableAgrees
    /\ Lockstep
    /\ UploadIndex
    /\ Entries
    /\ ValidIsReported

-----------------------------------------------------------------------------
(* The functions of ble_beacon.c                                           *)

\* The first free entry of a table whose used entries are the first n.
LEMMA FirstFreeIsNext ==
    ASSUME NEW tbl, NEW n \in Idx,
           \A i \in Idx : Used(tbl, i) <=> i < n
    PROVE  FirstFree(tbl) = n /\ ~Full(tbl)
<1>1. ~Used(tbl, n) /\ \A j \in Idx : j < n => Used(tbl, j)
  BY DEF Idx
<1>2. \A i \in Idx :
          ~Used(tbl, i) /\ (\A j \in Idx : j < i => Used(tbl, j)) => i = n
  BY TableAssumption DEF Idx
<1> QED
  BY <1>1, <1>2 DEF FirstFree, Full

\* Adding a dummy beacon to such a table fills entry n and no other.
LEMMA AddDummyFacts ==
    ASSUME NEW tbl \in [Idx -> Entry], NEW n \in Idx,
           \A i \in Idx : Used(tbl, i) <=> i < n
    PROVE  LET r == add_dummy_beacon(tbl)
           IN  /\ r.ret = n
               /\ r.tbl \in [Idx -> Entry]
               /\ r.tbl[n] = [element_used |-> 1, updated |-> 1, temp |-> DummyTemp]
               /\ \A i \in Idx : i # n => r.tbl[i] = tbl[i]
<1>1. FirstFree(tbl) = n /\ ~Full(tbl)
  BY FirstFreeIsNext
<1>2. [element_used |-> 1, updated |-> 1, temp |-> DummyTemp] \in Entry
  BY TableAssumption DEF Entry
<1>3. add_dummy_beacon(tbl) =
        [tbl |-> [tbl EXCEPT ![n] =
                     [element_used |-> 1, updated |-> 1, temp |-> DummyTemp]],
         ret |-> n]
  BY <1>1 DEF add_dummy_beacon
<1> QED
  BY <1>2, <1>3

\* A dummy update moves the temperature of a used entry on, inside its
\* range, and asks for an upload.
LEMMA DummyUpdateFacts ==
    ASSUME NEW tbl \in [Idx -> Entry], NEW k \in Idx, Used(tbl, k)
    PROVE  LET r == dummy_update_beacon_data(tbl, k)
           IN  /\ r \in [Idx -> Entry]
               /\ Used(r, k) /\ r[k].updated = 1
               /\ r[k].temp = NextDummyTemp(tbl[k].temp)
               /\ \A i \in Idx : i # k => r[i] = tbl[i]
<1>1. tbl[k] \in Entry
  OBVIOUS
<1>2. NextDummyTemp(tbl[k].temp) \in Nat
  BY <1>1, TableAssumption DEF Entry, NextDummyTemp
<1>3. dummy_update_beacon_data(tbl, k) =
        [tbl EXCEPT ![k] = [tbl[k] EXCEPT !.temp = NextDummyTemp(tbl[k].temp),
                                          !.updated = 1]]
  BY DEF dummy_update_beacon_data
<1> DEFINE e == [tbl[k] EXCEPT !.temp = NextDummyTemp(tbl[k].temp), !.updated = 1]
<1>4. /\ e \in Entry
      /\ e.element_used = tbl[k].element_used
      /\ e.updated = 1
      /\ e.temp = NextDummyTemp(tbl[k].temp)
  BY <1>1, <1>2 DEF Entry
<1> HIDE DEF e
<1> QED
  BY <1>3, <1>4 DEF Used, e

\* The successor of a dummy temperature is one.
LEMMA NextDummyTempInRange ==
    \A t \in DummyTemp .. DummyLimit : NextDummyTemp(t) \in DummyTemp .. DummyLimit
BY TableAssumption DEF NextDummyTemp

-----------------------------------------------------------------------------
(* The invariant holds at the start and every step keeps it                *)

LEMMA InitIInv == Init => IInv
<1> SUFFICES ASSUME Init PROVE IInv
  OBVIOUS
<1> USE TableAssumption DEF Init, ClientInit, UploadInit
<1>1. \A i \in Idx : beacon_tbl[i] = FreeEntry
  BY DEF init_beacon_tbl
<1>2. beacon_tbl \in [Idx -> Entry]
  BY DEF init_beacon_tbl, FreeEntry, Entry
<1>3. TypeOK
  BY <1>2 DEF TypeOK, UploadTypeOK, RegisterPc, TempRes, BmpRes, Writers, Idx
<1>4. TableAgrees /\ Entries
  BY <1>1 DEF TableAgrees, Entries, EntryOK, Used, FreeEntry, Idx
<1>5. Lockstep /\ UploadIndex /\ ValidIsReported
  BY DEF Lockstep, UploadIndex, ValidIsReported
<1> QED
  BY <1>3, <1>4, <1>5 DEF IInv

\* Labels at which the application thread is not at work on the data.
QuietPc == RegisterPc \cup {"loop", "add", "wait", "exit"}

\* A step that leaves the data alone keeps the invariant, if the application
\* thread either stays where it is or is not at work on the data.
LEMMA QuietStep ==
    ASSUME IInv, UNCHANGED <<uploadVars, dummy_update_idx>>,
           pc' = pc \/ (pc \in QuietPc /\ pc' \in QuietPc)
    PROVE  IInv'
<1> USE DEF uploadVars, tableVars, resourceVars
<1>1. \/ pc' = pc
      \/ /\ pc \notin {"update", "upload", "bitmap"}
         /\ pc' \notin {"update", "upload", "bitmap"}
  BY DEF QuietPc, RegisterPc
<1>2. TypeOK'
  BY DEF IInv, TypeOK, UploadTypeOK, QuietPc, BodyPc
<1>3. TableAgrees' /\ ValidIsReported'
  BY DEF IInv, TableAgrees, ValidIsReported, Used
<1>4. Lockstep' /\ UploadIndex'
  BY <1>1 DEF IInv, Lockstep, UploadIndex
<1>5. Entries'
  <2> SUFFICES ASSUME NEW i \in Idx PROVE EntryOK(i)'
    BY DEF Entries
  <2>1. EntryOK(i)
    BY DEF IInv, Entries
  <2> QED
    BY <1>1, <2>1 DEF EntryOK, JustAdded, ToUpload, InStep, Used
<1> QED
  BY <1>2, <1>3, <1>4, <1>5 DEF IInv

LEMMA RegisterKeeps == IInv /\ Register => IInv'
<1> SUFFICES ASSUME IInv, Register PROVE IInv'
  OBVIOUS
<1>1. (pc \in QuietPc /\ pc' \in QuietPc) \/ pc' = pc
  BY DEF Register, RegisterAndConnect, NoInterface, ConnectFails,
         ConnectSucceeds, Setup, Mark, SetClient, SetAuthorize, QuietPc, RegisterPc
<1> QED
  BY <1>1, QuietStep DEF Register

LEMMA LoopKeeps == IInv /\ Loop => IInv'
<1> SUFFICES ASSUME IInv, Loop PROVE IInv'
  OBVIOUS
<1>1. pc \in QuietPc /\ pc' \in QuietPc
  BY DEF Loop, CheckLoop, Goto, QuietPc
<1> QED
  BY <1>1, QuietStep DEF Loop

LEMMA WaitKeeps == IInv /\ Wait /\ UNCHANGED dummy_update_idx => IInv'
<1> SUFFICES ASSUME IInv, Wait, UNCHANGED dummy_update_idx PROVE IInv'
  OBVIOUS
<1>1. pc \in QuietPc /\ pc' \in QuietPc
  BY DEF Wait, Goto, QuietPc
<1> QED
  BY <1>1, QuietStep DEF Wait

LEMMA CallbackKeeps == IInv /\ Callback => IInv'
<1> SUFFICES ASSUME IInv, Callback PROVE IInv'
  OBVIOUS
<1>1. pc' = pc
  BY DEF Callback, EventLoop, ClientRegistered, ClientError, PostUnregister,
         PostFactoryReset, close, FactoryReset, ClientUnregistered,
         UnregisteredReturns, UpdateRequest
<1> QED
  BY <1>1, QuietStep DEF Callback

LEMMA AddDummyKeeps == IInv /\ AddDummy => IInv'
<1> SUFFICES ASSUME IInv, AddDummy PROVE IInv'
  OBVIOUS
<1> DEFINE r == add_dummy_beacon(beacon_tbl)
<1>1. /\ pc = "add" /\ pc' = "update"
      /\ UNCHANGED <<beacon_data_res_tbl, pelion_data_valid_bmp, reported,
                     upload_i, dummy_update_idx>>
  BY DEF AddDummy, Goto, resourceVars
<1>2. /\ TypeOK /\ TableAgrees /\ Lockstep /\ upload_i = 0 /\ ValidIsReported
      /\ \A i \in Idx : EntryOK(i) /\ ~JustAdded(i) /\ ~ToUpload(i)
  BY <1>1 DEF IInv, UploadIndex, Entries, JustAdded, ToUpload
<1>3. CASE connected_beacons < MaxBeacons
  <2> DEFINE n == connected_beacons
  <2>1. n \in Idx /\ dummy_update_idx = n
    BY <1>1, <1>2, <1>3, TableAssumption
       DEF TypeOK, UploadTypeOK, Lockstep, Idx
  <2>2. /\ r.ret = n /\ r.tbl \in [Idx -> Entry]
        /\ r.tbl[n] = [element_used |-> 1, updated |-> 1, temp |-> DummyTemp]
        /\ \A i \in Idx : i # n => r.tbl[i] = beacon_tbl[i]
    BY <1>2, <2>1, AddDummyFacts DEF TypeOK, UploadTypeOK, TableAgrees
  <2>3. n # INVALID_U32
    BY <2>1, TableAssumption DEF Idx, INVALID_U32
  <2>4. /\ beacon_tbl' = r.tbl
        /\ data_valid_bmp' = SetBit(data_valid_bmp, n)
        /\ connected_beacons' = n + 1
    BY <1>3, <2>2, <2>3 DEF AddDummy
  <2>5. SetBit(data_valid_bmp, n) = data_valid_bmp \cup {n}
    BY <2>1, TableAssumption, UploadAssumption DEF SetBit, Idx
  <2>6. TypeOK'
    BY <1>1, <1>2, <2>1, <2>2, <2>4, <2>5, TableAssumption
       DEF TypeOK, UploadTypeOK, BodyPc, Idx
  <2>7. TableAgrees'
    BY <1>2, <2>1, <2>2, <2>4, <2>5, TableAssumption
       DEF TableAgrees, Used, Idx
  <2>8. Lockstep' /\ UploadIndex'
    BY <1>1, <1>2, <2>1, <2>4, TableAssumption DEF Lockstep, UploadIndex, Idx
  <2>9. Entries'
    <3> SUFFICES ASSUME NEW i \in Idx PROVE EntryOK(i)'
      BY DEF Entries
    <3>1. CASE i = n
      <4>1. ~Used(beacon_tbl, n)
        BY <1>2, <2>1, TableAssumption DEF TableAgrees, Idx
      <4>2. n \notin reported
        BY <1>2, <2>1, <4>1 DEF EntryOK
      <4> QED
        BY <1>1, <2>1, <2>2, <2>4, <3>1, <4>2, TableAssumption
           DEF EntryOK, JustAdded, Used
    <3>2. CASE i # n
      BY <1>1, <1>2, <2>2, <2>4, <3>2 DEF EntryOK, InStep, Used
    <3> QED
      BY <3>1, <3>2
  <2>10. ValidIsReported'
    BY <1>1, <1>2 DEF ValidIsReported
  <2> QED
    BY <2>6, <2>7, <2>8, <2>9, <2>10 DEF IInv
<1>4. CASE ~(connected_beacons < MaxBeacons)
  <2>1. UNCHANGED tableVars
    BY <1>4 DEF AddDummy
  <2>2. TypeOK' /\ TableAgrees' /\ Lockstep' /\ UploadIndex' /\ ValidIsReported'
    BY <1>1, <1>2, <1>4, <2>1
       DEF TypeOK, UploadTypeOK, BodyPc, TableAgrees, Lockstep, UploadIndex,
           ValidIsReported, Used, tableVars
  <2>3. Entries'
    BY <1>1, <1>2, <2>1 DEF Entries, EntryOK, InStep, Used, tableVars
  <2> QED
    BY <2>2, <2>3 DEF IInv
<1> QED
  BY <1>3, <1>4

LEMMA UpdateDummyKeeps == IInv /\ UpdateDummy => IInv'
<1> SUFFICES ASSUME IInv, UpdateDummy PROVE IInv'
  OBVIOUS
<1> DEFINE k == dummy_update_idx
           r == dummy_update_beacon_data(beacon_tbl, k)
<1>1. /\ pc = "update" /\ pc' = "upload"
      /\ beacon_tbl' = r
      /\ dummy_update_idx' = IF k < MaxBeacons - 1 THEN k + 1 ELSE 0
      /\ UNCHANGED <<connected_beacons, data_valid_bmp, beacon_data_res_tbl,
                     pelion_data_valid_bmp, reported, upload_i>>
  BY DEF UpdateDummy, Goto, resourceVars
<1>2. /\ TypeOK /\ TableAgrees /\ Lockstep /\ upload_i = 0 /\ ValidIsReported
      /\ \A i \in Idx : EntryOK(i) /\ ~ToUpload(i)
  BY <1>1 DEF IInv, UploadIndex, Entries, ToUpload
<1>3. k \in Idx /\ k < connected_beacons /\ Used(beacon_tbl, k)
  BY <1>1, <1>2, TableAssumption
     DEF TypeOK, UploadTypeOK, Lockstep, TableAgrees, Idx
<1>4. /\ r \in [Idx -> Entry] /\ Used(r, k) /\ r[k].updated = 1
      /\ r[k].temp = NextDummyTemp(beacon_tbl[k].temp)
      /\ \A i \in Idx : i # k => r[i] = beacon_tbl[i]
  BY <1>2, <1>3, DummyUpdateFacts DEF TypeOK, UploadTypeOK
<1>5. TypeOK'
  BY <1>1, <1>2, <1>3, <1>4, TableAssumption
     DEF TypeOK, UploadTypeOK, BodyPc, Idx
<1>6. TableAgrees'
  BY <1>1, <1>2, <1>3, <1>4 DEF TableAgrees, Used
<1>7. Lockstep' /\ UploadIndex'
  BY <1>1, <1>2, <1>3, TableAssumption
     DEF TypeOK, UploadTypeOK, Lockstep, UploadIndex, Idx
<1>8. Entries'
  <2> SUFFICES ASSUME NEW i \in Idx PROVE EntryOK(i)'
    BY DEF Entries
  <2>1. CASE i = k
    <3>1. beacon_tbl[k].temp \in DummyTemp .. DummyLimit
          /\ (JustAdded(k) \/ InStep(k))
      BY <1>2, <1>3 DEF EntryOK
    <3>2. beacon_tbl'[k].temp = NextDummyTemp(beacon_tbl[k].temp)
          /\ beacon_tbl'[k].temp \in DummyTemp .. DummyLimit
      BY <1>1, <1>4, <3>1, NextDummyTempInRange
    <3>3. 0 <= k
      BY <1>3 DEF Idx
    <3>4. ToUpload(i)'
      BY <1>1, <1>2, <1>3, <2>1, <3>1, <3>2, <3>3 DEF ToUpload, JustAdded, InStep
    <3> QED
      BY <1>1, <1>4, <2>1, <3>2, <3>4 DEF EntryOK, ToUpload, Used
  <2>2. CASE i # k
    BY <1>1, <1>2, <1>4, <2>2 DEF EntryOK, JustAdded, InStep, Used
  <2> QED
    BY <2>1, <2>2
<1>9. ValidIsReported'
  BY <1>1, <1>2 DEF ValidIsReported
<1> QED
  BY <1>5, <1>6, <1>7, <1>8, <1>9 DEF IInv

\* What one iteration of the upload loop leaves behind.
LEMMA UploadEntryFacts ==
    ASSUME TypeOK, upload_i \in Idx, UploadEntry,
           Used(beacon_tbl, upload_i), beacon_tbl[upload_i].updated = 1
    PROVE  /\ beacon_tbl' \in [Idx -> Entry]
           /\ \A i \in Idx :
                 /\ Used(beacon_tbl, i)' <=> Used(beacon_tbl, i)
                 /\ beacon_tbl'[i].temp = beacon_tbl[i].temp
           /\ beacon_tbl'[upload_i].updated = 0
           /\ \A i \in Idx : i # upload_i => beacon_tbl'[i] = beacon_tbl[i]
           /\ beacon_data_res_tbl' = [beacon_data_res_tbl EXCEPT ![upload_i] =
                 [by |-> "device", val |-> beacon_tbl[upload_i].temp]]
           /\ beacon_data_res_tbl' \in [Idx -> TempRes]
           /\ reported' = reported \cup {upload_i}
<1> DEFINE b == beacon_tbl[upload_i]
           e == [b EXCEPT !.updated = 0]
<1>1. b \in Entry /\ beacon_data_res_tbl \in [Idx -> TempRes]
      /\ beacon_tbl \in [Idx -> Entry]
  BY DEF TypeOK, UploadTypeOK
<1>2. /\ beacon_data_res_tbl' = [beacon_data_res_tbl EXCEPT ![upload_i] =
            [by |-> "device", val |-> b.temp]]
      /\ beacon_tbl' = [beacon_tbl EXCEPT ![upload_i] = e]
      /\ reported' = reported \cup {upload_i}
  BY DEF UploadEntry, Used
<1>3. e \in Entry /\ e.element_used = b.element_used
      /\ e.updated = 0 /\ e.temp = b.temp
  BY <1>1 DEF Entry
<1>4. [by |-> "device", val |-> b.temp] \in TempRes
  BY <1>1 DEF Entry, TempRes, Writers
<1> HIDE DEF e
<1>5. beacon_tbl' \in [Idx -> Entry] /\ beacon_tbl'[upload_i] = e
      /\ \A i \in Idx : i # upload_i => beacon_tbl'[i] = beacon_tbl[i]
  BY <1>1, <1>2, <1>3
<1> QED
  BY <1>1, <1>2, <1>3, <1>4, <1>5 DEF Used

LEMMA UploadKeeps == IInv /\ Upload /\ UNCHANGED dummy_update_idx => IInv'
<1> SUFFICES ASSUME IInv, Upload, UNCHANGED dummy_update_idx PROVE IInv'
  OBVIOUS
<1>1. /\ pc = "upload"
      /\ pc' = IF upload_i = MaxBeacons - 1 THEN "bitmap" ELSE "upload"
      /\ upload_i' = upload_i + 1
      /\ UploadEntry
      /\ UNCHANGED <<connected_beacons, data_valid_bmp, pelion_data_valid_bmp,
                     dummy_update_idx>>
  BY DEF Upload, Goto
<1>2. /\ TypeOK /\ TableAgrees /\ Lockstep /\ upload_i \in Idx /\ ValidIsReported
      /\ \A i \in Idx : EntryOK(i) /\ ~JustAdded(i)
  BY <1>1 DEF IInv, UploadIndex, Entries, JustAdded
<1>3. upload_i' \in 0 .. MaxBeacons /\ Lockstep' /\ UploadIndex'
  BY <1>1, <1>2, TableAssumption DEF Idx, Lockstep, UploadIndex
<1>4. CASE Used(beacon_tbl, upload_i) /\ beacon_tbl[upload_i].updated = 1
  <2>1. /\ beacon_tbl' \in [Idx -> Entry]
        /\ \A i \in Idx :
              /\ Used(beacon_tbl, i)' <=> Used(beacon_tbl, i)
              /\ beacon_tbl'[i].temp = beacon_tbl[i].temp
        /\ beacon_tbl'[upload_i].updated = 0
        /\ \A i \in Idx : i # upload_i => beacon_tbl'[i] = beacon_tbl[i]
        /\ beacon_data_res_tbl' = [beacon_data_res_tbl EXCEPT ![upload_i] =
              [by |-> "device", val |-> beacon_tbl[upload_i].temp]]
        /\ beacon_data_res_tbl' \in [Idx -> TempRes]
        /\ reported' = reported \cup {upload_i}
    BY <1>1, <1>2, <1>4, UploadEntryFacts
  <2>2. TypeOK'
    BY <1>1, <1>2, <1>3, <2>1 DEF TypeOK, UploadTypeOK, BodyPc
  <2>3. TableAgrees' /\ ValidIsReported'
    BY <1>1, <1>2, <2>1 DEF TableAgrees, ValidIsReported
  <2>4. Entries'
    <3> SUFFICES ASSUME NEW i \in Idx PROVE EntryOK(i)'
      BY DEF Entries
    <3>1. CASE i = upload_i
      <4>1. beacon_data_res_tbl'[i] = [by |-> "device", val |-> beacon_tbl[i].temp]
        BY <1>2, <2>1, <3>1 DEF TypeOK, UploadTypeOK
      <4>2. InStep(i)'
        BY <2>1, <3>1, <4>1 DEF InStep
      <4>3. beacon_tbl[i].temp \in DummyTemp .. DummyLimit
        BY <1>2, <1>4, <3>1 DEF EntryOK
      <4> QED
        BY <1>4, <2>1, <3>1, <4>2, <4>3 DEF EntryOK
    <3>2. CASE i # upload_i
      <4>1. /\ beacon_tbl'[i] = beacon_tbl[i]
            /\ beacon_data_res_tbl'[i] = beacon_data_res_tbl[i]
            /\ i \in reported' <=> i \in reported
        BY <1>2, <2>1, <3>2 DEF TypeOK, UploadTypeOK
      <4>2. ToUpload(i) => ToUpload(i)'
        BY <1>1, <1>2, <3>2, <4>1, TableAssumption DEF ToUpload, Idx
      <4>3. InStep(i) => InStep(i)'
        BY <4>1 DEF InStep
      <4> QED
        BY <1>2, <2>1, <4>1, <4>2, <4>3 DEF EntryOK
    <3> QED
      BY <3>1, <3>2
  <2> QED
    BY <1>3, <2>2, <2>3, <2>4 DEF IInv
<1>5. CASE ~(Used(beacon_tbl, upload_i) /\ beacon_tbl[upload_i].updated = 1)
  <2>1. UNCHANGED <<beacon_data_res_tbl, beacon_tbl, reported>>
    BY <1>1, <1>5 DEF UploadEntry, Used
  <2>2. TypeOK' /\ TableAgrees' /\ ValidIsReported'
    BY <1>1, <1>2, <1>3, <2>1
       DEF TypeOK, UploadTypeOK, BodyPc, TableAgrees, ValidIsReported, Used
  <2>3. Entries'
    <3> SUFFICES ASSUME NEW i \in Idx PROVE EntryOK(i)'
      BY DEF Entries
    <3>1. Used(beacon_tbl, i) /\ beacon_tbl[i].updated = 1 /\ ToUpload(i)
            => ToUpload(i)'
      BY <1>1, <1>2, <1>5, <2>1, TableAssumption DEF ToUpload, Idx
    <3> QED
      BY <1>2, <2>1, <3>1 DEF EntryOK, InStep, Used
  <2> QED
    BY <1>3, <2>2, <2>3 DEF IInv
<1> QED
  BY <1>4, <1>5

LEMMA BitmapKeeps == IInv /\ Bitmap /\ UNCHANGED dummy_update_idx => IInv'
<1> SUFFICES ASSUME IInv, Bitmap, UNCHANGED dummy_update_idx PROVE IInv'
  OBVIOUS
<1>1. /\ pc = "bitmap" /\ pc' = "wait" /\ upload_i' = 0
      /\ pelion_data_valid_bmp' = [by |-> "device", val |-> data_valid_bmp]
      /\ UNCHANGED <<tableVars, beacon_data_res_tbl, reported, dummy_update_idx>>
  BY DEF Bitmap, Goto
<1>2. /\ TypeOK /\ TableAgrees /\ Lockstep
      /\ \A i \in Idx : EntryOK(i) /\ ~JustAdded(i) /\ ~ToUpload(i)
  BY <1>1 DEF IInv, Entries, JustAdded, ToUpload
<1>3. TypeOK'
  BY <1>1, <1>2, TableAssumption
     DEF TypeOK, UploadTypeOK, BodyPc, BmpRes, Writers, Idx, tableVars
<1>4. TableAgrees' /\ Lockstep' /\ UploadIndex'
  BY <1>1, <1>2 DEF TableAgrees, Lockstep, UploadIndex, Used, tableVars
<1>5. Entries'
  BY <1>1, <1>2 DEF Entries, EntryOK, InStep, Used, tableVars
<1>6. ValidIsReported'
  BY <1>1, <1>2
     DEF ValidIsReported, TypeOK, UploadTypeOK, TableAgrees, EntryOK, InStep
<1> QED
  BY <1>3, <1>4, <1>5, <1>6 DEF IInv

LEMMA ServerKeeps == IInv /\ Server => IInv'
<1> SUFFICES ASSUME IInv, Server PROVE IInv'
  OBVIOUS
<1>1. pc' = pc /\ UNCHANGED <<tableVars, reported, upload_i, dummy_update_idx>>
  BY DEF Server, ServerPut, ServerPutTemp, ServerPutBitmap, clientVars
<1>2. /\ beacon_data_res_tbl' \in [Idx -> TempRes]
      /\ \A i \in Idx : beacon_data_res_tbl'[i].by = "device"
            => beacon_data_res_tbl'[i] = beacon_data_res_tbl[i]
      /\ pelion_data_valid_bmp' \in BmpRes
      /\ pelion_data_valid_bmp'.by = "device"
            => pelion_data_valid_bmp' = pelion_data_valid_bmp
  <2>1. CASE ServerPutTemp
    <3>1. PICK j \in Idx, t \in ServerTemps :
            beacon_data_res_tbl' =
              [beacon_data_res_tbl EXCEPT ![j] = [by |-> "server", val |-> t]]
      BY <2>1 DEF ServerPutTemp
    <3>2. [by |-> "server", val |-> t] \in TempRes
      BY UploadAssumption DEF TempRes, Writers
    <3> QED
      BY <2>1, <3>1, <3>2 DEF ServerPutTemp, IInv, TypeOK, UploadTypeOK
  <2>2. CASE ServerPutBitmap
    BY <2>2, UploadAssumption
       DEF ServerPutBitmap, BmpRes, Writers, IInv, TypeOK, UploadTypeOK
  <2> QED
    BY <2>1, <2>2 DEF Server, ServerPut
<1>3. TypeOK'
  BY <1>1, <1>2 DEF IInv, TypeOK, UploadTypeOK, tableVars
<1>4. TableAgrees' /\ Lockstep' /\ UploadIndex' /\ ValidIsReported'
  BY <1>1, <1>2
     DEF IInv, TableAgrees, Lockstep, UploadIndex, ValidIsReported, Used, tableVars
<1>5. Entries'
  <2> SUFFICES ASSUME NEW i \in Idx PROVE EntryOK(i)'
    BY DEF Entries
  <2>1. EntryOK(i)
    BY DEF IInv, Entries
  <2> QED
    BY <1>1, <1>2, <2>1
       DEF EntryOK, JustAdded, ToUpload, InStep, Used, tableVars
<1> QED
  BY <1>3, <1>4, <1>5 DEF IInv

LEMMA NextIInv == IInv /\ [Next]_vars => IInv'
<1> SUFFICES ASSUME IInv, [Next]_vars PROVE IInv'
  OBVIOUS
<1>1. CASE Register
  BY <1>1, RegisterKeeps
<1>2. CASE Loop
  BY <1>2, LoopKeeps
<1>3. CASE AddDummy
  BY <1>3, AddDummyKeeps
<1>4. CASE UpdateDummy
  BY <1>4, UpdateDummyKeeps
<1>5. CASE Finish
  BY <1>5, UploadKeeps, BitmapKeeps, WaitKeeps DEF Finish, UploadAndWait
<1>6. CASE Callback
  BY <1>6, CallbackKeeps
<1>7. CASE Server
  BY <1>7, ServerKeeps
<1>8. CASE UNCHANGED vars
  BY <1>8, QuietStep DEF vars, clientVars
<1> QED
  BY <1>1, <1>2, <1>3, <1>4, <1>5, <1>6, <1>7, <1>8 DEF Next, Application

-----------------------------------------------------------------------------
(* The results                                                             *)

\* Every state main_application can reach has the invariant above.
THEOREM Invariance == Spec => []IInv
<1> QED
  BY InitIInv, NextIInv, PTL DEF Spec

\* The table, its two shadows, the resources and both indices stay in their
\* types: no index of main_application leaves the table.
THEOREM TypeCorrect == Spec => []TypeOK
<1>1. IInv => TypeOK
  BY DEF IInv
<1> QED
  BY <1>1, Invariance, PTL

\* The element_used flags of ble_beacon.c, data_valid_bmp and
\* connected_beacons of main.cpp always describe the same beacons.
THEOREM TablesAgree == Spec => []TableAgrees
<1>1. IInv => TableAgrees
  BY DEF IInv
<1> QED
  BY <1>1, Invariance, PTL

\* dummy_update_beacon_data never prints "Invalid dummy device index!".
THEOREM DummyIndexIsValid == Spec => []NeverInvalidDummy
<1>1. IInv => NeverInvalidDummy
  <2> SUFFICES ASSUME IInv, pc = "update" PROVE Used(beacon_tbl, dummy_update_idx)
    BY DEF NeverInvalidDummy
  <2>1. dummy_update_idx \in Idx /\ dummy_update_idx < connected_beacons
    BY TableAssumption DEF IInv, TypeOK, UploadTypeOK, Lockstep, Idx
  <2> QED
    BY <2>1 DEF IInv, TableAgrees
<1> QED
  BY <1>1, Invariance, PTL

\* A bitmap sent by main_application names only beacons whose temperature it
\* has sent before, whatever the server wrote in between.
THEOREM AnnouncedAreReported == Spec => []ValidIsReported
<1>1. IInv => ValidIsReported
  BY DEF IInv
<1> QED
  BY <1>1, Invariance, PTL

\* update_beacon_cloud_data skips an entry only if its resource already has
\* the temperature of the table, or was overwritten by the server.
THEOREM ResourcesInStep == Spec => []CloudInStep
<1>1. IInv => CloudInStep
  BY DEF IInv, Entries, EntryOK, InStep, CloudInStep
<1> QED
  BY <1>1, Invariance, PTL

-----------------------------------------------------------------------------
(* The default build implements CloudView                                  *)

viewOf == <<beacon_data_res_tbl, pelion_data_valid_bmp, reported>>

LEMMA ViewInitially == Init => View!ViewInit
BY DEF Init, UploadInit, View!ViewInit, Idx, View!Idx

\* One iteration of the upload loop reports an entry or does nothing.
LEMMA UploadIsReport ==
    ASSUME IInv, Upload
    PROVE  View!ViewNext \/ UNCHANGED viewOf
<1>1. pc = "upload" /\ UploadEntry /\ UNCHANGED pelion_data_valid_bmp
  BY DEF Upload, Goto
<1>2. /\ TypeOK /\ TableAgrees /\ upload_i \in Idx
      /\ \A i \in Idx : EntryOK(i) /\ ~JustAdded(i)
  BY <1>1 DEF IInv, UploadIndex, Entries, JustAdded
<1>3. CASE Used(beacon_tbl, upload_i) /\ beacon_tbl[upload_i].updated = 1
  <2> DEFINE t == beacon_tbl[upload_i].temp
  <2>1. /\ beacon_data_res_tbl' = [beacon_data_res_tbl EXCEPT ![upload_i] =
              [by |-> "device", val |-> t]]
        /\ reported' = reported \cup {upload_i}
    BY <1>1, <1>2, <1>3, UploadEntryFacts
  <2>2. t \in DummyTemp .. DummyLimit /\ ToUpload(upload_i)
    BY <1>2, <1>3 DEF EntryOK
  <2>3. ASSUME NEW j \in Idx, j < upload_i PROVE j \in reported
    <3>1. Used(beacon_tbl, j)
      BY <1>2, <1>3, <2>3, TableAssumption
         DEF TableAgrees, TypeOK, UploadTypeOK, Idx
    <3>2. ~ToUpload(j)
      BY <1>2, <2>3, TableAssumption DEF ToUpload, Idx
    <3> QED
      BY <1>2, <3>1, <3>2 DEF EntryOK, InStep
  <2>4. View!Report(upload_i, t)
    BY <1>1, <2>1, <2>2, <2>3
       DEF View!Report, View!Idx, Idx, ToUpload, NextDummyTemp, View!NextDummyTemp
  <2> QED
    BY <1>2, <2>2, <2>4 DEF View!ViewNext, View!Idx, Idx
<1>4. CASE ~(Used(beacon_tbl, upload_i) /\ beacon_tbl[upload_i].updated = 1)
  BY <1>1, <1>4 DEF UploadEntry, Used, viewOf
<1> QED
  BY <1>3, <1>4

\* When the loop is over the validity bits are the reported beacons.
LEMMA BitmapIsAnnounce ==
    ASSUME IInv, Bitmap
    PROVE  View!ViewNext
<1>1. /\ pc = "bitmap"
      /\ pelion_data_valid_bmp' = [by |-> "device", val |-> data_valid_bmp]
      /\ UNCHANGED <<beacon_data_res_tbl, reported>>
  BY DEF Bitmap, Goto
<1>2. \A i \in Idx : Used(beacon_tbl, i) <=> i \in reported
  BY <1>1 DEF IInv, Entries, EntryOK, JustAdded, ToUpload, InStep
<1>3. data_valid_bmp = reported
  BY <1>2 DEF IInv, TypeOK, UploadTypeOK, TableAgrees
<1> QED
  BY <1>1, <1>3 DEF View!ViewNext, View!Announce

LEMMA ServerIsOverride ==
    ASSUME Server
    PROVE  View!ViewNext
<1>1. CASE ServerPutTemp
  BY <1>1 DEF ServerPutTemp, View!ViewNext, View!OverrideTemperature, Idx, View!Idx
<1>2. CASE ServerPutBitmap
  BY <1>2 DEF ServerPutBitmap, View!ViewNext, View!OverrideValidity
<1> QED
  BY <1>1, <1>2 DEF Server, ServerPut

LEMMA StepIsViewStep ==
    ASSUME IInv, [Next]_vars
    PROVE  [View!ViewNext]_viewOf
<1> USE DEF viewOf, uploadVars, resourceVars
<1>1. CASE Register \/ Loop \/ Callback
  BY <1>1 DEF Register, Loop, Callback
<1>2. CASE AddDummy \/ UpdateDummy
  BY <1>2 DEF AddDummy, UpdateDummy
<1>3. CASE Finish
  BY <1>3, UploadIsReport, BitmapIsAnnounce DEF Finish, UploadAndWait, Wait
<1>4. CASE Server
  BY <1>4, ServerIsOverride
<1>5. CASE UNCHANGED vars
  BY <1>5 DEF vars
<1> QED
  BY <1>1, <1>2, <1>3, <1>4, <1>5 DEF Next, Application

\* Seen from the server, the default build does to its resources what
\* CloudView allows: beacons appear in order, each sample is the successor of
\* the one before, and a bitmap names exactly the beacons reported.
THEOREM DummyImplementsView == Spec => ImplementsView
<1>1. IInv /\ [Next]_vars => [View!ViewNext]_(View!viewVars)
  BY StepIsViewStep DEF viewOf, View!viewVars
<1> QED
  BY <1>1, ViewInitially, Invariance, PTL
     DEF Spec, ImplementsView, View!ViewSpec
-----------------------------------------------------------------------------
(* The client of the default build is CloudClient: each step is one of its *)
(* steps or none, so the build has the properties of CloudClientProofs     *)

LEMMA ClientInitially == Init => Client!ClientInit
BY DEF Init, ClientInit, Client!ClientInit, BodyPc

\* Every step of register_and_connect is that step of the client.
LEMMA RegisterIsClientStep ==
    ASSUME Register
    PROVE  Client!RegisterAndConnect
<1> USE DEF BodyPc, connVars, flagVars, updateVars, libVars,
            Client!connVars, Client!flagVars, Client!updateVars, Client!libVars
<1>1. CASE NoInterface
  BY <1>1 DEF NoInterface, Client!NoInterface, Client!RegisterAndConnect
<1>2. CASE ConnectFails
  BY <1>2 DEF ConnectFails, Client!ConnectFails, Client!RegisterAndConnect
<1>3. CASE ConnectSucceeds
  BY <1>3 DEF ConnectSucceeds, Client!ConnectSucceeds, Client!RegisterAndConnect
<1>4. CASE Setup
  BY <1>4 DEF Setup, Client!Setup, Client!RegisterAndConnect
<1>5. CASE Mark
  BY <1>5 DEF Mark, Client!Mark, Client!RegisterAndConnect
<1>6. CASE SetClient
  BY <1>6 DEF SetClient, Client!SetClient, Client!RegisterAndConnect
<1>7. CASE SetAuthorize
  BY <1>7 DEF SetAuthorize, Client!SetAuthorize, Client!RegisterAndConnect
<1> QED
  BY <1>1, <1>2, <1>3, <1>4, <1>5, <1>6, <1>7 DEF Register, RegisterAndConnect

\* Every callback is that callback of the client.
LEMMA CallbackIsClientStep ==
    ASSUME Callback
    PROVE  Client!EventLoop
<1> USE DEF BodyPc, connVars, flagVars, updateVars, libVars,
            Client!connVars, Client!flagVars, Client!updateVars, Client!libVars
<1>1. CASE ClientRegistered
  BY <1>1 DEF ClientRegistered, Client!ClientRegistered, Client!EventLoop
<1>2. CASE ClientError
  BY <1>2 DEF ClientError, Client!ClientError, Client!EventLoop
<1>3. CASE PostUnregister
  BY <1>3 DEF PostUnregister, close, Client!PostUnregister, Client!close,
            Client!EventLoop
<1>4. CASE PostFactoryReset
  BY <1>4 DEF PostFactoryReset, close, Client!PostFactoryReset, Client!close,
            Client!EventLoop
<1>5. CASE FactoryReset
  BY <1>5 DEF FactoryReset, Client!FactoryReset, Client!EventLoop
<1>6. CASE ClientUnregistered
  BY <1>6 DEF ClientUnregistered, Client!ClientUnregistered, Client!EventLoop
<1>7. CASE UnregisteredReturns
  BY <1>7 DEF UnregisteredReturns, Client!UnregisteredReturns, Client!EventLoop
<1>8. CASE UpdateRequest
  BY <1>8 DEF UpdateRequest, Client!UpdateRequest, NextFw, Client!NextFw,
              Client!EventLoop
<1> QED
  BY <1>1, <1>2, <1>3, <1>4, <1>5, <1>6, <1>7, <1>8 DEF Callback, EventLoop

\* The body of the loop is one step of the client: its last.
LEMMA StepIsClientStep ==
    ASSUME [Next]_vars
    PROVE  [Client!ClientNext]_(Client!clientVars)
<1> USE DEF BodyPc, clientData, connVars, flagVars, updateVars, libVars,
            Client!clientVars, Client!clientData, Client!connVars,
            Client!flagVars, Client!updateVars, Client!libVars
<1>1. CASE Register
  BY <1>1, RegisterIsClientStep DEF Client!ClientNext
<1>2. CASE Loop
  BY <1>2 DEF Loop, CheckLoop, Goto, Client!ClientNext, Client!CheckLoop, Client!Goto
<1>3. CASE AddDummy \/ UpdateDummy
  BY <1>3 DEF AddDummy, UpdateDummy, Goto
<1>4. CASE Finish
  <2>1. CASE Upload \/ Bitmap
    BY <2>1 DEF Upload, Bitmap, Goto
  <2>2. CASE Wait
    BY <2>2 DEF Wait, Goto, Client!ClientNext, Client!LoopBody, Client!Goto
  <2> QED
    BY <1>4, <2>1, <2>2 DEF Finish, UploadAndWait
<1>5. CASE Callback
  BY <1>5, CallbackIsClientStep DEF Client!ClientNext
<1>6. CASE Server \/ UNCHANGED vars
  BY <1>6 DEF Server, ServerPut, vars, clientVars
<1> QED
  BY <1>1, <1>2, <1>3, <1>4, <1>5, <1>6 DEF Next, Application

-----------------------------------------------------------------------------
(* The results                                                             *)

\* Adding beacons, moving their temperatures on and uploading them do nothing
\* to SimpleM2MClient that CloudClient does not allow.
THEOREM DummyImplementsClient == Spec => ImplementsClient
<1> QED
  BY ClientInitially, StepIsClientStep, PTL
     DEF Spec, ImplementsClient, Client!ClientSpec

\* The same client, with the theorems about it.
Proved == INSTANCE CloudClientProofs
              WITH pc <- IF pc \in BodyPc THEN "work" ELSE pc

LEMMA SameClient ==
    /\ Client!ClientInit <=> Proved!ClientInit
    /\ [Client!ClientNext]_(Client!clientVars)
          <=> [Proved!ClientNext]_(Proved!clientVars)
<1> USE DEF Client!ClientInit, Proved!ClientInit, Client!NoInterface,
            Proved!NoInterface, Client!ConnectFails, Proved!ConnectFails,
            Client!ConnectSucceeds, Proved!ConnectSucceeds, Client!Setup,
            Proved!Setup, Client!Mark, Proved!Mark, Client!SetClient,
            Proved!SetClient, Client!SetAuthorize, Proved!SetAuthorize,
            Client!RegisterAndConnect, Proved!RegisterAndConnect,
            Client!CheckLoop, Proved!CheckLoop, Client!Goto, Proved!Goto,
            Client!LoopBody, Proved!LoopBody, Client!ClientRegistered,
            Proved!ClientRegistered, Client!ClientError, Proved!ClientError,
            Client!close, Proved!close, Client!PostUnregister, Proved!PostUnregister,
            Client!PostFactoryReset, Proved!PostFactoryReset,
            Client!FactoryReset, Proved!FactoryReset,
            Client!ClientUnregistered, Proved!ClientUnregistered,
            Client!UnregisteredReturns, Proved!UnregisteredReturns,
            Client!NextFw, Proved!NextFw, Client!UpdateRequest,
            Proved!UpdateRequest, Client!EventLoop, Proved!EventLoop,
            Client!ClientNext, Proved!ClientNext, Client!clientVars,
            Proved!clientVars, Client!clientData, Proved!clientData,
            Client!connVars, Proved!connVars, Client!flagVars,
            Proved!flagVars, Client!updateVars, Proved!updateVars,
            Client!libVars, Proved!libVars
<1>1. Client!ClientInit <=> Proved!ClientInit
  OBVIOUS
<1>2. [Client!ClientNext]_(Client!clientVars)
        <=> [Proved!ClientNext]_(Proved!clientVars)
  OBVIOUS
<1> QED
  BY <1>1, <1>2

\* In the default build too the loop is left only after client_unregistered or
\* for want of a network, no factory reset runs past that point or on a device
\* that stays, update_authorize always has its client, and _registered is
\* never left set on a device that is unregistered.
THEOREM DummyClientSafe ==
    Spec => [](/\ ExitReason /\ ResetBeforeExit /\ WipedIsLeaving
               /\ NeverNullClient /\ RegisteredIsHonest)
<1>1. Spec => Proved!ClientSpec
  BY ClientInitially, StepIsClientStep, SameClient, PTL
     DEF Spec, Proved!ClientSpec
<1>2. Proved!ClientSpec =>
        [](/\ Proved!ExitReason /\ Proved!ResetBeforeExit /\ Proved!WipedIsLeaving
           /\ Proved!NeverNullClient /\ Proved!RegisteredIsHonest)
  BY Proved!ExitHasReason, Proved!ResetIsOverAtExit, Proved!ResetOnlyWhenLeaving,
     Proved!ClientIsSet, Proved!RegisteredHonest, RetriesAssumption, PTL
     DEF Proved!RetriesAssumption
<1>3. /\ Proved!ExitReason /\ Proved!ResetBeforeExit /\ Proved!WipedIsLeaving
      /\ Proved!NeverNullClient /\ Proved!RegisteredIsHonest
      => /\ ExitReason /\ ResetBeforeExit /\ WipedIsLeaving
         /\ NeverNullClient /\ RegisteredIsHonest
  BY DEF Proved!ExitReason, Proved!ResetBeforeExit, Proved!WipedIsLeaving,
         Proved!NeverNullClient, Proved!RegisteredIsHonest, ExitReason,
         ResetBeforeExit, WipedIsLeaving, NeverNullClient, RegisteredIsHonest,
         BodyPc
<1> QED
  BY <1>1, <1>2, <1>3, PTL
=============================================================================
