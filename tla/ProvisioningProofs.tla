------------------------- MODULE ProvisioningProofs --------------------------
(***************************************************************************)
(* Proofs about the start of the program, for every set of builds.         *)
(***************************************************************************)
EXTENDS Provisioning, TLAPS

-----------------------------------------------------------------------------
(* The inductive invariant                                                 *)

\* mcc_platform_storage_init has not ended; a format belongs to it unless it
\* belongs to mcc_platform_reformat_storage.
Formats == {"format", "formatting"}
InStorageInit ==
    \/ pc \in {"trace", "bd_init", "mount", "test", "partition"}
    \/ pc \in Formats /\ after # "wiped"
InReformat == pc \in Formats /\ after = "wiped"

\* The partitions before the one at hand are in order, and it is in the MBR
\* once it has been initialised.
PartitionsSoFar ==
    /\ InStorageInit => 1 .. (part - 1) \subseteq formatted
    /\ pc \in {"test", "format", "formatting"} => part \in Known
    /\ pc = "mount" /\ creating # 0 => part \in mbr
    /\ pc \in {"trace", "bd_init"} => creating = 0 /\ fs = {}
    /\ pc = "bd_init" /\ ~Linux => part = 1
    /\ pc = "trace" => part = 1
    /\ pc = "mount" /\ creating = 0 /\ part = 1 => 1 \notin fs
    /\ pc = "partition" => creating # 0
    /\ pc # "exit" /\ ~InStorageInit => creating = 0

\* Which kind of build can be where.
Ports ==
    /\ pc \in {"mount", "partition"} => Partitioned
    /\ creating # 0 => Partitioned
    /\ pc \in {"test", "format", "formatting"} => ~Linux
    /\ InReformat => Partitioned

\* While everything is reformatted only the partition at hand is without a
\* file system.
ReformatKeepsRest ==
    /\ InReformat => (1 .. Last) \ {part} \subseteq formatted
    /\ pc = "format" /\ after = "wiped" => part \in formatted

\* Which part of application_init_fcc can be where.
Stages ==
    /\ InStorageInit \/ pc \in {"platform_init", "fcc_init"} => stage = "start"
    /\ InReformat \/ pc = "delete" => stage # "start"
    /\ stage = "reset" => build.reset
    /\ stage = "start" /\ pc \in {"developer_flow", "developer_flow_rest", "verify"} =>
           ~build.reset
    /\ InReformat => fcc_up
    /\ pc = "run" => fcc_up

\* Where the credentials can be: on a card in order, and gone once the first
\* partition has been reformatted.
WhereCredentials ==
    /\ creds # "none" => 1 \in formatted /\ 1 .. Last \subseteq Known
    /\ pc = "developer_flow_rest" => creds = "some"
    /\ InReformat /\ (pc = "formatting" \/ part = 2) => creds = "none"
    /\ pc = "delete" /\ stage = "recover" => creds = "none" \/ Linux
    /\ pc = "run" => Configured

\* In a start in which no call has failed: partitions are created only on a
\* card that was never complete, the credentials are verified with the root
\* of trust and the entropy set, and a recovery leads to complete credentials.
\* Only a board that cannot be reformatted may end.
WithoutFault ==
    ~faulted =>
        /\ creds # "none" => creating = 0
        /\ pc = "rot_set" => build.pal.hw_trng \/ entropy
        /\ pc \in {"developer_flow", "developer_flow_rest", "verify"} =>
               rot /\ (build.pal.hw_trng \/ entropy)
        /\ stage = "recover" /\ pc \in {"entropy_set", "rot_set", "developer_flow"} =>
               creds = "none"
        /\ stage = "recover" /\ pc = "verify" => creds = "all"
        /\ pc = "format" /\ after # "wiped" /\ part = 1 => creds = "none"
        /\ pc = "format" /\ after = "wiped" /\ ~build.reset => creds # "all"
        /\ pc = "delete" /\ stage = "recover" => creds # "all"
        /\ stage = "reset" /\ pc \in {"entropy_set", "rot_set", "developer_flow"} =>
               creds = "none"
        /\ stage = "reset" /\ pc = "verify" => creds = "all"
        /\ stage = "start" /\ pc = "verify" => creds # "none"
        /\ pc = "exit" /\ build.auto_format =>
               ~Partitioned /\ ~Linux /\ ~build.reset /\ creds = "some"

PInv ==
    /\ TypeOK
    /\ PartitionsSoFar
    /\ Ports
    /\ ReformatKeepsRest
    /\ Stages
    /\ WhereCredentials
    /\ WithoutFault
    /\ StorageReady
    /\ FccOnlyWhileUp
-----------------------------------------------------------------------------
(* Initial states                                                          *)

\* What the provers need to know of a build.
LEMMA BuildFields ==
    ASSUME build \in Builds
    PROVE  /\ Last \in {1, 2}
           /\ build.reset \in BOOLEAN /\ build.auto_format \in BOOLEAN
           /\ build.pal.hw_trng \in BOOLEAN
           /\ Linux => ~Partitioned
           /\ ~Linux /\ ~Partitioned => Last = 1
BY BuildsAssumption DEF Last, Linux, Partitioned, Header

\* A step that keeps the build keeps what it says.
LEMMA BuildKept ==
    ASSUME build' = build
    PROVE  /\ Last' = Last /\ Linux' = Linux /\ Partitioned' = Partitioned
           /\ build'.pal.hw_trng = build.pal.hw_trng
BY DEF Last, Linux, Partitioned

\* A card whose partitions are in order up to the last one is in order.
LEMMA PrefixIsAll ==
    ASSUME NEW n \in {1, 2}, NEW S, S \subseteq 1 .. n, 1 .. (n - 1) \subseteq S, n \in S
    PROVE  S = 1 .. n
<1>1. CASE n = 1
  <2>1. 1 .. n = {1}
    BY <1>1
  <2> QED
    BY <1>1, <2>1
<1>2. CASE n = 2
  <2>1. 1 .. n = {1, 2} /\ 1 \in 1 .. (n - 1)
    BY <1>2
  <2> QED
    BY <1>2, <2>1
<1> QED
  BY <1>1, <1>2

LEMMA InitPInv == Init => PInv
<1> SUFFICES ASSUME Init PROVE PInv
  OBVIOUS
<1>1. Last \in {1, 2}
  BY BuildFields DEF Init
<1> USE <1>1 DEF Init, PowerOn
<1>2. faulted \in BOOLEAN /\ fcc_up \in BOOLEAN /\ retry \in BOOLEAN /\ rot \in BOOLEAN
  BY Zenon
<1>3. creating \in 0 .. Last /\ part \in 1 .. Last
  OBVIOUS
<1>6. TypeOK
  BY <1>2, <1>3 DEF TypeOK, FccCalls
<1>4. PartitionsSoFar /\ Ports /\ ReformatKeepsRest /\ Stages
  BY DEF PartitionsSoFar, Ports, ReformatKeepsRest, Stages, InStorageInit, InReformat, Formats
<1>5. WhereCredentials /\ WithoutFault
  BY DEF WhereCredentials, WithoutFault, InReformat, Formats
<1>7. StorageReady /\ FccOnlyWhileUp
  BY DEF StorageReady, FccOnlyWhileUp, FccCalls
<1> QED
  BY <1>4, <1>5, <1>6, <1>7 DEF PInv

-----------------------------------------------------------------------------
(* Storage                                                                 *)

LEMMA StoragePInv == PInv /\ StorageNext /\ UNCHANGED <<build, fccVars>> => PInv'
<1> SUFFICES ASSUME PInv, StorageNext, UNCHANGED <<build, fccVars>> PROVE PInv'
  OBVIOUS
<1>0. /\ Last \in {1, 2} /\ Last' = Last
      /\ Linux' = Linux /\ Partitioned' = Partitioned
      /\ build' = build /\ build.pal.hw_trng \in BOOLEAN
      /\ build.reset \in BOOLEAN /\ build.auto_format \in BOOLEAN
      /\ Linux => ~Partitioned
      /\ ~Linux /\ ~Partitioned => Last = 1
  BY BuildFields, BuildKept DEF PInv, TypeOK
<1> USE <1>0 DEF PInv, TypeOK, FccCalls, InStorageInit, InReformat, Formats,
        Known, Ports, fccVars, cardVars, Call
<1>1. CASE BdInit
  <2> USE <1>1 DEF BdInit
  <2>1. TypeOK'
    OBVIOUS
  <2>2. PartitionsSoFar' /\ Ports'
    BY DEF PartitionsSoFar
  <2>3. ReformatKeepsRest'
    BY DEF ReformatKeepsRest
  <2>4. Stages'
    BY DEF Stages
  <2>5. WhereCredentials'
    BY DEF WhereCredentials
  <2>6. WithoutFault'
    BY DEF WithoutFault
  <2>7. StorageReady' /\ FccOnlyWhileUp'
    BY DEF StorageReady, FccOnlyWhileUp
  <2> QED
    BY <2>1, <2>2, <2>3, <2>4, <2>5, <2>6, <2>7
<1>2. CASE Mount
  <2> USE <1>2 DEF Mount, PartitionFailed
  <2>1. TypeOK'
    <3>1. PICK ok \in BOOLEAN : faulted' = (faulted \/ ~ok)
      OBVIOUS
    <3>2. faulted' \in BOOLEAN
      BY <3>1, Zenon
    <3>3. part' \in 1 .. Last /\ creating' \in 0 .. Last
      OBVIOUS
    <3>4. fs' \subseteq 1 .. Last
      OBVIOUS
    <3> QED
      BY <3>2, <3>3, <3>4
  <2>2. PartitionsSoFar' /\ Ports'
    BY DEF PartitionsSoFar
  <2>3. ReformatKeepsRest'
    BY DEF ReformatKeepsRest
  <2>4. Stages'
    BY DEF Stages
  <2>5. WhereCredentials'
    BY DEF WhereCredentials
  <2>6. WithoutFault'
    BY DEF WithoutFault, WhereCredentials, PartitionsSoFar
  <2>7. StorageReady' /\ FccOnlyWhileUp'
    BY DEF StorageReady, FccOnlyWhileUp
  <2> QED
    BY <2>1, <2>2, <2>3, <2>4, <2>5, <2>6, <2>7
<1>3. CASE Test
  <2> USE <1>3 DEF Test, PartitionDone, MountNext
  <2>1. TypeOK'
    OBVIOUS
  <2>2. PartitionsSoFar' /\ Ports'
    BY DEF PartitionsSoFar
  <2>3. ReformatKeepsRest'
    BY DEF ReformatKeepsRest
  <2>4. Stages'
    BY DEF Stages
  <2>5. WhereCredentials'
    BY DEF WhereCredentials
  <2>6. WithoutFault'
    BY DEF WithoutFault, WhereCredentials
  <2>7. StorageReady' /\ FccOnlyWhileUp'
    <3>1. pc' = "platform_init" =>
             part = Last /\ part \in formatted' /\ 1 .. (part - 1) \subseteq formatted'
      BY DEF PartitionsSoFar
    <3>2. pc' \notin FccCalls \cup {"fcc_init", "run"}
      OBVIOUS
    <3>3. formatted' \subseteq 1 .. Last
      OBVIOUS
    <3>4. pc' = "platform_init" => formatted' = 1 .. Last
      <4> HIDE DEF Test, PartitionDone, MountNext
      <4> QED
        BY <3>1, <3>3, PrefixIsAll
    <3> QED
      BY <3>2, <3>4 DEF StorageReady, FccOnlyWhileUp
  <2> QED
    BY <2>1, <2>2, <2>3, <2>4, <2>5, <2>6, <2>7
<1>4. CASE CreatePartition
  <2> USE <1>4 DEF CreatePartition
  <2>1. TypeOK'
    OBVIOUS
  <2>2. PartitionsSoFar' /\ Ports'
    <3>1. pc' = "mount" => part' \in mbr'
      BY DEF PartitionsSoFar
    <3>2. 1 .. (part' - 1) \subseteq formatted'
      BY DEF PartitionsSoFar
    <3> QED
      BY <3>1, <3>2 DEF PartitionsSoFar
  <2>3. ReformatKeepsRest'
    BY DEF ReformatKeepsRest
  <2>4. Stages'
    BY DEF Stages
  <2>5. WhereCredentials'
    BY DEF WhereCredentials
  <2>6. WithoutFault'
    BY DEF WithoutFault
  <2>7. StorageReady' /\ FccOnlyWhileUp'
    BY DEF StorageReady, FccOnlyWhileUp
  <2> QED
    BY <2>1, <2>2, <2>3, <2>4, <2>5, <2>6, <2>7
<1>5. CASE FormatStarts
  <2> USE <1>5 DEF FormatStarts, FormatFails, PartitionFailed
  <2>1. TypeOK'
    <3>1. PICK ok \in BOOLEAN : faulted' = (faulted \/ ~ok)
      OBVIOUS
    <3>2. faulted' \in BOOLEAN
      BY <3>1, Zenon
    <3>3. part' \in 1 .. Last /\ creating' \in 0 .. Last
      OBVIOUS
    <3>4. formatted' \subseteq Known'
      OBVIOUS
    <3> QED
      BY <3>2, <3>3, <3>4
  <2>2. PartitionsSoFar' /\ Ports'
    BY DEF PartitionsSoFar
  <2>3. ReformatKeepsRest'
    BY DEF ReformatKeepsRest
  <2>4. Stages'
    BY DEF Stages
  <2>5. WhereCredentials'
    BY DEF WhereCredentials
  <2>6. WithoutFault'
    BY DEF WithoutFault
  <2>7. StorageReady' /\ FccOnlyWhileUp'
    BY DEF StorageReady, FccOnlyWhileUp
  <2> QED
    BY <2>1, <2>2, <2>3, <2>4, <2>5, <2>6, <2>7
<1>6. CASE FormatEnds
  <2> USE <1>6 DEF FormatEnds, FormatFails, FormatSucceeds, PartitionFailed,
              PartitionDone, MountNext
  <2>1. TypeOK'
    BY DEF PartitionsSoFar
  <2>2. PartitionsSoFar' /\ Ports'
    BY DEF PartitionsSoFar, ReformatKeepsRest
  <2>3. ReformatKeepsRest'
    BY DEF ReformatKeepsRest
  <2>4. Stages'
    BY DEF Stages
  <2>5. WhereCredentials'
    BY DEF WhereCredentials
  <2>6. WithoutFault'
    BY DEF WithoutFault, WhereCredentials
  <2>7. StorageReady' /\ FccOnlyWhileUp'
    <3>1. pc' = "platform_init" =>
             \/ part = Last /\ part \in formatted' /\ 1 .. (part - 1) \subseteq formatted'
             \/ 1 .. Last \subseteq formatted'
      BY DEF PartitionsSoFar, ReformatKeepsRest
    <3>2. formatted' \subseteq 1 .. Last
      OBVIOUS
    <3>3. pc' = "delete" => 1 .. Last \subseteq formatted' /\ fcc_up'
      BY DEF ReformatKeepsRest, Stages
    <3>4. pc' \notin (FccCalls \cup {"fcc_init", "run"}) \ {"delete"}
      OBVIOUS
    <3> QED
      BY <3>1, <3>2, <3>3, <3>4, PrefixIsAll DEF StorageReady, FccOnlyWhileUp
  <2> QED
    BY <2>1, <2>2, <2>3, <2>4, <2>5, <2>6, <2>7
<1>7. CASE MakeDirectory
  <2> USE <1>7 DEF MakeDirectory
  <2>1. TypeOK'
    OBVIOUS
  <2>2. PartitionsSoFar' /\ Ports'
    BY DEF PartitionsSoFar
  <2>3. ReformatKeepsRest'
    BY DEF ReformatKeepsRest
  <2>4. Stages'
    BY DEF Stages
  <2>5. WhereCredentials'
    BY DEF WhereCredentials
  <2>6. WithoutFault'
    BY DEF WithoutFault
  <2>7. StorageReady' /\ FccOnlyWhileUp'
    <3>1. pc' = "platform_init" =>
             part = Last /\ part \in formatted' /\ 1 .. (part - 1) \subseteq formatted'
      BY DEF PartitionsSoFar
    <3>2. pc' \notin FccCalls \cup {"fcc_init", "run"}
      OBVIOUS
    <3>3. formatted' \subseteq 1 .. Last
      OBVIOUS
    <3>4. pc' = "platform_init" => formatted' = 1 .. Last
      BY <3>1, <3>3, PrefixIsAll
    <3> QED
      BY <3>2, <3>4 DEF StorageReady, FccOnlyWhileUp
  <2> QED
    BY <2>1, <2>2, <2>3, <2>4, <2>5, <2>6, <2>7
<1> QED
  BY <1>1, <1>2, <1>3, <1>4, <1>5, <1>6, <1>7 DEF StorageNext

-----------------------------------------------------------------------------
(* The factory configurator                                                *)

LEMMA FccPInv ==
    /\ PInv
    /\ PlatformInit \/ FccInit \/ EntropySet \/ RotSet \/ Delete
    /\ UNCHANGED build
    => PInv'
<1> SUFFICES ASSUME PInv,
                    PlatformInit \/ FccInit \/ EntropySet \/ RotSet \/ Delete,
                    UNCHANGED build
             PROVE  PInv'
  OBVIOUS
<1>0. /\ Last \in {1, 2} /\ Last' = Last
      /\ Linux' = Linux /\ Partitioned' = Partitioned
      /\ build' = build /\ build.pal.hw_trng \in BOOLEAN
      /\ build.reset \in BOOLEAN /\ build.auto_format \in BOOLEAN
      /\ Linux => ~Partitioned
      /\ ~Linux /\ ~Partitioned => Last = 1
  BY BuildFields, BuildKept DEF PInv, TypeOK
<1> USE <1>0 DEF PInv, TypeOK, FccCalls, InStorageInit, InReformat, Formats,
        Known, Ports, fccVars, cardVars, Call
<1>1. CASE FccInit
  <2> USE <1>1 DEF FccInit, SotpInit
  <2>1. TypeOK'
    OBVIOUS
  <2>2. PartitionsSoFar' /\ Ports'
    BY DEF PartitionsSoFar
  <2>3. ReformatKeepsRest'
    BY DEF ReformatKeepsRest
  <2>4. Stages'
    BY DEF Stages
  <2>5. WhereCredentials'
    BY DEF WhereCredentials
  <2>6. WithoutFault'
    BY DEF WithoutFault, Stages
  <2>7. StorageReady' /\ FccOnlyWhileUp'
    BY DEF StorageReady, FccOnlyWhileUp
  <2> QED
    BY <2>1, <2>2, <2>3, <2>4, <2>5, <2>6, <2>7
<1>2. CASE RotSet
  <2> USE <1>2 DEF RotSet, ResetsFirst
  <2>1. TypeOK'
    OBVIOUS
  <2>2. PartitionsSoFar' /\ Ports'
    BY DEF PartitionsSoFar
  <2>3. ReformatKeepsRest'
    BY DEF ReformatKeepsRest
  <2>4. Stages'
    BY DEF Stages
  <2>5. WhereCredentials'
    BY DEF WhereCredentials
  <2>6. WithoutFault'
    BY DEF WithoutFault
  <2>7. StorageReady' /\ FccOnlyWhileUp'
    BY DEF StorageReady, FccOnlyWhileUp
  <2> QED
    BY <2>1, <2>2, <2>3, <2>4, <2>5, <2>6, <2>7
<1>3. CASE DeleteSucceeds(SotpInit)
  <2> USE <1>3 DEF DeleteSucceeds, SotpInit
  <2>1. TypeOK'
    OBVIOUS
  <2>2. PartitionsSoFar' /\ Ports'
    BY DEF PartitionsSoFar
  <2>3. ReformatKeepsRest'
    BY DEF ReformatKeepsRest
  <2>4. Stages'
    BY DEF Stages
  <2>5. WhereCredentials'
    BY DEF WhereCredentials
  <2>6. WithoutFault'
    BY DEF WithoutFault
  <2>7. StorageReady' /\ FccOnlyWhileUp'
    BY DEF StorageReady, FccOnlyWhileUp
  <2> QED
    BY <2>1, <2>2, <2>3, <2>4, <2>5, <2>6, <2>7
<1>4. CASE DeleteFails
  <2> USE <1>4 DEF DeleteFails, Wipe, WipeMbed, WipeLinux, Remains
  <2>1. TypeOK'
    <3>1. faulted' \in BOOLEAN
      BY Zenon
    <3>2. rot' \in BOOLEAN /\ retry' \in BOOLEAN /\ fcc_up' \in BOOLEAN
      BY Zenon
    <3>3. part' \in 1 .. Last /\ creating' \in 0 .. Last
      OBVIOUS
    <3>4. creds' \in {"none", "some", "all"}
      OBVIOUS
    <3> QED
      BY <3>1, <3>2, <3>3, <3>4
  <2>2. PartitionsSoFar' /\ Ports'
    BY DEF PartitionsSoFar, StorageReady
  <2>3. ReformatKeepsRest'
    BY DEF ReformatKeepsRest, StorageReady
  <2>4. Stages'
    BY DEF Stages, FccOnlyWhileUp
  <2>5. WhereCredentials'
    BY DEF WhereCredentials
  <2>6. WithoutFault'
    BY DEF WithoutFault
  <2>7. StorageReady' /\ FccOnlyWhileUp'
    BY DEF StorageReady, FccOnlyWhileUp
  <2> QED
    BY <2>1, <2>2, <2>3, <2>4, <2>5, <2>6, <2>7
<1>5. CASE PlatformInit
  <2> USE <1>5 DEF PlatformInit
  <2>1. TypeOK'
    OBVIOUS
  <2>2. PartitionsSoFar' /\ Ports'
    BY DEF PartitionsSoFar
  <2>3. ReformatKeepsRest'
    BY DEF ReformatKeepsRest
  <2>4. Stages'
    BY DEF Stages
  <2>5. WhereCredentials'
    BY DEF WhereCredentials
  <2>6. WithoutFault'
    BY DEF WithoutFault, Stages
  <2>7. StorageReady' /\ FccOnlyWhileUp'
    BY DEF StorageReady, FccOnlyWhileUp
  <2> QED
    BY <2>1, <2>2, <2>3, <2>4, <2>5, <2>6, <2>7
<1>6. CASE EntropySet
  <2> USE <1>6 DEF EntropySet
  <2>1. TypeOK'
    OBVIOUS
  <2>2. PartitionsSoFar' /\ Ports'
    BY DEF PartitionsSoFar
  <2>3. ReformatKeepsRest'
    BY DEF ReformatKeepsRest
  <2>4. Stages'
    BY DEF Stages
  <2>5. WhereCredentials'
    BY DEF WhereCredentials
  <2>6. WithoutFault'
    BY DEF WithoutFault, Stages
  <2>7. StorageReady' /\ FccOnlyWhileUp'
    BY DEF StorageReady, FccOnlyWhileUp
  <2> QED
    BY <2>1, <2>2, <2>3, <2>4, <2>5, <2>6, <2>7
<1> QED
  BY <1>1, <1>2, <1>3, <1>4, <1>5, <1>6 DEF Delete

-----------------------------------------------------------------------------
(* The credentials and their verification                                  *)

LEMMA VerifyPInv ==
    PInv /\ (CredentialsExist \/ DeveloperFlow \/ Verify) /\ UNCHANGED build => PInv'
<1> SUFFICES ASSUME PInv, CredentialsExist \/ DeveloperFlow \/ Verify, UNCHANGED build
             PROVE  PInv'
  OBVIOUS
<1>0. /\ Last \in {1, 2} /\ Last' = Last
      /\ Linux' = Linux /\ Partitioned' = Partitioned
      /\ build' = build /\ build.pal.hw_trng \in BOOLEAN
      /\ build.reset \in BOOLEAN /\ build.auto_format \in BOOLEAN
      /\ Linux => ~Partitioned
      /\ ~Linux /\ ~Partitioned => Last = 1
  BY BuildFields, BuildKept DEF PInv, TypeOK
<1> USE <1>0 DEF PInv, TypeOK, FccCalls, InStorageInit, InReformat, Formats,
        Known, Ports, fccVars, cardVars, Call
<1>1. CASE CredentialsExist
  <2> USE <1>1 DEF CredentialsExist
  <2>1. TypeOK'
    OBVIOUS
  <2>2. PartitionsSoFar' /\ Ports'
    BY DEF PartitionsSoFar
  <2>3. ReformatKeepsRest'
    BY DEF ReformatKeepsRest
  <2>4. Stages'
    BY DEF Stages
  <2>5. WhereCredentials'
    BY DEF WhereCredentials
  <2>6. WithoutFault'
    BY DEF WithoutFault
  <2>7. StorageReady' /\ FccOnlyWhileUp'
    BY DEF StorageReady, FccOnlyWhileUp
  <2> QED
    BY <2>1, <2>2, <2>3, <2>4, <2>5, <2>6, <2>7
<1>2. CASE DeveloperFlow
  <2> USE <1>2 DEF DeveloperFlow
  <2>1. TypeOK'
    BY DEF WhereCredentials
  <2>2. PartitionsSoFar' /\ Ports'
    BY DEF PartitionsSoFar
  <2>3. ReformatKeepsRest'
    BY DEF ReformatKeepsRest
  <2>4. Stages'
    BY DEF Stages
  <2>5. WhereCredentials'
    BY DEF WhereCredentials, StorageReady
  <2>6. WithoutFault'
    BY DEF WithoutFault, WhereCredentials, PartitionsSoFar
  <2>7. StorageReady' /\ FccOnlyWhileUp'
    BY DEF StorageReady, FccOnlyWhileUp
  <2> QED
    BY <2>1, <2>2, <2>3, <2>4, <2>5, <2>6, <2>7
<1>3. CASE Verify
  <2> USE <1>3 DEF Verify, Wipe, WipeMbed, WipeLinux
  <2>1. TypeOK'
    <3>1. faulted' \in BOOLEAN
      BY Zenon
    <3>2. retry' \in BOOLEAN
      OBVIOUS
    <3>3. part' \in 1 .. Last /\ creating' \in 0 .. Last
      OBVIOUS
    <3> QED
      BY <3>1, <3>2, <3>3
  <2>2. PartitionsSoFar' /\ Ports'
    BY DEF PartitionsSoFar, StorageReady
  <2>3. ReformatKeepsRest'
    BY DEF ReformatKeepsRest, StorageReady
  <2>4. Stages'
    BY DEF Stages, FccOnlyWhileUp
  <2>5. WhereCredentials'
    BY DEF WhereCredentials, Configured
  <2>6. WithoutFault'
    BY DEF WithoutFault, Stages, WhereCredentials, Configured
  <2>7. StorageReady' /\ FccOnlyWhileUp'
    BY DEF StorageReady, FccOnlyWhileUp
  <2> QED
    BY <2>1, <2>2, <2>3, <2>4, <2>5, <2>6, <2>7
<1> QED
  BY <1>1, <1>2, <1>3

-----------------------------------------------------------------------------
(* Power, and the specification                                            *)

LEMMA PowerPInv == PInv /\ PowerCycle => PInv'
<1> SUFFICES ASSUME PInv, PowerCycle PROVE PInv'
  OBVIOUS
<1>0. /\ Last \in {1, 2} /\ Last' = Last
      /\ Linux' = Linux /\ Partitioned' = Partitioned
  BY BuildFields, BuildKept DEF PInv, TypeOK, PowerCycle
<1> USE <1>0 DEF PInv, TypeOK, PowerCycle, cardVars, Known
<1>1. TypeOK'
  <2>1. faulted' \in BOOLEAN /\ fcc_up' \in BOOLEAN /\ retry' \in BOOLEAN /\ rot' \in BOOLEAN
    BY Zenon
  <2>2. build' \in Builds /\ mbr' \subseteq 1 .. Last' /\ fs' \subseteq 1 .. Last'
    OBVIOUS
  <2>3. part' \in 1 .. Last' /\ creating' \in 0 .. Last'
    OBVIOUS
  <2> QED
    BY <2>1, <2>2, <2>3 DEF FccCalls
<1>2. PartitionsSoFar' /\ Ports' /\ ReformatKeepsRest' /\ Stages'
  BY DEF PartitionsSoFar, Ports, ReformatKeepsRest, Stages, InStorageInit, InReformat,
         Formats
<1>3. WhereCredentials' /\ WithoutFault'
  BY DEF WhereCredentials, WithoutFault, InReformat, Formats
<1>4. StorageReady' /\ FccOnlyWhileUp'
  BY DEF StorageReady, FccOnlyWhileUp, FccCalls
<1> QED
  BY <1>1, <1>2, <1>3, <1>4

LEMMA TracePInv == PInv /\ TraceInit /\ UNCHANGED build => PInv'
<1> SUFFICES ASSUME PInv, TraceInit, UNCHANGED build PROVE PInv'
  OBVIOUS
<1>0. /\ Last \in {1, 2} /\ Last' = Last
      /\ Linux' = Linux /\ Partitioned' = Partitioned
  BY BuildFields, BuildKept DEF PInv, TypeOK
<1> USE <1>0 DEF PInv, TypeOK, TraceInit, Call, cardVars, fccVars, Known
<1>1. TypeOK'
  <2>1. faulted' \in BOOLEAN
    BY Zenon
  <2>2. pc' \in {"bd_init", "exit"}
    OBVIOUS
  <2> QED
    BY <2>1, <2>2 DEF FccCalls
<1>2. PartitionsSoFar' /\ Ports' /\ ReformatKeepsRest' /\ Stages'
  BY DEF PartitionsSoFar, Ports, ReformatKeepsRest, Stages, InStorageInit, InReformat,
         Formats
<1>3. WhereCredentials' /\ WithoutFault'
  BY DEF WhereCredentials, WithoutFault, InStorageInit, InReformat, Formats, Stages
<1>4. StorageReady' /\ FccOnlyWhileUp'
  BY DEF StorageReady, FccOnlyWhileUp, FccCalls
<1> QED
  BY <1>1, <1>2, <1>3, <1>4

LEMMA NextPInv == PInv /\ [Next]_vars => PInv'
<1> SUFFICES ASSUME PInv, [Next]_vars PROVE PInv'
  OBVIOUS
<1>1. CASE StorageNext /\ UNCHANGED <<build, fccVars>>
  BY <1>1, StoragePInv
<1>2. CASE /\ PlatformInit \/ FccInit \/ EntropySet \/ RotSet \/ Delete
           /\ UNCHANGED build
  BY <1>2, FccPInv
<1>3. CASE (CredentialsExist \/ DeveloperFlow \/ Verify) /\ UNCHANGED build
  BY <1>3, VerifyPInv
<1>4. CASE PowerCycle
  BY <1>4, PowerPInv
<1>5. CASE TraceInit /\ UNCHANGED build
  BY <1>5, TracePInv
<1>6. CASE UNCHANGED vars
  BY <1>6
     DEF vars, cardVars, fccVars, PInv, TypeOK, PartitionsSoFar, Ports,
         ReformatKeepsRest, Stages, WhereCredentials, WithoutFault, StorageReady,
         FccOnlyWhileUp, FccCalls, InStorageInit, InReformat, Formats, Last, Linux,
         Partitioned, Known, Configured
<1> QED
  BY <1>1, <1>2, <1>3, <1>4, <1>5, <1>6 DEF Next

LEMMA SpecPInv == Spec => []PInv
<1> QED
  BY InitPInv, NextPInv, PTL DEF Spec

-----------------------------------------------------------------------------
(* Theorems                                                                *)

\* Every variable stays in its type, for every set of builds.
THEOREM StartTypeCorrect == Spec => []TypeOK
<1>1. PInv => TypeOK
  BY DEF PInv
<1> QED
  BY <1>1, SpecPInv, PTL

\* application_init_fcc finds a file system on every partition, whatever the
\* starts before have left half done.
THEOREM StorageIsReady == Spec => []StorageReady
<1>1. PInv => StorageReady
  BY DEF PInv
<1> QED
  BY <1>1, SpecPInv, PTL

\* The factory configurator is not called after mcc_platform_fcc_finalize.
THEOREM FccIsUp == Spec => []FccOnlyWhileUp
<1>1. PInv => FccOnlyWhileUp
  BY DEF PInv
<1> QED
  BY <1>1, SpecPInv, PTL

\* A device that goes on to register has its credentials and a root of trust.
THEOREM StartIsProvisioned == Spec => []StartedIsProvisioned
<1>1. PInv => StartedIsProvisioned
  BY DEF PInv, WhereCredentials, Stages, StartedIsProvisioned
<1> QED
  BY <1>1, SpecPInv, PTL

\* With the automatic recovery a start in which no call fails succeeds, after
\* whatever failures and losses of power.
THEOREM CleanStarts == Spec => []CleanStartSucceeds
<1>1. PInv => CleanStartSucceeds
  BY DEF PInv, WithoutFault, CleanStartSucceeds
<1> QED
  BY <1>1, SpecPInv, PTL

\* No step of a start in which no call has failed gives up complete
\* credentials: a format finds none on the first partition.
LEMMA StepKeepsCredentials ==
    PInv /\ [Next]_vars =>
        [creds = "all" /\ ~build.reset /\ ~faulted' => creds' = "all"]_vars
<1> SUFFICES ASSUME PInv, [Next]_vars, creds = "all", ~build.reset, ~faulted'
             PROVE  creds' = "all"
  OBVIOUS
<1> USE DEF cardVars
<1>1. CASE FormatStarts
  <2>1. ~faulted
    BY <1>1 DEF FormatStarts, Call
  <2>2. part # 1
    BY <1>1, <2>1 DEF FormatStarts, PInv, WithoutFault
  <2> QED
    BY <1>1, <2>2 DEF FormatStarts
<1>2. CASE DeleteSucceeds(SotpInit)
  <2>1. ~faulted
    BY <1>2, Zenon DEF DeleteSucceeds, Call
  <2>2. stage \notin {"start", "reset", "recover"}
    BY <1>2, <2>1 DEF DeleteSucceeds, PInv, Stages, WithoutFault
  <2> QED
    BY <2>2 DEF PInv, TypeOK
<1>3. CASE DeleteFails
  BY <1>3 DEF DeleteFails, Call
<1>4. CASE DeveloperFlow
  BY <1>4 DEF DeveloperFlow, PInv, WhereCredentials
<1>5. CASE BdInit \/ MakeDirectory \/ Mount \/ Test \/ CreatePartition \/ FormatEnds
  BY <1>5 DEF BdInit, MakeDirectory, Mount, Test, CreatePartition, FormatEnds
<1>6. CASE \/ TraceInit \/ PlatformInit \/ FccInit \/ EntropySet \/ RotSet
           \/ CredentialsExist \/ Verify \/ PowerCycle
  BY <1>6 DEF TraceInit, PlatformInit, FccInit, EntropySet, RotSet,
              CredentialsExist, Verify, PowerCycle
<1>7. CASE UNCHANGED vars
  BY <1>7 DEF vars
<1> QED
  BY <1>1, <1>2, <1>3, <1>4, <1>5, <1>6, <1>7 DEF Next, StorageNext, Delete

\* Complete credentials are given up only in a start in which a call failed.
THEOREM CredentialsKept == Spec => CredentialsSurvive
<1> QED
  BY SpecPInv, StepKeepsCredentials, PTL DEF Spec, CredentialsSurvive
=============================================================================
