------------------------------- MODULE Storage -------------------------------
(***************************************************************************)
(* The storage of the two ports (mcc_common_setup): how                    *)
(* mcc_platform_storage_init gets a file system for the credentials, and   *)
(* mcc_platform_reformat_storage.  There are three kinds of build:         *)
(*   - mbed-os in partition mode, with automatic partitioning, as          *)
(*     mbed_lib.json configures it: one or two partitions of a card;       *)
(*   - mbed-os without partition mode: the default file system of the      *)
(*     board, which mcc_platform_reformat_storage does not know about;     *)
(*   - Linux: one directory for each partition, which is never reformatted.*)
(* Every call to the card may fail, and Provisioning lets the power fail   *)
(* between any two steps.                                                  *)
(*                                                                         *)
(* MBRBlockDevice, the file systems and mkdir are not part of the          *)
(* repository: a partition can be initialised if the MBR has an entry for  *)
(* it, and a file system can be mounted if it has been formatted.  There   *)
(* is a block device, large enough, and the credentials are kept on the    *)
(* first partition.                                                        *)
(***************************************************************************)
EXTENDS Integers, PalConfig

(* The builds: the header of the platform layer, partition mode, number of *)
(* partitions, RESET_STORAGE, and whether the automatic recovery is        *)
(* compiled in.                                                            *)
CONSTANT Builds

ASSUME BuildsAssumption ==
    /\ Builds \subseteq [pal : Header, partition_mode : BOOLEAN, partitions : {1, 2},
                         reset : BOOLEAN, auto_format : BOOLEAN]
    /\ \A b \in Builds :
           b.pal.os = "mbed" /\ ~b.partition_mode => b.partitions = 1

VARIABLES
    build,       \* the build that runs; never changes
    mbr,         \* on the card: the partitions the MBR has an entry for
    formatted,   \* on the card: the partitions with a file system; on Linux:
                 \* the directories that exist
    creds,       \* on the first partition: none, some or all credentials
    pc,          \* where main_application is
    part,        \* the partition at hand
    creating,    \* 0, or the partition that made create_partitions run
    fs,          \* the partitions whose fs pointer is not NULL
    after,       \* what follows the format under way
    faulted      \* a call has failed since power was switched on

cardVars == <<mbr, formatted, creds>>

Last == build.partitions

Linux == build.pal.os = "linux"
Partitioned == ~Linux /\ build.partition_mode

\* What can be formatted, or made, at all.
Known == IF Partitioned THEN mbr ELSE 1 .. Last

\* A call of the card or of the key store, which may fail.
Call(ok) == ok \in BOOLEAN /\ faulted' = (faulted \/ ~ok)

\* mcc_platform_storage_init goes on after partition q.
MountNext(q) ==
    /\ pc' = IF q < Last THEN "mount" ELSE "platform_init"
    /\ part' = IF q < Last THEN q + 1 ELSE q
    /\ creating' = 0

\* Mutations of PartitionDone: only the first partition is created, or one
\* more than there is.
PartitionDone_FirstOnly ==
    MountNext(IF creating = 0 THEN part ELSE Last)

PartitionDone_OneMore ==
    IF creating # 0 /\ part <= Last
    THEN pc' = "partition" /\ part' = part + 1 /\ UNCHANGED creating
    ELSE MountNext(IF creating = 0 THEN part ELSE creating)

\* mcc_platform_init_and_mount_partition has succeeded.  Within
\* mcc_platform_create_partitions the next partition is created; when there
\* is none, its caller goes on after the partition that had failed.
PartitionDone ==
    IF creating # 0 /\ part < Last
    THEN pc' = "partition" /\ part' = part + 1 /\ UNCHANGED creating
    ELSE MountNext(IF creating = 0 THEN part ELSE creating)

\* It has failed: all partitions are created anew, once.
PartitionFailed ==
    IF creating = 0 /\ Partitioned
    THEN pc' = "partition" /\ part' = 1 /\ creating' = part
    ELSE pc' = "exit" /\ UNCHANGED <<part, creating>>

-----------------------------------------------------------------------------
(* mcc_platform_storage_init                                               *)

\* The block device; without partitions the default file system comes next.
BdInit ==
    /\ pc = "bd_init" /\ ~Linux
    /\ \E ok \in BOOLEAN :
          /\ Call(ok)
          /\ pc' = IF ~ok THEN "exit" ELSE IF Partitioned THEN "mount" ELSE "test"
    /\ UNCHANGED <<cardVars, part, creating, fs, after>>

\* Linux: the mount point is looked up and its directory made; one that
\* exists is no failure.
MakeDirectory ==
    /\ pc = "bd_init" /\ Linux
    /\ \E ok \in BOOLEAN :
          /\ Call(ok)
          /\ formatted' = IF ok THEN formatted \cup {part} ELSE formatted
          /\ pc' = IF ~ok THEN "exit" ELSE IF part < Last THEN "bd_init" ELSE "platform_init"
          /\ part' = IF ok /\ part < Last THEN part + 1 ELSE part
    /\ UNCHANGED <<mbr, creds, creating, fs, after>>

\* The block device of the partition, and then either a new file system or,
\* if there is one from an earlier call, a format.
Mount ==
    /\ pc = "mount"
    /\ \E ok \in BOOLEAN :
          /\ Call(ok)
          /\ IF ok /\ part \in mbr
             THEN /\ pc' = IF part \in fs THEN "format" ELSE "test"
                  /\ fs' = fs \cup {part}
                  /\ UNCHANGED <<part, creating>>
             ELSE PartitionFailed /\ UNCHANGED fs
    /\ after' = "test"
    /\ UNCHANGED cardVars

\* mcc_platform_test_filesystem; a partition that cannot be mounted again is
\* formatted.
Test ==
    /\ pc = "test"
    /\ \E ok \in BOOLEAN :
          /\ Call(ok)
          /\ IF ok /\ part \in formatted
             THEN PartitionDone
             ELSE pc' = "format" /\ UNCHANGED <<part, creating>>
    /\ after' = "done"
    /\ UNCHANGED <<cardVars, fs>>

\* MBRBlockDevice::partition within mcc_platform_create_partitions.
CreatePartition ==
    /\ pc = "partition"
    /\ \E ok \in BOOLEAN :
          /\ Call(ok)
          /\ mbr' = IF ok THEN mbr \cup {part} ELSE mbr
          /\ pc' = IF ok THEN "mount" ELSE "exit"
    /\ UNCHANGED <<formatted, creds, part, creating, fs, after>>

-----------------------------------------------------------------------------
(* mcc_platform_reformat_partition, in two steps: the old file system is   *)
(* gone before the new one is there.                                       *)

FormatFails ==
    IF after = "wiped"
    THEN pc' = "exit" /\ UNCHANGED <<part, creating>>
    ELSE PartitionFailed

FormatStarts ==
    /\ pc = "format"
    /\ \E ok \in BOOLEAN :
          /\ Call(ok)
          /\ IF ok
             THEN /\ formatted' = formatted \ {part}
                  /\ creds' = IF part = 1 THEN "none" ELSE creds
                  /\ pc' = "formatting"
                  /\ UNCHANGED <<part, creating>>
             ELSE FormatFails /\ UNCHANGED <<formatted, creds>>
    /\ UNCHANGED <<mbr, fs, after>>

\* What comes next: the test of the new file system, the next partition of
\* mcc_platform_storage_init, or that of mcc_platform_reformat_storage.
FormatSucceeds ==
    \/ after = "test" /\ pc' = "test" /\ UNCHANGED <<part, creating>>
    \/ after = "done" /\ PartitionDone
    \/ /\ after = "wiped"
       /\ pc' = IF part < Last THEN "format" ELSE "delete"
       /\ part' = IF part < Last THEN part + 1 ELSE part
       /\ UNCHANGED creating

FormatEnds ==
    /\ pc = "formatting"
    /\ \E ok \in BOOLEAN :
          /\ Call(ok)
          /\ formatted' = IF ok THEN formatted \cup {part} ELSE formatted
          /\ IF ok THEN FormatSucceeds ELSE FormatFails
    /\ UNCHANGED <<mbr, creds, fs, after>>

\* mcc_platform_reformat_storage starts with the first partition.  Without
\* partition mode NUMBER_OF_PARTITIONS is not defined: nothing is done, and
\* the result is -1.
WipeMbed ==
    \/ Partitioned /\ pc' = "format" /\ part' = 1 /\ after' = "wiped"
    \/ ~Linux /\ ~Partitioned /\ pc' = "exit" /\ UNCHANGED <<part, after>>

\* On Linux nothing is done either, and the result is 0.
WipeLinux == Linux /\ pc' = "delete" /\ UNCHANGED <<part, after>>

Wipe == WipeMbed \/ WipeLinux

StorageNext ==
    \/ BdInit \/ MakeDirectory \/ Mount \/ Test \/ CreatePartition
    \/ FormatStarts \/ FormatEnds
=============================================================================
