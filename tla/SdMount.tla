------------------------------- MODULE SdMount -------------------------------
(***************************************************************************)
(* The start-up code that mounts the SD card (init_sdcard_fs in main.c) on *)
(* top of the driver (SdCard), and the use of what it has mounted.         *)
(*                                                                         *)
(* Partitions 1 to 4 are tried in turn.  FatFs (f_mount) initialises the   *)
(* card for every one of them and reads from it; a partition that was      *)
(* mounted before stays mounted whatever becomes of the next one, and      *)
(* FatFs goes on reading and writing through the driver's global state.    *)
(***************************************************************************)
EXTENDS SdCard

CONSTANTS MaxParts   \* partitions of a partition table: 4

ASSUME MaxPartsAssumption == MaxParts \in 1 .. 4

VARIABLES
  part_num, first_part,   \* init_sdcard_fs's locals
  mount,                  \* where init_sdcard_fs and its f_mount are
  vfs_mount_table,        \* the mounts, in order: name and partition
  vfs_cur                 \* the current directory's mount, or NoMount

loopVars  == <<part_num, first_part>>
tableVars == <<vfs_mount_table, vfs_cur>>
mountVars == <<part_num, first_part, mount, vfs_mount_table, vfs_cur>>
NoMount   == [name |-> "none", part |-> 0]

MInit ==
  /\ Init
  /\ part_num = 1 /\ first_part = TRUE /\ mount = "partition"
  /\ vfs_mount_table = << >> /\ vfs_cur = NoMount

-----------------------------------------------------------------------------
\* Two objects are allocated and f_mount begins: ioctl(INIT).
TryPartition ==
  /\ mount = "partition" /\ part_num <= MaxParts
  /\ StartInit
  /\ mount' = "init"
  /\ UNCHANGED <<hw, driver, call, cnt, c, buf, ret, moved, faults, loopVars,
                 tableVars>>

\* An allocation fails: break.
NoMemory ==
  /\ mount = "partition" /\ part_num <= MaxParts
  /\ mount' = "done"
  /\ UNCHANGED <<vars, loopVars, tableVars>>

LoopEnds ==
  /\ mount = "partition" /\ part_num > MaxParts
  /\ mount' = "done"
  /\ UNCHANGED <<vars, loopVars, tableVars>>

\* f_mount goes on to read once the card is initialised.
MountReads ==
  /\ mount = "init" /\ pc = "idle" /\ initOk
  /\ StartCall(Read(0, 1))
  /\ mount' = "read"
  /\ UNCHANGED <<loopVars, tableVars>>

NextPartition == mount' = "partition" /\ part_num' = part_num + 1

\* f_mount does not return FR_OK: the card is not ready, the read failed or
\* there is no file system in the partition.
MountFails ==
  /\ pc = "idle"
  /\ \/ mount = "init" /\ ~initOk
     \/ mount = "read"
  /\ NextPartition
  /\ UNCHANGED <<vars, first_part, tableVars>>

\* The name a partition is mounted under.  Line 92 tests for 2 once more.
NameOf(p) ==
  IF first_part THEN "/sd"
  ELSE CASE p = 2 -> "/sd2"
         [] p = 2 -> "/sd3"
         [] OTHER -> "/sd4"

\* Wrong on purpose: first_part stays TRUE.
Mounted_StillFirst ==
  LET m == [name |-> NameOf(part_num), part |-> part_num]
  IN /\ vfs_mount_table' = Append(vfs_mount_table, m)
     /\ vfs_cur' = IF first_part THEN m ELSE vfs_cur
     /\ UNCHANGED first_part

Mounted ==
  LET m == [name |-> NameOf(part_num), part |-> part_num]
  IN /\ vfs_mount_table' = Append(vfs_mount_table, m)
     /\ vfs_cur' = IF first_part THEN m ELSE vfs_cur
     /\ first_part' = FALSE

MountSucceeds ==
  /\ mount = "read" /\ pc = "idle" /\ ret = "ok"
  /\ Mounted
  /\ NextPartition
  /\ UNCHANGED vars

\* A file system that is mounted is used: FatFs calls the driver and does not
\* initialise the card again.
UseFile ==
  /\ mount = "done" /\ pc = "idle" /\ vfs_mount_table # << >>
  /\ \/ \E l \in Lbas, n \in ReadNums : StartCall(Read(l, n))
     \/ \E l \in Lbas, n \in WriteNums, d \in Data : StartCall(Write(l, n, d, TRUE))
  /\ UNCHANGED mountVars

MNext ==
  \/ TryPartition \/ NoMemory \/ LoopEnds
  \/ MountReads \/ MountFails \/ MountSucceeds
  \/ UseFile
  \/ (sd_init \/ sd_readwrite) /\ UNCHANGED mountVars

MSpec == MInit /\ [][MNext]_<<vars, mountVars>>

-----------------------------------------------------------------------------
(* Properties. *)

\* The first partition that could be mounted, and no other, is "/sd", and it is
\* the current directory (main.c:86-88 and 108-110); sys.path and boot.py rely
\* on that.
FirstIsSd ==
  \A k \in 1 .. Len(vfs_mount_table) :
    LET m == vfs_mount_table[k]
    IN /\ m.name = "/sd" <=> m = vfs_cur
       /\ m # vfs_cur => vfs_cur.part < m.part
=============================================================================
