----------------------------- MODULE Partition -----------------------------
(***************************************************************************)
(* devices/partition.c and devices/block.c: the scan of a disk's partition *)
(* table at boot, the list of block devices it builds, the choice of       *)
(* devices for roles (locate_block_device() of threads/init.c), and        *)
(* accesses through a partition to the disk below.                         *)
(***************************************************************************)
EXTENDS Integers, Sequences, TLC

CONSTANTS
  NULL,
  DiskSize,    \* sectors of the disk
  SectorBits,  \* width of block_sector_t
  Entries,     \* partition table entries: [type, offset, size]
  EntryCnt,    \* entries of a table, 4 in the code
  ExtSector,   \* the sector besides 0 that holds a table
  Roles,       \* the roles devices are wanted for
  MaxDepth     \* bound on the nesting of tables

Sec(n) == n % 2 ^ SectorBits
Table == [1 .. EntryCnt -> Entries]

VARIABLES
  disk,        \* the tables on disk; NULL is a sector without 0xaa55
  stack,       \* the calls of read_partition_table() in progress
  part_nr,
  all_blocks,  \* the block devices in probe order
  block_by_role,
  booted,
  access,      \* the last access: [dev, sector, at], at the disk's sector
  panicked

vars == <<disk, stack, part_nr, all_blocks, block_by_role, booted, access, panicked>>

\* The raw disk; ide.c registers it before it calls partition_scan().
raw == [type |-> "raw", start |-> 0, size |-> DiskSize]

Frame(sector, primary) == [sector |-> sector, primary |-> primary, pt |-> NULL, i |-> 0]

Init ==
  /\ disk \in {(0 :> t) @@ (ExtSector :> u) : t \in Table, u \in Table \cup {NULL}}
  /\ stack = <<Frame(0, 0)>> /\ part_nr = 0
  /\ all_blocks = <<raw>> /\ block_by_role = [r \in Roles |-> NULL] /\ booted = FALSE
  /\ access = NULL /\ panicked = FALSE

Top == stack[Len(stack)]
Pop == stack' = SubSeq(stack, 1, Len(stack) - 1)

\* Faulty: the end of a partition may wrap around.
found_partition_wrap(e, start) ==
  IF start >= DiskSize \/ Sec(start + e.size) > DiskSize THEN <<>>
  ELSE <<[type |-> e.type, start |-> start, size |-> e.size]>>

(* found_partition(): the device it registers, if any.                     *)
found_partition(e, start) ==
  LET end == Sec(start + e.size)
  IN  IF start >= DiskSize \/ end < start \/ end > DiskSize THEN <<>>
      ELSE <<[type |-> e.type, start |-> start, size |-> e.size]>>

(* read_partition_table() up to its loop.  Whatever its SECTOR, it reads   *)
(* sector 0.                                                               *)
ReadTable ==
  /\ stack # <<>> /\ Top.pt = NULL
  /\ IF Top.sector >= DiskSize \/ disk[0] = NULL THEN Pop
     ELSE stack' = [stack EXCEPT ![Len(stack)].pt = disk[0], ![Len(stack)].i = 1]
  /\ UNCHANGED <<disk, part_nr, all_blocks, block_by_role, booted, access, panicked>>

\* One entry of the table.
ReadEntry ==
  LET e == Top.pt[Top.i]
      next == [stack EXCEPT ![Len(stack)].i = @ + 1]
  IN  /\ stack # <<>> /\ Top.pt # NULL /\ Top.i <= EntryCnt
      /\ \/ /\ e.size = 0 \/ e.type = "empty"
            /\ stack' = next
            /\ UNCHANGED <<part_nr, all_blocks>>
         \/ /\ e.size # 0 /\ e.type = "extended" /\ Len(stack) < MaxDepth
            /\ stack' = Append(next, IF Top.sector = 0 THEN Frame(e.offset, e.offset)
                                     ELSE Frame(Sec(e.offset + Top.primary), Top.primary))
            /\ UNCHANGED <<part_nr, all_blocks>>
         \/ /\ e.size # 0 /\ e.type \notin {"empty", "extended"}
            /\ stack' = next
            /\ part_nr' = part_nr + 1
            /\ all_blocks' = all_blocks \o found_partition(e, Sec(e.offset + Top.sector))
      /\ UNCHANGED <<disk, block_by_role, booted, access, panicked>>

TableDone ==
  /\ stack # <<>> /\ Top.pt # NULL /\ Top.i > EntryCnt
  /\ Pop
  /\ UNCHANGED <<disk, part_nr, all_blocks, block_by_role, booted, access, panicked>>

\* locate_block_devices(), without names: the first device of the type.
locate_block_device(role) ==
  LET found == {i \in DOMAIN all_blocks : all_blocks[i].type = role}
  IN  IF found = {} THEN NULL ELSE CHOOSE i \in found : \A j \in found : i <= j

locate_block_devices ==
  /\ stack = <<>> /\ ~booted
  /\ booted' = TRUE /\ block_by_role' = [r \in Roles |-> locate_block_device(r)]
  /\ UNCHANGED <<disk, stack, part_nr, all_blocks, access, panicked>>

(* block_read() or block_write() of a device with a role, at a sector that *)
(* check_sector() lets pass; partition_read() and partition_write() access *)
(* the disk, which checks again.                                           *)
Access(role, sector) ==
  LET i == block_by_role[role]
      at == Sec(all_blocks[i].start + sector)
  IN  /\ booted /\ ~panicked /\ i # NULL /\ sector < all_blocks[i].size
      /\ access' = [dev |-> i, sector |-> sector, at |-> at]
      /\ panicked' = (at >= DiskSize)
      /\ UNCHANGED <<disk, stack, part_nr, all_blocks, block_by_role, booted>>

Next ==
  \/ ReadTable \/ ReadEntry \/ TableDone \/ locate_block_devices
  \/ \E role \in Roles, sector \in 0 .. DiskSize - 1 : Access(role, sector)

Spec == Init /\ [][Next]_vars
-----------------------------------------------------------------------------
(* An access that a partition lets pass stays inside the disk and inside   *)
(* the sectors the table gives the partition, whatever the table says.     *)
AccessInside ==
  access # NULL =>
    /\ ~panicked
    /\ access.at = all_blocks[access.dev].start + access.sector
    /\ access.at < all_blocks[access.dev].start + all_blocks[access.dev].size
============================================================================
