------------------------------ MODULE FileSys ------------------------------
(***************************************************************************)
(* filesys/: free map, inodes, the root directory and open files.  The     *)
(* file system has no locks of its own and is called by one thread at a    *)
(* time, so an operation changes memory in one step; what it writes to     *)
(* disk is queued in `pending' and reaches the disk write by write, so     *)
(* that the machine can stop in between.  Any memory allocation may fail,  *)
(* except that of bounce buffers (module InodeIO).                         *)
(***************************************************************************)
EXTENDS Bitmap, SequencesExt

CONSTANTS
  NULL,
  DiskSize,           \* sectors of the file system device
  BLOCK_SECTOR_SIZE,  \* bytes of a sector
  Name, BadName,      \* file names, and the ones dir_add() does not accept
  Slots,              \* entries of the root directory, 16 in do_format()
  Sizes,              \* sizes of new files, in bytes
  Handle,             \* values of struct file *
  MaxCrashes          \* bound on crashes

FREE_MAP_SECTOR == 0
ROOT_DIR_SECTOR == 1
MapBytes == 1   \* the free map and the directory take a sector each

bytes_to_sectors(size) == (size + BLOCK_SECTOR_SIZE - 1) \div BLOCK_SECTOR_SIZE

VARIABLES
  \* on disk
  disk,         \* [map, inode, dir]: the free map file, the inodes, the root directory
  pending,      \* writes of the running operation that have yet to reach it
  \* in memory
  free_map,
  open_inodes,  \* open_inodes[s]: the struct inode of sector s, or NULL
  files,        \* files[h]: the struct file, or NULL
  \* for the properties
  lost,         \* sectors that are marked and that nothing refers to
  crashes

vars == <<disk, pending, free_map, open_inodes, files, lost, crashes>>

Sector == 0 .. DiskSize - 1
Entry(name, sector) == [name |-> name, sector |-> sector]
-----------------------------------------------------------------------------
\* A state of memory and the writes due: what the operations below pass on.
Mem(map, inodes, writes) == [map |-> map, inodes |-> inodes, writes |-> writes]
Now == Mem(free_map, open_inodes, <<>>)

\* Writes, and what they do to the disk.
MapWrite(map) == [to |-> "map", map |-> map]
InodeWrite(sector, start, length) == [to |-> "inode", sector |-> sector, start |-> start, length |-> length]
DirWrite(slot, entry) == [to |-> "dir", slot |-> slot, entry |-> entry]

Written(d, w) ==
  CASE w.to = "map"   -> [d EXCEPT !.map = w.map]
    [] w.to = "inode" -> [d EXCEPT !.inode[w.sector] = [start |-> w.start, length |-> w.length]]
    [] w.to = "dir"   -> [d EXCEPT !.dir[w.slot] = w.entry]

\* free_map_allocate(): the sector, and memory after it.
Allocated(m, cnt) == bitmap_scan(m.map, 0, cnt, FALSE)
free_map_allocate(m, cnt) ==
  LET map == bitmap_scan_and_flip(m.map, 0, cnt, FALSE)
  IN  Mem(map, m.inodes, Append(m.writes, MapWrite(map)))

free_map_release(m, sector, cnt) ==
  LET map == bitmap_set_multiple(m.map, sector, cnt, FALSE)
  IN  Mem(map, m.inodes, Append(m.writes, MapWrite(map)))

\* inode_create() when there are sectors for it.  File contents, zeros at
\* first, are left to module InodeIO.
inode_create(m, sector, length) ==
  LET cnt == bytes_to_sectors(length)
      alloc == free_map_allocate(m, cnt)
  IN  [alloc EXCEPT !.writes = Append(@, InodeWrite(sector, Allocated(m, cnt), length))]

inode_open(m, sector) ==
  IF m.inodes[sector] # NULL
  THEN [m EXCEPT !.inodes[sector].open_cnt = @ + 1]
  ELSE [m EXCEPT !.inodes[sector] =
          [open_cnt |-> 1, removed |-> FALSE, deny_write_cnt |-> 0,
           start |-> disk.inode[sector].start, length |-> disk.inode[sector].length]]

(* inode_close(): the last opener of a removed inode frees its sectors.    *)
inode_close(m, sector) ==
  LET inode == m.inodes[sector]
      last == inode.open_cnt = 1
      shut == [m EXCEPT !.inodes[sector] = IF last THEN NULL ELSE [inode EXCEPT !.open_cnt = @ - 1]]
  IN  IF last /\ inode.removed
      THEN free_map_release(free_map_release(shut, sector, 1), inode.start, bytes_to_sectors(inode.length))
      ELSE shut

\* lookup() and the search of dir_add() for a free slot: a slot, or 0.
lookup(name) ==
  LET found == {i \in 1 .. Slots : disk.dir[i] # NULL /\ disk.dir[i].name = name}
  IN  IF found = {} THEN 0 ELSE Min(found)
FreeSlot ==
  LET found == {i \in 1 .. Slots : disk.dir[i] = NULL} IN IF found = {} THEN 0 ELSE Min(found)

\* The operation is over: memory and the queue of writes become those of m.
Done(m) == free_map' = m.map /\ open_inodes' = m.inodes /\ pending' = m.writes
Ready == pending = <<>>
-----------------------------------------------------------------------------
(* filesys_init() with FORMAT: do_format() and free_map_open().            *)
Blank == Mem([i \in Sector |-> i \in {FREE_MAP_SECTOR, ROOT_DIR_SECTOR}], [s \in Sector |-> NULL], <<>>)
Formatted ==
  inode_create(inode_create(Blank, FREE_MAP_SECTOR, MapBytes), ROOT_DIR_SECTOR, MapBytes)
OpenMap(inode) ==
  [s \in Sector |-> IF s = FREE_MAP_SECTOR
                    THEN [open_cnt |-> 1, removed |-> FALSE, deny_write_cnt |-> 0,
                          start |-> inode[s].start, length |-> inode[s].length]
                    ELSE NULL]

Init ==
  /\ disk = FoldLeft(Written, [map |-> Blank.map, inode |-> [s \in Sector |-> NULL],
                               dir |-> [i \in 1 .. Slots |-> NULL]], Formatted.writes)
  /\ free_map = Formatted.map /\ open_inodes = OpenMap(disk.inode) /\ pending = <<>>
  /\ files = [h \in Handle |-> NULL]
  /\ lost = {} /\ crashes = 0
-----------------------------------------------------------------------------
\* Faulty: no sector is given back when the creation fails.
create_failed_keep(m, sector) == m

\* filesys_create() gives the inode's sector back, and only that.
create_failed(m, sector) == free_map_release(m, sector, 1)

(* filesys_create(); oom says that a memory allocation fails, at dir or    *)
(* at the inode.                                                           *)
filesys_create(name, size, oom) ==
  LET sector == Allocated(Now, 1)
      m1 == free_map_allocate(Now, 1)
      data == Allocated(m1, bytes_to_sectors(size))
      m2 == inode_create(m1, sector, size)
      sectors == Group(data, bytes_to_sectors(size))
  IN  /\ Ready
      /\ IF oom = "dir" \/ sector = BITMAP_ERROR THEN Done(Now) /\ UNCHANGED lost
         ELSE IF oom = "inode" \/ data = BITMAP_ERROR
         THEN Done(create_failed(m1, sector)) /\ UNCHANGED lost
         ELSE IF name \in BadName \/ lookup(name) # 0 \/ FreeSlot = 0
         THEN Done(create_failed(m2, sector)) /\ lost' = lost \cup sectors
         ELSE /\ Done([m2 EXCEPT !.writes = Append(@, DirWrite(FreeSlot, Entry(name, sector)))])
              /\ UNCHANGED lost
      /\ UNCHANGED <<disk, files, crashes>>

(* filesys_open(): dir_lookup() and file_open(); without memory for the    *)
(* struct file the inode is closed again.                                  *)
filesys_open(name, h, oom) ==
  LET slot == lookup(name)
      sector == disk.dir[slot].sector
      m == inode_open(Now, sector)
  IN  /\ Ready /\ files[h] = NULL /\ slot # 0
      /\ oom = "inode" => open_inodes[sector] = NULL
      /\ CASE oom = "inode" -> Done(Now) /\ UNCHANGED files
           [] oom = "file"  -> Done(inode_close(m, sector)) /\ UNCHANGED files
           [] oom = "no"    -> Done(m) /\ files' = [files EXCEPT ![h] = [inode |-> sector, deny_write |-> FALSE]]
      /\ UNCHANGED <<disk, lost, crashes>>

file_reopen(h, new) ==
  /\ Ready /\ files[h] # NULL /\ files[new] = NULL
  /\ Done(inode_open(Now, files[h].inode))
  /\ files' = [files EXCEPT ![new] = [inode |-> files[h].inode, deny_write |-> FALSE]]
  /\ UNCHANGED <<disk, lost, crashes>>

\* file_deny_write() and file_allow_write(), when they change anything.
Deny(m, sector, n) == [m EXCEPT !.inodes[sector].deny_write_cnt = @ + n]

file_deny_write(h) ==
  /\ Ready /\ files[h] # NULL /\ ~files[h].deny_write
  /\ files' = [files EXCEPT ![h].deny_write = TRUE]
  /\ Done(Deny(Now, files[h].inode, 1))
  /\ UNCHANGED <<disk, lost, crashes>>

file_allow_write(h) ==
  /\ Ready /\ files[h] # NULL /\ files[h].deny_write
  /\ files' = [files EXCEPT ![h].deny_write = FALSE]
  /\ Done(Deny(Now, files[h].inode, -1))
  /\ UNCHANGED <<disk, lost, crashes>>

file_close(h) ==
  /\ Ready /\ files[h] # NULL
  /\ LET sector == files[h].inode
     IN  Done(inode_close(IF files[h].deny_write THEN Deny(Now, sector, -1) ELSE Now, sector))
  /\ files' = [files EXCEPT ![h] = NULL]
  /\ UNCHANGED <<disk, lost, crashes>>

\* Faulty: the blocks are freed before the directory entry is erased.
filesys_remove_late(name, oom) ==
  LET slot == lookup(name)
      sector == disk.dir[slot].sector
      m == inode_close([inode_open(Now, sector) EXCEPT !.inodes[sector].removed = TRUE], sector)
  IN  /\ Ready /\ slot # 0 /\ oom = "no"
      /\ Done([m EXCEPT !.writes = Append(@, DirWrite(slot, NULL))])
      /\ UNCHANGED <<disk, files, lost, crashes>>

(* filesys_remove(): dir_remove() erases the entry, marks the inode and    *)
(* closes it.                                                              *)
filesys_remove(name, oom) ==
  LET slot == lookup(name)
      sector == disk.dir[slot].sector
      m == [inode_open(Now, sector) EXCEPT !.writes = <<DirWrite(slot, NULL)>>]
  IN  /\ Ready /\ slot # 0
      /\ oom = "inode" => open_inodes[sector] = NULL
      /\ IF oom = "inode" THEN Done(Now)
         ELSE Done(inode_close([m EXCEPT !.inodes[sector].removed = TRUE], sector))
      /\ UNCHANGED <<disk, files, lost, crashes>>

\* The next write reaches the disk.
Flush ==
  /\ pending # <<>>
  /\ disk' = Written(disk, Head(pending)) /\ pending' = Tail(pending)
  /\ UNCHANGED <<free_map, open_inodes, files, lost, crashes>>
-----------------------------------------------------------------------------
SectorsOf(sector, inode) == {sector} \cup Group(inode.start, bytes_to_sectors(inode.length))

\* The sectors of everything that the directory on disk d leads to.
Linked(d) == {FREE_MAP_SECTOR, ROOT_DIR_SECTOR} \cup {d.dir[i].sector : i \in {j \in 1 .. Slots : d.dir[j] # NULL}}
Reachable(d) == UNION {SectorsOf(s, d.inode[s]) : s \in Linked(d)}

(* The machine stops, and starts again with filesys_init() on the same     *)
(* disk, without formatting it.                                            *)
Crash ==
  /\ crashes < MaxCrashes /\ crashes' = crashes + 1
  /\ pending' = <<>> /\ free_map' = disk.map /\ open_inodes' = OpenMap(disk.inode)
  /\ files' = [h \in Handle |-> NULL]
  /\ lost' = {s \in Sector : disk.map[s]} \ Reachable(disk)
  /\ UNCHANGED disk

Next ==
  \/ \E name \in Name, size \in Sizes, oom \in {"no", "dir", "inode"} : filesys_create(name, size, oom)
  \/ \E name \in Name, h \in Handle, oom \in {"no", "inode", "file"} : filesys_open(name, h, oom)
  \/ \E name \in Name, oom \in {"no", "inode"} : filesys_remove(name, oom)
  \/ \E h, new \in Handle : file_reopen(h, new)
  \/ \E h \in Handle : file_deny_write(h) \/ file_allow_write(h) \/ file_close(h)
  \/ Flush
  \/ Crash

Spec == Init /\ [][Next]_vars
-----------------------------------------------------------------------------
\* Inodes somebody still needs: linked on disk, or open.
Needed == Linked(disk) \cup {s \in Sector : open_inodes[s] # NULL}
InodeOf(s) == IF open_inodes[s] # NULL THEN open_inodes[s] ELSE disk.inode[s]

(* Between operations no sector belongs to two files, removed files that   *)
(* are still open included, and the free map marks exactly the sectors in  *)
(* use, plus those a failed filesys_create() or a crash has lost.          *)
SectorsExact ==
  Ready =>
    /\ \A r, s \in Needed : r # s => SectorsOf(r, InodeOf(r)) \cap SectorsOf(s, InodeOf(s)) = {}
    /\ {s \in Sector : free_map[s]} = lost \cup UNION {SectorsOf(s, InodeOf(s)) : s \in Needed}
    /\ free_map = disk.map

(* Whenever the machine stops, the disk is sound: the sectors of different *)
(* files in the directory are disjoint, and the free map marks them.       *)
CrashSafe ==
  /\ \A s \in Reachable(disk) : disk.map[s]
  /\ \A r, s \in Linked(disk) : r # s => SectorsOf(r, disk.inode[r]) \cap SectorsOf(s, disk.inode[s]) = {}

(* An inode's counters are the numbers of files that have it open and that *)
(* deny writes, so that the assertions of inode_deny_write() and           *)
(* inode_allow_write() hold, and only removed inodes lack an entry.        *)
CountsExact ==
  \A s \in Sector : open_inodes[s] # NULL /\ s # FREE_MAP_SECTOR =>
    LET opened == {h \in Handle : files[h] # NULL /\ files[h].inode = s}
    IN  /\ open_inodes[s].open_cnt = Cardinality(opened)
        /\ open_inodes[s].deny_write_cnt = Cardinality({h \in opened : files[h].deny_write})
        /\ Ready => (open_inodes[s].removed <=> s \notin Linked(disk))
============================================================================
