------------------------------ MODULE MCStorage ------------------------------
(* Small instances of memory and storage: bitmaps, pages, blocks, the disk    *)
(* driver, partitions, the file system, file transfers and the archives on    *)
(* the scratch device.  Each behaviour runs the one that `unit' names, from   *)
(* its initial states; the variables of the others are not in use.            *)
EXTENDS Integers, Sequences, FiniteSets, TLC

CONSTANT NULL

VARIABLES unit, b, used_map, lock, call, held, dirty, fresh, panicked, arena, free_list, live,
                expecting_interrupt, completion_wait, is_ata, registered, boot, signature, capacity,
                disk, bsy, drq, regs, cmd, buffer, irq, spurious, stack, part_nr, all_blocks,
                block_by_role, booted, access, pending, free_map, open_inodes, files, lost, crashes,
                length, deny_write_cnt, pos, io, scratch, fs, original, appended, extractAt,
                appendAt, job, boots, rot, past

vars == <<unit, b, used_map, lock, call, held, dirty, fresh, panicked, arena, free_list, live,
          expecting_interrupt, completion_wait, is_ata, registered, boot, signature, capacity, disk,
          bsy, drq, regs, cmd, buffer, irq, spurious, stack, part_nr, all_blocks, block_by_role,
          booted, access, pending, free_map, open_inodes, files, lost, crashes, length,
          deny_write_cnt, pos, io, scratch, fs, original, appended, extractAt, appendAt, job, boots,
          rot, past>>

Bits == INSTANCE Bitmap WITH ELEM_BITS <- 4
Size == 7  \* bits of the bitmap b

(* Three threads and a pool of three pages, one of them the bitmap.         *)
Pages == INSTANCE Palloc WITH
  ELEM_BITS <- 2, Thread <- {"p", "q", "r"}, FreePages <- 4, UserPageLimit <- 1, PageBits <- 8, HeaderBits <- 2,
  MaxCnt <- 2, Flags <- {{"ZERO"}}

(* Two pages of ten bytes: blocks of four, of a page and of two pages.      *)
Blocks == INSTANCE Malloc WITH
  ELEM_BITS <- 2, Thread <- {"p", "q"}, PageCnt <- 2, PGSIZE <- 10, ArenaBytes <- 2, MinBlock <- 4, SizeBits <- 6,
  Sizes <- {0, 8, 10}, Factors <- {2}

Disk == INSTANCE Ide WITH
  Thread <- {"main", "p"}, Main <- "main", Sector <- {1}, Data <- {"x", "y"},
  Signatures <- {[error |-> 1, drdy |-> TRUE, bsy |-> FALSE, lba |-> "pata"]}, Capacity <- {"small"},
  MaxSpurious <- 1, LateSpurious <- FALSE

SomeEntries ==
  {[type |-> "empty", offset |-> 0, size |-> 0]}
    \cup {[type |-> t, offset |-> o, size |-> s] :
            t \in {"filesys", "foreign", "extended"}, o \in {3, 6}, s \in {2, 14}}

(* A disk of seven sectors numbered with four bits; two tables of two.      *)
Partitions == INSTANCE Partition WITH
  DiskSize <- 7, SectorBits <- 4, EntryCnt <- 2, ExtSector <- 3, Entries <- SomeEntries,
  Roles <- {"filesys", "swap"}, MaxDepth <- 3

Files == INSTANCE FileSys WITH
  ELEM_BITS <- 8, DiskSize <- 9, BLOCK_SECTOR_SIZE <- 2, Name <- {"a", "b", "long"}, BadName <- {"long"},
  Slots <- 2, Sizes <- {1, 3}, Handle <- {"f", "g"}, MaxCrashes <- 1

Inode == INSTANCE InodeIO WITH
  BLOCK_SECTOR_SIZE <- 2, Lengths <- {0, 3, 5}, Byte <- {0}, MaxPos <- 6, MaxSize <- 4

(* Two names of one letter, <<3>> and <<4>>, one also archived as "./b";    *)
(* sectors of two bytes; longs of eight bits.                               *)
Originals ==
  {<<<<<<3>>, <<1, 0, 1>>>>, <<<<2, 1, 4>>, <<1>>>>>>, <<<<<<6, 1>>, <<>>>>, <<<<4>>, <<>>>>>>, <<>>}

Scratch == INSTANCE Archive WITH
  Names <- {<<3>>, <<4>>}, Contents <- {<<1, 0, 1>>}, PerSector <- 2, NameSize <- 4, UlongMax <- 255,
  IntMax <- 127, Sectors <- 7, MaxBoots <- 1, MaxCreated <- 1, MaxRot <- 0

(* The same device with a byte that goes bad.                               *)
Rotten == INSTANCE Archive WITH
  Names <- {<<3>>, <<4>>}, Contents <- {<<>>, <<1, 0, 1>>}, PerSector <- 2, NameSize <- 4, UlongMax <- 255,
  IntMax <- 127, Sectors <- 7, MaxBoots <- 0, MaxCreated <- 0, MaxRot <- 1
-----------------------------------------------------------------------------
\* What holds of, or happens to, variables that only these units use.
Unless(units, F) == IF unit \in units THEN TRUE ELSE F

BitsNext ==
  \/ \E i \in DOMAIN b, v \in BOOLEAN : b' \in {Bits!bitmap_set(b, i, v), Bits!bitmap_flip(b, i)}
  \/ \E v \in BOOLEAN : b' = Bits!bitmap_set_all(b, v)
  \/ \E s \in 0 .. Size, n \in 0 .. Size, v \in BOOLEAN : b' = Bits!bitmap_scan_and_flip(b, s, n, v)

Init ==
  /\ \/ unit = "bits" /\ b = Bits!bitmap_create(Size)
     \/ unit = "pages" /\ Pages!Init
     \/ unit = "blocks" /\ Blocks!Init
     \/ unit = "disk" /\ Disk!Init
     \/ unit = "partitions" /\ Partitions!Init
     \/ unit = "filesys" /\ Files!Init
     \/ unit = "inode" /\ Inode!Init
     \/ unit = "archive" /\ Scratch!Init
     \/ unit = "rot" /\ Rotten!Init
  /\ Unless({"bits"}, b = NULL)
  /\ Unless({"pages", "blocks"}, used_map = NULL)
  /\ Unless({"pages", "blocks", "disk"}, lock = NULL /\ call = NULL)
  /\ Unless({"pages"}, held = NULL /\ dirty = NULL /\ fresh = NULL)
  /\ Unless({"pages", "disk", "partitions"}, panicked = NULL)
  /\ Unless({"blocks"}, arena = NULL /\ free_list = NULL /\ live = NULL)
  /\ Unless({"disk"}, expecting_interrupt = NULL /\ completion_wait = NULL /\ is_ata = NULL
                      /\ registered = NULL /\ boot = NULL /\ signature = NULL /\ capacity = NULL /\ bsy = NULL
                      /\ drq = NULL /\ regs = NULL /\ cmd = NULL /\ buffer = NULL /\ irq = NULL
                      /\ spurious = NULL)
  /\ Unless({"disk", "partitions", "filesys", "inode"}, disk = NULL)
  /\ Unless({"partitions"}, stack = NULL /\ part_nr = NULL /\ all_blocks = NULL /\ block_by_role = NULL
                            /\ booted = NULL /\ access = NULL)
  /\ Unless({"filesys"}, pending = NULL /\ free_map = NULL /\ open_inodes = NULL /\ files = NULL
                         /\ lost = NULL /\ crashes = NULL)
  /\ Unless({"inode"}, length = NULL /\ deny_write_cnt = NULL /\ pos = NULL /\ io = NULL)
  /\ Unless({"archive", "rot"}, scratch = NULL /\ fs = NULL /\ original = NULL /\ appended = NULL
                                /\ extractAt = NULL /\ appendAt = NULL /\ job = NULL /\ boots = NULL
                                /\ rot = NULL /\ past = NULL)

Next ==
  /\ \/ unit = "bits" /\ BitsNext
     \/ unit = "pages" /\ Pages!Next
     \/ unit = "blocks" /\ Blocks!Next
     \/ unit = "disk" /\ Disk!Next
     \/ unit = "partitions" /\ Partitions!Next
     \/ unit = "filesys" /\ Files!Next
     \/ unit = "inode" /\ Inode!Next
     \/ unit = "archive" /\ Scratch!Next
     \/ unit = "rot" /\ Rotten!Next
  /\ UNCHANGED unit
  /\ Unless({"bits"}, UNCHANGED <<b>>)
  /\ Unless({"pages", "blocks"}, UNCHANGED <<used_map>>)
  /\ Unless({"pages", "blocks", "disk"}, UNCHANGED <<lock, call>>)
  /\ Unless({"pages"}, UNCHANGED <<held, dirty, fresh>>)
  /\ Unless({"pages", "disk", "partitions"}, UNCHANGED <<panicked>>)
  /\ Unless({"blocks"}, UNCHANGED <<arena, free_list, live>>)
  /\ Unless({"disk"}, UNCHANGED <<expecting_interrupt, completion_wait, is_ata, registered, boot, signature,
                                  capacity, bsy, drq, regs, cmd, buffer, irq, spurious>>)
  /\ Unless({"disk", "partitions", "filesys", "inode"}, UNCHANGED <<disk>>)
  /\ Unless({"partitions"}, UNCHANGED <<stack, part_nr, all_blocks, block_by_role, booted, access>>)
  /\ Unless({"filesys"}, UNCHANGED <<pending, free_map, open_inodes, files, lost, crashes>>)
  /\ Unless({"inode"}, UNCHANGED <<length, deny_write_cnt, pos, io>>)
  /\ Unless({"archive", "rot"}, UNCHANGED <<scratch, fs, original, appended, extractAt, appendAt, job, boots,
                                            rot, past>>)

(* A panicked kernel stops; one that found no device for a role does        *)
(* nothing more here; calls nested deeper than the bound are not followed.  *)
Stopped ==
  /\ \/ unit \in {"pages", "disk", "partitions"} /\ panicked
     \/ unit = "partitions" /\ (booted \/ Len(stack) = 3)
     \/ unit \in {"archive", "rot"} /\ job.at = "panic"
  /\ UNCHANGED vars

Spec == Init /\ [][Next \/ Stopped]_vars

\* Positions grow with transfers.
PosBounded == unit = "inode" => pos <= 6
-----------------------------------------------------------------------------
\* Where a group of n bits in state v begins.
Starts(n, v) == {i \in 0 .. Size - n : Bits!bitmap_count(b, i, n, v) = n}

(* bitmap_scan() finds the first group at or after START, and fails only   *)
(* when there is none, also at the very end of the bitmap; flipping the    *)
(* group changes as many bits as were asked for (bitmap.c:291).            *)
ScanFirst ==
  unit = "bits" => \A s \in 0 .. Size, n \in 1 .. Size + 1, v \in BOOLEAN :
    LET r == Bits!bitmap_scan(b, s, n, v)
        c == Bits!bitmap_scan_and_flip(b, s, n, v)
    IN  IF r = Bits!BITMAP_ERROR
        THEN c = b /\ \A i \in Starts(n, v) : i < s
        ELSE /\ r >= s /\ r \in Starts(n, v)
             /\ \A i \in Starts(n, v) : i < r => i < s
             /\ Bits!bitmap_count(c, 0, Size, ~v) = Bits!bitmap_count(b, 0, Size, ~v) + n
             /\ Bits!bitmap_all(IF v THEN b ELSE c, r, n)

\* What a file may hold beyond the bitmap's last bit.
Tails == [Size .. Bits!elem_cnt(Size) * 4 - 1 -> BOOLEAN]

(* A bitmap read back is the one written, whatever the unused bits of the  *)
(* file's last element hold (last_mask(), bitmap.c:63).                    *)
FileRoundTrip ==
  unit = "bits" => \A t \in Tails :
    LET file == Bits!bitmap_write(b)
        dirtied == [i \in DOMAIN file |-> IF i < Size THEN file[i] ELSE t[i]]
    IN  Bits!bitmap_read(Bits!bitmap_create(Size), dirtied) = b

(* bitmap.c, the bits on which both allocators rest: searching and writing *)
(* to a file and reading back, for every bitmap.                           *)
BitmapRight == ScanFirst /\ FileRoundTrip

(* A page's bit is set exactly while one thread answers for it, although   *)
(* palloc_free_multiple() resets bits without the lock under which         *)
(* palloc_get_multiple() tests and sets them; and pages obtained with      *)
(* PAL_ZERO stay zero until their owner writes, whoever freed them last    *)
(* (palloc.c).                                                             *)
PagesSound == unit = "pages" => Pages!BitsMatchOwners /\ Pages!ZeroedStayZero

(* Blocks of malloc(), calloc() and realloc() are as large as was asked,   *)
(* never overlap, keep clear of every struct arena, and lie in pages that  *)
(* are in use.  A free list holds blocks of live arenas of its descriptor  *)
(* only, each once and none in the program's hands; free_cnt counts them,  *)
(* and an arena without a used block is gone (malloc.c).                   *)
HeapSound ==
  unit = "blocks" => Blocks!BlocksSound /\ Blocks!AtLeastSize /\ Blocks!FreeListsSound /\ Blocks!FreeCntExact

(* When ide_read() or ide_write() is about to return, its sector and its   *)
(* buffer agree; between requests no command, no interrupt and no up of    *)
(* completion_wait is left over for the next thread; a disk that was       *)
(* registered answers every command (ide.c).                               *)
DiskSound == unit = "disk" => Disk!TransferDone /\ Disk!QuietWhenFree /\ Disk!NoPanic

(* An access a partition lets pass stays inside the disk and inside the    *)
(* partition, whatever the table says (partition.c).                       *)
AccessInside == unit = "partitions" => Partitions!AccessInside

(* Between operations of the file system no sector belongs to two files,   *)
(* and the free map marks exactly the sectors in use and the lost ones,    *)
(* after failed creations and removals of open files too; open_cnt and     *)
(* deny_write_cnt count the open files and those that deny writes.         *)
FilesSound == unit = "filesys" => Files!SectorsExact /\ Files!CountsExact

(* Whenever the machine stops, the files of the directory are disjoint on  *)
(* disk, and the free map on disk marks their sectors.                     *)
CrashSafe == unit = "filesys" => Files!CrashSafe

(* inode_read_at() and inode_write_at() move exactly the bytes a flat file *)
(* of that length would, a prefix of them when memory runs out, and        *)
(* file_read() and file_write() advance the position by the bytes moved.   *)
TransferRight == unit = "inode" => Inode!BytesRight /\ Inode!PositionRight

(* Whenever the machine stops during fsutil_extract(), each archived file  *)
(* is in the file system or still in the archive; after each               *)
(* fsutil_append() the device holds a complete archive; and a byte gone    *)
(* bad never makes fsutil_extract() create a file that was not archived.   *)
ArchiveKept ==
  /\ unit = "archive" => Scratch!NothingLost /\ Scratch!AppendReadable
  /\ unit = "rot" => Rotten!FilesGenuine
==============================================================================
