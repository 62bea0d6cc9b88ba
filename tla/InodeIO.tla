------------------------------ MODULE InodeIO ------------------------------
(***************************************************************************)
(* inode_read_at() and inode_write_at() of filesys/inode.c, sector by      *)
(* sector, under file_read(), file_write() and file_seek() of              *)
(* filesys/file.c.  One file; its sectors are consecutive and sector k     *)
(* holds the file's bytes from k * BLOCK_SECTOR_SIZE on.  Sectors before   *)
(* and after it belong to others.                                          *)
(***************************************************************************)
EXTENDS Integers, Sequences, FiniteSetsExt

CONSTANTS
  NULL,
  BLOCK_SECTOR_SIZE,
  Lengths,    \* lengths of the file
  Byte,       \* values of bytes
  MaxPos,     \* bound on positions
  MaxSize     \* bound on the size of a transfer

VARIABLES
  length,          \* inode->data.length
  deny_write_cnt,
  disk,            \* disk[k][i]: byte i of sector k of the device
  pos,             \* file->pos
  io               \* the transfer in progress, or NULL

vars == <<length, deny_write_cnt, disk, pos, io>>

StartSector == 1
Sectors(len) == (len + BLOCK_SECTOR_SIZE - 1) \div BLOCK_SECTOR_SIZE
InSector == 0 .. BLOCK_SECTOR_SIZE - 1

\* The file as a flat array, for the properties.
Contents(d, len) ==
  [i \in 0 .. len - 1 |-> d[StartSector + (i \div BLOCK_SECTOR_SIZE)][i % BLOCK_SECTOR_SIZE]]

Init ==
  /\ length \in Lengths /\ deny_write_cnt \in {0, 1}
  /\ disk = [k \in 0 .. Sectors(length) + 1 |-> [i \in InSector |-> (k + i) % 2]]
  /\ pos = 0 /\ io = NULL

byte_to_sector(p) == IF p < length THEN StartSector + (p \div BLOCK_SECTOR_SIZE) ELSE -1

\* What can be moved in one go at offset.
min_left(offset) ==
  LET inode_left == length - offset
      sector_left == BLOCK_SECTOR_SIZE - (offset % BLOCK_SECTOR_SIZE)
  IN  IF inode_left < sector_left THEN inode_left ELSE sector_left

chunk_size == IF io.size < min_left(io.offset) THEN io.size ELSE min_left(io.offset)
Whole == io.offset % BLOCK_SECTOR_SIZE = 0 /\ chunk_size = BLOCK_SECTOR_SIZE

file_seek(new_pos) ==
  /\ io = NULL /\ pos' = new_pos
  /\ UNCHANGED <<length, deny_write_cnt, disk, io>>

\* file_read() or file_write(), or the _at() form, which leaves pos alone.
Start(op, buf, at, moves) ==
  io' = [op |-> op, buffer |-> buf, size |-> Len(buf), offset |-> at, n |-> 0, bounce |-> FALSE,
         moves |-> moves, done |-> "no",
         from |-> at, before |-> disk, pos |-> pos]
file_io(op, buf, at, moves) ==
  /\ io = NULL /\ (moves => at = pos)
  /\ Start(op, buf, at, moves)
  /\ UNCHANGED <<length, deny_write_cnt, disk, pos>>

\* inode_write_at() when writes are denied.
Denied == io.op = "write" /\ deny_write_cnt > 0

More == io # NULL /\ io.done = "no" /\ ~Denied /\ io.size > 0 /\ chunk_size > 0

\* The transfer advances by a chunk.
Advance(buf) ==
  io' = [io EXCEPT !.buffer = buf, !.size = @ - chunk_size, !.offset = @ + chunk_size,
                   !.n = @ + chunk_size, !.bounce = @ \/ ~Whole]

\* One turn of inode_read_at()'s loop.
Chunk ==
  /\ More /\ io.op = "read"
  /\ LET sector == disk[byte_to_sector(io.offset)]
         ofs == io.offset % BLOCK_SECTOR_SIZE
     IN  Advance([i \in 1 .. Len(io.buffer) |->
                    IF i \in io.n + 1 .. io.n + chunk_size THEN sector[ofs + i - io.n - 1]
                    ELSE io.buffer[i]])
  /\ UNCHANGED <<length, deny_write_cnt, disk, pos>>

\* Faulty: the bounce buffer starts with zeros although the sector holds more.
WriteChunkNoRead ==
  /\ More /\ io.op = "write"
  /\ LET idx == byte_to_sector(io.offset)
         ofs == io.offset % BLOCK_SECTOR_SIZE
     IN  disk' = [disk EXCEPT ![idx] =
           [i \in InSector |-> IF i \in ofs .. ofs + chunk_size - 1 THEN io.buffer[io.n + i - ofs + 1] ELSE 0]]
  /\ Advance(io.buffer)
  /\ UNCHANGED <<length, deny_write_cnt, pos>>

(* One turn of inode_write_at()'s loop.  A sector that is not overwritten  *)
(* as a whole is read first; the zeros the code provides for are never     *)
(* needed.                                                                 *)
WriteChunk ==
  /\ More /\ io.op = "write"
  /\ LET idx == byte_to_sector(io.offset)
         ofs == io.offset % BLOCK_SECTOR_SIZE
         old == IF ofs > 0 \/ chunk_size < BLOCK_SECTOR_SIZE - ofs THEN disk[idx] ELSE [i \in InSector |-> 0]
     IN  disk' = [disk EXCEPT ![idx] =
           [i \in InSector |-> IF i \in ofs .. ofs + chunk_size - 1 THEN io.buffer[io.n + i - ofs + 1]
                               ELSE old[i]]]
  /\ Advance(io.buffer)
  /\ UNCHANGED <<length, deny_write_cnt, pos>>

\* The end of the loop: nothing left, the end of the file, or no memory.
Finish ==
  LET oom == More /\ ~Whole /\ ~io.bounce
  IN  /\ io # NULL /\ io.done = "no" /\ (oom \/ ~More)
      /\ pos' = IF io.moves THEN pos + io.n ELSE pos
      /\ io' = [io EXCEPT !.done = IF oom THEN "oom" ELSE "yes"]
      /\ UNCHANGED <<length, deny_write_cnt, disk>>

Return ==
  /\ io # NULL /\ io.done # "no"
  /\ io' = NULL
  /\ UNCHANGED <<length, deny_write_cnt, disk, pos>>

Next ==
  \/ \E p \in 0 .. MaxPos : file_seek(p)
  \/ \E at \in 0 .. MaxPos, n \in 0 .. MaxSize, moves \in BOOLEAN : file_io("read", [i \in 1 .. n |-> NULL], at, moves)
  \/ \E at \in 0 .. MaxPos, n \in 0 .. MaxSize, b \in Byte, moves \in BOOLEAN :
       file_io("write", [i \in 1 .. n |-> (b + i) % 3], at, moves)
  \/ Chunk \/ WriteChunk \/ Finish \/ Return

Spec == Init /\ [][Next]_vars
-----------------------------------------------------------------------------
\* The bytes a transfer of want bytes at from moves in a flat file.
Moved(op, from, want) ==
  IF op = "write" /\ deny_write_cnt > 0 THEN 0 ELSE Max({0, Min({want, length - from})})

(* A transfer moves exactly the bytes a flat file of that length would: as *)
(* many (a prefix of them when no bounce buffer could be allocated), the   *)
(* right ones, and nothing else on the device changes.                     *)
BytesRight ==
  io # NULL /\ io.done # "no" =>
    LET all == Moved(io.op, io.from, Len(io.buffer))
        n == IF io.done = "oom" THEN Min({io.n, all}) ELSE all
        old == Contents(io.before, length)
    IN  /\ io.n = n
        /\ io.op = "read" => \A i \in 1 .. n : io.buffer[i] = old[io.from + i - 1]
        /\ io.op = "write" =>
             Contents(disk, length) =
               [i \in 0 .. length - 1 |-> IF i \in io.from .. io.from + n - 1
                                          THEN io.buffer[i - io.from + 1] ELSE old[i]]
        /\ disk[0] = io.before[0] /\ disk[Sectors(length) + 1] = io.before[Sectors(length) + 1]

(* file_read() and file_write() advance the position by the bytes moved,   *)
(* short transfers included, so that reading on never skips a byte;        *)
(* file_read_at() and file_write_at() leave it alone.                      *)
PositionRight ==
  io # NULL /\ io.done # "no" => pos = io.pos + IF io.moves THEN io.n ELSE 0
============================================================================
