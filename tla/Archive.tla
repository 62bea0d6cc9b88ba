------------------------------ MODULE Archive ------------------------------
(* lib/ustar.c and filesys/fsutil.c: files are extracted from, and appended   *)
(* to, a ustar archive on the scratch device, one sector at a time; the       *)
(* machine may stop between any two sectors and start again.  A header is a   *)
(* sequence of bytes, shorter than the real one; a data sector holds PerSector*)
(* bytes of a file.                                                           *)
EXTENDS Integers, Sequences, FiniteSetsExt, SequencesExt

CONSTANTS
  Names,         \* file names: sequences of characters
  Contents,      \* what a file may hold
  PerSector,     \* BLOCK_SECTOR_SIZE
  NameSize,      \* sizeof h->name
  UlongMax, IntMax,        \* ULONG_MAX and INT_MAX
  Sectors,       \* size of the scratch device
  Originals,     \* archives the device may hold at first: sequences of <<name, content>>
  MaxBoots, MaxRot, MaxCreated   \* bounds

VARIABLES
  scratch,       \* the scratch device's sectors
  fs,            \* the file system: name -> content
  original,      \* the archive the device held at first
  appended,      \* the files appended since the machine started
  extractAt, appendAt,     \* the static variable `sector' of the two functions
  job,           \* what the kernel is doing
  boots, rot,    \* restarts so far; bytes that went bad
  past           \* names created and removed, and whether files were appended
                 \* and an extraction finished

vars == <<scratch, fs, original, appended, extractAt, appendAt, job, boots, rot, past>>

\* Characters and digits, as bytes.
Nul == 0
Slash == 1
Dot == 2
Magic == 5
Space == 7
Digit(n) == 8 + n
Byte == 0 .. 15
REGULAR == Digit(0)
DIRECTORY == Digit(5)
-----------------------------------------------------------------------------
\* The fields of the header: first and last byte.
Name == <<1, NameSize>>
Size == <<NameSize + 1, NameSize + 4>>
Chksum == <<NameSize + 5, NameSize + 8>>
Type == NameSize + 9
HeaderSize == NameSize + 12

FieldOf(h, f) == SubSeq(h, f[1], f[2])

\* As if the checksum field were all spaces.
calculate_chksum(h) ==
  FoldLeft(LAMBDA sum, i : sum + (IF i \in Chksum[1] .. Chksum[2] THEN Space ELSE h[i]), 0, [i \in 1 .. HeaderSize |-> i])

RECURSIVE strip_antisocial_prefixes(_)
\* Drops "/", "./" and "../" from the front.
strip_antisocial_prefixes(name) ==
  LET drop == IF IsPrefix(<<Slash>>, name) THEN 1 ELSE IF IsPrefix(<<Dot, Slash>>, name) THEN 2
              ELSE IF IsPrefix(<<Dot, Dot, Slash>>, name) THEN 3 ELSE 0
  IN  IF drop > 0 THEN strip_antisocial_prefixes(SubSeq(name, drop + 1, Len(name)))
      ELSE IF name \in {<<>>, <<Dot, Dot>>} THEN <<Dot>> ELSE name

\* snprintf() of "%0*o" into a field of n bytes, and strlcpy() into one.
Octal(value, n) == [i \in 1 .. n |-> IF i = n THEN Nul ELSE Digit((value \div 8^(n - 1 - i)) % 8)]
Padded(name, n) == [i \in 1 .. n |-> IF i <= Len(name) THEN name[i] ELSE Nul]

NameTooLong(name) == Len(strip_antisocial_prefixes(name)) > NameSize - 1

\* The bytes behind the checksum: type, magic, version and prefix.
ustar_make_header(name, type, size) ==
  LET h == Padded(strip_antisocial_prefixes(name), NameSize) \o Octal(size, 4) \o Octal(0, 4)
           \o <<type, Magic, Digit(0), Nul>>
  IN  [i \in 1 .. HeaderSize |-> IF i \in Chksum[1] .. Chksum[2]
                                 THEN Octal(calculate_chksum(h), 4)[i - Chksum[1] + 1] ELSE h[i]]

\* The value of an octal field that ends in a space or a null byte and does not
\* overflow, or -1.
parse_octal_field(s) ==
  LET ends == {i \in DOMAIN s : s[i] \in {Space, Nul}}
      end == Min(ends)
      Step(v, c) == IF v > UlongMax \div 8 \/ v = -1 \/ c \notin Digit(0) .. Digit(7) THEN -1
                    ELSE 8 * v + (c - Digit(0))
  IN  IF ends = {} \/ end = 1 THEN -1 ELSE FoldLeft(Step, 0, SubSeq(s, 1, end - 1))

Error == [type |-> "error"]
Eof == [type |-> "eof"]

\* The name up to its terminator.
NameIn(h) ==
  LET field == FieldOf(h, Name)
  IN  SubSeq(field, 1, Min({i \in DOMAIN field : field[i] = Nul}) - 1)

\* What a header with a valid checksum means.
Entry(h) ==
  LET size == parse_octal_field(FieldOf(h, Size))
  IN  IF h[NameSize] # Nul \/ h[HeaderSize] # Nul THEN Error
      ELSE IF h[Type] = DIRECTORY THEN [type |-> "directory"]
      ELSE IF h[Type] # REGULAR \/ size = -1 \/ size > IntMax THEN Error
      ELSE [type |-> "regular", name |-> strip_antisocial_prefixes(NameIn(h)), size |-> size]

is_all_zeros(h) == \A i \in DOMAIN h : h[i] = 0

ustar_parse_header(h) ==
  IF is_all_zeros(h) THEN Eof
  ELSE IF h[Type + 1] # Magic \/ h[Type + 2] # Digit(0) THEN Error
  ELSE IF parse_octal_field(FieldOf(h, Chksum)) # calculate_chksum(h) THEN Error
  ELSE Entry(h)
-----------------------------------------------------------------------------
\* A sector is a header or data; one full of zeros is both.
Zeros == [kind |-> "zeros"]
HeaderSector(h) == [kind |-> "header", bytes |-> h]
DataSector(bytes) == [kind |-> "data", bytes |-> bytes]
Parse(s) == IF s = Zeros THEN Eof ELSE IF s.kind = "header" THEN ustar_parse_header(s.bytes) ELSE Error

Chunks(n) == (n + PerSector - 1) \div PerSector
Chunk(content, k) == SubSeq(content, (k - 1) * PerSector + 1, Min({k * PerSector, Len(content)}))

\* The sectors of one file or directory, whose name ends in a slash, and of an
\* archive with its two end blocks.
IsDirectory(m) == IsSuffix(<<Slash>>, m[1])
Member(m) == <<HeaderSector(ustar_make_header(m[1], IF IsDirectory(m) THEN DIRECTORY ELSE REGULAR, Len(m[2])))>>
             \o [k \in 1 .. Chunks(Len(m[2])) |-> DataSector(Chunk(m[2], k))]
Tar(ms) == FlattenSeq([k \in DOMAIN ms |-> Member(ms[k])]) \o <<Zeros, Zeros>>

Idle == [at |-> "idle"]
Panic(what) == [at |-> "panic", what |-> what]

\* Behind the archive is whatever the device held before.
Init ==
  /\ original \in Originals
  /\ scratch = [s \in 1 .. Sectors |-> IF s <= Len(Tar(original)) THEN Tar(original)[s] ELSE DataSector(<<1>>)]
  /\ fs = [n \in {} |-> <<>>]
  /\ appended = <<>>
  /\ extractAt = 1 /\ appendAt = 1
  /\ job = Idle
  /\ boots = 0 /\ rot = 0
  /\ past = [created |-> {}, removed |-> {}, appended |-> FALSE, extracted |-> FALSE]

Put(n, content) == [m \in DOMAIN fs \cup {n} |-> IF m = n THEN content ELSE fs[m]]

\* Faulty: erases the archive first.
fsutil_extract_erases ==
  /\ job = Idle /\ ~past.appended
  /\ job' = [at |-> "header"]
  /\ scratch' = [scratch EXCEPT ![1] = Zeros]
  /\ UNCHANGED <<fs, original, appended, extractAt, appendAt, boots, rot, past>>

\* Begins, with memory for its buffers or none.  "`extract' should precede all
\* `append's" (fsutil.c:164).
fsutil_extract ==
  /\ job = Idle /\ ~past.appended
  /\ job' \in {[at |-> "header"], Panic("resources")}
  /\ UNCHANGED <<scratch, fs, original, appended, extractAt, appendAt, boots, rot, past>>

\* Reads a header.  A file is created with its size; that fails when it exists,
\* and may for want of space or memory.  A read outside the device panics.
ExtractHeader ==
  /\ job.at = "header"
  /\ IF extractAt > Sectors THEN job' = Panic("extract") /\ UNCHANGED <<fs, extractAt>>
     ELSE LET r == Parse(scratch[extractAt])
          IN  /\ extractAt' = extractAt + 1
              /\ CASE r.type = "error" -> job' = Panic("extract") /\ UNCHANGED fs
                   [] r.type = "eof" -> job' = [at |-> "erase", sector |-> 1] /\ UNCHANGED fs
                   [] r.type = "directory" -> UNCHANGED <<job, fs>>
                   [] r.type = "regular" ->
                        IF r.name \in DOMAIN fs THEN job' = Panic("extract") /\ UNCHANGED fs
                        ELSE \/ job' = Panic("resources") /\ UNCHANGED fs
                             \/ /\ fs' = Put(r.name, [i \in 1 .. r.size |-> 0])
                                /\ job' = IF r.size = 0 THEN job
                                          ELSE [at |-> "copy", name |-> r.name, size |-> r.size, pos |-> 0]
  /\ UNCHANGED <<scratch, original, appended, appendAt, boots, rot, past>>

\* Copies one sector's share of the file.
ExtractChunk ==
  /\ job.at = "copy"
  /\ IF extractAt > Sectors THEN job' = Panic("extract") /\ UNCHANGED <<fs, extractAt>>
     ELSE LET n == Min({job.size, PerSector})
              s == scratch[extractAt]
              bytes == IF s = Zeros THEN <<>> ELSE s.bytes
          IN  /\ extractAt' = extractAt + 1
              /\ fs' = [fs EXCEPT ![job.name] =
                          [i \in DOMAIN @ |-> IF i \notin job.pos + 1 .. job.pos + n THEN @[i]
                                              ELSE IF i - job.pos <= Len(bytes) THEN bytes[i - job.pos] ELSE 0]]
              /\ job' = IF job.size = n THEN [at |-> "header"] ELSE [job EXCEPT !.size = @ - n, !.pos = @ + n]
  /\ UNCHANGED <<scratch, original, appended, appendAt, boots, rot, past>>

\* Writes zeros over the first sector, then over the second.
ExtractErase ==
  /\ job.at = "erase"
  /\ scratch' = [scratch EXCEPT ![job.sector] = Zeros]
  /\ job' = IF job.sector = 1 THEN [at |-> "erase", sector |-> 2] ELSE Idle
  /\ past' = [past EXCEPT !.extracted = @ \/ job.sector = 2]
  /\ UNCHANGED <<fs, original, appended, extractAt, appendAt, boots, rot>>
-----------------------------------------------------------------------------
\* Opens the file and writes its header.
fsutil_append(n) ==
  /\ job = Idle
  /\ \/ job' = Panic("resources") /\ UNCHANGED <<scratch, appendAt, past>>
     \/ IF n \notin DOMAIN fs \/ NameTooLong(n) \/ appendAt > Sectors
        THEN job' = Panic("append") /\ UNCHANGED <<scratch, appendAt, past>>
        ELSE /\ scratch' = [scratch EXCEPT ![appendAt] = HeaderSector(ustar_make_header(n, REGULAR, Len(fs[n])))]
             /\ appendAt' = appendAt + 1
             /\ job' = [at |-> "append", name |-> n, size |-> Len(fs[n]), pos |-> 0]
             /\ past' = [past EXCEPT !.appended = TRUE]
  /\ UNCHANGED <<fs, original, appended, extractAt, boots, rot>>

AppendChunk ==
  /\ job.at = "append" /\ job.size > 0
  /\ IF appendAt > Sectors THEN job' = Panic("append") /\ UNCHANGED <<scratch, appendAt>>
     ELSE LET n == Min({job.size, PerSector})
          IN  /\ scratch' = [scratch EXCEPT ![appendAt] = DataSector(SubSeq(fs[job.name], job.pos + 1, job.pos + n))]
              /\ appendAt' = appendAt + 1
              /\ job' = [job EXCEPT !.size = @ - n, !.pos = @ + n]
  /\ UNCHANGED <<fs, original, appended, extractAt, boots, rot, past>>

\* The end of the archive, behind which the next file will not start.
AppendEnd ==
  /\ job.at \in {"append", "end"} /\ (job.at = "append" => job.size = 0)
  /\ LET s == IF job.at = "append" THEN appendAt ELSE appendAt + 1
     IN  IF s > Sectors THEN job' = Panic("append") /\ UNCHANGED <<scratch, appended>>
         ELSE /\ scratch' = [scratch EXCEPT ![s] = Zeros]
              /\ IF job.at = "append" THEN job' = [at |-> "end", name |-> job.name] /\ UNCHANGED appended
                 ELSE job' = Idle /\ appended' = Append(appended, <<job.name, fs[job.name]>>)
  /\ UNCHANGED <<fs, original, extractAt, appendAt, boots, rot, past>>

fsutil_rm(n) ==
  /\ job = Idle
  /\ IF n \in DOMAIN fs
     THEN fs' = [m \in DOMAIN fs \ {n} |-> fs[m]] /\ past' = [past EXCEPT !.removed = @ \cup {n}] /\ UNCHANGED job
     ELSE job' = Panic("rm") /\ UNCHANGED <<fs, past>>
  /\ UNCHANGED <<scratch, original, appended, extractAt, appendAt, boots, rot>>

\* A program writes a file (MaxCreated bounds them).
Create(n, content) ==
  /\ job = Idle /\ n \notin DOMAIN fs /\ Cardinality(past.created) < MaxCreated
  /\ fs' = Put(n, content)
  /\ past' = [past EXCEPT !.created = @ \cup {n}]
  /\ UNCHANGED <<scratch, original, appended, extractAt, appendAt, job, boots, rot>>

\* The machine stops, at any moment, and starts again: a panic ends this way too.
Restart ==
  /\ boots < MaxBoots
  /\ boots' = boots + 1
  /\ job' = Idle
  /\ extractAt' = 1 /\ appendAt' = 1
  /\ appended' = <<>>
  /\ UNCHANGED <<scratch, fs, original, rot, past>>

\* One byte of a header goes bad while the archive waits to be extracted.
Rot(s, i, b) ==
  /\ boots = 0 /\ job = Idle /\ extractAt = 1 /\ ~past.appended
  /\ scratch[s].kind = "header" /\ i \in DOMAIN scratch[s].bytes /\ scratch[s].bytes[i] # b
  /\ scratch' = [scratch EXCEPT ![s].bytes[i] = b]
  /\ rot' = rot + 1
  /\ UNCHANGED <<fs, original, appended, extractAt, appendAt, job, boots, past>>

Extract == fsutil_extract \/ ExtractHeader \/ ExtractChunk \/ ExtractErase
AppendFile == (\E n \in Names : fsutil_append(n)) \/ AppendChunk \/ AppendEnd
Next ==
  \/ Extract \/ AppendFile \/ Restart
  \/ \E n \in Names : fsutil_rm(n) \/ \E c \in Contents : Create(n, c)
  \/ rot < MaxRot /\ \E s \in 1 .. Sectors, i \in 1 .. HeaderSize, b \in Byte : Rot(s, i, b)

Spec == Init /\ [][Next]_vars
-----------------------------------------------------------------------------
Extracted(m) == strip_antisocial_prefixes(m[1])
Holds(t) == \A k \in DOMAIN t : scratch[k] = t[k]

\* Until files are appended nothing of the archive is lost, wherever the machine
\* stops: each file is in the file system, complete, or was removed from it, or
\* the archive is still on the device: fsutil.c:145-152.
NothingLost ==
  past.appended \/ Holds(Tar(original)) \/
    \A k \in DOMAIN original :
      LET n == Extracted(original[k])
      IN  IsDirectory(original[k]) \/ n \in past.removed \/ (n \in DOMAIN fs /\ fs[n] = original[k][2])

\* Between appends the device holds, from its first sector, a complete archive
\* of the files appended since the start: fsutil.c:158-165, 213-218.
AppendReadable == job = Idle /\ appended # <<>> => Holds(Tar(appended))

\* A header with one bad byte is refused, or means what it meant: extraction
\* only ever makes files of the archive, with their names and sizes: ustar.c:205-225.
FilesGenuine ==
  \A n \in DOMAIN fs \ past.created :
    \E k \in DOMAIN original : ~IsDirectory(original[k]) /\ n = Extracted(original[k]) /\ Len(fs[n]) = Len(original[k][2])
=============================================================================
