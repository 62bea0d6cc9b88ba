-------------------------------- MODULE Elf --------------------------------
(***************************************************************************)
(* load(), validate_segment(), load_segment() and setup_stack() of         *)
(* userprog/process.c as an algorithm: which memory the program headers of *)
(* a file become.  Addresses have Word values; a byte of the file is named *)
(* by its offset, a zeroed byte is Zero.                                   *)
(***************************************************************************)
EXTENDS Integers, Sequences

CONSTANTS
  Word,      \* 2^32
  PGSIZE,
  PHYS_BASE, \* the first kernel address
  Lengths,   \* file lengths
  Headers    \* sequences of program headers

Zero == -1

VARIABLES length, phdrs, i, at, upage, ofs, read_bytes, zero_bytes, mem
vars == <<length, phdrs, i, at, upage, ofs, read_bytes, zero_bytes, mem>>
file == <<length, phdrs>>

Init ==
  /\ length \in Lengths /\ phdrs \in Headers
  /\ i = 1 /\ at = "header" /\ upage = 0 /\ ofs = 0 /\ read_bytes = 0 /\ zero_bytes = 0
  /\ mem = <<>>

is_user_vaddr(a) == a < PHYS_BASE

\* Faulty: the region is not checked for wrapping around.
validate_segment_wrap(p) ==
  /\ p.offset % PGSIZE = p.vaddr % PGSIZE
  /\ p.offset <= length
  /\ p.memsz >= p.filesz /\ p.memsz # 0
  /\ is_user_vaddr(p.vaddr) /\ is_user_vaddr((p.vaddr + p.memsz) % Word)
  /\ p.vaddr >= PGSIZE

validate_segment(p) ==
  /\ p.offset % PGSIZE = p.vaddr % PGSIZE
  /\ p.offset <= length
  /\ p.memsz >= p.filesz /\ p.memsz # 0
  /\ is_user_vaddr(p.vaddr) /\ is_user_vaddr((p.vaddr + p.memsz) % Word)
  /\ (p.vaddr + p.memsz) % Word >= p.vaddr
  /\ p.vaddr >= PGSIZE

ROUND_UP(x) == (((x + PGSIZE - 1) \div PGSIZE) * PGSIZE) % Word

\* The program header loop of load().
NextHeader ==
  /\ at = "header" /\ i <= Len(phdrs)
  /\ LET p == phdrs[i]
         page_offset == p.vaddr % PGSIZE
         read == IF p.filesz > 0 THEN page_offset + p.filesz ELSE 0
     IN  \/ p.type = "ignored" /\ i' = i + 1 /\ UNCHANGED <<at, upage, ofs, read_bytes, zero_bytes>>
         \/ /\ p.type = "dynamic" \/ (p.type = "load" /\ ~validate_segment(p))
            /\ at' = "failed" /\ UNCHANGED <<i, upage, ofs, read_bytes, zero_bytes>>
         \/ /\ p.type = "load" /\ validate_segment(p)
            /\ at' = "page" /\ i' = i + 1
            /\ upage' = p.vaddr - page_offset /\ ofs' = p.offset - (p.offset % PGSIZE)
            /\ read_bytes' = read
            /\ zero_bytes' = (ROUND_UP(page_offset + p.memsz) - read) % Word
  /\ UNCHANGED <<file, mem>>

\* install_page().
Install(u, bytes) ==
  IF u \in DOMAIN mem THEN at' = "failed" /\ UNCHANGED mem
  ELSE at' = "page" /\ mem' = [a \in DOMAIN mem \cup u .. u + PGSIZE - 1 |->
                                 IF a \in DOMAIN mem THEN mem[a] ELSE bytes[a - u]]

\* One page of load_segment().
LoadPage ==
  LET page_read_bytes == IF read_bytes < PGSIZE THEN read_bytes ELSE PGSIZE
      page_zero_bytes == PGSIZE - page_read_bytes
  IN  /\ at = "page"
      /\ IF read_bytes = 0 /\ zero_bytes = 0
         THEN at' = "header" /\ UNCHANGED <<upage, ofs, read_bytes, zero_bytes, mem>>
         ELSE IF ofs + page_read_bytes > length /\ page_read_bytes > 0
         THEN at' = "failed" /\ UNCHANGED <<upage, ofs, read_bytes, zero_bytes, mem>>
         ELSE /\ Install(upage, [k \in 0 .. PGSIZE - 1 |-> IF k < page_read_bytes THEN ofs + k ELSE Zero])
              /\ read_bytes' = read_bytes - page_read_bytes
              /\ zero_bytes' = zero_bytes - page_zero_bytes
              /\ upage' = upage + PGSIZE /\ ofs' = ofs + page_read_bytes
      /\ UNCHANGED <<file, i>>

\* setup_stack().
SetupStack ==
  /\ at = "header" /\ i > Len(phdrs)
  /\ IF PHYS_BASE - PGSIZE \in DOMAIN mem THEN at' = "failed" /\ UNCHANGED mem
     ELSE /\ at' = "loaded"
          /\ mem' = [a \in DOMAIN mem \cup PHYS_BASE - PGSIZE .. PHYS_BASE - 1 |->
                       IF a \in DOMAIN mem THEN mem[a] ELSE Zero]
  /\ UNCHANGED <<file, i, upage, ofs, read_bytes, zero_bytes>>

Done == at \in {"failed", "loaded"} /\ UNCHANGED vars

Next == NextHeader \/ LoadPage \/ SetupStack \/ Done

Spec == Init /\ [][Next]_vars
-----------------------------------------------------------------------------
Segments == {p \in {phdrs[k] : k \in 1 .. Len(phdrs)} : p.type = "load"}

(* A loaded program sees its segments as the ELF format defines them, with *)
(* exact arithmetic: FILESZ bytes of the file and then zeros up to MEMSZ;  *)
(* and nothing of it lies in page 0 or in the kernel's half.               *)
ImageRight ==
  /\ DOMAIN mem \subseteq PGSIZE .. PHYS_BASE - 1
  /\ at = "loaded" => \A p \in Segments : \A k \in 0 .. p.memsz - 1 :
       /\ p.vaddr + k \in DOMAIN mem
       /\ mem[p.vaddr + k] = IF k < p.filesz THEN p.offset + k ELSE Zero

(* Loading fails only for a reason: a header that load() must refuse, a    *)
(* file that ends too early, or two segments or the stack in one page.     *)
FailsForReason ==
  LET pages(p) == p.vaddr \div PGSIZE .. (p.vaddr + p.memsz - 1) \div PGSIZE
      fits(p) == /\ p.offset % PGSIZE = p.vaddr % PGSIZE
                 /\ p.offset <= length /\ (p.filesz > 0 => p.offset + p.filesz <= length)
                 /\ 0 < p.memsz /\ p.filesz <= p.memsz
                 /\ PGSIZE <= p.vaddr /\ p.vaddr + p.memsz < PHYS_BASE
                 /\ (PHYS_BASE - PGSIZE) \div PGSIZE \notin pages(p)
  IN  at = "failed" => ~ /\ \A k \in 1 .. Len(phdrs) : phdrs[k].type # "dynamic"
                         /\ \A p \in Segments : fits(p)
                         /\ \A k, l \in 1 .. Len(phdrs) :
                              k # l /\ phdrs[k].type = "load" /\ phdrs[l].type = "load" =>
                                pages(phdrs[k]) \cap pages(phdrs[l]) = {}
============================================================================
