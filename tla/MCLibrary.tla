------------------------------ MODULE MCLibrary ------------------------------
(* Small instances of the library, of the command shell's parser and of the   *)
(* kernel's start-up.  Each behaviour runs the one that `unit' names, from    *)
(* its initial states; the variables of the others are not in use.            *)
EXTENDS Integers, Sequences, FiniteSets

CONSTANT NoValue

VARIABLES unit, heap, buckets, elem_cnt, ret, num, den, res, array, str, mem, old, op, tokens, save,
                call, out, box, s_i, s_j, inited, seed, drawn, inits, raw, line, cbuf, used, result,
                words, argv, at, how, format, bdev, mlfqs, limit, ram, mapped, roles, formatted,
                done

vars == <<unit, heap, buckets, elem_cnt, ret, num, den, res, array, str, mem, old, op, tokens, save,
          call, out, box, s_i, s_j, inited, seed, drawn, inits, raw, line, cbuf, used, result,
          words, argv, at, how, format, bdev, mlfqs, limit, ram, mapped, roles, formatted, done>>

Halves(elems) == [e \in elems |-> e \div 2]

(* Two lists over a few elements, some of them equal; and longer lists,      *)
(* filled in every order.                                                    *)
Lst == INSTANCE List WITH Elem <- {1, 2, 3}, Key <- Halves({1, 2, 3})
Long == INSTANCE List WITH Elem <- 1 .. 5, Key <- Halves(1 .. 5)

\* Seven elements, two of them equal, whose hashes collide at every size.
SmallKey == [e \in 1 .. 7 |-> e % 6]
SmallHash == [e \in 1 .. 7 |-> (3 * (e % 6)) % 8]
Table == INSTANCE Hash WITH
  Elem <- 1 .. 7, Key <- SmallKey, HashOf <- SmallHash, MinBuckets <- 2, BEST_ELEMS_PER_BUCKET <- 1,
  NULL <- NoValue

\* Words of 4 bits: every pair of 8-bit operands.
Division == INSTANCE Arithmetic WITH Half <- 4, Steps <- <<2, 1>>, n <- num, d <- den

\* A space, the signs, a letter and the digits 0, 1, 2 and 8; ints of 8 bits.
SmallChars == {32, 43, 45, 120, 48, 49, 50, 56}
Std == INSTANCE Stdlib WITH Values <- 1 .. 4, MaxCnt <- 5, Chars <- SmallChars, MaxChars <- 4, IntMax <- 127

\* Every memory of six bytes over two characters, the last byte null.
Str == INSTANCE Strings WITH Top <- 5, Chars <- {1, 2}

\* int has 11 bits, long long 14 and char 4.
SmallBits == [t \in {"CHAR", "SHORT", "INT", "LONG", "LONGLONG", "INTMAX", "PTRDIFFT", "SIZET"} |->
  CASE t = "CHAR" -> 4 [] t = "SHORT" -> 6 [] t \in {"LONGLONG", "INTMAX"} -> 14 [] OTHER -> 11]

\* A width or precision as it is written, the argument it takes and its value.
Widths == {[text |-> <<>>, args |-> <<>>, value |-> 0], [text |-> <<"7">>, args |-> <<>>, value |-> 7],
           [text |-> <<"*">>, args |-> <<-8>>, value |-> -8]}
Precisions == {[text |-> <<>>, args |-> <<>>, value |-> -1], [text |-> <<".">>, args |-> <<>>, value |-> 0],
               [text |-> <<".", "5">>, args |-> <<>>, value |-> 5]}

SmallPlans ==
  {[flags |-> SUBSET {"-", "+", " ", "#", "0", "'"}, widths |-> Widths, precisions |-> Precisions,
    types |-> {1, 3}, convs |-> {"d", "u", "o", "x"}, values |-> {0, -1, 1000}],
   [flags |-> {{}, {"#"}, {"'"}}, widths |-> Widths, precisions |-> Precisions,
    types |-> 1 .. 8, convs |-> {"d", "i", "X"}, values |-> {-8192, 16383}],
   [flags |-> {{}, {"-"}, {"0"}}, widths |-> Widths, precisions |-> Precisions,
    types |-> {7}, convs |-> {"p"}, values |-> {0, 2047}]}

SmallTexts ==
  {[kind |-> "text", buf_size |-> size, args |-> <<t, <<"z">>, <<"y">>>>,
    format |-> <<"%">> \o flag \o <<"3">> \o p \o <<"s", "%", conv, "%", "2", "c">>] :
     size \in 0 .. 10, t \in {<<>>, <<"a">>, <<"a", "b", "c", "d">>}, flag \in {<<>>, <<"-">>},
     p \in {<<>>, <<".", "2">>}, conv \in {"c", "f", "k"}}

SmallDumps == {[kind |-> "dump", ofs |-> ofs, size |-> size] : ofs \in 0 .. 9, size \in 0 .. 14}

Io == INSTANCE Stdio WITH
  Bits <- SmallBits, Plans <- SmallPlans, Texts <- SmallTexts, Dumps <- SmallDumps,
  Sizes <- {0, 1, 2, 3, 4, 5, 15, 16, 17, 63, 64, 255, 256, 1023, 1024, 4096, 5000},
  BufMax <- 12, PerLine <- 4, Kilo <- 4

\* A box of eight bytes, seeds of two bytes.
Rc4 == INSTANCE Random WITH
  Size <- 8, Seeds <- (0 .. 7) \X {0, 1, 7}, MaxBytes <- 6, MaxInits <- 2, s <- box

\* A line that leaves text in the token buffer, then any line.
Parser == INSTANCE Shell WITH Letters <- {"a"}, Others <- {"!"}, MaxLen <- 5, CbufSize <- 24
Earlier == {<<"a", "|", "!", "!", "&">>}
SmallLines == Parser!Lines \ Earlier

\* Command lines of up to three words; three devices, two of them for files.
Plain(w) == [name |-> w, value |-> "null"]
Words == {Plain(w) : w \in {"-h", "-q", "-r", "-f", "-x", "-rs", "ls", "rm", "f"}}
           \cup {[name |-> "-filesys", value |-> v] : v \in {"hdb1", "hdz"}}
           \cup {[name |-> "-scratch", value |-> v] : v \in {"hda2", "hdz"}}
           \cup {[name |-> "-rs", value |-> "seed"], [name |-> "-ul", value |-> "few"]}
SmallCommands == UNION {[1 .. k -> Words] : k \in 0 .. 3}
SmallDevices == <<[name |-> "hda1", type |-> "filesys"], [name |-> "hda2", type |-> "raw"],
                  [name |-> "hdb1", type |-> "filesys"]>>
Start == INSTANCE Boot WITH
  CommandLines <- SmallCommands, Devices <- SmallDevices, Clock <- "now", RamSizes <- {8, 10}, Text <- {1, 2},
  PtSize <- 4
-----------------------------------------------------------------------------
\* What holds of, or happens to, variables that only these units use.
Unless(units, F) == IF unit \in units THEN TRUE ELSE F

Blank ==
  Long!list_init(Long!list_init([x \in Long!Node |-> [prev |-> Long!NULL, next |-> Long!NULL]], 1), 2)

RECURSIVE Filled(_, _)
Filled(h, q) == IF q = <<>> THEN h ELSE Filled(Long!list_push_back(h, 1, Head(q)), Tail(q))

LongInit ==
  \E k \in 0 .. 5 : \E q \in [1 .. k -> 1 .. 5] :
    /\ \A i, j \in 1 .. k : i # j => q[i] # q[j]
    /\ heap = Filled(Blank, q)

LongNext ==
  \/ heap' = Long!list_reverse(heap, 1)
  \/ heap' = Long!list_sort(heap, 1)
  \/ heap' = Long!list_unique(heap, 1, 2)
  \/ \E e \in Long!Free : /\ Long!is_sorted(heap, Long!list_begin(heap, 1), Long!list_end(1))
                          /\ heap' = Long!list_insert_ordered(heap, 1, e)

ShellNext ==
  \/ raw = Parser!NoLine /\ \E t \in Earlier : Parser!ReadLine(t)
  \/ raw \in Earlier /\ \E t \in SmallLines : Parser!ReadLine(t)
  \/ raw \notin Earlier \cup {Parser!NoLine} /\ UNCHANGED <<raw, line, cbuf, used, result>>

Init ==
  /\ \/ unit = "list" /\ Lst!Init
     \/ unit = "sort" /\ LongInit
     \/ unit = "hash" /\ Table!Init
     \/ unit = "division" /\ Division!Init
     \/ unit = "stdlib" /\ Std!Init
     \/ unit = "strings" /\ Str!Init
     \/ unit = "stdio" /\ Io!Init
     \/ unit = "random" /\ Rc4!Init
     \/ unit = "shell" /\ Parser!Init
     \/ unit = "boot" /\ Start!Init
  /\ Unless({"list", "sort"}, heap = NoValue)
  /\ Unless({"hash"}, buckets = NoValue /\ elem_cnt = NoValue)
  /\ Unless({"hash", "strings"}, ret = NoValue)
  /\ Unless({"division"}, num = NoValue /\ den = NoValue)
  /\ Unless({"division", "stdlib"}, res = NoValue)
  /\ Unless({"stdlib"}, array = NoValue /\ str = NoValue)
  /\ Unless({"strings"}, mem = NoValue /\ old = NoValue /\ op = NoValue /\ tokens = NoValue /\ save = NoValue)
  /\ Unless({"stdio"}, call = NoValue /\ out = NoValue)
  /\ Unless({"random"}, box = NoValue /\ s_i = NoValue /\ s_j = NoValue /\ inited = NoValue /\ drawn = NoValue
                        /\ inits = NoValue)
  /\ Unless({"random", "boot"}, seed = NoValue)
  /\ Unless({"shell"}, raw = NoValue /\ line = NoValue /\ cbuf = NoValue /\ used = NoValue /\ result = NoValue)
  /\ Unless({"boot"}, words = NoValue /\ argv = NoValue /\ at = NoValue /\ how = NoValue /\ format = NoValue /\ bdev = NoValue
                      /\ mlfqs = NoValue /\ limit = NoValue /\ ram = NoValue /\ mapped = NoValue /\ roles = NoValue
                      /\ formatted = NoValue /\ done = NoValue)

Next ==
  /\ \/ unit = "list" /\ Lst!Next
     \/ unit = "sort" /\ LongNext
     \/ unit = "hash" /\ Table!Next
     \/ unit = "division" /\ Division!Next
     \/ unit = "stdlib" /\ Std!Next
     \/ unit = "strings" /\ Str!Next
     \/ unit = "stdio" /\ Io!Next
     \/ unit = "random" /\ Rc4!Next
     \/ unit = "shell" /\ ShellNext
     \/ unit = "boot" /\ Start!Next
  /\ UNCHANGED unit
  /\ Unless({"list", "sort"}, UNCHANGED <<heap>>)
  /\ Unless({"hash"}, UNCHANGED <<buckets, elem_cnt>>)
  /\ Unless({"hash", "strings"}, UNCHANGED <<ret>>)
  /\ Unless({"division"}, UNCHANGED <<num, den>>)
  /\ Unless({"division", "stdlib"}, UNCHANGED <<res>>)
  /\ Unless({"stdlib"}, UNCHANGED <<array, str>>)
  /\ Unless({"strings"}, UNCHANGED <<mem, old, op, tokens, save>>)
  /\ Unless({"stdio"}, UNCHANGED <<call, out>>)
  /\ Unless({"random"}, UNCHANGED <<box, s_i, s_j, inited, drawn, inits>>)
  /\ Unless({"random", "boot"}, UNCHANGED <<seed>>)
  /\ Unless({"shell"}, UNCHANGED <<raw, line, cbuf, used, result>>)
  /\ Unless({"boot"}, UNCHANGED <<words, argv, at, how, format, bdev, mlfqs, limit, ram, mapped, roles,
                                  formatted, done>>)

Spec == Init /\ [][Next]_vars
-----------------------------------------------------------------------------
\* The two lists of a heap, followed forwards.
Short == <<Lst!Contents(heap, 1), Lst!Contents(heap, 2)>>
Longer == <<Long!Contents(heap, 1), Long!Contents(heap, 2)>>

(* Followed forwards, the pointers of list.c are the sequences list.h      *)
(* promises, whatever the operations; for longer lists too list_sort() is  *)
(* stable, list_unique() keeps the first of adjacent equals, and           *)
(* list_insert_ordered() keeps the order.                                  *)
ListRefines ==
  /\ unit = "list" => Lst!Abs!Init
  /\ [][unit = "list" => [Lst!Abs!Next]_Short]_heap
  /\ [][unit = "sort" => [Long!Abs!Next]_Longer]_heap

(* Every operation of hash.c does to the elements and returns what a       *)
(* dictionary does, also when growing the table fails.                     *)
HashRefines ==
  /\ unit = "hash" => Table!Dictionary!Init
  /\ [][unit = "hash" => Table!Dictionary!Next]_<<buckets, elem_cnt, ret>>

(* The redundancy of the containers: followed backwards, list.c's pointers *)
(* are the same sequences, and of several extreme elements list_max() and  *)
(* list_min() find the earliest; every element of a hash table is in the   *)
(* bucket its hash selects, once, counted, and visited once by hash_next().*)
ContainersSound ==
  /\ unit = "list" => Lst!PrevInverse /\ Lst!QueriesRight
  /\ unit = "hash" => Table!BucketsRight /\ Table!IterationComplete

(* No 32-bit division of arithmetic.c traps and every quotient is right,   *)
(* every remainder too that fits in a word; sort() puts any array in order *)
(* with the elements it had, and bsearch() finds a key exactly if it is    *)
(* there; atoi() reads every int without overflow; drawing permutes the    *)
(* box of random.c, and the seed alone decides what is drawn.              *)
NumbersRight ==
  /\ unit = "division" => Division!QuotientRight /\ Division!RemainderOfWord
  /\ unit = "stdlib" => Std!SortRight /\ Std!SearchRight /\ Std!AtoiRight
  /\ unit = "random" => Rc4!BoxIsPermutation /\ Rc4!SeedDecides

(* memmove() moves a block as it was, however the two places overlap;      *)
(* strlcpy() and strlcat() leave what fits, terminated, and return the     *)
(* length wanted; searches return what their comments define; the tokens   *)
(* of strtok_r() are all the pieces, in order, and keep their text.  Read  *)
(* back, the text printf() makes of an integer is its value in its type,   *)
(* and it fills its field on the side asked for; snprintf() stores what    *)
(* leaves room for the terminator and returns the whole length; hex_dump() *)
(* shows each byte once, in its place; sizes are rounded down.             *)
TextRight ==
  /\ unit = "strings" => Str!MoveRight /\ Str!CopyBounded /\ Str!LooksRight /\ Str!TokensRight
  /\ unit = "stdio" =>
       Io!IntegerRight /\ Io!FieldFilled /\ Io!BufferBounded /\ Io!DumpRight /\ Io!SizeRight

(* The command parse() builds is the one the line says, whatever earlier   *)
(* lines left in the buffers of parse.c, which are large enough; and       *)
(* stripwhite() takes the white space at both ends and nothing else.       *)
CommandRight == unit = "shell" => Parser!CommandRight /\ Parser!BuffersSuffice /\ Parser!StripRight

(* The kernel does what its command line says: it formats only with -f,    *)
(* each role is on the device named or the first of its type, the actions  *)
(* run in order with their own arguments, and the machine stops the way    *)
(* the last -q or -r says, on panic too.  paging_init() maps every page at *)
(* its place, once, and only the text read-only (init.c).                  *)
StartsAsAsked ==
  unit = "boot" =>
    /\ Start!FormatsAsAsked /\ Start!RolesRight /\ Start!ActionsInOrder /\ Start!StopsAsAsked
    /\ Start!KernelMapped
==============================================================================
