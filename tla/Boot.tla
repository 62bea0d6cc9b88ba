-------------------------------- MODULE Boot --------------------------------
(* threads/init.c, built with user programs and the file system: the options  *)
(* and actions of the kernel command line, the kernel's page tables, the      *)
(* choice of block devices, and the end of the run.  A word of the command    *)
(* line is its name and, behind an equals sign, its value.                    *)
EXTENDS Integers, Sequences, FiniteSetsExt, SequencesExt

CONSTANTS
  CommandLines,  \* sequences of words
  Devices,       \* the block devices registered, in probe order: [name, type]
  Clock,         \* rtc_get_time()
  RamSizes,      \* values of init_ram_pages
  Text,          \* pages of the kernel's text
  PtSize         \* entries of a page table

VARIABLES
  words, argv,   \* the command line, and the next word of it
  at,            \* where main() is, or how the machine stopped
  how, format, bdev, seed, mlfqs, limit,   \* what options set
  ram, mapped,   \* init_ram_pages; the page tables as vaddr -> [page, writable]
  roles,         \* block_by_role
  formatted,
  done           \* the actions run, each with its arguments

settings == <<how, format, bdev, seed, mlfqs, limit>>
vars == <<words, argv, at, settings, ram, mapped, roles, formatted, done>>

NULL == "null"
Roles == {"filesys", "scratch"}
OptionNames == {"-h", "-q", "-r", "-f", "-filesys", "-scratch", "-rs", "-mlfqs", "-ul"}
IsOption(w) == w.name \in OptionNames \cup {"-x"}
Stopped == {"off", "reboot", "halted"}

\* shutdown(): a machine with nothing configured stays on, with no thread left
\* to run, or in the endless loop of a panic.
Shutdown == IF how = "none" THEN "halted" ELSE how
-----------------------------------------------------------------------------
Init ==
  /\ words \in CommandLines /\ argv = 1
  /\ at = "options"
  /\ how = "none" /\ format = FALSE /\ bdev = [r \in Roles |-> NULL] /\ mlfqs = FALSE /\ limit = "max"
  /\ seed = "unset"
  /\ ram \in RamSizes /\ mapped = {}
  /\ roles = [r \in Roles |-> NULL]
  /\ formatted = FALSE
  /\ done = <<>>

More == argv <= Len(words)

\* Faulty: a second choice is ignored.
shutdown_configure_once(type) == IF how = "none" THEN type ELSE how

shutdown_configure(type) == type

\* The place of the next option, or one behind the command line.
NextOption == IF More /\ IsOption(words[argv]) THEN argv ELSE Len(words) + 1

\* One option.  A number without a value stops at the assertion in atoi().
parse_option ==
  /\ at = "options" /\ NextOption <= Len(words)
  /\ LET w == words[NextOption]
     IN  /\ argv' = NextOption + 1
         /\ how' = CASE w.name = "-q" -> shutdown_configure("off")
                     [] w.name = "-r" -> shutdown_configure("reboot")
                     [] OTHER -> how
         /\ format' = (format \/ w.name = "-f")
         /\ bdev' = [r \in Roles |-> IF w.name = (IF r = "filesys" THEN "-filesys" ELSE "-scratch")
                                     THEN w.value ELSE bdev[r]]
         /\ seed' = IF w.name = "-rs" /\ w.value # NULL THEN w.value ELSE seed
         /\ limit' = IF w.name = "-ul" /\ w.value # NULL THEN w.value ELSE limit
         /\ mlfqs' = (mlfqs \/ w.name = "-mlfqs")
         /\ at' = IF w.name = "-h" THEN "off"
                  ELSE IF w.name \notin OptionNames \/ (w.name \in {"-rs", "-ul"} /\ w.value = NULL) THEN Shutdown
                  ELSE at
  /\ UNCHANGED <<words, ram, mapped, roles, formatted, done>>

\* No option is left: the generator is seeded with the time.
parse_options_end ==
  /\ at = "options" /\ NextOption > Len(words)
  /\ seed' = Clock
  /\ at' = "paging"
  /\ UNCHANGED <<words, argv, how, format, bdev, mlfqs, limit, ram, mapped, roles, formatted, done>>
-----------------------------------------------------------------------------
PageDirectory == 0 .. (Max(RamSizes) \div PtSize) + 1

\* A directory entry that is empty gets a new table, which is the current one.
Table(st, pde) ==
  IF st.pd[pde] = 0 THEN [st EXCEPT !.pd[pde] = Len(st.tables) + 1, !.tables = Append(@, <<>>)] ELSE st

\* Each page's entry goes into the current table; an entry is <<pte, page, writable>>.
PageTables ==
  LET Enter(st, page) ==
        LET t == Table(st, page \div PtSize)
            entry == <<page % PtSize, page, page \notin Text>>
        IN  [t EXCEPT !.tables[Len(t.tables)] = Append(@, entry)]
  IN  FoldLeft(Enter, [pd |-> [i \in PageDirectory |-> 0], tables |-> <<>>], [p \in 1 .. ram |-> p - 1])

\* What the processor finds at each virtual page, counted from PHYS_BASE.
Translations(st) ==
  UNION {{[vpage |-> pde * PtSize + e[1], page |-> e[2], writable |-> e[3]] :
             e \in ToSet(st.tables[st.pd[pde]])} : pde \in {i \in PageDirectory : st.pd[i] # 0}}

paging_init ==
  /\ at = "paging"
  /\ mapped' = Translations(PageTables)
  /\ at' = "devices"
  /\ UNCHANGED <<words, argv, settings, ram, roles, formatted, done>>

block_get_by_name(name) == SelectInSeq(Devices, LAMBDA d : d.name = name)

FirstOfType(role) == SelectInSeq(Devices, LAMBDA d : d.type = role)

locate_block_device(role) ==
  LET k == IF bdev[role] # NULL THEN block_get_by_name(bdev[role]) ELSE FirstOfType(role)
  IN  IF k = 0 THEN NULL ELSE Devices[k].name

\* Both roles, then the file system.  A name that is not there stops the kernel,
\* and so does a machine without a file system device.
locate_block_devices ==
  /\ at = "devices"
  /\ LET missing == {r \in Roles : bdev[r] # NULL /\ block_get_by_name(bdev[r]) = 0}
     IN  IF "filesys" \in missing THEN at' = Shutdown /\ UNCHANGED <<roles, formatted>>
         ELSE IF "scratch" \in missing
         THEN at' = Shutdown /\ roles' = [roles EXCEPT !["filesys"] = locate_block_device("filesys")] /\ UNCHANGED formatted
         ELSE /\ roles' = [r \in Roles |-> locate_block_device(r)]
              /\ IF roles'["filesys"] = NULL THEN at' = Shutdown /\ UNCHANGED formatted
                 ELSE at' = "actions" /\ formatted' = format
  /\ UNCHANGED <<words, argv, settings, ram, mapped, done>>
-----------------------------------------------------------------------------
\* The table of actions: words taken, the name included.
actions == [run |-> 2, ls |-> 1, cat |-> 2, rm |-> 2, extract |-> 1, append |-> 2]

Advance(argc) == argv + argc

\* One action, with its arguments or a panic for want of them.
run_action ==
  /\ at = "actions" /\ More
  /\ LET name == words[argv].name
     IN  IF name \notin DOMAIN actions \/ argv + actions[name] - 1 > Len(words)
         THEN at' = Shutdown /\ UNCHANGED <<argv, done>>
         ELSE /\ done' = Append(done, SubSeq(words, argv, argv + actions[name] - 1))
              /\ argv' = Advance(actions[name])
              /\ UNCHANGED at
  /\ UNCHANGED <<words, settings, ram, mapped, roles, formatted>>

\* The action itself panics, say because a file is missing.
ActionPanics ==
  /\ at = "actions" /\ done # <<>>
  /\ at' = Shutdown
  /\ UNCHANGED <<words, argv, settings, ram, mapped, roles, formatted, done>>

\* main() ends with shutdown() and thread_exit().
finish ==
  /\ at = "actions" /\ ~More
  /\ at' = Shutdown
  /\ UNCHANGED <<words, argv, settings, ram, mapped, roles, formatted, done>>

Next ==
  \/ parse_option \/ parse_options_end \/ paging_init \/ locate_block_devices
  \/ run_action \/ ActionPanics \/ finish
  \/ at \in Stopped /\ UNCHANGED vars

Spec == Init /\ [][Next]_vars
-----------------------------------------------------------------------------
\* The options are the words before the first that is not one.
OptionCount == Min({Len(words)} \cup {k - 1 : k \in {i \in DOMAIN words : ~IsOption(words[i])}})
Given(name) == \E k \in 1 .. OptionCount : words[k].name = name
LastOf(names) == Max({0} \cup {k \in 1 .. OptionCount : words[k].name \in names})

\* The file system is formatted only when -f is among the options, never because
\* an action's argument reads -f: init.c:231, "Options must precede actions".
FormatsAsAsked == formatted => Given("-f")

\* The actions run are the command line's, in its order, each with the arguments
\* that follow it, and none is taken for another's argument: init.c:297-344.
ActionsInOrder ==
  done # <<>> => /\ IsPrefix(FlattenSeq(done), SubSeq(words, OptionCount + 1, Len(words)))
                 /\ \A k \in DOMAIN done : Len(done[k]) = actions[done[k][1].name]

\* Whatever ends the run once the options are read, the machine stops the way the
\* last -q or -r says, and "on panic" too: init.c:370, shutdown.c:29-46.
StopsAsAsked ==
  at \in Stopped /\ seed = Clock =>
    LET k == LastOf({"-q", "-r"})
    IN  at = (IF k = 0 THEN "halted" ELSE IF words[k].name = "-q" THEN "off" ELSE "reboot")

\* While actions run the file system is on the device named, or on the first of
\* its type, and so is the scratch device where there is one: init.c:401-428.
RolesRight ==
  at = "actions" =>
    /\ roles["filesys"] # NULL
    /\ \A r \in Roles :
         \/ roles[r] = NULL /\ bdev[r] = NULL /\ \A k \in DOMAIN Devices : Devices[k].type # r
         \/ \E k \in DOMAIN Devices : /\ roles[r] = Devices[k].name
                                      /\ \/ Devices[k].name = bdev[r]
                                         \/ /\ bdev[r] = NULL /\ Devices[k].type = r
                                            /\ \A j \in 1 .. k - 1 : Devices[j].type # r

\* The kernel's tables map every page of memory at its place, once, and only the
\* text read-only: init.c:157-181.
KernelMapped ==
  at \in {"devices", "actions"} =>
    mapped = {[vpage |-> p, page |-> p, writable |-> p \notin Text] : p \in 0 .. ram - 1}
=============================================================================
