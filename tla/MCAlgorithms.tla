---------------------------- MODULE MCAlgorithms ----------------------------
(***************************************************************************)
(* The sequential algorithms of the kernel and of the warehouse, each      *)
(* against its reference definition.  A behaviour belongs to one component *)
(* (part); the variables of the others are set aside.                      *)
(***************************************************************************)
EXTENDS RouteSearch, KList, KHash, KBitmap, Stdlib, Strings, Arith, Vga, Keyboard,
        FileData, Archive, Loader, Partition, CommandLine

VARIABLE part

\* KList, KHash: two elements have each key, and keys share buckets.
ListKey == [e \in Elem |-> e \div 2]
TableKey == [e \in HashElem |-> IF e > 8 THEN e - 8 ELSE e]
TableHash == [k \in 1 .. 8 |-> (k * 5) % 8]

\* Loader: one header at every boundary of file, page and address space, or two
\* headers of fewer kinds.
Phdrs(types, offsets, vaddrs, fileszs, memszs) ==
  [type : types, offset : offsets, vaddr : vaddrs, filesz : fileszs, memsz : memszs,
   writable : {TRUE}]
Broad == Phdrs({1}, {0, 1, 3, 4, 5, 9, 10}, {3, 4, 5, 8, 15, 16, 23, 24, 31},
               {0, 1, 3, 4, 6, 31}, {0, 1, 4, 7, 8, 31})
Few == Phdrs({1}, {0, 1}, {4, 5, 8, 16}, {0, 3, 8}, {3, 8})
         \cup {[type |-> t, offset |-> 0, vaddr |-> 0, filesz |-> 0, memsz |-> 0,
                writable |-> FALSE] : t \in {3, 4}}
Exes ==
  {[ehdr |-> TRUE, phnum |-> 1, phdrs |-> <<p>>] : p \in Broad}
    \cup {[ehdr |-> TRUE, phnum |-> n, phdrs |-> <<p, [q EXCEPT !.writable = ~@]>>] :
            p \in Few, q \in Few, n \in {2, 3}}
    \cup {NoExe}

\* Partition: a table of two entries, at every boundary of disk and sector number;
\* an extended partition only where it cannot be read.
TableEntries ==
  [type : {0, 32, 33, 131}, offset : {0, 1, 3, 4, 7}, size : {0, 1, 2, 7}]
    \cup [type : {5}, offset : {7}, size : {1}]
Images == {[NoImage EXCEPT ![0] = <<a, b>>] : a \in TableEntries, b \in TableEntries}
            \cup {NoImage}

\* CommandLine: every line of up to three words, of up to four without the options
\* that only set a flag or a number, and lines that are too long.
OptionWords ==
  {<<o, None>> : o \in {"-h", "-q", "-r", "-f", "-rs", "-mlfqs", "-ul", "-x"}}
    \cup {<<"-rs", "7">>, <<"-ul", "9">>, <<"-filesys", "hdb1">>, <<"-scratch", "hdz">>}
PlainWords == {<<w, None>> : w \in {"run", "ls", "automated_warehouse", "name"}}
LongWords == {w \in OptionWords \cup PlainWords : w[1] \notin {"-f", "-mlfqs", "-ul"}}
Lines == SeqOf(OptionWords \cup PlainWords, 3) \cup SeqOf(LongWords, 4)
           \cup [1 .. 5 -> {<<"-q", None>>, <<"ls", None>>}]

\* Strings: the delimiters of strtok_r's calls.
DelimiterSets == {{}, {1}, {1, 2}}

-----------------------------------------------------------------------------
\* The variables of a component that a behaviour is not about.
Aside == "aside"
RouteAside == rs = Aside
ListAside == links = Aside /\ seq = Aside
HashAside == table = Aside /\ members = Aside
BitmapAside == bits = Aside /\ bitfile = Aside /\ ones = Aside /\ fileones = Aside
StdlibAside == array = Aside /\ str = Aside
ArithAside == dividend = Aside
VgaAside ==
  /\ fb = Aside /\ cx = Aside /\ cy = Aside /\ inited = Aside /\ cursor = Aside
  /\ printed = Aside /\ paper = Aside /\ col = Aside
KeyboardAside ==
  /\ shift_state = Aside /\ caps_lock = Aside /\ kbd_input = Aside /\ rebooted = Aside
  /\ key_down = Aside /\ legend_text = Aside /\ three_keys = Aside
FileDataAside == sector_data = Aside /\ pos = Aside /\ deny_write = Aside /\ content = Aside
ArchiveAside ==
  /\ files = Aside /\ scratch = Aside /\ extract_sector = Aside /\ append_sector = Aside
  /\ halted = Aside /\ expected = Aside /\ archive = Aside /\ ended = Aside
  /\ boots = Aside /\ path = Aside
LoaderAside == exe = Aside /\ loader = Aside /\ space = Aside
PartitionAside ==
  /\ image = Aside /\ calls = Aside /\ part_nr = Aside /\ all_blocks = Aside
  /\ block_by_role = Aside /\ disk_data = Aside /\ transfers = Aside /\ phase = Aside
StringsAside ==
  /\ mem = Aside /\ save_ptr = Aside /\ token = Aside /\ expected_token = Aside
  /\ untouched = Aside
CommandAside ==
  /\ line = Aside /\ argv = Aside /\ stage = Aside /\ options = Aside /\ how = Aside
  /\ seed = Aside /\ ran = Aside /\ failed = Aside

Init ==
  /\ part \in {"route", "list", "hash", "bitmap", "stdlib", "arith", "vga", "keyboard",
              "file", "archive", "loader", "partition", "strings", "command"}
  /\ IF part = "route" THEN NavInit ELSE RouteAside
  /\ IF part = "list" THEN ListInit ELSE ListAside
  /\ IF part = "hash" THEN HashInit ELSE HashAside
  /\ IF part = "bitmap" THEN BitmapInit ELSE BitmapAside
  /\ IF part = "stdlib" THEN StdlibInit ELSE StdlibAside
  /\ IF part = "arith" THEN ArithInit ELSE ArithAside
  /\ IF part = "vga" THEN VgaInit ELSE VgaAside
  /\ IF part = "keyboard" THEN KeyboardInit ELSE KeyboardAside
  /\ IF part = "file" THEN FileDataInit ELSE FileDataAside
  /\ IF part = "archive" THEN ArchiveInit ELSE ArchiveAside
  /\ IF part = "loader" THEN LoaderInit ELSE LoaderAside
  /\ IF part = "partition" THEN PartitionInit ELSE PartitionAside
  /\ IF part = "strings" THEN StringsInit ELSE StringsAside
  /\ IF part = "command" THEN CommandLineInit ELSE CommandAside

allVars == <<part, rs, listVars, hashVars, bitmapVars, stdlibVars, dividend, vgaVars,
             kbdVars, fileDataVars, archiveVars, loaderVars, partitionVars, stringVars,
             commandVars>>

Next ==
  \/ /\ part = "route" /\ NavNext
     /\ UNCHANGED <<part, listVars, hashVars, bitmapVars, stdlibVars, dividend, vgaVars,
                   kbdVars, fileDataVars, archiveVars, loaderVars, partitionVars, stringVars,
                   commandVars>>
  \/ /\ part = "list" /\ ListNext
     /\ UNCHANGED <<part, rs, hashVars, bitmapVars, stdlibVars, dividend, vgaVars, kbdVars,
                   fileDataVars, archiveVars, loaderVars, partitionVars, stringVars, commandVars>>
  \/ /\ part = "hash" /\ HashNext
     /\ UNCHANGED <<part, rs, listVars, bitmapVars, stdlibVars, dividend, vgaVars, kbdVars,
                   fileDataVars, archiveVars, loaderVars, partitionVars, stringVars, commandVars>>
  \/ /\ part = "bitmap" /\ BitmapNext
     /\ UNCHANGED <<part, rs, listVars, hashVars, stdlibVars, dividend, vgaVars, kbdVars,
                   fileDataVars, archiveVars, loaderVars, partitionVars, stringVars, commandVars>>
  \/ /\ part = "stdlib" /\ StdlibNext
     /\ UNCHANGED <<part, rs, listVars, hashVars, bitmapVars, dividend, vgaVars, kbdVars,
                   fileDataVars, archiveVars, loaderVars, partitionVars, stringVars, commandVars>>
  \/ /\ part = "arith" /\ ArithNext
     /\ UNCHANGED <<part, rs, listVars, hashVars, bitmapVars, stdlibVars, vgaVars, kbdVars,
                   fileDataVars, archiveVars, loaderVars, partitionVars, stringVars, commandVars>>
  \/ /\ part = "vga" /\ VgaNext
     /\ UNCHANGED <<part, rs, listVars, hashVars, bitmapVars, stdlibVars, dividend, kbdVars,
                   fileDataVars, archiveVars, loaderVars, partitionVars, stringVars, commandVars>>
  \/ /\ part = "keyboard" /\ KeyboardNext
     /\ UNCHANGED <<part, rs, listVars, hashVars, bitmapVars, stdlibVars, dividend, vgaVars,
                   fileDataVars, archiveVars, loaderVars, partitionVars, stringVars, commandVars>>
  \/ /\ part = "file" /\ FileDataNext
     /\ UNCHANGED <<part, rs, listVars, hashVars, bitmapVars, stdlibVars, dividend, vgaVars,
                   kbdVars, archiveVars, loaderVars, partitionVars, stringVars, commandVars>>
  \/ /\ part = "archive" /\ ArchiveNext
     /\ UNCHANGED <<part, rs, listVars, hashVars, bitmapVars, stdlibVars, dividend, vgaVars,
                   kbdVars, fileDataVars, loaderVars, partitionVars, stringVars, commandVars>>
  \/ /\ part = "loader" /\ LoaderNext
     /\ UNCHANGED <<part, rs, listVars, hashVars, bitmapVars, stdlibVars, dividend, vgaVars,
                   kbdVars, fileDataVars, archiveVars, partitionVars, stringVars, commandVars>>
  \/ /\ part = "partition" /\ PartitionNext
     /\ UNCHANGED <<part, rs, listVars, hashVars, bitmapVars, stdlibVars, dividend, vgaVars,
                   kbdVars, fileDataVars, archiveVars, loaderVars, stringVars, commandVars>>
  \/ /\ part = "strings" /\ StringsNext
     /\ UNCHANGED <<part, rs, listVars, hashVars, bitmapVars, stdlibVars, dividend, vgaVars,
                   kbdVars, fileDataVars, archiveVars, loaderVars, partitionVars, commandVars>>
  \/ /\ part = "command" /\ CommandLineNext
     /\ UNCHANGED <<part, rs, listVars, hashVars, bitmapVars, stdlibVars, dividend, vgaVars,
                   kbdVars, fileDataVars, archiveVars, loaderVars, partitionVars, stringVars>>

Spec == Init /\ [][Next]_allVars

-----------------------------------------------------------------------------
\* get_next_direction: the direction chosen begins a shortest path (ShortestStep).
MCShortestStep == part = "route" => ShortestStep

\* list.c: pointers and reference sequences agree (ListsExact).
MCListsExact == part = "list" => ListsExact

\* hash.c: every element is found under its key, whatever was rehashed (HashExact).
MCHashExact == part = "hash" => HashExact

\* bitmap.c, stdlib.c, string.c, arithmetic.c, calloc: the functions return what their
\* definitions say (BitmapExact, StdlibExact, StringsExact, DivisionExact,
\* CallocSizeExact).
MCLibraryExact ==
  /\ part = "bitmap" => BitmapExact
  /\ part = "stdlib" => StdlibExact
  /\ part = "strings" => StringsExact
  /\ part = "arith" => DivisionExact /\ CallocSizeExact

\* vga.c, kbd.c: the screen shows the last rows printed, and keys give the characters
\* of their legends (VgaExact, KeyboardExact).
MCTerminalExact ==
  /\ part = "vga" => VgaExact
  /\ part = "keyboard" => KeyboardExact

\* inode.c and file.c: a file reads back as it was written (FileDataExact).
MCFileDataExact == part = "file" => FileDataExact

\* fsutil.c and ustar.c: what is extracted is what was archived (ArchiveExact).
MCArchiveExact == part = "archive" => ArchiveExact

\* process.c: load maps what the headers say, or fails (LoadExact).
MCLoadExact == part = "loader" => LoadExact

\* partition.c and block.c: the partitions found are those of the tables, and stay
\* within the disk (PartitionsExact).
MCPartitionsExact == part = "partition" => PartitionsExact

\* init.c: a command line has the effect that its words describe (CommandLineExact).
MCCommandLineExact == part = "command" => CommandLineExact
=============================================================================
