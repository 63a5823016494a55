---------------------------- MODULE CommandLine ----------------------------
(***************************************************************************)
(* The kernel command line (threads/init.c): main reads its words, obeys   *)
(* the options, starts the kernel, runs the actions in order and shuts     *)
(* down as configured (devices/shutdown.c); a panic shuts down too.  A     *)
(* word is a pair: the text before "=" and the text after it (None when    *)
(* there is none).  Options and actions are those of the source with       *)
(* FILESYS and USERPROG.  The table has automated_warehouse in every       *)
(* build, although its header is included only without USERPROG.           *)
(***************************************************************************)
EXTENDS Integers, Sequences, SequencesExt, FiniteSetsExt

CONSTANTS
  OptionWord, PlainWord,  \* the words used: those that begin with "-", the others
  Line,                   \* the command lines, sequences of words
  WordLen,                \* bytes of a word with its terminator
  LOADER_ARGS_LEN,        \* bytes for all of them
  BlockName               \* the names of the block devices

None == "none"

VARIABLES
  line,           \* the words in memory
  argv, stage,
  options,        \* format_filesys, the two names of devices, thread_mlfqs, user_page_limit
  how,            \* of shutdown.c
  seed,           \* what random_init was last called with
  ran,            \* the actions run, each with its words
  failed          \* the last of them ended in a PANIC

commandVars == <<line, argv, stage, options, how, seed, ran, failed>>

\* The table of run_actions: the number of words of each action.
Argc == [a \in {"run", "automated_warehouse", "ls", "cat", "rm", "extract", "append"} |->
           CASE a \in {"ls", "extract"} -> 1 [] a = "automated_warehouse" -> 3 [] OTHER -> 2]

CommandLineInit ==
  /\ line \in Line
  /\ argv = <<>> /\ stage = "read" /\ ran = <<>> /\ failed = FALSE
  /\ options = [format |-> FALSE, device |-> None, scratch |-> None, mlfqs |-> FALSE, limit |-> None]
  /\ how = "none" /\ seed = None

\* shutdown, called at the end of main and by debug_panic.  Without an option it
\* returns: main ends and other threads go on, debug_panic loops for ever.
shutdown(otherwise) ==
  stage' = CASE how = "power_off" -> "off" [] how = "reboot" -> "rebooted" [] OTHER -> otherwise

debug_panic == shutdown("halted") /\ UNCHANGED <<line, argv, options, how, seed, ran, failed>>

read_command_line ==
  /\ stage = "read"
  /\ IF (Len(line) - 1) * WordLen >= LOADER_ARGS_LEN
       THEN debug_panic
       ELSE /\ argv' = line /\ stage' = "options"
            /\ UNCHANGED <<line, options, how, seed, ran, failed>>

-----------------------------------------------------------------------------
\* One round of the loop of parse_options.  atoi asserts that it has a string.
Obey(name, value) ==
  CASE name = "-h" -> stage' = "off" /\ UNCHANGED <<options, how, seed>>
    [] name = "-q" -> how' = "power_off" /\ UNCHANGED <<stage, options, seed>>
    [] name = "-r" -> how' = "reboot" /\ UNCHANGED <<stage, options, seed>>
    [] name = "-f" -> options' = [options EXCEPT !.format = TRUE] /\ UNCHANGED <<stage, how, seed>>
    [] name = "-filesys" -> options' = [options EXCEPT !.device = value] /\ UNCHANGED <<stage, how, seed>>
    [] name = "-scratch" -> options' = [options EXCEPT !.scratch = value] /\ UNCHANGED <<stage, how, seed>>
    [] name = "-mlfqs" -> options' = [options EXCEPT !.mlfqs = TRUE] /\ UNCHANGED <<stage, how, seed>>
    [] name = "-rs" /\ value # None -> seed' = value /\ UNCHANGED <<stage, options, how>>
    [] name = "-ul" /\ value # None ->
         options' = [options EXCEPT !.limit = value] /\ UNCHANGED <<stage, how, seed>>
    [] OTHER -> shutdown("halted") /\ UNCHANGED <<options, how, seed>>

IsOption(words) == words # <<>> /\ Head(words) \in OptionWord

parse_options ==
  /\ stage = "options" /\ IsOption(argv)
  /\ Obey(Head(argv)[1], Head(argv)[2])
  /\ argv' = Tail(argv)
  /\ UNCHANGED <<line, ran, failed>>

\* After the options: random_init (rtc_get_time ()), then the rest of main up to
\* "Boot complete.".  locate_block_device panics on a name that no device has; without
\* a name there is a device for the file system.
DevicesFound == {options.device, options.scratch} \subseteq BlockName \cup {None}

StartKernel ==
  /\ stage = "options" /\ ~IsOption(argv)
  /\ seed' = "clock"
  /\ IF DevicesFound THEN stage' = "actions" ELSE shutdown("halted")
  /\ UNCHANGED <<line, argv, options, how, ran, failed>>

-----------------------------------------------------------------------------
\* Variant of After: argv moves by one word, whatever the action took.
AfterName(words, n) == Tail(words)

After(words, n) == SubSeq(words, n + 1, Len(words))

\* The next action: it returns or ends in a PANIC.
RunAction ==
  /\ stage = "actions" /\ argv # <<>>
  /\ LET name == Head(argv)[1]
     IN  IF Head(argv)[2] = None /\ name \in DOMAIN Argc /\ Argc[name] <= Len(argv)
           THEN /\ ran' = Append(ran, SubSeq(argv, 1, Argc[name]))
                /\ \/ argv' = After(argv, Argc[name]) /\ UNCHANGED <<stage, failed>>
                   \/ shutdown("halted") /\ failed' = TRUE /\ UNCHANGED argv
                /\ UNCHANGED <<line, options, how, seed>>
           ELSE debug_panic

Finish ==
  /\ stage = "actions" /\ argv = <<>>
  /\ shutdown("idle") /\ UNCHANGED <<line, argv, options, how, seed, ran, failed>>

\* run_automated_warehouse returns when it has created its threads; the machine is
\* powered off by one of them.
Simulating == \E k \in DOMAIN ran : ran[k][1][1] = "automated_warehouse"

WarehouseDone ==
  /\ stage \in {"actions", "idle"} /\ Simulating
  /\ stage' = "off"
  /\ UNCHANGED <<line, argv, options, how, seed, ran, failed>>

CommandLineNext ==
  \/ read_command_line \/ parse_options \/ StartKernel \/ RunAction \/ Finish
  \/ WarehouseDone

-----------------------------------------------------------------------------
(* Meaning of a command line. *)

NumOptions == Max({n \in 0 .. Len(line) : \A k \in 1 .. n : line[k] \in OptionWord})
Known(w) ==
  \/ w[1] \in {"-h", "-q", "-r", "-f", "-filesys", "-scratch", "-mlfqs"}
  \/ w[1] \in {"-rs", "-ul"} /\ w[2] # None
\* The option that ends the parse, if any; the options that count.
Ending == {k \in 1 .. NumOptions : line[k][1] = "-h" \/ ~Known(line[k])}
Obeyed == 1 .. (IF Ending = {} THEN NumOptions ELSE Min(Ending) - 1)
LastOf(names) == Max({0} \cup {k \in Obeyed : line[k][1] \in names})
OptionNumber(name) == IF LastOf({name}) = 0 THEN None ELSE line[LastOf({name})][2]
LineFits == Len(line) * WordLen <= LOADER_ARGS_LEN

\* Where the actions begin, if the words after the options are actions with all
\* their arguments.
Cuts ==
  {c \in SUBSET (NumOptions + 1 .. Len(line) + 1) :
     /\ {NumOptions + 1, Len(line) + 1} \subseteq c
     /\ \A k \in c \ {Len(line) + 1} :
          /\ line[k] \in PlainWord /\ line[k][1] \in DOMAIN Argc
          /\ k + Argc[line[k][1]] = Min({j \in c : j > k})}

Over == stage \in {"off", "rebooted", "idle", "halted"}

\* How the machine ends: as -q or -r say, whichever is last.
Ends(otherwise) ==
  CASE LastOf({"-q", "-r"}) = 0 -> otherwise
    [] line[LastOf({"-q", "-r"})][1] = "-q" -> "off"
    [] OTHER -> "rebooted"

AllRan == FlattenSeq(ran) = SubSeq(line, NumOptions + 1, Len(line))

\* init.c, shutdown.c: options stop at the first word that is none, and the same words
\* later are arguments; the last of -q and -r decides how the machine ends, after a
\* panic too; -h powers off at once; every action runs once, in order, with its own
\* words, and all of them run when the line is well formed, unless one panics or the
\* warehouse is done before.
CommandLineExact ==
  Over =>
    /\ stage \in CASE ~LineFits -> {"halted"}
                   [] Ending # {} /\ line[Min(Ending)][1] = "-h" -> {"off"}
                   [] Ending = {} /\ DevicesFound /\ ~failed /\ Cuts # {} ->
                        {Ends("idle")} \cup IF Simulating THEN {"off"} ELSE {}
                   [] OTHER -> {Ends("halted")} \cup IF Simulating THEN {"off"} ELSE {}
    /\ ~LineFits \/ Ending # {} => ran = <<>>
    /\ IsPrefix(FlattenSeq(ran), SubSeq(line, NumOptions + 1, Len(line)))
    /\ \A k \in DOMAIN ran : Len(ran[k]) = Argc[ran[k][1][1]]
    /\ (LineFits /\ Ending = {} /\ DevicesFound /\ ~failed /\ ~Simulating) =>
         (Cuts # {} <=> AllRan)
    /\ stage = "idle" => AllRan
    /\ LineFits => options.device = OptionNumber("-filesys") /\ options.scratch = OptionNumber("-scratch")

\* init.c, comment of the random_init at the end of parse_options: it has no effect
\* if an -rs option was given, so the kernel runs with that seed.
SeedKept == stage = "actions" /\ LastOf({"-rs"}) # 0 => seed = OptionNumber("-rs")
=============================================================================
