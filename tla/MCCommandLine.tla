--------------------------- MODULE MCCommandLine ---------------------------
(***************************************************************************)
(* Short command lines with a seed among their options.                    *)
(***************************************************************************)
EXTENDS CommandLine

SeedOptions == {<<"-rs", "7">>, <<"-q", None>>}
Actions == {<<"ls", None>>}
ShortLines == SeqOf(SeedOptions \cup Actions, 2)

Spec == CommandLineInit /\ [][CommandLineNext]_commandVars
=============================================================================
