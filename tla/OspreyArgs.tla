------------------------------ MODULE OspreyArgs ------------------------------
(***************************************************************************)
(* The command line of the osprey driver (tools/osprey.cpp): how main      *)
(* separates its own arguments from the target program's, and what         *)
(* parse_osprey_args accepts.                                              *)
(*                                                                         *)
(* An argument is a record [name, value].  Arguments that start with a     *)
(* dash carry the option's name; every other argument is a Word, the first *)
(* of which is taken for the target program.                               *)
(***************************************************************************)
EXTENDS Integers, Sequences

Option(name, value) == [name |-> name, value |-> value]
Flag(name) == Option(name, "")
Word(value) == Option("word", value)

Switches == {"help", "speculative-only", "programmed-only", "cleanup-only",
             "trace-to-stdout", "preserve-overlay-directories"}
Numeric == {"window-size", "batch-size",
            "mem-limit-low", "mem-limit-high", "mem-limit-max"}
Valued == Numeric \cup {"tracing-algorithm", "trace-filebase",
                        "programming-algorithm", "programming-backfile"}

-------------------------------------------------------------------------------
(* main's scan for the first argument without a leading dash.              *)

WordPositions(argv) == {i \in 1..Len(argv) : argv[i].name = "word"}

FirstWord(argv) ==
  CHOOSE i \in WordPositions(argv) : \A j \in WordPositions(argv) : i <= j

HasProgram(argv) == WordPositions(argv) # {}

OspreyPart(argv) ==
  IF HasProgram(argv) THEN SubSeq(argv, 1, FirstWord(argv) - 1) ELSE argv

-------------------------------------------------------------------------------
(* What Boost.Program_options throws on (po::error, caught in main): an     *)
(* unknown option, a repeated one, a value where none belongs, none where   *)
(* one does, a number that is not one, and anything positional, which for   *)
(* the driver's part is all that follows a bare "--".                       *)

ParseErrors(args) ==
  \E i \in 1..Len(args) :
    \/ args[i].name \notin Switches \cup Valued \cup {"--"}
    \/ args[i].name \in Switches /\ args[i].value # ""
    \/ args[i].name \in Valued /\ args[i].value = ""
    \/ args[i].name \in Numeric /\ args[i].value = "junk"
    \/ args[i].name = "--" /\ i # Len(args)
    \/ \E j \in 1..Len(args) : i # j /\ args[i].name = args[j].name

Given(args, name) == \E i \in 1..Len(args) : args[i].name = name

ValueOr(args, name, default) ==
  IF Given(args, name)
  THEN args[CHOOSE i \in 1..Len(args) : args[i].name = name].value
  ELSE default

-------------------------------------------------------------------------------
(* parse_osprey_args: the checks after the parse, and the configuration.    *)

(* std::toupper on the algorithm names the driver tells apart; every other  *)
(* spelling stays a name it does not know.                                  *)
Spellings == {<<"microset", "MICROSET">>, <<"fifo", "FIFO">>, <<"3po", "3PO">>,
              <<"watch_only", "WATCH_ONLY">>, <<"watch_debug", "WATCH_DEBUG">>}

Upper(name) ==
  IF \E s \in Spellings : s[1] = name
  THEN (CHOOSE s \in Spellings : s[1] = name)[2]
  ELSE name

Watching == {"WATCH_ONLY", "WATCH_DEBUG"}
Tracing(args) == Upper(ValueOr(args, "tracing-algorithm", "MICROSET"))
Programming(args) == Upper(ValueOr(args, "programming-algorithm", "3PO"))

SinglePass(args) == Given(args, "speculative-only") \/ Given(args, "programmed-only")

(* Slips for the mutation checks: a validation left out.                    *)
AcceptsAnyTracing(args) ==
  /\ ~ParseErrors(args)
  /\ ~Given(args, "help")
  /\ ~(Given(args, "speculative-only") /\ Given(args, "programmed-only"))
  /\ Given(args, "trace-filebase")
  /\ \/ Programming(args) \in Watching /\ SinglePass(args)
     \/ Programming(args) = "3PO"
AcceptsWatchingAlways(args) ==
  /\ ~ParseErrors(args)
  /\ ~Given(args, "help")
  /\ ~(Given(args, "speculative-only") /\ Given(args, "programmed-only"))
  /\ Given(args, "trace-filebase")
  /\ Tracing(args) \in {"MICROSET", "FIFO"}
  /\ Programming(args) \in Watching \cup {"3PO"}

ParseOspreyArgs(args) ==
  /\ ~ParseErrors(args)
  /\ ~Given(args, "help")
  /\ ~(Given(args, "speculative-only") /\ Given(args, "programmed-only"))
  /\ Given(args, "trace-filebase")
  /\ Tracing(args) \in {"MICROSET", "FIFO"}
  /\ \/ Programming(args) \in Watching /\ SinglePass(args)
     \/ Programming(args) = "3PO"

(* program_from_parent is in no option and in no initialiser: OspreyConfig  *)
(* is default-initialised on main's stack, so it is whatever was there.     *)
Config(args, programFromParent) ==
  [speculativeOnly      |-> Given(args, "speculative-only"),
   programmedOnly       |-> Given(args, "programmed-only"),
   cleanupOverlays      |-> Given(args, "cleanup-only"),
   noOverlay            |-> TRUE,
   tracingAlgorithm     |-> Tracing(args),
   programmingAlgorithm |-> Programming(args),
   programFromParent    |-> programFromParent]

-------------------------------------------------------------------------------
(* What a command line asks for, as main dispatches it.                     *)

Accepted(argv) ==
  /\ argv # <<>>
  /\ ParseOspreyArgs(OspreyPart(argv))
  /\ Given(OspreyPart(argv), "cleanup-only") \/ HasProgram(argv)

RequestedPasses(argv) ==
  LET args == OspreyPart(argv) IN
  {p \in {"spec", "prog"} :
     /\ Accepted(argv) /\ ~Given(args, "cleanup-only")
     /\ p = "spec" => ~Given(args, "programmed-only")
     /\ p = "prog" => ~Given(args, "speculative-only")}
===============================================================================
