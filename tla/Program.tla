------------------------------ MODULE Program ------------------------------
(***************************************************************************)
(* The command line of the simulator and main up to the simulation or the  *)
(* benchmark.  An argument is one of a few kinds; options that only set a  *)
(* flag of the output are one kind, "--flag".                              *)
(***************************************************************************)
EXTENDS Integers, Sequences, SequencesExt

CONSTANTS Arguments,  \* kinds of arguments, among those below
          MaxArgs,    \* length of the command line
          LegacyArgs  \* arguments that mean the legacy form: 7 in the code

ASSUME ProgramAssumption ==
  /\ Arguments \subseteq {"-h", "-v", "-b", "--flag", "-p", "--tech-node", "-e", "-c",
                          "-unknown", "number", "trace.txt", "missing.txt"}
  /\ MaxArgs \in Nat /\ LegacyArgs \in Nat

VARIABLES argv, next, options, phase, chosen, exit

programVars == <<argv, next, options, phase, chosen, exit>>

NoOptions == [help |-> FALSE, version |-> FALSE, benchmark |-> FALSE, export |-> FALSE,
              configFile |-> "", traceFile |-> "", failed |-> FALSE]

ProgramInit ==
  /\ argv \in BoundedSeq(Arguments, MaxArgs)
  /\ next = 1
  /\ options = NoOptions
  /\ phase = "parse"
  /\ chosen = "none"
  /\ exit = -1

Exit(code) == phase' = "end" /\ exit' = code
Continue(to) == phase' = to /\ UNCHANGED exit

-----------------------------------------------------------------------------
(* CLIParser::parse *)

IsOption(a) == a \notin {"number", "trace.txt", "missing.txt"}

\* What may follow an option as its value: any argument after -c, one that is no
\* option after -e, a number after -p and --tech-node.
TakesValue(option, a) ==
  \/ option = "-c"
  \/ option = "-e" /\ ~IsOption(a)
  \/ option \in {"-p", "--tech-node"} /\ a = "number"

HasValue(i) == i < Len(argv) /\ TakesValue(argv[i], argv[i + 1])

\* An argument is read as an option or as the trace file.
ReadArgument(o, i) ==
  LET a == argv[i]
  IN  CASE a = "-h" -> [o EXCEPT !.help = TRUE]
        [] a = "-v" -> [o EXCEPT !.version = TRUE]
        [] a = "-b" -> [o EXCEPT !.benchmark = TRUE]
        [] a = "-e" -> [o EXCEPT !.export = TRUE]
        [] a = "-c" /\ HasValue(i) -> [o EXCEPT !.configFile = argv[i + 1]]
        [] a = "-unknown" \/ (a = "-c" /\ ~HasValue(i)) -> [o EXCEPT !.failed = TRUE]
        [] ~IsOption(a) -> [o EXCEPT !.traceFile = a]
        [] OTHER -> o

\* Faulty variant: the value of an option is also read as an argument.
TakenTwice(i) == i + 1

\* The argument after i and its value.
After(i) == IF HasValue(i) THEN i + 2 ELSE i + 1

\* One turn of the loop; an unknown option, or -c at the end, is an error.
ParseArgument ==
  /\ phase = "parse" /\ next <= Len(argv)
  /\ options' = ReadArgument(options, next)
  /\ next' = After(next)
  /\ IF options'.failed THEN Exit(1) ELSE Continue("parse")
  /\ UNCHANGED <<argv, chosen>>

-----------------------------------------------------------------------------
(* main *)

\* The options are read; help and version end the program.
ParseCommandLine ==
  /\ phase = "parse" /\ next > Len(argv)
  /\ IF options.help \/ options.version THEN Exit(0) ELSE Continue("config")
  /\ UNCHANGED <<argv, next, options, chosen>>

\* A file may fail to load; the legacy form fails unless its arguments are
\* numbers, and may fail if they are.
LoadConfiguration ==
  /\ phase = "config"
  /\ LET legacy == options.configFile = "" /\ Len(argv) >= LegacyArgs
         numbers == \A i \in 1..LegacyArgs : argv[i] = "number"
     IN  \/ /\ options.configFile # ""
            /\ chosen' = "file" /\ Continue("trace")
         \/ /\ legacy /\ numbers
            /\ chosen' = "legacy" /\ Continue("trace")
         \/ /\ options.configFile = "" /\ ~legacy
            /\ chosen' = "default" /\ Continue("trace")
         \/ /\ options.configFile # "" \/ legacy
            /\ chosen' = "failed" /\ Exit(1)
  /\ UNCHANGED <<argv, next, options>>

CheckTrace ==
  /\ phase = "trace"
  /\ IF options.traceFile \in {"", "missing.txt", "number"} THEN Exit(1) ELSE Continue("run")
  /\ UNCHANGED <<argv, next, options, chosen>>

\* runBenchmark or runSimulation.
Run ==
  /\ phase = "run"
  /\ Exit(0)
  /\ UNCHANGED <<argv, next, options, chosen>>

ProgramNext == ParseArgument \/ ParseCommandLine \/ LoadConfiguration \/ CheckTrace \/ Run

ProgramSpec == ProgramInit /\ [][ProgramNext]_programVars

-----------------------------------------------------------------------------
(* Properties *)

\* The one way to tell the values of options on the line from other arguments:
\* argument j is a value if j - 1 is no value itself and takes j as its value.
Readings ==
  {values \in SUBSET (DOMAIN argv) :
     \A j \in DOMAIN argv :
       j \in values <=> j > 1 /\ j - 1 \notin values /\ TakesValue(argv[j - 1], argv[j])}

\* What runs is what was asked for: the trace is the last argument that is
\* neither an option nor the value of one, every option on the line was known,
\* and neither help nor version was asked for; the configuration comes from a
\* file if and only if -c is on the line.
RunsWhatWasAsked ==
  phase = "run" =>
    \E values \in Readings :
      LET own == DOMAIN argv \ values
      IN  /\ \E i \in own : /\ ~IsOption(argv[i]) /\ options.traceFile = argv[i]
                           /\ \A j \in own : j > i => IsOption(argv[j])
          /\ {"-h", "-v", "-unknown"} \cap {argv[i] : i \in own} = {}
          /\ (chosen = "file") <=> "-c" \in {argv[i] : i \in own}
=============================================================================
