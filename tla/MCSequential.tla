---------------------------- MODULE MCSequential ----------------------------
(***************************************************************************)
(* The components that one thread uses at a time and that share no state.  *)
(* An initial state chooses the one whose steps the behaviour takes; the   *)
(* others stay in one of their initial states.                             *)
(***************************************************************************)
EXTENDS CoherenceController, PolicySet, StridePredictor, VictimCache, WritePolicy, WriteCombiningBuffer, MemoryPool,
        AdaptivePrefetcher, MCConfig, Program, TraceParser, TraceTools, MemoryProfiler, TLC

VARIABLE unit   \* the component that runs

MCRegionRanges == {<<0, 1>>}

\* Lines of a trace file: empty, a comment, one line of each format, one that
\* only looks like JSON and one that is no access.
Line(first, words, tokens) == [first |-> first, words |-> words, tokens |-> tokens, json |-> <<>>]
ReadToken == Token("type", 0)
WriteToken == Token("type", 1)
OtherToken == Token("word", 0)
MCTraceLines ==
  {Line("", 0, <<>>), Line("#", 4, <<>>),
   Line("r", 2, <<ReadToken, Token("hex", 1)>>), Line("w", 5, <<WriteToken, Token("decimal", 2)>>),
   Line("P", 3, <<Token("core", 1), WriteToken, Token("hex", 3)>>),
   Line("{", 3, <<OtherToken, ReadToken, Token("hex", 1)>>), Line("w", 2, <<WriteToken, Token("malformed", 0)>>),
   [first |-> "{", words |-> 4, tokens |-> <<OtherToken, OtherToken, OtherToken, OtherToken>>, json |-> <<WriteToken, Token("hex", 1)>>]}

Units == {"directory", "policy", "stride", "victim", "write", "buffer", "pool", "prefetcher",
          "config", "program", "parser", "tools", "profiler"}

SequentialInit ==
  /\ unit \in Units
  /\ Init
  /\ (IF unit = "policy" THEN TRUE ELSE kind = "LRU") /\ PolicyInit
  /\ StrideInit /\ VictimInit
  /\ (IF unit = "write" THEN TRUE
      ELSE writePolicy = [update |-> "WriteBack", allocation |-> "WriteAllocate"] /\ nextLevel = TRUE)
  /\ WriteInit
  /\ BufferInit /\ MemoryInit
  /\ (IF unit = "prefetcher" THEN TRUE ELSE initialStrategy = "Stride") /\ PrefetcherInit
  /\ ConfigInit
  /\ (IF unit = "program" THEN TRUE ELSE argv = <<>>) /\ ProgramInit
  /\ (IF unit = "parser" THEN TRUE ELSE trace = <<>> /\ opened = FALSE) /\ TraceInit
  /\ ToolsInit /\ ProfileInit

Idle(u, v) == IF unit = u THEN TRUE ELSE UNCHANGED v

OthersIdle ==
  /\ Idle("directory", cvars)
  /\ Idle("policy", policySetVars) /\ Idle("stride", strideVars) /\ Idle("victim", victimVars)
  /\ Idle("write", writeVars) /\ Idle("buffer", bufferVars) /\ Idle("pool", memoryVars)
  /\ Idle("prefetcher", prefetcherVars) /\ Idle("config", configVars)
  /\ Idle("program", programVars) /\ Idle("parser", traceVars) /\ Idle("tools", toolVars)
  /\ Idle("profiler", profileVars)
  /\ UNCHANGED unit

SequentialNext ==
  \/ unit = "directory" /\ Next /\ OthersIdle
  \/ unit = "policy" /\ PolicyNext /\ OthersIdle
  \/ unit = "stride" /\ StrideNext /\ OthersIdle
  \/ unit = "victim" /\ VictimNext /\ OthersIdle
  \/ unit = "write" /\ WriteNext /\ OthersIdle
  \/ unit = "buffer" /\ BufferNext /\ OthersIdle
  \/ unit = "pool" /\ MemoryNext /\ OthersIdle
  \/ unit = "prefetcher" /\ PrefetcherNext /\ OthersIdle
  \/ unit = "config" /\ ConfigNext /\ OthersIdle
  \/ unit = "program" /\ ProgramNext /\ OthersIdle
  \/ unit = "parser" /\ TraceNext /\ OthersIdle
  \/ unit = "tools" /\ ToolsNext /\ OthersIdle
  \/ unit = "profiler" /\ ProfileNext /\ OthersIdle

sequentialVars == <<cvars, policySetVars, strideVars, victimVars, writeVars, bufferVars, memoryVars, prefetcherVars,
          configVars, programVars, traceVars, toolVars, profileVars, unit>>

\* The directory treats all processors alike, and all addresses alike; nothing
\* else uses them.
Symmetry == Permutations(Procs) \cup Permutations(Addresses)

SequentialSpec == SequentialInit /\ [][SequentialNext]_sequentialVars

=============================================================================
