----------------------------- MODULE TraceTools -----------------------------
(***************************************************************************)
(* The generators of traces and the analyzer that classifies them.  A      *)
(* trace is the sequence of its addresses: whether an access is a write is *)
(* drawn at random and changes nothing here.  Random draws are choices;    *)
(* addresses do not wrap.  The hot ranges, sorted counts, are left out.    *)
(***************************************************************************)
EXTENDS Integers, Sequences, SequencesExt, FiniteSets, FiniteSetsExt

CONSTANTS MinPattern,  \* accesses that make a pattern: 10 in the code
          MinLoop,     \* accesses that make a loop: 20 in the code
          MaxLoop,     \* longest loop looked for: 50 in the code
          Counts,      \* lengths of generated traces
          Strides,     \* strides asked for
          LoopSizes,   \* loop sizes asked for
          RegionSize, NumRegions,
          LoopAddresses, \* addresses of a program's loop
          MaxDrawn     \* largest address of a random trace

ASSUME ToolsAssumption ==
  /\ {MinPattern, MinLoop, MaxLoop, RegionSize, NumRegions, MaxDrawn} \subseteq Nat
  /\ RegionSize > 0 /\ NumRegions > 0 /\ MinPattern > 1 /\ LoopAddresses \subseteq Nat
  /\ Counts \subseteq Nat /\ Strides \subseteq Nat \ {0} /\ LoopSizes \subseteq Nat \ {0}

VARIABLES accesses, \* the trace file
          made,     \* how it was made
          report    \* what the analyzer says of it

toolVars == <<accesses, made, report>>

NoReport == [pattern |-> "none", stride |-> 0, loopSize |-> 0]

ToolsInit == accesses = <<>> /\ made = [kind |-> "none", size |-> 0] /\ report = NoReport

-----------------------------------------------------------------------------
(* trace_generator in trace_utils.cpp, and generateAddress of the tool *)

generateSequentialTrace(start, count, stride) == [i \in 1..count |-> start + (i - 1) * stride]

\* A region is spaced out by ten times its size; an offset is any of its bytes.
generateLocalityTrace(perRegion) ==
  {[i \in 1..(NumRegions * perRegion) |-> ((i - 1) \div perRegion) * RegionSize * 10 + offset[i]] :
     offset \in [1..(NumRegions * perRegion) -> 0..(RegionSize - 1)]}

generateRandomTrace(count) == [1..count -> 0..MaxDrawn]

\* The tool's looping pattern: the addresses of its first iteration are stored
\* and repeated.
generateLoopingTrace(start, count, stride, loopSize) ==
  [i \in 1..count |-> start + ((i - 1) % loopSize) * stride]

-----------------------------------------------------------------------------
(* TraceAnalyzer *)

Steps(s) == {i \in DOMAIN s : i > 1}

isSequentialPattern(s) ==
  /\ Len(s) >= MinPattern
  /\ 10 * Cardinality({i \in Steps(s) : s[i] - s[i - 1] \in {1, 4, 8}}) > 7 * (Len(s) - 1)

\* Faulty variant: a stride is an absolute distance.
AbsoluteStep(s, i) == IF s[i] < s[i - 1] THEN s[i - 1] - s[i] ELSE s[i] - s[i - 1]

Step(s, i) == s[i] - s[i - 1]

\* The stride of more than 60 % of the steps, if there is one.
StridesOf(s) ==
  {d \in {Step(s, i) : i \in Steps(s)} :
     10 * Cardinality({i \in Steps(s) : Step(s, i) = d}) > 6 * (Len(s) - 1)}
\* TraceAnalyzer::detectStride.
detectTraceStride(s) == IF Len(s) >= MinPattern THEN StridesOf(s) ELSE {}

\* Positions, from 0, at which a loop of n accesses is tested, and the matches.
Tested(s, n) == {i \in n..(Len(s) - 1) : i % n < Len(s) - i}
Matches(s, n) == {i \in Tested(s, n) : s[i + 1] = s[(i % n) + 1]}

\* isLoopingPattern takes the smallest of these.
loopSizesOf(s) ==
  IF Len(s) < MinLoop THEN {}
  ELSE {n \in 3..Min({Len(s) \div 3, MaxLoop}) :
          Tested(s, n) # {} /\ 10 * Cardinality(Matches(s, n)) > 8 * Cardinality(Tested(s, n))}

detectPattern(s) ==
  IF Len(s) < MinPattern THEN NoReport
  ELSE IF isSequentialPattern(s) THEN [pattern |-> "Sequential", stride |-> 1, loopSize |-> 0]
  ELSE IF detectTraceStride(s) # {} THEN [pattern |-> "Strided", stride |-> Min(detectTraceStride(s)), loopSize |-> 0]
  ELSE IF loopSizesOf(s) # {} THEN [pattern |-> "Looping", stride |-> 0,
                                    loopSize |-> Min(loopSizesOf(s))]
  ELSE [pattern |-> "Random", stride |-> 0, loopSize |-> 0]

-----------------------------------------------------------------------------
Make(kind, size, s) == /\ made' = [kind |-> kind, size |-> size]
                       /\ accesses' = s
                       /\ report' = NoReport

Generate ==
  /\ made.kind = "none"
  /\ \E n \in Counts :
       \/ \E d \in Strides : Make("sequential", d, generateSequentialTrace(1, n, d))
       \/ \E d \in Strides, size \in LoopSizes :
            Make("looping", size, generateLoopingTrace(1, n, d, size))
       \/ \E s \in generateRandomTrace(Min(Counts)) : Make("random", 0, s)
       \/ \E s \in generateLocalityTrace(Min(Counts) \div NumRegions) : Make("locality", 0, s)

\* A trace of a program that runs through one loop over and over.
ProgramLoop ==
  /\ made.kind = "none"
  /\ \E n \in Counts, size \in LoopSizes : \E loop \in [0..(size - 1) -> LoopAddresses] :
       Make("loop", size, [i \in 1..n |-> loop[(i - 1) % size]])

\* The accesses a filter on addresses lets through.
Filtered(s, limit) ==
  LET kept[i \in 0..Len(s)] == IF i = 0 THEN <<>>
                               ELSE IF s[i] <= limit THEN Append(kept[i - 1], s[i]) ELSE kept[i - 1]
  IN  kept[Len(s)]

\* generateFilteredTrace.
Filter ==
  /\ made.kind # "none"
  /\ \E limit \in ToSet(accesses) : Make("filtered", 0, Filtered(accesses, limit))

analyzeTrace ==
  /\ made.kind # "none"
  /\ report' = detectPattern(accesses)
  /\ UNCHANGED <<accesses, made>>

ToolsNext == Generate \/ ProgramLoop \/ Filter \/ analyzeTrace

ToolsSpec == ToolsInit /\ [][ToolsNext]_toolVars

-----------------------------------------------------------------------------
(* Properties *)

Analyzed == report # NoReport /\ Len(accesses) >= MinPattern

\* The analyzer recognises what made the trace, filtered or not.  One stride is
\* sequential or strided, with that stride.  A program that does nothing but
\* repeat a loop is never called random if the trace holds the loop three times,
\* and the loop reported is not longer.  A stride reported is one that was taken.
TraceIsRecognised ==
  /\ Analyzed /\ made.kind = "sequential" =>
       IF made.size \in {1, 4, 8} THEN report.pattern = "Sequential"
       ELSE report.pattern = "Strided" /\ report.stride = made.size
  /\ Analyzed /\ made.kind = "loop" /\ Len(accesses) >= MinLoop
     /\ made.size \in 3..Min({Len(accesses) \div 3, MaxLoop}) =>
       /\ report.pattern # "Random"
       /\ report.pattern = "Looping" => report.loopSize <= made.size
  /\ report.pattern = "Strided" =>
       \E i \in Steps(accesses) : accesses[i] = accesses[i - 1] + report.stride
=============================================================================
