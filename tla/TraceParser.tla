---------------------------- MODULE TraceParser ----------------------------
(***************************************************************************)
(* TraceParser: detects the format of a trace file, then hands out its     *)
(* accesses one at a time or all at once.  A line is the character it      *)
(* starts with, the number of words in it, the tokens left once its        *)
(* comment is cut off, and for a JSON object its two values.               *)
(***************************************************************************)
EXTENDS Integers, Sequences, SequencesExt, FiniteSets, FiniteSetsExt

CONSTANTS TraceLines,  \* lines a file may have
          MaxTrace,    \* lines of a file
          DetectLines, \* lines detectFormat looks at: 10 in the code
          MaxHanded    \* bound on the accesses handed out

ASSUME TraceAssumption == MaxTrace \in Nat /\ DetectLines \in Nat \ {0} /\ MaxHanded \in Nat

Formats == {"Simple", "Extended", "JSON"}

VARIABLES trace,    \* lines of the file
          opened,   \* fileValid
          position, \* lines read since the last reset; lineNumber
          format,   \* traceFormat
          counts,   \* readAccesses and writeAccesses
          handed    \* accesses handed out since the last reset

traceVars == <<trace, opened, position, format, counts, handed>>

-----------------------------------------------------------------------------
(* Lines *)

\* A token is an access type, a core, a hexadecimal or decimal number, 0x with
\* something behind it that is no hexadecimal number of 32 bits, or a word.
Token(kind, value) == [kind |-> kind, value |-> value]

NoAddress == -1
NoCore == -1

\* A malformed hexadecimal number is read again as a decimal one, of which
\* from_chars takes the leading 0.
parseAddress(t) == CASE t.kind \in {"hex", "decimal"} -> t.value
                     [] t.kind = "malformed" -> 0
                     [] OTHER -> NoAddress

Access(write, address, core) == [error |-> "none", write |-> write, address |-> address, core |-> core]
ParseError(e) == [error |-> e, write |-> FALSE, address |-> NoAddress, core |-> NoCore]

\* Two tokens are type and address, with a third in front it is the core; more
\* are ignored.
parseLine(line) ==
  LET n == Len(line.tokens)
      t(i) == line.tokens[IF n >= 3 THEN i + 1 ELSE i]
      core == IF n >= 3 /\ line.tokens[1].kind = "core" THEN line.tokens[1].value ELSE NoCore
  IN  IF n < 2 THEN ParseError("UnknownError")
      ELSE IF t(1).kind # "type" THEN ParseError("InvalidAccessType")
      ELSE IF parseAddress(t(2)) = NoAddress THEN ParseError("InvalidAddressFormat")
      ELSE Access(t(1).value = 1, parseAddress(t(2)), core)

\* The regular expression lets through a type and a hexadecimal number.
parseJSONLine(line) ==
  IF line.json = <<>> THEN ParseError("InvalidJSONFormat")
  ELSE Access(line.json[1].value = 1, parseAddress(line.json[2]), NoCore)

Parsed(line, f) == IF f = "JSON" THEN parseJSONLine(line) ELSE parseLine(line)

\* Empty lines and comments.
Skipped(line) == line.first \in {"", "#"}

\* The first line that decides, among the first DetectLines lines that count.
Decides(line) == line.first = "{" \/ line.words >= 3

detectFormat(lines) ==
  LET counted == {i \in DOMAIN lines : ~Skipped(lines[i])}
      deciding == {i \in counted : /\ Decides(lines[i])
                                  /\ Cardinality({j \in counted : j <= i}) <= DetectLines}
  IN  IF deciding = {} THEN "Simple"
      ELSE IF lines[Min(deciding)].first = "{" THEN "JSON" ELSE "Extended"

-----------------------------------------------------------------------------
(* Operations *)

\* The constructor: the format is detected, then the file is read from its start.
TraceInit ==
  /\ trace \in BoundedSeq(TraceLines, MaxTrace)
  /\ opened \in BOOLEAN
  /\ position = 0
  /\ format = IF opened THEN detectFormat(trace) ELSE "Simple"
  /\ counts = [reads |-> 0, writes |-> 0]
  /\ handed = <<>>

\* Lines after p that are not skipped, and those of them that are accesses.
LinesAfter(p) == {i \in (p + 1)..Len(trace) : ~Skipped(trace[i])}
AccessesAfter(p) == {i \in LinesAfter(p) : Parsed(trace[i], format).error = "none"}

\* Faulty variant: the first line that counts is taken, access or not, and one
\* that is no access ends the trace.
StopsAtError(p) == LinesAfter(p) \cap AccessesAfter(p) \cap {Min(LinesAfter(p) \cup {Len(trace)})}

\* The line getNextAccess returns: lines that cannot be parsed are reported and
\* passed over.
NextAccess(p) == IF AccessesAfter(p) = {} THEN {} ELSE {Min(AccessesAfter(p))}

Counted(c, seq) ==
  LET writes == Len(SelectSeq(seq, LAMBDA a : a.write))
  IN  [reads |-> c.reads + Len(seq) - writes, writes |-> c.writes + writes]

HandOut(from, seq, p) ==
  /\ handed' = from \o seq
  /\ counts' = Counted(counts, seq)
  /\ position' = p
  /\ counts'.reads + counts'.writes <= MaxHanded

getNextAccess ==
  /\ opened
  /\ IF NextAccess(position) = {} THEN HandOut(handed, <<>>, Len(trace))
     ELSE LET i == Min(NextAccess(position)) IN HandOut(handed, <<Parsed(trace[i], format)>>, i)
  /\ UNCHANGED <<trace, opened, format>>

\* Stops at the next line that is not skipped, whether it is an access or not;
\* the end of the file is an UnknownError too.
getNextAccessWithError ==
  /\ opened
  /\ IF LinesAfter(position) = {} THEN HandOut(handed, <<>>, Len(trace))
     ELSE LET i == Min(LinesAfter(position))
              result == Parsed(trace[i], format)
          IN  HandOut(handed, IF result.error = "none" THEN <<result>> ELSE <<>>, i)
  /\ UNCHANGED <<trace, opened, format>>

\* The counters are not reset.
reset ==
  /\ opened
  /\ position' = 0
  /\ handed' = <<>>
  /\ UNCHANGED <<trace, opened, format, counts>>

\* reset, then getNextAccess until there is none.
parseAll ==
  /\ opened
  /\ HandOut(<<>>, [k \in 1..Cardinality(AccessesAfter(0)) |->
                      Parsed(trace[CHOOSE i \in AccessesAfter(0) :
                               Cardinality({j \in AccessesAfter(0) : j <= i}) = k], format)],
             Len(trace))
  /\ UNCHANGED <<trace, opened, format>>

setFormat(f) ==
  /\ format' = f
  /\ UNCHANGED <<trace, opened, position, counts, handed>>

TraceNext == \/ getNextAccess \/ getNextAccessWithError \/ reset \/ parseAll
             \/ \E f \in Formats : setFormat(f)

TraceSpec == TraceInit /\ [][TraceNext]_traceVars

-----------------------------------------------------------------------------
(* Properties *)

\* The accesses of lines a to b, line by line.
AccessesOf(a, b) ==
  LET found[i \in (a - 1)..b] ==
        IF i = a - 1 THEN <<>>
        ELSE IF ~Skipped(trace[i]) /\ Parsed(trace[i], format).error = "none"
             THEN Append(found[i - 1], Parsed(trace[i], format)) ELSE found[i - 1]
  IN  found[b]

\* Between two calls no access of the file is passed over and none is handed
\* out twice, whichever of the three ways of reading are mixed and wherever
\* malformed lines, comments and empty lines are.
NoAccessSkipped ==
  [][\/ position' >= position /\ handed' = handed \o AccessesOf(position + 1, position')
     \/ handed' = AccessesOf(1, position')]_<<position, counts, handed>>
=============================================================================
