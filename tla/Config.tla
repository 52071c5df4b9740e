------------------------------- MODULE Config -------------------------------
(***************************************************************************)
(* ConfigManager: configurations from the command line, from a string, by  *)
(* default, from a sweep, and saved to and loaded from JSON and INI files. *)
(* A file is the sequence of its lines, already trimmed; names,            *)
(* extraOptions and replacement policies other than two are left out.      *)
(***************************************************************************)
EXTENDS Integers, Sequences, SequencesExt, FiniteSets

CONSTANTS BlockSizes, FirstSizes, FirstWays, SecondSizes, SecondWays, Distances, \* numbers given
          SweepValues,       \* values of a sweep
          Leftovers,         \* what uninitialised memory may hold
          JsonLines,         \* lines a user may write
          MaxFileLines,      \* length of a file a user writes
          Nothing            \* std::nullopt

\* Sizes and associativity * blockSize are ints, and --benchmark doubles them;
\* beyond this the arithmetic of the code is undefined.
MaxInt == 2147483647

ASSUME ConfigAssumption ==
  /\ \A s \in {BlockSizes, FirstSizes, FirstWays, SecondSizes, SecondWays, Distances, SweepValues} : s \subseteq Int
  /\ Leftovers \subseteq Int /\ MaxFileLines \in Nat
  /\ JsonLines \subseteq [kind : {"blank", "open", "inline", "close", "set"}, key : STRING, value : Int]
  /\ \A w \in FirstWays \cup SecondWays, b \in BlockSizes : 2 * w * b <= MaxInt
  /\ \A s \in FirstSizes \cup SecondSizes : 2 * s <= MaxInt

VARIABLES config, \* the configuration at hand, or Nothing
          origin, \* where it came from
          base,   \* the configuration it was derived from by a sweep or saved as
          file    \* lines of the file

configVars == <<config, origin, base, file>>

-----------------------------------------------------------------------------
(* Validation *)

\* isValidSize: a positive power of two, which is to say that no odd number but 1
\* divides it.
isValidSize(n) == n > 0 /\ \A d \in 2..n : n % d = 0 => d % 2 = 0

\* CacheConfig's constructor throws unless this holds.
Consistent(c) ==
  /\ c.size > 0 /\ c.associativity > 0 /\ isValidSize(c.blockSize)
  /\ c.size % (c.associativity * c.blockSize) = 0
  /\ c.prefetchDistance >= 0

\* Faulty variant: the constructor does not compare size and geometry.
PositiveOnly(c) == c.size > 0 /\ c.associativity > 0 /\ isValidSize(c.blockSize)

\* The constructor: its default policies and its validation.
Constructed(c) == Consistent(c)

CacheConfig(size, ways, block, prefetch, distance) ==
  [size |-> size, associativity |-> ways, blockSize |-> block,
   prefetchEnabled |-> prefetch, prefetchDistance |-> distance, replacementPolicy |-> "LRU"]

CacheConfigs == [size : Int, associativity : Int, blockSize : Int, prefetchEnabled : BOOLEAN,
                 prefetchDistance : Int, replacementPolicy : {"LRU"}]

ASSUME NothingAssumption == Nothing \notin CacheConfigs

Hierarchy(l1, l2, prefetch) ==
  [l1 |-> l1, l2 |-> l2, l3 |-> Nothing,
   useStridePrediction |-> prefetch, useAdaptivePrefetching |-> prefetch]

\* What createFromCommandLine and parseConfigString build from their numbers;
\* a constructor that throws ends both with nullopt.
Built(block, size, ways, size2, ways2, prefetch, distance) ==
  LET l1 == CacheConfig(size, ways, block, prefetch, distance)
      l2 == IF size2 > 0 THEN CacheConfig(size2, ways2, block, prefetch, distance) ELSE Nothing
  IN  IF Constructed(l1) /\ (l2 = Nothing \/ Constructed(l2)) THEN Hierarchy(l1, l2, prefetch)
      ELSE Nothing

createFromCommandLine(block, size, ways, size2, ways2, prefetch, distance) ==
  IF /\ isValidSize(block) /\ isValidSize(size) /\ ways > 0
     /\ size2 >= 0 /\ (size2 > 0 => ways2 > 0)
     /\ (prefetch => distance > 0)
  THEN Built(block, size, ways, size2, ways2, prefetch, distance)
  ELSE Nothing

validateConfig(c) ==
  /\ isValidSize(c.l1.size) /\ c.l1.associativity > 0 /\ isValidSize(c.l1.blockSize)
  /\ c.l1.prefetchEnabled => c.l1.prefetchDistance > 0
  /\ c.l2 # Nothing => /\ isValidSize(c.l2.size) /\ c.l2.associativity > 0
                       /\ c.l2.blockSize = c.l1.blockSize

parseConfigString(block, size, ways, size2, ways2, prefetch, distance) ==
  LET c == Built(block, size, ways, size2, ways2, prefetch, distance)
  IN  IF c # Nothing /\ validateConfig(c) THEN c ELSE Nothing

\* In the code 32 KB, 4 ways and 256 KB, 8 ways, of blocks of 64 bytes.
getDefaultConfig ==
  Hierarchy(CacheConfig(32768, 4, 64, TRUE, 4), CacheConfig(262144, 8, 64, TRUE, 4), TRUE)

-----------------------------------------------------------------------------
(* Comparison and sweeps *)

\* The parameters compareConfigs lists as different.
compareConfigs(c, d) ==
  {<<"l1", f>> : f \in {g \in {"size", "associativity", "blockSize", "prefetchEnabled",
                               "prefetchDistance"} : c.l1[g] # d.l1[g]}}
  \cup (IF (c.l2 = Nothing) # (d.l2 = Nothing) THEN {<<"l2", "present">>}
        ELSE IF c.l2 = Nothing THEN {}
        ELSE {<<"l2", f>> : f \in {g \in {"size", "associativity"} : c.l2[g] # d.l2[g]}})
  \cup {<<"prefetching", f>> :
          f \in {g \in {"useStridePrediction", "useAdaptivePrefetching"} : c[g] # d[g]}}

\* A parameter of both levels.
InBoth(c, f, v) ==
  [c EXCEPT !.l1[f] = v, !.l2 = IF @ = Nothing THEN Nothing ELSE [@ EXCEPT ![f] = v]]

SetL2Size(c, v) ==
  [c EXCEPT !.l2 = IF v <= 0 THEN Nothing
                   ELSE IF @ # Nothing THEN [@ EXCEPT !.size = v]
                   ELSE CacheConfig(v, 8, c.l1.blockSize, c.l1.prefetchEnabled,
                                    c.l1.prefetchDistance)]

\* Making a new L2 goes through the constructor, which may throw.
SweepThrows(c, name, v) ==
  name = "l2_size" /\ v > 0 /\ c.l2 = Nothing /\ ~Constructed(SetL2Size(c, v).l2)

\* One configuration of generateParameterSweep.
Swept(c, name, v) ==
  CASE name = "l1_size" -> [c EXCEPT !.l1.size = v]
    [] name = "l1_assoc" -> [c EXCEPT !.l1.associativity = v]
    [] name = "l2_size" -> SetL2Size(c, v)
    [] name = "l2_assoc" -> IF c.l2 = Nothing THEN c ELSE [c EXCEPT !.l2.associativity = v]
    [] name = "block_size" -> InBoth(c, "blockSize", v)
    [] name = "prefetch" -> [InBoth(c, "prefetchEnabled", v > 0) EXCEPT
                               !.useStridePrediction = v > 0, !.useAdaptivePrefetching = v > 0]
    [] name = "prefetch_distance" -> InBoth(c, "prefetchDistance", v)

SweepNames == {"l1_size", "l1_assoc", "l2_size", "l2_assoc", "block_size", "prefetch",
               "prefetch_distance"}

-----------------------------------------------------------------------------
(* Files *)

\* A line is blank, opens a section, closes one, sets a key to a value, or is a
\* whole object with one setting, of the size.
Blank == [kind |-> "blank", key |-> "", value |-> 0]
Open(name) == [kind |-> "open", key |-> name, value |-> 0]
Inline(name, size) == [kind |-> "inline", key |-> name, value |-> size]
Close == [kind |-> "close", key |-> "", value |-> 0]
Set(key, value) == [kind |-> "set", key |-> key, value |-> value]

\* A Boolean is written as a word; as a number it is 1 or 0 here.
Word(b) == IF b THEN 1 ELSE 0

\* SimulatorConfig config;  the fields of its l1Config are indeterminate, while
\* CacheConfig{} is all zero.
ZeroCache == CacheConfig(0, 0, 0, FALSE, 0)
Uninitialised ==
  {Hierarchy(CacheConfig(n, n, n, enabled, distance), Nothing, FALSE) :
     n \in Leftovers, enabled \in BOOLEAN, distance \in Leftovers}

\* normalizeConfigKey.
normalizeConfigKey(key) ==
  CASE key = "block_size" -> "blockSize" [] key = "l1_size" -> "l1Size"
    [] key = "l1_assoc" -> "l1Assoc" [] key = "l2_size" -> "l2Size"
    [] key = "l2_assoc" -> "l2Assoc" [] key = "prefetch_enabled" -> "prefetchEnabled"
    [] key = "prefetch_distance" -> "prefetchDistance"
    [] OTHER -> key

\* A setting inside the section of a level; other keys are ignored.
AssignJson(cache, key, value) ==
  IF key \in {"size", "associativity", "blockSize"} THEN [cache EXCEPT ![key] = value] ELSE cache

LevelOf(section) ==
  CASE section \in {"perCoreL1", "l1", ""} -> "l1"
    [] section \in {"sharedL2", "l2"} -> "l2"
    [] section \in {"sharedL3", "l3"} -> "l3"
    [] OTHER -> "none"

\* Faulty variant: a closed section goes on.
StaysOpen(st) == st

\* "}" ends the section, whichever object it closes.
ClosedSection(st) == [st EXCEPT !.section = ""]

\* One line of parseJsonConfig.  An object on one line counts as the header of a
\* section: what it sets is skipped and its own brace does not close it.  Keys
\* outside of every section are taken for the first level; the branch for
\* top-level keys is never reached.
JsonLine(st, line) ==
  LET level == LevelOf(st.section)
      key == normalizeConfigKey(line.key)
      old == IF level = "none" \/ st.config[level] = Nothing THEN ZeroCache ELSE st.config[level]
  IN  CASE line.kind \in {"open", "inline"} -> [st EXCEPT !.section = line.key]
        [] line.kind = "close" -> ClosedSection(st)
        [] line.kind = "set" /\ level # "none" ->
             [st EXCEPT !.config[level] = AssignJson(old, key, line.value)]
        [] OTHER -> st

\* The defaults at the end of parseJsonConfig.
OrOne(n) == IF n = 0 THEN 1 ELSE n
JsonDefaults(c) ==
  LET d == [c EXCEPT !.l1.prefetchDistance = OrOne(@)]
  IN  IF d.l2 = Nothing THEN d
      ELSE [d EXCEPT !.l2.blockSize = IF @ = 0 THEN d.l1.blockSize ELSE @,
                     !.l2.prefetchDistance = OrOne(@)]

parseJsonConfig(lines, start) ==
  LET after[n \in 0..Len(lines)] == IF n = 0 THEN [section |-> "", config |-> start]
                                    ELSE JsonLine(after[n - 1], lines[n])
  IN  JsonDefaults(after[Len(lines)].config)

writeJsonConfig(c) ==
  <<Set("l1_size", c.l1.size), Set("l1_assoc", c.l1.associativity),
    Set("block_size", c.l1.blockSize), Set("prefetch_enabled", Word(c.l1.prefetchEnabled)),
    Set("prefetch_distance", c.l1.prefetchDistance),
    Set("l2_size", IF c.l2 = Nothing THEN 0 ELSE c.l2.size),
    Set("l2_assoc", IF c.l2 = Nothing THEN 0 ELSE c.l2.associativity),
    Set("use_stride_prediction", Word(c.useStridePrediction)),
    Set("use_adaptive_prefetching", Word(c.useAdaptivePrefetching)), Close>>

\* One line of parseIniConfig.
IniKeys == [size |-> "size", associativity |-> "associativity", block_size |-> "blockSize",
            prefetch_enabled |-> "prefetchEnabled", prefetch_distance |-> "prefetchDistance"]
AssignIni(cache, key, value) ==
  CASE key = "prefetch_enabled" -> [cache EXCEPT !.prefetchEnabled = value = 1]
    [] key \in DOMAIN IniKeys \ {"prefetch_enabled"} -> [cache EXCEPT ![IniKeys[key]] = value]
    [] OTHER -> cache

IniLine(st, line) ==
  LET l2 == IF st.config.l2 = Nothing THEN ZeroCache ELSE st.config.l2
  IN  CASE line.kind = "open" -> [st EXCEPT !.section = line.key]
        [] line.kind = "set" /\ st.section = "L1Cache" ->
             [st EXCEPT !.config.l1 = AssignIni(@, line.key, line.value)]
        [] line.kind = "set" /\ st.section = "L2Cache" ->
             [st EXCEPT !.config.l2 = IF line.key = "block_size" THEN l2
                                      ELSE AssignIni(l2, line.key, line.value)]
        [] line.kind = "set" /\ st.section = "Prefetching"
             /\ line.key \in {"use_stride_prediction", "use_adaptive_prefetching"} ->
             [st EXCEPT !.config[IF line.key = "use_stride_prediction" THEN "useStridePrediction"
                                 ELSE "useAdaptivePrefetching"] = line.value = 1]
        [] OTHER -> st

\* A blank line makes substr throw, and loadConfig answers nullopt.
parseIniConfig(lines, start) ==
  LET read == FoldLeft(IniLine, [section |-> "", config |-> start], lines).config
  IN  IF Blank \in ToSet(lines) THEN Nothing
      ELSE IF read.l2 = Nothing THEN read
      ELSE [read EXCEPT !.l2.blockSize = read.l1.blockSize]

CacheLines(c) == <<Set("size", c.size), Set("associativity", c.associativity)>>
PrefetchLines(c) == <<Set("prefetch_enabled", Word(c.prefetchEnabled)),
                      Set("prefetch_distance", c.prefetchDistance), Blank>>
writeIniConfig(c) ==
  LET l2 == IF c.l2 = Nothing THEN ZeroCache ELSE c.l2
  IN  <<Open("General"), Blank, Open("L1Cache")>> \o CacheLines(c.l1)
      \o <<Set("block_size", c.l1.blockSize)>> \o PrefetchLines(c.l1)
      \o <<Open("L2Cache")>> \o CacheLines(l2) \o PrefetchLines(l2)
      \o <<Open("Prefetching"), Set("use_stride_prediction", Word(c.useStridePrediction)),
           Set("use_adaptive_prefetching", Word(c.useAdaptivePrefetching)), Blank>>

saveConfig(c, format) == IF format = "JSON" THEN writeJsonConfig(c) ELSE writeIniConfig(c)
loadConfig(lines, format, start) ==
  IF format = "JSON" THEN parseJsonConfig(lines, start) ELSE parseIniConfig(lines, start)

-----------------------------------------------------------------------------
(* The program's use of it *)

ConfigInit == config = Nothing /\ origin = "none" /\ base = Nothing /\ file = <<>>

Take(c, from) == config' = c /\ origin' = from

Create ==
  /\ origin = "none" /\ file = <<>>
  /\ \E b \in BlockSizes, s \in FirstSizes, w \in FirstWays, s2 \in SecondSizes, w2 \in SecondWays,
        p \in BOOLEAN, d \in Distances :
       \/ Take(createFromCommandLine(b, s, w, s2, w2, p, d), "checked")
       \/ Take(parseConfigString(b, s, w, s2, w2, p, d), "checked")
  /\ UNCHANGED <<base, file>>

Default ==
  /\ origin = "none" /\ file = <<>>
  /\ Take(getDefaultConfig, "checked")
  /\ UNCHANGED <<base, file>>

Sweep ==
  /\ origin = "checked" /\ config # Nothing
  /\ \E name \in SweepNames, v \in SweepValues :
       /\ ~SweepThrows(config, name, v)
       /\ Take(Swept(config, name, v), "swept")
  /\ base' = config
  /\ UNCHANGED file

Save ==
  /\ origin = "checked" /\ config # Nothing
  /\ \E format \in {"JSON", "INI"} :
       file' = saveConfig(config, format) /\ origin' = format
  /\ base' = config
  /\ UNCHANGED config

\* A user writes a JSON file, an object closed only when one is open.
Depth(lines) == Cardinality({i \in DOMAIN lines : lines[i].kind = "open"})
                - Cardinality({i \in DOMAIN lines : lines[i].kind = "close"})
Write(line) ==
  /\ origin = "none" /\ Len(file) < MaxFileLines
  /\ line.kind = "close" => Depth(file) > 0
  /\ file' = Append(file, line)
  /\ UNCHANGED <<config, origin, base>>

Load ==
  /\ origin \in {"JSON", "INI"} \/ (origin = "none" /\ file # <<>>)
  /\ \E start \in Uninitialised :
       Take(loadConfig(file, IF origin = "INI" THEN "INI" ELSE "JSON", start),
            IF origin = "none" THEN "file" ELSE "reloaded")
  /\ UNCHANGED <<base, file>>

ConfigNext == Create \/ Default \/ Sweep \/ Save \/ Load \/ \E line \in JsonLines : Write(line)

ConfigSpec == ConfigInit /\ [][ConfigNext]_configVars

\* The four configurations main compares with --benchmark.
BenchmarkConfigs(c) ==
  {c, [c EXCEPT !.l1.size = 2 * @], [c EXCEPT !.l1.associativity = 2 * @],
   [InBoth(InBoth(c, "prefetchEnabled", TRUE), "prefetchDistance", 4) EXCEPT
      !.useStridePrediction = TRUE, !.useAdaptivePrefetching = TRUE]}

-----------------------------------------------------------------------------
(* Properties *)

\* Cache's constructor: at least one set, and no part of the cache left over.
Buildable(c) == /\ c.size >= c.associativity * c.blockSize
                /\ c.size % (c.associativity * c.blockSize) = 0

\* Whatever numbers the user gives, a configuration that is accepted can be
\* built, its levels have one block size, and if its first level has two sets
\* or more so can each of the four that --benchmark derives from it.
AcceptedConfigsBuild ==
  origin = "checked" /\ config # Nothing =>
    /\ Buildable(config.l1)
    /\ config.l2 # Nothing => Buildable(config.l2) /\ config.l2.blockSize = config.l1.blockSize
    /\ config.l1.size >= 2 * config.l1.associativity * config.l1.blockSize =>
         \A c \in BenchmarkConfigs(config) : Buildable(c.l1)

\* The section a line stands in by the nesting of the braces.
EnclosingSection(lines, i) ==
  LET open == {j \in 1..(i - 1) : lines[j].kind = "open" /\
                 \A k \in j..(i - 1) : Depth(SubSeq(lines, j, k)) > 0}
  IN  IF open = {} THEN "" ELSE lines[CHOOSE j \in open : \A k \in open : k <= j].key

\* The section that the last brace before a line has left: the one it opens,
\* none if it closes one.
LastBraceSection(lines, i) ==
  LET braces == {j \in 1..(i - 1) : lines[j].kind \in {"open", "inline", "close"}}
      last == CHOOSE j \in braces : \A k \in braces : k <= j
  IN  IF braces = {} \/ lines[last].kind = "close" THEN "" ELSE lines[last].key

\* Given the section of every line of the file that sets something: a level has
\* the value of the last setting made in its section, and the first level also
\* those made outside of all sections; no other section touches it.
SettingsKept(section) ==
  LET Field(i) == IF file[i].kind = "inline" THEN "size" ELSE normalizeConfigKey(file[i].key)
      For(level, f) == {i \in DOMAIN section : LevelOf(section[i]) = level /\ Field(i) = f}
  IN  /\ \A level \in {"l1", "l2", "l3"}, f \in {"size", "associativity", "blockSize"} :
           \A i \in For(level, f) :
             (\A j \in For(level, f) : j <= i) /\ file[i].value > 0 =>
               config[level] # Nothing /\ config[level][f] = file[i].value
      /\ \A level \in {"l2", "l3"} :
           config[level] # Nothing => \E i \in DOMAIN section : LevelOf(section[i]) = level

\* "Enhanced JSON parser to handle nested objects": what a JSON file sets goes to
\* the level in whose object it is nested.
JsonFollowsNesting ==
  origin = "file" =>
    SettingsKept([i \in {j \in DOMAIN file : file[j].kind \in {"set", "inline"}} |->
                    IF file[i].kind = "inline" THEN file[i].key ELSE EnclosingSection(file, i)])

\* What parseJsonConfig does make of a file: a line that sets something goes to
\* the level of the last brace before it, whatever the nesting.  Files without
\* objects on one line or settings behind a nested object are read as they are
\* meant, and none lets a section touch another level.
JsonFollowsLastBrace ==
  origin = "file" =>
    SettingsKept([i \in {j \in DOMAIN file : file[j].kind = "set"} |-> LastBraceSection(file, i)])

\* What was saved comes back when it is loaded.
SavedConfigComesBack ==
  origin = "reloaded" => config # Nothing /\ compareConfigs(base, config) = {}
=============================================================================
