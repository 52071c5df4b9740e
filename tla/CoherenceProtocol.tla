------------------------- MODULE CoherenceProtocol -------------------------
(***************************************************************************)
(* The MSI, MESI and MOESI classes behind CoherenceProtocolBase, one       *)
(* object per cache, for one line.  The classes are transition functions;  *)
(* what connects them is external and modelled as an atomic snooping bus   *)
(* that follows the comments in the classes: a miss and an upgrade are     *)
(* seen by all other caches, a cache whose state requiresWriteback         *)
(* supplies the data, and it writes it back when its new state no longer   *)
(* does.  The transition counters only feed printStats.                    *)
(***************************************************************************)
EXTENDS Integers

CONSTANTS Caches

VARIABLES protocol,      \* the type given to CoherenceProtocolBase::create
          state,         \* state[c]: the state of the line in cache c
          upToDate,      \* caches whose copy is what was written last
          memoryCurrent  \* so is the copy in memory

snoopVars == <<protocol, state, upToDate, memoryCurrent>>

Protocols == {"MSI", "MESI", "MOESI"}

\* The states each class has.
StatesOf(p) == {"Modified", "Shared", "Invalid"}
               \cup (IF p = "MSI" THEN {} ELSE {"Exclusive"})
               \cup (IF p = "MOESI" THEN {"Owned"} ELSE {})

-----------------------------------------------------------------------------
(* The classes: the state after an operation in state s *)

isValid(s) == s # "Invalid"

\* MSIProtocol
MSILocalRead(s) == IF s = "Invalid" THEN "Shared" ELSE s

MSILocalWrite(s) == "Modified"

\* Faulty variant: the copy is given up instead of shared.
MSIGivesUp(s) == IF s = "Modified" THEN "Invalid" ELSE s

MSIRemoteRead(s) == IF s = "Modified" THEN "Shared" ELSE s

MSIRemoteWrite(s) == "Invalid"

\* MESIProtocol, behind MESIProtocolAdapter
MESILocalRead(s, sharedCopy) ==
  IF isValid(s) THEN s ELSE IF sharedCopy THEN "Shared" ELSE "Exclusive"

MESILocalWrite(s) == "Modified"

MESIRemoteRead(s) == IF s \in {"Modified", "Exclusive"} THEN "Shared" ELSE s

MESIRemoteWrite(s) == "Invalid"

\* The other two have no handleEviction; the line just leaves the cache.
handleEviction(s) == "Invalid"

\* MOESIProtocol
MOESILocalRead(s, sharedCopy) ==
  IF isValid(s) THEN s ELSE IF sharedCopy THEN "Shared" ELSE "Exclusive"

MOESILocalWrite(s) == "Modified"

MOESIRemoteRead(s) ==
  CASE s = "Modified" -> "Owned" [] s = "Exclusive" -> "Shared" [] OTHER -> s

MOESIRemoteWrite(s) == "Invalid"

\* CoherenceProtocolBase: the virtual functions.
handleLocalRead(p, s, sharedCopy) ==
  CASE p = "MSI" -> MSILocalRead(s)
    [] p = "MESI" -> MESILocalRead(s, sharedCopy)
    [] OTHER -> MOESILocalRead(s, sharedCopy)

handleLocalWrite(p, s) ==
  CASE p = "MSI" -> MSILocalWrite(s)
    [] p = "MESI" -> MESILocalWrite(s)
    [] OTHER -> MOESILocalWrite(s)

handleRemoteRead(p, s) ==
  CASE p = "MSI" -> MSIRemoteRead(s)
    [] p = "MESI" -> MESIRemoteRead(s)
    [] OTHER -> MOESIRemoteRead(s)

handleRemoteWrite(p, s) ==
  CASE p = "MSI" -> MSIRemoteWrite(s)
    [] p = "MESI" -> MESIRemoteWrite(s)
    [] OTHER -> MOESIRemoteWrite(s)

\* Faulty variant: in MOESI only the owner writes back.
OnlyOwnedIsDirty(p, s) == s = IF p = "MOESI" THEN "Owned" ELSE "Modified"

requiresWriteback(p, s) == s = "Modified" \/ (p = "MOESI" /\ s = "Owned")

-----------------------------------------------------------------------------
(* The caches on the bus *)

SnoopInit ==
  /\ protocol \in Protocols
  /\ state = [c \in Caches |-> "Invalid"]
  /\ upToDate = {}
  /\ memoryCurrent = TRUE

Dirty == {c \in Caches : requiresWriteback(protocol, state[c])}

\* Does a fetch get what was written last?
FetchIsCurrent == IF Dirty = {} THEN memoryCurrent ELSE Dirty \subseteq upToDate

\* Memory after the caches of writers have written their copies back.
MemoryAfter(writers) == IF writers = {} THEN memoryCurrent ELSE writers \subseteq upToDate

SharedCopy(c) == \E d \in Caches \ {c} : isValid(state[d])

ReadHit(c) ==
  /\ isValid(state[c])
  /\ state' = [state EXCEPT ![c] = handleLocalRead(protocol, @, SharedCopy(c))]
  /\ UNCHANGED <<protocol, upToDate, memoryCurrent>>

ReadMiss(c) ==
  /\ ~isValid(state[c])
  /\ state' = [d \in Caches |-> IF d = c THEN handleLocalRead(protocol, state[c], SharedCopy(c))
                                ELSE handleRemoteRead(protocol, state[d])]
  /\ upToDate' = IF FetchIsCurrent THEN upToDate \cup {c} ELSE upToDate
  /\ memoryCurrent' = MemoryAfter({d \in Dirty : ~requiresWriteback(protocol, state'[d])})
  /\ UNCHANGED protocol

\* A write to a line that is Modified or Exclusive stays inside the cache.
WriteSilently(c) ==
  /\ state[c] \in {"Modified", "Exclusive"}
  /\ state' = [state EXCEPT ![c] = handleLocalWrite(protocol, @)]
  /\ upToDate' = upToDate \cap {c}
  /\ memoryCurrent' = FALSE
  /\ UNCHANGED protocol

\* Any other write is seen by everyone; a miss fetches the line first.
WriteOnBus(c) ==
  /\ state[c] \notin {"Modified", "Exclusive"}
  /\ state' = [d \in Caches |-> IF d = c THEN handleLocalWrite(protocol, state[d])
                                ELSE handleRemoteWrite(protocol, state[d])]
  /\ upToDate' = IF isValid(state[c]) THEN upToDate \cap {c}
                ELSE IF FetchIsCurrent THEN {c} ELSE {}
  /\ memoryCurrent' = FALSE
  /\ UNCHANGED protocol

Evict(c) ==
  /\ isValid(state[c])
  /\ state' = [state EXCEPT ![c] = handleEviction(@)]
  /\ upToDate' = upToDate \ {c}
  /\ memoryCurrent' = MemoryAfter(Dirty \cap {c})
  /\ UNCHANGED protocol

SnoopNext ==
  \E c \in Caches : ReadHit(c) \/ ReadMiss(c) \/ WriteSilently(c) \/ WriteOnBus(c) \/ Evict(c)

SnoopSpec == SnoopInit /\ [][SnoopNext]_snoopVars

-----------------------------------------------------------------------------
(* Properties *)

SnoopTypeOK ==
  /\ protocol \in Protocols
  /\ state \in [Caches -> StatesOf(protocol)]
  /\ upToDate \subseteq Caches /\ memoryCurrent \in BOOLEAN

\* A cache that may read its copy reads what was written last, and when memory
\* is out of date one cache, and only one, owes the write-back.
LatestIsKept ==
  /\ \A c \in Caches : isValid(state[c]) => c \in upToDate
  /\ \A c, d \in Dirty : c = d
  /\ Dirty = {} => memoryCurrent

\* Each of the three protocols gives the permissions of CoherenceSpec; an Owned
\* copy is a Shared one to its reader.
PermissionOf(s) == IF s = "Owned" THEN "Shared" ELSE s
Permissions == [a \in {"line"} |-> [c \in Caches |-> PermissionOf(state[c])]]
SnoopAbstract == INSTANCE CoherenceSpec WITH Procs <- Caches, Addresses <- {"line"},
                                            line <- Permissions
SnoopImplementsCoherenceSpec == SnoopAbstract!Spec
=============================================================================
