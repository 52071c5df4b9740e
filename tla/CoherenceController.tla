------------------------ MODULE CoherenceController ------------------------
(***************************************************************************)
(* The directory of src/core/multiprocessor/coherence_controller.  Every   *)
(* operation on entries takes directoryMutex_ for its whole body, so each  *)
(* is one atomic step.  resetStats takes no lock: it sets the atomic       *)
(* counters to zero one by one, in one step here because no operation      *)
(* reads them.  The directory maps a raw address to an entry; known is the *)
(* key set of the std::unordered_map.                                      *)
(***************************************************************************)
EXTENDS Naturals, FiniteSets

CONSTANTS Procs,       \* processor ids
          Addresses,   \* addresses requests are made for
          NoOwner,     \* owner_ = -1, also as cast into the uint32_t sharers_
          MaxEvents    \* bound on the counters

ASSUME ControllerAssumption ==
  /\ NoOwner \notin Procs
  /\ IsFiniteSet(Procs)
  /\ MaxEvents \in Nat

VARIABLES directory,   \* [Addresses -> Entry]; the default entry if not known
          known,       \* addresses that have an entry
          stats,       \* the atomic counters
          response     \* what the last operation returned, and to whom

cvars == <<directory, known, stats, response>>

MESI == {"Invalid", "Shared", "Exclusive", "Modified"}
Sole == {"Exclusive", "Modified"}
RequestTypes == {"ReadRequest", "WriteRequest", "InvalidateRequest",
                 "WritebackRequest", "ShareRequest", "FlushRequest"}
Entry == [state : MESI, owner : Procs \cup {NoOwner},
          sharers : SUBSET (Procs \cup {NoOwner}), dirty : BOOLEAN]
Stats == [readRequests : Nat, writeRequests : Nat, invalidations : Nat,
          writebacks : Nat, stateTransitions : Nat, coherenceMessages : Nat]
Response == [to : Procs \cup {NoOwner}, granted : BOOLEAN,
             invalidated : SUBSET (Procs \cup {NoOwner})]

NewEntry == [state |-> "Invalid", owner |-> NoOwner, sharers |-> {}, dirty |-> FALSE]
ZeroStats == [readRequests |-> 0, writeRequests |-> 0, invalidations |-> 0,
              writebacks |-> 0, stateTransitions |-> 0, coherenceMessages |-> 0]
Silence(p) == [to |-> p, granted |-> FALSE, invalidated |-> {}]

Init == /\ directory = [a \in Addresses |-> NewEntry]
        /\ known = {}
        /\ stats = ZeroStats
        /\ response = Silence(NoOwner)

-----------------------------------------------------------------------------
(* Queries: they lock, read and leave the directory alone. *)

checkPermission(p, a, isWrite) ==
  LET e == directory[a]
  IN  \/ a \notin known
      \/ /\ isWrite
         /\ e.state = "Modified" /\ e.owner = p
      \/ /\ ~isWrite
         /\ \/ e.state = "Shared" /\ p \in e.sharers
            \/ e.state \in Sole /\ e.owner = p

getCacheLineState(p, a) ==
  LET e == directory[a]
  IN  IF e.state = "Shared" /\ p \in e.sharers THEN "Shared"
      ELSE IF e.state \in Sole /\ e.owner = p THEN e.state
      ELSE "Invalid"

\* Faulty variant: only the recorded owner is collected.
InvalidateOwnerOnly(e, p) == ({e.owner} \ {NoOwner}) \ {p}

invalidateSharers(e, p) == (e.sharers \cup ({e.owner} \ {NoOwner})) \ {p}

-----------------------------------------------------------------------------
(* processRequest, one operator per arm of its switch: the new entry, the  *)
(* processors named in invalidatedProcessors, and whether it is granted.   *)

\* Faulty variant: the reader takes the entry over, state and all.
DowngradeSteals(e, p) == [e EXCEPT !.owner = p]

\* Faulty variant: owner_ is cleared before it is entered in sharers_.
DowngradeLosesOwner(e, p) == [e EXCEPT !.state = "Shared", !.owner = NoOwner,
                                       !.sharers = @ \cup {NoOwner, p}]

\* Someone else owns the line: owner and reader become its sharers.
Downgrade(e, p) == [e EXCEPT !.state = "Shared", !.sharers = @ \cup {e.owner, p},
                             !.owner = NoOwner]

ReadRequest(e, p) ==
  [granted |-> TRUE, invalidated |-> {},
   entry |-> CASE e.state = "Invalid" -> [e EXCEPT !.state = "Exclusive", !.owner = p]
               [] e.state \in Sole /\ e.owner = p -> e
               [] e.state \in Sole /\ e.owner # p -> Downgrade(e, p)
               [] e.state = "Shared" -> [e EXCEPT !.sharers = @ \cup {p}]]

\* Faulty variant: the sharers of the line are not cleared.
TakeOverKeepsSharers(e, p) == [e EXCEPT !.state = "Modified", !.owner = p, !.dirty = TRUE]

TakeOver(e, p) == [e EXCEPT !.state = "Modified", !.owner = p, !.dirty = TRUE,
                            !.sharers = IF e.state = "Shared" THEN {} ELSE @]

WriteRequest(e, p) ==
  [granted |-> TRUE,
   invalidated |-> CASE e.state = "Invalid" -> {}
                     [] e.state \in Sole -> {e.owner} \ {p}
                     [] e.state = "Shared" -> invalidateSharers(e, p),
   entry |-> TakeOver(e, p)]

InvalidateRequest(e, p) ==
  [granted |-> TRUE, invalidated |-> invalidateSharers(e, p),
   entry |-> [e EXCEPT !.state = "Invalid", !.owner = NoOwner, !.sharers = {}]]

\* Only the owner's write-back cleans the line.
Clean(e, p) == [e EXCEPT !.dirty = @ /\ e.owner # p]

WritebackRequest(e, p) ==
  [granted |-> e.owner = p, invalidated |-> {}, entry |-> Clean(e, p)]

Handle(e, p, type) ==
  CASE type = "ReadRequest" -> ReadRequest(e, p)
    [] type = "WriteRequest" -> WriteRequest(e, p)
    [] type = "InvalidateRequest" -> InvalidateRequest(e, p)
    [] type = "WritebackRequest" -> WritebackRequest(e, p)
    [] OTHER -> [granted |-> FALSE, invalidated |-> {}, entry |-> e]

\* The switch bumps the counter of its arm; invalidations_ grows by one per
\* InvalidateRequest and by one per processor a write request invalidates.
One(b) == IF b THEN 1 ELSE 0

Count(s, type, invalidated) ==
  [readRequests |-> s.readRequests + One(type = "ReadRequest"),
   writeRequests |-> s.writeRequests + One(type = "WriteRequest"),
   invalidations |-> s.invalidations + (IF type = "WriteRequest" THEN Cardinality(invalidated)
                                        ELSE One(type = "InvalidateRequest")),
   writebacks |-> s.writebacks + One(type = "WritebackRequest"),
   stateTransitions |-> s.stateTransitions,
   coherenceMessages |-> s.coherenceMessages + 1]

\* Faulty variant: the entry is looked up but not created.
LookUpOnly(a) == known' = known

getOrCreateEntry(a) == known' = known \cup {a}

processRequest(p, a, type) ==
  LET r == Handle(directory[a], p, type)
  IN  /\ stats.coherenceMessages < MaxEvents
      /\ directory' = [directory EXCEPT ![a] = r.entry]
      /\ getOrCreateEntry(a)
      /\ stats' = Count(stats, type, r.invalidated)
      /\ response' = [to |-> p, granted |-> r.granted, invalidated |-> r.invalidated]

-----------------------------------------------------------------------------
(* The other operations that change the directory. *)

Forget(e, p) == [e EXCEPT !.sharers = @ \ {p},
                          !.owner = IF @ = p THEN NoOwner ELSE @]

\* Only a change to Invalid touches the entry, and it leaves state_ alone.
updateCacheState(p, a, newState) ==
  /\ stats.stateTransitions < MaxEvents
  /\ stats' = [stats EXCEPT !.stateTransitions = @ + 1]
  /\ getOrCreateEntry(a)
  /\ directory' = [directory EXCEPT
                     ![a] = IF newState = "Invalid" THEN Forget(@, p) ELSE @]
  /\ response' = Silence(p)

handleWriteback(p, a) ==
  /\ stats.writebacks < MaxEvents
  /\ stats' = [stats EXCEPT !.writebacks = @ + 1]
  /\ getOrCreateEntry(a)
  /\ directory' = [directory EXCEPT ![a] = Clean(@, p)]
  /\ response' = Silence(p)

resetStats ==
  /\ stats' = ZeroStats
  /\ response' = Silence(NoOwner)
  /\ UNCHANGED <<directory, known>>

Next == \/ \E p \in Procs, a \in Addresses :
             \/ \E type \in RequestTypes : processRequest(p, a, type)
             \/ \E s \in MESI : updateCacheState(p, a, s)
             \/ handleWriteback(p, a)
        \/ resetStats

Spec == Init /\ [][Next]_cvars

-----------------------------------------------------------------------------
(* Properties *)

\* The directory holds well-formed entries and an address without an entry
\* is in the default state of DirectoryEntry().
TypeOK ==
  /\ directory \in [Addresses -> Entry]
  /\ known \subseteq Addresses
  /\ stats \in Stats
  /\ response \in Response

\* An owner goes with Exclusive or Modified, sharers go with Shared.
OneKindOfHolder(e) == /\ e.owner # NoOwner => e.state \in Sole
                      /\ e.sharers # {} => e.state = "Shared"

\* owner_ and sharers_ are never both meaningful: an owner is recorded only
\* while the state is Exclusive or Modified, sharers only while it is Shared,
\* and an address without an entry has neither.  processRequest decides on
\* state_ alone whom to invalidate, so a leftover would be missed.
OwnerSharersExclusive ==
  /\ \A a \in Addresses : OneKindOfHolder(directory[a])
  /\ \A a \in Addresses \ known : directory[a] = NewEntry

\* What getCacheLineState answers, for every processor and address.
View == [a \in Addresses |-> [p \in Procs |-> getCacheLineState(p, a)]]

\* A processor loses its permission for a line only by an operation of its own
\* or by one whose response names it in invalidatedProcessors: nobody is
\* dispossessed without being on the list the caller must act on.
LosersNamed ==
  [][\A a \in Addresses, p \in Procs :
       View[a][p] # "Invalid" /\ View'[a][p] = "Invalid"
         => p = response'.to \/ p \in response'.invalidated]_cvars

\* The directory implements the MESI permission specification.
Abstract == INSTANCE CoherenceSpec WITH line <- View
ImplementsCoherenceSpec == Abstract!Spec
=============================================================================
