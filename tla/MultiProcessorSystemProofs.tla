--------------------- MODULE MultiProcessorSystemProofs ---------------------
(***************************************************************************)
(* Proofs about the directory, for every set of processors and addresses,  *)
(* and about the cores and the directory together, for any number of       *)
(* cores, any addresses and any block size.  A core calls the directory    *)
(* only through its public operations, so what is proved of the directory  *)
(* holds in the system; the rest needs to know which calls a core makes.   *)
(***************************************************************************)
EXTENDS MultiProcessorSystem, FiniteSetTheorems, TLAPS

-----------------------------------------------------------------------------
(* The directory *)

\* A request's outcome is a well-formed entry and a set of processor ids,
\* whatever arm of processRequest's switch it takes.
LEMMA HandleType ==
  ASSUME NEW e \in Entry, NEW p \in Procs, NEW type \in RequestTypes
  PROVE  /\ Handle(e, p, type).entry \in Entry
         /\ Handle(e, p, type).granted \in BOOLEAN
         /\ Handle(e, p, type).invalidated \in SUBSET (Procs \cup {NoOwner})
<1>1. CASE type = "ReadRequest"
  BY <1>1 DEF Handle, ReadRequest, Downgrade, Entry, MESI, Sole
<1>2. CASE type = "WriteRequest"
  BY <1>2 DEF Handle, WriteRequest, TakeOver, invalidateSharers, Entry, MESI, Sole
<1>3. CASE type = "InvalidateRequest"
  BY <1>3 DEF Handle, InvalidateRequest, invalidateSharers, Entry, MESI
<1>4. CASE type = "WritebackRequest"
  BY <1>4 DEF Handle, WritebackRequest, Clean, Entry
<1>5. CASE type \in {"ShareRequest", "FlushRequest"}
  BY <1>5 DEF Handle
<1> QED
  BY <1>1, <1>2, <1>3, <1>4, <1>5 DEF RequestTypes

\* Forgetting a processor and cleaning a line keep an entry well formed.
LEMMA ForgetCleanType ==
  ASSUME NEW e \in Entry, NEW p \in Procs
  PROVE  Forget(e, p) \in Entry /\ Clean(e, p) \in Entry
BY DEF Forget, Clean, Entry

\* The counters stay natural numbers; a response lists finitely many processors.
LEMMA CountType ==
  ASSUME NEW s \in Stats, NEW type \in RequestTypes,
         NEW inv \in SUBSET (Procs \cup {NoOwner})
  PROVE  Count(s, type, inv) \in Stats
<1>1. IsFiniteSet(Procs \cup {NoOwner})
  BY FS_Singleton, FS_Union, ControllerAssumption
<1>2. Cardinality(inv) \in Nat
  BY <1>1, FS_Subset, FS_CardinalityType
<1> QED
  BY <1>2 DEF Count, One, Stats

\* Every directory entry, counter and response is well formed after any
\* sequence of operations on the controller.
THEOREM TypeCorrect == Spec => []TypeOK
<1>1. Init => TypeOK
  BY DEF Init, TypeOK, NewEntry, ZeroStats, Silence, Entry, Stats, Response, MESI
<1>2. ASSUME TypeOK, [Next]_cvars PROVE TypeOK'
  <2> USE <1>2 DEF TypeOK
  <2>1. ASSUME NEW p \in Procs, NEW a \in Addresses, NEW type \in RequestTypes,
               processRequest(p, a, type)
        PROVE  TypeOK'
    <3> DEFINE r == Handle(directory[a], p, type)
    <3>1. /\ r.entry \in Entry
          /\ r.granted \in BOOLEAN
          /\ r.invalidated \in SUBSET (Procs \cup {NoOwner})
      BY HandleType
    <3>2. Count(stats, type, r.invalidated) \in Stats
      BY <3>1, CountType
    <3> HIDE DEF r
    <3>3. directory' = [directory EXCEPT ![a] = r.entry] /\ known' = known \cup {a}
          /\ stats' = Count(stats, type, r.invalidated)
          /\ response' = [to |-> p, granted |-> r.granted, invalidated |-> r.invalidated]
      BY <2>1 DEF processRequest, getOrCreateEntry, r
    <3> QED
      BY <3>1, <3>2, <3>3 DEF Response
  <2>2. ASSUME NEW p \in Procs, NEW a \in Addresses, NEW s \in MESI,
               updateCacheState(p, a, s)
        PROVE  TypeOK'
    <3>1. directory' \in [Addresses -> Entry]
      BY <2>2, ForgetCleanType DEF updateCacheState, getOrCreateEntry
    <3> QED
      BY <2>2, <3>1 DEF updateCacheState, getOrCreateEntry, Stats, Response, Silence
  <2>3. ASSUME NEW p \in Procs, NEW a \in Addresses, handleWriteback(p, a)
        PROVE  TypeOK'
    <3>1. directory' \in [Addresses -> Entry]
      BY <2>3, ForgetCleanType DEF handleWriteback, getOrCreateEntry
    <3> QED
      BY <2>3, <3>1 DEF handleWriteback, getOrCreateEntry, Stats, Response, Silence
  <2>4. CASE resetStats
    BY <2>4 DEF resetStats, ZeroStats, Stats, Silence, Response
  <2>5. CASE UNCHANGED cvars
    BY <2>5 DEF cvars
  <2> QED
    BY <2>1, <2>2, <2>3, <2>4, <2>5 DEF Next
<1> QED
  BY <1>1, <1>2, PTL DEF Spec

\* No request, forgetting or write-back gives an entry both an owner and
\* sharers, or either of them in a state that does not go with it.
LEMMA HolderPreserved ==
  ASSUME NEW e \in Entry, OneKindOfHolder(e), NEW p \in Procs
  PROVE  /\ \A type \in RequestTypes : OneKindOfHolder(Handle(e, p, type).entry)
         /\ OneKindOfHolder(Forget(e, p))
         /\ OneKindOfHolder(Clean(e, p))
<1> USE ControllerAssumption DEF OneKindOfHolder, Entry, MESI, Sole
<1>1. OneKindOfHolder(ReadRequest(e, p).entry)
  BY DEF ReadRequest, Downgrade
<1>2. OneKindOfHolder(WriteRequest(e, p).entry)
  BY DEF WriteRequest, TakeOver
<1>3. OneKindOfHolder(InvalidateRequest(e, p).entry)
  BY DEF InvalidateRequest
<1>4. OneKindOfHolder(WritebackRequest(e, p).entry) /\ OneKindOfHolder(Clean(e, p))
  BY DEF WritebackRequest, Clean
<1>5. OneKindOfHolder(Forget(e, p))
  BY DEF Forget
<1> QED
  BY <1>1, <1>2, <1>3, <1>4, <1>5 DEF Handle, RequestTypes

\* After any sequence of operations, by any number of processors, an entry
\* records an owner only while Exclusive or Modified and sharers only while
\* Shared, and addresses without an entry are in the default state.
THEOREM HoldersExclusive == Spec => []OwnerSharersExclusive
<1>1. Init => OwnerSharersExclusive
  BY DEF Init, OwnerSharersExclusive, OneKindOfHolder, NewEntry
<1>2. ASSUME TypeOK, OwnerSharersExclusive, [Next]_cvars
      PROVE  OwnerSharersExclusive'
  <2> USE <1>2 DEF OwnerSharersExclusive, TypeOK
  <2>1. ASSUME NEW p \in Procs, NEW a \in Addresses, NEW e \in Entry,
               directory' = [directory EXCEPT ![a] = e], OneKindOfHolder(e),
               known' = known \cup {a}
        PROVE  OwnerSharersExclusive'
    BY <2>1
  <2>2. ASSUME NEW p \in Procs, NEW a \in Addresses, NEW type \in RequestTypes,
               processRequest(p, a, type)
        PROVE  OwnerSharersExclusive'
    BY <2>1, <2>2, HandleType, HolderPreserved DEF processRequest, getOrCreateEntry
  <2>3. ASSUME NEW p \in Procs, NEW a \in Addresses, NEW s \in MESI,
               updateCacheState(p, a, s)
        PROVE  OwnerSharersExclusive'
    BY <2>1, <2>3, ForgetCleanType, HolderPreserved DEF updateCacheState, getOrCreateEntry
  <2>4. ASSUME NEW p \in Procs, NEW a \in Addresses, handleWriteback(p, a)
        PROVE  OwnerSharersExclusive'
    BY <2>1, <2>4, ForgetCleanType, HolderPreserved DEF handleWriteback, getOrCreateEntry
  <2>5. CASE resetStats \/ UNCHANGED cvars
    BY <2>5 DEF resetStats, cvars
  <2> QED
    BY <2>2, <2>3, <2>4, <2>5 DEF Next
<1> QED
  BY <1>1, <1>2, TypeCorrect, PTL DEF Spec

-----------------------------------------------------------------------------
\* What getCacheLineState makes of an entry.
LOCAL ViewOf(e, p) == IF e.state = "Shared" /\ p \in e.sharers THEN "Shared"
                      ELSE IF e.state \in Sole /\ e.owner = p THEN e.state
                      ELSE "Invalid"

\* View is computed entry by entry.
LEMMA ViewIsViewOf ==
  ASSUME TypeOK
  PROVE  /\ View = [a \in Addresses |-> [p \in Procs |-> ViewOf(directory[a], p)]]
         /\ View' = [a \in Addresses |-> [p \in Procs |-> ViewOf(directory'[a], p)]]
BY DEF View, getCacheLineState, ViewOf

\* A request takes the line only from its requestor and from the processors
\* its response names; forgetting p takes it from p only.
LEMMA LossesNamed ==
  ASSUME NEW e \in Entry, OneKindOfHolder(e), NEW p \in Procs, NEW q \in Procs, q # p
  PROVE  /\ \A type \in RequestTypes :
               /\ ViewOf(e, q) # "Invalid"
               /\ ViewOf(Handle(e, p, type).entry, q) = "Invalid"
               => q \in Handle(e, p, type).invalidated
         /\ ViewOf(Forget(e, p), q) = ViewOf(e, q)
         /\ ViewOf(Clean(e, p), q) = ViewOf(e, q)
<1> USE ControllerAssumption DEF OneKindOfHolder, Entry, MESI, Sole, ViewOf
<1>1. ViewOf(e, q) # "Invalid" => ViewOf(ReadRequest(e, p).entry, q) # "Invalid"
  BY DEF ReadRequest, Downgrade
<1>2. ViewOf(e, q) # "Invalid" => q \in WriteRequest(e, p).invalidated
  BY DEF WriteRequest, invalidateSharers
<1>3. ViewOf(e, q) # "Invalid" => q \in InvalidateRequest(e, p).invalidated
  BY DEF InvalidateRequest, invalidateSharers
<1>4. ViewOf(Clean(e, p), q) = ViewOf(e, q) /\ WritebackRequest(e, p).entry = Clean(e, p)
  BY DEF WritebackRequest, Clean
<1>5. ViewOf(Forget(e, p), q) = ViewOf(e, q)
  BY DEF Forget
<1> QED
  BY <1>1, <1>2, <1>3, <1>4, <1>5 DEF Handle, RequestTypes

\* No operation takes a processor's permission away behind its back: the loser
\* is the caller or is listed in the response's invalidatedProcessors.
THEOREM LosersAreNamed == Spec => LosersNamed
<1> DEFINE Named == \A a \in Addresses, p \in Procs :
                      View[a][p] # "Invalid" /\ View'[a][p] = "Invalid"
                        => p = response'.to \/ p \in response'.invalidated
<1>1. ASSUME TypeOK, TypeOK', OwnerSharersExclusive, [Next]_cvars
      PROVE  [Named]_cvars
  <2> SUFFICES ASSUME Next, NEW a \in Addresses, NEW q \in Procs,
                      ViewOf(directory[a], q) # "Invalid",
                      ViewOf(directory'[a], q) = "Invalid"
               PROVE  q = response'.to \/ q \in response'.invalidated
    BY <1>1, ViewIsViewOf
  <2> USE <1>1 DEF TypeOK, OwnerSharersExclusive
  <2>1. ASSUME NEW p \in Procs, NEW b \in Addresses, NEW type \in RequestTypes,
               processRequest(p, b, type)
        PROVE  q = response'.to \/ q \in response'.invalidated
    <3>1. CASE a = b /\ q # p
      BY <2>1, <3>1, LossesNamed DEF processRequest, getOrCreateEntry
    <3>2. CASE a # b
      BY <2>1, <3>2 DEF processRequest, getOrCreateEntry
    <3>3. CASE q = p
      BY <2>1, <3>3 DEF processRequest, getOrCreateEntry
    <3> QED
      BY <3>1, <3>2, <3>3
  <2>2. ASSUME NEW p \in Procs, NEW b \in Addresses, NEW s \in MESI,
               updateCacheState(p, b, s)
        PROVE  q = response'.to
    BY <2>2, LossesNamed DEF updateCacheState, getOrCreateEntry, Silence
  <2>3. ASSUME NEW p \in Procs, NEW b \in Addresses, handleWriteback(p, b)
        PROVE  q = response'.to
    BY <2>3, LossesNamed DEF handleWriteback, getOrCreateEntry, Silence
  <2>4. ~resetStats
    BY DEF resetStats
  <2> QED
    BY <2>1, <2>2, <2>3, <2>4 DEF Next
<1> QED
  BY <1>1, TypeCorrect, HoldersExclusive, PTL DEF Spec, LosersNamed

-----------------------------------------------------------------------------
\* Seen through getCacheLineState, each arm of processRequest is a step of the
\* permission specification on its line.
LEMMA ViewOfRequests ==
  ASSUME NEW e \in Entry, OneKindOfHolder(e), NEW p \in Procs, NEW q \in Procs
  PROVE  /\ ViewOf(WriteRequest(e, p).entry, q) = IF q = p THEN "Modified" ELSE "Invalid"
         /\ ViewOf(InvalidateRequest(e, p).entry, q) = "Invalid"
         /\ ViewOf(Clean(e, p), q) = ViewOf(e, q)
         /\ ViewOf(Forget(e, p), q) = IF q = p THEN "Invalid" ELSE ViewOf(e, q)
<1> USE ControllerAssumption DEF OneKindOfHolder, Entry, MESI, Sole, ViewOf
<1>1. ViewOf(WriteRequest(e, p).entry, q) = IF q = p THEN "Modified" ELSE "Invalid"
  BY DEF WriteRequest, TakeOver
<1>2. ViewOf(InvalidateRequest(e, p).entry, q) = "Invalid"
  BY DEF InvalidateRequest
<1>3. ViewOf(Clean(e, p), q) = ViewOf(e, q)
  BY DEF Clean
<1>4. ViewOf(Forget(e, p), q) = IF q = p THEN "Invalid" ELSE ViewOf(e, q)
  BY DEF Forget
<1> QED
  BY <1>1, <1>2, <1>3, <1>4

\* A read request gives the requestor g and downgrades a sole copy elsewhere;
\* g is sole only if nobody else holds the line.
LEMMA ViewOfRead ==
  ASSUME NEW e \in Entry, OneKindOfHolder(e), NEW p \in Procs
  PROVE  LET g == ViewOf(ReadRequest(e, p).entry, p)
         IN  /\ g \in MESI \ {"Invalid"}
             /\ g \in Sole => \A q \in Procs \ {p} : ViewOf(e, q) = "Invalid"
             /\ g = "Modified" => ViewOf(e, p) = "Modified"
             /\ \A q \in Procs \ {p} :
                  ViewOf(ReadRequest(e, p).entry, q)
                    = IF ViewOf(e, q) \in Sole THEN "Shared" ELSE ViewOf(e, q)
<1> USE ControllerAssumption DEF OneKindOfHolder, Entry, MESI, Sole, ViewOf
<1>1. CASE e.state = "Invalid"
  BY <1>1 DEF ReadRequest
<1>2. CASE e.state \in Sole /\ e.owner = p
  BY <1>2 DEF ReadRequest
<1>3. CASE e.state \in Sole /\ e.owner # p
  BY <1>3 DEF ReadRequest, Downgrade
<1>4. CASE e.state = "Shared"
  BY <1>4 DEF ReadRequest
<1> QED
  BY <1>1, <1>2, <1>3, <1>4

\* The directory implements the permission specification: what
\* getCacheLineState answers changes only by its steps, so in particular a sole
\* copy is the only copy.
THEOREM Refinement == Spec => ImplementsCoherenceSpec
<1>1. Init => Abstract!Init
  BY DEF Init, Abstract!Init, View, getCacheLineState, NewEntry, Sole
<1>2. ASSUME TypeOK, TypeOK', OwnerSharersExclusive, [Next]_cvars
      PROVE  [Abstract!Next]_View
  <2> USE <1>2 DEF TypeOK, OwnerSharersExclusive
  <2>0. /\ View = [a \in Addresses |-> [p \in Procs |-> ViewOf(directory[a], p)]]
        /\ View' = [a \in Addresses |-> [p \in Procs |-> ViewOf(directory'[a], p)]]
    BY ViewIsViewOf
  <2>1. ASSUME NEW a \in Addresses, NEW e,
               directory' = [directory EXCEPT ![a] = e]
        PROVE  View' = [View EXCEPT ![a] = [q \in Procs |-> ViewOf(e, q)]]
    BY <2>0, <2>1
  <2>2. ASSUME NEW p \in Procs, NEW a \in Addresses,
               processRequest(p, a, "ReadRequest")
        PROVE  Abstract!Read(p, a)
    <3> DEFINE e == directory[a]
               f == ReadRequest(e, p).entry
               g == ViewOf(f, p)
    <3>1. View' = [View EXCEPT ![a] = [q \in Procs |-> ViewOf(f, q)]]
      BY <2>1, <2>2 DEF processRequest, getOrCreateEntry, Handle
    <3>2. /\ g \in MESI \ {"Invalid"}
          /\ g \in Sole => \A q \in Procs \ {p} : ViewOf(e, q) = "Invalid"
          /\ g = "Modified" => ViewOf(e, p) = "Modified"
          /\ \A q \in Procs \ {p} :
                ViewOf(f, q) = IF ViewOf(e, q) \in Sole THEN "Shared" ELSE ViewOf(e, q)
      BY ViewOfRead
    <3>3. \A q \in Procs : View[a][q] = ViewOf(e, q)
      BY <2>0
    <3> HIDE DEF f, g
    <3>4. View' = [View EXCEPT ![a] =
                     [q \in Procs |-> IF q = p THEN g
                                      ELSE IF View[a][q] \in Sole THEN "Shared"
                                      ELSE View[a][q]]]
      BY <3>1, <3>2, <3>3 DEF g
    <3> QED
      BY <3>2, <3>3, <3>4
      DEF Abstract!Read, Abstract!SetLine, Abstract!Sole, Abstract!MESI, Sole, MESI
  <2>3. ASSUME NEW p \in Procs, NEW a \in Addresses,
               processRequest(p, a, "WriteRequest")
        PROVE  Abstract!Write(p, a)
    <3>1. View' = [View EXCEPT ![a] =
                     [q \in Procs |-> ViewOf(WriteRequest(directory[a], p).entry, q)]]
      BY <2>1, <2>3 DEF processRequest, getOrCreateEntry, Handle
    <3>2. \A q \in Procs : ViewOf(WriteRequest(directory[a], p).entry, q)
                             = IF q = p THEN "Modified" ELSE "Invalid"
      BY ViewOfRequests
    <3> QED
      BY <3>1, <3>2 DEF Abstract!Write, Abstract!SetLine
  <2>4. ASSUME NEW p \in Procs, NEW a \in Addresses,
               processRequest(p, a, "InvalidateRequest")
        PROVE  Abstract!Purge(a)
    <3>1. View' = [View EXCEPT ![a] =
                     [q \in Procs |-> ViewOf(InvalidateRequest(directory[a], p).entry, q)]]
      BY <2>1, <2>4 DEF processRequest, getOrCreateEntry, Handle
    <3>2. \A q \in Procs : ViewOf(InvalidateRequest(directory[a], p).entry, q)
                             = "Invalid"
      BY ViewOfRequests
    <3> QED
      BY <3>1, <3>2 DEF Abstract!Purge, Abstract!SetLine
  <2>5. ASSUME NEW a \in Addresses, NEW e, directory' = [directory EXCEPT ![a] = e],
               \A q \in Procs : ViewOf(e, q) = ViewOf(directory[a], q)
        PROVE  View' = View
    BY <2>0, <2>5
  <2>6. ASSUME NEW p \in Procs, NEW a \in Addresses,
               \/ processRequest(p, a, "WritebackRequest")
               \/ processRequest(p, a, "ShareRequest")
               \/ processRequest(p, a, "FlushRequest")
               \/ handleWriteback(p, a)
        PROVE  View' = View
    BY <2>5, <2>6, ViewOfRequests
    DEF processRequest, handleWriteback, getOrCreateEntry, Handle, WritebackRequest
  <2>7. ASSUME NEW p \in Procs, NEW a \in Addresses, NEW s \in MESI,
               updateCacheState(p, a, s)
        PROVE  Abstract!Drop(p, a) \/ View' = View
    <3>1. CASE s = "Invalid"
      <4>1. View' = [View EXCEPT ![a] = [q \in Procs |-> ViewOf(Forget(directory[a], p), q)]]
        BY <2>1, <2>7, <3>1 DEF updateCacheState, getOrCreateEntry
      <4>2. \A q \in Procs : ViewOf(Forget(directory[a], p), q)
                               = IF q = p THEN "Invalid" ELSE View[a][q]
        BY <2>0, ViewOfRequests
      <4>3. View[a] = [q \in Procs |-> View[a][q]]
        BY <2>0
      <4> QED
        BY <4>1, <4>2, <4>3 DEF Abstract!Drop, Abstract!SetLine
    <3>2. CASE s # "Invalid"
      BY <2>5, <2>7, <3>2 DEF updateCacheState, getOrCreateEntry
    <3> QED
      BY <3>1, <3>2
  <2>8. CASE resetStats \/ UNCHANGED cvars
    BY <2>0, <2>8 DEF resetStats, cvars
  <2> QED
    BY <2>2, <2>3, <2>4, <2>6, <2>7, <2>8 DEF Next, RequestTypes, Abstract!Next
<1> QED
  BY <1>1, <1>2, TypeCorrect, HoldersExclusive, PTL
  DEF Spec, ImplementsCoherenceSpec, Abstract!Spec

\* Whoever holds a line Exclusive or Modified in the directory is the only
\* processor that holds it there.
THEOREM DirectorySingleWriter == Spec => []Abstract!SingleWriter
<1>1. TypeOK /\ OwnerSharersExclusive => Abstract!SingleWriter
  BY DEF TypeOK, OwnerSharersExclusive, OneKindOfHolder, Abstract!SingleWriter,
         Abstract!Sole, View, getCacheLineState, Sole
<1> QED
  BY <1>1, TypeCorrect, HoldersExclusive, PTL

-----------------------------------------------------------------------------
(* The cores and the directory *)

DNext == MNext \/ \E p \in Procs : Delivery(p)

Access == [addr : Addresses \cup {CHOOSE a \in Addresses : TRUE}, isWrite : BOOLEAN,
           atomic : BOOLEAN, next : MESI]
AccessSteps == {"idle", "check", "request", "l1", "miss", "seal", "notify"}

\* What a core is doing is well formed, and an access under way is to one of
\* the addresses; where there are none, nothing ever gets under way.
CoresOK ==
  /\ l1Cache \in [Procs -> [Blocks -> MESI]]
  /\ pc \in [Procs -> AccessSteps]
  /\ op \in [Procs -> Access]
  /\ \A p \in Procs : ~At(p, "idle") => op[p].addr \in Addresses

\* Nothing is under way at first.
LEMMA CoresInitially == MInit => CoresOK
<1> SUFFICES ASSUME MInit PROVE CoresOK
  OBVIOUS
<1>1. [addr |-> CHOOSE a \in Addresses : TRUE, isWrite |-> FALSE,
       atomic |-> FALSE, next |-> "Invalid"] \in Access
  BY DEF Access, MESI
<1>2. op \in [Procs -> Access]
  BY <1>1 DEF MInit
<1> QED BY <1>2 DEF MInit, CoresOK, AccessSteps, MESI, At

\* Every step of a core, deliveries included, leaves the cores well formed.
LEMMA CoresStep == CoresOK /\ [DNext]_vars => CoresOK'
<1> SUFFICES ASSUME CoresOK, [DNext]_vars PROVE CoresOK'
  OBVIOUS
<1> USE DEF CoresOK, At, Goto, AccessSteps, MESI
<1>0. \A a \in Addresses : Block(a) \in Blocks
  BY DEF Blocks
<1>1. ASSUME NEW p \in Procs, NEW a \in Addresses, NEW isWrite \in BOOLEAN,
             StartAccess(p, a, isWrite) \/ AtomicRequest(p, a, isWrite)
      PROVE  CoresOK'
  <2>1. /\ l1Cache' = l1Cache
        /\ \E b \in BOOLEAN : op' = [op EXCEPT ![p] = [addr |-> a, isWrite |-> isWrite,
                                                       atomic |-> b, next |-> "Invalid"]]
        /\ pc' = [pc EXCEPT ![p] = "check"]
    BY <1>1 DEF StartAccess, AtomicRequest
  <2> QED BY <2>1 DEF Access
<1>2. ASSUME NEW p \in Procs, CheckPermission(p) \/ SendRequest(p)
      PROVE  CoresOK'
  <2>1. l1Cache' = l1Cache /\ op' = op /\ \E step \in {"l1", "request"} : pc' = [pc EXCEPT ![p] = step]
    BY <1>2 DEF CheckPermission, SendRequest
  <2>2. ~At(p, "idle")
    BY <1>2 DEF CheckPermission, SendRequest
  <2> QED BY <2>1, <2>2
<1>3. ASSUME NEW p \in Procs, L1Hit(p) \/ SealAtomic(p)
      PROVE  CoresOK'
  <2>1. op[p].addr \in Addresses
    BY <1>3 DEF L1Hit, SealAtomic
  <2>2. \E s \in MESI : l1Cache' = [l1Cache EXCEPT ![p][Block(op[p].addr)] = s]
    BY <1>0, <1>3, <2>1 DEF L1Hit, SealAtomic
  <2>3. op' = op /\ \E step \in {"seal", "idle"} : pc' = [pc EXCEPT ![p] = step]
    BY <1>3 DEF L1Hit, SealAtomic, AfterAccess
  <2> QED BY <1>0, <2>1, <2>2, <2>3
<1>4. ASSUME NEW p \in Procs, L1Miss(p)
      PROVE  CoresOK'
  <2>1. op' = op /\ pc' = [pc EXCEPT ![p] = "miss"] /\ ~At(p, "idle")
    BY <1>4 DEF L1Miss
  <2>2. \E f \in [Blocks -> MESI] : l1Cache' = [l1Cache EXCEPT ![p] = f]
    <3>1. PICK gone : l1Cache' = [l1Cache EXCEPT ![p] = [c \in Blocks |->
                               IF c = Block(op[p].addr) THEN Installed(op[p].isWrite)
                               ELSE IF c \in gone THEN "Invalid" ELSE l1Cache[p][c]]]
      BY <1>4 DEF L1Miss
    <3>2. [c \in Blocks |-> IF c = Block(op[p].addr) THEN Installed(op[p].isWrite)
                            ELSE IF c \in gone THEN "Invalid" ELSE l1Cache[p][c]]
            \in [Blocks -> MESI]
      BY DEF Installed
    <3> QED BY <3>1, <3>2
  <2> QED BY <2>1, <2>2
<1>5. ASSUME NEW p \in Procs, HandleL1Miss(p) \/ ReportChange(p)
      PROVE  CoresOK'
  <2>1. l1Cache' = l1Cache /\ op' = op /\ \E step \in {"seal", "idle"} : pc' = [pc EXCEPT ![p] = step]
    BY <1>5 DEF HandleL1Miss, ReportChange, AfterAccess
  <2>2. ~At(p, "idle")
    BY <1>5 DEF HandleL1Miss, ReportChange
  <2> QED BY <2>1, <2>2
<1>6. ASSUME NEW p \in Procs, NEW a \in Addresses,
             NEW type \in {"InvalidateRequest", "ShareRequest", "FlushRequest"},
             HandleCoherenceRequest(p, a, type)
      PROVE  CoresOK'
  <2>1. PICK s \in MESI : /\ l1Cache' = [l1Cache EXCEPT ![p][Block(a)] = s]
                          /\ op' = [op EXCEPT ![p] = [addr |-> a, isWrite |-> FALSE,
                                                      atomic |-> FALSE, next |-> s]]
    BY <1>6 DEF HandleCoherenceRequest
  <2>2. pc' = [pc EXCEPT ![p] = "notify"]
    BY <1>6 DEF HandleCoherenceRequest
  <2> QED BY <1>0, <2>1, <2>2 DEF Access
<1>7. CASE Done \/ UNCHANGED vars
  BY <1>7 DEF Done, vars, mvars
<1> QED BY <1>1, <1>2, <1>3, <1>4, <1>5, <1>6, <1>7
        DEF DNext, MNext, Start, Step, Delivery

-----------------------------------------------------------------------------
\* A step of a core is one operation of the directory or leaves it alone.
LEMMA StepOfDirectory == CoresOK /\ [DNext]_vars => [Next]_cvars
<1> SUFFICES ASSUME CoresOK, [DNext]_vars PROVE [Next]_cvars
  OBVIOUS
<1> USE DEF CoresOK, At
<1>1. ASSUME NEW p \in Procs, NEW a \in Addresses, NEW isWrite \in BOOLEAN,
             AtomicRequest(p, a, isWrite)
      PROVE  Next
  BY <1>1 DEF AtomicRequest, Next, RequestTypes
<1>2. ASSUME NEW p \in Procs, SendRequest(p)
      PROVE  Next
  BY <1>2 DEF SendRequest, Next, RequestTypes
<1>3. ASSUME NEW p \in Procs, HandleL1Miss(p) \/ SealAtomic(p) \/ ReportChange(p)
      PROVE  Next
  <2>1. op[p].addr \in Addresses /\ op[p].next \in MESI
    BY <1>3 DEF HandleL1Miss, SealAtomic, ReportChange, Access
  <2>2. \E s \in MESI : updateCacheState(p, op[p].addr, s)
    BY <1>3, <2>1 DEF HandleL1Miss, SealAtomic, ReportChange, MESI
  <2> QED BY <2>1, <2>2 DEF Next
<1>4. CASE UNCHANGED cvars
  BY <1>4
<1> QED BY <1>1, <1>2, <1>3, <1>4
        DEF DNext, MNext, Start, Step, Delivery, Done, vars,
            StartAccess, CheckPermission, L1Hit, L1Miss, HandleCoherenceRequest

\* The cores use the directory as its specification allows: every behaviour of
\* the system, with or without coherence requests delivered to the cores, is a
\* behaviour of CoherenceController.
THEOREM SystemDrivesDirectory == DeliverySpec => Spec
<1>1. MInit => Init
  BY DEF MInit
<1> QED BY <1>1, CoresInitially, CoresStep, StepOfDirectory, PTL DEF DeliverySpec, Spec, DNext

\* Without deliveries the system is a special case.
LEMMA NoDelivery == MSpec => DeliverySpec
<1>1. [MNext]_vars => [MNext \/ \E p \in Procs : Delivery(p)]_vars
  OBVIOUS
<1> QED BY <1>1, PTL DEF MSpec, DeliverySpec

\* Under any interleaving of the threads of simulateParallelTraces the directory
\* gives permissions the way CoherenceSpec allows: one writer, or readers.
THEOREM SystemIsCoherent == MSpec => ImplementsCoherenceSpec
BY NoDelivery, SystemDrivesDirectory, Refinement, PTL

-----------------------------------------------------------------------------
\* A granted read or write enters a processor, and only processors, as a holder.
LEMMA GrantsToProcessors ==
  ASSUME NEW e \in Entry, NEW p \in Procs, e.sharers \subseteq Procs,
         e.state \in Sole => e.owner \in Procs
  PROVE  \A r \in {ReadRequest(e, p).entry, WriteRequest(e, p).entry} :
           r.sharers \subseteq Procs /\ (r.state \in Sole => r.owner \in Procs)
<1> USE DEF Entry, MESI, Sole
<1>1. LET r == ReadRequest(e, p).entry
      IN  r.sharers \subseteq Procs /\ (r.state \in Sole => r.owner \in Procs)
  BY DEF ReadRequest, Downgrade
<1>2. LET r == WriteRequest(e, p).entry
      IN  r.sharers \subseteq Procs /\ (r.state \in Sole => r.owner \in Procs)
  BY DEF WriteRequest, TakeOver
<1> QED BY <1>1, <1>2

\* The calls that the cores make by themselves keep processors as the holders.
LEMMA HoldersStep ==
  TypeOK /\ CoresOK /\ EveryHolderIsAProcessor /\ [MNext]_vars => EveryHolderIsAProcessor'
<1> SUFFICES ASSUME TypeOK, CoresOK, EveryHolderIsAProcessor, [MNext]_vars
             PROVE  EveryHolderIsAProcessor'
  OBVIOUS
<1> USE DEF TypeOK, CoresOK, At
<1>1. ASSUME NEW p \in Procs, NEW a \in Addresses, NEW type \in {"ReadRequest", "WriteRequest"},
             processRequest(p, a, type)
      PROVE  EveryHolderIsAProcessor'
  <2> DEFINE r == Handle(directory[a], p, type).entry
  <2>1. directory[a] \in Entry
    OBVIOUS
  <2>2. r \in {ReadRequest(directory[a], p).entry, WriteRequest(directory[a], p).entry}
    BY DEF Handle
  <2>3. r.sharers \subseteq Procs /\ (r.state \in Sole => r.owner \in Procs)
    BY <2>1, <2>2, GrantsToProcessors DEF EveryHolderIsAProcessor
  <2>4. directory' = [directory EXCEPT ![a] = r]
    BY <1>1 DEF processRequest
  <2> HIDE DEF r
  <2> QED BY <2>3, <2>4 DEF EveryHolderIsAProcessor
<1>2. ASSUME NEW p \in Procs, NEW a \in Addresses, NEW s \in {"Modified", "Shared"},
             updateCacheState(p, a, s)
      PROVE  EveryHolderIsAProcessor'
  <2>1. directory' = directory
    BY <1>2 DEF updateCacheState
  <2> QED BY <2>1 DEF EveryHolderIsAProcessor
<1>3. CASE UNCHANGED cvars
  BY <1>3 DEF cvars, EveryHolderIsAProcessor
<1>4. ASSUME NEW p \in Procs, SendRequest(p)
      PROVE  EveryHolderIsAProcessor'
  BY <1>1, <1>4 DEF SendRequest
<1>5. ASSUME NEW p \in Procs, HandleL1Miss(p) \/ SealAtomic(p)
      PROVE  EveryHolderIsAProcessor'
  BY <1>2, <1>5 DEF HandleL1Miss, SealAtomic
<1>6. ASSUME NEW p \in Procs, NEW a \in Addresses, NEW isWrite \in BOOLEAN,
             AtomicRequest(p, a, isWrite)
      PROVE  EveryHolderIsAProcessor'
  BY <1>1, <1>6 DEF AtomicRequest
<1> QED BY <1>3, <1>4, <1>5, <1>6
        DEF MNext, Start, Step, Done, vars, StartAccess, CheckPermission, L1Hit, L1Miss

\* For any number of cores and addresses, as long as nothing delivers coherence
\* requests to the cores, the directory never records -1 as a sharer and never
\* has an Exclusive or Modified line without an owner.
THEOREM HoldersAreProcessors == MSpec => []EveryHolderIsAProcessor
<1>1. MInit => EveryHolderIsAProcessor
  BY DEF MInit, Init, NewEntry, EveryHolderIsAProcessor, Sole
<1>2. MSpec => []TypeOK
  BY NoDelivery, SystemDrivesDirectory, TypeCorrect, PTL
<1>3. MSpec => []CoresOK
  <2>1. [MNext]_vars => [DNext]_vars
    BY DEF DNext
  <2> QED BY <2>1, CoresInitially, CoresStep, PTL DEF MSpec
<1> QED BY <1>1, <1>2, <1>3, HoldersStep, PTL DEF MSpec

-----------------------------------------------------------------------------
\* A step after which p's L1 holds nothing new and the directory knows no less.
LEMMA NothingNew ==
  ASSUME CachedBlocksAreTracked, known \subseteq known',
         \A p \in Procs : Resident(p)' \subseteq Resident(p),
         \A p \in Procs : At(p, "miss") => \/ At(p, "miss")' /\ op'[p] = op[p]
                                           \/ op[p].addr \in known'
  PROVE  CachedBlocksAreTracked'
BY DEF CachedBlocksAreTracked, At

\* The directory erases no entry.
LEMMA EntriesStay ==
  ASSUME [Next]_cvars
  PROVE  known \subseteq known'
<1>1. ASSUME NEW p \in Procs, NEW a \in Addresses, NEW type \in RequestTypes,
             processRequest(p, a, type)
      PROVE  known \subseteq known'
  BY <1>1 DEF processRequest, getOrCreateEntry
<1>2. ASSUME NEW p \in Procs, NEW a \in Addresses, NEW s \in MESI, updateCacheState(p, a, s)
      PROVE  known \subseteq known'
  BY <1>2 DEF updateCacheState, getOrCreateEntry
<1>3. ASSUME NEW p \in Procs, NEW a \in Addresses, handleWriteback(p, a)
      PROVE  known \subseteq known'
  BY <1>3 DEF handleWriteback, getOrCreateEntry
<1>4. CASE resetStats \/ UNCHANGED cvars
  BY <1>4 DEF resetStats, cvars
<1> QED BY <1>1, <1>2, <1>3, <1>4 DEF Next

\* Every step keeps the blocks of the L1s known to the directory, deliveries
\* included.
LEMMA TrackedStep ==
  CoresOK /\ CachedBlocksAreTracked /\ [DNext]_vars => CachedBlocksAreTracked'
<1> SUFFICES ASSUME CoresOK, CachedBlocksAreTracked, [DNext]_vars
             PROVE  CachedBlocksAreTracked'
  OBVIOUS
<1> USE DEF CoresOK, At, Goto
<1>0. \A a \in Addresses : Block(a) \in Blocks
  BY DEF Blocks
<1>1. known \subseteq known'
  <2>1. [Next]_cvars
    BY StepOfDirectory
  <2> QED BY <2>1, EntriesStay
<1>2. ASSUME NEW p \in Procs, NEW a \in Addresses, NEW isWrite \in BOOLEAN,
             StartAccess(p, a, isWrite) \/ AtomicRequest(p, a, isWrite)
      PROVE  CachedBlocksAreTracked'
  <2>1. l1Cache' = l1Cache /\ pc[p] = "idle" /\ pc' = [pc EXCEPT ![p] = "check"]
        /\ \A q \in Procs \ {p} : op'[q] = op[q]
    BY <1>2 DEF StartAccess, AtomicRequest
  <2> QED BY <1>1, <2>1, NothingNew DEF Resident
<1>3. ASSUME NEW p \in Procs, CheckPermission(p) \/ SendRequest(p) \/ ReportChange(p)
      PROVE  CachedBlocksAreTracked'
  <2>1. l1Cache' = l1Cache /\ op' = op /\ pc[p] # "miss" /\ \E step : pc' = [pc EXCEPT ![p] = step]
    BY <1>3 DEF CheckPermission, SendRequest, ReportChange
  <2> QED BY <1>1, <2>1, NothingNew DEF Resident
<1>4. ASSUME NEW p \in Procs, L1Hit(p) \/ SealAtomic(p)
      PROVE  CachedBlocksAreTracked'
  <2>1. op' = op /\ pc[p] # "miss" /\ \E step : pc' = [pc EXCEPT ![p] = step]
    BY <1>4 DEF L1Hit, SealAtomic
  <2>2. op[p].addr \in Addresses
    BY <1>4 DEF L1Hit, SealAtomic
  <2>3. \A q \in Procs : Resident(q)' \subseteq Resident(q)
    <3>1. PICK s : /\ l1Cache' = [l1Cache EXCEPT ![p][Block(op[p].addr)] = s]
                   /\ l1Cache[p][Block(op[p].addr)] = "Invalid" => s = "Invalid"
      BY <1>0, <1>4, <2>2 DEF L1Hit, SealAtomic, Resident
    <3> QED BY <1>0, <2>2, <3>1 DEF Resident
  <2> QED BY <1>1, <2>1, <2>3, NothingNew
<1>5. ASSUME NEW p \in Procs, L1Miss(p)
      PROVE  CachedBlocksAreTracked'
  <2> DEFINE b == Block(op[p].addr)
  <2>1. /\ pc[p] = "l1" /\ pc' = [pc EXCEPT ![p] = "miss"] /\ op' = op
    BY <1>5 DEF L1Miss
  <2>2. PICK gone : l1Cache' = [l1Cache EXCEPT ![p] = [c \in Blocks |->
                             IF c = b THEN Installed(op[p].isWrite)
                             ELSE IF c \in gone THEN "Invalid" ELSE l1Cache[p][c]]]
    BY <1>5 DEF L1Miss
  <2>3. Resident(p)' \subseteq Resident(p) \cup {b}
    BY <2>2 DEF Resident
  <2>4. \A q \in Procs \ {p} : Resident(q)' = Resident(q)
    BY <2>2 DEF Resident
  <2>5. ASSUME NEW q \in Procs, NEW c \in Resident(q)'
        PROVE  (At(q, "miss")' /\ Block(op'[q].addr) = c) \/ \E a \in known' : Block(a) = c
    <3>1. CASE q = p /\ c = b
      BY <2>1, <3>1
    <3>2. CASE q # p \/ c # b
      <4>1. c \in Resident(q)
        BY <2>3, <2>4, <2>5, <3>2
      <4>2. (At(q, "miss") /\ Block(op[q].addr) = c) \/ \E a \in known : Block(a) = c
        BY <4>1 DEF CachedBlocksAreTracked
      <4> QED BY <1>1, <2>1, <4>2
    <3> QED BY <3>1, <3>2
  <2> QED BY <2>5 DEF CachedBlocksAreTracked
<1>6. ASSUME NEW p \in Procs, HandleL1Miss(p)
      PROVE  CachedBlocksAreTracked'
  <2>1. l1Cache' = l1Cache /\ op' = op /\ op[p].addr \in known'
        /\ \E step : pc' = [pc EXCEPT ![p] = step]
    BY <1>6 DEF HandleL1Miss, updateCacheState, getOrCreateEntry
  <2> QED BY <1>1, <2>1, NothingNew DEF Resident
<1>7. ASSUME NEW p \in Procs, NEW a \in Addresses,
             NEW type \in {"InvalidateRequest", "ShareRequest", "FlushRequest"},
             HandleCoherenceRequest(p, a, type)
      PROVE  CachedBlocksAreTracked'
  <2>1. /\ pc[p] = "idle" /\ pc' = [pc EXCEPT ![p] = "notify"]
        /\ \A q \in Procs \ {p} : op'[q] = op[q]
    BY <1>7 DEF HandleCoherenceRequest
  <2>2. \A q \in Procs : Resident(q)' \subseteq Resident(q)
    BY <1>0, <1>7 DEF HandleCoherenceRequest, Resident, Sole
  <2> QED BY <1>1, <2>1, <2>2, NothingNew
<1>8. CASE Done \/ UNCHANGED vars
  <2>1. UNCHANGED <<l1Cache, pc, op>>
    BY <1>8 DEF Done, vars, mvars
  <2> QED BY <1>1, <2>1, NothingNew DEF Resident
<1> QED BY <1>2, <1>3, <1>4, <1>5, <1>6, <1>7, <1>8 DEF DNext, MNext, Start, Step, Delivery

\* For any number of cores, block size and associativity, every block left in an
\* L1 is known to the directory under one of its addresses once the access that
\* brought it is over, also if coherence requests are delivered to the cores.
THEOREM BlocksAreTracked == DeliverySpec => []CachedBlocksAreTracked
<1>1. MInit => CachedBlocksAreTracked
  BY DEF MInit, CachedBlocksAreTracked, Resident
<1> QED BY <1>1, CoresInitially, CoresStep, TrackedStep, PTL DEF DeliverySpec, DNext
=============================================================================
