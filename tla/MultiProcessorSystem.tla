------------------------ MODULE MultiProcessorSystem ------------------------
(***************************************************************************)
(* The cores of src/core/multiprocessor/processor_core running against one *)
(* CoherenceController.  simulateParallelTraces runs one thread per core;  *)
(* a thread only touches its own L1, and every call into the controller is *)
(* atomic, so an access is the sequence of steps pc goes through.          *)
(*                                                                         *)
(* An L1 is abstracted to the MESI state of the blocks it holds: one set   *)
(* of Ways blocks whose victim is any resident block (a superset of every  *)
(* replacement policy).  The directory is keyed by raw address, the L1 by  *)
(* block.                                                                  *)
(***************************************************************************)
EXTENDS CoherenceController

CONSTANTS BlockSize,   \* bytes per block
          Ways,        \* blocks an L1 holds
          MaxAccesses  \* bound on the accesses of a core

ASSUME SystemAssumption ==
  /\ Addresses \subseteq Nat
  /\ BlockSize \in Nat \ {0} /\ Ways \in Nat \ {0} /\ MaxAccesses \in Nat
  /\ MaxEvents >= 3 * MaxAccesses * Cardinality(Procs)

VARIABLES l1Cache, \* l1Cache[p][b]: MESI state of block b in p's L1, Invalid if absent
          pc,      \* where p's thread is in access() or atomicAccess()
          op,      \* the access p is making
          state,   \* ProcessorState of p
          totalAccesses

mvars == <<l1Cache, pc, op, state, totalAccesses>>
vars == <<cvars, mvars>>

Block(a) == a \div BlockSize
Blocks == {Block(a) : a \in Addresses}

Resident(p) == {b \in Blocks : l1Cache[p][b] # "Invalid"}

MInit == /\ Init
         /\ l1Cache = [p \in Procs |-> [b \in Blocks |-> "Invalid"]]
         /\ pc = [p \in Procs |-> "idle"]
         /\ op \in [Procs -> {[addr |-> CHOOSE a \in Addresses : TRUE, isWrite |-> FALSE,
                               atomic |-> FALSE, next |-> "Invalid"]}]
         /\ state = [p \in Procs |-> "Idle"]
         /\ totalAccesses = [p \in Procs |-> 0]

At(p, step) == pc[p] = step
Goto(p, step) == pc' = [pc EXCEPT ![p] = step]
Enter(p, s) == state' = [state EXCEPT ![p] = s]

-----------------------------------------------------------------------------
(* ProcessorCore::access *)

\* processAccess: the trace of p's thread has another access.
StartAccess(p, a, isWrite) ==
  /\ At(p, "idle")
  /\ totalAccesses[p] < MaxAccesses
  /\ op' = [op EXCEPT ![p] = [addr |-> a, isWrite |-> isWrite, atomic |-> FALSE,
                              next |-> "Invalid"]]
  /\ Goto(p, "check")
  /\ UNCHANGED <<cvars, l1Cache, state, totalAccesses>>

\* checkPermission; without it the core stalls and sends a request.
CheckPermission(p) ==
  /\ At(p, "check")
  /\ totalAccesses' = [totalAccesses EXCEPT ![p] = @ + 1]
  /\ \/ /\ checkPermission(p, op[p].addr, op[p].isWrite)
        /\ Goto(p, "l1")
        /\ UNCHANGED state
     \/ /\ ~checkPermission(p, op[p].addr, op[p].isWrite)
        /\ Goto(p, "request")
        /\ Enter(p, "Stalled")
  /\ UNCHANGED <<cvars, l1Cache, op>>

Resume(p) == Enter(p, "Running")

\* The controller grants every read and write request, so the not-granted
\* branch of access() is never taken.  invalidatedProcessors is not used.
SendRequest(p) ==
  /\ At(p, "request")
  /\ processRequest(p, op[p].addr, IF op[p].isWrite THEN "WriteRequest" ELSE "ReadRequest")
  /\ Goto(p, "l1")
  /\ Resume(p)
  /\ UNCHANGED <<l1Cache, op, totalAccesses>>

\* An access that is done returns to the trace, or to atomicAccess().
AfterAccess(p) == IF op[p].atomic /\ op[p].isWrite THEN "seal" ELSE "idle"

\* A completed access leaves an atomic read Running as well.
Finish(p) == IF op[p].atomic /\ ~op[p].isWrite THEN Enter(p, "Running") ELSE UNCHANGED state

\* The state installBlock gives a block; it never installs Shared.
Installed(isWrite) == IF isWrite THEN "Modified" ELSE "Exclusive"

\* l1Cache_.access on a hit (write-back): a write makes the block Modified.
L1Hit(p) ==
  LET b == Block(op[p].addr)
  IN  /\ At(p, "l1")
      /\ b \in Resident(p)
      /\ l1Cache' = [l1Cache EXCEPT ![p][b] = IF op[p].isWrite THEN "Modified" ELSE @]
      /\ Goto(p, AfterAccess(p))
      /\ Finish(p)
      /\ UNCHANGED <<cvars, op, totalAccesses>>

\* l1Cache_.access on a miss: a full set loses a victim, the block is installed
\* Modified or Exclusive.  Nobody tells the directory about the victim.
L1Miss(p) ==
  LET b == Block(op[p].addr)
      victims == IF Cardinality(Resident(p)) < Ways THEN {{}} ELSE {{v} : v \in Resident(p)}
  IN  /\ At(p, "l1")
      /\ b \notin Resident(p)
      /\ \E gone \in victims :
           l1Cache' = [l1Cache EXCEPT ![p] = [c \in Blocks |->
                         IF c = b THEN Installed(op[p].isWrite)
                         ELSE IF c \in gone THEN "Invalid" ELSE l1Cache[p][c]]]
      /\ Goto(p, "miss")
      /\ UNCHANGED <<cvars, op, state, totalAccesses>>

\* handleL1Miss tells the directory; only the creation of the entry has effect.
HandleL1Miss(p) ==
  /\ At(p, "miss")
  /\ updateCacheState(p, op[p].addr, IF op[p].isWrite THEN "Modified" ELSE "Shared")
  /\ Goto(p, AfterAccess(p))
  /\ Finish(p)
  /\ UNCHANGED <<l1Cache, op, totalAccesses>>

-----------------------------------------------------------------------------
(* ProcessorCore::atomicAccess *)

\* It requests the line for writing, whatever it already holds, then accesses.
AtomicRequest(p, a, isWrite) ==
  /\ At(p, "idle")
  /\ totalAccesses[p] < MaxAccesses
  /\ processRequest(p, a, "WriteRequest")
  /\ op' = [op EXCEPT ![p] = [addr |-> a, isWrite |-> isWrite, atomic |-> TRUE,
                              next |-> "Invalid"]]
  /\ Enter(p, "Synchronizing")
  /\ Goto(p, "check")
  /\ UNCHANGED <<l1Cache, totalAccesses>>

\* updateCoherenceState(address, Modified) at the end of an atomic write.
SealAtomic(p) ==
  LET b == Block(op[p].addr)
  IN  /\ At(p, "seal")
      /\ l1Cache' = [l1Cache EXCEPT ![p][b] = IF @ = "Invalid" THEN @ ELSE "Modified"]
      /\ updateCacheState(p, op[p].addr, "Modified")
      /\ Goto(p, "idle")
      /\ Enter(p, "Running")
      /\ UNCHANGED <<op, totalAccesses>>

-----------------------------------------------------------------------------
(* ProcessorCore::handleCoherenceRequest, delivered between two accesses of *)
(* p.  Nothing in the repository calls it: broadcastInvalidate, its only    *)
(* caller, is never called itself.                                          *)

\* The core changes its copy, then reports the change to the directory.
HandleCoherenceRequest(p, a, type) ==
  LET b == Block(a)
      next == IF type = "ShareRequest" THEN "Shared" ELSE "Invalid"
  IN  /\ At(p, "idle")
      /\ CASE type = "InvalidateRequest" -> l1Cache[p][b] # "Invalid"
           [] type = "ShareRequest" -> l1Cache[p][b] \in Sole
           [] type = "FlushRequest" -> TRUE
      /\ l1Cache' = [l1Cache EXCEPT ![p][b] = next]
      /\ op' = [op EXCEPT ![p] = [addr |-> a, isWrite |-> FALSE, atomic |-> FALSE,
                                  next |-> next]]
      /\ Goto(p, "notify")
      /\ UNCHANGED <<cvars, state, totalAccesses>>

ReportChange(p) ==
  /\ At(p, "notify")
  /\ updateCacheState(p, op[p].addr, op[p].next)
  /\ Goto(p, "idle")
  /\ UNCHANGED <<l1Cache, op, state, totalAccesses>>

-----------------------------------------------------------------------------
Step(p) == \/ CheckPermission(p) \/ SendRequest(p) \/ L1Hit(p) \/ L1Miss(p)
           \/ HandleL1Miss(p) \/ SealAtomic(p)

Start(p) == \E a \in Addresses, isWrite \in BOOLEAN :
              StartAccess(p, a, isWrite) \/ AtomicRequest(p, a, isWrite)

Done == (\A p \in Procs : At(p, "idle") /\ totalAccesses[p] = MaxAccesses)
        /\ UNCHANGED vars

\* The accesses the system makes by itself.
MNext == (\E p \in Procs : Start(p) \/ Step(p)) \/ Done

MSpec == MInit /\ [][MNext]_vars

Delivery(p) ==
  \/ \E a \in Addresses, type \in {"InvalidateRequest", "ShareRequest", "FlushRequest"} :
       HandleCoherenceRequest(p, a, type)
  \/ ReportChange(p)

\* The same with coherence requests delivered to the cores.
DeliverySpec == MInit /\ [][MNext \/ \E p \in Procs : Delivery(p)]_vars

-----------------------------------------------------------------------------
(* Properties that hold. *)

\* As long as no coherence request is delivered to a core, an Exclusive or
\* Modified entry always has an owner, so -1 never gets into sharers_.
EveryHolderIsAProcessor ==
  \A a \in Addresses : /\ directory[a].sharers \subseteq Procs
                       /\ directory[a].state \in Sole => directory[a].owner \in Procs

\* Once an access is over, every block left in an L1 is known to the directory
\* under one of its addresses: the next access of any core to that address asks
\* for permission instead of finding "no entry means no restrictions".
CachedBlocksAreTracked ==
  \A p \in Procs : \A b \in Resident(p) :
    (At(p, "miss") /\ Block(op[p].addr) = b) \/ \E a \in known : Block(a) = b

-----------------------------------------------------------------------------
(* What the documentation says of the Modified state. *)

\* A block that is Modified in one L1 is in no other L1.
ModifiedIsExclusive ==
  \A p, q \in Procs : \A b \in Blocks :
    p # q /\ l1Cache[p][b] = "Modified" => l1Cache[q][b] = "Invalid"
=============================================================================
