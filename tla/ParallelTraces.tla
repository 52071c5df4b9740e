--------------------------- MODULE ParallelTraces ---------------------------
(***************************************************************************)
(* MultiProcessorSystem::simulateParallelTraces in                         *)
(* src/core/multiprocessor/processor_core.cpp: one thread per processor    *)
(* replays its trace, adds every latency to its own localCycles, and then  *)
(* raises the shared atomic maxCycles with a compare-and-exchange loop.    *)
(* The main thread joins them all and returns maxCycles.  Every operation  *)
(* on maxCycles is one step; what an access costs is any of Latencies.     *)
(***************************************************************************)
EXTENDS Integers, FiniteSets

CONSTANTS Procs,       \* processors, one thread each
          Latencies,   \* what one access may cost
          MaxAccesses  \* bound on the length of a trace

ASSUME TracesAssumption ==
  Latencies \subseteq Nat /\ IsFiniteSet(Procs) /\ MaxAccesses \in Nat

VARIABLES localCycles,   \* per thread
          current,       \* per thread: its last load of maxCycles
          pc,            \* per thread
          length,        \* per thread: accesses replayed so far
          maxCycles, result

vars == <<localCycles, current, pc, length, maxCycles, result>>

Steps == {"trace", "load", "cas", "exit"}

Init == /\ localCycles = [p \in Procs |-> 0]
        /\ current = [p \in Procs |-> 0]
        /\ pc = [p \in Procs |-> "trace"]
        /\ length = [p \in Procs |-> 0]
        /\ maxCycles = 0
        /\ result = -1

Goto(p, step) == pc' = [pc EXCEPT ![p] = step]

-----------------------------------------------------------------------------
\* The trace has another access: processAccess returns its latency.
Access(p, latency) ==
  /\ pc[p] = "trace"
  /\ length[p] < MaxAccesses
  /\ length' = [length EXCEPT ![p] = @ + 1]
  /\ localCycles' = [localCycles EXCEPT ![p] = @ + latency]
  /\ UNCHANGED <<current, pc, maxCycles, result>>

\* A trace of any length up to the bound, the empty one included, ends.
EndOfTrace(p) ==
  /\ pc[p] = "trace"
  /\ Goto(p, "load")
  /\ UNCHANGED <<localCycles, current, length, maxCycles, result>>

\* maxCycles.load() before the loop.
Load(p) ==
  /\ pc[p] = "load"
  /\ current' = [current EXCEPT ![p] = maxCycles]
  /\ Goto(p, "cas")
  /\ UNCHANGED <<localCycles, length, maxCycles, result>>

\* localCycles > current is false: the loop ends.
NotLarger(p) ==
  /\ pc[p] = "cas"
  /\ localCycles[p] <= current[p]
  /\ Goto(p, "exit")
  /\ UNCHANGED <<localCycles, current, length, maxCycles, result>>

Matches(p) == maxCycles = current[p]

Exchange(p) ==
  /\ pc[p] = "cas"
  /\ localCycles[p] > current[p]
  /\ Matches(p)
  /\ maxCycles' = localCycles[p]
  /\ Goto(p, "exit")
  /\ UNCHANGED <<localCycles, current, length, result>>

\* Faulty variant: a failed exchange leaves current as it was.
KeepCurrent(p) == UNCHANGED current

Reload(p) == current' = [current EXCEPT ![p] = maxCycles]

\* compare_exchange_weak fails: maxCycles has changed, or spuriously.
FailedExchange(p) ==
  /\ pc[p] = "cas"
  /\ localCycles[p] > current[p]
  /\ Reload(p)
  /\ UNCHANGED <<pc, localCycles, length, maxCycles, result>>

\* Faulty variant: a thread is not joined while it is in its loop.
JoinEarly == \A p \in Procs : pc[p] \in {"load", "cas", "exit"}

AllJoined == \A p \in Procs : pc[p] = "exit"

\* Every thread is joined, maxCycles is returned.
Join ==
  /\ result = -1
  /\ AllJoined
  /\ result' = maxCycles
  /\ UNCHANGED <<localCycles, current, pc, length, maxCycles>>

Thread(p) == \/ \E latency \in Latencies : Access(p, latency)
             \/ EndOfTrace(p) \/ Load(p)
             \/ NotLarger(p) \/ Exchange(p) \/ FailedExchange(p)

Returned == result # -1 /\ UNCHANGED vars

Next == (\E p \in Procs : Thread(p)) \/ Join \/ Returned

Spec == Init /\ [][Next]_vars

\* A thread goes on, and exchanges that could succeed again and again are not
\* all failed spuriously for ever; which thread's succeeds is left open.
AnyExchange == \E p \in Procs : Exchange(p)
FairSpec == Spec /\ WF_vars(Join) /\ (\A p \in Procs : WF_vars(Thread(p))) /\ SF_vars(AnyExchange)

-----------------------------------------------------------------------------
(* Properties *)

\* Cycles are natural numbers and no trace is longer than its bound.
TypeOK == /\ localCycles \in [Procs -> Nat]
          /\ current \in [Procs -> Nat]
          /\ pc \in [Procs -> Steps]
          /\ length \in [Procs -> 0..MaxAccesses]
          /\ maxCycles \in Nat
          /\ result \in Nat \cup {-1}

\* The simulation time returned is the longest of the threads' own times: no
\* raise of maxCycles is overwritten by a smaller one or comes too late.
ResultIsLongest ==
  result # -1 => /\ \A p \in Procs : localCycles[p] <= result
                 /\ result = 0 \/ \E p \in Procs : localCycles[p] = result

\* maxCycles never goes down, whatever the threads race for.
NeverLowered == [][maxCycles' >= maxCycles]_vars
=============================================================================
