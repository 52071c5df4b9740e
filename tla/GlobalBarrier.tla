--------------------------- MODULE GlobalBarrier ---------------------------
(***************************************************************************)
(* MultiProcessorSystem::globalBarrier in                                  *)
(* src/core/multiprocessor/processor_core.cpp: one thread per processor    *)
(* calls it once.  barrierMutex_ is held for the whole call except while   *)
(* barrierCV_ waits, so arriving is one step and every evaluation of the   *)
(* wait predicate another.                                                 *)
(***************************************************************************)
EXTENDS Naturals, FiniteSets

CONSTANT Procs   \* numProcessors threads

VARIABLES barrierCount,
          at       \* where each processor's thread is

vars == <<barrierCount, at>>

N == Cardinality(Procs)
Places == {"running", "waiting", "awake", "returned"}

Init == /\ barrierCount = 0
        /\ at = [p \in Procs |-> "running"]

\* The predicate is evaluated before the first wait as well: it is false then.
Wait(p) ==
  /\ at[p] = "running"
  /\ barrierCount + 1 < N
  /\ barrierCount' = barrierCount + 1
  /\ at' = [at EXCEPT ![p] = "waiting"]

\* The last one resets the count and wakes everybody before it unlocks.
Release(p) ==
  /\ at[p] = "running"
  /\ barrierCount + 1 >= N
  /\ barrierCount' = 0
  /\ at' = [q \in Procs |-> IF q = p THEN "returned"
                            ELSE IF at[q] = "waiting" THEN "awake" ELSE at[q]]

\* A waiter that has been woken evaluates the predicate again.
Recheck(p) ==
  /\ at[p] = "awake"
  /\ at' = [at EXCEPT ![p] = IF barrierCount >= N THEN "returned" ELSE "waiting"]
  /\ UNCHANGED barrierCount

SpuriousWakeup(p) ==
  /\ at[p] = "waiting"
  /\ at' = [at EXCEPT ![p] = "awake"]
  /\ UNCHANGED barrierCount

Step(p) == Wait(p) \/ Release(p) \/ Recheck(p)

Next == \E p \in Procs : Step(p) \/ SpuriousWakeup(p)

\* Every processor reaches the barrier and a woken thread gets the mutex.
Spec == Init /\ [][Next]_vars /\ \A p \in Procs : WF_vars(Step(p))

-----------------------------------------------------------------------------
\* Once all processors have called globalBarrier, all of them return from it:
\* the last one to arrive wakes all others.
AllReturn == (\A p \in Procs : at[p] # "running") ~> (\A p \in Procs : at[p] = "returned")
=============================================================================
