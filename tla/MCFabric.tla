------------------------------ MODULE MCFabric ------------------------------
(***************************************************************************)
(* What runs in several threads besides the cores: the thread pool, the    *)
(* parallel replay of traces, the interconnects and the snooping           *)
(* protocols.  They share no state in the code; an initial state chooses   *)
(* the one that runs.                                                      *)
(***************************************************************************)
EXTENDS ThreadPool, ParallelTraces, Interconnect, CoherenceProtocol

VARIABLE unit   \* the component that runs

fabricVars == <<poolVars, vars, netVars, snoopVars, unit>>

FabricInit ==
  /\ unit \in {"pool", "traces", "net", "snoop"}
  /\ PoolInit /\ Init
  /\ (IF unit = "net" THEN TRUE ELSE topology = "Bus") /\ NetInit
  /\ (IF unit = "snoop" THEN TRUE ELSE protocol = "MSI") /\ SnoopInit

FabricNext ==
  \/ unit = "pool" /\ PoolNext /\ UNCHANGED <<vars, netVars, snoopVars, unit>>
  \/ unit = "traces" /\ Next /\ UNCHANGED <<poolVars, netVars, snoopVars, unit>>
  \/ unit = "net" /\ NetNext /\ UNCHANGED <<poolVars, vars, snoopVars, unit>>
  \/ unit = "snoop" /\ SnoopNext /\ UNCHANGED <<poolVars, vars, netVars, unit>>

\* The fairness of PoolFairSpec, FairSpec and NetFairness, for the component
\* that runs.
FabricSpec ==
  /\ FabricInit /\ [][FabricNext]_fabricVars
  /\ WF_poolVars(unit = "pool" /\ ClientStep)
  /\ \A w \in Workers : WF_poolVars(unit = "pool" /\ WorkerStep(w))
  /\ WF_vars(unit = "traces" /\ Join)
  /\ \A p \in Procs : WF_vars(unit = "traces" /\ Thread(p))
  /\ SF_vars(unit = "traces" /\ AnyExchange)
  /\ \A s \in Senders : WF_netVars(unit = "net" /\ Send(s))
  /\ \A d \in Receivers : WF_netVars(unit = "net" /\ receiveMessage(d))

\* The owner of the pool gets to the end: the futures it waits for become ready
\* and the join of ~ThreadPool returns, with every worker woken from its wait.
PoolShutsDown == unit = "pool" ~> place[Client] = "end"

\* Every simulation of finite traces returns: the exchange loops of
\* simulateParallelTraces end although each thread's raise makes the others'
\* expected value stale.
TracesReturn == unit = "traces" ~> result # -1
=============================================================================
