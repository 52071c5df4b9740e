------------------------------ MODULE MCCores ------------------------------
(***************************************************************************)
(* The cores with their directory, and the memory hierarchy of a simulator *)
(* without cores.  An initial state chooses which of the two runs.         *)
(***************************************************************************)
EXTENDS MCMultiProcessorSystem, MCMemoryHierarchy

VARIABLE unit   \* the one that runs

CoresInit ==
  /\ unit \in {"cores", "hierarchy"}
  /\ MInit
  /\ HierarchyInit /\ (unit # "hierarchy" => below = {"L3"})

CoresNext ==
  \/ unit = "cores" /\ MNext /\ UNCHANGED <<hierarchyVars, unit>>
  \/ unit = "hierarchy" /\ HierarchyNext /\ UNCHANGED <<vars, unit>>

CoresSpec == CoresInit /\ [][CoresNext]_<<vars, hierarchyVars, unit>>

\* What the last access of the hierarchy wrote back has no influence on the next.
CoresView == <<vars, HierarchyView, unit>>
=============================================================================
