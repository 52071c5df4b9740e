----------------------------- MODULE PolicySet -----------------------------
(***************************************************************************)
(* One set of a cache and its replacement policy, driven the way Cache     *)
(* does: hits, installs into an invalid way or over the policy's victim,   *)
(* and invalidations the policy is not told about.  The model remembers    *)
(* which way was last used, or filled, before which other, to say what the *)
(* policies are meant to choose.                                           *)
(***************************************************************************)
EXTENDS ReplacementPolicy

CONSTANTS Policies,    \* the kinds to start from
          MaxInstalls  \* bound on FIFO's installCounter_

ASSUME PolicySetAssumption == Policies \subseteq Kinds /\ MaxInstalls \in Nat

VARIABLES kind, policy,
          valid,      \* ways that hold a valid block
          before      \* <<v, w>>: v was last used before w (for FIFO: filled)

policySetVars == <<kind, policy, valid, before>>

PolicyInit ==
  /\ kind \in Policies
  /\ policy = NewPolicy(kind)
  /\ valid = {}
  /\ before = {}

\* w comes last now.
Latest(w) == {pair \in before : pair[1] # w} \cup {<<v, w>> : v \in Way \ {w}}

\* Cache::access on a hit.
Hit(w) ==
  /\ w \in valid
  /\ policy' = onAccess(kind, policy, w)
  /\ before' = IF kind = "FIFO" THEN before ELSE Latest(w)
  /\ UNCHANGED <<kind, valid>>

Fill(w, s) ==
  /\ kind = "FIFO" => policy.counter < MaxInstalls
  /\ policy' = onInstall(kind, s, w)
  /\ valid' = valid \cup {w}
  /\ before' = Latest(w)
  /\ UNCHANGED kind

\* Cache::findVictim: the first invalid way, without asking the policy...
FillInvalid ==
  /\ valid # Way
  /\ Fill(Min(Way \ valid), policy)

\* ... or the victim of a full set.
Replace(pick) ==
  /\ valid = Way
  /\ Fill(selectVictim(kind, policy, Way, pick), afterVictim(kind, policy, Way))

\* Cache::invalidateBlock.
Invalidate(w) ==
  /\ w \in valid
  /\ valid' = valid \ {w}
  /\ UNCHANGED <<kind, policy, before>>

\* The end of the model of FIFO.
Stop == kind = "FIFO" /\ policy.counter = MaxInstalls /\ UNCHANGED policySetVars

PolicyNext ==
  \/ \E w \in Way : Hit(w) \/ Invalidate(w) \/ Replace(w)
  \/ FillInvalid
  \/ Stop

PolicySpec == PolicyInit /\ [][PolicyNext]_policySetVars

-----------------------------------------------------------------------------
(* Properties.  Victims(V) are the victims selectVictim may name when V are  *)
(* the valid blocks.                                                         *)

Victims(V) == {selectVictim(kind, policy, V, pick) : pick \in Way}

\* Whatever happened to the set, every policy names a victim among the valid
\* blocks, for every non-empty set of them.
VictimIsValid == \A V \in (SUBSET Way) \ {{}} : Victims(V) \subseteq V

\* LRUPolicy evicts the valid block whose last access or fill is the oldest,
\* FIFOPolicy the one filled the longest time ago whatever was accessed since,
\* also after invalidations and refills they were not told the reason of.
EvictsOldest ==
  kind \in {"LRU", "FIFO"} =>
    \A V \in (SUBSET valid) \ {{}} : \A v \in Victims(V) : \A w \in V : <<w, v>> \notin before

\* The tree bits of PLRUPolicy point away from the block used last, so a full
\* set of two or more never evicts it next.
PLRUSparesLastUsed ==
  kind = "PLRU" /\ valid = Way /\ Ways > 1
    => \A v \in Victims(Way) : \E w \in Way : <<v, w>> \in before
=============================================================================
