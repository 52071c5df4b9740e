---------------------------- MODULE WritePolicy ----------------------------
(***************************************************************************)
(* The four write policy classes, deciding for one cache with a next level *)
(* below it what happens to writes.  The cache is external to the classes: *)
(* it allocates when the policy says so, and on eviction writes back when  *)
(* the policy says so.  owed and lost are what the model adds.             *)
(***************************************************************************)
EXTENDS Integers

CONSTANT WriteAddresses

VARIABLES writePolicy, \* what WritePolicyFactory::create was asked for
          nextLevel,   \* is there a next level?
          resident,    \* blocks the cache holds
          owed,        \* addresses whose last write is only in the cache
          lost         \* addresses whose last write is nowhere

writeVars == <<writePolicy, nextLevel, resident, owed, lost>>

\* WritePolicyFactory::create: every combination has its class.
WritePolicies == [update : {"WriteBack", "WriteThrough"},
                  allocation : {"WriteAllocate", "NoWriteAllocate"}]

WriteInit ==
  /\ writePolicy \in WritePolicies /\ nextLevel \in BOOLEAN
  /\ resident = {} /\ owed = {} /\ lost = {}

policyWritesBack(p) == p.update = "WriteBack"
policyAllocates(p) == p.allocation = "WriteAllocate"

\* Faulty variant: a miss is left to the cache under every policy.
ForwardsOnHitOnly(p, hit) == hit /\ p.update = "WriteThrough" /\ nextLevel

\* Does handleWrite pass the write on to the next level?
Forwards(p, hit) == nextLevel /\ (p.update = "WriteThrough" \/ (~hit /\ ~policyAllocates(p)))

\* Does the cache itself take the write?
Takes(p, hit) == hit \/ policyAllocates(p)

\* The number of writes handleWrite returns: one here, one in the next level.
handleWrite(p, hit) == (IF Takes(p, hit) THEN 1 ELSE 0) + (IF Forwards(p, hit) THEN 1 ELSE 0)

PolicyWrite(a) ==
  LET hit == a \in resident
  IN  /\ resident' = IF policyAllocates(writePolicy) THEN resident \cup {a} ELSE resident
      /\ owed' = IF Takes(writePolicy, hit) /\ ~Forwards(writePolicy, hit) THEN owed \cup {a} ELSE owed \ {a}
      /\ lost' = IF handleWrite(writePolicy, hit) = 0 THEN lost \cup {a} ELSE lost \ {a}
      /\ UNCHANGED <<writePolicy, nextLevel>>

PolicyRead(a) == resident' = resident \cup {a} /\ UNCHANGED <<writePolicy, nextLevel, owed, lost>>

\* The block is written back if the policy requires it, to a level that exists.
PolicyEvict(a) ==
  /\ a \in resident
  /\ resident' = resident \ {a}
  /\ owed' = owed \ {a}
  /\ lost' = IF a \in owed /\ ~(policyWritesBack(writePolicy) /\ nextLevel) THEN lost \cup {a} ELSE lost
  /\ UNCHANGED <<writePolicy, nextLevel>>

WriteNext == \E a \in WriteAddresses : PolicyWrite(a) \/ PolicyRead(a) \/ PolicyEvict(a)

WriteSpec == WriteInit /\ [][WriteNext]_writeVars

-----------------------------------------------------------------------------
(* Properties *)

\* With a next level no policy lets a write fall between the two, hit or miss,
\* through any evictions: it is passed on, or kept in a block that the policy
\* writes back when it goes.
WritePassedOnOrKept ==
  nextLevel => /\ lost = {}
               /\ owed # {} => policyWritesBack(writePolicy) /\ owed \subseteq resident
=============================================================================
