-------------------------- MODULE ReplacementPolicy --------------------------
(***************************************************************************)
(* The replacement policies of src/core/replacement_policy.h: the state a  *)
(* policy object keeps for one set of Ways blocks, and what onAccess,      *)
(* onInstall and selectVictim do to it.  kind is the policy's type; the    *)
(* outcome of RandomPolicy's generator is the parameter pick.              *)
(***************************************************************************)
EXTENDS Integers, Sequences, FiniteSetsExt

CONSTANT Ways   \* associativity

ASSUME WaysAssumption == Ways \in Nat \ {0}

Way == 0..(Ways - 1)
Kinds == {"LRU", "FIFO", "Random", "NRU", "PLRU"}

-----------------------------------------------------------------------------
(* LRUPolicy: lruOrder_, from most to least recently used *)

LRUNew == [i \in 1..Ways |-> i - 1]

Place(order, w) == CHOOSE i \in DOMAIN order : order[i] = w

\* Faulty variant: the block is moved to the back.
LRUTouchBack(order, w) ==
  [i \in DOMAIN order |-> IF i = Ways THEN w
                          ELSE order[IF i < Place(order, w) THEN i ELSE i + 1]]

\* erase and insert: the block goes to the front, those before it move back.
LRUTouch(order, w) ==
  [i \in DOMAIN order |-> IF i = 1 THEN w
                          ELSE order[IF i <= Place(order, w) THEN i - 1 ELSE i]]

LRUVictim(order, valid) ==
  order[CHOOSE i \in DOMAIN order : /\ order[i] \in valid
                                    /\ \A j \in DOMAIN order : j > i => order[j] \notin valid]

(* FIFOPolicy: fifoOrder_ and installCounter_ *)

FIFONew == [stamp |-> [w \in Way |-> 0], counter |-> 0]

FIFOInstall(s, w) == [stamp |-> [s.stamp EXCEPT ![w] = s.counter], counter |-> s.counter + 1]

\* The first of the oldest valid blocks.
FIFOVictim(s, valid) ==
  Min({v \in valid : \A w \in valid : s.stamp[v] <= s.stamp[w]})

(* NRUPolicy: referenceBits_ and accessCounter_ *)

ClearInterval == 4 * Ways
NRUNew == [ref |-> {}, counter |-> 0]

NRUAccess(s, w) ==
  IF s.counter + 1 >= ClearInterval THEN NRUNew
  ELSE [ref |-> s.ref \cup {w}, counter |-> s.counter + 1]

NRUInstall(s, w) == [s EXCEPT !.ref = @ \cup {w}]

\* All valid blocks referenced: every bit is cleared, the first valid one goes.
NRUVictim(s, valid) == Min(IF valid \subseteq s.ref THEN valid ELSE valid \ s.ref)
NRUAfterVictim(s, valid) == IF valid \subseteq s.ref THEN NRUNew ELSE s

(* PLRUPolicy: treeBits_, the inner nodes of a heap whose leaves are the    *)
(* ways.  Node x is a right child iff it is even; a set bit points right.   *)

PLRUNew == [n \in 0..(Ways - 2) |-> FALSE]
Parent(x) == (x - 1) \div 2

\* The nodes from the leaf of way w up to, and without, the root.
Path(w) == {x \in 1..(2 * Ways - 2) : \E k \in 0..Ways : x = ((w + Ways) \div 2^k) - 1}

\* The bit of every ancestor is set iff the path goes through its right child.
PLRUTouch(tree, w) ==
  [n \in DOMAIN tree |->
     IF \E x \in Path(w) : Parent(x) = n
     THEN (CHOOSE x \in Path(w) : Parent(x) = n) % 2 = 0
     ELSE tree[n]]

\* The leaf the bits lead to.
PLRULeaf(tree) == CHOOSE w \in Way : \A x \in Path(w) : tree[Parent(x)] = (x % 2 = 0)

PLRUVictim(tree, valid) ==
  IF PLRULeaf(tree) \in valid THEN PLRULeaf(tree) ELSE Min(valid)

-----------------------------------------------------------------------------
(* ReplacementPolicyFactory::create and the virtual functions *)

NewPolicy(kind) == CASE kind = "LRU" -> LRUNew
                     [] kind = "FIFO" -> FIFONew
                     [] kind = "NRU" -> NRUNew
                     [] kind = "PLRU" -> PLRUNew
                     [] kind = "Random" -> <<>>

onAccess(kind, s, w) == CASE kind = "LRU" -> LRUTouch(s, w)
                          [] kind = "NRU" -> NRUAccess(s, w)
                          [] kind = "PLRU" -> PLRUTouch(s, w)
                          [] kind \in {"FIFO", "Random"} -> s

onInstall(kind, s, w) == CASE kind = "LRU" -> LRUTouch(s, w)
                           [] kind = "FIFO" -> FIFOInstall(s, w)
                           [] kind = "NRU" -> NRUInstall(s, w)
                           [] kind = "PLRU" -> PLRUTouch(s, w)
                           [] kind = "Random" -> s

\* Faulty variant: the pick of RandomPolicy ranges over all blocks.
RandomAny(valid, pick) == pick

RandomVictim(valid, pick) == IF pick \in valid THEN pick ELSE Min(valid)

\* valid is never empty here.
selectVictim(kind, s, valid, pick) ==
  CASE kind = "LRU" -> LRUVictim(s, valid)
    [] kind = "FIFO" -> FIFOVictim(s, valid)
    [] kind = "NRU" -> NRUVictim(s, valid)
    [] kind = "PLRU" -> PLRUVictim(s, valid)
    [] kind = "Random" -> RandomVictim(valid, pick)

\* selectVictim of NRUPolicy changes the policy's state.
afterVictim(kind, s, valid) == IF kind = "NRU" THEN NRUAfterVictim(s, valid) ELSE s
=============================================================================
