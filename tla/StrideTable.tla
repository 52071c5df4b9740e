---------------------------- MODULE StrideTable ----------------------------
(***************************************************************************)
(* The table of StridePredictor in src/core/stride_predictor.cpp: update() *)
(* and getStride() on a value that holds the entries.  lastStride and the  *)
(* statistics are written and never read.  A stride is the difference of   *)
(* two uint32_t addresses converted to int32_t: it wraps around.           *)
(***************************************************************************)
EXTENDS Integers

CONSTANTS TableSize,
          NumAddresses   \* 2^32, the number of addresses

ASSUME TableAssumption == TableSize \in Nat \ {0} /\ NumAddresses \in Nat \ {0}

NewTable == [i \in 0..(TableSize - 1) |->
               [valid |-> FALSE, lastAddress |-> 0, stride |-> 0, confidence |-> 0]]

Bump(c) == IF c < 3 THEN c + 1 ELSE 3
Drop(c) == IF c > 0 THEN c - 1 ELSE 0

\* address - lastAddress in unsigned arithmetic, read as a signed number.
Distance(a, b) ==
  LET d == (a - b) % NumAddresses
  IN  IF 2 * d < NumAddresses THEN d ELSE d - NumAddresses

UpdatedEntry(e, a) ==
  LET delta == Distance(a, e.lastAddress)
  IN  IF ~e.valid
      THEN [valid |-> TRUE, lastAddress |-> a, stride |-> 0, confidence |-> 0]
      ELSE [valid |-> TRUE, lastAddress |-> a, stride |-> delta,
            confidence |-> IF delta = e.stride THEN Bump(e.confidence) ELSE Drop(e.confidence)]

update(table, a) == [table EXCEPT ![a % TableSize] = UpdatedEntry(@, a)]

\* Faulty variant: full confidence is required.
ConfidentAtTop(e) == e.valid /\ e.confidence >= 3

Confident(e) == e.valid /\ e.confidence >= 2

getStride(table, a) ==
  IF Confident(table[a % TableSize]) THEN table[a % TableSize].stride ELSE 0
=============================================================================
