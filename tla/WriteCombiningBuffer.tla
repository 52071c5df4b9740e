----------------------- MODULE WriteCombiningBuffer -----------------------
(***************************************************************************)
(* WriteCombiningBuffer: a few entries that collect writes until a flush.  *)
(* written and evicted are what the model adds to say what a flush owes.   *)
(***************************************************************************)
EXTENDS Integers, FiniteSetsExt

CONSTANTS BufferAddresses,
          BufferSize,      \* number of entries
          MaxBufferWrites  \* bound on currentTime_

ASSUME BufferAssumption == BufferSize \in Nat \ {0} /\ MaxBufferWrites \in Nat

VARIABLES buffer,  \* entries_ and currentTime_
          written, \* per address, when it was last written; 0: not since the last flush
          evicted  \* some tryWrite since the last flush has returned false

bufferVars == <<buffer, written, evicted>>

Slots == 1..BufferSize

BufferInit ==
  /\ buffer = [entries |-> [i \in Slots |-> [address |-> 0, valid |-> FALSE, stamp |-> 0]],
               time |-> 0]
  /\ written = [a \in BufferAddresses |-> 0]
  /\ evicted = FALSE

Matching(b, a) == {i \in Slots : b.entries[i].valid /\ b.entries[i].address = a}
Empty(b) == {i \in Slots : ~b.entries[i].valid}

\* std::min_element: the first of the smallest time stamps.
OldestSlot(b) == Min({i \in Slots : \A j \in Slots : b.entries[i].stamp <= b.entries[j].stamp})

\* Faulty variant: the buffer is not searched for the address.
FirstEmpty(b, a) == IF Empty(b) # {} THEN Min(Empty(b)) ELSE OldestSlot(b)

\* The entry tryWrite uses: the matching one, else an empty one, else the
\* oldest.  It returns false in the last case, and does not say what was there.
SlotFor(b, a) ==
  IF Matching(b, a) # {} THEN Min(Matching(b, a))
  ELSE IF Empty(b) # {} THEN Min(Empty(b)) ELSE OldestSlot(b)
tryWriteReturns(b, a) == Matching(b, a) \cup Empty(b) # {}

\* Faulty variant: a combined write leaves the entry's time stamp alone.
StampedOnce(b, a) == IF Matching(b, a) # {} THEN b.entries[SlotFor(b, a)].stamp ELSE b.time + 1

Stamp(b, a) == b.time + 1

tryWrite(a) ==
  /\ buffer.time < MaxBufferWrites
  /\ buffer' = [entries |-> [buffer.entries EXCEPT ![SlotFor(buffer, a)] =
                               [address |-> a, valid |-> TRUE, stamp |-> Stamp(buffer, a)]],
                time |-> buffer.time + 1]
  /\ written' = [written EXCEPT ![a] = buffer.time + 1]
  /\ evicted' = (evicted \/ ~tryWriteReturns(buffer, a))

\* The addresses flush returns, and with them getOccupancy.
Pending(b) == {b.entries[i].address : i \in Slots \ Empty(b)}
getOccupancy(b) == Cardinality(Slots \ Empty(b))

flush ==
  /\ buffer' = [buffer EXCEPT !.entries = [i \in Slots |-> [@[i] EXCEPT !.valid = FALSE]]]
  /\ written' = [a \in BufferAddresses |-> 0]
  /\ evicted' = FALSE

BufferNext == flush \/ \E a \in BufferAddresses : tryWrite(a)

BufferSpec == BufferInit /\ [][BufferNext]_bufferVars

-----------------------------------------------------------------------------
(* Properties *)

Unflushed == {a \in BufferAddresses : written[a] > 0}

\* As long as tryWrite has not reported an eviction since the last flush, a
\* flush returns every address written since, once.
FlushIsComplete ==
  ~evicted => Pending(buffer) = Unflushed /\ getOccupancy(buffer) = Cardinality(Unflushed)

\* The pending write that tryWrite drops is the one untouched for the longest
\* time: every other pending address was written after it.
DropsLeastRecent ==
  [][\A a \in BufferAddresses : \A i, j \in Pending(buffer) :
       tryWrite(a) /\ written[i] < written[j] /\ i \in Pending(buffer')
         => j \in Pending(buffer')]_bufferVars
=============================================================================
