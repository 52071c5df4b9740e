--------------------------- MODULE CoherenceSpec ---------------------------
(***************************************************************************)
(* What a MESI directory promises the processors, with no directory in it: *)
(* for every line each processor holds one of the four permissions, and    *)
(* the permissions change only by the steps below.  An exclusive copy      *)
(* (Exclusive or Modified) is the only copy.  CoherenceController is shown *)
(* to implement this specification through getCacheLineState.              *)
(***************************************************************************)
CONSTANTS Procs,       \* the processors
          Addresses    \* the lines the directory keeps entries for

VARIABLE line          \* line[a][p]: what p may do with a

MESI == {"Invalid", "Shared", "Exclusive", "Modified"}
Sole == {"Exclusive", "Modified"}

Init == line = [a \in Addresses |-> [p \in Procs |-> "Invalid"]]

SetLine(a, view) == line' = [line EXCEPT ![a] = view]

\* p becomes a reader.  A sole copy elsewhere is downgraded to Shared; p gets
\* Exclusive only if nobody else holds the line, and keeps a sole copy it has.
Read(p, a) ==
  \E g \in MESI \ {"Invalid"} :
    /\ g \in Sole => \A q \in Procs \ {p} : line[a][q] = "Invalid"
    /\ g = "Modified" => line[a][p] = "Modified"
    /\ SetLine(a, [q \in Procs |->
                     IF q = p THEN g
                     ELSE IF line[a][q] \in Sole THEN "Shared" ELSE line[a][q]])

\* p becomes the only holder, able to write.
Write(p, a) ==
  SetLine(a, [q \in Procs |-> IF q = p THEN "Modified" ELSE "Invalid"])

\* p gives its copy up.
Drop(p, a) == SetLine(a, [line[a] EXCEPT ![p] = "Invalid"])

\* Every copy of the line is taken away.
Purge(a) == SetLine(a, [q \in Procs |-> "Invalid"])

Next == \E a \in Addresses : \/ Purge(a)
                             \/ \E p \in Procs : Read(p, a) \/ Write(p, a) \/ Drop(p, a)

Spec == Init /\ [][Next]_line

\* Single writer, many readers: whoever holds a line exclusively is the only
\* processor that holds it.
SingleWriter ==
  \A a \in Addresses : \A p, q \in Procs :
    p # q /\ line[a][p] \in Sole => line[a][q] = "Invalid"
=============================================================================
