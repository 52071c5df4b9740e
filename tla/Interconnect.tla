---------------------------- MODULE Interconnect ----------------------------
(***************************************************************************)
(* The five interconnects behind InterconnectInterface, with one sending   *)
(* thread per source and receivers that poll.  A step is a critical        *)
(* section or an atomic operation of the code.  The statistics, the        *)
(* congestion level of the mesh, which only changes latencies, and its     *)
(* input queues, which nothing reads, are left out.                        *)
(***************************************************************************)
EXTENDS Integers, Sequences, SequencesExt, FiniteSets, FiniteSetsExt

CONSTANTS NumProcs,       \* numProcessors_
          Senders,        \* processors that send
          Destinations,   \* where to; NumProcs and more are no processors
          Topologies,     \* the types to start from
          MaxSends        \* messages each sender sends

ProcIds == 0..(NumProcs - 1)
Receivers == Destinations \cap ProcIds

\* The connections of the crossbar and the queue of each receiver elsewhere; the
\* ones nobody sends to stay empty and are left out.
QueueKeys == (Senders \X Receivers) \cup {<<d, d>> : d \in Receivers}

\* InterconnectFactory and the torus: the smallest square grid that is enough,
\* without the rows it does not need.
Width == CHOOSE w \in 1..NumProcs : w * w >= NumProcs /\ (w - 1) * (w - 1) < NumProcs
Height == (NumProcs + Width - 1) \div Width

\* A route of the mesh turns in the row of its source.  In a last row that is
\* not full the corner may be no processor, and routers_ is indexed past its
\* end: that mesh is not modelled, nor are destinations outside of it.
ASSUME InterconnectAssumption ==
  /\ NumProcs \in Nat \ {0} /\ MaxSends \in Nat
  /\ Senders \subseteq ProcIds /\ Destinations \subseteq Nat
  /\ Topologies \subseteq {"Bus", "Crossbar", "Mesh", "Ring", "Torus"}
  /\ "Mesh" \in Topologies => NumProcs = Width * Height

VARIABLES topology,
          sender,       \* what each sending thread is doing
          message,      \* the message it is sending
          busOccupied,  \* of the bus
          portOccupied, \* of the crossbar, per destination
          queues,       \* <<s, d>>: a connection of the crossbar; <<d, d>>: the queue of d
          received      \* number of the last message received, per processor and source

netVars == <<topology, sender, message, busOccupied, portOccupied, queues, received>>

NoMessage == [src |-> 0, dst |-> 0, number |-> 0, hops |-> 0]

NetInit ==
  /\ topology \in Topologies
  /\ sender = [s \in Senders |-> "idle"]
  /\ message = [s \in Senders |-> NoMessage]
  /\ busOccupied = FALSE
  /\ portOccupied = [d \in ProcIds |-> FALSE]
  /\ queues = [k \in QueueKeys |-> <<>>]
  /\ received = [d \in Receivers |-> [s \in Senders |-> 0]]

-----------------------------------------------------------------------------
(* Routes *)

X(id) == id % Width
Y(id) == id \div Width
Apart(a, b) == IF a < b THEN b - a ELSE a - b

\* calculateRoute of the mesh: along the row, then along the column.
Toward(from, to, n) == IF from < to THEN from + n ELSE from - n
calculateRoute(s, d) ==
  LET dx == Apart(X(s), X(d))
  IN  [i \in 1..(dx + Apart(Y(s), Y(d)) + 1) |->
         IF i <= dx + 1 THEN Y(s) * Width + Toward(X(s), X(d), i - 1)
         ELSE Toward(Y(s), Y(d), i - 1 - dx) * Width + X(d)]

\* Faulty variant: always clockwise.
Clockwise(s, d) == IF d >= s THEN d - s ELSE NumProcs - s + d

ringHops(s, d) ==
  LET clockwise == IF d >= s THEN d - s ELSE NumProcs - s + d
  IN  IF s = d THEN 0 ELSE Min({clockwise, NumProcs - clockwise})

torusHops(s, d) ==
  LET dx == Apart(X(s), X(d))
      dy == Apart(Y(s), Y(d))
  IN  IF s = d THEN 0 ELSE Min({dx, Width - dx}) + Min({dy, Height - dy})

\* hopCount of a delivered message; the bus and the crossbar leave it alone.
HopCount(s, d) ==
  CASE topology = "Mesh" -> Len(calculateRoute(s, d)) - 1
    [] topology = "Ring" -> ringHops(s, d)
    [] topology = "Torus" -> torusHops(s, d)
    [] OTHER -> 0

-----------------------------------------------------------------------------
(* sendMessage *)

At(s, from, to) == sender[s] = from /\ sender' = [sender EXCEPT ![s] = to]

QueueOf(m) == IF topology = "Crossbar" THEN <<m.src, m.dst>> ELSE <<m.dst, m.dst>>

\* A message for nobody is dropped.
Deliver(m) ==
  queues' = IF m.dst \in ProcIds THEN [queues EXCEPT ![QueueOf(m)] = Append(@, m)] ELSE queues

\* The call.  The crossbar refuses a destination that does not exist.
Call(s, d) ==
  /\ message[s].number < MaxSends
  /\ topology = "Mesh" => d \in ProcIds
  /\ At(s, "idle", CASE topology = "Bus" -> "arbitrate"
                     [] topology = "Crossbar" -> IF d \in ProcIds THEN "port" ELSE "idle"
                     [] OTHER -> "deliver")
  /\ message' = [message EXCEPT ![s] = [src |-> s, dst |-> d, number |-> @.number + 1,
                                        hops |-> HopCount(s, d)]]
  /\ UNCHANGED <<topology, busOccupied, portOccupied, queues, received>>

\* Faulty variant: the bus is looked at and taken without the lock.
TakeUnlocked(s) ==
  /\ At(s, "arbitrate", IF busOccupied /\ \E t \in Senders : sender[t] = "release"
                        THEN "asleep" ELSE "transmit")
  /\ busOccupied' = TRUE
  /\ UNCHANGED <<topology, message, portOccupied, queues, received>>

\* Bus: the loop around busCV_.wait.
Arbitrate(s) ==
  /\ At(s, "arbitrate", IF busOccupied THEN "asleep" ELSE "transmit")
  /\ busOccupied' = TRUE
  /\ UNCHANGED <<topology, message, portOccupied, queues, received>>

\* A wait may end without a notification.
SpuriousWakeup(s) ==
  /\ At(s, "asleep", "arbitrate")
  /\ UNCHANGED <<topology, message, busOccupied, portOccupied, queues, received>>

Transmit(s) ==
  /\ At(s, "transmit", "release")
  /\ Deliver(message[s])
  /\ UNCHANGED <<topology, message, busOccupied, portOccupied, received>>

\* Faulty variant: nobody is notified.
NotifyNobody(after) == {after}

\* notify_one: one of the threads asleep, if there is one.
NotifyOne(after) ==
  LET asleep == {t \in Senders : after[t] = "asleep"}
  IN  IF asleep = {} THEN {after} ELSE {[after EXCEPT ![t] = "arbitrate"] : t \in asleep}

Release(s) ==
  /\ sender[s] = "release"
  /\ sender' \in NotifyOne([sender EXCEPT ![s] = "idle"])
  /\ busOccupied' = FALSE
  /\ UNCHANGED <<topology, message, portOccupied, queues, received>>

\* Crossbar: the exchange fails if the port is occupied; the sender sleeps once
\* and goes on in any case.
TakePort(s) ==
  /\ At(s, "port", "push")
  /\ portOccupied' = [portOccupied EXCEPT ![message[s].dst] = TRUE]
  /\ UNCHANGED <<topology, message, busOccupied, queues, received>>

Push(s) ==
  /\ At(s, "push", "free")
  /\ Deliver(message[s])
  /\ UNCHANGED <<topology, message, busOccupied, portOccupied, received>>

\* Faulty variant: the port of the source is released.
FreeSourcePort(s) ==
  /\ At(s, "free", "idle")
  /\ portOccupied' = [portOccupied EXCEPT ![message[s].src] = FALSE]
  /\ UNCHANGED <<topology, message, busOccupied, queues, received>>

FreePort(s) ==
  /\ At(s, "free", "idle")
  /\ portOccupied' = [portOccupied EXCEPT ![message[s].dst] = FALSE]
  /\ UNCHANGED <<topology, message, busOccupied, queues, received>>

\* Mesh, ring and torus: the message is put into the queue of its destination.
DeliverAtOnce(s) ==
  /\ At(s, "deliver", "idle")
  /\ Deliver(message[s])
  /\ UNCHANGED <<topology, message, busOccupied, portOccupied, received>>

Send(s) == \/ Arbitrate(s) \/ Transmit(s) \/ Release(s)
           \/ TakePort(s) \/ Push(s) \/ FreePort(s)
           \/ DeliverAtOnce(s)

-----------------------------------------------------------------------------
(* receiveMessage and hasMessages *)

\* The queues a receiver looks at, and the one it takes from: the crossbar
\* starts with source 0 every time.
Inputs(d) == {k \in QueueKeys : k[2] = d /\ queues[k] # <<>>}
hasMessages(d) == Inputs(d) # {}
Source(d) == Min({k[1] : k \in Inputs(d)})

\* Faulty variant: the newest message is taken.
TakeLast(q) == [head |-> Last(q), rest |-> Front(q)]

TakeFirst(q) == [head |-> Head(q), rest |-> Tail(q)]

receiveMessage(d) ==
  /\ hasMessages(d)
  /\ LET k == <<Source(d), d>>
         taken == TakeFirst(queues[k])
     IN  /\ received' = [received EXCEPT ![d][taken.head.src] = taken.head.number]
         /\ queues' = [queues EXCEPT ![k] = taken.rest]
  /\ UNCHANGED <<topology, sender, message, busOccupied, portOccupied>>

\* Everything was sent and received.
NetDone ==
  /\ \A s \in Senders : sender[s] = "idle" /\ message[s].number = MaxSends
  /\ \A d \in Receivers : ~hasMessages(d)
  /\ UNCHANGED netVars

NetNext ==
  \/ \E s \in Senders : Send(s) \/ SpuriousWakeup(s) \/ \E d \in Destinations : Call(s, d)
  \/ \E d \in Receivers : receiveMessage(d)
  \/ NetDone

\* Every thread that can go on does, and the receivers keep polling.
NetFairness == /\ \A s \in Senders : WF_netVars(Send(s))
               /\ \A d \in Receivers : WF_netVars(receiveMessage(d))

NetSpec == NetInit /\ [][NetNext]_netVars /\ NetFairness

-----------------------------------------------------------------------------
(* Properties *)

\* What a processor has received from a source, and what is still queued from
\* it, comes in the order of sending and exists once, also when senders met a
\* bus or a port that was occupied.
InOrderOnce ==
  \A k \in QueueKeys : \A i \in DOMAIN queues[k] :
    LET m == queues[k][i]
    IN  /\ m.number > received[k[2]][m.src]
        /\ \A j \in 1..(i - 1) : queues[k][j].src = m.src => queues[k][j].number < m.number

\* Two senders never transmit on the bus at the same time, and the bus is never
\* left occupied by nobody.
BusExclusive ==
  /\ busOccupied <=> \E s \in Senders : sender[s] \in {"transmit", "release"}
  /\ \A s, t \in Senders : s # t => ~({sender[s], sender[t]} \subseteq {"transmit", "release"})

\* No port of the crossbar is left occupied by nobody: although a sender also
\* releases a port it found occupied and never took, whenever the flag is set
\* some sender to that port has still to release it.
PortsAreReleased ==
  \A d \in ProcIds : portOccupied[d] =>
    \E s \in Senders : sender[s] \in {"push", "free"} /\ message[s].dst = d

\* The hops a message was charged are the fewest there are between its ends.
\* Within(s, n) are the processors at most n links from s.
Linked(a, b) ==
  CASE topology = "Ring" -> Apart(a, b) \in {1, NumProcs - 1}
    [] topology = "Mesh" -> Apart(X(a), X(b)) + Apart(Y(a), Y(b)) = 1
    [] topology = "Torus" -> \/ Y(a) = Y(b) /\ Apart(X(a), X(b)) \in {1, Width - 1}
                             \/ X(a) = X(b) /\ Apart(Y(a), Y(b)) \in {1, Height - 1}
    [] OTHER -> TRUE
Within(s, n) ==
  LET reach[i \in 0..n] == IF i = 0 THEN {s}
                           ELSE reach[i - 1] \cup {b \in ProcIds : \E a \in reach[i - 1] : Linked(a, b)}
  IN  reach[n]
FewestHops ==
  topology \in {"Mesh", "Ring", "Torus"} =>
    \A s \in Senders : LET m == message[s] IN
      sender[s] = "deliver" /\ m.dst \in ProcIds =>
        m.dst \in Within(s, m.hops) /\ (m.hops > 0 => m.dst \notin Within(s, m.hops - 1))

\* Every call of sendMessage returns: a sender waiting for the bus is woken.
SendReturns == \A s \in Senders : sender[s] # "idle" ~> sender[s] = "idle"
=============================================================================
