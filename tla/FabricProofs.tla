---------------------------- MODULE FabricProofs ----------------------------
(***************************************************************************)
(* What connects the processors, for any number of them.  The parallel     *)
(* replay of traces computes the maximum; the bus excludes, messages of    *)
(* one source arrive in order and once, and the hops charged are those of  *)
(* a shortest route; the three snooping protocols have one writer, lose no *)
(* write and give the permissions of CoherenceSpec.                        *)
(***************************************************************************)
EXTENDS ParallelTraces, Interconnect, CoherenceProtocol, WellFoundedInduction, TLAPS

(* Parallel replay: the compare-and-exchange loop of simulateParallelTraces. *)

\* maxCycles bounds the time of every thread that has left its loop, and what
\* a thread has loaded of it; unless nobody raised it, it is the time of a
\* thread that has left.  What was returned is the final value.
IInv ==
  /\ TypeOK
  /\ \A p \in Procs : pc[p] = "exit" => localCycles[p] <= maxCycles
  /\ \A p \in Procs : pc[p] = "cas" => current[p] <= maxCycles
  /\ maxCycles = 0 \/ \E p \in Procs : pc[p] = "exit" /\ localCycles[p] = maxCycles
  /\ result # -1 => AllJoined /\ result = maxCycles

\* The invariant holds before any thread has run.
LEMMA InitIInv == Init => IInv
BY TracesAssumption DEF Init, IInv, TypeOK, Steps

\* Every step keeps the invariant.
LEMMA NextIInv == IInv /\ [Next]_vars => IInv'
<1> SUFFICES ASSUME IInv, [Next]_vars PROVE IInv'
  OBVIOUS
<1> USE TracesAssumption DEF IInv, TypeOK, Steps, Goto, AllJoined
<1>1. ASSUME NEW p \in Procs, NEW latency \in Latencies, Access(p, latency)
      PROVE  IInv'
  <2>1. localCycles' \in [Procs -> Nat] /\ length' \in [Procs -> 0..MaxAccesses]
    BY <1>1 DEF Access
  <2>2. \A q \in Procs : pc[q] = "exit" => localCycles'[q] = localCycles[q]
    BY <1>1 DEF Access
  <2> QED BY <1>1, <2>1, <2>2 DEF Access
<1>2. ASSUME NEW p \in Procs, EndOfTrace(p)
      PROVE  IInv'
  BY <1>2 DEF EndOfTrace
<1>3. ASSUME NEW p \in Procs, Load(p)
      PROVE  IInv'
  BY <1>3 DEF Load
<1>4. ASSUME NEW p \in Procs, NotLarger(p)
      PROVE  IInv'
  <2>1. localCycles[p] <= maxCycles
    BY <1>4 DEF NotLarger
  <2> QED BY <1>4, <2>1 DEF NotLarger
<1>5. ASSUME NEW p \in Procs, Exchange(p)
      PROVE  IInv'
  <2>1. maxCycles < maxCycles' /\ maxCycles' = localCycles'[p] /\ pc'[p] = "exit"
    BY <1>5 DEF Exchange, Matches
  <2> QED BY <1>5, <2>1 DEF Exchange
<1>6. ASSUME NEW p \in Procs, FailedExchange(p)
      PROVE  IInv'
  BY <1>6 DEF FailedExchange, Reload
<1>7. CASE Join
  BY <1>7 DEF Join
<1>8. CASE Returned \/ UNCHANGED vars
  BY <1>8 DEF Returned, vars
<1> QED BY <1>1, <1>2, <1>3, <1>4, <1>5, <1>6, <1>7, <1>8 DEF Next, Thread

\* simulateParallelTraces returns the time of the slowest processor.
THEOREM LongestIsReturned == Spec => []ResultIsLongest
<1>1. IInv => ResultIsLongest
  BY DEF IInv, TypeOK, AllJoined, ResultIsLongest
<1> QED BY <1>1, InitIInv, NextIInv, PTL DEF Spec

\* The races of the threads never lower maxCycles.
THEOREM MaximumNeverLowered == Spec => NeverLowered
<1>1. IInv /\ [Next]_vars => [maxCycles' >= maxCycles]_vars
  <2> SUFFICES ASSUME IInv, Next PROVE maxCycles' >= maxCycles
    BY DEF vars
  <2>1. maxCycles \in Nat
    BY DEF IInv, TypeOK
  <2>2. ASSUME NEW p \in Procs, Exchange(p) PROVE maxCycles' >= maxCycles
    BY <2>2 DEF IInv, TypeOK, Exchange, Matches
  <2>3. ASSUME NEW p \in Procs, Thread(p), ~Exchange(p) PROVE UNCHANGED maxCycles
    BY <2>3 DEF Thread, Access, EndOfTrace, Load, NotLarger, FailedExchange
  <2>4. Join \/ Returned => UNCHANGED maxCycles
    BY DEF Join, Returned, vars
  <2> QED BY <2>1, <2>2, <2>3, <2>4 DEF Next
<1> QED BY <1>1, InitIInv, NextIInv, PTL DEF Spec, NeverLowered

-----------------------------------------------------------------------------
(* Snooping protocols *)

\* A Modified or Exclusive copy is the only one.
SoleCopies ==
  \A c, d \in Caches : c # d /\ state[c] \in {"Modified", "Exclusive"} => state[d] = "Invalid"

\* LatestIsKept needs SoleCopies: a silent write makes every other copy stale.
SnoopInv == SnoopTypeOK /\ SoleCopies /\ LatestIsKept

\* The invariant holds while no cache has the line.
LEMMA SnoopInitially == SnoopInit => SnoopInv
  BY DEF SnoopInit, SnoopInv, SnoopTypeOK, SoleCopies, LatestIsKept, StatesOf, Protocols,
         Dirty, requiresWriteback, isValid

USE DEF Protocols, StatesOf, isValid, requiresWriteback

\* What the three classes have in common.  A read keeps a copy that is valid, and
\* a fetched one is Shared if another cache has a copy.
LEMMA LocalRead ==
  ASSUME SnoopTypeOK, NEW c \in Caches
  PROVE  LET s == handleLocalRead(protocol, state[c], SharedCopy(c))
         IN  /\ state[c] # "Invalid" => s = state[c]
             /\ state[c] = "Invalid" => s \in StatesOf(protocol) \cap {"Shared", "Exclusive"}
             /\ state[c] = "Invalid" /\ SharedCopy(c) => s = "Shared"
  BY DEF handleLocalRead, MSILocalRead, MESILocalRead, MOESILocalRead, SnoopTypeOK

\* A write always ends in Modified.
LEMMA LocalWrite ==
  ASSUME NEW p \in Protocols, NEW s \in StatesOf(p)
  PROVE  handleLocalWrite(p, s) = "Modified"
  BY DEF handleLocalWrite, MSILocalWrite, MESILocalWrite, MOESILocalWrite

\* The write of another cache ends in Invalid.
LEMMA RemoteWrite ==
  ASSUME NEW p \in Protocols, NEW s \in StatesOf(p)
  PROVE  handleRemoteWrite(p, s) = "Invalid"
  BY DEF handleRemoteWrite, MSIRemoteWrite, MESIRemoteWrite, MOESIRemoteWrite

\* The read of another cache takes a sole copy away and no copy, and makes no
\* cache responsible for a write-back.
LEMMA RemoteRead ==
  ASSUME NEW p \in Protocols, NEW s \in StatesOf(p)
  PROVE  /\ handleRemoteRead(p, s) \in StatesOf(p)
         /\ handleRemoteRead(p, s) = "Invalid" <=> s = "Invalid"
         /\ handleRemoteRead(p, s) \notin {"Modified", "Exclusive"}
         /\ s \notin {"Modified", "Exclusive"} => handleRemoteRead(p, s) = s
         /\ requiresWriteback(p, handleRemoteRead(p, s)) => requiresWriteback(p, s)
         /\ PermissionOf(handleRemoteRead(p, s)) =
              IF PermissionOf(s) \in {"Modified", "Exclusive"} THEN "Shared" ELSE PermissionOf(s)
  BY DEF handleRemoteRead, MSIRemoteRead, MESIRemoteRead, MOESIRemoteRead, PermissionOf

\* Every step of a cache, with what the bus makes of it, keeps the invariant.
LEMMA SnoopStep == SnoopInv /\ [SnoopNext]_snoopVars => SnoopInv'
<1> SUFFICES ASSUME SnoopInv, [SnoopNext]_snoopVars PROVE SnoopInv'
  OBVIOUS
<1> USE DEF SnoopInv, SnoopTypeOK, SoleCopies, LatestIsKept, Dirty
<1>1. ASSUME NEW c \in Caches, ReadHit(c)
      PROVE  SnoopInv'
  <2>1. handleLocalRead(protocol, state[c], SharedCopy(c)) = state[c]
    BY <1>1, LocalRead DEF ReadHit
  <2>2. state' = state
    BY <1>1, <2>1 DEF ReadHit
  <2> QED BY <1>1, <2>2 DEF ReadHit
<1>2. ASSUME NEW c \in Caches, ReadMiss(c)
      PROVE  SnoopInv'
  <2>1. /\ state'[c] \in StatesOf(protocol) \cap {"Shared", "Exclusive"}
        /\ SharedCopy(c) => state'[c] = "Shared"
    BY <1>2, LocalRead DEF ReadMiss
  <2>2. ASSUME NEW d \in Caches, d # c
        PROVE  /\ state'[d] = handleRemoteRead(protocol, state[d])
               /\ state'[d] \in StatesOf(protocol) \ {"Modified", "Exclusive"}
               /\ state'[d] = "Invalid" <=> state[d] = "Invalid"
               /\ requiresWriteback(protocol, state'[d]) => requiresWriteback(protocol, state[d])
    BY <1>2, <2>2, RemoteRead DEF ReadMiss
  <2>3. SnoopTypeOK'
    BY <1>2, <2>1, <2>2 DEF ReadMiss, FetchIsCurrent, MemoryAfter
  <2>4. SoleCopies'
    BY <1>2, <2>1, <2>2 DEF ReadMiss, SharedCopy
  <2>5. FetchIsCurrent
    BY DEF FetchIsCurrent
  <2>6. LatestIsKept'
    <3>1. \A d \in Caches : isValid(state'[d]) => d \in upToDate'
      BY <1>2, <2>2, <2>5 DEF ReadMiss
    <3>2. Dirty' = {} => memoryCurrent'
      BY <1>2, <2>1, <2>2, <2>5 DEF ReadMiss, MemoryAfter
    <3>3. \A d, e \in Dirty' : d = e
      BY <1>2, <2>1, <2>2 DEF ReadMiss
    <3> QED BY <3>1, <3>2, <3>3
  <2> QED BY <2>3, <2>4, <2>6
<1>3. ASSUME NEW c \in Caches, WriteSilently(c)
      PROVE  SnoopInv'
  <2>1. \A d \in Caches \ {c} : state[d] = "Invalid"
    BY <1>3 DEF WriteSilently
  <2>2. state' = [d \in Caches |-> IF d = c THEN "Modified" ELSE "Invalid"]
    <3>1. handleLocalWrite(protocol, state[c]) = "Modified"
      BY LocalWrite
    <3>2. state' = [state EXCEPT ![c] = "Modified"]
      BY <1>3, <3>1 DEF WriteSilently
    <3> QED BY <2>1, <3>2
  <2>3. c \in upToDate
    BY <1>3 DEF WriteSilently
  <2>4. SnoopTypeOK' /\ SoleCopies'
    BY <1>3, <2>2 DEF WriteSilently
  <2>5. Dirty' = {c}
    BY <1>3, <2>2 DEF WriteSilently
  <2>6. \A d \in Caches : isValid(state'[d]) => d \in upToDate'
    BY <1>3, <2>2, <2>3 DEF WriteSilently
  <2> QED BY <2>4, <2>5, <2>6
<1>4. ASSUME NEW c \in Caches, WriteOnBus(c)
      PROVE  SnoopInv'
  <2>1. state' = [d \in Caches |-> IF d = c THEN "Modified" ELSE "Invalid"]
    BY <1>4, LocalWrite, RemoteWrite DEF WriteOnBus
  <2>2. FetchIsCurrent
    BY DEF FetchIsCurrent
  <2>3. SnoopTypeOK' /\ SoleCopies'
    BY <1>4, <2>1 DEF WriteOnBus
  <2>4. Dirty' = {c}
    BY <1>4, <2>1 DEF WriteOnBus
  <2>5. \A d \in Caches : isValid(state'[d]) => d \in upToDate'
    BY <1>4, <2>1, <2>2 DEF WriteOnBus
  <2> QED BY <2>3, <2>4, <2>5
<1>5. ASSUME NEW c \in Caches, Evict(c)
      PROVE  SnoopInv'
  BY <1>5 DEF Evict, handleEviction, MemoryAfter
<1>6. CASE UNCHANGED snoopVars
  BY <1>6 DEF snoopVars
<1> QED BY <1>1, <1>2, <1>3, <1>4, <1>5, <1>6 DEF SnoopNext

\* For any number of caches, a Modified or Exclusive copy is the only one and
\* one cache at most owes a write-back.
THEOREM CopiesAreSole == SnoopSpec => []SoleCopies
BY SnoopInitially, SnoopStep, PTL DEF SnoopSpec, SnoopInv

\* For any number of caches, no copy that can be read is out of date and no
\* write is forgotten.
THEOREM NoWriteForgotten == SnoopSpec => []LatestIsKept
BY SnoopInitially, SnoopStep, PTL DEF SnoopSpec, SnoopInv

\* The three protocol classes implement the permissions of CoherenceSpec: a
\* fetch is a Read, a write a Write, an eviction a Drop.
THEOREM SnoopRefinement == SnoopSpec => SnoopImplementsCoherenceSpec
<1> USE DEF PermissionOf
<1>1. SnoopInit => SnoopAbstract!Init
  BY DEF SnoopInit, SnoopAbstract!Init, Permissions
<1>2. ASSUME SnoopInv, [SnoopNext]_snoopVars
      PROVE  [SnoopAbstract!Next]_Permissions
  <2> USE <1>2 DEF SnoopInv, SnoopTypeOK
  <2> DEFINE Become(view) == Permissions' = [Permissions EXCEPT !["line"] = view]
  <2>0. \A view : view = [c \in Caches |-> PermissionOf(state'[c])] => Become(view)
    BY DEF Permissions
  <2> HIDE DEF Become
  <2>1. ASSUME NEW c \in Caches, ReadHit(c)
        PROVE  UNCHANGED Permissions
    <3>1. handleLocalRead(protocol, state[c], SharedCopy(c)) = state[c]
      BY <2>1, LocalRead DEF ReadHit
    <3>2. state' = state
      BY <2>1, <3>1 DEF ReadHit
    <3> QED BY <3>2 DEF Permissions
  <2>2. ASSUME NEW c \in Caches, ReadMiss(c)
        PROVE  SnoopAbstract!Read(c, "line")
    <3> DEFINE g == state'[c]
               view == [d \in Caches |->
                          IF d = c THEN g
                          ELSE IF Permissions["line"][d] \in {"Modified", "Exclusive"} THEN "Shared"
                          ELSE Permissions["line"][d]]
    <3>1. g \in {"Shared", "Exclusive"} /\ (SharedCopy(c) => g = "Shared")
      BY <2>2, LocalRead DEF ReadMiss
    <3>2. \A d \in Caches \ {c} : PermissionOf(state'[d]) =
            IF PermissionOf(state[d]) \in {"Modified", "Exclusive"} THEN "Shared" ELSE PermissionOf(state[d])
      BY <2>2, RemoteRead DEF ReadMiss
    <3>3. \A d \in Caches : Permissions["line"][d] = PermissionOf(state[d])
      BY DEF Permissions
    <3>4. view = [d \in Caches |-> PermissionOf(state'[d])]
      BY <3>1, <3>2, <3>3
    <3>5. Become(view)
      BY <3>4, <2>0
    <3>6. g \in {"Modified", "Exclusive"} => \A d \in Caches \ {c} : Permissions["line"][d] = "Invalid"
      BY <3>1, <3>3 DEF SharedCopy
    <3> QED BY <3>1, <3>5, <3>6
            DEF SnoopAbstract!Read, SnoopAbstract!SetLine, SnoopAbstract!MESI, SnoopAbstract!Sole, Become
  <2>3. ASSUME NEW c \in Caches, WriteSilently(c) \/ WriteOnBus(c)
        PROVE  SnoopAbstract!Write(c, "line")
    <3>1. state' = [d \in Caches |-> IF d = c THEN "Modified" ELSE "Invalid"]
      BY <2>3, LocalWrite, RemoteWrite DEF WriteSilently, WriteOnBus, SoleCopies
    <3>2. Become([d \in Caches |-> IF d = c THEN "Modified" ELSE "Invalid"])
      BY <2>0, <3>1
    <3> QED BY <3>2 DEF SnoopAbstract!Write, SnoopAbstract!SetLine, Become
  <2>4. ASSUME NEW c \in Caches, Evict(c)
        PROVE  SnoopAbstract!Drop(c, "line")
    <3>1. [Permissions["line"] EXCEPT ![c] = "Invalid"] = [d \in Caches |-> PermissionOf(state'[d])]
      BY <2>4 DEF Evict, handleEviction, Permissions
    <3>2. Become([Permissions["line"] EXCEPT ![c] = "Invalid"])
      BY <2>0, <3>1
    <3> QED BY <3>2 DEF SnoopAbstract!Drop, SnoopAbstract!SetLine, Become
  <2>5. CASE UNCHANGED snoopVars
    BY <2>5 DEF snoopVars, Permissions
  <2> QED BY <2>1, <2>2, <2>3, <2>4, <2>5 DEF SnoopNext, SnoopAbstract!Next
<1> QED BY <1>1, <1>2, SnoopInitially, SnoopStep, PTL
        DEF SnoopSpec, SnoopImplementsCoherenceSpec, SnoopAbstract!Spec

-----------------------------------------------------------------------------
(* Arbitration of the bus *)

OnBus == {"transmit", "release"}
SenderSteps == OnBus \cup {"idle", "arbitrate", "asleep", "port", "push", "free", "deliver"}

BusInv ==
  /\ sender \in [Senders -> SenderSteps]
  /\ busOccupied \in BOOLEAN
  /\ BusExclusive

\* Nobody sends at first.
LEMMA BusInitially == NetInit => BusInv
BY DEF NetInit, BusInv, BusExclusive, SenderSteps, OnBus

\* A step of sender s that neither takes nor leaves the bus.
LEMMA AwayFromBus ==
  ASSUME BusInv, NEW s \in Senders, NEW to \in SenderSteps,
         sender' = [sender EXCEPT ![s] = to], busOccupied' = busOccupied,
         sender[s] \in OnBus <=> to \in OnBus
  PROVE  BusInv'
BY DEF BusInv, BusExclusive, SenderSteps, OnBus

\* Every step keeps the invariant.
LEMMA BusStep == BusInv /\ [NetNext]_netVars => BusInv'
<1> SUFFICES ASSUME BusInv, [NetNext]_netVars PROVE BusInv'
  OBVIOUS
<1> USE DEF SenderSteps, OnBus
<1>1. ASSUME NEW s \in Senders, NEW d \in Destinations, Call(s, d)
      PROVE  BusInv'
  <2>1. PICK to \in SenderSteps \ OnBus : At(s, "idle", to)
    BY <1>1 DEF Call
  <2> QED BY <1>1, <2>1, AwayFromBus DEF Call, At
<1>2. ASSUME NEW s \in Senders, Arbitrate(s)
      PROVE  BusInv'
  <2>1. CASE busOccupied
    BY <1>2, <2>1, AwayFromBus DEF Arbitrate, At, BusInv
  <2>2. CASE ~busOccupied
    BY <1>2, <2>2 DEF Arbitrate, At, BusInv, BusExclusive
  <2> QED BY <2>1, <2>2
<1>3. ASSUME NEW s \in Senders, Release(s)
      PROVE  BusInv'
  <2>1. \A t \in Senders : sender'[t] \notin OnBus
    BY <1>3 DEF Release, NotifyOne, BusInv, BusExclusive
  <2>2. sender' \in [Senders -> SenderSteps]
    BY <1>3 DEF Release, NotifyOne, BusInv
  <2> QED BY <1>3, <2>1, <2>2 DEF Release, BusInv, BusExclusive
<1>4. ASSUME NEW s \in Senders,
             \/ Transmit(s) \/ TakePort(s) \/ Push(s) \/ FreePort(s) \/ DeliverAtOnce(s)
             \/ SpuriousWakeup(s)
      PROVE  BusInv'
  <2>1. PICK from \in SenderSteps, to \in SenderSteps :
          At(s, from, to) /\ (from \in OnBus <=> to \in OnBus) /\ busOccupied' = busOccupied
    BY <1>4 DEF Transmit, TakePort, Push, FreePort, DeliverAtOnce, SpuriousWakeup
  <2> QED BY <2>1, AwayFromBus DEF At
<1>5. CASE UNCHANGED netVars \/ \E d \in Receivers : receiveMessage(d)
  <2>1. sender' = sender /\ busOccupied' = busOccupied
    BY <1>5 DEF netVars, receiveMessage
  <2> QED BY <2>1 DEF BusInv, BusExclusive
<1> QED BY <1>1, <1>2, <1>3, <1>4, <1>5 DEF NetNext, Send, NetDone

\* For any number of senders, one at most transmits on the bus, and the bus is
\* occupied exactly while one does.
THEOREM BusIsExclusive == NetSpec => []BusExclusive
BY BusInitially, BusStep, PTL DEF NetSpec, BusInv

-----------------------------------------------------------------------------
(* The ports of the crossbar *)

AtPort == {"push", "free"}

PortInv ==
  /\ sender \in [Senders -> SenderSteps] /\ DOMAIN message = Senders
  /\ portOccupied \in [ProcIds -> BOOLEAN]
  /\ PortsAreReleased

\* Every port is free at first.
LEMMA PortsInitially == NetInit => PortInv
BY DEF NetInit, PortInv, PortsAreReleased, SenderSteps

\* A step after which every sender that was at its port still is, with the same
\* message, and no further port is occupied.
LEMMA AwayFromPorts ==
  ASSUME PortInv, sender' \in [Senders -> SenderSteps], DOMAIN message' = Senders,
         portOccupied' = portOccupied,
         \A s \in Senders : sender[s] \in AtPort =>
           sender'[s] \in AtPort /\ message'[s] = message[s]
  PROVE  PortInv'
BY DEF PortInv, PortsAreReleased, AtPort

\* Every step keeps the invariant.
LEMMA PortStep == PortInv /\ [NetNext]_netVars => PortInv'
<1> SUFFICES ASSUME PortInv, [NetNext]_netVars PROVE PortInv'
  OBVIOUS
<1> USE DEF SenderSteps, OnBus, AtPort
<1>1. ASSUME NEW s \in Senders, NEW d \in Destinations, Call(s, d)
      PROVE  PortInv'
  <2>1. PICK to \in SenderSteps : At(s, "idle", to)
    BY <1>1 DEF Call
  <2>2. DOMAIN message' = Senders /\ \A t \in Senders \ {s} : message'[t] = message[t]
    BY <1>1 DEF Call, PortInv
  <2>3. portOccupied' = portOccupied
    BY <1>1 DEF Call
  <2> QED BY <2>1, <2>2, <2>3, AwayFromPorts DEF At, PortInv
<1>2. ASSUME NEW s \in Senders, TakePort(s)
      PROVE  PortInv'
  <2>1. sender' = [sender EXCEPT ![s] = "push"] /\ message' = message
    BY <1>2 DEF TakePort, At
  <2>2. portOccupied' = [portOccupied EXCEPT ![message[s].dst] = TRUE]
    BY <1>2 DEF TakePort
  <2>3. PortsAreReleased'
    <3> SUFFICES ASSUME NEW d \in ProcIds, portOccupied'[d]
                 PROVE  \E t \in Senders : sender'[t] \in AtPort /\ message'[t].dst = d
      BY DEF PortsAreReleased
    <3>1. CASE d = message[s].dst
      BY <2>1, <3>1 DEF PortInv
    <3>2. CASE d # message[s].dst
      BY <2>1, <2>2, <3>2 DEF PortInv, PortsAreReleased
    <3> QED BY <3>1, <3>2
  <2> QED BY <2>1, <2>2, <2>3 DEF PortInv
<1>3. ASSUME NEW s \in Senders, FreePort(s)
      PROVE  PortInv'
  <2>1. sender' = [sender EXCEPT ![s] = "idle"] /\ message' = message
    BY <1>3 DEF FreePort, At
  <2>2. portOccupied' = [portOccupied EXCEPT ![message[s].dst] = FALSE]
    BY <1>3 DEF FreePort
  <2>3. PortsAreReleased'
    <3> SUFFICES ASSUME NEW d \in ProcIds, portOccupied'[d]
                 PROVE  \E t \in Senders : sender'[t] \in AtPort /\ message'[t].dst = d
      BY DEF PortsAreReleased
    <3>1. d # message[s].dst /\ portOccupied[d]
      BY <2>2 DEF PortInv
    <3>2. PICK t \in Senders : sender[t] \in AtPort /\ message[t].dst = d
      BY <3>1 DEF PortInv, PortsAreReleased
    <3> QED BY <2>1, <3>1, <3>2 DEF PortInv
  <2> QED BY <2>1, <2>2, <2>3 DEF PortInv
<1>4. ASSUME NEW s \in Senders, Release(s)
      PROVE  PortInv'
  <2>1. sender' \in [Senders -> SenderSteps]
    BY <1>4 DEF Release, NotifyOne, PortInv
  <2>2. \A t \in Senders : sender[t] \in AtPort => sender'[t] = sender[t]
    BY <1>4 DEF Release, NotifyOne, PortInv
  <2>3. portOccupied' = portOccupied /\ message' = message
    BY <1>4 DEF Release
  <2> QED BY <2>1, <2>2, <2>3, AwayFromPorts DEF PortInv
<1>5. ASSUME NEW s \in Senders,
             \/ Arbitrate(s) \/ Transmit(s) \/ Push(s) \/ DeliverAtOnce(s) \/ SpuriousWakeup(s)
      PROVE  PortInv'
  <2>1. PICK from \in SenderSteps, to \in SenderSteps :
          At(s, from, to) /\ (from \in AtPort => to \in AtPort)
    BY <1>5 DEF Arbitrate, Transmit, Push, DeliverAtOnce, SpuriousWakeup
  <2>2. portOccupied' = portOccupied /\ message' = message
    BY <1>5 DEF Arbitrate, Transmit, Push, DeliverAtOnce, SpuriousWakeup
  <2> QED BY <2>1, <2>2, AwayFromPorts DEF At, PortInv
<1>6. CASE UNCHANGED netVars \/ \E d \in Receivers : receiveMessage(d)
  <2>1. UNCHANGED <<sender, message, portOccupied>>
    BY <1>6 DEF netVars, receiveMessage
  <2> QED BY <2>1, AwayFromPorts DEF PortInv
<1> QED BY <1>1, <1>2, <1>3, <1>4, <1>5, <1>6 DEF NetNext, Send, NetDone

\* For any number of senders and processors, an occupied port of the crossbar
\* has a sender that is still to release it.
THEOREM CrossbarPortsAreReleased == NetSpec => []PortsAreReleased
BY PortsInitially, PortStep, PTL DEF NetSpec, PortInv

-----------------------------------------------------------------------------
(* Order of delivery.  A message that is not delivered yet has a number that  *)
(* nothing queued or received from its source has.                            *)

Hops == {HopCount(s, d) : s \in Senders, d \in Destinations}
Messages == [src : Senders, dst : Destinations, number : Nat, hops : Hops]

Undelivered == {"arbitrate", "asleep", "transmit", "port", "push", "deliver"}

\* Whether n can be the number of a message that s has delivered.
Sent(s, n) == IF sender[s] \in Undelivered THEN n < message[s].number ELSE n <= message[s].number

MessagesFit ==
  /\ DOMAIN message = Senders
  /\ \A s \in Senders : /\ message[s].number \in Nat
                        /\ sender[s] # "idle" => message[s] \in Messages /\ message[s].src = s

QueuesFit ==
  /\ queues \in [QueueKeys -> Seq(Messages)]
  /\ \A k \in QueueKeys : \A i \in DOMAIN queues[k] :
       /\ queues[k][i].dst \in Receivers /\ k = QueueOf(queues[k][i])
       /\ Sent(queues[k][i].src, queues[k][i].number)

ReceivedFits ==
  /\ received \in [Receivers -> [Senders -> Nat]]
  /\ \A d \in Receivers : \A s \in Senders : Sent(s, received[d][s])

OrderInv ==
  /\ sender \in [Senders -> SenderSteps]
  /\ MessagesFit /\ QueuesFit /\ ReceivedFits /\ InOrderOnce

\* A set of natural numbers that is not empty has a least element, and it is
\* what Min returns.
LEMMA LeastOf ==
  ASSUME NEW S \in SUBSET Nat, S # {}
  PROVE  Min(S) \in S /\ \A y \in S : Min(S) <= y
<1>1. PICK x \in S : \A y \in S : ~(<<y, x>> \in OpToRel(<, Nat))
  BY NatLessThanWellFounded, WFMin, Zenon
<1>2. \A y \in S : ~(y < x)
  BY <1>1 DEF OpToRel
<1>3. \A y \in S : x <= y
  BY <1>2
<1> QED BY <1>3 DEF Min

\* Nothing is sent at first.
LEMMA OrderInitially == NetInit => OrderInv
<1> SUFFICES ASSUME NetInit PROVE OrderInv
  OBVIOUS
<1>1. sender = [s \in Senders |-> "idle"] /\ message = [s \in Senders |-> NoMessage]
  BY DEF NetInit
<1>2. sender \in [Senders -> SenderSteps] /\ MessagesFit
  BY <1>1 DEF SenderSteps, MessagesFit, NoMessage
<1>3. queues = [k \in QueueKeys |-> <<>>]
  BY DEF NetInit
<1>4. QueuesFit /\ InOrderOnce
  BY <1>3 DEF QueuesFit, InOrderOnce
<1>5. ReceivedFits
  BY <1>1 DEF NetInit, ReceivedFits, Sent, NoMessage, Undelivered
<1> QED BY <1>2, <1>4, <1>5 DEF OrderInv

\* A step of a sender that delivers nothing and after which nothing less counts as
\* sent keeps the invariant.
LEMMA NothingDelivered ==
  ASSUME OrderInv, topology' = topology, UNCHANGED <<queues, received>>,
         sender' \in [Senders -> SenderSteps], MessagesFit',
         \A s \in Senders : \A n \in Nat : Sent(s, n) => Sent(s, n)'
  PROVE  OrderInv'
<1>1. Messages' = Messages /\ \A m : QueueOf(m)' = QueueOf(m)
  BY DEF Messages, Hops, HopCount, QueueOf
<1>2. \A k \in QueueKeys : \A i \in DOMAIN queues[k] : queues[k][i] \in Messages
  BY DEF OrderInv, QueuesFit
<1>3. QueuesFit'
  <2> SUFFICES ASSUME NEW k \in QueueKeys, NEW i \in DOMAIN queues[k]
               PROVE  Sent(queues[k][i].src, queues[k][i].number)'
    BY <1>1 DEF OrderInv, QueuesFit
  <2>1. Sent(queues[k][i].src, queues[k][i].number)
    BY DEF OrderInv, QueuesFit
  <2>2. queues[k][i].src \in Senders /\ queues[k][i].number \in Nat
    BY <1>2 DEF Messages
  <2> QED BY <2>1, <2>2 DEF Sent
<1>4. ReceivedFits'
  <2> SUFFICES ASSUME NEW d \in Receivers, NEW s \in Senders PROVE Sent(s, received[d][s])'
    BY DEF OrderInv, ReceivedFits
  <2>1. Sent(s, received[d][s]) /\ received[d][s] \in Nat
    BY DEF OrderInv, ReceivedFits
  <2> QED BY <2>1 DEF Sent
<1> QED BY <1>3, <1>4 DEF OrderInv, InOrderOnce

\* A delivery to the back of the queue of the destination keeps the invariant.
LEMMA DeliveryKeeps ==
  ASSUME OrderInv, NEW s \in Senders, sender[s] \in Undelivered,
         NEW to \in SenderSteps \ Undelivered, sender' = [sender EXCEPT ![s] = to],
         Deliver(message[s]), UNCHANGED <<topology, message, received>>
  PROVE  OrderInv'
<1> DEFINE m == message[s]
           key == QueueOf(m)
<1>1. Messages' = Messages /\ \A x : QueueOf(x)' = QueueOf(x)
  BY DEF Messages, Hops, HopCount, QueueOf
<1>2. m \in Messages /\ m.src = s /\ m.number \in Nat /\ m.dst \in Destinations
  BY DEF OrderInv, MessagesFit, Messages, Undelivered
<1>3. sender' \in [Senders -> SenderSteps]
  BY DEF OrderInv, SenderSteps
<1>4. \A t \in Senders : \A n \in Nat : Sent(t, n) => Sent(t, n)'
  BY DEF Sent, OrderInv, MessagesFit
<1>5. MessagesFit'
  BY <1>1, <1>2 DEF OrderInv, MessagesFit, Undelivered
<1>6. CASE m.dst \notin ProcIds
  <2>1. queues' = queues
    BY <1>6 DEF Deliver
  <2> QED BY <1>3, <1>4, <1>5, <2>1, NothingDelivered
<1>7. CASE m.dst \in ProcIds
  <2> DEFINE q == queues[key]
  <2>1. m.dst \in Receivers /\ key \in QueueKeys /\ key[2] = m.dst
    BY <1>2, <1>7 DEF Receivers, QueueKeys, QueueOf
  <2>2. queues' = [queues EXCEPT ![key] = Append(q, m)]
    BY <1>7 DEF Deliver
  <2>3. q \in Seq(Messages)
    BY <2>1 DEF OrderInv, QueuesFit
  <2> HIDE DEF m, key, q
  <2>4. /\ Append(q, m) \in Seq(Messages) /\ DOMAIN Append(q, m) = 1..(Len(q) + 1)
        /\ DOMAIN q = 1..Len(q) /\ Len(q) \in Nat
        /\ Append(q, m)[Len(q) + 1] = m /\ \A i \in 1..Len(q) : Append(q, m)[i] = q[i]
    BY <1>2, <2>3
  <2>5. /\ queues' \in [QueueKeys -> Seq(Messages)] /\ queues'[key] = Append(q, m)
        /\ \A k \in QueueKeys : k # key => queues'[k] = queues[k]
    BY <2>1, <2>2, <2>4 DEF OrderInv, QueuesFit
  \* A queued message is an old one in its old place, or the new one at the end.
  <2>6. \A k \in QueueKeys : \A i \in DOMAIN queues'[k] :
          \/ i \in DOMAIN queues[k] /\ queues'[k][i] = queues[k][i]
          \/ k = key /\ i = Len(q) + 1 /\ queues'[k][i] = m
    BY <2>4, <2>5 DEF q
  <2>7. /\ sender'[s] \notin Undelivered /\ message'[s].number = m.number
        /\ \A n \in Nat : Sent(s, n) => n < m.number
    BY <1>2 DEF Sent, OrderInv, m
  <2>8. QueuesFit'
    <3> SUFFICES ASSUME NEW k \in QueueKeys, NEW i \in DOMAIN queues'[k]
                 PROVE  /\ queues'[k][i].dst \in Receivers /\ k = QueueOf(queues'[k][i])
                        /\ Sent(queues[k][i].src, queues[k][i].number)'
      BY <1>1, <2>5 DEF QueuesFit, QueueOf
    <3>1. CASE i \in DOMAIN queues[k] /\ queues'[k][i] = queues[k][i]
      <4>1. /\ queues[k][i].dst \in Receivers /\ k = QueueOf(queues[k][i])
            /\ Sent(queues[k][i].src, queues[k][i].number)
        BY <3>1 DEF OrderInv, QueuesFit
      <4>2. queues[k][i] \in Messages
        BY <3>1 DEF OrderInv, QueuesFit
      <4>3. queues[k][i].src \in Senders /\ queues[k][i].number \in Nat
        BY <4>2 DEF Messages
      <4> QED BY <1>4, <3>1, <4>1, <4>3 DEF Sent
    <3>2. CASE k = key /\ queues'[k][i] = m
      BY <1>2, <2>1, <2>7, <3>2 DEF key, Sent
    <3> QED BY <2>6, <3>1, <3>2
  <2>9. ReceivedFits'
    <3> SUFFICES ASSUME NEW d \in Receivers, NEW t \in Senders PROVE Sent(t, received[d][t])'
      BY DEF OrderInv, ReceivedFits
    <3>1. Sent(t, received[d][t]) /\ received[d][t] \in Nat
      BY DEF OrderInv, ReceivedFits
    <3> QED BY <1>4, <3>1 DEF Sent
  <2>10. InOrderOnce'
    <3> SUFFICES ASSUME NEW k \in QueueKeys, NEW i \in DOMAIN queues'[k]
                 PROVE  /\ queues'[k][i].number > received[k[2]][queues'[k][i].src]
                        /\ \A j \in 1..(i - 1) :
                             queues'[k][j].src = queues'[k][i].src
                               => queues'[k][j].number < queues'[k][i].number
      BY DEF InOrderOnce
    <3>1. CASE i \in DOMAIN queues[k] /\ queues'[k][i] = queues[k][i]
      <4>1. \A j \in 1..(i - 1) : queues'[k][j] = queues[k][j]
        <5>1. queues[k] \in Seq(Messages)
          BY DEF OrderInv, QueuesFit
        <5>2. \A j \in 1..(i - 1) : j \in DOMAIN queues[k]
          BY <3>1, <5>1
        <5> QED BY <2>4, <2>5, <5>2 DEF q
      <4> QED BY <3>1, <4>1 DEF OrderInv, InOrderOnce
    <3>2. CASE k = key /\ i = Len(q) + 1 /\ queues'[k][i] = m
      <4>1. received[k[2]][s] < m.number
        BY <2>1, <2>7, <3>2 DEF OrderInv, ReceivedFits
      <4>2. ASSUME NEW j \in 1..Len(q), q[j].src = s
            PROVE  q[j].number < m.number
        <5>1. q[j] \in Messages /\ Sent(q[j].src, q[j].number)
          BY <2>1, <2>3, <2>4 DEF OrderInv, QueuesFit, q
        <5> QED BY <2>7, <4>2, <5>1 DEF Messages
      <4>3. \A j \in 1..(i - 1) : j \in 1..Len(q) /\ queues'[k][j] = q[j]
        BY <2>4, <2>5, <3>2
      <4>4. queues'[k][i].src = s
        BY <1>2, <3>2 DEF m
      <4> QED BY <3>2, <4>1, <4>2, <4>3, <4>4
    <3> QED BY <2>6, <3>1, <3>2
  <2> QED BY <1>3, <1>5, <2>8, <2>9, <2>10 DEF OrderInv
<1> QED BY <1>6, <1>7

\* A message is taken from the front of its queue.
LEMMA ReceptionKeeps ==
  ASSUME OrderInv, NEW d \in Receivers, receiveMessage(d)
  PROVE  OrderInv'
<1> DEFINE key == <<Source(d), d>>
           q == queues[key]
           h == Head(q)
<1>1. UNCHANGED <<topology, sender, message>>
  BY DEF receiveMessage
<1>2. Messages' = Messages /\ \A x : QueueOf(x)' = QueueOf(x)
  BY <1>1 DEF Messages, Hops, HopCount, QueueOf
<1>3. key \in QueueKeys /\ q # <<>>
  <2> DEFINE S == {k[1] : k \in Inputs(d)}
  <2>1. Inputs(d) # {} /\ Inputs(d) \subseteq QueueKeys
    BY DEF receiveMessage, hasMessages, Inputs
  <2>2. \A k \in QueueKeys : k[1] \in Nat /\ k = <<k[1], k[2]>>
    <3>1. Senders \subseteq Nat /\ Receivers \subseteq Nat
      BY InterconnectAssumption DEF Receivers, ProcIds
    <3> SUFFICES ASSUME NEW k \in QueueKeys PROVE k[1] \in Nat /\ k = <<k[1], k[2]>>
      OBVIOUS
    <3>2. PICK x \in Senders \cup Receivers, y \in Receivers : k = <<x, y>>
      BY DEF QueueKeys
    <3> QED BY <3>1, <3>2
  <2>3. S \in SUBSET Nat /\ S # {}
    BY <2>1, <2>2
  <2>4. Min(S) \in S
    BY <2>3, LeastOf
  <2>5. PICK k \in Inputs(d) : k[1] = Min(S)
    BY <2>4
  <2>6. k = key
    BY <2>1, <2>2, <2>5 DEF Source, Inputs
  <2> QED BY <2>1, <2>5, <2>6 DEF Inputs
<1>4. /\ received' = [received EXCEPT ![d][h.src] = h.number]
      /\ queues' = [queues EXCEPT ![key] = Tail(q)]
  BY DEF receiveMessage, TakeFirst
<1>5. q \in Seq(Messages) /\ Len(q) \in Nat /\ Len(q) > 0 /\ DOMAIN q = 1..Len(q)
  BY <1>3 DEF OrderInv, QueuesFit
<1> HIDE DEF key, q
<1>6. /\ h = q[1] /\ h \in Messages /\ Tail(q) \in Seq(Messages)
      /\ DOMAIN Tail(q) = 1..(Len(q) - 1)
      /\ \A i \in 1..(Len(q) - 1) : Tail(q)[i] = q[i + 1]
  BY <1>5
<1> HIDE DEF h
<1>7. h.src \in Senders /\ h.number \in Nat
  BY <1>6 DEF Messages
<1>8. h.dst \in Receivers /\ key = QueueOf(h) /\ Sent(h.src, h.number)
  BY <1>3, <1>5, <1>6 DEF OrderInv, QueuesFit, q
<1>9. h.dst = d
  BY <1>8 DEF QueueOf, key
<1>10. /\ queues' \in [QueueKeys -> Seq(Messages)] /\ queues'[key] = Tail(q)
       /\ \A k \in QueueKeys : k # key => queues'[k] = queues[k]
  BY <1>3, <1>4, <1>6 DEF OrderInv, QueuesFit
\* What is queued was queued, one place further back if it is in this queue.
<1>11. \A k \in QueueKeys : \A i \in DOMAIN queues'[k] :
         /\ k # key => i \in DOMAIN queues[k] /\ queues'[k][i] = queues[k][i]
         /\ k = key => i + 1 \in DOMAIN queues[k] /\ queues'[k][i] = queues[k][i + 1]
  <2>1. ASSUME NEW i \in DOMAIN Tail(q)
        PROVE  i + 1 \in DOMAIN q /\ Tail(q)[i] = q[i + 1]
    BY <1>5, <1>6
  <2> QED BY <1>10, <2>1 DEF q
<1>12. \A k \in QueueKeys : \A i \in DOMAIN queues'[k] :
         \E j \in DOMAIN queues[k] : queues'[k][i] = queues[k][j]
  BY <1>11
<1>13. received' \in [Receivers -> [Senders -> Nat]]
  BY <1>4, <1>7 DEF OrderInv, ReceivedFits
<1>14. \A e \in Receivers, s \in Senders :
         received'[e][s] = IF e = d /\ s = h.src THEN h.number ELSE received[e][s]
  BY <1>4, <1>7 DEF OrderInv, ReceivedFits
<1>15. QueuesFit'
  <2> SUFFICES ASSUME NEW k \in QueueKeys, NEW i \in DOMAIN queues'[k]
               PROVE  /\ queues'[k][i].dst \in Receivers /\ k = QueueOf(queues'[k][i])
                      /\ Sent(queues[k][i].src, queues[k][i].number)'
    BY <1>1, <1>2, <1>10 DEF QueuesFit, QueueOf
  <2>1. PICK j \in DOMAIN queues[k] : queues'[k][i] = queues[k][j]
    BY <1>12
  <2>2. /\ queues[k][j].dst \in Receivers /\ k = QueueOf(queues[k][j])
        /\ Sent(queues[k][j].src, queues[k][j].number)
    BY DEF OrderInv, QueuesFit
  <2> QED BY <1>1, <2>1, <2>2 DEF Sent
<1>16. ReceivedFits'
  <2> SUFFICES ASSUME NEW e \in Receivers, NEW s \in Senders PROVE Sent(s, received[e][s])'
    BY <1>13 DEF ReceivedFits
  <2>1. Sent(s, received[e][s])
    BY DEF OrderInv, ReceivedFits
  <2> QED BY <1>1, <1>8, <1>14, <2>1 DEF Sent
<1>17. InOrderOnce'
  <2> SUFFICES ASSUME NEW k \in QueueKeys, NEW i \in DOMAIN queues'[k]
               PROVE  /\ queues'[k][i].number > received'[k[2]][queues'[k][i].src]
                      /\ \A j \in 1..(i - 1) :
                           queues'[k][j].src = queues'[k][i].src
                             => queues'[k][j].number < queues'[k][i].number
    BY DEF InOrderOnce
  <2>1. queues[k] \in Seq(Messages) /\ queues'[k] \in Seq(Messages)
    BY <1>10 DEF OrderInv, QueuesFit
  <2>2. \A j \in 1..(i - 1) : j \in DOMAIN queues'[k]
    BY <2>1
  <2>3. CASE k = key
    <3>1. i + 1 \in DOMAIN queues[k] /\ queues'[k][i] = queues[k][i + 1] /\ i \in Nat
      BY <1>11, <2>1, <2>3
    <3>2. /\ queues[k][i + 1].number > received[k[2]][queues[k][i + 1].src]
          /\ \A j \in 1..i : queues[k][j].src = queues[k][i + 1].src
                              => queues[k][j].number < queues[k][i + 1].number
      BY <3>1 DEF OrderInv, InOrderOnce
    <3>3. \A j \in 1..(i - 1) : j + 1 \in 1..i /\ queues'[k][j] = queues[k][j + 1]
      BY <1>11, <2>2, <2>3, <3>1
    <3>4. queues[k][1] = h /\ 1 \in 1..i
      BY <1>6, <2>1, <2>3 DEF q
    <3>5. k[2] = d /\ queues[k][i + 1].src \in Senders
      <4>1. queues[k][i + 1] \in Messages
        BY <2>1, <3>1
      <4> QED BY <2>3, <4>1 DEF key, Messages
    <3>6. queues[k][i + 1].number > received'[k[2]][queues[k][i + 1].src]
      BY <1>14, <3>2, <3>4, <3>5
    <3> QED BY <3>1, <3>2, <3>3, <3>6
  <2>4. CASE k # key
    <3>1. i \in DOMAIN queues[k] /\ queues'[k] = queues[k]
      BY <1>10, <2>4
    <3>2. queues[k][i] \in Messages /\ k = QueueOf(queues[k][i]) /\ queues[k][i].dst \in Receivers
      BY <3>1 DEF OrderInv, QueuesFit
    <3>3. queues[k][i].src \in Senders /\ k[2] = queues[k][i].dst
      BY <3>2 DEF Messages, QueueOf
    <3>4. ~(k[2] = d /\ queues[k][i].src = h.src)
      BY <1>8, <1>9, <2>4, <3>2, <3>3 DEF QueueOf
    <3>5. received'[k[2]][queues[k][i].src] = received[k[2]][queues[k][i].src]
      BY <1>14, <3>2, <3>3, <3>4
    <3> QED BY <3>1, <3>5 DEF OrderInv, InOrderOnce
  <2> QED BY <2>3, <2>4
<1>18. MessagesFit'
  BY <1>1, <1>2 DEF OrderInv, MessagesFit
<1> QED BY <1>1, <1>15, <1>16, <1>17, <1>18 DEF OrderInv

\* Every step keeps the invariant.
LEMMA OrderStep == OrderInv /\ [NetNext]_netVars => OrderInv'
<1> SUFFICES ASSUME OrderInv, [NetNext]_netVars PROVE OrderInv'
  OBVIOUS
<1>1. ASSUME NEW s \in Senders, NEW d \in Destinations, Call(s, d)
      PROVE  OrderInv'
  <2>1. PICK to \in SenderSteps : At(s, "idle", to)
    BY <1>1 DEF Call, SenderSteps, OnBus
  <2>2. /\ message' = [message EXCEPT ![s] = [src |-> s, dst |-> d, number |-> message[s].number + 1,
                                             hops |-> HopCount(s, d)]]
        /\ UNCHANGED <<topology, queues, received>>
    BY <1>1 DEF Call
  <2>3. /\ DOMAIN message = Senders /\ \A t \in Senders : message[t].number \in Nat
        /\ sender \in [Senders -> SenderSteps]
    BY DEF OrderInv, MessagesFit
  <2>4. /\ sender' \in [Senders -> SenderSteps] /\ sender[s] = "idle"
        /\ \A t \in Senders \ {s} : sender'[t] = sender[t]
    BY <2>1, <2>3 DEF At
  <2>5. Messages' = Messages /\ HopCount(s, d) \in Hops
    BY <2>2 DEF Messages, Hops, HopCount
  <2>6. message'[s] \in Messages /\ message'[s].src = s
    BY <2>2, <2>3, <2>5 DEF Messages
  <2>7. /\ message'[s].number = message[s].number + 1
        /\ \A t \in Senders \ {s} : message'[t] = message[t]
        /\ DOMAIN message' = Senders
    BY <2>2, <2>3
  <2>8. MessagesFit'
    BY <2>3, <2>4, <2>5, <2>6, <2>7 DEF OrderInv, MessagesFit
  <2>9. \A t \in Senders : \A n \in Nat : Sent(t, n) => Sent(t, n)'
    BY <2>3, <2>4, <2>7 DEF Sent, Undelivered
  <2> QED BY <2>2, <2>4, <2>8, <2>9, NothingDelivered
<1>2. ASSUME NEW s \in Senders, Transmit(s) \/ Push(s) \/ DeliverAtOnce(s)
      PROVE  OrderInv'
  <2>1. PICK to \in SenderSteps \ Undelivered :
          sender[s] \in Undelivered /\ sender' = [sender EXCEPT ![s] = to]
    BY <1>2 DEF Transmit, Push, DeliverAtOnce, At, SenderSteps, OnBus, Undelivered
  <2>2. Deliver(message[s]) /\ UNCHANGED <<topology, message, received>>
    BY <1>2 DEF Transmit, Push, DeliverAtOnce
  <2> QED BY <2>1, <2>2, DeliveryKeeps
\* The other steps of a sender neither start nor deliver a message.
<1>3. ASSUME UNCHANGED <<topology, message, queues, received>>,
             sender' \in [Senders -> SenderSteps],
             \A s \in Senders : /\ sender'[s] \in Undelivered => sender[s] \in Undelivered
                                /\ sender[s] = "idle" => sender'[s] = "idle"
      PROVE  OrderInv'
  <2>1. message' = message /\ Messages' = Messages
    BY <1>3 DEF Messages, Hops, HopCount
  <2>2. MessagesFit'
    <3> SUFFICES ASSUME NEW s \in Senders, sender'[s] # "idle"
                 PROVE  message[s] \in Messages /\ message[s].src = s
      BY <2>1 DEF OrderInv, MessagesFit
    <3>1. sender[s] # "idle"
      BY <1>3
    <3> QED BY <3>1 DEF OrderInv, MessagesFit
  <2>3. \A t \in Senders : message[t].number \in Nat
    BY DEF OrderInv, MessagesFit
  <2>4. \A t \in Senders : \A n \in Nat : Sent(t, n) => Sent(t, n)'
    BY <1>3, <2>1, <2>3 DEF Sent
  <2> QED BY <1>3, <2>2, <2>4, NothingDelivered
<1>4. ASSUME NEW s \in Senders,
             Arbitrate(s) \/ SpuriousWakeup(s) \/ TakePort(s) \/ FreePort(s)
      PROVE  OrderInv'
  <2>1. PICK from \in SenderSteps, to \in SenderSteps :
          At(s, from, to) /\ (to \in Undelivered => from \in Undelivered) /\ from # "idle"
    BY <1>4 DEF Arbitrate, SpuriousWakeup, TakePort, FreePort, SenderSteps, OnBus, Undelivered
  <2>2. UNCHANGED <<topology, message, queues, received>>
    BY <1>4 DEF Arbitrate, SpuriousWakeup, TakePort, FreePort
  <2>3. sender \in [Senders -> SenderSteps]
    BY DEF OrderInv
  <2> QED BY <1>3, <2>1, <2>2, <2>3 DEF At
<1>5. ASSUME NEW s \in Senders, Release(s)
      PROVE  OrderInv'
  <2>1. sender \in [Senders -> SenderSteps]
    BY DEF OrderInv
  <2>2. sender' \in [Senders -> SenderSteps]
    BY <1>5, <2>1 DEF Release, NotifyOne, SenderSteps, OnBus
  <2>3. \A t \in Senders : /\ sender'[t] \in Undelivered => sender[t] \in Undelivered
                           /\ sender[t] = "idle" => sender'[t] = "idle"
    BY <1>5, <2>1 DEF Release, NotifyOne, Undelivered
  <2>4. UNCHANGED <<topology, message, queues, received>>
    BY <1>5 DEF Release
  <2> QED BY <1>3, <2>2, <2>3, <2>4
<1>6. ASSUME NEW d \in Receivers, receiveMessage(d)
      PROVE  OrderInv'
  BY <1>6, ReceptionKeeps
<1>7. CASE UNCHANGED netVars
  <2>1. UNCHANGED <<topology, sender, message, queues, received>>
    BY <1>7 DEF netVars
  <2> QED BY <1>3, <2>1 DEF OrderInv
<1> QED BY <1>1, <1>2, <1>4, <1>5, <1>6, <1>7 DEF NetNext, Send, NetDone

\* For any number of processors and any traffic, on the bus and in every other
\* topology, messages of one source to one destination are received in the order
\* of sending and once.
THEOREM DeliveredInOrderOnce == NetSpec => []InOrderOnce
BY OrderInitially, OrderStep, PTL DEF NetSpec, OrderInv

-----------------------------------------------------------------------------
(* Hops.  On each topology the hops charged are a distance: zero at the source *)
(* only, at most one more over a link, and one less over some link from any    *)
(* other processor.  A distance counts the links of a shortest path.           *)

\* The smaller of two numbers.
LEMMA LesserOf ==
  ASSUME NEW x \in Nat, NEW y \in Nat
  PROVE  Min({x, y}) = IF x <= y THEN x ELSE y
<1>1. {x, y} \in SUBSET Nat /\ {x, y} # {}
  OBVIOUS
<1>2. Min({x, y}) \in {x, y} /\ \A z \in {x, y} : Min({x, y}) <= z
  BY <1>1, LeastOf
<1> QED BY <1>2

Closer(d, b) == {a \in ProcIds : Linked(a, b) /\ d[a] = d[b] - 1}

Distance(d, s) ==
  /\ d \in [ProcIds -> Nat]
  /\ \A b \in ProcIds : d[b] = 0 <=> b = s
  /\ \A a, b \in ProcIds : Linked(a, b) => d[b] <= d[a] + 1
  /\ \A b \in ProcIds : d[b] > 0 => Closer(d, b) # {}

\* What is within n links of s is what is at a distance of n at most.
LEMMA WithinIsDistance ==
  ASSUME NEW s \in ProcIds, NEW d, Distance(d, s), NEW n \in Nat
  PROVE  Within(s, n) = {b \in ProcIds : d[b] <= n}
<1> DEFINE Grown(R) == R \cup {b \in ProcIds : \E a \in R : Linked(a, b)}
           Round(g, i) == IF i = 0 THEN {s} ELSE Grown(g[i - 1])
           Good(k) == \E g : g = [i \in 0..k |-> Round(g, i)]
           Bad == {k \in 0..n : ~Good(k)}
<1>2. Good(0)
  <2> DEFINE g == [i \in 0..0 |-> {s}]
  <2>1. g = [i \in 0..0 |-> Round(g, i)]
    OBVIOUS
  <2> QED BY <2>1
<1>3. ASSUME NEW k \in 1..n, Good(k - 1)
      PROVE  Good(k)
  <2> HIDE DEF Grown
  <2>1. PICK g : g = [i \in 0..(k - 1) |-> Round(g, i)]
    BY <1>3
  <2>2. PICK h : h = [i \in 0..k |-> IF i = k THEN Round(g, k) ELSE g[i]]
    OBVIOUS
  <2>3. ASSUME NEW i \in 0..k PROVE h[i] = Round(h, i)
    <3>1. i # 0 => h[i - 1] = g[i - 1]
      BY <2>2
    <3>2. Round(h, i) = Round(g, i)
      BY <3>1
    <3>3. h[i] = Round(g, i)
      <4>1. \A j \in 0..(k - 1) : g[j] = Round(g, j)
        BY <2>1
      <4>2. i # k => i \in 0..(k - 1)
        OBVIOUS
      <4> HIDE DEF Round
      <4> QED BY <2>2, <4>1, <4>2
    <3> QED BY <3>2, <3>3
  <2>4. h = [i \in 0..k |-> Round(h, i)]
    <3> HIDE DEF Round
    <3> QED BY <2>2, <2>3
  <2> QED BY <2>4
<1> HIDE DEF Good
<1>4. Good(n)
  <2> SUFFICES ASSUME Bad # {} PROVE FALSE
    OBVIOUS
  <2>1. Bad \in SUBSET Nat
    OBVIOUS
  <2>2. Min(Bad) \in Bad /\ \A y \in Bad : Min(Bad) <= y
    <3> HIDE DEF Bad
    <3> QED BY <2>1, LeastOf
  <2>3. PICK k \in 0..n : ~Good(k) /\ \A y \in Bad : k <= y
    BY <2>2
  <2>4. k # 0
    BY <1>2, <2>3
  <2>5. Good(k - 1)
    BY <2>3, <2>4
  <2> QED BY <1>3, <2>3, <2>4, <2>5
<1>5. \E g : g = [i \in 0..n |-> Round(g, i)]
  BY <1>4 DEF Good
<1> DEFINE f == CHOOSE g : g = [i \in 0..n |-> Round(g, i)]
<1>6. f = [i \in 0..n |-> Round(f, i)]
  BY <1>5, Zenon
<1>7. Within(s, n) = f[n]
  BY Zenon DEF Within
<1> HIDE DEF f
<1> DEFINE Ball(i) == {b \in ProcIds : d[b] <= i}
           Odd == {i \in 0..n : f[i] # Ball(i)}
<1>8. Ball(0) = {s}
  BY DEF Distance
<1>9. ASSUME NEW i \in 1..n PROVE Grown(Ball(i - 1)) = Ball(i)
  <2>1. ASSUME NEW b \in Grown(Ball(i - 1)) PROVE b \in Ball(i)
    <3>0. d \in [ProcIds -> Nat]
      BY DEF Distance
    <3>1. CASE b \in Ball(i - 1)
      BY <3>0, <3>1
    <3>2. CASE b \notin Ball(i - 1)
      <4>1. b \in ProcIds
        BY <2>1
      <4>2. PICK a \in ProcIds : d[a] <= i - 1 /\ Linked(a, b)
        BY <2>1, <3>2
      <4>3. d[b] <= d[a] + 1
        BY <4>1, <4>2 DEF Distance
      <4> QED BY <3>0, <4>1, <4>2, <4>3
    <3> QED BY <3>1, <3>2
  <2>2. ASSUME NEW b \in Ball(i) PROVE b \in Grown(Ball(i - 1))
    <3>0. d \in [ProcIds -> Nat] /\ b \in ProcIds /\ d[b] <= i
      BY DEF Distance
    <3>1. CASE d[b] <= i - 1
      BY <3>0, <3>1
    <3>2. CASE ~(d[b] <= i - 1)
      <4>1. d[b] > 0
        BY <3>0, <3>2
      <4>2. PICK a \in ProcIds : Linked(a, b) /\ d[a] = d[b] - 1
        BY <3>0, <4>1 DEF Distance, Closer
      <4>3. a \in Ball(i - 1)
        BY <3>0, <4>2
      <4> QED BY <3>0, <4>2, <4>3
    <3> QED BY <3>1, <3>2
  <2> QED BY <2>1, <2>2
<1>10. Odd = {}
  <2> SUFFICES ASSUME Odd # {} PROVE FALSE
    OBVIOUS
  <2>1. Odd \in SUBSET Nat
    OBVIOUS
  <2>2. Min(Odd) \in Odd /\ \A y \in Odd : Min(Odd) <= y
    <3> HIDE DEF Odd
    <3> QED BY <2>1, LeastOf
  <2> HIDE DEF Ball, Grown
  <2>3. PICK i \in 0..n : f[i] # Ball(i) /\ \A y \in Odd : i <= y
    BY <2>2
  <2>4. f[i] = Round(f, i)
    <3> HIDE DEF Round
    <3> QED BY <1>6
  <2>5. i # 0
    BY <1>8, <2>3, <2>4
  <2>6. f[i - 1] = Ball(i - 1)
    BY <2>3, <2>5
  <2> QED BY <1>9, <2>3, <2>4, <2>5, <2>6
<1> HIDE DEF Ball
<1>11. f[n] = Ball(n)
  BY <1>10
<1> QED BY <1>7, <1>11 DEF Ball

-----------------------------------------------------------------------------
\* The shorter way around a circle of n places.
Around(n, x, y) == IF Apart(x, y) <= n - Apart(x, y) THEN Apart(x, y) ELSE n - Apart(x, y)

\* It is a distance along the circle.
LEMMA AroundIsDistance ==
  ASSUME NEW n \in Nat \ {0}, NEW s \in 0..(n - 1), NEW b \in 0..(n - 1)
  PROVE  /\ Around(n, s, b) \in Nat /\ (Around(n, s, b) = 0 <=> b = s)
         /\ \A a \in 0..(n - 1) : Apart(a, b) \in {1, n - 1} => Around(n, s, b) <= Around(n, s, a) + 1
         /\ Around(n, s, b) > 0 => \E a \in 0..(n - 1) :
              Apart(a, b) \in {1, n - 1} /\ Around(n, s, a) = Around(n, s, b) - 1
<1>1. Around(n, s, b) \in Nat /\ (Around(n, s, b) = 0 <=> b = s)
  BY DEF Around, Apart
<1>2. ASSUME NEW a \in 0..(n - 1), Apart(a, b) \in {1, n - 1}
      PROVE  Around(n, s, b) <= Around(n, s, a) + 1
  BY <1>2 DEF Around, Apart
<1>3. ASSUME b # s
      PROVE  \E a \in 0..(n - 1) :
               Apart(a, b) \in {1, n - 1} /\ Around(n, s, a) = Around(n, s, b) - 1
  <2> DEFINE before == IF b = 0 THEN n - 1 ELSE b - 1
             after == IF b = n - 1 THEN 0 ELSE b + 1
  <2>1. before \in 0..(n - 1) /\ Apart(before, b) \in {1, n - 1}
    BY <1>3 DEF Apart
  <2>2. after \in 0..(n - 1) /\ Apart(after, b) \in {1, n - 1}
    BY <1>3 DEF Apart
  <2>3. CASE Around(n, s, before) = Around(n, s, b) - 1
    BY <2>1, <2>3
  <2>4. CASE Around(n, s, before) # Around(n, s, b) - 1
    <3>1. Around(n, s, after) = Around(n, s, b) - 1
      BY <1>3, <2>4 DEF Around, Apart
    <3> QED BY <2>2, <3>1
  <2> QED BY <2>3, <2>4
<1> QED BY <1>1, <1>2, <1>3

\* The ring.
LEMMA RingDistance ==
  ASSUME topology = "Ring", NEW s \in ProcIds
  PROVE  Distance([b \in ProcIds |-> HopCount(s, b)], s)
<1> DEFINE d == [b \in ProcIds |-> HopCount(s, b)]
<1>1. NumProcs \in Nat \ {0} /\ ProcIds = 0..(NumProcs - 1)
  BY InterconnectAssumption DEF ProcIds
<1>2. ASSUME NEW b \in ProcIds PROVE d[b] = Around(NumProcs, s, b)
  <2>1. d[b] = ringHops(s, b)
    BY DEF HopCount
  <2> DEFINE c == IF b >= s THEN b - s ELSE NumProcs - s + b
  <2>2. c \in Nat /\ NumProcs - c \in Nat
    BY <1>1
  <2>3. Min({c, NumProcs - c}) = IF c <= NumProcs - c THEN c ELSE NumProcs - c
    BY <2>2, LesserOf
  <2>4. ringHops(s, b) = IF s = b THEN 0 ELSE IF c <= NumProcs - c THEN c ELSE NumProcs - c
    BY <2>3 DEF ringHops
  <2> QED BY <1>1, <2>1, <2>4 DEF Around, Apart
<1>3. \A a, b : Linked(a, b) <=> Apart(a, b) \in {1, NumProcs - 1}
  BY DEF Linked
<1>4. d = [b \in ProcIds |-> d[b]]
  OBVIOUS
<1> HIDE DEF d
<1>5. d \in [ProcIds -> Nat]
  <2>1. \A b \in ProcIds : d[b] \in Nat
    BY <1>1, <1>2, AroundIsDistance
  <2> QED BY <1>4, <2>1
<1>6. \A b \in ProcIds : d[b] = 0 <=> b = s
  BY <1>1, <1>2, AroundIsDistance
<1>7. \A a, b \in ProcIds : Linked(a, b) => d[b] <= d[a] + 1
  <2> SUFFICES ASSUME NEW a \in ProcIds, NEW b \in ProcIds, Linked(a, b)
               PROVE  d[b] <= d[a] + 1
    OBVIOUS
  <2>1. Apart(a, b) \in {1, NumProcs - 1}
    BY <1>3
  <2>2. Around(NumProcs, s, b) <= Around(NumProcs, s, a) + 1
    BY <1>1, <2>1, AroundIsDistance
  <2> QED BY <1>2, <2>2
<1>8. \A b \in ProcIds : d[b] > 0 => Closer(d, b) # {}
  <2> SUFFICES ASSUME NEW b \in ProcIds, d[b] > 0
               PROVE  Closer(d, b) # {}
    OBVIOUS
  <2>1. Around(NumProcs, s, b) > 0
    BY <1>2
  <2>2. PICK a \in ProcIds : /\ Apart(a, b) \in {1, NumProcs - 1}
                             /\ Around(NumProcs, s, a) = Around(NumProcs, s, b) - 1
    BY <1>1, <2>1, AroundIsDistance
  <2>3. d[a] = d[b] - 1
    BY <1>2, <2>2
  <2> QED BY <1>3, <2>2, <2>3 DEF Closer
<1> QED BY <1>5, <1>6, <1>7, <1>8 DEF Distance, d

\* The smallest square that is enough exists, so Width is its side.
LEMMA WidthIsPositive == Width \in Nat \ {0}
<1>1. NumProcs \in Nat \ {0}
  BY InterconnectAssumption
<1> DEFINE S == {w \in 1..NumProcs : w * w >= NumProcs}
<1>2. S \in SUBSET Nat /\ NumProcs \in S
  <2>1. NumProcs * NumProcs >= NumProcs
    BY <1>1
  <2> QED BY <1>1, <2>1
<1>3. Min(S) \in S /\ \A y \in S : Min(S) <= y
  <2> HIDE DEF S
  <2> QED BY <1>2, LeastOf
<1>4. PICK w \in S : \A y \in S : w <= y
  BY <1>3
<1>5. w \in 1..NumProcs /\ w * w >= NumProcs
  BY <1>4
<1>6. (w - 1) * (w - 1) < NumProcs
  <2>1. CASE w = 1
    BY <1>1, <2>1
  <2>2. CASE w # 1
    <3>1. w - 1 \in 1..NumProcs /\ w - 1 \notin S
      BY <1>1, <1>4, <1>5, <2>2
    <3>2. (w - 1) * (w - 1) \in Int
      BY <1>1, <1>5
    <3> QED BY <1>1, <3>1, <3>2
  <2> QED BY <2>1, <2>2
<1>7. Width \in 1..NumProcs
  BY <1>5, <1>6, Zenon DEF Width
<1> QED BY <1>1, <1>7

\* A full grid has a processor at every place, and one only.
LEMMA Grid ==
  ASSUME NumProcs = Width * Height
  PROVE  /\ Height \in Nat \ {0}
         /\ \A b \in ProcIds : X(b) \in 0..(Width - 1) /\ Y(b) \in 0..(Height - 1)
         /\ \A a, b \in ProcIds : X(a) = X(b) /\ Y(a) = Y(b) => a = b
         /\ \A x \in 0..(Width - 1), y \in 0..(Height - 1) : \E b \in ProcIds : X(b) = x /\ Y(b) = y
<1>1. NumProcs \in Nat \ {0} /\ Width \in Nat \ {0} /\ ProcIds = 0..(NumProcs - 1)
  BY InterconnectAssumption, WidthIsPositive DEF ProcIds
<1> HIDE DEF Width
<1>2. Height \in Nat \ {0}
  <2>1. Height \in Int
    BY <1>1 DEF Height
  <2> HIDE DEF Height
  <2>2. Height > 0
    BY <1>1, <2>1
  <2> QED BY <2>1, <2>2
<1> HIDE DEF Height
<1>3. ASSUME NEW k \in Nat
      PROVE  k = Width * Y(k) + X(k) /\ Y(k) \in Nat /\ X(k) \in 0..(Width - 1)
  BY <1>1 DEF X, Y
<1>4. ASSUME NEW q \in Nat, NEW r \in 0..(Width - 1), NEW y \in Nat, NEW x \in 0..(Width - 1),
             Width * q + r = Width * y + x
      PROVE  q = y /\ r = x
  <2>1. ~(q >= y + 1)
    <3> SUFFICES ASSUME q >= y + 1 PROVE FALSE
      OBVIOUS
    <3>1. Width * q >= Width * (y + 1)
      BY <1>1
    <3>2. Width * (y + 1) = Width * y + Width
      BY <1>1
    <3> QED BY <1>1, <1>4, <3>1, <3>2
  <2>2. ~(y >= q + 1)
    <3> SUFFICES ASSUME y >= q + 1 PROVE FALSE
      OBVIOUS
    <3>1. Width * y >= Width * (q + 1)
      BY <1>1
    <3>2. Width * (q + 1) = Width * q + Width
      BY <1>1
    <3> QED BY <1>1, <1>4, <3>1, <3>2
  <2>3. q = y
    BY <2>1, <2>2
  <2> QED BY <1>1, <1>4, <2>3
<1>5. ASSUME NEW b \in ProcIds PROVE X(b) \in 0..(Width - 1) /\ Y(b) \in 0..(Height - 1)
  <2>1. b \in Nat /\ b < Width * Height
    BY <1>1
  <2>2. b = Width * Y(b) + X(b) /\ Y(b) \in Nat /\ X(b) \in 0..(Width - 1)
    BY <1>3, <2>1
  <2>3. ~(Y(b) >= Height)
    <3> SUFFICES ASSUME Y(b) >= Height PROVE FALSE
      OBVIOUS
    <3>1. Width * Y(b) >= Width * Height
      BY <1>1, <1>2, <2>2
    <3> QED BY <1>1, <1>2, <2>1, <2>2, <3>1
  <2> QED BY <1>2, <2>2, <2>3
<1>6. ASSUME NEW a \in ProcIds, NEW b \in ProcIds, X(a) = X(b), Y(a) = Y(b) PROVE a = b
  <2>1. a \in Nat /\ b \in Nat
    BY <1>1
  <2> QED BY <1>3, <1>6, <2>1
<1>7. ASSUME NEW x \in 0..(Width - 1), NEW y \in 0..(Height - 1)
      PROVE  \E b \in ProcIds : X(b) = x /\ Y(b) = y
  <2> DEFINE b == Width * y + x
  <2>1. y \in Nat /\ x \in Nat /\ Width * y \in Nat
    BY <1>1, <1>2
  <2>2. b \in Nat
    BY <2>1
  <2>3. b < Width * Height
    <3>1. y + 1 <= Height
      BY <1>2
    <3>2. Width * (y + 1) <= Width * Height
      BY <1>1, <1>2, <2>1, <3>1
    <3>3. Width * (y + 1) = Width * y + Width
      BY <1>1, <2>1
    <3> QED BY <1>1, <2>1, <3>2, <3>3
  <2>4. b \in ProcIds
    BY <1>1, <2>2, <2>3
  <2>5. b = Width * Y(b) + X(b) /\ Y(b) \in Nat /\ X(b) \in 0..(Width - 1)
    <3> HIDE DEF b
    <3> QED BY <1>3, <2>2
  <2>6. X(b) = x /\ Y(b) = y
    BY <1>4, <2>1, <2>5
  <2> QED BY <2>4, <2>6
<1> QED BY <1>2, <1>5, <1>6, <1>7

\* The mesh.
LEMMA MeshDistance ==
  ASSUME topology = "Mesh", NumProcs = Width * Height, NEW s \in ProcIds
  PROVE  Distance([b \in ProcIds |-> HopCount(s, b)], s)
<1> DEFINE d == [b \in ProcIds |-> HopCount(s, b)]
<1>1. Width \in Nat \ {0} /\ Height \in Nat \ {0}
  BY WidthIsPositive, Grid
<1>2. \A b \in ProcIds : X(b) \in 0..(Width - 1) /\ Y(b) \in 0..(Height - 1)
  BY Grid
<1> HIDE DEF Width, Height
<1>3. ASSUME NEW b \in ProcIds PROVE d[b] = Apart(X(s), X(b)) + Apart(Y(s), Y(b))
  <2> DEFINE n == Apart(X(s), X(b)) + Apart(Y(s), Y(b))
  <2>1. n \in Nat
    BY <1>1, <1>2 DEF Apart
  <2>2. d[b] = Len(calculateRoute(s, b)) - 1
    BY DEF HopCount
  <2> HIDE DEF d
  <2>3. Len(calculateRoute(s, b)) = n + 1
    <3>1. DOMAIN calculateRoute(s, b) = 1..(n + 1)
      BY DEF calculateRoute
    <3>2. calculateRoute(s, b) = [i \in 1..(n + 1) |-> calculateRoute(s, b)[i]]
      BY DEF calculateRoute
    <3> QED BY <2>1, <3>1, <3>2
  <2> QED BY <2>1, <2>2, <2>3
<1>4. \A a, b : Linked(a, b) <=> Apart(X(a), X(b)) + Apart(Y(a), Y(b)) = 1
  BY DEF Linked
<1>5. d = [b \in ProcIds |-> d[b]]
  OBVIOUS
<1> HIDE DEF d
<1>6. d \in [ProcIds -> Nat]
  <2>1. ASSUME NEW b \in ProcIds PROVE d[b] \in Nat
    BY <1>1, <1>2, <1>3 DEF Apart
  <2> QED BY <1>5, <2>1
<1>7. ASSUME NEW b \in ProcIds PROVE d[b] = 0 <=> b = s
  <2>1. d[b] = 0 <=> X(s) = X(b) /\ Y(s) = Y(b)
    <3>1. X(b) \in Int /\ Y(b) \in Int /\ X(s) \in Int /\ Y(s) \in Int
      BY <1>1, <1>2
    <3>2. /\ Apart(X(s), X(b)) \in Nat /\ (Apart(X(s), X(b)) = 0 <=> X(s) = X(b))
          /\ Apart(Y(s), Y(b)) \in Nat /\ (Apart(Y(s), Y(b)) = 0 <=> Y(s) = Y(b))
      BY <3>1 DEF Apart
    <3> QED BY <1>3, <3>2
  <2> QED BY <2>1, Grid
<1>8. ASSUME NEW a \in ProcIds, NEW b \in ProcIds, Linked(a, b) PROVE d[b] <= d[a] + 1
  BY <1>1, <1>2, <1>3, <1>4, <1>8 DEF Apart
<1>9. ASSUME NEW b \in ProcIds, d[b] > 0 PROVE Closer(d, b) # {}
  <2>1. CASE X(b) # X(s)
    <3> DEFINE x == IF X(b) < X(s) THEN X(b) + 1 ELSE X(b) - 1
    <3>1. x \in 0..(Width - 1)
      BY <1>1, <1>2, <2>1
    <3>2. PICK a \in ProcIds : X(a) = x /\ Y(a) = Y(b)
      BY <1>2, <3>1, Grid
    <3>3. Linked(a, b) /\ d[a] = d[b] - 1
      BY <1>1, <1>2, <1>3, <1>4, <2>1, <3>2 DEF Apart
    <3> QED BY <3>3 DEF Closer
  <2>2. CASE X(b) = X(s)
    <3> DEFINE y == IF Y(b) < Y(s) THEN Y(b) + 1 ELSE Y(b) - 1
    <3>0. Y(b) # Y(s)
      BY <1>1, <1>2, <1>3, <1>9, <2>2 DEF Apart
    <3>1. y \in 0..(Height - 1)
      BY <1>1, <1>2, <3>0
    <3>2. PICK a \in ProcIds : X(a) = X(b) /\ Y(a) = y
      BY <1>2, <3>1, Grid
    <3>3. Linked(a, b) /\ d[a] = d[b] - 1
      BY <1>1, <1>2, <1>3, <1>4, <3>0, <3>2 DEF Apart
    <3> QED BY <3>3 DEF Closer
  <2> QED BY <2>1, <2>2
<1> QED BY <1>6, <1>7, <1>8, <1>9 DEF Distance, d

\* The torus.
LEMMA TorusDistance ==
  ASSUME topology = "Torus", NumProcs = Width * Height, NEW s \in ProcIds
  PROVE  Distance([b \in ProcIds |-> HopCount(s, b)], s)
<1> DEFINE d == [b \in ProcIds |-> HopCount(s, b)]
           AcrossRow(b) == Around(Width, X(s), X(b))
           AcrossColumn(b) == Around(Height, Y(s), Y(b))
<1>1. Width \in Nat \ {0} /\ Height \in Nat \ {0}
  BY WidthIsPositive, Grid
<1>2. \A b \in ProcIds : X(b) \in 0..(Width - 1) /\ Y(b) \in 0..(Height - 1)
  BY Grid
<1> HIDE DEF Width, Height
<1>3. ASSUME NEW b \in ProcIds PROVE d[b] = AcrossRow(b) + AcrossColumn(b)
  <2>1. d[b] = torusHops(s, b)
    BY DEF HopCount
  <2> DEFINE dx == Apart(X(s), X(b))
             dy == Apart(Y(s), Y(b))
  <2>2. dx \in Nat /\ Width - dx \in Nat /\ dy \in Nat /\ Height - dy \in Nat
    BY <1>1, <1>2 DEF Apart
  <2>3. torusHops(s, b) = IF s = b THEN 0 ELSE Min({dx, Width - dx}) + Min({dy, Height - dy})
    BY DEF torusHops
  <2>4. s = b => dx = 0 /\ dy = 0
    BY <1>1, <1>2 DEF Apart
  <2> HIDE DEF d, dx, dy
  <2>5. Min({dx, Width - dx}) = IF dx <= Width - dx THEN dx ELSE Width - dx
    BY <2>2, LesserOf
  <2>6. Min({dy, Height - dy}) = IF dy <= Height - dy THEN dy ELSE Height - dy
    BY <2>2, LesserOf
  <2>7. AcrossRow(b) = Min({dx, Width - dx}) /\ AcrossColumn(b) = Min({dy, Height - dy})
    BY <2>5, <2>6 DEF Around, dx, dy
  <2>8. s = b => Min({dx, Width - dx}) + Min({dy, Height - dy}) = 0
    BY <1>1, <2>4, <2>5, <2>6
  <2> QED BY <2>1, <2>3, <2>7, <2>8
<1>4. \A a, b : Linked(a, b) <=> \/ Y(a) = Y(b) /\ Apart(X(a), X(b)) \in {1, Width - 1}
                                 \/ X(a) = X(b) /\ Apart(Y(a), Y(b)) \in {1, Height - 1}
  BY DEF Linked
<1>5. d = [b \in ProcIds |-> d[b]]
  OBVIOUS
<1> HIDE DEF d
<1>6. ASSUME NEW b \in ProcIds
      PROVE  /\ AcrossRow(b) \in Nat /\ (AcrossRow(b) = 0 <=> X(b) = X(s))
             /\ AcrossColumn(b) \in Nat /\ (AcrossColumn(b) = 0 <=> Y(b) = Y(s))
  BY <1>1, <1>2, AroundIsDistance
<1>7. ASSUME NEW a \in ProcIds, NEW b \in ProcIds
      PROVE  /\ Apart(X(a), X(b)) \in {1, Width - 1} => AcrossRow(b) <= AcrossRow(a) + 1
             /\ Apart(Y(a), Y(b)) \in {1, Height - 1} => AcrossColumn(b) <= AcrossColumn(a) + 1
  <2>1. X(a) \in 0..(Width - 1) /\ X(b) \in 0..(Width - 1) /\ X(s) \in 0..(Width - 1)
    BY <1>2
  <2>2. Y(a) \in 0..(Height - 1) /\ Y(b) \in 0..(Height - 1) /\ Y(s) \in 0..(Height - 1)
    BY <1>2
  <2> QED BY <1>1, <2>1, <2>2, AroundIsDistance
<1>8. ASSUME NEW a \in ProcIds, NEW b \in ProcIds
      PROVE  /\ X(a) = X(b) => AcrossRow(a) = AcrossRow(b)
             /\ Y(a) = Y(b) => AcrossColumn(a) = AcrossColumn(b)
  OBVIOUS
<1>9. ASSUME NEW b \in ProcIds, AcrossRow(b) > 0
      PROVE  \E a \in ProcIds : /\ Y(a) = Y(b) /\ Apart(X(a), X(b)) \in {1, Width - 1}
                                /\ AcrossRow(a) = AcrossRow(b) - 1
  <2>1. X(b) \in 0..(Width - 1) /\ X(s) \in 0..(Width - 1)
    BY <1>2
  <2>2. PICK x \in 0..(Width - 1) : /\ Apart(x, X(b)) \in {1, Width - 1}
                                    /\ Around(Width, X(s), x) = AcrossRow(b) - 1
    BY <1>1, <1>9, <2>1, AroundIsDistance
  <2>3. PICK a \in ProcIds : X(a) = x /\ Y(a) = Y(b)
    BY <1>2, Grid
  <2> QED BY <2>2, <2>3
<1>10. ASSUME NEW b \in ProcIds, AcrossColumn(b) > 0
       PROVE  \E a \in ProcIds : /\ X(a) = X(b) /\ Apart(Y(a), Y(b)) \in {1, Height - 1}
                                 /\ AcrossColumn(a) = AcrossColumn(b) - 1
  <2>1. Y(b) \in 0..(Height - 1) /\ Y(s) \in 0..(Height - 1)
    BY <1>2
  <2>2. PICK y \in 0..(Height - 1) : /\ Apart(y, Y(b)) \in {1, Height - 1}
                                     /\ Around(Height, Y(s), y) = AcrossColumn(b) - 1
    BY <1>1, <1>10, <2>1, AroundIsDistance
  <2>3. PICK a \in ProcIds : X(a) = X(b) /\ Y(a) = y
    BY <1>2, Grid
  <2> QED BY <2>2, <2>3
<1>11. \A a, b \in ProcIds : X(a) = X(b) /\ Y(a) = Y(b) => a = b
  BY Grid
<1> HIDE DEF AcrossRow, AcrossColumn
<1>12. d \in [ProcIds -> Nat]
  <2>1. \A b \in ProcIds : d[b] \in Nat
    BY <1>3, <1>6
  <2> QED BY <1>5, <2>1
<1>13. ASSUME NEW b \in ProcIds PROVE d[b] = 0 <=> b = s
  <2>1. d[b] = 0 <=> X(s) = X(b) /\ Y(s) = Y(b)
    BY <1>3, <1>6
  <2> QED BY <1>11, <2>1
<1>14. ASSUME NEW a \in ProcIds, NEW b \in ProcIds, Linked(a, b) PROVE d[b] <= d[a] + 1
  <2>1. CASE Y(a) = Y(b) /\ Apart(X(a), X(b)) \in {1, Width - 1}
    <3>1. AcrossRow(b) <= AcrossRow(a) + 1 /\ AcrossColumn(a) = AcrossColumn(b)
      BY <1>7, <1>8, <2>1
    <3> QED BY <1>3, <1>6, <3>1
  <2>2. CASE X(a) = X(b) /\ Apart(Y(a), Y(b)) \in {1, Height - 1}
    <3>1. AcrossColumn(b) <= AcrossColumn(a) + 1 /\ AcrossRow(a) = AcrossRow(b)
      BY <1>7, <1>8, <2>2
    <3> QED BY <1>3, <1>6, <3>1
  <2> QED BY <1>4, <1>14, <2>1, <2>2
<1>15. ASSUME NEW b \in ProcIds, d[b] > 0 PROVE Closer(d, b) # {}
  <2>1. CASE AcrossRow(b) > 0
    <3>1. PICK a \in ProcIds : /\ Y(a) = Y(b) /\ Apart(X(a), X(b)) \in {1, Width - 1}
                               /\ AcrossRow(a) = AcrossRow(b) - 1
      BY <1>9, <2>1
    <3>2. Linked(a, b) /\ AcrossColumn(a) = AcrossColumn(b)
      BY <1>4, <1>8, <3>1
    <3>3. d[a] = d[b] - 1
      BY <1>3, <1>6, <3>1, <3>2
    <3> QED BY <3>2, <3>3 DEF Closer
  <2>2. CASE AcrossColumn(b) > 0
    <3>1. PICK a \in ProcIds : /\ X(a) = X(b) /\ Apart(Y(a), Y(b)) \in {1, Height - 1}
                               /\ AcrossColumn(a) = AcrossColumn(b) - 1
      BY <1>10, <2>2
    <3>2. Linked(a, b) /\ AcrossRow(a) = AcrossRow(b)
      BY <1>4, <1>8, <3>1
    <3>3. d[a] = d[b] - 1
      BY <1>3, <1>6, <3>1, <3>2
    <3> QED BY <3>2, <3>3 DEF Closer
  <2> QED BY <1>3, <1>6, <1>15, <2>1, <2>2
<1> QED BY <1>12, <1>13, <1>14, <1>15 DEF Distance, d

\* A message on its way carries the hops of its route.
HopsInv ==
  /\ topology \in Topologies /\ sender \in [Senders -> SenderSteps] /\ DOMAIN message = Senders
  /\ \A s \in Senders : sender[s] # "idle" => message[s].hops = HopCount(s, message[s].dst)

\* Nothing is on its way at first.
LEMMA HopsInitially == NetInit => HopsInv
BY DEF NetInit, HopsInv, SenderSteps

\* The hops are counted in the call and kept until the message is delivered.
LEMMA HopsStep == HopsInv /\ [NetNext]_netVars => HopsInv'
<1> SUFFICES ASSUME HopsInv, [NetNext]_netVars PROVE HopsInv'
  OBVIOUS
<1>0. sender \in [Senders -> SenderSteps] /\ DOMAIN message = Senders /\ topology \in Topologies
  BY DEF HopsInv
<1>1. topology' = topology
  BY DEF NetNext, Send, Arbitrate, Transmit, Release, TakePort, Push, FreePort, DeliverAtOnce,
         SpuriousWakeup, Call, receiveMessage, NetDone, netVars
<1>2. ASSUME NEW t \in Senders, NEW to, message'[t].dst = to, message'[t].hops = HopCount(t, to)
      PROVE  message'[t].hops = HopCount(t, message[t].dst)'
  BY <1>1, <1>2 DEF HopCount
<1>3. ASSUME NEW s \in Senders, NEW d \in Destinations, Call(s, d)
      PROVE  HopsInv'
  <2>1. PICK to \in SenderSteps : At(s, "idle", to)
    BY <1>3 DEF Call, SenderSteps, OnBus
  <2>2. PICK m : m.dst = d /\ m.hops = HopCount(s, d) /\ message' = [message EXCEPT ![s] = m]
    BY <1>3 DEF Call
  <2>3. sender' = [sender EXCEPT ![s] = to]
    BY <2>1 DEF At
  <2>4. ASSUME NEW t \in Senders, sender'[t] # "idle"
        PROVE  message'[t].hops = HopCount(t, message[t].dst)'
    <3>1. CASE t = s
      BY <1>0, <1>2, <2>2, <3>1
    <3>2. CASE t # s
      <4>1. message'[t] = message[t] /\ sender'[t] = sender[t]
        BY <1>0, <2>2, <2>3, <3>2
      <4>2. message[t].hops = HopCount(t, message[t].dst)
        BY <2>4, <4>1 DEF HopsInv
      <4> QED BY <1>2, <4>1, <4>2
    <3> QED BY <3>1, <3>2
  <2>5. sender' \in [Senders -> SenderSteps] /\ DOMAIN message' = Senders
    BY <1>0, <2>2, <2>3
  <2> QED BY <1>0, <1>1, <2>4, <2>5 DEF HopsInv
<1>4. ASSUME message' = message, sender' \in [Senders -> SenderSteps],
             \A s \in Senders : sender[s] = "idle" => sender'[s] = "idle"
      PROVE  HopsInv'
  <2>1. ASSUME NEW t \in Senders, sender'[t] # "idle"
        PROVE  message'[t].hops = HopCount(t, message[t].dst)'
    <3>1. message[t].hops = HopCount(t, message[t].dst)
      BY <1>4, <2>1 DEF HopsInv
    <3> QED BY <1>2, <1>4, <3>1
  <2> QED BY <1>0, <1>1, <1>4, <2>1 DEF HopsInv
<1>5. ASSUME NEW s \in Senders,
             \/ Arbitrate(s) \/ SpuriousWakeup(s) \/ TakePort(s) \/ FreePort(s)
             \/ Transmit(s) \/ Push(s) \/ DeliverAtOnce(s)
      PROVE  HopsInv'
  <2>1. PICK from \in SenderSteps, to \in SenderSteps : At(s, from, to) /\ from # "idle"
    BY <1>5 DEF Arbitrate, SpuriousWakeup, TakePort, FreePort, Transmit, Push, DeliverAtOnce,
                SenderSteps, OnBus
  <2>2. message' = message
    BY <1>5 DEF Arbitrate, SpuriousWakeup, TakePort, FreePort, Transmit, Push, DeliverAtOnce
  <2> QED BY <1>0, <1>4, <2>1, <2>2 DEF At
<1>6. ASSUME NEW s \in Senders, Release(s)
      PROVE  HopsInv'
  <2>1. sender' \in [Senders -> SenderSteps]
    BY <1>0, <1>6 DEF Release, NotifyOne, SenderSteps, OnBus
  <2>2. \A t \in Senders : sender[t] = "idle" => sender'[t] = "idle"
    BY <1>0, <1>6 DEF Release, NotifyOne
  <2>3. message' = message
    BY <1>6 DEF Release
  <2> QED BY <1>4, <2>1, <2>2, <2>3
<1>7. CASE UNCHANGED netVars \/ \E d \in Receivers : receiveMessage(d)
  <2>1. message' = message /\ sender' = sender
    BY <1>7 DEF netVars, receiveMessage
  <2> QED BY <1>0, <1>4, <2>1
<1> QED BY <1>3, <1>5, <1>6, <1>7 DEF NetNext, Send, NetDone

\* For any number of processors, the hops charged on a ring, a mesh and a torus
\* whose last row is full are those of a shortest route.
THEOREM HopsAreFewest ==
  NetSpec => []((topology = "Torus" => NumProcs = Width * Height) => FewestHops)
<1>1. HopsInv => ((topology = "Torus" => NumProcs = Width * Height) => FewestHops)
  <2> SUFFICES ASSUME HopsInv, topology = "Torus" => NumProcs = Width * Height,
                      topology \in {"Mesh", "Ring", "Torus"},
                      NEW s \in Senders, sender[s] = "deliver", message[s].dst \in ProcIds
               PROVE  /\ message[s].dst \in Within(s, message[s].hops)
                      /\ message[s].hops > 0 => message[s].dst \notin Within(s, message[s].hops - 1)
    BY DEF FewestHops
  <2>1. PICK m : m = message[s]
    OBVIOUS
  <2> DEFINE d == [b \in ProcIds |-> HopCount(s, b)]
  <2>2. m.hops = HopCount(s, m.dst) /\ m.dst \in ProcIds /\ s \in ProcIds
    BY <2>1, InterconnectAssumption DEF HopsInv
  <2>3. topology = "Mesh" => NumProcs = Width * Height
    BY InterconnectAssumption DEF HopsInv
  <2>4. Distance(d, s)
    <3> HIDE DEF Width, Height
    <3> QED BY <2>2, <2>3, RingDistance, MeshDistance, TorusDistance
  <2>5. d[m.dst] = m.hops
    BY <2>2
  <2> HIDE DEF d
  <2>6. m.hops \in Nat
    BY <2>2, <2>4, <2>5 DEF Distance
  <2>7. Within(s, m.hops) = {b \in ProcIds : d[b] <= m.hops}
    BY <2>2, <2>4, <2>6, WithinIsDistance
  <2>8. m.hops > 0 => Within(s, m.hops - 1) = {b \in ProcIds : d[b] <= m.hops - 1}
    <3>1. m.hops > 0 => m.hops - 1 \in Nat
      BY <2>6
    <3> QED BY <2>2, <2>4, <3>1, WithinIsDistance
  <2> QED BY <2>1, <2>2, <2>5, <2>6, <2>7, <2>8
<1> QED BY <1>1, HopsInitially, HopsStep, PTL DEF NetSpec
=============================================================================
