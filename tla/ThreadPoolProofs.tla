-------------------------- MODULE ThreadPoolProofs --------------------------
(***************************************************************************)
(* Proof that the pool's destructor loses no task and that every task is   *)
(* in one place, for any number of workers, jobs and chunks.  NothingLost  *)
(* is not inductive: at the end every worker has left, a worker leaves     *)
(* only from an empty queue of a stopped pool, and nothing is pushed after *)
(* that.  OnePlace is not inductive either: it needs that no task is       *)
(* enqueued a second time, which Fresh says of the two enqueueing loops.   *)
(***************************************************************************)
EXTENDS ThreadPool, TLAPS

\* Every task with a future is queued, on a worker or done.
Accounted == submitted \subseteq Queued \cup Running \cup done

\* A worker that has left holds no task, and left a stopped, empty pool; the
\* client reaches the end only after all of them have left.
Departed ==
  /\ \A w \in Workers : place[w] = "exited" => stop /\ queue = <<>> /\ task[w] = NoTask
  /\ \A w \in Workers : place[w] \in {"ready", "waiting"} => task[w] = NoTask
  /\ place[Client] = "end" => \A w \in Workers : place[w] = "exited"

\* A worker that runs, enqueues or collects does so for the task it holds.
Busy == {"run", "enqueue", "notify", "collect"}
InLoop == \A w \in Workers : place[w] \in Busy => task[w] \in Tasks

IInv == PoolTypeOK /\ Accounted /\ Departed /\ InLoop

\* Pushing a task adds it, and nothing else, to what is queued.
LEMMA Pushed ==
  ASSUME NEW S, NEW s \in Seq(S), NEW x \in S
  PROVE  /\ Append(s, x) \in Seq(S)
         /\ Append(s, x) # <<>>
         /\ {Append(s, x)[i] : i \in 1..Len(Append(s, x))} = {s[i] : i \in 1..Len(s)} \cup {x}
<1>1. Len(Append(s, x)) = Len(s) + 1 /\ Len(s) \in Nat
  OBVIOUS
<1>2. \A i \in 1..Len(s) : Append(s, x)[i] = s[i]
  OBVIOUS
<1>3. Append(s, x)[Len(s) + 1] = x
  OBVIOUS
<1> QED BY <1>1, <1>2, <1>3

\* Popping leaves a queue of the same tasks but for the front one.
LEMMA Popped ==
  ASSUME NEW S, NEW s \in Seq(S), s # <<>>
  PROVE  /\ Tail(s) \in Seq(S)
         /\ Head(s) \in S
         /\ {s[i] : i \in 1..Len(s)} = {Tail(s)[i] : i \in 1..Len(Tail(s))} \cup {Head(s)}
<1>1. /\ Len(s) \in Nat \ {0} /\ Len(Tail(s)) = Len(s) - 1 /\ Head(s) = s[1]
      /\ Tail(s) \in Seq(S) /\ s[1] \in S
  OBVIOUS
<1>2. \A i \in 1..Len(Tail(s)) : Tail(s)[i] = s[i + 1]
  OBVIOUS
<1>3. \A i \in 2..Len(s) : i - 1 \in 1..Len(Tail(s)) /\ Tail(s)[i - 1] = s[i]
  BY <1>1, <1>2
<1>4. ASSUME NEW i \in 1..Len(s)
      PROVE  s[i] \in {Tail(s)[k] : k \in 1..Len(Tail(s))} \cup {Head(s)}
  <2>1. CASE i = 1
    BY <2>1, <1>1
  <2>2. CASE i # 1
    <3>1. i \in 2..Len(s)
      BY <2>2, <1>1
    <3> QED BY <3>1, <1>3
  <2> QED BY <2>1, <2>2
<1>5. ASSUME NEW i \in 1..Len(Tail(s))
      PROVE  Tail(s)[i] \in {s[k] : k \in 1..Len(s)}
  <2>1. i + 1 \in 1..Len(s) /\ Tail(s)[i] = s[i + 1]
    BY <1>1, <1>2
  <2> QED BY <2>1
<1>6. Head(s) \in {s[k] : k \in 1..Len(s)}
  <2>1. 1 \in 1..Len(s)
    BY <1>1
  <2> QED BY <2>1, <1>1
<1> QED BY <1>1, <1>4, <1>5, <1>6

-----------------------------------------------------------------------------

\* The invariant holds of a pool that was just built.
LEMMA InitIInv == PoolInit => IInv
<1> SUFFICES ASSUME PoolInit PROVE IInv
  OBVIOUS
<1> USE PoolAssumption DEF PoolInit
<1>1. PoolTypeOK
  <2>1. place \in [Threads -> WorkerSteps \cup ClientSteps]
    BY DEF WorkerSteps, ClientSteps
  <2>2. queue \in Seq(Tasks)
    OBVIOUS
  <2>3. sent \in [Threads -> Nat]
    OBVIOUS
  <2> QED BY <2>1, <2>2, <2>3 DEF PoolTypeOK
<1>2. Accounted
  BY DEF Accounted
<1>3. Departed
  BY DEF Departed, Threads
<1>4. InLoop
  BY DEF InLoop, Threads, Busy
<1> QED BY <1>1, <1>2, <1>3, <1>4 DEF IInv

\* Threads that only move from one point of their loop to another, and a set
\* of waiting workers that wakes up, leave the accounts as they are.
Moves(t, from, to, W) ==
  /\ place[t] = from
  /\ place' = [u \in Threads |-> IF u = t THEN to ELSE IF u \in W THEN "ready" ELSE place[u]]
  /\ sent' \in [Threads -> Nat]
  /\ UNCHANGED <<queue, task, futures>>

\* Such a move keeps the invariant if it respects what a worker holds.
LEMMA MovesKeep ==
  ASSUME IInv, NEW t \in Threads, NEW from, NEW to \in WorkerSteps \cup ClientSteps,
         NEW W \in SUBSET {w \in Workers : place[w] = "waiting"}, Moves(t, from, to, W),
         stop' \in BOOLEAN, stop => stop',
         t \in Workers /\ to \in Busy => from \in Busy,
         t \in Workers /\ to \in {"ready", "waiting"} => from \in {"ready", "waiting"},
         t \in Workers /\ to = "exited" => from = "ready" /\ stop' /\ queue = <<>>,
         to = "end" => \A w \in Workers : place[w] = "exited",
         t = Client => from # "end", t \in Workers => from # "exited"
  PROVE  IInv'
<1> USE PoolAssumption DEF IInv, Moves, futures, Threads
<1>1. PoolTypeOK'
  <2>1. place' \in [Threads -> WorkerSteps \cup ClientSteps]
    BY DEF PoolTypeOK, WorkerSteps
  <2> QED BY <2>1 DEF PoolTypeOK
<1>2. Accounted'
  BY DEF Accounted, Queued, Running
<1>3. Departed'
  <2>1. ASSUME NEW w \in Workers, place'[w] = "exited"
        PROVE  stop' /\ queue' = <<>> /\ task'[w] = NoTask
    <3>1. CASE w = t
      BY <2>1, <3>1 DEF Departed
    <3>2. CASE w # t
      BY <2>1, <3>2 DEF Departed, PoolTypeOK
    <3> QED BY <3>1, <3>2
  <2>2. ASSUME NEW w \in Workers, place'[w] \in {"ready", "waiting"}
        PROVE  task'[w] = NoTask
    BY <2>2 DEF Departed
  <2>3. ASSUME place'[Client] = "end", NEW w \in Workers
        PROVE  place'[w] = "exited"
    BY <2>3 DEF Departed
  <2> QED BY <2>1, <2>2, <2>3 DEF Departed
<1>4. InLoop'
  BY DEF InLoop, Busy
<1> QED BY <1>1, <1>2, <1>3, <1>4

\* Enqueue puts one new task into the queue of a pool that is not stopped.
LEMMA EnqueueKeeps ==
  ASSUME IInv, NEW t \in Threads, Enqueue(t)
  PROVE  IInv'
<1> DEFINE x == Submission(t, sent[t] + 1)
<1> USE PoolAssumption DEF IInv, Enqueue, Threads
<1>1. x \in Tasks
  <2>1. sent[t] \in Nat
    BY DEF PoolTypeOK
  <2>2. CASE t = Client
    BY <2>1, <2>2 DEF Submission, Tasks, Quota
  <2>3. CASE t \in Workers
    <3>1. task[t] \in Tasks
      BY <2>3 DEF InLoop, Busy
    <3>2. task[t][1] \in 1..NumJobs
      BY <3>1 DEF Tasks
    <3> QED BY <2>1, <2>3, <3>2 DEF Submission, Tasks, Quota
  <2> QED BY <2>2, <2>3
<1>2. /\ queue' \in Seq(Tasks)
      /\ Queued' = Queued \cup {x}
  <2>1. queue \in Seq(Tasks) /\ queue' = Append(queue, x)
    BY DEF PoolTypeOK
  <2> HIDE DEF x
  <2> QED BY <1>1, <2>1, Pushed DEF Queued
<1>3. submitted' = submitted \cup {x} /\ UNCHANGED <<stop, task, done, failed>>
  OBVIOUS
<1>4. ~stop
  BY DEF Permitted
<1> HIDE DEF x
<1>5. PoolTypeOK'
  <2>1. place' \in [Threads -> WorkerSteps \cup ClientSteps]
    BY DEF PoolTypeOK, WorkerSteps, MoveTo
  <2>2. sent' \in [Threads -> Nat]
    BY DEF PoolTypeOK
  <2> QED BY <1>1, <1>2, <1>3, <2>1, <2>2 DEF PoolTypeOK
<1>6. Accounted'
  BY <1>2, <1>3 DEF Accounted, Running
<1>7. Departed'
  <2>1. \A w \in Workers : place'[w] # "exited"
    BY <1>4 DEF Departed, MoveTo, PoolTypeOK
  <2>2. \A w \in Workers : place'[w] \in {"ready", "waiting"} => task'[w] = NoTask
    BY <1>3 DEF Departed, MoveTo, PoolTypeOK
  <2>3. place'[Client] # "end"
    BY <1>4 DEF Departed, MoveTo, PoolTypeOK
  <2> QED BY <2>1, <2>2, <2>3 DEF Departed
<1>8. InLoop'
  BY <1>3 DEF InLoop, Busy, MoveTo, PoolTypeOK
<1> QED BY <1>5, <1>6, <1>7, <1>8

\* A worker takes the front of the queue.
LEMMA TakeKeeps ==
  ASSUME IInv, NEW w \in Workers, Take(w)
  PROVE  IInv'
<1> USE PoolAssumption DEF IInv, Take, Threads, futures
<1>1. /\ queue' \in Seq(Tasks) /\ Head(queue) \in Tasks
      /\ Queued = Queued' \cup {Head(queue)}
  <2>1. queue \in Seq(Tasks) /\ queue # <<>> /\ queue' = Tail(queue)
    BY DEF PoolTypeOK, Pop
  <2> QED BY <2>1, Popped DEF Queued
<1>2. /\ task' \in [Workers -> Tasks \cup {NoTask}] /\ task'[w] = Head(queue)
      /\ \A v \in Workers \ {w} : task'[v] = task[v]
  BY <1>1 DEF PoolTypeOK
<1>3. /\ place' \in [Threads -> WorkerSteps \cup ClientSteps] /\ place'[w] = "run"
      /\ \A t \in Threads \ {w} : place'[t] = place[t]
  BY DEF PoolTypeOK, WorkerSteps, MoveTo
<1>4. Head(queue) # NoTask
  BY <1>1 DEF Tasks, NoTask
<1>5. task[w] = NoTask
  BY DEF Departed
<1>6. PoolTypeOK'
  BY <1>1, <1>2, <1>3 DEF PoolTypeOK
<1>7. Accounted'
  <2>1. Running' = Running \cup {Head(queue)}
    BY <1>2, <1>4, <1>5 DEF Running
  <2> QED BY <1>1, <2>1 DEF Accounted
<1>8. Departed'
  <2>1. \A v \in Workers : place'[v] # "exited"
    BY <1>3 DEF Departed
  <2>2. place'[Client] # "end"
    BY <1>3 DEF Departed
  <2> QED BY <1>2, <1>3, <2>1, <2>2 DEF Departed
<1>9. InLoop'
  BY <1>1, <1>2, <1>3 DEF InLoop
<1> QED BY <1>6, <1>7, <1>8, <1>9

\* A worker completes its task.
LEMMA CompleteKeeps ==
  ASSUME IInv, NEW w \in Workers, NEW ok \in BOOLEAN, place[w] \in Busy, Complete(w, ok),
         UNCHANGED <<queue, stop, sent, submitted>>
  PROVE  IInv'
<1> USE PoolAssumption DEF IInv, Complete, Threads
<1>1. task[w] \in Tasks
  BY DEF InLoop
<1>2. /\ task' \in [Workers -> Tasks \cup {NoTask}] /\ task'[w] = NoTask
      /\ \A v \in Workers \ {w} : task'[v] = task[v]
  BY DEF PoolTypeOK
<1>3. /\ place' \in [Threads -> WorkerSteps \cup ClientSteps] /\ place'[w] = "ready"
      /\ \A t \in Threads \ {w} : place'[t] = place[t]
  BY DEF PoolTypeOK, WorkerSteps, MoveTo
<1>4. failed' \subseteq done' /\ done' = done \cup {task[w]}
  BY DEF PoolTypeOK
<1>5. PoolTypeOK'
  BY <1>1, <1>2, <1>3, <1>4 DEF PoolTypeOK
<1>6. Accounted'
  <2>1. Running \subseteq Running' \cup {task[w]}
    BY <1>2 DEF Running
  <2>2. Queued' = Queued
    BY DEF Queued
  <2> QED BY <1>4, <2>1, <2>2 DEF Accounted
<1>7. Departed'
  <2>1. place[w] # "exited"
    BY DEF Busy
  <2>2. place'[Client] = "end" => FALSE
    BY <1>3, <2>1 DEF Departed
  <2> QED BY <1>2, <1>3, <2>2 DEF Departed
<1>8. InLoop'
  BY <1>2, <1>3 DEF InLoop, Busy
<1> QED BY <1>5, <1>6, <1>7, <1>8

-----------------------------------------------------------------------------
\* The invariant is inductive.
LEMMA NextIInv == IInv /\ [PoolNext]_poolVars => IInv'
<1> SUFFICES ASSUME IInv, [PoolNext]_poolVars PROVE IInv'
  OBVIOUS
<1> USE PoolAssumption DEF Threads
<1>0. /\ place \in [Threads -> WorkerSteps \cup ClientSteps]
      /\ sent \in [Threads -> Nat] /\ stop \in BOOLEAN
  BY DEF IInv, PoolTypeOK
<1>1. ASSUME NEW t \in Threads, NotifyWorker(t)
      PROVE  IInv'
  <2> DEFINE waiting == {w \in Workers : place[w] = "waiting"}
  <2>1. PICK W \in SUBSET waiting :
          place' = [u \in Threads |-> IF u = t THEN "enqueue" ELSE IF u \in W THEN "ready" ELSE place[u]]
    <3>1. CASE waiting = {} /\ MoveTo(t, "enqueue")
      <4> WITNESS {} \in SUBSET waiting
      <4> QED BY <3>1, <1>0 DEF MoveTo
    <3>2. CASE \E w \in waiting : place' = [place EXCEPT ![t] = "enqueue", ![w] = "ready"]
      <4>1. PICK w \in waiting : place' = [place EXCEPT ![t] = "enqueue", ![w] = "ready"]
        BY <3>2
      <4>2. w # t
        BY <1>1, <4>1 DEF NotifyWorker
      <4>3. place' = [u \in Threads |-> IF u = t THEN "enqueue"
                                     ELSE IF u = w THEN "ready" ELSE place[u]]
        <5> DEFINE f == [place EXCEPT ![t] = "enqueue"]
        <5>1. f = [u \in Threads |-> IF u = t THEN "enqueue" ELSE place[u]]
          BY <1>0
        <5>2. w \in Threads
          OBVIOUS
        <5>3. place' = [f EXCEPT ![w] = "ready"]
          BY <4>1
        <5> HIDE DEF f
        <5>4. place' = [u \in Threads |-> IF u = w THEN "ready" ELSE f[u]]
          BY <5>1, <5>2, <5>3
        <5>5. \A u \in Threads : f[u] = IF u = t THEN "enqueue" ELSE place[u]
          BY <5>1
        <5> QED BY <5>4, <5>5, <4>2
      <4> WITNESS {w} \in SUBSET waiting
      <4> QED BY <4>3
    <3> QED BY <1>1, <3>1, <3>2 DEF NotifyWorker
  <2>2. Moves(t, "notify", "enqueue", W)
    BY <1>0, <1>1, <2>1 DEF Moves, NotifyWorker
  <2>3. UNCHANGED stop
    BY <1>1 DEF NotifyWorker
  <2> QED BY <1>0, <2>2, <2>3, MovesKeep DEF WorkerSteps, Busy
<1>2. ASSUME NEW t \in Threads, EndLoop(t)
      PROVE  IInv'
  <2>1. Moves(t, "enqueue", "collect", {})
    BY <1>0, <1>2 DEF Moves, EndLoop, MoveTo
  <2> QED BY <1>0, <1>2, <2>1, MovesKeep DEF WorkerSteps, Busy, EndLoop
<1>3. ASSUME NEW w \in Workers, Wait(w)
      PROVE  IInv'
  <2>1. Moves(w, "ready", "waiting", {})
    BY <1>0, <1>3 DEF Moves, Wait, MoveTo
  <2> QED BY <1>0, <1>3, <2>1, MovesKeep DEF WorkerSteps, Busy, Wait
<1>4. ASSUME NEW w \in Workers, Exit(w)
      PROVE  IInv'
  <2>1. Moves(w, "ready", "exited", {})
    BY <1>0, <1>4 DEF Moves, Exit, MoveTo
  <2> QED BY <1>0, <1>4, <2>1, MovesKeep DEF WorkerSteps, Busy, Exit, MayLeave
<1>5. ASSUME NEW w \in Workers, WorkerWakesUp(w)
      PROVE  IInv'
  <2>1. Moves(w, "waiting", "ready", {})
    BY <1>0, <1>5 DEF Moves, WorkerWakesUp, MoveTo
  <2> QED BY <1>0, <1>5, <2>1, MovesKeep DEF WorkerSteps, Busy, WorkerWakesUp
<1>6. ASSUME NEW w \in Workers, StartJob(w)
      PROVE  IInv'
  <2>1. Moves(w, "run", "enqueue", {})
    BY <1>0, <1>6 DEF Moves, StartJob, MoveTo
  <2> QED BY <1>0, <1>6, <2>1, MovesKeep DEF WorkerSteps, Busy, StartJob
<1>7. ASSUME NEW w \in Workers, NEW ok \in BOOLEAN, RunLeaf(w, ok) \/ FinishJob(w, ok)
      PROVE  IInv'
  BY <1>7, CompleteKeeps DEF RunLeaf, FinishJob, Busy
<1>8. ASSUME NEW w \in Workers, RejectedJob(w)
      PROVE  IInv'
  <2>1. place[w] \in Busy /\ Complete(w, FALSE) /\ UNCHANGED <<queue, stop, sent, submitted>>
    BY <1>8 DEF RejectedJob, Busy
  <2>2. FALSE \in BOOLEAN
    OBVIOUS
  <2> QED BY <2>1, <2>2, CompleteKeeps, Zenon
<1>9. CASE Collected
  <2>1. Moves(Client, "collect", "stop", {})
    BY <1>0, <1>9 DEF Moves, Collected, MoveTo
  <2> QED BY <1>0, <1>9, <2>1, MovesKeep DEF ClientSteps, Busy, Collected
<1>10. CASE SetStop
  <2>1. Moves(Client, "stop", "notifyAll", {})
    BY <1>0, <1>10 DEF Moves, SetStop, MoveTo
  <2> QED BY <1>0, <1>10, <2>1, MovesKeep DEF ClientSteps, Busy, SetStop
<1>11. CASE NotifyAll
  <2> DEFINE waiting == {w \in Workers : place[w] = "waiting"}
  <2>1. Moves(Client, "notifyAll", "join", waiting)
    BY <1>0, <1>11 DEF Moves, NotifyAll, Woken
  <2> QED BY <1>0, <1>11, <2>1, MovesKeep DEF ClientSteps, Busy, NotifyAll
<1>12. CASE JoinWorkers
  <2>1. Moves(Client, "join", "end", {})
    BY <1>0, <1>12 DEF Moves, JoinWorkers, MoveTo
  <2> QED BY <1>0, <1>12, <2>1, MovesKeep DEF ClientSteps, Busy, JoinWorkers
<1>13. CASE Destroyed \/ UNCHANGED poolVars
  <2>1. UNCHANGED poolVars
    BY <1>13 DEF Destroyed
  <2> QED BY <2>1 DEF poolVars, futures, IInv, PoolTypeOK, Accounted, Queued, Running, Departed, InLoop
<1> QED BY <1>1, <1>2, <1>3, <1>4, <1>5, <1>6, <1>7, <1>8, <1>9, <1>10, <1>11, <1>12, <1>13,
           EnqueueKeeps, TakeKeeps
        DEF PoolNext, WorkerStep, ClientStep

\* At the end every worker has left, so the queue is empty and no worker holds
\* a task: what was submitted is done.
LEMMA IInvNothingLost == IInv => NothingLost
<1> SUFFICES ASSUME IInv, place[Client] = "end" PROVE submitted \subseteq done
  BY DEF NothingLost
<1>1. PICK w \in Workers : TRUE
  BY PoolAssumption
<1>2. queue = <<>> /\ \A v \in Workers : task[v] = NoTask
  BY <1>1 DEF IInv, Departed
<1>3. Queued = {}
  BY <1>2 DEF Queued
<1>4. Running = {}
  BY <1>2 DEF Running
<1> QED BY <1>3, <1>4 DEF IInv, Accounted

\* The state of the pool is well formed, whatever its clients enqueue and
\* however many threads it has.
THEOREM PoolTypeCorrect == PoolSpec => []PoolTypeOK
<1>1. IInv => PoolTypeOK
  BY DEF IInv
<1> QED BY <1>1, InitIInv, NextIInv, PTL DEF PoolSpec

\* ~ThreadPool drains the queue: when it returns, every task enqueue accepted
\* has been run, for any number of workers, jobs and chunks.
THEOREM DestructorLosesNothing == PoolSpec => []NothingLost
<1> QED BY InitIInv, NextIInv, IInvNothingLost, PTL DEF PoolSpec

-----------------------------------------------------------------------------
(* Every task is in one place. *)

\* A worker in processTrace, between its first enqueue and its last future.
Chunking == {"enqueue", "notify", "collect"}

\* What is still to be enqueued was not enqueued before: the client's jobs after
\* the sent-th, and the chunks of a job after the sent-th of the worker that
\* runs it.  A chunk is enqueued by nobody else.
Fresh ==
  /\ \A w \in Workers : place[w] \in Chunking => task[w][2] = 0
  /\ \A t \in submitted : t[2] = 0 => t[1] <= sent[Client]
  /\ \A t \in submitted : t[2] # 0 =>
       \/ <<t[1], 0>> \in done
       \/ \E w \in Workers : task[w] = <<t[1], 0>> /\ place[w] \in Chunking /\ t[2] <= sent[w]

JInv == IInv /\ OnePlace /\ Fresh

\* Nothing is anywhere in a new pool.
LEMMA InitJInv == PoolInit => JInv
<1> SUFFICES ASSUME PoolInit PROVE OnePlace /\ Fresh
  BY InitIInv DEF JInv
<1>1. Queued = {} /\ Running = {}
  BY DEF PoolInit, Queued, Running
<1>2. OnePlace
  BY <1>1 DEF PoolInit, OnePlace
<1>3. Fresh
  BY PoolAssumption DEF PoolInit, Fresh, Chunking, Threads
<1> QED BY <1>2, <1>3

\* Steps that move no task and leave every worker on its side of Chunking.
LEMMA NothingMoves ==
  ASSUME JInv, UNCHANGED <<queue, task, sent, submitted, done>>,
         \A w \in Workers : place'[w] \in Chunking <=> place[w] \in Chunking
  PROVE  OnePlace' /\ Fresh'
<1>1. OnePlace'
  BY DEF JInv, OnePlace, Queued, Running
<1>2. Fresh'
  BY DEF JInv, Fresh
<1> QED BY <1>1, <1>2

\* What a thread enqueues was not enqueued before.
LEMMA SubmissionIsNew ==
  ASSUME JInv, NEW t \in Threads, Enqueue(t)
  PROVE  /\ Submission(t, sent[t] + 1) \in Tasks \ submitted
         /\ t \in Workers => task[t] = <<task[t][1], 0>>
<1> USE PoolAssumption DEF JInv, IInv
<1>1. sent[t] \in Nat
  BY DEF PoolTypeOK
<1>2. CASE t = Client
  <2>1. Submission(t, sent[t] + 1) = <<sent[t] + 1, 0>>
    BY <1>2 DEF Submission
  <2>2. <<sent[t] + 1, 0>> \in Tasks
    BY <1>1, <1>2 DEF Enqueue, Quota, Tasks
  <2>3. <<sent[t] + 1, 0>> \notin submitted
    BY <1>1, <1>2 DEF Fresh
  <2> QED BY <1>2, <2>1, <2>2, <2>3
<1>3. CASE t \in Workers
  <2> DEFINE j == task[t][1]
             c == sent[t] + 1
  <2>1. t # Client /\ Submission(t, c) = <<j, c>>
    BY <1>3 DEF Submission
  <2>2. place[t] \in Chunking /\ place[t] \in Busy
    BY DEF Enqueue, Chunking, Busy
  <2>3. task[t] \in Tasks /\ task[t][2] = 0
    BY <1>3, <2>2 DEF InLoop, Fresh
  <2>4. task[t] = <<j, 0>> /\ j \in 1..NumJobs /\ task[t] # NoTask
    BY <2>3 DEF Tasks, NoTask
  <2>5. <<j, c>> \in Tasks
    BY <1>1, <2>1, <2>4 DEF Enqueue, Quota, Tasks
  <2>6. <<j, 0>> \notin done
    <3>1. <<j, 0>> \in Running
      BY <1>3, <2>4 DEF Running
    <3> QED BY <3>1 DEF OnePlace
  <2>7. ASSUME <<j, c>> \in submitted PROVE FALSE
    <3>1. PICK w \in Workers : task[w] = <<j, 0>> /\ place[w] \in Chunking /\ c <= sent[w]
      BY <1>1, <2>6, <2>7 DEF Fresh
    <3>2. w = t
      BY <1>3, <2>4, <3>1 DEF OnePlace
    <3> QED BY <1>1, <3>1, <3>2
  <2> QED BY <2>1, <2>4, <2>5, <2>7
<1> QED BY <1>2, <1>3 DEF Threads

\* A new task goes to the end of the queue, and nowhere else.
LEMMA EnqueuePlaces ==
  ASSUME JInv, NEW t \in Threads, Enqueue(t)
  PROVE  OnePlace' /\ Fresh'
<1> DEFINE x == Submission(t, sent[t] + 1)
<1>1. x \in Tasks /\ x \notin submitted /\ (t \in Workers => task[t] = <<task[t][1], 0>>)
  BY SubmissionIsNew
<1>2. /\ queue \in Seq(Tasks) /\ queue' = Append(queue, x)
      /\ submitted' = submitted \cup {x} /\ UNCHANGED <<task, done>>
      /\ sent' = [sent EXCEPT ![t] = @ + 1] /\ sent \in [Threads -> Nat]
      /\ place' = [place EXCEPT ![t] = "notify"] /\ place[t] = "enqueue"
      /\ place \in [Threads -> WorkerSteps \cup ClientSteps]
  BY DEF Enqueue, JInv, IInv, PoolTypeOK, MoveTo
<1>3. x = IF t = Client THEN <<sent[t] + 1, 0>> ELSE <<task[t][1], sent[t] + 1>>
  BY DEF Submission
<1> HIDE DEF x
<1>4. Queued' = Queued \cup {x}
  <2>1. x \in Tasks /\ queue \in Seq(Tasks)
    BY <1>1, <1>2, Zenon
  <2>2. {Append(queue, x)[i] : i \in 1..Len(Append(queue, x))}
          = {queue[i] : i \in 1..Len(queue)} \cup {x}
    BY <2>1, Pushed
  <2> QED BY <1>2, <2>2 DEF Queued
<1>5. Running' = Running
  BY <1>2 DEF Running
<1>6. \A i, j \in 1..Len(queue') : queue'[i] = queue'[j] => i = j
  <2>1. \A i \in 1..Len(queue) : queue[i] # x
    BY <1>1 DEF JInv, OnePlace, Queued
  <2>2. /\ Len(queue') = Len(queue) + 1 /\ queue'[Len(queue) + 1] = x /\ Len(queue) \in Nat
        /\ \A i \in 1..Len(queue) : queue'[i] = queue[i]
    BY <1>1, <1>2
  <2> QED BY <2>1, <2>2 DEF JInv, OnePlace
<1>7. OnePlace'
  BY <1>1, <1>2, <1>4, <1>5, <1>6 DEF JInv, OnePlace
<1>8. Fresh'
  <2>1. \A w \in Workers : place'[w] \in Chunking => task'[w][2] = 0
    BY <1>2, PoolAssumption DEF JInv, Fresh, Chunking, Threads
  <2>2. \A u \in submitted' : u[2] = 0 => u[1] <= sent'[Client]
    BY <1>2, <1>3, PoolAssumption DEF JInv, IInv, PoolTypeOK, Tasks, Fresh, Threads
  <2>3. ASSUME NEW u \in submitted', u[2] # 0
        PROVE  \/ <<u[1], 0>> \in done'
               \/ \E w \in Workers : /\ task'[w] = <<u[1], 0>> /\ place'[w] \in Chunking
                                     /\ u[2] <= sent'[w]
    <3>1. CASE u = x
      <4>1. t \in Workers /\ u = <<task[t][1], sent[t] + 1>>
        BY <1>3, <2>3, <3>1 DEF Threads
      <4>2. task'[t] = <<u[1], 0>> /\ place'[t] \in Chunking /\ u[2] <= sent'[t]
        BY <1>1, <1>2, <4>1 DEF Chunking, Threads
      <4> QED BY <4>1, <4>2
    <3>2. CASE u \in submitted /\ <<u[1], 0>> \in done
      BY <1>2, <3>2
    <3>3. CASE u \in submitted /\ <<u[1], 0>> \notin done
      <4>1. PICK w \in Workers : task[w] = <<u[1], 0>> /\ place[w] \in Chunking /\ u[2] <= sent[w]
        BY <2>3, <3>3 DEF JInv, Fresh
      <4>2. task'[w] = <<u[1], 0>> /\ place'[w] \in Chunking
        BY <1>2, <4>1 DEF Chunking, Threads
      <4>3. u[2] <= sent'[w]
        <5>1. u[2] \in Nat
          BY <3>3 DEF JInv, IInv, PoolTypeOK, Tasks
        <5> QED BY <1>2, <4>1, <5>1 DEF Threads
      <4> QED BY <4>2, <4>3
    <3> QED BY <1>2, <3>1, <3>2, <3>3
  <2> QED BY <2>1, <2>2, <2>3 DEF Fresh
<1> QED BY <1>7, <1>8

\* What is popped from a queue without repetitions is not in it any more.
LEMMA PoppedOnce ==
  ASSUME NEW S, NEW s \in Seq(S), s # <<>>,
         \A i, j \in 1..Len(s) : s[i] = s[j] => i = j
  PROVE  /\ \A i, j \in 1..Len(Tail(s)) : Tail(s)[i] = Tail(s)[j] => i = j
         /\ \A i \in 1..Len(Tail(s)) : Tail(s)[i] # Head(s)
<1>1. Len(s) \in Nat \ {0} /\ Len(Tail(s)) = Len(s) - 1 /\ Head(s) = s[1]
  OBVIOUS
<1>2. \A i \in 1..Len(Tail(s)) : Tail(s)[i] = s[i + 1]
  OBVIOUS
<1> QED BY <1>1, <1>2

\* The front of the queue is on the worker instead.
LEMMA TakePlaces ==
  ASSUME JInv, NEW w \in Workers, Take(w)
  PROVE  OnePlace' /\ Fresh'
<1> USE PoolAssumption
<1>1. /\ queue \in Seq(Tasks) /\ queue # <<>> /\ queue' = Tail(queue)
      /\ UNCHANGED <<submitted, done, sent>> /\ place[w] = "ready"
      /\ task \in [Workers -> Tasks \cup {NoTask}] /\ place \in [Threads -> WorkerSteps \cup ClientSteps]
      /\ task' = [task EXCEPT ![w] = Head(queue)] /\ place' = [place EXCEPT ![w] = "run"]
  BY DEF JInv, IInv, PoolTypeOK, Take, Pop, MoveTo, futures
<1>2. Head(queue) \in Tasks /\ Queued = Queued' \cup {Head(queue)}
  <2>1. /\ Head(queue) \in Tasks
        /\ {queue[i] : i \in 1..Len(queue)}
             = {Tail(queue)[i] : i \in 1..Len(Tail(queue))} \cup {Head(queue)}
    BY <1>1, Popped
  <2> QED BY <1>1, <2>1 DEF Queued
<1>3. \A i, j \in 1..Len(queue) : queue[i] = queue[j] => i = j
  BY DEF JInv, OnePlace
<1>4. /\ \A i, j \in 1..Len(queue') : queue'[i] = queue'[j] => i = j
      /\ \A i \in 1..Len(queue') : queue'[i] # Head(queue)
  BY <1>1, <1>3, PoppedOnce
<1>5. Head(queue) \notin Queued'
  BY <1>4 DEF Queued
<1>6. Head(queue) # NoTask /\ task[w] = NoTask
  BY <1>1, <1>2 DEF Tasks, NoTask, JInv, IInv, Departed
<1>7. Running' = Running \cup {Head(queue)}
  BY <1>1, <1>6 DEF Running
<1>8. Head(queue) \notin Running /\ Head(queue) \notin done
  BY <1>2 DEF JInv, OnePlace
<1>9. \A u, v \in Workers : task'[u] = task'[v] /\ task'[u] # NoTask => u = v
  BY <1>1, <1>6, <1>8 DEF Running, JInv, OnePlace
<1>10. OnePlace'
  <2>1. submitted' = Queued' \cup Running' \cup done'
    BY <1>1, <1>2, <1>7 DEF JInv, OnePlace
  <2>2. Queued' \cap Running' = {} /\ Queued' \cap done' = {} /\ Running' \cap done' = {}
    BY <1>1, <1>2, <1>5, <1>7, <1>8 DEF JInv, OnePlace
  <2> QED BY <1>4, <1>9, <2>1, <2>2 DEF OnePlace
<1>11. Fresh'
  BY <1>1 DEF JInv, Fresh, Chunking, Threads
<1> QED BY <1>10, <1>11

\* The task of a worker is done instead.
LEMMA CompletePlaces ==
  ASSUME JInv, NEW w \in Workers, NEW ok \in BOOLEAN, place[w] \in Busy, Complete(w, ok),
         UNCHANGED <<queue, stop, sent, submitted>>
  PROVE  OnePlace' /\ Fresh'
<1> USE PoolAssumption
<1>1. /\ task \in [Workers -> Tasks \cup {NoTask}] /\ place \in [Threads -> WorkerSteps \cup ClientSteps]
      /\ task' = [task EXCEPT ![w] = NoTask] /\ place' = [place EXCEPT ![w] = "ready"]
      /\ done' = done \cup {task[w]}
  BY DEF JInv, IInv, PoolTypeOK, Complete, MoveTo
<1>2. task[w] \in Tasks /\ task[w] # NoTask
  BY DEF JInv, IInv, InLoop, Tasks, NoTask
<1>3. Queued' = Queued
  BY DEF Queued
<1>4. Running' = Running \ {task[w]} /\ task[w] \in Running
  BY <1>1, <1>2 DEF Running, JInv, OnePlace
<1>5. \A u, v \in Workers : task'[u] = task'[v] /\ task'[u] # NoTask => u = v
  BY <1>1 DEF JInv, OnePlace
<1>6. OnePlace'
  BY <1>1, <1>3, <1>4, <1>5 DEF JInv, OnePlace
<1>7. Fresh'
  <2>1. \A v \in Workers : place'[v] \in Chunking => task'[v][2] = 0
    BY <1>1 DEF JInv, Fresh, Chunking, Threads
  <2>2. ASSUME NEW u \in submitted', u[2] # 0, <<u[1], 0>> \notin done'
        PROVE  \E v \in Workers : /\ task'[v] = <<u[1], 0>> /\ place'[v] \in Chunking
                                  /\ u[2] <= sent'[v]
    <3>1. PICK v \in Workers : task[v] = <<u[1], 0>> /\ place[v] \in Chunking /\ u[2] <= sent[v]
      BY <1>1, <2>2 DEF JInv, Fresh
    <3>2. v # w
      BY <1>1, <2>2, <3>1
    <3> QED BY <1>1, <3>1, <3>2 DEF Threads
  <2> QED BY <2>1, <2>2 DEF JInv, Fresh
<1> QED BY <1>6, <1>7

\* A job that starts has enqueued no chunk yet.
LEMMA StartJobPlaces ==
  ASSUME JInv, NEW w \in Workers, StartJob(w)
  PROVE  OnePlace' /\ Fresh'
<1> USE PoolAssumption
<1>1. /\ place[w] = "run" /\ task[w][2] = 0 /\ UNCHANGED <<queue, task, submitted, done>>
      /\ place' = [place EXCEPT ![w] = "enqueue"] /\ sent' = [sent EXCEPT ![w] = 0]
      /\ place \in [Threads -> WorkerSteps \cup ClientSteps] /\ sent \in [Threads -> Nat]
  BY DEF JInv, IInv, PoolTypeOK, StartJob, MoveTo, IsJob, futures
<1>2. OnePlace'
  <2>1. Queued' = Queued /\ Running' = Running
    BY <1>1 DEF Queued, Running
  <2> QED BY <1>1, <2>1 DEF JInv, OnePlace
<1>3. Fresh'
  <2>1. \A v \in Workers : place'[v] \in Chunking => task'[v][2] = 0
    BY <1>1 DEF JInv, Fresh, Chunking, Threads
  <2>2. ASSUME NEW u \in submitted', u[2] # 0, <<u[1], 0>> \notin done'
        PROVE  \E v \in Workers : /\ task'[v] = <<u[1], 0>> /\ place'[v] \in Chunking
                                  /\ u[2] <= sent'[v]
    <3>1. PICK v \in Workers : task[v] = <<u[1], 0>> /\ place[v] \in Chunking /\ u[2] <= sent[v]
      BY <1>1, <2>2 DEF JInv, Fresh
    <3>2. v # w
      BY <1>1, <3>1 DEF Chunking
    <3> QED BY <1>1, <3>1, <3>2 DEF Threads
  <2>3. sent'[Client] = sent[Client]
    BY <1>1 DEF Threads
  <2> QED BY <1>1, <2>1, <2>2, <2>3 DEF JInv, Fresh
<1> QED BY <1>2, <1>3

\* Every step keeps every task in one place.
LEMMA NextJInv == JInv /\ [PoolNext]_poolVars => JInv'
<1> SUFFICES ASSUME JInv, [PoolNext]_poolVars PROVE OnePlace' /\ Fresh'
  BY NextIInv DEF JInv
<1> USE PoolAssumption
<1>0. place \in [Threads -> WorkerSteps \cup ClientSteps]
  BY DEF JInv, IInv, PoolTypeOK
<1>1. ASSUME NEW t \in Threads, NotifyWorker(t)
      PROVE  OnePlace' /\ Fresh'
  <2>1. \A w \in Workers : place'[w] \in Chunking <=> place[w] \in Chunking
    BY <1>0, <1>1 DEF NotifyWorker, MoveTo, Chunking, Threads
  <2> QED BY <1>1, <2>1, NothingMoves DEF NotifyWorker, futures
<1>2. ASSUME NEW t \in Threads, EndLoop(t)
      PROVE  OnePlace' /\ Fresh'
  <2>1. \A w \in Workers : place'[w] \in Chunking <=> place[w] \in Chunking
    BY <1>0, <1>2 DEF EndLoop, MoveTo, Chunking, Threads
  <2> QED BY <1>2, <2>1, NothingMoves DEF EndLoop, futures
<1>3. ASSUME NEW w \in Workers, Wait(w) \/ Exit(w) \/ WorkerWakesUp(w)
      PROVE  OnePlace' /\ Fresh'
  <2>1. \A v \in Workers : place'[v] \in Chunking <=> place[v] \in Chunking
    BY <1>0, <1>3 DEF Wait, Exit, WorkerWakesUp, MoveTo, Chunking, Threads
  <2> QED BY <1>3, <2>1, NothingMoves DEF Wait, Exit, WorkerWakesUp, futures
<1>4. CASE Collected \/ SetStop \/ JoinWorkers
  <2>1. \A v \in Workers : place'[v] = place[v]
    BY <1>0, <1>4 DEF Collected, SetStop, JoinWorkers, MoveTo, Threads
  <2> QED BY <1>4, <2>1, NothingMoves DEF Collected, SetStop, JoinWorkers, futures
<1>5. CASE NotifyAll
  <2>1. \A v \in Workers : place'[v] \in Chunking <=> place[v] \in Chunking
    BY <1>0, <1>5 DEF NotifyAll, Woken, Chunking, Threads
  <2> QED BY <1>5, <2>1, NothingMoves DEF NotifyAll, futures
<1>6. ASSUME NEW w \in Workers, NEW ok \in BOOLEAN, RunLeaf(w, ok) \/ FinishJob(w, ok)
      PROVE  OnePlace' /\ Fresh'
  BY <1>6, CompletePlaces DEF RunLeaf, FinishJob, Busy
<1>7. ASSUME NEW w \in Workers, RejectedJob(w)
      PROVE  OnePlace' /\ Fresh'
  <2>1. place[w] \in Busy /\ Complete(w, FALSE) /\ UNCHANGED <<queue, stop, sent, submitted>>
    BY <1>7 DEF RejectedJob, Busy
  <2>2. FALSE \in BOOLEAN
    OBVIOUS
  <2> QED BY <2>1, <2>2, CompletePlaces, Zenon
<1>8. CASE Destroyed \/ UNCHANGED poolVars
  <2>1. UNCHANGED <<queue, task, sent, submitted, done, place>>
    BY <1>8 DEF Destroyed, poolVars, futures
  <2> QED BY <2>1, NothingMoves
<1> QED BY <1>1, <1>2, <1>3, <1>4, <1>5, <1>6, <1>7, <1>8,
           EnqueuePlaces, TakePlaces, StartJobPlaces
        DEF PoolNext, WorkerStep, ClientStep, Threads

\* For any number of workers, jobs and chunks, a task whose future was handed
\* out is once in the queue, on one worker, or done: none is run twice and none
\* is dropped.
THEOREM TasksInOnePlace == PoolSpec => []OnePlace
<1>1. JInv => OnePlace
  BY DEF JInv
<1> QED BY <1>1, InitJInv, NextJInv, PTL DEF PoolSpec
=============================================================================
