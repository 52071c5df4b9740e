----------------------------- MODULE ThreadPool -----------------------------
(***************************************************************************)
(* ThreadPool and its clients in src/utils/parallel_executor.h.            *)
(*                                                                         *)
(* A client thread enqueues Jobs, collects their futures in order and then *)
(* destroys the pool; collecting stops early when a future rethrows the    *)
(* exception its task ended with.  With Chunks = 0 a job is a plain task   *)
(* (ParallelBenchmark::runParallel, processTrace called by the client).    *)
(* With Chunks > 0 a job is the lambda of processMultipleConfigs: it calls *)
(* processTrace, which enqueues the chunks in the same pool and waits for  *)
(* their futures on the worker that runs the job.                          *)
(*                                                                         *)
(* Each region under queueMutex_ is one step.  notify_one and notify_all   *)
(* come after the unlock and are steps of their own.                       *)
(***************************************************************************)
EXTENDS Naturals, Sequences, FiniteSets

CONSTANTS Workers,    \* the pool's threads
          Client,     \* the thread that owns the pool
          NumJobs,    \* tasks the client enqueues
          Chunks      \* tasks each job enqueues itself

\* hardware_concurrency() may be 0, and a pool of no threads runs nothing.
ASSUME PoolAssumption == /\ Workers # {} /\ Client \notin Workers
                         /\ NumJobs \in Nat /\ Chunks \in Nat

Threads == Workers \cup {Client}
\* Task <<j, 0>> is job j, <<j, c>> its c-th chunk.
Tasks == (1..NumJobs) \X (0..Chunks)
IsJob(t) == t[2] = 0
NoTask == <<0, 0>>

VARIABLES queue,     \* tasks_
          stop,      \* stop_
          place,     \* where each thread is
          task,      \* the task a worker runs, NoTask if none
          sent,      \* how many tasks the current enqueueing loop has enqueued
          submitted, \* tasks enqueue has returned a future for
          done,      \* tasks whose future is ready
          failed     \* those of done whose future holds an exception

futures == <<submitted, done, failed>>
poolVars == <<queue, stop, place, task, sent, futures>>

WorkerSteps == {"ready", "waiting", "run", "enqueue", "notify", "collect", "exited"}
ClientSteps == {"enqueue", "notify", "collect", "stop", "notifyAll", "join", "end"}

PoolInit ==
  /\ queue = <<>>
  /\ stop = FALSE
  /\ place = [t \in Threads |-> IF t = Client THEN "enqueue" ELSE "ready"]
  /\ task = [w \in Workers |-> NoTask]
  /\ sent = [t \in Threads |-> 0]
  /\ submitted = {} /\ done = {} /\ failed = {}

MoveTo(t, step) == place' = [place EXCEPT ![t] = step]

\* The k-th task thread t enqueues, and how many it enqueues.
Submission(t, k) == IF t = Client THEN <<k, 0>> ELSE <<task[t][1], k>>
Quota(t) == IF t = Client THEN NumJobs ELSE Chunks

-----------------------------------------------------------------------------
(* ThreadPool::enqueue *)

Permitted == ~stop

\* Under the lock: push the task.
Enqueue(t) ==
  /\ place[t] = "enqueue"
  /\ sent[t] < Quota(t)
  /\ Permitted
  /\ queue' = Append(queue, Submission(t, sent[t] + 1))
  /\ sent' = [sent EXCEPT ![t] = @ + 1]
  /\ submitted' = submitted \cup {Submission(t, sent[t] + 1)}
  /\ MoveTo(t, "notify")
  /\ UNCHANGED <<stop, task, done, failed>>

\* Faulty variant: nobody is notified.
NotifyNoWorker(t) ==
  /\ place[t] = "notify"
  /\ MoveTo(t, "enqueue")
  /\ UNCHANGED <<queue, stop, task, sent, futures>>

\* condition_.notify_one(): one of the waiting workers, if any, wakes up.
NotifyWorker(t) ==
  LET waiting == {w \in Workers : place[w] = "waiting"}
  IN  /\ place[t] = "notify"
      /\ \/ waiting = {} /\ MoveTo(t, "enqueue")
         \/ \E w \in waiting : place' = [place EXCEPT ![t] = "enqueue", ![w] = "ready"]
      /\ UNCHANGED <<queue, stop, task, sent, futures>>

\* The loop is over: wait for the futures.
EndLoop(t) ==
  /\ place[t] = "enqueue"
  /\ sent[t] = Quota(t)
  /\ MoveTo(t, "collect")
  /\ UNCHANGED <<queue, stop, task, sent, futures>>

-----------------------------------------------------------------------------
(* The worker loop *)

\* Faulty variant: a stopped worker leaves without looking at the queue.
LeavesOnStop == stop

MayLeave == stop /\ queue = <<>>

\* The wait predicate is evaluated with the mutex held, on entry and after
\* every wake-up.
Wait(w) ==
  /\ place[w] = "ready"
  /\ ~stop /\ queue = <<>>
  /\ MoveTo(w, "waiting")
  /\ UNCHANGED <<queue, stop, task, sent, futures>>

Exit(w) ==
  /\ place[w] = "ready"
  /\ MayLeave
  /\ MoveTo(w, "exited")
  /\ UNCHANGED <<queue, stop, task, sent, futures>>

\* Faulty variant: the front of the queue is read but not popped.
PopNothing == queue' = queue

Pop == queue' = Tail(queue)

Take(w) ==
  /\ place[w] = "ready"
  /\ queue # <<>>
  /\ Pop
  /\ task' = [task EXCEPT ![w] = Head(queue)]
  /\ MoveTo(w, "run")
  /\ UNCHANGED <<stop, sent, futures>>

\* A condition variable may wake up with no notification.
WorkerWakesUp(w) ==
  /\ place[w] = "waiting"
  /\ MoveTo(w, "ready")
  /\ UNCHANGED <<queue, stop, task, sent, futures>>

\* The packaged_task stores a value or an exception: its future is ready.
Complete(w, ok) ==
  /\ done' = done \cup {task[w]}
  /\ failed' = IF ok THEN failed ELSE failed \cup {task[w]}
  /\ task' = [task EXCEPT ![w] = NoTask]
  /\ MoveTo(w, "ready")

\* A task that enqueues nothing: processChunk, runSingleBenchmark, or a job
\* whose partitionTrace cannot open the file.
RunLeaf(w, ok) ==
  /\ place[w] = "run"
  /\ Chunks > 0 /\ IsJob(task[w]) => ~ok
  /\ Complete(w, ok)
  /\ UNCHANGED <<queue, stop, sent, submitted>>

\* A job of processMultipleConfigs starts processTrace.
StartJob(w) ==
  /\ place[w] = "run"
  /\ Chunks > 0 /\ IsJob(task[w])
  /\ sent' = [sent EXCEPT ![w] = 0]
  /\ MoveTo(w, "enqueue")
  /\ UNCHANGED <<queue, stop, task, futures>>

\* future.get() on the chunks in order: every one, or up to one that throws.
FinishJob(w, ok) ==
  LET chunk(c) == <<task[w][1], c>>
  IN  /\ place[w] = "collect"
      /\ \E k \in 0..Chunks :
           /\ \A c \in 1..k : chunk(c) \in done
           /\ \A c \in 1..(k - 1) : chunk(c) \notin failed
           /\ IF ok THEN k = Chunks /\ chunk(k) \notin failed ELSE chunk(k) \in failed
      /\ Complete(w, ok)
      /\ UNCHANGED <<queue, stop, sent, submitted>>

\* enqueue throws on a stopped pool and the exception ends the job.
RejectedJob(w) ==
  /\ place[w] = "enqueue"
  /\ sent[w] < Chunks
  /\ ~Permitted
  /\ Complete(w, FALSE)
  /\ UNCHANGED <<queue, stop, sent, submitted>>

-----------------------------------------------------------------------------
(* The client: future.get() on every job, then ~ThreadPool *)

Collected ==
  /\ place[Client] = "collect"
  /\ \E k \in 0..NumJobs :
       /\ \A j \in 1..k : <<j, 0>> \in done
       /\ k = NumJobs \/ <<k, 0>> \in failed
  /\ MoveTo(Client, "stop")
  /\ UNCHANGED <<queue, stop, task, sent, futures>>

SetStop ==
  /\ place[Client] = "stop"
  /\ stop' = TRUE
  /\ MoveTo(Client, "notifyAll")
  /\ UNCHANGED <<queue, task, sent, futures>>

\* Faulty variant: the destructor wakes one worker only.
WokenByOne(W) == IF W = {} THEN {} ELSE {CHOOSE w \in W : TRUE}

Woken(W) == W

NotifyAll ==
  LET waiting == {w \in Workers : place[w] = "waiting"}
  IN  /\ place[Client] = "notifyAll"
      /\ place' = [t \in Threads |-> IF t = Client THEN "join"
                                  ELSE IF t \in Woken(waiting) THEN "ready" ELSE place[t]]
      /\ UNCHANGED <<queue, stop, task, sent, futures>>

JoinWorkers ==
  /\ place[Client] = "join"
  /\ \A w \in Workers : place[w] = "exited"
  /\ MoveTo(Client, "end")
  /\ UNCHANGED <<queue, stop, task, sent, futures>>

-----------------------------------------------------------------------------
WorkerStep(w) == \/ Wait(w) \/ Exit(w) \/ Take(w)
                 \/ \E ok \in BOOLEAN : RunLeaf(w, ok) \/ FinishJob(w, ok)
                 \/ Enqueue(w) \/ NotifyWorker(w) \/ EndLoop(w)
                 \/ StartJob(w) \/ RejectedJob(w)

ClientStep == \/ Enqueue(Client) \/ NotifyWorker(Client) \/ EndLoop(Client)
              \/ Collected \/ SetStop \/ NotifyAll \/ JoinWorkers

Destroyed == place[Client] = "end" /\ UNCHANGED poolVars

PoolNext ==
  \/ \E w \in Workers : WorkerStep(w) \/ WorkerWakesUp(w)
  \/ ClientStep
  \/ Destroyed

PoolSpec == PoolInit /\ [][PoolNext]_poolVars

\* Every thread that can go on eventually does: it only ever waits for the
\* mutex, for a notification or for a future.  Spurious wake-ups may or may
\* not happen.
PoolFairSpec == PoolSpec /\ WF_poolVars(ClientStep) /\ \A w \in Workers : WF_poolVars(WorkerStep(w))

-----------------------------------------------------------------------------
(* Properties *)

Queued == {queue[i] : i \in 1..Len(queue)}
Running == {task[w] : w \in Workers} \ {NoTask}

\* The queue holds tasks, a worker runs one or none, and a future that holds
\* an exception is ready.
PoolTypeOK ==
  /\ queue \in Seq(Tasks)
  /\ stop \in BOOLEAN
  /\ place \in [Threads -> WorkerSteps \cup ClientSteps]
  /\ task \in [Workers -> Tasks \cup {NoTask}]
  /\ sent \in [Threads -> Nat]
  /\ submitted \subseteq Tasks
  /\ done \subseteq Tasks
  /\ failed \subseteq done

\* A task whose future was handed out is in exactly one place: once in the
\* queue, on one worker, or done.  No task is run twice and none is dropped
\* between the queue and a worker.
OnePlace == /\ submitted = Queued \cup Running \cup done
            /\ Queued \cap Running = {} /\ Queued \cap done = {} /\ Running \cap done = {}
            /\ \A i, j \in 1..Len(queue) : queue[i] = queue[j] => i = j
            /\ \A v, w \in Workers : task[v] = task[w] /\ task[v] # NoTask => v = w

\* When ~ThreadPool returns, every task enqueue ever accepted has been run,
\* those that were still queued when stop_ was set included: no future the
\* pool gave out is left without an answer.
NothingLost == place[Client] = "end" => submitted \subseteq done

\* The call that enqueues the jobs and collects their futures returns.
ResultsReturned == place[Client] = "collect" ~> place[Client] = "stop"
=============================================================================
