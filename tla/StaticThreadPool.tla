-------------------------- MODULE StaticThreadPool --------------------------
(***************************************************************************)
(* StaticThreadPool and its UnboundedBlockingMPMCQueue: one thread submits *)
(* tasks and joins, the workers take them.  A step is one critical section *)
(* of the queue's mutex, or the run of a task.  What a task does is not    *)
(* modelled, except that it ends (PeerConnect shows that it does).         *)
(***************************************************************************)
EXTENDS Integers, Sequences, FiniteSets

CONSTANTS
  Workers,   \* the worker threads
  NumTasks,  \* tasks submitted before Join
  Pill,      \* the empty std::function
  NoTask     \* a worker that runs nothing

ASSUME PoolAssumption ==
  /\ NumTasks \in Nat
  /\ IsFiniteSet(Workers)
  /\ Pill \notin 1 .. NumTasks /\ NoTask \notin 1 .. NumTasks \cup {Pill}

VARIABLES
  buffer,     \* buffer_ of the queue
  worker,     \* where each worker is
  task,       \* the task a worker runs
  done,       \* tasks that were run to their end
  submitted,  \* number of Submits so far
  pills,      \* number of pills put by Join
  joining     \* workers Join has not joined yet

vars == <<buffer, worker, task, done, submitted, pills, joining>>

Tasks == 1 .. NumTasks

\* Every variable keeps its type; Join puts no more pills than workers.
TypeOK ==
  /\ buffer \in Seq(Tasks \cup {Pill})
  /\ worker \in [Workers -> {"Take", "Waiting", "Running", "Over"}]
  /\ task \in [Workers -> Tasks \cup {NoTask}]
  /\ done \in SUBSET Tasks
  /\ submitted \in 0 .. NumTasks
  /\ pills \in 0 .. Cardinality(Workers)
  /\ joining \in SUBSET Workers

Init ==
  /\ buffer = <<>>
  /\ worker = [w \in Workers |-> "Take"]
  /\ task = [w \in Workers |-> NoTask]
  /\ done = {}
  /\ submitted = 0
  /\ pills = 0
  /\ joining = Workers

Waiting == {w \in Workers : worker[w] = "Waiting"}

\* Append, then notify_one: one of the waiting threads, if any, goes on.
MutPutToEmptyNotifies(item) ==
  /\ buffer' = Append(buffer, item)
  /\ IF Waiting = {} \/ buffer # <<>>
       THEN UNCHANGED worker
       ELSE \E w \in Waiting : worker' = [worker EXCEPT ![w] = "Take"]
MutPutInFront(item) ==
  /\ buffer' = <<item>> \o buffer
  /\ IF Waiting = {}
       THEN UNCHANGED worker
       ELSE \E w \in Waiting : worker' = [worker EXCEPT ![w] = "Take"]
Put(item) ==
  /\ buffer' = Append(buffer, item)
  /\ IF Waiting = {}
       THEN UNCHANGED worker
       ELSE \E w \in Waiting : worker' = [worker EXCEPT ![w] = "Take"]

Submit ==
  /\ submitted < NumTasks
  /\ Put(submitted + 1)
  /\ submitted' = submitted + 1
  /\ UNCHANGED <<task, done, pills, joining>>

\* The first loop of Join: a pill for every worker.
MutOnePillLess ==
  /\ submitted = NumTasks
  /\ pills < Cardinality(Workers) - 1
  /\ Put(Pill)
  /\ pills' = pills + 1
  /\ UNCHANGED <<task, done, submitted, joining>>
MutOnePillMore ==
  /\ submitted = NumTasks
  /\ pills <= Cardinality(Workers)
  /\ Put(Pill)
  /\ pills' = pills + 1
  /\ UNCHANGED <<task, done, submitted, joining>>
PutPill ==
  /\ submitted = NumTasks
  /\ pills < Cardinality(Workers)
  /\ Put(Pill)
  /\ pills' = pills + 1
  /\ UNCHANGED <<task, done, submitted, joining>>

\* The second loop of Join; the order of its joins does not matter.
JoinWorker(w) ==
  /\ submitted = NumTasks
  /\ pills = Cardinality(Workers)
  /\ w \in joining
  /\ worker[w] = "Over"
  /\ joining' = joining \ {w}
  /\ UNCHANGED <<buffer, worker, task, done, submitted, pills>>

Joined == joining = {}

----------------------------------------------------------------------------
\* wait releases the mutex and sleeps; it may wake with no reason.
Wait(w) ==
  /\ worker[w] = "Take"
  /\ buffer = <<>>
  /\ worker' = [worker EXCEPT ![w] = "Waiting"]
  /\ UNCHANGED <<buffer, task, done, submitted, pills, joining>>

SpuriousWakeup(w) ==
  /\ worker[w] = "Waiting"
  /\ worker' = [worker EXCEPT ![w] = "Take"]
  /\ UNCHANGED <<buffer, task, done, submitted, pills, joining>>

\* TakeLocked, and what WorkerRoutine does with the result.
MutTakeWithoutPop(w) ==
  /\ worker[w] = "Take"
  /\ buffer # <<>>
  /\ buffer' = IF Head(buffer) = Pill THEN Tail(buffer) ELSE buffer
  /\ IF Head(buffer) = Pill
       THEN worker' = [worker EXCEPT ![w] = "Over"] /\ UNCHANGED task
       ELSE /\ worker' = [worker EXCEPT ![w] = "Running"]
            /\ task' = [task EXCEPT ![w] = Head(buffer)]
  /\ UNCHANGED <<done, submitted, pills, joining>>
MutTakeFromBack(w) ==
  /\ worker[w] = "Take"
  /\ buffer # <<>>
  /\ buffer' = SubSeq(buffer, 1, Len(buffer) - 1)
  /\ LET item == buffer[Len(buffer)] IN
     IF item = Pill
       THEN worker' = [worker EXCEPT ![w] = "Over"] /\ UNCHANGED task
       ELSE /\ worker' = [worker EXCEPT ![w] = "Running"]
            /\ task' = [task EXCEPT ![w] = item]
  /\ UNCHANGED <<done, submitted, pills, joining>>
Take(w) ==
  /\ worker[w] = "Take"
  /\ buffer # <<>>
  /\ buffer' = Tail(buffer)
  /\ IF Head(buffer) = Pill
       THEN worker' = [worker EXCEPT ![w] = "Over"] /\ UNCHANGED task
       ELSE /\ worker' = [worker EXCEPT ![w] = "Running"]
            /\ task' = [task EXCEPT ![w] = Head(buffer)]
  /\ UNCHANGED <<done, submitted, pills, joining>>

RunTask(w) ==
  /\ worker[w] = "Running"
  /\ done' = done \cup {task[w]}
  /\ task' = [task EXCEPT ![w] = NoTask]
  /\ worker' = [worker EXCEPT ![w] = "Take"]
  /\ UNCHANGED <<buffer, submitted, pills, joining>>

WorkerRoutine(w) == Wait(w) \/ Take(w) \/ RunTask(w)

Main == Submit \/ PutPill \/ \E w \in Workers : JoinWorker(w)

Next == Main \/ \E w \in Workers : WorkerRoutine(w) \/ SpuriousWakeup(w)

Spec == Init /\ [][Next]_vars

\* Threads go on and tasks end; nobody counts on a spurious wakeup.
FairSpec ==
  /\ Spec
  /\ WF_vars(Main)
  /\ \A w \in Workers : WF_vars(WorkerRoutine(w))

----------------------------------------------------------------------------
(* Properties.                                                              *)

InBuffer(t) == {i \in DOMAIN buffer : buffer[i] = t}
RunBy(t)    == {w \in Workers : task[w] = t}

\* A submitted task waits once in the queue, is run by one worker, or is
\* over: none is lost, none runs twice.
EachTaskOnce ==
  \A t \in 1 .. submitted :
    Cardinality(InBuffer(t)) + Cardinality(RunBy(t)) + (IF t \in done THEN 1 ELSE 0) = 1

\* While some thread sleeps, there is an awake taker for every item: a notify
\* is never lost, although Put notifies one thread only.
NoLostWakeup ==
  Waiting # {} =>
    Len(buffer) <= Cardinality({w \in Workers : worker[w] = "Take"})

\* When Join is over every task has been run: no worker took its pill while
\* a task was still behind it.  A pool with no worker joins nobody.
JoinedMeansDone == Joined => done = Tasks

\* The tasks in a queue whose pills are at its end.
TasksIn(queue) == [i \in {j \in DOMAIN queue : queue[j] # Pill} |-> queue[i]]

\* What Download takes the pool for: the queue without its pills and the tasks
\* of the workers behave as an executor that starts the tasks in order, each
\* once, and is joined after the last.
Executor == INSTANCE TaskExecutor WITH
  Task <- Tasks,
  MaxRunning <- Cardinality(Workers),
  queued <- TasksIn(buffer),
  running <- {task[w] : w \in Workers} \ {NoTask},
  over <- Joined

ExecutorSpec == Executor!Spec

\* Join gets every worker back.
JoinTerminates == submitted = NumTasks ~> Joined
=============================================================================
