---------------------- MODULE StaticThreadPoolProofs ----------------------
(* What the pool promises for any number of workers and of tasks.          *)
EXTENDS StaticThreadPool, SequenceTheorems, FiniteSetTheorems, TLAPS

Item == Tasks \cup {Pill}

----------------------------------------------------------------------------
(* Type correctness and what a step does to the queue.                      *)

\* Put appends one item and may wake one sleeping thread.
LEMMA PutAppends ==
  ASSUME TypeOK, NEW item \in Item, Put(item)
  PROVE  /\ buffer' \in Seq(Item) /\ Len(buffer) \in Nat /\ Len(buffer') = Len(buffer) + 1
         /\ \A i \in 1 .. Len(buffer) : buffer'[i] = buffer[i]
         /\ buffer'[Len(buffer) + 1] = item
         /\ \/ Waiting = {} /\ worker' = worker
            \/ \E w \in Waiting : worker' = [worker EXCEPT ![w] = "Take"]
<1>1. buffer \in Seq(Item)
  BY DEF TypeOK, Item
<1> QED BY <1>1, AppendProperties, LenProperties DEF Put

\* A worker takes the head; the others move up.
LEMMA TakeShifts ==
  ASSUME TypeOK, NEW w \in Workers, Take(w)
  PROVE  /\ buffer' \in Seq(Item) /\ Len(buffer) \in Nat \ {0} /\ Len(buffer') = Len(buffer) - 1
         /\ \A i \in 1 .. Len(buffer') : buffer'[i] = buffer[i + 1]
         /\ Head(buffer) = buffer[1] /\ buffer[1] \in Item
<1>1. buffer \in Seq(Item) /\ buffer # <<>>
  BY DEF TypeOK, Item, Take
<1> QED BY <1>1, HeadTailProperties, EmptySeq, LenProperties DEF Take

\* The number of workers is a number.
LEMMA WorkersCounted == Cardinality(Workers) \in Nat
BY PoolAssumption, FS_CardinalityType

\* A worker has a task exactly while it runs one.
TypeInv == TypeOK /\ \A w \in Workers : worker[w] = "Running" <=> task[w] # NoTask

LEMMA InitTypeInv == Init => TypeInv
<1> SUFFICES ASSUME Init PROVE TypeInv
  OBVIOUS
<1>1. buffer \in Seq(Tasks \cup {Pill})
  BY EmptySeq DEF Init
<1> QED BY <1>1, PoolAssumption, WorkersCounted DEF Init, TypeOK, TypeInv

\* Every step keeps the types; what a worker is done with was a task.
LEMMA TypeStep == TypeInv /\ [Next]_vars => TypeInv'
<1> SUFFICES ASSUME TypeInv, [Next]_vars PROVE TypeInv'
  OBVIOUS
<1> USE PoolAssumption, WorkersCounted DEF TypeInv, TypeOK
<1>1. CASE Submit
  <2>1. submitted + 1 \in Item /\ submitted + 1 \in 0 .. NumTasks
    BY <1>1 DEF Submit, Item, Tasks
  <2> QED BY <1>1, <2>1, PutAppends DEF Submit, Item, Waiting
<1>2. CASE PutPill
  BY <1>2, PutAppends DEF PutPill, Item, Waiting
<1>3. ASSUME NEW w \in Workers, JoinWorker(w) PROVE TypeInv'
  BY <1>3 DEF JoinWorker
<1>4. ASSUME NEW w \in Workers, Wait(w) \/ SpuriousWakeup(w) PROVE TypeInv'
  BY <1>4 DEF Wait, SpuriousWakeup
<1>5. ASSUME NEW w \in Workers, Take(w) PROVE TypeInv'
  <2>1. Head(buffer) # Pill => Head(buffer) \in Tasks /\ Head(buffer) # NoTask
    BY <1>5, TakeShifts DEF Item, Tasks
  <2> QED BY <1>5, <2>1, TakeShifts DEF Take, Item
<1>6. ASSUME NEW w \in Workers, RunTask(w) PROVE TypeInv'
  <2>1. done' \in SUBSET Tasks
    BY <1>6 DEF RunTask
  <2> QED BY <1>6, <2>1 DEF RunTask
<1>7. CASE UNCHANGED vars
  BY <1>7 DEF vars
<1> QED BY <1>1, <1>2, <1>3, <1>4, <1>5, <1>6, <1>7 DEF Next, Main, WorkerRoutine

\* A worker that calls a task has one, and never calls the empty function;
\* Join puts as many pills as there are workers and no more.
THEOREM TypeCorrect == Spec => []TypeOK
<1>1. TypeInv => TypeOK
  BY DEF TypeInv
<1> QED BY <1>1, InitTypeInv, TypeStep, PTL DEF Spec

----------------------------------------------------------------------------
(* No lost wakeup.                                                          *)

Takers == {w \in Workers : worker[w] = "Take"}

\* A thread that goes from one place to another is counted in one set more
\* and in one less.
LEMMA TakersCount ==
  ASSUME TypeOK, NEW w \in Workers, NEW place \in {"Take", "Waiting", "Running", "Over"},
         worker' = [worker EXCEPT ![w] = place]
  PROVE  /\ Cardinality(Takers) \in Nat /\ Cardinality(Takers') \in Nat
         /\ place = "Take" /\ worker[w] # "Take" =>
              Cardinality(Takers') = Cardinality(Takers) + 1
         /\ place # "Take" /\ worker[w] = "Take" =>
              Cardinality(Takers') = Cardinality(Takers) - 1
<1>1. IsFiniteSet(Takers) /\ IsFiniteSet(Takers')
  BY PoolAssumption, FS_Subset DEF Takers
<1>2. Cardinality(Takers) \in Nat /\ Cardinality(Takers') \in Nat
  BY <1>1, FS_CardinalityType
<1>3. ASSUME place = "Take", worker[w] # "Take"
      PROVE  Cardinality(Takers') = Cardinality(Takers) + 1
  <2>1. Takers' = Takers \cup {w} /\ w \notin Takers
    BY <1>3 DEF Takers, TypeOK
  <2> QED BY <1>1, <2>1, FS_AddElement
<1>4. ASSUME place # "Take", worker[w] = "Take"
      PROVE  Cardinality(Takers') = Cardinality(Takers) - 1
  <2>1. Takers' = Takers \ {w} /\ w \in Takers
    BY <1>4 DEF Takers, TypeOK
  <2> QED BY <1>1, <2>1, FS_RemoveElement
<1> QED BY <1>2, <1>3, <1>4

\* While a thread sleeps, every item in the queue has a thread awake to take
\* it: notify_one after each Put is enough, though a worker that comes from
\* a task may take the item from under the one that was woken.
THEOREM WakeupsKept == Spec => []NoLostWakeup
<1>1. Init => NoLostWakeup
  BY DEF Init, NoLostWakeup, Waiting
<1>2. TypeInv /\ NoLostWakeup /\ [Next]_vars => NoLostWakeup'
  <2> SUFFICES ASSUME TypeInv, NoLostWakeup, [Next]_vars, Waiting' # {}
               PROVE  Len(buffer') <= Cardinality(Takers')
    BY DEF NoLostWakeup, Takers
  <2>1. TypeOK /\ (Waiting # {} => Len(buffer) <= Cardinality(Takers)) /\ Len(buffer) \in Nat
    BY LenProperties DEF TypeInv, TypeOK, NoLostWakeup, Takers
  <2>2. ASSUME NEW item \in Item, Put(item) PROVE Len(buffer') <= Cardinality(Takers')
    <3>1. Len(buffer') = Len(buffer) + 1
      BY <2>1, <2>2, PutAppends
    <3>2. Waiting # {}
      BY <2>1, <2>2, PutAppends DEF Waiting
    <3>3. PICK w \in Waiting : worker' = [worker EXCEPT ![w] = "Take"]
      BY <2>1, <2>2, <3>2, PutAppends
    <3>4. w \in Workers /\ worker[w] # "Take"
      BY DEF Waiting
    <3>5. /\ Cardinality(Takers') = Cardinality(Takers) + 1
          /\ Cardinality(Takers) \in Nat
      BY <2>1, <3>3, <3>4, TakersCount
    <3> QED BY <2>1, <3>1, <3>2, <3>5
  <2>3. CASE Submit \/ PutPill
    <3>1. Submit => submitted + 1 \in Item
      BY <2>1, PoolAssumption DEF Submit, Item, Tasks, TypeOK
    <3> QED BY <2>2, <2>3, <3>1 DEF Submit, PutPill, Item
  <2>4. CASE UNCHANGED <<buffer, worker>>
    BY <2>1, <2>4 DEF Waiting, Takers
  <2>5. ASSUME NEW w \in Workers, Wait(w) PROVE Len(buffer') <= Cardinality(Takers')
    <3>1. Len(buffer') = 0
      BY <2>5, EmptySeq DEF Wait
    <3>2. Cardinality(Takers') \in Nat
      BY <2>1, <2>5, TakersCount DEF Wait
    <3> QED BY <3>1, <3>2
  <2>6. ASSUME NEW w \in Workers, SpuriousWakeup(w) PROVE Len(buffer') <= Cardinality(Takers')
    <3>1. w \in Waiting
      BY <2>6 DEF SpuriousWakeup, Waiting
    <3>2. /\ Cardinality(Takers') = Cardinality(Takers) + 1
          /\ Cardinality(Takers) \in Nat
      BY <2>1, <2>6, TakersCount DEF SpuriousWakeup
    <3> QED BY <2>1, <2>6, <3>1, <3>2 DEF SpuriousWakeup
  <2>7. ASSUME NEW w \in Workers, Take(w) PROVE Len(buffer') <= Cardinality(Takers')
    <3>1. \E place \in {"Running", "Over"} : worker' = [worker EXCEPT ![w] = place]
      BY <2>7 DEF Take
    <3>2. Waiting # {}
      BY <2>1, <3>1 DEF Waiting, TypeOK
    <3>3. /\ Cardinality(Takers') = Cardinality(Takers) - 1
          /\ Cardinality(Takers) \in Nat
      BY <2>1, <2>7, <3>1, TakersCount DEF Take
    <3>4. Len(buffer') = Len(buffer) - 1
      BY <2>1, <2>7, TakeShifts
    <3> QED BY <2>1, <3>2, <3>3, <3>4
  <2>8. ASSUME NEW w \in Workers, RunTask(w) PROVE Len(buffer') <= Cardinality(Takers')
    <3>1. Waiting # {}
      BY <2>1, <2>8 DEF Waiting, RunTask, TypeOK
    <3>2. /\ Cardinality(Takers') = Cardinality(Takers) + 1
          /\ Cardinality(Takers) \in Nat
      BY <2>1, <2>8, TakersCount DEF RunTask
    <3> QED BY <2>1, <2>8, <3>1, <3>2 DEF RunTask
  <2> QED BY <2>3, <2>4, <2>5, <2>6, <2>7, <2>8
          DEF Next, Main, WorkerRoutine, JoinWorker, vars
<1> QED BY <1>1, <1>2, InitTypeInv, TypeStep, PTL DEF Spec

----------------------------------------------------------------------------
(* Each task once, and all of them before Join returns.                     *)

\* A queued task is at one index, was submitted, and nobody has it or is
\* done with it.
QueuedOnce ==
  \A i \in DOMAIN buffer : buffer[i] # Pill =>
    /\ buffer[i] <= submitted /\ buffer[i] \notin done
    /\ \A w \in Workers : task[w] # buffer[i]
    /\ \A j \in DOMAIN buffer : buffer[j] = buffer[i] => j = i

\* A task that is run was submitted, is not over and has one worker.
RunOnce ==
  \A w \in Workers : task[w] # NoTask =>
    /\ task[w] <= submitted /\ task[w] \notin done
    /\ \A v \in Workers : task[v] = task[w] => v = w

\* Only submitted tasks are over, and no submitted task is forgotten.
NoneLost ==
  /\ \A t \in done : t <= submitted
  /\ \A t \in 1 .. submitted :
       \/ \E i \in DOMAIN buffer : buffer[i] = t
       \/ \E w \in Workers : task[w] = t
       \/ t \in done

\* Behind a pill there are only pills, and no Submit comes any more; a worker
\* that took its pill, as every joined worker has, left no task in the queue.
PillsLast ==
  /\ \A i \in DOMAIN buffer : buffer[i] = Pill =>
       /\ submitted = NumTasks
       /\ \A j \in DOMAIN buffer : i <= j => buffer[j] = Pill
  /\ \A w \in Workers : worker[w] = "Over" =>
       submitted = NumTasks /\ \A i \in DOMAIN buffer : buffer[i] = Pill
  /\ \A w \in Workers \ joining : worker[w] = "Over"

PoolInv == TypeInv /\ QueuedOnce /\ RunOnce /\ NoneLost /\ PillsLast

\* At first there is no task anywhere.
LEMMA InitPoolInv == Init => PoolInv
<1> SUFFICES ASSUME Init PROVE QueuedOnce /\ RunOnce /\ NoneLost /\ PillsLast
  BY InitTypeInv DEF PoolInv
<1>1. DOMAIN buffer = {}
  BY DEF Init
<1> QED BY <1>1 DEF Init, QueuedOnce, RunOnce, NoneLost, PillsLast

\* A Put of the next task or of a pill.
LEMMA PutKeeps ==
  ASSUME PoolInv, TypeInv', NEW item \in Item, Put(item),
         UNCHANGED <<task, done, joining>>,
         \/ item = submitted + 1 /\ submitted' = submitted + 1 /\ submitted < NumTasks
         \/ item = Pill /\ submitted' = submitted /\ submitted = NumTasks
  PROVE  QueuedOnce' /\ RunOnce' /\ NoneLost' /\ PillsLast'
<1> DEFINE n == Len(buffer)
<1>1. /\ TypeOK /\ QueuedOnce /\ RunOnce /\ NoneLost /\ PillsLast /\ submitted \in Nat
      /\ \A w \in Workers : task[w] # NoTask => task[w] \in Tasks
      /\ done \subseteq Tasks
  BY PoolAssumption DEF PoolInv, TypeInv, TypeOK
<1>2. /\ n \in Nat /\ DOMAIN buffer = 1 .. n /\ DOMAIN buffer' = 1 .. n + 1
      /\ \A i \in 1 .. n : buffer'[i] = buffer[i] /\ buffer[i] \in Item
      /\ buffer'[n + 1] = item
  <2>1. buffer \in Seq(Item) /\ buffer' \in Seq(Item)
    BY <1>1, PutAppends DEF TypeOK, Item
  <2> QED BY <1>1, <2>1, PutAppends, LenProperties
<1> HIDE DEF n
<1>3. /\ \A i \in DOMAIN buffer' : (i \in DOMAIN buffer /\ buffer'[i] = buffer[i]) \/ (i = n + 1 /\ buffer'[i] = item)
      /\ \A i \in DOMAIN buffer : i \in DOMAIN buffer' /\ i # n + 1 /\ i < n + 1
      /\ n + 1 \in DOMAIN buffer'
  BY <1>2
<1>4. \A w \in Workers : worker'[w] = "Over" => worker[w] = "Over"
  BY <1>1, PutAppends DEF TypeOK, Waiting
<1>5. \A w \in Workers : worker[w] = "Over" => worker'[w] = "Over"
  BY <1>1, PutAppends DEF TypeOK, Waiting
<1>6. QueuedOnce'
  <2>1. ASSUME item # Pill
        PROVE  /\ \A i \in DOMAIN buffer : buffer[i] # item
               /\ item \notin done /\ \A w \in Workers : task[w] # item
    <3>1. item = submitted + 1 /\ item \in Tasks
      BY <2>1 DEF Item
    <3>2. ~(item <= submitted)
      BY <1>1, <3>1
    <3> QED BY <1>1, <3>1, <3>2, <2>1, PoolAssumption DEF QueuedOnce, RunOnce, NoneLost, Tasks
  <2>2. \A i \in DOMAIN buffer : buffer[i] # Pill => buffer[i] <= submitted'
    <3> SUFFICES ASSUME NEW i \in DOMAIN buffer, buffer[i] # Pill PROVE buffer[i] <= submitted'
      OBVIOUS
    <3>1. buffer[i] \in 1 .. NumTasks /\ buffer[i] <= submitted
      BY <1>1, <1>2 DEF QueuedOnce, Item, Tasks
    <3> QED BY <1>1, <3>1
  <2>3. item # Pill => item <= submitted'
    BY <1>1
  <2> QED BY <1>1, <1>3, <2>1, <2>2, <2>3 DEF QueuedOnce
<1>7. RunOnce' /\ NoneLost'
  <2>1. RunOnce'
    <3>1. \A w \in Workers : task[w] # NoTask => task[w] <= submitted'
      BY <1>1 DEF RunOnce, Tasks
    <3> QED BY <1>1, <3>1 DEF RunOnce
  <2>2. \A t \in done : t <= submitted'
    BY <1>1 DEF NoneLost, Tasks
  <2>3. \A t \in 1 .. submitted' : t \in 1 .. submitted \/ t = item
    BY <1>1
  <2> QED BY <1>1, <1>2, <1>3, <2>1, <2>2, <2>3 DEF NoneLost
<1>8. PillsLast'
  <2>1. item # Pill => /\ submitted < NumTasks
                       /\ \A i \in DOMAIN buffer : buffer[i] # Pill
                       /\ \A w \in Workers : worker[w] # "Over"
    BY <1>1, PoolAssumption DEF PillsLast
  <2>2. \A i, j \in DOMAIN buffer' : i <= j /\ buffer'[i] = Pill => buffer'[j] = Pill
    BY <1>1, <1>2, <1>3, <2>1 DEF PillsLast
  <2>3. \A i \in DOMAIN buffer' : buffer'[i] = Pill => submitted' = NumTasks
    <3>1. item = Pill => submitted' = NumTasks
      BY <1>1, PoolAssumption
    <3> QED BY <1>1, <1>3, <2>1, <3>1
  <2>4. \A w \in Workers : worker'[w] = "Over" =>
          submitted' = NumTasks /\ \A i \in DOMAIN buffer' : buffer'[i] = Pill
    BY <1>1, <1>3, <1>4, <2>1 DEF PillsLast
  <2>5. \A w \in Workers \ joining' : worker'[w] = "Over"
    BY <1>1, <1>5 DEF PillsLast
  <2> QED BY <2>2, <2>3, <2>4, <2>5 DEF PillsLast
<1> QED BY <1>6, <1>7, <1>8

\* A worker takes the head of the queue.
LEMMA TakeKeeps ==
  ASSUME PoolInv, NEW w \in Workers, Take(w)
  PROVE  QueuedOnce' /\ RunOnce' /\ NoneLost' /\ PillsLast'
<1> DEFINE item == buffer[1]
<1>1. /\ TypeOK /\ QueuedOnce /\ RunOnce /\ NoneLost /\ PillsLast
      /\ worker[w] = "Take" /\ task[w] = NoTask
      /\ UNCHANGED <<done, submitted, joining>>
  BY DEF PoolInv, TypeInv, TypeOK, Take
<1>2. /\ 1 \in DOMAIN buffer /\ item \in Item
      /\ \A i \in DOMAIN buffer' : i + 1 \in DOMAIN buffer /\ buffer'[i] = buffer[i + 1]
      /\ \A i \in DOMAIN buffer' : i \in Nat /\ 1 <= i /\ i + 1 # 1
      /\ \A i \in DOMAIN buffer : i = 1 \/ (i - 1 \in DOMAIN buffer' /\ buffer'[i - 1] = buffer[i])
      /\ \A i \in DOMAIN buffer : i \in Nat /\ 1 <= i
  <2>1. buffer \in Seq(Item) /\ buffer' \in Seq(Item)
    BY <1>1, TakeShifts DEF TypeOK, Item
  <2> DEFINE n == Len(buffer)
  <2>2. /\ n \in Nat \ {0} /\ DOMAIN buffer = 1 .. n /\ DOMAIN buffer' = 1 .. n - 1
        /\ \A i \in 1 .. n - 1 : buffer'[i] = buffer[i + 1]
        /\ item \in Item
    BY <1>1, <2>1, TakeShifts, LenProperties
  <2> HIDE DEF n, item
  <2>3. \A i \in 1 .. n : i = 1 \/ (i - 1 \in 1 .. n - 1 /\ (i - 1) + 1 = i)
    BY <2>2
  <2>4. \A i \in 1 .. n : i = 1 \/ buffer'[i - 1] = buffer[i]
    <3> SUFFICES ASSUME NEW i \in 1 .. n, i # 1 PROVE buffer'[i - 1] = buffer[i]
      OBVIOUS
    <3>1. i - 1 \in 1 .. n - 1 /\ (i - 1) + 1 = i
      BY <2>3
    <3>2. buffer'[i - 1] = buffer[(i - 1) + 1]
      BY <2>2, <3>1
    <3> QED BY <3>1, <3>2
  <2> QED BY <2>2, <2>3, <2>4
<1>3. IF item = Pill
        THEN worker' = [worker EXCEPT ![w] = "Over"] /\ task' = task
        ELSE worker' = [worker EXCEPT ![w] = "Running"] /\ task' = [task EXCEPT ![w] = item]
  BY <1>1, TakeShifts DEF Take
<1> HIDE DEF item
<1>4. \A i \in DOMAIN buffer' : /\ buffer'[i] # Pill => buffer'[i] # item
                                /\ item = Pill => buffer'[i] = Pill
  BY <1>1, <1>2 DEF QueuedOnce, PillsLast, item
<1>5. \A v \in Workers : task'[v] = task[v] \/ (v = w /\ task'[v] = item /\ item # Pill)
  BY <1>1, <1>3 DEF TypeOK
<1>6. QueuedOnce'
  BY <1>1, <1>2, <1>4, <1>5 DEF QueuedOnce
<1>7. item # Pill => item <= submitted /\ item \notin done /\ \A v \in Workers : task[v] # item
  BY <1>1, <1>2 DEF QueuedOnce, item
<1>8. RunOnce'
  BY <1>1, <1>3, <1>5, <1>7 DEF RunOnce, TypeOK
<1>9. NoneLost'
  <2> SUFFICES ASSUME NEW t \in 1 .. submitted
               PROVE  \/ \E i \in DOMAIN buffer' : buffer'[i] = t
                      \/ \E v \in Workers : task'[v] = t
                      \/ t \in done
    BY <1>1 DEF NoneLost
  <2>1. t # Pill /\ t # NoTask
    BY <1>1, PoolAssumption DEF TypeOK
  <2>2. CASE \E i \in DOMAIN buffer : buffer[i] = t
    BY <1>1, <1>2, <1>3, <2>1, <2>2 DEF item, TypeOK
  <2>3. CASE \E v \in Workers : task[v] = t
    BY <1>1, <1>3, <2>1, <2>3 DEF TypeOK
  <2> QED BY <1>1, <2>2, <2>3 DEF NoneLost
<1>10. PillsLast'
  <2>1. \A i, j \in DOMAIN buffer' : i <= j /\ buffer'[i] = Pill => buffer'[j] = Pill
    BY <1>1, <1>2 DEF PillsLast
  <2>2. \A i \in DOMAIN buffer' : buffer'[i] = Pill => submitted = NumTasks
    BY <1>1, <1>2 DEF PillsLast
  <2>3. item = Pill => submitted = NumTasks
    BY <1>1, <1>2 DEF PillsLast, item
  <2>4. \A v \in Workers : \/ v # w /\ worker'[v] = worker[v]
                           \/ v = w /\ item = Pill /\ worker'[v] = "Over"
                           \/ v = w /\ worker'[v] = "Running"
    BY <1>1, <1>3 DEF TypeOK
  <2>5. \A v \in Workers : worker[v] = "Over" => \A i \in DOMAIN buffer' : buffer'[i] = Pill
    BY <1>1, <1>2 DEF PillsLast
  <2>6. \A v \in Workers \ joining : v # w
    BY <1>1 DEF PillsLast
  <2> QED BY <1>1, <1>4, <2>1, <2>2, <2>3, <2>4, <2>5, <2>6 DEF PillsLast
<1> QED BY <1>6, <1>8, <1>9, <1>10

\* No step loses a task, runs one twice or overtakes one with a pill.
LEMMA PoolStep == PoolInv /\ [Next]_vars => PoolInv'
<1> SUFFICES ASSUME PoolInv, [Next]_vars PROVE QueuedOnce' /\ RunOnce' /\ NoneLost' /\ PillsLast'
  BY TypeStep DEF PoolInv
<1>1. TypeInv /\ TypeInv' /\ TypeOK /\ QueuedOnce /\ RunOnce /\ NoneLost /\ PillsLast
  BY TypeStep DEF PoolInv, TypeInv
<1>2. CASE Submit
  BY <1>1, <1>2, PutKeeps, PoolAssumption DEF Submit, Item, Tasks, TypeOK
<1>3. CASE PutPill
  BY <1>1, <1>3, PutKeeps DEF PutPill, Item
<1>4. ASSUME NEW w \in Workers, JoinWorker(w) PROVE QueuedOnce' /\ RunOnce' /\ NoneLost' /\ PillsLast'
  BY <1>1, <1>4 DEF JoinWorker, QueuedOnce, RunOnce, NoneLost, PillsLast
<1>5. ASSUME NEW w \in Workers, Wait(w) \/ SpuriousWakeup(w)
      PROVE  QueuedOnce' /\ RunOnce' /\ NoneLost' /\ PillsLast'
  BY <1>1, <1>5 DEF Wait, SpuriousWakeup, QueuedOnce, RunOnce, NoneLost, PillsLast, TypeOK
<1>6. ASSUME NEW w \in Workers, Take(w) PROVE QueuedOnce' /\ RunOnce' /\ NoneLost' /\ PillsLast'
  BY <1>6, TakeKeeps
<1>7. ASSUME NEW w \in Workers, RunTask(w) PROVE QueuedOnce' /\ RunOnce' /\ NoneLost' /\ PillsLast'
  <2>1. /\ worker[w] = "Running" /\ task[w] # NoTask /\ done' = done \cup {task[w]}
        /\ task' = [task EXCEPT ![w] = NoTask] /\ worker' = [worker EXCEPT ![w] = "Take"]
        /\ UNCHANGED <<buffer, submitted, joining>>
    BY <1>1, <1>7 DEF RunTask, TypeInv
  <2>2. \A v \in Workers : task'[v] = IF v = w THEN NoTask ELSE task[v]
    BY <1>1, <2>1 DEF TypeOK
  <2>3. QueuedOnce'
    <3>1. \A i \in DOMAIN buffer : buffer[i] # Pill => buffer[i] # NoTask
      BY <1>1, LenProperties, PoolAssumption DEF TypeOK, Tasks
    <3> QED BY <1>1, <2>1, <2>2, <3>1 DEF QueuedOnce
  <2>4. RunOnce'
    BY <1>1, <2>1, <2>2 DEF RunOnce
  <2>5. NoneLost'
    <3>1. \A t \in 1 .. submitted : t # NoTask
      BY <1>1, PoolAssumption DEF TypeOK
    <3> QED BY <1>1, <2>1, <2>2, <3>1 DEF NoneLost, RunOnce
  <2>6. PillsLast'
    BY <1>1, <2>1 DEF PillsLast, TypeOK
  <2> QED BY <2>3, <2>4, <2>5, <2>6
<1>8. CASE UNCHANGED vars
  BY <1>1, <1>8 DEF vars, QueuedOnce, RunOnce, NoneLost, PillsLast
<1> QED BY <1>2, <1>3, <1>4, <1>5, <1>6, <1>7, <1>8 DEF Next, Main, WorkerRoutine

\* A submitted task waits once in the queue, is run by one worker, or is
\* over: no task is lost or run twice, however the workers interleave.
THEOREM TasksRunOnce == Spec => []EachTaskOnce
<1>1. PoolInv => EachTaskOnce
  <2> SUFFICES ASSUME PoolInv, NEW t \in 1 .. submitted
               PROVE  Cardinality(InBuffer(t)) + Cardinality(RunBy(t)) + (IF t \in done THEN 1 ELSE 0) = 1
    BY DEF EachTaskOnce
  <2>1. /\ TypeOK /\ QueuedOnce /\ RunOnce /\ NoneLost /\ t # Pill /\ t # NoTask
    BY PoolAssumption DEF PoolInv, TypeInv, TypeOK
  <2>2. CASE \E i \in DOMAIN buffer : buffer[i] = t
    <3>1. PICK i \in DOMAIN buffer : buffer[i] = t
      BY <2>2
    <3>2. InBuffer(t) = {i} /\ RunBy(t) = {} /\ t \notin done
      BY <2>1, <3>1 DEF QueuedOnce, InBuffer, RunBy
    <3>3. Cardinality({i}) = 1 /\ Cardinality({}) = 0
      BY FS_Singleton, FS_EmptySet
    <3> QED BY <3>2, <3>3
  <2>3. CASE (\A i \in DOMAIN buffer : buffer[i] # t) /\ \E w \in Workers : task[w] = t
    <3>1. PICK w \in Workers : task[w] = t
      BY <2>3
    <3>2. InBuffer(t) = {} /\ RunBy(t) = {w} /\ t \notin done
      BY <2>1, <2>3, <3>1 DEF RunOnce, InBuffer, RunBy
    <3>3. Cardinality({w}) = 1 /\ Cardinality({}) = 0
      BY FS_Singleton, FS_EmptySet
    <3> QED BY <3>2, <3>3
  <2>4. CASE (\A i \in DOMAIN buffer : buffer[i] # t) /\ ~\E w \in Workers : task[w] = t
    <3>1. InBuffer(t) = {} /\ RunBy(t) = {} /\ t \in done
      BY <2>1, <2>4 DEF NoneLost, InBuffer, RunBy
    <3> QED BY <3>1, FS_EmptySet
  <2> QED BY <2>2, <2>3, <2>4
<1> QED BY <1>1, InitPoolInv, PoolStep, PTL DEF Spec

\* Pills are last: a joined pool has run every task.
LEMMA JoinedIsDone ==
  ASSUME Workers # {}
  PROVE  PoolInv => JoinedMeansDone
<1> SUFFICES ASSUME PoolInv, joining = {} PROVE done = Tasks
  BY DEF JoinedMeansDone, Joined
<1>1. /\ TypeInv /\ TypeOK /\ NoneLost /\ PillsLast
      /\ \A w \in Workers : worker[w] = "Over"
  BY DEF PoolInv, TypeInv, PillsLast
<1>2. submitted = NumTasks /\ \A i \in DOMAIN buffer : buffer[i] = Pill
  BY <1>1, PoolAssumption DEF PillsLast
<1>3. \A w \in Workers : task[w] = NoTask
  BY <1>1 DEF TypeInv
<1>4. \A t \in Tasks : t # Pill /\ t # NoTask
  BY PoolAssumption DEF Tasks
<1> QED BY <1>1, <1>2, <1>3, <1>4 DEF NoneLost, Tasks, TypeOK

\* When Join has got every worker back no task is left, in the queue or with
\* a worker: main may destroy the connections the tasks refer to.  With no
\* worker at all, Join comes back at once and the tasks have not been run.
THEOREM JoinWaitsForAll ==
  ASSUME Workers # {}
  PROVE  Spec => []JoinedMeansDone
BY JoinedIsDone, InitPoolInv, PoolStep, PTL DEF Spec

----------------------------------------------------------------------------
(* The executor.                                                            *)

\* The tasks of the queue stand before its pills.
QueueSplit == \E k \in 0 .. Len(buffer) : \A i \in 1 .. Len(buffer) : buffer[i] = Pill <=> i > k

\* TasksIn of such a queue is its first k items.
LEMMA TasksBeforePills ==
  ASSUME NEW b \in Seq(Item), NEW k \in 0 .. Len(b),
         \A i \in 1 .. Len(b) : b[i] = Pill <=> i > k
  PROVE  /\ TasksIn(b) \in Seq(Tasks) /\ Len(TasksIn(b)) = k
         /\ \A i \in 1 .. k : TasksIn(b)[i] = b[i]
<1>1. Len(b) \in Nat /\ DOMAIN b = 1 .. Len(b) /\ b \in [1 .. Len(b) -> Item] /\ k \in Nat
  BY LenProperties
<1>2. {j \in DOMAIN b : b[j] # Pill} = 1 .. k
  BY <1>1
<1>3. TasksIn(b) = [i \in 1 .. k |-> b[i]]
  BY <1>2 DEF TasksIn
<1>4. \A i \in 1 .. k : b[i] \in Tasks
  BY <1>1 DEF Item
<1> QED BY <1>1, <1>3, <1>4

\* A Put of a task into a queue without pills appends it to the tasks; a Put
\* of a pill leaves them as they are.
LEMMA PutSplits ==
  ASSUME PoolInv, QueueSplit, NEW item \in Item, Put(item),
         item # Pill => submitted < NumTasks
  PROVE  /\ QueueSplit'
         /\ TasksIn(buffer) \in Seq(Tasks)
         /\ TasksIn(buffer') = IF item = Pill THEN TasksIn(buffer)
                                               ELSE Append(TasksIn(buffer), item)
<1> DEFINE n == Len(buffer)
<1>1. /\ buffer \in Seq(Item) /\ buffer' \in Seq(Item) /\ n \in Nat /\ Len(buffer') = n + 1
      /\ \A i \in 1 .. n : buffer'[i] = buffer[i]
      /\ buffer'[n + 1] = item /\ DOMAIN buffer = 1 .. n
  BY PutAppends, LenProperties DEF PoolInv, TypeInv, TypeOK, Item
<1>2. PICK k \in 0 .. n : \A i \in 1 .. n : buffer[i] = Pill <=> i > k
  BY DEF QueueSplit
<1> HIDE DEF n
<1>3. TasksIn(buffer) \in Seq(Tasks) /\ Len(TasksIn(buffer)) = k
      /\ \A i \in 1 .. k : TasksIn(buffer)[i] = buffer[i]
  BY <1>1, <1>2, TasksBeforePills DEF n
<1>4. CASE item = Pill
  <2>1. k \in 0 .. n + 1 /\ \A i \in 1 .. n + 1 : buffer'[i] = Pill <=> i > k
    BY <1>1, <1>2, <1>4
  <2>2. TasksIn(buffer') \in Seq(Tasks) /\ Len(TasksIn(buffer')) = k
        /\ \A i \in 1 .. k : TasksIn(buffer')[i] = buffer'[i]
    BY <1>1, <2>1, TasksBeforePills
  <2>3. \A i \in 1 .. k : buffer'[i] = buffer[i]
    BY <1>1, <1>2
  <2>4. TasksIn(buffer') = TasksIn(buffer)
    BY <1>3, <2>2, <2>3, SeqEqual
  <2> QED BY <1>1, <1>3, <1>4, <2>1, <2>4 DEF QueueSplit
<1>5. CASE item # Pill
  <2>1. item \in Tasks
    BY <1>5 DEF Item
  <2>2. \A i \in 1 .. n : buffer[i] # Pill
    BY <1>1, <1>5, PoolAssumption DEF PoolInv, PillsLast
  <2>3. k = n
    <3>1. k < n => n \in 1 .. n /\ n > k
      BY <1>1
    <3> QED BY <1>1, <1>2, <2>2, <3>1
  <2>4. n + 1 \in 0 .. n + 1 /\ \A i \in 1 .. n + 1 : buffer'[i] = Pill <=> i > n + 1
    BY <1>1, <1>5, <2>2
  <2>5. TasksIn(buffer') \in Seq(Tasks) /\ Len(TasksIn(buffer')) = n + 1
        /\ \A i \in 1 .. n + 1 : TasksIn(buffer')[i] = buffer'[i]
    BY <1>1, <2>4, TasksBeforePills
  <2> DEFINE a == Append(TasksIn(buffer), item)
  <2>6. /\ a \in Seq(Tasks) /\ Len(a) = n + 1 /\ a[n + 1] = item
        /\ \A i \in 1 .. n : a[i] = buffer[i]
    BY <1>3, <2>1, <2>3, AppendProperties
  <2> HIDE DEF a
  <2>7. \A i \in 1 .. n + 1 : TasksIn(buffer')[i] = a[i]
    BY <1>1, <2>5, <2>6
  <2>8. TasksIn(buffer') = a
    BY <2>5, <2>6, <2>7, SeqEqual
  <2> QED BY <1>1, <1>3, <1>5, <2>4, <2>8 DEF QueueSplit, a
<1> QED BY <1>4, <1>5

\* A Take of a task takes the first of the tasks; with a pill in front there
\* is none.
LEMMA TakeSplits ==
  ASSUME PoolInv, QueueSplit, NEW w \in Workers, Take(w)
  PROVE  /\ QueueSplit'
         /\ TasksIn(buffer) \in Seq(Tasks)
         /\ Head(buffer) = Pill => TasksIn(buffer') = TasksIn(buffer)
         /\ Head(buffer) # Pill => /\ TasksIn(buffer) # <<>>
                                    /\ Head(TasksIn(buffer)) = Head(buffer)
                                    /\ TasksIn(buffer') = Tail(TasksIn(buffer))
<1> DEFINE n == Len(buffer)
<1>1. /\ buffer \in Seq(Item) /\ buffer' \in Seq(Item) /\ n \in Nat \ {0} /\ Len(buffer') = n - 1
      /\ \A i \in 1 .. n - 1 : buffer'[i] = buffer[i + 1]
      /\ Head(buffer) = buffer[1]
  BY TakeShifts DEF PoolInv, TypeInv, TypeOK, Item
<1>2. PICK k \in 0 .. n : \A i \in 1 .. n : buffer[i] = Pill <=> i > k
  BY DEF QueueSplit
<1> HIDE DEF n
<1>3. /\ TasksIn(buffer) \in Seq(Tasks) /\ Len(TasksIn(buffer)) = k
      /\ \A i \in 1 .. k : TasksIn(buffer)[i] = buffer[i]
  BY <1>1, <1>2, TasksBeforePills DEF n
<1> DEFINE k1 == IF k = 0 THEN 0 ELSE k - 1
<1>4. k1 \in 0 .. n - 1 /\ \A i \in 1 .. n - 1 : buffer'[i] = Pill <=> i > k1
  <2> SUFFICES ASSUME NEW i \in 1 .. n - 1 PROVE buffer'[i] = Pill <=> i > k1
    BY <1>1
  <2>1. i + 1 \in 1 .. n /\ buffer'[i] = buffer[i + 1]
    BY <1>1
  <2>2. i + 1 > k <=> i > k1
    BY <1>1
  <2> QED BY <1>2, <2>1, <2>2
<1>5. QueueSplit'
  BY <1>1, <1>4 DEF QueueSplit
<1>6. /\ TasksIn(buffer') \in Seq(Tasks) /\ Len(TasksIn(buffer')) = k1
      /\ \A i \in 1 .. k1 : TasksIn(buffer')[i] = buffer'[i]
  <2> HIDE DEF k1
  <2> QED BY <1>1, <1>4, TasksBeforePills
<1>7. CASE Head(buffer) = Pill
  <2>1. k = 0 /\ k1 = 0
    BY <1>1, <1>2, <1>7
  <2>2. TasksIn(buffer') = TasksIn(buffer)
    BY <1>3, <1>6, <2>1, SeqEqual
  <2> QED BY <1>3, <1>5, <1>7, <2>2
<1>8. CASE Head(buffer) # Pill
  <2>1. k \in Nat \ {0} /\ k1 = k - 1 /\ 1 \in 1 .. k
    BY <1>1, <1>2, <1>8
  <2> DEFINE s == TasksIn(buffer)
  <2>2. s \in Seq(Tasks) /\ s # <<>> /\ s[1] = buffer[1]
    BY <1>3, <2>1, EmptySeq
  <2>3. /\ Head(s) = s[1]
        /\ Tail(s) \in Seq(Tasks) /\ Len(Tail(s)) = k1
        /\ \A i \in 1 .. k1 : Tail(s)[i] = s[i + 1]
    BY <1>3, <2>1, <2>2, HeadTailProperties
  <2> HIDE DEF s, k1
  <2>4. \A i \in 1 .. k1 : i \in 1 .. n - 1 /\ i + 1 \in 1 .. k
    BY <1>1, <2>1
  <2>5. \A i \in 1 .. k1 : TasksIn(buffer')[i] = Tail(s)[i]
    BY <1>1, <1>3, <1>6, <2>3, <2>4 DEF s
  <2>6. TasksIn(buffer') = Tail(s)
    BY <1>6, <2>3, <2>5, SeqEqual
  <2> QED BY <1>1, <1>3, <1>5, <1>8, <2>2, <2>3, <2>6 DEF s
<1> QED BY <1>7, <1>8

Running == {task[w] : w \in Workers} \ {NoTask}

\* Fewer tasks are run than there are workers while one takes from the queue.
LEMMA TakerIsFree ==
  ASSUME PoolInv, NEW w \in Workers, worker[w] = "Take"
  PROVE  Cardinality(Running) < Cardinality(Workers)
<1> DEFINE Busy == {v \in Workers : task[v] # NoTask}
           runs == [v \in Busy |-> task[v]]
<1>1. Busy \subseteq Workers \ {w}
  BY DEF PoolInv, TypeInv
<1>2. /\ IsFiniteSet(Workers \ {w}) /\ Cardinality(Workers \ {w}) = Cardinality(Workers) - 1
  BY PoolAssumption, FS_RemoveElement
<1>3. IsFiniteSet(Busy) /\ Cardinality(Busy) <= Cardinality(Workers \ {w})
  BY <1>1, <1>2, FS_Subset
<1>4. runs \in Surjection(Busy, Running)
  BY DEF Surjection, Running
<1>5. IsFiniteSet(Running) /\ Cardinality(Running) <= Cardinality(Busy)
  BY <1>3, <1>4, FS_Surjection
<1>6. Cardinality(Running) \in Nat /\ Cardinality(Busy) \in Nat
  BY <1>3, <1>5, FS_CardinalityType
<1> QED BY <1>2, <1>3, <1>5, <1>6, WorkersCounted

\* The variables of the abstract executor.
executor == <<TasksIn(buffer), Running, done, Joined>>

\* Queue and workers take the executor's steps: a Submit is its Submit, a Take
\* of a task its Start, the end of a task its Finish, the last join its Join.
LEMMA NextIsExecutorStep ==
  ASSUME Workers # {}, PoolInv, QueueSplit, [Next]_vars
  PROVE  QueueSplit' /\ [~Joined /\ (Executor!Submit \/ Executor!Start \/ Executor!Finish \/ Executor!Join)]_executor
<1> DEFINE Step == [~Joined /\ (Executor!Submit \/ Executor!Start \/ Executor!Finish \/ Executor!Join)]_executor
<1>1. /\ TypeInv /\ TypeOK /\ QueuedOnce /\ RunOnce /\ NoneLost /\ PillsLast /\ PoolInv'
  BY PoolStep DEF PoolInv, TypeInv
<1>2. Joined => /\ submitted = NumTasks /\ \A w \in Workers : worker[w] = "Over" /\ task[w] = NoTask
  BY <1>1, PoolAssumption DEF PillsLast, Joined, TypeInv
<1>3. CASE Submit
  <2> DEFINE t == submitted + 1
  <2>1. t \in Tasks /\ t \in Item /\ t # Pill /\ submitted < NumTasks /\ Put(t)
        /\ UNCHANGED <<task, done, joining>>
    BY <1>1, <1>3, PoolAssumption DEF Submit, Item, Tasks, TypeOK
  <2>2. QueueSplit' /\ TasksIn(buffer') = Append(TasksIn(buffer), t)
    BY <2>1, PutSplits
  <2>3. t \notin Executor!Known
    <3>1. \A u \in done \cup Running : u \in Tasks /\ u <= submitted
      BY <1>1 DEF NoneLost, RunOnce, Running, TypeOK
    <3>2. \A i \in DOMAIN TasksIn(buffer) : TasksIn(buffer)[i] \in Tasks /\ TasksIn(buffer)[i] <= submitted
      BY <1>1, LenProperties DEF TasksIn, QueuedOnce, TypeOK
    <3>3. ~(t <= submitted)
      BY <1>1 DEF TypeOK
    <3> QED BY <3>1, <3>2, <3>3 DEF Executor!Known, Running
  <2>4. ~Joined
    BY <1>1, <1>2, <2>1 DEF TypeOK
  <2>5. Executor!Submit
    BY <2>1, <2>2, <2>3 DEF Executor!Submit, Joined
  <2> QED BY <2>2, <2>4, <2>5
<1>4. CASE PutPill
  <2>1. QueueSplit' /\ TasksIn(buffer') = TasksIn(buffer)
    BY <1>4, PutSplits DEF PutPill, Item
  <2> QED BY <1>4, <2>1 DEF PutPill, executor, Running, Joined
<1>5. ASSUME NEW w \in Workers, JoinWorker(w) PROVE QueueSplit' /\ Step
  <2>1. UNCHANGED <<buffer, worker, task, done>> /\ QueueSplit'
    BY <1>5 DEF JoinWorker, QueueSplit
  <2>2. ~Joined
    BY <1>5 DEF JoinWorker, Joined
  <2>3. CASE Joined'
    <3>1. done' = Tasks
      <4>1. PoolInv' => JoinedMeansDone'
        BY JoinedIsDone, PTL
      <4> QED BY <1>1, <2>3, <4>1 DEF JoinedMeansDone, Tasks
    <3>2. Executor!Join
      BY <2>1, <2>3, <3>1 DEF Executor!Join
    <3> QED BY <2>1, <2>2, <3>2
  <2>4. CASE ~Joined'
    BY <2>1, <2>2, <2>4 DEF executor, Running, Joined
  <2> QED BY <2>3, <2>4
<1>6. ASSUME NEW w \in Workers, Wait(w) \/ SpuriousWakeup(w) PROVE QueueSplit' /\ Step
  BY <1>6 DEF Wait, SpuriousWakeup, QueueSplit, executor, Running, Joined
<1>7. ASSUME NEW w \in Workers, Take(w) PROVE QueueSplit' /\ Step
  <2>1. worker[w] = "Take" /\ task[w] = NoTask /\ UNCHANGED <<done, joining>> /\ ~Joined
    BY <1>1, <1>2, <1>7 DEF Take, TypeInv, TypeOK
  <2>2. CASE Head(buffer) = Pill
    BY <1>7, <2>1, <2>2, TakeSplits DEF Take, executor, Running, Joined
  <2>3. CASE Head(buffer) # Pill
    <3>1. task' = [task EXCEPT ![w] = Head(buffer)] /\ Head(buffer) # NoTask
      BY <1>1, <1>7, <2>3, TakeShifts, PoolAssumption DEF Take, Item, Tasks
    <3>2. Running' = Running \cup {Head(buffer)}
      BY <1>1, <2>1, <3>1 DEF Running, TypeOK
    <3>3. /\ QueueSplit' /\ TasksIn(buffer) # <<>> /\ Head(TasksIn(buffer)) = Head(buffer)
          /\ TasksIn(buffer') = Tail(TasksIn(buffer))
      BY <1>7, <2>3, TakeSplits
    <3>4. Cardinality(Running) < Cardinality(Workers)
      BY <2>1, TakerIsFree
    <3>5. Executor!Cardinality(Running) = Cardinality(Running)
      BY DEF Executor!Cardinality, Cardinality
    <3>6. Executor!Start
      BY <2>1, <3>2, <3>3, <3>4, <3>5 DEF Executor!Start, Running, Joined
    <3> QED BY <2>1, <3>3, <3>6
  <2> QED BY <2>2, <2>3
<1>8. ASSUME NEW w \in Workers, RunTask(w) PROVE QueueSplit' /\ Step
  <2>1. /\ task[w] # NoTask /\ done' = done \cup {task[w]} /\ task' = [task EXCEPT ![w] = NoTask]
        /\ UNCHANGED <<buffer, joining>> /\ ~Joined
    BY <1>1, <1>2, <1>8 DEF RunTask, TypeInv
  <2>2. Running' = Running \ {task[w]} /\ task[w] \in Running
    BY <1>1, <2>1 DEF Running, RunOnce, TypeOK
  <2>3. Executor!Finish
    BY <2>1, <2>2 DEF Executor!Finish, Running, Joined
  <2> QED BY <2>1, <2>3 DEF QueueSplit
<1>9. CASE UNCHANGED vars
  BY <1>9 DEF vars, QueueSplit, executor, Running, Joined
<1> QED BY <1>3, <1>4, <1>5, <1>6, <1>7, <1>8, <1>9 DEF Next, Main, WorkerRoutine

\* However the workers interleave, sleep and wake, the pool behaves as the
\* executor RunDownloadMultithread counts on: tasks start in the order they
\* were submitted, each once, and Join comes back after the last.
THEOREM ExecutorRefined ==
  ASSUME Workers # {}
  PROVE  Spec => ExecutorSpec
<1>1. Init => QueueSplit
  BY EmptySeq DEF Init, QueueSplit
<1>2. Init => Executor!Init
  <2> SUFFICES ASSUME Init PROVE Executor!Init
    OBVIOUS
  <2>1. DOMAIN buffer = {}
    BY DEF Init
  <2>2. TasksIn(buffer) = <<>>
    BY <2>1 DEF TasksIn
  <2> QED BY <2>2, PoolAssumption DEF Init, Executor!Init, Joined
<1>3. PoolInv /\ QueueSplit /\ [Next]_vars => QueueSplit'
  BY NextIsExecutorStep
<1>4. PoolInv /\ QueueSplit /\ [Next]_vars
        => [~Joined /\ (Executor!Submit \/ Executor!Start \/ Executor!Finish \/ Executor!Join)]_executor
  BY NextIsExecutorStep
<1> QED BY <1>1, <1>2, <1>3, <1>4, InitPoolInv, PoolStep, PTL
        DEF Spec, ExecutorSpec, Executor!Spec, executor, Running
=============================================================================
