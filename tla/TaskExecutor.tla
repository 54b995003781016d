---------------------------- MODULE TaskExecutor ----------------------------
(***************************************************************************)
(* What RunDownloadMultithread counts on when it submits a task for each   *)
(* connection and joins: tasks start in the order they were submitted, at  *)
(* most as many run at a time as there are workers, each runs once, and    *)
(* Join returns when every one of them is over.  Neither queue items that  *)
(* are no tasks, nor sleeping threads, nor wakeups appear.                 *)
(***************************************************************************)
EXTENDS Naturals, Sequences, FiniteSets

CONSTANTS Task, MaxRunning

VARIABLES queued, running, done, over

Init == queued = <<>> /\ running = {} /\ done = {} /\ over = FALSE

Known == {queued[i] : i \in DOMAIN queued} \cup running \cup done

Submit ==
  \E t \in Task \ Known :
    /\ queued' = Append(queued, t)
    /\ UNCHANGED <<running, done, over>>

Start ==
  /\ queued # <<>> /\ Cardinality(running) < MaxRunning
  /\ queued' = Tail(queued)
  /\ running' = running \cup {Head(queued)}
  /\ UNCHANGED <<done, over>>

Finish ==
  \E t \in running :
    /\ running' = running \ {t}
    /\ done' = done \cup {t}
    /\ UNCHANGED <<queued, over>>

Join ==
  /\ done = Task
  /\ over' = TRUE
  /\ UNCHANGED <<queued, running, done>>

Spec == Init /\ [][~over /\ (Submit \/ Start \/ Finish \/ Join)]_<<queued, running, done, over>>
=============================================================================
