\* Three workers, fewer and more tasks than workers at one time or another.
SPECIFICATION FairSpec
CONSTANTS
  Workers = {w1, w2, w3}
  NumTasks = 4
  Pill = Pill
  NoTask = NoTask
INVARIANTS
  TypeOK
  EachTaskOnce
  NoLostWakeup
  JoinedMeansDone
PROPERTIES
  ExecutorSpec
  JoinTerminates
CHECK_DEADLOCK FALSE
