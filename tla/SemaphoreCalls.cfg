\* Three threads, two of equal priority, on a priority-ordered semaphore, every kind of waiting time.
SPECIFICATION FairSpec
CONSTANTS
  t1 = t1
  t2 = t2
  t3 = t3
  sem = sem
  Threads <- MCThreads
  Lists <- MCLists
  Times <- AllTimes
  Sem = sem
  Flag = "PRIO"
  Prio <- MCPrio
  NewPrios <- MCNewPrios
  InitValue = 0
  ValueMod = 4
  MaxValue = 2
INVARIANTS
  TypeOK
  NoUnitWhileWaiting
  CleanWakeup
PROPERTIES
  HighestPriorityFirst
  TimedTakeWakes
  NoStarvation
  ImplementsCountingSemaphore
CHECK_DEADLOCK FALSE
