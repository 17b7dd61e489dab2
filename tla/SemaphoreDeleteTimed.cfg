\* Deleting a semaphore while a timed wait expires.
SPECIFICATION Spec
CONSTANTS
  t1 = t1
  t2 = t2
  t3 = t3
  sem = sem
  Threads <- MCThreads
  Lists <- MCLists
  Times <- AllTimes
  Sem = sem
  Flag = "PRIO"
  Prio <- MCPrio
  NewPrios <- MCNewPrios
  InitValue = 0
  ValueMod = 4
  MaxValue = 2
INVARIANTS
  ResumesOnlyThreads
CHECK_DEADLOCK FALSE
