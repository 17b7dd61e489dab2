\* Two nested mutexes released in any order.
SPECIFICATION Spec
CONSTANTS
  t1 = t1
  t2 = t2
  t3 = t3
  ma = ma
  mb = mb
  None = None
  Threads <- MCThreads
  Lists <- TwoMutexes
  Times <- AllTimes
  Flag <- AllPrioFlags
  BasePrio <- MCPrio
  HoldMod = 4
  MaxHold = 2
  Nesters <- UpperTwo
INVARIANTS
  EveryPriorityRestored
CHECK_DEADLOCK FALSE
