\* Two priority-ordered mutexes, nested by two of the three threads, recursive takes.
SPECIFICATION Spec
CONSTANTS
  t1 = t1
  t2 = t2
  t3 = t3
  ma = ma
  mb = mb
  None = None
  Threads <- MCThreads
  Lists <- TwoMutexes
  Times <- AllTimes
  Flag <- AllPrioFlags
  BasePrio <- MCPrio
  HoldMod = 4
  MaxHold = 2
  Nesters <- UpperTwo
INVARIANTS
  TypeOK
  OwnersAgree
  PriorityRestored
  OwnerInherits
  FreeMeansFree
CHECK_DEADLOCK FALSE
