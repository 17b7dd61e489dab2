\* Deleting a thread whose timer expires meanwhile.
SPECIFICATION Spec
CONSTANTS
  idle = idle
  main = main
  a = a
  b = b
  None = None
  Threads <- MCThreads
  Idle = idle
  Main = main
  InitPrio <- MCInitPrio
  Static <- NoStatic
  InitTick = 1
  NewPrios <- NoPrios
  MaxNest = 1
  CallSets <- TimedDelete
INVARIANTS
  DeadStayDead
