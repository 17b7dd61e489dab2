\* Time slices among equal priorities, and the idle thread's reclaiming.
SPECIFICATION FairSpec
CONSTANTS
  idle = idle
  main = main
  a = a
  b = b
  None = None
  Threads <- MCThreads
  Idle = idle
  Main = main
  InitPrio <- Equal
  Static <- NoStatic
  InitTick = 2
  NewPrios <- NoPrios
  MaxNest = 1
  CallSets <- TurnCalls
PROPERTIES
  EqualsTakeTurns
  DefunctReclaimed
