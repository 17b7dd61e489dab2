\* The model stops where the lists are lost.
\* What the kernel does to threads, what threads do to each other and, in other behaviours, some of both.
SPECIFICATION Spec
CONSTANTS
  idle = idle
  main = main
  a = a
  b = b
  None = None
  Threads <- MCThreads
  Idle = idle
  Main = main
  InitPrio <- Distinct
  Static <- OneStatic
  InitTick = 1
  NewPrios <- SomePrios
  MaxNest = 2
  CallSets <- EitherCalls
INVARIANTS
  ReadyTableConsistent
  DeadIsUnreachable
  BrokenOnlyIfOvertaken
PROPERTIES
  HighestRuns
  LockedKeepsProcessor
CHECK_DEADLOCK FALSE
