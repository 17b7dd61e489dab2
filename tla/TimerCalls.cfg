\* One timer of a thread and two alike of interrupts, ticks of four bits.
SPECIFICATION Spec
CONSTANTS
  t1 = t1
  t2 = t2
  t3 = t3
  Timers <- MCTimers
  Owned <- MCOwned
  Ticks <- MCTicks
  TickMod = 16
  MaxLate = 1
SYMMETRY MCSymmetry
VIEW MCView
INVARIANTS
  ActiveMeansLinked
PROPERTIES
  FiresOnTime
