CONSTANTS
  t1 = t1
  t2 = t2
  t3 = t3
  Timers <- MCTimers
  NULL = NULL
SPECIFICATION Spec
SYMMETRY Symmetry
INVARIANTS ArmedIsLinked
