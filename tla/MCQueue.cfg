CONSTANTS
  Threads = {t1, t2, t3}
  Values = {a, b}
  Nullopt = Nullopt
  MaxLength = 2
SPECIFICATION Spec
INVARIANTS
  TypeOK
  NoLostWakeup
  StopReachesSleepers
PROPERTIES
  StopEndsEveryWait
  ImplementsAbstractQueue
CHECK_DEADLOCK TRUE
