CONSTANTS
  t1 = t1
  t2 = t2
  t3 = t3
  Threads <- MCThreads
  Parties <- MCParties
  Nobody = Nobody
  MaxPhases = 3
SPECIFICATION Spec
INVARIANTS
  TypeOK
  AllArrived
  SleepersAreCurrent
PROPERTIES
  ReleasedWhenComplete
  WaitsEnd
\* Nobody arrives after the last phase.
CHECK_DEADLOCK FALSE
