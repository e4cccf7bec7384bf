CONSTANTS
  Workers = {w1, w2}
  Clients = {c1}
  Owner = owner
  Tasks = {k1, k2, k3}
  Nullopt = Nullopt
  Nobody = Nobody
  UIntMod = 8
SPECIFICATION Spec
INVARIANTS
  TypeOK
  CounterMatchesQueue
  DtorDrains
PROPERTIES
  FlushComplete
  EveryTaskRuns
  DtorTerminates
\* Nothing is left to do when the pool is destroyed.
CHECK_DEADLOCK FALSE
