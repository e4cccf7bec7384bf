CONSTANTS
  Workers = {w1}
  Clients = {c1}
  Owner = owner
  Tasks = {k1}
  Nullopt = Nullopt
  Nobody = Nobody
  UIntMod = 8
SPECIFICATION Safety
INVARIANT FlushCvOutlivesWorkers
CHECK_DEADLOCK FALSE
