CONSTANTS
  Workers = {w1}
  Clients = {c1}
  Owner = owner
  Tasks = {k1}
  Nullopt = Nullopt
  Nobody = Nobody
  UIntMod = 8
SPECIFICATION ServiceSpec
PROPERTY FlushReturns
CHECK_DEADLOCK TRUE
