CONSTANTS
  main = main
  c1 = c1
  a = a
  d = d
  e = e
  s = s
  f1 = f1
  f2 = f2
  f3 = f3
  f4 = f4
  x1 = x1
  x2 = x2
  g = g
  Workers = {w1, w2, w3}
  Pollers = {main}
  Waiters = {c1}
  Functions = {f1, f2, f3, f4, x1, x2}
  Coroutines = {a, d, e, s}
  CoSync = {s}
  Tags = {g}
  NoTag = NoTag
  SelfTags = {}
  Pool = Pool
  Body <- MCBody
  Owned <- MCOwned
  Target <- MCTarget
  TagOf <- MCTagOf
SPECIFICATION Spec
INVARIANTS
  TypeOK
  OneKeeper
  OutcomeOfAwaited
PROPERTY FuturesResolve
\* Every call is made once.
CHECK_DEADLOCK FALSE
