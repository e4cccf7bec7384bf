CONSTANTS
  w1 = w1
  w2 = w2
  s1 = s1
  s2 = s2
  c1 = c1
  c2 = c2
  p1 = p1
  p2 = p2
  Threads = {main, other}
  Nobody = Nobody
  States = {s1, s2}
  NoState = NoState
  Callbacks = {c1, c2}
  NoCallback = NoCallback
  Target <- MCTarget
  Owner = main
  Workers = {w1, w2}
  LooseWorkers = {w1}
  StateOf <- MCStateOf
  Handles = {p1, p2, h1, h2}
  Pool <- MCPool
  Tokens <- MCTokens
SPECIFICATION Spec
INVARIANTS
  TypeOK
  StopReachesCallbacks
  NoCallbackAfterDestructor
  HandleStopsItsThread
PROPERTIES
  PoolStopReachesAll
  CallsReturn
\* Everything is constructed once.
CHECK_DEADLOCK FALSE
