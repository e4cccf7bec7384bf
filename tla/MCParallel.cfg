CONSTANTS
  Workers = {w1, w2}
  Clients = {c1, c2}
  Calls <- MCCalls
  Jobs <- MCJobs
  CallOf <- MCCallOf
  Nested <- MCNested
  Throws = {j4}
  Nullopt = Nullopt
  Nobody = Nobody
  outer = outer
  inner = inner
  other = other
  empty = empty
  j1 = j1
  j2 = j2
  j3 = j3
  j4 = j4
SPECIFICATION Spec
INVARIANTS
  ParallelComplete
  FrameOutlivesClosures
PROPERTY ParallelReturnsUnlessThrown
\* Every call is made once, and then there is nothing left to do.
CHECK_DEADLOCK FALSE
