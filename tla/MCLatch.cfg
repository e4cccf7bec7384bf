CONSTANTS
  Threads = {t1, t2, t3}
  Latches = {l}
  Nobody = Nobody
  MaxCount = 3
SPECIFICATION Spec
INVARIANTS
  TypeOK
  LatchOutlivesCalls
  OpenIsFinal
PROPERTY OpenReleasesAll
\* Nothing can be called once the only latch is destroyed.
CHECK_DEADLOCK FALSE
