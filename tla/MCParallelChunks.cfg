CONSTANTS
  Values = {0, 1, 2}
  Inits = {0, 1, 2}
  MaxLength = 5
  MaxChunk = 5
  WordBits = 2
SPECIFICATION ChunksSpec
INVARIANTS
  ChunksTypeOK
  MatchesStd
  TrueIsRight
\* The call returns.
CHECK_DEADLOCK FALSE
