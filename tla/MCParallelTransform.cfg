CONSTANTS
  Values = {0}
  Inits = {0}
  MaxLength = 5
  MaxChunk = 3
  WordBits = 2
SPECIFICATION ChunksSpec
INVARIANT TransformMatchesStd
\* The call returns.
CHECK_DEADLOCK FALSE
