SPECIFICATION Spec
CONSTANTS
  Streams <- MCStreams
  ChunkSizes = {3, 7}
  Pieces = {0, 1}
  SyncPieces = {7}
  WSIZE = 4
  FAST_IN = 6
  MAX_MATCH = 5
  DMAX = 4
INVARIANTS TypeOK InSync TextComesOut EndsAsItShould
PROPERTY PushReturns
CHECK_DEADLOCK FALSE
