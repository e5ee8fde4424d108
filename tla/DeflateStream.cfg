SPECIFICATION Spec
CONSTANTS
  Texts <- MCTexts
  ChunkSizes = {9}
  Pieces = {0, 11}
  Flushes = {1, 2, 3, 5}
  MaxFlushes = 1
  Configs <- MCConfigs
  Codes <- MCCodes
  Wraps = {1, 2}
  w_size = 16
  hash_bits = 3
  lit_bufsize = 12
  MAX_MATCH = 5
  TOO_FAR = 4
  TOO_SHORT = 3
  MAX_STORED = 31
INVARIANTS TypeOK SaysTheText ChainsHoldTheirHash AllIsOut
PROPERTY PushReturns
CHECK_DEADLOCK FALSE
