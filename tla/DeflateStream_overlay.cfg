SPECIFICATION Spec
CONSTANTS
  Texts <- MatchesOnly
  ChunkSizes = {9}
  Pieces = {}
  Flushes = {}
  MaxFlushes = 0
  Configs <- MCConfigs
  Codes <- LongCodes
  Wraps = {1}
  w_size = 16
  hash_bits = 3
  lit_bufsize = 12
  MAX_MATCH = 5
  TOO_FAR = 4
  TOO_SHORT = 3
  MAX_STORED = 31
INVARIANT SaysTheText
CHECK_DEADLOCK FALSE
