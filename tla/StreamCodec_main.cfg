SPECIFICATION Spec
CONSTANTS
  Limb = 4
  Top = 2
  Values <- MixedValues
  Texts = {"lo", "other", "empty"}
  Chars <- CharsOf
  Bytes <- BytesInUtf8
  Formats = {"worker", "socket"}
  InitialWords = 4
  Version = 7
  Flags = 0
  MaxWrites = 4
INVARIANTS TypeOK ReadsWhatWasWritten EndsAtLength
CHECK_DEADLOCK FALSE
