SPECIFICATION Spec
CONSTANTS
  Limb = 4
  Top = 2
  Values <- MixedValues
  Texts = {"lo", "ue"}
  Chars <- CharsOf
  Bytes <- BytesInUtf8
  Formats = {"socket"}
  InitialWords = 8
  Version = 7
  Flags = 0
  MaxWrites = 2
INVARIANTS ReadsWhatWasWritten
CHECK_DEADLOCK FALSE
