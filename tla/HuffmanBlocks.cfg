SPECIFICATION Spec
CONSTANTS
  LITERALS = 7
  LENGTH_CODES = 4
  D_CODES = 14
  MAX_BITS = 4
  MAX_BL_BITS = 3
  ExtraLBits <- MCExtraLBits
  ExtraDBits <- MCExtraDBits
  BlOrder <- MCBlOrder
  StaticLLen <- MCStaticLLen
  StaticDLen = 4
  BYTE = 3
  LBase <- MCLBase
  LExt <- MCExtraLBits
  DBase <- MCDBase
  DExt <- MCExtraDBits
  LenRoot = 3
  DistRoot = 2
  EnoughLens = 20
  EnoughDists = 20
  Bags <- MCBags
  MaxBlocks = 2
INVARIANTS TypeOK TokensReadBack LengthsComplete SumsExact
CHECK_DEADLOCK FALSE
