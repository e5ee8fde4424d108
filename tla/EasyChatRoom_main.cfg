SPECIFICATION Spec
CONSTANTS
  Sessions = {s1, s2, s3}
  Names = {anna}
  Empty = empty
  Null = null
  MaxLogins = 3
INVARIANTS TypeOK ClosedIsOut  OneAnswer AcceptedIsIn
SYMMETRY Symmetry
CHECK_DEADLOCK FALSE
