SPECIFICATION AddSpec
CONSTANTS
  N = 3
  LimbBytes = 2
  ByteBase = 2
INVARIANTS
  SumIsExact
  BytesAgree
CHECK_DEADLOCK FALSE
