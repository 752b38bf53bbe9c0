SPECIFICATION Spec
CONSTANTS
  N = 3
  LimbBytes = 2
  ByteBase = 2
  CurveN <- MCCurveN
  Multiples <- MCMultiples
  PrivateKeys = {5, 24}
  Nonces <- MCNonces
  MaxAttempts = 2
  None = None
INVARIANTS
  SignatureVerifies
  PointsFreed
PROPERTIES
  CallReturns
