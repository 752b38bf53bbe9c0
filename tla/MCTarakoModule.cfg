SPECIFICATION Spec
CONSTANTS
  Tasks = {t1, t2}
  Loader = Loader
  Keys = {k1, k2}
  NoKey = NoKey
  Digests = {d1}
  NoVerity = NoVerity
  UserData = {u1, u2}
  None = None
  Uninit = Uninit
  Dropped = Dropped
  MaxBoots = 1
SYMMETRY DriverSymmetry
INVARIANTS
  KeyPairStable
  OpenFilePinsKey
  StorageZeroized
  EvidenceIsMeasured
PROPERTIES
  EnxioOnlyWhileLoading
  ResponseIsEvidence
  ImplementsQuoteDevice
