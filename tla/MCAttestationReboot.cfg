SPECIFICATION Spec
CONSTANTS
  Clients = {c1}
  Threads = {w1}
  Ids = {i1, i2}
  Nonces = {n1, n2}
  BadNonce = BadNonce
  Requests <- WithEmpty
  Keys = {k1, k2}
  Digests = {app, other}
  Approved = {app}
  AttesterApp = app
  Missing = Missing
  None = None
  Foreign = Foreign
  MaxAttempts = 2
  MaxEvents = 2
INVARIANTS
  GenuineEvidenceAccepted
  EvidenceUnderTrustedKey
PROPERTIES
  ClientsFinish
CHECK_DEADLOCK FALSE
