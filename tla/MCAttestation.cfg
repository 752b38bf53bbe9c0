SPECIFICATION Spec
CONSTANTS
  Clients = {c1, c2}
  Threads = {w1, w2}
  Ids = {i1, i2}
  Nonces = {n1, n2}
  BadNonce = BadNonce
  Requests <- PlainRequests
  Keys = {k1}
  Digests = {app, other}
  Approved = {app}
  AttesterApp = app
  Missing = Missing
  None = None
  Foreign = Foreign
  MaxAttempts = 1
  MaxEvents = 2
SYMMETRY AllSymmetry
INVARIANTS
  OneVerdictPerChallenge
  ResultIsAttested
  EvidenceUsedOnce
  AcceptedIsAttested
CHECK_DEADLOCK FALSE
