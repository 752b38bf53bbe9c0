SPECIFICATION GoodSpec
CONSTANTS
  Clients = {c1}
  Threads = {w1, w2}
  Ids = {i1, i2}
  Nonces = {n1, n2}
  BadNonce = BadNonce
  Requests <- EscapedRequests
  Keys = {k1}
  Digests = {app, other}
  Approved = {app}
  AttesterApp = app
  Missing = Missing
  None = None
  Foreign = Foreign
  MaxAttempts = 1
  MaxEvents = 0
INVARIANTS
  GenuineEvidenceAccepted
CHECK_DEADLOCK FALSE
