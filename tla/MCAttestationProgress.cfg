SPECIFICATION GoodSpec
CONSTANTS
  Clients = {c1, c2}
  Threads = {w1, w2}
  Ids = {i1, i2}
  Nonces = {n1, n2}
  BadNonce = BadNonce
  Requests <- MixedRequests
  Keys = {k1}
  Digests = {app, other}
  Approved = {app}
  AttesterApp = app
  Missing = Missing
  None = None
  Foreign = Foreign
  MaxAttempts = 2
  MaxEvents = 0
PROPERTIES
  ClientsAccepted
CHECK_DEADLOCK FALSE
