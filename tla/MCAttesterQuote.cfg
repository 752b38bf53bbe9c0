SPECIFICATION SSpec
CONSTANTS
  Tasks = {t1, t2}
  Loader = Loader
  Keys = {k1, k2}
  NoKey = NoKey
  Digests = {d1}
  NoVerity = NoVerity
  UserData = {u0, u1, u2}
  None = None
  Uninit = Uninit
  Dropped = Dropped
  MaxBoots = 1
  Zero = u0
  Rejected = Rejected
  MaxRequests = 2
INVARIANTS
  AnswerIsEvidence
  KeyNeverChanges
  HandlerClosesFile
PROPERTIES
  HandlerAnswers
