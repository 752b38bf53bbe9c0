SPECIFICATION Spec
CONSTANTS
  Threads = {t1, t2, t3, t4, t5}
  Values = {v1, v2, v3}
  Uninit = Uninit
  Dropped = Dropped
INVARIANTS
  ExclusiveOwner
  BorrowStable
  ValuesAreDropped
PROPERTIES
  ImplementsOnceCell
  OwnershipEnds
