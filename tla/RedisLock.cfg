CONSTANTS
  Request = {r1, r2, r3}
  Key = {k1, k2}
  None = None
SPECIFICATION LockSpec
INVARIANTS
  LockIInv
  LeaseExclusion
PROPERTIES
  OwnerKeepsLock
  LockReclaimed
