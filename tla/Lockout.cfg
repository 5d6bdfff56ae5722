CONSTANTS
  Login = {l1, l2}
  Server = {v1}
  None = None
  MaxAttempts = 2
  Window = 2
  MaxCount = 4
SPECIFICATION Spec
INVARIANTS
  GuessIInv
  GuessBound
PROPERTIES
  LockLifts
  FailuresForgotten
