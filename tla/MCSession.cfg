CONSTANTS
  Request = {r1, r2}
  None = None
  MaxCodes = 2
  Absolute = 2
  IdleTime = 1
  MaxSid = 2
  MaxTime = 3
  MaxGuesses = 0
SPECIFICATION Spec
SYMMETRY Symmetric
INVARIANTS
  SessionIInv
  ClosedStaysClosed
PROPERTIES
  AcceptedInTime
