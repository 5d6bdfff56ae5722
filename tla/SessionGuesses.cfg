CONSTANTS
  Request = {r1, r2}
  None = None
  MaxCodes = 2
  Absolute = 2
  IdleTime = 1
  MaxSid = 1
  MaxTime = 0
  MaxGuesses = 3
SPECIFICATION CalmSpec
INVARIANT
  GuessesCapped
