CONSTANTS
  Request = {r1, r2}
  Secret = {s1, s2}
  None = None
  MaxTime = 4
  MaxCodes = 2
  MaxCount = 1
SPECIFICATION Spec
SYMMETRY Symmetric
INVARIANTS
  FactorsIInv
  CodeOnce
PROPERTIES
  OnlyStaleUnproven
  CounterBackOnlyRaced
