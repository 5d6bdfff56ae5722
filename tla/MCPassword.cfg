CONSTANTS
  Request = {r1, r2}
  Password = {p1, p2, p3, p4}
  None = None
  Limit = 2
  MaxRows = 6
SPECIFICATION Spec
SYMMETRY Symmetric
INVARIANTS
  PasswordIInv
  NoReuse
