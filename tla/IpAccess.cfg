CONSTANTS
  Request = {r1, r2}
  Admin = {a1}
  Threshold = 2
  Window = 1
  BanLength = 2
  MaxStrikes = 4
SPECIFICATION Spec
INVARIANTS
  IpIInv
  TrustedBypass
  BarredRefused
PROPERTIES
  StrikesForgotten
