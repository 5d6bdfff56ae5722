CONSTANTS
  Job = {j1}
  Freelancer = {f1}
  Intent = {i1, i2}
  Request = {r1, r2}
  None = None
  WebhookMounted = TRUE
SPECIFICATION Spec
INVARIANT
  OneEscrowPerJob
