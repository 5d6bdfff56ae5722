CONSTANTS
  Job = {j1}
  Freelancer = {f1}
  Intent = {i1}
  Request = {r1, r2}
  None = None
  WebhookMounted = TRUE
SPECIFICATION Spec
PROPERTIES
  LockRefined
  LedgerRefined
