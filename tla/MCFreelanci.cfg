CONSTANTS
  Job = {j1}
  Freelancer = {f1, f2}
  Handler = {h1, h2}
  MaxEdits = 1
  Intent = {i1}
  Request = {r1, r2}
  WebhookMounted = TRUE
  None = None
SPECIFICATION SystemSpec
SYMMETRY Symmetric
INVARIANTS
  MarketTypeOK
  HiredIffAccepted
  StatusMatchesHire
  MoneyNeedsHire
PROPERTIES
  DecidedBidKept
  PayeeWasHired
  NeverReopened
CHECK_DEADLOCK FALSE
