SPECIFICATION Spec
CHECK_DEADLOCK FALSE
CONSTANTS
  Transactions = {x1}
  Consents = {k1}
  Codes = {c1, c2}
  Parties = {a1}
  Handlers = {p1, p2}
  Crashes = TRUE
  None = None
SYMMETRY Symmetry
INVARIANT CodeUsesOverlap
INVARIANT OneSessionPerSocialSignIn
PROPERTY MobileCodesAreSingleUse
PROPERTY TransactionsAreSingleUse
