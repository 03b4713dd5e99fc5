SPECIFICATION Spec
CONSTANTS
  Checkouts = {c1, c2}
  Workers = {w1, w2}
  MaxPayments = 2
  MaxRetries = 1
  MaxRedemptions = 1
  MaxEvents = 1
  Environments = {
    {"decline"}}
SYMMETRY Symmetry
INVARIANTS
  PaidOpenIsSold
CHECK_DEADLOCK FALSE
