SPECIFICATION Spec
CONSTANTS
  Checkouts = {c1, c2}
  Workers = {w1, w2}
  MaxPayments = 2
  MaxRetries = 1
  MaxRedemptions = 1
  MaxEvents = 1
  Environments = {
    {"charge", "overlap"}}
SYMMETRY Symmetry
INVARIANTS
  SoldOnce
CHECK_DEADLOCK FALSE
