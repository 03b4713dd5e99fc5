SPECIFICATION FairSpec
CONSTANTS
  Checkouts = {c1, c2}
  Workers = {w1, w2}
  MaxPayments = 2
  MaxRetries = 1
  MaxRedemptions = 1
  MaxEvents = 2
  Environments = {
    {"prune", "crash", "expiry"},
    {"crash", "expiry", "overlap"}}
PROPERTIES
  PaidIsSold
CHECK_DEADLOCK FALSE
