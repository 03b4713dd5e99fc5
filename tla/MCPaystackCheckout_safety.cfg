SPECIFICATION Spec
CONSTANTS
  Checkouts = {c1, c2}
  Workers = {w1, w2}
  MaxPayments = 2
  MaxRetries = 1
  MaxRedemptions = 1
  MaxEvents = 2
  Environments = {
    {"abandon", "charge"},
    {"charge", "decline", "crash"},
    {"abandon", "decline", "outage", "expiry", "prune"},
    {"charge", "overlap"},
    {"decline", "expiry", "overlap"},
    {"abandon", "decline", "crash", "overlap"},
    {"abandon", "decline", "lost_job", "crash"},
    {"free", "abandon", "expiry", "crash", "overlap"}}
SYMMETRY Symmetry
INVARIANTS
  TypeOK
  SucceededIsSold
  SoldHoldsDiscount
  HandledIsSold
PROPERTIES
  KeepsPromise
CHECK_DEADLOCK FALSE
