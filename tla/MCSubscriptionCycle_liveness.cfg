SPECIFICATION FairSpec
CONSTANTS
  Workers = {w1, w2}
  Intervals = {1, 2}
  Interval = 2
  Horizon = 4
  MaxEvents = 2
  Environments = {
    {"cancel", "uncancel", "revoke", "crash", "overlap", "product", "seat_priced", "seats"},
    {"cancel", "revoke", "interval", "product_invoice", "crash", "lock_expires", "lost_job"}}
PROPERTIES
  DueIsCycled
CHECK_DEADLOCK FALSE
