SPECIFICATION Spec
CONSTANTS
  Workers = {w1, w2}
  Intervals = {1, 2}
  Interval = 2
  Horizon = 4
  MaxEvents = 2
  Environments = {
    {"cancel", "uncancel", "revoke", "trial_now", "extend", "product", "product_invoice", "interval", "trial", "payments", "crash", "lost_job", "scheduler_crash", "backlog"},
    {"cancel", "uncancel", "revoke", "trial_now", "extend", "seat_priced", "seats", "seats_invoice", "product", "product_invoice", "trial", "payments", "crash", "lost_job", "scheduler_crash", "backlog"},
    {"cancel", "uncancel", "revoke", "product", "product_invoice", "trial", "payments", "crash", "lost_job", "scheduler_crash", "overlap", "backlog"},
    {"cancel", "uncancel", "revoke", "trial_now", "product", "crash", "lost_job", "scheduler_crash", "lock_expires", "overlap"},
    {"cancel", "uncancel", "revoke", "trial_now", "seat_priced", "seats", "product", "crash", "lost_job", "scheduler_crash", "lock_expires", "overlap"},
    {"cancel", "uncancel", "revoke", "trial_now", "trial_set", "extend", "product", "interval", "payments", "crash", "lock_expires", "overlap", "backlog"}}
SYMMETRY Symmetry
INVARIANTS
  TypeOK
  PeriodsDisjoint
  ActiveIsBilled
  BilledOnce
  PendingHasJob
CHECK_DEADLOCK FALSE
