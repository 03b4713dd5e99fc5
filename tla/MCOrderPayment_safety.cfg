SPECIFICATION Spec
CONSTANTS
  Workers = {w1, w2}
  Charges = {c1, c2}
  RetryIntervals <- ShortIntervals
  MaxMessages = 1
  Environments = {
    {"crash", "manual", "late_hook", "give_up", "processing", "backlog", "void", "revoke"},
    {"give_up", "early_hook", "manual", "void", "method_removed", "method_added", "hard_decline", "invalid_method", "no_method", "below_minimum"},
    {"give_up", "early_hook", "void", "revoke", "method_removed", "method_added", "blocked", "processing", "hard_decline", "invalid_method", "no_method", "lost_job", "final_order"},
    {"give_up", "early_hook", "void", "revoke", "method_added", "blocked", "processing", "hard_decline", "invalid_method", "no_method", "lost_job", "final_order"},
    {"early_hook", "void", "revoke", "method_removed", "method_added", "processing", "invalid_method", "no_method", "below_minimum", "lost_job", "final_order", "late_hook"},
    {"void", "revoke", "method_removed", "method_added", "processing", "invalid_method", "no_method", "below_minimum", "lost_job", "final_order", "late_hook"},
    {"give_up", "early_hook", "void", "method_removed", "method_added", "blocked", "processing", "hard_decline", "invalid_method", "no_method", "below_minimum", "lost_job", "final_order"},
    {"give_up", "early_hook", "void", "method_removed", "method_added", "blocked", "hard_decline", "invalid_method", "no_method", "below_minimum", "lost_job"},
    {"void", "give_up", "blocked", "hard_decline", "processing", "method_removed", "late_hook", "revoke"},
    {"paystack", "crash", "revoke", "method_added", "no_method", "backlog", "give_up", "void"},
    {"paystack", "method_added", "no_method", "give_up", "void", "lost_job", "blocked"}}
SYMMETRY Symmetry
INVARIANTS
  TypeOK
  PaidByCharge
  ChargedOnce
  LockHasCharge
  PastDueIsScheduled
PROPERTIES
  PaidKeepsSubscription
CHECK_DEADLOCK FALSE
