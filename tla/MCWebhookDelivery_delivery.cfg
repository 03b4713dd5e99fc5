SPECIFICATION FairSpec
CONSTANTS
  Workers = {w1, w2}
  MaxSent = 2
  MaxAttempts = 2
  Threshold = 2
  MaxEvents = 2
  Environments = {
    {"late_commit", "redeliver"},
    {"lost_job", "toggle"},
    {"crash", "toggle"},
    {"overlap"}}
INVARIANTS
  TypeOK
  AttemptedInOrder
  AttemptsBounded
  PendingHasMessage
PROPERTIES
  EventSettles
CHECK_DEADLOCK FALSE
