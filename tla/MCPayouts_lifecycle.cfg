SPECIFICATION FairSpec
CONSTANTS
  Workers = {w1, w2}
  MaxEarned = 2
  MaxPayouts = 2
  MaxEvents = 1
  Environments = {
    {"overtaken", "lost_job"},
    {"retry", "refusal"},
    {"cancel", "crash"},
    {"crash", "reorder"},
    {"cancel", "early_cancel"},
    {"backlog"},
    {"cancel", "lost_job", "impatient"}}
INVARIANTS
  TypeOK
  BookedWithinEarned
  TransferIsBooked
  PaidWithinAmount
PROPERTIES
  PayoutIsTriggered
  PaidIsRecorded
CHECK_DEADLOCK FALSE
