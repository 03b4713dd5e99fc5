SPECIFICATION FairSpec
CONSTANTS
  Workers = {w1, w2}
  Charges = {c1, c2, c3}
  RetryIntervals <- ShortIntervals
  MaxMessages = 1
  Environments = {
    {"below_minimum", "method_removed", "give_up", "hard_decline", "invalid_method", "no_method", "method_added"},
    {"void", "hard_decline"}}
PROPERTIES
  DunningEnds
CHECK_DEADLOCK FALSE
