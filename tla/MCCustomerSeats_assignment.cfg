SPECIFICATION Spec
CONSTANTS
  Members = {m1, m2}
  Workers = {w1, w2}
  MaxSeats = 2
  MaxAssignments = 3
  Environments = {
    {"collide"},
    {"double", "after_end"},
    {"resize", "next_period"},
    {"reorder"},
    {"lost_job"}}
SYMMETRY Symmetry
INVARIANTS
  TypeOK
  AssignedWithinLimit
  AccessHasSeat
  SeatHasAccess
CHECK_DEADLOCK FALSE
