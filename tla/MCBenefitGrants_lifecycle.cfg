SPECIFICATION FairSpec
CONSTANTS
  Purchases = {p1, p2}
  Accounts = {a1, a2}
  Workers = {w1, w2}
  MaxEvents = 2
  Environments = {
    {"hasty", "crash"},
    {"parallel", "crash", "outage"},
    {"delete", "crash"},
    {"hasty", "late_connect", "delete"},
    {"switch", "late_connect"},
    {"parallel", "hasty", "delete"},
    {"parallel", "switch"},
    {"uninstall", "crash", "delete"}}
INVARIANTS
  TypeOK
  GrantedHasAccess
  AccessIsGranted
PROPERTIES
  EntitledKeepsGrant
  EndedIsRevoked
  EntitledIsSettled
CHECK_DEADLOCK FALSE
