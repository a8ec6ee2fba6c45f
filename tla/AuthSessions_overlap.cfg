SPECIFICATION Spec
CONSTANTS
  Accounts = {a1}
  Sessions = {s1}
  Tokens = {t1, t2, t3}
  Requests = {r1, r2}
  None = None
  AccessTTL = 1
  SessionTTL = 2
  RefreshTTL = 3
  GrantEnds = {9}
  MaxTime = 2
INVARIANTS ReusedTokenClosesFamily
CHECK_DEADLOCK FALSE
