SPECIFICATION Spec
CONSTANTS
  Accounts = {a1}
  Sessions = {s1, s2}
  Tokens = {t1, t2, t3, t4}
  Requests = {r1, r2}
  None = None
  AccessTTL = 1
  SessionTTL = 2
  RefreshTTL = 3
  GrantEnds = {0, 1, 9}
  MaxTime = 3
SYMMETRY Ids
INVARIANTS TypeOK UndetectedReuseBounded ClosedSessionHasDeadFamily RotationTree
PROPERTIES LeftBehindOnlyShrinks RevocationIsFinal KeepsContract
CHECK_DEADLOCK FALSE
