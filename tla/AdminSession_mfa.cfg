SPECIFICATION AdminSpec
CONSTANTS
  Accounts = {a1}
  Sessions = {s1}
  Tokens = {t1, t2}
  p1 = p1
  p2 = p2
  r1 = r1
  r2 = r2
  r3 = r3
  elsewhere = elsewhere
  Pages = {p1}
  Requests = {r1, elsewhere}
  Home <- HomeOfOne
  None = None
  AccessTTL = 1
  SessionTTL = 2
  RefreshTTL = 3
  GrantEnds = {9}
  MaxTime = 2
  Kinds = {"route"}
  Habits = {"careful"}
PROPERTIES NoFakeSignIn
CHECK_DEADLOCK FALSE
