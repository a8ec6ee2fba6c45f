SPECIFICATION MCSpec
CONSTANTS
  Accounts = {a1}
  Sessions = {s1, s2}
  Tokens = {t1, t2, t3}
  p1 = p1
  p2 = p2
  r1 = r1
  r2 = r2
  r3 = r3
  elsewhere = elsewhere
  Pages = {p1, p2}
  Requests = {r1, r2, r3}
  Home <- HomeOfThree
  None = None
  AccessTTL = 1
  SessionTTL = 2
  RefreshTTL = 3
  GrantEnds = {9}
  MaxTime = 2
  Kinds = {"page", "dashboard", "route", "signout"}
  Habits = {"any", "careful"}
SYMMETRY Ids
INVARIANTS CookiesOfOneSession HonestBrowserNeverFlagged
CHECK_DEADLOCK FALSE
