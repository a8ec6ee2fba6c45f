SPECIFICATION Spec
CONSTANTS
  Commands = {c1, c2}
  Keys = {k1, k2, k3, k4, k5, k6}
  k1 = k1
  k2 = k2
  k3 = k3
  k4 = k4
  k5 = k5
  k6 = k6
  None = None
  Shapes <- AllShapes
  MaxAttempts = 3
  KeysApart = TRUE
SYMMETRY Ids
INVARIANTS TypeOK AnswersAreTrue JobsAreAnnounced
PROPERTIES KeepsPromise
CHECK_DEADLOCK FALSE
