CONSTANTS
  Calls = {c1, c2, c3, c4}
  Moderators = {m1, m2}
  Nobody = nobody
SYMMETRY Interchangeable
SPECIFICATION Spec
INVARIANTS AnswersAfterWrite StalePageOwed
PROPERTIES OthersLocksStay
CHECK_DEADLOCK FALSE
