CONSTANTS
  People = {u1, u2, u3}
  Requests = {r1, r2, r3}
  ThreadIds = {t1, t2}
  MaxTime = 3
SYMMETRY Interchangeable
SPECIFICATION ThreadsSpec
INVARIANTS OneThreadUnlessRaced ReadWasShown OthersToldOnce
CHECK_DEADLOCK FALSE
