CONSTANTS
  Calls = {c1, c2, c3, c4}
  KeyIds = {k1, k2, k3}
  ResetIds = {t1, t2}
  Secrets = {s1, s2}
  NoId = none
  NoSecret = noSecret
SYMMETRY Interchangeable
SPECIFICATION Spec
INVARIANTS RevocationsHold AccessCurrent ConfirmedWasProved ResetsOnce
CHECK_DEADLOCK FALSE
