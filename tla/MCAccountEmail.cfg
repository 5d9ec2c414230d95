CONSTANTS
  Users = {ann, bob}
  Addresses = {home, work}
  Tokens = {t1, t2, t3}
  Requests = {r1, r2, r3, r4}
  None = none
SYMMETRY Interchangeable
SPECIFICATION EmailSpec
INVARIANTS VerifiedAsProved AskedIsMailed
CHECK_DEADLOCK FALSE
