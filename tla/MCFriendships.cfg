CONSTANTS
  Calls = {c1, c2, c3, c4}
  Users = {u1, u2}
  RowIds = {r1, r2, r3}
  Nobody = nobody
  NoId = noRow
SYMMETRY Interchangeable
SPECIFICATION Spec
INVARIANTS FriendsConsented SerialPairsHaveOneRow
PROPERTY SerialBlocksStand
CHECK_DEADLOCK FALSE
