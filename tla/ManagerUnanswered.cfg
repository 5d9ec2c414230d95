CONSTANTS
  Users = {ann, bob}
  Founder = ann
  TargetKind = "ORGANIZATION"
  Calls = {c1, c2, c3}
  RowIds = {r0, r1, r2}
  FounderId = r0
  NoId = noRow
SYMMETRY Interchangeable
SPECIFICATION Spec
INVARIANT ManagersAnswered
CHECK_DEADLOCK FALSE
