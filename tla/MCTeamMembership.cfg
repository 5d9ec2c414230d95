CONSTANTS
  Users = {ann, bob}
  Founder = ann
  TargetKind = "ORGANIZATION"
  Calls = {c1, c2, c3, c4}
  RowIds = {r0, r1, r2, r3, r4}
  FounderId = r0
  NoId = noRow
SYMMETRY Interchangeable
SPECIFICATION Spec
INVARIANTS FounderKept ConsentGiven ResolvedOnce AuditedDepartures
PROPERTY LifecycleSpec
CHECK_DEADLOCK FALSE
