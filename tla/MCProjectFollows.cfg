CONSTANTS
  Calls = {c1, c2, c3}
  Users = {u1, u2, u3}
  Nobody = nobody
SYMMETRY Interchangeable
SPECIFICATION Spec
INVARIANTS CounterExact OwnRequestsCount StoresShowCounter
PROPERTY OnlyPublishingIndexes
CHECK_DEADLOCK FALSE
