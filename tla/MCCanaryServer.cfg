SPECIFICATION Spec
CHECK_DEADLOCK FALSE
CONSTANTS
  c1 = c1  c2 = c2  c3 = c3  k1 = k1  k2 = k2
  Conns = {c1, c2}
  Callers = {k1, k2}
  MaxStaples = 2
INVARIANTS NothingLeft StapleCurrent
PROPERTIES SnapshotComplete CloseReturns PeersReleased
