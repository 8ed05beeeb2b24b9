SPECIFICATION Spec
CONSTANTS
  p1 = p1  p2 = p2  r1 = r1  r2 = r2  c1 = c1  c2 = c2
  None = None
  Procs = {p1}
  Runs = {r1}
  Cycles = {c1}
  Evidence <- OneGroup
  Signing = TRUE
  Faults = {"kill"}
  MaxFailures = 1
CHECK_DEADLOCK FALSE
INVARIANTS ArchivedWhole
