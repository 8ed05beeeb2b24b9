SPECIFICATION Spec
CONSTANTS
  p1 = p1  p2 = p2  r1 = r1  r2 = r2  c1 = c1  c2 = c2
  None = None
  Procs = {p1, p2}
  Runs = {r1, r2}
  Cycles = {c1, c2}
  Evidence <- TwoGroups
  Signing = TRUE
  Faults = {"kill", "power"}
  MaxFailures = 2
SYMMETRY Symmetry
CHECK_DEADLOCK FALSE
INVARIANTS EvidenceKept LastPair AttestedReport CycleEnds
PROPERTIES ImplementsArchive
