SPECIFICATION Spec
CONSTANTS
  a1 = a1
  a2 = a2
  b1 = b1
  b2 = b2
  b2x = b2x
  b3 = b3
  None = None
  Torn = Torn
  Procs <- MCProcs
  Baselines <- MCBaselines
  Sequence <- MCSequence
  PreviousDigest <- MCPreviousDigest
  Faults = {"kill", "power"}
PROPERTY ReplaysRefused
