SPECIFICATION Spec
CHECK_DEADLOCK FALSE
CONSTANTS
  a1 = a1  a2 = a2  b1 = b1
  None = None
  Absent = Absent
  Certs = {a1, a2, b1}
  SPKI <- MCSPKI
  Subject <- MCSubject
  Policy <- MCPolicy
  NotAfter <- MCNotAfter
  HashRank <- MCHashRank
  Paths <- MCPaths
  Bundle = "bundle"
  Stores <- MCStores
  Updates <- MCUpdates
  FirstRoots <- MCFirstRoots
  Lifetime = 1
  MaxTime = 1
  MaxChanges = 2
  MaxFaults = 1
INVARIANTS DriftSeen RemovalsCounted LoadFaithful SignedUnderKeptKey
PROPERTIES NoStaleBaseline Converges
