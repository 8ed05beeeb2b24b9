SPECIFICATION Spec
CHECK_DEADLOCK FALSE
CONSTANTS
  ocsp1 = ocsp1
  ocsp2 = ocsp2
  crl1 = crl1
  strict1 = strict1
  plain1 = plain1
  Implementations = {ocsp1, ocsp2, crl1, strict1, plain1}
  Role <- MCRole
  CheckMethod <- MCMethod
  Enabled = {ocsp1, ocsp2, crl1, strict1}
  Manifest <- AwaitedOracles
  Rank <- MCRank
  MaxAttempts = 1
  PreflightMaxAge = 1
  Enforce = TRUE
  MaxTime = 3
INVARIANT ReleasedByEvidence
INVARIANT BarrierTruthful
INVARIANT RevokeAfterPreflight
