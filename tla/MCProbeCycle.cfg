SPECIFICATION Spec
CHECK_DEADLOCK FALSE
CONSTANTS
  ocsp1 = ocsp1
  ocsp2 = ocsp2
  crl1 = crl1
  strict1 = strict1
  plain1 = plain1
  Implementations = {ocsp1, ocsp2, crl1, strict1, plain1}
  Role <- MCRole
  CheckMethod <- MCMethod
  Enabled = {ocsp1, strict1, plain1}
  Manifest <- RevokedStaple
  Rank <- MCRank
  MaxAttempts = 2
  PreflightMaxAge = 1
  Enforce = TRUE
  MaxTime = 2
INVARIANT CanaryNotForgotten
INVARIANT ValidComplete
INVARIANT NoStaleAcceptance
INVARIANT TimelineCausal
INVARIANT AllJoined
PROPERTY Returns
PROPERTY ImplementsExperiment
