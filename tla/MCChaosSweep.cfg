SPECIFICATION Spec
CONSTANTS
  DelayLists <- MCDelayLists
  Trials = 2
  MaxAttempts = 2
  PreflightMaxAge = 2
  Enabled = {"openssl-ocsp-direct", "crl-check", "curl-default"}
  Answers <- MCAnswers
  CRLAnswers <- MCCRLAnswers
  MaxHeld = 1
  MaxClockSkew = 1
  RequireNextUpdate = FALSE
  MaxAgeWithoutNextUpdate = 1
  MaxAge = 2
  NotBefore <- MCNotBefore
INVARIANTS OracleTruthful OwnDelay StatsOfLastSeries CleanTrialsConfirm
PROPERTY SweepEnds
CHECK_DEADLOCK FALSE
