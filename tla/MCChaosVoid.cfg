SPECIFICATION Spec
CONSTANTS
  DelayLists <- VoidDelayLists
  Trials = 2
  MaxAttempts = 2
  PreflightMaxAge = 2
  Enabled = {"openssl-ocsp-direct"}
  Answers <- MCAnswers
  CRLAnswers <- MCCRLAnswers
  MaxHeld = 1
  MaxClockSkew = 1
  RequireNextUpdate = TRUE
  MaxAgeWithoutNextUpdate = 1
  MaxAge = 2
  NotBefore <- MCNotBefore
INVARIANT CleanTrialsConfirm
CHECK_DEADLOCK FALSE
