SPECIFICATION Spec
CHECK_DEADLOCK FALSE
CONSTANTS
  TokenTTL = 5
  TokenMaxTTL = 9
  Grace = 1
  LoginPause = 2
  CertTTL = 14
  Minute = 4
  Near = 6
  First = 1
  Fast = 2
  MaxBackoff = 5
INVARIANTS TokenRecovers CertRecovers
PROPERTIES NeverAbandoned Stops
