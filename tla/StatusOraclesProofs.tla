------------------------- MODULE StatusOraclesProofs -------------------------
(***************************************************************************)
(* The oracles against the reference, for every signed document, whatever  *)
(* its times, and every freshness policy.                                  *)
(***************************************************************************)
EXTENDS StatusOracles, TLAPS

(* The first of up to four failed checks exists.                             *)
LEMMA FirstOf ==
  ASSUME NEW S \in SUBSET {1, 2, 3, 4}, S # {}
  PROVE  (CHOOSE i \in S : \A j \in S : i =< j) \in S
<1>1. CASE 1 \in S
  <2>1. \A j \in S : 1 =< j
    OBVIOUS
  <2> QED
    BY <1>1, <2>1
<1>2. CASE 1 \notin S /\ 2 \in S
  <2>1. \A j \in S : 2 =< j
    BY <1>2
  <2> QED
    BY <1>2, <2>1
<1>3. CASE 1 \notin S /\ 2 \notin S /\ 3 \in S
  <2>1. \A j \in S : 3 =< j
    BY <1>3
  <2> QED
    BY <1>3, <2>1
<1>4. CASE S = {4}
  BY <1>4
<1> QED
  BY <1>1, <1>2, <1>3, <1>4

(* The reason of the first failed check is "NONE" when, and only when, none has  *)
(* failed.                                                                   *)
LEMMA FirstFailedNone ==
  ASSUME NEW checks, DOMAIN checks \subseteq {1, 2, 3, 4},
         \A i \in DOMAIN checks : checks[i].reason \in Refusal \cup {"NONE"},
         \A i \in DOMAIN checks : checks[i].failed => checks[i].reason # "NONE"
  PROVE  /\ FirstFailed(checks) \in Refusal \cup {"NONE"}
         /\ FirstFailed(checks) = "NONE" <=> \A i \in DOMAIN checks : ~checks[i].failed
<1> DEFINE failed == {i \in DOMAIN checks : checks[i].failed}
           first == CHOOSE i \in failed : \A j \in failed : i =< j
<1>1. failed \in SUBSET {1, 2, 3, 4}
  OBVIOUS
<1>2. FirstFailed(checks) = IF failed = {} THEN "NONE" ELSE checks[first].reason
  BY DEF FirstFailed
<1>3. failed # {} => first \in failed
  <2> HIDE DEF failed
  <2> QED
    BY <1>1, FirstOf
<1>4. failed = {} <=> \A i \in DOMAIN checks : ~checks[i].failed
  OBVIOUS
<1>5. \A i \in failed : checks[i].reason \in Refusal \cup {"NONE"} /\ checks[i].reason # "NONE"
  OBVIOUS
<1> HIDE DEF failed, first
<1> QED
  BY <1>2, <1>3, <1>4, <1>5

(* Of four checks, each with a reason of its own, one failed or none did.    *)
LEMMA FirstFailedOf4 ==
  ASSUME NEW c1 \in BOOLEAN, NEW c2 \in BOOLEAN, NEW c3 \in BOOLEAN, NEW c4 \in BOOLEAN,
         NEW r1 \in Refusal, NEW r2 \in Refusal, NEW r3 \in Refusal,
         NEW r4 \in Refusal
  PROVE  LET f == FirstFailed(<<Check(c1, r1), Check(c2, r2), Check(c3, r3), Check(c4, r4)>>)
         IN  f \in Refusal \cup {"NONE"} /\ (f = "NONE" <=> ~c1 /\ ~c2 /\ ~c3 /\ ~c4)
<1> DEFINE checks == <<Check(c1, r1), Check(c2, r2), Check(c3, r3), Check(c4, r4)>>
<1>1. \A c, r : Check(c, r).failed = c /\ Check(c, r).reason = r
  BY DEF Check
<1>2. /\ DOMAIN checks = {1, 2, 3, 4}
      /\ checks[1] = Check(c1, r1) /\ checks[2] = Check(c2, r2)
      /\ checks[3] = Check(c3, r3) /\ checks[4] = Check(c4, r4)
  OBVIOUS
<1> HIDE DEF checks
<1>3. /\ \A i \in DOMAIN checks : checks[i].reason \in Refusal
      /\ (\A i \in DOMAIN checks : ~checks[i].failed) <=> ~c1 /\ ~c2 /\ ~c3 /\ ~c4
  BY <1>1, <1>2
<1>4. /\ FirstFailed(checks) \in Refusal \cup {"NONE"}
      /\ FirstFailed(checks) = "NONE" <=> \A i \in DOMAIN checks : ~checks[i].failed
  <2>1. "NONE" \notin Refusal
    BY DEF Refusal
  <2> QED
    BY <1>2, <1>3, <2>1, FirstFailedNone
<1> QED
  BY <1>3, <1>4 DEF checks

(* Of two checks whose reasons are there when they fail.                     *)
LEMMA FirstFailedOf2 ==
  ASSUME NEW c1 \in BOOLEAN, NEW c2 \in BOOLEAN, NEW r1 \in Refusal \cup {"NONE"}, NEW r2 \in Refusal \cup {"NONE"},
         c1 => r1 # "NONE", c2 => r2 # "NONE"
  PROVE  LET f == FirstFailed(<<Check(c1, r1), Check(c2, r2)>>)
         IN  f \in Refusal \cup {"NONE"} /\ (f = "NONE" <=> ~c1 /\ ~c2)
<1> DEFINE checks == <<Check(c1, r1), Check(c2, r2)>>
<1>1. \A c, r : Check(c, r).failed = c /\ Check(c, r).reason = r
  BY DEF Check
<1>2. /\ DOMAIN checks = {1, 2}
      /\ checks[1] = Check(c1, r1) /\ checks[2] = Check(c2, r2)
  OBVIOUS
<1> HIDE DEF checks
<1>3. /\ \A i \in DOMAIN checks : checks[i].reason \in Refusal \cup {"NONE"}
      /\ \A i \in DOMAIN checks : checks[i].failed => checks[i].reason # "NONE"
      /\ (\A i \in DOMAIN checks : ~checks[i].failed) <=> ~c1 /\ ~c2
  BY <1>1, <1>2
<1>4. /\ FirstFailed(checks) \in Refusal \cup {"NONE"}
      /\ FirstFailed(checks) = "NONE" <=> \A i \in DOMAIN checks : ~checks[i].failed
  BY <1>2, <1>3, FirstFailedNone
<1> QED
  BY <1>3, <1>4 DEF checks

(* checkRevocationTime passes a plausible revocation time only.              *)
LEMMA RevocationTime ==
  ASSUME NEW t \in Field
  PROVE  /\ checkRevocationTime(t) \in Refusal \cup {"NONE"}
         /\ checkRevocationTime(t) = "NONE" <=> Plausible(t)
<1> DEFINE early == \A s \in t : s < NotBefore - MaxClockSkew
           late == \E s \in t : s > MaxClockSkew
<1>1. /\ checkRevocationTime(t) \in Refusal \cup {"NONE"}
      /\ checkRevocationTime(t) = "NONE" <=> ~early /\ ~late
  <2>1. early \in BOOLEAN /\ late \in BOOLEAN
    OBVIOUS
  <2>2. {"INVALID_STATUS", "FUTURE_STATUS"} \subseteq Refusal /\ "INVALID_STATUS" # "NONE" /\ "FUTURE_STATUS" # "NONE"
    BY DEF Refusal
  <2>3. checkRevocationTime(t) =
          FirstFailed(<<Check(early, "INVALID_STATUS"), Check(late, "FUTURE_STATUS")>>)
    BY DEF checkRevocationTime
  <2> HIDE DEF early, late
  <2> QED
    BY <2>1, <2>2, <2>3, FirstFailedOf2
<1>2. t \subseteq Int /\ \A r, s \in t : r = s
  BY DEF Field
<1>3. NotBefore \in Int /\ MaxClockSkew \in Int
  BY StatusAssumption
<1>4. ~early /\ ~late <=> Plausible(t)
  BY <1>2, <1>3 DEF Plausible
<1> QED
  BY <1>1, <1>4

(* checkOCSPFreshness passes the responses that speak for the present.       *)
LEMMA OCSPFreshness ==
  ASSUME NEW r \in OCSPResponse
  PROVE  /\ checkOCSPFreshness(r) \in Refusal \cup {"NONE"}
         /\ checkOCSPFreshness(r) = "NONE" <=>
              /\ r.producedAt =< MaxClockSkew
              /\ Current(r, IF r.nextUpdate = {} THEN {MaxAgeWithoutNextUpdate} ELSE {})
<1> DEFINE future == r.thisUpdate > MaxClockSkew \/ r.producedAt > MaxClockSkew
           missing == r.nextUpdate = {} /\ RequireNextUpdate
           old == r.nextUpdate = {} /\ -r.thisUpdate > MaxAgeWithoutNextUpdate
           over == \E t \in r.nextUpdate : t < 0
<1>1. /\ checkOCSPFreshness(r) \in Refusal \cup {"NONE"}
      /\ checkOCSPFreshness(r) = "NONE" <=> ~future /\ ~missing /\ ~old /\ ~over
  <2>1. future \in BOOLEAN /\ missing \in BOOLEAN /\ old \in BOOLEAN /\ over \in BOOLEAN
    BY StatusAssumption
  <2>2. {"FUTURE_STATUS", "MISSING_FRESHNESS", "STALE_STATUS"} \subseteq Refusal
    BY DEF Refusal
  <2>3. checkOCSPFreshness(r) =
          FirstFailed(<<Check(future, "FUTURE_STATUS"), Check(missing, "MISSING_FRESHNESS"),
                        Check(old, "STALE_STATUS"), Check(over, "STALE_STATUS")>>)
    BY DEF checkOCSPFreshness
  <2> HIDE DEF future, missing, old, over
  <2> QED
    BY <2>1, <2>2, <2>3, FirstFailedOf4
<1>2. r.thisUpdate \in Int /\ r.producedAt \in Int /\ r.nextUpdate \subseteq Int
  BY DEF OCSPResponse, Field
<1>3. MaxClockSkew \in Int /\ MaxAgeWithoutNextUpdate \in Int
  BY StatusAssumption
<1>4. CASE r.nextUpdate = {}
  BY <1>1, <1>2, <1>3, <1>4 DEF Current
<1>5. CASE r.nextUpdate # {}
  BY <1>1, <1>2, <1>3, <1>5 DEF Current
<1> QED
  BY <1>4, <1>5

(* checkCRLFreshness likewise.                                               *)
LEMMA CRLFreshness ==
  ASSUME NEW c \in CRL
  PROVE  /\ checkCRLFreshness(c) \in Refusal \cup {"NONE"}
         /\ checkCRLFreshness(c) = "NONE" <=> Current(c, {MaxAge})
<1> DEFINE future == c.thisUpdate > MaxClockSkew
           old == -c.thisUpdate > MaxAge
           missing == c.nextUpdate = {} /\ RequireNextUpdate
           over == \E t \in c.nextUpdate : t < 0
<1>1. /\ checkCRLFreshness(c) \in Refusal \cup {"NONE"}
      /\ checkCRLFreshness(c) = "NONE" <=> ~future /\ ~old /\ ~missing /\ ~over
  <2>1. future \in BOOLEAN /\ missing \in BOOLEAN /\ old \in BOOLEAN /\ over \in BOOLEAN
    BY StatusAssumption
  <2>2. {"FUTURE_STATUS", "MISSING_FRESHNESS", "STALE_STATUS"} \subseteq Refusal
    BY DEF Refusal
  <2>3. checkCRLFreshness(c) =
          FirstFailed(<<Check(future, "FUTURE_STATUS"), Check(old, "STALE_STATUS"),
                        Check(missing, "MISSING_FRESHNESS"), Check(over, "STALE_STATUS")>>)
    BY DEF checkCRLFreshness
  <2> HIDE DEF future, missing, old, over
  <2> QED
    BY <2>1, <2>2, <2>3, FirstFailedOf4
<1>2. c.thisUpdate \in Int /\ c.nextUpdate \subseteq Int
  BY DEF CRL, Field
<1>3. MaxClockSkew \in Int /\ MaxAge \in Int
  BY StatusAssumption
<1> QED
  BY <1>1, <1>2, <1>3 DEF Current

(* Every observation is one the report knows, and a refusal says nothing of  *)
(* the leaf.                                                                 *)
LEMMA Observations ==
  ASSUME NEW reason \in Refusal
  PROVE  /\ {HarnessError, NetworkFailure, Revoked, Good, Reject(reason)}
              \subseteq [decision : Decision, reason : Reason]
         /\ Truthful(HarnessError, "nothing") /\ Truthful(NetworkFailure, "nothing")
         /\ Truthful(Good, "good") /\ Truthful(Revoked, "revoked")
         /\ Truthful(Reject(reason), "nothing")
<1>1. /\ HarnessError = [decision |-> "HARNESS_ERROR", reason |-> "HARNESS_FAILURE"]
      /\ NetworkFailure = [decision |-> "INCONCLUSIVE", reason |-> "NETWORK_FAILURE"]
      /\ Revoked = [decision |-> "REJECT", reason |-> "REVOKED"]
      /\ Good = [decision |-> "ACCEPT", reason |-> "STATUS_GOOD"]
      /\ Reject(reason) = [decision |-> "REJECT", reason |-> reason]
  BY DEF HarnessError, NetworkFailure, Revoked, Good, Reject, Observation
<1>2. /\ HarnessError \in [decision : Decision, reason : Reason]
      /\ NetworkFailure \in [decision : Decision, reason : Reason]
  BY <1>1 DEF Decision, Reason
<1>3. /\ Revoked \in [decision : Decision, reason : Reason]
      /\ Good \in [decision : Decision, reason : Reason]
      /\ Reject(reason) \in [decision : Decision, reason : Reason]
  BY <1>1 DEF Decision, Reason
<1>4. reason # "REVOKED"
  BY DEF Refusal
<1>5. HarnessError # Revoked /\ NetworkFailure # Revoked /\ Good # Revoked /\ Reject(reason) # Revoked
  BY <1>1, <1>4
<1>6. /\ HarnessError.decision # "ACCEPT" /\ NetworkFailure.decision # "ACCEPT"
      /\ Good.decision = "ACCEPT" /\ Revoked.decision # "ACCEPT" /\ Reject(reason).decision # "ACCEPT"
  BY <1>1
<1> HIDE DEF HarnessError, NetworkFailure, Revoked, Good, Reject
<1> QED
  BY <1>2, <1>3, <1>5, <1>6 DEF Truthful

(* What openssl-ocsp-direct says of the leaf is what the response shows, for *)
(* every response and every policy (ValidateOCSPTemporal).                   *)
THEOREM OCSPOracleSound ==
  ASSUME NEW a \in Answer(OCSPResponse)
  PROVE  /\ Truthful(opensslOCSPDirect(a), OCSPTruth(a))
         /\ opensslOCSPDirect(a) \in [decision : Decision, reason : Reason]
         /\ OCSPTruth(a) \in {"nothing", "good", "revoked"}
<1>1. CASE a.kind = "none"
  <2>1. opensslOCSPDirect(a) = NetworkFailure /\ OCSPTruth(a) = "nothing"
    BY <1>1 DEF opensslOCSPDirect, OCSPTruth
  <2> QED
    BY <2>1, Observations DEF Refusal
<1>2. CASE a.kind \in {"empty", "invalid"}
  <2>1. opensslOCSPDirect(a) = Reject("INVALID_STATUS") /\ OCSPTruth(a) = "nothing"
    BY <1>2 DEF opensslOCSPDirect, OCSPTruth
  <2> QED
    BY <2>1, Observations DEF Refusal
<1>3. CASE a.kind = "signed"
  <2> DEFINE r == a.response
             reason == ValidateOCSPTemporal(r)
  <2>1. r \in OCSPResponse
    BY <1>3 DEF Answer
  <2>2. r.status \in {"good", "unknown", "revoked"} /\ r.revokedAt \in Field
    BY <2>1 DEF OCSPResponse
  <2>3. /\ reason \in Refusal \cup {"NONE"}
        /\ reason = "NONE" <=> /\ checkOCSPFreshness(r) = "NONE"
                               /\ r.status = "revoked" => Plausible(r.revokedAt)
    <3>1. CASE checkOCSPFreshness(r) # "NONE"
      BY <2>1, <3>1, OCSPFreshness DEF ValidateOCSPTemporal
    <3>2. CASE checkOCSPFreshness(r) = "NONE" /\ r.status = "revoked"
      BY <2>2, <3>2, RevocationTime DEF ValidateOCSPTemporal
    <3>3. CASE checkOCSPFreshness(r) = "NONE" /\ r.status # "revoked"
      BY <3>3 DEF ValidateOCSPTemporal
    <3> QED
      BY <3>1, <3>2, <3>3
  <2>4. OCSPTruth(a) = IF checkOCSPFreshness(r) # "NONE" THEN "nothing"
                       ELSE CASE r.status = "good" -> "good"
                              [] r.status = "revoked" /\ Plausible(r.revokedAt) -> "revoked"
                              [] OTHER -> "nothing"
    BY <1>3, <2>1, OCSPFreshness DEF OCSPTruth
  <2>5. opensslOCSPDirect(a) =
          CASE reason # "NONE" -> Reject(reason)
            [] reason = "NONE" /\ r.status = "revoked" -> Revoked
            [] reason = "NONE" /\ r.status = "good" -> Good
            [] OTHER -> Reject("UNKNOWN_STATUS")
    BY <1>3 DEF opensslOCSPDirect
  <2> HIDE DEF r, reason
  <2>6. CASE reason # "NONE"
    <3>1. reason \in Refusal /\ opensslOCSPDirect(a) = Reject(reason) /\ OCSPTruth(a) = "nothing"
      BY <2>2, <2>3, <2>4, <2>5, <2>6
    <3> QED
      BY <3>1, Observations
  <2>7. CASE reason = "NONE" /\ r.status = "revoked"
    <3>1. opensslOCSPDirect(a) = Revoked /\ OCSPTruth(a) = "revoked"
      BY <2>3, <2>4, <2>5, <2>7
    <3> QED
      BY <3>1, Observations DEF Refusal
  <2>8. CASE reason = "NONE" /\ r.status = "good"
    <3>1. opensslOCSPDirect(a) = Good /\ OCSPTruth(a) = "good"
      BY <2>3, <2>4, <2>5, <2>8
    <3> QED
      BY <3>1, Observations DEF Refusal
  <2>9. CASE reason = "NONE" /\ r.status = "unknown"
    <3>1. opensslOCSPDirect(a) = Reject("UNKNOWN_STATUS") /\ OCSPTruth(a) = "nothing"
      BY <2>3, <2>4, <2>5, <2>9
    <3> QED
      BY <3>1, Observations DEF Refusal
  <2> QED
    BY <2>2, <2>6, <2>7, <2>8, <2>9
<1> QED
  BY <1>1, <1>2, <1>3 DEF Answer

(* What crl-check says of the leaf is what the CRL shows, for every CRL and  *)
(* every policy (crlCheck).                                                  *)
THEOREM CRLOracleSound ==
  ASSUME NEW a \in Answer(CRL)
  PROVE  /\ Truthful(crlCheck(a), CRLTruth(a))
         /\ crlCheck(a) \in [decision : Decision, reason : Reason]
         /\ CRLTruth(a) \in {"nothing", "good", "revoked"}
<1>1. CASE a.kind = "none"
  <2>1. crlCheck(a) = NetworkFailure /\ CRLTruth(a) = "nothing"
    BY <1>1 DEF crlCheck, CRLTruth
  <2> QED
    BY <2>1, Observations DEF Refusal
<1>2. CASE a.kind \in {"empty", "invalid"}
  <2>1. crlCheck(a) = Reject("INVALID_STATUS") /\ CRLTruth(a) = "nothing"
    BY <1>2 DEF crlCheck, CRLTruth
  <2> QED
    BY <2>1, Observations DEF Refusal
<1>3. CASE a.kind = "signed"
  <2> DEFINE crl == a.response
             foreign == validateCRLIssuer(crl) # "NONE"
             fresh == checkCRLFreshness(crl)
             document == FirstFailed(<<Check(foreign, "INVALID_STATUS"), Check(fresh # "NONE", fresh)>>)
             entry == IF \E t \in crl.entries : checkRevocationTime(t) # "NONE"
                      THEN checkRevocationTime(CHOOSE t \in crl.entries : TRUE) ELSE "NONE"
  <2>1. crl \in CRL
    BY <1>3 DEF Answer
  <2>2. /\ crl.issuer \in {"same", "other"} /\ crl.keyID \in {"same", "absent", "other"}
        /\ crl.entries \subseteq Field /\ \A s, t \in crl.entries : s = t
    BY <2>1 DEF CRL
  <2>3. fresh \in Refusal \cup {"NONE"} /\ (fresh = "NONE" <=> Current(crl, {MaxAge}))
    BY <2>1, CRLFreshness
  <2>4. foreign <=> ~(crl.issuer = "same" /\ crl.keyID # "other")
    BY <2>2 DEF validateCRLIssuer
  <2>5. /\ document \in Refusal \cup {"NONE"}
        /\ document = "NONE" <=> ~foreign /\ fresh = "NONE"
    <3> DEFINE stale == fresh # "NONE"
    <3>1. foreign \in BOOLEAN /\ stale \in BOOLEAN
      OBVIOUS
    <3>2. "INVALID_STATUS" \in Refusal \cup {"NONE"} /\ "INVALID_STATUS" # "NONE"
      BY DEF Refusal
    <3>3. document = FirstFailed(<<Check(foreign, "INVALID_STATUS"), Check(stale, fresh)>>)
      OBVIOUS
    <3>4. stale <=> fresh # "NONE"
      OBVIOUS
    <3> HIDE DEF foreign, fresh, stale, document
    <3>5. /\ document \in Refusal \cup {"NONE"}
          /\ document = "NONE" <=> ~foreign /\ ~stale
      BY <2>3, <3>1, <3>2, <3>3, <3>4, FirstFailedOf2
    <3> QED
      BY <3>4, <3>5
  <2>6. CRLTruth(a) = IF document # "NONE" THEN "nothing"
                      ELSE CASE crl.entries = {} -> "good"
                             [] \E t \in crl.entries : Plausible(t) -> "revoked"
                             [] OTHER -> "nothing"
    <3> HIDE DEF document, fresh, foreign
    <3> QED
      BY <1>3, <2>3, <2>4, <2>5 DEF CRLTruth
  <2>7. crlCheck(a) =
          CASE document # "NONE" -> Reject(document)
            [] document = "NONE" /\ crl.entries = {} -> Good
            [] document = "NONE" /\ crl.entries # {} /\ entry # "NONE" -> Reject(entry)
            [] OTHER -> Revoked
    BY <1>3 DEF crlCheck
  <2>8. crl.entries # {} => /\ entry \in Refusal \cup {"NONE"}
                            /\ entry = "NONE" <=> \E t \in crl.entries : Plausible(t)
    <3> SUFFICES ASSUME crl.entries # {}
                 PROVE  /\ entry \in Refusal \cup {"NONE"}
                        /\ entry = "NONE" <=> \E t \in crl.entries : Plausible(t)
      OBVIOUS
    <3> DEFINE t0 == CHOOSE t \in crl.entries : TRUE
    <3>1. t0 \in crl.entries
      OBVIOUS
    <3>2. crl.entries = {t0} /\ t0 \in Field
      BY <2>2, <3>1
    <3>3. entry = checkRevocationTime(t0)
      BY <3>2
    <3> HIDE DEF t0, entry
    <3> QED
      BY <3>2, <3>3, RevocationTime
  <2> HIDE DEF crl, document, entry
  <2>9. CASE document # "NONE"
    <3>1. document \in Refusal /\ crlCheck(a) = Reject(document) /\ CRLTruth(a) = "nothing"
      BY <2>5, <2>6, <2>7, <2>9
    <3> QED
      BY <3>1, Observations
  <2>10. CASE document = "NONE" /\ crl.entries = {}
    <3>1. crlCheck(a) = Good /\ CRLTruth(a) = "good"
      BY <2>6, <2>7, <2>10
    <3> QED
      BY <3>1, Observations DEF Refusal
  <2>11. CASE document = "NONE" /\ crl.entries # {} /\ entry # "NONE"
    <3>1. entry \in Refusal /\ crlCheck(a) = Reject(entry) /\ CRLTruth(a) = "nothing"
      BY <2>6, <2>7, <2>8, <2>11
    <3> QED
      BY <3>1, Observations
  <2>12. CASE document = "NONE" /\ crl.entries # {} /\ entry = "NONE"
    <3>1. crlCheck(a) = Revoked /\ CRLTruth(a) = "revoked"
      BY <2>6, <2>7, <2>8, <2>12
    <3> QED
      BY <3>1, Observations DEF Refusal
  <2> QED
    BY <2>9, <2>10, <2>11, <2>12
<1> QED
  BY <1>1, <1>2, <1>3 DEF Answer
=============================================================================
