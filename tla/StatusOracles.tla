---------------------------- MODULE StatusOracles ----------------------------
(***************************************************************************)
(* What the two status oracles conclude from a signed status document: the *)
(* OCSP response openssl-ocsp-direct obtains and the CRL crl-check         *)
(* downloads.  Times are offsets from the moment of the check (now = 0); a *)
(* field that may be the zero time is a set of at most one offset.         *)
(***************************************************************************)
EXTENDS Integers

CONSTANTS
  MaxClockSkew,             \* StatusFreshness.MaxClockSkew
  RequireNextUpdate,        \* OCSPFreshness and CRLFreshness .RequireNextUpdate
  MaxAgeWithoutNextUpdate,  \* OCSPFreshness.MaxAgeWithoutNextUpdate
  MaxAge,                   \* CRLFreshness.MaxAge
  NotBefore                 \* leaf.NotBefore

ASSUME StatusAssumption ==
  /\ MaxClockSkew \in Nat /\ MaxAgeWithoutNextUpdate \in Nat /\ MaxAge \in Nat
  /\ RequireNextUpdate \in BOOLEAN
  /\ NotBefore \in Int

(* The time in a field, if it is there.                                      *)
Field == {f \in SUBSET Int : \A s, t \in f : s = t}
OCSPResponse == [status : {"good", "unknown", "revoked"}, thisUpdate : Int, producedAt : Int,
                 nextUpdate : Field, revokedAt : Field]
CRL == [issuer : {"same", "other"}, keyID : {"same", "absent", "other"}, thisUpdate : Int,
        nextUpdate : Field, entries : {e \in SUBSET Field : \A s, t \in e : s = t}]

(* What an attempt brings back: "none" is no answer (the context ended, the *)
(* responder could not be reached, the CRL's HTTP status was an error),     *)
(* "empty" an answer with no document in it, "invalid" bytes that do not    *)
(* verify for this leaf and issuer, "signed" a document.                    *)
Answer(documents) ==
  [kind : {"none", "empty", "invalid"}] \cup [kind : {"signed"}, response : documents]

Decision == {"ACCEPT", "REJECT", "INCONCLUSIVE", "HARNESS_ERROR"}
Refusal == {"INVALID_STATUS", "UNKNOWN_STATUS", "FUTURE_STATUS", "MISSING_FRESHNESS", "STALE_STATUS"}
Reason == Refusal \cup {"HARNESS_FAILURE", "NETWORK_FAILURE", "REVOKED", "STATUS_GOOD"}
Observation(decision, reason) == [decision |-> decision, reason |-> reason]
HarnessError == Observation("HARNESS_ERROR", "HARNESS_FAILURE")
NetworkFailure == Observation("INCONCLUSIVE", "NETWORK_FAILURE")
Revoked == Observation("REJECT", "REVOKED")
Good == Observation("ACCEPT", "STATUS_GOOD")
Reject(reason) == Observation("REJECT", reason)

(* The reason of the first check that is not passed, "NONE" (the empty       *)
(* reason of the code) when all are.                                         *)
FirstFailed(checks) ==
  LET failed == {i \in DOMAIN checks : checks[i].failed}
  IN  IF failed = {} THEN "NONE"
      ELSE checks[CHOOSE i \in failed : \A j \in failed : i =< j].reason
Check(failed, reason) == [failed |-> failed, reason |-> reason]

checkOCSPFreshness(r) == FirstFailed(<<
  Check(r.thisUpdate > MaxClockSkew \/ r.producedAt > MaxClockSkew, "FUTURE_STATUS"),
  Check(r.nextUpdate = {} /\ RequireNextUpdate, "MISSING_FRESHNESS"),
  Check(r.nextUpdate = {} /\ -r.thisUpdate > MaxAgeWithoutNextUpdate, "STALE_STATUS"),
  Check(\E t \in r.nextUpdate : t < 0, "STALE_STATUS") >>)

checkRevocationTime(revokedAt) == FirstFailed(<<
  Check(\A t \in revokedAt : t < NotBefore - MaxClockSkew, "INVALID_STATUS"),
  Check(\E t \in revokedAt : t > MaxClockSkew, "FUTURE_STATUS") >>)

ValidateOCSPTemporal(r) ==
  LET reason == checkOCSPFreshness(r)
  IN  IF reason # "NONE" THEN reason
      ELSE IF r.status = "revoked" THEN checkRevocationTime(r.revokedAt) ELSE "NONE"

opensslOCSPDirect(a) ==
  CASE a.kind = "none" -> NetworkFailure
    [] a.kind \in {"empty", "invalid"} -> Reject("INVALID_STATUS")
    [] a.kind = "signed" ->
         LET reason == ValidateOCSPTemporal(a.response)
         IN  CASE reason # "NONE" -> Reject(reason)
               [] reason = "NONE" /\ a.response.status = "revoked" -> Revoked
               [] reason = "NONE" /\ a.response.status = "good" -> Good
               [] OTHER -> Reject("UNKNOWN_STATUS")

(* A CRL binds to the issuer by its name, and by the key identifier when    *)
(* both sides carry one.                                                    *)
validateCRLIssuer(crl) ==
  IF crl.issuer = "same" /\ crl.keyID \in {"same", "absent"} THEN "NONE" ELSE "INVALID_STATUS"

(* Slip: nextUpdate, when there is one, is taken instead of the age.         *)
checkCRLFreshnessByNextUpdate(crl) == FirstFailed(<<
  Check(crl.thisUpdate > MaxClockSkew, "FUTURE_STATUS"),
  Check(crl.nextUpdate = {} /\ -crl.thisUpdate > MaxAge, "STALE_STATUS"),
  Check(crl.nextUpdate = {} /\ RequireNextUpdate, "MISSING_FRESHNESS"),
  Check(\E t \in crl.nextUpdate : t < 0, "STALE_STATUS") >>)

checkCRLFreshness(crl) == FirstFailed(<<
  Check(crl.thisUpdate > MaxClockSkew, "FUTURE_STATUS"),
  Check(-crl.thisUpdate > MaxAge, "STALE_STATUS"),
  Check(crl.nextUpdate = {} /\ RequireNextUpdate, "MISSING_FRESHNESS"),
  Check(\E t \in crl.nextUpdate : t < 0, "STALE_STATUS") >>)

(* crl.entries: the revocation time of the leaf's serial, when it is listed; *)
(* an entry whose own time is missing is the empty inner set.               *)
crlCheck(a) ==
  CASE a.kind = "none" -> NetworkFailure
    [] a.kind \in {"empty", "invalid"} -> Reject("INVALID_STATUS")
    [] a.kind = "signed" ->
         LET crl == a.response
             document == FirstFailed(<<
               Check(validateCRLIssuer(crl) # "NONE", "INVALID_STATUS"),
               Check(checkCRLFreshness(crl) # "NONE", checkCRLFreshness(crl)) >>)
             entry == IF \E t \in crl.entries : checkRevocationTime(t) # "NONE"
                      THEN checkRevocationTime(CHOOSE t \in crl.entries : TRUE) ELSE "NONE"
         IN  CASE document # "NONE" -> Reject(document)
               [] document = "NONE" /\ crl.entries = {} -> Good
               [] document = "NONE" /\ crl.entries # {} /\ entry # "NONE" -> Reject(entry)
               [] OTHER -> Revoked
----------------------------------------------------------------------------
(***************************************************************************)
(* The reference: one interval in which a document may be relied upon, and *)
(* one in which a revocation can have happened.                            *)
(***************************************************************************)

(* A document speaks for the present when it was not made later than the    *)
(* clocks may differ, and neither its own limit nor the policy's has passed. *)
Current(r, age) ==
  /\ r.thisUpdate - MaxClockSkew =< 0
  /\ r.nextUpdate # {} \/ ~RequireNextUpdate
  /\ \A t \in r.nextUpdate : 0 =< t
  /\ \A a \in age : 0 =< r.thisUpdate + a

Plausible(revokedAt) ==
  \E t \in revokedAt : t \in NotBefore - MaxClockSkew .. MaxClockSkew

(* What an OCSP answer shows of the leaf: "revoked", "good" or nothing.      *)
OCSPTruth(a) ==
  IF ~(/\ a.kind = "signed"
       /\ a.response.producedAt =< MaxClockSkew
       /\ Current(a.response,
                  IF a.response.nextUpdate = {} THEN {MaxAgeWithoutNextUpdate} ELSE {}))
  THEN "nothing"
  ELSE CASE a.response.status = "good" -> "good"
         [] a.response.status = "revoked" /\ Plausible(a.response.revokedAt) -> "revoked"
         [] OTHER -> "nothing"

CRLTruth(a) ==
  IF ~(/\ a.kind = "signed"
       /\ a.response.issuer = "same" /\ a.response.keyID # "other"
       /\ Current(a.response, {MaxAge}))
  THEN "nothing"
  ELSE CASE a.response.entries = {} -> "good"
         [] \E t \in a.response.entries : Plausible(t) -> "revoked"
         [] OTHER -> "nothing"

(* An observation says of the leaf exactly what the answer shows.            *)
Truthful(observation, truth) ==
  /\ observation = Revoked <=> truth = "revoked"
  /\ observation.decision = "ACCEPT" <=> truth = "good"
=============================================================================
