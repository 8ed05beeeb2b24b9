---------------------------- MODULE MCProbeCycle ----------------------------
(* Instances of ProbeCycle after the shipped scenario manifests.             *)
EXTENDS ProbeCycle

CONSTANTS ocsp1, ocsp2, crl1, strict1, plain1

MCRole == [p \in Implementations |-> IF p \in {ocsp1, ocsp2, crl1} THEN "status_oracle" ELSE "client_executor"]
MCMethod == [p \in Implementations |-> CASE p \in {ocsp1, ocsp2} -> "ocsp_direct" [] p = crl1 -> "crl"
                                          [] p = strict1 -> "ocsp_stapled" [] p = plain1 -> "none"]
MCRank == [p \in Enabled |-> CASE p = crl1 -> 1 [] p = plain1 -> 2 [] p = ocsp1 -> 3 [] p = ocsp2 -> 4 [] OTHER -> 5]

(* Baselines: an oracle goes from good to revoked, a client without a check  *)
(* accepts throughout, a strict client follows the staple it is served.      *)
Expects(was, is) == [before |-> was, after |-> is, policy |-> {"REVOKED", "REJECTED"}]
Scenario(stapling, strictBefore, strictAfter, strictNeeds, plainNeeds) ==
  [stapling |-> stapling,
   profiles |-> [p \in Implementations |->
     CASE Role[p] = "status_oracle" -> Expects({"ACCEPT"}, {"REVOKED"})
       [] p = strict1 -> Expects(strictBefore, strictAfter)
       [] OTHER -> Expects({"ACCEPT"}, {"ACCEPT"})],
   dependencies |-> [p \in Implementations |->
     CASE p = strict1 -> strictNeeds [] p = plain1 -> plainNeeds [] OTHER -> {"issuer_ack"}]]

(* The three shipped manifests, and one whose clients wait for the oracles,  *)
(* which the manifest language allows too.                                   *)
RevokedStaple == Scenario("on", {"ACCEPT"}, {"REVOKED"}, {"staple_published"}, {"issuer_ack"})
MissingStaple == Scenario("off", {"REJECTED"}, {"REJECTED"}, {"issuer_ack"}, {"issuer_ack"})
CachedGoodStaple == Scenario("stale", {"ACCEPT"}, {"ACCEPT"}, {"issuer_ack"}, {"issuer_ack"})
AwaitedOracles ==
  Scenario("off", {"REJECTED"}, {"REJECTED"}, {"ocsp_published", "crl_published"}, {"ocsp_published"})

(* The loader accepts these, and refuses variants with one entry wrong       *)
(* (registry_test.go).                                                       *)
ASSUME ManifestsAccepted ==
  \A m \in {RevokedStaple, MissingStaple, CachedGoodStaple, AwaitedOracles} : Accepted(m, Implementations)

ASSUME ManifestsRefused ==
  /\ ~WellFormed([RevokedStaple EXCEPT !.stapling = "stale"])
  /\ ~WellFormed([RevokedStaple EXCEPT !.dependencies[ocsp1] = {"staple_published"}])
  /\ ~WellFormed([RevokedStaple EXCEPT !.dependencies[plain1] = {}])
  /\ ~WellFormed([RevokedStaple EXCEPT !.profiles[plain1].after = {"ACCEPT", "REJECTED"}])
  /\ ~WellFormed([RevokedStaple EXCEPT !.profiles[plain1].policy = {}])
  /\ ~Accepted(AwaitedOracles, Implementations \ {crl1})
  /\ ~Accepted(MissingStaple, {ocsp1, ocsp2, crl1})
  /\ Accepted([MissingStaple EXCEPT !.profiles[plain1].after = {"ERROR"}], {ocsp1, plain1})
=============================================================================
