------------------------ MODULE RevocationExperiment ------------------------
(***************************************************************************)
(* What a revocation-probe cycle is to whoever reads its report: an        *)
(* experiment on one certificate.  Goroutines, deadlines, retries and the  *)
(* order in which anything is joined are not seen; evidence appears or is  *)
(* given up once, every profile is observed once, and the verdict follows  *)
(* from all that was observed.                                             *)
(***************************************************************************)

CONSTANTS
  Observation, Evidence,
  Profiles,
  Witnesses,  \* the profiles that can see the evidence, where it is for profiles to see
  Needs,      \* the evidence each client waits for; its domain is the clients
  Followers,  \* the clients that are not to meet the status of before the revoke
  After,      \* the contract of each profile
  Policy,     \* its policy
  Enforce,    \* the policy counts
  Stapled     \* a revoked staple is part of the experiment

VARIABLES
  stage,        \* "setup", "observing", "over" or "returned"
  certificate,  \* "absent", "valid" or "revoked"
  baseline,     \* of each profile, before the revoke: "unknown", "met" or "unmet"
  evidence,     \* "pending", "there" or "never"
  observed,     \* of each profile: what it saw, and whether its contract was met
  verdict,
  cleanup       \* of the revoke that compensates for a failed experiment

vars == <<stage, certificate, baseline, evidence, observed, verdict, cleanup>>

Nothing == [obs |-> "NONE", met |-> FALSE]

Init ==
  /\ stage = "setup"
  /\ certificate = "absent"
  /\ baseline = [p \in Profiles |-> "unknown"]
  /\ evidence = [d \in Evidence |-> "pending"]
  /\ observed = [p \in Profiles |-> Nothing]
  /\ verdict = "none"
  /\ cleanup = "none"

Issue ==
  /\ stage = "setup"
  /\ certificate = "absent"
  /\ certificate' = "valid"
  /\ UNCHANGED <<stage, baseline, evidence, observed, verdict, cleanup>>

(* The issuer's answer is lost, and with it whether there is a certificate.  *)
IssueLost ==
  /\ stage = "setup"
  /\ certificate = "absent"
  /\ stage' = "returned"
  /\ certificate' \in {"absent", "valid"}
  /\ verdict' = "error"
  /\ UNCHANGED <<baseline, evidence, observed, cleanup>>

Probe(p, outcome) ==
  /\ stage = "setup"
  /\ certificate = "valid"
  /\ baseline[p] = "unknown"
  /\ baseline' = [baseline EXCEPT ![p] = outcome]
  /\ UNCHANGED <<stage, certificate, evidence, observed, verdict, cleanup>>

(* The issuer acknowledges the revoke.                                       *)
Revoke ==
  /\ stage = "setup"
  /\ certificate = "valid"
  /\ \A p \in Profiles : baseline[p] = "met"
  /\ stage' = "observing"
  /\ certificate' = "revoked"
  /\ evidence' = [evidence EXCEPT
       !["issuer_ack"] = "there",
       !["staple_published"] = IF Stapled THEN "pending" ELSE "never"]
  /\ UNCHANGED <<baseline, observed, verdict, cleanup>>

(* The experiment cannot be set up, or the revoke fails, with or without     *)
(* having taken effect.                                                      *)
Abandon ==
  /\ stage = "setup"
  /\ certificate = "valid"
  /\ stage' = "over"
  /\ certificate' \in {"valid", "revoked"}
  /\ verdict' = "error"
  /\ UNCHANGED <<baseline, evidence, observed, cleanup>>

(* Evidence that profiles can see is decided when all of them were observed, *)
(* and is there if one of them saw the revocation.                           *)
Seen(p) == observed[p].obs # "NONE"

Confirm(d) ==
  /\ stage = "observing"
  /\ evidence[d] = "pending"
  /\ evidence' = [evidence EXCEPT ![d] = "there"]
  /\ d \in DOMAIN Witnesses =>
       /\ \A p \in Witnesses[d] : Seen(p)
       /\ \E p \in Witnesses[d] : observed[p].obs = "REVOKED"
  /\ UNCHANGED <<stage, certificate, baseline, observed, verdict, cleanup>>

GiveUp(d) ==
  /\ stage = "observing"
  /\ evidence[d] = "pending"
  /\ evidence' = [evidence EXCEPT ![d] = "never"]
  /\ d \in DOMAIN Witnesses => \A p \in Witnesses[d] : Seen(p) /\ observed[p].obs # "REVOKED"
  /\ UNCHANGED <<stage, certificate, baseline, observed, verdict, cleanup>>

(* A client observes when all it needs is there; else it has nothing to      *)
(* report but a harness failure.                                             *)
Observe(p) ==
  /\ stage = "observing"
  /\ ~Seen(p) /\ Seen(p)'
  /\ \E obs \in Observation, met \in BOOLEAN :
       /\ observed' = [observed EXCEPT ![p] = [obs |-> obs, met |-> met]]
       /\ p \in DOMAIN Needs /\ obs # "ERROR" => \A d \in Needs[p] : evidence[d] = "there"
       /\ p \in Followers => obs # "ACCEPT"
       /\ met => obs \in After[p]
  /\ UNCHANGED <<stage, certificate, baseline, evidence, verdict, cleanup>>

(* The observation is over when every profile was observed and no evidence   *)
(* is open any more.                                                         *)
Complete ==
  /\ stage = "observing"
  /\ \A p \in Profiles : Seen(p)
  /\ \A d \in Evidence : evidence[d] # "pending"

Conclusive ==
  /\ \A p \in Profiles : observed[p].obs # "ERROR"
  /\ Stapled => evidence["staple_published"] = "there"

Passes(p) == observed[p].met /\ (Enforce => observed[p].obs \in Policy[p])

Justified(v) ==
  \/ v = "ok" /\ \A p \in Profiles : Passes(p)
  \/ v = "regression" /\ \E p \in Profiles : ~observed[p].met
  \/ v = "policy_violation" /\ \E p \in Profiles : observed[p].met /\ ~Passes(p)

(* A verdict about the profiles is given on conclusive observations only; an *)
(* error may also be that the evidence could not be kept.                    *)
Conclude(v) ==
  /\ Complete
  /\ stage' = "over"
  /\ verdict' = v
  /\ v = "error" \/ (Conclusive /\ Justified(v))
  /\ UNCHANGED <<certificate, baseline, evidence, observed, cleanup>>

(* A certificate whose revoke was never acknowledged is revoked now, and if  *)
(* that fails the report says so.                                            *)
Return ==
  /\ stage = "over"
  /\ stage' = "returned"
  /\ IF evidence["issuer_ack"] = "there"
     THEN UNCHANGED <<certificate, cleanup>>
     ELSE \/ certificate' = "revoked" /\ cleanup' = "revoked"
          \/ certificate' \in {certificate, "revoked"} /\ cleanup' = "failed"
  /\ UNCHANGED <<baseline, evidence, observed, verdict>>

Next ==
  \/ Issue \/ IssueLost \/ Revoke \/ Abandon \/ Return
  \/ \E p \in Profiles : \/ \E outcome \in {"met", "unmet"} : Probe(p, outcome)
                         \/ Observe(p)
  \/ \E d \in Evidence : Confirm(d) \/ GiveUp(d)
  \/ \E v \in {"ok", "regression", "policy_violation", "error"} : Conclude(v)

Spec == Init /\ [][Next]_vars
=============================================================================
