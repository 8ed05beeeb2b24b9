------------------------- MODULE ScenarioContracts -------------------------
(***************************************************************************)
(* What the revocation probe accepts before it issues anything: the        *)
(* scenario manifests that LoadDir builds, the profiles that config.Load   *)
(* and the two ValidateEnabledProfiles let through, and the roles that     *)
(* RunOnce asks for.                                                       *)
(*                                                                         *)
(* A manifest is a record: its stapling mode, its evidence dependencies    *)
(* and its contracts by profile name.  A dependency list that repeats an   *)
(* entry is refused and every list is sorted, so that it is a set here.    *)
(* An expectation is the set of observations that meet it.                 *)
(***************************************************************************)
EXTENDS Sequences

CONSTANTS
  Implementations,  \* the names in profiles.Registry()
  Role,             \* of each implementation
  CheckMethod       \* of each implementation

(* A decision with the reasons that contracts tell apart: REVOKED is REJECT  *)
(* for that reason, REJECTED is REJECT for any other.                        *)
Observation == {"ACCEPT", "REVOKED", "REJECTED", "INCONCLUSIVE", "ERROR"}
Dependency == {"issuer_ack", "ocsp_published", "crl_published", "staple_published"}

ASSUME RegistryAssumption ==
  /\ Role \in [Implementations -> {"status_oracle", "client_executor"}]
  /\ CheckMethod \in [Implementations -> {"ocsp_direct", "crl", "ocsp_stapled", "none"}]
  /\ \A p \in Implementations : Role[p] = "status_oracle" <=> CheckMethod[p] \in {"ocsp_direct", "crl"}

(* One decision and at least one of the reasons compatible with it; that may *)
(* be HARNESS_ERROR.                                                         *)
Expectation ==
  {{"ACCEPT"}, {"INCONCLUSIVE"}, {"ERROR"}} \cup ((SUBSET {"REVOKED", "REJECTED"}) \ {{}})

Contract == [before : Expectation, after : Expectation, policy : Expectation]

(* Oracles wait for nothing but the acknowledgement, and a staple is waited  *)
(* for only where one is going to be published.                              *)
WellFormed(manifest) ==
  /\ manifest.stapling \in {"on", "off", "stale"}
  /\ DOMAIN manifest.profiles # {} /\ DOMAIN manifest.profiles \subseteq Implementations
  /\ DOMAIN manifest.dependencies = DOMAIN manifest.profiles
  /\ \A p \in DOMAIN manifest.profiles :
       LET needs == manifest.dependencies[p] IN
       /\ manifest.profiles[p] \in Contract
       /\ needs # {} /\ needs \subseteq Dependency
       /\ Role[p] = "status_oracle" => needs \subseteq {"issuer_ack"}
       /\ "staple_published" \in needs => manifest.stapling = "on"

hasEnabledProducer(manifest, enabled, method) ==
  \E p \in DOMAIN manifest.profiles \cap enabled :
    Role[p] = "status_oracle" /\ CheckMethod[p] = method

(* Every enabled profile has a contract, and whatever it waits for an        *)
(* enabled oracle that produces it.                                          *)
ValidateEnabledProfiles(manifest, enabled) ==
  \A p \in enabled :
    /\ p \in DOMAIN manifest.profiles
    /\ "ocsp_published" \in manifest.dependencies[p] => hasEnabledProducer(manifest, enabled, "ocsp_direct")
    /\ "crl_published" \in manifest.dependencies[p] => hasEnabledProducer(manifest, enabled, "crl")

validateEnabledRoles(enabled) ==
  \A role \in {"status_oracle", "client_executor"} : \E p \in enabled : Role[p] = role

Accepted(manifest, enabled) ==
  /\ enabled \subseteq Implementations
  /\ WellFormed(manifest)
  /\ ValidateEnabledProfiles(manifest, enabled)
  /\ validateEnabledRoles(enabled)

(* normalizeManifest sorts the dependencies by name.                         *)
Listed(needs, d) == IF d \in needs THEN <<d>> ELSE <<>>
Sorted(needs) ==
  Listed(needs, "crl_published") \o Listed(needs, "issuer_ack")
    \o Listed(needs, "ocsp_published") \o Listed(needs, "staple_published")
=============================================================================
