--------------------------- MODULE TrustStoreEval ---------------------------
(***************************************************************************)
(* evaluateTrustStore: the comparison of the root certificates found on a  *)
(* host with the roots of a signed baseline.  A certificate stands for its *)
(* own DER hash; a baseline root names a certificate, or - an entry of an  *)
(* older agent - only the public key of one (CertHash is empty).  Distinct *)
(* roots may share a key and a subject.                                    *)
(***************************************************************************)
EXTENDS Naturals, FiniteSets, FiniteSetsExt

CONSTANTS
  Certs,     \* certificates
  SPKI,      \* the public key of each
  Subject,   \* its subject
  Policy,    \* the digest of its CA flag, key usages and constraints
  NotAfter,  \* the last instant of its validity
  HashRank,  \* its place in the order of the certificate hashes
  None       \* no certificate or policy hash in a baseline root

ASSUME EvalAssumption ==
  /\ IsFiniteSet(Certs)
  /\ NotAfter \in [Certs -> Nat]
  /\ HashRank \in [Certs -> Nat]
  /\ \A c, d \in Certs : HashRank[c] = HashRank[d] => c = d
  /\ None \notin Certs \cup {Policy[c] : c \in Certs}

RootEntry(c) == [cert |-> c, spki |-> SPKI[c], subject |-> Subject[c], policy |-> Policy[c]]

(* Slip: the entry of an older agent, which names only the key.              *)
RootEntryLegacy(c) == [cert |-> None, spki |-> SPKI[c], subject |-> Subject[c], policy |-> None]

(* The key by which validateBaseline tells roots apart.                      *)
Identity(root) == IF root.cert # None THEN <<"cert", root.cert>> ELSE <<"spki", root.spki>>

ValidBaseline(roots) == \A r, s \in roots : Identity(r) = Identity(s) => r = s

(* What the baseline command writes, this version's or an older one's: every *)
(* entry was taken from a certificate.                                       *)
Sound(roots) ==
  /\ IsFiniteSet(roots) /\ ValidBaseline(roots)
  /\ \A r \in roots : \E c \in Certs : r.cert \in {c, None} /\ r.spki = SPKI[c]
-----------------------------------------------------------------------------
(* What each certificate observed is to the baseline                         *)

Exact(roots, observed) == {c \in observed : \E r \in roots : r.cert = c}
Candidates(roots, key) == {r \in roots : r.spki = key}
Legacy(roots, key) == {r \in Candidates(roots, key) : r.cert = None}
WithKey(observed, key) == {c \in observed : SPKI[c] = key}

(* Slip: a legacy entry exempts every certificate with its key.              *)
LegacyCertificatesAll(roots, observed) ==
  {c \in observed \ Exact(roots, observed) : Legacy(roots, SPKI[c]) # {}}

(* Each legacy entry admits one certificate that is not known itself: the    *)
(* first in hash order.                                                      *)
LegacyCertificates(roots, observed) ==
  LET unmatched == observed \ Exact(roots, observed) IN
  {c \in unmatched :
     Cardinality({d \in unmatched : SPKI[d] = SPKI[c] /\ HashRank[d] < HashRank[c]})
       < Cardinality(Legacy(roots, SPKI[c]))}

OtherPolicy(root, c) == root.policy \notin {None, Policy[c]}

(* ROOT_POLICY_CHANGED of a certificate the baseline names.                  *)
PolicyChanged(roots, observed) ==
  {c \in observed : \E r \in roots : r.cert = c /\ OtherPolicy(r, c)}

(* ROOT_CERT_CHANGED, or ROOT_POLICY_CHANGED: a known key in a certificate   *)
(* that is neither known nor admitted by a legacy entry.                     *)
Reissued(roots, observed) ==
  {c \in observed \ Exact(roots, observed) :
     Candidates(roots, SPKI[c]) # {} /\ c \notin LegacyCertificates(roots, observed)}

(* UNKNOWN_ROOT_ADDED, or ROOT_CHANGED where the subject is known.           *)
Unknown(roots, observed) ==
  {c \in observed \ Exact(roots, observed) : Candidates(roots, SPKI[c]) = {}}

Replaced(roots, observed) ==
  {c \in Unknown(roots, observed) : \E r \in roots : r.subject = Subject[c]}
-----------------------------------------------------------------------------
(* EXPECTED_ROOT_REMOVED                                                     *)

(* How many certificates with this key are left to stand for baseline roots  *)
(* that were not observed themselves.                                        *)
SubstitutionBudget(roots, observed, key) ==
  Cardinality(WithKey(observed, key)) - Cardinality(WithKey(Exact(roots, observed), key))

Gone(roots, observed, key) ==
  {r \in Candidates(roots, key) : r.cert # None /\ r.cert \notin observed}

Less(m, n) == IF m < n THEN 0 ELSE m - n

(* Slip: a sibling stands for every root removed that had its key.           *)
MissingOfShared(roots, observed, key) ==
  IF SubstitutionBudget(roots, observed, key) > 0 THEN 0
  ELSE Cardinality(Legacy(roots, key)) + Cardinality(Gone(roots, observed, key))

(* Legacy entries use up the substitutes first; of the named roots that are  *)
(* gone, each takes one of what remains.                                     *)
MissingOf(roots, observed, key) ==
  LET budget == SubstitutionBudget(roots, observed, key)
      legacy == Cardinality(Legacy(roots, key)) IN
  Less(legacy, budget) + Less(Cardinality(Gone(roots, observed, key)), Less(budget, legacy))

Missing(roots, observed) ==
  MapThenSumSet(LAMBDA key : MissingOf(roots, observed, key), {r.spki : r \in roots})
-----------------------------------------------------------------------------
Expired(observed, now) == {c \in observed : now > NotAfter[c]}

(* The thirty days of notice.                                                *)
Notice == 1
Expiring(observed, now) == {c \in observed \ Expired(observed, now) : NotAfter[c] < now + Notice}

(* The counts of a ScanResult.  A replaced root counts as unknown and as     *)
(* changed.                                                                  *)
Evaluate(roots, observed, now) ==
  [unknown  |-> Cardinality(Unknown(roots, observed)),
   missing  |-> Missing(roots, observed),
   changed  |-> Cardinality(PolicyChanged(roots, observed))
                  + Cardinality(Reissued(roots, observed))
                  + Cardinality(Replaced(roots, observed)),
   expired  |-> Cardinality(Expired(observed, now)),
   expiring |-> Cardinality(Expiring(observed, now))]

CheckExitCode(result) ==
  IF result.unknown > 0 \/ result.missing > 0 \/ result.changed > 0 \/ result.expired > 0
  THEN 1 ELSE 0
-----------------------------------------------------------------------------
(* What the evaluation is for, in terms of pairs of a root and a certificate *)

Matches(root, c) ==
  IF root.cert = None THEN root.spki = SPKI[c]
  ELSE root.cert = c /\ ~OtherPolicy(root, c)

(* Every certificate observed stands for a root of its own, and every root   *)
(* has one.                                                                  *)
OneToOne(roots, observed) ==
  /\ Cardinality(roots) = Cardinality(observed)
  /\ \E f \in [roots -> observed] :
       /\ \A r \in roots : Matches(r, f[r])
       /\ \A r, s \in roots : f[r] = f[s] => r = s
=============================================================================
