-------------------------- MODULE ProbeCycleProofs --------------------------
(***************************************************************************)
(* Proofs about ProbeCycle for every set of profiles and every scenario    *)
(* manifest that the probe accepts.                                        *)
(***************************************************************************)
EXTENDS ProbeCycle, TLAPS, WellFoundedInduction

(* The sorted list of a set of dependencies holds just these.                *)
LEMMA SortedList ==
  ASSUME NEW needs \in SUBSET Dependency
  PROVE  /\ Sorted(needs) \in Seq(Dependency)
         /\ {Sorted(needs)[i] : i \in 1..Len(Sorted(needs))} = needs
<1> DEFINE Lists(s, set) == s \in Seq(Dependency) /\ {s[i] : i \in 1..Len(s)} = set
<1>1. ASSUME NEW d \in Dependency PROVE Lists(Listed(needs, d), needs \cap {d})
  <2>1. CASE d \in needs
    BY <2>1 DEF Listed
  <2>2. CASE d \notin needs
    BY <2>2 DEF Listed
  <2> QED
    BY <2>1, <2>2
<1>2. ASSUME NEW s, NEW t, NEW a, NEW b, Lists(s, a), Lists(t, b) PROVE Lists(s \o t, a \cup b)
  <2>1. s \in Seq(Dependency) /\ t \in Seq(Dependency)
    BY <1>2
  <2>2. /\ s \o t \in Seq(Dependency) /\ Len(s) \in Nat /\ Len(t) \in Nat
        /\ Len(s \o t) = Len(s) + Len(t)
        /\ \A i \in 1..Len(s) : (s \o t)[i] = s[i]
        /\ \A i \in 1..Len(t) : (s \o t)[Len(s) + i] = t[i]
    BY <2>1
  <2>3. ASSUME NEW x \in a \cup b PROVE \E i \in 1..Len(s \o t) : (s \o t)[i] = x
    <3>1. CASE x \in a
      <4>1. PICK i \in 1..Len(s) : s[i] = x
        BY <1>2, <3>1
      <4>2. i \in 1..Len(s \o t)
        BY <2>2
      <4> QED
        BY <2>2, <4>1, <4>2
    <3>2. CASE x \in b
      <4>1. PICK i \in 1..Len(t) : t[i] = x
        BY <1>2, <3>2
      <4>2. Len(s) + i \in 1..Len(s \o t)
        BY <2>2
      <4> QED
        BY <2>2, <4>1, <4>2
    <3> QED
      BY <2>3, <3>1, <3>2
  <2>4. ASSUME NEW i \in 1..Len(s \o t) PROVE (s \o t)[i] \in a \cup b
    <3>1. CASE i <= Len(s)
      <4>1. i \in 1..Len(s)
        BY <2>2, <3>1
      <4> QED
        BY <1>2, <2>2, <4>1
    <3>2. CASE ~(i <= Len(s))
      <4>1. i - Len(s) \in 1..Len(t) /\ Len(s) + (i - Len(s)) = i
        BY <2>2, <3>2
      <4>2. (s \o t)[i] = t[i - Len(s)]
        BY <2>2, <4>1
      <4> QED
        BY <1>2, <4>1, <4>2
    <3> QED
      BY <3>1, <3>2
  <2> QED
    BY <2>2, <2>3, <2>4
<1>3. /\ "crl_published" \in Dependency /\ "issuer_ack" \in Dependency
      /\ "ocsp_published" \in Dependency /\ "staple_published" \in Dependency
  BY DEF Dependency
<1> DEFINE Of(d) == needs \cap {d}
<1>4. Of("crl_published") \cup Of("issuer_ack") \cup Of("ocsp_published") \cup Of("staple_published") = needs
  BY DEF Dependency
<1> HIDE DEF Lists
<1>5. Lists(Listed(needs, "crl_published") \o Listed(needs, "issuer_ack"), Of("crl_published") \cup Of("issuer_ack"))
  BY <1>1, <1>2, <1>3
<1>6. Lists(Listed(needs, "crl_published") \o Listed(needs, "issuer_ack") \o Listed(needs, "ocsp_published"),
            Of("crl_published") \cup Of("issuer_ack") \cup Of("ocsp_published"))
  BY <1>1, <1>2, <1>3, <1>5
<1>7. Lists(Sorted(needs),
            Of("crl_published") \cup Of("issuer_ack") \cup Of("ocsp_published") \cup Of("staple_published"))
  BY <1>1, <1>2, <1>3, <1>6 DEF Sorted
<1> QED
  BY <1>4, <1>7 DEF Lists

(* What the probe accepts is a cycle it can run: oracles and clients are     *)
(* there and are different, each profile has its contract, each client waits *)
(* for something, and what it waits for has its producer.                    *)
LEMMA Configured ==
  /\ Oracles # {} /\ Clients # {} /\ Oracles \cap Clients = {} /\ Profiles = Enabled
  /\ OCSPOracles \cap CRLOracles = {} /\ StrictClients \cap PlainClients = {}
  /\ Stapling \in {"on", "off", "stale"}
  /\ Deps \in [Clients -> Seq(Dependency)] /\ \A c \in Clients : Deps[c] # <<>>
  /\ Before \in [Profiles -> SUBSET Observation] /\ After \in [Profiles -> SUBSET Observation]
  /\ \A c \in Clients : \A i \in 1..Len(Deps[c]) :
       /\ Deps[c][i] = "ocsp_published" => OCSPOracles # {}
       /\ Deps[c][i] = "crl_published" => CRLOracles # {}
       /\ Deps[c][i] = "staple_published" => Stapling = "on"
<1>1. /\ WellFormed(Manifest) /\ ValidateEnabledProfiles(Manifest, Enabled)
      /\ validateEnabledRoles(Enabled) /\ Enabled \subseteq Implementations
  BY ProbeAssumption DEF Accepted
<1>2. /\ Oracles = {p \in Enabled : Role[p] = "status_oracle"}
      /\ Clients = {p \in Enabled : Role[p] = "client_executor"}
      /\ OCSPOracles \cap CRLOracles = {} /\ StrictClients \cap PlainClients = {}
  BY <1>1, RegistryAssumption DEF Oracles, Clients, OCSPOracles, CRLOracles, StrictClients, PlainClients, EnabledAs
<1>3. Oracles # {} /\ Clients # {} /\ Oracles \cap Clients = {}
  BY <1>1, <1>2 DEF validateEnabledRoles
<1>4. Profiles = Enabled
  BY <1>1, <1>2, RegistryAssumption DEF Profiles
<1>5. /\ Stapling \in {"on", "off", "stale"} /\ Enabled \subseteq DOMAIN Manifest.profiles
      /\ \A p \in Enabled : /\ Manifest.profiles[p] \in Contract
                            /\ Manifest.dependencies[p] \in (SUBSET Dependency) \ {{}}
                            /\ "staple_published" \in Manifest.dependencies[p] => Stapling = "on"
  BY <1>1 DEF WellFormed, ValidateEnabledProfiles, Stapling
<1>6. \A e \in Expectation : e \subseteq Observation
  BY DEF Expectation, Observation
<1>7. Before \in [Profiles -> SUBSET Observation] /\ After \in [Profiles -> SUBSET Observation]
  BY <1>4, <1>5, <1>6 DEF Before, After, Contract
<1>8. ASSUME NEW c \in Clients
      PROVE  /\ Deps[c] \in Seq(Dependency) /\ Deps[c] # <<>>
             /\ \A i \in 1..Len(Deps[c]) : Deps[c][i] \in Manifest.dependencies[c]
  <2>1. Deps[c] = Sorted(Manifest.dependencies[c])
    BY DEF Deps
  <2>2. Manifest.dependencies[c] \in SUBSET Dependency /\ Manifest.dependencies[c] # {}
    BY <1>2, <1>5
  <2>3. /\ Deps[c] \in Seq(Dependency)
        /\ {Deps[c][i] : i \in 1..Len(Deps[c])} = Manifest.dependencies[c]
    BY <2>1, <2>2, SortedList
  <2>4. Deps[c] # <<>>
    BY <2>2, <2>3
  <2> QED
    BY <2>3, <2>4
<1>9. Deps \in [Clients -> Seq(Dependency)]
  BY <1>8 DEF Deps
<1>10. ASSUME NEW c \in Clients
       PROVE  /\ "ocsp_published" \in Manifest.dependencies[c] => OCSPOracles # {}
              /\ "crl_published" \in Manifest.dependencies[c] => CRLOracles # {}
  <2>1. c \in Enabled
    BY <1>2
  <2> QED
    BY <1>1, <2>1 DEF ValidateEnabledProfiles, hasEnabledProducer, OCSPOracles, CRLOracles, EnabledAs
<1>11. \A c \in Clients : c \in Enabled
  BY <1>2
<1> QED
  BY <1>2, <1>3, <1>4, <1>5, <1>7, <1>8, <1>9, <1>10, <1>11

(* The bounds the types need.                                                *)
LEMMA Bounds == MaxTime \in Nat /\ MaxAttempts \in Nat \ {0} /\ 0 \in Time /\ Time \subseteq Nat
  BY ProbeAssumption DEF Time

(* A non-empty set of results that carry times has an earliest one.          *)
LEMMA EarliestType ==
  ASSUME TypeOK, NEW S \in SUBSET Profiles, S # {}
  PROVE  /\ Earliest(S) \in Time
         /\ \E p \in S : result[p].at = Earliest(S)
         /\ \A p \in S : Earliest(S) <= result[p].at
<1> DEFINE T == {result[p].at : p \in S}
<1>1. \A p \in S : result[p].at \in Time
  BY DEF TypeOK, Result
<1>2. T # {} /\ T \subseteq Time /\ T \subseteq Nat
  BY <1>1, Bounds
<1>3. PICK t \in T : \A u \in T : ~ (<<u, t>> \in OpToRel(<, Nat))
  BY <1>2, WFMin, NatLessThanWellFounded
<1>4. ASSUME NEW u \in T PROVE t <= u
  <2>1. u \in Nat /\ t \in Nat
    BY <1>2
  <2>2. u < t => <<u, t>> \in OpToRel(<, Nat)
    BY <2>1, Zenon DEF OpToRel
  <2>3. ~(u < t)
    BY <1>3, <2>2
  <2> QED
    BY <2>1, <2>3
<1>5. \A u \in T : t <= u
  BY <1>4
<1>6. \E x \in T : \A p \in S : x <= result[p].at
  BY <1>5
<1>7. Earliest(S) \in T /\ \A p \in S : Earliest(S) <= result[p].at
  BY <1>6 DEF Earliest
<1> QED
  BY <1>2, <1>7

(* The report stays a report when the main goroutine moves on or fails.      *)
LEMMA AdvanceType ==
  ASSUME TypeOK, NEW from, NEW to \in Mains, NEW phase \in CyclePhase, Advance(from, to, phase)
  PROVE  pc' \in Mains /\ report' \in CycleReport
  BY DEF Advance, TypeOK, CycleReport

(* A step to an error return keeps the report well-typed.                    *)
LEMMA FailType ==
  ASSUME TypeOK, NEW from, NEW phase \in CyclePhase, Fail(from, phase)
  PROVE  pc' \in Mains /\ report' \in CycleReport
<1>1. "unwind" \in Mains
  BY DEF Mains
<1> QED
  BY <1>1 DEF Fail, TypeOK, CycleReport

(* A delivered result leaves pollers and results well-typed.                 *)
LEMMA DeliverType ==
  ASSUME TypeOK, MaxAttempts \in Nat \ {0}, NEW p \in Profiles, NEW r \in Result, Deliver(p, r)
  PROVE  poll' \in [Profiles -> Poller] /\ result' \in [Profiles -> Result]
<1>1. Finished \in Poller
  BY DEF Finished, Idle, Poller, Observation
<1> QED
  BY <1>1 DEF Deliver, TypeOK
(* Every action keeps the variables within their types.                      *)
LEMMA TypeStep ==
  ASSUME TypeOK, Next
  PROVE  TypeOK'
<1> USE Bounds
<1>0. /\ {"artifacts", "prestaple", "start", "preflight", "age", "revoke", "observe", "persist",
           "evaluate", "unwind", "returned"} \subseteq Mains
      /\ {"issue", "canary", "preflight", "revoke", "observe", "persist_evidence", "evaluate",
           "complete"} \subseteq CyclePhase
  BY DEF Mains, CyclePhase
<1>1. ASSUME IssueCanary PROVE TypeOK'
  <2>1. pc' \in Mains /\ report' \in CycleReport
    BY <1>0, <1>1, AdvanceType DEF IssueCanary
  <2> QED
    BY <1>1, <2>1 DEF IssueCanary, TypeOK, world, before, observers
<1>2. ASSUME IssueFails PROVE TypeOK'
  <2>1. report' \in CycleReport
    BY <1>2 DEF IssueFails, TypeOK, CycleReport
  <2> QED
    BY <1>0, <1>2, <2>1 DEF IssueFails, TypeOK, world, before, observers
<1>3. ASSUME PersistArtifacts PROVE TypeOK'
  <2>1. pc' \in Mains /\ report' \in CycleReport
    BY <1>0, <1>3, AdvanceType DEF PersistArtifacts
  <2> QED
    BY <1>3, <2>1 DEF PersistArtifacts, TypeOK, world, before, observers
<1>4. ASSUME FetchStaple PROVE TypeOK'
  <2>1. pc' \in Mains /\ report' \in CycleReport
    BY <1>0, <1>4, AdvanceType DEF FetchStaple
  <2> QED
    BY <1>4, <2>1 DEF FetchStaple, TypeOK, world, before, observers
<1>5. ASSUME StartCanary PROVE TypeOK'
  <2>1. pc' \in Mains /\ report' \in CycleReport
    BY <1>0, <1>5, AdvanceType DEF StartCanary
  <2> QED
    BY <1>5, <2>1 DEF StartCanary, TypeOK, world, before, observers
<1>6. ASSUME SetupFails PROVE TypeOK'
  <2>1. pc' \in Mains /\ report' \in CycleReport
    BY <1>0, <1>6, FailType DEF SetupFails
  <2> QED
    BY <1>6, <2>1 DEF SetupFails, TypeOK, world, before, observers
<1>7. ASSUME PreflightPasses PROVE TypeOK'
  <2>1. pc' \in Mains /\ report' \in CycleReport
    BY <1>0, <1>7, AdvanceType DEF PreflightPasses
  <2> QED
    BY <1>7, <2>1 DEF PreflightPasses, TypeOK, world, before, observers
<1>8. ASSUME PreflightFails PROVE TypeOK'
  <2>1. pc' \in Mains /\ report' \in CycleReport
    BY <1>0, <1>8, FailType DEF PreflightFails
  <2> QED
    BY <1>8, <2>1 DEF PreflightFails, TypeOK, world, before, observers
<1>9. ASSUME CheckAge PROVE TypeOK'
  <2>1. pc' \in Mains /\ report' \in CycleReport
    BY <1>0, <1>9, AdvanceType DEF CheckAge
  <2>2. timeline' \in Timeline
    BY <1>9 DEF CheckAge, TypeOK, Timeline
  <2> QED
    BY <1>9, <2>1, <2>2 DEF CheckAge, TypeOK, world, before, observers
<1>10. ASSUME PreflightStale PROVE TypeOK'
  <2>1. pc' \in Mains /\ report' \in CycleReport
    BY <1>0, <1>10, FailType DEF PreflightStale
  <2> QED
    BY <1>10, <2>1 DEF PreflightStale, TypeOK, world, before, observers
<1>11. ASSUME RevokeFails PROVE TypeOK'
  <2>1. pc' \in Mains /\ report' \in CycleReport
    BY <1>0, <1>11, FailType DEF RevokeFails
  <2> QED
    BY <1>11, <2>1 DEF RevokeFails, TypeOK, world, before, observers
<1>12. ASSUME Revoke PROVE TypeOK'
  <2>1. pc' \in Mains /\ report' \in CycleReport
    BY <1>0, <1>12, AdvanceType DEF Revoke
  <2>2. timeline' \in Timeline
    BY <1>12 DEF Revoke, TypeOK, Timeline
  <2>3. barrier' \in [Dependency -> Barrier]
    BY <1>12 DEF Revoke, TypeOK, Barrier, Open, Dependency
  <2>4. poll' \in [Profiles -> Poller]
    BY <1>12 DEF Revoke, TypeOK, Poller
  <2>5. refresh' \in Refresher
    BY <1>12 DEF Revoke, TypeOK, Refresher
  <2> QED
    BY <1>12, <2>1, <2>2, <2>3, <2>4, <2>5 DEF Revoke, TypeOK, world, before, observers
<1>13. ASSUME Join PROVE TypeOK'
  <2>1. pc' \in Mains /\ report' \in CycleReport
    BY <1>0, <1>13, AdvanceType DEF Join
  <2>2. \A d \in Dependency : SatisfiedAt(d) \in Time
    BY DEF SatisfiedAt, TypeOK, Barrier
  <2>3. refresh.source \in Time
    BY DEF TypeOK, Refresher
  <2>4. timeline' \in Timeline
    BY <1>13, <2>2, <2>3 DEF Join, Boundaries, TypeOK, Timeline, Dependency
  <2> QED
    BY <1>13, <2>1, <2>4 DEF Join, TypeOK, world, before, observers
<1>14. ASSUME PersistEvidence PROVE TypeOK'
  <2>1. pc' \in Mains /\ report' \in CycleReport
    BY <1>0, <1>14, AdvanceType DEF PersistEvidence
  <2> QED
    BY <1>14, <2>1 DEF PersistEvidence, TypeOK, world, before, observers
<1>15. ASSUME PersistFails PROVE TypeOK'
  <2>1. pc' \in Mains /\ report' \in CycleReport
    BY <1>0, <1>15, FailType DEF PersistFails
  <2> QED
    BY <1>15, <2>1 DEF PersistFails, TypeOK, world, before, observers
<1>16. ASSUME Evaluate PROVE TypeOK'
  <2>1. report' \in CycleReport
    BY <1>0, <1>16 DEF Evaluate, TypeOK, CycleReport
  <2> QED
    BY <1>0, <1>16, <2>1 DEF Evaluate, TypeOK, world, before, observers
<1>17. ASSUME Unwind PROVE TypeOK'
  <2>1. report' \in CycleReport
    BY <1>17 DEF Unwind, TypeOK, CycleReport
  <2> QED
    BY <1>0, <1>17, <2>1 DEF Unwind, TypeOK, world, before, observers
<1>18. ASSUME NEW p \in Profiles, PreflightStart(p) PROVE TypeOK'
  BY <1>18 DEF PreflightStart, TypeOK, world, before, observers
<1>19. ASSUME NEW p \in Profiles, PreflightObserve(p) PROVE TypeOK'
  BY <1>19 DEF PreflightObserve, TypeOK, world, before, observers
<1>20. ASSUME NEW p \in Profiles, Attempt(p) PROVE TypeOK'
  <2>1. PICK obs \in Observable(p) :
          IF obs \in After[p] \/ AttemptsExhausted(poll[p].attempts + 1)
          THEN Deliver(p, [obs |-> obs, met |-> obs \in After[p], at |-> clock])
          ELSE /\ poll' = [poll EXCEPT ![p].attempts = poll[p].attempts + 1, ![p].last = obs]
               /\ UNCHANGED result
    BY <1>20 DEF Attempt
  <2>2. obs \in Observation
    BY DEF Observable
  <2>3. poll' \in [Profiles -> Poller] /\ result' \in [Profiles -> Result]
    <3>1. CASE obs \in After[p] \/ AttemptsExhausted(poll[p].attempts + 1)
      <4>1. [obs |-> obs, met |-> obs \in After[p], at |-> clock] \in Result
        BY <2>2 DEF TypeOK, Result
      <4> QED
        BY <2>1, <3>1, <4>1, DeliverType
    <3>2. CASE ~(obs \in After[p] \/ AttemptsExhausted(poll[p].attempts + 1))
      <4>1. poll[p] \in Poller /\ poll[p].attempts + 1 \in 0..(MaxAttempts - 1)
        BY <3>2 DEF AttemptsExhausted, TypeOK, Poller
      <4>2. [poll[p] EXCEPT !.attempts = poll[p].attempts + 1, !.last = obs] \in Poller
        BY <2>2, <4>1 DEF Poller
      <4>3. poll' = [poll EXCEPT ![p] = [poll[p] EXCEPT !.attempts = poll[p].attempts + 1, !.last = obs]]
        BY <2>1, <3>2 DEF TypeOK
      <4> QED
        BY <2>1, <3>2, <4>2, <4>3 DEF TypeOK
    <3> QED
      BY <3>1, <3>2
  <2> QED
    BY <1>20, <2>3 DEF Attempt, TypeOK, world, before, observers
<1>21. ASSUME NEW p \in Profiles, PollExhausted(p) PROVE TypeOK'
  <2>1. [obs |-> poll[p].last, met |-> FALSE, at |-> clock] \in Result
    BY DEF TypeOK, Result, Poller
  <2>2. poll' \in [Profiles -> Poller] /\ result' \in [Profiles -> Result]
    BY <1>21, <2>1, DeliverType DEF PollExhausted
  <2> QED
    BY <1>21, <2>2 DEF PollExhausted, TypeOK, world, before, observers
<1>22. ASSUME NEW p \in Profiles, PollCancelled(p) PROVE TypeOK'
  <2>1. HarnessResult \in Result
    BY DEF HarnessResult, Result, Observation
  <2>2. poll' \in [Profiles -> Poller] /\ result' \in [Profiles -> Result]
    BY <1>22, <2>1, DeliverType DEF PollCancelled
  <2> QED
    BY <1>22, <2>2 DEF PollCancelled, TypeOK, world, before, observers
<1>23. ASSUME NEW c \in Clients, AwaitEvidence(c) PROVE TypeOK'
  <2>1. c \in Profiles
    BY DEF Profiles
  <2>2. poll[c] \in Poller
    BY <2>1 DEF TypeOK
  <2>3. [poll[c] EXCEPT !.dep = @ + 1] \in Poller /\ [poll[c] EXCEPT !.st = "polling"] \in Poller
    BY <2>2 DEF Poller
  <2>4. poll' \in [Profiles -> Poller]
    BY <1>23, <2>1, <2>3 DEF AwaitEvidence, TypeOK
  <2> QED
    BY <1>23, <2>4 DEF AwaitEvidence, TypeOK, world, before, observers
<1>24. ASSUME NEW c \in Clients, AwaitFails(c) PROVE TypeOK'
  <2>1. c \in Profiles /\ HarnessResult \in Result
    BY DEF Profiles, HarnessResult, Result, Observation
  <2>2. poll' \in [Profiles -> Poller] /\ result' \in [Profiles -> Result]
    BY <1>24, <2>1, DeliverType DEF AwaitFails
  <2> QED
    BY <1>24, <2>2 DEF AwaitFails, TypeOK, world, before, observers
<1>25. ASSUME NEW m \in Method, ClosePublication(m) PROVE TypeOK'
  <2>1. Confirmed(m) # {} => Earliest(Confirmed(m)) \in Time
    BY EarliestType DEF Confirmed, OraclesOf, Profiles, Oracles
  <2>2. barrier' \in [Dependency -> Barrier]
    BY <1>25, <2>1 DEF ClosePublication, TypeOK, Barrier
  <2> QED
    BY <1>25, <2>2 DEF ClosePublication, TypeOK, world, before, observers
<1>26. ASSUME RefreshFetch PROVE TypeOK'
  <2>1. refresh' \in Refresher
    BY <1>26 DEF RefreshFetch, TypeOK, Refresher
  <2> QED
    BY <1>26, <2>1 DEF RefreshFetch, TypeOK, world, before, observers
<1>27. ASSUME RefreshServe PROVE TypeOK'
  <2>1. refresh' \in Refresher
    BY <1>27 DEF RefreshServe, TypeOK, Refresher
  <2> QED
    BY <1>27, <2>1 DEF RefreshServe, TypeOK, world, before, observers
<1>28. ASSUME RefreshFails PROVE TypeOK'
  <2>1. refresh' \in Refresher
    BY <1>28 DEF RefreshFails, TypeOK, Refresher
  <2> QED
    BY <1>28, <2>1 DEF RefreshFails, TypeOK, world, before, observers
<1>29. ASSUME RefreshShare PROVE TypeOK'
  <2>1. refresh' \in Refresher
    BY <1>29 DEF RefreshShare, TypeOK, Refresher
  <2> QED
    BY <1>29, <2>1 DEF RefreshShare, TypeOK, world, before, observers
<1>30. ASSUME RefreshClose PROVE TypeOK'
  <2>1. refresh' \in Refresher
    BY <1>30 DEF RefreshClose, TypeOK, Refresher
  <2>2. barrier' \in [Dependency -> Barrier]
    BY <1>30 DEF RefreshClose, TypeOK, Barrier, Refresher
  <2> QED
    BY <1>30, <2>1, <2>2 DEF RefreshClose, TypeOK, world, before, observers
<1>31. ASSUME Tick PROVE TypeOK'
  <2>1. clock' \in Time
    BY <1>31 DEF Tick, TypeOK, Time
  <2> QED
    BY <1>31, <2>1 DEF Tick, TypeOK, world, before, observers
<1>32. ASSUME Cancel PROVE TypeOK'
  BY <1>32 DEF Cancel, TypeOK, world, before, observers
<1>33. ASSUME NEW m \in Method, PublishStatus(m) PROVE TypeOK'
  BY <1>33 DEF PublishStatus, TypeOK, world, before, observers
<1> QED
  BY <1>1, <1>2, <1>3, <1>4, <1>5, <1>6, <1>7, <1>8, <1>9, <1>10, <1>11, <1>12, <1>13, <1>14, <1>15, <1>16, <1>17, <1>18, <1>19, <1>20, <1>21, <1>22, <1>23, <1>24, <1>25, <1>26, <1>27, <1>28, <1>29, <1>30, <1>31, <1>32, <1>33
  DEF Next, Main, Preflight, Poll, Await, Refresh
(* The dependencies of a client name barriers, and the publications are two  *)
(* different ones of them.                                                   *)
LEMMA Dependencies ==
  /\ \A c \in Clients : Len(Deps[c]) \in Nat /\ 1 \in 1..Len(Deps[c])
  /\ \A c \in Clients : \A i \in 1..Len(Deps[c]) : Deps[c][i] \in Dependency
  /\ \A m \in Method : PublicationOf(m) \in Dependency \ {"issuer_ack", "staple_published"}
  /\ \A m, k \in Method : PublicationOf(m) = PublicationOf(k) => m = k
<1>1. ASSUME NEW c \in Clients
      PROVE  /\ Len(Deps[c]) \in Nat /\ 1 \in 1..Len(Deps[c])
             /\ \A i \in 1..Len(Deps[c]) : Deps[c][i] \in Dependency
  <2>1. Deps[c] \in Seq(Dependency) /\ Deps[c] # <<>>
    BY Configured
  <2> QED
    BY <2>1
<1>2. \A m \in Method : PublicationOf(m) \in Dependency \ {"issuer_ack", "staple_published"}
  BY DEF Method, PublicationOf, Dependency
<1>3. \A m, k \in Method : PublicationOf(m) = PublicationOf(k) => m = k
  BY DEF Method, PublicationOf
<1> QED
  BY <1>1, <1>2, <1>3

(* Oracles are no clients, and each belongs to one method.                   *)
LEMMA Groups ==
  /\ \A m \in Method : OraclesOf(m) \subseteq Profiles /\ OraclesOf(m) \cap Clients = {}
  /\ \A m, k \in Method : m # k => OraclesOf(m) \cap OraclesOf(k) = {}
  /\ StrictClients \subseteq Clients /\ Clients \subseteq Profiles
  BY Configured DEF Method, OraclesOf, Profiles, Oracles, Clients

(* What a cycle's observers rely on; the rest of CycleInv is about the       *)
(* certificate.                                                              *)
ObserverInv ==
  /\ Unstarted /\ WaitOrder /\ GroupOrder /\ StapleOrder
  /\ BarrierTruthful /\ ReleasedByEvidence /\ NoStaleAcceptance

(* A step of the main goroutine or of the environment that leaves barriers,  *)
(* pollers and refresher alone, and changes the canary's staple only before  *)
(* the revoke, keeps their invariants.                                       *)
LEMMA MainFrame ==
  ASSUME ObserverInv, TypeOK, UNCHANGED observers, published' = published,
         served' = served \/ pc \in Early,
         pc' \in Early => pc \in Early,
         cert' = cert \/ cert' = "revoked" \/ pc \in Early
  PROVE  ObserverInv'
<1> USE DEF ObserverInv, observers
<1>1. /\ barrier' = barrier /\ poll' = poll /\ result' = result /\ refresh' = refresh
  OBVIOUS
<1>2. pc \in Early => /\ \A d \in Dependency : barrier[d].st = "open"
                      /\ refresh.st = "off"
  BY DEF Unstarted, Open
<1>3. Unstarted'
  BY <1>1 DEF Unstarted
<1>4. WaitOrder'
  BY <1>1 DEF WaitOrder
<1>5. GroupOrder'
  BY <1>1 DEF GroupOrder
<1>6. StapleOrder'
  BY <1>1, <1>2 DEF StapleOrder
<1>7. BarrierTruthful'
  BY <1>1, <1>2, Dependencies DEF BarrierTruthful, Dependency
<1>8. ReleasedByEvidence'
  BY <1>1 DEF ReleasedByEvidence, Released
<1>9. NoStaleAcceptance'
  BY <1>1 DEF NoStaleAcceptance
<1> QED
  BY <1>3, <1>4, <1>5, <1>6, <1>7, <1>8, <1>9

(* Delivering a result keeps the invariants, provided a revocation was       *)
(* published, no staple-awaiting client accepted, and the profile was        *)
(* released if the result is an observation.                                 *)
LEMMA DeliverFrame ==
  ASSUME ObserverInv, TypeOK, NEW p \in Profiles, NEW r \in Result, Deliver(p, r),
         poll[p].st \in {"waiting", "polling"},
         UNCHANGED <<pc, world, barrier, refresh>>,
         \A m \in Method : p \in OraclesOf(m) /\ r.obs = "REVOKED" => m \in published,
         p \in StrictClients /\ AwaitsStaple(p) => r.obs # "ACCEPT",
         r.at # 0 => poll[p].st = "polling"
  PROVE  ObserverInv'
<1> USE DEF ObserverInv, world
<1>1. /\ \A q \in Profiles : q # p => poll'[q] = poll[q] /\ result'[q] = result[q]
      /\ poll'[p] = Finished /\ result'[p] = r
  BY DEF Deliver, TypeOK
<1>2. Finished.st = "done" /\ Finished.dep = 1 /\ Finished.last = "INCONCLUSIVE"
  BY DEF Finished, Idle
<1>3. pc \notin Early
  BY DEF Unstarted, Idle
<1>4. Unstarted'
  BY <1>3 DEF Unstarted
<1>5. WaitOrder'
  BY <1>1, <1>2, Dependencies, Groups DEF WaitOrder
<1>6. \A m \in Method : barrier[PublicationOf(m)].st # "open" => p \notin OraclesOf(m)
  BY DEF GroupOrder
<1>7. GroupOrder'
  BY <1>1, <1>2, <1>6, Groups DEF GroupOrder
<1>8. StapleOrder'
  BY <1>1, <1>2, Groups DEF StapleOrder
<1>9. BarrierTruthful'
  <2>1. ASSUME NEW m \in Method, barrier[PublicationOf(m)].st = "satisfied"
        PROVE  \A q \in OraclesOf(m) : result'[q] = result[q]
    BY <1>1, <1>6, <2>1, Groups
  <2> QED
    BY <2>1 DEF BarrierTruthful
<1>10. ReleasedByEvidence'
  BY <1>1, <1>2, Groups DEF ReleasedByEvidence, Released
<1>11. NoStaleAcceptance'
  BY <1>1, Groups DEF NoStaleAcceptance
<1> QED
  BY <1>4, <1>5, <1>7, <1>8, <1>9, <1>10, <1>11
(* Every step keeps the invariants of the observers.                         *)
LEMMA ObserverStep ==
  ASSUME ObserverInv, TypeOK, Next
  PROVE  ObserverInv'
<1>1. ASSUME IssueCanary PROVE ObserverInv'
  BY <1>1, MainFrame DEF IssueCanary, Advance, Fail, Early, world, observers
<1>2. ASSUME IssueFails PROVE ObserverInv'
  BY <1>2, MainFrame DEF IssueFails, Advance, Fail, Early, world, observers
<1>3. ASSUME PersistArtifacts PROVE ObserverInv'
  BY <1>3, MainFrame DEF PersistArtifacts, Advance, Fail, Early, world, observers
<1>4. ASSUME FetchStaple PROVE ObserverInv'
  BY <1>4, MainFrame DEF FetchStaple, Advance, Fail, Early, world, observers
<1>5. ASSUME StartCanary PROVE ObserverInv'
  BY <1>5, MainFrame DEF StartCanary, Advance, Fail, Early, world, observers
<1>6. ASSUME SetupFails PROVE ObserverInv'
  BY <1>6, MainFrame DEF SetupFails, Advance, Fail, Early, world, observers
<1>7. ASSUME PreflightPasses PROVE ObserverInv'
  BY <1>7, MainFrame DEF PreflightPasses, Advance, Fail, Early, world, observers
<1>8. ASSUME PreflightFails PROVE ObserverInv'
  BY <1>8, MainFrame DEF PreflightFails, Advance, Fail, Early, world, observers
<1>9. ASSUME CheckAge PROVE ObserverInv'
  BY <1>9, MainFrame DEF CheckAge, Advance, Fail, Early, world, observers
<1>10. ASSUME PreflightStale PROVE ObserverInv'
  BY <1>10, MainFrame DEF PreflightStale, Advance, Fail, Early, world, observers
<1>11. ASSUME RevokeFails PROVE ObserverInv'
  BY <1>11, MainFrame DEF RevokeFails, Advance, Fail, Early, world, observers
<1>12. ASSUME Join PROVE ObserverInv'
  BY <1>12, MainFrame DEF Join, Advance, Fail, Early, world, observers
<1>13. ASSUME PersistEvidence PROVE ObserverInv'
  BY <1>13, MainFrame DEF PersistEvidence, Advance, Fail, Early, world, observers
<1>14. ASSUME PersistFails PROVE ObserverInv'
  BY <1>14, MainFrame DEF PersistFails, Advance, Fail, Early, world, observers
<1>15. ASSUME Evaluate PROVE ObserverInv'
  BY <1>15, MainFrame DEF Evaluate, Advance, Fail, Early, world, observers
<1>16. ASSUME Unwind PROVE ObserverInv'
  BY <1>16, MainFrame DEF Unwind, Advance, Fail, Early, world, observers
<1>17. ASSUME NEW p \in Profiles, PreflightStart(p) PROVE ObserverInv'
  BY <1>17, MainFrame DEF PreflightStart, world, observers
<1>18. ASSUME NEW p \in Profiles, PreflightObserve(p) PROVE ObserverInv'
  BY <1>18, MainFrame DEF PreflightObserve, world, observers
<1>19. ASSUME Tick PROVE ObserverInv'
  BY <1>19, MainFrame DEF Tick, world, observers
<1>20. ASSUME Cancel PROVE ObserverInv'
  BY <1>20, MainFrame DEF Cancel, world, observers
<1>21. ASSUME Revoke PROVE ObserverInv'
  <2> USE <1>21 DEF ObserverInv
  <2>1. pc \in Early /\ pc' \notin Early /\ cert' = "revoked" /\ result' = result /\ published' = published
    BY DEF Revoke, Advance, Early
  <2>2. /\ \A q \in Profiles : result[q] = NoResult /\ poll[q] = Idle
        /\ \A d \in Dependency : barrier[d] = Open
        /\ ~refresh.err
    BY <2>1 DEF Unstarted
  <2>3. \A q \in Profiles : /\ poll'[q].st = IF q \in Oracles THEN "polling" ELSE "waiting"
                            /\ poll'[q].dep = 1 /\ poll'[q].last = "INCONCLUSIVE"
    BY <2>2 DEF Revoke, Idle
  <2>4. /\ \A m \in Method : barrier'[PublicationOf(m)].st = "open"
        /\ Stapling = "on" => barrier'["staple_published"].st = "open"
        /\ barrier'["staple_published"].st # "satisfied"
    BY <2>2, Dependencies DEF Revoke, TypeOK, Dependency, Open
  <2>5. refresh'.st = (IF Stapling = "on" THEN "polling" ELSE "off") /\ refresh'.err = refresh.err
    BY DEF Revoke, TypeOK, Refresher
  <2>6. NoResult.at = 0 /\ NoResult.obs = "NONE"
    BY DEF NoResult
  <2>7. Unstarted'
    BY <2>1 DEF Unstarted
  <2>8. WaitOrder'
    BY <2>3, Dependencies, Groups DEF WaitOrder
  <2>9. GroupOrder'
    BY <2>1, <2>2, <2>3, <2>4, <2>6, Groups DEF GroupOrder
  <2>10. StapleOrder'
    BY <2>2, <2>3, <2>4, <2>5, Groups DEF StapleOrder
  <2>11. BarrierTruthful'
    BY <2>1, <2>4 DEF BarrierTruthful
  <2>12. \A c \in Clients : c \notin Oracles
    BY Configured
  <2>13. ReleasedByEvidence'
    BY <2>1, <2>2, <2>3, <2>6, <2>12, Groups DEF ReleasedByEvidence, Released
  <2>14. NoStaleAcceptance'
    BY <2>1, <2>2, <2>6, Groups DEF NoStaleAcceptance
  <2> QED
    BY <2>7, <2>8, <2>9, <2>10, <2>11, <2>13, <2>14
<1>22. ASSUME NEW p \in Profiles, NEW obs \in Observable(p), poll[p].st = "polling"
      PROVE  /\ \A m \in Method : p \in OraclesOf(m) /\ obs = "REVOKED" => m \in published
             /\ p \in StrictClients /\ AwaitsStaple(p) => obs # "ACCEPT"
  <2>1. ASSUME NEW m \in Method, p \in OraclesOf(m), obs = "REVOKED" PROVE m \in published
    <3>1. obs = StatusOf(m)
      BY <2>1, Configured DEF Observable, OraclesOf, Method, Oracles, Clients
    <3> QED
      BY <2>1, <3>1 DEF StatusOf
  <2>2. ASSUME p \in StrictClients, AwaitsStaple(p) PROVE obs # "ACCEPT"
    <3>1. served = "revoked"
      BY <1>22, <2>2, Groups
      DEF ObserverInv, ReleasedByEvidence, Released, AwaitsStaple, BarrierTruthful
    <3>2. StapleStatus = "REVOKED"
      BY <3>1 DEF StapleStatus
    <3>3. p \notin OCSPOracles /\ p \notin CRLOracles /\ p \notin PlainClients
      BY <2>2, Configured DEF Oracles, Clients
    <3> QED
      BY <3>2, <3>3 DEF Observable
  <2> QED
    BY <2>1, <2>2
<1>23. ASSUME NEW p \in Profiles, Attempt(p) PROVE ObserverInv'
  <2>1. PICK obs \in Observable(p) :
          IF obs \in After[p] \/ AttemptsExhausted(poll[p].attempts + 1)
          THEN Deliver(p, [obs |-> obs, met |-> obs \in After[p], at |-> clock])
          ELSE /\ poll' = [poll EXCEPT ![p].attempts = poll[p].attempts + 1, ![p].last = obs]
               /\ UNCHANGED result
    BY <1>23 DEF Attempt
  <2>2. /\ poll[p].st = "polling"
        /\ UNCHANGED <<pc, world, barrier, refresh>>
    BY <1>23 DEF Attempt
  <2>3. CASE obs \in After[p] \/ AttemptsExhausted(poll[p].attempts + 1)
    <3> DEFINE r == [obs |-> obs, met |-> obs \in After[p], at |-> clock]
    <3>1. r \in Result /\ r.obs = obs
      BY DEF TypeOK, Result, Observable
    <3>2. Deliver(p, r)
      BY <2>1, <2>3
    <3> HIDE DEF r
    <3> QED
      BY <1>22, <2>2, <3>1, <3>2, DeliverFrame
  <2>4. CASE ~(obs \in After[p] \/ AttemptsExhausted(poll[p].attempts + 1))
    <3> USE DEF ObserverInv, world
    <3>1. /\ \A q \in Profiles : q # p => poll'[q] = poll[q]
          /\ poll'[p].st = "polling" /\ poll'[p].dep = poll[p].dep /\ poll'[p].last = obs
          /\ result' = result
      BY <2>1, <2>2, <2>4 DEF TypeOK, Poller
    <3>2. pc \notin Early
      BY <2>2 DEF Unstarted, Idle
    <3>3. Unstarted'
      BY <2>2, <3>2 DEF Unstarted
    <3>4. WaitOrder'
      BY <2>2, <3>1, Groups DEF WaitOrder
    <3>5. GroupOrder'
      BY <1>22, <2>2, <3>1, Groups DEF GroupOrder
    <3>6. StapleOrder'
      BY <1>22, <2>2, <3>1, Groups DEF StapleOrder
    <3>7. BarrierTruthful'
      BY <2>2, <3>1 DEF BarrierTruthful
    <3>8. ReleasedByEvidence'
      BY <2>2, <3>1, Groups DEF ReleasedByEvidence, Released
    <3>9. NoStaleAcceptance'
      BY <3>1 DEF NoStaleAcceptance
    <3> QED
      BY <3>3, <3>4, <3>5, <3>6, <3>7, <3>8, <3>9
  <2> QED
    BY <2>3, <2>4
<1>24. ASSUME NEW p \in Profiles, PollExhausted(p) PROVE ObserverInv'
  <2> DEFINE r == [obs |-> poll[p].last, met |-> FALSE, at |-> clock]
  <2>1. r \in Result /\ r.obs = poll[p].last
    BY DEF TypeOK, Result, Poller
  <2>2. /\ Deliver(p, r) /\ poll[p].st = "polling"
        /\ UNCHANGED <<pc, world, barrier, refresh>>
    BY <1>24 DEF PollExhausted
  <2> HIDE DEF r
  <2> QED
    BY <2>1, <2>2, DeliverFrame DEF ObserverInv, GroupOrder, StapleOrder
<1>25. /\ HarnessResult \in Result
      /\ HarnessResult.obs = "ERROR" /\ HarnessResult.at = 0
  BY Bounds DEF HarnessResult, Result, Observation
<1>26. ASSUME NEW p \in Profiles, PollCancelled(p) PROVE ObserverInv'
  BY <1>25, <1>26, DeliverFrame DEF PollCancelled
<1>27. ASSUME NEW c \in Clients, AwaitFails(c) PROVE ObserverInv'
  BY <1>25, <1>27, DeliverFrame, Groups DEF AwaitFails
<1>28. ASSUME NEW c \in Clients, AwaitEvidence(c) PROVE ObserverInv'
  <2> USE <1>28 DEF ObserverInv, world
  <2>1. /\ poll[c].st = "waiting" /\ c \in Profiles /\ poll[c].dep \in 1..Len(Deps[c])
        /\ barrier[Deps[c][poll[c].dep]].st = "satisfied"
        /\ UNCHANGED <<pc, world, barrier, refresh, result>>
    BY Groups DEF AwaitEvidence, Awaited, WaitOrder
  <2>2. /\ \A q \in Profiles : q # c => poll'[q] = poll[q]
        /\ poll'[c].last = poll[c].last
        /\ \/ /\ poll[c].dep < Len(Deps[c])
              /\ poll'[c].st = "waiting" /\ poll'[c].dep = poll[c].dep + 1
           \/ /\ poll[c].dep >= Len(Deps[c])
              /\ poll'[c].st = "polling" /\ poll'[c].dep = poll[c].dep
    <3>1. CASE poll[c].dep < Len(Deps[c])
      BY <2>1, <3>1 DEF AwaitEvidence, TypeOK, Poller
    <3>2. CASE ~(poll[c].dep < Len(Deps[c]))
      BY <2>1, <3>2, Dependencies DEF AwaitEvidence, TypeOK, Poller
    <3> QED
      BY <3>1, <3>2
  <2>3. \A i \in 1..Len(Deps[c]) : i <= poll[c].dep => barrier[Deps[c][i]].st = "satisfied"
    BY <2>1, Dependencies DEF WaitOrder
  <2>4. pc \notin Early
    BY <2>1 DEF Unstarted, Idle
  <2>5. Unstarted'
    BY <2>1, <2>4 DEF Unstarted
  <2>6. WaitOrder'
    <3>1. \A q \in Clients : q # c => poll'[q] = poll[q]
      BY <2>2, Groups
    <3>2. poll'[c].dep \in 1..Len(Deps[c])
      BY <2>1, <2>2, Dependencies
    <3>3. poll'[c].st = "waiting" =>
            \A i \in 1..Len(Deps[c]) : i < poll'[c].dep => barrier'[Deps[c][i]].st = "satisfied"
      BY <2>1, <2>2, <2>3, Dependencies
    <3> QED
      BY <2>1, <3>1, <3>2, <3>3 DEF WaitOrder
  <2>7. GroupOrder'
    BY <2>1, <2>2, Groups DEF GroupOrder
  <2>8. StapleOrder'
    BY <2>1, <2>2, Groups DEF StapleOrder
  <2>9. BarrierTruthful'
    BY <2>1 DEF BarrierTruthful
  <2>10. ReleasedByEvidence'
    BY <2>1, <2>2, <2>3, Dependencies, Groups DEF ReleasedByEvidence, Released
  <2>11. NoStaleAcceptance'
    BY <2>1 DEF NoStaleAcceptance
  <2> QED
    BY <2>5, <2>6, <2>7, <2>8, <2>9, <2>10, <2>11
<1>29. ASSUME NEW m \in Method, ClosePublication(m) PROVE ObserverInv'
  <2> USE <1>29 DEF ObserverInv, world
  <2>1. /\ barrier[PublicationOf(m)].st = "open" /\ pc = "observe"
        /\ \A p \in OraclesOf(m) : poll[p].st = "done"
        /\ UNCHANGED <<pc, world, poll, result, refresh>>
    BY DEF ClosePublication
  <2>2. \A d \in Dependency : d # PublicationOf(m) => barrier'[d] = barrier[d]
    BY DEF ClosePublication, TypeOK
  <2>3. \A d \in Dependency : barrier[d].st = "satisfied" => barrier'[d].st = "satisfied"
    BY <2>1, <2>2
  <2>4. barrier'[PublicationOf(m)].st = "satisfied" =>
          /\ Confirmed(m) # {}
          /\ barrier'[PublicationOf(m)].at = Earliest(Confirmed(m))
    BY Dependencies DEF ClosePublication, TypeOK
  <2>5. Confirmed(m) \subseteq Profiles
    BY Groups DEF Confirmed
  <2>6. Unstarted'
    BY <2>1 DEF Unstarted, Early
  <2>7. WaitOrder'
    BY <2>1, <2>3, Dependencies DEF WaitOrder
  <2>8. GroupOrder'
    BY <2>1, <2>2, Dependencies DEF GroupOrder
  <2>9. StapleOrder'
    BY <2>1, <2>2, Dependencies DEF StapleOrder, Dependency
  <2>10. BarrierTruthful'
    <3>1. barrier'["issuer_ack"] = barrier["issuer_ack"]
           /\ barrier'["staple_published"] = barrier["staple_published"]
      BY <2>2, Dependencies DEF Dependency
    <3>2. ASSUME barrier'[PublicationOf(m)].st = "satisfied"
          PROVE  /\ m \in published
                 /\ \E p \in OraclesOf(m) : /\ result[p].obs = "REVOKED"
                                            /\ result[p].at = barrier'[PublicationOf(m)].at
                 /\ \A p \in OraclesOf(m) : result[p].obs = "REVOKED" =>
                      barrier'[PublicationOf(m)].at <= result[p].at
      <4>1. /\ \E p \in Confirmed(m) : result[p].at = Earliest(Confirmed(m))
            /\ \A p \in Confirmed(m) : Earliest(Confirmed(m)) <= result[p].at
        BY <2>4, <2>5, <3>2, EarliestType
      <4> QED
        BY <2>4, <3>2, <4>1 DEF Confirmed, GroupOrder
    <3>3. ASSUME NEW k \in Method, k # m
          PROVE  barrier'[PublicationOf(k)] = barrier[PublicationOf(k)]
      BY <2>2, <3>3, Dependencies
    <3> QED
      BY <2>1, <3>1, <3>2, <3>3 DEF BarrierTruthful
  <2>11. ReleasedByEvidence'
    BY <2>1, <2>3, Dependencies DEF ReleasedByEvidence, Released
  <2>12. NoStaleAcceptance'
    BY <2>1 DEF NoStaleAcceptance
  <2> QED
    BY <2>6, <2>7, <2>8, <2>9, <2>10, <2>11, <2>12
<1>30. ASSUME \/ RefreshFetch \/ RefreshServe \/ RefreshFails \/ RefreshShare
      PROVE  ObserverInv'
  <2> USE <1>30 DEF ObserverInv, world
  <2>1. /\ UNCHANGED <<pc, cert, published, barrier, poll, result>>
        /\ served' = served \/ served' = "revoked"
        /\ refresh.st \in {"polling", "serving", "sharing"}
    BY DEF RefreshFetch, RefreshServe, RefreshFails, RefreshShare
  <2>2. pc \notin Early
    BY <2>1 DEF Unstarted
  <2>3. /\ refresh'.st \in {"serving", "sharing", "closing"}
        /\ refresh'.st = "serving" => refresh.st = "polling" /\ refresh'.err = refresh.err
        /\ refresh'.st = "sharing" => refresh'.err \/ served' = "revoked"
        /\ refresh'.st = "closing" => refresh.st = "sharing" /\ refresh'.err = refresh.err
    BY DEF RefreshFetch, RefreshServe, RefreshFails, RefreshShare, TypeOK, Refresher
  <2>4. Unstarted'
    BY <2>1, <2>2 DEF Unstarted
  <2>5. WaitOrder'
    BY <2>1 DEF WaitOrder
  <2>6. GroupOrder'
    BY <2>1 DEF GroupOrder
  <2>7. StapleOrder'
    BY <2>1, <2>3 DEF StapleOrder
  <2>8. BarrierTruthful'
    BY <2>1 DEF BarrierTruthful
  <2>9. ReleasedByEvidence'
    BY <2>1 DEF ReleasedByEvidence, Released
  <2>10. NoStaleAcceptance'
    BY <2>1 DEF NoStaleAcceptance
  <2> QED
    BY <2>4, <2>5, <2>6, <2>7, <2>8, <2>9, <2>10
<1>31. ASSUME RefreshClose PROVE ObserverInv'
  <2> USE <1>31 DEF ObserverInv, world
  <2>1. /\ UNCHANGED <<pc, world, poll, result>>
        /\ refresh.st = "closing" /\ refresh'.st = "done"
        /\ barrier["staple_published"].st = "open"
    BY DEF RefreshClose, StapleOrder, TypeOK, Refresher
  <2>2. /\ \A d \in Dependency : d # "staple_published" => barrier'[d] = barrier[d]
        /\ barrier'["staple_published"].st = "satisfied" => ~refresh.err
    BY DEF RefreshClose, TypeOK, Dependency
  <2>3. \A d \in Dependency : barrier[d].st = "satisfied" => barrier'[d].st = "satisfied"
    BY <2>1, <2>2
  <2>4. pc \notin Early
    BY <2>1 DEF Unstarted
  <2>5. Unstarted'
    BY <2>1, <2>4 DEF Unstarted
  <2>6. WaitOrder'
    BY <2>1, <2>3, Dependencies DEF WaitOrder
  <2>7. GroupOrder'
    BY <2>1, <2>2, Dependencies DEF GroupOrder
  <2>8. StapleOrder'
    BY <2>1 DEF StapleOrder
  <2>9. BarrierTruthful'
    BY <2>1, <2>2, Dependencies DEF BarrierTruthful, StapleOrder, Dependency
  <2>10. ReleasedByEvidence'
    BY <2>1, <2>3, Dependencies DEF ReleasedByEvidence, Released
  <2>11. NoStaleAcceptance'
    BY <2>1 DEF NoStaleAcceptance
  <2> QED
    BY <2>5, <2>6, <2>7, <2>8, <2>9, <2>10, <2>11
<1>32. ASSUME NEW m \in Method, PublishStatus(m) PROVE ObserverInv'
  <2> USE <1>32 DEF ObserverInv, observers
  <2>1. /\ UNCHANGED <<pc, cert, served, barrier, poll, result, refresh>>
        /\ published \subseteq published'
    BY DEF PublishStatus
  <2>2. Unstarted' /\ WaitOrder' /\ StapleOrder'
    BY <2>1 DEF Unstarted, WaitOrder, StapleOrder
  <2>3. GroupOrder' /\ BarrierTruthful'
    BY <2>1 DEF GroupOrder, BarrierTruthful
  <2>4. ReleasedByEvidence' /\ NoStaleAcceptance'
    BY <2>1 DEF ReleasedByEvidence, Released, NoStaleAcceptance
  <2> QED
    BY <2>2, <2>3, <2>4
<1> QED
  BY <1>1, <1>2, <1>3, <1>4, <1>5, <1>6, <1>7, <1>8, <1>9, <1>10, <1>11, <1>12, <1>13, <1>14, <1>15, <1>16, <1>17, <1>18, <1>19, <1>20, <1>21, <1>23, <1>24, <1>26, <1>27, <1>28, <1>29, <1>30, <1>31, <1>32
  DEF Next, Main, Preflight, Poll, Await, Refresh
(* What the cycle does with its certificate and its preflights.               *)
CertInv == CleanupOrder /\ CanaryNotForgotten /\ PreflightOrder /\ RevokeAfterPreflight

(* Every step keeps the compensation armed until a revoke is known to have   *)
(* taken effect, and revokes only after fresh preflights.                    *)
LEMMA CertStep ==
  ASSUME CertInv, TypeOK, Next
  PROVE  CertInv'
<1> USE DEF CertInv
<1>1. ASSUME IssueCanary PROVE CertInv'
  BY <1>1 DEF IssueCanary, Advance, Fail, world, before, CleanupOrder, CanaryNotForgotten, PreflightOrder, RevokeAfterPreflight, Early
<1>2. ASSUME IssueFails PROVE CertInv'
  BY <1>2 DEF IssueFails, Advance, Fail, world, before, CleanupOrder, CanaryNotForgotten, PreflightOrder, RevokeAfterPreflight, Early, TypeOK, CycleReport
<1>3. ASSUME PersistArtifacts PROVE CertInv'
  BY <1>3 DEF PersistArtifacts, Advance, Fail, world, before, CleanupOrder, CanaryNotForgotten, PreflightOrder, RevokeAfterPreflight, Early
<1>4. ASSUME FetchStaple PROVE CertInv'
  BY <1>4 DEF FetchStaple, Advance, Fail, world, before, CleanupOrder, CanaryNotForgotten, PreflightOrder, RevokeAfterPreflight, Early
<1>5. ASSUME StartCanary PROVE CertInv'
  BY <1>5 DEF StartCanary, Advance, Fail, world, before, CleanupOrder, CanaryNotForgotten, PreflightOrder, RevokeAfterPreflight, Early
<1>6. ASSUME SetupFails PROVE CertInv'
  BY <1>6 DEF SetupFails, Advance, Fail, world, before, CleanupOrder, CanaryNotForgotten, PreflightOrder, RevokeAfterPreflight, Early
<1>7. ASSUME PreflightPasses PROVE CertInv'
  BY <1>7 DEF PreflightPasses, Advance, Fail, world, before, CleanupOrder, CanaryNotForgotten, PreflightOrder, RevokeAfterPreflight, Early
<1>8. ASSUME PreflightFails PROVE CertInv'
  BY <1>8 DEF PreflightFails, Advance, Fail, world, before, CleanupOrder, CanaryNotForgotten, PreflightOrder, RevokeAfterPreflight, Early
<1>9. ASSUME CheckAge PROVE CertInv'
  BY <1>9 DEF CheckAge, Advance, Fail, world, before, CleanupOrder, CanaryNotForgotten, PreflightOrder, RevokeAfterPreflight, Early, TypeOK, Timeline, Fresh
<1>10. ASSUME PreflightStale PROVE CertInv'
  BY <1>10 DEF PreflightStale, Advance, Fail, world, before, CleanupOrder, CanaryNotForgotten, PreflightOrder, RevokeAfterPreflight, Early
<1>11. ASSUME RevokeFails PROVE CertInv'
  BY <1>11 DEF RevokeFails, Advance, Fail, world, before, CleanupOrder, CanaryNotForgotten, PreflightOrder, RevokeAfterPreflight, Early
<1>12. ASSUME Revoke PROVE CertInv'
  BY <1>12 DEF Revoke, Advance, Fail, world, before, CleanupOrder, CanaryNotForgotten, PreflightOrder, RevokeAfterPreflight, Early, TypeOK, Timeline
<1>13. ASSUME Join PROVE CertInv'
  BY <1>13 DEF Join, Advance, Fail, world, before, CleanupOrder, CanaryNotForgotten, PreflightOrder, RevokeAfterPreflight, Early
<1>14. ASSUME PersistEvidence PROVE CertInv'
  BY <1>14 DEF PersistEvidence, Advance, Fail, world, before, CleanupOrder, CanaryNotForgotten, PreflightOrder, RevokeAfterPreflight, Early
<1>15. ASSUME PersistFails PROVE CertInv'
  BY <1>15 DEF PersistFails, Advance, Fail, world, before, CleanupOrder, CanaryNotForgotten, PreflightOrder, RevokeAfterPreflight, Early
<1>16. ASSUME Evaluate PROVE CertInv'
  BY <1>16 DEF Evaluate, Advance, Fail, world, before, CleanupOrder, CanaryNotForgotten, PreflightOrder, RevokeAfterPreflight, Early
<1>17. ASSUME Unwind PROVE CertInv'
  BY <1>17 DEF Unwind, Advance, Fail, world, before, CleanupOrder, CanaryNotForgotten, PreflightOrder, RevokeAfterPreflight, Early, TypeOK, CycleReport
<1>18. ASSUME NEW p \in Profiles, PreflightStart(p) PROVE CertInv'
  BY <1>18 DEF PreflightStart, world, CleanupOrder, CanaryNotForgotten, PreflightOrder, RevokeAfterPreflight, Early
<1>19. ASSUME NEW p \in Profiles, PreflightObserve(p) PROVE CertInv'
  BY <1>19 DEF PreflightObserve, world, CleanupOrder, CanaryNotForgotten, PreflightOrder, RevokeAfterPreflight, Early
<1>20. ASSUME UNCHANGED <<pc, cert, armed, before, timeline, report>> PROVE CertInv'
  BY <1>20 DEF before, CleanupOrder, CanaryNotForgotten, PreflightOrder, RevokeAfterPreflight, Early
<1>21. ASSUME NEW p \in Profiles, Attempt(p) PROVE CertInv'
  BY <1>20, <1>21 DEF Attempt, world
<1>22. ASSUME NEW p \in Profiles, PollExhausted(p) PROVE CertInv'
  BY <1>20, <1>22 DEF PollExhausted, world
<1>23. ASSUME NEW p \in Profiles, PollCancelled(p) PROVE CertInv'
  BY <1>20, <1>23 DEF PollCancelled, world
<1>24. ASSUME NEW p \in Clients, AwaitEvidence(p) PROVE CertInv'
  BY <1>20, <1>24 DEF AwaitEvidence, world
<1>25. ASSUME NEW p \in Clients, AwaitFails(p) PROVE CertInv'
  BY <1>20, <1>25 DEF AwaitFails, world
<1>26. ASSUME NEW p \in Method, ClosePublication(p) PROVE CertInv'
  BY <1>20, <1>26 DEF ClosePublication, world
<1>27. ASSUME NEW p \in Method, PublishStatus(p) PROVE CertInv'
  BY <1>20, <1>27 DEF PublishStatus, world
<1>28. ASSUME RefreshFetch PROVE CertInv'
  BY <1>20, <1>28 DEF RefreshFetch, world
<1>29. ASSUME RefreshServe PROVE CertInv'
  BY <1>20, <1>29 DEF RefreshServe, world
<1>30. ASSUME RefreshShare PROVE CertInv'
  BY <1>20, <1>30 DEF RefreshShare, world
<1>31. ASSUME RefreshClose PROVE CertInv'
  BY <1>20, <1>31 DEF RefreshClose, world
<1>32. ASSUME RefreshFails PROVE CertInv'
  BY <1>20, <1>32 DEF RefreshFails, world
<1>33. ASSUME Tick PROVE CertInv'
  BY <1>20, <1>33 DEF Tick, world
<1>34. ASSUME Cancel PROVE CertInv'
  BY <1>20, <1>34 DEF Cancel, world
<1> QED
  BY <1>1, <1>2, <1>3, <1>4, <1>5, <1>6, <1>7, <1>8, <1>9, <1>10, <1>11, <1>12, <1>13, <1>14, <1>15, <1>16, <1>17, <1>18, <1>19, <1>21, <1>22, <1>23, <1>24, <1>25, <1>26, <1>27, <1>28, <1>29, <1>30, <1>31, <1>32, <1>33, <1>34
  DEF Next, Main, Preflight, Poll, Await, Refresh

(* The initial state satisfies the inductive invariant.                      *)
LEMMA InitCycleInv == Init => CycleInv
<1> SUFFICES ASSUME Init PROVE CycleInv
  OBVIOUS
<1>1. Idle \in Poller /\ NoResult \in Result /\ Open \in Barrier
  BY Bounds DEF Idle, Poller, NoResult, Result, Open, Barrier, Observation
<1>2. clock \in Time
  BY ProbeAssumption DEF Init, Time
<1>3. timeline \in Timeline /\ refresh \in Refresher /\ report \in CycleReport
  BY Bounds DEF Init, Timeline, Refresher, CycleReport, CyclePhase
<1>4. TypeOK
  BY <1>1, <1>2, <1>3, Bounds DEF Init, TypeOK, Mains
<1>5. /\ \A p \in Profiles : /\ poll[p].st = "off" /\ poll[p].dep = 1 /\ poll[p].last = "INCONCLUSIVE"
                            /\ result[p].obs = "NONE" /\ result[p].at = 0
      /\ \A d \in Dependency : barrier[d].st = "open"
      /\ refresh.st = "off"
  BY DEF Init, Idle, NoResult, Open
<1>6. Unstarted /\ StapleOrder
  BY <1>5, Groups DEF Init, Unstarted, StapleOrder
<1>7. WaitOrder /\ GroupOrder
  BY <1>5, Groups, Dependencies DEF WaitOrder, GroupOrder
<1>8. BarrierTruthful
  BY <1>5, Dependencies DEF BarrierTruthful, Dependency
<1>9. ReleasedByEvidence /\ NoStaleAcceptance
  BY <1>5, Groups DEF ReleasedByEvidence, Released, NoStaleAcceptance
<1>10. CleanupOrder /\ CanaryNotForgotten /\ PreflightOrder /\ RevokeAfterPreflight
  BY DEF Init, CleanupOrder, CanaryNotForgotten, PreflightOrder, RevokeAfterPreflight, Early
<1> QED
  BY <1>4, <1>6, <1>7, <1>8, <1>9, <1>10 DEF CycleInv

(* Stuttering and every step preserve the inductive invariant.               *)
LEMMA NextCycleInv == CycleInv /\ [Next]_vars => CycleInv'
<1> SUFFICES ASSUME CycleInv, [Next]_vars PROVE CycleInv'
  OBVIOUS
<1>1. CASE Next
  <2>1. TypeOK /\ ObserverInv /\ CertInv
    BY DEF CycleInv, ObserverInv, CertInv
  <2>2. TypeOK' /\ ObserverInv' /\ CertInv'
    BY <1>1, <2>1, TypeStep, ObserverStep, CertStep
  <2> QED
    BY <2>2 DEF CycleInv, ObserverInv, CertInv
<1>2. CASE UNCHANGED vars
  <2> USE <1>2 DEF vars, world, before, observers, CycleInv
  <2>1. TypeOK'
    BY DEF TypeOK
  <2>2. Unstarted' /\ WaitOrder'
    BY DEF Unstarted, WaitOrder
  <2>3. GroupOrder' /\ StapleOrder'
    BY DEF GroupOrder, StapleOrder
  <2>4. BarrierTruthful'
    BY DEF BarrierTruthful
  <2>5. ReleasedByEvidence' /\ NoStaleAcceptance'
    BY DEF ReleasedByEvidence, Released, NoStaleAcceptance
  <2>6. CleanupOrder' /\ CanaryNotForgotten' /\ PreflightOrder' /\ RevokeAfterPreflight'
    BY DEF CleanupOrder, CanaryNotForgotten, PreflightOrder, RevokeAfterPreflight
  <2> QED
    BY <2>1, <2>2, <2>3, <2>4, <2>5, <2>6
<1> QED
  BY <1>1, <1>2

(* The inductive invariant holds throughout every cycle of RunOnce, for any  *)
(* profiles, contracts and dependencies.                                     *)
THEOREM CycleInvariance == Spec => []CycleInv
  BY InitCycleInv, NextCycleInv, PTL DEF Spec

(* A satisfied evidence barrier always means what it says.                   *)
THEOREM BarriersTellTheTruth == Spec => []BarrierTruthful
<1>1. CycleInv => BarrierTruthful
  BY DEF CycleInv
<1> QED
  BY <1>1, CycleInvariance, PTL

(* No client is probed before all of the evidence it depends on.             *)
THEOREM ClientsAwaitEvidence == Spec => []ReleasedByEvidence
<1>1. CycleInv => ReleasedByEvidence
  BY DEF CycleInv
<1> QED
  BY <1>1, CycleInvariance, PTL

(* No strict client that waits for the revoked staple ever accepts the       *)
(* pre-revocation one.                                                       *)
THEOREM StaleStapleNeverAccepted == Spec => []NoStaleAcceptance
<1>1. CycleInv => NoStaleAcceptance
  BY DEF CycleInv
<1> QED
  BY <1>1, CycleInvariance, PTL

(* A cycle whose issuance succeeded returns with the canary revoked or says  *)
(* that the compensation failed.                                             *)
THEOREM CanaryCompensated == Spec => []CanaryNotForgotten
<1>1. CycleInv => CanaryNotForgotten
  BY DEF CycleInv
<1> QED
  BY <1>1, CycleInvariance, PTL

(* The revoke is requested only after fresh preflights of every profile.     *)
THEOREM RevokeNeedsPreflight == Spec => []RevokeAfterPreflight
<1>1. CycleInv => RevokeAfterPreflight
  BY DEF CycleInv
<1> QED
  BY <1>1, CycleInvariance, PTL
-----------------------------------------------------------------------------
(* The report: what is joined, the times and the verdict                     *)

(* Recorded times are natural numbers.                                       *)
LEMMA Times ==
  ASSUME TypeOK
  PROVE  /\ clock \in Nat /\ timeline.req \in Nat /\ timeline.ack \in Nat
         /\ timeline.ocsp \in Nat /\ timeline.crl \in Nat
         /\ timeline.source \in Nat /\ timeline.staple \in Nat
         /\ refresh.source \in Nat /\ refresh.at \in Nat
         /\ \A d \in Dependency : barrier[d].at \in Nat
         /\ \A p \in Profiles : result[p].at \in Nat
<1>1. timeline \in Timeline /\ refresh \in Refresher /\ clock \in Time
      /\ (\A d \in Dependency : barrier[d] \in Barrier) /\ (\A p \in Profiles : result[p] \in Result)
  BY DEF TypeOK
<1> QED
  BY <1>1, Bounds DEF Timeline, Refresher, Barrier, Result

(* Steps that leave observers and timeline alone while time may pass.        *)
LEMMA QuietFrame ==
  ASSUME TypeOK, ReportInv, UNCHANGED <<observers, timeline>>, clock' \in Nat, clock' >= clock
  PROVE  ShareOrder' /\ ResultOrder' /\ ClockOrder' /\ TimelineCausal'
<1>1. UNCHANGED <<barrier, poll, result, refresh, stapleErr>>
  BY DEF observers
<1>2. ShareOrder'
  BY <1>1, Times DEF ReportInv, ShareOrder
<1>3. ResultOrder'
  BY <1>1 DEF ReportInv, ResultOrder
<1>4. ClockOrder'
  BY <1>1, Times DEF ReportInv, ClockOrder
<1>5. TimelineCausal'
  BY <1>1 DEF ReportInv, TimelineCausal
<1> QED
  BY <1>2, <1>3, <1>4, <1>5

(* Before the revoke nothing is joined and nothing decided.                  *)
LEMMA EarlyFrame ==
  ASSUME TypeOK, ReportInv, Unstarted, pc \in Early, UNCHANGED observers,
         timeline' \in {timeline, [timeline EXCEPT !.req = clock]},
         pc' \in Early \cup {"unwind", "returned"},
         ~report'.valid, report'.phase # "complete", report'.cleanup = "none",
         report'.outcome # "ok", pc' \in Early => report'.outcome = "none"
  PROVE  JoinOrder' /\ VerdictOrder' /\ ValidComplete'
<1>1. UNCHANGED <<poll, result, refresh, stapleErr>>
  BY DEF observers
<1>2. refresh.st = "off" /\ \A p \in Profiles : poll[p].st = "off"
  BY DEF Unstarted, Idle
<1>3. /\ timeline'.ack = timeline.ack /\ timeline'.ocsp = timeline.ocsp /\ timeline'.crl = timeline.crl
      /\ timeline'.source = timeline.source /\ timeline'.staple = timeline.staple
  BY DEF TypeOK, Timeline
<1>4. pc' \notin {"observe", "persist", "evaluate"}
  BY DEF Early
<1>5. JoinOrder'
  BY <1>1, <1>2, <1>3, <1>4 DEF ReportInv, JoinOrder
<1>6. VerdictOrder'
  BY <1>4 DEF VerdictOrder
<1>7. ValidComplete'
  BY DEF ValidComplete
<1> QED
  BY <1>5, <1>6, <1>7

(* While the goroutines are at work the report is not decided.               *)
LEMMA ObserveFrame ==
  ASSUME ReportInv, pc = "observe", UNCHANGED <<pc, timeline, armed, report>>,
         \A p \in Profiles : poll'[p].st # "off",
         refresh'.st = "off" <=> refresh.st = "off"
  PROVE  JoinOrder' /\ VerdictOrder' /\ ValidComplete'
<1>1. "observe" \notin Early \cup Ended
  BY DEF Early, Ended
<1>2. JoinOrder'
  BY <1>1 DEF ReportInv, JoinOrder
<1>3. VerdictOrder'
  BY DEF ReportInv, VerdictOrder
<1>4. ValidComplete'
  BY DEF ReportInv, VerdictOrder, ValidComplete
<1> QED
  BY <1>2, <1>3, <1>4

(* A goroutine runs only while the main goroutine observes.                  *)
LEMMA AtWork ==
  ASSUME TypeOK, ReportInv, Unstarted
  PROVE  /\ \A p \in Profiles : poll[p].st \in {"waiting", "polling"} => pc = "observe"
         /\ refresh.st \in {"polling", "serving", "sharing", "closing"} => pc = "observe"
<1>1. pc \in Early \/ pc = "observe" \/ pc \in Ended
  BY DEF TypeOK, Mains, Early, Ended
<1>2. pc \in Early => refresh.st = "off" /\ \A p \in Profiles : poll[p].st = "off"
  BY DEF Unstarted, Idle
<1> QED
  BY <1>1, <1>2 DEF ReportInv, JoinOrder

(* Delivering a result.                                                      *)
LEMMA DeliverReport ==
  ASSUME CycleInv, ReportInv, NEW p \in Profiles, NEW r \in Result, Deliver(p, r),
         poll[p].st \in {"waiting", "polling"},
         UNCHANGED <<pc, clock, timeline, armed, barrier, refresh, stapleErr, report>>,
         r.obs # "NONE", r.obs = "ERROR" \/ r.at # 0, r.met => r.obs \in After[p],
         r.at \in {0, clock}
  PROVE  ReportInv'
<1>1. TypeOK /\ Unstarted
  BY DEF CycleInv
<1>2. /\ \A q \in Profiles : q # p => poll'[q] = poll[q] /\ result'[q] = result[q]
      /\ poll'[p].st = "done" /\ result'[p] = r
  BY <1>1 DEF Deliver, Finished, Idle, TypeOK
<1>3. pc = "observe"
  BY <1>1, AtWork
<1>4. \A q \in Profiles : poll'[q].st # "off"
  BY <1>2, <1>3 DEF ReportInv, JoinOrder
<1>5. JoinOrder' /\ VerdictOrder' /\ ValidComplete'
  BY <1>3, <1>4, ObserveFrame
<1>6. ShareOrder'
  BY DEF ReportInv, ShareOrder
<1>7. ResultOrder'
  BY <1>2 DEF ReportInv, ResultOrder
<1>8. ClockOrder'
  BY <1>1, <1>2, Times DEF ReportInv, ClockOrder
<1>9. TimelineCausal'
  <2>1. /\ timeline.ack <= clock /\ \A d \in Dependency : barrier[d].at <= clock
        /\ \A c \in Clients : \A i \in 1..Len(Deps[c]) : Deps[c][i] \in Dependency
    BY Dependencies DEF ReportInv, ClockOrder
  <2>2. \A q \in Profiles : result'[q].at # 0 => timeline.ack <= result'[q].at
    BY <1>2, <2>1 DEF ReportInv, TimelineCausal
  <2>3. \A c \in Clients : \A i \in 1..Len(Deps[c]) :
          result'[c].at # 0 => barrier[Deps[c][i]].at <= result'[c].at
    BY <1>2, <2>1, Groups DEF ReportInv, TimelineCausal
  <2> QED
    BY <2>2, <2>3 DEF ReportInv, TimelineCausal
<1> QED
  BY <1>5, <1>6, <1>7, <1>8, <1>9 DEF ReportInv

(* Steps of the goroutines that deliver nothing keep the report's facts.     *)
LEMMA GoroutineReport ==
  ASSUME CycleInv, ReportInv,
         \/ \E p \in Profiles : Poll(p)
         \/ \E c \in Clients : Await(c)
         \/ \E m \in Method : ClosePublication(m)
         \/ Refresh \/ RefreshFails
  PROVE  ReportInv'
<1>1. TypeOK /\ Unstarted /\ StapleOrder /\ ReleasedByEvidence
  BY DEF CycleInv
<1> USE Bounds
<1>2. HarnessResult \in Result /\ HarnessResult.obs = "ERROR" /\ HarnessResult.at = 0 /\ ~HarnessResult.met
  BY DEF HarnessResult, Result, Observation
<1>3. \A p \in Profiles : Observable(p) \subseteq Observation
  BY DEF Observable
<1>4. clock \in Time /\ clock # 0
  BY <1>1 DEF TypeOK, ReportInv, ClockOrder
<1>5. ASSUME NEW p \in Profiles, Attempt(p) PROVE ReportInv'
  <2>1. PICK obs \in Observable(p) :
          LET n == poll[p].attempts + 1 IN
            IF obs \in After[p] \/ AttemptsExhausted(n)
            THEN Deliver(p, [obs |-> obs, met |-> obs \in After[p], at |-> clock])
            ELSE /\ poll' = [poll EXCEPT ![p].attempts = n, ![p].last = obs]
                 /\ UNCHANGED result
    BY <1>5 DEF Attempt
  <2>2. CASE obs \in After[p] \/ AttemptsExhausted(poll[p].attempts + 1)
    <3> DEFINE r == [obs |-> obs, met |-> obs \in After[p], at |-> clock]
    <3>1. r \in Result /\ r.obs # "NONE" /\ r.at = clock /\ (r.met => r.obs \in After[p])
      <4> DEFINE met == obs \in After[p]
      <4>1. met \in BOOLEAN /\ (met => obs \in After[p])
        OBVIOUS
      <4> HIDE DEF met
      <4> QED
        BY <1>3, <1>4, <4>1 DEF Result, Observation
    <3>2. Deliver(p, r)
      BY <2>1, <2>2
    <3> HIDE DEF r
    <3> QED
      BY <1>4, <1>5, <3>1, <3>2, DeliverReport DEF Attempt
  <2>3. CASE ~(obs \in After[p] \/ AttemptsExhausted(poll[p].attempts + 1))
    <3>1. /\ \A q \in Profiles : poll'[q].st = poll[q].st
          /\ result' = result
          /\ UNCHANGED <<pc, clock, timeline, armed, barrier, refresh, stapleErr, report>>
      BY <1>1, <1>5, <2>1, <2>3 DEF Attempt, TypeOK, Poller
    <3>2. pc = "observe"
      BY <1>1, <1>5, AtWork DEF Attempt
    <3>3. JoinOrder' /\ VerdictOrder' /\ ValidComplete'
      BY <3>1, <3>2, ObserveFrame DEF ReportInv, JoinOrder
    <3>4. ShareOrder' /\ ResultOrder' /\ ClockOrder' /\ TimelineCausal'
      BY <3>1 DEF ReportInv, ShareOrder, ResultOrder, ClockOrder, TimelineCausal
    <3> QED
      BY <3>3, <3>4 DEF ReportInv
  <2> QED
    BY <2>2, <2>3
<1>6. ASSUME NEW p \in Profiles, PollExhausted(p) PROVE ReportInv'
  <2> DEFINE r == [obs |-> poll[p].last, met |-> FALSE, at |-> clock]
  <2>1. poll[p].last \in Observation
    BY <1>1 DEF TypeOK, Poller
  <2>2. r \in Result /\ r.obs # "NONE" /\ r.at = clock /\ ~r.met
    BY <1>4, <2>1 DEF Result, Observation
  <2>3. Deliver(p, r)
    BY <1>6 DEF PollExhausted
  <2> HIDE DEF r
  <2> QED
    BY <1>4, <1>6, <2>2, <2>3, DeliverReport DEF PollExhausted
<1>7. ASSUME NEW p \in Profiles, PollCancelled(p) PROVE ReportInv'
  BY <1>2, <1>7, DeliverReport DEF PollCancelled
<1>8. ASSUME NEW c \in Clients, AwaitFails(c) PROVE ReportInv'
  BY <1>2, <1>8, DeliverReport, Groups DEF AwaitFails
<1>9. ASSUME NEW c \in Clients, AwaitEvidence(c) PROVE ReportInv'
  <2>1. /\ \A q \in Profiles : poll'[q].st = poll[q].st \/ poll'[q].st = "polling"
        /\ UNCHANGED <<pc, clock, timeline, armed, barrier, result, refresh, stapleErr, report>>
    BY <1>1, <1>9, Groups DEF AwaitEvidence, TypeOK, Poller
  <2>2. pc = "observe"
    BY <1>1, <1>9, AtWork, Groups DEF AwaitEvidence
  <2>3. JoinOrder' /\ VerdictOrder' /\ ValidComplete'
    BY <2>1, <2>2, ObserveFrame DEF ReportInv, JoinOrder
  <2>4. ShareOrder' /\ ResultOrder' /\ ClockOrder' /\ TimelineCausal'
    BY <2>1 DEF ReportInv, ShareOrder, ResultOrder, ClockOrder, TimelineCausal
  <2> QED
    BY <2>3, <2>4 DEF ReportInv
<1>10. ASSUME NEW m \in Method, ClosePublication(m) PROVE ReportInv'
  <2>1. /\ pc = "observe" /\ barrier[PublicationOf(m)].st = "open"
        /\ UNCHANGED <<pc, clock, timeline, armed, poll, result, refresh, stapleErr, report>>
    BY <1>10 DEF ClosePublication
  <2>2. \A d \in Dependency : d # PublicationOf(m) => barrier'[d] = barrier[d]
    BY <1>1, <1>10 DEF ClosePublication, TypeOK
  <2>3. \/ barrier'[PublicationOf(m)].at = 0
        \/ \E p \in Profiles : barrier'[PublicationOf(m)].at = result[p].at
    <3>1. PublicationOf(m) \in Dependency
      BY Dependencies
    <3>2. CASE Confirmed(m) # {}
      <4>1. Confirmed(m) \subseteq Profiles
        BY Groups DEF Confirmed
      <4>2. Earliest(Confirmed(m)) \in {result[p].at : p \in Confirmed(m)}
        BY <1>1, <3>2, <4>1, EarliestType
      <4>3. barrier'[PublicationOf(m)].at = Earliest(Confirmed(m))
        BY <1>1, <1>10, <3>1, <3>2 DEF ClosePublication, TypeOK
      <4> QED
        BY <4>1, <4>2, <4>3
    <3>3. CASE Confirmed(m) = {}
      BY <1>1, <1>10, <3>1, <3>3 DEF ClosePublication, TypeOK
    <3> QED
      BY <3>2, <3>3
  <2>4. JoinOrder' /\ VerdictOrder' /\ ValidComplete'
    BY <2>1, ObserveFrame DEF ReportInv, JoinOrder
  <2>5. ShareOrder'
    BY <2>1, <2>2, Dependencies DEF ReportInv, ShareOrder, Dependency
  <2>6. ResultOrder'
    BY <2>1 DEF ReportInv, ResultOrder
  <2>7. ClockOrder'
    <3>1. \A p \in Profiles : result[p].at <= clock /\ (result[p].at # 0 => timeline.ack <= result[p].at)
      BY DEF ReportInv, ClockOrder, TimelineCausal
    <3>2. \A d \in Dependency : barrier'[d].at <= clock /\ (barrier'[d].at # 0 => timeline.ack <= barrier'[d].at)
      BY <1>1, <2>2, <2>3, <3>1, Times DEF ReportInv, ClockOrder
    <3> QED
      BY <2>1, <3>2 DEF ReportInv, ClockOrder
  <2>8. TimelineCausal'
    <3>1. \A c \in Clients : \A i \in 1..Len(Deps[c]) :
            result[c].at # 0 => Deps[c][i] # PublicationOf(m) /\ Deps[c][i] \in Dependency
      BY <1>1, <2>1, Dependencies DEF ReleasedByEvidence, Released
    <3> QED
      BY <2>1, <2>2, <3>1 DEF ReportInv, TimelineCausal
  <2> QED
    BY <2>4, <2>5, <2>6, <2>7, <2>8 DEF ReportInv
<1>11. ASSUME RefreshFetch \/ RefreshServe \/ RefreshFails \/ RefreshShare PROVE ReportInv'
  <2>1. /\ UNCHANGED <<pc, clock, timeline, armed, barrier, poll, result, report>>
        /\ refresh.st \in {"polling", "serving", "sharing"} /\ refresh'.st \in {"serving", "sharing", "closing"}
    BY <1>1, <1>11 DEF RefreshFetch, RefreshServe, RefreshFails, RefreshShare, TypeOK, Refresher
  <2>2. pc = "observe"
    BY <1>1, <2>1, AtWork
  <2>3. JoinOrder' /\ VerdictOrder' /\ ValidComplete'
    BY <2>1, <2>2, ObserveFrame DEF ReportInv, JoinOrder
  <2>4. ShareOrder'
    <3>1. timeline.ack <= clock
      BY DEF ReportInv, ClockOrder
    <3>2. barrier["staple_published"].st = "open"
      BY <1>1, <2>1 DEF StapleOrder
    <3>3. CASE RefreshFetch
      BY <1>1, <1>4, <2>1, <3>1, <3>2, <3>3, Times DEF RefreshFetch, TypeOK, Refresher, ReportInv, ShareOrder
    <3>4. CASE RefreshServe
      BY <1>1, <1>4, <2>1, <3>1, <3>2, <3>4, Times DEF RefreshServe, TypeOK, Refresher, ReportInv, ShareOrder
    <3>5. CASE RefreshFails
      BY <1>1, <1>4, <2>1, <3>1, <3>2, <3>5, Times DEF RefreshFails, TypeOK, Refresher, ReportInv, ShareOrder
    <3>6. CASE RefreshShare
      BY <1>1, <1>4, <2>1, <3>1, <3>2, <3>6, Times DEF RefreshShare, TypeOK, Refresher, ReportInv, ShareOrder
    <3> QED
      BY <1>11, <3>3, <3>4, <3>5, <3>6
  <2>5. ResultOrder' /\ ClockOrder' /\ TimelineCausal'
    BY <2>1 DEF ReportInv, ResultOrder, ClockOrder, TimelineCausal
  <2> QED
    BY <2>3, <2>4, <2>5 DEF ReportInv
<1>12. ASSUME RefreshClose PROVE ReportInv'
  <2>1. /\ UNCHANGED <<pc, clock, timeline, armed, poll, result, stapleErr, report>>
        /\ refresh.st = "closing" /\ refresh'.st = "done" /\ refresh'.err = refresh.err
        /\ refresh'.source = refresh.source /\ refresh'.at = refresh.at
    BY <1>1, <1>12 DEF RefreshClose, TypeOK, Refresher
  <2>2. /\ barrier["staple_published"].st = "open"
        /\ \A d \in Dependency : d # "staple_published" => barrier'[d] = barrier[d]
        /\ barrier'["staple_published"] =
             IF refresh.err THEN [st |-> "failed", at |-> 0] ELSE [st |-> "satisfied", at |-> refresh.at]
    BY <1>1, <1>12, <2>1 DEF RefreshClose, StapleOrder, TypeOK, Dependency
  <2>3. pc = "observe"
    BY <1>1, <2>1, AtWork
  <2>4. JoinOrder' /\ VerdictOrder' /\ ValidComplete'
    BY <2>1, <2>3, ObserveFrame DEF ReportInv, JoinOrder
  <2>5. ShareOrder'
    BY <2>1, <2>2 DEF ReportInv, ShareOrder
  <2>6. ResultOrder'
    BY <2>1 DEF ReportInv, ResultOrder
  <2>7. ClockOrder'
    <3>1. refresh.at # 0 => timeline.ack <= refresh.at /\ refresh.at <= clock
      BY <1>1, Times DEF ReportInv, ShareOrder
    <3>2. \A d \in Dependency : barrier'[d].at <= clock /\ (barrier'[d].at # 0 => timeline.ack <= barrier'[d].at)
      BY <1>1, <2>2, <3>1, Times DEF ReportInv, ClockOrder
    <3> QED
      BY <2>1, <3>2 DEF ReportInv, ClockOrder
  <2>8. TimelineCausal'
    <3>1. \A c \in Clients : \A i \in 1..Len(Deps[c]) :
            result[c].at # 0 => Deps[c][i] # "staple_published" /\ Deps[c][i] \in Dependency
      BY <1>1, <2>2, Dependencies DEF ReleasedByEvidence, Released
    <3> QED
      BY <2>1, <2>2, <3>1 DEF ReportInv, TimelineCausal
  <2> QED
    BY <2>4, <2>5, <2>6, <2>7, <2>8 DEF ReportInv
<1> QED
  BY <1>5, <1>6, <1>7, <1>8, <1>9, <1>10, <1>11, <1>12 DEF Poll, Await, Refresh

(* The steps of the main goroutine, of the preflights and of the world keep  *)
(* the report's facts.                                                       *)
LEMMA MainReport ==
  ASSUME CycleInv, ReportInv,
         \/ Main \/ Tick \/ Cancel
         \/ \E p \in Profiles : Preflight(p)
         \/ \E m \in Method : PublishStatus(m)
  PROVE  ReportInv'
<1>1. TypeOK /\ Unstarted /\ GroupOrder /\ StapleOrder /\ CleanupOrder
  BY DEF CycleInv
<1>2. clock \in Nat /\ clock >= clock
  BY <1>1, Times
<1>3. pc \notin {"unwind", "returned"} =>
        report.outcome = "none" /\ ~report.valid /\ report.phase # "complete" /\ report.cleanup = "none"
  BY DEF ReportInv, VerdictOrder
<1>4. ASSUME pc \in Early, UNCHANGED <<clock, timeline, observers>>,
             pc' \in Early \cup {"unwind", "returned"}, report \in CycleReport,
             \E ph \in CyclePhase \ {"complete"}, o \in {"none", "error"} :
               /\ report' = [report EXCEPT !.phase = ph, !.outcome = o]
               /\ pc' \in Early => o = "none"
      PROVE  ReportInv'
  <2>1. /\ report'.outcome # "ok" /\ ~report'.valid /\ report'.phase # "complete"
        /\ report'.cleanup = "none"
        /\ pc' \in Early => report'.outcome = "none"
    BY <1>3, <1>4 DEF CycleReport, Early
  <2> QED
    BY <1>1, <1>2, <1>4, <2>1, EarlyFrame, QuietFrame DEF ReportInv
<1>5. report \in CycleReport /\ timeline \in Timeline
  BY <1>1 DEF TypeOK
<1>6. \A from, to, ph : Advance(from, to, ph) /\ from \in Early =>
        report' = [report EXCEPT !.phase = ph, !.outcome = "none"] /\ pc = from /\ pc' = to
  BY <1>3, <1>5 DEF Advance, Early, CycleReport
<1>7. CASE \/ IssueCanary \/ PersistArtifacts \/ FetchStaple \/ StartCanary \/ PreflightPasses
  <2>1. /\ pc \in Early /\ pc' \in Early /\ UNCHANGED <<clock, timeline, observers>>
        /\ \E ph \in CyclePhase \ {"complete"} : report' = [report EXCEPT !.phase = ph, !.outcome = "none"]
    BY <1>6, <1>7
    DEF IssueCanary, PersistArtifacts, FetchStaple, StartCanary, PreflightPasses, Early, CyclePhase, Advance
  <2> QED
    BY <1>4, <1>5, <2>1
<1>8. CASE IssueFails \/ SetupFails \/ PreflightFails \/ PreflightStale \/ RevokeFails
  <2>1. /\ pc \in Early /\ pc' \in {"unwind", "returned"} /\ UNCHANGED <<clock, timeline, observers>>
        /\ \E ph \in CyclePhase \ {"complete"} : report' = [report EXCEPT !.phase = ph, !.outcome = "error"]
    <3>1. CASE IssueFails
      <4>1. report.phase = "issue"
        BY <1>1, <3>1 DEF IssueFails, CleanupOrder
      <4> QED
        BY <1>5, <3>1, <4>1 DEF IssueFails, Early, CyclePhase, CycleReport
    <3>2. CASE SetupFails \/ PreflightFails \/ PreflightStale \/ RevokeFails
      BY <3>2 DEF SetupFails, PreflightFails, PreflightStale, RevokeFails, Fail, Early, CyclePhase
    <3> QED
      BY <1>8, <3>1, <3>2
  <2>2. pc' \notin Early
    BY <2>1 DEF Early
  <2> QED
    BY <1>4, <1>5, <2>1, <2>2
<1>9. CASE CheckAge
  <2>1. /\ pc = "age" /\ pc' = "revoke" /\ clock' = clock /\ UNCHANGED observers
        /\ timeline' = [timeline EXCEPT !.req = clock]
        /\ report' = [report EXCEPT !.phase = "revoke"]
    BY <1>9 DEF CheckAge, Advance
  <2>2. pc \in Early /\ pc' \in Early
    BY <2>1 DEF Early
  <2>3. /\ report'.outcome = "none" /\ ~report'.valid /\ report'.phase = "revoke" /\ report'.cleanup = "none"
    BY <1>3, <1>5, <2>1 DEF CycleReport
  <2>4. JoinOrder' /\ VerdictOrder' /\ ValidComplete'
    BY <1>1, <2>1, <2>2, <2>3, EarlyFrame
  <2>5. /\ timeline.ack = 0 /\ timeline'.req = clock /\ timeline'.ack = 0
        /\ timeline'.ocsp = timeline.ocsp /\ timeline'.crl = timeline.crl
        /\ timeline'.source = timeline.source /\ timeline'.staple = timeline.staple
    BY <1>5, <2>1, <2>2 DEF ReportInv, JoinOrder, Timeline
  <2>6. UNCHANGED <<barrier, poll, result, refresh, stapleErr>>
    BY <2>1 DEF observers
  <2>7. ShareOrder' /\ ResultOrder'
    BY <2>1, <2>5, <2>6 DEF ReportInv, ShareOrder, ResultOrder
  <2>8. ClockOrder' /\ TimelineCausal'
    BY <1>2, <2>1, <2>5, <2>6 DEF ReportInv, ClockOrder, TimelineCausal
  <2> QED
    BY <2>4, <2>7, <2>8 DEF ReportInv
<1>10. CASE Revoke
  <2>1. /\ pc = "revoke" /\ pc' = "observe" /\ clock' = clock /\ ~armed' /\ pc \in Early
        /\ result' = result /\ stapleErr' = stapleErr
        /\ timeline' = [timeline EXCEPT !.ack = clock]
        /\ report' = [report EXCEPT !.phase = "observe"]
    BY <1>10 DEF Revoke, Advance, Early
  <2>2. /\ \A q \in Profiles : result[q] = NoResult /\ poll[q] = Idle
        /\ \A d \in Dependency : barrier[d] = Open
        /\ refresh.st = "off" /\ ~refresh.err
    BY <1>1, <2>1 DEF Unstarted
  <2>3. \A q \in Profiles : poll'[q].st \in {"waiting", "polling"}
    BY <1>10, <2>2 DEF Revoke, Idle
  <2>4. /\ refresh'.st = (IF Stapling = "on" THEN "polling" ELSE "off")
        /\ refresh'.source = 0 /\ refresh'.at = 0
    BY <1>1, <1>10, <2>2 DEF Revoke, TypeOK, Refresher, ReportInv, ShareOrder
  <2>5. /\ \A d \in Dependency : barrier'[d].at \in {0, clock}
        /\ barrier'["staple_published"].st # "satisfied"
    BY <1>1, <1>10, <2>2 DEF Revoke, TypeOK, Dependency, Open
  <2>6. /\ timeline'.ack = clock /\ timeline'.req = timeline.req
        /\ timeline'.ocsp = 0 /\ timeline'.crl = 0 /\ timeline'.source = 0 /\ timeline'.staple = 0
    BY <1>5, <2>1 DEF ReportInv, JoinOrder, Timeline
  <2>7. NoResult.at = 0 /\ NoResult.obs = "NONE" /\ ~NoResult.met
    BY DEF NoResult
  <2>8. JoinOrder'
    BY <2>1, <2>3, <2>4 DEF JoinOrder, Early, Ended
  <2>9. ShareOrder'
    BY <2>4, <2>5 DEF ShareOrder
  <2>10. ResultOrder'
    BY <2>1, <2>2, <2>3, <2>7 DEF ResultOrder
  <2>11. ClockOrder'
    BY <1>2, <2>1, <2>2, <2>5, <2>6, <2>7 DEF ReportInv, ClockOrder
  <2>12. /\ report'.outcome = "none" /\ ~report'.valid /\ report'.phase = "observe" /\ report'.cleanup = "none"
    BY <1>3, <1>5, <2>1 DEF CycleReport
  <2>13. VerdictOrder' /\ ValidComplete'
    BY <2>1, <2>12 DEF VerdictOrder, ValidComplete
  <2>14. TimelineCausal'
    <3>1. timeline.req <= clock
      BY DEF ReportInv, ClockOrder
    <3>2. \A p \in Profiles : result'[p].at = 0
      BY <2>1, <2>2, <2>7
    <3> QED
      BY <2>6, <3>1, <3>2, Groups DEF TimelineCausal
  <2> QED
    BY <2>8, <2>9, <2>10, <2>11, <2>13, <2>14 DEF ReportInv
<1>11. CASE Join
  <2>1. /\ pc = "observe" /\ pc' = "persist" /\ Joinable /\ timeline' = Boundaries
        /\ report' = [report EXCEPT !.phase = "persist_evidence"]
        /\ UNCHANGED <<clock, armed, barrier, poll, result, refresh, stapleErr>>
    BY <1>11 DEF Join, Advance, observers
  <2>2. \A p \in Profiles : poll[p].st = "done"
    <3>1. \A p \in OCSPOracles : poll[p].st = "done"
      BY <1>1, <2>1 DEF Joinable, GroupOrder, Method, OraclesOf
    <3>2. \A p \in CRLOracles : poll[p].st = "done"
      BY <1>1, <2>1 DEF Joinable, GroupOrder, Method, OraclesOf
    <3> QED
      BY <2>1, <3>1, <3>2 DEF Joinable, Profiles, Oracles
  <2>3. IF Stapling = "on" THEN refresh.st = "done" ELSE refresh.st = "off"
    <3>1. refresh.st # "off" <=> Stapling = "on"
      BY <2>1 DEF ReportInv, JoinOrder
    <3>2. Stapling = "on" => barrier["staple_published"].st # "open"
      BY <2>1 DEF Joinable
    <3>3. refresh.st \in {"off", "polling", "serving", "sharing", "closing", "done"}
      BY <1>1 DEF TypeOK, Refresher
    <3> QED
      BY <1>1, <3>1, <3>2, <3>3 DEF StapleOrder
  <2>4. /\ timeline'.req = timeline.req /\ timeline'.ack = timeline.ack
        /\ timeline'.ocsp \in {0, barrier["ocsp_published"].at}
        /\ timeline'.crl \in {0, barrier["crl_published"].at}
        /\ timeline'.source \in {0, refresh.source}
        /\ barrier["staple_published"].st = "satisfied" =>
             timeline'.source = refresh.source /\ timeline'.staple = barrier["staple_published"].at
        /\ barrier["staple_published"].st # "satisfied" => timeline'.staple = 0
    BY <1>5, <2>1 DEF Boundaries, SatisfiedAt, Timeline
  <2>5. barrier["staple_published"].st = "satisfied" => /\ refresh.st = "done" /\ ~refresh.err
                                                        /\ barrier["staple_published"].at = refresh.at
    BY DEF ReportInv, ShareOrder
  <2>6. JoinOrder'
    BY <2>1, <2>2, <2>3 DEF JoinOrder, Early, Ended
  <2>7. ShareOrder' /\ ResultOrder' /\ ClockOrder'
    BY <2>1, <2>4 DEF ReportInv, ShareOrder, ResultOrder, ClockOrder
  <2>8. VerdictOrder'
    <3>1. ~armed /\ ~report'.valid /\ report'.outcome = "none" /\ report'.phase = "persist_evidence"
          /\ report'.cleanup = "none"
      BY <1>3, <1>5, <2>1 DEF ReportInv, VerdictOrder, CycleReport
    <3>2. Stapling = "on" /\ stapleErr # "error" => timeline'.staple # 0
      BY <2>3, <2>4 DEF ReportInv, ShareOrder
    <3> QED
      BY <2>1, <3>1, <3>2 DEF VerdictOrder
  <2>9. ValidComplete'
    BY <2>1, <2>8 DEF VerdictOrder, ValidComplete
  <2>10. TimelineCausal'
    <3>1. \A d \in {"ocsp_published", "crl_published"} :
            barrier[d].at # 0 => timeline.ack <= barrier[d].at
      BY DEF ReportInv, ClockOrder, Dependency
    <3>2. refresh.source # 0 => timeline.ack <= refresh.source
      BY DEF ReportInv, ShareOrder
    <3>3. \A t \in {timeline'.ocsp, timeline'.crl, timeline'.source} : t # 0 => timeline'.ack <= t
      BY <2>4, <3>1, <3>2
    <3>4. timeline'.staple # 0 => timeline'.source # 0 /\ timeline'.source <= timeline'.staple
      BY <2>4, <2>5 DEF ReportInv, ShareOrder
    <3> QED
      BY <2>1, <2>4, <3>3, <3>4 DEF ReportInv, TimelineCausal
  <2> QED
    BY <2>6, <2>7, <2>8, <2>9, <2>10 DEF ReportInv
<1>12. CASE PersistEvidence \/ PersistFails \/ Evaluate \/ Unwind
  <2>1. UNCHANGED <<clock, timeline, observers>>
    BY <1>12 DEF PersistEvidence, PersistFails, Evaluate, Unwind
  <2>2. UNCHANGED <<barrier, poll, result, refresh, stapleErr>>
    BY <2>1 DEF observers
  <2>3. ShareOrder' /\ ResultOrder' /\ ClockOrder' /\ TimelineCausal'
    BY <1>1, <1>2, <2>1, QuietFrame
  <2>4. pc \in Ended /\ pc' \in Ended
    BY <1>12 DEF PersistEvidence, PersistFails, Evaluate, Unwind, Advance, Fail, Ended
  <2>5. JoinOrder'
    <3>1. pc' \in {"persist", "evaluate"} => pc \in {"persist", "evaluate"}
      BY <1>12 DEF PersistEvidence, PersistFails, Evaluate, Unwind, Advance, Fail
    <3> QED
      BY <2>1, <2>2, <2>4, <3>1 DEF ReportInv, JoinOrder, Early, Ended
  <2>6. CASE PersistEvidence
    <3>1. /\ pc = "persist" /\ pc' = "evaluate" /\ stapleErr # "error" /\ armed' = armed
          /\ report' = [report EXCEPT !.phase = "evaluate"]
      BY <2>6 DEF PersistEvidence, Advance
    <3>2. /\ report'.outcome = "none" /\ ~report'.valid /\ report'.phase = "evaluate" /\ report'.cleanup = "none"
      BY <1>3, <1>5, <3>1 DEF CycleReport
    <3>3. VerdictOrder' /\ ValidComplete'
      BY <2>1, <3>1, <3>2 DEF ReportInv, VerdictOrder, ValidComplete
    <3> QED
      BY <2>3, <2>5, <3>3 DEF ReportInv
  <2>7. CASE PersistFails
    <3>1. /\ pc = "persist" /\ pc' = "unwind"
          /\ \E ph \in CyclePhase \ {"complete"} : report' = [report EXCEPT !.phase = ph, !.outcome = "error"]
      BY <2>7 DEF PersistFails, Fail, CyclePhase
    <3>2. /\ report'.outcome = "error" /\ ~report'.valid /\ report'.phase # "complete" /\ report'.cleanup = "none"
      BY <1>3, <1>5, <3>1 DEF CycleReport
    <3>3. VerdictOrder' /\ ValidComplete'
      BY <3>1, <3>2 DEF VerdictOrder, ValidComplete
    <3> QED
      BY <2>3, <2>5, <3>3 DEF ReportInv
  <2>8. CASE Evaluate
    <3>1. /\ pc = "evaluate" /\ pc' = "unwind" /\ armed' = armed /\ cert' = cert
      BY <2>8 DEF Evaluate, world
    <3>2. /\ ~armed /\ cert = "revoked" /\ (Stapling = "on" => timeline.staple # 0)
          /\ \A p \in Profiles : poll[p].st = "done"
      BY <1>1, <3>1 DEF ReportInv, VerdictOrder, JoinOrder, CleanupOrder
    <3>3. CASE HarnessError
      <4>1. report' = [report EXCEPT !.outcome = "error"]
        BY <2>8, <3>3 DEF Evaluate
      <4>2. /\ report'.outcome = "error" /\ ~report'.valid /\ report'.phase # "complete" /\ report'.cleanup = "none"
        BY <1>3, <1>5, <3>1, <4>1 DEF CycleReport
      <4> QED
        BY <2>3, <2>5, <3>1, <4>2 DEF ReportInv, VerdictOrder, ValidComplete
    <3>4. CASE ~HarnessError
      <4>1. \A p \in Profiles : result[p].obs # "ERROR" /\ result[p].at # 0
        BY <3>2, <3>4 DEF HarnessError, ReportInv, ResultOrder
      <4>2. CASE \E p \in Profiles : Offends(p)
        <5>1. \E o \in {"policy_violation", "regression"} :
                report' = [report EXCEPT !.valid = TRUE, !.outcome = o]
          BY <2>8, <3>4, <4>2 DEF Evaluate
        <5>2. /\ report'.outcome # "ok" /\ report'.phase # "complete" /\ report'.cleanup = "none"
          BY <1>3, <1>5, <3>1, <5>1 DEF CycleReport
        <5>3. VerdictOrder'
          BY <2>2, <3>1, <3>2, <5>2 DEF VerdictOrder
        <5>4. ValidComplete'
          BY <2>1, <2>2, <3>1, <3>2, <4>1, <5>2 DEF ValidComplete
        <5> QED
          BY <2>3, <2>5, <5>3, <5>4 DEF ReportInv
      <4>3. CASE \A p \in Profiles : ~Offends(p)
        <5>1. report' = [report EXCEPT !.valid = TRUE, !.outcome = "ok", !.phase = "complete"]
          BY <2>8, <3>4, <4>3 DEF Evaluate
        <5>2. /\ report'.outcome = "ok" /\ report'.phase = "complete" /\ report'.cleanup = "none"
          BY <1>3, <1>5, <3>1, <5>1 DEF CycleReport
        <5>3. \A p \in Profiles : /\ result[p].obs \in After[p]
                                  /\ Enforce => result[p].obs \in Policy[p]
          BY <4>3 DEF Offends, ReportInv, ResultOrder
        <5>4. VerdictOrder'
          BY <2>2, <3>1, <3>2, <5>2 DEF VerdictOrder
        <5>5. ValidComplete'
          BY <2>1, <2>2, <3>1, <3>2, <4>1, <5>2, <5>3 DEF ValidComplete
        <5> QED
          BY <2>3, <2>5, <5>4, <5>5 DEF ReportInv
      <4> QED
        BY <4>2, <4>3
    <3> QED
      BY <3>3, <3>4
  <2>9. CASE Unwind
    <3>1. pc = "unwind" /\ pc' = "returned" /\ armed' = armed
      BY <2>9 DEF Unwind
    <3>2. CASE ~armed
      <4>1. report' = report /\ cert' = cert
        BY <2>9, <3>2 DEF Unwind
      <4> QED
        BY <2>1, <2>2, <2>3, <2>5, <3>1, <4>1 DEF ReportInv, VerdictOrder, ValidComplete
    <3>3. CASE armed
      <4>1. ~report.valid /\ report.outcome # "ok" /\ report.phase # "complete"
        BY <3>3 DEF ReportInv, VerdictOrder, ValidComplete
      <4>2. \E cl \in {"revoked", "failed"} : report' = [report EXCEPT !.cleanup = cl]
        BY <2>9, <3>3 DEF Unwind
      <4>3. ~report'.valid /\ report'.outcome # "ok" /\ report'.phase # "complete"
        BY <1>5, <4>1, <4>2 DEF CycleReport
      <4> QED
        BY <2>3, <2>5, <3>1, <4>3 DEF ReportInv, VerdictOrder, ValidComplete
    <3> QED
      BY <3>2, <3>3
  <2> QED
    BY <1>12, <2>6, <2>7, <2>8, <2>9
<1>13. CASE \/ Tick \/ Cancel \/ (\E p \in Profiles : Preflight(p)) \/ (\E m \in Method : PublishStatus(m))
  <2>1. /\ UNCHANGED <<pc, armed, timeline, observers, report>> /\ cert' = cert
        /\ clock' \in {clock, clock + 1}
    BY <1>13 DEF Tick, Cancel, Preflight, PreflightStart, PreflightObserve, PublishStatus, world
  <2>2. clock' \in Nat /\ clock' >= clock
    BY <1>2, <2>1
  <2>3. ShareOrder' /\ ResultOrder' /\ ClockOrder' /\ TimelineCausal'
    BY <1>1, <2>1, <2>2, QuietFrame
  <2>4. JoinOrder' /\ VerdictOrder' /\ ValidComplete'
    BY <2>1 DEF observers, ReportInv, JoinOrder, VerdictOrder, ValidComplete
  <2> QED
    BY <2>3, <2>4 DEF ReportInv
<1> QED
  BY <1>7, <1>8, <1>9, <1>10, <1>11, <1>12, <1>13 DEF Main

(* Stuttering and every step preserve the facts about the report.            *)
LEMMA NextReportInv == CycleInv /\ ReportInv /\ [Next]_vars => ReportInv'
<1> SUFFICES ASSUME CycleInv, ReportInv, [Next]_vars PROVE ReportInv'
  OBVIOUS
<1>1. CASE Next
  BY <1>1, MainReport, GoroutineReport DEF Next
<1>2. CASE UNCHANGED vars
  <2>1. /\ UNCHANGED <<pc, clock, cert, armed, timeline, report>>
        /\ UNCHANGED <<barrier, poll, result, refresh, stapleErr>>
    BY <1>2 DEF vars, world, observers
  <2>2. JoinOrder' /\ ShareOrder' /\ ResultOrder'
    BY <2>1 DEF ReportInv, JoinOrder, ShareOrder, ResultOrder
  <2>3. ClockOrder' /\ VerdictOrder' /\ TimelineCausal' /\ ValidComplete'
    BY <2>1 DEF ReportInv, ClockOrder, VerdictOrder, TimelineCausal, ValidComplete
  <2> QED
    BY <2>2, <2>3 DEF ReportInv
<1> QED
  BY <1>1, <1>2

(* Initially nothing is reported.                                            *)
LEMMA InitReportInv == Init => ReportInv
<1> SUFFICES ASSUME Init PROVE ReportInv
  OBVIOUS
<1>1. /\ \A p \in Profiles : /\ poll[p].st = "off" /\ ~result[p].met
                             /\ result[p].obs = "NONE" /\ result[p].at = 0
      /\ \A d \in Dependency : barrier[d].st = "open" /\ barrier[d].at = 0
      /\ refresh.st = "off" /\ refresh.source = 0 /\ refresh.at = 0
  BY DEF Init, Idle, NoResult, Open
<1>2. JoinOrder /\ ShareOrder /\ ResultOrder
  BY <1>1 DEF Init, JoinOrder, ShareOrder, ResultOrder, Early, Ended, Dependency
<1>3. ClockOrder /\ VerdictOrder /\ ValidComplete
  BY <1>1 DEF Init, ClockOrder, VerdictOrder, ValidComplete
<1>4. TimelineCausal
  BY <1>1, Groups DEF Init, TimelineCausal
<1> QED
  BY <1>2, <1>3, <1>4 DEF ReportInv

(* The times, the joined goroutines and the verdict of every report fit      *)
(* together, for any profiles, contracts and dependencies (RunOnce).         *)
THEOREM ReportInvariance == Spec => []ReportInv
<1>1. Spec => [](CycleInv /\ ReportInv)
  BY InitCycleInv, NextCycleInv, InitReportInv, NextReportInv, PTL DEF Spec
<1> QED
  BY <1>1, PTL

(* Every latency that a report shows is non-negative.                        *)
THEOREM TimelineInCausalOrder == Spec => []TimelineCausal
<1>1. ReportInv => TimelineCausal
  BY DEF ReportInv
<1> QED
  BY <1>1, ReportInvariance, PTL

(* RunOnce returns only when every goroutine it started has ended, and reads *)
(* stapleErr after it was written.                                           *)
THEOREM EveryGoroutineJoined == Spec => []AllJoined
<1>1. ReportInv => AllJoined
  BY DEF ReportInv, JoinOrder, ShareOrder, AllJoined, Ended
<1> QED
  BY <1>1, ReportInvariance, PTL

(* A report marked valid is complete, and an "ok" one met every contract.    *)
THEOREM ValidMeansComplete == Spec => []ValidComplete
<1>1. ReportInv => ValidComplete
  BY DEF ReportInv
<1> QED
  BY <1>1, ReportInvariance, PTL
-----------------------------------------------------------------------------
(* Nobody waits in vain                                                      *)

(* An oracle that has something delivered is done.                           *)
LEMMA PollService ==
  ASSUME CycleInv, ServiceOrder, [Next]_vars, pc = "observe", pc' = "observe"
  PROVE  \A p \in Oracles : poll'[p].st \in {"polling", "done"}
<1> SUFFICES ASSUME NEW p \in Oracles PROVE poll'[p].st \in {"polling", "done"}
  OBVIOUS
<1>1. poll \in [Profiles -> Poller] /\ p \in Profiles /\ p \notin Clients
  BY Configured DEF CycleInv, TypeOK, Profiles
<1>2. poll[p].st \in {"polling", "done"}
  BY DEF ServiceOrder
<1>3. ASSUME UNCHANGED poll PROVE poll'[p].st \in {"polling", "done"}
  BY <1>2, <1>3
<1>4. ASSUME NEW q \in Profiles, NEW r, Deliver(q, r) PROVE poll'[p].st \in {"polling", "done"}
  BY <1>1, <1>2, <1>4 DEF Deliver, Finished, Idle
<1>5. ASSUME NEW q \in Profiles, Preflight(q) \/ Poll(q) PROVE poll'[p].st \in {"polling", "done"}
  <2>1. CASE Preflight(q)
    BY <1>3, <2>1 DEF Preflight, PreflightStart, PreflightObserve, observers
  <2>2. CASE Attempt(q)
    <3>1. PICK obs \in Observable(q) :
            \/ Deliver(q, [obs |-> obs, met |-> obs \in After[q], at |-> clock])
            \/ poll' = [poll EXCEPT ![q].attempts = poll[q].attempts + 1, ![q].last = obs]
      BY <2>2 DEF Attempt
    <3> QED
      BY <1>1, <1>2, <1>4, <3>1 DEF Poller
  <2>3. CASE PollExhausted(q) \/ PollCancelled(q)
    BY <1>4, <2>3 DEF PollExhausted, PollCancelled
  <2> QED
    BY <1>5, <2>1, <2>2, <2>3 DEF Poll
<1>6. ASSUME NEW c \in Clients, Await(c) PROVE poll'[p].st \in {"polling", "done"}
  <2>1. CASE AwaitEvidence(c)
    BY <1>1, <1>2, <2>1 DEF AwaitEvidence, Poller
  <2>2. CASE AwaitFails(c)
    BY <1>4, <2>2, Groups DEF AwaitFails
  <2> QED
    BY <1>6, <2>1, <2>2 DEF Await
<1>7. ASSUME Main PROVE poll'[p].st \in {"polling", "done"}
  BY <1>3, <1>7
  DEF Main, IssueCanary, IssueFails, PersistArtifacts, FetchStaple, StartCanary, SetupFails,
      PreflightPasses, PreflightFails, CheckAge, PreflightStale, Revoke, RevokeFails,
      Join, PersistEvidence, PersistFails, Evaluate, Unwind, Advance, Fail, observers
<1>8. ASSUME NEW m \in Method, ClosePublication(m) \/ PublishStatus(m)
      PROVE  poll'[p].st \in {"polling", "done"}
  BY <1>3, <1>8 DEF ClosePublication, PublishStatus, observers
<1>9. ASSUME Refresh \/ RefreshFails \/ Tick \/ Cancel \/ UNCHANGED vars
      PROVE  poll'[p].st \in {"polling", "done"}
  BY <1>3, <1>9
  DEF Refresh, RefreshFetch, RefreshServe, RefreshShare, RefreshClose, RefreshFails, Tick, Cancel,
      vars, observers
<1> QED
  BY <1>5, <1>6, <1>7, <1>8, <1>9 DEF Next

(* The acknowledgement stays, and the refresher leaves no barrier open.      *)
LEMMA BarrierService ==
  ASSUME CycleInv, ServiceOrder, [Next]_vars, pc = "observe", pc' = "observe"
  PROVE  /\ barrier'["issuer_ack"].st = "satisfied"
         /\ barrier'["staple_published"].st = "open" => Refreshing'
<1>1. barrier \in [Dependency -> Barrier] /\ refresh \in Refresher
  BY DEF CycleInv, TypeOK
<1>2. /\ barrier["issuer_ack"].st = "satisfied"
      /\ barrier["staple_published"].st = "open" => Refreshing
      /\ "issuer_ack" \in Dependency /\ "staple_published" \in Dependency
  BY DEF ServiceOrder, Dependency
<1> DEFINE Kept == /\ barrier'["issuer_ack"].st = "satisfied"
                   /\ barrier'["staple_published"].st = "open" => Refreshing'
<1>3. ASSUME UNCHANGED <<barrier, refresh>> PROVE Kept
  BY <1>2, <1>3 DEF Refreshing
<1>4. ASSUME NEW m \in Method, ClosePublication(m) \/ PublishStatus(m) PROVE Kept
  <2>1. CASE ClosePublication(m)
    <3>1. UNCHANGED refresh
      BY <2>1 DEF ClosePublication
    <3>2. barrier'["issuer_ack"] = barrier["issuer_ack"]
          /\ barrier'["staple_published"] = barrier["staple_published"]
      BY <1>1, <1>2, <2>1, Dependencies DEF ClosePublication
    <3> QED
      BY <1>2, <3>1, <3>2 DEF Refreshing
  <2>2. CASE PublishStatus(m)
    BY <1>3, <2>2 DEF PublishStatus, observers
  <2> QED
    BY <1>4, <2>1, <2>2
<1>5. ASSUME Refresh \/ RefreshFails PROVE Kept
  <2>1. CASE RefreshClose
    BY <1>1, <1>2, <2>1 DEF RefreshClose
  <2>2. CASE RefreshFetch \/ RefreshServe \/ RefreshShare \/ RefreshFails
    <3>1. UNCHANGED barrier /\ Refreshing'
      BY <1>1, <2>2 DEF RefreshFetch, RefreshServe, RefreshShare, RefreshFails, Refreshing, Refresher
    <3> QED
      BY <1>2, <3>1
  <2> QED
    BY <1>5, <2>1, <2>2 DEF Refresh
<1>6. ASSUME NEW q \in Profiles, Preflight(q) \/ Poll(q) PROVE Kept
  BY <1>3, <1>6
  DEF Preflight, PreflightStart, PreflightObserve, Poll, Attempt, PollExhausted, PollCancelled, observers
<1>7. ASSUME NEW c \in Clients, Await(c) PROVE Kept
  BY <1>3, <1>7 DEF Await, AwaitEvidence, AwaitFails
<1>8. ASSUME Main \/ Tick \/ Cancel \/ UNCHANGED vars PROVE Kept
  BY <1>3, <1>8
  DEF Main, IssueCanary, IssueFails, PersistArtifacts, FetchStaple, StartCanary, SetupFails,
      PreflightPasses, PreflightFails, CheckAge, PreflightStale, Revoke, RevokeFails,
      Join, PersistEvidence, PersistFails, Evaluate, Unwind, Advance, Fail, Tick, Cancel,
      vars, observers
<1> QED
  BY <1>4, <1>5, <1>6, <1>7, <1>8 DEF Next

(* The revoke starts every oracle and, where a staple is to be published,    *)
(* the refresher; nothing else leads to the observation.                     *)
LEMMA RevokeService ==
  ASSUME CycleInv, [Next]_vars, pc # "observe", pc' = "observe"
  PROVE  ServiceOrder'
<1>1. Revoke
  BY DEF Next, vars, Main, Advance, Fail, IssueCanary, IssueFails, PersistArtifacts, FetchStaple,
         StartCanary, SetupFails, PreflightPasses, PreflightFails, CheckAge, PreflightStale,
         RevokeFails, Join, PersistEvidence, PersistFails, Evaluate, Unwind,
         Preflight, PreflightStart, PreflightObserve, Poll, Attempt, PollExhausted, PollCancelled,
         Await, AwaitEvidence, AwaitFails, ClosePublication, Refresh, RefreshFetch, RefreshServe,
         RefreshShare, RefreshClose, RefreshFails, Tick, Cancel, PublishStatus
<1>2. poll \in [Profiles -> Poller] /\ barrier \in [Dependency -> Barrier] /\ refresh \in Refresher
  BY DEF CycleInv, TypeOK
<1>3. \A p \in Oracles : poll'[p].st = "polling"
  BY <1>1, <1>2 DEF Revoke, Profiles, Poller
<1>4. barrier'["issuer_ack"].st = "satisfied"
  BY <1>1, <1>2 DEF Revoke, Dependency
<1>5. barrier'["staple_published"].st = "open" => Refreshing'
  BY <1>1, <1>2 DEF Revoke, Dependency, Refreshing, Refresher
<1> QED
  BY <1>3, <1>4, <1>5 DEF ServiceOrder

(* While the cycle observes, oracles wait for nobody and every open barrier  *)
(* has its goroutine.                                                        *)
THEOREM ServiceInvariance == Spec => []ServiceOrder
<1>1. Init => ServiceOrder
  BY DEF Init, ServiceOrder
<1>2. ASSUME CycleInv, ServiceOrder, [Next]_vars PROVE ServiceOrder'
  <2>1. CASE pc' # "observe"
    BY <2>1 DEF ServiceOrder
  <2>2. CASE pc = "observe" /\ pc' = "observe"
    BY <1>2, <2>2, PollService, BarrierService DEF ServiceOrder
  <2>3. CASE pc # "observe" /\ pc' = "observe"
    BY <1>2, <2>3, RevokeService
  <2> QED
    BY <2>1, <2>2, <2>3
<1> QED
  BY <1>1, <1>2, CycleInvariance, PTL DEF Spec

(* Every barrier a client waits for is closed, or is the task of goroutines  *)
(* that wait for nobody (waitForEvidence).                                   *)
THEOREM NobodyWaitsInVain == Spec => []EveryWaitServed
<1>1. CycleInv /\ ServiceOrder => EveryWaitServed
  <2> SUFFICES ASSUME CycleInv, ServiceOrder, pc = "observe", NEW c \in Clients,
                      poll[c].st = "waiting", Awaited(c).st = "open"
               PROVE  \/ \E m \in Method :
                           /\ Deps[c][poll[c].dep] = PublicationOf(m)
                           /\ \A p \in OraclesOf(m) : poll[p].st \in {"polling", "done"}
                      \/ Deps[c][poll[c].dep] = "staple_published" /\ Refreshing
    BY DEF EveryWaitServed
  <2> DEFINE d == Deps[c][poll[c].dep]
  <2>1. d \in Dependency
    BY Dependencies DEF CycleInv, WaitOrder
  <2>2. barrier[d].st = "open"
    BY DEF Awaited
  <2>3. d # "issuer_ack"
    BY <2>2 DEF ServiceOrder
  <2>4. \A m \in Method : \A p \in OraclesOf(m) : poll[p].st \in {"polling", "done"}
    BY DEF ServiceOrder, Method, OraclesOf, Oracles
  <2>5. CASE d \in {"ocsp_published", "crl_published"}
    BY <2>4, <2>5 DEF Method, PublicationOf
  <2>6. CASE d = "staple_published"
    BY <2>2, <2>6 DEF ServiceOrder
  <2> QED
    BY <2>1, <2>3, <2>5, <2>6 DEF Dependency
<1> QED
  BY <1>1, CycleInvariance, ServiceInvariance, PTL

(* From the revoke to the join somebody can go on, so that RunOnce returns   *)
(* when the scheduler is fair.                                               *)
THEOREM CycleNeverStuck == Spec => []NeverStuck
<1>1. CycleInv /\ ReportInv /\ ServiceOrder => NeverStuck
  <2> SUFFICES ASSUME CycleInv, ReportInv, ServiceOrder, pc = "observe",
                      \A p \in Profiles : poll[p].st # "polling", ~Refreshing,
                      \A c \in Clients : poll[c].st = "waiting" => Awaited(c).st = "open"
               PROVE  \/ Joinable
                      \/ \E m \in Method : /\ barrier[PublicationOf(m)].st = "open"
                                           /\ \A p \in OraclesOf(m) : poll[p].st = "done"
    BY DEF NeverStuck
  <2>1. \A m \in Method : \A p \in OraclesOf(m) : poll[p].st = "done"
    BY DEF ServiceOrder, Method, OraclesOf, Oracles, Profiles
  <2> SUFFICES ASSUME \A m \in Method : barrier[PublicationOf(m)].st # "open" PROVE Joinable
    BY <2>1
  <2>2. barrier["staple_published"].st # "open"
    BY DEF ServiceOrder
  <2>3. \A d \in Dependency : barrier[d].st # "open"
    BY <2>2 DEF ServiceOrder, Dependency, Method, PublicationOf
  <2>4. ASSUME NEW c \in Clients PROVE poll[c].st = "done"
    <3>1. Awaited(c).st # "open"
      BY <2>3, Dependencies DEF CycleInv, WaitOrder, Awaited
    <3>2. poll[c] \in Poller /\ poll[c].st # "off"
      BY Groups DEF CycleInv, TypeOK, ReportInv, JoinOrder
    <3> QED
      BY <3>1, <3>2, Groups DEF Poller
  <2> QED
    BY <2>2, <2>4 DEF Joinable
<1> QED
  BY <1>1, CycleInvariance, ReportInvariance, ServiceInvariance, PTL
-----------------------------------------------------------------------------
(* Nothing fails for want of a producer                                      *)

(* What has been delivered is final.                                         *)
LEMMA DeliveredStays ==
  ASSUME CycleInv, [Next]_vars, NEW p \in Profiles, poll[p].st = "done"
  PROVE  poll'[p].st = "done" /\ result'[p] = result[p]
<1> DEFINE Stays == poll'[p].st = "done" /\ result'[p] = result[p]
<1>1. poll \in [Profiles -> Poller] /\ result \in [Profiles -> Result]
  BY DEF CycleInv, TypeOK
<1>2. ASSUME UNCHANGED <<poll, result>> PROVE Stays
  BY <1>2
<1>3. ASSUME NEW q \in Profiles, q # p, NEW r, Deliver(q, r) PROVE Stays
  BY <1>1, <1>3 DEF Deliver
<1>4. ASSUME NEW q \in Profiles, Preflight(q) \/ Poll(q) PROVE Stays
  <2>1. CASE Preflight(q)
    BY <1>2, <2>1 DEF Preflight, PreflightStart, PreflightObserve, observers
  <2>2. CASE Attempt(q)
    <3>1. PICK obs \in Observable(q) :
            \/ Deliver(q, [obs |-> obs, met |-> obs \in After[q], at |-> clock])
            \/ /\ poll' = [poll EXCEPT ![q].attempts = poll[q].attempts + 1, ![q].last = obs]
               /\ UNCHANGED result
      BY <2>2 DEF Attempt
    <3>2. q # p
      BY <2>2 DEF Attempt
    <3> QED
      BY <1>1, <1>3, <3>1, <3>2
  <2>3. CASE PollExhausted(q) \/ PollCancelled(q)
    BY <1>3, <2>3 DEF PollExhausted, PollCancelled
  <2> QED
    BY <1>4, <2>1, <2>2, <2>3 DEF Poll
<1>5. ASSUME NEW c \in Clients, Await(c) PROVE Stays
  <2>1. c # p /\ c \in Profiles
    BY <1>5, Groups DEF Await, AwaitEvidence, AwaitFails
  <2>2. CASE AwaitEvidence(c)
    BY <1>1, <2>1, <2>2 DEF AwaitEvidence
  <2>3. CASE AwaitFails(c)
    BY <1>3, <2>1, <2>3 DEF AwaitFails
  <2> QED
    BY <1>5, <2>2, <2>3 DEF Await
<1>6. ~Revoke
  BY DEF Revoke, Advance, CycleInv, Unstarted, Early, Idle
<1>7. ASSUME Main PROVE Stays
  BY <1>2, <1>6, <1>7
  DEF Main, IssueCanary, IssueFails, PersistArtifacts, FetchStaple, StartCanary, SetupFails,
      PreflightPasses, PreflightFails, CheckAge, PreflightStale, RevokeFails,
      Join, PersistEvidence, PersistFails, Evaluate, Unwind, observers
<1>8. ASSUME NEW m \in Method, ClosePublication(m) \/ PublishStatus(m) PROVE Stays
  BY <1>2, <1>8 DEF ClosePublication, PublishStatus, observers
<1>9. ASSUME Refresh \/ RefreshFails \/ Tick \/ Cancel \/ UNCHANGED vars PROVE Stays
  BY <1>2, <1>9
  DEF Refresh, RefreshFetch, RefreshServe, RefreshShare, RefreshClose, RefreshFails, Tick, Cancel,
      vars, observers
<1> QED
  BY <1>4, <1>5, <1>7, <1>8, <1>9 DEF Next

(* A barrier is closed by its goroutine, or at the revoke.                   *)
LEMMA BarrierClosed ==
  ASSUME CycleInv, [Next]_vars
  PROVE  \/ UNCHANGED barrier
         \/ Revoke
         \/ \E m \in Method : ClosePublication(m)
         \/ RefreshClose
  BY DEF Next, vars, observers, Main, IssueCanary, IssueFails, PersistArtifacts, FetchStaple,
         StartCanary, SetupFails, PreflightPasses, PreflightFails, CheckAge, PreflightStale,
         RevokeFails, Join, PersistEvidence, PersistFails, Evaluate, Unwind,
         Preflight, PreflightStart, PreflightObserve, Poll, Attempt, PollExhausted, PollCancelled,
         Await, AwaitEvidence, AwaitFails, Refresh, RefreshFetch, RefreshServe,
         RefreshShare, RefreshFails, Tick, Cancel, PublishStatus

(* A refresher that is done stays as it is.                                  *)
LEMMA RefresherStays ==
  ASSUME CycleInv, [Next]_vars, refresh.st = "done"
  PROVE  UNCHANGED refresh
<1>1. ~Revoke
  BY DEF Revoke, Advance, CycleInv, Unstarted, Early
<1> QED
  BY <1>1
  DEF Next, vars, observers, Main, IssueCanary, IssueFails, PersistArtifacts, FetchStaple,
      StartCanary, SetupFails, PreflightPasses, PreflightFails, CheckAge, PreflightStale,
      RevokeFails, Join, PersistEvidence, PersistFails, Evaluate, Unwind,
      Preflight, PreflightStart, PreflightObserve, Poll, Attempt, PollExhausted, PollCancelled,
      Await, AwaitEvidence, AwaitFails, ClosePublication, Refresh, RefreshFetch, RefreshServe,
      RefreshShare, RefreshClose, RefreshFails, Tick, Cancel, PublishStatus

(* A publication is failed when all its oracles have reported and none saw   *)
(* the revocation.                                                           *)
LEMMA PublicationFailed ==
  ASSUME CycleInv, FailureOrder, [Next]_vars,
         NEW m \in Method, barrier'[PublicationOf(m)].st = "failed", NEW p \in OraclesOf(m)
  PROVE  poll'[p].st = "done" /\ result'[p].obs # "REVOKED"
<1>1. barrier \in [Dependency -> Barrier] /\ p \in Profiles
      /\ PublicationOf(m) \in Dependency \ {"issuer_ack", "staple_published"}
  BY Groups, Dependencies DEF CycleInv, TypeOK
<1>2. CASE barrier[PublicationOf(m)].st = "failed"
  BY <1>1, <1>2, DeliveredStays DEF FailureOrder
<1>3. CASE barrier[PublicationOf(m)].st # "failed"
  <2>1. ~ UNCHANGED barrier
    BY <1>3
  <2>2. ~Revoke
    <3> SUFFICES ASSUME Revoke PROVE FALSE
      OBVIOUS
    <3>1. barrier'[PublicationOf(m)] = barrier[PublicationOf(m)]
      BY <1>1 DEF Revoke
    <3> QED
      BY <1>3, <3>1
  <2>3. ~RefreshClose
    <3> SUFFICES ASSUME RefreshClose PROVE FALSE
      OBVIOUS
    <3>1. barrier'[PublicationOf(m)] = barrier[PublicationOf(m)]
      BY <1>1 DEF RefreshClose
    <3> QED
      BY <1>3, <3>1
  <2>4. PICK k \in Method : ClosePublication(k)
    BY <2>1, <2>2, <2>3, BarrierClosed
  <2>5. k = m
    <3> SUFFICES ASSUME k # m PROVE FALSE
      OBVIOUS
    <3>1. PublicationOf(k) # PublicationOf(m)
      BY Dependencies
    <3>2. barrier'[PublicationOf(m)] = barrier[PublicationOf(m)]
      BY <1>1, <2>4, <3>1 DEF ClosePublication
    <3> QED
      BY <1>3, <3>2
  <2>6. poll[p].st = "done" /\ Confirmed(m) = {}
    BY <1>1, <2>4, <2>5 DEF ClosePublication
  <2>7. result[p].obs # "REVOKED"
    BY <2>6 DEF Confirmed
  <2> QED
    BY <1>1, <2>6, <2>7, DeliveredStays
<1> QED
  BY <1>2, <1>3

(* The staple's barrier is failed by the refresher that gave up.             *)
LEMMA StapleFailed ==
  ASSUME CycleInv, FailureOrder, [Next]_vars, Stapling = "on", barrier'["staple_published"].st = "failed"
  PROVE  refresh'.st = "done" /\ refresh'.err
<1>1. barrier \in [Dependency -> Barrier] /\ refresh \in Refresher /\ "staple_published" \in Dependency
  BY DEF CycleInv, TypeOK, Dependency
<1>2. CASE barrier["staple_published"].st = "failed"
  BY <1>2, RefresherStays DEF FailureOrder
<1>3. CASE barrier["staple_published"].st # "failed"
  <2>1. ~ UNCHANGED barrier
    BY <1>3
  <2>2. ~Revoke
    BY <1>1 DEF Revoke, Open
  <2>3. ASSUME NEW m \in Method, ClosePublication(m) PROVE FALSE
    <3>1. barrier'["staple_published"] = barrier["staple_published"]
      BY <1>1, <2>3, Dependencies DEF ClosePublication
    <3> QED
      BY <1>3, <3>1
  <2>4. RefreshClose
    BY <2>1, <2>2, <2>3, BarrierClosed
  <2> QED
    BY <1>1, <2>4 DEF RefreshClose, Refresher
<1> QED
  BY <1>2, <1>3

(* The acknowledgement is never failed.                                      *)
LEMMA AcknowledgementStands ==
  ASSUME CycleInv, FailureOrder, [Next]_vars
  PROVE  barrier'["issuer_ack"].st # "failed"
<1>1. barrier \in [Dependency -> Barrier] /\ "issuer_ack" \in Dependency
      /\ barrier["issuer_ack"].st # "failed"
  BY DEF CycleInv, TypeOK, Dependency, FailureOrder
<1>2. CASE Revoke
  BY <1>1, <1>2 DEF Revoke
<1>3. ASSUME NEW m \in Method, ClosePublication(m) PROVE barrier'["issuer_ack"].st # "failed"
  BY <1>1, <1>3, Dependencies DEF ClosePublication
<1>4. CASE RefreshClose
  BY <1>1, <1>4 DEF RefreshClose
<1> QED
  BY <1>1, <1>2, <1>3, <1>4, BarrierClosed

(* A barrier is failed only by those who could not satisfy it.               *)
THEOREM FailureInvariance == Spec => []FailureOrder
<1>1. Init => FailureOrder
  <2> SUFFICES ASSUME Init PROVE FailureOrder
    OBVIOUS
  <2>1. \A d \in Dependency : barrier[d].st = "open"
    BY DEF Init, Open
  <2> QED
    BY <2>1, Dependencies DEF FailureOrder, Dependency
<1>2. CycleInv /\ FailureOrder /\ [Next]_vars => FailureOrder'
  <2> SUFFICES ASSUME CycleInv, FailureOrder, [Next]_vars PROVE FailureOrder'
    OBVIOUS
  <2>1. \A m \in Method : barrier'[PublicationOf(m)].st = "failed" =>
          \A p \in OraclesOf(m) : poll'[p].st = "done" /\ result'[p].obs # "REVOKED"
    BY PublicationFailed
  <2> QED
    BY <2>1, StapleFailed, AcknowledgementStands DEF FailureOrder
<1> QED
  BY <1>1, <1>2, CycleInvariance, PTL DEF Spec

(* Whatever manifest and profiles the probe accepts, evidence that a client  *)
(* waits for fails only after its producers tried (ValidateEnabledProfiles,  *)
(* build, RunOnce).                                                          *)
THEOREM NothingFailsUntried == Spec => []ProducersTried
<1>1. CycleInv /\ FailureOrder => ProducersTried
  <2> SUFFICES ASSUME CycleInv, FailureOrder, NEW c \in Clients, NEW i \in 1..Len(Deps[c]),
                      barrier[Deps[c][i]].st = "failed"
               PROVE  \/ \E m \in Method :
                           /\ Deps[c][i] = PublicationOf(m) /\ OraclesOf(m) # {}
                           /\ \A p \in OraclesOf(m) : poll[p].st = "done" /\ result[p].obs # "REVOKED"
                      \/ Deps[c][i] = "staple_published" /\ refresh.st = "done" /\ refresh.err
    BY DEF ProducersTried
  <2>1. Deps[c][i] \in Dependency /\ Deps[c][i] # "issuer_ack"
    BY Dependencies DEF FailureOrder
  <2>2. CASE Deps[c][i] = "ocsp_published"
    <3>1. /\ "ocsp" \in Method /\ Deps[c][i] = PublicationOf("ocsp")
          /\ OraclesOf("ocsp") = OCSPOracles /\ OCSPOracles # {}
      BY <2>2, Configured DEF Method, PublicationOf, OraclesOf
    <3> QED
      BY <3>1 DEF FailureOrder
  <2>3. CASE Deps[c][i] = "crl_published"
    <3>1. /\ "crl" \in Method /\ Deps[c][i] = PublicationOf("crl")
          /\ OraclesOf("crl") = CRLOracles /\ CRLOracles # {}
      BY <2>3, Configured DEF Method, PublicationOf, OraclesOf
    <3> QED
      BY <3>1 DEF FailureOrder
  <2>4. CASE Deps[c][i] = "staple_published"
    BY <2>4, Configured DEF FailureOrder
  <2> QED
    BY <2>1, <2>2, <2>3, <2>4 DEF Dependency
<1> QED
  BY <1>1, CycleInvariance, FailureInvariance, PTL
-----------------------------------------------------------------------------
(* The cycle is an experiment                                                *)

(* Only the main goroutine moves the program counter, the certificate, the   *)
(* cleanup and the report.                                                   *)
LEMMA OthersLeave ==
  ASSUME [Next]_vars, ~Main
  PROVE  UNCHANGED <<pc, cert, armed, report>>
  BY DEF Next, vars, world, Preflight, PreflightStart, PreflightObserve, Poll, Attempt, PollExhausted,
         PollCancelled, Await, AwaitEvidence, AwaitFails, ClosePublication, Refresh, RefreshFetch,
         RefreshServe, RefreshShare, RefreshClose, RefreshFails, Tick, Cancel, PublishStatus

(* A result appears only when its goroutine is done.                         *)
LEMMA ResultAppears ==
  ASSUME CycleInv, [Next]_vars, NEW p \in Profiles
  PROVE  result'[p] = result[p] \/ poll'[p].st = "done"
<1> DEFINE Goal == result'[p] = result[p] \/ poll'[p].st = "done"
<1>1. poll \in [Profiles -> Poller] /\ result \in [Profiles -> Result]
  BY DEF CycleInv, TypeOK
<1>2. CASE UNCHANGED result
  BY <1>2
<1>3. ASSUME NEW q \in Profiles, NEW r, Deliver(q, r) PROVE Goal
  BY <1>1, <1>3 DEF Deliver, Finished, Idle
<1>4. ASSUME NEW q \in Profiles, Poll(q) PROVE Goal
  BY <1>2, <1>3, <1>4 DEF Poll, Attempt, PollExhausted, PollCancelled
<1>5. ASSUME NEW c \in Clients, AwaitFails(c) PROVE Goal
  BY <1>3, <1>5, Groups DEF AwaitFails
<1>6. CASE ~(\E q \in Profiles : Poll(q)) /\ ~(\E c \in Clients : AwaitFails(c))
  <2>1. UNCHANGED result
    BY <1>6
    DEF Next, vars, observers, Main, IssueCanary, IssueFails, PersistArtifacts, FetchStaple,
        StartCanary, SetupFails, PreflightPasses, PreflightFails, CheckAge, PreflightStale,
        Revoke, RevokeFails, Join, PersistEvidence, PersistFails, Evaluate, Unwind,
        Preflight, PreflightStart, PreflightObserve, Await, AwaitEvidence, ClosePublication,
        Refresh, RefreshFetch, RefreshServe, RefreshShare, RefreshClose, RefreshFails,
        Tick, Cancel, PublishStatus
  <2> QED
    BY <1>2, <2>1
<1> QED
  BY <1>4, <1>5, <1>6

(* A barrier changes only between the revoke and the join, and the           *)
(* acknowledgement stands.                                                   *)
LEMMA BarriersKept ==
  ASSUME CycleInv, ReportInv, [Next]_vars, ~Revoke
  PROVE  /\ pc # "observe" => UNCHANGED barrier
         /\ barrier'["issuer_ack"] = barrier["issuer_ack"]
<1>1. barrier \in [Dependency -> Barrier]
  BY DEF CycleInv, TypeOK
<1>2. ASSUME NEW m \in Method, ClosePublication(m)
      PROVE  pc = "observe" /\ barrier'["issuer_ack"] = barrier["issuer_ack"]
  BY <1>1, <1>2, Dependencies DEF ClosePublication
<1>3. ASSUME RefreshClose PROVE pc = "observe" /\ barrier'["issuer_ack"] = barrier["issuer_ack"]
  BY <1>1, <1>3, AtWork DEF RefreshClose, CycleInv
<1> QED
  BY <1>2, <1>3, BarrierClosed

(* What the main goroutine relies on when it joins: nothing stays open.      *)
LEMMA JoinCloses ==
  ASSUME CycleInv, ReportInv, ServiceOrder, Join
  PROVE  \A d \in Dependency : barrier[d].st # "open"
<1>1. pc = "observe" /\ Joinable
  BY DEF Join, Advance
<1>2. barrier["issuer_ack"].st # "open"
  BY <1>1 DEF ServiceOrder
<1>3. barrier["ocsp_published"].st # "open" /\ barrier["crl_published"].st # "open"
  BY <1>1 DEF Joinable, Method, PublicationOf
<1>4. barrier["staple_published"].st # "open"
  <2>1. CASE Stapling = "on"
    BY <1>1, <2>1 DEF Joinable
  <2>2. CASE Stapling # "on"
    BY <1>1, <2>2 DEF ServiceOrder, Refreshing, ReportInv, JoinOrder
  <2> QED
    BY <2>1, <2>2
<1> QED
  BY <1>2, <1>3, <1>4 DEF Dependency

(* Every step keeps what the experiment relies on.                           *)
LEMMA ExperimentStep ==
  ASSUME CycleInv, ReportInv, ServiceOrder, FailureOrder, ExperimentOrder, [Next]_vars
  PROVE  ExperimentOrder'
<1>1. TypeOK /\ Unstarted /\ CleanupOrder /\ VerdictOrder /\ ShareOrder
  BY DEF CycleInv, ReportInv
<1>2. /\ pc' = "issue" => cert' = "absent"
      /\ pc' \in Early \ {"issue"} => cert' = "valid"
  <2>1. CASE ~Main
    BY <2>1, OthersLeave DEF ExperimentOrder
  <2>2. CASE Main
    BY <2>2
    DEF Main, Advance, Fail, IssueCanary, IssueFails, PersistArtifacts, FetchStaple, StartCanary,
        SetupFails, PreflightPasses, PreflightFails, CheckAge, PreflightStale, Revoke, RevokeFails,
        Join, PersistEvidence, PersistFails, Evaluate, Unwind, world, Early, ExperimentOrder
  <2> QED
    BY <2>1, <2>2
<1>3. ASSUME NEW p \in Profiles, poll'[p].st # "done" PROVE result'[p] = NoResult
  BY <1>3, ResultAppears, DeliveredStays DEF ExperimentOrder
<1>4. ASSUME pc' \in {"persist", "evaluate"}, NEW d \in Dependency PROVE barrier'[d].st # "open"
  <2>1. CASE Join
    BY <2>1, JoinCloses DEF Join, observers
  <2>2. CASE ~Join
    <3>1. pc \in {"persist", "evaluate"} /\ ~Revoke
      BY <1>4, <2>2, OthersLeave
      DEF Main, Advance, Fail, IssueCanary, IssueFails, PersistArtifacts, FetchStaple, StartCanary,
          SetupFails, PreflightPasses, PreflightFails, CheckAge, PreflightStale, Revoke, RevokeFails,
          PersistEvidence, PersistFails, Evaluate, Unwind
    <3>2. UNCHANGED barrier
      BY <3>1, BarriersKept
    <3> QED
      BY <3>1, <3>2 DEF ExperimentOrder
  <2> QED
    BY <2>1, <2>2
<1>5. ASSUME pc' = "evaluate", Stapling = "on" PROVE barrier'["staple_published"].st = "satisfied"
  <2>1. pc \in {"persist", "evaluate"} /\ ~Revoke /\ (PersistEvidence \/ pc = "evaluate")
    BY <1>5, OthersLeave
    DEF Main, Advance, Fail, IssueCanary, IssueFails, PersistArtifacts, FetchStaple, StartCanary,
        SetupFails, PreflightPasses, PreflightFails, CheckAge, PreflightStale, Revoke, RevokeFails,
        Join, PersistEvidence, PersistFails, Evaluate, Unwind
  <2>2. UNCHANGED barrier
    BY <2>1, BarriersKept
  <2>3. CASE PersistEvidence
    <3>1. barrier["staple_published"] \in Barrier /\ barrier["staple_published"].st # "open"
      BY <1>1, <2>1 DEF TypeOK, Dependency, ExperimentOrder
    <3>2. barrier["staple_published"].st # "failed"
      BY <1>1, <1>5, <2>3 DEF FailureOrder, ShareOrder, PersistEvidence
    <3> QED
      BY <2>2, <3>1, <3>2 DEF Barrier
  <2>4. CASE pc = "evaluate"
    BY <1>5, <2>2, <2>4 DEF ExperimentOrder
  <2> QED
    BY <2>1, <2>3, <2>4
<1>6. ASSUME pc' \in {"observe", "persist", "evaluate"} PROVE barrier'["issuer_ack"].st = "satisfied"
  <2>1. CASE Revoke
    BY <1>1, <2>1 DEF Revoke, TypeOK, Dependency
  <2>2. CASE ~Revoke
    <3>1. pc \in {"observe", "persist", "evaluate"}
      BY <1>6, <2>2, OthersLeave
      DEF Main, Advance, Fail, IssueCanary, IssueFails, PersistArtifacts, FetchStaple, StartCanary,
          SetupFails, PreflightPasses, PreflightFails, CheckAge, PreflightStale, RevokeFails,
          Join, PersistEvidence, PersistFails, Evaluate, Unwind
    <3> QED
      BY <2>2, <3>1, BarriersKept DEF ExperimentOrder
  <2> QED
    BY <2>1, <2>2
<1>7. ASSUME pc' = "unwind" PROVE armed' <=> barrier'["issuer_ack"].st # "satisfied"
  <2>1. /\ pc \in (Early \ {"issue"}) \cup {"persist", "evaluate", "unwind"}
        /\ UNCHANGED armed /\ ~Revoke
    BY <1>7, OthersLeave
    DEF Main, Advance, Fail, IssueCanary, IssueFails, PersistArtifacts, FetchStaple, StartCanary,
        SetupFails, PreflightPasses, PreflightFails, CheckAge, PreflightStale, Revoke, RevokeFails,
        Join, PersistEvidence, PersistFails, Evaluate, Unwind, Early
  <2>2. barrier'["issuer_ack"] = barrier["issuer_ack"]
    BY <2>1, BarriersKept
  <2>3. CASE pc \in Early \ {"issue"}
    <3>1. armed
      BY <1>1, <2>3 DEF CleanupOrder
    <3>2. barrier["issuer_ack"].st = "open"
      BY <1>1, <2>3 DEF Unstarted, Open, Dependency
    <3> QED
      BY <2>1, <2>2, <3>1, <3>2
  <2>4. CASE pc \in {"persist", "evaluate"}
    <3>1. ~armed
      BY <1>1, <2>4 DEF VerdictOrder
    <3>2. barrier["issuer_ack"].st = "satisfied"
      BY <2>4 DEF ExperimentOrder
    <3> QED
      BY <2>1, <2>2, <3>1, <3>2
  <2>5. CASE pc = "unwind"
    BY <2>1, <2>2, <2>5 DEF ExperimentOrder
  <2> QED
    BY <2>1, <2>3, <2>4, <2>5
<1> QED
  BY <1>2, <1>3, <1>4, <1>5, <1>6, <1>7 DEF ExperimentOrder

(* The facts that the experiment rests on hold throughout (RunOnce).         *)
THEOREM ExperimentInvariance == Spec => []ExperimentOrder
<1>1. Init => ExperimentOrder
  BY DEF Init, ExperimentOrder, Early
<1>2. CycleInv /\ ReportInv /\ ServiceOrder /\ FailureOrder /\ ExperimentOrder /\ [Next]_vars => ExperimentOrder'
  BY ExperimentStep
<1> QED
  BY <1>1, <1>2, CycleInvariance, ReportInvariance, ServiceInvariance, FailureInvariance, PTL DEF Spec

(* What a client waits for one after the other is what its manifest lists.   *)
LEMMA NeedsListed ==
  ASSUME NEW c \in Clients
  PROVE  /\ Manifest.dependencies[c] \subseteq Dependency
         /\ Manifest.dependencies[c] = {Deps[c][i] : i \in 1..Len(Deps[c])}
<1>1. c \in Enabled
  BY DEF Clients, StrictClients, PlainClients, EnabledAs
<1>2. Manifest.dependencies[c] \in SUBSET Dependency
  BY <1>1, ProbeAssumption DEF Accepted, WellFormed, ValidateEnabledProfiles
<1> QED
  BY <1>2, SortedList DEF Deps

(* A view changes only with what it shows.                                   *)
LEMMA Views ==
  /\ UNCHANGED pc => UNCHANGED Stage
  /\ UNCHANGED pre => UNCHANGED Baseline
  /\ UNCHANGED barrier => UNCHANGED Evident
  /\ UNCHANGED result => UNCHANGED Observed
  BY DEF Stage, Baseline, Evident, Observed

(* How evidence and observations look.                                       *)
LEMMA Looks ==
  ASSUME TypeOK
  PROVE  /\ \A d \in Dependency : /\ Evident[d] = "pending" <=> barrier[d].st = "open"
                                  /\ Evident[d] = "there" <=> barrier[d].st = "satisfied"
                                  /\ Evident[d] = "never" <=> barrier[d].st = "failed"
         /\ \A p \in Profiles : /\ Observed[p].obs = result[p].obs
                                /\ Observed[p].met = result[p].met
         /\ Stage = "setup" <=> pc \in Early
         /\ Stage = "observing" <=> pc \in {"observe", "persist", "evaluate"}
         /\ Stage = "over" <=> pc = "unwind"
         /\ Stage = "returned" <=> pc = "returned"
<1>1. \A d \in Dependency : barrier[d].st \in {"open", "satisfied", "failed"}
  BY DEF TypeOK, Barrier
<1>2. pc \in Early \cup {"observe", "persist", "evaluate", "unwind", "returned"}
  BY DEF TypeOK, Mains, Early
<1>3. /\ Stage = "setup" <=> pc \in Early
      /\ Stage = "observing" <=> pc \in {"observe", "persist", "evaluate"}
      /\ Stage = "over" <=> pc = "unwind"
      /\ Stage = "returned" <=> pc = "returned"
  BY <1>2 DEF Stage, Early
<1>4. \A d \in Dependency : /\ Evident[d] = "pending" <=> barrier[d].st = "open"
                            /\ Evident[d] = "there" <=> barrier[d].st = "satisfied"
                            /\ Evident[d] = "never" <=> barrier[d].st = "failed"
  BY <1>1 DEF Evident
<1> QED
  BY <1>3, <1>4 DEF Observed

ExperimentInv == CycleInv /\ ReportInv /\ ServiceOrder /\ FailureOrder /\ ExperimentOrder

(* What the experiment sees of the cycle.                                    *)
Shown == <<Stage, cert, Baseline, Evident, Observed, report.outcome, report.cleanup>>

(* The main goroutine up to the revoke: issuance, the steps that do not      *)
(* show, and the failures that abandon the experiment.                       *)
LEMMA SetupShown ==
  ASSUME ExperimentInv, TypeOK',
         \/ IssueCanary \/ IssueFails \/ PersistArtifacts \/ FetchStaple \/ StartCanary
         \/ SetupFails \/ PreflightPasses \/ PreflightFails \/ CheckAge \/ PreflightStale
         \/ RevokeFails
  PROVE  [Experiment!Next]_Shown
<1>1. /\ TypeOK /\ (pc = "issue" => cert = "absent")
      /\ (pc \in Early \ {"issue"} => cert = "valid") /\ report \in CycleReport
  BY DEF ExperimentInv, CycleInv, ExperimentOrder, TypeOK
<1>2. UNCHANGED <<barrier, result>>
  BY DEF IssueCanary, IssueFails, PersistArtifacts, FetchStaple, StartCanary, SetupFails,
         PreflightPasses, PreflightFails, CheckAge, PreflightStale, RevokeFails, observers
<1>3. UNCHANGED pre
  BY DEF IssueCanary, IssueFails, PersistArtifacts, FetchStaple, StartCanary, SetupFails,
         PreflightPasses, PreflightFails, CheckAge, PreflightStale, RevokeFails, before
<1>4. UNCHANGED <<Baseline, Evident, Observed>>
  BY <1>2, <1>3, Views
<1>5. CASE IssueCanary
  <2>1. pc = "issue" /\ pc' = "artifacts" /\ cert' = "valid"
        /\ UNCHANGED <<report.outcome, report.cleanup>>
    BY <1>1, <1>5 DEF IssueCanary, Advance, CycleReport
  <2>2. UNCHANGED Stage /\ Stage = "setup"
    BY <2>1 DEF Stage, Early
  <2>3. Experiment!Issue
    BY <1>1, <1>4, <2>1, <2>2 DEF Experiment!Issue
  <2> QED
    BY <2>3 DEF Experiment!Next
<1>6. CASE IssueFails
  <2>1. /\ pc = "issue" /\ pc' = "returned" /\ cert' \in {"absent", "valid"}
        /\ report'.outcome = "error" /\ UNCHANGED report.cleanup
    BY <1>1, <1>6 DEF IssueFails, CycleReport
  <2>2. Stage = "setup" /\ Stage' = "returned"
    BY <2>1 DEF Stage, Early
  <2>3. Experiment!IssueLost
    BY <1>1, <1>4, <2>1, <2>2 DEF Experiment!IssueLost
  <2> QED
    BY <2>3 DEF Experiment!Next
<1>7. CASE PersistArtifacts \/ FetchStaple \/ StartCanary \/ PreflightPasses \/ CheckAge
  <2>1. /\ pc \in Early /\ pc' \in Early /\ UNCHANGED cert
        /\ UNCHANGED <<report.outcome, report.cleanup>>
    BY <1>1, <1>7
    DEF PersistArtifacts, FetchStaple, StartCanary, PreflightPasses, CheckAge, Advance, Early,
        CycleReport, world
  <2>2. Stage = "setup" /\ Stage' = "setup"
    BY <2>1 DEF Stage, Early
  <2> QED
    BY <1>4, <2>1, <2>2 DEF Shown
<1>8. CASE SetupFails \/ PreflightFails \/ PreflightStale \/ RevokeFails
  <2>1. /\ pc \in Early \ {"issue"} /\ pc' = "unwind" /\ cert' \in {cert, "revoked"}
        /\ report'.outcome = "error" /\ UNCHANGED report.cleanup
    BY <1>1, <1>8
    DEF SetupFails, PreflightFails, PreflightStale, RevokeFails, Fail, Early, CycleReport, world
  <2>2. Stage = "setup" /\ Stage' = "over"
    BY <2>1 DEF Stage, Early
  <2>3. Experiment!Abandon
    BY <1>1, <1>4, <2>1, <2>2 DEF Experiment!Abandon
  <2> QED
    BY <2>3 DEF Experiment!Next
<1> QED
  BY <1>5, <1>6, <1>7, <1>8

(* The acknowledged revoke comes after every profile met its baseline, and   *)
(* decides the two barriers that nobody observes.                            *)
LEMMA RevokeShown ==
  ASSUME ExperimentInv, Revoke
  PROVE  Experiment!Revoke
<1>1. /\ TypeOK /\ cert = "valid" /\ \A p \in Profiles : pre[p] = "met"
  BY DEF ExperimentInv, CycleInv, ExperimentOrder, RevokeAfterPreflight, Revoke, Advance, Early
<1>2. /\ pc = "revoke" /\ pc' = "observe" /\ cert' = "revoked"
      /\ UNCHANGED <<pre, result>> /\ UNCHANGED <<report.outcome, report.cleanup>>
  BY <1>1 DEF Revoke, Advance, before, TypeOK, CycleReport
<1>3. Stage = "setup" /\ Stage' = "observing"
  BY <1>2 DEF Stage, Early
<1>4. \A p \in Profiles : Baseline[p] = "met"
  BY <1>1 DEF Baseline
<1>5. UNCHANGED <<Baseline, Observed>>
  BY <1>2, Views
<1>6. Evident' = [Evident EXCEPT
        !["issuer_ack"] = "there",
        !["staple_published"] = IF Stapling = "on" THEN "pending" ELSE "never"]
  <2>1. /\ barrier'["issuer_ack"].st = "satisfied"
        /\ barrier'["staple_published"].st = IF Stapling = "on" THEN "open" ELSE "failed"
        /\ \A d \in Dependency \ {"issuer_ack", "staple_published"} : barrier'[d] = barrier[d]
    BY <1>1 DEF Revoke, TypeOK, Dependency, Open
  <2> DEFINE new == [Evident EXCEPT
               !["issuer_ack"] = "there",
               !["staple_published"] = IF Stapling = "on" THEN "pending" ELSE "never"]
  <2>2. \A d \in Dependency : Evident'[d] = new[d]
    BY <2>1 DEF Evident, Dependency
  <2> QED
    BY <2>2 DEF Evident
<1> QED
  BY <1>1, <1>2, <1>3, <1>4, <1>5, <1>6 DEF Experiment!Revoke

(* If somebody offends, the first offender is one who does.                  *)
LEMMA FirstOffends ==
  ASSUME \E p \in Profiles : Offends(p)
  PROVE  FirstOffender \in Profiles /\ Offends(FirstOffender)
<1> DEFINE ranks == {Rank[p] : p \in {q \in Profiles : Offends(q)}}
<1>1. ranks # {} /\ ranks \subseteq Nat
  BY ProbeAssumption, Configured
<1>2. PICK r \in ranks : \A s \in ranks : ~ (<<s, r>> \in OpToRel(<, Nat))
  BY <1>1, WFMin, NatLessThanWellFounded
<1>3. ASSUME NEW s \in ranks PROVE r <= s
  <2>1. s \in Nat /\ r \in Nat
    BY <1>1
  <2>2. s < r => <<s, r>> \in OpToRel(<, Nat)
    BY <2>1, Zenon DEF OpToRel
  <2>3. ~(s < r)
    BY <1>2, <2>2
  <2> QED
    BY <2>1, <2>3
<1>4. PICK p \in Profiles : Offends(p) /\ Rank[p] = r
  BY <1>2
<1>5. \A q \in Profiles : Offends(q) => Rank[p] <= Rank[q]
  BY <1>3, <1>4
<1> QED
  BY <1>4, <1>5 DEF FirstOffender

(* After the revoke: the join and the persisted evidence do not show, a      *)
(* failure to persist and the evaluation conclude, and the deferred calls    *)
(* return.                                                                   *)
LEMMA EndShown ==
  ASSUME ExperimentInv, Join \/ PersistEvidence \/ PersistFails \/ Evaluate \/ Unwind
  PROVE  [Experiment!Next]_Shown
<1>1. TypeOK /\ report \in CycleReport
  BY DEF ExperimentInv, CycleInv, TypeOK
<1>2. UNCHANGED <<barrier, result, pre>>
  BY DEF Join, PersistEvidence, PersistFails, Evaluate, Unwind, observers, before
<1>3. UNCHANGED <<Baseline, Evident, Observed>>
  BY <1>2, Views
<1>4. ASSUME pc \in {"persist", "evaluate"} PROVE Experiment!Complete
  <2>1. Stage = "observing"
    BY <1>1, <1>4, Looks
  <2>2. ASSUME NEW p \in Profiles PROVE Observed[p].obs # "NONE"
    <3>1. poll[p].st = "done"
      BY <1>4 DEF ExperimentInv, ReportInv, JoinOrder
    <3>2. result[p].obs # "NONE"
      BY <3>1 DEF ExperimentInv, ReportInv, ResultOrder
    <3> QED
      BY <1>1, <3>2, Looks
  <2>3. \A d \in Dependency : Evident[d] # "pending"
    BY <1>1, <1>4, Looks DEF ExperimentInv, ExperimentOrder
  <2> QED
    BY <2>1, <2>2, <2>3 DEF Experiment!Complete, Experiment!Seen
<1>5. CASE Join \/ PersistEvidence
  <2>1. /\ pc \in {"observe", "persist"} /\ pc' \in {"persist", "evaluate"} /\ UNCHANGED cert
        /\ UNCHANGED <<report.outcome, report.cleanup>>
    BY <1>1, <1>5 DEF Join, PersistEvidence, Advance, CycleReport, world
  <2>2. UNCHANGED Stage
    BY <2>1 DEF Stage, Early
  <2> QED
    BY <1>3, <2>1, <2>2 DEF Shown
<1>6. CASE PersistFails
  <2>1. /\ pc = "persist" /\ pc' = "unwind" /\ UNCHANGED cert
        /\ report'.outcome = "error" /\ UNCHANGED report.cleanup
    BY <1>1, <1>6 DEF PersistFails, Fail, CycleReport, world
  <2>2. Stage' = "over"
    BY <2>1 DEF Stage, Early
  <2>3. Experiment!Conclude("error")
    BY <1>3, <1>4, <2>1, <2>2 DEF Experiment!Conclude
  <2> QED
    BY <2>3 DEF Experiment!Next
<1>7. CASE Evaluate
  <2>1. pc = "evaluate" /\ pc' = "unwind" /\ UNCHANGED cert
    BY <1>7 DEF Evaluate, world
  <2>2. Stage' = "over"
    BY <2>1 DEF Stage, Early
  <2>3. UNCHANGED report.cleanup
    BY <1>1, <1>7 DEF Evaluate, CycleReport
  <2> DEFINE v == report'.outcome
  <2>4. CASE HarnessError
    <3>1. v = "error"
      BY <1>1, <1>7, <2>4 DEF Evaluate, CycleReport
    <3>2. Experiment!Conclude("error")
      BY <1>3, <1>4, <2>1, <2>2, <2>3, <3>1 DEF Experiment!Conclude
    <3> QED
      BY <3>2 DEF Experiment!Next
  <2>5. CASE ~HarnessError
    <3>1. Experiment!Conclusive
      <4>1. \A p \in Profiles : Observed[p].obs # "ERROR"
        BY <1>1, <2>5, Looks DEF HarnessError
      <4>2. Stapling = "on" => Evident["staple_published"] = "there"
        BY <1>1, <2>1, Looks DEF ExperimentInv, ExperimentOrder, Dependency
      <4> QED
        BY <4>1, <4>2 DEF Experiment!Conclusive
    <3>2. ASSUME NEW p \in Profiles PROVE Experiment!Passes(p) <=> ~Offends(p)
      BY <1>1, Looks DEF Experiment!Passes, Offends
    <3>3. v \in {"ok", "regression", "policy_violation"} /\ Experiment!Justified(v)
      <4>1. CASE \E p \in Profiles : Offends(p)
        <5>1. FirstOffender \in Profiles /\ Offends(FirstOffender)
          BY <4>1, FirstOffends
        <5>2. v = IF result[FirstOffender].met THEN "policy_violation" ELSE "regression"
          BY <1>1, <1>7, <2>5, <4>1 DEF Evaluate, CycleReport
        <5>3. Observed[FirstOffender].met = result[FirstOffender].met
          BY <1>1, <5>1, Looks
        <5> QED
          BY <3>2, <5>1, <5>2, <5>3 DEF Experiment!Justified
      <4>2. CASE ~(\E p \in Profiles : Offends(p))
        <5>1. v = "ok"
          BY <1>1, <1>7, <2>5, <4>2 DEF Evaluate, CycleReport
        <5> QED
          BY <3>2, <4>2, <5>1 DEF Experiment!Justified
      <4> QED
        BY <4>1, <4>2
    <3>4. Experiment!Conclude(v)
      BY <1>3, <1>4, <2>1, <2>2, <2>3, <3>1, <3>3 DEF Experiment!Conclude
    <3> QED
      BY <3>3, <3>4 DEF Experiment!Next
  <2> QED
    BY <2>4, <2>5
<1>8. CASE Unwind
  <2>1. pc = "unwind" /\ pc' = "returned"
    BY <1>8 DEF Unwind
  <2>2. Stage = "over" /\ Stage' = "returned"
    BY <2>1 DEF Stage, Early
  <2>3. armed <=> Evident["issuer_ack"] # "there"
    BY <1>1, <2>1, Looks DEF ExperimentInv, ExperimentOrder, Dependency
  <2>4. UNCHANGED report.outcome
    BY <1>1, <1>8 DEF Unwind, CycleReport
  <2>5. \/ ~armed /\ UNCHANGED <<cert, report.cleanup>>
        \/ armed /\ cert' = "revoked" /\ report'.cleanup = "revoked"
        \/ armed /\ cert' \in {cert, "revoked"} /\ report'.cleanup = "failed"
    BY <1>1, <1>8 DEF Unwind, CycleReport
  <2>6. Experiment!Return
    BY <1>3, <2>2, <2>3, <2>4, <2>5 DEF Experiment!Return
  <2> QED
    BY <2>6 DEF Experiment!Next
<1> QED
  BY <1>5, <1>6, <1>7, <1>8

(* A delivered result is one observation.                                    *)
LEMMA ResultShown ==
  ASSUME ExperimentInv, NEW p \in Profiles, NEW r \in Result, Deliver(p, r),
         poll[p].st \in {"waiting", "polling"},
         UNCHANGED <<pc, cert, pre, barrier, report>>,
         r.obs \in Observation, r.met => r.obs \in After[p],
         poll[p].st = "polling" \/ r.obs = "ERROR",
         NoStaleAcceptance'
  PROVE  Experiment!Observe(p)
<1>1. TypeOK /\ Stage = "observing"
  BY AtWork, Looks DEF ExperimentInv, CycleInv
<1>2. UNCHANGED <<Stage, Baseline, Evident>>
  BY Views
<1>3. Observed[p].obs = "NONE"
  BY <1>1, Looks DEF ExperimentInv, ExperimentOrder, NoResult
<1>4. result' = [result EXCEPT ![p] = r] /\ result \in [Profiles -> Result]
  BY <1>1 DEF Deliver, TypeOK
<1>5. Observed' = [Observed EXCEPT ![p] = [obs |-> r.obs, met |-> r.met]]
  BY <1>4 DEF Observed
<1>6. ASSUME p \in Clients, r.obs # "ERROR", NEW d \in Manifest.dependencies[p]
      PROVE  Evident[d] = "there"
  <2>1. PICK i \in 1..Len(Deps[p]) : Deps[p][i] = d
    BY <1>6, NeedsListed
  <2>2. d \in Dependency /\ barrier[d].st = "satisfied"
    BY <1>6, <2>1, Dependencies DEF ExperimentInv, CycleInv, ReleasedByEvidence, Released
  <2> QED
    BY <1>1, <2>2, Looks
<1>7. ASSUME p \in StrictClients, "staple_published" \in Manifest.dependencies[p] PROVE r.obs # "ACCEPT"
  <2>1. AwaitsStaple(p)
    BY <1>7, NeedsListed, Groups DEF AwaitsStaple
  <2> QED
    BY <1>4, <1>7, <2>1 DEF NoStaleAcceptance
<1>8. Observed'[p].obs # "NONE"
  BY <1>5 DEF Observed, Observation
<1>9. r.met \in BOOLEAN
  BY DEF Result
<1> QED
  BY <1>1, <1>2, <1>3, <1>5, <1>6, <1>7, <1>8, <1>9 DEF Experiment!Observe, Experiment!Seen

(* A probe before the revoke either starts, which does not show, or tells    *)
(* whether the baseline is met.                                              *)
LEMMA PreflightShown ==
  ASSUME ExperimentInv, NEW p \in Profiles, Preflight(p)
  PROVE  [Experiment!Next]_Shown
<1>1. TypeOK /\ pre \in [Profiles -> {"idle", "running", "met", "unmet"}]
  BY DEF ExperimentInv, CycleInv, TypeOK
<1>2. /\ pc = "preflight" /\ UNCHANGED <<pc, cert, barrier, result, report>>
      /\ UNCHANGED <<report.outcome, report.cleanup>>
  BY DEF Preflight, PreflightStart, PreflightObserve, observers, world
<1>3. UNCHANGED <<Stage, Evident, Observed>>
  BY <1>2, Views
<1>4. CASE PreflightStart(p)
  <2>1. \A q \in Profiles : Baseline'[q] = Baseline[q]
    BY <1>1, <1>4 DEF PreflightStart, Baseline
  <2>2. UNCHANGED Baseline
    BY <2>1 DEF Baseline
  <2> QED
    BY <1>2, <1>3, <2>2 DEF Shown
<1>5. CASE PreflightObserve(p)
  <2>1. PICK outcome \in {"met", "unmet"} : pre' = [pre EXCEPT ![p] = outcome]
    BY <1>5 DEF PreflightObserve
  <2>2. /\ Baseline[p] = "unknown"
        /\ \A q \in Profiles : Baseline'[q] = [Baseline EXCEPT ![p] = outcome][q]
    BY <1>1, <1>5, <2>1 DEF PreflightObserve, Baseline
  <2>3. Baseline' = [Baseline EXCEPT ![p] = outcome]
    BY <2>2 DEF Baseline
  <2>4. Stage = "setup" /\ cert = "valid"
    BY <1>1, <1>2, Looks DEF ExperimentInv, ExperimentOrder, Early
  <2>5. Experiment!Probe(p, outcome)
    BY <1>2, <1>3, <2>2, <2>3, <2>4 DEF Experiment!Probe
  <2> QED
    BY <2>5 DEF Experiment!Next
<1> QED
  BY <1>4, <1>5 DEF Preflight

(* Polling shows when it ends, as the observation of its profile.            *)
LEMMA PollShown ==
  ASSUME ExperimentInv, CycleInv', NEW p \in Profiles, Poll(p)
  PROVE  [Experiment!Next]_Shown
<1>1. /\ TypeOK /\ poll[p] \in Poller /\ poll[p].st = "polling" /\ NoStaleAcceptance'
  BY DEF ExperimentInv, CycleInv, TypeOK, Poll, Attempt, PollExhausted, PollCancelled
<1>2. /\ UNCHANGED <<pc, cert, pre, barrier, report>>
      /\ UNCHANGED <<report.outcome, report.cleanup>>
  BY DEF Poll, Attempt, PollExhausted, PollCancelled, world, before
<1>3. ASSUME NEW obs \in Observation, NEW met \in BOOLEAN, NEW at \in Time, met => obs \in After[p],
             Deliver(p, [obs |-> obs, met |-> met, at |-> at])
      PROVE  Experiment!Next
  <2> DEFINE r == [obs |-> obs, met |-> met, at |-> at]
  <2>1. r \in Result /\ r.obs = obs /\ r.met = met
    BY DEF Result
  <2>2. Experiment!Observe(p)
    <3> HIDE DEF r
    <3> QED
      BY <1>1, <1>2, <1>3, <2>1, ResultShown DEF r
  <2> QED
    BY <2>1, <2>2 DEF Experiment!Next
<1>4. clock \in Time /\ 0 \in Time
  BY <1>1, Bounds DEF TypeOK
<1>5. CASE Attempt(p)
  <2>1. PICK obs \in Observable(p) :
          \/ Deliver(p, [obs |-> obs, met |-> obs \in After[p], at |-> clock])
          \/ UNCHANGED result
    BY <1>5 DEF Attempt
  <2>2. CASE Deliver(p, [obs |-> obs, met |-> obs \in After[p], at |-> clock])
    <3>1. obs \in Observation /\ (obs \in After[p]) \in BOOLEAN
      BY DEF Observable
    <3> QED
      BY <1>3, <1>4, <2>2, <3>1
  <2>3. CASE UNCHANGED result
    BY <1>2, <2>3, Views DEF Shown
  <2> QED
    BY <2>1, <2>2, <2>3
<1>6. CASE PollExhausted(p)
  BY <1>1, <1>3, <1>4, <1>6 DEF PollExhausted, Poller
<1>7. CASE PollCancelled(p)
  BY <1>3, <1>4, <1>7 DEF PollCancelled, HarnessResult, Observation
<1> QED
  BY <1>5, <1>6, <1>7 DEF Poll

(* Waiting does not show, and a client that gives up reports an error.       *)
LEMMA AwaitShown ==
  ASSUME ExperimentInv, CycleInv', NEW c \in Clients, Await(c)
  PROVE  [Experiment!Next]_Shown
<1>1. TypeOK /\ NoStaleAcceptance' /\ c \in Profiles
  BY Groups DEF ExperimentInv, CycleInv
<1>2. /\ UNCHANGED <<pc, cert, pre, barrier, report>>
      /\ UNCHANGED <<report.outcome, report.cleanup>>
  BY DEF Await, AwaitEvidence, AwaitFails, world, before
<1>3. CASE AwaitEvidence(c)
  <2>1. UNCHANGED result
    BY <1>3 DEF AwaitEvidence
  <2> QED
    BY <1>2, <2>1, Views DEF Shown
<1>4. CASE AwaitFails(c)
  <2>1. HarnessResult \in Result /\ HarnessResult.obs = "ERROR" /\ ~HarnessResult.met
    BY Bounds DEF HarnessResult, Result, Observation
  <2>2. Experiment!Observe(c)
    BY <1>1, <1>2, <1>4, <2>1, ResultShown DEF AwaitFails, Observation
  <2> QED
    BY <1>1, <2>2 DEF Experiment!Next
<1> QED
  BY <1>3, <1>4 DEF Await

(* Closing one barrier decides one piece of evidence.                        *)
LEMMA EvidenceDecided ==
  ASSUME TypeOK, NEW d \in Dependency, NEW b \in Barrier, barrier' = [barrier EXCEPT ![d] = b],
         b.st # "open"
  PROVE  Evident' = [Evident EXCEPT ![d] = IF b.st = "satisfied" THEN "there" ELSE "never"]
<1> DEFINE new == [Evident EXCEPT ![d] = IF b.st = "satisfied" THEN "there" ELSE "never"]
<1>1. \A e \in Dependency : barrier'[e] = IF e = d THEN b ELSE barrier[e]
  BY DEF TypeOK
<1>2. b.st \in {"satisfied", "failed"}
  BY DEF Barrier
<1>3. \A e \in Dependency : Evident'[e] = new[e]
  BY <1>1, <1>2 DEF Evident
<1> QED
  BY <1>3 DEF Evident

(* A group of oracles that is done decides the publication they look for.    *)
LEMMA PublicationShown ==
  ASSUME ExperimentInv, NEW m \in Method, ClosePublication(m)
  PROVE  [Experiment!Next]_Shown
<1> DEFINE d == PublicationOf(m)
           b == IF Confirmed(m) # {} THEN [st |-> "satisfied", at |-> Earliest(Confirmed(m))]
                                     ELSE [st |-> "failed", at |-> 0]
           witnesses == [e \in {PublicationOf(k) : k \in Method} |->
                           IF e = PublicationOf("ocsp") THEN OCSPOracles ELSE CRLOracles]
<1>1. TypeOK /\ d \in Dependency /\ OraclesOf(m) \subseteq Profiles
  BY Dependencies, Groups DEF ExperimentInv, CycleInv
<1>2. /\ pc = "observe" /\ barrier[d].st = "open" /\ barrier' = [barrier EXCEPT ![d] = b]
      /\ \A p \in OraclesOf(m) : poll[p].st = "done"
      /\ UNCHANGED <<pc, cert, pre, result, report>>
      /\ UNCHANGED <<report.outcome, report.cleanup>>
  BY DEF ClosePublication, world, before
<1>3. UNCHANGED <<Stage, Baseline, Observed>>
  BY <1>2, Views
<1>4. Stage = "observing" /\ Evident[d] = "pending"
  BY <1>1, <1>2, Looks
<1>5. d \in DOMAIN witnesses /\ witnesses[d] = OraclesOf(m)
  BY DEF Method, PublicationOf, OraclesOf
<1>6. \A p \in OraclesOf(m) : Observed[p].obs # "NONE" /\ Observed[p].obs = result[p].obs
  <2>1. \A p \in OraclesOf(m) : result[p].obs # "NONE"
    BY <1>1, <1>2 DEF ExperimentInv, ReportInv, ResultOrder
  <2> QED
    BY <1>1, <2>1, Looks
<1>7. CASE Confirmed(m) # {}
  <2>1. b \in Barrier /\ b.st = "satisfied"
    BY <1>1, <1>7, EarliestType DEF Barrier, Confirmed
  <2>2. Evident' = [Evident EXCEPT ![d] = "there"]
    <3> HIDE DEF b, d
    <3> QED
      BY <1>1, <1>2, <2>1, EvidenceDecided
  <2>3. \E p \in OraclesOf(m) : Observed[p].obs = "REVOKED"
    BY <1>6, <1>7 DEF Confirmed
  <2>4. Experiment!Confirm(d)
    <3> HIDE DEF d, witnesses
    <3>1. d \in DOMAIN witnesses => /\ \A p \in witnesses[d] : Observed[p].obs # "NONE"
                                    /\ \E p \in witnesses[d] : Observed[p].obs = "REVOKED"
      BY <1>5, <1>6, <2>3
    <3> QED
      BY <1>2, <1>3, <1>4, <2>2, <3>1 DEF Experiment!Confirm, Experiment!Seen, witnesses
  <2> QED
    BY <1>1, <2>4 DEF Experiment!Next
<1>8. CASE Confirmed(m) = {}
  <2>1. b \in Barrier /\ b.st = "failed"
    BY <1>8, Bounds DEF Barrier
  <2>2. Evident' = [Evident EXCEPT ![d] = "never"]
    <3> HIDE DEF b, d
    <3> QED
      BY <1>1, <1>2, <2>1, EvidenceDecided
  <2>3. \A p \in OraclesOf(m) : Observed[p].obs # "REVOKED"
    BY <1>6, <1>8 DEF Confirmed
  <2>4. Experiment!GiveUp(d)
    <3> HIDE DEF d, witnesses
    <3>1. d \in DOMAIN witnesses =>
            \A p \in witnesses[d] : Observed[p].obs # "NONE" /\ Observed[p].obs # "REVOKED"
      BY <1>5, <1>6, <2>3
    <3> QED
      BY <1>2, <1>3, <1>4, <2>2, <3>1 DEF Experiment!GiveUp, Experiment!Seen, witnesses
  <2> QED
    BY <1>1, <2>4 DEF Experiment!Next
<1> QED
  BY <1>7, <1>8

(* Of the refresher's steps only the last shows: it decides the staple.      *)
LEMMA RefreshShown ==
  ASSUME ExperimentInv, Refresh \/ RefreshFails
  PROVE  [Experiment!Next]_Shown
<1> DEFINE b == IF refresh.err THEN [st |-> "failed", at |-> 0]
                               ELSE [st |-> "satisfied", at |-> refresh.at]
<1>1. TypeOK /\ refresh \in Refresher /\ "staple_published" \in Dependency
  BY DEF ExperimentInv, CycleInv, TypeOK, Dependency
<1>2. /\ UNCHANGED <<pc, cert, pre, result, report>>
      /\ UNCHANGED <<report.outcome, report.cleanup>>
  BY DEF Refresh, RefreshFetch, RefreshServe, RefreshShare, RefreshClose, RefreshFails, world, before
<1>3. UNCHANGED <<Stage, Baseline, Observed>>
  BY <1>2, Views
<1>4. CASE UNCHANGED barrier
  BY <1>2, <1>3, <1>4, Views DEF Shown
<1>5. CASE RefreshClose
  <2>1. b \in Barrier /\ b.st = (IF refresh.err THEN "failed" ELSE "satisfied")
    BY <1>1, Bounds DEF Barrier, Refresher
  <2>2. barrier["staple_published"].st = "open" /\ pc = "observe"
    BY <1>5, AtWork DEF RefreshClose, ExperimentInv, CycleInv, StapleOrder
  <2>3. Stage = "observing" /\ Evident["staple_published"] = "pending"
    BY <1>1, <2>2, Looks
  <2>4. Evident' = [Evident EXCEPT !["staple_published"] =
                      IF b.st = "satisfied" THEN "there" ELSE "never"]
    <3>1. barrier' = [barrier EXCEPT !["staple_published"] = b] /\ b.st # "open"
      BY <1>5, <2>1 DEF RefreshClose
    <3> HIDE DEF b
    <3> QED
      BY <1>1, <2>1, <3>1, EvidenceDecided
  <2>5. "staple_published" \notin {PublicationOf(m) : m \in Method}
    BY Dependencies
  <2>6. Experiment!Confirm("staple_published") \/ Experiment!GiveUp("staple_published")
    <3> HIDE DEF b
    <3> QED
      BY <1>2, <1>3, <2>1, <2>3, <2>4, <2>5 DEF Experiment!Confirm, Experiment!GiveUp
  <2> QED
    BY <1>1, <2>6 DEF Experiment!Next
<1> QED
  BY <1>4, <1>5 DEF Refresh, RefreshFetch, RefreshServe, RefreshShare, RefreshFails

(* RunOnce, with all its goroutines, deadlines and failures, carries out one *)
(* experiment: whatever the profiles, contracts and dependencies, what it    *)
(* observes, concludes and compensates is what RevocationExperiment allows.  *)
THEOREM ExperimentImplemented == Spec => ImplementsExperiment
<1>1. Init => Experiment!Init
  <2> SUFFICES ASSUME Init PROVE Experiment!Init
    OBVIOUS
  <2>1. Stage = "setup"
    BY DEF Init, Stage, Early
  <2>2. Baseline = [p \in Profiles |-> "unknown"]
    BY DEF Init, Baseline
  <2>3. Evident = [d \in Dependency |-> "pending"]
    BY DEF Init, Evident, Open
  <2>4. Observed = [p \in Profiles |-> [obs |-> "NONE", met |-> FALSE]]
    BY DEF Init, Observed, NoResult
  <2> QED
    BY <2>1, <2>2, <2>3, <2>4 DEF Init, Experiment!Init, Experiment!Nothing
<1>2. ASSUME ExperimentInv, CycleInv', [Next]_vars PROVE [Experiment!Next]_(Experiment!vars)
  <2>1. [Experiment!Next]_Shown
    <3>1. CASE Main
      <4>1. TypeOK'
        BY <1>2 DEF CycleInv
      <4>2. CASE Revoke
        BY <1>2, <4>2, RevokeShown DEF Experiment!Next
      <4> QED
        BY <1>2, <3>1, <4>1, <4>2, SetupShown, EndShown DEF Main
    <3>2. ASSUME NEW p \in Profiles, Preflight(p) \/ Poll(p) PROVE [Experiment!Next]_Shown
      BY <1>2, <3>2, PreflightShown, PollShown
    <3>3. ASSUME NEW c \in Clients, Await(c) PROVE [Experiment!Next]_Shown
      BY <1>2, <3>3, AwaitShown
    <3>4. ASSUME NEW m \in Method, ClosePublication(m) PROVE [Experiment!Next]_Shown
      BY <1>2, <3>4, PublicationShown
    <3>5. CASE Refresh \/ RefreshFails
      BY <1>2, <3>5, RefreshShown
    <3>6. CASE Tick \/ Cancel \/ (\E m \in Method : PublishStatus(m)) \/ UNCHANGED vars
      <4>1. /\ UNCHANGED <<pc, cert, pre, barrier, result>>
            /\ UNCHANGED <<report.outcome, report.cleanup>>
        BY <3>6 DEF Tick, Cancel, PublishStatus, vars, world, before, observers
      <4> QED
        BY <4>1, Views DEF Shown
    <3> QED
      BY <1>2, <3>1, <3>2, <3>3, <3>4, <3>5, <3>6 DEF Next
  <2> QED
    BY <2>1 DEF Experiment!vars, Shown
<1>3. Spec => []ExperimentInv
  <2>1. CycleInv /\ ReportInv /\ ServiceOrder /\ FailureOrder /\ ExperimentOrder => ExperimentInv
    BY DEF ExperimentInv
  <2> QED
    BY <2>1, CycleInvariance, ReportInvariance, ServiceInvariance, FailureInvariance,
       ExperimentInvariance, PTL
<1>4. ExperimentInv => CycleInv
  BY DEF ExperimentInv
<1> QED
  BY <1>1, <1>2, <1>3, <1>4, PTL DEF Spec, ImplementsExperiment, Experiment!Spec
-----------------------------------------------------------------------------
(* The cycle only goes forward                                               *)

(* A step of the main goroutine takes it to a later place in RunOnce.        *)
LEMMA MainForward ==
  ASSUME Main
  PROVE  pc' # pc /\ MainNo(pc) < MainNo(pc')
<1>1. ASSUME IssueCanary \/ IssueFails \/ PersistArtifacts \/ FetchStaple \/ StartCanary \/ SetupFails
      PROVE  pc' # pc /\ MainNo(pc) < MainNo(pc')
  BY <1>1
  DEF IssueCanary, IssueFails, PersistArtifacts, FetchStaple, StartCanary, SetupFails, Advance, Fail, MainNo
<1>2. ASSUME PreflightPasses \/ PreflightFails \/ CheckAge \/ PreflightStale \/ Revoke \/ RevokeFails
      PROVE  pc' # pc /\ MainNo(pc) < MainNo(pc')
  BY <1>2
  DEF PreflightPasses, PreflightFails, CheckAge, PreflightStale, Revoke, RevokeFails, Advance, Fail, MainNo
<1>3. ASSUME Join \/ PersistEvidence \/ PersistFails \/ Evaluate \/ Unwind
      PROVE  pc' # pc /\ MainNo(pc) < MainNo(pc')
  BY <1>3
  DEF Join, PersistEvidence, PersistFails, Evaluate, Unwind, Advance, Fail, MainNo
<1> QED
  BY <1>1, <1>2, <1>3 DEF Main

(* A preflight goes from idle to running to its answer.                      *)
LEMMA PreflightForward ==
  ASSUME CycleInv, NEW q \in Profiles, Preflight(q)
  PROVE  /\ pre' # pre
         /\ \A p \in Profiles : pre'[p] # pre[p] => PreNo(pre[p]) < PreNo(pre'[p])
<1>1. pre \in [Profiles -> {"idle", "running", "met", "unmet"}]
  BY DEF CycleInv, TypeOK
<1>2. PICK s \in {"running", "met", "unmet"} :
        /\ pre' = [pre EXCEPT ![q] = s]
        /\ \/ pre[q] = "idle" /\ s = "running"
           \/ pre[q] = "running" /\ s \in {"met", "unmet"}
  <2>1. CASE PreflightStart(q)
    BY <2>1 DEF PreflightStart
  <2>2. CASE PreflightObserve(q)
    BY <2>2 DEF PreflightObserve
  <2> QED
    BY <2>1, <2>2 DEF Preflight
<1>3. pre'[q] = s /\ s # pre[q] /\ \A p \in Profiles : p # q => pre'[p] = pre[p]
  BY <1>1, <1>2
<1>4. PreNo(pre[q]) < PreNo(s)
  BY <1>2 DEF PreNo
<1> QED
  BY <1>3, <1>4

(* A polling goroutine that delivers is past waiting and polling.            *)
LEMMA DeliverForward ==
  ASSUME CycleInv, NEW q \in Profiles, NEW r, Deliver(q, r), poll[q].st \in {"waiting", "polling"}
  PROVE  /\ poll' # poll
         /\ \A p \in Profiles : poll'[p] # poll[p] => Further(poll[p], poll'[p])
<1>1. poll \in [Profiles -> Poller]
  BY DEF CycleInv, TypeOK
<1>2. poll'[q].st = "done" /\ \A p \in Profiles : p # q => poll'[p] = poll[p]
  BY <1>1 DEF Deliver, Finished, Idle
<1>3. PollNo(poll[q].st) < PollNo("done")
  BY DEF PollNo
<1>4. Further(poll[q], poll'[q]) /\ poll'[q] # poll[q]
  BY <1>2, <1>3 DEF Further
<1> QED
  BY <1>2, <1>4

(* Every attempt is counted.                                                 *)
LEMMA PollForward ==
  ASSUME CycleInv, NEW q \in Profiles, Poll(q)
  PROVE  /\ poll' # poll
         /\ \A p \in Profiles : poll'[p] # poll[p] => Further(poll[p], poll'[p])
<1>1. poll \in [Profiles -> Poller] /\ poll[q].st = "polling"
  BY DEF CycleInv, TypeOK, Poll, Attempt, PollExhausted, PollCancelled
<1>2. CASE \E r : Deliver(q, r)
  BY <1>1, <1>2, DeliverForward
<1>3. CASE ~\E r : Deliver(q, r)
  <2>1. Attempt(q)
    BY <1>3 DEF Poll, PollExhausted, PollCancelled
  <2>2. PICK obs \in Observable(q) :
          poll' = [poll EXCEPT ![q].attempts = poll[q].attempts + 1, ![q].last = obs]
    BY <1>3, <2>1 DEF Attempt
  <2>3. poll[q] \in Poller /\ poll[q].attempts \in Nat
    BY <1>1, Bounds DEF Poller
  <2>4. /\ poll'[q].attempts = poll[q].attempts + 1 /\ poll'[q].st = "polling"
        /\ \A p \in Profiles : p # q => poll'[p] = poll[p]
    BY <1>1, <2>2, <2>3 DEF Poller
  <2>5. Further(poll[q], poll'[q]) /\ poll'[q] # poll[q]
    BY <1>1, <2>3, <2>4 DEF Further
  <2> QED
    BY <2>4, <2>5
<1> QED
  BY <1>2, <1>3

(* A client waits for each of its dependencies once.                         *)
LEMMA AwaitForward ==
  ASSUME CycleInv, NEW c \in Clients, Await(c)
  PROVE  /\ poll' # poll
         /\ \A p \in Profiles : poll'[p] # poll[p] => Further(poll[p], poll'[p])
<1>1. poll \in [Profiles -> Poller] /\ c \in Profiles /\ poll[c].st = "waiting" /\ poll[c] \in Poller
  BY Groups DEF CycleInv, TypeOK, Await, AwaitEvidence, AwaitFails
<1>2. CASE AwaitFails(c)
  BY <1>1, <1>2, DeliverForward DEF AwaitFails
<1>3. CASE AwaitEvidence(c)
  <2>1. /\ (poll'[c].dep = poll[c].dep + 1 /\ poll'[c].st = "waiting") \/ poll'[c].st = "polling"
        /\ \A p \in Profiles : p # c => poll'[p] = poll[p]
    BY <1>1, <1>3 DEF AwaitEvidence, Poller
  <2>2. PollNo("waiting") < PollNo("polling") /\ poll[c].dep \in Nat
    BY <1>1 DEF PollNo, Poller
  <2>3. Further(poll[c], poll'[c]) /\ poll'[c] # poll[c]
    BY <1>1, <2>1, <2>2 DEF Further
  <2> QED
    BY <2>1, <2>3
<1> QED
  BY <1>2, <1>3 DEF Await

(* The revoke starts the goroutines, each from the beginning.                *)
LEMMA RevokeForward ==
  ASSUME CycleInv, Revoke
  PROVE  /\ \A p \in Profiles : poll'[p] # poll[p] => Further(poll[p], poll'[p])
         /\ refresh' # refresh => RefreshNo(refresh.st) < RefreshNo(refresh'.st)
         /\ \A d \in Dependency :
              barrier'[d] # barrier[d] => barrier[d].st = "open" /\ barrier'[d].st # "open"
<1>1. /\ poll = [p \in Profiles |-> Idle] /\ barrier = [d \in Dependency |-> Open]
      /\ refresh \in Refresher /\ refresh.st = "off"
  BY DEF CycleInv, TypeOK, Unstarted, Revoke, Advance, Early
<1>2. ASSUME NEW p \in Profiles PROVE Further(poll[p], poll'[p])
  <2>1. poll[p].st = "off" /\ poll'[p].st \in {"waiting", "polling"}
    BY <1>1 DEF Revoke, Idle
  <2> QED
    BY <2>1 DEF Further, PollNo
<1>3. refresh' # refresh => RefreshNo(refresh.st) < RefreshNo(refresh'.st)
  <2>1. refresh'.st = IF Stapling = "on" THEN "polling" ELSE "off"
    BY <1>1 DEF Revoke, Refresher
  <2>2. Stapling # "on" => refresh' = refresh
    BY <1>1 DEF Revoke, Refresher
  <2> QED
    BY <1>1, <2>1, <2>2 DEF RefreshNo
<1>4. ASSUME NEW d \in Dependency, barrier'[d] # barrier[d]
      PROVE  barrier[d].st = "open" /\ barrier'[d].st # "open"
  BY <1>1, <1>4 DEF Revoke, Open
<1> QED
  BY <1>2, <1>3, <1>4

(* The refresher runs through its steps in order.                            *)
LEMMA RefreshForward ==
  ASSUME CycleInv, Refresh \/ RefreshFails
  PROVE  refresh' # refresh /\ RefreshNo(refresh.st) < RefreshNo(refresh'.st)
<1>1. refresh \in Refresher
  BY DEF CycleInv, TypeOK
<1>2. \/ refresh.st = "polling" /\ refresh'.st \in {"serving", "sharing"}
      \/ refresh.st = "serving" /\ refresh'.st = "sharing"
      \/ refresh.st = "sharing" /\ refresh'.st = "closing"
      \/ refresh.st = "closing" /\ refresh'.st = "done"
  BY <1>1 DEF Refresher, Refresh, RefreshFetch, RefreshServe, RefreshShare, RefreshClose, RefreshFails
<1> QED
  BY <1>2 DEF RefreshNo

(* A barrier is decided while it is open and is never reopened.              *)
LEMMA BarrierForward ==
  ASSUME CycleInv, NEW m \in Method, ClosePublication(m) \/ RefreshClose
  PROVE  /\ barrier' # barrier
         /\ \A d \in Dependency :
              barrier'[d] # barrier[d] => barrier[d].st = "open" /\ barrier'[d].st # "open"
<1>1. barrier \in [Dependency -> Barrier]
  BY DEF CycleInv, TypeOK
<1>2. \E e \in Dependency : \E b :
        barrier[e].st = "open" /\ b.st # "open" /\ barrier' = [barrier EXCEPT ![e] = b]
  <2>1. CASE ClosePublication(m)
    <3> DEFINE new == IF Confirmed(m) # {} THEN [st |-> "satisfied", at |-> Earliest(Confirmed(m))]
                                           ELSE [st |-> "failed", at |-> 0]
    <3>1. new.st # "open"
      OBVIOUS
    <3>2. PublicationOf(m) \in Dependency /\ barrier[PublicationOf(m)].st = "open"
      BY <2>1, Dependencies DEF ClosePublication
    <3>3. barrier' = [barrier EXCEPT ![PublicationOf(m)] = new]
      BY <2>1 DEF ClosePublication
    <3> QED
      BY <3>1, <3>2, <3>3
  <2>2. CASE RefreshClose
    <3>1. barrier["staple_published"].st = "open" /\ "staple_published" \in Dependency
      BY <2>2 DEF RefreshClose, CycleInv, StapleOrder, Dependency
    <3> QED
      BY <2>2, <3>1 DEF RefreshClose
  <2> QED
    BY <2>1, <2>2
<1> QED
  BY <1>1, <1>2

(* Every step is one of the steps forward.                                   *)
LEMMA StepForward ==
  ASSUME CycleInv, ExperimentOrder, Next
  PROVE  Forward
<1>1. \A p \in Profiles : result'[p] # result[p] => result[p] = NoResult /\ poll'[p].st = "done"
  BY DeliveredStays, ResultAppears DEF ExperimentOrder
<1> USE <1>1
<1>2. CASE Main
  <2>1. pc' # pc /\ MainNo(pc) < MainNo(pc')
    BY <1>2, MainForward
  <2>2. UNCHANGED <<clock, cancelled, published, pre>>
    BY <1>2
    DEF Main, IssueCanary, IssueFails, PersistArtifacts, FetchStaple, StartCanary, SetupFails,
        PreflightPasses, PreflightFails, CheckAge, PreflightStale, Revoke, RevokeFails,
        Join, PersistEvidence, PersistFails, Evaluate, Unwind, world, before
  <2>3. Revoke \/ UNCHANGED <<poll, barrier, refresh>>
    BY <1>2
    DEF Main, IssueCanary, IssueFails, PersistArtifacts, FetchStaple, StartCanary, SetupFails,
        PreflightPasses, PreflightFails, CheckAge, PreflightStale, RevokeFails,
        Join, PersistEvidence, PersistFails, Evaluate, Unwind, observers
  <2> QED
    BY <2>1, <2>2, <2>3, RevokeForward DEF Forward, Progress
<1>3. ASSUME NEW q \in Profiles, Preflight(q) PROVE Forward
  <2>1. UNCHANGED <<pc, clock, cancelled, published, poll, barrier, refresh>>
    BY <1>3 DEF Preflight, PreflightStart, PreflightObserve, world, observers
  <2> QED
    BY <1>3, <2>1, PreflightForward DEF Forward, Progress
<1>4. ASSUME NEW q \in Profiles, Poll(q) PROVE Forward
  <2>1. UNCHANGED <<pc, clock, cancelled, published, pre, barrier, refresh>>
    BY <1>4 DEF Poll, Attempt, PollExhausted, PollCancelled, world, before
  <2> QED
    BY <1>4, <2>1, PollForward DEF Forward, Progress
<1>5. ASSUME NEW c \in Clients, Await(c) PROVE Forward
  <2>1. UNCHANGED <<pc, clock, cancelled, published, pre, barrier, refresh>>
    BY <1>5 DEF Await, AwaitEvidence, AwaitFails, world, before
  <2> QED
    BY <1>5, <2>1, AwaitForward DEF Forward, Progress
<1>6. ASSUME NEW m \in Method, ClosePublication(m) PROVE Forward
  <2>1. UNCHANGED <<pc, clock, cancelled, published, pre, poll, refresh>>
    BY <1>6 DEF ClosePublication, world, before
  <2> QED
    BY <1>6, <2>1, BarrierForward DEF Forward, Progress
<1>7. CASE Refresh \/ RefreshFails
  <2>1. UNCHANGED <<pc, clock, cancelled, published, pre, poll>>
    BY <1>7 DEF Refresh, RefreshFetch, RefreshServe, RefreshShare, RefreshClose, RefreshFails, world, before
  <2>2. RefreshClose \/ UNCHANGED barrier
    BY <1>7 DEF Refresh, RefreshFetch, RefreshServe, RefreshShare, RefreshFails
  <2>3. "ocsp" \in Method
    BY DEF Method
  <2> QED
    BY <1>7, <2>1, <2>2, <2>3, RefreshForward, BarrierForward DEF Forward, Progress
<1>8. CASE Tick \/ Cancel \/ \E m \in Method : PublishStatus(m)
  <2>1. UNCHANGED <<pc, pre, poll, barrier, refresh>>
    BY <1>8 DEF Tick, Cancel, PublishStatus, before, observers
  <2>2. clock \in Nat
    BY Bounds DEF CycleInv, TypeOK
  <2>3. \/ clock' = clock + 1 /\ UNCHANGED <<cancelled, published>>
        \/ ~cancelled /\ cancelled' /\ UNCHANGED <<clock, published>>
        \/ UNCHANGED <<clock, cancelled>> /\ published \subseteq published' /\ published' # published
    BY <1>8 DEF Tick, Cancel, PublishStatus, world
  <2> QED
    BY <2>1, <2>2, <2>3 DEF Forward, Progress
<1> QED
  BY <1>2, <1>3, <1>4, <1>5, <1>6, <1>7, <1>8 DEF Next

(* No goroutine goes back or does anything twice: the half of Returns that   *)
(* needs no fairness, beside CycleNeverStuck.                                *)
THEOREM CycleGoesForward == Spec => OnlyForward
<1>1. CycleInv /\ ExperimentOrder /\ [Next]_vars => [Forward]_vars
  BY StepForward
<1> QED
  BY <1>1, CycleInvariance, ExperimentInvariance, PTL DEF Spec, OnlyForward
=============================================================================
