----------------------------- MODULE ProbeCycle -----------------------------
(***************************************************************************)
(* One revocation-probe cycle: Runner.RunOnce and every goroutine it       *)
(* starts.  The main goroutine issues a canary certificate, checks every   *)
(* profile's BEFORE contract, revokes, and then joins status oracles,      *)
(* client executors and the staple refresher, which synchronise through    *)
(* evidence barriers.  Any remote call may fail, a revoke or an issuance   *)
(* may take effect although its answer is lost, and the context may be     *)
(* cancelled at any moment.                                                *)
(*                                                                         *)
(* Abstractions.  A probe attempt is one step: it observes the world at    *)
(* one instant.  An observation is a decision with the reasons the         *)
(* contracts tell apart.  Deadlines (max_wait) may pass at any moment, so  *)
(* no duration is assumed; `clock' orders the recorded time stamps and     *)
(* measures the preflight age.  Time 0 is Go's zero time.                  *)
(***************************************************************************)
EXTENDS Naturals, ScenarioContracts

CONSTANTS
  Enabled,         \* the profiles enabled in profiles.yaml
  Manifest,        \* the selected scenario
  Rank,            \* the order sortResults gives the profiles
  MaxAttempts,     \* max_attempts
  PreflightMaxAge, \* preflight_max_age
  Enforce,         \* policy.enforce
  MaxTime          \* bound on the clock

EnabledAs(role, method) == {p \in Enabled : Role[p] = role /\ CheckMethod[p] = method}

OCSPOracles == EnabledAs("status_oracle", "ocsp_direct")
CRLOracles == EnabledAs("status_oracle", "crl")
StrictClients == EnabledAs("client_executor", "ocsp_stapled") \* require a status in the handshake
PlainClients == EnabledAs("client_executor", "none")
Oracles == OCSPOracles \cup CRLOracles
Clients == StrictClients \cup PlainClients
Profiles == Oracles \cup Clients

Stapling == Manifest.stapling
Deps == [c \in Clients |-> Sorted(Manifest.dependencies[c])]
Before == [p \in Profiles |-> Manifest.profiles[p].before]
After == [p \in Profiles |-> Manifest.profiles[p].after]
Policy == [p \in Profiles |-> Manifest.profiles[p].policy]

Method == {"ocsp", "crl"}

ASSUME ProbeAssumption ==
  /\ Accepted(Manifest, Enabled)
  /\ Rank \in [Enabled -> Nat]
  /\ MaxAttempts \in Nat \ {0}     \* config.Load replaces 0 by 90
  /\ PreflightMaxAge \in Nat \ {0} \* validatePreflightAge, config.Load
  /\ Enforce \in BOOLEAN
  /\ MaxTime \in Nat \ {0}

VARIABLES
  pc,         \* the main goroutine
  cancelled,  \* ctx.Done() is closed
  clock,
  cert,       \* the canary certificate at the issuer
  published,  \* the status sources that already show the revocation
  served,     \* the OCSP response the canary server staples
  armed,      \* cleanupArmed
  pre,        \* per profile: its preflight goroutine and what it observed
  preAt,      \* per profile: probeStartedMono
  timeline,   \* report.Timeline
  barrier,    \* the four evidence barriers
  poll,       \* per profile: its polling goroutine
  result,     \* per profile: the Result it delivered
  refresh,    \* the staple refresher goroutine
  stapleErr,  \* the variable it shares with the main goroutine
  report      \* phase, outcome, Valid and Cleanup of the CycleReport

world == <<cert, published, served>>
before == <<pre, preAt>>
observers == <<barrier, poll, result, refresh, stapleErr>>
vars == <<pc, cancelled, clock, world, armed, before, timeline, observers, report>>

Time == 0..MaxTime
NoResult == [obs |-> "NONE", met |-> FALSE, at |-> 0]
Idle == [st |-> "off", dep |-> 1, attempts |-> 0, last |-> "INCONCLUSIVE"]
Open == [st |-> "open", at |-> 0]

Mains == {"issue", "artifacts", "prestaple", "start", "preflight", "age", "revoke",
          "observe", "persist", "evaluate", "unwind", "returned"}
CyclePhase == {"issue", "canary", "preflight", "revoke", "observe", "persist_evidence",
               "evaluate", "complete"}

Barrier == [st : {"open", "satisfied", "failed"}, at : Time]
Poller == [st : {"off", "waiting", "polling", "done"}, dep : Nat,
           attempts : 0..(MaxAttempts - 1), last : Observation]
Result == [obs : Observation \cup {"NONE"}, met : BOOLEAN, at : Time]
Refresher == [st : {"off", "polling", "serving", "sharing", "closing", "done"},
              err : BOOLEAN, source : Time, at : Time]
Timeline == [req : Time, ack : Time, ocsp : Time, crl : Time, source : Time, staple : Time]
CycleReport == [phase : CyclePhase,
                outcome : {"none", "ok", "error", "regression", "policy_violation"},
                valid : BOOLEAN,
                cleanup : {"none", "revoked", "failed"}]

(* An attempt beyond max_attempts would leave Poller.                        *)
TypeOK ==
  /\ pc \in Mains
  /\ cancelled \in BOOLEAN
  /\ clock \in Time
  /\ cert \in {"absent", "valid", "revoked"}
  /\ published \in SUBSET Method
  /\ served \in {"none", "good", "revoked"}
  /\ armed \in BOOLEAN
  /\ pre \in [Profiles -> {"idle", "running", "met", "unmet"}]
  /\ preAt \in [Profiles -> Time]
  /\ timeline \in Timeline
  /\ barrier \in [Dependency -> Barrier]
  /\ poll \in [Profiles -> Poller]
  /\ result \in [Profiles -> Result]
  /\ refresh \in Refresher
  /\ stapleErr \in {"unset", "nil", "error"}
  /\ report \in CycleReport

Init ==
  /\ pc = "issue"
  /\ cancelled = FALSE
  /\ clock = 1
  /\ cert = "absent"
  /\ published = {}
  /\ served = "none"
  /\ armed = FALSE
  /\ pre = [p \in Profiles |-> "idle"]
  /\ preAt = [p \in Profiles |-> 0]
  /\ timeline = [req |-> 0, ack |-> 0, ocsp |-> 0, crl |-> 0, source |-> 0, staple |-> 0]
  /\ barrier = [d \in Dependency |-> Open]
  /\ poll = [p \in Profiles |-> Idle]
  /\ result = [p \in Profiles |-> NoResult]
  /\ refresh = [st |-> "off", err |-> FALSE, source |-> 0, at |-> 0]
  /\ stapleErr = "unset"
  /\ report = [phase |-> "issue", outcome |-> "none", valid |-> FALSE, cleanup |-> "none"]
-----------------------------------------------------------------------------
(* The environment                                                           *)

Tick ==
  /\ clock < MaxTime
  /\ pc # "returned"
  /\ clock' = clock + 1
  /\ UNCHANGED <<pc, cancelled, world, armed, before, timeline, observers, report>>

(* SIGINT or SIGTERM.                                                        *)
Cancel ==
  /\ ~cancelled
  /\ pc # "returned"
  /\ cancelled' = TRUE
  /\ UNCHANGED <<pc, clock, world, armed, before, timeline, observers, report>>

(* The issuer's OCSP responder or CRL starts to show the revocation.         *)
PublishStatus(m) ==
  /\ cert = "revoked"
  /\ m \notin published
  /\ published' = published \cup {m}
  /\ UNCHANGED <<pc, cancelled, clock, cert, served, armed, before, timeline, observers, report>>

(* What a probe of profile p may observe now.  A transport or harness        *)
(* failure is always possible; an oracle reads its status source, a strict   *)
(* client the staple in the handshake, a plain client no status at all.      *)
StatusOf(m) == IF m \in published THEN "REVOKED" ELSE "ACCEPT"
StapleStatus == CASE served = "good" -> "ACCEPT"
                  [] served = "revoked" -> "REVOKED"
                  [] served = "none" -> "REJECTED"

Observable(p) ==
  {obs \in Observation :
     \/ obs \in {"INCONCLUSIVE", "ERROR"}
     \/ p \in OCSPOracles /\ obs \in {"REJECTED", StatusOf("ocsp")}
     \/ p \in CRLOracles /\ obs \in {"REJECTED", StatusOf("crl")}
     \/ p \in StrictClients /\ obs \in {"REJECTED", StapleStatus}
     \/ p \in PlainClients /\ obs = "ACCEPT"}
-----------------------------------------------------------------------------
(* The main goroutine up to the revoke request                               *)

Advance(from, to, phase) ==
  /\ pc = from
  /\ pc' = to
  /\ report' = [report EXCEPT !.phase = phase]

(* The closure fail(phase, err); the deferred calls run in Unwind.           *)
Fail(from, phase) ==
  /\ pc = from
  /\ pc' = "unwind"
  /\ report' = [report EXCEPT !.phase = phase, !.outcome = "error"]

IssueCanary ==
  /\ Advance("issue", "artifacts", "persist_evidence")
  /\ cert' = "valid"
  /\ armed' = TRUE
  /\ UNCHANGED <<cancelled, clock, published, served, before, timeline, observers>>

(* IssueCanary returns an error.  The issuer may have issued: the answer was *)
(* lost, or one of the checks on what it returned failed.                    *)
IssueFails ==
  /\ pc = "issue"
  /\ pc' = "returned"
  /\ cert' \in {"absent", "valid"}
  /\ report' = [report EXCEPT !.outcome = "error"]
  /\ UNCHANGED <<cancelled, clock, published, served, armed, before, timeline, observers>>

PersistArtifacts ==
  /\ Advance("artifacts", IF Stapling = "off" THEN "start" ELSE "prestaple", "persist_evidence")
  /\ UNCHANGED <<cancelled, clock, world, armed, before, timeline, observers>>

FetchStaple ==
  /\ Advance("prestaple", "start", "persist_evidence")
  /\ UNCHANGED <<cancelled, clock, world, armed, before, timeline, observers>>

StartCanary ==
  /\ Advance("start", "preflight", "preflight")
  /\ served' = IF Stapling = "off" THEN "none" ELSE "good"
  /\ UNCHANGED <<cancelled, clock, cert, published, armed, before, timeline, observers>>

(* Artifacts not persisted; pre-revocation response unavailable, not good or *)
(* not fresh; canary server not started.                                     *)
SetupFails ==
  /\ \/ Fail("artifacts", "persist_evidence")
     \/ Fail("prestaple", "canary")
     \/ Fail("start", "canary")
  /\ UNCHANGED <<cancelled, clock, world, armed, before, timeline, observers>>

PreflightStart(p) ==
  /\ pc = "preflight"
  /\ pre[p] = "idle"
  /\ pre' = [pre EXCEPT ![p] = "running"]
  /\ preAt' = [preAt EXCEPT ![p] = clock]
  /\ UNCHANGED <<pc, cancelled, clock, world, armed, timeline, observers, report>>

(* A harness failure fails the preflight, whatever the baseline expects.      *)
PreflightObserve(p) ==
  /\ pc = "preflight"
  /\ pre[p] = "running"
  /\ \E obs \in Observable(p) :
       pre' = [pre EXCEPT ![p] = IF obs \in Before[p] \ {"ERROR"} THEN "met" ELSE "unmet"]
  /\ UNCHANGED <<pc, cancelled, clock, world, armed, preAt, timeline, observers, report>>

PreflightDone == \A p \in Profiles : pre[p] \in {"met", "unmet"}

PreflightPasses ==
  /\ Advance("preflight", "age", "preflight")
  /\ \A p \in Profiles : pre[p] = "met"
  /\ UNCHANGED <<cancelled, clock, world, armed, before, timeline, observers>>

(* The evidence of the failed preflight is persisted first, and a failure to *)
(* do so changes the phase that is reported; so in the two actions below.    *)
PreflightFails ==
  /\ PreflightDone
  /\ \E p \in Profiles : pre[p] = "unmet"
  /\ Fail("preflight", "preflight") \/ Fail("preflight", "persist_evidence")
  /\ UNCHANGED <<cancelled, clock, world, armed, before, timeline, observers>>

(* Slip: one recent probe is enough.                                         *)
FreshSome == \E p \in Profiles : clock - preAt[p] <= PreflightMaxAge
Fresh == \A p \in Profiles : clock - preAt[p] <= PreflightMaxAge

CheckAge ==
  /\ Advance("age", "revoke", "revoke")
  /\ Fresh
  /\ timeline' = [timeline EXCEPT !.req = clock]
  /\ UNCHANGED <<cancelled, clock, world, armed, before, observers>>

PreflightStale ==
  /\ ~Fresh
  /\ Fail("age", "preflight") \/ Fail("age", "persist_evidence")
  /\ UNCHANGED <<cancelled, clock, world, armed, before, timeline, observers>>

(* Slip: cleanupArmed is reset before the revoke is acknowledged.            *)
RevokeFailsDisarmed ==
  /\ cert' \in {cert, "revoked"}
  /\ Fail("revoke", "revoke") \/ Fail("revoke", "persist_evidence")
  /\ armed' = FALSE
  /\ UNCHANGED <<cancelled, clock, published, served, before, timeline, observers>>

(* RevokeAt fails; the issuer may have revoked all the same.                 *)
RevokeFails ==
  /\ cert' \in {cert, "revoked"}
  /\ Fail("revoke", "revoke") \/ Fail("revoke", "persist_evidence")
  /\ UNCHANGED <<cancelled, clock, published, served, armed, before, timeline, observers>>

(* The issuer acknowledges.  The cleanup is disarmed, the issuer_ack barrier *)
(* satisfied, the staple barrier failed where nothing will be stapled, and   *)
(* all goroutines are started.                                               *)
Revoke ==
  /\ Advance("revoke", "observe", "observe")
  /\ cert' = "revoked"
  /\ armed' = FALSE
  /\ timeline' = [timeline EXCEPT !.ack = clock]
  /\ barrier' = [barrier EXCEPT
       !["issuer_ack"] = [st |-> "satisfied", at |-> clock],
       !["staple_published"] = IF Stapling = "on" THEN Open ELSE [st |-> "failed", at |-> 0]]
  /\ poll' = [p \in Profiles |->
       [poll[p] EXCEPT !.st = IF p \in Oracles THEN "polling" ELSE "waiting"]]
  /\ refresh' = [refresh EXCEPT !.st = IF Stapling = "on" THEN "polling" ELSE "off"]
  /\ UNCHANGED <<cancelled, clock, published, served, before, result, stapleErr>>
-----------------------------------------------------------------------------
(* pollOne, run by every oracle and by every client that was released        *)

Finished == [Idle EXCEPT !.st = "done"]

Deliver(p, r) ==
  /\ result' = [result EXCEPT ![p] = r]
  /\ poll' = [poll EXCEPT ![p] = Finished]

HarnessResult == [obs |-> "ERROR", met |-> FALSE, at |-> 0]

AttemptsExhausted(n) == n >= MaxAttempts

(* One attempt: it ends the polling when the observation meets the AFTER     *)
(* contract or max_attempts is reached, and is followed by a pause if not.   *)
Attempt(p) ==
  /\ poll[p].st = "polling"
  /\ \E obs \in Observable(p) :
       LET n == poll[p].attempts + 1 IN
         IF obs \in After[p] \/ AttemptsExhausted(n)
         THEN Deliver(p, [obs |-> obs, met |-> obs \in After[p], at |-> clock])
         ELSE /\ poll' = [poll EXCEPT ![p].attempts = n, ![p].last = obs]
              /\ UNCHANGED result
  /\ UNCHANGED <<pc, cancelled, clock, world, armed, before, timeline, barrier, refresh, stapleErr, report>>

(* max_wait is exceeded: exhaustedResult with the last observation.          *)
PollExhausted(p) ==
  /\ poll[p].st = "polling"
  /\ Deliver(p, [obs |-> poll[p].last, met |-> FALSE, at |-> clock])
  /\ UNCHANGED <<pc, cancelled, clock, world, armed, before, timeline, barrier, refresh, stapleErr, report>>

(* Cancellation is noticed in the pause between two attempts only.           *)
PollCancelled(p) ==
  /\ poll[p].st = "polling"
  /\ cancelled
  /\ poll[p].attempts > 0
  /\ Deliver(p, HarnessResult)
  /\ UNCHANGED <<pc, cancelled, clock, world, armed, before, timeline, barrier, refresh, stapleErr, report>>
-----------------------------------------------------------------------------
(* waitForEvidence: a client waits for its dependencies one after the other  *)

Awaited(c) == barrier[Deps[c][poll[c].dep]]

(* Slip: the error of a closed barrier is not looked at.                     *)
AwaitClosed(c) ==
  /\ poll[c].st = "waiting"
  /\ Awaited(c).st # "open"
  /\ poll' = IF poll[c].dep < Len(Deps[c])
             THEN [poll EXCEPT ![c].dep = @ + 1]
             ELSE [poll EXCEPT ![c].st = "polling"]
  /\ UNCHANGED <<pc, cancelled, clock, world, armed, before, timeline, barrier, result, refresh, stapleErr, report>>

(* Slip: returns after the first dependency.                                 *)
AwaitFirst(c) ==
  /\ poll[c].st = "waiting"
  /\ Awaited(c).st = "satisfied"
  /\ poll' = [poll EXCEPT ![c].st = "polling"]
  /\ UNCHANGED <<pc, cancelled, clock, world, armed, before, timeline, barrier, result, refresh, stapleErr, report>>

AwaitEvidence(c) ==
  /\ poll[c].st = "waiting"
  /\ Awaited(c).st = "satisfied"
  /\ poll' = IF poll[c].dep < Len(Deps[c])
             THEN [poll EXCEPT ![c].dep = @ + 1]
             ELSE [poll EXCEPT ![c].st = "polling"]
  /\ UNCHANGED <<pc, cancelled, clock, world, armed, before, timeline, barrier, result, refresh, stapleErr, report>>

(* The evidence will never come, or the context ended first: the client is   *)
(* never probed and its result is a harness failure.                         *)
AwaitFails(c) ==
  /\ poll[c].st = "waiting"
  /\ Awaited(c).st = "failed" \/ cancelled
  /\ Deliver(c, HarnessResult)
  /\ UNCHANGED <<pc, cancelled, clock, world, armed, before, timeline, barrier, refresh, stapleErr, report>>
-----------------------------------------------------------------------------
(* The two oracle groups                                                     *)

OraclesOf(m) == IF m = "ocsp" THEN OCSPOracles ELSE CRLOracles
PublicationOf(m) == IF m = "ocsp" THEN "ocsp_published" ELSE "crl_published"

(* Slips: a finished oracle counts; the last result wins.                    *)
Finishers(m) == {p \in OraclesOf(m) : result[p].at # 0}
Latest(S) == CHOOSE t \in {result[p].at : p \in S} : \A p \in S : t >= result[p].at

Confirmed(m) == {p \in OraclesOf(m) : result[p].obs = "REVOKED"}
Earliest(S) == CHOOSE t \in {result[p].at : p \in S} : \A p \in S : t <= result[p].at

(* When all oracles of a method have delivered, publicationEvidence closes   *)
(* the barrier: satisfied by the earliest confirmed revocation, failed when  *)
(* there is none - also when the method has no enabled oracle.               *)
ClosePublication(m) ==
  /\ pc = "observe"
  /\ barrier[PublicationOf(m)].st = "open"
  /\ \A p \in OraclesOf(m) : poll[p].st = "done"
  /\ barrier' = [barrier EXCEPT ![PublicationOf(m)] =
       IF Confirmed(m) # {} THEN [st |-> "satisfied", at |-> Earliest(Confirmed(m))]
                            ELSE [st |-> "failed", at |-> 0]]
  /\ UNCHANGED <<pc, cancelled, clock, world, armed, before, timeline, poll, result, refresh, stapleErr, report>>
-----------------------------------------------------------------------------
(* The staple refresher: refreshRevokedStaple and the goroutine around it    *)

(* A revoked and valid response was fetched.                                 *)
RefreshFetch ==
  /\ refresh.st = "polling"
  /\ "ocsp" \in published
  /\ refresh' = [refresh EXCEPT !.st = "serving", !.source = clock]
  /\ UNCHANGED <<pc, cancelled, clock, world, armed, before, timeline, barrier, poll, result, stapleErr, report>>

(* srv.SetOCSPStaple                                                         *)
RefreshServe ==
  /\ refresh.st = "serving"
  /\ served' = "revoked"
  /\ refresh' = [refresh EXCEPT !.st = "sharing", !.at = clock]
  /\ UNCHANGED <<pc, cancelled, clock, cert, published, armed, before, timeline, barrier, poll, result, stapleErr, report>>

(* max_wait is exceeded, or the context ended.                               *)
RefreshFails ==
  /\ refresh.st = "polling"
  /\ refresh' = [refresh EXCEPT !.st = "sharing", !.err = TRUE]
  /\ UNCHANGED <<pc, cancelled, clock, world, armed, before, timeline, barrier, poll, result, stapleErr, report>>

(* The assignments to stapleErr, stapleSourceRevokedAt and publishedStaple.  *)
RefreshShare ==
  /\ refresh.st = "sharing"
  /\ stapleErr' = IF refresh.err THEN "error" ELSE "nil"
  /\ refresh' = [refresh EXCEPT !.st = "closing"]
  /\ UNCHANGED <<pc, cancelled, clock, world, armed, before, timeline, barrier, poll, result, report>>

(* Slip: the goroutine returns on an error and leaves the barrier open.      *)
RefreshCloseUnlessError ==
  /\ refresh.st = "closing"
  /\ refresh' = [refresh EXCEPT !.st = "done"]
  /\ barrier' = IF refresh.err THEN barrier
       ELSE [barrier EXCEPT !["staple_published"] = [st |-> "satisfied", at |-> refresh.at]]
  /\ UNCHANGED <<pc, cancelled, clock, world, armed, before, timeline, poll, result, stapleErr, report>>

RefreshClose ==
  /\ refresh.st = "closing"
  /\ refresh' = [refresh EXCEPT !.st = "done"]
  /\ barrier' = [barrier EXCEPT !["staple_published"] =
       IF refresh.err THEN [st |-> "failed", at |-> 0]
                      ELSE [st |-> "satisfied", at |-> refresh.at]]
  /\ UNCHANGED <<pc, cancelled, clock, world, armed, before, timeline, poll, result, stapleErr, report>>

Refresh == RefreshFetch \/ RefreshServe \/ RefreshShare \/ RefreshClose
-----------------------------------------------------------------------------
(* The main goroutine after the revoke                                       *)

SatisfiedAt(d) == IF barrier[d].st = "satisfied" THEN barrier[d].at ELSE 0

(* Slip: the staple refresher is not waited for.                             *)
JoinableWithoutStaple ==
  /\ \A c \in Clients : poll[c].st = "done"
  /\ \A m \in Method : barrier[PublicationOf(m)].st # "open"

(* pollClients returned, both oracle groups delivered and, where a staple is *)
(* published, its barrier is closed.                                         *)
Joinable ==
  /\ \A c \in Clients : poll[c].st = "done"
  /\ \A m \in Method : barrier[PublicationOf(m)].st # "open"
  /\ Stapling = "on" => barrier["staple_published"].st # "open"

(* Slip: the two staple boundaries are swapped.                              *)
BoundariesSwapped ==
  [timeline EXCEPT
     !.ocsp = SatisfiedAt("ocsp_published"),
     !.crl = SatisfiedAt("crl_published"),
     !.source = SatisfiedAt("staple_published"),
     !.staple = IF barrier["staple_published"].st = "satisfied" THEN refresh.source ELSE 0]

Boundaries ==
  [timeline EXCEPT
     !.ocsp = SatisfiedAt("ocsp_published"),
     !.crl = SatisfiedAt("crl_published"),
     !.source = IF barrier["staple_published"].st = "satisfied" THEN refresh.source ELSE 0,
     !.staple = SatisfiedAt("staple_published")]

Join ==
  /\ Advance("observe", "persist", "persist_evidence")
  /\ Joinable
  /\ timeline' = Boundaries
  /\ UNCHANGED <<cancelled, clock, world, armed, before, observers>>

PersistEvidence ==
  /\ stapleErr # "error"
  /\ Advance("persist", "evaluate", "evaluate")
  /\ UNCHANGED <<cancelled, clock, world, armed, before, timeline, observers>>

(* Evidence could not be written; or it was, and no revoked staple was       *)
(* published.                                                                *)
PersistFails ==
  /\ \/ Fail("persist", "persist_evidence")
     \/ stapleErr = "error" /\ Fail("persist", "observe")
  /\ UNCHANGED <<cancelled, clock, world, armed, before, timeline, observers>>

(* Slip: only the clients' errors are looked at.                             *)
HarnessErrorOfClient == \E c \in Clients : result[c].obs = "ERROR"
HarnessError == \E p \in Profiles : result[p].obs = "ERROR"

Offends(p) == ~result[p].met \/ (Enforce /\ result[p].obs \notin Policy[p])

(* The first offending result in report order decides how the cycle ends.    *)
FirstOffender ==
  CHOOSE p \in Profiles : /\ Offends(p)
                          /\ \A q \in Profiles : Offends(q) => Rank[p] <= Rank[q]

Evaluate ==
  /\ pc = "evaluate"
  /\ pc' = "unwind"
  /\ report' =
       IF HarnessError
       THEN [report EXCEPT !.outcome = "error"]
       ELSE IF \E p \in Profiles : Offends(p)
       THEN [report EXCEPT !.valid = TRUE,
               !.outcome = IF result[FirstOffender].met THEN "policy_violation" ELSE "regression"]
       ELSE [report EXCEPT !.valid = TRUE, !.outcome = "ok", !.phase = "complete"]
  /\ UNCHANGED <<cancelled, clock, world, armed, before, timeline, observers>>

(* The deferred calls: the canary server is closed and, while the cleanup is *)
(* armed, the certificate is revoked on a context of its own.  That revoke   *)
(* may fail, with or without having taken effect.                            *)
Unwind ==
  /\ pc = "unwind"
  /\ pc' = "returned"
  /\ \/ /\ ~armed
        /\ UNCHANGED <<cert, report>>
     \/ /\ armed
        /\ cert' = "revoked"
        /\ report' = [report EXCEPT !.cleanup = "revoked"]
     \/ /\ armed
        /\ cert' \in {cert, "revoked"}
        /\ report' = [report EXCEPT !.cleanup = "failed"]
  /\ UNCHANGED <<cancelled, clock, published, served, armed, before, timeline, observers>>
-----------------------------------------------------------------------------
Main ==
  \/ IssueCanary \/ IssueFails
  \/ PersistArtifacts \/ FetchStaple \/ StartCanary \/ SetupFails
  \/ PreflightPasses \/ PreflightFails
  \/ CheckAge \/ PreflightStale
  \/ Revoke \/ RevokeFails
  \/ Join \/ PersistEvidence \/ PersistFails \/ Evaluate \/ Unwind

Preflight(p) == PreflightStart(p) \/ PreflightObserve(p)
Poll(p) == Attempt(p) \/ PollExhausted(p) \/ PollCancelled(p)
Await(c) == AwaitEvidence(c) \/ AwaitFails(c)

Next ==
  \/ Main
  \/ \E p \in Profiles : Preflight(p) \/ Poll(p)
  \/ \E c \in Clients : Await(c)
  \/ \E m \in Method : ClosePublication(m)
  \/ Refresh \/ RefreshFails
  \/ Tick \/ Cancel
  \/ \E m \in Method : PublishStatus(m)

(* Go's scheduler runs every goroutine that can run, every probe and every   *)
(* remote call has a timeout, and max_wait passes.  Nothing is assumed of    *)
(* the issuer's publication or of cancellation.                              *)
Fairness ==
  /\ WF_vars(Main)
  /\ \A p \in Profiles : WF_vars(Preflight(p)) /\ WF_vars(Poll(p))
  /\ \A c \in Clients : WF_vars(Await(c))
  /\ \A m \in Method : WF_vars(ClosePublication(m))
  /\ WF_vars(RefreshFails) /\ WF_vars(Refresh)

Spec == Init /\ [][Next]_vars /\ Fairness
-----------------------------------------------------------------------------
(* Invariants                                                                *)

(* A satisfied barrier means what its name says: the issuer revoked; an      *)
(* oracle of the method observed REJECT/REVOKED, and the barrier bears the   *)
(* time of the earliest such observation; the canary serves the revoked      *)
(* response.  Merely finishing an oracle satisfies nothing                   *)
(* (runner.go:343-345).                                                      *)
BarrierTruthful ==
  /\ barrier["issuer_ack"].st = "satisfied" => cert = "revoked"
  /\ \A m \in Method : barrier[PublicationOf(m)].st = "satisfied" =>
       /\ m \in published
       /\ \E p \in OraclesOf(m) : /\ result[p].obs = "REVOKED"
                                  /\ result[p].at = barrier[PublicationOf(m)].at
       /\ \A p \in OraclesOf(m) : result[p].obs = "REVOKED" =>
            barrier[PublicationOf(m)].at <= result[p].at
  /\ barrier["staple_published"].st = "satisfied" => served = "revoked"

(* A client is probed, and an observation of it recorded, only after every   *)
(* one of its manifest dependencies was satisfied.                           *)
Released(c) == poll[c].st = "polling" \/ result[c].at # 0

ReleasedByEvidence ==
  \A c \in Clients : Released(c) =>
    \A i \in 1..Len(Deps[c]) : barrier[Deps[c][i]].st = "satisfied"

(* A strict client that waits for the published staple never sees the        *)
(* pre-revocation response: the race between SetOCSPStaple and the client's  *)
(* handshake cannot produce a false "accepted after revocation".             *)
AwaitsStaple(c) == \E i \in 1..Len(Deps[c]) : Deps[c][i] = "staple_published"

NoStaleAcceptance ==
  \A c \in StrictClients :
    AwaitsStaple(c) => result[c].obs # "ACCEPT"

(* What the two facts above rest on.                                         *)
Early == {"issue", "artifacts", "prestaple", "start", "preflight", "age", "revoke"}

(* No goroutine runs and no barrier is closed before the revoke.             *)
Unstarted ==
  pc \in Early => /\ poll = [p \in Profiles |-> Idle]
                  /\ result = [p \in Profiles |-> NoResult]
                  /\ barrier = [d \in Dependency |-> Open]
                  /\ refresh.st = "off" /\ ~refresh.err

(* A waiting client has been through the dependencies before the current one.*)
WaitOrder ==
  \A c \in Clients :
    /\ poll[c].dep \in 1..Len(Deps[c])
    /\ poll[c].st = "waiting" =>
         \A i \in 1..Len(Deps[c]) : i < poll[c].dep => barrier[Deps[c][i]].st = "satisfied"

(* A closed group has delivered, and what its oracles report was published.  *)
GroupOrder ==
  \A m \in Method :
    /\ barrier[PublicationOf(m)].st # "open" => \A p \in OraclesOf(m) : poll[p].st = "done"
    /\ \A p \in OraclesOf(m) :
         poll[p].last = "REVOKED" \/ result[p].obs = "REVOKED" => m \in published

(* The refresher closes its barrier last, and serves before it succeeds.     *)
StapleOrder ==
  /\ refresh.st \in {"polling", "serving", "sharing", "closing"} =>
       barrier["staple_published"].st = "open"
  /\ refresh.st \in {"polling", "serving"} => ~refresh.err
  /\ refresh.st \in {"sharing", "closing"} /\ ~refresh.err => served = "revoked"
  /\ \A c \in StrictClients : AwaitsStaple(c) => poll[c].last # "ACCEPT"

(* The cleanup is armed, or the certificate is known to be revoked.          *)
CleanupOrder ==
  /\ pc = "issue" => report.phase = "issue"
  /\ pc \in Early \ {"issue"} => armed
  /\ pc \in {"observe", "persist", "evaluate"} => cert = "revoked"
  /\ pc = "unwind" => armed \/ cert = "revoked"

(* Preflights that were met stay what the age check looks at.                *)
PreflightOrder == pc = "age" => \A p \in Profiles : pre[p] = "met"

(* The recorded boundaries are in causal order and every reported latency    *)
(* (propagation, distribution, decision, enforcement) is non-negative.       *)
TimelineCausal ==
  /\ timeline.ack # 0 => timeline.req <= timeline.ack
  /\ \A t \in {timeline.ocsp, timeline.crl, timeline.source} : t # 0 => timeline.ack <= t
  /\ timeline.staple # 0 => timeline.source # 0 /\ timeline.source <= timeline.staple
  /\ \A p \in Profiles : result[p].at # 0 => timeline.ack <= result[p].at
  /\ \A c \in Clients : \A i \in 1..Len(Deps[c]) :
       result[c].at # 0 => barrier[Deps[c][i]].at <= result[c].at

(* The issuer is never asked to revoke before every enabled profile met its  *)
(* BEFORE contract, in probes no older than preflight_max_age.               *)
RevokeAfterPreflight ==
  pc \in {"revoke", "observe"} =>
    \A p \in Profiles : pre[p] = "met" /\ timeline.req - preAt[p] <= PreflightMaxAge

(* When RunOnce returns, no goroutine it started is still running, so the    *)
(* canary server is never closed under a probe and stapleErr is read after   *)
(* it was written.                                                           *)
AllJoined ==
  pc \in {"persist", "evaluate", "unwind", "returned"} =>
    /\ \A p \in Profiles : poll[p].st \in {"off", "done"}
    /\ refresh.st \in {"off", "done"}
    /\ Stapling = "on" /\ timeline.ack # 0 => stapleErr # "unset"

(* Once issuance has succeeded, RunOnce returns with the certificate         *)
(* revoked, or having tried to revoke it and saying so.                      *)
CanaryNotForgotten ==
  pc = "returned" /\ report.phase # "issue" =>
    \/ cert = "revoked"
    \/ report.cleanup = "failed"

(* The inductive invariant: the safety facts above and what they rest on.    *)
CycleInv ==
  /\ TypeOK
  /\ Unstarted /\ WaitOrder /\ GroupOrder /\ StapleOrder /\ CleanupOrder /\ PreflightOrder
  /\ BarrierTruthful
  /\ ReleasedByEvidence
  /\ NoStaleAcceptance
  /\ CanaryNotForgotten
  /\ RevokeAfterPreflight

(* A valid report has a conclusive harness result of every enabled profile,  *)
(* each observed after all the evidence it depends on, and a published       *)
(* staple where the scenario needs one; an "ok" one met every contract.      *)
ValidComplete ==
  /\ report.valid =>
       /\ \A p \in Profiles : result[p].at # 0 /\ result[p].obs # "ERROR"
       /\ Stapling = "on" => timeline.staple # 0
       /\ report.cleanup = "none" /\ cert = "revoked"
  /\ report.outcome = "ok" <=> report.phase = "complete"
  /\ report.outcome = "ok" =>
       \A p \in Profiles : /\ result[p].obs \in After[p]
                           /\ Enforce => result[p].obs \in Policy[p]

(* What the three facts about the report rest on.                            *)
Ended == {"persist", "evaluate", "unwind", "returned"}

(* Every goroutine is started by the revoke and has ended when Join is over. *)
JoinOrder ==
  /\ pc \in Early => /\ timeline.ack = 0 /\ timeline.ocsp = 0 /\ timeline.crl = 0
                    /\ timeline.source = 0 /\ timeline.staple = 0
  /\ pc = "observe" => /\ \A p \in Profiles : poll[p].st # "off"
                       /\ refresh.st # "off" <=> Stapling = "on"
  /\ pc \in {"persist", "evaluate"} => \A p \in Profiles : poll[p].st = "done"
  /\ pc \in Ended => /\ \A p \in Profiles : poll[p].st \in {"off", "done"}
                     /\ refresh.st \in {"off", "done"}
                     /\ Stapling = "on" /\ timeline.ack # 0 => refresh.st = "done"

(* The refresher shares what it has before it closes its barrier.            *)
ShareOrder ==
  /\ refresh.st \in {"off", "polling"} => refresh.source = 0 /\ refresh.at = 0
  /\ refresh.st = "serving" => refresh.source # 0 /\ refresh.at = 0
  /\ refresh.st \in {"sharing", "closing", "done"} /\ ~refresh.err => refresh.at # 0
  /\ refresh.source # 0 => timeline.ack <= refresh.source /\ refresh.source <= clock
  /\ refresh.at # 0 => /\ refresh.source # 0
                       /\ refresh.source <= refresh.at /\ refresh.at <= clock
  /\ refresh.st \in {"closing", "done"} => stapleErr = IF refresh.err THEN "error" ELSE "nil"
  /\ refresh.st = "done" =>
       barrier["staple_published"] =
         IF refresh.err THEN [st |-> "failed", at |-> 0] ELSE [st |-> "satisfied", at |-> refresh.at]
  /\ barrier["staple_published"].st = "satisfied" => refresh.st = "done"

(* A delivered result was observed, unless it is an error, and what it says  *)
(* of the contract is so.                                                    *)
ResultOrder ==
  \A p \in Profiles :
    /\ poll[p].st = "done" => result[p].obs = "ERROR" \/ (result[p].obs # "NONE" /\ result[p].at # 0)
    /\ result[p].met => result[p].obs \in After[p]

(* No time is ahead of the clock or before the acknowledgement.              *)
ClockOrder ==
  /\ clock # 0 /\ timeline.req <= clock /\ timeline.ack <= clock
  /\ \A d \in Dependency : barrier[d].at <= clock /\ (barrier[d].at # 0 => timeline.ack <= barrier[d].at)
  /\ \A p \in Profiles : result[p].at <= clock

(* The verdict is the last thing decided.                                    *)
VerdictOrder ==
  /\ pc \notin {"unwind", "returned"} =>
       report.outcome = "none" /\ ~report.valid /\ report.phase # "complete"
  /\ pc # "returned" => report.cleanup = "none"
  /\ pc \in {"observe", "persist", "evaluate"} => ~armed
  /\ Stapling = "on" =>
       /\ pc = "persist" /\ stapleErr # "error" => timeline.staple # 0
       /\ pc = "evaluate" => timeline.staple # 0
  /\ report.valid \/ report.outcome = "ok" =>
       /\ pc \in {"unwind", "returned"} /\ ~armed
       /\ \A p \in Profiles : poll[p].st = "done"

ReportInv ==
  /\ JoinOrder /\ ShareOrder /\ ResultOrder /\ ClockOrder /\ VerdictOrder
  /\ TimelineCausal /\ ValidComplete

(* What the two facts below rest on: oracles wait for nobody, the            *)
(* acknowledgement is there, and an open staple barrier has a refresher.     *)
Refreshing == refresh.st \in {"polling", "serving", "sharing", "closing"}

ServiceOrder ==
  pc = "observe" =>
    /\ \A p \in Oracles : poll[p].st \in {"polling", "done"}
    /\ barrier["issuer_ack"].st = "satisfied"
    /\ barrier["staple_published"].st = "open" => Refreshing

(* A client waits for evidence that is decided already, or that somebody     *)
(* who waits for nobody himself is still to decide: the barriers, each       *)
(* closed by a goroutine of its own, leave no circle and no orphan           *)
(* (waitForEvidence, RunOnce).                                               *)
EveryWaitServed ==
  pc = "observe" => \A c \in Clients : poll[c].st = "waiting" =>
    \/ Awaited(c).st # "open"
    \/ \E m \in Method : /\ Deps[c][poll[c].dep] = PublicationOf(m)
                         /\ \A p \in OraclesOf(m) : poll[p].st \in {"polling", "done"}
    \/ Deps[c][poll[c].dep] = "staple_published" /\ Refreshing

(* Between the revoke and the join somebody can always go on: what Returns   *)
(* needs besides the scheduler's fairness (RunOnce).                         *)
NeverStuck ==
  pc = "observe" =>
    \/ Joinable
    \/ \E p \in Profiles : poll[p].st = "polling"
    \/ \E c \in Clients : poll[c].st = "waiting" /\ Awaited(c).st # "open"
    \/ \E m \in Method : /\ barrier[PublicationOf(m)].st = "open"
                         /\ \A p \in OraclesOf(m) : poll[p].st = "done"
    \/ Refreshing

(* Why a barrier was failed.                                                 *)
FailureOrder ==
  /\ barrier["issuer_ack"].st # "failed"
  /\ \A m \in Method : barrier[PublicationOf(m)].st = "failed" =>
       \A p \in OraclesOf(m) : poll[p].st = "done" /\ result[p].obs # "REVOKED"
  /\ Stapling = "on" /\ barrier["staple_published"].st = "failed" => refresh.st = "done" /\ refresh.err

(* Evidence that a client waits for fails only after somebody who could have *)
(* produced it tried and gave up, and never because of how the scenario and  *)
(* the profiles were put together (ValidateEnabledProfiles, build).          *)
ProducersTried ==
  \A c \in Clients : \A i \in 1..Len(Deps[c]) : barrier[Deps[c][i]].st = "failed" =>
    \/ \E m \in Method : /\ Deps[c][i] = PublicationOf(m) /\ OraclesOf(m) # {}
                         /\ \A p \in OraclesOf(m) : poll[p].st = "done" /\ result[p].obs # "REVOKED"
    \/ Deps[c][i] = "staple_published" /\ refresh.st = "done" /\ refresh.err

(* Every certificate that the issuer issued is revoked, or its revocation    *)
(* was attempted, when a failed cycle returns: CleanupStatus "records a      *)
(* compensating revocation performed after a cycle fails after certificate   *)
(* issuance but before the experiment revoke succeeds" (runner.go:87-88).    *)
EveryIssuedCanaryCompensated ==
  pc = "returned" /\ cert = "valid" => report.cleanup = "failed"

(* How far a goroutine is.                                                   *)
MainNo(s) ==
  CASE s = "issue" -> 1 [] s = "artifacts" -> 2 [] s = "prestaple" -> 3 [] s = "start" -> 4
    [] s = "preflight" -> 5 [] s = "age" -> 6 [] s = "revoke" -> 7 [] s = "observe" -> 8
    [] s = "persist" -> 9 [] s = "evaluate" -> 10 [] s = "unwind" -> 11 [] OTHER -> 12
PreNo(s) == CASE s = "idle" -> 1 [] s = "running" -> 2 [] OTHER -> 3
PollNo(s) == CASE s = "off" -> 1 [] s = "waiting" -> 2 [] s = "polling" -> 3 [] OTHER -> 4
RefreshNo(s) ==
  CASE s = "off" -> 1 [] s = "polling" -> 2 [] s = "serving" -> 3 [] s = "sharing" -> 4
    [] s = "closing" -> 5 [] OTHER -> 6

Further(was, is) ==
  \/ PollNo(was.st) < PollNo(is.st)
  \/ was.st = "waiting" /\ is.st = "waiting" /\ was.dep < is.dep
  \/ was.st = "polling" /\ is.st = "polling" /\ was.attempts < is.attempts

Progress == <<pc, clock, cancelled, published, pre, poll, barrier, refresh>>

(* A step takes one of the goroutines, or the world around them, further and *)
(* none of them back: no wait is entered twice, every repeated probe is      *)
(* counted, what was delivered stays, what was decided is never decided      *)
(* again.                                                                    *)
Forward ==
  /\ Progress' # Progress
  /\ pc' # pc => MainNo(pc) < MainNo(pc')
  /\ clock' # clock => clock' = clock + 1
  /\ cancelled => cancelled'
  /\ published \subseteq published'
  /\ \A p \in Profiles :
       /\ pre'[p] # pre[p] => PreNo(pre[p]) < PreNo(pre'[p])
       /\ poll'[p] # poll[p] => Further(poll[p], poll'[p])
       /\ result'[p] # result[p] => result[p] = NoResult /\ poll'[p].st = "done"
  /\ \A d \in Dependency : barrier'[d] # barrier[d] => barrier[d].st = "open" /\ barrier'[d].st # "open"
  /\ refresh' # refresh => RefreshNo(refresh.st) < RefreshNo(refresh'.st)

(* RunOnce, with all its goroutines, never repeats itself.  With the bounds  *)
(* of TypeOK and WaitOrder a cycle has a bounded number of steps: what       *)
(* Returns needs besides NeverStuck and the scheduler.                       *)
OnlyForward == [][Forward]_vars

(* What the experiment below adds to the facts above: the certificate is     *)
(* valid until the revoke is asked for, a result appears when its goroutine  *)
(* is done, Join leaves nothing open, and the cleanup is disarmed with the   *)
(* acknowledgement.                                                          *)
ExperimentOrder ==
  /\ pc = "issue" => cert = "absent"
  /\ pc \in Early \ {"issue"} => cert = "valid"
  /\ \A p \in Profiles : poll[p].st # "done" => result[p] = NoResult
  /\ pc \in {"persist", "evaluate"} => \A d \in Dependency : barrier[d].st # "open"
  /\ pc = "evaluate" /\ Stapling = "on" => barrier["staple_published"].st = "satisfied"
  /\ pc \in {"observe", "persist", "evaluate"} => barrier["issuer_ack"].st = "satisfied"
  /\ pc = "unwind" => (armed <=> barrier["issuer_ack"].st # "satisfied")

(* How the cycle looks as an experiment.                                     *)
Stage == CASE pc \in Early -> "setup"
           [] pc \in {"observe", "persist", "evaluate"} -> "observing"
           [] pc = "unwind" -> "over"
           [] OTHER -> "returned"
Baseline == [p \in Profiles |-> IF pre[p] \in {"met", "unmet"} THEN pre[p] ELSE "unknown"]
Evident == [d \in Dependency |-> CASE barrier[d].st = "open" -> "pending"
                                   [] barrier[d].st = "satisfied" -> "there"
                                   [] OTHER -> "never"]
Observed == [p \in Profiles |-> [obs |-> result[p].obs, met |-> result[p].met]]

(* The whole cycle is one experiment, in which evidence appears or is given  *)
(* up once, a client observes only when all it needs is there, every profile *)
(* is observed once and what it reported stands, the verdict follows from    *)
(* what was observed, and the compensating revoke is tried just when the     *)
(* issuer never acknowledged the revoke (RunOnce).                           *)
Experiment == INSTANCE RevocationExperiment WITH
  Evidence <- Dependency,
  Witnesses <- [d \in {PublicationOf(m) : m \in Method} |->
                  IF d = PublicationOf("ocsp") THEN OCSPOracles ELSE CRLOracles],
  Needs <- [c \in Clients |-> Manifest.dependencies[c]],
  Followers <- {c \in StrictClients : "staple_published" \in Manifest.dependencies[c]},
  Stapled <- Stapling = "on",
  stage <- Stage,
  certificate <- cert,
  baseline <- Baseline,
  evidence <- Evident,
  observed <- Observed,
  verdict <- report.outcome,
  cleanup <- report.cleanup

ImplementsExperiment == Experiment!Spec

(* RunOnce returns: no barrier is left open, no goroutine waits for ever.    *)
Returns == <>(pc = "returned")
=============================================================================
