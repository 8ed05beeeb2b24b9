# A TLA+ model of pki-sentinel

pki-sentinel measures how TLS clients and status sources react to the
revocation of a certificate, and watches a host's trust store for roots nobody
approved. This directory holds TLA+ modules translated from its Go services,
the TLC instances that check them, and TLAPS proofs about them. File names below
without a path are under `services/revocation-probe/internal/`, except those of
the drift agent (`services/truststore-drift-agent/main.go`) and of demo-api.

## The system

| Component | State it keeps | Operations | What makes it correct |
|---|---|---|---|
| **Probe cycle**, `runner/runner.go` | one cycle's report, evidence barriers, per-profile results, the armed cleanup | issue, preflight, revoke, poll oracles and clients, refresh the staple, join, persist, evaluate, unwind | clients are measured only after the evidence they depend on; no stale preflight; the canary is always compensated; no goroutine outlives the cycle; every cycle ends |
| **Evidence store**, `runner/evidence.go`, `cmd/probe/main.go` `finalizeCycle` | artifact files, `report.json`, attestation, the `latest` copies | write new, write atomically, archive, update latest | referenced evidence is durable; a nil return means everything is; an envelope lies beside its own report; `latest` copies belong together |
| **Canary server**, `canary/server.go` | listener, staple, open connections | start, serve, set staple, close | close ends every connection and never races an accept; a handshake never presents an older staple than the one set |
| **Profiles**, `profiles/registry.go` | none | probe; classify; freshness and revocation-time rules | a stale, future or foreign status is never read as good or revoked |
| **Scenarios and config**, `scenarios/registry.go`, `config/config.go` | manifests, contracts | load, validate | no enabled client waits for evidence nobody produces |
| **Issuer client**, `issuer/vault.go` | Vault token | login, renew, issue, revoke, fetch status | a live token whenever Vault has answered for a while |
| **Executor**, `executor/executor.go` | none | serve a probe, call one remotely | an executor answers for the profile and the leaf it was asked about |
| **Chaos proxy and sweep**, `chaos/proxy.go`, `cmd/probe/main.go` `cmdChaos` | the delay in force, requests in flight, trial statistics | proxy, sweep, close | a trial is measured under its own delay; statistics and log agree; a trial in which nothing failed confirms the revocation; the command ends |
| **Attestation**, `attestation/attestation.go` | none | sign, verify | a verified envelope is bound to its payload |
| **Trust-store drift agent**, `main.go` | signed baseline, rollback state file, signing key, the result served | baseline, check, serve | replayed baselines are refused; drift is reported, and a scan misses no certificate that stayed in its file; a signed baseline's key is kept |
| **demo-api**, `main.go`, `vaultauth.go` | current certificate, Vault token | issue, renew, serve | a valid certificate whenever Vault has answered for a while; renewal goes on; a clean stop |
| Vault, Terraform, OPA policies, compose files, scripts, Prometheus, Grafana, Wazuh | | | outside; Vault and the file system appear only through how the Go code uses them |

The probe's main goroutine starts one goroutine per profile and one for the
staple; these share barriers, a few variables and the canary server. Every
executor, OCSP, CRL and Vault call is remote and may fail with or without
effect. Drift agents (`check` from cron, `serve` as a daemon) share one state
file through an `flock`; `serve` scans trust-store files that administrators
replace meanwhile. The hard behaviours are the interleavings around the
barriers and in the canary server, lost answers and outages, cancellation,
crashes around file replacement, and the arithmetic of counts and freshness
bounds; `PROJECT.json` lists them under `hazards`, each at its line.

How the modules compose. `ProbeCycle` has the canary's staple as one variable:
`CanaryServer` shows that a handshake presents the staple set when it began or a
later one. Its scenario and profiles are any that `ScenarioContracts` accepts. It takes an oracle's observation as given: `StatusOracles` says which
document yields which. It implements
`RevocationExperiment`, and its report goes to `EvidenceStore`, which implements `EvidenceArchive`. `ChaosSweep` runs
cycles one after the other through its proxy, with `StatusOracles` for what they
observe. `DriftAgent` evaluates with `TrustStoreEval` and takes the state
transaction as one step, an advancing register: that `BaselineState` implements
one is checked and proved (`MonotonicRegister`).

## Modules

### ScenarioContracts

What is checked before anything is issued: the manifests `build` lets through
(`WellFormed`), the profiles that have a contract and an enabled producer for
whatever they wait for (`ValidateEnabledProfiles`, `hasEnabledProducer`), one oracle
and one client at least (`validateEnabledRoles`); `Accepted` is all of it. A dependency
list is refused if it repeats an entry and sorted otherwise, so it is a set here, and
`Sorted` is the list. An expectation is the set of observations that meet it: one
decision with reasons compatible with it (`reasonCompatible`); REJECT is two
observations, revoked or not. A contract may expect HARNESS_ERROR; no preflight or
evaluation accepts one.

### ProbeCycle, RevocationExperiment, ProbeCycleProofs

One cycle, from the issue request to `RunOnce`'s return. `pc` is the main
goroutine's position; `pre`/`preAt` are the preflight goroutines; `poll`,
`result` the polling goroutines of oracles and clients; `barrier` the four
`evidenceBarrier`s; `refresh`, `stapleErr` the staple goroutine and the variable
it shares; `cert`, `published`, `served` are the issuer, its status sources and
the canary. `timeline` and `report` are what gets signed.

* Main goroutine: `IssueCanary`, `IssueFails`, `PersistArtifacts`,
  `FetchStaple`, `StartCanary`, `SetupFails`, `PreflightPasses`,
  `PreflightFails`, `CheckAge`, `PreflightStale`, `Revoke`, `RevokeFails`,
  `Join`, `PersistEvidence`, `PersistFails`, `Evaluate`, `Unwind`.
* Goroutines: `PreflightStart`/`PreflightObserve`; `Attempt`, `PollExhausted`,
  `PollCancelled` (`pollOne`); `AwaitEvidence`, `AwaitFails`
  (`waitForEvidence`); `ClosePublication` (the two oracle groups);
  `RefreshFetch`, `RefreshServe`, `RefreshShare`, `RefreshClose`,
  `RefreshFails`.
* Environment: `Tick`, `Cancel`, `PublishStatus`.

Deadlines may pass at any moment, so nothing depends on durations. A probe is
one step. An observation is one of ACCEPT, REVOKED (reject, reason REVOKED),
REJECTED (reject for another reason), INCONCLUSIVE and ERROR; `Observable`
says which of them each kind of profile can make of the present world.
An answer may be lost after it took effect (`IssueFails`, `RevokeFails`,
`Unwind`). The constants are what a run is started with: the enabled profiles, the
selected manifest, the bounds of the configuration, and `ProbeAssumption` asks of them
what the program checks, `Accepted`, and nothing else.

`RevocationExperiment` is what a cycle is to whoever reads its report, without
goroutines, barriers, retries or deadlines: a certificate is issued, met as good by
every profile (`Probe`), and revoked (`Revoke`, or `Abandon`); evidence appears or is
given up once (`Confirm`, `GiveUp`); every profile is observed once, a client only
when all it needs is there, unless it reports a harness failure (`Observe`); the
verdict follows from conclusive observations (`Conclude`); and a compensating revoke is tried just
when the issuer never acknowledged the first (`Return`). The refinement
(`ImplementsExperiment`) maps a barrier to the evidence it stands for, `poll` and its
attempts to nothing, and `pc` to four stages.

### BaselineState, MonotonicRegister, BaselineStateProofs

`verifyAndAdvanceBaselineState` as run by several agents on one state file. A
step per system call that matters: lock, read, validate, write the temporary
file, sync it, rename, sync the directory, unlock. `file` is what processes see,
`synced` what survives a power loss for certain, `pending` what may survive one.
`Faults` selects which of kills, failing directory syncs and power losses an
instance admits, and `met` remembers which have happened, so that a property can
ask for what holds until then; calls before the rename fail in every instance. A digest is
represented by the baseline it is the digest of.
`MonotonicRegister` is the abstract promise: the durable record only advances.

### EvidenceStore, EvidenceArchive, EvidenceStoreProofs

What becomes of a report: `persistCommandEvidence`, then `finalizeCycle`, by
several processes on one evidence directory. `step` is the sink a process writes
to, `sub` the system call it is at; `refs` and `raw` are what the report in
memory references and still holds; `archived`, `failed` are `reportArchived` and
`len(errs) > 0`; `verdict` is what `finalizeCycle` returned. A file is absent,
partial or complete and belongs to a run; `vis` is what processes see, `disk` the
set of what a power loss may leave.

* New files (`writeNewPrivateRootFile`): `Create`, `Write`, `Sync`, `SyncDir`,
  `Exists` (EEXIST), `CreateFails`, `WriteFails` (with a removal that may fail).
* Copies (`writeAtomicPrivateRootFile` with `replace`, `writeAttestation`):
  `Prepare` (the synced temporary file), `Rename`, `SyncCopy`, `CopyFails`.
* `finalizeCycle`: `Sign`, `SignFails`, `Emit`.
* Environment: `Kill`, `PowerLoss`. `MaxFailures` bounds what goes wrong.

A run draws its cycle ID when it begins, and it may be one already in use: IDs
are random UUIDs, but the code defends against a conflict, and that defence is
checked. `alone` remembers the run that began last, if no other was under way.
Left out: directories
(the evidence root and the cycle's directories are taken as durable once made),
file modes, name sanitising, and the early return on a report that cannot be
marshalled, which no `CycleReport` triggers. `persistCycleArtifacts` is one step
of `ProbeCycle`. That finalizeCycle comes to its end is stated as a safety
property (`CycleEnds`: until a run has its verdict, some process is in it and can
take a step), because no step of it waits for anybody.

`EvidenceArchive` is what the store promises to those who verify evidence later:
records, each written once, by the run that owns it and under a cycle ID it drew
(`Begin`, `Add`, `Return`, `PowerLoss`); no record is replaced or removed, an
envelope is added only beside the report of its own run, and nil is returned only
over a complete set. In the refinement (`ImplementsArchive`) a record is a file whose
complete contents are all that a power loss can leave of it.

### TrustStoreEval, DriftAgent, DriftAgentProofs

`TrustStoreEval` is `evaluateTrustStore`, clause by clause: `Exact`,
`LegacyCertificates` (an entry of an older agent names a key only and admits one
certificate), `PolicyChanged`, `Reissued`, `Unknown`, `Replaced`, and the two
budgets of EXPECTED_ROOT_REMOVED (`MissingOf`). Its loops over maps become sets and
cardinalities. `OneToOne` is the reference: roots and certificates correspond. `Sound`
says what `rootEntry` and `validateBaseline` leave of a baseline's roots: each
certificate once, with its own key.

`DriftAgent` is the process around it. `scan` is the scan of `cmdServe` and `current`
what `/metrics`, `/events` and `/readyz` read. `loadVerifiedBaseline` reads the baseline
file (`ReadBaseline`), verifies it with the public key (`VerifyBaseline`) and asks the
state file last (`AdvanceState`); `LoadFails` is its error returns. `loadTrustStore`
takes a step per file: a bundle is opened by its name, a directory is listed when the
walk comes to it (`ListDirectory`) and its files are then read one after the other
(`ReadFile`); one that was not listed is not read, and one that is gone or cannot be
read is passed over (`PassOver`). `Publish` ends the scan. `Paths` gives the files in
the order in which they are read, `store` what each holds. Directories are flat, and it
is their files that are replaced, not the directories themselves. The reading of one
file is one step, and so is `cmdBaseline`'s own reading of the store. `signing` is
`cmdBaseline`: `PrepareNext` (`--next-from`) or `PrepareFirst`, then
`loadOrCreateSigningKey` (`KeyThere`, `KeyTorn`, `CreateKey`, `WriteKey`) and the
in-place writes of public key and baseline, a step for the truncation and one for the
contents. Environment: a file replaced, added or removed (`ChangeStore`) or given
another name (`Rename`) between any two steps of a scan, `PutBack` of an older baseline,
`Tick`, `SigningEnds`, `Kill` with a restart. `cmdCheck` is one scan.

### CanaryServer, CanaryServerProofs

The accept loop (`Accept`, `Register`, and its end: `LoopExits` at a closed listener,
`AcceptFails` at any other error, after which an open listener goes on queueing
connections that nobody serves until Close), a handler per connection
(`Receive` of the ClientHello, `Handshake`, `Write`, `WriteFails`, and its deferred
calls `Unregister`, `CloseConn`, `Done`), `SetOCSPStaple`, and `Close` for any number
of callers (`OnceFirst`, `OnceDone` for `sync.Once`; `CloseListener`, `AcceptDone`,
`Snapshot`, `CloseActive`, `AllClosed`, `HandlersDone`). `conns` is `Server.conns`,
`active` the snapshot taken of it. `WaitReachable`, which nothing calls, is left out.

### CredentialRenewal, CredentialRenewalProofs

Two loops in ticks: `maintainToken` (watcher, re-login, the pause after a failed
login), which the probe and demo-api run, and demo-api's `renewalController`
(wait, issue, backoff). Vault goes up and down at any time. Timers count down and
no tick passes over one that is due. The watcher is Vault's library: it renews
when it likes, and ends before the token does (`Grace`).

### StatusOracles, ChaosSweep, StatusOraclesProofs, ChaosSweepProofs

`StatusOracles` is what `opensslOCSPDirect` and `crlCheck` conclude from a signed
document: freshness (`checkOCSPFreshness`, `checkCRLFreshness`), revocation time
(`checkRevocationTime`) and issuer (`validateCRLIssuer`), in the order of the code,
beside a reference that uses intervals (`OCSPTruth`, `CRLTruth`). The empty reason of
the code, which means that a check is passed, is "NONE" there.

`ChaosSweep` is `cmdChaos` with `SweepDetailed` and the delaying proxy: `NextDelay`,
`SetDelay`, trials, `RecordTrial`; a trial is a cycle as its direct oracle sees it
(`StartTrial`, `Preflight`, `Revoke`, `PollDirect`, `PollCRL`, `EndTrial`);
`handlers` are the requests in the proxy, abandoned ones (`GiveUp`) included;
`Shutdown`, `ShutdownEnds`, `ServeReturns` and `Close` are `LatencyProxy.Close`.

### MC modules

`MCProbeCycle` gives the three shipped manifests and one more, and has TLC evaluate that
the loader accepts them and refuses variants with one entry wrong; `MCBaselineState`
gives a chain of three generations and an equivocating second one; `MCEvidenceStore`
gives the evidence of a preflight and of a result; `MCDriftAgent` gives two roots that
share a key and one that shares a subject, a bundle and a directory of two files, and
baselines with entries of older agents; `MCChaosSweep` gives the delays and the status
documents around every boundary; `MCCanaryServer` names peers and callers.
`CredentialRenewal` is checked with its own constants. Definitions preceded by a comment
"Slip" are deliberately wrong variants of the definition that follows them, used to make
sure that a property notices the mistake.

## Runs

| Run | Instance | Shows |
|---|---|---|
| `probe_cycle` | stapling on, an OCSP oracle, a strict and a plain client, enforced policy, 2 attempts, 2 instants | `NoStaleAcceptance`, `TimelineCausal`, `AllJoined`, `CanaryNotForgotten`, `ValidComplete`, `ImplementsExperiment` (refinement), `Returns` (liveness) |
| `probe_oracles` | stapling off, two OCSP oracles and a CRL oracle, a client waiting for both sources, 3 instants | `ReleasedByEvidence`, `BarrierTruthful`, `RevokeAfterPreflight` with several confirmations |
| `probe_leak` | one oracle, one client | violates `EveryIssuedCanaryCompensated` |
| `baseline_faults` | 2 agents, 4 baselines, kills, failing directory syncs and power losses | `NeverTorn`, `NoRollback`, `ChainFollowed`, `ImplementsRegister` (refinement), `LockReleased` (liveness) |
| `baseline_replay` | the same with kills and power losses | violates `ReplaysRefused` |
| `store_faults` | 2 processes, 2 runs, 2 cycle IDs, 3 artifacts, 2 failures, kills and power losses | `EvidenceKept`, `AttestedReport`, `LastPair`, `CycleEnds`, `ImplementsArchive` (refinement) |
| `store_torn` | 1 process, kills | violates `ArchivedWhole` |
| `drift` | 3 certificates, a bundle and a directory of 2 files, 2 first baselines or none, 2 changes, 1 kill | `DriftSeen`, `RemovalsCounted`, `LoadFaithful`, `SignedUnderKeptKey`, `NoStaleBaseline`, `Converges` (liveness) |
| `canary` | 2 peers, silent or not, 2 callers of Close, 2 staples | `NothingLeft`, `StapleCurrent`, `SnapshotComplete`, `CloseReturns` and `PeersReleased` (liveness) |
| `renewal` | a token of 5 ticks renewable up to 9, a certificate of 14, any outages | `TokenRecovers`, `CertRecovers`, `NeverAbandoned` and `Stops` (liveness) |
| `chaos` | complete set of profiles, 2 trials per delay, lists `<<1, 1>>`, `<<2, 0>>`, `<<2, -1>>`, one abandoned request | `OracleTruthful`, `OwnDelay`, `StatsOfLastSeries`, `CleanTrialsConfirm`, `SweepEnds` (liveness) |
| `chaos_void` | the profiles that `cmdChaos` enables | violates `CleanTrialsConfirm` |

Bounds. Two attempts give a first, a repeated and an exhausted poll. Two or three
instants let an event fall before, at and after another, with
`PreflightMaxAge = 1` on both sides of the limit. One profile of each kind, or
two where they compete, is enough because profiles interact only through the
barriers of their kind. Two agents and three generations let one agent be
overtaken twice while it waits. In the store runs a group of two artifacts has a
first and a last file, two runs let copies of an earlier one be in the way, and
two failures let a failed call be followed by another or by a crash. In `drift` two
certificates share a key and two a subject, so that every class of drift and
every use of a budget occurs. Two files in one directory let a file go away, appear or
take another name between the listing and its own turn, before or behind the file being
read; two changes let a store change under a scan and change back, or a baseline be
signed and the old one put back. Two peers let one
be accepted while another is handled or waits in the queue. In `renewal` the
constants are ordered as the code's are; a tick is the grain below which the order
of two timers does not matter. `chaos` repeats a delay, follows a longer one by
none, and ends a list early; documents have each field at, just inside and just
outside its limit. Stale stapling, which differs from "off" in the staple served,
is covered by the proofs, which hold for every mode.

Deadlock is not checked in the probe, store, drift, canary, renewal and chaos
runs: `RunOnce` is over when it returns, the store rests when all runs are done,
an agent's clock and changes are bounded, a closed server, a stopped service and
an ended command do nothing more. What must not get stuck there is stated as
liveness or as `CycleEnds`.

Fairness. `ProbeCycle`: goroutines that can run do run; every probe and remote call
carries a timeout and `max_wait` passes, so polling and refreshing end; nothing is
assumed of the issuer's publication or of cancellation. `BaselineState`: an agent
that holds the lock calls nothing that waits, so it goes on unless it is killed.
`EvidenceStore` needs none. `DriftAgent`: the ticker fires, no step of a scan waits
for anybody, and compose restarts the agent (`restart: unless-stopped`); nobody has
to finish signing. `CanaryServer`: goroutines are scheduled, and a handler's deadline
passes; nobody has to connect, staple or close. `CredentialRenewal`: time passes and
both goroutines run; Vault need never recover. `ChaosSweep`: the command runs on,
attempts end at their timeout, and `Serve` returns once its listener is closed;
nothing is assumed of the responder or of handlers that wait for it.

## Proofs

Every theorem about a specification follows from an inductive invariant, the last
definitions of each module (`CycleInv`, `IndInv`, `StoreInv`, `AgentInv`,
`ServerInv`, `RenewalInv`, `SweepInv`), with the module's type invariant as its
first part. Others hold beside it: `ReportInv`, `ServiceOrder`, `FailureOrder` and
`ExperimentOrder` of `ProbeCycle`, `PairInv`, `FileOwner` and `CycleHeld` of
`EvidenceStore`, `VerdictInv` of `DriftAgent`, `SnapshotOrder` of `CanaryServer` and
`AttemptOrder` of `ChaosSweep`. TLC found each of them to hold on the instances above before it was
proved; the runs check what the invariants are for.

`ProbeCycleProofs` proves, for every scenario and choice of profiles that the loader
accepts, any number of attempts and any clock bound, that `CycleInv` is an invariant (`CycleInvariance`), and
from it `BarriersTellTheTruth`, `ClientsAwaitEvidence`,
`StaleStapleNeverAccepted`, `CanaryCompensated` and `RevokeNeedsPreflight`. None of
these is inductive alone. That a released client saw the revoked staple
(`NoStaleAcceptance`) needs that the staple barrier is satisfied only after the
refresher has served it (`StapleOrder`, `BarrierTruthful`), that a client counts a
dependency only when its barrier is satisfied (`ReleasedByEvidence`,
`WaitOrder`), that oracle groups deliver before their barrier closes
(`GroupOrder`), and that no goroutine has moved before the revoke (`Unstarted`);
`CanaryNotForgotten` needs the deferred cleanup's order (`CleanupOrder`) and
`RevokeAfterPreflight` the join of the preflight goroutines (`PreflightOrder`).
`TypeStep` shows type correctness of a step; `MainFrame`, `DeliverFrame`,
`ObserverStep` and `CertStep` show what each kind of step leaves alone, so that the
main lemma `NextCycleInv` treats one action at a time. With `CycleInv` known,
`ReportInvariance` proves `ReportInv`, and from it `TimelineInCausalOrder`
(`TimelineCausal`), `EveryGoroutineJoined` (`AllJoined`) and `ValidMeansComplete`
(`ValidComplete`). The revoke starts every goroutine and the join waits for all of
them (`JoinOrder`); the refresher has written its shared times and its error before
it closes its barrier (`ShareOrder`); a probe that ended has a result, timed or an
error (`ResultOrder`); nothing is timed ahead of the clock (`ClockOrder`); and
nothing after the verdict takes it back (`VerdictOrder`). `QuietFrame`,
`EarlyFrame` and `ObserveFrame` say what a step leaves alone at each stage,
`DeliverReport`, `GoroutineReport` and `MainReport` treat the actions.

Three more theorems link the static checks to the run. `NobodyWaitsInVain`
(`EveryWaitServed`): a client waits for a barrier that is settled, or that oracles,
who wait for nobody, or the refresher are still to settle. `CycleNeverStuck`
(`NeverStuck`): between the revoke and the join somebody can always go on, the part of
`Returns` that needs no fairness; a step of a goroutine leads to one still there, or
to the join. `NothingFailsUntried` (`ProducersTried`): a barrier a client waits for
fails only after an enabled producer tried and ended without the evidence. They rest on
`ServiceOrder` (oracles wait for nobody, the acknowledgement is there, an open staple
barrier has a refresher) and `FailureOrder` (why a barrier was failed). That there
is such a producer is `Configured`, the lemma that turns `Accepted` into facts about
`Deps` and the oracles; the sorted list is taken apart by `SortedList`. Without
`ValidateEnabledProfiles` `EveryWaitServed` would still hold, because an empty oracle
group fails its barrier at once, and `ProducersTried` would not.

`ExperimentImplemented` proves the refinement (`ImplementsExperiment`). It needs
`ExperimentOrder` (`ExperimentInvariance`): a result appears with the last step of its
goroutine (`ResultAppears`), the join leaves nothing open (`JoinCloses`), and the
cleanup is armed exactly as long as the acknowledgement is missing. Each kind of step
is then shown to be one of the experiment's or to change nothing it shows: `SetupShown`,
`PreflightShown`, `RevokeShown`, `PollShown` and `AwaitShown` (over `ResultShown`, which
says that a client's dependencies are there when it observes), `PublicationShown` and
`RefreshShown` (over `EvidenceDecided`), and `EndShown`, where the verdict is given:
`evaluate` stops at the first profile that offends, and `FirstOffends` finds it.

`CycleGoesForward` (`OnlyForward`) proves that every step takes the main goroutine, a
preflight, a poll, a barrier, the refresher or the environment forward and none back:
no wait is entered twice, a repeated probe is counted, what was decided is not decided
again (`MainForward`, `PreflightForward`, `PollForward`, `AwaitForward`,
`BarrierForward`, `RefreshForward`). A cycle is therefore a bounded number of steps, and with
`CycleNeverStuck` all that is left of `Returns` for TLC is the scheduler's fairness.

`BaselineStateProofs` proves, for any set of agents, baselines and faults:
`Invariance` (`Spec => []IndInv`), `StateNeverTorn`, `NeverRolledBack`
(`NoRollback`), `ChainNeverSkipped` and `DurableMonotonic` (the refinement).
`NoRollback` alone
is not inductive: that the candidate may be accepted is decided against `seen`,
two steps before the rename. `IndInv` therefore adds that only the lock holder
is inside (`LockHeld`), that `seen` still is the file and the decision still
stands (`DecisionCurrent`), that what is durable trails the file in sequence
(`DurableBehind`), and that the file, or under power loss the durable contents,
covers the last acceptance (`AcceptedRecorded`, `AcceptedDurable`).
`NeverRolledBack` says what holds until the host has lost power, or as long as no
agent was killed and no directory sync failed; `baseline_replay` shows what happens
otherwise. SHA-256 is assumed injective.

`EvidenceStoreProofs` proves, for any processes, runs, cycle IDs and evidence and
every choice of faults, `StoreInvariance`, `EnvelopeBesideReport`
(`AttestedReport`), `EvidenceNeverLost`, `NilIsDurable` and `DurableImmutable`
(`Immutable`, which the refinement contains), and, from `PairInv`,
`LastCopiesTogether` (`LastPair`). The argument
rests on `DurableStep`: a file that is durable holds no
pending contents, and a process between creating and syncing a file finds its own,
not yet durable contents there (`FileOrder`), so no step touches a durable file. That
needs a run in the hands of one process (`RunOrder`); that an envelope is allowed only
where the report is durable needs what `reportArchived` stands for
(`ArchiveOrder`), and that nil means durable needs what a process without an error
has got done at each sink (`DoneOrder`). `TargetFile`, `GotoStep`, `AfterStep`,
`FailedStep`, `EndStep`, `EvidenceWritten` and `SinkWritten` say what the helpers of
the actions do, `OthersStep` what a step leaves alone. No run lists
`NilMeansDurable`, because the refinement below contains it: nil is returned over a
complete set of records. For the last-cycle copies, a run that is still alone has the
only process at work (`Solitary`), and the copies which that process passed without
an error are its own (`PairOrder`). Assumed (`StoreAssumption`): there is evidence, and no artifact is named like the report.

`ArchiveImplemented` proves the refinement (`ImplementsArchive`). `SyncDir` adds the
record, `Emit` and `Kill` return, a power loss is one, and every other step leaves
the records as they are, because as long as a file is not durable its absence is
among what a power loss may leave. That a record belongs to a run that drew the ID in
its name is `OwnerInvariance` (`FileOwner`).

`CyclesHeld` (`CycleHeld`) and `CyclesGoForward` (`OnlyForward`) prove of `CycleEnds`
what does not speak of `ENABLED`: a cycle under way is in the hands of a process that is
at a system call of the sink it writes to, and each of its steps, also one that fails,
leads to a later file, sink or call. There is no retry and no loop; what is left to
TLC is that the process can take the step it is at.

`DriftAgentProofs` proves `AgentInvariance`, `KeyNeverLost` (`SignedUnderKeptKey`),
`ScanFaithful` (`LoadFaithful`), `NeverShowsOlder` (`NoStaleBaseline`),
`VerdictInvariance` (`VerdictInv`), `VerdictExact` (`DriftSeen`) and `RemovalsExact`
(`RemovalsCounted`) for any files, directories, certificates, generations and changes. A
scan is faithful because a file in which something stayed is among those listed of its
directory, and what stayed in the files passed is among what was seen (`ScanOrder`). It
says nothing of a certificate that moves between two files: a scan that passes the file
it moves to before the move, or listed the directory when that file was not there, and
reaches the file it left after the move, misses it and may report it removed.
`Converges` is what holds of such a host: the scans after it see the certificate again.
Results never go back because the scan's baseline is the one recorded, which only
advances (`SequenceOrder`); the key is kept because it is whole before anything it signs
is written (`KeyOrder`).

`VerdictExact` and `RemovalsExact` are about `evaluateTrustStore` itself. Of each key as
many roots are reported missing as it has roots more than certificates, whatever the
two budgets did (`MissingOfKey`, by arithmetic on the five counts involved), and the
removals are the sum of that over all keys (`MissingIsSum`). A verdict without drift
gives each certificate a root - the entry that names it or the one legacy entry of its
key - and no two the same; as no key has more roots than certificates, every root is
taken (`CleanMeansOneToOne`). Conversely a one-to-one correspondence leaves nothing to
report (`OneToOneMeansClean`). Sums are taken one element at a time, and what holds of
them (`SumExists` to `SumZero`) is shown by a least counterexample, since induction is
out of reach. `VerdictInv` carries this to what the agent publishes. Assumed
(`AgentAssumption`): the roots a first baseline is made of are `Sound`, as
`rootEntry` makes and `validateBaseline` demands them; that those of later baselines are is proved.

`CanaryServerProofs` proves `ServerInvariance`, `CloseLeavesNothing`,
`SnapshotCovers` and `StapleNeverOlder` for any peers and callers. That nothing is
left needs that one caller at a time does the work (`OneCloser`), that what it has
reached - the listener closed, the loop ended, the handlers gone - holds for good
(`CloseOrder`, `LoopOrder`), and that open sockets belong to handlers
(`OpenAccepted`).

Two theorems are the safety halves of `CloseReturns` and `PeersReleased`.
`CloseWaitsForNoPeer` (`CloseUnhindered`): the accept loop that Close waits for has a
closed listener and at most one connection in hand, and every handler it waits for has
lost its socket, so that Close returns whatever peers do and without a deadline having
to pass; it needs that what is open of the registered connections is still in the
snapshot (`SnapshotOrder`). `ServerGoesForward` (`OnlyForward`): no step takes a
connection, the accept loop or a caller of Close back, so each comes to its end in a
bounded number of steps of the server.

`CredentialRenewalProofs` proves `RenewalInvariance`, `TokenAlwaysRecovers` and
`CertAlwaysRecovers` for any lifetimes and pauses ordered as `RenewalAssumption`
says. The invariant ties the time left on each timer to the time since Vault came
back (`TokenClock`, `CertClock`).

`StatusOraclesProofs` proves, for every answer of a responder, validity period and
freshness policy, that the oracles agree with the reference: `OCSPOracleSound` and
`CRLOracleSound`. The lemmas `FirstFailedOf4` and `FirstFailedOf2` turn the code's
early returns into conjunctions, which `OCSPFreshness`, `CRLFreshness` and
`RevocationTime` compare with intervals. Assumed is that a field holds one time or
none (`Field`).

`ChaosSweepProofs` proves, for any delays, trials, attempts, profiles and documents,
`SweepInvariance`, `DelayIsOwn` (`OwnDelay`), `OraclesTruthful`, `StatsMatchLog`
(`StatsOfLastSeries`) and `CompleteProfilesConfirm`: with a client among the profiles
`CleanTrialsConfirm` holds, so what `chaos_void` shows is due to the missing client.
The delay in force is the series' own, and at most one request is waited for, at the
points where an oracle asks (`RequestOrder`); a clean trial has seen good before the
revocation and revoked after it, under that delay (`CleanOrder`), which is where
`OwnDelay` is needed; the running statistics are the count of the log so far
(`LogOrder`, `TallyStep`). `SetDelayStep`, `TrialStep`, `RecordTrialStep`,
`ProxyStep` and `OuterStep` treat the actions, `LogFrame` and `Elsewhere` what they
leave alone. `SweepGoesForward` (`OnlyForward`) is the safety half of `SweepEnds`:
whatever the responder, the handlers and the interrupt do, the command goes on to a
later delay, a later trial, a later step of its cycle or a further attempt, and attempts
are bounded (`AttemptsBounded`, `AttemptOrder`).

Only model-checked: liveness (`Returns`, `LockReleased`, `Converges`, `CloseReturns`,
`PeersReleased`, `NeverAbandoned`, `Stops`, `SweepEnds`) and `CycleEnds`, which uses
`ENABLED`, both outside the prover's reach. Of `Returns`, `CloseReturns`,
`PeersReleased`, `SweepEnds` and `CycleEnds` the parts that need neither fairness nor
`ENABLED` are proved, as said above.

## Findings

1. `baseline_replay`: a scan that finds its baseline already in the state file
   reports it valid without syncing the directory (`main.go:753`).
2. `probe_leak`: a certificate issued by a request that returns an error is
   never compensated (`runner.go:194`).
3. `store_torn`: the per-cycle report and envelope are created under their final
   name before they are written, so a kill leaves a partial file for good
   (`evidence.go:277`).
4. `chaos_void`: `cmdChaos` enables the direct OCSP oracle only, and `RunOnce`
   refuses a configuration without a client, so that every trial of every sweep is
   recorded as a harness error (`cmd/probe/main.go:529`).

## Plan

Done, in this order: `ProbeCycle` with `RevocationExperiment`, `BaselineState` with `MonotonicRegister`,
`EvidenceStore` with `EvidenceArchive`, `TrustStoreEval` with `DriftAgent`,
`CanaryServer`, `CredentialRenewal`, `StatusOracles` with `ChaosSweep`, and
`ScenarioContracts`, each with its proofs. Left:

1. The evidence directories (`ensurePrivateRootDir`), whose parent's failed sync the
   next cycle does not repeat.
2. The safety halves of the remaining liveness properties, as `NeverStuck` and
   `OnlyForward` are of `Returns`: of `LockReleased`, for which `LockHeld` already says
   who must let go, of `Converges`, `NeverAbandoned` and `Stops`.
3. The fault modes of the chaos proxy other than delay, and the executor's one
   request.

## Not modelled

Cryptography and encodings (attestation, OCSP, CRL and X.509 parsing), external
commands, HTTP, flags and environment, metrics and logs; YAML decoding, digests and
the durations of the configuration; Terraform, Vault and OPA policies, compose files, scripts and
dashboards, which configure other programs. The chaos proxy's fault modes other
than delay, which no command sets. The strict JSON and PEM parsers of the drift
agent, demo-api's HTTP handlers and boot-time secret, evidence directories and
file modes. `PROJECT.json` says of each component what is left out of it.
