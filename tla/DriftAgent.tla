----------------------------- MODULE DriftAgent -----------------------------
(***************************************************************************)
(* truststore-drift-agent as it runs: `serve' scans the host's trust store *)
(* again and again, file by file, while administrators change those files, *)
(* the operator's `baseline' command signs the next generation (key pair   *)
(* and baseline are written in place), an older baseline may be put back,  *)
(* certificates and baselines expire, and either process may be killed.    *)
(*                                                                         *)
(* What verifyAndAdvanceBaselineState does to the state file is one step   *)
(* here: BaselineState shows that the file implements such a register.     *)
(***************************************************************************)
EXTENDS TrustStoreEval, Sequences

CONSTANTS
  Paths,        \* the files loadTrustStore may find, in the order it reads them: the
                \* directory each is in, or Bundle for one that is opened by its name
  Bundle,
  Absent,       \* what a file holds that is not there (or cannot be read)
  Stores,       \* the initial contents of the files
  Updates,      \* the contents a file may be given later
  FirstRoots,   \* the roots a first baseline may name
  Lifetime,     \* --expires-in
  MaxTime,      \* bound on the clock
  MaxChanges,   \* bound on the changes to the store, the baselines signed and those put back
  MaxFaults     \* bound on the processes killed

Index == 1..Len(Paths)

ASSUME AgentAssumption ==
  /\ Len(Paths) \in Nat \ {0}
  /\ Updates \subseteq {Absent} \cup SUBSET Certs
  /\ Stores \subseteq [Index -> {Absent} \cup SUBSET Certs]
  /\ \A roots \in FirstRoots : Sound(roots)
  /\ Lifetime \in Nat \ {0}

VARIABLES
  store,     \* what each file holds
  now,       \* the clock
  key,       \* the signing key's file
  public,    \* the public key's file
  artefact,  \* the baseline file
  signing,   \* the baseline command: where it is, what it writes
  signed,    \* every baseline signed so far (history)
  accepted,  \* the baseline the state file records
  scan,      \* the scan in progress, or the last one
  steady,    \* what each file has held ever since the scan in progress began (history)
  ever,      \* what any file has held since (history)
  current,   \* the result that /metrics, /events and /readyz read
  shown,     \* the sequence of the last baseline a result was published for (history)
  changes, faults

files == <<key, public, artefact>>
agent == <<accepted, scan, current, shown>>
vars == <<store, now, files, signing, signed, agent, steady, ever, changes, faults>>

File == {"absent", "torn", "whole"}
NoBaseline == [id |-> 0, sequence |-> 0, previous |-> 0, roots |-> {}, expires |-> 0]
Torn == [NoBaseline EXCEPT !.id = -1]
Clean == [unknown |-> 0, missing |-> 0, changed |-> 0, expired |-> 0, expiring |-> 0]
Idle == [at |-> "idle", baseline |-> NoBaseline]
NoScan == [at |-> "down", since |-> 0, baseline |-> NoBaseline, next |-> 1, walk |-> Bundle,
           listed |-> {}, seen |-> {}, found |-> FALSE]

Unscanned == [i \in Index |-> {}]

Failure(valid) == [valid |-> valid, success |-> FALSE, result |-> Clean]
Underway == scan.at \notin {"down", "waiting"}
Contents(s) == [i \in Index |-> IF s[i] = Absent THEN {} ELSE s[i]]
Observed(s) == UNION {Contents(s)[i] : i \in Index}
Readable(s) == \E i \in Index : s[i] # Absent

Root == (UNION FirstRoots) \cup {RootEntry(c) : c \in Certs}
Baseline == [id : Int, sequence : Nat, previous : Int, roots : SUBSET Root, expires : Nat]

Signing == [at : {"idle", "key", "private", "public", "publish", "truncate", "write"},
            baseline : Baseline]
Scan == [at : {"down", "load", "verify", "advance", "read", "publish", "waiting"},
         since : Nat, baseline : signed \cup {NoBaseline}, next : 1..Len(Paths) + 1,
         walk : {Bundle} \cup {Paths[i] : i \in Index}, listed : SUBSET Index,
         seen : SUBSET Certs, found : BOOLEAN]

TypeOK ==
  /\ store \in [Index -> {Absent} \cup SUBSET Certs]
  /\ now \in Nat
  /\ key \in File /\ public \in File
  /\ artefact \in signed \cup {NoBaseline, Torn}
  /\ signing \in Signing
  /\ signed \subseteq Baseline /\ IsFiniteSet(signed)
  /\ accepted \in signed \cup {NoBaseline}
  /\ scan \in Scan
  /\ steady \in [Index -> SUBSET Certs]
  /\ shown \in Nat

(* A host with a baseline of an earlier deployment, or with none yet.        *)
Init ==
  /\ store \in Stores
  /\ now = 0
  /\ \/ /\ key = "whole" /\ public = "whole"
        /\ \E roots \in FirstRoots : \E expires \in {0, Lifetime} :
             artefact = [id |-> 1, sequence |-> 1, previous |-> 0, roots |-> roots, expires |-> expires]
        /\ signed = {artefact}
     \/ key = "absent" /\ public = "absent" /\ artefact = NoBaseline /\ signed = {}
  /\ signing = Idle
  /\ accepted = NoBaseline
  /\ scan = NoScan
  /\ steady = Unscanned
  /\ ever = {}
  /\ current = Failure(FALSE)
  /\ shown = 0
  /\ changes = 0
  /\ faults = 0

Change == changes < MaxChanges /\ changes' = changes + 1
Fault == faults < MaxFaults /\ faults' = faults + 1
-----------------------------------------------------------------------------
(* The host                                                                  *)

HoldNow(contents) ==
  /\ store' = contents
  /\ steady' = [i \in Index |-> steady[i] \cap Contents(contents)[i]]
  /\ ever' = IF Underway THEN ever \cup Observed(contents) ELSE {}
  /\ UNCHANGED <<now, files, signing, signed, agent, faults>>

(* A file is replaced, added or removed.                                     *)
ChangeStore(i, contents) ==
  /\ Change
  /\ contents # store[i]
  /\ HoldNow([store EXCEPT ![i] = contents])

(* A file is given another name, in its directory or elsewhere.              *)
Rename(i, j) ==
  /\ Change
  /\ i # j /\ store[i] # Absent
  /\ HoldNow([store EXCEPT ![j] = store[i], ![i] = Absent])

(* An older baseline is put back, by a deployment or by anybody else.        *)
PutBack(b) ==
  /\ Change
  /\ signing.at = "idle"
  /\ artefact' = b
  /\ UNCHANGED <<store, now, key, public, signing, signed, agent, steady, ever, faults>>

Tick ==
  /\ now < MaxTime
  /\ now' = now + 1
  /\ UNCHANGED <<store, files, signing, signed, agent, steady, ever, changes, faults>>
-----------------------------------------------------------------------------
(* cmdBaseline                                                               *)

(* With --next-from the previous baseline is verified and followed, without  *)
(* it a first generation is made.  The roots are those of the store.         *)
NextFrom(b) == [sequence |-> b.sequence + 1, previous |-> b.id]
FirstOf == [sequence |-> 1, previous |-> 0]

Prepare(from) ==
  /\ Change
  /\ signing.at = "idle"
  /\ Readable(store)
  /\ LET roots == {RootEntry(c) : c \in Observed(store)} IN
       /\ ValidBaseline(roots)
       /\ signing' = [at |-> "key",
                      baseline |-> [id |-> Cardinality(signed) + 1,
                                    sequence |-> from.sequence, previous |-> from.previous,
                                    roots |-> roots, expires |-> now + Lifetime]]
  /\ UNCHANGED <<store, now, files, signed, agent, steady, ever, faults>>

Verified(b) == b \notin {NoBaseline, Torn} /\ public = "whole"

PrepareNext == Verified(artefact) /\ Prepare(NextFrom(artefact))
PrepareFirst == Prepare(FirstOf)

Step(from, next) ==
  /\ signing.at = from
  /\ signing' = next
  /\ UNCHANGED <<store, now, agent, steady, ever, changes, faults>>
At(from, to) == Step(from, [signing EXCEPT !.at = to])
Ends(from) == Step(from, Idle)

(* Slip: the key is written by the first call that needs it.                 *)
CreateKeyLater == key = "absent" /\ At("key", "public") /\ UNCHANGED <<files, signed>>

(* loadOrCreateSigningKey: a key that is there must parse; otherwise the     *)
(* command ends.                                                             *)
KeyThere == key = "whole" /\ At("key", "public") /\ UNCHANGED <<files, signed>>
KeyTorn == key = "torn" /\ Ends("key") /\ UNCHANGED <<files, signed>>
CreateKey == key = "absent" /\ At("key", "private") /\ key' = "torn" /\ UNCHANGED <<public, artefact, signed>>
WriteKey == At("private", "public") /\ key' = "whole" /\ UNCHANGED <<public, artefact, signed>>

(* os.WriteFile truncates the file and then fills it.                        *)
TruncatePublic == At("public", "publish") /\ public' = "torn" /\ UNCHANGED <<key, artefact, signed>>
WritePublic == At("publish", "truncate") /\ public' = "whole" /\ UNCHANGED <<key, artefact, signed>>
TruncateBaseline == At("truncate", "write") /\ artefact' = Torn /\ UNCHANGED <<key, public, signed>>

WriteBaseline ==
  /\ Ends("write")
  /\ artefact' = signing.baseline
  /\ signed' = signed \cup {signing.baseline}
  /\ UNCHANGED <<key, public>>

(* The command is killed, or a write fails: what it wrote stays.             *)
SigningEnds ==
  /\ Fault
  /\ signing.at # "idle"
  /\ signing' = Idle
  /\ UNCHANGED <<store, now, files, signed, agent, steady, ever, changes>>

Sign ==
  \/ PrepareNext \/ PrepareFirst \/ SigningEnds
  \/ KeyThere \/ KeyTorn \/ CreateKey \/ WriteKey
  \/ TruncatePublic \/ WritePublic \/ TruncateBaseline \/ WriteBaseline
-----------------------------------------------------------------------------
(* cmdServe and scanTrustStore                                               *)

Begin(from) ==
  /\ scan.at = from
  /\ scan' = [NoScan EXCEPT !.at = "load", !.since = now]
  /\ steady' = Contents(store)
  /\ ever' = Observed(store)
  /\ UNCHANGED <<store, now, files, signing, signed, accepted, current, shown, changes, faults>>

Start == Begin("down")

(* Slip: the loop ends with the first scan that fails.                       *)
TickerStops == current.success /\ Begin("waiting")
Ticker == Begin("waiting")

Unexpired(b) == now <= b.expires

(* Slip: any successor of an accepted baseline is taken, and any older one.  *)
AdvancesAny(b) == TRUE

(* verifyAndAdvanceBaselineState.                                            *)
Advances(b) ==
  \/ b = accepted
  \/ accepted = NoBaseline
  \/ b.sequence > accepted.sequence /\ b.previous = accepted.id

Acceptable(b) == Verified(b) /\ Unexpired(b) /\ Advances(b)

Scans(next) ==
  /\ scan' = next
  /\ UNCHANGED <<store, now, files, signing, signed, steady, ever, current, shown, changes, faults>>

(* loadVerifiedBaseline reads the baseline, then the public key it verifies  *)
(* it with, and looks at the state file last.                                *)
ReadBaseline ==
  /\ scan.at = "load"
  /\ artefact \notin {NoBaseline, Torn}
  /\ Scans([scan EXCEPT !.at = "verify", !.baseline = artefact])
  /\ UNCHANGED accepted

VerifyBaseline ==
  /\ scan.at = "verify"
  /\ public = "whole" /\ Unexpired(scan.baseline)
  /\ Scans([scan EXCEPT !.at = "advance"])
  /\ UNCHANGED accepted

AdvanceState ==
  /\ scan.at = "advance"
  /\ Advances(scan.baseline)
  /\ Scans([scan EXCEPT !.at = "read"])
  /\ accepted' = scan.baseline

(* BASELINE_INVALID.                                                         *)
LoadFails ==
  /\ \/ scan.at = "load" /\ artefact \in {NoBaseline, Torn}
     \/ scan.at = "verify" /\ ~(public = "whole" /\ Unexpired(scan.baseline))
     \/ scan.at = "advance" /\ ~Advances(scan.baseline)
  /\ Scans([scan EXCEPT !.at = "publish", !.baseline = NoBaseline])
  /\ UNCHANGED accepted

(* deduplicateCertificates: only identical ones are dropped.                 *)
Together(seen, contents) == seen \cup contents

(* loadTrustStore opens the bundles by their names.  WalkDir lists a         *)
(* directory first; its callback then reads file by file.                    *)
ListDirectory ==
  /\ scan.at = "read"
  /\ LET d == Paths[scan.next] IN
       /\ d \notin {Bundle, scan.walk}
       /\ Scans([scan EXCEPT !.walk = d, !.listed = {i \in Index : Paths[i] = d /\ store[i] # Absent}])
  /\ UNCHANGED accepted

(* A file that was not listed is not read, and one that is gone or cannot be *)
(* read is passed over.                                                      *)
Past(i, listed, contents, found) ==
  Scans([scan EXCEPT !.next = i + 1,
                     !.listed = listed,
                     !.seen = Together(@, contents),
                     !.found = @ \/ found,
                     !.at = IF i = Len(Paths) THEN "publish" ELSE "read"])
PassOver(i, listed) == Past(i, listed, {}, FALSE)

ReadsNow(i) == Paths[i] = Bundle \/ (Paths[i] = scan.walk /\ i \in scan.listed)

(* Slip: the callback returns the error, which ends the walk.                *)
ReadFileOrStop ==
  /\ scan.at = "read"
  /\ LET i == scan.next IN
       \/ ReadsNow(i) /\ store[i] # Absent /\ Past(i, scan.listed, store[i], TRUE)
       \/ ReadsNow(i) /\ store[i] = Absent /\ PassOver(i, {})
       \/ ~ReadsNow(i) /\ Paths[i] = scan.walk /\ PassOver(i, scan.listed)
  /\ UNCHANGED accepted

ReadFile ==
  /\ scan.at = "read"
  /\ LET i == scan.next IN
       \/ ReadsNow(i) /\ store[i] # Absent /\ Past(i, scan.listed, store[i], TRUE)
       \/ ReadsNow(i) /\ store[i] = Absent /\ PassOver(i, scan.listed)
       \/ ~ReadsNow(i) /\ Paths[i] = scan.walk /\ PassOver(i, scan.listed)
  /\ UNCHANGED accepted

Result(s) ==
  IF s.baseline = NoBaseline THEN Failure(FALSE)
  ELSE IF ~s.found THEN Failure(TRUE)
  ELSE [valid |-> TRUE, success |-> TRUE, result |-> Evaluate(s.baseline.roots, s.seen, s.since)]

(* The events are logged, and the result replaces the current one.           *)
Publish ==
  /\ scan.at = "publish"
  /\ current' = Result(scan)
  /\ shown' = IF scan.baseline = NoBaseline THEN shown ELSE scan.baseline.sequence
  /\ scan' = [scan EXCEPT !.at = "waiting", !.walk = Bundle, !.listed = {}]
  /\ steady' = Unscanned /\ ever' = {}
  /\ UNCHANGED <<store, now, files, signing, signed, accepted, changes, faults>>

(* The agent is killed; its container is started again.                      *)
Kill ==
  /\ Fault
  /\ scan.at # "down"
  /\ scan' = NoScan
  /\ current' = Failure(FALSE)
  /\ steady' = Unscanned /\ ever' = {}
  /\ UNCHANGED <<store, now, files, signing, signed, accepted, shown, changes>>

Serve ==
  \/ Start \/ Ticker
  \/ ReadBaseline \/ VerifyBaseline \/ AdvanceState \/ LoadFails
  \/ ListDirectory \/ ReadFile
  \/ Publish

Next ==
  \/ \E i \in Index : \E contents \in Updates : ChangeStore(i, contents)
  \/ \E i, j \in Index : Rename(i, j)
  \/ \E b \in signed : PutBack(b)
  \/ Tick
  \/ Sign
  \/ Serve
  \/ Kill

(* The ticker fires, no step of a scan waits for anybody, and the container  *)
(* is restarted "unless-stopped".  Nobody has to finish signing.             *)
Spec == Init /\ [][Next]_vars /\ WF_vars(Serve)
-----------------------------------------------------------------------------
(* The inductive invariant of DriftAgentProofs                               *)

(* The key is whole before anything that it signs is written.                *)
KeyOrder ==
  (signing.at \in {"public", "publish", "truncate", "write"} \/ signed # {}) => key = "whole"

(* A scan in progress, and the result shown last, are about the baseline     *)
(* that is recorded, or about an earlier one.                                *)
SequenceOrder ==
  /\ scan.at \notin {"verify", "advance"} => scan.baseline \in {NoBaseline, accepted}
  /\ shown <= accepted.sequence

(* What stayed in the files passed is seen, what is seen was there, and a    *)
(* file of the directory being walked in which something stayed is listed.   *)
ScanOrder ==
  /\ scan.at \in {"down", "load", "verify", "advance"} => scan.next = 1 /\ scan.walk = Bundle
  /\ scan.at \in {"verify", "advance"} => scan.baseline # NoBaseline
  /\ scan.at = "read" => scan.next \in Index
  /\ \A i \in Index : steady[i] \subseteq Contents(store)[i]
  /\ Underway => Observed(store) \subseteq ever /\ scan.seen \subseteq ever
  /\ \A i \in Index : i < scan.next => steady[i] \subseteq scan.seen
  /\ scan.walk # Bundle =>
       \A i \in Index : Paths[i] = scan.walk /\ steady[i] # {} => i \in scan.listed
  /\ scan.seen # {} => scan.found
  /\ scan.at \in {"publish", "waiting"} /\ scan.baseline # NoBaseline => scan.next = Len(Paths) + 1

(* The key, the baseline file, the state and the scan are in step            *)
(* (cmdBaseline, scanTrustStore).                                            *)
AgentInv == TypeOK /\ KeyOrder /\ SequenceOrder /\ ScanOrder
-----------------------------------------------------------------------------
(* Properties                                                                *)

Published == scan.at = "waiting" /\ current.success

(* The verdict of a scan is zero exactly when the certificates it saw and    *)
(* the roots of its baseline correspond one to one and none of them has      *)
(* expired: no sibling of a known key, no replacement and no removal is      *)
(* missed, and none is invented ("every detected drift class, including a    *)
(* root whose certificate or policy changed in place, is a non-zero policy   *)
(* result", checkExitCode).                                                  *)
DriftSeen ==
  Published =>
    (CheckExitCode(current.result) = 0 <=>
       /\ OneToOne(scan.baseline.roots, scan.seen)
       /\ \A c \in scan.seen : scan.since <= NotAfter[c])

(* Of each key as many roots are reported removed as there are certificates  *)
(* too few ("a single sibling certificate must never hide removal of         *)
(* multiple baseline roots", "Consume it once so replacement is not          *)
(* double-counted as removal", evaluateTrustStore).                          *)
RemovalsCounted ==
  Published =>
    current.result.missing =
      MapThenSumSet(LAMBDA k : Less(Cardinality(Candidates(scan.baseline.roots, k)),
                                    Cardinality(WithKey(scan.seen, k))),
                    {SPKI[c] : c \in Certs} \cup {r.spki : r \in scan.baseline.roots})

(* What the two verdicts above rest on: every baseline describes             *)
(* certificates, and what is published is the result of the last scan.       *)
VerdictInv ==
  /\ \A b \in signed \cup {signing.baseline} : Sound(b.roots)
  /\ scan.at = "waiting" => current = Result(scan)

(* However files are replaced, renamed and removed under a scan, and whenever *)
(* the directories were listed, it sees every certificate that stayed in one *)
(* file, and none that was in none; a scan under which one stayed does not   *)
(* fail for want of a trust store.  (A certificate that moves from file to   *)
(* file may be missed by a scan: Converges is what holds of it.)             *)
(* loadTrustStore.                                                           *)
LoadFaithful ==
  scan.at = "publish" /\ scan.baseline # NoBaseline =>
    LET stayed == UNION {steady[i] : i \in Index} IN
      /\ stayed \subseteq scan.seen /\ scan.seen \subseteq ever
      /\ stayed # {} => scan.found

(* The results published never go back to an older baseline, not even across *)
(* restarts and when an older one is put back (the BaselineState comment,    *)
(* main.go:61-63).                                                           *)
NoStaleBaseline == [][shown' >= shown]_shown

(* Whatever the command is interrupted in, the key of every baseline in      *)
(* circulation is kept, so that the next generation can be signed with it    *)
(* (loadOrCreateSigningKey before WriteFile of the baseline, cmdBaseline).   *)
SignedUnderKeptKey == signed # {} => key = "whole"

Truth ==
  IF ~Acceptable(artefact) THEN Failure(FALSE)
  ELSE IF ~Readable(store) THEN Failure(TRUE)
  ELSE [valid |-> TRUE, success |-> TRUE, result |-> Evaluate(artefact.roots, Observed(store), now)]

(* Once the host, the baseline and the processes are left alone, the result  *)
(* served becomes and stays the verdict on the host as it is: lasting drift  *)
(* is reported, a repaired store is reported clean again, and neither an     *)
(* invalid baseline nor a failed scan ends the loop (cmdServe).              *)
Converges == <>[](current = Truth)
=============================================================================
