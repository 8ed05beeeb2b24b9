---------------------------- MODULE BaselineState ----------------------------
(***************************************************************************)
(* The rollback protection of truststore-drift-agent: the transaction      *)
(* verifyAndAdvanceBaselineState that every check and every scan of serve  *)
(* runs on a shared state file, with the cross-process flock around it and *)
(* the write - fsync - rename - fsync(dir) sequence of                     *)
(* writeBaselineStateAtomic inside it.                                     *)
(*                                                                         *)
(* Several agents run at once, any of them may be handed any validly       *)
(* signed baseline (an old one too: a replay is exactly what the state is  *)
(* there to refuse), system calls fail, agents are killed and the host     *)
(* loses power.  SHA-256 is taken to be injective: a digest is represented *)
(* by the baseline it is the digest of.                                    *)
(***************************************************************************)
EXTENDS Naturals

CONSTANTS Procs,      \* agent processes sharing one --state path
          Baselines,  \* the validly signed, unexpired baselines in circulation
          Sequence,   \* Baseline.Sequence
          PreviousDigest,  \* Baseline.PreviousDigest
          None,       \* no process, no state file, no digest
          Torn,       \* contents that do not parse: a partially written file
          Faults      \* the faults this instance admits, besides failed system calls before the rename

ASSUME BaselineAssumption ==
  /\ Sequence \in [Baselines -> Nat \ {0}]
  /\ PreviousDigest \in [Baselines -> Baselines \cup {None}]
  /\ None \notin Baselines \cup Procs
  /\ Torn \notin Baselines \cup {None}
  /\ Faults \subseteq {"kill", "dirsync", "power"}

VARIABLES
  pc,       \* where each process is in verifyAndAdvanceBaselineState
  cand,     \* the baseline it loaded and verified
  seen,     \* the BaselineState it read
  tmp,      \* its temporary file: absent, written, or written and synced
  outcome,  \* what it is about to return
  lock,     \* the holder of the flock on .<state>.lock
  file,     \* the BaselineState the state file shows to running processes
  synced,   \* its contents as of the last directory sync: they survive a power loss
  pending,  \* contents renamed into place since, which may or may not survive one
  last,     \* the baseline most recently returned as valid (history)
  met       \* the kinds of fault that have happened so far (history)

vars == <<pc, cand, seen, tmp, outcome, lock, file, synced, pending, last, met>>

Steps == {"idle", "locking", "reading", "validating", "writing", "syncing",
          "renaming", "dirsync", "unlocking"}
Critical == Steps \ {"idle", "locking"}
State == Baselines \cup {None}

TypeOK ==
  /\ pc \in [Procs -> Steps]
  /\ cand \in [Procs -> State]
  /\ seen \in [Procs -> State]
  /\ tmp \in [Procs -> {"absent", "written", "synced"}]
  /\ outcome \in [Procs -> {"none", "valid", "refused", "failed"}]
  /\ lock \in Procs \cup {None}
  /\ file \in State \cup {Torn}
  /\ synced \in State \cup {Torn}
  /\ pending \in SUBSET (State \cup {Torn})
  /\ last \in State
  /\ met \subseteq Faults

(* One of the faults happens.                                                *)
Meets(f) == f \in Faults /\ met' = met \cup {f}

HighestSequence(s) == IF s = None THEN 0 ELSE Sequence[s]

Init ==
  /\ pc = [p \in Procs |-> "idle"]
  /\ cand = [p \in Procs |-> None]
  /\ seen = [p \in Procs |-> None]
  /\ tmp = [p \in Procs |-> "absent"]
  /\ outcome = [p \in Procs |-> "none"]
  /\ lock = None
  /\ file = None
  /\ synced = None
  /\ pending = {}
  /\ last = None
  /\ met = {}
-----------------------------------------------------------------------------
Goto(p, from, to) == pc[p] = from /\ pc' = [pc EXCEPT ![p] = to]

Return(p, result) == outcome' = [outcome EXCEPT ![p] = result]

(* loadVerifiedBaseline reads and verifies the distributed file before the   *)
(* lock is taken, so what it holds may be overtaken while it waits.          *)
LoadBaseline(p, b) ==
  /\ Goto(p, "idle", "locking")
  /\ cand' = [cand EXCEPT ![p] = b]
  /\ UNCHANGED <<seen, tmp, outcome, lock, file, synced, pending, last, met>>

(* Slip: no flock, as with a lock on a descriptor of its own.                *)
AcquireLockUnshared(p) ==
  /\ Goto(p, "locking", "reading")
  /\ lock' = p
  /\ UNCHANGED <<cand, seen, tmp, outcome, file, synced, pending, last, met>>

AcquireLock(p) ==
  /\ Goto(p, "locking", "reading")
  /\ lock = None
  /\ lock' = p
  /\ UNCHANGED <<cand, seen, tmp, outcome, file, synced, pending, last, met>>

(* Opening or locking the lock file fails: the scan reports an invalid       *)
(* baseline and nothing was touched.                                         *)
LockFails(p) ==
  /\ Goto(p, "locking", "idle")
  /\ cand' = [cand EXCEPT ![p] = None]
  /\ UNCHANGED <<seen, tmp, outcome, lock, file, synced, pending, last, met>>

ReadState(p) ==
  /\ Goto(p, "reading", "validating")
  /\ file # Torn
  /\ seen' = [seen EXCEPT ![p] = file]
  /\ UNCHANGED <<cand, tmp, outcome, lock, file, synced, pending, last, met>>

(* Slip: the sequence must be the next one, the digest is not compared.      *)
IsChainGap(b, s) == s # None /\ Sequence[b] > HighestSequence(s) + 1

IsRollback(b, s) == Sequence[b] < HighestSequence(s)
IsEquivocation(b, s) == s # None /\ Sequence[b] = HighestSequence(s) /\ s # b
IsChainMismatch(b, s) == s # None /\ Sequence[b] > HighestSequence(s) /\ PreviousDigest[b] # s

Refusable(b, s) == IsRollback(b, s) \/ IsEquivocation(b, s) \/ IsChainMismatch(b, s)

(* Slip: an error return that skips the unlock.                              *)
RefuseLocked(p) ==
  /\ Goto(p, "validating", "idle")
  /\ Refusable(cand[p], seen[p])
  /\ UNCHANGED <<cand, seen, tmp, outcome, lock, file, synced, pending, last, met>>

Refuse(p) ==
  /\ Goto(p, "validating", "unlocking")
  /\ Refusable(cand[p], seen[p])
  /\ Return(p, "refused")
  /\ UNCHANGED <<cand, seen, tmp, lock, file, synced, pending, last, met>>

(* The state already names this baseline: valid, with nothing to write.      *)
AlreadyCurrent(p) ==
  /\ Goto(p, "validating", "unlocking")
  /\ ~Refusable(cand[p], seen[p])
  /\ seen[p] = cand[p]
  /\ Return(p, "valid")
  /\ UNCHANGED <<cand, seen, tmp, lock, file, synced, pending, last, met>>

BeginAdvance(p) ==
  /\ Goto(p, "validating", "writing")
  /\ ~Refusable(cand[p], seen[p])
  /\ seen[p] # cand[p]
  /\ UNCHANGED <<cand, seen, tmp, outcome, lock, file, synced, pending, last, met>>

WriteTemp(p) ==
  /\ Goto(p, "writing", "syncing")
  /\ tmp' = [tmp EXCEPT ![p] = "written"]
  /\ UNCHANGED <<cand, seen, outcome, lock, file, synced, pending, last, met>>

(* Slip: tmp.Sync is not called.                                             *)
SyncTempSkipped(p) ==
  /\ Goto(p, "syncing", "renaming")
  /\ UNCHANGED <<cand, seen, tmp, outcome, lock, file, synced, pending, last, met>>

SyncTemp(p) ==
  /\ Goto(p, "syncing", "renaming")
  /\ tmp' = [tmp EXCEPT ![p] = "synced"]
  /\ UNCHANGED <<cand, seen, outcome, lock, file, synced, pending, last, met>>

(* The new entry is visible at once and durable only after the directory is  *)
(* synced; renaming a file whose data was never synced may leave a torn one. *)
RenameState(p) ==
  /\ Goto(p, "renaming", "dirsync")
  /\ file' = cand[p]
  /\ pending' = pending \cup {cand[p]} \cup (IF tmp[p] = "synced" THEN {} ELSE {Torn})
  /\ tmp' = [tmp EXCEPT ![p] = "absent"]
  /\ UNCHANGED <<cand, seen, outcome, lock, synced, last, met>>

(* Slip: the directory is not synced after the rename.                       *)
SyncDirSkipped(p) ==
  /\ Goto(p, "dirsync", "unlocking")
  /\ Return(p, "valid")
  /\ UNCHANGED <<cand, seen, tmp, lock, file, synced, pending, last, met>>

SyncDir(p) ==
  /\ Goto(p, "dirsync", "unlocking")
  /\ synced' = file
  /\ pending' = {}
  /\ Return(p, "valid")
  /\ UNCHANGED <<cand, seen, tmp, lock, file, last, met>>

(* A failed read, parse, create, write, sync or rename before the state file *)
(* is replaced: the deferred cleanup removes the temporary file.             *)
StepFails(p) ==
  /\ pc[p] \in {"reading", "writing", "syncing", "renaming"}
  /\ pc' = [pc EXCEPT ![p] = "unlocking"]
  /\ tmp' = [tmp EXCEPT ![p] = "absent"]
  /\ Return(p, "failed")
  /\ UNCHANGED <<cand, seen, lock, file, synced, pending, last, met>>

(* The directory cannot be opened, synced or closed: an error is returned,   *)
(* but the state file was already replaced.                                  *)
DirSyncFails(p) ==
  /\ Meets("dirsync")
  /\ Goto(p, "dirsync", "unlocking")
  /\ Return(p, "failed")
  /\ UNCHANGED <<cand, seen, tmp, lock, file, synced, pending, last>>

(* The deferred unlock, and the return to scanTrustStore.                    *)
Unlock(p) ==
  /\ Goto(p, "unlocking", "idle")
  /\ lock' = None
  /\ last' = IF outcome[p] = "valid" THEN cand[p] ELSE last
  /\ Return(p, "none")
  /\ cand' = [cand EXCEPT ![p] = None]
  /\ seen' = [seen EXCEPT ![p] = None]
  /\ UNCHANGED <<tmp, file, synced, pending, met>>
-----------------------------------------------------------------------------
(* The process is killed: the kernel drops its flock; a temporary file it    *)
(* leaves has a random name and is never looked at again.                    *)
Kill(p) ==
  /\ Meets("kill")
  /\ pc[p] # "idle"
  /\ pc' = [pc EXCEPT ![p] = "idle"]
  /\ cand' = [cand EXCEPT ![p] = None]
  /\ seen' = [seen EXCEPT ![p] = None]
  /\ tmp' = [tmp EXCEPT ![p] = "absent"]
  /\ outcome' = [outcome EXCEPT ![p] = "none"]
  /\ lock' = IF lock = p THEN None ELSE lock
  /\ UNCHANGED <<file, synced, pending, last>>

(* The host goes down: every process dies and the state file comes back with *)
(* one of the contents that may have reached the disk.                       *)
PowerLoss ==
  /\ Meets("power")
  /\ \E s \in pending \cup {synced} : file' = s /\ synced' = s
  /\ pending' = {}
  /\ pc' = [p \in Procs |-> "idle"]
  /\ cand' = [p \in Procs |-> None]
  /\ seen' = [p \in Procs |-> None]
  /\ tmp' = [p \in Procs |-> "absent"]
  /\ outcome' = [p \in Procs |-> "none"]
  /\ lock' = None
  /\ UNCHANGED last

Finish(p) == Refuse(p) \/ AlreadyCurrent(p) \/ BeginAdvance(p)
Publish(p) == WriteTemp(p) \/ SyncTemp(p) \/ RenameState(p) \/ SyncDir(p)

(* What a process that holds the lock does without waiting for anybody.      *)
Progress(p) == ReadState(p) \/ Finish(p) \/ Publish(p) \/ Unlock(p)

Next ==
  \/ \E p \in Procs :
       \/ \E b \in Baselines : LoadBaseline(p, b)
       \/ AcquireLock(p)
       \/ LockFails(p)
       \/ Progress(p)
       \/ StepFails(p)
       \/ DirSyncFails(p)
       \/ Kill(p)
  \/ PowerLoss

(* The transaction makes no call that waits once the lock is held, so a      *)
(* process that is not killed keeps taking its steps.                        *)
Fairness == \A p \in Procs : WF_vars(Progress(p))

Spec == Init /\ [][Next]_vars /\ Fairness
-----------------------------------------------------------------------------
(* Invariants                                                                *)

(* One agent at a time is between taking and releasing the flock, through    *)
(* failed calls and kills (the comment at main.go:715-719).                  *)
LockHeld == \A p \in Procs : pc[p] \in Critical <=> lock = p

(* What the lock holder decides on is the state as it is, and it writes only *)
(* what that state admits: the read-validate-write transaction is atomic.    *)
DecisionCurrent ==
  \A p \in Procs :
    /\ pc[p] # "idle" => cand[p] \in Baselines
    /\ pc[p] \in {"validating", "writing", "syncing", "renaming"} => seen[p] = file
    /\ pc[p] \in {"writing", "syncing", "renaming"} =>
         ~Refusable(cand[p], seen[p]) /\ seen[p] # cand[p]
    /\ pc[p] = "renaming" => tmp[p] = "synced"
    /\ pc[p] = "dirsync" => file = cand[p]
    /\ outcome[p] = "valid" => pc[p] = "unlocking" /\ file = cand[p]

(* After a crash or a power loss the state file always parses:               *)
(* writeBaselineStateAtomic never exposes a truncated or partially written   *)
(* file (main.go:787-790).                                                   *)
NeverTorn == file # Torn /\ Torn \notin pending \cup {synced}

(* What may survive a power loss is the state file's own contents or an      *)
(* older generation of it, never a newer or a different one, and never one   *)
(* older than what was durable already.                                      *)
DurableBehind ==
  /\ file \in pending \cup {synced}
  /\ \A s \in pending : HighestSequence(synced) < HighestSequence(s)
  /\ \A s \in pending \ {file} : HighestSequence(s) < HighestSequence(file)

(* s records at least the generation l.                                      *)
Covers(s, l) == l = None \/ l = s \/ HighestSequence(l) < HighestSequence(s)

(* Everything an agent has reported as valid is recorded by the state the    *)
(* next one will read.                                                       *)
AcceptedRecorded == "power" \notin met => Covers(file, last)

(* When no agent is killed and no directory sync fails, a state that is not  *)
(* durable yet belongs to the agent about to sync it, and everything         *)
(* reported as valid survives a power loss.                                  *)
AcceptedDurable ==
  met \cap {"kill", "dirsync"} = {} =>
    /\ pending # {} => \E p \in Procs : pc[p] = "dirsync"
    /\ Covers(synced, last)

(* The inductive invariant of the transaction: its types and the facts above *)
(* that each of its steps relies on.                                         *)
IndInv ==
  /\ TypeOK
  /\ LockHeld
  /\ DecisionCurrent
  /\ NeverTorn
  /\ DurableBehind
  /\ AcceptedRecorded
  /\ AcceptedDurable
-----------------------------------------------------------------------------
(* Properties of steps                                                       *)

(* A baseline older than, or different from but of the same sequence as, one *)
(* already reported valid is never reported valid: replays are refused       *)
(* (the BaselineState comment, main.go:61-63).                               *)
ReplaysRefused ==
  [][last # None => HighestSequence(last') > HighestSequence(last)]_last

(* What the code keeps of that promise: no replay as long as the host has    *)
(* not lost power, or no agent was killed and no directory sync has failed.  *)
NoRollback ==
  [][last # None /\ ("power" \notin met \/ met \cap {"kill", "dirsync"} = {}) =>
       HighestSequence(last') > HighestSequence(last)]_last

(* Until the host first loses power the state file only moves along the hash *)
(* chain: to a successor that names the recorded digest as its predecessor.  *)
ChainFollowed ==
  [][file # None /\ "power" \notin met' =>
       /\ HighestSequence(file') > HighestSequence(file)
       /\ PreviousDigest[file'] = file]_file

Register == INSTANCE MonotonicRegister WITH reg <- synced

(* The durable state is a register that only advances, whatever is killed,   *)
(* fails or loses power: the rename and its syncs never lose a generation    *)
(* that was durable.                                                         *)
ImplementsRegister == Register!Spec

(* No agent leaves the lock held: every path through the transaction, error  *)
(* returns included, reaches the deferred unlock.                            *)
LockReleased == \A p \in Procs : lock = p ~> lock # p
=============================================================================
