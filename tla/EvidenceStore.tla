---------------------------- MODULE EvidenceStore ----------------------------
(***************************************************************************)
(* What becomes of a cycle's report: persistCommandEvidence writes the raw *)
(* evidence of each profile to new files and replaces it by references,    *)
(* finalizeCycle then archives the report, refreshes the last-cycle        *)
(* copies, signs, archives the envelope and prints the report, each sink   *)
(* independently of the others.  Several probe processes may share one     *)
(* EVIDENCE_DIR; system calls fail, processes are killed and the host      *)
(* loses power.                                                            *)
(*                                                                         *)
(* A file is absent, or it is some run's and partly written or complete.   *)
(* `vis' is what running processes see of it, `disk' the set of what a     *)
(* power loss may leave of it.                                             *)
(***************************************************************************)
EXTENDS Naturals, Sequences

CONSTANTS
  Procs,     \* probe processes
  Runs,      \* executions of RunOnce followed by finalizeCycle
  Cycles,    \* cycle IDs
  Evidence,  \* the profiles' evidence in the order it is persisted: a sequence of sequences of files
  Signing,   \* an attestation key is configured
  Faults,    \* of "kill" and "power"
  MaxFailures, \* bound on the system calls that fail, the kills and the power losses together
  None

Last(g) == Len(Evidence[g])
Groups == 1..Len(Evidence)
Artifacts == UNION {{Evidence[g][i] : i \in 1..Last(g)} : g \in Groups}
Files == Cycles \X (Artifacts \cup {"report", "attestation"})
Copies == {"last-cycle", "last-attestation", "attestation-out"}

ASSUME StoreAssumption ==
  /\ Len(Evidence) \in Nat \ {0} /\ \A g \in Groups : Last(g) \in Nat \ {0}
  /\ {"report", "attestation"} \cap Artifacts = {}
  /\ Signing \in BOOLEAN
  /\ Faults \subseteq {"kill", "power"}
  /\ MaxFailures \in Nat
  /\ None \notin Runs \cup Cycles

VARIABLES
  run,      \* the run each process is in, or was in last
  step,     \* the sink it writes to
  sub,      \* where it is in writing it
  next,     \* the evidence it persists next: group and index
  archived, \* reportArchived
  failed,   \* errs is not empty
  refs,     \* per run: the artifacts its report references
  raw,      \* per run: the groups whose raw data its report still holds
  verdict,  \* per run: what finalizeCycle returned
  cycle,    \* per run: the cycle ID it drew
  alone,    \* history: the run that began last, if no other was in progress then
  file,     \* the per-cycle files
  copy,     \* the replaceable copies
  failures  \* what has gone wrong so far

vars == <<run, step, sub, next, archived, failed, refs, raw, verdict, cycle, alone, file, copy, failures>>
report == <<refs, raw, cycle, alone>>

Steps == {"idle", "evidence", "report", "last-cycle", "sign", "attestation",
          "last-attestation", "attestation-out", "stdout"}
Subs == {"create", "write", "sync", "syncdir", "temporary", "rename"}
Absent == <<None, "absent">>
Contents == {Absent} \cup (Runs \X {"partial", "complete"})
First == [group |-> 1, index |-> 1]

TypeOK ==
  /\ run \in [Procs -> Runs \cup {None}]
  /\ step \in [Procs -> Steps]
  /\ sub \in [Procs -> Subs]
  /\ next \in [Procs -> [group : Groups, index : Nat]]
  /\ \A p \in Procs : next[p].index \in 1..Last(next[p].group)
  /\ archived \in [Procs -> BOOLEAN]
  /\ failed \in [Procs -> BOOLEAN]
  /\ refs \in [Runs -> SUBSET Artifacts]
  /\ raw \in [Runs -> SUBSET Groups]
  /\ verdict \in [Runs -> {"unused", "running", "nil", "error", "killed"}]
  /\ cycle \in [Runs -> Cycles \cup {None}]
  /\ alone \in Runs \cup {None}
  /\ file \in [Files -> [vis : Contents, disk : SUBSET Contents]]
  /\ copy \in [Copies -> [vis : Runs \cup {None}, disk : SUBSET (Runs \cup {None})]]
  /\ failures \in 0..MaxFailures

Init ==
  /\ run = [p \in Procs |-> None]
  /\ step = [p \in Procs |-> "idle"]
  /\ sub = [p \in Procs |-> "create"]
  /\ next = [p \in Procs |-> First]
  /\ archived = [p \in Procs |-> FALSE]
  /\ failed = [p \in Procs |-> FALSE]
  /\ refs = [r \in Runs |-> {}]
  /\ raw = [r \in Runs |-> Groups]
  /\ verdict = [r \in Runs |-> "unused"]
  /\ cycle = [r \in Runs |-> None]
  /\ alone = None
  /\ file = [f \in Files |-> [vis |-> Absent, disk |-> {Absent}]]
  /\ copy = [k \in Copies |-> [vis |-> None, disk |-> {None}]]
  /\ failures = 0

(* One more of the bounded number of failures.                               *)
Fault ==
  /\ failures < MaxFailures
  /\ failures' = failures + 1
-----------------------------------------------------------------------------
(* RunOnce reaches the evidence of a cycle, whose ID was drawn at random and *)
(* may be another's.  The verdict on its results may be an error of its own. *)
Begin(p, r) ==
  /\ step[p] = "idle"
  /\ verdict[r] = "unused"
  /\ run' = [run EXCEPT ![p] = r]
  /\ step' = [step EXCEPT ![p] = "evidence"]
  /\ sub' = [sub EXCEPT ![p] = "create"]
  /\ \E cycleErr \in BOOLEAN : failed' = [failed EXCEPT ![p] = cycleErr]
  /\ verdict' = [verdict EXCEPT ![r] = "running"]
  /\ \E c \in Cycles : cycle' = [cycle EXCEPT ![r] = c]
  /\ alone' = IF \A q \in Procs : step[q] = "idle" THEN r ELSE None
  /\ UNCHANGED <<next, archived, refs, raw, file, copy, failures>>

Goto(p, s) ==
  /\ step' = [step EXCEPT ![p] = s]
  /\ sub' = [sub EXCEPT ![p] = IF s \in Copies THEN "temporary" ELSE "create"]

(* The sink that follows s in finalizeCycle.                                 *)
After(s) ==
  CASE s = "report" -> "last-cycle"
    [] s = "last-cycle" -> IF Signing THEN "sign" ELSE "stdout"
    [] s = "attestation" -> "last-attestation"
    [] s = "last-attestation" -> "attestation-out"
    [] OTHER -> "stdout"
-----------------------------------------------------------------------------
(* writeNewPrivateRootFile                                                   *)

Target(p) ==
  <<cycle[run[p]], IF step[p] = "evidence" THEN Evidence[next[p].group][next[p].index] ELSE step[p]>>

More(p) == next[p].index < Last(next[p].group)

(* The file was written: its evidence is referenced, and once the last file  *)
(* of its group is, the raw data is dropped; or the report is archived.      *)
Written(p) ==
  IF step[p] = "evidence"
  THEN LET g == next[p].group
           more == More(p) IN
       /\ refs' = [refs EXCEPT ![run[p]] = @ \cup {Evidence[g][next[p].index]}]
       /\ raw' = IF more THEN raw ELSE [raw EXCEPT ![run[p]] = @ \ {g}]
       /\ next' = [next EXCEPT ![p] =
            IF more THEN [group |-> g, index |-> @.index + 1]
            ELSE IF g < Len(Evidence) THEN [group |-> g + 1, index |-> 1] ELSE First]
       /\ Goto(p, IF more \/ g < Len(Evidence) THEN "evidence" ELSE "report")
       /\ UNCHANGED <<archived, cycle, alone>>
  ELSE /\ archived' = [archived EXCEPT ![p] = @ \/ step[p] = "report"]
       /\ Goto(p, After(step[p]))
       /\ UNCHANGED <<report, next>>

(* Slip: an error ends finalizeCycle before the report is printed.           *)
FailedSuppressed(p) ==
  /\ failed' = [failed EXCEPT ![p] = TRUE]
  /\ next' = [next EXCEPT ![p] = First]
  /\ Goto(p, "idle")

(* A failed write of evidence ends RunOnce, and finalizeCycle begins; a      *)
(* failed archive is noted, and finalizeCycle goes on.                       *)
Failed(p) ==
  /\ failed' = [failed EXCEPT ![p] = TRUE]
  /\ next' = [next EXCEPT ![p] = First]
  /\ Goto(p, IF step[p] = "evidence" THEN "report" ELSE After(step[p]))

NewFile == {"evidence", "report", "attestation"}

(* What running processes see from now on, and a power loss may leave.       *)
Changed(p, to) ==
  LET c == <<run[p], to>> IN [file EXCEPT ![Target(p)] = [vis |-> c, disk |-> @.disk \cup {c}]]

(* Slip: the file is opened without O_EXCL.                                  *)
CreateTruncating(p) ==
  /\ step[p] \in NewFile
  /\ sub[p] = "create"
  /\ file' = Changed(p, "partial")
  /\ sub' = [sub EXCEPT ![p] = "write"]
  /\ UNCHANGED <<run, step, next, archived, failed, report, verdict, copy, failures>>

(* O_EXCL: an existing file is never opened.                                 *)
Create(p) ==
  /\ step[p] \in NewFile
  /\ sub[p] = "create"
  /\ file[Target(p)].vis = Absent
  /\ file' = Changed(p, "partial")
  /\ sub' = [sub EXCEPT ![p] = "write"]
  /\ UNCHANGED <<run, step, next, archived, failed, report, verdict, copy, failures>>

(* EEXIST: another run's file, or what it left of it.                        *)
Exists(p) ==
  /\ step[p] \in NewFile
  /\ sub[p] = "create"
  /\ file[Target(p)].vis # Absent
  /\ Failed(p)
  /\ UNCHANGED <<run, archived, report, verdict, file, copy, failures>>

CreateFails(p) ==
  /\ Fault
  /\ step[p] \in NewFile
  /\ sub[p] = "create"
  /\ Failed(p)
  /\ UNCHANGED <<run, archived, report, verdict, file, copy>>

Write(p) ==
  /\ step[p] \in NewFile
  /\ sub[p] = "write"
  /\ file' = Changed(p, "complete")
  /\ sub' = [sub EXCEPT ![p] = "sync"]
  /\ UNCHANGED <<run, step, next, archived, failed, report, verdict, copy, failures>>

Sync(p) ==
  /\ step[p] \in NewFile
  /\ sub[p] = "sync"
  /\ file' = [file EXCEPT ![Target(p)].disk = @ \ {<<run[p], "partial">>}]
  /\ sub' = [sub EXCEPT ![p] = "syncdir"]
  /\ UNCHANGED <<run, step, next, archived, failed, report, verdict, copy, failures>>

(* Slip: the directory is not synced.                                        *)
SyncDirSkipped(p) ==
  /\ step[p] \in NewFile
  /\ sub[p] = "syncdir"
  /\ Written(p)
  /\ UNCHANGED <<run, failed, verdict, file, copy, failures>>

SyncDir(p) ==
  /\ step[p] \in NewFile
  /\ sub[p] = "syncdir"
  /\ file' = [file EXCEPT ![Target(p)].disk = {<<run[p], "complete">>}]
  /\ Written(p)
  /\ UNCHANGED <<run, failed, verdict, copy, failures>>

(* The file is removed again; that may fail as well and is not looked at.    *)
WriteFails(p) ==
  /\ Fault
  /\ step[p] \in NewFile
  /\ sub[p] \in {"write", "sync", "syncdir"}
  /\ \/ file' = [file EXCEPT ![Target(p)] = [vis |-> Absent, disk |-> @.disk \cup {Absent}]]
     \/ UNCHANGED file
  /\ Failed(p)
  /\ UNCHANGED <<run, archived, report, verdict, copy>>
-----------------------------------------------------------------------------
(* updateLatestCycleFile and writeAttestation: a synced temporary file is    *)
(* renamed over the copy and the directory is synced                         *)

Prepare(p) ==
  /\ step[p] \in Copies
  /\ sub[p] = "temporary"
  /\ sub' = [sub EXCEPT ![p] = "rename"]
  /\ UNCHANGED <<run, step, next, archived, failed, report, verdict, file, copy, failures>>

Rename(p) ==
  /\ step[p] \in Copies
  /\ sub[p] = "rename"
  /\ copy' = [copy EXCEPT ![step[p]] = [vis |-> run[p], disk |-> @.disk \cup {run[p]}]]
  /\ sub' = [sub EXCEPT ![p] = "syncdir"]
  /\ UNCHANGED <<run, step, next, archived, failed, report, verdict, file, failures>>

(* Slip: the directory of a copy is not synced.                              *)
SyncCopySkipped(p) ==
  /\ step[p] \in Copies
  /\ sub[p] = "syncdir"
  /\ Goto(p, After(step[p]))
  /\ UNCHANGED <<run, next, archived, failed, report, verdict, file, copy, failures>>

SyncCopy(p) ==
  /\ step[p] \in Copies
  /\ sub[p] = "syncdir"
  /\ copy' = [copy EXCEPT ![step[p]].disk = {copy[step[p]].vis}]
  /\ Goto(p, After(step[p]))
  /\ UNCHANGED <<run, next, archived, failed, report, verdict, file, failures>>

CopyFails(p) ==
  /\ Fault
  /\ step[p] \in Copies
  /\ Failed(p)
  /\ UNCHANGED <<run, archived, report, verdict, file, copy>>
-----------------------------------------------------------------------------
(* finalizeCycle                                                             *)

(* Slip: reportArchived is not looked at.                                    *)
SignAlways(p) ==
  /\ step[p] = "sign"
  /\ Goto(p, "attestation")
  /\ UNCHANGED <<run, next, archived, failed, report, verdict, file, copy, failures>>

(* An envelope is archived only beside the report it was made for.           *)
Sign(p) ==
  /\ step[p] = "sign"
  /\ Goto(p, IF archived[p] THEN "attestation" ELSE "last-attestation")
  /\ UNCHANGED <<run, next, archived, failed, report, verdict, file, copy, failures>>

SignFails(p) ==
  /\ Fault
  /\ step[p] = "sign"
  /\ failed' = [failed EXCEPT ![p] = TRUE]
  /\ Goto(p, "stdout")
  /\ UNCHANGED <<run, next, archived, report, verdict, file, copy>>

(* The process leaves finalizeCycle, or is gone, with its local variables.   *)
End(p, v) ==
  /\ verdict' = [verdict EXCEPT ![run[p]] = v]
  /\ Goto(p, "idle")
  /\ next' = [next EXCEPT ![p] = First]
  /\ archived' = [archived EXCEPT ![p] = FALSE]
  /\ failed' = [failed EXCEPT ![p] = FALSE]
  /\ UNCHANGED <<run, report, file, copy>>

(* writeReport, which may fail, and the return of errors.Join(errs...).      *)
Emit(p) ==
  /\ step[p] = "stdout"
  /\ \/ UNCHANGED failures /\ End(p, IF failed[p] THEN "error" ELSE "nil")
     \/ Fault /\ End(p, "error")
-----------------------------------------------------------------------------
Kill(p) ==
  /\ "kill" \in Faults
  /\ Fault
  /\ step[p] # "idle"
  /\ End(p, "killed")

(* Every file comes back with contents that may have reached the disk.       *)
Unsettled(s) == {f \in DOMAIN s : s[f].disk # {s[f].vis}}
Settled(s, to) ==
  [f \in DOMAIN s |-> IF f \in DOMAIN to THEN [vis |-> to[f], disk |-> {to[f]}] ELSE s[f]]

PowerLoss ==
  /\ "power" \in Faults
  /\ Fault
  /\ \E f \in [Unsettled(file) -> Contents] :
       /\ \A n \in DOMAIN f : f[n] \in file[n].disk
       /\ file' = Settled(file, f)
  /\ \E k \in [Unsettled(copy) -> Runs \cup {None}] :
       /\ \A n \in DOMAIN k : k[n] \in copy[n].disk
       /\ copy' = Settled(copy, k)
  /\ verdict' = [r \in Runs |-> IF verdict[r] = "running" THEN "killed" ELSE verdict[r]]
  /\ step' = [p \in Procs |-> "idle"]
  /\ sub' = [p \in Procs |-> "create"]
  /\ next' = [p \in Procs |-> First]
  /\ archived' = [p \in Procs |-> FALSE]
  /\ failed' = [p \in Procs |-> FALSE]
  /\ UNCHANGED <<run, report>>

WriteNew(p) == Create(p) \/ Write(p) \/ Sync(p) \/ SyncDir(p) \/ Exists(p) \/ CreateFails(p) \/ WriteFails(p)
Replace(p) == Prepare(p) \/ Rename(p) \/ SyncCopy(p) \/ CopyFails(p)
Finalize(p) == WriteNew(p) \/ Replace(p) \/ Sign(p) \/ SignFails(p) \/ Emit(p)

Next ==
  \/ \E p \in Procs : (\E r \in Runs : Begin(p, r)) \/ Finalize(p) \/ Kill(p)
  \/ PowerLoss

Spec == Init /\ [][Next]_vars
-----------------------------------------------------------------------------
(* Invariants                                                                *)

(* Run r's contents of f are what everybody sees, and survive a power loss.  *)
Durable(r, f) == file[f] = [vis |-> <<r, "complete">>, disk |-> {<<r, "complete">>}]

(* An archived envelope - even one that is only partly written, and even one *)
(* that only a power loss would bring back - lies beside the complete and    *)
(* durable report of the same run ("an existing conflicting report must not  *)
(* acquire an envelope for different canonical bytes", main.go:241-243).     *)
AttestedReport ==
  \A c \in Cycles : \A x \in {file[<<c, "attestation">>].vis} \cup file[<<c, "attestation">>].disk :
    x # Absent => Durable(x[1], <<c, "report">>)

(* No evidence is lost: whatever a report references is this run's and       *)
(* durable, and raw data leaves the report only when all of its group is     *)
(* referenced (persistCommandEvidence, evidence.go:17-19).                   *)
EvidenceKept ==
  \A r \in Runs :
    /\ \A a \in refs[r] : Durable(r, <<cycle[r], a>>)
    /\ \A g \in Groups \ raw[r] : \A i \in 1..Last(g) : Evidence[g][i] \in refs[r]

(* When finalizeCycle returned nil the report, all its evidence and the      *)
(* envelope are durable: no failed sink goes unreported.                     *)
NilMeansDurable ==
  \A r \in Runs : verdict[r] = "nil" =>
    /\ Durable(r, <<cycle[r], "report">>)
    /\ raw[r] = {} /\ refs[r] = Artifacts
    /\ Signing => Durable(r, <<cycle[r], "attestation">>)

(* A run that began while no other process was in a cycle, and that returned *)
(* nil before another began, leaves the last-cycle report and both copies of *)
(* its envelope as its own, and a power loss does not separate them, however *)
(* earlier runs of this or of other processes ended (finalizeCycle).         *)
LastPair ==
  alone # None /\ verdict[alone] = "nil" =>
    \A k \in IF Signing THEN Copies ELSE {"last-cycle"} :
      copy[k] = [vis |-> alone, disk |-> {alone}]

(* The rest of the inductive invariant of EvidenceStoreProofs                *)

(* A run is in the hands of one process, with a cycle ID of its own.         *)
RunOrder ==
  /\ \A p \in Procs : step[p] # "idle" =>
       run[p] \in Runs /\ cycle[run[p]] \in Cycles /\ verdict[run[p]] = "running"
  /\ \A p, q \in Procs : step[p] # "idle" /\ step[q] # "idle" /\ run[p] = run[q] => p = q
  /\ \A p \in Procs : step[p] # "evidence" => next[p] = First
  /\ \A r \in Runs : IF verdict[r] = "unused" THEN refs[r] = {} /\ raw[r] = Groups ELSE cycle[r] \in Cycles

(* What a process has created and not yet synced is its own, and may still   *)
(* be lost.                                                                  *)
FileOrder ==
  /\ \A f \in Files : file[f].vis \in file[f].disk
  /\ \A p \in Procs : step[p] \in NewFile /\ sub[p] \in {"write", "sync", "syncdir"} =>
       /\ file[Target(p)].vis = <<run[p], IF sub[p] = "write" THEN "partial" ELSE "complete">>
       /\ Absent \in file[Target(p)].disk

(* What reportArchived stands for, and when it allows an envelope.           *)
ArchiveOrder ==
  \A p \in Procs :
    /\ archived[p] => step[p] # "idle" /\ Durable(run[p], <<cycle[run[p]], "report">>)
    /\ step[p] = "attestation" => archived[p]

(* What a process without an error has got done.                             *)
Done(p) ==
  /\ step[p] = "evidence" =>
       \A i \in 1..Last(next[p].group) : i < next[p].index => Evidence[next[p].group][i] \in refs[run[p]]
  /\ step[p] # "idle" /\ ~failed[p] =>
       /\ step[p] = "evidence" => \A g \in raw[run[p]] : g >= next[p].group
       /\ step[p] # "evidence" => raw[run[p]] = {}
       /\ step[p] \notin {"evidence", "report"} => archived[p]
       /\ step[p] \in {"last-attestation", "attestation-out"} \/ (step[p] = "stdout" /\ Signing) =>
            Durable(run[p], <<cycle[run[p]], "attestation">>)

DoneOrder == \A p \in Procs : Done(p)

(* Runs, files, reportArchived and the errors collected are in step          *)
(* (persistCommandEvidence, finalizeCycle).                                  *)
StoreInv ==
  /\ TypeOK /\ RunOrder /\ FileOrder /\ ArchiveOrder /\ DoneOrder
  /\ AttestedReport /\ EvidenceKept /\ NilMeansDurable

(* While the run that began alone is still alone, the copies its process has *)
(* got through without an error are its own.                                 *)
Own(k) == copy[k] = [vis |-> alone, disk |-> {alone}]
CopiesBefore(s) ==
  CASE s \in {"sign", "attestation", "last-attestation"} -> {"last-cycle"}
    [] s = "attestation-out" -> {"last-cycle", "last-attestation"}
    [] s = "stdout" -> IF Signing THEN Copies ELSE {"last-cycle"}
    [] OTHER -> {}

PairOrder ==
  alone # None => \A p \in Procs : step[p] # "idle" =>
    /\ run[p] = alone
    /\ step[p] \in Copies /\ sub[p] = "syncdir" => copy[step[p]].vis = alone
    /\ ~failed[p] => \A k \in CopiesBefore(step[p]) : Own(k)

PairInv == PairOrder /\ LastPair

(* Per-cycle files are published whole: one that nobody is writing is        *)
(* complete or absent ("durably publishes an evidence file after its content *)
(* is synced", writeAtomicPrivateRootFile, evidence.go:265-266; "Per-cycle   *)
(* report and attestation files use atomic create-without-replacement",      *)
(* docs/experiments.md:19).                                                  *)
ArchivedWhole ==
  \A f \in Cycles \X {"report", "attestation"} :
    file[f].vis[2] = "partial" => \E p \in Procs : run[p] = file[f].vis[1] /\ step[p] # "idle"

(* A file that was durably written is never replaced, truncated or removed,  *)
(* not even by another run that drew the same cycle ID                       *)
(* (writeNewPrivateRootFile).                                                *)
Immutable == [][\A r \in Runs : \A f \in Files : Durable(r, f) => file'[f] = file[f]]_file

(* What a file holds was written by a run that drew the cycle ID in its name *)
(* (finalizeCycle's paths), and a run that has not begun has none.           *)
FileOwner ==
  /\ \A f \in Files : \A x \in {file[f].vis} \cup file[f].disk : x # Absent => cycle[x[1]] = f[1]
  /\ \A r \in Runs : verdict[r] = "unused" => cycle[r] = None

(* The run whose complete contents a file holds for good, if any.            *)
Recorded ==
  [f \in Files |-> IF file[f].vis[2] = "complete" /\ file[f].disk = {file[f].vis}
                   THEN file[f].vis[1] ELSE None]

(* To its readers the directory is an archive of records written once, in    *)
(* which an envelope follows the report it signs, and which is complete when *)
(* finalizeCycle returns nil ("Historical verification must use the          *)
(* per-cycle files", evidence.go:243-244).                                   *)
Archive == INSTANCE EvidenceArchive WITH
  Names <- Artifacts \cup {"report", "attestation"},
  Required <- Artifacts \cup {"report"} \cup IF Signing THEN {"attestation"} ELSE {},
  archive <- Recorded,
  status <- verdict

ImplementsArchive == Archive!Spec

(* Where a process is in writing fits what it writes.                        *)
InStep(p) ==
  /\ step[p] \in NewFile => sub[p] \in {"create", "write", "sync", "syncdir"}
  /\ step[p] \in Copies => sub[p] \in {"temporary", "rename", "syncdir"}

(* A run without a verdict is in the hands of a process, which is in the     *)
(* middle of a sink and has one of its actions before it: nothing drops a    *)
(* cycle before writeReport and the return but the loss of its process.      *)
CycleHeld ==
  /\ \A p \in Procs : InStep(p)
  /\ \A r \in Runs : verdict[r] = "running" => \E p \in Procs : run[p] = r /\ step[p] # "idle"

(* The order in which a cycle's evidence, sinks and system calls come.       *)
StepNo(s) ==
  CASE s = "evidence" -> 1 [] s = "report" -> 2 [] s = "last-cycle" -> 3 [] s = "sign" -> 4
    [] s = "attestation" -> 5 [] s = "last-attestation" -> 6 [] s = "attestation-out" -> 7
    [] OTHER -> 8
SubNo(s) ==
  CASE s \in {"create", "temporary"} -> 1 [] s \in {"write", "rename"} -> 2 [] s = "sync" -> 3
    [] OTHER -> 4

Forward(p) ==
  \/ StepNo(step[p]) < StepNo(step'[p])
  \/ /\ step'[p] = step[p]
     /\ \/ next[p].group < next'[p].group
        \/ next[p].group = next'[p].group /\ next[p].index < next'[p].index
        \/ next'[p] = next[p] /\ SubNo(sub[p]) < SubNo(sub'[p])

(* A cycle only goes forward: each of its steps, also one that fails, leads  *)
(* to a later file, sink or system call, so that no write is retried, no     *)
(* sink visited twice, and no step of another process moves it               *)
(* (persistCommandEvidence, finalizeCycle).                                  *)
OnlyForward ==
  [][\A p \in Procs : step[p] # "idle" /\ step'[p] # "idle" =>
       IF Finalize(p) THEN Forward(p) ELSE UNCHANGED <<run[p], step[p], sub[p], next[p]>>]_vars

(* Every cycle that begins comes to writeReport and the return, whichever    *)
(* sinks failed before, unless its process was killed: until it has its      *)
(* verdict some process is in it, and can go on (main.go:220-223).           *)
CycleEnds ==
  \A r \in Runs : verdict[r] = "running" =>
    \E p \in Procs : run[p] = r /\ step[p] # "idle" /\ ENABLED Finalize(p)
=============================================================================
