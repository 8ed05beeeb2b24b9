------------------------- MODULE EvidenceStoreProofs -------------------------
(***************************************************************************)
(* Proofs about EvidenceStore for any processes, runs, cycle IDs and       *)
(* evidence, every choice of admitted faults and any number of failures.   *)
(***************************************************************************)
EXTENDS EvidenceStore, TLAPS

(* The names of the evidence are no other file's.                            *)
LEMMA EvidenceNames ==
  ASSUME NEW g \in Groups, NEW i \in 1..Last(g)
  PROVE  Evidence[g][i] \in Artifacts /\ Evidence[g][i] \notin {"report", "attestation"}
<1>1. Evidence[g][i] \in Artifacts
  BY DEF Artifacts
<1> QED
  BY <1>1, StoreAssumption

(* What a process that writes a new file writes to.                          *)
LEMMA TargetFile ==
  ASSUME TypeOK, RunOrder, NEW p \in Procs, step[p] \in NewFile
  PROVE  /\ Target(p) \in Files /\ run[p] \in Runs /\ cycle[run[p]] \in Cycles
         /\ Target(p)[1] = cycle[run[p]]
         /\ step[p] = "evidence" =>
              Target(p)[2] = Evidence[next[p].group][next[p].index] /\ Target(p)[2] \in Artifacts
         /\ step[p] # "evidence" => Target(p)[2] = step[p] /\ step[p] \in {"report", "attestation"}
<1>1. run[p] \in Runs /\ cycle[run[p]] \in Cycles
  BY DEF NewFile, RunOrder
<1>2. next[p].group \in Groups /\ next[p].index \in 1..Last(next[p].group)
  BY DEF TypeOK
<1>3. Evidence[next[p].group][next[p].index] \in Artifacts
  BY <1>2, EvidenceNames
<1> QED
  BY <1>1, <1>3 DEF Target, Files, NewFile

(* Initially nothing is written.                                             *)
LEMMA InitStore == Init => StoreInv
<1> SUFFICES ASSUME Init PROVE StoreInv
  OBVIOUS
<1>0. 1 \in Groups /\ 1 \in 1..Last(1) /\ MaxFailures \in Nat
  BY StoreAssumption DEF Groups
<1>1. TypeOK
  BY <1>0 DEF Init, TypeOK, First, Steps, Subs, Contents, Absent
<1>2. RunOrder /\ FileOrder /\ ArchiveOrder /\ DoneOrder
  BY DEF Init, RunOrder, FileOrder, ArchiveOrder, DoneOrder, Done, NewFile
<1>3. \A f \in Files : file[f] = [vis |-> Absent, disk |-> {Absent}]
  BY DEF Init
<1>4. AttestedReport
  BY <1>3 DEF AttestedReport, Files
<1>5. EvidenceKept /\ NilMeansDurable
  BY DEF Init, EvidenceKept, NilMeansDurable
<1> QED
  BY <1>1, <1>2, <1>4, <1>5 DEF StoreInv

(* A file that is durable is not touched any more by any step.               *)
LEMMA DurableStep ==
  ASSUME StoreInv, Next, NEW r \in Runs, NEW f \in Files, Durable(r, f)
  PROVE  file'[f] = file[f]
<1>1. Absent \notin file[f].disk /\ file[f].vis # Absent /\ file[f].disk = {file[f].vis}
  BY DEF Durable, Absent
<1>2. ASSUME NEW p \in Procs, Create(p) PROVE file'[f] = file[f]
  BY <1>1, <1>2 DEF Create, Changed, StoreInv, TypeOK
<1>3. ASSUME NEW p \in Procs, Write(p) \/ Sync(p) \/ SyncDir(p) \/ WriteFails(p) PROVE file'[f] = file[f]
  <2>1. Target(p) # f
    BY <1>1, <1>3 DEF Write, Sync, SyncDir, WriteFails, StoreInv, FileOrder
  <2> QED
    BY <1>3, <2>1 DEF Write, Sync, SyncDir, WriteFails, Changed, StoreInv, TypeOK
<1>4. CASE PowerLoss
  BY <1>1, <1>4 DEF PowerLoss, Settled, Unsettled, StoreInv, TypeOK
<1>5. ASSUME NEW p \in Procs,
             \/ \E s \in Runs : Begin(p, s)
             \/ Exists(p) \/ CreateFails(p) \/ Replace(p) \/ Sign(p) \/ SignFails(p) \/ Emit(p) \/ Kill(p)
      PROVE  file'[f] = file[f]
  BY <1>5 DEF Begin, Exists, CreateFails, Replace, Prepare, Rename, SyncCopy, CopyFails, Sign,
              SignFails, Emit, Kill, End
<1> QED
  BY <1>2, <1>3, <1>4, <1>5 DEF Next, Finalize, WriteNew

(* Where a process goes next, and what a failed sink leaves.                 *)
LEMMA GotoStep ==
  ASSUME TypeOK, NEW p \in Procs, NEW s \in Steps, Goto(p, s)
  PROVE  /\ step' \in [Procs -> Steps] /\ sub' \in [Procs -> Subs]
         /\ step'[p] = s /\ sub'[p] \in {"create", "temporary"} /\ (s \notin Copies => sub'[p] = "create")
         /\ \A q \in Procs : q # p => step'[q] = step[q] /\ sub'[q] = sub[q]
  BY DEF TypeOK, Goto, Subs

(* No sink is followed by evidence, the report or nothing.                   *)
LEMMA AfterStep ==
  ASSUME NEW s \in Steps
  PROVE  /\ After(s) \in {"last-cycle", "sign", "last-attestation", "attestation-out", "stdout"}
         /\ s = "report" => After(s) = "last-cycle"
         /\ s = "last-cycle" => After(s) = IF Signing THEN "sign" ELSE "stdout"
         /\ s = "attestation" => After(s) = "last-attestation"
         /\ s = "last-attestation" => After(s) = "attestation-out"
         /\ s = "attestation-out" => After(s) = "stdout"
  BY DEF After, Steps

(* A failed sink is noted, and the process goes on.                          *)
LEMMA FailedStep ==
  ASSUME TypeOK, NEW p \in Procs, step[p] # "idle", Failed(p)
  PROVE  /\ step' \in [Procs -> Steps] /\ sub' \in [Procs -> Subs]
         /\ failed' \in [Procs -> BOOLEAN] /\ failed'[p]
         /\ next' \in [Procs -> [group : Groups, index : Nat]] /\ next'[p] = First
         /\ step'[p] \in {"report", "last-cycle", "sign", "last-attestation", "attestation-out", "stdout"}
         /\ sub'[p] \notin {"write", "sync", "syncdir"}
         /\ \A q \in Procs : q # p =>
              step'[q] = step[q] /\ sub'[q] = sub[q] /\ next'[q] = next[q] /\ failed'[q] = failed[q]
         /\ \A q \in Procs : next'[q].index \in 1..Last(next'[q].group)
<1>1. step[p] \in Steps
  BY DEF TypeOK
<1> DEFINE s == IF step[p] = "evidence" THEN "report" ELSE After(step[p])
<1>2. s \in {"report", "last-cycle", "sign", "last-attestation", "attestation-out", "stdout"}
  BY <1>1, AfterStep
<1>3. s \in Steps
  BY <1>2 DEF Steps
<1>4. Goto(p, s)
  BY DEF Failed
<1> HIDE DEF s
<1>5. /\ step' \in [Procs -> Steps] /\ sub' \in [Procs -> Subs]
      /\ step'[p] = s /\ sub'[p] \in {"create", "temporary"}
      /\ \A q \in Procs : q # p => step'[q] = step[q] /\ sub'[q] = sub[q]
  BY <1>3, <1>4, GotoStep
<1>6. First \in [group : Groups, index : Nat] /\ First.index \in 1..Last(First.group)
  BY StoreAssumption DEF First, Groups
<1>7. failed' = [failed EXCEPT ![p] = TRUE] /\ next' = [next EXCEPT ![p] = First]
  BY DEF Failed
<1>8. failed' \in [Procs -> BOOLEAN] /\ failed'[p] /\ \A q \in Procs : q # p => failed'[q] = failed[q]
  BY <1>7 DEF TypeOK
<1>9. /\ next' \in [Procs -> [group : Groups, index : Nat]] /\ next'[p] = First
      /\ \A q \in Procs : q # p => next'[q] = next[q]
  BY <1>6, <1>7 DEF TypeOK
<1>10. \A q \in Procs : next'[q].index \in 1..Last(next'[q].group)
  BY <1>6, <1>9 DEF TypeOK
<1> QED
  BY <1>2, <1>5, <1>8, <1>9, <1>10

(* A process that is over leaves nothing behind in memory.                   *)
LEMMA EndStep ==
  ASSUME TypeOK, NEW p \in Procs, run[p] \in Runs, NEW v, End(p, v)
  PROVE  /\ step' \in [Procs -> Steps] /\ sub' \in [Procs -> Subs]
         /\ failed' \in [Procs -> BOOLEAN] /\ archived' \in [Procs -> BOOLEAN]
         /\ next' \in [Procs -> [group : Groups, index : Nat]] /\ next'[p] = First
         /\ step'[p] = "idle" /\ ~archived'[p] /\ verdict'[run[p]] = v
         /\ \A q \in Procs : q # p =>
              /\ step'[q] = step[q] /\ sub'[q] = sub[q] /\ next'[q] = next[q]
              /\ failed'[q] = failed[q] /\ archived'[q] = archived[q]
         /\ \A r \in Runs : r # run[p] => verdict'[r] = verdict[r]
         /\ \A q \in Procs : next'[q].index \in 1..Last(next'[q].group)
         /\ UNCHANGED <<run, refs, raw, cycle, alone, file, copy>>
<1>1. "idle" \in Steps /\ Goto(p, "idle")
  BY DEF End, Steps
<1>2. First \in [group : Groups, index : Nat] /\ First.index \in 1..Last(First.group)
  BY StoreAssumption DEF First, Groups
<1>3. /\ step' \in [Procs -> Steps] /\ sub' \in [Procs -> Subs] /\ step'[p] = "idle"
      /\ \A q \in Procs : q # p => step'[q] = step[q] /\ sub'[q] = sub[q]
  BY <1>1, GotoStep
<1>4. /\ next' \in [Procs -> [group : Groups, index : Nat]] /\ next'[p] = First
      /\ \A q \in Procs : q # p => next'[q] = next[q]
  BY <1>2 DEF End, TypeOK
<1>5. \A q \in Procs : next'[q].index \in 1..Last(next'[q].group)
  BY <1>2, <1>4 DEF TypeOK
<1>6. /\ failed' \in [Procs -> BOOLEAN] /\ archived' \in [Procs -> BOOLEAN] /\ ~archived'[p]
      /\ \A q \in Procs : q # p => failed'[q] = failed[q] /\ archived'[q] = archived[q]
  BY DEF End, TypeOK
<1>7. /\ verdict'[run[p]] = v /\ \A r \in Runs : r # run[p] => verdict'[r] = verdict[r]
      /\ UNCHANGED <<run, refs, raw, cycle, alone, file, copy>>
  BY DEF End, report, TypeOK
<1> QED
  BY <1>3, <1>4, <1>5, <1>6, <1>7

(* Evidence that is written is referenced, its group is dropped from the     *)
(* report when it is the last one, and the next one follows.                 *)
LEMMA EvidenceWritten ==
  ASSUME TypeOK, RunOrder, NEW p \in Procs, step[p] = "evidence", Written(p)
  PROVE  /\ step' \in [Procs -> Steps] /\ sub' \in [Procs -> Subs]
         /\ next' \in [Procs -> [group : Groups, index : Nat]]
         /\ refs' = [refs EXCEPT ![run[p]] = @ \cup {Evidence[next[p].group][next[p].index]}]
         /\ UNCHANGED <<archived, cycle, alone>>
         /\ sub'[p] = "create"
         /\ \A q \in Procs : q # p => step'[q] = step[q] /\ sub'[q] = sub[q] /\ next'[q] = next[q]
         /\ \A q \in Procs : next'[q].index \in 1..Last(next'[q].group)
         /\ \/ /\ next[p].index < Last(next[p].group)
               /\ step'[p] = "evidence" /\ raw' = raw
               /\ next'[p].group = next[p].group /\ next'[p].index = next[p].index + 1
            \/ /\ next[p].index = Last(next[p].group)
               /\ raw' = [raw EXCEPT ![run[p]] = @ \ {next[p].group}]
               /\ \/ /\ next[p].group < Len(Evidence) /\ step'[p] = "evidence"
                     /\ next'[p].group = next[p].group + 1 /\ next'[p].index = 1
                  \/ /\ next[p].group = Len(Evidence) /\ step'[p] = "report" /\ next'[p] = First
<1> DEFINE g == next[p].group
           i == next[p].index
<1>1. /\ g \in Groups /\ i \in 1..Last(g) /\ Len(Evidence) \in Nat \ {0} /\ Last(g) \in Nat
      /\ next[p] = [group |-> g, index |-> i]
  BY StoreAssumption DEF TypeOK
<1>2. First \in [group : Groups, index : Nat] /\ First.index \in 1..Last(First.group)
  BY StoreAssumption DEF First, Groups
<1>3. "evidence" \in Steps /\ "report" \in Steps /\ {"evidence", "report"} \cap Copies = {}
  BY DEF Steps, Copies
<1>4. /\ refs' = [refs EXCEPT ![run[p]] = @ \cup {Evidence[g][i]}]
      /\ UNCHANGED <<archived, cycle, alone>>
      /\ raw' = IF i < Last(g) THEN raw ELSE [raw EXCEPT ![run[p]] = @ \ {g}]
      /\ next' = [next EXCEPT ![p] =
            IF i < Last(g) THEN [group |-> g, index |-> @.index + 1]
            ELSE IF g < Len(Evidence) THEN [group |-> g + 1, index |-> 1] ELSE First]
      /\ Goto(p, IF i < Last(g) \/ g < Len(Evidence) THEN "evidence" ELSE "report")
  BY DEF Written, More
<1>5. CASE i < Last(g)
  <2>1. next' = [next EXCEPT ![p] = [group |-> g, index |-> i + 1]]
    BY <1>4, <1>5
  <2>2. /\ next' \in [Procs -> [group : Groups, index : Nat]]
        /\ next'[p] = [group |-> g, index |-> i + 1]
        /\ \A q \in Procs : q # p => next'[q] = next[q]
    BY <1>1, <2>1 DEF TypeOK
  <2>a. i + 1 \in 1..Last(g)
    BY <1>1, <1>5
  <2>3. \A q \in Procs : next'[q].index \in 1..Last(next'[q].group)
    BY <2>a, <2>2 DEF TypeOK
  <2>4. Goto(p, "evidence")
    BY <1>4, <1>5
  <2> QED
    BY <1>3, <1>4, <1>5, <2>2, <2>3, <2>4, GotoStep
<1>6. CASE i = Last(g) /\ g < Len(Evidence)
  <2>a. ~(i < Last(g)) /\ g + 1 \in Groups
    BY <1>1, <1>6 DEF Groups
  <2>1. next' = [next EXCEPT ![p] = [group |-> g + 1, index |-> 1]]
    BY <1>4, <1>6, <2>a
  <2>2. /\ next' \in [Procs -> [group : Groups, index : Nat]]
        /\ next'[p] = [group |-> g + 1, index |-> 1]
        /\ \A q \in Procs : q # p => next'[q] = next[q]
    BY <1>1, <2>a, <2>1 DEF TypeOK
  <2>3. 1 \in 1..Last(g + 1)
    BY <2>a, StoreAssumption
  <2>4. \A q \in Procs : next'[q].index \in 1..Last(next'[q].group)
    BY <2>2, <2>3 DEF TypeOK
  <2>5. Goto(p, "evidence")
    BY <1>4, <1>6
  <2> QED
    BY <1>1, <1>3, <1>4, <1>6, <2>2, <2>4, <2>5, GotoStep
<1>7. CASE i = Last(g) /\ g = Len(Evidence)
  <2>a. ~(i < Last(g)) /\ ~(g < Len(Evidence))
    BY <1>1, <1>7 DEF Groups
  <2>1. next' = [next EXCEPT ![p] = First]
    BY <1>4, <2>a
  <2>2. /\ next' \in [Procs -> [group : Groups, index : Nat]] /\ next'[p] = First
        /\ \A q \in Procs : q # p => next'[q] = next[q]
    BY <1>2, <2>1 DEF TypeOK
  <2>3. \A q \in Procs : next'[q].index \in 1..Last(next'[q].group)
    BY <1>2, <2>2 DEF TypeOK
  <2>4. Goto(p, "report")
    BY <1>1, <1>4, <1>7
  <2> QED
    BY <1>1, <1>3, <1>4, <1>7, <2>2, <2>3, <2>4, GotoStep
<1> QED
  BY <1>1, <1>5, <1>6, <1>7 DEF Groups

(* The report or the envelope that is written is archived.                   *)
LEMMA SinkWritten ==
  ASSUME TypeOK, NEW p \in Procs, step[p] \in {"report", "attestation"}, Written(p)
  PROVE  /\ step' \in [Procs -> Steps] /\ sub' \in [Procs -> Subs]
         /\ archived' \in [Procs -> BOOLEAN]
         /\ step'[p] = IF step[p] = "report" THEN "last-cycle" ELSE "last-attestation"
         /\ sub'[p] \notin {"write", "sync", "syncdir"}
         /\ archived'[p] <=> archived[p] \/ step[p] = "report"
         /\ \A q \in Procs : q # p =>
              step'[q] = step[q] /\ sub'[q] = sub[q] /\ archived'[q] = archived[q]
         /\ UNCHANGED <<refs, raw, cycle, alone, next>>
<1>1. archived' = [archived EXCEPT ![p] = @ \/ step[p] = "report"] /\ Goto(p, After(step[p]))
      /\ UNCHANGED <<refs, raw, cycle, alone, next>>
  BY DEF Written, report
<1>2. step[p] \in Steps /\ After(step[p]) = IF step[p] = "report" THEN "last-cycle" ELSE "last-attestation"
  BY DEF After, Steps
<1>3. After(step[p]) \in Steps
  BY <1>2 DEF Steps
<1>4. archived'[p] <=> archived[p] \/ step[p] = "report"
  BY <1>1 DEF TypeOK
<1>5. \A q \in Procs : q # p => archived'[q] = archived[q]
  BY <1>1 DEF TypeOK
<1>6. archived' \in [Procs -> BOOLEAN]
  BY <1>1 DEF TypeOK
<1> QED
  BY <1>1, <1>2, <1>3, <1>4, <1>5, <1>6, GotoStep

(* Type correctness of a step.                                               *)
LEMMA TypeStep == ASSUME StoreInv, Next PROVE TypeOK'
<1> USE DEF StoreInv
<1>0. MaxFailures \in Nat /\ First \in [group : Groups, index : Nat] /\ First.index \in 1..Last(First.group)
  BY StoreAssumption DEF First, Groups
<1>1. ASSUME NEW p \in Procs, Create(p) PROVE TypeOK'
  BY <1>1, TargetFile DEF Create, Changed, TypeOK, Subs, Contents, report
<1>2. ASSUME NEW p \in Procs, Exists(p) PROVE TypeOK'
  <2>1. step[p] # "idle" /\ Failed(p)
    BY <1>2 DEF Exists, NewFile, Copies
  <2> QED
    BY <1>0, <1>2, <2>1, FailedStep, TargetFile
    DEF Exists, Fault, TypeOK, Contents, report
<1>3. ASSUME NEW p \in Procs, CreateFails(p) PROVE TypeOK'
  <2>1. step[p] # "idle" /\ Failed(p)
    BY <1>3 DEF CreateFails, NewFile, Copies
  <2> QED
    BY <1>0, <1>3, <2>1, FailedStep, TargetFile
    DEF CreateFails, Fault, TypeOK, Contents, report
<1>4. ASSUME NEW p \in Procs, Write(p) PROVE TypeOK'
  BY <1>4, TargetFile DEF Write, Changed, TypeOK, Subs, Contents, report
<1>5. ASSUME NEW p \in Procs, Sync(p) PROVE TypeOK'
  <2>1. Target(p) \in Files
    BY <1>5, TargetFile DEF Sync
  <2>2. file' \in [Files -> [vis : Contents, disk : SUBSET Contents]]
    BY <1>5, <2>1 DEF Sync, TypeOK
  <2> QED
    BY <1>5, <2>2 DEF Sync, TypeOK, Subs, report
<1>6. ASSUME NEW p \in Procs, SyncDir(p) PROVE TypeOK'
  <2>1. step[p] \in NewFile /\ Target(p) \in Files /\ run[p] \in Runs /\ Written(p)
    BY <1>6, TargetFile DEF SyncDir
  <2>a. {<<run[p], "complete">>} \in SUBSET Contents
    BY <2>1 DEF Contents
  <2>2. file' \in [Files -> [vis : Contents, disk : SUBSET Contents]]
    BY <1>6, <2>a, <2>1 DEF SyncDir, TypeOK
  <2>3. CASE step[p] = "evidence"
    <3>1. Evidence[next[p].group][next[p].index] \in Artifacts
      BY EvidenceNames DEF TypeOK
    <3>2. refs' = [refs EXCEPT ![run[p]] = @ \cup {Evidence[next[p].group][next[p].index]}]
      BY <2>1, <2>3, EvidenceWritten
    <3>3. refs' \in [Runs -> SUBSET Artifacts]
      BY <3>1, <3>2 DEF TypeOK
    <3>4. raw' = raw \/ raw' = [raw EXCEPT ![run[p]] = @ \ {next[p].group}]
      BY <2>1, <2>3, EvidenceWritten
    <3>5. raw' \in [Runs -> SUBSET Groups]
      BY <3>4 DEF TypeOK
    <3> QED
      BY <1>6, <2>1, <2>2, <2>3, <3>3, <3>5, EvidenceWritten DEF SyncDir, TypeOK
  <2>4. CASE step[p] # "evidence"
    BY <1>6, <2>1, <2>2, <2>4, SinkWritten DEF SyncDir, NewFile, TypeOK
  <2> QED
    BY <2>3, <2>4
<1>7. ASSUME NEW p \in Procs, WriteFails(p) PROVE TypeOK'
  <2>1. step[p] # "idle" /\ Failed(p) /\ step[p] \in NewFile
    BY <1>7 DEF WriteFails, NewFile
  <2>2. Target(p) \in Files
    BY <2>1, TargetFile
  <2>3. file' \in [Files -> [vis : Contents, disk : SUBSET Contents]]
    BY <1>7, <2>2 DEF WriteFails, TypeOK, Contents
  <2> QED
    BY <1>0, <1>7, <2>1, <2>3, FailedStep DEF WriteFails, Fault, TypeOK, report
<1>8. ASSUME NEW p \in Procs, Prepare(p) PROVE TypeOK'
  BY <1>8 DEF Prepare, RunOrder, TypeOK, Subs, Copies, report
<1>9. ASSUME NEW p \in Procs, Rename(p) PROVE TypeOK'
  BY <1>9 DEF Rename, RunOrder, TypeOK, Subs, Copies, report
<1>10. ASSUME NEW p \in Procs, SyncCopy(p) PROVE TypeOK'
  <2> DEFINE s == After(step[p])
  <2>1. s \in Steps /\ Goto(p, s)
    BY <1>10, AfterStep DEF SyncCopy, Steps, Copies
  <2> HIDE DEF s
  <2> QED
    BY <1>0, <1>10, <2>1, GotoStep DEF SyncCopy, Fault, TypeOK, Copies, report
<1>11. ASSUME NEW p \in Procs, CopyFails(p) PROVE TypeOK'
  <2>1. step[p] # "idle" /\ Failed(p)
    BY <1>11 DEF CopyFails, NewFile, Copies
  <2> QED
    BY <1>0, <1>11, <2>1, FailedStep, TargetFile
    DEF CopyFails, Fault, TypeOK, Contents, report
<1>12. ASSUME NEW p \in Procs, Sign(p) PROVE TypeOK'
  <2> DEFINE s == IF archived[p] THEN "attestation" ELSE "last-attestation"
  <2>1. s \in Steps /\ Goto(p, s)
    BY <1>12, AfterStep DEF Sign, Steps, Copies
  <2> HIDE DEF s
  <2> QED
    BY <1>0, <1>12, <2>1, GotoStep DEF Sign, Fault, TypeOK, Copies, report
<1>13. ASSUME NEW p \in Procs, SignFails(p) PROVE TypeOK'
  <2> DEFINE s == "stdout"
  <2>1. s \in Steps /\ Goto(p, s)
    BY <1>13, AfterStep DEF SignFails, Steps, Copies
  <2> HIDE DEF s
  <2> QED
    BY <1>0, <1>13, <2>1, GotoStep DEF SignFails, Fault, TypeOK, Copies, report
<1>14. ASSUME NEW p \in Procs, Emit(p) PROVE TypeOK'
  <2>1. PICK v \in {"nil", "error", "killed"} : End(p, v)
    BY <1>14 DEF Emit
  <2>2. run[p] \in Runs /\ failures' \in 0..MaxFailures
    BY <1>0, <1>14 DEF Emit, Fault, RunOrder, TypeOK
  <2> QED
    BY <2>1, <2>2, EndStep DEF End, report, TypeOK
<1>15. ASSUME NEW p \in Procs, Kill(p) PROVE TypeOK'
  <2>1. PICK v \in {"nil", "error", "killed"} : End(p, v)
    BY <1>15 DEF Kill
  <2>2. run[p] \in Runs /\ failures' \in 0..MaxFailures
    BY <1>0, <1>15 DEF Kill, Fault, RunOrder, TypeOK
  <2> QED
    BY <2>1, <2>2, EndStep DEF End, report, TypeOK
<1>16. ASSUME NEW p \in Procs, NEW r \in Runs, Begin(p, r) PROVE TypeOK'
  BY <1>16 DEF Begin, TypeOK, Steps, Subs
<1>17. CASE PowerLoss
  BY <1>0, <1>17 DEF PowerLoss, Fault, Settled, Unsettled, report, TypeOK, Steps, Subs
<1> QED
  BY <1>1, <1>2, <1>3, <1>4, <1>5, <1>6, <1>7, <1>8, <1>9,
     <1>10, <1>11, <1>12, <1>13, <1>14, <1>15, <1>16, <1>17
  DEF Next, Finalize, WriteNew, Replace

(* A process that goes on keeps its run, and no other touches it.            *)
LEMMA RunFrame ==
  ASSUME RunOrder, NEW p \in Procs, step[p] # "idle", step'[p] # "idle",
         step'[p] # "evidence" => next'[p] = First,
         \A q \in Procs : q # p => step'[q] = step[q] /\ next'[q] = next[q],
         \A r \in Runs : r # run[p] => refs'[r] = refs[r] /\ raw'[r] = raw[r],
         UNCHANGED <<run, cycle, verdict>>
  PROVE  RunOrder'
<1>1. \A q \in Procs : step'[q] # "idle" => step[q] # "idle"
  OBVIOUS
<1>2. \A q \in Procs : step'[q] # "idle" =>
        run'[q] \in Runs /\ cycle'[run'[q]] \in Cycles /\ verdict'[run'[q]] = "running"
  BY <1>1 DEF RunOrder
<1>3. \A o, q \in Procs : step'[o] # "idle" /\ step'[q] # "idle" /\ run'[o] = run'[q] => o = q
  BY <1>1 DEF RunOrder
<1>4. \A q \in Procs : step'[q] # "evidence" => next'[q] = First
  BY DEF RunOrder
<1>5. verdict[run[p]] = "running"
  BY DEF RunOrder
<1>6. \A r \in Runs : IF verdict'[r] = "unused" THEN refs'[r] = {} /\ raw'[r] = Groups ELSE cycle'[r] \in Cycles
  BY <1>5 DEF RunOrder
<1> QED
  BY <1>2, <1>3, <1>4, <1>6 DEF RunOrder

(* A run stays in the hands of the process that began it.                    *)
LEMMA RunStep == ASSUME StoreInv, Next PROVE RunOrder'
<1> USE DEF StoreInv
<1>1. ASSUME NEW p \in Procs, Create(p) PROVE RunOrder'
  BY <1>1 DEF Create, RunOrder, report
<1>2. ASSUME NEW p \in Procs, Exists(p) PROVE RunOrder'
  <2>1. step[p] # "idle" /\ Failed(p) /\ UNCHANGED <<run, refs, raw, cycle, verdict>>
    BY <1>2 DEF Exists, NewFile, Copies, report
  <2> QED
    BY <2>1, FailedStep, RunFrame
<1>3. ASSUME NEW p \in Procs, CreateFails(p) PROVE RunOrder'
  <2>1. step[p] # "idle" /\ Failed(p) /\ UNCHANGED <<run, refs, raw, cycle, verdict>>
    BY <1>3 DEF CreateFails, NewFile, Copies, report
  <2> QED
    BY <2>1, FailedStep, RunFrame
<1>4. ASSUME NEW p \in Procs, Write(p) PROVE RunOrder'
  BY <1>4 DEF Write, RunOrder, report
<1>5. ASSUME NEW p \in Procs, Sync(p) PROVE RunOrder'
  BY <1>5 DEF Sync, RunOrder, report
<1>6. ASSUME NEW p \in Procs, SyncDir(p) PROVE RunOrder'
  <2>1. step[p] \in NewFile /\ run[p] \in Runs /\ Written(p) /\ UNCHANGED <<run, verdict>>
    BY <1>6, TargetFile DEF SyncDir
  <2>2. CASE step[p] = "evidence"
    <3>1. \A r \in Runs : r # run[p] => refs'[r] = refs[r] /\ raw'[r] = raw[r]
      BY <2>1, <2>2, EvidenceWritten DEF TypeOK
    <3>2. step'[p] # "evidence" => next'[p] = First
      BY <2>1, <2>2, EvidenceWritten
    <3>3. step'[p] # "idle" /\ cycle' = cycle /\ \A q \in Procs : q # p => step'[q] = step[q] /\ next'[q] = next[q]
      BY <2>1, <2>2, EvidenceWritten
    <3> QED
      BY <2>1, <2>2, <3>1, <3>2, <3>3, RunFrame
  <2>3. CASE step[p] # "evidence"
    BY <2>1, <2>3, SinkWritten DEF NewFile, RunOrder
  <2> QED
    BY <2>2, <2>3
<1>7. ASSUME NEW p \in Procs, WriteFails(p) PROVE RunOrder'
  <2>1. step[p] # "idle" /\ Failed(p) /\ UNCHANGED <<run, refs, raw, cycle, verdict>>
    BY <1>7 DEF WriteFails, NewFile, Copies, report
  <2> QED
    BY <2>1, FailedStep, RunFrame
<1>8. ASSUME NEW p \in Procs, Prepare(p) PROVE RunOrder'
  BY <1>8 DEF Prepare, RunOrder, report
<1>9. ASSUME NEW p \in Procs, Rename(p) PROVE RunOrder'
  BY <1>9 DEF Rename, RunOrder, report
<1>10. ASSUME NEW p \in Procs, SyncCopy(p) PROVE RunOrder'
  <2> DEFINE s == After(step[p])
  <2>1. s \in Steps /\ Goto(p, s) /\ s \notin {"idle", "evidence"}
    BY <1>10, AfterStep DEF SyncCopy, Steps, Copies
  <2> HIDE DEF s
  <2> QED
    BY <1>10, <2>1, GotoStep DEF SyncCopy, RunOrder, Copies, report
<1>11. ASSUME NEW p \in Procs, CopyFails(p) PROVE RunOrder'
  <2>1. step[p] # "idle" /\ Failed(p) /\ UNCHANGED <<run, refs, raw, cycle, verdict>>
    BY <1>11 DEF CopyFails, NewFile, Copies, report
  <2> QED
    BY <2>1, FailedStep, RunFrame
<1>12. ASSUME NEW p \in Procs, Sign(p) PROVE RunOrder'
  <2> DEFINE s == IF archived[p] THEN "attestation" ELSE "last-attestation"
  <2>1. s \in Steps /\ Goto(p, s) /\ s \notin {"idle", "evidence"}
    BY <1>12, AfterStep DEF Sign, Steps, Copies
  <2> HIDE DEF s
  <2> QED
    BY <1>12, <2>1, GotoStep DEF Sign, RunOrder, Copies, report
<1>13. ASSUME NEW p \in Procs, SignFails(p) PROVE RunOrder'
  <2> DEFINE s == "stdout"
  <2>1. s \in Steps /\ Goto(p, s) /\ s \notin {"idle", "evidence"}
    BY <1>13, AfterStep DEF SignFails, Steps, Copies
  <2> HIDE DEF s
  <2> QED
    BY <1>13, <2>1, GotoStep DEF SignFails, RunOrder, Copies, report
<1>14. ASSUME NEW p \in Procs, Emit(p) PROVE RunOrder'
  <2>1. PICK v \in {"nil", "error", "killed"} : End(p, v)
    BY <1>14 DEF Emit
  <2>2. step[p] # "idle" /\ run[p] \in Runs /\ verdict[run[p]] = "running" /\ cycle[run[p]] \in Cycles
    BY <1>14 DEF Emit, RunOrder
  <2>3. \A q \in Procs : q # p /\ step[q] # "idle" => run[q] # run[p]
    BY <2>2 DEF RunOrder
  <2>4. /\ step'[p] = "idle" /\ next'[p] = First
        /\ \A q \in Procs : q # p => step'[q] = step[q] /\ next'[q] = next[q]
        /\ verdict'[run[p]] # "unused" /\ \A r \in Runs : r # run[p] => verdict'[r] = verdict[r]
        /\ UNCHANGED <<run, refs, raw, cycle>>
    BY <2>1, <2>2, EndStep
  <2>5. \A q \in Procs : step'[q] # "idle" =>
          run'[q] \in Runs /\ cycle'[run'[q]] \in Cycles /\ verdict'[run'[q]] = "running"
    BY <2>3, <2>4 DEF RunOrder
  <2>6. \A o, q \in Procs : step'[o] # "idle" /\ step'[q] # "idle" /\ run'[o] = run'[q] => o = q
    BY <2>4 DEF RunOrder
  <2>7. /\ \A q \in Procs : step'[q] # "evidence" => next'[q] = First
        /\ \A r \in Runs : IF verdict'[r] = "unused" THEN refs'[r] = {} /\ raw'[r] = Groups ELSE cycle'[r] \in Cycles
    BY <2>2, <2>4 DEF RunOrder
  <2> QED
    BY <2>5, <2>6, <2>7 DEF RunOrder
<1>15. ASSUME NEW p \in Procs, Kill(p) PROVE RunOrder'
  <2>1. PICK v \in {"nil", "error", "killed"} : End(p, v)
    BY <1>15 DEF Kill
  <2>2. step[p] # "idle" /\ run[p] \in Runs /\ verdict[run[p]] = "running" /\ cycle[run[p]] \in Cycles
    BY <1>15 DEF Kill, RunOrder
  <2>3. \A q \in Procs : q # p /\ step[q] # "idle" => run[q] # run[p]
    BY <2>2 DEF RunOrder
  <2>4. /\ step'[p] = "idle" /\ next'[p] = First
        /\ \A q \in Procs : q # p => step'[q] = step[q] /\ next'[q] = next[q]
        /\ verdict'[run[p]] # "unused" /\ \A r \in Runs : r # run[p] => verdict'[r] = verdict[r]
        /\ UNCHANGED <<run, refs, raw, cycle>>
    BY <2>1, <2>2, EndStep
  <2>5. \A q \in Procs : step'[q] # "idle" =>
          run'[q] \in Runs /\ cycle'[run'[q]] \in Cycles /\ verdict'[run'[q]] = "running"
    BY <2>3, <2>4 DEF RunOrder
  <2>6. \A o, q \in Procs : step'[o] # "idle" /\ step'[q] # "idle" /\ run'[o] = run'[q] => o = q
    BY <2>4 DEF RunOrder
  <2>7. /\ \A q \in Procs : step'[q] # "evidence" => next'[q] = First
        /\ \A r \in Runs : IF verdict'[r] = "unused" THEN refs'[r] = {} /\ raw'[r] = Groups ELSE cycle'[r] \in Cycles
    BY <2>2, <2>4 DEF RunOrder
  <2> QED
    BY <2>5, <2>6, <2>7 DEF RunOrder
<1>16. ASSUME NEW p \in Procs, NEW r \in Runs, Begin(p, r) PROVE RunOrder'
  <2>1. /\ step[p] = "idle" /\ verdict[r] = "unused" /\ run'[p] = r /\ step'[p] = "evidence"
        /\ verdict'[r] = "running" /\ cycle'[r] \in Cycles
        /\ \A q \in Procs : q # p => run'[q] = run[q] /\ step'[q] = step[q]
        /\ \A q \in Runs : q # r => verdict'[q] = verdict[q] /\ cycle'[q] = cycle[q]
        /\ UNCHANGED <<next, refs, raw>>
    BY <1>16 DEF Begin, TypeOK
  <2>2. \A q \in Procs : step[q] # "idle" => run[q] # r
    BY <2>1 DEF RunOrder
  <2> QED
    BY <2>1, <2>2 DEF RunOrder
<1>17. CASE PowerLoss
  BY <1>17 DEF PowerLoss, report, RunOrder, TypeOK
<1> QED
  BY <1>1, <1>2, <1>3, <1>4, <1>5, <1>6, <1>7, <1>8, <1>9,
     <1>10, <1>11, <1>12, <1>13, <1>14, <1>15, <1>16, <1>17
  DEF Next, Finalize, WriteNew, Replace

(* Two processes never write to the same file.                               *)
LEMMA TargetsDiffer ==
  ASSUME TypeOK, RunOrder, FileOrder, NEW p \in Procs, NEW q \in Procs, p # q,
         step[p] \in NewFile, step[q] \in NewFile,
         sub[p] \in {"write", "sync", "syncdir"}, sub[q] \in {"write", "sync", "syncdir"}
  PROVE  Target(p) # Target(q)
<1>1. file[Target(p)].vis[1] = run[p] /\ file[Target(q)].vis[1] = run[q]
  BY DEF FileOrder
<1>2. run[p] # run[q]
  BY DEF RunOrder, NewFile
<1> QED
  BY <1>1, <1>2

(* A process whose file is settled leaves those of the other writers alone.  *)
LEMMA WriterFrame ==
  ASSUME StoreInv, NEW p \in Procs,
         \A f \in Files : file'[f].vis \in file'[f].disk,
         step'[p] \notin NewFile \/ sub'[p] \notin {"write", "sync", "syncdir"},
         \A q \in Procs : q # p =>
           /\ step'[q] = step[q] /\ sub'[q] = sub[q] /\ next'[q] = next[q] /\ run'[q] = run[q]
           /\ step[q] # "idle" => cycle'[run[q]] = cycle[run[q]],
         \A q \in Procs : q # p /\ step[q] \in NewFile /\ sub[q] \in {"write", "sync", "syncdir"} =>
           file'[Target(q)] = file[Target(q)]
  PROVE  FileOrder'
<1> SUFFICES ASSUME NEW q \in Procs, q # p, step[q] \in NewFile, sub[q] \in {"write", "sync", "syncdir"}
             PROVE  /\ file'[Target(q)'].vis = <<run'[q], IF sub'[q] = "write" THEN "partial" ELSE "complete">>
                    /\ Absent \in file'[Target(q)'].disk
  BY DEF FileOrder
<1>1. Target(q)' = Target(q)
  BY DEF Target, NewFile
<1> QED
  BY <1>1 DEF StoreInv, FileOrder

(* While a process writes its file the others' files are left alone.         *)
LEMMA OwnFrame ==
  ASSUME StoreInv, NEW p \in Procs, step[p] \in NewFile,
         UNCHANGED <<run, step, next, cycle>>,
         \A q \in Procs : q # p => sub'[q] = sub[q],
         \A f \in Files : f # Target(p) => file'[f] = file[f],
         \A q \in Procs : q # p /\ step[q] \in NewFile /\ sub[q] \in {"write", "sync", "syncdir"} =>
           Target(q) # Target(p),
         sub'[p] \in {"write", "sync", "syncdir"},
         file'[Target(p)].vis = <<run[p], IF sub'[p] = "write" THEN "partial" ELSE "complete">>,
         file'[Target(p)].vis \in file'[Target(p)].disk,
         Absent \in file'[Target(p)].disk
  PROVE  FileOrder'
<1>1. \A f \in Files : file'[f].vis \in file'[f].disk
  BY DEF StoreInv, FileOrder
<1>2. \A q \in Procs : Target(q)' = Target(q)
  BY DEF Target
<1>3. ASSUME NEW q \in Procs, q # p, step[q] \in NewFile, sub[q] \in {"write", "sync", "syncdir"}
      PROVE  file'[Target(q)] = file[Target(q)]
  BY <1>3, TargetFile DEF StoreInv
<1>4. ASSUME NEW q \in Procs, step'[q] \in NewFile, sub'[q] \in {"write", "sync", "syncdir"}
      PROVE  /\ file'[Target(q)'].vis = <<run'[q], IF sub'[q] = "write" THEN "partial" ELSE "complete">>
             /\ Absent \in file'[Target(q)'].disk
  <2>1. CASE q = p
    BY <2>1, <1>2
  <2>2. CASE q # p
    BY <2>2, <1>2, <1>3, <1>4 DEF StoreInv, FileOrder
  <2> QED
    BY <2>1, <2>2
<1> QED
  BY <1>1, <1>4 DEF FileOrder

(* Files stay in the hands of those who write them.                          *)
LEMMA FileStep == ASSUME StoreInv, Next PROVE FileOrder'
<1> USE DEF StoreInv
<1>1. ASSUME NEW p \in Procs, Create(p) PROVE FileOrder'
  <2>1. /\ step[p] \in NewFile /\ file[Target(p)].vis = Absent /\ UNCHANGED <<run, step, next, cycle>>
        /\ sub' = [sub EXCEPT ![p] = "write"]
        /\ file' = [file EXCEPT ![Target(p)] = [vis |-> <<run[p], "partial">>, disk |-> @.disk \cup {<<run[p], "partial">>}]]
    BY <1>1 DEF Create, Changed, report
  <2>2. Target(p) \in Files
    BY <2>1, TargetFile
  <2>3. Absent \in file[Target(p)].disk
    BY <2>1, <2>2 DEF FileOrder
  <2>4. \A q \in Procs : step[q] \in NewFile /\ sub[q] \in {"write", "sync", "syncdir"} => Target(q) # Target(p)
    BY <2>1 DEF FileOrder, Absent
  <2>5. sub'[p] = "write" /\ \A q \in Procs : q # p => sub'[q] = sub[q]
    BY <2>1 DEF TypeOK
  <2>6. /\ file'[Target(p)].vis = <<run[p], "partial">>
        /\ file'[Target(p)].disk = file[Target(p)].disk \cup {<<run[p], "partial">>}
        /\ \A f \in Files : f # Target(p) => file'[f] = file[f]
    BY <2>1, <2>2 DEF TypeOK
  <2> QED
    BY <2>1, <2>3, <2>4, <2>5, <2>6, OwnFrame
<1>2. ASSUME NEW p \in Procs, Exists(p) PROVE FileOrder'
  <2>1. step[p] # "idle" /\ Failed(p) /\ UNCHANGED <<run, cycle, file>>
    BY <1>2 DEF Exists, NewFile, Copies, report
  <2> QED
    BY <2>1, FailedStep, WriterFrame DEF FileOrder
<1>3. ASSUME NEW p \in Procs, CreateFails(p) PROVE FileOrder'
  <2>1. step[p] # "idle" /\ Failed(p) /\ UNCHANGED <<run, cycle, file>>
    BY <1>3 DEF CreateFails, NewFile, Copies, report
  <2> QED
    BY <2>1, FailedStep, WriterFrame DEF FileOrder
<1>4. ASSUME NEW p \in Procs, Write(p) PROVE FileOrder'
  <2>1. /\ step[p] \in NewFile /\ sub[p] = "write" /\ UNCHANGED <<run, step, next, cycle>>
        /\ sub' = [sub EXCEPT ![p] = "sync"]
        /\ file' = [file EXCEPT ![Target(p)] = [vis |-> <<run[p], "complete">>, disk |-> @.disk \cup {<<run[p], "complete">>}]]
    BY <1>4 DEF Write, Changed, report
  <2>2. Target(p) \in Files
    BY <2>1, TargetFile
  <2>3. Absent \in file[Target(p)].disk
    BY <2>1 DEF FileOrder
  <2>4. \A q \in Procs : q # p /\ step[q] \in NewFile /\ sub[q] \in {"write", "sync", "syncdir"} => Target(q) # Target(p)
    BY <2>1, TargetsDiffer
  <2>5. sub'[p] = "sync" /\ \A q \in Procs : q # p => sub'[q] = sub[q]
    BY <2>1 DEF TypeOK
  <2>6. /\ file'[Target(p)].vis = <<run[p], "complete">>
        /\ file'[Target(p)].disk = file[Target(p)].disk \cup {<<run[p], "complete">>}
        /\ \A f \in Files : f # Target(p) => file'[f] = file[f]
    BY <2>1, <2>2 DEF TypeOK
  <2> QED
    BY <2>1, <2>3, <2>4, <2>5, <2>6, OwnFrame
<1>5. ASSUME NEW p \in Procs, Sync(p) PROVE FileOrder'
  <2>1. /\ step[p] \in NewFile /\ sub[p] = "sync" /\ UNCHANGED <<run, step, next, cycle>>
        /\ sub' = [sub EXCEPT ![p] = "syncdir"]
        /\ file' = [file EXCEPT ![Target(p)].disk = @ \ {<<run[p], "partial">>}]
    BY <1>5 DEF Sync, report
  <2>2. Target(p) \in Files
    BY <2>1, TargetFile
  <2>3. /\ Absent \in file[Target(p)].disk /\ Absent # <<run[p], "partial">>
        /\ file[Target(p)].vis = <<run[p], "complete">> /\ <<run[p], "complete">> # <<run[p], "partial">>
        /\ file[Target(p)].vis \in file[Target(p)].disk
    BY <2>1, <2>2 DEF FileOrder, Absent
  <2>4. \A q \in Procs : q # p /\ step[q] \in NewFile /\ sub[q] \in {"write", "sync", "syncdir"} => Target(q) # Target(p)
    BY <2>1, TargetsDiffer
  <2>5. sub'[p] = "syncdir" /\ \A q \in Procs : q # p => sub'[q] = sub[q]
    BY <2>1 DEF TypeOK
  <2>6. /\ file'[Target(p)].vis = <<run[p], "complete">>
        /\ file'[Target(p)].disk = file[Target(p)].disk \ {<<run[p], "partial">>}
        /\ \A f \in Files : f # Target(p) => file'[f] = file[f]
    BY <2>1, <2>2, <2>3 DEF TypeOK
  <2> QED
    BY <2>1, <2>3, <2>4, <2>5, <2>6, OwnFrame
<1>6. ASSUME NEW p \in Procs, SyncDir(p) PROVE FileOrder'
  <2>1. /\ step[p] \in NewFile /\ sub[p] = "syncdir" /\ Written(p) /\ run' = run
        /\ file' = [file EXCEPT ![Target(p)].disk = {<<run[p], "complete">>}]
    BY <1>6 DEF SyncDir
  <2>2. Target(p) \in Files /\ file[Target(p)].vis = <<run[p], "complete">>
    BY <2>1, TargetFile DEF FileOrder
  <2>3. \A q \in Procs : q # p /\ step[q] \in NewFile /\ sub[q] \in {"write", "sync", "syncdir"} =>
          Target(q) # Target(p) /\ Target(q) \in Files
    BY <2>1, TargetsDiffer, TargetFile
  <2>4. /\ \A f \in Files : f # Target(p) => file'[f] = file[f]
        /\ file'[Target(p)].vis = <<run[p], "complete">> /\ file'[Target(p)].disk = {<<run[p], "complete">>}
    BY <2>1, <2>2 DEF TypeOK
  <2>5. \A f \in Files : file'[f].vis \in file'[f].disk
    BY <2>4 DEF FileOrder
  <2>6. /\ sub'[p] \notin {"write", "sync", "syncdir"} /\ cycle' = cycle
        /\ \A q \in Procs : q # p => step'[q] = step[q] /\ sub'[q] = sub[q] /\ next'[q] = next[q]
    <3>1. CASE step[p] = "evidence"
      BY <2>1, <3>1, EvidenceWritten
    <3>2. CASE step[p] # "evidence"
      BY <2>1, <3>2, SinkWritten DEF NewFile
    <3> QED
      BY <3>1, <3>2
  <2> QED
    BY <2>1, <2>3, <2>4, <2>5, <2>6, WriterFrame
<1>7. ASSUME NEW p \in Procs, WriteFails(p) PROVE FileOrder'
  <2>1. /\ step[p] \in NewFile /\ sub[p] \in {"write", "sync", "syncdir"} /\ Failed(p)
        /\ UNCHANGED <<run, cycle>>
        /\ \/ file' = [file EXCEPT ![Target(p)] = [vis |-> Absent, disk |-> @.disk \cup {Absent}]]
           \/ file' = file
    BY <1>7 DEF WriteFails, report
  <2>2. Target(p) \in Files /\ step[p] # "idle"
    BY <2>1, TargetFile DEF NewFile
  <2>3. \A q \in Procs : q # p /\ step[q] \in NewFile /\ sub[q] \in {"write", "sync", "syncdir"} =>
          Target(q) # Target(p) /\ Target(q) \in Files
    BY <2>1, TargetsDiffer, TargetFile
  <2>4. /\ \A f \in Files : f # Target(p) => file'[f] = file[f]
        /\ file'[Target(p)].vis \in file'[Target(p)].disk
    BY <2>1, <2>2 DEF TypeOK, FileOrder
  <2>5. \A f \in Files : file'[f].vis \in file'[f].disk
    BY <2>4 DEF FileOrder
  <2>6. /\ sub'[p] \notin {"write", "sync", "syncdir"}
        /\ \A q \in Procs : q # p => step'[q] = step[q] /\ sub'[q] = sub[q] /\ next'[q] = next[q]
    BY <2>1, <2>2, FailedStep
  <2> QED
    BY <2>1, <2>3, <2>4, <2>5, <2>6, WriterFrame
<1>8. ASSUME NEW p \in Procs, Prepare(p) PROVE FileOrder'
  <2>1. step[p] \notin NewFile /\ UNCHANGED <<run, step, next, cycle, file>>
        /\ \A q \in Procs : q # p => sub'[q] = sub[q]
    BY <1>8 DEF Prepare, Copies, NewFile, report, TypeOK
  <2> QED
    BY <2>1, WriterFrame DEF FileOrder
<1>9. ASSUME NEW p \in Procs, Rename(p) PROVE FileOrder'
  <2>1. step[p] \notin NewFile /\ UNCHANGED <<run, step, next, cycle, file>>
        /\ \A q \in Procs : q # p => sub'[q] = sub[q]
    BY <1>9 DEF Rename, Copies, NewFile, report, TypeOK
  <2> QED
    BY <2>1, WriterFrame DEF FileOrder
<1>10. ASSUME NEW p \in Procs, SyncCopy(p) PROVE FileOrder'
  <2> DEFINE s == After(step[p])
  <2>1. s \in Steps /\ Goto(p, s) /\ UNCHANGED <<run, cycle, file, next>>
    BY <1>10, AfterStep DEF SyncCopy, Steps, Copies, report
  <2> HIDE DEF s
  <2> QED
    BY <2>1, GotoStep, WriterFrame DEF FileOrder
<1>11. ASSUME NEW p \in Procs, CopyFails(p) PROVE FileOrder'
  <2>1. step[p] # "idle" /\ Failed(p) /\ UNCHANGED <<run, cycle, file>>
    BY <1>11 DEF CopyFails, NewFile, Copies, report
  <2> QED
    BY <2>1, FailedStep, WriterFrame DEF FileOrder
<1>12. ASSUME NEW p \in Procs, Sign(p) PROVE FileOrder'
  <2> DEFINE s == IF archived[p] THEN "attestation" ELSE "last-attestation"
  <2>1. s \in Steps /\ Goto(p, s) /\ UNCHANGED <<run, cycle, file, next>>
    BY <1>12, AfterStep DEF Sign, Steps, Copies, report
  <2> HIDE DEF s
  <2> QED
    BY <2>1, GotoStep, WriterFrame DEF FileOrder
<1>13. ASSUME NEW p \in Procs, SignFails(p) PROVE FileOrder'
  <2> DEFINE s == "stdout"
  <2>1. s \in Steps /\ Goto(p, s) /\ UNCHANGED <<run, cycle, file, next>>
    BY <1>13, AfterStep DEF SignFails, Steps, Copies, report
  <2> HIDE DEF s
  <2> QED
    BY <2>1, GotoStep, WriterFrame DEF FileOrder
<1>14. ASSUME NEW p \in Procs, Emit(p) PROVE FileOrder'
  <2>1. PICK v \in {"nil", "error", "killed"} : End(p, v)
    BY <1>14 DEF Emit
  <2>2. run[p] \in Runs /\ "idle" \notin NewFile
    BY <1>14 DEF Emit, RunOrder, NewFile
  <2> QED
    BY <2>1, <2>2, EndStep, WriterFrame DEF FileOrder
<1>15. ASSUME NEW p \in Procs, Kill(p) PROVE FileOrder'
  <2>1. PICK v \in {"nil", "error", "killed"} : End(p, v)
    BY <1>15 DEF Kill
  <2>2. run[p] \in Runs /\ "idle" \notin NewFile
    BY <1>15 DEF Kill, RunOrder, NewFile
  <2> QED
    BY <2>1, <2>2, EndStep, WriterFrame DEF FileOrder
<1>16. ASSUME NEW p \in Procs, NEW r \in Runs, Begin(p, r) PROVE FileOrder'
  <2>1. /\ verdict[r] = "unused" /\ sub'[p] = "create" /\ file' = file /\ next' = next
        /\ \A q \in Procs : q # p => run'[q] = run[q] /\ step'[q] = step[q] /\ sub'[q] = sub[q]
        /\ \A q \in Runs : q # r => cycle'[q] = cycle[q]
    BY <1>16 DEF Begin, TypeOK
  <2>2. \A q \in Procs : step[q] # "idle" => run[q] # r /\ run[q] \in Runs
    BY <2>1 DEF RunOrder
  <2> QED
    BY <2>1, <2>2, WriterFrame DEF FileOrder
<1>17. CASE PowerLoss
  <2>1. \A f \in Files : file'[f].vis \in file'[f].disk
    BY <1>17 DEF PowerLoss, Settled, Unsettled, FileOrder, TypeOK
  <2>2. \A q \in Procs : step'[q] \notin NewFile
    BY <1>17 DEF PowerLoss, NewFile
  <2> QED
    BY <2>1, <2>2 DEF FileOrder
<1> QED
  BY <1>1, <1>2, <1>3, <1>4, <1>5, <1>6, <1>7, <1>8, <1>9,
     <1>10, <1>11, <1>12, <1>13, <1>14, <1>15, <1>16, <1>17
  DEF Next, Finalize, WriteNew, Replace

(* A step of one process leaves the others and their runs alone.             *)
LEMMA OthersStep ==
  ASSUME StoreInv, NEW p \in Procs, (\E r \in Runs : Begin(p, r)) \/ Finalize(p) \/ Kill(p)
  PROVE  \A q \in Procs : q # p =>
           /\ step'[q] = step[q] /\ sub'[q] = sub[q] /\ next'[q] = next[q] /\ run'[q] = run[q]
           /\ failed'[q] = failed[q] /\ archived'[q] = archived[q]
           /\ step[q] # "idle" => /\ cycle'[run[q]] = cycle[run[q]] /\ verdict'[run[q]] = verdict[run[q]]
                                  /\ refs'[run[q]] = refs[run[q]] /\ raw'[run[q]] = raw[run[q]]
<1> USE DEF StoreInv
<1> DEFINE Others == \A q \in Procs : q # p =>
           /\ step'[q] = step[q] /\ sub'[q] = sub[q] /\ next'[q] = next[q] /\ run'[q] = run[q]
           /\ failed'[q] = failed[q] /\ archived'[q] = archived[q]
           /\ step[q] # "idle" => /\ cycle'[run[q]] = cycle[run[q]] /\ verdict'[run[q]] = verdict[run[q]]
                                  /\ refs'[run[q]] = refs[run[q]] /\ raw'[run[q]] = raw[run[q]]
<1>1. ASSUME Create(p) PROVE Others
  BY <1>1 DEF Create, report, TypeOK
<1>2. ASSUME Exists(p) PROVE Others
  <2>1. step[p] # "idle" /\ Failed(p) /\ UNCHANGED <<run, archived, refs, raw, cycle, verdict>>
    BY <1>2 DEF Exists, NewFile, Copies, report
  <2> QED
    BY <2>1, FailedStep
<1>3. ASSUME CreateFails(p) PROVE Others
  <2>1. step[p] # "idle" /\ Failed(p) /\ UNCHANGED <<run, archived, refs, raw, cycle, verdict>>
    BY <1>3 DEF CreateFails, NewFile, Copies, report
  <2> QED
    BY <2>1, FailedStep
<1>4. ASSUME Write(p) PROVE Others
  BY <1>4 DEF Write, report, TypeOK
<1>5. ASSUME Sync(p) PROVE Others
  BY <1>5 DEF Sync, report, TypeOK
<1>6. ASSUME SyncDir(p) PROVE Others
  <2>1. step[p] \in NewFile /\ run[p] \in Runs /\ Written(p) /\ UNCHANGED <<run, verdict, failed>> /\ step[p] # "idle"
    BY <1>6, TargetFile DEF SyncDir, NewFile
  <2>2. \A q \in Procs : q # p /\ step[q] # "idle" => run[q] # run[p] /\ run[q] \in Runs
    BY <2>1 DEF RunOrder
  <2>3. CASE step[p] = "evidence"
    <3>1. \A r \in Runs : r # run[p] => refs'[r] = refs[r] /\ raw'[r] = raw[r]
      BY <2>1, <2>3, EvidenceWritten DEF TypeOK
    <3> QED
      BY <2>1, <2>2, <2>3, <3>1, EvidenceWritten
  <2>4. CASE step[p] # "evidence"
    BY <2>1, <2>4, SinkWritten DEF NewFile
  <2> QED
    BY <2>3, <2>4
<1>7. ASSUME WriteFails(p) PROVE Others
  <2>1. step[p] # "idle" /\ Failed(p) /\ UNCHANGED <<run, archived, refs, raw, cycle, verdict>>
    BY <1>7 DEF WriteFails, NewFile, Copies, report
  <2> QED
    BY <2>1, FailedStep
<1>8. ASSUME Prepare(p) PROVE Others
  BY <1>8 DEF Prepare, report, TypeOK
<1>9. ASSUME Rename(p) PROVE Others
  BY <1>9 DEF Rename, report, TypeOK
<1>10. ASSUME SyncCopy(p) PROVE Others
  <2> DEFINE s == After(step[p])
  <2>1. s \in Steps /\ Goto(p, s)
    BY <1>10, AfterStep DEF SyncCopy, Steps, Copies
  <2> HIDE DEF s
  <2> QED
    BY <1>10, <2>1, GotoStep DEF SyncCopy, report, TypeOK
<1>11. ASSUME CopyFails(p) PROVE Others
  <2>1. step[p] # "idle" /\ Failed(p) /\ UNCHANGED <<run, archived, refs, raw, cycle, verdict>>
    BY <1>11 DEF CopyFails, NewFile, Copies, report
  <2> QED
    BY <2>1, FailedStep
<1>12. ASSUME Sign(p) PROVE Others
  <2> DEFINE s == IF archived[p] THEN "attestation" ELSE "last-attestation"
  <2>1. s \in Steps /\ Goto(p, s)
    BY <1>12, AfterStep DEF Sign, Steps, Copies
  <2> HIDE DEF s
  <2> QED
    BY <1>12, <2>1, GotoStep DEF Sign, report, TypeOK
<1>13. ASSUME SignFails(p) PROVE Others
  <2> DEFINE s == "stdout"
  <2>1. s \in Steps /\ Goto(p, s)
    BY <1>13, AfterStep DEF SignFails, Steps, Copies
  <2> HIDE DEF s
  <2> QED
    BY <1>13, <2>1, GotoStep DEF SignFails, report, TypeOK
<1>14. ASSUME Emit(p) PROVE Others
  <2>1. PICK v \in {"nil", "error", "killed"} : End(p, v)
    BY <1>14 DEF Emit
  <2>2. step[p] # "idle" /\ run[p] \in Runs
    BY <1>14 DEF Emit, RunOrder
  <2>3. \A q \in Procs : q # p /\ step[q] # "idle" => run[q] # run[p] /\ run[q] \in Runs
    BY <2>2 DEF RunOrder
  <2> QED
    BY <2>1, <2>2, <2>3, EndStep
<1>15. ASSUME Kill(p) PROVE Others
  <2>1. PICK v \in {"nil", "error", "killed"} : End(p, v)
    BY <1>15 DEF Kill
  <2>2. step[p] # "idle" /\ run[p] \in Runs
    BY <1>15 DEF Kill, RunOrder
  <2>3. \A q \in Procs : q # p /\ step[q] # "idle" => run[q] # run[p] /\ run[q] \in Runs
    BY <2>2 DEF RunOrder
  <2> QED
    BY <2>1, <2>2, <2>3, EndStep
<1>16. ASSUME NEW r \in Runs, Begin(p, r) PROVE Others
  <2>1. /\ verdict[r] = "unused"
        /\ \A q \in Procs : q # p => run'[q] = run[q] /\ step'[q] = step[q] /\ sub'[q] = sub[q] /\ failed'[q] = failed[q]
        /\ \A q \in Runs : q # r => verdict'[q] = verdict[q] /\ cycle'[q] = cycle[q]
        /\ UNCHANGED <<next, refs, raw, archived>>
    BY <1>16 DEF Begin, TypeOK
  <2>2. \A q \in Procs : step[q] # "idle" => run[q] # r /\ run[q] \in Runs
    BY <2>1 DEF RunOrder
  <2> QED
    BY <2>1, <2>2
<1> HIDE DEF Others
<1>a. Others
  BY <1>1, <1>2, <1>3, <1>4, <1>5, <1>6, <1>7, <1>8, <1>9, <1>10, <1>11, <1>12, <1>13, <1>14, <1>15, <1>16
  DEF Finalize, WriteNew, Replace
<1> QED
  BY <1>a DEF Others

(* Whatever is durable stays durable.                                        *)
LEMMA DurableKept ==
  ASSUME StoreInv, Next, NEW r \in Runs, NEW f \in Files, Durable(r, f)
  PROVE  Durable(r, f)'
  BY DurableStep DEF Durable

(* What a file may hold after a step it held before, unless it is nothing or *)
(* of the run whose process writes to it.                                    *)
LEMMA NewContents ==
  ASSUME StoreInv, Next, NEW f \in Files, NEW x \in {file'[f].vis} \cup file'[f].disk, x # Absent
  PROVE  \/ x \in {file[f].vis} \cup file[f].disk
         \/ \E p \in Procs : step[p] \in NewFile /\ Target(p) = f /\ x[1] = run[p]
<1>1. ASSUME NEW p \in Procs, Create(p) \/ Write(p) \/ Sync(p) \/ SyncDir(p) \/ WriteFails(p)
      PROVE  \/ x \in {file[f].vis} \cup file[f].disk
             \/ step[p] \in NewFile /\ Target(p) = f /\ x[1] = run[p]
  <2>1. step[p] \in NewFile /\ Target(p) \in Files
    BY <1>1, TargetFile DEF Create, Write, Sync, SyncDir, WriteFails, StoreInv
  <2>2. CASE Target(p) # f
    BY <1>1, <2>1, <2>2 DEF Create, Write, Sync, SyncDir, WriteFails, Changed, StoreInv, TypeOK
  <2>3. CASE Target(p) = f /\ (Create(p) \/ Write(p))
    <3>1. PICK to \in {"partial", "complete"} :
            file' = [file EXCEPT ![f] = [vis |-> <<run[p], to>>, disk |-> @.disk \cup {<<run[p], to>>}]]
      BY <2>3 DEF Create, Write, Changed
    <3>2. file'[f].vis = <<run[p], to>> /\ file'[f].disk = file[f].disk \cup {<<run[p], to>>}
      BY <3>1 DEF StoreInv, TypeOK
    <3>3. <<run[p], to>>[1] = run[p]
      OBVIOUS
    <3> QED
      BY <2>1, <2>3, <3>2, <3>3
  <2>4. CASE Target(p) = f /\ Sync(p)
    BY <2>1, <2>4 DEF Sync, StoreInv, TypeOK
  <2>5. CASE Target(p) = f /\ SyncDir(p)
    <3>1. file'[f].vis = file[f].vis /\ file'[f].disk = {<<run[p], "complete">>}
      BY <2>1, <2>5 DEF SyncDir, StoreInv, TypeOK
    <3>2. <<run[p], "complete">>[1] = run[p]
      OBVIOUS
    <3> QED
      BY <2>1, <2>5, <3>1, <3>2
  <2>6. CASE Target(p) = f /\ WriteFails(p)
    BY <2>1, <2>6 DEF WriteFails, StoreInv, TypeOK
  <2> QED
    BY <1>1, <2>2, <2>3, <2>4, <2>5, <2>6
<1>2. CASE PowerLoss
  BY <1>2 DEF PowerLoss, Settled, Unsettled, StoreInv, TypeOK
<1>3. ASSUME NEW p \in Procs,
             \/ \E s \in Runs : Begin(p, s)
             \/ Exists(p) \/ CreateFails(p) \/ Replace(p) \/ Sign(p) \/ SignFails(p) \/ Emit(p) \/ Kill(p)
      PROVE  file' = file
  BY <1>3 DEF Begin, Exists, CreateFails, Replace, Prepare, Rename, SyncCopy, CopyFails, Sign,
              SignFails, Emit, Kill, End
<1> QED
  BY <1>1, <1>2, <1>3 DEF Next, Finalize, WriteNew

(* An envelope is only ever written beside its report.                       *)
LEMMA AttestedStep == ASSUME StoreInv, Next PROVE AttestedReport'
<1> SUFFICES ASSUME NEW c \in Cycles,
                    NEW x \in {file'[<<c, "attestation">>].vis} \cup file'[<<c, "attestation">>].disk,
                    x # Absent
             PROVE  Durable(x[1], <<c, "report">>)'
  BY DEF AttestedReport, Absent
<1>1. <<c, "attestation">> \in Files /\ <<c, "report">> \in Files
  BY DEF Files
<1>2. CASE x \in {file[<<c, "attestation">>].vis} \cup file[<<c, "attestation">>].disk
  <2>1. Durable(x[1], <<c, "report">>)
    BY <1>2 DEF StoreInv, AttestedReport
  <2>2. x \in Contents
    BY <1>1, <1>2 DEF StoreInv, TypeOK
  <2>3. x[1] \in Runs
    BY <2>2 DEF Contents
  <2> QED
    BY <1>1, <2>1, <2>3, DurableKept
<1>3. ASSUME NEW p \in Procs, step[p] \in NewFile, Target(p) = <<c, "attestation">>, x[1] = run[p]
      PROVE  Durable(x[1], <<c, "report">>)'
  <2>1. /\ run[p] \in Runs /\ c = cycle[run[p]]
        /\ step[p] = "evidence" => "attestation" \in Artifacts
        /\ step[p] # "evidence" => step[p] = "attestation"
    BY <1>3, TargetFile DEF StoreInv
  <2>2. step[p] = "attestation"
    BY <2>1, StoreAssumption
  <2>3. Durable(run[p], <<c, "report">>)
    BY <2>1, <2>2 DEF StoreInv, ArchiveOrder
  <2> QED
    BY <1>1, <1>3, <2>1, <2>3, DurableKept
<1> QED
  BY <1>1, <1>2, <1>3, NewContents

(* A process that goes through its last system call has its file durable.    *)
LEMMA SyncedDurable ==
  ASSUME StoreInv, NEW p \in Procs, SyncDir(p)
  PROVE  file'[Target(p)] = [vis |-> <<run[p], "complete">>, disk |-> {<<run[p], "complete">>}]
<1>1. Target(p) \in Files /\ step[p] \in NewFile /\ sub[p] = "syncdir"
  BY TargetFile DEF SyncDir, StoreInv
<1>2. file[Target(p)].vis = <<run[p], "complete">>
  BY <1>1 DEF StoreInv, FileOrder
<1>3. file[Target(p)] \in [vis : Contents, disk : SUBSET Contents]
  BY <1>1 DEF StoreInv, TypeOK
<1>4. file'[Target(p)] = [file[Target(p)] EXCEPT !.disk = {<<run[p], "complete">>}]
  BY <1>1 DEF SyncDir, StoreInv, TypeOK
<1> QED
  BY <1>2, <1>3, <1>4

(* The archive flags of the others stay true, and so does that of a process  *)
(* that keeps it.                                                            *)
LEMMA ArchiveFrame ==
  ASSUME StoreInv, Next, NEW p \in Procs,
         (\E r \in Runs : Begin(p, r)) \/ Finalize(p) \/ Kill(p),
         \/ /\ archived'[p] = archived[p] /\ run'[p] = run[p]
            /\ cycle'[run[p]] = cycle[run[p]]
            /\ archived[p] => step'[p] # "idle"
         \/ ~archived'[p]
         \/ step'[p] # "idle" /\ file'[<<cycle'[run'[p]], "report">>] =
              [vis |-> <<run'[p], "complete">>, disk |-> {<<run'[p], "complete">>}],
         step'[p] = "attestation" => archived'[p]
  PROVE  ArchiveOrder'
<1>1. ASSUME NEW q \in Procs, archived[q]
      PROVE  /\ step[q] # "idle" /\ run[q] \in Runs
             /\ Durable(run[q], <<cycle[run[q]], "report">>)
             /\ file'[<<cycle[run[q]], "report">>] =
                  [vis |-> <<run[q], "complete">>, disk |-> {<<run[q], "complete">>}]
  <2>1. step[q] # "idle" /\ Durable(run[q], <<cycle[run[q]], "report">>)
    BY <1>1 DEF StoreInv, ArchiveOrder
  <2>2. run[q] \in Runs /\ <<cycle[run[q]], "report">> \in Files
    BY <2>1 DEF StoreInv, RunOrder, Files
  <2> QED
    BY <2>1, <2>2, DurableStep DEF Durable
<1>2. ASSUME NEW q \in Procs, q # p
      PROVE  /\ archived'[q] => step'[q] # "idle" /\ Durable(run[q], <<cycle[run[q]], "report">>)'
             /\ step'[q] = "attestation" => archived'[q]
  <2>1. /\ step'[q] = step[q] /\ run'[q] = run[q] /\ archived'[q] = archived[q]
        /\ step[q] # "idle" => cycle'[run[q]] = cycle[run[q]]
    BY <1>2, OthersStep
  <2>2. archived[q] => Durable(run[q], <<cycle[run[q]], "report">>)'
    BY <1>1, <2>1 DEF Durable
  <2> QED
    BY <1>1, <2>1, <2>2 DEF StoreInv, ArchiveOrder
<1>3. archived'[p] => step'[p] # "idle" /\ Durable(run[p], <<cycle[run[p]], "report">>)'
  BY <1>1 DEF Durable
<1> QED
  BY <1>2, <1>3 DEF ArchiveOrder

(* reportArchived is set only when the report is durable.                    *)
LEMMA ArchiveStep == ASSUME StoreInv, Next PROVE ArchiveOrder'
<1> USE DEF StoreInv
<1>1. ASSUME NEW p \in Procs, Create(p) PROVE ArchiveOrder'
  <2>1. UNCHANGED <<step, archived, run, cycle>>
    BY <1>1 DEF Create, report
  <2>2. Finalize(p)
    BY <1>1 DEF Finalize, WriteNew, Replace
  <2> QED
    BY <2>1, <2>2, ArchiveFrame DEF ArchiveOrder
<1>2. ASSUME NEW p \in Procs, Exists(p) PROVE ArchiveOrder'
  <2>1. step[p] # "idle" /\ Failed(p) /\ UNCHANGED <<run, archived, cycle>>
    BY <1>2 DEF Exists, NewFile, Copies, report
  <2>2. Finalize(p)
    BY <1>2 DEF Finalize, WriteNew, Replace
  <2> QED
    BY <2>1, <2>2, FailedStep, ArchiveFrame
<1>3. ASSUME NEW p \in Procs, CreateFails(p) PROVE ArchiveOrder'
  <2>1. step[p] # "idle" /\ Failed(p) /\ UNCHANGED <<run, archived, cycle>>
    BY <1>3 DEF CreateFails, NewFile, Copies, report
  <2>2. Finalize(p)
    BY <1>3 DEF Finalize, WriteNew, Replace
  <2> QED
    BY <2>1, <2>2, FailedStep, ArchiveFrame
<1>4. ASSUME NEW p \in Procs, Write(p) PROVE ArchiveOrder'
  <2>1. UNCHANGED <<step, archived, run, cycle>>
    BY <1>4 DEF Write, report
  <2>2. Finalize(p)
    BY <1>4 DEF Finalize, WriteNew, Replace
  <2> QED
    BY <2>1, <2>2, ArchiveFrame DEF ArchiveOrder
<1>5. ASSUME NEW p \in Procs, Sync(p) PROVE ArchiveOrder'
  <2>1. UNCHANGED <<step, archived, run, cycle>>
    BY <1>5 DEF Sync, report
  <2>2. Finalize(p)
    BY <1>5 DEF Finalize, WriteNew, Replace
  <2> QED
    BY <2>1, <2>2, ArchiveFrame DEF ArchiveOrder
<1>6. ASSUME NEW p \in Procs, SyncDir(p) PROVE ArchiveOrder'
  <2>1. step[p] \in NewFile /\ Written(p) /\ run' = run /\ Finalize(p)
    BY <1>6 DEF SyncDir, Finalize, WriteNew
  <2>2. CASE step[p] = "evidence"
    BY <2>1, <2>2, EvidenceWritten, ArchiveFrame
  <2>3. CASE step[p] = "report"
    <3>1. Target(p) = <<cycle[run[p]], "report">>
      BY <2>3 DEF Target
    <3>2. cycle' = cycle /\ step'[p] = "last-cycle"
      BY <2>1, <2>3, SinkWritten
    <3> QED
      BY <1>6, <2>1, <3>1, <3>2, SyncedDurable, ArchiveFrame DEF Durable
  <2>4. CASE step[p] = "attestation"
    BY <2>1, <2>4, SinkWritten, ArchiveFrame DEF ArchiveOrder
  <2> QED
    BY <2>1, <2>2, <2>3, <2>4 DEF NewFile
<1>7. ASSUME NEW p \in Procs, WriteFails(p) PROVE ArchiveOrder'
  <2>1. step[p] # "idle" /\ Failed(p) /\ UNCHANGED <<run, archived, cycle>>
    BY <1>7 DEF WriteFails, NewFile, Copies, report
  <2>2. Finalize(p)
    BY <1>7 DEF Finalize, WriteNew, Replace
  <2> QED
    BY <2>1, <2>2, FailedStep, ArchiveFrame
<1>8. ASSUME NEW p \in Procs, Prepare(p) PROVE ArchiveOrder'
  <2>1. UNCHANGED <<step, archived, run, cycle>>
    BY <1>8 DEF Prepare, report
  <2>2. Finalize(p)
    BY <1>8 DEF Finalize, WriteNew, Replace
  <2> QED
    BY <2>1, <2>2, ArchiveFrame DEF ArchiveOrder
<1>9. ASSUME NEW p \in Procs, Rename(p) PROVE ArchiveOrder'
  <2>1. UNCHANGED <<step, archived, run, cycle>>
    BY <1>9 DEF Rename, report
  <2>2. Finalize(p)
    BY <1>9 DEF Finalize, WriteNew, Replace
  <2> QED
    BY <2>1, <2>2, ArchiveFrame DEF ArchiveOrder
<1>10. ASSUME NEW p \in Procs, SyncCopy(p) PROVE ArchiveOrder'
  <2> DEFINE s == After(step[p])
  <2>1. s \in Steps /\ Goto(p, s) /\ s # "idle" /\ (s = "attestation" => archived[p])
        /\ UNCHANGED <<archived, run, cycle>>
    BY <1>10, AfterStep DEF SyncCopy, Steps, Copies, report
  <2>2. Finalize(p)
    BY <1>10 DEF Finalize, WriteNew, Replace
  <2> HIDE DEF s
  <2> QED
    BY <2>1, <2>2, GotoStep, ArchiveFrame
<1>11. ASSUME NEW p \in Procs, CopyFails(p) PROVE ArchiveOrder'
  <2>1. step[p] # "idle" /\ Failed(p) /\ UNCHANGED <<run, archived, cycle>>
    BY <1>11 DEF CopyFails, NewFile, Copies, report
  <2>2. Finalize(p)
    BY <1>11 DEF Finalize, WriteNew, Replace
  <2> QED
    BY <2>1, <2>2, FailedStep, ArchiveFrame
<1>12. ASSUME NEW p \in Procs, Sign(p) PROVE ArchiveOrder'
  <2> DEFINE s == IF archived[p] THEN "attestation" ELSE "last-attestation"
  <2>1. s \in Steps /\ Goto(p, s) /\ s # "idle" /\ (s = "attestation" => archived[p])
        /\ UNCHANGED <<archived, run, cycle>>
    BY <1>12, AfterStep DEF Sign, Steps, Copies, report
  <2>2. Finalize(p)
    BY <1>12 DEF Finalize, WriteNew, Replace
  <2> HIDE DEF s
  <2> QED
    BY <2>1, <2>2, GotoStep, ArchiveFrame
<1>13. ASSUME NEW p \in Procs, SignFails(p) PROVE ArchiveOrder'
  <2> DEFINE s == "stdout"
  <2>1. s \in Steps /\ Goto(p, s) /\ s # "idle" /\ (s = "attestation" => archived[p])
        /\ UNCHANGED <<archived, run, cycle>>
    BY <1>13, AfterStep DEF SignFails, Steps, Copies, report
  <2>2. Finalize(p)
    BY <1>13 DEF Finalize, WriteNew, Replace
  <2> HIDE DEF s
  <2> QED
    BY <2>1, <2>2, GotoStep, ArchiveFrame
<1>14. ASSUME NEW p \in Procs, Emit(p) PROVE ArchiveOrder'
  <2>1. PICK v \in {"nil", "error", "killed"} : End(p, v)
    BY <1>14 DEF Emit
  <2>2. run[p] \in Runs /\ (Finalize(p) \/ Kill(p))
    BY <1>14 DEF Emit, RunOrder, Finalize
  <2> QED
    BY <2>1, <2>2, EndStep, ArchiveFrame
<1>15. ASSUME NEW p \in Procs, Kill(p) PROVE ArchiveOrder'
  <2>1. PICK v \in {"nil", "error", "killed"} : End(p, v)
    BY <1>15 DEF Kill
  <2>2. run[p] \in Runs /\ (Finalize(p) \/ Kill(p))
    BY <1>15 DEF Kill, RunOrder, Finalize
  <2> QED
    BY <2>1, <2>2, EndStep, ArchiveFrame
<1>16. ASSUME NEW p \in Procs, NEW r \in Runs, Begin(p, r) PROVE ArchiveOrder'
  <2>1. step[p] = "idle" /\ archived' = archived /\ step'[p] = "evidence"
    BY <1>16 DEF Begin, TypeOK
  <2>2. ~archived[p]
    BY <2>1 DEF ArchiveOrder
  <2> QED
    BY <1>16, <2>1, <2>2, ArchiveFrame
<1>17. CASE PowerLoss
  BY <1>17 DEF PowerLoss, ArchiveOrder
<1> QED
  BY <1>1, <1>2, <1>3, <1>4, <1>5, <1>6, <1>7, <1>8, <1>9,
     <1>10, <1>11, <1>12, <1>13, <1>14, <1>15, <1>16, <1>17
  DEF Next, Finalize, WriteNew, Replace

(* The report, its evidence and the raw data of a run change only while a    *)
(* process is in it.                                                         *)
LEMMA RestStep ==
  ASSUME StoreInv, Next, NEW r \in Runs, verdict[r] \notin {"unused", "running"}
  PROVE  /\ verdict'[r] = verdict[r] /\ cycle'[r] = cycle[r]
         /\ refs'[r] = refs[r] /\ raw'[r] = raw[r]
<1> USE DEF StoreInv
<1>1. ASSUME NEW p \in Procs, NEW s \in Runs, Begin(p, s)
      PROVE  /\ verdict'[r] = verdict[r] /\ cycle'[r] = cycle[r]
             /\ refs'[r] = refs[r] /\ raw'[r] = raw[r]
  BY <1>1 DEF Begin, TypeOK
<1>2. ASSUME NEW p \in Procs, SyncDir(p)
      PROVE  /\ verdict'[r] = verdict[r] /\ cycle'[r] = cycle[r]
             /\ refs'[r] = refs[r] /\ raw'[r] = raw[r]
  <2>1. step[p] \in NewFile /\ Written(p) /\ verdict' = verdict /\ run[p] \in Runs
    BY <1>2, TargetFile DEF SyncDir
  <2>2. r # run[p]
    BY <2>1 DEF RunOrder, NewFile
  <2>3. CASE step[p] = "evidence"
    BY <2>1, <2>2, <2>3, EvidenceWritten DEF TypeOK
  <2>4. CASE step[p] # "evidence"
    BY <2>1, <2>4, SinkWritten DEF NewFile
  <2> QED
    BY <2>3, <2>4
<1>3. ASSUME NEW p \in Procs, Emit(p) \/ Kill(p)
      PROVE  /\ verdict'[r] = verdict[r] /\ cycle'[r] = cycle[r]
             /\ refs'[r] = refs[r] /\ raw'[r] = raw[r]
  <2>1. PICK v \in {"nil", "error", "killed"} : End(p, v)
    BY <1>3 DEF Emit, Kill
  <2>2. run[p] \in Runs /\ r # run[p]
    BY <1>3 DEF Emit, Kill, RunOrder
  <2> QED
    BY <2>1, <2>2, EndStep
<1>4. CASE PowerLoss
  BY <1>4 DEF PowerLoss, report
<1>5. ASSUME NEW p \in Procs,
             \/ Create(p) \/ Write(p) \/ Sync(p) \/ Exists(p) \/ CreateFails(p) \/ WriteFails(p)
             \/ Replace(p) \/ Sign(p) \/ SignFails(p)
      PROVE  UNCHANGED <<verdict, cycle, refs, raw>>
  BY <1>5 DEF Create, Write, Sync, Exists, CreateFails, WriteFails, Replace, Prepare, Rename,
              SyncCopy, CopyFails, Sign, SignFails, report
<1> QED
  BY <1>1, <1>2, <1>3, <1>4, <1>5 DEF Next, Finalize, WriteNew

(* A verdict of nil is given to a run in which nothing failed.               *)
LEMMA NilStep ==
  ASSUME StoreInv, Next, NEW r \in Runs, verdict[r] # "nil", verdict'[r] = "nil"
  PROVE  /\ \E p \in Procs : step[p] = "stdout" /\ run[p] = r /\ ~failed[p]
         /\ UNCHANGED <<refs, raw, cycle, file>>
<1> USE DEF StoreInv
<1>1. ASSUME NEW p \in Procs, NEW s \in Runs, Begin(p, s) PROVE verdict'[r] # "nil"
  BY <1>1 DEF Begin, TypeOK
<1>2. CASE PowerLoss
  BY <1>2 DEF PowerLoss
<1>3. ASSUME NEW p \in Procs, Kill(p) PROVE verdict'[r] # "nil"
  BY <1>3, EndStep DEF Kill, RunOrder
<1>4. ASSUME NEW p \in Procs, WriteNew(p) \/ Replace(p) \/ Sign(p) \/ SignFails(p)
      PROVE  verdict' = verdict
  BY <1>4 DEF WriteNew, Create, Write, Sync, SyncDir, Exists, CreateFails, WriteFails, Replace,
              Prepare, Rename, SyncCopy, CopyFails, Sign, SignFails
<1>5. ASSUME NEW p \in Procs, Emit(p)
      PROVE  step[p] = "stdout" /\ run[p] = r /\ ~failed[p] /\ UNCHANGED <<refs, raw, cycle, file>>
  <2>1. step[p] = "stdout" /\ run[p] \in Runs
    BY <1>5 DEF Emit, RunOrder
  <2>2. CASE failed[p]
    BY <1>5, <2>1, <2>2, EndStep DEF Emit
  <2>3. CASE ~failed[p]
    <3>1. PICK v : End(p, v)
      BY <1>5 DEF Emit
    <3> QED
      BY <2>1, <2>3, <3>1, EndStep
  <2> QED
    BY <2>2, <2>3
<1> QED
  BY <1>1, <1>2, <1>3, <1>4, <1>5 DEF Next, Finalize

(* nil is returned only when everything is durable, and stays true.          *)
LEMMA NilDurableStep == ASSUME StoreInv, Next PROVE NilMeansDurable'
<1> SUFFICES ASSUME NEW r \in Runs, verdict'[r] = "nil"
             PROVE  /\ Durable(r, <<cycle[r], "report">>)'
                    /\ raw'[r] = {} /\ refs'[r] = Artifacts
                    /\ Signing => Durable(r, <<cycle[r], "attestation">>)'
  BY DEF NilMeansDurable
<1>1. CASE verdict[r] = "nil"
  <2>1. /\ Durable(r, <<cycle[r], "report">>) /\ raw[r] = {} /\ refs[r] = Artifacts
        /\ Signing => Durable(r, <<cycle[r], "attestation">>)
    BY <1>1 DEF StoreInv, NilMeansDurable
  <2>2. cycle'[r] = cycle[r] /\ refs'[r] = refs[r] /\ raw'[r] = raw[r]
    BY <1>1, RestStep
  <2>4. \A f \in Files : Durable(r, f) => file'[f] = file[f]
    BY DurableStep
  <2>5. cycle[r] \in Cycles
    BY <1>1 DEF StoreInv, RunOrder
  <2>6. <<cycle[r], "report">> \in Files /\ <<cycle[r], "attestation">> \in Files
    BY <2>5 DEF Files
  <2> QED
    BY <2>1, <2>2, <2>4, <2>6 DEF Durable
<1>2. CASE verdict[r] # "nil"
  <2>1. PICK p \in Procs : step[p] = "stdout" /\ run[p] = r /\ ~failed[p]
    BY <1>2, NilStep
  <2>2. UNCHANGED <<refs, raw, cycle, file>>
    BY <1>2, NilStep
  <2>3. raw[r] = {} /\ archived[p] /\ (Signing => Durable(r, <<cycle[r], "attestation">>))
    BY <2>1 DEF StoreInv, DoneOrder, Done
  <2>4. Durable(r, <<cycle[r], "report">>)
    BY <2>1, <2>3 DEF StoreInv, ArchiveOrder
  <2>5. refs[r] = Artifacts
    <3>1. \A g \in Groups : \A i \in 1..Last(g) : Evidence[g][i] \in refs[r]
      BY <2>3 DEF StoreInv, EvidenceKept
    <3>2. refs[r] \subseteq Artifacts
      BY DEF StoreInv, TypeOK
    <3> QED
      BY <3>1, <3>2 DEF Artifacts
  <2> QED
    BY <2>2, <2>3, <2>4, <2>5 DEF Durable
<1> QED
  BY <1>1, <1>2

(* Only evidence that is written changes what a report holds, and only a run *)
(* that begins gets a cycle ID.                                              *)
LEMMA ReportFrame ==
  ASSUME StoreInv, Next, ~ \E p \in Procs : SyncDir(p) /\ step[p] = "evidence"
  PROVE  UNCHANGED <<refs, raw>> /\ \A r \in Runs : verdict[r] # "unused" => cycle'[r] = cycle[r]
<1> DEFINE Same == UNCHANGED <<refs, raw>> /\ \A r \in Runs : verdict[r] # "unused" => cycle'[r] = cycle[r]
<1>1. ASSUME NEW p \in Procs, SyncDir(p) PROVE Same
  <2>1. step[p] \in {"report", "attestation"} /\ Written(p)
    BY <1>1 DEF SyncDir, NewFile
  <2> QED
    BY <2>1, SinkWritten DEF StoreInv
<1>2. ASSUME NEW p \in Procs, NEW r \in Runs, Begin(p, r) PROVE Same
  BY <1>2 DEF Begin, StoreInv, TypeOK
<1>3. ASSUME NEW p \in Procs,
             Create(p) \/ Write(p) \/ Sync(p) \/ Exists(p) \/ CreateFails(p) \/ WriteFails(p)
      PROVE  Same
  BY <1>3 DEF Create, Write, Sync, Exists, CreateFails, WriteFails, report
<1>4. ASSUME NEW p \in Procs, Replace(p) \/ Sign(p) \/ SignFails(p) \/ Emit(p) \/ Kill(p) PROVE Same
  BY <1>4 DEF Replace, Prepare, Rename, SyncCopy, CopyFails, Sign, SignFails, Emit, Kill, End, report
<1>5. CASE PowerLoss
  BY <1>5 DEF PowerLoss, report
<1> QED
  BY <1>1, <1>2, <1>3, <1>4, <1>5 DEF Next, Finalize, WriteNew

(* What a report references stays durable, and raw data leaves it only when  *)
(* the last file of its group is.                                            *)
LEMMA EvidenceKeptStep == ASSUME StoreInv, Next PROVE EvidenceKept'
<1>1. ASSUME NEW r \in Runs, NEW a \in refs[r], cycle'[r] = cycle[r]
      PROVE  Durable(r, <<cycle[r], a>>)'
  <2>1. a \in Artifacts /\ cycle[r] \in Cycles /\ Durable(r, <<cycle[r], a>>)
    BY DEF StoreInv, TypeOK, RunOrder, EvidenceKept
  <2>2. <<cycle[r], a>> \in Files
    BY <2>1 DEF Files
  <2> QED
    BY <1>1, <2>1, <2>2, DurableStep DEF Durable
<1>2. \A r \in Runs : \A g \in Groups \ raw[r] : \A i \in 1..Last(g) : Evidence[g][i] \in refs[r]
  BY DEF StoreInv, EvidenceKept
<1>3. ASSUME NEW p \in Procs, SyncDir(p), step[p] = "evidence"
      PROVE  EvidenceKept'
  <2> DEFINE g == next[p].group
             i == next[p].index
  <2>1. Written(p) /\ run[p] \in Runs /\ Target(p) = <<cycle[run[p]], Evidence[g][i]>>
    BY <1>3, TargetFile DEF SyncDir, NewFile, StoreInv, Target
  <2>2. cycle' = cycle /\ refs' = [refs EXCEPT ![run[p]] = @ \cup {Evidence[g][i]}]
    BY <1>3, <2>1, EvidenceWritten DEF StoreInv
  <2>3. \A r \in Runs : refs'[r] = IF r = run[p] THEN refs[r] \cup {Evidence[g][i]} ELSE refs[r]
    BY <2>2 DEF StoreInv, TypeOK
  <2>4. raw' = raw \/ (i = Last(g) /\ raw' = [raw EXCEPT ![run[p]] = @ \ {g}])
    BY <1>3, <2>1, EvidenceWritten DEF StoreInv
  <2>5. file'[<<cycle[run[p]], Evidence[g][i]>>] =
          [vis |-> <<run[p], "complete">>, disk |-> {<<run[p], "complete">>}]
    BY <1>3, <2>1, SyncedDurable
  <2>6. ASSUME NEW r \in Runs, NEW a \in refs'[r] PROVE Durable(r, <<cycle[r], a>>)'
    <3>1. CASE a \in refs[r]
      BY <1>1, <2>2, <3>1
    <3>2. CASE a \notin refs[r]
      <4>1. r = run[p] /\ a = Evidence[g][i]
        BY <2>3, <3>2
      <4> QED
        BY <2>2, <2>5, <4>1 DEF Durable
    <3> QED
      BY <3>1, <3>2
  <2>7. ASSUME NEW r \in Runs, NEW h \in Groups \ raw'[r], NEW j \in 1..Last(h)
        PROVE  Evidence[h][j] \in refs'[r]
    <3>1. CASE h \notin raw[r]
      BY <1>2, <2>3, <3>1
    <3>2. CASE h \in raw[r]
      <4>1. r = run[p] /\ h = g /\ i = Last(g)
        BY <2>4, <3>2 DEF StoreInv, TypeOK
      <4>2. j < i => Evidence[g][j] \in refs[run[p]]
        BY <1>3, <4>1 DEF StoreInv, DoneOrder, Done
      <4>3. Last(g) \in Nat
        BY StoreAssumption, <4>1
      <4>4. j < i \/ j = i
        BY <4>1, <4>3
      <4> QED
        BY <2>3, <4>1, <4>2, <4>4
    <3> QED
      BY <3>1, <3>2
  <2> QED
    BY <2>6, <2>7 DEF EvidenceKept
<1>4. CASE ~ \E p \in Procs : SyncDir(p) /\ step[p] = "evidence"
  <2>1. UNCHANGED <<refs, raw>> /\ \A r \in Runs : verdict[r] # "unused" => cycle'[r] = cycle[r]
    BY <1>4, ReportFrame
  <2>2. ASSUME NEW r \in Runs, NEW a \in refs'[r] PROVE Durable(r, <<cycle[r], a>>)'
    <3>1. a \in refs[r] /\ verdict[r] # "unused"
      BY <2>1 DEF StoreInv, RunOrder
    <3> QED
      BY <1>1, <2>1, <3>1
  <2> QED
    BY <1>2, <2>1, <2>2 DEF EvidenceKept
<1> QED
  BY <1>3, <1>4

(* A step of one process does not undo what another has got done.            *)
LEMMA DoneFrame ==
  ASSUME StoreInv, Next, NEW p \in Procs,
         (\E r \in Runs : Begin(p, r)) \/ Finalize(p) \/ Kill(p), Done(p)'
  PROVE  DoneOrder'
<1>1. ASSUME NEW q \in Procs, q # p PROVE Done(q)'
  <2>1. /\ step'[q] = step[q] /\ next'[q] = next[q] /\ run'[q] = run[q]
        /\ failed'[q] = failed[q] /\ archived'[q] = archived[q]
        /\ step[q] # "idle" => /\ cycle'[run[q]] = cycle[run[q]]
                               /\ refs'[run[q]] = refs[run[q]] /\ raw'[run[q]] = raw[run[q]]
    BY <1>1, OthersStep
  <2>2. ASSUME step[q] # "idle", Durable(run[q], <<cycle[run[q]], "attestation">>)
        PROVE  Durable(run[q], <<cycle[run[q]], "attestation">>)'
    <3>1. run[q] \in Runs /\ <<cycle[run[q]], "attestation">> \in Files
      BY <2>2 DEF StoreInv, RunOrder, Files
    <3> QED
      BY <2>1, <2>2, <3>1, DurableStep DEF Durable
  <2>3. Done(q)
    BY DEF StoreInv, DoneOrder
  <2> QED
    BY <2>1, <2>2, <2>3 DEF Done, Durable
<1> QED
  BY <1>1 DEF DoneOrder

(* A process that stays at its sink keeps what it has got done.              *)
LEMMA DoneStays ==
  ASSUME StoreInv, Next, NEW p \in Procs, step[p] # "idle",
         UNCHANGED <<step, next, failed, archived, run, cycle, refs, raw>>
  PROVE  Done(p)'
<1>1. ASSUME Durable(run[p], <<cycle[run[p]], "attestation">>)
      PROVE  Durable(run[p], <<cycle[run[p]], "attestation">>)'
  <2>1. run[p] \in Runs /\ <<cycle[run[p]], "attestation">> \in Files
    BY DEF StoreInv, RunOrder, Files
  <2> QED
    BY <1>1, <2>1, DurableStep DEF Durable
<1>2. Done(p)
  BY DEF StoreInv, DoneOrder
<1> QED
  BY <1>1, <1>2 DEF Done, Durable

(* A process reaches a sink with what the one before it was for.              *)
LEMMA DoneStep == ASSUME StoreInv, Next PROVE DoneOrder'
<1> USE DEF StoreInv
<1>1. ASSUME NEW p \in Procs, Create(p) PROVE DoneOrder'
  <2>1. step[p] # "idle" /\ UNCHANGED <<step, next, failed, archived, run, cycle, refs, raw>>
    BY <1>1 DEF Create, NewFile, Copies, report
  <2>2. Done(p)'
    BY <2>1, DoneStays
  <2> QED
    BY <1>1, <2>2, DoneFrame DEF Finalize, WriteNew, Replace
<1>2. ASSUME NEW p \in Procs, Exists(p) PROVE DoneOrder'
  <2>1. step[p] # "idle" /\ Failed(p)
    BY <1>2 DEF Exists, NewFile, Copies
  <2>2. failed'[p] /\ step'[p] # "evidence"
    BY <2>1, FailedStep
  <2>3. Done(p)'
    BY <2>2 DEF Done
  <2> QED
    BY <1>2, <2>3, DoneFrame DEF Finalize, WriteNew, Replace
<1>3. ASSUME NEW p \in Procs, CreateFails(p) PROVE DoneOrder'
  <2>1. step[p] # "idle" /\ Failed(p)
    BY <1>3 DEF CreateFails, NewFile, Copies
  <2>2. failed'[p] /\ step'[p] # "evidence"
    BY <2>1, FailedStep
  <2>3. Done(p)'
    BY <2>2 DEF Done
  <2> QED
    BY <1>3, <2>3, DoneFrame DEF Finalize, WriteNew, Replace
<1>4. ASSUME NEW p \in Procs, Write(p) PROVE DoneOrder'
  <2>1. step[p] # "idle" /\ UNCHANGED <<step, next, failed, archived, run, cycle, refs, raw>>
    BY <1>4 DEF Write, NewFile, Copies, report
  <2>2. Done(p)'
    BY <2>1, DoneStays
  <2> QED
    BY <1>4, <2>2, DoneFrame DEF Finalize, WriteNew, Replace
<1>5. ASSUME NEW p \in Procs, Sync(p) PROVE DoneOrder'
  <2>1. step[p] # "idle" /\ UNCHANGED <<step, next, failed, archived, run, cycle, refs, raw>>
    BY <1>5 DEF Sync, NewFile, Copies, report
  <2>2. Done(p)'
    BY <2>1, DoneStays
  <2> QED
    BY <1>5, <2>2, DoneFrame DEF Finalize, WriteNew, Replace
<1>6. ASSUME NEW p \in Procs, SyncDir(p) PROVE DoneOrder'
  <2>1. step[p] \in NewFile /\ Written(p) /\ UNCHANGED <<run, failed>> /\ run[p] \in Runs
    BY <1>6, TargetFile DEF SyncDir
  <2>2. ASSUME step[p] = "evidence" PROVE Done(p)'
    <3> DEFINE g == next[p].group
               i == next[p].index
    <3>1. g \in Groups /\ i \in 1..Last(g) /\ Last(g) \in Nat /\ Len(Evidence) \in Nat
      BY StoreAssumption DEF TypeOK
    <3>2. refs'[run[p]] = refs[run[p]] \cup {Evidence[g][i]} /\ archived' = archived /\ cycle' = cycle
      BY <2>1, <2>2, EvidenceWritten DEF TypeOK
    <3>3. /\ \A j \in 1..Last(g) : j < i => Evidence[g][j] \in refs[run[p]]
          /\ ~failed[p] => \A h \in raw[run[p]] : h >= g
      BY <2>2 DEF DoneOrder, Done
    <3>4. CASE /\ i < Last(g) /\ step'[p] = "evidence" /\ raw' = raw
               /\ next'[p].group = g /\ next'[p].index = i + 1
      <4>1. \A j \in 1..Last(g) : j < i + 1 => j < i \/ j = i
        BY <3>1
      <4>2. \A j \in 1..Last(g) : j < i + 1 => Evidence[g][j] \in refs'[run[p]]
        BY <3>2, <3>3, <4>1
      <4> QED
        BY <2>1, <3>3, <3>4, <4>2 DEF Done
    <3>5. CASE /\ i = Last(g) /\ raw' = [raw EXCEPT ![run[p]] = @ \ {g}]
               /\ g < Len(Evidence) /\ step'[p] = "evidence"
               /\ next'[p].group = g + 1 /\ next'[p].index = 1
      <4>1. raw[run[p]] \subseteq Groups /\ raw'[run[p]] = raw[run[p]] \ {g}
        BY <2>1, <3>5 DEF TypeOK
      <4>2. ~failed[p] => \A h \in raw'[run[p]] : h >= g + 1
        BY <3>1, <3>3, <4>1 DEF Groups
      <4>3. \A j \in 1..Last(g + 1) : ~(j < 1)
        OBVIOUS
      <4> QED
        BY <2>1, <3>5, <4>2, <4>3 DEF Done
    <3>6. CASE /\ i = Last(g) /\ raw' = [raw EXCEPT ![run[p]] = @ \ {g}]
               /\ g = Len(Evidence) /\ step'[p] = "report"
      <4>1. raw[run[p]] \subseteq Groups /\ raw'[run[p]] = raw[run[p]] \ {g}
        BY <2>1, <3>6 DEF TypeOK
      <4>2. ASSUME ~failed[p], NEW h \in raw'[run[p]] PROVE FALSE
        BY <3>1, <3>3, <3>6, <4>1, <4>2 DEF Groups
      <4>3. ~failed[p] => raw'[run[p]] = {}
        BY <4>2
      <4> QED
        BY <2>1, <3>6, <4>3 DEF Done
    <3> QED
      BY <2>1, <2>2, <3>4, <3>5, <3>6, EvidenceWritten
  <2>3. ASSUME step[p] = "report" PROVE Done(p)'
    <3>1. step'[p] = "last-cycle" /\ archived'[p] /\ raw' = raw
      BY <2>1, <2>3, SinkWritten
    <3>2. ~failed[p] => raw[run[p]] = {}
      BY <2>3 DEF DoneOrder, Done
    <3> QED
      BY <2>1, <3>1, <3>2 DEF Done
  <2>4. ASSUME step[p] = "attestation" PROVE Done(p)'
    <3>1. /\ step'[p] = "last-attestation" /\ raw' = raw /\ cycle' = cycle
          /\ archived'[p] <=> archived[p]
      BY <2>1, <2>4, SinkWritten
    <3>2. ~failed[p] => raw[run[p]] = {} /\ archived[p]
      BY <2>4 DEF DoneOrder, Done
    <3>3. Target(p) = <<cycle[run[p]], "attestation">>
      BY <2>4 DEF Target
    <3>4. Durable(run[p], <<cycle[run[p]], "attestation">>)'
      BY <1>6, <2>1, <3>1, <3>3, SyncedDurable DEF Durable
    <3> QED
      BY <2>1, <3>1, <3>2, <3>4 DEF Done
  <2>5. Done(p)'
    BY <2>1, <2>2, <2>3, <2>4 DEF NewFile
  <2> QED
    BY <1>6, <2>5, DoneFrame DEF Finalize, WriteNew, Replace
<1>7. ASSUME NEW p \in Procs, WriteFails(p) PROVE DoneOrder'
  <2>1. step[p] # "idle" /\ Failed(p)
    BY <1>7 DEF WriteFails, NewFile, Copies
  <2>2. failed'[p] /\ step'[p] # "evidence"
    BY <2>1, FailedStep
  <2>3. Done(p)'
    BY <2>2 DEF Done
  <2> QED
    BY <1>7, <2>3, DoneFrame DEF Finalize, WriteNew, Replace
<1>8. ASSUME NEW p \in Procs, Prepare(p) PROVE DoneOrder'
  <2>1. step[p] # "idle" /\ UNCHANGED <<step, next, failed, archived, run, cycle, refs, raw>>
    BY <1>8 DEF Prepare, NewFile, Copies, report
  <2>2. Done(p)'
    BY <2>1, DoneStays
  <2> QED
    BY <1>8, <2>2, DoneFrame DEF Finalize, WriteNew, Replace
<1>9. ASSUME NEW p \in Procs, Rename(p) PROVE DoneOrder'
  <2>1. step[p] # "idle" /\ UNCHANGED <<step, next, failed, archived, run, cycle, refs, raw>>
    BY <1>9 DEF Rename, NewFile, Copies, report
  <2>2. Done(p)'
    BY <2>1, DoneStays
  <2> QED
    BY <1>9, <2>2, DoneFrame DEF Finalize, WriteNew, Replace
<1>10. ASSUME NEW p \in Procs, SyncCopy(p) PROVE DoneOrder'
  <2>1. step[p] \in Copies /\ Goto(p, After(step[p])) /\ UNCHANGED <<failed, archived, run, cycle, refs, raw>>
    BY <1>10 DEF SyncCopy, report
  <2>2. step[p] \in Steps /\ After(step[p]) \in Steps
    BY <2>1, AfterStep DEF Steps, Copies
  <2>3. step'[p] = After(step[p])
    BY <2>1, <2>2, GotoStep
  <2>4. \/ step[p] = "last-cycle" /\ step'[p] = IF Signing THEN "sign" ELSE "stdout"
        \/ step[p] = "last-attestation" /\ step'[p] = "attestation-out"
        \/ step[p] = "attestation-out" /\ step'[p] = "stdout"
    BY <2>1, <2>3 DEF Copies, After
  <2>5. ~failed[p] => archived[p] /\ raw[run[p]] = {}
    BY <2>4 DEF DoneOrder, Done
  <2>6. ASSUME ~failed[p], step[p] \in {"last-attestation", "attestation-out"}
        PROVE  Durable(run[p], <<cycle[run[p]], "attestation">>)'
    <3>1. Durable(run[p], <<cycle[run[p]], "attestation">>)
      BY <2>6 DEF DoneOrder, Done
    <3>2. run[p] \in Runs /\ <<cycle[run[p]], "attestation">> \in Files
      BY <2>6 DEF RunOrder, Files
    <3> QED
      BY <2>1, <3>1, <3>2, DurableStep DEF Durable
  <2>7. Done(p)'
    BY <2>1, <2>4, <2>5, <2>6 DEF Done, Durable
  <2> QED
    BY <1>10, <2>7, DoneFrame DEF Finalize, WriteNew, Replace
<1>11. ASSUME NEW p \in Procs, CopyFails(p) PROVE DoneOrder'
  <2>1. step[p] # "idle" /\ Failed(p)
    BY <1>11 DEF CopyFails, NewFile, Copies
  <2>2. failed'[p] /\ step'[p] # "evidence"
    BY <2>1, FailedStep
  <2>3. Done(p)'
    BY <2>2 DEF Done
  <2> QED
    BY <1>11, <2>3, DoneFrame DEF Finalize, WriteNew, Replace
<1>12. ASSUME NEW p \in Procs, Sign(p) PROVE DoneOrder'
  <2> DEFINE s == IF archived[p] THEN "attestation" ELSE "last-attestation"
  <2>1. s \in Steps /\ Goto(p, s)
    BY <1>12 DEF Sign, Steps
  <2>2. step'[p] = s
    BY <2>1, GotoStep
  <2>3. step[p] = "sign" /\ UNCHANGED <<failed, archived, run, cycle, refs, raw>>
    BY <1>12 DEF Sign, report
  <2>4. ~failed[p] => archived[p] /\ raw[run[p]] = {}
    BY <2>3 DEF DoneOrder, Done
  <2>5. Done(p)'
    BY <2>2, <2>3, <2>4 DEF Done
  <2> QED
    BY <1>12, <2>5, DoneFrame DEF Finalize, WriteNew, Replace
<1>13. ASSUME NEW p \in Procs, SignFails(p) PROVE DoneOrder'
  <2>1. "stdout" \in Steps /\ Goto(p, "stdout")
    BY <1>13 DEF SignFails, Steps
  <2>2. step'[p] = "stdout"
    BY <2>1, GotoStep
  <2>3. failed'[p]
    BY <1>13 DEF SignFails, TypeOK
  <2>4. Done(p)'
    BY <2>2, <2>3 DEF Done
  <2> QED
    BY <1>13, <2>4, DoneFrame DEF Finalize, WriteNew, Replace
<1>14. ASSUME NEW p \in Procs, Emit(p) PROVE DoneOrder'
  <2>1. PICK v \in {"nil", "error", "killed"} : End(p, v)
    BY <1>14 DEF Emit
  <2>2. step'[p] = "idle"
    BY <1>14, <2>1, EndStep DEF Emit, RunOrder
  <2>3. Done(p)'
    BY <2>2 DEF Done
  <2> QED
    BY <1>14, <2>3, DoneFrame DEF Finalize, WriteNew, Replace
<1>15. ASSUME NEW p \in Procs, Kill(p) PROVE DoneOrder'
  <2>1. PICK v \in {"nil", "error", "killed"} : End(p, v)
    BY <1>15 DEF Kill
  <2>2. step'[p] = "idle"
    BY <1>15, <2>1, EndStep DEF Kill, RunOrder
  <2>3. Done(p)'
    BY <2>2 DEF Done
  <2> QED
    BY <1>15, <2>3, DoneFrame DEF Finalize, WriteNew, Replace
<1>16. ASSUME NEW p \in Procs, NEW r \in Runs, Begin(p, r) PROVE DoneOrder'
  <2>1. /\ step'[p] = "evidence" /\ run'[p] = r /\ next'[p] = First
        /\ raw'[r] = Groups
    BY <1>16 DEF Begin, TypeOK, RunOrder
  <2>2. \A g \in Groups : g >= 1
    BY StoreAssumption DEF Groups
  <2>3. \A i \in 1..Last(1) : ~(i < 1)
    OBVIOUS
  <2>4. next'[p].group = 1 /\ next'[p].index = 1
    BY <2>1 DEF First
  <2>5. Done(p)'
    BY <2>1, <2>2, <2>3, <2>4 DEF Done
  <2> QED
    BY <1>16, <2>5, DoneFrame
<1>17. CASE PowerLoss
  <2>1. \A p \in Procs : step'[p] = "idle"
    BY <1>17 DEF PowerLoss
  <2> QED
    BY <2>1 DEF DoneOrder, Done
<1> QED
  BY <1>1, <1>2, <1>3, <1>4, <1>5, <1>6, <1>7, <1>8, <1>9,
     <1>10, <1>11, <1>12, <1>13, <1>14, <1>15, <1>16, <1>17
  DEF Next, Finalize, WriteNew, Replace

(* A step preserves the inductive invariant.                                 *)
LEMMA NextStore == StoreInv /\ [Next]_vars => StoreInv'
<1> SUFFICES ASSUME StoreInv, [Next]_vars PROVE StoreInv'
  OBVIOUS
<1>1. CASE Next
  BY <1>1, TypeStep, RunStep, FileStep, ArchiveStep, DoneStep, AttestedStep, EvidenceKeptStep, NilDurableStep
  DEF StoreInv
<1>2. CASE UNCHANGED vars
  <2> USE <1>2 DEF vars, report
  <2>1. TypeOK' /\ RunOrder'
    BY DEF StoreInv, TypeOK, RunOrder
  <2>2. FileOrder'
    BY DEF StoreInv, FileOrder, Target
  <2>3. ArchiveOrder'
    BY DEF StoreInv, ArchiveOrder, Durable
  <2>4. DoneOrder'
    BY DEF StoreInv, DoneOrder, Done, Durable
  <2>5. AttestedReport'
    BY DEF StoreInv, AttestedReport, Durable
  <2>6. EvidenceKept'
    BY DEF StoreInv, EvidenceKept, Durable
  <2>7. NilMeansDurable'
    BY DEF StoreInv, NilMeansDurable, Durable
  <2> QED
    BY <2>1, <2>2, <2>3, <2>4, <2>5, <2>6, <2>7 DEF StoreInv
<1> QED
  BY <1>1, <1>2

(* Runs, files, reportArchived and the errors collected stay in step         *)
(* (persistCommandEvidence, finalizeCycle).                                  *)
THEOREM StoreInvariance == Spec => []StoreInv
  BY InitStore, NextStore, PTL DEF Spec

(* An archived envelope, even one that only a power loss would bring back,   *)
(* lies beside the complete and durable report it was made for               *)
(* (finalizeCycle).                                                          *)
THEOREM EnvelopeBesideReport == Spec => []AttestedReport
<1>1. StoreInv => AttestedReport
  BY DEF StoreInv
<1> QED
  BY <1>1, StoreInvariance, PTL

(* Evidence that a report references is durable, and raw data leaves the     *)
(* report only for references to it (persistCommandEvidence).                *)
THEOREM EvidenceNeverLost == Spec => []EvidenceKept
<1>1. StoreInv => EvidenceKept
  BY DEF StoreInv
<1> QED
  BY <1>1, StoreInvariance, PTL

(* A cycle that returned nil has its report, its evidence and its envelope   *)
(* on the disk (finalizeCycle's errors.Join).                                *)
THEOREM NilIsDurable == Spec => []NilMeansDurable
<1>1. StoreInv => NilMeansDurable
  BY DEF StoreInv
<1> QED
  BY <1>1, StoreInvariance, PTL

(* No step replaces, truncates or removes a durable file, whichever cycle    *)
(* IDs are drawn (writeNewPrivateRootFile's O_EXCL).                         *)
THEOREM DurableImmutable == Spec => Immutable
<1> DEFINE Keeps == \A r \in Runs : \A f \in Files : Durable(r, f) => file'[f] = file[f]
<1>1. StoreInv /\ [Next]_vars => [Keeps]_file
  BY DurableStep DEF vars
<1> QED
  BY <1>1, StoreInvariance, PTL DEF Spec, Immutable

-----------------------------------------------------------------------------
(* The archive                                                               *)

(* No step puts contents under the cycle ID of another run.                  *)
LEMMA OwnerStep == ASSUME StoreInv, FileOwner, Next PROVE FileOwner'
<1>1. ASSUME NEW r \in Runs, verdict[r] # "unused" PROVE verdict'[r] # "unused" /\ cycle'[r] = cycle[r]
  <2>1. cycle'[r] = cycle[r]
    <3>1. ASSUME NEW p \in Procs, SyncDir(p), step[p] = "evidence" PROVE cycle' = cycle
      <4>1. Written(p)
        BY <3>1 DEF SyncDir
      <4> QED
        BY <3>1, <4>1 DEF Written
    <3>2. CASE ~ \E p \in Procs : SyncDir(p) /\ step[p] = "evidence"
      BY <1>1, <3>2, ReportFrame
    <3> QED
      BY <3>1, <3>2
  <2>2. ASSUME NEW p \in Procs, NEW s \in Runs, Begin(p, s) PROVE verdict'[r] # "unused"
    BY <1>1, <2>2 DEF Begin, StoreInv, TypeOK
  <2>3. ASSUME NEW p \in Procs, Emit(p) \/ Kill(p) PROVE verdict'[r] # "unused"
    <3>1. PICK v \in {"nil", "error", "killed"} : verdict' = [verdict EXCEPT ![run[p]] = v]
      BY <2>3 DEF Emit, Kill, End
    <3> QED
      BY <1>1, <3>1 DEF StoreInv, TypeOK
  <2>4. ASSUME PowerLoss PROVE verdict'[r] # "unused"
    BY <1>1, <2>4 DEF PowerLoss
  <2>5. ASSUME NEW p \in Procs, WriteNew(p) \/ Replace(p) \/ Sign(p) \/ SignFails(p) PROVE verdict' = verdict
    BY <2>5
    DEF WriteNew, Replace, Create, Write, Sync, SyncDir, Exists, CreateFails, WriteFails,
        Prepare, Rename, SyncCopy, CopyFails, Sign, SignFails
  <2>6. verdict'[r] # "unused"
    BY <1>1, <2>2, <2>3, <2>4, <2>5 DEF Next, Finalize
  <2> QED
    BY <2>1, <2>6
<1>2. ASSUME NEW f \in Files, NEW x \in {file'[f].vis} \cup file'[f].disk, x # Absent
      PROVE  cycle'[x[1]] = f[1]
  <2>1. CASE x \in {file[f].vis} \cup file[f].disk
    <3>1. cycle[x[1]] = f[1] /\ f[1] \in Cycles /\ x[1] \in Runs
      BY <1>2, <2>1 DEF FileOwner, Files, StoreInv, TypeOK, Contents
    <3>2. verdict[x[1]] # "unused"
      BY <3>1, StoreAssumption DEF FileOwner
    <3> QED
      BY <1>1, <3>1, <3>2
  <2>2. CASE \E p \in Procs : step[p] \in NewFile /\ Target(p) = f /\ x[1] = run[p]
    <3>1. PICK p \in Procs : step[p] \in NewFile /\ Target(p) = f /\ x[1] = run[p]
      BY <2>2
    <3>2. run[p] \in Runs /\ cycle[run[p]] = f[1] /\ verdict[run[p]] = "running"
      BY <3>1, TargetFile DEF StoreInv, RunOrder, NewFile
    <3> QED
      BY <1>1, <3>1, <3>2
  <2> QED
    BY <1>2, <2>1, <2>2, NewContents
<1>3. ASSUME NEW r \in Runs, verdict'[r] = "unused" PROVE cycle'[r] = None
  <2>1. verdict[r] = "unused" /\ cycle[r] = None
    BY <1>1, <1>3 DEF FileOwner
  <2>2. ASSUME NEW p \in Procs, NEW s \in Runs, Begin(p, s) PROVE cycle'[r] = cycle[r]
    BY <1>3, <2>2 DEF Begin, StoreInv, TypeOK
  <2>3. ASSUME NEW p \in Procs, SyncDir(p) PROVE cycle' = cycle
    <3>1. Written(p)
      BY <2>3 DEF SyncDir
    <3> QED
      BY <3>1 DEF Written, report
  <2>4. ASSUME ~ \E p \in Procs : SyncDir(p), ~ \E p \in Procs, s \in Runs : Begin(p, s)
        PROVE  cycle' = cycle
    BY <2>4
    DEF Next, Finalize, WriteNew, Replace, Create, Write, Sync, Exists, CreateFails, WriteFails,
        Prepare, Rename, SyncCopy, CopyFails, Sign, SignFails, Emit, Kill, End, PowerLoss, report
  <2> QED
    BY <2>1, <2>2, <2>3, <2>4
<1> QED
  BY <1>2, <1>3 DEF FileOwner

(* Whatever a file holds, or a power loss may bring back in it, is of a run  *)
(* that drew the cycle ID in its name (finalizeCycle's paths).               *)
THEOREM OwnerInvariance == Spec => []FileOwner
<1>1. Init => FileOwner
  BY DEF Init, FileOwner
<1>2. StoreInv /\ FileOwner /\ [Next]_vars => FileOwner'
  <2>1. ASSUME UNCHANGED vars, FileOwner PROVE FileOwner'
    BY <2>1 DEF vars, report, FileOwner
  <2> QED
    BY <2>1, OwnerStep
<1> QED
  BY <1>1, <1>2, StoreInvariance, PTL DEF Spec

(* The records are the durable files.                                        *)
LEMMA RecordedDurable ==
  ASSUME TypeOK, NEW f \in Files
  PROVE  /\ Recorded[f] \in Runs \cup {None}
         /\ \A r \in Runs : Recorded[f] = r <=> Durable(r, f)
<1>1. file[f] \in [vis : Contents, disk : SUBSET Contents] /\ None \notin Runs
  BY StoreAssumption DEF TypeOK
<1>2. file[f] = [vis |-> file[f].vis, disk |-> file[f].disk]
  BY <1>1
<1>3. Recorded[f] = IF file[f].disk = {file[f].vis} /\ file[f].vis[2] = "complete" THEN file[f].vis[1] ELSE None
  BY DEF Recorded
<1>4. file[f].vis = Absent \/ \E r \in Runs, w \in {"partial", "complete"} : file[f].vis = <<r, w>>
  BY <1>1 DEF Contents
<1>5. CASE file[f].vis = Absent
  BY <1>1, <1>3, <1>5 DEF Absent, Durable
<1>6. ASSUME NEW r \in Runs, NEW w \in {"partial", "complete"}, file[f].vis = <<r, w>>
      PROVE  /\ Recorded[f] \in Runs \cup {None}
             /\ \A q \in Runs : Recorded[f] = q <=> Durable(q, f)
  <2>1. Recorded[f] = IF file[f].disk = {<<r, w>>} /\ w = "complete" THEN r ELSE None
    BY <1>3, <1>6
  <2>2. ASSUME NEW q \in Runs PROVE Recorded[f] = q <=> Durable(q, f)
    BY <1>1, <1>2, <1>6, <2>1 DEF Durable
  <2> QED
    BY <2>1, <2>2
<1> QED
  BY <1>4, <1>5, <1>6

(* What may still be lost is no record.                                      *)
LEMMA UnsyncedUnrecorded ==
  ASSUME TypeOK, NEW f \in Files, Absent \in file[f].disk
  PROVE  Recorded[f] = None
<1>1. Recorded[f] = IF file[f].disk = {file[f].vis} /\ file[f].vis[2] = "complete" THEN file[f].vis[1] ELSE None
  BY DEF Recorded
<1>2. file[f].disk = {file[f].vis} => file[f].vis[2] = "absent"
  BY DEF Absent
<1> QED
  BY <1>1, <1>2

(* A step that makes no file durable and loses none, as far as the archive   *)
(* goes: what it touches could be lost before it and can be lost after it.   *)
LEMMA RecordedFrame ==
  ASSUME TypeOK, TypeOK',
         \A f \in Files : file'[f] = file[f] \/ (Absent \in file[f].disk /\ Absent \in file'[f].disk)
  PROVE  Recorded' = Recorded
<1>1. ASSUME NEW f \in Files PROVE Recorded'[f] = Recorded[f]
  <2>1. CASE file'[f] = file[f]
    BY <2>1 DEF Recorded
  <2>2. CASE Absent \in file[f].disk /\ Absent \in file'[f].disk
    <3>1. Recorded[f] = None
      BY <2>2, UnsyncedUnrecorded
    <3>2. (file'[f].disk = {file'[f].vis}) => file'[f].vis[2] = "absent"
      BY <2>2 DEF Absent
    <3>3. Recorded'[f] = IF file'[f].disk = {file'[f].vis} /\ file'[f].vis[2] = "complete"
                         THEN file'[f].vis[1] ELSE None
      BY DEF Recorded
    <3> QED
      BY <3>1, <3>2, <3>3
  <2> QED
    BY <1>1, <2>1, <2>2
<1>2. Recorded = [f \in Files |-> Recorded[f]] /\ Recorded' = [f \in Files |-> Recorded'[f]]
  BY DEF Recorded
<1> QED
  BY <1>1, <1>2

(* Until its directory is synced a new file may be lost, and no sink that    *)
(* fails makes one durable.                                                  *)
LEMMA UnrecordedStep ==
  ASSUME StoreInv, Next, NEW p \in Procs,
         Create(p) \/ Write(p) \/ Sync(p) \/ Exists(p) \/ CreateFails(p) \/ WriteFails(p)
  PROVE  UNCHANGED <<Recorded, verdict, cycle>>
<1>1. TypeOK /\ TypeOK'
  BY TypeStep DEF StoreInv
<1>2. UNCHANGED <<verdict, cycle>>
  BY DEF Create, Write, Sync, Exists, CreateFails, WriteFails, report
<1>3. step[p] \in NewFile /\ Target(p) \in Files
  BY <1>1, TargetFile DEF Create, Write, Sync, Exists, CreateFails, WriteFails, StoreInv
<1>4. file[Target(p)] \in [vis : Contents, disk : SUBSET Contents]
  BY <1>1, <1>3 DEF TypeOK
<1>5. CASE Create(p)
  <2>1. Absent \in file[Target(p)].disk
    BY <1>3, <1>5 DEF Create, StoreInv, FileOrder
  <2>2. \A f \in Files : file'[f] = file[f] \/ (f = Target(p) /\ Absent \in file'[f].disk)
    BY <1>1, <1>3, <1>5, <2>1 DEF Create, Changed, TypeOK
  <2> QED
    BY <1>1, <1>2, <2>1, <2>2, RecordedFrame
<1>6. CASE Write(p)
  <2>1. Absent \in file[Target(p)].disk
    BY <1>3, <1>6 DEF Write, StoreInv, FileOrder
  <2>2. \A f \in Files : file'[f] = file[f] \/ (f = Target(p) /\ Absent \in file'[f].disk)
    BY <1>1, <1>3, <1>6, <2>1 DEF Write, Changed, TypeOK
  <2> QED
    BY <1>1, <1>2, <2>1, <2>2, RecordedFrame
<1>7. CASE Sync(p)
  <2>1. Absent \in file[Target(p)].disk /\ Absent # <<run[p], "partial">>
    BY <1>3, <1>7 DEF Sync, StoreInv, FileOrder, Absent
  <2>2. \A f \in Files : file'[f] = file[f] \/ (f = Target(p) /\ Absent \in file'[f].disk)
    BY <1>1, <1>3, <1>7, <2>1 DEF Sync, TypeOK
  <2> QED
    BY <1>1, <1>2, <2>1, <2>2, RecordedFrame
<1>8. CASE WriteFails(p)
  <2>1. Absent \in file[Target(p)].disk
    BY <1>3, <1>8 DEF WriteFails, StoreInv, FileOrder
  <2>2. \A f \in Files : file'[f] = file[f] \/ (f = Target(p) /\ Absent \in file'[f].disk)
    BY <1>1, <1>3, <1>8, <2>1 DEF WriteFails, TypeOK
  <2> QED
    BY <1>1, <1>2, <2>1, <2>2, RecordedFrame
<1>9. CASE Exists(p) \/ CreateFails(p)
  BY <1>1, <1>2, <1>9, RecordedFrame DEF Exists, CreateFails
<1> QED
  BY <1>5, <1>6, <1>7, <1>8, <1>9

(* The sync of the directory adds the file to the archive: a record that was *)
(* not there, and an envelope beside the report of its own run.              *)
LEMMA RecordStep ==
  ASSUME StoreInv, Next, NEW p \in Procs, SyncDir(p)
  PROVE  Archive!Add(run[p], Target(p)) /\ Target(p) \in Files /\ run[p] \in Runs
<1>1. /\ TypeOK /\ TypeOK' /\ step[p] \in NewFile /\ step[p] # "idle"
      /\ sub[p] = "syncdir" /\ Written(p) /\ verdict' = verdict
  BY TypeStep DEF SyncDir, StoreInv, NewFile
<1>2. /\ Target(p) \in Files /\ run[p] \in Runs /\ cycle[run[p]] \in Cycles
      /\ Target(p)[1] = cycle[run[p]]
  BY <1>1, TargetFile DEF StoreInv
<1>3. verdict[run[p]] = "running" /\ cycle' = cycle
  BY <1>1 DEF StoreInv, RunOrder, Written, report
<1>4. Recorded[Target(p)] = None
  BY <1>1, <1>2, UnsyncedUnrecorded DEF StoreInv, FileOrder
<1>5. Target(p)[2] = "attestation" => Recorded[<<Target(p)[1], "report">>] = run[p]
  <2>1. SUFFICES ASSUME Target(p)[2] = "attestation" PROVE Recorded[<<cycle[run[p]], "report">>] = run[p]
    BY <1>2
  <2>2. step[p] = "attestation"
    <3>1. "attestation" \notin Artifacts
      BY StoreAssumption
    <3> QED
      BY <1>1, <2>1, <3>1, TargetFile DEF StoreInv
  <2>3. Durable(run[p], <<cycle[run[p]], "report">>) /\ <<cycle[run[p]], "report">> \in Files
    BY <1>2, <2>2 DEF StoreInv, ArchiveOrder, Files
  <2> QED
    BY <1>1, <1>2, <2>3, RecordedDurable
<1>6. Recorded' = [Recorded EXCEPT ![Target(p)] = run[p]] /\ Recorded'[Target(p)] = run[p]
  <2>1. file'[Target(p)] = [vis |-> <<run[p], "complete">>, disk |-> {<<run[p], "complete">>}]
    BY SyncedDurable
  <2>2. Recorded'[Target(p)] = run[p]
    BY <1>2, <2>1 DEF Recorded
  <2>3. \A f \in Files : f # Target(p) => file'[f] = file[f]
    BY <1>1 DEF SyncDir, TypeOK
  <2>4. \A f \in Files : f # Target(p) => Recorded'[f] = Recorded[f]
    BY <2>3 DEF Recorded
  <2>5. Recorded = [f \in Files |-> Recorded[f]] /\ Recorded' = [f \in Files |-> Recorded'[f]]
    BY DEF Recorded
  <2> QED
    BY <1>2, <2>2, <2>4, <2>5
<1> QED
  BY <1>2, <1>3, <1>4, <1>5, <1>6, <1>1 DEF Archive!Add, Archive!Enters

(* A run that ends without an error leaves all its records.                  *)
LEMMA ReturnStep ==
  ASSUME StoreInv, Next, NEW p \in Procs, Emit(p) \/ Kill(p)
  PROVE  \E v \in {"nil", "error", "killed"} : Archive!Return(run[p], v) /\ run[p] \in Runs
<1>1. TypeOK /\ run[p] \in Runs /\ verdict[run[p]] = "running"
  BY DEF Emit, Kill, StoreInv, RunOrder
<1>2. PICK v \in {"nil", "error", "killed"} : End(p, v)
  BY DEF Emit, Kill
<1>3. verdict' = [verdict EXCEPT ![run[p]] = v] /\ UNCHANGED <<cycle, file, refs>>
  BY <1>2 DEF End, report
<1>4. Recorded' = Recorded
  BY <1>3 DEF Recorded
<1>5. ASSUME v = "nil",
             NEW n \in Artifacts \cup {"report"} \cup IF Signing THEN {"attestation"} ELSE {}
      PROVE  Recorded[<<cycle[run[p]], n>>] = run[p]
  <2>1. verdict'[run[p]] = "nil"
    BY <1>1, <1>3, <1>5 DEF TypeOK
  <2>2. NilMeansDurable' /\ EvidenceKept'
    BY NilDurableStep, EvidenceKeptStep
  <2>3. /\ Durable(run[p], <<cycle[run[p]], "report">>)
        /\ refs[run[p]] = Artifacts
        /\ Signing => Durable(run[p], <<cycle[run[p]], "attestation">>)
    BY <1>1, <1>3, <2>1, <2>2 DEF NilMeansDurable, Durable
  <2>4. \A a \in Artifacts : Durable(run[p], <<cycle[run[p]], a>>)
    BY <1>1, <1>3, <2>2, <2>3 DEF EvidenceKept, Durable
  <2>5. cycle[run[p]] \in Cycles
    BY <1>1 DEF StoreInv, RunOrder
  <2>6. <<cycle[run[p]], n>> \in Files /\ Durable(run[p], <<cycle[run[p]], n>>)
    BY <1>5, <2>3, <2>4, <2>5 DEF Files
  <2> QED
    BY <1>1, <2>6, RecordedDurable
<1> QED
  BY <1>1, <1>3, <1>4, <1>5 DEF Archive!Return

(* A power loss takes no record away, and what it settles is admitted.       *)
LEMMA LossStep ==
  ASSUME StoreInv, FileOwner, Next, PowerLoss
  PROVE  Archive!PowerLoss
<1>1. TypeOK /\ TypeOK' /\ None \notin Runs
  BY TypeStep, StoreAssumption DEF StoreInv
<1>2. /\ verdict' = [r \in Runs |-> IF verdict[r] = "running" THEN "killed" ELSE verdict[r]]
      /\ cycle' = cycle
  BY DEF PowerLoss, report
<1>3. Recorded' \in [Files -> Runs \cup {None}]
  <2>1. ASSUME NEW f \in Files PROVE Recorded'[f] \in Runs \cup {None}
    <3>1. file'[f].vis[2] = "complete" => file'[f].vis[1] \in Runs
      BY <1>1 DEF TypeOK, Contents, Absent
    <3> QED
      BY <3>1 DEF Recorded
  <2>2. Recorded' = [f \in Files |-> Recorded'[f]]
    BY DEF Recorded
  <2> QED
    BY <2>1, <2>2
<1>4. ASSUME NEW f \in Files
      PROVE  \/ Recorded'[f] = Recorded[f]
             \/ \E r \in Runs : Archive!Enters(r, f)
  <2>1. CASE file'[f] = file[f]
    BY <2>1 DEF Recorded
  <2>2. ASSUME file[f].disk # {file[f].vis},
               NEW x \in file[f].disk, file'[f] = [vis |-> x, disk |-> {x}]
        PROVE  \/ Recorded'[f] = Recorded[f]
               \/ \E r \in Runs : Archive!Enters(r, f)
    <3>1. Recorded[f] = None
      BY <2>2 DEF Recorded
    <3>2. Recorded'[f] = IF x[2] = "complete" THEN x[1] ELSE None
      BY <2>2 DEF Recorded
    <3>3. ASSUME x[2] = "complete" PROVE x[1] \in Runs /\ Archive!Enters(x[1], f)
      <4>1. x \in Contents /\ x # Absent
        BY <1>1, <3>3 DEF TypeOK, Absent
      <4>2. x[1] \in Runs /\ cycle[x[1]] = f[1]
        BY <2>2, <4>1 DEF Contents, FileOwner
      <4>3. ASSUME f[2] = "attestation" PROVE Recorded[<<f[1], "report">>] = x[1]
        <5>1. f = <<f[1], "attestation">> /\ f[1] \in Cycles /\ <<f[1], "report">> \in Files
          BY <4>3 DEF Files
        <5>2. Durable(x[1], <<f[1], "report">>)
          BY <2>2, <4>1, <5>1 DEF StoreInv, AttestedReport
        <5> QED
          BY <1>1, <4>2, <5>1, <5>2, RecordedDurable
      <4> QED
        BY <3>1, <3>2, <3>3, <4>2, <4>3 DEF Archive!Enters
    <3> QED
      BY <3>1, <3>2, <3>3
  <2>3. \/ file'[f] = file[f]
        \/ file[f].disk # {file[f].vis} /\ \E x \in file[f].disk : file'[f] = [vis |-> x, disk |-> {x}]
    BY <1>1 DEF PowerLoss, Settled, Unsettled, TypeOK
  <2> QED
    BY <2>1, <2>2, <2>3
<1> QED
  BY <1>2, <1>3, <1>4 DEF Archive!PowerLoss, Archive!Records, Files

(* The evidence directory implements the archive: no run, no failure and no  *)
(* power loss removes or replaces a record, an envelope follows its report,  *)
(* and nil is returned over a complete set of records (persistCommandEvidence*)
(* and finalizeCycle).                                                       *)
THEOREM ArchiveImplemented == Spec => ImplementsArchive
<1>1. Init => Archive!Init
  <2> SUFFICES ASSUME Init PROVE Archive!Init
    OBVIOUS
  <2>1. Recorded = [f \in Files |-> None]
    BY DEF Init, Recorded, Absent
  <2> QED
    BY <2>1 DEF Init, Archive!Init, Archive!Records, Files
<1>2. ASSUME StoreInv, FileOwner, [Next]_vars
      PROVE  [Archive!Next]_<<Recorded, verdict, cycle>>
  <2>1. CASE UNCHANGED vars
    BY <2>1 DEF vars, report, Recorded
  <2>2. ASSUME Next, NEW p \in Procs, NEW r \in Runs, Begin(p, r) PROVE Archive!Next
    <3>1. PICK c \in Cycles : cycle' = [cycle EXCEPT ![r] = c]
      BY <2>2 DEF Begin
    <3>2. Recorded' = Recorded
      BY <2>2 DEF Begin, Recorded
    <3>3. Archive!Begin(r, c)
      BY <2>2, <3>1, <3>2 DEF Begin, Archive!Begin
    <3> QED
      BY <3>3 DEF Archive!Next
  <2>3. ASSUME Next, NEW p \in Procs, SyncDir(p) PROVE Archive!Next
    <3>1. Archive!Add(run[p], Target(p)) /\ Target(p) \in Files /\ run[p] \in Runs
      BY <1>2, <2>3, RecordStep
    <3> QED
      BY <3>1 DEF Archive!Next, Archive!Records, Files
  <2>4. ASSUME Next, NEW p \in Procs, Emit(p) \/ Kill(p) PROVE Archive!Next
    BY <1>2, <2>4, ReturnStep DEF Archive!Next
  <2>5. ASSUME Next, PowerLoss PROVE Archive!Next
    BY <1>2, <2>5, LossStep DEF Archive!Next
  <2>6. ASSUME Next, NEW p \in Procs,
               Create(p) \/ Write(p) \/ Sync(p) \/ Exists(p) \/ CreateFails(p) \/ WriteFails(p)
        PROVE  UNCHANGED <<Recorded, verdict, cycle>>
    BY <1>2, <2>6, UnrecordedStep
  <2>7. ASSUME NEW p \in Procs, Replace(p) \/ Sign(p) \/ SignFails(p)
        PROVE  UNCHANGED <<Recorded, verdict, cycle>>
    <3>1. UNCHANGED <<file, verdict, cycle>>
      BY <2>7 DEF Replace, Prepare, Rename, SyncCopy, CopyFails, Sign, SignFails, report
    <3> QED
      BY <3>1 DEF Recorded
  <2> QED
    BY <1>2, <2>1, <2>2, <2>3, <2>4, <2>5, <2>6, <2>7 DEF Next, Finalize, WriteNew
<1> QED
  BY <1>1, <1>2, StoreInvariance, OwnerInvariance, PTL DEF Spec, ImplementsArchive, Archive!Spec

-----------------------------------------------------------------------------
(* The copies                                                                *)

(* While the run that began alone is alone, its process is the only one at   *)
(* work, and when the run is over none is.                                   *)
LEMMA Solitary ==
  ASSUME StoreInv, PairInv, alone # None
  PROVE  /\ \A p, q \in Procs : step[p] # "idle" /\ step[q] # "idle" => p = q
         /\ \A p \in Procs : step[p] # "idle" => run[p] = alone /\ verdict[alone] = "running"
BY DEF StoreInv, RunOrder, PairInv, PairOrder

(* A step of a process that leaves the copies it has got through alone.      *)
LEMMA PairFrame ==
  ASSUME StoreInv, PairInv, NEW p \in Procs, step[p] # "idle", Finalize(p) \/ Kill(p),
         UNCHANGED <<run, alone>>,
         alone # None =>
           /\ verdict'[alone] # "nil"
           /\ step'[p] # "idle" =>
                /\ step'[p] \in Copies /\ sub'[p] = "syncdir" => copy'[step'[p]].vis = alone
                /\ ~failed'[p] => \A k \in CopiesBefore(step'[p]) :
                                    copy'[k] = [vis |-> alone, disk |-> {alone}]
  PROVE  PairInv'
<1>1. LastPair'
  BY DEF LastPair
<1>2. SUFFICES ASSUME alone # None, NEW q \in Procs, step'[q] # "idle"
               PROVE  /\ run[q] = alone
                      /\ step'[q] \in Copies /\ sub'[q] = "syncdir" => copy'[step'[q]].vis = alone
                      /\ ~failed'[q] => \A k \in CopiesBefore(step'[q]) :
                                          copy'[k] = [vis |-> alone, disk |-> {alone}]
  BY <1>1 DEF PairInv, PairOrder, Own, CopiesBefore
<1>3. q = p
  <2>1. q # p => step'[q] = step[q]
    BY OthersStep
  <2> QED
    BY <1>2, <2>1, Solitary
<1> QED
  BY <1>2, <1>3, Solitary

(* A sink that failed leaves nothing to be said of the copies.               *)
LEMMA FailedPair ==
  ASSUME StoreInv, PairInv, NEW p \in Procs, step[p] # "idle", Finalize(p), Failed(p),
         UNCHANGED <<run, alone, verdict>>
  PROVE  PairInv'
<1>1. failed'[p] /\ sub'[p] # "syncdir"
  BY FailedStep DEF StoreInv
<1>2. alone # None => verdict'[alone] # "nil"
  BY Solitary
<1> QED
  BY <1>1, <1>2, PairFrame

(* Every step keeps the copies of the run that is alone.                     *)
LEMMA PairStep == ASSUME StoreInv, PairInv, Next PROVE PairInv'
<1>0. TypeOK /\ RunOrder
  BY DEF StoreInv
<1>1. ASSUME NEW p \in Procs, NEW r \in Runs, Begin(p, r) PROVE PairInv'
  <2>1. /\ step[p] = "idle" /\ step'[p] = "evidence" /\ run'[p] = r /\ verdict'[r] = "running"
        /\ \A q \in Procs : q # p => step'[q] = step[q]
        /\ alone' = IF \A q \in Procs : step[q] = "idle" THEN r ELSE None
    BY <1>0, <1>1 DEF Begin, TypeOK
  <2>2. CASE \A q \in Procs : step[q] = "idle"
    <3>1. alone' = r /\ \A q \in Procs : step'[q] # "idle" => q = p
      BY <2>1, <2>2
    <3>2. "evidence" \notin Copies /\ CopiesBefore("evidence") = {}
      BY DEF Copies, CopiesBefore
    <3>3. PairOrder'
      <4>1. SUFFICES ASSUME NEW q \in Procs, step'[q] # "idle"
                     PROVE  /\ run'[q] = alone'
                            /\ step'[q] \notin Copies /\ CopiesBefore(step'[q]) = {}
        BY DEF PairOrder, CopiesBefore
      <4> QED
        BY <2>1, <3>1, <3>2, <4>1
    <3>4. LastPair'
      BY <2>1, <3>1 DEF LastPair
    <3> QED
      BY <3>3, <3>4 DEF PairInv
  <2>3. CASE ~ \A q \in Procs : step[q] = "idle"
    BY <2>1, <2>3 DEF PairInv, PairOrder, LastPair
  <2> QED
    BY <2>2, <2>3
<1>2. ASSUME NEW p \in Procs, Exists(p) \/ CreateFails(p) \/ WriteFails(p) \/ CopyFails(p) PROVE PairInv'
  <2>1. step[p] # "idle" /\ Failed(p) /\ UNCHANGED <<run, alone, verdict>>
    BY <1>2 DEF Exists, CreateFails, WriteFails, CopyFails, NewFile, Copies, report
  <2>2. Finalize(p)
    BY <1>2 DEF Finalize, WriteNew, Replace
  <2> QED
    BY <2>1, <2>2, FailedPair
<1>3. ASSUME NEW p \in Procs, Create(p) \/ Write(p) \/ Sync(p) PROVE PairInv'
  <2>1. step[p] \in NewFile /\ UNCHANGED <<run, alone, verdict, step, failed, copy>>
    BY <1>3 DEF Create, Write, Sync, report
  <2>2. Finalize(p)
    BY <1>3 DEF Finalize, WriteNew
  <2>3. step[p] # "idle" /\ step'[p] \notin Copies
    BY <2>1 DEF NewFile, Copies
  <2>4. alone # None /\ ~failed[p] => \A k \in CopiesBefore(step[p]) : copy[k] = [vis |-> alone, disk |-> {alone}]
    BY <2>3 DEF PairInv, PairOrder, Own
  <2>5. alone # None => verdict'[alone] # "nil"
    BY <2>1, <2>3, Solitary
  <2> QED
    BY <2>1, <2>2, <2>3, <2>4, <2>5, PairFrame
<1>4. ASSUME NEW p \in Procs, SyncDir(p) PROVE PairInv'
  <2>1. step[p] \in NewFile /\ step[p] # "idle" /\ Written(p) /\ UNCHANGED <<run, verdict, failed, copy>>
    BY <1>4 DEF SyncDir, NewFile
  <2>2. Finalize(p)
    BY <1>4 DEF Finalize, WriteNew
  <2>3. alone # None => verdict'[alone] # "nil"
    BY <2>1, Solitary
  <2>4. CASE step[p] = "evidence"
    <3>1. step'[p] \in {"evidence", "report"} /\ alone' = alone
      BY <1>0, <2>1, <2>4, EvidenceWritten
    <3>2. step'[p] \notin Copies /\ CopiesBefore(step'[p]) = {}
      BY <3>1 DEF Copies, CopiesBefore
    <3> QED
      BY <2>1, <2>2, <2>3, <3>1, <3>2, PairFrame
  <2>5. CASE step[p] \in {"report", "attestation"}
    <3>1. /\ step'[p] = IF step[p] = "report" THEN "last-cycle" ELSE "last-attestation"
          /\ sub'[p] # "syncdir" /\ alone' = alone
      BY <1>0, <2>1, <2>5, SinkWritten
    <3>2. CopiesBefore(step'[p]) \subseteq CopiesBefore(step[p])
      BY <2>5, <3>1 DEF CopiesBefore
    <3>3. alone # None /\ ~failed[p] => \A k \in CopiesBefore(step[p]) : copy[k] = [vis |-> alone, disk |-> {alone}]
      BY <2>1 DEF PairInv, PairOrder, Own
    <3> QED
      BY <2>1, <2>2, <2>3, <3>1, <3>2, <3>3, PairFrame
  <2> QED
    BY <2>1, <2>4, <2>5 DEF NewFile
<1>5. ASSUME NEW p \in Procs, Prepare(p) PROVE PairInv'
  <2>1. /\ step[p] # "idle" /\ UNCHANGED <<run, alone, verdict, step, failed, copy>>
        /\ sub'[p] = "rename"
    BY <1>0, <1>5 DEF Prepare, report, Copies, TypeOK
  <2>2. Finalize(p)
    BY <1>5 DEF Finalize, Replace
  <2>3. alone # None => verdict'[alone] # "nil"
    BY <2>1, Solitary
  <2>4. alone # None /\ ~failed[p] => \A k \in CopiesBefore(step[p]) : copy[k] = [vis |-> alone, disk |-> {alone}]
    BY <2>1 DEF PairInv, PairOrder, Own
  <2> QED
    BY <2>1, <2>2, <2>3, <2>4, PairFrame
<1>6. ASSUME NEW p \in Procs, Rename(p) PROVE PairInv'
  <2>1. /\ step[p] \in Copies /\ step[p] # "idle" /\ UNCHANGED <<run, alone, verdict, step, failed>>
        /\ copy'[step[p]].vis = run[p]
        /\ \A k \in Copies : k # step[p] => copy'[k] = copy[k]
    BY <1>0, <1>6 DEF Rename, report, Copies, TypeOK
  <2>2. Finalize(p)
    BY <1>6 DEF Finalize, Replace
  <2>3. alone # None => verdict'[alone] # "nil" /\ run[p] = alone
    BY <2>1, Solitary
  <2>4. \A k \in CopiesBefore(step[p]) : k \in Copies /\ k # step[p]
    BY <2>1 DEF CopiesBefore, Copies
  <2>5. alone # None /\ ~failed[p] => \A k \in CopiesBefore(step[p]) : copy[k] = [vis |-> alone, disk |-> {alone}]
    BY <2>1 DEF PairInv, PairOrder, Own
  <2> QED
    BY <2>1, <2>2, <2>3, <2>4, <2>5, PairFrame
<1>7. ASSUME NEW p \in Procs, SyncCopy(p) PROVE PairInv'
  <2>1. /\ step[p] \in Copies /\ step[p] # "idle" /\ sub[p] = "syncdir"
        /\ UNCHANGED <<run, alone, verdict, failed>>
        /\ copy'[step[p]] = [vis |-> copy[step[p]].vis, disk |-> {copy[step[p]].vis}]
        /\ \A k \in Copies : k # step[p] => copy'[k] = copy[k]
    BY <1>0, <1>7 DEF SyncCopy, report, Copies, TypeOK
  <2>2. /\ step[p] \in Steps /\ After(step[p]) \in Steps /\ Goto(p, After(step[p]))
    BY <1>0, <1>7, AfterStep DEF SyncCopy, TypeOK, Steps
  <2>3. step'[p] = After(step[p]) /\ sub'[p] # "syncdir"
    BY <1>0, <2>2, GotoStep
  <2>4. Finalize(p)
    BY <1>7 DEF Finalize, Replace
  <2>5. alone # None => verdict'[alone] # "nil" /\ copy[step[p]].vis = alone
    BY <2>1, Solitary DEF PairInv, PairOrder
  <2>6. \A k \in CopiesBefore(After(step[p])) : k \in Copies /\ (k = step[p] \/ k \in CopiesBefore(step[p]))
    BY <2>1, <2>2, AfterStep DEF CopiesBefore, Copies
  <2>7. alone # None /\ ~failed[p] => \A k \in CopiesBefore(step[p]) : copy[k] = [vis |-> alone, disk |-> {alone}]
    BY <2>1 DEF PairInv, PairOrder, Own
  <2> QED
    BY <2>1, <2>3, <2>4, <2>5, <2>6, <2>7, PairFrame
<1>8. ASSUME NEW p \in Procs, Sign(p) PROVE PairInv'
  <2> DEFINE s == IF archived[p] THEN "attestation" ELSE "last-attestation"
  <2>1. /\ step[p] = "sign" /\ UNCHANGED <<run, alone, verdict, failed, copy>>
        /\ s \in Steps /\ Goto(p, s) /\ CopiesBefore(s) = CopiesBefore("sign")
    BY <1>8 DEF Sign, report, Steps, CopiesBefore
  <2> HIDE DEF s
  <2>2. step'[p] = s /\ sub'[p] # "syncdir"
    BY <1>0, <2>1, GotoStep
  <2>3. Finalize(p)
    BY <1>8 DEF Finalize
  <2>4. alone # None => verdict'[alone] # "nil"
    BY <2>1, Solitary
  <2>5. alone # None /\ ~failed[p] => \A k \in CopiesBefore("sign") : copy[k] = [vis |-> alone, disk |-> {alone}]
    BY <2>1 DEF PairInv, PairOrder, Own
  <2> QED
    BY <2>1, <2>2, <2>3, <2>4, <2>5, PairFrame
<1>9. ASSUME NEW p \in Procs, SignFails(p) PROVE PairInv'
  <2>1. /\ step[p] = "sign" /\ UNCHANGED <<run, alone, verdict>> /\ failed'[p]
        /\ "stdout" \in Steps /\ Goto(p, "stdout")
    BY <1>0, <1>9 DEF SignFails, report, Steps, TypeOK
  <2>2. sub'[p] # "syncdir"
    BY <1>0, <2>1, GotoStep
  <2>3. Finalize(p)
    BY <1>9 DEF Finalize
  <2>4. alone # None => verdict'[alone] # "nil"
    BY <2>1, Solitary
  <2> QED
    BY <2>1, <2>2, <2>3, <2>4, PairFrame
<1>10. ASSUME NEW p \in Procs, Emit(p) \/ Kill(p) PROVE PairInv'
  <2>1. PICK v \in {"nil", "error", "killed"} : End(p, v) /\ (v = "nil" => step[p] = "stdout" /\ ~failed[p])
    BY <1>10 DEF Emit, Kill
  <2>2. step[p] # "idle" /\ run[p] \in Runs
    BY <1>0, <1>10 DEF Emit, Kill, RunOrder
  <2>3. /\ step'[p] = "idle" /\ verdict'[run[p]] = v /\ UNCHANGED <<run, alone, copy>>
        /\ \A q \in Procs : q # p => step'[q] = step[q]
    BY <1>0, <2>1, <2>2, EndStep
  <2>4. alone # None => run[p] = alone /\ \A q \in Procs : step'[q] = "idle"
    BY <2>2, <2>3, Solitary
  <2>5. PairOrder'
    BY <2>3, <2>4 DEF PairOrder
  <2>6. LastPair'
    <3>1. ASSUME alone # None, verdict'[alone] = "nil"
          PROVE  \A k \in CopiesBefore("stdout") : Own(k)
      BY <2>1, <2>2, <2>3, <2>4, <3>1 DEF PairInv, PairOrder
    <3>2. CopiesBefore("stdout") = IF Signing THEN Copies ELSE {"last-cycle"}
      BY DEF CopiesBefore
    <3> QED
      BY <2>3, <3>1, <3>2 DEF LastPair, Own
  <2> QED
    BY <2>5, <2>6 DEF PairInv
<1>11. CASE PowerLoss
  <2>1. /\ \A p \in Procs : step'[p] = "idle"
        /\ alone' = alone /\ verdict' = [r \in Runs |-> IF verdict[r] = "running" THEN "killed" ELSE verdict[r]]
    BY <1>11 DEF PowerLoss, report
  <2>2. \A k \in Copies : copy[k].disk = {copy[k].vis} => copy'[k] = copy[k]
    BY <1>0, <1>11 DEF PowerLoss, Settled, Unsettled, TypeOK
  <2>3. PairOrder'
    BY <2>1 DEF PairOrder
  <2>4. LastPair'
    <3>1. SUFFICES ASSUME alone # None, verdict'[alone] = "nil",
                          NEW k \in IF Signing THEN Copies ELSE {"last-cycle"}
                   PROVE  copy'[k] = [vis |-> alone, disk |-> {alone}]
      BY <2>1 DEF LastPair
    <3>2. verdict[alone] = "nil"
      BY <1>0, <2>1, <3>1 DEF TypeOK
    <3>3. k \in Copies /\ copy[k] = [vis |-> alone, disk |-> {alone}]
      BY <3>1, <3>2 DEF PairInv, LastPair, Copies
    <3> QED
      BY <2>2, <3>3
  <2> QED
    BY <2>3, <2>4 DEF PairInv
<1> QED
  BY <1>1, <1>2, <1>3, <1>4, <1>5, <1>6, <1>7, <1>8, <1>9, <1>10, <1>11
  DEF Next, Finalize, WriteNew, Replace

(* A run that was alone and returned nil leaves the last-cycle report and    *)
(* both copies of its envelope together, and no power loss separates them    *)
(* (updateLatestCycleFile, writeAttestation).                                *)
THEOREM LastCopiesTogether == Spec => []LastPair
<1>1. Init => PairInv
  BY DEF Init, PairInv, PairOrder, LastPair
<1>2. StoreInv /\ PairInv /\ [Next]_vars => PairInv'
  <2>1. ASSUME UNCHANGED vars, PairInv PROVE PairInv'
    BY <2>1 DEF vars, PairInv, PairOrder, LastPair, Own, CopiesBefore
  <2> QED
    BY <2>1, PairStep
<1>3. PairInv => LastPair
  BY DEF PairInv
<1> QED
  BY <1>1, <1>2, <1>3, StoreInvariance, PTL DEF Spec
-----------------------------------------------------------------------------
(* Every cycle is held by a process and goes forward                         *)

Others(p) == \A q \in Procs : q # p => step'[q] = step[q] /\ sub'[q] = sub[q] /\ next'[q] = next[q]

(* Going on to a later sink is going forward.                                *)
LEMMA GotoForward ==
  ASSUME TypeOK, NEW p \in Procs, NEW s \in Steps \ {"idle"}, Goto(p, s), StepNo(step[p]) < StepNo(s)
  PROVE  /\ step'[p] # "idle" /\ InStep(p)' /\ Forward(p)
         /\ \A q \in Procs : q # p => step'[q] = step[q] /\ sub'[q] = sub[q]
<1>1. step'[p] = s /\ sub'[p] = IF s \in Copies THEN "temporary" ELSE "create"
  BY DEF TypeOK, Goto
<1>2. InStep(p)'
  BY <1>1 DEF InStep, NewFile, Copies
<1>3. \A q \in Procs : q # p => step'[q] = step[q] /\ sub'[q] = sub[q]
  BY DEF TypeOK, Goto
<1> QED
  BY <1>1, <1>2, <1>3 DEF Forward

(* A sink that fails is followed by a later one.                             *)
LEMMA FailedForward ==
  ASSUME TypeOK, NEW p \in Procs, step[p] \in NewFile \cup Copies, Failed(p)
  PROVE  step'[p] # "idle" /\ InStep(p)' /\ Forward(p) /\ Others(p)
<1> DEFINE s == IF step[p] = "evidence" THEN "report" ELSE After(step[p])
<1>1. s \in Steps \ {"idle"} /\ StepNo(step[p]) < StepNo(s)
  BY DEF After, StepNo, NewFile, Copies, Steps
<1>2. Goto(p, s) /\ \A q \in Procs : q # p => next'[q] = next[q]
  BY DEF Failed, TypeOK
<1> HIDE DEF s
<1> QED
  BY <1>1, <1>2, GotoForward DEF Others

(* A file that was written is followed by a later one.                       *)
LEMMA WrittenForward ==
  ASSUME TypeOK, RunOrder, NEW p \in Procs, step[p] \in NewFile, Written(p)
  PROVE  step'[p] # "idle" /\ InStep(p)' /\ Forward(p) /\ Others(p)
<1>1. CASE step[p] = "evidence"
  <2>1. /\ sub'[p] = "create" /\ step'[p] \in {"evidence", "report"} /\ Others(p)
        /\ \/ step'[p] = "report"
           \/ step'[p] = "evidence" /\ next'[p].group = next[p].group /\ next'[p].index = next[p].index + 1
           \/ step'[p] = "evidence" /\ next'[p].group = next[p].group + 1
    BY <1>1, EvidenceWritten DEF Others
  <2>2. next[p].group \in Nat /\ next[p].index \in Nat
    BY DEF TypeOK, Groups
  <2>3. StepNo("evidence") < StepNo("report")
    BY DEF StepNo
  <2>4. Forward(p)
    BY <1>1, <2>1, <2>2, <2>3 DEF Forward
  <2> QED
    BY <2>1, <2>4 DEF InStep, NewFile, Copies
<1>2. CASE step[p] # "evidence"
  <2>1. Goto(p, After(step[p])) /\ next' = next
    BY <1>2 DEF Written
  <2>2. After(step[p]) \in Steps \ {"idle"} /\ StepNo(step[p]) < StepNo(After(step[p]))
    BY <1>2 DEF After, StepNo, NewFile, Steps
  <2> QED
    BY <2>1, <2>2, GotoForward DEF Others
<1> QED
  BY <1>1, <1>2

(* Every action of a process in a cycle moves it forward, or ends the cycle. *)
LEMMA ForwardStep ==
  ASSUME StoreInv, NEW p \in Procs, WriteNew(p) \/ Replace(p) \/ Sign(p) \/ SignFails(p)
  PROVE  /\ step[p] # "idle" /\ step'[p] # "idle" /\ InStep(p)' /\ Forward(p) /\ Others(p)
         /\ UNCHANGED <<run, verdict>>
<1>0. UNCHANGED <<run, verdict>>
  BY DEF WriteNew, Replace, Create, Write, Sync, SyncDir, Exists, CreateFails, WriteFails,
         Prepare, Rename, SyncCopy, CopyFails, Sign, SignFails
<1> DEFINE Goes == step[p] # "idle" /\ step'[p] # "idle" /\ InStep(p)' /\ Forward(p) /\ Others(p)
<1>1. ASSUME Create(p) \/ Write(p) \/ Sync(p) PROVE Goes
  <2>1. /\ step[p] \in NewFile /\ step' = step /\ next' = next
        /\ \/ sub[p] = "create" /\ sub' = [sub EXCEPT ![p] = "write"]
           \/ sub[p] = "write" /\ sub' = [sub EXCEPT ![p] = "sync"]
           \/ sub[p] = "sync" /\ sub' = [sub EXCEPT ![p] = "syncdir"]
    BY <1>1 DEF Create, Write, Sync
  <2>2. sub'[p] \in {"write", "sync", "syncdir"} /\ SubNo(sub[p]) < SubNo(sub'[p])
    BY <2>1 DEF SubNo, StoreInv, TypeOK
  <2>3. Others(p)
    BY <2>1 DEF Others, StoreInv, TypeOK
  <2> QED
    BY <2>1, <2>2, <2>3 DEF InStep, Forward, NewFile, Copies
<1>2. ASSUME Prepare(p) \/ Rename(p) PROVE Goes
  <2>1. /\ step[p] \in Copies /\ step' = step /\ next' = next
        /\ \/ sub[p] = "temporary" /\ sub' = [sub EXCEPT ![p] = "rename"]
           \/ sub[p] = "rename" /\ sub' = [sub EXCEPT ![p] = "syncdir"]
    BY <1>2 DEF Prepare, Rename
  <2>2. sub'[p] \in {"rename", "syncdir"} /\ SubNo(sub[p]) < SubNo(sub'[p])
    BY <2>1 DEF SubNo, StoreInv, TypeOK
  <2>3. Others(p)
    BY <2>1 DEF Others, StoreInv, TypeOK
  <2> QED
    BY <2>1, <2>2, <2>3 DEF InStep, Forward, NewFile, Copies
<1>3. ASSUME SyncDir(p) PROVE Goes
  <2>1. step[p] \in NewFile /\ Written(p)
    BY <1>3 DEF SyncDir
  <2> QED
    BY <2>1, WrittenForward DEF StoreInv, NewFile
<1>4. ASSUME Exists(p) \/ CreateFails(p) \/ WriteFails(p) \/ CopyFails(p) PROVE Goes
  <2>1. step[p] \in NewFile \cup Copies /\ Failed(p)
    BY <1>4 DEF Exists, CreateFails, WriteFails, CopyFails
  <2> QED
    BY <2>1, FailedForward DEF StoreInv, NewFile, Copies
<1>5. ASSUME SyncCopy(p) \/ Sign(p) \/ SignFails(p) PROVE Goes
  <2>1. PICK s \in Steps \ {"idle"} : Goto(p, s) /\ StepNo(step[p]) < StepNo(s)
    <3>1. CASE SyncCopy(p)
      <4>1. After(step[p]) \in Steps \ {"idle"} /\ StepNo(step[p]) < StepNo(After(step[p]))
        BY <3>1 DEF SyncCopy, After, StepNo, Copies, Steps
      <4> QED
        BY <3>1, <4>1 DEF SyncCopy
    <3>2. CASE Sign(p)
      BY <3>2 DEF Sign, StepNo, Steps
    <3>3. CASE SignFails(p)
      BY <3>3 DEF SignFails, StepNo, Steps
    <3> QED
      BY <1>5, <3>1, <3>2, <3>3
  <2>2. next' = next /\ step[p] # "idle"
    BY <1>5 DEF SyncCopy, Sign, SignFails, Copies
  <2> QED
    BY <2>1, <2>2, GotoForward DEF Others, StoreInv
<1> QED
  BY <1>0, <1>1, <1>2, <1>3, <1>4, <1>5 DEF WriteNew, Replace

(* The steps that end a cycle.                                               *)
LEMMA EndForward ==
  ASSUME StoreInv, NEW p \in Procs, Emit(p) \/ Kill(p)
  PROVE  /\ step[p] # "idle" /\ step'[p] = "idle" /\ Others(p) /\ run' = run
         /\ verdict'[run[p]] # "running" /\ \A r \in Runs : r # run[p] => verdict'[r] = verdict[r]
<1>1. PICK v \in {"nil", "error", "killed"} : End(p, v)
  BY DEF Emit, Kill
<1>2. step[p] # "idle" /\ run[p] \in Runs
  BY DEF Emit, Kill, StoreInv, RunOrder
<1> QED
  BY <1>1, <1>2, EndStep DEF StoreInv, Others

(* No step leaves a running cycle without its process.                       *)
LEMMA HeldStep == ASSUME StoreInv, CycleHeld, Next PROVE CycleHeld'
<1>1. ASSUME NEW p \in Procs, NEW r \in Runs, Begin(p, r) PROVE CycleHeld'
  <2>1. /\ step[p] = "idle" /\ step'[p] = "evidence" /\ sub'[p] = "create" /\ run'[p] = r
        /\ \A q \in Procs : q # p => step'[q] = step[q] /\ sub'[q] = sub[q] /\ run'[q] = run[q]
        /\ \A s \in Runs : s # r => verdict'[s] = verdict[s]
    BY <1>1 DEF Begin, StoreInv, TypeOK
  <2>2. \A q \in Procs : InStep(q)'
    BY <2>1 DEF CycleHeld, InStep, NewFile, Copies
  <2>3. ASSUME NEW s \in Runs, verdict'[s] = "running"
        PROVE  \E q \in Procs : run'[q] = s /\ step'[q] # "idle"
    <3>1. CASE s = r
      BY <2>1, <3>1
    <3>2. CASE s # r
      BY <2>1, <2>3, <3>2 DEF CycleHeld
    <3> QED
      BY <3>1, <3>2
  <2> QED
    BY <2>2, <2>3 DEF CycleHeld
<1>2. ASSUME NEW p \in Procs, WriteNew(p) \/ Replace(p) \/ Sign(p) \/ SignFails(p) PROVE CycleHeld'
  <2>1. step'[p] # "idle" /\ InStep(p)' /\ Others(p) /\ UNCHANGED <<run, verdict>>
    BY <1>2, ForwardStep
  <2>2. \A q \in Procs : InStep(q)'
    BY <2>1 DEF CycleHeld, InStep, Others
  <2> QED
    BY <2>1, <2>2 DEF CycleHeld, Others
<1>3. ASSUME NEW p \in Procs, Emit(p) \/ Kill(p) PROVE CycleHeld'
  <2>1. /\ step'[p] = "idle" /\ Others(p) /\ run' = run
        /\ verdict'[run[p]] # "running" /\ \A r \in Runs : r # run[p] => verdict'[r] = verdict[r]
    BY <1>3, EndForward
  <2>2. \A q \in Procs : InStep(q)'
    BY <2>1 DEF CycleHeld, InStep, Others, NewFile, Copies
  <2> QED
    BY <2>1, <2>2 DEF CycleHeld, Others
<1>4. CASE PowerLoss
  BY <1>4 DEF PowerLoss, CycleHeld, InStep, NewFile, Copies
<1> QED
  BY <1>1, <1>2, <1>3, <1>4 DEF Next, Finalize

(* A cycle that has no verdict is never dropped (finalizeCycle).             *)
THEOREM CyclesHeld == Spec => []CycleHeld
<1>1. Init => CycleHeld
  BY DEF Init, CycleHeld, InStep, NewFile, Copies
<1>2. StoreInv /\ CycleHeld /\ [Next]_vars => CycleHeld'
  <2>1. ASSUME UNCHANGED vars, CycleHeld PROVE CycleHeld'
    BY <2>1 DEF vars, CycleHeld, InStep
  <2> QED
    BY <2>1, HeldStep
<1> QED
  BY <1>1, <1>2, StoreInvariance, PTL DEF Spec

(* Every step of a cycle, also one that fails, leads to a later system call, *)
(* sink or verdict, and only its own process takes it.                       *)
THEOREM CyclesGoForward == Spec => OnlyForward
<1>1. ASSUME StoreInv, [Next]_vars
      PROVE  [\A p \in Procs : step[p] # "idle" /\ step'[p] # "idle" =>
                IF Finalize(p) THEN Forward(p) ELSE UNCHANGED <<run[p], step[p], sub[p], next[p]>>]_vars
  <2> SUFFICES ASSUME Next, NEW p \in Procs, step[p] # "idle", step'[p] # "idle"
               PROVE  IF Finalize(p) THEN Forward(p) ELSE UNCHANGED <<run[p], step[p], sub[p], next[p]>>
    BY <1>1
  <2>1. CASE Finalize(p)
    BY <1>1, <2>1, ForwardStep, EndForward DEF Finalize
  <2>2. CASE ~Finalize(p)
    <3> DEFINE Stays == UNCHANGED <<run[p], step[p], sub[p], next[p]>>
    <3>1. ASSUME NEW q \in Procs, NEW r \in Runs, Begin(q, r) PROVE Stays
      BY <3>1 DEF Begin
    <3>2. ASSUME NEW q \in Procs, q # p, Finalize(q) \/ Kill(q) PROVE Stays
      BY <1>1, <3>2, ForwardStep, EndForward DEF Finalize, Others
    <3>3. ASSUME Kill(p) PROVE FALSE
      BY <1>1, <3>3, EndForward
    <3>4. ASSUME PowerLoss PROVE FALSE
      BY <3>4 DEF PowerLoss
    <3>5. Stays
      BY <2>2, <3>1, <3>2, <3>3, <3>4 DEF Next
    <3> QED
      BY <2>2, <3>5
  <2> QED
    BY <2>1, <2>2
<1> QED
  BY <1>1, StoreInvariance, PTL DEF Spec, OnlyForward
=============================================================================
