------------------------- MODULE BaselineStateProofs -------------------------
(***************************************************************************)
(* Proofs about BaselineState for every set of agents, every set of signed *)
(* baselines with any sequence numbers and predecessors, and every choice  *)
(* of admitted faults.                                                     *)
(***************************************************************************)
EXTENDS BaselineState, TLAPS

(* The sequence number of a recorded state is a natural number, and zero     *)
(* only where nothing is recorded.                                           *)
LEMMA SequenceType ==
  ASSUME NEW s \in State
  PROVE  /\ HighestSequence(s) \in Nat
         /\ s # None => s \in Baselines /\ HighestSequence(s) = Sequence[s] /\ HighestSequence(s) > 0
         /\ s = None => HighestSequence(s) = 0
  BY BaselineAssumption DEF State, HighestSequence

(* A baseline that is neither refused nor already recorded has a higher      *)
(* sequence than the state it replaces, and names it as its predecessor.     *)
LEMMA AdvanceStrict ==
  ASSUME NEW b \in Baselines, NEW s \in State, ~Refusable(b, s), s # b
  PROVE  /\ HighestSequence(b) > HighestSequence(s)
         /\ s # None => PreviousDigest[b] = s
<1>1. b \in State /\ b # None
  BY BaselineAssumption DEF State
<1>2. HighestSequence(b) = Sequence[b] /\ HighestSequence(b) \in Nat /\ HighestSequence(b) > 0
  BY <1>1, SequenceType
<1>3. HighestSequence(s) \in Nat /\ (s = None => HighestSequence(s) = 0)
  BY SequenceType
<1> QED
  BY <1>2, <1>3 DEF Refusable, IsRollback, IsEquivocation, IsChainMismatch

(* Whatever a state records, a later state records too.                      *)
LEMMA CoversLater ==
  ASSUME NEW s \in State, NEW t \in State, NEW l \in State,
         s = t \/ HighestSequence(s) < HighestSequence(t), Covers(s, l)
  PROVE  Covers(t, l)
<1>1. HighestSequence(s) \in Nat /\ HighestSequence(t) \in Nat /\ HighestSequence(l) \in Nat
  BY SequenceType
<1> QED
  BY <1>1 DEF Covers

(* The initial state satisfies the inductive invariant.                      *)
LEMMA InitInv == Init => IndInv
  BY BaselineAssumption
  DEF Init, IndInv, TypeOK, LockHeld, DecisionCurrent, NeverTorn, DurableBehind,
      AcceptedRecorded, AcceptedDurable, Covers, Steps, Critical, State

(* Every step of every process, every kill and every power loss preserves    *)
(* the inductive invariant.                                                  *)
LEMMA NextInv == IndInv /\ [Next]_vars => IndInv'
<1> SUFFICES ASSUME IndInv, [Next]_vars PROVE IndInv'
  OBVIOUS
<1> USE BaselineAssumption DEF IndInv
<1>1. ASSUME NEW p \in Procs, NEW b \in Baselines, LoadBaseline(p, b) PROVE IndInv'
  BY <1>1
  DEF LoadBaseline, Goto, Return, TypeOK, LockHeld, DecisionCurrent, NeverTorn, DurableBehind,
      AcceptedRecorded, AcceptedDurable, Steps, Critical, State
<1>2. ASSUME NEW p \in Procs, AcquireLock(p) PROVE IndInv'
  BY <1>2
  DEF AcquireLock, Goto, Return, TypeOK, LockHeld, DecisionCurrent, NeverTorn, DurableBehind,
      AcceptedRecorded, AcceptedDurable, Steps, Critical, State
<1>3. ASSUME NEW p \in Procs, LockFails(p) PROVE IndInv'
  BY <1>3
  DEF LockFails, Goto, Return, TypeOK, LockHeld, DecisionCurrent, NeverTorn, DurableBehind,
      AcceptedRecorded, AcceptedDurable, Steps, Critical, State
<1>4. ASSUME NEW p \in Procs, ReadState(p) PROVE IndInv'
  BY <1>4
  DEF ReadState, Goto, Return, TypeOK, LockHeld, DecisionCurrent, NeverTorn, DurableBehind,
      AcceptedRecorded, AcceptedDurable, Steps, Critical, State
<1>5. ASSUME NEW p \in Procs, Refuse(p) PROVE IndInv'
  BY <1>5
  DEF Refuse, Goto, Return, TypeOK, LockHeld, DecisionCurrent, NeverTorn, DurableBehind,
      AcceptedRecorded, AcceptedDurable, Steps, Critical, State
<1>6. ASSUME NEW p \in Procs, AlreadyCurrent(p) PROVE IndInv'
  BY <1>6
  DEF AlreadyCurrent, Goto, Return, TypeOK, LockHeld, DecisionCurrent, NeverTorn, DurableBehind,
      AcceptedRecorded, AcceptedDurable, Steps, Critical, State
<1>7. ASSUME NEW p \in Procs, BeginAdvance(p) PROVE IndInv'
  BY <1>7
  DEF BeginAdvance, Goto, Return, TypeOK, LockHeld, DecisionCurrent, NeverTorn, DurableBehind,
      AcceptedRecorded, AcceptedDurable, Steps, Critical, State
<1>8. ASSUME NEW p \in Procs, WriteTemp(p) PROVE IndInv'
  BY <1>8
  DEF WriteTemp, Goto, Return, TypeOK, LockHeld, DecisionCurrent, NeverTorn, DurableBehind,
      AcceptedRecorded, AcceptedDurable, Steps, Critical, State
<1>9. ASSUME NEW p \in Procs, SyncTemp(p) PROVE IndInv'
  BY <1>9
  DEF SyncTemp, Goto, Return, TypeOK, LockHeld, DecisionCurrent, NeverTorn, DurableBehind,
      AcceptedRecorded, AcceptedDurable, Steps, Critical, State
<1>10. ASSUME NEW p \in Procs, StepFails(p) PROVE IndInv'
  BY <1>10
  DEF StepFails, Goto, Return, TypeOK, LockHeld, DecisionCurrent, NeverTorn, DurableBehind,
      AcceptedRecorded, AcceptedDurable, Steps, Critical, State
<1>11. ASSUME NEW p \in Procs, DirSyncFails(p) PROVE IndInv'
  BY <1>11
  DEF DirSyncFails, Meets, Goto, Return, TypeOK, LockHeld, DecisionCurrent, NeverTorn, DurableBehind,
      AcceptedRecorded, AcceptedDurable, Steps, Critical, State
<1>12. ASSUME NEW p \in Procs, Kill(p) PROVE IndInv'
  BY <1>12
  DEF Kill, Meets, Goto, Return, TypeOK, LockHeld, DecisionCurrent, NeverTorn, DurableBehind,
      AcceptedRecorded, AcceptedDurable, Steps, Critical, State
<1>13. ASSUME NEW p \in Procs, RenameState(p) PROVE IndInv'
  <2>1. /\ lock = p /\ cand[p] \in Baselines /\ cand[p] \in State /\ file \in State
        /\ ~Refusable(cand[p], file) /\ file # cand[p] /\ tmp[p] = "synced"
    BY <1>13 DEF RenameState, Goto, TypeOK, LockHeld, DecisionCurrent, Critical, Steps, NeverTorn, State
  <2>2. HighestSequence(cand[p]) > HighestSequence(file)
    BY <2>1, AdvanceStrict
  <2>3. /\ file' = cand[p] /\ pending' = pending \cup {cand[p]} /\ synced' = synced
        /\ last' = last /\ met' = met
    BY <1>13, <2>1 DEF RenameState
  <2>4. \A s \in State : HighestSequence(s) \in Nat
    BY SequenceType
  <2>5. TypeOK' /\ LockHeld' /\ NeverTorn'
    BY <1>13, <2>1, <2>3 DEF RenameState, Goto, TypeOK, LockHeld, NeverTorn, Steps, Critical, State
  <2>6. DecisionCurrent'
    BY <1>13, <2>1, <2>3 DEF RenameState, Goto, TypeOK, LockHeld, DecisionCurrent, Steps, Critical
  <2>7. \A s \in pending \cup {synced} : s \in State /\ HighestSequence(s) < HighestSequence(cand[p])
    BY <2>1, <2>2, <2>4 DEF TypeOK, NeverTorn, DurableBehind, State
  <2>8. DurableBehind'
    BY <2>3, <2>7 DEF DurableBehind, HighestSequence
  <2>9. Covers(file, last) => Covers(cand[p], last)
    BY <2>1, <2>2, CoversLater DEF TypeOK
  <2>10. AcceptedRecorded' /\ AcceptedDurable'
    <3>1. pc'[p] = "dirsync"
      BY <1>13 DEF RenameState, Goto, TypeOK
    <3> QED
      BY <2>3, <2>9, <3>1 DEF AcceptedRecorded, AcceptedDurable, Covers, HighestSequence
  <2> QED
    BY <2>5, <2>6, <2>8, <2>10
<1>14. ASSUME NEW p \in Procs, SyncDir(p) PROVE IndInv'
  <2>1. file' = file /\ synced' = file /\ pending' = {} /\ last' = last /\ met' = met
    BY <1>14 DEF SyncDir
  <2>2. TypeOK' /\ LockHeld' /\ DecisionCurrent' /\ NeverTorn' /\ DurableBehind'
    BY <1>14, <2>1
    DEF SyncDir, Goto, Return, TypeOK, LockHeld, DecisionCurrent, NeverTorn, DurableBehind,
        Steps, Critical, State
  <2>3. Covers(synced, last) => Covers(file, last)
    BY CoversLater DEF DurableBehind, TypeOK, NeverTorn, State
  <2>4. AcceptedRecorded' /\ AcceptedDurable'
    BY <2>1, <2>3 DEF AcceptedRecorded, AcceptedDurable, Covers, HighestSequence
  <2> QED
    BY <2>2, <2>4
<1>15. ASSUME NEW p \in Procs, Unlock(p) PROVE IndInv'
  <2>1. /\ lock = p /\ file' = file /\ synced' = synced /\ pending' = pending
        /\ last' = last \/ last' = file
        /\ met' = met
    BY <1>15 DEF Unlock, Goto, TypeOK, LockHeld, DecisionCurrent, Critical, Steps
  <2>2. TypeOK' /\ LockHeld' /\ DecisionCurrent' /\ NeverTorn' /\ DurableBehind'
    BY <1>15, <2>1
    DEF Unlock, Goto, Return, TypeOK, LockHeld, DecisionCurrent, NeverTorn, DurableBehind,
        Steps, Critical, State
  <2>3. \A q \in Procs : pc[q] # "dirsync"
    BY <1>15, <2>1 DEF Unlock, Goto, LockHeld, Critical, Steps
  <2>4. AcceptedRecorded' /\ AcceptedDurable'
    BY <2>1, <2>3 DEF AcceptedRecorded, AcceptedDurable, DurableBehind, Covers, HighestSequence
  <2> QED
    BY <2>2, <2>4
<1>16. CASE PowerLoss
  <2>1. PICK s \in pending \cup {synced} : file' = s /\ synced' = s
    BY <1>16 DEF PowerLoss
  <2>2. pending' = {} /\ last' = last /\ s \in State /\ "power" \in met' /\ met \subseteq met'
    BY <1>16, <2>1 DEF PowerLoss, Meets, TypeOK, NeverTorn, State
  <2>3. TypeOK' /\ LockHeld' /\ DecisionCurrent' /\ NeverTorn' /\ DurableBehind'
    BY <1>16, <2>1, <2>2
    DEF PowerLoss, Meets, TypeOK, LockHeld, DecisionCurrent, NeverTorn, DurableBehind, Steps, Critical, State
  <2>4. Covers(synced, last) => Covers(s, last)
    BY <2>2, CoversLater DEF DurableBehind, TypeOK, NeverTorn, State
  <2>5. AcceptedRecorded' /\ AcceptedDurable'
    BY <2>1, <2>2, <2>4 DEF AcceptedRecorded, AcceptedDurable, Covers, HighestSequence
  <2> QED
    BY <2>3, <2>5
<1>17. CASE UNCHANGED vars
  BY <1>17
  DEF vars, TypeOK, LockHeld, DecisionCurrent, NeverTorn, DurableBehind,
      AcceptedRecorded, AcceptedDurable, Steps, Critical, State
<1>18. QED
  BY <1>1, <1>2, <1>3, <1>4, <1>5, <1>6, <1>7, <1>8, <1>9, <1>10, <1>11, <1>12,
     <1>13, <1>14, <1>15, <1>16, <1>17
  DEF Next, Progress, Finish, Publish

(* Whatever is killed, fails or loses power, the transaction keeps its       *)
(* inductive invariant: one lock holder, decisions on the current state, a   *)
(* state file that always parses, and durable contents that trail it.        *)
THEOREM Invariance == Spec => []IndInv
  BY InitInv, NextInv, PTL DEF Spec

(* The state file never comes back torn, under every combination of faults.  *)
THEOREM StateNeverTorn == Spec => []NeverTorn
<1>1. IndInv => NeverTorn
  BY DEF IndInv
<1> QED
  BY <1>1, Invariance, PTL

(* As long as there was no power loss - or there were, but no agent has been *)
(* killed and no directory sync has failed - no baseline is reported valid   *)
(* after a newer one, or after a different one of the same sequence.         *)
THEOREM NeverRolledBack == Spec => NoRollback
<1>1. ASSUME IndInv, [Next]_vars
      PROVE  [last # None /\ ("power" \notin met \/ met \cap {"kill", "dirsync"} = {}) =>
                HighestSequence(last') > HighestSequence(last)]_last
  <2> SUFFICES ASSUME last' # last, last # None,
                      "power" \notin met \/ met \cap {"kill", "dirsync"} = {}
               PROVE  HighestSequence(last') > HighestSequence(last)
    OBVIOUS
  <2>1. PICK p \in Procs : Unlock(p) /\ outcome[p] = "valid"
    BY <1>1
    DEF Next, vars, Progress, Finish, Publish, LoadBaseline, AcquireLock, LockFails, ReadState,
        Refuse, AlreadyCurrent, BeginAdvance, WriteTemp, SyncTemp, RenameState, SyncDir,
        StepFails, DirSyncFails, Unlock, Kill, PowerLoss
  <2>2. last' = file
    BY <1>1, <2>1 DEF Unlock, IndInv, DecisionCurrent
  <2>3. Covers(file, last)
    <3>1. \A q \in Procs : pc[q] # "dirsync"
      BY <1>1, <2>1 DEF Unlock, Goto, IndInv, LockHeld, Critical, Steps
    <3> QED
      BY <1>1, <3>1 DEF IndInv, AcceptedRecorded, AcceptedDurable, DurableBehind
  <2> QED
    BY <2>2, <2>3 DEF Covers
<1> QED
  BY <1>1, Invariance, PTL DEF Spec, NoRollback

(* Until a power loss, the state file moves only to a successor that    *)
(* names the recorded digest as its predecessor.                             *)
THEOREM ChainNeverSkipped == Spec => ChainFollowed
<1>1. ASSUME IndInv, [Next]_vars
      PROVE  [file # None /\ "power" \notin met' =>
                /\ HighestSequence(file') > HighestSequence(file)
                /\ PreviousDigest[file'] = file]_file
  <2> SUFFICES ASSUME file' # file, file # None, "power" \notin met'
               PROVE  /\ HighestSequence(file') > HighestSequence(file)
                      /\ PreviousDigest[file'] = file
    OBVIOUS
  <2>1. PICK p \in Procs : RenameState(p)
    BY <1>1
    DEF Next, vars, Progress, Finish, Publish, LoadBaseline, AcquireLock, LockFails, ReadState,
        Refuse, AlreadyCurrent, BeginAdvance, WriteTemp, SyncTemp, RenameState, SyncDir,
        StepFails, DirSyncFails, Unlock, Kill, PowerLoss, Meets
  <2>2. /\ file' = cand[p] /\ cand[p] \in Baselines /\ file \in State
        /\ ~Refusable(cand[p], file) /\ file # cand[p]
    BY <1>1, <2>1
    DEF RenameState, Goto, IndInv, TypeOK, DecisionCurrent, NeverTorn, State
  <2> QED
    BY <2>2, AdvanceStrict
<1> QED
  BY <1>1, Invariance, PTL DEF Spec, ChainFollowed

(* The durable state implements the monotonic register, whatever is killed,  *)
(* fails or loses power.                                                     *)
THEOREM DurableMonotonic == Spec => ImplementsRegister
<1>1. Init => Register!Init
  BY DEF Init, Register!Init
<1>2. ASSUME IndInv, [Next]_vars
      PROVE  [Register!Next]_synced
  <2> SUFFICES ASSUME synced' # synced
               PROVE  \E b \in Baselines : Register!Advance(b)
    BY DEF Register!Next
  <2>1. synced' \in pending
    BY <1>2
    DEF IndInv, DurableBehind, Next, vars, Progress, Finish, Publish, LoadBaseline, AcquireLock,
        LockFails, ReadState, Refuse, AlreadyCurrent, BeginAdvance, WriteTemp, SyncTemp,
        RenameState, SyncDir, StepFails, DirSyncFails, Unlock, Kill, PowerLoss
  <2>2. /\ synced' \in State /\ synced \in State
        /\ HighestSequence(synced) < HighestSequence(synced')
    BY <1>2, <2>1 DEF IndInv, TypeOK, NeverTorn, DurableBehind, State
  <2>3. synced' \in Baselines /\ HighestSequence(synced') = Sequence[synced']
    BY <2>2, SequenceType
  <2>4. synced # None => Sequence[synced'] > Sequence[synced]
    BY <2>2, <2>3, SequenceType
  <2> QED
    BY <2>3, <2>4 DEF Register!Advance
<1> QED
  BY <1>1, <1>2, Invariance, PTL DEF Spec, ImplementsRegister, Register!Spec
=============================================================================
