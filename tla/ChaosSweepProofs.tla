-------------------------- MODULE ChaosSweepProofs --------------------------
(***************************************************************************)
(* Proofs about ChaosSweep for any lists of delays, numbers of trials and   *)
(* attempts, profiles, status documents and freshness policies.            *)
(***************************************************************************)
EXTENDS ChaosSweep, StatusOraclesProofs, FiniteSetTheorems

(* The delay of a series is a number.                                        *)
LEMMA DelayInt ==
  ASSUME TypeOK, at =< Len(delays)
  PROVE  delay \in Int
<1>1. delays \in Seq(Int) /\ at \in 1..Len(delays)
  BY DEF TypeOK
<1> QED
  BY <1>1 DEF delay

(* A trial that has begun has seen nothing yet.                              *)
LEMMA BegunType ==
  /\ Begun \in Trial
  /\ \A o \in StatusOracle : Begun.done[o] = "no" /\ Begun.seen[o] = NoObs /\ Truthful(NoObs.obs, NoObs.truth)
<1>1. HarnessError = [decision |-> "HARNESS_ERROR", reason |-> "HARNESS_FAILURE"]
  BY DEF HarnessError, Observation
<1>2. NoObs \in [obs : [decision : Decision, reason : Reason], truth : {"nothing", "good", "revoked"}]
  BY <1>1 DEF NoObs, Decision, Reason
<1>3. Truthful(NoObs.obs, NoObs.truth)
  BY <1>1 DEF NoObs, Truthful, Revoked, Observation
<1> QED
  BY <1>2, <1>3 DEF Begun, Trial

(* Steps that leave the series, the log and the statistics alone.            *)
LEMMA LogFrame ==
  ASSUME LogOrder, StatsOfLastSeries, UNCHANGED <<delays, at, stats, Stats, log>>,
         InTrial <=> InTrial'
  PROVE  LogOrder' /\ StatsOfLastSeries' /\ (CleanTrialsConfirm => CleanTrialsConfirm')
<1>1. \A i : Tally(i)' = Tally(i)
  BY DEF Tally, Of
<1>2. LogOrder'
  BY <1>1 DEF LogOrder
<1>3. StatsOfLastSeries'
  BY <1>1 DEF StatsOfLastSeries
<1> QED
  BY <1>2, <1>3 DEF CleanTrialsConfirm

(* The sweep begins with nothing asked and nothing counted.                  *)
LEMMA InitSweep == Init => SweepInv
<1> SUFFICES ASSUME Init PROVE SweepInv
  OBVIOUS
<1>1. /\ pc = "check" /\ at = 1 /\ handlers = {} /\ trial = Begun /\ log = <<>>
      /\ DOMAIN Stats = {} /\ fault = 0 /\ outcome = "none"
      /\ interrupted = FALSE /\ serving = TRUE /\ delays \in Seq(Int)
  BY ChaosAssumption DEF Init
<1>2. TypeOK
  <2>1. log \in Seq(Entry) /\ at \in Nat \ {0} /\ fault \in Int
    BY <1>1
  <2> QED
    BY <1>1, <2>1, BegunType DEF TypeOK
<1>3. RequestOrder /\ OwnDelay
  BY <1>1 DEF RequestOrder, OwnDelay, InTrial
<1>4. OracleTruthful
  BY <1>1, BegunType DEF OracleTruthful
<1>5. LogOrder /\ StatsOfLastSeries /\ CleanOrder /\ CleanTrialsConfirm
  BY <1>1 DEF LogOrder, StatsOfLastSeries, CleanOrder, CleanTrialsConfirm, InTrial
<1> QED
  BY <1>2, <1>3, <1>4, <1>5 DEF SweepInv

(* SetDelay begins a series of which the log has no trial.                   *)
LEMMA SetDelayStep ==
  ASSUME SweepInv, SetDelay
  PROVE  SweepInv'
<1> USE DEF SweepInv
<1>1. /\ pc = "set" /\ pc' = "trial" /\ fault' = delay /\ stats' = NoStats
      /\ UNCHANGED <<delays, interrupted, at, outcome, Stats, log, serving, handlers, trial>>
  BY DEF SetDelay, command, result
<1>2. ~InTrial /\ InTrial' /\ at =< Len(delays) /\ delay' = delay
  BY <1>1 DEF InTrial, RequestOrder, delay
<1>3. delay \in Int
  BY <1>2, DelayInt
<1>4. TypeOK'
  BY <1>1, <1>3 DEF TypeOK
<1>5. RequestOrder' /\ OwnDelay'
  BY <1>1, <1>2 DEF RequestOrder, OwnDelay
<1>6. OracleTruthful' /\ CleanOrder' /\ (BothRoles => CleanTrialsConfirm')
  BY <1>1 DEF OracleTruthful, CleanOrder, CleanTrialsConfirm
<1>7. Of(at)' = {}
  BY <1>1, <1>2 DEF LogOrder, Of, TypeOK
<1>8. Tally(at)' = NoStats
  <2>1. {k \in Of(at)' : log'[k].valid} = {} /\ {k \in Of(at)' : ~log'[k].valid} = {}
        /\ {k \in Of(at)' : log'[k].failed} = {}
    BY <1>7
  <2> QED
    BY <1>7, <2>1, FS_EmptySet DEF Tally, NoStats
<1>9. LogOrder'
  BY <1>1, <1>2, <1>8, ChaosAssumption DEF LogOrder, NoStats
<1>10. \A i : Tally(i)' = Tally(i)
  BY <1>1 DEF Tally, Of
<1>11. StatsOfLastSeries'
  BY <1>1, <1>10 DEF StatsOfLastSeries
<1> QED
  BY <1>4, <1>5, <1>6, <1>9, <1>11

(* A set of places in the log is counted one higher when the new last place  *)
(* joins it.                                                                 *)
LEMMA CountOneMore ==
  ASSUME NEW n \in Nat, NEW S \in SUBSET (1..n)
  PROVE  /\ Cardinality(S) \in Nat
         /\ Cardinality(S \cup {n + 1}) = Cardinality(S) + 1
<1>1. IsFiniteSet(1..n)
  BY FS_Interval
<1>2. IsFiniteSet(S)
  BY <1>1, FS_Subset
<1>3. n + 1 \notin S
  OBVIOUS
<1> QED
  BY <1>2, <1>3, FS_AddElement, FS_CardinalityType

(* A new record is counted in its own series and in no other.                *)
LEMMA TallyStep ==
  ASSUME log \in Seq(Entry), NEW r \in Entry, r.series = at, log' = Append(log, r), at \in Nat
  PROVE  /\ \A i : i # at => Tally(i)' = Tally(i)
         /\ Tally(at).attempted \in Nat
         /\ \A i : i = at =>
              Tally(i)' = [attempted |-> Tally(at).attempted + 1,
                           valid |-> Tally(at).valid + (IF r.valid THEN 1 ELSE 0),
                           harness |-> Tally(at).harness + (IF r.valid THEN 0 ELSE 1),
                           failures |-> Tally(at).failures + (IF r.failed THEN 1 ELSE 0)]
<1> DEFINE n == Len(log)
<1>1. n \in Nat /\ DOMAIN log = 1..n
  OBVIOUS
<1>2. /\ DOMAIN log' = 1..(n + 1) /\ log'[n + 1] = r
      /\ \A k \in 1..n : log'[k] = log[k]
  OBVIOUS
<1>3. ASSUME NEW i, i # at PROVE Tally(i)' = Tally(i)
  <2>1. {k \in DOMAIN log' : log'[k].series = i} = {k \in DOMAIN log : log[k].series = i}
    BY <1>1, <1>2, <1>3
  <2>2. \A k \in {k \in DOMAIN log : log[k].series = i} : log'[k] = log[k]
    BY <1>1, <1>2
  <2> QED
    BY <2>1, <2>2 DEF Tally, Of
<1>4. ASSUME NEW i, i = at
      PROVE  Tally(i)' = [attempted |-> Tally(at).attempted + 1,
                           valid |-> Tally(at).valid + (IF r.valid THEN 1 ELSE 0),
                           harness |-> Tally(at).harness + (IF r.valid THEN 0 ELSE 1),
                           failures |-> Tally(at).failures + (IF r.failed THEN 1 ELSE 0)]
  <2> DEFINE O == {k \in DOMAIN log : log[k].series = i}
             Q == {k \in DOMAIN log' : log'[k].series = i}
             V == {k \in O : log[k].valid}
             H == {k \in O : ~log[k].valid}
             F == {k \in O : log[k].failed}
             V1 == {k \in Q : log'[k].valid}
             H1 == {k \in Q : ~log'[k].valid}
             F1 == {k \in Q : log'[k].failed}
  <2>1. O \in SUBSET (1..n) /\ V \in SUBSET (1..n) /\ H \in SUBSET (1..n) /\ F \in SUBSET (1..n)
    BY <1>1
  <2>2. Q = O \cup {n + 1}
    BY <1>1, <1>2, <1>4
  <2>3. /\ V1 = IF r.valid THEN V \cup {n + 1} ELSE V
        /\ H1 = IF r.valid THEN H ELSE H \cup {n + 1}
        /\ F1 = IF r.failed THEN F \cup {n + 1} ELSE F
    BY <1>1, <1>2, <2>2
  <2>4. Tally(i)' = [attempted |-> Cardinality(Q),
                     valid |-> Cardinality(V1),
                     harness |-> Cardinality(H1),
                     failures |-> Cardinality(F1)]
    BY DEF Tally, Of
  <2>5. Tally(at) = [attempted |-> Cardinality(O), valid |-> Cardinality(V),
                     harness |-> Cardinality(H), failures |-> Cardinality(F)]
    BY <1>4 DEF Tally, Of
  <2>6. /\ Cardinality(O \cup {n + 1}) = Cardinality(O) + 1
        /\ Cardinality(V \cup {n + 1}) = Cardinality(V) + 1
        /\ Cardinality(H \cup {n + 1}) = Cardinality(H) + 1
        /\ Cardinality(F \cup {n + 1}) = Cardinality(F) + 1
        /\ Cardinality(V) \in Nat /\ Cardinality(H) \in Nat /\ Cardinality(F) \in Nat
    <3> HIDE DEF O, V, H, F, n
    <3> QED
      BY <1>1, <2>1, CountOneMore
  <2>7. /\ Tally(at).attempted = Cardinality(O) /\ Tally(at).valid = Cardinality(V)
        /\ Tally(at).harness = Cardinality(H) /\ Tally(at).failures = Cardinality(F)
    BY <2>5
  <2> HIDE DEF O, V, H, F, Q, V1, H1, F1, n
  <2>8. /\ Cardinality(V1) = Cardinality(V) + (IF r.valid THEN 1 ELSE 0)
        /\ Cardinality(H1) = Cardinality(H) + (IF r.valid THEN 0 ELSE 1)
    <3>1. CASE r.valid
      BY <2>3, <2>6, <3>1
    <3>2. CASE ~r.valid
      BY <2>3, <2>6, <3>2
    <3> QED
      BY <3>1, <3>2
  <2>9. Cardinality(F1) = Cardinality(F) + (IF r.failed THEN 1 ELSE 0)
    <3>1. CASE r.failed
      BY <2>3, <2>6, <3>1
    <3>2. CASE ~r.failed
      BY <2>3, <2>6, <3>2
    <3> QED
      BY <3>1, <3>2
  <2>10. Cardinality(Q) = Cardinality(O) + 1
    BY <2>2, <2>6
  <2> QED
    BY <2>4, <2>7, <2>8, <2>9, <2>10
<1>5. Tally(at).attempted \in Nat
  <2>1. Of(at) \in SUBSET (1..n)
    BY <1>1 DEF Of
  <2>2. Cardinality(Of(at)) \in Nat
    BY <1>1, <2>1, CountOneMore
  <2> QED
    BY <2>2 DEF Tally
<1> QED
  BY <1>3, <1>4, <1>5

(* The end of a trial: it is logged and counted, and the last one of a       *)
(* series brings the statistics of that series into the result.              *)
LEMMA RecordTrialStep ==
  ASSUME SweepInv, RecordTrial
  PROVE  SweepInv'
<1> USE DEF SweepInv
<1> DEFINE r == Record(trial)
           last == ~(stats.attempted + 1 < Trials)
<1>1. /\ pc = "record" /\ log' = Append(log, r) /\ trial' = Begun /\ stats' = Counted(trial)
      /\ UNCHANGED <<delays, interrupted, outcome, fault, serving, handlers>>
  BY DEF RecordTrial, command, proxy
<1>2. /\ ~last => pc' = "trial" /\ at' = at /\ Stats' = Stats
      /\ last => pc' = "check" /\ at' = at + 1 /\ Stats' = [d \in DOMAIN Stats \cup {delay} |->
                                                     IF d = delay THEN Counted(trial) ELSE Stats[d]]
  BY DEF RecordTrial
<1>3. InTrial /\ at =< Len(delays) /\ at \in Nat \ {0} /\ delay \in Int
  BY <1>1, DelayInt DEF InTrial, RequestOrder, TypeOK
<1>4. r \in Entry /\ r.series = at /\ (r.failed <=> Valid(trial) /\ Failed(trial)) /\ (r.valid <=> Valid(trial))
  <2>1. Valid(trial) \in BOOLEAN /\ Failed(trial) \in BOOLEAN /\ trial.clean \in BOOLEAN
    BY DEF Valid, Failed, TypeOK, Trial
  <2> QED
    BY <1>3, <2>1 DEF Record, Entry
<1>5. log \in Seq(Entry)
  BY DEF TypeOK
<1> HIDE DEF r
<1>6. stats = Tally(at) /\ stats.attempted < Trials /\ stats.attempted \in Nat /\ Trials \in Nat
  BY <1>1, <1>3, <1>4, <1>5, TallyStep, ChaosAssumption DEF LogOrder
<1>7. /\ \A i : i # at => Tally(i)' = Tally(i)
      /\ \A i : i = at => Tally(i)' = Counted(trial)
  BY <1>1, <1>3, <1>4, <1>5, <1>6, TallyStep DEF Counted
<1>8. Counted(trial).attempted = stats.attempted + 1
  BY DEF Counted
<1>9. /\ log' \in Seq(Entry) /\ DOMAIN log' = 1..(Len(log) + 1) /\ log'[Len(log) + 1] = r
      /\ DOMAIN log = 1..Len(log) /\ Len(log) \in Nat /\ \A k \in DOMAIN log : log'[k] = log[k]
  BY <1>1, <1>4, <1>5
<1>10. TypeOK'
  <2>1. at' \in Nat \ {0} /\ pc' \in {"trial", "check"}
    BY <1>2, <1>3
  <2> QED
    BY <1>1, <1>9, <2>1, BegunType DEF TypeOK
<1>11. RequestOrder' /\ OwnDelay'
  <2>1. \A h \in handlers : ~h.live
    BY <1>1 DEF RequestOrder
  <2>2. InTrial' => at' = at /\ fault = delay
    BY <1>1, <1>2, <1>3 DEF InTrial, RequestOrder
  <2>3. pc' # "set"
    BY <1>2
  <2> QED
    BY <1>1, <1>3, <2>1, <2>2, <2>3 DEF RequestOrder, OwnDelay, delay
<1>12. OracleTruthful'
  BY <1>1, BegunType DEF OracleTruthful
<1>13. CleanOrder'
  BY <1>2 DEF CleanOrder
<1>14. LogOrder'
  <2>1. ASSUME NEW k \in DOMAIN log' PROVE log'[k].series < at' \/ (log'[k].series = at' /\ InTrial')
    <3>1. log'[k].series \in Nat /\ log'[k].series =< at
      <4>1. CASE k = Len(log) + 1
        BY <1>3, <1>4, <1>9, <4>1
      <4>2. CASE k \in DOMAIN log
        <5>1. log[k] \in Entry
          BY <1>5, <1>9, <4>2
        <5>2. log[k].series \in Nat /\ log[k].series =< at
          BY <1>3, <4>2, <5>1 DEF LogOrder, Entry
        <5> QED
          BY <1>9, <4>2, <5>2
      <4> QED
        BY <1>9, <4>1, <4>2
    <3>2. last => log'[k].series < at'
      BY <1>2, <1>3, <3>1
    <3>3. ~last => at' = at /\ InTrial'
      BY <1>2 DEF InTrial
    <3> QED
      BY <1>3, <3>1, <3>2, <3>3
  <2>2. InTrial' => ~last
    BY <1>2 DEF InTrial
  <2>3. ~last => stats' = Tally(at)' /\ stats'.attempted < Trials
    BY <1>1, <1>2, <1>7, <1>8
  <2> QED
    BY <2>1, <2>2, <2>3 DEF LogOrder
<1>15. StatsOfLastSeries'
  <2>1. CASE ~last
    <3>1. \A i \in 1..(at - 1) : Tally(i)' = Tally(i)
      BY <1>3, <1>7
    <3> QED
      BY <1>1, <1>2, <2>1, <3>1 DEF StatsOfLastSeries
  <2>2. CASE last
    <3> SUFFICES ASSUME NEW d \in DOMAIN Stats'
                 PROVE  /\ Stats'[d].attempted = Trials
                        /\ \E i \in 1..(at' - 1) :
                             /\ delays[i] = d /\ \A j \in (i + 1)..(at' - 1) : delays[j] # d
                             /\ Stats'[d] = Tally(i)'
      BY <1>1 DEF StatsOfLastSeries
    <3>1. at' - 1 = at /\ at \in 1..(at' - 1)
      BY <1>2, <1>3, <2>2
    <3>2. CASE d = delay
      <4>1. Stats'[d] = Counted(trial)
        BY <1>2, <2>2, <3>2
      <4>2. Counted(trial).attempted = Trials
        BY <1>6, <1>8, <2>2
      <4>3. delays[at] = d /\ \A j \in (at + 1)..(at' - 1) : delays[j] # d
        BY <1>3, <3>1, <3>2 DEF delay
      <4> QED
        BY <1>7, <3>1, <4>1, <4>2, <4>3
    <3>3. CASE d # delay
      <4>1. d \in DOMAIN Stats /\ Stats'[d] = Stats[d]
        BY <1>2, <2>2, <3>3
      <4>2. PICK i \in 1..(at - 1) :
              /\ delays[i] = d /\ \A j \in (i + 1)..(at - 1) : delays[j] # d
              /\ Stats[d] = Tally(i)
        BY <4>1 DEF StatsOfLastSeries
      <4>3. \A j \in (i + 1)..at : delays[j] # d
        BY <1>3, <3>3, <4>2 DEF delay
      <4>4. i # at /\ i \in 1..at
        BY <1>3
      <4> QED
        BY <1>7, <3>1, <4>1, <4>2, <4>3, <4>4 DEF StatsOfLastSeries
    <3> QED
      BY <3>2, <3>3
  <2> QED
    BY <2>1, <2>2
<1>16. BothRoles => CleanTrialsConfirm'
  <2> SUFFICES ASSUME BothRoles, NEW k \in DOMAIN log', log'[k].clean, log'[k].delay < PreflightMaxAge
               PROVE  log'[k].valid /\ ~log'[k].failed
    BY DEF CleanTrialsConfirm
  <2>1. CASE k \in DOMAIN log
    BY <1>9, <2>1 DEF CleanTrialsConfirm
  <2>2. CASE k = Len(log) + 1
    <3>1. trial.clean /\ delay < PreflightMaxAge
      BY <1>9, <2>2 DEF r, Record
    <3>2. Confirmed
      BY <1>1, <3>1 DEF CleanOrder
    <3>3. Valid(trial) /\ ~Failed(trial)
      BY <3>2 DEF Confirmed, Valid, Failed, Revoked, Observation
    <3> QED
      BY <1>4, <1>9, <2>2, <3>3
  <2> QED
    BY <1>9, <2>1, <2>2
<1> QED
  BY <1>10, <1>11, <1>12, <1>13, <1>14, <1>15, <1>16

(* What a result adds to the trial, and what the end of an attempt does.     *)
LEMMA ExhaustedType ==
  ASSUME NEW t \in Trial, NEW o \in StatusOracle
  PROVE  /\ Exhausted(o, t) \in Trial /\ Exhausted(o, t).clean = t.clean
         /\ Exhausted(o, t).seen = t.seen /\ Exhausted(o, t).held = t.held
         /\ \A p \in StatusOracle : p # o => Exhausted(o, t).done[p] = t.done[p]
BY DEF Exhausted, Trial

(* An attempt that goes on, or is the last one, changes only what is done.   *)
LEMMA AttemptedType ==
  ASSUME NEW t \in Trial
  PROVE  /\ Attempted(t) \in Trial /\ Attempted(t).clean = t.clean
         /\ Attempted(t).seen = t.seen /\ Attempted(t).held = t.held
         /\ t.seen[Oracle].obs = Revoked => Attempted(t).done[Oracle] = "plain"
<1>1. Oracle \in StatusOracle
  BY DEF StatusOracle
<1>2. /\ [t EXCEPT !.done[Oracle] = "plain"] \in Trial
      /\ [t EXCEPT !.done[Oracle] = "plain"].clean = t.clean
      /\ [t EXCEPT !.done[Oracle] = "plain"].seen = t.seen
      /\ [t EXCEPT !.done[Oracle] = "plain"].held = t.held
      /\ [t EXCEPT !.done[Oracle] = "plain"].done[Oracle] = "plain"
  BY <1>1 DEF Trial
<1> QED
  BY <1>1, <1>2, ExhaustedType DEF Attempted

(* The statistics and the log are those of before, so what is left to show   *)
(* is the trial and its request.                                             *)
LEMMA Elsewhere ==
  ASSUME SweepInv, UNCHANGED <<delays, at, stats, Stats, log>>, InTrial <=> InTrial',
         TypeOK', RequestOrder', OwnDelay', OracleTruthful', CleanOrder'
  PROVE  SweepInv'
BY LogFrame DEF SweepInv

(* An answer, or the end of an attempt without one, reaches the oracle that  *)
(* waits for it.                                                             *)
LEMMA ShownStep ==
  ASSUME SweepInv, NEW h \in handlers, h.live,
         NEW obs \in [decision : Decision, reason : Reason],
         NEW truth \in {"nothing", "good", "revoked"}, Truthful(obs, truth),
         obs = Good => h.fault = delay,
         Shown(h, obs, truth),
         handlers' \subseteq
           [own : Int, fault : Int, st : {"arriving", "waiting", "upstream"}, live : BOOLEAN],
         \A g \in handlers' : ~g.live,
         UNCHANGED <<command, series, result, proxy>>
  PROVE  SweepInv'
<1> USE DEF SweepInv
<1>1. UNCHANGED <<delays, interrupted, at, stats, outcome, Stats, log, fault, serving>>
  BY DEF command, series, result, proxy
<1>2. Oracle \in StatusOracle /\ trial \in Trial /\ h.fault \in Int
  BY DEF StatusOracle, TypeOK
<1>3. /\ trial' \in Trial
      /\ trial'.clean => trial.clean
      /\ trial'.seen[Oracle] = [obs |-> obs, truth |-> truth]
      /\ \A p \in StatusOracle : p # Oracle => trial'.seen[p] = trial.seen[p]
      /\ pc = "asked" => pc' = "revoke" /\ trial'.held = h.fault /\ (trial'.clean => obs = Good)
                        /\ trial'.done = trial.done
      /\ pc = "poll" => pc' = pc /\ (trial'.clean => obs = Revoked)
      /\ pc = "poll" /\ obs = Revoked => trial'.done[Oracle] = "plain"
      /\ pc \in {"asked", "poll"}
  <2>1. CASE pc = "asked"
    <3> DEFINE t == Seen(Oracle, obs, truth, Good)
    <3>0. t = Seen(Oracle, obs, truth, Good)
      OBVIOUS
    <3>1. trial' = [t EXCEPT !.held = h.fault] /\ pc' = "revoke"
      BY <2>1 DEF Shown
    <3> HIDE DEF t
    <3>2. /\ t \in Trial /\ (t.clean <=> trial.clean /\ obs = Good) /\ t.done = trial.done
          /\ t.seen[Oracle] = [obs |-> obs, truth |-> truth]
          /\ \A p \in StatusOracle : p # Oracle => t.seen[p] = trial.seen[p]
      BY <1>2, <3>0 DEF Seen, Trial
    <3>3. /\ trial' \in Trial /\ trial'.clean = t.clean /\ trial'.seen = t.seen
          /\ trial'.held = h.fault /\ trial'.done = t.done
      BY <1>2, <3>1, <3>2 DEF Trial
    <3> QED
      BY <2>1, <3>1, <3>2, <3>3
  <2>2. CASE pc = "poll"
    <3> DEFINE t == Seen(Oracle, obs, truth, Revoked)
    <3>0. t = Seen(Oracle, obs, truth, Revoked)
      OBVIOUS
    <3>1. trial' = Attempted(t) /\ pc' = pc
      BY <2>2 DEF Shown
    <3> HIDE DEF t
    <3>2. /\ t \in Trial /\ (t.clean <=> trial.clean /\ obs = Revoked)
          /\ t.seen[Oracle] = [obs |-> obs, truth |-> truth]
          /\ \A p \in StatusOracle : p # Oracle => t.seen[p] = trial.seen[p]
      BY <1>2, <3>0 DEF Seen, Trial
    <3>3. /\ trial' \in Trial /\ trial'.clean = t.clean /\ trial'.seen = t.seen
          /\ obs = Revoked => trial'.done[Oracle] = "plain"
      BY <3>1, <3>2, AttemptedType
    <3> QED
      BY <2>2, <3>1, <3>2, <3>3
  <2> QED
    BY <2>1, <2>2 DEF Shown
<1>4. (InTrial <=> InTrial') /\ delay' = delay
  BY <1>1, <1>3 DEF InTrial, delay
<1>5. TypeOK'
  BY <1>1, <1>3 DEF TypeOK
<1>6. RequestOrder' /\ OwnDelay'
  BY <1>1, <1>3, <1>4 DEF RequestOrder, OwnDelay, InTrial
<1>7. OracleTruthful'
  <2> SUFFICES ASSUME NEW o \in StatusOracle PROVE Truthful(trial'.seen[o].obs, trial'.seen[o].truth)
    BY DEF OracleTruthful
  <2>1. CASE o = Oracle
    BY <1>3, <2>1
  <2>2. CASE o # Oracle
    BY <1>3, <2>2 DEF OracleTruthful
  <2> QED
    BY <2>1, <2>2
<1>8. CleanOrder'
  BY <1>3, <1>4 DEF CleanOrder, Confirmed
<1> QED
  BY <1>1, <1>4, <1>5, <1>6, <1>7, <1>8, Elsewhere

(* An attempt of the direct oracle sends one request, of its own series, to  *)
(* a proxy that has no other request somebody waits for.                     *)
LEMMA AskStep ==
  ASSUME TypeOK, OwnDelay, Ask, at =< Len(delays), \A h \in handlers : ~h.live
  PROVE  /\ handlers' \subseteq
              [own : Int, fault : Int, st : {"arriving", "waiting", "upstream"}, live : BOOLEAN]
         /\ \A g, h \in handlers' : g.live /\ h.live => g = h
         /\ \A h \in handlers' : h.live => h.st = "arriving"
<1>1. delay \in Int
  BY DelayInt
<1> DEFINE a == [own |-> delay, fault |-> 0, st |-> "arriving", live |-> TRUE]
<1>2. handlers' = handlers \cup {a}
  BY DEF Ask
<1>3. a \in [own : Int, fault : Int, st : {"arriving", "waiting", "upstream"}, live : BOOLEAN]
      /\ a.st = "arriving"
  BY <1>1
<1> HIDE DEF a
<1> QED
  BY <1>2, <1>3 DEF TypeOK

(* The steps of the command within a trial.                                  *)
LEMMA TrialStep ==
  ASSUME SweepInv, StartTrial \/ Preflight \/ Revoke \/ PollDirect \/ PollCRL \/ EndTrial
  PROVE  SweepInv'
<1> USE DEF SweepInv
<1>1. UNCHANGED <<delays, interrupted, at, stats, outcome, Stats, log, fault, serving>>
  BY DEF command, series, result, proxy, StartTrial, Preflight, Revoke, PollDirect, PollCRL, EndTrial
<1>2. /\ Oracle \in StatusOracle /\ "crl-check" \in StatusOracle /\ Oracle # "crl-check"
      /\ trial \in Trial
  BY DEF StatusOracle, Oracle, TypeOK
<1>3. delay' = delay
  BY <1>1 DEF delay
<1>4. HarnessError \in [decision : Decision, reason : Reason] /\ Truthful(HarnessError, "nothing")
      /\ HarnessError # Revoked
  BY Observations DEF Refusal, HarnessError, Revoked, Observation
<1>5. CASE StartTrial
  <2>1. /\ pc = "trial" /\ handlers' = handlers /\ pc' \in {"record", "preflight"}
        /\ trial'.seen = Begun.seen /\ trial' \in Trial
        /\ pc' = "record" /\ trial'.clean => ~BothRoles
        /\ pc' = "preflight" => trial'.done[Oracle] = "no"
    <3>1. CASE NoResult([Begun EXCEPT !.clean = ~BothRoles])
      <4>1. BothRoles \in BOOLEAN
        BY DEF BothRoles
      <4> QED
        BY <1>2, <1>5, <3>1, <4>1, BegunType DEF StartTrial, NoResult, Trial
    <3>2. CASE trial' = Begun /\ pc' = "preflight"
      BY <1>2, <1>5, <3>2, BegunType DEF StartTrial
    <3> QED
      BY <1>5, <3>1, <3>2 DEF StartTrial
  <2>2. InTrial /\ InTrial'
    BY <2>1 DEF InTrial
  <2>3. TypeOK' /\ RequestOrder' /\ OwnDelay'
    BY <1>1, <1>3, <2>1, <2>2 DEF TypeOK, RequestOrder, OwnDelay
  <2>4. OracleTruthful'
    BY <2>1, BegunType DEF OracleTruthful
  <2>5. CleanOrder'
    BY <2>1 DEF CleanOrder
  <2> QED
    BY <1>1, <2>2, <2>3, <2>4, <2>5, Elsewhere
<1>6. CASE Preflight
  <2>1. /\ pc = "preflight" /\ \A h \in handlers : ~h.live
        /\ InTrial /\ InTrial' /\ at =< Len(delays)
    BY <1>6 DEF Preflight, NoResult, RequestOrder, InTrial
  <2>2. CASE NoResult([trial EXCEPT !.clean = FALSE]) /\ UNCHANGED handlers
    <3>1. pc' = "record" /\ trial'.seen = trial.seen /\ trial' \in Trial /\ trial'.clean = FALSE
      BY <1>2, <2>2 DEF NoResult, Trial
    <3>2. TypeOK' /\ RequestOrder' /\ OwnDelay' /\ OracleTruthful' /\ CleanOrder'
      BY <1>1, <1>3, <2>1, <2>2, <3>1 DEF TypeOK, RequestOrder, OwnDelay, OracleTruthful, CleanOrder
    <3> QED
      BY <1>1, <2>1, <3>2, Elsewhere
  <2>3. CASE Ask /\ pc' = "asked" /\ UNCHANGED trial
    <3>1. TypeOK' /\ RequestOrder' /\ OwnDelay' /\ OracleTruthful' /\ CleanOrder'
      BY <1>1, <1>3, <2>1, <2>3, AskStep DEF TypeOK, RequestOrder, OwnDelay, OracleTruthful, CleanOrder
    <3> QED
      BY <1>1, <2>1, <3>1, Elsewhere
  <2> QED
    BY <1>6, <2>2, <2>3 DEF Preflight
<1>7. CASE Revoke
  <2>1. /\ pc = "revoke" /\ handlers' = handlers /\ InTrial /\ at =< Len(delays)
        /\ \A h \in handlers : ~h.live
    BY <1>7 DEF Revoke, RequestOrder, InTrial
  <2>2. PICK idle \in {1, PreflightMaxAge + 1} :
         LET t == [trial EXCEPT !.clean = @ /\ idle = 1]
         IN  \/ /\ trial.seen[Oracle].obs = Good
                /\ Age(idle) =< PreflightMaxAge
                /\ ~interrupted
                /\ trial' = [t EXCEPT !.seen[Oracle] = NoObs, !.held = 0]
                /\ pc' = "poll"
             \/ /\ trial.seen[Oracle].obs # Good \/ Age(idle) > PreflightMaxAge
                /\ NoResult(t)
             \/ NoResult([t EXCEPT !.clean = FALSE])
    BY <1>7 DEF Revoke
  <2> DEFINE t == [trial EXCEPT !.clean = @ /\ idle = 1]
  <2>3. /\ t \in Trial /\ t.seen = trial.seen /\ t.done = trial.done
        /\ t.clean <=> trial.clean /\ idle = 1
    BY <1>2 DEF Trial
  <2>4. CASE trial' = [t EXCEPT !.seen[Oracle] = NoObs, !.held = 0] /\ pc' = "poll"
    <3>1. NoObs \in [obs : [decision : Decision, reason : Reason], truth : {"nothing", "good", "revoked"}]
          /\ Truthful(NoObs.obs, NoObs.truth)
      BY <1>4 DEF NoObs
    <3>2. /\ trial' = [clean |-> t.clean, held |-> 0, attempts |-> t.attempts,
                      seen |-> [t.seen EXCEPT ![Oracle] = NoObs], done |-> t.done]
      <4> HIDE DEF t
      <4> QED
        BY <2>3, <2>4 DEF Trial
    <3>3. /\ trial' \in Trial /\ trial'.seen[Oracle] = NoObs
          /\ \A o \in StatusOracle : o # Oracle => trial'.seen[o] = trial.seen[o]
          /\ trial'.done = trial.done /\ (trial'.clean => trial.clean)
      <4> HIDE DEF t
      <4> QED
        BY <1>2, <2>3, <3>1, <3>2 DEF Trial
    <3>4. TypeOK' /\ RequestOrder' /\ OwnDelay'
      BY <1>1, <1>3, <2>1, <2>4, <3>3 DEF TypeOK, RequestOrder, OwnDelay, InTrial
    <3>5. OracleTruthful'
      BY <3>1, <3>3 DEF OracleTruthful
    <3>6. CleanOrder'
      BY <2>1, <2>4, <3>3 DEF CleanOrder
    <3>7. InTrial'
      BY <2>4 DEF InTrial
    <3> QED
      BY <1>1, <2>1, <3>4, <3>5, <3>6, <3>7, Elsewhere
  <2>5. ASSUME NEW u \in Trial, u.seen = trial.seen, u.clean /\ delay < PreflightMaxAge => FALSE, NoResult(u)
        PROVE  SweepInv'
    <3>1. /\ pc' = "record" /\ trial' \in Trial /\ trial'.seen = trial.seen
          /\ trial'.clean => ~(delay < PreflightMaxAge)
      BY <1>2, <2>5 DEF NoResult, Trial
    <3>2. TypeOK' /\ RequestOrder' /\ OwnDelay' /\ OracleTruthful'
      BY <1>1, <1>3, <2>1, <3>1 DEF TypeOK, RequestOrder, OwnDelay, OracleTruthful, InTrial
    <3>3. CleanOrder'
      BY <1>3, <3>1 DEF CleanOrder
    <3>4. InTrial'
      BY <3>1 DEF InTrial
    <3> QED
      BY <1>1, <2>1, <3>2, <3>3, <3>4, Elsewhere
  <2>6. CASE (trial.seen[Oracle].obs # Good \/ Age(idle) > PreflightMaxAge) /\ NoResult(t)
    <3>1. t.clean /\ delay < PreflightMaxAge => FALSE
      <4> SUFFICES ASSUME t.clean, delay < PreflightMaxAge PROVE FALSE
        OBVIOUS
      <4>1. trial.seen[Oracle].obs = Good /\ trial.held = delay /\ idle = 1
        BY <2>1, <2>3 DEF CleanOrder
      <4>2. delay \in Int /\ PreflightMaxAge \in Int
        BY <2>1, DelayInt, ChaosAssumption
      <4> QED
        BY <2>6, <4>1, <4>2 DEF Age
    <3> HIDE DEF t
    <3> QED
      BY <2>3, <2>5, <2>6, <3>1
  <2>7. CASE NoResult([t EXCEPT !.clean = FALSE])
    <3> DEFINE u == [t EXCEPT !.clean = FALSE]
    <3>1. u \in Trial /\ u.seen = trial.seen /\ u.clean = FALSE
      <4> HIDE DEF t
      <4> QED
        BY <2>3 DEF Trial
    <3>2. NoResult(u)
      BY <2>7
    <3> HIDE DEF u
    <3> QED
      BY <2>5, <3>1, <3>2
  <2> QED
    BY <2>2, <2>4, <2>6, <2>7
<1>8. CASE PollDirect
  <2>1. /\ pc = "poll" /\ pc' = pc /\ InTrial /\ InTrial' /\ at =< Len(delays)
        /\ trial.done[Oracle] = "no" /\ \A h \in handlers : ~h.live
    BY <1>8 DEF PollDirect, Asking, RequestOrder, InTrial
  <2>2. ASSUME trial' \in Trial, OracleTruthful', trial'.clean => trial'.done[Oracle] = "no" \/ Confirmed',
               handlers' = handlers
        PROVE  SweepInv'
    <3>1. TypeOK' /\ RequestOrder' /\ OwnDelay' /\ CleanOrder'
      BY <1>1, <1>3, <2>1, <2>2 DEF TypeOK, RequestOrder, OwnDelay, CleanOrder
    <3> QED
      BY <1>1, <2>1, <2>2, <3>1, Elsewhere
  <2>3. CASE /\ trial' = Attempted([Seen(Oracle, HarnessError, "nothing", Revoked) EXCEPT !.attempts = @ + 1])
             /\ handlers' = handlers
    <3> DEFINE u == Seen(Oracle, HarnessError, "nothing", Revoked)
    <3> DEFINE t == [u EXCEPT !.attempts = @ + 1]
    <3>0. /\ u \in Trial /\ u.clean = FALSE
          /\ u.seen[Oracle] = [obs |-> HarnessError, truth |-> "nothing"]
          /\ \A o \in StatusOracle : o # Oracle => u.seen[o] = trial.seen[o]
      BY <1>2, <1>4 DEF Seen, Trial
    <3>1. t \in Trial /\ t.clean = FALSE /\ t.seen = u.seen
      <4> HIDE DEF u
      <4> QED
        BY <3>0 DEF Trial
    <3>2. trial' = Attempted(t)
      BY <2>3
    <3> HIDE DEF t
    <3>3. trial' \in Trial /\ trial'.clean = FALSE /\ trial'.seen = t.seen
      BY <3>1, <3>2, AttemptedType
    <3>4. OracleTruthful'
      <4> HIDE DEF u
      <4> QED
        BY <1>4, <3>0, <3>1, <3>3 DEF OracleTruthful
    <3> QED
      BY <2>2, <2>3, <3>3, <3>4
  <2>4. CASE ~interrupted /\ Ask /\ trial' = [trial EXCEPT !.attempts = @ + 1]
    <3>1. /\ trial' \in Trial /\ trial'.seen = trial.seen /\ trial'.done = trial.done
          /\ trial'.clean = trial.clean
      BY <1>2, <2>4 DEF Trial
    <3>2. TypeOK' /\ RequestOrder' /\ OwnDelay' /\ OracleTruthful'
      BY <1>1, <1>3, <2>1, <2>4, <3>1, AskStep DEF TypeOK, RequestOrder, OwnDelay, OracleTruthful
    <3>3. CleanOrder'
      BY <2>1, <3>1 DEF CleanOrder
    <3> QED
      BY <1>1, <2>1, <3>2, <3>3, Elsewhere
  <2>5. CASE /\ trial' = [trial EXCEPT !.done[Oracle] = "error", !.clean = FALSE]
             /\ handlers' = handlers
    <3>1. /\ trial' \in Trial /\ trial'.seen = trial.seen /\ trial'.clean = FALSE
      BY <1>2, <2>5 DEF Trial
    <3>2. OracleTruthful'
      BY <3>1 DEF OracleTruthful
    <3> QED
      BY <2>2, <2>5, <3>1, <3>2
  <2> QED
    BY <1>8, <2>3, <2>4, <2>5 DEF PollDirect
<1>9. CASE PollCRL
  <2>1. /\ pc = "poll" /\ pc' = pc /\ InTrial /\ InTrial' /\ handlers' = handlers
        /\ trial.done[Oracle] # "no"
    BY <1>9 DEF PollCRL, InTrial
  <2>2. /\ trial' \in Trial /\ trial'.clean = trial.clean
        /\ trial'.seen[Oracle] = trial.seen[Oracle] /\ trial'.done[Oracle] = trial.done[Oracle]
        /\ Truthful(trial'.seen["crl-check"].obs, trial'.seen["crl-check"].truth)
    <3>1. CASE trial' = [trial EXCEPT !.done["crl-check"] = "error"]
      BY <1>2, <3>1 DEF Trial, OracleTruthful
    <3>2. ASSUME NEW a \in CRLAnswers,
                 trial' = Exhausted("crl-check",
                   [trial EXCEPT !.seen["crl-check"] = [obs |-> crlCheck(a), truth |-> CRLTruth(a)]])
          PROVE  /\ trial' \in Trial /\ trial'.clean = trial.clean
                 /\ trial'.seen[Oracle] = trial.seen[Oracle] /\ trial'.done[Oracle] = trial.done[Oracle]
                 /\ Truthful(trial'.seen["crl-check"].obs, trial'.seen["crl-check"].truth)
      <4> DEFINE found == [obs |-> crlCheck(a), truth |-> CRLTruth(a)]
                 t == [trial EXCEPT !.seen["crl-check"] = found]
      <4>1. /\ found \in [obs : [decision : Decision, reason : Reason], truth : {"nothing", "good", "revoked"}]
            /\ Truthful(found.obs, found.truth)
        BY <3>2, CRLOracleSound, ChaosAssumption
      <4> HIDE DEF found
      <4>2. /\ t \in Trial /\ t.clean = trial.clean /\ t.done = trial.done
            /\ t.seen[Oracle] = trial.seen[Oracle] /\ t.seen["crl-check"] = found
        BY <1>2, <4>1 DEF Trial
      <4>3. trial' = Exhausted("crl-check", t)
        BY <3>2 DEF found
      <4> HIDE DEF t
      <4> QED
        BY <1>2, <4>1, <4>2, <4>3, ExhaustedType
    <3> QED
      BY <1>9, <3>1, <3>2 DEF PollCRL
  <2>3. TypeOK' /\ RequestOrder' /\ OwnDelay'
    BY <1>1, <1>3, <2>1, <2>2 DEF TypeOK, RequestOrder, OwnDelay
  <2>4. OracleTruthful'
    BY <1>2, <2>2 DEF OracleTruthful, StatusOracle
  <2>5. CleanOrder'
    BY <2>1, <2>2 DEF CleanOrder, Confirmed
  <2> QED
    BY <1>1, <2>1, <2>3, <2>4, <2>5, Elsewhere
<1>10. CASE EndTrial
  <2>1. /\ pc = "poll" /\ pc' = "record" /\ InTrial /\ InTrial' /\ handlers' = handlers
        /\ trial.done[Oracle] # "no"
        /\ trial' = [trial EXCEPT !.seen["crl-check"] = NoObs, !.attempts = 0]
    BY <1>2, <1>10, ChaosAssumption DEF EndTrial, InTrial
  <2>2. NoObs \in [obs : [decision : Decision, reason : Reason], truth : {"nothing", "good", "revoked"}]
        /\ Truthful(NoObs.obs, NoObs.truth)
    BY <1>4 DEF NoObs
  <2>3. /\ trial' \in Trial /\ trial'.seen["crl-check"] = NoObs
        /\ trial'.seen[Oracle] = trial.seen[Oracle] /\ trial'.done = trial.done
        /\ trial'.clean = trial.clean
    BY <1>2, <2>1, <2>2 DEF Trial
  <2>4. \A h \in handlers : ~h.live
    BY <2>1 DEF RequestOrder
  <2>5. TypeOK' /\ RequestOrder' /\ OwnDelay'
    BY <1>1, <1>3, <2>1, <2>3, <2>4 DEF TypeOK, RequestOrder, OwnDelay
  <2>6. OracleTruthful'
    BY <1>2, <2>2, <2>3 DEF OracleTruthful, StatusOracle
  <2>7. CleanOrder'
    BY <2>1, <2>3 DEF CleanOrder, Confirmed
  <2> QED
    BY <1>1, <2>1, <2>5, <2>6, <2>7, Elsewhere
<1> QED
  BY <1>5, <1>6, <1>7, <1>8, <1>9, <1>10

(* The steps of the proxy, the attempt's end and the interrupt.              *)
LEMMA ProxyStep ==
  ASSUME SweepInv, Arrive \/ Elapse \/ Abandoned \/ Upstream \/ GiveUp \/ Interrupt
  PROVE  SweepInv'
<1> USE DEF SweepInv
<1>1. UNCHANGED <<delays, at, stats, outcome, Stats, log, fault, serving>>
  BY DEF command, series, result, proxy, Arrive, Elapse, Abandoned, Upstream, GiveUp, Interrupt
<1>2. delay' = delay
  BY <1>1 DEF delay
<1> DEFINE Requests ==
      [own : Int, fault : Int, st : {"arriving", "waiting", "upstream"}, live : BOOLEAN]
<1>3. ASSUME UNCHANGED <<pc, interrupted, trial>>, handlers' \subseteq Requests, OwnDelay',
             \A g \in handlers' : g.live => \E h \in handlers : h.live,
             \A g, h \in handlers' : g.live /\ h.live => g = h
      PROVE  SweepInv'
  <2>1. InTrial <=> InTrial'
    BY <1>3 DEF InTrial
  <2>2. TypeOK' /\ RequestOrder' /\ OracleTruthful' /\ CleanOrder'
    BY <1>1, <1>2, <1>3, <2>1
    DEF TypeOK, RequestOrder, OracleTruthful, CleanOrder, Confirmed
  <2> QED
    BY <1>1, <1>3, <2>1, <2>2, Elsewhere
<1>4. handlers \subseteq Requests /\ \A g, h \in handlers : g.live /\ h.live => g = h
  BY DEF TypeOK, RequestOrder
<1>5. CASE Arrive
  <2>1. PICK h \in handlers :
          /\ h.st = "arriving"
          /\ handlers' = (handlers \ {h}) \cup
               {[h EXCEPT !.fault = fault, !.st = IF fault = 0 THEN "upstream" ELSE "waiting"]}
    BY <1>5 DEF Arrive
  <2> DEFINE g == [h EXCEPT !.fault = fault, !.st = IF fault = 0 THEN "upstream" ELSE "waiting"]
  <2>2. g \in Requests /\ g.live = h.live /\ g.fault = fault
    BY <1>4 DEF TypeOK
  <2>3. h.live => fault = delay
    BY DEF RequestOrder, InTrial
  <2>4. handlers' = (handlers \ {h}) \cup {g}
    BY <2>1
  <2> HIDE DEF g
  <2>5. OwnDelay'
    BY <1>2, <2>2, <2>3, <2>4 DEF OwnDelay
  <2> QED
    BY <1>3, <1>4, <1>5, <2>2, <2>4, <2>5 DEF Arrive, command
<1>6. CASE Elapse
  <2>1. PICK h \in handlers : h.st = "waiting" /\ handlers' = (handlers \ {h}) \cup {[h EXCEPT !.st = "upstream"]}
    BY <1>6 DEF Elapse, Handling
  <2> DEFINE g == [h EXCEPT !.st = "upstream"]
  <2>2. g \in Requests /\ g.live = h.live /\ g.fault = h.fault
    BY <1>4
  <2>3. handlers' = (handlers \ {h}) \cup {g}
    BY <2>1
  <2> HIDE DEF g
  <2>4. OwnDelay'
    BY <1>2, <2>1, <2>2, <2>3 DEF OwnDelay
  <2> QED
    BY <1>3, <1>4, <1>6, <2>2, <2>3, <2>4 DEF Elapse, command
<1>7. CASE Abandoned
  <2>1. handlers' \subseteq handlers
    BY <1>7 DEF Abandoned, Handled
  <2>2. OwnDelay'
    BY <1>2, <2>1 DEF OwnDelay
  <2> QED
    BY <1>3, <1>4, <1>7, <2>1, <2>2 DEF Abandoned, command
<1>8. CASE Upstream
  <2>1. PICK h \in handlers, a \in Answers :
          /\ h.st = "upstream" /\ h.live /\ handlers' = handlers \ {h}
          /\ Shown(h, opensslOCSPDirect(a), OCSPTruth(a))
    BY <1>8 DEF Upstream, Handled
  <2>2. /\ opensslOCSPDirect(a) \in [decision : Decision, reason : Reason]
        /\ OCSPTruth(a) \in {"nothing", "good", "revoked"}
        /\ Truthful(opensslOCSPDirect(a), OCSPTruth(a))
    BY OCSPOracleSound, ChaosAssumption
  <2>3. h.fault = delay
    BY <2>1 DEF OwnDelay
  <2>4. handlers' \subseteq Requests /\ \A g \in handlers' : ~g.live
    BY <1>4, <2>1
  <2>5. UNCHANGED <<command, series, result, proxy>>
    BY <1>8 DEF Upstream
  <2> QED
    BY <2>1, <2>2, <2>3, <2>4, <2>5, ShownStep
<1>9. CASE GiveUp
  <2>1. PICK h \in handlers :
          /\ h.live /\ handlers' = (handlers \ {h}) \cup {[h EXCEPT !.live = FALSE]}
          /\ Shown(h, NetworkFailure, "nothing")
    BY <1>9 DEF GiveUp
  <2>2. /\ NetworkFailure \in [decision : Decision, reason : Reason]
        /\ Truthful(NetworkFailure, "nothing") /\ NetworkFailure # Good
    BY Observations DEF Refusal, NetworkFailure, Good, Observation
  <2>3. handlers' \subseteq Requests /\ \A g \in handlers' : ~g.live
    BY <1>4, <2>1
  <2>4. UNCHANGED <<command, series, result, proxy>>
    BY <1>9 DEF GiveUp
  <2> QED
    BY <2>1, <2>2, <2>3, <2>4, ShownStep
<1>10. CASE Interrupt
  <2>1. /\ pc' = pc /\ handlers' = handlers /\ interrupted' = TRUE
        /\ trial' = [trial EXCEPT !.clean = FALSE]
    BY <1>10 DEF Interrupt
  <2>2. /\ trial' \in Trial /\ trial'.clean = FALSE /\ trial'.seen = trial.seen
        /\ trial'.done = trial.done
    BY <2>1 DEF TypeOK, Trial
  <2>3. InTrial <=> InTrial'
    BY <2>1 DEF InTrial
  <2>4. TypeOK' /\ RequestOrder' /\ OwnDelay' /\ OracleTruthful' /\ CleanOrder'
    BY <1>1, <1>2, <2>1, <2>2, <2>3 DEF TypeOK, RequestOrder, OwnDelay, OracleTruthful, CleanOrder
  <2> QED
    BY <1>1, <2>3, <2>4, Elsewhere
<1> QED
  BY <1>5, <1>6, <1>7, <1>8, <1>9, <1>10

(* The steps between the series and after the last one.                      *)
LEMMA OuterStep ==
  ASSUME SweepInv,
         NextDelay \/ Shutdown \/ ShutdownEnds \/ Close \/ ServeReturns \/ UNCHANGED vars
  PROVE  SweepInv'
<1> USE DEF SweepInv
<1>1. UNCHANGED <<delays, interrupted, at, stats, Stats, log, handlers, trial>>
  BY DEF vars, command, series, result, proxy, NextDelay, Return, Shutdown, ShutdownEnds, Close, ServeReturns
<1>2. delay' = delay
  BY <1>1 DEF delay
<1>3. CASE UNCHANGED <<pc, fault>> /\ outcome' = outcome /\ serving' \in BOOLEAN
  <2>1. TypeOK' /\ RequestOrder' /\ OwnDelay' /\ OracleTruthful' /\ CleanOrder' /\ (InTrial <=> InTrial')
    BY <1>1, <1>2, <1>3
    DEF TypeOK, RequestOrder, OwnDelay, OracleTruthful, CleanOrder, Confirmed, InTrial
  <2> QED
    BY <1>1, <2>1, Elsewhere
<1>4. CASE /\ pc \in {"check", "returned", "shutdown", "serve"}
           /\ pc' \in {"set", "returned", "shutdown", "serve", "closed"}
           /\ pc' = "set" => at =< Len(delays)
           /\ fault' \in Int /\ serving' = serving
           /\ outcome' \in {"none", "ok", "error", "interrupted"}
  <2>1. ~InTrial /\ ~InTrial' /\ \A h \in handlers : ~h.live
    BY <1>4 DEF InTrial, RequestOrder
  <2>2. TypeOK' /\ RequestOrder' /\ OwnDelay' /\ OracleTruthful' /\ CleanOrder'
    BY <1>1, <1>4, <2>1 DEF TypeOK, RequestOrder, OwnDelay, OracleTruthful, CleanOrder
  <2> QED
    BY <1>1, <2>1, <2>2, Elsewhere
<1>5. CASE NextDelay
  <2>1. pc = "check" /\ serving' = serving
    BY <1>5 DEF NextDelay
  <2>2. \/ /\ pc' = "returned" /\ fault' = 0
           /\ outcome' \in {"ok", "error", "interrupted"}
        \/ /\ pc' = "set" /\ at =< Len(delays)
           /\ UNCHANGED <<outcome, fault>>
    BY <1>5 DEF NextDelay, Return
  <2> QED
    BY <1>4, <2>1, <2>2 DEF TypeOK
<1>6. CASE Shutdown \/ ShutdownEnds \/ Close
  BY <1>4, <1>6 DEF Shutdown, ShutdownEnds, Close, result, proxy, TypeOK
<1>7. CASE ServeReturns \/ UNCHANGED vars
  BY <1>3, <1>7 DEF ServeReturns, vars, result, proxy, TypeOK
<1> QED
  BY <1>5, <1>6, <1>7

(* Every step preserves the inductive invariant.                             *)
LEMMA NextSweep == SweepInv /\ [Next]_vars => SweepInv'
BY SetDelayStep, RecordTrialStep, TrialStep, ProxyStep, OuterStep DEF Next, Main, Proxy

(* What is in force, asked, seen and counted fits together at every moment   *)
(* of a sweep (SweepDetailed with StartLatencyProxy).                        *)
THEOREM SweepInvariance == Spec => []SweepInv
BY InitSweep, NextSweep, PTL DEF Spec

(* The request an oracle waits for is held for the delay of its own series.  *)
THEOREM DelayIsOwn == Spec => []OwnDelay
<1>1. SweepInv => OwnDelay
  BY DEF SweepInv
<1> QED
  BY <1>1, SweepInvariance, PTL

(* What the oracles of a trial report is what the documents show.            *)
THEOREM OraclesTruthful == Spec => []OracleTruthful
<1>1. SweepInv => OracleTruthful
  BY DEF SweepInv
<1> QED
  BY <1>1, SweepInvariance, PTL

(* The statistics are those of the log, delays listed twice included.        *)
THEOREM StatsMatchLog == Spec => []StatsOfLastSeries
<1>1. SweepInv => StatsOfLastSeries
  BY DEF SweepInv
<1> QED
  BY <1>1, SweepInvariance, PTL

(* With a client among the profiles a trial in which nothing failed confirms *)
(* the revocation: what the sweep lacks is only the client (cmdChaos).       *)
THEOREM CompleteProfilesConfirm ==
  ASSUME BothRoles
  PROVE  Spec => []CleanTrialsConfirm
<1>1. SweepInv => CleanTrialsConfirm
  BY DEF SweepInv
<1> QED
  BY <1>1, SweepInvariance, PTL
----------------------------------------------------------------------------
(* The sweep only goes forward                                              *)

(* A step that keeps to the budget and takes the sweep further, or nowhere.  *)
Goes == AttemptOrder' /\ (Forward \/ UNCHANGED Position)

(* A step that leaves the command and its trial where they are.              *)
LEMMA StandsStill ==
  ASSUME AttemptOrder, UNCHANGED <<pc, at, stats, trial.attempts, trial.done>>, Asking' <=> Asking
  PROVE  Goes
<1>1. AttemptOrder'
  BY DEF AttemptOrder
<1>2. Asking' = Asking
  BY DEF Asking
<1> QED
  BY <1>1, <1>2 DEF Goes, Position

(* The steps from one series to the next and after the last one.             *)
LEMMA OuterGoes ==
  ASSUME SweepInv, AttemptOrder,
         NextDelay \/ SetDelay \/ Shutdown \/ ShutdownEnds \/ Close
  PROVE  Goes
<1>1. /\ at' = at /\ trial' = trial
      /\ \/ pc = "check" /\ pc' \in {"set", "returned"}
         \/ pc = "set" /\ pc' = "trial"
         \/ pc = "returned" /\ pc' = "shutdown"
         \/ pc = "shutdown" /\ pc' = "serve"
         \/ pc = "serve" /\ pc' = "closed"
  BY DEF NextDelay, Return, SetDelay, Shutdown, ShutdownEnds, Close, series
<1>2. AttemptOrder'
  BY <1>1 DEF AttemptOrder
<1>3. CommandNo(pc) < CommandNo(pc')
  BY <1>1 DEF CommandNo
<1> QED
  BY <1>1, <1>2, <1>3 DEF Goes, Forward

(* A recorded trial is one more of its series, or the last.                  *)
LEMMA RecordGoes ==
  ASSUME SweepInv, AttemptOrder, RecordTrial
  PROVE  Goes
<1>1. /\ pc = "record" /\ pc' \in {"trial", "check"} /\ trial' = Begun /\ stats' = Counted(trial)
      /\ (pc' = "trial" /\ at' = at) \/ at' = at + 1
      /\ log' = Append(log, Record(trial))
  BY DEF RecordTrial
<1>2. /\ stats = Tally(at) /\ at \in Nat /\ delay \in Int /\ log \in Seq(Entry)
  BY <1>1, DelayInt DEF SweepInv, LogOrder, RequestOrder, InTrial, TypeOK
<1>3. Record(trial) \in Entry /\ Record(trial).series = at
  <2>1. Valid(trial) \in BOOLEAN /\ Failed(trial) \in BOOLEAN /\ trial.clean \in BOOLEAN /\ at \in Nat \ {0}
    BY DEF SweepInv, Valid, Failed, TypeOK, Trial
  <2> QED
    BY <1>2, <2>1 DEF Record, Entry
<1>4. stats.attempted \in Nat
  BY <1>1, <1>2, <1>3, TallyStep
<1>5. stats'.attempted = stats.attempted + 1
  BY <1>1 DEF Counted
<1>6. AttemptOrder'
  BY <1>1, ChaosAssumption DEF AttemptOrder, Begun
<1>7. InTrial /\ (pc' = "trial" => InTrial')
  BY <1>1 DEF InTrial
<1> QED
  BY <1>1, <1>2, <1>4, <1>5, <1>6, <1>7 DEF Goes, Forward

(* After a request was sent somebody waits for it.                           *)
LEMMA AskAsks ==
  ASSUME Ask
  PROVE  Asking'
<1> DEFINE a == [own |-> delay, fault |-> 0, st |-> "arriving", live |-> TRUE]
<1>1. a.live /\ a \in handlers'
  BY DEF Ask
<1> HIDE DEF a
<1> QED
  BY <1>1 DEF Asking

(* The steps of a cycle up to its polling.                                   *)
LEMMA CycleGoes ==
  ASSUME SweepInv, AttemptOrder, StartTrial \/ Preflight \/ Revoke
  PROVE  Goes
<1>1. trial \in Trial /\ Begun \in Trial /\ Begun.attempts = 0 /\ Begun.done[Oracle] = "no"
      /\ MaxAttempts \in Nat \ {0}
  BY BegunType, ChaosAssumption DEF SweepInv, TypeOK, StatusOracle, Begun
<1>2. trial.attempts = 0 /\ UNCHANGED <<at, stats>>
  BY DEF AttemptOrder, StartTrial, Preflight, Revoke, series
<1>3. \/ pc = "trial" /\ pc' \in {"preflight", "record"}
      \/ pc = "preflight" /\ pc' \in {"asked", "record"}
      \/ pc = "revoke" /\ pc' \in {"poll", "record"}
  BY DEF StartTrial, Preflight, Revoke, NoResult
<1>4. trial'.attempts = 0 /\ (pc' # "record" => trial'.done[Oracle] = "no")
  <2>1. CASE StartTrial
    BY <1>1, <2>1 DEF StartTrial, NoResult, Trial
  <2>2. CASE Preflight
    BY <1>1, <1>2, <2>2 DEF Preflight, NoResult, Trial, AttemptOrder
  <2>3. CASE Revoke
    <3>1. PICK idle \in {1, PreflightMaxAge + 1} :
            LET t == [trial EXCEPT !.clean = @ /\ idle = 1]
            IN  \/ /\ trial' = [t EXCEPT !.seen[Oracle] = NoObs, !.held = 0]
                   /\ pc' = "poll"
                \/ NoResult(t)
                \/ NoResult([t EXCEPT !.clean = FALSE])
      BY <2>3 DEF Revoke
    <3> DEFINE t == [trial EXCEPT !.clean = @ /\ idle = 1]
    <3>2. t \in [clean : BOOLEAN, held : Int, attempts : Nat,
                 seen : [StatusOracle -> [obs : [decision : Decision, reason : Reason],
                                          truth : {"nothing", "good", "revoked"}]],
                 done : [StatusOracle -> {"no", "plain", "error"}]]
          /\ t.attempts = 0 /\ t.done = trial.done
      BY <1>1, <1>2 DEF Trial
    <3>3. pc = "revoke"
      BY <2>3 DEF Revoke
    <3>4. \/ trial' = [t EXCEPT !.seen[Oracle] = NoObs, !.held = 0] /\ pc' = "poll"
          \/ NoResult(t)
          \/ NoResult([t EXCEPT !.clean = FALSE])
      BY <3>1
    <3> HIDE DEF t
    <3> QED
      BY <3>2, <3>3, <3>4 DEF NoResult, AttemptOrder
  <2> QED
    BY <2>1, <2>2, <2>3
<1>5. pc' = "asked" => Asking'
  <2>1. pc' = "asked" => Ask
    BY <1>3 DEF StartTrial, Preflight, Revoke, NoResult
  <2> QED
    BY <2>1, AskAsks
<1>6. AttemptOrder'
  BY <1>1, <1>3, <1>4, <1>5 DEF AttemptOrder
<1>7. TrialNo(pc) < TrialNo(pc') /\ InTrial /\ InTrial'
  BY <1>3 DEF TrialNo, InTrial
<1> QED
  BY <1>2, <1>6, <1>7 DEF Goes, Forward

(* What the end of an attempt makes of the trial.                            *)
LEMMA AttemptedGoes ==
  ASSUME NEW t \in Trial, t.done[Oracle] = "no", t.attempts =< MaxAttempts
  PROVE  /\ Attempted(t).attempts = t.attempts
         /\ Attempted(t).done[Oracle] = "no" => t.attempts < MaxAttempts
         /\ \A o \in StatusOracle : o # Oracle => Attempted(t).done[o] = t.done[o]
<1>1. Oracle \in StatusOracle /\ MaxAttempts \in Nat /\ t.attempts \in Nat
  BY ChaosAssumption DEF StatusOracle, Trial
<1>2. CASE t.seen[Oracle].obs = Revoked
  BY <1>1, <1>2 DEF Attempted, Trial
<1>3. CASE t.seen[Oracle].obs # Revoked /\ t.attempts = MaxAttempts
  BY <1>1, <1>3 DEF Attempted, Exhausted, Trial
<1>4. CASE t.seen[Oracle].obs # Revoked /\ t.attempts # MaxAttempts
  BY <1>1, <1>4 DEF Attempted
<1> QED
  BY <1>2, <1>3, <1>4

(* Polling: an attempt begins, an oracle delivers, or the cycle ends.        *)
LEMMA PollGoes ==
  ASSUME SweepInv, AttemptOrder, PollDirect \/ PollCRL \/ EndTrial
  PROVE  Goes
<1>1. /\ trial \in Trial /\ trial.attempts \in Nat /\ MaxAttempts \in Nat
      /\ Oracle \in StatusOracle /\ "crl-check" \in StatusOracle /\ Oracle # "crl-check"
  BY ChaosAssumption DEF SweepInv, TypeOK, Trial, StatusOracle, Oracle
<1>2. pc = "poll" /\ UNCHANGED <<at, stats>>
  BY DEF PollDirect, PollCRL, EndTrial, series
<1>3. CASE EndTrial
  <2>1. pc' = "record" /\ trial'.attempts = 0
    BY <1>1, <1>3 DEF EndTrial, Trial
  <2>2. AttemptOrder' /\ InTrial /\ InTrial' /\ TrialNo(pc) < TrialNo(pc')
    BY <1>1, <1>2, <2>1 DEF AttemptOrder, InTrial, TrialNo
  <2> QED
    BY <1>2, <2>2 DEF Goes, Forward
<1>4. ASSUME pc' = pc, Polled, trial'.attempts =< MaxAttempts,
             trial'.done[Oracle] = "no" /\ ~Asking' => trial'.attempts < MaxAttempts
      PROVE  Goes
  <2>1. AttemptOrder'
    BY <1>2, <1>4 DEF AttemptOrder
  <2> QED
    BY <1>2, <1>4, <2>1 DEF Goes, Forward
<1>5. CASE PollCRL
  <2>1. /\ pc' = pc /\ trial.done[Oracle] # "no" /\ trial.done["crl-check"] = "no"
        /\ trial.attempts =< MaxAttempts
    BY <1>5 DEF PollCRL, AttemptOrder
  <2>2. trial'.attempts = trial.attempts /\ trial'.done["crl-check"] # "no"
        /\ trial'.done[Oracle] = trial.done[Oracle]
    <3>1. CASE trial' = [trial EXCEPT !.done["crl-check"] = "error"]
      BY <1>1, <3>1 DEF Trial
    <3>2. ASSUME NEW a \in CRLAnswers,
                 trial' = Exhausted("crl-check",
                   [trial EXCEPT !.seen["crl-check"] = [obs |-> crlCheck(a), truth |-> CRLTruth(a)]])
          PROVE  trial'.attempts = trial.attempts /\ trial'.done["crl-check"] # "no"
                 /\ trial'.done[Oracle] = trial.done[Oracle]
      <4> DEFINE t == [trial EXCEPT !.seen["crl-check"] = [obs |-> crlCheck(a), truth |-> CRLTruth(a)]]
      <4>1. t.attempts = trial.attempts /\ t.done = trial.done /\ DOMAIN t = DOMAIN trial
        BY <1>1 DEF Trial
      <4>2. trial' = Exhausted("crl-check", t)
        BY <3>2
      <4>3. "done" \in DOMAIN t /\ "attempts" \in DOMAIN t /\ trial.done \in [StatusOracle -> {"no", "plain", "error"}]
        BY <1>1, <4>1 DEF Trial
      <4> HIDE DEF t
      <4> QED
        BY <1>1, <4>1, <4>2, <4>3 DEF Exhausted
    <3> QED
      BY <1>5, <3>1, <3>2 DEF PollCRL
  <2>3. Polled
    BY <1>1, <2>1, <2>2 DEF Polled, StatusOracle
  <2> QED
    BY <1>4, <2>1, <2>2, <2>3
<1>6. CASE PollDirect
  <2>1. pc' = pc /\ trial.done[Oracle] = "no" /\ ~Asking /\ trial.attempts < MaxAttempts
    BY <1>2, <1>6 DEF PollDirect, AttemptOrder
  <2>2. CASE trial' = Attempted([Seen(Oracle, HarnessError, "nothing", Revoked) EXCEPT !.attempts = @ + 1])
    <3> DEFINE u == Seen(Oracle, HarnessError, "nothing", Revoked)
               t == [u EXCEPT !.attempts = @ + 1]
    <3>1. u \in Trial /\ u.attempts = trial.attempts /\ u.done = trial.done
      <4>1. HarnessError \in [decision : Decision, reason : Reason]
        BY Observations DEF Refusal, HarnessError, Observation
      <4> QED
        BY <1>1, <4>1 DEF Seen, Trial
    <3> HIDE DEF u
    <3>2. t \in Trial /\ t.attempts = trial.attempts + 1 /\ t.done = trial.done
      BY <1>1, <3>1 DEF Trial
    <3>3. trial' = Attempted(t)
      BY <2>2 DEF u
    <3> HIDE DEF t
    <3>4. /\ trial'.attempts = trial.attempts + 1
          /\ trial'.done[Oracle] = "no" => trial'.attempts < MaxAttempts
          /\ \A o \in StatusOracle : o # Oracle => trial'.done[o] = trial.done[o]
      BY <1>1, <2>1, <3>2, <3>3, AttemptedGoes
    <3>5. Polled
      BY <1>1, <2>1, <3>4 DEF Polled
    <3> QED
      BY <1>1, <1>4, <2>1, <3>4, <3>5
  <2>3. CASE Ask /\ trial' = [trial EXCEPT !.attempts = @ + 1]
    <3>1. trial'.attempts = trial.attempts + 1 /\ trial'.done = trial.done /\ Asking'
      BY <1>1, <2>3, AskAsks DEF Trial
    <3>2. Polled
      BY <1>1, <3>1 DEF Polled
    <3> QED
      BY <1>1, <1>4, <2>1, <3>1, <3>2
  <2>4. CASE trial' = [trial EXCEPT !.done[Oracle] = "error", !.clean = FALSE]
    <3>1. /\ trial'.attempts = trial.attempts /\ trial'.done[Oracle] = "error"
          /\ \A o \in StatusOracle : o # Oracle => trial'.done[o] = trial.done[o]
      BY <1>1, <2>4 DEF Trial
    <3>2. Polled
      BY <1>1, <2>1, <3>1 DEF Polled
    <3> QED
      BY <1>1, <1>4, <2>1, <3>1, <3>2
  <2> QED
    BY <1>6, <2>2, <2>3, <2>4 DEF PollDirect
<1> QED
  BY <1>3, <1>5, <1>6

(* The end of an attempt, with an answer or without.                         *)
LEMMA ShownGoes ==
  ASSUME SweepInv, AttemptOrder, NEW h \in handlers, h.live,
         NEW obs \in [decision : Decision, reason : Reason],
         NEW truth \in {"nothing", "good", "revoked"},
         Shown(h, obs, truth), \A g \in handlers' : ~g.live, UNCHANGED series
  PROVE  Goes
<1>1. /\ trial \in Trial /\ trial.attempts \in Nat /\ MaxAttempts \in Nat /\ Oracle \in StatusOracle
      /\ h.fault \in Int /\ UNCHANGED <<at, stats>>
  BY ChaosAssumption DEF SweepInv, TypeOK, Trial, StatusOracle, series
<1>2. Asking /\ ~Asking'
  BY DEF Asking
<1>3. CASE pc = "asked"
  <2> DEFINE t == Seen(Oracle, obs, truth, Good)
  <2>1. t \in Trial /\ t.attempts = trial.attempts /\ t.done = trial.done
    BY <1>1 DEF Seen, Trial
  <2>2. trial' = [t EXCEPT !.held = h.fault] /\ pc' = "revoke"
    BY <1>3 DEF Shown
  <2> HIDE DEF t
  <2>3. trial'.attempts = 0 /\ trial'.done[Oracle] = "no"
    BY <1>1, <1>3, <2>1, <2>2 DEF Trial, AttemptOrder
  <2>4. AttemptOrder' /\ InTrial /\ InTrial' /\ TrialNo(pc) < TrialNo(pc')
    BY <1>1, <1>3, <2>2, <2>3 DEF AttemptOrder, InTrial, TrialNo
  <2> QED
    BY <1>1, <2>4 DEF Goes, Forward
<1>4. CASE pc = "poll"
  <2> DEFINE t == Seen(Oracle, obs, truth, Revoked)
  <2>1. t \in Trial /\ t.attempts = trial.attempts /\ t.done = trial.done
    BY <1>1 DEF Seen, Trial
  <2>2. trial' = Attempted(t) /\ pc' = pc
    BY <1>4 DEF Shown
  <2>3. trial.done[Oracle] = "no" /\ trial.attempts =< MaxAttempts
    BY <1>4 DEF SweepInv, RequestOrder, AttemptOrder
  <2> HIDE DEF t
  <2>4. /\ trial'.attempts = trial.attempts
        /\ trial'.done[Oracle] = "no" => trial'.attempts < MaxAttempts
        /\ \A o \in StatusOracle : o # Oracle => trial'.done[o] = trial.done[o]
    BY <2>1, <2>2, <2>3, AttemptedGoes
  <2>5. Polled
    BY <1>1, <1>2, <2>3, <2>4 DEF Polled
  <2>6. AttemptOrder'
    BY <1>4, <2>2, <2>3, <2>4 DEF AttemptOrder
  <2> QED
    BY <1>1, <1>4, <2>2, <2>5, <2>6 DEF Goes, Forward
<1> QED
  BY <1>3, <1>4 DEF Shown

(* The proxy, the interrupt and Serve move the sweep by answers only.        *)
LEMMA ProxyGoes ==
  ASSUME SweepInv, AttemptOrder,
         \/ Arrive \/ Elapse \/ Abandoned \/ Upstream \/ GiveUp \/ Interrupt \/ ServeReturns
         \/ UNCHANGED vars
  PROVE  Goes
<1>1. \A g, h \in handlers : g.live /\ h.live => g = h
  BY DEF SweepInv, RequestOrder
<1>2. CASE Arrive \/ Elapse \/ Abandoned
  <2>1. UNCHANGED <<pc, at, stats, trial>>
    BY <1>2 DEF Arrive, Elapse, Abandoned, series
  <2>2. Asking' <=> Asking
    <3>1. ASSUME NEW h \in handlers, NEW g, g.live = h.live, handlers' = (handlers \ {h}) \cup {g}
          PROVE  Asking' <=> Asking
      BY <3>1 DEF Asking
    <3>2. ASSUME NEW h \in handlers, ~h.live, handlers' = handlers \ {h}
          PROVE  Asking' <=> Asking
      BY <3>2 DEF Asking
    <3>3. \A h \in handlers : h \in [own : Int, fault : Int, st : {"arriving", "waiting", "upstream"}, live : BOOLEAN]
      BY DEF SweepInv, TypeOK
    <3>4. CASE Arrive
      <4>1. PICK h \in handlers :
              handlers' = (handlers \ {h}) \cup
                {[h EXCEPT !.fault = fault, !.st = IF fault = 0 THEN "upstream" ELSE "waiting"]}
        BY <3>4 DEF Arrive
      <4> DEFINE g == [h EXCEPT !.fault = fault, !.st = IF fault = 0 THEN "upstream" ELSE "waiting"]
      <4>2. g.live = h.live
        BY <3>3
      <4>3. handlers' = (handlers \ {h}) \cup {g}
        BY <4>1
      <4> HIDE DEF g
      <4> QED
        BY <3>1, <4>2, <4>3
    <3>5. CASE Elapse
      <4>1. PICK h \in handlers : handlers' = (handlers \ {h}) \cup {[h EXCEPT !.st = "upstream"]}
        BY <3>5 DEF Elapse, Handling
      <4> DEFINE g == [h EXCEPT !.st = "upstream"]
      <4>2. g.live = h.live
        BY <3>3
      <4>3. handlers' = (handlers \ {h}) \cup {g}
        BY <4>1
      <4> HIDE DEF g
      <4> QED
        BY <3>1, <4>2, <4>3
    <3>6. CASE Abandoned
      BY <3>2, <3>6 DEF Abandoned, Handled
    <3> QED
      BY <1>2, <3>4, <3>5, <3>6
  <2> QED
    BY <2>1, <2>2, StandsStill
<1>3. CASE Interrupt \/ ServeReturns \/ UNCHANGED vars
  <2>1. UNCHANGED <<pc, at, stats, handlers, trial.attempts, trial.done>>
    BY <1>3 DEF Interrupt, ServeReturns, vars, series, SweepInv, TypeOK, Trial
  <2>2. Asking' <=> Asking
    BY <2>1 DEF Asking
  <2> QED
    BY <2>1, <2>2, StandsStill
<1>4. CASE GiveUp
  <2>1. PICK h \in handlers :
          /\ h.live /\ handlers' = (handlers \ {h}) \cup {[h EXCEPT !.live = FALSE]}
          /\ Shown(h, NetworkFailure, "nothing")
    BY <1>4 DEF GiveUp
  <2>2. \A g \in handlers' : ~g.live
    <3>1. h \in [own : Int, fault : Int, st : {"arriving", "waiting", "upstream"}, live : BOOLEAN]
      BY DEF SweepInv, TypeOK
    <3>2. [h EXCEPT !.live = FALSE].live = FALSE
      BY <3>1
    <3> QED
      BY <1>1, <2>1, <3>2
  <2>3. NetworkFailure \in [decision : Decision, reason : Reason]
    BY Observations DEF Refusal, NetworkFailure, Observation
  <2> QED
    BY <1>4, <2>1, <2>2, <2>3, ShownGoes DEF GiveUp
<1>5. CASE Upstream
  <2>1. PICK h \in handlers, a \in Answers :
          /\ h.live /\ handlers' = handlers \ {h}
          /\ Shown(h, opensslOCSPDirect(a), OCSPTruth(a))
    BY <1>5 DEF Upstream, Handled
  <2>2. \A g \in handlers' : ~g.live
    BY <1>1, <2>1
  <2>3. /\ opensslOCSPDirect(a) \in [decision : Decision, reason : Reason]
        /\ OCSPTruth(a) \in {"nothing", "good", "revoked"}
    BY OCSPOracleSound, ChaosAssumption
  <2> QED
    BY <1>5, <2>1, <2>2, <2>3, ShownGoes DEF Upstream
<1> QED
  BY <1>2, <1>3, <1>4, <1>5

(* Every step.                                                               *)
LEMMA GoesOn == SweepInv /\ AttemptOrder /\ [Next]_vars => Goes
  BY OuterGoes, RecordGoes, CycleGoes, PollGoes, ProxyGoes DEF Next, Main, Proxy

(* No cycle of a sweep polls more often than its configuration allows, and   *)
(* while the preflight is waited for its request is there (pollOne).         *)
THEOREM AttemptsBounded == Spec => []AttemptOrder
<1>1. Init => AttemptOrder
  BY ChaosAssumption DEF Init, AttemptOrder, Begun
<1>2. SweepInv /\ AttemptOrder /\ [Next]_vars => AttemptOrder'
  BY GoesOn DEF Goes
<1> QED
  BY <1>1, <1>2, SweepInvariance, PTL DEF Spec

(* The sweep only goes forward: the half of SweepEnds that needs no fairness.*)
THEOREM SweepGoesForward == Spec => OnlyForward
<1>1. SweepInv /\ AttemptOrder /\ [Next]_vars => [Forward \/ UNCHANGED Position]_vars
  BY GoesOn DEF Goes
<1> QED
  BY <1>1, SweepInvariance, AttemptsBounded, PTL DEF Spec, OnlyForward
=============================================================================
