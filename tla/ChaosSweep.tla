----------------------------- MODULE ChaosSweep -----------------------------
(***************************************************************************)
(* `probe chaos sweep`: a reverse proxy that delays the OCSP responder, and *)
(* the sweep that sets a delay, runs a series of trials under it and counts *)
(* what the direct OCSP oracle made of each.  A trial is a probe cycle of   *)
(* its own canary, seen from the two status oracles; the rest of the cycle  *)
(* (ProbeCycle) shows here as the ways in which it can fail.  A request     *)
(* that the oracle gave up stays in the proxy until the proxy notices.      *)
(***************************************************************************)
EXTENDS StatusOracles, Sequences, FiniteSets

CONSTANTS
  DelayLists,       \* the lists of delays a sweep may be asked for
  Trials,           \* trials per delay
  MaxAttempts,      \* cfg.MaxAttempts, which here stands for MaxWait as well
  PreflightMaxAge,  \* cfg.PreflightMaxAge, in the unit of the delays
  Enabled,          \* the enabled profiles
  Answers,          \* what the OCSP responder and its network can answer
  CRLAnswers,       \* what a download of the CRL can bring
  MaxHeld           \* bound on the abandoned requests in the proxy

Oracle == "openssl-ocsp-direct"
StatusOracle == {Oracle, "crl-check"}

ASSUME ChaosAssumption ==
  /\ DelayLists \subseteq Seq(Int)
  /\ Trials \in Nat \ {0} /\ MaxAttempts \in Nat \ {0} /\ PreflightMaxAge \in Nat \ {0}
  /\ MaxHeld \in Nat
  /\ Oracle \in Enabled
  /\ Answers \subseteq Answer(OCSPResponse) /\ CRLAnswers \subseteq Answer(CRL)

VARIABLES
  pc,           \* where the command is
  delays,       \* delaysMS
  at,           \* the delay of the series under way
  interrupted,  \* the context is cancelled
  outcome,      \* what SweepDetailed returned
  fault,        \* proxy.fault, by its delay; 0 is pass-through
  handlers,     \* the requests in the proxy
  serving,      \* the goroutine of Serve has not sent to proxy.done
  trial,        \* the cycle under way
  stats,        \* the series' SweepStats
  Stats,        \* result.Stats
  log           \* result.Trials

command == <<delays, interrupted>>
series == <<at, stats>>
result == <<outcome, Stats, log>>
proxy == <<fault, serving>>
vars == <<pc, command, series, result, proxy, handlers, trial>>

delay == delays[at]

NoObs == [obs |-> HarnessError, truth |-> "nothing"]
(* clean: nothing of this cycle failed; held: for how long the proxy held    *)
(* the preflight's request; attempts: the polls of the direct oracle; seen:  *)
(* each oracle's last observation with what the answer showed; done: the     *)
(* oracles that delivered a result, by whether the result carries an error.  *)
Begun == [clean |-> TRUE, held |-> 0, attempts |-> 0,
          seen |-> [o \in StatusOracle |-> NoObs],
          done |-> [o \in StatusOracle |-> "no"]]

NoStats == [attempted |-> 0, valid |-> 0, harness |-> 0, failures |-> 0]

Init ==
  /\ pc = "check"
  /\ delays \in DelayLists
  /\ at = 1
  /\ interrupted = FALSE
  /\ outcome = "none"
  /\ fault = 0
  /\ handlers = {}
  /\ serving = TRUE
  /\ trial = Begun
  /\ stats = NoStats
  /\ Stats = [d \in {} |-> NoStats]
  /\ log = <<>>
----------------------------------------------------------------------------
(* SweepDetailed: the loop over the delays.                                 *)

(* Every return runs the deferred SetDelay(0).                               *)
Return(why) ==
  /\ pc' = "returned"
  /\ outcome' = why
  /\ fault' = 0

NextDelay ==
  /\ pc = "check"
  /\ \/ at > Len(delays) /\ Return("ok")
     \/ at =< Len(delays) /\ delay < 0 /\ Return("error")
     \/ at =< Len(delays) /\ delay >= 0 /\ interrupted /\ Return("interrupted")
     \/ /\ at =< Len(delays) /\ delay >= 0 /\ ~interrupted
        /\ pc' = "set"
        /\ UNCHANGED <<outcome, fault>>
  /\ UNCHANGED <<command, series, Stats, log, serving, handlers, trial>>

(* Slips: a zero delay is taken for nothing to set; the statistics go on.    *)
SetDelayNonzero ==
  /\ pc = "set"
  /\ fault' = IF delay > 0 THEN delay ELSE fault
  /\ stats' = NoStats
  /\ pc' = "trial"
  /\ UNCHANGED <<command, at, result, serving, handlers, trial>>
SetDelayKeepingStats ==
  /\ pc = "set"
  /\ fault' = delay
  /\ pc' = "trial"
  /\ UNCHANGED <<command, at, stats, result, serving, handlers, trial>>

SetDelay ==
  /\ pc = "set"
  /\ fault' = delay
  /\ stats' = NoStats
  /\ pc' = "trial"
  /\ UNCHANGED <<command, at, result, serving, handlers, trial>>

(* Slip: the decision is taken for that before the revocation.               *)
FailedUnlessAccept(t) == t.seen[Oracle].obs.decision # "ACCEPT"

(* What the closure of cmdChaos makes of the direct oracle's result.         *)
Valid(t) == t.done[Oracle] = "plain" /\ t.seen[Oracle].obs.decision # "HARNESS_ERROR"
Failed(t) == t.seen[Oracle].obs.decision # "REJECT"

(* A record, with what the properties ask of its trial (series and clean).   *)
Record(t) ==
  [delay |-> delay, valid |-> Valid(t), failed |-> Valid(t) /\ Failed(t),
   series |-> at, clean |-> t.clean]

(* SweepStats with one more trial; a harness error is in no denominator.     *)
Counted(t) ==
  [attempted |-> stats.attempted + 1,
   valid |-> stats.valid + (IF Valid(t) THEN 1 ELSE 0),
   harness |-> stats.harness + (IF Valid(t) THEN 0 ELSE 1),
   failures |-> stats.failures + (IF Valid(t) /\ Failed(t) THEN 1 ELSE 0)]

(* The trial returned: it is counted and logged, and after the last one of a *)
(* series the statistics enter the result, in the place of those of an       *)
(* earlier series with the same delay.                                       *)
RecordTrial ==
  /\ pc = "record"
  /\ log' = Append(log, Record(trial))
  /\ IF stats.attempted + 1 < Trials
     THEN /\ stats' = Counted(trial)
          /\ pc' = "trial"
          /\ UNCHANGED <<at, Stats>>
     ELSE /\ stats' = Counted(trial)
          /\ Stats' = [d \in DOMAIN Stats \cup {delay} |->
                        IF d = delay THEN Counted(trial) ELSE Stats[d]]
          /\ at' = at + 1
          /\ pc' = "check"
  /\ trial' = Begun
  /\ UNCHANGED <<command, outcome, proxy, handlers>>
----------------------------------------------------------------------------
(* RunOnce: one cycle.                                                      *)

(* validateEnabledRoles.                                                     *)
BothRoles == Enabled \cap StatusOracle # {} /\ Enabled \ StatusOracle # {}

(* The cycle ends without a result of the direct oracle: the closure returns *)
(* an error, which is a harness error.                                       *)
NoResult(t) ==
  /\ trial' = [t EXCEPT !.done[Oracle] = "error"]
  /\ pc' = "record"

(* A configuration without both roles is refused before anything is done;    *)
(* otherwise the issue may fail, as it does in a cancelled context.          *)
StartTrial ==
  /\ pc = "trial"
  /\ \/ NoResult([Begun EXCEPT !.clean = ~BothRoles])
     \/ BothRoles /\ ~interrupted /\ trial' = Begun /\ pc' = "preflight"
  /\ UNCHANGED <<command, series, result, proxy, handlers>>

(* An attempt of the direct oracle: it fetches the presented leaf, which a   *)
(* cancelled context prevents, and has openssl ask the proxy.                *)
Ask ==
  /\ Cardinality(handlers) =< MaxHeld
  /\ handlers' = handlers \cup
       {[own |-> delay, fault |-> 0, st |-> "arriving", live |-> TRUE]}

Asking == \E h \in handlers : h.live

Preflight ==
  /\ pc = "preflight"
  /\ \/ /\ NoResult([trial EXCEPT !.clean = FALSE])
        /\ UNCHANGED handlers
     \/ /\ ~interrupted
        /\ Ask
        /\ pc' = "asked"
        /\ UNCHANGED trial
  /\ UNCHANGED <<command, series, result, proxy>>

(* What an attempt showed; the trial stays clean when it is the observation  *)
(* the scenario expects.                                                     *)
Seen(o, obs, truth, expected) ==
  [trial EXCEPT !.seen[o] = [obs |-> obs, truth |-> truth], !.clean = @ /\ obs = expected]

(* preflightObservedMono holds the start of the probe: the time the proxy    *)
(* held the request for is part of the age, with what passes around it.      *)
Age(idle) == trial.held + idle

(* validatePreflightAge, and the revocation.  In a clean cycle one unit      *)
(* passes beside the delay.                                                  *)
Revoke ==
  /\ pc = "revoke"
  /\ \E idle \in {1, PreflightMaxAge + 1} :
       LET t == [trial EXCEPT !.clean = @ /\ idle = 1]
       IN  \/ /\ trial.seen[Oracle].obs = Good
              /\ Age(idle) =< PreflightMaxAge
              /\ ~interrupted
              /\ trial' = [t EXCEPT !.seen[Oracle] = NoObs, !.held = 0]
              /\ pc' = "poll"
           \/ /\ trial.seen[Oracle].obs # Good \/ Age(idle) > PreflightMaxAge
              /\ NoResult(t)
           \/ NoResult([t EXCEPT !.clean = FALSE])
  /\ UNCHANGED <<command, series, result, proxy, handlers>>

(* exhaustedResult carries an error for a harness error only.                *)
Exhausted(o, t) ==
  [t EXCEPT !.done[o] = IF t.seen[o].obs = HarnessError THEN "error" ELSE "plain"]

(* The end of an attempt in pollOne: the expected observation, the budget    *)
(* spent, or a wait for the next one.                                        *)
Attempted(t) ==
  IF t.seen[Oracle].obs = Revoked THEN [t EXCEPT !.done[Oracle] = "plain"]
  ELSE IF t.attempts = MaxAttempts THEN Exhausted(Oracle, t) ELSE t

PollDirect ==
  /\ pc = "poll" /\ trial.done[Oracle] = "no" /\ ~Asking
  /\ \/ /\ trial' = Attempted([Seen(Oracle, HarnessError, "nothing", Revoked)
                                  EXCEPT !.attempts = @ + 1])
        /\ UNCHANGED handlers
     \/ /\ ~interrupted
        /\ Ask
        /\ trial' = [trial EXCEPT !.attempts = @ + 1]
     \/ /\ interrupted /\ trial.attempts > 0
        /\ trial' = [trial EXCEPT !.done[Oracle] = "error", !.clean = FALSE]
        /\ UNCHANGED handlers
  /\ UNCHANGED <<pc, command, series, result, proxy>>

(* crl-check downloads from the CA itself; what its last attempt brought.    *)
(* It shares nothing with the direct oracle but the end of the cycle, so its *)
(* result is drawn when that one is there.                                   *)
PollCRL ==
  /\ pc = "poll" /\ trial.done[Oracle] # "no"
  /\ "crl-check" \in Enabled /\ trial.done["crl-check"] = "no"
  /\ \/ \E a \in CRLAnswers :
          trial' = Exhausted("crl-check",
            [trial EXCEPT !.seen["crl-check"] = [obs |-> crlCheck(a), truth |-> CRLTruth(a)]])
     \/ trial' = [trial EXCEPT !.done["crl-check"] = "error"]
  /\ UNCHANGED <<pc, command, series, result, proxy, handlers>>

(* Of the report's results the closure looks at the direct oracle's only.    *)
EndTrial ==
  /\ pc = "poll"
  /\ \A o \in StatusOracle \cap Enabled : trial.done[o] # "no"
  /\ pc' = "record"
  /\ trial' = [trial EXCEPT !.seen["crl-check"] = NoObs, !.attempts = 0]
  /\ UNCHANGED <<command, series, result, proxy, handlers>>

(* The attempt under way shows `obs`.                                        *)
Shown(h, obs, truth) ==
  \/ /\ pc = "asked"
     /\ trial' = [Seen(Oracle, obs, truth, Good) EXCEPT !.held = h.fault]
     /\ pc' = "revoke"
  \/ /\ pc = "poll"
     /\ trial' = Attempted(Seen(Oracle, obs, truth, Revoked))
     /\ UNCHANGED pc

(* The attempt's context ends: openssl is killed, the request abandoned.     *)
GiveUp ==
  /\ \E h \in handlers :
       /\ h.live
       /\ handlers' = (handlers \ {h}) \cup {[h EXCEPT !.live = FALSE]}
       /\ Shown(h, NetworkFailure, "nothing")
  /\ UNCHANGED <<command, series, result, proxy>>

Interrupt ==
  /\ ~interrupted /\ pc \notin {"returned", "shutdown", "serve", "closed"}
  /\ interrupted' = TRUE
  /\ trial' = [trial EXCEPT !.clean = FALSE]
  /\ UNCHANGED <<pc, delays, series, result, proxy, handlers>>
----------------------------------------------------------------------------
(* The proxy.                                                               *)

Handling(h, next) == handlers' = (handlers \ {h}) \cup {[h EXCEPT !.st = next]}
Handled(h) == handlers' = handlers \ {h}

(* The handler takes the fault of the moment, once.                          *)
Arrive ==
  /\ \E h \in handlers :
       /\ h.st = "arriving"
       /\ handlers' = (handlers \ {h}) \cup
            {[h EXCEPT !.fault = fault, !.st = IF fault = 0 THEN "upstream" ELSE "waiting"]}
  /\ UNCHANGED <<pc, command, series, result, proxy, trial>>

(* waitForRequest: the timer fires, or the client is gone.                   *)
Elapse ==
  /\ \E h \in handlers : h.st = "waiting" /\ Handling(h, "upstream")
  /\ UNCHANGED <<pc, command, series, result, proxy, trial>>

Abandoned ==
  /\ \E h \in handlers : ~h.live /\ Handled(h)
  /\ UNCHANGED <<pc, command, series, result, proxy, trial>>

(* The responder answers, or the proxy for it; only the client that still    *)
(* waits is told.                                                            *)
Upstream ==
  /\ \E h \in handlers, a \in Answers :
       /\ h.st = "upstream" /\ h.live
       /\ Handled(h)
       /\ Shown(h, opensslOCSPDirect(a), OCSPTruth(a))
  /\ UNCHANGED <<command, series, result, proxy>>
----------------------------------------------------------------------------
(* LatencyProxy.Close, which cmdChaos defers: Shutdown closes the listener   *)
(* and waits for the handlers until its context ends.                        *)

Shutdown ==
  /\ pc = "returned"
  /\ pc' = "shutdown"
  /\ UNCHANGED <<command, series, result, proxy, handlers, trial>>

ServeReturns ==
  /\ pc \in {"shutdown", "serve"} /\ serving
  /\ serving' = FALSE
  /\ UNCHANGED <<pc, command, series, result, fault, handlers, trial>>

(* Slip: Shutdown is given a context without a deadline.                     *)
ShutdownEndsIdle ==
  /\ pc = "shutdown" /\ handlers = {}
  /\ pc' = "serve"
  /\ UNCHANGED <<command, series, result, fault, serving, handlers, trial>>

ShutdownEnds ==
  /\ pc = "shutdown"
  /\ pc' = "serve"
  /\ UNCHANGED <<command, series, result, fault, serving, handlers, trial>>

Close ==
  /\ pc = "serve" /\ ~serving
  /\ pc' = "closed"
  /\ UNCHANGED <<command, series, result, proxy, handlers, trial>>

Main == \/ NextDelay \/ SetDelay \/ RecordTrial \/ StartTrial \/ Preflight \/ Revoke
        \/ PollDirect \/ PollCRL \/ EndTrial \/ Shutdown \/ ShutdownEnds \/ Close
Proxy == Arrive \/ Elapse \/ Abandoned \/ Upstream

Next == Main \/ Proxy \/ ServeReturns \/ GiveUp \/ Interrupt

(* The command runs on, an attempt ends at its timeout, and Serve returns    *)
(* once the listener is closed.  Of the responder, and of the handlers that  *)
(* wait for it, nothing is assumed.                                          *)
Spec == Init /\ [][Next]_vars /\ WF_vars(Main) /\ WF_vars(GiveUp) /\ WF_vars(ServeReturns)
----------------------------------------------------------------------------
(* An oracle reports REVOKED exactly when the document it was given shows a  *)
(* present revocation of the leaf, and ACCEPT exactly when one shows it good *)
(* (opensslOCSPDirect and crlCheck, with their temporal policies).           *)
OracleTruthful ==
  \A o \in StatusOracle : Truthful(trial.seen[o].obs, trial.seen[o].truth)

(* The request an oracle waits for is held for the delay of its own series,  *)
(* however many abandoned requests of earlier series the proxy still has     *)
(* ("SetDelay changes the delay applied to requests that arrive afterward"). *)
OwnDelay ==
  \A h \in handlers : h.live /\ h.st # "arriving" => h.fault = delay

(* The trials of a series in the log, counted afresh.                        *)
Of(i) == {k \in DOMAIN log : log[k].series = i}
Tally(i) ==
  [attempted |-> Cardinality(Of(i)),
   valid |-> Cardinality({k \in Of(i) : log[k].valid}),
   harness |-> Cardinality({k \in Of(i) : ~log[k].valid}),
   failures |-> Cardinality({k \in Of(i) : log[k].failed})]

(* The statistics of a delay are those of the trials in the log of the last  *)
(* series with that delay, harness errors counted apart (SweepDetailed).     *)
StatsOfLastSeries ==
  \A d \in DOMAIN Stats :
    /\ Stats[d].attempted = Trials
    /\ \E i \in 1..(at - 1) :
         /\ delays[i] = d /\ \A j \in (i + 1)..(at - 1) : delays[j] # d
         /\ Stats[d] = Tally(i)

(* A trial is recorded as a harness error only for a failure in its cycle,   *)
(* and a cycle without one confirms the revocation, when its delay leaves    *)
(* room in the preflight's age bound (TrialOutcome).                         *)
CleanTrialsConfirm ==
  \A k \in DOMAIN log :
    log[k].clean /\ log[k].delay < PreflightMaxAge => log[k].valid /\ ~log[k].failed

(* Why these hold.                                                           *)
Trial ==
  [clean : BOOLEAN, held : Int, attempts : Nat,
   seen : [StatusOracle -> [obs : [decision : Decision, reason : Reason],
                            truth : {"nothing", "good", "revoked"}]],
   done : [StatusOracle -> {"no", "plain", "error"}]]
Entry == [delay : Int, valid : BOOLEAN, failed : BOOLEAN, series : Nat \ {0}, clean : BOOLEAN]

TypeOK ==
  /\ pc \in {"check", "set", "trial", "preflight", "asked", "revoke", "poll", "record",
             "returned", "shutdown", "serve", "closed"}
  /\ delays \in Seq(Int) /\ at \in Nat \ {0} /\ fault \in Int
  /\ interrupted \in BOOLEAN /\ serving \in BOOLEAN
  /\ outcome \in {"none", "ok", "error", "interrupted"}
  /\ handlers \subseteq
       [own : Int, fault : Int, st : {"arriving", "waiting", "upstream"}, live : BOOLEAN]
  /\ trial \in Trial
  /\ log \in Seq(Entry)

(* The series' delay is in force, and a trial waits for at most one request. *)
InTrial == pc \in {"trial", "preflight", "asked", "revoke", "poll", "record"}
RequestOrder ==
  /\ pc = "set" \/ InTrial => at =< Len(delays)
  /\ InTrial => fault = delay
  /\ \A g, h \in handlers : g.live /\ h.live => g = h
  /\ \A h \in handlers : h.live => pc = "asked" \/ (pc = "poll" /\ trial.done[Oracle] = "no")

(* A clean trial has seen what the scenario expects.                         *)
Confirmed == trial.done[Oracle] = "plain" /\ trial.seen[Oracle].obs = Revoked
CleanOrder ==
  trial.clean =>
    /\ pc \in {"preflight", "asked", "revoke"} => trial.done[Oracle] = "no"
    /\ pc = "revoke" => trial.seen[Oracle].obs = Good /\ trial.held = delay
    /\ pc = "poll" => trial.done[Oracle] = "no" \/ Confirmed
    /\ pc = "record" /\ BothRoles /\ delay < PreflightMaxAge => Confirmed

(* The log is counted as it grows.                                           *)
LogOrder ==
  /\ \A k \in DOMAIN log : log[k].series < at \/ (log[k].series = at /\ InTrial)
  /\ InTrial => stats = Tally(at) /\ stats.attempted < Trials

SweepInv ==
  /\ TypeOK /\ RequestOrder /\ OwnDelay /\ OracleTruthful /\ LogOrder /\ StatsOfLastSeries
  /\ CleanOrder /\ (BothRoles => CleanTrialsConfirm)

(* A cycle polls only while its budget of attempts lasts, and a preflight    *)
(* that is waited for has its request in the proxy.                          *)
AttemptOrder ==
  /\ pc # "poll" => trial.attempts = 0
  /\ trial.attempts =< MaxAttempts
  /\ pc \in {"preflight", "asked", "revoke"} => trial.done[Oracle] = "no"
  /\ pc = "asked" => Asking
  /\ pc = "poll" /\ trial.done[Oracle] = "no" /\ ~Asking => trial.attempts < MaxAttempts

(* How far the command is, and a trial.                                      *)
CommandNo(s) ==
  CASE s = "check" -> 1 [] s = "set" -> 2 [] s = "returned" -> 4 [] s = "shutdown" -> 5
    [] s = "serve" -> 6 [] s = "closed" -> 7 [] OTHER -> 3
TrialNo(s) ==
  CASE s = "trial" -> 1 [] s = "preflight" -> 2 [] s = "asked" -> 3 [] s = "revoke" -> 4
    [] s = "poll" -> 5 [] OTHER -> 6

(* An attempt begins or ends, or an oracle delivers, which it does once.     *)
Polled ==
  /\ trial.attempts =< trial'.attempts
  /\ \A o \in StatusOracle : trial.done[o] # "no" => trial'.done[o] = trial.done[o]
  /\ \/ trial.attempts < trial'.attempts
     \/ Asking /\ ~Asking'
     \/ \E o \in StatusOracle : trial.done[o] = "no" /\ trial'.done[o] # "no"

Forward ==
  \/ at < at'
  \/ /\ at' = at
     /\ \/ CommandNo(pc) < CommandNo(pc')
        \/ InTrial /\ InTrial' /\ stats.attempted < stats'.attempted
        \/ InTrial /\ InTrial' /\ stats' = stats /\ TrialNo(pc) < TrialNo(pc')
        \/ pc = "poll" /\ pc' = "poll" /\ stats' = stats /\ Polled

Position == <<pc, at, stats, trial.attempts, trial.done, Asking>>

(* Whatever the responder, the handlers and the interrupt do, the sweep only *)
(* goes forward: to a later delay, a later trial of the series, a later step *)
(* of its cycle, a further attempt.  With the bounds of RequestOrder,        *)
(* LogOrder and AttemptOrder the command takes a bounded number of steps     *)
(* (SweepDetailed, pollOne).                                                 *)
OnlyForward == [][Forward \/ UNCHANGED Position]_vars

(* The command ends, interrupted or not, even if the responder never answers *)
(* and abandoned requests stay in the proxy (LatencyProxy.Close).            *)
SweepEnds == <>(pc = "closed")
=============================================================================
