-------------------------- MODULE CredentialRenewal --------------------------
(***************************************************************************)
(* A service that keeps its credentials alive on its own: maintainToken    *)
(* renews the Vault token and logs in again when it cannot be renewed any  *)
(* more, and renewalController replaces the client certificate, which      *)
(* needs a live token.  Vault goes down and comes back at any time.        *)
(* demo-api runs both loops; revocation-probe runs the first.              *)
(*                                                                         *)
(* Time is in ticks, and every timer counts down: no tick passes over a    *)
(* timer that is due.  A request that hangs is an outage of that length.   *)
(***************************************************************************)
EXTENDS Naturals

CONSTANTS
  TokenTTL, TokenMaxTTL,   \* of the tokens that AppRole login returns
  Grace,                   \* the watcher gives up when less than this is left
  LoginPause,              \* ten seconds
  CertTTL,                 \* of a client certificate
  Minute, Near,            \* the shortest wait; five minutes
  First, Fast, MaxBackoff  \* one second; fifteen seconds; a minute

ASSUME RenewalAssumption ==
  /\ {TokenTTL, TokenMaxTTL, Grace, LoginPause, CertTTL, Minute, Near, First, Fast, MaxBackoff}
       \subseteq Nat \ {0}
  /\ Grace < TokenTTL /\ TokenTTL <= TokenMaxTTL
  /\ First <= Fast /\ Fast <= MaxBackoff /\ MaxBackoff < Near
  /\ Minute < CertTTL

VARIABLES
  up,          \* Vault answers
  upFor,       \* for how long it has, up to LongUp (history)
  cancelled,   \* ctx is done
  tokenLeft,   \* the life left in the token,
  maxLeft,     \*   and in the last renewal of it
  maintainer,  \* where maintainToken is
  pause,       \* the time left until its next login
  certLeft,    \* the life left in the certificate
  controller,  \* where renewalController is
  timer,       \* the time left until its timer fires
  backoff      \* the wait after the last failure

vault == <<up, upFor>>
token == <<tokenLeft, maxLeft, maintainer, pause>>
cert == <<certLeft, controller, timer, backoff>>
vars == <<vault, cancelled, token, cert>>

Smaller(m, n) == IF m < n THEN m ELSE n
Larger(m, n) == IF m < n THEN n ELSE m
Minus1(n) == IF n = 0 THEN 0 ELSE n - 1

LongUp == LoginPause + MaxBackoff + 1

TypeOK ==
  /\ up \in BOOLEAN /\ upFor \in 0..LongUp
  /\ cancelled \in BOOLEAN
  /\ tokenLeft \in 0..TokenTTL /\ maxLeft \in 0..TokenMaxTTL
  /\ maintainer \in {"watching", "login", "pausing", "returned"}
  /\ pause \in 0..LoginPause
  /\ certLeft \in 0..CertTTL
  /\ controller \in {"waiting", "issuing", "retrying", "returned"}
  /\ timer \in 0..Larger(CertTTL, MaxBackoff)
  /\ backoff \in 1..MaxBackoff

(* Slip: the fraction is the wrong way round.                                *)
WaitInverted(left) == Larger((left * 3) \div 2, Minute)

(* How long a fresh certificate is left alone: two thirds of its life.       *)
Wait(left) == Larger((left * 2) \div 3, Minute)

(* After the first login and the first certificate, without which main ends. *)
Init ==
  /\ up = TRUE /\ upFor = 0
  /\ cancelled = FALSE
  /\ tokenLeft = TokenTTL /\ maxLeft = TokenMaxTTL
  /\ maintainer = "watching" /\ pause = 0
  /\ certLeft = CertTTL
  /\ controller = "waiting" /\ timer = Wait(CertTTL)
  /\ backoff = First
-----------------------------------------------------------------------------
(* Vault, the operator and the clock                                         *)

Fails == up /\ up' = FALSE /\ upFor' = 0 /\ UNCHANGED <<cancelled, token, cert>>
Recovers == ~up /\ up' = TRUE /\ UNCHANGED <<upFor, cancelled, token, cert>>
Cancel == ~cancelled /\ cancelled' = TRUE /\ UNCHANGED <<vault, token, cert>>

MaintainerDue ==
  \/ maintainer = "watching" /\ tokenLeft <= Grace
  \/ maintainer = "login"
  \/ maintainer = "pausing" /\ pause = 0
  \/ maintainer # "returned" /\ cancelled
ControllerDue ==
  \/ controller = "issuing"
  \/ controller \in {"waiting", "retrying"} /\ (timer = 0 \/ cancelled)

Tick ==
  /\ ~MaintainerDue /\ ~ControllerDue
  /\ upFor' = IF up THEN Smaller(upFor + 1, LongUp) ELSE 0
  /\ tokenLeft' = Minus1(tokenLeft) /\ maxLeft' = Minus1(maxLeft)
  /\ pause' = Minus1(pause)
  /\ certLeft' = Minus1(certLeft)
  /\ timer' = Minus1(timer)
  /\ UNCHANGED <<up, cancelled, maintainer, controller, backoff>>
-----------------------------------------------------------------------------
(* maintainToken                                                             *)

(* The watcher extends the lease, never beyond the token's maximal life.     *)
Renewed ==
  /\ maintainer = "watching"
  /\ up /\ tokenLeft > 0 /\ tokenLeft < Smaller(TokenTTL, maxLeft)
  /\ tokenLeft' = Smaller(TokenTTL, maxLeft)
  /\ UNCHANGED <<vault, cancelled, maxLeft, maintainer, pause, cert>>

(* The watcher is done, for an error or because the lease cannot be extended *)
(* any more; it has been at work for some time.                              *)
WatcherDone ==
  /\ maintainer = "watching"
  /\ tokenLeft < TokenTTL
  /\ maintainer' = "login"
  /\ UNCHANGED <<vault, cancelled, tokenLeft, maxLeft, pause, cert>>

Login ==
  /\ maintainer = "login"
  /\ up /\ ~cancelled
  /\ tokenLeft' = TokenTTL /\ maxLeft' = TokenMaxTTL
  /\ maintainer' = "watching"
  /\ UNCHANGED <<vault, cancelled, pause, cert>>

(* Slip: a failed login ends the goroutine.                                  *)
LoginFailsForGood ==
  /\ maintainer = "login"
  /\ ~up /\ ~cancelled
  /\ maintainer' = "returned"
  /\ UNCHANGED <<vault, cancelled, tokenLeft, maxLeft, pause, cert>>

LoginFails ==
  /\ maintainer = "login"
  /\ ~up /\ ~cancelled
  /\ maintainer' = "pausing"
  /\ pause' = LoginPause
  /\ UNCHANGED <<vault, cancelled, tokenLeft, maxLeft, cert>>

LoginAgain ==
  /\ maintainer = "pausing"
  /\ pause = 0
  /\ maintainer' = "login"
  /\ UNCHANGED <<vault, cancelled, tokenLeft, maxLeft, pause, cert>>

(* ctx.Done is received in both selects and looked at before each login.     *)
MaintainerReturns ==
  /\ maintainer # "returned"
  /\ cancelled
  /\ maintainer' = "returned"
  /\ UNCHANGED <<vault, cancelled, tokenLeft, maxLeft, pause, cert>>

Maintain == Renewed \/ WatcherDone \/ Login \/ LoginFails \/ LoginAgain \/ MaintainerReturns
-----------------------------------------------------------------------------
(* renewalController                                                         *)

TimerFires ==
  /\ controller \in {"waiting", "retrying"}
  /\ timer = 0
  /\ backoff' = IF controller = "waiting" THEN First ELSE backoff
  /\ controller' = "issuing"
  /\ UNCHANGED <<vault, cancelled, token, certLeft, timer>>

(* issueCertificate replaces the certificate, and the next wait begins.      *)
Issue ==
  /\ controller = "issuing"
  /\ up /\ tokenLeft > 0 /\ ~cancelled
  /\ certLeft' = CertTTL
  /\ timer' = Wait(CertTTL)
  /\ controller' = "waiting"
  /\ UNCHANGED <<vault, cancelled, token, backoff>>

(* Slip: the wait doubles however little is left.                            *)
BackoffDoubled(left, b) == Smaller(2 * b, MaxBackoff)

Backoff(left, b) ==
  IF left = 0 THEN First
  ELSE IF left < Near THEN Smaller(b, Fast)
  ELSE Smaller(2 * b, MaxBackoff)

IssueFails ==
  /\ controller = "issuing"
  /\ ~up \/ tokenLeft = 0 \/ cancelled
  /\ backoff' = Backoff(certLeft, backoff)
  /\ timer' = backoff'
  /\ controller' = "retrying"
  /\ UNCHANGED <<vault, cancelled, token, certLeft>>

(* Slip: only the wait for the renewal time is interrupted.                  *)
ControllerReturnsIdle ==
  /\ controller = "waiting"
  /\ cancelled
  /\ controller' = "returned"
  /\ UNCHANGED <<vault, cancelled, token, certLeft, timer, backoff>>

ControllerReturns ==
  /\ controller \in {"waiting", "retrying"}
  /\ cancelled
  /\ controller' = "returned"
  /\ UNCHANGED <<vault, cancelled, token, certLeft, timer, backoff>>

Control == TimerFires \/ Issue \/ IssueFails \/ ControllerReturns

Next == Fails \/ Recovers \/ Cancel \/ Tick \/ Maintain \/ Control

(* Time passes and both goroutines run.  Vault need never recover and nobody *)
(* has to stop the service.                                                  *)
Spec == Init /\ [][Next]_vars /\ WF_vars(Tick) /\ WF_vars(Maintain) /\ WF_vars(Control)
-----------------------------------------------------------------------------
(* The inductive invariant of CredentialRenewalProofs                        *)

(* Before the signal, a watched token lives, and a lapsed one is replaced    *)
(* within the pause that the outage has left behind.                         *)
TokenClock ==
  /\ maintainer # "returned"
  /\ maintainer = "watching" => tokenLeft > 0
  /\ maintainer = "login" => tokenLeft > 0 \/ upFor <= LoginPause
  /\ maintainer = "pausing" => pause + upFor <= LoginPause

(* And a certificate outlives the wait for its renewal, or the wait for the  *)
(* next attempt began while there was no token and is a short one.           *)
CertClock ==
  /\ controller # "returned"
  /\ controller = "waiting" => timer < certLeft
  /\ controller = "retrying" => timer < certLeft \/ timer + upFor <= LoginPause + Fast
  /\ controller = "issuing" => certLeft > 0 \/ upFor <= LoginPause + Fast

(* What is left of every timer and how long Vault has been back are tied     *)
(* together (maintainToken, renewalController).                              *)
RenewalInv ==
  /\ TypeOK
  /\ ~up => upFor = 0
  /\ ~cancelled => TokenClock /\ CertClock
-----------------------------------------------------------------------------
(* Once Vault has answered for longer than the pause between two logins the  *)
(* service has a live token again, whatever lapsed before ("Without the      *)
(* re-login path, the long-running probe silently stops working after        *)
(* token_max_ttl", maintainToken).                                           *)
TokenRecovers == ~cancelled /\ upFor > LoginPause => tokenLeft > 0

(* Once Vault has answered for longer than that pause and the short backoff  *)
(* together, the certificate is valid, even if it had expired: it is renewed *)
(* in time when Vault stays up, and "retries accelerate as expiry            *)
(* approaches" (renewalController).                                          *)
CertRecovers == ~cancelled /\ upFor > LoginPause + Fast => certLeft > 0

(* If Vault is up for good, the service has a live token and a valid         *)
(* certificate for good: renewal is never abandoned "because a single Vault  *)
(* outage happened at the normal renewal deadline" (renewalController).      *)
NeverAbandoned ==
  <>[](up /\ ~cancelled) => <>[](tokenLeft > 0 /\ certLeft > 0)

(* After the signal both goroutines return, also in the middle of an outage. *)
Stops == cancelled ~> maintainer = "returned" /\ controller = "returned"
=============================================================================
