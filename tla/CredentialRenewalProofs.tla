---------------------- MODULE CredentialRenewalProofs ----------------------
(***************************************************************************)
(* Proofs about CredentialRenewal for any lifetimes, pauses and backoffs   *)
(* that are ordered as the code's are (RenewalAssumption), and any pattern *)
(* of outages.                                                             *)
(***************************************************************************)
EXTENDS CredentialRenewal, TLAPS

(* A fresh certificate outlives the wait for its renewal.                    *)
LEMMA WaitShort == Wait(CertTTL) \in 0..(CertTTL - 1)
<1>1. CertTTL \in Nat \ {0} /\ Minute \in Nat \ {0} /\ Minute < CertTTL
  BY RenewalAssumption
<1>2. (CertTTL * 2) \div 3 \in 0..(CertTTL - 1)
  BY <1>1
<1> QED
  BY <1>1, <1>2 DEF Wait, Larger

(* A failed attempt is followed by one within the maximal backoff, and by    *)
(* one within the short backoff when the certificate is about to lapse.      *)
LEMMA BackoffBounds ==
  ASSUME NEW left \in Nat, NEW b \in 1..MaxBackoff
  PROVE  /\ Backoff(left, b) \in 1..MaxBackoff
         /\ Backoff(left, b) < left \/ Backoff(left, b) <= Fast
<1>1. /\ First \in Nat \ {0} /\ Fast \in Nat \ {0} /\ MaxBackoff \in Nat \ {0} /\ Near \in Nat \ {0}
      /\ First <= Fast /\ Fast <= MaxBackoff /\ MaxBackoff < Near
  BY RenewalAssumption
<1> QED
  BY <1>1 DEF Backoff, Smaller

(* The service enters its loops with a fresh token and certificate.          *)
LEMMA InitRenewal == Init => RenewalInv
<1> SUFFICES ASSUME Init PROVE RenewalInv
  OBVIOUS
<1>1. /\ {TokenTTL, TokenMaxTTL, LoginPause, CertTTL, First, Fast, MaxBackoff} \subseteq Nat \ {0}
      /\ First <= Fast /\ Fast <= MaxBackoff
  BY RenewalAssumption
<1>2. up = TRUE /\ cancelled = FALSE
  BY DEF Init
<1>3. TypeOK
  <2>1. up \in BOOLEAN /\ cancelled \in BOOLEAN
    BY <1>2
  <2>2. timer \in 0..Larger(CertTTL, MaxBackoff)
    BY <1>1, WaitShort DEF Init, Larger
  <2>3. upFor \in 0..LongUp /\ backoff \in 1..MaxBackoff
    BY <1>1 DEF Init, LongUp
  <2> QED
    BY <1>1, <2>1, <2>2, <2>3, RenewalAssumption DEF Init, TypeOK
<1>4. TokenClock /\ CertClock
  BY <1>1, WaitShort DEF Init, TokenClock, CertClock
<1> QED
  BY <1>2, <1>3, <1>4 DEF RenewalInv

(* Every tick, outage, recovery, signal and step of either goroutine         *)
(* preserves the inductive invariant.                                        *)
LEMMA NextRenewal == RenewalInv /\ [Next]_vars => RenewalInv'
<1> SUFFICES ASSUME RenewalInv, [Next]_vars PROVE RenewalInv'
  OBVIOUS
<1> USE DEF RenewalInv
<1>0. /\ {TokenTTL, TokenMaxTTL, Grace, LoginPause, CertTTL, Minute, Near, First, Fast, MaxBackoff}
           \subseteq Nat \ {0}
      /\ Grace < TokenTTL /\ TokenTTL <= TokenMaxTTL /\ LongUp \in Nat
  BY RenewalAssumption DEF LongUp
<1>1. CASE Fails
  <2>1. upFor' = 0 /\ upFor \in Nat /\ UNCHANGED <<token, cert>>
    BY <1>0, <1>1 DEF Fails, TypeOK
  <2>2. up' \in BOOLEAN /\ cancelled' = cancelled
    BY <1>1 DEF Fails
  <2>3. TypeOK'
    BY <1>0, <2>1, <2>2 DEF token, cert, TypeOK
  <2>4. (TokenClock => TokenClock') /\ (CertClock => CertClock')
    BY <1>0, <2>1 DEF token, cert, TypeOK, TokenClock, CertClock
  <2> QED
    BY <2>1, <2>2, <2>3, <2>4
<1>2. CASE Recovers
  BY <1>0, <1>2 DEF Recovers, token, cert, TypeOK, TokenClock, CertClock
<1>3. CASE Cancel
  BY <1>0, <1>3 DEF Cancel, vault, token, cert, TypeOK
<1>4. CASE Tick
  <2>1. TypeOK'
    BY <1>0, <1>4 DEF Tick, TypeOK, Minus1, Smaller, Larger
  <2>2. up' = up /\ cancelled' = cancelled
    BY <1>4 DEF Tick
  <2>3. upFor' \in Nat /\ upFor' <= upFor + 1 /\ upFor \in Nat /\ (~up => upFor' = 0)
    <3>1. upFor \in Nat
      BY <1>0 DEF TypeOK
    <3>2. upFor' = IF up THEN (IF upFor + 1 < LongUp THEN upFor + 1 ELSE LongUp) ELSE 0
      BY <1>4 DEF Tick, Smaller
    <3> QED
      BY <1>0, <3>1, <3>2
  <2>4. ~cancelled' => TokenClock'
    BY <1>0, <1>4, <2>3 DEF Tick, MaintainerDue, TypeOK, TokenClock, Minus1
  <2>5. ~cancelled' => CertClock'
    BY <1>0, <1>4, <2>3 DEF Tick, ControllerDue, TypeOK, CertClock, Minus1, Larger
  <2> QED
    BY <2>1, <2>2, <2>3, <2>4, <2>5
<1>5. CASE Renewed
  BY <1>0, <1>5 DEF Renewed, vault, cert, TypeOK, TokenClock, CertClock, Smaller
<1>6. CASE WatcherDone
  BY <1>0, <1>6 DEF WatcherDone, vault, cert, TypeOK, TokenClock, CertClock
<1>7. CASE Login
  BY <1>0, <1>7 DEF Login, vault, cert, TypeOK, TokenClock, CertClock
<1>8. CASE LoginFails
  BY <1>0, <1>8 DEF LoginFails, vault, cert, TypeOK, TokenClock, CertClock
<1>9. CASE LoginAgain
  BY <1>0, <1>9 DEF LoginAgain, vault, cert, TypeOK, TokenClock, CertClock
<1>10. CASE MaintainerReturns
  BY <1>10 DEF MaintainerReturns, vault, cert, TypeOK
<1>11. CASE TimerFires
  BY <1>0, <1>11, RenewalAssumption DEF TimerFires, vault, token, TypeOK, TokenClock, CertClock
<1>12. CASE Issue
  BY <1>0, <1>12, WaitShort DEF Issue, vault, token, TypeOK, TokenClock, CertClock, Larger
<1>13. CASE IssueFails
  <2>1. /\ backoff' \in 1..MaxBackoff /\ timer' = backoff'
        /\ backoff' < certLeft \/ backoff' <= Fast
    BY <1>13, BackoffBounds DEF IssueFails, TypeOK
  <2>2. ~cancelled => upFor <= LoginPause
    BY <1>0, <1>13 DEF IssueFails, TypeOK, TokenClock
  <2> QED
    BY <1>0, <1>13, <2>1, <2>2 DEF IssueFails, vault, token, TypeOK, TokenClock, CertClock, Larger
<1>14. CASE ControllerReturns
  BY <1>14 DEF ControllerReturns, vault, token, TypeOK
<1>15. CASE UNCHANGED vars
  BY <1>15 DEF vars, vault, token, cert, TypeOK, TokenClock, CertClock
<1> QED
  BY <1>1, <1>2, <1>3, <1>4, <1>5, <1>6, <1>7, <1>8, <1>9, <1>10, <1>11, <1>12, <1>13, <1>14, <1>15
  DEF Next, Maintain, Control

(* The remaining time of each timer and the time since Vault came back are   *)
(* tied together in every reachable state (maintainToken,                    *)
(* renewalController).                                                       *)
THEOREM RenewalInvariance == Spec => []RenewalInv
<1> QED
  BY InitRenewal, NextRenewal, PTL DEF Spec

(* However long Vault was away, the token is live again once it has answered *)
(* for longer than the pause between two logins (maintainToken).             *)
THEOREM TokenAlwaysRecovers == Spec => []TokenRecovers
<1>1. RenewalInv => TokenRecovers
  BY RenewalAssumption DEF RenewalInv, TypeOK, TokenClock, TokenRecovers
<1> QED
  BY <1>1, RenewalInvariance, PTL

(* And the certificate is valid once it has answered for longer than that    *)
(* pause and the short backoff together (renewalController).                 *)
THEOREM CertAlwaysRecovers == Spec => []CertRecovers
<1>1. RenewalInv => CertRecovers
  BY RenewalAssumption DEF RenewalInv, TypeOK, CertClock, CertRecovers
<1> QED
  BY <1>1, RenewalInvariance, PTL
=============================================================================
