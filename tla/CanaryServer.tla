---------------------------- MODULE CanaryServer ----------------------------
(***************************************************************************)
(* The canary's TLS server: an accept loop that registers each connection  *)
(* and starts a handler for it, the staple that the refresher replaces     *)
(* while handshakes are under way, and Close, which any number of callers  *)
(* may call.                                                               *)
(***************************************************************************)
EXTENDS Naturals, FiniteSets

CONSTANTS
  Conns,      \* connections that peers open
  Callers,    \* goroutines that call Close
  MaxStaples  \* bound on the calls of SetOCSPStaple

ASSUME CanaryAssumption == IsFiniteSet(Conns) /\ MaxStaples \in Nat

VARIABLES
  listening,  \* the listener is open
  loop,       \* the accept loop
  stage,      \* where each connection is
  open,       \* the connections whose socket the server has not closed
  talks,      \* the peers that send a ClientHello
  conns,      \* Server.conns
  staple,     \* the staple of the current certificate, numbered in the order they were set
  hello,      \* the staple that was set when each ClientHello arrived (history)
  served,     \* the staple each handshake was given
  caller,     \* where each caller of Close is
  active      \* the snapshot Close took of conns

server == <<listening, loop, conns>>
staples == <<staple, hello, served>>
vars == <<server, stage, open, talks, staples, caller, active>>

Stages == {"none", "queued", "accepted", "handling", "hello", "handshaken", "written",
           "unregistered", "closed", "done", "refused"}

TypeOK ==
  /\ listening \in BOOLEAN
  /\ loop \in {"accept", "register", "exited"}
  /\ stage \in [Conns -> Stages]
  /\ open \in SUBSET Conns
  /\ talks \in SUBSET Conns
  /\ conns = {c \in Conns : stage[c] \in {"handling", "hello", "handshaken", "written"}}
  /\ staple \in 0..MaxStaples
  /\ hello \in [Conns -> 0..MaxStaples] /\ served \in [Conns -> 0..MaxStaples]
  /\ caller \in [Callers -> {"before", "entering", "listener", "accept", "snapshot",
                             "closing", "handlers", "returned"}]
  /\ active \in SUBSET Conns

Init ==
  /\ listening = TRUE
  /\ loop = "accept"
  /\ stage = [c \in Conns |-> "none"]
  /\ open = {}
  /\ talks = {}
  /\ conns = {}
  /\ staple = 0
  /\ hello = [c \in Conns |-> 0]
  /\ served = [c \in Conns |-> 0]
  /\ caller = [k \in Callers |-> "before"]
  /\ active = {}

Moves(c, from, to) == stage[c] = from /\ stage' = [stage EXCEPT ![c] = to]

(* The handlers the wait group counts.                                       *)
Running == {"handling", "hello", "handshaken", "written", "unregistered", "closed"}
Handlers == {c \in Conns : stage[c] \in Running}
-----------------------------------------------------------------------------
(* Peers                                                                     *)

Connect(c) ==
  /\ listening
  /\ Moves(c, "none", "queued")
  /\ \E sends \in BOOLEAN : talks' = IF sends THEN talks \cup {c} ELSE talks
  /\ UNCHANGED <<server, open, staples, caller, active>>
-----------------------------------------------------------------------------
(* serve                                                                     *)

Accept(c) ==
  /\ listening
  /\ loop = "accept"
  /\ Moves(c, "queued", "accepted")
  /\ open' = open \cup {c}
  /\ loop' = "register"
  /\ UNCHANGED <<listening, conns, talks, staples, caller, active>>

(* Under connMu the connection is noted and counted; its handler starts.     *)
Register(c) ==
  /\ Moves(c, "accepted", "handling")
  /\ conns' = conns \cup {c}
  /\ loop' = "accept"
  /\ UNCHANGED <<listening, open, talks, staples, caller, active>>

(* The accept loop ends with the first error: the listener is closed, or     *)
(* Accept fails for another reason and leaves it open.                       *)
LoopEnds ==
  /\ loop = "accept"
  /\ loop' = "exited"
  /\ UNCHANGED <<listening, conns, stage, open, talks, staples, caller, active>>

LoopExits == ~listening /\ LoopEnds
AcceptFails == listening /\ LoopEnds
-----------------------------------------------------------------------------
(* The handler.  Its first write waits for the peer's ClientHello.           *)

Receive(c) ==
  /\ Moves(c, "handling", "hello")
  /\ c \in talks \cap open
  /\ hello' = [hello EXCEPT ![c] = staple]
  /\ UNCHANGED <<server, open, talks, staple, served, caller, active>>

(* Slip: the listener's configuration holds the first certificate.           *)
HandshakeFirst(c) ==
  /\ Moves(c, "hello", "handshaken")
  /\ served' = [served EXCEPT ![c] = 0]
  /\ UNCHANGED <<server, open, talks, staple, hello, caller, active>>

(* GetCertificate looks the certificate up under the read lock.              *)
Handshake(c) ==
  /\ Moves(c, "hello", "handshaken")
  /\ served' = [served EXCEPT ![c] = staple]
  /\ UNCHANGED <<server, open, talks, staple, hello, caller, active>>

Write(c) ==
  /\ Moves(c, "handshaken", "written")
  /\ UNCHANGED <<server, open, talks, staples, caller, active>>

(* Slip: no deadline is set.                                                 *)
WriteFailsClosed(c) ==
  /\ stage[c] \in {"handling", "hello", "handshaken"}
  /\ c \notin open
  /\ stage' = [stage EXCEPT ![c] = "written"]
  /\ UNCHANGED <<server, open, talks, staples, caller, active>>

(* The deadline passes, the peer goes away or Close closed the connection.   *)
WriteFails(c) ==
  /\ stage[c] \in {"handling", "hello", "handshaken"}
  /\ stage' = [stage EXCEPT ![c] = "written"]
  /\ UNCHANGED <<server, open, talks, staples, caller, active>>

(* The deferred calls, in the reverse of the order they were deferred.       *)
Unregister(c) ==
  /\ Moves(c, "written", "unregistered")
  /\ conns' = conns \ {c}
  /\ UNCHANGED <<listening, loop, open, talks, staples, caller, active>>

CloseConn(c) ==
  /\ Moves(c, "unregistered", "closed")
  /\ open' = open \ {c}
  /\ UNCHANGED <<server, talks, staples, caller, active>>

Done(c) ==
  /\ Moves(c, "closed", "done")
  /\ UNCHANGED <<server, open, talks, staples, caller, active>>
-----------------------------------------------------------------------------
(* SetOCSPStaple: a copy of the certificate bears the new staple and is      *)
(* stored, all under the lock that GetCertificate takes.                     *)
SetOCSPStaple ==
  /\ staple < MaxStaples
  /\ staple' = staple + 1
  /\ UNCHANGED <<server, stage, open, talks, hello, served, caller, active>>
-----------------------------------------------------------------------------
(* Close                                                                     *)

Goes(k, from, to) == caller[k] = from /\ caller' = [caller EXCEPT ![k] = to]

Call(k) ==
  /\ Goes(k, "before", "entering")
  /\ UNCHANGED <<server, stage, open, talks, staples, active>>

(* Slip: closeOnce is forgotten and a flag tells that somebody closes.       *)
OnceFlag(k) ==
  /\ Goes(k, "entering", "returned")
  /\ \E j \in Callers : caller[j] \notin {"before", "entering"}
  /\ UNCHANGED <<server, stage, open, talks, staples, active>>

(* closeOnce: one caller does the work, and the others wait for its end.     *)
OnceFirst(k) ==
  /\ Goes(k, "entering", "listener")
  /\ \A j \in Callers : caller[j] \in {"before", "entering"}
  /\ UNCHANGED <<server, stage, open, talks, staples, active>>

OnceDone(k) ==
  /\ Goes(k, "entering", "returned")
  /\ \E j \in Callers : caller[j] = "returned"
  /\ UNCHANGED <<server, stage, open, talks, staples, active>>

(* Slip: the listener is closed after the wait for the accept loop.          *)
CloseListenerLate(k) ==
  /\ Goes(k, "listener", "accept")
  /\ UNCHANGED <<server, stage, open, talks, staples, active>>

(* Peers in the queue of the listener are reset.                             *)
CloseListener(k) ==
  /\ Goes(k, "listener", "accept")
  /\ listening' = FALSE
  /\ stage' = [c \in Conns |-> IF stage[c] = "queued" THEN "refused" ELSE stage[c]]
  /\ UNCHANGED <<loop, conns, open, talks, staples, active>>

(* Slip: the accept loop is not waited for.                                  *)
AcceptUnawaited(k) ==
  /\ Goes(k, "accept", "snapshot")
  /\ UNCHANGED <<server, stage, open, talks, staples, active>>

AcceptDone(k) ==
  /\ Goes(k, "accept", "snapshot")
  /\ loop = "exited"
  /\ UNCHANGED <<server, stage, open, talks, staples, active>>

Snapshot(k) ==
  /\ Goes(k, "snapshot", "closing")
  /\ active' = conns
  /\ UNCHANGED <<server, stage, open, talks, staples>>

CloseActive(k) ==
  /\ caller[k] = "closing"
  /\ \E c \in active : active' = active \ {c} /\ open' = open \ {c}
  /\ UNCHANGED <<server, stage, talks, staples, caller>>

AllClosed(k) ==
  /\ Goes(k, "closing", "handlers")
  /\ active = {}
  /\ UNCHANGED <<server, stage, open, talks, staples, active>>

HandlersDone(k) ==
  /\ Goes(k, "handlers", "returned")
  /\ Handlers = {}
  /\ UNCHANGED <<server, stage, open, talks, staples, active>>
-----------------------------------------------------------------------------
Serve == (\E c \in Conns : Accept(c) \/ Register(c)) \/ LoopExits

Handle(c) ==
  Receive(c) \/ Handshake(c) \/ Write(c) \/ WriteFails(c) \/ Unregister(c) \/ CloseConn(c) \/ Done(c)

Close(k) ==
  \/ OnceFirst(k) \/ OnceDone(k) \/ CloseListener(k) \/ AcceptDone(k) \/ Snapshot(k)
  \/ CloseActive(k) \/ AllClosed(k) \/ HandlersDone(k)

Next ==
  \/ \E c \in Conns : Connect(c) \/ Handle(c)
  \/ Serve \/ AcceptFails
  \/ SetOCSPStaple
  \/ \E k \in Callers : Call(k) \/ Close(k)

(* Goroutines are scheduled, and a write that waits for a silent peer fails  *)
(* when the deadline passes.  Nobody has to connect, to set a staple or to   *)
(* call Close, and Accept of an open listener need not fail.                 *)
Spec ==
  /\ Init /\ [][Next]_vars
  /\ WF_vars(Serve)
  /\ \A c \in Conns : WF_vars(Handle(c))
  /\ \A k \in Callers : WF_vars(Close(k))
-----------------------------------------------------------------------------
(* The inductive invariant of CanaryServerProofs                             *)

Works == {"listener", "accept", "snapshot", "closing", "handlers"}

(* One caller does the work, and none while another has returned.            *)
OneCloser ==
  \A j, k \in Callers :
    caller[j] \in Works /\ caller[k] \in Works \cup {"returned"} => j = k

(* What the one that works has reached holds for good.                       *)
CloseOrder ==
  \A k \in Callers :
    /\ caller[k] \in {"accept", "snapshot", "closing", "handlers", "returned"} => ~listening
    /\ caller[k] \in {"snapshot", "closing", "handlers", "returned"} => loop = "exited"
    /\ caller[k] = "returned" => \A c \in Conns : stage[c] \notin Running

(* The accept loop has at most one connection in hand, and none waits at a   *)
(* closed listener.                                                          *)
LoopOrder ==
  /\ \A c \in Conns : stage[c] = "accepted" => loop = "register"
  /\ \A c, d \in Conns : stage[c] = "accepted" /\ stage[d] = "accepted" => c = d
  /\ ~listening => \A c \in Conns : stage[c] # "queued"

OpenAccepted == \A c \in open : stage[c] \in (Running \cup {"accepted"}) \ {"closed"}

HelloSet ==
  /\ \A c \in Conns : hello[c] <= staple
  /\ \A c \in Conns : stage[c] = "handshaken" => hello[c] <= served[c]

(* The connections registered are those of the handlers at work, and the     *)
(* parts of Close, of the accept loop and of the handlers are in step        *)
(* (Server).                                                                 *)
ServerInv == TypeOK /\ OneCloser /\ CloseOrder /\ LoopOrder /\ OpenAccepted /\ HelloSet
-----------------------------------------------------------------------------
(* When Close returns, to any of its callers, nothing is left: the accept    *)
(* loop and every handler have ended and every connection accepted is closed *)
(* ("stops the listener, closes every accepted connection, and waits for all *)
(* TLS handlers to exit. It is safe to call more than once", Close).         *)
NothingLeft ==
  (\E k \in Callers : caller[k] = "returned") =>
    /\ loop = "exited"
    /\ open = {} /\ conns = {}
    /\ \A c \in Conns : stage[c] \in {"none", "refused", "done"}

(* Once Close has taken its snapshot no connection is added to it any more,  *)
(* so that it covers every accepted peer, and the wait group does not grow   *)
(* while it is waited for ("Once the accept loop exits no new connection can *)
(* be added to conns", Close).                                               *)
SnapshotComplete ==
  [][(\E k \in Callers : caller[k] \in {"closing", "handlers"}) =>
       conns' \subseteq conns /\ Handlers' \subseteq Handlers]_vars

(* A handshake presents the staple that was set when its ClientHello came,   *)
(* or a later one, even on a connection accepted before it was set           *)
(* ("atomically replaces the staple used by future TLS handshakes",          *)
(* SetOCSPStaple).                                                           *)
StapleCurrent ==
  \A c \in Conns : stage[c] = "handshaken" => hello[c] <= served[c]

(* What is open of the connections registered is still to be closed, and the *)
(* accept loop registers what it has in hand.                                *)
SnapshotOrder ==
  /\ \A k \in Callers :
       /\ caller[k] \in {"closing", "handlers"} => conns \cap open \subseteq active
       /\ caller[k] = "handlers" => active = {}
  /\ loop = "register" => \E c \in Conns : stage[c] = "accepted"

(* Close never waits for a peer: the accept loop it waits for has a closed   *)
(* listener and, at most, a connection to register, and every handler that   *)
(* is still at reading or writing has lost its socket, so that its deadline  *)
(* need not pass (Close).                                                    *)
CloseUnhindered ==
  \A k \in Callers :
    /\ caller[k] = "accept" =>
         ~listening /\ (loop = "register" => \E c \in Conns : stage[c] = "accepted")
    /\ caller[k] = "handlers" =>
         \A c \in Handlers : stage[c] \in {"unregistered", "closed"} \/ c \notin open

(* How far a connection and a caller of Close are.                           *)
StageNo(s) ==
  CASE s = "none" -> 1 [] s = "queued" -> 2 [] s = "accepted" -> 3 [] s = "handling" -> 4
    [] s = "hello" -> 5 [] s = "handshaken" -> 6 [] s = "written" -> 7
    [] s = "unregistered" -> 8 [] s = "closed" -> 9 [] OTHER -> 10
CallerNo(s) ==
  CASE s = "before" -> 1 [] s = "entering" -> 2 [] s = "listener" -> 3 [] s = "accept" -> 4
    [] s = "snapshot" -> 5 [] s = "closing" -> 6 [] s = "handlers" -> 7 [] OTHER -> 8

Progress == <<stage, caller, active, staple, loop>>

(* A step takes a connection, a caller, the work of Close or the staple      *)
(* further and none back; what is closed or ended stays so.                  *)
Forward ==
  /\ Progress' # Progress
  /\ \A c \in Conns : stage'[c] # stage[c] => StageNo(stage[c]) < StageNo(stage'[c])
  /\ \A k \in Callers : caller'[k] # caller[k] => CallerNo(caller[k]) < CallerNo(caller'[k])
  /\ \A c \in open' \ open : stage[c] = "queued"
  /\ listening' => listening
  /\ loop = "exited" => loop' = "exited"
  /\ staple <= staple'
  /\ active' # active => active' \subseteq active \/ \E k \in Callers : caller[k] = "snapshot"

(* The server only goes forward, so that every connection and every call of  *)
(* Close comes to its end after a bounded number of steps of the server:     *)
(* what CloseReturns and PeersReleased need besides the scheduler, deadlines *)
(* and CloseUnhindered (serve, Close).                                       *)
OnlyForward == [][Forward]_vars

(* Close returns to whoever called it.                                       *)
CloseReturns == \A k \in Callers : caller[k] = "entering" ~> caller[k] = "returned"

(* "A peer that opens TCP and never sends ClientHello must not pin an        *)
(* assurance goroutine or file descriptor indefinitely" (serve): every       *)
(* accepted connection is closed and its handler ends, closed or not.        *)
PeersReleased ==
  \A c \in Conns : stage[c] = "accepted" ~> stage[c] = "done" /\ c \notin open
=============================================================================
