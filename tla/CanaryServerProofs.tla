------------------------- MODULE CanaryServerProofs -------------------------
(***************************************************************************)
(* Proofs about CanaryServer for every set of peers, every set of callers  *)
(* of Close and any number of staples.                                     *)
(***************************************************************************)
EXTENDS CanaryServer, TLAPS

(* The server that Start returns satisfies the inductive invariant.          *)
LEMMA InitServer == Init => ServerInv
  BY CanaryAssumption
  DEF Init, ServerInv, TypeOK, Stages, OneCloser, Works, CloseOrder, LoopOrder, OpenAccepted,
      HelloSet, Running

(* Every step of a peer, of the accept loop, of a handler, of the refresher  *)
(* and of a caller of Close preserves the inductive invariant.               *)
LEMMA NextServer == ServerInv /\ [Next]_vars => ServerInv'
<1> SUFFICES ASSUME ServerInv, [Next]_vars PROVE ServerInv'
  OBVIOUS
<1> USE CanaryAssumption DEF ServerInv
<1>1. ASSUME NEW c \in Conns, Connect(c) PROVE ServerInv'
  BY <1>1
  DEF Connect, Moves, Goes, server, staples, TypeOK, Stages, OneCloser, Works, CloseOrder,
      LoopOrder, OpenAccepted, HelloSet, Running, Handlers
<1>2. ASSUME NEW c \in Conns, Accept(c) PROVE ServerInv'
  BY <1>2
  DEF Accept, Moves, Goes, server, staples, TypeOK, Stages, OneCloser, Works, CloseOrder,
      LoopOrder, OpenAccepted, HelloSet, Running, Handlers
<1>3. ASSUME NEW c \in Conns, Register(c) PROVE ServerInv'
  BY <1>3
  DEF Register, Moves, Goes, server, staples, TypeOK, Stages, OneCloser, Works, CloseOrder,
      LoopOrder, OpenAccepted, HelloSet, Running, Handlers
<1>4. ASSUME NEW c \in Conns, Receive(c) PROVE ServerInv'
  BY <1>4
  DEF Receive, Moves, Goes, server, staples, TypeOK, Stages, OneCloser, Works, CloseOrder,
      LoopOrder, OpenAccepted, HelloSet, Running, Handlers
<1>5. ASSUME NEW c \in Conns, Handshake(c) PROVE ServerInv'
  BY <1>5
  DEF Handshake, Moves, Goes, server, staples, TypeOK, Stages, OneCloser, Works, CloseOrder,
      LoopOrder, OpenAccepted, HelloSet, Running, Handlers
<1>6. ASSUME NEW c \in Conns, Write(c) PROVE ServerInv'
  BY <1>6
  DEF Write, Moves, Goes, server, staples, TypeOK, Stages, OneCloser, Works, CloseOrder,
      LoopOrder, OpenAccepted, HelloSet, Running, Handlers
<1>7. ASSUME NEW c \in Conns, WriteFails(c) PROVE ServerInv'
  BY <1>7
  DEF WriteFails, Moves, Goes, server, staples, TypeOK, Stages, OneCloser, Works, CloseOrder,
      LoopOrder, OpenAccepted, HelloSet, Running, Handlers
<1>8. ASSUME NEW c \in Conns, Unregister(c) PROVE ServerInv'
  BY <1>8
  DEF Unregister, Moves, Goes, server, staples, TypeOK, Stages, OneCloser, Works, CloseOrder,
      LoopOrder, OpenAccepted, HelloSet, Running, Handlers
<1>9. ASSUME NEW c \in Conns, CloseConn(c) PROVE ServerInv'
  BY <1>9
  DEF CloseConn, Moves, Goes, server, staples, TypeOK, Stages, OneCloser, Works, CloseOrder,
      LoopOrder, OpenAccepted, HelloSet, Running, Handlers
<1>10. ASSUME NEW c \in Conns, Done(c) PROVE ServerInv'
  BY <1>10
  DEF Done, Moves, Goes, server, staples, TypeOK, Stages, OneCloser, Works, CloseOrder,
      LoopOrder, OpenAccepted, HelloSet, Running, Handlers
<1>11. ASSUME NEW k \in Callers, Call(k) PROVE ServerInv'
  BY <1>11
  DEF Call, Moves, Goes, server, staples, TypeOK, Stages, OneCloser, Works, CloseOrder,
      LoopOrder, OpenAccepted, HelloSet, Running, Handlers
<1>12. ASSUME NEW k \in Callers, OnceFirst(k) PROVE ServerInv'
  BY <1>12
  DEF OnceFirst, Moves, Goes, server, staples, TypeOK, Stages, OneCloser, Works, CloseOrder,
      LoopOrder, OpenAccepted, HelloSet, Running, Handlers
<1>13. ASSUME NEW k \in Callers, OnceDone(k) PROVE ServerInv'
  BY <1>13
  DEF OnceDone, Moves, Goes, server, staples, TypeOK, Stages, OneCloser, Works, CloseOrder,
      LoopOrder, OpenAccepted, HelloSet, Running, Handlers
<1>14. ASSUME NEW k \in Callers, CloseListener(k) PROVE ServerInv'
  BY <1>14
  DEF CloseListener, Moves, Goes, server, staples, TypeOK, Stages, OneCloser, Works, CloseOrder,
      LoopOrder, OpenAccepted, HelloSet, Running, Handlers
<1>15. ASSUME NEW k \in Callers, AcceptDone(k) PROVE ServerInv'
  BY <1>15
  DEF AcceptDone, Moves, Goes, server, staples, TypeOK, Stages, OneCloser, Works, CloseOrder,
      LoopOrder, OpenAccepted, HelloSet, Running, Handlers
<1>16. ASSUME NEW k \in Callers, Snapshot(k) PROVE ServerInv'
  BY <1>16
  DEF Snapshot, Moves, Goes, server, staples, TypeOK, Stages, OneCloser, Works, CloseOrder,
      LoopOrder, OpenAccepted, HelloSet, Running, Handlers
<1>17. ASSUME NEW k \in Callers, CloseActive(k) PROVE ServerInv'
  BY <1>17
  DEF CloseActive, Moves, Goes, server, staples, TypeOK, Stages, OneCloser, Works, CloseOrder,
      LoopOrder, OpenAccepted, HelloSet, Running, Handlers
<1>18. ASSUME NEW k \in Callers, AllClosed(k) PROVE ServerInv'
  BY <1>18
  DEF AllClosed, Moves, Goes, server, staples, TypeOK, Stages, OneCloser, Works, CloseOrder,
      LoopOrder, OpenAccepted, HelloSet, Running, Handlers
<1>19. ASSUME NEW k \in Callers, HandlersDone(k) PROVE ServerInv'
  BY <1>19
  DEF HandlersDone, Moves, Goes, server, staples, TypeOK, Stages, OneCloser, Works, CloseOrder,
      LoopOrder, OpenAccepted, HelloSet, Running, Handlers
<1>20. ASSUME LoopExits \/ AcceptFails PROVE ServerInv'
  BY <1>20
  DEF LoopExits, AcceptFails, LoopEnds, Moves, Goes, server, staples, TypeOK, Stages, OneCloser, Works, CloseOrder,
      LoopOrder, OpenAccepted, HelloSet, Running, Handlers
<1>21. ASSUME SetOCSPStaple PROVE ServerInv'
  BY <1>21
  DEF SetOCSPStaple, Moves, Goes, server, staples, TypeOK, Stages, OneCloser, Works, CloseOrder,
      LoopOrder, OpenAccepted, HelloSet, Running, Handlers
<1>22. CASE UNCHANGED vars
  BY <1>22
  DEF vars, server, staples, TypeOK, Stages, OneCloser, Works, CloseOrder, LoopOrder,
      OpenAccepted, HelloSet, Running
<1> QED
  BY <1>1, <1>2, <1>3, <1>4, <1>5, <1>6, <1>7, <1>8, <1>9, <1>10, <1>11, <1>12,
     <1>13, <1>14, <1>15, <1>16, <1>17, <1>18, <1>19, <1>20, <1>21, <1>22
  DEF Next, Handle, Serve, Close

(* What Close has reached when it returns: the listener is closed and the    *)
(* accept loop has ended, so that nothing is queued or in its hands, and no  *)
(* handler runs.                                                             *)
LEMMA ReturnedEmpty == ServerInv => NothingLeft
<1> SUFFICES ASSUME ServerInv, NEW k \in Callers, caller[k] = "returned"
             PROVE  /\ loop = "exited"
                    /\ open = {} /\ conns = {}
                    /\ \A c \in Conns : stage[c] \in {"none", "refused", "done"}
  BY DEF NothingLeft
<1>1. loop = "exited" /\ ~listening /\ \A c \in Conns : stage[c] \notin Running
  BY DEF ServerInv, CloseOrder
<1>2. \A c \in Conns : stage[c] # "accepted" /\ stage[c] # "queued"
  BY <1>1 DEF ServerInv, LoopOrder
<1>3. \A c \in Conns : stage[c] \in {"none", "refused", "done"}
  BY <1>1, <1>2 DEF ServerInv, TypeOK, Stages, Running
<1>4. open = {} /\ conns = {}
  BY <1>3 DEF ServerInv, TypeOK, OpenAccepted, Running
<1> QED
  BY <1>1, <1>3, <1>4

(* While Close works on its snapshot no step registers a connection or       *)
(* starts a handler: that would take a connection in the hands of the accept *)
(* loop, which has ended.                                                    *)
LEMMA SnapshotStep ==
  ServerInv /\ [Next]_vars =>
    [(\E k \in Callers : caller[k] \in {"closing", "handlers"}) =>
       conns' \subseteq conns /\ Handlers' \subseteq Handlers]_vars
<1> SUFFICES ASSUME ServerInv, Next, NEW k \in Callers, caller[k] \in {"closing", "handlers"}
             PROVE  conns' \subseteq conns /\ Handlers' \subseteq Handlers
  OBVIOUS
<1>1. \A c \in Conns : stage[c] # "accepted"
  BY DEF ServerInv, CloseOrder, LoopOrder
<1>2. stage \in [Conns -> Stages]
  BY DEF ServerInv, TypeOK
<1>3. ASSUME NEW c \in Conns, Connect(c) \/ Handle(c) PROVE conns' \subseteq conns /\ Handlers' \subseteq Handlers
  BY <1>2, <1>3
  DEF Connect, Handle, Receive, Handshake, Write, WriteFails, Unregister, CloseConn, Done, Moves,
      server, Handlers, Running
<1>4. CASE Serve \/ AcceptFails
  BY <1>1, <1>2, <1>4 DEF Serve, Accept, Register, LoopExits, AcceptFails, LoopEnds, Moves, server, Handlers, Running
<1>5. CASE SetOCSPStaple
  BY <1>5 DEF SetOCSPStaple, server, Handlers
<1>6. ASSUME NEW j \in Callers, Call(j) \/ Close(j) PROVE conns' \subseteq conns /\ Handlers' \subseteq Handlers
  BY <1>2, <1>6
  DEF Call, Close, OnceFirst, OnceDone, CloseListener, AcceptDone, Snapshot, CloseActive,
      AllClosed, HandlersDone, server, Handlers, Running
<1> QED
  BY <1>3, <1>4, <1>5, <1>6 DEF Next

(* The registered connections are exactly those of the handlers at work, one *)
(* caller of Close works at a time, and the order in which Close, the accept *)
(* loop and the handlers end is kept (server.go).                            *)
THEOREM ServerInvariance == Spec => []ServerInv
<1> QED
  BY InitServer, NextServer, PTL DEF Spec

(* Whoever calls Close, and however often, no accept loop, connection or     *)
(* handler is left when it returns (Close).                                  *)
THEOREM CloseLeavesNothing == Spec => []NothingLeft
<1> QED
  BY ServerInvariance, ReturnedEmpty, PTL

(* The snapshot that Close takes of the connections covers every peer that   *)
(* was accepted, and the wait group does not grow once it is waited for      *)
(* (Close, serve).                                                           *)
THEOREM SnapshotCovers == Spec => SnapshotComplete
<1> QED
  BY ServerInvariance, SnapshotStep, PTL DEF Spec, SnapshotComplete

(* No handshake presents a staple older than the one set when it began       *)
(* (SetOCSPStaple, Start).                                                   *)
THEOREM StapleNeverOlder == Spec => []StapleCurrent
<1>1. ServerInv => StapleCurrent
  BY DEF ServerInv, HelloSet, StapleCurrent
<1> QED
  BY <1>1, ServerInvariance, PTL
----------------------------------------------------------------------------
(* Close waits for no peer, and everything goes forward                     *)

(* Every step keeps what Close relies on when it waits.                      *)
LEMMA SnapshotOrderStep ==
  ASSUME ServerInv, SnapshotOrder, [Next]_vars
  PROVE  SnapshotOrder'
<1> USE DEF ServerInv
<1>1. CASE UNCHANGED vars
  BY <1>1 DEF vars, server, staples, SnapshotOrder
<1>2. ASSUME NEW c \in Conns, Connect(c) \/ Accept(c) \/ Receive(c) \/ Handshake(c) \/ Write(c) \/ WriteFails(c)
      PROVE  SnapshotOrder'
  <2>1. /\ UNCHANGED <<conns, caller, active>>
        /\ \A d \in Conns : stage[d] = "accepted" => stage'[d] = "accepted"
        /\ loop' = loop \/ stage'[c] = "accepted"
        /\ open' = open \/ (open' = open \cup {c} /\ c \notin conns)
    BY <1>2 DEF Connect, Accept, Receive, Handshake, Write, WriteFails, Moves, server, TypeOK
  <2> QED
    BY <2>1 DEF SnapshotOrder
<1>3. ASSUME NEW c \in Conns, Register(c) PROVE SnapshotOrder'
  <2>1. \A k \in Callers : caller[k] \notin {"closing", "handlers"}
    BY <1>3 DEF Register, Moves, LoopOrder, CloseOrder
  <2> QED
    BY <1>3, <2>1 DEF Register, SnapshotOrder
<1>4. ASSUME NEW c \in Conns, Unregister(c) \/ CloseConn(c) \/ Done(c) PROVE SnapshotOrder'
  <2>1. /\ UNCHANGED <<loop, caller, active>> /\ conns' \subseteq conns /\ open' \subseteq open
        /\ \A d \in Conns : stage[d] = "accepted" => stage'[d] = "accepted"
    BY <1>4 DEF Unregister, CloseConn, Done, Moves, server, TypeOK
  <2> QED
    BY <2>1 DEF SnapshotOrder
<1>5. CASE LoopExits \/ AcceptFails \/ SetOCSPStaple
  BY <1>5 DEF LoopExits, AcceptFails, LoopEnds, SetOCSPStaple, server, SnapshotOrder
<1>6. ASSUME NEW k \in Callers,
             Call(k) \/ OnceFirst(k) \/ OnceDone(k) \/ CloseListener(k) \/ AcceptDone(k) \/ HandlersDone(k)
      PROVE  SnapshotOrder'
  <2>1. /\ UNCHANGED <<loop, conns, open, active>>
        /\ \A c \in Conns : stage[c] = "accepted" => stage'[c] = "accepted"
        /\ \A j \in Callers : caller'[j] \in {"closing", "handlers"} => caller'[j] = caller[j]
    BY <1>6 DEF Call, OnceFirst, OnceDone, CloseListener, AcceptDone, HandlersDone, Goes, server, TypeOK
  <2> QED
    BY <2>1 DEF SnapshotOrder
<1>7. ASSUME NEW k \in Callers, Snapshot(k) PROVE SnapshotOrder'
  <2>1. \A j \in Callers : caller'[j] # "handlers"
    BY <1>7 DEF Snapshot, Goes, OneCloser, Works, TypeOK
  <2> QED
    BY <1>7, <2>1 DEF Snapshot, server, SnapshotOrder
<1>8. ASSUME NEW k \in Callers, CloseActive(k) PROVE SnapshotOrder'
  <2>1. caller[k] = "closing" /\ UNCHANGED <<loop, conns, stage, caller>>
    BY <1>8 DEF CloseActive, server
  <2>2. PICK c \in active : active' = active \ {c} /\ open' = open \ {c}
    BY <1>8 DEF CloseActive
  <2> QED
    BY <2>1, <2>2 DEF SnapshotOrder
<1>9. ASSUME NEW k \in Callers, AllClosed(k) PROVE SnapshotOrder'
  <2>1. caller[k] = "closing" /\ active = {} /\ UNCHANGED <<loop, conns, open, stage, active>>
    BY <1>9 DEF AllClosed, Goes, server
  <2> QED
    BY <2>1 DEF SnapshotOrder
<1> QED
  BY <1>1, <1>2, <1>3, <1>4, <1>5, <1>6, <1>7, <1>8, <1>9 DEF Next, Handle, Serve, Close

(* Close never waits for a peer: what it waits for has its listener or its   *)
(* socket closed.                                                            *)
THEOREM CloseWaitsForNoPeer == Spec => []CloseUnhindered
<1>1. Init => SnapshotOrder
  BY DEF Init, SnapshotOrder
<1>2. ServerInv /\ SnapshotOrder => CloseUnhindered
  BY DEF ServerInv, TypeOK, CloseOrder, SnapshotOrder, CloseUnhindered, Handlers, Running
<1> QED
  BY <1>1, <1>2, SnapshotOrderStep, ServerInvariance, PTL DEF Spec

(* Every step is one forward.                                                *)
LEMMA ServerStepForward ==
  ASSUME ServerInv, Next
  PROVE  Forward
<1> USE DEF ServerInv
<1>1. ASSUME NEW c \in Conns,
             \/ Connect(c) \/ Accept(c) \/ Register(c) \/ Receive(c) \/ Handshake(c) \/ Write(c)
             \/ WriteFails(c) \/ Unregister(c) \/ CloseConn(c) \/ Done(c)
      PROVE  Forward
  <2>1. /\ stage'[c] # stage[c] /\ StageNo(stage[c]) < StageNo(stage'[c])
        /\ \A d \in Conns : d # c => stage'[d] = stage[d]
    <3>1. ASSUME NEW from \in Stages, NEW to \in Stages, Moves(c, from, to)
          PROVE  stage[c] = from /\ stage'[c] = to /\ \A d \in Conns : d # c => stage'[d] = stage[d]
      BY <3>1 DEF Moves, TypeOK
    <3>2. CASE Connect(c) \/ Accept(c) \/ Register(c)
      BY <3>1, <3>2 DEF Connect, Accept, Register, StageNo, Stages
    <3>3. CASE Receive(c) \/ Handshake(c) \/ Write(c)
      BY <3>1, <3>3 DEF Receive, Handshake, Write, StageNo, Stages
    <3>4. CASE WriteFails(c)
      BY <3>4 DEF WriteFails, StageNo, TypeOK
    <3>5. CASE Unregister(c) \/ CloseConn(c) \/ Done(c)
      BY <3>1, <3>5 DEF Unregister, CloseConn, Done, StageNo, Stages
    <3> QED
      BY <1>1, <3>2, <3>3, <3>4, <3>5
  <2>2. /\ UNCHANGED <<listening, caller, staple, active>>
        /\ open' \subseteq open \cup {d \in Conns : stage[d] = "queued"}
        /\ loop = "exited" => loop' = "exited"
    BY <1>1
    DEF Connect, Accept, Register, Receive, Handshake, Write, WriteFails, Unregister, CloseConn, Done,
        Moves, server, staples, LoopOrder
  <2> QED
    BY <2>1, <2>2 DEF Forward, Progress, TypeOK
<1>2. CASE LoopExits \/ AcceptFails
  <2>1. /\ loop' # loop /\ loop' = "exited"
        /\ UNCHANGED <<listening, stage, open, caller, staple, active>>
    BY <1>2 DEF LoopExits, AcceptFails, LoopEnds, staples
  <2> QED
    BY <2>1 DEF Forward, Progress, TypeOK
<1>3. CASE SetOCSPStaple
  BY <1>3 DEF SetOCSPStaple, server, Forward, Progress, TypeOK
<1>4. ASSUME NEW k \in Callers,
             \/ Call(k) \/ OnceFirst(k) \/ OnceDone(k) \/ CloseListener(k) \/ AcceptDone(k)
             \/ Snapshot(k) \/ AllClosed(k) \/ HandlersDone(k)
      PROVE  Forward
  <2>1. /\ caller'[k] # caller[k] /\ CallerNo(caller[k]) < CallerNo(caller'[k])
        /\ \A j \in Callers : j # k => caller'[j] = caller[j]
    <3>1. ASSUME NEW from, NEW to, Goes(k, from, to)
          PROVE  caller[k] = from /\ caller'[k] = to /\ \A j \in Callers : j # k => caller'[j] = caller[j]
      BY <3>1 DEF Goes, TypeOK
    <3>2. CASE Call(k) \/ OnceFirst(k) \/ OnceDone(k) \/ CloseListener(k)
      BY <3>1, <3>2 DEF Call, OnceFirst, OnceDone, CloseListener, CallerNo
    <3>3. CASE AcceptDone(k) \/ Snapshot(k) \/ AllClosed(k) \/ HandlersDone(k)
      BY <3>1, <3>3 DEF AcceptDone, Snapshot, AllClosed, HandlersDone, CallerNo
    <3> QED
      BY <1>4, <3>2, <3>3
  <2>2. /\ UNCHANGED <<open, loop, staple>> /\ (listening' => listening)
        /\ active' = active \/ caller[k] = "snapshot"
        /\ \A c \in Conns : stage'[c] # stage[c] => stage[c] = "queued" /\ stage'[c] = "refused"
    BY <1>4
    DEF Call, OnceFirst, OnceDone, CloseListener, AcceptDone, Snapshot, AllClosed, HandlersDone, Goes,
        server, staples, TypeOK
  <2>3. \A c \in Conns : stage'[c] # stage[c] => StageNo(stage[c]) < StageNo(stage'[c])
    BY <2>2 DEF StageNo
  <2> QED
    BY <2>1, <2>2, <2>3 DEF Forward, Progress, TypeOK
<1>5. ASSUME NEW k \in Callers, CloseActive(k) PROVE Forward
  <2>1. PICK c \in active : active' = active \ {c} /\ open' = open \ {c}
    BY <1>5 DEF CloseActive
  <2>2. UNCHANGED <<listening, loop, stage, caller, staple>>
    BY <1>5 DEF CloseActive, server, staples
  <2>3. active' # active /\ active' \subseteq active /\ open' \ open = {}
    BY <2>1
  <2> QED
    BY <2>2, <2>3 DEF Forward, Progress, TypeOK
<1> QED
  BY <1>1, <1>2, <1>3, <1>4, <1>5 DEF Next, Handle, Serve, Close

(* No connection and no call of Close goes back or is served twice: the half *)
(* of PeersReleased and CloseReturns that needs no fairness.                 *)
THEOREM ServerGoesForward == Spec => OnlyForward
<1>1. ServerInv /\ [Next]_vars => [Forward]_vars
  BY ServerStepForward
<1> QED
  BY <1>1, ServerInvariance, PTL DEF Spec, OnlyForward

=============================================================================
