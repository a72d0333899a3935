----------------------- MODULE UsrsockExchangeProofs -----------------------
(***************************************************************************)
(* The exchange of request and response between the threads and the first  *)
(* daemon: theorems about module Usrsock for applications that give every  *)
(* socket to one thread and wait for the end of their connects, and for a  *)
(* daemon that aborts no single socket (Orderly).                          *)
(*                                                                         *)
(* Without these conditions a thread may begin a request on a connection   *)
(* whose last request is still to be answered, and nothing tells the two   *)
(* responses apart: the exchange id is the number of the connection.       *)
(***************************************************************************)
EXTENDS UsrsockWaitProofs

Orderly ==
  /\ ~Shared
  /\ \A ev \in EventMsgs : "ABORT" \notin ev
  /\ "connect" \in Ops => ~Signals /\ ("connect" \in InProgress => TRUE \notin NonBlock)

-----------------------------------------------------------------------------
(* What holds whatever the conditions                                      *)

(* Exchange ids are numbers of connections, events are what the daemon     *)
(* sends, a signal ends a wait only where there are signals, and a         *)
(* connect() was asked for by the application.                             *)
AskInv ==
  /\ dmn.pc = "event" => dmn.ev \in EventMsgs
  /\ \A c \in Conns : conn[c].xid \in {0, c}
  /\ \A t \in Threads :
       /\ thr[t].wake = "signal" => Signals
       /\ thr[t].pc \in RequestPlaces => MayAsk(thr[t].op, thr[t].nonblock)

(* What the calls leave of AskInv for one thread.                          *)
AskRecord(s) ==
  /\ s.wake = "signal" => Signals
  /\ s.pc \in RequestPlaces => MayAsk(s.op, s.nonblock)

(* The records a call can be left with.                                    *)
LEMMA AskRecords ==
  ASSUME NEW c \in Conns, NEW op \in Requests, NEW nonblock \in BOOLEAN, NEW wanted
  PROVE  /\ MayAsk(op, nonblock) => AskRecord(AskingThread(op, c, nonblock))
         /\ AskRecord(AwaitingThread(op, c, nonblock))
         /\ AskRecord(PollingThread(c, wanted)) /\ AskRecord(IdleThread)
         /\ AskRecord(MakingThread(c)) /\ AskRecord(ClosingThread(c))
<1>1. /\ PollingThread(c, wanted).wake = "no" /\ MakingThread(c).wake = "no"
      /\ ClosingThread(c).wake = "no" /\ IdleThread.wake = "no"
  BY DEF PollingThread, MakingThread, ClosingThread, Armed, IdleThread
<1> QED
  BY <1>1, WaitingThreads, OtherThreads DEF AskRecord, RequestPlaces

(* Every form of a call's step keeps exchange ids and what was asked for.  *)
LEMMA FormAsk ==
  ASSUME ConnInv, AskInv, NEW t \in Threads, CallForm(t)
  PROVE  /\ \A c \in Conns : conn'[c].xid \in {0, c}
         /\ \A u \in Threads : AskRecord(thr'[u])
<1>1. PICK c \in Conns :
          \/ Ends(t, c) \/ MakesSocket(t, c) \/ TakesConn(t, c) \/ DropsConn(t, c)
          \/ Shuts(t, c) \/ Polls(t, c) \/ Dups(t, c)
          \/ \E op \in Requests : Asks(t, c, op) \/ Awaits(t, c, op)
  BY DEF CallForm
<1>2. thr \in [Threads -> ThreadRecords] /\ \A u \in Threads : AskRecord(thr[u])
  BY ConnFacts DEF AskInv, AskRecord
<1>3. conn \in ConnFun /\ \A d \in Conns : conn[d].xid \in {0, d}
  BY ConnFacts DEF AskInv
<1>4. ClearedConn.xid = 0
  BY DEF ClearedConn
<1>5. thr' = thr \/ \E r : AskRecord(r) /\ thr' = [thr EXCEPT ![t] = r]
  <2>1. CASE Ends(t, c) \/ MakesSocket(t, c) \/ DropsConn(t, c)
    BY <2>1, AskRecords DEF Ends, MakesSocket, DropsConn, Requests
  <2>2. CASE TakesConn(t, c) \/ Shuts(t, c) \/ Polls(t, c) \/ Dups(t, c)
    BY <2>2, AskRecords DEF TakesConn, Shuts, Polls, Dups, Requests
  <2>3. CASE \E op \in Requests : Asks(t, c, op) \/ Awaits(t, c, op)
    BY <2>3, AskRecords DEF Asks, Awaits
  <2> QED
    BY <1>1, <2>1, <2>2, <2>3
<1>6. \/ conn' = conn
      \/ /\ \A d \in Conns \ {c} : conn'[d] = conn[d]
         /\ conn'[c].xid \in {0, c, conn[c].xid}
  <2>1. CASE Ends(t, c) \/ MakesSocket(t, c) \/ Shuts(t, c) \/ Polls(t, c) \/ Dups(t, c)
    BY <2>1 DEF Ends, MakesSocket, Shuts, Polls, Dups, Kept, OnlyConn
  <2>2. CASE TakesConn(t, c) \/ DropsConn(t, c)
    BY <1>3, <1>4, <2>2 DEF TakesConn, DropsConn, OnlyConn, ConnFun
  <2>3. CASE \E op \in Requests : Asks(t, c, op) \/ Awaits(t, c, op)
    BY <2>3 DEF Asks, Awaits, Kept, OnlyConn
  <2> QED
    BY <1>1, <2>1, <2>2, <2>3
<1> QED
  BY <1>2, <1>3, <1>5, <1>6

(* An event keeps them.                                                    *)
LEMMA HeardAsk ==
  ASSUME ConnInv, WaitInv, AskInv, NEW c \in Conns, Raises(c)
  PROVE  /\ \A d \in Conns : conn'[d].xid \in {0, d}
         /\ \A u \in Threads : AskRecord(thr'[u])
<1>1. PICK cr \in ConnRecords, ev \in SUBSET Events :
        /\ Finds(c, cr)
        /\ ev = {"REQ_COMPLETE"} \/ ev \subseteq ExternalEvents
        /\ usrsock_event(c, cr, ev)
  BY DEF Raises
<1>2. EventLeaves(c, cr, ev)
  BY <1>1, EventLeft
<1>3. \A d \in Conns : conn'[d].xid \in {0, d}
  BY <1>1, <1>2 DEF EventLeaves, OnlyConn, Finds, AskInv
<1> DEFINE upd == StateUpdate(cr, ev)
<1>4. ASSUME NEW u \in Threads PROVE AskRecord(thr'[u])
  <2>1. thr[u] \in ThreadRecords /\ AskRecord(thr[u]) /\ WaitRecord(thr[u])
    BY ConnFacts DEF AskInv, AskRecord, WaitInv
  <2>2. upd \in ConnRecords
    BY StateUpdateType
  <2> HIDE DEF upd
  <2>3. ASSUME NEW seen, thr'[u] = Handler(thr[u], upd, seen)
        PROVE  AskRecord(thr'[u])
    <3>1. ASSUME NEW s \in ThreadRecords, NEW cs \in ConnRecords
          PROVE  LET h == Handler(s, cs, seen)
                 IN  /\ h.pc = s.pc /\ h.op = s.op
                     /\ h.nonblock = s.nonblock /\ h.wake = s.wake
      BY DEF Handler, socket_event, close_event, bind_event, connect_event,
         setsockopt_event, getsockopt_event, getsockname_event, sendto_event,
         recvfrom_event, poll_event, IoEvent, RequestEvent, Completed, Wakeup, ThreadRecords
    <3> QED
      BY <2>1, <2>2, <2>3, <3>1 DEF AskRecord
  <2>4. Hears(u, c, cr, ev)
    BY <1>1, EventHeard DEF Finds
  <2> QED
    BY <2>1, <2>3, <2>4 DEF Hears, upd
<1> QED
  BY <1>3, <1>4

(* A response takes its request from the daemon's hands, or marks it, and  *)
(* changes nothing else of where the daemon is.                            *)
LEMMA DaemonResponds ==
  ASSUME Inv, NEW t \in Threads, usrsockdev_handle_req_response(t)
  PROVE  /\ dmn.pc = "open" /\ dmn'.pc = "open" /\ dmn'.sessions = dmn.sessions
         /\ dmn'.conn = dmn.conn /\ dmn'.ev = dmn.ev
<1>1. dmn \in DmnRecords /\ dmn.pc = "open"
  BY DevUnchanged DEF usrsockdev_handle_req_response, DaemonRuns
<1>2. PICK r \in dmn.pend : RespondInProgress(r) \/ RespondFinally(r)
  BY DEF usrsockdev_handle_req_response
<1>3. \/ \E pend : dmn' = [dmn EXCEPT !.pend = pend]
      \/ \E result \in Answers(r), owes \in BOOLEAN : dmn' = DaemonAfter(r, result, owes)
  BY <1>2 DEF RespondInProgress, RespondFinally, usrsockdev_handle_response,
     usrsockdev_handle_datareq_response
<1>4. ASSUME NEW pend, dmn' = [dmn EXCEPT !.pend = pend]
      PROVE  /\ dmn'.pc = dmn.pc /\ dmn'.sessions = dmn.sessions
             /\ dmn'.conn = dmn.conn /\ dmn'.ev = dmn.ev
  BY <1>1, <1>4 DEF DmnRecords
<1>5. ASSUME NEW result, NEW owes, dmn' = DaemonAfter(r, result, owes)
      PROVE  /\ dmn'.pc = dmn.pc /\ dmn'.sessions = dmn.sessions
             /\ dmn'.conn = dmn.conn /\ dmn'.ev = dmn.ev
  BY <1>1, <1>5 DEF DmnRecords, DaemonAfter
<1> QED
  BY <1>1, <1>3, <1>4, <1>5

(* Every step keeps them.                                                  *)
LEMMA NextAskInv == ConnInv /\ WaitInv /\ AskInv /\ [Next]_vars => AskInv'
<1> SUFFICES ASSUME ConnInv, WaitInv, AskInv, [Next]_vars PROVE AskInv'
  OBVIOUS
<1>1. /\ thr \in [Threads -> ThreadRecords] /\ \A u \in Threads : AskRecord(thr[u])
      /\ dmn \in DmnRecords
  BY ConnFacts, DevUnchanged DEF AskInv, AskRecord, ConnInv
<1>2. conn \in ConnFun /\ \A d \in Conns : conn[d].xid \in {0, d}
  BY ConnFacts DEF AskInv
<1>3. ASSUME dmn'.pc = "event" => dmn'.ev \in EventMsgs,
             \A c \in Conns : conn'[c].xid \in {0, c}, \A u \in Threads : AskRecord(thr'[u])
      PROVE  AskInv'
  BY <1>3 DEF AskInv, AskRecord
<1>4. ASSUME NEW u \in Threads, MovesUp(u) PROVE AskRecord(thr'[u])
  <2>1. "reqwait" \in RequestPlaces /\ "linegot" \in RequestPlaces
    BY DEF RequestPlaces
  <2>2. CASE thr'[u] = [thr[u] EXCEPT !.pc = "linegot"] /\ thr[u].pc = "reqwait"
    BY <1>1, <2>1, <2>2, MovedRecord DEF AskRecord
  <2> QED
    BY <1>1, <1>4, <2>2 DEF MovesUp
<1>5. ASSUME NEW t \in Threads, ThreadStep(t) PROVE AskInv'
  <2>1. dmn'.pc = "event" => dmn'.ev \in EventMsgs
    BY <1>5, ThreadLeavesDaemon DEF ConnInv, AskInv
  <2>2. CASE CallForm(t)
    BY <1>3, <2>1, <2>2, FormAsk
  <2>3. CASE TakeLine(t) \/ LeaveLine(t)
    <3>1. LineMoves(t)
      BY <2>3, LineForm
    <3>2. {"linegot", "ackwait", "respwait"} \subseteq RequestPlaces
          /\ AskRecord(IdleThread)
      BY DEF RequestPlaces, AskRecord, IdleThread
    <3>3. AskRecord(thr'[t])
      <4>1. ASSUME NEW p \in {"ackwait", "respwait"}, thr'[t] = [thr[t] EXCEPT !.pc = p]
            PROVE  AskRecord(thr'[t])
        BY <1>1, <3>1, <3>2, <4>1, MovedRecord DEF AskRecord, LineMoves
      <4> QED
        BY <3>1, <3>2, <4>1 DEF LineMoves
    <3>4. \A u \in Threads \ {t} : AskRecord(thr'[u])
      BY <1>4, <3>1 DEF LineMoves
    <3>5. \A c \in Conns : conn'[c].xid \in {0, c}
      <4>1. CASE conn' = conn
        BY <1>2, <4>1
      <4>2. CASE conn' = Released(thr[t].conn, t)
        <5>1. thr[t].conn \in Conns
          BY <3>1, ConnFacts DEF LineMoves
        <5>2. Kept(thr[t].conn, conn', conn[thr[t].conn].state)
          BY <4>2, <5>1, KeptReleased
        <5> QED
          BY <1>2, <5>1, <5>2 DEF Kept, OnlyConn
      <4> QED
        BY <3>1, <4>1, <4>2 DEF LineMoves
    <3> QED
      BY <1>3, <2>1, <3>3, <3>4, <3>5
  <2>4. CASE net_timedwait(t)
    <3>1. PICK how : /\ thr' = [thr EXCEPT ![t].wake = how]
                     /\ how = "signal" => Signals
      BY <2>4 DEF net_timedwait
    <3>2. thr[t] \in ThreadRecords /\ AskRecord(thr[t]) /\ conn' = conn
      BY <1>1, <2>4 DEF net_timedwait
    <3>3. AskRecord([thr[t] EXCEPT !.wake = how])
      BY <3>1, <3>2 DEF AskRecord, ThreadRecords
    <3>4. \A u \in Threads : AskRecord(thr'[u])
      BY <1>1, <3>1, <3>3
    <3> QED
      BY <1>2, <1>3, <2>1, <3>2, <3>4
  <2> QED
    BY <1>5, <2>2, <2>3, <2>4, ThreadForms
<1>6. CASE DaemonStep
  <2>1. dmn'.pc = "event" => dmn'.ev \in EventMsgs
    <3>1. CASE usrsockdev_handle_event
      BY <1>1, <3>1 DEF usrsockdev_handle_event, DmnRecords
    <3>2. CASE ~usrsockdev_handle_event
      <4>1. dmn'.pc = "event" => dmn.pc = "event" /\ dmn'.ev = dmn.ev
        <5>1. CASE \E t \in Threads : usrsockdev_handle_req_response(t)
          BY <5>1, DaemonResponds DEF ConnInv
        <5>2. CASE \/ usrsockdev_open \/ PollSetup \/ PollTeardown \/ usrsockdev_read
                   \/ usrsockdev_write \/ DeliverEvent
          BY <1>1, <5>2 DEF usrsockdev_open, PollSetup, PollTeardown, usrsockdev_read,
             usrsockdev_write, DeliverEvent, DaemonRuns, DmnRecords
        <5>3. CASE \/ CloseBegin \/ CloseAbort \/ CloseNext \/ CloseDown \/ CloseTimeout
                   \/ CloseEnd \/ CloseLoop
          BY <1>1, <5>3 DEF CloseBegin, CloseAbort, CloseNext, CloseDown, CloseTimeout,
             CloseEnd, CloseLoop, usrsockdev_semgive, DmnRecords
        <5> QED
          BY <1>6, <3>2, <5>1, <5>2, <5>3 DEF DaemonStep
      <4> QED
        BY <4>1 DEF AskInv
    <3> QED
      BY <3>1, <3>2
  <2>2. CASE conn' = conn /\ \A u \in Threads : MovesUp(u)
    BY <1>2, <1>3, <1>4, <2>1, <2>2
  <2>3. ASSUME NEW c \in Conns, Notes(c) PROVE AskInv'
    <3>1. PICK cr \in ConnRecords : Finds(c, cr) /\ conn' = [conn EXCEPT ![c] = cr]
      BY <2>3 DEF Notes
    <3>2. \A d \in Conns : conn'[d].xid \in {0, d}
      BY <1>2, <3>1 DEF Finds, ConnFun
    <3> QED
      BY <1>1, <1>3, <2>1, <2>3, <3>2 DEF Notes
  <2>4. ASSUME NEW c \in Conns, Raises(c) PROVE AskInv'
    BY <1>3, <2>1, <2>4, HeardAsk
  <2> QED
    BY <1>6, <2>2, <2>3, <2>4, DaemonForms DEF DaemonForm
<1>7. CASE UNCHANGED vars
  BY <1>7 DEF vars, AskInv
<1> QED
  BY <1>5, <1>6, <1>7 DEF Next

-----------------------------------------------------------------------------
(* Before the first daemon                                                 *)

(* Nobody has asked for anything.                                          *)
UnservedInv ==
  dmn.sessions = 0 =>
    /\ \A t \in Threads : thr[t].pc \notin RequestPlaces
    /\ \A c \in Conns : ~conn[c].inprogress /\ conn[c].state = "UNINITIALIZED"
    /\ dmn.pend = {}

(* Only a device that was opened is asked.                                 *)
LEMMA NextUnservedInv ==
  ConnInv /\ WaitInv /\ LeakInv /\ UnservedInv /\ [Next]_vars => UnservedInv'
<1> SUFFICES ASSUME ConnInv, WaitInv, LeakInv, UnservedInv, [Next]_vars, dmn'.sessions = 0
             PROVE  UnservedInv'
  BY DEF UnservedInv
<1>1. dmn \in DmnRecords /\ dev \in DevRecords /\ thr \in [Threads -> ThreadRecords]
      /\ conn \in ConnFun
  BY DevUnchanged, ConnFacts DEF ConnInv
<1>2. CASE UNCHANGED vars
  BY <1>2 DEF vars, UnservedInv
<1>3. ASSUME NEW t \in Threads, ThreadStep(t) PROVE UnservedInv'
  <2>1. dmn.sessions = 0
    BY <1>3, ThreadLeavesDaemon DEF ConnInv
  <2>2. dmn.pc = "closed" /\ dev.ocount = 0 /\ dmn' = dmn
    BY <2>1, <1>3, ThreadLeavesDaemon DEF ConnInv, LeakInv
  <2>3. /\ \A u \in Threads : thr[u].pc \notin RequestPlaces
        /\ \A d \in Conns : ~conn[d].inprogress /\ conn[d].state = "UNINITIALIZED"
        /\ dmn.pend = {}
    BY <2>1 DEF UnservedInv
  <2>4. CASE CallForm(t)
    <3>1. PICK c \in Conns :
              \/ Ends(t, c) \/ MakesSocket(t, c) \/ TakesConn(t, c) \/ DropsConn(t, c)
              \/ Shuts(t, c) \/ Polls(t, c) \/ Dups(t, c)
              \/ \E op \in Requests : Asks(t, c, op) \/ Awaits(t, c, op)
      BY <2>4 DEF CallForm
    <3>2. ~MakesSocket(t, c) /\ \A op \in Requests : ~Asks(t, c, op)
      BY <2>2, <2>3 DEF MakesSocket, Answer, RequestPlaces, Asks, usrsockdev_is_opened
    <3>3. thr'[t].pc \notin RequestPlaces /\ \A u \in Threads \ {t} : thr'[u] = thr[u]
      <4>1. ASSUME NEW r, thr' = [thr EXCEPT ![t] = r], r.pc \notin RequestPlaces
            PROVE  thr'[t].pc \notin RequestPlaces /\ \A u \in Threads \ {t} : thr'[u] = thr[u]
        BY <1>1, <4>1
      <4>2. CASE Ends(t, c) \/ DropsConn(t, c)
        BY <4>1, <4>2, OtherThreads DEF Ends, DropsConn, RequestPlaces
      <4>3. CASE TakesConn(t, c) \/ Shuts(t, c) \/ Polls(t, c)
        BY <4>1, <4>3, OtherThreads DEF TakesConn, Shuts, Polls, RequestPlaces
      <4>4. CASE Dups(t, c)
        BY <2>3, <4>4 DEF Dups
      <4>5. CASE \E op \in Requests : Awaits(t, c, op)
        <5>1. PICK op \in Requests, nonblock \in BOOLEAN :
                thr' = [thr EXCEPT ![t] = AwaitingThread(op, c, nonblock)]
          BY <4>5 DEF Awaits
        <5>2. AwaitingThread(op, c, nonblock).pc \notin RequestPlaces
          BY WaitingThreads DEF RequestPlaces
        <5> QED
          BY <4>1, <5>1, <5>2
      <4> QED
        BY <3>1, <3>2, <4>2, <4>3, <4>4, <4>5
    <3>4. \A d \in Conns : ~conn'[d].inprogress /\ conn'[d].state = "UNINITIALIZED"
      <4>1. ~ClearedConn.inprogress /\ ClearedConn.state = "UNINITIALIZED"
        BY DEF ClearedConn
      <4>5. conn[c].state # "READY"
        BY <2>3
      <4>6. CASE Ends(t, c)
        <5>1. conn' = conn \/ Kept(c, conn', conn[c].state)
          BY <4>5, <4>6 DEF Ends
        <5> QED
          BY <2>3, <5>1 DEF Kept, SameSocket, OnlyConn
      <4>2. CASE Polls(t, c) \/ Dups(t, c) \/ \E op \in Requests : Awaits(t, c, op)
        BY <2>3, <4>2 DEF Polls, Dups, Awaits, Kept, SameSocket, OnlyConn
      <4>3. CASE TakesConn(t, c) \/ DropsConn(t, c)
        BY <1>1, <2>3, <4>1, <4>3 DEF TakesConn, DropsConn, OnlyConn, ConnFun
      <4>4. CASE Shuts(t, c)
        BY <2>3, <4>4 DEF Shuts, OnlyConn
      <4> QED
        BY <3>1, <3>2, <4>2, <4>3, <4>4, <4>6
    <3> QED
      BY <2>2, <2>3, <3>3, <3>4 DEF UnservedInv
  <2>5. CASE net_timedwait(t)
    <3>1. conn' = conn /\ \E how : thr' = [thr EXCEPT ![t].wake = how]
      BY <2>5 DEF net_timedwait
    <3>2. \A u \in Threads : thr'[u].pc = thr[u].pc
      BY <1>1, <3>1 DEF ThreadRecords
    <3> QED
      BY <2>2, <2>3, <3>1, <3>2 DEF UnservedInv
  <2> QED
    BY <1>3, <2>3, <2>4, <2>5, ThreadForms DEF TakeLine, LeaveLine, RequestPlaces
<1>4. CASE DaemonStep
  <2>0. dmn.sessions \in Nat
    BY <1>1 DEF DmnRecords
  <2>1. CASE dmn.pc = "closed"
    <3>1. usrsockdev_open \/ PollTeardown
      BY <1>4, <2>1 DEF DaemonStep, PollSetup, usrsockdev_read, usrsockdev_handle_req_response,
         usrsockdev_write, usrsockdev_handle_event, DeliverEvent, CloseBegin, CloseAbort,
         CloseNext, CloseDown, CloseTimeout, CloseEnd, CloseLoop, DaemonRuns
    <3>2. ~usrsockdev_open
      <4>1. usrsockdev_open => dmn'.sessions = dmn.sessions + 1
        BY <1>1 DEF usrsockdev_open, DmnRecords
      <4> QED
        BY <2>0, <4>1
    <3>3. UNCHANGED <<conn, thr, dmn>>
      BY <3>1, <3>2 DEF PollTeardown
    <3> QED
      BY <3>3 DEF UnservedInv
  <2>2. CASE dmn.pc # "closed"
    <3>1. dmn.sessions >= 1
      BY <2>2 DEF LeakInv
    <3>2. dmn'.sessions = dmn.sessions
      <4>1. CASE CloseDown
        BY <1>1, <4>1 DEF CloseDown, DmnRecords
      <4>2. CASE CloseEnd
        BY <1>1, <4>2 DEF CloseEnd, usrsockdev_semgive, DmnRecords
      <4>3. CASE CloseLoop
        BY <1>1, <4>3 DEF CloseLoop, DmnRecords
      <4>4. ~usrsockdev_open
        BY <2>2 DEF usrsockdev_open
      <4> QED
        BY <1>4, <4>1, <4>2, <4>3, <4>4, SessionStays DEF ConnInv
    <3> QED
      BY <2>0, <3>1, <3>2
  <2> QED
    BY <2>1, <2>2
<1> QED
  BY <1>2, <1>3, <1>4 DEF Next

-----------------------------------------------------------------------------
(* The exchange while the first daemon serves the device                   *)

Serving == dmn.pc \in {"open", "event"}

(* The request of thread t is still to be read, or it was read.            *)
Unread(t) ==
  \/ thr[t].pc \in {"reqwait", "linegot"}
  \/ thr[t].pc = "ackwait" /\ dev.iov = t /\ ~dev.rd
WasRead(t) ==
  \/ thr[t].pc = "respwait"
  \/ thr[t].pc = "ackwait" /\ (dev.iov # t \/ dev.rd)

(* A request the daemon holds is that of a call which waits for its        *)
(* response on a connection that will take it.                             *)
PendOk(r) ==
  /\ thr[r.th].conn = r.xid /\ thr[r.th].op = r.op
  /\ thr[r.th].cb = RequestFlags /\ WasRead(r.th)
  /\ conn[r.xid].xid = r.xid /\ dev.datain # r.xid
  /\ r.op \in DataRequests => conn[r.xid].datain = r.th

(* A request the daemon has not read will find its connection so.          *)
AskOk(t, c) ==
  /\ thr[t].cb = RequestFlags
  /\ conn[c].xid = c /\ ~conn[c].inprogress
  /\ thr[t].op \in DataRequests => conn[c].datain = t

Asked(t) == \E r \in dmn.pend : r.th = t

(* The state of the exchange of thread t. The daemon holds one request of  *)
(* it at most; what is on the line was read only if the daemon holds it;   *)
(* and a call that is still to be completed has an acknowledgment, an      *)
(* answer or its data to come.                                             *)
CallOk(t) ==
  /\ \A r \in dmn.pend : r.th = t => PendOk(r)
  /\ \A r, q \in dmn.pend : r.th = t /\ q.th = t => r = q
  /\ Unread(t) => AskOk(t, thr[t].conn)
  /\ dev.iov = t => dev.ackxid = thr[t].conn /\ (dev.rd => Asked(t))
  /\ thr[t].pc = "ackwait" => dev.acksem > 0 \/ dev.iov = t
  /\ WasRead(t) /\ thr[t].cb = RequestFlags =>
       FaultyDaemon \/ Asked(t) \/ dev.datain = thr[t].conn

(* The data under way are those of the call that the connection was        *)
(* answered for.                                                           *)
DataFor(t) ==
  /\ thr[t].conn = dev.datain /\ WasRead(t) /\ thr[t].cb = RequestFlags
  /\ conn[dev.datain].answered = [th |-> t, op |-> thr[t].op]
DataOk == dev.datain # NoConn => \E t \in Threads : DataFor(t)

(* "In progress" is said of a request the daemon holds.                    *)
InProgressOk(c) == conn[c].inprogress => \E r \in dmn.pend : r.xid = c /\ r.op \in InProgress

ExchangeInv ==
  /\ \A t \in Threads : CallOk(t)
  /\ DataOk
  /\ \A c \in Conns : conn[c].state # "ABORTED" /\ InProgressOk(c)

ExchInv ==
  dmn.sessions <= 1 => /\ IF Serving THEN ExchangeInv ELSE dmn.pend = {}
                       /\ ResponseMatch

(* What the proofs rest on.                                                *)
Base ==
  /\ ConnInv /\ WaitInv /\ ServedInv /\ AskInv /\ UnservedInv
  /\ LeakInv /\ WriteInv /\ LineOwner

(* The device of the first daemon.                                         *)
LEMMA ServingFacts ==
  ASSUME Base, Serving, dmn.sessions <= 1
  PROVE  /\ usrsockdev_is_opened /\ dev.ocount = 1 /\ ~dev.leaked
         /\ dev \in DevRecords /\ dmn \in DmnRecords
         /\ dev.iov # NoThread => /\ dev.iov \in Threads /\ thr[dev.iov].pc = "ackwait"
                                  /\ dev.acksem = 0
         /\ dev.datain # NoConn => dev.datain \in Conns
         /\ dev.datain # NoConn <=> dmn.owes
         /\ \A t, u \in Threads : thr[t].pc \in {"linegot", "ackwait"}
                                  /\ thr[u].pc \in {"linegot", "ackwait"} => t = u
         /\ \A r \in dmn.pend : r.th \in Threads /\ r.xid \in Conns /\ r.op \in Requests
<1>1. dev \in DevRecords /\ dmn \in DmnRecords /\ dmn.sessions \in Nat
  BY DevUnchanged DEF Base, ConnInv, DmnRecords
<1>2. dev.ocount = 1
  BY DEF Base, ConnInv, Inv, PlaceInv, Serving
<1>3. ~dev.leaked
  BY <1>1, <1>2 DEF Base, LeakInv
<1>4. dev.iov \in Threads \cup {NoThread} /\ dev.datain \in {NoConn} \cup Conns
  BY <1>1 DEF DevRecords
<1>5. \A r \in dmn.pend : r.th \in Threads /\ r.xid \in Conns /\ r.op \in Requests
  BY <1>1 DEF DmnRecords, PendingRequests
<1>6. dev.datain # NoConn <=> dmn.owes
  BY DEF Base, WriteInv, WriteInStep, Serving
<1>7. \A t, u \in Threads : thr[t].pc \in {"linegot", "ackwait"}
                            /\ thr[u].pc \in {"linegot", "ackwait"} => t = u
  BY DEF Base, ConnInv, Inv, LineInv, Holds
<1> QED
  BY <1>1, <1>2, <1>3, <1>4, <1>5, <1>6, <1>7 DEF Base, LineOwner, usrsockdev_is_opened

(* Every connection has one call at most.                                  *)
LEMMA OneCall ==
  ASSUME ~Shared, Base, NEW t \in Threads, NEW u \in Threads, thr[t].conn \in Conns,
         thr[t].conn = thr[u].conn
  PROVE  t = u
  BY SoleCall DEF Base

(* The step leaves the exchange of thread u alone.                         *)
SameExchange(a, b) ==
  /\ b.xid = a.xid /\ b.inprogress = a.inprogress /\ b.datain = a.datain
  /\ b.answered = a.answered
Quiet(u) ==
  /\ MovesUp(u)
  /\ thr[u].conn \in Conns =>
       /\ SameExchange(conn[thr[u].conn], conn'[thr[u].conn])
       /\ dev'.datain = thr[u].conn <=> dev.datain = thr[u].conn
  /\ dev'.iov = u <=> dev.iov = u
  /\ dev.iov = u => dev'.rd = dev.rd /\ dev'.ackxid = dev.ackxid
  /\ thr[u].pc = "ackwait" /\ dev.acksem > 0 => dev'.acksem > 0
  /\ \A r \in PendingRequests : r.th = u => (r \in dmn'.pend <=> r \in dmn.pend)

(* Where a quiet call is.                                                  *)
LEMMA QuietPlace ==
  ASSUME ConnInv, WaitInv, NEW u \in Threads, Quiet(u)
  PROVE  /\ Unread(u)' <=> Unread(u)
         /\ WasRead(u)' <=> WasRead(u)
         /\ thr'[u].conn = thr[u].conn /\ thr'[u].op = thr[u].op /\ thr'[u].cb = thr[u].cb
         /\ thr'[u].from = thr[u].from
         /\ thr'[u].pc = "ackwait" => thr[u].pc = "ackwait"
<1>1. CASE thr'[u] = thr[u]
  BY <1>1 DEF Quiet, Unread, WasRead
<1>2. CASE thr[u].pc = "reqwait" /\ thr'[u] = [thr[u] EXCEPT !.pc = "linegot"]
  <2>1. thr[u] \in ThreadRecords /\ "reqwait" \in RequestPlaces /\ "linegot" \in RequestPlaces
    BY ConnFacts DEF RequestPlaces
  <2>2. /\ thr'[u].pc = "linegot" /\ thr'[u].conn = thr[u].conn /\ thr'[u].op = thr[u].op
        /\ thr'[u].cb = thr[u].cb /\ thr'[u].from = thr[u].from
    BY <1>2, <2>1, MovedRecord
  <2> QED
    BY <1>2, <2>2 DEF Unread, WasRead
<1> QED
  BY <1>1, <1>2 DEF Quiet, MovesUp

(* Its exchange stays in order.                                            *)
LEMMA QuietCall ==
  ASSUME ConnInv, WaitInv, dmn \in DmnRecords, dmn' \in DmnRecords,
         NEW u \in Threads, Quiet(u), CallOk(u)
  PROVE  CallOk(u)'
<1>1. /\ Unread(u)' <=> Unread(u)
      /\ WasRead(u)' <=> WasRead(u)
      /\ thr'[u].conn = thr[u].conn /\ thr'[u].op = thr[u].op /\ thr'[u].cb = thr[u].cb
      /\ thr'[u].pc = "ackwait" => thr[u].pc = "ackwait"
  BY QuietPlace
<1>2. /\ \A r \in dmn'.pend : r \in PendingRequests /\ r.xid \in Conns
      /\ \A r \in dmn.pend : r \in PendingRequests /\ r.xid \in Conns
  BY DEF DmnRecords, PendingRequests
<1>3. \A r \in dmn'.pend : r.th = u => r \in dmn.pend
  BY <1>2 DEF Quiet
<1>4. Asked(u)' <=> Asked(u)
  BY <1>2 DEF Quiet, Asked
<1>5. Unread(u) \/ WasRead(u) => thr[u].conn \in Conns
  BY ConnFacts DEF Unread, WasRead
<1>6. ASSUME NEW r \in dmn'.pend, r.th = u PROVE PendOk(r)'
  <2>1. PendOk(r) /\ r.xid = thr[u].conn /\ r.xid \in Conns
    BY <1>2, <1>3, <1>6 DEF CallOk, PendOk
  <2> QED
    BY <1>1, <1>6, <2>1 DEF PendOk, Quiet, SameExchange
<1>7. \A r, q \in dmn'.pend : r.th = u /\ q.th = u => r = q
  BY <1>3 DEF CallOk
<1>8. Unread(u)' => AskOk(u, thr[u].conn)'
  BY <1>1, <1>5 DEF CallOk, AskOk, Quiet, SameExchange
<1>9. dev'.iov = u => dev'.ackxid = thr'[u].conn /\ (dev'.rd => Asked(u)')
  BY <1>1, <1>4 DEF CallOk, Quiet
<1>10. thr'[u].pc = "ackwait" => dev'.acksem > 0 \/ dev'.iov = u
  BY <1>1 DEF CallOk, Quiet
<1>11. WasRead(u)' /\ thr'[u].cb = RequestFlags =>
         FaultyDaemon \/ Asked(u)' \/ dev'.datain = thr'[u].conn
  BY <1>1, <1>4, <1>5 DEF CallOk, Quiet
<1> QED
  BY <1>1, <1>6, <1>7, <1>8, <1>9, <1>10, <1>11 DEF CallOk

(* So do the data under way.                                               *)
LEMMA QuietData ==
  ASSUME ConnInv, WaitInv, NEW u \in Threads, Quiet(u), DataFor(u), dev.datain # NoConn,
         dev \in DevRecords, dev'.datain # NoConn => dev'.datain = dev.datain
  PROVE  DataOk'
<1>1. /\ WasRead(u)' <=> WasRead(u)
      /\ thr'[u].conn = thr[u].conn /\ thr'[u].op = thr[u].op /\ thr'[u].cb = thr[u].cb
  BY QuietPlace
<1>2. dev.datain \in Conns
  BY DEF DevRecords
<1>3. DataFor(u)'
  BY <1>1, <1>2 DEF DataFor, Quiet, SameExchange
<1> QED
  BY <1>3 DEF DataOk

(* A thread without a request under way has no exchange.                   *)
LEMMA NoExchange ==
  ASSUME NEW u \in Threads, thr'[u].pc \notin RequestPlaces, dev'.iov # u,
         \A r \in dmn'.pend : r.th # u
  PROVE  CallOk(u)'
  BY DEF CallOk, Unread, WasRead, RequestPlaces, PendOk, AskOk

-----------------------------------------------------------------------------
(* The steps of the calls in the exchange                                  *)

(* What the exchange sees of a call's step: a call goes on only when it    *)
(* has no request under way, on a connection of its own, and at most asks  *)
(* for something new.                                                      *)
CallSeen(t) ==
  /\ Resumes(t) \/ thr[t].pc = "freeing"
  /\ \A u \in Threads \ {t} :
       /\ thr'[u] = thr[u]
       /\ thr[u].conn \in Conns => conn'[thr[u].conn] = conn[thr[u].conn]
  /\ \A d \in Conns : /\ conn'[d].inprogress => conn[d].inprogress
                      /\ conn'[d].state = "ABORTED" => conn[d].state = "ABORTED"
  /\ dev' = dev \/ dev' = [dev EXCEPT !.nbusy = @ + 1, !.sem = IF @ > 0 THEN @ - 1 ELSE @]
  /\ \/ thr'[t].pc \notin RequestPlaces
     \/ \E c \in Conns, op \in Requests : Asks(t, c, op)
  /\ thr'[t] = thr[t] \/ thr'[t].from = NoRequest

(* A step on a connection that nobody else is in a call on.                *)
LEMMA SeenAlone ==
  ASSUME ConnInv, NEW t \in Threads, NEW c \in Conns, OnlyConn(c, conn'),
         \A u \in Threads \ {t} : thr[u].conn # c
  PROVE  \A u \in Threads \ {t} :
           thr[u].conn \in Conns => conn'[thr[u].conn] = conn[thr[u].conn]
  BY DEF OnlyConn

(* A connection that is kept.                                              *)
LEMMA SeenKept ==
  ASSUME NEW c \in Conns, NEW s, Kept(c, conn', s), s # "ABORTED" \/ s = conn[c].state
  PROVE  \A d \in Conns : /\ conn'[d].inprogress => conn[d].inprogress
                          /\ conn'[d].state = "ABORTED" => conn[d].state = "ABORTED"
  BY DEF Kept, OnlyConn, SameSocket

(* The call returns.                                                       *)
LEMMA EndsSeen ==
  ASSUME ~Shared, Base, NEW t \in Threads, NEW c \in Conns, Ends(t, c)
  PROVE  CallSeen(t)
<1>1. ConnInv /\ ServedInv /\ thr \in [Threads -> ThreadRecords] /\ conn \in ConnFun
  BY ConnFacts DEF Base
<1>2. Resumes(t) /\ thr' = [thr EXCEPT ![t] = IdleThread] /\ dev' = dev
  BY DEF Ends
<1>3. thr'[t] = IdleThread /\ \A u \in Threads \ {t} : thr'[u] = thr[u]
  BY <1>1, <1>2
<1>4. thr'[t].pc \notin RequestPlaces /\ thr'[t].from = NoRequest
  BY <1>3 DEF IdleThread, RequestPlaces
<1>5. CASE conn' = conn
  BY <1>2, <1>3, <1>4, <1>5 DEF CallSeen
<1>6. CASE conn' # conn
  <2>1. PICK s : Kept(c, conn', s) /\ (s # "ABORTED" \/ s = conn[c].state) /\ InCall(t, c)
    <3>1. thr[t].pc = "idle" => thr[t].conn = NoConn
      BY <1>1, ConnFacts
    <3> QED
      BY <1>6, <3>1 DEF Ends, InCall
  <2>2. \A u \in Threads \ {t} : thr[u].conn # c
    BY <1>1, <2>1, SoleCall DEF InCall
  <2>3. \A u \in Threads \ {t} :
          thr[u].conn \in Conns => conn'[thr[u].conn] = conn[thr[u].conn]
    BY <1>1, <2>1, <2>2, SeenAlone DEF Kept
  <2>4. \A d \in Conns : /\ conn'[d].inprogress => conn[d].inprogress
                         /\ conn'[d].state = "ABORTED" => conn[d].state = "ABORTED"
    BY <2>1, SeenKept
  <2> QED
    BY <1>2, <1>3, <1>4, <2>3, <2>4 DEF CallSeen
<1> QED
  BY <1>5, <1>6

(* A socket is made, taken, dropped or shut.                               *)
LEMMA SocketSeen ==
  ASSUME ~Shared, Base, NEW t \in Threads, NEW c \in Conns,
         MakesSocket(t, c) \/ TakesConn(t, c) \/ DropsConn(t, c) \/ Shuts(t, c)
  PROVE  CallSeen(t)
<1>1. ConnInv /\ ServedInv /\ thr \in [Threads -> ThreadRecords] /\ conn \in ConnFun
  BY ConnFacts DEF Base
<1>2. Resumes(t) \/ thr[t].pc = "freeing"
  BY DEF MakesSocket, TakesConn, DropsConn, Shuts, Resumes, MayUse
<1>3. /\ dev' = dev
      /\ \E r \in {IdleThread, MakingThread(c), ClosingThread(c)} : thr' = [thr EXCEPT ![t] = r]
  BY DEF MakesSocket, TakesConn, DropsConn, Shuts
<1>4. \A r \in {IdleThread, MakingThread(c), ClosingThread(c)} :
        r.pc \notin RequestPlaces /\ r.from = NoRequest
  BY OtherThreads DEF RequestPlaces
<1>5. /\ \A u \in Threads \ {t} : thr'[u] = thr[u]
      /\ thr'[t].pc \notin RequestPlaces /\ thr'[t].from = NoRequest
  BY <1>1, <1>3, <1>4
<1>6. \A u \in Threads \ {t} : thr[u].conn # c
  <2>1. CASE MakesSocket(t, c)
    BY <1>1, <2>1, SoleCall DEF MakesSocket
  <2> QED
    BY <1>1, <2>1, WorksAlone
<1>7. OnlyConn(c, conn')
  <2>1. ClearedConn \in ConnRecords
    BY DEF ClearedConn, ConnRecords, ConnStates, RequestIds, NoRequest
  <2>2. CASE TakesConn(t, c)
    BY <1>1, <2>1, <2>2 DEF TakesConn, OnlyConn, ConnFun
  <2> QED
    BY <2>2 DEF MakesSocket, DropsConn, Shuts
<1>8. \A d \in Conns : /\ conn'[d].inprogress => conn[d].inprogress
                       /\ conn'[d].state = "ABORTED" => conn[d].state = "ABORTED"
  <2>1. ~ClearedConn.inprogress /\ ClearedConn.state = "UNINITIALIZED"
    BY DEF ClearedConn
  <2>2. \/ conn'[c] = ClearedConn
        \/ /\ conn'[c].inprogress = conn[c].inprogress
           /\ conn'[c].state \in {conn[c].state, "UNINITIALIZED"}
    BY <1>1 DEF MakesSocket, TakesConn, DropsConn, Shuts, ConnFun
  <2> QED
    BY <1>7, <2>1, <2>2 DEF OnlyConn
<1> QED
  BY <1>1, <1>2, <1>3, <1>5, <1>6, <1>7, <1>8, SeenAlone DEF CallSeen

(* The call waits or asks.                                                 *)
LEMMA WaitsSeen ==
  ASSUME ~Shared, Base, NEW t \in Threads, NEW c \in Conns,
         \/ Polls(t, c) \/ Dups(t, c)
         \/ \E op \in Requests : Asks(t, c, op) \/ Awaits(t, c, op)
  PROVE  CallSeen(t)
<1>1. ConnInv /\ ServedInv /\ thr \in [Threads -> ThreadRecords] /\ conn \in ConnFun
  BY ConnFacts DEF Base
<1>2. Resumes(t) /\ InCall(t, c)
  BY <1>1, BeginsFacts, NewCall DEF Polls, Dups, Asks, Awaits
<1>3. \A u \in Threads \ {t} : thr[u].conn # c
  BY <1>1, <1>2, SoleCall DEF InCall
<1>4. OnlyConn(c, conn')
  BY DEF Polls, Dups, Asks, Awaits, Kept
<1>5. \A d \in Conns : /\ conn'[d].inprogress => conn[d].inprogress
                       /\ conn'[d].state = "ABORTED" => conn[d].state = "ABORTED"
  <2>1. SameSocket(conn[c], conn'[c]) /\ conn'[c].state \in {conn[c].state, "CONNECTING"}
    BY DEF Polls, Dups, Asks, Awaits, Kept
  <2> QED
    BY <1>4, <2>1 DEF OnlyConn, SameSocket
<1>6. /\ \A u \in Threads \ {t} : thr'[u] = thr[u]
      /\ thr'[t] = thr[t] \/ thr'[t].from = NoRequest
      /\ thr'[t].pc \notin RequestPlaces \/ \E op \in Requests : Asks(t, c, op)
  <2>1. CASE Polls(t, c)
    <3>1. PICK wanted : thr' = [thr EXCEPT ![t] = PollingThread(c, wanted)]
      BY <2>1 DEF Polls
    <3> QED
      BY <1>1, <3>1, OtherThreads DEF RequestPlaces
  <2>2. CASE Dups(t, c)
    <3>1. thr' = thr /\ thr[t].pc = "idle"
      BY <2>2 DEF Dups, MayUse
    <3> QED
      BY <3>1 DEF RequestPlaces
  <2>3. ASSUME NEW op \in Requests, Asks(t, c, op)
        PROVE  (\A u \in Threads \ {t} : thr'[u] = thr[u]) /\ thr'[t].from = NoRequest
    <3>1. PICK nonblock \in BOOLEAN : thr' = [thr EXCEPT ![t] = AskingThread(op, c, nonblock)]
      BY <2>3 DEF Asks
    <3> QED
      BY <1>1, <3>1, WaitingThreads
  <2>4. ASSUME NEW op \in Requests, Awaits(t, c, op)
        PROVE  /\ \A u \in Threads \ {t} : thr'[u] = thr[u]
               /\ thr'[t].from = NoRequest /\ thr'[t].pc \notin RequestPlaces
    <3>1. PICK nonblock \in BOOLEAN : thr' = [thr EXCEPT ![t] = AwaitingThread(op, c, nonblock)]
      BY <2>4 DEF Awaits
    <3>2. "rdywait" \notin RequestPlaces
      BY DEF RequestPlaces
    <3> QED
      BY <1>1, <3>1, <3>2, WaitingThreads
  <2> QED
    BY <2>1, <2>2, <2>3, <2>4
<1>7. dev' = dev \/ dev' = [dev EXCEPT !.nbusy = @ + 1, !.sem = IF @ > 0 THEN @ - 1 ELSE @]
  BY DEF Polls, Dups, Asks, Awaits
<1> QED
  BY <1>1, <1>2, <1>3, <1>4, <1>5, <1>6, <1>7, SeenAlone DEF CallSeen

(* Every form is seen so.                                                  *)
LEMMA FormSeen ==
  ASSUME ~Shared, Base, NEW t \in Threads, CallForm(t)
  PROVE  CallSeen(t)
  BY EndsSeen, SocketSeen, WaitsSeen DEF CallForm

(* A call that goes on has nothing under way with the daemon.              *)
LEMMA RestsUnasked ==
  ASSUME Orderly, Base, Serving, dmn.sessions <= 1, ExchangeInv,
         NEW t \in Threads, Resumes(t) \/ thr[t].pc = "freeing"
  PROVE  /\ thr[t].pc \notin {"reqwait", "linegot", "ackwait"}
         /\ ~(WasRead(t) /\ thr[t].cb = RequestFlags)
         /\ \A r \in dmn.pend : r.th # t
         /\ dev.iov # t
<1>1. thr[t].pc \notin {"reqwait", "linegot", "ackwait"}
  BY DEF Resumes, Answer
<1>2. thr[t].pc = "respwait" => thr[t].cb = {}
  <2>1. ASSUME thr[t].pc = "respwait", thr[t].op = "connect", thr[t].wake = "signal"
        PROVE  FALSE
    BY <2>1 DEF Base, AskInv, RequestPlaces, MayAsk, Orderly
  <2>2. thr[t].pc = "respwait" => Answer(t)
    BY <2>1 DEF Resumes
  <2> QED
    BY <2>2 DEF Answer, Base, WaitInv, WaitRecord, RequestPlaces
<1>3. ~(WasRead(t) /\ thr[t].cb = RequestFlags)
  BY <1>1, <1>2 DEF WasRead, RequestFlags
<1>4. \A r \in dmn.pend : r.th # t
  BY <1>3 DEF ExchangeInv, CallOk, PendOk
<1>5. dev.iov # t
  BY <1>1, ServingFacts, ConnAssumption
<1> QED
  BY <1>1, <1>3, <1>4, <1>5

(* A request under way goes with the only call on its connection.          *)
LEMMA FormExchange ==
  ASSUME Orderly, Base, Serving, dmn.sessions <= 1, ExchangeInv,
         NEW t \in Threads, CallForm(t), dmn' = dmn
  PROVE  ExchangeInv'
<1>1. CallSeen(t)
  BY FormSeen DEF Orderly
<1>2. /\ ~(WasRead(t) /\ thr[t].cb = RequestFlags)
      /\ \A r \in dmn.pend : r.th # t
      /\ dev.iov # t
  BY <1>1, RestsUnasked DEF CallSeen
<1>3. dev \in DevRecords /\ dmn \in DmnRecords /\ ConnInv /\ WaitInv
  BY ServingFacts DEF Base
<1>4. /\ dev'.iov = dev.iov /\ dev'.rd = dev.rd /\ dev'.ackxid = dev.ackxid
      /\ dev'.acksem = dev.acksem /\ dev'.datain = dev.datain
  BY <1>1, <1>3 DEF CallSeen, DevRecords
<1>5. ASSUME NEW u \in Threads, u # t PROVE Quiet(u)
  <2>1. thr'[u] = thr[u] /\ (thr[u].conn \in Conns => conn'[thr[u].conn] = conn[thr[u].conn])
    BY <1>1, <1>5 DEF CallSeen
  <2> QED
    BY <1>4, <2>1 DEF Quiet, MovesUp, SameExchange
<1>6. \A u \in Threads : u # t => CallOk(u)'
  BY <1>3, <1>5, QuietCall DEF ExchangeInv
<1>7. CallOk(t)'
  <2>1. CASE thr'[t].pc \notin RequestPlaces
    BY <1>2, <1>4, <2>1, NoExchange
  <2>2. ASSUME NEW c \in Conns, NEW op \in Requests, Asks(t, c, op) PROVE CallOk(t)'
    <3>1. PICK nonblock \in BOOLEAN : thr' = [thr EXCEPT ![t] = AskingThread(op, c, nonblock)]
      BY <2>2 DEF Asks
    <3>2. /\ thr'[t].pc = LineWait /\ thr'[t].conn = c /\ thr'[t].op = op
          /\ thr'[t].cb = RequestFlags
      BY <1>3, <3>1, ConnFacts, WaitingThreads
    <3>3. thr'[t].pc \in {"linegot", "reqwait"}
      BY <3>2 DEF LineWait
    <3>4. ~conn[c].inprogress
      <4>1. ASSUME NEW r \in dmn.pend, r.xid = c PROVE FALSE
        <5>1. r.th \in Threads /\ r.th # t /\ thr[r.th].conn = c
          BY <1>2, <4>1, ServingFacts DEF ExchangeInv, CallOk, PendOk
        <5>2. thr[t].conn = c \/ MayUse(t, c)
          BY <1>3, <2>2, BeginsFacts DEF Asks, InCall
        <5> QED
          BY <5>1, <5>2, SoleCall DEF Base, Orderly
      <4> QED
        BY <4>1 DEF ExchangeInv, InProgressOk
    <3>5. conn'[c].xid = c /\ ~conn'[c].inprogress /\ (op \in DataRequests => conn'[c].datain = t)
      BY <2>2, <3>4 DEF Asks, SameSocket
    <3>6. AskOk(t, c)'
      BY <3>2, <3>5 DEF AskOk
    <3> QED
      BY <1>2, <1>4, <3>2, <3>3, <3>6 DEF CallOk, WasRead
  <2> QED
    BY <1>1, <2>1, <2>2 DEF CallSeen
<1>8. DataOk'
  <2>1. CASE dev.datain = NoConn
    BY <1>4, <2>1 DEF DataOk
  <2>2. CASE dev.datain # NoConn
    <3>1. PICK u \in Threads : DataFor(u)
      BY <2>2 DEF ExchangeInv, DataOk
    <3>2. u # t
      BY <1>2, <3>1 DEF DataFor
    <3> QED
      BY <1>3, <1>4, <1>5, <2>2, <3>1, <3>2, QuietData
  <2> QED
    BY <2>1, <2>2
<1>9. ASSUME NEW d \in Conns PROVE conn'[d].state # "ABORTED" /\ InProgressOk(d)'
  BY <1>1 DEF CallSeen, ExchangeInv, InProgressOk
<1> QED
  BY <1>6, <1>7, <1>8, <1>9 DEF ExchangeInv

(* The steps on the request line leave conn alone, and everybody else in   *)
(* his exchange.                                                           *)
LEMMA LineExchange ==
  ASSUME Orderly, Base, Serving, dmn.sessions <= 1, ExchangeInv,
         NEW t \in Threads, conn' = conn, dmn' = dmn,
         \A u \in Threads \ {t} : Quiet(u), CallOk(t)',
         dev'.datain = dev.datain,
         WasRead(t) => WasRead(t)',
         thr'[t].conn = thr[t].conn, thr'[t].op = thr[t].op, thr'[t].cb = thr[t].cb
  PROVE  ExchangeInv'
<1>1. dev \in DevRecords /\ dmn \in DmnRecords /\ ConnInv /\ WaitInv
  BY ServingFacts DEF Base
<1>2. \A u \in Threads : CallOk(u)'
  BY <1>1, QuietCall DEF ExchangeInv
<1>3. DataOk'
  <2>1. CASE dev.datain = NoConn
    BY <2>1 DEF DataOk
  <2>2. CASE dev.datain # NoConn
    <3>1. PICK u \in Threads : DataFor(u)
      BY <2>2 DEF ExchangeInv, DataOk
    <3>2. CASE u = t
      <4>1. DataFor(t)'
        BY <3>1, <3>2 DEF DataFor
      <4> QED
        BY <4>1 DEF DataOk
    <3>3. CASE u # t
      BY <1>1, <2>2, <3>1, <3>3, QuietData
    <3> QED
      BY <3>2, <3>3
  <2> QED
    BY <2>1, <2>2
<1>4. \A d \in Conns : conn'[d].state # "ABORTED" /\ InProgressOk(d)'
  BY DEF ExchangeInv, InProgressOk
<1> QED
  BY <1>2, <1>3, <1>4 DEF ExchangeInv

(* usrsockdev_do_request puts the request on the line.                     *)
LEMMA TakeExchange ==
  ASSUME Orderly, Base, Serving, dmn.sessions <= 1, ExchangeInv, NEW t \in Threads, TakeLine(t)
  PROVE  ExchangeInv'
<1>1. dev \in DevRecords /\ dmn \in DmnRecords /\ ConnInv /\ WaitInv
      /\ thr \in [Threads -> ThreadRecords] /\ usrsockdev_is_opened
  BY ServingFacts, ConnFacts DEF Base
<1>2. /\ thr[t].pc = "linegot" /\ thr' = [thr EXCEPT ![t].pc = "ackwait"]
      /\ dev' = [dev EXCEPT !.ackxid = usrsockdev_get_xid(thr[t].conn), !.iov = t, !.rd = FALSE,
                            !.poll = usrsockdev_pollnotify(@)]
      /\ conn' = conn /\ dmn' = dmn
  BY <1>1 DEF TakeLine
<1>3. /\ dev'.iov = t /\ ~dev'.rd /\ dev'.ackxid = thr[t].conn
      /\ dev'.acksem = dev.acksem /\ dev'.datain = dev.datain
  BY <1>1, <1>2 DEF DevRecords, usrsockdev_get_xid
<1>4. /\ thr'[t].pc = "ackwait" /\ thr'[t].conn = thr[t].conn /\ thr'[t].op = thr[t].op
      /\ thr'[t].cb = thr[t].cb
      /\ \A u \in Threads \ {t} : thr'[u] = thr[u]
  BY <1>1, <1>2 DEF ThreadRecords
<1>5. dev.iov = NoThread /\ \A u \in Threads \ {t} : thr[u].pc # "ackwait"
  BY <1>2, ServingFacts
<1>6. \A u \in Threads \ {t} : Quiet(u)
  BY <1>2, <1>3, <1>4, <1>5, ConnAssumption DEF Quiet, MovesUp, SameExchange
<1>7. \A r \in dmn.pend : r.th # t
  BY <1>2 DEF ExchangeInv, CallOk, PendOk, WasRead
<1>8. AskOk(t, thr[t].conn)
  BY <1>2 DEF ExchangeInv, CallOk, Unread
<1>9. AskOk(t, thr[t].conn)'
  BY <1>2, <1>4, <1>8 DEF AskOk
<1>10. CallOk(t)'
  BY <1>2, <1>3, <1>4, <1>7, <1>9 DEF CallOk, WasRead
<1>11. ~WasRead(t)
  BY <1>2 DEF WasRead
<1> QED
  BY <1>2, <1>3, <1>4, <1>6, <1>10, <1>11, LineExchange

(* usrsockdev_do_request was acknowledged: the daemon has read the         *)
(* request, and nobody leaves early.                                       *)
LEMMA LeaveExchange ==
  ASSUME Orderly, Base, Serving, dmn.sessions <= 1, ExchangeInv, NEW t \in Threads, LeaveLine(t)
  PROVE  ExchangeInv'
<1>1. dev \in DevRecords /\ dmn \in DmnRecords /\ Inv /\ ConnInv /\ WaitInv
      /\ thr \in [Threads -> ThreadRecords]
  BY ServingFacts, ConnFacts DEF Base, ConnInv
<1>2. thr[t].pc = "ackwait" /\ dev.acksem > 0
  BY DEF LeaveLine
<1>3. dev.iov = NoThread
  BY <1>1, <1>2, ServingFacts DEF DevRecords
<1>4. WasRead(t) /\ \A u \in Threads : dev.iov # u
  BY <1>2, <1>3, ConnAssumption DEF WasRead
<1>5. thr[t].conn \in Conns
  BY <1>1, <1>2, ConnFacts
<1>6. ~(thr[t].op = "connect" /\ conn[thr[t].conn].inprogress /\ thr[t].nonblock)
  <2> SUFFICES ASSUME thr[t].op = "connect", conn[thr[t].conn].inprogress, thr[t].nonblock
               PROVE  FALSE
    OBVIOUS
  <2>1. PICK r \in dmn.pend : r.xid = thr[t].conn /\ r.op \in InProgress
    BY <1>5 DEF ExchangeInv, InProgressOk
  <2>2. r.th \in Threads /\ thr[r.th].conn = r.xid /\ thr[r.th].op = r.op
    BY <2>1, ServingFacts DEF ExchangeInv, CallOk, PendOk
  <2>3. r.th = t
    BY <1>5, <2>1, <2>2, OneCall DEF Orderly
  <2>4. "connect" \in Ops /\ thr[t].nonblock \in NonBlock
    BY <1>2 DEF Base, AskInv, RequestPlaces, MayAsk
  <2>5. thr[t].nonblock = TRUE
    BY <1>1 DEF ThreadRecords
  <2> QED
    BY <2>1, <2>2, <2>3, <2>4, <2>5 DEF Orderly
<1>7. LineMoves(t)
  BY <1>1, LineForm
<1>8. /\ conn' = conn /\ \A u \in Threads \ {t} : MovesUp(u)
      /\ \E p \in {"ackwait", "respwait"} : thr'[t] = [thr[t] EXCEPT !.pc = p]
  BY <1>6, <1>7 DEF LineMoves
<1>9. /\ thr'[t].conn = thr[t].conn /\ thr'[t].op = thr[t].op /\ thr'[t].cb = thr[t].cb
      /\ thr'[t].pc \in {"ackwait", "respwait"}
  BY <1>1, <1>8 DEF ThreadRecords
<1>10. /\ dev'.iov = dev.iov /\ dev'.rd = dev.rd /\ thr'[t].pc # "ackwait"
  <2> DEFINE dv == [dev EXCEPT !.acksem = @ - 1]
  <2>1. dv \in DevRecords /\ dv.nbusy = dev.nbusy /\ dv.iov = dev.iov /\ dv.rd = dev.rd
    BY <1>1, <1>2 DEF DevRecords
  <2>2. AfterRequest(t, dv)
    BY DEF LeaveLine
  <2> HIDE DEF dv
  <2> QED
    BY <1>1, <1>2, <2>1, <2>2, AfterRequestKeeps
<1>11. dmn' = dmn
  <2>1. dmn.pc # "wait"
    BY DEF Serving
  <2> QED
    BY <2>1 DEF LeaveLine, AfterRequest, usrsockdev_semgive
<1>12. dev'.datain = dev.datain
  BY <1>1 DEF LeaveLine, AfterRequest, usrsockdev_semgive, DevRecords
<1>13. \A u \in Threads \ {t} : thr[u].pc # "ackwait"
  BY <1>2, ServingFacts
<1>14. \A u \in Threads \ {t} : Quiet(u)
  BY <1>4, <1>8, <1>10, <1>11, <1>12, <1>13 DEF Quiet, SameExchange
<1>15. WasRead(t)' /\ ~Unread(t)'
  BY <1>9, <1>10 DEF WasRead, Unread
<1>16. CallOk(t)'
  <2>1. CallOk(t)
    BY DEF ExchangeInv
  <2>2. \A r \in dmn.pend : r.th = t => PendOk(r)'
    BY <1>8, <1>9, <1>12, <1>15, <2>1 DEF CallOk, PendOk
  <2> QED
    BY <1>4, <1>9, <1>10, <1>11, <1>12, <1>15, <2>1, <2>2 DEF CallOk, Asked
<1> QED
  BY <1>8, <1>9, <1>11, <1>12, <1>14, <1>15, <1>16, LineExchange

(* A wait that a timeout or a signal ends is over for the exchange only    *)
(* when the thread goes on.                                                *)
LEMMA TimedExchange ==
  ASSUME Orderly, Base, Serving, dmn.sessions <= 1, ExchangeInv, NEW t \in Threads,
         net_timedwait(t)
  PROVE  ExchangeInv'
<1>1. thr \in [Threads -> ThreadRecords]
  BY ConnFacts DEF Base
<1>2. PICK how : thr' = [thr EXCEPT ![t].wake = how]
  BY DEF net_timedwait
<1>3. /\ thr'[t].pc = thr[t].pc /\ thr'[t].conn = thr[t].conn /\ thr'[t].op = thr[t].op
      /\ thr'[t].cb = thr[t].cb /\ \A u \in Threads \ {t} : thr'[u] = thr[u]
  BY <1>1, <1>2 DEF ThreadRecords
<1>4. conn' = conn /\ dmn' = dmn /\ dev' = dev
  BY DEF net_timedwait
<1>5. \A u \in Threads \ {t} : Quiet(u)
  BY <1>3, <1>4 DEF Quiet, MovesUp, SameExchange
<1>6. (Unread(t)' <=> Unread(t)) /\ (WasRead(t)' <=> WasRead(t))
  BY <1>3, <1>4 DEF Unread, WasRead
<1>7. CallOk(t)'
  <2>1. CallOk(t)
    BY DEF ExchangeInv
  <2>2. \A r \in dmn.pend : r.th = t => PendOk(r)'
    BY <1>3, <1>4, <1>6, <2>1 DEF CallOk, PendOk
  <2>3. Unread(t)' => AskOk(t, thr[t].conn)'
    BY <1>3, <1>4, <1>6, <2>1 DEF CallOk, AskOk
  <2> QED
    BY <1>3, <1>4, <1>6, <2>1, <2>2, <2>3 DEF CallOk, Asked
<1> QED
  BY <1>3, <1>4, <1>5, <1>6, <1>7, LineExchange

(* Every step of a thread.                                                 *)
LEMMA ThreadExchange ==
  ASSUME Orderly, Base, Serving, dmn.sessions <= 1, ExchangeInv, NEW t \in Threads,
         ThreadStep(t)
  PROVE  ExchangeInv' /\ dmn' = dmn
<1>1. dmn' = dmn
  BY ThreadLeavesDaemon DEF Base, ConnInv, Serving
<1> QED
  BY <1>1, ThreadForms, FormExchange, TakeExchange, LeaveExchange, TimedExchange DEF Base

-----------------------------------------------------------------------------
(* The steps of the daemon in the exchange                                 *)

(* A response finds the connection that asked.                             *)
LEMMA WaitingConnOwn ==
  ASSUME Base, NEW c \in Conns, c \in Range(active), conn[c].xid = c
  PROVE  WaitingConn(c) = c
<1> DEFINE I == {i \in 1 .. Len(active) : conn[active[i]].xid = c}
<1>1. ConnInv /\ active \in Seq(Conns)
  BY ConnFacts DEF Base
<1>2. I \in SUBSET Nat
  BY <1>1, LenProperties
<1>3. I # {}
  BY <1>1 DEF Range
<1>4. Min(I) \in I
  BY <1>2, <1>3, MinInSet
<1>5. WaitingConn(c) = IF I = {} \/ Min(I) = 0 THEN NoConn ELSE active[Min(I)]
  BY DEF WaitingConn, SelectInSeq
<1>6. WaitingConn(c) # NoConn
  <2>1. Min(I) \in 1 .. Len(active)
    BY <1>4
  <2>2. Min(I) # 0 /\ active[Min(I)] \in Conns
    BY <1>1, <2>1, ElementOfSeq, LenProperties
  <2> HIDE DEF I
  <2> QED
    BY <1>3, <1>5, <2>2, NoConnFacts
<1>7. WaitingConn(c) \in Conns /\ conn[WaitingConn(c)].xid = c
  BY <1>1, <1>6, WaitingConnXid
<1> QED
  BY <1>7 DEF Base, AskInv, Conns

(* What an event on connection c is to the calls on other connections.     *)
LEMMA RaisedElsewhere ==
  ASSUME ConnInv, NEW c \in Conns, NEW cr \in ConnRecords, cr.list = conn[c].list,
         NEW ev \in SUBSET Events, usrsock_event(c, cr, ev), NEW u \in Threads, thr[u].conn # c
  PROVE  /\ thr'[u] = thr[u]
         /\ thr[u].conn \in Conns => conn'[thr[u].conn] = conn[thr[u].conn]
<1>1. Hears(u, c, cr, ev)
  BY EventHeard
<1>2. u \notin Range(conn[c].list)
  BY DEF ConnInv, CallbackInv
<1>3. OnlyConn(c, conn')
  BY EventLeft DEF EventLeaves
<1> QED
  BY <1>1, <1>2, <1>3 DEF Hears, OnlyConn

(* What the completion of the request is to the call it is for.            *)
LEMMA RaisedHere ==
  ASSUME ConnInv, WaitInv, NEW c \in Conns, NEW cr \in ConnRecords, cr.list = conn[c].list,
         usrsock_event(c, cr, {"REQ_COMPLETE"}), NEW t \in Threads, thr[t].conn = c,
         thr[t].pc \in RequestPlaces, thr[t].cb = RequestFlags
  PROVE  /\ thr'[t].pc = thr[t].pc /\ thr'[t].conn = c /\ thr'[t].op = thr[t].op
         /\ thr'[t].cb = {}
         /\ thr'[t].from \in {thr[t].from, cr.answered}
<1> DEFINE ev  == {"REQ_COMPLETE"}
           upd == StateUpdate(cr, ev)
           cbs == EventsToCallbacks(cr, ev)
<1>1. ev \in SUBSET Events
  BY DEF Events, InternalEvents
<1>2. Hears(t, c, cr, ev)
  BY <1>1, EventHeard
<1>3. t \in Range(conn[c].list)
  BY DEF ConnInv, CallbackInv, WaitPlaces, RequestPlaces
<1>4. "REQ_COMPLETE" \in cbs
  BY DEF EventsToCallbacks
<1>5. thr'[t] = Handler(thr[t], upd, cbs)
  <2>1. cbs \cap Stopping # {} /\ cbs \cap thr[t].cb # {}
    BY <1>4 DEF Stopping, RequestFlags
  <2> HIDE DEF cbs, upd
  <2> QED
    BY <1>2, <1>3, <2>1 DEF Hears, cbs, upd
<1>6. upd \in ConnRecords /\ upd.answered = cr.answered
  <2>1. upd \in ConnRecords
    BY <1>1, StateUpdateType
  <2> QED
    BY <2>1 DEF StateUpdate, ConnRecords
<1>7. thr[t] \in ThreadRecords /\ thr[t].op \in Requests
  BY ConnFacts DEF WaitInv, WaitRecord
<1>8. cbs \cap RequestFlags # {}
  BY <1>4 DEF RequestFlags
<1> HIDE DEF upd, cbs
<1>9. LET h == Handler(thr[t], upd, cbs)
      IN  /\ h.cb = {} /\ h.recvsem = thr[t].recvsem + 1 /\ h.wake = thr[t].wake
          /\ \/ h.from = thr[t].from
             \/ "REQ_COMPLETE" \in cbs /\ h.from = upd.answered
          /\ thr[t].op = "connect" => h.result = IF "ABORT" \in cbs THEN ECONNABORTED
                                                 ELSE upd.result
  BY <1>6, <1>7, <1>8, HandlerWakes
<1>10. SamePlace(thr[t], thr'[t])
  BY <1>1, EventEffect DEF ConnInv
<1> QED
  BY <1>5, <1>6, <1>9, <1>10 DEF SamePlace

(* The device after a response to the request r that the daemon holds: the *)
(* request of that call, and of no other, is off the line.                 *)
LEMMA AcknowledgedOwn ==
  ASSUME Orderly, Base, Serving, dmn.sessions <= 1, ExchangeInv, NEW r \in dmn.pend
  PROVE  LET dv == Acknowledge(r.xid)
         IN  /\ dv \in DevRecords
             /\ dv.datain = dev.datain /\ dv.rd = dev.rd /\ dv.ackxid = dev.ackxid
             /\ dv.iov # r.th
             /\ thr[r.th].pc = "ackwait" => dv.acksem > 0
             /\ \A u \in Threads \ {r.th} :
                  /\ dv.iov = u <=> dev.iov = u
                  /\ dev.acksem > 0 => dv.acksem > 0
<1> DEFINE dv == Acknowledge(r.xid)
<1>1. dev \in DevRecords /\ Inv /\ r.th \in Threads /\ r.xid \in Conns
  BY ServingFacts DEF Base, ConnInv
<1>2. dv \in DevRecords
  BY <1>1, AcknowledgeType DEF DevStep
<1>3. PendOk(r) /\ CallOk(r.th)
  BY <1>1 DEF ExchangeInv, CallOk
<1>4. thr[r.th].conn = r.xid
  BY <1>3 DEF PendOk
<1>5. dev.acksem \in Nat /\ (dev.iov # NoThread => dev.iov \in Threads)
  BY <1>1 DEF DevRecords
<1>6. dv.datain = dev.datain /\ dv.rd = dev.rd /\ dv.ackxid = dev.ackxid
  BY <1>1 DEF Acknowledge, DevRecords
<1>7. /\ dev.ackxid = r.xid /\ dev.iov # NoThread => dv.iov = NoThread /\ dv.acksem = dev.acksem + 1
      /\ ~(dev.ackxid = r.xid /\ dev.iov # NoThread) => dv = dev
  BY <1>1 DEF Acknowledge, DevRecords
<1>8. dev.iov \in Threads => dev.ackxid = thr[dev.iov].conn
  BY DEF ExchangeInv, CallOk
<1>9. dev.iov \in Threads /\ dev.ackxid = r.xid => dev.iov = r.th
  BY <1>1, <1>4, <1>8, OneCall DEF Orderly
<1>10. dev.iov = r.th => dev.ackxid = r.xid /\ dev.iov # NoThread
  BY <1>1, <1>3, <1>4, ConnAssumption DEF CallOk
<1>11. thr[r.th].pc = "ackwait" => dev.acksem > 0 \/ dev.iov = r.th
  BY <1>3 DEF CallOk
<1> HIDE DEF dv
<1>12. dv.iov # r.th
  BY <1>1, <1>7, <1>10, ConnAssumption
<1>13. thr[r.th].pc = "ackwait" => dv.acksem > 0
  BY <1>5, <1>7, <1>10, <1>11
<1>14. ASSUME NEW u \in Threads \ {r.th}
       PROVE  (dv.iov = u <=> dev.iov = u) /\ (dev.acksem > 0 => dv.acksem > 0)
  BY <1>5, <1>7, <1>9, ConnAssumption
<1> QED
  BY <1>2, <1>6, <1>12, <1>13, <1>14 DEF dv

(* A response to the request r leaves the other exchanges alone.           *)
LEMMA RespondFrame ==
  ASSUME Orderly, Base, Serving, dmn.sessions <= 1, ExchangeInv, Inv', NEW r \in dmn.pend,
         dev'.iov = Acknowledge(r.xid).iov, dev'.acksem = Acknowledge(r.xid).acksem,
         dev'.rd = Acknowledge(r.xid).rd, dev'.ackxid = Acknowledge(r.xid).ackxid,
         dev.datain = NoConn, dev'.datain \in {NoConn, r.xid},
         \A u \in Threads \ {r.th} : thr'[u] = thr[u],
         \A d \in Conns \ {r.xid} : conn'[d] = conn[d],
         \A q \in PendingRequests : q.th # r.th => (q \in dmn'.pend <=> q \in dmn.pend),
         CallOk(r.th)', DataOk', conn'[r.xid].state # "ABORTED", InProgressOk(r.xid)'
  PROVE  ExchangeInv'
<1>1. dmn \in DmnRecords /\ dmn' \in DmnRecords /\ r.th \in Threads /\ r.xid \in Conns
  BY ServingFacts DEF Inv, TypeOK
<1>2. PendOk(r)
  BY <1>1 DEF ExchangeInv, CallOk
<1> DEFINE dv == Acknowledge(r.xid)
<1>3. /\ dv \in DevRecords
      /\ dv.datain = dev.datain /\ dv.rd = dev.rd /\ dv.ackxid = dev.ackxid
      /\ dv.iov # r.th
      /\ thr[r.th].pc = "ackwait" => dv.acksem > 0
      /\ \A u \in Threads \ {r.th} :
           /\ dv.iov = u <=> dev.iov = u
           /\ dev.acksem > 0 => dv.acksem > 0
  BY AcknowledgedOwn
<1>4. dev'.iov = dv.iov /\ dev'.acksem = dv.acksem /\ dev'.rd = dv.rd /\ dev'.ackxid = dv.ackxid
  OBVIOUS
<1> HIDE DEF dv
<1>5. ASSUME NEW u \in Threads, u # r.th PROVE Quiet(u)
  <2>1. thr[u].conn # r.xid
    BY <1>1, <1>2, <1>5, OneCall DEF PendOk, Orderly
  <2>2. thr[u].conn \in Conns => SameExchange(conn[thr[u].conn], conn'[thr[u].conn])
    BY <2>1 DEF SameExchange
  <2>3. thr[u].conn \in Conns => (dev'.datain = thr[u].conn <=> dev.datain = thr[u].conn)
    BY <2>1, NoConnFacts
  <2> QED
    BY <1>3, <1>4, <1>5, <2>2, <2>3 DEF Quiet, MovesUp
<1>6. \A u \in Threads : CallOk(u)'
  BY <1>1, <1>5, QuietCall DEF ExchangeInv, Base
<1>7. ASSUME NEW d \in Conns PROVE conn'[d].state # "ABORTED" /\ InProgressOk(d)'
  <2>1. CASE d # r.xid
    <3>1. conn'[d].state # "ABORTED"
      BY <2>1 DEF ExchangeInv
    <3>2. ASSUME conn'[d].inprogress
          PROVE  \E q \in dmn'.pend : q.xid = d /\ q.op \in InProgress
      <4>1. PICK q \in dmn.pend : q.xid = d /\ q.op \in InProgress
        BY <2>1, <3>2 DEF ExchangeInv, InProgressOk
      <4>2. q \in PendingRequests /\ PendOk(q)
        BY <1>1, ServingFacts DEF DmnRecords, ExchangeInv, CallOk
      <4>3. q.th # r.th
        BY <1>2, <2>1, <4>1, <4>2 DEF PendOk
      <4> QED
        BY <4>1, <4>2, <4>3
    <3> QED
      BY <3>1, <3>2 DEF InProgressOk
  <2> QED
    BY <2>1
<1> QED
  BY <1>6, <1>7 DEF ExchangeInv

(* "In progress".                                                          *)
LEMMA InProgressExchange ==
  ASSUME Orderly, Base, Serving, dmn.sessions <= 1, ExchangeInv, Inv',
         NEW r \in dmn.pend, dev.datain = NoConn, RespondInProgress(r)
  PROVE  ExchangeInv' /\ thr' = thr
<1> DEFINE t == r.th
           c == r.xid
           q == [r EXCEPT !.ip = TRUE]
<1>1. /\ dmn \in DmnRecords /\ dev \in DevRecords /\ r \in PendingRequests
      /\ conn \in ConnFun /\ t \in Threads /\ c \in Conns
  BY ServingFacts, ConnFacts DEF Base, DmnRecords
<1>2. PendOk(r) /\ CallOk(t)
  BY <1>1 DEF ExchangeInv, CallOk
<1>3. WaitingConn(c) = c /\ c # NoConn
  <2>1. c \in Range(active)
    BY <1>1, <1>2, NoConnFacts DEF PendOk, Base, ConnInv, ListInv
  <2> QED
    BY <1>1, <1>2, <2>1, WaitingConnOwn, NoConnFacts DEF PendOk
<1>4. /\ dmn'.pend = (dmn.pend \ {r}) \cup {q}
      /\ dev' = Acknowledge(c) /\ conn' = [conn EXCEPT ![c].inprogress = TRUE]
      /\ thr' = thr /\ r.op \in InProgress
  BY <1>1, <1>3 DEF RespondInProgress, DmnRecords
<1>5. q.th = t /\ q.op = r.op /\ q.xid = c
  BY <1>1 DEF PendingRequests
<1>6. /\ \A d \in Conns \ {c} : conn'[d] = conn[d]
      /\ conn'[c].xid = conn[c].xid /\ conn'[c].datain = conn[c].datain
      /\ conn'[c].state = conn[c].state
  BY <1>1, <1>4 DEF ConnFun, ConnRecords
<1>7. dev'.datain = NoConn /\ dev'.iov # t /\ (thr[t].pc = "ackwait" => dev'.acksem > 0)
  BY <1>4, AcknowledgedOwn
<1>8. WasRead(t)' /\ ~Unread(t)'
  BY <1>2, <1>4, <1>7 DEF PendOk, WasRead, Unread
<1>9. \A p \in dmn.pend : p.th = t => p = r
  BY <1>2 DEF CallOk
<1> HIDE DEF q
<1>10. \A p \in dmn'.pend : p.th = t => p = q
  BY <1>4, <1>9
<1>11. PendOk(q)'
  BY <1>2, <1>3, <1>4, <1>5, <1>6, <1>7, <1>8 DEF PendOk
<1>12. CallOk(t)'
  BY <1>4, <1>5, <1>7, <1>8, <1>10, <1>11 DEF CallOk, Asked
<1>13. InProgressOk(c)'
  BY <1>4, <1>5 DEF InProgressOk
<1>14. DataOk' /\ conn'[c].state # "ABORTED"
  BY <1>1, <1>6, <1>7 DEF DataOk, ExchangeInv
<1>15. \A p \in PendingRequests : p.th # t => (p \in dmn'.pend <=> p \in dmn.pend)
  BY <1>4, <1>5
<1> QED
  BY <1>4, <1>6, <1>7, <1>12, <1>13, <1>14, <1>15, RespondFrame

(* The final response to request r takes it from the daemon's hands. The   *)
(* call is completed, or its data are to come, or a response that does not *)
(* fit is refused.                                                         *)
FinallyAnswered(r) ==
  LET c == r.xid
  IN  \E result \in Answers(r) :
        LET cr == Answered(conn[c], r, result)
        IN  /\ dmn'.pend = dmn.pend \ {r}
            /\ dmn'.socks = DaemonAfter(r, result, FALSE).socks
            /\ dmn'.used = DaemonAfter(r, result, FALSE).used
            /\ \/ dev' = Acknowledge(c) /\ usrsock_event(c, cr, {"REQ_COMPLETE"})
               \/ /\ conn' = [conn EXCEPT ![c] = cr] /\ thr' = thr
                  /\ r.op \in DataRequests
                  /\ \/ dev' = [Acknowledge(c) EXCEPT !.datain = c]
                     \/ dev' = Acknowledge(c) /\ FaultyDaemon

(* Every final response is one of these: the buffers it needs are there.   *)
LEMMA FinalForm ==
  ASSUME Orderly, Base, Serving, dmn.sessions <= 1, ExchangeInv,
         NEW r \in dmn.pend, RespondFinally(r)
  PROVE  FinallyAnswered(r)
<1>1. dmn \in DmnRecords /\ r.th \in Threads /\ r.xid \in Conns /\ ConnInv
  BY ServingFacts DEF Base
<1>2. PendOk(r)
  BY <1>1 DEF ExchangeInv, CallOk
<1>3. WaitingConn(r.xid) = r.xid /\ r.xid # NoConn
  <2>1. r.xid \in Range(active)
    BY <1>1, <1>2, NoConnFacts DEF PendOk, Base, ConnInv, ListInv
  <2> QED
    BY <1>1, <1>2, <2>1, WaitingConnOwn, NoConnFacts DEF PendOk
<1>4. PICK result \in Answers(r), fits \in {TRUE, ~FaultyDaemon} :
        \/ usrsockdev_handle_response(r.xid, r, result)
        \/ usrsockdev_handle_datareq_response(r.xid, r, result, fits)
  BY <1>3 DEF RespondFinally
<1>6. \A owes : /\ DaemonAfter(r, result, owes).pend = dmn.pend \ {r}
                /\ DaemonAfter(r, result, owes).socks = DaemonAfter(r, result, FALSE).socks
                /\ DaemonAfter(r, result, owes).used = DaemonAfter(r, result, FALSE).used
  BY <1>1 DEF DaemonAfter, DmnRecords
<1>7. CASE usrsockdev_handle_response(r.xid, r, result)
  BY <1>6, <1>7 DEF usrsockdev_handle_response, FinallyAnswered
<1>8. CASE usrsockdev_handle_datareq_response(r.xid, r, result, fits)
  <2>1. conn[r.xid].datain # NoThread
    BY <1>1, <1>2, <1>8, ConnAssumption DEF PendOk, usrsockdev_handle_datareq_response
  <2>2. ~fits => FaultyDaemon
    BY <1>4, UsrsockAssumption
  <2> QED
    BY <1>6, <1>8, <2>1, <2>2 DEF usrsockdev_handle_datareq_response, FinallyAnswered
<1> QED
  BY <1>4, <1>7, <1>8

(* It leaves the exchanges in order.                                       *)
LEMMA FinalExchange ==
  ASSUME Orderly, Base, Serving, dmn.sessions <= 1, ExchangeInv, ResponseMatch, Inv',
         NEW r \in dmn.pend, dev.datain = NoConn, FinallyAnswered(r)
  PROVE  ExchangeInv' /\ ResponseMatch'
<1> DEFINE t == r.th
           c == r.xid
<1>1. /\ dmn \in DmnRecords /\ dev \in DevRecords /\ r \in PendingRequests
      /\ conn \in ConnFun /\ t \in Threads /\ c \in Conns /\ ConnInv /\ WaitInv
      /\ conn[c] \in ConnRecords
  BY ServingFacts, ConnFacts DEF Base, DmnRecords
<1>2. PendOk(r) /\ CallOk(t) /\ conn[c].state # "ABORTED"
  BY <1>1 DEF ExchangeInv, CallOk
<1>3. PICK result \in Int :
        LET cr == Answered(conn[c], r, result)
        IN  /\ dmn'.pend = dmn.pend \ {r}
            /\ \/ dev' = Acknowledge(c) /\ usrsock_event(c, cr, {"REQ_COMPLETE"})
               \/ /\ conn' = [conn EXCEPT ![c] = cr] /\ thr' = thr
                  /\ \/ dev' = [Acknowledge(c) EXCEPT !.datain = c]
                     \/ dev' = Acknowledge(c) /\ FaultyDaemon
  BY <1>1, AnswersRange DEF FinallyAnswered
<1> DEFINE cr == Answered(conn[c], r, result)
           dv == Acknowledge(c)
<1>4. /\ cr \in ConnRecords /\ cr.list = conn[c].list /\ cr.state = conn[c].state
      /\ ~cr.inprogress /\ cr.answered = [th |-> t, op |-> r.op]
  BY <1>1, AnsweredFields
<1>5. /\ dv \in DevRecords /\ dv.datain = NoConn /\ dv.iov # t
      /\ thr[t].pc = "ackwait" => dv.acksem > 0
  BY AcknowledgedOwn
<1>6. /\ dmn'.pend = dmn.pend \ {r}
      /\ \/ dev' = dv /\ usrsock_event(c, cr, {"REQ_COMPLETE"})
         \/ /\ conn' = [conn EXCEPT ![c] = cr] /\ thr' = thr
            /\ \/ dev' = [dv EXCEPT !.datain = c]
               \/ dev' = dv /\ FaultyDaemon
  BY <1>3
<1> HIDE DEF cr, dv
<1>7. /\ dev'.iov = dv.iov /\ dev'.acksem = dv.acksem /\ dev'.rd = dv.rd
      /\ dev'.ackxid = dv.ackxid /\ dev'.datain \in {NoConn, c}
  BY <1>5, <1>6 DEF DevRecords
<1>8. \A q \in dmn'.pend : q.th # t
  BY <1>2, <1>6 DEF CallOk
<1>9. \A q \in PendingRequests : q.th # t => (q \in dmn'.pend <=> q \in dmn.pend)
  BY <1>6
<1>10. \A u \in Threads \ {t} : thr[u].conn # c
  BY <1>1, <1>2, OneCall DEF PendOk, Orderly
<1>11. CASE dev' = dv /\ usrsock_event(c, cr, {"REQ_COMPLETE"})
  <2>1. {"REQ_COMPLETE"} \in SUBSET Events
    BY DEF Events, InternalEvents
  <2>2. \A u \in Threads \ {t} : thr'[u] = thr[u]
    BY <1>1, <1>4, <1>10, <1>11, <2>1, RaisedElsewhere
  <2>3. EventLeaves(c, cr, {"REQ_COMPLETE"})
    BY <1>1, <1>4, <1>11, <2>1, EventLeft
  <2>4. StateUpdate(cr, {"REQ_COMPLETE"}).state # "ABORTED"
    BY <1>2, <1>4, UpdateFields
  <2>5. /\ \A d \in Conns \ {c} : conn'[d] = conn[d]
        /\ conn'[c].state # "ABORTED" /\ ~conn'[c].inprogress
    BY <1>4, <2>3, <2>4 DEF EventLeaves, OnlyConn
  <2>6. thr[t].pc \in {"ackwait", "respwait"} /\ thr[t].conn = c /\ thr[t].cb = RequestFlags
        /\ thr[t].op = r.op
    BY <1>2 DEF PendOk, WasRead
  <2>7. /\ thr'[t].pc = thr[t].pc /\ thr'[t].conn = c /\ thr'[t].op = thr[t].op
        /\ thr'[t].cb = {} /\ thr'[t].from \in {thr[t].from, cr.answered}
    BY <1>1, <1>4, <1>11, <2>6, RaisedHere DEF RequestPlaces
  <2>8. CallOk(t)'
    <3>1. ~Unread(t)'
      BY <1>5, <1>7, <2>6, <2>7 DEF Unread
    <3>2. thr'[t].cb # RequestFlags
      BY <2>7 DEF RequestFlags
    <3>3. (thr'[t].pc = "ackwait" => dev'.acksem > 0) /\ dev'.iov # t
      BY <1>5, <1>7, <2>7
    <3> QED
      BY <1>8, <3>1, <3>2, <3>3 DEF CallOk
  <2>9. DataOk' /\ InProgressOk(c)'
    BY <1>5, <1>11, <2>5 DEF DataOk, InProgressOk
  <2>10. ExchangeInv'
    BY <1>6, <1>7, <1>9, <2>2, <2>5, <2>8, <2>9, RespondFrame DEF dv
  <2>11. ResponseMatch'
    BY <1>4, <2>2, <2>6, <2>7 DEF ResponseMatch
  <2> QED
    BY <2>10, <2>11
<1>12. CASE /\ conn' = [conn EXCEPT ![c] = cr] /\ thr' = thr
            /\ \/ dev' = [dv EXCEPT !.datain = c]
               \/ dev' = dv /\ FaultyDaemon
  <2>1. /\ \A d \in Conns \ {c} : conn'[d] = conn[d]
        /\ conn'[c] = cr
    BY <1>1, <1>12 DEF ConnFun
  <2>2. WasRead(t)' /\ ~Unread(t)'
    BY <1>2, <1>5, <1>7, <1>12 DEF PendOk, WasRead, Unread
  <2>3. FaultyDaemon \/ dev'.datain = c
    BY <1>5, <1>12 DEF DevRecords
  <2>4. CallOk(t)'
    <3>1. thr'[t].conn = c
      BY <1>2, <1>12 DEF PendOk
    <3>2. (thr'[t].pc = "ackwait" => dev'.acksem > 0) /\ dev'.iov # t
      BY <1>5, <1>7, <1>12
    <3> QED
      BY <1>8, <2>2, <2>3, <3>1, <3>2 DEF CallOk
  <2>5. DataOk'
    <3>1. ASSUME dev'.datain = c PROVE DataFor(t)'
      BY <1>2, <1>4, <1>12, <2>1, <2>2, <3>1 DEF DataFor, PendOk
    <3> QED
      BY <1>1, <1>7, <3>1 DEF DataOk
  <2>6. conn'[c].state # "ABORTED" /\ InProgressOk(c)'
    BY <1>2, <1>4, <2>1 DEF InProgressOk
  <2>7. ExchangeInv'
    BY <1>6, <1>7, <1>9, <1>12, <2>1, <2>4, <2>5, <2>6, RespondFrame DEF dv
  <2>8. ResponseMatch'
    BY <1>12 DEF ResponseMatch
  <2> QED
    BY <2>7, <2>8
<1> QED
  BY <1>6, <1>11, <1>12

(* A step that leaves everybody in his exchange.                           *)
LEMMA AllQuiet ==
  ASSUME Base, dev \in DevRecords, dmn \in DmnRecords, dmn' \in DmnRecords, ExchangeInv,
         \A u \in Threads : Quiet(u),
         dev'.datain = dev.datain, dmn'.pend = dmn.pend,
         \A d \in Conns : /\ conn'[d].inprogress => conn[d].inprogress
                          /\ conn'[d].state = "ABORTED" => conn[d].state = "ABORTED"
  PROVE  ExchangeInv'
<1>1. \A u \in Threads : CallOk(u)'
  BY QuietCall DEF ExchangeInv, Base
<1>2. DataOk'
  <2>1. CASE dev.datain = NoConn
    BY <2>1 DEF DataOk
  <2>2. CASE dev.datain # NoConn
    <3>1. PICK u \in Threads : DataFor(u)
      BY <2>2 DEF ExchangeInv, DataOk
    <3> QED
      BY <2>2, <3>1, QuietData DEF Base
  <2> QED
    BY <2>1, <2>2
<1>3. \A d \in Conns : conn'[d].state # "ABORTED" /\ InProgressOk(d)'
  BY DEF ExchangeInv, InProgressOk
<1> QED
  BY <1>1, <1>2, <1>3 DEF ExchangeInv

(* poll() on the device, and the lookup for an event message.              *)
LEMMA LookExchange ==
  ASSUME Base, Serving, dmn.sessions <= 1, ExchangeInv, ResponseMatch, Inv',
         PollSetup \/ PollTeardown \/ usrsockdev_handle_event
  PROVE  ExchangeInv' /\ ResponseMatch'
<1>1. dev \in DevRecords /\ dmn \in DmnRecords /\ dmn' \in DmnRecords
  BY ServingFacts DEF Inv, TypeOK
<1>2. conn' = conn /\ thr' = thr
  BY DEF PollSetup, PollTeardown, usrsockdev_handle_event
<1>3. /\ dev'.datain = dev.datain /\ dev'.iov = dev.iov /\ dev'.rd = dev.rd
      /\ dev'.ackxid = dev.ackxid /\ dev'.acksem = dev.acksem
  BY <1>1 DEF PollSetup, PollTeardown, usrsockdev_handle_event, DevRecords
<1>4. dmn'.pend = dmn.pend
  BY <1>1 DEF PollSetup, PollTeardown, usrsockdev_handle_event, DmnRecords
<1>5. \A u \in Threads : Quiet(u)
  BY <1>2, <1>3, <1>4 DEF Quiet, MovesUp, SameExchange
<1>6. ExchangeInv'
  BY <1>1, <1>2, <1>3, <1>4, <1>5, AllQuiet
<1>7. ResponseMatch'
  BY <1>2 DEF ResponseMatch
<1> QED
  BY <1>6, <1>7

(* usrsockdev_read takes the request of the thread that waits for its      *)
(* acknowledgment.                                                         *)
LEMMA ReadExchange ==
  ASSUME Orderly, Base, Serving, dmn.sessions <= 1, ExchangeInv, ResponseMatch, Inv',
         usrsockdev_read
  PROVE  ExchangeInv' /\ ResponseMatch'
<1>1. /\ dev \in DevRecords /\ dmn \in DmnRecords /\ dmn' \in DmnRecords
      /\ ConnInv /\ WaitInv
  BY ServingFacts DEF Base, Inv, TypeOK
<1>2. PICK t \in Threads : dev.iov = t /\ thr[t].pc = "ackwait" /\ ~dev.rd
  <2>1. dev.iov # NoThread /\ ~dev.rd
    BY DEF usrsockdev_read
  <2> QED
    BY <2>1, ServingFacts
<1>3. PICK c \in Conns : thr[t].conn = c /\ c # NoConn
  BY <1>1, <1>2, ConnFacts, NoConnFacts
<1>4. PICK r \in PendingRequests :
        /\ r.th = t /\ r.op = thr[t].op /\ r.xid = c
        /\ dmn' = [dmn EXCEPT !.pend = @ \cup {r}]
  <2>1. PICK r \in [th : {t}, op : Requests, xid : Conns,
                    usockid : {-1} \cup UsockIds, ip : {FALSE}] :
          /\ r.op = thr[t].op /\ r.xid = c
          /\ dmn' = [dmn EXCEPT !.pend = @ \cup {r}]
    BY <1>2, <1>3 DEF usrsockdev_read, usrsockdev_get_xid
  <2>2. {-1} \cup UsockIds \subseteq Int
    BY ConnAssumption
  <2>3. [th : {t}, op : Requests, xid : Conns, usockid : {-1} \cup UsockIds, ip : {FALSE}]
          \subseteq PendingRequests
    BY <2>2 DEF PendingRequests
  <2>4. r \in PendingRequests /\ r.th = t
    BY <2>1, <2>3
  <2> QED
    BY <2>1, <2>4
<1>5. dmn'.pend = dmn.pend \cup {r}
  BY <1>1, <1>4 DEF DmnRecords
<1>6. /\ dev'.iov = t /\ dev'.rd /\ dev'.ackxid = dev.ackxid
      /\ dev'.acksem = dev.acksem /\ dev'.datain = dev.datain
  BY <1>1, <1>2 DEF usrsockdev_read, DevRecords
<1>7. conn' = conn /\ thr' = thr
  BY DEF usrsockdev_read
<1>8. AskOk(t, c) /\ dev.ackxid = c
  BY <1>2, <1>3 DEF ExchangeInv, CallOk, Unread
<1>9. ~WasRead(t) /\ WasRead(t)' /\ ~Unread(t)'
  BY <1>2, <1>6, <1>7 DEF WasRead, Unread
<1>10. \A q \in dmn.pend : q.th # t
  BY <1>9, <1>2 DEF ExchangeInv, CallOk, PendOk
<1>11. dev.datain # c
  <2>1. ASSUME dev.datain = c PROVE FALSE
    <3>1. PICK u \in Threads : DataFor(u)
      BY <1>3, <2>1 DEF ExchangeInv, DataOk
    <3>2. u = t
      BY <1>2, <1>3, <2>1, <3>1, OneCall DEF DataFor, Orderly
    <3> QED
      BY <1>9, <3>1, <3>2 DEF DataFor
  <2> QED
    BY <2>1
<1>12. ASSUME NEW u \in Threads, u # t PROVE Quiet(u)
  <2>1. \A q \in PendingRequests : q.th = u => (q \in dmn'.pend <=> q \in dmn.pend)
    BY <1>4, <1>5, <1>12
  <2> QED
    BY <1>2, <1>6, <1>7, <1>12, <2>1 DEF Quiet, MovesUp, SameExchange
<1>13. PendOk(r)'
  BY <1>3, <1>4, <1>6, <1>7, <1>8, <1>9, <1>11 DEF PendOk, AskOk
<1>14. CallOk(t)'
  <2>1. \A q \in dmn'.pend : q.th = t => q = r
    BY <1>5, <1>10
  <2> QED
    BY <1>2, <1>3, <1>4, <1>5, <1>6, <1>7, <1>8, <1>9, <1>13, <2>1 DEF CallOk, Asked
<1>15. \A u \in Threads : CallOk(u)'
  BY <1>1, <1>12, <1>14, QuietCall DEF ExchangeInv
<1>16. DataOk'
  <2>1. CASE dev.datain = NoConn
    BY <1>6, <2>1 DEF DataOk
  <2>2. CASE dev.datain # NoConn
    <3>1. PICK u \in Threads : DataFor(u)
      BY <2>2 DEF ExchangeInv, DataOk
    <3>2. u # t
      BY <1>9, <3>1 DEF DataFor
    <3> QED
      BY <1>1, <1>6, <1>12, <2>2, <3>1, <3>2, QuietData
  <2> QED
    BY <2>1, <2>2
<1>17. \A d \in Conns : conn'[d].state # "ABORTED" /\ InProgressOk(d)'
  BY <1>5, <1>7 DEF ExchangeInv, InProgressOk
<1>18. ResponseMatch'
  BY <1>7 DEF ResponseMatch
<1> QED
  BY <1>15, <1>16, <1>17, <1>18 DEF ExchangeInv

(* usrsockdev_write while the data of a response are due completes the     *)
(* call that the connection was answered for.                              *)
LEMMA WriteExchange ==
  ASSUME Orderly, Base, Serving, dmn.sessions <= 1, ExchangeInv, ResponseMatch, Inv',
         usrsockdev_write
  PROVE  ExchangeInv' /\ ResponseMatch'
<1>1. /\ dev \in DevRecords /\ dmn \in DmnRecords /\ dmn' \in DmnRecords
      /\ ConnInv /\ WaitInv
  BY ServingFacts DEF Base, Inv, TypeOK
<1>2. PICK c \in Conns : dev.datain = c /\ c # NoConn
  BY ServingFacts, NoConnFacts DEF usrsockdev_write
<1>3. dmn'.pend = dmn.pend
  <2>1. dmn.owes
    BY <1>2, ServingFacts
  <2>2. dmn' = [dmn EXCEPT !.owes = FALSE]
    BY <2>1 DEF usrsockdev_write
  <2> QED
    BY <1>1, <2>2 DEF DmnRecords
<1>4. PICK cr \in ConnRecords :
        /\ cr.list = conn[c].list /\ cr.state = conn[c].state
        /\ cr.inprogress = conn[c].inprogress /\ cr.answered = conn[c].answered
        /\ usrsock_event(c, cr, {"REQ_COMPLETE"})
  <2> DEFINE ce == [conn[c] EXCEPT !.result = EINVAL]
  <2>1. conn[c] \in ConnRecords
    BY <1>1, ConnFacts
  <2>2. EINVAL \in Int
    BY DEF EINVAL
  <2>3. /\ ce \in ConnRecords /\ ce.list = conn[c].list /\ ce.state = conn[c].state
        /\ ce.inprogress = conn[c].inprogress /\ ce.answered = conn[c].answered
    BY <2>1, <2>2 DEF ConnRecords
  <2>4. \/ usrsock_event(c, ce, {"REQ_COMPLETE"})
        \/ usrsock_event(c, conn[c], {"REQ_COMPLETE"})
    BY <1>2 DEF usrsockdev_write, WriteData
  <2> HIDE DEF ce
  <2> QED
    BY <2>1, <2>3, <2>4
<1>5. /\ dev'.datain = NoConn /\ dev'.iov = dev.iov /\ dev'.rd = dev.rd
      /\ dev'.ackxid = dev.ackxid /\ dev'.acksem = dev.acksem
  BY <1>1 DEF usrsockdev_write, WriteData, InputDone, DevRecords
<1>6. PICK t \in Threads : DataFor(t)
  BY <1>2 DEF ExchangeInv, DataOk
<1>7. /\ thr[t].conn = c /\ WasRead(t) /\ thr[t].cb = RequestFlags
      /\ cr.answered = [th |-> t, op |-> thr[t].op]
  BY <1>2, <1>4, <1>6 DEF DataFor
<1>8. thr[t].pc \in {"ackwait", "respwait"} /\ CallOk(t)
  BY <1>7 DEF WasRead, ExchangeInv
<1>9. {"REQ_COMPLETE"} \in SUBSET Events
  BY DEF Events, InternalEvents
<1>10. /\ thr'[t].pc = thr[t].pc /\ thr'[t].conn = c /\ thr'[t].op = thr[t].op
       /\ thr'[t].cb = {} /\ thr'[t].from \in {thr[t].from, cr.answered}
  BY <1>1, <1>4, <1>7, <1>8, RaisedHere DEF RequestPlaces
<1>11. \A u \in Threads \ {t} : thr[u].conn # c
  BY <1>7, OneCall DEF Orderly
<1>12. ASSUME NEW u \in Threads \ {t}
       PROVE  /\ thr'[u] = thr[u]
              /\ thr[u].conn \in Conns => conn'[thr[u].conn] = conn[thr[u].conn]
  BY <1>1, <1>4, <1>9, <1>11, RaisedElsewhere
<1>13. ASSUME NEW u \in Threads \ {t} PROVE Quiet(u)
  <2>1. thr[u].conn \in Conns => thr[u].conn # NoConn
    BY NoConnFacts
  <2> QED
    BY <1>2, <1>3, <1>5, <1>11, <1>12, <2>1 DEF Quiet, MovesUp, SameExchange
<1>14. EventLeaves(c, cr, {"REQ_COMPLETE"})
  BY <1>1, <1>4, <1>9, EventLeft
<1>15. StateUpdate(cr, {"REQ_COMPLETE"}).state # "ABORTED"
  BY <1>4, UpdateFields DEF ExchangeInv
<1>16. /\ \A d \in Conns \ {c} : conn'[d] = conn[d]
       /\ conn'[c].state # "ABORTED" /\ conn'[c].inprogress = conn[c].inprogress
  BY <1>4, <1>14, <1>15 DEF EventLeaves, OnlyConn
<1>17. \A q \in dmn.pend : q.th # t
  BY <1>2, <1>7, <1>8 DEF CallOk, PendOk
<1>18. dev.iov # t
  <2>1. dev.iov = t => thr[t].pc = "ackwait"
    BY ServingFacts, ConnAssumption
  <2> QED
    BY <1>7, <1>8, <1>17, <2>1 DEF CallOk, WasRead, Asked
<1>19. CallOk(t)'
  <2>1. ~Unread(t)'
    BY <1>5, <1>8, <1>10, <1>18 DEF Unread
  <2>2. thr'[t].cb # RequestFlags
    BY <1>10 DEF RequestFlags
  <2>3. thr'[t].pc = "ackwait" => dev'.acksem > 0
    BY <1>5, <1>8, <1>10, <1>18 DEF CallOk
  <2> QED
    BY <1>3, <1>5, <1>17, <1>18, <2>1, <2>2, <2>3 DEF CallOk
<1>20. \A u \in Threads : CallOk(u)'
  BY <1>1, <1>13, <1>19, QuietCall DEF ExchangeInv
<1>21. DataOk'
  BY <1>5 DEF DataOk
<1>22. \A d \in Conns : conn'[d].state # "ABORTED" /\ InProgressOk(d)'
  BY <1>3, <1>16 DEF ExchangeInv, InProgressOk
<1>23. ResponseMatch'
  BY <1>7, <1>10, <1>12 DEF ResponseMatch
<1> QED
  BY <1>20, <1>21, <1>22, <1>23 DEF ExchangeInv

(* What an event message, or the end of the daemon, is to a call: it       *)
(* completes no request, and a wait it ends goes on from the same place.   *)
LEMMA MessageHeard ==
  ASSUME ConnInv, WaitInv, NEW c \in Conns, NEW cr \in ConnRecords, cr.list = conn[c].list,
         NEW ev \in SUBSET ExternalEvents, usrsock_event(c, cr, ev), NEW u \in Threads
  PROVE  /\ "ABORT" \notin ev /\ thr[u].pc \in RequestPlaces => thr'[u] = thr[u]
         /\ thr'[u].pc = thr[u].pc /\ thr'[u].conn = thr[u].conn /\ thr'[u].op = thr[u].op
         /\ thr'[u].from = thr[u].from
<1> DEFINE upd == StateUpdate(cr, ev)
           cbs == EventsToCallbacks(cr, ev)
<1>1. ev \in SUBSET Events
  BY DEF Events
<1>2. Hears(u, c, cr, ev) /\ SamePlace(thr[u], thr'[u])
  BY <1>1, EventHeard, EventEffect DEF ConnInv
<1>3. "REQ_COMPLETE" \notin cbs /\ ("ABORT" \notin ev => "ABORT" \notin cbs)
  <2>1. "REQ_COMPLETE" \notin ev
    BY DEF ExternalEvents, DataEvents
  <2> QED
    BY <2>1 DEF EventsToCallbacks
<1>4. upd \in ConnRecords
  BY <1>1, StateUpdateType
<1>5. thr[u] \in ThreadRecords /\ WaitRecord(thr[u])
  BY ConnFacts DEF WaitInv
<1>6. \/ thr'[u] = thr[u]
      \/ /\ u \in Range(conn[c].list)
         /\ \E seen \in SUBSET cbs : /\ seen \cap thr[u].cb # {}
                                     /\ thr'[u] = Handler(thr[u], upd, seen)
  BY <1>2 DEF Hears
<1> HIDE DEF upd, cbs
<1>7. ASSUME NEW seen \in SUBSET cbs, seen \cap thr[u].cb # {},
             thr'[u] = Handler(thr[u], upd, seen), u \in Range(conn[c].list)
      PROVE  /\ "ABORT" \notin ev => thr[u].pc \notin RequestPlaces
             /\ thr'[u].from = thr[u].from
  <2>1. thr[u].pc \in WaitPlaces
    BY <1>7 DEF ConnInv, CallbackInv
  <2>2. "ABORT" \notin ev => thr[u].pc \notin RequestPlaces
    BY <1>3, <1>5, <1>7 DEF WaitRecord, RequestFlags
  <2>3. CASE thr[u].pc \in RequestPlaces \cup {"rdywait"}
    <3>1. /\ thr[u].op \in Requests
          /\ \/ seen \cap RequestFlags # {}
             \/ thr[u].op \in IoCalls /\ seen \cap ReadyFlags(thr[u].op) # {}
      BY <1>5, <1>7, <2>3 DEF WaitRecord, IoCalls, Requests, RequestPlaces
    <3>2. LET h == Handler(thr[u], upd, seen)
          IN  /\ h.cb = {} /\ h.recvsem = thr[u].recvsem + 1 /\ h.wake = thr[u].wake
              /\ \/ h.from = thr[u].from
                 \/ "REQ_COMPLETE" \in seen /\ h.from = upd.answered
              /\ thr[u].op = "connect" => h.result = IF "ABORT" \in seen THEN ECONNABORTED
                                                     ELSE upd.result
      BY <1>4, <1>5, <3>1, HandlerWakes
    <3> QED
      BY <1>3, <1>7, <2>2, <3>2
  <2>4. CASE thr[u].pc = "pollwait"
    <3>1. thr[u].op = "poll"
      BY <1>5, <2>4 DEF WaitRecord
    <3> QED
      BY <1>5, <1>7, <2>2, <3>1, HandlerPolls
  <2> QED
    BY <2>1, <2>2, <2>3, <2>4 DEF WaitPlaces, RequestPlaces
<1>8. "ABORT" \notin ev /\ thr[u].pc \in RequestPlaces => thr'[u] = thr[u]
  BY <1>6, <1>7
<1>9. thr'[u].from = thr[u].from
  BY <1>6, <1>7
<1> QED
  BY <1>2, <1>8, <1>9 DEF SamePlace

(* usrsockdev_handle_event raises the event it looked the connection up    *)
(* for.                                                                    *)
LEMMA DeliverExchange ==
  ASSUME Orderly, Base, Serving, dmn.sessions <= 1, ExchangeInv, ResponseMatch, Inv',
         DeliverEvent
  PROVE  ExchangeInv' /\ ResponseMatch'
<1>1. /\ dev \in DevRecords /\ dmn \in DmnRecords /\ dmn' \in DmnRecords
      /\ ConnInv /\ WaitInv
  BY ServingFacts DEF Base, Inv, TypeOK
<1>2. dmn.pc = "event" /\ dev' = dev /\ dmn'.pend = dmn.pend
  BY <1>1 DEF DeliverEvent, DmnRecords
<1>3. PICK c \in Conns : dmn.conn = c
  <2>1. dmn.conn # NoConn
    BY <1>2 DEF Base, ConnInv, Inv, PlaceInv
  <2> QED
    BY <1>1, <2>1 DEF DmnRecords
<1>4. PICK ev \in SUBSET ExternalEvents : dmn.ev = ev /\ "ABORT" \notin ev
  <2>1. dmn.ev \in EventMsgs
    BY <1>2 DEF Base, AskInv
  <2> QED
    BY <2>1, UsrsockAssumption DEF Orderly
<1>5. usrsock_event(c, conn[c], ev) /\ conn[c] \in ConnRecords
  BY <1>1, <1>3, <1>4, ConnFacts DEF DeliverEvent
<1>6. ASSUME NEW u \in Threads
      PROVE  /\ thr[u].pc \in RequestPlaces => thr'[u] = thr[u]
             /\ thr'[u].pc = thr[u].pc /\ thr'[u].conn = thr[u].conn
             /\ thr'[u].op = thr[u].op /\ thr'[u].from = thr[u].from
  BY <1>1, <1>4, <1>5, MessageHeard
<1>7. \A d \in Conns : /\ SameExchange(conn[d], conn'[d])
                       /\ conn'[d].state # "ABORTED"
  <2>1. ev \in SUBSET Events
    BY DEF Events
  <2>2. EventLeaves(c, conn[c], ev)
    BY <1>1, <1>5, <2>1, EventLeft
  <2>3. StateUpdate(conn[c], ev).state # "ABORTED"
    BY <1>4, <1>5, UpdateFields DEF ExchangeInv
  <2> QED
    BY <2>2, <2>3 DEF EventLeaves, OnlyConn, SameExchange, ExchangeInv
<1>8. ASSUME NEW u \in Threads, thr[u].pc \in RequestPlaces PROVE Quiet(u)
  BY <1>2, <1>6, <1>7, <1>8 DEF Quiet, MovesUp
<1>9. ASSUME NEW u \in Threads, thr[u].pc \notin RequestPlaces PROVE CallOk(u)'
  <2>1. \A r \in dmn.pend : r.th # u
    BY <1>9 DEF ExchangeInv, CallOk, PendOk, WasRead, RequestPlaces
  <2>2. dev.iov # u
    BY <1>9, ServingFacts, ConnAssumption DEF RequestPlaces
  <2>3. thr'[u].pc \notin RequestPlaces
    BY <1>6, <1>9
  <2> QED
    BY <1>2, <2>1, <2>2, <2>3, NoExchange
<1>10. \A u \in Threads : CallOk(u)'
  BY <1>1, <1>8, <1>9, QuietCall DEF ExchangeInv
<1>11. DataOk'
  <2>1. CASE dev.datain = NoConn
    BY <1>2, <2>1 DEF DataOk
  <2>2. CASE dev.datain # NoConn
    <3>1. PICK u \in Threads : DataFor(u)
      BY <2>2 DEF ExchangeInv, DataOk
    <3>2. thr[u].pc \in RequestPlaces
      BY <3>1 DEF DataFor, WasRead, RequestPlaces
    <3> QED
      BY <1>1, <1>2, <1>8, <2>2, <3>1, <3>2, QuietData
  <2> QED
    BY <2>1, <2>2
<1>12. \A d \in Conns : InProgressOk(d)'
  BY <1>2, <1>7 DEF ExchangeInv, InProgressOk, SameExchange
<1>13. ResponseMatch'
  BY <1>6 DEF ResponseMatch
<1> QED
  BY <1>7, <1>10, <1>11, <1>12, <1>13 DEF ExchangeInv

(* Every step of a daemon that serves the device.                          *)
LEMMA DaemonExchange ==
  ASSUME Orderly, Base, Serving, dmn.sessions <= 1, ExchangeInv, ResponseMatch, Inv',
         DaemonStep
  PROVE  /\ IF Serving' THEN ExchangeInv' ELSE dmn'.pend = {}
         /\ ResponseMatch'
<1>1. /\ dev \in DevRecords /\ dmn \in DmnRecords /\ dmn' \in DmnRecords /\ ConnInv /\ Inv
  BY ServingFacts DEF Base, ConnInv, Inv, TypeOK
<1>2. CASE PollSetup \/ PollTeardown \/ usrsockdev_handle_event
  <2>1. Serving'
    BY <1>1, <1>2 DEF PollSetup, PollTeardown, usrsockdev_handle_event, Serving, DmnRecords
  <2> QED
    BY <1>2, <2>1, LookExchange
<1>3. CASE usrsockdev_read
  <2>1. Serving'
    BY <1>1, <1>3 DEF usrsockdev_read, Serving, DmnRecords
  <2> QED
    BY <1>3, <2>1, ReadExchange
<1>4. ASSUME NEW t \in Threads, usrsockdev_handle_req_response(t)
      PROVE  Serving' /\ ExchangeInv' /\ ResponseMatch'
  <2>1. Serving'
    BY <1>1, <1>4, DaemonResponds DEF Serving
  <2>2. PICK r \in dmn.pend : RespondInProgress(r) \/ RespondFinally(r)
    BY <1>4 DEF usrsockdev_handle_req_response
  <2>3. dev.datain = NoConn
    BY <1>4 DEF usrsockdev_handle_req_response
  <2>4. CASE RespondInProgress(r)
    <3>1. ExchangeInv' /\ thr' = thr
      BY <2>3, <2>4, InProgressExchange
    <3> QED
      BY <2>1, <3>1 DEF ResponseMatch
  <2>5. CASE RespondFinally(r)
    <3>1. FinallyAnswered(r)
      BY <2>5, FinalForm
    <3> QED
      BY <2>1, <2>3, <3>1, FinalExchange
  <2> QED
    BY <2>2, <2>4, <2>5
<1>5. CASE usrsockdev_write
  <2>1. Serving'
    BY <1>1, <1>5 DEF usrsockdev_write, Serving, DmnRecords
  <2> QED
    BY <1>5, <2>1, WriteExchange
<1>6. CASE DeliverEvent
  <2>1. Serving'
    BY <1>1, <1>6 DEF DeliverEvent, Serving, DmnRecords
  <2> QED
    BY <1>6, <2>1, DeliverExchange
<1>7. CASE CloseBegin
  <2>1. dmn'.pc = "walk" /\ dmn'.pend = {} /\ thr' = thr
    BY <1>1, <1>7 DEF CloseBegin, DmnRecords
  <2> QED
    BY <2>1 DEF Serving, ResponseMatch
<1>8. ~usrsockdev_open /\ ~CloseAbort /\ ~CloseNext /\ ~CloseDown
      /\ ~CloseTimeout /\ ~CloseEnd /\ ~CloseLoop
  BY DEF Serving, usrsockdev_open, CloseAbort, CloseNext, CloseDown, CloseTimeout, CloseEnd,
         CloseLoop
<1> QED
  BY <1>2, <1>3, <1>4, <1>5, <1>6, <1>7, <1>8 DEF DaemonStep

-----------------------------------------------------------------------------
(* The steps while no daemon serves the device                             *)

(* The steps of the threads keep the answers they were given, whoever      *)
(* serves the device.                                                      *)
LEMMA ThreadMatch ==
  ASSUME Orderly, Base, ResponseMatch, NEW t \in Threads, ThreadStep(t)
  PROVE  ResponseMatch'
<1>1. ConnInv /\ WaitInv /\ thr \in [Threads -> ThreadRecords]
  BY DEF Base, ConnInv, Inv, TypeOK
<1>2. ASSUME NEW u \in Threads, MovesUp(u)
      PROVE  thr'[u].from = thr[u].from /\ thr'[u].op = thr[u].op
  <2>1. thr[u] \in ThreadRecords
    BY <1>1
  <2> QED
    BY <1>2, <2>1 DEF MovesUp, ThreadRecords
<1>3. CASE CallForm(t)
  <2>1. CallSeen(t)
    BY <1>3, FormSeen DEF Orderly
  <2>2. ASSUME NEW u \in Threads PROVE thr'[u] = thr[u] \/ thr'[u].from = NoRequest
    BY <2>1 DEF CallSeen
  <2> QED
    BY <2>2 DEF ResponseMatch
<1>4. CASE TakeLine(t) \/ LeaveLine(t)
  <2>1. LineMoves(t)
    BY <1>1, <1>4, LineForm
  <2>2. ASSUME NEW u \in Threads \ {t}
        PROVE  thr'[u].from = thr[u].from /\ thr'[u].op = thr[u].op
    BY <1>2, <2>1 DEF LineMoves
  <2>3. \/ thr'[t].from = thr[t].from /\ thr'[t].op = thr[t].op
        \/ thr'[t].from = NoRequest
    <3>1. thr[t] \in ThreadRecords /\ thr[t].pc \in RequestPlaces
      BY <1>1, <2>1 DEF LineMoves, RequestPlaces
    <3>2. \/ \E p \in {"ackwait", "respwait"} : thr'[t] = [thr[t] EXCEPT !.pc = p]
          \/ thr'[t] = IdleThread
      BY <2>1 DEF LineMoves
    <3>3. IdleThread.from = NoRequest
      BY DEF IdleThread
    <3> QED
      BY <3>1, <3>2, <3>3 DEF ThreadRecords
  <2> QED
    BY <2>2, <2>3 DEF ResponseMatch
<1>5. CASE net_timedwait(t)
  <2>1. PICK w \in {"timeout", "signal"} : thr' = [thr EXCEPT ![t].wake = w]
    BY <1>5 DEF net_timedwait
  <2>2. thr[t] \in ThreadRecords
    BY <1>1
  <2>3. \A u \in Threads : thr'[u].from = thr[u].from /\ thr'[u].op = thr[u].op
    BY <1>1, <2>1, <2>2 DEF ThreadRecords
  <2> QED
    BY <2>3 DEF ResponseMatch
<1> QED
  BY <1>1, <1>3, <1>4, <1>5, ThreadForms

(* The first daemon finds nothing under way.                               *)
LEMMA OpenExchange ==
  ASSUME Base, dmn.sessions <= 1, ResponseMatch, usrsockdev_open, dmn'.sessions <= 1
  PROVE  ExchangeInv' /\ ResponseMatch'
<1>1. dev \in DevRecords /\ dmn \in DmnRecords /\ dmn.sessions \in Nat
  BY DEF Base, ConnInv, Inv, TypeOK, DmnRecords
<1>2. /\ dmn'.sessions = dmn.sessions + 1 /\ dmn'.pend = dmn.pend
      /\ dev'.iov = dev.iov /\ dev'.datain = dev.datain /\ conn' = conn /\ thr' = thr
  BY <1>1 DEF usrsockdev_open, DmnRecords, DevRecords
<1>3. dmn.sessions = 0
  BY <1>1, <1>2
<1>4. /\ \A t \in Threads : thr[t].pc \notin RequestPlaces
      /\ \A c \in Conns : ~conn[c].inprogress /\ conn[c].state = "UNINITIALIZED"
      /\ dmn.pend = {} /\ dev.datain = NoConn /\ ~dev.leaked
  BY <1>1, <1>3 DEF Base, UnservedInv, WriteInv, LeakInv
<1>5. \A u \in Threads : dev.iov # u
  BY <1>4, ConnAssumption DEF Base, LineOwner, RequestPlaces
<1>6. \A u \in Threads : CallOk(u)'
  BY <1>2, <1>4, <1>5, NoExchange
<1>7. DataOk'
  BY <1>2, <1>4 DEF DataOk
<1>8. \A d \in Conns : conn'[d].state # "ABORTED" /\ InProgressOk(d)'
  BY <1>2, <1>4 DEF InProgressOk
<1>9. ResponseMatch'
  BY <1>2 DEF ResponseMatch
<1> QED
  BY <1>6, <1>7, <1>8, <1>9 DEF ExchangeInv

(* The end of the daemon gives nobody an answer.                           *)
LEMMA CloseMatch ==
  ASSUME Base, ResponseMatch,
         CloseAbort \/ CloseNext \/ CloseDown \/ CloseTimeout \/ CloseEnd \/ CloseLoop
  PROVE  ResponseMatch'
<1>1. /\ ConnInv /\ WaitInv /\ thr \in [Threads -> ThreadRecords] /\ conn \in ConnFun
      /\ dmn \in DmnRecords
  BY DEF Base, ConnInv, Inv, TypeOK, ConnFun
<1>2. ASSUME \A u \in Threads : MovesUp(u) PROVE ResponseMatch'
  <2>1. ASSUME NEW u \in Threads PROVE thr'[u].from = thr[u].from /\ thr'[u].op = thr[u].op
    <3>1. thr[u] \in ThreadRecords
      BY <1>1
    <3> QED
      BY <1>2, <3>1 DEF MovesUp, ThreadRecords
  <2> QED
    BY <2>1 DEF ResponseMatch
<1>3. CASE CloseAbort
  <2>1. PICK c \in Conns : dmn.conn = c
    BY <1>1, <1>3 DEF CloseAbort, DmnRecords
  <2> DEFINE cr == [conn[c] EXCEPT !.inprogress = FALSE, !.xid = 0]
  <2>2. conn[c] \in ConnRecords
    BY <1>1, ConnFacts
  <2>3. cr \in ConnRecords /\ cr.list = conn[c].list
    BY <2>2, NoConnFacts DEF ConnRecords, NoConn
  <2>4. usrsock_event(c, cr, {"ABORT"}) /\ {"ABORT"} \in SUBSET ExternalEvents
    BY <1>3, <2>1 DEF CloseAbort, ExternalEvents
  <2> HIDE DEF cr
  <2>5. ASSUME NEW u \in Threads PROVE thr'[u].from = thr[u].from /\ thr'[u].op = thr[u].op
    BY <1>1, <2>3, <2>4, MessageHeard
  <2> QED
    BY <2>5 DEF ResponseMatch
<1>4. CASE CloseNext \/ CloseDown \/ CloseTimeout
  <2>1. thr' = thr
    BY <1>4 DEF CloseNext, CloseDown, CloseTimeout
  <2> QED
    BY <2>1 DEF ResponseMatch
<1>5. CASE CloseEnd
  <2>1. CASE thr' = thr
    BY <2>1 DEF ResponseMatch
  <2>2. CASE thr' # thr
    <3>1. PICK dv, dm : usrsockdev_semgive(thr, dv, dm)
      BY <1>5, <2>2 DEF CloseEnd
    <3> QED
      BY <1>1, <1>2, <3>1, SemgiveMoves DEF MovesUp
  <2> QED
    BY <2>1, <2>2
<1>6. CASE CloseLoop
  <2>1. \/ thr' = thr
        \/ \E u \in Threads : thr[u].pc = "reqwait" /\ thr' = [thr EXCEPT ![u].pc = "linegot"]
    BY <1>6 DEF CloseLoop
  <2>2. \A u \in Threads : MovesUp(u)
    BY <1>1, <2>1 DEF MovesUp
  <2> QED
    BY <1>2, <2>2
<1> QED
  BY <1>3, <1>4, <1>5, <1>6

(* A daemon that has closed the device, or is about to, serves it only     *)
(* once it has opened it again.                                            *)
LEMMA ClosedStays ==
  ASSUME dmn \in DmnRecords, ~Serving, DaemonStep, ~usrsockdev_open
  PROVE  ~Serving' /\ dmn'.pend = dmn.pend
<1>1. CASE CloseAbort \/ CloseNext \/ CloseDown \/ CloseTimeout
  BY <1>1 DEF CloseAbort, CloseNext, CloseDown, CloseTimeout, Serving, DmnRecords
<1>2. CASE CloseEnd
  <2> DEFINE dm == [dmn EXCEPT !.pc = "closed"]
  <2>1. dm \in DmnRecords /\ dm.pc = "closed" /\ dm.pend = dmn.pend
    BY DEF DmnRecords
  <2>2. dmn' = dm \/ dmn' = [dm EXCEPT !.pc = "got"]
    BY <1>2 DEF CloseEnd, usrsockdev_semgive
  <2> HIDE DEF dm
  <2> QED
    BY <2>1, <2>2 DEF Serving, DmnRecords
<1>3. CASE CloseLoop
  BY <1>3 DEF CloseLoop, Serving, DmnRecords
<1>4. CASE PollTeardown
  BY <1>4 DEF PollTeardown, Serving
<1>5. ~( \/ PollSetup \/ usrsockdev_read \/ usrsockdev_write \/ usrsockdev_handle_event
        \/ DeliverEvent \/ CloseBegin \/ \E t \in Threads : usrsockdev_handle_req_response(t))
  BY DEF Serving, PollSetup, usrsockdev_read, usrsockdev_handle_req_response,
         usrsockdev_write, usrsockdev_handle_event, DeliverEvent, CloseBegin, DaemonRuns
<1> QED
  BY <1>1, <1>2, <1>3, <1>4, <1>5 DEF DaemonStep

(* Every step of the daemon while nobody serves the device.                *)
LEMMA ClosedExchange ==
  ASSUME Base, ~Serving, dmn.sessions <= 1, dmn.pend = {}, ResponseMatch,
         DaemonStep, dmn'.sessions <= 1
  PROVE  /\ IF Serving' THEN ExchangeInv' ELSE dmn'.pend = {}
         /\ ResponseMatch'
<1>1. dmn \in DmnRecords
  BY DEF Base, ConnInv, Inv, TypeOK
<1>2. CASE usrsockdev_open
  <2>1. Serving'
    BY <1>1, <1>2 DEF usrsockdev_open, Serving, DmnRecords
  <2> QED
    BY <1>2, <2>1, OpenExchange
<1>3. CASE CloseAbort \/ CloseNext \/ CloseDown \/ CloseTimeout \/ CloseEnd \/ CloseLoop
  <2>1. ~Serving' /\ dmn'.pend = dmn.pend
    BY <1>1, <1>2, <1>3, ClosedStays DEF CloseAbort, CloseNext, CloseDown, CloseTimeout,
       CloseEnd, CloseLoop, usrsockdev_open
  <2> QED
    BY <1>3, <2>1, CloseMatch
<1>4. CASE PollTeardown
  <2>1. dmn' = dmn /\ thr' = thr
    BY <1>4 DEF PollTeardown
  <2> QED
    BY <2>1 DEF Serving, ResponseMatch
<1>5. ~( \/ PollSetup \/ usrsockdev_read \/ usrsockdev_write \/ usrsockdev_handle_event
        \/ DeliverEvent \/ CloseBegin \/ \E t \in Threads : usrsockdev_handle_req_response(t))
  BY DEF Serving, PollSetup, usrsockdev_read, usrsockdev_handle_req_response,
         usrsockdev_write, usrsockdev_handle_event, DeliverEvent, CloseBegin, DaemonRuns
<1> QED
  BY <1>2, <1>3, <1>4, <1>5 DEF DaemonStep

-----------------------------------------------------------------------------
(* The theorems                                                            *)

(* Sessions are only begun.                                                *)
LEMMA SessionsGrow ==
  ASSUME Inv, DaemonStep
  PROVE  dmn'.sessions >= dmn.sessions
<1>1. dmn \in DmnRecords /\ dmn.sessions \in Nat
  BY DEF Inv, TypeOK, DmnRecords
<1>2. CASE usrsockdev_open
  <2>1. dmn'.sessions = dmn.sessions + 1
    BY <1>1, <1>2 DEF usrsockdev_open, DmnRecords
  <2> QED
    BY <1>1, <2>1
<1>3. CASE CloseDown \/ CloseEnd \/ CloseLoop
  <2>1. dmn'.sessions = dmn.sessions
    BY <1>1, <1>3 DEF CloseDown, CloseEnd, CloseLoop, usrsockdev_semgive, DmnRecords
  <2> QED
    BY <1>1, <2>1
<1>4. CASE ~usrsockdev_open /\ ~CloseDown /\ ~CloseEnd /\ ~CloseLoop
  BY <1>1, <1>4, SessionStays
<1> QED
  BY <1>2, <1>3, <1>4

(* The exchange of the first daemon stays in order.                        *)
LEMMA NextExchInv ==
  ASSUME Orderly, Base, Base', ExchInv, [Next]_vars
  PROVE  ExchInv'
<1> SUFFICES ASSUME dmn'.sessions <= 1
             PROVE  /\ IF Serving' THEN ExchangeInv' ELSE dmn'.pend = {}
                    /\ ResponseMatch'
  BY DEF ExchInv
<1>1. /\ dmn \in DmnRecords /\ dmn.sessions \in Nat /\ Inv /\ Inv'
  BY DEF Base, ConnInv, Inv, TypeOK, DmnRecords
<1>2. CASE UNCHANGED vars
  <2>1. dmn.sessions <= 1
    BY <1>2 DEF vars
  <2>2. (IF Serving THEN ExchangeInv ELSE dmn.pend = {}) /\ ResponseMatch
    BY <2>1 DEF ExchInv
  <2>3. /\ Serving' <=> Serving
        /\ ResponseMatch' <=> ResponseMatch
        /\ dmn'.pend = dmn.pend
    BY <1>2 DEF vars, Serving, ResponseMatch
  <2>4. ExchangeInv' <=> ExchangeInv
    BY <1>2 DEF vars, ExchangeInv, CallOk, PendOk, AskOk, Asked, Unread, WasRead, DataOk,
                DataFor, InProgressOk
  <2> QED
    BY <2>2, <2>3, <2>4
<1>3. ASSUME NEW t \in Threads, ThreadStep(t)
      PROVE  /\ IF Serving' THEN ExchangeInv' ELSE dmn'.pend = {}
             /\ ResponseMatch'
  <2>1. \/ dmn' = dmn
        \/ /\ dmn.pc = "wait" /\ dmn'.pc = "got" /\ dmn'.sessions = dmn.sessions
           /\ dmn'.pend = dmn.pend
    BY <1>1, <1>3, ThreadLeavesDaemon
  <2>2. dmn.sessions <= 1 /\ (Serving' <=> Serving) /\ dmn'.pend = dmn.pend
    BY <2>1 DEF Serving
  <2>3. (IF Serving THEN ExchangeInv ELSE dmn.pend = {}) /\ ResponseMatch
    BY <2>2 DEF ExchInv
  <2>4. ResponseMatch'
    BY <1>3, <2>3, ThreadMatch
  <2>5. Serving => ExchangeInv'
    BY <1>3, <2>2, <2>3, ThreadExchange
  <2> QED
    BY <2>2, <2>3, <2>4, <2>5
<1>4. CASE DaemonStep
  <2>1. dmn.sessions <= 1
    <3>1. dmn'.sessions >= dmn.sessions /\ dmn'.sessions \in Nat
      BY <1>1, <1>4, SessionsGrow DEF Inv, TypeOK, DmnRecords
    <3> QED
      BY <1>1, <3>1
  <2>2. (IF Serving THEN ExchangeInv ELSE dmn.pend = {}) /\ ResponseMatch
    BY <2>1 DEF ExchInv
  <2>3. CASE Serving
    BY <1>1, <1>4, <2>1, <2>2, <2>3, DaemonExchange
  <2>4. CASE ~Serving
    BY <1>4, <2>1, <2>2, <2>4, ClosedExchange
  <2> QED
    BY <2>3, <2>4
<1> QED
  BY <1>2, <1>3, <1>4 DEF Next

(* Every reachable state satisfies the invariants.                         *)
LEMMA SpecExchInv ==
  ASSUME Orderly
  PROVE  Spec => [](Base /\ ExchInv)
<1>1. Init => AskInv /\ UnservedInv /\ LeakInv /\ WriteInv
  <2> SUFFICES ASSUME Init PROVE AskInv /\ UnservedInv /\ LeakInv /\ WriteInv
    OBVIOUS
  <2>1. /\ dmn.pc = "closed" /\ dmn.sessions = 0 /\ dmn.pend = {} /\ ~dmn.owes
        /\ dev.ocount = 0 /\ ~dev.leaked /\ dev.datain = NoConn
    BY DEF Init, usrsockdev_register
  <2>2. \A t \in Threads : thr[t].pc = "idle" /\ thr[t].wake = "no"
    BY DEF Init, IdleThread
  <2>3. \A c \in Conns : conn[c].xid = 0 /\ ~conn[c].inprogress /\ conn[c].state = "UNINITIALIZED"
    BY DEF Init, usrsock_initialize, ClearedConn
  <2> QED
    BY <2>1, <2>2, <2>3 DEF AskInv, UnservedInv, LeakInv, WriteInv, WriteInStep, RequestPlaces
<1>2. Init => ExchInv
  BY DEF Init, ExchInv, Serving, ResponseMatch, IdleThread
<1>3. Spec => [](ConnInv /\ WaitInv /\ ServedInv)
  BY SpecServedInv DEF Orderly
<1>4. ConnInv => Inv
  BY DEF ConnInv
<1>5. /\ ConnInv /\ WaitInv /\ ServedInv /\ AskInv /\ UnservedInv /\ LeakInv /\ WriteInv
      /\ LineOwner
      <=> Base
  BY DEF Base
<1>6. Base /\ Base' /\ ExchInv /\ [Next]_vars => ExchInv'
  BY NextExchInv
<1> QED
  BY <1>1, <1>2, <1>3, <1>4, <1>5, <1>6, NextAskInv, NextUnservedInv, NextLeakInv,
     NextWriteInv, OwnerCorrect, PTL DEF Spec

(* "Each connection can one only one request/response pending"             *)
(* (usrsockdev_get_xid): if every socket is one thread's and every         *)
(* connect() is waited for, the first daemon never holds two unanswered    *)
(* requests with one exchange id, for any number of threads and            *)
(* connections, whatever it answers, in whatever order.                    *)
THEOREM OneRequestCorrect ==
  Orderly => (Spec => [](dmn.sessions <= 1 => OneRequestPerConn))
<1> SUFFICES ASSUME Orderly PROVE Spec => [](dmn.sessions <= 1 => OneRequestPerConn)
  OBVIOUS
<1>1. Base /\ ExchInv => (dmn.sessions <= 1 => OneRequestPerConn)
  <2> SUFFICES ASSUME Base, ExchInv, dmn.sessions <= 1,
                      NEW r \in dmn.pend, NEW q \in dmn.pend, r.xid = q.xid
               PROVE  r = q
    BY DEF OneRequestPerConn
  <2>1. Serving /\ ExchangeInv
    BY DEF ExchInv
  <2>2. /\ r.th \in Threads /\ q.th \in Threads /\ r.xid \in Conns
    BY <2>1, ServingFacts
  <2>3. PendOk(r) /\ PendOk(q)
    BY <2>1, <2>2 DEF ExchangeInv, CallOk
  <2>4. r.th = q.th
    BY <2>2, <2>3, OneCall DEF PendOk, Orderly
  <2> QED
    BY <2>1, <2>2, <2>4 DEF ExchangeInv, CallOk
<1> QED
  BY <1>1, SpecExchInv, PTL

(* A call is completed by the response to its own request                  *)
(* (usrsockdev_handle_req_response, usrsockdev_write and the event         *)
(* handlers), and not by that to another one of its connection, in the     *)
(* first session and until the next daemon.                                *)
THEOREM ResponseCorrect ==
  Orderly => (Spec => [](dmn.sessions <= 1 => ResponseMatch))
<1> SUFFICES ASSUME Orderly PROVE Spec => [](dmn.sessions <= 1 => ResponseMatch)
  OBVIOUS
<1>1. ExchInv => (dmn.sessions <= 1 => ResponseMatch)
  BY DEF ExchInv
<1> QED
  BY <1>1, SpecExchInv, PTL

(* The first daemon walks the connections only when it closes the device.  *)
RacedInv == (dmn.sessions = 0 \/ (dmn.sessions = 1 /\ Serving)) => ~raced

LEMMA NextRaced == Inv /\ LeakInv /\ RacedInv /\ [Next]_vars => RacedInv'
<1> SUFFICES ASSUME Inv, LeakInv, RacedInv, [Next]_vars,
                    dmn'.sessions = 0 \/ (dmn'.sessions = 1 /\ Serving')
             PROVE  ~raced'
  BY DEF RacedInv
<1>1. CASE UNCHANGED vars
  BY <1>1 DEF vars, RacedInv, Serving
<1>2. dmn \in DmnRecords /\ dmn.sessions \in Nat
  BY DEF Inv, TypeOK, DmnRecords
<1>3. CASE Next
  <2>1. dmn.sessions = 0 \/ (dmn.sessions = 1 /\ Serving)
    <3>1. CASE usrsockdev_open
      <4>1. dmn'.sessions = dmn.sessions + 1
        BY <1>2, <3>1 DEF usrsockdev_open, DmnRecords
      <4> QED
        BY <1>2, <4>1
    <3>2. CASE DaemonStep /\ ~usrsockdev_open
      <4>1. dmn'.sessions >= dmn.sessions
        BY <3>2, SessionsGrow
      <4>2. Serving' => Serving
        BY <1>2, <3>2, ClosedStays
      <4> QED
        BY <1>2, <4>1, <4>2
    <3>3. ASSUME NEW t \in Threads, ThreadStep(t)
          PROVE  dmn'.sessions = dmn.sessions /\ (Serving' => Serving)
      BY <3>3, ThreadLeavesDaemon DEF Serving
    <3> QED
      BY <1>3, <3>1, <3>2, <3>3 DEF Next
  <2>2. dmn.pc \notin {"walk", "step"}
    BY <2>1 DEF LeakInv, Serving
  <2> QED
    BY <1>3, <2>1, <2>2 DEF Next, WalkHistory, RacedInv, LosesPlace, Walking
<1> QED
  BY <1>1, <1>3

(* While the first daemon serves the device, and announces no more data    *)
(* than the caller's buffers take, every blocked call can be woken: its    *)
(* request is still to be read, or the daemon holds it and                 *)
(* usrsockdev_handle_req_response will find the connection that waits, or  *)
(* the data are to come; and nobody waits on an aborted connection. No     *)
(* walk of usrsockdev_close has been raced by then.                        *)
THEOREM WakeupCorrect ==
  Orderly /\ ~FaultyDaemon =>
    (Spec => [](dmn.sessions <= 1 /\ Serving => ~raced /\ NoLostWakeup))
<1> SUFFICES ASSUME Orderly, ~FaultyDaemon
             PROVE  Spec => [](dmn.sessions <= 1 /\ Serving => ~raced /\ NoLostWakeup)
  OBVIOUS
<1>1. Base /\ ExchInv => (dmn.sessions <= 1 /\ Serving => NoLostWakeup)
  <2> SUFFICES ASSUME Base, ExchInv, dmn.sessions <= 1, Serving PROVE NoLostWakeup
    OBVIOUS
  <2>1. ExchangeInv /\ dmn.pc \in {"open", "event"}
    BY DEF ExchInv, Serving
  <2>2. ASSUME NEW t \in Threads, thr[t].pc \in RequestPlaces \cup {"rdywait"}
        PROVE  thr[t].conn \in Conns /\ conn[thr[t].conn].state # "ABORTED"
    <3>1. thr[t].conn \in Conns
      BY <2>2, ConnFacts DEF Base, RequestPlaces
    <3> QED
      BY <2>1, <3>1 DEF ExchangeInv
  <2>3. ASSUME NEW t \in Threads, Asked(t)
        PROVE  /\ conn[thr[t].conn].xid = thr[t].conn
               /\ \E r \in dmn.pend : r.th = t /\ r.xid = thr[t].conn
    <3>1. PICK r \in dmn.pend : r.th = t
      BY <2>3 DEF Asked
    <3>2. PendOk(r)
      BY <2>1, <3>1 DEF ExchangeInv, CallOk
    <3> QED
      BY <3>1, <3>2 DEF PendOk
  <2>4. ASSUME NEW t \in Threads, thr[t].pc = "ackwait"
        PROVE  \/ dev.acksem > 0
               \/ /\ dev.iov = t /\ conn[thr[t].conn].xid = thr[t].conn
                  /\ \/ \E r \in dmn.pend : r.th = t /\ r.xid = thr[t].conn
                     \/ ~dev.rd
    <3>1. CallOk(t)
      BY <2>1 DEF ExchangeInv
    <3>2. CASE dev.iov = t /\ dev.rd
      BY <2>3, <3>1, <3>2 DEF CallOk
    <3>3. CASE dev.iov = t /\ ~dev.rd
      BY <2>4, <3>1, <3>3 DEF CallOk, Unread, AskOk
    <3> QED
      BY <2>4, <3>1, <3>2, <3>3 DEF CallOk
  <2>5. ASSUME NEW t \in Threads, thr[t].pc = "respwait", thr[t].recvsem = 0
        PROVE  \/ /\ conn[thr[t].conn].xid = thr[t].conn
                  /\ \E r \in dmn.pend : r.th = t /\ r.xid = thr[t].conn
               \/ dev.datain = thr[t].conn
    <3>1. WaitRecord(thr[t])
      BY DEF Base, WaitInv
    <3>2. thr[t].cb = RequestFlags
      BY <2>5, <3>1 DEF WaitRecord, RequestPlaces
    <3>3. Asked(t) \/ dev.datain = thr[t].conn
      BY <2>1, <2>5, <3>2 DEF ExchangeInv, CallOk, WasRead
    <3> QED
      BY <2>3, <3>3
  <2> QED
    BY <2>1, <2>2, <2>4, <2>5 DEF NoLostWakeup, Closing, usrsockdev_get_xid
<1>2. Init => RacedInv
  BY DEF Init, RacedInv
<1>3. Base => Inv /\ LeakInv
  BY DEF Base, ConnInv
<1>4. Base /\ RacedInv => (dmn.sessions <= 1 /\ Serving => ~raced)
  <2>1. Base => dmn.sessions \in Nat
    BY DEF Base, ConnInv, Inv, TypeOK, DmnRecords
  <2> QED
    BY <2>1 DEF RacedInv
<1> QED
  BY <1>1, <1>2, <1>3, <1>4, NextRaced, SpecExchInv, PTL DEF Spec

-----------------------------------------------------------------------------
(* The sockets of kernel and daemon                                        *)

(* The connection is the kernel's end of a socket whose close the daemon   *)
(* has not answered.                                                       *)
Held(c) ==
  /\ Live(c)
  /\ \A t \in Threads : thr[t].conn = c /\ thr[t].op = "close" =>
       thr[t].pc \in RequestPlaces /\ thr[t].cb = RequestFlags

(* The daemon knows every socket the kernel holds, each by a number of its *)
(* own. A close under way is that of a usable socket, and names it; data   *)
(* come for a request that asked for them.                                 *)
SockInv ==
  /\ \A c \in Conns : Held(c) => conn[c].usockid \in dmn.socks
  /\ \A c, d \in Conns : Held(c) /\ Held(d) /\ conn[c].usockid = conn[d].usockid => c = d
  /\ \A r \in dmn.pend : r.op = "close" => r.usockid = conn[r.xid].usockid
  /\ \A t \in Threads : thr[t].op = "close" /\ thr[t].pc \in RequestPlaces => Live(thr[t].conn)
  /\ dev.datain # NoConn => conn[dev.datain].answered.op \in DataRequests

(* A step after which the kernel holds no other sockets than before.       *)
LEMMA SocketsKept ==
  ASSUME SockInv, dmn.socks \subseteq dmn'.socks,
         \A c \in Conns : Held(c)' => Held(c) /\ conn'[c].usockid = conn[c].usockid,
         \A r \in dmn'.pend : r.op = "close" => r.usockid = conn'[r.xid].usockid,
         \A t \in Threads : thr'[t].op = "close" /\ thr'[t].pc \in RequestPlaces
                            => Live(thr[t].conn)',
         dev'.datain # NoConn => conn'[dev'.datain].answered.op \in DataRequests
  PROVE  SockInv'
<1>1. \A c \in Conns : Held(c)' => conn'[c].usockid \in dmn'.socks
  BY DEF SockInv
<1>2. \A c, d \in Conns : Held(c)' /\ Held(d)' /\ conn'[c].usockid = conn'[d].usockid => c = d
  BY DEF SockInv
<1> QED
  BY <1>1, <1>2 DEF SockInv

(* A new call is begun by a thread that is in none.                        *)
LEMMA CallsIdle ==
  ASSUME NEW t \in Threads, ApiCall(t)
  PROVE  thr[t].pc = "idle"
BY DEF ApiCall, SocketCall, usrsock_close, net_clone, usrsock_bind, usrsock_setsockopt,
       usrsock_getsockopt, usrsock_getsockname, SimpleRequest, BadOption, usrsock_connect,
       usrsock_sendto, usrsock_recvfrom, IoCall, SendtoWithAddress, RecvfromBadBuffer,
       usrsock_pollsetup, MayUse

(* close() never goes on with a connection: it marks it unused, then frees *)
(* it.                                                                     *)
LEMMA ClosedGone ==
  ASSUME ConnInv, WaitInv, NEW t \in Threads, ThreadStep(t), thr[t].op = "close",
         NEW c \in Conns, thr[t].conn = c, ~TakeLine(t), ~LeaveLine(t), ~net_timedwait(t)
  PROVE  ~Live(c)'
<1>1. thr[t].pc # "idle"
  BY ConnFacts, NoConnFacts
<1>2. conn \in ConnFun /\ conn[c] \in ConnRecords /\ WaitRecord(thr[t])
  BY ConnFacts DEF WaitInv
<1>3. psock_close(t) \/ RequestDone(t)
  <2>1. thr[t].pc \notin {"alloced", "rdywait", "pollwait"}
    BY <1>2 DEF ConnInv, OwnInv, WaitRecord, IoCalls
  <2>2. ~usrsock_socket(t) /\ ~ConnectInterrupted(t) /\ ~IoReady(t) /\ ~usrsock_pollteardown(t)
    BY <2>1 DEF usrsock_socket, ConnectInterrupted, IoReady, usrsock_pollteardown
  <2> QED
    BY <1>1, <2>2, CallsIdle DEF ThreadStep, ApiContinue
<1>4. conn'[c].state = "UNINITIALIZED"
  <2>1. CASE psock_close(t)
    <3>1. conn' = [conn EXCEPT ![c] = ClearedConn]
      BY <2>1 DEF psock_close, usrsock_free
    <3> QED
      BY <1>2, <3>1 DEF ConnFun, ClearedConn
  <2>2. CASE RequestDone(t)
    <3>1. CloseDone(t, c)
      BY <2>2 DEF RequestDone, SocketDone, SimpleDone, ConnectDone, IoDone, IoCalls
    <3>2. Released(c, t) \in ConnFun /\ Released(c, t)[c] \in ConnRecords
      BY KeptReleased DEF Kept, OnlyConn, ConnFun
    <3>3. conn' = [Released(c, t) EXCEPT ![c].state = "UNINITIALIZED", ![c].usockid = -1]
      BY <3>1 DEF CloseDone, CloseOut
    <3> QED
      BY <3>2, <3>3 DEF ConnFun, ConnRecords
  <2> QED
    BY <1>3, <2>1, <2>2
<1> QED
  BY <1>4 DEF Live

(* Every form of a call's step makes no socket, and keeps the numbers of   *)
(* those that stay.                                                        *)
LEMMA FormLive ==
  ASSUME ConnInv, NEW t \in Threads, CallForm(t), NEW d \in Conns, Live(d)'
  PROVE  Live(d) /\ conn'[d].usockid = conn[d].usockid
<1>1. PICK c \in Conns :
        \/ Ends(t, c) \/ MakesSocket(t, c) \/ TakesConn(t, c) \/ DropsConn(t, c)
        \/ Shuts(t, c) \/ Polls(t, c) \/ Dups(t, c)
        \/ \E op \in Requests : Asks(t, c, op) \/ Awaits(t, c, op)
  BY DEF CallForm
<1>2. CASE Ends(t, c)
  BY <1>2 DEF Ends, Kept, OnlyConn, SameSocket, Live
<1>3. CASE MakesSocket(t, c)
  BY <1>3 DEF MakesSocket, OnlyConn, Live
<1>4. CASE TakesConn(t, c)
  <2>1. conn'[c].state = "UNINITIALIZED" /\ \A e \in Conns \ {c} : conn'[e] = conn[e]
    BY <1>4, ConnFacts DEF TakesConn, ConnFun, ClearedConn
  <2> QED
    BY <2>1 DEF Live
<1>5. CASE DropsConn(t, c)
  BY <1>5 DEF DropsConn, OnlyConn, ClearedConn, Live
<1>6. CASE Shuts(t, c)
  BY <1>6 DEF Shuts, OnlyConn, Live
<1>7. CASE Polls(t, c) \/ Dups(t, c) \/ \E op \in Requests : Awaits(t, c, op)
  BY <1>7 DEF Polls, Dups, Awaits, Kept, OnlyConn, SameSocket, Live
<1>8. ASSUME NEW op \in Requests, Asks(t, c, op)
      PROVE  Live(d) /\ conn'[d].usockid = conn[d].usockid
  BY <1>8 DEF Asks, OnlyConn, SameSocket, Live
<1> QED
  BY <1>1, <1>2, <1>3, <1>4, <1>5, <1>6, <1>7, <1>8

(* Every step of a thread keeps them.                                      *)
LEMMA ThreadSockets ==
  ASSUME Orderly, Base, Serving, dmn.sessions <= 1, ExchangeInv, SockInv,
         NEW t \in Threads, ThreadStep(t)
  PROVE  SockInv'
<1>1. /\ ConnInv /\ WaitInv /\ Inv /\ dmn' = dmn /\ dev'.datain = dev.datain
      /\ thr \in [Threads -> ThreadRecords] /\ dmn \in DmnRecords
  BY ThreadExchange, ThreadLeavesDevice DEF Base, ConnInv, Inv, TypeOK
<1>2. CASE CallForm(t) /\ ~TakeLine(t) /\ ~LeaveLine(t) /\ ~net_timedwait(t)
  <2>1. CallSeen(t)
    BY <1>2, FormSeen DEF Orderly
  <2>2. Resumes(t) \/ thr[t].pc = "freeing"
    BY <2>1 DEF CallSeen
  <2>3. /\ \A r \in dmn.pend : r.th # t
        /\ ~(WasRead(t) /\ thr[t].cb = RequestFlags)
    BY <2>2, RestsUnasked
  <2>4. \A u \in Threads \ {t} :
          /\ thr'[u] = thr[u]
          /\ thr[u].conn \in Conns => conn'[thr[u].conn] = conn[thr[u].conn]
    BY <2>1 DEF CallSeen
  <2>5. ASSUME NEW d \in Conns, Held(d)'
        PROVE  Held(d) /\ conn'[d].usockid = conn[d].usockid
    <3>1. Live(d)'
      BY <2>5 DEF Held
    <3>2. Live(d) /\ conn'[d].usockid = conn[d].usockid
      BY <1>1, <1>2, <3>1, FormLive
    <3>3. ~(thr[t].conn = d /\ thr[t].op = "close")
      BY <1>1, <1>2, <3>1, ClosedGone
    <3>4. \A u \in Threads : thr[u].conn = d /\ thr[u].op = "close" =>
            thr[u].pc \in RequestPlaces /\ thr[u].cb = RequestFlags
      BY <2>4, <2>5, <3>3 DEF Held
    <3> QED
      BY <3>2, <3>4 DEF Held
  <2>6. ASSUME NEW r \in dmn.pend, r.op = "close" PROVE r.usockid = conn'[r.xid].usockid
    <3>1. r.th \in Threads /\ r.xid \in Conns
      BY ServingFacts
    <3>2. PendOk(r)
      BY <3>1 DEF ExchangeInv, CallOk
    <3>3. conn'[r.xid] = conn[r.xid]
      BY <2>3, <2>4, <3>1, <3>2 DEF PendOk
    <3> QED
      BY <2>6, <3>3 DEF SockInv
  <2>7. ASSUME NEW u \in Threads, thr'[u].op = "close", thr'[u].pc \in RequestPlaces
        PROVE  Live(thr[u].conn)'
    <3>1. CASE u # t
      <4>1. thr'[u] = thr[u] /\ thr[u].conn \in Conns
        BY <1>1, <2>4, <2>7, <3>1, ConnFacts DEF RequestPlaces
      <4>2. Live(thr[u].conn) /\ conn'[thr[u].conn] = conn[thr[u].conn]
        BY <2>4, <2>7, <3>1, <4>1 DEF SockInv
      <4> QED
        BY <4>1, <4>2 DEF Live
    <3>2. CASE u = t
      <4>1. PICK c \in Conns, op \in Requests : Asks(t, c, op)
        BY <2>1, <2>7, <3>2 DEF CallSeen
      <4>2. PICK nonblock \in BOOLEAN :
              thr' = [thr EXCEPT ![t] = AskingThread(op, c, nonblock)]
        BY <4>1 DEF Asks
      <4>3. thr'[t].op = op /\ thr'[t].conn = c
        BY <1>1, <4>2, WaitingThreads
      <4>4. op = "close" /\ Begins(t, c, op) /\ conn'[c].state = conn[c].state
        BY <2>7, <3>2, <4>1, <4>3 DEF Asks
      <4>5. ~Unusable(c)
        <5>1. WaitRecord(thr[t])
          BY <1>1 DEF WaitInv
        <5> QED
          BY <4>4, <5>1 DEF Begins, WaitRecord, IoCalls
      <4>6. conn[c].state \in ConnStates
        <5>1. conn[c] \in ConnRecords
          BY <1>1, ConnFacts
        <5> QED
          BY <5>1 DEF ConnRecords
      <4> QED
        BY <3>2, <4>3, <4>4, <4>5, <4>6 DEF Live, Unusable, ConnStates
    <3> QED
      BY <3>1, <3>2
  <2>8. dev.datain # NoConn => conn'[dev.datain].answered.op \in DataRequests
    <3>1. SUFFICES ASSUME dev.datain # NoConn
                   PROVE  conn'[dev.datain].answered.op \in DataRequests
      OBVIOUS
    <3>2. PICK u \in Threads : DataFor(u)
      BY <3>1 DEF ExchangeInv, DataOk
    <3>3. u # t /\ thr[u].conn = dev.datain /\ dev.datain \in Conns
      BY <2>3, <3>1, <3>2, ServingFacts DEF DataFor
    <3> QED
      BY <2>4, <3>1, <3>3 DEF SockInv
  <2> QED
    BY <1>1, <2>5, <2>6, <2>7, <2>8, SocketsKept
<1>3. CASE TakeLine(t) \/ LeaveLine(t) \/ net_timedwait(t)
  <2>1. ASSUME NEW u \in Threads
        PROVE  \/ thr'[u].conn = NoConn /\ thr'[u].op = "none" /\ thr[u].op # "close"
               \/ /\ thr'[u].conn = thr[u].conn /\ thr'[u].op = thr[u].op
                  /\ thr'[u].cb = thr[u].cb
                  /\ thr'[u].pc \in RequestPlaces <=> thr[u].pc \in RequestPlaces
    <3>1. thr[u] \in ThreadRecords
      BY <1>1
    <3>2. CASE MovesUp(u)
      BY <3>1, <3>2 DEF MovesUp, ThreadRecords, RequestPlaces
    <3>3. CASE net_timedwait(t)
      <4>1. PICK how : thr' = [thr EXCEPT ![t].wake = how]
        BY <3>3 DEF net_timedwait
      <4> QED
        BY <1>1, <3>1, <4>1 DEF ThreadRecords
    <3>4. CASE (TakeLine(t) \/ LeaveLine(t)) /\ ~MovesUp(u)
      <4>1. LineMoves(t)
        BY <1>1, <3>4, LineForm
      <4>2. u = t
        BY <3>4, <4>1 DEF LineMoves
      <4>3. CASE \E p \in {"ackwait", "respwait"} : thr'[t] = [thr[t] EXCEPT !.pc = p]
        BY <3>1, <4>1, <4>2, <4>3 DEF LineMoves, ThreadRecords, RequestPlaces
      <4>4. CASE thr[t].op = "connect" /\ thr'[t] = IdleThread
        BY <4>2, <4>4, OtherThreads DEF IdleThread
      <4> QED
        BY <4>1, <4>3, <4>4 DEF LineMoves
    <3> QED
      BY <1>3, <3>2, <3>3, <3>4
  <2>2. \A d \in Conns : /\ conn'[d].state = conn[d].state
                         /\ conn'[d].usockid = conn[d].usockid
                         /\ conn'[d].answered = conn[d].answered
    <3>1. CASE conn' = conn
      BY <3>1
    <3>2. CASE thr[t].conn \in Conns /\ conn' = Released(thr[t].conn, t)
      BY <1>1, <3>2, KeptReleased DEF Kept, OnlyConn, SameSocket
    <3>3. CASE TakeLine(t) \/ LeaveLine(t)
      <4>1. LineMoves(t)
        BY <1>1, <3>3, LineForm
      <4>2. thr[t].conn \in Conns
        BY <1>1, <4>1, ConnFacts DEF LineMoves
      <4> QED
        BY <3>1, <3>2, <4>1, <4>2 DEF LineMoves
    <3>4. CASE net_timedwait(t)
      BY <3>1, <3>4 DEF net_timedwait
    <3> QED
      BY <1>3, <3>3, <3>4
  <2>3. ASSUME NEW d \in Conns, Held(d)'
        PROVE  Held(d) /\ conn'[d].usockid = conn[d].usockid
    <3>1. Live(d)
      BY <2>2, <2>3 DEF Held, Live
    <3>2. ASSUME NEW u \in Threads, thr[u].conn = d, thr[u].op = "close"
          PROVE  thr[u].pc \in RequestPlaces /\ thr[u].cb = RequestFlags
      BY <2>1, <2>3, <3>2 DEF Held
    <3> QED
      BY <2>2, <3>1, <3>2 DEF Held
  <2>4. ASSUME NEW r \in dmn.pend, r.op = "close" PROVE r.usockid = conn'[r.xid].usockid
    BY <2>2, <2>4, ServingFacts DEF SockInv
  <2>5. ASSUME NEW u \in Threads, thr'[u].op = "close", thr'[u].pc \in RequestPlaces
        PROVE  Live(thr[u].conn)'
    <3>1. /\ thr'[u].conn = thr[u].conn /\ thr[u].op = "close"
          /\ thr[u].pc \in RequestPlaces
      BY <2>1, <2>5
    <3>2. thr[u].conn \in Conns
      BY <1>1, <3>1, ConnFacts DEF RequestPlaces
    <3> QED
      BY <2>2, <3>1, <3>2 DEF SockInv, Live
  <2>6. dev.datain # NoConn => conn'[dev.datain].answered.op \in DataRequests
    BY <2>2, ServingFacts DEF SockInv
  <2> QED
    BY <1>1, <2>3, <2>4, <2>5, <2>6, SocketsKept
<1> QED
  BY <1>1, <1>2, <1>3, ThreadForms

(* Where the threads are is what matters of them.                          *)
LEMMA HeldKept ==
  ASSUME NEW d \in Conns, Held(d)', Live(d)' => Live(d),
         \A u \in Threads :
           /\ thr'[u].conn = thr[u].conn /\ thr'[u].op = thr[u].op /\ thr'[u].pc = thr[u].pc
           /\ thr[u].pc \in RequestPlaces /\ thr'[u].cb = RequestFlags
                => thr[u].cb = RequestFlags
  PROVE  Held(d)
<1>1. ASSUME NEW u \in Threads, thr[u].conn = d, thr[u].op = "close"
      PROVE  thr[u].pc \in RequestPlaces /\ thr[u].cb = RequestFlags
  BY <1>1 DEF Held
<1> QED
  BY <1>1 DEF Held

(* poll() on the device, and the lookup for an event message.              *)
LEMMA LookSockets ==
  ASSUME Base, Serving, dmn.sessions <= 1, SockInv,
         PollSetup \/ PollTeardown \/ usrsockdev_handle_event
  PROVE  SockInv'
<1>1. dev \in DevRecords /\ dmn \in DmnRecords
  BY ServingFacts
<1>2. conn' = conn /\ thr' = thr
  BY DEF PollSetup, PollTeardown, usrsockdev_handle_event
<1>3. dev'.datain = dev.datain
  BY <1>1 DEF PollSetup, PollTeardown, usrsockdev_handle_event, DevRecords
<1>4. dmn'.pend = dmn.pend /\ dmn'.socks = dmn.socks
  BY <1>1 DEF PollSetup, PollTeardown, usrsockdev_handle_event, DmnRecords
<1>5. \A c \in Conns : (Held(c)' <=> Held(c)) /\ (Live(c)' <=> Live(c))
  BY <1>2 DEF Held, Live
<1> QED
  BY <1>2, <1>3, <1>4, <1>5 DEF SockInv, Live

(* usrsockdev_read: a close names the socket of its connection.            *)
LEMMA ReadSockets ==
  ASSUME Base, Serving, dmn.sessions <= 1, SockInv, usrsockdev_read
  PROVE  SockInv'
<1>1. dev \in DevRecords /\ dmn \in DmnRecords
  BY ServingFacts
<1>2. conn' = conn /\ thr' = thr /\ dev'.datain = dev.datain
  BY <1>1 DEF usrsockdev_read, DevRecords
<1>3. thr[dev.iov].pc = "ackwait"
  BY ServingFacts DEF usrsockdev_read
<1>4. PICK r : /\ r.xid = thr[dev.iov].conn /\ r.usockid = conn[thr[dev.iov].conn].usockid
               /\ dmn' = [dmn EXCEPT !.pend = @ \cup {r}]
  BY <1>3 DEF usrsockdev_read, usrsockdev_get_xid
<1>5. dmn'.pend = dmn.pend \cup {r} /\ dmn'.socks = dmn.socks
  BY <1>1, <1>4 DEF DmnRecords
<1>6. \A c \in Conns : (Held(c)' <=> Held(c)) /\ (Live(c)' <=> Live(c))
  BY <1>2 DEF Held, Live
<1> QED
  BY <1>2, <1>4, <1>5, <1>6 DEF SockInv, Live

(* "In progress".                                                          *)
LEMMA InProgressSockets ==
  ASSUME Base, Serving, dmn.sessions <= 1, SockInv, NEW r \in dmn.pend,
         RespondInProgress(r)
  PROVE  SockInv'
<1>1. dev \in DevRecords /\ dmn \in DmnRecords /\ conn \in ConnFun /\ ConnInv
  BY ServingFacts, ConnFacts DEF Base
<1>2. r \in PendingRequests
  BY <1>1 DEF DmnRecords
<1>3. thr' = thr /\ dmn'.socks = dmn.socks
      /\ dmn'.pend = (dmn.pend \ {r}) \cup {[r EXCEPT !.ip = TRUE]}
  BY <1>1 DEF RespondInProgress, DmnRecords
<1>4. dev'.datain = dev.datain
  BY <1>1 DEF RespondInProgress, Acknowledge, DevRecords
<1>5. \A d \in Conns : /\ conn'[d].state = conn[d].state /\ conn'[d].usockid = conn[d].usockid
                       /\ conn'[d].answered = conn[d].answered
  <2>1. \/ conn' = conn
        \/ \E w : conn' = [conn EXCEPT ![w].inprogress = TRUE]
    BY DEF RespondInProgress
  <2>2. CASE conn' = conn
    BY <2>2
  <2>3. CASE \E w : conn' = [conn EXCEPT ![w].inprogress = TRUE]
    <3>1. PICK w : conn' = [conn EXCEPT ![w].inprogress = TRUE]
      BY <2>3
    <3> QED
      BY <1>1, <3>1 DEF ConnFun, ConnRecords
  <2> QED
    BY <2>1, <2>2, <2>3
<1>6. \A c \in Conns : (Held(c)' <=> Held(c)) /\ (Live(c)' <=> Live(c))
  BY <1>3, <1>5 DEF Held, Live
<1>7. ASSUME NEW q \in dmn'.pend, q.op = "close" PROVE q.usockid = conn'[q.xid].usockid
  <2>1. PICK p \in dmn.pend : q.op = p.op /\ q.xid = p.xid /\ q.usockid = p.usockid
    BY <1>2, <1>3 DEF PendingRequests
  <2>2. p.xid \in Conns /\ p.usockid = conn[p.xid].usockid
    BY <1>7, <2>1, ServingFacts DEF SockInv
  <2> QED
    BY <1>5, <2>1, <2>2
<1>8. ASSUME NEW u \in Threads, thr'[u].op = "close", thr'[u].pc \in RequestPlaces
      PROVE  Live(thr[u].conn)'
  <2>1. thr[u].conn \in Conns
    BY <1>1, <1>3, <1>8, ConnFacts DEF RequestPlaces
  <2> QED
    BY <1>3, <1>5, <1>8, <2>1 DEF SockInv, Live
<1>9. dev'.datain # NoConn => conn'[dev'.datain].answered.op \in DataRequests
  BY <1>4, <1>5, ServingFacts DEF SockInv
<1> QED
  BY <1>3, <1>5, <1>6, <1>7, <1>8, <1>9, SocketsKept

(* A completed request makes a socket only if it was a socket() on that    *)
(* connection that succeeded.                                              *)
LEMMA BornOf ==
  ASSUME ConnInv, NEW c \in Conns, NEW cr \in ConnRecords, cr.list = conn[c].list, NEW ev,
         SocketBorn(StateUpdate(cr, ev), thr, EventsToCallbacks(cr, ev))
  PROVE  /\ cr.result >= 0 /\ "REQ_COMPLETE" \in ev
         /\ \E u \in Threads : thr[u].conn = c /\ thr[u].op = "socket"
<1> DEFINE upd == StateUpdate(cr, ev)
           cbs == EventsToCallbacks(cr, ev)
<1>1. upd.list = conn[c].list /\ upd.result = cr.result
  BY UpdateFields DEF StateUpdate, ConnRecords
<1>2. conn[c].list \in Seq(Threads)
  BY ConnFacts DEF ConnRecords
<1> HIDE DEF upd, cbs
<1>3. PICK u \in Fired(conn[c].list, thr, cbs) : thr[u].op = "socket"
  BY <1>1 DEF SocketBorn, Completes, upd, cbs
<1>4. u \in Range(conn[c].list) /\ u \in Threads
  BY <1>2, <1>3 DEF Fired, Range
<1>5. thr[u].conn = c
  BY <1>4 DEF ConnInv, CallbackInv
<1>6. cr.result >= 0
  BY <1>1 DEF SocketBorn, upd
<1> QED
  BY <1>3, <1>4, <1>5, <1>6, BornAnswered

(* An event that makes no socket and aborts none.                          *)
LEMMA EventSockets ==
  ASSUME ConnInv, NEW c \in Conns, NEW cr \in ConnRecords, NEW ev \in SUBSET Events,
         usrsock_event(c, cr, ev), cr.state = conn[c].state, cr.usockid = conn[c].usockid,
         "ABORT" \notin ev, ~SocketBorn(StateUpdate(cr, ev), thr, EventsToCallbacks(cr, ev))
  PROVE  \A d \in Conns : /\ conn'[d].usockid = conn[d].usockid
                          /\ Live(d)' <=> Live(d)
<1>1. EventLeaves(c, cr, ev)
  BY EventLeft
<1>2. conn'[c].state = StateUpdate(cr, ev).state /\ conn'[c].usockid = cr.usockid
  BY <1>1 DEF EventLeaves
<1>3. IsConnectResponse(cr, ev) => cr.state = "CONNECTING"
  BY DEF IsConnectResponse
<1>4. conn'[c].state \in {"READY", "CONNECTING"} <=> conn[c].state \in {"READY", "CONNECTING"}
  BY <1>2, <1>3, UpdateFields
<1>5. \A d \in Conns \ {c} : conn'[d] = conn[d]
  BY <1>1 DEF EventLeaves, OnlyConn
<1> QED
  BY <1>2, <1>4, <1>5 DEF Live

(* What a final response does to the daemon's own list of sockets.         *)
LEMMA AnswerSocks ==
  ASSUME dmn \in DmnRecords, NEW r \in dmn.pend, NEW result \in Answers(r), result \in Int
  PROVE  LET socks == DaemonAfter(r, result, FALSE).socks
         IN  /\ r.op = "socket" /\ result >= 0 =>
                  result \notin dmn.socks /\ socks = dmn.socks \cup {result}
             /\ r.op = "close" => socks = dmn.socks \ {r.usockid}
             /\ r.op # "close" => dmn.socks \subseteq socks
<1>1. DaemonAfter(r, result, FALSE).socks =
        CASE r.op = "socket" /\ result >= 0 -> dmn.socks \cup {result}
          [] r.op = "close" -> dmn.socks \ {r.usockid}
          [] OTHER -> dmn.socks
  BY DEF DaemonAfter, DmnRecords
<1>2. r.op = "socket" /\ result >= 0 => result \notin dmn.socks
  <2>1. ASSUME r.op = "socket", result >= 0 PROVE result \notin dmn.socks
    <3>1. result \in (UsockIds \ (dmn.socks \cup dmn.used))
                     \cup {v \in Results : v < 0 /\ v # EAGAIN}
      BY <2>1 DEF Answers, IoCalls
    <3> QED
      BY <2>1, <3>1
  <2> QED
    BY <2>1
<1> QED
  BY <1>1, <1>2

(* A final response: a closed socket is gone on both sides, a new one has  *)
(* a number nobody else has.                                               *)
LEMMA FinalSockets ==
  ASSUME Orderly, Base, Serving, dmn.sessions <= 1, ExchangeInv, SockInv,
         NEW r \in dmn.pend, dev.datain = NoConn, FinallyAnswered(r)
  PROVE  SockInv'
<1> DEFINE t == r.th
           c == r.xid
<1>1. /\ dmn \in DmnRecords /\ dev \in DevRecords /\ r \in PendingRequests
      /\ conn \in ConnFun /\ t \in Threads /\ c \in Conns /\ ConnInv /\ WaitInv
      /\ conn[c] \in ConnRecords
  BY ServingFacts, ConnFacts DEF Base, DmnRecords
<1>2. PendOk(r) /\ CallOk(t)
  BY <1>1 DEF ExchangeInv, CallOk
<1>3. PICK result \in Answers(r) :
        LET cr == Answered(conn[c], r, result)
        IN  /\ dmn'.pend = dmn.pend \ {r}
            /\ dmn'.socks = DaemonAfter(r, result, FALSE).socks
            /\ \/ dev' = Acknowledge(c) /\ usrsock_event(c, cr, {"REQ_COMPLETE"})
               \/ /\ conn' = [conn EXCEPT ![c] = cr] /\ thr' = thr
                  /\ r.op \in DataRequests
                  /\ \/ dev' = [Acknowledge(c) EXCEPT !.datain = c]
                     \/ dev' = Acknowledge(c) /\ FaultyDaemon
  BY DEF FinallyAnswered
<1> DEFINE cr == Answered(conn[c], r, result)
           dv == Acknowledge(c)
<1>4. result \in Int
  BY <1>1, AnswersRange
<1>5. /\ cr \in ConnRecords /\ cr.list = conn[c].list /\ cr.state = conn[c].state
      /\ cr.usockid = conn[c].usockid /\ cr.result = result
      /\ cr.answered = [th |-> t, op |-> r.op]
  BY <1>1, <1>4, AnsweredFields
<1>6. dv \in DevRecords /\ dv.datain = NoConn
  BY AcknowledgedOwn
<1>7. /\ dmn'.pend = dmn.pend \ {r}
      /\ \/ dev' = dv /\ usrsock_event(c, cr, {"REQ_COMPLETE"})
         \/ /\ conn' = [conn EXCEPT ![c] = cr] /\ thr' = thr
            /\ r.op \in DataRequests
            /\ \/ dev' = [dv EXCEPT !.datain = c]
               \/ dev' = dv /\ FaultyDaemon
  BY <1>3
<1>8. /\ r.op = "socket" /\ result >= 0 =>
           result \notin dmn.socks /\ dmn'.socks = dmn.socks \cup {result}
      /\ r.op = "close" => dmn'.socks = dmn.socks \ {r.usockid}
      /\ r.op # "close" => dmn.socks \subseteq dmn'.socks
  BY <1>1, <1>3, <1>4, AnswerSocks
<1> HIDE DEF cr, dv
<1>9. \A u \in Threads \ {t} : thr[u].conn # c
  BY <1>1, <1>2, OneCall DEF PendOk, Orderly
<1>10. thr[t].conn = c /\ thr[t].op = r.op /\ thr[t].cb = RequestFlags
       /\ thr[t].pc \in RequestPlaces
  BY <1>2 DEF PendOk, WasRead, RequestPlaces
<1>11. ASSUME NEW q \in dmn'.pend
       PROVE  q \in dmn.pend /\ q.xid \in Conns /\ q.xid # c
  <2>1. q \in dmn.pend /\ q.th \in Threads /\ q.xid \in Conns
    BY <1>7, ServingFacts
  <2>2. q.th # t /\ PendOk(q)
    BY <1>2, <1>7, <2>1 DEF CallOk, ExchangeInv
  <2> QED
    BY <1>9, <2>1, <2>2 DEF PendOk
<1>12. \A u \in Threads : thr[u].op = "close" /\ thr[u].pc \in RequestPlaces
                          => thr[u].conn \in Conns /\ Live(thr[u].conn)
  BY <1>1, ConnFacts DEF SockInv, RequestPlaces
<1>13. CASE dev' = dv /\ usrsock_event(c, cr, {"REQ_COMPLETE"})
  <2> DEFINE ev   == {"REQ_COMPLETE"}
             born == SocketBorn(StateUpdate(cr, ev), thr, EventsToCallbacks(cr, ev))
  <2>1. ev \in SUBSET Events /\ "ABORT" \notin ev
    BY DEF Events, InternalEvents
  <2>2. /\ \A u \in Threads \ {t} : thr'[u] = thr[u]
        /\ thr'[t].pc = thr[t].pc /\ thr'[t].conn = c /\ thr'[t].op = thr[t].op
        /\ thr'[t].cb = {}
    BY <1>1, <1>5, <1>9, <1>10, <1>13, <2>1, RaisedElsewhere, RaisedHere
  <2>3. born => r.op = "socket" /\ result >= 0
    BY <1>1, <1>5, <1>9, <1>10, BornOf
  <2>4. EventLeaves(c, cr, ev)
    BY <1>1, <1>5, <1>13, <2>1, EventLeft
  <2>5. ~born => \A d \in Conns : /\ conn'[d].usockid = conn[d].usockid
                                  /\ Live(d)' <=> Live(d)
    BY <1>1, <1>5, <1>13, <2>1, EventSockets
  <2>6. /\ \A d \in Conns \ {c} : conn'[d] = conn[d]
        /\ born => conn'[c].usockid = result
    BY <1>5, <2>4 DEF EventLeaves, OnlyConn
  <2> HIDE DEF born
  <2>7. ASSUME NEW d \in Conns, Held(d)', ~born PROVE Held(d)
    <3>1. RequestFlags # {}
      BY DEF RequestFlags
    <3>2. \A u \in Threads :
            /\ thr'[u].conn = thr[u].conn /\ thr'[u].op = thr[u].op /\ thr'[u].pc = thr[u].pc
            /\ thr[u].pc \in RequestPlaces /\ thr'[u].cb = RequestFlags
                 => thr[u].cb = RequestFlags
      BY <1>10, <2>2, <3>1
    <3> QED
      BY <2>5, <2>7, <3>2, HeldKept
  <2>8. ASSUME NEW d \in Conns \ {c}, Held(d)' PROVE Held(d) /\ conn'[d].usockid = conn[d].usockid
    <3>1. Live(d) /\ conn'[d].usockid = conn[d].usockid
      BY <2>6, <2>8 DEF Held, Live
    <3>2. ASSUME NEW u \in Threads, thr[u].conn = d, thr[u].op = "close"
          PROVE  thr[u].pc \in RequestPlaces /\ thr[u].cb = RequestFlags
      BY <1>10, <2>2, <2>8, <3>2 DEF Held
    <3> QED
      BY <3>1, <3>2 DEF Held
  <2>9. \A q \in dmn'.pend : q.op = "close" => q.usockid = conn'[q.xid].usockid
    BY <1>11, <2>6 DEF SockInv
  <2>10. dev'.datain = NoConn
    BY <1>6, <1>13
  <2>11. ASSUME NEW u \in Threads, thr'[u].op = "close", thr'[u].pc \in RequestPlaces
         PROVE  Live(thr[u].conn)'
    <3>1. /\ thr[u].op = "close" /\ thr[u].pc \in RequestPlaces /\ thr'[u].conn = thr[u].conn
      BY <1>10, <2>2, <2>11
    <3>2. thr[u].conn \in Conns /\ Live(thr[u].conn)
      BY <1>12, <3>1
    <3>3. CASE born
      <4>1. u # t
        BY <1>10, <2>3, <3>1, <3>3
      <4> QED
        BY <1>9, <2>6, <3>1, <3>2, <4>1 DEF Live
    <3>4. CASE ~born
      <4>1. \A d \in Conns : conn'[d].state \in {"READY", "CONNECTING"} <=> Live(d)
        BY <2>5, <3>4 DEF Live
      <4> QED
        BY <3>1, <3>2, <4>1 DEF Live
    <3> QED
      BY <3>3, <3>4
  <2>12. CASE r.op # "close" /\ ~born
    <3>1. \A d \in Conns : Held(d)' => Held(d) /\ conn'[d].usockid = conn[d].usockid
      BY <2>5, <2>7, <2>12
    <3> QED
      BY <1>8, <2>9, <2>10, <2>11, <2>12, <3>1, SocketsKept
  <2>13. CASE born
    <3>1. result \notin dmn.socks /\ dmn'.socks = dmn.socks \cup {result}
      BY <1>8, <2>3, <2>13
    <3>2. \A d \in Conns \ {c} : Held(d)' => /\ Held(d) /\ conn'[d].usockid = conn[d].usockid
                                             /\ conn[d].usockid \in dmn.socks
      BY <2>8 DEF SockInv
    <3>3. conn'[c].usockid = result
      BY <2>6, <2>13
    <3>4. \A d \in Conns : Held(d)' => conn'[d].usockid \in dmn'.socks
      BY <3>1, <3>2, <3>3
    <3>5. ASSUME NEW d \in Conns, NEW e \in Conns, Held(d)', Held(e)',
                 conn'[d].usockid = conn'[e].usockid
          PROVE  d = e
      BY <3>1, <3>2, <3>3, <3>5 DEF SockInv
    <3> QED
      BY <2>9, <2>10, <2>11, <3>4, <3>5 DEF SockInv
  <2>14. CASE r.op = "close"
    <3>1. ~born
      BY <2>3, <2>14
    <3>2. ~Held(c)'
      <4>1. thr'[t].cb # RequestFlags
        BY <2>2 DEF RequestFlags
      <4> QED
        BY <1>1, <1>10, <2>2, <2>14, <4>1 DEF Held
    <3>3. Held(c)
      <4>1. Live(c)
        BY <1>1, <1>10, <1>12, <2>14
      <4>2. \A u \in Threads : thr[u].conn = c => u = t
        BY <1>9
      <4> QED
        BY <1>10, <4>1, <4>2 DEF Held
    <3>4. dmn'.socks = dmn.socks \ {r.usockid} /\ r.usockid = conn[c].usockid
      BY <1>8, <2>14 DEF SockInv
    <3>5. \A d \in Conns : Held(d)' => /\ Held(d) /\ conn'[d].usockid = conn[d].usockid
                                       /\ conn[d].usockid \in dmn.socks /\ d # c
                                       /\ conn[d].usockid # conn[c].usockid
      BY <1>1, <2>8, <3>2, <3>3 DEF SockInv
    <3>6. \A d \in Conns : Held(d)' => conn'[d].usockid \in dmn'.socks
      BY <3>4, <3>5
    <3>7. ASSUME NEW d \in Conns, NEW e \in Conns, Held(d)', Held(e)',
                 conn'[d].usockid = conn'[e].usockid
          PROVE  d = e
      BY <3>5, <3>7 DEF SockInv
    <3> QED
      BY <2>9, <2>10, <2>11, <3>6, <3>7 DEF SockInv
  <2> QED
    BY <2>12, <2>13, <2>14
<1>14. CASE /\ conn' = [conn EXCEPT ![c] = cr] /\ thr' = thr
            /\ r.op \in DataRequests
            /\ \/ dev' = [dv EXCEPT !.datain = c]
               \/ dev' = dv /\ FaultyDaemon
  <2>1. /\ \A d \in Conns \ {c} : conn'[d] = conn[d]
        /\ conn'[c] = cr
    BY <1>1, <1>14 DEF ConnFun
  <2>2. \A d \in Conns : conn'[d].state = conn[d].state /\ conn'[d].usockid = conn[d].usockid
    BY <1>5, <2>1
  <2>3. \A d \in Conns : Held(d)' => Held(d)
    BY <1>14, <2>2 DEF Held, Live
  <2>4. dmn.socks \subseteq dmn'.socks
    BY <1>8, <1>14 DEF DataRequests
  <2>5. \A q \in dmn'.pend : q.op = "close" => q.usockid = conn'[q.xid].usockid
    BY <1>11, <2>2 DEF SockInv
  <2>6. \A u \in Threads : thr'[u].op = "close" /\ thr'[u].pc \in RequestPlaces
                           => Live(thr[u].conn)'
    BY <1>12, <1>14, <2>2 DEF Live
  <2>7. dev'.datain # NoConn => conn'[dev'.datain].answered.op \in DataRequests
    <3>1. dev'.datain \in {NoConn, c}
      BY <1>6, <1>14 DEF DevRecords
    <3> QED
      BY <1>5, <1>14, <2>1, <3>1
  <2> QED
    BY <2>2, <2>3, <2>4, <2>5, <2>6, <2>7, SocketsKept
<1> QED
  BY <1>7, <1>13, <1>14

(* A step that moves no call, takes no new request and leaves the sockets  *)
(* as they are.                                                            *)
LEMMA PlacesKept ==
  ASSUME Base, Serving, dmn.sessions <= 1, SockInv, dmn'.pend = dmn.pend, dmn'.socks = dmn.socks,
         \A d \in Conns : conn'[d].usockid = conn[d].usockid /\ (Live(d)' <=> Live(d)),
         \A d \in Conns : Held(d)' => Held(d) /\ conn'[d].usockid = conn[d].usockid,
         \A u \in Threads : thr'[u].conn = thr[u].conn /\ thr'[u].op = thr[u].op
                            /\ thr'[u].pc = thr[u].pc,
         \/ dev'.datain = NoConn
         \/ /\ dev'.datain = dev.datain
            /\ conn'[dev'.datain].answered = conn[dev.datain].answered
  PROVE  SockInv'
<1>1. \A q \in dmn'.pend : q.op = "close" => q.usockid = conn'[q.xid].usockid
  BY ServingFacts DEF SockInv
<1>2. ASSUME NEW u \in Threads, thr'[u].op = "close", thr'[u].pc \in RequestPlaces
      PROVE  Live(thr[u].conn)'
  <2>1. PICK c \in Conns : thr[u].conn = c
    BY <1>2, ConnFacts DEF RequestPlaces, Base
  <2>2. Live(c)
    BY <1>2, <2>1 DEF SockInv
  <2>3. conn'[c].state \in {"READY", "CONNECTING"} /\ thr'[u].conn = c
    BY <2>1, <2>2 DEF Live
  <2> QED
    BY <2>3 DEF Live
<1>3. dev'.datain # NoConn => conn'[dev'.datain].answered.op \in DataRequests
  BY DEF SockInv
<1> QED
  BY <1>1, <1>2, <1>3, SocketsKept

(* usrsockdev_write completes a request for data.                          *)
LEMMA WriteSockets ==
  ASSUME Orderly, Base, Serving, dmn.sessions <= 1, ExchangeInv, SockInv, usrsockdev_write
  PROVE  SockInv' /\ \A d \in Conns : conn'[d].usockid = conn[d].usockid
<1>1. dev \in DevRecords /\ dmn \in DmnRecords /\ ConnInv /\ WaitInv
  BY ServingFacts DEF Base
<1>2. PICK c \in Conns : dev.datain = c /\ c # NoConn
  BY ServingFacts, NoConnFacts DEF usrsockdev_write
<1>3. dmn'.pend = dmn.pend /\ dmn'.socks = dmn.socks
  <2>1. dmn.owes
    BY <1>2, ServingFacts
  <2>2. dmn' = [dmn EXCEPT !.owes = FALSE]
    BY <2>1 DEF usrsockdev_write
  <2> QED
    BY <1>1, <2>2 DEF DmnRecords
<1>4. PICK cr \in ConnRecords :
        /\ cr.list = conn[c].list /\ cr.state = conn[c].state
        /\ cr.usockid = conn[c].usockid
        /\ usrsock_event(c, cr, {"REQ_COMPLETE"})
  <2> DEFINE ce == [conn[c] EXCEPT !.result = EINVAL]
  <2>1. conn[c] \in ConnRecords
    BY <1>1, ConnFacts
  <2>2. EINVAL \in Int
    BY DEF EINVAL
  <2>3. /\ ce \in ConnRecords /\ ce.list = conn[c].list /\ ce.state = conn[c].state
        /\ ce.usockid = conn[c].usockid
    BY <2>1, <2>2 DEF ConnRecords
  <2>4. \/ usrsock_event(c, ce, {"REQ_COMPLETE"})
        \/ usrsock_event(c, conn[c], {"REQ_COMPLETE"})
    BY <1>2 DEF usrsockdev_write, WriteData
  <2> HIDE DEF ce
  <2> QED
    BY <2>1, <2>3, <2>4
<1>5. dev'.datain = NoConn
  BY <1>1 DEF usrsockdev_write, WriteData, InputDone, DevRecords
<1>6. PICK t \in Threads : DataFor(t)
  BY <1>2 DEF ExchangeInv, DataOk
<1>7. /\ thr[t].conn = c /\ thr[t].cb = RequestFlags /\ thr[t].pc \in RequestPlaces
      /\ thr[t].op \in DataRequests
  BY <1>2, <1>6 DEF DataFor, WasRead, RequestPlaces, SockInv
<1>8. {"REQ_COMPLETE"} \in SUBSET Events /\ "ABORT" \notin {"REQ_COMPLETE"}
  BY DEF Events, InternalEvents
<1>9. \A u \in Threads \ {t} : thr[u].conn # c
  BY <1>7, OneCall DEF Orderly
<1>10. /\ \A u \in Threads \ {t} : thr'[u] = thr[u]
       /\ thr'[t].pc = thr[t].pc /\ thr'[t].conn = c /\ thr'[t].op = thr[t].op
       /\ thr'[t].cb = {}
  BY <1>1, <1>4, <1>7, <1>8, <1>9, RaisedElsewhere, RaisedHere
<1>11. ~SocketBorn(StateUpdate(cr, {"REQ_COMPLETE"}), thr,
                   EventsToCallbacks(cr, {"REQ_COMPLETE"}))
  <2>1. \A u \in Threads : thr[u].conn = c => thr[u].op # "socket"
    BY <1>7, <1>9 DEF DataRequests
  <2> QED
    BY <1>1, <1>4, <2>1, BornOf
<1>12. \A d \in Conns : conn'[d].usockid = conn[d].usockid /\ (Live(d)' <=> Live(d))
  BY <1>1, <1>4, <1>8, <1>11, EventSockets
<1>13. \A u \in Threads :
         /\ thr'[u].conn = thr[u].conn /\ thr'[u].op = thr[u].op /\ thr'[u].pc = thr[u].pc
         /\ thr[u].pc \in RequestPlaces /\ thr'[u].cb = RequestFlags
              => thr[u].cb = RequestFlags
  BY <1>7, <1>10
<1>14. \A d \in Conns : Held(d)' => Held(d) /\ conn'[d].usockid = conn[d].usockid
  BY <1>12, <1>13, HeldKept
<1> QED
  BY <1>1, <1>3, <1>5, <1>12, <1>13, <1>14, PlacesKept

(* usrsockdev_handle_event raises an event.                                *)
LEMMA DeliverSockets ==
  ASSUME Orderly, Base, Serving, dmn.sessions <= 1, ExchangeInv, SockInv, DeliverEvent
  PROVE  SockInv' /\ \A d \in Conns : conn'[d].usockid = conn[d].usockid
<1>1. dev \in DevRecords /\ dmn \in DmnRecords /\ ConnInv /\ WaitInv
  BY ServingFacts DEF Base
<1>2. dmn.pc = "event" /\ dev' = dev /\ dmn'.pend = dmn.pend /\ dmn'.socks = dmn.socks
  BY <1>1 DEF DeliverEvent, DmnRecords
<1>3. PICK c \in Conns : dmn.conn = c
  <2>1. dmn.conn # NoConn
    BY <1>2 DEF Base, ConnInv, Inv, PlaceInv
  <2> QED
    BY <1>1, <2>1 DEF DmnRecords
<1>4. PICK ev \in SUBSET ExternalEvents : dmn.ev = ev /\ "ABORT" \notin ev
  <2>1. dmn.ev \in EventMsgs
    BY <1>2 DEF Base, AskInv
  <2> QED
    BY <2>1, UsrsockAssumption DEF Orderly
<1>5. usrsock_event(c, conn[c], ev) /\ conn[c] \in ConnRecords
  BY <1>1, <1>3, <1>4, ConnFacts DEF DeliverEvent
<1>6. ev \in SUBSET Events /\ "REQ_COMPLETE" \notin ev
  BY DEF Events, ExternalEvents, DataEvents
<1>7. ~SocketBorn(StateUpdate(conn[c], ev), thr, EventsToCallbacks(conn[c], ev))
  BY <1>6, BornAnswered
<1>8. \A d \in Conns : conn'[d].usockid = conn[d].usockid /\ (Live(d)' <=> Live(d))
  BY <1>1, <1>4, <1>5, <1>6, <1>7, EventSockets
<1>9. \A u \in Threads :
        /\ thr'[u].conn = thr[u].conn /\ thr'[u].op = thr[u].op /\ thr'[u].pc = thr[u].pc
        /\ thr[u].pc \in RequestPlaces /\ thr'[u].cb = RequestFlags
             => thr[u].cb = RequestFlags
  BY <1>1, <1>4, <1>5, MessageHeard
<1>10. \A d \in Conns : Held(d)' => Held(d) /\ conn'[d].usockid = conn[d].usockid
  BY <1>8, <1>9, HeldKept
<1>11. dev'.datain # NoConn => conn'[dev'.datain].answered = conn[dev.datain].answered
  <2>1. EventLeaves(c, conn[c], ev)
    BY <1>1, <1>5, <1>6, EventLeft
  <2>2. \A d \in Conns : conn'[d].answered = conn[d].answered
    BY <2>1 DEF EventLeaves, OnlyConn
  <2> QED
    BY <1>2, <2>2, ServingFacts
<1> QED
  BY <1>1, <1>2, <1>8, <1>9, <1>10, <1>11, PlacesKept

(* Every step of a daemon that goes on serving the device.                 *)
LEMMA DaemonSockets ==
  ASSUME Orderly, Base, Serving, dmn.sessions <= 1, ExchangeInv, SockInv, DaemonStep, Serving'
  PROVE  SockInv'
<1>1. dmn \in DmnRecords
  BY ServingFacts
<1>2. ASSUME NEW t \in Threads, usrsockdev_handle_req_response(t) PROVE SockInv'
  <2>1. PICK r \in dmn.pend : RespondInProgress(r) \/ RespondFinally(r)
    BY <1>2 DEF usrsockdev_handle_req_response
  <2>2. dev.datain = NoConn
    BY <1>2 DEF usrsockdev_handle_req_response
  <2>3. CASE RespondInProgress(r)
    BY <2>3, InProgressSockets
  <2>4. CASE RespondFinally(r)
    BY <2>2, <2>4, FinalForm, FinalSockets
  <2> QED
    BY <2>1, <2>3, <2>4
<1>3. ~CloseBegin
  BY <1>1 DEF CloseBegin, Serving, DmnRecords
<1>4. ~usrsockdev_open /\ ~CloseAbort /\ ~CloseNext /\ ~CloseDown
      /\ ~CloseTimeout /\ ~CloseEnd /\ ~CloseLoop
  BY DEF Serving, usrsockdev_open, CloseAbort, CloseNext, CloseDown, CloseTimeout, CloseEnd,
         CloseLoop
<1> QED
  BY <1>2, <1>3, <1>4, LookSockets, ReadSockets, WriteSockets, DeliverSockets DEF DaemonStep

(* The first daemon finds no socket.                                       *)
LEMMA OpenSockets ==
  ASSUME Base, ~Serving, Serving', DaemonStep, dmn'.sessions <= 1
  PROVE  SockInv'
<1>1. dev \in DevRecords /\ dmn \in DmnRecords /\ dmn.sessions \in Nat
  BY DEF Base, ConnInv, Inv, TypeOK, DmnRecords
<1>2. usrsockdev_open
  <2>1. ~CloseAbort /\ ~CloseNext /\ ~CloseDown /\ ~CloseTimeout /\ ~CloseLoop /\ ~PollTeardown
    BY <1>1 DEF CloseAbort, CloseNext, CloseDown, CloseTimeout, CloseLoop, PollTeardown,
                Serving, DmnRecords
  <2>2. ~CloseEnd
    <3> DEFINE dm == [dmn EXCEPT !.pc = "closed"]
    <3>1. dm \in DmnRecords /\ dm.pc = "closed"
      BY <1>1 DEF DmnRecords
    <3>2. CloseEnd => dmn' = dm \/ dmn' = [dm EXCEPT !.pc = "got"]
      BY DEF CloseEnd, usrsockdev_semgive
    <3> HIDE DEF dm
    <3> QED
      BY <3>1, <3>2 DEF Serving, DmnRecords
  <2>3. ~( \/ PollSetup \/ usrsockdev_read \/ usrsockdev_write \/ usrsockdev_handle_event
          \/ DeliverEvent \/ CloseBegin \/ \E t \in Threads : usrsockdev_handle_req_response(t))
    BY DEF Serving, PollSetup, usrsockdev_read, usrsockdev_handle_req_response,
           usrsockdev_write, usrsockdev_handle_event, DeliverEvent, CloseBegin, DaemonRuns
  <2> QED
    BY <2>1, <2>2, <2>3 DEF DaemonStep
<1>3. /\ dmn'.sessions = dmn.sessions + 1 /\ dmn'.pend = dmn.pend
      /\ dev'.datain = dev.datain /\ conn' = conn /\ thr' = thr
  BY <1>1, <1>2 DEF usrsockdev_open, DmnRecords, DevRecords
<1>4. dmn.sessions = 0
  BY <1>1, <1>3
<1>5. /\ \A t \in Threads : thr[t].pc \notin RequestPlaces
      /\ \A c \in Conns : conn[c].state = "UNINITIALIZED"
      /\ dmn.pend = {} /\ dev.datain = NoConn
  BY <1>4 DEF Base, UnservedInv, WriteInv
<1>6. \A c \in Conns : ~Held(c)'
  BY <1>3, <1>5 DEF Held, Live
<1> QED
  BY <1>3, <1>5, <1>6 DEF SockInv

(* The sockets while the first daemon serves the device.                   *)
FirstSockets == dmn.sessions <= 1 /\ Serving => SockInv

(* They stay in order.                                                     *)
LEMMA NextSockets ==
  ASSUME Orderly, Base, ExchInv, FirstSockets, [Next]_vars
  PROVE  FirstSockets'
<1> SUFFICES ASSUME dmn'.sessions <= 1, Serving' PROVE SockInv'
  BY DEF FirstSockets
<1>1. dmn \in DmnRecords /\ dmn.sessions \in Nat /\ Inv
  BY DEF Base, ConnInv, Inv, TypeOK, DmnRecords
<1>2. ASSUME dmn.sessions <= 1, Serving PROVE ExchangeInv /\ SockInv
  BY <1>2 DEF ExchInv, FirstSockets
<1>3. CASE UNCHANGED vars
  <2>1. SockInv
    BY <1>2, <1>3 DEF vars, Serving
  <2>2. (\A c \in Conns : Held(c)' <=> Held(c)) /\ conn' = conn /\ thr' = thr /\ dmn' = dmn
        /\ dev' = dev
    BY <1>3 DEF vars, Held, Live
  <2> QED
    BY <2>1, <2>2 DEF SockInv, Live
<1>4. ASSUME NEW t \in Threads, ThreadStep(t) PROVE SockInv'
  <2>1. dmn.sessions <= 1 /\ Serving
    BY <1>1, <1>4, ThreadLeavesDaemon DEF Serving
  <2> QED
    BY <1>2, <1>4, <2>1, ThreadSockets
<1>5. CASE DaemonStep
  <2>1. dmn.sessions <= 1
    <3>1. dmn'.sessions >= dmn.sessions /\ dmn'.sessions \in Nat
      BY <1>1, <1>5, NextInv, SessionsGrow DEF Inv, TypeOK, DmnRecords
    <3> QED
      BY <1>1, <3>1
  <2> QED
    BY <1>2, <1>5, <2>1, DaemonSockets, OpenSockets
<1> QED
  BY <1>3, <1>4, <1>5 DEF Next

(* Every reachable state has them.                                         *)
LEMMA SpecSockets ==
  ASSUME Orderly
  PROVE  Spec => []FirstSockets
<1>1. Init => FirstSockets
  BY DEF Init, FirstSockets, Serving
<1>2. Base /\ ExchInv /\ FirstSockets /\ [Next]_vars => FirstSockets'
  BY NextSockets
<1> QED
  BY <1>1, <1>2, SpecExchInv, PTL DEF Spec

(* While the first daemon serves the device, kernel and daemon agree on    *)
(* the open sockets (usrsock_active's search by socket number finds the    *)
(* connection that was meant): every open connection has a number the      *)
(* daemon knows, and no two have the same, whatever calls are under way    *)
(* and in whatever order they are answered.                                *)
THEOREM SocketsCorrect ==
  Orderly => (Spec => [](dmn.sessions <= 1 => SocketsAgree))
<1> SUFFICES ASSUME Orderly PROVE Spec => [](dmn.sessions <= 1 => SocketsAgree)
  OBVIOUS
<1>1. FirstSockets => (dmn.sessions <= 1 => SocketsAgree)
  <2> SUFFICES ASSUME SockInv,
                      NEW c \in Conns, Open(c)
               PROVE  /\ conn[c].usockid \in dmn.socks
                      /\ \A d \in Conns \ {c} : Open(d) => conn[d].usockid # conn[c].usockid
    BY DEF FirstSockets, SocketsAgree, Serving
  <2>1. \A d \in Conns : Open(d) => Held(d)
    BY DEF Open, Held, Live
  <2> QED
    BY <2>1 DEF SockInv
<1> QED
  BY <1>1, SpecSockets, PTL

-----------------------------------------------------------------------------
(* Socket numbers that are not used again                                  *)

(* Every number a connection carries was given out, and to no other        *)
(* connection; an event under way is about the connection it was looked up *)
(* for, if that still has the number.                                      *)
FreshInv ==
  /\ \A c \in Conns : conn[c].usockid \in {-1} \cup dmn.used
  /\ \A c, d \in Conns : conn[c].usockid = conn[d].usockid /\ conn[c].usockid # -1 => c = d
  /\ dmn.pc = "event" => /\ dmn.about # -1
                         /\ \A c \in Conns : conn[c].usockid = dmn.about => c = dmn.conn

(* A step that gives out no number keeps it.                               *)
LEMMA NumbersKept ==
  ASSUME FreshInv, dmn.used \subseteq dmn'.used,
         \A c \in Conns : conn'[c].usockid \in {-1, conn[c].usockid},
         dmn'.pc = "event" => dmn.pc = "event" /\ dmn'.about = dmn.about /\ dmn'.conn = dmn.conn
  PROVE  FreshInv'
<1>1. \A c \in Conns : conn'[c].usockid \in {-1} \cup dmn'.used
  BY DEF FreshInv
<1>2. ASSUME NEW c \in Conns, NEW d \in Conns, conn'[c].usockid = conn'[d].usockid,
             conn'[c].usockid # -1
      PROVE  c = d
  BY <1>2 DEF FreshInv
<1>3. dmn'.pc = "event" => /\ dmn'.about # -1
                           /\ \A c \in Conns : conn'[c].usockid = dmn'.about => c = dmn'.conn
  BY DEF FreshInv
<1> QED
  BY <1>1, <1>2, <1>3 DEF FreshInv

(* The steps of the threads give out no number.                            *)
LEMMA ThreadNumbers ==
  ASSUME ConnInv, WaitInv, NEW t \in Threads, ThreadStep(t)
  PROVE  \A d \in Conns : conn'[d].usockid \in {-1, conn[d].usockid}
<1>1. ClearedConn.usockid = -1 /\ conn \in ConnFun
  BY ConnFacts DEF ClearedConn
<1>2. CASE CallForm(t)
  <2>1. PICK c \in Conns :
          \/ Ends(t, c) \/ MakesSocket(t, c) \/ TakesConn(t, c) \/ DropsConn(t, c)
          \/ Shuts(t, c) \/ Polls(t, c) \/ Dups(t, c)
          \/ \E op \in Requests : Asks(t, c, op) \/ Awaits(t, c, op)
    BY <1>2 DEF CallForm
  <2>2. CASE Ends(t, c) \/ MakesSocket(t, c) \/ Shuts(t, c)
    BY <2>2 DEF Ends, MakesSocket, Shuts, Kept, OnlyConn, SameSocket
  <2>3. CASE TakesConn(t, c) \/ DropsConn(t, c)
    BY <1>1, <2>3 DEF TakesConn, DropsConn, OnlyConn, ConnFun
  <2>4. CASE Polls(t, c) \/ Dups(t, c) \/ \E op \in Requests : Awaits(t, c, op)
    BY <2>4 DEF Polls, Dups, Awaits, Kept, OnlyConn, SameSocket
  <2>5. ASSUME NEW op \in Requests, Asks(t, c, op)
        PROVE  \A d \in Conns : conn'[d].usockid \in {-1, conn[d].usockid}
    BY <2>5 DEF Asks, OnlyConn, SameSocket
  <2> QED
    BY <2>1, <2>2, <2>3, <2>4, <2>5
<1>3. CASE TakeLine(t) \/ LeaveLine(t)
  <2>1. LineMoves(t)
    BY <1>3, LineForm
  <2>2. thr[t].conn \in Conns
    BY <2>1, ConnFacts DEF LineMoves
  <2>3. CASE conn' = Released(thr[t].conn, t)
    BY <2>2, <2>3, KeptReleased DEF Kept, OnlyConn, SameSocket
  <2> QED
    BY <2>1, <2>3 DEF LineMoves
<1>4. CASE net_timedwait(t)
  BY <1>4 DEF net_timedwait
<1> QED
  BY <1>2, <1>3, <1>4, ThreadForms

(* A final response: a new socket has a number that nobody ever had.       *)
LEMMA FinalNumbers ==
  ASSUME Orderly, FreshIds, Base, Serving, dmn.sessions <= 1, ExchangeInv, FreshInv,
         NEW r \in dmn.pend, FinallyAnswered(r), dmn'.pc = "open"
  PROVE  FreshInv'
<1> DEFINE t == r.th
           c == r.xid
<1>1. /\ dmn \in DmnRecords /\ r \in PendingRequests /\ conn \in ConnFun /\ t \in Threads
      /\ c \in Conns /\ ConnInv /\ conn[c] \in ConnRecords
  BY ServingFacts, ConnFacts DEF Base, DmnRecords
<1>2. PendOk(r)
  BY <1>1 DEF ExchangeInv, CallOk
<1>3. PICK result \in Answers(r) :
        LET cr == Answered(conn[c], r, result)
        IN  /\ dmn'.used = DaemonAfter(r, result, FALSE).used
            /\ \/ usrsock_event(c, cr, {"REQ_COMPLETE"})
               \/ conn' = [conn EXCEPT ![c] = cr]
  BY DEF FinallyAnswered
<1> DEFINE cr == Answered(conn[c], r, result)
<1>4. result \in Int
  BY <1>1, AnswersRange
<1>5. /\ cr \in ConnRecords /\ cr.list = conn[c].list /\ cr.state = conn[c].state
      /\ cr.usockid = conn[c].usockid /\ cr.result = result
      /\ cr.answered = [th |-> t, op |-> r.op]
  BY <1>1, <1>4, AnsweredFields
<1>6. usrsock_event(c, cr, {"REQ_COMPLETE"}) \/ conn' = [conn EXCEPT ![c] = cr]
  BY <1>3
<1>7. /\ dmn.used \subseteq dmn'.used
      /\ r.op = "socket" /\ result >= 0 => dmn'.used = dmn.used \cup {result}
  BY <1>1, <1>3 DEF DaemonAfter, DmnRecords
<1>8. r.op = "socket" /\ result >= 0 => result \notin dmn.used
  <2>1. ASSUME r.op = "socket", result >= 0 PROVE result \notin dmn.used
    <3>1. result \in (UsockIds \ (dmn.socks \cup dmn.used))
                     \cup {v \in Results : v < 0 /\ v # EAGAIN}
      BY <2>1 DEF Answers, IoCalls
    <3> QED
      BY <1>4, <2>1, <3>1
  <2> QED
    BY <2>1
<1> HIDE DEF cr
<1>9. CASE usrsock_event(c, cr, {"REQ_COMPLETE"})
  <2> DEFINE ev   == {"REQ_COMPLETE"}
             born == SocketBorn(StateUpdate(cr, ev), thr, EventsToCallbacks(cr, ev))
  <2>1. ev \in SUBSET Events /\ "ABORT" \notin ev
    BY DEF Events, InternalEvents
  <2>2. born => r.op = "socket" /\ result >= 0
    <3>1. \A u \in Threads : thr[u].conn = c => u = t
      BY <1>1, <1>2, OneCall DEF PendOk, Orderly
    <3>2. thr[t].op = r.op
      BY <1>2 DEF PendOk
    <3> QED
      BY <1>1, <1>5, <3>1, <3>2, BornOf
  <2>3. EventLeaves(c, cr, ev)
    BY <1>1, <1>5, <1>9, <2>1, EventLeft
  <2>4. /\ \A d \in Conns \ {c} : conn'[d] = conn[d]
        /\ conn'[c].usockid = IF born THEN result ELSE conn[c].usockid
    BY <1>5, <2>3 DEF EventLeaves, OnlyConn
  <2> HIDE DEF born
  <2>5. CASE ~born
    <3>1. \A d \in Conns : conn'[d].usockid = conn[d].usockid
      BY <2>4, <2>5
    <3> QED
      BY <1>7, <3>1, NumbersKept
  <2>6. CASE born
    <3>1. conn'[c].usockid = result /\ result \notin dmn.used /\ result # -1
          /\ dmn'.used = dmn.used \cup {result}
      BY <1>4, <1>7, <1>8, <2>2, <2>4, <2>6
    <3>2. \A d \in Conns : conn'[d].usockid \in {-1} \cup dmn'.used
      BY <2>4, <3>1 DEF FreshInv
    <3>3. \A d \in Conns \ {c} : conn'[d].usockid # result
      BY <2>4, <3>1 DEF FreshInv
    <3>4. ASSUME NEW d \in Conns, NEW e \in Conns, conn'[d].usockid = conn'[e].usockid,
                 conn'[d].usockid # -1
          PROVE  d = e
      BY <2>4, <3>1, <3>3, <3>4 DEF FreshInv
    <3> QED
      BY <3>2, <3>4 DEF FreshInv
  <2> QED
    BY <2>5, <2>6
<1>10. CASE conn' = [conn EXCEPT ![c] = cr]
  <2>1. \A d \in Conns : conn'[d].usockid = conn[d].usockid
    BY <1>1, <1>5, <1>10 DEF ConnFun
  <2> QED
    BY <1>7, <2>1, NumbersKept
<1> QED
  BY <1>6, <1>9, <1>10

(* Every step of a daemon that serves the device.                          *)
LEMMA ServingNumbers ==
  ASSUME Orderly, FreshIds, Base, Serving, dmn.sessions <= 1, ExchangeInv, SockInv, FreshInv,
         DaemonStep
  PROVE  FreshInv'
<1>1. dmn \in DmnRecords /\ ConnInv /\ conn \in ConnFun
  BY ServingFacts, ConnFacts DEF Base
<1>2. CASE PollSetup \/ PollTeardown \/ usrsockdev_read \/ CloseBegin
  <2>1. /\ conn' = conn /\ dmn'.used = dmn.used
        /\ dmn'.pc = "event" => dmn.pc = "event" /\ dmn'.about = dmn.about /\ dmn'.conn = dmn.conn
    BY <1>1, <1>2 DEF PollSetup, PollTeardown, usrsockdev_read, CloseBegin, DmnRecords
  <2> QED
    BY <2>1, NumbersKept
<1>3. CASE usrsockdev_handle_event
  <2>1. PICK id \in dmn.socks, ev \in EventMsgs :
          /\ usrsock_active(active, conn, id) # NoConn
          /\ dmn' = [dmn EXCEPT !.pc = "event", !.conn = usrsock_active(active, conn, id),
                                !.ev = ev, !.about = id]
    BY <1>3 DEF usrsockdev_handle_event
  <2>2. conn' = conn
    BY <1>3 DEF usrsockdev_handle_event
  <2>3. PICK c \in Conns : usrsock_active(active, conn, id) = c /\ conn[c].usockid = id
    BY <1>1, <2>1, ActiveLookup, ConnFacts
  <2>4. dmn'.about = id /\ dmn'.conn = c /\ dmn'.used = dmn.used
    BY <1>1, <2>1, <2>3 DEF DmnRecords
  <2>5. id # -1
    BY <1>1, ConnAssumption DEF DmnRecords
  <2> QED
    BY <2>2, <2>3, <2>4, <2>5 DEF FreshInv
<1>4. ASSUME NEW t \in Threads, usrsockdev_handle_req_response(t) PROVE FreshInv'
  <2>1. PICK r \in dmn.pend : RespondInProgress(r) \/ RespondFinally(r)
    BY <1>4 DEF usrsockdev_handle_req_response
  <2>2. dmn'.pc = "open"
    BY <1>1, <1>4, DaemonResponds DEF ConnInv
  <2>3. CASE RespondInProgress(r)
    <3>1. dmn'.used = dmn.used
      BY <1>1, <2>3 DEF RespondInProgress, DmnRecords
    <3>2. \A d \in Conns : conn'[d].usockid = conn[d].usockid
      BY <1>1, <2>3 DEF RespondInProgress, ConnFun, ConnRecords
    <3> QED
      BY <2>2, <3>1, <3>2, NumbersKept
  <2>4. CASE RespondFinally(r)
    BY <2>2, <2>4, FinalForm, FinalNumbers
  <2> QED
    BY <2>1, <2>3, <2>4
<1>5. CASE usrsockdev_write \/ DeliverEvent
  <2>1. dmn'.used = dmn.used /\ dmn'.pc = "open"
    BY <1>1, <1>5 DEF usrsockdev_write, DeliverEvent, DaemonRuns, DmnRecords
  <2>2. \A d \in Conns : conn'[d].usockid = conn[d].usockid
    BY <1>5, WriteSockets, DeliverSockets
  <2> QED
    BY <2>1, <2>2, NumbersKept
<1>6. ~usrsockdev_open /\ ~CloseAbort /\ ~CloseNext /\ ~CloseDown
      /\ ~CloseTimeout /\ ~CloseEnd /\ ~CloseLoop
  BY DEF Serving, usrsockdev_open, CloseAbort, CloseNext, CloseDown, CloseTimeout, CloseEnd,
         CloseLoop
<1> QED
  BY <1>2, <1>3, <1>4, <1>5, <1>6 DEF DaemonStep

(* Every step of the daemon while nobody serves the device.                *)
LEMMA ClosedNumbers ==
  ASSUME Base, ~Serving, FreshInv, DaemonStep
  PROVE  FreshInv'
<1>1. dmn \in DmnRecords /\ ConnInv /\ conn \in ConnFun
  BY ConnFacts DEF Base, ConnInv, Inv, TypeOK
<1>2. CASE usrsockdev_open \/ CloseNext \/ CloseDown \/ CloseTimeout \/ PollTeardown
  <2>1. conn' = conn /\ dmn'.used = dmn.used /\ dmn'.pc # "event"
    BY <1>1, <1>2 DEF usrsockdev_open, CloseNext, CloseDown, CloseTimeout, PollTeardown,
                      Serving, DmnRecords
  <2> QED
    BY <2>1, NumbersKept
<1>3. CASE CloseEnd
  <2> DEFINE dm == [dmn EXCEPT !.pc = "closed"]
  <2>1. dm \in DmnRecords /\ dm.pc = "closed" /\ dm.used = dmn.used
    BY <1>1 DEF DmnRecords
  <2>2. conn' = conn /\ (dmn' = dm \/ dmn' = [dm EXCEPT !.pc = "got"])
    BY <1>3 DEF CloseEnd, usrsockdev_semgive
  <2> HIDE DEF dm
  <2>3. dmn'.used = dmn.used /\ dmn'.pc # "event"
    BY <2>1, <2>2 DEF DmnRecords
  <2> QED
    BY <2>2, <2>3, NumbersKept
<1>4. CASE CloseLoop
  <2>1. conn' = conn /\ dmn'.used = dmn.used /\ dmn'.pc # "event"
    BY <1>1, <1>4 DEF CloseLoop, DmnRecords
  <2> QED
    BY <2>1, NumbersKept
<1>5. CASE CloseAbort
  <2>1. PICK c \in Conns : dmn.conn = c
    BY <1>1, <1>5 DEF CloseAbort, DmnRecords
  <2> DEFINE cr == [conn[c] EXCEPT !.inprogress = FALSE, !.xid = 0]
             ev == {"ABORT"}
  <2>2. conn[c] \in ConnRecords
    BY <1>1, ConnFacts
  <2>3. cr \in ConnRecords /\ cr.usockid = conn[c].usockid
    BY <2>2, NoConnFacts DEF ConnRecords, NoConn
  <2>4. usrsock_event(c, cr, ev) /\ ev \in SUBSET Events /\ "REQ_COMPLETE" \notin ev
    BY <1>5, <2>1 DEF CloseAbort, ExternalEvents, Events
  <2> HIDE DEF cr, ev
  <2>5. EventLeaves(c, cr, ev)
    BY <1>1, <2>3, <2>4, EventLeft
  <2>6. ~SocketBorn(StateUpdate(cr, ev), thr, EventsToCallbacks(cr, ev))
    BY <2>4, BornAnswered
  <2>7. \A d \in Conns : conn'[d].usockid = conn[d].usockid
    BY <2>3, <2>5, <2>6 DEF EventLeaves, OnlyConn
  <2>8. dmn'.used = dmn.used /\ dmn'.pc # "event"
    BY <1>1, <1>5 DEF CloseAbort, DmnRecords
  <2> QED
    BY <2>7, <2>8, NumbersKept
<1>6. ~( \/ PollSetup \/ usrsockdev_read \/ usrsockdev_write \/ usrsockdev_handle_event
        \/ DeliverEvent \/ CloseBegin \/ \E t \in Threads : usrsockdev_handle_req_response(t))
  BY DEF Serving, PollSetup, usrsockdev_read, usrsockdev_handle_req_response,
         usrsockdev_write, usrsockdev_handle_event, DeliverEvent, CloseBegin, DaemonRuns
<1> QED
  BY <1>2, <1>3, <1>4, <1>5, <1>6 DEF DaemonStep

(* The numbers until the second daemon comes.                              *)
FirstNumbers == dmn.sessions <= 1 => FreshInv

(* They stay in order.                                                     *)
LEMMA NextNumbers ==
  ASSUME Orderly, FreshIds, Base, ExchInv, FirstSockets, FirstNumbers, [Next]_vars
  PROVE  FirstNumbers'
<1> SUFFICES ASSUME dmn'.sessions <= 1 PROVE FreshInv'
  BY DEF FirstNumbers
<1>1. dmn \in DmnRecords /\ dmn.sessions \in Nat /\ Inv /\ ConnInv /\ WaitInv
  BY DEF Base, ConnInv, Inv, TypeOK, DmnRecords
<1>2. CASE UNCHANGED vars
  BY <1>2 DEF vars, FirstNumbers, FreshInv
<1>3. ASSUME NEW t \in Threads, ThreadStep(t) PROVE FreshInv'
  <2>1. \/ dmn' = dmn
        \/ /\ dmn.pc = "wait" /\ dmn'.pc = "got" /\ dmn'.sessions = dmn.sessions
           /\ dmn'.used = dmn.used
    BY <1>1, <1>3, ThreadLeavesDaemon
  <2>2. FreshInv
    BY <2>1 DEF FirstNumbers
  <2> QED
    BY <1>1, <1>3, <2>1, <2>2, ThreadNumbers, NumbersKept
<1>4. CASE DaemonStep
  <2>1. dmn.sessions <= 1
    <3>1. dmn'.sessions >= dmn.sessions /\ dmn'.sessions \in Nat
      BY <1>1, <1>4, NextInv, SessionsGrow DEF Inv, TypeOK, DmnRecords
    <3> QED
      BY <1>1, <3>1
  <2>2. FreshInv /\ (Serving => ExchangeInv /\ SockInv)
    BY <2>1 DEF FirstNumbers, ExchInv, FirstSockets
  <2> QED
    BY <1>4, <2>1, <2>2, ServingNumbers, ClosedNumbers
<1> QED
  BY <1>2, <1>3, <1>4 DEF Next

(* usrsock_active finds "the appropriate connection": if the daemon never  *)
(* uses a socket number twice, an event message of the first daemon        *)
(* reaches the connection of the socket it is about, also when the         *)
(* connection was closed or freed between the lookup and the event, for    *)
(* any number of threads and connections.                                  *)
THEOREM EventCorrect ==
  Orderly /\ FreshIds => (Spec => [](dmn.sessions <= 1 => EventReachesSocket))
<1> SUFFICES ASSUME Orderly, FreshIds
             PROVE  Spec => [](dmn.sessions <= 1 => EventReachesSocket)
  OBVIOUS
<1>1. Init => FirstNumbers
  <2> SUFFICES ASSUME Init PROVE FreshInv
    BY DEF FirstNumbers
  <2>1. dmn.pc = "closed" /\ \A c \in Conns : conn[c].usockid = -1
    BY DEF Init, usrsock_initialize, ClearedConn
  <2> QED
    BY <2>1 DEF FreshInv
<1>2. Base /\ ExchInv /\ FirstSockets /\ FirstNumbers /\ [Next]_vars => FirstNumbers'
  BY NextNumbers
<1>3. FirstNumbers => (dmn.sessions <= 1 => EventReachesSocket)
  BY DEF FirstNumbers, FreshInv, EventReachesSocket
<1> QED
  BY <1>1, <1>2, <1>3, SpecExchInv, SpecSockets, PTL DEF Spec

=============================================================================
