------------------------- MODULE UsrsockWaitProofs -------------------------
(***************************************************************************)
(* What calls wait for and what they return: theorems about module Usrsock *)
(* that need the content of the connections, not only the lists.           *)
(*                                                                         *)
(* Every step of a thread has one of a few forms (ThreadForms), which tell *)
(* what it does to its connection and to its own state; every step of the  *)
(* daemon leaves the threads' calls alone or raises one event on one       *)
(* connection (DaemonForms). The invariants are proved for these forms.    *)
(***************************************************************************)
EXTENDS UsrsockListProofs

-----------------------------------------------------------------------------
(* The forms of a thread's step                                            *)

(* Connection b is connection a but for its state, its callbacks, its      *)
(* references, its input buffers and the response it waits for.            *)
SameSocket(a, b) ==
  /\ b.connected = a.connected /\ b.stream = a.stream /\ b.usockid = a.usockid
  /\ b.flags = a.flags /\ b.inprogress = a.inprogress
  /\ b.owner = a.owner /\ b.answered = a.answered

OnlyConn(c, cm) == cm \in ConnFun /\ \A d \in Conns \ {c} : cm[d] = conn[d]

(* Connection c is left waiting for the response it waits for, in state s. *)
Kept(c, cm, s) ==
  /\ OnlyConn(c, cm)
  /\ SameSocket(conn[c], cm[c])
  /\ cm[c].xid = conn[c].xid /\ cm[c].result = conn[c].result
  /\ cm[c].state = s

(* Thread t is about to begin a call on connection c, or it waits in one.  *)
InCall(t, c) == thr[t].conn = c \/ (thr[t].conn = NoConn /\ MayUse(t, c))

(* The wait for the completion of the request is over.                     *)
Answer(t) == thr[t].pc = "respwait" /\ thr[t].recvsem > 0 /\ thr[t].wake = "no"

(* The places from which a call goes on without net_lock having been given *)
(* up in between: a new call, and the ends of the waits.                   *)
Resumes(t) ==
  \/ thr[t].pc \in {"idle", "alloced", "rdywait", "pollwait"}
  \/ Answer(t)
  \/ thr[t].pc = "respwait" /\ thr[t].op = "connect" /\ thr[t].wake = "signal"

(* connect() returns an error, or what it was woken with.                  *)
Reported(t, op, c, d, val) ==
  op = "connect" => /\ d = c
                    /\ \/ val \notin {0, EINPROGRESS}
                       \/ thr[t].conn = c /\ thr[t].op = "connect" /\ val = thr[t].result

(* The call returns. A connect() that fails without a daemon leaves its    *)
(* connection in the state CONNECTING.                                     *)
Ends(t, c) ==
  /\ Resumes(t)
  /\ thr' = [thr EXCEPT ![t] = IdleThread]
  /\ \/ conn' = conn
     \/ InCall(t, c) /\ Kept(c, conn', conn[c].state)
     \/ /\ thr[t].pc = "idle" /\ MayUse(t, c) /\ conn[c].state = "READY"
        /\ Kept(c, conn', "CONNECTING")
  /\ Reported(t, ret'.op, c, ret'.conn, ret'.val)
  /\ UNCHANGED <<lists, dev>>

(* Thread t may go to the request line, or to a wait, with call op on c.   *)
Begins(t, c, op) ==
  \/ thr[t].pc = "idle" /\ MayUse(t, c) /\ ~Unusable(c) /\ op # "socket"
  \/ thr[t].pc = "alloced" /\ thr[t].conn = c /\ op = "socket"
  \/ /\ thr[t].pc = "rdywait" /\ thr[t].recvsem > 0 /\ conn[c].state # "ABORTED"
     /\ thr[t].conn = c /\ op = thr[t].op
  \/ Answer(t) /\ thr[t].conn = c /\ op = thr[t].op /\ op \in IoCalls

(* Only an application that uses connect() asks for one, and with the      *)
(* O_NONBLOCK flags its sockets have.                                      *)
MayAsk(op, nonblock) == op = "connect" => "connect" \in Ops /\ nonblock \in NonBlock

(* The call goes to the request line.                                      *)
AskingThread(op, c, nonblock) ==
  [Armed(op, c, nonblock, {"ABORT", "REQ_COMPLETE"}) EXCEPT !.pc = LineWait]

Asks(t, c, op) ==
  /\ usrsockdev_is_opened
  /\ Begins(t, c, op) /\ op \in Requests
  /\ \E nonblock \in BOOLEAN :
       MayAsk(op, nonblock) /\ thr' = [thr EXCEPT ![t] = AskingThread(op, c, nonblock)]
  /\ OnlyConn(c, conn') /\ SameSocket(conn[c], conn'[c])
  /\ conn'[c].xid = c /\ conn'[c].result = EACCES
  /\ op \in DataRequests => conn'[c].datain = t
  /\ IF op = "connect" THEN conn[c].state = "READY" /\ conn'[c].state = "CONNECTING"
     ELSE conn'[c].state = conn[c].state
  /\ dev' = [dev EXCEPT !.nbusy = @ + 1, !.sem = IF @ > 0 THEN @ - 1 ELSE @]
  /\ ret' = NoReturn
  /\ UNCHANGED lists

(* sendto() or recvfrom() waits for readiness.                             *)
AwaitingThread(op, c, nonblock) ==
  [Armed(op, c, nonblock, {"ABORT", "REMOTE_CLOSED", ReadyEvent(op)}) EXCEPT !.pc = "rdywait"]

Awaits(t, c, op) ==
  /\ Begins(t, c, op) /\ op \in IoCalls
  /\ thr[t].pc = "idle" => conn[c].state = "READY"
  /\ \E nonblock \in BOOLEAN : thr' = [thr EXCEPT ![t] = AwaitingThread(op, c, nonblock)]
  /\ Kept(c, conn', conn[c].state)
  /\ ret' = NoReturn
  /\ UNCHANGED <<lists, dev>>

(* poll() waits.                                                           *)
PollingThread(c, wanted) ==
  [Armed("poll", c, FALSE, ExternalEvents \cup {"CONNECT_RESP"})
     EXCEPT !.pc = "pollwait", !.events = wanted, !.revents = PollState(conn[c], wanted)]

Polls(t, c) ==
  /\ MayUse(t, c)
  /\ \E wanted \in PollMasks : thr' = [thr EXCEPT ![t] = PollingThread(c, wanted)]
  /\ Kept(c, conn', conn[c].state)
  /\ ret' = NoReturn
  /\ UNCHANGED <<lists, dev>>

(* The new socket is the caller's.                                         *)
MakesSocket(t, c) ==
  /\ Answer(t) /\ thr[t].conn = c /\ thr[t].op = "socket" /\ thr[t].result >= 0
  /\ thr' = [thr EXCEPT ![t] = IdleThread]
  /\ OnlyConn(c, conn')
  /\ conn'[c].connected = conn[c].connected /\ conn'[c].usockid = conn[c].usockid
  /\ conn'[c].flags = conn[c].flags /\ conn'[c].inprogress = conn[c].inprogress
  /\ conn'[c].answered = conn[c].answered /\ conn'[c].state = conn[c].state
  /\ conn'[c].xid = conn[c].xid /\ conn'[c].result = conn[c].result
  /\ conn'[c].owner = t /\ conn'[c].crefs = 1
  /\ ret'.op = "socket"
  /\ UNCHANGED <<lists, dev>>

(* usrsock_alloc.                                                          *)
MakingThread(c) == [IdleThread EXCEPT !.pc = "alloced", !.op = "socket", !.conn = c]

TakesConn(t, c) ==
  /\ thr[t].pc = "idle"
  /\ c \in Range(free)
  /\ thr' = [thr EXCEPT ![t] = MakingThread(c)]
  /\ conn' = [conn EXCEPT ![c] = ClearedConn]
  /\ ret' = NoReturn
  /\ UNCHANGED dev

(* usrsock_free.                                                           *)
DropsConn(t, c) ==
  /\ thr[t].conn = c
  /\ \/ thr[t].pc = "alloced"
     \/ Answer(t) /\ thr[t].op = "socket" /\ thr[t].result < 0
     \/ thr[t].pc = "freeing"
  /\ thr' = [thr EXCEPT ![t] = IdleThread]
  /\ OnlyConn(c, conn') /\ conn'[c] = ClearedConn
  /\ ret'.op \in {"socket", "close"}
  /\ UNCHANGED dev

(* close_out of usrsock_close.                                             *)
ClosingThread(c) == [IdleThread EXCEPT !.pc = "freeing", !.op = "close", !.conn = c]

Shuts(t, c) ==
  /\ \/ MayUse(t, c) /\ (\A u \in Threads \ {t} : thr[u].conn # c)
        /\ (Unusable(c) \/ ~usrsockdev_is_opened)
     \/ Answer(t) /\ thr[t].conn = c /\ thr[t].op = "close"
  /\ thr' = [thr EXCEPT ![t] = ClosingThread(c)]
  /\ OnlyConn(c, conn')
  /\ conn'[c].connected = conn[c].connected /\ conn'[c].xid = conn[c].xid
  /\ conn'[c].inprogress = conn[c].inprogress /\ conn'[c].result = conn[c].result
  /\ conn'[c].owner = conn[c].owner
  /\ conn'[c].state = "UNINITIALIZED" /\ conn'[c].usockid = -1
  /\ ret' = NoReturn
  /\ UNCHANGED <<lists, dev>>

(* dup() counts one more reference.                                        *)
Dups(t, c) ==
  /\ MayUse(t, c)
  /\ Kept(c, conn', conn[c].state)
  /\ ret' = NoReturn
  /\ UNCHANGED <<lists, thr, dev>>

CallForm(t) ==
  \E c \in Conns :
    \/ Ends(t, c) \/ MakesSocket(t, c) \/ TakesConn(t, c) \/ DropsConn(t, c)
    \/ Shuts(t, c) \/ Polls(t, c) \/ Dups(t, c)
    \/ \E op \in Requests : Asks(t, c, op) \/ Awaits(t, c, op)

-----------------------------------------------------------------------------
(* What a call leaves of its connection                                    *)

(* The connections before the step.                                        *)
LEMMA KeptSame ==
  ASSUME ConnInv, NEW c \in Conns
  PROVE  Kept(c, conn, conn[c].state)
BY ConnFacts DEF Kept, OnlyConn, SameSocket

(* Tearing the callback down changes nothing else.                         *)
LEMMA KeptReleased ==
  ASSUME ConnInv, NEW t \in Threads, NEW c \in Conns
  PROVE  Kept(c, Released(c, t), conn[c].state)
<1>1. conn[c] \in ConnRecords /\ conn \in ConnFun
  BY ConnFacts
<1>2. Released(c, t) \in ConnFun /\ Released(c, t)[c] = TeardownCallback(conn[c], t)
      /\ \A d \in Conns \ {c} : Released(c, t)[d] = conn[d]
  BY <1>1, ReleasedType DEF ConnInv, Released, ConnFun
<1>3. /\ SameSocket(conn[c], TeardownCallback(conn[c], t))
      /\ TeardownCallback(conn[c], t).xid = conn[c].xid
      /\ TeardownCallback(conn[c], t).result = conn[c].result
      /\ TeardownCallback(conn[c], t).state = conn[c].state
  BY <1>1 DEF TeardownCallback, ConnRecords, SameSocket
<1> QED
  BY <1>2, <1>3 DEF Kept, OnlyConn

(* Replacing the record of the connection by one that agrees with it.      *)
LEMMA KeptUpdate ==
  ASSUME NEW c \in Conns, NEW cm, NEW s, Kept(c, cm, s), NEW cr \in ConnRecords,
         SameSocket(cm[c], cr), cr.xid = cm[c].xid, cr.result = cm[c].result
  PROVE  Kept(c, [cm EXCEPT ![c] = cr], cr.state)
<1>1. cm \in ConnFun /\ \A d \in Conns \ {c} : cm[d] = conn[d]
  BY DEF Kept, OnlyConn
<1>2. /\ [cm EXCEPT ![c] = cr] \in ConnFun /\ [cm EXCEPT ![c] = cr][c] = cr
      /\ \A d \in Conns \ {c} : [cm EXCEPT ![c] = cr][d] = cm[d]
  BY <1>1 DEF ConnFun
<1> QED
  BY <1>1, <1>2 DEF Kept, OnlyConn, SameSocket

(* Taking the input buffers away changes nothing else.                     *)
LEMMA KeptWithoutData ==
  ASSUME NEW c \in Conns, NEW op, NEW cm, NEW s, Kept(c, cm, s)
  PROVE  Kept(c, WithoutData(c, op, cm), s)
<1> DEFINE cr == [cm[c] EXCEPT !.datain = NoThread]
<1>1. cm \in ConnFun /\ cm[c] \in ConnRecords /\ cm[c].state = s
  BY DEF Kept, OnlyConn, ConnFun
<1>2. /\ cr \in ConnRecords /\ SameSocket(cm[c], cr) /\ cr.xid = cm[c].xid
      /\ cr.result = cm[c].result /\ cr.state = cm[c].state
  BY <1>1 DEF ConnRecords, SameSocket
<1>3. [cm EXCEPT ![c].datain = NoThread] = [cm EXCEPT ![c] = cr]
  BY <1>1 DEF ConnFun
<1> HIDE DEF cr
<1>4. Kept(c, [cm EXCEPT ![c] = cr], cr.state)
  BY <1>2, KeptUpdate
<1> QED
  BY <1>1, <1>2, <1>3, <1>4 DEF WithoutData

(* A callback in the list changes nothing else.                            *)
LEMMA KeptSetup ==
  ASSUME NEW t \in Threads, NEW c \in Conns, NEW cm, NEW s, Kept(c, cm, s)
  PROVE  Kept(c, [cm EXCEPT ![c] = SetupCallback(@, t)], s)
<1> DEFINE cr == SetupCallback(cm[c], t)
<1>1. cm \in ConnFun /\ cm[c] \in ConnRecords /\ cm[c].state = s
  BY DEF Kept, OnlyConn, ConnFun
<1>2. cr \in ConnRecords
  BY <1>1, CallbackType
<1>3. /\ SameSocket(cm[c], cr) /\ cr.xid = cm[c].xid
      /\ cr.result = cm[c].result /\ cr.state = cm[c].state
  BY <1>1 DEF SetupCallback, ConnRecords, SameSocket
<1>4. [cm EXCEPT ![c] = SetupCallback(@, t)] = [cm EXCEPT ![c] = cr]
  BY <1>1 DEF ConnFun
<1> HIDE DEF cr
<1>5. Kept(c, [cm EXCEPT ![c] = cr], cr.state)
  BY <1>2, <1>3, KeptUpdate
<1> QED
  BY <1>1, <1>3, <1>4, <1>5

-----------------------------------------------------------------------------
(* The ways a call goes on, each a CallForm                                *)

(* The errors connect() makes up itself are neither success nor "in        *)
(* progress".                                                              *)
LEMMA ErrnoDistinct ==
  \A e \in {EINTR, EBUSY, EPIPE, ENETDOWN, EISCONN, ECONNREFUSED, EALREADY} :
    e \notin {0, EINPROGRESS}
BY DEF EINTR, EBUSY, EPIPE, ENETDOWN, EISCONN, ECONNREFUSED, EALREADY, EINPROGRESS

(* The state in which a call may leave its connection when it returns.     *)
MayLeave(t, c, s) ==
  \/ s = conn[c].state
  \/ s = "CONNECTING" /\ conn[c].state = "READY" /\ thr[t].pc = "idle" /\ MayUse(t, c)

(* The call returns by Finish.                                             *)
LEMMA FinishForm ==
  ASSUME ConnInv, NEW t \in Threads, NEW c \in Conns, Resumes(t), InCall(t, c),
         NEW op, NEW d, NEW val, NEW cm, NEW s, Kept(c, cm, s), MayLeave(t, c, s),
         Reported(t, op, c, d, val), Finish(t, op, d, val, cm), UNCHANGED <<lists, dev>>
  PROVE  CallForm(t)
<1>1. ret'.op = op /\ ret'.conn = d /\ ret'.val = val
      /\ thr' = [thr EXCEPT ![t] = IdleThread] /\ conn' = cm
  BY DEF Finish
<1>2. Ends(t, c)
  BY <1>1 DEF Ends, MayLeave
<1> QED
  BY <1>2 DEF CallForm

(* The call goes to the request line.                                      *)
LEMMA RequestForm ==
  ASSUME ConnInv, NEW t \in Threads, NEW c \in Conns, NEW op \in Requests,
         NEW nonblock \in BOOLEAN, NEW cm, NEW s, Kept(c, cm, s),
         IF op = "connect" THEN conn[c].state = "READY" /\ s = "CONNECTING"
         ELSE s = conn[c].state,
         Begins(t, c, op), MayAsk(op, nonblock), usrsockdev_is_opened,
         usrsockdev_do_request(t, op, c, nonblock, cm), UNCHANGED lists
  PROVE  CallForm(t)
<1> DEFINE cs == SetupCallback(cm[c], t)
           d  == IF op \in DataRequests THEN t ELSE cs.datain
           cr == [cs EXCEPT !.xid = c, !.result = EACCES, !.datain = d]
<1>1. cm \in ConnFun /\ cm[c] \in ConnRecords /\ cm[c].state = s
      /\ \A e \in Conns \ {c} : cm[e] = conn[e]
  BY DEF Kept, OnlyConn, ConnFun
<1>2. cs \in ConnRecords
  BY <1>1, CallbackType
<1>3. SameSocket(cm[c], cs) /\ cs.state = s
  BY <1>1 DEF SetupCallback, ConnRecords, SameSocket
<1>4. d \in Threads \cup {NoThread} /\ EACCES \in Int
  BY <1>2, ErrnoTypes DEF ConnRecords
<1>5. /\ cr \in ConnRecords /\ SameSocket(cs, cr) /\ cr.state = cs.state
      /\ cr.xid = c /\ cr.result = EACCES /\ cr.datain = d
  <2> HIDE DEF cs, d
  <2> QED
    BY <1>2, <1>4 DEF ConnRecords, SameSocket
<1>6. conn' = [cm EXCEPT ![c] = cr]
  BY <1>1 DEF usrsockdev_do_request, usrsockdev_get_xid, ConnFun
<1>7. op \in DataRequests => d = t
  OBVIOUS
<1> HIDE DEF cs, cr, d
<1>8. conn' \in ConnFun /\ conn'[c] = cr /\ \A e \in Conns \ {c} : conn'[e] = conn[e]
  BY <1>1, <1>5, <1>6 DEF ConnFun
<1>9. SameSocket(conn[c], conn'[c])
  BY <1>3, <1>5, <1>8 DEF Kept, SameSocket
<1>10. /\ OnlyConn(c, conn')
       /\ conn'[c].xid = c /\ conn'[c].result = EACCES
       /\ op \in DataRequests => conn'[c].datain = t
       /\ conn'[c].state = s
  BY <1>3, <1>5, <1>7, <1>8 DEF OnlyConn
<1>11. thr' = [thr EXCEPT ![t] = AskingThread(op, c, nonblock)]
  BY DEF usrsockdev_do_request, AskingThread
<1>12. Asks(t, c, op)
  BY <1>9, <1>10, <1>11 DEF Asks, usrsockdev_do_request
<1> QED
  BY <1>12 DEF CallForm

(* A call that begins on a connection, or goes on with it.                 *)
LEMMA BeginsFacts ==
  ASSUME ConnInv, NEW t \in Threads, NEW c \in Conns, NEW op, Begins(t, c, op)
  PROVE  Resumes(t) /\ InCall(t, c)
BY ConnFacts DEF Begins, Resumes, InCall

(* A request that may fail before it reaches the line.                     *)
LEMMA StartForm ==
  ASSUME ConnInv, NEW t \in Threads, NEW c \in Conns, NEW op \in Requests,
         NEW nonblock \in BOOLEAN, NEW cm, NEW marked, NEW s,
         Kept(c, cm, conn[c].state), Kept(c, marked, s),
         IF op = "connect" THEN conn[c].state = "READY" /\ s = "CONNECTING"
         ELSE s = conn[c].state,
         Begins(t, c, op), op = "connect" => thr[t].pc = "idle" /\ MayUse(t, c),
         MayAsk(op, nonblock), StartRequest(t, op, c, nonblock, cm, marked), UNCHANGED lists
  PROVE  CallForm(t)
<1>1. Resumes(t) /\ InCall(t, c) /\ MayLeave(t, c, s) /\ MayLeave(t, c, conn[c].state)
  BY BeginsFacts DEF MayLeave
<1>2. Reported(t, op, c, c, EBUSY) /\ Reported(t, op, c, c, ENETDOWN)
  BY ErrnoDistinct DEF Reported
<1>3. CASE Finish(t, op, c, EBUSY, cm) /\ UNCHANGED dev
  BY <1>1, <1>2, <1>3, FinishForm
<1>4. CASE Finish(t, op, c, ENETDOWN, WithoutData(c, op, marked)) /\ UNCHANGED dev
  BY <1>1, <1>2, <1>4, FinishForm, KeptWithoutData
<1>5. CASE usrsockdev_is_opened /\ usrsockdev_do_request(t, op, c, nonblock, marked)
  BY <1>5, RequestForm
<1> QED
  BY <1>3, <1>4, <1>5 DEF StartRequest

(* sendto() and recvfrom() wait for readiness.                             *)
LEMMA WaitReadyForm ==
  ASSUME ConnInv, NEW t \in Threads, NEW c \in Conns, NEW op \in IoCalls,
         NEW nonblock \in BOOLEAN, NEW cm, Kept(c, cm, conn[c].state),
         Begins(t, c, op), thr[t].pc = "idle" => conn[c].state = "READY",
         WaitReady(t, op, c, nonblock, cm), UNCHANGED lists
  PROVE  CallForm(t)
<1>1. Kept(c, conn', conn[c].state)
  BY KeptSetup DEF WaitReady
<1>2. thr' = [thr EXCEPT ![t] = AwaitingThread(op, c, nonblock)]
  BY DEF WaitReady, AwaitingThread
<1>3. op \in Requests
  BY DEF IoCalls, Requests
<1>4. Awaits(t, c, op)
  BY <1>1, <1>2 DEF Awaits, WaitReady
<1> QED
  BY <1>3, <1>4 DEF CallForm

(* One turn of the loop of sendto() or recvfrom().                         *)
LEMMA IoLoopForm ==
  ASSUME ConnInv, NEW t \in Threads, NEW c \in Conns, NEW op \in IoCalls,
         NEW nonblock \in BOOLEAN, NEW cm, Kept(c, cm, conn[c].state),
         Begins(t, c, op), thr[t].pc = "idle" => conn[c].state = "READY",
         IoLoop(t, op, c, nonblock, cm), UNCHANGED lists
  PROVE  CallForm(t)
<1>1. /\ op # "connect" /\ op \in Requests /\ Resumes(t) /\ InCall(t, c)
      /\ MayLeave(t, c, conn[c].state)
  BY BeginsFacts DEF IoCalls, Requests, MayLeave
<1>2. \A val : Reported(t, op, c, c, val)
  BY <1>1 DEF Reported
<1>3. CASE (\E val : Finish(t, op, c, val, cm)) /\ UNCHANGED dev
  BY <1>1, <1>2, <1>3, FinishForm
<1>4. CASE WaitReady(t, op, c, nonblock, cm)
  BY <1>4, WaitReadyForm
<1>5. CASE StartRequest(t, op, c, nonblock, cm, cm)
  <2>1. MayAsk(op, nonblock)
    BY <1>1 DEF MayAsk
  <2> QED
    BY <1>1, <1>5, <2>1, StartForm
<1> QED
  BY <1>3, <1>4, <1>5 DEF IoLoop

(* The facts about a new call on a connection.                             *)
LEMMA NewCall ==
  ASSUME ConnInv, NEW t \in Threads, NEW c \in Conns, MayUse(t, c)
  PROVE  /\ Resumes(t) /\ InCall(t, c) /\ MayLeave(t, c, conn[c].state)
         /\ Kept(c, conn, conn[c].state)
         /\ thr[t].conn = NoConn /\ thr[t].pc = "idle"
         /\ \A op : ~Unusable(c) /\ op # "socket" => Begins(t, c, op)
<1>1. thr[t].pc = "idle" /\ thr[t].conn = NoConn
  BY UseFacts DEF MayUse
<1> QED
  BY <1>1, KeptSame DEF Resumes, InCall, MayLeave, Begins

(* bind(), setsockopt(), getsockopt() and getsockname().                   *)
LEMMA SimpleForm ==
  ASSUME ConnInv, NEW t \in Threads, NEW c \in Conns, NEW op \in SimpleOps,
         SimpleRequest(t, op, c) \/ BadOption(t, op, c)
  PROVE  CallForm(t)
<1>1. /\ MayUse(t, c) /\ UNCHANGED lists /\ op \in Requests
      /\ op \notin {"socket", "connect"} /\ FALSE \in BOOLEAN
  BY DEF SimpleRequest, BadOption, Requests, SimpleOps
<1>2. /\ Resumes(t) /\ InCall(t, c) /\ MayLeave(t, c, conn[c].state)
      /\ Kept(c, conn, conn[c].state)
      /\ ~Unusable(c) => Begins(t, c, op)
      /\ \A val : Reported(t, op, c, c, val)
  BY <1>1, NewCall DEF Reported
<1>3. CASE (\E val : Finish(t, op, c, val, conn)) /\ UNCHANGED dev
  BY <1>1, <1>2, <1>3, FinishForm
<1>4. CASE ~Unusable(c) /\ StartRequest(t, op, c, FALSE, conn, conn)
  <2>1. MayAsk(op, FALSE)
    BY <1>1 DEF MayAsk
  <2> QED
    BY <1>1, <1>2, <1>4, <2>1, StartForm, NewCall
<1>5. CASE Finish(t, op, c, EINVAL, WithoutData(c, op, conn)) /\ UNCHANGED dev
  BY <1>1, <1>2, <1>5, FinishForm, KeptWithoutData, NewCall
<1> QED
  BY <1>3, <1>4, <1>5 DEF SimpleRequest, BadOption

(* usrsock_connect.                                                        *)
LEMMA ConnectForm ==
  ASSUME ConnInv, NEW t \in Threads, NEW c \in Conns, usrsock_connect(t, c)
  PROVE  CallForm(t)
<1>1. /\ MayUse(t, c) /\ UNCHANGED lists /\ "connect" \in Requests /\ "connect" \in Ops
  BY DEF usrsock_connect, Requests
<1>2. /\ Resumes(t) /\ InCall(t, c) /\ MayLeave(t, c, conn[c].state)
      /\ Kept(c, conn, conn[c].state)
  BY <1>1, NewCall
<1>3. CASE /\ UNCHANGED dev
           /\ \E val \in {EPIPE, ECONNREFUSED, EISCONN, EALREADY} :
                Finish(t, "connect", c, val, conn)
  <2>1. PICK val \in {EPIPE, ECONNREFUSED, EISCONN, EALREADY} :
          Finish(t, "connect", c, val, conn)
    BY <1>3
  <2>2. Reported(t, "connect", c, c, val)
    BY ErrnoDistinct DEF Reported
  <2> QED
    BY <1>1, <1>2, <1>3, <2>1, <2>2, FinishForm
<1>4. ASSUME NEW nonblock \in NonBlock, conn[c].state = "READY",
             StartRequest(t, "connect", c, nonblock, conn,
                          [conn EXCEPT ![c].state = "CONNECTING"])
      PROVE  CallForm(t)
  <2> DEFINE cr == [conn[c] EXCEPT !.state = "CONNECTING"]
  <2>1. nonblock \in BOOLEAN
    BY UsrsockAssumption DEF UsrsockAssumption
  <2>2. /\ cr \in ConnRecords /\ SameSocket(conn[c], cr) /\ cr.state = "CONNECTING"
        /\ cr.xid = conn[c].xid /\ cr.result = conn[c].result
    <3>1. conn[c] \in ConnRecords
      BY ConnFacts
    <3> QED
      BY <3>1 DEF ConnRecords, ConnStates, SameSocket
  <2>3. [conn EXCEPT ![c].state = "CONNECTING"] = [conn EXCEPT ![c] = cr]
    BY ConnFacts DEF ConnFun
  <2> HIDE DEF cr
  <2>4. Kept(c, [conn EXCEPT ![c] = cr], cr.state)
    BY <1>2, <2>2, KeptUpdate
  <2>5. Kept(c, [conn EXCEPT ![c].state = "CONNECTING"], "CONNECTING")
    BY <2>2, <2>3, <2>4
  <2>6. Begins(t, c, "connect") /\ thr[t].pc = "idle"
    <3>1. ~Unusable(c) /\ "connect" # "socket"
      BY <1>4 DEF Unusable
    <3> QED
      BY <1>1, <3>1, NewCall
  <2>7. MayAsk("connect", nonblock)
    BY <1>1 DEF MayAsk
  <2> QED
    BY <1>1, <1>2, <1>4, <2>1, <2>5, <2>6, <2>7, StartForm
<1> QED
  BY <1>3, <1>4 DEF usrsock_connect

(* sendto() and recvfrom().                                                *)
LEMMA IoCallForm ==
  ASSUME ConnInv, NEW t \in Threads, NEW c \in Conns, NEW op \in IoCalls,
         \/ IoCall(t, op, c)
         \/ SendtoWithAddress(t, c)
         \/ RecvfromBadBuffer(t, c)
  PROVE  CallForm(t)
<1>1. /\ MayUse(t, c) /\ UNCHANGED lists /\ op # "socket"
  BY DEF IoCall, SendtoWithAddress, RecvfromBadBuffer, IoCalls
<1>2. /\ Resumes(t) /\ InCall(t, c) /\ MayLeave(t, c, conn[c].state)
      /\ Kept(c, conn, conn[c].state)
      /\ \A o \in IoCalls : \A val : Reported(t, o, c, c, val)
  BY <1>1, NewCall DEF Reported, IoCalls
<1>3. CASE (\E o \in IoCalls : \E val : Finish(t, o, c, val, conn)) /\ UNCHANGED dev
  BY <1>1, <1>2, <1>3, FinishForm
<1>4. ASSUME NEW nonblock \in NonBlock, conn[c].state = "READY",
             IoLoop(t, op, c, nonblock, conn)
      PROVE  CallForm(t)
  <2>1. nonblock \in BOOLEAN
    BY UsrsockAssumption DEF UsrsockAssumption
  <2>2. ~Unusable(c)
    BY <1>4 DEF Unusable
  <2>3. Begins(t, c, op)
    BY <1>1, <2>2, NewCall
  <2> QED
    BY <1>1, <1>2, <1>4, <2>1, <2>3, IoLoopForm
<1>5. "sendto" \in IoCalls /\ "recvfrom" \in IoCalls
  BY DEF IoCalls
<1> QED
  BY <1>3, <1>4, <1>5 DEF IoCall, SendtoWithAddress, RecvfromBadBuffer

(* usrsock_free at the end of a failed socket().                           *)
LEMMA FailSocketForm ==
  ASSUME ConnInv, NEW t \in Threads, NEW c \in Conns, thr[t].conn = c,
         \/ thr[t].pc = "alloced"
         \/ Answer(t) /\ thr[t].op = "socket" /\ thr[t].result < 0,
         NEW err, NEW cm, NEW s, Kept(c, cm, s), FailSocket(t, c, err, cm), UNCHANGED dev
  PROVE  CallForm(t)
<1>1. cm \in ConnFun /\ \A d \in Conns \ {c} : cm[d] = conn[d]
  BY DEF Kept, OnlyConn
<1>2. conn' = [cm EXCEPT ![c] = ClearedConn] /\ ClearedConn \in ConnRecords
  BY ConstantTypes DEF FailSocket, usrsock_free
<1>3. conn'[c] = ClearedConn /\ OnlyConn(c, conn')
  BY <1>1, <1>2 DEF ConnFun, OnlyConn
<1>4. ret'.op = "socket" /\ thr' = [thr EXCEPT ![t] = IdleThread]
  BY DEF FailSocket
<1>5. DropsConn(t, c)
  BY <1>3, <1>4 DEF DropsConn
<1> QED
  BY <1>5 DEF CallForm

(* socket() up to usrsock_alloc.                                           *)
LEMMA SocketCallForm ==
  ASSUME ConnInv, NEW t \in Threads, SocketCall(t)
  PROVE  CallForm(t)
<1>1. thr[t].pc = "idle" /\ UNCHANGED dev
  BY DEF SocketCall
<1>2. CASE Finish(t, "socket", NoConn, ENOMEM, conn) /\ UNCHANGED lists
  <2>1. 1 \in Conns
    BY ConnAssumption DEF ConnAssumption, Conns
  <2>2. ret'.op = "socket" /\ conn' = conn /\ thr' = [thr EXCEPT ![t] = IdleThread]
    BY <1>2 DEF Finish
  <2>3. Ends(t, 1)
    BY <1>1, <1>2, <2>2 DEF Ends, Resumes, Reported
  <2> QED
    BY <2>1, <2>3 DEF CallForm
<1>3. ASSUME NEW c \in Conns, free # << >>, usrsock_alloc(t, c), ret' = NoReturn,
             thr' = [thr EXCEPT ![t] = [IdleThread EXCEPT !.pc = "alloced",
                                          !.op = "socket", !.conn = c]]
      PROVE  CallForm(t)
  <2>1. c \in Range(free)
    BY <1>3, ConnFacts, TailList DEF usrsock_alloc, ConnInv, ListInv
  <2>2. TakesConn(t, c)
    BY <1>1, <1>3, <2>1 DEF TakesConn, usrsock_alloc, MakingThread
  <2> QED
    BY <2>2 DEF CallForm
<1> QED
  BY <1>2, <1>3 DEF SocketCall

(* usrsock_socket: the request, or the connection is freed.                *)
LEMMA SocketForm ==
  ASSUME ConnInv, NEW t \in Threads, usrsock_socket(t)
  PROVE  CallForm(t)
<1> DEFINE c == thr[t].conn
<1>1. c \in Conns /\ thr[t].pc = "alloced" /\ Kept(c, conn, conn[c].state)
  BY ConnFacts, KeptSame DEF usrsock_socket
<1>2. /\ Begins(t, c, "socket") /\ "socket" \in Requests /\ FALSE \in BOOLEAN
      /\ MayAsk("socket", FALSE)
  BY <1>1 DEF Begins, Requests, MayAsk
<1>3. CASE /\ usrsockdev_is_opened
           /\ usrsockdev_do_request(t, "socket", c, FALSE, conn) /\ UNCHANGED lists
  <2> HIDE DEF c
  <2> QED
    BY <1>1, <1>2, <1>3, RequestForm
<1>4. ASSUME NEW err, FailSocket(t, c, err, conn), UNCHANGED dev
      PROVE  CallForm(t)
  BY <1>1, <1>4, FailSocketForm
<1> QED
  BY <1>3, <1>4 DEF usrsock_socket

(* close_out of usrsock_close.                                             *)
LEMMA CloseOutForm ==
  ASSUME ConnInv, NEW t \in Threads, NEW c \in Conns, NEW cm, NEW s, Kept(c, cm, s),
         \/ MayUse(t, c) /\ (\A u \in Threads \ {t} : thr[u].conn # c)
            /\ (Unusable(c) \/ ~usrsockdev_is_opened)
         \/ Answer(t) /\ thr[t].conn = c /\ thr[t].op = "close",
         CloseOut(t, c, cm), UNCHANGED <<lists, dev>>
  PROVE  CallForm(t)
<1> DEFINE cr == [cm[c] EXCEPT !.state = "UNINITIALIZED", !.usockid = -1]
<1>1. cm \in ConnFun /\ cm[c] \in ConnRecords /\ \A d \in Conns \ {c} : cm[d] = conn[d]
  BY DEF Kept, OnlyConn, ConnFun
<1>2. /\ cr \in ConnRecords /\ cr.connected = cm[c].connected /\ cr.xid = cm[c].xid
      /\ cr.inprogress = cm[c].inprogress /\ cr.result = cm[c].result
      /\ cr.owner = cm[c].owner /\ cr.state = "UNINITIALIZED" /\ cr.usockid = -1
  <2>1. ASSUME NEW x \in ConnRecords, NEW n \in Int
        PROVE  LET y == [x EXCEPT !.state = "UNINITIALIZED", !.usockid = n]
               IN  /\ y \in ConnRecords /\ y.connected = x.connected /\ y.xid = x.xid
                   /\ y.inprogress = x.inprogress /\ y.result = x.result
                   /\ y.owner = x.owner /\ y.state = "UNINITIALIZED" /\ y.usockid = n
    BY DEF ConnRecords, ConnStates
  <2>2. -1 \in Int
    OBVIOUS
  <2> QED
    BY <1>1, <2>1, <2>2, Zenon
<1>3. conn' = [cm EXCEPT ![c] = cr]
  BY <1>1 DEF CloseOut, ConnFun
<1> HIDE DEF cr
<1>4. conn'[c] = cr /\ OnlyConn(c, conn')
  BY <1>1, <1>2, <1>3 DEF ConnFun, OnlyConn
<1>5. thr' = [thr EXCEPT ![t] = ClosingThread(c)] /\ ret' = NoReturn
  BY DEF CloseOut, ClosingThread
<1>6. /\ conn'[c].connected = conn[c].connected /\ conn'[c].xid = conn[c].xid
      /\ conn'[c].inprogress = conn[c].inprogress /\ conn'[c].result = conn[c].result
      /\ conn'[c].owner = conn[c].owner
      /\ conn'[c].state = "UNINITIALIZED" /\ conn'[c].usockid = -1
  BY <1>2, <1>4 DEF Kept, SameSocket
<1>7. Shuts(t, c)
  BY <1>4, <1>5, <1>6 DEF Shuts
<1> QED
  BY <1>7 DEF CallForm

(* A change of the reference count changes nothing else.                   *)
LEMMA KeptCount ==
  ASSUME ConnInv, NEW c \in Conns, NEW n \in Nat
  PROVE  Kept(c, [conn EXCEPT ![c].crefs = n], conn[c].state)
<1> DEFINE cr == [conn[c] EXCEPT !.crefs = n]
<1>1. conn \in ConnFun /\ conn[c] \in ConnRecords
  BY ConnFacts
<1>2. /\ cr \in ConnRecords /\ SameSocket(conn[c], cr) /\ cr.xid = conn[c].xid
      /\ cr.result = conn[c].result /\ cr.state = conn[c].state
  BY <1>1 DEF ConnRecords, SameSocket
<1>3. [conn EXCEPT ![c].crefs = n] = [conn EXCEPT ![c] = cr]
  BY <1>1 DEF ConnFun
<1> HIDE DEF cr
<1>4. Kept(c, [conn EXCEPT ![c] = cr], cr.state)
  BY <1>2, KeptSame, KeptUpdate
<1> QED
  BY <1>2, <1>3, <1>4

(* usrsock_close.                                                          *)
LEMMA CloseForm ==
  ASSUME ConnInv, NEW t \in Threads, NEW c \in Conns, usrsock_close(t, c)
  PROVE  CallForm(t)
<1>1. /\ MayUse(t, c) /\ UNCHANGED lists /\ \A u \in Threads \ {t} : thr[u].conn # c
  BY DEF usrsock_close
<1>2. /\ Resumes(t) /\ InCall(t, c) /\ MayLeave(t, c, conn[c].state)
      /\ Kept(c, conn, conn[c].state)
      /\ \A val : Reported(t, "close", c, c, val)
  BY <1>1, NewCall DEF Reported
<1>3. CASE /\ conn[c].crefs > 1 /\ UNCHANGED dev
           /\ Finish(t, "close", c, 0, [conn EXCEPT ![c].crefs = @ - 1])
  <2>1. conn[c].crefs \in Nat /\ conn \in ConnFun
    BY ConnFacts
  <2>2. conn[c].crefs - 1 \in Nat
    BY <1>3, <2>1
  <2>3. [conn EXCEPT ![c].crefs = @ - 1] = [conn EXCEPT ![c].crefs = conn[c].crefs - 1]
    BY <2>1 DEF ConnFun
  <2>4. Kept(c, [conn EXCEPT ![c].crefs = @ - 1], conn[c].state)
    BY <2>2, <2>3, KeptCount
  <2> QED
    BY <1>1, <1>2, <1>3, <2>4, FinishForm
<1>4. CASE CloseOut(t, c, conn) /\ UNCHANGED dev /\ (Unusable(c) \/ ~usrsockdev_is_opened)
  BY <1>1, <1>2, <1>4, CloseOutForm
<1>5. CASE Finish(t, "close", c, EBUSY, conn) /\ UNCHANGED dev
  BY <1>1, <1>2, <1>5, FinishForm
<1>6. CASE ~Unusable(c) /\ usrsockdev_is_opened
           /\ usrsockdev_do_request(t, "close", c, FALSE, conn)
  <2>1. "close" \in Requests /\ FALSE \in BOOLEAN /\ MayAsk("close", FALSE)
    BY DEF Requests, MayAsk
  <2>2. Begins(t, c, "close")
    BY <1>1, <1>6, NewCall
  <2> QED
    BY <1>1, <1>2, <1>6, <2>1, <2>2, RequestForm
<1> QED
  BY <1>3, <1>4, <1>5, <1>6 DEF usrsock_close

(* psock_close frees the connection.                                       *)
LEMMA PsockCloseForm ==
  ASSUME ConnInv, NEW t \in Threads, psock_close(t)
  PROVE  CallForm(t)
<1> DEFINE c == thr[t].conn
<1>1. c \in Conns /\ thr[t].pc = "freeing" /\ conn \in ConnFun /\ ClearedConn \in ConnRecords
  BY ConnFacts, ConstantTypes DEF psock_close
<1>2. conn' = [conn EXCEPT ![c] = ClearedConn] /\ ret'.op = "close"
      /\ thr' = [thr EXCEPT ![t] = IdleThread] /\ UNCHANGED dev
  BY DEF psock_close, usrsock_free
<1>3. conn'[c] = ClearedConn /\ OnlyConn(c, conn')
  BY <1>1, <1>2 DEF ConnFun, OnlyConn
<1>4. DropsConn(t, c)
  BY <1>1, <1>2, <1>3 DEF DropsConn
<1> QED
  BY <1>1, <1>4 DEF CallForm

(* net_clone.                                                              *)
LEMMA CloneForm ==
  ASSUME ConnInv, NEW t \in Threads, NEW c \in Conns, net_clone(t, c)
  PROVE  CallForm(t)
<1>1. conn[c].crefs + 1 \in Nat /\ conn \in ConnFun
  BY ConnFacts
<1>2. conn' = [conn EXCEPT ![c].crefs = conn[c].crefs + 1]
  BY <1>1 DEF net_clone, ConnFun
<1>3. Kept(c, conn', conn[c].state)
  BY <1>1, <1>2, KeptCount
<1>4. Dups(t, c)
  BY <1>3 DEF Dups, net_clone
<1> QED
  BY <1>4 DEF CallForm

(* usrsock_pollsetup.                                                      *)
LEMMA PollsetupForm ==
  ASSUME ConnInv, NEW t \in Threads, NEW c \in Conns, NEW wanted \in PollMasks,
         usrsock_pollsetup(t, c, wanted)
  PROVE  CallForm(t)
<1>1. MayUse(t, c) /\ UNCHANGED <<lists, dev>>
  BY DEF usrsock_pollsetup
<1>2. /\ Resumes(t) /\ InCall(t, c) /\ MayLeave(t, c, conn[c].state)
      /\ Kept(c, conn, conn[c].state)
      /\ \A val : Reported(t, "poll", c, c, val)
  BY <1>1, NewCall DEF Reported
<1>3. CASE Finish(t, "poll", c, EBUSY, conn)
  BY <1>1, <1>2, <1>3, FinishForm
<1>4. CASE ~Finish(t, "poll", c, EBUSY, conn)
  <2>1. /\ conn' = [conn EXCEPT ![c] = SetupCallback(@, t)] /\ ret' = NoReturn
        /\ thr' = [thr EXCEPT ![t] = PollingThread(c, wanted)]
    BY <1>4 DEF usrsock_pollsetup, PollingThread
  <2>2. Kept(c, conn', conn[c].state)
    BY <1>2, <2>1, KeptSetup
  <2>3. Polls(t, c)
    BY <1>1, <2>1, <2>2 DEF Polls
  <2> QED
    BY <2>3 DEF CallForm
<1> QED
  BY <1>3, <1>4

(* The facts about a call that has waited on its connection.               *)
LEMMA OldCall ==
  ASSUME ConnInv, NEW t \in Threads, thr[t].pc # "idle"
  PROVE  /\ thr[t].conn \in Conns /\ InCall(t, thr[t].conn)
         /\ MayLeave(t, thr[t].conn, conn[thr[t].conn].state)
         /\ Kept(thr[t].conn, Released(thr[t].conn, t), conn[thr[t].conn].state)
<1>1. thr[t].conn \in Conns
  BY ConnFacts
<1> QED
  BY <1>1, KeptReleased DEF InCall, MayLeave

(* usrsock_pollteardown, and a connect() that a signal interrupts.         *)
LEMMA PollteardownForm ==
  ASSUME ConnInv, NEW t \in Threads, usrsock_pollteardown(t) \/ ConnectInterrupted(t)
  PROVE  CallForm(t)
<1> DEFINE c  == thr[t].conn
           cm == Released(c, t)
<1>1. thr[t].pc # "idle" /\ UNCHANGED <<lists, dev>> /\ Resumes(t)
  BY DEF usrsock_pollteardown, ConnectInterrupted, Resumes
<1>2. /\ c \in Conns /\ InCall(t, c) /\ MayLeave(t, c, conn[c].state)
      /\ Kept(c, cm, conn[c].state)
  BY <1>1, OldCall
<1>3. \E op, val : Finish(t, op, c, val, cm) /\ Reported(t, op, c, c, val)
  <2>1. CASE usrsock_pollteardown(t)
    <3>1. \A val : Reported(t, "poll", c, c, val)
      BY DEF Reported
    <3> QED
      BY <2>1, <3>1 DEF usrsock_pollteardown
  <2>2. CASE ConnectInterrupted(t)
    <3>1. Reported(t, "connect", c, c, EINTR)
      BY ErrnoDistinct DEF Reported
    <3> QED
      BY <2>2, <3>1 DEF ConnectInterrupted
  <2> QED
    BY <2>1, <2>2
<1> HIDE DEF c, cm
<1> QED
  BY <1>1, <1>2, <1>3, FinishForm

(* What a call waits for, and with which callback: readiness is for        *)
(* sendto() and recvfrom(), and who has a request under way is in a call   *)
(* that makes one. A callback is disarmed exactly when it wakes its call,  *)
(* but that of poll() stays armed.                                         *)
RequestFlags == {"ABORT", "REQ_COMPLETE"}
ReadyFlags(op) == {"ABORT", "REMOTE_CLOSED", ReadyEvent(op)}
PollFlags == ExternalEvents \cup {"CONNECT_RESP"}
RequestPlaces == {"reqwait", "linegot", "ackwait", "respwait"}

WaitRecord(s) ==
  /\ s.pc = "rdywait" => s.op \in IoCalls /\ s.cb \in {{}, ReadyFlags(s.op)}
  /\ s.pc = "pollwait" <=> s.op = "poll"
  /\ s.pc = "pollwait" => s.cb = PollFlags
  /\ s.pc \in RequestPlaces => s.op \in Requests /\ s.cb \in {{}, RequestFlags}
  /\ s.pc \in RequestPlaces \cup {"rdywait"} => (s.cb = {} <=> s.recvsem > 0)

WaitInv == \A t \in Threads : WaitRecord(thr[t])

(* The wait for readiness is over.                                         *)
LEMMA IoReadyForm ==
  ASSUME ConnInv, WaitInv, NEW t \in Threads, IoReady(t)
  PROVE  CallForm(t)
<1> DEFINE c  == thr[t].conn
           op == thr[t].op
           cm == Released(c, t)
<1>1. /\ thr[t].pc = "rdywait" /\ UNCHANGED lists /\ Resumes(t) /\ op \in IoCalls
      /\ thr[t].nonblock \in BOOLEAN
  BY ConnType DEF IoReady, Resumes, WaitInv, WaitRecord, ConnInv
<1>2. /\ c \in Conns /\ InCall(t, c) /\ MayLeave(t, c, conn[c].state)
      /\ Kept(c, cm, conn[c].state) /\ cm[c].state = conn[c].state
      /\ op # "connect" /\ op \in Requests /\ MayAsk(op, thr[t].nonblock)
      /\ \A val : Reported(t, op, c, c, val)
  BY <1>1, OldCall DEF Kept, IoCalls, Requests, Reported, MayAsk
<1>3. CASE (\E val : Finish(t, op, c, val, cm)) /\ UNCHANGED dev
  <2> HIDE DEF c, op, cm
  <2> QED
    BY <1>1, <1>2, <1>3, FinishForm
<1>4. CASE thr[t].recvsem > 0 /\ cm[c].state # "ABORTED"
           /\ StartRequest(t, op, c, thr[t].nonblock, cm, cm)
  <2>1. Begins(t, c, op)
    BY <1>1, <1>2, <1>4 DEF Begins
  <2> HIDE DEF c, op, cm
  <2> QED
    BY <1>1, <1>2, <1>4, <2>1, StartForm
<1> QED
  BY <1>3, <1>4 DEF IoReady

(* socket() has its answer.                                                *)
LEMMA SocketDoneForm ==
  ASSUME ConnInv, NEW t \in Threads, NEW c \in Conns, thr[t].conn = c, Answer(t),
         SocketDone(t, c), UNCHANGED dev
  PROVE  CallForm(t)
<1>1. Kept(c, Released(c, t), conn[c].state) /\ thr[t].op = "socket"
  BY KeptReleased DEF SocketDone
<1>2. CASE thr[t].result < 0 /\ FailSocket(t, c, thr[t].result, Released(c, t))
  BY <1>1, <1>2, FailSocketForm
<1>3. ASSUME NEW stream \in StreamTypes, UNCHANGED lists, thr[t].result >= 0,
             Finish(t, "socket", c, 0,
                    [conn EXCEPT ![c] = [TeardownCallback(@, t) EXCEPT
                       !.stream = stream, !.crefs = 1, !.owner = t]])
      PROVE  CallForm(t)
  <2> DEFINE tc == TeardownCallback(conn[c], t)
             cr == [tc EXCEPT !.stream = stream, !.crefs = 1, !.owner = t]
  <2>1. conn \in ConnFun /\ conn[c] \in ConnRecords /\ stream \in BOOLEAN
    BY ConnFacts, UsrsockAssumption DEF UsrsockAssumption
  <2>2. tc \in ConnRecords
    BY <2>1, CallbackType
  <2>3. Released(c, t)[c] = tc
    BY <2>1 DEF Released, ConnFun
  <2>4. conn' = [conn EXCEPT ![c] = cr] /\ thr' = [thr EXCEPT ![t] = IdleThread]
        /\ ret'.op = "socket"
    BY <1>3, <2>1 DEF Finish, ConnFun
  <2>5. /\ cr \in ConnRecords /\ cr.connected = tc.connected /\ cr.usockid = tc.usockid
        /\ cr.flags = tc.flags /\ cr.inprogress = tc.inprogress
        /\ cr.answered = tc.answered /\ cr.state = tc.state
        /\ cr.xid = tc.xid /\ cr.result = tc.result /\ cr.owner = t /\ cr.crefs = 1
    <3> HIDE DEF tc
    <3> QED
      BY <2>1, <2>2 DEF ConnRecords
  <2> HIDE DEF cr, tc
  <2>6. conn'[c] = cr /\ OnlyConn(c, conn')
    BY <2>1, <2>4, <2>5 DEF ConnFun, OnlyConn
  <2>7. /\ conn'[c].connected = conn[c].connected /\ conn'[c].usockid = conn[c].usockid
        /\ conn'[c].flags = conn[c].flags /\ conn'[c].inprogress = conn[c].inprogress
        /\ conn'[c].answered = conn[c].answered /\ conn'[c].state = conn[c].state
        /\ conn'[c].xid = conn[c].xid /\ conn'[c].result = conn[c].result
        /\ conn'[c].owner = t /\ conn'[c].crefs = 1
    BY <1>1, <2>3, <2>5, <2>6 DEF Kept, SameSocket
  <2>8. MakesSocket(t, c)
    BY <1>1, <1>3, <2>4, <2>6, <2>7 DEF MakesSocket
  <2> QED
    BY <2>8 DEF CallForm
<1> QED
  BY <1>2, <1>3 DEF SocketDone

(* A completed request.                                                    *)
LEMMA RequestDoneForm ==
  ASSUME ConnInv, NEW t \in Threads, RequestDone(t)
  PROVE  CallForm(t)
<1> DEFINE c  == thr[t].conn
           op == thr[t].op
           cm == Released(c, t)
<1>1. Answer(t) /\ Resumes(t) /\ thr[t].pc # "idle" /\ thr[t].nonblock \in BOOLEAN
  BY ConnType DEF RequestDone, Answer, Resumes, ConnInv
<1>2. /\ c \in Conns /\ InCall(t, c) /\ MayLeave(t, c, conn[c].state)
      /\ Kept(c, cm, conn[c].state)
  BY <1>1, OldCall
<1>3. CASE SocketDone(t, c) /\ UNCHANGED dev
  BY <1>1, <1>2, <1>3, SocketDoneForm
<1>4. CASE CloseDone(t, c) /\ UNCHANGED dev
  <2>1. CloseOut(t, c, cm) /\ UNCHANGED <<lists, dev>> /\ thr[t].op = "close" /\ thr[t].conn = c
    BY <1>4 DEF CloseDone
  <2> HIDE DEF c, cm, op
  <2> QED
    BY <1>1, <1>2, <2>1, CloseOutForm
<1>5. CASE (SimpleDone(t, c) \/ ConnectDone(t, c)) /\ UNCHANGED dev
  <2>1. PICK val : /\ \/ Finish(t, op, c, val, cm)
                      \/ Finish(t, op, c, val, WithoutData(c, op, cm))
                   /\ Reported(t, op, c, c, val)
    BY <1>5 DEF SimpleDone, ConnectDone, Reported
  <2>2. UNCHANGED <<lists, dev>>
    BY <1>5 DEF SimpleDone, ConnectDone
  <2> HIDE DEF c, cm, op
  <2>3. Kept(c, WithoutData(c, op, cm), conn[c].state)
    BY <1>2, KeptWithoutData
  <2> QED
    BY <1>1, <1>2, <2>1, <2>2, <2>3, FinishForm
<1>6. CASE IoDone(t, c)
  <2> DEFINE cw == WithoutData(c, op, cm)
  <2>1. Kept(c, cw, conn[c].state)
    <3> HIDE DEF c, cm, op
    <3> QED
      BY <1>2, KeptWithoutData
  <2>2. /\ UNCHANGED lists /\ op \in IoCalls
        /\ \/ (\E val : Finish(t, op, c, val, cw)) /\ UNCHANGED dev
           \/ IoLoop(t, op, c, thr[t].nonblock, cw)
    BY <1>6 DEF IoDone
  <2>3. /\ Begins(t, c, op)
        /\ \A val : Reported(t, op, c, c, val)
    BY <1>1, <2>2 DEF Begins, Reported, IoCalls
  <2> HIDE DEF c, cm, op, cw
  <2> QED
    BY <1>1, <1>2, <2>1, <2>2, <2>3, FinishForm, IoLoopForm
<1> QED
  BY <1>3, <1>4, <1>5, <1>6 DEF RequestDone

(* Every step of a thread has one of the forms, or is one of the three     *)
(* that only move a waiting call along.                                    *)
LEMMA ThreadForms ==
  ASSUME ConnInv, WaitInv, NEW t \in Threads, ThreadStep(t)
  PROVE  CallForm(t) \/ TakeLine(t) \/ LeaveLine(t) \/ net_timedwait(t)
<1>1. CASE ApiCall(t)
  <2>1. CASE SocketCall(t)
    BY <2>1, SocketCallForm
  <2>2. ASSUME NEW c \in Conns,
               \/ usrsock_close(t, c)
               \/ net_clone(t, c)
               \/ usrsock_connect(t, c)
               \/ \E wanted \in PollMasks : usrsock_pollsetup(t, c, wanted)
        PROVE  CallForm(t)
    BY <2>2, CloseForm, CloneForm, ConnectForm, PollsetupForm
  <2>3. ASSUME NEW c \in Conns,
               \/ usrsock_bind(t, c)
               \/ usrsock_setsockopt(t, c)
               \/ usrsock_getsockopt(t, c)
               \/ usrsock_getsockname(t, c)
        PROVE  CallForm(t)
    <3>1. {"bind", "setsockopt", "getsockopt", "getsockname"} = SimpleOps
      BY DEF SimpleOps
    <3> QED
      BY <2>3, <3>1, SimpleForm DEF usrsock_bind, usrsock_setsockopt, usrsock_getsockopt,
         usrsock_getsockname
  <2>4. ASSUME NEW c \in Conns, usrsock_sendto(t, c) \/ usrsock_recvfrom(t, c)
        PROVE  CallForm(t)
    <3>1. "sendto" \in IoCalls /\ "recvfrom" \in IoCalls
      BY DEF IoCalls
    <3> QED
      BY <2>4, <3>1, IoCallForm DEF usrsock_sendto, usrsock_recvfrom
  <2> QED
    BY <1>1, <2>1, <2>2, <2>3, <2>4 DEF ApiCall
<1>2. CASE ApiContinue(t)
  BY <1>2, SocketForm, PsockCloseForm, RequestDoneForm, PollteardownForm, IoReadyForm
     DEF ApiContinue
<1> QED
  BY <1>1, <1>2 DEF ThreadStep

-----------------------------------------------------------------------------
(* The forms of the daemon's step                                          *)

(* The events that no callback takes away from the callbacks after it, and *)
(* the connections on which at most one call is waiting.                   *)
Stopping == {"ABORT", "REQ_COMPLETE", "REMOTE_CLOSED"}
Alone(c) == \A u, v \in Range(conn[c].list) : u = v

(* What an event on c, that finds the connection as cr, does to thread t:  *)
(* nothing, or its handler runs, with the events the callbacks before it   *)
(* have left.                                                              *)
Hears(t, c, cr, ev) ==
  LET upd   == StateUpdate(cr, ev)
      cbs   == EventsToCallbacks(cr, ev)
      whole == cbs \cap Stopping # {} \/ Alone(c)
  IN  \/ /\ thr'[t] = thr[t]
         /\ whole /\ t \in Range(conn[c].list) => cbs \cap thr[t].cb = {}
      \/ /\ t \in Range(conn[c].list)
         /\ \E seen \in SUBSET cbs :
              /\ seen \cap thr[t].cb # {}
              /\ whole => seen = cbs
              /\ thr'[t] = Handler(thr[t], upd, seen)

(* usrsock_event and the callbacks.                                        *)
LEMMA EventHeard ==
  ASSUME ConnInv, NEW c \in Conns, NEW cr \in ConnRecords, cr.list = conn[c].list,
         NEW ev \in SUBSET Events, usrsock_event(c, cr, ev), NEW t \in Threads
  PROVE  Hears(t, c, cr, ev)
<1> DEFINE upd   == StateUpdate(cr, ev)
           cbs   == EventsToCallbacks(cr, ev)
           whole == cbs \cap Stopping # {} \/ Alone(c)
           list  == conn[c].list
           heard(i) == Seen(list, thr, cbs, i)
<1>1. thr' = devif_callback_execute(upd, thr, cbs)
  BY DEF usrsock_event
<1>2. upd.list = list
  BY DEF StateUpdate, ConnRecords
<1>3. list \in Seq(Threads) /\ Distinct(list)
  BY ConnFacts DEF ConnInv, CallbackInv
<1>4. Len(list) \in Nat
  BY <1>3, LenProperties
<1> HIDE DEF upd, cbs, list
<1>5. ASSUME NEW i \in 1 .. Len(list)
      PROVE  heard(i) \in SUBSET cbs /\ (whole => heard(i) = cbs) /\ list[i] \in Range(list)
  <2>1. list[i] \in Range(list)
    BY <1>3 DEF Range
  <2>2. ASSUME Alone(c), NEW j \in 1 .. (i - 1) PROVE FALSE
    <3>1. j \in 1 .. Len(list) /\ j # i
      BY <1>4
    <3>2. list[j] \in Range(list)
      BY <1>3, <3>1 DEF Range
    <3>3. list[j] = list[i]
      BY <2>1, <2>2, <3>2 DEF Alone, list
    <3> QED
      BY <1>3, <3>1, <3>3 DEF Distinct
  <2>3. Alone(c) => heard(i) = cbs
    BY <2>2 DEF Seen
  <2> QED
    BY <2>1, <2>3 DEF Seen, Stopping
<1>6. CASE t \in Fired(list, thr, cbs)
  <2>1. PICK j \in 1 .. Len(list) : list[j] = t /\ heard(j) \cap thr[t].cb # {}
    BY <1>6 DEF Fired
  <2> DEFINE i == CHOOSE k \in 1 .. Len(list) : list[k] = t
  <2>2. i \in 1 .. Len(list) /\ list[i] = t
    BY <2>1
  <2>3. i = j
    BY <1>3, <2>1, <2>2 DEF Distinct
  <2>4. thr'[t] = Handler(thr[t], upd, heard(j))
    <3>1. thr'[t] = Handler(thr[t], upd, heard(i))
      BY <1>1, <1>2, <1>6 DEF devif_callback_execute
    <3> QED
      BY <2>3, <3>1
  <2>5. heard(j) \in SUBSET cbs /\ (whole => heard(j) = cbs) /\ t \in Range(list)
    BY <1>5, <2>1
  <2> HIDE DEF i, heard
  <2> QED
    BY <2>1, <2>4, <2>5 DEF Hears, upd, cbs, list
<1>7. CASE t \notin Fired(list, thr, cbs)
  <2>1. thr'[t] = thr[t]
    BY <1>1, <1>2, <1>7 DEF devif_callback_execute
  <2>2. ASSUME whole, t \in Range(list) PROVE cbs \cap thr[t].cb = {}
    <3>1. PICK i \in 1 .. Len(list) : list[i] = t
      BY <1>3, <2>2 DEF Range
    <3>2. heard(i) = cbs
      BY <1>5, <2>2
    <3>3. ASSUME heard(i) \cap thr[t].cb # {} PROVE FALSE
      <4>1. t \in Fired(list, thr, cbs)
        BY <3>1, <3>3 DEF Fired
      <4> QED
        BY <1>7, <4>1
    <3> QED
      BY <3>2, <3>3
  <2> QED
    BY <2>1, <2>2 DEF Hears, upd, cbs, list
<1> QED
  BY <1>6, <1>7

(* What an event leaves of the connection it finds as cr.                  *)
EventLeaves(c, cr, ev) ==
  LET upd  == StateUpdate(cr, ev)
      cbs  == EventsToCallbacks(cr, ev)
      born == SocketBorn(upd, thr, cbs)
  IN  /\ OnlyConn(c, conn')
      /\ conn'[c].connected = upd.connected
      /\ conn'[c].state = IF born THEN "READY" ELSE upd.state
      /\ conn'[c].usockid = IF born THEN cr.result ELSE cr.usockid
      /\ conn'[c].flags = upd.flags \ UsedUp(upd, thr, cbs)
      /\ conn'[c].xid = cr.xid /\ conn'[c].inprogress = cr.inprogress
      /\ conn'[c].result = cr.result /\ conn'[c].owner = cr.owner
      /\ conn'[c].stream = cr.stream /\ conn'[c].answered = cr.answered
      /\ conn'[c].datain = cr.datain

(* usrsock_event and what the handlers change in the connection.           *)
LEMMA EventLeft ==
  ASSUME ConnInv, NEW c \in Conns, NEW cr \in ConnRecords, NEW ev \in SUBSET Events,
         usrsock_event(c, cr, ev)
  PROVE  EventLeaves(c, cr, ev)
<1> DEFINE upd  == StateUpdate(cr, ev)
           cbs  == EventsToCallbacks(cr, ev)
           born == SocketBorn(upd, thr, cbs)
           used == UsedUp(upd, thr, cbs)
           new  == HandlerEffects(upd, thr, cbs)
<1>1. conn' = [conn EXCEPT ![c] = new]
  BY DEF usrsock_event
<1>2. /\ upd.xid = cr.xid /\ upd.inprogress = cr.inprogress /\ upd.result = cr.result
      /\ upd.owner = cr.owner /\ upd.stream = cr.stream /\ upd.answered = cr.answered
      /\ upd.datain = cr.datain /\ upd.usockid = cr.usockid
  BY DEF StateUpdate, ConnRecords
<1>3. upd \in ConnRecords
  BY StateUpdateType
<1> HIDE DEF upd, cbs
<1>4. new \in ConnRecords
  BY <1>3, HandlerEffectsType
<1>5. /\ new.connected = upd.connected /\ new.state = IF born THEN "READY" ELSE upd.state
      /\ new.usockid = IF born THEN upd.result ELSE upd.usockid
      /\ new.flags = upd.flags \ used
      /\ new.xid = upd.xid /\ new.inprogress = upd.inprogress /\ new.result = upd.result
      /\ new.owner = upd.owner /\ new.stream = upd.stream /\ new.answered = upd.answered
      /\ new.datain = upd.datain
  <2> HIDE DEF born, used
  <2>1. new = [upd EXCEPT !.state = IF born THEN "READY" ELSE @,
                          !.usockid = IF born THEN upd.result ELSE @,
                          !.flags = @ \ used]
    BY DEF HandlerEffects, born, used
  <2> QED
    BY <1>3, <2>1 DEF ConnRecords
<1> HIDE DEF new, born, used
<1>6. conn'[c] = new /\ OnlyConn(c, conn')
  BY <1>1, <1>4, ConnFacts DEF ConnFun, OnlyConn
<1> QED
  BY <1>2, <1>5, <1>6 DEF EventLeaves, upd, cbs, born, used

(* The connection record cr that a response, its data, an event message or *)
(* the end of the daemon makes of c before the event is raised.            *)
Finds(c, cr) ==
  /\ cr \in ConnRecords
  /\ cr.list = conn[c].list /\ cr.crefs = conn[c].crefs /\ cr.state = conn[c].state
  /\ cr.connected = conn[c].connected /\ cr.stream = conn[c].stream
  /\ cr.usockid = conn[c].usockid /\ cr.flags = conn[c].flags
  /\ cr.owner = conn[c].owner
  /\ cr.xid \in {0, conn[c].xid}
  /\ cr.inprogress => cr.xid = conn[c].xid /\ (conn[c].inprogress \/ conn[c].xid # 0)
  /\ cr.result = conn[c].result \/ cr.result \in Results \cup Nat \cup {EINVAL}

(* The semaphore of the line is given to thread t, or nothing is.          *)
MovesUp(t) ==
  \/ thr'[t] = thr[t]
  \/ thr[t].pc = "reqwait" /\ thr'[t] = [thr[t] EXCEPT !.pc = "linegot"]

Notes(c) ==
  /\ \E cr \in ConnRecords : Finds(c, cr) /\ conn' = [conn EXCEPT ![c] = cr]
  /\ thr' = thr

Raises(c) ==
  \E cr \in ConnRecords, ev \in SUBSET Events :
    /\ Finds(c, cr)
    /\ ev = {"REQ_COMPLETE"} \/ ev \subseteq ExternalEvents
    /\ usrsock_event(c, cr, ev)

DaemonForm ==
  \/ conn' = conn /\ \A t \in Threads : MovesUp(t)
  \/ \E c \in Conns : Notes(c) \/ Raises(c)

(* The lookup of usrsockdev_handle_req_response finds a connection that    *)
(* waits for this response.                                                *)
LEMMA WaitingConnXid ==
  ASSUME ConnInv, NEW xid, WaitingConn(xid) # NoConn
  PROVE  WaitingConn(xid) \in Conns /\ conn[WaitingConn(xid)].xid = xid
<1> DEFINE I == {i \in 1 .. Len(active) : conn[active[i]].xid = xid}
<1>1. I \in SUBSET Nat
  BY LenProperties, ConnFacts
<1>2. I # {} => Min(I) \in I
  BY <1>1, MinInSet
<1>3. WaitingConn(xid) = IF I = {} \/ Min(I) = 0 THEN NoConn ELSE active[Min(I)]
  BY DEF WaitingConn, SelectInSeq
<1> QED
  BY <1>2, <1>3, ElementOfSeq, ConnFacts

(* What a final response leaves in the connection.                         *)
LEMMA AnsweredFields ==
  ASSUME NEW cr \in ConnRecords, NEW r \in PendingRequests, NEW result \in Int
  PROVE  LET a == Answered(cr, r, result)
         IN  /\ a \in ConnRecords
             /\ a.list = cr.list /\ a.crefs = cr.crefs /\ a.state = cr.state
             /\ a.connected = cr.connected /\ a.stream = cr.stream
             /\ a.usockid = cr.usockid /\ a.flags = cr.flags /\ a.owner = cr.owner
             /\ a.datain = cr.datain
             /\ ~a.inprogress /\ a.xid = 0 /\ a.result = result
             /\ a.answered = [th |-> r.th, op |-> r.op]
<1>1. Answered(cr, r, result) \in ConnRecords
  BY AnsweredType
<1> QED
  BY <1>1 DEF Answered, ConnRecords

(* The results the daemon answers with.                                    *)
LEMMA AnswersRange ==
  ASSUME ConnInv, NEW r \in dmn.pend, NEW result \in Answers(r)
  PROVE  result \in Results \cup Nat /\ result \in Int
<1>1. result \in Results \cup Nat
  BY ConnAssumption DEF Answers, ConnAssumption
<1> QED
  BY <1>1, UsrsockAssumption DEF UsrsockAssumption

(* Responses.                                                              *)
LEMMA ResponseForm ==
  ASSUME ConnInv, NEW r \in dmn.pend, RespondInProgress(r) \/ RespondFinally(r)
  PROVE  DaemonForm
<1> DEFINE c == WaitingConn(r.xid)
<1>1. /\ r \in PendingRequests /\ {"REQ_COMPLETE"} \in SUBSET Events /\ r.xid # 0
  BY DevUnchanged, NoConnFacts DEF DmnRecords, ConnInv, Events, InternalEvents, PendingRequests
<1>2. CASE c = NoConn
  <2>1. UNCHANGED <<conn, thr>>
    BY <1>2 DEF RespondInProgress, RespondFinally
  <2> QED
    BY <2>1 DEF DaemonForm, MovesUp
<1>3. CASE RespondInProgress(r) /\ c # NoConn
  <2> DEFINE cr == [conn[c] EXCEPT !.inprogress = TRUE]
  <2>1. c \in Conns /\ conn[c].xid = r.xid
    BY <1>3, WaitingConnXid
  <2>2. conn[c] \in ConnRecords
    BY <2>1, ConnFacts
  <2>3. conn' = [conn EXCEPT ![c] = cr] /\ thr' = thr
    BY <1>3, <2>1, ConnFacts DEF RespondInProgress, ConnFun
  <2>4. Finds(c, cr)
    <3> HIDE DEF c
    <3> QED
      BY <1>1, <2>1, <2>2 DEF ConnRecords, Finds
  <2> HIDE DEF cr, c
  <2>5. Notes(c)
    BY <2>3, <2>4 DEF Notes, Finds
  <2> QED
    BY <2>1, <2>5 DEF DaemonForm
<1>4. CASE RespondFinally(r) /\ c # NoConn
  <2>1. PICK result \in Answers(r), fits \in {TRUE, ~FaultyDaemon} :
          \/ usrsockdev_handle_response(c, r, result)
          \/ usrsockdev_handle_datareq_response(c, r, result, fits)
    BY <1>4 DEF RespondFinally
  <2> DEFINE cr == Answered(conn[c], r, result)
  <2>2. c \in Conns /\ result \in Int /\ result \in Results \cup Nat
    BY <1>4, WaitingConnXid, AnswersRange
  <2>3. conn[c] \in ConnRecords
    BY <2>2, ConnFacts
  <2>4. Finds(c, cr)
    <3> HIDE DEF c
    <3>1. /\ cr \in ConnRecords
          /\ cr.list = conn[c].list /\ cr.crefs = conn[c].crefs /\ cr.state = conn[c].state
          /\ cr.connected = conn[c].connected /\ cr.stream = conn[c].stream
          /\ cr.usockid = conn[c].usockid /\ cr.flags = conn[c].flags
          /\ cr.owner = conn[c].owner /\ cr.datain = conn[c].datain
          /\ ~cr.inprogress /\ cr.xid = 0 /\ cr.result = result
          /\ cr.answered = [th |-> r.th, op |-> r.op]
      BY <1>1, <2>2, <2>3, AnsweredFields
    <3> HIDE DEF cr
    <3> QED
      BY <2>2, <3>1 DEF Finds
  <2>5. \/ usrsock_event(c, cr, {"REQ_COMPLETE"})
        \/ conn' = [conn EXCEPT ![c] = cr] /\ thr' = thr
    BY <2>1 DEF usrsockdev_handle_response, usrsockdev_handle_datareq_response
  <2> HIDE DEF c, cr
  <2>6. Notes(c) \/ Raises(c)
    BY <1>1, <2>4, <2>5 DEF Notes, Raises, Finds
  <2> QED
    BY <2>2, <2>6 DEF DaemonForm
<1> QED
  BY <1>2, <1>3, <1>4

(* The write of the data of a response, one connection of the walk of      *)
(* usrsockdev_close, and an event message.                                 *)
LEMMA EventForm ==
  ASSUME ConnInv, usrsockdev_write \/ CloseAbort \/ DeliverEvent
  PROVE  DaemonForm
<1>1. ASSUME NEW c \in Conns, NEW cr \in ConnRecords, Finds(c, cr), NEW ev \in SUBSET Events,
             ev = {"REQ_COMPLETE"} \/ ev \subseteq ExternalEvents, usrsock_event(c, cr, ev)
      PROVE  DaemonForm
  BY <1>1 DEF DaemonForm, Raises
<1>2. {"REQ_COMPLETE"} \in SUBSET Events /\ {"ABORT"} \in SUBSET Events
      /\ {"ABORT"} \subseteq ExternalEvents /\ SUBSET ExternalEvents \subseteq SUBSET Events
  BY DEF Events, InternalEvents, ExternalEvents
<1>3. ASSUME NEW c \in Conns
      PROVE  /\ conn[c] \in ConnRecords /\ Finds(c, conn[c])
             /\ \A e \in Int : [conn[c] EXCEPT !.result = e] \in ConnRecords
             /\ [conn[c] EXCEPT !.inprogress = FALSE, !.xid = 0] \in ConnRecords
             /\ Finds(c, [conn[c] EXCEPT !.result = EINVAL])
             /\ Finds(c, [conn[c] EXCEPT !.inprogress = FALSE, !.xid = 0])
  <2>1. conn[c] \in ConnRecords /\ EINVAL \in Int
    BY ConnFacts, ErrnoTypes
  <2>2. Finds(c, conn[c])
    BY <2>1 DEF Finds, ConnRecords
  <2>3. /\ \A e \in Int : [conn[c] EXCEPT !.result = e] \in ConnRecords
        /\ [conn[c] EXCEPT !.inprogress = FALSE, !.xid = 0] \in ConnRecords
    BY <2>1 DEF ConnRecords
  <2>4. Finds(c, [conn[c] EXCEPT !.result = EINVAL])
    <3> DEFINE cr == [conn[c] EXCEPT !.result = EINVAL]
    <3>1. cr \in ConnRecords
      BY <2>1, <2>3
    <3>2. /\ cr.list = conn[c].list /\ cr.crefs = conn[c].crefs /\ cr.state = conn[c].state
          /\ cr.connected = conn[c].connected /\ cr.stream = conn[c].stream
          /\ cr.usockid = conn[c].usockid /\ cr.flags = conn[c].flags
          /\ cr.owner = conn[c].owner /\ cr.inprogress = conn[c].inprogress
          /\ cr.xid = conn[c].xid /\ cr.result = EINVAL
      <4>1. ASSUME NEW x \in ConnRecords, NEW e \in Int
            PROVE  LET y == [x EXCEPT !.result = e]
                   IN  /\ y.list = x.list /\ y.crefs = x.crefs /\ y.state = x.state
                       /\ y.connected = x.connected /\ y.stream = x.stream
                       /\ y.usockid = x.usockid /\ y.flags = x.flags
                       /\ y.owner = x.owner /\ y.inprogress = x.inprogress
                       /\ y.xid = x.xid /\ y.result = e
        BY DEF ConnRecords
      <4> QED
        BY <2>1, <4>1
    <3> HIDE DEF cr
    <3>3. Finds(c, cr)
      BY <3>1, <3>2 DEF Finds
    <3> QED
      BY <3>3 DEF cr
  <2>5. Finds(c, [conn[c] EXCEPT !.inprogress = FALSE, !.xid = 0])
    BY <2>1, <2>3 DEF Finds, ConnRecords
  <2> QED
    BY <2>1, <2>2, <2>3, <2>4, <2>5
<1>4. CASE usrsockdev_write
  <2>1. dev.datain \in Conns /\ WriteData(dev.datain)
    BY <1>4, DevUnchanged DEF usrsockdev_write, DevRecords, ConnInv
  <2>2. \/ usrsock_event(dev.datain, [conn[dev.datain] EXCEPT !.result = EINVAL], {"REQ_COMPLETE"})
        \/ usrsock_event(dev.datain, conn[dev.datain], {"REQ_COMPLETE"})
    BY <2>1 DEF WriteData
  <2> QED
    BY <1>1, <1>2, <1>3, <2>1, <2>2, ErrnoTypes
<1>5. CASE CloseAbort
  <2>1. dmn.conn \in Conns
        /\ usrsock_event(dmn.conn, [conn[dmn.conn] EXCEPT !.inprogress = FALSE, !.xid = 0],
                         {"ABORT"})
    BY <1>5, DevUnchanged DEF CloseAbort, DmnRecords, ConnInv
  <2> QED
    BY <1>1, <1>2, <1>3, <2>1
<1>6. CASE DeliverEvent
  <2>1. /\ dmn.conn \in Conns /\ usrsock_event(dmn.conn, conn[dmn.conn], dmn.ev)
        /\ dmn.ev \in SUBSET ExternalEvents
    BY <1>6, DevUnchanged DEF DeliverEvent, DmnRecords, ConnInv, Inv, PlaceInv
  <2> QED
    BY <1>1, <1>2, <1>3, <2>1
<1> QED
  BY <1>4, <1>5, <1>6

(* usrsockdev_semgive moves at most one waiter up.                         *)
LEMMA SemgiveMoves ==
  ASSUME NEW th \in [Threads -> ThreadRecords], NEW dv, NEW dm,
         usrsockdev_semgive(th, dv, dm), NEW u \in Threads
  PROVE  \/ thr'[u] = th[u]
         \/ th[u].pc = "reqwait" /\ thr'[u] = [th[u] EXCEPT !.pc = "linegot"]
BY DEF usrsockdev_semgive

(* Every step of the daemon has one of the forms.                          *)
LEMMA DaemonForms ==
  ASSUME ConnInv, DaemonStep
  PROVE  DaemonForm /\ ret' = NoReturn
<1>1. ret' = NoReturn
  BY DEF DaemonStep, usrsockdev_open, PollSetup, PollTeardown, usrsockdev_read,
     usrsockdev_handle_req_response, usrsockdev_write, usrsockdev_handle_event,
     DeliverEvent, CloseBegin, CloseAbort, CloseNext, CloseDown, CloseTimeout,
     CloseEnd, CloseLoop
<1>2. CASE \/ usrsockdev_open \/ PollSetup \/ PollTeardown \/ usrsockdev_read
           \/ usrsockdev_handle_event \/ CloseBegin \/ CloseNext \/ CloseDown
           \/ CloseTimeout
  <2>1. UNCHANGED <<conn, thr>>
    BY <1>2 DEF usrsockdev_open, PollSetup, PollTeardown, usrsockdev_read,
       usrsockdev_handle_event, CloseBegin, CloseNext, CloseDown, CloseTimeout
  <2> QED
    BY <1>1, <2>1 DEF DaemonForm, MovesUp
<1>3. CASE \E t \in Threads : usrsockdev_handle_req_response(t)
  BY <1>1, <1>3, ResponseForm DEF usrsockdev_handle_req_response
<1>4. CASE CloseEnd \/ CloseLoop
  <2>1. conn' = conn /\ thr \in [Threads -> ThreadRecords]
    BY <1>4, ConnFacts DEF CloseEnd, CloseLoop
  <2>2. \/ thr' = thr
        \/ \E dv, dm : usrsockdev_semgive(thr, dv, dm)
        \/ \E u \in Threads : thr[u].pc = "reqwait" /\ thr' = [thr EXCEPT ![u].pc = "linegot"]
    BY <1>4 DEF CloseEnd, CloseLoop
  <2>3. \A t \in Threads : MovesUp(t)
    BY <2>1, <2>2, SemgiveMoves DEF MovesUp
  <2> QED
    BY <1>1, <2>1, <2>3 DEF DaemonForm
<1> QED
  BY <1>1, <1>2, <1>3, <1>4, EventForm DEF DaemonStep

-----------------------------------------------------------------------------
(* The waits                                                               *)

(* The records of the waiting calls.                                       *)
LEMMA WaitingThreads ==
  ASSUME NEW c \in Conns, NEW op \in Requests, NEW nonblock \in BOOLEAN
  PROVE  /\ AskingThread(op, c, nonblock) \in ThreadRecords
         /\ AskingThread(op, c, nonblock).pc = LineWait
         /\ AskingThread(op, c, nonblock).op = op
         /\ AskingThread(op, c, nonblock).conn = c
         /\ AskingThread(op, c, nonblock).nonblock = nonblock
         /\ AskingThread(op, c, nonblock).cb = RequestFlags
         /\ AskingThread(op, c, nonblock).recvsem = 0
         /\ AskingThread(op, c, nonblock).result = EAGAIN
         /\ AskingThread(op, c, nonblock).wake = "no"
         /\ AskingThread(op, c, nonblock).from = NoRequest
         /\ AwaitingThread(op, c, nonblock) \in ThreadRecords
         /\ AwaitingThread(op, c, nonblock).pc = "rdywait"
         /\ AwaitingThread(op, c, nonblock).op = op
         /\ AwaitingThread(op, c, nonblock).conn = c
         /\ AwaitingThread(op, c, nonblock).cb = ReadyFlags(op)
         /\ AwaitingThread(op, c, nonblock).recvsem = 0
         /\ AwaitingThread(op, c, nonblock).result = EAGAIN
         /\ AwaitingThread(op, c, nonblock).wake = "no"
         /\ AwaitingThread(op, c, nonblock).from = NoRequest
<1>1. /\ RequestFlags \in SUBSET Events /\ ReadyFlags(op) \in SUBSET Events
      /\ LineWait \in Places /\ "rdywait" \in Places /\ op \in ApiCalls \cup {"none"}
  BY DEF RequestFlags, ReadyFlags, ReadyEvent, Events, InternalEvents, ExternalEvents,
     DataEvents, LineWait, Places, ApiCalls
<1>2. ASSUME NEW flags \in SUBSET Events, NEW pc \in Places
      PROVE  LET r == [Armed(op, c, nonblock, flags) EXCEPT !.pc = pc]
             IN  /\ r \in ThreadRecords /\ r.pc = pc /\ r.op = op /\ r.conn = c /\ r.cb = flags /\ r.nonblock = nonblock
                 /\ r.recvsem = 0 /\ r.result = EAGAIN /\ r.wake = "no" /\ r.from = NoRequest
  <2>1. [Armed(op, c, nonblock, flags) EXCEPT !.pc = pc] \in ThreadRecords
    BY <1>1, ArmedType
  <2> QED
    BY <2>1 DEF Armed, IdleThread
<1>3. /\ AskingThread(op, c, nonblock) =
           [Armed(op, c, nonblock, RequestFlags) EXCEPT !.pc = LineWait]
      /\ AwaitingThread(op, c, nonblock) =
           [Armed(op, c, nonblock, ReadyFlags(op)) EXCEPT !.pc = "rdywait"]
  BY DEF AskingThread, AwaitingThread, RequestFlags, ReadyFlags
<1>4. LET r == [Armed(op, c, nonblock, RequestFlags) EXCEPT !.pc = LineWait]
      IN  /\ r \in ThreadRecords /\ r.pc = LineWait /\ r.op = op /\ r.conn = c /\ r.cb = RequestFlags /\ r.nonblock = nonblock
          /\ r.recvsem = 0 /\ r.result = EAGAIN /\ r.wake = "no" /\ r.from = NoRequest
  BY <1>1, <1>2
<1>5. LET r == [Armed(op, c, nonblock, ReadyFlags(op)) EXCEPT !.pc = "rdywait"]
      IN  /\ r \in ThreadRecords /\ r.pc = "rdywait" /\ r.op = op /\ r.conn = c /\ r.cb = ReadyFlags(op)
          /\ r.recvsem = 0 /\ r.result = EAGAIN /\ r.wake = "no" /\ r.from = NoRequest
  BY <1>1, <1>2
<1> QED
  BY <1>3, <1>4, <1>5

(* The records of poll(), of socket() after usrsock_alloc, of close()      *)
(* before usrsock_free, and of no call.                                    *)
LEMMA OtherThreads ==
  ASSUME NEW c \in Conns, NEW wanted
  PROVE  /\ PollingThread(c, wanted).pc = "pollwait"
         /\ PollingThread(c, wanted).op = "poll"
         /\ PollingThread(c, wanted).conn = c
         /\ PollingThread(c, wanted).cb = PollFlags
         /\ PollingThread(c, wanted).events = wanted
         /\ PollingThread(c, wanted).revents = PollState(conn[c], wanted)
         /\ PollingThread(c, wanted).from = NoRequest
         /\ MakingThread(c).pc = "alloced"
         /\ MakingThread(c).op = "socket" /\ MakingThread(c).conn = c
         /\ MakingThread(c).from = NoRequest
         /\ ClosingThread(c).pc = "freeing"
         /\ ClosingThread(c).op = "close" /\ ClosingThread(c).conn = c
         /\ ClosingThread(c).from = NoRequest
         /\ IdleThread.pc = "idle" /\ IdleThread.op = "none" /\ IdleThread.conn = NoConn
         /\ IdleThread.from = NoRequest
BY DEF PollingThread, Armed, IdleThread, PollFlags, MakingThread, ClosingThread

(* The handler of a request or of a wait for readiness wakes its call. The *)
(* result of a connect() is the daemon's answer, or that it was aborted.   *)
LEMMA HandlerWakes ==
  ASSUME NEW s \in ThreadRecords, NEW cr \in ConnRecords, NEW seen, s.op \in Requests,
         \/ seen \cap RequestFlags # {}
         \/ s.op \in IoCalls /\ seen \cap ReadyFlags(s.op) # {}
  PROVE  LET h == Handler(s, cr, seen)
         IN  /\ h.cb = {} /\ h.recvsem = s.recvsem + 1 /\ h.wake = s.wake
             /\ \/ h.from = s.from
                \/ "REQ_COMPLETE" \in seen /\ h.from = cr.answered
             /\ s.op = "connect" => h.result = IF "ABORT" \in seen THEN ECONNABORTED
                                               ELSE cr.result
<1>1. ASSUME NEW e
      PROVE  /\ Wakeup(s, e).cb = {} /\ Wakeup(s, e).recvsem = s.recvsem + 1
             /\ Wakeup(s, e).wake = s.wake /\ Wakeup(s, e).from = s.from
             /\ Wakeup(s, e).result = e
  BY DEF Wakeup, ThreadRecords
<1>2. /\ Completed(s, cr).cb = {} /\ Completed(s, cr).recvsem = s.recvsem + 1
      /\ Completed(s, cr).wake = s.wake /\ Completed(s, cr).from = cr.answered
      /\ Completed(s, cr).result = cr.result
  BY DEF Completed, Wakeup, ThreadRecords
<1>3. CASE seen \cap RequestFlags # {}
  <2>1. "ABORT" \in seen \/ "REQ_COMPLETE" \in seen
    BY <1>3 DEF RequestFlags
  <2>2. \/ "ABORT" \in seen /\ RequestEvent(s, cr, seen) = Wakeup(s, ECONNABORTED)
        \/ /\ "ABORT" \notin seen /\ "REQ_COMPLETE" \in seen
           /\ RequestEvent(s, cr, seen) = Completed(s, cr)
    BY <2>1 DEF RequestEvent
  <2>3. \/ Handler(s, cr, seen) = RequestEvent(s, cr, seen)
        \/ s.op = "socket" /\ Handler(s, cr, seen) = Wakeup(s, ENETDOWN)
    BY <2>1 DEF Handler, socket_event, close_event, bind_event, connect_event,
       setsockopt_event, getsockopt_event, getsockname_event, sendto_event,
       recvfrom_event, IoEvent, Requests
  <2> QED
    BY <1>1, <1>2, <2>2, <2>3
<1>4. CASE seen \cap RequestFlags = {} /\ s.op \in IoCalls /\ seen \cap ReadyFlags(s.op) # {}
  <2>1. "ABORT" \notin seen /\ "REQ_COMPLETE" \notin seen
    BY <1>4 DEF RequestFlags
  <2>2. "REMOTE_CLOSED" \in seen \/ ReadyEvent(s.op) \in seen
    BY <1>4, <2>1 DEF ReadyFlags
  <2>3. Handler(s, cr, seen) = IoEvent(s, cr, seen, ReadyEvent(s.op))
    BY <1>4 DEF Handler, sendto_event, recvfrom_event, IoCalls, ReadyEvent
  <2>4. Handler(s, cr, seen) \in {Wakeup(s, EPIPE), Wakeup(s, s.result)}
    BY <2>1, <2>2, <2>3 DEF IoEvent
  <2>5. s.op # "connect"
    BY <1>4 DEF IoCalls
  <2> QED
    BY <1>1, <2>4, <2>5
<1> QED
  BY <1>3, <1>4

(* poll_event leaves the callback armed.                                   *)
LEMMA HandlerPolls ==
  ASSUME NEW s \in ThreadRecords, NEW cr, NEW seen, s.op = "poll"
  PROVE  LET h == Handler(s, cr, seen)
         IN  /\ h.cb = s.cb /\ h.recvsem = s.recvsem /\ h.wake = s.wake
             /\ h.from = s.from /\ h.events = s.events
             /\ s.revents \subseteq h.revents
<1>1. Handler(s, cr, seen) = poll_event(s, cr, seen)
  BY DEF Handler
<1> QED
  BY <1>1 DEF poll_event, ThreadRecords

(* What the steps on the request line do to the threads. A non-blocking    *)
(* connect() in progress leaves its call there.                            *)
LineMoves(t) ==
  /\ \A u \in Threads \ {t} : MovesUp(u)
  /\ thr[t].pc \in {"linegot", "ackwait"}
  /\ \/ /\ \E p \in {"ackwait", "respwait"} : thr'[t] = [thr[t] EXCEPT !.pc = p]
        /\ conn' = conn /\ ret' = NoReturn
     \/ /\ thr[t].op = "connect" /\ conn[thr[t].conn].inprogress /\ thr[t].nonblock
        /\ thr'[t] = IdleThread
        /\ conn' = Released(thr[t].conn, t)
        /\ ret' = [th |-> t, op |-> "connect", conn |-> thr[t].conn, val |-> EINPROGRESS]

(* usrsockdev_do_request after it has got the line, and after the          *)
(* acknowledgment.                                                         *)
LEMMA LineForm ==
  ASSUME ConnInv, NEW t \in Threads, TakeLine(t) \/ LeaveLine(t)
  PROVE  LineMoves(t)
<1> DEFINE c     == thr[t].conn
           early == thr[t].op = "connect" /\ conn[c].inprogress /\ thr[t].nonblock
           r     == IF early THEN IdleThread ELSE [thr[t] EXCEPT !.pc = "respwait"]
           th    == [thr EXCEPT ![t] = r]
<1>1. /\ thr \in [Threads -> ThreadRecords] /\ thr[t] \in ThreadRecords
      /\ thr[t].pc \in {"linegot", "ackwait"}
  BY ConnFacts DEF TakeLine, LeaveLine
<1>2. CASE \E dv : AfterRequest(t, dv)
  <2>1. /\ conn' = IF early THEN Released(c, t) ELSE conn
        /\ ret'  = IF early THEN [th |-> t, op |-> "connect", conn |-> c, val |-> EINPROGRESS]
                   ELSE NoReturn
        /\ \E d : usrsockdev_semgive(th, d, dmn)
    BY <1>1, <1>2 DEF AfterRequest
  <2>2. r \in ThreadRecords /\ r.pc # "reqwait"
    <3>1. [thr[t] EXCEPT !.pc = "respwait"] \in ThreadRecords
          /\ [thr[t] EXCEPT !.pc = "respwait"].pc = "respwait"
      BY <1>1 DEF ThreadRecords, Places
    <3>2. IdleThread \in ThreadRecords /\ IdleThread.pc = "idle"
      BY ConstantTypes DEF IdleThread
    <3> QED
      BY <3>1, <3>2
  <2>3. /\ th \in [Threads -> ThreadRecords] /\ th[t] = r
        /\ \A u \in Threads \ {t} : th[u] = thr[u]
    <3> HIDE DEF r
    <3> QED
      BY <1>1, <2>2
  <2>4. /\ thr'[t] = r
        /\ \A u \in Threads \ {t} : MovesUp(u)
    <3> HIDE DEF r, th
    <3>1. PICK d : usrsockdev_semgive(th, d, dmn)
      BY <2>1
    <3>2. ASSUME NEW u \in Threads
          PROVE  \/ thr'[u] = th[u]
                 \/ th[u].pc = "reqwait" /\ thr'[u] = [th[u] EXCEPT !.pc = "linegot"]
      BY <2>3, <3>1, SemgiveMoves
    <3>3. thr'[t] = r
      BY <2>2, <2>3, <3>2
    <3>4. ASSUME NEW u \in Threads \ {t} PROVE MovesUp(u)
      BY <2>3, <3>2 DEF MovesUp
    <3> QED
      BY <3>3, <3>4
  <2>5. CASE early
    BY <1>1, <2>1, <2>4, <2>5 DEF LineMoves
  <2>6. CASE ~early
    BY <1>1, <2>1, <2>4, <2>6 DEF LineMoves
  <2> QED
    BY <2>5, <2>6
<1>3. CASE /\ thr' = [thr EXCEPT ![t].pc = "ackwait"]
           /\ conn' = conn /\ ret' = NoReturn
  BY <1>1, <1>3 DEF LineMoves, MovesUp
<1> QED
  BY <1>2, <1>3 DEF TakeLine, LeaveLine

(* Moving along the request line keeps the record of the call.             *)
LEMMA MovedRecord ==
  ASSUME NEW s \in ThreadRecords, s.pc \in RequestPlaces, NEW p \in RequestPlaces
  PROVE  LET r == [s EXCEPT !.pc = p]
         IN  /\ r.pc = p /\ r.op = s.op /\ r.conn = s.conn /\ r.cb = s.cb
             /\ r.recvsem = s.recvsem /\ r.result = s.result /\ r.wake = s.wake
             /\ r.from = s.from /\ r.nonblock = s.nonblock
             /\ WaitRecord(s) => WaitRecord(r)
<1> DEFINE r == [s EXCEPT !.pc = p]
<1>1. /\ r.pc = p /\ r.op = s.op /\ r.conn = s.conn /\ r.cb = s.cb
      /\ r.recvsem = s.recvsem /\ r.result = s.result /\ r.wake = s.wake
      /\ r.from = s.from /\ r.nonblock = s.nonblock
  BY DEF ThreadRecords
<1> HIDE DEF r
<1>2. WaitRecord(s) => WaitRecord(r)
  BY <1>1 DEF WaitRecord, RequestPlaces
<1> QED
  BY <1>1, <1>2 DEF r

(* An event keeps the records of the waiting calls.                        *)
LEMMA HeardRecord ==
  ASSUME ConnInv, WaitInv, NEW c \in Conns, NEW cr \in ConnRecords,
         cr.list = conn[c].list, NEW ev \in SUBSET Events,
         usrsock_event(c, cr, ev), NEW t \in Threads
  PROVE  WaitRecord(thr'[t])
<1> DEFINE upd == StateUpdate(cr, ev)
<1>1. WaitRecord(thr[t]) /\ thr[t] \in ThreadRecords /\ upd \in ConnRecords
  BY ConnFacts, StateUpdateType DEF WaitInv
<1>2. CASE thr'[t] = thr[t]
  BY <1>1, <1>2
<1> HIDE DEF upd
<1>3. ASSUME NEW seen, seen \cap thr[t].cb # {}, t \in Range(conn[c].list),
             thr'[t] = Handler(thr[t], upd, seen)
      PROVE  WaitRecord(thr'[t])
  <2>1. /\ thr'[t].pc = thr[t].pc /\ thr'[t].op = thr[t].op
        /\ thr[t].pc \in WaitPlaces
    BY <1>1, <1>3, HandlerType DEF SamePlace, ConnInv, CallbackInv
  <2>2. CASE thr[t].pc = "pollwait"
    <3>1. thr[t].op = "poll"
      BY <1>1, <2>2 DEF WaitRecord
    <3>2. thr'[t].cb = thr[t].cb
      BY <1>1, <1>3, <3>1, HandlerPolls
    <3> QED
      BY <1>1, <2>1, <2>2, <3>2 DEF WaitRecord, RequestPlaces
  <2>3. CASE thr[t].pc # "pollwait"
    <3>1. /\ thr[t].op \in Requests /\ thr[t].op # "poll"
          /\ \/ seen \cap RequestFlags # {}
             \/ thr[t].op \in IoCalls /\ seen \cap ReadyFlags(thr[t].op) # {}
      BY <1>1, <1>3, <2>1, <2>3 DEF WaitRecord, WaitPlaces, RequestPlaces, Requests, IoCalls
    <3>2. thr'[t].cb = {} /\ thr'[t].recvsem = thr[t].recvsem + 1
      BY <1>1, <1>3, <3>1, HandlerWakes
    <3>3. thr'[t].recvsem > 0
      BY <1>1, <3>2 DEF ThreadRecords
    <3> QED
      BY <1>1, <2>1, <2>3, <3>2, <3>3 DEF WaitRecord
  <2> QED
    BY <2>2, <2>3
<1> QED
  BY <1>2, <1>3, EventHeard DEF Hears, upd

(* The record a call is left with waits for the right thing.               *)
LEMMA FormRecord ==
  ASSUME ConnInv, WaitInv, NEW t \in Threads, CallForm(t)
  PROVE  WaitInv'
<1>1. thr \in [Threads -> ThreadRecords] /\ \A u \in Threads : WaitRecord(thr[u])
  BY ConnFacts DEF WaitInv
<1>2. WaitRecord(IdleThread)
  BY DEF WaitRecord, IdleThread, RequestPlaces
<1>3. ASSUME NEW c \in Conns, NEW op \in Requests, NEW nonblock \in BOOLEAN
      PROVE  /\ WaitRecord(AskingThread(op, c, nonblock))
             /\ op \in IoCalls => WaitRecord(AwaitingThread(op, c, nonblock))
  <2>1. LineWait \in RequestPlaces /\ op # "poll" /\ RequestFlags # {} /\ ReadyFlags(op) # {}
    BY DEF LineWait, RequestPlaces, Requests, RequestFlags, ReadyFlags
  <2> QED
    BY <2>1, WaitingThreads DEF WaitRecord, RequestPlaces
<1>4. ASSUME NEW c \in Conns, NEW wanted
      PROVE  /\ WaitRecord(PollingThread(c, wanted))
             /\ WaitRecord(MakingThread(c)) /\ WaitRecord(ClosingThread(c))
  BY OtherThreads DEF WaitRecord, RequestPlaces
<1>5. thr' = thr \/ \E r : WaitRecord(r) /\ thr' = [thr EXCEPT ![t] = r]
  <2>1. PICK c \in Conns :
          \/ Ends(t, c) \/ MakesSocket(t, c) \/ TakesConn(t, c) \/ DropsConn(t, c)
          \/ Shuts(t, c) \/ Polls(t, c) \/ Dups(t, c)
          \/ \E op \in Requests : Asks(t, c, op) \/ Awaits(t, c, op)
    BY DEF CallForm
  <2>2. CASE Ends(t, c) \/ MakesSocket(t, c) \/ DropsConn(t, c)
    BY <1>2, <2>2 DEF Ends, MakesSocket, DropsConn
  <2>3. CASE TakesConn(t, c) \/ Shuts(t, c) \/ Polls(t, c) \/ Dups(t, c)
    BY <1>4, <2>3 DEF TakesConn, Shuts, Polls, Dups
  <2>4. CASE \E op \in Requests : Asks(t, c, op) \/ Awaits(t, c, op)
    BY <1>3, <2>4 DEF Asks, Awaits
  <2> QED
    BY <2>1, <2>2, <2>3, <2>4
<1>6. ASSUME NEW u \in Threads PROVE WaitRecord(thr'[u])
  BY <1>1, <1>5
<1> QED
  BY <1>6 DEF WaitInv

(* Every step keeps the waits.                                             *)
LEMMA NextWaitInv == ConnInv /\ WaitInv /\ [Next]_vars => WaitInv'
<1> SUFFICES ASSUME ConnInv, WaitInv, [Next]_vars
             PROVE  WaitInv'
  OBVIOUS
<1>1. thr \in [Threads -> ThreadRecords] /\ \A u \in Threads : WaitRecord(thr[u])
  BY ConnFacts DEF WaitInv
<1>2. ASSUME NEW u \in Threads, MovesUp(u) PROVE WaitRecord(thr'[u])
  <2>1. "reqwait" \in RequestPlaces /\ "linegot" \in RequestPlaces
    BY DEF RequestPlaces
  <2> QED
    BY <1>1, <1>2, <2>1, MovedRecord DEF MovesUp
<1>3. CASE thr' = thr
  BY <1>3 DEF WaitInv
<1>4. ASSUME NEW t \in Threads, ThreadStep(t) PROVE WaitInv'
  <2>1. CASE CallForm(t)
    BY <2>1, FormRecord
  <2>2. CASE TakeLine(t) \/ LeaveLine(t)
    <3>1. LineMoves(t)
      BY <2>2, LineForm
    <3>2. WaitRecord(IdleThread) /\ {"linegot", "ackwait", "respwait"} \subseteq RequestPlaces
      BY DEF WaitRecord, IdleThread, RequestPlaces
    <3>3. WaitRecord(thr'[t])
      BY <1>1, <3>1, <3>2, MovedRecord DEF LineMoves
    <3>4. \A u \in Threads \ {t} : WaitRecord(thr'[u])
      BY <1>2, <3>1 DEF LineMoves
    <3> QED
      BY <3>3, <3>4 DEF WaitInv
  <2>3. CASE net_timedwait(t)
    <3>1. PICK how : thr' = [thr EXCEPT ![t].wake = how]
      BY <2>3 DEF net_timedwait
    <3>2. thr[t] \in ThreadRecords /\ WaitRecord(thr[t])
      BY <1>1
    <3>3. WaitRecord([thr[t] EXCEPT !.wake = how])
      BY <3>2 DEF WaitRecord, ThreadRecords
    <3>4. thr'[t] = [thr[t] EXCEPT !.wake = how] /\ \A u \in Threads \ {t} : thr'[u] = thr[u]
      BY <1>1, <3>1
    <3> QED
      BY <1>1, <3>3, <3>4 DEF WaitInv
  <2> QED
    BY <1>4, <2>1, <2>2, <2>3, ThreadForms
<1>5. CASE DaemonStep
  <2>1. CASE \A u \in Threads : MovesUp(u)
    BY <1>2, <2>1 DEF WaitInv
  <2>2. ASSUME NEW c \in Conns, Raises(c) PROVE WaitInv'
    <3>1. \A u \in Threads : WaitRecord(thr'[u])
      BY <2>2, HeardRecord DEF Raises, Finds
    <3> QED
      BY <3>1 DEF WaitInv
  <2>3. ASSUME NEW c \in Conns, Notes(c) PROVE WaitInv'
    BY <1>3, <2>3 DEF Notes
  <2> QED
    BY <1>5, <2>1, <2>2, <2>3, DaemonForms DEF DaemonForm
<1> QED
  BY <1>3, <1>4, <1>5 DEF Next, vars

(* The waits hold in every reachable state.                                *)
LEMMA SpecWaitInv == Spec => [](ConnInv /\ WaitInv)
<1>1. Init => WaitInv
  <2>1. WaitRecord(IdleThread)
    BY DEF WaitRecord, IdleThread, RequestPlaces
  <2> QED
    BY <2>1 DEF Init, WaitInv
<1> QED
  BY <1>1, NextWaitInv, SpecConnInv, PTL DEF Spec

-----------------------------------------------------------------------------
(* connect()                                                               *)

(* "In progress" is said of a connection that waits for its response, and  *)
(* it is never the result of the request.                                  *)
InOrder(cr) == (cr.inprogress => cr.xid # 0) /\ cr.result # EINPROGRESS

(* A connect() still to be answered has its connection connecting; one     *)
(* answered with success has it connected.                                 *)
ConnectOk(s, cr) ==
  s.op = "connect" =>
    /\ s.cb # {} => cr.state = "CONNECTING"
    /\ s.result = 0 => cr.connected
    /\ s.result # EINPROGRESS

ConnectInv ==
  /\ \A c \in Conns : InOrder(conn[c])
  /\ \A t \in Threads : thr[t].conn # NoConn => ConnectOk(thr[t], conn[thr[t].conn])

(* A step that leaves the connect() calls on connection c alone.           *)
ConnCalm(c) ==
  /\ conn[c].connected => conn'[c].connected
  /\ conn'[c].state = conn[c].state \/ conn[c].state = "READY"

CallKept(s, r) == r.op = s.op /\ r.conn = s.conn /\ r.cb = s.cb /\ r.result = s.result

(* What a step must respect of one call: it stays as it is on a connection *)
(* left alone, or it is over, or it is left in order.                      *)
CallCalm(t) ==
  \/ CallKept(thr[t], thr'[t]) /\ (thr[t].conn # NoConn => ConnCalm(thr[t].conn))
  \/ thr'[t].conn = NoConn
  \/ ConnectOk(thr'[t], conn'[thr'[t].conn])

(* Respecting every connection and every call keeps the invariant.         *)
LEMMA CalmStep ==
  ASSUME ConnectInv, \A c \in Conns : InOrder(conn'[c]), \A t \in Threads : CallCalm(t)
  PROVE  ConnectInv'
<1>1. ASSUME NEW t \in Threads, thr'[t].conn # NoConn
      PROVE  ConnectOk(thr'[t], conn'[thr'[t].conn])
  <2>1. CASE CallKept(thr[t], thr'[t]) /\ (thr[t].conn # NoConn => ConnCalm(thr[t].conn))
    <3>1. thr[t].conn # NoConn /\ ConnectOk(thr[t], conn[thr[t].conn])
      BY <1>1, <2>1 DEF CallKept, ConnectInv
    <3> QED
      BY <2>1, <3>1 DEF CallKept, ConnCalm, ConnectOk
  <2> QED
    BY <1>1, <2>1 DEF CallCalm
<1> QED
  BY <1>1 DEF ConnectInv

(* A connection that only one step of a call touches.                      *)
LEMMA KeptOrder ==
  ASSUME ConnInv, ConnectInv, NEW c \in Conns, NEW s, Kept(c, conn', s),
         s = conn[c].state \/ conn[c].state = "READY"
  PROVE  \A d \in Conns : InOrder(conn'[d]) /\ ConnCalm(d)
BY DEF ConnectInv, InOrder, ConnCalm, Kept, OnlyConn, SameSocket

(* The errors of the request line and of the daemon's end.                 *)
LEMMA ErrnoConnect ==
  /\ EINPROGRESS < 0 /\ EINPROGRESS \in Int
  /\ \A e \in {EACCES, EAGAIN, EINVAL, ECONNABORTED} : e \notin {0, EINPROGRESS}
BY DEF EINPROGRESS, EACCES, EAGAIN, EINVAL, ECONNABORTED

(* A thread that makes or closes its socket works on it alone.             *)
LEMMA WorksAlone ==
  ASSUME ConnInv, NEW t \in Threads, NEW c \in Conns,
         \/ TakesConn(t, c) \/ DropsConn(t, c) \/ Shuts(t, c)
  PROVE  \A u \in Threads \ {t} : thr[u].conn # c
<1>1. c # NoConn
  BY NoConnFacts
<1>2. CASE TakesConn(t, c)
  <2>1. c \notin Range(active)
    BY <1>2 DEF TakesConn, ConnInv, ListInv
  <2> QED
    BY <1>1, <2>1 DEF ConnInv, ListInv
<1>3. CASE DropsConn(t, c) \/ Shuts(t, c)
  <2>1. \/ thr[t].conn = c /\ thr[t].op \in {"socket", "close"}
        \/ \A u \in Threads \ {t} : thr[u].conn # c
    BY <1>3 DEF DropsConn, Shuts, ConnInv, OwnInv
  <2> QED
    BY <1>1, <2>1 DEF ConnInv, OwnInv
<1> QED
  BY <1>2, <1>3

(* The steps of the calls.                                                 *)
LEMMA FormConnect ==
  ASSUME ConnInv, WaitInv, ConnectInv, NEW t \in Threads, CallForm(t)
  PROVE  ConnectInv'
<1>1. PICK c \in Conns :
          \/ Ends(t, c) \/ MakesSocket(t, c) \/ TakesConn(t, c) \/ DropsConn(t, c)
          \/ Shuts(t, c) \/ Polls(t, c) \/ Dups(t, c)
          \/ \E op \in Requests : Asks(t, c, op) \/ Awaits(t, c, op)
  BY DEF CallForm
<1>2. /\ thr \in [Threads -> ThreadRecords] /\ conn \in ConnFun /\ c # NoConn /\ c \in Nat \ {0}
      /\ \A u \in Threads : thr[u].conn \in {NoConn} \cup Conns
  BY ConnFacts, NoConnFacts, ConnAssumption DEF ConnAssumption, Conns
<1>3. IdleThread.conn = NoConn /\ \A d \in Conns : InOrder(conn[d])
  BY DEF IdleThread, ConnectInv
<1>4. ASSUME \A d \in Conns : InOrder(conn'[d]),
             \A u \in Threads \ {t} : thr[u].conn # NoConn => ConnCalm(thr[u].conn),
             NEW r, thr' = [thr EXCEPT ![t] = r],
             r.conn = NoConn \/ ConnectOk(r, conn'[r.conn])
      PROVE  ConnectInv'
  <2>1. thr'[t] = r /\ \A u \in Threads \ {t} : thr'[u] = thr[u]
    BY <1>2, <1>4
  <2>2. CallCalm(t)
    BY <1>4, <2>1 DEF CallCalm
  <2>3. ASSUME NEW u \in Threads \ {t} PROVE CallCalm(u)
    BY <1>4, <2>1 DEF CallCalm, CallKept
  <2> QED
    BY <1>4, <2>2, <2>3, CalmStep
<1>5. ASSUME \A d \in Conns : ConnCalm(d)
      PROVE  \A u \in Threads \ {t} : thr[u].conn # NoConn => ConnCalm(thr[u].conn)
  BY <1>2, <1>5
<1>6. CASE Ends(t, c)
  <2>1. \A d \in Conns : InOrder(conn'[d]) /\ ConnCalm(d)
    <3>1. CASE conn' = conn
      BY <1>3, <3>1 DEF ConnCalm
    <3>2. CASE Kept(c, conn', conn[c].state) \/ (conn[c].state = "READY" /\ Kept(c, conn', "CONNECTING"))
      BY <3>2, KeptOrder
    <3> QED
      BY <1>6, <3>1, <3>2 DEF Ends
  <2> QED
    BY <1>3, <1>4, <1>5, <1>6, <2>1 DEF Ends
<1>7. CASE MakesSocket(t, c)
  <2>1. \A d \in Conns : InOrder(conn'[d]) /\ ConnCalm(d)
    BY <1>3, <1>7 DEF MakesSocket, OnlyConn, InOrder, ConnCalm
  <2> QED
    BY <1>3, <1>4, <1>5, <1>7, <2>1 DEF MakesSocket
<1>8. CASE TakesConn(t, c) \/ DropsConn(t, c) \/ Shuts(t, c)
  <2>1. \A u \in Threads \ {t} : thr[u].conn # c
    BY <1>8, WorksAlone
  <2>2. /\ OnlyConn(c, conn')
        /\ conn'[c] = ClearedConn \/ ( /\ conn'[c].xid = conn[c].xid
                                       /\ conn'[c].inprogress = conn[c].inprogress
                                       /\ conn'[c].result = conn[c].result )
    BY <1>2, <1>8, ConstantTypes DEF TakesConn, DropsConn, Shuts, OnlyConn, ConnFun
  <2>3. InOrder(ClearedConn)
    BY ErrnoConnect DEF InOrder, ClearedConn
  <2>4. /\ \A d \in Conns : InOrder(conn'[d])
        /\ \A d \in Conns \ {c} : ConnCalm(d)
    BY <1>3, <2>2, <2>3 DEF OnlyConn, InOrder, ConnCalm
  <2>5. \A u \in Threads \ {t} : thr[u].conn # NoConn => ConnCalm(thr[u].conn)
    BY <1>2, <2>1, <2>4
  <2>6. MakingThread(c).op # "connect" /\ ClosingThread(c).op # "connect"
    BY OtherThreads
  <2>7. \E r : thr' = [thr EXCEPT ![t] = r] /\ (r.conn = NoConn \/ r.op # "connect")
    BY <1>3, <1>8, <2>6 DEF TakesConn, DropsConn, Shuts
  <2> QED
    BY <1>4, <2>4, <2>5, <2>7 DEF ConnectOk
<1>9. CASE Polls(t, c) \/ \E op \in Requests : Awaits(t, c, op)
  <2>1. \A d \in Conns : InOrder(conn'[d]) /\ ConnCalm(d)
    BY <1>9, KeptOrder DEF Polls, Awaits
  <2>2. \E r : thr' = [thr EXCEPT ![t] = r] /\ r.op # "connect"
    <3>1. \A wanted : PollingThread(c, wanted).op # "connect"
      BY OtherThreads
    <3>2. ASSUME NEW op \in IoCalls, NEW nonblock \in BOOLEAN
          PROVE  AwaitingThread(op, c, nonblock).op # "connect"
      BY WaitingThreads DEF IoCalls, Requests
    <3> QED
      BY <1>9, <3>1, <3>2 DEF Polls, Awaits
  <2> QED
    BY <1>4, <1>5, <2>1, <2>2 DEF ConnectOk
<1>10. CASE Dups(t, c)
  <2>1. \A d \in Conns : InOrder(conn'[d]) /\ ConnCalm(d)
    BY <1>10, KeptOrder DEF Dups
  <2>2. \A u \in Threads : CallCalm(u)
    BY <1>2, <1>10, <2>1 DEF Dups, CallCalm, CallKept
  <2> QED
    BY <2>1, <2>2, CalmStep
<1>11. ASSUME NEW op \in Requests, Asks(t, c, op) PROVE ConnectInv'
  <2>1. \A d \in Conns : InOrder(conn'[d])
    BY <1>2, <1>3, <1>11, ErrnoConnect DEF Asks, OnlyConn, InOrder
  <2>2. \A d \in Conns : ConnCalm(d)
    BY <1>11 DEF Asks, OnlyConn, ConnCalm, SameSocket
  <2>3. PICK nonblock \in BOOLEAN : thr' = [thr EXCEPT ![t] = AskingThread(op, c, nonblock)]
    BY <1>11 DEF Asks
  <2> DEFINE r == AskingThread(op, c, nonblock)
  <2>4. r.op = op /\ r.conn = c /\ r.result = EAGAIN
    BY WaitingThreads
  <2> HIDE DEF r
  <2>5. ConnectOk(r, conn'[r.conn])
    BY <1>11, <2>4, ErrnoConnect DEF Asks, ConnectOk
  <2> QED
    BY <1>4, <1>5, <2>1, <2>2, <2>3, <2>5 DEF r
<1> QED
  BY <1>1, <1>6, <1>7, <1>8, <1>9, <1>10, <1>11

(* A socket is born of a complete request only.                            *)
LEMMA BornAnswered ==
  ASSUME NEW cr, NEW ev, SocketBorn(StateUpdate(cr, ev), thr, EventsToCallbacks(cr, ev))
  PROVE  "REQ_COMPLETE" \in ev
BY DEF SocketBorn, Completes, EventsToCallbacks

(* The events of the daemon.                                               *)
LEMMA RaisesConnect ==
  ASSUME ConnInv, WaitInv, ConnectInv, EINPROGRESS \notin Results,
         NEW c \in Conns, NEW cr \in ConnRecords, NEW ev \in SUBSET Events,
         Finds(c, cr), usrsock_event(c, cr, ev)
  PROVE  ConnectInv'
<1> DEFINE upd == StateUpdate(cr, ev)
           cbs == EventsToCallbacks(cr, ev)
<1>1. EventLeaves(c, cr, ev) /\ c # NoConn /\ upd \in ConnRecords
  BY EventLeft, NoConnFacts, StateUpdateType
<1>2. InOrder(cr)
  <2>1. cr.result # EINPROGRESS
    BY ErrnoConnect DEF Finds, ConnectInv, InOrder
  <2> QED
    BY <2>1 DEF Finds, ConnectInv, InOrder
<1>3. \A d \in Conns : InOrder(conn'[d])
  BY <1>1, <1>2 DEF EventLeaves, OnlyConn, InOrder, ConnectInv
<1>4. \A d \in Conns \ {c} : ConnCalm(d)
  BY <1>1 DEF EventLeaves, OnlyConn, ConnCalm
<1>5. /\ upd.connected <=> cr.connected \/ (IsConnectResponse(cr, ev) /\ cr.result = 0)
      /\ upd.result = cr.result /\ cr.connected = conn[c].connected /\ cr.state = conn[c].state
      /\ "ABORT" \notin ev /\ ~IsConnectResponse(cr, ev) => upd.state = cr.state
  BY DEF StateUpdate, ConnRecords, Finds
<1>6. conn'[c].connected = upd.connected
  BY <1>1 DEF EventLeaves
<1>7. ASSUME NEW t \in Threads PROVE CallCalm(t)
  <2>1. /\ thr[t] \in ThreadRecords /\ thr[t].conn \in {NoConn} \cup Conns
        /\ Hears(t, c, cr, ev) /\ WaitRecord(thr[t])
    BY ConnFacts, EventHeard DEF Finds, WaitInv
  <2>2. CASE thr'[t] = thr[t] /\ thr[t].conn # c
    BY <1>4, <2>1, <2>2 DEF CallCalm, CallKept
  <2>3. ASSUME thr[t].conn = c, thr[t].op = "connect"
        PROVE  /\ t \in Range(conn[c].list) /\ thr[t].cb \in {{}, RequestFlags}
               /\ ConnectOk(thr[t], conn[c])
    <3>1. /\ thr[t].pc \in Places /\ thr[t].pc # "idle" /\ thr[t].pc # "alloced"
          /\ thr[t].pc # "freeing"
      BY <1>1, <2>1, <2>3, ConnFacts DEF ConnInv, OwnInv, ThreadRecords
    <3>2. thr[t].pc # "rdywait" /\ thr[t].pc # "pollwait"
      BY <2>1, <2>3 DEF WaitRecord, IoCalls
    <3>3. thr[t].pc \in RequestPlaces /\ thr[t].pc \in WaitPlaces
      BY <3>1, <3>2 DEF Places, RequestPlaces, WaitPlaces
    <3> QED
      BY <1>1, <2>1, <2>3, <3>3 DEF WaitRecord, ConnInv, CallbackInv, ConnectInv
  <2>4. CASE thr'[t] = thr[t] /\ thr[t].conn = c /\ thr[t].op = "connect"
    <3>1. CASE thr[t].cb = {}
      BY <1>5, <1>6, <2>3, <2>4, <3>1 DEF ConnectOk, CallCalm
    <3>2. CASE thr[t].cb = RequestFlags /\ ev \cap RequestFlags = {}
      <4>1. conn'[c].state = conn[c].state
        BY <1>1, <1>5, <3>2, BornAnswered DEF EventLeaves, IsConnectResponse, RequestFlags
      <4> QED
        BY <1>5, <1>6, <2>3, <2>4, <4>1 DEF ConnectOk, CallCalm
    <3>3. CASE thr[t].cb = RequestFlags /\ ev \cap RequestFlags # {}
      <4>1. cbs \cap Stopping # {} /\ cbs \cap thr[t].cb # {}
        BY <3>3 DEF EventsToCallbacks, RequestFlags, Stopping
      <4>2. PICK seen \in SUBSET cbs :
              seen \cap thr[t].cb # {} /\ thr'[t] = Handler(thr[t], upd, seen)
        BY <2>1, <2>3, <2>4, <4>1 DEF Hears
      <4>3. Handler(thr[t], upd, seen).cb = {}
        <5>1. seen \cap RequestFlags # {} /\ thr[t].op \in Requests
          BY <2>4, <3>3, <4>2 DEF Requests
        <5> HIDE DEF upd
        <5> QED
          BY <1>1, <2>1, <5>1, HandlerWakes
      <4> QED
        BY <2>4, <3>3, <4>2, <4>3 DEF RequestFlags
    <3> QED
      BY <2>3, <2>4, <3>1, <3>2, <3>3
  <2>5. ASSUME NEW seen \in SUBSET cbs, seen \cap thr[t].cb # {}, t \in Range(conn[c].list),
               cbs \cap Stopping # {} => seen = cbs, thr[t].op = "connect",
               thr'[t] = Handler(thr[t], upd, seen)
        PROVE  CallCalm(t)
    <3>1. thr[t].conn = c
      BY <2>5 DEF ConnInv, CallbackInv
    <3>2. /\ thr[t].cb = RequestFlags /\ conn[c].state = "CONNECTING"
          /\ seen \cap RequestFlags # {} /\ thr[t].op \in Requests
      BY <2>3, <2>5, <3>1 DEF ConnectOk, RequestFlags, Requests
    <3>3. /\ thr'[t].cb = {}
          /\ thr'[t].result = IF "ABORT" \in seen THEN ECONNABORTED ELSE cr.result
      <4>1. /\ Handler(thr[t], upd, seen).cb = {}
            /\ Handler(thr[t], upd, seen).result = IF "ABORT" \in seen THEN ECONNABORTED
                                                   ELSE upd.result
        <5> HIDE DEF upd
        <5> QED
          BY <1>1, <2>1, <2>5, <3>2, HandlerWakes
      <4> QED
        BY <1>5, <2>5, <4>1
    <3>4. thr'[t].op = "connect" /\ thr'[t].conn = c
      BY <1>1, <2>1, <2>5, <3>1, HandlerType DEF SamePlace
    <3>5. "ABORT" \notin seen => IsConnectResponse(cr, ev)
      BY <1>5, <2>5, <3>2 DEF RequestFlags, IsConnectResponse, EventsToCallbacks
    <3>6. ConnectOk(thr'[t], conn'[c])
      BY <1>2, <1>5, <1>6, <3>3, <3>5, ErrnoConnect DEF ConnectOk, InOrder
    <3> QED
      BY <3>4, <3>6 DEF CallCalm
  <2>6. CASE thr[t].op # "connect" /\ thr'[t].op = thr[t].op
    BY <2>6 DEF CallCalm, ConnectOk
  <2>7. ASSUME NEW seen, thr'[t] = Handler(thr[t], upd, seen)
        PROVE  thr'[t].op = thr[t].op
    BY <1>1, <2>1, <2>7, HandlerType DEF SamePlace
  <2> QED
    BY <2>1, <2>2, <2>4, <2>5, <2>6, <2>7 DEF Hears
<1> QED
  BY <1>3, <1>7, CalmStep

(* The semaphore of the line keeps the call of the thread it goes to.      *)
LEMMA MovedCall ==
  ASSUME ConnInv, NEW t \in Threads, MovesUp(t)
  PROVE  CallKept(thr[t], thr'[t])
<1>1. thr[t] \in ThreadRecords
  BY ConnFacts
<1> QED
  BY <1>1 DEF MovesUp, CallKept, ThreadRecords

(* Every step keeps the invariant of connect().                            *)
LEMMA NextConnectInv ==
  ASSUME EINPROGRESS \notin Results, ConnInv, WaitInv, ConnectInv, [Next]_vars
  PROVE  ConnectInv'
<1>1. CASE UNCHANGED vars
  BY <1>1 DEF ConnectInv, vars
<1>2. /\ thr \in [Threads -> ThreadRecords] /\ conn \in ConnFun
      /\ \A u \in Threads : thr[u].conn \in {NoConn} \cup Conns
      /\ \A d \in Conns : InOrder(conn[d])
  BY ConnFacts DEF ConnectInv
<1>3. ASSUME NEW t \in Threads, ThreadStep(t) PROVE ConnectInv'
  <2>1. CASE CallForm(t)
    BY <2>1, FormConnect
  <2>2. CASE TakeLine(t) \/ LeaveLine(t)
    <3>1. LineMoves(t) /\ thr[t].conn \in Conns
      BY <2>2, LineForm, ConnFacts DEF LineMoves
    <3>2. \A d \in Conns : InOrder(conn'[d]) /\ ConnCalm(d)
      <4>1. CASE conn' = conn
        BY <1>2, <4>1 DEF ConnCalm
      <4>2. CASE conn' = Released(thr[t].conn, t)
        <5>1. Kept(thr[t].conn, conn', conn[thr[t].conn].state)
          BY <3>1, <4>2, KeptReleased
        <5> QED
          BY <3>1, <5>1, KeptOrder
      <4> QED
        BY <3>1, <4>1, <4>2 DEF LineMoves
    <3>3. ASSUME NEW u \in Threads, CallKept(thr[u], thr'[u]) PROVE CallCalm(u)
      BY <1>2, <3>2, <3>3 DEF CallCalm
    <3>4. \A u \in Threads \ {t} : CallCalm(u)
      BY <3>1, <3>3, MovedCall DEF LineMoves
    <3>5. CallCalm(t)
      <4>1. CASE thr'[t] = IdleThread
        BY <4>1 DEF CallCalm, IdleThread
      <4>2. ASSUME NEW p, thr'[t] = [thr[t] EXCEPT !.pc = p] PROVE CallKept(thr[t], thr'[t])
        BY <1>2, <4>2 DEF CallKept, ThreadRecords
      <4> QED
        BY <3>1, <3>3, <4>1, <4>2 DEF LineMoves
    <3> QED
      BY <3>2, <3>4, <3>5, CalmStep
  <2>3. CASE net_timedwait(t)
    <3>1. conn' = conn /\ \E how : thr' = [thr EXCEPT ![t].wake = how]
      BY <2>3 DEF net_timedwait
    <3>2. ASSUME NEW u \in Threads PROVE CallKept(thr[u], thr'[u])
      <4>1. thr[u] \in ThreadRecords
        BY <1>2
      <4> QED
        BY <1>2, <3>1, <4>1 DEF CallKept, ThreadRecords
    <3>3. \A u \in Threads : CallCalm(u)
      BY <3>1, <3>2 DEF CallCalm, ConnCalm
    <3> QED
      BY <1>2, <3>1, <3>3, CalmStep
  <2> QED
    BY <1>3, <2>1, <2>2, <2>3, ThreadForms
<1>4. CASE DaemonStep
  <2>1. CASE conn' = conn /\ \A u \in Threads : MovesUp(u)
    <3>1. \A u \in Threads : CallCalm(u)
      BY <2>1, MovedCall DEF CallCalm, ConnCalm
    <3> QED
      BY <1>2, <2>1, <3>1, CalmStep
  <2>2. ASSUME NEW c \in Conns, Raises(c) PROVE ConnectInv'
    BY <2>2, RaisesConnect DEF Raises
  <2>3. ASSUME NEW c \in Conns, Notes(c) PROVE ConnectInv'
    <3>1. PICK cr \in ConnRecords : Finds(c, cr) /\ conn' = [conn EXCEPT ![c] = cr]
      BY <2>3 DEF Notes
    <3>2. conn'[c] = cr /\ \A d \in Conns \ {c} : conn'[d] = conn[d]
      BY <1>2, <3>1 DEF ConnFun
    <3>3. InOrder(cr)
      <4>1. cr.result # EINPROGRESS
        BY <3>1, ErrnoConnect DEF Finds, ConnectInv, InOrder
      <4> QED
        BY <3>1, <4>1 DEF Finds, ConnectInv, InOrder
    <3>4. \A d \in Conns : InOrder(conn'[d]) /\ ConnCalm(d)
      BY <1>2, <3>1, <3>2, <3>3 DEF ConnCalm, Finds
    <3>5. \A u \in Threads : CallCalm(u)
      BY <1>2, <2>3, <3>4 DEF CallCalm, CallKept, Notes
    <3> QED
      BY <3>4, <3>5, CalmStep
  <2> QED
    BY <1>4, <2>1, <2>2, <2>3, DaemonForms DEF DaemonForm
<1> QED
  BY <1>1, <1>3, <1>4 DEF Next

(* What connect() returns is so when it returns.                           *)
LEMMA NextConnectReturns ==
  ASSUME ConnInv, WaitInv, ConnectInv, ConnectReturns, [Next]_vars
  PROVE  ConnectReturns'
<1>1. CASE UNCHANGED vars
  BY <1>1 DEF ConnectReturns, vars
<1>2. CASE ret'.op # "connect"
  BY <1>2 DEF ConnectReturns
<1>3. ASSUME NEW t \in Threads, ThreadStep(t), ret'.op = "connect" PROVE ConnectReturns'
  <2>1. NoReturn.op # "connect"
    BY DEF NoReturn
  <2>2. ASSUME NEW c \in Conns, Ends(t, c) PROVE ConnectReturns'
    <3>1. ret'.conn = c
      BY <1>3, <2>2 DEF Ends, Reported
    <3>2. conn[c].connected => conn'[c].connected
      BY <2>2 DEF Ends, Kept, SameSocket
    <3>3. CASE ret'.val \notin {0, EINPROGRESS}
      BY <3>3 DEF ConnectReturns
    <3>4. CASE thr[t].conn = c /\ thr[t].op = "connect" /\ ret'.val = thr[t].result
      <4>1. ConnectOk(thr[t], conn[c])
        BY <3>4, NoConnFacts DEF ConnectInv
      <4> QED
        BY <3>1, <3>2, <3>4, <4>1 DEF ConnectOk, ConnectReturns
    <3> QED
      BY <1>3, <2>2, <3>3, <3>4 DEF Ends, Reported
  <2>3. CASE CallForm(t)
    BY <1>3, <2>1, <2>2, <2>3 DEF CallForm, MakesSocket, TakesConn, DropsConn, Shuts, Polls,
       Dups, Asks, Awaits
  <2>4. CASE TakeLine(t) \/ LeaveLine(t)
    <3>1. LineMoves(t) /\ thr[t].conn \in Conns
      BY <2>4, LineForm, ConnFacts DEF LineMoves
    <3> DEFINE c == thr[t].conn
    <3>2. /\ conn[c].inprogress /\ conn' = Released(c, t)
          /\ ret' = [th |-> t, op |-> "connect", conn |-> c, val |-> EINPROGRESS]
      BY <1>3, <2>1, <3>1 DEF LineMoves
    <3>3. Kept(c, conn', conn[c].state)
      BY <3>1, <3>2, KeptReleased
    <3>4. conn[c].xid # 0
      BY <3>1, <3>2 DEF ConnectInv, InOrder
    <3>5. ret'.val = EINPROGRESS /\ ret'.conn = c
      BY <3>2
    <3>6. conn'[c].xid # 0 /\ conn'[c].inprogress
      BY <3>2, <3>3, <3>4 DEF Kept, SameSocket
    <3>7. EINPROGRESS # 0
      BY ErrnoConnect
    <3> HIDE DEF c
    <3> QED
      BY <3>5, <3>6, <3>7 DEF ConnectReturns
  <2>5. CASE net_timedwait(t)
    BY <1>3, <2>1, <2>5 DEF net_timedwait
  <2> QED
    BY <1>3, <2>3, <2>4, <2>5, ThreadForms
<1>4. CASE DaemonStep
  BY <1>4, <1>2, DaemonForms DEF NoReturn
<1> QED
  BY <1>1, <1>2, <1>3, <1>4 DEF Next

(* connect() on a socket tells the truth, with any number of threads on it *)
(* and through any crash of the daemon: success leaves a connected socket, *)
(* EINPROGRESS one whose response is still to come. A daemon says that a   *)
(* connect is in progress with a flag of its response and not with the     *)
(* error number, which is the one assumption.                              *)
THEOREM ConnectCorrect == EINPROGRESS \notin Results => (Spec => []ConnectReturns)
<1> SUFFICES ASSUME EINPROGRESS \notin Results PROVE Spec => []ConnectReturns
  OBVIOUS
<1>1. Init => ConnectInv /\ ConnectReturns
  <2>1. InOrder(ClearedConn)
    BY ErrnoConnect DEF InOrder, ClearedConn
  <2>2. IdleThread.conn = NoConn /\ NoReturn.op # "connect"
    BY DEF IdleThread, NoReturn
  <2> QED
    BY <2>1, <2>2 DEF Init, usrsock_initialize, ConnectInv, ConnectReturns
<1>2. ConnInv /\ WaitInv /\ ConnectInv /\ ConnectReturns /\ [Next]_vars
        => ConnectInv' /\ ConnectReturns'
  BY NextConnectInv, NextConnectReturns
<1> QED
  BY <1>1, <1>2, SpecWaitInv, PTL DEF Spec

-----------------------------------------------------------------------------
(* Readiness, for an application that gives every socket to one thread     *)

(* What a call s of thread t may rely on, on its connection cr: it is its  *)
(* own; it is in use; and a poll() that a new poll() would not wait for    *)
(* has been told.                                                          *)
OwnSocket(t, s, cr)  == s.op # "socket" => cr.owner = t
UsedSocket(s, cr)    == s.op \in IoCalls => cr.state # "UNINITIALIZED"
PollWoken(s, cr) == (s.pc = "pollwait" /\ PollState(cr, s.events) # {}) => s.revents # {}

Served(t, s, cr) == OwnSocket(t, s, cr) /\ UsedSocket(s, cr) /\ PollWoken(s, cr)

ServedInv == \A t \in Threads : thr[t].conn # NoConn => Served(t, thr[t], conn[thr[t].conn])

(* A connection that looks the same to its calls.                          *)
LooksSame(a, b) ==
  /\ b.owner = a.owner /\ b.state = a.state /\ b.connected = a.connected
  /\ b.stream = a.stream /\ b.flags = a.flags

(* Every call is served on a connection that looks the same.               *)
LEMMA SameServed ==
  ASSUME NEW t, NEW s, NEW a, NEW b, LooksSame(a, b), Served(t, s, a)
  PROVE  Served(t, s, b)
<1>1. PollState(b, s.events) = PollState(a, s.events)
  BY DEF PollState, LooksSame
<1> QED
  BY <1>1 DEF Served, OwnSocket, UsedSocket, PollWoken, LooksSame

(* Nobody else is in a call on the connection of a call.                   *)
LEMMA SoleCall ==
  ASSUME ~Shared, ConnInv, ServedInv, NEW t \in Threads, NEW c \in Conns,
         thr[t].conn = c \/ MayUse(t, c)
  PROVE  \A u \in Threads \ {t} : thr[u].conn # c
<1> SUFFICES ASSUME NEW u \in Threads \ {t}, thr[u].conn = c
             PROVE  FALSE
  OBVIOUS
<1>1. c # NoConn
  BY NoConnFacts
<1>2. /\ thr[u].op = "socket" <=> conn[c].crefs = 0
      /\ thr[u].op # "socket" => conn[c].owner = u
  BY <1>1 DEF ConnInv, OwnInv, ServedInv, Served, OwnSocket
<1>3. CASE thr[t].conn = c
  <2>1. thr[t].op # "socket" /\ thr[u].op # "socket"
    BY <1>1, <1>3 DEF ConnInv, OwnInv
  <2>2. conn[c].owner = t
    BY <1>1, <1>3, <2>1 DEF ServedInv, Served, OwnSocket
  <2> QED
    BY <1>2, <2>1, <2>2
<1>4. CASE MayUse(t, c)
  <2>1. conn[c].crefs > 0 /\ conn[c].owner = t /\ conn[c].crefs \in Nat
    BY <1>4, ConnFacts DEF MayUse
  <2> QED
    BY <1>2, <2>1
<1> QED
  BY <1>3, <1>4

(* The callback list of a connection has at most one entry.                *)
LEMMA SoleAlone ==
  ASSUME ~Shared, ConnInv, ServedInv, NEW c \in Conns
  PROVE  Alone(c)
<1>1. \A t \in Range(conn[c].list) : t \in Threads /\ thr[t].conn = c
  <2>1. Range(conn[c].list) \subseteq Threads
    BY ConnFacts, RangeOfSeq
  <2> QED
    BY <2>1 DEF ConnInv, CallbackInv
<1> QED
  BY <1>1, SoleCall DEF Alone

(* A step of thread t that changes only connection c and its own call.     *)
LEMMA OwnStep ==
  ASSUME ~Shared, ConnInv, ServedInv, NEW t \in Threads, NEW c \in Conns,
         \A u \in Threads \ {t} : thr[u].conn # c, OnlyConn(c, conn'),
         NEW r, thr' = [thr EXCEPT ![t] = r],
         r.conn = NoConn \/ Served(t, r, conn'[r.conn])
  PROVE  ServedInv'
<1>1. thr'[t] = r /\ \A u \in Threads \ {t} : thr'[u] = thr[u]
  BY ConnFacts
<1>2. ASSUME NEW u \in Threads \ {t}, thr[u].conn # NoConn
      PROVE  Served(u, thr'[u], conn'[thr'[u].conn])
  <2>1. thr[u].conn \in Conns \ {c}
    BY <1>2, ConnFacts
  <2>2. conn'[thr[u].conn] = conn[thr[u].conn]
    BY <2>1 DEF OnlyConn
  <2> QED
    BY <1>1, <1>2, <2>2 DEF ServedInv
<1> QED
  BY <1>1, <1>2 DEF ServedInv

(* The steps of the calls.                                                 *)
LEMMA FormServed ==
  ASSUME ~Shared, ConnInv, WaitInv, ServedInv, NEW t \in Threads, CallForm(t)
  PROVE  ServedInv'
<1>1. PICK c \in Conns :
          \/ Ends(t, c) \/ MakesSocket(t, c) \/ TakesConn(t, c) \/ DropsConn(t, c)
          \/ Shuts(t, c) \/ Polls(t, c) \/ Dups(t, c)
          \/ \E op \in Requests : Asks(t, c, op) \/ Awaits(t, c, op)
  BY DEF CallForm
<1>2. /\ thr \in [Threads -> ThreadRecords] /\ conn \in ConnFun /\ c # NoConn
      /\ IdleThread.conn = NoConn
      /\ \A u \in Threads : thr[u].conn \in {NoConn} \cup Conns
  BY ConnFacts, NoConnFacts DEF IdleThread
<1>3. ASSUME thr[t].conn = c \/ MayUse(t, c)
      PROVE  \A u \in Threads \ {t} : thr[u].conn # c
  BY <1>3, SoleCall
<1>4. CASE Ends(t, c)
  <2>1. thr' = [thr EXCEPT ![t] = IdleThread]
    BY <1>4 DEF Ends
  <2>2. CASE conn' = conn
    <3>1. \A u \in Threads : thr'[u] = IdleThread \/ thr'[u] = thr[u]
      BY <1>2, <2>1
    <3> QED
      BY <1>2, <2>2, <3>1 DEF ServedInv
  <2>3. CASE conn' # conn
    <3>1. (thr[t].conn = c \/ MayUse(t, c)) /\ OnlyConn(c, conn')
      BY <1>4, <2>3 DEF Ends, InCall, Kept
    <3> QED
      BY <1>2, <1>3, <2>1, <3>1, OwnStep
  <2> QED
    BY <2>2, <2>3
<1>5. CASE MakesSocket(t, c) \/ DropsConn(t, c)
  <2>1. thr[t].conn = c /\ OnlyConn(c, conn') /\ thr' = [thr EXCEPT ![t] = IdleThread]
    BY <1>5 DEF MakesSocket, DropsConn
  <2> QED
    BY <1>2, <1>3, <2>1, OwnStep
<1>6. CASE TakesConn(t, c)
  <2>1. \A u \in Threads \ {t} : thr[u].conn # c
    BY <1>6, WorksAlone
  <2>2. OnlyConn(c, conn') /\ thr' = [thr EXCEPT ![t] = MakingThread(c)]
    BY <1>2, <1>6, ConstantTypes DEF TakesConn, OnlyConn, ConnFun
  <2>3. \A cr : Served(t, MakingThread(c), cr)
    BY OtherThreads DEF Served, OwnSocket, UsedSocket, PollWoken, IoCalls
  <2> QED
    BY <2>1, <2>2, <2>3, OwnStep
<1>7. CASE Shuts(t, c)
  <2>1. \A u \in Threads \ {t} : thr[u].conn # c
    BY <1>7, WorksAlone
  <2>2. /\ OnlyConn(c, conn') /\ thr' = [thr EXCEPT ![t] = ClosingThread(c)]
        /\ conn'[c].owner = conn[c].owner
    BY <1>7 DEF Shuts
  <2>3. conn[c].owner = t
    BY <1>2, <1>7 DEF Shuts, MayUse, ServedInv, Served, OwnSocket
  <2>4. Served(t, ClosingThread(c), conn'[c]) /\ ClosingThread(c).conn = c
    BY <2>2, <2>3, OtherThreads DEF Served, OwnSocket, UsedSocket, PollWoken, IoCalls
  <2> QED
    BY <2>1, <2>2, <2>4, OwnStep
<1>8. CASE Polls(t, c)
  <2>1. PICK wanted \in PollMasks : thr' = [thr EXCEPT ![t] = PollingThread(c, wanted)]
    BY <1>8 DEF Polls
  <2>2. /\ MayUse(t, c) /\ OnlyConn(c, conn') /\ LooksSame(conn[c], conn'[c])
    BY <1>8 DEF Polls, Kept, SameSocket, LooksSame
  <2>3. conn[c].owner = t
    BY <2>2 DEF MayUse
  <2>4. Served(t, PollingThread(c, wanted), conn[c]) /\ PollingThread(c, wanted).conn = c
    BY <2>3, OtherThreads DEF Served, OwnSocket, UsedSocket, PollWoken, IoCalls
  <2>5. Served(t, PollingThread(c, wanted), conn'[c])
    BY <2>2, <2>4, SameServed
  <2> QED
    BY <1>3, <2>1, <2>2, <2>4, <2>5, OwnStep
<1>9. CASE Dups(t, c)
  <2>1. /\ MayUse(t, c) /\ OnlyConn(c, conn') /\ thr' = thr /\ thr[t].conn = NoConn
    BY <1>9, ConnFacts DEF Dups, Kept, MayUse
  <2>2. thr' = [thr EXCEPT ![t] = thr[t]]
    BY <1>2, <2>1
  <2> QED
    BY <1>3, <2>1, <2>2, OwnStep
<1>10. ASSUME NEW op \in Requests, Begins(t, c, op)
       PROVE  /\ thr[t].conn = c \/ MayUse(t, c)
              /\ op # "socket" => conn[c].owner = t
              /\ op \in IoCalls => conn[c].state # "UNINITIALIZED"
  <2>1. CASE thr[t].pc = "idle" /\ MayUse(t, c) /\ ~Unusable(c)
    BY <2>1 DEF MayUse, Unusable
  <2>2. CASE thr[t].conn = c /\ op = thr[t].op
    BY <1>2, <2>2 DEF ServedInv, Served, OwnSocket, UsedSocket
  <2>3. CASE thr[t].conn = c /\ op = "socket"
    BY <2>3 DEF IoCalls
  <2> QED
    BY <1>10, <2>1, <2>2, <2>3 DEF Begins
<1>11. ASSUME NEW op \in Requests, Asks(t, c, op) PROVE ServedInv'
  <2>1. PICK nonblock \in BOOLEAN : thr' = [thr EXCEPT ![t] = AskingThread(op, c, nonblock)]
    BY <1>11 DEF Asks
  <2> DEFINE r == AskingThread(op, c, nonblock)
  <2>2. r.op = op /\ r.conn = c /\ r.pc \notin {"rdywait", "pollwait"}
    BY WaitingThreads DEF LineWait
  <2>3. /\ conn'[c].owner = conn[c].owner /\ OnlyConn(c, conn') /\ Begins(t, c, op)
        /\ op # "connect" => conn'[c].state = conn[c].state
    BY <1>11 DEF Asks, SameSocket
  <2> HIDE DEF r
  <2>4. Served(t, r, conn'[c])
    BY <1>10, <2>2, <2>3 DEF Served, OwnSocket, UsedSocket, PollWoken, IoCalls
  <2> QED
    BY <1>3, <1>10, <2>1, <2>2, <2>3, <2>4, OwnStep DEF r
<1>12. ASSUME NEW op \in Requests, Awaits(t, c, op) PROVE ServedInv'
  <2>1. PICK nonblock \in BOOLEAN : thr' = [thr EXCEPT ![t] = AwaitingThread(op, c, nonblock)]
    BY <1>12 DEF Awaits
  <2> DEFINE r == AwaitingThread(op, c, nonblock)
  <2>2. r.op = op /\ r.conn = c /\ r.pc = "rdywait" /\ r.recvsem = 0
    BY WaitingThreads
  <2>3. /\ LooksSame(conn[c], conn'[c]) /\ OnlyConn(c, conn') /\ Begins(t, c, op)
    BY <1>12 DEF Awaits, Kept, SameSocket, LooksSame
  <2> HIDE DEF r
  <2>4. Served(t, r, conn[c])
    BY <1>10, <2>2, <2>3 DEF Served, OwnSocket, UsedSocket, PollWoken
  <2>5. Served(t, r, conn'[c])
    BY <2>3, <2>4, SameServed
  <2> QED
    BY <1>3, <1>10, <2>1, <2>2, <2>3, <2>5, OwnStep DEF r
<1> QED
  BY <1>1, <1>4, <1>5, <1>6, <1>7, <1>8, <1>9, <1>11, <1>12

(* usrsock_pollsetup would return at once.                                 *)
Ripe(cr, wanted) ==
  \/ cr.state \in {"UNINITIALIZED", "ABORTED"}
  \/ cr.stream /\ ~(cr.connected \/ cr.state = "CONNECTING")
  \/ "REMOTE_CLOSED" \in cr.flags
  \/ "SENDTO_READY" \in cr.flags /\ "OUT" \in wanted
  \/ "RECVFROM_AVAIL" \in cr.flags /\ "IN" \in wanted

LEMMA PollStateRipe ==
  ASSUME NEW cr, NEW wanted
  PROVE  PollState(cr, wanted) # {} <=> Ripe(cr, wanted)
<1> DEFINE out == IF "SENDTO_READY" \in cr.flags THEN {"OUT"} ELSE {}
           in  == IF "RECVFROM_AVAIL" \in cr.flags THEN {"IN"} ELSE {}
<1>1. CASE cr.state \in {"UNINITIALIZED", "ABORTED"}
  <2>1. PollState(cr, wanted) = FilterPoll({"ERR", "HUP"}, wanted)
    BY <1>1 DEF PollState
  <2>2. "HUP" \in PollState(cr, wanted)
    BY <2>1 DEF FilterPoll
  <2> QED
    BY <1>1, <2>2 DEF Ripe
<1>2. CASE /\ cr.state \notin {"UNINITIALIZED", "ABORTED"}
           /\ cr.stream /\ ~(cr.connected \/ cr.state = "CONNECTING")
  <2>1. PollState(cr, wanted) = FilterPoll({"OUT", "IN", "HUP"}, wanted)
    BY <1>2 DEF PollState
  <2>2. "HUP" \in PollState(cr, wanted)
    BY <2>1 DEF FilterPoll
  <2> QED
    BY <1>2, <2>2 DEF Ripe
<1>3. CASE /\ cr.state \notin {"UNINITIALIZED", "ABORTED"}
           /\ ~(cr.stream /\ ~(cr.connected \/ cr.state = "CONNECTING"))
           /\ "REMOTE_CLOSED" \in cr.flags
  <2>1. PollState(cr, wanted) = FilterPoll({"HUP", "IN"}, wanted)
    BY <1>3 DEF PollState
  <2>2. "HUP" \in PollState(cr, wanted)
    BY <2>1 DEF FilterPoll
  <2> QED
    BY <1>3, <2>2 DEF Ripe
<1>4. CASE /\ cr.state \notin {"UNINITIALIZED", "ABORTED"}
           /\ ~(cr.stream /\ ~(cr.connected \/ cr.state = "CONNECTING"))
           /\ "REMOTE_CLOSED" \notin cr.flags
  <2>1. PollState(cr, wanted) = FilterPoll(out \cup in, wanted)
    BY <1>4 DEF PollState
  <2>2. FilterPoll(out \cup in, wanted) = (out \cup in) \ ({"IN", "OUT"} \ wanted)
    BY DEF FilterPoll
  <2> QED
    BY <1>4, <2>1, <2>2 DEF Ripe
<1> QED
  BY <1>1, <1>2, <1>3, <1>4

(* poll_event tells what makes the socket ripe.                            *)
LEMMA PollHandlerTells ==
  ASSUME NEW s \in ThreadRecords, NEW cr, NEW seen, s.op = "poll",
         \/ "ABORT" \in seen
         \/ "CONNECT_RESP" \in seen /\ ~cr.connected
         \/ "REMOTE_CLOSED" \in seen
         \/ "SENDTO_READY" \in seen /\ "OUT" \in s.events
         \/ "RECVFROM_AVAIL" \in seen /\ "IN" \in s.events
  PROVE  Handler(s, cr, seen).revents # {}
<1> DEFINE failed == "ABORT" \in seen \/ ("CONNECT_RESP" \in seen /\ ~cr.connected)
           io     == (IF "RECVFROM_AVAIL" \in seen THEN {"IN"} ELSE {}) \cup
                     (IF "SENDTO_READY" \in seen THEN {"OUT"} ELSE {})
           found  == IF failed THEN {"ERR", "HUP"}
                     ELSE IF "REMOTE_CLOSED" \in seen THEN {"HUP", "IN"} ELSE io
<1>1. Handler(s, cr, seen).revents = s.revents \cup FilterPoll(found, s.events)
  BY DEF Handler, poll_event, ThreadRecords
<1>2. CASE failed \/ "REMOTE_CLOSED" \in seen
  <2>1. "HUP" \in found
    BY <1>2
  <2>2. "HUP" \in FilterPoll(found, s.events)
    <3> HIDE DEF found
    <3> QED
      BY <2>1 DEF FilterPoll
  <2> QED
    BY <1>1, <2>2
<1>3. CASE ~failed /\ "REMOTE_CLOSED" \notin seen
  <2>1. found = io
    BY <1>3
  <2>2. FilterPoll(io, s.events) = io \ ({"IN", "OUT"} \ s.events)
    BY DEF FilterPoll
  <2>3. FilterPoll(io, s.events) # {}
    BY <1>3, <2>2
  <2> QED
    BY <1>1, <2>1, <2>3
<1> QED
  BY <1>2, <1>3

(* What an event does to what a connection looks like.                     *)
LEMMA UpdateFields ==
  ASSUME NEW cr \in ConnRecords, NEW ev
  PROVE  LET upd  == StateUpdate(cr, ev)
             resp == IsConnectResponse(cr, ev)
         IN  /\ upd.stream = cr.stream /\ upd.owner = cr.owner /\ upd.list = cr.list
             /\ upd.connected <=> cr.connected \/ (resp /\ cr.result = 0)
             /\ upd.state = IF "ABORT" \in ev THEN "ABORTED"
                            ELSE IF resp THEN "READY" ELSE cr.state
             /\ "REMOTE_CLOSED" \in ev => "REMOTE_CLOSED" \in upd.flags
             /\ "REMOTE_CLOSED" \notin ev =>
                  /\ cr.flags \subseteq upd.flags
                  /\ upd.flags \subseteq cr.flags \cup ev
             /\ ( /\ "REMOTE_CLOSED" \notin upd.flags
                  /\ upd.state \in {"READY", "CONNECTING"} )
                => ev \cap DataEvents \subseteq upd.flags
             /\ upd.flags \subseteq cr.flags \cup ev
<1> DEFINE resp   == IsConnectResponse(cr, ev)
           state  == CASE "ABORT" \in ev -> "ABORTED"
                       [] resp /\ "ABORT" \notin ev -> "READY"
                       [] OTHER -> cr.state
           kept   == IF "REMOTE_CLOSED" \in ev
                     THEN (cr.flags \ DataEvents) \cup {"REMOTE_CLOSED"} ELSE cr.flags
           raised == IF state \in {"READY", "CONNECTING"} /\ "REMOTE_CLOSED" \notin kept
                     THEN ev \cap DataEvents ELSE {}
           upd    == StateUpdate(cr, ev)
<1>1. state = IF "ABORT" \in ev THEN "ABORTED" ELSE IF resp THEN "READY" ELSE cr.state
  BY DEF resp
<1>2. upd = [cr EXCEPT !.state = state, !.connected = @ \/ (resp /\ cr.result = 0),
                       !.flags = kept \cup raised]
  BY DEF StateUpdate
<1> HIDE DEF state
<1>3. /\ upd.stream = cr.stream /\ upd.owner = cr.owner /\ upd.list = cr.list
      /\ upd.state = state /\ upd.flags = kept \cup raised
      /\ upd.connected = (cr.connected \/ (resp /\ cr.result = 0))
  <2> HIDE DEF kept, raised, resp, upd
  <2> QED
    BY <1>2 DEF ConnRecords
<1>4. "REMOTE_CLOSED" \notin DataEvents
  BY DEF DataEvents
<1>5. /\ "REMOTE_CLOSED" \in ev => "REMOTE_CLOSED" \in kept \cup raised
      /\ "REMOTE_CLOSED" \notin ev =>
           /\ cr.flags \subseteq kept \cup raised
           /\ kept \cup raised \subseteq cr.flags \cup ev
      /\ "REMOTE_CLOSED" \notin kept \cup raised /\ state \in {"READY", "CONNECTING"}
           => ev \cap DataEvents \subseteq kept \cup raised
      /\ kept \cup raised \subseteq cr.flags \cup ev
  <2> HIDE DEF resp
  <2> QED
    BY <1>4
<1> HIDE DEF kept, raised, upd, resp
<1> QED
  BY <1>1, <1>3, <1>5 DEF upd, resp

(* An event that a wait for readiness or a poll() hears completes no other *)
(* call: there is none on the connection.                                  *)
LEMMA NothingCompletes ==
  ASSUME ~Shared, ConnInv, WaitInv, ServedInv, NEW c \in Conns, NEW cr \in ConnRecords,
         cr.list = conn[c].list, NEW ev \in SUBSET Events,
         ev = {"REQ_COMPLETE"} \/ ev \subseteq ExternalEvents,
         NEW t \in Threads, thr[t].conn = c, thr[t].pc \in {"rdywait", "pollwait"},
         NEW op \in {"socket", "sendto", "recvfrom"}
  PROVE  ~Completes(StateUpdate(cr, ev), thr, EventsToCallbacks(cr, ev), op)
<1> DEFINE cbs  == EventsToCallbacks(cr, ev)
           list == conn[c].list
<1> SUFFICES ASSUME Completes(StateUpdate(cr, ev), thr, cbs, op) PROVE FALSE
  OBVIOUS
<1>1. StateUpdate(cr, ev).list = list
  BY UpdateFields
<1>2. list \in Seq(Threads)
  BY ConnFacts
<1>3. "REQ_COMPLETE" \in cbs /\ cbs \subseteq {"REQ_COMPLETE", "CONNECT_RESP"}
  <2>1. "REQ_COMPLETE" \in ev
    BY DEF Completes, EventsToCallbacks
  <2>2. "REQ_COMPLETE" \notin ExternalEvents
    BY DEF ExternalEvents, DataEvents
  <2> QED
    BY <2>1, <2>2 DEF EventsToCallbacks
<1> HIDE DEF cbs, list
<1>4. PICK u \in Fired(list, thr, cbs) : thr[u].op = op
  BY <1>1 DEF Completes
<1>5. PICK i \in 1 .. Len(list) : u = list[i] /\ Seen(list, thr, cbs, i) \cap thr[u].cb # {}
  BY <1>4 DEF Fired
<1>6. u \in Range(list)
  BY <1>2, <1>5 DEF Range
<1>7. t \in Range(list)
  BY DEF list, ConnInv, CallbackInv, WaitPlaces
<1>8. u = t
  BY <1>6, <1>7, SoleAlone DEF Alone, list
<1>9. WaitRecord(thr[t])
  BY DEF WaitInv
<1>10. thr[t].pc = "rdywait" /\ thr[t].cb \subseteq ReadyFlags(thr[t].op)
  BY <1>4, <1>8, <1>9 DEF WaitRecord
<1>11. Seen(list, thr, cbs, i) \subseteq cbs
  BY DEF Seen
<1>12. {"REQ_COMPLETE", "CONNECT_RESP"} \cap ReadyFlags(thr[t].op) = {}
  BY DEF ReadyFlags, ReadyEvent
<1> QED
  BY <1>3, <1>5, <1>8, <1>10, <1>11, <1>12

(* The events of the daemon.                                               *)
LEMMA RaisesServed ==
  ASSUME ~Shared, ConnInv, WaitInv, ServedInv,
         NEW c \in Conns, NEW cr \in ConnRecords, NEW ev \in SUBSET Events,
         Finds(c, cr), ev = {"REQ_COMPLETE"} \/ ev \subseteq ExternalEvents,
         usrsock_event(c, cr, ev)
  PROVE  ServedInv'
<1> DEFINE upd  == StateUpdate(cr, ev)
           cbs  == EventsToCallbacks(cr, ev)
           resp == IsConnectResponse(cr, ev)
<1> SUFFICES ASSUME NEW t \in Threads, thr'[t].conn # NoConn
             PROVE  Served(t, thr'[t], conn'[thr'[t].conn])
  BY DEF ServedInv
<1>1. /\ EventLeaves(c, cr, ev) /\ Hears(t, c, cr, ev) /\ c # NoConn /\ upd \in ConnRecords
      /\ thr[t] \in ThreadRecords /\ thr[t].conn \in {NoConn} \cup Conns /\ WaitRecord(thr[t])
  BY EventLeft, EventHeard, NoConnFacts, StateUpdateType, ConnFacts DEF Finds, WaitInv
<1>2. ASSUME NEW seen, thr'[t] = Handler(thr[t], upd, seen)
      PROVE  /\ thr'[t].pc = thr[t].pc /\ thr'[t].op = thr[t].op /\ thr'[t].conn = thr[t].conn
  BY <1>1, <1>2, HandlerType DEF SamePlace
<1>3. CASE thr[t].conn # c
  <2>1. t \notin Range(conn[c].list)
    BY <1>3 DEF ConnInv, CallbackInv
  <2>2. thr'[t] = thr[t]
    BY <1>1, <2>1 DEF Hears
  <2>3. conn'[thr[t].conn] = conn[thr[t].conn]
    BY <1>1, <1>3, <2>2 DEF EventLeaves, OnlyConn
  <2> QED
    BY <2>2, <2>3 DEF ServedInv
<1>4. CASE thr[t].conn = c
  <2>1. /\ thr'[t].pc = thr[t].pc /\ thr'[t].op = thr[t].op /\ thr'[t].conn = c
        /\ Served(t, thr[t], conn[c])
    BY <1>1, <1>2, <1>4 DEF Hears, ServedInv
  <2>2. /\ cr.state = conn[c].state /\ cr.connected = conn[c].connected
        /\ cr.stream = conn[c].stream /\ cr.flags = conn[c].flags /\ cr.owner = conn[c].owner
        /\ cr.list = conn[c].list
    BY DEF Finds
  <2>3. Served(t, thr[t], cr)
    BY <2>1, <2>2, SameServed DEF LooksSame
  <2>4. /\ upd.stream = cr.stream /\ upd.owner = cr.owner
        /\ upd.connected <=> cr.connected \/ (resp /\ cr.result = 0)
        /\ upd.state = IF "ABORT" \in ev THEN "ABORTED" ELSE IF resp THEN "READY" ELSE cr.state
        /\ "REMOTE_CLOSED" \in ev => "REMOTE_CLOSED" \in upd.flags
        /\ "REMOTE_CLOSED" \notin ev =>
             cr.flags \subseteq upd.flags /\ upd.flags \subseteq cr.flags \cup ev
        /\ "REMOTE_CLOSED" \notin upd.flags /\ upd.state \in {"READY", "CONNECTING"}
             => ev \cap DataEvents \subseteq upd.flags
        /\ upd.flags \subseteq cr.flags \cup ev
    BY UpdateFields
  <2>5. /\ conn'[c].owner = cr.owner
        /\ conn'[c].state \in {"READY", upd.state}
    BY <1>1 DEF EventLeaves
  <2>6. OwnSocket(t, thr'[t], conn'[c]) /\ UsedSocket(thr'[t], conn'[c])
    <3> HIDE DEF upd
    <3> QED
      BY <2>1, <2>3, <2>4, <2>5 DEF Served, OwnSocket, UsedSocket
  <2>7. cbs = ev \/ (resp /\ cbs = ev \cup {"CONNECT_RESP"})
    BY DEF EventsToCallbacks
  <2>8. ASSUME thr[t].pc \in {"rdywait", "pollwait"}
        PROVE  /\ LooksSame(upd, conn'[c])
               /\ \/ thr'[t] = thr[t] /\ cbs \cap thr[t].cb = {}
                  \/ cbs \cap thr[t].cb # {} /\ thr'[t] = Handler(thr[t], upd, cbs)
    <3>1. ~SocketBorn(upd, thr, cbs) /\ UsedUp(upd, thr, cbs) = {}
      BY <1>4, <2>2, <2>8, NothingCompletes DEF SocketBorn, UsedUp
    <3>2. t \in Range(conn[c].list)
      BY <1>4, <2>8 DEF ConnInv, CallbackInv, WaitPlaces
    <3>3. Alone(c)
      BY SoleAlone
    <3>4. LooksSame(upd, conn'[c])
      BY <1>1, <2>4, <3>1 DEF EventLeaves, LooksSame
    <3>5. \/ thr'[t] = thr[t] /\ cbs \cap thr[t].cb = {}
          \/ cbs \cap thr[t].cb # {} /\ thr'[t] = Handler(thr[t], upd, cbs)
      BY <1>1, <3>2, <3>3 DEF Hears
    <3> QED
      BY <3>4, <3>5
  <2>9. CASE thr[t].pc = "pollwait"
    <3>1. thr[t].op = "poll" /\ thr[t].cb = PollFlags
      BY <1>1, <2>9 DEF WaitRecord
    <3>2. thr'[t].events = thr[t].events /\ thr[t].revents \subseteq thr'[t].revents
      <4>1. /\ Handler(thr[t], upd, cbs).events = thr[t].events
            /\ thr[t].revents \subseteq Handler(thr[t], upd, cbs).revents
        <5> HIDE DEF upd, cbs
        <5> QED
          BY <1>1, <3>1, HandlerPolls
      <4> QED
        BY <2>8, <2>9, <4>1
    <3>3. PollState(conn'[c], thr'[t].events) # {} <=> Ripe(upd, thr[t].events)
      <4>1. PollState(conn'[c], thr[t].events) = PollState(upd, thr[t].events)
        BY <2>8, <2>9 DEF LooksSame, PollState
      <4> HIDE DEF upd
      <4> QED
        BY <3>2, <4>1, PollStateRipe
    <3>4. ASSUME Ripe(cr, thr[t].events) PROVE thr'[t].revents # {}
      BY <2>3, <2>9, <3>2, <3>4, PollStateRipe DEF Served, PollWoken
    <3>5. ASSUME Ripe(upd, thr[t].events), ~Ripe(cr, thr[t].events) PROVE thr'[t].revents # {}
      <4>1. \/ "ABORT" \in ev
            \/ resp /\ ~upd.connected
            \/ "REMOTE_CLOSED" \in ev
            \/ "SENDTO_READY" \in ev /\ "OUT" \in thr[t].events
            \/ "RECVFROM_AVAIL" \in ev /\ "IN" \in thr[t].events
        <5> HIDE DEF upd
        <5> QED
          BY <2>4, <3>5 DEF Ripe
      <4>2. \/ "ABORT" \in cbs
            \/ "CONNECT_RESP" \in cbs /\ ~upd.connected
            \/ "REMOTE_CLOSED" \in cbs
            \/ "SENDTO_READY" \in cbs /\ "OUT" \in thr[t].events
            \/ "RECVFROM_AVAIL" \in cbs /\ "IN" \in thr[t].events
        BY <4>1 DEF EventsToCallbacks
      <4>3. cbs \cap thr[t].cb # {}
        BY <3>1, <4>2 DEF PollFlags, ExternalEvents, DataEvents
      <4>4. thr'[t] = Handler(thr[t], upd, cbs)
        BY <2>8, <2>9, <4>3
      <4>5. Handler(thr[t], upd, cbs).revents # {}
        <5> HIDE DEF upd, cbs
        <5> QED
          BY <1>1, <3>1, <4>2, PollHandlerTells
      <4> QED
        BY <4>4, <4>5
    <3> QED
      BY <2>1, <2>6, <2>9, <3>3, <3>4, <3>5 DEF Served, PollWoken
  <2>10. CASE thr[t].pc # "pollwait"
    BY <2>1, <2>6, <2>10 DEF Served, PollWoken
  <2> QED
    BY <2>1, <2>9, <2>10
<1> QED
  BY <1>3, <1>4

(* Every step keeps the calls served.                                      *)
LEMMA NextServedInv ==
  ASSUME ~Shared, ConnInv, WaitInv, ServedInv, [Next]_vars
  PROVE  ServedInv'
<1>1. CASE UNCHANGED vars
  BY <1>1 DEF ServedInv, vars
<1>2. /\ thr \in [Threads -> ThreadRecords] /\ conn \in ConnFun
      /\ \A u \in Threads : thr[u].conn \in {NoConn} \cup Conns
  BY ConnFacts
<1>3. ASSUME NEW t, NEW s \in ThreadRecords, s.pc # "rdywait", s.pc # "pollwait",
             NEW p, p # "rdywait", p # "pollwait", NEW cr, Served(t, s, cr)
      PROVE  Served(t, [s EXCEPT !.pc = p], cr)
  <2>1. [s EXCEPT !.pc = p].pc = p /\ [s EXCEPT !.pc = p].op = s.op
    BY <1>3 DEF ThreadRecords
  <2> QED
    BY <1>3, <2>1 DEF Served, OwnSocket, UsedSocket, PollWoken
<1>4. ASSUME NEW u \in Threads, MovesUp(u), NEW cr
      PROVE  /\ thr'[u].conn = thr[u].conn
             /\ Served(u, thr[u], cr) => Served(u, thr'[u], cr)
  <2>1. CASE thr[u].pc = "reqwait" /\ thr'[u] = [thr[u] EXCEPT !.pc = "linegot"]
    <3>1. thr[u] \in ThreadRecords
      BY <1>2
    <3> QED
      BY <1>3, <2>1, <3>1 DEF ThreadRecords
  <2> QED
    BY <1>4, <2>1 DEF MovesUp
<1>5. ASSUME NEW t \in Threads, ThreadStep(t) PROVE ServedInv'
  <2>1. CASE CallForm(t)
    BY <2>1, FormServed
  <2>2. CASE TakeLine(t) \/ LeaveLine(t)
    <3> DEFINE c == thr[t].conn
    <3>1. LineMoves(t) /\ c \in Conns
      BY <2>2, LineForm, ConnFacts DEF LineMoves
    <3>2. /\ OnlyConn(c, conn')
          /\ \A u \in Threads \ {t} : thr[u].conn # c
      <4>1. Kept(c, conn, conn[c].state) /\ Kept(c, Released(c, t), conn[c].state)
        BY <3>1, KeptSame, KeptReleased
      <4>2. OnlyConn(c, conn')
        BY <3>1, <4>1 DEF LineMoves, Kept
      <4> QED
        BY <3>1, <4>2, SoleCall
    <3>3. ASSUME NEW u \in Threads \ {t}, thr'[u].conn # NoConn
          PROVE  Served(u, thr'[u], conn'[thr'[u].conn])
      <4>1. MovesUp(u)
        BY <3>1 DEF LineMoves
      <4>2. thr'[u].conn = thr[u].conn /\ conn'[thr[u].conn] = conn[thr[u].conn]
        BY <1>2, <1>4, <3>2, <3>3, <4>1 DEF OnlyConn
      <4> QED
        BY <1>4, <3>3, <4>1, <4>2 DEF ServedInv
    <3>4. ASSUME thr'[t].conn # NoConn PROVE Served(t, thr'[t], conn'[thr'[t].conn])
      <4>1. IdleThread.conn = NoConn
        BY DEF IdleThread
      <4>2. PICK p \in {"ackwait", "respwait"} : thr'[t] = [thr[t] EXCEPT !.pc = p]
        BY <3>1, <3>4, <4>1 DEF LineMoves
      <4>3. conn' = conn
        BY <3>1, <3>4, <4>1 DEF LineMoves
      <4>4. thr'[t].conn = thr[t].conn /\ thr[t] \in ThreadRecords
        BY <1>2, <4>2 DEF ThreadRecords
      <4>5. Served(t, thr[t], conn[c]) /\ thr[t].pc # "rdywait" /\ thr[t].pc # "pollwait"
        BY <3>1, <3>4, <4>4 DEF ServedInv, LineMoves
      <4> QED
        BY <1>3, <4>2, <4>3, <4>4, <4>5
    <3> QED
      BY <3>3, <3>4 DEF ServedInv
  <2>3. CASE net_timedwait(t)
    <3>1. PICK how : thr' = [thr EXCEPT ![t].wake = how]
      BY <2>3 DEF net_timedwait
    <3>2. conn' = conn
      BY <2>3 DEF net_timedwait
    <3>3. ASSUME NEW u \in Threads
          PROVE  /\ thr'[u].pc = thr[u].pc /\ thr'[u].op = thr[u].op
                 /\ thr'[u].conn = thr[u].conn /\ thr'[u].recvsem = thr[u].recvsem
                 /\ thr'[u].events = thr[u].events /\ thr'[u].revents = thr[u].revents
      <4>1. thr[u] \in ThreadRecords
        BY <1>2
      <4> QED
        BY <1>2, <3>1, <4>1 DEF ThreadRecords
    <3> QED
      BY <3>2, <3>3 DEF ServedInv, Served, OwnSocket, UsedSocket, PollWoken
  <2> QED
    BY <1>5, <2>1, <2>2, <2>3, ThreadForms
<1>6. CASE DaemonStep
  <2>1. CASE conn' = conn /\ \A u \in Threads : MovesUp(u)
    BY <1>4, <2>1 DEF ServedInv
  <2>2. ASSUME NEW c \in Conns, Raises(c) PROVE ServedInv'
    BY <2>2, RaisesServed DEF Raises
  <2>3. ASSUME NEW c \in Conns, Notes(c) PROVE ServedInv'
    <3>1. PICK cr \in ConnRecords : Finds(c, cr) /\ conn' = [conn EXCEPT ![c] = cr]
      BY <2>3 DEF Notes
    <3>2. LooksSame(conn[c], cr)
      BY <3>1 DEF Finds, LooksSame
    <3>3. \A d \in Conns : LooksSame(conn[d], conn'[d])
      BY <1>2, <3>1, <3>2 DEF ConnFun, LooksSame
    <3>4. thr' = thr
      BY <2>3 DEF Notes
    <3> QED
      BY <1>2, <3>3, <3>4, SameServed DEF ServedInv
  <2> QED
    BY <1>6, <2>1, <2>2, <2>3, DaemonForms DEF DaemonForm
<1> QED
  BY <1>1, <1>5, <1>6 DEF Next

(* The calls of an application that shares no socket are served.           *)
LEMMA SpecServedInv ==
  ASSUME ~Shared
  PROVE  Spec => [](ConnInv /\ WaitInv /\ ServedInv)
<1>1. Init => ServedInv
  <2>1. IdleThread.conn = NoConn
    BY DEF IdleThread
  <2> QED
    BY <2>1 DEF Init, ServedInv
<1>2. ConnInv /\ WaitInv /\ ServedInv /\ [Next]_vars => ServedInv'
  BY NextServedInv
<1> QED
  BY <1>1, <1>2, SpecWaitInv, PTL DEF Spec

(* poll() that waits and a new poll() agree when no two threads use one    *)
(* socket: usrsock_pollsetup finds nothing that poll_event has not told.   *)
THEOREM PollCorrect == ~Shared => (Spec => []PollConsistent)
<1> SUFFICES ASSUME ~Shared PROVE Spec => []PollConsistent
  OBVIOUS
<1>1. ConnInv /\ ServedInv => PollConsistent
  <2> SUFFICES ASSUME ConnInv, ServedInv, NEW t \in Threads, thr[t].pc = "pollwait"
               PROVE  PollWoken(thr[t], conn[thr[t].conn])
    BY DEF PollConsistent, PollWoken
  <2>1. thr[t].conn # NoConn
    BY ConnFacts
  <2> QED
    BY <2>1 DEF ServedInv, Served
<1> QED
  BY <1>1, SpecServedInv, PTL

=============================================================================
