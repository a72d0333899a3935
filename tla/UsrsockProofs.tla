--------------------------- MODULE UsrsockProofs ---------------------------
(***************************************************************************)
(* Theorems about module Usrsock, for every number of connections and      *)
(* threads and every behaviour of the daemon the constants allow.          *)
(*                                                                         *)
(* The semaphore arithmetic of the request line needs the types and the    *)
(* type of req.nbusy needs the line, so the two are proved together: Inv   *)
(* is TypeOK, a fact about where connection pointers are set, and LineInv, *)
(* the strengthening of LineCount that is inductive. Every step of a       *)
(* thread outside the request line has an ApiEffect, every step of the     *)
(* daemon outside the end of usrsockdev_close a DaemonEffect, and each of  *)
(* the two preserves Inv; the steps that take, hand over or give back the  *)
(* semaphore are proved one by one.                                        *)
(***************************************************************************)
EXTENDS Usrsock, UsrsockConnProofs, FiniteSetTheorems

LinePlaces == {"reqwait", "linegot", "ackwait"}

Waits(t) == thr[t].pc = "reqwait"
Holds(t) == thr[t].pc \in {"linegot", "ackwait"}

(* Who works on a connection has one, and a device the daemon has not      *)
(* closed yet is open.                                                     *)
PlaceInv ==
  /\ \A t \in Threads : thr[t].pc # "idle" => thr[t].conn # NoConn
  /\ dmn.pc = "event" => dmn.conn # NoConn
  /\ dmn.pc \in {"open", "event", "walk", "step"} => dev.ocount = 1

LineInv ==
  /\ dev.sem \in {0, 1}
  /\ \A t, u \in Threads : Holds(t) /\ Holds(u) => t = u
  /\ dmn.pc = "got" => dev.sem = 0 /\ \A t \in Threads : ~Holds(t)
  /\ dev.sem = 1 => /\ dmn.pc # "wait"
                    /\ \A t \in Threads : ~Holds(t) /\ ~Waits(t)
  /\ dev.sem = 0 => dmn.pc = "got" \/ \E t \in Threads : Holds(t)
  /\ dev.nbusy = Cardinality(OnLine)

Inv == TypeOK /\ PlaceInv /\ LineInv

-----------------------------------------------------------------------------
(* The set of threads on the line                                          *)

(* OnLine is the threads in the three places of usrsockdev_do_request.     *)
LEMMA OnLineSet ==
  /\ OnLine = {t \in Threads : thr[t].pc \in LinePlaces}
  /\ IsFiniteSet(OnLine)
<1>1. OnLine = {t \in Threads : thr[t].pc \in LinePlaces}
  BY DEF OnLine, LineHolder, LinePlaces
<1>2. OnLine \in SUBSET Threads
  BY <1>1
<1> QED
  BY <1>1, <1>2, ConnAssumption, FS_Subset DEF ConnAssumption

(* The threads in usrsockdev_do_request after a step, as a set of threads. *)
LEMMA OnLineSetPrime ==
  /\ OnLine' = {t \in Threads : thr'[t].pc \in LinePlaces}
  /\ IsFiniteSet(OnLine')
<1>1. OnLine' = {t \in Threads : thr'[t].pc \in LinePlaces}
  BY DEF OnLine, LineHolder, LinePlaces
<1>2. OnLine' \in SUBSET Threads
  BY <1>1
<1> QED
  BY <1>1, <1>2, ConnAssumption, FS_Subset DEF ConnAssumption

(* A thread on the line is counted in req.nbusy.                           *)
LEMMA BusyPositive ==
  ASSUME LineInv, NEW t \in Threads, thr[t].pc \in LinePlaces
  PROVE  dev.nbusy \in Nat /\ dev.nbusy # 0
<1>1. t \in OnLine
  BY OnLineSet
<1> QED
  BY <1>1, OnLineSet, FS_CardinalityType, FS_EmptySet DEF LineInv

-----------------------------------------------------------------------------
(* Steps of a thread outside the request line                              *)

(* The thread moves to another place of its call; if that is the line, the *)
(* device is open, and it is counted and takes the semaphore when there is *)
(* one.                                                                    *)
ApiEffect(t) ==
  /\ conn' \in [Conns -> ConnRecords]
  /\ ret' \in Returns
  /\ \E r \in ThreadRecords :
       /\ thr' = [thr EXCEPT ![t] = r]
       /\ r.pc # "idle" => r.conn # NoConn
       /\ \/ r.pc \notin LinePlaces /\ dev' = dev
          \/ /\ r.pc = LineWait
             /\ usrsockdev_is_opened
             /\ dev' = [dev EXCEPT !.nbusy = @ + 1, !.sem = IF @ > 0 THEN @ - 1 ELSE @]

OffLine(t) ==
  /\ thr[t].pc \notin LinePlaces
  /\ ApiEffect(t)
  /\ active' \in Seq(Conns) /\ free' \in Seq(Conns)
  /\ dmn' = dmn

(* The two ways an ApiEffect may go preserve the invariant.                *)
LEMMA OffLineInv ==
  ASSUME Inv, NEW t \in Threads, OffLine(t)
  PROVE  Inv'
<1> USE DEF OffLine
<1>1. PICK r \in ThreadRecords :
        /\ thr' = [thr EXCEPT ![t] = r]
        /\ r.pc # "idle" => r.conn # NoConn
        /\ \/ r.pc \notin LinePlaces /\ dev' = dev
           \/ /\ r.pc = LineWait
              /\ dev' = [dev EXCEPT !.nbusy = @ + 1, !.sem = IF @ > 0 THEN @ - 1 ELSE @]
  BY DEF ApiEffect
<1>2. /\ thr' \in [Threads -> ThreadRecords]
      /\ thr'[t] = r
      /\ \A u \in Threads \ {t} : thr'[u] = thr[u]
  BY <1>1 DEF Inv, TypeOK
<1>3. dev.nbusy \in Nat /\ dev.sem \in {0, 1} /\ dev \in DevRecords
  BY DEF Inv, TypeOK, LineInv, DevRecords
<1>4. dev' \in DevRecords
  <2>1. CASE dev' = dev
    BY <1>3, <2>1
  <2>2. CASE dev' = [dev EXCEPT !.nbusy = @ + 1, !.sem = IF @ > 0 THEN @ - 1 ELSE @]
    <3>1. dev.nbusy + 1 \in Nat /\ (IF dev.sem > 0 THEN dev.sem - 1 ELSE dev.sem) \in Nat
      BY <1>3
    <3>2. ASSUME NEW n \in Nat, NEW m \in Nat
          PROVE  [dev EXCEPT !.nbusy = n, !.sem = m] \in DevRecords
      BY <1>3 DEF DevRecords
    <3> QED
      BY <2>2, <3>1, <3>2
  <2> QED
    BY <1>1, <2>1, <2>2
<1>5. TypeOK'
  BY <1>2, <1>4 DEF Inv, TypeOK, ApiEffect
<1>6. PlaceInv'
  <2>1. dev'.ocount = dev.ocount
    BY <1>1, <1>3 DEF DevRecords
  <2> QED
    BY <1>1, <1>2, <2>1 DEF Inv, PlaceInv
<1>7. LineInv'
  <2>1. CASE r.pc \notin LinePlaces /\ dev' = dev
    <3>1. OnLine' = OnLine
      BY <1>2, <2>1, OnLineSet, OnLineSetPrime
    <3>2. \A u \in Threads : (Holds(u)' <=> Holds(u)) /\ (Waits(u)' <=> Waits(u))
      BY <1>2, <2>1 DEF Holds, Waits, LinePlaces
    <3> QED
      BY <2>1, <3>1, <3>2 DEF Inv, LineInv
  <2>2. CASE /\ r.pc = LineWait
             /\ dev' = [dev EXCEPT !.nbusy = @ + 1, !.sem = IF @ > 0 THEN @ - 1 ELSE @]
    <3>1. r.pc \in LinePlaces
      BY <2>2 DEF LineWait, LinePlaces
    <3>2. OnLine' = OnLine \cup {t} /\ t \notin OnLine
      BY <1>2, <3>1, OnLineSet, OnLineSetPrime
    <3>3. Cardinality(OnLine') = Cardinality(OnLine) + 1
      BY <3>2, OnLineSet, FS_AddElement
    <3>4. /\ dev'.nbusy = dev.nbusy + 1
          /\ dev'.sem = IF dev.sem > 0 THEN dev.sem - 1 ELSE dev.sem
      BY <1>3, <2>2 DEF DevRecords
    <3>5. \A u \in Threads \ {t} : (Holds(u)' <=> Holds(u)) /\ (Waits(u)' <=> Waits(u))
      BY <1>2 DEF Holds, Waits
    <3>6. CASE dev.sem = 1
      <4>1. Holds(t)' /\ ~Waits(t)'
        BY <1>2, <2>2, <3>6 DEF LineWait, Holds, Waits
      <4> QED
        BY <3>3, <3>4, <3>5, <3>6, <4>1 DEF Inv, LineInv
    <3>7. CASE dev.sem = 0
      <4>1. ~Holds(t)' /\ ~Holds(t)
        BY <1>2, <2>2, <3>7 DEF LineWait, Holds, LinePlaces
      <4> QED
        BY <3>3, <3>4, <3>5, <3>7, <4>1 DEF Inv, LineInv
    <3> QED
      BY <1>3, <3>6, <3>7
  <2> QED
    BY <1>1, <2>1, <2>2
<1> QED
  BY <1>5, <1>6, <1>7 DEF Inv

-----------------------------------------------------------------------------
(* The ways a call goes on, each an ApiEffect                              *)

ConnFun == [Conns -> ConnRecords]

(* The values calls return are integers.                                   *)
LEMMA ErrnoTypes ==
  {EINTR, EAGAIN, ENOMEM, EACCES, EBUSY, EINVAL, EPIPE, ENETDOWN, ECONNABORTED,
   ECONNRESET, EISCONN, ENOTCONN, ECONNREFUSED, EALREADY, EINPROGRESS} \subseteq Int
BY DEF EINTR, EAGAIN, ENOMEM, EACCES, EBUSY, EINVAL, EPIPE, ENETDOWN, ECONNABORTED,
       ECONNRESET, EISCONN, ENOTCONN, ECONNREFUSED, EALREADY, EINPROGRESS

(* The null connection is no member of g_usrsock_connections.              *)
LEMMA NoConnFacts == NoConn \notin Conns /\ NoConn = 0
BY ConnAssumption DEF ConnAssumption, NoConn, Conns

(* A step that returns nothing to the application is well typed.           *)
LEMMA NoReturnType == NoReturn \in Returns
BY DEF NoReturn, Returns

(* Changing one field of a connection.                                     *)
LEMMA ConnUpdates ==
  ASSUME NEW cm \in ConnFun, NEW c, NEW t \in Threads
  PROVE  /\ [cm EXCEPT ![c].datain = NoThread] \in ConnFun
         /\ [cm EXCEPT ![c].state = "CONNECTING"] \in ConnFun
         /\ [cm EXCEPT ![c].state = "UNINITIALIZED", ![c].usockid = -1] \in ConnFun
         /\ [cm EXCEPT ![c] = TeardownCallback(@, t)] \in ConnFun
         /\ [cm EXCEPT ![c] = ClearedConn] \in ConnFun
<1>1. CASE c \notin Conns
  BY <1>1 DEF ConnFun
<1>2. CASE c \in Conns
  <2>1. cm[c] \in ConnRecords
    BY <1>2 DEF ConnFun
  <2>2. /\ [cm[c] EXCEPT !.datain = NoThread] \in ConnRecords
        /\ [cm[c] EXCEPT !.state = "CONNECTING"] \in ConnRecords
        /\ [cm[c] EXCEPT !.state = "UNINITIALIZED", !.usockid = -1] \in ConnRecords
    <3>1. ASSUME NEW cr \in ConnRecords
          PROVE  /\ [cr EXCEPT !.datain = NoThread] \in ConnRecords
                 /\ [cr EXCEPT !.state = "CONNECTING"] \in ConnRecords
      BY DEF ConnRecords, ConnStates
    <3>2. ASSUME NEW cr \in ConnRecords, NEW n \in Int
          PROVE  [cr EXCEPT !.state = "UNINITIALIZED", !.usockid = n] \in ConnRecords
      BY DEF ConnRecords, ConnStates
    <3>3. -1 \in Int
      OBVIOUS
    <3>4. [cm[c] EXCEPT !.state = "UNINITIALIZED", !.usockid = -1] \in ConnRecords
      BY <2>1, <3>2, <3>3, Zenon
    <3> QED
      BY <2>1, <3>1, <3>4
  <2>3. TeardownCallback(cm[c], t) \in ConnRecords /\ ClearedConn \in ConnRecords
    BY <2>1, CallbackType, ConstantTypes
  <2> QED
    BY <1>2, <2>2, <2>3 DEF ConnFun
<1> QED
  BY <1>1, <1>2

(* setup_conn_getsockopt and its copies with a null buffer keep the type   *)
(* of the connections.                                                     *)
LEMMA WithoutDataType ==
  ASSUME NEW cm \in ConnFun, NEW c, NEW op, NEW t \in Threads
  PROVE  WithoutData(c, op, cm) \in ConnFun
BY ConnUpdates DEF WithoutData

(* Tearing the callback of a call down keeps the type of the connections.  *)
LEMMA ReleasedType ==
  ASSUME Inv, NEW c, NEW t \in Threads
  PROVE  Released(c, t) \in ConnFun
BY ConnUpdates DEF Released, Inv, TypeOK, ConnFun

(* The call returns.                                                       *)
LEMMA FinishEffect ==
  ASSUME Inv, NEW t \in Threads, NEW op \in ApiCalls \cup {"none"},
         NEW c \in {NoConn} \cup Conns,
         NEW val \in Int, NEW cm \in ConnFun,
         Finish(t, op, c, val, cm), dev' = dev
  PROVE  ApiEffect(t)
<1>1. IdleThread \in ThreadRecords /\ IdleThread.pc = "idle"
  BY ConstantTypes DEF IdleThread
<1>2. ret' \in Returns
  BY DEF Finish, Returns
<1> QED
  BY <1>1, <1>2 DEF Finish, ApiEffect, ConnFun, LinePlaces

(* The record of a call that waits with a callback.                        *)
LEMMA ArmedType ==
  ASSUME NEW op \in ApiCalls \cup {"none"}, NEW c \in Conns, NEW nonblock \in BOOLEAN,
         NEW flags \in SUBSET Events, NEW pc \in Places
  PROVE  LET r == [Armed(op, c, nonblock, flags) EXCEPT !.pc = pc]
         IN  r \in ThreadRecords /\ r.pc = pc /\ r.conn = c /\ r.op = op
<1>1. Armed(op, c, nonblock, flags) \in ThreadRecords
      /\ Armed(op, c, nonblock, flags).conn = c /\ Armed(op, c, nonblock, flags).op = op
  <2>1. EAGAIN \in Int
    BY ErrnoTypes
  <2>2. ASSUME NEW s \in ThreadRecords, NEW e \in Int
        PROVE  LET r == [s EXCEPT !.op = op, !.conn = c, !.nonblock = nonblock,
                                  !.cb = flags, !.result = e]
               IN  r \in ThreadRecords /\ r.conn = c /\ r.op = op
    BY DEF ThreadRecords
  <2> QED
    BY <2>1, <2>2, ConstantTypes DEF Armed
<1>2. ASSUME NEW s \in ThreadRecords
      PROVE  LET r == [s EXCEPT !.pc = pc]
             IN  r \in ThreadRecords /\ r.pc = pc /\ r.conn = s.conn /\ r.op = s.op
  BY DEF ThreadRecords
<1> QED
  BY <1>1, <1>2

(* The call goes to the request line.                                      *)
LEMMA RequestEffect ==
  ASSUME Inv, NEW t \in Threads, NEW op \in ApiCalls \cup {"none"}, NEW c \in Conns,
         NEW nonblock \in BOOLEAN, NEW cm \in ConnFun, usrsockdev_is_opened,
         usrsockdev_do_request(t, op, c, nonblock, cm)
  PROVE  ApiEffect(t)
<1> DEFINE flags == {"ABORT", "REQ_COMPLETE"}
           r     == [Armed(op, c, nonblock, flags) EXCEPT !.pc = LineWait]
<1>1. r \in ThreadRecords /\ r.pc = LineWait /\ r.conn = c
  <2>1. flags \in SUBSET Events /\ LineWait \in Places
    BY DEF Events, InternalEvents, ExternalEvents, LineWait, Places
  <2> HIDE DEF flags
  <2> QED
    BY <2>1, ArmedType
<1>2. conn' \in ConnFun
  <2>1. SetupCallback(cm[c], t) \in ConnRecords
    BY CallbackType DEF ConnFun
  <2>2. ASSUME NEW cr \in ConnRecords, NEW e \in Int, NEW d \in Threads \cup {NoThread}
        PROVE  [cr EXCEPT !.xid = c, !.result = e, !.datain = d] \in ConnRecords
    BY DEF ConnRecords
  <2>3. EACCES \in Int /\ SetupCallback(cm[c], t).datain \in Threads \cup {NoThread}
    BY <2>1, ErrnoTypes DEF ConnRecords
  <2> DEFINE cr == SetupCallback(cm[c], t)
             d  == IF op \in DataRequests THEN t ELSE cr.datain
  <2>4. [cr EXCEPT !.xid = c, !.result = EACCES, !.datain = d] \in ConnRecords
    BY <2>1, <2>2, <2>3
  <2>5. conn' = [cm EXCEPT ![c] = [cr EXCEPT !.xid = c, !.result = EACCES, !.datain = d]]
    BY DEF usrsockdev_do_request, usrsockdev_get_xid, ConnFun
  <2> QED
    BY <2>4, <2>5 DEF ConnFun
<1> QED
  BY <1>1, <1>2, NoReturnType, NoConnFacts DEF usrsockdev_do_request, ApiEffect, ConnFun

(* StartRequest either ends the call off the line or puts one more thread  *)
(* into usrsockdev_do_request.                                             *)
LEMMA StartEffect ==
  ASSUME Inv, NEW t \in Threads, NEW op \in ApiCalls \cup {"none"}, NEW c \in Conns,
         NEW nonblock \in BOOLEAN, NEW cm \in ConnFun, NEW marked \in ConnFun,
         StartRequest(t, op, c, nonblock, cm, marked)
  PROVE  ApiEffect(t)
<1>1. CASE Finish(t, op, c, EBUSY, cm) /\ dev' = dev
  BY <1>1, FinishEffect, ErrnoTypes
<1>2. CASE Finish(t, op, c, ENETDOWN, WithoutData(c, op, marked)) /\ dev' = dev
  BY <1>2, FinishEffect, WithoutDataType, ErrnoTypes
<1>3. CASE usrsockdev_is_opened /\ usrsockdev_do_request(t, op, c, nonblock, marked)
  BY <1>3, RequestEffect
<1> QED
  BY <1>1, <1>2, <1>3 DEF StartRequest

(* close() goes on to usrsock_free.                                        *)
LEMMA CloseOutEffect ==
  ASSUME Inv, NEW t \in Threads, NEW c \in Conns, NEW cm \in ConnFun,
         CloseOut(t, c, cm), dev' = dev
  PROVE  ApiEffect(t)
<1> DEFINE r == [IdleThread EXCEPT !.pc = "freeing", !.op = "close", !.conn = c]
<1>1. r \in ThreadRecords /\ r.pc = "freeing" /\ r.conn = c
  <2>1. ASSUME NEW s \in ThreadRecords
        PROVE  LET q == [s EXCEPT !.pc = "freeing", !.op = "close", !.conn = c]
               IN  q \in ThreadRecords /\ q.pc = "freeing" /\ q.conn = c
    BY DEF ThreadRecords, Places, ApiCalls, Requests
  <2> QED
    BY <2>1, ConstantTypes
<1>2. conn' \in ConnFun
  BY ConnUpdates DEF CloseOut
<1> QED
  BY <1>1, <1>2, NoReturnType, NoConnFacts DEF CloseOut, ApiEffect, ConnFun, LinePlaces

(* sendto() and recvfrom() wait for readiness.                             *)
LEMMA WaitReadyEffect ==
  ASSUME Inv, NEW t \in Threads, NEW op \in IoCalls, NEW c \in Conns,
         NEW nonblock \in BOOLEAN, NEW cm \in ConnFun,
         WaitReady(t, op, c, nonblock, cm)
  PROVE  ApiEffect(t)
<1> DEFINE flags == {"ABORT", "REMOTE_CLOSED", ReadyEvent(op)}
           r     == [Armed(op, c, nonblock, flags) EXCEPT !.pc = "rdywait"]
<1>1. r \in ThreadRecords /\ r.pc = "rdywait" /\ r.conn = c
  <2>1. /\ flags \in SUBSET Events /\ "rdywait" \in Places /\ op \in ApiCalls
    BY DEF Events, ExternalEvents, DataEvents, ReadyEvent, Places, ApiCalls, Requests, IoCalls
  <2> HIDE DEF flags
  <2> QED
    BY <2>1, ArmedType
<1>2. conn' \in ConnFun
  BY CallbackType DEF ConnFun, WaitReady
<1> QED
  BY <1>1, <1>2, NoReturnType, NoConnFacts DEF WaitReady, ApiEffect, ConnFun, LinePlaces

(* One turn of the loop of usrsock_sendto and usrsock_recvfrom ends the    *)
(* call, waits for readiness off the line, or starts a request.            *)
LEMMA IoLoopEffect ==
  ASSUME Inv, NEW t \in Threads, NEW op \in IoCalls, NEW c \in Conns,
         NEW nonblock \in BOOLEAN, NEW cm \in ConnFun,
         IoLoop(t, op, c, nonblock, cm)
  PROVE  ApiEffect(t)
<1>1. op \in Requests /\ op \in ApiCalls /\ RemoteClosedResult(op) \in Int
  BY ErrnoTypes DEF IoCalls, ApiCalls, Requests, RemoteClosedResult
<1>2. CASE Finish(t, op, c, RemoteClosedResult(op), cm) /\ dev' = dev
  BY <1>1, <1>2, FinishEffect
<1>3. CASE Finish(t, op, c, EAGAIN, cm) /\ dev' = dev
  BY <1>1, <1>3, FinishEffect, ErrnoTypes
<1>4. CASE Finish(t, op, c, EBUSY, cm) /\ dev' = dev
  BY <1>1, <1>4, FinishEffect, ErrnoTypes
<1>5. CASE WaitReady(t, op, c, nonblock, cm)
  BY <1>5, WaitReadyEffect
<1>6. CASE StartRequest(t, op, c, nonblock, cm, cm)
  BY <1>1, <1>6, StartEffect
<1> QED
  BY <1>2, <1>3, <1>4, <1>5, <1>6 DEF IoLoop

(* usrsock_socket fails and frees its connection.                          *)
LEMMA FailSocketEffect ==
  ASSUME Inv, NEW t \in Threads, NEW c \in Conns, NEW err \in Int, NEW cm \in ConnFun,
         FailSocket(t, c, err, cm), dev' = dev
  PROVE  ApiEffect(t) /\ active' \in Seq(Conns) /\ free' \in Seq(Conns)
<1>1. active' \in Seq(Conns)
  BY RemoveFirstType DEF FailSocket, usrsock_free, Inv, TypeOK
<1>2. free' \in Seq(Conns)
  BY AppendProperties DEF FailSocket, usrsock_free, Inv, TypeOK
<1>3. conn' \in ConnFun
  BY ConnUpdates DEF FailSocket, usrsock_free
<1>4. ret' \in Returns
  BY DEF FailSocket, Returns, ApiCalls, Requests
<1>5. IdleThread \in ThreadRecords /\ IdleThread.pc = "idle"
  BY ConstantTypes DEF IdleThread
<1> QED
  BY <1>1, <1>2, <1>3, <1>4, <1>5 DEF FailSocket, ApiEffect, ConnFun, LinePlaces

-----------------------------------------------------------------------------
(* The steps of the API calls                                              *)

(* A step that leaves the connection lists alone.                          *)
LEMMA OffLineStep ==
  ASSUME Inv, NEW t \in Threads, thr[t].pc \notin LinePlaces, ApiEffect(t),
         UNCHANGED <<lists, dmn>>
  PROVE  OffLine(t)
BY DEF OffLine, lists, Inv, TypeOK

(* The connection a call works on is typed.                                *)
LEMMA ConnType ==
  ASSUME Inv
  PROVE  /\ conn \in ConnFun
         /\ \A t \in Threads : /\ thr[t] \in ThreadRecords
                               /\ thr[t].conn \in {NoConn} \cup Conns
                               /\ thr[t].pc # "idle" => thr[t].conn \in Conns
                               /\ thr[t].result \in Int
                               /\ thr[t].nonblock \in BOOLEAN
                               /\ thr[t].op \in ApiCalls \cup {"none"}
<1>1. \A t \in Threads : thr[t] \in ThreadRecords
  BY DEF Inv, TypeOK
<1> QED
  BY <1>1 DEF ConnFun, Inv, TypeOK, ThreadRecords, PlaceInv

(* socket() up to usrsock_alloc does not touch the request line.           *)
LEMMA SocketCallOffLine ==
  ASSUME Inv, NEW t \in Threads, SocketCall(t)
  PROVE  OffLine(t)
<1>1. thr[t].pc \notin LinePlaces
  BY DEF SocketCall, LinePlaces
<1>2. CASE Finish(t, "socket", NoConn, ENOMEM, conn) /\ UNCHANGED lists
  BY <1>1, <1>2, FinishEffect, OffLineStep, ConnType, ErrnoTypes
     DEF SocketCall, ApiCalls, Requests
<1>3. ASSUME NEW c \in Conns, free # << >>, usrsock_alloc(t, c),
             thr' = [thr EXCEPT ![t] = [IdleThread EXCEPT !.pc = "alloced",
                                          !.op = "socket", !.conn = c]],
             ret' = NoReturn
      PROVE  OffLine(t)
  <2> DEFINE r == [IdleThread EXCEPT !.pc = "alloced", !.op = "socket", !.conn = c]
  <2>1. r \in ThreadRecords /\ r.pc = "alloced" /\ r.conn = c
    <3>1. ASSUME NEW s \in ThreadRecords
          PROVE  LET q == [s EXCEPT !.pc = "alloced", !.op = "socket", !.conn = c]
                 IN  q \in ThreadRecords /\ q.pc = "alloced" /\ q.conn = c
      BY DEF ThreadRecords, Places, ApiCalls, Requests
    <3> QED
      BY <3>1, ConstantTypes
  <2>2. active' \in Seq(Conns)
    BY <1>3, AppendProperties DEF usrsock_alloc, Inv, TypeOK
  <2>3. free' \in Seq(Conns)
    BY <1>3, HeadTailProperties DEF usrsock_alloc, Inv, TypeOK
  <2>4. conn' \in [Conns -> ConnRecords]
    BY <1>3, ConnUpdates DEF usrsock_alloc, Inv, TypeOK, ConnFun
  <2>5. ApiEffect(t)
    BY <1>3, <2>1, <2>4, NoReturnType, NoConnFacts DEF ApiEffect, SocketCall, LinePlaces
  <2> QED
    BY <1>1, <2>2, <2>3, <2>5 DEF OffLine, SocketCall
<1> QED
  BY <1>2, <1>3 DEF SocketCall

(* The error paths of usrsock_socket leave the line alone.                 *)
LEMMA FailSocketOffLine ==
  ASSUME Inv, NEW t \in Threads, NEW c \in Conns, NEW err \in Int, NEW cm \in ConnFun,
         thr[t].pc \notin LinePlaces, FailSocket(t, c, err, cm), dev' = dev, dmn' = dmn
  PROVE  OffLine(t)
BY FailSocketEffect DEF OffLine

(* usrsock_socket fails off the line or starts its request.                *)
LEMMA SocketOffLine ==
  ASSUME Inv, NEW t \in Threads, usrsock_socket(t)
  PROVE  OffLine(t)
<1> DEFINE c == thr[t].conn
<1>1. thr[t].pc \notin LinePlaces /\ c \in Conns
  BY ConnType DEF usrsock_socket, LinePlaces
<1>2. CASE /\ usrsockdev_is_opened
           /\ usrsockdev_do_request(t, "socket", c, FALSE, conn) /\ UNCHANGED lists
  <2>1. ApiEffect(t)
    BY <1>1, <1>2, RequestEffect, ConnType DEF ApiCalls, Requests
  <2> QED
    BY <1>1, <1>2, <2>1, OffLineStep DEF usrsock_socket
<1>3. ASSUME NEW err \in {EBUSY, EINVAL, ENETDOWN}, FailSocket(t, c, err, conn), dev' = dev
      PROVE  OffLine(t)
  <2>1. err \in Int
    BY ErrnoTypes
  <2> QED
    BY <1>1, <1>3, <2>1, FailSocketOffLine, ConnType DEF usrsock_socket
<1> QED
  BY <1>2, <1>3 DEF usrsock_socket

(* usrsock_close ends off the line or starts its request.                  *)
LEMMA CloseOffLine ==
  ASSUME Inv, NEW t \in Threads, NEW c \in Conns, usrsock_close(t, c)
  PROVE  OffLine(t)
<1>1. thr[t].pc \notin LinePlaces /\ "close" \in ApiCalls /\ "close" \in Requests
  BY DEF usrsock_close, MayUse, LinePlaces, ApiCalls, Requests
<1>2. CASE /\ conn[c].crefs > 1
           /\ Finish(t, "close", c, 0, [conn EXCEPT ![c].crefs = @ - 1]) /\ UNCHANGED dev
  <2>1. conn[c] \in ConnRecords
    BY ConnType DEF ConnFun
  <2>2. conn[c].crefs - 1 \in Nat
    BY <1>2, <2>1 DEF ConnRecords
  <2>3. ASSUME NEW n \in Nat
        PROVE  [conn EXCEPT ![c].crefs = n] \in ConnFun
    <3>1. [conn[c] EXCEPT !.crefs = n] \in ConnRecords
      BY <2>1 DEF ConnRecords
    <3> QED
      BY <3>1, ConnType DEF ConnFun
  <2> QED
    BY <1>1, <1>2, <2>2, <2>3, FinishEffect, OffLineStep DEF usrsock_close
<1>3. CASE CloseOut(t, c, conn) /\ UNCHANGED dev
  BY <1>1, <1>3, CloseOutEffect, ConnType, OffLineStep DEF usrsock_close
<1>4. CASE Finish(t, "close", c, EBUSY, conn) /\ UNCHANGED dev
  BY <1>1, <1>4, FinishEffect, ErrnoTypes, ConnType, OffLineStep DEF usrsock_close
<1>5. CASE usrsockdev_is_opened /\ usrsockdev_do_request(t, "close", c, FALSE, conn)
  BY <1>1, <1>5, RequestEffect, ConnType, OffLineStep DEF usrsock_close
<1> QED
  BY <1>2, <1>3, <1>4, <1>5 DEF usrsock_close

(* psock_close frees the connection without touching the line.             *)
LEMMA PsockCloseOffLine ==
  ASSUME Inv, NEW t \in Threads, psock_close(t)
  PROVE  OffLine(t)
<1> DEFINE c == thr[t].conn
<1>1. thr[t].pc \notin LinePlaces /\ c \in Conns
  BY ConnType DEF psock_close, LinePlaces
<1>2. active' \in Seq(Conns)
  BY RemoveFirstType DEF psock_close, usrsock_free, Inv, TypeOK
<1>3. free' \in Seq(Conns)
  BY <1>1, AppendProperties DEF psock_close, usrsock_free, Inv, TypeOK
<1>4. conn' \in ConnFun
  BY ConnUpdates, ConnType DEF psock_close, usrsock_free
<1>5. ret' \in Returns
  BY DEF psock_close, Returns, ApiCalls, Requests
<1>6. IdleThread \in ThreadRecords /\ IdleThread.pc = "idle"
  BY ConstantTypes DEF IdleThread
<1>7. ApiEffect(t)
  BY <1>4, <1>5, <1>6 DEF psock_close, ApiEffect, ConnFun, LinePlaces
<1> QED
  BY <1>1, <1>2, <1>3, <1>7 DEF OffLine, psock_close

(* net_clone only counts a reference.                                      *)
LEMMA CloneOffLine ==
  ASSUME Inv, NEW t \in Threads, NEW c \in Conns, net_clone(t, c)
  PROVE  OffLine(t)
<1>1. conn[c] \in ConnRecords
  BY ConnType DEF ConnFun
<1>2. conn[c].crefs + 1 \in Nat
  BY <1>1 DEF ConnRecords
<1>3. ASSUME NEW n \in Nat
      PROVE  [conn EXCEPT ![c].crefs = n] \in ConnFun
  <2>1. [conn[c] EXCEPT !.crefs = n] \in ConnRecords
    BY <1>1 DEF ConnRecords
  <2> QED
    BY <2>1, ConnType DEF ConnFun
<1>4. conn' \in ConnFun
  BY <1>2, <1>3 DEF net_clone
<1>5. thr[t] \in ThreadRecords /\ thr' = [thr EXCEPT ![t] = thr[t]] /\ thr[t].pc = "idle"
  BY ConnType DEF net_clone, MayUse, Inv, TypeOK
<1>6. ApiEffect(t)
  BY <1>4, <1>5, NoReturnType DEF net_clone, ApiEffect, ConnFun, LinePlaces
<1> QED
  BY <1>5, <1>6, OffLineStep DEF net_clone, LinePlaces

SimpleOps == {"bind", "setsockopt", "getsockopt", "getsockname"}

(* bind(), setsockopt(), getsockopt() and getsockname() end off the line   *)
(* or start their request.                                                 *)
LEMMA SimpleOffLine ==
  ASSUME Inv, NEW t \in Threads, NEW c \in Conns, NEW op \in SimpleOps,
         SimpleRequest(t, op, c) \/ BadOption(t, op, c)
  PROVE  OffLine(t)
<1>1. thr[t].pc \notin LinePlaces /\ op \in ApiCalls /\ op \in Requests
  BY DEF SimpleRequest, BadOption, MayUse, LinePlaces, ApiCalls, Requests, SimpleOps
<1>2. UNCHANGED <<lists, dmn>>
  BY DEF SimpleRequest, BadOption
<1>3. CASE SimpleRequest(t, op, c) /\ Unusable(c)
  <2>1. (IF conn[c].state = "ABORTED" THEN EPIPE ELSE ECONNRESET) \in Int
    BY ErrnoTypes
  <2> QED
    BY <1>1, <1>2, <1>3, <2>1, FinishEffect, ConnType, OffLineStep DEF SimpleRequest
<1>4. CASE SimpleRequest(t, op, c) /\ ~Unusable(c)
  BY <1>1, <1>2, <1>4, StartEffect, ConnType, OffLineStep DEF SimpleRequest
<1>5. CASE BadOption(t, op, c)
  BY <1>1, <1>2, <1>5, FinishEffect, WithoutDataType, ErrnoTypes, ConnType, OffLineStep
     DEF BadOption
<1> QED
  BY <1>3, <1>4, <1>5

(* usrsock_connect ends off the line or starts its request.                *)
LEMMA ConnectOffLine ==
  ASSUME Inv, NEW t \in Threads, NEW c \in Conns, usrsock_connect(t, c)
  PROVE  OffLine(t)
<1>1. thr[t].pc \notin LinePlaces /\ "connect" \in ApiCalls /\ "connect" \in Requests
  BY DEF usrsock_connect, MayUse, LinePlaces, ApiCalls, Requests
<1>2. ASSUME NEW val \in {EPIPE, ECONNREFUSED, EISCONN, EALREADY},
             Finish(t, "connect", c, val, conn), UNCHANGED dev
      PROVE  OffLine(t)
  <2>1. val \in Int
    BY ErrnoTypes
  <2> QED
    BY <1>1, <1>2, <2>1, FinishEffect, ConnType, OffLineStep DEF usrsock_connect
<1>3. ASSUME NEW nonblock \in NonBlock,
             StartRequest(t, "connect", c, nonblock, conn,
                          [conn EXCEPT ![c].state = "CONNECTING"])
      PROVE  OffLine(t)
  <2>1. nonblock \in BOOLEAN
    BY UsrsockAssumption DEF UsrsockAssumption
  <2>2. [conn EXCEPT ![c].state = "CONNECTING"] \in ConnFun
    BY ConnUpdates, ConnType
  <2>3. ApiEffect(t)
    BY <1>1, <1>3, <2>1, <2>2, StartEffect, ConnType
  <2> QED
    BY <1>1, <2>3, OffLineStep DEF usrsock_connect
<1> QED
  BY <1>2, <1>3 DEF usrsock_connect

(* sendto() and recvfrom() end, wait for readiness, or start their         *)
(* request.                                                                *)
LEMMA IoCallOffLine ==
  ASSUME Inv, NEW t \in Threads, NEW c \in Conns, NEW op \in IoCalls, IoCall(t, op, c)
  PROVE  OffLine(t)
<1>1. thr[t].pc \notin LinePlaces /\ op \in ApiCalls
  BY DEF IoCall, MayUse, LinePlaces, IoCalls, ApiCalls, Requests
<1>2. ASSUME NEW val \in {EPIPE, ECONNRESET, EAGAIN, ENOTCONN},
             Finish(t, op, c, val, conn), UNCHANGED dev
      PROVE  OffLine(t)
  <2>1. val \in Int
    BY ErrnoTypes
  <2> QED
    BY <1>1, <1>2, <2>1, FinishEffect, ConnType, OffLineStep DEF IoCall
<1>3. ASSUME NEW nonblock \in NonBlock, IoLoop(t, op, c, nonblock, conn)
      PROVE  OffLine(t)
  <2>1. nonblock \in BOOLEAN
    BY UsrsockAssumption DEF UsrsockAssumption
  <2> QED
    BY <1>1, <1>3, <2>1, IoLoopEffect, ConnType, OffLineStep DEF IoCall
<1> QED
  BY <1>2, <1>3 DEF IoCall

(* The argument errors of sendto() and recvfrom() leave the line alone.    *)
LEMMA IoArgumentsOffLine ==
  ASSUME Inv, NEW t \in Threads, NEW c \in Conns,
         SendtoWithAddress(t, c) \/ RecvfromBadBuffer(t, c)
  PROVE  OffLine(t)
<1>1. /\ thr[t].pc \notin LinePlaces
      /\ UNCHANGED <<lists, dmn>> /\ dev' = dev
      /\ "sendto" \in ApiCalls /\ "recvfrom" \in ApiCalls
  BY DEF SendtoWithAddress, RecvfromBadBuffer, MayUse, LinePlaces, ApiCalls, Requests
<1>2. \E op \in ApiCalls, val \in Int : Finish(t, op, c, val, conn)
  BY <1>1, ErrnoTypes DEF SendtoWithAddress, RecvfromBadBuffer
<1> QED
  BY <1>1, <1>2, FinishEffect, ConnType, OffLineStep

(* The end of the wait for readiness ends the call or starts its request.  *)
LEMMA IoReadyOffLine ==
  ASSUME Inv, NEW t \in Threads, IoReady(t)
  PROVE  OffLine(t)
<1> DEFINE c  == thr[t].conn
           op == thr[t].op
           cm == Released(c, t)
<1>1. /\ thr[t].pc \notin LinePlaces /\ UNCHANGED <<lists, dmn>>
      /\ c \in Conns /\ op \in ApiCalls \cup {"none"}
  BY ConnType DEF IoReady, LinePlaces
<1>2. cm \in ConnFun /\ thr[t].nonblock \in BOOLEAN
  BY ReleasedType, ConnType
<1>3. ASSUME NEW val \in {EAGAIN, EINTR, EPIPE, RemoteClosedResult(op)},
             Finish(t, op, c, val, cm), UNCHANGED dev
      PROVE  OffLine(t)
  <2>1. val \in Int
    BY ErrnoTypes DEF RemoteClosedResult
  <2> QED
    BY <1>1, <1>2, <1>3, <2>1, FinishEffect, OffLineStep
<1>4. ASSUME StartRequest(t, op, c, thr[t].nonblock, cm, cm)
      PROVE  OffLine(t)
  BY <1>1, <1>2, <1>4, StartEffect, OffLineStep
<1> QED
  BY <1>3, <1>4 DEF IoReady

(* usrsock_pollsetup leaves the line alone.                                *)
LEMMA PollsetupOffLine ==
  ASSUME Inv, NEW t \in Threads, NEW c \in Conns, NEW wanted \in PollMasks,
         usrsock_pollsetup(t, c, wanted)
  PROVE  OffLine(t)
<1>1. /\ thr[t].pc \notin LinePlaces /\ UNCHANGED <<lists, dmn>> /\ dev' = dev
      /\ "poll" \in ApiCalls
  BY DEF usrsock_pollsetup, MayUse, LinePlaces, ApiCalls
<1>2. CASE Finish(t, "poll", c, EBUSY, conn)
  BY <1>1, <1>2, FinishEffect, ErrnoTypes, ConnType, OffLineStep
<1>3. CASE ~Finish(t, "poll", c, EBUSY, conn)
  <2> DEFINE flags == ExternalEvents \cup {"CONNECT_RESP"}
             a == Armed("poll", c, FALSE, flags)
             r == [a EXCEPT !.pc = "pollwait", !.events = wanted,
                            !.revents = PollState(conn[c], wanted)]
  <2>1. a \in ThreadRecords /\ a.conn = c
    <3>1. flags \in SUBSET Events /\ EAGAIN \in Int
      BY ErrnoTypes DEF Events, InternalEvents
    <3>2. ASSUME NEW s \in ThreadRecords, NEW f \in SUBSET Events, NEW e \in Int
          PROVE  LET q == [s EXCEPT !.op = "poll", !.conn = c, !.nonblock = FALSE,
                                    !.cb = f, !.result = e]
                 IN  q \in ThreadRecords /\ q.conn = c
      BY DEF ThreadRecords, ApiCalls
    <3> HIDE DEF flags
    <3> QED
      BY <3>1, <3>2, ConstantTypes DEF Armed
  <2>2. wanted \in SUBSET PollEvents /\ PollState(conn[c], wanted) \in SUBSET PollEvents
    BY UsrsockAssumption DEF UsrsockAssumption, PollState, FilterPoll, PollEvents
  <2>3. ASSUME NEW s \in ThreadRecords, NEW e \in SUBSET PollEvents, NEW f \in SUBSET PollEvents
        PROVE  LET q == [s EXCEPT !.pc = "pollwait", !.events = e, !.revents = f]
               IN  q \in ThreadRecords /\ q.pc = "pollwait" /\ q.conn = s.conn
    BY DEF ThreadRecords, Places
  <2>4. r \in ThreadRecords /\ r.pc = "pollwait" /\ r.conn = c
    <3> HIDE DEF a
    <3> QED
      BY <2>1, <2>2, <2>3
  <2>5. conn' \in ConnFun
    BY <1>3, CallbackType, ConnType DEF ConnFun, usrsock_pollsetup
  <2>6. thr' = [thr EXCEPT ![t] = r] /\ ret' = NoReturn
    BY <1>3 DEF usrsock_pollsetup
  <2>7. ApiEffect(t)
    <3> HIDE DEF r
    <3> QED
      BY <1>1, <2>4, <2>5, <2>6, NoReturnType, NoConnFacts DEF ApiEffect, ConnFun, LinePlaces
  <2> QED
    BY <1>1, <2>7, OffLineStep
<1> QED
  BY <1>2, <1>3

(* usrsock_pollteardown leaves the line alone.                             *)
LEMMA PollteardownOffLine ==
  ASSUME Inv, NEW t \in Threads, usrsock_pollteardown(t)
  PROVE  OffLine(t)
<1>1. /\ thr[t].pc \notin LinePlaces /\ "poll" \in ApiCalls
      /\ (IF thr[t].revents = {} THEN 0 ELSE 1) \in Int
  BY DEF usrsock_pollteardown, LinePlaces, ApiCalls
<1> QED
  BY <1>1, FinishEffect, ReleasedType, ConnType, OffLineStep DEF usrsock_pollteardown

(* A connect() interrupted by a signal left the line before.               *)
LEMMA ConnectInterruptedOffLine ==
  ASSUME Inv, NEW t \in Threads, ConnectInterrupted(t)
  PROVE  OffLine(t)
<1>1. thr[t].pc \notin LinePlaces /\ "connect" \in ApiCalls
  BY DEF ConnectInterrupted, LinePlaces, ApiCalls, Requests
<1> QED
  BY <1>1, FinishEffect, ReleasedType, ErrnoTypes, ConnType, OffLineStep
     DEF ConnectInterrupted

(* A wait that net_timedwait gives up is a wait off the line.              *)
LEMMA TimedwaitOffLine ==
  ASSUME Inv, NEW t \in Threads, net_timedwait(t)
  PROVE  OffLine(t)
<1>1. PICK how \in {"timeout", "signal"} : thr' = [thr EXCEPT ![t].wake = how]
  BY DEF net_timedwait
<1>2. thr[t].pc \notin LinePlaces
  BY DEF net_timedwait, LinePlaces
<1> DEFINE r == [thr[t] EXCEPT !.wake = how]
<1>3. r \in ThreadRecords /\ r.pc = thr[t].pc /\ r.conn = thr[t].conn
  <2>1. ASSUME NEW s \in ThreadRecords
        PROVE  LET q == [s EXCEPT !.wake = how]
               IN  q \in ThreadRecords /\ q.pc = s.pc /\ q.conn = s.conn
    BY DEF ThreadRecords
  <2> QED
    BY <2>1, ConnType
<1>4. thr' = [thr EXCEPT ![t] = r] /\ conn' \in ConnFun /\ ret' = NoReturn /\ dev' = dev
  BY <1>1, ConnType DEF net_timedwait
<1>5. r.pc # "idle" => r.conn # NoConn
  BY <1>3, ConnType, NoConnFacts
<1>6. ApiEffect(t)
  <2> HIDE DEF r
  <2> QED
    BY <1>2, <1>3, <1>4, <1>5, NoReturnType DEF ApiEffect, ConnFun
<1> QED
  BY <1>2, <1>6, OffLineStep DEF net_timedwait

(* A completed request left the line before: what the call does next       *)
(* starts off the line.                                                    *)
LEMMA RequestDoneOffLine ==
  ASSUME Inv, NEW t \in Threads, RequestDone(t)
  PROVE  OffLine(t)
<1> DEFINE c  == thr[t].conn
           op == thr[t].op
           cm == Released(c, t)
<1>1. thr[t].pc \notin LinePlaces /\ c \in Conns /\ dmn' = dmn
  BY ConnType DEF RequestDone, LinePlaces
<1>2. cm \in ConnFun /\ thr[t].result \in Int /\ thr[t].nonblock \in BOOLEAN
  BY ReleasedType, ConnType
<1>3. CASE SocketDone(t, c) /\ UNCHANGED dev
  <2>1. CASE FailSocket(t, c, thr[t].result, cm)
    BY <1>1, <1>2, <1>3, <2>1, FailSocketOffLine
  <2>2. ASSUME NEW stream \in StreamTypes,
               Finish(t, "socket", c, 0,
                    [conn EXCEPT ![c] = [TeardownCallback(@, t) EXCEPT
                       !.stream = stream, !.crefs = 1, !.owner = t]]),
               UNCHANGED lists
        PROVE  OffLine(t)
    <3>1. stream \in BOOLEAN
      BY UsrsockAssumption DEF UsrsockAssumption
    <3>2. TeardownCallback(conn[c], t) \in ConnRecords
      BY <1>1, ConnType, CallbackType DEF ConnFun
    <3>3. ASSUME NEW cr \in ConnRecords
          PROVE  [cr EXCEPT !.stream = stream, !.crefs = 1, !.owner = t] \in ConnRecords
      BY <3>1 DEF ConnRecords
    <3>4. [conn EXCEPT ![c] = [TeardownCallback(@, t) EXCEPT
                       !.stream = stream, !.crefs = 1, !.owner = t]] \in ConnFun
      BY <1>1, <3>2, <3>3, ConnType DEF ConnFun
    <3>5. "socket" \in ApiCalls \cup {"none"} /\ 0 \in Int
      BY DEF ApiCalls, Requests
    <3>6. ApiEffect(t)
      BY <1>1, <1>3, <2>2, <3>4, <3>5, FinishEffect
    <3> QED
      BY <1>1, <2>2, <3>6, OffLineStep
  <2> QED
    BY <1>3, <2>1, <2>2 DEF SocketDone
<1>4. CASE CloseDone(t, c) /\ UNCHANGED dev
  BY <1>1, <1>2, <1>4, CloseOutEffect, OffLineStep DEF CloseDone
<1>5. CASE SimpleDone(t, c) /\ UNCHANGED dev
  <2>1. op \in ApiCalls /\ WithoutData(c, op, cm) \in ConnFun
    BY <1>2, <1>5, WithoutDataType DEF SimpleDone, ApiCalls, Requests
  <2> QED
    BY <1>1, <1>2, <1>5, <2>1, FinishEffect, OffLineStep DEF SimpleDone
<1>6. CASE ConnectDone(t, c) /\ UNCHANGED dev
  BY <1>1, <1>2, <1>6, FinishEffect, OffLineStep DEF ConnectDone, ApiCalls, Requests
<1>7. CASE IoDone(t, c)
  <2>1. /\ WithoutData(c, op, cm) \in ConnFun
        /\ op \in IoCalls /\ op \in ApiCalls /\ UNCHANGED lists
    BY <1>2, <1>7, WithoutDataType DEF IoDone, IoCalls, ApiCalls, Requests
  <2>2. CASE Finish(t, op, c, thr[t].result, WithoutData(c, op, cm)) /\ UNCHANGED dev
    BY <1>1, <1>2, <2>1, <2>2, FinishEffect, OffLineStep
  <2>3. CASE IoLoop(t, op, c, thr[t].nonblock, WithoutData(c, op, cm))
    BY <1>1, <1>2, <2>1, <2>3, IoLoopEffect, OffLineStep
  <2> QED
    BY <1>7, <2>2, <2>3 DEF IoDone
<1> QED
  BY <1>3, <1>4, <1>5, <1>6, <1>7 DEF RequestDone

-----------------------------------------------------------------------------
(* Handing over the semaphore of the request line                          *)

(* A thread that had the line, or usrsockdev_close, gives the semaphore up *)
(* when it has left: whoever waits gets it, and otherwise it is free. th,  *)
(* dv and dm are the state the semaphore is given up in.                   *)
LEMMA SemgiveInv ==
  ASSUME NEW th \in [Threads -> ThreadRecords], NEW dv \in DevRecords, NEW dm \in DmnRecords,
         dv.sem = 0, dm.pc # "got",
         \A t \in Threads : th[t].pc \notin {"linegot", "ackwait"},
         \A t \in Threads : th[t].pc # "idle" => th[t].conn # NoConn,
         dv.nbusy = Cardinality({t \in Threads : th[t].pc \in LinePlaces}),
         usrsockdev_semgive(th, dv, dm)
  PROVE  /\ thr' \in [Threads -> ThreadRecords] /\ dev' \in DevRecords /\ dmn' \in DmnRecords
         /\ dev'.ocount = dv.ocount
         /\ dmn'.conn = dm.conn /\ (dmn'.pc = dm.pc \/ (dm.pc = "wait" /\ dmn'.pc = "got"))
         /\ \A t \in Threads : thr'[t].pc # "idle" => thr'[t].conn # NoConn
         /\ LineInv'
<1>1. CASE \E u \in Threads : /\ th[u].pc = "reqwait"
                              /\ thr' = [th EXCEPT ![u].pc = "linegot"]
                              /\ dev' = dv
                              /\ dmn' = dm
  <2>1. PICK u \in Threads : /\ th[u].pc = "reqwait"
                             /\ thr' = [th EXCEPT ![u].pc = "linegot"]
                             /\ dev' = dv
                             /\ dmn' = dm
    BY <1>1
  <2>2. ASSUME NEW s \in ThreadRecords
        PROVE  LET q == [s EXCEPT !.pc = "linegot"]
               IN  q \in ThreadRecords /\ q.pc = "linegot" /\ q.conn = s.conn
    BY DEF ThreadRecords, Places
  <2>3. /\ thr' \in [Threads -> ThreadRecords]
        /\ thr'[u].pc = "linegot" /\ thr'[u].conn = th[u].conn
        /\ \A t \in Threads \ {u} : thr'[t] = th[t]
    BY <2>1, <2>2
  <2>4. OnLine' = {t \in Threads : th[t].pc \in LinePlaces}
    BY <2>1, <2>3, OnLineSetPrime DEF LinePlaces
  <2>5. Holds(u)' /\ \A t \in Threads \ {u} : ~Holds(t)'
    BY <2>3 DEF Holds
  <2>6. LineInv'
    BY <2>1, <2>4, <2>5 DEF LineInv
  <2> QED
    BY <2>1, <2>3, <2>6
<1>2. CASE dm.pc = "wait" /\ thr' = th /\ dev' = dv /\ dmn' = [dm EXCEPT !.pc = "got"]
  <2>1. dmn' \in DmnRecords /\ dmn'.pc = "got" /\ dmn'.conn = dm.conn
    BY <1>2 DEF DmnRecords
  <2>2. OnLine' = {t \in Threads : th[t].pc \in LinePlaces}
    BY <1>2, OnLineSetPrime
  <2>3. \A t \in Threads : ~Holds(t)'
    BY <1>2 DEF Holds
  <2>4. LineInv'
    BY <1>2, <2>1, <2>2, <2>3 DEF LineInv
  <2> QED
    BY <1>2, <2>1, <2>4
<1>3. CASE /\ \A u \in Threads : th[u].pc # "reqwait"
           /\ dm.pc # "wait"
           /\ thr' = th
           /\ dev' = [dv EXCEPT !.sem = @ + 1]
           /\ dmn' = dm
  <2>1. /\ dev' \in DevRecords /\ dev'.sem = 1 /\ dev'.nbusy = dv.nbusy
        /\ dev'.ocount = dv.ocount
    BY <1>3 DEF DevRecords
  <2>2. OnLine' = {t \in Threads : th[t].pc \in LinePlaces}
    BY <1>3, OnLineSetPrime
  <2>3. \A t \in Threads : ~Holds(t)' /\ ~Waits(t)'
    BY <1>3 DEF Holds, Waits
  <2>4. LineInv'
    BY <1>3, <2>1, <2>2, <2>3 DEF LineInv
  <2> QED
    BY <1>3, <2>1, <2>4
<1> QED
  BY <1>1, <1>2, <1>3 DEF usrsockdev_semgive

(* Leaving usrsockdev_do_request.                                          *)
LEMMA AfterRequestInv ==
  ASSUME Inv, NEW t \in Threads, thr[t].pc \in {"linegot", "ackwait"},
         NEW dv \in DevRecords, dv.sem = dev.sem, dv.nbusy = dev.nbusy,
         dv.ocount = dev.ocount, AfterRequest(t, dv), UNCHANGED lists
  PROVE  Inv'
<1> DEFINE c     == thr[t].conn
           early == thr[t].op = "connect" /\ conn[c].inprogress /\ thr[t].nonblock
           r     == IF early THEN IdleThread ELSE [thr[t] EXCEPT !.pc = "respwait"]
           th    == [thr EXCEPT ![t] = r]
           dg    == [dv EXCEPT !.nbusy = @ - 1]
<1>1. thr \in [Threads -> ThreadRecords] /\ dmn \in DmnRecords /\ thr[t] \in ThreadRecords
  BY DEF Inv, TypeOK
<1>2. /\ r \in ThreadRecords /\ r.pc \notin LinePlaces
      /\ r.pc # "idle" => r.conn # NoConn
  <2>1. ASSUME NEW s \in ThreadRecords
        PROVE  LET q == [s EXCEPT !.pc = "respwait"]
               IN  q \in ThreadRecords /\ q.pc = "respwait" /\ q.conn = s.conn
    BY DEF ThreadRecords, Places
  <2>2. IdleThread.pc = "idle"
    BY DEF IdleThread
  <2>3. thr[t].conn # NoConn
    BY DEF Inv, PlaceInv
  <2> QED
    BY <1>1, <2>1, <2>2, <2>3, ConstantTypes DEF LinePlaces
<1>3. /\ th \in [Threads -> ThreadRecords] /\ th[t] = r
      /\ \A u \in Threads \ {t} : th[u] = thr[u]
  BY <1>1, <1>2
<1>4. conn' \in ConnFun /\ ret' \in Returns
  <2>1. conn' \in ConnFun
    BY ReleasedType, ConnType DEF AfterRequest
  <2>2. [th |-> t, op |-> "connect", conn |-> c, val |-> EINPROGRESS] \in Returns
    BY ConnType, ErrnoTypes DEF Returns, ApiCalls, Requests
  <2> QED
    BY <2>1, <2>2, NoReturnType DEF AfterRequest
<1>5. dev.nbusy \in Nat /\ dev.nbusy # 0 /\ dev.nbusy = Cardinality(OnLine)
  BY BusyPositive DEF Inv, LineInv, LinePlaces
<1>6. /\ dg \in DevRecords /\ dg.nbusy = dev.nbusy - 1
      /\ dg.sem = dev.sem /\ dg.ocount = dev.ocount
  <2>1. dv.nbusy - 1 \in Nat
    BY <1>5
  <2>2. ASSUME NEW n \in Nat
        PROVE  LET q == [dv EXCEPT !.nbusy = n]
               IN  /\ q \in DevRecords /\ q.nbusy = n
                   /\ q.sem = dv.sem /\ q.ocount = dv.ocount
    BY DEF DevRecords
  <2> QED
    BY <2>1, <2>2
<1>7. Holds(t) /\ \A u \in Threads \ {t} : ~Holds(u)
  BY DEF Inv, LineInv, Holds
<1>8. dev.sem = 0 /\ dmn.pc # "got"
  BY <1>7 DEF Inv, LineInv
<1>9. dg.nbusy = Cardinality({u \in Threads : th[u].pc \in LinePlaces})
  <2>1. {u \in Threads : th[u].pc \in LinePlaces} = OnLine \ {t} /\ t \in OnLine
    BY <1>2, <1>3, OnLineSet DEF LinePlaces
  <2> HIDE DEF th, dg
  <2> QED
    BY <1>5, <1>6, <2>1, OnLineSet, FS_RemoveElement
<1>10. \A u \in Threads : /\ th[u].pc \notin {"linegot", "ackwait"}
                          /\ th[u].pc # "idle" => th[u].conn # NoConn
  BY <1>2, <1>3, <1>7 DEF Holds, LinePlaces, Inv, PlaceInv
<1>11. usrsockdev_semgive(th, dg, dmn)
  BY DEF AfterRequest
<1>12. /\ thr' \in [Threads -> ThreadRecords] /\ dev' \in DevRecords /\ dmn' \in DmnRecords
       /\ dev'.ocount = dg.ocount
       /\ dmn'.conn = dmn.conn /\ (dmn'.pc = dmn.pc \/ (dmn.pc = "wait" /\ dmn'.pc = "got"))
       /\ \A u \in Threads : thr'[u].pc # "idle" => thr'[u].conn # NoConn
       /\ LineInv'
  <2> HIDE DEF th, dg
  <2> QED
    BY <1>1, <1>3, <1>6, <1>8, <1>9, <1>10, <1>11, SemgiveInv
<1>13. TypeOK'
  BY <1>4, <1>12 DEF TypeOK, Inv, lists, ConnFun
<1>14. PlaceInv'
  <2> HIDE DEF dg
  <2> QED
    BY <1>6, <1>12 DEF PlaceInv, Inv
<1> QED
  BY <1>12, <1>13, <1>14 DEF Inv

(* The thread that has req.sem puts its request on the line, or gives the  *)
(* line on when the daemon has gone; the invariant survives both.          *)
LEMMA TakeLineInv ==
  ASSUME Inv, NEW t \in Threads, TakeLine(t)
  PROVE  Inv'
<1>1. dev \in DevRecords /\ thr[t] \in ThreadRecords /\ thr \in [Threads -> ThreadRecords]
  BY DEF Inv, TypeOK
<1>2. CASE ~usrsockdev_is_opened
  BY <1>1, <1>2, AfterRequestInv DEF TakeLine
<1>3. CASE usrsockdev_is_opened
  <2>1. /\ dev' = [dev EXCEPT !.ackxid = thr[t].conn, !.iov = t, !.rd = FALSE,
                              !.poll = usrsockdev_pollnotify(@)]
        /\ thr' = [thr EXCEPT ![t].pc = "ackwait"]
        /\ UNCHANGED <<conn, dmn, lists>> /\ ret' = NoReturn
    BY <1>3 DEF TakeLine, usrsockdev_get_xid
  <2>2. /\ dev' \in DevRecords /\ dev'.sem = dev.sem /\ dev'.nbusy = dev.nbusy
        /\ dev'.ocount = dev.ocount
    <3>1. thr[t].conn \in {0} \cup Conns
      BY ConnType, NoConnFacts
    <3> QED
      BY <1>1, <2>1, <3>1 DEF DevRecords, usrsockdev_pollnotify
  <2>3. ASSUME NEW s \in ThreadRecords
        PROVE  LET q == [s EXCEPT !.pc = "ackwait"]
               IN  q \in ThreadRecords /\ q.pc = "ackwait" /\ q.conn = s.conn
    BY DEF ThreadRecords, Places
  <2>4. /\ thr' \in [Threads -> ThreadRecords]
        /\ thr'[t].pc = "ackwait" /\ thr'[t].conn = thr[t].conn
        /\ \A u \in Threads \ {t} : thr'[u] = thr[u]
    BY <1>1, <2>1, <2>3
  <2>5. thr[t].pc = "linegot"
    BY DEF TakeLine
  <2>6. OnLine' = OnLine
    BY <2>4, <2>5, OnLineSet, OnLineSetPrime DEF LinePlaces
  <2>7. \A u \in Threads : (Holds(u)' <=> Holds(u)) /\ (Waits(u)' <=> Waits(u))
    BY <2>4, <2>5 DEF Holds, Waits
  <2>8. TypeOK'
    BY <2>1, <2>2, <2>4, NoReturnType DEF Inv, TypeOK, lists
  <2>9. PlaceInv'
    BY <2>1, <2>2, <2>4, <2>5 DEF Inv, PlaceInv
  <2>10. LineInv'
    BY <2>1, <2>2, <2>6, <2>7 DEF Inv, LineInv
  <2> QED
    BY <2>8, <2>9, <2>10 DEF Inv
<1> QED
  BY <1>2, <1>3

(* The acknowledged thread takes its acknowledgment along and gives the    *)
(* line on; the invariant survives.                                        *)
LEMMA LeaveLineInv ==
  ASSUME Inv, NEW t \in Threads, LeaveLine(t)
  PROVE  Inv'
<1> DEFINE dv == [dev EXCEPT !.acksem = @ - 1]
<1>1. dev \in DevRecords
  BY DEF Inv, TypeOK
<1>2. dev.acksem - 1 \in Nat
  BY <1>1 DEF LeaveLine, DevRecords
<1>3. ASSUME NEW n \in Nat
      PROVE  LET q == [dev EXCEPT !.acksem = n]
             IN  /\ q \in DevRecords /\ q.sem = dev.sem
                 /\ q.nbusy = dev.nbusy /\ q.ocount = dev.ocount
  BY <1>1 DEF DevRecords
<1>4. /\ dv \in DevRecords /\ dv.sem = dev.sem
      /\ dv.nbusy = dev.nbusy /\ dv.ocount = dev.ocount
  BY <1>2, <1>3
<1>5. thr[t].pc \in {"linegot", "ackwait"} /\ AfterRequest(t, dv) /\ UNCHANGED lists
  BY DEF LeaveLine
<1> QED
  <2> HIDE DEF dv
  <2> QED
    BY <1>4, <1>5, AfterRequestInv

-----------------------------------------------------------------------------
(* Steps of the daemon outside the end of usrsockdev_close                 *)

(* The device after such a step: the semaphore of the line is left alone,  *)
(* the request is left on the line or acknowledged, and who waits in       *)
(* poll() with nothing posted has no new request waiting.                  *)
DevStep(d) ==
  /\ d \in DevRecords
  /\ d.sem = dev.sem /\ d.nbusy = dev.nbusy /\ d.leaked = dev.leaked
  /\ \/ d.iov = dev.iov /\ d.acksem = dev.acksem
     \/ dev.iov # NoThread /\ d.iov = NoThread /\ d.acksem = dev.acksem + 1
  /\ d.poll = "armed" => \/ d.iov = NoThread \/ d.rd
                         \/ dev.poll = "armed" /\ d.iov = dev.iov /\ d.rd = dev.rd

(* Such a step moves no thread, and has a connection when it is going to   *)
(* raise an event.                                                         *)
DaemonEffect ==
  /\ conn' \in ConnFun
  /\ thr' \in [Threads -> ThreadRecords]
  /\ \A t \in Threads : SamePlace(thr[t], thr'[t])
  /\ UNCHANGED lists
  /\ DevStep(dev')
  /\ dmn' \in DmnRecords
  /\ dmn'.pc = "got" <=> dmn.pc = "got"
  /\ dmn'.pc = "wait" => dmn.pc = "wait"
  /\ dmn'.pc = "event" => dmn'.conn # NoConn
  /\ dmn'.pc \in {"open", "event", "walk", "step"} => dev'.ocount = 1
  /\ ret' = NoReturn

(* A daemon step that has DaemonEffect preserves the invariant.            *)
LEMMA DaemonEffectInv ==
  ASSUME Inv, DaemonEffect
  PROVE  Inv'
<1>1. TypeOK'
  BY NoReturnType DEF DaemonEffect, DevStep, Inv, TypeOK, lists, ConnFun
<1>2. PlaceInv'
  BY DEF DaemonEffect, Inv, PlaceInv, SamePlace
<1>3. OnLine' = OnLine
  BY OnLineSet, OnLineSetPrime DEF DaemonEffect, SamePlace
<1>4. \A u \in Threads : (Holds(u)' <=> Holds(u)) /\ (Waits(u)' <=> Waits(u))
  BY DEF DaemonEffect, SamePlace, Holds, Waits
<1>5. LineInv'
  BY <1>3, <1>4 DEF DaemonEffect, DevStep, Inv, LineInv
<1> QED
  BY <1>1, <1>2, <1>5 DEF Inv

(* Nothing but the daemon's own state changes for the threads.             *)
LEMMA ThreadsStay ==
  ASSUME Inv, thr' = thr
  PROVE  /\ thr' \in [Threads -> ThreadRecords]
         /\ \A t \in Threads : SamePlace(thr[t], thr'[t])
BY DEF Inv, TypeOK, SamePlace

(* An event on a connection.                                               *)
LEMMA EventEffect ==
  ASSUME Inv, NEW c \in Conns, NEW cr \in ConnRecords, NEW ev \in SUBSET Events,
         usrsock_event(c, cr, ev)
  PROVE  /\ conn' \in ConnFun
         /\ thr' \in [Threads -> ThreadRecords]
         /\ \A t \in Threads : SamePlace(thr[t], thr'[t])
<1> DEFINE upd == StateUpdate(cr, ev)
           cbs == EventsToCallbacks(cr, ev)
<1>1. upd \in ConnRecords /\ thr \in [Threads -> ThreadRecords]
  BY StateUpdateType DEF Inv, TypeOK
<1>2. conn' = [conn EXCEPT ![c] = HandlerEffects(upd, thr, cbs)]
      /\ thr' = devif_callback_execute(upd, thr, cbs)
  BY DEF usrsock_event
<1> HIDE DEF upd, cbs
<1>3. conn' \in ConnFun
  BY <1>1, <1>2, HandlerEffectsType, ConnType DEF ConnFun
<1> QED
  BY <1>1, <1>2, <1>3, ExecuteType

(* The lookup of usrsockdev_handle_req_response finds a connection or      *)
(* none.                                                                   *)
LEMMA WaitingConnType ==
  ASSUME Inv, NEW xid
  PROVE  WaitingConn(xid) \in {NoConn} \cup Conns
<1> DEFINE I == {i \in 1 .. Len(active) : conn[active[i]].xid = xid}
<1>1. I \in SUBSET Nat
  BY LenProperties DEF Inv, TypeOK
<1>2. I # {} => Min(I) \in I
  BY <1>1, MinInSet
<1>3. WaitingConn(xid) = IF I = {} \/ Min(I) = 0 THEN NoConn ELSE active[Min(I)]
  BY DEF WaitingConn, SelectInSeq
<1> QED
  BY <1>2, <1>3, ElementOfSeq DEF Inv, TypeOK

(* A daemon step that leaves the device alone is an allowed step of the    *)
(* device.                                                                 *)
LEMMA DevUnchanged ==
  ASSUME Inv
  PROVE  dev \in DevRecords /\ dmn \in DmnRecords
BY DEF Inv, TypeOK

(* An acknowledgment does not touch the semaphore of the line.             *)
LEMMA AcknowledgeType ==
  ASSUME Inv, NEW xid
  PROVE  LET d == Acknowledge(xid)
         IN  DevStep(d) /\ d.ocount = dev.ocount
<1>1. dev.acksem + 1 \in Nat
  BY DevUnchanged DEF DevRecords
<1>2. ASSUME NEW n \in Nat
      PROVE  LET q == [dev EXCEPT !.iov = NoThread, !.acksem = n]
             IN  /\ q \in DevRecords /\ q.sem = dev.sem /\ q.nbusy = dev.nbusy
                 /\ q.leaked = dev.leaked /\ q.ocount = dev.ocount
                 /\ q.iov = NoThread /\ q.acksem = n
  BY DevUnchanged DEF DevRecords
<1>3. DevStep(dev)
  BY DevUnchanged DEF DevStep
<1>4. CASE dev.ackxid = xid /\ dev.iov # NoThread
  <2> DEFINE q == [dev EXCEPT !.iov = NoThread, !.acksem = dev.acksem + 1]
  <2>1. Acknowledge(xid) = q
    BY <1>4 DEF Acknowledge
  <2>2. /\ q \in DevRecords /\ q.sem = dev.sem /\ q.nbusy = dev.nbusy
        /\ q.leaked = dev.leaked /\ q.ocount = dev.ocount
        /\ q.iov = NoThread /\ q.acksem = dev.acksem + 1
    BY <1>1, <1>2
  <2> HIDE DEF q
  <2> QED
    BY <1>4, <2>1, <2>2 DEF DevStep
<1>5. CASE ~(dev.ackxid = xid /\ dev.iov # NoThread)
  BY <1>3, <1>5 DEF Acknowledge
<1> QED
  BY <1>4, <1>5

(* The results of requests are integers, and the daemon's bookkeeping      *)
(* keeps its kind.                                                         *)
LEMMA DaemonAfterType ==
  ASSUME Inv, NEW r \in dmn.pend, NEW result \in Answers(r), NEW owes \in BOOLEAN
  PROVE  LET d == DaemonAfter(r, result, owes)
         IN  result \in Int /\ d \in DmnRecords /\ d.pc = dmn.pc /\ d.conn = dmn.conn
<1>1. result \in Int
  BY ConnAssumption, UsrsockAssumption DEF Answers, ConnAssumption, UsrsockAssumption
<1>2. r.op = "socket" /\ result >= 0 => result \in UsockIds
  BY <1>1 DEF Answers, IoCalls
<1> DEFINE p == dmn.pend \ {r}
           u == IF FreshIds /\ r.op = "socket" /\ result >= 0
                THEN dmn.used \cup {result} ELSE dmn.used
           s == CASE r.op = "socket" /\ result >= 0 -> dmn.socks \cup {result}
                  [] r.op = "close" -> dmn.socks \ {r.usockid}
                  [] OTHER -> dmn.socks
<1>3. p \in SUBSET PendingRequests /\ u \in SUBSET UsockIds /\ s \in SUBSET UsockIds
  BY <1>2, DevUnchanged DEF DmnRecords
<1>4. ASSUME NEW pp \in SUBSET PendingRequests, NEW uu \in SUBSET UsockIds,
             NEW ss \in SUBSET UsockIds
      PROVE  LET d == [dmn EXCEPT !.pend = pp, !.owes = owes, !.used = uu, !.socks = ss]
             IN  d \in DmnRecords /\ d.pc = dmn.pc /\ d.conn = dmn.conn
  BY DevUnchanged DEF DmnRecords
<1>5. DaemonAfter(r, result, owes) =
        [dmn EXCEPT !.pend = p, !.owes = owes, !.used = u, !.socks = s]
  BY DEF DaemonAfter
<1> QED
  <2> HIDE DEF p, u, s
  <2> DEFINE d == [dmn EXCEPT !.pend = p, !.owes = owes, !.used = u, !.socks = s]
  <2>1. d \in DmnRecords /\ d.pc = dmn.pc /\ d.conn = dmn.conn
    BY <1>3, <1>4
  <2>2. DaemonAfter(r, result, owes) = d
    BY <1>5
  <2> HIDE DEF d
  <2> QED
    BY <1>1, <2>1, <2>2

(* A step of an open daemon that changes neither its place nor ocount.     *)
LEMMA OpenDaemonStep ==
  ASSUME Inv, dmn.pc = "open",
         conn' \in ConnFun, thr' \in [Threads -> ThreadRecords],
         \A t \in Threads : SamePlace(thr[t], thr'[t]),
         UNCHANGED lists, ret' = NoReturn,
         DevStep(dev'), dev'.ocount = dev.ocount, dmn' \in DmnRecords, dmn'.pc = "open"
  PROVE  DaemonEffect
<1>1. dev.ocount = 1
  BY DEF Inv, PlaceInv
<1> QED
  BY <1>1 DEF DaemonEffect

(* usrsockdev_open only opens the device.                                  *)
LEMMA OpenEffect ==
  ASSUME Inv, usrsockdev_open
  PROVE  DaemonEffect
<1>1. DevStep(dev') /\ dev'.ocount = 1
  BY DevUnchanged DEF usrsockdev_open, DevRecords, DevStep
<1>2. dmn' \in DmnRecords /\ dmn'.pc = "open"
  <2>1. dmn.sessions + 1 \in Nat
    BY DevUnchanged DEF DmnRecords
  <2>2. ASSUME NEW n \in Nat
        PROVE  LET q == [dmn EXCEPT !.pc = "open", !.sessions = n]
               IN  q \in DmnRecords /\ q.pc = "open"
    BY DevUnchanged DEF DmnRecords
  <2> QED
    BY <2>1, <2>2 DEF usrsockdev_open
<1>3. dmn.pc = "closed" /\ UNCHANGED <<conn, lists, thr>> /\ ret' = NoReturn
  BY DEF usrsockdev_open
<1> QED
  BY <1>1, <1>2, <1>3, ThreadsStay, ConnType DEF DaemonEffect

(* The daemon's poll() on the device only changes its own slot, and posts  *)
(* it if a request is pending.                                             *)
LEMMA PollEffect ==
  ASSUME Inv, PollSetup \/ PollTeardown
  PROVE  DaemonEffect
<1>1. DevStep(dev') /\ dev'.ocount = dev.ocount
  BY DevUnchanged DEF PollSetup, PollTeardown, RequestPending, DevRecords, DevStep
<1>2. UNCHANGED <<conn, lists, thr, dmn>> /\ ret' = NoReturn
  BY DEF PollSetup, PollTeardown
<1> QED
  BY <1>1, <1>2, ThreadsStay, ConnType, DevUnchanged DEF DaemonEffect, Inv, PlaceInv

(* usrsockdev_read leaves the request on the line, read to its end.        *)
LEMMA ReadEffect ==
  ASSUME Inv, usrsockdev_read
  PROVE  DaemonEffect
<1>1. DevStep(dev') /\ dev'.ocount = dev.ocount
  BY DevUnchanged DEF usrsockdev_read, DevRecords, DevStep
<1>2. PICK r \in [th : {dev.iov}, op : Requests, xid : Conns,
                  usockid : {-1} \cup UsockIds, ip : {FALSE}] :
        dmn' = [dmn EXCEPT !.pend = @ \cup {r}]
  BY DEF usrsockdev_read
<1>3. r \in PendingRequests
  <2>1. dev.iov \in Threads
    BY DevUnchanged DEF usrsockdev_read, DevRecords
  <2>2. {-1} \cup UsockIds \subseteq Int
    BY ConnAssumption DEF ConnAssumption
  <2> QED
    BY <2>1, <2>2 DEF PendingRequests
<1>4. dmn.pend \cup {r} \in SUBSET PendingRequests
  BY <1>3, DevUnchanged DEF DmnRecords
<1>5. ASSUME NEW p \in SUBSET PendingRequests
      PROVE  [dmn EXCEPT !.pend = p] \in DmnRecords /\ [dmn EXCEPT !.pend = p].pc = dmn.pc
  BY DevUnchanged DEF DmnRecords
<1>6. dmn' \in DmnRecords /\ dmn'.pc = dmn.pc
  BY <1>2, <1>4, <1>5
<1>7. dmn.pc = "open" /\ UNCHANGED <<conn, lists, thr>> /\ ret' = NoReturn
  BY DEF usrsockdev_read, DaemonRuns
<1> QED
  BY <1>1, <1>6, <1>7, OpenDaemonStep, ThreadsStay, ConnType

(* The connection a final response finds and leaves.                       *)
LEMMA AnsweredType ==
  ASSUME NEW cr \in ConnRecords, NEW r \in PendingRequests, NEW result \in Int
  PROVE  Answered(cr, r, result) \in ConnRecords
<1>1. [th |-> r.th, op |-> r.op] \in RequestIds
  BY DEF PendingRequests, RequestIds
<1>2. ASSUME NEW a \in RequestIds
      PROVE  [cr EXCEPT !.inprogress = FALSE, !.xid = 0, !.result = result,
                        !.answered = a] \in ConnRecords
  BY DEF ConnRecords
<1> QED
  BY <1>1, <1>2 DEF Answered

(* An in-progress response at most acknowledges the request on the line.   *)
LEMMA RespondInProgressEffect ==
  ASSUME Inv, NEW r \in dmn.pend, DaemonRuns, RespondInProgress(r), ret' = NoReturn,
         UNCHANGED lists
  PROVE  DaemonEffect
<1>1. r \in PendingRequests
  BY DevUnchanged DEF DmnRecords
<1>2. (dmn.pend \ {r}) \cup {[r EXCEPT !.ip = TRUE]} \in SUBSET PendingRequests
  <2>1. [r EXCEPT !.ip = TRUE] \in PendingRequests
    BY <1>1 DEF PendingRequests
  <2> QED
    BY <2>1, DevUnchanged DEF DmnRecords
<1>3. ASSUME NEW p \in SUBSET PendingRequests
      PROVE  [dmn EXCEPT !.pend = p] \in DmnRecords /\ [dmn EXCEPT !.pend = p].pc = dmn.pc
  BY DevUnchanged DEF DmnRecords
<1>4. dmn' \in DmnRecords /\ dmn'.pc = dmn.pc
  BY <1>2, <1>3 DEF RespondInProgress
<1>5. DevStep(dev') /\ dev'.ocount = dev.ocount
  BY AcknowledgeType, DevUnchanged DEF RespondInProgress, DevStep
<1>6. conn' \in ConnFun
  <2>1. CASE conn' = conn
    BY <2>1, ConnType
  <2>2. CASE /\ WaitingConn(r.xid) # NoConn
             /\ conn' = [conn EXCEPT ![WaitingConn(r.xid)].inprogress = TRUE]
    <3>1. WaitingConn(r.xid) \in Conns
      BY <2>2, WaitingConnType
    <3>2. ASSUME NEW cr \in ConnRecords
          PROVE  [cr EXCEPT !.inprogress = TRUE] \in ConnRecords
      BY DEF ConnRecords
    <3> QED
      BY <2>2, <3>1, <3>2, ConnType DEF ConnFun
  <2> QED
    BY <2>1, <2>2 DEF RespondInProgress
<1>7. dmn.pc = "open" /\ thr' = thr
  BY DEF DaemonRuns, RespondInProgress
<1> QED
  BY <1>4, <1>5, <1>6, <1>7, OpenDaemonStep, ThreadsStay

(* A final response at most acknowledges the request on the line, and      *)
(* completes calls without moving them.                                    *)
LEMMA RespondFinallyEffect ==
  ASSUME Inv, NEW r \in dmn.pend, DaemonRuns, RespondFinally(r), ret' = NoReturn,
         UNCHANGED lists
  PROVE  DaemonEffect
<1> DEFINE c == WaitingConn(r.xid)
<1>1. r \in PendingRequests /\ dmn.pc = "open" /\ TRUE \in BOOLEAN /\ FALSE \in BOOLEAN
  BY DevUnchanged DEF DmnRecords, DaemonRuns
<1>2. PICK result \in Answers(r), fits \in {TRUE, ~FaultyDaemon} :
        \/ /\ c = NoConn
           /\ dmn' = DaemonAfter(r, result, FALSE)
           /\ UNCHANGED <<conn, thr, dev>>
        \/ /\ c # NoConn
           /\ \/ usrsockdev_handle_response(c, r, result)
              \/ usrsockdev_handle_datareq_response(c, r, result, fits)
  BY DEF RespondFinally
<1>3. result \in Int
  BY <1>1, DaemonAfterType
<1>4. /\ DaemonAfter(r, result, FALSE) \in DmnRecords
      /\ DaemonAfter(r, result, FALSE).pc = "open"
      /\ DaemonAfter(r, result, TRUE) \in DmnRecords
      /\ DaemonAfter(r, result, TRUE).pc = "open"
  BY <1>1, DaemonAfterType
<1>5. CASE c = NoConn
  <2>1. dmn' = DaemonAfter(r, result, FALSE) /\ UNCHANGED <<conn, thr, dev>>
    BY <1>2, <1>5
  <2> QED
    BY <1>1, <1>4, <2>1, OpenDaemonStep, ThreadsStay, ConnType, DevUnchanged
     DEF DevStep
<1>6. CASE c # NoConn
  <2> DEFINE cr == Answered(conn[c], r, result)
  <2>1. c \in Conns
    BY <1>6, WaitingConnType
  <2>2. cr \in ConnRecords
    BY <1>1, <1>3, <2>1, AnsweredType, ConnType DEF ConnFun
  <2>3. DevStep(Acknowledge(r.xid)) /\ Acknowledge(r.xid).ocount = dev.ocount
    BY AcknowledgeType
  <2>4. {"REQ_COMPLETE"} \in SUBSET Events
    BY DEF Events, InternalEvents
  <2>5. ASSUME dev' = Acknowledge(r.xid), dmn' = DaemonAfter(r, result, FALSE),
               usrsock_event(c, cr, {"REQ_COMPLETE"})
        PROVE  DaemonEffect
    <3> HIDE DEF c, cr
    <3> QED
      BY <1>1, <1>4, <2>1, <2>2, <2>3, <2>4, <2>5, EventEffect, OpenDaemonStep
  <2>6. ASSUME dev' = [Acknowledge(r.xid) EXCEPT !.datain = c],
               dmn' = DaemonAfter(r, result, TRUE),
               conn' = [conn EXCEPT ![c] = cr], thr' = thr
        PROVE  DaemonEffect
    <3>1. ASSUME NEW d, DevStep(d)
          PROVE  LET q == [d EXCEPT !.datain = c]
                 IN  DevStep(q) /\ q.ocount = d.ocount
      BY <2>1, <3>1 DEF DevRecords, DevStep
    <3>2. DevStep(dev') /\ dev'.ocount = dev.ocount
      BY <2>3, <2>6, <3>1
    <3>3. conn' \in ConnFun
      BY <2>1, <2>2, <2>6, ConnType DEF ConnFun
    <3> QED
      BY <1>1, <1>4, <2>6, <3>2, <3>3, ThreadsStay, OpenDaemonStep
  <2>7. ASSUME dev' = Acknowledge(r.xid), dmn' = DaemonAfter(r, result, FALSE),
               conn' = [conn EXCEPT ![c] = cr], thr' = thr
        PROVE  DaemonEffect
    <3>1. conn' \in ConnFun
      BY <2>1, <2>2, <2>7, ConnType DEF ConnFun
    <3> QED
      BY <1>1, <1>4, <2>3, <2>7, <3>1, ThreadsStay, OpenDaemonStep
  <2> QED
    BY <1>2, <1>6, <2>5, <2>6, <2>7
       DEF usrsockdev_handle_response, usrsockdev_handle_datareq_response
<1> QED
  BY <1>5, <1>6

(* The write of a data response's data leaves the line alone.              *)
LEMMA WriteEffect ==
  ASSUME Inv, usrsockdev_write
  PROVE  DaemonEffect
<1> DEFINE c  == dev.datain
           cr == IF conn[c].datain = NoThread THEN [conn[c] EXCEPT !.result = EINVAL]
                 ELSE conn[c]
<1>1. dmn.pc = "open" /\ c \in Conns /\ ret' = NoReturn /\ UNCHANGED lists
  BY DevUnchanged DEF usrsockdev_write, DaemonRuns, DevRecords
<1>2. cr \in ConnRecords
  <2>1. ASSUME NEW x \in ConnRecords, NEW e \in Int
        PROVE  [x EXCEPT !.result = e] \in ConnRecords
    BY DEF ConnRecords
  <2>2. conn[c] \in ConnRecords /\ EINVAL \in Int
    BY <1>1, ConnType, ErrnoTypes DEF ConnFun
  <2> QED
    BY <2>1, <2>2
<1>3. {"REQ_COMPLETE"} \in SUBSET Events
  BY DEF Events, InternalEvents
<1>4. usrsock_event(c, cr, {"REQ_COMPLETE"}) /\ dev' = InputDone
  BY DEF usrsockdev_write, WriteData
<1>5. /\ conn' \in ConnFun /\ thr' \in [Threads -> ThreadRecords]
      /\ \A t \in Threads : SamePlace(thr[t], thr'[t])
  <2> HIDE DEF c, cr
  <2> QED
    BY <1>1, <1>2, <1>3, <1>4, EventEffect
<1>6. DevStep(dev') /\ dev'.ocount = dev.ocount
  BY <1>4, DevUnchanged DEF InputDone, DevRecords, DevStep
<1>7. dmn' \in DmnRecords /\ dmn'.pc = dmn.pc
  <2>1. CASE dmn' = [dmn EXCEPT !.owes = FALSE]
    BY <2>1, DevUnchanged DEF DmnRecords
  <2>2. CASE \E r \in dmn.pend : dmn' = [dmn EXCEPT !.pend = @ \ {r}]
    BY <2>2, DevUnchanged DEF DmnRecords
  <2> QED
    BY <2>1, <2>2 DEF usrsockdev_write
<1> QED
  BY <1>1, <1>5, <1>6, <1>7, OpenDaemonStep

(* A step that leaves the device alone.                                    *)
LEMMA SameDev ==
  ASSUME Inv, dev' = dev
  PROVE  DevStep(dev') /\ dev'.ocount = dev.ocount
BY DevUnchanged DEF DevStep

(* The lookup of usrsockdev_handle_event leaves the line alone.            *)
LEMMA HandleEventEffect ==
  ASSUME Inv, usrsockdev_handle_event
  PROVE  DaemonEffect
<1>1. PICK id \in dmn.socks, ev \in EventMsgs :
        LET c == usrsock_active(active, conn, id)
        IN  /\ c # NoConn
            /\ dmn' = [dmn EXCEPT !.pc = "event", !.conn = c, !.ev = ev, !.about = id]
  BY DEF usrsockdev_handle_event
<1> DEFINE c == usrsock_active(active, conn, id)
<1>2. c \in Conns
  BY <1>1, ActiveLookup DEF Inv, TypeOK
<1>3. ev \in SUBSET ExternalEvents /\ id \in UsockIds \cup {-1}
  BY UsrsockAssumption, DevUnchanged DEF UsrsockAssumption, DmnRecords
<1>4. dmn' \in DmnRecords /\ dmn'.pc = "event" /\ dmn'.conn = c
  <2> HIDE DEF c
  <2>1. dmn' = [dmn EXCEPT !.pc = "event", !.conn = c, !.ev = ev, !.about = id]
    BY <1>1 DEF c
  <2> QED
    BY <1>2, <1>3, <2>1, DevUnchanged DEF DmnRecords
<1>5. dmn.pc = "open" /\ UNCHANGED <<conn, lists, thr, dev>> /\ ret' = NoReturn
  BY DEF usrsockdev_handle_event, DaemonRuns
<1>6. dev.ocount = 1
  BY <1>5 DEF Inv, PlaceInv
<1> QED
  <2> HIDE DEF c
  <2> QED
    BY <1>2, <1>4, <1>5, <1>6, SameDev, ThreadsStay, ConnType, NoConnFacts DEF DaemonEffect

(* Raising the daemon's event leaves the line alone.                       *)
LEMMA DeliverEventEffect ==
  ASSUME Inv, DeliverEvent
  PROVE  DaemonEffect
<1>1. /\ dmn.pc = "event" /\ ret' = NoReturn /\ UNCHANGED <<lists, dev>>
      /\ usrsock_event(dmn.conn, conn[dmn.conn], dmn.ev)
      /\ dmn' = [dmn EXCEPT !.pc = "open", !.conn = NoConn, !.ev = {}, !.about = -1]
  BY DEF DeliverEvent
<1>2. dmn.conn \in Conns /\ dmn.ev \in SUBSET Events /\ dev.ocount = 1
  <2>1. dmn.conn # NoConn /\ dev.ocount = 1
    BY <1>1 DEF Inv, PlaceInv
  <2> QED
    BY <2>1, DevUnchanged DEF DmnRecords, Events
<1>3. conn[dmn.conn] \in ConnRecords
  BY <1>2, ConnType DEF ConnFun
<1>4. /\ conn' \in ConnFun /\ thr' \in [Threads -> ThreadRecords]
      /\ \A t \in Threads : SamePlace(thr[t], thr'[t])
  BY <1>1, <1>2, <1>3, EventEffect
<1>5. dmn' \in DmnRecords /\ dmn'.pc = "open"
  BY <1>1, DevUnchanged DEF DmnRecords
<1> QED
  BY <1>1, <1>2, <1>4, <1>5, SameDev DEF DaemonEffect

(* The start of usrsockdev_close leaves the line alone.                    *)
LEMMA CloseBeginEffect ==
  ASSUME Inv, CloseBegin
  PROVE  DaemonEffect
<1> DEFINE c == usrsock_nextconn(active, free, NoConn)
<1>1. dmn.pc = "open" /\ UNCHANGED <<conn, lists, thr, dev>> /\ ret' = NoReturn
  BY DEF CloseBegin, DaemonRuns
<1>2. c \in {NoConn} \cup Conns
  BY NextconnType DEF Inv, TypeOK
<1>3. dmn' = [dmn EXCEPT !.pc = "walk", !.pend = {}, !.socks = {}, !.owes = FALSE, !.conn = c]
  BY DEF CloseBegin
<1> HIDE DEF c
<1>4. dmn' \in DmnRecords /\ dmn'.pc = "walk"
  BY <1>2, <1>3, DevUnchanged DEF DmnRecords
<1>5. dev.ocount = 1
  BY <1>1 DEF Inv, PlaceInv
<1> QED
  BY <1>1, <1>4, <1>5, SameDev, ThreadsStay, ConnType DEF DaemonEffect

(* Aborting one connection in usrsockdev_close leaves the line alone.      *)
LEMMA CloseAbortEffect ==
  ASSUME Inv, CloseAbort
  PROVE  DaemonEffect
<1> DEFINE cr == [conn[dmn.conn] EXCEPT !.inprogress = FALSE, !.xid = 0]
<1>1. /\ dmn.pc = "walk" /\ ret' = NoReturn /\ UNCHANGED <<lists, dev>>
      /\ usrsock_event(dmn.conn, cr, {"ABORT"})
      /\ dmn' = [dmn EXCEPT !.pc = "step"]
  BY DEF CloseAbort
<1>2. dmn.conn \in Conns /\ {"ABORT"} \in SUBSET Events
  BY DevUnchanged DEF CloseAbort, DmnRecords, Events, ExternalEvents
<1>3. cr \in ConnRecords
  <2>1. ASSUME NEW x \in ConnRecords
        PROVE  [x EXCEPT !.inprogress = FALSE, !.xid = 0] \in ConnRecords
    BY DEF ConnRecords
  <2> QED
    BY <1>2, <2>1, ConnType DEF ConnFun
<1>4. /\ conn' \in ConnFun /\ thr' \in [Threads -> ThreadRecords]
      /\ \A t \in Threads : SamePlace(thr[t], thr'[t])
  <2> HIDE DEF cr
  <2> QED
    BY <1>1, <1>2, <1>3, EventEffect
<1>5. dmn' \in DmnRecords /\ dmn'.pc = "step"
  BY <1>1, DevUnchanged DEF DmnRecords
<1>6. dev.ocount = 1
  BY <1>1 DEF Inv, PlaceInv
<1> QED
  BY <1>1, <1>4, <1>5, <1>6, SameDev DEF DaemonEffect

(* The step of usrsockdev_close's walk to the next connection leaves the   *)
(* line alone.                                                             *)
LEMMA CloseNextEffect ==
  ASSUME Inv, CloseNext
  PROVE  DaemonEffect
<1> DEFINE c == usrsock_nextconn(active, free, dmn.conn)
<1>1. dmn.pc = "step" /\ UNCHANGED <<conn, lists, thr, dev>> /\ ret' = NoReturn
  BY DEF CloseNext
<1>2. dmn.conn \in {NoConn} \cup Conns
  BY DevUnchanged DEF DmnRecords
<1>3. c \in {NoConn} \cup Conns
  BY <1>2, NextconnType DEF Inv, TypeOK
<1>4. dmn' = [dmn EXCEPT !.pc = "walk", !.conn = c]
  BY DEF CloseNext
<1> HIDE DEF c
<1>5. dmn' \in DmnRecords /\ dmn'.pc = "walk"
  BY <1>3, <1>4, DevUnchanged DEF DmnRecords
<1>6. dev.ocount = 1
  BY <1>1 DEF Inv, PlaceInv
<1> QED
  BY <1>1, <1>5, <1>6, SameDev, ThreadsStay, ConnType DEF DaemonEffect

(* The timeout of usrsockdev_close's wait leaves the line alone.           *)
LEMMA CloseTimeoutEffect ==
  ASSUME Inv, CloseTimeout
  PROVE  DaemonEffect
<1>1. dmn.pc = "wait" /\ UNCHANGED <<conn, lists, thr, dev>> /\ ret' = NoReturn
  BY DEF CloseTimeout
<1>2. dmn' \in DmnRecords /\ dmn'.pc = "late"
  BY DevUnchanged DEF CloseTimeout, DmnRecords
<1> QED
  BY <1>1, <1>2, SameDev, ThreadsStay, ConnType DEF DaemonEffect

-----------------------------------------------------------------------------
(* The end of usrsockdev_close                                             *)

(* At the end of its walk usrsockdev_close takes req.sem or queues for it; *)
(* the invariant survives.                                                 *)
LEMMA CloseDownInv ==
  ASSUME Inv, CloseDown
  PROVE  Inv'
<1>1. /\ dmn.pc = "walk" /\ UNCHANGED <<conn, lists, thr>> /\ ret' = NoReturn
      /\ dev.ocount = 1 /\ dev.sem \in {0, 1}
  BY DEF CloseDown, Inv, PlaceInv, LineInv
<1>2. /\ dev' \in DevRecords /\ dev'.nbusy = dev.nbusy
      /\ dev'.sem = IF dev.sem > 0 THEN dev.sem - 1 ELSE dev.sem
  <2>1. /\ dev.ocount - 1 \in 0 .. 1
        /\ (IF dev.sem > 0 THEN dev.sem - 1 ELSE dev.sem) \in Nat
    BY <1>1
  <2>2. ASSUME NEW n \in 0 .. 1, NEW m \in Nat
        PROVE  LET q == [dev EXCEPT !.ocount = n, !.sem = m]
               IN  q \in DevRecords /\ q.nbusy = dev.nbusy /\ q.sem = m
    BY DevUnchanged DEF DevRecords
  <2> QED
    BY <2>1, <2>2 DEF CloseDown
<1>3. dmn' \in DmnRecords /\ dmn'.pc = IF dev.sem > 0 THEN "got" ELSE "wait"
  BY DevUnchanged DEF CloseDown, DmnRecords
<1>4. TypeOK'
  BY <1>1, <1>2, <1>3, NoReturnType DEF Inv, TypeOK, lists
<1>5. PlaceInv'
  BY <1>1, <1>3 DEF Inv, PlaceInv
<1>6. OnLine' = OnLine /\ \A u \in Threads : (Holds(u)' <=> Holds(u)) /\ (Waits(u)' <=> Waits(u))
  BY <1>1 DEF OnLine, LineHolder, Holds, Waits
<1>7. LineInv'
  BY <1>1, <1>2, <1>3, <1>6 DEF Inv, LineInv
<1> QED
  BY <1>4, <1>5, <1>7 DEF Inv

(* usrsockdev_close leaves its loop, giving req.sem back if it had it; the *)
(* invariant survives.                                                     *)
LEMMA CloseEndInv ==
  ASSUME Inv, CloseEnd
  PROVE  Inv'
<1> DEFINE dv == [dev EXCEPT !.iov = NoThread]
           dm == [dmn EXCEPT !.pc = "closed"]
<1>1. UNCHANGED <<conn, lists>> /\ ret' = NoReturn /\ thr \in [Threads -> ThreadRecords]
  BY DEF CloseEnd, Inv, TypeOK
<1>2. /\ dv \in DevRecords /\ dv.sem = dev.sem /\ dv.nbusy = dev.nbusy
      /\ dv.ocount = dev.ocount
  BY DevUnchanged DEF DevRecords
<1>3. dm \in DmnRecords /\ dm.pc = "closed" /\ dm.conn = dmn.conn
  BY DevUnchanged DEF DmnRecords
<1>4. \A t \in Threads : thr[t].pc # "idle" => thr[t].conn # NoConn
  BY DEF Inv, PlaceInv
<1>5. CASE dmn.pc = "got" /\ usrsockdev_semgive(thr, dv, dm)
  <2>1. dev.sem = 0 /\ \A t \in Threads : thr[t].pc \notin {"linegot", "ackwait"}
    BY <1>5 DEF Inv, LineInv, Holds
  <2>2. dv.nbusy = Cardinality({t \in Threads : thr[t].pc \in LinePlaces})
    BY <1>2, OnLineSet DEF Inv, LineInv
  <2>3. /\ thr' \in [Threads -> ThreadRecords] /\ dev' \in DevRecords /\ dmn' \in DmnRecords
        /\ dev'.ocount = dv.ocount /\ dmn'.conn = dm.conn
        /\ dmn'.pc = dm.pc \/ (dm.pc = "wait" /\ dmn'.pc = "got")
        /\ \A u \in Threads : thr'[u].pc # "idle" => thr'[u].conn # NoConn
        /\ LineInv'
    <3> HIDE DEF dv, dm
    <3> QED
      BY <1>1, <1>2, <1>3, <1>4, <1>5, <2>1, <2>2, SemgiveInv
  <2>4. TypeOK'
    BY <1>1, <2>3, NoReturnType DEF Inv, TypeOK, lists
  <2>5. PlaceInv'
    <3> HIDE DEF dv, dm
    <3> QED
      BY <1>3, <2>3 DEF PlaceInv
  <2> QED
    BY <2>3, <2>4, <2>5 DEF Inv
<1>6. CASE dmn.pc = "late" /\ dev' = dv /\ dmn' = dm /\ UNCHANGED thr
  <2> HIDE DEF dv, dm
  <2>1. TypeOK'
    BY <1>1, <1>2, <1>3, <1>6, NoReturnType DEF Inv, TypeOK, lists
  <2>2. PlaceInv'
    BY <1>3, <1>4, <1>6 DEF PlaceInv
  <2>3. OnLine' = OnLine
        /\ \A u \in Threads : (Holds(u)' <=> Holds(u)) /\ (Waits(u)' <=> Waits(u))
    BY <1>6 DEF OnLine, LineHolder, Holds, Waits
  <2>4. LineInv'
    BY <1>2, <1>3, <1>6, <2>3 DEF Inv, LineInv
  <2> QED
    BY <2>1, <2>2, <2>4 DEF Inv
<1> QED
  BY <1>5, <1>6 DEF CloseEnd

(* One turn of usrsockdev_close's loop posts req.acksem and passes req.sem *)
(* on; the invariant survives.                                             *)
LEMMA CloseLoopInv ==
  ASSUME Inv, CloseLoop
  PROVE  Inv'
<1> DEFINE dv == WakesRequests
<1>1. UNCHANGED <<conn, lists>> /\ ret' = NoReturn /\ thr \in [Threads -> ThreadRecords]
  BY DEF CloseLoop, Inv, TypeOK
<1>2. /\ dv \in DevRecords /\ dv.sem = dev.sem /\ dv.nbusy = dev.nbusy
      /\ dv.ocount = dev.ocount
  <2>1. dev.acksem + 1 \in Nat
    BY DevUnchanged DEF DevRecords
  <2>2. ASSUME NEW n \in Nat, NEW l \in BOOLEAN
        PROVE  LET q == [dev EXCEPT !.iov = NoThread, !.acksem = n, !.leaked = l]
               IN  /\ q \in DevRecords /\ q.sem = dev.sem /\ q.nbusy = dev.nbusy
                   /\ q.ocount = dev.ocount
    BY DevUnchanged DEF DevRecords
  <2> DEFINE l == \/ dev.leaked \/ dev.acksem > 0
                  \/ \A t \in Threads : thr[t].pc # "ackwait"
  <2>3. l \in BOOLEAN
    BY DevUnchanged DEF DevRecords
  <2>4. dv = [dev EXCEPT !.iov = NoThread, !.acksem = dev.acksem + 1, !.leaked = l]
    BY DEF WakesRequests
  <2> HIDE DEF l, dv
  <2>5. LET q == [dev EXCEPT !.iov = NoThread, !.acksem = dev.acksem + 1, !.leaked = l]
        IN  /\ q \in DevRecords /\ q.sem = dev.sem /\ q.nbusy = dev.nbusy
            /\ q.ocount = dev.ocount
    BY <2>1, <2>2, <2>3
  <2> QED
    BY <2>4, <2>5
<1>3. dmn.pc \in {"got", "late"} /\ dev.sem \in {0, 1}
  BY DEF CloseLoop, Inv, LineInv
<1> HIDE DEF dv
<1>4. CASE dmn.pc = "got" /\ dev' = dv /\ \E u \in Threads :
             /\ thr[u].pc = "reqwait"
             /\ thr' = [thr EXCEPT ![u].pc = "linegot"]
             /\ dmn' = [dmn EXCEPT !.pc = "wait"]
  <2>1. PICK u \in Threads : /\ thr[u].pc = "reqwait"
                             /\ thr' = [thr EXCEPT ![u].pc = "linegot"]
                             /\ dmn' = [dmn EXCEPT !.pc = "wait"]
    BY <1>4
  <2>2. ASSUME NEW s \in ThreadRecords
        PROVE  LET q == [s EXCEPT !.pc = "linegot"]
               IN  q \in ThreadRecords /\ q.pc = "linegot" /\ q.conn = s.conn
    BY DEF ThreadRecords, Places
  <2>3. /\ thr' \in [Threads -> ThreadRecords]
        /\ thr'[u].pc = "linegot" /\ thr'[u].conn = thr[u].conn
        /\ \A t \in Threads \ {u} : thr'[t] = thr[t]
    BY <1>1, <2>1, <2>2
  <2>4. dmn' \in DmnRecords /\ dmn'.pc = "wait"
    BY <2>1, DevUnchanged DEF DmnRecords
  <2>5. OnLine' = OnLine
    BY <2>1, <2>3, OnLineSet, OnLineSetPrime DEF LinePlaces
  <2>6. Holds(u)' /\ \A t \in Threads \ {u} : ~Holds(t)'
    BY <1>4, <2>3 DEF Holds, Inv, LineInv
  <2>7. TypeOK'
    BY <1>1, <1>2, <1>4, <2>3, <2>4, NoReturnType DEF Inv, TypeOK, lists
  <2>8. PlaceInv'
    BY <2>1, <2>3, <2>4 DEF Inv, PlaceInv
  <2>9. LineInv'
    <3>1. dev'.sem = 0 /\ dev'.nbusy = Cardinality(OnLine)
      BY <1>2, <1>4 DEF Inv, LineInv
    <3> QED
      BY <2>4, <2>5, <2>6, <3>1 DEF LineInv
  <2> QED
    BY <2>7, <2>8, <2>9 DEF Inv
<1>5. CASE dmn.pc = "got" /\ dev' = dv /\ UNCHANGED <<thr, dmn>>
  <2>1. TypeOK'
    BY <1>1, <1>2, <1>5, NoReturnType DEF Inv, TypeOK, lists
  <2>2. PlaceInv'
    BY <1>5 DEF Inv, PlaceInv
  <2>3. OnLine' = OnLine
        /\ \A u \in Threads : (Holds(u)' <=> Holds(u)) /\ (Waits(u)' <=> Waits(u))
    BY <1>5 DEF OnLine, LineHolder, Holds, Waits
  <2>4. LineInv'
    BY <1>2, <1>5, <2>3 DEF Inv, LineInv
  <2> QED
    BY <2>1, <2>2, <2>4 DEF Inv
<1>6. CASE /\ dmn.pc = "late" /\ UNCHANGED thr
           /\ dev' = [dv EXCEPT !.sem = IF @ > 0 THEN @ - 1 ELSE @]
           /\ dmn' = [dmn EXCEPT !.pc = IF dev.sem > 0 THEN "got" ELSE "wait"]
  <2>1. /\ dev' \in DevRecords /\ dev'.nbusy = dev.nbusy
        /\ dev'.sem = IF dev.sem > 0 THEN dev.sem - 1 ELSE dev.sem
    BY <1>2, <1>3, <1>6 DEF DevRecords
  <2>2. dmn' \in DmnRecords /\ dmn'.pc = IF dev.sem > 0 THEN "got" ELSE "wait"
    BY <1>6, DevUnchanged DEF DmnRecords
  <2>3. TypeOK'
    BY <1>1, <1>6, <2>1, <2>2, NoReturnType DEF Inv, TypeOK, lists
  <2>4. PlaceInv'
    BY <1>6, <2>2 DEF Inv, PlaceInv
  <2>5. OnLine' = OnLine
        /\ \A u \in Threads : (Holds(u)' <=> Holds(u)) /\ (Waits(u)' <=> Waits(u))
    BY <1>6 DEF OnLine, LineHolder, Holds, Waits
  <2>6. LineInv'
    <3>1. dmn.pc = "late"
      BY <1>6
    <3>2. CASE dev.sem = 1
      <4>1. dev'.sem = 0 /\ dmn'.pc = "got"
        BY <2>1, <2>2, <3>2
      <4> QED
        BY <2>1, <2>5, <3>2, <4>1 DEF Inv, LineInv
    <3>3. CASE dev.sem = 0
      <4>1. dev'.sem = 0 /\ dmn'.pc = "wait"
        BY <2>1, <2>2, <3>3
      <4> QED
        BY <2>1, <2>5, <3>1, <3>3, <4>1 DEF Inv, LineInv
    <3> QED
      BY <1>3, <3>2, <3>3
  <2> QED
    BY <2>3, <2>4, <2>6 DEF Inv
<1> QED
  BY <1>4, <1>5, <1>6 DEF CloseLoop, dv

-----------------------------------------------------------------------------
(* The kinds of steps                                                      *)

(* Every step of a thread is outside the line, takes it or leaves it.      *)
LEMMA ThreadKinds ==
  ASSUME Inv, NEW t \in Threads, ThreadStep(t)
  PROVE  OffLine(t) \/ TakeLine(t) \/ LeaveLine(t)
<1>1. CASE ApiCall(t)
  <2>1. ASSUME NEW c \in Conns,
               \/ usrsock_bind(t, c) \/ usrsock_setsockopt(t, c)
               \/ usrsock_getsockopt(t, c) \/ usrsock_getsockname(t, c)
        PROVE  OffLine(t)
    <3>1. \E op \in SimpleOps : SimpleRequest(t, op, c) \/ BadOption(t, op, c)
      BY <2>1 DEF SimpleOps, usrsock_bind, usrsock_setsockopt, usrsock_getsockopt,
                  usrsock_getsockname
    <3> QED
      BY <3>1, SimpleOffLine
  <2>2. ASSUME NEW c \in Conns, usrsock_sendto(t, c) \/ usrsock_recvfrom(t, c)
        PROVE  OffLine(t)
    <3>1. \/ \E op \in IoCalls : IoCall(t, op, c)
          \/ SendtoWithAddress(t, c) \/ RecvfromBadBuffer(t, c)
      BY <2>2 DEF IoCalls, usrsock_sendto, usrsock_recvfrom
    <3> QED
      BY <3>1, IoCallOffLine, IoArgumentsOffLine
  <2> QED
    BY <1>1, <2>1, <2>2, SocketCallOffLine, CloseOffLine, CloneOffLine, ConnectOffLine,
       PollsetupOffLine DEF ApiCall
<1>2. CASE ApiContinue(t)
  BY <1>2, SocketOffLine, PsockCloseOffLine, RequestDoneOffLine,
     ConnectInterruptedOffLine, IoReadyOffLine, PollteardownOffLine DEF ApiContinue
<1>3. CASE net_timedwait(t)
  BY <1>3, TimedwaitOffLine
<1> QED
  BY <1>1, <1>2, <1>3 DEF ThreadStep

(* Every step moves one thread outside the line, or is one of the daemon's *)
(* that moves none, or takes, hands over or gives back the line.           *)
LEMMA StepKinds ==
  ASSUME Inv, Next
  PROVE  \/ \E t \in Threads : OffLine(t) \/ TakeLine(t) \/ LeaveLine(t)
         \/ DaemonEffect
         \/ CloseDown \/ CloseEnd \/ CloseLoop
<1>1. CASE DaemonStep
  <2>1. ASSUME NEW t \in Threads, usrsockdev_handle_req_response(t)
        PROVE  DaemonEffect
    <3>1. PICK r \in dmn.pend : RespondInProgress(r) \/ RespondFinally(r)
      BY <2>1 DEF usrsockdev_handle_req_response
    <3> QED
      BY <2>1, <3>1, RespondInProgressEffect, RespondFinallyEffect
         DEF usrsockdev_handle_req_response
  <2> QED
    BY <1>1, <2>1, OpenEffect, PollEffect, ReadEffect, WriteEffect, HandleEventEffect,
       DeliverEventEffect, CloseBeginEffect, CloseAbortEffect, CloseNextEffect,
       CloseTimeoutEffect DEF DaemonStep
<1> QED
  BY <1>1, ThreadKinds DEF Next

-----------------------------------------------------------------------------
(* Types and the request line                                              *)

(* The state usrsock_initialize and usrsockdev_register leave satisfies    *)
(* the inductive invariant.                                                *)
LEMMA InitInv == Init => Inv
<1> SUFFICES ASSUME Init PROVE Inv
  OBVIOUS
<1>1. thr = [t \in Threads |-> IdleThread] /\ IdleThread.pc = "idle"
  BY DEF Init, IdleThread
<1>2. conn \in [Conns -> ConnRecords] /\ thr \in [Threads -> ThreadRecords]
  BY <1>1, ConstantTypes DEF Init, usrsock_initialize
<1>3. active \in Seq(Conns) /\ free \in Seq(Conns)
  <2>1. active \in Seq(Conns)
    BY EmptySeq DEF Init, usrsock_initialize
  <2>2. NConns \in Nat /\ free = [i \in 1 .. NConns |-> i] /\ Conns = 1 .. NConns
    BY ConnAssumption DEF ConnAssumption, Init, usrsock_initialize, Conns
  <2>3. free \in Seq(Conns)
    BY <2>2
  <2> QED
    BY <2>1, <2>3
<1>4. /\ dev \in DevRecords /\ dev.sem = 1 /\ dev.nbusy = 0
  BY DEF Init, usrsockdev_register, DevRecords
<1>5. dmn \in DmnRecords /\ dmn.pc = "closed"
  BY DEF Init, DmnRecords
<1>6. ret \in Returns
  BY NoReturnType DEF Init
<1>7. PlaceInv
  BY <1>1, <1>5 DEF PlaceInv
<1>8. LineInv
  <2>1. OnLine = {}
    BY <1>1, OnLineSet DEF LinePlaces
  <2>2. \A t \in Threads : ~Holds(t) /\ ~Waits(t)
    BY <1>1 DEF Holds, Waits
  <2> QED
    BY <1>4, <1>5, <2>1, <2>2, FS_EmptySet DEF LineInv
<1> QED
  BY <1>2, <1>3, <1>4, <1>5, <1>6, <1>7, <1>8 DEF Inv, TypeOK

(* Every step of the system preserves the inductive invariant.             *)
LEMMA NextInv == Inv /\ [Next]_vars => Inv'
<1> SUFFICES ASSUME Inv, [Next]_vars PROVE Inv'
  OBVIOUS
<1>1. CASE Next
  BY <1>1, StepKinds, OffLineInv, TakeLineInv, LeaveLineInv, DaemonEffectInv,
     CloseDownInv, CloseEndInv, CloseLoopInv
<1>2. CASE UNCHANGED vars
  BY <1>2 DEF vars, Inv, TypeOK, PlaceInv, LineInv, OnLine, LineHolder, Holds, Waits
<1> QED
  BY <1>1, <1>2

(* The inductive invariant implies the counting property of the line.      *)
LEMMA InvLineCount == Inv => LineCount
<1> SUFFICES ASSUME Inv PROVE LineCount
  OBVIOUS
<1>1. LineHolder = {t \in Threads : Holds(t)}
  BY DEF LineHolder, Holds
<1>2. CASE \E t \in Threads : Holds(t)
  <2>1. PICK t \in Threads : Holds(t)
    BY <1>2
  <2>2. LineHolder = {t}
    BY <1>1, <2>1 DEF Inv, LineInv
  <2>3. Cardinality(LineHolder) = 1
    BY <2>2, FS_Singleton
  <2> QED
    BY <2>1, <2>3 DEF Inv, LineInv, LineCount
<1>3. CASE ~ \E t \in Threads : Holds(t)
  <2>1. LineHolder = {}
    BY <1>1, <1>3
  <2>2. Cardinality(LineHolder) = 0
    BY <2>1, FS_EmptySet
  <2>3. dev.sem = 1 => OnLine = {}
    BY <2>1 DEF Inv, LineInv, OnLine, Waits
  <2> QED
    BY <1>3, <2>2, <2>3 DEF Inv, LineInv, LineCount
<1> QED
  BY <1>2, <1>3

(* The inductive invariant holds in every reachable state.                 *)
LEMMA SpecInv == Spec => []Inv
<1>1. Init => Inv
  BY InitInv
<1>2. Inv /\ [Next]_vars => Inv'
  BY NextInv
<1> QED
  BY <1>1, <1>2, PTL DEF Spec

(* Every variable keeps the type of the C declaration it stands for; in    *)
(* particular req.nbusy, an unsigned counter that usrsockdev_do_request    *)
(* decrements on its way out, never falls below zero.                      *)
THEOREM TypeCorrect == Spec => []TypeOK
<1>1. Inv => TypeOK
  BY DEF Inv
<1> QED
  BY <1>1, SpecInv, PTL

(* However threads, daemon and usrsockdev_close take, hand over and give   *)
(* back req.sem, the request line is had by one of them at a time, nobody  *)
(* waits for a free line, and req.nbusy counts the threads in              *)
(* usrsockdev_do_request.                                                  *)
THEOREM LineCorrect == Spec => []LineCount
BY InvLineCount, SpecInv, PTL

-----------------------------------------------------------------------------
(* The request on the line and its acknowledgment                          *)

(* A step outside the line leaves the request on it alone.                 *)
LEMMA OffLineKeeps ==
  ASSUME Inv, NEW t \in Threads, OffLine(t)
  PROVE  /\ dev'.iov = dev.iov /\ dev'.rd = dev.rd /\ dev'.poll = dev.poll
         /\ dev'.acksem = dev.acksem /\ dev'.leaked = dev.leaked
         /\ \A u \in Threads : thr'[u].pc = "ackwait" <=> thr[u].pc = "ackwait"
<1>1. PICK r \in ThreadRecords :
        /\ thr' = [thr EXCEPT ![t] = r]
        /\ \/ r.pc \notin LinePlaces /\ dev' = dev
           \/ /\ r.pc = LineWait
              /\ dev' = [dev EXCEPT !.nbusy = @ + 1, !.sem = IF @ > 0 THEN @ - 1 ELSE @]
  BY DEF OffLine, ApiEffect
<1>2. thr[t].pc # "ackwait" /\ r.pc # "ackwait"
  BY <1>1 DEF OffLine, LinePlaces, LineWait
<1>3. \A u \in Threads : thr'[u].pc = "ackwait" <=> thr[u].pc = "ackwait"
  BY <1>1, <1>2 DEF Inv, TypeOK
<1> QED
  BY <1>1, <1>3, DevUnchanged DEF DevRecords

(* Handing over the semaphore leaves the request on the line alone.        *)
LEMMA SemgiveKeeps ==
  ASSUME NEW th \in [Threads -> ThreadRecords], NEW dv \in DevRecords, NEW dm,
         usrsockdev_semgive(th, dv, dm)
  PROVE  /\ dev'.iov = dv.iov /\ dev'.rd = dv.rd /\ dev'.poll = dv.poll
         /\ dev'.acksem = dv.acksem /\ dev'.leaked = dv.leaked
         /\ \A u \in Threads : thr'[u].pc = "ackwait" <=> th[u].pc = "ackwait"
<1>1. CASE \E u \in Threads : /\ th[u].pc = "reqwait"
                              /\ thr' = [th EXCEPT ![u].pc = "linegot"]
                              /\ dev' = dv
  <2>1. PICK u \in Threads : /\ th[u].pc = "reqwait"
                             /\ thr' = [th EXCEPT ![u].pc = "linegot"]
    BY <1>1
  <2>2. th[u] \in ThreadRecords /\ [th[u] EXCEPT !.pc = "linegot"].pc = "linegot"
    BY DEF ThreadRecords
  <2>3. \A t \in Threads : thr'[t].pc = "ackwait" <=> th[t].pc = "ackwait"
    BY <2>1, <2>2
  <2> QED
    BY <1>1, <2>3
<1>2. CASE thr' = th /\ dev' = dv
  BY <1>2
<1>3. CASE thr' = th /\ dev' = [dv EXCEPT !.sem = @ + 1]
  BY <1>3 DEF DevRecords
<1> QED
  BY <1>1, <1>2, <1>3 DEF usrsockdev_semgive

(* A thread that leaves usrsockdev_do_request takes only its own place     *)
(* with it.                                                                *)
LEMMA AfterRequestKeeps ==
  ASSUME Inv, NEW t \in Threads, thr[t].pc \in {"linegot", "ackwait"},
         NEW dv \in DevRecords, dv.nbusy = dev.nbusy, AfterRequest(t, dv)
  PROVE  /\ dev'.iov = dv.iov /\ dev'.rd = dv.rd /\ dev'.poll = dv.poll
         /\ dev'.acksem = dv.acksem /\ dev'.leaked = dv.leaked
         /\ thr'[t].pc # "ackwait"
         /\ \A u \in Threads \ {t} : thr'[u].pc = "ackwait" <=> thr[u].pc = "ackwait"
<1> DEFINE early == thr[t].op = "connect" /\ conn[thr[t].conn].inprogress /\ thr[t].nonblock
           r     == IF early THEN IdleThread ELSE [thr[t] EXCEPT !.pc = "respwait"]
           th    == [thr EXCEPT ![t] = r]
           dg    == [dv EXCEPT !.nbusy = @ - 1]
<1>1. r \in ThreadRecords /\ r.pc # "ackwait"
  <2>1. ASSUME NEW s \in ThreadRecords
        PROVE  LET q == [s EXCEPT !.pc = "respwait"]
               IN  q \in ThreadRecords /\ q.pc = "respwait"
    BY DEF ThreadRecords, Places
  <2>2. IdleThread.pc = "idle"
    BY DEF IdleThread
  <2> QED
    BY <2>1, <2>2, ConstantTypes, ConnType
<1>2. /\ th \in [Threads -> ThreadRecords] /\ th[t] = r
      /\ \A u \in Threads \ {t} : th[u] = thr[u]
  BY <1>1 DEF Inv, TypeOK
<1>3. /\ dg.iov = dv.iov /\ dg.rd = dv.rd /\ dg.poll = dv.poll
      /\ dg.acksem = dv.acksem /\ dg.leaked = dv.leaked /\ dg \in DevRecords
  <2>1. dv.nbusy - 1 \in Nat
    BY BusyPositive DEF Inv, LinePlaces
  <2>2. ASSUME NEW n \in Nat
        PROVE  LET q == [dv EXCEPT !.nbusy = n]
               IN  /\ q.iov = dv.iov /\ q.rd = dv.rd /\ q.poll = dv.poll
                   /\ q.acksem = dv.acksem /\ q.leaked = dv.leaked /\ q \in DevRecords
    BY DEF DevRecords
  <2> QED
    BY <2>1, <2>2
<1>4. usrsockdev_semgive(th, dg, dmn)
  BY DEF AfterRequest
<1>5. /\ dev'.iov = dg.iov /\ dev'.rd = dg.rd /\ dev'.poll = dg.poll
      /\ dev'.acksem = dg.acksem /\ dev'.leaked = dg.leaked
      /\ \A u \in Threads : thr'[u].pc = "ackwait" <=> th[u].pc = "ackwait"
  <2> HIDE DEF th, dg
  <2> QED
    BY <1>2, <1>3, <1>4, SemgiveKeeps
<1> QED
  <2> HIDE DEF th, dg, r
  <2> QED
    BY <1>1, <1>2, <1>3, <1>5

(* The acknowledgment semaphore goes with the request: LineOwner is        *)
(* preserved by every step.                                                *)
LEMMA NextLineOwner == Inv /\ LineOwner /\ [Next]_vars => LineOwner'
<1> SUFFICES ASSUME Inv, LineOwner, [Next]_vars PROVE LineOwner'
  OBVIOUS
<1>0. /\ dev.iov \in Threads \cup {NoThread} /\ dev.acksem \in Nat
      /\ NoThread \notin Threads /\ dev \in DevRecords
  BY DevUnchanged, ConnAssumption DEF DevRecords, ConnAssumption
<1>1. ASSUME NEW t \in Threads, OffLine(t) PROVE LineOwner'
  BY <1>0, <1>1, OffLineKeeps DEF LineOwner
<1>2. ASSUME NEW t \in Threads, TakeLine(t) PROVE LineOwner'
  <2>1. thr[t].pc = "linegot" /\ \A u \in Threads : thr[u].pc # "ackwait"
    BY <1>2 DEF TakeLine, Inv, LineInv, Holds
  <2>2. ~dev.leaked => dev.iov = NoThread /\ dev.acksem = 0
    BY <1>0, <2>1 DEF LineOwner
  <2>3. CASE usrsockdev_is_opened
    <3>1. /\ dev'.iov = t /\ dev'.acksem = dev.acksem /\ dev'.leaked = dev.leaked
      BY <1>0, <1>2, <2>3 DEF TakeLine, DevRecords
    <3>2. thr'[t].pc = "ackwait"
      <4>1. thr[t] \in ThreadRecords /\ [thr[t] EXCEPT !.pc = "ackwait"].pc = "ackwait"
        BY ConnType DEF ThreadRecords
      <4> QED
        BY <1>2, <2>3, <4>1 DEF TakeLine, Inv, TypeOK
    <3> QED
      BY <2>2, <3>1, <3>2 DEF LineOwner
  <2>4. CASE ~usrsockdev_is_opened
    <3>1. AfterRequest(t, dev)
      BY <1>2, <2>4 DEF TakeLine
    <3>2. /\ dev'.iov = dev.iov /\ dev'.acksem = dev.acksem /\ dev'.leaked = dev.leaked
      BY <1>0, <2>1, <3>1, AfterRequestKeeps
    <3> QED
      BY <2>2, <3>2 DEF LineOwner
  <2> QED
    BY <2>3, <2>4
<1>3. ASSUME NEW t \in Threads, LeaveLine(t) PROVE LineOwner'
  <2> DEFINE dv == [dev EXCEPT !.acksem = @ - 1]
  <2>1. thr[t].pc = "ackwait" /\ dev.acksem > 0 /\ AfterRequest(t, dv)
    BY <1>3 DEF LeaveLine
  <2>2. dev.acksem - 1 \in Nat
    BY <1>0, <2>1
  <2>3. ASSUME NEW n \in Nat
        PROVE  LET q == [dev EXCEPT !.acksem = n]
               IN  /\ q \in DevRecords /\ q.nbusy = dev.nbusy /\ q.acksem = n
                   /\ q.iov = dev.iov /\ q.leaked = dev.leaked
    BY <1>0 DEF DevRecords
  <2>4. /\ dv \in DevRecords /\ dv.nbusy = dev.nbusy /\ dv.acksem = dev.acksem - 1
        /\ dv.iov = dev.iov /\ dv.leaked = dev.leaked
    BY <2>2, <2>3
  <2>5. /\ dev'.iov = dev.iov /\ dev'.acksem = dev.acksem - 1 /\ dev'.leaked = dev.leaked
    <3> HIDE DEF dv
    <3> QED
      BY <2>1, <2>4, AfterRequestKeeps
  <2>6. ~dev.leaked => dev.iov = NoThread /\ dev.acksem = 1
    BY <1>0, <2>1 DEF LineOwner
  <2> QED
    BY <2>5, <2>6 DEF LineOwner
<1>4. ASSUME DaemonEffect PROVE LineOwner'
  <2>1. \A u \in Threads : thr'[u].pc = thr[u].pc
    BY <1>4 DEF DaemonEffect, SamePlace
  <2>2. CASE dev'.iov = dev.iov /\ dev'.acksem = dev.acksem
    BY <1>0, <1>4, <2>1, <2>2 DEF DaemonEffect, DevStep, LineOwner
  <2>3. CASE dev.iov # NoThread /\ dev'.iov = NoThread /\ dev'.acksem = dev.acksem + 1
    <3>1. dev'.leaked = dev.leaked
      BY <1>4 DEF DaemonEffect, DevStep
    <3>2. ~dev.leaked => dev.acksem = 0 /\ dev.iov \in Threads /\ thr[dev.iov].pc = "ackwait"
      BY <1>0, <2>3 DEF LineOwner
    <3> QED
      BY <2>1, <2>3, <3>1, <3>2 DEF LineOwner
  <2> QED
    BY <1>4, <2>2, <2>3 DEF DaemonEffect, DevStep
<1>5. ASSUME CloseDown PROVE LineOwner'
  <2>1. dev'.iov = dev.iov /\ dev'.acksem = dev.acksem /\ dev'.leaked = dev.leaked /\ thr' = thr
    BY <1>0, <1>5 DEF CloseDown, DevRecords
  <2> QED
    BY <2>1 DEF LineOwner
<1>6. ASSUME CloseEnd PROVE LineOwner'
  <2> DEFINE dv == [dev EXCEPT !.iov = NoThread]
  <2>1. /\ dv \in DevRecords /\ dv.iov = NoThread /\ dv.acksem = dev.acksem
        /\ dv.leaked = dev.leaked
    BY <1>0 DEF DevRecords
  <2>2. \/ usrsockdev_semgive(thr, dv, [dmn EXCEPT !.pc = "closed"])
        \/ dev' = dv /\ thr' = thr
    BY <1>6 DEF CloseEnd
  <2>3. /\ dev'.iov = NoThread /\ dev'.acksem = dev.acksem /\ dev'.leaked = dev.leaked
        /\ \A u \in Threads : thr'[u].pc = "ackwait" <=> thr[u].pc = "ackwait"
    <3> HIDE DEF dv
    <3>1. thr \in [Threads -> ThreadRecords]
      BY DEF Inv, TypeOK
    <3> QED
      BY <2>1, <2>2, <3>1, SemgiveKeeps
  <2> QED
    BY <1>0, <2>3 DEF LineOwner
<1>7. ASSUME CloseLoop PROVE LineOwner'
  <2>1. /\ dev'.iov = NoThread /\ dev'.acksem = dev.acksem + 1
        /\ dev'.leaked = (\/ dev.leaked \/ dev.acksem > 0
                          \/ \A t \in Threads : thr[t].pc # "ackwait")
    BY <1>0, <1>7 DEF CloseLoop, WakesRequests, DevRecords
  <2>2. \A u \in Threads : thr[u].pc = "ackwait" => thr'[u].pc = "ackwait"
    BY <1>7 DEF CloseLoop, Inv, TypeOK
  <2> QED
    BY <1>0, <2>1, <2>2 DEF LineOwner
<1>8. CASE UNCHANGED vars
  BY <1>8 DEF vars, LineOwner
<1> QED
  BY <1>1, <1>2, <1>3, <1>4, <1>5, <1>6, <1>7, <1>8, StepKinds

(* As long as usrsockdev_close has never posted req.acksem with nobody to  *)
(* take it, a request on the line belongs to a thread that still waits for *)
(* its acknowledgment, and an acknowledgment is pending only for it.       *)
THEOREM OwnerCorrect == Spec => []LineOwner
<1>1. Init => LineOwner
  <2> SUFFICES ASSUME Init PROVE LineOwner
    OBVIOUS
  <2>1. dev.iov = NoThread /\ dev.acksem = 0
    BY DEF Init, usrsockdev_register
  <2> QED
    BY <2>1 DEF LineOwner
<1>2. Inv /\ LineOwner /\ [Next]_vars => LineOwner'
  BY NextLineOwner
<1> QED
  BY <1>1, <1>2, SpecInv, PTL DEF Spec

(* A daemon that waits in poll() on the device with nothing posted has no  *)
(* request on the line that it has not read: usrsockdev_do_request and     *)
(* usrsockdev_poll never miss each other.                                  *)
THEOREM DaemonWokenCorrect == Spec => []DaemonWoken
<1>1. Init => DaemonWoken
  BY DEF Init, usrsockdev_register, DaemonWoken
<1>2. Inv /\ DaemonWoken /\ [Next]_vars => DaemonWoken'
  <2> SUFFICES ASSUME Inv, DaemonWoken, [Next]_vars PROVE DaemonWoken'
    OBVIOUS
  <2>0. dev \in DevRecords /\ thr \in [Threads -> ThreadRecords]
    BY DEF Inv, TypeOK
  <2>1. ASSUME NEW t \in Threads, OffLine(t) PROVE DaemonWoken'
    BY <2>1, OffLineKeeps DEF DaemonWoken
  <2>2. ASSUME NEW t \in Threads, TakeLine(t) PROVE DaemonWoken'
    <3>1. CASE usrsockdev_is_opened
      BY <2>0, <2>2, <3>1 DEF TakeLine, usrsockdev_pollnotify, DevRecords, DaemonWoken
    <3>2. CASE ~usrsockdev_is_opened
      <4>1. thr[t].pc = "linegot" /\ AfterRequest(t, dev)
        BY <2>2, <3>2 DEF TakeLine
      <4> QED
        BY <2>0, <4>1, AfterRequestKeeps DEF DaemonWoken
    <3> QED
      BY <3>1, <3>2
  <2>3. ASSUME NEW t \in Threads, LeaveLine(t) PROVE DaemonWoken'
    <3> DEFINE dv == [dev EXCEPT !.acksem = @ - 1]
    <3>1. thr[t].pc = "ackwait" /\ AfterRequest(t, dv) /\ dev.acksem - 1 \in Nat
      BY <2>0, <2>3 DEF LeaveLine, DevRecords
    <3>2. ASSUME NEW n \in Nat
          PROVE  LET q == [dev EXCEPT !.acksem = n]
                 IN  /\ q \in DevRecords /\ q.nbusy = dev.nbusy
                     /\ q.iov = dev.iov /\ q.rd = dev.rd /\ q.poll = dev.poll
      BY <2>0 DEF DevRecords
    <3>3. /\ dv \in DevRecords /\ dv.nbusy = dev.nbusy
          /\ dv.iov = dev.iov /\ dv.rd = dev.rd /\ dv.poll = dev.poll
      BY <3>1, <3>2
    <3> HIDE DEF dv
    <3> QED
      BY <3>1, <3>3, AfterRequestKeeps DEF DaemonWoken
  <2>4. ASSUME DaemonEffect PROVE DaemonWoken'
    BY <2>4 DEF DaemonEffect, DevStep, DaemonWoken
  <2>5. ASSUME CloseDown PROVE DaemonWoken'
    BY <2>0, <2>5 DEF CloseDown, DevRecords, DaemonWoken
  <2>6. ASSUME CloseEnd PROVE DaemonWoken'
    <3> DEFINE dv == [dev EXCEPT !.iov = NoThread]
    <3>1. dv \in DevRecords /\ dv.iov = NoThread
      BY <2>0 DEF DevRecords
    <3>2. usrsockdev_semgive(thr, dv, [dmn EXCEPT !.pc = "closed"]) \/ dev' = dv
      BY <2>6 DEF CloseEnd
    <3> HIDE DEF dv
    <3> QED
      BY <2>0, <3>1, <3>2, SemgiveKeeps DEF DaemonWoken
  <2>7. ASSUME CloseLoop PROVE DaemonWoken'
    BY <2>0, <2>7 DEF CloseLoop, WakesRequests, DevRecords, DaemonWoken
  <2>8. CASE UNCHANGED vars
    BY <2>8 DEF vars, DaemonWoken
  <2> QED
    BY <2>1, <2>2, <2>3, <2>4, <2>5, <2>6, <2>7, <2>8, StepKinds
<1> QED
  BY <1>1, <1>2, SpecInv, PTL DEF Spec

-----------------------------------------------------------------------------
(* The assertion that the line is free                                     *)

(* A thread leaves the daemon where it is, or hands usrsockdev_close the   *)
(* line.                                                                   *)
LEMMA ThreadLeavesDaemon ==
  ASSUME Inv, NEW t \in Threads, ThreadStep(t)
  PROVE  \/ dmn' = dmn
         \/ /\ dmn.pc = "wait" /\ dmn'.pc = "got" /\ dmn'.sessions = dmn.sessions
            /\ dmn'.pend = dmn.pend /\ dmn'.used = dmn.used
<1>1. CASE ApiCall(t)
  <2>1. CASE SocketCall(t)
    BY <2>1 DEF SocketCall
  <2>2. ASSUME NEW c \in Conns, \/ usrsock_close(t, c) \/ net_clone(t, c)
                                \/ usrsock_connect(t, c)
                                \/ \E wanted \in PollMasks : usrsock_pollsetup(t, c, wanted)
        PROVE  dmn' = dmn
    BY <2>2 DEF usrsock_close, net_clone, usrsock_connect, usrsock_pollsetup
  <2>3. ASSUME NEW c \in Conns, \/ usrsock_bind(t, c) \/ usrsock_setsockopt(t, c)
                                \/ usrsock_getsockopt(t, c) \/ usrsock_getsockname(t, c)
        PROVE  dmn' = dmn
    BY <2>3 DEF usrsock_bind, usrsock_setsockopt, usrsock_getsockopt, usrsock_getsockname,
       SimpleRequest, BadOption
  <2>4. ASSUME NEW c \in Conns, usrsock_sendto(t, c) \/ usrsock_recvfrom(t, c)
        PROVE  dmn' = dmn
    BY <2>4 DEF usrsock_sendto, usrsock_recvfrom, IoCall, SendtoWithAddress,
       RecvfromBadBuffer
  <2> QED
    BY <1>1, <2>1, <2>2, <2>3, <2>4 DEF ApiCall
<1>2. CASE TakeLine(t) \/ LeaveLine(t)
  <2>1. dmn \in DmnRecords
    BY DevUnchanged
  <2>2. CASE dmn' = dmn
    BY <2>2
  <2>3. CASE \E th, dv : usrsockdev_semgive(th, dv, dmn)
    BY <2>1, <2>3 DEF usrsockdev_semgive, DmnRecords
  <2> QED
    BY <1>2, <2>2, <2>3 DEF TakeLine, LeaveLine, AfterRequest
<1>3. CASE \/ usrsock_socket(t) \/ psock_close(t) \/ RequestDone(t) \/ ConnectInterrupted(t)
           \/ IoReady(t) \/ usrsock_pollteardown(t) \/ net_timedwait(t)
  BY <1>3 DEF usrsock_socket, psock_close, RequestDone, ConnectInterrupted, IoReady,
     usrsock_pollteardown, net_timedwait
<1> QED
  BY <1>1, <1>2, <1>3 DEF ThreadStep, ApiContinue

(* A thread leaves the count of opens, the data response under way and the *)
(* history of the device alone.                                            *)
LEMMA ThreadLeavesDevice ==
  ASSUME Inv, NEW t \in Threads, ThreadStep(t)
  PROVE  dev'.ocount = dev.ocount /\ dev'.leaked = dev.leaked /\ dev'.datain = dev.datain
<1>1. dev \in DevRecords /\ thr \in [Threads -> ThreadRecords]
  BY DEF Inv, TypeOK
<1>2. ASSUME OffLine(t) PROVE dev'.ocount = dev.ocount /\ dev'.leaked = dev.leaked /\ dev'.datain = dev.datain
  BY <1>1, <1>2 DEF OffLine, ApiEffect, DevRecords
<1>3. ASSUME NEW th, NEW dv \in DevRecords, usrsockdev_semgive(th, dv, dmn)
      PROVE  dev'.ocount = dv.ocount /\ dev'.leaked = dv.leaked /\ dev'.datain = dv.datain
  BY <1>3 DEF usrsockdev_semgive, DevRecords
<1>4. ASSUME NEW dv \in DevRecords, dv.nbusy = dev.nbusy,
             thr[t].pc \in LinePlaces, AfterRequest(t, dv)
      PROVE  dev'.ocount = dv.ocount /\ dev'.leaked = dv.leaked /\ dev'.datain = dv.datain
  <2>1. dv.nbusy - 1 \in Nat
    BY <1>4, BusyPositive DEF Inv
  <2>2. ASSUME NEW n \in Nat
        PROVE  LET q == [dv EXCEPT !.nbusy = n]
               IN  q \in DevRecords /\ q.ocount = dv.ocount /\ q.leaked = dv.leaked /\ q.datain = dv.datain
    BY DEF DevRecords
  <2> DEFINE dg == [dv EXCEPT !.nbusy = @ - 1]
  <2>3. dg \in DevRecords /\ dg.ocount = dv.ocount /\ dg.leaked = dv.leaked /\ dg.datain = dv.datain
    BY <2>1, <2>2
  <2>4. \E th : usrsockdev_semgive(th, dg, dmn)
    BY <1>4 DEF AfterRequest
  <2> HIDE DEF dg
  <2> QED
    BY <1>3, <2>3, <2>4
<1>5. CASE TakeLine(t)
  <2>1. CASE usrsockdev_is_opened
    BY <1>1, <1>5, <2>1 DEF TakeLine, DevRecords
  <2>2. CASE ~usrsockdev_is_opened
    BY <1>1, <1>4, <1>5, <2>2 DEF TakeLine, LinePlaces
  <2> QED
    BY <2>1, <2>2
<1>6. CASE LeaveLine(t)
  <2> DEFINE dv == [dev EXCEPT !.acksem = @ - 1]
  <2>1. dev.acksem - 1 \in Nat
    BY <1>1, <1>6 DEF LeaveLine, DevRecords
  <2>2. ASSUME NEW n \in Nat
        PROVE  LET q == [dev EXCEPT !.acksem = n]
               IN  /\ q \in DevRecords /\ q.nbusy = dev.nbusy
                   /\ q.ocount = dev.ocount /\ q.leaked = dev.leaked /\ q.datain = dev.datain
    BY <1>1 DEF DevRecords
  <2>3. /\ dv \in DevRecords /\ dv.nbusy = dev.nbusy
        /\ dv.ocount = dev.ocount /\ dv.leaked = dev.leaked /\ dv.datain = dev.datain
    BY <2>1, <2>2
  <2>4. thr[t].pc \in LinePlaces /\ AfterRequest(t, dv)
    BY <1>6 DEF LeaveLine, LinePlaces
  <2> HIDE DEF dv
  <2> QED
    BY <1>4, <2>3, <2>4
<1> QED
  BY <1>2, <1>5, <1>6, ThreadKinds

(* The steps of the daemon that neither open nor close the device keep the *)
(* session, and close only runs into its timeout.                          *)
LEMMA SessionStays ==
  ASSUME Inv, DaemonStep, ~usrsockdev_open, ~CloseDown, ~CloseEnd, ~CloseLoop
  PROVE  /\ dev'.ocount = dev.ocount /\ dev'.leaked = dev.leaked
         /\ dmn'.sessions = dmn.sessions
         /\ \/ dmn'.pc = dmn.pc
            \/ {dmn.pc, dmn'.pc} \subseteq {"open", "event", "walk", "step"}
            \/ CloseTimeout /\ dmn.pc = "wait" /\ dmn'.pc = "late"
<1>1. dev \in DevRecords /\ dmn \in DmnRecords
  BY DEF Inv, TypeOK
<1>2. CASE PollSetup \/ PollTeardown
  BY <1>1, <1>2 DEF PollSetup, PollTeardown, DevRecords
<1>3. CASE usrsockdev_read
  BY <1>1, <1>3 DEF usrsockdev_read, DevRecords, DmnRecords
<1>4. CASE \/ usrsockdev_handle_event \/ DeliverEvent \/ CloseBegin \/ CloseAbort
           \/ CloseNext \/ CloseTimeout
  BY <1>1, <1>4 DEF usrsockdev_handle_event, DeliverEvent, CloseBegin, CloseAbort, CloseNext,
     CloseTimeout, DaemonRuns, DmnRecords
<1>5. CASE usrsockdev_write
  BY <1>1, <1>5 DEF usrsockdev_write, WriteData, InputDone, DmnRecords, DevRecords
<1>6. ASSUME NEW t \in Threads, usrsockdev_handle_req_response(t)
      PROVE  /\ dev'.ocount = dev.ocount /\ dev'.leaked = dev.leaked
             /\ dmn'.sessions = dmn.sessions /\ dmn'.pc = dmn.pc
  <2>1. PICK r \in dmn.pend : RespondInProgress(r) \/ RespondFinally(r)
    BY <1>6 DEF usrsockdev_handle_req_response
  <2>2. /\ Acknowledge(r.xid).ocount = dev.ocount /\ Acknowledge(r.xid).leaked = dev.leaked
        /\ \A c : LET q == [Acknowledge(r.xid) EXCEPT !.datain = c]
                  IN  q.ocount = dev.ocount /\ q.leaked = dev.leaked
    BY <1>1 DEF Acknowledge, DevRecords
  <2>3. CASE RespondInProgress(r)
    BY <1>1, <2>2, <2>3 DEF RespondInProgress, DmnRecords
  <2>4. CASE RespondFinally(r)
    <3>1. dev'.ocount = dev.ocount /\ dev'.leaked = dev.leaked
      BY <2>2, <2>4 DEF RespondFinally, usrsockdev_handle_response,
         usrsockdev_handle_datareq_response
    <3>2. \E result, owes : dmn' = DaemonAfter(r, result, owes)
      BY <2>4 DEF RespondFinally, usrsockdev_handle_response,
         usrsockdev_handle_datareq_response
    <3>3. dmn'.sessions = dmn.sessions /\ dmn'.pc = dmn.pc
      BY <1>1, <3>2 DEF DaemonAfter, DmnRecords
    <3> QED
      BY <3>1, <3>3
  <2> QED
    BY <2>1, <2>3, <2>4
<1> QED
  BY <1>2, <1>3, <1>4, <1>5, <1>6 DEF DaemonStep

(* The device is closed from the end of the walk to the next open, so an   *)
(* acknowledgment that usrsockdev_close leaves behind is met by a session  *)
(* after its own.                                                          *)
LeakInv ==
  /\ dmn.pc \in {"closed", "wait", "got", "late"} => dev.ocount = 0
  /\ dmn.pc # "closed" => dmn.sessions >= 1
  /\ dev.leaked => dmn.sessions >= 1
  /\ dev.leaked /\ dev.ocount = 1 => dmn.sessions >= 2

(* usrsockdev_close takes the device from its count first and wakes        *)
(* requests afterwards.                                                    *)
LEMMA NextLeakInv == Inv /\ LeakInv /\ [Next]_vars => LeakInv'
<1> SUFFICES ASSUME Inv, LeakInv, [Next]_vars PROVE LeakInv'
  OBVIOUS
<1>1. /\ dev \in DevRecords /\ dmn \in DmnRecords /\ dmn.sessions \in Nat
      /\ dev.ocount \in 0 .. 1 /\ dev.leaked \in BOOLEAN
  BY DEF Inv, TypeOK, DevRecords, DmnRecords
<1>2. ASSUME NEW t \in Threads, ThreadStep(t) PROVE LeakInv'
  BY <1>1, <1>2, ThreadLeavesDaemon, ThreadLeavesDevice DEF LeakInv
<1>3. CASE usrsockdev_open
  <2>1. /\ dev'.ocount = 1 /\ dev'.leaked = dev.leaked
        /\ dmn'.pc = "open" /\ dmn'.sessions = dmn.sessions + 1
    BY <1>1, <1>3 DEF usrsockdev_open, DevRecords, DmnRecords
  <2> QED
    BY <1>1, <2>1 DEF LeakInv
<1>4. CASE CloseDown
  <2>1. /\ dmn.pc = "walk" /\ dev'.ocount = dev.ocount - 1 /\ dev'.leaked = dev.leaked
        /\ dmn'.pc \in {"got", "wait"} /\ dmn'.sessions = dmn.sessions
    BY <1>1, <1>4 DEF CloseDown, DevRecords, DmnRecords
  <2>2. dev.ocount = 1
    BY <2>1 DEF Inv, PlaceInv
  <2> QED
    BY <1>1, <2>1, <2>2 DEF LeakInv
<1>5. CASE CloseEnd
  <2>1. /\ dmn.pc \in {"got", "late"} /\ dev'.ocount = dev.ocount /\ dev'.leaked = dev.leaked
        /\ dmn'.pc = "closed" /\ dmn'.sessions = dmn.sessions
    BY <1>1, <1>5 DEF CloseEnd, usrsockdev_semgive, DevRecords, DmnRecords
  <2> QED
    BY <1>1, <2>1 DEF LeakInv
<1>6. CASE CloseLoop
  <2>1. /\ dmn.pc \in {"got", "late"} /\ dev'.ocount = dev.ocount
        /\ dmn'.pc \in {"got", "wait"} /\ dmn'.sessions = dmn.sessions
    BY <1>1, <1>6 DEF CloseLoop, WakesRequests, DevRecords, DmnRecords
  <2> QED
    BY <1>1, <2>1 DEF LeakInv
<1>7. CASE DaemonStep /\ ~usrsockdev_open /\ ~CloseDown /\ ~CloseEnd /\ ~CloseLoop
  <2>1. /\ dev'.ocount = dev.ocount /\ dev'.leaked = dev.leaked
        /\ dmn'.sessions = dmn.sessions
        /\ \/ dmn'.pc = dmn.pc
           \/ {dmn.pc, dmn'.pc} \subseteq {"open", "event", "walk", "step"}
           \/ dmn.pc = "wait" /\ dmn'.pc = "late"
    BY <1>7, SessionStays
  <2> QED
    BY <1>1, <2>1 DEF LeakInv
<1>8. CASE UNCHANGED vars
  BY <1>8 DEF vars, LeakInv
<1> QED
  BY <1>2, <1>3, <1>4, <1>5, <1>6, <1>7, <1>8 DEF Next

(* DEBUGASSERT(dev->req.iov == NULL) of usrsockdev_do_request holds in the *)
(* first session of a daemon, and in every later one as long as no         *)
(* usrsockdev_close has posted req.acksem with nobody to take the post:    *)
(* what FindLineFree shows is the only way to violate it.                  *)
THEOREM LineFreeCorrect ==
  Spec => []((dmn.sessions <= 1 \/ ~dev.leaked) => LineFreeAssert)
<1>1. Init => LeakInv
  BY DEF Init, usrsockdev_register, LeakInv
<1>2. Inv /\ LeakInv /\ LineOwner => ((dmn.sessions <= 1 \/ ~dev.leaked) => LineFreeAssert)
  <2> SUFFICES ASSUME Inv, LeakInv, LineOwner, dmn.sessions <= 1 \/ ~dev.leaked,
                      usrsockdev_is_opened, NEW t \in Threads, thr[t].pc = "linegot",
                      dev.iov # NoThread
               PROVE  FALSE
    BY DEF LineFreeAssert
  <2>1. dev.ocount = 1 /\ dmn.sessions \in Nat /\ dev.iov \in Threads
    BY DEF Inv, TypeOK, DevRecords, DmnRecords, usrsockdev_is_opened
  <2>2. ~dev.leaked
    BY <2>1 DEF LeakInv
  <2>3. thr[dev.iov].pc = "ackwait"
    BY <2>2 DEF LineOwner
  <2> QED
    BY <2>1, <2>3 DEF Inv, LineInv, Holds
<1> QED
  BY <1>1, <1>2, NextLeakInv, SpecInv, OwnerCorrect, PTL DEF Spec

-----------------------------------------------------------------------------
(* What the next write is                                                  *)

(* Nothing was announced before the first session, and in it device and    *)
(* daemon announce and write together.                                     *)
WriteInv ==
  /\ dmn.sessions = 0 => dev.datain = NoConn /\ ~dmn.owes
  /\ dmn.sessions <= 1 => WriteInStep

(* Every answer and every write of data keeps device and daemon in step.   *)
LEMMA NextWriteInv == Inv /\ LeakInv /\ WriteInv /\ [Next]_vars => WriteInv'
<1> SUFFICES ASSUME Inv, LeakInv, WriteInv, [Next]_vars PROVE WriteInv'
  OBVIOUS
<1>1. /\ dev \in DevRecords /\ dmn \in DmnRecords /\ dmn.sessions \in Nat
      /\ dmn.owes \in BOOLEAN
  BY DEF Inv, TypeOK, DmnRecords
<1>2. ASSUME NEW t \in Threads, ThreadStep(t) PROVE WriteInv'
  BY <1>2, ThreadLeavesDaemon, ThreadLeavesDevice DEF WriteInv, WriteInStep, LeakInv
<1>3. CASE usrsockdev_open
  <2>1. /\ dev'.datain = dev.datain /\ dmn'.owes = dmn.owes
        /\ dmn'.sessions = dmn.sessions + 1
    BY <1>1, <1>3 DEF usrsockdev_open, DevRecords, DmnRecords
  <2> QED
    BY <1>1, <2>1 DEF WriteInv, WriteInStep
<1>4. CASE CloseDown \/ CloseEnd \/ CloseLoop \/ CloseTimeout \/ CloseBegin
           \/ CloseAbort \/ CloseNext
  <2>1. dmn'.pc \notin {"open", "event"} /\ dmn.pc # "closed" /\ dmn'.sessions = dmn.sessions
    BY <1>1, <1>4 DEF CloseDown, CloseEnd, CloseLoop, CloseTimeout, CloseBegin, CloseAbort,
       CloseNext, DaemonRuns, usrsockdev_semgive, DmnRecords
  <2> QED
    BY <1>1, <2>1 DEF WriteInv, WriteInStep, LeakInv
<1>5. CASE PollSetup \/ PollTeardown \/ usrsockdev_read \/ usrsockdev_handle_event
           \/ DeliverEvent
  <2>1. /\ dev'.datain = dev.datain /\ dmn'.owes = dmn.owes /\ dmn'.sessions = dmn.sessions
        /\ dmn'.pc = dmn.pc \/ dmn.pc \in {"open", "event"}
    BY <1>1, <1>5 DEF PollSetup, PollTeardown, usrsockdev_read, usrsockdev_handle_event,
       DeliverEvent, DaemonRuns, DevRecords, DmnRecords
  <2> QED
    BY <2>1 DEF WriteInv, WriteInStep
<1>6. CASE usrsockdev_write
  <2>1. /\ dmn.pc = "open" /\ dev'.datain = NoConn /\ dmn'.sessions = dmn.sessions
        /\ ~dmn'.owes
    BY <1>1, <1>6 DEF usrsockdev_write, WriteData, InputDone, DaemonRuns, DevRecords, DmnRecords
  <2> QED
    BY <1>1, <2>1 DEF WriteInv, WriteInStep
<1>7. ASSUME NEW t \in Threads, usrsockdev_handle_req_response(t) PROVE WriteInv'
  <2>1. PICK r \in dmn.pend : RespondInProgress(r) \/ RespondFinally(r)
    BY <1>7 DEF usrsockdev_handle_req_response
  <2>2. dmn.pc = "open" /\ dev.datain = NoConn /\ dmn.sessions # 0
    BY <1>1, <1>7 DEF usrsockdev_handle_req_response, DaemonRuns, LeakInv
  <2>3. /\ Acknowledge(r.xid).datain = dev.datain
        /\ \A c : [Acknowledge(r.xid) EXCEPT !.datain = c].datain = c
    BY <1>1 DEF Acknowledge, DevRecords
  <2>4. CASE RespondInProgress(r)
    <3>1. /\ dev'.datain = dev.datain /\ dmn'.owes = dmn.owes
          /\ dmn'.sessions = dmn.sessions
      BY <1>1, <2>3, <2>4 DEF RespondInProgress, DmnRecords
    <3> QED
      BY <2>2, <3>1 DEF WriteInv, WriteInStep
  <2>5. CASE RespondFinally(r)
    <3>1. ASSUME NEW result
          PROVE  /\ ~DaemonAfter(r, result, FALSE).owes /\ DaemonAfter(r, result, TRUE).owes
                 /\ DaemonAfter(r, result, FALSE).sessions = dmn.sessions
                 /\ DaemonAfter(r, result, TRUE).sessions = dmn.sessions
      BY <1>1 DEF DaemonAfter, DmnRecords
    <3>2. WaitingConn(r.xid) # NoConn =>
            \/ dev'.datain = NoConn /\ \E result : dmn' = DaemonAfter(r, result, FALSE)
            \/ dev'.datain # NoConn /\ \E result : dmn' = DaemonAfter(r, result, TRUE)
      BY <2>2, <2>3, <2>5 DEF RespondFinally, usrsockdev_handle_response,
         usrsockdev_handle_datareq_response
    <3>3. WaitingConn(r.xid) = NoConn =>
            dev'.datain = NoConn /\ \E result : dmn' = DaemonAfter(r, result, FALSE)
      BY <2>2, <2>5 DEF RespondFinally
    <3>4. \/ dev'.datain = NoConn /\ \E result : dmn' = DaemonAfter(r, result, FALSE)
          \/ dev'.datain # NoConn /\ \E result : dmn' = DaemonAfter(r, result, TRUE)
      BY <3>2, <3>3
    <3>5. CASE dev'.datain = NoConn /\ \E result : dmn' = DaemonAfter(r, result, FALSE)
      <4>1. ~dmn'.owes /\ dmn'.sessions = dmn.sessions
        BY <3>1, <3>5
      <4> QED
        BY <2>2, <3>5, <4>1 DEF WriteInv, WriteInStep
    <3>6. CASE dev'.datain # NoConn /\ \E result : dmn' = DaemonAfter(r, result, TRUE)
      <4>1. dmn'.owes /\ dmn'.sessions = dmn.sessions
        BY <3>1, <3>6
      <4> QED
        BY <2>2, <3>6, <4>1 DEF WriteInv, WriteInStep
    <3> QED
      BY <3>4, <3>5, <3>6
  <2> QED
    BY <2>1, <2>4, <2>5
<1>8. CASE UNCHANGED vars
  BY <1>8 DEF vars, WriteInv, WriteInStep
<1> QED
  BY <1>2, <1>3, <1>4, <1>5, <1>6, <1>7, <1>8 DEF Next, DaemonStep

(* In the first session of a daemon, usrsockdev_write takes what the       *)
(* daemon writes for what the daemon means it to be: the start of a        *)
(* message, or the data of the data response before it. Threads may share  *)
(* sockets and data responses may not fit.                                 *)
THEOREM WriteCorrect == Spec => [](dmn.sessions <= 1 => WriteInStep)
<1>1. Init => LeakInv /\ WriteInv
  BY DEF Init, usrsockdev_register, LeakInv, WriteInv, WriteInStep
<1>2. WriteInv => (dmn.sessions <= 1 => WriteInStep)
  BY DEF WriteInv
<1> QED
  BY <1>1, <1>2, NextLeakInv, NextWriteInv, SpecInv, PTL DEF Spec

=============================================================================
