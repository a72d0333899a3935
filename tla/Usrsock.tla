------------------------------ MODULE Usrsock ------------------------------
(***************************************************************************)
(* The kernel side of user-space sockets (nuttx/net/usrsock): application  *)
(* threads call the socket API, every call becomes a request on the one    *)
(* request line of the character device /dev/usrsock, and a daemon reads   *)
(* the requests there and writes responses, data and socket events back.   *)
(*                                                                         *)
(* net_lock() is a mutex that a waiting thread gives up (net_lockedwait,   *)
(* net_timedwait), so one action is one stretch of code between two        *)
(* releases of it. A thread that is given the semaphore it waits for still *)
(* has to get net_lock back, and others may get it first. What the code    *)
(* does without net_lock is a step of its own: usrsock_alloc,              *)
(* usrsock_free from close(), and the daemon's walks over the connection   *)
(* list in usrsockdev_close and usrsock_active.                            *)
(***************************************************************************)
EXTENDS UsrsockConn

CONSTANTS
  Ops,               \* the API calls the application uses
  Shared,            \* TRUE: threads use each other's sockets
  NonBlock,          \* values of the sockets' O_NONBLOCK flag
  StreamTypes,       \* TRUE in it: SOCK_STREAM sockets, FALSE: SOCK_DGRAM
  Timeouts,          \* TRUE: SO_RCVTIMEO / SO_SNDTIMEO and poll timeouts are set
  Signals,           \* TRUE: waits may be interrupted by a signal
  NCallbacks,        \* CONFIG_NET_NACTIVESOCKETS, the pool of callbacks
  MaxRefs,           \* bound on dup() of a socket (crefs)
  EventMsgs,         \* the event sets the daemon sends
  Results,           \* the results the daemon answers requests with
  InProgress,        \* the requests the daemon may answer in two steps
  FreshIds,          \* TRUE: the daemon never uses a socket number twice
  FaultyDaemon,      \* TRUE: data responses may not fit the buffers
  DaemonPolls,       \* TRUE: the daemon waits for requests in poll()
  PollMasks,         \* the events applications poll for
  MaxSessions,       \* bound on the times a daemon opens the device
  DaemonCloses,      \* TRUE: the daemon may close the device (or die)
  WalkUninterrupted, \* TRUE: no thread runs while usrsockdev_close walks the list
  TimelyWakeup,      \* TRUE: a woken thread runs within usrsockdev_close's 10 ms
  MaxAck             \* bound on the value of the acknowledgment semaphore

ASSUME UsrsockAssumption ==
  /\ Ops \subseteq ApiCalls
  /\ {Shared, Timeouts, Signals, FreshIds, FaultyDaemon, DaemonCloses,
      DaemonPolls, WalkUninterrupted, TimelyWakeup} \subseteq BOOLEAN
  /\ NonBlock \subseteq BOOLEAN
  /\ StreamTypes \subseteq BOOLEAN
  /\ NCallbacks \in Nat
  /\ MaxRefs \in 1 .. 255
  /\ EventMsgs \subseteq SUBSET ExternalEvents
  /\ Results \subseteq Int
  /\ InProgress \subseteq Requests
  /\ PollMasks \subseteq SUBSET {"IN", "OUT"}
  /\ MaxSessions \in Nat
  /\ MaxAck \in Nat

VARIABLES
  conn,    \* g_usrsock_connections
  active,  \* g_active_usrsock_connections
  free,    \* g_free_usrsock_connections
  thr,     \* what each application thread is doing
  dev,     \* g_usrsockdev
  dmn,     \* the daemon
  ret,     \* the value the last step returned to the application
  strayed, \* history: the last walk of usrsockdev_close lost its place
  raced    \* history: it did, or a call began a request during the walk

codeVars == <<conn, active, free, thr, dev, dmn, ret>>
vars     == <<conn, active, free, thr, dev, dmn, ret, strayed, raced>>
lists    == <<active, free>>

(* struct usrsockdev_s: req.iov is the thread whose request buffers are on *)
(* the line, rd that the daemon has read them to the end; poll is the      *)
(* daemon's slot of pollfds ("none" or its revents state). leaked is       *)
(* history: the acknowledgment semaphore was posted with nobody to take it.*)
DevRecords ==
  [ocount  : 0 .. 1,
   iov     : Threads \cup {NoThread},
   rd      : BOOLEAN,
   sem     : Nat,
   acksem  : Nat,
   ackxid  : {0} \cup Conns,
   nbusy   : Nat,
   datain  : {NoConn} \cup Conns,
   poll    : {"none", "armed", "posted"},
   leaked  : BOOLEAN]

(* The daemon: where it is in a system call on the device, the event       *)
(* message it is writing and the socket it is about, the requests it has   *)
(* read and not answered (ip: answered "in progress"), the sockets it has  *)
(* open and the numbers it has used up, whether it still has to write the  *)
(* data of a data response.                                                *)
PendingRequests ==
  [th : Threads, op : Requests, xid : Conns, usockid : Int, ip : BOOLEAN]

DmnRecords ==
  [pc       : {"closed", "open", "event", "walk", "step", "wait", "got", "late"},
   conn     : {NoConn} \cup Conns,
   ev       : SUBSET ExternalEvents,
   about    : UsockIds \cup {-1},
   pend     : SUBSET PendingRequests,
   socks    : SUBSET UsockIds,
   used     : SUBSET UsockIds,
   owes     : BOOLEAN,
   sessions : Nat]

Returns == [th : Threads \cup {NoThread}, op : ApiCalls \cup {"none"},
            conn : {NoConn} \cup Conns, val : Int]
NoReturn == [th |-> NoThread, op |-> "none", conn |-> NoConn, val |-> 0]

(* Every variable of the program holds a value of the type its C           *)
(* declaration stands for.                                                 *)
TypeOK ==
  /\ conn \in [Conns -> ConnRecords]
  /\ active \in Seq(Conns)
  /\ free \in Seq(Conns)
  /\ thr \in [Threads -> ThreadRecords]
  /\ dev \in DevRecords
  /\ dmn \in DmnRecords
  /\ ret \in Returns

-----------------------------------------------------------------------------
(* usrsock_initialize and usrsockdev_register.                             *)

usrsock_initialize ==
  /\ conn = [c \in Conns |-> ClearedConn]
  /\ active = << >>
  /\ free = [i \in Conns |-> i]

usrsockdev_register ==
  dev = [ocount |-> 0, iov |-> NoThread, rd |-> FALSE, sem |-> 1,
         acksem |-> 0, ackxid |-> 0, nbusy |-> 0, datain |-> NoConn,
         poll |-> "none", leaked |-> FALSE]

Init ==
  /\ usrsock_initialize
  /\ usrsockdev_register
  /\ thr = [t \in Threads |-> IdleThread]
  /\ dmn = [pc |-> "closed", conn |-> NoConn, ev |-> {}, about |-> -1,
            pend |-> {}, socks |-> {}, used |-> {}, owes |-> FALSE, sessions |-> 0]
  /\ ret = NoReturn
  /\ strayed = FALSE /\ raced = FALSE

-----------------------------------------------------------------------------
(* Raising an event on a connection: usrsock_event with the callbacks it   *)
(* runs. cr is the connection record the event finds.                      *)

usrsock_event(c, cr, ev) ==
  LET upd == StateUpdate(cr, ev)
      cbs == EventsToCallbacks(cr, ev)
  IN  /\ conn' = [conn EXCEPT ![c] = HandlerEffects(upd, thr, cbs)]
      /\ thr'  = devif_callback_execute(upd, thr, cbs)

-----------------------------------------------------------------------------
(* Leaving and entering a call. cm is conn as the code so far has left it. *)

Finish(t, op, c, val, cm) ==
  /\ conn' = cm
  /\ thr'  = [thr EXCEPT ![t] = IdleThread]
  /\ ret'  = [th |-> t, op |-> op, conn |-> c, val |-> val]

Released(c, t) == [conn EXCEPT ![c] = TeardownCallback(@, t)]

(* setup_conn_getsockopt and its copies with a null buffer.                *)
WithoutData(c, op, cm) ==
  IF op \in DataRequests THEN [cm EXCEPT ![c].datain = NoThread] ELSE cm

(* The pool of devif callbacks is empty.                                   *)
PoolEmpty(cm) ==
  Cardinality({t \in Threads : \E c \in Conns : Contains(cm[c].list, t)})
    >= NCallbacks

usrsockdev_is_opened == dev.ocount # 0

(* The exchange id of a connection's requests: its index, from 1.          *)
OneXid(c) == 1   \* faulty variant: all requests have one exchange id

usrsockdev_get_xid(c) == c

NoLineWait == "linegot"   \* faulty variant: nobody waits for the line

(* net_lockedwait(&dev->req.sem): the semaphore is had at once when the    *)
(* line is free.                                                           *)
LineWait == IF dev.sem > 0 THEN "linegot" ELSE "reqwait"

(* usrsock_setup_request_callback for the completion of a request, the     *)
(* input buffers of a data request, and usrsockdev_do_request up to its    *)
(* first wait, for the semaphore of the request line.                      *)
usrsockdev_do_request(t, op, c, nonblock, cm) ==
  /\ LET cr == SetupCallback(cm[c], t)
     IN  conn' = [cm EXCEPT ![c] =
                    [cr EXCEPT !.xid    = usrsockdev_get_xid(c),
                               !.result = EACCES,
                               !.datain = IF op \in DataRequests THEN t ELSE @]]
  /\ thr'  = [thr EXCEPT ![t] =
                [Armed(op, c, nonblock, {"ABORT", "REQ_COMPLETE"})
                   EXCEPT !.pc = LineWait]]
  /\ dev'  = [dev EXCEPT !.nbusy = @ + 1, !.sem = IF @ > 0 THEN @ - 1 ELSE @]
  /\ ret'  = NoReturn

(* A call that may fail before it reaches the request line: no callback in *)
(* the pool, or no daemon.                                                 *)
StartRequest(t, op, c, nonblock, cm, marked) ==
  \/ /\ PoolEmpty(cm)
     /\ Finish(t, op, c, EBUSY, cm)
     /\ UNCHANGED dev
  \/ /\ ~PoolEmpty(cm)
     /\ ~usrsockdev_is_opened
     /\ Finish(t, op, c, ENETDOWN, WithoutData(c, op, marked))
     /\ UNCHANGED dev
  \/ /\ ~PoolEmpty(cm)
     /\ usrsockdev_is_opened
     /\ usrsockdev_do_request(t, op, c, nonblock, marked)

(* Application discipline: a thread calls the API on a socket it may use,  *)
(* and nobody uses a socket that is being closed.                          *)
MayUse(t, c) ==
  /\ thr[t].pc = "idle"
  /\ conn[c].crefs > 0
  /\ Shared \/ conn[c].owner = t
  /\ \A u \in Threads : thr[u].conn = c => thr[u].op # "close"

Unusable(c) == conn[c].state \in {"UNINITIALIZED", "ABORTED"}

-----------------------------------------------------------------------------
(* socket()                                                                *)

usrsock_alloc(t, c) ==
  /\ c = Head(free)
  /\ free'   = Tail(free)
  /\ active' = Append(active, c)
  /\ conn'   = [conn EXCEPT ![c] = ClearedConn]

(* Faulty variant: the connection stays in the active list.                *)
FreeStillActive(c, cm) ==
  /\ free' = Append(free, c)
  /\ conn' = [cm EXCEPT ![c] = ClearedConn]
  /\ UNCHANGED active

usrsock_free(c, cm) ==
  /\ active' = RemoveFirst(active, c)
  /\ free'   = Append(free, c)
  /\ conn'   = [cm EXCEPT ![c] = ClearedConn]

SocketCall(t) ==
  /\ "socket" \in Ops
  /\ thr[t].pc = "idle"
  /\ \/ /\ free = << >>
        /\ Finish(t, "socket", NoConn, ENOMEM, conn)
        /\ UNCHANGED lists
     \/ \E c \in Conns :
          /\ free # << >>
          /\ usrsock_alloc(t, c)
          /\ thr' = [thr EXCEPT ![t] = [IdleThread EXCEPT !.pc = "alloced",
                                           !.op = "socket", !.conn = c]]
          /\ ret' = NoReturn
  /\ UNCHANGED <<dev, dmn>>

FailSocket(t, c, err, cm) ==
  /\ usrsock_free(c, cm)
  /\ thr' = [thr EXCEPT ![t] = IdleThread]
  /\ ret' = [th |-> t, op |-> "socket", conn |-> NoConn, val |-> err]

(* usrsock_socket after usrsock_alloc: the request, or the error paths     *)
(* that free the connection (an argument that does not fit the request     *)
(* gives EINVAL).                                                          *)
usrsock_socket(t) ==
  LET c == thr[t].conn
  IN  /\ thr[t].pc = "alloced"
      /\ \/ /\ PoolEmpty(conn)
            /\ FailSocket(t, c, EBUSY, conn)
            /\ UNCHANGED dev
         \/ /\ ~PoolEmpty(conn)
            /\ FailSocket(t, c, EINVAL, conn)
            /\ UNCHANGED dev
         \/ /\ ~PoolEmpty(conn)
            /\ ~usrsockdev_is_opened
            /\ FailSocket(t, c, ENETDOWN, conn)
            /\ UNCHANGED dev
         \/ /\ ~PoolEmpty(conn)
            /\ usrsockdev_is_opened
            /\ usrsockdev_do_request(t, "socket", c, FALSE, conn)
            /\ UNCHANGED lists
      /\ UNCHANGED dmn

SocketDone(t, c) ==
  /\ thr[t].op = "socket"
  /\ \/ /\ thr[t].result < 0
        /\ FailSocket(t, c, thr[t].result, Released(c, t))
     \/ /\ thr[t].result >= 0
        /\ \E stream \in StreamTypes :
             Finish(t, "socket", c, 0,
                    [conn EXCEPT ![c] = [TeardownCallback(@, t) EXCEPT
                       !.stream = stream, !.crefs = 1, !.owner = t]])
        /\ UNCHANGED lists

-----------------------------------------------------------------------------
(* close() and dup()                                                       *)

(* usrsock_close's close_out and the way back into psock_close.            *)
CloseOut(t, c, cm) ==
  /\ conn' = [cm EXCEPT ![c].state = "UNINITIALIZED", ![c].usockid = -1]
  /\ thr'  = [thr EXCEPT ![t] = [IdleThread EXCEPT !.pc = "freeing",
                                    !.op = "close", !.conn = c]]
  /\ ret'  = NoReturn

(* psock_close with usrsock_close. Nobody else is in a call on the socket. *)
usrsock_close(t, c) ==
  /\ "close" \in Ops
  /\ MayUse(t, c)
  /\ \A u \in Threads \ {t} : thr[u].conn # c
  /\ \/ /\ conn[c].crefs > 1
        /\ Finish(t, "close", c, 0, [conn EXCEPT ![c].crefs = @ - 1])
        /\ UNCHANGED dev
     \/ /\ conn[c].crefs <= 1
        /\ Unusable(c)
        /\ CloseOut(t, c, conn)
        /\ UNCHANGED dev
     \/ /\ conn[c].crefs <= 1
        /\ ~Unusable(c)
        /\ \/ /\ PoolEmpty(conn)
              /\ Finish(t, "close", c, EBUSY, conn)
              /\ UNCHANGED dev
           \/ /\ ~PoolEmpty(conn)
              /\ ~usrsockdev_is_opened
              /\ CloseOut(t, c, conn)
              /\ UNCHANGED dev
           \/ /\ ~PoolEmpty(conn)
              /\ usrsockdev_is_opened
              /\ usrsockdev_do_request(t, "close", c, FALSE, conn)
  /\ UNCHANGED <<lists, dmn>>

CloseDone(t, c) ==
  /\ thr[t].op = "close"
  /\ CloseOut(t, c, Released(c, t))
  /\ UNCHANGED lists

(* psock_close: crefs = 0 and usrsock_free, after net_lock was released.   *)
psock_close(t) ==
  LET c == thr[t].conn
  IN  /\ thr[t].pc = "freeing"
      /\ usrsock_free(c, conn)
      /\ thr' = [thr EXCEPT ![t] = IdleThread]
      /\ ret' = [th |-> t, op |-> "close", conn |-> NoConn, val |-> 0]
      /\ UNCHANGED <<dev, dmn>>

net_clone(t, c) ==
  /\ MayUse(t, c)
  /\ conn[c].crefs < MaxRefs
  /\ conn' = [conn EXCEPT ![c].crefs = @ + 1]
  /\ ret'  = NoReturn
  /\ UNCHANGED <<lists, thr, dev, dmn>>

-----------------------------------------------------------------------------
(* bind(), setsockopt(), getsockopt(), getsockname(): one request each.    *)

SimpleRequest(t, op, c) ==
  /\ op \in Ops
  /\ MayUse(t, c)
  /\ \/ /\ Unusable(c)
        /\ Finish(t, op, c, IF conn[c].state = "ABORTED" THEN EPIPE ELSE ECONNRESET,
                  conn)
        /\ UNCHANGED dev
     \/ /\ ~Unusable(c)
        /\ StartRequest(t, op, c, FALSE, conn, conn)
  /\ UNCHANGED <<lists, dmn>>

(* A level or option that does not fit the request's 16 bits.              *)
BadOption(t, op, c) ==
  /\ op \in Ops
  /\ MayUse(t, c)
  /\ ~Unusable(c)
  /\ ~PoolEmpty(conn)
  /\ Finish(t, op, c, EINVAL, WithoutData(c, op, conn))
  /\ UNCHANGED <<lists, dev, dmn>>

usrsock_bind(t, c)        == SimpleRequest(t, "bind", c)
usrsock_setsockopt(t, c)  == SimpleRequest(t, "setsockopt", c) \/ BadOption(t, "setsockopt", c)
usrsock_getsockopt(t, c)  == SimpleRequest(t, "getsockopt", c) \/ BadOption(t, "getsockopt", c)
usrsock_getsockname(t, c) == SimpleRequest(t, "getsockname", c)

SimpleDone(t, c) ==
  /\ thr[t].op \in {"bind", "setsockopt", "getsockopt", "getsockname"}
  /\ Finish(t, thr[t].op, c, thr[t].result, WithoutData(c, thr[t].op, Released(c, t)))
  /\ UNCHANGED lists

-----------------------------------------------------------------------------
(* connect()                                                               *)

usrsock_connect(t, c) ==
  /\ "connect" \in Ops
  /\ MayUse(t, c)
  /\ \/ /\ Unusable(c)
        /\ Finish(t, "connect", c,
                  IF conn[c].state = "ABORTED" THEN EPIPE ELSE ECONNREFUSED, conn)
        /\ UNCHANGED dev
     \/ /\ ~Unusable(c)
        /\ conn[c].connected /\ conn[c].stream
        /\ Finish(t, "connect", c, EISCONN, conn)
        /\ UNCHANGED dev
     \/ /\ ~(conn[c].connected /\ conn[c].stream)
        /\ conn[c].state = "CONNECTING"
        /\ Finish(t, "connect", c, EALREADY, conn)
        /\ UNCHANGED dev
     \/ /\ ~(conn[c].connected /\ conn[c].stream)
        /\ conn[c].state = "READY"
        /\ \E nonblock \in NonBlock :
             StartRequest(t, "connect", c, nonblock, conn,
                          [conn EXCEPT ![c].state = "CONNECTING"])
  /\ UNCHANGED <<lists, dmn>>

ConnectDone(t, c) ==
  /\ thr[t].op = "connect"
  /\ Finish(t, "connect", c, thr[t].result, Released(c, t))
  /\ UNCHANGED lists

(* connect() interrupted by a signal leaves its request pending.           *)
ConnectInterrupted(t) ==
  /\ thr[t].pc = "respwait"
  /\ thr[t].op = "connect"
  /\ thr[t].wake = "signal"
  /\ Finish(t, "connect", thr[t].conn, EINTR, Released(thr[t].conn, t))
  /\ UNCHANGED <<lists, dev, dmn>>

-----------------------------------------------------------------------------
(* sendto() and recvfrom()                                                 *)

ReadyEvent(op) == IF op = "sendto" THEN "SENDTO_READY" ELSE "RECVFROM_AVAIL"

(* recvfrom() reports a closed remote end as end of file.                  *)
RemoteClosedResult(op) == IF op = "sendto" THEN EPIPE ELSE 0

(* usrsock_setup_request_callback for readiness, then net_timedwait.       *)
WaitReady(t, op, c, nonblock, cm) ==
  /\ conn' = [cm EXCEPT ![c] = SetupCallback(@, t)]
  /\ thr'  = [thr EXCEPT ![t] =
                [Armed(op, c, nonblock, {"ABORT", "REMOTE_CLOSED", ReadyEvent(op)})
                   EXCEPT !.pc = "rdywait"]]
  /\ ret'  = NoReturn
  /\ UNCHANGED dev

(* One turn of the do-while loop, from its top to its first wait.          *)
IoLoop(t, op, c, nonblock, cm) ==
  LET flags == cm[c].flags
  IN  \/ /\ "REMOTE_CLOSED" \in flags
         /\ Finish(t, op, c, RemoteClosedResult(op), cm)
         /\ UNCHANGED dev
      \/ /\ "REMOTE_CLOSED" \notin flags
         /\ ReadyEvent(op) \notin flags
         /\ \/ /\ nonblock
               /\ Finish(t, op, c, EAGAIN, cm)
               /\ UNCHANGED dev
            \/ /\ ~nonblock /\ PoolEmpty(cm)
               /\ Finish(t, op, c, EBUSY, cm)
               /\ UNCHANGED dev
            \/ /\ ~nonblock /\ ~PoolEmpty(cm)
               /\ WaitReady(t, op, c, nonblock, cm)
      \/ /\ "REMOTE_CLOSED" \notin flags
         /\ ReadyEvent(op) \in flags
         /\ StartRequest(t, op, c, nonblock, cm, cm)

IoCall(t, op, c) ==
  LET cr == conn[c]
  IN  /\ op \in Ops
      /\ MayUse(t, c)
      /\ \/ /\ Unusable(c)
            /\ Finish(t, op, c, IF cr.state = "ABORTED" THEN EPIPE ELSE ECONNRESET, conn)
            /\ UNCHANGED dev
         \/ /\ ~Unusable(c)
            /\ cr.state = "CONNECTING"
            /\ Finish(t, op, c, EAGAIN, conn)
            /\ UNCHANGED dev
         \/ /\ cr.state = "READY"
            /\ cr.stream /\ ~cr.connected
            /\ Finish(t, op, c, ENOTCONN, conn)
            /\ UNCHANGED dev
         \/ /\ cr.state = "READY"
            /\ cr.stream => cr.connected
            /\ \E nonblock \in NonBlock : IoLoop(t, op, c, nonblock, conn)
      /\ UNCHANGED <<lists, dmn>>

(* A destination address given for a connected stream socket.              *)
SendtoWithAddress(t, c) ==
  /\ "sendto" \in Ops
  /\ MayUse(t, c)
  /\ ~Unusable(c)
  /\ conn[c].stream /\ conn[c].connected
  /\ Finish(t, "sendto", c, EISCONN, conn)
  /\ UNCHANGED <<lists, dev, dmn>>

(* A length for the sender's address and no buffer for it.                 *)
RecvfromBadBuffer(t, c) ==
  /\ "recvfrom" \in Ops
  /\ MayUse(t, c)
  /\ Finish(t, "recvfrom", c, EINVAL, conn)
  /\ UNCHANGED <<lists, dev, dmn>>

usrsock_sendto(t, c)   == IoCall(t, "sendto", c) \/ SendtoWithAddress(t, c)
usrsock_recvfrom(t, c) == IoCall(t, "recvfrom", c) \/ RecvfromBadBuffer(t, c)

(* The wait for readiness is over.                                         *)
IoReady(t) ==
  LET c  == thr[t].conn
      op == thr[t].op
      cm == Released(c, t)
  IN  /\ thr[t].pc = "rdywait"
      /\ \/ /\ thr[t].wake # "no"
            /\ Finish(t, op, c, IF thr[t].wake = "timeout" THEN EAGAIN ELSE EINTR, cm)
            /\ UNCHANGED dev
         \/ /\ thr[t].wake = "no"
            /\ thr[t].recvsem > 0
            /\ \/ /\ cm[c].state = "ABORTED"
                  /\ Finish(t, op, c, EPIPE, cm)
                  /\ UNCHANGED dev
               \/ /\ cm[c].state # "ABORTED"
                  /\ "REMOTE_CLOSED" \in cm[c].flags
                  /\ Finish(t, op, c, RemoteClosedResult(op), cm)
                  /\ UNCHANGED dev
               \/ /\ cm[c].state # "ABORTED"
                  /\ "REMOTE_CLOSED" \notin cm[c].flags
                  /\ StartRequest(t, op, c, thr[t].nonblock, cm, cm)
      /\ UNCHANGED <<lists, dmn>>

(* The request is answered: EAGAIN goes round the loop again.              *)
IoDone(t, c) ==
  LET op == thr[t].op
      cm == WithoutData(c, op, Released(c, t))
  IN  /\ op \in IoCalls
      /\ \/ /\ thr[t].result # EAGAIN
            /\ Finish(t, op, c, thr[t].result, cm)
            /\ UNCHANGED dev
         \/ /\ thr[t].result = EAGAIN
            /\ IoLoop(t, op, c, thr[t].nonblock, cm)
      /\ UNCHANGED lists

-----------------------------------------------------------------------------
(* poll()                                                                  *)

(* The events usrsock_pollsetup finds already in effect.                   *)
PollState(cr, wanted) ==
  LET found ==
        IF cr.state \in {"UNINITIALIZED", "ABORTED"} THEN {"ERR", "HUP"}
        ELSE IF cr.stream /\ ~(cr.connected \/ cr.state = "CONNECTING")
        THEN {"OUT", "IN", "HUP"}
        ELSE IF "REMOTE_CLOSED" \in cr.flags THEN {"HUP", "IN"}
        ELSE (IF "SENDTO_READY" \in cr.flags THEN {"OUT"} ELSE {}) \cup
             (IF "RECVFROM_AVAIL" \in cr.flags THEN {"IN"} ELSE {})
  IN  FilterPoll(found, wanted)

usrsock_pollsetup(t, c, wanted) ==
  /\ "poll" \in Ops
  /\ MayUse(t, c)
  /\ \/ /\ PoolEmpty(conn)
        /\ Finish(t, "poll", c, EBUSY, conn)
     \/ /\ ~PoolEmpty(conn)
        /\ conn' = [conn EXCEPT ![c] = SetupCallback(@, t)]
        /\ thr'  = [thr EXCEPT ![t] =
                      [Armed("poll", c, FALSE, ExternalEvents \cup {"CONNECT_RESP"})
                         EXCEPT !.pc = "pollwait", !.events = wanted,
                                !.revents = PollState(conn[c], wanted)]]
        /\ ret' = NoReturn
  /\ UNCHANGED <<lists, dev, dmn>>

usrsock_pollteardown(t) ==
  /\ thr[t].pc = "pollwait"
  /\ thr[t].revents # {} \/ Timeouts
  /\ Finish(t, "poll", thr[t].conn, IF thr[t].revents = {} THEN 0 ELSE 1,
            Released(thr[t].conn, t))
  /\ UNCHANGED <<lists, dev, dmn>>

-----------------------------------------------------------------------------
(* The request line                                                        *)

(* sem_post on the semaphore of the request line, at the end of a step     *)
(* that leaves the threads th, the device dv and the daemon dm: one of the *)
(* waiters has it from then on, a thread or usrsockdev_close.              *)
usrsockdev_semgive(th, dv, dm) ==
  \/ \E u \in Threads :
       /\ th[u].pc = "reqwait"
       /\ thr' = [th EXCEPT ![u].pc = "linegot"]
       /\ dev' = dv
       /\ dmn' = dm
  \/ /\ dm.pc = "wait"
     /\ thr' = th
     /\ dev' = dv
     /\ dmn' = [dm EXCEPT !.pc = "got"]
  \/ /\ \A u \in Threads : th[u].pc # "reqwait"
     /\ dm.pc # "wait"
     /\ thr' = th
     /\ dev' = [dv EXCEPT !.sem = @ + 1]
     /\ dmn' = dm

(* usrsockdev_do_request gives the line up and returns; the call waits for *)
(* the completion, unless it is a non-blocking connect in progress.        *)
AfterRequest(t, dv) ==
  LET c     == thr[t].conn
      early == thr[t].op = "connect" /\ conn[c].inprogress /\ thr[t].nonblock
  IN  /\ conn' = IF early THEN Released(c, t) ELSE conn
      /\ ret'  = IF early THEN [th |-> t, op |-> "connect", conn |-> c, val |-> EINPROGRESS]
                 ELSE NoReturn
      /\ usrsockdev_semgive(
           [thr EXCEPT ![t] = IF early THEN IdleThread ELSE [@ EXCEPT !.pc = "respwait"]],
           [dv EXCEPT !.nbusy = @ - 1], dmn)

NoNotify(poll) == poll   \* faulty variant: the daemon's poll() is not told

usrsockdev_pollnotify(poll) == IF poll = "none" THEN "none" ELSE "posted"

(* usrsockdev_do_request has the request semaphore: put the request on the *)
(* line, or give up when the daemon has gone.                              *)
TakeLine(t) ==
  /\ thr[t].pc = "linegot"
  /\ \/ /\ usrsockdev_is_opened
        /\ dev' = [dev EXCEPT !.ackxid = usrsockdev_get_xid(thr[t].conn),
                              !.iov = t, !.rd = FALSE,
                              !.poll = usrsockdev_pollnotify(@)]
        /\ thr' = [thr EXCEPT ![t].pc = "ackwait"]
        /\ ret' = NoReturn
        /\ UNCHANGED <<conn, dmn>>
     \/ /\ ~usrsockdev_is_opened
        /\ AfterRequest(t, dev)
  /\ UNCHANGED lists

(* Faulty variant: the request is no longer counted as busy twice over.    *)
LeaveLineTwice(t) ==
  /\ thr[t].pc = "ackwait"
  /\ dev.acksem > 0
  /\ AfterRequest(t, [dev EXCEPT !.acksem = @ - 1, !.nbusy = @ - 1])
  /\ UNCHANGED lists

(* usrsockdev_do_request was acknowledged: free the line for the next.     *)
LeaveLine(t) ==
  /\ thr[t].pc = "ackwait"
  /\ dev.acksem > 0
  /\ AfterRequest(t, [dev EXCEPT !.acksem = @ - 1])
  /\ UNCHANGED lists

(* The wait for the completion of the request is over.                     *)
RequestDone(t) ==
  LET c == thr[t].conn
  IN  /\ thr[t].pc = "respwait"
      /\ thr[t].recvsem > 0
      /\ thr[t].wake = "no"
      /\ \/ (SocketDone(t, c) \/ CloseDone(t, c) \/ SimpleDone(t, c) \/ ConnectDone(t, c))
            /\ UNCHANGED dev
         \/ IoDone(t, c)
      /\ UNCHANGED dmn

(* net_timedwait gives up: the thread still has to get net_lock back.      *)
net_timedwait(t) ==
  /\ thr[t].wake = "no"
  /\ thr[t].recvsem = 0
  /\ \E how \in (IF Timeouts THEN {"timeout"} ELSE {}) \cup
                (IF Signals THEN {"signal"} ELSE {}) :
       /\ \/ thr[t].pc = "rdywait"
          \/ thr[t].pc = "respwait" /\ thr[t].op = "connect" /\ how = "signal"
       /\ thr' = [thr EXCEPT ![t].wake = how]
  /\ ret' = NoReturn
  /\ UNCHANGED <<conn, lists, dev, dmn>>

-----------------------------------------------------------------------------
(* The daemon's side of the device                                         *)

usrsockdev_open ==
  /\ dmn.pc = "closed"
  /\ dmn.sessions < MaxSessions
  /\ dev.ocount = 0
  /\ dev' = [dev EXCEPT !.ocount = 1]
  /\ dmn' = [dmn EXCEPT !.pc = "open", !.sessions = @ + 1]
  /\ ret' = NoReturn
  /\ UNCHANGED <<conn, lists, thr>>

NeverPending == FALSE   \* faulty variant: poll() does not look for a request

(* "Notify the POLLIN event if pending request."                           *)
RequestPending == dev.iov # NoThread /\ ~dev.rd

(* usrsockdev_poll: the daemon waits for POLLIN, and leaves the wait when  *)
(* it is posted or when another of its descriptors wakes it.               *)
PollSetup ==
  /\ DaemonPolls
  /\ dmn.pc = "open"
  /\ dev.poll = "none"
  /\ ~dmn.owes
  /\ dev' = [dev EXCEPT !.poll = IF RequestPending THEN "posted" ELSE "armed"]
  /\ ret' = NoReturn
  /\ UNCHANGED <<conn, lists, thr, dmn>>

PollTeardown ==
  /\ dev.poll # "none"
  /\ dev' = [dev EXCEPT !.poll = "none"]
  /\ ret' = NoReturn
  /\ UNCHANGED <<conn, lists, thr, dmn>>

(* The daemon is at work, not waiting in poll().                           *)
DaemonRuns == dmn.pc = "open" /\ dev.poll = "none"

(* Read a request from the line. Buffers whose owner has already left      *)
(* usrsockdev_do_request may hold anything.                                *)
usrsockdev_read ==
  /\ DaemonRuns
  /\ dev.iov # NoThread /\ ~dev.rd
  /\ \E r \in [th : {dev.iov}, op : Requests, xid : Conns,
               usockid : {-1} \cup UsockIds, ip : {FALSE}] :
       /\ thr[dev.iov].pc = "ackwait" =>
            /\ r.op = thr[dev.iov].op
            /\ r.xid = usrsockdev_get_xid(thr[dev.iov].conn)
            /\ r.usockid = conn[thr[dev.iov].conn].usockid
       /\ dmn' = [dmn EXCEPT !.pend = @ \cup {r}]
  /\ dev' = [dev EXCEPT !.rd = TRUE]
  /\ ret' = NoReturn
  /\ UNCHANGED <<conn, lists, thr>>

(* The lookup of usrsockdev_handle_req_response: the first connection that *)
(* waits for a response with this exchange id.                             *)
WaitingConn(xid) ==
  LET i == SelectInSeq(active, LAMBDA x : conn[x].xid = xid)
  IN  IF i = 0 THEN NoConn ELSE active[i]

AcknowledgeKeepsLine(xid) ==   \* faulty variant: req.iov is not cleared
  IF dev.ackxid = xid /\ dev.iov # NoThread
  THEN [dev EXCEPT !.acksem = @ + 1] ELSE dev

(* A response acknowledges the request on the line if that is its own.     *)
Acknowledge(xid) ==
  IF dev.ackxid = xid /\ dev.iov # NoThread
  THEN [dev EXCEPT !.iov = NoThread, !.acksem = @ + 1]
  ELSE dev

(* "In progress": only an acknowledgment (both kinds of response).         *)
RespondInProgress(r) ==
  /\ r.op \in InProgress
  /\ ~r.ip
  /\ dmn' = [dmn EXCEPT !.pend = (@ \ {r}) \cup {[r EXCEPT !.ip = TRUE]}]
  /\ \/ /\ WaitingConn(r.xid) = NoConn
        /\ UNCHANGED <<conn, dev>>
     \/ /\ WaitingConn(r.xid) # NoConn
        /\ dev'  = Acknowledge(r.xid)
        /\ conn' = [conn EXCEPT ![WaitingConn(r.xid)].inprogress = TRUE]
  /\ UNCHANGED thr

(* The results the daemon may give a request, and its own bookkeeping.     *)
Answers(r) ==
  CASE r.op = "socket"   -> (UsockIds \ (dmn.socks \cup dmn.used)) \cup {v \in Results : v < 0 /\ v # EAGAIN}
    [] r.op \in IoCalls  -> Results
    [] r.op = "close"    -> {0}
    [] OTHER             -> {v \in Results : v <= 0 /\ v # EAGAIN}

DaemonAfter(r, result, owes) ==
  [dmn EXCEPT !.pend  = @ \ {r},
              !.owes  = owes,
              !.used  = IF FreshIds /\ r.op = "socket" /\ result >= 0
                        THEN @ \cup {result} ELSE @,
              !.socks = CASE r.op = "socket" /\ result >= 0 -> @ \cup {result}
                          [] r.op = "close" -> @ \ {r.usockid}
                          [] OTHER -> @]

AnsweredInProgress(cr, r, result) ==   \* faulty variant: inprogress is not reset
  [cr EXCEPT !.xid = 0, !.result = result, !.answered = [th |-> r.th, op |-> r.op]]

(* The connection as a final response leaves it.                           *)
Answered(cr, r, result) ==
  [cr EXCEPT !.inprogress = FALSE, !.xid = 0, !.result = result,
             !.answered = [th |-> r.th, op |-> r.op]]

usrsockdev_handle_response(c, r, result) ==
  /\ r.op \notin DataRequests
  /\ dev' = Acknowledge(r.xid)
  /\ dmn' = DaemonAfter(r, result, FALSE)
  /\ usrsock_event(c, Answered(conn[c], r, result), {"REQ_COMPLETE"})

(* A data response: an error completes the request, a result is completed  *)
(* by the data that follows, and a response the buffers do not match is    *)
(* refused after the exchange id was cleared.                              *)
usrsockdev_handle_datareq_response(c, r, result, fits) ==
  LET cr == Answered(conn[c], r, result)
  IN  /\ r.op \in DataRequests
      /\ \/ /\ fits /\ result < 0
            /\ dev' = Acknowledge(r.xid)
            /\ dmn' = DaemonAfter(r, result, FALSE)
            /\ usrsock_event(c, cr, {"REQ_COMPLETE"})
         \/ /\ fits /\ result >= 0 /\ conn[c].datain # NoThread
            /\ dev'  = [Acknowledge(r.xid) EXCEPT !.datain = c]
            /\ dmn'  = DaemonAfter(r, result, TRUE)
            /\ conn' = [conn EXCEPT ![c] = cr]
            /\ UNCHANGED thr
         \/ /\ ~fits \/ (result >= 0 /\ conn[c].datain = NoThread)
            /\ dev'  = Acknowledge(r.xid)
            /\ dmn'  = DaemonAfter(r, result, FALSE)
            /\ conn' = [conn EXCEPT ![c] = cr]
            /\ UNCHANGED thr

RespondFinally(r) ==
  LET c == WaitingConn(r.xid)
  IN  \E result \in Answers(r), fits \in {TRUE, ~FaultyDaemon} :
        \/ /\ c = NoConn
           /\ dmn' = DaemonAfter(r, result, FALSE)
           /\ UNCHANGED <<conn, thr, dev>>
        \/ /\ c # NoConn
           /\ \/ usrsockdev_handle_response(c, r, result)
              \/ usrsockdev_handle_datareq_response(c, r, result, fits)

(* The daemon writes a response to a request it has read from thread t.    *)
usrsockdev_handle_req_response(t) ==
  /\ DaemonRuns
  /\ dev.datain = NoConn
  /\ \E r \in {q \in dmn.pend : q.th = t} : RespondInProgress(r) \/ RespondFinally(r)
  /\ ret' = NoReturn
  /\ UNCHANGED lists

KeepsInput == dev   \* faulty variant: datain_conn stays set

InputDone == [dev EXCEPT !.datain = NoConn]

(* usrsockdev_write while datain_conn is set: the buffer is copied to the  *)
(* connection's input buffers. This is the write that fills them; with no  *)
(* buffers the copy fails and the request completes with EINVAL.           *)
WriteData(c) ==
  /\ usrsock_event(c, IF conn[c].datain = NoThread
                      THEN [conn[c] EXCEPT !.result = EINVAL] ELSE conn[c],
                   {"REQ_COMPLETE"})
  /\ dev' = InputDone

(* The daemon writes the data of its data response; or, when datain_conn   *)
(* is left over from an earlier daemon, a response goes the same way.      *)
usrsockdev_write ==
  /\ DaemonRuns
  /\ dev.datain # NoConn
  /\ WriteData(dev.datain)
  /\ \/ /\ dmn.owes
        /\ dmn' = [dmn EXCEPT !.owes = FALSE]
     \/ /\ ~dmn.owes
        /\ \E r \in dmn.pend : dmn' = [dmn EXCEPT !.pend = @ \ {r}]
  /\ ret' = NoReturn
  /\ UNCHANGED lists

(* An event message: the connection is looked up without net_lock ...      *)
usrsockdev_handle_event ==
  /\ DaemonRuns
  /\ dev.datain = NoConn
  /\ \E id \in dmn.socks, ev \in EventMsgs :
       LET c == usrsock_active(active, conn, id)
       IN  /\ c # NoConn
           /\ dmn' = [dmn EXCEPT !.pc = "event", !.conn = c, !.ev = ev, !.about = id]
  /\ ret' = NoReturn
  /\ UNCHANGED <<conn, lists, thr, dev>>

(* ... and the event is raised under it.                                   *)
DeliverEvent ==
  /\ dmn.pc = "event"
  /\ usrsock_event(dmn.conn, conn[dmn.conn], dmn.ev)
  /\ dmn' = [dmn EXCEPT !.pc = "open", !.conn = NoConn, !.ev = {}, !.about = -1]
  /\ ret' = NoReturn
  /\ UNCHANGED <<lists, dev>>

-----------------------------------------------------------------------------
(* usrsockdev_close: abort the connections one by one, then get every      *)
(* thread off the request line.                                            *)

CloseBegin ==
  /\ DaemonCloses
  /\ DaemonRuns
  /\ dmn' = [dmn EXCEPT !.pc = "walk", !.pend = {}, !.socks = {}, !.owes = FALSE,
                        !.conn = usrsock_nextconn(active, free, NoConn)]
  /\ ret' = NoReturn
  /\ UNCHANGED <<conn, lists, thr, dev>>

CloseAbort ==
  /\ dmn.pc = "walk"
  /\ dmn.conn # NoConn
  /\ usrsock_event(dmn.conn, [conn[dmn.conn] EXCEPT !.inprogress = FALSE, !.xid = 0],
                   {"ABORT"})
  /\ dmn' = [dmn EXCEPT !.pc = "step"]
  /\ ret' = NoReturn
  /\ UNCHANGED <<lists, dev>>

CloseNext ==
  /\ dmn.pc = "step"
  /\ dmn' = [dmn EXCEPT !.pc = "walk",
                        !.conn = usrsock_nextconn(active, free, dmn.conn)]
  /\ ret' = NoReturn
  /\ UNCHANGED <<conn, lists, thr, dev>>

(* The end of the walk, up to the wait for the semaphore of the line.      *)
CloseDown ==
  /\ dmn.pc = "walk"
  /\ dmn.conn = NoConn
  /\ dev' = [dev EXCEPT !.ocount = @ - 1, !.sem = IF @ > 0 THEN @ - 1 ELSE @]
  /\ dmn' = [dmn EXCEPT !.pc = IF dev.sem > 0 THEN "got" ELSE "wait"]
  /\ ret' = NoReturn
  /\ UNCHANGED <<conn, lists, thr>>

(* A thread between taking the line and giving it up has been woken and    *)
(* not run yet.                                                            *)
LineRunnable ==
  \E t \in Threads : \/ thr[t].pc = "linegot"
                     \/ thr[t].pc = "ackwait" /\ dev.acksem > 0

(* "Give other threads short time window to complete": 10 ms have passed.  *)
CloseTimeout ==
  /\ dmn.pc = "wait"
  /\ TimelyWakeup => ~LineRunnable
  /\ dmn' = [dmn EXCEPT !.pc = "late"]
  /\ ret' = NoReturn
  /\ UNCHANGED <<conn, lists, thr, dev>>

(* One turn of the loop: give the semaphore back if close was given it,    *)
(* and stop when nobody is busy.                                           *)
CloseEnd ==
  /\ dmn.pc \in {"got", "late"}
  /\ dev.nbusy = 0
  /\ LET dv == [dev EXCEPT !.iov = NoThread]
         dm == [dmn EXCEPT !.pc = "closed"]
     IN  \/ dmn.pc = "got" /\ usrsockdev_semgive(thr, dv, dm)
         \/ dmn.pc = "late" /\ dev' = dv /\ dmn' = dm /\ UNCHANGED thr
  /\ ret' = NoReturn
  /\ UNCHANGED <<conn, lists>>

ClearsLineOnly == [dev EXCEPT !.iov = NoThread]   \* faulty variant: nobody is woken

(* "Wake-up pending requests."                                             *)
WakesRequests ==
  [dev EXCEPT !.iov    = NoThread,
              !.acksem = @ + 1,
              !.leaked = \/ @
                         \/ dev.acksem > 0
                         \/ \A t \in Threads : thr[t].pc # "ackwait"]

(* Somebody is still busy: wake requests up and wait again. A semaphore    *)
(* nobody else waits for comes straight back to close.                     *)
CloseLoop ==
  /\ dmn.pc \in {"got", "late"}
  /\ dev.nbusy # 0
  /\ dev.acksem < MaxAck
  /\ LET dv == WakesRequests
     IN  \/ /\ dmn.pc = "got"
            /\ \/ \E u \in Threads :
                    /\ thr[u].pc = "reqwait"
                    /\ thr' = [thr EXCEPT ![u].pc = "linegot"]
                    /\ dmn' = [dmn EXCEPT !.pc = "wait"]
               \/ /\ \A u \in Threads : thr[u].pc # "reqwait"
                  /\ UNCHANGED <<thr, dmn>>
            /\ dev' = dv
         \/ /\ dmn.pc = "late"
            /\ dev' = [dv EXCEPT !.sem = IF @ > 0 THEN @ - 1 ELSE @]
            /\ dmn' = [dmn EXCEPT !.pc = IF dev.sem > 0 THEN "got" ELSE "wait"]
            /\ UNCHANGED thr
  /\ ret' = NoReturn
  /\ UNCHANGED <<conn, lists>>

-----------------------------------------------------------------------------
(* The specification                                                       *)

ApiCall(t) ==
  \/ SocketCall(t)
  \/ \E c \in Conns :
       \/ usrsock_close(t, c)
       \/ net_clone(t, c)
       \/ usrsock_bind(t, c)
       \/ usrsock_setsockopt(t, c)
       \/ usrsock_getsockopt(t, c)
       \/ usrsock_getsockname(t, c)
       \/ usrsock_connect(t, c)
       \/ usrsock_sendto(t, c)
       \/ usrsock_recvfrom(t, c)
       \/ \E wanted \in PollMasks : usrsock_pollsetup(t, c, wanted)

ApiContinue(t) ==
  \/ usrsock_socket(t)
  \/ psock_close(t)
  \/ TakeLine(t)
  \/ LeaveLine(t)
  \/ RequestDone(t)
  \/ ConnectInterrupted(t)
  \/ IoReady(t)
  \/ usrsock_pollteardown(t)

(* Threads may run while usrsockdev_close walks the connection list.       *)
Preemptible == WalkUninterrupted => dmn.pc \notin {"walk", "step"}

ThreadStep(t) ==
  /\ Preemptible
  /\ ApiCall(t) \/ ApiContinue(t) \/ net_timedwait(t)

DaemonStep ==
  \/ usrsockdev_open
  \/ PollSetup
  \/ PollTeardown
  \/ usrsockdev_read
  \/ \E t \in Threads : usrsockdev_handle_req_response(t)
  \/ usrsockdev_write
  \/ usrsockdev_handle_event
  \/ DeliverEvent
  \/ CloseBegin
  \/ CloseAbort
  \/ CloseNext
  \/ CloseDown
  \/ CloseTimeout
  \/ CloseEnd
  \/ CloseLoop

(* What threads do to the walk, which goes from connection to connection   *)
(* without net_lock. Nothing of the program depends on it. A walk strays   *)
(* when the connection it stands on is freed: it goes on from there in the *)
(* free list. A request that begins during the walk may have come too late *)
(* to be aborted. Both are forgotten when a later daemon is at work.       *)
Walking == dmn.pc \in {"walk", "step"}

LosesPlace ==
  /\ Walking /\ dmn.conn # NoConn
  /\ Contains(active, dmn.conn) /\ ~Contains(active', dmn.conn)

WalkHistory ==
  /\ strayed' = ((strayed /\ dmn.pc # "open") \/ LosesPlace)
  /\ raced' = \/ raced /\ dmn.pc # "open"
              \/ LosesPlace
              \/ Walking /\ dev'.nbusy > dev.nbusy

Next == (DaemonStep \/ \E t \in Threads : ThreadStep(t)) /\ WalkHistory

Spec == Init /\ [][Next]_vars

(* The step by which thread t is given the semaphore of the request line.  *)
GivesLine(t) ==
  /\ thr[t].pc = "reqwait"
  /\ CloseLoop \/ \E u \in Threads : TakeLine(u) \/ LeaveLine(u)
  /\ thr'[t].pc = "linegot"

(* The scheduler runs every thread that can go on, and the semaphore of    *)
(* the request line serves its waiters in turn. The daemon comes back from *)
(* poll() when it is posted or has an answer ready, sooner or later reads  *)
(* the line, answers what it has read and writes the data it announced;    *)
(* what it closes it closes to the end. No fairness makes anyone call the  *)
(* API, send an event, poll or close the device.                           *)
Fairness ==
  /\ \A t \in Threads :
       /\ WF_codeVars(Preemptible /\ ApiContinue(t))
       /\ SF_codeVars(Preemptible /\ GivesLine(t))
       /\ SF_codeVars(usrsockdev_handle_req_response(t))
  /\ WF_codeVars((dev.poll = "posted" \/ dmn.pend # {}) /\ PollTeardown)
  /\ SF_codeVars(usrsockdev_read)
  /\ SF_codeVars(usrsockdev_write)
  /\ WF_codeVars(DeliverEvent \/ CloseAbort \/ CloseNext \/ CloseDown)
  /\ WF_codeVars(CloseTimeout \/ CloseEnd \/ CloseLoop)

FairSpec == Spec /\ Fairness

-----------------------------------------------------------------------------
(* Properties of the request line                                          *)

LineHolder == {t \in Threads : thr[t].pc \in {"linegot", "ackwait"}}
OnLine     == LineHolder \cup {t \in Threads : thr[t].pc = "reqwait"}
Closing    == dmn.pc \in {"wait", "got", "late"}

(* usrsockdev_do_request lets one request on the line at a time, and       *)
(* usrsockdev_close never gives the semaphore of the line back without     *)
(* having it; req.nbusy counts the threads between its ++ and its --,      *)
(* which is what usrsockdev_close waits to become zero. Nobody waits for   *)
(* a line that is free.                                                    *)
LineCount ==
  /\ dev.sem + Cardinality(LineHolder) + (IF dmn.pc = "got" THEN 1 ELSE 0) = 1
  /\ dev.nbusy = Cardinality(OnLine)
  /\ dev.sem > 0 => OnLine = {} /\ dmn.pc # "wait"

(* As long as usrsockdev_close never posted req.acksem with nobody to take *)
(* the post: a request on the line belongs to a thread that still waits in *)
(* usrsockdev_do_request for its acknowledgment (its buffers are on that   *)
(* thread's stack), and an acknowledgment is pending only for that thread. *)
LineOwner ==
  ~dev.leaked =>
    /\ dev.iov # NoThread => thr[dev.iov].pc = "ackwait" /\ dev.acksem = 0
    /\ dev.acksem > 0 => \E t \in Threads : thr[t].pc = "ackwait"
    /\ dev.acksem <= 1

(* DEBUGASSERT(dev->req.iov == NULL) in usrsockdev_do_request: a thread    *)
(* that gets the request semaphore finds the line free.                    *)
LineFreeAssert ==
  (usrsockdev_is_opened /\ \E t \in Threads : thr[t].pc = "linegot")
    => dev.iov = NoThread

(* A daemon that waits in poll() on the device has been woken if there is  *)
(* a request it has not read (usrsockdev_poll against a concurrent         *)
(* usrsockdev_do_request).                                                 *)
DaemonWoken == dev.poll = "armed" => dev.iov = NoThread \/ dev.rd

-----------------------------------------------------------------------------
(* Properties of the connections                                           *)

(* usrsock_alloc and usrsock_free keep every connection structure in       *)
(* exactly one of the two lists; a socket that is open, or that a call is  *)
(* working on, is in the active list.                                      *)
ConnLists ==
  /\ IsInjective(active \o free)
  /\ Range(active \o free) = Conns
  /\ \A t \in Threads : thr[t].conn # NoConn => Contains(active, thr[t].conn)
  /\ \A c \in Conns : conn[c].crefs > 0 => Contains(active, c)

(* Every call takes one callback and gives it back on every way out: a     *)
(* thread's callback is in the list of the connection it works on while it *)
(* waits there, and nowhere else.                                          *)
CallbackLists ==
  \A t \in Threads, c \in Conns :
    /\ Contains(conn[c].list, t) <=>
         thr[t].conn = c /\ thr[t].pc \in {"reqwait", "linegot", "ackwait",
                                           "respwait", "rdywait", "pollwait"}
    /\ \A i, j \in 1 .. Len(conn[c].list) :
         conn[c].list[i] = conn[c].list[j] => i = j

(* "Each connection can one only one request/response pending"             *)
(* (usrsockdev_get_xid): the daemon never holds two unanswered requests    *)
(* with one exchange id.                                                   *)
OneRequestPerConn ==
  \A r, q \in dmn.pend : r.xid = q.xid => r = q

(* A call is completed by the response to its own request, never by the    *)
(* response or the data of another one.                                    *)
ResponseMatch ==
  \A t \in Threads :
    thr[t].from # NoRequest => thr[t].from = [th |-> t, op |-> thr[t].op]

(* Device and daemon agree on what the daemon's next write is: the start   *)
(* of a message, or the data of the data response before it                *)
(* (usrsockdev_write looks at datain_conn to tell).                        *)
WriteInStep ==
  dmn.pc \in {"open", "event"} => (dev.datain # NoConn <=> dmn.owes)

(* The connection is the kernel's end of a socket that is not being closed.*)
Open(c) ==
  /\ conn[c].state \in {"READY", "CONNECTING"}
  /\ \A t \in Threads : thr[t].conn = c => thr[t].op # "close"

(* While a daemon serves the device, kernel and daemon agree on the open   *)
(* sockets: an open connection has a socket number the daemon knows, and   *)
(* no two have the same.                                                   *)
SocketsAgree ==
  dmn.pc \in {"open", "event"} =>
    \A c \in Conns : Open(c) =>
      /\ conn[c].usockid \in dmn.socks
      /\ \A d \in Conns \ {c} : Open(d) => conn[d].usockid # conn[c].usockid

(* usrsock_active finds "the appropriate connection": an event message     *)
(* about a socket reaches the connection of that socket, not one that      *)
(* still carries its number from before.                                   *)
EventReachesSocket ==
  dmn.pc = "event" =>
    \A c \in Conns : Open(c) /\ conn[c].usockid = dmn.about => c = dmn.conn

(* What connect() reports is so: success leaves a connected socket, and    *)
(* EINPROGRESS one whose response is still to come.                        *)
ConnectReturns ==
  ret.op = "connect" =>
    /\ ret.val = 0 => conn[ret.conn].connected
    /\ ret.val = EINPROGRESS => conn[ret.conn].xid # 0 /\ conn[ret.conn].inprogress

(* A socket the daemon (or its end) has aborted stays unusable until the   *)
(* application closes it: no late response makes it ready again.           *)
AbortIsFinal ==
  [][\A c \in Conns :
       (conn[c].crefs > 0 /\ conn[c].state = "ABORTED") =>
         conn'[c].state \in {"ABORTED", "UNINITIALIZED"}]_vars

-----------------------------------------------------------------------------
(* Properties of waiting calls                                             *)

(* usrsock_pollsetup and poll_event agree: if polling the socket anew      *)
(* would return at once, a thread already waiting in poll() is awake,      *)
(* unless a sendto() or recvfrom() has claimed the readiness for itself    *)
(* and is about to use it.                                                 *)
PollConsistent ==
  \A t \in Threads :
    ( /\ thr[t].pc = "pollwait"
      /\ PollState(conn[thr[t].conn], thr[t].events) # {} )
    => \/ thr[t].revents # {}
       \/ \E u \in Threads :
            /\ thr[u].conn = thr[t].conn
            /\ thr[u].op \in IoCalls
            /\ thr[u].pc = "rdywait" => thr[u].wake = "no" /\ thr[u].recvsem > 0

(* A blocked call can still be woken: the request it has on the line is    *)
(* one the daemon has yet to read or to answer, and the kernel will accept *)
(* the answer; past the line, its response or the data of it are           *)
(* outstanding; and nobody waits on an aborted connection, or for a daemon *)
(* that usrsockdev_close has seen off, unless requests began during the    *)
(* walk of usrsockdev_close or the walk lost its place.                    *)
NoLostWakeup ==
  ~raced => \A t \in Threads :
    LET c       == thr[t].conn
        blocked == thr[t].recvsem = 0 /\ thr[t].wake = "no"
        served  == dmn.pc # "closed" /\ ~Closing
        leaving == dmn.pc \in {"walk", "step"} \/ Closing
        waits   == conn[c].xid = usrsockdev_get_xid(c)
        asked   == \E r \in dmn.pend : r.th = t /\ r.xid = usrsockdev_get_xid(c)
    IN  /\ thr[t].pc = "ackwait" =>
             \/ dev.acksem > 0
             \/ dev.iov = t /\ (leaving \/ (waits /\ (asked \/ ~dev.rd)))
        /\ thr[t].pc = "respwait" /\ blocked =>
             /\ served
             /\ leaving \/ (waits /\ asked) \/ dev.datain = c
        /\ thr[t].pc = "rdywait" /\ blocked =>
             served /\ conn[c].state # "ABORTED"

(* "Set active usrsock sockets to aborted state" (usrsockdev_close): once  *)
(* the walk over the connections is done, none is usable, whatever sockets *)
(* were made, closed or freed meanwhile; but for the one case in which the *)
(* connection the walk stood on was freed, and the walk lost its place.    *)
AllAborted ==
  (dmn.pc = "closed" \/ Closing) /\ ~strayed =>
    \A c \in Conns : conn[c].state \notin {"READY", "CONNECTING"}

-----------------------------------------------------------------------------
(* Liveness, under FairSpec                                                *)

(* A call that has started a request comes to an end (or, for sendto() and *)
(* recvfrom() when the daemon answers EAGAIN, to the wait for readiness):  *)
(* every request gets its turn on the line, is acknowledged and completed, *)
(* or is aborted with the daemon.                                          *)
RequestsComplete ==
  \A t \in Threads :
    thr[t].pc \in {"alloced", "reqwait", "linegot"} ~> thr[t].pc \in {"idle", "rdywait"}

(* usrsockdev_close terminates: its loop sees req.nbusy fall to zero.      *)
CloseTerminates == dmn.pc = "walk" ~> dmn.pc = "closed"

=============================================================================
