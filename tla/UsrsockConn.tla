---------------------------- MODULE UsrsockConn ----------------------------
(***************************************************************************)
(* The data of the usrsock sockets of NuttX (nuttx/net/usrsock) and the    *)
(* parts of the code that are pure functions of that data: the connection  *)
(* structure, the state one API call keeps on its stack, the update a      *)
(* connection makes for an event, and the event handlers that an event     *)
(* runs through the connection's callback list.                            *)
(*                                                                         *)
(* Module Usrsock is the state machine built from these definitions.       *)
(***************************************************************************)
EXTENDS Integers, FiniteSets, SequencesExt

CONSTANTS
  NConns,      \* CONFIG_NET_USRSOCK_CONNS, the size of g_usrsock_connections
  Threads,     \* the application threads that call the socket API
  NoThread,    \* a null pointer to something on a thread's stack
  UsockIds     \* the socket numbers a daemon may hand out

(* usrsock_dev.c refuses to compile for more than 255 connections; socket  *)
(* numbers are the non-negative results of the socket request.             *)
ASSUME ConnAssumption ==
  /\ NConns \in 1 .. 255
  /\ UsockIds \subseteq Nat
  /\ NoThread \notin Threads
  /\ IsFiniteSet(Threads)

Conns  == 1 .. NConns
NoConn == 0

-----------------------------------------------------------------------------
(* Negated errno values.                                                   *)

EINTR        == -4
EAGAIN       == -11
ENOMEM       == -12
EACCES       == -13
EBUSY        == -16
EINVAL       == -22
EPIPE        == -32
ENETDOWN     == -100
ECONNABORTED == -103
ECONNRESET   == -104
EISCONN      == -106
ENOTCONN     == -107
ECONNREFUSED == -111
EALREADY     == -114
EINPROGRESS  == -115

-----------------------------------------------------------------------------
(* Events. The first four travel in event messages of the daemon, the      *)
(* other two are internal (USRSOCK_EVENT_INTERNAL_MASK keeps a daemon from *)
(* sending them).                                                          *)

DataEvents     == {"SENDTO_READY", "RECVFROM_AVAIL"}
ExternalEvents == DataEvents \cup {"ABORT", "REMOTE_CLOSED"}
InternalEvents == {"REQ_COMPLETE", "CONNECT_RESP"}
Events         == ExternalEvents \cup InternalEvents

PollEvents == {"IN", "OUT", "ERR", "HUP"}

ConnStates == {"UNINITIALIZED", "ABORTED", "READY", "CONNECTING"}

(* The API calls. Each but poll is also a request to the daemon.           *)
Requests == {"socket", "close", "bind", "connect", "setsockopt",
             "getsockopt", "getsockname", "sendto", "recvfrom"}
ApiCalls == Requests \cup {"poll"}
IoCalls  == {"sendto", "recvfrom"}

(* Requests the daemon answers with a data response.                       *)
DataRequests == {"getsockopt", "getsockname", "recvfrom"}

(* A request as the daemon and the history fields know it.                 *)
NoRequest  == [th |-> NoThread, op |-> "none"]
RequestIds == [th : Threads, op : Requests] \cup {NoRequest}

(* struct usrsock_conn_s. datain names the thread whose buffers            *)
(* resp.datain.iov points to. owner and answered are history: the thread   *)
(* that created the socket, and the request whose final response was       *)
(* accepted last.                                                          *)
ConnRecords ==
  [state     : ConnStates,
   connected : BOOLEAN,
   stream    : BOOLEAN,
   usockid   : Int,
   flags     : SUBSET (DataEvents \cup {"REMOTE_CLOSED"}),
   crefs     : Nat,
   xid       : {0} \cup Conns,
   inprogress: BOOLEAN,
   result    : Int,
   datain    : Threads \cup {NoThread},
   list      : Seq(Threads),
   owner     : Threads \cup {NoThread},
   answered  : RequestIds]

(* The connection structure as usrsock_alloc and usrsock_free leave it.    *)
ClearedConn ==
  [state |-> "UNINITIALIZED", connected |-> FALSE, stream |-> FALSE,
   usockid |-> -1, flags |-> {}, crefs |-> 0, xid |-> 0,
   inprogress |-> FALSE, result |-> 0, datain |-> NoThread, list |-> << >>,
   owner |-> NoThread, answered |-> NoRequest]

(* struct usrsock_reqstate_s (or usrsock_poll_s) of the call a thread is   *)
(* in: cb is cb->flags, empty once a handler has disarmed the callback;    *)
(* wake tells a wait that a signal or its timeout ended; from is history,  *)
(* the request whose completion the callback was given.                    *)
Places == {"idle", "alloced", "reqwait", "linegot", "ackwait", "respwait",
           "rdywait", "pollwait", "freeing"}

ThreadRecords ==
  [pc       : Places,
   op       : ApiCalls \cup {"none"},
   conn     : {NoConn} \cup Conns,
   nonblock : BOOLEAN,
   cb       : SUBSET Events,
   recvsem  : Nat,
   result   : Int,
   wake     : {"no", "timeout", "signal"},
   events   : SUBSET PollEvents,
   revents  : SUBSET PollEvents,
   from     : RequestIds]

IdleThread ==
  [pc |-> "idle", op |-> "none", conn |-> NoConn, nonblock |-> FALSE,
   cb |-> {}, recvsem |-> 0, result |-> 0, wake |-> "no", events |-> {},
   revents |-> {}, from |-> NoRequest]

-----------------------------------------------------------------------------
(* usrsock_event: what an event does to the connection before the          *)
(* callbacks run, and the events the callbacks are run with.               *)

(* Faulty variant: the state is not looked at.                             *)
AnyResponse(cr, ev) == "REQ_COMPLETE" \in ev

IsConnectResponse(cr, ev) ==
  "REQ_COMPLETE" \in ev /\ cr.state = "CONNECTING"

(* Faulty variant: an abort leaves the state alone.                        *)
StateUpdateNoAbort(cr, ev) ==
  [cr EXCEPT !.state = IF IsConnectResponse(cr, ev) THEN "READY" ELSE @,
             !.flags = @ \cup (ev \cap DataEvents)]

StateUpdate(cr, ev) ==
  LET responded == IsConnectResponse(cr, ev)
      state  == CASE "ABORT" \in ev -> "ABORTED"
                  [] responded /\ "ABORT" \notin ev -> "READY"
                  [] OTHER -> cr.state
      kept   == IF "REMOTE_CLOSED" \in ev
                THEN (cr.flags \ DataEvents) \cup {"REMOTE_CLOSED"}
                ELSE cr.flags
      raised == IF state \in {"READY", "CONNECTING"} /\ "REMOTE_CLOSED" \notin kept
                THEN ev \cap DataEvents ELSE {}
  IN  [cr EXCEPT !.state     = state,
                 !.connected = @ \/ (responded /\ cr.result = 0),
                 !.flags     = kept \cup raised]

EventsToCallbacks(cr, ev) ==
  ev \cup (IF IsConnectResponse(cr, ev) THEN {"CONNECT_RESP"} ELSE {})

-----------------------------------------------------------------------------
(* Event handlers. Each maps the state s of the waiting call to its next   *)
(* value; cr is the connection and seen the flags the handler is given.    *)

(* "Stop further callbacks" and "Wake up the waiting thread".              *)
WakeupNoPost(s, result) == [s EXCEPT !.result = result, !.cb = {}]  \* faulty variant

Wakeup(s, result) ==
  [s EXCEPT !.result = result, !.cb = {}, !.recvsem = @ + 1]

Completed(s, cr) == [Wakeup(s, cr.result) EXCEPT !.from = cr.answered]

RequestEvent(s, cr, seen) ==
  IF "ABORT" \in seen THEN Wakeup(s, ECONNABORTED)
  ELSE IF "REQ_COMPLETE" \in seen THEN Completed(s, cr)
  ELSE s

bind_event(s, cr, seen)        == RequestEvent(s, cr, seen)
connect_event(s, cr, seen)     == RequestEvent(s, cr, seen)
close_event(s, cr, seen)       == RequestEvent(s, cr, seen)
setsockopt_event(s, cr, seen)  == RequestEvent(s, cr, seen)
getsockopt_event(s, cr, seen)  == RequestEvent(s, cr, seen)
getsockname_event(s, cr, seen) == RequestEvent(s, cr, seen)

socket_event(s, cr, seen) ==
  IF "ABORT" \in seen THEN Wakeup(s, ENETDOWN)
  ELSE RequestEvent(s, cr, seen)

IoEvent(s, cr, seen, ready) ==
  IF seen \cap {"ABORT", "REQ_COMPLETE"} # {} THEN RequestEvent(s, cr, seen)
  ELSE IF "REMOTE_CLOSED" \in seen THEN Wakeup(s, EPIPE)
  ELSE IF ready \in seen THEN Wakeup(s, s.result)
  ELSE s

sendto_event(s, cr, seen)   == IoEvent(s, cr, seen, "SENDTO_READY")
recvfrom_event(s, cr, seen) == IoEvent(s, cr, seen, "RECVFROM_AVAIL")

(* "Filter I/O events depending on requested events", then POLLOUT gives   *)
(* way to POLLHUP.                                                         *)
FilterPoll(found, wanted) ==
  LET io == found \ ({"IN", "OUT"} \ wanted)
  IN  IF "HUP" \in io THEN io \ {"OUT"} ELSE io

(* Faulty variant: a failed connect is not reported.                       *)
poll_event_NoFailure(s, cr, seen) ==
  LET found == IF "ABORT" \in seen THEN {"ERR", "HUP"}
               ELSE IF "REMOTE_CLOSED" \in seen THEN {"HUP", "IN"}
               ELSE (IF "RECVFROM_AVAIL" \in seen THEN {"IN"} ELSE {}) \cup
                    (IF "SENDTO_READY" \in seen THEN {"OUT"} ELSE {})
  IN  [s EXCEPT !.revents = @ \cup FilterPoll(found, s.events)]

poll_event(s, cr, seen) ==
  LET found ==
        IF \/ "ABORT" \in seen
           \/ "CONNECT_RESP" \in seen /\ ~cr.connected
        THEN {"ERR", "HUP"}
        ELSE IF "REMOTE_CLOSED" \in seen THEN {"HUP", "IN"}
        ELSE (IF "RECVFROM_AVAIL" \in seen THEN {"IN"} ELSE {}) \cup
             (IF "SENDTO_READY" \in seen THEN {"OUT"} ELSE {})
  IN  [s EXCEPT !.revents = @ \cup FilterPoll(found, s.events)]

(* The handler a callback was set up with, by the call it belongs to.      *)
Handler(s, cr, seen) ==
  CASE s.op = "socket"      -> socket_event(s, cr, seen)
    [] s.op = "close"       -> close_event(s, cr, seen)
    [] s.op = "bind"        -> bind_event(s, cr, seen)
    [] s.op = "connect"     -> connect_event(s, cr, seen)
    [] s.op = "setsockopt"  -> setsockopt_event(s, cr, seen)
    [] s.op = "getsockopt"  -> getsockopt_event(s, cr, seen)
    [] s.op = "getsockname" -> getsockname_event(s, cr, seen)
    [] s.op = "sendto"      -> sendto_event(s, cr, seen)
    [] s.op = "recvfrom"    -> recvfrom_event(s, cr, seen)
    [] OTHER                -> poll_event(s, cr, seen)

-----------------------------------------------------------------------------
(* devif_callback_execute walks the list from its head, the newest         *)
(* callback, and gives each callback the flags the ones before it left:    *)
(* only sendto_event and recvfrom_event take a flag away, the ready flag   *)
(* they were waiting for, and only in the last branch of the handler.      *)

TakesReady(s, k) ==
  /\ k \in s.cb
  /\ \/ s.op = "sendto"   /\ k = "SENDTO_READY"
     \/ s.op = "recvfrom" /\ k = "RECVFROM_AVAIL"

Seen(list, thr, ev, i) ==
  IF ev \cap {"ABORT", "REQ_COMPLETE", "REMOTE_CLOSED"} # {} THEN ev
  ELSE {k \in ev : \A j \in 1 .. (i - 1) : ~TakesReady(thr[list[j]], k)}

(* The threads whose callback runs for events ev.                          *)
Fired(list, thr, ev) ==
  {list[i] : i \in {j \in 1 .. Len(list) :
                      Seen(list, thr, ev, j) \cap thr[list[j]].cb # {}}}

devif_callback_execute(cr, thr, ev) ==
  [t \in Threads |->
     IF t \in Fired(cr.list, thr, ev)
     THEN LET i == CHOOSE j \in 1 .. Len(cr.list) : cr.list[j] = t
          IN  Handler(thr[t], cr, Seen(cr.list, thr, ev, i))
     ELSE thr[t]]

(* What the handlers change in the connection: socket_event fills in the   *)
(* new socket, sendto_event and recvfrom_event use up the ready flag.      *)
Completes(cr, thr, ev, op) ==
  /\ "REQ_COMPLETE" \in ev
  /\ \E t \in Fired(cr.list, thr, ev) : thr[t].op = op

(* Faulty variant: a socket request that failed makes a socket all the     *)
(* same.                                                                   *)
SocketBornAnyway(cr, thr, ev) == Completes(cr, thr, ev, "socket")

SocketBorn(cr, thr, ev) == Completes(cr, thr, ev, "socket") /\ cr.result >= 0

UsedUp(cr, thr, ev) ==
  {k \in DataEvents :
     /\ cr.result >= 0 \/ cr.result = EAGAIN
     /\ Completes(cr, thr, ev, IF k = "SENDTO_READY" THEN "sendto" ELSE "recvfrom")}

HandlerEffects(cr, thr, ev) ==
  LET born == SocketBorn(cr, thr, ev)
  IN  [cr EXCEPT !.state   = IF born THEN "READY" ELSE @,
                 !.usockid = IF born THEN cr.result ELSE @,
                 !.flags   = @ \ UsedUp(cr, thr, ev)]

-----------------------------------------------------------------------------
(* The callback list.                                                      *)

(* usrsock_setup_request_callback, once the pool had a callback to give:   *)
(* the connection's list, and the request state of the call.               *)
SetupCallback(cr, t) == [cr EXCEPT !.list = <<t>> \o @]

(* Faulty variant: the callback is not given back.                         *)
KeepCallback(cr, t) == cr

TeardownCallback(cr, t) == [cr EXCEPT !.list = RemoveFirst(@, t)]

Armed(op, c, nonblock, flags) ==
  [IdleThread EXCEPT !.op = op, !.conn = c, !.nonblock = nonblock,
                     !.cb = flags, !.result = EAGAIN]

(* The successor of connection c through node.flink, whichever of the two  *)
(* lists c is in by now (usrsock_nextconn).                                *)
Successor(list, c) ==
  LET i == SelectInSeq(list, LAMBDA x : x = c)
  IN  IF i \in 1 .. (Len(list) - 1) THEN list[i + 1] ELSE NoConn

usrsock_nextconn(active, free, c) ==
  IF c = NoConn
  THEN IF active = << >> THEN NoConn ELSE active[1]
  ELSE IF Contains(active, c) THEN Successor(active, c) ELSE Successor(free, c)

(* The first active connection with the daemon's socket number.            *)
AnyActive(active, conn, usockid) ==   \* faulty variant: the number is not compared
  IF active = << >> THEN NoConn ELSE active[1]

usrsock_active(active, conn, usockid) ==
  LET i == SelectInSeq(active, LAMBDA x : conn[x].usockid = usockid)
  IN  IF i = 0 THEN NoConn ELSE active[i]

=============================================================================
