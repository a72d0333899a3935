------------------------- MODULE UsrsockConnProofs -------------------------
(***************************************************************************)
(* Lemmas about the operators of module UsrsockConn: what the searches and *)
(* removals on the connection and callback lists return, and that an       *)
(* event, its handlers and the callback list keep connections and threads  *)
(* well formed. Module UsrsockProofs rests on them.                        *)
(***************************************************************************)
EXTENDS UsrsockConn, SequenceTheorems, WellFoundedInduction, TLAPS

-----------------------------------------------------------------------------
(* Sequences                                                               *)

(* A non-empty set of natural numbers has a least element, and Min is it.  *)
LEMMA MinInSet ==
  ASSUME NEW S \in SUBSET Nat, S # {}
  PROVE  Min(S) \in S /\ \A y \in S : Min(S) <= y
<1> DEFINE Less == {p \in Nat \X Nat : p[1] < p[2]}
<1>1. IsWellFoundedOn(Less, Nat)
  BY NatLessThanWellFounded DEF OpToRel
<1>2. PICK x \in S : \A y \in S : ~ (<<y, x>> \in Less)
  BY <1>1, WFMin
<1>3. ASSUME NEW y \in S PROVE x <= y
  <2>1. x \in Nat /\ y \in Nat
    OBVIOUS
  <2>2. y < x => <<y, x>> \in Less
    BY <2>1
  <2> QED
    BY <1>2, <2>1, <2>2
<1> QED
  BY <1>2, <1>3 DEF Min

(* Removing an element from a list leaves a list of the same kind.         *)
LEMMA RemoveFirstType ==
  ASSUME NEW S, NEW s \in Seq(S), NEW e
  PROVE  RemoveFirst(s, e) \in Seq(S)
<1>1. CASE ~ \E i \in 1 .. Len(s) : s[i] = e
  BY <1>1 DEF RemoveFirst
<1>2. CASE \E i \in 1 .. Len(s) : s[i] = e
  <2> DEFINE I == {i \in 1 .. Len(s) : s[i] = e}
             k == Min(I)
  <2>1. Len(s) \in Nat /\ I \in SUBSET Nat /\ I # {}
    BY <1>2
  <2>2. k \in 1 .. Len(s)
    BY <2>1, MinInSet
  <2>3. RemoveFirst(s, e) = SubSeq(s, 1, k - 1) \o SubSeq(s, k + 1, Len(s))
    BY <1>2, <2>1 DEF RemoveFirst, RemoveAt, SelectInSeq
  <2>4. /\ SubSeq(s, 1, k - 1) \in Seq(S)
        /\ SubSeq(s, k + 1, Len(s)) \in Seq(S)
    <3> HIDE DEF k
    <3>1. \A i \in 1 .. Len(s) : s[i] \in S
      OBVIOUS
    <3> QED
      BY <2>1, <2>2, <3>1, SubSeqProperties
  <2> QED
    BY <2>3, <2>4, ConcatProperties
<1> QED
  BY <1>1, <1>2

-----------------------------------------------------------------------------
(* The connection lists                                                    *)

(* usrsock_active returns an active connection with the number, or none.   *)
LEMMA ActiveLookup ==
  ASSUME NEW list \in Seq(Conns), NEW cm, NEW id
  PROVE  LET c == usrsock_active(list, cm, id)
         IN  c = NoConn \/ (c \in Conns /\ cm[c].usockid = id)
<1> DEFINE I == {i \in 1 .. Len(list) : cm[list[i]].usockid = id}
<1>1. I \in SUBSET Nat /\ (I # {} => Min(I) \in I)
  <2>1. I \in SUBSET Nat
    BY LenProperties
  <2> QED
    BY <2>1, MinInSet
<1>2. usrsock_active(list, cm, id) = IF I = {} \/ Min(I) = 0 THEN NoConn ELSE list[Min(I)]
  BY DEF usrsock_active, SelectInSeq
<1> QED
  BY <1>1, <1>2, ElementOfSeq

(* usrsock_nextconn returns a connection or the end of the list.           *)
LEMMA NextconnType ==
  ASSUME NEW list \in Seq(Conns), NEW other \in Seq(Conns),
         NEW c \in {NoConn} \cup Conns
  PROVE  usrsock_nextconn(list, other, c) \in {NoConn} \cup Conns
<1>1. ASSUME NEW l \in Seq(Conns)
      PROVE  Successor(l, c) \in {NoConn} \cup Conns
  <2> DEFINE i == SelectInSeq(l, LAMBDA x : x = c)
  <2>1. Successor(l, c) = IF i \in 1 .. (Len(l) - 1) THEN l[i + 1] ELSE NoConn
    BY DEF Successor
  <2> HIDE DEF i
  <2>2. i \in 1 .. (Len(l) - 1) => i + 1 \in 1 .. Len(l)
    BY LenProperties
  <2> QED
    BY <2>1, <2>2, ElementOfSeq
<1>2. list # << >> => list[1] \in Conns
  BY ElementOfSeq, LenProperties
<1> QED
  BY <1>1, <1>2 DEF usrsock_nextconn

-----------------------------------------------------------------------------
(* Events and handlers                                                     *)

(* The constants of the records.                                           *)
LEMMA ConstantTypes ==
  /\ NoRequest \in RequestIds
  /\ ClearedConn \in ConnRecords
  /\ IdleThread \in ThreadRecords
<1>1. NoRequest \in RequestIds
  BY DEF RequestIds
<1>2. ClearedConn \in ConnRecords
  BY <1>1 DEF ClearedConn, ConnRecords, ConnStates
<1>3. IdleThread \in ThreadRecords
  BY <1>1 DEF IdleThread, ThreadRecords, Places, NoConn
<1> QED
  BY <1>1, <1>2, <1>3

(* usrsock_event's update leaves a connection, with the same callbacks.    *)
LEMMA StateUpdateType ==
  ASSUME NEW cr \in ConnRecords, NEW ev \in SUBSET Events
  PROVE  StateUpdate(cr, ev) \in ConnRecords /\ EventsToCallbacks(cr, ev) \in SUBSET Events
BY DEF StateUpdate, ConnRecords, ConnStates, EventsToCallbacks, Events, InternalEvents,
       IsConnectResponse

(* What the handlers change in a connection.                               *)
LEMMA HandlerEffectsType ==
  ASSUME NEW cr \in ConnRecords, NEW th, NEW ev
  PROVE  HandlerEffects(cr, th, ev) \in ConnRecords
BY DEF HandlerEffects, ConnRecords, ConnStates

(* An event handler works on the request state of the call alone: the      *)
(* call stays where it is.                                                 *)
SamePlace(s, r) == r.pc = s.pc /\ r.op = s.op /\ r.conn = s.conn

(* Wakeup, the common end of every event handler, keeps the type of the    *)
(* waiting call's state.                                                   *)
LEMMA WakeupType ==
  ASSUME NEW s \in ThreadRecords, NEW result \in Int
  PROVE  Wakeup(s, result) \in ThreadRecords /\ SamePlace(s, Wakeup(s, result))
<1>1. s.recvsem + 1 \in Nat
  BY DEF ThreadRecords
<1>2. ASSUME NEW n \in Nat
      PROVE  LET w == [s EXCEPT !.result = result, !.cb = {}, !.recvsem = n]
             IN  w \in ThreadRecords /\ SamePlace(s, w)
  BY DEF ThreadRecords, SamePlace
<1>3. Wakeup(s, result) = [s EXCEPT !.result = result, !.cb = {}, !.recvsem = s.recvsem + 1]
  BY DEF Wakeup
<1> QED
  BY <1>1, <1>2, <1>3

(* Every event handler keeps the type of the waiting call's state, its     *)
(* place and its connection: a handler wakes a call, it never moves it.    *)
LEMMA HandlerType ==
  ASSUME NEW s \in ThreadRecords, NEW cr \in ConnRecords, NEW seen
  PROVE  Handler(s, cr, seen) \in ThreadRecords /\ SamePlace(s, Handler(s, cr, seen))
<1>1. cr.result \in Int /\ cr.answered \in RequestIds /\ s.result \in Int
  BY DEF ConnRecords, ThreadRecords
<1>2. Completed(s, cr) \in ThreadRecords /\ SamePlace(s, Completed(s, cr))
  <2>1. Wakeup(s, cr.result) \in ThreadRecords /\ SamePlace(s, Wakeup(s, cr.result))
    BY <1>1, WakeupType
  <2>2. ASSUME NEW w \in ThreadRecords, SamePlace(s, w), NEW r \in RequestIds
        PROVE  [w EXCEPT !.from = r] \in ThreadRecords /\ SamePlace(s, [w EXCEPT !.from = r])
    BY <2>2 DEF ThreadRecords, SamePlace
  <2> QED
    BY <1>1, <2>1, <2>2 DEF Completed
<1>3. /\ Wakeup(s, ECONNABORTED) \in ThreadRecords /\ SamePlace(s, Wakeup(s, ECONNABORTED))
      /\ Wakeup(s, ENETDOWN) \in ThreadRecords /\ SamePlace(s, Wakeup(s, ENETDOWN))
      /\ Wakeup(s, EPIPE) \in ThreadRecords /\ SamePlace(s, Wakeup(s, EPIPE))
      /\ Wakeup(s, s.result) \in ThreadRecords /\ SamePlace(s, Wakeup(s, s.result))
  BY <1>1, WakeupType DEF ECONNABORTED, ENETDOWN, EPIPE
<1>4. RequestEvent(s, cr, seen) \in ThreadRecords /\ SamePlace(s, RequestEvent(s, cr, seen))
  BY <1>2, <1>3 DEF RequestEvent, SamePlace
<1>5. socket_event(s, cr, seen) \in ThreadRecords /\ SamePlace(s, socket_event(s, cr, seen))
  BY <1>3, <1>4 DEF socket_event
<1>6. /\ sendto_event(s, cr, seen) \in ThreadRecords
      /\ SamePlace(s, sendto_event(s, cr, seen))
      /\ recvfrom_event(s, cr, seen) \in ThreadRecords
      /\ SamePlace(s, recvfrom_event(s, cr, seen))
  BY <1>3, <1>4 DEF sendto_event, recvfrom_event, IoEvent, SamePlace
<1>7. poll_event(s, cr, seen) \in ThreadRecords /\ SamePlace(s, poll_event(s, cr, seen))
  BY DEF poll_event, FilterPoll, ThreadRecords, PollEvents, SamePlace
<1> QED
  BY <1>4, <1>5, <1>6, <1>7 DEF Handler, close_event, bind_event, connect_event,
     setsockopt_event, getsockopt_event, getsockname_event

(* devif_callback_execute moves no thread.                                 *)
LEMMA ExecuteType ==
  ASSUME NEW cr \in ConnRecords, NEW th \in [Threads -> ThreadRecords], NEW ev
  PROVE  /\ devif_callback_execute(cr, th, ev) \in [Threads -> ThreadRecords]
         /\ \A t \in Threads : SamePlace(th[t], devif_callback_execute(cr, th, ev)[t])
<1> DEFINE seen(t) == Seen(cr.list, th, ev, CHOOSE j \in 1 .. Len(cr.list) : cr.list[j] = t)
           new(t)  == IF t \in Fired(cr.list, th, ev) THEN Handler(th[t], cr, seen(t))
                      ELSE th[t]
<1>1. devif_callback_execute(cr, th, ev) = [t \in Threads |-> new(t)]
  BY DEF devif_callback_execute
<1>2. ASSUME NEW t \in Threads
      PROVE  new(t) \in ThreadRecords /\ SamePlace(th[t], new(t))
  <2>1. Handler(th[t], cr, seen(t)) \in ThreadRecords
        /\ SamePlace(th[t], Handler(th[t], cr, seen(t)))
    BY HandlerType
  <2> QED
    BY <2>1 DEF SamePlace
<1> QED
  BY <1>1, <1>2

(* The callback list of a connection.                                      *)
LEMMA CallbackType ==
  ASSUME NEW cr \in ConnRecords, NEW t \in Threads
  PROVE  /\ SetupCallback(cr, t) \in ConnRecords
         /\ TeardownCallback(cr, t) \in ConnRecords
<1>1. cr.list \in Seq(Threads)
  BY DEF ConnRecords
<1>2. RemoveFirst(cr.list, t) \in Seq(Threads)
  BY <1>1, RemoveFirstType
<1>3. <<t>> \o cr.list \in Seq(Threads)
  BY <1>1, ConcatProperties
<1> QED
  BY <1>2, <1>3 DEF SetupCallback, TeardownCallback, ConnRecords

=============================================================================
