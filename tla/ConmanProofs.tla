---------------------------- MODULE ConmanProofs ----------------------------
(***************************************************************************)
(* The safety properties of the connection manager, for any number of      *)
(* connections, infos and messages and for clients that wait for nothing.  *)
(***************************************************************************)
EXTENDS Conman, FiniteSetTheorems, TLAPS

-----------------------------------------------------------------------------
(* The inductive invariant, as predicates on the manager.                  *)

Live(c) == {i \in ConnIds : c.conn[i] = "live"}

Counted(c) ==
  /\ c.refcnt = Cardinality(Live(c))
  /\ c.refcnt = 0 => c.target = POWERED_OFF
  /\ c.target \in {POWERED_OFF, NETWORK, GPRS}

(* The connection of the SMS queue is in the list as long as it is asked   *)
(* for.                                                                    *)
SmsConn(c) == c.req => c.smsid \in ConnIds /\ c.conn[c.smsid] # "none"

(* No message waits without a connection asked for it. While that is up,   *)
(* sms_sending_active is set for a message under way only, and no message  *)
(* waits without one.                                                      *)
SmsSane(c) ==
  /\ c.queue > 0 => c.req
  /\ c.status = "ESTABLISHED" /\ (c.active \/ c.queue > 0) => c.sms > 0

Good(c) == c \in ConmanRecords /\ Counted(c) /\ SmsConn(c) /\ SmsSane(c)

(* What an operator asks of the modem is what the manager is after.        *)
Asks(c, d) ==
  \/ d.ask = c.ask /\ d.target = c.target
  \/ d.ask = d.target /\ d.ask # LEVEL_MAX

(* No operator takes an info or a message back from the modem.             *)
Keeps(c, d) == d.infos = c.infos /\ d.sms >= c.sms

Inv ==
  /\ TypeOK
  /\ Good(conman) /\ conman.ask = LEVEL_MAX
  /\ conman.target = target
  /\ job = "info" => conman.infos > 0
  /\ job = "sms" => conman.sms > 0

-----------------------------------------------------------------------------
(* Levels and sets of connections.                                         *)

(* The levels are numbers, LEVEL_MAX is none of them.                      *)
LEMMA LevelFacts ==
  /\ Levels = 0 .. 6
  /\ POWERED_OFF \in Levels /\ NETWORK \in Levels /\ GPRS \in Levels
  /\ SIM_ENABLED \in Levels /\ STUCK_HARDWARE \in Levels
  /\ POWERED_OFF = 0 /\ LEVEL_MAX = 7 /\ LEVEL_MAX \notin Levels
BY DEF Levels, POWERED_OFF, NETWORK, GPRS, SIM_ENABLED, STUCK_HARDWARE, LEVEL_MAX

(* The live connections of a manager can be counted.                       *)
LEMMA LiveFinite ==
  ASSUME NEW c
  PROVE  IsFiniteSet(Live(c)) /\ Cardinality(Live(c)) \in Nat
<1>1. Live(c) \in SUBSET ConnIds
  BY DEF Live
<1>2. IsFiniteSet(Live(c))
  BY <1>1, FS_Subset, ConmanAssumption
<1> QED
  BY <1>2, FS_CardinalityType

(* A connection that stops being live lowers the count by one.             *)
LEMMA LiveLess ==
  ASSUME NEW c, NEW d, NEW id \in ConnIds, c.conn[id] = "live", d.conn[id] # "live",
         \A i \in ConnIds : i # id => d.conn[i] = c.conn[i]
  PROVE  Cardinality(Live(d)) = Cardinality(Live(c)) - 1
<1>1. Live(d) = Live(c) \ {id}
  BY DEF Live
<1>2. id \in Live(c)
  BY DEF Live
<1> QED
  BY <1>1, <1>2, LiveFinite, FS_RemoveElement

(* A connection that becomes live raises it by one.                        *)
LEMMA LiveMore ==
  ASSUME NEW c, NEW d, NEW id \in ConnIds, c.conn[id] # "live", d.conn[id] = "live",
         \A i \in ConnIds : i # id => d.conn[i] = c.conn[i]
  PROVE  Cardinality(Live(d)) = Cardinality(Live(c)) + 1
<1>1. Live(d) = Live(c) \cup {id}
  BY DEF Live
<1>2. id \notin Live(c)
  BY DEF Live
<1> QED
  BY <1>1, <1>2, LiveFinite, FS_AddElement

-----------------------------------------------------------------------------
(* The operators of the manager.                                           *)

(* The release of a connection that has left the set of live ones.         *)
LEMMA ReleaseGood ==
  ASSUME NEW c \in ConmanRecords, c.refcnt = Cardinality(Live(c)) + 1,
         c.target \in {POWERED_OFF, NETWORK, GPRS}, SmsConn(c), SmsSane(c)
  PROVE  /\ Good(release_connection(c)) /\ Asks(c, release_connection(c))
         /\ Keeps(c, release_connection(c))
<1> DEFINE r == [c EXCEPT !.refcnt = c.refcnt - 1]
           d == release_connection(c)
<1>1. Cardinality(Live(c)) \in Nat
  BY LiveFinite
<1>2. d = IF r.refcnt > 0 \/ r.target = POWERED_OFF THEN r ELSE power_off(r)
  BY <1>1 DEF release_connection, ConmanRecords
<1>3. r \in ConmanRecords /\ power_off(r) \in ConmanRecords
  <2>1. c.refcnt - 1 \in Nat
    BY <1>1
  <2>2. r \in ConmanRecords
    BY <2>1 DEF ConmanRecords
  <2> HIDE DEF r
  <2>3. power_off(r) \in ConmanRecords
    BY <2>2, LevelFacts DEF ConmanRecords, power_off, ubmodem_request_level, Statuses
  <2> QED
    BY <2>2, <2>3
<1>4. d.conn = c.conn /\ d.refcnt = c.refcnt - 1 /\ d.req = c.req /\ d.smsid = c.smsid
  BY <1>2 DEF ConmanRecords, power_off, ubmodem_request_level
<1>5. Live(d) = Live(c)
  BY <1>4 DEF Live
<1>6. Counted(d)
  BY <1>1, <1>2, <1>4, <1>5 DEF Counted, power_off, ubmodem_request_level, ConmanRecords
<1>7. SmsConn(d)
  BY <1>4 DEF SmsConn
<1>8. SmsSane(d)
  BY <1>2 DEF SmsSane, power_off, ubmodem_request_level, ConmanRecords
<1>9. Asks(c, d)
  BY <1>2, LevelFacts DEF Asks, power_off, ubmodem_request_level, ConmanRecords
<1>10. Keeps(c, d)
  BY <1>2 DEF Keeps, power_off, ubmodem_request_level, ConmanRecords
<1> QED
  BY <1>2, <1>3, <1>6, <1>7, <1>8, <1>9, <1>10 DEF Good

(* A connection more, of an id that was free.                              *)
LEMMA CreateGood ==
  ASSUME NEW c \in ConmanRecords, Counted(c), SmsConn(c),
         NEW id \in ConnIds, c.conn[id] = "none", NEW l \in {NETWORK, GPRS}
  PROVE  LET d == create_connection(c, id, l)
         IN /\ d \in ConmanRecords /\ Counted(d) /\ SmsConn(d)
            /\ Asks(c, d) /\ Keeps(c, d) /\ d.conn[id] = "live"
            /\ d.queue = c.queue /\ d.req = c.req
            /\ d.status = "ESTABLISHED" => c.status = "ESTABLISHED" /\ d.active = c.active
<1> DEFINE r == [c EXCEPT !.refcnt = c.refcnt + 1]
           q == request_connection(c, l)
           d == create_connection(c, id, l)
<1>1. c \in ConmanRecords /\ c.refcnt \in Nat
  BY DEF ConmanRecords
<1>2. r \in ConmanRecords /\ r.refcnt = c.refcnt + 1
  BY <1>1 DEF ConmanRecords
<1>3. q = IF r.refcnt > 1 /\ r.target >= l THEN r
          ELSE ubmodem_request_level([r EXCEPT !.status = "ESTABLISHING"], l)
  BY DEF request_connection
<1>4. q \in ConmanRecords /\ q.conn = c.conn /\ q.refcnt = c.refcnt + 1
      /\ q.req = c.req /\ q.smsid = c.smsid /\ Keeps(c, q)
  <2>1. r.conn = c.conn /\ r.req = c.req /\ r.smsid = c.smsid /\ Keeps(c, r)
    BY <1>1 DEF ConmanRecords, Keeps
  <2> DEFINE e == ubmodem_request_level([r EXCEPT !.status = "ESTABLISHING"], l)
  <2> HIDE DEF r
  <2>2. l \in Levels
    BY LevelFacts
  <2>3. e \in ConmanRecords
    BY <1>2, <2>2 DEF ConmanRecords, ubmodem_request_level, Statuses
  <2>4. e.conn = r.conn /\ e.refcnt = r.refcnt /\ e.req = r.req /\ e.smsid = r.smsid
        /\ e.infos = r.infos /\ e.sms = r.sms
    BY <1>2 DEF ConmanRecords, ubmodem_request_level
  <2> HIDE DEF e, q
  <2>5. q = r \/ q = e
    BY <1>3 DEF e
  <2> QED
    BY <1>2, <2>1, <2>3, <2>4, <2>5 DEF Keeps
<1>5. d = [q EXCEPT !.conn[id] = "live"]
  BY DEF create_connection
<1>6. /\ q.queue = c.queue
      /\ q.status = "ESTABLISHED" => q.active = c.active /\ c.status = "ESTABLISHED"
  BY <1>1, <1>3 DEF ConmanRecords, ubmodem_request_level
<1>7. Asks(c, q) /\ q.target \in {c.target, l}
  BY <1>1, <1>3, LevelFacts DEF ConmanRecords, ubmodem_request_level, Asks
<1> HIDE DEF q, r
<1>8. d \in ConmanRecords /\ d.conn = [c.conn EXCEPT ![id] = "live"]
  BY <1>4, <1>5 DEF ConmanRecords
<1>9. /\ d.refcnt = q.refcnt /\ d.req = q.req /\ d.smsid = q.smsid /\ d.sms = q.sms
      /\ d.infos = q.infos /\ d.target = q.target /\ d.ask = q.ask
      /\ d.status = q.status /\ d.active = q.active /\ d.queue = q.queue
  BY <1>4, <1>5 DEF ConmanRecords
<1> HIDE DEF d
<1>10. d.conn[id] = "live" /\ \A i \in ConnIds : i # id => d.conn[i] = c.conn[i]
  BY <1>1, <1>8 DEF ConmanRecords
<1>11. Counted(d)
  <2>1. Cardinality(Live(d)) = Cardinality(Live(c)) + 1
    BY <1>10, LiveMore
  <2> QED
    BY <1>1, <1>4, <1>7, <1>9, <2>1 DEF Counted
<1>12. SmsConn(d)
  BY <1>4, <1>9, <1>10 DEF SmsConn
<1>13. Keeps(c, d)
  BY <1>4, <1>9 DEF Keeps
<1>14. Asks(c, d)
  BY <1>7, <1>9 DEF Asks
<1> QED
  BY <1>4, <1>6, <1>8, <1>9, <1>10, <1>11, <1>12, <1>13, <1>14 DEF d

(* The common part of both ways to destroy a connection.                   *)
LEMMA LeaveGood ==
  ASSUME NEW c, Good(c), NEW id \in ConnIds, c.conn[id] = "live",
         NEW mark \in {"none", "destroyed"}, mark = "none" => ~c.req \/ c.smsid # id
  PROVE  LET d == release_connection([c EXCEPT !.conn[id] = mark])
         IN Good(d) /\ Asks(c, d) /\ Keeps(c, d)
<1> DEFINE r == [c EXCEPT !.conn[id] = mark]
<1>1. c \in ConmanRecords
  BY DEF Good
<1>2. r \in ConmanRecords /\ r.conn = [c.conn EXCEPT ![id] = mark]
  BY <1>1 DEF ConmanRecords
<1>3. /\ r.refcnt = c.refcnt /\ r.req = c.req /\ r.smsid = c.smsid /\ r.sms = c.sms
      /\ r.infos = c.infos /\ r.target = c.target /\ r.ask = c.ask
      /\ r.status = c.status /\ r.active = c.active /\ r.queue = c.queue
  BY <1>1 DEF ConmanRecords
<1> HIDE DEF r
<1>4. r.conn[id] = mark /\ \A i \in ConnIds : i # id => r.conn[i] = c.conn[i]
  BY <1>1, <1>2 DEF ConmanRecords
<1>5. Cardinality(Live(r)) = Cardinality(Live(c)) - 1
  BY <1>4, LiveLess
<1>6. r.refcnt = Cardinality(Live(r)) + 1
  BY <1>3, <1>5, LiveFinite DEF Good, Counted
<1>7. SmsConn(r) /\ SmsSane(r) /\ r.target \in {POWERED_OFF, NETWORK, GPRS}
  BY <1>3, <1>4 DEF SmsConn, SmsSane, Good, Counted
<1>8. LET d == release_connection(r) IN Good(d) /\ Asks(r, d) /\ Keeps(r, d)
  BY <1>2, <1>6, <1>7, ReleaseGood
<1> QED
  BY <1>3, <1>8 DEF Asks, Keeps, r

(* A connection is destroyed by its id, marked before or not.              *)
LEMMA DestroyGood ==
  ASSUME NEW c, Good(c), NEW id \in ConnIds, c.conn[id] # "none", ~c.req \/ c.smsid # id
  PROVE  LET d == destroy_connection(c, id)
         IN Good(d) /\ Asks(c, d) /\ Keeps(c, d)
<1> DEFINE r == [c EXCEPT !.conn[id] = "none"]
<1>1. c \in ConmanRecords /\ c.conn[id] \in {"live", "destroyed"}
  BY DEF Good, ConmanRecords
<1>2. CASE c.conn[id] = "live"
  BY <1>2, LeaveGood DEF destroy_connection
<1>3. CASE c.conn[id] = "destroyed"
  <2>1. destroy_connection(c, id) = r
    BY <1>3 DEF destroy_connection
  <2>2. r \in ConmanRecords /\ r.conn = [c.conn EXCEPT ![id] = "none"]
    BY <1>1 DEF ConmanRecords
  <2>3. /\ r.refcnt = c.refcnt /\ r.req = c.req /\ r.smsid = c.smsid /\ r.sms = c.sms
        /\ r.infos = c.infos /\ r.target = c.target /\ r.ask = c.ask
        /\ r.status = c.status /\ r.active = c.active /\ r.queue = c.queue
    BY <1>1 DEF ConmanRecords
  <2> HIDE DEF r
  <2>4. r.conn[id] = "none" /\ \A i \in ConnIds : i # id => r.conn[i] = c.conn[i]
    BY <1>1, <2>2 DEF ConmanRecords
  <2>5. Live(r) = Live(c)
    BY <1>3, <2>4 DEF Live
  <2>6. Good(r)
    BY <2>2, <2>3, <2>4, <2>5 DEF Good, Counted, SmsConn, SmsSane
  <2> QED
    BY <1>1, <2>1, <2>3, <2>6 DEF Asks, Keeps, ConmanRecords
<1> QED
  BY <1>1, <1>2, <1>3

(* Asking twice: the later request is the one that counts.                 *)
LEMMA AsksTwice ==
  ASSUME NEW c, NEW d, NEW e, Asks(c, d), Asks(d, e)
  PROVE  Asks(c, e)
BY DEF Asks

(* The SMS queue may be worked on when the connection was just made or a   *)
(* message was just sent: only the first part of SmsSane holds before.     *)
LEMMA ProcessGood ==
  ASSUME NEW c \in ConmanRecords, Counted(c), SmsConn(c), c.queue > 0 => c.req,
         NEW l, NEW k \in Nat
  PROVE  LET d == process_sms_queue(c, l, k)
         IN Good(d) /\ Asks(c, d) /\ Keeps(c, d)
<1> DEFINE sent == l >= NETWORK /\ k < c.queue
<1>1. CASE c.status # "ESTABLISHED"
  <2>1. process_sms_queue(c, l, k) = c
    BY <1>1 DEF process_sms_queue
  <2> QED
    BY <1>1, <2>1 DEF Good, SmsSane, Asks, Keeps, ConmanRecords
<1>2. CASE c.status = "ESTABLISHED" /\ sent
  <2> DEFINE d == [c EXCEPT !.queue = c.queue - (k + 1), !.sms = c.sms + 1, !.active = TRUE]
  <2>1. process_sms_queue(c, l, k) = d
    BY <1>2 DEF process_sms_queue
  <2>2. c.queue - (k + 1) \in Nat /\ c.sms + 1 \in Nat /\ c.queue > 0
    BY <1>2 DEF ConmanRecords
  <2>3. /\ d \in ConmanRecords /\ d.conn = c.conn
        /\ d.queue = c.queue - (k + 1) /\ d.sms = c.sms + 1 /\ d.req = c.req
    BY <2>2 DEF ConmanRecords
  <2>4. Counted(d) /\ SmsConn(d)
    BY <2>3 DEF Counted, SmsConn, Live, ConmanRecords
  <2>5. Asks(c, d) /\ Keeps(c, d)
    BY <2>2 DEF Asks, Keeps, ConmanRecords
  <2> HIDE DEF d
  <2>6. SmsSane(d)
    BY <2>2, <2>3 DEF SmsSane, ConmanRecords
  <2> QED
    BY <2>1, <2>3, <2>4, <2>5, <2>6 DEF Good
<1>3. CASE c.status = "ESTABLISHED" /\ ~sent
  <2> DEFINE i == [c EXCEPT !.queue = 0, !.active = FALSE, !.req = FALSE, !.smsid = NoConn]
  <2>1. process_sms_queue(c, l, k) = IF c.req THEN destroy_connection(i, c.smsid) ELSE i
    BY <1>3 DEF process_sms_queue
  <2>2. i \in ConmanRecords /\ i.conn = c.conn /\ ~i.req
    BY DEF ConmanRecords
  <2>3. Counted(i)
    BY <2>2 DEF Counted, Live, ConmanRecords
  <2>4. SmsSane(i) /\ Asks(c, i) /\ Keeps(c, i)
    BY <1>3 DEF SmsSane, Asks, Keeps, ConmanRecords
  <2>5. Good(i)
    BY <2>2, <2>3, <2>4 DEF Good, SmsConn
  <2>6. CASE ~c.req
    BY <2>1, <2>4, <2>5, <2>6
  <2>7. CASE c.req
    <3> HIDE DEF i
    <3>1. c.smsid \in ConnIds /\ i.conn[c.smsid] # "none"
      BY <2>2, <2>7 DEF SmsConn
    <3>2. LET d == destroy_connection(i, c.smsid) IN Good(d) /\ Asks(i, d) /\ Keeps(i, d)
      BY <2>2, <2>5, <3>1, DestroyGood
    <3>3. Keeps(c, destroy_connection(i, c.smsid))
      BY <2>2, <2>4, <2>5, <3>2 DEF Keeps, Good, ConmanRecords
    <3> QED
      BY <2>1, <2>4, <2>7, <3>2, <3>3, AsksTwice
  <2> QED
    BY <2>6, <2>7
<1> QED
  BY <1>1, <1>2, <1>3 DEF ConmanRecords

(* A message is queued, with a connection of its own if there is none yet, *)
(* and sent at once when the connection is up and idle.                    *)
LEMMA SendGood ==
  ASSUME NEW c, Good(c), NEW id, ~c.req => id \in ConnIds /\ c.conn[id] = "none",
         NEW l, NEW k \in Nat
  PROVE  LET d == send_sms(c, id, l, k)
         IN Good(d) /\ Asks(c, d) /\ Keeps(c, d)
<1> DEFINE q == [c EXCEPT !.queue = c.queue + 1]
           n == create_connection(q, id, NETWORK)
           m == [n EXCEPT !.req = TRUE, !.smsid = id]
           r == IF c.req THEN q ELSE m
<1>1. c \in ConmanRecords
  BY DEF Good
<1>2. c.queue + 1 \in Nat
  BY <1>1 DEF ConmanRecords
<1>3. /\ q \in ConmanRecords /\ q.conn = c.conn /\ q.refcnt = c.refcnt
      /\ q.target = c.target /\ q.ask = c.ask /\ q.req = c.req /\ q.smsid = c.smsid
      /\ q.infos = c.infos /\ q.sms = c.sms /\ q.status = c.status /\ q.active = c.active
  BY <1>1, <1>2 DEF ConmanRecords
<1>4. send_sms(c, id, l, k) =
        IF r.status = "ESTABLISHED" /\ ~r.active THEN process_sms_queue(r, l, k) ELSE r
  BY DEF send_sms
<1> HIDE DEF q
<1>5. Counted(q) /\ SmsConn(q) /\ Asks(c, q) /\ Keeps(c, q)
  BY <1>1, <1>3 DEF Counted, SmsConn, Asks, Keeps, Live, Good, ConmanRecords
<1>6. ~c.req =>
      /\ n \in ConmanRecords /\ Counted(n) /\ SmsConn(n) /\ Asks(q, n) /\ Keeps(q, n)
      /\ id \in ConnIds /\ n.conn[id] = "live"
      /\ n.status = "ESTABLISHED" => q.status = "ESTABLISHED" /\ n.active = q.active
  BY <1>3, <1>5, CreateGood
<1> HIDE DEF n
<1>7. ~c.req =>
      /\ m \in ConmanRecords /\ m.conn = n.conn /\ m.refcnt = n.refcnt
      /\ m.target = n.target /\ m.ask = n.ask /\ m.req /\ m.smsid = id
      /\ m.infos = n.infos /\ m.sms = n.sms /\ m.status = n.status /\ m.active = n.active
  BY <1>6 DEF ConmanRecords
<1> HIDE DEF m
<1>8. ~c.req => Counted(m) /\ SmsConn(m) /\ Asks(n, m) /\ Keeps(n, m)
  BY <1>6, <1>7 DEF Counted, SmsConn, Asks, Keeps, Live, ConmanRecords
<1>9. ~c.req => Asks(c, m) /\ Keeps(c, m)
  <2>1. ~c.req => Asks(c, m)
    BY <1>5, <1>6, <1>8, AsksTwice
  <2>2. ~c.req => Keeps(c, m)
    BY <1>1, <1>3, <1>5, <1>6, <1>7 DEF Keeps, ConmanRecords
  <2> QED
    BY <2>1, <2>2
<1>10. /\ r \in ConmanRecords /\ Counted(r) /\ SmsConn(r) /\ Asks(c, r) /\ Keeps(c, r)
       /\ r.req
       /\ r.status = "ESTABLISHED" => c.status = "ESTABLISHED" /\ r.active = c.active
  BY <1>3, <1>5, <1>6, <1>7, <1>8, <1>9
<1> HIDE DEF r
<1>11. CASE r.status = "ESTABLISHED" /\ ~r.active
  <2>1. LET d == process_sms_queue(r, l, k) IN Good(d) /\ Asks(r, d) /\ Keeps(r, d)
    BY <1>10, ProcessGood
  <2>2. Keeps(c, process_sms_queue(r, l, k))
    BY <1>1, <1>10, <2>1 DEF Keeps, Good, ConmanRecords
  <2> QED
    BY <1>4, <1>10, <1>11, <2>1, <2>2, AsksTwice
<1>12. CASE ~(r.status = "ESTABLISHED" /\ ~r.active)
  <2>1. SmsSane(r)
    BY <1>1, <1>10, <1>12 DEF SmsSane, Keeps, Good, ConmanRecords
  <2> QED
    BY <1>4, <1>10, <1>12, <2>1 DEF Good
<1> QED
  BY <1>11, <1>12

(* The manager gives up and powers the modem off.                          *)
LEMMA PowerOffGood ==
  ASSUME NEW c, Good(c)
  PROVE  LET d == power_off(c)
         IN Good(d) /\ Keeps(c, d) /\ d.ask = POWERED_OFF /\ d.target = POWERED_OFF
<1> DEFINE d == power_off(c)
<1>1. c \in ConmanRecords
  BY DEF Good
<1>2. d \in ConmanRecords /\ d.conn = c.conn
  BY <1>1, LevelFacts DEF power_off, ubmodem_request_level, ConmanRecords, Statuses
<1>3. /\ d.refcnt = c.refcnt /\ d.req = c.req /\ d.smsid = c.smsid /\ d.sms = c.sms
      /\ d.infos = c.infos /\ d.target = POWERED_OFF /\ d.ask = POWERED_OFF
      /\ d.status = "DESTROYING" /\ d.queue = c.queue
  BY <1>1 DEF power_off, ubmodem_request_level, ConmanRecords
<1> HIDE DEF d
<1>4. Good(d) /\ Keeps(c, d)
  BY <1>1, <1>2, <1>3 DEF Good, Counted, SmsConn, SmsSane, Live, Keeps, ConmanRecords
<1> QED
  BY <1>3, <1>4 DEF d

(* A failed level.                                                         *)
LEMMA FailedGood ==
  ASSUME NEW c, Good(c)
  PROVE  LET d == event_failed_target_level(c)
         IN Good(d) /\ Keeps(c, d) /\ d.ask = POWERED_OFF /\ d.target = POWERED_OFF
<1>1. c \in ConmanRecords
  BY DEF Good
<1>2. ASSUME NEW e \in {"nothing", "ESTABLISHED", "LOST", "FAILED"}
      PROVE  LET r == [c EXCEPT !.info = FALSE, !.lost = FALSE, !.told = e]
             IN Good(r) /\ Keeps(c, r)
  <2> DEFINE r == [c EXCEPT !.info = FALSE, !.lost = FALSE, !.told = e]
  <2>1. /\ r \in ConmanRecords /\ r.conn = c.conn /\ r.refcnt = c.refcnt
        /\ r.req = c.req /\ r.smsid = c.smsid /\ r.sms = c.sms /\ r.infos = c.infos
        /\ r.target = c.target /\ r.status = c.status /\ r.active = c.active
        /\ r.queue = c.queue
    BY <1>1 DEF ConmanRecords
  <2> HIDE DEF r
  <2>2. Good(r) /\ Keeps(c, r)
    BY <1>1, <2>1 DEF Good, Counted, SmsConn, SmsSane, Live, Keeps, ConmanRecords
  <2> QED
    BY <2>2 DEF r
<1>3. PICK e \in {"nothing", "ESTABLISHED", "LOST", "FAILED"} :
        event_failed_target_level(c)
          = power_off([c EXCEPT !.info = FALSE, !.lost = FALSE, !.told = e])
  BY <1>1 DEF event_failed_target_level, ConmanRecords
<1>4. LET r == [c EXCEPT !.info = FALSE, !.lost = FALSE, !.told = e]
          d == power_off(r)
      IN Good(d) /\ Keeps(r, d) /\ d.ask = POWERED_OFF /\ d.target = POWERED_OFF
  BY <1>2, PowerOffGood
<1> QED
  BY <1>1, <1>2, <1>3, <1>4 DEF Keeps, Good, ConmanRecords

(* The connection is up: the SMS queue is worked on.                       *)
LEMMA EstablishedGood ==
  ASSUME NEW c \in ConmanRecords, Counted(c), SmsConn(c), c.queue > 0 => c.req,
         NEW l, NEW k \in Nat
  PROVE  LET d == established(c, l, k)
         IN Good(d) /\ Asks(c, d) /\ Keeps(c, d)
<1> DEFINE r == [c EXCEPT !.lost = FALSE, !.status = "ESTABLISHED"]
<1>1. /\ r \in ConmanRecords /\ r.conn = c.conn /\ r.refcnt = c.refcnt
      /\ r.req = c.req /\ r.smsid = c.smsid /\ r.sms = c.sms /\ r.infos = c.infos
      /\ r.target = c.target /\ r.ask = c.ask /\ r.queue = c.queue
  BY DEF ConmanRecords, Statuses
<1>2. established(c, l, k) = process_sms_queue(r, l, k)
  BY DEF established
<1> HIDE DEF r
<1>3. Counted(r) /\ SmsConn(r)
  BY <1>1 DEF Counted, SmsConn, Live
<1>4. LET d == process_sms_queue(r, l, k) IN Good(d) /\ Asks(r, d) /\ Keeps(r, d)
  BY <1>1, <1>3, ProcessGood
<1> QED
  BY <1>1, <1>2, <1>4 DEF Asks, Keeps

(* One of the infos is here, or is not to be had.                          *)
LEMMA InfoGood ==
  ASSUME NEW c, Good(c), c.infos > 0, NEW l, NEW k \in Nat
  PROVE  LET d == ubmodem_info_callback(c, l, k)
         IN Good(d) /\ Asks(c, d)
<1> DEFINE r == [c EXCEPT !.infos = c.infos - 1]
           e == established(r, l, k)
           t == [e EXCEPT !.told = "ESTABLISHED"]
<1>1. c \in ConmanRecords
  BY DEF Good
<1>2. c.infos - 1 \in 0 .. NumInfos
  BY <1>1, ConmanAssumption DEF ConmanRecords
<1>3. /\ r \in ConmanRecords /\ r.conn = c.conn /\ r.refcnt = c.refcnt
      /\ r.req = c.req /\ r.smsid = c.smsid /\ r.sms = c.sms
      /\ r.target = c.target /\ r.ask = c.ask /\ r.status = c.status
      /\ r.active = c.active /\ r.queue = c.queue
  BY <1>1, <1>2 DEF ConmanRecords
<1>4. ubmodem_info_callback(c, l, k) = IF r.infos > 0 THEN r ELSE t
  BY DEF ubmodem_info_callback
<1> HIDE DEF r
<1>5. Good(r) /\ Asks(c, r)
  BY <1>3 DEF Good, Counted, SmsConn, SmsSane, Live, Asks
<1>6. Good(e) /\ Asks(r, e)
  BY <1>3, <1>5, EstablishedGood DEF Good, SmsSane
<1> HIDE DEF e
<1>7. /\ t \in ConmanRecords /\ t.conn = e.conn /\ t.refcnt = e.refcnt
      /\ t.req = e.req /\ t.smsid = e.smsid /\ t.sms = e.sms
      /\ t.target = e.target /\ t.ask = e.ask /\ t.status = e.status
      /\ t.active = e.active /\ t.queue = e.queue
  BY <1>6 DEF Good, ConmanRecords
<1> HIDE DEF t
<1>8. Good(t) /\ Asks(e, t)
  BY <1>6, <1>7 DEF Good, Counted, SmsConn, SmsSane, Live, Asks
<1>9. Asks(c, t)
  BY <1>5, <1>6, <1>8, AsksTwice
<1> QED
  BY <1>4, <1>5, <1>8, <1>9

(* A change that touches none of what Good speaks of.                      *)
LEMMA SameGood ==
  ASSUME NEW c, Good(c), NEW r \in ConmanRecords, r.conn = c.conn, r.refcnt = c.refcnt,
         r.req = c.req, r.smsid = c.smsid, r.sms = c.sms, r.target = c.target,
         r.ask = c.ask, r.active = c.active, r.queue = c.queue,
         r.status \in {c.status, "OFF", "ESTABLISHING"}
  PROVE  Good(r) /\ Asks(c, r)
BY DEF Good, Counted, SmsConn, SmsSane, Live, Asks

(* The level the manager is after is reached.                              *)
LEMMA TargetGood ==
  ASSUME NEW c, Good(c), NEW l, l = c.target, NEW k \in Nat
  PROVE  LET d == event_target_level(c, l, k)
         IN Good(d) /\ Asks(c, d)
<1> DEFINE w == ~c.info /\ c.status # "DESTROYING" /\ l # POWERED_OFF
           n == [c EXCEPT !.info = TRUE, !.infos = NumInfos]
           r == IF w THEN n ELSE c
           x == [r EXCEPT !.lost = FALSE]
           o == [r EXCEPT !.lost = FALSE, !.status = "OFF", !.info = FALSE]
           y == [r EXCEPT !.status = "ESTABLISHING"]
           d == event_target_level(c, l, k)
<1>1. c \in ConmanRecords /\ c.status \in Statuses
  BY DEF Good, ConmanRecords
<1>2. /\ r \in ConmanRecords /\ r.conn = c.conn /\ r.refcnt = c.refcnt
      /\ r.req = c.req /\ r.smsid = c.smsid /\ r.sms = c.sms
      /\ r.target = c.target /\ r.ask = c.ask /\ r.status = c.status
      /\ r.active = c.active /\ r.queue = c.queue
  <2>1. NumInfos \in 0 .. NumInfos
    BY ConmanAssumption
  <2>2. /\ n \in ConmanRecords /\ n.conn = c.conn /\ n.refcnt = c.refcnt
        /\ n.req = c.req /\ n.smsid = c.smsid /\ n.sms = c.sms
        /\ n.target = c.target /\ n.ask = c.ask /\ n.status = c.status
        /\ n.active = c.active /\ n.queue = c.queue
    BY <1>1, <2>1 DEF ConmanRecords
  <2> QED
    BY <1>1, <2>2
<1>3. \/ c.status \in {"OFF", "DESTROYING"} /\ l # POWERED_OFF /\ d = power_off(x)
      \/ c.status \in {"OFF", "DESTROYING"} /\ l = POWERED_OFF /\ d = o
      \/ c.status \in {"ESTABLISHED", "ESTABLISHING"} /\ d \in {y, established(r, l, k)}
  BY <1>1 DEF event_target_level, Statuses
<1> HIDE DEF r, d
<1>4. Good(r) /\ Asks(c, r)
  BY <1>2, SameGood
<1>5. CASE d = power_off(x)
  <2>1. Good(x)
    <3>1. /\ x \in ConmanRecords /\ x.conn = r.conn /\ x.refcnt = r.refcnt
          /\ x.req = r.req /\ x.smsid = r.smsid /\ x.sms = r.sms
          /\ x.target = r.target /\ x.ask = r.ask /\ x.status = r.status
          /\ x.active = r.active /\ x.queue = r.queue
      BY <1>2 DEF ConmanRecords
    <3> HIDE DEF x
    <3> QED
      BY <1>4, <3>1, SameGood
  <2> QED
    BY <1>5, <2>1, PowerOffGood, LevelFacts DEF Asks, d
<1>6. CASE d = o
  <2>1. /\ o \in ConmanRecords /\ o.conn = r.conn /\ o.refcnt = r.refcnt
        /\ o.req = r.req /\ o.smsid = r.smsid /\ o.sms = r.sms
        /\ o.target = r.target /\ o.ask = r.ask /\ o.status = "OFF"
        /\ o.active = r.active /\ o.queue = r.queue
    BY <1>2 DEF ConmanRecords, Statuses
  <2> HIDE DEF o
  <2>2. Good(o) /\ Asks(r, o)
    BY <1>4, <2>1, SameGood
  <2> QED
    BY <1>4, <1>6, <2>2, AsksTwice DEF d
<1>7. CASE d = y
  <2>1. /\ y \in ConmanRecords /\ y.conn = r.conn /\ y.refcnt = r.refcnt
        /\ y.req = r.req /\ y.smsid = r.smsid /\ y.sms = r.sms
        /\ y.target = r.target /\ y.ask = r.ask /\ y.status = "ESTABLISHING"
        /\ y.active = r.active /\ y.queue = r.queue
    BY <1>2 DEF ConmanRecords, Statuses
  <2> HIDE DEF y
  <2>2. Good(y) /\ Asks(r, y)
    BY <1>4, <2>1, SameGood
  <2> QED
    BY <1>4, <1>7, <2>2, AsksTwice DEF d
<1>8. CASE d = established(r, l, k)
  <2>1. Good(established(r, l, k)) /\ Asks(r, established(r, l, k))
    BY <1>2, <1>4, EstablishedGood DEF Good, SmsSane
  <2> QED
    BY <1>4, <1>8, <2>1, AsksTwice DEF d
<1> QED
  BY <1>3, <1>5, <1>6, <1>7, <1>8

-----------------------------------------------------------------------------
(* The steps.                                                              *)

(* What was asked for is cleared when the callback is over.                *)
LEMMA ClearGood ==
  ASSUME NEW c, Good(c)
  PROVE  LET d == [c EXCEPT !.ask = LEVEL_MAX]
         IN /\ Good(d) /\ d.ask = LEVEL_MAX /\ d.target = c.target
            /\ d.infos = c.infos /\ d.sms = c.sms
<1> DEFINE d == [c EXCEPT !.ask = LEVEL_MAX]
<1>1. /\ d \in ConmanRecords /\ d.conn = c.conn /\ d.refcnt = c.refcnt
      /\ d.req = c.req /\ d.smsid = c.smsid /\ d.sms = c.sms
      /\ d.target = c.target /\ d.ask = LEVEL_MAX /\ d.status = c.status
      /\ d.active = c.active /\ d.queue = c.queue /\ d.infos = c.infos
  BY DEF Good, ConmanRecords
<1> HIDE DEF d
<1>2. Good(d)
  BY <1>1 DEF Good, Counted, SmsConn, SmsSane, Live
<1> QED
  BY <1>1, <1>2 DEF d

(* A request leaves the modem's state well typed, and the target asked for.*)
LEMMA RequestTypes ==
  ASSUME LevelTypeOK, NEW l \in Levels, RequestLevel(l)
  PROVE  LevelTypeOK' /\ target' = l
BY LevelFacts DEF LevelTypeOK, RequestLevel

(* A callback or a client's message that leaves the manager as c.          *)
LEMMA DoesGood ==
  ASSUME Inv, NEW c, Good(c), Asks(conman, c), Does(c)
  PROVE  /\ LevelTypeOK' /\ kick' \in BOOLEAN /\ Good(conman') /\ conman'.ask = LEVEL_MAX
         /\ conman'.target = target' /\ conman'.infos = c.infos /\ conman'.sms = c.sms
         /\ [LevelNext]_levelVars
<1>1. conman' = [c EXCEPT !.ask = LEVEL_MAX]
  BY DEF Does
<1>2. /\ Good(conman') /\ conman'.ask = LEVEL_MAX /\ conman'.target = c.target
      /\ conman'.infos = c.infos /\ conman'.sms = c.sms
  BY <1>1, ClearGood
<1>3. CASE c.ask = LEVEL_MAX
  <2>1. c.target = conman.target
    BY <1>3 DEF Asks, Inv
  <2>2. UNCHANGED <<levelVars, kick>>
    BY <1>3 DEF Does
  <2> QED
    BY <1>2, <2>1, <2>2 DEF Inv, TypeOK, LevelTypeOK, levelVars
<1>4. CASE c.ask # LEVEL_MAX
  <2>1. c.ask = c.target /\ c.ask \in Levels
    BY <1>4 DEF Asks, Inv, Good, ConmanRecords
  <2>2. RequestLevel(c.ask) /\ kick' = (kick \/ doing' = "nothing")
    BY <1>4 DEF Does
  <2>3. LevelTypeOK' /\ target' = c.ask
    BY <2>1, <2>2, RequestTypes DEF Inv, TypeOK
  <2>4. kick' \in BOOLEAN
    BY <2>2
  <2>5. LevelNext
    BY <2>1, <2>2, ConmanAssumption DEF LevelNext, Good, Counted
  <2> QED
    BY <1>2, <2>1, <2>3, <2>4, <2>5
<1> QED
  BY <1>3, <1>4

(* Reaching a level, and failing to.                                       *)
LEMMA ReachTypes ==
  ASSUME LevelTypeOK, NEW l \in Levels, NEW a \in Levels \cup {LEVEL_MAX}, Reach(l, a)
  PROVE  LevelTypeOK'
BY LevelFacts DEF LevelTypeOK, Reach, Told

LEMMA FailTypes ==
  ASSUME LevelTypeOK, NEW mark, NEW a \in Levels \cup {LEVEL_MAX}, Fail(mark, a)
  PROVE  LevelTypeOK'
BY LevelFacts DEF LevelTypeOK, Fail, Told

(* The steps of the modem that the manager does not notice.                *)
LEMMA QuietSteps ==
  ASSUME Inv,
         \/ ModemStart \/ ModemRests \/ WorkEnds
         \/ \E j \in {"info", "sms", "other"} : ModemWork(j)
  PROVE  Inv' /\ [LevelNext]_levelVars
<1>1. conman' = conman /\ target' = target
  BY DEF ModemStart, ModemRests, WorkEnds, ModemWork, Start, StartWork, EndWork, levelVars
<1>2. job' \in Jobs /\ kick' \in BOOLEAN
  BY DEF Inv, TypeOK, Jobs, ModemStart, ModemRests, WorkEnds, ModemWork
<1>3. (job' = "info" => conman.infos > 0) /\ (job' = "sms" => conman.sms > 0)
  BY DEF Inv, ModemStart, ModemRests, WorkEnds, ModemWork
<1>4. LevelTypeOK'
  <2>1. LevelTypeOK
    BY DEF Inv, TypeOK
  <2>2. CASE ModemStart
    <3>1. Move(level, Goal) \in Moves
      BY DEF Move, Moves
    <3> QED
      BY <2>1, <2>2, <3>1 DEF LevelTypeOK, ModemStart, Start
  <2>3. CASE ModemRests
    BY <2>1, <2>3 DEF LevelTypeOK, ModemRests, levelVars
  <2>4. CASE WorkEnds
    BY <2>1, <2>4, LevelFacts DEF LevelTypeOK, WorkEnds, EndWork
  <2>5. CASE \E j \in {"info", "sms", "other"} : ModemWork(j)
    BY <2>1, <2>5 DEF LevelTypeOK, ModemWork, StartWork
  <2> QED
    BY <2>2, <2>3, <2>4, <2>5
<1>5. Good(conman')
  BY <1>1 DEF Inv
<1>6. [LevelNext]_levelVars
  BY DEF LevelNext, Finish, ModemStart, ModemRests, WorkEnds, ModemWork
<1> QED
  BY <1>1, <1>2, <1>3, <1>4, <1>5, <1>6 DEF Inv, TypeOK, Good

LEMMA RefusedNat == Refused \subseteq Nat
BY ConmanAssumption DEF Refused

(* The modem's callbacks: an info, a message sent.                         *)
LEMMA CallbackSteps ==
  ASSUME Inv, NEW k \in Refused, (\E ok \in BOOLEAN : InfoCallback(ok, k)) \/ SmsCallback(k)
  PROVE  Inv' /\ [LevelNext]_levelVars
<1>1. Good(conman) /\ conman \in ConmanRecords
  BY DEF Inv, Good
<1>2. CASE \E ok \in BOOLEAN : InfoCallback(ok, k)
  <2> DEFINE d == ubmodem_info_callback(conman, level, k)
  <2>1. conman.infos > 0 /\ Does(d) /\ job' \in {"ending", "failing"}
    BY <1>2 DEF InfoCallback, Inv
  <2>2. Good(d) /\ Asks(conman, d)
    BY <1>1, <2>1, RefusedNat, InfoGood
  <2>3. /\ LevelTypeOK' /\ kick' \in BOOLEAN /\ Good(conman') /\ conman'.ask = LEVEL_MAX
        /\ conman'.target = target' /\ [LevelNext]_levelVars
    BY <2>1, <2>2, DoesGood
  <2> QED
    BY <2>1, <2>3 DEF Inv, TypeOK, Good, Jobs
<1>3. CASE SmsCallback(k)
  <2> DEFINE c == [conman EXCEPT !.sms = conman.sms - 1]
             d == process_sms_queue(c, level, k)
  <2>1. conman.sms > 0 /\ Does(d) /\ job' = "ending"
    BY <1>3 DEF SmsCallback, Inv
  <2>2. conman.sms - 1 \in Nat
    BY <1>1, <2>1 DEF ConmanRecords
  <2>3. /\ c \in ConmanRecords /\ c.conn = conman.conn /\ c.refcnt = conman.refcnt
        /\ c.req = conman.req /\ c.smsid = conman.smsid
        /\ c.target = conman.target /\ c.ask = conman.ask /\ c.queue = conman.queue
    BY <1>1, <2>2 DEF ConmanRecords
  <2> HIDE DEF c
  <2>4. Counted(c) /\ SmsConn(c) /\ (c.queue > 0 => c.req)
    BY <1>1, <2>3 DEF Good, Counted, SmsConn, SmsSane, Live
  <2>5. Good(d) /\ Asks(c, d)
    BY <2>3, <2>4, RefusedNat, ProcessGood
  <2>6. Asks(conman, d)
    BY <2>3, <2>5 DEF Asks
  <2>7. /\ LevelTypeOK' /\ kick' \in BOOLEAN /\ Good(conman') /\ conman'.ask = LEVEL_MAX
        /\ conman'.target = target' /\ [LevelNext]_levelVars
    BY <2>1, <2>5, <2>6, DoesGood
  <2> QED
    BY <2>1, <2>7 DEF Inv, TypeOK, Good, Jobs
<1> QED
  BY <1>2, <1>3

(* The modem's events: a level reached, a level failed.                    *)
LEMMA EventSteps ==
  ASSUME Inv,
         \/ \E l \in Levels, k \in Refused : LevelReached(l, k)
         \/ \E mark \in BOOLEAN : LevelFailed(mark)
  PROVE  Inv' /\ [LevelNext]_levelVars
<1>1. Good(conman) /\ conman.ask = LEVEL_MAX /\ conman.target = target /\ LevelTypeOK
  BY DEF Inv, TypeOK
<1>2. CASE \E l \in Levels, k \in Refused : LevelReached(l, k)
  <2>1. PICK l \in Levels, k \in Refused : LevelReached(l, k)
    BY <1>2
  <2> DEFINE c == IF l = target THEN event_target_level(conman, l, k) ELSE conman
  <2>2. job = "none" /\ Reach(l, c.ask) /\ Answers(c) /\ UNCHANGED <<job, kick>>
    BY <2>1 DEF LevelReached
  <2>3. Good(c) /\ Asks(conman, c) /\ (l # target => c = conman)
    BY <1>1, RefusedNat, TargetGood DEF Asks
  <2> HIDE DEF c
  <2>4. c.ask \in Levels \cup {LEVEL_MAX}
    BY <2>3 DEF Good, ConmanRecords
  <2>5. LevelTypeOK'
    BY <1>1, <2>2, <2>4, ReachTypes
  <2>6. Good(conman') /\ conman'.ask = LEVEL_MAX /\ conman'.target = c.target
    BY <2>2, <2>3, ClearGood DEF Answers
  <2>7. target' = c.target
    BY <1>1, <2>2, <2>3 DEF Reach, Told, Asks
  <2>8. LevelNext
    <3>1. c.ask \in Answered
      BY <1>1, <2>3, ConmanAssumption DEF Asks, Good, Counted
    <3> QED
      BY <2>2, <3>1 DEF LevelNext, Finish
  <2> QED
    BY <2>2, <2>5, <2>6, <2>7, <2>8 DEF Inv, TypeOK, Good, Jobs
<1>3. CASE \E mark \in BOOLEAN : LevelFailed(mark)
  <2>1. PICK mark \in BOOLEAN : LevelFailed(mark)
    BY <1>3
  <2> DEFINE c == IF target = POWERED_OFF THEN conman ELSE event_failed_target_level(conman)
  <2>2. Fail(mark, c.ask) /\ Answers(c) /\ job' = "none" /\ kick' = (kick \/ c.ask # LEVEL_MAX)
    BY <2>1 DEF LevelFailed
  <2>3. /\ Good(c)
        /\ target = POWERED_OFF => c = conman
        /\ target # POWERED_OFF => c.ask = POWERED_OFF /\ c.target = POWERED_OFF
    BY <1>1, FailedGood
  <2> HIDE DEF c
  <2>4. c.ask \in Levels \cup {LEVEL_MAX}
    BY <2>3 DEF Good, ConmanRecords
  <2>5. LevelTypeOK'
    BY <1>1, <2>2, <2>4, FailTypes
  <2>6. Good(conman') /\ conman'.ask = LEVEL_MAX /\ conman'.target = c.target
    BY <2>2, <2>3, ClearGood DEF Answers
  <2>7. target' = c.target
    BY <1>1, <2>2, <2>3, LevelFacts DEF Fail, Told
  <2>8. kick' \in BOOLEAN
    BY <2>2
  <2>9. LevelNext
    <3>1. c.ask \in Answered
      BY <1>1, <2>3, ConmanAssumption
    <3> QED
      BY <2>2, <3>1 DEF LevelNext, Finish
  <2> QED
    BY <2>2, <2>5, <2>6, <2>7, <2>8, <2>9 DEF Inv, TypeOK, Good, Jobs
<1> QED
  BY <1>2, <1>3

(* A client's message that leaves the manager as c.                        *)
LEMMA ClientStep ==
  ASSUME Inv, NEW c, Good(c), Asks(conman, c), Keeps(conman, c), Does(c), UNCHANGED job
  PROVE  Inv' /\ [LevelNext]_levelVars
<1>1. /\ LevelTypeOK' /\ kick' \in BOOLEAN /\ Good(conman') /\ conman'.ask = LEVEL_MAX
      /\ conman'.target = target' /\ conman'.infos = c.infos /\ conman'.sms = c.sms
      /\ [LevelNext]_levelVars
  BY DoesGood
<1>2. conman'.infos = conman.infos /\ conman'.sms >= conman.sms
  BY <1>1 DEF Keeps
<1>3. conman.sms \in Nat /\ conman'.sms \in Nat
  BY <1>1 DEF Inv, Good, ConmanRecords
<1> QED
  BY <1>1, <1>2, <1>3 DEF Inv, TypeOK, Good

(* The walk over the connections starts, and ends.                         *)
LEMMA WalkGood ==
  ASSUME NEW c, Good(c), NEW w \in BOOLEAN
  PROVE  LET d == [c EXCEPT !.walk = w]
         IN /\ Good(d) /\ Asks(c, d) /\ Keeps(c, d) /\ d.ask = c.ask
            /\ d.target = c.target /\ d.infos = c.infos /\ d.sms = c.sms
<1> DEFINE d == [c EXCEPT !.walk = w]
<1>1. /\ d \in ConmanRecords /\ d.conn = c.conn /\ d.refcnt = c.refcnt
      /\ d.req = c.req /\ d.smsid = c.smsid /\ d.sms = c.sms
      /\ d.target = c.target /\ d.ask = c.ask /\ d.status = c.status
      /\ d.active = c.active /\ d.queue = c.queue /\ d.infos = c.infos
  BY DEF Good, ConmanRecords
<1>2. c.sms \in Nat
  BY DEF Good, ConmanRecords
<1> HIDE DEF d
<1>3. Good(d) /\ Asks(c, d)
  BY <1>1, SameGood
<1> QED
  BY <1>1, <1>2, <1>3 DEF Keeps, d

(* The clients' messages.                                                  *)
LEMMA ClientSteps ==
  ASSUME Inv,
         \/ \E l \in {NETWORK, GPRS} : Create(l)
         \/ \E id \in ConnIds : Destroy(id)
         \/ DestroyAll \/ DestroyNext
         \/ \E k \in Refused : SendSms(k)
  PROVE  Inv' /\ [LevelNext]_levelVars
<1>1. Good(conman) /\ conman \in ConmanRecords
  BY DEF Inv, Good
<1>2. CASE \E l \in {NETWORK, GPRS} : Create(l)
  <2>1. PICK l \in {NETWORK, GPRS} : Create(l)
    BY <1>2
  <2>2. PICK id \in FreeIds : Does(create_connection(conman, id, l)) /\ UNCHANGED job
    BY <2>1 DEF Create
  <2> DEFINE d == create_connection(conman, id, l)
  <2>3. id \in ConnIds /\ conman.conn[id] = "none"
    BY <2>2 DEF FreeIds
  <2>4. /\ d \in ConmanRecords /\ Counted(d) /\ SmsConn(d) /\ Asks(conman, d)
        /\ Keeps(conman, d) /\ d.queue = conman.queue /\ d.req = conman.req
        /\ d.status = "ESTABLISHED" => conman.status = "ESTABLISHED"
                                       /\ d.active = conman.active
    BY <1>1, <2>3, CreateGood DEF Good
  <2> HIDE DEF d
  <2>5. SmsSane(d)
    BY <1>1, <2>4 DEF SmsSane, Good, Keeps, ConmanRecords
  <2> QED
    BY <2>2, <2>4, <2>5, ClientStep DEF Good, d
<1>3. CASE \E id \in ConnIds : Destroy(id)
  <2>1. PICK id \in ConnIds : Destroy(id)
    BY <1>3
  <2>2. /\ conman.conn[id] # "none" /\ id # conman.smsid
        /\ Does(destroy_connection(conman, id)) /\ UNCHANGED job
    BY <2>1 DEF Destroy
  <2> QED
    BY <1>1, <2>2, DestroyGood, ClientStep
<1>4. CASE DestroyAll
  <2>1. conman' = [conman EXCEPT !.walk = TRUE] /\ UNCHANGED <<levelVars, job, kick>>
    BY <1>4 DEF DestroyAll
  <2>2. /\ Good(conman') /\ conman'.ask = conman.ask /\ conman'.target = conman.target
        /\ conman'.infos = conman.infos /\ conman'.sms = conman.sms
    BY <1>1, <2>1, WalkGood
  <2>3. LevelTypeOK'
    BY <2>1 DEF Inv, TypeOK, LevelTypeOK, levelVars
  <2> QED
    BY <2>1, <2>2, <2>3 DEF Inv, TypeOK, Good, levelVars
<1>5. CASE DestroyNext
  <2>1. CASE LiveIds = {}
    <3>1. Does([conman EXCEPT !.walk = FALSE]) /\ UNCHANGED job
      BY <1>5, <2>1 DEF DestroyNext
    <3> QED
      BY <1>1, <3>1, WalkGood, ClientStep
  <2>2. CASE LiveIds # {}
    <3>1. PICK id \in LiveIds : Does(destroy_marked(conman, id)) /\ UNCHANGED job
      BY <1>5, <2>2 DEF DestroyNext
    <3>2. id \in ConnIds /\ conman.conn[id] = "live"
      BY <3>1 DEF LiveIds
    <3>3. LET d == destroy_marked(conman, id)
          IN Good(d) /\ Asks(conman, d) /\ Keeps(conman, d)
      BY <1>1, <3>2, LeaveGood DEF destroy_marked
    <3> QED
      BY <3>1, <3>3, ClientStep
  <2> QED
    BY <2>1, <2>2
<1>6. CASE \E k \in Refused : SendSms(k)
  <2>1. PICK k \in Refused : SendSms(k)
    BY <1>6
  <2>2. PICK id \in (IF conman.req THEN {NoConn} ELSE FreeIds) :
          Does(send_sms(conman, id, level, k))
    BY <2>1 DEF SendSms
  <2>3. UNCHANGED job
    BY <2>1 DEF SendSms
  <2>4. ~conman.req => id \in ConnIds /\ conman.conn[id] = "none"
    BY <2>2 DEF FreeIds
  <2> DEFINE d == send_sms(conman, id, level, k)
  <2>5. Good(d) /\ Asks(conman, d) /\ Keeps(conman, d)
    BY <1>1, <2>4, RefusedNat, SendGood
  <2> HIDE DEF d
  <2> QED
    BY <2>2, <2>3, <2>5, ClientStep DEF d
<1> QED
  BY <1>2, <1>3, <1>4, <1>5, <1>6

(* The invariant holds at the start.                                       *)
LEMMA InvInit == Init => Inv
<1> SUFFICES ASSUME Init PROVE Inv
  OBVIOUS
<1>1. /\ conman.status = "OFF" /\ conman.target = POWERED_OFF /\ conman.refcnt = 0
      /\ conman.ask = LEVEL_MAX /\ ~conman.req /\ conman.infos = 0 /\ conman.sms = 0
      /\ conman.queue = 0
      /\ conman.conn = [i \in ConnIds |-> "none"]
  BY DEF Init
<1>2. conman \in ConmanRecords
  BY LevelFacts, ConmanAssumption DEF Init, ConmanRecords, Statuses
<1>3. Live(conman) = {}
  BY <1>1 DEF Live
<1>4. Counted(conman)
  BY <1>1, <1>3, FS_EmptySet DEF Counted
<1>5. Good(conman)
  BY <1>1, <1>2, <1>4 DEF Good, SmsConn, SmsSane
<1>6. LevelTypeOK /\ target = POWERED_OFF
  BY LevelFacts DEF Init, LevelInit, LevelTypeOK, POWERED_ON
<1> QED
  BY <1>1, <1>2, <1>5, <1>6 DEF Init, Inv, TypeOK, Jobs

(* Every step keeps it, and is a step of the modem's promise.              *)
LEMMA InvStep == Inv /\ [Next]_vars => Inv' /\ [LevelNext]_levelVars
<1> SUFFICES ASSUME Inv, [Next]_vars PROVE Inv' /\ [LevelNext]_levelVars
  OBVIOUS
<1>1. CASE UNCHANGED vars
  BY <1>1 DEF vars, levelVars, Inv, TypeOK, LevelTypeOK, Good, Counted, SmsConn, SmsSane, Live
<1>2. CASE Next
  BY <1>2, QuietSteps, CallbackSteps, EventSteps, ClientSteps DEF Next
<1> QED
  BY <1>1, <1>2

(* The invariant and the properties it gives hold in every state.          *)
LEMMA InvAlways == Spec => []Inv
BY InvInit, InvStep, PTL DEF Spec

-----------------------------------------------------------------------------
(* The results.                                                            *)

(* The manager keeps its type; its reference count and its counts of       *)
(* infos and messages never fall below zero.                               *)
THEOREM TypeCorrect == Spec => []TypeOK
<1>1. Inv => TypeOK
  BY DEF Inv
<1> QED
  BY <1>1, InvAlways, PTL

(* The reference count is the number of connections nobody has destroyed.  *)
THEOREM RefcntCorrect == Spec => []RefcntCounts
<1>1. Inv => RefcntCounts
  BY DEF Inv, Good, Counted, RefcntCounts, Live, LiveIds
<1> QED
  BY <1>1, InvAlways, PTL

(* Without a connection the manager is after POWERED_OFF.                  *)
THEOREM OffWhenUnusedCorrect == Spec => []OffWhenUnused
<1>1. Inv => OffWhenUnused
  BY DEF Inv, Good, Counted, OffWhenUnused
<1> QED
  BY <1>1, InvAlways, PTL

(* The manager and the modem library agree on the level asked for.         *)
THEOREM TargetsCorrect == Spec => []TargetsAgree
<1>1. Inv => TargetsAgree
  BY DEF Inv, TargetsAgree
<1> QED
  BY <1>1, InvAlways, PTL

(* A queued message has a connection asked for it and, while that is up,   *)
(* one before it under way: also when the modem library refuses messages,  *)
(* below NETWORK all of them.                                              *)
THEOREM SmsCorrect == Spec => []SmsInStep
<1>1. Inv => SmsInStep
  BY DEF Inv, Good, SmsSane, SmsInStep
<1> QED
  BY <1>1, InvAlways, PTL

(* The manager uses the modem library as ModemLevel allows: whatever the   *)
(* clients do, the levels go as the specification that Ubmodem implements  *)
(* says. Every step of the two together is a step of it or changes nothing *)
(* of it.                                                                  *)
THEOREM UsesModemLevel == Spec => LevelSafety
<1>1. Init => LevelInit
  BY DEF Init
<1> QED
  BY <1>1, InvStep, InvAlways, PTL DEF Spec, LevelSafety
=============================================================================
