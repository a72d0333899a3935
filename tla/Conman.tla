------------------------------- MODULE Conman -------------------------------
(***************************************************************************)
(* The connection manager (apps/system/conman) on top of the modem: client *)
(* connections are counted, the first one powers the modem up to the level *)
(* asked for, the last one powers it off; events of the modem drive the    *)
(* status that clients see, and SMS messages wait for a connection of      *)
(* their own. The modem is the abstract one of ModemLevel, which Ubmodem   *)
(* implements. WLAN is left out (no WLAN configured).                      *)
(*                                                                         *)
(* Conman and the modem library run in one thread: one action is one       *)
(* message of a client or one callback of the modem library. Operators     *)
(* named like C functions take the manager and return it as the function   *)
(* leaves it; ask is the level they requested of the modem.                *)
(***************************************************************************)
EXTENDS ModemLevel, FiniteSets

CONSTANTS
  ConnIds,     \* the connection ids in use at a time
  NoConn,      \* CONMAN_CONNID_CLEAR
  NumInfos,    \* the infos read after a connection is made: 4 in the code
  MaxSms,      \* bound on the SMS messages not sent
  Patient      \* TRUE: clients wait for the outcome of what they asked for

ASSUME ConmanAssumption ==
  /\ IsFiniteSet(ConnIds) /\ NoConn \notin ConnIds
  /\ NumInfos \in Nat /\ MaxSms \in Nat
  /\ Patient \in BOOLEAN
  /\ {POWERED_OFF, NETWORK, GPRS} \subseteq Asked
  /\ {POWERED_OFF, NETWORK, GPRS, LEVEL_MAX} \subseteq Answered

VARIABLES conman, job, kick

vars == <<level, target, inter, doing, conman, job, kick>>

Statuses == {"OFF", "ESTABLISHING", "ESTABLISHED", "DESTROYING"}

(* conman->ub and conman->connections.current. infos: how many of imei,    *)
(* imsi, udopn and mcc_mnc are requested and not here; lost is             *)
(* establishing_lost, conn the list of connection ids with their destroyed *)
(* flag, queue the length of sms_queue, sms the messages handed to the     *)
(* modem, active, req and smsid are sms_sending_active,                    *)
(* sms_connection_requested and sms_connid. told is the last event         *)
(* broadcast to the clients, walk the loop of a CONMAN_CONNID_ALL being    *)
(* under way.                                                              *)
ConmanRecords ==
  [status : Statuses, target : Levels, info : BOOLEAN, infos : 0 .. NumInfos,
   lost : BOOLEAN, conn : [ConnIds -> {"none", "live", "destroyed"}], refcnt : Nat,
   queue : Nat, sms : Nat, active : BOOLEAN, req : BOOLEAN, smsid : ConnIds \cup {NoConn},
   told : {"nothing", "ESTABLISHED", "LOST", "FAILED"}, walk : BOOLEAN, ask : Levels \cup {LEVEL_MAX}]

(* What the modem library works on: nothing, a task (an info, an SMS,      *)
(* something else), the end of one after its callback.                     *)
Jobs == {"none", "info", "sms", "other", "ending", "failing"}

(* The manager keeps its type: in particular the reference count never     *)
(* falls below zero.                                                       *)
TypeOK ==
  /\ LevelTypeOK
  /\ conman \in ConmanRecords
  /\ job \in Jobs
  /\ kick \in BOOLEAN

-----------------------------------------------------------------------------
(* conman_ubmodem.c, conman_ctl.c.                                         *)

ubmodem_request_level(c, l) == [c EXCEPT !.target = l, !.ask = l]

power_off(c) ==
  ubmodem_request_level([c EXCEPT !.status = "DESTROYING"], POWERED_OFF)

release_old_count(c) == \* faulty variant: compares the count before the release
  LET r == [c EXCEPT !.refcnt = IF @ = 0 THEN 0 ELSE @ - 1] IN
  IF c.refcnt > 0 \/ r.target = POWERED_OFF THEN r ELSE power_off(r)

(* __conman_ubmodem_request_connection for CONMAN_NONE.                    *)
release_connection(c) ==
  LET r == [c EXCEPT !.refcnt = IF @ = 0 THEN 0 ELSE @ - 1] IN
  IF r.refcnt > 0 \/ r.target = POWERED_OFF THEN r ELSE power_off(r)

(* __conman_ubmodem_request_connection for CONMAN_2G and CONMAN_SMS.       *)
request_connection(c, l) ==
  LET r == [c EXCEPT !.refcnt = @ + 1] IN
  IF r.refcnt > 1 /\ r.target >= l THEN r
  ELSE ubmodem_request_level([r EXCEPT !.status = "ESTABLISHING"], l)

create_connection(c, id, l) == [request_connection(c, l) EXCEPT !.conn[id] = "live"]

destroy_again(c, id) == \* faulty variant: the destroyed flag is not looked at
  release_connection([c EXCEPT !.conn[id] = "none"])

destroy_connection(c, id) ==
  LET r == [c EXCEPT !.conn[id] = "none"] IN
  IF c.conn[id] = "destroyed" THEN r ELSE release_connection(r)

destroy_marked(c, id) == release_connection([c EXCEPT !.conn[id] = "destroyed"])

process_unchecked(c, l, k) == \* faulty variant: the queue may be empty
  IF c.status # "ESTABLISHED" THEN c
  ELSE [c EXCEPT !.queue = @ - 1, !.sms = @ + 1, !.active = TRUE]

process_lost(c, l, k) == \* faulty variant: a refused message does not send the next
  CASE c.status # "ESTABLISHED" -> c
    [] c.status = "ESTABLISHED" /\ c.queue > 0 ->
         IF l < NETWORK \/ k > 0 THEN [c EXCEPT !.queue = @ - 1]
         ELSE [c EXCEPT !.queue = @ - 1, !.sms = @ + 1, !.active = TRUE]
    [] OTHER ->
         LET i == [c EXCEPT !.active = FALSE, !.req = FALSE, !.smsid = NoConn] IN
         IF c.req THEN destroy_connection(i, c.smsid) ELSE i

(* ubmodem_send_sms, with the modem at l: below NETWORK it refuses every   *)
(* message, at NETWORK or above the first k for what they say. A refused   *)
(* message calls send_sms_cb at once, which goes on with the next.         *)
process_sms_queue(c, l, k) ==
  LET sent == l >= NETWORK /\ k < c.queue
      i == [c EXCEPT !.queue = 0, !.active = FALSE, !.req = FALSE, !.smsid = NoConn]
  IN CASE c.status # "ESTABLISHED" -> c
       [] c.status = "ESTABLISHED" /\ sent ->
            [c EXCEPT !.queue = @ - (k + 1), !.sms = @ + 1, !.active = TRUE]
       [] OTHER -> IF c.req THEN destroy_connection(i, c.smsid) ELSE i

send_sms(c, id, l, k) ==
  LET q == [c EXCEPT !.queue = @ + 1]
      r == IF c.req THEN q
           ELSE [create_connection(q, id, NETWORK) EXCEPT !.req = TRUE, !.smsid = id]
  IN IF r.status = "ESTABLISHED" /\ ~r.active THEN process_sms_queue(r, l, k) ELSE r

failed_unasked(c) == \* faulty variant: the modem is not asked to power off
  [c EXCEPT !.info = FALSE, !.lost = FALSE, !.status = "DESTROYING", !.target = POWERED_OFF]

event_failed_target_level(c) ==
  LET up == c.status = "ESTABLISHED" \/ (c.status = "ESTABLISHING" /\ c.lost)
      event == IF c.target = POWERED_OFF THEN c.told
               ELSE CASE up -> "LOST"
                      [] ~up /\ c.status = "ESTABLISHING" -> "FAILED"
                      [] OTHER -> c.told
  IN power_off([c EXCEPT !.info = FALSE, !.lost = FALSE, !.told = event])

established(c, l, k) ==
  process_sms_queue([c EXCEPT !.lost = FALSE, !.status = "ESTABLISHED"], l, k)

callback_only_clears(c, l, k) == [c EXCEPT !.infos = @ - 1] \* faulty variant: the status stays

ubmodem_info_callback(c, l, k) ==
  LET r == [c EXCEPT !.infos = @ - 1] IN
  IF r.infos > 0 THEN r ELSE [established(r, l, k) EXCEPT !.told = "ESTABLISHED"]

event_target_level(c, l, k) ==
  LET r == IF ~c.info /\ c.status # "DESTROYING" /\ l # POWERED_OFF
           THEN [c EXCEPT !.info = TRUE, !.infos = NumInfos] ELSE c
  IN CASE c.status \in {"OFF", "DESTROYING"} /\ l # POWERED_OFF ->
            power_off([r EXCEPT !.lost = FALSE])
       [] c.status \in {"OFF", "DESTROYING"} /\ l = POWERED_OFF ->
            [r EXCEPT !.lost = FALSE, !.status = "OFF", !.info = FALSE]
       [] c.status \in {"ESTABLISHED", "ESTABLISHING"} /\ l # c.target ->
            ubmodem_request_level([r EXCEPT !.lost = (c.status = "ESTABLISHED"),
                                            !.status = "ESTABLISHING"], c.target)
       [] c.status \in {"ESTABLISHED", "ESTABLISHING"} /\ l = c.target ->
            IF ~r.info \/ r.infos > 0 THEN [r EXCEPT !.status = "ESTABLISHING"]
            ELSE established(r, l, k)

-----------------------------------------------------------------------------
(* The modem's side. kick: a level was asked for while the modem waited,   *)
(* so its state machine runs before anything else.                         *)

Init ==
  /\ LevelInit
  /\ job = "none" /\ kick = TRUE
  /\ conman = [status |-> "OFF", target |-> POWERED_OFF, info |-> FALSE, infos |-> 0,
               lost |-> FALSE, conn |-> [i \in ConnIds |-> "none"], refcnt |-> 0,
               queue |-> 0, sms |-> 0, active |-> FALSE, req |-> FALSE, smsid |-> NoConn,
               told |-> "nothing", walk |-> FALSE, ask |-> LEVEL_MAX]

(* How many messages the modem library may refuse for what they say.       *)
Refused == 0 .. MaxSms

(* A callback is not over.                                                 *)
Busy == kick \/ conman.walk \/ job \in {"ending", "failing"}

ModemStart ==
  /\ ~conman.walk /\ job = "none" /\ Start
  /\ kick' = FALSE /\ UNCHANGED <<conman, job>>

(* A task of the connection manager, or any other work: sockets, a lost    *)
(* network connection. Which comes first is left open.                     *)
ModemWork(j) ==
  /\ ~conman.walk /\ job = "none" /\ StartWork
  /\ CASE j = "info" -> conman.infos > 0 [] j = "sms" -> conman.sms > 0 [] OTHER -> TRUE
  /\ job' = j /\ kick' = FALSE /\ UNCHANGED conman

(* The state machine finds nothing to do.                                  *)
ModemRests ==
  /\ kick /\ ~conman.walk /\ job = "none" /\ doing = "nothing" /\ Goal = level
  /\ conman.infos = 0 /\ conman.sms = 0
  /\ kick' = FALSE /\ UNCHANGED <<levelVars, conman, job>>

(* What the manager does, c, and what it asked the modem for meanwhile.    *)
Does(c) ==
  /\ conman' = [c EXCEPT !.ask = LEVEL_MAX]
  /\ IF c.ask = LEVEL_MAX THEN UNCHANGED <<levelVars, kick>>
     ELSE RequestLevel(c.ask) /\ kick' = (kick \/ doing' = "nothing")

(* An info is here, or is not to be had: below the level it needs the task *)
(* ends at once, an error is a failed transition to the modem library.     *)
InfoCallback(ok, k) ==
  /\ ~conman.walk /\ job = "info" /\ (ok => level >= NETWORK)
  /\ Does(ubmodem_info_callback(conman, level, k))
  /\ job' = IF ok \/ level < NETWORK THEN "ending" ELSE "failing"

(* send_sms_cb.                                                            *)
SmsCallback(k) ==
  /\ ~conman.walk /\ job = "sms"
  /\ Does(process_sms_queue([conman EXCEPT !.sms = @ - 1], level, k))
  /\ job' = "ending"

(* The modem library ends its work. Only work of its own sends it through  *)
(* a lower level.                                                          *)
WorkEnds ==
  /\ ~conman.walk /\ job \in {"ending", "other"} /\ EndWork
  /\ job = "ending" => inter' = inter
  /\ job' = "none" /\ UNCHANGED <<conman, kick>>

(* An event of the modem library: the manager's listener answers it. A     *)
(* failure is told when the modem waits again, a level before that.        *)
Answers(c) == conman' = [c EXCEPT !.ask = LEVEL_MAX]

LevelReached(l, k) ==
  /\ ~conman.walk /\ job = "none"
  /\ LET c == IF l = target THEN event_target_level(conman, l, k) ELSE conman
     IN Reach(l, c.ask) /\ Answers(c)
  /\ UNCHANGED <<job, kick>>

LevelFailed(mark) ==
  /\ ~conman.walk
  /\ job \in {"failing", "other"} \/ (job = "none" /\ doing \in Moves)
  /\ LET c == IF target = POWERED_OFF THEN conman ELSE event_failed_target_level(conman)
     IN Fail(mark, c.ask) /\ Answers(c) /\ kick' = (kick \/ c.ask # LEVEL_MAX)
  /\ job' = "none"

-----------------------------------------------------------------------------
(* The clients' side.                                                      *)

FreeIds == {i \in ConnIds : conman.conn[i] = "none"}
LiveIds == {i \in ConnIds : conman.conn[i] = "live"}

(* A patient client waits for the final status, as the tests of conman do: *)
(* it does not connect while the modem is taken down, and does not close a *)
(* connection that is still being made.                                    *)
MayCreate  == Patient => conman.status # "DESTROYING"
MayDestroy == Patient => conman.status # "ESTABLISHING"

Create(l) ==
  /\ ~Busy /\ MayCreate
  /\ \E id \in FreeIds : Does(create_connection(conman, id, l))
  /\ UNCHANGED job

Destroy(id) ==
  /\ ~Busy /\ MayDestroy /\ conman.conn[id] # "none" /\ id # conman.smsid
  /\ Does(destroy_connection(conman, id))
  /\ UNCHANGED job

(* CONMAN_CONNID_ALL: the walk over the list, one step each.               *)
DestroyAll ==
  /\ ~Busy /\ MayDestroy /\ LiveIds # {}
  /\ conman' = [conman EXCEPT !.walk = TRUE] /\ UNCHANGED <<levelVars, job, kick>>

DestroyNext ==
  /\ conman.walk
  /\ IF LiveIds = {} THEN Does([conman EXCEPT !.walk = FALSE])
     ELSE \E id \in LiveIds : Does(destroy_marked(conman, id))
  /\ UNCHANGED job

SendSms(k) ==
  /\ ~Busy /\ conman.queue + conman.sms < MaxSms /\ (~conman.req => MayCreate)
  /\ \E id \in (IF conman.req THEN {NoConn} ELSE FreeIds) :
       Does(send_sms(conman, id, level, k))
  /\ UNCHANGED job

Next ==
  \/ ModemStart
  \/ \E j \in {"info", "sms", "other"} : ModemWork(j)
  \/ ModemRests
  \/ \E ok \in BOOLEAN, k \in Refused : InfoCallback(ok, k)
  \/ \E k \in Refused : SmsCallback(k)
  \/ WorkEnds
  \/ \E l \in Levels, k \in Refused : LevelReached(l, k)
  \/ \E mark \in BOOLEAN : LevelFailed(mark)
  \/ \E l \in {NETWORK, GPRS} : Create(l)
  \/ \E id \in ConnIds : Destroy(id)
  \/ DestroyAll
  \/ DestroyNext
  \/ \E k \in Refused : SendSms(k)

Spec == Init /\ [][Next]_vars

-----------------------------------------------------------------------------
(* The reference count is the number of connections nobody has destroyed:  *)
(* by id, by CONMAN_CONNID_ALL, or both in either order.                   *)
RefcntCounts == conman.refcnt = Cardinality(LiveIds)

(* The modem is not kept up for nobody: without a connection the level the *)
(* manager is after is POWERED_OFF, whoever changed it last.               *)
OffWhenUnused == conman.refcnt = 0 => conman.target = POWERED_OFF

(* The manager and the modem library agree on the level asked for, through *)
(* every failure, retry and change of mind of either side.                 *)
TargetsAgree == conman.target = target

(* A queued SMS is not forgotten: a connection was asked for on its        *)
(* behalf, and while the modem is connected a message before it is being   *)
(* sent, whose end sends it, however many before it were refused.          *)
SmsInStep ==
  conman.queue > 0 =>
    conman.req /\ (conman.status = "ESTABLISHED" => conman.sms > 0)

(* A client with a connection does not believe it is up when the manager   *)
(* has given up and powers the modem off.                                  *)
NotMisled ==
  conman.refcnt > 0 /\ conman.target = POWERED_OFF => conman.told # "ESTABLISHED"

-----------------------------------------------------------------------------
(* The thread goes on with what it is in the middle of.                    *)
Progress ==
  \/ ModemStart \/ ModemRests \/ DestroyNext
  \/ WorkEnds
  \/ \E k \in Refused : SmsCallback(k)
  \/ \E ok \in BOOLEAN, k \in Refused : InfoCallback(ok, k)
  \/ \E l \in Levels, k \in Refused : LevelReached(l, k)
  \/ \E mark \in BOOLEAN : LevelFailed(mark)

(* Fairness: the modem library does what it is asked for and ends what it  *)
(* starts (LevelSpec of ModemLevel), it serves its queue of tasks in turn, *)
(* and a step between two levels that is tried again and again works in    *)
(* the end.                                                                *)
FairSpec ==
  /\ Spec
  /\ WF_vars(Progress)
  /\ SF_vars(ModemWork("info"))
  /\ \A l \in {POWERED_OFF, CMD_PROMPT, SIM_ENABLED, NETWORK} : SF_vars(\E k \in Refused : LevelReached(l, k))

(* A modem nobody uses is off in the end.                                  *)
UnusedGoesOff == conman.refcnt = 0 ~> level = POWERED_OFF \/ conman.refcnt > 0

(* An attempt to reach a level comes to an end: the clients that wait for  *)
(* it see the connection established, or given up.                         *)
Attempting == conman.status = "ESTABLISHING" /\ conman.target # POWERED_OFF

AttemptEnds == Attempting ~> ~Attempting
=============================================================================
