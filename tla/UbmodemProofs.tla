--------------------------- MODULE UbmodemProofs ---------------------------
(***************************************************************************)
(* The modem library keeps its type and never sleeps on work: for every    *)
(* bound, any order of requests, answers, timers and result codes, and     *)
(* with assertions compiled in or not.                                     *)
(***************************************************************************)
EXTENDS Ubmodem, TLAPS

-----------------------------------------------------------------------------
(* The invariant, and what operators do to it.                             *)

(* A modem that waits with something to do has the wake timer running.     *)
Awake(m) ==
  m.run = "poll" /\ m.state = "WAITING" /\ waiting_next_state(m) # "WAITING"
    => "wake" \in m.timers

Sound(m) == m \in ModemRecords /\ Awake(m)

(* d is m after an operator that gives the state machine nothing to do.    *)
Quiet(m, d) ==
  /\ d \in ModemRecords
  /\ d.state = m.state /\ d.level = m.level /\ d.target = m.target
  /\ d.inter = m.inter /\ d.tasks = m.tasks /\ (d.work => m.work)
  /\ d.run \in {m.run, "stop"}
  /\ "wake" \in m.timers => "wake" \in d.timers

LEMMA QuietSound ==
  ASSUME NEW m, NEW d, Sound(m), Quiet(m, d)
  PROVE  Sound(d)
BY DEF Sound, Quiet, Awake, waiting_next_state

LEMMA QuietRefl ==
  ASSUME NEW m \in ModemRecords
  PROVE  Quiet(m, m)
BY DEF Quiet

LEMMA QuietTrans ==
  ASSUME NEW m, NEW d, NEW e, Quiet(m, d), Quiet(d, e)
  PROVE  Quiet(m, e)
BY DEF Quiet

-----------------------------------------------------------------------------
(* The operators everything is made of.                                    *)

LEMMA StopQuiet ==
  ASSUME NEW m \in ModemRecords, NEW name \in Failures
  PROVE  Quiet(m, [m EXCEPT !.run = "stop", !.fail = name])
<1> DEFINE d == [m EXCEPT !.run = "stop", !.fail = name]
<1>1. d \in ModemRecords
  BY DEF ModemRecords
<1>2. /\ d.state = m.state /\ d.level = m.level /\ d.target = m.target
      /\ d.inter = m.inter /\ d.tasks = m.tasks /\ d.work = m.work
      /\ d.run = "stop" /\ d.timers = m.timers
  BY DEF ModemRecords
<1> QED
  BY <1>1, <1>2 DEF Quiet

(* What an assertion leaves.                                               *)
LEMMA AssertQuiet ==
  ASSUME NEW m \in ModemRecords, NEW name \in Failures, NEW a,
         a = m \/ a = [m EXCEPT !.run = "stop", !.fail = name]
  PROVE  Quiet(m, a) /\ a \in ModemRecords
<1>1. Quiet(m, a)
  BY StopQuiet, QuietRefl
<1> QED
  BY <1>1 DEF Quiet

LEMMA AddTimerQuiet ==
  ASSUME NEW m \in ModemRecords, NEW t \in Timers
  PROVE  Quiet(m, [m EXCEPT !.timers = @ \cup {t}])
BY DEF Quiet, ModemRecords

LEMMA SetTimerQuiet ==
  ASSUME NEW m \in ModemRecords, NEW t \in Timers
  PROVE  Quiet(m, set_timer(m, t)) /\ t \in set_timer(m, t).timers
<1> DEFINE a == assert(m, t \notin m.timers, "timer set twice")
<1>1. Quiet(m, a)
  <2>1. a = m \/ a = [m EXCEPT !.run = "stop", !.fail = "timer set twice"]
    BY DEF assert
  <2> HIDE DEF a
  <2> QED
    BY <2>1, AssertQuiet DEF Failures
<1>2. set_timer(m, t) = [a EXCEPT !.timers = a.timers \cup {t}]
  BY DEF set_timer
<1>3. a \in ModemRecords
  BY <1>1 DEF Quiet
<1> HIDE DEF a
<1>4. Quiet(a, [a EXCEPT !.timers = a.timers \cup {t}])
  BY <1>3, AddTimerQuiet
<1>5. t \in [a EXCEPT !.timers = a.timers \cup {t}].timers
  BY <1>3 DEF ModemRecords
<1> QED
  BY <1>1, <1>2, <1>4, <1>5, QuietTrans

(* Fields the state machine does not look at.                              *)
LEMMA NumbersQuiet ==
  ASSUME NEW m \in ModemRecords
  PROVE  /\ \A v \in Int : Quiet(m, [m EXCEPT !.n = v])
         /\ \A v \in Int : Quiet(m, [m EXCEPT !.pos = v])
         /\ \A v \in Int : Quiet(m, [m EXCEPT !.low = v])
         /\ \A v \in Int : Quiet(m, [m EXCEPT !.high = v])
<1>1. ASSUME NEW v \in Int PROVE Quiet(m, [m EXCEPT !.n = v])
  BY DEF Quiet, ModemRecords
<1>2. ASSUME NEW v \in Int PROVE Quiet(m, [m EXCEPT !.pos = v])
  BY DEF Quiet, ModemRecords
<1>3. ASSUME NEW v \in Int PROVE Quiet(m, [m EXCEPT !.low = v])
  BY DEF Quiet, ModemRecords
<1>4. ASSUME NEW v \in Int PROVE Quiet(m, [m EXCEPT !.high = v])
  BY DEF Quiet, ModemRecords
<1> QED
  BY <1>1, <1>2, <1>3, <1>4

LEMMA FlagsQuiet ==
  ASSUME NEW m \in ModemRecords
  PROVE  /\ \A v \in BOOLEAN : Quiet(m, [m EXCEPT !.flag = v])
         /\ \A v \in BOOLEAN : Quiet(m, [m EXCEPT !.creg = v])
         /\ \A v \in BOOLEAN : Quiet(m, [m EXCEPT !.uupsdd = v])
         /\ \A v \in BOOLEAN : Quiet(m, [m EXCEPT !.got = v])
         /\ \A v \in BOOLEAN : Quiet(m, [m EXCEPT !.keep = v])
         /\ \A v \in BOOLEAN : Quiet(m, [m EXCEPT !.cleanup = v])
         /\ \A v \in BOOLEAN : Quiet(m, [m EXCEPT !.off = v])
         /\ \A v \in BOOLEAN : Quiet(m, [m EXCEPT !.vcc_off = v])
         /\ \A v \in BOOLEAN : Quiet(m, [m EXCEPT !.sock = v])
         /\ \A v \in BOOLEAN : Quiet(m, [m EXCEPT !.soon = v])
<1>1. ASSUME NEW v \in BOOLEAN PROVE Quiet(m, [m EXCEPT !.flag = v])
  BY DEF Quiet, ModemRecords
<1>2. ASSUME NEW v \in BOOLEAN PROVE Quiet(m, [m EXCEPT !.creg = v])
  BY DEF Quiet, ModemRecords
<1>3. ASSUME NEW v \in BOOLEAN PROVE Quiet(m, [m EXCEPT !.uupsdd = v])
  BY DEF Quiet, ModemRecords
<1>4. ASSUME NEW v \in BOOLEAN PROVE Quiet(m, [m EXCEPT !.got = v])
  BY DEF Quiet, ModemRecords
<1>5. ASSUME NEW v \in BOOLEAN PROVE Quiet(m, [m EXCEPT !.keep = v])
  BY DEF Quiet, ModemRecords
<1>6. ASSUME NEW v \in BOOLEAN PROVE Quiet(m, [m EXCEPT !.cleanup = v])
  BY DEF Quiet, ModemRecords
<1>7. ASSUME NEW v \in BOOLEAN PROVE Quiet(m, [m EXCEPT !.off = v])
  BY DEF Quiet, ModemRecords
<1>8. ASSUME NEW v \in BOOLEAN PROVE Quiet(m, [m EXCEPT !.vcc_off = v])
  BY DEF Quiet, ModemRecords
<1>9. ASSUME NEW v \in BOOLEAN PROVE Quiet(m, [m EXCEPT !.sock = v])
  BY DEF Quiet, ModemRecords
<1>10. ASSUME NEW v \in BOOLEAN PROVE Quiet(m, [m EXCEPT !.soon = v])
  BY DEF Quiet, ModemRecords
<1> QED
  BY <1>1, <1>2, <1>3, <1>4, <1>5, <1>6, <1>7, <1>8, <1>9, <1>10

LEMMA FieldsQuiet ==
  ASSUME NEW m \in ModemRecords
  PROVE  /\ \A v \in NetworkStates : Quiet(m, [m EXCEPT !.net = v])
         /\ \A v \in Commands \cup {"none"} : Quiet(m, [m EXCEPT !.cmd = v])
         /\ \A v \in Commands \cup {"none"} : Quiet(m, [m EXCEPT !.delayed = v])
         /\ \A v \in Levels \cup {NOTHING} : Quiet(m, [m EXCEPT !.ask = v])
         /\ \A v \in Levels \cup {LEVEL_MAX} : Quiet(m, [m EXCEPT !.force = v])
         /\ \A v \in States : Quiet(m, [m EXCEPT !.sub = v])
         /\ \A v \in [Slots -> UrcHandlers \cup {"none"}] : Quiet(m, [m EXCEPT !.urc = v])
<1>1. ASSUME NEW v \in NetworkStates PROVE Quiet(m, [m EXCEPT !.net = v])
  BY DEF Quiet, ModemRecords
<1>2. ASSUME NEW v \in Commands \cup {"none"} PROVE Quiet(m, [m EXCEPT !.cmd = v])
  BY DEF Quiet, ModemRecords
<1>3. ASSUME NEW v \in Commands \cup {"none"} PROVE Quiet(m, [m EXCEPT !.delayed = v])
  BY DEF Quiet, ModemRecords
<1>4. ASSUME NEW v \in Levels \cup {NOTHING} PROVE Quiet(m, [m EXCEPT !.ask = v])
  BY DEF Quiet, ModemRecords
<1>5. ASSUME NEW v \in Levels \cup {LEVEL_MAX} PROVE Quiet(m, [m EXCEPT !.force = v])
  BY DEF Quiet, ModemRecords
<1>6. ASSUME NEW v \in States PROVE Quiet(m, [m EXCEPT !.sub = v])
  BY DEF Quiet, ModemRecords
<1>7. ASSUME NEW v \in [Slots -> UrcHandlers \cup {"none"}] PROVE Quiet(m, [m EXCEPT !.urc = v])
  BY DEF Quiet, ModemRecords
<1> QED
  BY <1>1, <1>2, <1>3, <1>4, <1>5, <1>6, <1>7

(* The literals in the handlers.                                           *)
LEMMA Literals ==
  /\ -1 \in Int /\ 0 \in Int /\ 1 \in Int /\ 6 \in Int
  /\ TRUE \in BOOLEAN /\ FALSE \in BOOLEAN
OBVIOUS

(* Several fields at once, as the handlers of each part change them.       *)
LEMMA PowerQuiet ==
  ASSUME NEW m \in ModemRecords
  PROVE  /\ \A a \in BOOLEAN, p \in Int :
              Quiet(m, [m EXCEPT !.vcc_off = a, !.pos = p])
         /\ \A p \in Int, a \in BOOLEAN :
              Quiet(m, [m EXCEPT !.pos = p, !.off = a])
         /\ \A a \in BOOLEAN, b \in BOOLEAN :
              Quiet(m, [m EXCEPT !.vcc_off = a, !.off = b])
<1>1. ASSUME NEW a \in BOOLEAN, NEW p \in Int
      PROVE  Quiet(m, [m EXCEPT !.vcc_off = a, !.pos = p])
  <2> DEFINE d == [m EXCEPT !.vcc_off = a, !.pos = p]
  <2>1. d \in ModemRecords
    BY DEF ModemRecords
  <2>2. /\ d.state = m.state /\ d.level = m.level /\ d.target = m.target
        /\ d.inter = m.inter /\ d.tasks = m.tasks /\ d.work = m.work
        /\ d.run = m.run /\ d.timers = m.timers
    BY DEF ModemRecords
  <2> QED
    BY <2>1, <2>2 DEF Quiet
<1>2. ASSUME NEW p \in Int, NEW a \in BOOLEAN
      PROVE  Quiet(m, [m EXCEPT !.pos = p, !.off = a])
  <2> DEFINE d == [m EXCEPT !.pos = p, !.off = a]
  <2>1. d \in ModemRecords
    BY DEF ModemRecords
  <2>2. /\ d.state = m.state /\ d.level = m.level /\ d.target = m.target
        /\ d.inter = m.inter /\ d.tasks = m.tasks /\ d.work = m.work
        /\ d.run = m.run /\ d.timers = m.timers
    BY DEF ModemRecords
  <2> QED
    BY <2>1, <2>2 DEF Quiet
<1>3. ASSUME NEW a \in BOOLEAN, NEW b \in BOOLEAN
      PROVE  Quiet(m, [m EXCEPT !.vcc_off = a, !.off = b])
  <2> DEFINE d == [m EXCEPT !.vcc_off = a, !.off = b]
  <2>1. d \in ModemRecords
    BY DEF ModemRecords
  <2>2. /\ d.state = m.state /\ d.level = m.level /\ d.target = m.target
        /\ d.inter = m.inter /\ d.tasks = m.tasks /\ d.work = m.work
        /\ d.run = m.run /\ d.timers = m.timers
    BY DEF ModemRecords
  <2> QED
    BY <2>1, <2>2 DEF Quiet
<1> QED
  BY <1>1, <1>2, <1>3

LEMMA SubQuiet ==
  ASSUME NEW m \in ModemRecords
  PROVE  /\ \A p \in Int, q \in Int, a \in BOOLEAN :
              Quiet(m, [m EXCEPT !.n = p, !.pos = q, !.flag = a])
         /\ \A p \in Int, q \in Int :
              Quiet(m, [m EXCEPT !.n = p, !.pos = q])
<1>1. ASSUME NEW p \in Int, NEW q \in Int, NEW a \in BOOLEAN
      PROVE  Quiet(m, [m EXCEPT !.n = p, !.pos = q, !.flag = a])
  <2> DEFINE d == [m EXCEPT !.n = p, !.pos = q, !.flag = a]
  <2>1. d \in ModemRecords
    BY DEF ModemRecords
  <2>2. /\ d.state = m.state /\ d.level = m.level /\ d.target = m.target
        /\ d.inter = m.inter /\ d.tasks = m.tasks /\ d.work = m.work
        /\ d.run = m.run /\ d.timers = m.timers
    BY DEF ModemRecords
  <2> QED
    BY <2>1, <2>2 DEF Quiet
<1>2. ASSUME NEW p \in Int, NEW q \in Int
      PROVE  Quiet(m, [m EXCEPT !.n = p, !.pos = q])
  <2> DEFINE d == [m EXCEPT !.n = p, !.pos = q]
  <2>1. d \in ModemRecords
    BY DEF ModemRecords
  <2>2. /\ d.state = m.state /\ d.level = m.level /\ d.target = m.target
        /\ d.inter = m.inter /\ d.tasks = m.tasks /\ d.work = m.work
        /\ d.run = m.run /\ d.timers = m.timers
    BY DEF ModemRecords
  <2> QED
    BY <2>1, <2>2 DEF Quiet
<1> QED
  BY <1>1, <1>2

LEMMA NetQuiet ==
  ASSUME NEW m \in ModemRecords
  PROVE  /\ \A s \in NetworkStates, a \in BOOLEAN, b \in BOOLEAN, e \in BOOLEAN :
              Quiet(m, [m EXCEPT !.net = s, !.got = a, !.keep = b, !.cleanup = e])
         /\ \A a \in BOOLEAN, s \in NetworkStates :
              Quiet(m, [m EXCEPT !.creg = a, !.net = s])
         /\ \A s \in NetworkStates, a \in BOOLEAN :
              Quiet(m, [m EXCEPT !.net = s, !.got = a])
         /\ \A s \in NetworkStates, a \in BOOLEAN, b \in BOOLEAN :
              Quiet(m, [m EXCEPT !.net = s, !.got = a, !.keep = b])
<1>1. ASSUME NEW s \in NetworkStates, NEW a \in BOOLEAN, NEW b \in BOOLEAN, NEW e \in BOOLEAN
      PROVE  Quiet(m, [m EXCEPT !.net = s, !.got = a, !.keep = b, !.cleanup = e])
  <2> DEFINE d == [m EXCEPT !.net = s, !.got = a, !.keep = b, !.cleanup = e]
  <2>1. d \in ModemRecords
    BY DEF ModemRecords
  <2>2. /\ d.state = m.state /\ d.level = m.level /\ d.target = m.target
        /\ d.inter = m.inter /\ d.tasks = m.tasks /\ d.work = m.work
        /\ d.run = m.run /\ d.timers = m.timers
    BY DEF ModemRecords
  <2> QED
    BY <2>1, <2>2 DEF Quiet
<1>2. ASSUME NEW a \in BOOLEAN, NEW s \in NetworkStates
      PROVE  Quiet(m, [m EXCEPT !.creg = a, !.net = s])
  <2> DEFINE d == [m EXCEPT !.creg = a, !.net = s]
  <2>1. d \in ModemRecords
    BY DEF ModemRecords
  <2>2. /\ d.state = m.state /\ d.level = m.level /\ d.target = m.target
        /\ d.inter = m.inter /\ d.tasks = m.tasks /\ d.work = m.work
        /\ d.run = m.run /\ d.timers = m.timers
    BY DEF ModemRecords
  <2> QED
    BY <2>1, <2>2 DEF Quiet
<1>3. ASSUME NEW s \in NetworkStates, NEW a \in BOOLEAN
      PROVE  Quiet(m, [m EXCEPT !.net = s, !.got = a])
  <2> DEFINE d == [m EXCEPT !.net = s, !.got = a]
  <2>1. d \in ModemRecords
    BY DEF ModemRecords
  <2>2. /\ d.state = m.state /\ d.level = m.level /\ d.target = m.target
        /\ d.inter = m.inter /\ d.tasks = m.tasks /\ d.work = m.work
        /\ d.run = m.run /\ d.timers = m.timers
    BY DEF ModemRecords
  <2> QED
    BY <2>1, <2>2 DEF Quiet
<1>4. ASSUME NEW s \in NetworkStates, NEW a \in BOOLEAN, NEW b \in BOOLEAN
      PROVE  Quiet(m, [m EXCEPT !.net = s, !.got = a, !.keep = b])
  <2> DEFINE d == [m EXCEPT !.net = s, !.got = a, !.keep = b]
  <2>1. d \in ModemRecords
    BY DEF ModemRecords
  <2>2. /\ d.state = m.state /\ d.level = m.level /\ d.target = m.target
        /\ d.inter = m.inter /\ d.tasks = m.tasks /\ d.work = m.work
        /\ d.run = m.run /\ d.timers = m.timers
    BY DEF ModemRecords
  <2> QED
    BY <2>1, <2>2 DEF Quiet
<1> QED
  BY <1>1, <1>2, <1>3, <1>4

LEMMA PdpQuiet ==
  ASSUME NEW m \in ModemRecords
  PROVE  /\ \A a \in BOOLEAN, p \in Int :
              Quiet(m, [m EXCEPT !.uupsdd = a, !.pos = p])
         /\ \A p \in Int, a \in BOOLEAN :
              Quiet(m, [m EXCEPT !.pos = p, !.sock = a])
<1>1. ASSUME NEW a \in BOOLEAN, NEW p \in Int
      PROVE  Quiet(m, [m EXCEPT !.uupsdd = a, !.pos = p])
  <2> DEFINE d == [m EXCEPT !.uupsdd = a, !.pos = p]
  <2>1. d \in ModemRecords
    BY DEF ModemRecords
  <2>2. /\ d.state = m.state /\ d.level = m.level /\ d.target = m.target
        /\ d.inter = m.inter /\ d.tasks = m.tasks /\ d.work = m.work
        /\ d.run = m.run /\ d.timers = m.timers
    BY DEF ModemRecords
  <2> QED
    BY <2>1, <2>2 DEF Quiet
<1>2. ASSUME NEW p \in Int, NEW a \in BOOLEAN
      PROVE  Quiet(m, [m EXCEPT !.pos = p, !.sock = a])
  <2> DEFINE d == [m EXCEPT !.pos = p, !.sock = a]
  <2>1. d \in ModemRecords
    BY DEF ModemRecords
  <2>2. /\ d.state = m.state /\ d.level = m.level /\ d.target = m.target
        /\ d.inter = m.inter /\ d.tasks = m.tasks /\ d.work = m.work
        /\ d.run = m.run /\ d.timers = m.timers
    BY DEF ModemRecords
  <2> QED
    BY <2>1, <2>2 DEF Quiet
<1> QED
  BY <1>1, <1>2

(* Timers and activity counts.                                             *)
LEMMA RemoveTimerQuiet ==
  ASSUME NEW m \in ModemRecords, NEW t, t # "wake"
  PROVE  Quiet(m, remove_timer(m, t))
BY DEF remove_timer, Quiet, ModemRecords

LEMMA PmQuiet ==
  ASSUME NEW m \in ModemRecords, NEW d \in Int
  PROVE  Quiet(m, pm_low(m, d)) /\ Quiet(m, pm_high(m, d))
<1>1. m.low + d \in Int /\ m.high + d \in Int
  BY DEF ModemRecords
<1> QED
  BY <1>1, NumbersQuiet DEF pm_low, pm_high

LEMMA SetHighQuiet ==
  ASSUME NEW m \in ModemRecords, NEW t \in Timers
  PROVE  Quiet(m, set_high_timer(m, t)) /\ t \in set_high_timer(m, t).timers
<1>1. Quiet(m, pm_high(m, 1)) /\ pm_high(m, 1) \in ModemRecords
  BY PmQuiet DEF Quiet
<1>2. LET d == set_timer(pm_high(m, 1), t)
      IN Quiet(pm_high(m, 1), d) /\ t \in d.timers
  BY <1>1, SetTimerQuiet
<1> QED
  BY <1>1, <1>2, QuietTrans DEF set_high_timer

LEMMA SetCregQuiet ==
  ASSUME NEW m \in ModemRecords, NEW t \in Timers
  PROVE  Quiet(m, set_creg_timer(m, t))
<1>1. Quiet(m, set_timer(m, t)) /\ set_timer(m, t) \in ModemRecords
  BY SetTimerQuiet DEF Quiet
<1>2. Quiet(set_timer(m, t), pm_low(set_timer(m, t), 1))
  BY <1>1, PmQuiet
<1> QED
  BY <1>1, <1>2, QuietTrans DEF set_creg_timer

LEMMA RemoveCregQuiet ==
  ASSUME NEW m \in ModemRecords
  PROVE  Quiet(m, remove_creg_timer(m))
<1> DEFINE d == [m EXCEPT !.timers = m.timers \ CregTimers]
<1>1. Quiet(m, d)
  BY DEF Quiet, ModemRecords, CregTimers
<1>2. d \in ModemRecords
  BY <1>1 DEF Quiet
<1> HIDE DEF d
<1>3. Quiet(d, pm_low(d, -1))
  BY <1>2, PmQuiet
<1> QED
  BY <1>1, <1>3, QuietTrans, QuietRefl DEF remove_creg_timer, d

LEMMA RemoveGprsQuiet ==
  ASSUME NEW m \in ModemRecords
  PROVE  Quiet(m, remove_gprs_timer(m))
<1>1. Quiet(m, remove_timer(m, "gprs")) /\ remove_timer(m, "gprs") \in ModemRecords
  BY RemoveTimerQuiet DEF Quiet
<1>2. Quiet(remove_timer(m, "gprs"), pm_low(remove_timer(m, "gprs"), -1))
  BY <1>1, PmQuiet
<1> QED
  BY <1>1, <1>2, QuietTrans, QuietRefl DEF remove_gprs_timer

(* The table of handlers.                                                  *)
LEMMA ActivityQuiet ==
  ASSUME NEW m \in ModemRecords, NEW c, NEW d \in Int
  PROVE  Quiet(m, cmd_activity(m, c, d))
BY PmQuiet DEF cmd_activity

LEMMA RegisterQuiet ==
  ASSUME NEW m \in ModemRecords, NEW c \in Commands \cup {"none"}
  PROVE  Quiet(m, register_command(m, c))
<1> DEFINE a == assert(m, m.cmd = "none", "slot 0 in use")
           b == [a EXCEPT !.cmd = c]
<1>1. a = m \/ a = [m EXCEPT !.run = "stop", !.fail = "slot 0 in use"]
  BY DEF assert
<1>2. register_command(m, c) = cmd_activity(b, c, 1)
  BY DEF register_command
<1> HIDE DEF a
<1>3. Quiet(m, a) /\ a \in ModemRecords
  BY <1>1, AssertQuiet DEF Failures
<1>4. Quiet(a, b) /\ b \in ModemRecords
  BY <1>3, FieldsQuiet DEF Quiet
<1> HIDE DEF b
<1>5. Quiet(b, cmd_activity(b, c, 1))
  BY <1>4, ActivityQuiet
<1> QED
  BY <1>2, <1>3, <1>4, <1>5, QuietTrans

LEMMA UnregisterQuiet ==
  ASSUME NEW m \in ModemRecords
  PROVE  Quiet(m, unregister_command(m))
<1> DEFINE a == cmd_activity(m, m.cmd, -1)
<1>1. Quiet(m, a) /\ a \in ModemRecords
  BY ActivityQuiet DEF Quiet
<1>2. unregister_command(m) = [a EXCEPT !.cmd = "none"]
  BY DEF unregister_command
<1> HIDE DEF a
<1>3. Quiet(a, [a EXCEPT !.cmd = "none"])
  BY <1>1, FieldsQuiet
<1> QED
  BY <1>1, <1>2, <1>3, QuietTrans

(* A handler put into a slot, whichever it is.                             *)
LEMMA SlotQuiet ==
  ASSUME NEW m \in ModemRecords, NEW i, NEW u \in UrcHandlers \cup {"none"}
  PROVE  Quiet(m, [m EXCEPT !.urc[i] = u])
<1>1. [m.urc EXCEPT ![i] = u] \in [Slots -> UrcHandlers \cup {"none"}]
  BY DEF ModemRecords
<1> QED
  BY <1>1, FieldsQuiet

LEMMA RegisterUrcQuiet ==
  ASSUME NEW m \in ModemRecords, NEW u \in UrcHandlers
  PROVE  Quiet(m, register_urc(m, u))
<1> DEFINE f == First({i \in Slots : m.urc[i] = "none"})
           d == register_urc(m, u)
<1>1. d = m \/ d = [m EXCEPT !.run = "stop", !.fail = "list full"] \/ d = [m EXCEPT !.urc[f] = u]
  BY DEF register_urc, assert
<1> HIDE DEF f, d
<1>2. Quiet(m, [m EXCEPT !.urc[f] = u])
  BY SlotQuiet
<1>3. ASSUME d = m \/ d = [m EXCEPT !.run = "stop", !.fail = "list full"]
      PROVE  Quiet(m, d)
  BY <1>3, AssertQuiet DEF Failures
<1> QED
  BY <1>1, <1>2, <1>3 DEF d

LEMMA UnregisterUrcQuiet ==
  ASSUME NEW m \in ModemRecords, NEW name
  PROVE  Quiet(m, unregister_urc(m, name))
BY UnregisterQuiet, SlotQuiet, QuietRefl DEF unregister_urc

LEMMA UnregisterCregQuiet ==
  ASSUME NEW m \in ModemRecords
  PROVE  Quiet(m, unregister_creg(m)) /\ Quiet(m, unregister_uupsdd(m))
<1>1. ASSUME NEW name PROVE Quiet(m, unregister_urc(m, name))
                            /\ unregister_urc(m, name) \in ModemRecords
  BY UnregisterUrcQuiet DEF Quiet
<1>2. Quiet(unregister_urc(m, "+CREG"), [unregister_urc(m, "+CREG") EXCEPT !.creg = FALSE])
  BY <1>1, FlagsQuiet
<1>3. Quiet(unregister_urc(m, "+UUPSDD"), [unregister_urc(m, "+UUPSDD") EXCEPT !.uupsdd = FALSE])
  BY <1>1, FlagsQuiet
<1> QED
  BY <1>1, <1>2, <1>3, QuietTrans, QuietRefl DEF unregister_creg, unregister_uupsdd

-----------------------------------------------------------------------------
(* Commands.                                                               *)

LEMMA ModemSendQuiet ==
  ASSUME NEW m \in ModemRecords, NEW c \in Commands \cup {"none"}
  PROVE  Quiet(m, modem_send_cmd(m, c))
<1>1. Quiet(m, register_command(m, c)) /\ register_command(m, c) \in ModemRecords
  BY RegisterQuiet DEF Quiet
<1>2. Quiet(register_command(m, c), set_timer(register_command(m, c), "cmd"))
  BY <1>1, SetTimerQuiet DEF Timers
<1> QED
  BY <1>1, <1>2, QuietTrans DEF modem_send_cmd

LEMMA SendQuiet ==
  ASSUME NEW m \in ModemRecords, NEW c \in Commands
  PROVE  Quiet(m, send_cmd(m, c))
<1> DEFINE a == DEBUGASSERT(m, m.delayed = "none", "delayed command active")
           e == [a EXCEPT !.delayed = c]
           t == set_timer(e, "delay")
<1>1. a = m \/ a = [m EXCEPT !.run = "stop", !.fail = "delayed command active"]
  BY DEF DEBUGASSERT, assert
<1>2. send_cmd(m, c) = IF m.soon THEN pm_high(t, 1) ELSE modem_send_cmd(a, c)
  BY DEF send_cmd
<1> HIDE DEF a
<1>3. Quiet(m, a) /\ a \in ModemRecords
  BY <1>1, AssertQuiet DEF Failures
<1>4. Quiet(a, e) /\ e \in ModemRecords
  BY <1>3, FieldsQuiet DEF Quiet
<1> HIDE DEF e
<1>5. Quiet(e, t) /\ t \in ModemRecords
  BY <1>4, SetTimerQuiet DEF Quiet, Timers
<1> HIDE DEF t
<1>6. Quiet(t, pm_high(t, 1)) /\ Quiet(a, modem_send_cmd(a, c))
  BY <1>3, <1>5, PmQuiet, ModemSendQuiet
<1> QED
  BY <1>2, <1>3, <1>4, <1>5, <1>6, QuietTrans

(* What is sent leaves a sound modem sound.                                *)
LEMMA SendSound ==
  ASSUME NEW m, NEW d, Sound(m), Quiet(m, d), NEW c \in Commands
  PROVE  Sound(send_cmd(d, c)) /\ Sound(modem_send_cmd(d, c))
<1>1. Sound(d) /\ d \in ModemRecords
  BY QuietSound DEF Sound
<1> QED
  BY <1>1, SendQuiet, ModemSendQuiet, QuietSound

-----------------------------------------------------------------------------
(* Levels and states.                                                      *)

LEMMA LevelFacts ==
  /\ Levels = 0 .. 6 /\ LEVEL_MAX = 7 /\ POWERED_OFF \in Levels /\ POWERED_ON \in Levels
  /\ CMD_PROMPT \in Levels /\ SIM_ENABLED \in Levels /\ NETWORK \in Levels
  /\ GPRS \in Levels /\ STUCK_HARDWARE \in Levels
BY DEF Levels, LEVEL_MAX, POWERED_OFF, POWERED_ON, CMD_PROMPT, SIM_ENABLED, NETWORK, GPRS,
       STUCK_HARDWARE

(* The clean-up of a connection leaves nothing to do.                      *)
LEMMA SetupCleanupQuiet ==
  ASSUME NEW m \in ModemRecords
  PROVE  Quiet(m, setup_network_cleanup(m))
<1>1. Quiet(m, remove_creg_timer(m)) /\ remove_creg_timer(m) \in ModemRecords
  BY RemoveCregQuiet DEF Quiet
<1>2. Quiet(remove_creg_timer(m), unregister_creg(remove_creg_timer(m)))
  BY <1>1, UnregisterCregQuiet
<1> QED
  BY <1>1, <1>2, QuietTrans DEF setup_network_cleanup

(* The flags of the sockets, whatever they are set to.                     *)
LEMMA SocketFlags ==
  ASSUME NEW m \in ModemRecords, NEW a \in BOOLEAN, NEW b \in BOOLEAN
  PROVE  [m EXCEPT !.sock = a, !.work = b] \in ModemRecords
BY DEF ModemRecords

LEMMA GprsCleanupQuiet ==
  ASSUME NEW m \in ModemRecords
  PROVE  Quiet(m, gprs_cleanup(m))
<1> DEFINE u == unregister_uupsdd(m)
           g == remove_gprs_timer(u)
<1>1. Quiet(m, u) /\ u \in ModemRecords
  BY UnregisterCregQuiet DEF Quiet
<1> HIDE DEF u
<1>2. Quiet(u, g) /\ g \in ModemRecords
  BY <1>1, RemoveGprsQuiet DEF Quiet
<1> HIDE DEF g
<1>3. Quiet(g, usrsock_uninitialize(g))
  <2> DEFINE d == usrsock_uninitialize(g)
  <2>1. d \in ModemRecords
    BY <1>2, Literals, SocketFlags DEF usrsock_uninitialize
  <2>2. /\ d.state = g.state /\ d.level = g.level /\ d.target = g.target
        /\ d.inter = g.inter /\ d.tasks = g.tasks /\ ~d.work
        /\ d.run = g.run /\ d.timers = g.timers
    BY <1>2 DEF usrsock_uninitialize, ModemRecords
  <2> QED
    BY <2>1, <2>2 DEF Quiet
<1> QED
  BY <1>1, <1>2, <1>3, QuietTrans DEF gprs_cleanup, u, g

LEMMA NetworkCleanupQuiet ==
  ASSUME NEW m \in ModemRecords
  PROVE  Quiet(m, network_cleanup(m)) /\ network_cleanup(m) \in ModemRecords
<1> DEFINE g == IF m.level = GPRS THEN gprs_cleanup(m) ELSE m
           r == remove_creg_timer(g)
<1>1. Quiet(m, g)
  BY GprsCleanupQuiet, QuietRefl
<1>2. network_cleanup(m) = IF m.level >= NETWORK THEN unregister_creg(r) ELSE g
  BY DEF network_cleanup
<1> HIDE DEF g
<1>3. g \in ModemRecords
  BY <1>1 DEF Quiet
<1>4. Quiet(g, r) /\ r \in ModemRecords
  BY <1>3, RemoveCregQuiet DEF Quiet
<1> HIDE DEF r
<1>5. Quiet(r, unregister_creg(r))
  BY <1>4, UnregisterCregQuiet
<1>6. Quiet(m, network_cleanup(m))
  BY <1>1, <1>2, <1>4, <1>5, QuietTrans
<1> QED
  BY <1>6 DEF Quiet

(* A wake keeps all but the timer, and makes a modem sound that waits.     *)
LEMMA WakeQuiet ==
  ASSUME NEW m \in ModemRecords, NEW f \in BOOLEAN
  PROVE  /\ Quiet(m, wake_waiting_state(m, f))
         /\ Sound(wake_waiting_state(m, f))
<1> DEFINE d == wake_waiting_state(m, f)
<1>1. Quiet(m, d)
  BY QuietRefl, SetHighQuiet DEF wake_waiting_state, Timers
<1>2. "wake" \in d.timers \/ d.run # "poll" \/ d.state # "WAITING"
  <2>1. CASE m.run = "poll" /\ m.state = "WAITING" /\ "wake" \notin m.timers
    <3>1. d = set_high_timer(m, "wake")
      BY <2>1 DEF wake_waiting_state, in_state_machine
    <3> QED
      BY <3>1, SetHighQuiet DEF Timers
  <2>2. CASE "wake" \in m.timers
    BY <1>1, <2>2 DEF Quiet
  <2>3. CASE m.run # "poll" \/ m.state # "WAITING"
    BY <1>1, <2>3 DEF Quiet
  <2> QED
    BY <2>1, <2>2, <2>3
<1>3. Sound(d)
  BY <1>1, <1>2 DEF Sound, Awake, Quiet
<1> QED
  BY <1>1, <1>3

(* A change of state leaves the modem sound, whatever it was before.       *)
LEMMA ChangeSound ==
  ASSUME NEW m \in ModemRecords, NEW s \in States
  PROVE  Sound(change_state(m, s)) /\ change_state(m, s).state = s
<1> DEFINE was == m.state = "WAITING"
           k == setup_network_cleanup(m)
           c == IF m.cleanup /\ m.state = "IN_SUBSTATE" THEN [k EXCEPT !.cleanup = FALSE] ELSE m
           d == CASE was /\ s # "WAITING" -> 1 [] ~was /\ s = "WAITING" -> -1 [] OTHER -> 0
           p == pm_low(c, d)
           e == [p EXCEPT !.state = s]
<1>1. change_state(m, s) = wake_waiting_state(e, was)
  BY DEF change_state
<1>2. c \in ModemRecords
  <2>1. k \in ModemRecords
    BY SetupCleanupQuiet DEF Quiet
  <2> HIDE DEF k
  <2>2. [k EXCEPT !.cleanup = FALSE] \in ModemRecords
    BY <2>1, FlagsQuiet DEF Quiet
  <2> QED
    BY <2>2
<1> HIDE DEF c
<1>3. d \in Int
  OBVIOUS
<1> HIDE DEF d
<1>4. p \in ModemRecords
  BY <1>2, <1>3, PmQuiet DEF Quiet
<1> HIDE DEF p
<1>5. e \in ModemRecords /\ e.state = s
  <2>1. e \in ModemRecords
    BY <1>4 DEF ModemRecords
  <2>2. e.state = s
    BY <1>4 DEF ModemRecords
  <2> QED
    BY <2>1, <2>2
<1> HIDE DEF e
<1>6. was \in BOOLEAN
  OBVIOUS
<1> HIDE DEF was
<1>7. Quiet(e, wake_waiting_state(e, was)) /\ Sound(wake_waiting_state(e, was))
  BY <1>5, <1>6, WakeQuiet
<1> QED
  BY <1>1, <1>5, <1>7 DEF Quiet

LEMMA EnterType ==
  ASSUME NEW m \in ModemRecords, NEW l \in Levels
  PROVE  enter_level(m, l) \in ModemRecords
<1> DEFINE v == IF m.inter = l THEN LEVEL_MAX ELSE m.inter
<1>1. v \in Levels \cup {LEVEL_MAX}
  BY DEF ModemRecords
<1>2. enter_level(m, l) = [m EXCEPT !.level = l, !.inter = v]
  BY DEF enter_level
<1> HIDE DEF v
<1>3. [m EXCEPT !.level = l, !.inter = v] \in ModemRecords
  BY <1>1 DEF ModemRecords
<1> QED
  BY <1>2, <1>3

(* The state machine is run when the modem waits: nothing is left undone.  *)
LEMMA RunSound ==
  ASSUME NEW m \in ModemRecords
  PROVE  Sound(run_if_waiting(m))
<1> DEFINE d == run_if_waiting(m)
<1>1. [m EXCEPT !.run = "machine"] \in ModemRecords
      /\ [m EXCEPT !.run = "machine"].run = "machine"
  BY DEF ModemRecords
<1>2. CASE m.state = "WAITING" /\ m.run = "poll"
  <2>1. d = [m EXCEPT !.run = "machine"]
    BY <1>2 DEF run_if_waiting, in_state_machine, modem_do_state_machine
  <2> QED
    BY <1>1, <2>1 DEF Sound, Awake
<1>3. CASE ~(m.state = "WAITING" /\ m.run = "poll")
  <2>1. d = m
    BY <1>3 DEF run_if_waiting, in_state_machine, modem_do_state_machine, ModemRecords
  <2> QED
    BY <1>3, <2>1 DEF Sound, Awake
<1> QED
  BY <1>2, <1>3

LEMMA CancelType ==
  ASSUME NEW m \in ModemRecords
  PROVE  cancel_full_poweroff(m) \in ModemRecords
<1> DEFINE r == remove_timer(m, "poweroff")
           o == [r EXCEPT !.off = TRUE]
           e == enter_level(o, POWERED_OFF)
<1>1. r \in ModemRecords
  BY RemoveTimerQuiet DEF Quiet
<1> HIDE DEF r
<1>2. o \in ModemRecords
  BY <1>1, FlagsQuiet DEF Quiet
<1> HIDE DEF o
<1>3. e \in ModemRecords
  BY <1>2, EnterType, LevelFacts
<1> HIDE DEF e
<1>4. change_state(e, "WAITING") \in ModemRecords
  BY <1>3, ChangeSound DEF Sound, States
<1> QED
  BY <1>4 DEF cancel_full_poweroff, e, o, r

LEMMA RequestSound ==
  ASSUME NEW m \in ModemRecords, NEW l \in Levels
  PROVE  Sound(ubmodem_request_level(m, l))
<1> DEFINE t == [m EXCEPT !.target = IF m.force < LEVEL_MAX THEN m.force ELSE l]
<1>1. (IF m.force < LEVEL_MAX THEN m.force ELSE l) \in Levels
  BY LevelFacts DEF ModemRecords
<1>2. t \in ModemRecords
  BY <1>1 DEF ModemRecords
<1>3. ubmodem_request_level(m, l) = run_if_waiting(cancel_full_poweroff(t))
  BY DEF ubmodem_request_level
<1> HIDE DEF t
<1> QED
  BY <1>2, <1>3, CancelType, RunSound

LEMMA RetrySound ==
  ASSUME NEW m \in ModemRecords, NEW l \in Levels
  PROVE  Sound(retry_current_level(m, l))
<1>1. [m EXCEPT !.inter = l] \in ModemRecords
  BY DEF ModemRecords
<1> QED
  BY <1>1, RunSound DEF retry_current_level

LEMMA PublishSound ==
  ASSUME NEW m \in ModemRecords
  PROVE  publish_event(m) \in ModemRecords /\ (Sound(m) => Sound(publish_event(m)))
<1>1. CASE m.ask = NOTHING
  BY <1>1 DEF publish_event
<1>2. CASE m.ask # NOTHING
  <2>1. m.ask \in Levels
    BY <1>2 DEF ModemRecords
  <2>2. Sound(ubmodem_request_level(m, m.ask))
    BY <2>1, RequestSound
  <2> QED
    BY <1>2, <2>2 DEF publish_event, Sound
<1> QED
  BY <1>1, <1>2

LEMMA ReachedSound ==
  ASSUME NEW m, Sound(m), NEW l \in Levels
  PROVE  Sound(reached_level(m, l))
<1> DEFINE e == enter_level(m, l)
           b == IF l = m.target THEN publish_event(e) ELSE e
<1>1. m \in ModemRecords
  BY DEF Sound
<1>2. CASE l = m.level
  <2> DEFINE a == reached_level(m, l)
  <2>1. a = m \/ a = [m EXCEPT !.run = "stop", !.fail = "same level reached"]
    BY <1>2 DEF reached_level, DEBUGASSERT, assert
  <2> HIDE DEF a
  <2>2. Quiet(m, a)
    BY <1>1, <2>1, AssertQuiet DEF Failures
  <2> QED
    BY <2>2, QuietSound DEF a
<1>3. CASE l # m.level
  <2>1. reached_level(m, l) = change_state(b, "WAITING")
    BY <1>3 DEF reached_level
  <2>2. e \in ModemRecords
    BY <1>1, EnterType
  <2> HIDE DEF e
  <2>3. b \in ModemRecords
    BY <2>2, PublishSound
  <2> HIDE DEF b
  <2> QED
    BY <2>1, <2>3, ChangeSound DEF States
<1> QED
  BY <1>2, <1>3

LEMMA FailedSound ==
  ASSUME NEW m, Sound(m)
  PROVE  Sound(level_transition_failed(m))
<1> DEFINE t == [m EXCEPT !.target = m.level]
           c == change_state(t, "WAITING")
           w == publish_event(c)
<1>1. m \in ModemRecords
  BY DEF Sound
<1>2. level_transition_failed(m) =
        IF m.target = POWERED_OFF THEN reached_level(m, STUCK_HARDWARE)
        ELSE IF w.force < LEVEL_MAX /\ w.target # w.force
             THEN ubmodem_request_level(w, w.force) ELSE w
  BY DEF level_transition_failed
<1>3. t \in ModemRecords
  BY <1>1 DEF ModemRecords
<1> HIDE DEF t
<1>4. Sound(c)
  BY <1>3, ChangeSound DEF States
<1> HIDE DEF c
<1>5. Sound(w) /\ w \in ModemRecords
  BY <1>4, PublishSound DEF Sound
<1> HIDE DEF w
<1>6. w.force < LEVEL_MAX => w.force \in Levels
  BY <1>5, LevelFacts DEF ModemRecords
<1>7. w.force < LEVEL_MAX => Sound(ubmodem_request_level(w, w.force))
  BY <1>5, <1>6, RequestSound
<1>8. Sound(reached_level(m, STUCK_HARDWARE))
  BY ReachedSound, LevelFacts
<1> QED
  BY <1>2, <1>5, <1>7, <1>8

LEMMA AddTaskSound ==
  ASSUME NEW m \in ModemRecords, NEW k \in TaskKinds
  PROVE  Sound(add_task(m, k))
<1> DEFINE t == [m EXCEPT !.tasks = Append(m.tasks, k)]
<1>1. Append(m.tasks, k) \in Seq(TaskKinds)
  BY DEF ModemRecords
<1>2. t \in ModemRecords
  BY <1>1 DEF ModemRecords
<1>3. add_task(m, k) = wake_waiting_state(t, FALSE)
  BY DEF add_task
<1> HIDE DEF t
<1> QED
  BY <1>2, <1>3, WakeQuiet

-----------------------------------------------------------------------------
(* What the handlers end with, after changes that leave nothing to do.     *)

LEMMA TimerFacts ==
  /\ CregTimers \subseteq Timers /\ HighTimers \subseteq Timers
  /\ {"wake", "cmd", "delay", "poweroff", "gprs", "retry_upsnd", "info_retry"} \subseteq Timers
BY DEF Timers

LEMMA TimerSound ==
  ASSUME NEW m, NEW d, Sound(m), Quiet(m, d), NEW t \in Timers
  PROVE  Sound(set_timer(d, t)) /\ Sound(set_high_timer(d, t)) /\ Sound(set_creg_timer(d, t))
<1>1. Sound(d) /\ d \in ModemRecords
  BY QuietSound DEF Sound
<1> QED
  BY <1>1, SetTimerQuiet, SetHighQuiet, SetCregQuiet, QuietSound

LEMMA EndSound ==
  ASSUME NEW m, NEW d, Sound(m), Quiet(m, d)
  PROVE  /\ Sound(level_transition_failed(d))
         /\ \A l \in Levels : Sound(reached_level(d, l))
<1>1. Sound(d)
  BY QuietSound
<1> QED
  BY <1>1, FailedSound, ReachedSound

LEMMA OnOkSound ==
  ASSUME NEW m, Sound(m), NEW r, NEW next, Sound(next)
  PROVE  Sound(on_ok(m, r, next))
BY FailedSound DEF on_ok

LEMMA WaitSound ==
  ASSUME NEW m, Sound(m)
  PROVE  /\ m \in ModemRecords /\ Quiet(m, m) /\ Sound(change_state(m, "WAITING"))
BY QuietRefl, ChangeSound DEF Sound, States

LEMMA ResetQuiet ==
  ASSUME NEW m \in ModemRecords
  PROVE  Quiet(m, reset_sub(m)) /\ reset_sub(m) \in ModemRecords
<1>1. Quiet(m, reset_sub(m))
  BY SubQuiet, Literals, Zenon DEF reset_sub
<1> QED
  BY <1>1 DEF Quiet

-----------------------------------------------------------------------------
(* Power on and off.                                                       *)

LEMMA PowerOnTimerSound ==
  ASSUME NEW m, Sound(m)
  PROVE  Sound(modem_do_power_on_timer_handler(m))
<1> DEFINE h == pm_high(m, -1)
<1>1. m \in ModemRecords /\ Quiet(m, h) /\ h \in ModemRecords /\ Sound(h)
  BY PmQuiet, QuietSound DEF Sound
<1>2. h.pos = m.pos
  BY <1>1 DEF pm_high, ModemRecords
<1> HIDE DEF h
<1>3. CASE m.pos = 0 /\ m.vcc_off
  <2>1. Quiet(h, [h EXCEPT !.vcc_off = FALSE, !.pos = 1])
    BY <1>1, PowerQuiet, Literals, Zenon
  <2>2. modem_do_power_on_timer_handler(m)
          = set_high_timer([h EXCEPT !.vcc_off = FALSE, !.pos = 1], "power_on")
    BY <1>3 DEF modem_do_power_on_timer_handler, h
  <2> QED
    BY <1>1, <2>1, <2>2, TimerSound, TimerFacts DEF HighTimers
<1>4. CASE m.pos = 3 /\ m.flag /\ ~m.off
  <2>1. Quiet(h, [h EXCEPT !.pos = 4])
    BY <1>1, NumbersQuiet
  <2>2. modem_do_power_on_timer_handler(m) = reached_level([h EXCEPT !.pos = 4], POWERED_ON)
    BY <1>4 DEF modem_do_power_on_timer_handler, h
  <2> QED
    BY <1>1, <2>1, <2>2, EndSound, LevelFacts
<1>5. CASE m.pos = 5
  <2>1. Quiet(h, [h EXCEPT !.pos = 6, !.off = FALSE])
    BY <1>1, PowerQuiet, Literals, Zenon
  <2>2. modem_do_power_on_timer_handler(m)
          = reached_level([h EXCEPT !.pos = 6, !.off = FALSE], POWERED_ON)
    BY <1>5 DEF modem_do_power_on_timer_handler, h
  <2> QED
    BY <1>1, <2>1, <2>2, EndSound, LevelFacts
<1>6. CASE /\ ~(m.pos = 0 /\ m.vcc_off) /\ ~(m.pos = 3 /\ m.flag /\ ~m.off) /\ m.pos # 5
  <2>1. ASSUME NEW p \in Int PROVE Sound(set_high_timer([h EXCEPT !.pos = p], "power_on"))
    <3>1. Quiet(h, [h EXCEPT !.pos = p])
      BY <1>1, NumbersQuiet
    <3> QED
      BY <1>1, <3>1, TimerSound, TimerFacts DEF HighTimers
  <2>2. h.pos + 1 \in Int /\ 2 \in Int
    BY <1>1 DEF ModemRecords
  <2>3. \/ modem_do_power_on_timer_handler(m) = set_high_timer([h EXCEPT !.pos = 2], "power_on")
        \/ modem_do_power_on_timer_handler(m)
             = set_high_timer([h EXCEPT !.pos = h.pos + 1], "power_on")
    BY <1>6 DEF modem_do_power_on_timer_handler, h
  <2> QED
    BY <2>1, <2>2, <2>3
<1> QED
  BY <1>3, <1>4, <1>5, <1>6

LEMMA PowerOnSound ==
  ASSUME NEW m, Sound(m)
  PROVE  Sound(start_do_power_on(m))
<1> DEFINE a == DEBUGASSERT(m, m.level = POWERED_OFF, "wrong level")
           r == reset_sub(a)
           p == pm_high(r, 1)
<1>1. a = m \/ a = [m EXCEPT !.run = "stop", !.fail = "wrong level"]
  BY DEF DEBUGASSERT, assert
<1>2. start_do_power_on(m) = IF ~m.off THEN reached_level(a, POWERED_ON)
                             ELSE modem_do_power_on_timer_handler(p)
  BY DEF start_do_power_on
<1> HIDE DEF a
<1>3. Quiet(m, a) /\ a \in ModemRecords
  BY <1>1, AssertQuiet DEF Failures, Sound
<1>4. Quiet(a, r) /\ r \in ModemRecords
  BY <1>3, ResetQuiet
<1> HIDE DEF r
<1>5. Quiet(r, p)
  BY <1>4, PmQuiet
<1> HIDE DEF p
<1>6. Sound(p)
  BY <1>3, <1>4, <1>5, QuietSound
<1> QED
  BY <1>2, <1>3, <1>6, EndSound, PowerOnTimerSound, LevelFacts

LEMMA ResetSound ==
  ASSUME NEW m, Sound(m)
  PROVE  Sound(start_do_reset(m))
<1> DEFINE r == reset_sub(m)
           f == [r EXCEPT !.flag = TRUE]
           p == pm_high(f, 1)
<1>1. Quiet(m, r) /\ r \in ModemRecords
  BY ResetQuiet DEF Sound
<1> HIDE DEF r
<1>2. Quiet(r, f) /\ f \in ModemRecords
  BY <1>1, FlagsQuiet DEF Quiet
<1> HIDE DEF f
<1>3. Quiet(f, p)
  BY <1>2, PmQuiet
<1> HIDE DEF p
<1>4. Sound(p)
  BY <1>1, <1>2, <1>3, QuietSound
<1> QED
  BY <1>4, PowerOnTimerSound DEF start_do_reset, p, f, r

LEMMA PowerOffSound ==
  ASSUME NEW m, Sound(m), NEW r
  PROVE  /\ Sound(modem_do_power_off_timer_handler(m))
         /\ Sound(CPWROFF_handler(m, r))
         /\ Sound(start_do_power_off(m))
<1>1. m \in ModemRecords /\ Quiet(m, m)
  BY WaitSound
<1>2. Sound(modem_do_power_off_timer_handler(m))
  <2>1. Quiet(m, [m EXCEPT !.vcc_off = TRUE, !.off = TRUE])
    BY <1>1, PowerQuiet, Literals, Zenon
  <2> QED
    BY <2>1, EndSound, LevelFacts DEF modem_do_power_off_timer_handler
<1>3. Sound(CPWROFF_handler(m, r))
  <2>1. Quiet(m, [m EXCEPT !.off = TRUE])
    BY <1>1, FlagsQuiet
  <2> QED
    BY <1>1, <2>1, EndSound, TimerSound, TimerFacts, LevelFacts DEF CPWROFF_handler
<1>4. Sound(start_do_power_off(m))
  BY <1>1, NetworkCleanupQuiet, SendSound DEF start_do_power_off, Commands
<1> QED
  BY <1>2, <1>3, <1>4

-----------------------------------------------------------------------------
(* Command prompt and SIM.                                                 *)

(* A handler may count: n, pos or both.                                    *)
LEMMA CountQuiet ==
  ASSUME NEW m \in ModemRecords
  PROVE  /\ Quiet(m, [m EXCEPT !.n = m.n + 1]) /\ Quiet(m, [m EXCEPT !.n = m.n - 1])
         /\ Quiet(m, [m EXCEPT !.pos = m.pos + 1])
         /\ Quiet(m, [m EXCEPT !.n = 0]) /\ Quiet(m, [m EXCEPT !.pos = 0])
         /\ Quiet(m, [m EXCEPT !.n = m.n + 1, !.pos = m.pos - 1])
<1>1. m.n + 1 \in Int /\ m.n - 1 \in Int /\ m.pos + 1 \in Int /\ m.pos - 1 \in Int
  BY DEF ModemRecords
<1>2. Quiet(m, [m EXCEPT !.n = m.n + 1]) /\ Quiet(m, [m EXCEPT !.n = m.n - 1])
  BY <1>1, NumbersQuiet
<1>3. Quiet(m, [m EXCEPT !.pos = m.pos + 1])
  BY <1>1, NumbersQuiet
<1>4. Quiet(m, [m EXCEPT !.n = 0]) /\ Quiet(m, [m EXCEPT !.pos = 0])
  BY NumbersQuiet
<1>5. Quiet(m, [m EXCEPT !.n = m.n + 1, !.pos = m.pos - 1])
  BY <1>1, SubQuiet, Zenon
<1> QED
  BY <1>2, <1>3, <1>4, <1>5

LEMMA RetrySendSound ==
  ASSUME NEW m, Sound(m), NEW c \in Commands, NEW again
  PROVE  Sound(retry_or_fail(m, c, again))
<1> DEFINE t == [m EXCEPT !.n = m.n + 1]
<1>1. Quiet(m, t)
  BY CountQuiet DEF Sound
<1>2. retry_or_fail(m, c, again)
        = IF again /\ t.n < MaxTry THEN send_cmd(t, c) ELSE level_transition_failed(t)
  BY DEF retry_or_fail
<1> HIDE DEF t
<1> QED
  BY <1>1, <1>2, SendSound, EndSound

(* The sequence of configuration commands goes on or is over.              *)
LEMMA ConfigureSound ==
  ASSUME NEW m, Sound(m)
  PROVE  Sound(cmdprompt_configure_next(m))
<1>1. Quiet(m, [m EXCEPT !.pos = m.pos + 1]) /\ Quiet(m, m)
  BY CountQuiet, QuietRefl DEF Sound
<1> QED
  BY <1>1, SendSound, EndSound, LevelFacts DEF cmdprompt_configure_next, Commands

LEMMA PromptSound ==
  ASSUME NEW m, Sound(m), NEW r
  PROVE  /\ Sound(initial_handler(m, r)) /\ Sound(enable_hw_flowcontrol_handler(m, r))
         /\ Sound(CMEE_handler(m, r)) /\ Sound(INVALIDCOMMANDTEST_handler(m, r))
         /\ Sound(CFUN_0_handler(m, r)) /\ Sound(COPS_2_handler(m, r))
         /\ Sound(cmdprompt_generic_config_handler(m, r))
         /\ Sound(delay_after_initial_handler(m))
         /\ Sound(start_setup_cmd_prompt(m))
<1>1. m \in ModemRecords /\ Quiet(m, m) /\ Quiet(m, reset_sub(m)) /\ Quiet(m, pm_high(m, -1))
  BY WaitSound, ResetQuiet, PmQuiet
<1>2. "after_initial" \in Timers
  BY TimerFacts DEF HighTimers
<1>3. Sound(initial_handler(m, r))
  BY <1>1, <1>2, TimerSound, RetrySendSound DEF initial_handler, Commands
<1>4. Sound(enable_hw_flowcontrol_handler(m, r))
  BY <1>1, SendSound, RetrySendSound DEF enable_hw_flowcontrol_handler, Commands
<1>5. Sound(CMEE_handler(m, r))
  BY <1>1, SendSound, RetrySendSound DEF CMEE_handler, Commands
<1>6. Sound(INVALIDCOMMANDTEST_handler(m, r))
  BY <1>1, <1>2, SendSound, TimerSound DEF INVALIDCOMMANDTEST_handler, Commands
<1>7. Sound(CFUN_0_handler(m, r))
  BY <1>1, SendSound, OnOkSound DEF CFUN_0_handler, Commands
<1>8. Sound(COPS_2_handler(m, r))
  <2>1. Sound([m EXCEPT !.pos = 0])
    BY <1>1, CountQuiet, QuietSound
  <2>2. Sound(cmdprompt_configure_next([m EXCEPT !.pos = 0]))
    BY <2>1, ConfigureSound
  <2> QED
    BY <2>2, OnOkSound DEF COPS_2_handler
<1>9. Sound(cmdprompt_generic_config_handler(m, r))
  <2>1. /\ Sound([m EXCEPT !.n = 0])
        /\ Sound([m EXCEPT !.n = m.n + 1])
        /\ Sound([m EXCEPT !.n = m.n + 1, !.pos = m.pos - 1])
    BY <1>1, CountQuiet, QuietSound
  <2> QED
    BY <2>1, ConfigureSound, FailedSound DEF cmdprompt_generic_config_handler
<1>10. Sound(delay_after_initial_handler(m))
  BY <1>1, SendSound DEF delay_after_initial_handler, Commands
<1>11. Sound(start_setup_cmd_prompt(m))
  <2> DEFINE a == DEBUGASSERT(m, m.level = POWERED_ON, "wrong level")
  <2>1. a = m \/ a = [m EXCEPT !.run = "stop", !.fail = "wrong level"]
    BY DEF DEBUGASSERT, assert
  <2> HIDE DEF a
  <2>2. Sound(a) /\ a \in ModemRecords
    BY <1>1, <2>1, AssertQuiet, QuietSound DEF Failures
  <2>3. Sound(send_cmd(reset_sub(a), "initial"))
    BY <2>2, ResetQuiet, SendSound DEF Commands
  <2> QED
    BY <2>3 DEF start_setup_cmd_prompt, a
<1> QED
  BY <1>3, <1>4, <1>5, <1>6, <1>7, <1>8, <1>9, <1>10, <1>11

LEMMA SimSound ==
  ASSUME NEW m, Sound(m), NEW r
  PROVE  /\ Sound(modem_setup_sim_retry_timer_handler(m)) /\ Sound(check_CPIN_handler(m, r))
         /\ Sound(set_CPIN_handler(m, r)) /\ Sound(start_setup_sim(m))
<1>1. /\ m \in ModemRecords /\ Quiet(m, m) /\ Quiet(m, reset_sub(m))
      /\ Quiet(m, pm_high(m, -1)) /\ Quiet(m, [m EXCEPT !.n = m.n + 1])
  <2>1. m \in ModemRecords
    BY WaitSound
  <2>2. Quiet(m, [m EXCEPT !.n = m.n + 1])
    BY <2>1, CountQuiet
  <2>3. Quiet(m, m) /\ Quiet(m, reset_sub(m)) /\ Quiet(m, pm_high(m, -1))
    BY <2>1, WaitSound, ResetQuiet, PmQuiet
  <2> QED
    BY <2>1, <2>2, <2>3
<1>2. "sim_retry" \in Timers
  BY TimerFacts DEF HighTimers
<1>3. Sound(modem_setup_sim_retry_timer_handler(m))
  BY <1>1, SendSound DEF modem_setup_sim_retry_timer_handler, Commands
<1>4. Sound(check_CPIN_handler(m, r))
  <2>1. Sound(set_high_timer([m EXCEPT !.n = m.n + 1], "sim_retry"))
    BY <1>1, <1>2, TimerSound
  <2>2. /\ Sound(reached_level(m, SIM_ENABLED)) /\ Sound(send_cmd(m, "set_CPIN"))
        /\ Sound(level_transition_failed(m))
    BY <1>1, EndSound, SendSound, LevelFacts DEF Commands
  <2> QED
    BY <2>1, <2>2 DEF check_CPIN_handler
<1>5. Sound(set_CPIN_handler(m, r))
  BY <1>1, SendSound, OnOkSound DEF set_CPIN_handler, Commands
<1>6. Sound(start_setup_sim(m))
  <2> DEFINE a == DEBUGASSERT(m, m.level = CMD_PROMPT, "wrong level")
             s == reset_sub(a)
             f == [s EXCEPT !.flag = TRUE]
  <2>1. a = m \/ a = [m EXCEPT !.run = "stop", !.fail = "wrong level"]
    BY DEF DEBUGASSERT, assert
  <2> HIDE DEF a
  <2>2. Sound(a) /\ a \in ModemRecords
    BY <1>1, <2>1, AssertQuiet, QuietSound DEF Failures
  <2>3. Sound(s) /\ s \in ModemRecords
    BY <2>2, ResetQuiet, QuietSound
  <2> HIDE DEF s
  <2>4. Quiet(s, f)
    BY <2>3, FlagsQuiet
  <2> HIDE DEF f
  <2>5. Sound(set_high_timer(f, "sim_retry"))
    BY <1>2, <2>3, <2>4, TimerSound
  <2> QED
    BY <2>5 DEF start_setup_sim, a, s, f
<1> QED
  BY <1>3, <1>4, <1>5, <1>6

-----------------------------------------------------------------------------
(* Network.                                                                *)

LEMMA CheckSound ==
  ASSUME NEW m, Sound(m), NEW name \in Failures, NEW a,
         a = m \/ a = [m EXCEPT !.run = "stop", !.fail = name]
  PROVE  Sound(a) /\ a \in ModemRecords /\ Quiet(m, a)
<1>1. m \in ModemRecords
  BY DEF Sound
<1>2. Quiet(m, a) /\ a \in ModemRecords
  BY <1>1, AssertQuiet
<1> QED
  BY <1>2, QuietSound

LEMMA SetupNetworkSound ==
  ASSUME NEW m, Sound(m)
  PROVE  Sound(start_setup_network(m))
<1> DEFINE a == DEBUGASSERT(m, m.level = SIM_ENABLED, "wrong level")
           b == DEBUGASSERT(a, ~m.creg, "+CREG handler left")
           c == DEBUGASSERT(b, m.timers \cap CregTimers = {}, "creg timer left")
           r == reset_sub(c)
           d == [r EXCEPT !.net = "ENABLING_CREG", !.got = FALSE, !.keep = FALSE,
                          !.cleanup = TRUE]
<1>1. a = m \/ a = [m EXCEPT !.run = "stop", !.fail = "wrong level"]
  BY DEF DEBUGASSERT, assert
<1>2. b = a \/ b = [a EXCEPT !.run = "stop", !.fail = "+CREG handler left"]
  BY DEF DEBUGASSERT, assert
<1>3. c = b \/ c = [b EXCEPT !.run = "stop", !.fail = "creg timer left"]
  BY DEF DEBUGASSERT, assert
<1>4. start_setup_network(m) = send_cmd(d, "CREG")
  BY DEF start_setup_network
<1> HIDE DEF a, b, c
<1>5. Sound(a)
  BY <1>1, CheckSound DEF Failures
<1>6. Sound(b)
  BY <1>2, <1>5, CheckSound DEF Failures
<1>7. Sound(c) /\ c \in ModemRecords
  BY <1>3, <1>6, CheckSound DEF Failures
<1>8. Sound(r) /\ r \in ModemRecords
  BY <1>7, ResetQuiet, QuietSound
<1> HIDE DEF r
<1>9. "ENABLING_CREG" \in NetworkStates
  BY DEF NetworkStates
<1>10. Quiet(r, d)
  BY <1>8, <1>9, NetQuiet, Literals, Zenon
<1> HIDE DEF d
<1> QED
  BY <1>4, <1>8, <1>10, SendSound DEF Commands

LEMMA CregHandlerSound ==
  ASSUME NEW m, Sound(m), NEW r
  PROVE  Sound(CREG_handler(m, r))
<1> DEFINE u == register_urc(m, "registration")
           d == [u EXCEPT !.creg = TRUE, !.net = "ENABLING_RF"]
<1>1. Quiet(m, u)
  BY RegisterUrcQuiet DEF Sound, UrcHandlers
<1> HIDE DEF u
<1>2. Sound(u) /\ u \in ModemRecords
  BY <1>1, QuietSound DEF Quiet
<1>3. "ENABLING_RF" \in NetworkStates
  BY DEF NetworkStates
<1>4. Quiet(u, d)
  BY <1>2, <1>3, NetQuiet, Literals, Zenon
<1> HIDE DEF d
<1>5. Sound(send_cmd(d, "CFUN_1"))
  BY <1>2, <1>4, SendSound DEF Commands
<1> QED
  BY <1>5, OnOkSound DEF CREG_handler, d, u

LEMMA RegisterStepsSound ==
  ASSUME NEW m, Sound(m), NEW r
  PROVE  /\ Sound(CFUN_1_handler(m, r)) /\ Sound(disable_COPS_handler(m, r))
         /\ Sound(network_start_register_handler(m)) /\ Sound(retry_COPS_handler(m, r))
<1>1. m \in ModemRecords
  BY DEF Sound
<1>2. {"STARTING", "WAITING", "RETRYING"} \subseteq NetworkStates
  BY DEF NetworkStates
<1>3. {"start_register", "register_timeout"} \subseteq Timers
  BY TimerFacts DEF CregTimers
<1>4. Sound(CFUN_1_handler(m, r))
  <2>1. Quiet(m, [m EXCEPT !.net = "STARTING"])
    BY <1>1, <1>2, FieldsQuiet
  <2> QED
    BY <2>1, SendSound, OnOkSound DEF CFUN_1_handler, Commands
<1>5. Sound(disable_COPS_handler(m, r))
  <2>1. Quiet(m, [m EXCEPT !.net = "WAITING"])
    BY <1>1, <1>2, FieldsQuiet
  <2> QED
    BY <1>3, <2>1, TimerSound, FailedSound DEF disable_COPS_handler
<1>6. Sound(network_start_register_handler(m))
  <2> DEFINE p == pm_low(m, -1)
             d == [p EXCEPT !.net = "RETRYING", !.got = FALSE]
  <2>1. Sound(p) /\ p \in ModemRecords
    BY <1>1, PmQuiet, QuietSound DEF Quiet
  <2> HIDE DEF p
  <2>2. Quiet(p, d)
    BY <1>2, <2>1, NetQuiet, Literals, Zenon
  <2> HIDE DEF d
  <2>3. Sound(send_cmd(d, "retry_COPS"))
    BY <2>1, <2>2, SendSound DEF Commands
  <2> QED
    BY <2>3 DEF network_start_register_handler, d, p
<1>7. Sound(retry_COPS_handler(m, r))
  <2> DEFINE a == DEBUGASSERT(m, m.net = "RETRYING", "not retrying")
             d == [a EXCEPT !.net = "WAITING"]
  <2>1. a = m \/ a = [m EXCEPT !.run = "stop", !.fail = "not retrying"]
    BY DEF DEBUGASSERT, assert
  <2>2. retry_COPS_handler(m, r) = IF r \in {"OK", "CODE"} THEN set_creg_timer(d, "register_timeout")
                                   ELSE level_transition_failed(m)
    BY DEF retry_COPS_handler
  <2> HIDE DEF a
  <2>3. Sound(a) /\ a \in ModemRecords
    BY <2>1, CheckSound DEF Failures
  <2>4. Quiet(a, d)
    BY <1>2, <2>3, FieldsQuiet
  <2> HIDE DEF d
  <2> QED
    BY <1>3, <2>2, <2>3, <2>4, TimerSound, FailedSound
<1> QED
  BY <1>4, <1>5, <1>6, <1>7

LEMMA RegisteredSound ==
  ASSUME NEW m, Sound(m)
  PROVE  Sound(network_registration_successed(m))
<1> DEFINE v == unregister_urc(m, "+CREG")
           u == register_urc(v, "monitor")
           a == DEBUGASSERT(u, m.creg, "+CREG handler not registered")
           d == [a EXCEPT !.keep = TRUE]
<1>1. a = u \/ a = [u EXCEPT !.run = "stop", !.fail = "+CREG handler not registered"]
  BY DEF DEBUGASSERT, assert
<1>2. network_registration_successed(m) = reached_level(d, NETWORK)
  BY DEF network_registration_successed
<1> HIDE DEF a
<1>3. Sound(v) /\ v \in ModemRecords
  BY UnregisterUrcQuiet, QuietSound DEF Sound
<1> HIDE DEF v
<1>4. Sound(u)
  BY <1>3, RegisterUrcQuiet, QuietSound DEF UrcHandlers
<1> HIDE DEF u
<1>5. Sound(a) /\ a \in ModemRecords
  BY <1>1, <1>4, CheckSound DEF Failures
<1>6. Quiet(a, d)
  BY <1>5, FlagsQuiet
<1> HIDE DEF d
<1> QED
  BY <1>2, <1>5, <1>6, EndSound, LevelFacts

LEMMA RetryRegistrationSound ==
  ASSUME NEW m, Sound(m)
  PROVE  /\ Sound(network_retry_registration_timer_handler(m))
         /\ Sound(network_register_timeout_handler(m))
<1> DEFINE p == pm_low(m, -1)
<1>1. Sound(p) /\ p \in ModemRecords
  BY PmQuiet, QuietSound DEF Quiet, Sound
<1>2. Sound(network_retry_registration_timer_handler(m))
  <2> DEFINE t == DEBUGASSERT(p, m.net = "RETRYING", "not retrying")
  <2>1. t = p \/ t = [p EXCEPT !.run = "stop", !.fail = "not retrying"]
    BY DEF DEBUGASSERT, assert
  <2>2. network_retry_registration_timer_handler(m)
          = IF m.got THEN network_registration_successed(t) ELSE send_cmd(t, "retry_COPS")
    BY DEF network_retry_registration_timer_handler
  <2> HIDE DEF t, p
  <2>3. Sound(t) /\ Quiet(p, t)
    BY <1>1, <2>1, CheckSound DEF Failures
  <2> QED
    BY <1>1, <2>2, <2>3, RegisteredSound, SendSound DEF Commands
<1>3. Sound(network_register_timeout_handler(m))
  <2>1. network_register_timeout_handler(m)
          = level_transition_failed(retry_current_level(network_cleanup(p), SIM_ENABLED))
    BY DEF network_register_timeout_handler
  <2> HIDE DEF p
  <2>2. Sound(retry_current_level(network_cleanup(p), SIM_ENABLED))
    BY <1>1, NetworkCleanupQuiet, RetrySound, LevelFacts
  <2> QED
    BY <2>1, <2>2, FailedSound
<1> QED
  BY <1>2, <1>3

LEMMA RegistrationUrcSound ==
  ASSUME NEW m, Sound(m), NEW val
  PROVE  Sound(registration_urc_pCREG_handler(m, val))
<1> DEFINE a == DEBUGASSERT(m, m.state = "IN_SUBSTATE", "+CREG outside the sub-state")
           c == remove_creg_timer(a)
           d == [c EXCEPT !.net = "RETRYING", !.got = FALSE]
           g == [a EXCEPT !.got = TRUE]
<1>1. a = m \/ a = [m EXCEPT !.run = "stop", !.fail = "+CREG outside the sub-state"]
  BY DEF DEBUGASSERT, assert
<1>2. registration_urc_pCREG_handler(m, val)
        \in {network_registration_successed(a), g, set_creg_timer(d, "retry_registration"), a}
  BY DEF registration_urc_pCREG_handler
<1> HIDE DEF a
<1>3. Sound(a) /\ a \in ModemRecords
  BY <1>1, CheckSound DEF Failures
<1>4. Sound(c) /\ c \in ModemRecords
  BY <1>3, RemoveCregQuiet, QuietSound DEF Quiet
<1> HIDE DEF c
<1>5. "RETRYING" \in NetworkStates
  BY DEF NetworkStates
<1>6. Quiet(c, d)
  BY <1>4, <1>5, NetQuiet, Literals, Zenon
<1> HIDE DEF d
<1>7. Sound(set_creg_timer(d, "retry_registration"))
  BY <1>4, <1>6, TimerSound, TimerFacts DEF CregTimers
<1>8. Sound(g)
  BY <1>3, FlagsQuiet, QuietSound
<1> QED
  BY <1>2, <1>3, <1>7, <1>8, RegisteredSound

LEMMA MonitorUrcSound ==
  ASSUME NEW m, Sound(m), NEW val
  PROVE  Sound(monitor_urc_pCREG_handler(m, val))
<1> DEFINE c == remove_creg_timer(m)
           u == unregister_creg(c)
<1>1. Sound(c) /\ c \in ModemRecords
  BY RemoveCregQuiet, QuietSound DEF Quiet, Sound
<1>2. monitor_urc_pCREG_handler(m, val) = IF val = "home" THEN c ELSE add_task(u, "retry_sim")
  BY DEF monitor_urc_pCREG_handler
<1> HIDE DEF c
<1>3. u \in ModemRecords
  BY <1>1, UnregisterCregQuiet DEF Quiet
<1> HIDE DEF u
<1> QED
  BY <1>1, <1>2, <1>3, AddTaskSound DEF TaskKinds

LEMMA DisconnectSound ==
  ASSUME NEW m, Sound(m), NEW r
  PROVE  /\ Sound(start_disconnect_network(m)) /\ Sound(COPS_off_handler(m, r))
         /\ Sound(network_unregister_timer_handler(m)) /\ Sound(CFUN_off_handler(m, r))
<1>1. m \in ModemRecords /\ Quiet(m, m) /\ Quiet(m, pm_high(m, -1))
  BY WaitSound, PmQuiet
<1>2. Sound(start_disconnect_network(m))
  <2> DEFINE a == DEBUGASSERT(m, m.level \in {NETWORK, GPRS}, "wrong level")
             c == network_cleanup(a)
             s == reset_sub(c)
             d == [s EXCEPT !.net = "DISCONNECTING", !.got = FALSE, !.keep = FALSE]
  <2>1. a = m \/ a = [m EXCEPT !.run = "stop", !.fail = "wrong level"]
    BY DEF DEBUGASSERT, assert
  <2>2. start_disconnect_network(m) = send_cmd(d, "COPS_off")
    BY DEF start_disconnect_network
  <2> HIDE DEF a
  <2>3. Sound(a) /\ a \in ModemRecords
    BY <2>1, CheckSound DEF Failures
  <2>4. Sound(c) /\ c \in ModemRecords
    BY <2>3, NetworkCleanupQuiet, QuietSound
  <2> HIDE DEF c
  <2>5. Sound(s) /\ s \in ModemRecords
    BY <2>4, ResetQuiet, QuietSound
  <2> HIDE DEF s
  <2>6. "DISCONNECTING" \in NetworkStates
    BY DEF NetworkStates
  <2>7. Quiet(s, d)
    BY <2>5, <2>6, NetQuiet, Literals, Zenon
  <2> HIDE DEF d
  <2> QED
    BY <2>2, <2>5, <2>7, SendSound DEF Commands
<1>3. Sound(COPS_off_handler(m, r))
  BY <1>1, TimerSound, OnOkSound, TimerFacts DEF COPS_off_handler, HighTimers
<1>4. Sound(network_unregister_timer_handler(m))
  BY <1>1, SendSound DEF network_unregister_timer_handler, Commands
<1>5. Sound(CFUN_off_handler(m, r))
  BY <1>1, EndSound, OnOkSound, LevelFacts DEF CFUN_off_handler
<1> QED
  BY <1>2, <1>3, <1>4, <1>5

-----------------------------------------------------------------------------
(* GPRS.                                                                   *)

LEMMA PdpStepsSound ==
  ASSUME NEW m, Sound(m)
  PROVE  /\ Sound(start_setup_internal_pdp_context(m)) /\ Sound(start_configuring_pdp_context(m))
         /\ Sound(send_next_apn_configuration(m))
<1>1. m \in ModemRecords
  BY DEF Sound
<1>2. Sound(start_setup_internal_pdp_context(m))
  <2>1. Quiet(m, [m EXCEPT !.n = 0])
    BY <1>1, CountQuiet
  <2> QED
    BY <2>1, SendSound DEF start_setup_internal_pdp_context, Commands
<1>3. Sound(start_configuring_pdp_context(m))
  <2>1. Quiet(m, [m EXCEPT !.pos = -1])
    BY <1>1, NumbersQuiet, Literals, Zenon
  <2> QED
    BY <2>1, SendSound DEF start_configuring_pdp_context, Commands
<1>4. Sound(send_next_apn_configuration(m))
  <2> DEFINE t == [m EXCEPT !.pos = m.pos + 1]
             c == IF t.pos < NumApn THEN "UPSD" ELSE "activate"
  <2>1. Quiet(m, t)
    BY <1>1, CountQuiet
  <2>2. c \in Commands
    BY DEF Commands
  <2>3. send_next_apn_configuration(m) = send_cmd(t, c)
    BY DEF send_next_apn_configuration
  <2> HIDE DEF t, c
  <2> QED
    BY <2>1, <2>2, <2>3, SendSound
<1> QED
  BY <1>2, <1>3, <1>4

LEMMA AttachSound ==
  ASSUME NEW m, Sound(m), NEW r
  PROVE  /\ Sound(start_open_gprs(m)) /\ Sound(check_CGATT_handler(m, r))
         /\ Sound(retry_check_cgatt(m)) /\ Sound(set_CGATT_handler(m, r))
         /\ Sound(modem_set_cgatt_retry_timer_handler(m))
<1>1. m \in ModemRecords /\ Quiet(m, m) /\ Quiet(m, pm_high(m, -1))
  BY WaitSound, PmQuiet
<1>2. {"retry_cgatt", "set_cgatt"} \subseteq Timers
  BY TimerFacts DEF HighTimers
<1>3. Sound(start_open_gprs(m))
  <2> DEFINE a == DEBUGASSERT(m, m.level = NETWORK, "wrong level")
  <2>1. a = m \/ a = [m EXCEPT !.run = "stop", !.fail = "wrong level"]
    BY DEF DEBUGASSERT, assert
  <2> HIDE DEF a
  <2>2. Sound(a) /\ a \in ModemRecords
    BY <2>1, CheckSound DEF Failures
  <2>3. Sound(send_cmd(reset_sub(a), "check_CGATT"))
    BY <2>2, ResetQuiet, SendSound DEF Commands
  <2> QED
    BY <2>3 DEF start_open_gprs, a
<1>4. Sound(check_CGATT_handler(m, r))
  <2>1. MaxTry \in Int
    BY UbmodemAssumption
  <2>2. Quiet(m, [m EXCEPT !.n = MaxTry])
    BY <1>1, <2>1, NumbersQuiet
  <2>3. Sound(send_cmd([m EXCEPT !.n = MaxTry], "set_CGATT"))
    BY <2>2, SendSound DEF Commands
  <2>4. Sound(set_high_timer(m, "retry_cgatt"))
    BY <1>1, <1>2, TimerSound
  <2> QED
    BY <2>3, <2>4, PdpStepsSound, FailedSound DEF check_CGATT_handler
<1>5. Sound(retry_check_cgatt(m)) /\ Sound(modem_set_cgatt_retry_timer_handler(m))
  BY <1>1, SendSound DEF retry_check_cgatt, modem_set_cgatt_retry_timer_handler, Commands
<1>6. Sound(set_CGATT_handler(m, r))
  <2> DEFINE t == [m EXCEPT !.n = m.n - 1]
  <2>1. Quiet(m, t)
    BY <1>1, CountQuiet
  <2>2. set_CGATT_handler(m, r) = IF r = "OK" THEN start_setup_internal_pdp_context(m)
                                  ELSE IF t.n > 0 THEN set_high_timer(t, "set_cgatt")
                                  ELSE level_transition_failed(t)
    BY DEF set_CGATT_handler
  <2> HIDE DEF t
  <2> QED
    BY <1>2, <2>1, <2>2, PdpStepsSound, TimerSound, EndSound
<1> QED
  BY <1>3, <1>4, <1>5, <1>6

LEMMA PdpSound ==
  ASSUME NEW m, Sound(m), NEW r
  PROVE  /\ Sound(check_UPSND_handler(m, r)) /\ Sound(retry_upsnd_check(m))
         /\ Sound(deactivate_UPSDA_handler(m, r)) /\ Sound(UPSD_handler(m, r))
         /\ Sound(activate_UPSDA_handler(m, r)) /\ Sound(check_ipconfig_handler(m, r))
<1>1. m \in ModemRecords /\ Quiet(m, m)
  BY WaitSound
<1>2. Sound(check_UPSND_handler(m, r))
  <2>1. Quiet(m, [m EXCEPT !.n = m.n + 1])
    BY <1>1, CountQuiet
  <2>2. Sound(set_timer([m EXCEPT !.n = m.n + 1], "retry_upsnd"))
    BY <2>1, TimerSound, TimerFacts
  <2>3. Sound(send_cmd(m, "deactivate"))
    BY <1>1, SendSound DEF Commands
  <2> QED
    BY <2>2, <2>3, PdpStepsSound, FailedSound DEF check_UPSND_handler
<1>3. Sound(retry_upsnd_check(m))
  BY <1>1, SendSound DEF retry_upsnd_check, Commands
<1>4. Sound(deactivate_UPSDA_handler(m, r)) /\ Sound(UPSD_handler(m, r))
  BY PdpStepsSound, OnOkSound DEF deactivate_UPSDA_handler, UPSD_handler
<1>5. Sound(activate_UPSDA_handler(m, r))
  <2> DEFINE u == register_urc(m, "UUPSDD")
             d == [u EXCEPT !.uupsdd = TRUE, !.pos = 0]
  <2>1. Sound(u) /\ u \in ModemRecords
    BY <1>1, RegisterUrcQuiet, QuietSound DEF Quiet, UrcHandlers
  <2> HIDE DEF u
  <2>2. Quiet(u, d)
    BY <2>1, PdpQuiet, Literals, Zenon
  <2> HIDE DEF d
  <2>3. Sound(send_cmd(d, "ipconfig"))
    BY <2>1, <2>2, SendSound DEF Commands
  <2> QED
    BY <2>3, OnOkSound DEF activate_UPSDA_handler, d, u
<1>6. Sound(check_ipconfig_handler(m, r))
  <2>1. Quiet(m, [m EXCEPT !.pos = m.pos + 1])
    BY <1>1, CountQuiet
  <2>2. Quiet(m, [m EXCEPT !.pos = -1, !.sock = TRUE])
    BY <1>1, PdpQuiet, Literals, Zenon
  <2>3. Sound(send_cmd([m EXCEPT !.pos = m.pos + 1], "ipconfig"))
    BY <2>1, SendSound DEF Commands
  <2>4. Sound(reached_level([m EXCEPT !.pos = -1, !.sock = TRUE], GPRS))
    BY <2>2, EndSound, LevelFacts
  <2> QED
    BY <2>3, <2>4, OnOkSound DEF check_ipconfig_handler
<1> QED
  BY <1>2, <1>3, <1>4, <1>5, <1>6

LEMMA PdpLostSound ==
  ASSUME NEW m, Sound(m)
  PROVE  Sound(urc_pUUPSDD_handler(m)) /\ Sound(reattempt_gprs_connection_timer_handler(m))
<1>1. m \in ModemRecords
  BY DEF Sound
<1>2. Sound(urc_pUUPSDD_handler(m))
  <2> DEFINE u == unregister_uupsdd(m)
             g == remove_gprs_timer(u)
             t == set_timer(g, "gprs")
  <2>1. Sound(u) /\ u \in ModemRecords
    BY <1>1, UnregisterCregQuiet, QuietSound DEF Quiet
  <2> HIDE DEF u
  <2>2. Sound(g) /\ g \in ModemRecords
    BY <2>1, RemoveGprsQuiet, QuietSound DEF Quiet
  <2> HIDE DEF g
  <2>3. Sound(t) /\ t \in ModemRecords
    BY <2>2, SetTimerQuiet, QuietSound, TimerFacts DEF Quiet
  <2> HIDE DEF t
  <2>4. Sound(pm_low(t, 1))
    BY <2>3, PmQuiet, QuietSound
  <2> QED
    BY <2>4 DEF urc_pUUPSDD_handler, t, g, u
<1>3. Sound(reattempt_gprs_connection_timer_handler(m))
  <2>1. Sound(pm_low(m, -1)) /\ pm_low(m, -1) \in ModemRecords
    BY <1>1, PmQuiet, QuietSound DEF Quiet
  <2> QED
    BY <2>1, AddTaskSound DEF reattempt_gprs_connection_timer_handler, TaskKinds
<1> QED
  BY <1>2, <1>3

LEMMA CloseSound ==
  ASSUME NEW m, Sound(m), NEW c, NEW r
  PROVE  Sound(start_close_gprs(m)) /\ Sound(disable_CGATT_handler(m, c, r))
<1>1. m \in ModemRecords /\ Quiet(m, m)
  BY WaitSound
<1>2. Sound(start_close_gprs(m))
  <2> DEFINE a == DEBUGASSERT(m, m.level = GPRS, "wrong level")
             g == gprs_cleanup(a)
  <2>1. a = m \/ a = [m EXCEPT !.run = "stop", !.fail = "wrong level"]
    BY DEF DEBUGASSERT, assert
  <2> HIDE DEF a
  <2>2. Sound(a) /\ a \in ModemRecords
    BY <2>1, CheckSound DEF Failures
  <2>3. Sound(g) /\ g \in ModemRecords
    BY <2>2, GprsCleanupQuiet, QuietSound DEF Quiet
  <2> HIDE DEF g
  <2>4. Sound(send_cmd(reset_sub(g), "disable_CGATT"))
    BY <2>3, ResetQuiet, SendSound DEF Commands
  <2> QED
    BY <2>4 DEF start_close_gprs, g, a
<1>3. Sound(disable_CGATT_handler(m, c, r))
  <2> DEFINE t == IF c = "abort" THEN [m EXCEPT !.n = m.n + 1] ELSE m
  <2>1. Quiet(m, [m EXCEPT !.n = m.n + 1])
    BY <1>1, CountQuiet
  <2>2. Quiet(m, t)
    BY <1>1, <2>1
  <2>3. disable_CGATT_handler(m, c, r)
          \in {reached_level(m, NETWORK), modem_send_cmd(t, "abort"),
               reached_level(network_cleanup(t), STUCK_HARDWARE)}
    BY DEF disable_CGATT_handler
  <2> HIDE DEF t
  <2>4. Sound(t) /\ t \in ModemRecords
    BY <2>2, QuietSound DEF Sound
  <2>5. Sound(network_cleanup(t))
    BY <2>4, NetworkCleanupQuiet, QuietSound
  <2>6. Sound(modem_send_cmd(t, "abort"))
    BY <2>2, SendSound DEF Commands
  <2> QED
    BY <2>3, <2>5, <2>6, ReachedSound, LevelFacts
<1> QED
  BY <1>2, <1>3

-----------------------------------------------------------------------------
(* Tasks and socket work.                                                  *)

LEMMA CommandTaskSound ==
  ASSUME NEW m, Sound(m), NEW r
  PROVE  /\ Sound(start_raw_command(m)) /\ Sound(start_read_info(m))
         /\ Sound(modem_sim_retry_timer_handler(m)) /\ Sound(info_handler(m, r))
         /\ Sound(command_callback(m))
<1>1. ASSUME NEW d, Sound(d) PROVE Sound(start_raw_command(d)) /\ Sound(start_read_info(d))
  BY <1>1, WaitSound, SendSound DEF start_raw_command, start_read_info, Commands
<1>2. m \in ModemRecords /\ Quiet(m, m) /\ Sound(change_state(m, "WAITING"))
  BY WaitSound
<1>3. Sound(modem_sim_retry_timer_handler(m))
  <2>1. Sound([m EXCEPT !.n = m.n + 1])
    BY <1>2, CountQuiet, QuietSound
  <2> QED
    BY <1>1, <2>1 DEF modem_sim_retry_timer_handler
<1>4. Sound(info_handler(m, r))
  <2>1. Sound(set_timer(m, "info_retry"))
    BY <1>2, TimerSound, TimerFacts
  <2> QED
    BY <1>2, <2>1, FailedSound DEF info_handler
<1> QED
  BY <1>1, <1>2, <1>3, <1>4 DEF command_callback

LEMMA RecoveryTaskType ==
  ASSUME NEW m \in ModemRecords
  PROVE  /\ recover_modem_task(m) \in ModemRecords
         /\ retry_network_through_sim(m) \in ModemRecords
         /\ reinitialize_gprs_task(m) \in ModemRecords
<1>1. network_cleanup(m) \in ModemRecords
  BY NetworkCleanupQuiet
<1>2. ASSUME NEW d \in ModemRecords, NEW l \in Levels
      PROVE  retry_current_level(d, l) \in ModemRecords
  BY RetrySound DEF Sound
<1> QED
  BY <1>1, <1>2, LevelFacts
     DEF recover_modem_task, retry_network_through_sim, reinitialize_gprs_task

(* A task is taken from the queue while the state is DO_TASK_WORK.         *)
LEMMA TaskWorkSound ==
  ASSUME NEW m, Sound(m), m.state # "WAITING"
  PROVE  Sound(modem_do_task_work(m))
<1>1. m \in ModemRecords
  BY DEF Sound
<1>2. CASE m.tasks = << >>
  BY <1>2, WaitSound DEF modem_do_task_work
<1>3. CASE m.tasks # << >>
  <2> DEFINE k == Head(m.tasks)
             t == [m EXCEPT !.tasks = Tail(m.tasks)]
             z == [t EXCEPT !.n = 0]
  <2>1. Tail(m.tasks) \in Seq(TaskKinds)
    BY <1>1, <1>3 DEF ModemRecords
  <2>2. t \in ModemRecords /\ t.state = m.state
    <3> HIDE DEF k
    <3>1. t \in ModemRecords
      BY <1>1, <2>1 DEF ModemRecords
    <3>2. t.state = m.state
      BY <1>1 DEF ModemRecords
    <3> QED
      BY <3>1, <3>2
  <2>3. modem_do_task_work(m)
          \in {start_raw_command(t), start_read_info(z),
               change_state(recover_modem_task(t), "WAITING"),
               change_state(retry_network_through_sim(t), "WAITING"),
               change_state(reinitialize_gprs_task(t), "WAITING")}
    BY <1>3 DEF modem_do_task_work
  <2> HIDE DEF t
  <2>4. Sound(t)
    BY <2>2 DEF Sound, Awake
  <2>5. Sound(z)
    BY <2>2, <2>4, CountQuiet, QuietSound
  <2> HIDE DEF z
  <2>6. /\ Sound(change_state(recover_modem_task(t), "WAITING"))
        /\ Sound(change_state(retry_network_through_sim(t), "WAITING"))
        /\ Sound(change_state(reinitialize_gprs_task(t), "WAITING"))
    BY <2>2, RecoveryTaskType, ChangeSound DEF States
  <2> QED
    BY <2>3, <2>4, <2>5, <2>6, CommandTaskSound
<1> QED
  BY <1>2, <1>3

LEMMA SocketSound ==
  ASSUME NEW m, Sound(m), NEW r
  PROVE  Sound(do_usrsock_work(m)) /\ Sound(socket_handler(m, r))
<1>1. m \in ModemRecords
  BY DEF Sound
<1>2. Sound(do_usrsock_work(m))
  <2>1. Quiet(m, [m EXCEPT !.work = FALSE])
    BY <1>1 DEF Quiet, ModemRecords
  <2> QED
    BY <2>1, WaitSound, SendSound DEF do_usrsock_work, Commands
<1>3. Sound(socket_handler(m, r))
  <2>1. Sound(change_state(m, "WAITING"))
    BY WaitSound
  <2>2. ASSUME NEW k \in TaskKinds PROVE Sound(change_state(add_task(m, k), "WAITING"))
    BY <1>1, AddTaskSound, WaitSound
  <2> QED
    BY <2>1, <2>2 DEF socket_handler, TaskKinds
<1> QED
  BY <1>2, <1>3

-----------------------------------------------------------------------------
(* The main state machine.                                                 *)

LEMMA NextStateType ==
  ASSUME NEW m
  PROVE  waiting_next_state(m) \in States
BY DEF waiting_next_state, level_transition_matrix, States

LEMMA CaseSound ==
  ASSUME NEW m, Sound(m)
  PROVE  /\ Sound(state_machine_case(m))
         /\ m.state = "WAITING" /\ waiting_next_state(m) # "WAITING"
              => state_machine_case(m).state # "WAITING"
         /\ m.state \in {"WAITING", "IN_SUBSTATE"} /\ waiting_next_state(m) = "WAITING"
              => state_machine_case(m) = m
<1> DEFINE c == change_state(m, "IN_SUBSTATE")
           s == [c EXCEPT !.sub = m.state]
           n == waiting_next_state(m)
           d == state_machine_case(m)
<1>1. m \in ModemRecords /\ m.state \in States
  BY DEF Sound, ModemRecords
<1>2. Sound(c) /\ c \in ModemRecords
  BY <1>1, ChangeSound DEF Sound, States
<1>3. \/ m.state = "IN_SUBSTATE" /\ d = m
      \/ m.state = "WAITING" /\ n = "WAITING" /\ d = m
      \/ m.state = "WAITING" /\ n # "WAITING" /\ d = change_state(m, n)
      \/ m.state \notin {"WAITING", "IN_SUBSTATE"} /\
         d \in {modem_do_task_work(m), do_usrsock_work(m), start_do_power_on(s),
                start_do_reset(s), start_do_power_off(s), start_setup_cmd_prompt(s),
                start_setup_sim(s), start_setup_network(s), start_disconnect_network(s),
                start_open_gprs(s), start_close_gprs(s), reached_level(s, STUCK_HARDWARE)}
  BY <1>1 DEF state_machine_case, States
<1> HIDE DEF c, d
<1>4. Sound(s)
  BY <1>1, <1>2, FieldsQuiet, QuietSound
<1> HIDE DEF s
<1>5. n \in States
  BY NextStateType
<1> HIDE DEF n
<1>6. Sound(change_state(m, n)) /\ change_state(m, n).state = n
  BY <1>1, <1>5, ChangeSound
<1>7. m.state # "WAITING" => Sound(modem_do_task_work(m))
  BY TaskWorkSound
<1>8. /\ Sound(do_usrsock_work(m)) /\ Sound(start_do_power_on(s)) /\ Sound(start_do_reset(s))
      /\ Sound(start_do_power_off(s)) /\ Sound(start_setup_cmd_prompt(s))
      /\ Sound(start_setup_sim(s)) /\ Sound(start_setup_network(s))
      /\ Sound(start_disconnect_network(s)) /\ Sound(start_open_gprs(s))
      /\ Sound(start_close_gprs(s)) /\ Sound(reached_level(s, STUCK_HARDWARE))
  BY <1>4, SocketSound, PowerOnSound, ResetSound, PowerOffSound, PromptSound, SimSound,
     SetupNetworkSound, DisconnectSound, AttachSound, CloseSound, ReachedSound, LevelFacts
<1>9. Sound(d)
  BY <1>3, <1>6, <1>7, <1>8
<1> QED
  BY <1>3, <1>6, <1>9 DEF d, n

(* An iteration ends the loop only in a state with nothing to do, or in    *)
(* one that waits for something else.                                      *)
LEMMA IterationSound ==
  ASSUME NEW m, Sound(m)
  PROVE  Sound(state_machine_iteration(m))
<1> DEFINE c == state_machine_case(m)
           v == IF m.run = "wake" THEN -1 ELSE 0
           p == pm_high(c, v)
           e == [p EXCEPT !.run = "poll"]
<1>1. state_machine_iteration(m) = IF c.state # m.state \/ c.run = "stop" THEN c ELSE e
  BY DEF state_machine_iteration
<1>2. Sound(c) /\ c \in ModemRecords
  BY CaseSound DEF Sound
<1>3. c.state = m.state => c.state # "WAITING" \/ (c = m /\ waiting_next_state(m) = "WAITING")
  BY CaseSound
<1> HIDE DEF c
<1>4. v \in Int
  OBVIOUS
<1> HIDE DEF v
<1>5. Quiet(c, p) /\ p \in ModemRecords
  BY <1>2, <1>4, PmQuiet DEF Quiet
<1> HIDE DEF p
<1>6. e \in ModemRecords
  BY <1>5 DEF ModemRecords
<1>7. /\ e.state = p.state /\ e.level = p.level /\ e.target = p.target
      /\ e.inter = p.inter /\ e.tasks = p.tasks /\ e.work = p.work
  BY <1>5 DEF ModemRecords
<1> HIDE DEF e
<1>8. ASSUME c.state = m.state PROVE Awake(e)
  <2>1. CASE c.state # "WAITING"
    BY <1>5, <1>7, <2>1 DEF Awake, Quiet
  <2>2. CASE c = m /\ waiting_next_state(m) = "WAITING"
    <3>1. /\ e.state = m.state /\ e.level = m.level /\ e.target = m.target
          /\ e.inter = m.inter /\ e.tasks = m.tasks /\ (e.work => m.work)
      BY <1>5, <1>7, <2>2 DEF Quiet
    <3>2. waiting_next_state(e) = "WAITING"
      BY <2>2, <3>1 DEF waiting_next_state, level_transition_matrix
    <3> QED
      BY <3>2 DEF Awake
  <2> QED
    BY <1>3, <1>8, <2>1, <2>2
<1> QED
  BY <1>1, <1>2, <1>6, <1>8 DEF Sound

-----------------------------------------------------------------------------
(* Answers, timers and the steps of the thread.                            *)

(* Whatever the modem answers, or does not answer, to any command.         *)
LEMMA HandleSound ==
  ASSUME NEW m, Sound(m), NEW c, NEW r
  PROVE  Sound(handle(m, c, r))
<1> DEFINE d == handle(m, c, r)
<1>1. \/ d \in {initial_handler(m, r), enable_hw_flowcontrol_handler(m, r), CMEE_handler(m, r),
                INVALIDCOMMANDTEST_handler(m, r), CFUN_0_handler(m, r), COPS_2_handler(m, r),
                cmdprompt_generic_config_handler(m, r)}
      \/ d \in {check_CPIN_handler(m, r), set_CPIN_handler(m, r)}
      \/ d \in {CREG_handler(m, r), CFUN_1_handler(m, r), disable_COPS_handler(m, r),
                retry_COPS_handler(m, r), COPS_off_handler(m, r), CFUN_off_handler(m, r)}
      \/ d \in {check_CGATT_handler(m, r), set_CGATT_handler(m, r), check_UPSND_handler(m, r),
                deactivate_UPSDA_handler(m, r), UPSD_handler(m, r),
                activate_UPSDA_handler(m, r), check_ipconfig_handler(m, r),
                disable_CGATT_handler(m, c, r)}
      \/ d \in {CPWROFF_handler(m, r), command_callback(m), info_handler(m, r),
                socket_handler(m, r)}
  BY DEF handle
<1> HIDE DEF d
<1>2. d \in {initial_handler(m, r), enable_hw_flowcontrol_handler(m, r), CMEE_handler(m, r),
             INVALIDCOMMANDTEST_handler(m, r), CFUN_0_handler(m, r), COPS_2_handler(m, r),
             cmdprompt_generic_config_handler(m, r)} => Sound(d)
  BY PromptSound
<1>3. d \in {check_CPIN_handler(m, r), set_CPIN_handler(m, r)} => Sound(d)
  BY SimSound
<1>4. d \in {CREG_handler(m, r), CFUN_1_handler(m, r), disable_COPS_handler(m, r),
             retry_COPS_handler(m, r), COPS_off_handler(m, r), CFUN_off_handler(m, r)}
        => Sound(d)
  BY CregHandlerSound, RegisterStepsSound, DisconnectSound
<1>5. d \in {check_CGATT_handler(m, r), set_CGATT_handler(m, r), check_UPSND_handler(m, r),
             deactivate_UPSDA_handler(m, r), UPSD_handler(m, r),
             activate_UPSDA_handler(m, r), check_ipconfig_handler(m, r),
             disable_CGATT_handler(m, c, r)} => Sound(d)
  BY AttachSound, PdpSound, CloseSound
<1>6. d \in {CPWROFF_handler(m, r), command_callback(m), info_handler(m, r),
             socket_handler(m, r)} => Sound(d)
  BY PowerOffSound, CommandTaskSound, SocketSound
<1> QED
  BY <1>1, <1>2, <1>3, <1>4, <1>5, <1>6 DEF d

LEMMA WakeTimerSound ==
  ASSUME NEW m \in ModemRecords
  PROVE  Sound(wake_timer_handler(m))
<1>1. [m EXCEPT !.run = "wake"] \in ModemRecords
  BY DEF ModemRecords
<1>2. [m EXCEPT !.run = "wake"].run = "wake"
  BY DEF ModemRecords
<1> QED
  BY <1>1, <1>2 DEF wake_timer_handler, Sound, Awake

LEMMA TimerHandlerSound ==
  ASSUME NEW m, Sound(m), NEW t
  PROVE  Sound(handle_timer(m, t))
<1>1. m \in ModemRecords
  BY DEF Sound
<1>2. Sound(wake_timer_handler(m))
  BY <1>1, WakeTimerSound
<1>3. Sound(handle(unregister_command(m), m.cmd, "TIMEOUT"))
  BY <1>1, UnregisterQuiet, QuietSound, HandleSound
<1>4. Sound(modem_delayed_command_callback(m))
  <2> DEFINE p == pm_high(m, -1)
             d == [p EXCEPT !.delayed = "none"]
  <2>1. Sound(p) /\ p \in ModemRecords
    BY <1>1, PmQuiet, QuietSound DEF Quiet
  <2> HIDE DEF p
  <2>2. Sound(d) /\ d \in ModemRecords
    BY <2>1, FieldsQuiet, QuietSound DEF Sound
  <2> HIDE DEF d
  <2>3. m.delayed \in Commands \cup {"none"}
    BY <1>1 DEF ModemRecords
  <2>4. Sound(modem_send_cmd(d, m.delayed))
    BY <2>2, <2>3, ModemSendQuiet, QuietSound
  <2> QED
    BY <2>4 DEF modem_delayed_command_callback, d, p
<1>5. /\ Sound(modem_do_power_on_timer_handler(m)) /\ Sound(modem_do_power_off_timer_handler(m))
      /\ Sound(delay_after_initial_handler(m)) /\ Sound(modem_setup_sim_retry_timer_handler(m))
  BY PowerOnTimerSound, PowerOffSound, PromptSound, SimSound
<1>6. /\ Sound(network_start_register_handler(m))
      /\ Sound(network_retry_registration_timer_handler(m))
      /\ Sound(network_register_timeout_handler(m)) /\ Sound(network_unregister_timer_handler(m))
  BY RegisterStepsSound, RetryRegistrationSound, DisconnectSound
<1>7. /\ Sound(retry_check_cgatt(m)) /\ Sound(modem_set_cgatt_retry_timer_handler(m))
      /\ Sound(retry_upsnd_check(m)) /\ Sound(reattempt_gprs_connection_timer_handler(m))
      /\ Sound(modem_sim_retry_timer_handler(m))
  BY AttachSound, PdpSound, PdpLostSound, CommandTaskSound
<1> QED
  BY <1>2, <1>3, <1>4, <1>5, <1>6, <1>7 DEF handle_timer

(* The inputs of a callback.                                               *)
LEMMA EnterQuiet ==
  ASSUME NEW m \in ModemRecords, NEW b \in BOOLEAN, NEW a \in Levels \cup {NOTHING}
  PROVE  Quiet(m, enter(m, b, a)) /\ enter(m, b, a) \in ModemRecords
<1> DEFINE s == [m EXCEPT !.soon = b]
<1>1. Quiet(m, s) /\ s \in ModemRecords
  BY FlagsQuiet DEF Quiet
<1>2. enter(m, b, a) = [s EXCEPT !.ask = a]
  BY DEF enter
<1> HIDE DEF s
<1>3. Quiet(s, [s EXCEPT !.ask = a])
  BY <1>1, FieldsQuiet
<1>4. Quiet(m, enter(m, b, a))
  BY <1>1, <1>2, <1>3, QuietTrans
<1> QED
  BY <1>4 DEF Quiet

LEMMA LeaveSound ==
  ASSUME NEW m, Sound(m)
  PROVE  Sound(leave(m))
<1> DEFINE s == [m EXCEPT !.soon = FALSE]
<1>1. Sound(s) /\ s \in ModemRecords
  BY FlagsQuiet, QuietSound DEF Sound
<1>2. leave(m) = [s EXCEPT !.ask = NOTHING]
  BY DEF leave
<1> HIDE DEF s
<1> QED
  BY <1>1, <1>2, FieldsQuiet, QuietSound

(* The start, and every step.                                              *)
LEMMA SoundInit == Init => Sound(modem)
<1> SUFFICES ASSUME NEW vcc \in BOOLEAN, modem = initial_modem(vcc) PROVE Sound(modem)
  BY UbmodemAssumption DEF Init
<1>1. << >> \in Seq(TaskKinds)
  OBVIOUS
<1>2. [i \in Slots |-> "none"] \in [Slots -> UrcHandlers \cup {"none"}]
  OBVIOUS
<1>3. (IF vcc THEN POWERED_ON ELSE POWERED_OFF) \in Levels /\ (~vcc) \in BOOLEAN
  BY LevelFacts
<1>4. modem \in ModemRecords
  BY <1>1, <1>2, <1>3, LevelFacts
     DEF initial_modem, ModemRecords, States, NetworkStates, Failures
<1>5. modem.run = "machine"
  BY DEF initial_modem
<1> QED
  BY <1>4, <1>5 DEF Sound, Awake

LEMMA SoundStep == Sound(modem) /\ [Next]_modem => Sound(modem)'
<1> SUFFICES ASSUME Sound(modem), [Next]_modem PROVE Sound(modem)'
  OBVIOUS
<1>1. modem \in ModemRecords
  BY DEF Sound
<1>2. ASSUME NEW d \in Delays, NEW a \in Reactions
      PROVE  d \in BOOLEAN /\ a \in Levels \cup {NOTHING}
  BY <1>2, UbmodemAssumption
<1>3. CASE UNCHANGED modem
  BY <1>3
<1>4. CASE StateMachine
  <2>1. PICK d \in Delays, a \in Reactions :
          modem' = leave(state_machine_iteration(enter(modem, d, a)))
    BY <1>4 DEF StateMachine
  <2>2. Sound(enter(modem, d, a))
    BY <1>1, <1>2, EnterQuiet, QuietSound
  <2> QED
    BY <2>1, <2>2, IterationSound, LeaveSound
<1>5. CASE \E l \in Requests : Request(l)
  BY <1>1, <1>5, RequestSound, UbmodemAssumption DEF Request
<1>6. CASE \E l \in Forced : ForceLevel(l)
  <2>1. PICK l \in Forced : modem' = ubmodem_request_level([modem EXCEPT !.force = l], modem.target)
    BY <1>6 DEF ForceLevel
  <2>2. l \in Levels \cup {LEVEL_MAX}
    BY UbmodemAssumption
  <2>3. [modem EXCEPT !.force = l] \in ModemRecords
    BY <1>1, <2>2, FieldsQuiet DEF Quiet
  <2>4. modem.target \in Levels
    BY <1>1 DEF ModemRecords
  <2> QED
    BY <2>1, <2>3, <2>4, RequestSound
<1>7. CASE \E k \in UserTasks : AddTask(k)
  <2>1. UserTasks \subseteq TaskKinds
    BY UbmodemAssumption DEF TaskKinds
  <2> QED
    BY <1>1, <1>7, <2>1, AddTaskSound DEF AddTask
<1>8. CASE SocketWork
  <2>1. [modem EXCEPT !.work = TRUE] \in ModemRecords
    BY <1>1 DEF ModemRecords
  <2> QED
    BY <1>8, <2>1, WakeQuiet DEF SocketWork
<1>9. CASE \E c \in Commands : \E r \in AnswersTo(c) : Answer(c, r)
  <2>1. PICK c \in Commands : \E r \in AnswersTo(c) : Answer(c, r)
    BY <1>9
  <2> PICK r \in AnswersTo(c) : Answer(c, r)
    BY <2>1
  <2>2. PICK a \in Reactions :
          modem' = leave(handle(unregister_command(
                           enter(remove_timer(modem, "cmd"), TRUE, a)), c, r))
    BY DEF Answer
  <2> DEFINE m == remove_timer(modem, "cmd")
             e == enter(m, TRUE, a)
             u == unregister_command(e)
  <2>3. Sound(m) /\ m \in ModemRecords
    BY <1>1, RemoveTimerQuiet, QuietSound DEF Sound
  <2> HIDE DEF m
  <2>4. a \in Levels \cup {NOTHING}
    BY UbmodemAssumption
  <2>5. Sound(e) /\ e \in ModemRecords
    BY <2>3, <2>4, EnterQuiet, QuietSound
  <2> HIDE DEF e
  <2>6. Sound(u)
    BY <2>5, UnregisterQuiet, QuietSound
  <2> HIDE DEF u
  <2>7. Sound(leave(handle(u, c, r)))
    BY <2>6, HandleSound, LeaveSound
  <2> QED
    BY <2>2, <2>7 DEF u, e, m
<1>10. CASE \E t \in Timers : TimerFires(t)
  <2>1. PICK t \in Timers : Fire(t)
    BY <1>10 DEF TimerFires
  <2>2. PICK d \in Delays, a \in Reactions :
          modem' = leave(handle_timer(enter(remove_timer(modem, t), d, a), t))
    BY <2>1 DEF Fire
  <2> DEFINE m == remove_timer(modem, t)
             e == enter(m, d, a)
  <2>3. d \in BOOLEAN /\ a \in Levels \cup {NOTHING}
    BY <1>2
  <2>4. CASE t = "wake"
    <3>1. m \in ModemRecords
      BY <1>1 DEF remove_timer, ModemRecords
    <3> HIDE DEF m
    <3>2. e \in ModemRecords
      BY <2>3, <3>1, EnterQuiet
    <3> HIDE DEF e
    <3>3. Sound(wake_timer_handler(e))
      BY <3>2, WakeTimerSound
    <3>4. handle_timer(e, t) = wake_timer_handler(e)
      BY <2>4 DEF handle_timer
    <3> QED
      BY <2>2, <3>3, <3>4, LeaveSound DEF e, m
  <2>5. CASE t # "wake"
    <3>1. Sound(m) /\ m \in ModemRecords
      BY <1>1, <2>5, RemoveTimerQuiet, QuietSound DEF Sound
    <3> HIDE DEF m
    <3>2. Sound(e)
      BY <2>3, <3>1, EnterQuiet, QuietSound
    <3> HIDE DEF e
    <3>3. Sound(leave(handle_timer(e, t)))
      BY <3>2, TimerHandlerSound, LeaveSound
    <3> QED
      BY <2>2, <3>3 DEF e, m
  <2> QED
    BY <2>4, <2>5
<1>11. CASE \E v \in CregUrcs : CregUrc(v)
  <2>1. PICK v \in CregUrcs, a \in Reactions :
          \/ modem' = leave(monitor_urc_pCREG_handler(enter(modem, FALSE, a), v))
          \/ modem' = leave(registration_urc_pCREG_handler(enter(modem, FALSE, a), v))
    BY <1>11 DEF CregUrc
  <2>2. a \in Levels \cup {NOTHING}
    BY UbmodemAssumption
  <2>3. Sound(enter(modem, FALSE, a))
    BY <1>1, <2>2, EnterQuiet, QuietSound
  <2> QED
    BY <2>1, <2>3, MonitorUrcSound, RegistrationUrcSound, LeaveSound
<1>12. CASE UupsddUrc
  BY <1>12, PdpLostSound DEF UupsddUrc
<1> QED
  BY <1>3, <1>4, <1>5, <1>6, <1>7, <1>8, <1>9, <1>10, <1>11, <1>12 DEF Next

LEMMA SoundAlways == Spec => []Sound(modem)
BY SoundInit, SoundStep, PTL DEF Spec

-----------------------------------------------------------------------------
(* The results.                                                            *)

(* The modem structure keeps its type, whatever the modem answers and      *)
(* whenever levels are asked for.                                          *)
THEOREM TypeCorrect == Spec => []TypeOK
<1>1. Sound(modem) => TypeOK
  BY DEF Sound, TypeOK
<1> QED
  BY <1>1, SoundAlways, PTL

(* The main state machine never sleeps on work: for requests at any time,  *)
(* from inside and outside the callbacks, every answer, timer and result   *)
(* code.                                                                   *)
THEOREM NoLostWorkCorrect == Spec => []NoLostWork
<1>1. Sound(modem) => NoLostWork
  BY DEF Sound, Awake, NoLostWork, polling
<1> QED
  BY <1>1, SoundAlways, PTL
=============================================================================
