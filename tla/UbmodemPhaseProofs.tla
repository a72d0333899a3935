------------------------- MODULE UbmodemPhaseProofs -------------------------
(***************************************************************************)
(* What is pending in every phase of the modem library: the steps of a     *)
(* sub-state machine come one at a time, each with its timeout and its     *)
(* activity, at the level the sub-state machine was started from; and a    *)
(* connection that is up is watched until it is taken down.                *)
(***************************************************************************)
EXTENDS UbmodemProofs, FiniteSetTheorems

-----------------------------------------------------------------------------
(* The assumptions of the theorems, on the constants only.                 *)

(* The application: the listener asks for nothing or for the power to be   *)
(* turned off, a forced level is POWERED_OFF, nobody asks for              *)
(* STUCK_HARDWARE; assertions stop the program. Levels are asked for at    *)
(* any time, while the modem is at work and while the wake timer runs.     *)
Careful ==
  /\ DebugBuild
  /\ STUCK_HARDWARE \notin Requests
  /\ Reactions \subseteq {NOTHING, POWERED_OFF}
  /\ Forced \subseteq {POWERED_OFF, LEVEL_MAX}

(* The one case that is left out, a step of the behaviour and no constant: *)
(* a request finds the modem waiting with the wake timer running and       *)
(* starts the task or the socket work that timer was set for, so that the  *)
(* timer finds it under way (FindSlotZero shows what then happens). A      *)
(* request that overtakes the wake timer with anything else to do is not   *)
(* left out.                                                               *)
Overtaking(m) ==
  /\ m.run = "machine" /\ m.state = "WAITING" /\ "wake" \in m.timers
  /\ waiting_next_state(m) \in {"DO_TASK_WORK", "DO_SOCKET_WORK"}
Overtakes == Overtaking(modem)

-----------------------------------------------------------------------------
(* Phases.                                                                 *)

WorkTimers == Timers \ {"wake", "gprs"}
StepTimers == WorkTimers \ {"cmd", "delay"}
Steps      == Commands \cup StepTimers

Starts == {"DO_POWER_ON", "DO_RESET", "DO_POWER_OFF", "SETUP_CMD_PROMPT", "SETUP_SIM",
           "SETUP_NETWORK", "OPEN_GPRS_CONNECTION", "CLOSE_GPRS_CONNECTION"}
Works  == {"DO_TASK_WORK", "DO_SOCKET_WORK"}

(* The phase: the sub-state machine that runs, or the state.               *)
Phase(m) == IF m.state = "IN_SUBSTATE" THEN m.sub ELSE m.state
In(m, S) == m.state = "IN_SUBSTATE" /\ m.sub \in S

(* x is a command or a timer of phase s.                                   *)
Belongs(x, s) ==
  /\ x \in Steps /\ s \in Starts \cup Works
  /\ s \in {"DO_POWER_ON", "DO_RESET"} => x = "power_on"
  /\ s = "DO_POWER_OFF"     => x \in {"CPWROFF", "poweroff"}
  /\ s = "SETUP_CMD_PROMPT" => x \in {"initial", "after_initial", "flowcontrol", "CMEE",
                                      "INVALIDTEST", "CFUN_0", "COPS_2", "config"}
  /\ s = "SETUP_SIM"        => x \in {"sim_retry", "check_CPIN", "set_CPIN"}
  /\ s = "SETUP_NETWORK"    => x \in {"CREG", "CFUN_1", "disable_COPS", "start_register",
                                      "retry_COPS", "register_timeout", "retry_registration"}
  /\ s = "OPEN_GPRS_CONNECTION" =>
       x \in {"check_CGATT", "retry_cgatt", "set_CGATT", "set_cgatt", "UPSND", "retry_upsnd",
              "deactivate", "UPSD", "activate", "ipconfig"}
  /\ s = "CLOSE_GPRS_CONNECTION" => x \in {"disable_CGATT", "abort"}
  /\ s = "DO_TASK_WORK"     => x \in {"raw", "info", "info_retry"}
  /\ s = "DO_SOCKET_WORK"   => x = "socket"

(* The level of a phase.                                                   *)
LevelFits(s, l) ==
  /\ s = "DO_POWER_ON"      => l = POWERED_OFF
  /\ s = "DO_RESET"         => l = STUCK_HARDWARE
  /\ s = "DO_POWER_OFF"     => l >= CMD_PROMPT
  /\ s = "SETUP_CMD_PROMPT" => l = POWERED_ON
  /\ s = "SETUP_SIM"        => l = CMD_PROMPT
  /\ s = "SETUP_NETWORK"    => l = SIM_ENABLED
  /\ s = "OPEN_GPRS_CONNECTION" => l = NETWORK
  /\ s \in {"CLOSE_GPRS_CONNECTION", "DO_SOCKET_WORK"} => l = GPRS

-----------------------------------------------------------------------------
(* What is pending, and its activity.                                      *)

(* Of the commands and the timers of the phases there are c in flight, d   *)
(* delayed and the timer t.                                                *)
Alone(m, c, d, t) ==
  m.cmd = c /\ m.delayed = d /\ \A u \in WorkTimers : u \in m.timers <=> u = t

(* lo and hi are counted beyond the phase, the watch of the connection and *)
(* the wake timer.                                                         *)
Balance(m, lo, hi) ==
  /\ m.low  = lo + Flag(m.state # "WAITING") + Flag("gprs" \in m.timers)
  /\ m.high = hi + Flag("wake" \in m.timers) + Flag(m.run = "wake")

Nothing(m, lo, hi) == Alone(m, "none", "none", "none") /\ Balance(m, lo, hi)

Sent(m, c) == /\ Alone(m, c, "none", "cmd")
              /\ Balance(m, Flag(LowActivity(c)), Flag(~LowActivity(c)))
Later(m, c) == Alone(m, "none", c, "delay") /\ Balance(m, 0, 1)
Timed(m, t) == /\ Alone(m, "none", "none", t)
               /\ Balance(m, Flag(t \in CregTimers), Flag(t \in HighTimers))

Has(m, x) == \/ x \in Commands /\ (Sent(m, x) \/ Later(m, x))
             \/ x \in StepTimers /\ Timed(m, x)

-----------------------------------------------------------------------------
(* The connection and those who watch it.                                  *)

Slotted(m, u) == \E i \in Slots : m.urc[i] = u
Queued(m, k)  == \E i \in DOMAIN m.tasks : m.tasks[i] = k

(* creg_registered says whether there is a +CREG handler; there is one.    *)
OneCreg(m) ==
  /\ m.creg <=> Slotted(m, "registration") \/ Slotted(m, "monitor")
  /\ \A i, j \in Slots : m.urc[i] \in {"registration", "monitor"}
                         /\ m.urc[j] \in {"registration", "monitor"} => i = j

(* A loss of the network reaches the monitor or is on its way.             *)
Watched(m) == \/ Slotted(m, "monitor") \/ Queued(m, "retry_sim")
              \/ m.inter \in {POWERED_OFF, SIM_ENABLED}

(* From registration to the power-off, somebody watches it.                *)
Attended(m) == m.level >= NETWORK /\ ~In(m, {"DO_POWER_OFF"}) => Watched(m)

-----------------------------------------------------------------------------
(* The invariant.                                                          *)

(* What holds even while a handler changes the level.                      *)
Loose(m) ==
  /\ m \in ModemRecords /\ m.run # "stop"
  /\ m.inter \in {POWERED_OFF, SIM_ENABLED, NETWORK, LEVEL_MAX}
  /\ m.target # STUCK_HARDWARE
  /\ m.force \in {POWERED_OFF, LEVEL_MAX} /\ m.ask \in {NOTHING, POWERED_OFF}
  /\ OneCreg(m)
  /\ m.cleanup <=> In(m, {"SETUP_NETWORK"})
  /\ Slotted(m, "registration") => In(m, {"SETUP_NETWORK"}) /\ ~m.keep
  /\ m.run = "wake" => "wake" \notin m.timers

Powered(m, l) ==
  /\ l = POWERED_OFF => m.off
  /\ l >= POWERED_ON => ~m.off /\ ~m.vcc_off

Base(m) ==
  Loose(m) /\ Powered(m, m.level) /\ LevelFits(Phase(m), m.level) /\ Attended(m)

(* What the step that is pending tells of the sub-state machine.           *)
Detail(m, x) ==
  /\ x = "power_on" => m.pos \in 1 .. 5 /\ ~m.vcc_off
  /\ x = "CREG" => m.net = "ENABLING_CREG" /\ ~m.creg /\ ~m.keep
  /\ x \in {"CFUN_1", "disable_COPS", "retry_COPS"} \cup CregTimers =>
       Slotted(m, "registration") /\ ~m.keep
  /\ x = "CFUN_1" => m.net = "ENABLING_RF"
  /\ x = "disable_COPS" => m.net = "STARTING"
  /\ x \in {"start_register", "register_timeout"} => m.net = "WAITING"
  /\ x \in {"retry_COPS", "retry_registration"} => m.net = "RETRYING"
  /\ x \in {"info", "info_retry"} => m.level >= SIM_ENABLED

(* A phase in which a step may be taken.                                   *)
Active(m) ==
  /\ m.state \in {"IN_SUBSTATE"} \cup Works
  /\ m.state = "IN_SUBSTATE" => m.sub \in Starts
  /\ "wake" \in m.timers => m.state \notin Works

Idle(m) ==
  /\ m.state = "WAITING" /\ Nothing(m, 0, 0)
  /\ "wake" \in m.timers /\ m.run # "poll" => waiting_next_state(m) \notin Works
Starting(m) ==
  /\ in_state_machine(m) /\ m.state \in Starts \cup Works /\ Nothing(m, 0, 0)
  /\ "wake" \in m.timers => m.state \notin Works
  /\ m.state \in Works => m.inter \in {LEVEL_MAX, m.level}
Busy(m, x) == Active(m) /\ Has(m, x) /\ Belongs(x, Phase(m)) /\ Detail(m, x)

Good(m) ==
  IF m.run = "stop" THEN Powered(m, m.level)
  ELSE /\ Base(m)
       /\ \/ Idle(m)
          \/ Starting(m)
          \/ (m.state \in Works => m.run = "poll") /\ \E x \in Steps : Busy(m, x)

-----------------------------------------------------------------------------
(* Changes the invariant does not see.                                     *)

(* d is m but for what sub-state machines keep for themselves.             *)
Minor(m, d) ==
  /\ d \in ModemRecords
  /\ d.state = m.state /\ d.level = m.level /\ d.target = m.target /\ d.inter = m.inter
  /\ d.force = m.force /\ d.cmd = m.cmd /\ d.delayed = m.delayed /\ d.timers = m.timers
  /\ d.urc = m.urc /\ d.creg = m.creg /\ d.uupsdd = m.uupsdd /\ d.tasks = m.tasks
  /\ d.keep = m.keep /\ d.cleanup = m.cleanup /\ d.off = m.off /\ d.vcc_off = m.vcc_off
  /\ d.low = m.low /\ d.high = m.high /\ d.run = m.run /\ d.ask = m.ask /\ d.sub = m.sub

(* Who watches is a matter of a few fields.                                *)
LEMMA WatchKept ==
  ASSUME NEW m, NEW d, d.urc = m.urc, d.creg = m.creg, d.uupsdd = m.uupsdd, d.tasks = m.tasks
  PROVE  /\ \A u : Slotted(d, u) <=> Slotted(m, u)
         /\ \A k : Queued(d, k) <=> Queued(m, k)
         /\ OneCreg(d) <=> OneCreg(m)
BY DEF Slotted, Queued, OneCreg

(* A minor change keeps what is pending, and the rest of the invariant.    *)
LEMMA MinorBase ==
  ASSUME NEW m, NEW d, Minor(m, d)
  PROVE  /\ Phase(d) = Phase(m)
         /\ \A S : In(d, S) <=> In(m, S)
         /\ Active(m) => Active(d)
         /\ \A lo, hi : Nothing(m, lo, hi) => Nothing(d, lo, hi)
         /\ Loose(m) => Loose(d)
         /\ \A l : Powered(m, l) => Powered(d, l)
         /\ Attended(m) => Attended(d)
         /\ Base(m) => Base(d)
<1>1. Phase(d) = Phase(m) /\ \A S : In(d, S) <=> In(m, S)
  BY DEF Minor, Phase, In
<1>2. Active(m) => Active(d)
  BY <1>1 DEF Minor, Active
<1>3. \A lo, hi : Nothing(m, lo, hi) => Nothing(d, lo, hi)
  BY DEF Minor, Nothing, Alone, Balance
<1>4. /\ \A u : Slotted(d, u) <=> Slotted(m, u)
      /\ \A k : Queued(d, k) <=> Queued(m, k)
      /\ OneCreg(d) <=> OneCreg(m)
  BY WatchKept DEF Minor
<1>5. Loose(m) => Loose(d)
  BY <1>1, <1>4 DEF Minor, Loose
<1>6. \A l : Powered(m, l) => Powered(d, l)
  BY DEF Minor, Powered
<1>7. Attended(m) => Attended(d)
  BY <1>1, <1>4 DEF Minor, Attended, Watched
<1>8. Base(m) => Base(d)
  <2>1. d.level = m.level
    BY DEF Minor
  <2> QED
    BY <1>1, <1>5, <1>6, <1>7, <2>1 DEF Base
<1> QED
  BY <1>1, <1>2, <1>3, <1>5, <1>6, <1>7, <1>8

LEMMA MinorRefl ==
  ASSUME NEW m \in ModemRecords
  PROVE  Minor(m, m)
BY DEF Minor

(* The fields in question, one at a time.                                  *)
LEMMA MinorFields ==
  ASSUME NEW m \in ModemRecords
  PROVE  /\ \A v \in Int : Minor(m, [m EXCEPT !.n = v])
         /\ \A v \in Int : Minor(m, [m EXCEPT !.pos = v])
         /\ \A v \in NetworkStates : Minor(m, [m EXCEPT !.net = v])
         /\ \A v \in BOOLEAN : Minor(m, [m EXCEPT !.got = v])
         /\ \A v \in BOOLEAN : Minor(m, [m EXCEPT !.flag = v])
         /\ \A v \in BOOLEAN : Minor(m, [m EXCEPT !.work = v])
<1>1. ASSUME NEW v \in Int PROVE Minor(m, [m EXCEPT !.n = v])
  <2>1. [m EXCEPT !.n = v] \in ModemRecords
    BY DEF ModemRecords
  <2> QED
    BY <2>1 DEF Minor, ModemRecords
<1>2. ASSUME NEW v \in Int PROVE Minor(m, [m EXCEPT !.pos = v])
  <2>1. [m EXCEPT !.pos = v] \in ModemRecords
    BY DEF ModemRecords
  <2> QED
    BY <2>1 DEF Minor, ModemRecords
<1>3. ASSUME NEW v \in NetworkStates PROVE Minor(m, [m EXCEPT !.net = v])
  <2>1. [m EXCEPT !.net = v] \in ModemRecords
    BY DEF ModemRecords
  <2> QED
    BY <2>1 DEF Minor, ModemRecords
<1>4. ASSUME NEW v \in BOOLEAN PROVE Minor(m, [m EXCEPT !.got = v])
  <2>1. [m EXCEPT !.got = v] \in ModemRecords
    BY DEF ModemRecords
  <2> QED
    BY <2>1 DEF Minor, ModemRecords
<1>5. ASSUME NEW v \in BOOLEAN PROVE Minor(m, [m EXCEPT !.flag = v])
  <2>1. [m EXCEPT !.flag = v] \in ModemRecords
    BY DEF ModemRecords
  <2> QED
    BY <2>1 DEF Minor, ModemRecords
<1>6. ASSUME NEW v \in BOOLEAN PROVE Minor(m, [m EXCEPT !.work = v])
  <2>1. [m EXCEPT !.work = v] \in ModemRecords
    BY DEF ModemRecords
  <2> QED
    BY <2>1 DEF Minor, ModemRecords
<1> QED
  BY <1>1, <1>2, <1>3, <1>4, <1>5, <1>6

(* And together, as the handlers set them.                                 *)
LEMMA MinorSets ==
  ASSUME NEW m \in ModemRecords
  PROVE  /\ \A p \in Int, q \in Int : Minor(m, [m EXCEPT !.n = p, !.pos = q])
         /\ \A s \in NetworkStates, a \in BOOLEAN : Minor(m, [m EXCEPT !.net = s, !.got = a])
         /\ \A p \in Int, a \in BOOLEAN : Minor(m, [m EXCEPT !.pos = p, !.sock = a])
         /\ Minor(m, reset_sub(m))
<1>1. ASSUME NEW p \in Int, NEW q \in Int PROVE Minor(m, [m EXCEPT !.n = p, !.pos = q])
  <2>1. [m EXCEPT !.n = p, !.pos = q] \in ModemRecords
    BY DEF ModemRecords
  <2> QED
    BY <2>1 DEF Minor, ModemRecords
<1>2. ASSUME NEW s \in NetworkStates, NEW a \in BOOLEAN PROVE Minor(m, [m EXCEPT !.net = s, !.got = a])
  <2>1. [m EXCEPT !.net = s, !.got = a] \in ModemRecords
    BY DEF ModemRecords
  <2> QED
    BY <2>1 DEF Minor, ModemRecords
<1>3. ASSUME NEW p \in Int, NEW a \in BOOLEAN PROVE Minor(m, [m EXCEPT !.pos = p, !.sock = a])
  <2>1. [m EXCEPT !.pos = p, !.sock = a] \in ModemRecords
    BY DEF ModemRecords
  <2> QED
    BY <2>1 DEF Minor, ModemRecords
<1>4. ASSUME NEW p \in Int, NEW q \in Int, NEW a \in BOOLEAN
      PROVE  Minor(m, [m EXCEPT !.n = p, !.pos = q, !.flag = a])
  <2>1. [m EXCEPT !.n = p, !.pos = q, !.flag = a] \in ModemRecords
    BY DEF ModemRecords
  <2> QED
    BY <2>1 DEF Minor, ModemRecords
<1>5. Minor(m, reset_sub(m))
  BY <1>4, Literals DEF reset_sub
<1> QED
  BY <1>1, <1>2, <1>3, <1>5

(* What a step tells is kept with the fields it speaks of.                 *)
LEMMA DetailKept ==
  ASSUME NEW m, NEW d, Minor(m, d), NEW x, Detail(m, x), d.net = m.net,
         x = "power_on" => d.pos = m.pos
  PROVE  Detail(d, x)
<1>1. Phase(d) = Phase(m) /\ \A u : Slotted(d, u) <=> Slotted(m, u)
  BY MinorBase, WatchKept DEF Minor
<1> QED
  BY <1>1 DEF Minor, Detail

-----------------------------------------------------------------------------
(* A step is set going.                                                    *)

(* d is m but for what is pending and for its activity.                    *)
Same(m, d) ==
  /\ d \in ModemRecords
  /\ d.state = m.state /\ d.level = m.level /\ d.target = m.target /\ d.inter = m.inter
  /\ d.force = m.force /\ d.urc = m.urc /\ d.creg = m.creg /\ d.uupsdd = m.uupsdd
  /\ d.tasks = m.tasks /\ d.keep = m.keep /\ d.cleanup = m.cleanup /\ d.off = m.off
  /\ d.vcc_off = m.vcc_off /\ d.run = m.run /\ d.ask = m.ask /\ d.sub = m.sub
  /\ d.net = m.net /\ d.pos = m.pos /\ d.work = m.work
  /\ "gprs" \in d.timers <=> "gprs" \in m.timers
  /\ "wake" \in d.timers <=> "wake" \in m.timers

(* The rest of the invariant is kept.                                      *)
LEMMA SameBase ==
  ASSUME NEW m, NEW d, Same(m, d)
  PROVE  /\ Phase(d) = Phase(m)
         /\ Active(m) => Active(d)
         /\ Loose(m) => Loose(d)
         /\ Attended(m) => Attended(d)
         /\ Base(m) => Base(d)
         /\ \A x : Detail(m, x) => Detail(d, x)
<1>1. Phase(d) = Phase(m) /\ \A S : In(d, S) <=> In(m, S)
  BY DEF Same, Phase, In
<1>2. Active(m) => Active(d)
  BY <1>1 DEF Same, Active
<1>4. /\ \A u : Slotted(d, u) <=> Slotted(m, u)
      /\ \A k : Queued(d, k) <=> Queued(m, k)
      /\ OneCreg(d) <=> OneCreg(m)
  BY WatchKept DEF Same
<1>5. Loose(m) => Loose(d)
  BY <1>1, <1>4 DEF Same, Loose
<1>6. d.level = m.level /\ (Powered(m, m.level) => Powered(d, d.level))
  BY DEF Same, Powered
<1>7. Attended(m) => Attended(d)
  BY <1>1, <1>4 DEF Same, Attended, Watched
<1>8. Base(m) => Base(d)
  BY <1>1, <1>5, <1>6, <1>7 DEF Base
<1>9. \A x : Detail(m, x) => Detail(d, x)
  BY <1>1, <1>4 DEF Same, Detail
<1> QED
  BY <1>1, <1>2, <1>5, <1>7, <1>8, <1>9

LEMMA SameTrans ==
  ASSUME NEW m, NEW d, NEW e, Same(m, d), Same(d, e)
  PROVE  Same(m, e)
BY DEF Same

(* A timer that does not run is set, whichever it is.                      *)
LEMMA SetFresh ==
  ASSUME NEW m \in ModemRecords, NEW t \in Timers, t \notin m.timers
  PROVE  /\ set_timer(m, t) = [m EXCEPT !.timers = m.timers \cup {t}]
         /\ set_timer(m, t) \in ModemRecords
<1>1. set_timer(m, t) = [m EXCEPT !.timers = m.timers \cup {t}]
  BY DEF set_timer, assert
<1> QED
  BY <1>1 DEF ModemRecords

(* Changes of timers and of counts.                                        *)
LEMMA TimersSame ==
  ASSUME NEW m \in ModemRecords, NEW S \in SUBSET Timers,
         "gprs" \in S <=> "gprs" \in m.timers, "wake" \in S <=> "wake" \in m.timers
  PROVE  Same(m, [m EXCEPT !.timers = S])
<1>1. [m EXCEPT !.timers = S] \in ModemRecords
  BY DEF ModemRecords
<1> QED
  BY <1>1 DEF Same, ModemRecords

LEMMA CountsSame ==
  ASSUME NEW m \in ModemRecords, NEW v \in Int
  PROVE  /\ Same(m, pm_low(m, v)) /\ pm_low(m, v).low = m.low + v
         /\ pm_low(m, v).high = m.high
         /\ Same(m, pm_high(m, v)) /\ pm_high(m, v).high = m.high + v
         /\ pm_high(m, v).low = m.low
         /\ \A e \in {pm_low(m, v), pm_high(m, v)} :
              e.cmd = m.cmd /\ e.delayed = m.delayed /\ e.timers = m.timers
<1>1. m.low \in Int /\ m.high \in Int /\ m.low + v \in Int /\ m.high + v \in Int
  BY DEF ModemRecords
<1>2. ASSUME NEW w \in Int
      PROVE  /\ Same(m, [m EXCEPT !.low = w]) /\ [m EXCEPT !.low = w].low = w
             /\ [m EXCEPT !.low = w].high = m.high
             /\ [m EXCEPT !.low = w].cmd = m.cmd /\ [m EXCEPT !.low = w].delayed = m.delayed
             /\ [m EXCEPT !.low = w].timers = m.timers
  <2>1. [m EXCEPT !.low = w] \in ModemRecords
    BY DEF ModemRecords
  <2> QED
    BY <2>1 DEF Same, ModemRecords
<1>3. ASSUME NEW w \in Int
      PROVE  /\ Same(m, [m EXCEPT !.high = w]) /\ [m EXCEPT !.high = w].high = w
             /\ [m EXCEPT !.high = w].low = m.low
             /\ [m EXCEPT !.high = w].cmd = m.cmd /\ [m EXCEPT !.high = w].delayed = m.delayed
             /\ [m EXCEPT !.high = w].timers = m.timers
  <2>1. [m EXCEPT !.high = w] \in ModemRecords
    BY DEF ModemRecords
  <2> QED
    BY <2>1 DEF Same, ModemRecords
<1>4. pm_low(m, v) = [m EXCEPT !.low = m.low + v] /\ pm_high(m, v) = [m EXCEPT !.high = m.high + v]
  BY DEF pm_low, pm_high
<1> QED
  BY <1>1, <1>2, <1>3, <1>4

(* The activity of a timer that has fired is taken back.                   *)
LEMMA PayNothing ==
  ASSUME NEW m \in ModemRecords, NEW lo \in Int, NEW hi \in Int, Nothing(m, lo, hi)
  PROVE  /\ Nothing(pm_low(m, -1), lo - 1, hi) /\ Same(m, pm_low(m, -1))
         /\ Nothing(pm_high(m, -1), lo, hi - 1) /\ Same(m, pm_high(m, -1))
<1>1. -1 \in Int /\ m.low \in Int /\ m.high \in Int
  BY DEF ModemRecords
<1>2. PICK d : d = pm_low(m, -1)
  OBVIOUS
<1>3. PICK e : e = pm_high(m, -1)
  OBVIOUS
<1>4. /\ Same(m, d) /\ d.low = m.low + (-1) /\ d.high = m.high
      /\ d.cmd = m.cmd /\ d.delayed = m.delayed /\ d.timers = m.timers
  BY <1>1, <1>2, CountsSame
<1>5. /\ Same(m, e) /\ e.high = m.high + (-1) /\ e.low = m.low
      /\ e.cmd = m.cmd /\ e.delayed = m.delayed /\ e.timers = m.timers
  BY <1>1, <1>3, CountsSame
<1>6. Nothing(d, lo - 1, hi)
  BY <1>1, <1>4 DEF Same, Nothing, Alone, Balance, Flag
<1>7. Nothing(e, lo, hi - 1)
  BY <1>1, <1>5 DEF Same, Nothing, Alone, Balance, Flag
<1> QED
  BY <1>2, <1>3, <1>4, <1>5, <1>6, <1>7

(* The timer of a step, with its activity.                                 *)
LEMMA StepTimer ==
  ASSUME NEW m \in ModemRecords, NEW t \in StepTimers, Nothing(m, 0, 0)
  PROVE  /\ t \in HighTimers => Same(m, set_high_timer(m, t)) /\ Timed(set_high_timer(m, t), t)
         /\ t \in CregTimers => Same(m, set_creg_timer(m, t)) /\ Timed(set_creg_timer(m, t), t)
         /\ t \notin HighTimers \cup CregTimers =>
              Same(m, set_timer(m, t)) /\ Timed(set_timer(m, t), t)
<1>1. t \in Timers /\ t \in WorkTimers /\ t \notin m.timers /\ 1 \in Int
      /\ t # "gprs" /\ t # "wake" /\ m.timers \in SUBSET Timers /\ m.low \in Int /\ m.high \in Int
  BY DEF StepTimers, WorkTimers, Nothing, Alone, ModemRecords, Timers, CregTimers, HighTimers
<1>0. \A u \in WorkTimers : u \notin m.timers
  BY DEF Nothing, Alone, WorkTimers, Timers, CregTimers, HighTimers
<1>2. ASSUME NEW e, Same(m, e), e.timers = m.timers
      PROVE  /\ Same(m, set_timer(e, t)) /\ set_timer(e, t).timers = m.timers \cup {t}
             /\ set_timer(e, t).cmd = e.cmd /\ set_timer(e, t).delayed = e.delayed
             /\ set_timer(e, t).low = e.low /\ set_timer(e, t).high = e.high
  <2>1. e \in ModemRecords
    BY <1>2 DEF Same
  <2>2. set_timer(e, t) = [e EXCEPT !.timers = m.timers \cup {t}]
    BY <1>1, <1>2, <2>1, SetFresh
  <2>3. Same(e, [e EXCEPT !.timers = m.timers \cup {t}])
    BY <1>1, <1>2, <2>1, TimersSame
  <2>4. Same(m, [e EXCEPT !.timers = m.timers \cup {t}])
    BY <1>2, <2>3, SameTrans
  <2> QED
    BY <2>1, <2>2, <2>4 DEF ModemRecords
<1>3. CASE t \in HighTimers
  <2>1. PICK e : e = pm_high(m, 1)
    OBVIOUS
  <2>2. /\ Same(m, e) /\ e.high = m.high + 1 /\ e.low = m.low
        /\ e.cmd = m.cmd /\ e.delayed = m.delayed /\ e.timers = m.timers
    BY <1>1, <2>1, CountsSame
  <2>3. PICK d : d = set_timer(e, t)
    OBVIOUS
  <2>4. /\ Same(m, d) /\ d.timers = m.timers \cup {t} /\ d.cmd = m.cmd /\ d.delayed = m.delayed
        /\ d.low = m.low /\ d.high = m.high + 1
    BY <1>2, <2>2, <2>3
  <2>5. t \notin CregTimers
    BY <1>3 DEF HighTimers, CregTimers
  <2>6. Timed(d, t)
    <3>1. m.cmd = "none" /\ m.delayed = "none" /\ Balance(m, 0, 0)
      BY DEF Nothing, Alone
    <3>2. Alone(d, "none", "none", t)
      BY <1>0, <1>1, <1>3, <2>4, <2>5, <3>1 DEF Alone
    <3>3. Balance(d, Flag(t \in CregTimers), Flag(t \in HighTimers))
      BY <1>1, <1>3, <2>4, <2>5, <3>1 DEF Balance, Flag, Same
    <3> QED
      BY <3>2, <3>3 DEF Timed
  <2> QED
    BY <1>3, <2>1, <2>3, <2>4, <2>5, <2>6 DEF set_high_timer
<1>4. CASE t \in CregTimers
  <2>1. Same(m, m)
    BY DEF Same
  <2>2. PICK e : e = set_timer(m, t)
    OBVIOUS
  <2>3. /\ Same(m, e) /\ e.timers = m.timers \cup {t} /\ e.cmd = m.cmd /\ e.delayed = m.delayed
        /\ e.low = m.low /\ e.high = m.high
    BY <1>2, <2>1, <2>2
  <2>4. PICK d : d = pm_low(e, 1)
    OBVIOUS
  <2>9. e \in ModemRecords
    BY <2>3 DEF Same
  <2>5. /\ Same(e, d) /\ d.low = m.low + 1 /\ d.high = m.high
        /\ d.cmd = m.cmd /\ d.delayed = m.delayed /\ d.timers = m.timers \cup {t}
    BY <1>1, <2>3, <2>4, <2>9, CountsSame
  <2>6. t \notin HighTimers
    BY <1>4 DEF HighTimers, CregTimers
  <2>7. Same(m, d)
    BY <2>3, <2>5, SameTrans
  <2>8. Timed(d, t)
    <3>1. m.cmd = "none" /\ m.delayed = "none" /\ Balance(m, 0, 0)
      BY DEF Nothing, Alone
    <3>2. Alone(d, "none", "none", t)
      BY <1>0, <1>1, <1>4, <2>5, <2>6, <2>7, <3>1 DEF Alone
    <3>3. Balance(d, Flag(t \in CregTimers), Flag(t \in HighTimers))
      BY <1>1, <1>4, <2>5, <2>6, <2>7, <3>1 DEF Balance, Flag, Same
    <3> QED
      BY <3>2, <3>3 DEF Timed
  <2> QED
    BY <1>4, <2>2, <2>4, <2>6, <2>7, <2>8 DEF set_creg_timer
<1>5. CASE t \notin HighTimers \cup CregTimers
  <2>1. Same(m, m)
    BY DEF Same
  <2>2. PICK d : d = set_timer(m, t)
    OBVIOUS
  <2>3. /\ Same(m, d) /\ d.timers = m.timers \cup {t} /\ d.cmd = m.cmd /\ d.delayed = m.delayed
        /\ d.low = m.low /\ d.high = m.high
    BY <1>2, <2>1, <2>2
  <2>4. Timed(d, t)
    <3>1. m.cmd = "none" /\ m.delayed = "none" /\ Balance(m, 0, 0)
      BY DEF Nothing, Alone
    <3>2. Alone(d, "none", "none", t)
      BY <1>0, <1>1, <1>5, <2>3, <3>1 DEF Alone
    <3>3. Balance(d, Flag(t \in CregTimers), Flag(t \in HighTimers))
      BY <1>1, <1>5, <2>3, <3>1 DEF Balance, Flag, Same
    <3> QED
      BY <3>2, <3>3 DEF Timed
  <2> QED
    BY <1>5, <2>2, <2>3, <2>4
<1> QED
  BY <1>3, <1>4, <1>5

(* The command in flight and the delayed one.                              *)
LEMMA CommandSame ==
  ASSUME NEW m \in ModemRecords, NEW c \in Commands \cup {"none"}
  PROVE  Same(m, [m EXCEPT !.cmd = c]) /\ Same(m, [m EXCEPT !.delayed = c])
<1>1. [m EXCEPT !.cmd = c] \in ModemRecords
  BY DEF ModemRecords
<1>2. [m EXCEPT !.delayed = c] \in ModemRecords
  BY DEF ModemRecords
<1>3. Same(m, [m EXCEPT !.cmd = c])
  BY <1>1 DEF Same, ModemRecords
<1>4. Same(m, [m EXCEPT !.delayed = c])
  BY <1>2 DEF Same, ModemRecords
<1> QED
  BY <1>3, <1>4

(* A command goes out at once.                                             *)
LEMMA SendNow ==
  ASSUME NEW m \in ModemRecords, NEW c \in Commands, Nothing(m, 0, 0)
  PROVE  Same(m, modem_send_cmd(m, c)) /\ Sent(modem_send_cmd(m, c), c)
<1>1. /\ m.cmd = "none" /\ "cmd" \notin m.timers /\ m.timers \in SUBSET Timers /\ "cmd" \in Timers
      /\ 1 \in Int /\ m.low \in Int /\ m.high \in Int /\ c # "none"
  BY DEF Nothing, Alone, WorkTimers, Timers, CregTimers, HighTimers, ModemRecords, Commands
<1>2. PICK a : a = [m EXCEPT !.cmd = c]
  OBVIOUS
<1>3. a \in ModemRecords
  BY <1>2 DEF ModemRecords
<1>4. /\ Same(m, a) /\ a.cmd = c /\ a.delayed = m.delayed /\ a.timers = m.timers
      /\ a.low = m.low /\ a.high = m.high
  <2>1. Same(m, [m EXCEPT !.cmd = c])
    BY CommandSame
  <2> QED
    BY <1>2, <2>1 DEF ModemRecords
<1>0. \A u \in WorkTimers : u \notin m.timers
  BY DEF Nothing, Alone, WorkTimers, Timers, CregTimers, HighTimers
<1>5. PICK b : b = cmd_activity(a, c, 1)
  OBVIOUS
<1>6. register_command(m, c) = b
  BY <1>1, <1>2, <1>5 DEF register_command, assert
<1>7. /\ Same(a, b) /\ b.cmd = c /\ b.delayed = m.delayed /\ b.timers = m.timers
      /\ b.low = m.low + Flag(LowActivity(c)) /\ b.high = m.high + Flag(~LowActivity(c))
  BY <1>1, <1>3, <1>4, <1>5, CountsSame DEF cmd_activity, Flag
<1>8. PICK d : d = set_timer(b, "cmd")
  OBVIOUS
<1>9. b \in ModemRecords
  BY <1>7 DEF Same
<1>10. d = [b EXCEPT !.timers = m.timers \cup {"cmd"}]
  BY <1>1, <1>7, <1>8, <1>9, SetFresh
<1>11. Same(b, d)
  <2>1. Same(b, [b EXCEPT !.timers = m.timers \cup {"cmd"}])
    BY <1>1, <1>7, <1>9, TimersSame
  <2> QED
    BY <1>10, <2>1
<1>12. /\ d.cmd = c /\ d.delayed = m.delayed /\ d.timers = m.timers \cup {"cmd"}
       /\ d.low = m.low + Flag(LowActivity(c)) /\ d.high = m.high + Flag(~LowActivity(c))
  BY <1>7, <1>9, <1>10 DEF ModemRecords
<1>13. Same(m, d)
  BY <1>4, <1>7, <1>11, SameTrans
<1>14. Sent(d, c)
  <2>1. m.cmd = "none" /\ m.delayed = "none" /\ Balance(m, 0, 0)
    BY DEF Nothing, Alone
  <2>2. Alone(d, c, "none", "cmd")
    BY <1>0, <1>1, <1>12, <1>13, <2>1 DEF Alone
  <2>3. Balance(d, Flag(LowActivity(c)), Flag(~LowActivity(c)))
    BY <1>1, <1>12, <1>13, <2>1 DEF Balance, Flag, Same
  <2> QED
    BY <2>2, <2>3 DEF Sent
<1> QED
  BY <1>6, <1>8, <1>13, <1>14 DEF modem_send_cmd

(* A command goes out, now or 20 ms later.                                 *)
LEMMA SendStep ==
  ASSUME NEW m \in ModemRecords, NEW c \in Commands, Nothing(m, 0, 0)
  PROVE  /\ Same(m, send_cmd(m, c)) /\ Has(send_cmd(m, c), c)
         /\ Same(m, modem_send_cmd(m, c)) /\ Has(modem_send_cmd(m, c), c)
<1>1. Same(m, modem_send_cmd(m, c)) /\ Has(modem_send_cmd(m, c), c)
  BY SendNow DEF Has
<1>2. /\ m.delayed = "none" /\ "delay" \notin m.timers /\ m.timers \in SUBSET Timers
      /\ "delay" \in Timers /\ 1 \in Int /\ m.low \in Int /\ m.high \in Int /\ c # "none"
  BY DEF Nothing, Alone, WorkTimers, Timers, CregTimers, HighTimers, ModemRecords, Commands
<1>0. \A u \in WorkTimers : u \notin m.timers
  BY DEF Nothing, Alone, WorkTimers, Timers, CregTimers, HighTimers
<1>3. DEBUGASSERT(m, m.delayed = "none", "delayed command active") = m
  BY <1>2 DEF DEBUGASSERT, assert
<1>4. CASE ~m.soon
  <2>1. send_cmd(m, c) = modem_send_cmd(m, c)
    BY <1>3, <1>4 DEF send_cmd
  <2> QED
    BY <1>1, <2>1
<1>5. CASE m.soon
  <2>1. PICK a : a = [m EXCEPT !.delayed = c]
    OBVIOUS
  <2>2. a \in ModemRecords
    BY <2>1 DEF ModemRecords
  <2>3. /\ Same(m, a) /\ a.delayed = c /\ a.cmd = m.cmd /\ a.timers = m.timers
        /\ a.low = m.low /\ a.high = m.high
    <3>1. Same(m, [m EXCEPT !.delayed = c])
      BY CommandSame
    <3> QED
      BY <2>1, <3>1 DEF ModemRecords
  <2>4. PICK b : b = set_timer(a, "delay")
    OBVIOUS
  <2>5. b = [a EXCEPT !.timers = m.timers \cup {"delay"}]
    BY <1>2, <2>2, <2>3, <2>4, SetFresh
  <2>6. Same(a, b)
    <3>1. Same(a, [a EXCEPT !.timers = m.timers \cup {"delay"}])
      BY <1>2, <2>2, <2>3, TimersSame
    <3> QED
      BY <2>5, <3>1
  <2>7. /\ b.delayed = c /\ b.cmd = m.cmd /\ b.timers = m.timers \cup {"delay"}
        /\ b.low = m.low /\ b.high = m.high /\ b \in ModemRecords
    BY <2>2, <2>3, <2>5, <2>6 DEF ModemRecords, Same
  <2>8. PICK d : d = pm_high(b, 1)
    OBVIOUS
  <2>9. /\ Same(b, d) /\ d.high = m.high + 1 /\ d.low = m.low
        /\ d.delayed = c /\ d.cmd = m.cmd /\ d.timers = m.timers \cup {"delay"}
    BY <1>2, <2>7, <2>8, CountsSame
  <2>10. Same(m, d)
    BY <2>3, <2>6, <2>9, SameTrans
  <2>11. Later(d, c)
    <3>1. m.cmd = "none" /\ m.delayed = "none" /\ Balance(m, 0, 0)
      BY DEF Nothing, Alone
    <3>2. Alone(d, "none", c, "delay")
      BY <1>0, <1>2, <2>9, <2>10, <3>1 DEF Alone
    <3>3. Balance(d, 0, 1)
      BY <1>2, <2>9, <2>10, <3>1 DEF Balance, Flag, Same
    <3> QED
      BY <3>2, <3>3 DEF Later
  <2>12. send_cmd(m, c) = d
    BY <1>3, <1>5, <2>1, <2>4, <2>8 DEF send_cmd
  <2> QED
    BY <1>1, <2>10, <2>11, <2>12 DEF Has
<1> QED
  BY <1>4, <1>5

-----------------------------------------------------------------------------
(* The slots of the parser.                                                *)

(* First finds the first.                                                  *)
LEMMA FirstIn ==
  ASSUME NEW S \in SUBSET Slots, S # {}
  PROVE  First(S) \in S
<1>1. S \subseteq Nat
  BY UbmodemAssumption DEF Slots
<1>2. PICK i \in S : \A j \in S : ~(<<j, i>> \in OpToRel(<, Nat))
  BY <1>1, NatLessThanWellFounded, WFMin
<1>3. \A j \in S : i <= j
  <2> TAKE j \in S
  <2>1. i \in Nat /\ j \in Nat /\ <<j, i>> \in Nat \X Nat
    BY <1>1
  <2>2. ~(j < i)
    BY <1>2, <2>1 DEF OpToRel
  <2> QED
    BY <2>1, <2>2
<1> QED
  BY <1>3 DEF First

(* d is m but for the handlers of result codes.                            *)
Still(m, d) ==
  /\ d \in ModemRecords
  /\ d.state = m.state /\ d.level = m.level /\ d.target = m.target /\ d.inter = m.inter
  /\ d.force = m.force /\ d.cmd = m.cmd /\ d.delayed = m.delayed /\ d.timers = m.timers
  /\ d.tasks = m.tasks /\ d.keep = m.keep /\ d.cleanup = m.cleanup /\ d.off = m.off
  /\ d.vcc_off = m.vcc_off /\ d.low = m.low /\ d.high = m.high /\ d.run = m.run
  /\ d.ask = m.ask /\ d.sub = m.sub /\ d.net = m.net /\ d.pos = m.pos /\ d.work = m.work

LEMMA StillTrans ==
  ASSUME NEW m, NEW d, NEW e, Still(m, d), Still(d, e)
  PROVE  Still(m, e)
BY DEF Still

LEMMA StillRefl ==
  ASSUME NEW m \in ModemRecords
  PROVE  Still(m, m)
BY DEF Still

(* What is pending, and the phase, have nothing to do with them.           *)
LEMMA StillPending ==
  ASSUME NEW m, NEW d, Still(m, d)
  PROVE  /\ Phase(d) = Phase(m) /\ \A S : In(d, S) <=> In(m, S)
         /\ Active(m) => Active(d)
         /\ \A lo, hi : Nothing(m, lo, hi) => Nothing(d, lo, hi)
         /\ \A x : Has(m, x) => Has(d, x)
         /\ \A k : Queued(d, k) <=> Queued(m, k)
<1>1. Phase(d) = Phase(m) /\ \A S : In(d, S) <=> In(m, S)
  BY DEF Still, Phase, In
<1>2. Active(m) => Active(d)
  BY <1>1 DEF Still, Active
<1>3. \A c, e, t : Alone(m, c, e, t) => Alone(d, c, e, t)
  BY DEF Still, Alone
<1>4. \A lo, hi : Balance(m, lo, hi) => Balance(d, lo, hi)
  BY DEF Still, Balance
<1>5. \A k : Queued(d, k) <=> Queued(m, k)
  BY DEF Still, Queued
<1> QED
  BY <1>1, <1>2, <1>3, <1>4, <1>5 DEF Nothing, Has, Sent, Later, Timed

(* One slot changes.                                                       *)
LEMMA SlotStill ==
  ASSUME NEW m \in ModemRecords, NEW i \in Slots, NEW u \in UrcHandlers \cup {"none"}
  PROVE  /\ Still(m, [m EXCEPT !.urc[i] = u])
         /\ [m EXCEPT !.urc[i] = u].urc = [m.urc EXCEPT ![i] = u]
         /\ [m EXCEPT !.urc[i] = u].creg = m.creg /\ [m EXCEPT !.urc[i] = u].uupsdd = m.uupsdd
         /\ \A j \in Slots : [m EXCEPT !.urc[i] = u].urc[j] = IF j = i THEN u ELSE m.urc[j]
<1>1. m.urc \in [Slots -> UrcHandlers \cup {"none"}]
  BY DEF ModemRecords
<1>2. [m.urc EXCEPT ![i] = u] \in [Slots -> UrcHandlers \cup {"none"}]
  BY <1>1
<1>3. ASSUME NEW f \in [Slots -> UrcHandlers \cup {"none"}]
      PROVE  /\ Still(m, [m EXCEPT !.urc = f]) /\ [m EXCEPT !.urc = f].urc = f
             /\ [m EXCEPT !.urc = f].creg = m.creg /\ [m EXCEPT !.urc = f].uupsdd = m.uupsdd
  <2>1. [m EXCEPT !.urc = f] \in ModemRecords
    BY DEF ModemRecords
  <2> QED
    BY <2>1 DEF Still, ModemRecords
<1>4. [m EXCEPT !.urc[i] = u] = [m EXCEPT !.urc = [m.urc EXCEPT ![i] = u]]
  OBVIOUS
<1> QED
  BY <1>1, <1>2, <1>3, <1>4

LEMMA FlagsStill ==
  ASSUME NEW m \in ModemRecords, NEW b \in BOOLEAN
  PROVE  /\ Still(m, [m EXCEPT !.creg = b]) /\ [m EXCEPT !.creg = b].urc = m.urc
         /\ [m EXCEPT !.creg = b].creg = b /\ [m EXCEPT !.creg = b].uupsdd = m.uupsdd
         /\ Still(m, [m EXCEPT !.uupsdd = b]) /\ [m EXCEPT !.uupsdd = b].urc = m.urc
         /\ [m EXCEPT !.uupsdd = b].uupsdd = b /\ [m EXCEPT !.uupsdd = b].creg = m.creg
<1>1. [m EXCEPT !.creg = b] \in ModemRecords
  BY DEF ModemRecords
<1>2. [m EXCEPT !.uupsdd = b] \in ModemRecords
  BY DEF ModemRecords
<1>3. /\ Still(m, [m EXCEPT !.creg = b]) /\ [m EXCEPT !.creg = b].urc = m.urc
      /\ [m EXCEPT !.creg = b].creg = b /\ [m EXCEPT !.creg = b].uupsdd = m.uupsdd
  BY <1>1 DEF Still, ModemRecords
<1>4. /\ Still(m, [m EXCEPT !.uupsdd = b]) /\ [m EXCEPT !.uupsdd = b].urc = m.urc
      /\ [m EXCEPT !.uupsdd = b].uupsdd = b /\ [m EXCEPT !.uupsdd = b].creg = m.creg
  BY <1>2 DEF Still, ModemRecords
<1> QED
  BY <1>3, <1>4

(* A handler is taken out of its slot, when its name is not that of the    *)
(* command in flight.                                                      *)
LEMMA TakeOut ==
  ASSUME NEW m \in ModemRecords, NEW name \in {"+CREG", "+UUPSDD"},
         m.cmd = "none" \/ NameOf(m.cmd) # name
  PROVE  LET d == unregister_urc(m, name) IN
         /\ Still(m, d) /\ d.creg = m.creg /\ d.uupsdd = m.uupsdd
         /\ \/ d = m /\ SlotsOf(m, name) = {}
            \/ \E i \in SlotsOf(m, name) :
                 \A j \in Slots : d.urc[j] = IF j = i THEN "none" ELSE m.urc[j]
<1>1. CASE SlotsOf(m, name) = {}
  <2>1. unregister_urc(m, name) = m
    BY <1>1 DEF unregister_urc
  <2> QED
    BY <1>1, <2>1, StillRefl
<1>2. CASE SlotsOf(m, name) # {}
  <2>1. PICK i : i = First(SlotsOf(m, name))
    OBVIOUS
  <2>2. i \in SlotsOf(m, name) /\ i \in Slots
    BY <1>2, <2>1, FirstIn DEF SlotsOf
  <2>3. unregister_urc(m, name) = [m EXCEPT !.urc[i] = "none"]
    BY <1>2, <2>1 DEF unregister_urc
  <2> QED
    BY <2>2, <2>3, SlotStill
<1> QED
  BY <1>1, <1>2

(* Which handlers have which name.                                         *)
LEMMA Names ==
  /\ NameOf("registration") = "+CREG" /\ NameOf("monitor") = "+CREG" /\ NameOf("CREG") = "+CREG"
  /\ NameOf("UUPSDD") = "+UUPSDD"
  /\ \A c \in Commands : NameOf(c) # "+UUPSDD" /\ (c # "CREG" => NameOf(c) # "+CREG")
BY DEF NameOf, Commands

LEMMA SlotNames ==
  ASSUME NEW m \in ModemRecords
  PROVE  /\ SlotsOf(m, "+CREG") = {i \in Slots : m.urc[i] \in {"registration", "monitor"}}
         /\ SlotsOf(m, "+UUPSDD") = {i \in Slots : m.urc[i] = "UUPSDD"}
<1>1. \A i \in Slots : m.urc[i] \in {"registration", "monitor", "UUPSDD", "none"}
  BY DEF ModemRecords, UrcHandlers
<1> QED
  BY <1>1, Names DEF SlotsOf

(* The +CREG handler is taken out.                                         *)
LEMMA CregOut ==
  ASSUME NEW m \in ModemRecords, m.cmd # "CREG", OneCreg(m)
  PROVE  LET d == unregister_creg(m) IN
         /\ Still(m, d) /\ ~d.creg /\ d.uupsdd = m.uupsdd
         /\ ~Slotted(d, "registration") /\ ~Slotted(d, "monitor") /\ OneCreg(d)
         /\ \A j \in Slots : d.urc[j] = "UUPSDD" <=> m.urc[j] = "UUPSDD"
<1>1. CASE ~m.creg
  <2>1. unregister_creg(m) = m
    BY <1>1 DEF unregister_creg
  <2> QED
    BY <1>1, <2>1, StillRefl DEF OneCreg
<1>2. CASE m.creg
  <2>1. m.cmd = "none" \/ NameOf(m.cmd) # "+CREG"
    BY Names DEF ModemRecords
  <2>2. PICK a : a = unregister_urc(m, "+CREG")
    OBVIOUS
  <2>3. PICK i \in SlotsOf(m, "+CREG") :
          /\ Still(m, a) /\ a.creg = m.creg /\ a.uupsdd = m.uupsdd
          /\ \A j \in Slots : a.urc[j] = IF j = i THEN "none" ELSE m.urc[j]
    <3>1. SlotsOf(m, "+CREG") # {}
      BY <1>2, SlotNames DEF OneCreg, Slotted
    <3>2. /\ Still(m, a) /\ a.creg = m.creg /\ a.uupsdd = m.uupsdd
          /\ \/ a = m /\ SlotsOf(m, "+CREG") = {}
             \/ \E i \in SlotsOf(m, "+CREG") :
                  \A j \in Slots : a.urc[j] = IF j = i THEN "none" ELSE m.urc[j]
      BY <2>1, <2>2, TakeOut
    <3> QED
      BY <3>1, <3>2
  <2>4. i \in Slots /\ m.urc[i] \in {"registration", "monitor"}
    BY <2>3, SlotNames
  <2>5. PICK d : d = [a EXCEPT !.creg = FALSE]
    OBVIOUS
  <2>6. a \in ModemRecords
    BY <2>3 DEF Still
  <2>7. Still(a, d) /\ d.urc = a.urc /\ d.creg = FALSE /\ d.uupsdd = a.uupsdd
    BY <2>5, <2>6, FlagsStill
  <2>8. Still(m, d)
    BY <2>3, <2>7, StillTrans
  <2>9. \A j \in Slots : d.urc[j] \notin {"registration", "monitor"}
    BY <2>3, <2>4, <2>7 DEF OneCreg
  <2>10. \A j \in Slots : d.urc[j] = "UUPSDD" <=> m.urc[j] = "UUPSDD"
    BY <2>3, <2>4, <2>7
  <2>11. ~Slotted(d, "registration") /\ ~Slotted(d, "monitor") /\ OneCreg(d)
    BY <2>7, <2>9 DEF Slotted, OneCreg
  <2>12. unregister_creg(m) = d
    BY <1>2, <2>2, <2>5 DEF unregister_creg
  <2> QED
    BY <2>3, <2>7, <2>8, <2>10, <2>11, <2>12
<1> QED
  BY <1>1, <1>2

(* The same handlers of +CREG and of +UUPSDD.                              *)
LEMMA SameSlots ==
  ASSUME NEW m, NEW d
  PROVE  /\ (\A j \in Slots : d.urc[j] = "UUPSDD" <=> m.urc[j] = "UUPSDD") =>
              /\ Slotted(d, "UUPSDD") <=> Slotted(m, "UUPSDD")
         /\ (\A j \in Slots : \A u \in {"registration", "monitor"} :
               d.urc[j] = u <=> m.urc[j] = u) =>
              /\ Slotted(d, "registration") <=> Slotted(m, "registration")
              /\ Slotted(d, "monitor") <=> Slotted(m, "monitor")
              /\ OneCreg(m) /\ d.creg = m.creg => OneCreg(d)
BY DEF Slotted, OneCreg

(* The +UUPSDD handler is taken out.                                       *)
LEMMA UupsddOut ==
  ASSUME NEW m \in ModemRecords
  PROVE  LET d == unregister_uupsdd(m) IN
         /\ Still(m, d) /\ ~d.uupsdd /\ d.creg = m.creg
         /\ \A j \in Slots : \A u \in {"registration", "monitor"} : d.urc[j] = u <=> m.urc[j] = u
<1>1. CASE ~m.uupsdd
  <2>1. unregister_uupsdd(m) = m
    BY <1>1 DEF unregister_uupsdd
  <2> QED
    BY <1>1, <2>1, StillRefl
<1>2. CASE m.uupsdd
  <2>1. m.cmd = "none" \/ NameOf(m.cmd) # "+UUPSDD"
    BY Names DEF ModemRecords
  <2>2. PICK a : a = unregister_urc(m, "+UUPSDD")
    OBVIOUS
  <2>3. /\ Still(m, a) /\ a.creg = m.creg /\ a.uupsdd = m.uupsdd
        /\ \/ a = m /\ SlotsOf(m, "+UUPSDD") = {}
           \/ \E i \in SlotsOf(m, "+UUPSDD") :
                \A j \in Slots : a.urc[j] = IF j = i THEN "none" ELSE m.urc[j]
    BY <2>1, <2>2, TakeOut
  <2>4. PICK d : d = [a EXCEPT !.uupsdd = FALSE]
    OBVIOUS
  <2>5. a \in ModemRecords
    BY <2>3 DEF Still
  <2>6. Still(a, d) /\ d.urc = a.urc /\ d.uupsdd = FALSE /\ d.creg = a.creg
    BY <2>4, <2>5, FlagsStill
  <2>7. Still(m, d)
    BY <2>3, <2>6, StillTrans
  <2>8. \A j \in Slots : \A u \in {"registration", "monitor"} : d.urc[j] = u <=> m.urc[j] = u
    BY <2>3, <2>6, SlotNames
  <2>9. unregister_uupsdd(m) = d
    BY <1>2, <2>2, <2>4 DEF unregister_uupsdd
  <2> QED
    BY <2>3, <2>6, <2>7, <2>8, <2>9
<1> QED
  BY <1>1, <1>2

(* A handler is put into a free slot, or the table is full.                *)
LEMMA PutIn ==
  ASSUME NEW m \in ModemRecords, NEW u \in UrcHandlers, m.run # "stop"
  PROVE  LET d == register_urc(m, u) IN
         \/ /\ \E i \in Slots : /\ m.urc[i] = "none"
                                /\ \A j \in Slots : d.urc[j] = IF j = i THEN u ELSE m.urc[j]
            /\ Still(m, d) /\ d.creg = m.creg /\ d.uupsdd = m.uupsdd
         \/ /\ \A i \in Slots : m.urc[i] # "none"
            /\ d \in ModemRecords /\ d.run = "stop" /\ (Powered(m, m.level) => Powered(d, d.level))
<1>1. PICK free : free = {i \in Slots : m.urc[i] = "none"}
  OBVIOUS
<1>2. CASE free = {}
  <2>1. register_urc(m, u) = [m EXCEPT !.run = "stop", !.fail = "list full"]
    BY <1>1, <1>2 DEF register_urc, assert
  <2>2. register_urc(m, u) \in ModemRecords
    <3>1. "list full" \in Failures
      BY DEF Failures
    <3>2. Quiet(m, [m EXCEPT !.run = "stop", !.fail = "list full"])
      BY <3>1, StopQuiet
    <3> QED
      BY <2>1, <3>2 DEF Quiet
  <2>3. /\ register_urc(m, u).run = "stop" /\ register_urc(m, u).level = m.level
        /\ register_urc(m, u).off = m.off /\ register_urc(m, u).vcc_off = m.vcc_off
    BY <2>1 DEF ModemRecords
  <2>4. Powered(m, m.level) => Powered(register_urc(m, u), register_urc(m, u).level)
    BY <2>3 DEF Powered
  <2> QED
    BY <1>1, <1>2, <2>2, <2>3, <2>4
<1>3. CASE free # {}
  <2>1. PICK i : i = First(free)
    OBVIOUS
  <2>2. i \in Slots /\ m.urc[i] = "none"
    BY <1>1, <1>3, <2>1, FirstIn
  <2>3. register_urc(m, u) = [m EXCEPT !.urc[i] = u]
    BY <1>1, <1>3, <2>1 DEF register_urc
  <2> QED
    BY <2>2, <2>3, SlotStill
<1> QED
  BY <1>2, <1>3

-----------------------------------------------------------------------------
(* A connection is cleaned up.                                             *)

(* d is m but for the handlers of result codes, what belongs to the GPRS   *)
(* connection and its activity.                                            *)
Kept(m, d) ==
  /\ d \in ModemRecords
  /\ d.state = m.state /\ d.level = m.level /\ d.target = m.target /\ d.inter = m.inter
  /\ d.force = m.force /\ d.cmd = m.cmd /\ d.delayed = m.delayed
  /\ d.tasks = m.tasks /\ d.keep = m.keep /\ d.cleanup = m.cleanup /\ d.off = m.off
  /\ d.vcc_off = m.vcc_off /\ d.run = m.run /\ d.ask = m.ask /\ d.sub = m.sub
  /\ d.net = m.net /\ d.pos = m.pos
  /\ "wake" \in d.timers <=> "wake" \in m.timers

LEMMA StillKept ==
  ASSUME NEW m, NEW d, Still(m, d)
  PROVE  Kept(m, d)
BY DEF Still, Kept

LEMMA KeptTrans ==
  ASSUME NEW m, NEW d, NEW e, Kept(m, d), Kept(d, e)
  PROVE  Kept(m, e)
BY DEF Kept

LEMMA KeptPhase ==
  ASSUME NEW m, NEW d, Kept(m, d)
  PROVE  /\ Phase(d) = Phase(m) /\ \A S : In(d, S) <=> In(m, S)
         /\ Active(m) => Active(d)
         /\ \A k : Queued(d, k) <=> Queued(m, k)
         /\ \A l : Powered(m, l) => Powered(d, l)
         /\ Loose(m) /\ OneCreg(d)
            /\ (Slotted(d, "registration") => Slotted(m, "registration")) => Loose(d)
<1>1. Phase(d) = Phase(m) /\ \A S : In(d, S) <=> In(m, S)
  BY DEF Kept, Phase, In
<1>2. Active(m) => Active(d)
  BY <1>1 DEF Kept, Active
<1>3. /\ \A k : Queued(d, k) <=> Queued(m, k)
      /\ \A l : Powered(m, l) => Powered(d, l)
  BY DEF Kept, Queued, Powered
<1>4. Loose(m) /\ OneCreg(d)
      /\ (Slotted(d, "registration") => Slotted(m, "registration")) => Loose(d)
  BY <1>1 DEF Kept, Loose
<1> QED
  BY <1>1, <1>2, <1>3, <1>4

(* The gprs timer is removed with its activity.                            *)
LEMMA GprsTimerOut ==
  ASSUME NEW m \in ModemRecords
  PROVE  LET d == remove_gprs_timer(m) IN
         /\ Kept(m, d) /\ d.urc = m.urc /\ d.creg = m.creg /\ d.uupsdd = m.uupsdd
         /\ d.work = m.work
         /\ d.timers = m.timers \ {"gprs"} /\ d.high = m.high
         /\ d.low = m.low - Flag("gprs" \in m.timers)
<1>0. m.low \in Int /\ m.high \in Int /\ m.timers \in SUBSET Timers /\ -1 \in Int
  BY DEF ModemRecords
<1>1. CASE "gprs" \notin m.timers
  <2>1. remove_gprs_timer(m) = m /\ m.timers \ {"gprs"} = m.timers
    BY <1>1 DEF remove_gprs_timer
  <2> QED
    BY <1>0, <1>1, <2>1 DEF Kept, Flag
<1>2. CASE "gprs" \in m.timers
  <2>1. PICK a : a = [m EXCEPT !.timers = m.timers \ {"gprs"}]
    OBVIOUS
  <2>2. a \in ModemRecords
    BY <1>0, <2>1 DEF ModemRecords
  <2>3. /\ a.timers = m.timers \ {"gprs"} /\ a.low = m.low /\ a.high = m.high
        /\ a.urc = m.urc /\ a.creg = m.creg /\ a.uupsdd = m.uupsdd /\ a.work = m.work
    BY <2>1 DEF ModemRecords
  <2>4. Kept(m, a)
    <3>1. /\ a.state = m.state /\ a.level = m.level /\ a.target = m.target /\ a.inter = m.inter
          /\ a.force = m.force /\ a.cmd = m.cmd /\ a.delayed = m.delayed
          /\ a.tasks = m.tasks /\ a.keep = m.keep /\ a.cleanup = m.cleanup /\ a.off = m.off
          /\ a.vcc_off = m.vcc_off /\ a.run = m.run /\ a.ask = m.ask /\ a.sub = m.sub
          /\ a.net = m.net /\ a.pos = m.pos
      BY <2>1 DEF ModemRecords
    <3> QED
      BY <2>2, <2>3, <3>1 DEF Kept
  <2>5. PICK d : d = pm_low(a, -1)
    OBVIOUS
  <2>6. /\ Same(a, d) /\ d.low = a.low + (-1) /\ d.high = a.high /\ d.timers = a.timers
        /\ d.cmd = a.cmd /\ d.delayed = a.delayed
    BY <1>0, <2>2, <2>5, CountsSame
  <2>7. Kept(a, d) /\ d.urc = m.urc /\ d.creg = m.creg /\ d.uupsdd = m.uupsdd /\ d.work = m.work
    BY <2>3, <2>6 DEF Same, Kept
  <2>8. Kept(m, d)
    BY <2>4, <2>7, KeptTrans
  <2>9. remove_gprs_timer(m) = d
    BY <1>2, <2>1, <2>5 DEF remove_gprs_timer, remove_timer
  <2> QED
    BY <1>0, <1>2, <2>3, <2>6, <2>7, <2>8, <2>9 DEF Flag
<1> QED
  BY <1>1, <1>2

(* Nothing is left of the GPRS connection.                                 *)
LEMMA GprsClean ==
  ASSUME NEW m, Loose(m), Nothing(m, 0, 0)
  PROVE  LET d == gprs_cleanup(m) IN
         /\ Kept(m, d) /\ Loose(d) /\ Nothing(d, 0, 0) /\ d.creg = m.creg
         /\ Slotted(d, "registration") <=> Slotted(m, "registration")
         /\ Slotted(d, "monitor") <=> Slotted(m, "monitor")
         /\ ~d.uupsdd /\ "gprs" \notin d.timers
<1>1. m \in ModemRecords /\ OneCreg(m)
  BY DEF Loose
<1>2. PICK a : a = unregister_uupsdd(m)
  OBVIOUS
<1>3. /\ Still(m, a) /\ ~a.uupsdd /\ a.creg = m.creg
      /\ \A j \in Slots : \A u \in {"registration", "monitor"} : a.urc[j] = u <=> m.urc[j] = u
  BY <1>1, <1>2, UupsddOut
<1>4. a \in ModemRecords /\ Kept(m, a) /\ a.timers = m.timers /\ a.low = m.low /\ a.high = m.high
  BY <1>3, StillKept DEF Still
<1>5. PICK b : b = remove_gprs_timer(a)
  OBVIOUS
<1>6. /\ Kept(a, b) /\ b.urc = a.urc /\ b.creg = a.creg /\ b.uupsdd = a.uupsdd
      /\ b.timers = a.timers \ {"gprs"} /\ b.high = a.high
      /\ b.low = a.low - Flag("gprs" \in a.timers)
  BY <1>4, <1>5, GprsTimerOut
<1>7. b \in ModemRecords
  BY <1>6 DEF Kept
<1>8. PICK d : d = [b EXCEPT !.sock = FALSE, !.work = FALSE]
  OBVIOUS
<1>9. d \in ModemRecords
  BY <1>7, <1>8, ZenonT(60) DEF ModemRecords
<1>10. /\ d.urc = b.urc /\ d.creg = b.creg /\ d.uupsdd = b.uupsdd /\ d.timers = b.timers
       /\ d.high = b.high /\ d.low = b.low
  BY <1>7, <1>8 DEF ModemRecords
<1>11. Kept(b, d)
  <2>1. /\ d.state = b.state /\ d.level = b.level /\ d.target = b.target /\ d.inter = b.inter
        /\ d.force = b.force /\ d.cmd = b.cmd /\ d.delayed = b.delayed
        /\ d.tasks = b.tasks /\ d.keep = b.keep /\ d.cleanup = b.cleanup /\ d.off = b.off
        /\ d.vcc_off = b.vcc_off /\ d.run = b.run /\ d.ask = b.ask /\ d.sub = b.sub
        /\ d.net = b.net /\ d.pos = b.pos
    BY <1>7, <1>8 DEF ModemRecords
  <2> QED
    BY <1>9, <1>10, <2>1 DEF Kept
<1>12. gprs_cleanup(m) = d
  BY <1>2, <1>5, <1>8 DEF gprs_cleanup, usrsock_uninitialize
<1>13. Kept(m, d)
  BY <1>4, <1>6, <1>11, KeptTrans
<1>14. /\ d.creg = m.creg /\ ~d.uupsdd /\ "gprs" \notin d.timers /\ d.urc = a.urc
       /\ d.uupsdd = a.uupsdd
  BY <1>3, <1>4, <1>6, <1>10
<1>15. /\ Slotted(d, "registration") <=> Slotted(m, "registration")
       /\ Slotted(d, "monitor") <=> Slotted(m, "monitor")
       /\ OneCreg(d)
  BY <1>1, <1>3, <1>14, SameSlots
<1>16. Loose(d)
  BY <1>13, <1>15, KeptPhase
<1>17. Nothing(d, 0, 0)
  <2>1. Alone(m, "none", "none", "none") /\ Balance(m, 0, 0) /\ m.low \in Int /\ m.high \in Int
    BY <1>1 DEF Nothing, ModemRecords
  <2>2. "gprs" \notin WorkTimers
    BY DEF WorkTimers
  <2>3. Alone(d, "none", "none", "none")
    BY <1>4, <1>6, <1>10, <1>13, <2>1, <2>2 DEF Alone, Kept
  <2>4. Balance(d, 0, 0)
    BY <1>4, <1>6, <1>10, <1>13, <2>1 DEF Balance, Kept, Flag
  <2> QED
    BY <2>3, <2>4 DEF Nothing
<1> QED
  BY <1>12, <1>13, <1>14, <1>15, <1>16, <1>17

LEMMA NoCregTimers ==
  ASSUME NEW m, Alone(m, "none", "none", "none")
  PROVE  remove_creg_timer(m) = m
<1>1. CregTimers \subseteq WorkTimers /\ "none" \notin CregTimers
  BY DEF WorkTimers, Timers, CregTimers
<1>2. m.timers \cap CregTimers = {}
  BY <1>1 DEF Alone
<1> QED
  BY <1>2 DEF remove_creg_timer

(* Nothing is left of the network connection.                              *)
LEMMA NetworkClean ==
  ASSUME NEW m, Loose(m), Nothing(m, 0, 0)
  PROVE  LET d == network_cleanup(m) IN
         /\ Kept(m, d) /\ Loose(d) /\ Nothing(d, 0, 0)
         /\ m.level < NETWORK => d = m
         /\ m.level >= NETWORK => ~d.creg
         /\ m.level = GPRS => ~d.uupsdd /\ "gprs" \notin d.timers
         /\ m.level # GPRS => /\ d.uupsdd = m.uupsdd
                              /\ "gprs" \in d.timers <=> "gprs" \in m.timers
<1>0. m \in ModemRecords
  BY DEF Loose
<1>1. m \in ModemRecords /\ m.level \in Int
  <2>1. m.level \in Levels
    BY <1>0 DEF ModemRecords
  <2> QED
    BY <1>0, <2>1, LevelFacts
<1>2. PICK g : g = IF m.level = GPRS THEN gprs_cleanup(m) ELSE m
  OBVIOUS
<1>3. /\ Kept(m, g) /\ Loose(g) /\ Nothing(g, 0, 0)
      /\ m.level = GPRS => ~g.uupsdd /\ "gprs" \notin g.timers
      /\ m.level # GPRS => g = m
  <2>1. Kept(m, m)
    BY <1>1 DEF Kept
  <2> QED
    BY <1>2, <2>1, GprsClean
<1>4. CASE m.level < NETWORK
  <2>1. m.level # GPRS /\ ~(m.level >= NETWORK)
    BY <1>1, <1>4 DEF NETWORK, GPRS
  <2>2. network_cleanup(m) = m
    BY <1>2, <1>3, <2>1 DEF network_cleanup
  <2> QED
    BY <1>3, <2>1, <2>2
<1>5. CASE m.level >= NETWORK
  <2>1. ~(m.level < NETWORK)
    BY <1>1, <1>5 DEF NETWORK
  <2>2. g \in ModemRecords /\ g.cmd # "CREG" /\ OneCreg(g) /\ Alone(g, "none", "none", "none")
    BY <1>3 DEF Loose, Nothing, Alone
  <2>3. PICK d : d = unregister_creg(g)
    OBVIOUS
  <2>4. /\ Still(g, d) /\ ~d.creg /\ d.uupsdd = g.uupsdd
        /\ ~Slotted(d, "registration") /\ ~Slotted(d, "monitor") /\ OneCreg(d)
        /\ \A j \in Slots : d.urc[j] = "UUPSDD" <=> g.urc[j] = "UUPSDD"
    BY <2>2, <2>3, CregOut
  <2>5. network_cleanup(m) = d
    BY <1>2, <1>5, <2>2, <2>3, NoCregTimers DEF network_cleanup
  <2>6. Kept(g, d) /\ Nothing(d, 0, 0) /\ d.timers = g.timers
    BY <1>3, <2>4, StillKept, StillPending DEF Still
  <2>7. Kept(m, d) /\ Loose(d)
    BY <1>3, <2>4, <2>6, KeptTrans, KeptPhase
  <2> QED
    BY <1>3, <2>1, <2>4, <2>5, <2>6, <2>7
<1> QED
  BY <1>1, <1>4, <1>5 DEF NETWORK

-----------------------------------------------------------------------------
(* The modem goes back to waiting.                                         *)

(* A wake: the timer and its activity.                                     *)
LEMMA WakeFields ==
  ASSUME NEW m \in ModemRecords, m.state = "WAITING", m.run # "stop",
         m.run = "wake" => "wake" \notin m.timers
  PROVE  LET d == wake_waiting_state(m, FALSE) IN
         /\ d \in ModemRecords
         /\ d.state = m.state /\ d.level = m.level /\ d.target = m.target /\ d.inter = m.inter
         /\ d.force = m.force /\ d.cmd = m.cmd /\ d.delayed = m.delayed /\ d.urc = m.urc
         /\ d.creg = m.creg /\ d.uupsdd = m.uupsdd /\ d.tasks = m.tasks /\ d.keep = m.keep
         /\ d.cleanup = m.cleanup /\ d.off = m.off /\ d.vcc_off = m.vcc_off /\ d.run = m.run
         /\ d.ask = m.ask /\ d.sub = m.sub /\ d.low = m.low /\ d.work = m.work
         /\ \A t \in Timers \ {"wake"} : t \in d.timers <=> t \in m.timers
         /\ "wake" \in d.timers <=> "wake" \in m.timers \/ m.run = "poll"
         /\ d.high = m.high + Flag("wake" \in d.timers) - Flag("wake" \in m.timers)
<1>0. m.high \in Int /\ m.timers \in SUBSET Timers /\ 1 \in Int /\ "wake" \in Timers
      /\ m.run \in {"poll", "machine", "wake", "stop"}
  BY DEF ModemRecords, Timers
<1>1. CASE in_state_machine(m) \/ "wake" \in m.timers
  <2>1. wake_waiting_state(m, FALSE) = m
    BY <1>1 DEF wake_waiting_state
  <2>2. m.run = "poll" => "wake" \in m.timers
    BY <1>1 DEF in_state_machine
  <2>3. m.high = m.high + Flag("wake" \in m.timers) - Flag("wake" \in m.timers)
    BY <1>0 DEF Flag
  <2> QED
    BY <2>1, <2>2, <2>3
<1>2. CASE ~in_state_machine(m) /\ "wake" \notin m.timers
  <2>1. m.run = "poll"
    BY <1>0, <1>2 DEF in_state_machine
  <2>2. PICK a : a = pm_high(m, 1)
    OBVIOUS
  <2>3. /\ Same(m, a) /\ a.high = m.high + 1 /\ a.low = m.low
        /\ a.cmd = m.cmd /\ a.delayed = m.delayed /\ a.timers = m.timers
    BY <1>0, <2>2, CountsSame
  <2>4. a \in ModemRecords
    BY <2>3 DEF Same
  <2>5. PICK d : d = [a EXCEPT !.timers = m.timers \cup {"wake"}]
    OBVIOUS
  <2>6. wake_waiting_state(m, FALSE) = d /\ d \in ModemRecords
    <3>1. set_timer(a, "wake") = d /\ set_timer(a, "wake") \in ModemRecords
      BY <1>0, <1>2, <2>3, <2>4, <2>5, SetFresh
    <3>2. wake_waiting_state(m, FALSE) = set_timer(a, "wake")
      BY <1>2, <2>2 DEF wake_waiting_state, set_high_timer
    <3> QED
      BY <3>1, <3>2
  <2>7. /\ d.state = a.state /\ d.level = a.level /\ d.target = a.target /\ d.inter = a.inter
        /\ d.force = a.force /\ d.cmd = a.cmd /\ d.delayed = a.delayed /\ d.urc = a.urc
        /\ d.creg = a.creg /\ d.uupsdd = a.uupsdd /\ d.tasks = a.tasks /\ d.keep = a.keep
        /\ d.cleanup = a.cleanup /\ d.off = a.off /\ d.vcc_off = a.vcc_off /\ d.run = a.run
        /\ d.ask = a.ask /\ d.sub = a.sub /\ d.low = a.low /\ d.high = a.high
        /\ d.work = a.work
    BY <2>4, <2>5 DEF ModemRecords
  <2>8. d.timers = m.timers \cup {"wake"}
    BY <2>4, <2>5 DEF ModemRecords
  <2>9. d.high = m.high + Flag("wake" \in d.timers) - Flag("wake" \in m.timers)
    BY <1>0, <1>2, <2>3, <2>7, <2>8 DEF Flag
  <2>10. /\ \A t \in Timers \ {"wake"} : t \in d.timers <=> t \in m.timers
         /\ "wake" \in d.timers
    BY <2>8
  <2> QED
    BY <2>1, <2>3, <2>6, <2>7, <2>9, <2>10, ZenonT(60) DEF Same
<1> QED
  BY <1>1, <1>2

(* d is m gone back to waiting.                                            *)
Waits(m, d) ==
  /\ d \in ModemRecords
  /\ d.state = "WAITING" /\ d.level = m.level /\ d.target = m.target /\ d.inter = m.inter
  /\ d.force = m.force /\ d.uupsdd = m.uupsdd /\ d.tasks = m.tasks /\ d.keep = m.keep
  /\ d.off = m.off /\ d.vcc_off = m.vcc_off /\ d.run = m.run /\ d.ask = m.ask
  /\ d.sub = m.sub /\ d.work = m.work /\ ~d.cleanup
  /\ "gprs" \in d.timers <=> "gprs" \in m.timers
  /\ "wake" \in d.timers <=> "wake" \in m.timers \/ m.run = "poll"
  /\ \A j \in Slots : d.urc[j] = "UUPSDD" <=> m.urc[j] = "UUPSDD"
  /\ ~Slotted(d, "registration")
  /\ In(m, {"SETUP_NETWORK"}) /\ ~m.keep => ~d.creg
  /\ ~In(m, {"SETUP_NETWORK"}) \/ m.keep =>
       d.creg = m.creg /\ (Slotted(d, "monitor") <=> Slotted(m, "monitor"))

(* The registration that ends takes its handler with it, unless it is kept *)
(* as the monitor.                                                         *)
LEMMA SetupClean ==
  ASSUME NEW m, Loose(m), Nothing(m, 0, 0), In(m, {"SETUP_NETWORK"})
  PROVE  LET c == setup_network_cleanup(m) IN
         /\ Still(m, c) /\ OneCreg(c) /\ ~Slotted(c, "registration") /\ c.uupsdd = m.uupsdd
         /\ \A j \in Slots : c.urc[j] = "UUPSDD" <=> m.urc[j] = "UUPSDD"
         /\ ~m.keep => ~c.creg
         /\ m.keep  => c = m
<1>1. /\ m \in ModemRecords /\ OneCreg(m) /\ m.cmd # "CREG" /\ Alone(m, "none", "none", "none")
      /\ m.keep => ~Slotted(m, "registration")
  BY DEF Loose, Nothing, Alone
<1>2. remove_creg_timer(m) = m
  BY <1>1, NoCregTimers
<1>3. CASE m.keep
  <2>1. setup_network_cleanup(m) = m
    BY <1>2, <1>3 DEF setup_network_cleanup
  <2> QED
    BY <1>1, <1>3, <2>1, StillRefl
<1>4. CASE ~m.keep
  <2>1. setup_network_cleanup(m) = unregister_creg(m)
    BY <1>2, <1>4 DEF setup_network_cleanup
  <2> QED
    BY <1>1, <1>4, <2>1, CregOut
<1> QED
  BY <1>3, <1>4

(* The state and the flag of the clean-up.                                 *)
LEMMA StateFields ==
  ASSUME NEW m \in ModemRecords, NEW s \in States, NEW b \in BOOLEAN, NEW v \in Int
  PROVE  LET d == [pm_low([m EXCEPT !.cleanup = b], v) EXCEPT !.state = s] IN
         /\ d \in ModemRecords
         /\ d.state = s /\ d.level = m.level /\ d.target = m.target /\ d.inter = m.inter
         /\ d.force = m.force /\ d.cmd = m.cmd /\ d.delayed = m.delayed /\ d.urc = m.urc
         /\ d.creg = m.creg /\ d.uupsdd = m.uupsdd /\ d.tasks = m.tasks /\ d.keep = m.keep
         /\ d.cleanup = b /\ d.off = m.off /\ d.vcc_off = m.vcc_off /\ d.run = m.run
         /\ d.ask = m.ask /\ d.sub = m.sub /\ d.low = m.low + v /\ d.high = m.high
         /\ d.work = m.work /\ d.timers = m.timers /\ d.net = m.net /\ d.pos = m.pos
<1>1. PICK c : c = [m EXCEPT !.cleanup = b]
  OBVIOUS
<1>2. c \in ModemRecords
  BY <1>1, ZenonT(60) DEF ModemRecords
<1>3. /\ c.state = m.state /\ c.level = m.level /\ c.target = m.target /\ c.inter = m.inter
      /\ c.force = m.force /\ c.cmd = m.cmd /\ c.delayed = m.delayed /\ c.urc = m.urc
      /\ c.creg = m.creg /\ c.uupsdd = m.uupsdd /\ c.tasks = m.tasks /\ c.keep = m.keep
      /\ c.cleanup = b /\ c.off = m.off /\ c.vcc_off = m.vcc_off /\ c.run = m.run
      /\ c.ask = m.ask /\ c.sub = m.sub /\ c.low = m.low /\ c.high = m.high
      /\ c.work = m.work /\ c.timers = m.timers /\ c.net = m.net /\ c.pos = m.pos
  BY <1>1 DEF ModemRecords
<1>4. PICK p : p = pm_low(c, v)
  OBVIOUS
<1>5. /\ Same(c, p) /\ p.low = c.low + v /\ p.high = c.high
      /\ p.cmd = c.cmd /\ p.delayed = c.delayed /\ p.timers = c.timers
  BY <1>2, <1>4, CountsSame
<1>6. /\ p \in ModemRecords
      /\ p.level = m.level /\ p.target = m.target /\ p.inter = m.inter
      /\ p.force = m.force /\ p.cmd = m.cmd /\ p.delayed = m.delayed /\ p.urc = m.urc
      /\ p.creg = m.creg /\ p.uupsdd = m.uupsdd /\ p.tasks = m.tasks /\ p.keep = m.keep
      /\ p.cleanup = b /\ p.off = m.off /\ p.vcc_off = m.vcc_off /\ p.run = m.run
      /\ p.ask = m.ask /\ p.sub = m.sub /\ p.low = m.low + v /\ p.high = m.high
      /\ p.work = m.work /\ p.timers = m.timers /\ p.net = m.net /\ p.pos = m.pos
  BY <1>3, <1>5 DEF Same
<1>7. PICK d : d = [p EXCEPT !.state = s]
  OBVIOUS
<1>8. d \in ModemRecords
  BY <1>6, <1>7, ZenonT(60) DEF ModemRecords
<1>9. /\ d.state = s /\ d.level = p.level /\ d.target = p.target /\ d.inter = p.inter
      /\ d.force = p.force /\ d.cmd = p.cmd /\ d.delayed = p.delayed /\ d.urc = p.urc
      /\ d.creg = p.creg /\ d.uupsdd = p.uupsdd /\ d.tasks = p.tasks /\ d.keep = p.keep
      /\ d.cleanup = p.cleanup /\ d.off = p.off /\ d.vcc_off = p.vcc_off /\ d.run = p.run
      /\ d.ask = p.ask /\ d.sub = p.sub /\ d.low = p.low /\ d.high = p.high
      /\ d.work = p.work /\ d.timers = p.timers /\ d.net = p.net /\ d.pos = p.pos
  BY <1>6, <1>7 DEF ModemRecords
<1> QED
  BY <1>1, <1>4, <1>6, <1>7, <1>8, <1>9

(* change_state, with the clean-up of the sub-state machine it leaves.     *)
LEMMA WaitFields ==
  ASSUME NEW m, Loose(m), m.state # "WAITING", Nothing(m, 0, 0)
  PROVE  LET d == change_state(m, "WAITING") IN Waits(m, d) /\ Loose(d) /\ Nothing(d, 0, 0)
<1>1. /\ m \in ModemRecords /\ m.run # "stop" /\ (m.run = "wake" => "wake" \notin m.timers)
      /\ OneCreg(m) /\ (m.cleanup <=> In(m, {"SETUP_NETWORK"}))
      /\ Slotted(m, "registration") => In(m, {"SETUP_NETWORK"}) /\ ~m.keep
  BY DEF Loose
<1>2. PICK c : c = IF m.cleanup /\ m.state = "IN_SUBSTATE" THEN setup_network_cleanup(m) ELSE m
  OBVIOUS
<1>3. /\ Still(m, c) /\ OneCreg(c) /\ ~Slotted(c, "registration") /\ c.uupsdd = m.uupsdd
      /\ \A j \in Slots : c.urc[j] = "UUPSDD" <=> m.urc[j] = "UUPSDD"
      /\ In(m, {"SETUP_NETWORK"}) /\ ~m.keep => ~c.creg
      /\ ~In(m, {"SETUP_NETWORK"}) \/ m.keep => c = m
  <2>1. CASE In(m, {"SETUP_NETWORK"})
    <3>1. c = setup_network_cleanup(m)
      BY <1>1, <1>2, <2>1 DEF In
    <3> QED
      BY <2>1, <3>1, SetupClean
  <2>2. CASE ~In(m, {"SETUP_NETWORK"})
    <3>1. c = m
      BY <1>1, <1>2, <2>2
    <3> QED
      BY <1>1, <2>2, <3>1, StillRefl
  <2> QED
    BY <2>1, <2>2
<1>4. c \in ModemRecords /\ Nothing(c, 0, 0)
  <2>1. c \in ModemRecords
    BY <1>3 DEF Still
  <2> QED
    BY <1>3, <2>1, StillPending
<1>5. PICK e : e = [pm_low([c EXCEPT !.cleanup = FALSE], -1) EXCEPT !.state = "WAITING"]
  OBVIOUS
<1>6. change_state(m, "WAITING") = wake_waiting_state(e, FALSE)
  <2>1. PICK k : k = IF m.cleanup /\ m.state = "IN_SUBSTATE"
                     THEN [setup_network_cleanup(m) EXCEPT !.cleanup = FALSE] ELSE m
    OBVIOUS
  <2>2. change_state(m, "WAITING") =
          wake_waiting_state([pm_low(k, -1) EXCEPT !.state = "WAITING"], FALSE)
    BY <2>1 DEF change_state
  <2>3. k = [c EXCEPT !.cleanup = FALSE]
    <3>1. CASE m.cleanup /\ m.state = "IN_SUBSTATE"
      BY <1>2, <2>1, <3>1
    <3>2. CASE ~(m.cleanup /\ m.state = "IN_SUBSTATE")
      <4>1. m.cleanup = FALSE /\ c = m /\ k = m
        <5>1. m.cleanup \in BOOLEAN
          BY <1>1 DEF ModemRecords
        <5> QED
          BY <1>1, <1>2, <2>1, <3>2, <5>1 DEF In
      <4>2. [m EXCEPT !.cleanup = FALSE] = m
        BY <1>1, <4>1 DEF ModemRecords
      <4> QED
        BY <4>1, <4>2
    <3> QED
      BY <3>1, <3>2
  <2> QED
    BY <1>5, <2>2, <2>3
<1>7. /\ e \in ModemRecords
      /\ e.state = "WAITING" /\ e.level = c.level /\ e.target = c.target /\ e.inter = c.inter
      /\ e.force = c.force /\ e.cmd = c.cmd /\ e.delayed = c.delayed /\ e.urc = c.urc
      /\ e.creg = c.creg /\ e.uupsdd = c.uupsdd /\ e.tasks = c.tasks /\ e.keep = c.keep
      /\ e.cleanup = FALSE /\ e.off = c.off /\ e.vcc_off = c.vcc_off /\ e.run = c.run
      /\ e.ask = c.ask /\ e.sub = c.sub /\ e.low = c.low + (-1) /\ e.high = c.high
      /\ e.work = c.work /\ e.timers = c.timers
  <2>1. PICK s \in States : s = "WAITING"
    BY DEF States
  <2>2. PICK b \in BOOLEAN : b = FALSE
    OBVIOUS
  <2>3. PICK v \in Int : v = -1
    OBVIOUS
  <2>4. e = [pm_low([c EXCEPT !.cleanup = b], v) EXCEPT !.state = s]
    BY <1>5, <2>1, <2>2, <2>3
  <2> HIDE <2>1, <2>2, <2>3
  <2>5. /\ e \in ModemRecords
        /\ e.state = s /\ e.level = c.level /\ e.target = c.target /\ e.inter = c.inter
        /\ e.force = c.force /\ e.cmd = c.cmd /\ e.delayed = c.delayed /\ e.urc = c.urc
        /\ e.creg = c.creg /\ e.uupsdd = c.uupsdd /\ e.tasks = c.tasks /\ e.keep = c.keep
        /\ e.cleanup = b /\ e.off = c.off /\ e.vcc_off = c.vcc_off /\ e.run = c.run
        /\ e.ask = c.ask /\ e.sub = c.sub /\ e.low = c.low + v /\ e.high = c.high
        /\ e.work = c.work /\ e.timers = c.timers
    BY <1>4, <2>4, StateFields
  <2> QED
    BY <2>1, <2>2, <2>3, <2>5
<1>8. c.run = m.run /\ c.timers = m.timers
  BY <1>3 DEF Still
<1>9. PICK d : d = wake_waiting_state(e, FALSE)
  OBVIOUS
<1>10. /\ d \in ModemRecords
       /\ d.state = e.state /\ d.level = e.level /\ d.target = e.target /\ d.inter = e.inter
       /\ d.force = e.force /\ d.cmd = e.cmd /\ d.delayed = e.delayed /\ d.urc = e.urc
       /\ d.creg = e.creg /\ d.uupsdd = e.uupsdd /\ d.tasks = e.tasks /\ d.keep = e.keep
       /\ d.cleanup = e.cleanup /\ d.off = e.off /\ d.vcc_off = e.vcc_off /\ d.run = e.run
       /\ d.ask = e.ask /\ d.sub = e.sub /\ d.low = e.low /\ d.work = e.work
       /\ \A t \in Timers \ {"wake"} : t \in d.timers <=> t \in e.timers
       /\ "wake" \in d.timers <=> "wake" \in e.timers \/ e.run = "poll"
       /\ d.high = e.high + Flag("wake" \in d.timers) - Flag("wake" \in e.timers)
  <2>1. e.state = "WAITING" /\ e.run # "stop" /\ (e.run = "wake" => "wake" \notin e.timers)
    BY <1>1, <1>7, <1>8
  <2>2. e \in ModemRecords
    BY <1>7
  <2> QED
    BY <1>9, <2>1, <2>2, WakeFields
<1>11. Waits(m, d)
  <2>1. "gprs" \in Timers
    BY TimerFacts
  <2>2. /\ d.urc = c.urc /\ d.creg = c.creg /\ d.uupsdd = m.uupsdd /\ ~d.cleanup
        /\ "gprs" \in d.timers <=> "gprs" \in m.timers
        /\ "wake" \in d.timers <=> "wake" \in m.timers \/ m.run = "poll"
    BY <1>3, <1>7, <1>8, <1>10, <2>1
  <2>3. /\ d.state = "WAITING" /\ d.level = m.level /\ d.target = m.target
        /\ d.inter = m.inter /\ d.force = m.force /\ d.tasks = m.tasks
        /\ d.keep = m.keep /\ d.off = m.off /\ d.vcc_off = m.vcc_off /\ d.run = m.run
        /\ d.ask = m.ask /\ d.sub = m.sub /\ d.work = m.work
    BY <1>3, <1>7, <1>10 DEF Still
  <2>4. /\ \A j \in Slots : d.urc[j] = "UUPSDD" <=> m.urc[j] = "UUPSDD"
        /\ ~Slotted(d, "registration")
        /\ In(m, {"SETUP_NETWORK"}) /\ ~m.keep => ~d.creg
        /\ ~In(m, {"SETUP_NETWORK"}) \/ m.keep =>
             d.creg = m.creg /\ (Slotted(d, "monitor") <=> Slotted(m, "monitor"))
    BY <1>3, <2>2 DEF Slotted
  <2> QED
    BY <1>10, <2>2, <2>3, <2>4 DEF Waits
<1>12. OneCreg(d)
  <2>1. d.urc = c.urc /\ d.creg = c.creg
    BY <1>7, <1>10
  <2> QED
    BY <1>3, <2>1 DEF OneCreg, Slotted
<1>13. Loose(d)
  <2>1. /\ d.inter \in {POWERED_OFF, SIM_ENABLED, NETWORK, LEVEL_MAX}
        /\ d.target # STUCK_HARDWARE
        /\ d.force \in {POWERED_OFF, LEVEL_MAX} /\ d.ask \in {NOTHING, POWERED_OFF}
        /\ d.run # "stop" /\ (d.run = "wake" => "wake" \notin d.timers)
    BY <1>1, <1>11 DEF Loose, Waits
  <2>2. d \in ModemRecords /\ (d.cleanup <=> In(d, {"SETUP_NETWORK"}))
        /\ ~Slotted(d, "registration")
    BY <1>11 DEF Waits, In
  <2> QED
    BY <1>12, <2>1, <2>2 DEF Loose
<1>14. Nothing(d, 0, 0)
  <2>1. Alone(c, "none", "none", "none") /\ Balance(c, 0, 0) /\ c.low \in Int /\ c.high \in Int
    BY <1>4 DEF Nothing, ModemRecords
  <2>2. WorkTimers \subseteq Timers \ {"wake"} /\ "gprs" \in Timers \ {"wake"}
    BY TimerFacts DEF WorkTimers
  <2>3. Alone(d, "none", "none", "none")
    BY <1>7, <1>10, <2>1, <2>2 DEF Alone
  <2>4. c.state = m.state
    BY <1>3 DEF Still
  <2>5. Balance(d, 0, 0)
    <3>1. d.low = 0 + Flag(d.state # "WAITING") + Flag("gprs" \in d.timers)
      BY <1>7, <1>10, <2>1, <2>2, <2>4 DEF Balance, Flag
    <3>2. d.high = 0 + Flag("wake" \in d.timers) + Flag(d.run = "wake")
      BY <1>7, <1>10, <2>1 DEF Balance, Flag
    <3> QED
      BY <3>1, <3>2 DEF Balance
  <2> QED
    BY <2>3, <2>5 DEF Nothing
<1> QED
  BY <1>6, <1>9, <1>11, <1>13, <1>14

(* Nothing is pending, or a timer that goes with the registration.         *)
Quits(m) == \/ Nothing(m, 0, 0)
            \/ In(m, {"SETUP_NETWORK"}) /\ \E t \in CregTimers : Timed(m, t)

LEMMA CregTimerOut ==
  ASSUME NEW m \in ModemRecords, NEW t \in CregTimers, Timed(m, t)
  PROVE  Same(m, remove_creg_timer(m)) /\ Nothing(remove_creg_timer(m), 0, 0)
<1>1. /\ CregTimers \subseteq WorkTimers /\ "none" \notin WorkTimers /\ CregTimers \cap HighTimers = {}
      /\ "gprs" \notin CregTimers /\ "wake" \notin CregTimers
      /\ "gprs" \notin WorkTimers /\ "wake" \notin WorkTimers
  BY DEF WorkTimers, Timers, CregTimers, HighTimers
<1>2. /\ m.cmd = "none" /\ m.delayed = "none" /\ (\A u \in WorkTimers : u \in m.timers <=> u = t)
      /\ m.timers \in SUBSET Timers /\ m.low \in Int /\ m.high \in Int
      /\ Balance(m, Flag(t \in CregTimers), Flag(t \in HighTimers))
  BY DEF Timed, Alone, ModemRecords
<1>3. m.timers \cap CregTimers # {}
  BY <1>1, <1>2
<1>4. PICK e : e = [m EXCEPT !.timers = m.timers \ CregTimers]
  OBVIOUS
<1>5. Same(m, e)
  BY <1>1, <1>2, <1>4, TimersSame
<1>6. /\ e.timers = m.timers \ CregTimers /\ e.cmd = m.cmd /\ e.delayed = m.delayed
      /\ e.low = m.low /\ e.high = m.high
  BY <1>4 DEF ModemRecords
<1>7. e \in ModemRecords
  BY <1>5 DEF Same
<1>8. PICK d : d = pm_low(e, -1)
  OBVIOUS
<1>9. /\ Same(e, d) /\ d.low = e.low + (-1) /\ d.high = e.high
      /\ d.cmd = e.cmd /\ d.delayed = e.delayed /\ d.timers = e.timers
  BY <1>7, <1>8, Literals, CountsSame
<1>10. remove_creg_timer(m) = d
  BY <1>3, <1>4, <1>8 DEF remove_creg_timer
<1>11. Alone(d, "none", "none", "none")
  BY <1>1, <1>2, <1>6, <1>9 DEF Alone
<1>12. d.state = m.state /\ d.run = m.run
  BY <1>5, <1>9 DEF Same
<1>13. Balance(d, 0, 0)
  <2>1. Flag(t \in CregTimers) = 1 /\ Flag(t \in HighTimers) = 0
    BY <1>1 DEF Flag
  <2>2. /\ "gprs" \in d.timers <=> "gprs" \in m.timers
        /\ "wake" \in d.timers <=> "wake" \in m.timers
    BY <1>1, <1>6, <1>9
  <2> QED
    BY <1>2, <1>6, <1>9, <1>12, <2>1, <2>2 DEF Balance, Flag
<1> QED
  BY <1>5, <1>9, <1>10, <1>11, <1>13, SameTrans DEF Nothing

(* The change of state also ends what goes with the registration.          *)
LEMMA QuitFields ==
  ASSUME NEW m, Loose(m), m.state # "WAITING", Quits(m)
  PROVE  LET d == change_state(m, "WAITING") IN Waits(m, d) /\ Loose(d) /\ Nothing(d, 0, 0)
<1>1. CASE Nothing(m, 0, 0)
  BY <1>1, WaitFields
<1>2. CASE In(m, {"SETUP_NETWORK"}) /\ \E t \in CregTimers : Timed(m, t)
  <2>1. m \in ModemRecords /\ m.cleanup
    BY <1>2 DEF Loose
  <2>2. PICK n : n = remove_creg_timer(m)
    OBVIOUS
  <2>3. Same(m, n) /\ Nothing(n, 0, 0)
    BY <1>2, <2>1, <2>2, CregTimerOut
  <2>4. Loose(n)
    BY <2>3, SameBase
  <2>5. /\ n.state = m.state /\ n.cleanup = m.cleanup /\ n.sub = m.sub /\ m.state = "IN_SUBSTATE"
    BY <1>2, <2>3 DEF Same, In
  <2>6. remove_creg_timer(n) = n
    BY <2>3, NoCregTimers DEF Nothing
  <2>7. setup_network_cleanup(m) = setup_network_cleanup(n)
    BY <2>2, <2>6 DEF setup_network_cleanup
  <2>8. change_state(m, "WAITING") = change_state(n, "WAITING")
    BY <2>1, <2>5, <2>7 DEF change_state
  <2>9. PICK d : d = change_state(n, "WAITING")
    OBVIOUS
  <2>10. Waits(n, d) /\ Loose(d) /\ Nothing(d, 0, 0)
    BY <2>3, <2>4, <2>5, <2>9, WaitFields
  <2>11. (\A u : Slotted(n, u) <=> Slotted(m, u)) /\ (\A S : In(n, S) <=> In(m, S))
    BY <2>3 DEF Same, Slotted, In
  <2>12. Waits(m, d)
    BY <2>3, <2>10, <2>11 DEF Same, Waits
  <2> QED
    BY <2>8, <2>9, <2>10, <2>12
<1> QED
  BY <1>1, <1>2 DEF Quits

-----------------------------------------------------------------------------
(* What a handler ends with.                                               *)

(* The modem as a handler finds it, when its own step is over.             *)
Ready(m) == /\ Base(m) /\ Active(m) /\ Nothing(m, 0, 0)
            /\ m.run = "poll" \/ m.state = "IN_SUBSTATE"

(* The type and what is known of the levels.                               *)
LEMMA LooseLevels ==
  ASSUME NEW m, Loose(m)
  PROVE  /\ m \in ModemRecords /\ m.level \in Levels /\ m.target \in Levels
         /\ m.level \in Int /\ m.target \in Int /\ m.inter \in Int /\ m.level \in 0 .. 6
         /\ m.run \in {"poll", "machine", "wake"} /\ m.state \in States
<1>1. m \in ModemRecords /\ m.run # "stop"
  BY DEF Loose
<1>2. /\ m.level \in Levels /\ m.target \in Levels /\ m.inter \in Levels \cup {LEVEL_MAX}
      /\ m.run \in {"poll", "machine", "wake", "stop"} /\ m.state \in States
  BY <1>1 DEF ModemRecords
<1> QED
  BY <1>1, <1>2, LevelFacts

LEMMA MinorReady ==
  ASSUME NEW m, NEW d, Ready(m), Minor(m, d)
  PROVE  Ready(d) /\ Phase(d) = Phase(m)
<1>1. /\ Base(m) /\ Active(m) /\ Nothing(m, 0, 0)
      /\ m.run = "poll" \/ m.state = "IN_SUBSTATE"
  BY DEF Ready
<1>2. d.run = m.run /\ d.state = m.state
  BY DEF Minor
<1>3. Base(d) /\ Active(d) /\ Nothing(d, 0, 0) /\ Phase(d) = Phase(m)
  BY <1>1, MinorBase
<1> QED
  BY <1>1, <1>2, <1>3 DEF Ready

LEMMA SameReady ==
  ASSUME NEW m, NEW d, Same(m, d), Base(m), Active(m), Nothing(d, 0, 0),
         m.run = "poll" \/ m.state = "IN_SUBSTATE"
  PROVE  Ready(d) /\ Phase(d) = Phase(m) /\ \A x : Detail(m, x) => Detail(d, x)
<1>1. d.run = m.run /\ d.state = m.state
  BY DEF Same
<1>2. Base(d) /\ Active(d) /\ Phase(d) = Phase(m) /\ \A x : Detail(m, x) => Detail(d, x)
  BY SameBase
<1> QED
  BY <1>1, <1>2 DEF Ready

(* The next step of the phase is pending.                                  *)
LEMMA StepBusy ==
  ASSUME NEW m, NEW d, NEW x, Base(m), Active(m), Belongs(x, Phase(m)), Detail(m, x),
         Same(m, d), Has(d, x)
  PROVE  /\ Base(d) /\ Busy(d, x)
         /\ m.run = "poll" \/ m.state = "IN_SUBSTATE" => Good(d)
<1>1. Base(d) /\ Active(d) /\ Phase(d) = Phase(m) /\ Detail(d, x)
  BY SameBase
<1>2. Busy(d, x)
  BY <1>1 DEF Busy
<1>3. x \in Steps /\ d.run # "stop" /\ d.run = m.run /\ d.state = m.state
  BY <1>1 DEF Belongs, Base, Loose, Same
<1>4. "IN_SUBSTATE" \notin Works
  BY DEF Works
<1> QED
  BY <1>1, <1>2, <1>3, <1>4 DEF Good

LEMMA SendGood ==
  ASSUME NEW m, Ready(m), NEW c \in Commands, Belongs(c, Phase(m)), Detail(m, c)
  PROVE  Good(send_cmd(m, c)) /\ Good(modem_send_cmd(m, c))
<1>1. /\ Base(m) /\ Active(m) /\ Nothing(m, 0, 0)
      /\ m.run = "poll" \/ m.state = "IN_SUBSTATE"
  BY DEF Ready
<1>2. m \in ModemRecords
  BY <1>1 DEF Base, Loose
<1>3. /\ Same(m, send_cmd(m, c)) /\ Has(send_cmd(m, c), c)
      /\ Same(m, modem_send_cmd(m, c)) /\ Has(modem_send_cmd(m, c), c)
  BY <1>1, <1>2, SendStep
<1> QED
  BY <1>1, <1>3, StepBusy

LEMMA TimerGood ==
  ASSUME NEW m, Ready(m), NEW t \in StepTimers, Belongs(t, Phase(m)), Detail(m, t)
  PROVE  /\ t \in HighTimers => Good(set_high_timer(m, t))
         /\ t \in CregTimers => Good(set_creg_timer(m, t))
         /\ t \notin HighTimers \cup CregTimers => Good(set_timer(m, t))
<1>1. /\ Base(m) /\ Active(m) /\ Nothing(m, 0, 0)
      /\ m.run = "poll" \/ m.state = "IN_SUBSTATE"
  BY DEF Ready
<1>2. m \in ModemRecords
  BY <1>1 DEF Base, Loose
<1>3. /\ t \in HighTimers => Same(m, set_high_timer(m, t)) /\ Timed(set_high_timer(m, t), t)
      /\ t \in CregTimers => Same(m, set_creg_timer(m, t)) /\ Timed(set_creg_timer(m, t), t)
      /\ t \notin HighTimers \cup CregTimers =>
           Same(m, set_timer(m, t)) /\ Timed(set_timer(m, t), t)
  BY <1>1, <1>2, StepTimer
<1>4. \A d : Timed(d, t) => Has(d, t)
  BY DEF Has
<1>5. \A d : Same(m, d) /\ Timed(d, t) => Good(d)
  BY <1>1, <1>4, StepBusy
<1> QED
  BY <1>3, <1>5

-----------------------------------------------------------------------------
(* A level is reached.                                                     *)

(* A level from NETWORK on is watched, also once registration is over.     *)
Fits(m, l) == l >= NETWORK => (~In(m, {"SETUP_NETWORK"}) \/ m.keep) /\ Watched(m)

(* A modem that has gone back to waiting is as good as its level.          *)
LEMMA WaitAttended ==
  ASSUME NEW m, NEW d, Waits(m, d), Fits(m, m.level)
  PROVE  Attended(d)
<1>1. /\ d.level = m.level /\ d.inter = m.inter /\ d.tasks = m.tasks
      /\ ~In(m, {"SETUP_NETWORK"}) \/ m.keep => (Slotted(d, "monitor") <=> Slotted(m, "monitor"))
  BY DEF Waits
<1> QED
  BY <1>1 DEF Fits, Attended, Watched, Queued

(* d is m but for the levels.                                              *)
Leveled(m, d) ==
  /\ d \in ModemRecords
  /\ d.state = m.state /\ d.force = m.force /\ d.cmd = m.cmd /\ d.delayed = m.delayed
  /\ d.urc = m.urc /\ d.creg = m.creg /\ d.uupsdd = m.uupsdd /\ d.tasks = m.tasks
  /\ d.keep = m.keep /\ d.cleanup = m.cleanup /\ d.off = m.off /\ d.vcc_off = m.vcc_off
  /\ d.run = m.run /\ d.ask = m.ask /\ d.sub = m.sub /\ d.low = m.low
  /\ d.high = m.high /\ d.work = m.work /\ d.timers = m.timers
  /\ d.net = m.net /\ d.pos = m.pos

(* The level with the intermediate one, and the target.                    *)
LEMMA LevelFields ==
  ASSUME NEW m \in ModemRecords, NEW l \in Levels, NEW i \in Levels \cup {LEVEL_MAX}
  PROVE  /\ Leveled(m, [m EXCEPT !.target = l]) /\ [m EXCEPT !.target = l].target = l
         /\ [m EXCEPT !.target = l].level = m.level /\ [m EXCEPT !.target = l].inter = m.inter
         /\ Leveled(m, [m EXCEPT !.inter = i]) /\ [m EXCEPT !.inter = i].inter = i
         /\ [m EXCEPT !.inter = i].level = m.level /\ [m EXCEPT !.inter = i].target = m.target
<1>5. PICK e : e = [m EXCEPT !.target = l]
  OBVIOUS
<1>6. e \in ModemRecords
  BY <1>5 DEF ModemRecords
<1>7. Leveled(m, e)
  <2>1. /\ e.state = m.state /\ e.force = m.force /\ e.cmd = m.cmd /\ e.delayed = m.delayed
        /\ e.urc = m.urc /\ e.creg = m.creg /\ e.uupsdd = m.uupsdd /\ e.tasks = m.tasks
        /\ e.keep = m.keep /\ e.cleanup = m.cleanup /\ e.off = m.off /\ e.vcc_off = m.vcc_off
        /\ e.run = m.run /\ e.ask = m.ask /\ e.sub = m.sub /\ e.low = m.low
        /\ e.high = m.high /\ e.work = m.work /\ e.timers = m.timers
        /\ e.net = m.net /\ e.pos = m.pos
    BY <1>5 DEF ModemRecords
  <2> QED
    BY <1>6, <2>1 DEF Leveled
<1>8. e.target = l /\ e.level = m.level /\ e.inter = m.inter
  BY <1>5 DEF ModemRecords
<1>9. PICK g : g = [m EXCEPT !.inter = i]
  OBVIOUS
<1>10. g \in ModemRecords
  BY <1>9, ZenonT(60) DEF ModemRecords
<1>11. Leveled(m, g)
  BY <1>9, <1>10, ZenonT(60) DEF ModemRecords, Leveled
<1>12. g.inter = i /\ g.level = m.level /\ g.target = m.target
  BY <1>9 DEF ModemRecords
<1> QED
  BY <1>5, <1>7, <1>8, <1>9, <1>11, <1>12

(* A level is entered; the intermediate one is over when it is reached.    *)
LEMMA EnterLevel ==
  ASSUME NEW m \in ModemRecords, NEW l \in Levels
  PROVE  LET d == enter_level(m, l) IN
         /\ Leveled(m, d) /\ d.level = l /\ d.target = m.target
         /\ d.inter = IF m.inter = l THEN LEVEL_MAX ELSE m.inter
<1>1. PICK i : i = IF m.inter = l THEN LEVEL_MAX ELSE m.inter
  OBVIOUS
<1>2. i \in Levels \cup {LEVEL_MAX}
  <2>1. m.inter \in Levels \cup {LEVEL_MAX}
    BY DEF ModemRecords
  <2> QED
    BY <1>1, <2>1
<1>3. PICK d : d = [m EXCEPT !.level = l, !.inter = i]
  OBVIOUS
<1>4. d \in ModemRecords
  BY <1>2, <1>3, ZenonT(60) DEF ModemRecords
<1>5. Leveled(m, d)
  BY <1>3, <1>4 DEF ModemRecords, Leveled
<1>6. d.level = l /\ d.inter = i /\ d.target = m.target
  BY <1>3 DEF ModemRecords
<1>7. enter_level(m, l) = d
  BY <1>1, <1>3 DEF enter_level
<1> QED
  BY <1>1, <1>5, <1>6, <1>7

LEMMA LeveledTrans ==
  ASSUME NEW m, NEW d, NEW e, Leveled(m, d), Leveled(d, e)
  PROVE  Leveled(m, e)
BY DEF Leveled

(* All but the levels is kept.                                             *)
LEMMA LevelKept ==
  ASSUME NEW m, Loose(m), NEW d, Leveled(m, d), d.target # STUCK_HARDWARE,
         d.inter \in {POWERED_OFF, SIM_ENABLED, NETWORK, LEVEL_MAX}
  PROVE  /\ Loose(d) /\ Phase(d) = Phase(m)
         /\ \A lo, hi : Nothing(m, lo, hi) => Nothing(d, lo, hi)
         /\ \A k : Powered(m, k) => Powered(d, k)
         /\ \A l \in Levels : (d.inter = m.inter \/ m.inter = l) => (Fits(m, l) => Fits(d, l))
         /\ \A x : Has(m, x) => Has(d, x)
         /\ Quits(m) => Quits(d)
<1>3. /\ d \in ModemRecords
      /\ d.state = m.state /\ d.force = m.force /\ d.cmd = m.cmd /\ d.delayed = m.delayed
      /\ d.urc = m.urc /\ d.creg = m.creg /\ d.uupsdd = m.uupsdd /\ d.tasks = m.tasks
      /\ d.keep = m.keep /\ d.cleanup = m.cleanup /\ d.off = m.off /\ d.vcc_off = m.vcc_off
      /\ d.run = m.run /\ d.ask = m.ask /\ d.sub = m.sub /\ d.low = m.low
      /\ d.high = m.high /\ d.work = m.work /\ d.timers = m.timers
  BY DEF Leveled
<1>4. \A S : In(d, S) <=> In(m, S)
  BY <1>3 DEF In
<1>5. /\ \A u : Slotted(d, u) <=> Slotted(m, u)
      /\ \A k : Queued(d, k) <=> Queued(m, k)
      /\ OneCreg(d) <=> OneCreg(m)
  BY <1>3, WatchKept
<1>6. Loose(d)
  BY <1>3, <1>4, <1>5 DEF Loose
<1>7. \A lo, hi : Nothing(m, lo, hi) => Nothing(d, lo, hi)
  BY <1>3 DEF Nothing, Alone, Balance
<1>8. \A k : Powered(m, k) => Powered(d, k)
  BY <1>3 DEF Powered
<1>9. ASSUME NEW l \in Levels, d.inter = m.inter \/ m.inter = l, Fits(m, l)
      PROVE  Fits(d, l)
  <2>1. /\ m.inter \in {POWERED_OFF, SIM_ENABLED, NETWORK, LEVEL_MAX}
        /\ l \in 0 .. 6
    BY LevelFacts DEF Loose
  <2>2. l >= NETWORK /\ Watched(m) => Watched(d)
    BY <1>3, <1>5, <1>9, <2>1 DEF Watched, NETWORK, POWERED_OFF, SIM_ENABLED
  <2> QED
    BY <1>3, <1>4, <1>9, <2>2 DEF Fits
<1>10. \A x : Has(m, x) => Has(d, x)
  BY <1>3 DEF Has, Sent, Later, Timed, Alone, Balance
<1>11. Phase(d) = Phase(m)
  BY <1>3 DEF Phase
<1>12. Quits(m) => Quits(d)
  <2>1. \A t \in CregTimers : Timed(m, t) => Timed(d, t)
    BY <1>3 DEF Timed, Alone, Balance
  <2> QED
    BY <1>4, <1>7, <2>1 DEF Quits
<1> QED
  BY <1>6, <1>7, <1>8, <1>9, <1>10, <1>11, <1>12

(* The listener and the forced level ask for POWERED_OFF.                  *)
LEMMA AskOff ==
  ASSUME NEW m, Loose(m), NEW l, l = m.ask \/ l = m.force, l # NOTHING, l # LEVEL_MAX
  PROVE  LET o == [m EXCEPT !.target = POWERED_OFF] IN
         ubmodem_request_level(m, l) =
           IF m.state = "WAITING" /\ ~in_state_machine(m) THEN [o EXCEPT !.run = "machine"] ELSE o
<1>1. /\ m \in ModemRecords /\ m.run # "stop"
      /\ m.force \in {POWERED_OFF, LEVEL_MAX} /\ m.ask \in {NOTHING, POWERED_OFF}
  BY DEF Loose
<1>2. PICK o : o = [m EXCEPT !.target = POWERED_OFF]
  OBVIOUS
<1>3. /\ POWERED_OFF \in Levels /\ POWERED_OFF < LEVEL_MAX /\ ~(POWERED_OFF > POWERED_OFF)
      /\ NOTHING # POWERED_OFF /\ NOTHING # LEVEL_MAX /\ ~(LEVEL_MAX < LEVEL_MAX)
  BY LevelFacts DEF POWERED_OFF, LEVEL_MAX, NOTHING
<1>4. l = POWERED_OFF
  BY <1>1, <1>3
<1>5. [m EXCEPT !.target = IF m.force < LEVEL_MAX THEN m.force ELSE l] = o
  BY <1>1, <1>2, <1>3, <1>4
<1>6. Leveled(m, o) /\ o.target = POWERED_OFF
  BY <1>1, <1>2, <1>3, LevelFields
<1>7. cancel_full_poweroff(o) = o
  BY <1>3, <1>6 DEF cancel_full_poweroff
<1>8. ubmodem_request_level(m, l) = run_if_waiting(o)
  BY <1>5, <1>7 DEF ubmodem_request_level
<1>9. o.state = m.state /\ o.run = m.run
  BY <1>6 DEF Leveled
<1> QED
  BY <1>1, <1>2, <1>8, <1>9 DEF run_if_waiting, modem_do_state_machine, in_state_machine

(* A level is reached: the handler's step is over, the level has its power *)
(* and its watch.                                                          *)
LEMMA Reached ==
  ASSUME NEW m, Loose(m), Quits(m), m.state # "WAITING", m.run = "poll",
         NEW l \in Levels, l # m.level, Powered(m, l), Fits(m, l)
  PROVE  Good(reached_level(m, l))
<1>1. /\ m \in ModemRecords
      /\ m.inter \in {POWERED_OFF, SIM_ENABLED, NETWORK, LEVEL_MAX}
      /\ m.target # STUCK_HARDWARE /\ m.ask \in {NOTHING, POWERED_OFF}
  BY DEF Loose
<1>2. PICK e : e = enter_level(m, l)
  OBVIOUS
<1>3. /\ Leveled(m, e) /\ e.level = l /\ e.target = m.target
      /\ e.inter = IF m.inter = l THEN LEVEL_MAX ELSE m.inter
  BY <1>1, <1>2, EnterLevel
<1>4. /\ Loose(e) /\ Quits(e) /\ Powered(e, l) /\ Fits(e, l)
  <2>1. e.inter \in {POWERED_OFF, SIM_ENABLED, NETWORK, LEVEL_MAX}
    BY <1>1, <1>3
  <2> QED
    BY <1>1, <1>3, <2>1, LevelKept
<1>5. PICK f : f = IF l = m.target THEN publish_event(e) ELSE e
  OBVIOUS
<1>6. f = e \/ f = [e EXCEPT !.target = POWERED_OFF]
  <2>1. e.state # "WAITING" /\ e.ask = m.ask
    BY <1>3 DEF Leveled
  <2>2. NOTHING # POWERED_OFF /\ POWERED_OFF # LEVEL_MAX
    BY DEF NOTHING, POWERED_OFF, LEVEL_MAX
  <2>3. CASE e.ask = POWERED_OFF
    <3>1. ubmodem_request_level(e, e.ask) = [e EXCEPT !.target = POWERED_OFF]
      BY <1>4, <2>1, <2>2, <2>3, AskOff
    <3> QED
      BY <1>5, <2>2, <2>3, <3>1 DEF publish_event
  <2>4. CASE e.ask = NOTHING
    BY <1>5, <2>4 DEF publish_event
  <2> QED
    BY <1>1, <2>1, <2>3, <2>4
<1>7. /\ Leveled(m, f) /\ f.level = l /\ f.target # STUCK_HARDWARE /\ f.inter = e.inter
      /\ Leveled(e, f)
  <2>1. CASE f = e
    BY <1>1, <1>3, <2>1 DEF Leveled
  <2>2. CASE f = [e EXCEPT !.target = POWERED_OFF]
    <3>1. e \in ModemRecords /\ POWERED_OFF \in Levels /\ POWERED_OFF # STUCK_HARDWARE
      BY <1>3, LevelFacts DEF Leveled, POWERED_OFF, STUCK_HARDWARE
    <3>2. Leveled(e, f) /\ f.level = e.level /\ f.target = POWERED_OFF /\ f.inter = e.inter
      BY <2>2, <3>1, LevelFields
    <3> QED
      BY <1>3, <3>1, <3>2, LeveledTrans
  <2> QED
    BY <1>6, <2>1, <2>2
<1>8. /\ Loose(f) /\ Quits(f) /\ Powered(f, l) /\ Fits(f, l)
  <2>1. e.inter \in {POWERED_OFF, SIM_ENABLED, NETWORK, LEVEL_MAX}
    BY <1>4 DEF Loose
  <2> QED
    BY <1>4, <1>7, <2>1, LevelKept
<1>9. f.state # "WAITING" /\ f.run = "poll"
  BY <1>7 DEF Leveled
<1>10. PICK d : d = change_state(f, "WAITING")
  OBVIOUS
<1>11. Waits(f, d) /\ Loose(d) /\ Nothing(d, 0, 0)
  BY <1>8, <1>9, <1>10, QuitFields
<1>12. /\ d.level = l /\ d.off = f.off /\ d.vcc_off = f.vcc_off /\ d.run = "poll"
       /\ d.state = "WAITING"
  BY <1>7, <1>9, <1>11 DEF Waits
<1>13. Powered(d, d.level)
  BY <1>8, <1>12 DEF Powered
<1>14. Attended(d)
  BY <1>7, <1>8, <1>11, WaitAttended
<1>15. LevelFits(Phase(d), d.level)
  BY <1>12 DEF LevelFits, Phase
<1>16. Base(d) /\ Idle(d)
  BY <1>11, <1>12, <1>13, <1>14, <1>15 DEF Base, Idle
<1>17. reached_level(m, l) = d
  BY <1>2, <1>5, <1>10 DEF reached_level
<1> QED
  BY <1>12, <1>16, <1>17 DEF Good

(* Where the matrix leads, and the level it leads from.                    *)
LEMMA MatrixStarts ==
  ASSUME NEW l \in Levels, NEW t \in Levels, t # STUCK_HARDWARE, l # t
  PROVE  LET s == level_transition_matrix(l, t) IN
         /\ s \in Starts /\ LevelFits(s, l)
         /\ s = "OPEN_GPRS_CONNECTION" => t = GPRS
<1>1. l \in 0 .. 6 /\ t \in 0 .. 6
  BY LevelFacts
<1>2. PICK s : s = level_transition_matrix(l, t)
  OBVIOUS
<1>3. s = CASE l = STUCK_HARDWARE              -> "DO_RESET"
            [] l = POWERED_OFF                 -> "DO_POWER_ON"
            [] l = POWERED_ON                  -> "SETUP_CMD_PROMPT"
            [] l = CMD_PROMPT  /\ t > l        -> "SETUP_SIM"
            [] l = SIM_ENABLED /\ t > l        -> "SETUP_NETWORK"
            [] l = NETWORK     /\ t > l        -> "OPEN_GPRS_CONNECTION"
            [] l = GPRS        /\ t = NETWORK  -> "CLOSE_GPRS_CONNECTION"
            [] OTHER                           -> "DO_POWER_OFF"
  BY <1>2 DEF level_transition_matrix
<1>4. s \in Starts
  BY <1>3 DEF Starts
<1>5. s = "OPEN_GPRS_CONNECTION" => t = GPRS
  BY <1>1, <1>3
     DEF STUCK_HARDWARE, POWERED_OFF, POWERED_ON, CMD_PROMPT, SIM_ENABLED, NETWORK, GPRS
<1>6. LevelFits(s, l)
  BY <1>1, <1>3
     DEF LevelFits, STUCK_HARDWARE, POWERED_OFF, POWERED_ON, CMD_PROMPT, SIM_ENABLED,
         NETWORK, GPRS
<1> QED
  BY <1>2, <1>4, <1>5, <1>6

(* What the waiting state goes on with.                                    *)
LEMMA NextStarts ==
  ASSUME NEW m, Loose(m), m.state = "WAITING", waiting_next_state(m) # "WAITING"
  PROVE  LET s == waiting_next_state(m) IN
         /\ s \in Starts \cup Works /\ LevelFits(s, m.level)
         /\ s = "OPEN_GPRS_CONNECTION" => m.target = GPRS
         /\ s \in Works => m.target = m.level /\ m.inter \in {LEVEL_MAX, m.level}
         /\ m.target # m.level => s \in Starts
<1>1. /\ m.level \in Levels /\ m.target \in Levels /\ m.target # STUCK_HARDWARE
      /\ m.inter \in {POWERED_OFF, SIM_ENABLED, NETWORK, LEVEL_MAX}
      /\ m.level \in 0 .. 6
  BY LooseLevels DEF Loose
<1>2. PICK s : s = waiting_next_state(m)
  OBVIOUS
<1>3. CASE m.inter < LEVEL_MAX /\ m.inter # m.level
  <2>1. s = level_transition_matrix(m.level, m.inter)
    BY <1>2, <1>3 DEF waiting_next_state
  <2>2. m.inter \in Levels /\ m.inter # STUCK_HARDWARE /\ m.inter # GPRS
    BY <1>1, <1>3, LevelFacts
       DEF POWERED_OFF, SIM_ENABLED, NETWORK, LEVEL_MAX, STUCK_HARDWARE, GPRS
  <2>3. s \in Starts /\ LevelFits(s, m.level) /\ s # "OPEN_GPRS_CONNECTION"
    BY <1>1, <1>3, <2>1, <2>2, MatrixStarts
  <2>4. s \notin Works
    BY <2>3 DEF Starts, Works
  <2> QED
    BY <1>2, <2>3, <2>4
<1>4. CASE ~(m.inter < LEVEL_MAX /\ m.inter # m.level) /\ m.level # m.target
  <2>1. s = level_transition_matrix(m.level, m.target)
    BY <1>2, <1>4 DEF waiting_next_state
  <2>2. s \in Starts /\ LevelFits(s, m.level) /\ (s = "OPEN_GPRS_CONNECTION" => m.target = GPRS)
    BY <1>1, <1>4, <2>1, MatrixStarts
  <2>3. s \notin Works
    BY <2>2 DEF Starts, Works
  <2> QED
    BY <1>2, <2>2, <2>3
<1>5. CASE ~(m.inter < LEVEL_MAX /\ m.inter # m.level) /\ m.level = m.target
  <2>1. s = "DO_TASK_WORK" \/ (s = "DO_SOCKET_WORK" /\ m.level >= GPRS)
    BY <1>2, <1>5 DEF waiting_next_state
  <2>2. m.inter \in {LEVEL_MAX, m.level}
    BY <1>1, <1>5 DEF POWERED_OFF, SIM_ENABLED, NETWORK, LEVEL_MAX
  <2>3. LevelFits(s, m.level) /\ s \in Works /\ s # "OPEN_GPRS_CONNECTION"
    BY <1>1, <2>1 DEF LevelFits, Works, GPRS
  <2> QED
    BY <1>2, <1>5, <2>2, <2>3
<1> QED
  BY <1>3, <1>4, <1>5

(* Work is over and the modem waits.                                       *)
LEMMA WaitGood ==
  ASSUME NEW m, Loose(m), Nothing(m, 0, 0), m.state # "WAITING",
         m.run # "poll" => "wake" \notin m.timers,
         Powered(m, m.level), Fits(m, m.level)
  PROVE  LET d == change_state(m, "WAITING") IN
         /\ Good(d) /\ Base(d) /\ Idle(d) /\ Waits(m, d)
<1>1. PICK d : d = change_state(m, "WAITING")
  OBVIOUS
<1>2. Waits(m, d) /\ Loose(d) /\ Nothing(d, 0, 0)
  BY <1>1, WaitFields
<1>3. /\ d.level = m.level /\ d.off = m.off /\ d.vcc_off = m.vcc_off /\ d.run = m.run
      /\ d.state = "WAITING" /\ ("wake" \in d.timers <=> "wake" \in m.timers \/ m.run = "poll")
  BY <1>2 DEF Waits
<1>4. Powered(d, d.level)
  BY <1>3 DEF Powered
<1>5. Attended(d)
  BY <1>2, WaitAttended
<1>6. LevelFits(Phase(d), d.level)
  BY <1>3 DEF LevelFits, Phase
<1>7. Base(d) /\ Idle(d)
  BY <1>2, <1>3, <1>4, <1>5, <1>6 DEF Base, Idle
<1>8. d.run # "stop"
  BY <1>2 DEF Loose
<1> QED
  BY <1>1, <1>2, <1>7, <1>8 DEF Good

(* The machine runs at once, towards POWERED_OFF.                          *)
LEMMA TurnOff ==
  ASSUME NEW m, Base(m), Idle(m), m.run = "poll", m.level # POWERED_OFF
  PROVE  Good([[m EXCEPT !.target = POWERED_OFF] EXCEPT !.run = "machine"])
<1>1. /\ m \in ModemRecords /\ POWERED_OFF \in Levels /\ Loose(m) /\ m.state = "WAITING"
      /\ m.inter \in {POWERED_OFF, SIM_ENABLED, NETWORK, LEVEL_MAX} /\ Nothing(m, 0, 0)
      /\ POWERED_OFF # STUCK_HARDWARE
  BY LevelFacts DEF Base, Loose, Idle, POWERED_OFF, STUCK_HARDWARE
<1>2. PICK o : o = [m EXCEPT !.target = POWERED_OFF]
  OBVIOUS
<1>3. Leveled(m, o) /\ o.target = POWERED_OFF /\ o.level = m.level /\ o.inter = m.inter
  BY <1>1, <1>2, LevelFields
<1>4. Loose(o) /\ Nothing(o, 0, 0) /\ (\A k : Powered(m, k) => Powered(o, k))
  BY <1>1, <1>3, LevelKept
<1>5. o \in ModemRecords /\ o.state = m.state /\ o.run = "poll"
  BY <1>3 DEF Leveled
<1>6. PICK d : d = [o EXCEPT !.run = "machine"]
  OBVIOUS
<1>7. d \in ModemRecords
  BY <1>5, <1>6 DEF ModemRecords
<1>8. /\ d.state = o.state /\ d.level = o.level /\ d.target = o.target /\ d.inter = o.inter
      /\ d.force = o.force /\ d.cmd = o.cmd /\ d.delayed = o.delayed /\ d.urc = o.urc
      /\ d.creg = o.creg /\ d.uupsdd = o.uupsdd /\ d.tasks = o.tasks /\ d.keep = o.keep
      /\ d.cleanup = o.cleanup /\ d.off = o.off /\ d.vcc_off = o.vcc_off
      /\ d.run = "machine" /\ d.ask = o.ask /\ d.sub = o.sub /\ d.low = o.low
      /\ d.high = o.high /\ d.work = o.work /\ d.timers = o.timers
  BY <1>5, <1>6 DEF ModemRecords
<1>9. /\ \A u : Slotted(d, u) <=> Slotted(o, u)
      /\ OneCreg(d) <=> OneCreg(o)
      /\ \A S : In(d, S) <=> In(o, S)
  BY <1>8, WatchKept DEF In
<1>10. Loose(d)
  BY <1>4, <1>7, <1>8, <1>9 DEF Loose
<1>11. Nothing(d, 0, 0)
  BY <1>4, <1>5, <1>8 DEF Nothing, Alone, Balance
<1>12. Powered(d, d.level)
  BY <1>3, <1>4, <1>8 DEF Base, Powered
<1>13. LevelFits(Phase(d), d.level)
  BY <1>1, <1>5, <1>8 DEF LevelFits, Phase
<1>14. Attended(m) => Attended(d)
  <2>1. /\ d.state = "WAITING" /\ d.level = m.level /\ d.inter = m.inter /\ d.urc = m.urc
        /\ d.creg = m.creg /\ d.uupsdd = m.uupsdd /\ d.tasks = m.tasks /\ d.timers = m.timers
    BY <1>1, <1>3, <1>8 DEF Leveled
  <2>2. /\ \A u : Slotted(d, u) <=> Slotted(m, u)
        /\ \A k : Queued(d, k) <=> Queued(m, k)
    BY <2>1, WatchKept
  <2>3. (\A S : ~In(d, S) /\ ~In(m, S)) /\ Phase(d) = "WAITING" /\ "WAITING" \notin Works
    BY <1>1, <2>1 DEF In, Phase, Works
  <2>4. Watched(d) <=> Watched(m)
    BY <2>1, <2>2 DEF Watched
  <2> QED
    BY <2>1, <2>2, <2>3, <2>4 DEF Attended
<1>15. waiting_next_state(d) \in Starts
  <2>1. d.state = "WAITING" /\ d.target # d.level /\ d.level = m.level
    BY <1>1, <1>3, <1>5, <1>8
  <2>2. d.level \in Levels /\ d.target \in Levels /\ d.target = POWERED_OFF
        /\ d.inter \in {POWERED_OFF, SIM_ENABLED, NETWORK, LEVEL_MAX}
    BY <1>1, <1>3, <1>8, <1>10, LooseLevels
  <2>3. CASE d.inter < LEVEL_MAX /\ d.inter # d.level
    <3>1. waiting_next_state(d) = level_transition_matrix(d.level, d.inter)
      BY <2>3 DEF waiting_next_state
    <3>2. d.inter \in Levels /\ d.inter # STUCK_HARDWARE
      BY <2>2, <2>3, LevelFacts DEF POWERED_OFF, SIM_ENABLED, NETWORK, LEVEL_MAX, STUCK_HARDWARE
    <3> QED
      BY <2>2, <2>3, <3>1, <3>2, MatrixStarts
  <2>4. CASE ~(d.inter < LEVEL_MAX /\ d.inter # d.level)
    <3>1. waiting_next_state(d) = level_transition_matrix(d.level, d.target)
      BY <2>1, <2>4 DEF waiting_next_state
    <3> QED
      BY <1>1, <2>1, <2>2, <3>1, MatrixStarts
  <2> QED
    BY <2>3, <2>4
<1>16. Base(d)
  BY <1>10, <1>12, <1>13, <1>14 DEF Base
<1>17. Idle(d)
  BY <1>1, <1>5, <1>8, <1>11, <1>15 DEF Idle, Starts, Works
<1> QED
  BY <1>2, <1>6, <1>8, <1>16, <1>17 DEF Good

(* A level cannot be reached: the modem stays at the one it has, or is     *)
(* stuck when it was to be turned off.                                     *)
LEMMA Failed ==
  ASSUME NEW m, Loose(m), Nothing(m, 0, 0), m.state # "WAITING", m.run = "poll",
         m.level >= POWERED_ON, Powered(m, m.level),
         Fits(m, IF m.target = POWERED_OFF THEN STUCK_HARDWARE ELSE m.level)
  PROVE  Good(level_transition_failed(m))
<1>1. /\ m \in ModemRecords /\ m.level \in Levels /\ m.level \in 0 .. 6
      /\ m.level # STUCK_HARDWARE /\ STUCK_HARDWARE \in Levels /\ m.level # POWERED_OFF
      /\ m.inter \in {POWERED_OFF, SIM_ENABLED, NETWORK, LEVEL_MAX}
  BY LooseLevels, LevelFacts DEF Loose, STUCK_HARDWARE, POWERED_ON, POWERED_OFF
<1>2. CASE m.target = POWERED_OFF
  <2>1. Powered(m, STUCK_HARDWARE)
    BY DEF Powered, STUCK_HARDWARE, POWERED_OFF, POWERED_ON
  <2>2. level_transition_failed(m) = reached_level(m, STUCK_HARDWARE)
    BY <1>2 DEF level_transition_failed
  <2> QED
    BY <1>1, <1>2, <2>1, <2>2, Reached DEF Quits
<1>3. CASE m.target # POWERED_OFF
  <2>1. PICK g : g = [m EXCEPT !.target = m.level]
    OBVIOUS
  <2>2. Leveled(m, g) /\ g.target = m.level /\ g.level = m.level /\ g.inter = m.inter
    BY <1>1, <2>1, LevelFields
  <2>3. /\ Loose(g) /\ Nothing(g, 0, 0) /\ Powered(g, g.level)
        /\ Fits(g, g.level)
    BY <1>1, <1>3, <2>2, LevelKept
  <2>4. g.state # "WAITING" /\ g.run = "poll"
    BY <2>2 DEF Leveled
  <2>5. PICK v : v = change_state(g, "WAITING")
    OBVIOUS
  <2>6. Good(v) /\ Base(v) /\ Idle(v) /\ Waits(g, v)
    BY <2>3, <2>4, <2>5, WaitGood
  <2>7. /\ Loose(v) /\ v.state = "WAITING" /\ v.run = "poll" /\ v.level # POWERED_OFF
        /\ v.force \in {POWERED_OFF, LEVEL_MAX} /\ v.ask \in {NOTHING, POWERED_OFF}
        /\ v \in ModemRecords
    BY <1>1, <2>2, <2>4, <2>6 DEF Base, Waits, Loose
  <2>8. PICK w : w = publish_event(v)
    OBVIOUS
  <2>9. PICK o : o = [[v EXCEPT !.target = POWERED_OFF] EXCEPT !.run = "machine"]
    OBVIOUS
  <2>10. Good(o)
    BY <2>6, <2>7, <2>9, TurnOff
  <2>11. ASSUME NEW l, l = v.ask \/ l = v.force, l # NOTHING, l # LEVEL_MAX
         PROVE  ubmodem_request_level(v, l) = o
    <3>1. ~in_state_machine(v)
      BY <2>7 DEF in_state_machine
    <3> QED
      BY <2>7, <2>9, <2>11, <3>1, AskOff
  <2>12. level_transition_failed(m) =
           IF w.force < LEVEL_MAX /\ w.target # w.force THEN ubmodem_request_level(w, w.force) ELSE w
    BY <1>3, <2>1, <2>5, <2>8 DEF level_transition_failed
  <2>13. NOTHING # POWERED_OFF /\ POWERED_OFF # LEVEL_MAX /\ NOTHING # LEVEL_MAX
         /\ ~(LEVEL_MAX < LEVEL_MAX)
    BY DEF NOTHING, POWERED_OFF, LEVEL_MAX
  <2>14. CASE v.ask = NOTHING
    <3>1. w = v
      BY <2>8, <2>14 DEF publish_event
    <3>2. CASE v.force = POWERED_OFF
      <4>1. ubmodem_request_level(v, v.force) = o
        BY <2>11, <2>13, <3>2
      <4> QED
        BY <2>6, <2>10, <2>12, <3>1, <4>1
    <3>3. CASE v.force = LEVEL_MAX
      BY <2>6, <2>12, <2>13, <3>1, <3>3
    <3> QED
      BY <2>7, <3>2, <3>3
  <2>15. CASE v.ask = POWERED_OFF
    <3>1. ubmodem_request_level(v, v.ask) = o
      BY <2>11, <2>13, <2>15
    <3>2. w = o
      BY <2>8, <2>13, <2>15, <3>1 DEF publish_event
    <3>3. o.target = POWERED_OFF /\ o.force = v.force
      <4>1. PICK p : p = [v EXCEPT !.target = POWERED_OFF]
        OBVIOUS
      <4>2. p.target = POWERED_OFF /\ p.force = v.force /\ p \in ModemRecords
        <5>1. v \in ModemRecords /\ POWERED_OFF \in Levels
          BY <2>7, LevelFacts
        <5>2. Leveled(v, p) /\ p.target = POWERED_OFF
          BY <4>1, <5>1, LevelFields
        <5> QED
          BY <5>2 DEF Leveled
      <4>3. o = [p EXCEPT !.run = "machine"]
        BY <2>9, <4>1
      <4>4. o.target = p.target /\ o.force = p.force
        BY <4>2, <4>3 DEF ModemRecords
      <4> QED
        BY <4>2, <4>4
    <3>4. ~(w.force < LEVEL_MAX /\ w.target # w.force)
      BY <2>7, <2>13, <3>2, <3>3
    <3> QED
      BY <2>10, <2>12, <3>2, <3>4
  <2> QED
    BY <2>7, <2>14, <2>15
<1> QED
  BY <1>2, <1>3

-----------------------------------------------------------------------------
(* The ends of a phase.                                                    *)

LEMMA PhaseIn ==
  ASSUME NEW m, Active(m)
  PROVE  /\ m.state # "WAITING" /\ Phase(m) \in Starts \cup Works
         /\ Phase(m) \in Works => m.state = Phase(m) /\ \A S : ~In(m, S)
         /\ Phase(m) \notin Works => m.state = "IN_SUBSTATE" /\ (\A S : In(m, S) <=> Phase(m) \in S)
<1>1. m.state = "IN_SUBSTATE" \/ m.state \in Works
  BY DEF Active
<1>2. "WAITING" \notin Works /\ "IN_SUBSTATE" \notin Works /\ \A s \in Starts : s \notin Works
  BY DEF Works, Starts
<1> QED
  BY <1>1, <1>2 DEF Active, Phase, In

(* The watch as the phases leave it.                                       *)
LEMMA PhaseFits ==
  ASSUME NEW m, Base(m), Active(m)
  PROVE  /\ \A l \in Levels : l < NETWORK => Fits(m, l)
         /\ Phase(m) \in {"OPEN_GPRS_CONNECTION", "CLOSE_GPRS_CONNECTION"} =>
              \A l \in Levels : Fits(m, l)
         /\ Phase(m) \in Works => Fits(m, m.level)
<1>1. Attended(m) /\ LevelFits(Phase(m), m.level)
  BY DEF Base
<1>2. /\ Phase(m) \in Works => \A S : ~In(m, S)
      /\ Phase(m) \notin Works => (\A S : In(m, S) <=> Phase(m) \in S)
  BY PhaseIn
<1>3. \A l \in Levels : l < NETWORK => ~(l >= NETWORK)
  BY LevelFacts DEF NETWORK
<1>4. ASSUME Phase(m) \in {"OPEN_GPRS_CONNECTION", "CLOSE_GPRS_CONNECTION"}
      PROVE  ~In(m, {"SETUP_NETWORK"}) /\ Watched(m)
  <2>1. m.level >= NETWORK
    BY <1>1, <1>4 DEF LevelFits, NETWORK, GPRS
  <2>2. ~In(m, {"SETUP_NETWORK"}) /\ ~In(m, {"DO_POWER_OFF"})
    BY <1>2, <1>4 DEF Works
  <2> QED
    BY <1>1, <2>1, <2>2 DEF Attended
<1> QED
  BY <1>1, <1>2, <1>3, <1>4 DEF Fits, Attended

LEMMA ReadyEnds ==
  ASSUME NEW m, Ready(m), m.run = "poll"
  PROVE  /\ \A l \in Levels : l # m.level /\ Powered(m, l) /\ Fits(m, l)
              => Good(reached_level(m, l))
         /\ m.level >= POWERED_ON
            /\ Fits(m, IF m.target = POWERED_OFF THEN STUCK_HARDWARE ELSE m.level)
              => Good(level_transition_failed(m))
<1>1. /\ Loose(m) /\ Nothing(m, 0, 0) /\ m.state # "WAITING" /\ Powered(m, m.level)
  BY PhaseIn DEF Ready, Base
<1> QED
  BY <1>1, Reached, Failed DEF Quits

(* Most steps tell nothing.                                                *)
LEMMA DetailEasy ==
  ASSUME NEW m,
         NEW x, x \notin {"power_on", "CREG", "CFUN_1", "disable_COPS", "retry_COPS", "info",
                          "info_retry"} \cup CregTimers
  PROVE  Detail(m, x)
BY DEF Detail, CregTimers

(* The timer of a step fires, and its activity is taken back.              *)
LEMMA PayReady ==
  ASSUME NEW m, Base(m), Active(m), m.run = "poll" \/ m.state = "IN_SUBSTATE"
  PROVE  /\ Nothing(m, 0, 1) =>
              LET d == pm_high(m, -1) IN
              Ready(d) /\ Phase(d) = Phase(m) /\ d.run = m.run /\ \A x : Detail(m, x) => Detail(d, x)
         /\ Nothing(m, 1, 0) =>
              LET d == pm_low(m, -1) IN
              Ready(d) /\ Phase(d) = Phase(m) /\ d.run = m.run /\ \A x : Detail(m, x) => Detail(d, x)
<1>1. m \in ModemRecords
  BY DEF Base, Loose
<1>2. ASSUME Nothing(m, 0, 1)
      PROVE  Nothing(pm_high(m, -1), 0, 0) /\ Same(m, pm_high(m, -1))
  <2>1. Nothing(pm_high(m, -1), 0, 1 - 1) /\ Same(m, pm_high(m, -1))
    BY <1>1, <1>2, PayNothing
  <2>2. 1 - 1 = 0
    OBVIOUS
  <2> QED
    BY <2>1, <2>2
<1>3. ASSUME Nothing(m, 1, 0)
      PROVE  Nothing(pm_low(m, -1), 0, 0) /\ Same(m, pm_low(m, -1))
  <2>1. Nothing(pm_low(m, -1), 1 - 1, 0) /\ Same(m, pm_low(m, -1))
    BY <1>1, <1>3, PayNothing
  <2>2. 1 - 1 = 0
    OBVIOUS
  <2> QED
    BY <2>1, <2>2
<1>4. \A d : Same(m, d) => d.run = m.run
  BY DEF Same
<1> QED
  BY <1>2, <1>3, <1>4, SameReady

-----------------------------------------------------------------------------
(* Command prompt and SIM.                                                 *)

(* What the handlers of the command prompt end with.                       *)
PromptEnds(m) ==
  /\ \A c \in {"initial", "flowcontrol", "CMEE", "INVALIDTEST", "CFUN_0", "COPS_2", "config"} :
       Good(send_cmd(m, c))
  /\ Good(set_high_timer(m, "after_initial"))
  /\ Good(level_transition_failed(m)) /\ Good(reached_level(m, CMD_PROMPT))

LEMMA PromptReady ==
  ASSUME NEW m, Ready(m), m.run = "poll", Phase(m) = "SETUP_CMD_PROMPT"
  PROVE  PromptEnds(m)
<1>1. Base(m) /\ Active(m) /\ Loose(m) /\ m.level = POWERED_ON /\ Powered(m, m.level)
  BY DEF Ready, Base, LevelFits
<1>2. /\ POWERED_ON < NETWORK /\ CMD_PROMPT < NETWORK /\ STUCK_HARDWARE < NETWORK
      /\ POWERED_ON >= POWERED_ON /\ CMD_PROMPT # POWERED_ON
      /\ {POWERED_ON, CMD_PROMPT, STUCK_HARDWARE} \subseteq Levels
  BY LevelFacts DEF POWERED_ON, CMD_PROMPT, STUCK_HARDWARE, NETWORK
<1>3. \A l \in {POWERED_ON, CMD_PROMPT, STUCK_HARDWARE} : Fits(m, l)
  BY <1>1, <1>2, PhaseFits
<1>4. Good(level_transition_failed(m))
  BY <1>1, <1>2, <1>3, ReadyEnds
<1>5. Powered(m, CMD_PROMPT)
  BY <1>1 DEF Powered, POWERED_ON, CMD_PROMPT, POWERED_OFF
<1>6. Good(reached_level(m, CMD_PROMPT))
  BY <1>1, <1>2, <1>3, <1>5, ReadyEnds
<1>7. ASSUME NEW c \in {"initial", "flowcontrol", "CMEE", "INVALIDTEST", "CFUN_0", "COPS_2", "config"}
      PROVE  Good(send_cmd(m, c))
  <2>1. c \in Commands /\ Belongs(c, Phase(m))
    BY DEF Commands, Belongs, Steps, Starts, Works
  <2>2. Detail(m, c)
    BY DetailEasy DEF CregTimers
  <2> QED
    BY <2>1, <2>2, SendGood
<1>8. Good(set_high_timer(m, "after_initial"))
  <2>1. "after_initial" \in StepTimers /\ "after_initial" \in HighTimers
        /\ Belongs("after_initial", Phase(m))
    BY DEF StepTimers, WorkTimers, Timers, HighTimers, CregTimers, Belongs, Steps, Starts, Works
  <2>2. Detail(m, "after_initial")
    BY DetailEasy DEF CregTimers
  <2> QED
    BY <2>1, <2>2, TimerGood
<1> QED
  BY <1>4, <1>6, <1>7, <1>8 DEF PromptEnds

(* And after a handler has counted or started over.                        *)
LEMMA PromptCounts ==
  ASSUME NEW m, Ready(m), m.run = "poll", Phase(m) = "SETUP_CMD_PROMPT"
  PROVE  /\ \A p \in Int : PromptEnds([m EXCEPT !.n = p]) /\ PromptEnds([m EXCEPT !.pos = p])
         /\ \A p \in Int, q \in Int : PromptEnds([m EXCEPT !.n = p, !.pos = q])
         /\ PromptEnds(reset_sub(m)) /\ PromptEnds(m)
<1>1. \A d : Minor(m, d) => PromptEnds(d)
  <2>1. \A d : Minor(m, d) => d.run = m.run
    BY DEF Minor
  <2> QED
    BY <2>1, MinorReady, PromptReady
<1>2. m \in ModemRecords
  BY DEF Ready, Base, Loose
<1> QED
  BY <1>1, <1>2, MinorFields, MinorSets, MinorRefl

LEMMA PromptGood ==
  ASSUME NEW m, Ready(m), m.run = "poll", Phase(m) = "SETUP_CMD_PROMPT", NEW r
  PROVE  /\ Good(initial_handler(m, r)) /\ Good(enable_hw_flowcontrol_handler(m, r))
         /\ Good(CMEE_handler(m, r)) /\ Good(INVALIDCOMMANDTEST_handler(m, r))
         /\ Good(CFUN_0_handler(m, r)) /\ Good(COPS_2_handler(m, r))
         /\ Good(cmdprompt_generic_config_handler(m, r))
<1>1. m \in ModemRecords /\ m.n \in Int /\ m.pos \in Int
  BY DEF Ready, Base, Loose, ModemRecords
<1>2. \A p \in Int : p + 1 \in Int /\ p - 1 \in Int
  OBVIOUS
<1>3. \A c \in {"initial", "flowcontrol", "CMEE"} : \A again : Good(retry_or_fail(m, c, again))
  <2>1. PromptEnds([m EXCEPT !.n = m.n + 1])
    BY <1>1, <1>2, PromptCounts
  <2> QED
    BY <2>1 DEF retry_or_fail, PromptEnds
<1>4. PromptEnds(reset_sub(m)) /\ PromptEnds(m)
  BY PromptCounts
<1>5. /\ Good(initial_handler(m, r)) /\ Good(enable_hw_flowcontrol_handler(m, r))
      /\ Good(CMEE_handler(m, r)) /\ Good(INVALIDCOMMANDTEST_handler(m, r))
      /\ Good(CFUN_0_handler(m, r))
  BY <1>3, <1>4 DEF PromptEnds, initial_handler, enable_hw_flowcontrol_handler, CMEE_handler,
     INVALIDCOMMANDTEST_handler, CFUN_0_handler, on_ok
<1>6. ASSUME NEW d, Ready(d), d.run = "poll", Phase(d) = "SETUP_CMD_PROMPT"
      PROVE  Good(cmdprompt_configure_next(d))
  <2>1. d.pos \in Int
    BY <1>6 DEF Ready, Base, Loose, ModemRecords
  <2>2. PromptEnds(d) /\ PromptEnds([d EXCEPT !.pos = d.pos + 1])
    BY <1>2, <1>6, <2>1, PromptCounts
  <2> QED
    BY <2>2 DEF cmdprompt_configure_next, PromptEnds
<1>7. \A d : Minor(m, d) => Good(cmdprompt_configure_next(d))
  <2>1. \A d : Minor(m, d) => d.run = m.run
    BY DEF Minor
  <2> QED
    BY <1>6, <2>1, MinorReady
<1>8. /\ Good(cmdprompt_configure_next([m EXCEPT !.pos = 0]))
      /\ Good(cmdprompt_configure_next([m EXCEPT !.n = 0]))
      /\ Good(cmdprompt_configure_next([m EXCEPT !.n = m.n + 1, !.pos = m.pos - 1]))
  BY <1>1, <1>2, <1>7, Literals, MinorFields, MinorSets
<1>9. Good(level_transition_failed([m EXCEPT !.n = m.n + 1]))
  BY <1>1, <1>2, PromptCounts DEF PromptEnds
<1>10. Good(COPS_2_handler(m, r))
  BY <1>4, <1>8 DEF COPS_2_handler, on_ok, PromptEnds
<1>11. Good(cmdprompt_generic_config_handler(m, r))
  BY <1>8, <1>9 DEF cmdprompt_generic_config_handler
<1> QED
  BY <1>5, <1>10, <1>11

(* The modem is probed again.                                              *)
LEMMA AfterInitialGood ==
  ASSUME NEW m, Base(m), Active(m), Nothing(m, 0, 1), m.run = "poll",
         Phase(m) = "SETUP_CMD_PROMPT"
  PROVE  Good(delay_after_initial_handler(m))
<1>1. Ready(pm_high(m, -1)) /\ pm_high(m, -1).run = "poll"
      /\ Phase(pm_high(m, -1)) = "SETUP_CMD_PROMPT"
  BY PayReady
<1> QED
  BY <1>1, PromptReady DEF PromptEnds, delay_after_initial_handler

(* What the handlers of the SIM end with.                                  *)
SimEnds(m) ==
  /\ Good(send_cmd(m, "check_CPIN")) /\ Good(send_cmd(m, "set_CPIN"))
  /\ Good(set_high_timer(m, "sim_retry"))
  /\ Good(level_transition_failed(m)) /\ Good(reached_level(m, SIM_ENABLED))

LEMMA SimReady ==
  ASSUME NEW m, Ready(m), m.run = "poll", Phase(m) = "SETUP_SIM"
  PROVE  SimEnds(m)
<1>1. Base(m) /\ Active(m) /\ Loose(m) /\ m.level = CMD_PROMPT /\ Powered(m, m.level)
  BY DEF Ready, Base, LevelFits
<1>2. /\ CMD_PROMPT < NETWORK /\ SIM_ENABLED < NETWORK /\ STUCK_HARDWARE < NETWORK
      /\ CMD_PROMPT >= POWERED_ON /\ CMD_PROMPT # SIM_ENABLED
      /\ {SIM_ENABLED, CMD_PROMPT, STUCK_HARDWARE} \subseteq Levels
  BY LevelFacts DEF POWERED_ON, CMD_PROMPT, STUCK_HARDWARE, NETWORK, SIM_ENABLED
<1>3. \A l \in {SIM_ENABLED, CMD_PROMPT, STUCK_HARDWARE} : Fits(m, l)
  BY <1>1, <1>2, PhaseFits
<1>4. Good(level_transition_failed(m))
  BY <1>1, <1>2, <1>3, ReadyEnds
<1>5. Powered(m, SIM_ENABLED)
  BY <1>1 DEF Powered, POWERED_ON, CMD_PROMPT, POWERED_OFF, SIM_ENABLED
<1>6. Good(reached_level(m, SIM_ENABLED))
  BY <1>1, <1>2, <1>3, <1>5, ReadyEnds
<1>7. ASSUME NEW c \in {"check_CPIN", "set_CPIN"}
      PROVE  Good(send_cmd(m, c))
  <2>1. c \in Commands /\ Belongs(c, Phase(m))
    BY DEF Commands, Belongs, Steps, Starts, Works
  <2>2. Detail(m, c)
    BY DetailEasy DEF CregTimers
  <2> QED
    BY <2>1, <2>2, SendGood
<1>8. Good(set_high_timer(m, "sim_retry"))
  <2>1. "sim_retry" \in StepTimers /\ "sim_retry" \in HighTimers /\ Belongs("sim_retry", Phase(m))
    BY DEF StepTimers, WorkTimers, Timers, HighTimers, CregTimers, Belongs, Steps, Starts, Works
  <2>2. Detail(m, "sim_retry")
    BY DetailEasy DEF CregTimers
  <2> QED
    BY <2>1, <2>2, TimerGood
<1> QED
  BY <1>4, <1>6, <1>7, <1>8 DEF SimEnds

LEMMA SimGood ==
  ASSUME NEW m, Ready(m), m.run = "poll", Phase(m) = "SETUP_SIM", NEW r
  PROVE  Good(check_CPIN_handler(m, r)) /\ Good(set_CPIN_handler(m, r))
<1>1. m \in ModemRecords /\ m.n \in Int
  BY DEF Ready, Base, Loose, ModemRecords
<1>2. \A d : Minor(m, d) => SimEnds(d)
  <2>1. \A d : Minor(m, d) => d.run = m.run
    BY DEF Minor
  <2> QED
    BY <2>1, MinorReady, SimReady
<1>3. SimEnds(m) /\ SimEnds(reset_sub(m))
  BY <1>1, <1>2, MinorSets, MinorRefl
<1>4. SimEnds([m EXCEPT !.n = m.n + 1])
  <2>1. m.n + 1 \in Int
    BY <1>1
  <2> QED
    BY <1>1, <1>2, <2>1, MinorFields
<1>5. Good(check_CPIN_handler(m, r))
  BY <1>3, <1>4 DEF check_CPIN_handler, SimEnds
<1>6. Good(set_CPIN_handler(m, r))
  BY <1>3 DEF set_CPIN_handler, on_ok, SimEnds
<1> QED
  BY <1>5, <1>6

LEMMA SimRetryGood ==
  ASSUME NEW m, Base(m), Active(m), Nothing(m, 0, 1), m.run = "poll", Phase(m) = "SETUP_SIM"
  PROVE  Good(modem_setup_sim_retry_timer_handler(m))
<1>1. Ready(pm_high(m, -1)) /\ pm_high(m, -1).run = "poll" /\ Phase(pm_high(m, -1)) = "SETUP_SIM"
  BY PayReady
<1> QED
  BY <1>1, SimReady DEF SimEnds, modem_setup_sim_retry_timer_handler

-----------------------------------------------------------------------------
(* Power on and off.                                                       *)

(* d is m but for the power and what sub-state machines keep.              *)
Wired(m, d) ==
  /\ d \in ModemRecords
  /\ d.state = m.state /\ d.level = m.level /\ d.target = m.target /\ d.inter = m.inter
  /\ d.force = m.force /\ d.cmd = m.cmd /\ d.delayed = m.delayed /\ d.timers = m.timers
  /\ d.urc = m.urc /\ d.creg = m.creg /\ d.uupsdd = m.uupsdd /\ d.tasks = m.tasks
  /\ d.keep = m.keep /\ d.cleanup = m.cleanup
  /\ d.low = m.low /\ d.high = m.high /\ d.run = m.run /\ d.ask = m.ask /\ d.sub = m.sub

LEMMA WiredKept ==
  ASSUME NEW m, NEW d, Wired(m, d)
  PROVE  /\ Phase(d) = Phase(m) /\ (Active(m) => Active(d)) /\ (Loose(m) => Loose(d))
         /\ \A lo, hi : Nothing(m, lo, hi) => Nothing(d, lo, hi)
         /\ \A l : Fits(m, l) => Fits(d, l)
         /\ Base(m) /\ Powered(d, d.level) => Base(d)
<1>1. /\ d \in ModemRecords
      /\ d.state = m.state /\ d.level = m.level /\ d.target = m.target /\ d.inter = m.inter
      /\ d.force = m.force /\ d.cmd = m.cmd /\ d.delayed = m.delayed /\ d.timers = m.timers
      /\ d.urc = m.urc /\ d.creg = m.creg /\ d.uupsdd = m.uupsdd /\ d.tasks = m.tasks
      /\ d.keep = m.keep /\ d.cleanup = m.cleanup
      /\ d.low = m.low /\ d.high = m.high /\ d.run = m.run /\ d.ask = m.ask /\ d.sub = m.sub
  BY DEF Wired
<1>2. /\ \A u : Slotted(d, u) <=> Slotted(m, u)
      /\ \A k : Queued(d, k) <=> Queued(m, k)
      /\ OneCreg(d) <=> OneCreg(m)
  BY <1>1, WatchKept
<1>3. /\ Phase(d) = Phase(m) /\ \A S : In(d, S) <=> In(m, S)
  BY <1>1 DEF Phase, In
<1>4. Active(m) => Active(d)
  BY <1>1 DEF Active
<1>5. Loose(m) => Loose(d)
  BY <1>1, <1>2, <1>3 DEF Loose
<1>6. \A lo, hi : Nothing(m, lo, hi) => Nothing(d, lo, hi)
  BY <1>1 DEF Nothing, Alone, Balance
<1>7. Watched(d) <=> Watched(m)
  BY <1>1, <1>2 DEF Watched
<1>8. \A l : Fits(m, l) => Fits(d, l)
  BY <1>1, <1>2, <1>3, <1>7 DEF Fits
<1>9. Attended(m) => Attended(d)
  BY <1>1, <1>2, <1>3, <1>7 DEF Attended
<1>10. Base(m) /\ Powered(d, d.level) => Base(d)
  BY <1>1, <1>3, <1>5, <1>9 DEF Base
<1> QED
  BY <1>3, <1>4, <1>5, <1>6, <1>8, <1>10

LEMMA PowerFields ==
  ASSUME NEW m \in ModemRecords
  PROVE  /\ \A a \in BOOLEAN : LET d == [m EXCEPT !.vcc_off = a] IN
              Wired(m, d) /\ d.vcc_off = a /\ d.pos = m.pos /\ d.off = m.off
         /\ \A a \in BOOLEAN : LET d == [m EXCEPT !.off = a] IN
              Wired(m, d) /\ d.vcc_off = m.vcc_off /\ d.pos = m.pos /\ d.off = a
         /\ \A p \in Int : LET d == [m EXCEPT !.pos = p] IN
              Wired(m, d) /\ d.vcc_off = m.vcc_off /\ d.pos = p /\ d.off = m.off
<1>1. ASSUME NEW a \in BOOLEAN, NEW d, d = [m EXCEPT !.vcc_off = a]
      PROVE  Wired(m, d) /\ d.vcc_off = a /\ d.pos = m.pos /\ d.off = m.off
  <2>1. d \in ModemRecords
    BY <1>1 DEF ModemRecords
  <2>2. /\ d.state = m.state /\ d.level = m.level /\ d.target = m.target /\ d.inter = m.inter
        /\ d.force = m.force /\ d.cmd = m.cmd /\ d.delayed = m.delayed /\ d.timers = m.timers
        /\ d.urc = m.urc /\ d.creg = m.creg /\ d.uupsdd = m.uupsdd /\ d.tasks = m.tasks
        /\ d.keep = m.keep /\ d.cleanup = m.cleanup
        /\ d.low = m.low /\ d.high = m.high /\ d.run = m.run /\ d.ask = m.ask /\ d.sub = m.sub
    BY <1>1 DEF ModemRecords
  <2>3. d.vcc_off = a /\ d.pos = m.pos /\ d.off = m.off
    BY <1>1 DEF ModemRecords
  <2> QED
    BY <2>1, <2>2, <2>3 DEF Wired
<1>2. ASSUME NEW a \in BOOLEAN, NEW d, d = [m EXCEPT !.off = a]
      PROVE  Wired(m, d) /\ d.vcc_off = m.vcc_off /\ d.pos = m.pos /\ d.off = a
  <2>1. d \in ModemRecords
    BY <1>2 DEF ModemRecords
  <2>2. /\ d.state = m.state /\ d.level = m.level /\ d.target = m.target /\ d.inter = m.inter
        /\ d.force = m.force /\ d.cmd = m.cmd /\ d.delayed = m.delayed /\ d.timers = m.timers
        /\ d.urc = m.urc /\ d.creg = m.creg /\ d.uupsdd = m.uupsdd /\ d.tasks = m.tasks
        /\ d.keep = m.keep /\ d.cleanup = m.cleanup
        /\ d.low = m.low /\ d.high = m.high /\ d.run = m.run /\ d.ask = m.ask /\ d.sub = m.sub
    BY <1>2 DEF ModemRecords
  <2>3. d.vcc_off = m.vcc_off /\ d.pos = m.pos /\ d.off = a
    BY <1>2 DEF ModemRecords
  <2> QED
    BY <2>1, <2>2, <2>3 DEF Wired
<1>3. ASSUME NEW p \in Int, NEW d, d = [m EXCEPT !.pos = p]
      PROVE  Wired(m, d) /\ d.vcc_off = m.vcc_off /\ d.pos = p /\ d.off = m.off
  <2>1. Minor(m, d)
    BY <1>3, MinorFields
  <2>2. d.pos = p
    BY <1>3 DEF ModemRecords
  <2> QED
    BY <2>1, <2>2 DEF Minor, Wired
<1> QED
  BY <1>1, <1>2, <1>3

LEMMA WiredTrans ==
  ASSUME NEW m, NEW d, NEW e, Wired(m, d), Wired(d, e)
  PROVE  Wired(m, e)
BY DEF Wired

(* The next pulse of the power-on or reset sequence, or its end.           *)
LEMMA PowerStepGood ==
  ASSUME NEW m, Ready(m), Phase(m) \in {"DO_POWER_ON", "DO_RESET"},
         NEW d, Wired(m, d), d.pos \in 1 .. 5, ~d.vcc_off, d.off = m.off
  PROVE  Good(set_high_timer(d, "power_on"))
<1>1. /\ Base(m) /\ Active(m) /\ Nothing(m, 0, 0) /\ LevelFits(Phase(m), m.level)
      /\ m.run = "poll" \/ m.state = "IN_SUBSTATE"
      /\ Powered(m, m.level)
  BY DEF Ready, Base
<1>2. d.level = m.level /\ d.run = m.run /\ d.state = m.state
  BY DEF Wired
<1>3. m.level = POWERED_OFF \/ m.level = STUCK_HARDWARE
  BY <1>1 DEF LevelFits
<1>4. Powered(d, d.level)
  BY <1>1, <1>2, <1>3 DEF Powered, POWERED_OFF, STUCK_HARDWARE, POWERED_ON
<1>5. Base(d) /\ Active(d) /\ Nothing(d, 0, 0) /\ Phase(d) = Phase(m)
  BY <1>1, <1>4, WiredKept
<1>6. Ready(d)
  BY <1>1, <1>2, <1>5 DEF Ready
<1>7. Belongs("power_on", Phase(d)) /\ "power_on" \in HighTimers /\ "power_on" \in StepTimers
  BY <1>5 DEF Belongs, Steps, Starts, StepTimers, WorkTimers, Timers, HighTimers, CregTimers
<1>8. Detail(d, "power_on")
  BY <1>5 DEF Detail, CregTimers
<1> QED
  BY <1>6, <1>7, <1>8, TimerGood

LEMMA PowerDone ==
  ASSUME NEW m, Ready(m), m.run = "poll", Phase(m) \in {"DO_POWER_ON", "DO_RESET"},
         NEW d, Wired(m, d), ~d.vcc_off, ~d.off
  PROVE  Good(reached_level(d, POWERED_ON))
<1>1. /\ Base(m) /\ Active(m) /\ Nothing(m, 0, 0) /\ LevelFits(Phase(m), m.level) /\ Loose(m)
      /\ m.state # "WAITING"
  BY PhaseIn DEF Ready, Base
<1>2. d.level = m.level /\ d.run = m.run /\ d.state = m.state
  BY DEF Wired
<1>3. m.level = POWERED_OFF \/ m.level = STUCK_HARDWARE
  BY <1>1 DEF LevelFits
<1>4. POWERED_ON # d.level /\ POWERED_ON \in Levels /\ POWERED_ON < NETWORK /\ m.level < NETWORK
  BY <1>2, <1>3, LevelFacts DEF POWERED_ON, POWERED_OFF, STUCK_HARDWARE, NETWORK
<1>5. Fits(m, POWERED_ON)
  BY <1>1, <1>4, PhaseFits
<1>6. Loose(d) /\ Nothing(d, 0, 0) /\ Fits(d, POWERED_ON)
  BY <1>1, <1>5, WiredKept
<1>7. Powered(d, POWERED_ON)
  BY DEF Powered, POWERED_ON, POWERED_OFF
<1> QED
  BY <1>1, <1>2, <1>4, <1>6, <1>7, Reached DEF Quits

LEMMA PowerOnGood ==
  ASSUME NEW m, Base(m), Active(m), Nothing(m, 0, 1), m.run = "poll" \/ m.state = "IN_SUBSTATE",
         Phase(m) \in {"DO_POWER_ON", "DO_RESET"},
         m.pos = 0 \/ (m.pos \in 1 .. 5 /\ ~m.vcc_off /\ m.run = "poll")
  PROVE  Good(modem_do_power_on_timer_handler(m))
<1>1. PICK h : h = pm_high(m, -1)
  OBVIOUS
<1>2. Ready(h) /\ Phase(h) = Phase(m) /\ h.run = m.run
  BY <1>1, PayReady
<1>3. m \in ModemRecords /\ h \in ModemRecords
  BY <1>2 DEF Ready, Base, Loose
<1>4. h.pos = m.pos /\ h.vcc_off = m.vcc_off /\ h.off = m.off
  <2>1. Same(m, pm_high(m, -1))
    BY <1>3, Literals, CountsSame
  <2> QED
    BY <1>1, <2>1 DEF Same
<1>5. \A p \in Int : /\ Wired(h, [h EXCEPT !.pos = p]) /\ [h EXCEPT !.pos = p].pos = p
                     /\ [h EXCEPT !.pos = p].vcc_off = h.vcc_off
                     /\ [h EXCEPT !.pos = p].off = h.off
  BY <1>3, PowerFields
<1>6. CASE m.pos = 0 /\ m.vcc_off
  <2>1. PICK d : d = [h EXCEPT !.vcc_off = FALSE, !.pos = 1]
    OBVIOUS
  <2>2. Wired(h, d) /\ d.vcc_off = FALSE /\ d.pos = 1 /\ d.off = h.off
    <3>1. PICK e : e = [h EXCEPT !.vcc_off = FALSE]
      OBVIOUS
    <3>2. Wired(h, e) /\ e.vcc_off = FALSE /\ e.off = h.off
      BY <1>3, <3>1, Literals, PowerFields
    <3>3. d = [e EXCEPT !.pos = 1] /\ e \in ModemRecords
      BY <2>1, <3>1, <3>2 DEF Wired
    <3>4. Wired(e, d) /\ d.vcc_off = e.vcc_off /\ d.pos = 1 /\ d.off = e.off
      BY <3>3, Literals, PowerFields
    <3> QED
      BY <3>2, <3>4, WiredTrans
  <2>3. Good(set_high_timer(d, "power_on"))
    BY <1>2, <2>2, PowerStepGood
  <2> QED
    BY <1>1, <1>6, <2>1, <2>3 DEF modem_do_power_on_timer_handler
<1>7. CASE m.pos = 0 /\ ~m.vcc_off
  <2>1. Good(set_high_timer([h EXCEPT !.pos = 2], "power_on"))
    <3>1. 2 \in Int /\ 2 \in 1 .. 5 /\ ~h.vcc_off
      BY <1>4, <1>7
    <3> QED
      BY <1>2, <1>5, <3>1, PowerStepGood
  <2> QED
    BY <1>1, <1>7, <2>1 DEF modem_do_power_on_timer_handler
<1>8. CASE m.pos \in 1 .. 5 /\ ~m.vcc_off /\ m.run = "poll"
  <2>1. m.pos # 0 /\ m.pos \in Int /\ ~h.vcc_off /\ h.run = "poll"
    BY <1>2, <1>4, <1>8
  <2>2. CASE m.pos = 3 /\ m.flag /\ ~m.off
    <3>1. 4 \in Int /\ ~h.off
      BY <1>4, <2>2
    <3>2. Good(reached_level([h EXCEPT !.pos = 4], POWERED_ON))
      BY <1>2, <1>5, <2>1, <3>1, PowerDone
    <3> QED
      BY <1>1, <2>1, <2>2, <3>2 DEF modem_do_power_on_timer_handler
  <2>3. CASE m.pos = 5
    <3>1. PICK d : d = [h EXCEPT !.pos = 6, !.off = FALSE]
      OBVIOUS
    <3>2. Wired(h, d) /\ d.vcc_off = h.vcc_off /\ d.off = FALSE
      <4>1. PICK e : e = [h EXCEPT !.pos = 6]
        OBVIOUS
      <4>2. Wired(h, e) /\ e.vcc_off = h.vcc_off
        BY <1>3, <4>1, Literals, PowerFields
      <4>3. d = [e EXCEPT !.off = FALSE] /\ e \in ModemRecords
        BY <3>1, <4>1, <4>2 DEF Wired
      <4>4. Wired(e, d) /\ d.vcc_off = e.vcc_off /\ d.off = FALSE
        BY <4>3, Literals, PowerFields
      <4> QED
        BY <4>2, <4>4, WiredTrans
    <3>3. Good(reached_level(d, POWERED_ON))
      BY <1>2, <2>1, <3>2, PowerDone
    <3> QED
      BY <1>1, <2>1, <2>3, <3>1, <3>3 DEF modem_do_power_on_timer_handler
  <2>4. CASE ~(m.pos = 3 /\ m.flag /\ ~m.off) /\ m.pos # 5
    <3>1. h.pos + 1 \in Int /\ h.pos + 1 \in 1 .. 5
      BY <1>4, <1>8, <2>4
    <3>2. Good(set_high_timer([h EXCEPT !.pos = h.pos + 1], "power_on"))
      BY <1>2, <1>5, <2>1, <3>1, PowerStepGood
    <3> QED
      BY <1>1, <2>1, <2>4, <3>2 DEF modem_do_power_on_timer_handler
  <2> QED
    BY <2>2, <2>3, <2>4
<1> QED
  BY <1>6, <1>7, <1>8

(* The power is off, or is waited for, or the modem does not answer.       *)
LEMMA PowerOffGood ==
  ASSUME NEW m, Ready(m), m.run = "poll", Phase(m) = "DO_POWER_OFF", NEW r
  PROVE  Good(CPWROFF_handler(m, r)) /\ Good(modem_do_power_off_timer_handler(m))
<1>1. /\ Base(m) /\ Active(m) /\ Nothing(m, 0, 0) /\ Loose(m) /\ m.state # "WAITING"
      /\ m \in ModemRecords /\ m.level >= CMD_PROMPT
  BY PhaseIn DEF Ready, Base, LevelFits, Loose
<1>2. m.level \in 0 .. 6
  BY <1>1, LooseLevels
<1>3. /\ m.level # POWERED_OFF /\ m.level # STUCK_HARDWARE
      /\ {POWERED_OFF, STUCK_HARDWARE} \subseteq Levels
      /\ POWERED_OFF < NETWORK /\ STUCK_HARDWARE < NETWORK
  BY <1>1, <1>2, LevelFacts DEF POWERED_OFF, STUCK_HARDWARE, CMD_PROMPT, NETWORK
<1>4. Fits(m, POWERED_OFF) /\ Fits(m, STUCK_HARDWARE)
  BY <1>1, <1>3, PhaseFits
<1>5. ASSUME NEW d, Wired(m, d), d.off
      PROVE  Good(reached_level(d, POWERED_OFF))
  <2>1. Loose(d) /\ Nothing(d, 0, 0) /\ Fits(d, POWERED_OFF)
    BY <1>1, <1>4, <1>5, WiredKept
  <2>2. d.level = m.level /\ d.run = m.run /\ d.state = m.state
    BY <1>5 DEF Wired
  <2>3. Powered(d, POWERED_OFF)
    BY <1>5 DEF Powered, POWERED_ON, POWERED_OFF
  <2> QED
    BY <1>1, <1>3, <2>1, <2>2, <2>3, Reached DEF Quits
<1>6. Good(reached_level(m, STUCK_HARDWARE))
  <2>1. Powered(m, STUCK_HARDWARE)
    BY DEF Powered, STUCK_HARDWARE, POWERED_OFF, POWERED_ON
  <2> QED
    BY <1>1, <1>3, <1>4, <2>1, ReadyEnds
<1>7. Good(reached_level([m EXCEPT !.off = TRUE], POWERED_OFF))
  BY <1>1, <1>5, Literals, PowerFields
<1>8. Good(reached_level([m EXCEPT !.vcc_off = TRUE, !.off = TRUE], POWERED_OFF))
  <2>1. PICK d : d = [m EXCEPT !.vcc_off = TRUE, !.off = TRUE]
    OBVIOUS
  <2>2. Wired(m, d) /\ d.off = TRUE
    <3>1. PICK e : e = [m EXCEPT !.vcc_off = TRUE]
      OBVIOUS
    <3>2. Wired(m, e)
      BY <1>1, <3>1, Literals, PowerFields
    <3>3. d = [e EXCEPT !.off = TRUE] /\ e \in ModemRecords
      BY <2>1, <3>1, <3>2 DEF Wired
    <3>4. Wired(e, d) /\ d.off = TRUE
      BY <3>3, Literals, PowerFields
    <3> QED
      BY <3>2, <3>4, WiredTrans
  <2> QED
    BY <1>5, <2>1, <2>2
<1>9. Good(set_timer(m, "poweroff"))
  <2>1. /\ "poweroff" \in StepTimers /\ "poweroff" \notin HighTimers \cup CregTimers
        /\ Belongs("poweroff", Phase(m))
    BY DEF StepTimers, WorkTimers, Timers, HighTimers, CregTimers, Belongs, Steps, Starts
  <2>2. Detail(m, "poweroff")
    BY DetailEasy DEF CregTimers
  <2> QED
    BY <2>1, <2>2, TimerGood
<1> QED
  BY <1>6, <1>7, <1>8, <1>9 DEF CPWROFF_handler, modem_do_power_off_timer_handler

-----------------------------------------------------------------------------
(* Registration.                                                           *)

(* The steps of the registration once its handler is in place.             *)
LEMMA NetworkSteps ==
  ASSUME NEW m, Phase(m) = "SETUP_NETWORK", Slotted(m, "registration"), ~m.keep
  PROVE  /\ m.net = "ENABLING_RF" => Detail(m, "CFUN_1")
         /\ m.net = "STARTING" => Detail(m, "disable_COPS")
         /\ m.net = "WAITING" => Detail(m, "start_register") /\ Detail(m, "register_timeout")
         /\ m.net = "RETRYING" => Detail(m, "retry_COPS") /\ Detail(m, "retry_registration")
         /\ \A x \in {"CREG", "CFUN_1", "disable_COPS", "retry_COPS"} \cup CregTimers :
              Belongs(x, Phase(m))
         /\ {"CREG", "CFUN_1", "disable_COPS", "retry_COPS"} \subseteq Commands
         /\ CregTimers \subseteq StepTimers
<1>1. /\ m.net = "ENABLING_RF" => Detail(m, "CFUN_1")
      /\ m.net = "STARTING" => Detail(m, "disable_COPS")
      /\ m.net = "WAITING" => Detail(m, "start_register") /\ Detail(m, "register_timeout")
      /\ m.net = "RETRYING" => Detail(m, "retry_COPS") /\ Detail(m, "retry_registration")
  BY DEF Detail, CregTimers
<1>2. /\ {"CREG", "CFUN_1", "disable_COPS", "retry_COPS"} \subseteq Commands
      /\ CregTimers \subseteq StepTimers
  BY DEF Commands, CregTimers, StepTimers, WorkTimers, Timers
<1>3. \A x \in {"CREG", "CFUN_1", "disable_COPS", "retry_COPS"} \cup CregTimers :
        Belongs(x, Phase(m))
  BY <1>2 DEF Belongs, Steps, Starts, CregTimers
<1> QED
  BY <1>1, <1>2, <1>3

(* The registration fails before the modem is registered.                  *)
LEMMA NetworkFails ==
  ASSUME NEW m, Ready(m), m.run = "poll", Phase(m) = "SETUP_NETWORK", ~m.keep
  PROVE  Good(level_transition_failed(m))
<1>1. Base(m) /\ Active(m) /\ m.level = SIM_ENABLED
  BY DEF Ready, Base, LevelFits
<1>2. /\ SIM_ENABLED \in Levels /\ STUCK_HARDWARE \in Levels /\ SIM_ENABLED < NETWORK
      /\ STUCK_HARDWARE < NETWORK /\ m.level >= POWERED_ON
  BY <1>1, LevelFacts DEF SIM_ENABLED, STUCK_HARDWARE, NETWORK, POWERED_ON
<1>3. Fits(m, IF m.target = POWERED_OFF THEN STUCK_HARDWARE ELSE m.level)
  BY <1>1, <1>2, PhaseFits
<1> QED
  BY <1>2, <1>3, ReadyEnds

(* The state of the registration changes, and nothing else of note.        *)
LEMMA NetworkState ==
  ASSUME NEW m, Ready(m), NEW d, Minor(m, d), Phase(m) = "SETUP_NETWORK",
         Slotted(m, "registration"), ~m.keep
  PROVE  /\ Ready(d) /\ Phase(d) = "SETUP_NETWORK" /\ Slotted(d, "registration") /\ ~d.keep
         /\ d.run = m.run
<1>1. d.urc = m.urc /\ d.keep = m.keep /\ d.run = m.run
  BY DEF Minor
<1> QED
  BY <1>1, MinorReady DEF Slotted

LEMMA CfunCopsGood ==
  ASSUME NEW m, Ready(m), m.run = "poll", Phase(m) = "SETUP_NETWORK", NEW r,
         Slotted(m, "registration"), ~m.keep
  PROVE  /\ Good(CFUN_1_handler(m, r)) /\ Good(disable_COPS_handler(m, r))
         /\ m.net = "RETRYING" => Good(retry_COPS_handler(m, r))
<1>1. m \in ModemRecords
  BY DEF Ready, Base, Loose
<1>2. Good(level_transition_failed(m))
  BY NetworkFails
<1>3. ASSUME NEW v \in NetworkStates
      PROVE  /\ Minor(m, [m EXCEPT !.net = v]) /\ [m EXCEPT !.net = v].net = v
  <2>1. [m EXCEPT !.net = v].net = v
    BY <1>1 DEF ModemRecords
  <2> QED
    BY <1>1, <2>1, MinorFields
<1>4. "STARTING" \in NetworkStates /\ "WAITING" \in NetworkStates
  BY DEF NetworkStates
<1>5. Good(send_cmd([m EXCEPT !.net = "STARTING"], "disable_COPS"))
  <2>1. PICK d : d = [m EXCEPT !.net = "STARTING"]
    OBVIOUS
  <2>2. Ready(d) /\ Phase(d) = "SETUP_NETWORK" /\ Slotted(d, "registration") /\ ~d.keep
        /\ d.net = "STARTING"
    BY <1>3, <1>4, <2>1, NetworkState
  <2>3. Good(send_cmd(d, "disable_COPS"))
    BY <2>2, NetworkSteps, SendGood
  <2> QED
    BY <2>1, <2>3
<1>6. ASSUME NEW t \in {"start_register", "register_timeout"}
      PROVE  Good(set_creg_timer([m EXCEPT !.net = "WAITING"], t))
  <2>1. PICK d : d = [m EXCEPT !.net = "WAITING"]
    OBVIOUS
  <2>2. Ready(d) /\ Phase(d) = "SETUP_NETWORK" /\ Slotted(d, "registration") /\ ~d.keep
        /\ d.net = "WAITING"
    BY <1>3, <1>4, <2>1, NetworkState
  <2>3. t \in CregTimers
    BY DEF CregTimers
  <2>4. Detail(d, t) /\ Belongs(t, Phase(d)) /\ t \in StepTimers
    BY <2>2, <2>3, NetworkSteps
  <2>5. Good(set_creg_timer(d, t))
    BY <2>2, <2>3, <2>4, TimerGood
  <2> QED
    BY <2>1, <2>5
<1>7. m.net = "RETRYING" => DEBUGASSERT(m, m.net = "RETRYING", "not retrying") = m
  BY DEF DEBUGASSERT, assert
<1>8. Good(CFUN_1_handler(m, r))
  BY <1>2, <1>5 DEF CFUN_1_handler, on_ok
<1>9. Good(disable_COPS_handler(m, r))
  BY <1>2, <1>6 DEF disable_COPS_handler
<1>10. m.net = "RETRYING" => Good(retry_COPS_handler(m, r))
  BY <1>2, <1>6, <1>7 DEF retry_COPS_handler
<1> QED
  BY <1>8, <1>9, <1>10

(* creg_registered is set.                                                 *)
LEMMA CregSet ==
  ASSUME NEW m \in ModemRecords, NEW d, d = [m EXCEPT !.creg = TRUE]
  PROVE  Still(m, d) /\ d.urc = m.urc /\ d.creg /\ d.uupsdd = m.uupsdd
<1>1. d \in ModemRecords
  BY ZenonT(60) DEF ModemRecords
<1>2. /\ d.state = m.state /\ d.level = m.level /\ d.target = m.target /\ d.inter = m.inter
      /\ d.force = m.force /\ d.cmd = m.cmd /\ d.delayed = m.delayed /\ d.timers = m.timers
      /\ d.tasks = m.tasks /\ d.keep = m.keep /\ d.cleanup = m.cleanup /\ d.off = m.off
      /\ d.vcc_off = m.vcc_off /\ d.low = m.low /\ d.high = m.high /\ d.run = m.run
      /\ d.ask = m.ask /\ d.sub = m.sub /\ d.net = m.net /\ d.pos = m.pos /\ d.work = m.work
  BY DEF ModemRecords
<1>3. d.urc = m.urc /\ d.creg /\ d.uupsdd = m.uupsdd
  BY DEF ModemRecords
<1> QED
  BY <1>1, <1>2, <1>3 DEF Still

(* The handler of the registration is put into the table.                  *)
LEMMA RegisterReady ==
  ASSUME NEW m, Ready(m), Phase(m) = "SETUP_NETWORK", ~m.creg, ~m.keep,
         NEW v, v = [register_urc(m, "registration") EXCEPT !.creg = TRUE]
  PROVE  \/ /\ Ready(v) /\ Phase(v) = "SETUP_NETWORK" /\ Slotted(v, "registration")
            /\ ~v.keep /\ v.run = m.run
         \/ v \in ModemRecords /\ v.run = "stop" /\ Powered(v, v.level)
<1>1. /\ Base(m) /\ Active(m) /\ Nothing(m, 0, 0) /\ Loose(m) /\ m.level = SIM_ENABLED
      /\ m.run = "poll" \/ m.state = "IN_SUBSTATE"
      /\ m \in ModemRecords /\ m.run # "stop" /\ OneCreg(m) /\ Powered(m, m.level)
      /\ LevelFits(Phase(m), m.level)
  BY DEF Ready, Base, LevelFits, Loose
<1>2. m.state = "IN_SUBSTATE" /\ In(m, {"SETUP_NETWORK"}) /\ ~In(m, {"DO_POWER_OFF"})
      /\ ~In(m, {"OPEN_GPRS_CONNECTION"})
  BY <1>1, PhaseIn DEF Works
<1>3. \A i \in Slots : m.urc[i] \notin {"registration", "monitor"}
  BY <1>1 DEF OneCreg, Slotted
<1>4. PICK u : u = register_urc(m, "registration")
  OBVIOUS
<1>5. v = [u EXCEPT !.creg = TRUE]
  BY <1>4
<1>6. CASE /\ \E i \in Slots : /\ m.urc[i] = "none"
                               /\ \A j \in Slots : u.urc[j] = IF j = i THEN "registration" ELSE m.urc[j]
           /\ Still(m, u) /\ u.creg = m.creg /\ u.uupsdd = m.uupsdd
  <2>1. u \in ModemRecords
    BY <1>6 DEF Still
  <2>2. Still(u, v) /\ v.urc = u.urc /\ v.creg /\ v.uupsdd = u.uupsdd
    BY <1>5, <2>1, CregSet
  <2>3. Still(m, v)
    BY <1>6, <2>2, StillTrans
  <2>4. PICK i \in Slots : /\ m.urc[i] = "none"
                           /\ \A j \in Slots : v.urc[j] = IF j = i THEN "registration" ELSE m.urc[j]
    BY <1>6, <2>2
  <2>5. Slotted(v, "registration")
    BY <2>4 DEF Slotted
  <2>6. OneCreg(v)
    BY <1>3, <2>2, <2>4, <2>5 DEF OneCreg
  <2>7. /\ v \in ModemRecords
        /\ v.state = m.state /\ v.level = m.level /\ v.target = m.target /\ v.inter = m.inter
        /\ v.force = m.force /\ v.timers = m.timers
        /\ v.keep = m.keep /\ v.cleanup = m.cleanup /\ v.off = m.off
        /\ v.vcc_off = m.vcc_off /\ v.run = m.run /\ v.ask = m.ask /\ v.sub = m.sub
    BY <2>3 DEF Still
  <2>8. /\ Phase(v) = Phase(m) /\ \A S : In(v, S) <=> In(m, S)
        /\ Active(v) /\ Nothing(v, 0, 0)
    BY <1>1, <2>3, StillPending
  <2>9. Loose(v)
    BY <1>1, <1>2, <2>6, <2>7, <2>8 DEF Loose
  <2>10. Attended(v)
    <3>1. ~(v.level >= NETWORK)
      BY <1>1, <2>7 DEF SIM_ENABLED, NETWORK
    <3> QED
      BY <3>1 DEF Attended
  <2>11. Base(v)
    <3>1. Powered(v, v.level)
      BY <1>1, <2>7 DEF Powered
    <3> QED
      BY <1>1, <2>7, <2>8, <2>9, <2>10, <3>1 DEF Base
  <2> QED
    BY <1>1, <2>5, <2>7, <2>8, <2>11 DEF Ready
<1>7. CASE /\ \A i \in Slots : m.urc[i] # "none"
           /\ u \in ModemRecords /\ u.run = "stop" /\ Powered(u, u.level)
  <2>1. Still(u, v)
    BY <1>5, <1>7, CregSet
  <2>2. v \in ModemRecords /\ v.run = "stop" /\ Powered(v, v.level)
    BY <1>7, <2>1 DEF Still, Powered
  <2> QED
    BY <2>2
<1>8. "registration" \in UrcHandlers
  BY DEF UrcHandlers
<1> QED
  BY <1>1, <1>4, <1>6, <1>7, <1>8, PutIn

(* What has stopped sends nothing that matters: the power stays.           *)
LEMMA StoppedSend ==
  ASSUME NEW m \in ModemRecords, m.run = "stop", NEW c \in Commands
  PROVE  LET d == send_cmd(m, c) IN
         d.level = m.level /\ d.off = m.off /\ d.vcc_off = m.vcc_off
<1>1. /\ DEBUGASSERT(m, m.delayed = "none", "delayed command active") = m
      /\ assert(m, m.cmd = "none", "slot 0 in use") = m
  BY DEF assert, DEBUGASSERT
<1>2. PICK e : e = [m EXCEPT !.delayed = c]
  OBVIOUS
<1>3. /\ e \in ModemRecords /\ e.run = "stop" /\ e.level = m.level /\ e.off = m.off
      /\ e.vcc_off = m.vcc_off
  BY <1>2, ZenonT(60) DEF ModemRecords
<1>4. PICK k : k = cmd_activity([m EXCEPT !.cmd = c], c, 1)
  OBVIOUS
<1>5. /\ k \in ModemRecords /\ k.run = "stop" /\ k.level = m.level /\ k.off = m.off
      /\ k.vcc_off = m.vcc_off
  <2>1. PICK f : f = [m EXCEPT !.cmd = c]
    OBVIOUS
  <2>2. /\ f \in ModemRecords /\ f.run = "stop" /\ f.level = m.level /\ f.off = m.off
        /\ f.vcc_off = m.vcc_off
    BY <2>1, ZenonT(60) DEF ModemRecords
  <2>3. k = pm_low(f, 1) \/ k = pm_high(f, 1)
    BY <1>4, <2>1 DEF cmd_activity
  <2>4. Same(f, pm_low(f, 1)) /\ Same(f, pm_high(f, 1))
    BY <2>2, Literals, CountsSame
  <2> QED
    BY <2>2, <2>3, <2>4 DEF Same
<1>6. ASSUME NEW f \in ModemRecords, f.run = "stop", NEW t \in Timers
      PROVE  LET g == set_timer(f, t) IN
             /\ g \in ModemRecords /\ g.level = f.level /\ g.off = f.off
             /\ g.vcc_off = f.vcc_off
  <2>1. set_timer(f, t) = [f EXCEPT !.timers = f.timers \cup {t}]
    BY <1>6 DEF set_timer, assert
  <2>2. PICK g : g = [f EXCEPT !.timers = f.timers \cup {t}]
    OBVIOUS
  <2>3. f.timers \cup {t} \in SUBSET Timers
    BY DEF ModemRecords
  <2>4. g \in ModemRecords
    BY <2>2, <2>3, ZenonT(60) DEF ModemRecords
  <2>5. g.level = f.level /\ g.off = f.off /\ g.vcc_off = f.vcc_off
    BY <2>2 DEF ModemRecords
  <2> QED
    BY <2>1, <2>2, <2>4, <2>5
<1>7. "delay" \in Timers /\ "cmd" \in Timers
  BY DEF Timers
<1>8. CASE m.soon
  <2>1. send_cmd(m, c) = pm_high(set_timer(e, "delay"), 1)
    BY <1>1, <1>2, <1>8, Zenon DEF send_cmd
  <2>2. PICK g : g = set_timer(e, "delay")
    OBVIOUS
  <2>3. g \in ModemRecords /\ g.level = m.level /\ g.off = m.off /\ g.vcc_off = m.vcc_off
    BY <1>3, <1>6, <1>7, <2>2
  <2>4. Same(g, pm_high(g, 1))
    BY <2>3, Literals, CountsSame
  <2> QED
    BY <2>1, <2>2, <2>3, <2>4 DEF Same
<1>9. CASE ~m.soon
  <2>1. send_cmd(m, c) = set_timer(k, "cmd")
    BY <1>1, <1>4, <1>9 DEF send_cmd, modem_send_cmd, register_command
  <2> QED
    BY <1>5, <1>6, <1>7, <2>1
<1> QED
  BY <1>8, <1>9

LEMMA StoppedGood ==
  ASSUME NEW m \in ModemRecords, m.run = "stop", Powered(m, m.level)
  PROVE  /\ Good(m)
         /\ \A c \in Commands : Good(send_cmd(m, c))
<1>1. ASSUME NEW c \in Commands PROVE Good(send_cmd(m, c))
  <2>1. PICK d : d = send_cmd(m, c)
    OBVIOUS
  <2>2. Quiet(m, d)
    BY <2>1, SendQuiet
  <2>3. d.run = "stop"
    BY <2>2 DEF Quiet
  <2>4. d.level = m.level /\ d.off = m.off /\ d.vcc_off = m.vcc_off
    BY <2>1, StoppedSend
  <2> QED
    BY <2>1, <2>3, <2>4 DEF Good, Powered
<1> QED
  BY <1>1 DEF Good

LEMMA CregGood ==
  ASSUME NEW m, Ready(m), m.run = "poll", Phase(m) = "SETUP_NETWORK", NEW r, ~m.creg, ~m.keep
  PROVE  Good(CREG_handler(m, r))
<1>1. Good(level_transition_failed(m))
  BY NetworkFails
<1>2. PICK v : v = [register_urc(m, "registration") EXCEPT !.creg = TRUE]
  OBVIOUS
<1>3. PICK e : e = [register_urc(m, "registration") EXCEPT !.creg = TRUE, !.net = "ENABLING_RF"]
  OBVIOUS
<1>4. e = [v EXCEPT !.net = "ENABLING_RF"]
  BY <1>2, <1>3
<1>5. "ENABLING_RF" \in NetworkStates /\ "CFUN_1" \in Commands
  BY DEF NetworkStates, Commands
<1>6. v \in ModemRecords
  BY <1>2, RegisterReady DEF Ready, Base, Loose
<1>7. e.net = "ENABLING_RF"
  BY <1>4, <1>6 DEF ModemRecords
<1>8. Minor(v, e)
  BY <1>4, <1>5, <1>6, MinorFields
<1>9. CASE Ready(v) /\ Phase(v) = "SETUP_NETWORK" /\ Slotted(v, "registration")
           /\ ~v.keep /\ v.run = m.run
  <2>1. Ready(e) /\ Phase(e) = "SETUP_NETWORK" /\ Slotted(e, "registration") /\ ~e.keep
    BY <1>8, <1>9, NetworkState
  <2>2. Good(send_cmd(e, "CFUN_1"))
    BY <1>5, <1>7, <2>1, NetworkSteps, SendGood
  <2> QED
    BY <1>1, <1>3, <2>2 DEF CREG_handler, on_ok
<1>10. CASE v \in ModemRecords /\ v.run = "stop" /\ Powered(v, v.level)
  <2>1. e \in ModemRecords /\ e.run = "stop" /\ Powered(e, e.level)
    BY <1>8, <1>10 DEF Minor, Powered
  <2>2. Good(send_cmd(e, "CFUN_1"))
    BY <1>5, <1>10, <2>1, StoppedGood
  <2> QED
    BY <1>1, <1>3, <2>2 DEF CREG_handler, on_ok
<1> QED
  BY <1>2, <1>9, <1>10, RegisterReady

(* Registration is asked for, at the start and again.                      *)
LEMMA StartRegisterGood ==
  ASSUME NEW m, Base(m), Active(m), Nothing(m, 1, 0), m.run = "poll",
         Phase(m) = "SETUP_NETWORK", Slotted(m, "registration"), ~m.keep
  PROVE  Good(network_start_register_handler(m))
<1>1. PICK p : p = pm_low(m, -1)
  OBVIOUS
<1>2. Ready(p) /\ Phase(p) = "SETUP_NETWORK"
  BY <1>1, PayReady
<1>3. m \in ModemRecords /\ p \in ModemRecords
  BY <1>2 DEF Ready, Base, Loose
<1>4. p.urc = m.urc /\ p.keep = m.keep
  <2>1. Same(m, pm_low(m, -1))
    BY <1>3, Literals, CountsSame
  <2> QED
    BY <1>1, <2>1 DEF Same
<1>5. Slotted(p, "registration") /\ ~p.keep
  BY <1>4 DEF Slotted
<1>6. PICK d : d = [p EXCEPT !.net = "RETRYING", !.got = FALSE]
  OBVIOUS
<1>7. "RETRYING" \in NetworkStates /\ "retry_COPS" \in Commands
  BY DEF NetworkStates, Commands
<1>8. Minor(p, d)
  BY <1>3, <1>6, <1>7, Literals, MinorSets
<1>9. d.net = "RETRYING"
  BY <1>3, <1>6 DEF ModemRecords
<1>10. Ready(d) /\ Phase(d) = "SETUP_NETWORK" /\ Slotted(d, "registration") /\ ~d.keep
  BY <1>2, <1>5, <1>8, NetworkState
<1>11. Good(send_cmd(d, "retry_COPS"))
  BY <1>7, <1>9, <1>10, NetworkSteps, SendGood
<1> QED
  BY <1>1, <1>6, <1>11 DEF network_start_register_handler

(* The modem is registered: the handler of the registration gives its slot *)
(* to the monitor.                                                         *)
LEMMA SuccessGood ==
  ASSUME NEW m, Base(m), m.state = "IN_SUBSTATE", Phase(m) = "SETUP_NETWORK", Quits(m),
         m.run = "poll", Slotted(m, "registration"), ~m.keep
  PROVE  Good(network_registration_successed(m))
<1>1. /\ Loose(m) /\ m \in ModemRecords /\ m.level = SIM_ENABLED /\ OneCreg(m)
      /\ Powered(m, m.level) /\ In(m, {"SETUP_NETWORK"}) /\ ~In(m, {"OPEN_GPRS_CONNECTION"})
  BY DEF Base, Loose, LevelFits, In, Phase
<1>2. m.cmd = "none" /\ m.creg
  BY <1>1 DEF Quits, Nothing, Timed, Alone, OneCreg
<1>3. PICK t : t = unregister_urc(m, "+CREG")
  OBVIOUS
<1>4. PICK i \in Slots : /\ m.urc[i] \in {"registration", "monitor"}
                         /\ \A j \in Slots : t.urc[j] = IF j = i THEN "none" ELSE m.urc[j]
  <2>1. SlotsOf(m, "+CREG") = {k \in Slots : m.urc[k] \in {"registration", "monitor"}}
    BY <1>1, SlotNames
  <2>2. SlotsOf(m, "+CREG") # {}
    BY <2>1 DEF Slotted
  <2>3. \E k \in SlotsOf(m, "+CREG") :
          \A j \in Slots : t.urc[j] = IF j = k THEN "none" ELSE m.urc[j]
    BY <1>1, <1>2, <1>3, <2>2, TakeOut
  <2> QED
    BY <2>1, <2>3
<1>5. Still(m, t) /\ t.creg = m.creg /\ t.uupsdd = m.uupsdd
  BY <1>1, <1>2, <1>3, TakeOut
<1>6. t \in ModemRecords /\ t.run # "stop"
  BY <1>5 DEF Still
<1>7. \A j \in Slots : t.urc[j] \notin {"registration", "monitor"}
  BY <1>1, <1>4 DEF OneCreg
<1>8. PICK u : u = register_urc(t, "monitor")
  OBVIOUS
<1>9. /\ \E k \in Slots : /\ t.urc[k] = "none"
                          /\ \A j \in Slots : u.urc[j] = IF j = k THEN "monitor" ELSE t.urc[j]
      /\ Still(t, u) /\ u.creg = t.creg /\ u.uupsdd = t.uupsdd
  <2>1. "monitor" \in UrcHandlers
    BY DEF UrcHandlers
  <2> QED
    BY <1>4, <1>6, <1>8, <2>1, PutIn
<1>10. PICK k \in Slots : /\ t.urc[k] = "none"
                          /\ \A j \in Slots : u.urc[j] = IF j = k THEN "monitor" ELSE t.urc[j]
  BY <1>9
<1>11. Slotted(u, "monitor") /\ ~Slotted(u, "registration")
  BY <1>7, <1>10 DEF Slotted
<1>12. u.creg = m.creg /\ u.uupsdd = m.uupsdd /\ Still(m, u)
  BY <1>5, <1>9, StillTrans
<1>13. OneCreg(u)
  BY <1>2, <1>7, <1>10, <1>11, <1>12 DEF OneCreg
<1>14. \A j \in Slots : u.urc[j] = "UUPSDD" <=> m.urc[j] = "UUPSDD"
  BY <1>4, <1>10
<1>15. PICK d : d = [u EXCEPT !.keep = TRUE]
  OBVIOUS
<1>16. u \in ModemRecords
  BY <1>12 DEF Still
<1>17. /\ d \in ModemRecords /\ d.keep
       /\ d.state = u.state /\ d.level = u.level /\ d.target = u.target /\ d.inter = u.inter
       /\ d.force = u.force /\ d.cmd = u.cmd /\ d.delayed = u.delayed /\ d.timers = u.timers
       /\ d.urc = u.urc /\ d.creg = u.creg /\ d.uupsdd = u.uupsdd /\ d.tasks = u.tasks
       /\ d.cleanup = u.cleanup /\ d.off = u.off /\ d.vcc_off = u.vcc_off
       /\ d.low = u.low /\ d.high = u.high /\ d.run = u.run /\ d.ask = u.ask /\ d.sub = u.sub
  <2>1. d \in ModemRecords
    BY <1>15, <1>16, ZenonT(60) DEF ModemRecords
  <2>2. /\ d.keep
        /\ d.state = u.state /\ d.level = u.level /\ d.target = u.target /\ d.inter = u.inter
        /\ d.force = u.force /\ d.cmd = u.cmd /\ d.delayed = u.delayed /\ d.timers = u.timers
        /\ d.urc = u.urc /\ d.creg = u.creg /\ d.uupsdd = u.uupsdd /\ d.tasks = u.tasks
        /\ d.cleanup = u.cleanup /\ d.off = u.off /\ d.vcc_off = u.vcc_off
        /\ d.low = u.low /\ d.high = u.high /\ d.run = u.run /\ d.ask = u.ask /\ d.sub = u.sub
    BY <1>15, <1>16 DEF ModemRecords
  <2> QED
    BY <2>1, <2>2
<1>18. /\ d.state = m.state /\ d.level = m.level /\ d.target = m.target /\ d.inter = m.inter
       /\ d.force = m.force /\ d.cmd = m.cmd /\ d.delayed = m.delayed /\ d.timers = m.timers
       /\ d.uupsdd = m.uupsdd /\ d.tasks = m.tasks
       /\ d.cleanup = m.cleanup /\ d.off = m.off /\ d.vcc_off = m.vcc_off
       /\ d.low = m.low /\ d.high = m.high /\ d.run = m.run /\ d.ask = m.ask /\ d.sub = m.sub
  BY <1>12, <1>17 DEF Still
<1>19. /\ OneCreg(d) /\ Slotted(d, "monitor") /\ ~Slotted(d, "registration")
       /\ \A j \in Slots : d.urc[j] = "UUPSDD" <=> m.urc[j] = "UUPSDD"
  <2>1. OneCreg(d) <=> OneCreg(u)
    BY <1>17, WatchKept
  <2> QED
    BY <1>11, <1>13, <1>14, <1>17, <2>1 DEF Slotted
<1>20. \A S : In(d, S) <=> In(m, S)
  BY <1>18 DEF In
<1>21. Loose(d)
  BY <1>1, <1>17, <1>18, <1>19, <1>20 DEF Loose
<1>22. Quits(d)
  <2>1. Nothing(m, 0, 0) => Nothing(d, 0, 0)
    BY <1>18 DEF Nothing, Alone, Balance
  <2>2. \A x : Timed(m, x) => Timed(d, x)
    BY <1>18 DEF Timed, Alone, Balance
  <2> QED
    BY <1>20, <2>1, <2>2 DEF Quits
<1>23. Powered(d, NETWORK) /\ NETWORK # d.level /\ NETWORK \in Levels
  BY <1>1, <1>18, LevelFacts DEF Powered, NETWORK, SIM_ENABLED, POWERED_OFF, POWERED_ON
<1>24. Fits(d, NETWORK)
  <2>1. Watched(d)
    BY <1>19 DEF Watched
  <2> QED
    BY <1>17, <2>1 DEF Fits
<1>25. Good(reached_level(d, NETWORK))
  BY <1>18, <1>21, <1>22, <1>23, <1>24, Reached
<1>26. DEBUGASSERT(u, m.creg, "+CREG handler not registered") = u
  BY <1>2 DEF DEBUGASSERT, assert
<1> QED
  BY <1>3, <1>8, <1>15, <1>25, <1>26 DEF network_registration_successed

(* The modem has had time, or has reported in the meantime.                *)
LEMMA RetryRegistrationGood ==
  ASSUME NEW m, Base(m), Active(m), Nothing(m, 1, 0), m.run = "poll",
         Phase(m) = "SETUP_NETWORK", Slotted(m, "registration"), ~m.keep, m.net = "RETRYING"
  PROVE  Good(network_retry_registration_timer_handler(m))
<1>1. PICK p : p = pm_low(m, -1)
  OBVIOUS
<1>2. Ready(p) /\ Phase(p) = "SETUP_NETWORK" /\ p.run = "poll"
  BY <1>1, PayReady
<1>3. m \in ModemRecords
  BY DEF Base, Loose
<1>4. p.urc = m.urc /\ p.keep = m.keep /\ p.net = m.net /\ p.state = m.state
  <2>1. Same(m, pm_low(m, -1))
    BY <1>3, Literals, CountsSame
  <2> QED
    BY <1>1, <2>1 DEF Same
<1>5. Slotted(p, "registration") /\ ~p.keep /\ p.net = "RETRYING"
  BY <1>4 DEF Slotted
<1>6. DEBUGASSERT(p, m.net = "RETRYING", "not retrying") = p
  BY DEF DEBUGASSERT, assert
<1>7. Good(send_cmd(p, "retry_COPS"))
  BY <1>2, <1>5, NetworkSteps, SendGood
<1>8. Good(network_registration_successed(p))
  <2>1. Base(p) /\ Quits(p) /\ Active(p)
    BY <1>2 DEF Ready, Quits
  <2>2. p.state = "IN_SUBSTATE"
    BY <1>2, <2>1, PhaseIn DEF Works
  <2> QED
    BY <1>2, <1>5, <2>1, <2>2, SuccessGood
<1> QED
  BY <1>1, <1>6, <1>7, <1>8 DEF network_retry_registration_timer_handler

(* A level to go through on the way.                                       *)
LEMMA InterFields ==
  ASSUME NEW m \in ModemRecords, NEW i \in Levels, NEW d, d = [m EXCEPT !.inter = i]
  PROVE  Leveled(m, d) /\ d.inter = i /\ d.level = m.level /\ d.target = m.target
<1>1. d \in ModemRecords
  BY ZenonT(60) DEF ModemRecords
<1>2. /\ d.state = m.state /\ d.force = m.force /\ d.cmd = m.cmd /\ d.delayed = m.delayed
      /\ d.urc = m.urc /\ d.creg = m.creg /\ d.uupsdd = m.uupsdd /\ d.tasks = m.tasks
      /\ d.keep = m.keep /\ d.cleanup = m.cleanup /\ d.off = m.off /\ d.vcc_off = m.vcc_off
      /\ d.run = m.run /\ d.ask = m.ask /\ d.sub = m.sub /\ d.low = m.low
      /\ d.high = m.high /\ d.work = m.work /\ d.timers = m.timers
      /\ d.net = m.net /\ d.pos = m.pos
  BY DEF ModemRecords
<1>3. d.inter = i /\ d.level = m.level /\ d.target = m.target
  BY DEF ModemRecords
<1> QED
  BY <1>1, <1>2, <1>3 DEF Leveled

(* The registration takes too long: it is tried again from the SIM.        *)
LEMMA RegisterTimeoutGood ==
  ASSUME NEW m, Base(m), Active(m), Nothing(m, 1, 0), m.run = "poll",
         Phase(m) = "SETUP_NETWORK", ~m.keep
  PROVE  Good(network_register_timeout_handler(m))
<1>1. PICK p : p = pm_low(m, -1)
  OBVIOUS
<1>2. Ready(p) /\ Phase(p) = "SETUP_NETWORK" /\ p.run = "poll"
  BY <1>1, PayReady
<1>3. m \in ModemRecords /\ Base(p) /\ Loose(p) /\ Nothing(p, 0, 0) /\ p.level = SIM_ENABLED
      /\ Active(p) /\ Powered(p, p.level) /\ p.target # STUCK_HARDWARE /\ p \in ModemRecords
  BY <1>2 DEF Ready, Base, Loose, LevelFits
<1>4. p.keep = m.keep
  <2>1. Same(m, pm_low(m, -1))
    BY <1>3, Literals, CountsSame
  <2> QED
    BY <1>1, <2>1 DEF Same
<1>5. p.state = "IN_SUBSTATE"
  BY <1>2, <1>3, PhaseIn DEF Works
<1>6. network_cleanup(p) = p
  BY <1>3 DEF network_cleanup, SIM_ENABLED, NETWORK, GPRS
<1>7. PICK d : d = [p EXCEPT !.inter = SIM_ENABLED]
  OBVIOUS
<1>8. d.state = "IN_SUBSTATE" /\ run_if_waiting(d) = d
  BY <1>3, <1>5, <1>7 DEF run_if_waiting, ModemRecords
<1>9. /\ Leveled(p, d) /\ d.inter = SIM_ENABLED /\ d.level = p.level /\ d.target = p.target
  <2>1. SIM_ENABLED \in Levels
    BY LevelFacts
  <2> QED
    BY <1>3, <1>7, <2>1, InterFields
<1>10. Loose(d) /\ Nothing(d, 0, 0) /\ Powered(d, d.level)
  BY <1>3, <1>9, LevelKept
<1>11. d.run = "poll" /\ d.level >= POWERED_ON
  BY <1>2, <1>3, <1>9 DEF Leveled, SIM_ENABLED, POWERED_ON
<1>12. Fits(d, IF d.target = POWERED_OFF THEN STUCK_HARDWARE ELSE d.level)
  BY <1>3, <1>9 DEF Fits, STUCK_HARDWARE, SIM_ENABLED, NETWORK
<1>13. Good(level_transition_failed(d))
  BY <1>8, <1>10, <1>11, <1>12, Failed
<1> QED
  BY <1>1, <1>6, <1>7, <1>8, <1>13 DEF network_register_timeout_handler, retry_current_level

-----------------------------------------------------------------------------
(* Result codes and tasks that come in while the modem polls.              *)

(* What is pending when the thread polls.                                  *)
LEMMA PollGood ==
  ASSUME NEW m, Good(m), m.run = "poll"
  PROVE  /\ Base(m) /\ Loose(m) /\ m \in ModemRecords
         /\ Idle(m) \/ \E x \in Steps : Busy(m, x)
BY DEF Good, Starting, in_state_machine, Base, Loose

(* A change that only a sub-state machine sees leaves its step pending.    *)
LEMMA MinorBusy ==
  ASSUME NEW m, NEW d, Minor(m, d), NEW x, Busy(m, x), d.net = m.net, d.pos = m.pos
  PROVE  Busy(d, x)
<1>1. /\ d.state = m.state /\ d.cmd = m.cmd /\ d.delayed = m.delayed /\ d.timers = m.timers
      /\ d.low = m.low /\ d.high = m.high /\ d.run = m.run
  BY DEF Minor
<1>2. Has(m, x) => Has(d, x)
  BY <1>1 DEF Has, Sent, Later, Timed, Alone, Balance
<1>3. Active(d) /\ Phase(d) = Phase(m)
  BY MinorBase DEF Busy
<1>4. Detail(d, x)
  BY DetailKept DEF Busy
<1> QED
  BY <1>2, <1>3, <1>4 DEF Busy

(* A step of the registration tells the state of the network.              *)
LEMMA NetworkTells ==
  ASSUME NEW m, Base(m), NEW x, Busy(m, x), Slotted(m, "registration")
  PROVE  /\ Phase(m) = "SETUP_NETWORK" /\ m.state = "IN_SUBSTATE" /\ ~m.keep
         /\ m.net \in {"WAITING", "DISCONNECTING"} =>
              x \in {"start_register", "register_timeout"} /\ m.net = "WAITING" /\ Timed(m, x)
<1>1. In(m, {"SETUP_NETWORK"}) /\ ~m.keep /\ OneCreg(m)
  BY DEF Base, Loose
<1>2. Phase(m) = "SETUP_NETWORK" /\ m.state = "IN_SUBSTATE" /\ m.creg
  BY <1>1 DEF In, Phase, OneCreg
<1>3. x \in {"CREG", "CFUN_1", "disable_COPS", "start_register",
             "retry_COPS", "register_timeout", "retry_registration"}
  BY <1>2 DEF Busy, Belongs
<1>4. m.net \in {"WAITING", "DISCONNECTING"} =>
        x \in {"start_register", "register_timeout"} /\ m.net = "WAITING"
  BY <1>2, <1>3 DEF Busy, Detail, CregTimers
<1>5. x \in {"start_register", "register_timeout"} => Timed(m, x)
  BY DEF Busy, Has, Commands
<1> QED
  BY <1>1, <1>2, <1>4, <1>5

(* +CREG while the modem registers.                                        *)
LEMMA RegistrationUrcGood ==
  ASSUME NEW m, Good(m), m.run = "poll", Slotted(m, "registration"), NEW val
  PROVE  Good(registration_urc_pCREG_handler(m, val))
<1>1. Base(m) /\ Loose(m) /\ m \in ModemRecords /\ (Idle(m) \/ \E x \in Steps : Busy(m, x))
  BY PollGood
<1>2. ~Idle(m)
  BY <1>1 DEF Idle, Loose, In
<1>3. PICK x \in Steps : Busy(m, x)
  BY <1>1, <1>2
<1>4. /\ Phase(m) = "SETUP_NETWORK" /\ m.state = "IN_SUBSTATE" /\ ~m.keep
      /\ m.net \in {"WAITING", "DISCONNECTING"} =>
           x \in {"start_register", "register_timeout"} /\ m.net = "WAITING" /\ Timed(m, x)
  BY <1>1, <1>3, NetworkTells
<1>5. DEBUGASSERT(m, m.state = "IN_SUBSTATE", "+CREG outside the sub-state") = m
  BY <1>4 DEF DEBUGASSERT, assert
<1>6. {"start_register", "register_timeout", "retry_registration"} = CregTimers
  BY DEF CregTimers
<1>7. CASE m.net \in {"WAITING", "DISCONNECTING"} /\ val = "home"
  <2>1. Quits(m)
    BY <1>4, <1>6, <1>7 DEF Quits, In, Phase
  <2>2. Good(network_registration_successed(m))
    BY <1>1, <1>4, <2>1, SuccessGood
  <2> QED
    BY <1>5, <1>7, <2>2 DEF registration_urc_pCREG_handler
<1>8. CASE m.net = "RETRYING" /\ val = "home"
  <2>1. PICK d : d = [m EXCEPT !.got = TRUE]
    OBVIOUS
  <2>2. Minor(m, d)
    BY <1>1, <2>1, Literals, MinorFields
  <2>3. d.net = m.net /\ d.pos = m.pos
    BY <1>1, <2>1 DEF ModemRecords
  <2>4. Busy(d, x)
    BY <1>3, <2>2, <2>3, MinorBusy
  <2>5. Base(d) /\ d.run = m.run
    BY <1>1, <2>2, MinorBase DEF Minor
  <2>6. Good(d)
    BY <2>4, <2>5 DEF Good
  <2> QED
    BY <1>5, <1>8, <2>1, <2>6 DEF registration_urc_pCREG_handler
<1>9. CASE m.net = "WAITING" /\ val = "idle"
  <2>1. PICK t : t = remove_creg_timer(m)
    OBVIOUS
  <2>2. Timed(m, x) /\ x \in CregTimers
    BY <1>4, <1>6, <1>9
  <2>3. Same(m, t) /\ Nothing(t, 0, 0)
    BY <1>1, <2>1, <2>2, CregTimerOut
  <2>4. Ready(t) /\ Phase(t) = "SETUP_NETWORK"
    BY <1>1, <1>3, <1>4, <2>3, SameReady DEF Busy
  <2>5. Slotted(t, "registration") /\ ~t.keep /\ t \in ModemRecords
    BY <1>4, <2>3 DEF Same, Slotted
  <2>6. PICK d : d = [t EXCEPT !.net = "RETRYING", !.got = FALSE]
    OBVIOUS
  <2>7. "RETRYING" \in NetworkStates /\ "retry_registration" \in CregTimers
    BY DEF NetworkStates, CregTimers
  <2>8. Minor(t, d)
    BY <2>5, <2>6, <2>7, Literals, MinorSets
  <2>9. d.net = "RETRYING"
    BY <2>5, <2>6 DEF ModemRecords
  <2>10. Ready(d) /\ Phase(d) = "SETUP_NETWORK" /\ Slotted(d, "registration") /\ ~d.keep
    BY <2>4, <2>5, <2>8, NetworkState
  <2>11. Detail(d, "retry_registration") /\ Belongs("retry_registration", Phase(d))
         /\ "retry_registration" \in StepTimers
    BY <2>7, <2>9, <2>10, NetworkSteps
  <2>12. Good(set_creg_timer(d, "retry_registration"))
    BY <2>7, <2>10, <2>11, TimerGood
  <2> QED
    BY <1>5, <1>9, <2>1, <2>6, <2>12 DEF registration_urc_pCREG_handler
<1>10. CASE /\ ~(m.net \in {"WAITING", "DISCONNECTING"} /\ val = "home")
            /\ ~(m.net = "RETRYING" /\ val = "home")
            /\ ~(m.net = "WAITING" /\ val = "idle")
  BY <1>5, <1>10 DEF registration_urc_pCREG_handler
<1> QED
  BY <1>7, <1>8, <1>9, <1>10

(* d is m with more tasks and, when it waits, the wake timer.              *)
Gains(m, d) ==
  /\ d \in ModemRecords
  /\ d.state = m.state /\ d.level = m.level /\ d.target = m.target /\ d.inter = m.inter
  /\ d.force = m.force /\ d.cmd = m.cmd /\ d.delayed = m.delayed /\ d.urc = m.urc
  /\ d.creg = m.creg /\ d.uupsdd = m.uupsdd /\ d.keep = m.keep
  /\ d.cleanup = m.cleanup /\ d.off = m.off /\ d.vcc_off = m.vcc_off /\ d.run = m.run
  /\ d.ask = m.ask /\ d.sub = m.sub /\ d.low = m.low /\ d.net = m.net /\ d.pos = m.pos
  /\ \A t \in Timers \ {"wake"} : t \in d.timers <=> t \in m.timers
  /\ "wake" \in m.timers => "wake" \in d.timers
  /\ "wake" \in d.timers => "wake" \in m.timers \/ m.state = "WAITING"
  /\ d.high = m.high + Flag("wake" \in d.timers) - Flag("wake" \in m.timers)
  /\ \A k : Queued(m, k) => Queued(d, k)

LEMMA GainsKept ==
  ASSUME NEW m, m \in ModemRecords, m.run = "poll", NEW d, Gains(m, d)
  PROVE  /\ Phase(d) = Phase(m) /\ (\A S : In(d, S) <=> In(m, S))
         /\ (Active(m) => Active(d)) /\ (Loose(m) => Loose(d))
         /\ \A l : Powered(m, l) => Powered(d, l)
         /\ \A u : Slotted(d, u) <=> Slotted(m, u)
         /\ Watched(m) => Watched(d)
         /\ Idle(m) => Idle(d)
         /\ \A x : Busy(m, x) => Busy(d, x)
<1>1. /\ d \in ModemRecords
      /\ d.state = m.state /\ d.level = m.level /\ d.target = m.target /\ d.inter = m.inter
      /\ d.force = m.force /\ d.cmd = m.cmd /\ d.delayed = m.delayed /\ d.urc = m.urc
      /\ d.creg = m.creg /\ d.uupsdd = m.uupsdd /\ d.keep = m.keep
      /\ d.cleanup = m.cleanup /\ d.off = m.off /\ d.vcc_off = m.vcc_off /\ d.run = m.run
      /\ d.ask = m.ask /\ d.sub = m.sub /\ d.low = m.low /\ d.net = m.net /\ d.pos = m.pos
      /\ \A t \in Timers \ {"wake"} : t \in d.timers <=> t \in m.timers
      /\ "wake" \in m.timers => "wake" \in d.timers
      /\ "wake" \in d.timers => "wake" \in m.timers \/ m.state = "WAITING"
      /\ d.high = m.high + Flag("wake" \in d.timers) - Flag("wake" \in m.timers)
      /\ \A k : Queued(m, k) => Queued(d, k)
  BY DEF Gains
<1>2. Phase(d) = Phase(m) /\ (\A S : In(d, S) <=> In(m, S))
  BY <1>1 DEF Phase, In
<1>3. /\ \A u : Slotted(d, u) <=> Slotted(m, u)
      /\ OneCreg(m) <=> OneCreg(d)
  BY <1>1 DEF Slotted, OneCreg
<1>4. Active(m) => Active(d)
  BY <1>1 DEF Active, Works
<1>5. Loose(m) => Loose(d)
  BY <1>1, <1>2, <1>3 DEF Loose
<1>6. \A l : Powered(m, l) => Powered(d, l)
  BY <1>1 DEF Powered
<1>7. "gprs" \in d.timers <=> "gprs" \in m.timers
  BY <1>1 DEF Timers
<1>8. Watched(m) => Watched(d)
  BY <1>1, <1>3, <1>7 DEF Watched
<1>9. \A c, e, t : Alone(m, c, e, t) => Alone(d, c, e, t)
  BY <1>1 DEF Alone, WorkTimers
<1>10. \A lo \in Int, hi \in Int : Balance(m, lo, hi) => Balance(d, lo, hi)
  <2>1. m.high \in Int /\ d.high \in Int
    BY <1>1 DEF ModemRecords
  <2>2. Flag("wake" \in d.timers) \in Int /\ Flag("wake" \in m.timers) \in Int
        /\ Flag(m.run = "wake") = 0
    BY DEF Flag
  <2> QED
    BY <1>1, <1>7, <2>1, <2>2 DEF Balance
<1>11. \A x : Has(m, x) => Has(d, x)
  <2>1. \A b \in BOOLEAN : Flag(b) \in Int
    BY DEF Flag
  <2>2. \A c : Sent(m, c) => Sent(d, c)
    <3>1. \A c : Flag(LowActivity(c)) \in Int /\ Flag(~LowActivity(c)) \in Int
      BY DEF Flag
    <3> QED
      BY <1>9, <1>10, <3>1 DEF Sent
  <2>3. \A c : Later(m, c) => Later(d, c)
    BY <1>9, <1>10, Literals DEF Later
  <2>4. \A t : Timed(m, t) => Timed(d, t)
    <3>1. \A t : Flag(t \in CregTimers) \in Int /\ Flag(t \in HighTimers) \in Int
      BY DEF Flag
    <3> QED
      BY <1>9, <1>10, <3>1 DEF Timed
  <2> QED
    BY <2>2, <2>3, <2>4 DEF Has
<1>12. Idle(m) => Idle(d)
  <2>1. Nothing(m, 0, 0) => Nothing(d, 0, 0)
    BY <1>9, <1>10, Literals DEF Nothing
  <2> QED
    BY <1>1, <2>1 DEF Idle
<1>13. ASSUME NEW x, Detail(m, x)
       PROVE  Detail(d, x)
  BY <1>1, <1>2, <1>3, <1>13 DEF Detail
<1>14. \A x : Busy(m, x) => Busy(d, x)
  BY <1>2, <1>4, <1>11, <1>13 DEF Busy
<1> QED
  BY <1>2, <1>3, <1>4, <1>5, <1>6, <1>8, <1>12, <1>14

(* More to do leaves a polling modem as it should be.                      *)
LEMMA GainsBase ==
  ASSUME NEW m, Base(m), m.run = "poll", NEW d, Gains(m, d)
  PROVE  Base(d)
<1>1. Loose(m) /\ m \in ModemRecords
  BY DEF Base, Loose
<1>2. /\ Phase(d) = Phase(m) /\ (\A S : In(d, S) <=> In(m, S)) /\ Loose(d)
      /\ \A l : Powered(m, l) => Powered(d, l)
      /\ \A u : Slotted(d, u) <=> Slotted(m, u)
      /\ Watched(m) => Watched(d)
  BY <1>1, GainsKept
<1>3. /\ d.state = m.state /\ d.level = m.level /\ d.target = m.target /\ d.run = m.run
      /\ d.creg = m.creg /\ d.uupsdd = m.uupsdd
      /\ "gprs" \in d.timers <=> "gprs" \in m.timers
  BY DEF Gains, Timers
<1>4. Attended(m) => Attended(d)
  BY <1>2, <1>3 DEF Attended
<1> QED
  BY <1>1, <1>2, <1>3, <1>4 DEF Base

LEMMA GainsGood ==
  ASSUME NEW m, Good(m), m.run = "poll", NEW d, Gains(m, d)
  PROVE  Good(d)
<1>1. Base(m) /\ Loose(m) /\ m \in ModemRecords /\ (Idle(m) \/ \E x \in Steps : Busy(m, x))
  BY PollGood
<1>2. Idle(d) \/ \E x \in Steps : Busy(d, x)
  BY <1>1, GainsKept
<1>3. Base(d) /\ d.run = m.run
  BY <1>1, GainsBase DEF Gains
<1> QED
  BY <1>2, <1>3 DEF Good

(* A wake of a polling modem.                                              *)
LEMMA WakeGains ==
  ASSUME NEW m \in ModemRecords, m.run = "poll"
  PROVE  Gains(m, wake_waiting_state(m, FALSE))
<1>1. PICK d : d = wake_waiting_state(m, FALSE)
  OBVIOUS
<1>2. CASE m.state = "WAITING"
  <2>1. /\ d \in ModemRecords
        /\ d.state = m.state /\ d.level = m.level /\ d.target = m.target /\ d.inter = m.inter
        /\ d.force = m.force /\ d.cmd = m.cmd /\ d.delayed = m.delayed /\ d.urc = m.urc
        /\ d.creg = m.creg /\ d.uupsdd = m.uupsdd /\ d.tasks = m.tasks /\ d.keep = m.keep
        /\ d.cleanup = m.cleanup /\ d.off = m.off /\ d.vcc_off = m.vcc_off /\ d.run = m.run
        /\ d.ask = m.ask /\ d.sub = m.sub /\ d.low = m.low
        /\ \A t \in Timers \ {"wake"} : t \in d.timers <=> t \in m.timers
        /\ "wake" \in d.timers
        /\ d.high = m.high + Flag("wake" \in d.timers) - Flag("wake" \in m.timers)
    BY <1>1, <1>2, WakeFields
  <2>2. d.net = m.net /\ d.pos = m.pos
    BY <1>1 DEF wake_waiting_state, set_high_timer, pm_high, set_timer, assert, ModemRecords
  <2>3. \A k : Queued(m, k) => Queued(d, k)
    BY <2>1 DEF Queued
  <2> QED
    BY <1>1, <1>2, <2>1, <2>2, <2>3 DEF Gains
<1>3. CASE m.state # "WAITING"
  <2>1. d = m
    BY <1>1, <1>3 DEF wake_waiting_state
  <2>2. m.high \in Int
    BY DEF ModemRecords
  <2>3. m.high = m.high + Flag("wake" \in m.timers) - Flag("wake" \in m.timers)
    BY <2>2 DEF Flag
  <2> QED
    BY <1>1, <2>1, <2>3 DEF Gains
<1> QED
  BY <1>2, <1>3

LEMMA GainsTrans ==
  ASSUME NEW m \in ModemRecords, NEW d \in ModemRecords, NEW e, Gains(m, d), Gains(d, e)
  PROVE  Gains(m, e)
<1>1. e.high = m.high + Flag("wake" \in e.timers) - Flag("wake" \in m.timers)
  <2>1. m.high \in Int /\ d.high \in Int
    BY DEF ModemRecords
  <2>2. Flag("wake" \in d.timers) \in Int /\ Flag("wake" \in m.timers) \in Int
        /\ Flag("wake" \in e.timers) \in Int
    BY DEF Flag
  <2>3. /\ e.high = d.high + Flag("wake" \in e.timers) - Flag("wake" \in d.timers)
        /\ d.high = m.high + Flag("wake" \in d.timers) - Flag("wake" \in m.timers)
    BY DEF Gains
  <2> QED
    BY <2>1, <2>2, <2>3
<1>2. /\ "wake" \in m.timers => "wake" \in e.timers
      /\ "wake" \in e.timers => "wake" \in m.timers \/ m.state = "WAITING"
      /\ \A t \in Timers \ {"wake"} : t \in e.timers <=> t \in m.timers
      /\ \A k : Queued(m, k) => Queued(e, k)
  BY DEF Gains
<1> QED
  BY <1>1, <1>2 DEF Gains

(* A task is queued.                                                       *)
LEMMA AddTaskGains ==
  ASSUME NEW m \in ModemRecords, m.run = "poll", NEW k \in TaskKinds
  PROVE  Gains(m, add_task(m, k)) /\ Queued(add_task(m, k), k)
<1>1. PICK a : a = [m EXCEPT !.tasks = Append(m.tasks, k)]
  OBVIOUS
<1>2. m.tasks \in Seq(TaskKinds)
  BY DEF ModemRecords
<1>3. Append(m.tasks, k) \in Seq(TaskKinds)
  BY <1>2
<1>4. a \in ModemRecords
  BY <1>1, <1>3, ZenonT(60) DEF ModemRecords
<1>5. /\ a.state = m.state /\ a.level = m.level /\ a.target = m.target /\ a.inter = m.inter
      /\ a.force = m.force /\ a.cmd = m.cmd /\ a.delayed = m.delayed /\ a.urc = m.urc
      /\ a.creg = m.creg /\ a.uupsdd = m.uupsdd /\ a.keep = m.keep
      /\ a.cleanup = m.cleanup /\ a.off = m.off /\ a.vcc_off = m.vcc_off /\ a.run = m.run
      /\ a.ask = m.ask /\ a.sub = m.sub /\ a.low = m.low /\ a.net = m.net /\ a.pos = m.pos
      /\ a.timers = m.timers /\ a.high = m.high /\ a.tasks = Append(m.tasks, k)
  BY <1>1 DEF ModemRecords
<1>6. (\A j : Queued(m, j) => Queued(a, j)) /\ Queued(a, k)
  <2>1. /\ \A i \in DOMAIN m.tasks : i \in DOMAIN a.tasks /\ a.tasks[i] = m.tasks[i]
        /\ \E i \in DOMAIN a.tasks : a.tasks[i] = k
    <3>1. Len(m.tasks) \in Nat /\ Len(a.tasks) = Len(m.tasks) + 1
      BY <1>2, <1>5
    <3>2. DOMAIN m.tasks = 1 .. Len(m.tasks) /\ DOMAIN a.tasks = 1 .. Len(a.tasks)
      BY <1>2, <1>3, <1>5
    <3>3. \A i \in 1 .. Len(m.tasks) : a.tasks[i] = m.tasks[i]
      BY <1>2, <1>5
    <3>4. a.tasks[Len(m.tasks) + 1] = k
      BY <1>2, <1>5
    <3>5. Len(m.tasks) + 1 \in DOMAIN a.tasks
      BY <3>1, <3>2
    <3>6. \A i \in 1 .. Len(m.tasks) : i \in 1 .. Len(a.tasks)
      BY <3>1
    <3> QED
      BY <3>2, <3>3, <3>4, <3>5, <3>6
  <2> QED
    BY <2>1 DEF Queued
<1>7. Gains(m, a)
  <2>1. m.high \in Int
    BY DEF ModemRecords
  <2>2. m.high = m.high + Flag("wake" \in m.timers) - Flag("wake" \in m.timers)
    BY <2>1 DEF Flag
  <2> QED
    BY <1>4, <1>5, <1>6, <2>2 DEF Gains
<1>8. Gains(a, wake_waiting_state(a, FALSE))
  BY <1>4, <1>5, WakeGains
<1>9. add_task(m, k) = wake_waiting_state(a, FALSE)
  BY <1>1 DEF add_task
<1>10. Queued(add_task(m, k), k)
  BY <1>6, <1>8, <1>9 DEF Gains
<1> QED
  BY <1>4, <1>7, <1>8, <1>9, <1>10, GainsTrans

(* The modem says that it has lost the network: the monitor leaves its     *)
(* slot, and the task that starts over is queued.                          *)
LEMMA MonitorUrcGood ==
  ASSUME NEW m, Good(m), m.run = "poll", Slotted(m, "monitor"), NEW val
  PROVE  Good(monitor_urc_pCREG_handler(m, val))
<1>1. Base(m) /\ Loose(m) /\ m \in ModemRecords /\ (Idle(m) \/ \E x \in Steps : Busy(m, x))
  BY PollGood
<1>2. OneCreg(m) /\ m.creg
  BY <1>1 DEF Loose, OneCreg
<1>3. ~Slotted(m, "registration")
  BY <1>2 DEF OneCreg, Slotted
<1>4. ASSUME NEW x \in Steps, Busy(m, x)
      PROVE  /\ Phase(m) # "SETUP_NETWORK"
             /\ x \notin CregTimers \cup {"CREG", "CFUN_1", "disable_COPS", "retry_COPS"}
  <2>1. x \notin CregTimers \cup {"CREG", "CFUN_1", "disable_COPS", "retry_COPS"}
    BY <1>2, <1>3, <1>4 DEF Busy, Detail, CregTimers
  <2>2. Phase(m) # "SETUP_NETWORK"
    BY <1>4, <2>1 DEF Busy, Belongs, CregTimers
  <2> QED
    BY <2>1, <2>2
<1>5. m.timers \cap CregTimers = {} /\ m.cmd # "CREG"
  <2>1. CASE Idle(m)
    BY <2>1 DEF Idle, Nothing, Alone, WorkTimers, Timers, CregTimers
  <2>2. CASE \E x \in Steps : Busy(m, x)
    <3>1. PICK x \in Steps : Busy(m, x)
      BY <2>2
    <3>2. x \notin CregTimers \cup {"CREG"}
      BY <1>4, <3>1
    <3>3. CregTimers \subseteq WorkTimers /\ "cmd" \notin CregTimers /\ "delay" \notin CregTimers
      BY DEF CregTimers, WorkTimers, Timers
    <3> QED
      BY <3>1, <3>2, <3>3 DEF Busy, Has, Sent, Later, Timed, Alone
  <2> QED
    BY <1>1, <2>1, <2>2
<1>6. remove_creg_timer(m) = m
  BY <1>5 DEF remove_creg_timer
<1>7. PICK u : u = unregister_creg(m)
  OBVIOUS
<1>8. /\ Still(m, u) /\ ~u.creg /\ u.uupsdd = m.uupsdd
      /\ ~Slotted(u, "registration") /\ ~Slotted(u, "monitor") /\ OneCreg(u)
      /\ \A j \in Slots : u.urc[j] = "UUPSDD" <=> m.urc[j] = "UUPSDD"
  BY <1>1, <1>2, <1>5, <1>7, CregOut
<1>9. /\ u \in ModemRecords /\ u.run = "poll" /\ u.state = m.state /\ u.level = m.level
      /\ u.target = m.target /\ u.inter = m.inter /\ u.timers = m.timers /\ u.net = m.net
      /\ u.pos = m.pos /\ u.keep = m.keep /\ u.vcc_off = m.vcc_off
  BY <1>8 DEF Still
<1>10. /\ Phase(u) = Phase(m) /\ (\A S : In(u, S) <=> In(m, S))
       /\ \A x : Has(m, x) => Has(u, x)
       /\ Nothing(m, 0, 0) => Nothing(u, 0, 0)
       /\ Active(m) => Active(u)
       /\ \A k : Queued(u, k) <=> Queued(m, k)
  BY <1>8, StillPending
<1>11. Loose(u) /\ \A l : Powered(m, l) => Powered(u, l)
  BY <1>1, <1>8, StillKept, KeptPhase
<1>12. Idle(u) \/ \E x \in Steps : Busy(u, x)
  <2>1. Idle(m) => Idle(u)
    BY <1>9, <1>10 DEF Idle
  <2>2. ASSUME NEW x \in Steps, Busy(m, x)
        PROVE  Busy(u, x)
    <3>1. x \notin CregTimers \cup {"CREG", "CFUN_1", "disable_COPS", "retry_COPS"}
      BY <1>4, <2>2
    <3>2. Detail(u, x)
      BY <1>8, <1>9, <1>10, <2>2, <3>1 DEF Busy, Detail, CregTimers
    <3> QED
      BY <1>10, <2>2, <3>2 DEF Busy
  <2> QED
    BY <1>1, <2>1, <2>2
<1>13. PICK d : d = add_task(u, "retry_sim")
  OBVIOUS
<1>14. Gains(u, d) /\ Queued(d, "retry_sim")
  <2>1. "retry_sim" \in TaskKinds
    BY DEF TaskKinds
  <2> QED
    BY <1>9, <1>13, <2>1, AddTaskGains
<1>15. /\ Phase(d) = Phase(u) /\ (\A S : In(d, S) <=> In(u, S)) /\ Loose(d)
       /\ \A l : Powered(u, l) => Powered(d, l)
       /\ \A s : Slotted(d, s) <=> Slotted(u, s)
       /\ Idle(d) \/ \E x \in Steps : Busy(d, x)
  BY <1>9, <1>11, <1>12, <1>14, GainsKept
<1>16. /\ d.state = u.state /\ d.level = u.level /\ d.target = u.target /\ d.run = u.run
       /\ d.creg = u.creg /\ d.uupsdd = u.uupsdd
       /\ "gprs" \in d.timers <=> "gprs" \in u.timers
  BY <1>14 DEF Gains, Timers
<1>17. Attended(d)
  BY <1>14 DEF Watched, Attended
<1>18. Base(d)
  <2>1. Powered(d, d.level) /\ LevelFits(Phase(d), d.level)
    BY <1>1, <1>9, <1>10, <1>11, <1>15, <1>16 DEF Base
  <2> QED
    BY <1>15, <1>17, <2>1 DEF Base
<1>19. Good(d)
  BY <1>9, <1>15, <1>16, <1>18 DEF Good
<1> QED
  BY <1>6, <1>7, <1>13, <1>19 DEF monitor_urc_pCREG_handler

(* d is m but for the watch of the PDP context and its activity.           *)
Tuned(m, d) ==
  /\ Kept(m, d) /\ d.creg = m.creg
  /\ \A j \in Slots : \A u \in {"registration", "monitor"} : d.urc[j] = u <=> m.urc[j] = u
  /\ \A t \in Timers \ {"gprs"} : t \in d.timers <=> t \in m.timers
  /\ d.low = m.low + Flag("gprs" \in d.timers) - Flag("gprs" \in m.timers)
  /\ d.high = m.high

LEMMA TunedKept ==
  ASSUME NEW m \in ModemRecords, m.run = "poll", NEW d, Tuned(m, d)
  PROVE  /\ Loose(m) => Loose(d)
         /\ Watched(m) => Watched(d)
         /\ Idle(m) => Idle(d)
         /\ \A x : Busy(m, x) => Busy(d, x)
<1>1. /\ Kept(m, d) /\ d.creg = m.creg
      /\ \A j \in Slots : \A u \in {"registration", "monitor"} : d.urc[j] = u <=> m.urc[j] = u
      /\ \A t \in Timers \ {"gprs"} : t \in d.timers <=> t \in m.timers
      /\ d.low = m.low + Flag("gprs" \in d.timers) - Flag("gprs" \in m.timers)
      /\ d.high = m.high
  BY DEF Tuned
<1>2. /\ d \in ModemRecords /\ d.state = m.state /\ d.level = m.level /\ d.inter = m.inter
      /\ d.run = m.run /\ d.cmd = m.cmd /\ d.delayed = m.delayed /\ d.net = m.net
      /\ d.pos = m.pos /\ d.vcc_off = m.vcc_off /\ d.keep = m.keep
  BY <1>1 DEF Kept
<1>3. /\ Slotted(d, "registration") <=> Slotted(m, "registration")
      /\ Slotted(d, "monitor") <=> Slotted(m, "monitor")
      /\ OneCreg(m) => OneCreg(d)
  BY <1>1, SameSlots
<1>4. /\ Phase(d) = Phase(m) /\ (\A S : In(d, S) <=> In(m, S))
      /\ Active(m) => Active(d)
      /\ \A k : Queued(d, k) <=> Queued(m, k)
      /\ Loose(m) /\ OneCreg(d) => Loose(d)
  BY <1>1, <1>3, KeptPhase
<1>5. Loose(m) => Loose(d)
  BY <1>3, <1>4 DEF Loose
<1>6. Watched(m) => Watched(d)
  BY <1>2, <1>3, <1>4 DEF Watched
<1>7. \A c, e, t : Alone(m, c, e, t) => Alone(d, c, e, t)
  BY <1>1, <1>2 DEF Alone, WorkTimers
<1>8. \A lo \in Int, hi \in Int : Balance(m, lo, hi) => Balance(d, lo, hi)
  <2>1. m.low \in Int /\ d.low \in Int
    BY <1>2 DEF ModemRecords
  <2>2. Flag("gprs" \in d.timers) \in Int /\ Flag("gprs" \in m.timers) \in Int
        /\ Flag(m.state # "WAITING") \in Int
    BY DEF Flag
  <2>3. "wake" \in d.timers <=> "wake" \in m.timers
    BY <1>1 DEF Timers
  <2> QED
    BY <1>1, <1>2, <2>1, <2>2, <2>3 DEF Balance
<1>9. \A x : Has(m, x) => Has(d, x)
  <2>1. \A c : Sent(m, c) => Sent(d, c)
    <3>1. \A c : Flag(LowActivity(c)) \in Int /\ Flag(~LowActivity(c)) \in Int
      BY DEF Flag
    <3> QED
      BY <1>7, <1>8, <3>1 DEF Sent
  <2>2. \A c : Later(m, c) => Later(d, c)
    BY <1>7, <1>8, Literals DEF Later
  <2>3. \A t : Timed(m, t) => Timed(d, t)
    <3>1. \A t : Flag(t \in CregTimers) \in Int /\ Flag(t \in HighTimers) \in Int
      BY DEF Flag
    <3> QED
      BY <1>7, <1>8, <3>1 DEF Timed
  <2> QED
    BY <2>1, <2>2, <2>3 DEF Has
<1>10. Idle(m) => Idle(d)
  <2>1. Nothing(m, 0, 0) => Nothing(d, 0, 0)
    BY <1>7, <1>8, Literals DEF Nothing
  <2> QED
    BY <1>2, <2>1 DEF Idle
<1>11. ASSUME NEW x, Busy(m, x)
       PROVE  Busy(d, x)
  <2>1. Detail(d, x)
    BY <1>1, <1>2, <1>3, <1>4, <1>11 DEF Busy, Detail
  <2> QED
    BY <1>4, <1>9, <1>11, <2>1 DEF Busy
<1> QED
  BY <1>5, <1>6, <1>10, <1>11

LEMMA TunedBase ==
  ASSUME NEW m, Base(m), m.run = "poll", NEW d, Tuned(m, d)
  PROVE  Base(d)
<1>1. m \in ModemRecords /\ Loose(m) /\ Kept(m, d)
  BY DEF Base, Loose, Tuned
<1>2. Loose(d) /\ (Watched(m) => Watched(d))
  BY <1>1, TunedKept
<1>3. /\ Phase(d) = Phase(m) /\ (\A S : In(d, S) <=> In(m, S))
      /\ \A l : Powered(m, l) => Powered(d, l)
  BY <1>1, KeptPhase
<1>4. d.level = m.level
  BY <1>1 DEF Kept
<1>5. Attended(d)
  BY <1>2, <1>3, <1>4 DEF Base, Attended
<1> QED
  BY <1>2, <1>3, <1>4, <1>5 DEF Base

(* The PDP context is lost.                                                *)
LEMMA UupsddUrcGood ==
  ASSUME NEW m, Good(m), m.run = "poll", Slotted(m, "UUPSDD")
  PROVE  Good(urc_pUUPSDD_handler(m))
<1>1. Base(m) /\ Loose(m) /\ m \in ModemRecords /\ (Idle(m) \/ \E x \in Steps : Busy(m, x))
  BY PollGood
<1>2. PICK u : u = unregister_uupsdd(m)
  OBVIOUS
<1>3. /\ Still(m, u) /\ ~u.uupsdd /\ u.creg = m.creg
      /\ \A j \in Slots : \A s \in {"registration", "monitor"} : u.urc[j] = s <=> m.urc[j] = s
  BY <1>1, <1>2, UupsddOut
<1>4. u \in ModemRecords /\ u.timers = m.timers /\ u.low = m.low /\ u.high = m.high
  BY <1>3 DEF Still
<1>5. PICK g : g = remove_gprs_timer(u)
  OBVIOUS
<1>6. /\ Kept(u, g) /\ g.urc = u.urc /\ g.creg = u.creg /\ g.uupsdd = u.uupsdd
      /\ g.timers = u.timers \ {"gprs"} /\ g.high = u.high
      /\ g.low = u.low - Flag("gprs" \in u.timers)
  BY <1>4, <1>5, GprsTimerOut
<1>7. g \in ModemRecords /\ "gprs" \in Timers /\ "gprs" \notin g.timers
  BY <1>6 DEF Kept, Timers
<1>8. PICK s : s = set_timer(g, "gprs")
  OBVIOUS
<1>9. s = [g EXCEPT !.timers = g.timers \cup {"gprs"}] /\ s \in ModemRecords
  BY <1>7, <1>8, SetFresh
<1>10. PICK d : d = pm_low(s, 1)
  OBVIOUS
<1>11. /\ d \in ModemRecords
       /\ d.state = g.state /\ d.level = g.level /\ d.target = g.target /\ d.inter = g.inter
       /\ d.force = g.force /\ d.cmd = g.cmd /\ d.delayed = g.delayed
       /\ d.tasks = g.tasks /\ d.keep = g.keep /\ d.cleanup = g.cleanup /\ d.off = g.off
       /\ d.vcc_off = g.vcc_off /\ d.run = g.run /\ d.ask = g.ask /\ d.sub = g.sub
       /\ d.net = g.net /\ d.pos = g.pos /\ d.urc = g.urc /\ d.creg = g.creg
       /\ d.uupsdd = g.uupsdd /\ d.timers = g.timers \cup {"gprs"} /\ d.high = g.high
       /\ d.low = g.low + 1
  <2>1. Same(s, d) /\ d.low = s.low + 1 /\ d.high = s.high /\ d.cmd = s.cmd
        /\ d.delayed = s.delayed /\ d.timers = s.timers
    BY <1>9, <1>10, Literals, CountsSame
  <2>2. /\ s.state = g.state /\ s.level = g.level /\ s.target = g.target /\ s.inter = g.inter
        /\ s.force = g.force /\ s.cmd = g.cmd /\ s.delayed = g.delayed
        /\ s.tasks = g.tasks /\ s.keep = g.keep /\ s.cleanup = g.cleanup /\ s.off = g.off
        /\ s.vcc_off = g.vcc_off /\ s.run = g.run /\ s.ask = g.ask /\ s.sub = g.sub
        /\ s.net = g.net /\ s.pos = g.pos /\ s.urc = g.urc /\ s.creg = g.creg
        /\ s.uupsdd = g.uupsdd /\ s.timers = g.timers \cup {"gprs"} /\ s.high = g.high
        /\ s.low = g.low
    BY <1>7, <1>9 DEF ModemRecords
  <2> QED
    BY <2>1, <2>2 DEF Same
<1>12. Tuned(m, d)
  <2>1. Kept(m, g)
    BY <1>3, <1>6, StillKept, KeptTrans
  <2>2. d.timers = m.timers \cup {"gprs"}
    BY <1>4, <1>6, <1>11
  <2>3. Kept(m, d)
    BY <1>11, <2>1, <2>2 DEF Kept
  <2>4. d.low = m.low + Flag("gprs" \in d.timers) - Flag("gprs" \in m.timers)
    <3>1. m.low \in Int /\ Flag("gprs" \in m.timers) \in Int /\ Flag("gprs" \in d.timers) = 1
      BY <1>1, <2>2 DEF ModemRecords, Flag
    <3>2. d.low = (m.low - Flag("gprs" \in m.timers)) + 1
      BY <1>4, <1>6, <1>11
    <3> QED
      BY <3>1, <3>2
  <2> QED
    BY <1>3, <1>4, <1>6, <1>11, <2>2, <2>3, <2>4 DEF Tuned
<1>13. Loose(d) /\ (Watched(m) => Watched(d)) /\ (Idle(m) => Idle(d))
  BY <1>1, <1>12, TunedKept
<1>14. /\ d.state = m.state /\ d.level = m.level /\ d.target = m.target /\ d.run = m.run
       /\ Phase(d) = Phase(m) /\ (\A S : In(d, S) <=> In(m, S))
       /\ \A l : Powered(m, l) => Powered(d, l)
  BY <1>12, KeptPhase DEF Tuned, Kept
<1>15. Base(d)
  BY <1>1, <1>12, TunedBase
<1>16. Idle(d) \/ \E x \in Steps : Busy(d, x)
  BY <1>1, <1>12, TunedKept
<1>17. Good(d)
  BY <1>14, <1>15, <1>16 DEF Good
<1> QED
  BY <1>2, <1>5, <1>8, <1>10, <1>17 DEF urc_pUUPSDD_handler

(* The connection is tried again some time after it was lost.              *)
LEMMA ReattemptGood ==
  ASSUME NEW m, Good(m), m.run = "poll", "gprs" \in m.timers
  PROVE  Good(reattempt_gprs_connection_timer_handler(remove_timer(m, "gprs")))
<1>1. Base(m) /\ Loose(m) /\ m \in ModemRecords /\ (Idle(m) \/ \E x \in Steps : Busy(m, x))
  BY PollGood
<1>2. PICK g : g = remove_gprs_timer(m)
  OBVIOUS
<1>3. /\ Kept(m, g) /\ g.urc = m.urc /\ g.creg = m.creg /\ g.uupsdd = m.uupsdd
      /\ g.timers = m.timers \ {"gprs"} /\ g.high = m.high
      /\ g.low = m.low - Flag("gprs" \in m.timers)
  BY <1>1, <1>2, GprsTimerOut
<1>4. Tuned(m, g)
  <2>1. g.low = m.low + Flag("gprs" \in g.timers) - Flag("gprs" \in m.timers)
    <3>1. m.low \in Int /\ Flag("gprs" \in m.timers) = 1 /\ Flag("gprs" \in g.timers) = 0
      BY <1>1, <1>3 DEF ModemRecords, Flag
    <3> QED
      BY <1>3, <3>1
  <2> QED
    BY <1>3, <2>1 DEF Tuned
<1>5. /\ g \in ModemRecords /\ g.run = "poll" /\ g.level = m.level /\ g.state = m.state
      /\ g.target = m.target
  BY <1>3 DEF Kept
<1>6. /\ Loose(g) /\ (Watched(m) => Watched(g)) /\ (Idle(m) => Idle(g))
      /\ \A x : Busy(m, x) => Busy(g, x)
  BY <1>1, <1>3, <1>4, TunedKept
<1>7. /\ Phase(g) = Phase(m) /\ (\A S : In(g, S) <=> In(m, S))
      /\ \A l : Powered(m, l) => Powered(g, l)
  BY <1>3, KeptPhase
<1>8. g = pm_low(remove_timer(m, "gprs"), -1)
  BY <1>2 DEF remove_gprs_timer
<1>9. m.level \in Int
  BY <1>1, LooseLevels
<1>10. remove_timer(m, "gprs").level = m.level
  BY <1>1 DEF remove_timer, ModemRecords
<1>11. CASE m.level < GPRS
  <2>1. Base(g)
    BY <1>1, <1>4, TunedBase
  <2>2. Good(g)
    BY <1>1, <1>5, <1>6, <2>1 DEF Good
  <2> QED
    BY <1>8, <1>10, <1>11, <2>2 DEF reattempt_gprs_connection_timer_handler
<1>12. CASE ~(m.level < GPRS)
  <2>1. PICK d : d = add_task(g, "reattempt")
    OBVIOUS
  <2>2. Gains(g, d) /\ Queued(d, "reattempt")
    <3>1. "reattempt" \in TaskKinds
      BY DEF TaskKinds
    <3> QED
      BY <1>5, <2>1, <3>1, AddTaskGains
  <2>3. /\ Phase(d) = Phase(g) /\ (\A S : In(d, S) <=> In(g, S)) /\ Loose(d)
        /\ \A l : Powered(g, l) => Powered(d, l)
        /\ Watched(g) => Watched(d)
        /\ Idle(d) \/ \E x \in Steps : Busy(d, x)
    BY <1>1, <1>5, <1>6, <2>2, GainsKept
  <2>4. /\ d.state = m.state /\ d.level = m.level /\ d.target = m.target /\ d.run = "poll"
        /\ d.creg = m.creg /\ d.uupsdd = m.uupsdd /\ "gprs" \notin d.timers
    BY <1>3, <1>5, <2>2 DEF Gains, Timers
  <2>5. Attended(d)
    <3>1. Attended(m)
      BY <1>1 DEF Base
    <3> QED
      BY <1>6, <1>7, <2>3, <2>4, <3>1 DEF Attended
  <2>6. Base(d)
    <3>1. Powered(d, d.level) /\ LevelFits(Phase(d), d.level)
      BY <1>1, <1>7, <2>3, <2>4 DEF Base
    <3> QED
      BY <2>3, <2>5, <3>1 DEF Base
  <2>7. Good(d)
    BY <2>3, <2>4, <2>6 DEF Good
  <2> QED
    BY <1>8, <1>10, <1>12, <2>1, <2>7 DEF reattempt_gprs_connection_timer_handler
<1> QED
  BY <1>11, <1>12

-----------------------------------------------------------------------------
(* The GPRS connection is opened.                                          *)

(* What the handlers end with before the PDP context is active.            *)
OpenEnds(m) ==
  /\ \A c \in {"check_CGATT", "set_CGATT", "UPSND", "deactivate", "UPSD", "activate"} :
       Good(send_cmd(m, c))
  /\ Good(set_high_timer(m, "retry_cgatt")) /\ Good(set_high_timer(m, "set_cgatt"))
  /\ Good(set_timer(m, "retry_upsnd"))
  /\ Good(level_transition_failed(m))

LEMMA OpenReady ==
  ASSUME NEW m, Ready(m), m.run = "poll", Phase(m) = "OPEN_GPRS_CONNECTION"
  PROVE  OpenEnds(m)
<1>1. ASSUME NEW x \in {"check_CGATT", "set_CGATT", "UPSND", "deactivate", "UPSD", "activate",
                        "retry_cgatt", "set_cgatt", "retry_upsnd"}
      PROVE  Detail(m, x)
  BY DEF Detail, CregTimers
<1>2. /\ {"check_CGATT", "set_CGATT", "UPSND", "deactivate", "UPSD", "activate"} \subseteq Commands
      /\ {"retry_cgatt", "set_cgatt", "retry_upsnd"} \subseteq StepTimers
      /\ "retry_cgatt" \in HighTimers /\ "set_cgatt" \in HighTimers
      /\ "retry_upsnd" \notin HighTimers \cup CregTimers
  BY DEF Commands, StepTimers, WorkTimers, Timers, HighTimers, CregTimers
<1>3. \A x \in {"check_CGATT", "set_CGATT", "UPSND", "deactivate", "UPSD", "activate",
                "retry_cgatt", "set_cgatt", "retry_upsnd"} : Belongs(x, Phase(m))
  BY <1>2 DEF Belongs, Steps, Starts
<1>4. \A c \in {"check_CGATT", "set_CGATT", "UPSND", "deactivate", "UPSD", "activate"} :
        Good(send_cmd(m, c))
  BY <1>1, <1>2, <1>3, SendGood
<1>5. Good(set_high_timer(m, "retry_cgatt")) /\ Good(set_high_timer(m, "set_cgatt"))
  BY <1>1, <1>2, <1>3, TimerGood
<1>6. Good(set_timer(m, "retry_upsnd"))
  BY <1>1, <1>2, <1>3, TimerGood
<1>7. Good(level_transition_failed(m))
  <2>1. Base(m) /\ Active(m) /\ m.level = NETWORK
    BY DEF Ready, Base, LevelFits
  <2>2. m.level >= POWERED_ON /\ GPRS # POWERED_OFF
    BY <2>1 DEF NETWORK, POWERED_ON, POWERED_OFF, GPRS
  <2>3. Fits(m, IF m.target = POWERED_OFF THEN STUCK_HARDWARE ELSE m.level)
    BY <2>1, LevelFacts, PhaseFits
  <2> QED
    BY <2>2, <2>3, ReadyEnds
<1> QED
  BY <1>4, <1>5, <1>6, <1>7 DEF OpenEnds

(* And after a handler has counted.                                        *)
LEMMA OpenCounts ==
  ASSUME NEW m, Ready(m), m.run = "poll", Phase(m) = "OPEN_GPRS_CONNECTION"
  PROVE  /\ OpenEnds(m)
         /\ \A p \in Int : OpenEnds([m EXCEPT !.n = p]) /\ OpenEnds([m EXCEPT !.pos = p])
<1>1. m \in ModemRecords
  BY DEF Ready, Base, Loose
<1>2. ASSUME NEW d, Minor(m, d) PROVE OpenEnds(d)
  <2>1. d.run = m.run
    BY <1>2 DEF Minor
  <2> QED
    BY <1>2, <2>1, MinorReady, OpenReady
<1> QED
  BY <1>1, <1>2, MinorFields, OpenReady

LEMMA AttachGood ==
  ASSUME NEW m, Ready(m), m.run = "poll", Phase(m) = "OPEN_GPRS_CONNECTION",
         NEW r
  PROVE  /\ Good(check_CGATT_handler(m, r)) /\ Good(set_CGATT_handler(m, r))
         /\ Good(check_UPSND_handler(m, r)) /\ Good(deactivate_UPSDA_handler(m, r))
         /\ Good(UPSD_handler(m, r)) /\ Good(retry_upsnd_check(m))
<1>1. /\ OpenEnds(m)
      /\ \A p \in Int : OpenEnds([m EXCEPT !.n = p]) /\ OpenEnds([m EXCEPT !.pos = p])
  BY OpenCounts
<1>2. m.n + 1 \in Int /\ m.n - 1 \in Int /\ m.pos + 1 \in Int /\ MaxTry \in Int
  BY UbmodemAssumption DEF Ready, Base, Loose, ModemRecords
<1>3. /\ OpenEnds([m EXCEPT !.n = m.n + 1]) /\ OpenEnds([m EXCEPT !.n = m.n - 1])
      /\ OpenEnds([m EXCEPT !.pos = m.pos + 1]) /\ OpenEnds([m EXCEPT !.n = MaxTry])
      /\ OpenEnds([m EXCEPT !.n = 0]) /\ OpenEnds([m EXCEPT !.pos = -1])
  BY <1>1, <1>2, Literals
<1>4. Good(start_setup_internal_pdp_context(m)) /\ Good(start_configuring_pdp_context(m))
      /\ Good(send_next_apn_configuration(m))
  BY <1>3 DEF OpenEnds, start_setup_internal_pdp_context, start_configuring_pdp_context,
              send_next_apn_configuration
<1>5. Good(check_CGATT_handler(m, r))
  BY <1>1, <1>3, <1>4 DEF OpenEnds, check_CGATT_handler
<1>6. Good(set_CGATT_handler(m, r))
  BY <1>1, <1>3, <1>4 DEF OpenEnds, set_CGATT_handler
<1>7. Good(check_UPSND_handler(m, r))
  BY <1>1, <1>3, <1>4 DEF OpenEnds, check_UPSND_handler
<1>8. Good(deactivate_UPSDA_handler(m, r)) /\ Good(UPSD_handler(m, r)) /\ Good(retry_upsnd_check(m))
  BY <1>1, <1>4 DEF OpenEnds, deactivate_UPSDA_handler, UPSD_handler, retry_upsnd_check, on_ok
<1> QED
  BY <1>5, <1>6, <1>7, <1>8

(* The timers of the attachment.                                           *)
LEMMA AttachTimerGood ==
  ASSUME NEW m, Base(m), Active(m), Nothing(m, 0, 1), m.run = "poll",
         Phase(m) = "OPEN_GPRS_CONNECTION"
  PROVE  Good(retry_check_cgatt(m)) /\ Good(modem_set_cgatt_retry_timer_handler(m))
<1>1. PICK p : p = pm_high(m, -1)
  OBVIOUS
<1>2. Ready(p) /\ Phase(p) = "OPEN_GPRS_CONNECTION" /\ p.run = "poll"
  BY <1>1, PayReady
<1>3. OpenEnds(p)
  BY <1>2, OpenReady
<1> QED
  BY <1>1, <1>3 DEF OpenEnds, retry_check_cgatt, modem_set_cgatt_retry_timer_handler

(* The watch of the PDP context is put into the table.                     *)
LEMMA UupsddSet ==
  ASSUME NEW m \in ModemRecords, NEW d, d = [m EXCEPT !.uupsdd = TRUE]
  PROVE  Still(m, d) /\ d.urc = m.urc /\ d.uupsdd /\ d.creg = m.creg
<1>1. d \in ModemRecords
  BY ZenonT(60) DEF ModemRecords
<1>2. /\ d.state = m.state /\ d.level = m.level /\ d.target = m.target /\ d.inter = m.inter
      /\ d.force = m.force /\ d.cmd = m.cmd /\ d.delayed = m.delayed /\ d.timers = m.timers
      /\ d.tasks = m.tasks /\ d.keep = m.keep /\ d.cleanup = m.cleanup /\ d.off = m.off
      /\ d.vcc_off = m.vcc_off /\ d.low = m.low /\ d.high = m.high /\ d.run = m.run
      /\ d.ask = m.ask /\ d.sub = m.sub /\ d.net = m.net /\ d.pos = m.pos /\ d.work = m.work
  BY DEF ModemRecords
<1>3. d.urc = m.urc /\ d.uupsdd /\ d.creg = m.creg
  BY DEF ModemRecords
<1> QED
  BY <1>1, <1>2, <1>3 DEF Still

LEMMA PdpReady ==
  ASSUME NEW m, Ready(m), Phase(m) = "OPEN_GPRS_CONNECTION",
         NEW v, v = [register_urc(m, "UUPSDD") EXCEPT !.uupsdd = TRUE]
  PROVE  \/ Ready(v) /\ Phase(v) = "OPEN_GPRS_CONNECTION" /\ v.uupsdd /\ v.run = m.run
         \/ v \in ModemRecords /\ v.run = "stop" /\ Powered(v, v.level)
<1>1. /\ Base(m) /\ Active(m) /\ Nothing(m, 0, 0) /\ Loose(m) /\ m.level = NETWORK
      /\ m.run = "poll" \/ m.state = "IN_SUBSTATE"
      /\ m \in ModemRecords /\ m.run # "stop" /\ OneCreg(m) /\ Powered(m, m.level)
      /\ LevelFits(Phase(m), m.level)
  BY DEF Ready, Base, LevelFits, Loose
<1>2. m.state = "IN_SUBSTATE" /\ In(m, {"OPEN_GPRS_CONNECTION"}) /\ ~In(m, {"DO_POWER_OFF"})
      /\ ~In(m, {"SETUP_NETWORK"})
  BY <1>1, PhaseIn DEF Works
<1>3. PICK u : u = register_urc(m, "UUPSDD")
  OBVIOUS
<1>4. v = [u EXCEPT !.uupsdd = TRUE]
  BY <1>3
<1>5. CASE /\ \E i \in Slots : /\ m.urc[i] = "none"
                               /\ \A j \in Slots : u.urc[j] = IF j = i THEN "UUPSDD" ELSE m.urc[j]
           /\ Still(m, u) /\ u.creg = m.creg /\ u.uupsdd = m.uupsdd
  <2>1. u \in ModemRecords
    BY <1>5 DEF Still
  <2>2. Still(u, v) /\ v.urc = u.urc /\ v.uupsdd /\ v.creg = u.creg
    BY <1>4, <2>1, UupsddSet
  <2>3. Still(m, v)
    BY <1>5, <2>2, StillTrans
  <2>4. PICK i \in Slots : /\ m.urc[i] = "none"
                           /\ \A j \in Slots : v.urc[j] = IF j = i THEN "UUPSDD" ELSE m.urc[j]
    BY <1>5, <2>2
  <2>5. /\ Slotted(v, "registration") <=> Slotted(m, "registration")
        /\ Slotted(v, "monitor") <=> Slotted(m, "monitor")
        /\ OneCreg(v)
    <3>1. \A j \in Slots : \A s \in {"registration", "monitor"} : u.urc[j] = s <=> m.urc[j] = s
      BY <1>5
    <3>2. /\ Slotted(u, "registration") <=> Slotted(m, "registration")
          /\ Slotted(u, "monitor") <=> Slotted(m, "monitor")
          /\ OneCreg(m) /\ u.creg = m.creg => OneCreg(u)
      BY <3>1, SameSlots
    <3>3. OneCreg(u)
      BY <1>1, <1>5, <3>2
    <3> QED
      BY <2>2, <3>2, <3>3 DEF OneCreg, Slotted
  <2>6. /\ v \in ModemRecords
        /\ v.state = m.state /\ v.level = m.level /\ v.target = m.target /\ v.inter = m.inter
        /\ v.timers = m.timers /\ v.run = m.run
    BY <2>3 DEF Still
  <2>7. /\ Phase(v) = Phase(m) /\ (\A S : In(v, S) <=> In(m, S))
        /\ Active(v) /\ Nothing(v, 0, 0)
        /\ \A k : Queued(v, k) <=> Queued(m, k)
    BY <1>1, <2>3, StillPending
  <2>8. Loose(v) /\ \A l : Powered(m, l) => Powered(v, l)
    <3>1. Kept(m, v)
      BY <2>3, StillKept
    <3>2. Loose(m) /\ OneCreg(v) /\ (Slotted(v, "registration") => Slotted(m, "registration"))
      BY <1>1, <2>5
    <3> QED
      BY <3>1, <3>2, KeptPhase
  <2>9. Attended(v)
    <3>1. Watched(m) => Watched(v)
      BY <2>5, <2>6, <2>7 DEF Watched
    <3> QED
      BY <1>1, <2>6, <2>7, <3>1 DEF Base, Attended
  <2>10. Base(v)
    BY <1>1, <2>6, <2>7, <2>8, <2>9 DEF Base
  <2> QED
    BY <1>1, <2>2, <2>6, <2>7, <2>10 DEF Ready
<1>6. CASE /\ \A i \in Slots : m.urc[i] # "none"
           /\ u \in ModemRecords /\ u.run = "stop" /\ Powered(u, u.level)
  <2>1. Still(u, v)
    BY <1>4, <1>6, UupsddSet
  <2>2. v \in ModemRecords /\ v.run = "stop" /\ Powered(v, v.level)
    BY <1>6, <2>1 DEF Still, Powered
  <2> QED
    BY <2>2
<1>7. "UUPSDD" \in UrcHandlers
  BY DEF UrcHandlers
<1> QED
  BY <1>1, <1>3, <1>5, <1>6, <1>7, PutIn

(* The query of the IP configuration, again and again.                     *)
LEMMA IpconfigSent ==
  ASSUME NEW m, Ready(m), Phase(m) = "OPEN_GPRS_CONNECTION"
  PROVE  Good(send_cmd(m, "ipconfig"))
<1>1. Detail(m, "ipconfig")
  BY DEF Detail, CregTimers
<1>2. "ipconfig" \in Commands
  BY DEF Commands
<1>3. Belongs("ipconfig", Phase(m))
  BY <1>2 DEF Belongs, Steps, Starts
<1> QED
  BY <1>1, <1>2, <1>3, SendGood

LEMMA ActivateGood ==
  ASSUME NEW m, Ready(m), m.run = "poll", Phase(m) = "OPEN_GPRS_CONNECTION",
         NEW r
  PROVE  Good(activate_UPSDA_handler(m, r))
<1>1. Good(level_transition_failed(m))
  BY OpenReady DEF OpenEnds
<1>2. PICK v : v = [register_urc(m, "UUPSDD") EXCEPT !.uupsdd = TRUE]
  OBVIOUS
<1>3. PICK e : e = [register_urc(m, "UUPSDD") EXCEPT !.uupsdd = TRUE, !.pos = 0]
  OBVIOUS
<1>4. e = [v EXCEPT !.pos = 0]
  BY <1>2, <1>3
<1>5. v \in ModemRecords
  BY <1>2, PdpReady DEF Ready, Base, Loose
<1>6. Minor(v, e)
  BY <1>4, <1>5, Literals, MinorFields
<1>7. e.uupsdd = v.uupsdd /\ e.run = v.run /\ e \in ModemRecords
  BY <1>6 DEF Minor
<1>8. Good(send_cmd(e, "ipconfig"))
  <2>1. CASE Ready(v) /\ Phase(v) = "OPEN_GPRS_CONNECTION" /\ v.uupsdd /\ v.run = m.run
    BY <1>6, <1>7, <2>1, MinorReady, IpconfigSent
  <2>2. CASE v \in ModemRecords /\ v.run = "stop" /\ Powered(v, v.level)
    <3>1. "ipconfig" \in Commands /\ Powered(e, e.level)
      BY <1>6, <2>2 DEF Commands, Minor, Powered
    <3> QED
      BY <1>7, <2>2, <3>1, StoppedGood
  <2> QED
    BY <1>2, <2>1, <2>2, PdpReady
<1> QED
  BY <1>1, <1>3, <1>8 DEF activate_UPSDA_handler, on_ok

(* The connection is up.                                                   *)
LEMMA IpconfigGood ==
  ASSUME NEW m, Ready(m), m.run = "poll", Phase(m) = "OPEN_GPRS_CONNECTION",
         NEW r
  PROVE  Good(check_ipconfig_handler(m, r))
<1>1. Base(m) /\ Active(m) /\ m.level = NETWORK /\ m \in ModemRecords
  BY DEF Ready, Base, LevelFits, Loose
<1>2. r # "OK" => Good(level_transition_failed(m))
  <2>1. m.level >= POWERED_ON
    BY <1>1 DEF NETWORK, POWERED_ON
  <2>2. Fits(m, IF m.target = POWERED_OFF THEN STUCK_HARDWARE ELSE m.level)
    BY <1>1, LevelFacts, PhaseFits
  <2> QED
    BY <2>1, <2>2, ReadyEnds
<1>3. ASSUME NEW d, Minor(m, d)
      PROVE  /\ Ready(d) /\ Phase(d) = "OPEN_GPRS_CONNECTION"
             /\ d.run = "poll" /\ d.level = m.level
  <2>1. d.run = m.run /\ d.level = m.level
    BY <1>3 DEF Minor
  <2> QED
    BY <1>3, <2>1, MinorReady
<1>4. Good(send_cmd([m EXCEPT !.pos = m.pos + 1], "ipconfig"))
  <2>1. m.pos + 1 \in Int
    BY <1>1 DEF ModemRecords
  <2>2. Minor(m, [m EXCEPT !.pos = m.pos + 1])
    BY <1>1, <2>1, MinorFields
  <2> QED
    BY <1>3, <2>2, IpconfigSent
<1>5. Good(reached_level([m EXCEPT !.pos = -1, !.sock = TRUE], GPRS))
  <2>1. PICK d : d = [m EXCEPT !.pos = -1, !.sock = TRUE]
    OBVIOUS
  <2>2. Minor(m, d)
    BY <1>1, <2>1, Literals, MinorSets
  <2>3. /\ Ready(d) /\ Phase(d) = "OPEN_GPRS_CONNECTION"
        /\ d.run = "poll" /\ d.level = NETWORK
    BY <1>1, <1>3, <2>2
  <2>4. Base(d) /\ Active(d)
    BY <2>3 DEF Ready
  <2>5. Powered(d, GPRS) /\ GPRS # d.level /\ GPRS \in Levels
    BY <2>3, <2>4, LevelFacts DEF Base, Powered, NETWORK, GPRS, POWERED_OFF, POWERED_ON
  <2>6. Fits(d, GPRS)
    BY <2>3, <2>4, <2>5, PhaseFits
  <2>7. Good(reached_level(d, GPRS))
    BY <2>3, <2>5, <2>6, ReadyEnds
  <2> QED
    BY <2>1, <2>7
<1> QED
  BY <1>2, <1>4, <1>5 DEF check_ipconfig_handler, on_ok

(* The connection is closed, or cannot be.                                 *)
LEMMA CloseGood ==
  ASSUME NEW m, Ready(m), m.run = "poll", Phase(m) = "CLOSE_GPRS_CONNECTION", NEW c, NEW r
  PROVE  Good(disable_CGATT_handler(m, c, r))
<1>1. /\ Base(m) /\ Active(m) /\ m.level = GPRS /\ m \in ModemRecords
  BY DEF Ready, Base, LevelFits, Loose
<1>2. Good(reached_level(m, NETWORK))
  <2>1. Powered(m, NETWORK) /\ NETWORK # m.level /\ NETWORK \in Levels
    BY <1>1, LevelFacts DEF Base, Powered, NETWORK, GPRS, POWERED_OFF, POWERED_ON
  <2>2. Fits(m, NETWORK)
    BY <1>1, <2>1, PhaseFits
  <2> QED
    BY <2>1, <2>2, ReadyEnds
<1>3. PICK t : t = IF c = "abort" THEN [m EXCEPT !.n = m.n + 1] ELSE m
  OBVIOUS
<1>4. Minor(m, t)
  <2>1. m.n + 1 \in Int
    BY <1>1 DEF ModemRecords
  <2> QED
    BY <1>1, <1>3, <2>1, MinorFields, MinorRefl
<1>5. /\ Ready(t) /\ Phase(t) = "CLOSE_GPRS_CONNECTION" /\ t.run = "poll" /\ t.level = GPRS
  BY <1>1, <1>4, MinorReady DEF Minor
<1>6. Good(modem_send_cmd(t, "abort"))
  <2>1. "abort" \in Commands
    BY DEF Commands
  <2>2. Belongs("abort", Phase(t))
    BY <1>5, <2>1 DEF Belongs, Steps, Starts
  <2>3. Detail(t, "abort")
    BY <1>5, DetailEasy DEF CregTimers
  <2> QED
    BY <1>5, <2>1, <2>2, <2>3, SendGood
<1>7. Good(reached_level(network_cleanup(t), STUCK_HARDWARE))
  <2>1. Base(t) /\ Active(t) /\ Nothing(t, 0, 0) /\ Loose(t) /\ t.state # "WAITING"
    BY <1>5, PhaseIn DEF Ready, Base
  <2>2. PICK d : d = network_cleanup(t)
    OBVIOUS
  <2>3. GPRS >= NETWORK /\ STUCK_HARDWARE # GPRS /\ STUCK_HARDWARE \in Levels
        /\ STUCK_HARDWARE < NETWORK /\ STUCK_HARDWARE < GPRS /\ ~(STUCK_HARDWARE >= NETWORK)
    BY LevelFacts DEF GPRS, NETWORK, STUCK_HARDWARE
  <2>4. /\ Kept(t, d) /\ Loose(d) /\ Nothing(d, 0, 0) /\ ~d.creg
        /\ ~d.uupsdd /\ "gprs" \notin d.timers
    BY <1>5, <2>1, <2>2, <2>3, NetworkClean
  <2>5. d.level = GPRS /\ d.state # "WAITING" /\ d.run = "poll"
    BY <1>5, <2>1, <2>4 DEF Kept
  <2>6. Powered(d, STUCK_HARDWARE)
    BY DEF Powered, STUCK_HARDWARE, POWERED_OFF, POWERED_ON
  <2>7. Fits(d, STUCK_HARDWARE)
    BY <2>3 DEF Fits
  <2>8. Good(reached_level(d, STUCK_HARDWARE))
    BY <2>3, <2>4, <2>5, <2>6, <2>7, Reached DEF Quits
  <2> QED
    BY <2>2, <2>8
<1> QED
  BY <1>2, <1>3, <1>6, <1>7 DEF disable_CGATT_handler

-----------------------------------------------------------------------------
(* Tasks and socket work.                                                  *)

(* Work is over, and the modem goes back to waiting.                       *)
LEMMA WorkOver ==
  ASSUME NEW m, Base(m), Active(m), Nothing(m, 0, 0), Phase(m) \in Works
  PROVE  Good(change_state(m, "WAITING"))
<1>1. Loose(m) /\ Powered(m, m.level) /\ m.state # "WAITING" /\ m.state \in Works
  BY PhaseIn DEF Base
<1>2. "wake" \notin m.timers
  BY <1>1 DEF Active
<1>3. Fits(m, m.level)
  BY PhaseFits
<1> QED
  BY <1>1, <1>2, <1>3, WaitGood

(* The answers to the commands of a task and of a socket.                  *)
LEMMA CallbackGood ==
  ASSUME NEW m, Ready(m), Phase(m) \in Works
  PROVE  Good(command_callback(m))
BY WorkOver DEF Ready, command_callback

LEMMA InfoGood ==
  ASSUME NEW m, Ready(m), m.run = "poll", Phase(m) = "DO_TASK_WORK", m.level >= SIM_ENABLED, NEW r
  PROVE  Good(info_handler(m, r)) /\ Good(modem_sim_retry_timer_handler(m))
<1>1. Base(m) /\ Active(m) /\ Nothing(m, 0, 0) /\ Phase(m) \in Works /\ m \in ModemRecords
  BY DEF Ready, Works, Base, Loose
<1>2. m.level \in Int /\ m.level >= POWERED_ON /\ m.level # POWERED_OFF /\ ~(m.level < SIM_ENABLED)
  <2>1. m.level \in Int
    BY <1>1, LooseLevels DEF Base
  <2> QED
    BY <2>1 DEF SIM_ENABLED, POWERED_ON, POWERED_OFF
<1>3. Good(change_state(m, "WAITING"))
  BY <1>1, WorkOver
<1>4. Good(level_transition_failed(m))
  <2>1. STUCK_HARDWARE \in Levels /\ STUCK_HARDWARE < NETWORK
    BY LevelFacts DEF STUCK_HARDWARE, NETWORK
  <2>2. Fits(m, IF m.target = POWERED_OFF THEN STUCK_HARDWARE ELSE m.level)
    BY <1>1, <2>1, PhaseFits
  <2> QED
    BY <1>2, <2>2, ReadyEnds
<1>5. Good(set_timer(m, "info_retry"))
  <2>1. /\ "info_retry" \in StepTimers /\ "info_retry" \notin HighTimers \cup CregTimers
    BY DEF StepTimers, WorkTimers, Timers, HighTimers, CregTimers
  <2>2. Belongs("info_retry", Phase(m))
    BY <2>1 DEF Belongs, Steps, Starts, Works
  <2>3. Detail(m, "info_retry")
    BY DEF Detail, CregTimers
  <2> QED
    BY <2>1, <2>2, <2>3, TimerGood
<1>6. Good(start_read_info([m EXCEPT !.n = m.n + 1]))
  <2>1. PICK d : d = [m EXCEPT !.n = m.n + 1]
    OBVIOUS
  <2>2. m.n + 1 \in Int
    BY <1>1 DEF ModemRecords
  <2>3. Minor(m, d)
    BY <1>1, <2>1, <2>2, MinorFields
  <2>4. Ready(d) /\ Phase(d) = "DO_TASK_WORK" /\ d.level = m.level
    BY <2>3, MinorReady DEF Minor
  <2>5. "info" \in Commands
    BY DEF Commands
  <2>6. Belongs("info", Phase(d)) /\ Detail(d, "info")
    BY <2>4, <2>5 DEF Belongs, Steps, Starts, Works, Detail, CregTimers
  <2>7. Good(send_cmd(d, "info"))
    BY <2>4, <2>5, <2>6, SendGood
  <2> QED
    BY <1>2, <2>1, <2>4, <2>7 DEF start_read_info
<1>7. Good(info_handler(m, r))
  BY <1>3, <1>4, <1>5 DEF info_handler
<1> QED
  BY <1>6, <1>7 DEF modem_sim_retry_timer_handler

LEMMA SocketGood ==
  ASSUME NEW m, Ready(m), m.run = "poll", Phase(m) = "DO_SOCKET_WORK", NEW r
  PROVE  Good(socket_handler(m, r))
<1>1. Base(m) /\ Active(m) /\ Nothing(m, 0, 0) /\ Phase(m) \in Works /\ m \in ModemRecords
      /\ m.state \in Works
  BY PhaseIn DEF Ready, Works, Base, Loose
<1>2. Good(change_state(m, "WAITING"))
  BY <1>1, WorkOver
<1>3. ASSUME NEW k \in {"reinitialize", "recover"}
      PROVE  Good(change_state(add_task(m, k), "WAITING"))
  <2>1. PICK d : d = add_task(m, k)
    OBVIOUS
  <2>2. Gains(m, d)
    <3>1. k \in TaskKinds
      BY DEF TaskKinds
    <3> QED
      BY <1>1, <2>1, <3>1, AddTaskGains
  <2>3. Base(d) /\ Active(d) /\ Phase(d) = Phase(m)
    BY <1>1, <2>2, GainsBase, GainsKept
  <2>4. Nothing(d, 0, 0)
    <3>1. "wake" \in d.timers <=> "wake" \in m.timers
      BY <1>1, <2>2 DEF Gains, Works
    <3>2. \A t \in WorkTimers : t \in d.timers <=> t \in m.timers
      BY <2>2 DEF Gains, WorkTimers
    <3>3. "gprs" \in d.timers <=> "gprs" \in m.timers
      BY <2>2 DEF Gains, Timers
    <3>4. d.high = m.high
      <4>1. m.high \in Int
        BY <1>1 DEF ModemRecords
      <4>2. d.high = m.high + Flag("wake" \in m.timers) - Flag("wake" \in m.timers)
        BY <2>2, <3>1 DEF Gains
      <4> QED
        BY <4>1, <4>2 DEF Flag
    <3>5. d.cmd = m.cmd /\ d.delayed = m.delayed /\ d.low = m.low /\ d.state = m.state
          /\ d.run = m.run
      BY <2>2 DEF Gains
    <3> QED
      BY <1>1, <3>1, <3>2, <3>3, <3>4, <3>5 DEF Nothing, Alone, Balance
  <2>5. Good(change_state(d, "WAITING"))
    BY <1>1, <2>3, <2>4, WorkOver
  <2> QED
    BY <2>1, <2>5
<1> QED
  BY <1>2, <1>3 DEF socket_handler

(* t is m but for the queue.                                               *)
Popped(m, t) ==
  /\ t \in ModemRecords
  /\ t.state = m.state /\ t.level = m.level /\ t.target = m.target /\ t.inter = m.inter
  /\ t.force = m.force /\ t.cmd = m.cmd /\ t.delayed = m.delayed /\ t.timers = m.timers
  /\ t.urc = m.urc /\ t.creg = m.creg /\ t.uupsdd = m.uupsdd
  /\ t.keep = m.keep /\ t.cleanup = m.cleanup /\ t.off = m.off /\ t.vcc_off = m.vcc_off
  /\ t.low = m.low /\ t.high = m.high /\ t.run = m.run /\ t.ask = m.ask /\ t.sub = m.sub

LEMMA PopFields ==
  ASSUME NEW m \in ModemRecords, m.tasks # << >>,
         NEW t, t = [m EXCEPT !.tasks = Tail(m.tasks)]
  PROVE  /\ Popped(m, t) /\ Head(m.tasks) \in TaskKinds
         /\ \A k : k # Head(m.tasks) /\ Queued(m, k) => Queued(t, k)
<1>1. m.tasks \in Seq(TaskKinds)
  BY DEF ModemRecords
<1>2. Tail(m.tasks) \in Seq(TaskKinds) /\ Head(m.tasks) \in TaskKinds
  BY <1>1
<1>3. t \in ModemRecords
  BY <1>2, ZenonT(60) DEF ModemRecords
<1>4. /\ t.state = m.state /\ t.level = m.level /\ t.target = m.target /\ t.inter = m.inter
      /\ t.force = m.force /\ t.cmd = m.cmd /\ t.delayed = m.delayed /\ t.timers = m.timers
      /\ t.urc = m.urc /\ t.creg = m.creg /\ t.uupsdd = m.uupsdd
      /\ t.keep = m.keep /\ t.cleanup = m.cleanup /\ t.off = m.off /\ t.vcc_off = m.vcc_off
      /\ t.low = m.low /\ t.high = m.high /\ t.run = m.run /\ t.ask = m.ask /\ t.sub = m.sub
  BY DEF ModemRecords
<1>5. t.tasks = Tail(m.tasks)
  BY DEF ModemRecords
<1>6. ASSUME NEW k, k # Head(m.tasks), NEW i \in DOMAIN m.tasks, m.tasks[i] = k
      PROVE  \E j \in DOMAIN t.tasks : t.tasks[j] = k
  <2>1. i \in 1 .. Len(m.tasks) /\ i # 1 /\ Len(m.tasks) \in Nat
    BY <1>1, <1>6
  <2>2. i - 1 \in 1 .. Len(m.tasks) - 1
    BY <2>1
  <2>3. DOMAIN t.tasks = 1 .. Len(m.tasks) - 1
    BY <1>1, <1>5
  <2>4. t.tasks[i - 1] = m.tasks[i]
    <3>1. Tail(m.tasks)[i - 1] = m.tasks[(i - 1) + 1]
      BY <1>1, <2>2
    <3>2. (i - 1) + 1 = i
      BY <2>1
    <3> QED
      BY <1>5, <3>1, <3>2
  <2> QED
    BY <1>6, <2>2, <2>3, <2>4
<1>7. \A k : k # Head(m.tasks) /\ Queued(m, k) => Queued(t, k)
  BY <1>6 DEF Queued
<1> QED
  BY <1>2, <1>3, <1>4, <1>7 DEF Popped

LEMMA PopKept ==
  ASSUME NEW m, NEW t, Popped(m, t)
  PROVE  /\ Phase(t) = Phase(m) /\ (\A S : In(t, S) <=> In(m, S))
         /\ (Active(m) => Active(t)) /\ (Loose(m) => Loose(t))
         /\ \A lo, hi : Nothing(m, lo, hi) => Nothing(t, lo, hi)
         /\ \A l : Powered(m, l) => Powered(t, l)
         /\ \A u : Slotted(t, u) <=> Slotted(m, u)
<1>1. /\ t \in ModemRecords
      /\ t.state = m.state /\ t.level = m.level /\ t.target = m.target /\ t.inter = m.inter
      /\ t.force = m.force /\ t.cmd = m.cmd /\ t.delayed = m.delayed /\ t.timers = m.timers
      /\ t.urc = m.urc /\ t.creg = m.creg /\ t.uupsdd = m.uupsdd
      /\ t.keep = m.keep /\ t.cleanup = m.cleanup /\ t.off = m.off /\ t.vcc_off = m.vcc_off
      /\ t.low = m.low /\ t.high = m.high /\ t.run = m.run /\ t.ask = m.ask /\ t.sub = m.sub
  BY DEF Popped
<1>2. Phase(t) = Phase(m) /\ (\A S : In(t, S) <=> In(m, S))
  BY <1>1 DEF Phase, In
<1>3. /\ \A u : Slotted(t, u) <=> Slotted(m, u)
      /\ OneCreg(m) <=> OneCreg(t)
  BY <1>1 DEF Slotted, OneCreg
<1>4. Active(m) => Active(t)
  BY <1>1 DEF Active
<1>5. Loose(m) => Loose(t)
  BY <1>1, <1>2, <1>3 DEF Loose
<1>6. \A lo, hi : Nothing(m, lo, hi) => Nothing(t, lo, hi)
  BY <1>1 DEF Nothing, Alone, Balance
<1>7. \A l : Powered(m, l) => Powered(t, l)
  BY <1>1 DEF Powered
<1> QED
  BY <1>2, <1>3, <1>4, <1>5, <1>6, <1>7

(* c is what work begun in m leads to: the modem waits again, or a command *)
(* of the work is pending.                                                 *)
Begun(m, c) ==
  \/ Good(c) /\ c.state # m.state
  \/ Base(c) /\ (\E x \in Steps : Busy(c, x)) /\ c.state = m.state /\ c.run = m.run

(* Work is begun from the main state machine.                              *)
LEMMA WorkBegins ==
  ASSUME NEW m, Base(m), Starting(m), m.state \in Works
  PROVE  /\ Active(m) /\ Nothing(m, 0, 0) /\ Phase(m) = m.state /\ "wake" \notin m.timers
         /\ \A S : ~In(m, S)
         /\ m.level >= NETWORK => Watched(m)
<1>1. m.state # "IN_SUBSTATE" /\ "wake" \notin m.timers /\ Nothing(m, 0, 0)
  BY DEF Works, Starting
<1>2. Active(m) /\ Phase(m) = m.state /\ \A S : ~In(m, S)
  BY <1>1 DEF Active, Phase, In
<1>3. Attended(m)
  BY DEF Base
<1> QED
  BY <1>1, <1>2, <1>3 DEF Attended

LEMMA WorkWaits ==
  ASSUME NEW m, m.state \in Works, NEW i, Loose(i), Nothing(i, 0, 0), i.state = m.state,
         "wake" \notin i.timers, Powered(i, i.level), Fits(i, i.level)
  PROVE  Begun(m, change_state(i, "WAITING"))
<1>1. i.state # "WAITING" /\ m.state # "WAITING" /\ i \in ModemRecords /\ "WAITING" \in States
  BY DEF Works, Loose, States
<1>2. Good(change_state(i, "WAITING"))
  BY <1>1, WaitGood
<1>3. change_state(i, "WAITING").state = "WAITING"
  BY <1>1, ChangeSound
<1> QED
  BY <1>1, <1>2, <1>3 DEF Begun

LEMMA WorkSends ==
  ASSUME NEW m, NEW t, Base(t), Active(t), Nothing(t, 0, 0), t.state = m.state, t.run = m.run,
         NEW c \in Commands, Belongs(c, Phase(t)), Detail(t, c)
  PROVE  Begun(m, send_cmd(t, c)) /\ Begun(m, modem_send_cmd(t, c))
<1>1. t \in ModemRecords
  BY DEF Base, Loose
<1>2. /\ Same(t, send_cmd(t, c)) /\ Has(send_cmd(t, c), c)
      /\ Same(t, modem_send_cmd(t, c)) /\ Has(modem_send_cmd(t, c), c)
  BY <1>1, SendStep
<1>3. c \in Steps
  BY DEF Steps
<1>4. \A d : Same(t, d) => d.state = m.state /\ d.run = m.run
  BY DEF Same
<1>5. \A d \in {send_cmd(t, c), modem_send_cmd(t, c)} : Base(d) /\ Busy(d, c)
  BY <1>2, StepBusy
<1> QED
  BY <1>2, <1>3, <1>4, <1>5 DEF Begun

(* Socket work.                                                            *)
LEMMA SocketBegun ==
  ASSUME NEW m, Base(m), Starting(m), m.state = "DO_SOCKET_WORK"
  PROVE  Begun(m, do_usrsock_work(m))
<1>1. /\ m.state \in Works /\ Loose(m) /\ m \in ModemRecords /\ Powered(m, m.level)
  BY DEF Works, Base, Loose
<1>2. Active(m) /\ Nothing(m, 0, 0) /\ Phase(m) = m.state /\ "wake" \notin m.timers
  BY <1>1, WorkBegins
<1>3. Begun(m, change_state(m, "WAITING"))
  <2>1. Fits(m, m.level)
    BY <1>1, <1>2, PhaseFits
  <2> QED
    BY <1>1, <1>2, <2>1, WorkWaits
<1>4. Begun(m, send_cmd([m EXCEPT !.work = FALSE], "socket"))
  <2>1. PICK d : d = [m EXCEPT !.work = FALSE]
    OBVIOUS
  <2>2. Minor(m, d)
    BY <1>1, <2>1, Literals, MinorFields
  <2>3. Base(d) /\ Active(d) /\ Nothing(d, 0, 0) /\ Phase(d) = "DO_SOCKET_WORK"
    BY <1>2, <2>2, MinorBase
  <2>4. d.state = m.state /\ d.run = m.run
    BY <2>2 DEF Minor
  <2>5. "socket" \in Commands
    BY DEF Commands
  <2>6. Belongs("socket", Phase(d)) /\ Detail(d, "socket")
    BY <2>3, <2>5, DetailEasy DEF Belongs, Steps, Starts, Works, CregTimers
  <2>7. Begun(m, send_cmd(d, "socket"))
    BY <2>3, <2>4, <2>5, <2>6, WorkSends
  <2> QED
    BY <2>1, <2>7
<1> QED
  BY <1>3, <1>4 DEF do_usrsock_work

(* A task that sends a command.                                            *)
LEMMA CommandTaskBegun ==
  ASSUME NEW m, m.state = "DO_TASK_WORK", NEW t, Base(t), Active(t), Nothing(t, 0, 0),
         t.state = m.state, t.run = m.run
  PROVE  Begun(m, start_raw_command(t)) /\ Begun(m, start_read_info([t EXCEPT !.n = 0]))
<1>1. /\ m.state \in Works /\ t \in ModemRecords /\ Phase(t) = "DO_TASK_WORK"
      /\ t.level \in Int
  BY LooseLevels DEF Works, Base, Loose, Phase
<1>2. ASSUME NEW d, Base(d), Active(d), Nothing(d, 0, 0), d.state = m.state, d.run = m.run
      PROVE  Begun(m, change_state(d, "WAITING"))
  <2>1. Loose(d) /\ Powered(d, d.level) /\ "wake" \notin d.timers
    BY <1>1, <1>2 DEF Base, Active
  <2>2. Fits(d, d.level)
    <3>1. Phase(d) \in Works
      BY <1>1, <1>2 DEF Phase, Works
    <3> QED
      BY <1>2, <3>1, PhaseFits
  <2> QED
    BY <1>1, <1>2, <2>1, <2>2, WorkWaits
<1>3. "raw" \in Commands /\ "info" \in Commands
  BY DEF Commands
<1>4. Begun(m, start_raw_command(t))
  <2>1. Belongs("raw", Phase(t)) /\ Detail(t, "raw")
    BY <1>1, <1>3, DetailEasy DEF Belongs, Steps, Starts, Works, CregTimers
  <2>2. Begun(m, modem_send_cmd(t, "raw"))
    BY <1>3, <2>1, WorkSends
  <2> QED
    BY <1>2, <2>2 DEF start_raw_command
<1>5. PICK d : d = [t EXCEPT !.n = 0]
  OBVIOUS
<1>6. Minor(t, d)
  BY <1>1, <1>5, Literals, MinorFields
<1>7. /\ Base(d) /\ Active(d) /\ Nothing(d, 0, 0) /\ Phase(d) = "DO_TASK_WORK"
      /\ d.state = m.state /\ d.run = m.run /\ d.level = t.level
  BY <1>1, <1>6, MinorBase DEF Minor
<1>8. ~(d.level < SIM_ENABLED) => Begun(m, send_cmd(d, "info"))
  <2>1. ~(d.level < SIM_ENABLED) => d.level >= SIM_ENABLED
    BY <1>1, <1>7 DEF SIM_ENABLED
  <2>2. d.level >= SIM_ENABLED => Detail(d, "info")
    BY <1>7 DEF Detail, CregTimers
  <2>3. Belongs("info", Phase(d))
    BY <1>3, <1>7 DEF Belongs, Steps, Starts, Works
  <2> QED
    BY <1>3, <1>7, <2>1, <2>2, <2>3, WorkSends
<1>9. Begun(m, start_read_info(d))
  BY <1>2, <1>7, <1>8 DEF start_read_info
<1> QED
  BY <1>4, <1>5, <1>9

(* A task that starts the connection over, from POWERED_OFF or the SIM.    *)
LEMMA RecoverBegun ==
  ASSUME NEW m, Base(m), Starting(m), m.state = "DO_TASK_WORK", NEW t, Popped(m, t),
         NEW l \in {POWERED_OFF, SIM_ENABLED}
  PROVE  Begun(m, change_state(retry_current_level(network_cleanup(t), l), "WAITING"))
<1>1. m.state \in Works /\ Loose(m) /\ Powered(m, m.level)
  BY DEF Works, Base
<1>2. Nothing(m, 0, 0) /\ "wake" \notin m.timers /\ \A S : ~In(m, S)
  BY <1>1, WorkBegins
<1>3. /\ Loose(t) /\ Nothing(t, 0, 0) /\ Powered(t, m.level)
  BY <1>1, <1>2, PopKept
<1>4. /\ t.state = m.state /\ t.level = m.level /\ t.run = m.run /\ t.timers = m.timers
      /\ t.creg = m.creg /\ t.uupsdd = m.uupsdd
  BY DEF Popped
<1>5. PICK n : n = network_cleanup(t)
  OBVIOUS
<1>6. /\ Kept(t, n) /\ Loose(n) /\ Nothing(n, 0, 0)
      /\ t.level < NETWORK => n = t
      /\ t.level >= NETWORK => ~n.creg
      /\ t.level = GPRS => ~n.uupsdd /\ "gprs" \notin n.timers
      /\ t.level # GPRS => /\ n.uupsdd = t.uupsdd
                           /\ "gprs" \in n.timers <=> "gprs" \in t.timers
  BY <1>3, <1>5, NetworkClean
<1>7. /\ n \in ModemRecords /\ n.state = m.state /\ n.level = m.level /\ n.run = m.run
      /\ "wake" \notin n.timers /\ Powered(n, m.level) /\ n.target # STUCK_HARDWARE
  BY <1>2, <1>3, <1>4, <1>6, KeptPhase DEF Kept, Loose
<1>8. PICK i : i = [n EXCEPT !.inter = l]
  OBVIOUS
<1>9. l \in Levels /\ l \in {POWERED_OFF, SIM_ENABLED, NETWORK, LEVEL_MAX} /\ l # LEVEL_MAX
  BY LevelFacts DEF POWERED_OFF, SIM_ENABLED
<1>10. Leveled(n, i) /\ i.inter = l /\ i.level = n.level /\ i.target = n.target
  BY <1>7, <1>8, <1>9, InterFields
<1>11. Loose(i) /\ Nothing(i, 0, 0) /\ Powered(i, i.level)
  BY <1>6, <1>7, <1>9, <1>10, LevelKept
<1>12. /\ i.state = m.state /\ "wake" \notin i.timers /\ i.creg = n.creg /\ i.uupsdd = n.uupsdd
       /\ i.timers = n.timers /\ i.urc = n.urc
  BY <1>7, <1>10 DEF Leveled
<1>13. run_if_waiting(i) = i
  BY <1>12 DEF run_if_waiting
<1>14. Fits(i, i.level)
  <2>1. Watched(i)
    BY <1>10 DEF Watched
  <2>2. ~In(i, {"SETUP_NETWORK"})
    BY <1>1, <1>12 DEF In, Works
  <2> QED
    BY <2>1, <2>2 DEF Fits
<1>15. Begun(m, change_state(i, "WAITING"))
  BY <1>1, <1>11, <1>12, <1>14, WorkWaits
<1> QED
  BY <1>5, <1>8, <1>13, <1>15 DEF retry_current_level

(* A task that sets up the PDP context again.                              *)
LEMMA ReinitializeBegun ==
  ASSUME NEW m, Base(m), Starting(m), m.state = "DO_TASK_WORK", NEW t, Popped(m, t),
         Queued(m, "retry_sim") => Queued(t, "retry_sim")
  PROVE  Begun(m, change_state(reinitialize_gprs_task(t), "WAITING"))
<1>1. m.state \in Works /\ Loose(m) /\ Powered(m, m.level)
  BY DEF Works, Base
<1>2. /\ Nothing(m, 0, 0) /\ "wake" \notin m.timers /\ (\A S : ~In(m, S))
      /\ m.level >= NETWORK => Watched(m)
  BY <1>1, WorkBegins
<1>3. /\ Loose(t) /\ Nothing(t, 0, 0) /\ Powered(t, m.level)
      /\ \A u : Slotted(t, u) <=> Slotted(m, u)
  BY <1>1, <1>2, PopKept
<1>4. /\ t \in ModemRecords
      /\ t.state = m.state /\ t.level = m.level /\ t.run = m.run /\ t.timers = m.timers
      /\ t.creg = m.creg /\ t.uupsdd = m.uupsdd /\ t.inter = m.inter /\ t.target = m.target
  BY DEF Popped
<1>5. m.level \in Int /\ m.target # STUCK_HARDWARE
  BY <1>1, LooseLevels DEF Loose
<1>6. CASE m.level < GPRS
  <2>1. Fits(t, t.level)
    <3>1. ~In(t, {"SETUP_NETWORK"})
      BY <1>1, <1>4 DEF In, Works
    <3>2. Watched(m) => Watched(t)
      BY <1>3, <1>4 DEF Watched
    <3> QED
      BY <1>2, <1>4, <3>1, <3>2 DEF Fits
  <2>2. Begun(m, change_state(t, "WAITING"))
    BY <1>1, <1>2, <1>3, <1>4, <2>1, WorkWaits
  <2> QED
    BY <1>4, <1>6, <2>2 DEF reinitialize_gprs_task
<1>7. CASE ~(m.level < GPRS)
  <2>1. m.level = GPRS
    <3>1. m.level \in 0 .. 6
      BY <1>1, LooseLevels
    <3> QED
      BY <1>7, <3>1 DEF GPRS
  <2>2. PICK i : i = [t EXCEPT !.inter = NETWORK]
    OBVIOUS
  <2>3. NETWORK \in Levels /\ NETWORK # LEVEL_MAX
    BY LevelFacts DEF NETWORK
  <2>4. Leveled(t, i) /\ i.inter = NETWORK /\ i.level = t.level /\ i.target = t.target
    BY <1>4, <2>2, <2>3, InterFields
  <2>5. Loose(i) /\ Nothing(i, 0, 0) /\ Powered(i, i.level)
    BY <1>3, <1>4, <1>5, <2>4, LevelKept
  <2>6. /\ i.state = m.state /\ "wake" \notin i.timers /\ i.urc = t.urc /\ i.tasks = t.tasks
        /\ i.uupsdd = t.uupsdd
    BY <1>2, <1>4, <2>4 DEF Leveled
  <2>7. run_if_waiting(i) = i
    BY <2>6 DEF run_if_waiting
  <2>8. Fits(i, i.level)
    <3>1. Watched(i)
      <4>1. m.inter \notin {POWERED_OFF, SIM_ENABLED}
        <5>1. m.inter \in {LEVEL_MAX, m.level}
          BY <1>1 DEF Starting
        <5> QED
          BY <2>1, <5>1 DEF LEVEL_MAX, GPRS, POWERED_OFF, SIM_ENABLED
      <4>2. Watched(m)
        BY <1>2, <2>1 DEF NETWORK, GPRS
      <4>3. Slotted(m, "monitor") \/ Queued(m, "retry_sim")
        BY <4>1, <4>2 DEF Watched
      <4>4. Slotted(t, "monitor") \/ Queued(t, "retry_sim")
        BY <1>3, <4>3
      <4> QED
        BY <2>6, <4>4 DEF Watched, Slotted, Queued
    <3>2. ~In(i, {"SETUP_NETWORK"})
      BY <1>1, <2>6 DEF In, Works
    <3> QED
      BY <3>1, <3>2 DEF Fits
  <2>9. Begun(m, change_state(i, "WAITING"))
    BY <1>1, <2>5, <2>6, <2>8, WorkWaits
  <2> QED
    BY <1>4, <1>7, <2>2, <2>7, <2>9 DEF reinitialize_gprs_task, retry_current_level
<1> QED
  BY <1>6, <1>7

(* The first task of the queue is done.                                    *)
LEMMA TaskBegun ==
  ASSUME NEW m, Base(m), Starting(m), m.state = "DO_TASK_WORK"
  PROVE  Begun(m, modem_do_task_work(m))
<1>1. m.state \in Works /\ Loose(m) /\ Powered(m, m.level) /\ m \in ModemRecords
  BY DEF Works, Base, Loose
<1>2. /\ Active(m) /\ Nothing(m, 0, 0) /\ Phase(m) = m.state /\ "wake" \notin m.timers
  BY <1>1, WorkBegins
<1>3. CASE m.tasks = << >>
  <2>1. Fits(m, m.level)
    BY <1>1, <1>2, PhaseFits
  <2>2. Begun(m, change_state(m, "WAITING"))
    BY <1>1, <1>2, <2>1, WorkWaits
  <2> QED
    BY <1>3, <2>2 DEF modem_do_task_work
<1>4. CASE m.tasks # << >>
  <2>1. PICK t : t = [m EXCEPT !.tasks = Tail(m.tasks)]
    OBVIOUS
  <2>2. PICK k : k = Head(m.tasks)
    OBVIOUS
  <2>3. /\ Popped(m, t) /\ k \in TaskKinds
        /\ \A j : j # k /\ Queued(m, j) => Queued(t, j)
    BY <1>1, <1>4, <2>1, <2>2, PopFields
  <2>4. CASE k \in {"raw", "info"}
    <3>1. /\ Active(t) /\ Nothing(t, 0, 0) /\ Loose(t) /\ Phase(t) = Phase(m)
          /\ Powered(t, m.level) /\ (\A S : In(t, S) <=> In(m, S))
          /\ \A u : Slotted(t, u) <=> Slotted(m, u)
      BY <1>1, <1>2, <2>3, PopKept
    <3>2. /\ t.state = m.state /\ t.run = m.run /\ t.level = m.level /\ t.target = m.target
          /\ t.inter = m.inter /\ t.creg = m.creg /\ t.uupsdd = m.uupsdd /\ t.timers = m.timers
      BY <2>3 DEF Popped
    <3>3. Watched(m) => Watched(t)
      BY <2>3, <2>4, <3>1, <3>2 DEF Watched
    <3>4. Attended(m) => Attended(t)
      BY <3>1, <3>2, <3>3 DEF Attended
    <3>5. Base(t)
      BY <3>1, <3>2, <3>4 DEF Base
    <3>6. Begun(m, start_raw_command(t)) /\ Begun(m, start_read_info([t EXCEPT !.n = 0]))
      BY <3>1, <3>2, <3>5, CommandTaskBegun
    <3> QED
      BY <1>4, <2>1, <2>2, <2>4, <3>6 DEF modem_do_task_work
  <2>5. CASE k \in {"recover", "retry_sim"}
    <3>1. /\ Begun(m, change_state(recover_modem_task(t), "WAITING"))
          /\ Begun(m, change_state(retry_network_through_sim(t), "WAITING"))
      BY <2>3, RecoverBegun DEF recover_modem_task, retry_network_through_sim
    <3> QED
      BY <1>4, <2>1, <2>2, <2>5, <3>1 DEF modem_do_task_work
  <2>6. CASE k \in {"reinitialize", "reattempt"}
    <3>1. Queued(m, "retry_sim") => Queued(t, "retry_sim")
      BY <2>3, <2>6
    <3>2. Begun(m, change_state(reinitialize_gprs_task(t), "WAITING"))
      BY <2>3, <3>1, ReinitializeBegun
    <3> QED
      BY <1>4, <2>1, <2>2, <2>6, <3>2 DEF modem_do_task_work
  <2> QED
    BY <2>3, <2>4, <2>5, <2>6 DEF TaskKinds
<1> QED
  BY <1>3, <1>4

-----------------------------------------------------------------------------
(* The main state machine starts a sub-state machine.                      *)
(* s is m with the sub-state machine of its state started; the one of the  *)
(* network leaves a clean-up behind.                                       *)
Entered(m, s) ==
  /\ s \in ModemRecords
  /\ s.state = "IN_SUBSTATE" /\ s.sub = m.state /\ (s.cleanup <=> m.state = "SETUP_NETWORK")
  /\ s.level = m.level /\ s.target = m.target /\ s.inter = m.inter /\ s.force = m.force
  /\ s.cmd = m.cmd /\ s.delayed = m.delayed /\ s.timers = m.timers /\ s.urc = m.urc
  /\ s.creg = m.creg /\ s.uupsdd = m.uupsdd /\ s.tasks = m.tasks /\ s.off = m.off
  /\ s.vcc_off = m.vcc_off /\ s.low = m.low /\ s.high = m.high /\ s.run = m.run
  /\ s.ask = m.ask

LEMMA EnteredKept ==
  ASSUME NEW m, Base(m), Starting(m), m.state \in Starts, NEW s, Entered(m, s)
  PROVE  /\ Loose(s) /\ Active(s) /\ Nothing(s, 0, 0) /\ Phase(s) = m.state
         /\ Powered(s, s.level) /\ LevelFits(Phase(s), s.level) /\ Ready(s)
<1>1. /\ Phase(s) = m.state /\ Phase(m) = m.state /\ m.state # "WAITING" /\ m.state \notin Works
      /\ m.state # "IN_SUBSTATE" /\ (\A S : In(s, S) <=> m.state \in S) /\ (\A S : ~In(m, S))
  BY DEF Entered, Phase, In, Starts, Works
<1>2. Loose(m)
  BY DEF Base
<1>3. /\ \A u : Slotted(s, u) <=> Slotted(m, u)
      /\ \A k : Queued(s, k) <=> Queued(m, k)
      /\ OneCreg(s) <=> OneCreg(m)
  <2>1. s.urc = m.urc /\ s.creg = m.creg /\ s.uupsdd = m.uupsdd /\ s.tasks = m.tasks
    BY DEF Entered
  <2> QED
    BY <2>1, WatchKept
<1>4. ~Slotted(s, "registration")
  BY <1>1, <1>2, <1>3 DEF Loose
<1>5. Loose(s)
  BY <1>1, <1>2, <1>3, <1>4 DEF Loose, Entered
<1>6. Active(s)
  BY <1>1 DEF Active, Entered, Works
<1>7. Nothing(s, 0, 0)
  <2>1. Alone(s, "none", "none", "none")
    BY DEF Entered, Starting, Nothing, Alone
  <2>2. Balance(m, 0, 0) /\ (m.state # "WAITING" <=> s.state # "WAITING")
    BY <1>1 DEF Entered, Starting, Nothing
  <2>3. Flag(m.state # "WAITING") = Flag(s.state # "WAITING")
    BY <2>2 DEF Flag
  <2>4. Balance(s, 0, 0)
    BY <2>2, <2>3 DEF Balance, Entered
  <2> QED
    BY <2>1, <2>4 DEF Nothing
<1>8. Powered(s, s.level) /\ LevelFits(Phase(s), s.level)
  BY <1>1 DEF Base, Powered, Entered
<1>9. Attended(s)
  <2>1. Watched(m) => Watched(s)
    BY <1>3 DEF Watched, Entered
  <2>2. Attended(m) /\ s.level = m.level
    BY DEF Base, Entered
  <2> QED
    BY <1>1, <2>1, <2>2 DEF Attended
<1>10. Ready(s)
  BY <1>5, <1>6, <1>7, <1>8, <1>9 DEF Ready, Base, Entered
<1> QED
  BY <1>1, <1>5, <1>6, <1>7, <1>8, <1>10

(* The state and the history of it.                                        *)
SubSet(m, t, u, s) ==
  /\ s \in ModemRecords
  /\ s.state = t /\ s.sub = u /\ s.cleanup = m.cleanup
  /\ s.level = m.level /\ s.target = m.target /\ s.inter = m.inter /\ s.force = m.force
  /\ s.cmd = m.cmd /\ s.delayed = m.delayed /\ s.timers = m.timers /\ s.urc = m.urc
  /\ s.creg = m.creg /\ s.uupsdd = m.uupsdd /\ s.tasks = m.tasks /\ s.off = m.off
  /\ s.vcc_off = m.vcc_off /\ s.low = m.low /\ s.high = m.high /\ s.run = m.run
  /\ s.ask = m.ask

LEMMA SubFields ==
  ASSUME NEW m \in ModemRecords, NEW t \in States, NEW u \in States
  PROVE  SubSet(m, t, u, [[pm_low(m, 0) EXCEPT !.state = t] EXCEPT !.sub = u])
<1>1. PICK p : p = pm_low(m, 0)
  OBVIOUS
<1>2. p \in ModemRecords
  BY <1>1 DEF pm_low, ModemRecords
<1>3. /\ p.level = m.level /\ p.target = m.target /\ p.inter = m.inter /\ p.force = m.force
      /\ p.cmd = m.cmd /\ p.delayed = m.delayed /\ p.timers = m.timers /\ p.urc = m.urc
      /\ p.creg = m.creg /\ p.uupsdd = m.uupsdd /\ p.tasks = m.tasks /\ p.off = m.off
      /\ p.vcc_off = m.vcc_off /\ p.low = m.low /\ p.high = m.high /\ p.run = m.run
      /\ p.ask = m.ask /\ p.cleanup = m.cleanup
  BY <1>1 DEF pm_low, ModemRecords
<1>4. PICK s : s = [[p EXCEPT !.state = t] EXCEPT !.sub = u]
  OBVIOUS
<1>5. s \in ModemRecords
  BY <1>2, <1>4, ZenonT(60) DEF ModemRecords
<1>6. /\ s.state = t /\ s.sub = u /\ s.cleanup = p.cleanup
      /\ s.level = p.level /\ s.target = p.target /\ s.inter = p.inter /\ s.force = p.force
      /\ s.cmd = p.cmd /\ s.delayed = p.delayed /\ s.timers = p.timers /\ s.urc = p.urc
      /\ s.creg = p.creg /\ s.uupsdd = p.uupsdd /\ s.tasks = p.tasks /\ s.off = p.off
      /\ s.vcc_off = p.vcc_off /\ s.low = p.low /\ s.high = p.high /\ s.run = p.run
      /\ s.ask = p.ask
  BY <1>2, <1>4 DEF ModemRecords
<1>7. SubSet(m, t, u, s)
  BY <1>3, <1>5, <1>6 DEF SubSet
<1> QED
  BY <1>1, <1>4, <1>7

LEMMA EnteredSub ==
  ASSUME NEW m, Base(m), Starting(m), m.state \in Starts,
         NEW s, s = [change_state(m, "IN_SUBSTATE") EXCEPT !.sub = m.state]
  PROVE  /\ s \in ModemRecords /\ s.run = m.run
         /\ m.state # "SETUP_NETWORK" => Entered(m, s)
         /\ m.state = "SETUP_NETWORK" =>
              Entered(m, [reset_sub(s) EXCEPT !.net = "ENABLING_CREG", !.got = FALSE,
                                              !.keep = FALSE, !.cleanup = TRUE])
<1>1. m \in ModemRecords /\ m.state # "WAITING" /\ m.state # "IN_SUBSTATE" /\ ~m.cleanup
  BY DEF Base, Loose, Starts, In
<1>2. change_state(m, "IN_SUBSTATE") = [pm_low(m, 0) EXCEPT !.state = "IN_SUBSTATE"]
  <2>1. PICK p : p = [pm_low(m, 0) EXCEPT !.state = "IN_SUBSTATE"]
    OBVIOUS
  <2>2. change_state(m, "IN_SUBSTATE") = wake_waiting_state(p, FALSE)
    BY <1>1, <2>1 DEF change_state
  <2>3. p.run = m.run
    BY <1>1, <2>1 DEF pm_low, ModemRecords
  <2>4. in_state_machine(p)
    BY <2>3 DEF Starting, in_state_machine
  <2> QED
    BY <2>1, <2>2, <2>4 DEF wake_waiting_state
<1>3. s = [[pm_low(m, 0) EXCEPT !.state = "IN_SUBSTATE"] EXCEPT !.sub = m.state]
  BY <1>2
<1>4. "IN_SUBSTATE" \in States /\ m.state \in States
  BY <1>1 DEF States, ModemRecords
<1>5. /\ s \in ModemRecords
      /\ s.state = "IN_SUBSTATE" /\ s.sub = m.state /\ s.cleanup = m.cleanup
      /\ s.level = m.level /\ s.target = m.target /\ s.inter = m.inter /\ s.force = m.force
      /\ s.cmd = m.cmd /\ s.delayed = m.delayed /\ s.timers = m.timers /\ s.urc = m.urc
      /\ s.creg = m.creg /\ s.uupsdd = m.uupsdd /\ s.tasks = m.tasks /\ s.off = m.off
      /\ s.vcc_off = m.vcc_off /\ s.low = m.low /\ s.high = m.high /\ s.run = m.run
      /\ s.ask = m.ask
  <2>1. SubSet(m, "IN_SUBSTATE", m.state,
               [[pm_low(m, 0) EXCEPT !.state = "IN_SUBSTATE"] EXCEPT !.sub = m.state])
    BY <1>1, <1>4, SubFields
  <2>2. SubSet(m, "IN_SUBSTATE", m.state, s)
    BY <1>3, <2>1
  <2> QED
    BY <2>2 DEF SubSet
<1>6. m.state # "SETUP_NETWORK" => Entered(m, s)
  BY <1>1, <1>5 DEF Entered
<1>7. m.state = "SETUP_NETWORK" =>
        Entered(m, [reset_sub(s) EXCEPT !.net = "ENABLING_CREG", !.got = FALSE,
                                        !.keep = FALSE, !.cleanup = TRUE])
  <2>1. SUFFICES ASSUME m.state = "SETUP_NETWORK"
                 PROVE  Entered(m, [reset_sub(s) EXCEPT !.net = "ENABLING_CREG", !.got = FALSE,
                                                        !.keep = FALSE, !.cleanup = TRUE])
    OBVIOUS
  <2>2. PICK q : q = reset_sub(s)
    OBVIOUS
  <2>3. Minor(s, q)
    BY <1>5, <2>2, MinorSets
  <2>4. PICK e : e = [q EXCEPT !.net = "ENABLING_CREG", !.got = FALSE, !.keep = FALSE,
                               !.cleanup = TRUE]
    OBVIOUS
  <2>5. q \in ModemRecords
    BY <2>3 DEF Minor
  <2>6. e \in ModemRecords
    BY <2>4, <2>5, ZenonT(60) DEF ModemRecords, NetworkStates
  <2>7. /\ e.state = q.state /\ e.sub = q.sub /\ e.cleanup
        /\ e.level = q.level /\ e.target = q.target /\ e.inter = q.inter /\ e.force = q.force
        /\ e.cmd = q.cmd /\ e.delayed = q.delayed /\ e.timers = q.timers /\ e.urc = q.urc
        /\ e.creg = q.creg /\ e.uupsdd = q.uupsdd /\ e.tasks = q.tasks /\ e.off = q.off
        /\ e.vcc_off = q.vcc_off /\ e.low = q.low /\ e.high = q.high /\ e.run = q.run
        /\ e.ask = q.ask
    BY <2>4, <2>5 DEF ModemRecords
  <2>8. Entered(m, e)
    BY <1>5, <2>1, <2>3, <2>6, <2>7 DEF Entered, Minor
  <2> QED
    BY <2>2, <2>4, <2>8
<1> QED
  BY <1>5, <1>6, <1>7

(* flag is set.                                                            *)
LEMMA FlagSet ==
  ASSUME NEW m \in ModemRecords, NEW d, d = [m EXCEPT !.flag = TRUE]
  PROVE  Minor(m, d) /\ d.pos = m.pos
<1>1. d \in ModemRecords
  BY ZenonT(60) DEF ModemRecords
<1>2. /\ d.state = m.state /\ d.level = m.level /\ d.target = m.target /\ d.inter = m.inter
      /\ d.force = m.force /\ d.cmd = m.cmd /\ d.delayed = m.delayed /\ d.timers = m.timers
      /\ d.urc = m.urc /\ d.creg = m.creg /\ d.uupsdd = m.uupsdd /\ d.tasks = m.tasks
      /\ d.keep = m.keep /\ d.cleanup = m.cleanup /\ d.off = m.off /\ d.vcc_off = m.vcc_off
      /\ d.low = m.low /\ d.high = m.high /\ d.run = m.run /\ d.ask = m.ask /\ d.sub = m.sub
      /\ d.pos = m.pos
  BY DEF ModemRecords
<1> QED
  BY <1>1, <1>2 DEF Minor

(* The activity of a timer, in advance.                                    *)
LEMMA HighStart ==
  ASSUME NEW m, Ready(m), NEW d, d = pm_high(m, 1)
  PROVE  /\ Base(d) /\ Active(d) /\ Nothing(d, 0, 1) /\ Phase(d) = Phase(m)
         /\ d.state = m.state /\ d.pos = m.pos /\ d.run = m.run /\ d \in ModemRecords
<1>1. m \in ModemRecords /\ 1 \in Int
  BY DEF Ready, Base, Loose
<1>2. /\ Same(m, d) /\ d.high = m.high + 1 /\ d.low = m.low
      /\ d.cmd = m.cmd /\ d.delayed = m.delayed /\ d.timers = m.timers
  BY <1>1, CountsSame
<1>3. /\ Phase(d) = Phase(m) /\ Active(d) /\ Base(d)
  BY <1>2, SameBase DEF Ready
<1>4. Nothing(d, 0, 1)
  <2>1. Alone(m, "none", "none", "none") /\ Balance(m, 0, 0)
    BY DEF Ready, Nothing
  <2>2. Alone(d, "none", "none", "none")
    BY <1>2, <2>1 DEF Alone
  <2>3. d.state = m.state /\ d.run = m.run
    BY <1>2 DEF Same
  <2>4. Balance(d, 0, 1)
    BY <1>1, <1>2, <2>1, <2>3 DEF Balance, Flag, ModemRecords
  <2> QED
    BY <2>2, <2>4 DEF Nothing
<1> QED
  BY <1>2, <1>3, <1>4 DEF Same

(* What a sub-state machine is started with leaves it as the state.        *)
LEMMA PowerOnState ==
  ASSUME NEW m \in ModemRecords, m.pos = 0
  PROVE  modem_do_power_on_timer_handler(m).state = m.state
<1>1. PICK h : h = pm_high(m, -1)
  OBVIOUS
<1>2. h \in ModemRecords /\ h.state = m.state
  <2>1. Same(m, pm_high(m, -1))
    BY Literals, CountsSame
  <2> QED
    BY <1>1, <2>1 DEF Same
<1>3. "power_on" \in Timers
  BY DEF Timers, HighTimers
<1>4. CASE m.vcc_off
  <2>1. PICK d : d = [h EXCEPT !.vcc_off = FALSE, !.pos = 1]
    OBVIOUS
  <2>2. PICK e : e = [h EXCEPT !.vcc_off = FALSE]
    OBVIOUS
  <2>3. e \in ModemRecords /\ e.state = h.state
    BY <1>2, <2>2, Literals, PowerFields DEF Wired
  <2>4. d = [e EXCEPT !.pos = 1]
    BY <2>1, <2>2
  <2>5. d \in ModemRecords /\ d.state = h.state
    BY <2>3, <2>4, Literals, PowerFields DEF Wired
  <2>6. set_high_timer(d, "power_on").state = d.state
    BY <1>3, <2>5, SetHighQuiet DEF Quiet
  <2> QED
    BY <1>1, <1>2, <1>4, <2>5, <2>6, <2>1, <2>3, <2>4 DEF modem_do_power_on_timer_handler
<1>5. CASE ~m.vcc_off
  <2>1. PICK d : d = [h EXCEPT !.pos = 2]
    OBVIOUS
  <2>2. 2 \in Int
    OBVIOUS
  <2>3. d \in ModemRecords /\ d.state = h.state
    BY <1>2, <2>1, <2>2, PowerFields DEF Wired
  <2>4. set_high_timer(d, "power_on").state = d.state
    BY <1>3, <2>3, SetHighQuiet DEF Quiet
  <2> QED
    BY <1>1, <1>2, <1>5, <2>1, <2>3, <2>4 DEF modem_do_power_on_timer_handler
<1> QED
  BY <1>4, <1>5

(* The power is turned on, or a modem that is stuck is reset.              *)
LEMMA PowerStarts ==
  ASSUME NEW s, Ready(s), s.state = "IN_SUBSTATE"
  PROVE  /\ Phase(s) = "DO_POWER_ON" =>
              Good(start_do_power_on(s)) /\ start_do_power_on(s).state = "IN_SUBSTATE"
         /\ Phase(s) = "DO_RESET" =>
              Good(start_do_reset(s)) /\ start_do_reset(s).state = "IN_SUBSTATE"
<1>1. s \in ModemRecords
  BY DEF Ready, Base, Loose
<1>2. PICK q : q = reset_sub(s)
  OBVIOUS
<1>3. Minor(s, q) /\ q.pos = 0
  BY <1>1, <1>2, MinorSets DEF reset_sub, ModemRecords
<1>4. Ready(q) /\ Phase(q) = Phase(s) /\ q \in ModemRecords /\ q.state = "IN_SUBSTATE"
  BY <1>3, MinorReady DEF Minor
<1>5. CASE Phase(s) = "DO_POWER_ON"
  <2>1. s.level = POWERED_OFF /\ s.off
    BY <1>5 DEF Ready, Base, LevelFits, Powered
  <2>2. DEBUGASSERT(s, s.level = POWERED_OFF, "wrong level") = s
    BY <2>1 DEF DEBUGASSERT, assert
  <2>3. PICK h : h = pm_high(q, 1)
    OBVIOUS
  <2>4. /\ Base(h) /\ Active(h) /\ Nothing(h, 0, 1) /\ Phase(h) = Phase(q)
        /\ h.state = q.state /\ h.pos = q.pos /\ h \in ModemRecords
    BY <1>4, <2>3, HighStart
  <2>5. Good(modem_do_power_on_timer_handler(h))
    BY <1>3, <1>4, <1>5, <2>4, PowerOnGood
  <2>6. modem_do_power_on_timer_handler(h).state = "IN_SUBSTATE"
    BY <1>3, <1>4, <2>4, PowerOnState
  <2> QED
    BY <1>2, <1>5, <2>1, <2>2, <2>3, <2>5, <2>6 DEF start_do_power_on
<1>6. CASE Phase(s) = "DO_RESET"
  <2>1. PICK f : f = [q EXCEPT !.flag = TRUE]
    OBVIOUS
  <2>2. Minor(q, f) /\ f.pos = 0
    BY <1>3, <1>4, <2>1, FlagSet
  <2>3. Ready(f) /\ Phase(f) = Phase(q) /\ f.state = "IN_SUBSTATE"
    BY <1>4, <2>2, MinorReady DEF Minor
  <2>4. PICK h : h = pm_high(f, 1)
    OBVIOUS
  <2>5. /\ Base(h) /\ Active(h) /\ Nothing(h, 0, 1) /\ Phase(h) = Phase(f)
        /\ h.state = f.state /\ h.pos = f.pos /\ h \in ModemRecords
    BY <2>3, <2>4, HighStart
  <2>6. Good(modem_do_power_on_timer_handler(h))
    BY <1>4, <1>6, <2>2, <2>3, <2>5, PowerOnGood
  <2>7. modem_do_power_on_timer_handler(h).state = "IN_SUBSTATE"
    BY <2>2, <2>3, <2>5, PowerOnState
  <2> QED
    BY <1>2, <1>6, <2>1, <2>4, <2>6, <2>7 DEF start_do_reset
<1> QED
  BY <1>5, <1>6

(* The command prompt, the SIM and the GPRS connection are set up.         *)
LEMMA SetupStarts ==
  ASSUME NEW s, Ready(s), s.state = "IN_SUBSTATE"
  PROVE  /\ Phase(s) = "SETUP_CMD_PROMPT" =>
              Good(start_setup_cmd_prompt(s)) /\ start_setup_cmd_prompt(s).state = "IN_SUBSTATE"
         /\ Phase(s) = "SETUP_SIM" =>
              Good(start_setup_sim(s)) /\ start_setup_sim(s).state = "IN_SUBSTATE"
         /\ Phase(s) = "OPEN_GPRS_CONNECTION" =>
              Good(start_open_gprs(s)) /\ start_open_gprs(s).state = "IN_SUBSTATE"
<1>1. s \in ModemRecords
  BY DEF Ready, Base, Loose
<1>2. PICK q : q = reset_sub(s)
  OBVIOUS
<1>3. Minor(s, q)
  BY <1>1, <1>2, MinorSets
<1>4. Ready(q) /\ Phase(q) = Phase(s) /\ q \in ModemRecords /\ q.state = "IN_SUBSTATE"
  BY <1>3, MinorReady DEF Minor
<1>5. CASE Phase(s) = "SETUP_CMD_PROMPT"
  <2>1. s.level = POWERED_ON
    BY <1>5 DEF Ready, Base, LevelFits
  <2>2. DEBUGASSERT(s, s.level = POWERED_ON, "wrong level") = s
    BY <2>1 DEF DEBUGASSERT, assert
  <2>3. "initial" \in Commands /\ Belongs("initial", Phase(q))
    BY <1>4, <1>5 DEF Belongs, Commands, Steps, Starts
  <2>4. Detail(q, "initial")
    BY <1>4, <1>5, DetailEasy DEF CregTimers
  <2>5. Good(send_cmd(q, "initial"))
    BY <1>4, <2>3, <2>4, SendGood
  <2>6. send_cmd(q, "initial").state = "IN_SUBSTATE"
    BY <1>4, <2>3, SendQuiet DEF Quiet
  <2> QED
    BY <1>2, <1>5, <2>2, <2>5, <2>6 DEF start_setup_cmd_prompt
<1>6. CASE Phase(s) = "SETUP_SIM"
  <2>1. s.level = CMD_PROMPT
    BY <1>6 DEF Ready, Base, LevelFits
  <2>2. DEBUGASSERT(s, s.level = CMD_PROMPT, "wrong level") = s
    BY <2>1 DEF DEBUGASSERT, assert
  <2>3. PICK f : f = [q EXCEPT !.flag = TRUE]
    OBVIOUS
  <2>4. Minor(q, f)
    BY <1>4, <2>3, FlagSet
  <2>5. Ready(f) /\ Phase(f) = Phase(q)
    BY <1>4, <2>4, MinorReady
  <2>6. /\ "sim_retry" \in StepTimers /\ Belongs("sim_retry", Phase(f))
        /\ "sim_retry" \in HighTimers
    BY <1>4, <1>6, <2>5 DEF Belongs, StepTimers, WorkTimers, Timers, HighTimers, Steps, Starts
  <2>7. Detail(f, "sim_retry")
    BY <1>4, <1>6, <2>5, DetailEasy DEF CregTimers
  <2>8. Good(set_high_timer(f, "sim_retry"))
    BY <2>5, <2>6, <2>7, TimerGood
  <2>9. set_high_timer(f, "sim_retry").state = "IN_SUBSTATE"
    <3>1. f \in ModemRecords /\ f.state = "IN_SUBSTATE"
      BY <1>4, <2>4 DEF Minor
    <3>2. "sim_retry" \in Timers
      BY DEF Timers, HighTimers
    <3> QED
      BY <3>1, <3>2, SetHighQuiet DEF Quiet
  <2> QED
    BY <1>2, <1>6, <2>2, <2>3, <2>8, <2>9 DEF start_setup_sim
<1>7. CASE Phase(s) = "OPEN_GPRS_CONNECTION"
  <2>1. s.level = NETWORK
    BY <1>7 DEF Ready, Base, LevelFits
  <2>2. DEBUGASSERT(s, s.level = NETWORK, "wrong level") = s
    BY <2>1 DEF DEBUGASSERT, assert
  <2>3. "check_CGATT" \in Commands /\ Belongs("check_CGATT", Phase(q))
    BY <1>4, <1>7 DEF Belongs, Commands, Steps, Starts
  <2>4. Detail(q, "check_CGATT")
    BY <1>3, <1>7 DEF Detail, Minor, CregTimers
  <2>5. Good(send_cmd(q, "check_CGATT"))
    BY <1>4, <2>3, <2>4, SendGood
  <2>6. send_cmd(q, "check_CGATT").state = "IN_SUBSTATE"
    BY <1>4, <2>3, SendQuiet DEF Quiet
  <2> QED
    BY <1>2, <1>7, <2>2, <2>5, <2>6 DEF start_open_gprs
<1> QED
  BY <1>5, <1>6, <1>7

(* The power is turned off: the connection is cleaned up.                  *)
LEMMA PowerOffStarts ==
  ASSUME NEW s, Ready(s), Phase(s) = "DO_POWER_OFF", s.state = "IN_SUBSTATE"
  PROVE  Good(start_do_power_off(s)) /\ start_do_power_off(s).state = "IN_SUBSTATE"
<1> Loose(s) /\ Active(s) /\ Nothing(s, 0, 0) /\ Powered(s, s.level) /\ LevelFits(Phase(s), s.level)
  BY DEF Ready, Base
<1>1. PICK d : d = network_cleanup(s)
  OBVIOUS
<1>2. /\ Kept(s, d) /\ Loose(d) /\ Nothing(d, 0, 0)
      /\ s.level < NETWORK => d = s
      /\ s.level >= NETWORK => ~d.creg
      /\ s.level = GPRS => ~d.uupsdd /\ "gprs" \notin d.timers
      /\ s.level # GPRS => /\ d.uupsdd = s.uupsdd
                           /\ "gprs" \in d.timers <=> "gprs" \in s.timers
  BY <1>1, NetworkClean
<1>3. Phase(d) = Phase(s) /\ Active(d) /\ Powered(d, s.level) /\ (\A S : In(d, S) <=> In(s, S))
  BY <1>2, KeptPhase
<1>4. d \in ModemRecords /\ d.level = s.level /\ d.state = "IN_SUBSTATE" /\ s.level \in Int
  BY <1>2, LooseLevels DEF Kept
<1>5. In(d, {"DO_POWER_OFF"})
  BY <1>3, <1>4 DEF In, Phase
<1>6. Attended(d)
  BY <1>5 DEF Attended
<1>7. Ready(d)
  BY <1>2, <1>3, <1>4, <1>6 DEF Ready, Base
<1>8. "CPWROFF" \in Commands /\ Belongs("CPWROFF", Phase(d))
  BY <1>3 DEF Belongs, Commands, Steps, Starts
<1>9. Detail(d, "CPWROFF")
  BY <1>3, DetailEasy DEF CregTimers
<1>10. Good(send_cmd(d, "CPWROFF"))
  BY <1>7, <1>8, <1>9, SendGood
<1>11. send_cmd(d, "CPWROFF").state = "IN_SUBSTATE"
  BY <1>4, <1>8, SendQuiet DEF Quiet
<1> QED
  BY <1>1, <1>10, <1>11 DEF start_do_power_off

(* The GPRS connection is closed, the one to the network stays.            *)
LEMMA CloseStarts ==
  ASSUME NEW s, Ready(s), Phase(s) = "CLOSE_GPRS_CONNECTION", s.state = "IN_SUBSTATE"
  PROVE  Good(start_close_gprs(s)) /\ start_close_gprs(s).state = "IN_SUBSTATE"
<1> /\ Loose(s) /\ Active(s) /\ Nothing(s, 0, 0) /\ Powered(s, s.level)
    /\ LevelFits(Phase(s), s.level) /\ Attended(s)
  BY DEF Ready, Base
<1>1. PICK d : d = gprs_cleanup(s)
  OBVIOUS
<1>2. /\ Kept(s, d) /\ Loose(d) /\ Nothing(d, 0, 0) /\ d.creg = s.creg
      /\ Slotted(d, "monitor") <=> Slotted(s, "monitor")
      /\ ~d.uupsdd /\ "gprs" \notin d.timers
  BY <1>1, GprsClean
<1>3. /\ Phase(d) = Phase(s) /\ Active(d) /\ Powered(d, s.level) /\ (\A S : In(d, S) <=> In(s, S))
      /\ \A k : Queued(d, k) <=> Queued(s, k)
  BY <1>2, KeptPhase
<1>4. d \in ModemRecords /\ d.level = s.level /\ d.state = "IN_SUBSTATE" /\ d.inter = s.inter
  BY <1>2 DEF Kept
<1>5. ~In(s, {"DO_POWER_OFF"})
  BY DEF In, Phase
<1>6. s.level = GPRS /\ GPRS >= NETWORK
  BY DEF LevelFits, GPRS, NETWORK
<1>7. Attended(d)
  <2>1. Watched(s) => Watched(d)
    BY <1>2, <1>3, <1>4 DEF Watched
  <2> QED
    BY <1>3, <1>4, <2>1 DEF Attended
<1>8. Ready(d)
  BY <1>2, <1>3, <1>4, <1>7 DEF Ready, Base
<1>9. PICK q : q = reset_sub(d)
  OBVIOUS
<1>10. Minor(d, q)
  BY <1>4, <1>9, MinorSets
<1>11. Ready(q) /\ Phase(q) = Phase(d) /\ q \in ModemRecords /\ q.state = "IN_SUBSTATE"
  BY <1>4, <1>8, <1>10, MinorReady DEF Minor
<1>12. "disable_CGATT" \in Commands /\ Belongs("disable_CGATT", Phase(q))
  BY <1>3, <1>11 DEF Belongs, Commands, Steps, Starts
<1>13. Detail(q, "disable_CGATT")
  BY <1>3, <1>11, DetailEasy DEF CregTimers
<1>14. Good(send_cmd(q, "disable_CGATT"))
  BY <1>11, <1>12, <1>13, SendGood
<1>15. send_cmd(q, "disable_CGATT").state = "IN_SUBSTATE"
  BY <1>11, <1>12, SendQuiet DEF Quiet
<1>16. DEBUGASSERT(s, s.level = GPRS, "wrong level") = s
  BY <1>6 DEF DEBUGASSERT, assert
<1> QED
  BY <1>1, <1>9, <1>14, <1>15, <1>16 DEF start_close_gprs

(* What the registration is started from, after three assertions.          *)
LEMMA SetupNetworkForm ==
  ASSUME NEW s, s \in ModemRecords, s.run # "stop", s.level = SIM_ENABLED,
         s.timers \cap CregTimers = {}, DebugBuild
  PROVE  \E b : /\ IF ~s.creg THEN b = s
                   ELSE b = [s EXCEPT !.run = "stop", !.fail = "+CREG handler left"]
               /\ start_setup_network(s) =
                    send_cmd([reset_sub(b) EXCEPT !.net = "ENABLING_CREG", !.got = FALSE,
                                                  !.keep = FALSE, !.cleanup = TRUE], "CREG")
<1> DEFINE a == DEBUGASSERT(s, s.level = SIM_ENABLED, "wrong level")
           b == DEBUGASSERT(a, ~s.creg, "+CREG handler left")
           c == DEBUGASSERT(b, s.timers \cap CregTimers = {}, "creg timer left")
<1>1. start_setup_network(s) =
        send_cmd([reset_sub(c) EXCEPT !.net = "ENABLING_CREG", !.got = FALSE,
                                      !.keep = FALSE, !.cleanup = TRUE], "CREG")
  BY DEF start_setup_network
<1>2. a = s
  BY DEF DEBUGASSERT, assert
<1>3. c = b
  BY DEF DEBUGASSERT, assert
<1>4. IF ~s.creg THEN b = a
      ELSE b = IF a.run = "stop" THEN a
               ELSE [a EXCEPT !.run = "stop", !.fail = "+CREG handler left"]
  BY DEF DEBUGASSERT, assert
<1> HIDE DEF a, b, c
<1> QED
  BY <1>1, <1>2, <1>3, <1>4, Zenon

(* The registration is started, with no handler of +CREG left.             *)
LEMMA NetworkStarts ==
  ASSUME NEW m, Base(m), Starting(m), m.state = "SETUP_NETWORK", DebugBuild,
         NEW s, s \in ModemRecords, s.run = m.run,
         Entered(m, [reset_sub(s) EXCEPT !.net = "ENABLING_CREG", !.got = FALSE,
                                         !.keep = FALSE, !.cleanup = TRUE])
  PROVE  LET c == start_setup_network(s) IN
         Good(c) /\ (c.state = "IN_SUBSTATE" \/ c.run = "stop")
<1>1. m.state \in Starts /\ m.level = SIM_ENABLED /\ m \in ModemRecords
  BY DEF Starts, Base, LevelFits, Phase, Loose
<1>2. s \in ModemRecords /\ s.run = m.run /\ s.run # "stop"
  BY DEF Base, Loose
<1>3. PICK e : e = [reset_sub(s) EXCEPT !.net = "ENABLING_CREG", !.got = FALSE,
                                        !.keep = FALSE, !.cleanup = TRUE]
  OBVIOUS
<1>4. Entered(m, e)
  BY <1>3
<1>5. Ready(e) /\ Phase(e) = "SETUP_NETWORK" /\ Alone(e, "none", "none", "none")
  BY <1>1, <1>4, EnteredKept DEF Nothing
<1>6. Minor(s, reset_sub(s))
  BY <1>2, MinorSets
<1>7. /\ e.off = s.off /\ e.vcc_off = s.vcc_off
      /\ e.level = s.level /\ e.creg = s.creg /\ e.timers = s.timers /\ ~e.keep
      /\ e.net = "ENABLING_CREG"
  <2>1. PICK q : q = reset_sub(s)
    OBVIOUS
  <2>2. /\ q \in ModemRecords /\ q.level = s.level /\ q.creg = s.creg /\ q.timers = s.timers
        /\ q.off = s.off /\ q.vcc_off = s.vcc_off
    BY <1>6, <2>1 DEF Minor
  <2>3. e = [q EXCEPT !.net = "ENABLING_CREG", !.got = FALSE, !.keep = FALSE, !.cleanup = TRUE]
    BY <1>3, <2>1
  <2>4. /\ e.off = q.off /\ e.vcc_off = q.vcc_off
        /\ e.level = q.level /\ e.creg = q.creg /\ e.timers = q.timers /\ ~e.keep
        /\ e.net = "ENABLING_CREG"
    BY <2>2, <2>3 DEF ModemRecords
  <2> QED
    BY <2>2, <2>4
<1>8. s.level = SIM_ENABLED /\ s.creg = m.creg
  BY <1>1, <1>4, <1>7 DEF Entered
<1>9. s.timers \cap CregTimers = {}
  <2>1. CregTimers \subseteq WorkTimers /\ "none" \notin CregTimers
    BY DEF CregTimers, WorkTimers, Timers
  <2> QED
    BY <1>5, <1>7, <2>1 DEF Alone
<1>10. PICK b : /\ IF ~s.creg THEN b = s
                   ELSE b = [s EXCEPT !.run = "stop", !.fail = "+CREG handler left"]
                /\ start_setup_network(s) =
                    send_cmd([reset_sub(b) EXCEPT !.net = "ENABLING_CREG", !.got = FALSE,
                                                  !.keep = FALSE, !.cleanup = TRUE], "CREG")
  BY <1>2, <1>8, <1>9, SetupNetworkForm, Zenon
<1>11. "CREG" \in Commands
  BY DEF Commands
<1>12. CASE ~s.creg
  <2>1. Belongs("CREG", Phase(e))
    BY <1>5, <1>11 DEF Belongs, Steps, Starts
  <2>2. Detail(e, "CREG")
    BY <1>5, <1>7, <1>12 DEF Detail, CregTimers
  <2>3. Good(send_cmd(e, "CREG"))
    BY <1>5, <1>11, <2>1, <2>2, SendGood
  <2>4. e \in ModemRecords /\ e.state = "IN_SUBSTATE"
    BY <1>4 DEF Entered
  <2>5. send_cmd(e, "CREG").state = "IN_SUBSTATE"
    BY <1>11, <2>4, SendQuiet DEF Quiet
  <2>6. start_setup_network(s) = send_cmd(e, "CREG")
    BY <1>3, <1>10, <1>12, Zenon
  <2> QED
    BY <2>3, <2>5, <2>6
<1>13. CASE s.creg
  <2>1. b \in ModemRecords
    <3>1. "+CREG handler left" \in Failures
      BY DEF Failures
    <3>2. b = [s EXCEPT !.run = "stop", !.fail = "+CREG handler left"]
      BY <1>10, <1>13, Zenon
    <3> QED
      BY <1>2, <3>1, <3>2, StopQuiet, Zenon DEF Quiet
  <2>2. b.run = "stop" /\ b.level = s.level /\ b.off = s.off /\ b.vcc_off = s.vcc_off
    <3>1. PICK name : name = "+CREG handler left"
      OBVIOUS
    <3>2. b = [s EXCEPT !.run = "stop", !.fail = name]
      BY <1>10, <1>13, <3>1, Zenon
    <3> QED
      BY <1>2, <3>2 DEF ModemRecords
  <2>3. PICK q : q = reset_sub(b)
    OBVIOUS
  <2>4. /\ q \in ModemRecords /\ q.run = "stop" /\ q.level = s.level /\ q.off = s.off
        /\ q.vcc_off = s.vcc_off
    BY <2>1, <2>2, <2>3, MinorSets DEF Minor
  <2>5. PICK f : f = [q EXCEPT !.net = "ENABLING_CREG", !.got = FALSE, !.keep = FALSE,
                               !.cleanup = TRUE]
    OBVIOUS
  <2>6. "ENABLING_CREG" \in NetworkStates
    BY DEF NetworkStates
  <2>7. Quiet(q, f)
    BY <2>4, <2>5, <2>6, NetQuiet, Literals, Zenon
  <2>8. f \in ModemRecords /\ f.run = "stop"
    BY <2>4, <2>7 DEF Quiet
  <2>9. Good(send_cmd(f, "CREG"))
    <3>1. f.level = s.level /\ f.off = s.off /\ f.vcc_off = s.vcc_off
      BY <2>4, <2>5 DEF ModemRecords
    <3>2. s.off = m.off /\ s.vcc_off = m.vcc_off /\ s.level = m.level
      BY <1>4, <1>7 DEF Entered
    <3>3. Powered(f, f.level)
      BY <3>1, <3>2 DEF Base, Powered
    <3> QED
      BY <1>11, <2>8, <3>3, StoppedGood
  <2>10. send_cmd(f, "CREG").run = "stop"
    BY <1>11, <2>8, SendQuiet DEF Quiet
  <2>11. start_setup_network(s) = send_cmd(f, "CREG")
    BY <1>10, <2>3, <2>5, Zenon
  <2> QED
    BY <2>9, <2>10, <2>11
<1> QED
  BY <1>12, <1>13

-----------------------------------------------------------------------------
(* One iteration of the main state machine.                                *)

(* d is m back in the poll loop, the activity of the wake timer paid.      *)
Settled(m, d) ==
  /\ d \in ModemRecords
  /\ d.state = m.state /\ d.level = m.level /\ d.target = m.target /\ d.inter = m.inter
  /\ d.force = m.force /\ d.cmd = m.cmd /\ d.delayed = m.delayed /\ d.timers = m.timers
  /\ d.urc = m.urc /\ d.creg = m.creg /\ d.uupsdd = m.uupsdd /\ d.tasks = m.tasks
  /\ d.keep = m.keep /\ d.cleanup = m.cleanup /\ d.off = m.off /\ d.vcc_off = m.vcc_off
  /\ d.ask = m.ask /\ d.sub = m.sub /\ d.net = m.net /\ d.pos = m.pos
  /\ d.low = m.low /\ d.high = m.high - Flag(m.run = "wake") /\ d.run = "poll"

LEMMA PollFields ==
  ASSUME NEW p \in ModemRecords
  PROVE  \E d \in ModemRecords :
           /\ d = [p EXCEPT !.run = "poll"]
           /\ d.state = p.state /\ d.level = p.level /\ d.target = p.target /\ d.inter = p.inter
           /\ d.force = p.force /\ d.cmd = p.cmd /\ d.delayed = p.delayed
           /\ d.timers = p.timers /\ d.urc = p.urc /\ d.creg = p.creg /\ d.uupsdd = p.uupsdd
           /\ d.tasks = p.tasks /\ d.keep = p.keep /\ d.cleanup = p.cleanup /\ d.off = p.off
           /\ d.vcc_off = p.vcc_off /\ d.ask = p.ask /\ d.sub = p.sub /\ d.net = p.net
           /\ d.pos = p.pos /\ d.low = p.low /\ d.high = p.high /\ d.run = "poll"
<1>1. PICK d : d = [p EXCEPT !.run = "poll"]
  OBVIOUS
<1>2. d \in ModemRecords
  BY <1>1 DEF ModemRecords
<1>3. /\ d.state = p.state /\ d.level = p.level /\ d.target = p.target /\ d.inter = p.inter
      /\ d.force = p.force /\ d.cmd = p.cmd /\ d.delayed = p.delayed /\ d.timers = p.timers
      /\ d.urc = p.urc /\ d.creg = p.creg /\ d.uupsdd = p.uupsdd /\ d.tasks = p.tasks
      /\ d.keep = p.keep /\ d.cleanup = p.cleanup /\ d.off = p.off /\ d.vcc_off = p.vcc_off
      /\ d.ask = p.ask /\ d.sub = p.sub /\ d.net = p.net /\ d.pos = p.pos
      /\ d.low = p.low /\ d.high = p.high /\ d.run = "poll"
  BY <1>1 DEF ModemRecords
<1> QED
  BY <1>1, <1>2, <1>3

LEMMA SettledFields ==
  ASSUME NEW m \in ModemRecords,
         NEW d, d = [pm_high(m, IF m.run = "wake" THEN -1 ELSE 0) EXCEPT !.run = "poll"]
  PROVE  Settled(m, d)
<1>1. PICK v : v = IF m.run = "wake" THEN -1 ELSE 0
  OBVIOUS
<1>2. v \in Int /\ v = 0 - Flag(m.run = "wake")
  BY <1>1 DEF Flag
<1>3. PICK p : p = pm_high(m, v)
  OBVIOUS
<1>4. Same(m, p) /\ p.high = m.high + v /\ p.low = m.low
      /\ p.cmd = m.cmd /\ p.delayed = m.delayed /\ p.timers = m.timers
  BY <1>2, <1>3, CountsSame
<1>5. d = [p EXCEPT !.run = "poll"] /\ p \in ModemRecords
  BY <1>1, <1>3, <1>4 DEF Same
<1>6. p.high = m.high - Flag(m.run = "wake")
  BY <1>2, <1>4 DEF Flag, ModemRecords
<1>7. PICK e \in ModemRecords :
        /\ e = [p EXCEPT !.run = "poll"]
        /\ e.state = p.state /\ e.level = p.level /\ e.target = p.target /\ e.inter = p.inter
        /\ e.force = p.force /\ e.cmd = p.cmd /\ e.delayed = p.delayed
        /\ e.timers = p.timers /\ e.urc = p.urc /\ e.creg = p.creg /\ e.uupsdd = p.uupsdd
        /\ e.tasks = p.tasks /\ e.keep = p.keep /\ e.cleanup = p.cleanup /\ e.off = p.off
        /\ e.vcc_off = p.vcc_off /\ e.ask = p.ask /\ e.sub = p.sub /\ e.net = p.net
        /\ e.pos = p.pos /\ e.low = p.low /\ e.high = p.high /\ e.run = "poll"
  BY <1>5, PollFields, Zenon
<1>8. Settled(m, e)
  BY <1>4, <1>6, <1>7 DEF Settled, Same
<1> QED
  BY <1>5, <1>7, <1>8

LEMMA SettledGood ==
  ASSUME NEW m, Base(m), Idle(m) \/ \E x \in Steps : Busy(m, x), NEW d, Settled(m, d)
  PROVE  Good(d)
<1>1. m \in ModemRecords /\ Loose(m)
  BY DEF Base, Loose
<1>2. Phase(d) = Phase(m) /\ (\A S : In(d, S) <=> In(m, S))
  BY DEF Phase, In, Settled
<1>3. /\ \A u : Slotted(d, u) <=> Slotted(m, u)
      /\ \A k : Queued(d, k) <=> Queued(m, k)
      /\ OneCreg(d) <=> OneCreg(m)
  <2>1. d.urc = m.urc /\ d.creg = m.creg /\ d.uupsdd = m.uupsdd /\ d.tasks = m.tasks
    BY DEF Settled
  <2> QED
    BY <2>1, WatchKept
<1>4. Loose(d)
  BY <1>1, <1>2, <1>3 DEF Loose, Settled
<1>5. Watched(m) => Watched(d)
  BY <1>3 DEF Watched, Settled
<1>6. Attended(m) => Attended(d)
  BY <1>2, <1>3, <1>5 DEF Attended, Settled
<1>7. Base(d)
  BY <1>2, <1>4, <1>6 DEF Base, Powered, Settled
<1>8. ASSUME NEW lo \in Int, NEW hi \in Int, Balance(m, lo, hi) PROVE Balance(d, lo, hi)
  <2>1. d.high = m.high - Flag(m.run = "wake") /\ d.run = "poll" /\ d.timers = m.timers
        /\ d.low = m.low /\ d.state = m.state /\ m.high \in Int
    BY <1>1 DEF Settled, ModemRecords
  <2>2. Flag(d.run = "wake") = 0 /\ Flag(m.run = "wake") \in Int /\ Flag("wake" \in m.timers) \in Int
    BY <2>1 DEF Flag
  <2>3. d.high = hi + Flag("wake" \in m.timers)
    BY <1>8, <2>1, <2>2 DEF Balance
  <2> QED
    BY <1>8, <2>1, <2>2, <2>3 DEF Balance
<1>9. \A c, e, t : Alone(m, c, e, t) => Alone(d, c, e, t)
  BY DEF Alone, Settled
<1>10. CASE Idle(m)
  <2>1. Nothing(d, 0, 0)
    BY <1>8, <1>9, <1>10, Literals DEF Idle, Nothing
  <2>2. Idle(d)
    BY <1>10, <2>1 DEF Idle, Settled
  <2> QED
    BY <1>7, <2>2 DEF Good, Settled
<1>11. CASE \E x \in Steps : Busy(m, x)
  <2>1. PICK x \in Steps : Busy(m, x)
    BY <1>11
  <2>2. \A b : Flag(b) \in Int
    BY DEF Flag
  <2>3. Has(d, x)
    BY <1>8, <1>9, <2>1, <2>2, Literals DEF Busy, Has, Sent, Later, Timed
  <2>4. Active(d)
    BY <2>1 DEF Busy, Active, Settled
  <2>5. Detail(d, x)
    BY <1>2, <1>3, <2>1 DEF Busy, Detail, Settled
  <2>6. Busy(d, x)
    BY <1>2, <2>1, <2>3, <2>4, <2>5 DEF Busy
  <2> QED
    BY <1>7, <2>6 DEF Good, Settled
<1> QED
  BY <1>10, <1>11

(* d is m with another state, and the activity of it.                      *)
Risen(m, s, d) ==
  /\ d \in ModemRecords
  /\ d.state = s /\ d.level = m.level /\ d.target = m.target /\ d.inter = m.inter
  /\ d.force = m.force /\ d.cmd = m.cmd /\ d.delayed = m.delayed /\ d.timers = m.timers
  /\ d.urc = m.urc /\ d.creg = m.creg /\ d.uupsdd = m.uupsdd /\ d.tasks = m.tasks
  /\ d.keep = m.keep /\ d.cleanup = m.cleanup /\ d.off = m.off /\ d.vcc_off = m.vcc_off
  /\ d.ask = m.ask /\ d.sub = m.sub /\ d.run = m.run
  /\ d.low = m.low + 1 /\ d.high = m.high

LEMMA RisenFields ==
  ASSUME NEW m \in ModemRecords, NEW s \in States
  PROVE  Risen(m, s, [pm_low(m, 1) EXCEPT !.state = s])
<1>1. PICK p : p = pm_low(m, 1)
  OBVIOUS
<1>2. Same(m, p) /\ p.high = m.high /\ p.low = m.low + 1
      /\ p.cmd = m.cmd /\ p.delayed = m.delayed /\ p.timers = m.timers
  BY <1>1, Literals, CountsSame
<1>3. p \in ModemRecords
  BY <1>2 DEF Same
<1>4. PICK d : d = [p EXCEPT !.state = s]
  OBVIOUS
<1>5. d \in ModemRecords
  BY <1>3, <1>4, ZenonT(60) DEF ModemRecords
<1>6. /\ d.state = s /\ d.level = p.level /\ d.target = p.target /\ d.inter = p.inter
      /\ d.force = p.force /\ d.cmd = p.cmd /\ d.delayed = p.delayed /\ d.timers = p.timers
      /\ d.urc = p.urc /\ d.creg = p.creg /\ d.uupsdd = p.uupsdd /\ d.tasks = p.tasks
      /\ d.keep = p.keep /\ d.cleanup = p.cleanup /\ d.off = p.off /\ d.vcc_off = p.vcc_off
      /\ d.ask = p.ask /\ d.sub = p.sub /\ d.run = p.run
      /\ d.low = p.low /\ d.high = p.high
  BY <1>3, <1>4 DEF ModemRecords
<1>7. Risen(m, s, d)
  BY <1>2, <1>5, <1>6 DEF Risen, Same
<1> QED
  BY <1>1, <1>4, <1>7

(* The modem that waits goes on with the next thing there is to do.        *)
LEMMA WaitingGoesOn ==
  ASSUME NEW m, Base(m), Idle(m), in_state_machine(m), waiting_next_state(m) # "WAITING"
  PROVE  LET d == change_state(m, waiting_next_state(m)) IN Good(d) /\ d.state # "WAITING"
<1>1. PICK s : s = waiting_next_state(m)
  OBVIOUS
<1>2. m \in ModemRecords /\ Loose(m) /\ m.state = "WAITING" /\ (\A S : ~In(m, S)) /\ ~m.cleanup
  BY DEF Base, Loose, Idle, In
<1>3. /\ s \in Starts \cup Works /\ LevelFits(s, m.level)
      /\ s = "OPEN_GPRS_CONNECTION" => m.target = GPRS
      /\ s \in Works => m.target = m.level /\ m.inter \in {LEVEL_MAX, m.level}
  BY <1>1, <1>2, NextStarts
<1>4. s \in States /\ s # "WAITING" /\ s # "IN_SUBSTATE"
  BY <1>3 DEF Starts, Works, States
<1>5. PICK d : d = [pm_low(m, 1) EXCEPT !.state = s]
  OBVIOUS
<1>6. Risen(m, s, d)
  BY <1>2, <1>4, <1>5, RisenFields
<1>7. change_state(m, s) = d
  <2>1. change_state(m, s) = wake_waiting_state(d, TRUE)
    BY <1>2, <1>4, <1>5 DEF change_state
  <2>2. in_state_machine(d)
    BY <1>6 DEF in_state_machine, Risen
  <2> QED
    BY <2>1, <2>2 DEF wake_waiting_state
<1>8. Phase(d) = s /\ (\A S : ~In(d, S))
  BY <1>4, <1>6 DEF Phase, In, Risen
<1>9. /\ \A u : Slotted(d, u) <=> Slotted(m, u)
      /\ \A k : Queued(d, k) <=> Queued(m, k)
      /\ OneCreg(d) <=> OneCreg(m)
  <2>1. d.urc = m.urc /\ d.creg = m.creg /\ d.uupsdd = m.uupsdd /\ d.tasks = m.tasks
    BY <1>6 DEF Risen
  <2> QED
    BY <2>1, WatchKept
<1>10. Loose(d)
  BY <1>2, <1>6, <1>8, <1>9 DEF Loose, Risen
<1>11. Attended(d)
  <2>1. Watched(m) => Watched(d)
    BY <1>6, <1>9 DEF Watched, Risen
  <2>2. Attended(m) /\ d.level = m.level
    BY <1>6 DEF Base, Risen
  <2> QED
    BY <1>2, <2>1, <2>2 DEF Attended
<1>12. Base(d)
  BY <1>3, <1>6, <1>8, <1>10, <1>11 DEF Base, Powered, Risen
<1>13. Nothing(d, 0, 0)
  <2>1. Alone(m, "none", "none", "none") /\ Balance(m, 0, 0)
    BY DEF Idle, Nothing
  <2>2. Alone(d, "none", "none", "none")
    BY <1>6, <2>1 DEF Alone, Risen
  <2>3. Flag(m.state # "WAITING") = 0 /\ Flag(d.state # "WAITING") = 1
        /\ Flag("gprs" \in m.timers) \in Int
    BY <1>2, <1>4, <1>6 DEF Flag, Risen
  <2>4. d.low = m.low + 1 /\ d.high = m.high /\ d.timers = m.timers /\ d.run = m.run
    BY <1>6 DEF Risen
  <2>5. Balance(d, 0, 0)
    BY <2>1, <2>3, <2>4 DEF Balance
  <2> QED
    BY <2>2, <2>5 DEF Nothing
<1>14. Starting(d)
  <2>1. in_state_machine(d) /\ d.state \in Starts \cup Works /\ d.run # "poll"
    BY <1>3, <1>6 DEF in_state_machine, Risen
  <2>2. "wake" \in d.timers => d.state \notin Works
    BY <1>1, <1>6, <2>1 DEF Idle, Risen
  <2>3. d.state \in Works => d.inter \in {LEVEL_MAX, d.level}
    BY <1>3, <1>6 DEF Risen
  <2> QED
    BY <1>13, <2>1, <2>2, <2>3 DEF Starting
<1>15. Good(d)
  BY <1>12, <1>14 DEF Good, Base, Loose
<1> QED
  BY <1>1, <1>4, <1>6, <1>7, <1>15 DEF Risen

(* Work that is begun has a command pending, or is over.                   *)
LEMMA WorkIteration ==
  ASSUME NEW m, Base(m), Starting(m), NEW c, Begun(m, c)
  PROVE  Good(IF c.state # m.state \/ c.run = "stop" THEN c
              ELSE [pm_high(c, IF m.run = "wake" THEN -1 ELSE 0) EXCEPT !.run = "poll"])
<1>1. CASE Good(c) /\ c.state # m.state
  BY <1>1
<1>2. CASE Base(c) /\ (\E x \in Steps : Busy(c, x)) /\ c.state = m.state /\ c.run = m.run
  <2>1. c \in ModemRecords /\ c.run # "stop"
    BY <1>2 DEF Base, Loose
  <2>2. PICK d : d = [pm_high(c, IF m.run = "wake" THEN -1 ELSE 0) EXCEPT !.run = "poll"]
    OBVIOUS
  <2>3. d = [pm_high(c, IF c.run = "wake" THEN -1 ELSE 0) EXCEPT !.run = "poll"]
    BY <1>2, <2>2
  <2>4. Settled(c, d)
    BY <2>1, <2>3, SettledFields
  <2>5. Good(d)
    BY <1>2, <2>4, SettledGood
  <2> QED
    BY <1>2, <2>1, <2>2, <2>5
<1> QED
  BY <1>1, <1>2 DEF Begun

(* A sub-state machine is started.                                         *)
LEMMA StartIteration ==
  ASSUME NEW m, Base(m), Starting(m), m.state \in Starts, DebugBuild
  PROVE  LET c == state_machine_case(m) IN
         Good(c) /\ (c.state # m.state \/ c.run = "stop")
<1>1. PICK s : s = [change_state(m, "IN_SUBSTATE") EXCEPT !.sub = m.state]
  OBVIOUS
<1>2. PICK c : c = state_machine_case(m)
  OBVIOUS
<1>3. m.state # "IN_SUBSTATE"
  BY DEF Starts
<1>4. CASE m.state = "SETUP_NETWORK"
  <2>1. /\ s \in ModemRecords /\ s.run = m.run
        /\ Entered(m, [reset_sub(s) EXCEPT !.net = "ENABLING_CREG", !.got = FALSE,
                                           !.keep = FALSE, !.cleanup = TRUE])
    BY <1>1, <1>4, EnteredSub
  <2>2. c = start_setup_network(s)
    BY <1>1, <1>2, <1>4 DEF state_machine_case
  <2>3. Good(c) /\ (c.state = "IN_SUBSTATE" \/ c.run = "stop")
    BY <1>4, <2>1, <2>2, NetworkStarts
  <2> QED
    BY <1>2, <1>3, <2>3
<1>5. CASE m.state # "SETUP_NETWORK"
  <2>1. Entered(m, s)
    BY <1>1, <1>5, EnteredSub
  <2>2. Ready(s) /\ Phase(s) = m.state
    BY <2>1, EnteredKept
  <2>3. s.state = "IN_SUBSTATE"
    BY <2>1 DEF Entered
  <2>4. CASE m.state = "DO_POWER_ON"
    <3>1. c = start_do_power_on(s)
      BY <1>1, <1>2, <2>4 DEF state_machine_case
    <3> QED
      BY <1>2, <1>3, <2>2, <2>3, <2>4, <3>1, PowerStarts
  <2>5. CASE m.state = "DO_RESET"
    <3>1. c = start_do_reset(s)
      BY <1>1, <1>2, <2>5 DEF state_machine_case
    <3> QED
      BY <1>2, <1>3, <2>2, <2>3, <2>5, <3>1, PowerStarts
  <2>6. CASE m.state = "DO_POWER_OFF"
    <3>1. c = start_do_power_off(s)
      BY <1>1, <1>2, <2>6 DEF state_machine_case
    <3> QED
      BY <1>2, <1>3, <2>2, <2>3, <2>6, <3>1, PowerOffStarts
  <2>7. CASE m.state = "SETUP_CMD_PROMPT"
    <3>1. c = start_setup_cmd_prompt(s)
      BY <1>1, <1>2, <2>7 DEF state_machine_case
    <3> QED
      BY <1>2, <1>3, <2>2, <2>3, <2>7, <3>1, SetupStarts
  <2>8. CASE m.state = "SETUP_SIM"
    <3>1. c = start_setup_sim(s)
      BY <1>1, <1>2, <2>8 DEF state_machine_case
    <3> QED
      BY <1>2, <1>3, <2>2, <2>3, <2>8, <3>1, SetupStarts
  <2>9. CASE m.state = "OPEN_GPRS_CONNECTION"
    <3>1. c = start_open_gprs(s)
      BY <1>1, <1>2, <2>9 DEF state_machine_case
    <3> QED
      BY <1>2, <1>3, <2>2, <2>3, <2>9, <3>1, SetupStarts
  <2>10. CASE m.state = "CLOSE_GPRS_CONNECTION"
    <3>1. c = start_close_gprs(s)
      BY <1>1, <1>2, <2>10 DEF state_machine_case
    <3> QED
      BY <1>2, <1>3, <2>2, <2>3, <2>10, <3>1, CloseStarts
  <2> QED
    BY <1>5, <2>4, <2>5, <2>6, <2>7, <2>8, <2>9, <2>10 DEF Starts
<1> QED
  BY <1>4, <1>5

LEMMA IterationGood ==
  ASSUME NEW m, Good(m), in_state_machine(m), Careful
  PROVE  Good(state_machine_iteration(m))
<1>1. m.run # "stop" /\ Base(m) /\ m \in ModemRecords /\ m.run # "poll" /\ DebugBuild
  BY DEF in_state_machine, Good, Base, Loose, Careful
<1>2. PICK c : c = state_machine_case(m)
  OBVIOUS
<1>3. PICK i : i = IF c.state # m.state \/ c.run = "stop" THEN c
              ELSE [pm_high(c, IF m.run = "wake" THEN -1 ELSE 0) EXCEPT !.run = "poll"]
  OBVIOUS
<1>4. state_machine_iteration(m) = i
  BY <1>2, <1>3 DEF state_machine_iteration
<1>5. ASSUME c = m, Idle(m) \/ \E x \in Steps : Busy(m, x) PROVE Good(i)
  <2>1. i = [pm_high(m, IF m.run = "wake" THEN -1 ELSE 0) EXCEPT !.run = "poll"]
    BY <1>1, <1>3, <1>5
  <2>2. Settled(m, i)
    BY <1>1, <2>1, SettledFields
  <2> QED
    BY <1>1, <1>5, <2>2, SettledGood
<1>6. CASE Idle(m)
  <2>1. m.state = "WAITING"
    BY <1>6 DEF Idle
  <2>2. CASE waiting_next_state(m) = "WAITING"
    <3>1. c = m
      BY <1>2, <2>1, <2>2 DEF state_machine_case
    <3> QED
      BY <1>4, <1>5, <1>6, <3>1
  <2>3. CASE waiting_next_state(m) # "WAITING"
    <3>1. c = change_state(m, waiting_next_state(m))
      BY <1>2, <2>1, <2>3 DEF state_machine_case
    <3>2. Good(c) /\ c.state # "WAITING"
      BY <1>1, <1>6, <2>3, <3>1, WaitingGoesOn
    <3> QED
      BY <1>3, <1>4, <2>1, <3>2
  <2> QED
    BY <2>2, <2>3
<1>7. CASE Starting(m)
  <2>1. CASE m.state \in Starts
    <3>1. Good(c) /\ (c.state # m.state \/ c.run = "stop")
      BY <1>1, <1>2, <1>7, <2>1, StartIteration
    <3> QED
      BY <1>3, <1>4, <3>1
  <2>2. CASE m.state = "DO_TASK_WORK"
    <3>1. c = modem_do_task_work(m)
      BY <1>2, <2>2 DEF state_machine_case
    <3>2. Begun(m, c)
      BY <1>1, <1>7, <2>2, <3>1, TaskBegun
    <3> QED
      BY <1>1, <1>3, <1>4, <1>7, <3>2, WorkIteration
  <2>3. CASE m.state = "DO_SOCKET_WORK"
    <3>1. c = do_usrsock_work(m)
      BY <1>2, <2>3 DEF state_machine_case
    <3>2. Begun(m, c)
      BY <1>1, <1>7, <2>3, <3>1, SocketBegun
    <3> QED
      BY <1>1, <1>3, <1>4, <1>7, <3>2, WorkIteration
  <2> QED
    BY <1>7, <2>1, <2>2, <2>3 DEF Starting, Works
<1>8. CASE (m.state \in Works => m.run = "poll") /\ \E x \in Steps : Busy(m, x)
  <2>1. m.state = "IN_SUBSTATE"
    BY <1>1, <1>8 DEF Busy, Active
  <2>2. c = m
    BY <1>2, <2>1 DEF state_machine_case
  <2> QED
    BY <1>4, <1>5, <1>8, <2>2
<1> QED
  BY <1>1, <1>6, <1>7, <1>8 DEF Good

-----------------------------------------------------------------------------
(* A callback begins and ends.                                             *)

(* d is m but for the inputs of a step and the forced level.               *)
Asks(m, d) ==
  /\ d \in ModemRecords /\ d.ask \in {NOTHING, POWERED_OFF}
  /\ d.state = m.state /\ d.level = m.level /\ d.target = m.target /\ d.inter = m.inter
  /\ d.force = m.force \/ d.force \in {POWERED_OFF, LEVEL_MAX}
  /\ d.cmd = m.cmd /\ d.delayed = m.delayed /\ d.timers = m.timers
  /\ d.urc = m.urc /\ d.creg = m.creg /\ d.uupsdd = m.uupsdd /\ d.tasks = m.tasks
  /\ d.keep = m.keep /\ d.cleanup = m.cleanup /\ d.off = m.off /\ d.vcc_off = m.vcc_off
  /\ d.sub = m.sub /\ d.net = m.net /\ d.pos = m.pos /\ d.work = m.work
  /\ d.low = m.low /\ d.high = m.high /\ d.run = m.run

LEMMA AsksFields ==
  ASSUME NEW m \in ModemRecords, NEW b \in BOOLEAN, NEW a \in {NOTHING, POWERED_OFF}
  PROVE  Asks(m, enter(m, b, a)) /\ Asks(m, leave(m))
<1>1. ASSUME NEW x \in BOOLEAN, NEW y \in {NOTHING, POWERED_OFF}
      PROVE  Asks(m, [m EXCEPT !.soon = x, !.ask = y])
  <2>1. PICK d : d = [m EXCEPT !.soon = x, !.ask = y]
    OBVIOUS
  <2>2. y \in Levels \cup {NOTHING}
    BY LevelFacts
  <2>3. d \in ModemRecords
    BY <2>1, <2>2, ZenonT(60) DEF ModemRecords
  <2>4. /\ d.ask = y
        /\ d.state = m.state /\ d.level = m.level /\ d.target = m.target /\ d.inter = m.inter
        /\ d.force = m.force /\ d.cmd = m.cmd /\ d.delayed = m.delayed /\ d.timers = m.timers
        /\ d.urc = m.urc /\ d.creg = m.creg /\ d.uupsdd = m.uupsdd /\ d.tasks = m.tasks
        /\ d.keep = m.keep /\ d.cleanup = m.cleanup /\ d.off = m.off /\ d.vcc_off = m.vcc_off
        /\ d.sub = m.sub /\ d.net = m.net /\ d.pos = m.pos /\ d.work = m.work
        /\ d.low = m.low /\ d.high = m.high /\ d.run = m.run
    BY <2>1 DEF ModemRecords
  <2>5. Asks(m, d)
    BY <2>3, <2>4 DEF Asks
  <2> QED
    BY <2>1, <2>5
<1>2. Asks(m, enter(m, b, a))
  BY <1>1 DEF enter
<1>3. Asks(m, leave(m))
  BY <1>1, Literals DEF leave
<1> QED
  BY <1>2, <1>3

(* They make no difference to the invariant.                               *)
LEMMA AsksGood ==
  ASSUME NEW m, Good(m), NEW d, Asks(m, d)
  PROVE  Good(d)
<1>1. CASE m.run = "stop"
  <2>1. /\ d.run = "stop" /\ d.level = m.level /\ d.off = m.off /\ d.vcc_off = m.vcc_off
    BY <1>1 DEF Asks
  <2> QED
    BY <1>1, <2>1 DEF Good, Powered
<1>2. CASE m.run # "stop"
  <2>1. Base(m) /\ m \in ModemRecords /\ Loose(m)
    BY <1>2 DEF Good, Base, Loose
  <2>2. Phase(d) = Phase(m) /\ (\A S : In(d, S) <=> In(m, S))
    BY DEF Phase, In, Asks
  <2>3. /\ \A u : Slotted(d, u) <=> Slotted(m, u)
        /\ \A k : Queued(d, k) <=> Queued(m, k)
        /\ OneCreg(d) <=> OneCreg(m)
    <3>1. d.urc = m.urc /\ d.creg = m.creg /\ d.uupsdd = m.uupsdd /\ d.tasks = m.tasks
      BY DEF Asks
    <3> QED
      BY <3>1, WatchKept
  <2>4. Loose(d)
    BY <2>1, <2>2, <2>3 DEF Loose, Asks
  <2>5. Watched(m) => Watched(d)
    BY <2>3 DEF Watched, Asks
  <2>6. Attended(m) => Attended(d)
    BY <2>2, <2>3, <2>5 DEF Attended, Asks
  <2>7. Base(d)
    BY <2>1, <2>2, <2>4, <2>6 DEF Base, Powered, Asks
  <2>8. \A lo, hi : Balance(m, lo, hi) => Balance(d, lo, hi)
    BY DEF Balance, Asks
  <2>9. \A c, e, t : Alone(m, c, e, t) => Alone(d, c, e, t)
    BY DEF Alone, Asks
  <2>10. waiting_next_state(d) = waiting_next_state(m)
    BY DEF waiting_next_state, Asks
  <2>11. Idle(m) => Idle(d)
    BY <2>8, <2>9, <2>10 DEF Idle, Nothing, Asks
  <2>12. Starting(m) => Starting(d)
    BY <2>8, <2>9 DEF Starting, Nothing, Asks, in_state_machine
  <2>13. ASSUME NEW x \in Steps, Busy(m, x) PROVE Busy(d, x)
    <3>1. Has(d, x)
      BY <2>8, <2>9, <2>13 DEF Busy, Has, Sent, Later, Timed
    <3>2. Active(d)
      BY <2>13 DEF Busy, Active, Asks
    <3>3. Detail(d, x)
      BY <2>2, <2>3, <2>13 DEF Busy, Detail, Asks
    <3> QED
      BY <2>2, <2>13, <3>1, <3>2, <3>3 DEF Busy
  <2>14. Idle(d) \/ Starting(d) \/ ((d.state \in Works => d.run = "poll") /\ \E x \in Steps : Busy(d, x))
    <3>1. CASE Idle(m) \/ Starting(m)
      BY <2>11, <2>12, <3>1
    <3>2. CASE (m.state \in Works => m.run = "poll") /\ \E x \in Steps : Busy(m, x)
      BY <2>13, <3>2 DEF Asks
    <3> QED
      BY <1>2, <3>1, <3>2 DEF Good
  <2>15. d.run # "stop"
    BY <1>2 DEF Asks
  <2> QED
    BY <2>7, <2>14, <2>15 DEF Good
<1> QED
  BY <1>1, <1>2

(* The timer that has fired is gone before or after.                       *)
LEMMA EnterRemove ==
  ASSUME NEW m \in ModemRecords, NEW t, NEW b, NEW a
  PROVE  enter(remove_timer(m, t), b, a) = remove_timer(enter(m, b, a), t)
BY DEF enter, remove_timer, ModemRecords

(* A command is answered, or times out: nothing is pending, and the        *)
(* handler knows where it is.                                              *)
LEMMA AnswerReady ==
  ASSUME NEW m, Good(m), m.run = "poll", m.cmd # "none",
         NEW u, u = unregister_command(remove_timer(m, "cmd"))
  PROVE  /\ Ready(u) /\ u.run = "poll" /\ Phase(u) = Phase(m) /\ u \in ModemRecords
         /\ Belongs(m.cmd, Phase(u)) /\ Detail(u, m.cmd) /\ m.cmd \in Commands
<1>1. /\ Base(m) /\ m \in ModemRecords
      /\ Idle(m) \/ \E x \in Steps : Busy(m, x)
  BY PollGood
<1>2. ~Idle(m)
  BY DEF Idle, Nothing, Alone
<1>3. PICK x \in Steps : Busy(m, x)
  BY <1>1, <1>2
<1>4. Sent(m, x) /\ x = m.cmd /\ x \in Commands
  BY <1>3 DEF Busy, Has, Sent, Later, Timed, Alone
<1>5. PICK r : r = remove_timer(m, "cmd")
  OBVIOUS
<1>6. PICK S : S = m.timers \ {"cmd"}
  OBVIOUS
<1>7. S \in SUBSET Timers /\ ("gprs" \in S <=> "gprs" \in m.timers)
      /\ ("wake" \in S <=> "wake" \in m.timers)
  BY <1>1, <1>6 DEF ModemRecords
<1>8. r = [m EXCEPT !.timers = S]
  BY <1>1, <1>5, <1>6 DEF remove_timer, ModemRecords
<1>9. Same(m, r)
  BY <1>1, <1>7, <1>8, TimersSame
<1>10. r.cmd = m.cmd /\ r.delayed = m.delayed /\ r.low = m.low /\ r.high = m.high /\ r.timers = S
  BY <1>1, <1>8 DEF ModemRecords
<1>11. PICK p : p = cmd_activity(r, r.cmd, -1)
  OBVIOUS
<1>12. r \in ModemRecords /\ r.state = m.state /\ r.run = m.run
  BY <1>9 DEF Same
<1>13. /\ Same(r, p) /\ p.cmd = r.cmd /\ p.delayed = r.delayed /\ p.timers = r.timers
       /\ p.low = r.low - Flag(LowActivity(m.cmd)) /\ p.high = r.high - Flag(~LowActivity(m.cmd))
  <2>1. CASE LowActivity(m.cmd)
    <3>1. p = pm_low(r, -1)
      BY <1>10, <1>11, <2>1 DEF cmd_activity
    <3>2. Same(r, p) /\ p.low = r.low + (-1) /\ p.high = r.high
          /\ p.cmd = r.cmd /\ p.delayed = r.delayed /\ p.timers = r.timers
      BY <1>12, <3>1, Literals, CountsSame
    <3>3. Flag(LowActivity(m.cmd)) = 1 /\ Flag(~LowActivity(m.cmd)) = 0
      BY <2>1 DEF Flag
    <3> QED
      BY <1>12, <3>2, <3>3 DEF ModemRecords
  <2>2. CASE ~LowActivity(m.cmd)
    <3>1. p = pm_high(r, -1)
      BY <1>10, <1>11, <2>2 DEF cmd_activity
    <3>2. Same(r, p) /\ p.high = r.high + (-1) /\ p.low = r.low
          /\ p.cmd = r.cmd /\ p.delayed = r.delayed /\ p.timers = r.timers
      BY <1>12, <3>1, Literals, CountsSame
    <3>3. Flag(LowActivity(m.cmd)) = 0 /\ Flag(~LowActivity(m.cmd)) = 1
      BY <2>2 DEF Flag
    <3> QED
      BY <1>12, <3>2, <3>3 DEF ModemRecords
  <2> QED
    BY <2>1, <2>2
<1>14. u = [p EXCEPT !.cmd = "none"] /\ p \in ModemRecords /\ p.state = r.state /\ p.run = r.run
  BY <1>5, <1>11, <1>13 DEF unregister_command, Same
<1>15. Same(p, u)
  <2>1. p \in ModemRecords
    BY <1>14
  <2>2. "none" \in Commands \cup {"none"}
    OBVIOUS
  <2>3. Same(p, [p EXCEPT !.cmd = "none"])
    BY <2>1, <2>2, CommandSame
  <2> QED
    BY <1>14, <2>3
<1>16. u.cmd = "none" /\ u.delayed = p.delayed /\ u.timers = p.timers /\ u.low = p.low
       /\ u.high = p.high /\ u.state = p.state /\ u.run = p.run
  <2>1. PICK z : z = [p EXCEPT !.cmd = "none"]
    OBVIOUS
  <2>2. z.cmd = "none" /\ z.delayed = p.delayed /\ z.timers = p.timers /\ z.low = p.low
        /\ z.high = p.high /\ z.state = p.state /\ z.run = p.run
    BY <1>14, <2>1 DEF ModemRecords
  <2> QED
    BY <1>14, <2>1, <2>2
<1>17. Same(m, u)
  BY <1>9, <1>13, <1>15, SameTrans
<1>18. Nothing(u, 0, 0)
  <2>1. Alone(u, "none", "none", "none")
    <3>1. "none" \notin WorkTimers /\ "cmd" \in WorkTimers
      BY DEF WorkTimers, Timers, CregTimers, HighTimers
    <3> QED
      BY <1>4, <1>6, <1>10, <1>13, <1>16, <3>1 DEF Sent, Alone
  <2>2. Balance(m, Flag(LowActivity(m.cmd)), Flag(~LowActivity(m.cmd)))
    BY <1>4 DEF Sent
  <2>3. /\ u.low = m.low - Flag(LowActivity(m.cmd)) /\ u.high = m.high - Flag(~LowActivity(m.cmd))
        /\ u.state = m.state /\ u.run = m.run
        /\ "wake" \in u.timers <=> "wake" \in m.timers
        /\ "gprs" \in u.timers <=> "gprs" \in m.timers
    BY <1>7, <1>10, <1>12, <1>13, <1>14, <1>16
  <2>4. \A b : Flag(b) \in Int
    BY DEF Flag
  <2>5. /\ Flag("wake" \in u.timers) = Flag("wake" \in m.timers)
        /\ Flag("gprs" \in u.timers) = Flag("gprs" \in m.timers)
    BY <2>3 DEF Flag
  <2>6. Balance(u, 0, 0)
    BY <2>2, <2>3, <2>4, <2>5 DEF Balance
  <2> QED
    BY <2>1, <2>6 DEF Nothing
<1>19. Base(m) /\ Active(m) /\ Belongs(m.cmd, Phase(m)) /\ Detail(m, m.cmd)
  BY <1>1, <1>3, <1>4 DEF Busy
<1>20. Ready(u) /\ Phase(u) = Phase(m) /\ \A y : Detail(m, y) => Detail(u, y)
  BY <1>17, <1>18, <1>19, SameReady
<1> QED
  BY <1>4, <1>17, <1>19, <1>20 DEF Same

(* Every command goes to the handler of its phase.                         *)
LEMMA HandleGood ==
  ASSUME NEW u, Ready(u), u.run = "poll", NEW c \in Commands, Belongs(c, Phase(u)),
         Detail(u, c), NEW r
  PROVE  Good(handle(u, c, r))
<1>1. Phase(u) \in Starts \cup Works
  BY DEF Belongs
<1>2. c \notin StepTimers
  BY DEF Commands, StepTimers, WorkTimers, Timers, CregTimers, HighTimers
<1>3. CASE Phase(u) \in {"DO_POWER_ON", "DO_RESET"}
  <2>1. c = "power_on"
    BY <1>3 DEF Belongs
  <2> QED
    BY <2>1 DEF Commands
<1>4. CASE Phase(u) = "DO_POWER_OFF"
  <2>1. c = "CPWROFF"
    BY <1>4 DEF Belongs, Commands
  <2>2. Good(CPWROFF_handler(u, r))
    BY <1>4, PowerOffGood
  <2> QED
    BY <2>1, <2>2 DEF handle
<1>5. CASE Phase(u) = "SETUP_CMD_PROMPT"
  <2>1. c \in {"initial", "flowcontrol", "CMEE", "INVALIDTEST", "CFUN_0", "COPS_2", "config"}
    BY <1>5 DEF Belongs, Commands
  <2>2. /\ Good(initial_handler(u, r)) /\ Good(enable_hw_flowcontrol_handler(u, r))
        /\ Good(CMEE_handler(u, r)) /\ Good(INVALIDCOMMANDTEST_handler(u, r))
        /\ Good(CFUN_0_handler(u, r)) /\ Good(COPS_2_handler(u, r))
        /\ Good(cmdprompt_generic_config_handler(u, r))
    BY <1>5, PromptGood
  <2> QED
    BY <2>1, <2>2 DEF handle
<1>6. CASE Phase(u) = "SETUP_SIM"
  <2>1. c \in {"check_CPIN", "set_CPIN"}
    BY <1>6 DEF Belongs, Commands
  <2>2. Good(check_CPIN_handler(u, r)) /\ Good(set_CPIN_handler(u, r))
    BY <1>6, SimGood
  <2> QED
    BY <2>1, <2>2 DEF handle
<1>7. CASE Phase(u) = "SETUP_NETWORK"
  <2>1. c \in {"CREG", "CFUN_1", "disable_COPS", "retry_COPS"}
    BY <1>7 DEF Belongs, Commands
  <2>2. CASE c = "CREG"
    <3>1. ~u.creg /\ ~u.keep
      BY <2>2 DEF Detail
    <3>2. Good(CREG_handler(u, r))
      BY <1>7, <3>1, CregGood
    <3> QED
      BY <2>2, <3>2 DEF handle
  <2>3. CASE c \in {"CFUN_1", "disable_COPS", "retry_COPS"}
    <3>1. Slotted(u, "registration") /\ ~u.keep /\ (c = "retry_COPS" => u.net = "RETRYING")
      BY <2>3 DEF Detail
    <3>2. /\ Good(CFUN_1_handler(u, r)) /\ Good(disable_COPS_handler(u, r))
          /\ u.net = "RETRYING" => Good(retry_COPS_handler(u, r))
      BY <1>7, <3>1, CfunCopsGood
    <3> QED
      BY <2>3, <3>1, <3>2 DEF handle
  <2> QED
    BY <2>1, <2>2, <2>3
<1>8. CASE Phase(u) = "OPEN_GPRS_CONNECTION"
  <2>1. c \in {"check_CGATT", "set_CGATT", "UPSND", "deactivate", "UPSD", "activate", "ipconfig"}
    BY <1>8 DEF Belongs, Commands
  <2>2. /\ Good(check_CGATT_handler(u, r)) /\ Good(set_CGATT_handler(u, r))
        /\ Good(check_UPSND_handler(u, r)) /\ Good(deactivate_UPSDA_handler(u, r))
        /\ Good(UPSD_handler(u, r)) /\ Good(activate_UPSDA_handler(u, r))
        /\ Good(check_ipconfig_handler(u, r))
    BY <1>8, AttachGood, ActivateGood, IpconfigGood
  <2> QED
    BY <2>1, <2>2 DEF handle
<1>9. CASE Phase(u) = "CLOSE_GPRS_CONNECTION"
  <2>1. c \in {"disable_CGATT", "abort"}
    BY <1>9 DEF Belongs
  <2>2. Good(disable_CGATT_handler(u, c, r))
    BY <1>9, CloseGood
  <2> QED
    BY <2>1, <2>2 DEF handle
<1>10. CASE Phase(u) = "DO_TASK_WORK"
  <2>1. c \in {"raw", "info"} /\ Phase(u) \in Works
    BY <1>10 DEF Belongs, Commands, Works
  <2>2. Good(command_callback(u))
    BY <2>1, CallbackGood
  <2>3. c = "info" => Good(info_handler(u, r))
    <3>1. c = "info" => u.level >= SIM_ENABLED
      BY DEF Detail
    <3> QED
      BY <1>10, <3>1, InfoGood
  <2> QED
    BY <2>1, <2>2, <2>3 DEF handle
<1>11. CASE Phase(u) = "DO_SOCKET_WORK"
  <2>1. c = "socket"
    BY <1>11 DEF Belongs
  <2>2. Good(socket_handler(u, r))
    BY <1>11, SocketGood
  <2> QED
    BY <2>1, <2>2 DEF handle
<1> QED
  BY <1>1, <1>3, <1>4, <1>5, <1>6, <1>7, <1>8, <1>9, <1>10, <1>11 DEF Starts, Works

(* The timer of a step fires: it is the only thing that was pending.       *)
LEMMA FiredReady ==
  ASSUME NEW m, Good(m), m.run = "poll", NEW t \in StepTimers, t \in m.timers,
         NEW r, r = remove_timer(m, t)
  PROVE  /\ Base(r) /\ Active(r) /\ Phase(r) = Phase(m) /\ r.run = "poll"
         /\ Nothing(r, Flag(t \in CregTimers), Flag(t \in HighTimers))
         /\ Belongs(t, Phase(r)) /\ Detail(r, t)
<1>1. /\ Base(m) /\ m \in ModemRecords
      /\ Idle(m) \/ \E x \in Steps : Busy(m, x)
  BY PollGood
<1>2. t \in WorkTimers /\ t # "none" /\ t \notin {"cmd", "delay"} /\ "none" \notin WorkTimers
      /\ t \notin {"wake", "gprs"}
  BY DEF StepTimers, WorkTimers, Timers, CregTimers, HighTimers
<1>3. ~Idle(m)
  BY <1>2 DEF Idle, Nothing, Alone
<1>4. PICK x \in Steps : Busy(m, x)
  BY <1>1, <1>3
<1>5. Timed(m, x) /\ x = t
  BY <1>2, <1>4 DEF Busy, Has, Sent, Later, Timed, Alone
<1>6. PICK S : S = m.timers \ {t}
  OBVIOUS
<1>7. S \in SUBSET Timers /\ ("gprs" \in S <=> "gprs" \in m.timers)
      /\ ("wake" \in S <=> "wake" \in m.timers)
  BY <1>1, <1>2, <1>6 DEF ModemRecords
<1>8. r = [m EXCEPT !.timers = S]
  BY <1>1, <1>6 DEF remove_timer, ModemRecords
<1>9. Same(m, r)
  BY <1>1, <1>7, <1>8, TimersSame
<1>10. r.cmd = m.cmd /\ r.delayed = m.delayed /\ r.low = m.low /\ r.high = m.high /\ r.timers = S
  BY <1>1, <1>8 DEF ModemRecords
<1>11. r.state = m.state /\ r.run = m.run
  BY <1>9 DEF Same
<1>12. Nothing(r, Flag(t \in CregTimers), Flag(t \in HighTimers))
  <2>1. Alone(r, "none", "none", "none")
    BY <1>2, <1>5, <1>6, <1>10 DEF Timed, Alone
  <2>2. Balance(r, Flag(t \in CregTimers), Flag(t \in HighTimers))
    <3>1. /\ Flag("wake" \in r.timers) = Flag("wake" \in m.timers)
          /\ Flag("gprs" \in r.timers) = Flag("gprs" \in m.timers)
      BY <1>7, <1>10 DEF Flag
    <3> QED
      BY <1>5, <1>10, <1>11, <3>1 DEF Timed, Balance
  <2> QED
    BY <2>1, <2>2 DEF Nothing
<1>13. Active(m) /\ Belongs(t, Phase(m)) /\ Detail(m, t)
  BY <1>4, <1>5 DEF Busy
<1>14. Phase(r) = Phase(m) /\ Active(r) /\ Base(r) /\ Detail(r, t)
  BY <1>1, <1>9, <1>13, SameBase
<1> QED
  BY <1>11, <1>12, <1>13, <1>14

LEMMA StepFires ==
  ASSUME NEW m, Good(m), m.run = "poll", NEW t \in StepTimers, t \in m.timers
  PROVE  Good(handle_timer(remove_timer(m, t), t))
<1>1. PICK r : r = remove_timer(m, t)
  OBVIOUS
<1>2. /\ Base(r) /\ Active(r) /\ Phase(r) = Phase(m) /\ r.run = "poll"
      /\ Nothing(r, Flag(t \in CregTimers), Flag(t \in HighTimers))
      /\ Belongs(t, Phase(r)) /\ Detail(r, t)
  BY <1>1, FiredReady
<1>3. t \in HighTimers => Nothing(r, 0, 1)
  <2>1. t \in HighTimers => t \notin CregTimers
    BY DEF HighTimers, CregTimers
  <2> QED
    BY <1>2, <2>1 DEF Flag
<1>4. t \in CregTimers => Nothing(r, 1, 0)
  <2>1. t \in CregTimers => t \notin HighTimers
    BY DEF HighTimers, CregTimers
  <2> QED
    BY <1>2, <2>1 DEF Flag
<1>5. t \notin CregTimers \cup HighTimers => Ready(r)
  BY <1>2 DEF Flag, Ready
<1>6. CASE t = "power_on"
  <2>1. Phase(r) \in {"DO_POWER_ON", "DO_RESET"} /\ t \in HighTimers
    BY <1>2, <1>6 DEF Belongs, HighTimers, Starts, Works
  <2>2. r.pos \in 1 .. 5 /\ ~r.vcc_off
    BY <1>2, <1>6 DEF Detail
  <2>3. Good(modem_do_power_on_timer_handler(r))
    BY <1>2, <1>3, <2>1, <2>2, PowerOnGood
  <2> QED
    BY <1>1, <1>6, <2>3 DEF handle_timer
<1>7. CASE t = "poweroff"
  <2>1. Phase(r) = "DO_POWER_OFF" /\ t \notin CregTimers \cup HighTimers
    BY <1>2, <1>7 DEF Belongs, HighTimers, CregTimers, Starts, Works
  <2>2. Good(modem_do_power_off_timer_handler(r))
    BY <1>2, <1>5, <2>1, PowerOffGood
  <2> QED
    BY <1>1, <1>7, <2>2 DEF handle_timer
<1>8. CASE t = "after_initial"
  <2>1. Phase(r) = "SETUP_CMD_PROMPT" /\ t \in HighTimers
    BY <1>2, <1>8 DEF Belongs, HighTimers, Starts, Works
  <2>2. Good(delay_after_initial_handler(r))
    BY <1>2, <1>3, <2>1, AfterInitialGood
  <2> QED
    BY <1>1, <1>8, <2>2 DEF handle_timer
<1>9. CASE t = "sim_retry"
  <2>1. Phase(r) = "SETUP_SIM" /\ t \in HighTimers
    BY <1>2, <1>9 DEF Belongs, HighTimers, Starts, Works
  <2>2. Good(modem_setup_sim_retry_timer_handler(r))
    BY <1>2, <1>3, <2>1, SimRetryGood
  <2> QED
    BY <1>1, <1>9, <2>2 DEF handle_timer
<1>10. CASE t \in CregTimers
  <2>1. Phase(r) = "SETUP_NETWORK"
    BY <1>2, <1>10 DEF Belongs, CregTimers, Starts, Works
  <2>2. /\ Slotted(r, "registration") /\ ~r.keep
        /\ t = "retry_registration" => r.net = "RETRYING"
    BY <1>2, <1>10 DEF Detail
  <2>3. CASE t = "start_register"
    <3>1. Good(network_start_register_handler(r))
      BY <1>2, <1>4, <1>10, <2>1, <2>2, StartRegisterGood
    <3> QED
      BY <1>1, <2>3, <3>1 DEF handle_timer
  <2>4. CASE t = "retry_registration"
    <3>1. Good(network_retry_registration_timer_handler(r))
      BY <1>2, <1>4, <1>10, <2>1, <2>2, <2>4, RetryRegistrationGood
    <3> QED
      BY <1>1, <2>4, <3>1 DEF handle_timer
  <2>5. CASE t = "register_timeout"
    <3>1. Good(network_register_timeout_handler(r))
      BY <1>2, <1>4, <1>10, <2>1, <2>2, RegisterTimeoutGood
    <3> QED
      BY <1>1, <2>5, <3>1 DEF handle_timer
  <2> QED
    BY <1>10, <2>3, <2>4, <2>5 DEF CregTimers
<1>11. CASE t = "unregister"
  BY <1>2, <1>11 DEF Belongs, Starts, Works
<1>12. CASE t \in {"retry_cgatt", "set_cgatt", "retry_upsnd"}
  <2>1. Phase(r) = "OPEN_GPRS_CONNECTION"
    BY <1>2, <1>12 DEF Belongs, Starts, Works
  <2>2. CASE t \in {"retry_cgatt", "set_cgatt"}
    <3>1. t \in HighTimers
      BY <2>2 DEF HighTimers
    <3>2. Good(retry_check_cgatt(r)) /\ Good(modem_set_cgatt_retry_timer_handler(r))
      BY <1>2, <1>3, <2>1, <3>1, AttachTimerGood
    <3> QED
      BY <1>1, <2>2, <3>2 DEF handle_timer
  <2>3. CASE t = "retry_upsnd"
    <3>1. t \notin CregTimers \cup HighTimers
      BY <2>3 DEF HighTimers, CregTimers
    <3>2. Good(retry_upsnd_check(r))
      BY <1>2, <1>5, <2>1, <3>1, AttachGood
    <3> QED
      BY <1>1, <2>3, <3>2 DEF handle_timer
  <2> QED
    BY <1>12, <2>2, <2>3
<1>13. CASE t = "info_retry"
  <2>1. Phase(r) = "DO_TASK_WORK" /\ t \notin CregTimers \cup HighTimers
    BY <1>2, <1>13 DEF Belongs, HighTimers, CregTimers, Starts, Works
  <2>2. r.level >= SIM_ENABLED
    BY <1>2, <1>13 DEF Detail
  <2>3. Good(modem_sim_retry_timer_handler(r))
    BY <1>2, <1>5, <2>1, <2>2, InfoGood
  <2> QED
    BY <1>1, <1>13, <2>3 DEF handle_timer
<1> QED
  BY <1>6, <1>7, <1>8, <1>9, <1>10, <1>11, <1>12, <1>13
     DEF StepTimers, WorkTimers, Timers, HighTimers, CregTimers

(* A delayed command goes out.                                             *)
LEMMA DelayFires ==
  ASSUME NEW m, Good(m), m.run = "poll", "delay" \in m.timers
  PROVE  Good(modem_delayed_command_callback(remove_timer(m, "delay")))
<1>1. /\ Base(m) /\ m \in ModemRecords
      /\ Idle(m) \/ \E x \in Steps : Busy(m, x)
  BY PollGood
<1>2. "delay" \in WorkTimers /\ "none" \notin WorkTimers /\ "delay" \notin Commands \cup StepTimers
  BY DEF StepTimers, WorkTimers, Timers, CregTimers, HighTimers, Commands
<1>3. ~Idle(m)
  BY <1>2 DEF Idle, Nothing, Alone
<1>4. PICK x \in Steps : Busy(m, x)
  BY <1>1, <1>3
<1>5. Later(m, x) /\ x = m.delayed /\ x \in Commands
  BY <1>2, <1>4 DEF Busy, Has, Sent, Later, Timed, Alone
<1>6. PICK r : r = remove_timer(m, "delay")
  OBVIOUS
<1>7. PICK S : S = m.timers \ {"delay"}
  OBVIOUS
<1>8. S \in SUBSET Timers /\ ("gprs" \in S <=> "gprs" \in m.timers)
      /\ ("wake" \in S <=> "wake" \in m.timers)
  BY <1>1, <1>7 DEF ModemRecords
<1>9. r = [m EXCEPT !.timers = S]
  BY <1>1, <1>6, <1>7 DEF remove_timer, ModemRecords
<1>10. Same(m, r)
  BY <1>1, <1>8, <1>9, TimersSame
<1>11. r.cmd = m.cmd /\ r.delayed = m.delayed /\ r.low = m.low /\ r.high = m.high /\ r.timers = S
  BY <1>1, <1>9 DEF ModemRecords
<1>12. PICK p : p = pm_high(r, -1)
  OBVIOUS
<1>13. r \in ModemRecords
  BY <1>10 DEF Same
<1>14. /\ Same(r, p) /\ p.high = r.high + (-1) /\ p.low = r.low
       /\ p.cmd = r.cmd /\ p.delayed = r.delayed /\ p.timers = r.timers
  BY <1>12, <1>13, Literals, CountsSame
<1>15. p \in ModemRecords
  BY <1>14 DEF Same
<1>16. PICK u : u = [p EXCEPT !.delayed = "none"]
  OBVIOUS
<1>17. Same(p, u)
  BY <1>15, <1>16, CommandSame
<1>18. u.delayed = "none" /\ u.cmd = p.cmd /\ u.timers = p.timers /\ u.low = p.low
       /\ u.high = p.high
  BY <1>15, <1>16 DEF ModemRecords
<1>19. Same(m, u)
  BY <1>10, <1>14, <1>17, SameTrans
<1>20. Nothing(u, 0, 0)
  <2>1. Alone(u, "none", "none", "none")
    BY <1>2, <1>5, <1>7, <1>11, <1>14, <1>18 DEF Later, Alone
  <2>2. u.state = m.state /\ u.run = m.run
        /\ ("wake" \in u.timers <=> "wake" \in m.timers)
        /\ ("gprs" \in u.timers <=> "gprs" \in m.timers)
    BY <1>19 DEF Same
  <2>3. /\ Flag("wake" \in u.timers) = Flag("wake" \in m.timers)
        /\ Flag("gprs" \in u.timers) = Flag("gprs" \in m.timers)
    BY <2>2 DEF Flag
  <2>4. Balance(m, 0, 1) /\ u.low = m.low /\ u.high = m.high + (-1)
    BY <1>5, <1>11, <1>14, <1>18 DEF Later
  <2>5. \A b : Flag(b) \in Int
    BY DEF Flag
  <2>6. Balance(u, 0, 0)
    BY <2>2, <2>3, <2>4, <2>5 DEF Balance
  <2> QED
    BY <2>1, <2>6 DEF Nothing
<1>21. Base(m) /\ Active(m) /\ Belongs(x, Phase(m)) /\ Detail(m, x)
  BY <1>1, <1>4 DEF Busy
<1>22. Ready(u) /\ Phase(u) = Phase(m) /\ Detail(u, x)
  BY <1>19, <1>20, <1>21, SameReady
<1>23. Good(modem_send_cmd(u, x))
  BY <1>5, <1>21, <1>22, SendGood
<1>24. modem_delayed_command_callback(r) = modem_send_cmd(u, x)
  BY <1>5, <1>11, <1>12, <1>16 DEF modem_delayed_command_callback
<1> QED
  BY <1>6, <1>23, <1>24

(* d is m with the wake timer fired.                                       *)
Woken(m, d) ==
  /\ d \in ModemRecords
  /\ d.state = m.state /\ d.level = m.level /\ d.target = m.target /\ d.inter = m.inter
  /\ d.force = m.force /\ d.cmd = m.cmd /\ d.delayed = m.delayed
  /\ d.timers = m.timers \ {"wake"}
  /\ d.urc = m.urc /\ d.creg = m.creg /\ d.uupsdd = m.uupsdd /\ d.tasks = m.tasks
  /\ d.keep = m.keep /\ d.cleanup = m.cleanup /\ d.off = m.off /\ d.vcc_off = m.vcc_off
  /\ d.ask = m.ask /\ d.sub = m.sub /\ d.net = m.net /\ d.pos = m.pos
  /\ d.low = m.low /\ d.high = m.high /\ d.run = "wake"

LEMMA WokenFields ==
  ASSUME NEW m \in ModemRecords
  PROVE  Woken(m, wake_timer_handler(remove_timer(m, "wake")))
<1>1. PICK r : r = remove_timer(m, "wake")
  OBVIOUS
<1>2. r \in ModemRecords
  BY <1>1 DEF remove_timer, ModemRecords
<1>3. /\ r.state = m.state /\ r.level = m.level /\ r.target = m.target /\ r.inter = m.inter
      /\ r.force = m.force /\ r.cmd = m.cmd /\ r.delayed = m.delayed
      /\ r.timers = m.timers \ {"wake"}
      /\ r.urc = m.urc /\ r.creg = m.creg /\ r.uupsdd = m.uupsdd /\ r.tasks = m.tasks
      /\ r.keep = m.keep /\ r.cleanup = m.cleanup /\ r.off = m.off /\ r.vcc_off = m.vcc_off
      /\ r.ask = m.ask /\ r.sub = m.sub /\ r.net = m.net /\ r.pos = m.pos
      /\ r.low = m.low /\ r.high = m.high
  BY <1>1 DEF remove_timer, ModemRecords
<1>4. PICK d : d = [r EXCEPT !.run = "wake"]
  OBVIOUS
<1>5. d \in ModemRecords
  BY <1>2, <1>4, ZenonT(60) DEF ModemRecords
<1>6. /\ d.state = r.state /\ d.level = r.level /\ d.target = r.target /\ d.inter = r.inter
      /\ d.force = r.force /\ d.cmd = r.cmd /\ d.delayed = r.delayed /\ d.timers = r.timers
      /\ d.urc = r.urc /\ d.creg = r.creg /\ d.uupsdd = r.uupsdd /\ d.tasks = r.tasks
      /\ d.keep = r.keep /\ d.cleanup = r.cleanup /\ d.off = r.off /\ d.vcc_off = r.vcc_off
      /\ d.ask = r.ask /\ d.sub = r.sub /\ d.net = r.net /\ d.pos = r.pos
      /\ d.low = r.low /\ d.high = r.high /\ d.run = "wake"
  BY <1>2, <1>4 DEF ModemRecords
<1>7. Woken(m, d)
  BY <1>3, <1>5, <1>6 DEF Woken
<1> QED
  BY <1>1, <1>4, <1>7 DEF wake_timer_handler

(* The wake timer fires, and the main state machine runs.                  *)
LEMMA WokenGood ==
  ASSUME NEW m, Good(m), m.run = "poll", "wake" \in m.timers, NEW d, Woken(m, d)
  PROVE  Good(d)
<1>1. /\ Base(m) /\ m \in ModemRecords /\ Loose(m)
      /\ Idle(m) \/ \E x \in Steps : Busy(m, x)
  BY PollGood
<1>2. Phase(d) = Phase(m) /\ (\A S : In(d, S) <=> In(m, S))
  BY DEF Phase, In, Woken
<1>3. /\ \A u : Slotted(d, u) <=> Slotted(m, u)
      /\ \A k : Queued(d, k) <=> Queued(m, k)
      /\ OneCreg(d) <=> OneCreg(m)
  <2>1. d.urc = m.urc /\ d.creg = m.creg /\ d.uupsdd = m.uupsdd /\ d.tasks = m.tasks
    BY DEF Woken
  <2> QED
    BY <2>1, WatchKept
<1>4. "wake" \notin d.timers /\ ("gprs" \in d.timers <=> "gprs" \in m.timers)
      /\ \A t \in WorkTimers : t \in d.timers <=> t \in m.timers
  BY DEF Woken, WorkTimers
<1>5. Loose(d)
  BY <1>1, <1>2, <1>3, <1>4 DEF Loose, Woken
<1>6. Watched(m) => Watched(d)
  BY <1>3, <1>4 DEF Watched, Woken
<1>7. Attended(m) => Attended(d)
  BY <1>2, <1>3, <1>4, <1>6 DEF Attended, Woken
<1>8. Base(d)
  BY <1>1, <1>2, <1>5, <1>7 DEF Base, Powered, Woken
<1>9. ASSUME NEW lo, NEW hi \in Int, Balance(m, lo, hi) PROVE Balance(d, lo, hi)
  <2>1. d.low = m.low /\ d.high = m.high /\ d.state = m.state /\ d.run = "wake"
    BY DEF Woken
  <2>2. /\ Flag("wake" \in d.timers) = 0 /\ Flag("wake" \in m.timers) = 1
        /\ Flag(d.run = "wake") = 1 /\ Flag(m.run = "wake") = 0
        /\ Flag("gprs" \in d.timers) = Flag("gprs" \in m.timers)
    BY <1>4, <2>1 DEF Flag
  <2> QED
    BY <1>9, <2>1, <2>2 DEF Balance
<1>10. \A c, e, t : Alone(m, c, e, t) => Alone(d, c, e, t)
  BY <1>4 DEF Alone, Woken
<1>11. CASE Idle(m)
  <2>1. Nothing(d, 0, 0)
    BY <1>9, <1>10, <1>11, Literals DEF Idle, Nothing
  <2>2. Idle(d)
    BY <1>4, <1>11, <2>1 DEF Idle, Woken
  <2> QED
    BY <1>8, <2>2 DEF Good, Woken
<1>12. CASE \E x \in Steps : Busy(m, x)
  <2>1. PICK x \in Steps : Busy(m, x)
    BY <1>12
  <2>2. \A b : Flag(b) \in Int
    BY DEF Flag
  <2>3. Has(d, x)
    BY <1>9, <1>10, <2>1, <2>2, Literals DEF Busy, Has, Sent, Later, Timed
  <2>4. Active(d) /\ d.state \notin Works
    BY <1>4, <2>1 DEF Busy, Active, Woken
  <2>5. Detail(d, x)
    BY <1>2, <1>3, <2>1 DEF Busy, Detail, Woken
  <2>6. Busy(d, x)
    BY <1>2, <2>1, <2>3, <2>4, <2>5 DEF Busy
  <2> QED
    BY <1>8, <2>4, <2>6 DEF Good, Woken
<1> QED
  BY <1>1, <1>11, <1>12

(* Any timer fires.                                                        *)
LEMMA FireGood ==
  ASSUME NEW m, Good(m), m.run = "poll", NEW t \in Timers, t \in m.timers
  PROVE  Good(handle_timer(remove_timer(m, t), t))
<1>1. Base(m) /\ m \in ModemRecords
  BY PollGood
<1>2. PICK r : r = remove_timer(m, t)
  OBVIOUS
<1>3. CASE t = "wake"
  <2>1. Woken(m, wake_timer_handler(remove_timer(m, "wake")))
    BY <1>1, WokenFields
  <2>2. Good(wake_timer_handler(r))
    BY <1>2, <1>3, <2>1, WokenGood
  <2> QED
    BY <1>2, <1>3, <2>2 DEF handle_timer
<1>4. CASE t = "gprs"
  <2>1. Good(reattempt_gprs_connection_timer_handler(r))
    BY <1>2, <1>4, ReattemptGood
  <2> QED
    BY <1>2, <1>4, <2>1 DEF handle_timer
<1>5. CASE t = "cmd"
  <2>1. m.cmd # "none"
    <3>1. "cmd" \in WorkTimers /\ "cmd" \notin StepTimers /\ "none" \notin Commands \cup StepTimers
      BY DEF StepTimers, WorkTimers, Timers, CregTimers, HighTimers, Commands
    <3>2. Idle(m) \/ \E x \in Steps : Busy(m, x)
      BY PollGood
    <3>3. ~Idle(m)
      BY <1>5, <3>1 DEF Idle, Nothing, Alone
    <3>4. PICK x \in Steps : Busy(m, x)
      BY <3>2, <3>3
    <3> QED
      BY <1>5, <3>1, <3>4 DEF Busy, Has, Sent, Later, Timed, Alone
  <2>2. PICK u : u = unregister_command(r)
    OBVIOUS
  <2>3. /\ Ready(u) /\ u.run = "poll"
        /\ Belongs(m.cmd, Phase(u)) /\ Detail(u, m.cmd) /\ m.cmd \in Commands
    BY <1>2, <1>5, <2>1, <2>2, AnswerReady
  <2>4. Good(handle(u, m.cmd, "TIMEOUT"))
    BY <1>5, <2>3, HandleGood
  <2>5. r.cmd = m.cmd
    BY <1>1, <1>2 DEF remove_timer, ModemRecords
  <2> QED
    BY <1>2, <1>5, <2>2, <2>4, <2>5 DEF handle_timer
<1>6. CASE t = "delay"
  <2>1. Good(modem_delayed_command_callback(r))
    BY <1>2, <1>6, DelayFires
  <2> QED
    BY <1>2, <1>6, <2>1 DEF handle_timer
<1>7. CASE t \in StepTimers
  BY <1>7, StepFires
<1> QED
  BY <1>3, <1>4, <1>5, <1>6, <1>7 DEF StepTimers, WorkTimers

-----------------------------------------------------------------------------
(* A level is asked for from outside.                                      *)

(* A modem that is not at its target has a sub-state machine to start.     *)
LEMMA TargetStarts ==
  ASSUME NEW m, Loose(m), m.target # m.level
  PROVE  waiting_next_state(m) \in Starts
<1>1. m.level \in Levels /\ m.target \in Levels /\ m.target # STUCK_HARDWARE
      /\ m.inter \in {POWERED_OFF, SIM_ENABLED, NETWORK, LEVEL_MAX}
  BY LooseLevels DEF Loose
<1>2. CASE m.inter < LEVEL_MAX /\ m.inter # m.level
  <2>1. waiting_next_state(m) = level_transition_matrix(m.level, m.inter)
    BY <1>2 DEF waiting_next_state
  <2>2. m.inter \in Levels /\ m.inter # STUCK_HARDWARE
    BY <1>1, <1>2, LevelFacts DEF POWERED_OFF, SIM_ENABLED, NETWORK, LEVEL_MAX, STUCK_HARDWARE
  <2> QED
    BY <1>1, <1>2, <2>1, <2>2, MatrixStarts
<1>3. CASE ~(m.inter < LEVEL_MAX /\ m.inter # m.level)
  <2>1. waiting_next_state(m) = level_transition_matrix(m.level, m.target)
    BY <1>3 DEF waiting_next_state
  <2> QED
    BY <1>1, <2>1, MatrixStarts
<1> QED
  BY <1>2, <1>3

(* The main state machine is entered at once.                              *)
LEMMA RunGood ==
  ASSUME NEW m, Base(m), Idle(m), m.run = "poll",
         "wake" \in m.timers => waiting_next_state(m) \notin Works,
         NEW d, d = [m EXCEPT !.run = "machine"]
  PROVE  Good(d)
<1>1. m \in ModemRecords /\ Loose(m)
  BY DEF Base, Loose
<1>2. d \in ModemRecords
  BY <1>1 DEF ModemRecords
<1>3. /\ d.state = m.state /\ d.level = m.level /\ d.target = m.target /\ d.inter = m.inter
      /\ d.force = m.force /\ d.cmd = m.cmd /\ d.delayed = m.delayed /\ d.urc = m.urc
      /\ d.creg = m.creg /\ d.uupsdd = m.uupsdd /\ d.tasks = m.tasks /\ d.keep = m.keep
      /\ d.cleanup = m.cleanup /\ d.off = m.off /\ d.vcc_off = m.vcc_off
      /\ d.run = "machine" /\ d.ask = m.ask /\ d.sub = m.sub /\ d.low = m.low
      /\ d.high = m.high /\ d.work = m.work /\ d.timers = m.timers
  BY <1>1 DEF ModemRecords
<1>4. Phase(d) = Phase(m) /\ (\A S : In(d, S) <=> In(m, S))
  BY <1>3 DEF Phase, In
<1>5. /\ \A u : Slotted(d, u) <=> Slotted(m, u)
      /\ \A k : Queued(d, k) <=> Queued(m, k)
      /\ OneCreg(d) <=> OneCreg(m)
  BY <1>3, WatchKept
<1>6. Loose(d)
  BY <1>1, <1>2, <1>3, <1>4, <1>5 DEF Loose
<1>7. Watched(d) <=> Watched(m)
  BY <1>3, <1>5 DEF Watched
<1>8. Attended(m) => Attended(d)
  BY <1>3, <1>4, <1>5, <1>7 DEF Attended
<1>9. Base(d)
  BY <1>3, <1>4, <1>6, <1>8 DEF Base, Powered
<1>10. Nothing(d, 0, 0)
  BY <1>3 DEF Idle, Nothing, Alone, Balance
<1>11. waiting_next_state(d) = waiting_next_state(m)
  BY <1>3 DEF waiting_next_state
<1>12. Idle(d)
  BY <1>3, <1>10, <1>11 DEF Idle
<1> QED
  BY <1>3, <1>9, <1>12 DEF Good

(* The target alone: nothing that is under way depends on it.              *)
LEMMA TargetGood ==
  ASSUME NEW m, Good(m), m.run = "poll", NEW l \in Levels, l # STUCK_HARDWARE,
         NEW d, d = [m EXCEPT !.target = l]
  PROVE  /\ Good(d) /\ Leveled(m, d) /\ d.target = l
         /\ m.state = "WAITING" => Idle(d)
<1>1. /\ Base(m) /\ Loose(m) /\ m \in ModemRecords /\ (Idle(m) \/ \E x \in Steps : Busy(m, x))
  BY PollGood
<1>2. l \in Levels \cup {LEVEL_MAX}
  OBVIOUS
<1>3. Leveled(m, d) /\ d.target = l /\ d.level = m.level /\ d.inter = m.inter
  BY <1>1, <1>2, LevelFields
<1>4. d.inter \in {POWERED_OFF, SIM_ENABLED, NETWORK, LEVEL_MAX}
  BY <1>1, <1>3 DEF Loose
<1>5. /\ Loose(d) /\ Phase(d) = Phase(m)
      /\ \A lo, hi : Nothing(m, lo, hi) => Nothing(d, lo, hi)
      /\ \A k : Powered(m, k) => Powered(d, k)
      /\ \A x : Has(m, x) => Has(d, x)
  BY <1>1, <1>3, <1>4, LevelKept
<1>6. /\ d.state = m.state /\ d.urc = m.urc /\ d.creg = m.creg /\ d.uupsdd = m.uupsdd
      /\ d.tasks = m.tasks /\ d.keep = m.keep /\ d.vcc_off = m.vcc_off
      /\ d.run = "poll" /\ d.sub = m.sub /\ d.timers = m.timers
      /\ d.net = m.net /\ d.pos = m.pos
  BY <1>3 DEF Leveled
<1>7. \A S : In(d, S) <=> In(m, S)
  BY <1>6 DEF In
<1>8. /\ \A u : Slotted(d, u) <=> Slotted(m, u)
      /\ \A k : Queued(d, k) <=> Queued(m, k)
  BY <1>6, WatchKept
<1>9. Watched(d) <=> Watched(m)
  BY <1>3, <1>6, <1>8 DEF Watched
<1>10. Base(d)
  <2>1. Attended(d)
    BY <1>1, <1>3, <1>7, <1>9 DEF Base, Attended
  <2> QED
    BY <1>1, <1>3, <1>5, <2>1 DEF Base
<1>11. Idle(m) => Idle(d)
  BY <1>5, <1>6 DEF Idle
<1>12. ASSUME NEW x \in Steps, Busy(m, x) PROVE Busy(d, x)
  <2>1. Active(d) /\ Has(d, x)
    BY <1>5, <1>6, <1>12 DEF Busy, Active
  <2>2. Detail(d, x)
    BY <1>3, <1>5, <1>6, <1>8, <1>12 DEF Busy, Detail
  <2> QED
    BY <1>5, <1>12, <2>1, <2>2 DEF Busy
<1>13. Good(d)
  BY <1>1, <1>6, <1>10, <1>11, <1>12 DEF Good
<1>14. m.state = "WAITING" => Idle(m)
  BY <1>1 DEF Busy, Active, Works
<1> QED
  BY <1>3, <1>11, <1>13, <1>14

(* The power was to be cut and is wanted again.                            *)
LEMMA CancelGood ==
  ASSUME NEW m, Good(m), m.run = "poll", "poweroff" \in m.timers, m.target # POWERED_OFF,
         NEW d, d = change_state(enter_level([remove_timer(m, "poweroff") EXCEPT !.off = TRUE],
                                             POWERED_OFF), "WAITING")
  PROVE  Base(d) /\ Idle(d) /\ d.run = "poll" /\ d.state = "WAITING" /\ d.target # d.level
<1>1. PICK r : r = remove_timer(m, "poweroff")
  OBVIOUS
<1>2. /\ "poweroff" \in StepTimers /\ "poweroff" \notin CregTimers
      /\ "poweroff" \notin HighTimers
  BY DEF StepTimers, WorkTimers, Timers, CregTimers, HighTimers
<1>3. /\ Base(r) /\ Active(r) /\ r.run = "poll" /\ Nothing(r, 0, 0) /\ Belongs("poweroff", Phase(r))
      /\ Phase(r) = Phase(m)
  <2>1. Nothing(r, Flag("poweroff" \in CregTimers), Flag("poweroff" \in HighTimers))
    BY <1>1, <1>2, FiredReady
  <2>2. Flag("poweroff" \in CregTimers) = 0 /\ Flag("poweroff" \in HighTimers) = 0
    BY <1>2 DEF Flag
  <2> QED
    BY <1>1, <1>2, <2>1, <2>2, FiredReady
<1>4. Phase(r) = "DO_POWER_OFF"
  BY <1>3 DEF Belongs, Starts, Works
<1>5. Loose(r) /\ r \in ModemRecords /\ r.state # "WAITING" /\ r.target = m.target
  <2>1. r.target = m.target
    BY <1>1, PollGood DEF remove_timer, ModemRecords
  <2> QED
    BY <1>3, <2>1 DEF Base, Loose, Active, Works
<1>6. PICK o : o = [r EXCEPT !.off = TRUE]
  OBVIOUS
<1>7. Wired(r, o) /\ o.off
  BY <1>5, <1>6, PowerFields, Literals
<1>8. /\ Loose(o) /\ Nothing(o, 0, 0)
      /\ \A l : Fits(r, l) => Fits(o, l)
  BY <1>3, <1>5, <1>7, WiredKept
<1>9. /\ o \in ModemRecords /\ o.state # "WAITING" /\ o.target = m.target /\ o.run = "poll"
  BY <1>3, <1>5, <1>7 DEF Wired
<1>10. /\ POWERED_OFF \in Levels /\ POWERED_OFF < NETWORK /\ ~(POWERED_OFF >= POWERED_ON)
  BY LevelFacts DEF POWERED_OFF, NETWORK, POWERED_ON
<1>11. Fits(o, POWERED_OFF)
  BY <1>3, <1>4, <1>8, <1>10, PhaseFits
<1>12. PICK e : e = enter_level(o, POWERED_OFF)
  OBVIOUS
<1>13. /\ Leveled(o, e) /\ e.level = POWERED_OFF /\ e.target = m.target
       /\ e.inter = IF o.inter = POWERED_OFF THEN LEVEL_MAX ELSE o.inter
  BY <1>9, <1>10, <1>12, EnterLevel
<1>14. /\ e.inter \in {POWERED_OFF, SIM_ENABLED, NETWORK, LEVEL_MAX}
       /\ e.target # STUCK_HARDWARE
  BY <1>8, <1>9, <1>13 DEF Loose
<1>15. Powered(o, POWERED_OFF)
  BY <1>7, <1>10 DEF Powered
<1>16. /\ Loose(e) /\ Nothing(e, 0, 0) /\ Powered(e, e.level) /\ Fits(e, e.level)
  BY <1>8, <1>10, <1>11, <1>13, <1>14, <1>15, LevelKept
<1>17. e.state # "WAITING" /\ e.run = "poll"
  BY <1>9, <1>13 DEF Leveled
<1>18. d = change_state(e, "WAITING")
  BY <1>1, <1>6, <1>12
<1>19. Base(d) /\ Idle(d) /\ Waits(e, d)
  BY <1>16, <1>17, <1>18, WaitGood
<1> QED
  BY <1>13, <1>17, <1>19 DEF Waits

(* A level is asked for at any time, and overtakes no work.                *)
LEMMA RequestGood ==
  ASSUME NEW m, Good(m), m.run = "poll", NEW l \in Levels, l # STUCK_HARDWARE,
         NEW q, q = ubmodem_request_level(m, l), "wake" \in m.timers => ~Overtaking(q)
  PROVE  Good(q)
<1>1. /\ m \in ModemRecords /\ m.force \in {POWERED_OFF, LEVEL_MAX}
      /\ (Idle(m) \/ \E x \in Steps : Busy(m, x)) /\ Loose(m)
  BY PollGood DEF Loose
<1>2. PICK k : k = IF m.force < LEVEL_MAX THEN m.force ELSE l
  OBVIOUS
<1>3. k \in Levels /\ k # STUCK_HARDWARE
  BY <1>1, <1>2, LevelFacts DEF POWERED_OFF, LEVEL_MAX, STUCK_HARDWARE
<1>4. PICK t : t = [m EXCEPT !.target = k]
  OBVIOUS
<1>5. /\ Good(t) /\ Leveled(m, t) /\ t.target = k /\ (m.state = "WAITING" => Idle(t))
  BY <1>3, <1>4, TargetGood
<1>6. t.state = m.state /\ t.run = "poll" /\ t.timers = m.timers /\ t \in ModemRecords
  BY <1>5 DEF Leveled
<1>7. q = run_if_waiting(cancel_full_poweroff(t))
  BY <1>2, <1>4 DEF ubmodem_request_level
<1>8. CASE t.target > POWERED_OFF /\ "poweroff" \in t.timers
  <2>1. PICK d : d = change_state(enter_level([remove_timer(t, "poweroff") EXCEPT !.off = TRUE],
                                              POWERED_OFF), "WAITING")
    OBVIOUS
  <2>2. cancel_full_poweroff(t) = d
    BY <1>8, <2>1 DEF cancel_full_poweroff
  <2>3. t.target # POWERED_OFF
    BY <1>8 DEF POWERED_OFF
  <2>4. Base(d) /\ Idle(d) /\ d.run = "poll" /\ d.state = "WAITING" /\ d.target # d.level
    BY <1>5, <1>6, <1>8, <2>1, <2>3, CancelGood
  <2>5. waiting_next_state(d) \notin Works
    <3>1. waiting_next_state(d) \in Starts
      BY <2>4, TargetStarts DEF Base
    <3> QED
      BY <3>1 DEF Starts, Works
  <2>6. PICK e : e = [d EXCEPT !.run = "machine"]
    OBVIOUS
  <2>7. Good(e)
    BY <2>4, <2>5, <2>6, RunGood
  <2>8. run_if_waiting(d) = e
    BY <2>4, <2>6 DEF run_if_waiting, in_state_machine, modem_do_state_machine
  <2> QED
    BY <1>7, <2>2, <2>7, <2>8
<1>9. CASE ~(t.target > POWERED_OFF /\ "poweroff" \in t.timers)
  <2>1. cancel_full_poweroff(t) = t
    BY <1>9 DEF cancel_full_poweroff
  <2>2. CASE t.state = "WAITING"
    <3>1. Idle(t) /\ Base(t)
      BY <1>5, <1>6, <2>2, PollGood
    <3>2. q = [t EXCEPT !.run = "machine"]
      BY <1>6, <1>7, <2>1, <2>2 DEF run_if_waiting, in_state_machine, modem_do_state_machine
    <3>3. /\ q.run = "machine" /\ q.state = t.state /\ q.timers = t.timers /\ q.level = t.level
          /\ q.target = t.target /\ q.inter = t.inter /\ q.tasks = t.tasks /\ q.work = t.work
      BY <1>6, <3>2 DEF ModemRecords
    <3>4. waiting_next_state(q) = waiting_next_state(t)
      BY <3>3 DEF waiting_next_state
    <3>5. "wake" \in t.timers => waiting_next_state(t) \notin Works
      BY <1>6, <2>2, <3>3, <3>4 DEF Overtaking, Works
    <3> QED
      BY <1>6, <3>1, <3>2, <3>5, RunGood
  <2>3. CASE t.state # "WAITING"
    <3>1. run_if_waiting(t) = t
      BY <2>3 DEF run_if_waiting
    <3> QED
      BY <1>5, <1>7, <2>1, <3>1
  <2> QED
    BY <2>2, <2>3
<1> QED
  BY <1>8, <1>9

-----------------------------------------------------------------------------
(* The invariant holds.                                                    *)

(* The modem after ubmodem_initialize.                                     *)
LEMMA GoodInit == Init => Good(modem)
<1> SUFFICES ASSUME Init PROVE Good(modem)
  OBVIOUS
<1>1. PICK v \in VccAtStart : modem = initial_modem(v)
  BY DEF Init
<1>2. v \in BOOLEAN
  BY UbmodemAssumption
<1>3. modem \in ModemRecords
  BY SoundInit DEF Sound
<1>4. /\ modem.state = "WAITING" /\ modem.target = POWERED_OFF /\ modem.inter = LEVEL_MAX
      /\ modem.level = (IF v THEN POWERED_ON ELSE POWERED_OFF)
      /\ modem.force = LEVEL_MAX /\ modem.cmd = "none" /\ modem.delayed = "none"
      /\ modem.timers = {} /\ modem.urc = [i \in Slots |-> "none"] /\ modem.creg = FALSE
      /\ modem.uupsdd = FALSE /\ modem.tasks = << >> /\ modem.keep = FALSE
      /\ modem.cleanup = FALSE /\ modem.off = ~v /\ modem.vcc_off = ~v
      /\ modem.low = 0 /\ modem.high = 0 /\ modem.run = "machine" /\ modem.ask = NOTHING
  BY <1>1 DEF initial_modem
<1>5. \A u \in UrcHandlers : ~Slotted(modem, u)
  BY <1>4 DEF Slotted, UrcHandlers
<1>6. OneCreg(modem)
  BY <1>4 DEF OneCreg, Slotted
<1>7. (\A S : ~In(modem, S)) /\ Phase(modem) = "WAITING"
  BY <1>4 DEF In, Phase
<1>8. /\ modem.level < NETWORK /\ modem.target # STUCK_HARDWARE
      /\ (v => modem.level = POWERED_ON) /\ (~v => modem.level = POWERED_OFF)
  BY <1>4 DEF POWERED_ON, POWERED_OFF, NETWORK, STUCK_HARDWARE
<1>9. ~Slotted(modem, "registration")
  BY <1>5 DEF UrcHandlers
<1>10. Loose(modem)
  BY <1>3, <1>4, <1>6, <1>7, <1>8, <1>9 DEF Loose
<1>11. Powered(modem, modem.level)
  <2>1. ~(POWERED_OFF >= POWERED_ON) /\ POWERED_ON # POWERED_OFF
    BY DEF POWERED_ON, POWERED_OFF
  <2>2. CASE v
    <3>1. modem.level = POWERED_ON /\ ~modem.off /\ ~modem.vcc_off
      BY <1>4, <1>8, <2>2
    <3> QED
      BY <2>1, <3>1 DEF Powered
  <2>3. CASE ~v
    <3>1. modem.level = POWERED_OFF /\ modem.off
      BY <1>4, <1>8, <2>3
    <3> QED
      BY <2>1, <3>1 DEF Powered
  <2> QED
    BY <2>2, <2>3
<1>12. Attended(modem)
  BY <1>3, <1>8 DEF Attended, NETWORK, ModemRecords, Levels
<1>13. LevelFits(Phase(modem), modem.level)
  BY <1>7 DEF LevelFits
<1>14. Base(modem)
  BY <1>10, <1>11, <1>12, <1>13 DEF Base
<1>15. Idle(modem)
  <2>1. \A u \in WorkTimers : u \in modem.timers <=> u = "none"
    BY <1>4 DEF WorkTimers, Timers, CregTimers, HighTimers
  <2>2. Alone(modem, "none", "none", "none")
    BY <1>4, <2>1 DEF Alone
  <2>3. Balance(modem, 0, 0)
    BY <1>4 DEF Balance, Flag
  <2> QED
    BY <1>4, <2>2, <2>3 DEF Idle, Nothing
<1> QED
  BY <1>4, <1>14, <1>15 DEF Good

(* A callback as a whole: its inputs come and go.                          *)
LEMMA LeaveGood ==
  ASSUME NEW m, Sound(m), Good(m)
  PROVE  Good(leave(m))
<1>1. m \in ModemRecords
  BY DEF Sound
<1>2. NOTHING \in {NOTHING, POWERED_OFF}
  OBVIOUS
<1>3. Asks(m, leave(m))
  BY <1>1, <1>2, Literals, AsksFields
<1> QED
  BY <1>3, AsksGood

LEMMA EnterGood ==
  ASSUME NEW m, Sound(m), Good(m), NEW b \in BOOLEAN, NEW a \in Reactions, Careful,
         NEW e, e = enter(m, b, a)
  PROVE  Sound(e) /\ Good(e) /\ Asks(m, e) /\ e \in ModemRecords
<1>1. m \in ModemRecords
  BY DEF Sound
<1>2. a \in {NOTHING, POWERED_OFF} /\ a \in Levels \cup {NOTHING}
  BY UbmodemAssumption DEF Careful
<1>3. Quiet(m, e) /\ e \in ModemRecords
  BY <1>1, <1>2, EnterQuiet
<1>4. Asks(m, e)
  BY <1>1, <1>2, AsksFields
<1> QED
  BY <1>3, <1>4, AsksGood, QuietSound

(* The main state machine.                                                 *)
LEMMA StateMachineGood ==
  ASSUME Careful, Sound(modem), Good(modem), StateMachine
  PROVE  Good(modem')
<1>1. PICK d \in Delays, a \in Reactions :
        modem' = leave(state_machine_iteration(enter(modem, d, a)))
  BY DEF StateMachine
<1>2. PICK e : e = enter(modem, d, a)
  OBVIOUS
<1>3. d \in BOOLEAN
  BY UbmodemAssumption
<1>4. Sound(e) /\ Good(e) /\ Asks(modem, e)
  BY <1>2, <1>3, EnterGood
<1>5. in_state_machine(e)
  BY <1>4 DEF StateMachine, in_state_machine, Asks
<1>6. Sound(state_machine_iteration(e)) /\ Good(state_machine_iteration(e))
  BY <1>4, <1>5, IterationSound, IterationGood
<1> QED
  BY <1>1, <1>2, <1>6, LeaveGood

(* Levels that are asked for or forced from outside.                       *)
LEMMA AskedGood ==
  ASSUME Careful, Sound(modem), Good(modem), NEW l, RequestAwake => ~Overtaking(modem'),
         (l \in Requests /\ Request(l)) \/ (l \in Forced /\ ForceLevel(l))
  PROVE  Good(modem')
<1>1. modem \in ModemRecords
  BY DEF Sound
<1>2. modem.run = "poll" /\ ("wake" \in modem.timers => ~Overtaking(modem'))
  BY DEF Request, ForceLevel, polling, InGoodTime
<1>3. CASE l \in Requests /\ Request(l)
  <2>1. l \in Levels /\ l # STUCK_HARDWARE
    BY <1>3, UbmodemAssumption DEF Careful
  <2>2. modem' = ubmodem_request_level(modem, l)
    BY <1>3 DEF Request
  <2> QED
    BY <1>2, <2>1, <2>2, RequestGood
<1>4. CASE l \in Forced /\ ForceLevel(l)
  <2>1. PICK f : f = [modem EXCEPT !.force = l]
    OBVIOUS
  <2>2. modem' = ubmodem_request_level(f, modem.target)
    BY <1>4, <2>1 DEF ForceLevel
  <2>3. l \in {POWERED_OFF, LEVEL_MAX} /\ l \in Levels \cup {LEVEL_MAX}
    BY <1>4, UbmodemAssumption DEF Careful
  <2>4. f \in ModemRecords
    BY <1>1, <2>1, <2>3, ZenonT(60) DEF ModemRecords
  <2>5. /\ f.force = l /\ f.ask = modem.ask
        /\ f.state = modem.state /\ f.level = modem.level /\ f.target = modem.target
        /\ f.inter = modem.inter /\ f.cmd = modem.cmd /\ f.delayed = modem.delayed
        /\ f.timers = modem.timers /\ f.urc = modem.urc /\ f.creg = modem.creg
        /\ f.uupsdd = modem.uupsdd /\ f.tasks = modem.tasks
        /\ f.keep = modem.keep /\ f.cleanup = modem.cleanup /\ f.off = modem.off
        /\ f.vcc_off = modem.vcc_off /\ f.sub = modem.sub /\ f.net = modem.net
        /\ f.pos = modem.pos /\ f.work = modem.work
        /\ f.low = modem.low /\ f.high = modem.high /\ f.run = modem.run
    BY <1>1, <2>1 DEF ModemRecords
  <2>6. Loose(modem)
    BY <1>2, PollGood
  <2>7. modem.ask \in {NOTHING, POWERED_OFF} /\ modem.target \in Levels
        /\ modem.target # STUCK_HARDWARE
    BY <2>6, LooseLevels DEF Loose
  <2>8. Asks(modem, f)
    BY <2>3, <2>4, <2>5, <2>7 DEF Asks
  <2>9. Good(f)
    BY <2>8, AsksGood
  <2> QED
    BY <1>2, <2>2, <2>5, <2>7, <2>9, RequestGood
<1> QED
  BY <1>3, <1>4

(* Tasks and sockets.                                                      *)
LEMMA AddedGood ==
  ASSUME Good(modem), (\E k \in UserTasks : AddTask(k)) \/ SocketWork
  PROVE  Good(modem')
<1>1. modem.run = "poll"
  BY DEF AddTask, SocketWork, polling
<1>2. modem \in ModemRecords
  BY <1>1, PollGood
<1>3. CASE \E k \in UserTasks : AddTask(k)
  <2>1. PICK k \in UserTasks : AddTask(k)
    BY <1>3
  <2>2. k \in TaskKinds
    BY UbmodemAssumption DEF TaskKinds
  <2>3. Gains(modem, add_task(modem, k))
    BY <1>1, <1>2, <2>2, AddTaskGains
  <2>4. modem' = add_task(modem, k)
    BY <2>1 DEF AddTask
  <2>5. Good(add_task(modem, k))
    BY <1>1, <2>3, GainsGood
  <2> QED
    BY <2>4, <2>5
<1>4. CASE SocketWork
  <2>1. PICK w : w = [modem EXCEPT !.work = TRUE]
    OBVIOUS
  <2>2. w \in ModemRecords /\ Minor(modem, w)
    BY <1>2, <2>1, Literals, MinorFields DEF Minor
  <2>3. w.net = modem.net /\ w.pos = modem.pos
    BY <1>2, <2>1 DEF ModemRecords
  <2>4. Gains(modem, w)
    <3>1. modem.high \in Int /\ w.high = modem.high + Flag("wake" \in w.timers) - Flag("wake" \in modem.timers)
      <4>1. modem.high \in Int
        BY <1>2 DEF ModemRecords
      <4>2. w.high = modem.high /\ w.timers = modem.timers
        BY <2>2 DEF Minor
      <4> QED
        BY <4>1, <4>2 DEF Flag
    <3>2. \A k : Queued(modem, k) => Queued(w, k)
      BY <2>2 DEF Minor, Queued
    <3> QED
      BY <2>2, <2>3, <3>1, <3>2 DEF Gains, Minor
  <2>5. w.run = "poll"
    BY <1>1, <2>2 DEF Minor
  <2>6. Gains(w, wake_waiting_state(w, FALSE))
    BY <2>2, <2>5, WakeGains
  <2>7. Gains(modem, wake_waiting_state(w, FALSE))
    BY <1>2, <2>2, <2>4, <2>6, GainsTrans
  <2>8. modem' = wake_waiting_state(w, FALSE)
    BY <1>4, <2>1 DEF SocketWork
  <2>9. Good(wake_waiting_state(w, FALSE))
    BY <1>1, <2>7, GainsGood
  <2> QED
    BY <2>8, <2>9
<1> QED
  BY <1>3, <1>4

(* Answers.                                                                *)
LEMMA AnsweredGood ==
  ASSUME Careful, Sound(modem), Good(modem), NEW c \in Commands, NEW r \in AnswersTo(c),
         Answer(c, r)
  PROVE  Good(modem')
<1>1. PICK a \in Reactions :
        modem' = leave(handle(unregister_command(
                         enter(remove_timer(modem, "cmd"), TRUE, a)), c, r))
  BY DEF Answer
<1>2. modem \in ModemRecords /\ modem.run = "poll" /\ modem.cmd = c
  BY DEF Sound, Answer, polling
<1>3. PICK e : e = enter(modem, TRUE, a)
  OBVIOUS
<1>4. Sound(e) /\ Good(e) /\ Asks(modem, e) /\ e \in ModemRecords
  BY <1>3, Literals, EnterGood
<1>5. e.run = "poll" /\ e.cmd = c
  BY <1>2, <1>4 DEF Asks
<1>6. c # "none"
  BY DEF Commands
<1>7. PICK u : u = unregister_command(remove_timer(e, "cmd"))
  OBVIOUS
<1>8. Ready(u) /\ u.run = "poll" /\ Belongs(c, Phase(u)) /\ Detail(u, c)
  BY <1>4, <1>5, <1>6, <1>7, AnswerReady
<1>10. Good(handle(u, c, r))
  BY <1>8, HandleGood
<1>11. Sound(u)
  <2>1. Quiet(e, remove_timer(e, "cmd"))
    BY <1>4, RemoveTimerQuiet
  <2>2. Sound(remove_timer(e, "cmd")) /\ remove_timer(e, "cmd") \in ModemRecords
    BY <1>4, <2>1, QuietSound DEF Quiet
  <2> QED
    BY <1>7, <2>2, UnregisterQuiet, QuietSound
<1>12. Sound(handle(u, c, r))
  BY <1>11, HandleSound
<1>13. enter(remove_timer(modem, "cmd"), TRUE, a) = remove_timer(e, "cmd")
  BY <1>2, <1>3, EnterRemove
<1>14. modem' = leave(handle(u, c, r))
  BY <1>1, <1>7, <1>13
<1> QED
  BY <1>10, <1>12, <1>14, LeaveGood

(* Timers.                                                                 *)
LEMMA FiredGood ==
  ASSUME Careful, Sound(modem), Good(modem), NEW t \in Timers, TimerFires(t)
  PROVE  Good(modem')
<1>1. PICK d \in Delays, a \in Reactions :
        modem' = leave(handle_timer(enter(remove_timer(modem, t), d, a), t))
  BY DEF TimerFires, Fire
<1>2. modem \in ModemRecords /\ modem.run = "poll" /\ t \in modem.timers
  BY DEF Sound, TimerFires, Fire, polling
<1>3. PICK e : e = enter(modem, d, a)
  OBVIOUS
<1>4. Sound(e) /\ Good(e) /\ Asks(modem, e) /\ e \in ModemRecords
  BY <1>3, EnterGood, UbmodemAssumption
<1>5. e.run = "poll" /\ e.cmd = modem.cmd /\ e.timers = modem.timers
  BY <1>2, <1>4 DEF Asks
<1>7. Good(handle_timer(remove_timer(e, t), t))
  BY <1>2, <1>4, <1>5, FireGood
<1>8. Sound(handle_timer(remove_timer(e, t), t))
  <2>1. CASE t = "wake"
    <3>1. PICK r : r = remove_timer(e, t)
      OBVIOUS
    <3>2. r \in ModemRecords
      BY <1>4, <3>1 DEF remove_timer, ModemRecords
    <3>3. handle_timer(r, t) = wake_timer_handler(r)
      BY <2>1 DEF handle_timer
    <3> QED
      BY <3>1, <3>2, <3>3, WakeTimerSound
  <2>2. CASE t # "wake"
    <3>1. Quiet(e, remove_timer(e, t))
      BY <1>4, <2>2, RemoveTimerQuiet
    <3> QED
      BY <1>4, <3>1, QuietSound, TimerHandlerSound
  <2> QED
    BY <2>1, <2>2
<1>9. enter(remove_timer(modem, t), d, a) = remove_timer(e, t)
  BY <1>2, <1>3, EnterRemove
<1> QED
  BY <1>1, <1>7, <1>8, <1>9, LeaveGood

(* Result codes.                                                           *)
LEMMA CodeGood ==
  ASSUME Careful, Sound(modem), Good(modem), (\E v \in CregUrcs : CregUrc(v)) \/ UupsddUrc
  PROVE  Good(modem')
<1>1. modem \in ModemRecords /\ modem.run = "poll"
  BY DEF Sound, CregUrc, UupsddUrc, polling
<1>2. /\ SlotsOf(modem, "+CREG") = {i \in Slots : modem.urc[i] \in {"registration", "monitor"}}
      /\ SlotsOf(modem, "+UUPSDD") = {i \in Slots : modem.urc[i] = "UUPSDD"}
  BY <1>1, SlotNames
<1>3. CASE \E v \in CregUrcs : CregUrc(v)
  <2>1. PICK v \in CregUrcs : CregUrc(v)
    BY <1>3
  <2>2. PICK h : h = modem.urc[First(SlotsOf(modem, "+CREG"))]
    OBVIOUS
  <2>3. PICK a \in Reactions :
          modem' = leave(IF h = "monitor"
                         THEN monitor_urc_pCREG_handler(enter(modem, FALSE, a), v)
                         ELSE registration_urc_pCREG_handler(enter(modem, FALSE, a), v))
    BY <2>1, <2>2 DEF CregUrc
  <2>4. First(SlotsOf(modem, "+CREG")) \in SlotsOf(modem, "+CREG")
    <3>1. SlotsOf(modem, "+CREG") # {} /\ SlotsOf(modem, "+CREG") \subseteq Slots
      BY <1>2, <2>1 DEF CregUrc
    <3> QED
      BY <3>1, FirstIn
  <2>5. Slotted(modem, h) /\ h \in {"registration", "monitor"}
    BY <1>2, <2>2, <2>4 DEF Slotted
  <2>6. PICK e : e = enter(modem, FALSE, a)
    OBVIOUS
  <2>7. Sound(e) /\ Good(e) /\ Asks(modem, e)
    BY <2>6, Literals, EnterGood
  <2>8. e.run = "poll" /\ Slotted(e, h)
    BY <1>1, <2>5, <2>7 DEF Asks, Slotted
  <2>9. CASE h = "monitor"
    <3>1. Good(monitor_urc_pCREG_handler(e, v)) /\ Sound(monitor_urc_pCREG_handler(e, v))
      BY <2>7, <2>8, <2>9, MonitorUrcGood, MonitorUrcSound
    <3> QED
      BY <2>3, <2>6, <2>9, <3>1, LeaveGood
  <2>10. CASE h = "registration"
    <3>1. Good(registration_urc_pCREG_handler(e, v)) /\ Sound(registration_urc_pCREG_handler(e, v))
      BY <2>7, <2>8, <2>10, RegistrationUrcGood, RegistrationUrcSound
    <3> QED
      BY <2>3, <2>6, <2>10, <3>1, LeaveGood
  <2> QED
    BY <2>5, <2>9, <2>10
<1>4. CASE UupsddUrc
  <2>1. Slotted(modem, "UUPSDD")
    BY <1>2, <1>4 DEF UupsddUrc, Slotted
  <2>2. Good(urc_pUUPSDD_handler(modem))
    BY <1>1, <2>1, UupsddUrcGood
  <2> QED
    BY <1>4, <2>2 DEF UupsddUrc
<1> QED
  BY <1>3, <1>4

LEMMA GoodStep ==
  Careful /\ Sound(modem) /\ Good(modem) /\ [Next]_modem /\ (RequestAwake => ~Overtakes')
    => Good(modem)'
<1> SUFFICES ASSUME Careful, Sound(modem), Good(modem), [Next]_modem,
                    RequestAwake => ~Overtakes'
             PROVE  Good(modem')
  OBVIOUS
<1>1. CASE UNCHANGED modem
  BY <1>1
<1>2. CASE StateMachine
  BY <1>2, StateMachineGood
<1>3. CASE (\E l \in Requests : Request(l)) \/ (\E l \in Forced : ForceLevel(l))
  <2>1. RequestAwake => ~Overtaking(modem')
    BY DEF Overtakes
  <2> QED
    BY <1>3, <2>1, AskedGood
<1>4. CASE (\E k \in UserTasks : AddTask(k)) \/ SocketWork
  BY <1>4, AddedGood
<1>5. CASE \E c \in Commands : \E r \in AnswersTo(c) : Answer(c, r)
  BY <1>5, AnsweredGood
<1>6. CASE \E t \in Timers : TimerFires(t)
  BY <1>6, FiredGood
<1>7. CASE (\E v \in CregUrcs : CregUrc(v)) \/ UupsddUrc
  BY <1>7, CodeGood
<1> QED
  BY <1>1, <1>2, <1>3, <1>4, <1>5, <1>6, <1>7 DEF Next

LEMMA GoodAlways == Careful => (Spec /\ [](RequestAwake => ~Overtakes) => []Good(modem))
<1> SUFFICES ASSUME Careful PROVE Spec /\ [](RequestAwake => ~Overtakes) => []Good(modem)
  OBVIOUS
<1>1. Sound(modem) /\ Good(modem) /\ [Next]_modem /\ (RequestAwake => ~Overtakes)' => Good(modem)'
  BY GoodStep
<1> QED
  BY <1>1, GoodInit, SoundAlways, PTL DEF Spec

-----------------------------------------------------------------------------
(* The results.                                                            *)

(* What is pending, in one of four ways.                                   *)
LEMMA FourWays ==
  ASSUME NEW m, Good(m), m.run # "stop"
  PROVE  /\ \/ Nothing(m, 0, 0)
            \/ \E c \in Commands : Sent(m, c) \/ Later(m, c)
            \/ \E t \in StepTimers : Timed(m, t)
         /\ m.run = "poll" /\ m.state # "WAITING" =>
              \/ \E c \in Commands : Sent(m, c) \/ Later(m, c)
              \/ \E t \in StepTimers : Timed(m, t)
         /\ m \in ModemRecords
<1>1. Idle(m) \/ Starting(m) \/ \E x \in Steps : Busy(m, x)
  BY DEF Good
<1>2. Idle(m) \/ Starting(m) => Nothing(m, 0, 0)
  BY DEF Idle, Starting
<1>3. m.run = "poll" /\ m.state # "WAITING" => ~Idle(m) /\ ~Starting(m)
  BY DEF Idle, Starting, in_state_machine
<1>4. (\E x \in Steps : Busy(m, x)) =>
        \/ \E c \in Commands : Sent(m, c) \/ Later(m, c)
        \/ \E t \in StepTimers : Timed(m, t)
  BY DEF Busy, Has
<1>5. m \in ModemRecords
  BY DEF Good, Base, Loose
<1> QED
  BY <1>1, <1>2, <1>3, <1>4, <1>5

(* How many timers of a kind there are, when t is the one of the phase.    *)
Counted(m, t, S, w) ==
  /\ Cardinality(m.timers \cap S) = Flag(t \in S)
  /\ Cardinality(m.timers \cap (S \cup {w})) = Flag(t \in S) + Flag(w \in m.timers)

LEMMA CountTimers ==
  ASSUME NEW m, NEW c, NEW d, NEW t, Alone(m, c, d, t), NEW S, S \subseteq WorkTimers,
         NEW w, w \notin WorkTimers
  PROVE  Counted(m, t, S, w)
<1>1. PICK A : A = m.timers \cap S
  OBVIOUS
<1>2. \A u \in S : u \in m.timers <=> u = t
  BY DEF Alone
<1>3. A = IF t \in S THEN {t} ELSE {}
  BY <1>1, <1>2
<1>4. IsFiniteSet(A) /\ Cardinality(A) = Flag(t \in S)
  <2>1. CASE t \in S
    BY <1>3, <2>1, FS_Singleton DEF Flag
  <2>2. CASE t \notin S
    BY <1>3, <2>2, FS_EmptySet DEF Flag
  <2> QED
    BY <2>1, <2>2
<1>5. Cardinality(m.timers \cap (S \cup {w})) = Flag(t \in S) + Flag(w \in m.timers)
  <2>1. Flag(t \in S) \in Nat
    BY DEF Flag
  <2>2. CASE w \in m.timers
    <3>1. m.timers \cap (S \cup {w}) = A \cup {w}
      BY <1>1, <2>2
    <3>2. w \notin A
      BY <1>1
    <3>3. Cardinality(A \cup {w}) = Cardinality(A) + 1
      BY <1>4, <3>2, FS_AddElement
    <3> QED
      BY <1>4, <2>1, <2>2, <3>1, <3>3 DEF Flag
  <2>3. CASE w \notin m.timers
    <3>1. m.timers \cap (S \cup {w}) = A
      BY <1>1, <2>3
    <3> QED
      BY <1>4, <2>1, <2>3, <3>1 DEF Flag
  <2> QED
    BY <2>2, <2>3
<1> QED
  BY <1>1, <1>4, <1>5 DEF Counted

(* The counts of timers that the properties use.                           *)
LEMMA Counts ==
  ASSUME NEW c, NEW d, NEW t, Alone(modem, c, d, t)
  PROVE  /\ ActivityOf(CregTimers \cup {"gprs"}) =
              Flag(t \in CregTimers) + Flag("gprs" \in modem.timers)
         /\ ActivityOf(HighTimers \cup {"wake", "delay"}) =
              Flag(t \in HighTimers \cup {"delay"}) + Flag("wake" \in modem.timers)
         /\ ActivityOf(SubTimers) = Flag(t \in SubTimers)
         /\ ActivityOf(CregTimers) = Flag(t \in CregTimers)
<1>1. /\ CregTimers \subseteq WorkTimers /\ HighTimers \cup {"delay"} \subseteq WorkTimers
      /\ SubTimers \subseteq WorkTimers
  BY DEF WorkTimers, Timers, CregTimers, HighTimers, SubTimers
<1>2. "gprs" \notin WorkTimers /\ "wake" \notin WorkTimers
  BY DEF WorkTimers
<1>3. /\ Counted(modem, t, CregTimers, "gprs") /\ Counted(modem, t, SubTimers, "gprs")
      /\ Counted(modem, t, HighTimers \cup {"delay"}, "wake")
  BY <1>1, <1>2, CountTimers
<1>4. HighTimers \cup {"wake", "delay"} = (HighTimers \cup {"delay"}) \cup {"wake"}
  OBVIOUS
<1>5. Cardinality(modem.timers \cap (HighTimers \cup {"wake", "delay"})) =
        Flag(t \in HighTimers \cup {"delay"}) + Flag("wake" \in modem.timers)
  BY <1>3, <1>4 DEF Counted
<1> QED
  BY <1>3, <1>5 DEF Counted, ActivityOf

(* The timers of the steps, by kind.                                       *)
LEMMA StepKinds ==
  /\ \A t \in StepTimers : /\ t \in CregTimers \cup SubTimers /\ t \notin {"none", "cmd", "delay"}
                           /\ ~(t \in CregTimers /\ t \in SubTimers)
  /\ \A t \in {"none", "cmd", "delay"} : t \notin CregTimers \cup HighTimers \cup SubTimers
BY DEF StepTimers, WorkTimers, Timers, CregTimers, HighTimers, SubTimers

(* A command in flight has its timeout.                                    *)
LEMMA GoodTimesOut == Good(modem) => CommandTimesOut
<1> SUFFICES ASSUME Good(modem), modem.run # "stop"
             PROVE  modem.cmd # "none" <=> "cmd" \in modem.timers
  BY DEF CommandTimesOut
<1>1. "cmd" \in WorkTimers /\ "cmd" \notin StepTimers /\ "none" \notin Commands
  BY DEF WorkTimers, StepTimers, Timers, Commands
<1>2. CASE Nothing(modem, 0, 0)
  BY <1>1, <1>2 DEF Nothing, Alone
<1>3. CASE \E c \in Commands : Sent(modem, c) \/ Later(modem, c)
  BY <1>1, <1>3 DEF Sent, Later, Alone
<1>4. CASE \E t \in StepTimers : Timed(modem, t)
  BY <1>1, <1>4 DEF Timed, Alone
<1> QED
  BY <1>2, <1>3, <1>4, FourWays

(* The activity counts.                                                    *)
LEMMA GoodBalanced == Good(modem) => PmBalanced
<1> SUFFICES ASSUME Good(modem), modem.run # "stop"
             PROVE  /\ modem.low = Flag(modem.state # "WAITING") + ActivityOf(CregTimers \cup {"gprs"})
                                    + Flag(modem.cmd # "none" /\ LowActivity(modem.cmd))
                    /\ modem.high = ActivityOf(HighTimers \cup {"wake", "delay"})
                                    + Flag(modem.cmd # "none" /\ ~LowActivity(modem.cmd))
                                    + Flag(modem.run = "wake")
  BY DEF PmBalanced
<1>1. \A b : Flag(b) \in Int
  BY DEF Flag
<1>2. ASSUME NEW c, NEW d, NEW t, NEW lo, NEW hi, Alone(modem, c, d, t), Balance(modem, lo, hi),
             lo = Flag(t \in CregTimers) + Flag(c # "none" /\ LowActivity(c)),
             hi = Flag(t \in HighTimers \cup {"delay"}) + Flag(c # "none" /\ ~LowActivity(c))
      PROVE  /\ modem.low = Flag(modem.state # "WAITING") + ActivityOf(CregTimers \cup {"gprs"})
                             + Flag(modem.cmd # "none" /\ LowActivity(modem.cmd))
             /\ modem.high = ActivityOf(HighTimers \cup {"wake", "delay"})
                             + Flag(modem.cmd # "none" /\ ~LowActivity(modem.cmd))
                             + Flag(modem.run = "wake")
  <2>1. modem.cmd = c
    BY <1>2 DEF Alone
  <2>2. /\ ActivityOf(CregTimers \cup {"gprs"}) =
              Flag(t \in CregTimers) + Flag("gprs" \in modem.timers)
        /\ ActivityOf(HighTimers \cup {"wake", "delay"}) =
              Flag(t \in HighTimers \cup {"delay"}) + Flag("wake" \in modem.timers)
    BY <1>2, Counts
  <2>3. /\ modem.low  = lo + Flag(modem.state # "WAITING") + Flag("gprs" \in modem.timers)
        /\ modem.high = hi + Flag("wake" \in modem.timers) + Flag(modem.run = "wake")
    BY <1>2 DEF Balance
  <2> QED
    BY <1>1, <1>2, <2>1, <2>2, <2>3
<1>3. CASE Nothing(modem, 0, 0)
  <2>1. /\ 0 = Flag("none" \in CregTimers) + Flag("none" # "none" /\ LowActivity("none"))
        /\ 0 = Flag("none" \in HighTimers \cup {"delay"})
               + Flag("none" # "none" /\ ~LowActivity("none"))
    BY StepKinds DEF Flag
  <2> QED
    BY <1>2, <1>3, <2>1 DEF Nothing
<1>4. CASE \E c \in Commands : Sent(modem, c)
  <2>1. PICK c \in Commands : Sent(modem, c)
    BY <1>4
  <2>2. c # "none"
    BY DEF Commands
  <2>3. /\ Flag(LowActivity(c)) = Flag("cmd" \in CregTimers) + Flag(c # "none" /\ LowActivity(c))
        /\ Flag(~LowActivity(c)) = Flag("cmd" \in HighTimers \cup {"delay"})
                                   + Flag(c # "none" /\ ~LowActivity(c))
    BY <2>2, StepKinds DEF Flag
  <2> QED
    BY <1>2, <2>1, <2>3 DEF Sent
<1>5. CASE \E c \in Commands : Later(modem, c)
  <2>1. PICK c \in Commands : Later(modem, c)
    BY <1>5
  <2>2. /\ 0 = Flag("delay" \in CregTimers) + Flag("none" # "none" /\ LowActivity("none"))
        /\ 1 = Flag("delay" \in HighTimers \cup {"delay"})
               + Flag("none" # "none" /\ ~LowActivity("none"))
    BY StepKinds DEF Flag
  <2> QED
    BY <1>2, <2>1, <2>2 DEF Later
<1>6. CASE \E t \in StepTimers : Timed(modem, t)
  <2>1. PICK t \in StepTimers : Timed(modem, t)
    BY <1>6
  <2>2. t # "delay"
    BY StepKinds
  <2>3. /\ Flag(t \in CregTimers) = Flag(t \in CregTimers)
                                    + Flag("none" # "none" /\ LowActivity("none"))
        /\ Flag(t \in HighTimers) = Flag(t \in HighTimers \cup {"delay"})
                                    + Flag("none" # "none" /\ ~LowActivity("none"))
    BY <2>2 DEF Flag
  <2> QED
    BY <1>2, <2>1, <2>3 DEF Timed
<1> QED
  BY <1>3, <1>4, <1>5, <1>6, FourWays

(* What is pending, counted.                                               *)
LEMMA GoodPending ==
  ASSUME Good(modem), modem.run # "stop"
  PROVE  /\ Pending <= 1
         /\ modem.run = "poll" /\ modem.state # "WAITING" =>
              Pending + ActivityOf(CregTimers) > 0
<1>1. ASSUME NEW c, NEW d, NEW t, Alone(modem, c, d, t)
      PROVE  /\ Pending = Flag(c # "none") + Flag(d # "none") + Flag(t \in SubTimers)
             /\ ActivityOf(CregTimers) = Flag(t \in CregTimers)
  <2>1. modem.cmd = c /\ modem.delayed = d
    BY <1>1 DEF Alone
  <2>2. ActivityOf(SubTimers) = Flag(t \in SubTimers) /\ ActivityOf(CregTimers) = Flag(t \in CregTimers)
    BY <1>1, Counts
  <2> QED
    BY <2>1, <2>2 DEF Pending
<1>2. "none" \notin Commands
  BY DEF Commands
<1>3. Nothing(modem, 0, 0) => Pending <= 1
  <2>1. SUFFICES ASSUME Nothing(modem, 0, 0) PROVE Pending <= 1
    OBVIOUS
  <2>2. Pending = Flag("none" # "none") + Flag("none" # "none") + Flag("none" \in SubTimers)
    BY <1>1, <2>1 DEF Nothing
  <2> QED
    BY <2>2, StepKinds DEF Flag
<1>4. CASE \E c \in Commands : Sent(modem, c)
  <2>1. PICK c \in Commands : Sent(modem, c)
    BY <1>4
  <2>2. /\ Pending = Flag(c # "none") + Flag("none" # "none") + Flag("cmd" \in SubTimers)
        /\ ActivityOf(CregTimers) = Flag("cmd" \in CregTimers)
    BY <1>1, <2>1 DEF Sent
  <2> QED
    BY <1>2, <2>2, StepKinds DEF Flag
<1>5. CASE \E c \in Commands : Later(modem, c)
  <2>1. PICK c \in Commands : Later(modem, c)
    BY <1>5
  <2>2. /\ Pending = Flag("none" # "none") + Flag(c # "none") + Flag("delay" \in SubTimers)
        /\ ActivityOf(CregTimers) = Flag("delay" \in CregTimers)
    BY <1>1, <2>1 DEF Later
  <2> QED
    BY <1>2, <2>2, StepKinds DEF Flag
<1>6. CASE \E t \in StepTimers : Timed(modem, t)
  <2>1. PICK t \in StepTimers : Timed(modem, t)
    BY <1>6
  <2>2. /\ Pending = Flag("none" # "none") + Flag("none" # "none") + Flag(t \in SubTimers)
        /\ ActivityOf(CregTimers) = Flag(t \in CregTimers)
    BY <1>1, <2>1 DEF Timed
  <2> QED
    BY <2>2, StepKinds DEF Flag
<1>7. /\ \/ Nothing(modem, 0, 0)
         \/ \E c \in Commands : Sent(modem, c)
         \/ \E c \in Commands : Later(modem, c)
         \/ \E t \in StepTimers : Timed(modem, t)
      /\ modem.run = "poll" /\ modem.state # "WAITING" =>
           \/ \E c \in Commands : Sent(modem, c)
           \/ \E c \in Commands : Later(modem, c)
           \/ \E t \in StepTimers : Timed(modem, t)
  BY FourWays
<1> QED
  BY <1>3, <1>4, <1>5, <1>6, <1>7

(* The levels that need power have it, even when an assertion has failed.  *)
LEMMA GoodPower == Sound(modem) /\ Good(modem) => PowerAgrees
<1> SUFFICES ASSUME Sound(modem), Good(modem), modem.level \in POWERED_ON .. GPRS
             PROVE  ~modem.off /\ ~modem.vcc_off
  BY DEF PowerAgrees
<1>1. Powered(modem, modem.level)
  BY DEF Good, Base
<1>2. modem.level >= POWERED_ON
  BY DEF POWERED_ON, GPRS
<1> QED
  BY <1>1, <1>2 DEF Powered

(* A registered modem is watched.                                          *)
LEMMA GoodWatched == Good(modem) => RegistrationWatched
<1> SUFFICES ASSUME Good(modem), modem.run = "poll", modem.level \in {NETWORK, GPRS},
                    modem.state # "IN_SUBSTATE"
             PROVE  \/ \E i \in Slots : modem.urc[i] = "monitor"
                    \/ \E i \in DOMAIN modem.tasks : modem.tasks[i] = "retry_sim"
                    \/ modem.inter # LEVEL_MAX
  BY DEF RegistrationWatched, polling
<1>1. Attended(modem) /\ ~In(modem, {"DO_POWER_OFF"})
  BY DEF Good, Base, In
<1>2. modem.level >= NETWORK
  BY DEF NETWORK, GPRS
<1>3. Watched(modem)
  BY <1>1, <1>2 DEF Attended
<1>4. LEVEL_MAX \notin {POWERED_OFF, SIM_ENABLED}
  BY DEF LEVEL_MAX, POWERED_OFF, SIM_ENABLED
<1> QED
  BY <1>3, <1>4 DEF Watched, Slotted, Queued

(* A state machine that runs from a request never finds work to start      *)
(* while the wake timer is set for it.                                     *)
LEMMA GoodInTime == Good(modem) => ~Overtakes
<1> SUFFICES ASSUME Good(modem), Overtakes PROVE FALSE
  OBVIOUS
<1>1. /\ modem.run = "machine" /\ modem.state = "WAITING" /\ "wake" \in modem.timers
      /\ waiting_next_state(modem) \in Works
  BY DEF Overtakes, Overtaking, Works
<1>2. ~Idle(modem)
  BY <1>1 DEF Idle
<1>3. ~Starting(modem) /\ \A x \in Steps : ~Busy(modem, x)
  BY <1>1 DEF Starting, Busy, Active, Starts, Works
<1> QED
  BY <1>1, <1>2, <1>3 DEF Good

(* An application that does not ask for levels while the wake timer runs   *)
(* (ubmodem_request_level between wake_waiting_state and its timer) never  *)
(* meets the case the other theorems leave out, whatever it asks for while *)
(* the modem is at work.                                                   *)
THEOREM NeverOvertakes == Careful /\ ~RequestAwake => (Spec => []~Overtakes)
<1> SUFFICES ASSUME Careful, ~RequestAwake PROVE Spec => []~Overtakes
  OBVIOUS
<1>1. Spec => []Good(modem)
  BY GoodAlways, PTL
<1> QED
  BY <1>1, GoodInTime, PTL

(* A level that needs power is only held with the power on: after power-   *)
(* on, reset, CPWROFF, the cut of the supply and its cancellation,         *)
(* whatever the modem answers and whenever levels are asked for, unless a  *)
(* request overtakes the wake timer of a task.                             *)
THEOREM PowerAgreesCorrect == Careful => (Spec /\ []~Overtakes => []PowerAgrees)
<1> SUFFICES ASSUME Careful PROVE Spec /\ []~Overtakes => []PowerAgrees
  OBVIOUS
<1>1. Spec /\ []~Overtakes => []Good(modem)
  BY GoodAlways, PTL
<1> QED
  BY <1>1, SoundAlways, GoodPower, PTL

(* A command in flight always has its timeout, and a timeout its command,  *)
(* as long as no assertion has failed and no request overtakes the wake    *)
(* timer of a task.                                                        *)
THEOREM CommandTimesOutCorrect == Careful => (Spec /\ []~Overtakes => []CommandTimesOut)
<1> SUFFICES ASSUME Careful PROVE Spec /\ []~Overtakes => []CommandTimesOut
  OBVIOUS
<1>1. Spec /\ []~Overtakes => []Good(modem)
  BY GoodAlways, PTL
<1> QED
  BY <1>1, GoodTimesOut, PTL

(* Every increase of a power-management activity is taken back on every    *)
(* path through the handlers, the clean-ups and the cancellations, unless  *)
(* a request overtakes the wake timer of a task.                           *)
THEOREM PmBalancedCorrect == Careful => (Spec /\ []~Overtakes => []PmBalanced)
<1> SUFFICES ASSUME Careful PROVE Spec /\ []~Overtakes => []PmBalanced
  OBVIOUS
<1>1. Spec /\ []~Overtakes => []Good(modem)
  BY GoodAlways, PTL
<1> QED
  BY <1>1, GoodBalanced, PTL

(* The steps of a sub-state machine come one at a time: a command in       *)
(* flight, a delayed one or a timer. Levels may be asked for at any time,  *)
(* while a sub-state machine, a task or the wake timer runs; the only way  *)
(* to a second step is a request that overtakes the wake timer of a task,  *)
(* the state FindSlotZero goes through.                                    *)
THEOREM OneThingAtATimeCorrect == Careful => (Spec /\ []~Overtakes => []OneThingAtATime)
<1> SUFFICES ASSUME Careful PROVE Spec /\ []~Overtakes => []OneThingAtATime
  OBVIOUS
<1>1. Spec /\ []~Overtakes => []Good(modem)
  BY GoodAlways, PTL
<1>2. Good(modem) => OneThingAtATime
  BY GoodPending DEF OneThingAtATime
<1> QED
  BY <1>1, <1>2, PTL

(* A sub-state machine, a task or socket work that is under way has a      *)
(* command or a timer that will move it on, as long as no assertion has    *)
(* failed and no request overtakes the wake timer of a task.               *)
THEOREM NoStallCorrect == Careful => (Spec /\ []~Overtakes => []NoStall)
<1> SUFFICES ASSUME Careful PROVE Spec /\ []~Overtakes => []NoStall
  OBVIOUS
<1>1. Spec /\ []~Overtakes => []Good(modem)
  BY GoodAlways, PTL
<1>2. Good(modem) => NoStall
  BY GoodPending DEF NoStall, polling
<1> QED
  BY <1>1, <1>2, PTL

(* A registered modem is watched by the +CREG monitor, or what its report  *)
(* asked for is on its way: for levels asked for at any time, also while   *)
(* the modem is at work, any answer to any command and result codes at any *)
(* time, unless an assertion has failed or a request overtakes the wake    *)
(* timer of a task.                                                        *)
THEOREM RegistrationWatchedCorrect == Careful => (Spec /\ []~Overtakes => []RegistrationWatched)
<1> SUFFICES ASSUME Careful PROVE Spec /\ []~Overtakes => []RegistrationWatched
  OBVIOUS
<1>1. Spec /\ []~Overtakes => []Good(modem)
  BY GoodAlways, PTL
<1> QED
  BY <1>1, GoodWatched, PTL

=============================================================================
