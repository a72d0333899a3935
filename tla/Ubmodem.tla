------------------------------ MODULE Ubmodem ------------------------------
(***************************************************************************)
(* The u-blox modem library (apps/system/ubmodem): a main state machine    *)
(* that moves the modem between functionality levels, sub-state machines   *)
(* that do it with AT commands and timers, a parser with one handler slot  *)
(* for the command in flight and more for unsolicited result codes (URCs), *)
(* a queue of tasks, and power-management activity counts.                 *)
(*                                                                         *)
(* Everything runs in one thread, which polls: one action is one callback  *)
(* of that loop (an answer of the modem, a URC, a timer, an API call). The *)
(* loop of modem_do_state_machine is one action per iteration, and nothing *)
(* runs between its iterations. Operators named like C functions take the  *)
(* modem and return it as the function leaves it.                          *)
(***************************************************************************)
EXTENDS Integers, Sequences, FiniteSets

CONSTANTS
  Requests,       \* the levels the application asks for
  Reactions,      \* what its event listener asks for, or NOTHING
  Forced,         \* arguments of ubmodem_force_func_level
  UserTasks,      \* the tasks the application queues
  MaxTasks,       \* bound on the tasks queued at a time
  Sockets,        \* TRUE: sockets have work for the modem
  VccAtStart,     \* what the board says of the modem's power at start-up
  MaxTry,         \* the limit of every retry loop
  NumConfig,      \* configuration commands the modem model gets
  NumApn,         \* configured APN settings
  NumSlots,       \* NUM_COMMAND_HANDLERS - 1, the slots for URCs
  Delays,         \* TRUE in it: commands may follow a URC within 20 ms
  Reliable,       \* commands the modem always answers with success
  CregUrcs,       \* the +CREG values the modem reports
  RequestAny,     \* TRUE: levels are asked for while the modem is at work
  RequestAwake,   \* TRUE: levels are asked for while the wake timer runs
  DebugBuild      \* TRUE: a failed DEBUGASSERT stops the program

POWERED_OFF    == 0
STUCK_HARDWARE == 1
POWERED_ON     == 2
CMD_PROMPT     == 3
SIM_ENABLED    == 4
NETWORK        == 5
GPRS           == 6
LEVEL_MAX      == 7
Levels         == POWERED_OFF .. GPRS
NOTHING        == -1

States == {"WAITING", "IN_SUBSTATE", "DO_TASK_WORK", "DO_SOCKET_WORK",
           "DO_POWER_ON", "DO_POWER_OFF", "DO_RESET", "SETUP_CMD_PROMPT",
           "SETUP_SIM", "SETUP_NETWORK", "DISCONNECT_NETWORK",
           "OPEN_GPRS_CONNECTION", "CLOSE_GPRS_CONNECTION",
           "FAKE_STUCK_HARDWARE"}

(* A command is named by the handler its answer goes to, a timer by its    *)
(* callback.                                                               *)
Commands == {"initial", "flowcontrol", "CMEE", "INVALIDTEST", "CFUN_0",
             "COPS_2", "config", "check_CPIN", "set_CPIN", "CREG", "CFUN_1",
             "disable_COPS", "retry_COPS", "COPS_off", "CFUN_off",
             "check_CGATT", "set_CGATT", "UPSND", "deactivate", "UPSD",
             "activate", "ipconfig", "disable_CGATT", "abort", "CPWROFF",
             "raw", "info", "socket"}
CregTimers == {"start_register", "retry_registration", "register_timeout"}
HighTimers == {"power_on", "after_initial", "sim_retry", "unregister",
               "retry_cgatt", "set_cgatt"}
Timers     == CregTimers \cup HighTimers \cup
              {"wake", "cmd", "delay", "poweroff", "gprs", "retry_upsnd",
               "info_retry"}
UrcHandlers == {"registration", "monitor", "UUPSDD"}
TaskKinds   == {"raw", "info", "recover", "reinitialize", "retry_sim", "reattempt"}
NetworkStates == {"ENABLING_CREG", "ENABLING_RF", "STARTING", "WAITING",
                  "RETRYING", "DISCONNECTING"}

Failures    == {"none", "timer set twice", "slot 0 in use", "list full",
                "delayed command active", "same level reached", "wrong level",
                "+CREG handler left", "creg timer left", "not retrying",
                "+CREG handler not registered", "+CREG outside the sub-state"}

ASSUME UbmodemAssumption ==
  /\ Requests \subseteq Levels
  /\ Reactions \subseteq Levels \cup {NOTHING} /\ Reactions # {}
  /\ Forced \subseteq Levels \cup {LEVEL_MAX}
  /\ UserTasks \subseteq {"raw", "info"}
  /\ {MaxTasks, MaxTry, NumConfig, NumApn, NumSlots} \subseteq Nat
  /\ {Sockets, RequestAny, RequestAwake, DebugBuild} \subseteq BOOLEAN
  /\ VccAtStart \subseteq BOOLEAN
  /\ Delays \subseteq BOOLEAN /\ FALSE \in Delays
  /\ Reliable \subseteq Commands
  /\ CregUrcs \subseteq {"home", "idle", "lost"}

Slots == 1 .. NumSlots

VARIABLE modem

(* struct ubmodem_s. A timer id other than -1 is the timer being in        *)
(* timers. cmd is slot 0 of the parser, urc the others; delayed is         *)
(* delayed_cmd. n, pos, flag, net, got and keep are the union sub: the     *)
(* retry count, the position in a sequence of steps, is_reset or           *)
(* first_check, network_state, received_creg_while_retrying and            *)
(* keep_creg_urc. cleanup: substate_cleanup_fn is set. run: the thread is  *)
(* polling, in modem_do_state_machine (called from the wake timer: "wake") *)
(* or stopped by the assertion named in fail. low and high count the calls *)
(* of ubmodem_pm_set_activity. soon (the last answer is less than 20 ms    *)
(* old) and ask (what the listener of this step's event asks for) are the  *)
(* inputs of one step. sub is history: the sub-state machine that was      *)
(* started last.                                                           *)
ModemRecords ==
  [state : States, level : Levels, target : Levels,
   inter : Levels \cup {LEVEL_MAX}, force : Levels \cup {LEVEL_MAX},
   cmd : Commands \cup {"none"}, delayed : Commands \cup {"none"},
   timers : SUBSET Timers, urc : [Slots -> UrcHandlers \cup {"none"}],
   creg : BOOLEAN, uupsdd : BOOLEAN, tasks : Seq(TaskKinds),
   n : Int, pos : Int, flag : BOOLEAN,
   net : NetworkStates, got : BOOLEAN, keep : BOOLEAN,
   cleanup : BOOLEAN, off : BOOLEAN, vcc_off : BOOLEAN,
   sock : BOOLEAN, work : BOOLEAN,
   low : Int, high : Int,
   run : {"poll", "machine", "wake", "stop"}, fail : Failures,
   soon : BOOLEAN, ask : Levels \cup {NOTHING}, sub : States]

(* The modem structure keeps its type.                                     *)
TypeOK == modem \in ModemRecords

-----------------------------------------------------------------------------
(* Assertions, timers, activity counts.                                    *)

assert(m, cond, name) ==
  IF cond \/ m.run = "stop" THEN m
  ELSE [m EXCEPT !.run = "stop", !.fail = name]

DEBUGASSERT(m, cond, name) == assert(m, cond \/ ~DebugBuild, name)

set_timer(m, t) ==
  [assert(m, t \notin m.timers, "timer set twice") EXCEPT !.timers = @ \cup {t}]

remove_timer(m, t) == [m EXCEPT !.timers = @ \ {t}]

Flag(b) == IF b THEN 1 ELSE 0

pm_low(m, d)  == [m EXCEPT !.low  = @ + d]
pm_high(m, d) == [m EXCEPT !.high = @ + d]

(* A timer whose running is HIGH activity.                                 *)
set_high_timer(m, t) == set_timer(pm_high(m, 1), t)

(* creg_timer_id: at most one of the three is pending; LOW activity.       *)
set_creg_timer(m, t) == pm_low(set_timer(m, t), 1)

remove_creg_timer_only(m) == [m EXCEPT !.timers = @ \ CregTimers] \* faulty variant

remove_creg_timer(m) ==
  IF m.timers \cap CregTimers = {} THEN m
  ELSE pm_low([m EXCEPT !.timers = @ \ CregTimers], -1)

remove_gprs_timer(m) ==
  IF "gprs" \notin m.timers THEN m ELSE pm_low(remove_timer(m, "gprs"), -1)

-----------------------------------------------------------------------------
(* The parser's table of response handlers.                                *)

LowActivity(c) == c = "retry_COPS"

NameOf(h) == CASE h \in {"CREG", "registration", "monitor"} -> "+CREG"
               [] h = "UUPSDD" -> "+UUPSDD"
               [] OTHER -> "other"

SlotsOf(m, name) == {i \in Slots : m.urc[i] # "none" /\ NameOf(m.urc[i]) = name}
First(S) == CHOOSE i \in S : \A j \in S : i <= j

cmd_activity(m, c, d) == IF LowActivity(c) THEN pm_low(m, d) ELSE pm_high(m, d)

register_command(m, c) ==
  cmd_activity([assert(m, m.cmd = "none", "slot 0 in use") EXCEPT !.cmd = c], c, 1)

unregister_command(m) == [cmd_activity(m, m.cmd, -1) EXCEPT !.cmd = "none"]

register_urc(m, u) ==
  LET free == {i \in Slots : m.urc[i] = "none"} IN
  IF free = {} THEN assert(m, FALSE, "list full")
  ELSE [m EXCEPT !.urc[First(free)] = u]

unregister_urc(m, name) ==
  IF m.cmd # "none" /\ NameOf(m.cmd) = name THEN unregister_command(m)
  ELSE IF SlotsOf(m, name) = {} THEN m
  ELSE [m EXCEPT !.urc[First(SlotsOf(m, name))] = "none"]

unregister_creg(m) ==
  IF m.creg THEN [unregister_urc(m, "+CREG") EXCEPT !.creg = FALSE] ELSE m

unregister_uupsdd(m) ==
  IF m.uupsdd THEN [unregister_urc(m, "+UUPSDD") EXCEPT !.uupsdd = FALSE] ELSE m

-----------------------------------------------------------------------------
(* Sending a command: at once, or 20 ms after the last answer.             *)

send_without_timeout(m, c) == register_command(m, c) \* faulty variant: no timer

modem_send_cmd(m, c) ==
  set_timer(register_command(m, c), "cmd")

send_cmd(m, c) ==
  LET a == DEBUGASSERT(m, m.delayed = "none", "delayed command active") IN
  IF m.soon THEN pm_high(set_timer([a EXCEPT !.delayed = c], "delay"), 1)
  ELSE modem_send_cmd(a, c)

modem_delayed_command_callback(m) ==
  modem_send_cmd([pm_high(m, -1) EXCEPT !.delayed = "none"], m.delayed)

-----------------------------------------------------------------------------
(* ubmodem_main.c: levels, states, requests.                               *)

level_transition_matrix(l, t) ==
  IF t = STUCK_HARDWARE /\ l # POWERED_ON
  THEN IF l = GPRS THEN "DISCONNECT_NETWORK" ELSE "FAKE_STUCK_HARDWARE"
  ELSE IF l = t THEN "WAITING"
  ELSE CASE l = STUCK_HARDWARE              -> "DO_RESET"
         [] l = POWERED_OFF                 -> "DO_POWER_ON"
         [] l = POWERED_ON                  -> "SETUP_CMD_PROMPT"
         [] l = CMD_PROMPT  /\ t > l        -> "SETUP_SIM"
         [] l = SIM_ENABLED /\ t > l        -> "SETUP_NETWORK"
         [] l = NETWORK     /\ t > l        -> "OPEN_GPRS_CONNECTION"
         [] l = GPRS        /\ t = NETWORK  -> "CLOSE_GPRS_CONNECTION"
         [] OTHER                           -> "DO_POWER_OFF"

in_state_machine(m) == m.run \in {"machine", "wake"}

modem_do_state_machine(m) ==
  IF m.run = "stop" THEN m ELSE [m EXCEPT !.run = "machine"]

wake_waiting_state(m, force_wake) ==
  IF \/ in_state_machine(m)
     \/ m.state # "WAITING" /\ ~force_wake
     \/ "wake" \in m.timers
  THEN m
  ELSE set_high_timer(m, "wake")

cleanup_timer_only(m) == remove_creg_timer(m) \* faulty variant: the handler stays

setup_network_cleanup(m) ==
  LET t == remove_creg_timer(m) IN
  IF t.keep THEN t ELSE unregister_creg(t)

wake_before_change(m, s) == \* faulty variant: wakes by the state it leaves
  [pm_low(wake_waiting_state(m, FALSE), Flag(m.state = "WAITING") - Flag(s = "WAITING"))
   EXCEPT !.state = s]

change_state(m, s) ==
  LET was == m.state = "WAITING"
      c == IF m.cleanup /\ m.state = "IN_SUBSTATE"
           THEN [setup_network_cleanup(m) EXCEPT !.cleanup = FALSE] ELSE m
      p == pm_low(c, CASE was /\ s # "WAITING" -> 1
                       [] ~was /\ s = "WAITING" -> -1
                       [] OTHER -> 0)
  IN wake_waiting_state([p EXCEPT !.state = s], was)

(* The first half of __ubmodem_reached_level, up to the events.            *)
enter_level(m, l) ==
  [m EXCEPT !.level = l, !.inter = IF @ = l THEN LEVEL_MAX ELSE @]

cancel_keeps_timer(m) == \* faulty variant: the timer goes on
  IF m.target > POWERED_OFF /\ "poweroff" \in m.timers
  THEN change_state(enter_level([m EXCEPT !.off = TRUE], POWERED_OFF), "WAITING")
  ELSE m

cancel_full_poweroff(m) ==
  IF m.target > POWERED_OFF /\ "poweroff" \in m.timers
  THEN change_state(enter_level([remove_timer(m, "poweroff") EXCEPT !.off = TRUE],
                                POWERED_OFF), "WAITING")
  ELSE m

run_if_waiting(m) ==
  IF m.state = "WAITING" /\ ~in_state_machine(m) THEN modem_do_state_machine(m) ELSE m

request_forced_level(m, l) == \* faulty variant: LEVEL_MAX is taken for a level
  run_if_waiting(cancel_full_poweroff([m EXCEPT !.target = m.force]))

ubmodem_request_level(m, l) ==
  run_if_waiting(cancel_full_poweroff(
    [m EXCEPT !.target = IF m.force < LEVEL_MAX THEN m.force ELSE l]))

retry_current_level(m, l) == run_if_waiting([m EXCEPT !.inter = l])

(* The application's listener, called for TARGET_LEVEL_REACHED and for     *)
(* FAILED_LEVEL_TRANSITION.                                                *)
publish_event(m) == IF m.ask = NOTHING THEN m ELSE ubmodem_request_level(m, m.ask)

reached_level(m, l) ==
  IF l = m.level THEN DEBUGASSERT(m, FALSE, "same level reached")
  ELSE LET e == enter_level(m, l)
       IN change_state(IF l = m.target THEN publish_event(e) ELSE e, "WAITING")

level_transition_failed(m) ==
  IF m.target = POWERED_OFF THEN reached_level(m, STUCK_HARDWARE)
  ELSE LET w == publish_event(change_state([m EXCEPT !.target = m.level], "WAITING"))
       IN IF w.force < LEVEL_MAX /\ w.target # w.force
          THEN ubmodem_request_level(w, w.force) ELSE w

add_task(m, k) == wake_waiting_state([m EXCEPT !.tasks = Append(@, k)], FALSE)
-----------------------------------------------------------------------------
(* Clean-up of a network or GPRS connection.                               *)

usrsock_uninitialize(m) == [m EXCEPT !.sock = FALSE, !.work = FALSE]

gprs_cleanup(m) == usrsock_uninitialize(remove_gprs_timer(unregister_uupsdd(m)))

network_cleanup(m) ==
  LET g == IF m.level = GPRS THEN gprs_cleanup(m) ELSE m IN
  IF m.level >= NETWORK THEN unregister_creg(remove_creg_timer(g)) ELSE g

(* memset(sub, 0): what a sub-state machine starts from.                   *)
reset_sub(m) == [m EXCEPT !.n = 0, !.pos = 0, !.flag = FALSE]

(* An answer that ends the sub-state machine unless it is OK.              *)
on_ok(m, r, next) == IF r = "OK" THEN next ELSE level_transition_failed(m)

-----------------------------------------------------------------------------
(* ubmodem_substate_poweron.c, ubmodem_substate_poweroff.c.                *)

modem_do_power_on_timer_handler(m) ==
  LET h == pm_high(m, -1) IN
  CASE m.pos = 0 /\ m.vcc_off ->
         set_high_timer([h EXCEPT !.vcc_off = FALSE, !.pos = 1], "power_on")
    [] m.pos = 0 /\ ~m.vcc_off ->
         set_high_timer([h EXCEPT !.pos = 2], "power_on")
    [] m.pos = 3 /\ m.flag /\ ~m.off ->
         reached_level([h EXCEPT !.pos = 4], POWERED_ON)
    [] m.pos = 5 ->
         reached_level([h EXCEPT !.pos = 6, !.off = FALSE], POWERED_ON)
    [] OTHER ->
         set_high_timer([h EXCEPT !.pos = @ + 1], "power_on")

start_do_power_on(m) ==
  LET a == DEBUGASSERT(m, m.level = POWERED_OFF, "wrong level") IN
  IF ~m.off THEN reached_level(a, POWERED_ON)
  ELSE modem_do_power_on_timer_handler(pm_high(reset_sub(a), 1))

start_do_reset(m) ==
  modem_do_power_on_timer_handler(pm_high([reset_sub(m) EXCEPT !.flag = TRUE], 1))

power_off_unnoticed(m) == \* faulty variant: is_powered_off is not set
  reached_level([m EXCEPT !.vcc_off = TRUE], POWERED_OFF)

modem_do_power_off_timer_handler(m) ==
  reached_level([m EXCEPT !.vcc_off = TRUE, !.off = TRUE], POWERED_OFF)

CPWROFF_handler(m, r) ==
  IF r # "OK" THEN reached_level(m, STUCK_HARDWARE)
  ELSE IF m.target > POWERED_OFF
       THEN reached_level([m EXCEPT !.off = TRUE], POWERED_OFF)
       ELSE set_timer(m, "poweroff")

start_do_power_off(m) == send_cmd(network_cleanup(m), "CPWROFF")

-----------------------------------------------------------------------------
(* ubmodem_substate_cmdprompt.c.                                           *)

retry_or_fail(m, c, again) ==
  LET t == [m EXCEPT !.n = @ + 1] IN
  IF again /\ t.n < MaxTry THEN send_cmd(t, c) ELSE level_transition_failed(t)

initial_handler(m, r) ==
  IF r = "OK" THEN set_high_timer(reset_sub(m), "after_initial")
  ELSE retry_or_fail(m, "initial", r \in {"ERROR", "TIMEOUT"})

delay_after_initial_handler(m) == send_cmd(pm_high(m, -1), "flowcontrol")

enable_hw_flowcontrol_handler(m, r) ==
  IF r = "OK" THEN send_cmd(m, "CMEE")
  ELSE retry_or_fail(m, "flowcontrol", r \in {"ERROR", "TIMEOUT"})

CMEE_handler(m, r) ==
  IF r = "OK" THEN send_cmd(m, "INVALIDTEST")
  ELSE retry_or_fail(m, "CMEE", r \in {"ERROR", "TIMEOUT"})

(* CODE: the expected CME error 100.                                       *)
INVALIDCOMMANDTEST_handler(m, r) ==
  IF r = "CODE" THEN send_cmd(reset_sub(m), "CFUN_0")
  ELSE set_high_timer(m, "after_initial")

CFUN_0_handler(m, r) == on_ok(m, r, send_cmd(reset_sub(m), "COPS_2"))

(* The groups of configuration commands in one row; pos is the next.       *)
cmdprompt_configure_next(m) ==
  IF m.pos >= NumConfig THEN reached_level(m, CMD_PROMPT)
  ELSE send_cmd([m EXCEPT !.pos = @ + 1], "config")

COPS_2_handler(m, r) == on_ok(m, r, cmdprompt_configure_next([m EXCEPT !.pos = 0]))

cmdprompt_generic_config_handler(m, r) ==
  IF r = "OK" THEN cmdprompt_configure_next([m EXCEPT !.n = 0])
  ELSE IF m.n >= MaxTry THEN level_transition_failed([m EXCEPT !.n = @ + 1])
  ELSE cmdprompt_configure_next([m EXCEPT !.n = @ + 1, !.pos = @ - 1])

start_setup_cmd_prompt(m) ==
  send_cmd(reset_sub(DEBUGASSERT(m, m.level = POWERED_ON, "wrong level")),
           "initial")

-----------------------------------------------------------------------------
(* ubmodem_substate_sim.c.                                                 *)

modem_setup_sim_retry_timer_handler(m) == send_cmd(pm_high(m, -1), "check_CPIN")

(* CODE: CME error 3; PIN: a PIN is asked for; ALT: something else is.     *)
check_CPIN_handler(m, r) ==
  CASE r = "CODE" /\ m.n + 1 < MaxTry ->
         set_high_timer([m EXCEPT !.n = @ + 1], "sim_retry")
    [] r = "OK"            -> reached_level(m, SIM_ENABLED)
    [] r = "PIN" /\ m.flag -> send_cmd(m, "set_CPIN")
    [] OTHER               -> level_transition_failed(m)

set_CPIN_handler(m, r) == on_ok(m, r, send_cmd(reset_sub(m), "check_CPIN"))

start_setup_sim(m) ==
  set_high_timer([reset_sub(DEBUGASSERT(m, m.level = CMD_PROMPT, "wrong level"))
                  EXCEPT !.flag = TRUE], "sim_retry")

-----------------------------------------------------------------------------
(* ubmodem_substate_network.c: registration.                               *)

start_setup_network(m) ==
  LET a == DEBUGASSERT(m, m.level = SIM_ENABLED, "wrong level")
      b == DEBUGASSERT(a, ~m.creg, "+CREG handler left")
      c == DEBUGASSERT(b, m.timers \cap CregTimers = {}, "creg timer left")
  IN send_cmd([reset_sub(c) EXCEPT !.net = "ENABLING_CREG", !.got = FALSE,
                                   !.keep = FALSE, !.cleanup = TRUE], "CREG")

CREG_handler(m, r) ==
  on_ok(m, r, send_cmd([register_urc(m, "registration")
                        EXCEPT !.creg = TRUE, !.net = "ENABLING_RF"], "CFUN_1"))

CFUN_1_handler(m, r) ==
  on_ok(m, r, send_cmd([m EXCEPT !.net = "STARTING"], "disable_COPS"))

(* CODE: CME errors 3 and 15, which are ignored.                           *)
disable_COPS_handler(m, r) ==
  IF r \in {"OK", "CODE"}
  THEN set_creg_timer([m EXCEPT !.net = "WAITING"], "start_register")
  ELSE level_transition_failed(m)

(* creg_timer_id = -1 and LOW activity decreased, when it fires.           *)
network_start_register_handler(m) ==
  send_cmd([pm_low(m, -1) EXCEPT !.net = "RETRYING", !.got = FALSE], "retry_COPS")

retry_COPS_handler(m, r) ==
  IF r \in {"OK", "CODE"}
  THEN set_creg_timer(
         [DEBUGASSERT(m, m.net = "RETRYING", "not retrying") EXCEPT !.net = "WAITING"],
         "register_timeout")
  ELSE level_transition_failed(m)

registered_unwatched(m) == \* faulty variant: keep_creg_urc is not set
  reached_level(register_urc(unregister_urc(m, "+CREG"), "monitor"), NETWORK)

network_registration_successed(m) ==
  LET u == register_urc(unregister_urc(m, "+CREG"), "monitor") IN
  reached_level([DEBUGASSERT(u, m.creg, "+CREG handler not registered")
                 EXCEPT !.keep = TRUE], NETWORK)

network_retry_registration_timer_handler(m) ==
  LET t == DEBUGASSERT(pm_low(m, -1), m.net = "RETRYING", "not retrying") IN
  IF m.got THEN network_registration_successed(t) ELSE send_cmd(t, "retry_COPS")

(* The registration time is over; before, the timer is set again and       *)
(* nothing else changes.                                                   *)
network_register_timeout_handler(m) ==
  level_transition_failed(
    retry_current_level(network_cleanup(pm_low(m, -1)), SIM_ENABLED))

registration_urc_no_timer(m, val) == \* faulty variant: no timer after +CREG: 0
  CASE m.net \in {"WAITING", "DISCONNECTING"} /\ val = "home" ->
         network_registration_successed(m)
    [] m.net = "WAITING" /\ val = "idle" ->
         [remove_creg_timer(m) EXCEPT !.net = "RETRYING", !.got = FALSE]
    [] OTHER -> [m EXCEPT !.got = @ \/ val = "home"]

registration_urc_pCREG_handler(m, val) ==
  LET a == DEBUGASSERT(m, m.state = "IN_SUBSTATE", "+CREG outside the sub-state") IN
  CASE m.net \in {"WAITING", "DISCONNECTING"} /\ val = "home" ->
         network_registration_successed(a)
    [] m.net = "RETRYING" /\ val = "home" ->
         [a EXCEPT !.got = TRUE]
    [] m.net = "WAITING" /\ val = "idle" ->
         set_creg_timer([remove_creg_timer(a) EXCEPT !.net = "RETRYING", !.got = FALSE],
                        "retry_registration")
    [] OTHER -> a

monitor_urc_pCREG_handler(m, val) ==
  IF val = "home" THEN remove_creg_timer(m)
  ELSE add_task(unregister_creg(remove_creg_timer(m)), "retry_sim")

start_disconnect_network(m) ==
  send_cmd([reset_sub(network_cleanup(
              DEBUGASSERT(m, m.level \in {NETWORK, GPRS}, "wrong level")))
            EXCEPT !.net = "DISCONNECTING", !.got = FALSE, !.keep = FALSE], "COPS_off")

COPS_off_handler(m, r) == on_ok(m, r, set_high_timer(m, "unregister"))

network_unregister_timer_handler(m) == send_cmd(pm_high(m, -1), "CFUN_off")

CFUN_off_handler(m, r) == on_ok(m, r, reached_level(m, SIM_ENABLED))

-----------------------------------------------------------------------------
(* ubmodem_substate_gprs.c.                                                *)

start_open_gprs(m) ==
  send_cmd(reset_sub(DEBUGASSERT(m, m.level = NETWORK, "wrong level")),
           "check_CGATT")

start_setup_internal_pdp_context(m) == send_cmd([m EXCEPT !.n = 0], "UPSND")

(* OK: attached; ALT: not attached; BAD: an OK without the value.          *)
check_CGATT_handler(m, r) ==
  CASE r = "OK"  -> start_setup_internal_pdp_context(m)
    [] r = "ALT" -> send_cmd([m EXCEPT !.n = MaxTry], "set_CGATT")
    [] r = "BAD" -> set_high_timer(m, "retry_cgatt")
    [] OTHER     -> level_transition_failed(m)

retry_check_cgatt(m) == send_cmd(pm_high(m, -1), "check_CGATT")

set_CGATT_handler(m, r) ==
  LET t == [m EXCEPT !.n = @ - 1] IN
  IF r = "OK" THEN start_setup_internal_pdp_context(m)
  ELSE IF t.n > 0 THEN set_high_timer(t, "set_cgatt")
  ELSE level_transition_failed(t)

modem_set_cgatt_retry_timer_handler(m) == send_cmd(pm_high(m, -1), "set_CGATT")

start_configuring_pdp_context(m) == send_cmd([m EXCEPT !.pos = -1], "UPSD")

(* OK: no active context; ALT: an active one; BAD: another value was read. *)
check_UPSND_handler(m, r) ==
  CASE r = "OK"                    -> start_configuring_pdp_context(m)
    [] r = "ALT"                   -> send_cmd(m, "deactivate")
    [] r = "BAD" /\ m.n < MaxTry   -> set_timer([m EXCEPT !.n = @ + 1], "retry_upsnd")
    [] OTHER                       -> level_transition_failed(m)

retry_upsnd_check(m) == send_cmd(m, "UPSND")

deactivate_UPSDA_handler(m, r) == on_ok(m, r, start_configuring_pdp_context(m))

send_next_apn_configuration(m) ==
  LET t == [m EXCEPT !.pos = @ + 1] IN
  send_cmd(t, IF t.pos < NumApn THEN "UPSD" ELSE "activate")

UPSD_handler(m, r) == on_ok(m, r, send_next_apn_configuration(m))

activate_UPSDA_handler(m, r) ==
  on_ok(m, r, send_cmd([register_urc(m, "UUPSDD")
                        EXCEPT !.uupsdd = TRUE, !.pos = 0], "ipconfig"))

check_ipconfig_handler(m, r) ==
  on_ok(m, r, IF m.pos < 2 THEN send_cmd([m EXCEPT !.pos = @ + 1], "ipconfig")
              ELSE reached_level([m EXCEPT !.pos = -1, !.sock = TRUE], GPRS))

urc_pUUPSDD_handler(m) ==
  pm_low(set_timer(remove_gprs_timer(unregister_uupsdd(m)), "gprs"), 1)

reattempt_gprs_connection_timer_handler(m) ==
  IF m.level < GPRS THEN pm_low(m, -1) ELSE add_task(pm_low(m, -1), "reattempt")

start_close_gprs(m) ==
  send_cmd(reset_sub(gprs_cleanup(
             DEBUGASSERT(m, m.level = GPRS, "wrong level"))),
           "disable_CGATT")

(* Also the handler of the line that aborts a command without an answer.   *)
disable_CGATT_handler(m, c, r) ==
  LET t == IF c = "abort" THEN [m EXCEPT !.n = @ + 1] ELSE m IN
  CASE r # "TIMEOUT" -> reached_level(m, NETWORK)
    [] r = "TIMEOUT" /\ (c # "abort" \/ m.n < MaxTry) -> modem_send_cmd(t, "abort")
    [] OTHER -> reached_level(network_cleanup(t), STUCK_HARDWARE)

-----------------------------------------------------------------------------
(* Tasks. A task that starts no work leaves the state to its caller, which *)
(* goes back to waiting.                                                   *)

command_callback(m) == change_state(m, "WAITING")

start_raw_command(m) ==
  IF m.level < CMD_PROMPT THEN change_state(m, "WAITING") ELSE modem_send_cmd(m, "raw")

start_read_info(m) ==
  IF m.level < SIM_ENABLED THEN change_state(m, "WAITING") ELSE send_cmd(m, "info")

modem_sim_retry_timer_handler(m) == start_read_info([m EXCEPT !.n = @ + 1])

(* CODE: the SIM is not ready, CME errors 13 to 15.                        *)
info_handler(m, r) ==
  CASE r = "CODE" /\ m.n < MaxTry -> set_timer(m, "info_retry")
    [] r = "OK"                   -> change_state(m, "WAITING")
    [] OTHER                      -> level_transition_failed(m)

recover_modem_task(m) == retry_current_level(network_cleanup(m), POWERED_OFF)

(* reinitialize_gprs_task and reattempt_gprs_connection.                   *)
reinitialize_gprs_task(m) ==
  IF m.level < GPRS THEN m ELSE retry_current_level(m, NETWORK)

retry_network_through_sim(m) == retry_current_level(network_cleanup(m), SIM_ENABLED)

modem_do_task_work(m) ==
  IF m.tasks = << >> THEN change_state(m, "WAITING")
  ELSE LET k == Head(m.tasks)
           t == [m EXCEPT !.tasks = Tail(@)]
       IN CASE k = "raw"       -> start_raw_command(t)
            [] k = "info"      -> start_read_info([t EXCEPT !.n = 0])
            [] k = "recover"   -> change_state(recover_modem_task(t), "WAITING")
            [] k = "retry_sim" -> change_state(retry_network_through_sim(t), "WAITING")
            [] OTHER           -> change_state(reinitialize_gprs_task(t), "WAITING")

(* The socket that has work sends one command; the daemon itself is not    *)
(* modelled. An error makes the daemon ask for a new GPRS connection, an   *)
(* unanswered command for a reset of the modem.                            *)
do_usrsock_work(m) ==
  IF ~m.work THEN change_state(m, "WAITING")
  ELSE send_cmd([m EXCEPT !.work = FALSE], "socket")

socket_handler(m, r) ==
  LET k == CASE r = "ERROR" -> "reinitialize" [] r = "TIMEOUT" -> "recover"
             [] OTHER -> "none"
  IN change_state(IF k = "none" THEN m ELSE add_task(m, k), "WAITING")

-----------------------------------------------------------------------------
(* One iteration of the loop of modem_do_state_machine.                    *)

tasks_first(m) == \* faulty variant: tasks do not wait for the level
  IF m.tasks # << >> THEN "DO_TASK_WORK"
  ELSE IF m.inter < LEVEL_MAX /\ m.inter # m.level THEN level_transition_matrix(m.level, m.inter)
  ELSE IF m.level # m.target THEN level_transition_matrix(m.level, m.target)
  ELSE IF m.level >= GPRS /\ m.work THEN "DO_SOCKET_WORK"
  ELSE "WAITING"

waiting_next_state(m) ==
  IF m.inter < LEVEL_MAX /\ m.inter # m.level THEN level_transition_matrix(m.level, m.inter)
  ELSE IF m.level # m.target THEN level_transition_matrix(m.level, m.target)
  ELSE IF m.tasks # << >> THEN "DO_TASK_WORK"
  ELSE IF m.level >= GPRS /\ m.work THEN "DO_SOCKET_WORK"
  ELSE "WAITING"

state_machine_case(m) ==
  LET s == [change_state(m, "IN_SUBSTATE") EXCEPT !.sub = m.state] IN
  CASE m.state = "IN_SUBSTATE"    -> m
    [] m.state = "WAITING"        ->
         IF waiting_next_state(m) = "WAITING" THEN m
         ELSE change_state(m, waiting_next_state(m))
    [] m.state = "DO_TASK_WORK"   -> modem_do_task_work(m)
    [] m.state = "DO_SOCKET_WORK" -> do_usrsock_work(m)
    [] m.state = "DO_POWER_ON"    -> start_do_power_on(s)
    [] m.state = "DO_RESET"       -> start_do_reset(s)
    [] m.state = "DO_POWER_OFF"   -> start_do_power_off(s)
    [] m.state = "SETUP_CMD_PROMPT" -> start_setup_cmd_prompt(s)
    [] m.state = "SETUP_SIM"      -> start_setup_sim(s)
    [] m.state = "SETUP_NETWORK"  -> start_setup_network(s)
    [] m.state = "DISCONNECT_NETWORK"    -> start_disconnect_network(s)
    [] m.state = "OPEN_GPRS_CONNECTION"  -> start_open_gprs(s)
    [] m.state = "CLOSE_GPRS_CONNECTION" -> start_close_gprs(s)
    [] OTHER                      -> reached_level(s, STUCK_HARDWARE)

(* while (curr_state != modem->state); then back to the caller, which is   *)
(* wake_timer_handler when run is "wake".                                  *)
state_machine_iteration(m) ==
  LET c == state_machine_case(m) IN
  IF c.state # m.state \/ c.run = "stop" THEN c
  ELSE [pm_high(c, IF m.run = "wake" THEN -1 ELSE 0) EXCEPT !.run = "poll"]

wake_timer_handler(m) == [m EXCEPT !.run = "wake"]

-----------------------------------------------------------------------------
(* What the modem may answer and the handlers it goes to.                  *)

Success(c) == IF c = "INVALIDTEST" THEN "CODE" ELSE "OK"

AnswersTo(c) ==
  IF c \in Reliable THEN {Success(c)}
  ELSE {"OK", "ERROR"} \cup
       CASE c \in {"initial", "flowcontrol", "CMEE"}         -> {"CME"}
         [] c \in {"INVALIDTEST", "disable_COPS", "retry_COPS", "info"} -> {"CODE"}
         [] c = "check_CPIN"                                 -> {"CODE", "PIN", "ALT"}
         [] c \in {"check_CGATT", "UPSND"}                   -> {"ALT", "BAD"}
         [] OTHER                                            -> {}

handle(m, c, r) ==
  CASE c = "initial"      -> initial_handler(m, r)
    [] c = "flowcontrol"  -> enable_hw_flowcontrol_handler(m, r)
    [] c = "CMEE"         -> CMEE_handler(m, r)
    [] c = "INVALIDTEST"  -> INVALIDCOMMANDTEST_handler(m, r)
    [] c = "CFUN_0"       -> CFUN_0_handler(m, r)
    [] c = "COPS_2"       -> COPS_2_handler(m, r)
    [] c = "config"       -> cmdprompt_generic_config_handler(m, r)
    [] c = "check_CPIN"   -> check_CPIN_handler(m, r)
    [] c = "set_CPIN"     -> set_CPIN_handler(m, r)
    [] c = "CREG"         -> CREG_handler(m, r)
    [] c = "CFUN_1"       -> CFUN_1_handler(m, r)
    [] c = "disable_COPS" -> disable_COPS_handler(m, r)
    [] c = "retry_COPS"   -> retry_COPS_handler(m, r)
    [] c = "COPS_off"     -> COPS_off_handler(m, r)
    [] c = "CFUN_off"     -> CFUN_off_handler(m, r)
    [] c = "check_CGATT"  -> check_CGATT_handler(m, r)
    [] c = "set_CGATT"    -> set_CGATT_handler(m, r)
    [] c = "UPSND"        -> check_UPSND_handler(m, r)
    [] c = "deactivate"   -> deactivate_UPSDA_handler(m, r)
    [] c = "UPSD"         -> UPSD_handler(m, r)
    [] c = "activate"     -> activate_UPSDA_handler(m, r)
    [] c = "ipconfig"     -> check_ipconfig_handler(m, r)
    [] c \in {"disable_CGATT", "abort"} -> disable_CGATT_handler(m, c, r)
    [] c = "CPWROFF"      -> CPWROFF_handler(m, r)
    [] c = "raw"          -> command_callback(m)
    [] c = "info"         -> info_handler(m, r)
    [] OTHER              -> socket_handler(m, r)

handle_timer(m, t) ==
  CASE t = "wake"               -> wake_timer_handler(m)
    [] t = "cmd"                -> handle(unregister_command(m), m.cmd, "TIMEOUT")
    [] t = "delay"              -> modem_delayed_command_callback(m)
    [] t = "power_on"           -> modem_do_power_on_timer_handler(m)
    [] t = "poweroff"           -> modem_do_power_off_timer_handler(m)
    [] t = "after_initial"      -> delay_after_initial_handler(m)
    [] t = "sim_retry"          -> modem_setup_sim_retry_timer_handler(m)
    [] t = "start_register"     -> network_start_register_handler(m)
    [] t = "retry_registration" -> network_retry_registration_timer_handler(m)
    [] t = "register_timeout"   -> network_register_timeout_handler(m)
    [] t = "unregister"         -> network_unregister_timer_handler(m)
    [] t = "retry_cgatt"        -> retry_check_cgatt(m)
    [] t = "set_cgatt"          -> modem_set_cgatt_retry_timer_handler(m)
    [] t = "retry_upsnd"        -> retry_upsnd_check(m)
    [] t = "gprs"               -> reattempt_gprs_connection_timer_handler(m)
    [] OTHER                    -> modem_sim_retry_timer_handler(m)

-----------------------------------------------------------------------------
(* The modem structure after ubmodem_initialize.                           *)
initial_modem(vcc) ==
  [state |-> "WAITING", level |-> IF vcc THEN POWERED_ON ELSE POWERED_OFF,
   target |-> POWERED_OFF, inter |-> LEVEL_MAX, force |-> LEVEL_MAX,
   cmd |-> "none", delayed |-> "none", timers |-> {},
   urc |-> [i \in Slots |-> "none"], creg |-> FALSE, uupsdd |-> FALSE,
   tasks |-> << >>, n |-> 0, pos |-> 0, flag |-> FALSE,
   net |-> "ENABLING_CREG", got |-> FALSE, keep |-> FALSE, cleanup |-> FALSE,
   off |-> ~vcc, vcc_off |-> ~vcc, sock |-> FALSE, work |-> FALSE,
   low |-> 0, high |-> 0, run |-> "machine", fail |-> "none",
   soon |-> FALSE, ask |-> NOTHING, sub |-> "WAITING"]

Init == modem \in {initial_modem(vcc) : vcc \in VccAtStart}

polling == modem.run = "poll"

(* The modem as a callback finds it, and as it leaves it.                  *)
enter(m, soon, ask) == [m EXCEPT !.soon = soon, !.ask = ask]
leave(m) == [m EXCEPT !.soon = FALSE, !.ask = NOTHING]

StateMachine ==
  /\ in_state_machine(modem)
  /\ \E d \in Delays, a \in Reactions :
       modem' = leave(state_machine_iteration(enter(modem, d, a)))

(* A level is asked for from outside the library's callbacks, in any case  *)
(* when the modem waits for work or for its power to be cut.               *)
InGoodTime ==
  /\ RequestAny \/ modem.state = "WAITING" \/ "poweroff" \in modem.timers
  /\ RequestAwake \/ "wake" \notin modem.timers

Request(l) ==
  /\ polling /\ InGoodTime
  /\ modem' = ubmodem_request_level(modem, l)

ForceLevel(l) ==
  /\ polling /\ InGoodTime
  /\ modem' = ubmodem_request_level([modem EXCEPT !.force = l], modem.target)

(* The bound MaxTasks: the tasks queued, and the ones that may be queued   *)
(* by what is pending already.                                             *)
Tasks == Len(modem.tasks) + Flag("gprs" \in modem.timers) + Flag(modem.work)
         + Flag("socket" \in {modem.cmd, modem.delayed})

AddTask(k) ==
  /\ polling /\ Tasks < MaxTasks
  /\ modem' = add_task(modem, k)

(* A socket of the modem gets work (__ubsocket_update_state).              *)
SocketWork ==
  /\ polling /\ Sockets /\ modem.sock /\ ~modem.work /\ Tasks < MaxTasks
  /\ modem' = wake_waiting_state([modem EXCEPT !.work = TRUE], FALSE)

Answer(c, r) ==
  /\ polling /\ modem.cmd = c
  /\ \E a \in Reactions :
       modem' = leave(handle(unregister_command(
                        enter(remove_timer(modem, "cmd"), TRUE, a)), c, r))

Fire(t) ==
  /\ polling /\ t \in modem.timers
  /\ \E d \in Delays, a \in Reactions :
       modem' = leave(handle_timer(enter(remove_timer(modem, t), d, a), t))

(* A command the modem always answers does not time out.                   *)
TimerFires(t) == (t = "cmd" => modem.cmd \notin Reliable) /\ Fire(t)

(* A +CREG result code goes to the first handler of that name.             *)
CregUrc(val) ==
  /\ polling /\ modem.cmd # "CREG" /\ SlotsOf(modem, "+CREG") # {} /\ Tasks < MaxTasks
  /\ LET h == modem.urc[First(SlotsOf(modem, "+CREG"))]
     IN \E a \in Reactions :
          modem' = leave(IF h = "monitor"
                         THEN monitor_urc_pCREG_handler(enter(modem, FALSE, a), val)
                         ELSE registration_urc_pCREG_handler(enter(modem, FALSE, a), val))

UupsddUrc ==
  /\ polling /\ SlotsOf(modem, "+UUPSDD") # {} /\ Tasks < MaxTasks
  /\ modem' = urc_pUUPSDD_handler(modem)

Next ==
  \/ StateMachine
  \/ \E l \in Requests : Request(l)
  \/ \E l \in Forced : ForceLevel(l)
  \/ \E k \in UserTasks : AddTask(k)
  \/ SocketWork
  \/ \E c \in Commands : \E r \in AnswersTo(c) : Answer(c, r)
  \/ \E t \in Timers : TimerFires(t)
  \/ \E v \in CregUrcs : CregUrc(v)
  \/ UupsddUrc

Spec == Init /\ [][Next]_modem

-----------------------------------------------------------------------------
(* No assertion of the library fails: one command at a time in slot 0 of   *)
(* the parser, a free slot for every result code handler, no second        *)
(* delayed command, every sub-state machine started at its level with      *)
(* nothing left of the last one.                                           *)
NoAssertionFails == modem.run # "stop"

(* Slot 0 of the parser is free when a command is sent (the assertion of   *)
(* __ubparse_register_response_handler, on its own).                       *)
SlotZeroFree == modem.fail # "slot 0 in use"

(* The main state machine never sleeps on work: a modem that waits with a  *)
(* level to reach, a task queued or a socket to serve has the wake timer   *)
(* running (in_state_machine and wake_timer_active keep every second wake  *)
(* out, so a missed one is never made up for).                             *)
NoLostWork ==
  polling /\ modem.state = "WAITING" /\ waiting_next_state(modem) # "WAITING"
    => "wake" \in modem.timers

ActivityOf(S) == Cardinality(modem.timers \cap S)

(* Every increase of a power-management activity count is taken back on    *)
(* every path: the counts are what is going on right now.                  *)
PmBalanced ==
  modem.run # "stop" =>
    /\ modem.low = Flag(modem.state # "WAITING") + ActivityOf(CregTimers \cup {"gprs"})
                    + Flag(modem.cmd # "none" /\ LowActivity(modem.cmd))
    /\ modem.high = ActivityOf(HighTimers \cup {"wake", "delay"})
                    + Flag(modem.cmd # "none" /\ ~LowActivity(modem.cmd))
                    + Flag(modem.run = "wake")

(* A command in flight always has its timeout, and a timeout its command.  *)
CommandTimesOut ==
  modem.run # "stop" => (modem.cmd # "none" <=> "cmd" \in modem.timers)

(* At most one of the command in flight, the delayed command and the timer *)
(* of a sub-state machine: its steps are never taken twice.                *)
SubTimers == HighTimers \cup {"poweroff", "retry_upsnd", "info_retry"}

Pending == Flag(modem.cmd # "none") + Flag(modem.delayed # "none") + ActivityOf(SubTimers)

OneThingAtATime == modem.run # "stop" => Pending <= 1

(* A sub-state machine, a task or socket work that is under way waits for  *)
(* something that will come.                                               *)
NoStall ==
  polling /\ modem.state # "WAITING" => Pending + ActivityOf(CregTimers) > 0

(* A registered modem is watched: unless the connection is being taken     *)
(* down, a loss of the network reaches the monitor or is queued already.   *)
RegistrationWatched ==
  polling /\ modem.level \in {NETWORK, GPRS} /\ modem.state # "IN_SUBSTATE" =>
    \/ \E i \in Slots : modem.urc[i] = "monitor"
    \/ \E i \in DOMAIN modem.tasks : modem.tasks[i] = "retry_sim"
    \/ modem.inter # LEVEL_MAX

(* A level that needs power is only held with the power on.                *)
PowerAgrees ==
  modem.level \in POWERED_ON .. GPRS => ~modem.off /\ ~modem.vcc_off

-----------------------------------------------------------------------------
(* Fairness: the loop keeps polling, so the state machine runs and every   *)
(* timer expires. Three loops of the code have no limit of their own and   *)
(* end only if the outside lets them: the modem in the end reports unknown *)
(* commands the way CMEE=1 asks for, answers AT+CGATT? with a value, and   *)
(* leaves a pause between two +CREG: 0 that is long enough for the timer   *)
(* that looks at the registration time.                                    *)
FairSpec ==
  /\ Spec
  /\ WF_modem(StateMachine)
  /\ \A t \in Timers : WF_modem(TimerFires(t))
  /\ \A c \in Reliable : WF_modem(Answer(c, Success(c)))
  /\ SF_modem(Answer("INVALIDTEST", "CODE"))
  /\ SF_modem(Answer("check_CGATT", "OK"))
  /\ SF_modem(TimerFires("register_timeout"))

-----------------------------------------------------------------------------
(* The library keeps the promise of ModemLevel.                            *)
doing ==
  LET s == IF modem.state = "IN_SUBSTATE" THEN modem.sub ELSE modem.state IN
  CASE s = "WAITING"               -> "nothing"
    [] s = "DO_POWER_OFF"          -> "off"
    [] s = "DO_RESET"              -> "reset"
    [] s = "DISCONNECT_NETWORK"    -> "disconnect"
    [] s = "CLOSE_GPRS_CONNECTION" -> "close"
    [] s = "FAKE_STUCK_HARDWARE"   -> "stick"
    [] s \in {"DO_TASK_WORK", "DO_SOCKET_WORK"} -> "work"
    [] OTHER                       -> "up"

Promise ==
  INSTANCE ModemLevel WITH
    Asked <- Levels, Answered <- Levels \cup {LEVEL_MAX},
    level <- modem.level, target <- modem.target, inter <- modem.inter, doing <- doing

(* Whatever the modem answers, the level moves one sub-state machine at a  *)
(* time towards the level asked for, work is only started at the target, a *)
(* failure keeps the level or ends in STUCK_HARDWARE, what is started ends *)
(* and what was asked for is not forgotten.                                *)
KeepsPromise == Promise!LevelSpec
=============================================================================
