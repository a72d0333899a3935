# TLA+ model of the Thingsee OS SDK: sockets, modem, connections

This directory specifies and checks the path by which a Thingsee device talks to the network:
the *user-space sockets* of the kernel, the *modem library* that drives a u-blox modem with AT
commands, and the *connection manager* on top of it. It contains

| file | contents |
|---|---|
| `UsrsockConn.tla` | the data of the socket layer and its pure functions: connection structure, request state, event handlers, callback list |
| `Usrsock.tla` | the state machine of the socket layer: application threads, request line, device, daemon; its properties |
| `ModemLevel.tla` | what the modem library promises its user, an abstract specification |
| `Ubmodem.tla` | the modem library: main state machine, sub-state machines, commands, timers, tasks; its properties; that it implements `ModemLevel` |
| `Conman.tla` | the connection manager, composed with the abstract modem of `ModemLevel`; its properties |
| `MCUsrsock.tla`, `MCUbmodem.tla`, `MCConman.tla` | values of constants for TLC |
| `UsrsockConnProofs.tla` | lemmas about the operators of `UsrsockConn` |
| `UsrsockProofs.tla` | proofs about the request line and the device: the inductive invariant of `Usrsock` and its theorems |
| `UsrsockListProofs.tla` | proofs about the connection lists, the callback lists and aborts |
| `UsrsockWaitProofs.tla` | proofs about waiting calls: connect(), poll() |
| `UsrsockExchangeProofs.tla` | proofs about the exchange of requests and responses with the first daemon |
| `UbmodemProofs.tla` | proofs about the modem library: its type, no lost work |
| `UbmodemPhaseProofs.tla` | proofs about what is pending in each sub-state machine, the power and the watch of a connection |
| `ConmanProofs.tla` | proofs about the connection manager and its use of `ModemLevel` |
| `Usrsock*.cfg`, `Modem.cfg`, `Conman.cfg` | TLC runs that pass |
| `Find*.cfg` | TLC runs that exhibit a disagreement between the code and what it says of itself |
| `PROJECT.json` | components, runs, mutants, the map from definitions to source lines, findings, hazards, theorems |

Paths below are relative to the repository (`src/`).

## 1. The system and its parts

Thingsee OS is a fork of NuttX with Haltian's own applications and drivers.

| component | state it keeps | operations | interacts with | hard part | what makes it correct |
|---|---|---|---|---|---|
| usrsock connections (`nuttx/net/usrsock/usrsock_conn.c`, `usrsock_event.c`) | table of connections in a free and an active list; state, flags, exchange id and callback list of each | alloc, free, lookup, raise an event | API calls, device | lists walked without the lock that guards the rest | every entry in one list; events reach the right socket; aborts are final |
| usrsock socket API (`usrsock_socket.c`, `_close`, `_bind`, `_connect`, `_sendto`, `_recvfrom`, `_poll`, `_setsockopt`, `_getsockopt`, `_getsockname`) | a request state on the caller's stack per call | one per socket call; each waits up to four times | device, event handlers | everything may change during a wait; timeouts, signals, retries | a call gets the answer to its own request and is always woken |
| usrsock device (`usrsock_dev.c`) | the request line (`req.iov`, `req.sem`, `req.acksem`, `req.nbusy`), the connection data is written to, poll slots | open, read, lseek, write, poll, close, `usrsockdev_do_request` | threads on one side, the daemon on the other | hand-over of one line among threads; the daemon going away under it | mutual exclusion, no lost acknowledgment, close terminates |
| modem daemon (`apps/system/ubmodem/ubmodem_usrsock*.c`) | modem sockets, pending requests, receive state | one handler per request, modem events | device, modem command queue | modem replies out of step with requests | every request answered once; socket numbers not reused |
| modem state machine (`ubmodem_main.c`, `ubmodem_substate_*.c`) | level, target level, running substate task | level changes, failure handling, power cycling | command layer, conman | failures in the middle of a sequence | target level reached or reported; no two tasks at once |
| modem commands and timers (`ubmodem_command.c`, `ubmodem_cmd_task.c`, `ubmodem_poll.c`) | command in flight, its timer, queue of tasks | send, reply, timeout, poll | serial port, parser | a timeout racing a late reply | one command in flight; a late reply is not taken for the next |
| GPS (`apps/system/ubgps`) | receiver state, target state, timers, callbacks | start, stop, hint, power modes | UBX protocol, main loop | timers against receiver messages | state changes only along the machine; callbacks once |
| connection manager (`apps/system/conman`) | client connections, connection requests, interface status | request, release, status | modem, WLAN, clients over a local socket | clients that vanish | interface up while someone asks for it |
| main loop (`apps/thingsee/lib/ts_core.c`) | timers, file descriptors, deep-sleep hooks | add, remove, run | all Thingsee services | callbacks that remove each other | no use of a removed timer; hooks may veto sleep |
| engine (`apps/ts_engine`) | active profile, states, causes | evaluate, act, switch state | sensors, connectors | events during a state switch | a state switch happens once |
| modem services (`ubmodem_info.c`, `_sms_send`, `_ftp_download`, `_cell_locate`, `_voice_*`) | the request under way | sequences of commands, queued as tasks | main state machine | a failure in the middle | callback called once, state machine given back |
| parser text, board support, other NuttX code, vendored libraries | - | - | - | text and hardware | not modelled, see section 8 |

How they interact, from the application down:

```
 thread --- socket call ---> connection --- request ---> [ request line ] --- read() --> daemon
   ^                             |  ^                        ^   one at a time             |
   |                             |  |                        +--- acknowledgment ----------+
   +---- recvsem <--- handler <--+  +--- event: completion, data, readiness, abort --------+
```

```
 client --- create/destroy/SMS ---> conman --- ubmodem_request_level, get_info, send_sms ---> ubmodem --- AT command ---> modem
    ^                                 | ^                                                     | ^  ^                      |
    +-- ESTABLISHED/LOST/FAILED ------+ +----- level reached / failed, info, SMS callbacks ---+ |  +-- answer, URC --------+
                                                                                        timers -+
```

A socket call sets up a callback on the connection, gives it an exchange id, waits for the
semaphore of the request line, puts its buffers on the line, and waits for an acknowledgment.
The daemon reads the request and writes a response, which may say "in progress"; that alone
acknowledges the request, gives the line to the next thread, and leaves the call waiting for
its completion, the final response or the data that follows it. The daemon also sends socket
events (send-ready, receive-available, remote-closed, abort). When it closes the device, or
dies, `usrsockdev_close` aborts every connection and gets every thread off the line.

Conman and the modem library run in one thread, which polls the clients' sockets, the modem's
serial port and the library's timers. A client that wants a connection is counted; the first one
makes conman ask the modem library for the level GPRS (or NETWORK, for SMS). The library moves one
level at a time, POWERED_OFF, POWERED_ON, CMD_PROMPT, SIM_ENABLED, NETWORK, GPRS, each step a
sub-state machine of AT commands and timers; a failure keeps the level and is reported, or, if
the modem is to be off, takes the modem for stuck. At the target level it serves a queue of tasks
(information, SMS, recovery) and the sockets. Loss of the network or of GPRS is reported by
unsolicited result codes, whose handlers queue a recovery task.

## 2. The models

### 2.1 Usrsock

**Atomicity.** The layer runs under `net_lock()`, a mutex that a thread gives up while it waits
(`net_lockedwait`, `net_timedwait`). An action is the stretch of code between two releases of
that lock. A thread that is given a semaphore still has to get `net_lock` back, so *having been
woken* and *running* are different states: a semaphore is counted in the model, and the step of
the woken thread comes later, after any number of steps of others. What the code does without
`net_lock` is a step of its own: `usrsock_alloc`, `usrsock_free` from `psock_close`, the lookup
of `usrsockdev_handle_event`, the walk of `usrsockdev_close`.

**State.**

| variable | code |
|---|---|
| `conn` | `g_usrsock_connections` (`struct usrsock_conn_s`); `list` is the callback list, newest first |
| `active`, `free` | the two lists of connections |
| `thr` | per thread: place in its call (`pc`), `struct usrsock_reqstate_s`; `wake` = a wait ended by timeout or signal |
| `dev` | `g_usrsockdev`; `iov` = whose buffers are on the line, `rd` = read to their end |
| `dmn` | the daemon: place in a system call on the device, requests read and not answered, sockets open |
| `ret` | what the last step returned to the application |

`owner`, `answered`, `from` and `leaked` are history: no action reads them, except that an
application that does not share sockets (`Shared = FALSE`) uses only those whose `owner` it is.
Two more history variables say what threads did to the walk of `usrsockdev_close`, which is
between two critical sections at every connection: `strayed`, the connection it stood on was
freed, so that it went on in the free list; `raced`, that happened or a request began meanwhile. They
let `AllAborted` and `NoLostWakeup` be stated with threads running during the walk.

**Places of a thread.** `reqwait` waits for the line, `linegot` has been given its semaphore,
`ackwait` has its request on the line, `respwait` waits for completion, `rdywait` for readiness,
`pollwait` is in poll(), `alloced` and `freeing` are socket() and close() outside the lock.
`sem_post` hands the semaphore to a waiter directly (`usrsockdev_semgive`): which one is left
open, as waiters may have different priorities.

**Environment.** Applications call any function on any socket they may use; nobody calls into a
socket that another thread is closing. The daemon is external: it answers requests it has read,
in any order, in one or two steps, with any of the results of the configuration; it hands out
socket numbers it has not in use; it sends any event at any time; it may close the device
whenever it is not in another system call, and open it again. `FaultyDaemon` lets it send data
responses that do not fit.

**Abstractions.** Addresses, payloads and option values are left out; a request is read in one
step, which stands for the daemon's read() and lseek() calls up to the end of the request, and
data is written in one step. Heap allocation in poll() does not fail. Arguments that do not fit a
request are a nondeterministic EINVAL. The O_NONBLOCK flag is an input of each call.

**Assumptions made in some runs**, each a constant:

* `WalkUninterrupted`: no application thread runs while `usrsockdev_close` walks the connection
  list. The code does not ensure it, and `UsrsockAbort`, `UsrsockRestart`, `UsrsockAny` and the
  proofs do without it. It remains in `UsrsockLive`, since a call that begins during the walk may wait for good, and
  in `FindLineFree`, which does not need such a step.
* `TimelyWakeup`: a thread that has been given what it waits for runs within the 10 ms that
  `usrsockdev_close` waits ("Give other threads short time window to complete"). `UsrsockAbort`, `UsrsockAny` and
  the proofs do without it.
* `FreshIds`: the daemon does not use a socket number again, which is what the modem daemon does
  (a running counter); the daemons of the test suite reuse numbers. Section 4 says what happens
  then.

**Bounds.** Two threads and two connections (one where a run is about sharing one socket): every
race found is between two threads, or a thread and the daemon, and with two of each there are
queues, an order in the list and a connection behind the one being freed. Two sessions of the
daemon, so that leftovers of one meet the next. One to two callbacks, so that the pool runs
empty in `UsrsockAny`. `MaxRefs` bounds dup(), `MaxAck` the posts of `usrsockdev_close` (two,
one more than a correct line ever holds), `MaxSessions` the sessions; no other counter can grow.

### 2.2 Ubmodem

**Atomicity.** One thread, no preemption: an action is one callback of the poll loop (an answer,
a result code, a timer, a call of the API). `modem_do_state_machine` is a loop; each of its
iterations is an action, `run` is not "poll" until it ends, and nothing else runs meanwhile.
Operators have the names of the C functions and take and return the modem, so a handler that
calls five functions is a composition of five operators.

**State.** `modem` is `struct ubmodem_s`: `state`, `level`, `target`, `inter`
(`intermediate_level`), `force`, the parser's slot 0 (`cmd`) and other slots (`urc`), the delayed
command, the pending timers (a set: every timer has one callback, and setting one twice is a
failure of the model), `creg` and `uupsdd` (a result code handler is registered), the task queue,
the union of the sub-states (`n` retries, `pos` position in a sequence, `flag`, `net`, `got`,
`keep`), whether the sub-state has a clean-up function, the power (`off`, `vcc_off`), the sockets
(`sock` in use, `work` to do), the two power-management counts, and `fail`, the assertion that
stopped the program. `soon`, `ask` are inputs of a step; `sub` is history.

**Actions.** `StateMachine` (an iteration), `Request`, `ForceLevel`, `AddTask`, `SocketWork` (the
API), `Answer` (the modem answers the command in flight), `TimerFires`, `CregUrc`, `UupsddUrc`.
A level event calls the user's listener inside the library, which may ask for another level
there (`Reactions`).

**Environment.** The modem answers with success, an error, the error code a handler looks for, a
value it does not expect, or nothing until the timeout (but see `Reliable` below); +CREG and +UUPSDD come at any time a
handler for them is registered, +CREG not while AT+CREG is being answered.

**Abstractions.** Texts and parameters are reduced to the cases the handlers tell apart. Limits of
retry loops are the constant `MaxTry`, the configuration commands of a modem model one row of
`NumConfig`. Memory allocation, timers and serial writes do not fail. The information queries
need `SIM_ENABLED`, as most of them do. A socket's work is one command; the daemon's handlers are
not modelled. Listeners of other events do not ask for levels.

**Assumptions made in the run `Modem`**, each a constant:

* `RequestAny = FALSE`, `RequestAwake = FALSE`: from outside its callbacks a level is asked for
  while the library waits or is in the last seconds of a power-off, and not in the moment between
  a wake-up being asked for and taking place. Conman does not keep to it; `FindSlotZero` and
  `FindStall` show what then happens. `TypeOK` and `NoLostWork` are proved without either, and so are the
  properties of the sub-state machines, save for one kind of request while the wake timer runs (section 6).
* `Reliable = {"ipconfig"}`: the query of the IP configuration is answered. If it fails, the
  library leaves its +UUPSDD handler registered, and after some attempts the parser's table
  is full, which is an assertion (hazard).

**Bounds.** `MaxTasks` 1 (the queue is written by URCs and failures as well, and recovery tasks
pile up without bound while the level is not reached, so a bound is needed), `MaxTry` 2 (a retry
that works and one that does not), one configuration command, one APN, two URC slots (as many as
a correct library uses), levels OFF, SIM_ENABLED and GPRS asked for (down, up, and past a level
that is left both ways).

### 2.3 ModemLevel

Four variables: the level, the target, a level to go through first, and what the library is
doing (nothing, work, or one of six moves). The user asks for a level, the library starts a move
towards the goal or work at the goal, and finishes: it reaches a level the move leads to, or
fails, or ends the work. Weak fairness says that it starts what it has to and ends what it
started. `Ubmodem` implements it (`KeepsPromise`, with `doing` read off the state) and `Conman`
uses it, so the two components are checked against one interface.

### 2.4 Conman

`conman` is `conman->ub` with the list of connections; `level`, `target`, `inter`, `doing` are
the modem's. `job` is the task the modem works on, of those conman gave it, `kick` a call of
`ubmodem_request_level` that still has to run the state machine. Clients act with `Create`,
`Destroy`, `DestroyAll` (a loop over the list, `DestroyNext`) and `SendSms`; the modem acts with
`ModemStart`, `ModemWork`, `InfoCallback`, `SmsCallback`, `WorkEnds`, `LevelReached`,
`LevelFailed`, and conman's listeners run inside these, as in the code.

Abstractions: no WLAN is configured, so a data connection is a cellular one; connection ids are
not used up; memory allocation does not fail, so neither does `__conman_ctl_create_connection` for
an SMS; a level asked for in an
information callback takes effect before the task's end, in a step of its own. `ubmodem_send_sms` refuses messages at
once: all of them below NETWORK (a recovery takes the modem there with the status still ESTABLISHED), and
at NETWORK or above those it cannot split into parts (`Refused`: so many at the head of the queue). A refused message
makes `process_sms_queue` call itself through `send_sms_cb`, so the whole row of refusals is in one step. `NumInfos` is 2
(4 in the code): what counts is the last of several. `Patient` restricts clients to what the
repository's own tests do (they wait for the final status); it is needed for `AttemptEnds` only,
and the theorems do without it.

## 3. Properties

**Usrsock.** *Request line:* `LineCount` (mutual exclusion and the meaning of `nbusy`), `LineOwner` (buffers
on the line belong to a thread that still waits), `LineFreeAssert` (the DEBUGASSERT of
`usrsockdev_do_request`), `DaemonWoken` (poll() of the daemon against new requests).

*Connections:* `ConnLists`, `CallbackLists` (every entry and every callback in its one place),
`OneRequestPerConn`, `ResponseMatch` (a call is completed by its own response), `WriteInStep`
(device and daemon agree on what the next write is), `SocketsAgree`, `EventReachesSocket`,
`ConnectReturns`, and the action property `AbortIsFinal`.

*Waiting calls:* `PollConsistent`, `NoLostWakeup` (whoever waits can still be woken), `AllAborted` (the
walk of `usrsockdev_close` leaves no usable connection behind).

*Liveness:* `RequestsComplete`, `CloseTerminates`.

**Ubmodem.** `NoAssertionFails` (the assertions of the library, as one), `NoLostWork` (the main
state machine never sleeps on work), `PmBalanced` (power-management counts equal what is going
on), `CommandTimesOut`, `OneThingAtATime` (a sub-state machine is never driven twice), `NoStall`
(what is under way waits for something that will come), `RegistrationWatched` (a
network that is lost is noticed), `PowerAgrees`, and `KeepsPromise`, the refinement with its
liveness.

**Conman.** `RefcntCounts`, `OffWhenUnused`, `TargetsAgree` (between the two components),
`SmsInStep` (a queued message has one before it whose end sends it, whatever is refused), `UnusedGoesOff` and
`AttemptEnds` (liveness).

## 4. Runs

| run | instance | states | shows |
|---|---|---|---|
| `UsrsockCalls` | 2 threads, 2 sockets, all one-request calls, two-step answers, daemon in poll() | 278 k | line, matching of answers, agreement on sockets, no lost wake-up |
| `UsrsockIo` | 1 thread, 1 socket, connect/sendto/recvfrom/poll, both modes, timeouts, signals, all events | 39 k | poll() and connect() report what is so |
| `UsrsockAbort` | 2 threads, 2 sockets, socket/close/sendto, abort events, the daemon closes at any moment, threads run during its walk and late | 2.7 M | no connection missed unless the walk strays, aborts are final, nobody left waiting |
| `UsrsockRestart` | 1 thread, 2 sockets, two sessions, the thread runs during the walk | 831 k | events reach their socket |
| `UsrsockAny` | shared and duplicated sockets, pool of one, faulty daemon, no assumption of section 2.1 | 122 k | types, owner of the line, lists |
| `UsrsockLive` | 2 threads, the daemon polls, and closes | 25 k | requests complete, close terminates |
| `Modem` | the whole library, levels asked for at rest, a modem that answers the IP configuration query and may fail every other command | 82 k | the properties of `Ubmodem` above |
| `Conman` | 2 connection ids, 2 SMS messages, any failure of the modem, refused messages | 113 k | the properties of `Conman` above |

`UsrsockAny`, `UsrsockAbort` and `UsrsockRestart` switch deadlock checking off: with a shared socket, or a data
response that does not fit, and when its request begins after the walk of `usrsockdev_close` and
before the device counts as closed, a call can really stop for good (hazards in `PROJECT.json`). Thread
symmetry is used in safety runs only.

Runs that exhibit a disagreement (details under `findings` in `PROJECT.json`):

| run | what happens |
|---|---|
| `FindLineFree` | `usrsockdev_close` leaves an acknowledgment behind; in the next session `DEBUGASSERT(dev->req.iov == NULL)` fails |
| `FindSlotZero` | a level asked for while the wake timer runs starts two commands at once, against `assert(!unsolicited && i == 0)` of the parser |
| `FindStall` | a failure on the way to GPRS, with the modem to be turned off, leaves the +CREG monitor behind; it swallows the result code of the next registration, and the modem stops for good |
| `FindMisled` | clients are told that the connection is established after conman gave it up |

Further cases outside the restrictions of the passing runs, each a hazard with its line:

* usrsock: a non-blocking connect() in progress and a close() share one exchange id
  (`OneRequestPerConn` with "connect" and "close" in `Ops`), against "Each connection can one only
  one request/response pending"; readiness that woke one reader is used up by another, against the
  DEBUGASSERT of `usrsock_recvfrom.c:426` (a socket shared by two readers); a close() during the walk of
  `usrsockdev_close` leads the walk into the free list (`strayed`); a request that begins during the walk may
  never be answered (`raced`); after EAGAIN, sendto() waits for
  readiness on an aborted socket (`NoLostWakeup` with result "EAGAIN" and abort events);
  a restarted daemon's first message is taken for data of the previous session (`WriteInStep` over
  two sessions with data responses); a reader that has just timed out still claims a readiness
  event, and a poll() behind it sleeps on (`PollConsistent` with `Shared`); without `FreshIds` an
  event for a new socket goes to an aborted one with its number (`EventReachesSocket`).
* modem: a +UUPSDD between the activation of the PDP context (`ubmodem_substate_gprs.c:578`) and the level
  GPRS takes the handler away, its timer is ignored below GPRS, and GPRS is reached with nobody watching the
  context; a home network reported while AT+COPS=0 is in flight is put aside, and
  `retry_ATpCOPS_handler` does not look at it, although a comment says so; the level to go
  through stays set after a registration that timed out; a modem told to be stuck from GPRS whose
  disconnection fails is not watched any more.
* conman: an impatient client that closes a connection and asks for one again, while the modem is
  still at its level, waits in ESTABLISHING for an event that does not come (the branch has the
  comment "Cellular should be powered-off."); a failed upgrade from NETWORK to GPRS is reported as
  a failed request and the connection in use is lost without an event; `CONMAN_CONNID_ALL` and
  failures can leave the SMS queue without a connection. That `TargetsAgree` is an invariant also
  says that two branches of `event_target_level` ("not at target level, retry...") are never taken.

## 5. Fairness

Liveness is checked under `FairSpec`.

**Usrsock.** A thread that can go on is run by the scheduler
(weak fairness of `ApiContinue`); the semaphore of the line serves its waiters in turn (strong
fairness of being given it: NuttX queues equal-priority waiters first come, first served). The
daemon reads what is on the line, answers what it has read and writes what it announced (strong
fairness, since it alternates these with poll()); it leaves poll() when it is notified, and the
steps of `usrsockdev_close` are taken to the end. Nothing makes anyone call the API, send an event, poll or close.

**Ubmodem.** The loop keeps polling, so the state machine runs on and timers expire (weak
fairness); a timer that is set and never removed fires. Nothing is assumed of the modem's answers,
since a command without one times out, except for three loops of the code without a limit of their own:
unknown commands are in the end refused with the error code CMEE=1 asks for, AT+CGATT? is in the
end answered with a value, and +CREG: 0 does not come so often that the timer that watches the
registration time never fires (strong fairness of these three answers and timers). No API call is fair.

**Conman.** The fairness of `ModemLevel`, which `Modem` shows the library to have, and two strong
conditions: the task queue is served in turn (it is first in, first out), and a step between two
levels that is tried again and again works in the end. Without the second, a SIM that never
comes up keeps a modem from being turned off through the level it has to go through first (a
hazard). Clients are not fair.

## 6. Proofs

**Usrsock.** `UsrsockProofs` proves, for every number of threads and connections, every pool size, every set
of calls, results and events, with and without the assumptions of section 2.1:

* `TypeCorrect`: `Spec => []TypeOK`. The part that is not routine is `nbusy \in Nat`: the counter
  is decremented in a later critical section than it was incremented.
* `LineCorrect`: `Spec => []LineCount`.
* `OwnerCorrect`: `Spec => []LineOwner`.
* `DaemonWokenCorrect`: `Spec => []DaemonWoken`.
* `LineFreeCorrect`: `Spec => []((dmn.sessions <= 1 \/ ~dev.leaked) => LineFreeAssert)`.
* `WriteCorrect`: `Spec => [](dmn.sessions <= 1 => WriteInStep)`.

The assumptions are `ConnAssumption` (at most 255 connections, socket numbers are naturals, a
finite set of threads) and `UsrsockAssumption` (the ranges of the switches).

The argument. `LineCount` is not inductive: it speaks of cardinalities, and typing needs
it while it needs typing. `Inv` is the conjunction of `TypeOK`, `PlaceInv` (who works on a
connection has one; a device not yet closed is open) and `LineInv`, which replaces the cardinality
of the holders by "any two holders are equal", says who has the semaphore when it is 0, and
keeps `nbusy = Cardinality(OnLine)`. Steps are grouped: every step of a thread outside the line
has an `ApiEffect` (one thread moves, and if it moves onto the line it is counted), every step
of the daemon outside the end of `usrsockdev_close` has a `DaemonEffect` (nobody moves, the
semaphore stays), and each kind preserves `Inv` by one lemma; `TakeLine`, `LeaveLine`, `CloseDown`,
`CloseEnd` and `CloseLoop`, which take, hand over or give back the semaphore, are proved one by
one. `OwnerCorrect` and `DaemonWokenCorrect` are inductive relative to `Inv`.

The assertion that the line is free (`LineFreeAssert`) does fail: that is what the run
`FindLineFree` shows. `LineFreeCorrect` proves that there is no other way: it holds
until `usrsockdev_close` has left an acknowledgment behind (`dev.leaked`) *and* a daemon has
opened the device again. `LeakInv` relates the acknowledgment left behind to the number of sessions. `WriteCorrect` (`WriteInv`) proves that in the first
session device and daemon agree on which write is the data of a response; a second session begins with
whatever `datain_conn` the first one left.

`UsrsockListProofs` proves what happens to the connections, again for all constants:

* `ConnListsCorrect`: `Spec => []ConnLists`; `CallbackListsCorrect`: `Spec => []CallbackLists`;
* `AbortFinalCorrect`: `Spec => AbortIsFinal`;
* `AllAbortedCorrect`: `Spec => []AllAborted`, with threads running during the walk of `usrsockdev_close`. The walk reads the
  successor of a connection in one critical section and uses it in a later one, and `AllAborted` says that it misses a
  connection only if the one it stood on was freed in between: connections that are added, or freed elsewhere in the list, do no harm.

The sequences make these hard for the prover, so the invariants are stated on membership and
distinctness: `OwnInv` (who owns a connection: one that is being created or closed has one call on it),
`ListInv` (the two lists partition the connections without repetition; used ones are active), `CallbackInv`
(a thread is in the callback list of a connection, once, exactly where its program counter says it
waits), `WalkInv` (while the walk has not strayed, everything that is not at or after its place in the active list is unusable). A step of a thread is a `CallStep`: one thread and one
connection change and everything else is `Undisturbed`; each action is shown to be one, and each invariant to be kept by any.

`UsrsockWaitProofs` proves what waiting calls rely on:

* `ConnectCorrect`: `EINPROGRESS \notin Results => (Spec => []ConnectReturns)`. The daemon reports
  a connect in progress by a flag of the response header, not by a result; a result of that value would be passed on to
  the application with no response to come.
* `PollCorrect`: `~Shared => (Spec => []PollConsistent)`. With a shared socket a reader that has just timed out may
  claim the event a poller waits for.

All steps are classified by form first (`ThreadForms`, `DaemonForms`): what a thread may do to its record and its
connection (ask, wait for readiness, poll, return, be signalled), and what the device and the daemon may do
to the connections. `WaitInv` says what the record of a waiting thread looks like, `ConnectInv` that
a connect in progress has an exchange id and that a connect() still to be answered has its connection in the state CONNECTING, `ServedInv` that a
thread waiting for readiness or in poll() was woken if the flags of its socket say so. `SoleAlone`
derives from `~Shared` that a socket has one call at a time, by which the event handlers wake the only thread there is.

`UsrsockExchangeProofs` proves what the exchange with the daemon relies on, under the hypothesis `Orderly`:
sockets are not shared, the daemon aborts no single socket, and connects are waited for (no signal
ends one, and one that the daemon reports in progress was not non-blocking).

* `OneRequestCorrect`: `Orderly => (Spec => [](dmn.sessions <= 1 => OneRequestPerConn))`; likewise
  `ResponseCorrect` for `ResponseMatch` and `SocketsCorrect` for `SocketsAgree`;
* `EventCorrect`: the same for `EventReachesSocket` with `FreshIds`;
* `WakeupCorrect`: `Orderly /\ ~FaultyDaemon => (Spec => [](dmn.sessions <= 1 /\ Serving => ~raced /\ NoLostWakeup))`.

The hypotheses are needed. The exchange id is the number of the connection, so a thread that leaves a
request unanswered and begins another on the same connection (a connect() in progress and a close(),
two threads on one socket, a socket aborted and used again) cannot be told which response is
whose; section 4 lists these cases. A second session may begin with `datain_conn` and an
acknowledgment left by the first one. `UsrsockCalls` is an instance with all of them.

The inductive invariant is `ExchangeInv`, relative to `Base`, the invariants of the other proof
modules and two small ones (`AskInv`, `UnservedInv`). It follows a request from its thread to
its answer: `Unread` and `WasRead` say where it is, `AskOk` and `PendOk` that its connection will
take the response (exchange id, buffers, an armed callback), and `CallOk` that the daemon holds at most one
request of a thread, that one that is marked as read on the line is among them, and that a call still waiting has an
acknowledgment, an answer or its data to come; `DataOk` says whose data are under way, and `InProgressOk` that "in
progress" is said of a request the daemon holds. A call goes on only when it has no request under way
(`CallSeen`), and every other step leaves each exchange but one alone (`Quiet`), which keeps its
part of the invariant (`QuietCall`). `SockInv` adds the sockets: a connection is the kernel's end of a socket (`Held`) until
the close of it is *answered*, which is before its thread knows; a close under way names the socket of its connection; data only come for
requests for data, so that only the answer to a socket() can make a socket. `FreshInv` says that every
number on a connection was given out, to no other connection, also after its close.

`UsrsockConnProofs` holds what those proofs need of the operators: the event handlers keep types
and never move a thread, callbacks are given back to a list of the right type, the lookups
return a connection or none.

**Ubmodem.** `UbmodemProofs` proves, for every limit, every number of slots, APNs and
configuration commands, every set of requests and reactions, with levels asked for at any time
and assertions compiled in or not:

* `TypeCorrect`: `Spec => []TypeOK`;
* `NoLostWorkCorrect`: `Spec => []NoLostWork`.

The assumption is `UbmodemAssumption` (the ranges of the constants). The invariant is
`Sound(modem)`: the type, and `Awake`, that a modem that polls and waits with something to do has
its wake timer. Handlers are deep compositions, so the proof has two notions and one lemma per
operator: an operator is *quiet* when it gives the state machine nothing to do (`Quiet` is
transitive and keeps `Sound`), and the few that are not quiet, `change_state`, `reached_level`,
`level_transition_failed`, `ubmodem_request_level`, `retry_current_level`, `add_task`, are shown
to keep `Sound` because they end in a wake-up or in the state machine. Handlers then
follow from the operators they are made of, without looking into them.

`UbmodemPhaseProofs` proves the other invariants of the run `Modem` but `NoAssertionFails`, for every limit, number of
slots, APNs and configuration commands, task bound, every set of answers the modem gives (also to the IP
configuration query) and way it starts, with levels asked for at any time:

| theorem | states |
|---|---|
| `PowerAgreesCorrect` | `Careful => (Spec /\ []~Overtakes => []PowerAgrees)` |
| `CommandTimesOutCorrect` | the same of `CommandTimesOut` |
| `PmBalancedCorrect` | the same of `PmBalanced` |
| `OneThingAtATimeCorrect` | the same of `OneThingAtATime` |
| `NoStallCorrect` | the same of `NoStall` |
| `RegistrationWatchedCorrect` | the same of `RegistrationWatched` |
| `NeverOvertakes` | `Careful /\ ~RequestAwake => (Spec => []~Overtakes)` |

`Careful` is an assumption on constants and describes the application and the build: assertions are compiled in (without them a request
in the middle of a sequence goes on after the assertion it would fail, and `NoStall` is lost:
`FindStall`); the listener of failures asks for POWERED_OFF or for nothing, as conman's does
(`conman_ubmodem.c:290`); only POWERED_OFF is forced, and STUCK_HARDWARE is no level to ask for
(nobody in the repository does either). `Overtakes` is one kind of state, not a restriction on when levels are asked
for: a request that found the modem waiting with the wake timer running is about to start the very task or socket
work the timer was set for. It is where `FindSlotZero` goes wrong, and the theorems say that nothing else does: a
request while the wake timer runs is harmless when there is a level to go to first, or no work, and a
request in the middle of a sequence always is, until an assertion stops the program. `NeverOvertakes` gives the simple condition
that rules it out. `NoAssertionFails` itself does fail for requests in the middle of a sequence and for a failing IP configuration query, so
it is left to the run.

None of these properties is inductive: that a command in flight has its timeout says nothing
about what the answer finds. The invariant is `Good(modem)`. Its core is that a modem is `Idle`,
`Starting` a sub-state machine or a piece of work, or `Busy` with *one* step: a command in flight
(`Sent`), a delayed one (`Later`) or a timer (`Timed`), each with exactly its timers and its
activity (`Alone`, `Balance`), and a step that `Belongs` to the sub-state machine that runs.
`LevelFits` gives the level each of those starts from, `Detail` what the
pending step says of the sub-state (position, network state, registered handlers), `Powered` the power of
a level, `Loose` what holds even while a level event is delivered, `Attended` who watches a registered
modem, `OneCreg` that there is at most one +CREG handler and the flag knows of it. That the wake timer
is not set for work that is under way is part of `Idle`, `Starting` and `Active`; the step that needs `~Overtakes` is
`RequestGood`.
The proof has the shape of the code: a lemma for each
operator, one for each handler of an answer and of a timer (from `Busy` with its step to `Good`), and one for each
transition of the main state machine, put together in `GoodStep`. Changes that `Good` does not
see are `Minor`, or kept apart by what they leave alone (`Kept`, `Still`, `Asks`).

**Conman.** `ConmanProofs` proves, for every finite set of connection ids, every `NumInfos` and
`MaxSms`, with clients patient or not: `TypeCorrect`, `RefcntCorrect`, `OffWhenUnusedCorrect`,
`TargetsCorrect`, `SmsCorrect`, and `UsesModemLevel`, that conman's behaviour is one of
`ModemLevel` as far as the modem is concerned (`Spec => LevelSafety`). `SmsCorrect` covers the messages the modem library refuses at once. The assumptions are
`ModemLevelAssumption` and `ConmanAssumption`. `RefcntCounts` and `TargetsAgree` are not inductive
alone; `Inv` adds that an SMS connection that is asked for is in the list (or the release would
count another one), that `sms_sending_active` is only set with a message under way (a queued
message would wait for nobody), and that a task of conman the modem works on is one conman has
given it.

**Only model-checked.** Liveness, and with it the liveness part of `KeepsPromise` (fairness and
ENABLED are outside the prover). Of `Usrsock`: `NoLostWakeup` while `usrsockdev_close` runs and with abort
messages (`UsrsockAbort`), and `EventReachesSocket` in a second session (`UsrsockRestart`). Of `Ubmodem`
`NoAssertionFails` and `KeepsPromise`. Every invariant of the run `Conman` is stated by a theorem.

## 7. Plan

Done: the socket layer (with its line, its lists, its waiting calls and its exchange with the daemon proved), the modem library
(its sub-state machines proved) and its promise, the connection
manager on top of the promise. Next, in this order:

1. Proofs: the safety part of `KeepsPromise`, from `Good` (every step of `Ubmodem` is one of
   `ModemLevel` or leaves its variables alone).
2. The request line of `Usrsock` as an abstract mutual exclusion object with hand-over.
3. The modem daemon (`ubmodem_usrsock*.c`) as a module between `Usrsock` and `Ubmodem`: every
   request answered once, no number reused while the kernel knows it.
4. The copy algorithm of `usrsock_dev.c` (`iovec_do`) as an operator; reads in pieces and
   `usrsockdev_seek`.
5. GPS state machine (`ubgps_state.c`), main loop (`ts_core.c`), engine.

## 8. Not modelled

The text of AT responses and SMS/PDU coding, FTP, cell locate and voice services (sequences of
commands of the kind modelled for information queries), WLAN and the server sockets of conman,
GPS, main loop and engine (separate state machines, see the plan), board support (registers and
power sequencing), vendored and upstream code (NuttX outside the lines named in `PROJECT.json`,
mbedtls, libcoap, JSON, graphics), which is most of the repository. NuttX's semaphores, `net_lock`
and the callback pool are modelled as far as usrsock uses them.

## 9. Running

```
tlc -workers 2 -config UsrsockCalls.cfg MCUsrsock
tlc -workers 2 -config Modem.cfg MCUbmodem
tlc -workers 2 -config Conman.cfg MCConman
tlapm UbmodemPhaseProofs.tla        # about ten minutes
```
