---------------------------- MODULE ModemLevel ----------------------------
(***************************************************************************)
(* What the modem library promises its user (the connection manager): a    *)
(* functionality level that moves step by step towards the level asked     *)
(* for, one piece of work at a time, and an event for each outcome. No AT  *)
(* commands, timers or retries; Ubmodem implements it.                     *)
(***************************************************************************)
EXTENDS Integers

CONSTANTS
  Asked,       \* the levels the user asks for
  Answered     \* what the user asks for when told of an event, LEVEL_MAX: nothing

POWERED_OFF    == 0
STUCK_HARDWARE == 1
POWERED_ON     == 2
CMD_PROMPT     == 3
SIM_ENABLED    == 4
NETWORK        == 5
GPRS           == 6
LEVEL_MAX      == 7
Levels         == POWERED_OFF .. GPRS

ASSUME ModemLevelAssumption ==
  /\ Asked \subseteq Levels
  /\ Answered \subseteq Levels \cup {LEVEL_MAX} /\ Answered # {}

VARIABLES
  level,       \* the level the modem has
  target,      \* the level asked for
  inter,       \* a level to go through first, LEVEL_MAX: none
  doing        \* what the modem is busy with

levelVars == <<level, target, inter, doing>>

(* The ways from one level to another.                                     *)
Moves == {"up", "off", "disconnect", "close", "reset", "stick"}

LevelTypeOK ==
  /\ level \in Levels /\ target \in Levels
  /\ inter \in Levels \cup {LEVEL_MAX}
  /\ doing \in {"nothing", "work"} \cup Moves

LevelInit ==
  /\ level \in {POWERED_OFF, POWERED_ON} /\ target = POWERED_OFF
  /\ inter = LEVEL_MAX /\ doing = "nothing"

Move(l, g) ==
  IF g = STUCK_HARDWARE /\ l # POWERED_ON
  THEN IF l = GPRS THEN "disconnect" ELSE "stick"
  ELSE CASE l = STUCK_HARDWARE                  -> "reset"
         [] l \in {POWERED_OFF, POWERED_ON}     -> "up"
         [] l = GPRS /\ g = NETWORK             -> "close"
         [] l >= CMD_PROMPT /\ l <= g           -> "up"
         [] OTHER                               -> "off"

(* Where a move leads to from level l; it may break off with the modem     *)
(* stuck.                                                                  *)
Destinations(l, move) ==
  CASE move = "up"         -> {IF l = POWERED_OFF THEN POWERED_ON ELSE l + 1}
    [] move = "off"        -> {POWERED_OFF, STUCK_HARDWARE}
    [] move = "disconnect" -> {SIM_ENABLED}
    [] move = "close"      -> {NETWORK, STUCK_HARDWARE}
    [] move = "reset"      -> {POWERED_ON}
    [] move = "stick"      -> {STUCK_HARDWARE}
    [] OTHER               -> {}

Goal == IF inter = LEVEL_MAX \/ inter = level THEN target ELSE inter

(* The user asks for a level. A power-off that is all but done is cut      *)
(* short when the modem is needed again.                                   *)
RequestLevel(l) ==
  /\ target' = l
  /\ \/ UNCHANGED <<level, inter, doing>>
     \/ /\ l # POWERED_OFF /\ doing = "off"
        /\ level' = POWERED_OFF /\ doing' = "nothing"
        /\ inter' = IF inter = POWERED_OFF THEN LEVEL_MAX ELSE inter

Start ==
  /\ doing = "nothing" /\ Goal # level
  /\ doing' = Move(level, Goal) /\ UNCHANGED <<level, target, inter>>

StartWorkAnywhere == \* faulty variant: work does not wait for the level
  /\ doing = "nothing"
  /\ doing' = "work" /\ UNCHANGED <<level, target, inter>>

(* Tasks and sockets are served at the target only.                        *)
StartWork ==
  /\ doing = "nothing" /\ Goal = level
  /\ doing' = "work" /\ UNCHANGED <<level, target, inter>>

(* The user's answer a to an event.                                        *)
Told(t, a) == target' = IF a = LEVEL_MAX THEN t ELSE a

(* A level is reached; the user is told when it is the target.             *)
Reach(l, a) ==
  /\ l \in Destinations(level, doing)
  /\ level' = l /\ doing' = "nothing"
  /\ inter' = IF inter = l THEN LEVEL_MAX ELSE inter
  /\ Told(target, IF l = target THEN a ELSE LEVEL_MAX)

(* A transition, or a task, fails: the level is kept and the user told,    *)
(* but a modem that is to be off is taken for stuck. A registration that   *)
(* fails is also marked to go through SIM_ENABLED again.                   *)
Fail(mark, a) ==
  /\ doing \in {"up", "disconnect", "work"} /\ level # POWERED_OFF
  /\ doing' = "nothing"
  /\ inter' = IF mark THEN SIM_ENABLED ELSE inter
  /\ mark => doing = "up" /\ level = SIM_ENABLED
  /\ IF target = POWERED_OFF
     THEN level' = STUCK_HARDWARE /\ UNCHANGED target
     ELSE level' = level /\ Told(level, a)

(* Work ends. It may have found the connection lost: then a lower level is *)
(* gone through.                                                           *)
EndWork ==
  /\ doing = "work"
  /\ doing' = "nothing"
  /\ inter' \in {inter, POWERED_OFF, SIM_ENABLED}
               \cup (IF level >= GPRS THEN {NETWORK} ELSE {})
  /\ UNCHANGED <<level, target>>

Finish ==
  \/ \E l \in Levels, a \in Answered : Reach(l, a)
  \/ \E mark \in BOOLEAN, a \in Answered : Fail(mark, a)
  \/ EndWork

LevelNext ==
  \/ \E l \in Asked : RequestLevel(l)
  \/ Start \/ StartWork
  \/ Finish

LevelSafety == LevelInit /\ [][LevelNext]_levelVars

(* The modem does not rest before it is where it was asked to be, and      *)
(* whatever it starts it ends.                                             *)
LevelSpec == LevelSafety /\ WF_levelVars(Start) /\ WF_levelVars(Finish)
=============================================================================
