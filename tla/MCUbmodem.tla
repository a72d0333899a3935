----------------------------- MODULE MCUbmodem -----------------------------
(* Values for the constants of Ubmodem, one set of them per question.      *)
EXTENDS Ubmodem

(* The application turns the modem off, uses its SIM card only, goes       *)
(* online.                                                                 *)
Asks      == {POWERED_OFF, SIM_ENABLED, GPRS}
ForcesOff == {POWERED_OFF, LEVEL_MAX}

(* A listener that only listens, and one that may also turn the modem off. *)
Listens  == {NOTHING}
TurnsOff == {NOTHING, POWERED_OFF}
=============================================================================
