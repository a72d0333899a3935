------------------------------ MODULE MCConman ------------------------------
(* Values for the constants of Conman: the levels its connections need and *)
(* what it asks the modem for when told of an event.                       *)
EXTENDS Conman

Asks    == {POWERED_OFF, NETWORK, GPRS}
Replies == Asks \cup {LEVEL_MAX}
=============================================================================
