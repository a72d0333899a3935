----------------------------- MODULE MCUsrsock -----------------------------
(* Values for the constants of Usrsock that a configuration file cannot    *)
(* write down.                                                             *)
EXTENDS Usrsock

(* Answers of the daemon: success, errors, and "try again".                *)
MCResults   == {0, ECONNREFUSED}
MCRetry     == {0, EAGAIN, ECONNRESET}

(* Event messages of the daemon.                                           *)
NoEvents    == {}
SendEvents  == {{"SENDTO_READY"}}
SendAbort   == {{"SENDTO_READY"}, {"ABORT"}}
IoEvents    == {{"SENDTO_READY"}, {"RECVFROM_AVAIL"}, {"REMOTE_CLOSED"},
                {"SENDTO_READY", "RECVFROM_AVAIL"}}

Symmetry == Permutations(Threads)
=============================================================================
