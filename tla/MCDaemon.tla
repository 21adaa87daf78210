------------------------------ MODULE MCDaemon ------------------------------
(***************************************************************************)
(* Instance of Daemon for TLC: one call of StopDaemon, three starts and two*)
(* certificates.                                                           *)
(***************************************************************************)
EXTENDS Daemon

CONSTANTS r1

OneRequester == {r1}
=============================================================================
