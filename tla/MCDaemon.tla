------------------------------- MODULE MCDaemon -------------------------------
(* Daemon as it is; the handlers are model values of the configurations.   *)
EXTENDS Daemon
==============================================================================
