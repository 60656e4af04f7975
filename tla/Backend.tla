-------------------------------- MODULE Backend --------------------------------
(***************************************************************************)
(* What the two implementations of core.Backend share (core/platform.go):  *)
(* Manager calls Prepare, Bypass, Up and Down of a session in order, while *)
(* the poller and the NETCHANGE hook may call NetworkChanged at any time.  *)
(***************************************************************************)
CONSTANT Checkers  \* callers of CheckNetworkChange: netPoller and NETCHANGE
================================================================================
