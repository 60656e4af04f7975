-------------------------------- MODULE MCProxy --------------------------------
(* Proxy for TLC: a stream and its servers, two fetches and a success      *)
(* token.                                                                  *)
EXTENDS Proxy

CONSTANTS s1, a1, a2, a3, a4, f1, f2, t1
================================================================================
