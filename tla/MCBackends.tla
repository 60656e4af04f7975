------------------------------ MODULE MCBackends ------------------------------
(* Backends for TLC.                                                       *)
EXTENDS Backends, TLC

CONSTANTS c1, c2, t1, l1, l2, g1, g2, poll, hook, a1, lte, isp, wg0, wg1
===============================================================================
