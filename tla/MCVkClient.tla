------------------------------ MODULE MCVkClient ------------------------------
(* VkClient for TLC.                                                       *)
EXTENDS VkClient

CONSTANTS f1, f2, t1, t2, t3
===============================================================================
