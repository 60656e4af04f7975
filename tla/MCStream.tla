------------------------------- MODULE MCStream -------------------------------
(* Stream for TLC: every transport; the SSRCs are model values.            *)
EXTENDS Stream

CONSTANTS r1, r2
===============================================================================
