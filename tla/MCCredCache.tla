----------------------------- MODULE MCCredCache -----------------------------
(* CredCache for TLC.                                                      *)
(*   a1, a2, next: two workers of a group, and one of the next proxy that  *)
(*                 shares their slot but has another link.                 *)
EXTENDS CredCache, TLC

CONSTANTS a1, a2, next, A, old, new

SlotsOfTwo == a1 :> A @@ a2 :> A @@ next :> A
LinksOfTwo == a1 :> old @@ a2 :> old @@ next :> new
ProxiesOfTwo == a1 :> 1 @@ a2 :> 1 @@ next :> 2
==============================================================================
