------------------------------ MODULE TurnLease ------------------------------
(***************************************************************************)
(* What runWithCreds (pkg/proxy/stream_run_with_creds.go) promises: a call *)
(* tries servers, serves one session on one allocation, and ends.  Until   *)
(* all its allocations are released the call is not made anew.  How the    *)
(* servers are tried is the business of TurnRace.                          *)
(***************************************************************************)
CONSTANTS Calls, Servers

VARIABLES
  phase,    \* [Calls -> "idle" | "trying" | "serving" | "over"]
  open,     \* [Calls -> servers that hold an allocation of the call]
  on,       \* [Calls -> {} or the set of the server of the session]
  cancelled \* the context of all calls

leaseVars == <<phase, open, on, cancelled>>

LeaseInit ==
  /\ phase = [c \in Calls |-> "idle"]
  /\ open = [c \in Calls |-> {}]
  /\ on = [c \in Calls |-> {}]
  /\ cancelled = FALSE

Try(c) ==
  /\ phase[c] \in {"idle", "over"}
  /\ open[c] = {}
  /\ phase' = [phase EXCEPT ![c] = "trying"]
  /\ UNCHANGED <<open, on, cancelled>>

(* An allocation may still succeed when the call is over.                  *)
Acquire(c, a) ==
  /\ phase[c] # "idle"
  /\ open' = [open EXCEPT ![c] = @ \cup {a}]
  /\ UNCHANGED <<phase, on, cancelled>>

Serve(c, a) ==
  /\ phase[c] = "trying"
  /\ a \in open[c]
  /\ phase' = [phase EXCEPT ![c] = "serving"]
  /\ on' = [on EXCEPT ![c] = {a}]
  /\ UNCHANGED <<open, cancelled>>

(* The allocation a session runs on is never released under it.            *)
Release(c, a) ==
  /\ a \in open[c] \ on[c]
  /\ open' = [open EXCEPT ![c] = @ \ {a}]
  /\ UNCHANGED <<phase, on, cancelled>>

EndSession(c) ==
  /\ phase[c] = "serving"
  /\ phase' = [phase EXCEPT ![c] = "over"]
  /\ open' = [open EXCEPT ![c] = @ \ on[c]]
  /\ on' = [on EXCEPT ![c] = {}]
  /\ UNCHANGED cancelled

(* A call gives up only with nothing in hand, or because it is cancelled.  *)
GiveUp(c) ==
  /\ phase[c] = "trying"
  /\ open[c] = {} \/ cancelled
  /\ phase' = [phase EXCEPT ![c] = "over"]
  /\ UNCHANGED <<open, on, cancelled>>

CancelAll == cancelled' = TRUE /\ UNCHANGED <<phase, open, on>>

LeaseNext ==
  \/ \E c \in Calls :
       \/ Try(c) \/ EndSession(c) \/ GiveUp(c)
       \/ \E a \in Servers : Acquire(c, a) \/ Serve(c, a) \/ Release(c, a)
  \/ CancelAll

LeaseSpec == LeaseInit /\ [][LeaseNext]_leaseVars
==============================================================================
