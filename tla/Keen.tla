--------------------------------- MODULE Keen ---------------------------------
(***************************************************************************)
(* The Keenetic backend (keen/routes.go, backend.go, wg.go, rci.go) over   *)
(* the router's own configuration service NDM: sessions that choose and    *)
(* provision a WireGuard connection and keep /32 routes past the tunnel,   *)
(* the poller and the hook that move those routes to a new WAN, a user who *)
(* adds connections of his own, failing RCI calls and a daemon that dies.  *)
(*                                                                         *)
(* A section under RouteManager.mu is one step.  A call that returns an    *)
(* error may have been carried out all the same, the answer being lost     *)
(* (10 s).  NDM is external: its state is what the RCI calls read and      *)
(* write.  How it ranks the tunnel among the uplinks is left open.         *)
(***************************************************************************)
EXTENDS Backend, Naturals, FiniteSets

CONSTANTS
  Ips,         \* addresses the proxy talks to
  Wans,        \* physical uplinks
  Wgs,         \* names of WireGuard connections, WireguardN
  desired,     \* Settings.WgIface
  MaxStuck,    \* bound: routes in stuck
  None

ASSUME KeenAssumption ==
  desired \in Wgs /\ MaxStuck \in Nat /\ None \notin Wans \cup Wgs

VARIABLES
  gateway,     \* NDM: the interface with defaultgw
  wg,          \* NDM: each connection's owner and whether it is up
  routes,      \* NDM: host routes, <<address, interface>>
  stage,       \* Connect and Disconnect of the session
  wan,         \* RouteManager.wanID, None without a manager
  bypass,      \* RouteManager.routes
  chosen,      \* the connection ChooseWgIface returned, Backend.wgIface
  up,          \* Backend.up
  remembered,  \* State.WgIface
  saw,         \* the WAN a checker has read, None if it reads none
  stuck        \* ghost: routes that stand although the call for them failed or
               \* the daemon that knew of them died

ndm == <<gateway, wg, routes>>
backend == <<stage, wan, bypass, chosen, up, remembered>>
keenVars == <<ndm, backend, saw, stuck>>

Ifaces == Wans \cup Wgs
\* "stray" has been put up by our batch and is without our description.
Owners == {"nobody", "user", "daemon", "stray"}
Free == [owner |-> "nobody", up |-> FALSE]

KeenTypeOK ==
  /\ gateway \in Ifaces \cup {None}
  /\ wg \in [Wgs -> [owner : Owners, up : BOOLEAN]]
  /\ routes \subseteq Ips \X Ifaces /\ stuck \subseteq Ips \X Ifaces
  /\ stage \in {"idle", "prepared", "choose", "provision", "up", "undo"}
  /\ wan \in Ifaces \cup {None} /\ bypass \subseteq Ips
  /\ chosen \in Wgs \cup {None} /\ remembered \in Wgs \cup {None}
  /\ up \in BOOLEAN
  /\ saw \in [Checkers -> Ifaces \cup {None}]
  /\ bypass # {} => wan # None
  /\ up => chosen # None

KeenInit ==
  /\ gateway = None
  /\ wg \in [Wgs -> {Free, [owner |-> "user", up |-> TRUE]}]
  /\ routes = {} /\ stage = "idle" /\ wan = None /\ bypass = {}
  /\ chosen = None /\ up = FALSE /\ remembered = None
  /\ saw = [k \in Checkers |-> None] /\ stuck = {}

-----------------------------------------------------------------------------
(* What `show interface` tells.                                            *)

Ours(n) == wg[n].owner = "daemon"
\* Those that may lead out: the uplinks, and what our batch has made global and
\* put up.
Global == Wans \cup {n \in Wgs : wg[n].owner \in {"daemon", "stray"} /\ wg[n].up}

\* WANInterface: the one with defaultgw, while NDM has any, else the first by
\* priority of those that are global and up, whichever that is.
WANInterface == IF gateway # None THEN {gateway} ELSE Global

\* Mutant: the name of the settings goes before the remembered one.
ChooseForgetful ==
  IF wg[desired].owner \in {"nobody", "daemon"} THEN {desired}
  ELSE IF \E n \in Wgs : Ours(n) THEN {n \in Wgs : Ours(n)}
  ELSE {n \in Wgs : wg[n].owner = "nobody"}
\* ChooseWgIface: the remembered one if ours, the desired one if free or ours,
\* one of ours (in map order), the first free one (any, names have no order).
ChooseWgIface ==
  IF remembered # None /\ Ours(remembered) THEN {remembered}
  ELSE IF wg[desired].owner \in {"nobody", "daemon"} THEN {desired}
  ELSE IF \E n \in Wgs : Ours(n) THEN {n \in Wgs : Ours(n)}
  ELSE {n \in Wgs : wg[n].owner = "nobody"}

-----------------------------------------------------------------------------
(* RouteManager, under its mutex.                                          *)

Via(S, i) == S \X {i}

\* The calls for failed return an error; those in anyway are carried out.
AddBypassRoutes(S, i, failed, anyway) ==
  LET new == (S \ bypass) \ failed IN
  /\ bypass' = bypass \cup new
  /\ routes' = routes \cup Via(new \cup anyway, i)
  /\ stuck' = (stuck \ Via(new, i)) \cup Via(anyway, i)
  /\ Cardinality(stuck') <= MaxStuck

\* removeAllLocked forgets a route whether or not it could be removed; the calls
\* for kept have failed.
Cleanup(kept) ==
  /\ routes' = routes \ Via(bypass \ kept, wan)
  /\ stuck' = stuck \cup Via(kept, wan)
  /\ Cardinality(stuck') <= MaxStuck
  /\ bypass' = {}

\* Mutant: the new WAN is noted before the old routes are removed.
RefreshSwapped(i, kept, failed, anyway) ==
  /\ wan' = i
  /\ bypass' = bypass \ failed
  /\ routes' = (routes \ Via(bypass \ kept, i)) \cup Via((bypass \ failed) \cup anyway, i)
  /\ stuck' = ((stuck \cup Via(kept, i)) \ Via(bypass \ failed, i)) \cup Via(anyway, i)
\* All routes are removed, and added again by the new WAN.
RefreshWAN(i, kept, failed, anyway) ==
  /\ routes' = (routes \ Via(bypass \ kept, wan)) \cup Via((bypass \ failed) \cup anyway, i)
  /\ stuck' = ((stuck \cup Via(kept, wan)) \ Via(bypass \ failed, i)) \cup Via(anyway, i)
  /\ Cardinality(stuck') <= MaxStuck
  /\ bypass' = bypass \ failed
  /\ wan' = i

-----------------------------------------------------------------------------
(* A session.                                                              *)

\* Prepare makes a RouteManager for the WAN of the moment and opens the way to
\* the TURN server of the configuration; without a WAN Connect fails.
FindWAN ==
  /\ stage = "idle"
  /\ \E i \in WANInterface, turn \in SUBSET Ips : \E failed \in SUBSET turn :
       /\ Cardinality(turn) <= 1
       /\ wan' = i
       /\ \E anyway \in SUBSET failed : AddBypassRoutes(turn, i, failed, anyway)
  /\ stage' = "prepared"
  /\ UNCHANGED <<gateway, wg, chosen, up, remembered, saw>>

\* The proxy is ready: Bypass gets the servers and the auth hosts.
Bypass ==
  /\ stage = "prepared"
  /\ \E S \in SUBSET Ips : \E failed \in SUBSET (S \ bypass) :
       \E anyway \in SUBSET failed : AddBypassRoutes(S, wan, failed, anyway)
  /\ stage' = "choose"
  /\ UNCHANGED <<gateway, wg, wan, chosen, up, remembered, saw>>

Choose ==
  /\ stage = "choose"
  /\ stage' = "provision" /\ chosen' \in ChooseWgIface
  /\ UNCHANGED <<ndm, wan, bypass, up, remembered, saw, stuck>>

\* What a batch that returns an error may leave of the connection: any part, and
\* without our description if that command was not carried out; one that is not
\* global either is no different from the user's.
Partial(n) ==
  {[owner |-> "daemon", up |-> b] : b \in BOOLEAN}
    \cup (IF Ours(n) THEN {} ELSE {[owner |-> o, up |-> TRUE] : o \in {"stray", "user"}})

\* ProvisionWg: one batch of commands and a save.  Up commits, or an error, of
\* the save too, leaves Down without a connection to take down.
Provision ==
  /\ stage = "provision"
  /\ \/ /\ wg' = [wg EXCEPT ![chosen] = [owner |-> "daemon", up |-> TRUE]]
        /\ up' = TRUE /\ stage' = "up"
     \/ /\ \/ UNCHANGED wg
           \/ \E c \in Partial(chosen) : wg' = [wg EXCEPT ![chosen] = c]
        /\ stage' = "undo" /\ UNCHANGED up
  /\ UNCHANGED <<gateway, routes, wan, bypass, chosen, remembered, saw, stuck>>

\* The main loop writes the name of the connection to state.json.
Remember ==
  /\ stage = "up" /\ remembered # chosen
  /\ remembered' = chosen
  /\ UNCHANGED <<ndm, stage, wan, bypass, chosen, up, saw, stuck>>

\* Down, holding Backend.mu, when Connect has failed, at any of its calls, or at
\* Disconnect: the connection if Up has committed (a failure is a warning), the
\* routes, the manager.  A checker keeps the old manager.
Down ==
  /\ stage \in {"prepared", "choose", "undo", "up"} /\ stage' = "idle"
  /\ \/ up /\ wg' = [wg EXCEPT ![chosen].up = FALSE]
     \/ UNCHANGED wg
  /\ \E kept \in SUBSET bypass : Cleanup(kept)
  /\ up' = FALSE /\ wan' = None /\ chosen' = None
  /\ saw' = [k \in Checkers |-> None]
  /\ UNCHANGED <<gateway, remembered>>

KeenCrash ==
  /\ stage # "idle" /\ stage' = "idle"
  /\ wan' = None /\ bypass' = {} /\ chosen' = None /\ up' = FALSE
  /\ saw' = [k \in Checkers |-> None]
  /\ stuck' = stuck \cup Via(bypass, wan)
  /\ Cardinality(stuck') <= MaxStuck
  /\ UNCHANGED <<ndm, remembered>>

-----------------------------------------------------------------------------
(* CheckNetworkChange: RefreshWAN reads the WAN before it takes the mutex. *)
(* A manager of an ended session has no routes: acting on it changes       *)
(* nothing, so Down drops what a checker has read.                         *)

LookAtWAN(k) ==
  /\ stage = "up" /\ saw[k] = None
  /\ \E i \in WANInterface : saw' = [saw EXCEPT ![k] = i]
  /\ UNCHANGED <<ndm, backend, stuck>>

\* Mutant: the first RefreshWAN of a session decides.
ApplyOnce(k) ==
  /\ saw[k] # None
  /\ saw' = [saw EXCEPT ![k] = None]
  /\ UNCHANGED <<routes, wan, bypass, stuck>>
  /\ UNCHANGED <<gateway, wg, stage, chosen, up, remembered>>
Apply(k) ==
  /\ saw[k] # None
  /\ saw' = [saw EXCEPT ![k] = None]
  /\ \/ /\ saw[k] = wan
        /\ UNCHANGED <<routes, wan, bypass, stuck>>
     \/ \E i \in {saw[k]} \ {wan}, kept \in SUBSET bypass, failed \in SUBSET bypass :
          \E anyway \in SUBSET failed : RefreshWAN(i, kept, failed, anyway)
  /\ UNCHANGED <<gateway, wg, stage, chosen, up, remembered>>

-----------------------------------------------------------------------------
(* The world.                                                              *)

\* Uplinks come and go, and NDM routes by a connection that works, if any does.
Reroutes ==
  /\ gateway' \in (Global \cup {None}) \ {gateway}
  /\ UNCHANGED <<wg, routes, backend, saw, stuck>>

UserCreates(n) ==
  /\ wg[n].owner = "nobody"
  /\ wg' = [wg EXCEPT ![n] = [owner |-> "user", up |-> TRUE]]
  /\ UNCHANGED <<gateway, routes, backend, saw, stuck>>

\* The user deletes a connection that is not ours: its name is free again.
UserDeletes(n) ==
  /\ wg[n].owner \in {"user", "stray"}
  /\ wg' = [wg EXCEPT ![n] = Free]
  /\ UNCHANGED <<gateway, routes, backend, saw, stuck>>

KeenNext ==
  \/ FindWAN \/ Bypass \/ Choose \/ Provision \/ Remember \/ Down \/ KeenCrash
  \/ \E k \in Checkers : LookAtWAN(k) \/ Apply(k)
  \/ Reroutes
  \/ \E n \in Wgs : UserCreates(n) \/ UserDeletes(n)

KeenFairness ==
  \A k \in Checkers : WF_keenVars(LookAtWAN(k) \/ Apply(k))

-----------------------------------------------------------------------------
(* Properties.                                                             *)

(* Safety.  NDM has no host route of ours but those the RouteManager knows *)
(* of, with the WAN it knows, and those whose last call returned an error  *)
(* or that a crash left; whichever of poller, hook and Down comes first,   *)
(* and whatever NDM has carried out of the calls that failed.              *)
RoutesAccountedFor == routes \subseteq Via(bypass, wan) \cup stuck

(* Action.  Across deaths of the daemon and whatever else the user makes   *)
(* or deletes, a second connection with the same key is made only when    *)
(* state.json remembers none of ours.                                      *)
NoSecondConnection ==
  [][\A n \in Wgs : Ours(n)' /\ ~Ours(n) =>
       remembered = None \/ ~Ours(remembered)]_keenVars

(* Liveness.  If NDM stays with a default connection, whichever it is, the *)
(* routes of a session are in the end on it, though poller and hook may    *)
(* apply what they have read in the wrong order.                           *)
RoutesFollowDefault ==
  \A i \in Ifaces : <>[](stage = "up" /\ gateway = i) => <>[](wan = i)

(* Safety, as keen/routes.go:10-13 has it (host routes through the physical*)
(* WAN, or the proxy's own traffic would go into the tunnel that carries   *)
(* it): no bypass route leads into a WireGuard connection.                 *)
BypassOutsideTunnel == \A r \in routes : r[2] \in Wans
===============================================================================
