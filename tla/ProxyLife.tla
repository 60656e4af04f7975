------------------------------ MODULE ProxyLife ------------------------------
(***************************************************************************)
(* Start and stop of the TURN proxy: StartProxy and StopProxy with their   *)
(* two globals, currentTurnCancel and currentTurnDone                      *)
(* (pkg/proxy/turn-client.go), called by Tunnel.StartBootstrap and         *)
(* Tunnel.Stop (pkg/proxy/tunnel.go).                                      *)
(*                                                                         *)
(* The host starts one proxy at a time and stops it before the next, but   *)
(* StartProxy runs in a goroutine nobody waits for: it may still be on its *)
(* way when its Stop has returned and the next proxy has begun.  Proxies   *)
(* are numbered in the order they are started; 0 stands for nil.           *)
(***************************************************************************)
EXTENDS Naturals

CONSTANT MaxProxy \* bound: proxies started in a behaviour

ASSUME MaxProxyAssumption == MaxProxy \in Nat

Proxies == 1..MaxProxy

VARIABLES
  host,      \* the caller: "down", "up", or where in StopProxy it is
  count,     \* proxies started so far
  start,     \* [Proxies -> where its StartProxy stands]
  dead,      \* proxies whose context is cancelled
  current,   \* currentTurnCancel
  currentDone, \* currentTurnDone
  mine,      \* the two values StopProxy has taken
  groups,    \* [Proxies -> its worker groups]
  listening  \* proxies whose UDP listener is open

hostVars == <<host, count, mine>>
globals == <<current, currentDone>>
lifeVars == <<hostVars, start, dead, globals, groups, listening>>

Returned == {"refused", "failed", "ready"}

LifeTypeOK ==
  /\ host \in {"down", "up", "cancel", "wait"}
  /\ count \in 0..MaxProxy
  /\ start \in [Proxies -> {"none", "begin", "listen", "cert", "prefetch",
                         "cascade", "publish", "select"} \cup Returned]
  /\ dead \in SUBSET Proxies
  /\ current \in 0..MaxProxy
  /\ currentDone \in 0..MaxProxy
  /\ mine \in [cancel : 0..MaxProxy, done : 0..MaxProxy]
  /\ groups \in [Proxies -> {"none", "running", "drained"}]
  /\ listening \in SUBSET Proxies

LifeInit ==
  /\ host = "down"
  /\ count = 0
  /\ start = [k \in Proxies |-> "none"]
  /\ dead = {}
  /\ current = 0
  /\ currentDone = 0
  /\ mine = [cancel |-> 0, done |-> 0]
  /\ groups = [k \in Proxies |-> "none"]
  /\ listening = {}

Advance(k, from, to) == start[k] = from /\ start' = [start EXCEPT ![k] = to]

-----------------------------------------------------------------------------
(* StartBootstrap: a goroutine that calls StartProxy.  The context it      *)
(* makes (bootCtx) is given to nobody.                                     *)
Launch ==
  /\ host = "down"
  /\ count < MaxProxy
  /\ host' = "up"
  /\ count' = count + 1
  /\ start' = [start EXCEPT ![count + 1] = "begin"]
  /\ UNCHANGED <<mine, dead, globals, groups, listening>>

(* A wrap key that does not decode: back before anything is registered.    *)
Refuse(k) ==
  /\ Advance(k, "begin", "refused")
  /\ UNCHANGED <<hostVars, dead, globals, groups, listening>>

(* Mutant: the previous proxy is not cancelled.                            *)
RegisterOver(k) ==
  /\ Advance(k, "begin", "listen")
  /\ current' = k
  /\ UNCHANGED <<hostVars, dead, currentDone, groups, listening>>

(* Mutant: the cancel function is called without a look whether it is nil. *)
RegisterNil(k) ==
  /\ Advance(k, "begin", "listen")
  /\ dead' = dead \cup {current}
  /\ current' = k
  /\ UNCHANGED <<hostVars, currentDone, groups, listening>>

(* The first critical section: cancel the previous proxy, if there is one, *)
(* and become the current one.                                             *)
Register(k) ==
  /\ Advance(k, "begin", "listen")
  /\ dead' = dead \cup ({current} \ {0})
  /\ current' = k
  /\ UNCHANGED <<hostVars, currentDone, groups, listening>>

(* resolvePeer and listenUDP.  They fail without a call of cancel.  Once   *)
(* there is a listener, the cancellation closes it (context.AfterFunc).    *)
(* Listeners share the port (SO_REUSEADDR), so an older one is no obstacle. *)
Listen(k) ==
  /\ \/ Advance(k, "listen", "failed") /\ UNCHANGED listening
     \/ Advance(k, "listen", "cert") /\ listening' = listening \cup {k}
  /\ UNCHANGED <<hostVars, dead, globals, groups>>

MakeCert(k) ==
  /\ Advance(k, "cert", "failed") \/ Advance(k, "cert", "prefetch")
  /\ UNCHANGED <<hostVars, dead, globals, groups, listening>>

(* Mutant: only a proxy that came up closes its listener.                  *)
CloseListenerOfReady(k) ==
  /\ k \in listening \cap dead
  /\ start[k] = "ready"
  /\ listening' = listening \ {k}
  /\ UNCHANGED <<hostVars, start, dead, globals, groups>>

CloseListener(k) ==
  /\ k \in listening \cap dead
  /\ listening' = listening \ {k}
  /\ UNCHANGED <<hostVars, start, dead, globals, groups>>

(* Every group's fetch has returned.  A result that rules the start out    *)
(* cancels the context; a prefetch that was cancelled goes on to the       *)
(* groups like one that failed for a passing reason.                       *)
PrefetchFails(k) ==
  /\ Advance(k, "prefetch", "failed")
  /\ dead' = dead \cup {k}
  /\ UNCHANGED <<hostVars, globals, groups, listening>>

(* StartTunnelGroups starts the first group and, seconds apart and         *)
(* whatever the context says, the others.  Its list of links is never      *)
(* empty, so it has no error to return.                                    *)
StartGroups(k) ==
  /\ Advance(k, "prefetch", "cascade")
  /\ groups' = [groups EXCEPT ![k] = "running"]
  /\ UNCHANGED <<hostVars, dead, globals, listening>>

AllStarted(k) ==
  /\ Advance(k, "cascade", "publish")
  /\ UNCHANGED <<hostVars, dead, globals, groups, listening>>

(* The second critical section, whoever is current by now.                 *)
Publish(k) ==
  /\ Advance(k, "publish", "select")
  /\ currentDone' = k
  /\ UNCHANGED <<hostVars, dead, current, groups, listening>>

(* The first stream is ready, the context is cancelled, or 30 seconds have *)
(* passed.  okChan may have been filled before the cancellation.           *)
Ready(k) ==
  /\ Advance(k, "select", "ready")
  /\ UNCHANGED <<hostVars, dead, globals, groups, listening>>

StartCancelled(k) ==
  /\ Advance(k, "select", "failed")
  /\ k \in dead
  /\ UNCHANGED <<hostVars, dead, globals, groups, listening>>

StartTimeout(k) ==
  /\ Advance(k, "select", "failed")
  /\ dead' = dead \cup {k}
  /\ UNCHANGED <<hostVars, globals, groups, listening>>

(* Every worker of every group has returned, and done is closed.           *)
Drain(k) ==
  /\ groups[k] = "running"
  /\ k \in dead
  /\ start[k] # "cascade"
  /\ groups' = [groups EXCEPT ![k] = "drained"]
  /\ UNCHANGED <<hostVars, start, dead, globals, listening>>

StartStep(k) ==
  \/ Refuse(k) \/ Register(k) \/ Listen(k) \/ MakeCert(k)
  \/ PrefetchFails(k) \/ StartGroups(k) \/ AllStarted(k) \/ Publish(k)
  \/ Ready(k) \/ StartCancelled(k) \/ StartTimeout(k)

-----------------------------------------------------------------------------
(* StopProxy, called once for each tunnel (stopOnce): take both globals,   *)
(* cancel, wait.                                                           *)
StopSwap ==
  /\ host = "up"
  /\ mine' = [cancel |-> current, done |-> currentDone]
  /\ current' = 0
  /\ currentDone' = 0
  /\ host' = IF current = 0 THEN "down" ELSE "cancel"
  /\ UNCHANGED <<count, start, dead, groups, listening>>

StopCancel ==
  /\ host = "cancel"
  /\ dead' = dead \cup {mine.cancel}
  /\ host' = IF mine.done = 0 THEN "down" ELSE "wait"
  /\ UNCHANGED <<count, mine, start, globals, groups, listening>>

StopDone ==
  /\ host = "wait"
  /\ groups[mine.done] = "drained"
  /\ host' = "down"
  /\ UNCHANGED <<count, mine, start, dead, globals, groups, listening>>

(* allocationDrainTimeout, 3 seconds.                                      *)
StopTimeout ==
  /\ host = "wait"
  /\ host' = "down"
  /\ UNCHANGED <<count, mine, start, dead, globals, groups, listening>>

LifeNext ==
  \/ Launch \/ StopSwap \/ StopCancel \/ StopDone \/ StopTimeout
  \/ \E k \in Proxies : StartStep(k) \/ CloseListener(k) \/ Drain(k)

LifeSpec == LifeInit /\ [][LifeNext]_lifeVars

(* Every goroutine that can go on does.  A prefetch ends once cancelled,   *)
(* and the workers of a cancelled context return.  A proxy that runs need  *)
(* not be stopped.                                                         *)
LifeFairness ==
  /\ WF_lifeVars(StopCancel) /\ WF_lifeVars(StopDone \/ StopTimeout)
  /\ \A k \in Proxies :
       /\ WF_lifeVars(StartStep(k) /\ (k \in dead \/ start[k] # "prefetch"))
       /\ WF_lifeVars(CloseListener(k)) /\ WF_lifeVars(Drain(k))

-----------------------------------------------------------------------------
(* Registered and not cancelled: its goroutines go on until somebody       *)
(* cancels it.                                                             *)
Alive(k) == start[k] \notin {"none", "begin", "refused"} /\ k \notin dead

(* No proxy is lost: one that has not been cancelled is the one            *)
(* currentTurnCancel will cancel, at the next StopProxy or StartProxy, or  *)
(* StopProxy is about to cancel it.  This covers a StartProxy that         *)
(* registers after its own Stop, and the returns of -1 that leave the      *)
(* context alone (turn-client.go:1013-1040).                               *)
EveryProxyCanBeStopped ==
  \A k \in Proxies :
    Alive(k) => k = current \/ (host = "cancel" /\ k = mine.cancel)

(* StopProxy never waits for a proxy that nobody has told to end: the      *)
(* channel it takes may belong to another proxy than the function it takes *)
(* with it, when an older StartProxy has published late, but then that     *)
(* proxy has been cancelled too.                                           *)
WaitsOnlyForTheCancelled == host = "wait" => mine.done \in dead

(* What the two rest on: a done channel is that of a proxy that has        *)
(* registered, a cancel function too, a done channel taken with another's  *)
(* cancel function is that of a cancelled proxy, and the proxies beyond    *)
(* count have not been started.                                            *)
Registered(k) == k \in Proxies /\ start[k] \notin {"none", "begin", "refused"}

Published ==
  /\ \A k \in {current, currentDone, mine.cancel, mine.done} \ {0} :
       Registered(k)
  /\ \A k \in Proxies : k > count => start[k] = "none"
  /\ host = "cancel" => mine.cancel # 0
  /\ host = "wait" => mine.done # 0
  /\ host = "cancel" /\ mine.done # 0 /\ mine.done # mine.cancel
       => mine.done \in dead

(* Whatever a cancelled proxy has opened is closed in the end, and stays   *)
(* closed: its listener, also one that was opened after the cancellation,  *)
(* and its groups, also those that were started after it.                  *)
CancelledProxyEnds ==
  \A k \in Proxies :
    <>[](k \in dead =>
           start[k] \in Returned /\ groups[k] # "running" /\ k \notin listening)
==============================================================================
