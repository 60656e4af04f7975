-------------------------------- MODULE Daemon --------------------------------
(***************************************************************************)
(* The supervisor loop of the daemon (cmdRun in main.go) with the          *)
(* connection it drives (Manager.Connect, handleCaptcha and Disconnect in  *)
(* core/manager.go), the readiness of the proxy it waits for               *)
(* (Tunnel.StartBootstrap, WaitReady and Stop in pkg/proxy/tunnel.go) and  *)
(* the captcha rendezvous between the two (pkg/proxy/captcha_host.go).     *)
(* Signals, the control commands and the file writers of ConfigStore run   *)
(* beside it.                                                              *)
(*                                                                         *)
(* One turn of the loop that finds a configuration is a session, numbered  *)
(* from 1.  What a session has made and not yet undone is the set          *)
(* holds[s]:                                                               *)
(*    "prep"   Backend.Prepare: the mark or the route for the TURN server  *)
(*    "bypass" Backend.Bypass: the routes of the servers in use            *)
(*    "wg"     Backend.Up: WireGuard takes the traffic                     *)
(*    "proxy"  the TURN proxy, until StopProxy cancels its context         *)
(* The router may keep what Down asks it to give back (Down only warns),   *)
(* and a failed Up may have brought WireGuard up without the backend       *)
(* noting it: left is what stands on the router and no backend remembers.  *)
(* A cancelled proxy still has goroutines to unwind: procs is the set of   *)
(* sessions that have any.                                                 *)
(***************************************************************************)
EXTENDS ConfigStore, FiniteSets

CONSTANTS
  MaxSess,      \* bound: sessions with goroutines at a time
  MaxAsks,      \* bound: captchas VK asks for in a behaviour
  LateCaptcha,  \* does VK ask for a captcha outside the prefetch?
  Signals,      \* the kinds of signal the daemon is sent
  Leavable      \* bound: what may stay on the router against its will

ASSUME MaxSessAssumption == MaxSess \in Nat \ {0}
ASSUME MaxAsksAssumption == MaxAsks \in Nat
ASSUME SignalsAssumption == Signals \subseteq {"hup", "stop"}
ASSUME LeavableAssumption == Leavable \subseteq {"wg", "routes"}
ASSUME LateCaptchaAssumption == LateCaptcha \in BOOLEAN

VARIABLES
  main,      \* where the loop stands
  after,     \* where it goes when it has cleaned up
  sig,       \* sigCh, a channel of capacity 1
  sess,      \* the last session
  used,      \* the configuration its manager was made from, 0 without one
  stateTok,  \* the AccessToken in the loop's copy of state.json, while it has one
  holds,     \* [1..MaxSess -> what the session has up]
  left,      \* what of earlier calls stands and no backend remembers
  procs,     \* sessions whose proxy goroutines have not all returned
  boot,      \* [1..MaxSess -> its StartProxy: the result, or where it is]
  notify,    \* captchaNotifyCh, a channel of capacity 1
  asker,     \* session whose fetch waits in RequestCaptcha, 0 if none
  answered,  \* captchaAnswerCh holds an answer
  asks,      \* captchas VK has asked for so far
  page,      \* session whose challenge the LAN page shows, 0: no challenge
  watch      \* sessions whose watchdog is about to call onDead

loopVars == <<sess, used, stateTok, after>>
proxyVars == <<procs, boot, notify, asker, answered, asks>>

router == <<holds, left>>

vars == <<storeVars, loopVars, sig, proxyVars, main, router, page, watch>>

Sessions == 1..MaxSess
Routes == {"prep", "bypass"}
Resources == Routes \cup {"wg", "proxy"}

(* Where the loop waits for nothing but itself, and where it can be        *)
(* parked.                                                                 *)
Connecting == {"loadState", "prepare", "waitReady", "captcha", "bypass", "up",
               "commit", "saveState"}
CleaningUp == {"down", "downRoutes", "stop"}
Waiting == {"idle", "retry", "connected"}

DaemonTypeOK ==
  /\ StoreTypeOK
  /\ main \in Connecting \cup CleaningUp \cup Waiting \cup {"load", "stopped"}
  /\ after \in {"load", "retry", "stopped"}
  /\ sig \in {"none", "hup", "stop"}
  /\ sess \in 0..MaxSess
  /\ used \in Configs
  /\ stateTok \in Tokens
  /\ holds \in [Sessions -> SUBSET Resources]
  /\ left \in SUBSET {"wg", "routes"}
  /\ procs \in SUBSET Sessions
  /\ boot \in [Sessions -> {"none", "prefetch", "groups", "ok", "failed"}]
  /\ notify \in BOOLEAN
  /\ asker \in 0..MaxSess
  /\ answered \in BOOLEAN
  /\ asks \in 0..MaxAsks
  /\ page \in 0..MaxSess
  /\ watch \in SUBSET Sessions

Init ==
  /\ StoreInit
  /\ main = "load"
  /\ after = "load"
  /\ sig = "none"
  /\ sess = 0
  /\ used = 0
  /\ stateTok = NoToken
  /\ holds = [s \in Sessions |-> {}]
  /\ left = {}
  /\ procs = {}
  /\ boot = [s \in Sessions |-> "none"]
  /\ notify = FALSE
  /\ asker = 0
  /\ answered = FALSE
  /\ asks = 0
  /\ page = 0
  /\ watch = {}

Live(s) == s \in Sessions /\ "proxy" \in holds[s]

Gain(R) == holds' = [holds EXCEPT ![sess] = @ \cup R]
Drop(R) == holds' = [holds EXCEPT ![sess] = @ \ R]
MayLeave(R) == left' \in {left} \cup {left \cup {r} : r \in R \cap Leavable}
MayTakeOver(R) == left' \in {left, left \ R}

-----------------------------------------------------------------------------
(* LoadConfig, or the wait for a configuration.                            *)
LoadNothing ==
  /\ main = "load"
  /\ config = Missing
  /\ main' = "idle"
  /\ used' = 0
  /\ UNCHANGED <<storeVars, sig, sess, stateTok, after, router,
                 proxyVars, page, watch>>

(* Mutant: numbers are never used again.                                   *)
EverySessNew == sess + 1

(* A session number is used again once nothing of that session runs; at    *)
(* most MaxSess sessions have goroutines at a time.                        *)
NextSess == (sess % MaxSess) + 1

(* Mutant: LoadConfig before the loop instead of in it.                    *)
LoadConfigOnce ==
  /\ main = "load"
  /\ config # Missing
  /\ NextSess \notin procs \cup watch
  /\ main' = "loadState"
  /\ sess' = NextSess
  /\ used' = (IF used = 0 THEN config ELSE used)
  /\ orphan' = FALSE
  /\ boot' = [boot EXCEPT ![NextSess] = "none"]
  /\ UNCHANGED <<config, token, reconnect, handler, serial, imported,
                 sig, stateTok, after, router, procs, notify, asker,
                 answered, asks, page, watch>>

LoadConfig ==
  /\ main = "load"
  /\ config # Missing
  /\ NextSess \notin procs \cup watch
  /\ main' = "loadState"
  /\ sess' = NextSess
  /\ used' = config
  /\ orphan' = FALSE
  /\ boot' = [boot EXCEPT ![NextSess] = "none"]
  /\ UNCHANGED <<config, token, reconnect, handler, serial, imported,
                 sig, stateTok, after, router, procs, notify, asker,
                 answered, asks, page, watch>>

(* LoadState and NewManager: the loop's copy of state.json.                *)
LoadState ==
  /\ main = "loadState"
  /\ main' = "prepare"
  /\ stateTok' = TokenRead
  /\ UNCHANGED <<storeVars, sig, sess, used, after, router, proxyVars, page,
                 watch>>

(* The start of Connect.  A configuration without TURN settings, NewBackend *)
(* and Prepare can fail; a failed Prepare is followed by Down, which may    *)
(* miss a route whose command seemed to fail.  Otherwise the bypass is in   *)
(* place before StartBootstrap sends the first packet.                      *)
PrepareFails ==
  /\ main = "prepare"
  /\ main' = "retry"
  /\ stateTok' = NoToken
  /\ MayLeave({"routes"})
  /\ UNCHANGED <<storeVars, sig, sess, used, after, holds, proxyVars, page,
                 watch>>

Prepare ==
  /\ main = "prepare"
  /\ used # Blank
  /\ Gain({"prep", "proxy"})
  /\ procs' = procs \cup {sess}
  /\ boot' = [boot EXCEPT ![sess] = "prefetch"]
  /\ main' = "waitReady"
  /\ UNCHANGED <<storeVars, sig, loopVars, left, notify, asker, answered, asks,
                 page, watch>>

(* Connect and the wait end by undoing the session: the deferred cleanup   *)
(* of a Connect that did not commit, or Disconnect.  The event that ended  *)
(* the wait has been read by then: it decides where the loop goes after.   *)
CleanUp(next) == main' = "down" /\ after' = next

UnchangedButMain == UNCHANGED <<storeVars, sig, sess, used, stateTok,
                                router, proxyVars, page, watch>>

-----------------------------------------------------------------------------
(* WaitReady.  select takes any of the channels that are ready; after      *)
(* readyCh it looks for a pending captcha before it reads the result.      *)
Finished == boot[sess] \in {"ok", "failed"}

(* Mutant: Up without Bypass.                                               *)
WaitReadyThenUp ==
  /\ main = "waitReady"
  /\ Finished
  /\ asker = 0
  /\ IF boot[sess] = "ok" THEN main' = "up" /\ UNCHANGED after
                          ELSE CleanUp("retry")
  /\ UnchangedButMain

WaitReadyResult ==
  /\ main = "waitReady"
  /\ Finished
  /\ asker = 0
  /\ IF boot[sess] = "ok" THEN main' = "bypass" /\ UNCHANGED after
                          ELSE CleanUp("retry")
  /\ UnchangedButMain

(* handleCaptcha reads PendingCaptchaURL for its page, whatever it is by   *)
(* then.                                                                   *)
ShowCaptcha ==
  /\ main' = "captcha"
  /\ page' = asker
  /\ UNCHANGED <<storeVars, sig, loopVars, router, procs, boot, asker,
                 answered, asks, watch>>

WaitReadyPending ==
  /\ main = "waitReady"
  /\ Finished
  /\ asker # 0
  /\ ShowCaptcha
  /\ UNCHANGED notify

WaitReadyNotified ==
  /\ main = "waitReady"
  /\ notify
  /\ notify' = FALSE
  /\ ShowCaptcha

(* The 90 second timer of WaitReady, or a captcha page that cannot listen. *)
WaitReadyFails ==
  /\ main = "waitReady"
  /\ CleanUp("retry")
  /\ UnchangedButMain

(* CaptchaServer.Wait returns when the page or SOLVE delivers a token: its *)
(* context is cancelled only after Connect has returned.  SolveCaptcha     *)
(* hands the token to whatever request is pending by now.                  *)
Solve ==
  /\ main = "captcha"
  /\ main' = "waitReady"
  /\ page' = 0
  /\ answered' = (answered \/ asker # 0)
  /\ UNCHANGED <<storeVars, sig, loopVars, router, procs, boot, notify, asker,
                 asks, watch>>

-----------------------------------------------------------------------------
(* ActiveTURNAddrs takes the mutex of every credential cache for reading;  *)
(* a fetch that waits for a captcha holds the mutex of its cache.  A route *)
(* that has stayed from before may be put, and remembered, again.          *)
Bypass ==
  /\ main = "bypass"
  /\ asker = 0
  /\ Gain({"bypass"})
  /\ MayTakeOver({"routes"})
  /\ main' = "up"
  /\ UNCHANGED <<storeVars, sig, loopVars, proxyVars, page, watch>>

(* The interface that has stayed up from before is found again, or another *)
(* one is taken.                                                           *)
Up ==
  /\ main = "up"
  /\ Gain({"wg"})
  /\ MayTakeOver({"wg"})
  /\ main' = "commit"
  /\ UNCHANGED <<storeVars, sig, loopVars, proxyVars, page, watch>>

(* Mutant: committed is set before Up, so the deferred cleanup does not run. *)
UpFailsCommitted ==
  /\ main = "up"
  /\ MayLeave({"wg"})
  /\ main' = "retry"
  /\ UNCHANGED <<storeVars, sig, loopVars, holds, proxyVars, page, watch>>

(* The batch of ProvisionWg brings the interface up before Save fails; the *)
(* backend then does not note that it is.                                  *)
UpFails ==
  /\ main = "up"
  /\ MayLeave({"wg"})
  /\ CleanUp("retry")
  /\ UNCHANGED <<storeVars, sig, sess, used, stateTok, holds,
                 proxyVars, page, watch>>

(* Mutant: reconnects asked for before the connection was up are dropped.   *)
CommitDrains ==
  /\ main = "commit"
  /\ \/ main' = "connected" /\ stateTok' = NoToken /\ UNCHANGED token
     \/ main' = "saveState" /\ token' = Torn /\ UNCHANGED stateTok
  /\ reconnect' = FALSE
  /\ UNCHANGED <<config, handler, serial, orphan, imported, sig, sess, used,
                 after, router, proxyVars, page, watch>>

(* Connect has committed.  The name of the interface goes to state.json    *)
(* with the rest of the copy read before Connect, if it is not the name    *)
(* there; a failed SaveState is only logged.                               *)
Commit ==
  /\ main = "commit"
  /\ \/ main' = "connected" /\ stateTok' = NoToken /\ UNCHANGED token
     \/ main' = "saveState" /\ token' = Torn /\ UNCHANGED stateTok
  /\ UNCHANGED <<config, reconnect, handler, serial, orphan, imported, sig,
                 sess, used, after, router, proxyVars, page, watch>>

SaveState ==
  /\ main = "saveState"
  /\ main' = "connected"
  /\ stateTok' = NoToken
  /\ \/ FillState(stateTok) /\ UNCHANGED imported
     \/ imported' = token /\ UNCHANGED token
  /\ UNCHANGED <<config, reconnect, handler, serial, orphan, sig, sess, used,
                 after, router, proxyVars, page, watch>>

-----------------------------------------------------------------------------
(* Backend.Down takes WireGuard down, if the backend has noted that it is  *)
(* up, and then the routes.  A command the router refuses is only logged.  *)
BackendDown ==
  /\ main = "down"
  /\ main' = "downRoutes"
  /\ MayLeave({"wg"} \cap holds[sess])
  /\ Drop({"wg"})
  /\ UNCHANGED <<storeVars, sig, loopVars, proxyVars, page, watch>>

Cleanup ==
  /\ main = "downRoutes"
  /\ main' = "stop"
  /\ MayLeave({"routes"})
  /\ Drop(Routes)
  /\ UNCHANGED <<storeVars, sig, loopVars, proxyVars, page, watch>>

(* Tunnel.Stop: StopProxy cancels the proxy and waits a bounded time.      *)
TunnelStop ==
  /\ main = "stop"
  /\ Drop({"proxy"})
  /\ main' = after
  /\ after' = "load"
  /\ stateTok' = NoToken
  /\ UNCHANGED <<storeVars, sig, sess, used, left, proxyVars, page, watch>>

(* waitIdle, waitRetry and waitConnected: what an event leads to, and what *)
(* a stop signal leads to.                                                 *)
Again == IF main = "connected" THEN CleanUp("load")
                               ELSE main' = "load" /\ UNCHANGED after

(* Mutant: waitRetry without isStop.                                        *)
TakeStopRetries ==
  /\ main \in Waiting
  /\ sig = "stop"
  /\ sig' = "none"
  /\ CASE main = "connected" -> CleanUp("stopped")
       [] main = "retry"     -> main' = "load" /\ UNCHANGED after
       [] OTHER              -> main' = "stopped" /\ UNCHANGED after
  /\ UNCHANGED <<storeVars, sess, used, stateTok, router, proxyVars,
                 page, watch>>

TakeStop ==
  /\ main \in Waiting
  /\ sig = "stop"
  /\ sig' = "none"
  /\ IF main = "connected" THEN CleanUp("stopped")
                           ELSE main' = "stopped" /\ UNCHANGED after
  /\ UNCHANGED <<storeVars, sess, used, stateTok, router, proxyVars,
                 page, watch>>

TakeHup ==
  /\ main \in Waiting
  /\ sig = "hup"
  /\ sig' = "none"
  /\ Again
  /\ UNCHANGED <<storeVars, sess, used, stateTok, router, proxyVars,
                 page, watch>>

TakeReconnect ==
  /\ main \in Waiting
  /\ reconnect
  /\ reconnect' = FALSE
  /\ Again
  /\ UNCHANGED <<config, token, handler, serial, orphan, imported, sig,
                 sess, used, stateTok, router, proxyVars, page, watch>>

(* The timer is 15 seconds away when the select starts: it wins only while *)
(* nothing else is there.                                                  *)
RetryTimer ==
  /\ main = "retry"
  /\ sig = "none"
  /\ ~reconnect
  /\ main' = "load"
  /\ UNCHANGED <<storeVars, sig, loopVars, router, proxyVars, page, watch>>

MainStep ==
  \/ LoadNothing \/ LoadConfig \/ LoadState \/ PrepareFails \/ Prepare
  \/ WaitReadyResult \/ WaitReadyPending \/ WaitReadyNotified \/ WaitReadyFails
  \/ Bypass \/ Up \/ UpFails \/ Commit \/ SaveState
  \/ BackendDown \/ Cleanup \/ TunnelStop
  \/ TakeHup \/ RetryTimer

-----------------------------------------------------------------------------
(* The proxy.  Its context is cancelled by StopProxy, and by StartProxy    *)
(* itself when it fails.                                                   *)
Cancelled(s) == ~Live(s) \/ boot[s] = "failed"

(* A fetch meets a captcha and enters RequestCaptcha; captchaManualMu      *)
(* admits one at a time, of whatever session.                              *)
AskCaptcha(s) ==
  /\ s \in procs
  /\ asker = 0
  /\ boot[s] = "prefetch" \/ LateCaptcha
  /\ asks < MaxAsks
  /\ asks' = asks + 1
  /\ asker' = s
  /\ answered' = FALSE
  /\ notify' = TRUE
  /\ UNCHANGED <<storeVars, loopVars, sig, main, router, procs, boot, page,
                 watch>>

(* RequestCaptcha returns: answered, or its context is cancelled.          *)
AskReturns ==
  /\ asker # 0
  /\ answered \/ Cancelled(asker)
  /\ asker' = 0
  /\ answered' = FALSE
  /\ UNCHANGED <<storeVars, loopVars, sig, main, router, procs, boot,
                 notify, asks, page, watch>>

(* The prefetch of StartProxy ends once every group's fetch has, and then  *)
(* the first stream comes up or does not; cancelled, StartProxy fails.     *)
(* Every result other than 0 ends Connect: one value stands for them.      *)
PrefetchEnds(s) ==
  /\ s \in procs
  /\ boot[s] = "prefetch"
  /\ asker # s
  /\ \E b \in {"groups", "failed"} :
       /\ b = "groups" => Live(s)
       /\ boot' = [boot EXCEPT ![s] = b]
  /\ UNCHANGED <<storeVars, loopVars, sig, main, router, procs, notify,
                 asker, answered, asks, page, watch>>

GroupsStart(s) ==
  /\ s \in procs
  /\ boot[s] = "groups"
  /\ \E b \in {"ok", "failed"} :
       /\ b = "ok" => Live(s)
       /\ boot' = [boot EXCEPT ![s] = b]
  /\ UNCHANGED <<storeVars, loopVars, sig, main, router, procs, notify,
                 asker, answered, asks, page, watch>>

(* The last goroutine of a stopped proxy returns.                          *)
Unwind(s) ==
  /\ s \in procs
  /\ ~Live(s)
  /\ asker # s
  /\ boot[s] \notin {"prefetch", "groups"}
  /\ procs' = procs \ {s}
  /\ UNCHANGED <<storeVars, loopVars, sig, main, router, boot, notify, asker,
                 answered, asks, page, watch>>

ProxyStep(s) == PrefetchEnds(s) \/ GroupsStart(s) \/ Unwind(s)

-----------------------------------------------------------------------------
(* The watchdog goroutine of the connected session finds its handshake     *)
(* stale; onDead comes later, when the session may be gone.                *)
WatchdogFires ==
  /\ main = "connected"
  /\ watch' = watch \cup {sess}
  /\ UNCHANGED <<storeVars, loopVars, sig, proxyVars, main, router, page>>

WatchdogReconnects(s) ==
  /\ s \in watch
  /\ watch' = watch \ {s}
  /\ AskReconnect
  /\ UNCHANGED <<loopVars, sig, proxyVars, main, router, page>>

(* signal.Notify drops a signal for which the channel has no room.         *)
Signal(x) ==
  /\ sig' = IF sig = "none" THEN x ELSE sig
  /\ UNCHANGED <<storeVars, loopVars, proxyVars, main, router, page, watch>>

Others == UNCHANGED <<loopVars, sig, proxyVars, main, router, page, watch>>

Next ==
  /\ main # "stopped"
  /\ \/ MainStep \/ TakeStop \/ TakeReconnect \/ Solve
     \/ AskReturns
     \/ \E s \in Sessions : ProxyStep(s) \/ AskCaptcha(s) \/ WatchdogReconnects(s)
     \/ WatchdogFires
     \/ \E x \in Signals : Signal(x)
     \/ AskReconnect /\ Others
     \/ \E h \in Handlers : (HandlerBegin(h) \/ HandlerStep(h)) /\ Others

Spec == Init /\ [][Next]_vars

(* What the Go scheduler grants: a goroutine that can go on does.  A       *)
(* select that finds several channels ready picks at random, so a channel  *)
(* that is ready again and again is taken some time (SF).  Nobody is       *)
(* obliged to solve a captcha, to send a signal or to use the panel.       *)
Fairness ==
  /\ WF_vars(MainStep)
  /\ SF_vars(TakeStop) /\ SF_vars(TakeReconnect)
  /\ WF_vars(AskReturns)
  /\ \A s \in Sessions : WF_vars(ProxyStep(s))
  /\ \A s \in Sessions : WF_vars(WatchdogReconnects(s))

FairSpec == Spec /\ Fairness

-----------------------------------------------------------------------------
(* A configuration that was saved and announced is never forgotten: while  *)
(* the loop connects, waits or cleans up before a retry, with another      *)
(* configuration than config.conf holds, either its writer is still on the *)
(* way to its reconnect, or the reconnect is in the channel.  (An import   *)
(* that could not write state.json has given up on both.)  This is what    *)
(* makes one slot enough for daemon.reconnect and what the order           *)
(* LoadConfig-after-receive is for.                                        *)
SavedConfigIsAnnounced ==
  /\ \/ main \in Connecting \cup Waiting
     \/ main \in CleaningUp /\ after = "retry"
  /\ config \notin {Missing, Blank, used}
  /\ ~orphan
  /\ \A h \in Handlers : ~Announcing(h)
  => reconnect

(* One session at a time has anything up, and a loop that is idle, between *)
(* attempts or stopped has undone every call of the session: every path    *)
(* out of Connect and every event of the wait does.  What stands after     *)
(* that is in left, without a session: WireGuard or routes the router      *)
(* would not give back, or a WireGuard whose Up failed; never the proxy.   *)
OneSessionUp ==
  /\ \A s \in Sessions : holds[s] # {} => s = sess
  /\ \A s \in Sessions :
       main \in {"load", "loadState", "idle", "retry", "prepare", "stopped"}
         => holds[s] = {}

(* The WireGuard of a session is up only over its own proxy, which has     *)
(* reported ready, and inside the bypass: Prepare and Bypass both precede  *)
(* Up, and no route of the bypass is taken back before WireGuard is taken  *)
(* down.  And whatever stands from before, the proxy sends nothing until   *)
(* Prepare has set its mark or route; only Tunnel.Stop, which comes after  *)
(* Backend.Down, runs without it.                                          *)
TunnelInsideBypass ==
  \A s \in Sessions :
    /\ "wg" \in holds[s] => /\ {"prep", "bypass", "proxy"} \subseteq holds[s]
                            /\ boot[s] = "ok"
    /\ Live(s) /\ main # "stop" => "prep" \in holds[s]

(* How far the session has come, and what it has up at each stage: what    *)
(* the two invariants above rest on.                                       *)
SessionStage ==
  /\ main \in Connecting \cup CleaningUp \cup {"retry", "connected"}
       => sess \in Sessions
  /\ main \in {"waitReady", "captcha", "bypass", "up", "commit", "saveState",
               "connected", "down", "downRoutes"}
       => {"prep", "proxy"} \subseteq holds[sess]
  /\ main \in {"bypass", "up", "commit", "saveState", "connected"}
       => boot[sess] = "ok"
  /\ main \in {"up", "commit", "saveState", "connected"}
       => "bypass" \in holds[sess]
  /\ main = "stop" => holds[sess] = {"proxy"}
  /\ \A s \in Sessions : "wg" \in holds[s] =>
       /\ main \in {"commit", "saveState", "connected", "down"}
       /\ "bypass" \in holds[s]
       /\ boot[s] = "ok"

(* Where a captcha can hold the loop: on the page, or in ActiveTURNAddrs.  *)
HeldByCaptcha == main = "captcha" \/ (main = "bypass" /\ asker # 0)

(* A stop signal that found the channel free ends the daemon, unless a     *)
(* captcha holds the loop.                                                 *)
StopEndsDaemon == (sig = "stop") ~> (main = "stopped" \/ HeldByCaptcha)

(* A saved configuration whose reconnect has been sent is connected with,  *)
(* unless it is replaced, the daemon stops or a captcha holds the loop.    *)
ReloadReachesTunnel ==
  \A v \in 1..MaxVer :
    (config = v /\ reconnect) ~>
      (used = v \/ config # v \/ main = "stopped" \/ HeldByCaptcha)

-----------------------------------------------------------------------------
(* What the documentation says of this part and the code does not do.      *)

(* store.go:25 and README.md, Управление: reload uses the access token of  *)
(* the import.  A write that is under way has not put it there yet.        *)
TokenOfLastImport ==
  (main # "saveState" /\ \A h \in Handlers : handler[h].pc # "stateFill")
    => token = imported
==============================================================================
