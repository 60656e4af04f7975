# wgkeybot-router in TLA+

Models of the parts of the daemon whose correctness depends on the order of
events: the supervisor loop and its session, the files that are written under
it, the start and the stop of the TURN proxy, the credentials of its streams and
the captchas that stand before them, the race for a TURN allocation, the session
on it, and what the two router backends do to the kernel and to NDM.  TLC checks
each on small instances; every safety invariant and action property they check is
also proved with TLAPS for every value of the constants (section 5).

Line numbers below are of `src/`; `PROJECT.json` maps every definition that
models code to its lines.

## 1. The system

`wgkeybot run` is one Go process on a router (Keenetic or OpenWrt).  It obtains a
configuration with an access token, opens a number of TURN allocations at the
relays of a VK call, wraps packets so that they pass for call traffic, and runs
WireGuard over them.

| Component | State it keeps | Operations | Talks to |
|---|---|---|---|
| Configuration store `core/store.go` | `config.conf`, `state.json` | SaveConfig, LoadConfig, SaveState, LoadState; no lock | written by CLI, panel, control socket, loop |
| Configuration sources `core/api.go`, `panel.go`, `control.go`, `main.go` | none | reload, import, pasted .conf | store, `daemon.reconnect` |
| Supervisor loop `main.go` | `reconnect` (cap. 1), `sigCh` (cap. 1), current manager | cmdRun, waitIdle, waitRetry, waitConnected | store, manager |
| Connection manager `core/manager.go` | tunnel, backend, connected, captcha page | Connect, Disconnect, handleCaptcha, StartWatchdog, CheckNetworkChange | backend, tunnel |
| Tunnel object `pkg/proxy/tunnel.go`, `captcha_host.go` | bootResult, readyCh; the pending captcha, its answer and notify channels | StartBootstrap, WaitReady, Stop, RequestCaptcha, SolveCaptcha | proxy, VK client |
| Proxy start and stop `turn-client.go` | `currentTurnCancel`, `currentTurnDone`, `streamsPerCred` | StartProxy, StopProxy | groups, listener |
| Worker groups `init_groups.go`, `worker_group.go` | streams, `allocSemaphore`, `vkSemaphore` | StartTunnelGroups, WorkerGroup, runWorker, dispatcher | credentials, gate, session |
| TURN session `stream_run_with_creds.go` | per call: candidates, `winCh`, `errCh`, `once` | runWithCreds, dialAndAllocate, runSession, reapRace | TURN servers |
| Credential cache `credentials.go` | per group: credential, lastRefresh, mutex | getCredsCached, refreshGroupCreds, ActiveTURNAddrs | VK client |
| VK client `vk*.go`, `slider_captcha.go` | `captchaManualMu`, lockout, gap, success token and its uses | fetchVkCreds, getTokenChain, solvers, requestCaptchaSerialized | HTTP, captcha rendezvous |
| Network gate `network_availability.go` | generation, proof, probe permit, wake channel | waitForNetworkPermit, releaseNetworkPermit, markNetworkPathProven | workers |
| Packet transports `turn-client.go`, `wrap.go`, `keepalive_policy.go`, `turn_permwatch.go`, `srtpwrap` | per stream: queue, ready flag, nonce word, activity, failures in pion's log | relay loops, handshake, dispatcher, blackhole watch | peer |
| DNS resolver `dns.go` | cache, resolver order | lookup, ClearCache | network |
| Keenetic backend `keen/` | routes, interface name, up | Prepare, Bypass, Up, Down, NetworkChanged | RCI |
| OpenWrt backend `owrt/` | ip rules, table, nft table, device, SOCKS server and its connections | the same | netlink, nft, uci, netstack |
| Packaging `packaging/`, `install.sh` | pid file | init scripts, hooks that send signals and NETCHANGE | daemon |

What is hard in it:

* **Concurrency without locks**: three kinds of writers of `config.conf`; two
  packages' globals shared by consecutive sessions; a stopped proxy whose
  goroutines are still unwinding when the next one starts.
* **One-slot channels** as memory: `reconnect`, `sigCh`, `captchaNotifyCh`,
  `winCh`.  A message is dropped when the slot is taken, or stays behind after
  what it announced is over.
* **Partial failure**: Connect has six stages; StartProxy has eleven returns.
* **Cancellation at any point**: a call of runWithCreds returns while its
  candidates go on.
* **Many ways to notice an end**: the loops of a session learn of a failure from
  a context, a closed relay, a closed pipe or a detector, each transport in its way.
* **State outside the process**: rules, routes and connections on the router
  survive a crash, and the router's user changes them meanwhile.
* **Waiting chains**: a captcha holds `captchaManualMu`, a cache mutex, a place
  in `vkSemaphore` and perhaps the loop.

`PROJECT.json` lists each hazard at its line and the properties that cover it.

What makes each component correct:

* store and sources: what was saved and announced is used; no torn file is taken
  for a configuration; tokens survive;
* loop and manager: one session at a time; nothing left behind; WireGuard never
  up without its bypass; stop and reload take effect;
* proxy start/stop: no proxy out of reach of a stop; a stop waits for the right
  one; whatever a cancelled proxy opened is closed;
* race for a session: no allocation without an owner; one winner; failover only
  after a failure; a call that waits has something to wait for;
* session: the first cause is what is reported; no nonce twice; whatever ends one
  loop ends all, and takes the stream from the dispatcher;
* credential cache: one fetch per slot; no credential of another link; a rejected
  one is replaced; no group starves another;
* VK client: one window at a time, and its answer goes to the fetch that asked;
  every fetch returns; a refused token is not used again;
* backends: routes and rules installed are those remembered or known to be lost;
  the way past the tunnel stands before the tunnel; a change of the uplink is
  followed; Close comes back.

## 2. Modules

| Module | Models | Builds on |
|---|---|---|
| `ConfigStore` | the two files and their writers | – |
| `Daemon` | loop, Connect, Disconnect, WaitReady, captcha rendezvous, signals | `ConfigStore` |
| `ProxyLife` | StartProxy, StopProxy and their globals | – |
| `TurnLease` | what an attempt for a TURN session promises (abstract) | – |
| `TurnRace` | runWithCreds with its candidates, the worker around it, `allocSemaphore` | instantiates `TurnLease` |
| `Stream` | runSession over three transports, dispatcher, nonces, blackhole watch | – |
| `CredCache` | the worker's loop up to its session, cache slots, `vkSemaphore`, the captcha of a fetch | – |
| `VkClient` | fetchVkCreds: VK Calls, the legacy chain, captchas, success tokens, lockout | – |
| `Proxy` | pkg/proxy without its cache and its sessions: the parts side by side | `ProxyLife`, `TurnRace`, `VkClient` |
| `Backend` | what the backends share: the callers of CheckNetworkChange | – |
| `Socks` | the SOCKS server of OpenWrt | – |
| `Gateway` | the gateway mode of OpenWrt | `Backend` |
| `Keen` | the Keenetic backend over NDM | `Backend` |
| `Backends` | the backend a build and its settings choose | `Socks`, `Gateway`, `Keen` |
| `DaemonProofs`, `ProxyLifeProofs`, `TurnRaceProofs`, `CredCacheProofs`, `StreamProofs` | theorems | the module and TLAPS |
| `VkClientProofs`, `BackendsProofs` | theorems | the module and `QueueFacts` |
| `QueueFacts` | lemmas on queues without duplicates | TLAPS |
| `MCDaemon`, `MCProxy`, `MCCredCache`, `MCBackends`, `MCStream`, `MCVkClient` | roots of the TLC runs | the module |

Where they meet: `Daemon` sees the backend as resources it gains and drops, and
the proxy as `boot` and `procs`; `ProxyLife` opens up the proxy, the backends'
modules open up the resources.  `TurnRace` ends a session in one step, which
`Stream` unfolds; `CredCache` fetches in one step, which `VkClient` unfolds.

Operators whose comment begins with "Mutant" are plausible bugs of the definition
below them; no specification uses them.  Each shows that a property notices that
bug.

### ConfigStore

`config` is what `config.conf` holds: a number (which download or paste it came
from), `Missing` or `Blank` (created, not yet filled).  `token` is what `state.json`
holds: the number of a token, `NoToken`, or `Torn`, emptied or a mix of two texts,
which LoadState takes for no token (`TokenRead`).  Each file operation of SaveConfig
and SaveState is a step, because no lock holds the writers apart: `SaveRename`
(Stat, Rename), `SaveCreate` and `SaveWrite` (the two halves of os.WriteFile),
`SaveFails`; `ImportTruncateState` and `ImportSaveState` for `state.json`, with a
result that may be torn if another writer emptied or filled the file in between
(`FillState`).  A writer whose open file was renamed away by another writer fills the
`.bak` (`here`).  `TriggerReconnect` comes last, as in the code.  `orphan` and
`imported` are history.  Two overlapping writes into `config.conf` count as
the last one; a mix of both texts is modelled for `state.json` only.

### Daemon

`main` is the position of cmdRun inside or outside Connect; a turn of the loop that
reaches NewManager is a *session* and `holds[s]` is what it has installed or
started.  `LoadConfig` and `LoadState` are two steps, as they are two reads.  The
end of a session is `BackendDown`, `Cleanup` and `TunnelStop`, both for a Connect
that did not commit and for Disconnect; `after` is what the loop does then, decided
by the event that was taken *before* Disconnect (main.go:166-171): a SIGTERM that
arrives meanwhile is found by the next wait, after one more Connect.  `SaveState`
follows `Commit` in two steps.  `procs` are the sessions with proxy goroutines left:
a stopped session may still have some while the next one connects, which is where
captchas and their notifications cross over.  `boot[s]` is StartProxy seen from
WaitReady.  `asker`, `answered` and `notify` are `captchaPending`, `captchaAnswerCh`
and `captchaNotifyCh`; `page` is the session whose challenge the LAN page shows.
captchaManualMu admits one asker at a time.  Failures of Prepare, of the proxy, of
the captcha page and of Up are alternatives of the corresponding steps; each goes
through the deferred cleanup.

Down only warns when the router refuses a command, and an Up that fails may have
brought WireGuard up without the backend noting it (the batch of keen/wg.go:135-138
applies `up` before Save fails).  `left` is what stands on the router and no
backend remembers: `MayLeave` is part of `PrepareFails`, `UpFails`, `BackendDown`
and `Cleanup`, and `MayTakeOver` part of the steps that put the same thing up
again.  `Leavable` says which of WireGuard and routes may stay; the run `session`
allows both.

Simplifications: a stop cancels the proxy of its session (`ProxyLife` has the
details, including a StartProxy that registers too late); ActiveTURNAddrs waits for
whoever asks for a captcha at that time; Disconnect gets its Close back (on OpenWrt
with SOCKS it may not, see the run `hang`); session numbers are used again once
nothing of the old session runs.

### ProxyLife

One critical section registers the cancel function (`Register`), a later one the
done channel (`Publish`); StopProxy takes both (`StopSwap`), cancels, waits.
`Launch` is StartBootstrap: its own context (`bootCtx`) is passed to nobody, so it
does not appear.  StartProxy runs in its goroutine beside the host, so it can
register after its own stop and publish after the next proxy has published.
Errors that return -1 without cancel (resolve, listen, certificate) leave the
context alive, as in the code.

### TurnRace and TurnLease

A call is a stream and a generation: the calls of one stream follow each other, but
the candidates of an earlier one may outlive it, so `Gens` bounds how many have
goroutines at a time.  `cand[c][a]` follows dialAndAllocate of server `a`; the
counters `launchedCount` and `errCount` are not copied: `Fanned` and the guard
of `AllFailed` say what their comparison means, and `NeverWaitsForNobody` that it
is the right one.  Errors of dial, client, listen, permission and Allocate are one
`err`; an Allocate whose answer is lost is an error too.  The server list is a
set: a list that names a server twice is not modelled.  The end of a running
session is the single step `SessionEnds`.

`TurnLease` states the promise: try, acquire, serve on one allocation that is
held, end; give up only with nothing in hand or when cancelled; start anew only
when everything is released.  `ImplementsLease` is `Lease!LeaseSpec` under the
mapping `LeasePhase`, `LeaseOpen`, `LeaseOn`.

### Stream

One stream with one session after another.  `kind` is PeerType; `stage` follows
runSession and the run function of the transport: handshake, header burst, the
pause before a WireGuard stream is ready, serving, the return.  `alive` is the set
of loops that run: TX, RX and keepalive for each transport, and over DTLS the two
that carry the pipe's packets to and from the relay.  `sCancelled` is sCtx,
`relay` and `conn` what the loops read and write, `Close` the context.AfterFunc.
reportErr with the deferred sCancel is one step, `Fail`; `Why` says whether a
loop met what has failed or what another has closed.  `Note` is permWatch on
pion's log, `Recycle` the watcher that closes the relay.

A wrapped stream draws SSRC and counter with `Load`, `CasFails` and `ClaimPair`, the
compare-and-swap of wrapTxState.next.  `spent` are the pairs of the SSRCs in use;
that 32 random bits differ from the last SSRC is assumed.

A DTLS handshake that fails returns without waiting for its pipe loops
(turn-client.go:607-609): the one that carries packets to the relay may go on as
`late`, beside the next session, and claim nonces (`LateSends`, `LateEnds`).  At
most one such loop is there at a time; the other one only ends.

Simplifications: the dispatcher is what one stream sees of it (`Dispatch`); time
is left out, so the dead-stream detector may fire at any moment; the ciphers, cover
traffic and packet formats are data; of the two cipher variants only the one
whose counter is the stream's is modelled (the other takes a global one).

### CredCache

The same worker as in `TurnRace`, seen from the other side: `pc[w]` follows
runWorker through `vkSemaphore`, the mutex of its slot, the request to VK,
`captchaManualMu` and the captcha, and through refreshGroupCreds after a session
whose error speaks of the credential.  A semaphore or mutex has no variable of its
own: `InVk` and `Fetching` say who holds it.  A credential is a number that nobody
has when VK issues it (`Unknown`), so that fetches go on without end; `Empty` is a
slot with nothing to offer.  `slot` and the workers of a stopped proxy are still
there when the next one starts.  A session is one step to its end.  When several
servers have failed, runWithCreds returns the error of the last one only
(stream_run_with_creds.go:101,107), so that a rejected credential may end a session
either as `Rejected` or, hidden behind another server's timeout, as `SessionEnds`,
for ever.  The prefetch of StartProxy takes the path of a worker's first round and
is not a process of its own.

Simplifications: the delays before a retry only take time; a read of the slot by
ActiveTURNAddrs is in `Daemon`; an empty server list, which fetchCreds turns into an
error, is a session that ends at once; the network gate is always open in this
daemon (SetNetworkAvailable has no caller).

### VkClient

A fetch is the place of `vkSemaphore` it runs in.  `pc[f]` follows fetchVkCreds
and getTokenChain: `calls`, the gap (`gate`), `token1`, the request for an
anonymous token (`ask`), and in the answer to a captcha the modes `auto` and
`manual`, the queue at captchaManualMu, the `window`, and `solved` before the
token is cached.  `tries`, `slider`, `err10`, `data` and `presented` are the
variables of one getTokenChain: captchaSolveAttempt, sliderEscalationFailed,
retryErr10, the token in the request and whether it was pre-sent.  The sentinel of
the Android host is not modelled: no page of this daemon sends it.

Simplifications: a dialogue over HTTP is a step with its outcomes; the two writes
of the same token to the cache are one; all fetches are for one link (others
share only the mutex, the lockout and the gap); the rotation of the first
credential is left out, since the credentials do not differ in the model.

### Socks

`serve` follows the accept loop from Accept over track to closeWG.Add; `closer` is
Down inside Close.  `phase[c]` is the handler of a connection, `sock` the
connections that the server has not closed, `conns` the map that Close goes through.
A relay may be `blocked`: one copy in a write to the remote, the other in a read
from it (`RemoteStalls`, `RemoteTakes`); then closing its client wakes neither, and
only the remote or the end of the tunnel ends it.  An association has its relay loop
(`loop`, which dials outside the mutex), its sessions (`sess`) and one reader for
each (`out`).  A section under a mutex is one step.

### Gateway

`pc` follows Up from attaching the TUN to the commit, and Down rule by rule.
`rules`, `table`, `tun` and `nat` are the kernel's; `rules` and `nat` survive a
`Crash`.  ruleReplace is two steps with a `gap` between them: `RuleDel`, whose error
the code ignores, and the adding (`MarkRule`, `FromAll`, `FromSubnet`), which fails
when the duplicate still stands.  A rule that cannot be added is an error (mark,
everything) or a warning (one subnet); one that cannot be deleted is forgotten by
the daemon and kept in the ghost `left`.  `Look` and `Announce` are the two halves
of NetworkChanged, between which another caller of it may run.

### Keen

NDM is external: the interface with the default route (`gateway`), connections
with owner and state (`wg`), host routes.  How NDM ranks its interfaces is left open:
`gateway` is any uplink, any WireGuard connection that is global and up, or none.
A section under RouteManager.mu is one step with the set of its RCI calls that
fail.  A call that fails may have been carried out, the answer being lost after
10 seconds (keen/rci.go:83-90): `anyway` are the additions that were.
`WANInterface` and `ChooseWgIface` are sets, as the code takes the first of a Go map.
`Partial` is what a failed batch of `Provision` may leave of a connection; one that
is up without our description is a `"stray"`.  Names of free connections have no
order.  `stuck` collects the routes whose last call failed or that a crash left.

## 3. Runs

| Run | Bounds | Shows |
|---|---|---|
| `reload` | 2 writers, 2 configurations, 1 session at a time | `SavedConfigIsAnnounced`, `ReloadReachesTunnel`: one slot in `reconnect` is enough |
| `session` | 2 sessions, 1 captcha in total, SIGHUP and SIGTERM, WireGuard and routes that may stay | `DaemonTypeOK`, `OneSessionUp`, `TunnelInsideBypass`, `StopEndsDaemon` |
| `proxy` | 2 proxies; 1 stream, 1 call at a time, 4 servers, semaphore of 2; 2 fetches, 2 application credentials, 1 retry of error 10, a token used once | start and stop: `LifeTypeOK`, `EveryProxyCanBeStopped`, `WaitsOnlyForTheCancelled`, `CancelledProxyEnds`; the race: its safety, `ImplementsLease`, `AllReleasedAtLast`, `EveryAttemptEnds`; VK: `VkTypeOK`, `NotDisplaced`, `FetchReturns` |
| `stream` | 3 transports, plain and wrapped, queue of 1, counter modulo 2, 2 SSRCs, 1 late pipe loop | `StreamTypeOK`, `RootCauseReported`, `NonceUnique`, `SessionUnwinds` |
| `cred` | 2 workers of a group and 1 of the next proxy on the same slot with another link, 3 credentials at a time, 2 places | `CredTypeOK`, `FetchOnlyWhenNeeded`, `OwnLinkOnly`, `BadCredentialIsReplaced`, `NobodyStarves`, `CancelledWorkersExit` |
| `backends` | 2 SOCKS clients, 1 UDP target, 2 outgoing connections; 2 subnets, 2 gateways; 2 uplinks, 2 connections, 1 address, 2 stuck routes; 2 checkers | the ten properties of `Socks`, `Gateway` and `Keen` |

The parts of `Proxy` share no state in the model, nor do the three backends: one
behaviour of such a run is one of one part, while the others rest where they start.

Why these bounds are enough: the hazards of the store need a writer that interrupts
another and a configuration before and after; two sessions are the most that a
captcha token or an asker can connect; an older proxy over a newer one needs two; a
race needs a first server, one that wins and two that lose in different ways, and
the semaphore binds when it has fewer places than there are candidates (in the code
3 places for every stream of every group).  That the leftovers of an earlier call of
the same stream do no harm is proved, for any number of calls.  A counter modulo 2
wraps at every second packet; three senders are all there are.  A slot needs two
siblings that can fail on one credential, an heir with another link, and three
credentials: the rejected one in the slot or a session, the one that replaces it and
the heir's; three workers are more than the two places of `vkSemaphore`.  The two
places are all the fetches there are; a token is shared by two of them; two
application credentials have a first and a last.  Two SOCKS clients are one that
Close finds and one that it misses; two outgoing connections to one target are an
old one and a new one.  An uplink to leave and one to go to, the route that stands
by either, a connection to remember and one to confuse it with, and two checkers
that overtake each other are what the properties of the routers speak of.

`MaxVer`, `MaxSess`, `MaxAsks`, `MaxProxy`, `MaxCred`, `MaxStuck` and `Gens` are
bounds of the models; `Handlers`, `Servers`, `AllocCap`, `Workers`, `VkCap`,
`Signals`, `LateCaptcha`, `Leavable`, `Creds`, `Reuse`, `MaxErr10`, `CounterMod` and
`QueueCap` are parameters of the scenario.  `Reuse` is 64 in the code: more uses add
tokens that last longer, and no property speaks of the number.

Deadlock is not an error in any passing run: the daemon stops for good, bounded
proxies come to an end, a cancelled proxy, a cancelled worker or a stopped stream
has nothing left to do, and a closed SOCKS server has none either.  That nobody
waits for ever is stated as liveness instead.

Runs that end in a violation, each on one sentence of the repository:

| Run | Property | What the code does |
|---|---|---|
| `losttoken` | `TokenOfLastImport` | the loop writes a stale copy of `state.json` over a new token, and two writers at once may tear the file |
| `hang` | `CloseGetsThrough` | a connection between Accept and track is missed by Close, which then waits for it as long as its client stays |
| `refused` | `RefusedTokenIsDropped` | a success token that was taken at the mutex or has just been solved stays cached after VK has refused it |
| `nowindow` | `PersonIsAskedBeforeLockout` | after a slider the solver could not do, the lockout comes without a window |
| `loop` | `BypassOutsideTunnel` | a tunnel that is NDM's default connection, or is still up at the next Prepare, is taken for the WAN, and the bypass routes go into it |
| `echo` | `HangUpReported` | when the server ends the DTLS connection, what is reported is the closing of the relay or the pipe and not what closed it |

`hang` is under the fairness of `BackendsSpec`, by which everything the server can
do by itself is done; it only needs a client that keeps its connection.

Other sentences of the repository that the models do not bear out, without a run
of their own:

* stream_run_with_creds.go:203-207: closing the relay unwinds all three transports.
  Over SRTP it does not: the demultiplexer ends without a word, srtpConn stays
  open, and only the dead-stream detector, 90 seconds later, ends the session.
  `SessionUnwinds` holds for SRTP by `DetectorFires` alone.
* keen/wg.go:17-18,23: a connection of the user is not touched.  Provision overwrites
  one that the user has created between the look and the batch.
* owrt/socks.go:506: the end of either side is enough to end a relay.  It is not for
  one whose remote neither takes nor sends data; Close then waits for it too, and
  this is the exception in `ClosedHandlersEnd`.
* core/platform.go:75-77: Down removes everything.  What the router refuses, and a
  WireGuard whose Up failed after the batch, stay (`left` in `Daemon`, `Partial` in
  `Keen`).
* owrt/routing.go:14-15 speaks of the mark rule as what keeps the proxy past the
  tunnel.  Down deletes it first while the proxy still runs, and a rule for the whole
  LAN that an earlier life has left stands before the next Up has added the mark:
  `ProxyOutsideTunnel` names these two windows and says that there is no other.

And behaviour no sentence of the repository speaks of: the notification of a captcha
outlives it, and a page without a challenge is opened and waited on
(`WaitReadyNotified`); a captcha between WaitReady and ActiveTURNAddrs holds the
loop (`HeldByCaptcha`); a StopProxy during the start of the groups has no done
channel to wait for (`StopSwap` before `Publish`); one worker at a captcha and a
sibling that waits for their slot fill `vkSemaphore`; a rejection may be hidden by a
later error, and the rejected credential then stays (`SessionEnds` in `CredCache`);
a routing rule or host route whose removal fails is never tried again; a Provision
that failed half way is not remembered, and the next one may choose another
connection.

## 4. Fairness

Every assumption is a goroutine that the Go runtime runs when it can go on.

* Weak fairness for the loop's own steps (`MainStep`), goroutines of the proxy,
  candidates, reapers, loops of a session, handlers of the SOCKS server and
  the return of a finished or cancelled wait.
* Strong fairness where a select chooses among several ready channels again and
  again (`TakeStop`, `TakeReconnect`): Go picks at random.
* None for people and peers: nobody has to solve a captcha, send a signal or
  use the panel; a session ends for certain only when it is cancelled; a
  prefetch of `ProxyLife` ends for certain only when it is cancelled; SOCKS
  clients and their servers need not hang up, take data or send any.
* Each wait of the code that has a timer ends with it, and the failure is one
  of the alternatives: WaitReady 90 s, start of the first stream 30 s, drain 3 s,
  retransmissions of Allocate, the handshakes of a stream, 30 s for a SOCKS
  request and dial.  The retry timer is the exception with a guard: 15 seconds do
  not beat a message that already waits.
* In `CredCache` a worker's turn at the semaphore or the mutex and the outcome of
  its request are strongly fair (`Turn`, `Outcome`): waiters are served in their
  order, requests time out and captcha attempts are limited.  Nobody need answer
  a captcha, no session need end, and none that ends on a rejected credential need
  say so.  `NobodyStarves` and `CancelledWorkersExit` therefore except a captcha that
  stays for ever before a proxy that has not been stopped (`CaptchaForEver`): outside
  Connect a captcha is shown to nobody (core/manager.go:114-122) and
  captcha_host.go:34-36 waits without a deadline.  `BadCredentialIsReplaced` speaks
  of workers that learn of rejections again and again.
* In `VkClient` the gap passes, and it is drawn anew at every look, so that one
  fetch does not always find the other's; VK does not answer every request with
  another captcha (strong fairness of `Gate` and the other outcomes of `ask`
  together); and a window that stays open is answered.  `FetchReturns` is about the
  chains, tries and queues between two answers; `CredCache` is where nobody answers.
* `DetectorFires` says that over SRTP nothing comes over a closed relay, so that the
  detector of 90 seconds fires; the other transports do without it.
* Poller and hook look again and again (`GatewayFairness`, `KeenFairness`), and the
  steps of Gateway's Down go on; nobody has to follow a gateway that does not stay.

The liveness properties are checked by TLC only; TLAPS has no proof rules for
fairness.

## 5. Proofs

All proofs are by an inductive invariant `IInv`; each step lemma handles one
action and only the conjuncts it can disturb.

* **`DaemonProofs`** (assuming `MaxVer` ∈ Nat, `MaxSess` ≥ 1, `MaxAsks` ∈ Nat,
  `Signals` and `Leavable` among the two kinds of each, `LateCaptcha` a truth
  value): `TypeCorrect`, `ConfigNotForgotten`, `OneSession`, `BypassFirst`.  The
  invariant is the types, `SessionStage`, `OneSessionUp` and
  `SavedConfigIsAnnounced`.  `OneSessionUp` and `TunnelInsideBypass` alone are not
  inductive: Up needs to know that the proxy has reported and the bypass is in place
  when the loop stands at `up`. `SessionStage` says what is up at each stage and
  that WireGuard is up in `commit`, `saveState`, `connected` and `down` only;
  `TunnelInsideBypass` follows from it.  Neither depends on what Down manages to
  remove: `holds` is what the session counts on, and whatever the router keeps is in
  `left`, which becomes the session's own only when its own Bypass or Up puts it up
  again.  `SavedConfigIsAnnounced` is inductive with the types: every write of a
  number into `config` is by a handler that is `Announcing` afterwards or gives up
  (`orphan`), and the loop reads the file after it has emptied the channel.
* **`ProxyLifeProofs`** (assuming `MaxProxy` ∈ Nat): `TypeCorrect` (no nil function
  is called), `NoProxyLost`, `WaitIsForTheDying`.  `Published` adds that every
  number in a global belongs to a registered proxy, and that a done channel
  taken with the cancel function of another proxy is that of a dead one.  That
  last fact follows at `StopSwap` from `EveryProxyCanBeStopped`: registered and not
  current is cancelled.
* **`TurnRaceProofs`** (assuming finite sets of streams, calls and servers, and
  `AllocCap` ≥ 1): `TypeCorrect` with the capacity of the semaphore,
  `NothingLeaks`, `WinnerUnique`, `NoLatencyRace`, `NoLostCall`, `Refinement`.
  `OneCallAtATime` ties the worker to its call; `Settled` relates `once` to the
  winner and says that a call that is over without a reaper has nobody at work.
  The refinement proof shows for each action which step of `TurnLease`
  it is, or that it is a stutter, from the same invariant.
* **`CredCacheProofs`** (assuming a finite set of workers, some link, `MaxCred` ∈
  Nat, `MaxProxy` and `VkCap` ≥ 1): `TypeCorrect` with the capacity of
  `vkSemaphore`, `SingleFlight`, `CredentialOfOwnLink`.  `FetchOnlyWhenNeeded` is
  inductive, since nobody but the holder of the mutex can make its slot valid.
  `OwnLinkOnly` needs `InOneSlot`: no credential is in two slots, which an issued
  one, that nobody has, cannot break.  `Walk` does the eleven steps that only move a
  worker, `Beside` the steps of host, clock and servers.
* **`StreamProofs`** (assuming transports among the three, `QueueCap` and
  `CounterMod` ≥ 1, at least two SSRCs, and that nil is no error):
  `StreamTypeCorrect`, `CauseReported`, `PairsAreUnique`.  `RootCauseReported` says
  something only at the return, so the invariant follows the session: `LoopsOfStage`
  says which loops a stage can have, `AtRest` that nothing is reported between
  sessions, and `Blamed` why it is being closed: over every transport, whatever is
  cancelled or closed was so after a first report, the stop, a blackhole or, over
  DTLS, the server's end of the connection. `NonceUnique` needs `Below`: every pair
  claimed under the present SSRC is below the counter, so that the word a
  compare-and-swap replaces is not yet spent. What a sender has loaded needs no
  invariant, since the swap compares it.
* **`VkClientProofs`** (assuming `Creds` and `Reuse` ≥ 1, `MaxErr10` ∈ Nat and some
  token): `VkTypeCorrect`, `NoWindowDisplaced`, `ChainHoldsCredential`.
  `NotDisplaced` follows from `HolderAsks`: the queue of `captchaManualMu` has
  nobody twice, and who stands at the window is its head and the asker.  Nobody
  twice is what the unlocking needs: the next in line is not the one that has
  left.  The credentials, tokens and attempts of the chains and the mutex are two
  invariants of their own (`ChainInv`, `LockInv`), each proved step by step.
* **`BackendsProofs`** (assuming `MaxOut` ≥ 1, some UDP target, `Mark` and `NoLan`
  no subnets, and the constants of `Keen` of their types; clients, subnets and
  addresses may be infinitely many): `BackendsTypeCorrect`, `CloseMissesOne`,
  `NoOutLeaks`, `ProxyStaysOutside`, `RulesAccounted`, `RoutesAccounted`,
  `OneConnection`.
  - `Socks`: the type invariant itself is not plain, since `closeWG` is the number
    of handlers that run, blocked relays among them; with `ServeHolds` it is
    inductive, by one cardinality lemma for the start and one for the end of a
    handler.  `CloseMissesAtMostOne` needs `CloseFinds`: before Close, whatever is
    open is in `conns` or held by Serve.  `SessionsMatch` makes the sessions of an
    association and its outgoing connections correspond in both directions.
  - `Gateway`: `RulesTracked` strengthens `NoRuleForgotten` to every stage of Up and
    Down: a rule of the kernel is either given up or in the list that Teardown goes
    through, in no case both and in no case twice.  `MarkFirst` says that the mark
    rule stands from the step that added it to the beginning of Down, and that the
    table has no route before its stage; `TunnelFirst` gives the route its device.
    `ProxyOutsideTunnel` follows: what stands before the mark is a rule for the
    whole LAN that was left.
  - `Keen`: `RoutesAccountedFor` is inductive with the types, as every section under
    RouteManager.mu changes the router and the memory together, whichever of its
    calls fail: what a failed call may have left or put goes to `stuck` in the same
    step.  `NoSecondConnection` needs `SessionKeeps`: the choice made before
    the batch is the remembered connection as long as that is ours, although the
    user may act in between.
* **`QueueFacts`**: what joining the back and leaving the front do to membership,
  to the head and to having nobody twice; cited for the mutex and for the rules.

Only model-checked: the liveness properties (`ReloadReachesTunnel`, `StopEndsDaemon`,
`CancelledProxyEnds`, `AllReleasedAtLast`, `EveryAttemptEnds`, `SessionUnwinds`,
`BadCredentialIsReplaced`, `NobodyStarves`, `CancelledWorkersExit`, `FetchReturns`
and those of the backends), because TLAPS has no rules for fairness and ENABLED,
and the violations, which are counterexamples.

## 6. Not modelled, and why

* Ciphers, packet formats, cover traffic, the records of the SRTP and DTLS
  handshakes, the forms and pages of VK, the image matching of the slider:
  computation on data that no property here tells apart.
* The DNS resolver: sequential within a call; what it returns is data of the
  network, and its failure is the failure of the fetch or dial that asked.
  That an answer under way is cached after NotifyNetworkChange has emptied the
  cache (dns.go:129) is noted as a hazard.
* The network gate: always open in this daemon.
* The clock: keepalive phases, the watchdog's counters and the throttle's seconds
  are "may happen now" in the models; what a clock that is set back does to them is
  not covered.
* Statistics, logging, settings, UCI, the panel's pages, the framing of the
  control socket, sockets' options, installation scripts: I/O.
* A crash of the whole machine: which file or route survives is the router's.

What could come next: the composition of `Daemon` with a backend
in place of its resources; the division of streams into groups, slots and
keepalive phases as operators with a reference definition.
