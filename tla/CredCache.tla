------------------------------ MODULE CredCache ------------------------------
(***************************************************************************)
(* The credentials of the workers: the loop of runWorker up to its session *)
(* (pkg/proxy/worker_group.go), the cache slot its group shares with       *)
(* nobody else (getCredsCached, refreshGroupCreds and invalidateGroupCreds *)
(* in pkg/proxy/credentials.go), and the captcha a fetch may have to wait  *)
(* for (requestCaptchaSerialized in pkg/proxy/vk.go).                      *)
(*                                                                         *)
(* The slots and vkSemaphore survive the proxy.  Workers of a stopped      *)
(* proxy may still be on their way when those of the next one start, with  *)
(* another link for the same slot.  The prefetch of StartProxy goes the    *)
(* same way as the first round of a worker and is taken for one.           *)
(***************************************************************************)
EXTENDS Naturals, FiniteSets

CONSTANTS
  Workers,
  Slots,      \* cache slots, one for each group
  Links,      \* VK links
  slotOf,     \* [Workers -> Slots]
  linkOf,     \* [Workers -> Links]
  proxyOf,    \* [Workers -> 1..MaxProxy], which StartProxy it belongs to
  MaxProxy,   \* bound: proxies started
  MaxCred,    \* bound: credentials in slots and sessions at a time
  VkCap       \* capacity of vkSemaphore

ASSUME WorkersAssumption == IsFiniteSet(Workers)
ASSUME BoundsAssumption ==
  MaxProxy \in Nat \ {0} /\ MaxCred \in Nat /\ VkCap \in Nat \ {0}
ASSUME PlacesAssumption ==
  /\ Links # {}
  /\ slotOf \in [Workers -> Slots]
  /\ linkOf \in [Workers -> Links]
  /\ proxyOf \in [Workers -> 1..MaxProxy]

VARIABLES
  now,     \* the proxy started last
  stopped, \* and whether it has been stopped
  pc,      \* [Workers -> where the worker stands]
  used,    \* [Workers -> the credential of its session, 0 outside]
  slot,    \* [Slots -> its credential, the link it is for, is it in its TTL]
  recent,  \* slots refreshed less than credRefreshThrottle ago
  bad      \* credentials the TURN servers reject by now

proxyVars == <<now, stopped>>
vars == <<proxyVars, pc, used, slot, recent, bad>>

Creds == 0..MaxCred

(* runWorker outside vkSemaphore; inside it before the mutex of the slot,  *)
(* in the request, before captchaManualMu, in front of a captcha; in       *)
(* runWithCreds; in refreshGroupCreds before and after the throttle.       *)
Places == {"idle", "lock", "fetch", "queue", "captcha", "use", "refresh",
           "expire", "exited"}

(* A fetch, which holds the mutex of the slot to its end.                  *)
AtVk == {"fetch", "queue", "captcha"}

CredTypeBase ==
  /\ now \in 1..MaxProxy
  /\ stopped \in BOOLEAN
  /\ pc \in [Workers -> Places]
  /\ used \in [Workers -> Creds]
  /\ slot \in [Slots -> [no : Creds, link : Links, fresh : BOOLEAN]]
  /\ recent \in SUBSET Slots
  /\ bad \in SUBSET Creds

(* A slot with nothing to offer.  Its credential and link stay in memory   *)
(* when only the expiry is reset, and nobody looks at them before the next *)
(* fetch puts others in their place.                                       *)
Empty == [no |-> 0, link |-> CHOOSE l \in Links : TRUE, fresh |-> FALSE]

(* The workers that have a place in vkSemaphore.                           *)
InVk == {w \in Workers : pc[w] \in AtVk \cup {"lock"}}

CredTypeOK == CredTypeBase /\ Cardinality(InVk) \in 0..VkCap

Init ==
  /\ now = 1
  /\ stopped = FALSE
  /\ pc = [w \in Workers |-> "idle"]
  /\ used = [w \in Workers |-> 0]
  /\ slot = [s \in Slots |-> Empty]
  /\ recent = {}
  /\ bad = {}

(* The context of a worker: its proxy has been stopped.                    *)
Cancelled(w) == proxyOf[w] < now \/ (proxyOf[w] = now /\ stopped)

(* Who holds the mutex of a slot.                                          *)
Fetching(s) == {w \in Workers : slotOf[w] = s /\ pc[w] \in AtVk}

Goto(w, to) == pc' = [pc EXCEPT ![w] = to]

(* After a fetch and after a session the worker looks at its context.      *)
Again(w) == Goto(w, IF Cancelled(w) THEN "exited" ELSE "idle")

-----------------------------------------------------------------------------
StopProxy ==
  /\ ~stopped
  /\ stopped' = TRUE
  /\ UNCHANGED <<now, pc, used, slot, recent, bad>>

(* The daemon stops one proxy before it starts another.                    *)
StartProxy ==
  /\ stopped
  /\ now < MaxProxy
  /\ now' = now + 1
  /\ stopped' = FALSE
  /\ UNCHANGED <<pc, used, slot, recent, bad>>

(* Mutant: a place is taken without a look at the capacity.                *)
EnterFreely(w) ==
  /\ pc[w] = "idle"
  /\ proxyOf[w] <= now
  /\ Goto(w, "lock")
  /\ UNCHANGED <<proxyVars, used, slot, recent, bad>>

(* The select on vkSemaphore and the context takes either if both are      *)
(* ready.                                                                  *)
Enter(w) ==
  /\ pc[w] = "idle"
  /\ proxyOf[w] <= now
  /\ Cardinality(InVk) < VkCap
  /\ Goto(w, "lock")
  /\ UNCHANGED <<proxyVars, used, slot, recent, bad>>

Exit(w) ==
  /\ pc[w] = "idle"
  /\ Cancelled(w)
  /\ Goto(w, "exited")
  /\ UNCHANGED <<proxyVars, used, slot, recent, bad>>

(* Mutant: the link of the credential is not compared.                     *)
ValidOfAnyLink(w) == slot[slotOf[w]].fresh

(* getCredsCached under the mutex of the slot.                             *)
Valid(w) == slot[slotOf[w]].fresh /\ slot[slotOf[w]].link = linkOf[w]

Hit(w) ==
  /\ pc[w] = "lock"
  /\ Fetching(slotOf[w]) = {}
  /\ Valid(w)
  /\ Goto(w, "use")
  /\ used' = [used EXCEPT ![w] = slot[slotOf[w]].no]
  /\ UNCHANGED <<proxyVars, slot, recent, bad>>

(* Mutant: the slot is looked at before its mutex is taken.                *)
MissEarly(w) ==
  /\ pc[w] = "lock"
  /\ ~Valid(w)
  /\ ~Cancelled(w)
  /\ Goto(w, "fetch")
  /\ UNCHANGED <<proxyVars, used, slot, recent, bad>>

Miss(w) ==
  /\ pc[w] = "lock"
  /\ Fetching(slotOf[w]) = {}
  /\ ~Valid(w)
  /\ ~Cancelled(w)
  /\ Goto(w, "fetch")
  /\ UNCHANGED <<proxyVars, used, slot, recent, bad>>

MissCancelled(w) ==
  /\ pc[w] = "lock"
  /\ Fetching(slotOf[w]) = {}
  /\ ~Valid(w)
  /\ Cancelled(w)
  /\ Goto(w, "exited")
  /\ UNCHANGED <<proxyVars, used, slot, recent, bad>>

(* VK asks for a captcha.  captchaManualMu lets one fetch at a time ask    *)
(* the host, and whoever gets it may find a token that is still good.      *)
NeedCaptcha(w) ==
  /\ pc[w] = "fetch"
  /\ Goto(w, "queue")
  /\ UNCHANGED <<proxyVars, used, slot, recent, bad>>

AskCaptcha(w) ==
  /\ pc[w] = "queue"
  /\ \A v \in Workers : pc[v] # "captcha"
  /\ \E to \in {"captcha", "fetch"} : Goto(w, to)
  /\ UNCHANGED <<proxyVars, used, slot, recent, bad>>

Solve(w) ==
  /\ pc[w] = "captcha"
  /\ Goto(w, "fetch")
  /\ UNCHANGED <<proxyVars, used, slot, recent, bad>>

(* Credentials that are in a slot or a session, and the others.            *)
Known == {used[w] : w \in Workers} \cup {slot[s].no : s \in Slots}
Unknown == Creds \ (Known \cup {0})

(* VK issues a credential that nobody has: the first of these numbers.     *)
FetchOk(w) ==
  /\ pc[w] = "fetch"
  /\ \E c \in Unknown :
       /\ \A d \in Unknown : c <= d
       /\ slot' = [slot EXCEPT ![slotOf[w]] =
                     [no |-> c, link |-> linkOf[w], fresh |-> TRUE]]
       /\ used' = [used EXCEPT ![w] = c]
       /\ bad' = bad \ {c}
  /\ Goto(w, "use")
  /\ UNCHANGED <<proxyVars, recent>>

(* Mutant: the wait for a captcha does not look at the context.            *)
FetchFailsAnswered(w) ==
  /\ pc[w] = "fetch"
  /\ Again(w)
  /\ UNCHANGED <<proxyVars, used, slot, recent, bad>>

(* An error of the fetch, or the end of its context.  The mutex and the    *)
(* place in vkSemaphore are given back either way.                         *)
FetchFails(w) ==
  /\ pc[w] = "fetch" \/ (pc[w] = "captcha" /\ Cancelled(w))
  /\ Again(w)
  /\ UNCHANGED <<proxyVars, used, slot, recent, bad>>

-----------------------------------------------------------------------------
(* runWithCreds returns.  Only an error that speaks of the credential      *)
(* leads to refreshGroupCreds, and when several servers have failed only   *)
(* the error of the last is returned: it may hide that another has rejected*)
(* the credential, which then looks like any other end of a session.       *)
SessionEnds(w) ==
  /\ pc[w] = "use"
  /\ used' = [used EXCEPT ![w] = 0]
  /\ Again(w)
  /\ UNCHANGED <<proxyVars, slot, recent, bad>>

Rejected(w) ==
  /\ pc[w] = "use"
  /\ used[w] \in bad
  /\ used' = [used EXCEPT ![w] = 0]
  /\ Goto(w, IF Cancelled(w) THEN "exited" ELSE "refresh")
  /\ UNCHANGED <<proxyVars, slot, recent, bad>>

(* The throttle, under refreshMu.                                          *)
RefreshSkipped(w) ==
  /\ pc[w] = "refresh"
  /\ slotOf[w] \in recent
  /\ Goto(w, "idle")
  /\ UNCHANGED <<proxyVars, used, slot, recent, bad>>

(* Mutant: the slot is not expired.                                        *)
RefreshOnly(w) ==
  /\ pc[w] = "refresh"
  /\ slotOf[w] \notin recent
  /\ Goto(w, "idle")
  /\ recent' = recent \cup {slotOf[w]}
  /\ UNCHANGED <<proxyVars, used, slot, bad>>

Refresh(w) ==
  /\ pc[w] = "refresh"
  /\ slotOf[w] \notin recent
  /\ recent' = recent \cup {slotOf[w]}
  /\ Goto(w, "expire")
  /\ UNCHANGED <<proxyVars, used, slot, bad>>

(* invalidateGroupCreds: whatever credential the slot holds by then.       *)
Expire(w) ==
  /\ pc[w] = "expire"
  /\ Fetching(slotOf[w]) = {}
  /\ slot' = [slot EXCEPT ![slotOf[w]] = Empty]
  /\ Goto(w, "idle")
  /\ UNCHANGED <<proxyVars, used, recent, bad>>

(* Time: the TTL of a credential, and the throttle.                        *)
Age(s) ==
  /\ slot[s].fresh
  /\ slot' = [slot EXCEPT ![s] = Empty]
  /\ UNCHANGED <<proxyVars, pc, used, recent, bad>>

ThrottlePasses(s) ==
  /\ s \in recent
  /\ recent' = recent \ {s}
  /\ UNCHANGED <<proxyVars, pc, used, slot, bad>>

(* A TURN server rejects a credential from now on: its quota is full, or   *)
(* it has lapsed.  (One that nobody has any more makes no difference.)     *)
Spoil(c) ==
  /\ c \in Known \ {0}
  /\ bad' = bad \cup {c}
  /\ UNCHANGED <<proxyVars, pc, used, slot, recent>>

Locked(w) == Hit(w) \/ Miss(w) \/ MissCancelled(w)

WorkerStep(w) ==
  \/ Exit(w) \/ Locked(w) \/ NeedCaptcha(w) \/ AskCaptcha(w) \/ FetchOk(w) \/ FetchFails(w)
  \/ SessionEnds(w) \/ Rejected(w) \/ RefreshSkipped(w) \/ Refresh(w)
  \/ Expire(w)

Next ==
  \/ StopProxy \/ StartProxy
  \/ \E w \in Workers : WorkerStep(w) \/ Enter(w) \/ Solve(w)
  \/ \E s \in Slots : Age(s) \/ ThrottlePasses(s)
  \/ \E c \in Creds : Spoil(c)

Spec == Init /\ [][Next]_vars

(* What a worker does as soon as it is its turn.                           *)
Turn(w) ==
  \/ Enter(w) \/ Exit(w) \/ Locked(w) \/ AskCaptcha(w) \/ RefreshSkipped(w)
  \/ Refresh(w) \/ Expire(w) \/ (Cancelled(w) /\ SessionEnds(w))

(* The end of a request.                                                   *)
Outcome(w) == FetchOk(w) \/ FetchFails(w)

(* Senders on a full channel and callers of a locked mutex are served in   *)
(* their order (SF).  The HTTP requests of a fetch have timeouts and it    *)
(* asks for a limited number of captchas, so it ends unless one of them    *)
(* holds it for good: nobody need answer a captcha.  No session need end,  *)
(* and none on a rejected credential need say so.                          *)
Fairness ==
  /\ \A w \in Workers : SF_vars(Turn(w)) /\ SF_vars(Outcome(w))
  /\ \A s \in Slots : WF_vars(ThrottlePasses(s))

FairSpec == Spec /\ Fairness

-----------------------------------------------------------------------------
(* VK is asked only for a slot that has nothing to offer: the workers that *)
(* wait for the mutex look again when they get it.  (A slot that holds     *)
(* another link's credential has nothing to offer.)  This is what keeps    *)
(* the workers of a group from stampeding VK.                              *)
FetchOnlyWhenNeeded ==
  \A w \in Workers : pc[w] \in AtVk =>
    /\ Fetching(slotOf[w]) = {w}
    /\ ~Valid(w)

(* A worker never runs on a credential of another link or another group: a *)
(* slot outlives the proxy, and a fetch of the old proxy may end after the *)
(* new one has begun.                                                      *)
OwnLinkOnly ==
  \A w \in Workers : used[w] # 0 =>
    /\ \A s \in Slots :
         slot[s].no = used[w] => s = slotOf[w] /\ slot[s].link = linkOf[w]
    /\ \A v \in Workers :
         used[v] = used[w] => slotOf[v] = slotOf[w] /\ linkOf[v] = linkOf[w]

(* A worker that learns of rejections again and again gets the rejected    *)
(* credential out of its slot, whatever the throttle skips and whoever     *)
(* refreshes beside it.  (It may never learn of one: see Rejected.)        *)
BadCredentialIsReplaced ==
  \A w \in Workers :
    []<>(pc[w] = "refresh") =>
      []<>(~slot[slotOf[w]].fresh \/ slot[slotOf[w]].no \notin bad)

(* Somebody waits for ever for a person to solve the captcha of a proxy    *)
(* that has not been stopped.                                              *)
CaptchaForEver == \E v \in Workers : <>[](pc[v] = "captcha" /\ ~Cancelled(v))

(* Nothing else can keep a worker from its turn.                           *)
NobodyStarves ==
  \A w \in Workers :
    <>[](pc[w] = "idle" /\ proxyOf[w] <= now) => CaptchaForEver

(* The workers of a stopped proxy end, also those that wait for a captcha  *)
(* nobody solves: only the captcha of a later proxy, for the same slot,    *)
(* can hold them.                                                          *)
CancelledWorkersExit ==
  \A w \in Workers :
    <>[](Cancelled(w) => pc[w] = "exited") \/ CaptchaForEver
==============================================================================
