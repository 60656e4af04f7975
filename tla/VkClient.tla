------------------------------- MODULE VkClient -------------------------------
(***************************************************************************)
(* fetchVkCreds (pkg/proxy/vk.go): the captcha-free flow of VK Calls, and  *)
(* behind it the chain of getTokenChain for one application credential     *)
(* after the other, with its captchas: the automatic solver, the window for*)
(* a person that captchaManualMu admits one at a time, the success tokens  *)
(* that the groups of a link share, and the lockout after captchas that    *)
(* nobody could solve.                                                     *)
(*                                                                         *)
(* vkSemaphore has two places, so a fetch is the place it runs in.  All    *)
(* are for one link: others have a token cache of their own.  A dialogue   *)
(* over HTTP is a step with its outcomes; VK, the solver's luck and the    *)
(* person are external.                                                    *)
(***************************************************************************)
EXTENDS Naturals, Sequences, FiniteSets

CONSTANTS
  Fetches,    \* places of vkSemaphore
  Creds,      \* length of vkCredentialsList
  Reuse,      \* captchaTokenReuse
  MaxErr10,   \* retries after error 10
  Tokens,     \* success tokens VK may give
  Nobody      \* no fetch, no token

ASSUME VkAssumption ==
  /\ Creds \in Nat \ {0} /\ Reuse \in Nat \ {0} /\ MaxErr10 \in Nat
  /\ Tokens # {}
  /\ Nobody \notin Fetches \cup Tokens

VARIABLES
  running,   \* a proxy runs: StartProxy has been called and not StopProxy
  live,      \* fetches whose proxy runs
  pc,        \* where a fetch is
  creds,     \* credentials it has left, the current one included
  tries,     \* captchaSolveAttempt
  slider,    \* sliderEscalationFailed
  err10,     \* retryErr10
  data,      \* the token in the request
  presented, \* cachedSuccessToken is set
  cache,     \* captchaTokenEntry.token
  uses,      \* captchaTokenEntry.uses
  queue,     \* captchaManualMu: the holder, then who waits
  asker,     \* captchaAnswerCh: whose request it belongs to
  lockout,   \* globalCaptchaLockout lies ahead
  cooling    \* the gap after globalLastVkFetchTime has not passed

chain == <<creds, tries, slider, err10, data, presented>>
tokens == <<cache, uses>>
manual == <<queue, asker>>
vkVars == <<running, live, pc, chain, tokens, manual, lockout, cooling>>

Solving == {"auto", "manual", "queue", "window", "solved"}
Places == {"idle", "calls", "gate", "token1", "ask"}
          \cup Solving
InQueue(f) == \E i \in DOMAIN queue : queue[i] = f

VkTypeOK ==
  /\ running \in BOOLEAN /\ lockout \in BOOLEAN /\ cooling \in BOOLEAN
  /\ live \subseteq Fetches
  /\ pc \in [Fetches -> Places] /\ creds \in [Fetches -> 0..Creds]
  /\ tries \in [Fetches -> 0..1] /\ err10 \in [Fetches -> 0..MaxErr10]
  /\ slider \in [Fetches -> BOOLEAN] /\ presented \in [Fetches -> BOOLEAN]
  /\ data \in [Fetches -> Tokens \cup {Nobody}]
  /\ cache \in Tokens \cup {Nobody} /\ uses \in 0..Reuse
  /\ queue \in Seq(Fetches) /\ asker \in Fetches \cup {Nobody}
  /\ \A f \in Fetches : InQueue(f) <=> pc[f] \in {"queue", "window"}

VkInit ==
  /\ running = FALSE /\ live = {} /\ pc = [f \in Fetches |-> "idle"]
  /\ creds = [f \in Fetches |-> 0] /\ tries = [f \in Fetches |-> 0]
  /\ slider = [f \in Fetches |-> FALSE] /\ err10 = [f \in Fetches |-> 0]
  /\ data = [f \in Fetches |-> Nobody] /\ presented = [f \in Fetches |-> FALSE]
  /\ cache = Nobody /\ uses = 0
  /\ queue = <<>> /\ asker = Nobody /\ lockout = FALSE /\ cooling = FALSE

GoesTo(f, p) == pc' = [pc EXCEPT ![f] = p]
World == <<running, live>>

-----------------------------------------------------------------------------
(* The proxy and the clock.                                                *)

StartProxy ==
  /\ ~running
  /\ running' = TRUE /\ lockout' = FALSE
  /\ UNCHANGED <<live, pc, chain, tokens, manual, cooling>>

StopProxy ==
  /\ running
  /\ running' = FALSE /\ live' = {}
  /\ UNCHANGED <<pc, chain, tokens, manual, lockout, cooling>>

LockoutPasses ==
  /\ lockout
  /\ lockout' = FALSE
  /\ UNCHANGED <<World, pc, chain, tokens, manual, cooling>>

GapPasses ==
  /\ cooling
  /\ cooling' = FALSE
  /\ UNCHANGED <<World, pc, chain, tokens, manual, lockout>>

-----------------------------------------------------------------------------
(* fetchVkCreds.                                                           *)

\* A worker or a prefetch of the running proxy takes the place.
Fetch(f) ==
  /\ pc[f] = "idle" /\ running
  /\ GoesTo(f, "calls") /\ live' = live \cup {f}
  /\ UNCHANGED <<running, chain, tokens, manual, lockout, cooling>>

Leave(f) ==
  /\ GoesTo(f, "idle") /\ live' = live \ {f}
  /\ creds' = [creds EXCEPT ![f] = 0]

\* What a getTokenChain has of its own is gone when it returns.
ChainOver(f) ==
  /\ tries' = [tries EXCEPT ![f] = 0]
  /\ slider' = [slider EXCEPT ![f] = FALSE]
  /\ err10' = [err10 EXCEPT ![f] = 0]
  /\ data' = [data EXCEPT ![f] = Nobody]
  /\ presented' = [presented EXCEPT ![f] = FALSE]
  /\ cooling' = TRUE

\* The five steps of VK Calls.  A call that is gone is known by steps 2 and 3
\* only; every other failure, of the OK servers too, leads to the old chain,
\* unless captchas have locked it.
CallsOk(f) == f \in live /\ Leave(f)
CallsUnavailable(f) == f \in live /\ Leave(f)
CallsFail(f) ==
  \/ lockout /\ Leave(f)
  \/ /\ ~lockout /\ GoesTo(f, "gate")
     /\ creds' = [creds EXCEPT ![f] = Creds]
     /\ UNCHANGED live
CallsFlow(f) ==
  /\ pc[f] = "calls"
  /\ CallsOk(f) \/ CallsUnavailable(f) \/ CallsFail(f)
  /\ UNCHANGED <<running, tries, slider, err10, data, presented, tokens, manual, lockout, cooling>>

\* The gap to the end of the last chain.  Only the wait for it sees that the
\* proxy has been stopped.
Gate(f) ==
  /\ pc[f] = "gate"
  /\ \/ ~cooling /\ GoesTo(f, "token1") /\ UNCHANGED <<live, creds>>
     \/ cooling /\ f \notin live /\ Leave(f)
  /\ UNCHANGED <<running, tries, slider, err10, data, presented, tokens, manual, lockout, cooling>>

\* A chain that has failed leaves the rest to the next credential, also with
\* CALL_REQUIRES_AUTH, with CAPTCHA_WAIT_REQUIRED and when it was cancelled.
ChainFails(f) ==
  /\ ChainOver(f)
  /\ \/ /\ creds[f] > 1 /\ GoesTo(f, "gate")
        /\ creds' = [creds EXCEPT ![f] = @ - 1]
        /\ UNCHANGED live
     \/ creds[f] = 1 /\ Leave(f)

-----------------------------------------------------------------------------
(* Success tokens.                                                         *)

\* Mutant: the uses are not looked at.
CachedAlways == cache # Nobody
Cached == cache # Nobody /\ uses > 0
\* popCaptchaToken, when it has one.
Pop == uses' = uses - 1 /\ UNCHANGED cache
Push(t) == cache' = t /\ uses' = Reuse
Invalidate == cache' = Nobody /\ uses' = 0

\* VK's next token: the name of one that nobody has any more, if there is one.
NewToken(f) ==
  LET free == {t \in Tokens : t # cache /\ \A g \in Fetches \ {f} : data[g] # t}
  IN  CHOOSE t \in Tokens : t \in free \/ free = {}
GetsToken(f) == data' = [data EXCEPT ![f] = NewToken(f)]

-----------------------------------------------------------------------------
(* getTokenChain.  A request of a cancelled fetch fails.                   *)

\* get_anonym_token, then the cached success token goes into the request.
Token1(f) ==
  /\ pc[f] = "token1"
  /\ \/ ChainFails(f) /\ UNCHANGED tokens
     \/ /\ f \in live /\ GoesTo(f, "ask")
        /\ \/ /\ Cached /\ Pop
              /\ data' = [data EXCEPT ![f] = cache]
              /\ presented' = [presented EXCEPT ![f] = TRUE]
           \/ ~Cached /\ UNCHANGED <<data, presented, tokens>>
        /\ UNCHANGED <<live, creds, tries, slider, err10, cooling>>
  /\ UNCHANGED <<running, manual, lockout>>

\* getAnonymousToken gives token 2, and tokens 3 and 4 and turn_server follow;
\* or an error ends the chain, and the fetch if it says the call is gone.
AskEnds(f) ==
  /\ pc[f] = "ask"
  /\ ChainFails(f) \/ (f \in live /\ ChainOver(f) /\ Leave(f))
  /\ UNCHANGED <<running, tokens, manual, lockout>>

\* Mutant: retryErr10 is not counted.
CountErr10Not(f) == UNCHANGED err10
CountErr10(f) == err10' = [err10 EXCEPT ![f] = @ + 1]

\* Error 10 is retried without the token, after a wait, with token 1 refreshed
\* if it can be.
AskError10(f) ==
  /\ pc[f] = "ask" /\ f \in live /\ err10[f] < MaxErr10
  /\ CountErr10(f) /\ data' = [data EXCEPT ![f] = Nobody]
  /\ UNCHANGED <<World, pc, creds, tries, slider, presented, tokens, manual, lockout, cooling>>

\* Error 14.  A token from the cache that was presented is taken out of it.
\* The first attempt is the solver's and the second the window's, unless the
\* solver has failed at a slider: then no mode is left.
Challenge(f) ==
  /\ pc[f] = "ask" /\ f \in live
  /\ IF presented[f] THEN Invalidate ELSE UNCHANGED <<cache, uses>>
  /\ \/ /\ tries[f] = 1 /\ slider[f]
        /\ lockout' = TRUE /\ ChainFails(f)
     \/ /\ ~(tries[f] = 1 /\ slider[f])
        /\ GoesTo(f, IF tries[f] = 0 THEN "auto" ELSE "manual")
        /\ data' = [data EXCEPT ![f] = IF presented[f] THEN Nobody ELSE @]
        /\ presented' = [presented EXCEPT ![f] = FALSE]
        /\ UNCHANGED <<live, creds, tries, slider, err10, lockout, cooling>>
  /\ UNCHANGED <<running, manual>>

\* solveVkCaptcha, and again with the slider solver if it has met a slider.
AutoSolves(f) ==
  /\ pc[f] = "auto" /\ f \in live
  /\ GoesTo(f, "solved")
  /\ GetsToken(f)
  /\ UNCHANGED <<World, creds, tries, slider, err10, presented, cache, uses, manual, lockout, cooling>>

\* The captcha is a slider, and the slider solver fails too: no candidate among
\* VK's attempts fits, or VK has throttled the session.
SliderFails(f) == slider' = [slider EXCEPT ![f] = TRUE]

AutoFails(f) ==
  /\ pc[f] = "auto"
  /\ GoesTo(f, "ask") /\ tries' = [tries EXCEPT ![f] = 1]
  /\ SliderFails(f) \/ UNCHANGED slider
  /\ UNCHANGED <<World, creds, err10, data, presented, tokens, manual, lockout, cooling>>

\* The token goes into the request and into the cache.
Solved(f) ==
  /\ pc[f] = "solved"
  /\ GoesTo(f, "ask") /\ tries' = [tries EXCEPT ![f] = 0]
  /\ Push(data[f])
  /\ UNCHANGED <<World, creds, slider, err10, data, presented, manual, lockout, cooling>>

-----------------------------------------------------------------------------
(* requestCaptchaSerialized and RequestCaptcha.                            *)

TakeCached(f) ==
  /\ Cached /\ Pop
  /\ GoesTo(f, "solved") /\ data' = [data EXCEPT ![f] = cache]

\* A token that another fetch has solved, or the mutex.
Manual(f) ==
  /\ pc[f] = "manual"
  /\ \/ TakeCached(f) /\ UNCHANGED queue
     \/ /\ ~Cached /\ GoesTo(f, "queue") /\ queue' = Append(queue, f)
        /\ UNCHANGED <<data, tokens>>
  /\ UNCHANGED <<World, creds, tries, slider, err10, presented, asker, lockout, cooling>>

\* Mutant: the mutex is not taken.
UnlockedFor(f) == TRUE
\* sync.Mutex goes to whoever has waited longest, once it has waited 1 ms.
HasLock(f) == Head(queue) = f
\* Who unlocks is its holder, the head.
Unlock == queue' = Tail(queue)

\* Behind the mutex it looks again, and asks the host.
OpenWindow(f) ==
  /\ pc[f] = "queue" /\ HasLock(f)
  /\ \/ TakeCached(f) /\ Unlock /\ UNCHANGED asker
     \/ /\ ~Cached /\ GoesTo(f, "window") /\ asker' = f
        /\ UNCHANGED <<queue, data, tokens>>
  /\ UNCHANGED <<World, creds, tries, slider, err10, presented, lockout, cooling>>

Answer(f) ==
  /\ pc[f] = "window" /\ asker = f
  /\ GoesTo(f, "solved") /\ Unlock /\ asker' = Nobody
  /\ GetsToken(f)
  /\ UNCHANGED <<World, creds, tries, slider, err10, presented, cache, uses, lockout, cooling>>

\* The proxy was stopped, or a later request has taken the channel: an empty
\* token, the last mode has failed.
WindowCloses(f) ==
  /\ pc[f] = "window" /\ (f \notin live \/ asker # f)
  /\ Unlock /\ asker' = (IF asker = f THEN Nobody ELSE asker)
  /\ lockout' = TRUE /\ ChainFails(f)
  /\ UNCHANGED <<running, tokens>>

-----------------------------------------------------------------------------

FetchStep(f) ==
  \/ CallsFlow(f) \/ Gate(f) \/ Token1(f)
  \/ AskEnds(f) \/ AskError10(f) \/ Challenge(f)
  \/ AutoFails(f) \/ AutoSolves(f) \/ Solved(f)
  \/ Manual(f) \/ OpenWindow(f) \/ WindowCloses(f)

VkNext ==
  \/ StartProxy \/ StopProxy \/ LockoutPasses \/ GapPasses
  \/ \E f \in Fetches :
       Fetch(f) \/ FetchStep(f) \/ Answer(f)

VkSpec == VkInit /\ [][VkNext]_vkVars

(* Requests have timeouts of 20 s, waits timers: a fetch goes on.  The gap *)
(* is drawn anew at every look, so that the other place does not win it for*)
(* ever.  VK does not answer every request with one more captcha, and      *)
(* somebody answers a window that stays open.                              *)
VkFairness ==
  /\ WF_vkVars(GapPasses)
  /\ \A f \in Fetches :
       /\ WF_vkVars(FetchStep(f))
       /\ SF_vkVars(Gate(f) \/ AskEnds(f) \/ AskError10(f))
       /\ WF_vkVars(Answer(f))

-----------------------------------------------------------------------------
(* Properties.                                                             *)

(* Safety.  A request for a person is never displaced by a later one: who  *)
(* waits is the one whose challenge the host has, across stops and starts  *)
(* of the proxy.                                                           *)
NotDisplaced == \A f \in Fetches : pc[f] = "window" => asker = f

(* Liveness.  With windows answered every fetch returns and gives its place*)
(* in vkSemaphore back, whatever mix of credentials, captchas and errors 10*)
(* it meets; a cancelled one that comes to the mutex behind the next       *)
(* proxy's window too.                                                     *)
FetchReturns == \A f \in Fetches : []<>(pc[f] = "idle")

(* Action, as vk.go:55-57 has it (if VK rejects a reused token it is       *)
(* invalidated and the next stream re-solves): when VK answers a token that*)
(* two fetches have used with another captcha, the cache keeps it no more. *)
RefusedTokenIsDropped ==
  [][\A f, g \in Fetches :
       f # g /\ data[f] = data[g] /\ data[f] = cache /\ cache # Nobody
         /\ pc[f] = "ask" /\ pc'[f] \in {"auto", "manual"}
       => cache' # cache]_vkVars

(* Action, as vk.go:448-453 has it (HTTP auto, slider POC, then the visible*)
(* dialog): a fetch locks everybody out only after a person has been asked.*)
PersonIsAskedBeforeLockout ==
  [][~lockout /\ lockout' =>
       \E f \in Fetches : pc[f] = "window" /\ pc'[f] # "window"]_vkVars
===============================================================================
