---------------------------- MODULE VkClientProofs ----------------------------
(***************************************************************************)
(* Proofs about VkClient, for any number of places in vkSemaphore,         *)
(* application credentials, retries, uses and tokens.                      *)
(***************************************************************************)
EXTENDS VkClient, QueueFacts

(* captchaManualMu: nobody waits twice, and who asks a person is its       *)
(* holder and the one whose request the host has.                          *)
HolderAsks ==
  /\ Once(queue)
  /\ \A f \in Fetches :
       pc[f] = "window" => queue # <<>> /\ Head(queue) = f /\ asker = f

(* A chain that runs has a credential: the last one ends the fetch, and    *)
(* none is left to fail without one.                                       *)
ChainHasCredential ==
  \A f \in Fetches : pc[f] \notin {"idle", "calls"} => creds[f] >= 1

(* The inductive invariant.                                                *)
IInv == VkTypeOK /\ HolderAsks /\ ChainHasCredential
DataTypes ==
  /\ running \in BOOLEAN /\ lockout \in BOOLEAN /\ cooling \in BOOLEAN
  /\ live \subseteq Fetches
  /\ pc \in [Fetches -> Places] /\ creds \in [Fetches -> 0..Creds]
  /\ tries \in [Fetches -> 0..1] /\ err10 \in [Fetches -> 0..MaxErr10]
  /\ slider \in [Fetches -> BOOLEAN] /\ presented \in [Fetches -> BOOLEAN]
  /\ data \in [Fetches -> Tokens \cup {Nobody}]
  /\ cache \in Tokens \cup {Nobody} /\ uses \in 0..Reuse
  /\ asker \in Fetches \cup {Nobody}

Waiting == {"queue", "window"}
LockInv ==
  /\ queue \in Seq(Fetches)
  /\ \A f \in Fetches : In(queue, f) <=> pc[f] \in Waiting
  /\ HolderAsks

ChainInv == DataTypes /\ ChainHasCredential

LEMMA Parts == IInv <=> ChainInv /\ LockInv
  BY DEF IInv, VkTypeOK, ChainInv, DataTypes, LockInv, Waiting, InQueue, In

USE VkAssumption

-----------------------------------------------------------------------------
(* Chains.                                                                 *)

(* What moving one fetch does to pc.                                       *)
LEMMA Moved ==
  ASSUME DataTypes, NEW f \in Fetches, NEW p \in Places, GoesTo(f, p)
  PROVE  /\ pc' \in [Fetches -> Places] /\ pc'[f] = p
         /\ \A g \in Fetches \ {f} : pc'[g] = pc[g]
  BY DEF DataTypes, GoesTo

(* A step of f that leaves the credentials alone.                          *)
LEMMA SameCredential ==
  ASSUME ChainInv, NEW f \in Fetches, NEW p \in Places, GoesTo(f, p),
         p \in {"idle", "calls"} \/ pc[f] \notin {"idle", "calls"},
         UNCHANGED creds
  PROVE  /\ pc' \in [Fetches -> Places] /\ pc'[f] = p
         /\ \A g \in Fetches \ {f} : pc'[g] = pc[g]
         /\ creds' \in [Fetches -> 0..Creds]
         /\ ChainHasCredential'
<1>1. /\ pc' \in [Fetches -> Places] /\ pc'[f] = p
      /\ \A g \in Fetches \ {f} : pc'[g] = pc[g]
  BY Moved DEF ChainInv
<1>2. creds' \in [Fetches -> 0..Creds]
  BY DEF ChainInv, DataTypes
<1>3. ChainHasCredential'
  BY <1>1 DEF ChainInv, ChainHasCredential
<1>4. QED
  BY <1>1, <1>2, <1>3

(* Of a fetch that returns.                                                *)
LEMMA Returned ==
  ASSUME ChainInv, NEW f \in Fetches, Leave(f)
  PROVE  /\ pc' \in [Fetches -> Places] /\ pc'[f] = "idle"
         /\ \A g \in Fetches \ {f} : pc'[g] = pc[g]
         /\ creds' \in [Fetches -> 0..Creds]
         /\ live' \subseteq Fetches
         /\ ChainHasCredential'
<1>1. /\ pc' \in [Fetches -> Places] /\ pc'[f] = "idle"
      /\ \A g \in Fetches \ {f} : pc'[g] = pc[g]
  BY Moved DEF ChainInv, Leave, Places
<1>2. /\ creds' \in [Fetches -> 0..Creds]
      /\ \A g \in Fetches \ {f} : creds'[g] = creds[g]
  BY DEF ChainInv, DataTypes, Leave
<1>3. live' \subseteq Fetches
  BY DEF ChainInv, DataTypes, Leave
<1>4. ChainHasCredential'
  BY <1>1, <1>2 DEF ChainInv, ChainHasCredential
<1>5. QED
  BY <1>1, <1>2, <1>3, <1>4

(* A chain that is over leaves nothing of its own.                         *)
LEMMA Cleared ==
  ASSUME ChainInv, NEW f \in Fetches, ChainOver(f)
  PROVE  /\ tries' \in [Fetches -> 0..1] /\ err10' \in [Fetches -> 0..MaxErr10]
         /\ slider' \in [Fetches -> BOOLEAN] /\ presented' \in [Fetches -> BOOLEAN]
         /\ data' \in [Fetches -> Tokens \cup {Nobody}]
         /\ cooling' \in BOOLEAN
  BY DEF ChainInv, DataTypes, ChainOver

(* One that failed leaves its fetch to the next credential, or returns it. *)
LEMMA ChainFailed ==
  ASSUME ChainInv, NEW f \in Fetches, ChainFails(f)
  PROVE  /\ pc' \in [Fetches -> Places] /\ pc'[f] \in {"gate", "idle"}
         /\ \A g \in Fetches \ {f} : pc'[g] = pc[g]
         /\ creds' \in [Fetches -> 0..Creds]
         /\ live' \subseteq Fetches
         /\ ChainHasCredential'
<1>1. CASE /\ creds[f] > 1 /\ GoesTo(f, "gate")
           /\ creds' = [creds EXCEPT ![f] = @ - 1]
           /\ UNCHANGED live
  <2>1. /\ pc' \in [Fetches -> Places] /\ pc'[f] = "gate"
        /\ \A g \in Fetches \ {f} : pc'[g] = pc[g]
    BY <1>1, Moved DEF ChainInv, Places
  <2>2. /\ creds[f] \in 0..Creds
        /\ creds' = [creds EXCEPT ![f] = creds[f] - 1]
    BY <1>1 DEF ChainInv, DataTypes
  <2>3. creds[f] - 1 \in 0..Creds /\ creds[f] - 1 >= 1
    BY <1>1, <2>2
  <2>4. /\ creds' \in [Fetches -> 0..Creds] /\ creds'[f] >= 1
        /\ \A g \in Fetches \ {f} : creds'[g] = creds[g]
    BY <2>2, <2>3 DEF ChainInv, DataTypes
  <2>5. ChainHasCredential'
    BY <2>1, <2>4 DEF ChainInv, ChainHasCredential
  <2>6. QED
    BY <1>1, <2>1, <2>4, <2>5 DEF ChainInv, DataTypes
<1>2. CASE creds[f] = 1 /\ Leave(f)
  BY <1>2, Returned
<1>3. QED
  BY <1>1, <1>2 DEF ChainFails

LEMMA TokenDrawn ==
  ASSUME ChainInv, NEW f \in Fetches, GetsToken(f)
  PROVE  data' \in [Fetches -> Tokens \cup {Nobody}]
<1> DEFINE free == {t \in Tokens : t # cache /\ \A g \in Fetches \ {f} : data[g] # t}
<1>1. \E t \in Tokens : t \in free \/ free = {}
  OBVIOUS
<1>2. NewToken(f) = CHOOSE t \in Tokens : t \in free \/ free = {}
  BY DEF NewToken
<1>3. NewToken(f) \in Tokens
  <2> HIDE DEF free
  <2> QED BY <1>1, <1>2
<1>4. QED
  BY <1>3 DEF GetsToken, ChainInv, DataTypes

LEMMA TokenTaken ==
  ASSUME ChainInv, NEW f \in Fetches, Cached, Pop
  PROVE  /\ cache' \in Tokens \cup {Nobody} /\ uses' \in 0..Reuse
         /\ [data EXCEPT ![f] = cache] \in [Fetches -> Tokens \cup {Nobody}]
  BY DEF ChainInv, DataTypes, Cached, Pop
LEMMA ChainStep ==
  ASSUME ChainInv, NEW f \in Fetches, Fetch(f) \/ FetchStep(f) \/ Answer(f)
  PROVE  ChainInv'
<1> USE DEF World, Places, Solving
<1>1. CASE Fetch(f)
  <2>1. live' \subseteq Fetches
    BY <1>1 DEF Fetch, ChainInv, DataTypes
  <2>2. QED
    BY <1>1, <2>1, SameCredential DEF Fetch, chain, tokens, manual, ChainInv, DataTypes
<1>2. CASE CallsFlow(f)
  <2>1. CASE Leave(f)
    BY <1>2, <2>1, Returned DEF CallsFlow, tokens, manual, ChainInv, DataTypes
  <2>2. CASE /\ ~lockout /\ GoesTo(f, "gate")
             /\ creds' = [creds EXCEPT ![f] = Creds]
             /\ UNCHANGED live
    <3>1. /\ pc' \in [Fetches -> Places] /\ pc'[f] = "gate"
          /\ \A g \in Fetches \ {f} : pc'[g] = pc[g]
      BY <2>2, Moved DEF ChainInv
    <3>2. creds' \in [Fetches -> 0..Creds] /\ ChainHasCredential'
      BY <2>2, <3>1 DEF ChainInv, DataTypes, ChainHasCredential
    <3>3. QED
      BY <1>2, <2>2, <3>1, <3>2 DEF CallsFlow, tokens, manual, ChainInv, DataTypes
  <2>3. QED
    BY <1>2, <2>1, <2>2 DEF CallsFlow, CallsOk, CallsUnavailable, CallsFail
<1>3. CASE Gate(f)
  <2>1. CASE GoesTo(f, "token1") /\ UNCHANGED <<live, creds>>
    BY <1>3, <2>1, SameCredential DEF Gate, tokens, manual, ChainInv, DataTypes
  <2>2. CASE Leave(f)
    BY <1>3, <2>2, Returned DEF Gate, tokens, manual, ChainInv, DataTypes
  <2>3. QED
    BY <1>3, <2>1, <2>2 DEF Gate
<1>4. CASE Token1(f)
  <2>1. CASE ChainFails(f) /\ UNCHANGED tokens
    BY <1>4, <2>1, ChainFailed, Cleared
       DEF Token1, ChainFails, tokens, manual, ChainInv, DataTypes
  <2>2. CASE /\ GoesTo(f, "ask") /\ Cached /\ Pop
             /\ data' = [data EXCEPT ![f] = cache]
             /\ presented' = [presented EXCEPT ![f] = TRUE]
             /\ UNCHANGED <<live, creds, tries, slider, err10, cooling>>
    <3>1. presented' \in [Fetches -> BOOLEAN]
      BY <2>2 DEF ChainInv, DataTypes
    <3>2. QED
      BY <1>4, <2>2, <3>1, TokenTaken, SameCredential
         DEF Token1, manual, ChainInv, DataTypes
  <2>3. CASE ~Cached /\ UNCHANGED <<data, presented, tokens>>
             /\ GoesTo(f, "ask") /\ UNCHANGED <<live, creds, tries, slider, err10, cooling>>
    BY <1>4, <2>3, SameCredential DEF Token1, tokens, manual, ChainInv, DataTypes
  <2>4. QED
    BY <1>4, <2>1, <2>2, <2>3 DEF Token1
<1>5. CASE AskEnds(f)
  <2>1. CASE ChainFails(f)
    BY <1>5, <2>1, ChainFailed, Cleared
       DEF AskEnds, ChainFails, tokens, manual, ChainInv, DataTypes
  <2>2. CASE ChainOver(f) /\ Leave(f)
    BY <1>5, <2>2, Returned, Cleared DEF AskEnds, tokens, manual, ChainInv, DataTypes
  <2>3. QED
    BY <1>5, <2>1, <2>2 DEF AskEnds
<1>6. CASE AskError10(f)
  <2>1. err10' \in [Fetches -> 0..MaxErr10]
    <3>1. err10[f] \in 0..MaxErr10 /\ err10[f] + 1 \in 0..MaxErr10
      BY <1>6 DEF AskError10, ChainInv, DataTypes
    <3>2. err10' = [err10 EXCEPT ![f] = err10[f] + 1]
      BY <1>6 DEF AskError10, CountErr10
    <3>3. QED
      BY <3>1, <3>2 DEF ChainInv, DataTypes
  <2>2. data' \in [Fetches -> Tokens \cup {Nobody}]
    BY <1>6 DEF AskError10, ChainInv, DataTypes
  <2>3. QED
    BY <1>6, <2>1, <2>2 DEF AskError10, tokens, manual, ChainInv, DataTypes, ChainHasCredential
<1>7. CASE Challenge(f)
  <2>1. cache' \in Tokens \cup {Nobody} /\ uses' \in 0..Reuse
    BY <1>7 DEF Challenge, Invalidate, ChainInv, DataTypes
  <2>2. CASE lockout' = TRUE /\ ChainFails(f)
    BY <1>7, <2>1, <2>2, ChainFailed, Cleared
       DEF Challenge, ChainFails, manual, ChainInv, DataTypes
  <2>3. CASE /\ GoesTo(f, IF tries[f] = 0 THEN "auto" ELSE "manual")
             /\ data' = [data EXCEPT ![f] = IF presented[f] THEN Nobody ELSE @]
             /\ presented' = [presented EXCEPT ![f] = FALSE]
             /\ UNCHANGED <<live, creds, tries, slider, err10, lockout, cooling>>
    <3>1. /\ data' \in [Fetches -> Tokens \cup {Nobody}]
          /\ presented' \in [Fetches -> BOOLEAN]
      BY <2>3 DEF ChainInv, DataTypes
    <3>2. /\ pc' \in [Fetches -> Places] /\ creds' \in [Fetches -> 0..Creds]
          /\ ChainHasCredential'
      BY <1>7, <2>3, SameCredential DEF Challenge
    <3>3. QED
      BY <1>7, <2>1, <2>3, <3>1, <3>2 DEF Challenge, manual, ChainInv, DataTypes
  <2>4. QED
    BY <1>7, <2>2, <2>3 DEF Challenge
<1>8. CASE AutoSolves(f)
  BY <1>8, TokenDrawn, SameCredential DEF AutoSolves, manual, ChainInv, DataTypes
<1>9. CASE AutoFails(f)
  <2>1. tries' \in [Fetches -> 0..1]
    BY <1>9 DEF AutoFails, ChainInv, DataTypes
  <2>2. slider' \in [Fetches -> BOOLEAN]
    <3>1. CASE SliderFails(f)
      BY <3>1 DEF SliderFails, ChainInv, DataTypes
    <3>2. CASE UNCHANGED slider
      BY <3>2 DEF ChainInv, DataTypes
    <3>3. QED
      BY <1>9, <3>1, <3>2 DEF AutoFails
  <2>3. QED
    BY <1>9, <2>1, <2>2, SameCredential DEF AutoFails, tokens, manual, ChainInv, DataTypes
<1>10. CASE Solved(f)
  <2>1. /\ tries' \in [Fetches -> 0..1]
        /\ cache' \in Tokens \cup {Nobody} /\ uses' \in 0..Reuse
    BY <1>10 DEF Solved, Push, ChainInv, DataTypes
  <2>2. QED
    BY <1>10, <2>1, SameCredential DEF Solved, manual, ChainInv, DataTypes
<1>11. CASE Manual(f)
  <2>1. CASE TakeCached(f)
    BY <1>11, <2>1, TokenTaken, SameCredential
       DEF Manual, TakeCached, ChainInv, DataTypes
  <2>2. CASE ~Cached /\ GoesTo(f, "queue") /\ UNCHANGED <<data, tokens>>
    BY <1>11, <2>2, SameCredential DEF Manual, tokens, ChainInv, DataTypes
  <2>3. QED
    BY <1>11, <2>1, <2>2 DEF Manual
<1>12. CASE OpenWindow(f)
  <2>1. CASE TakeCached(f) /\ UNCHANGED asker
    BY <1>12, <2>1, TokenTaken, SameCredential
       DEF OpenWindow, TakeCached, ChainInv, DataTypes
  <2>2. CASE ~Cached /\ GoesTo(f, "window") /\ asker' = f /\ UNCHANGED <<data, tokens>>
    BY <1>12, <2>2, SameCredential DEF OpenWindow, tokens, ChainInv, DataTypes
  <2>3. QED
    BY <1>12, <2>1, <2>2 DEF OpenWindow
<1>13. CASE WindowCloses(f)
  <2>1. asker' \in Fetches \cup {Nobody}
    BY <1>13 DEF WindowCloses, ChainInv, DataTypes
  <2>2. QED
    BY <1>13, <2>1, ChainFailed, Cleared
       DEF WindowCloses, ChainFails, tokens, ChainInv, DataTypes
<1>14. CASE Answer(f)
  BY <1>14, TokenDrawn, SameCredential DEF Answer, ChainInv, DataTypes
<1>15. QED
  BY <1>1, <1>2, <1>3, <1>4, <1>5, <1>6, <1>7, <1>8, <1>9, <1>10, <1>11, <1>12,
     <1>13, <1>14 DEF FetchStep
-----------------------------------------------------------------------------
(* The mutex.                                                              *)

(* A fetch walks past the mutex.                                           *)
LEMMA WalksPast ==
  ASSUME LockInv, NEW f \in Fetches, pc[f] \notin Waiting, pc'[f] \notin Waiting,
         \A g \in Fetches \ {f} : pc'[g] = pc[g], UNCHANGED manual
  PROVE  LockInv'
  BY DEF LockInv, HolderAsks, manual, Waiting

(* The holder leaves it: no one else has a window.                         *)
LEMMA HolderLeaves ==
  ASSUME LockInv, NEW f \in Fetches, pc[f] \in Waiting, pc'[f] \notin Waiting,
         \A g \in Fetches \ {f} : pc'[g] = pc[g],
         Head(queue) = f, Unlock
  PROVE  LockInv'
<1>1. queue # <<>>
  BY EmptyQueue DEF LockInv
<1>2. /\ queue' \in Seq(Fetches) /\ Once(queue') /\ ~In(queue', f)
      /\ \A g : In(queue, g) <=> g = f \/ In(queue', g)
  BY <1>1, LeavesFront DEF LockInv, HolderAsks, Unlock
<1>3. ASSUME NEW g \in Fetches
      PROVE  pc'[g] # "window" /\ (In(queue', g) <=> pc'[g] \in Waiting)
  <2>1. CASE g = f
    BY <1>2, <2>1 DEF Waiting
  <2>2. CASE g # f
    BY <1>2, <2>2 DEF LockInv, HolderAsks
  <2>3. QED
    BY <2>1, <2>2
<1>4. QED
  BY <1>2, <1>3 DEF LockInv, HolderAsks

LEMMA LockStep ==
  ASSUME ChainInv, LockInv, NEW f \in Fetches,
         Fetch(f) \/ FetchStep(f) \/ Answer(f)
  PROVE  LockInv'
<1> USE DEF Places, Solving
<1>1. CASE \/ Fetch(f) \/ CallsFlow(f) \/ Gate(f) \/ Token1(f) \/ AskEnds(f)
           \/ AskError10(f) \/ Challenge(f)
           \/ AutoFails(f) \/ AutoSolves(f) \/ Solved(f)
  <2>1. pc[f] \notin Waiting /\ UNCHANGED manual
    BY <1>1 DEF Fetch, CallsFlow, Gate, Token1, AskEnds, AskError10, Challenge,
                AutoFails, AutoSolves, Solved, Waiting
  <2>2. CASE Leave(f) \/ ChainFails(f)
    BY <2>1, <2>2, Returned, ChainFailed, WalksPast DEF Waiting
  <2>3. CASE UNCHANGED pc
    BY <2>1, <2>3, WalksPast
  <2>4. ASSUME NEW p \in Places \ Waiting, GoesTo(f, p)
        PROVE  LockInv'
    BY <2>1, <2>4, Moved, WalksPast DEF ChainInv
  <2>5. QED
    BY <1>1, <2>2, <2>3, <2>4
       DEF Fetch, CallsFlow, CallsOk, CallsUnavailable, CallsFail, Gate, Token1,
           AskEnds, AskError10, Challenge, AutoFails, AutoSolves, Solved, Waiting
<1>2. CASE Manual(f)
  <2>1. CASE TakeCached(f) /\ UNCHANGED queue
    BY <1>2, <2>1, Moved, WalksPast DEF Manual, TakeCached, ChainInv, Waiting, manual
  <2>2. CASE GoesTo(f, "queue") /\ queue' = Append(queue, f)
    <3>1. /\ pc'[f] = "queue" /\ \A g \in Fetches \ {f} : pc'[g] = pc[g]
      BY <2>2, Moved DEF ChainInv
    <3>2. ~In(queue, f)
      BY <1>2 DEF Manual, LockInv, Waiting
    <3>3. /\ queue' \in Seq(Fetches) /\ queue' # <<>> /\ Once(queue')
          /\ \A g : In(queue', g) <=> In(queue, g) \/ g = f
          /\ queue # <<>> => Head(queue') = Head(queue)
      BY <2>2, <3>2, JoinsBack DEF LockInv, HolderAsks
    <3>4. QED
      BY <1>2, <3>1, <3>3 DEF Manual, LockInv, HolderAsks, Waiting
  <2>3. QED
    BY <1>2, <2>1, <2>2 DEF Manual
<1>3. CASE OpenWindow(f)
  <2>1. CASE TakeCached(f) /\ Unlock
    BY <1>3, <2>1, Moved, HolderLeaves
       DEF OpenWindow, HasLock, TakeCached, ChainInv, Waiting
  <2>2. CASE GoesTo(f, "window") /\ asker' = f /\ UNCHANGED queue
    <3>1. /\ pc'[f] = "window" /\ \A g \in Fetches \ {f} : pc'[g] = pc[g]
      BY <2>2, Moved DEF ChainInv
    <3>2. /\ Head(queue) = f /\ queue # <<>> /\ pc[f] = "queue"
      BY <1>3, EmptyQueue DEF OpenWindow, HasLock, LockInv, Waiting
    <3>3. \A g \in Fetches \ {f} : pc[g] # "window"
      BY <3>2 DEF LockInv, HolderAsks
    <3>4. QED
      BY <2>2, <3>1, <3>2, <3>3 DEF LockInv, HolderAsks, Waiting
  <2>3. QED
    BY <1>3, <2>1, <2>2 DEF OpenWindow
<1>4. CASE WindowCloses(f) \/ Answer(f)
  <2>1. pc[f] = "window" /\ Head(queue) = f /\ Unlock
    BY <1>4 DEF WindowCloses, Answer, LockInv, HolderAsks
  <2>2. pc'[f] \notin Waiting /\ \A g \in Fetches \ {f} : pc'[g] = pc[g]
    BY <1>4, Moved, ChainFailed DEF WindowCloses, Answer, ChainInv, Waiting
  <2>3. QED
    BY <2>1, <2>2, HolderLeaves DEF Waiting
<1>5. QED
  BY <1>1, <1>2, <1>3, <1>4 DEF FetchStep

-----------------------------------------------------------------------------
(* The theorems.                                                           *)

LEMMA InitInv == VkInit => IInv
<1> SUFFICES ASSUME VkInit PROVE IInv
  OBVIOUS
<1>1. ChainInv
  <2> USE DEF VkInit
  <2>1. DataTypes
    <3>1. /\ pc \in [Fetches -> Places] /\ creds \in [Fetches -> 0..Creds]
          /\ tries \in [Fetches -> 0..1] /\ err10 \in [Fetches -> 0..MaxErr10]
          /\ uses \in 0..Reuse
      BY DEF Places
    <3>2. /\ slider \in [Fetches -> BOOLEAN] /\ presented \in [Fetches -> BOOLEAN]
          /\ data \in [Fetches -> Tokens \cup {Nobody}]
      OBVIOUS
    <3>3. QED
      BY <3>1, <3>2 DEF DataTypes
  <2>2. ChainHasCredential
    BY DEF ChainHasCredential
  <2>3. QED
    BY <2>1, <2>2 DEF ChainInv
<1>2. LockInv
  BY EmptyQueue DEF VkInit, LockInv, HolderAsks, Waiting
<1>3. QED
  BY <1>1, <1>2, Parts

LEMMA StepInv == IInv /\ [VkNext]_vkVars => IInv'
<1> SUFFICES ASSUME IInv, [VkNext]_vkVars PROVE IInv'
  OBVIOUS
<1>1. ChainInv /\ LockInv
  BY Parts
<1>2. SUFFICES ChainInv' /\ LockInv'
  BY DEF IInv, VkTypeOK, ChainInv, DataTypes, LockInv, Waiting, InQueue, In
<1>3. CASE StartProxy \/ StopProxy \/ LockoutPasses \/ GapPasses \/ UNCHANGED vkVars
  <2> USE DEF chain, tokens, manual, World
  <2>1. /\ running' \in BOOLEAN /\ lockout' \in BOOLEAN /\ cooling' \in BOOLEAN
        /\ live' \subseteq Fetches
    BY <1>1, <1>3 DEF StartProxy, StopProxy, LockoutPasses, GapPasses, vkVars,
                      ChainInv, DataTypes
  <2>2. UNCHANGED <<pc, chain, tokens, manual>>
    BY <1>3 DEF StartProxy, StopProxy, LockoutPasses, GapPasses, vkVars
  <2>3. ChainInv'
    BY <1>1, <2>1, <2>2 DEF ChainInv, DataTypes, ChainHasCredential
  <2>4. LockInv'
    BY <1>1, <2>2 DEF LockInv, HolderAsks
  <2>5. QED
    BY <2>3, <2>4
<1>4. ASSUME NEW f \in Fetches, Fetch(f) \/ FetchStep(f) \/ Answer(f)
      PROVE  ChainInv' /\ LockInv'
  BY <1>1, <1>4, ChainStep, LockStep
<1>5. QED
  BY <1>3, <1>4 DEF VkNext

LEMMA Invariant == VkSpec => []IInv
  BY InitInv, StepInv, PTL DEF VkSpec

(* The variables of the fetches keep their types; the queue of the mutex   *)
(* is exactly who waits for a person or asks one, and no token is used more*)
(* often than captchaTokenReuse allows.                                    *)
THEOREM VkTypeCorrect == VkSpec => []VkTypeOK
<1>1. IInv => VkTypeOK
  BY DEF IInv
<1>2. QED
  BY <1>1, Invariant, PTL

(* Of any number of application credentials, the chain that runs holds one *)
(* until its fetch returns: fetchVkCreds fails with the last of them, and  *)
(* none fails without one to account for.                                  *)
THEOREM ChainHoldsCredential == VkSpec => []ChainHasCredential
<1>1. IInv => ChainHasCredential
  BY DEF IInv
<1>2. QED
  BY <1>1, Invariant, PTL

(* Whatever fetches the semaphore lets in, and over every stop and start   *)
(* of the proxy: a request for a person that waits is the host's.          *)
THEOREM NoWindowDisplaced == VkSpec => []NotDisplaced
<1>1. IInv => NotDisplaced
  BY DEF IInv, HolderAsks, NotDisplaced
<1>2. QED
  BY <1>1, Invariant, PTL
===============================================================================
