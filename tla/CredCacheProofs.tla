---------------------------- MODULE CredCacheProofs ----------------------------
(***************************************************************************)
(* Proofs about CredCache, for any number of workers, slots, links and     *)
(* proxies, and any capacity of vkSemaphore.                               *)
(***************************************************************************)
EXTENDS CredCache, FiniteSetTheorems, TLAPS

(* A credential is in one slot only.                                       *)
InOneSlot ==
  \A s, t \in Slots : slot[s].no = slot[t].no /\ slot[s].no # 0 => s = t

(* The inductive invariant.                                                *)
IInv ==
  /\ CredTypeOK
  /\ FetchOnlyWhenNeeded
  /\ InOneSlot
  /\ OwnLinkOnly

Vk == AtVk \cup {"lock"}

-----------------------------------------------------------------------------
LEMMA EmptyType ==
  /\ Empty \in [no : Creds, link : Links, fresh : BOOLEAN]
  /\ Empty.no = 0 /\ ~Empty.fresh
<1>1. (CHOOSE l \in Links : TRUE) \in Links
  BY PlacesAssumption
<1>2. QED
  BY <1>1, BoundsAssumption DEF Empty, Creds

(* The invariant holds in the initial states.                              *)
LEMMA InitInv == Init => IInv
<1> SUFFICES ASSUME Init PROVE IInv
  OBVIOUS
<1>1. CredTypeBase
  <2>1. slot \in [Slots -> [no : Creds, link : Links, fresh : BOOLEAN]]
    BY EmptyType DEF Init
  <2>2. /\ now \in 1..MaxProxy
        /\ used \in [Workers -> Creds]
    BY BoundsAssumption DEF Init, Creds
  <2>3. QED
    BY <2>1, <2>2 DEF Init, CredTypeBase, Places
<1>2. Cardinality(InVk) \in 0..VkCap
  <2>1. InVk = {}
    BY DEF Init, InVk, AtVk
  <2>2. QED
    BY <2>1, FS_EmptySet, BoundsAssumption
<1>3. FetchOnlyWhenNeeded
  BY DEF Init, FetchOnlyWhenNeeded, AtVk
<1>4. InOneSlot /\ OwnLinkOnly
  BY EmptyType DEF Init, InOneSlot, OwnLinkOnly
<1>5. QED
  BY <1>1, <1>2, <1>3, <1>4 DEF IInv, CredTypeOK

(* What moving one worker does to pc.                                       *)
LEMMA Moved ==
  ASSUME CredTypeBase, NEW w \in Workers, NEW to \in Places, Goto(w, to)
  PROVE  /\ pc' \in [Workers -> Places]
         /\ pc'[w] = to
         /\ \A v \in Workers : v # w => pc'[v] = pc[v]
  BY DEF CredTypeBase, Goto

(* vkSemaphore: a step that lets nobody in keeps the bound.                *)
LEMMA NobodyEnters ==
  ASSUME CredTypeOK, InVk' \subseteq InVk
  PROVE  Cardinality(InVk') \in 0..VkCap
<1>1. IsFiniteSet(InVk)
  BY WorkersAssumption, FS_Subset DEF InVk
<1>2. /\ Cardinality(InVk') \in Nat
      /\ Cardinality(InVk') <= Cardinality(InVk)
  BY <1>1, FS_Subset, FS_CardinalityType
<1>3. QED
  BY <1>2, BoundsAssumption DEF CredTypeOK

(* A step that begins no fetch and makes no credential valid.              *)
LEMMA NobodyFetches ==
  ASSUME FetchOnlyWhenNeeded,
         \A w \in Workers : pc'[w] \in AtVk => pc[w] \in AtVk,
         \A w \in Workers : pc'[w] \in AtVk /\ Valid(w)' => Valid(w)
  PROVE  FetchOnlyWhenNeeded'
<1> SUFFICES ASSUME NEW w \in Workers, pc'[w] \in AtVk
             PROVE  Fetching(slotOf[w])' = {w} /\ ~Valid(w)'
  BY DEF FetchOnlyWhenNeeded
<1>1. Fetching(slotOf[w]) = {w} /\ ~Valid(w)
  BY DEF FetchOnlyWhenNeeded
<1>2. Fetching(slotOf[w])' = {w}
  BY <1>1 DEF Fetching
<1>3. QED
  BY <1>1, <1>2

(* A step that hands no credential to anybody.                             *)
LEMMA NothingHanded ==
  ASSUME IInv,
         \A w \in Workers : used'[w] \in {0, used[w]},
         \A s \in Slots : slot'[s] = slot[s] \/ slot'[s].no = 0
  PROVE  InOneSlot' /\ OwnLinkOnly'
<1>1. InOneSlot'
  BY DEF IInv, InOneSlot
<1>2. OwnLinkOnly'
  BY DEF IInv, OwnLinkOnly
<1>3. QED
  BY <1>1, <1>2

(* A step of one worker that enters no semaphore, begins a fetch only      *)
(* after a look at the slot, and takes or gives no credential.             *)
LEMMA Walk ==
  ASSUME IInv, NEW w \in Workers, NEW to \in Places, Goto(w, to),
         to \in Vk => pc[w] \in Vk,
         to \in AtVk => pc[w] \in AtVk
                          \/ (Fetching(slotOf[w]) = {} /\ ~Valid(w)),
         used' = used \/ used' = [used EXCEPT ![w] = 0],
         recent' \in SUBSET Slots,
         UNCHANGED <<proxyVars, slot, bad>>
  PROVE  IInv'
<1>0. CredTypeBase /\ CredTypeOK
  BY DEF IInv, CredTypeOK
<1>1. /\ pc' \in [Workers -> Places]
      /\ pc'[w] = to
      /\ \A v \in Workers : v # w => pc'[v] = pc[v]
  BY <1>0, Moved
<1>2. used' \in [Workers -> Creds] /\ \A v \in Workers : used'[v] \in {0, used[v]}
  BY <1>0, BoundsAssumption DEF CredTypeBase, Creds
<1>3. CredTypeBase'
  BY <1>0, <1>1, <1>2 DEF CredTypeBase, proxyVars
<1>4. InVk' \subseteq InVk
  BY <1>1 DEF InVk, Vk
<1>5. CredTypeOK'
  BY <1>0, <1>3, <1>4, NobodyEnters DEF CredTypeOK
<1>6. FetchOnlyWhenNeeded'
  <2>1. \A v \in Workers : Valid(v)' = Valid(v)
    BY DEF Valid
  <2>2. CASE to \in AtVk => pc[w] \in AtVk
    BY <1>1, <2>1, <2>2, NobodyFetches DEF IInv
  <2>3. CASE to \in AtVk /\ Fetching(slotOf[w]) = {} /\ ~Valid(w)
    <3> SUFFICES ASSUME NEW v \in Workers, pc'[v] \in AtVk
                 PROVE  Fetching(slotOf[v])' = {v} /\ ~Valid(v)'
      BY DEF FetchOnlyWhenNeeded
    <3>1. CASE v = w
      BY <1>1, <2>1, <2>3, <3>1 DEF Fetching
    <3>2. CASE v # w
      <4>1. pc[v] \in AtVk
        BY <1>1, <3>2
      <4>2. Fetching(slotOf[v]) = {v} /\ ~Valid(v)
        BY <4>1 DEF IInv, FetchOnlyWhenNeeded
      <4>3. slotOf[v] # slotOf[w]
        BY <4>2, <2>3
      <4>4. QED
        BY <1>1, <2>1, <4>2, <4>3 DEF Fetching
    <3>3. QED
      BY <3>1, <3>2
  <2>4. QED
    BY <2>2, <2>3
<1>7. InOneSlot' /\ OwnLinkOnly'
  BY <1>2, NothingHanded
<1>8. QED
  BY <1>5, <1>6, <1>7 DEF IInv

(* A step of somebody else: nobody moves and no credential becomes valid.  *)
LEMMA Beside ==
  ASSUME IInv, UNCHANGED <<pc, used>>,
         now' \in 1..MaxProxy, stopped' \in BOOLEAN,
         recent' \in SUBSET Slots, bad' \in SUBSET Creds,
         \A s \in Slots : slot'[s] \in {slot[s], Empty},
         slot' \in [Slots -> [no : Creds, link : Links, fresh : BOOLEAN]]
  PROVE  IInv'
<1>1. CredTypeBase'
  BY DEF IInv, CredTypeOK, CredTypeBase
<1>2. Cardinality(InVk') \in 0..VkCap
  <2>1. InVk' \subseteq InVk
    BY DEF InVk
  <2>2. QED
    BY <2>1, NobodyEnters DEF IInv
<1>3. FetchOnlyWhenNeeded'
  <2>1. \A w \in Workers : Valid(w)' => Valid(w)
    BY PlacesAssumption, EmptyType DEF Valid
  <2>2. QED
    BY <2>1, NobodyFetches DEF IInv
<1>4. InOneSlot' /\ OwnLinkOnly'
  BY NothingHanded, EmptyType
<1>5. QED
  BY <1>1, <1>2, <1>3, <1>4 DEF IInv, CredTypeOK

-----------------------------------------------------------------------------
(* Enter, the step that looks at the semaphore.                            *)
LEMMA EnterInv ==
  ASSUME IInv, NEW w \in Workers, Enter(w)
  PROVE  IInv'
<1> USE DEF Enter
<1>0. CredTypeBase /\ CredTypeOK
  BY DEF IInv, CredTypeOK
<1>1. /\ pc' \in [Workers -> Places]
      /\ pc'[w] = "lock"
      /\ \A v \in Workers : v # w => pc'[v] = pc[v]
  BY <1>0, Moved DEF Places
<1>2. CredTypeBase'
  BY <1>0, <1>1 DEF CredTypeBase, proxyVars
<1>3. Cardinality(InVk') \in 0..VkCap
  <2>1. InVk' = InVk \cup {w}
    BY <1>1 DEF InVk
  <2>2. w \notin InVk
    BY DEF InVk, AtVk
  <2>3. IsFiniteSet(InVk)
    BY WorkersAssumption, FS_Subset DEF InVk
  <2>4. Cardinality(InVk') = Cardinality(InVk) + 1
    BY <2>1, <2>2, <2>3, FS_AddElement
  <2>5. QED
    BY <1>0, <2>4, BoundsAssumption DEF CredTypeOK
<1>4. FetchOnlyWhenNeeded'
  <2>1. \A v \in Workers : pc'[v] \in AtVk => pc[v] \in AtVk
    BY <1>1 DEF AtVk
  <2>2. \A v \in Workers : Valid(v)' = Valid(v)
    BY DEF Valid
  <2>3. QED
    BY <2>1, <2>2, NobodyFetches DEF IInv
<1>5. InOneSlot' /\ OwnLinkOnly'
  BY NothingHanded
<1>6. QED
  BY <1>2, <1>3, <1>4, <1>5 DEF IInv, CredTypeOK

(* Hit: the worker takes the credential of its own slot, for its own link. *)
LEMMA HitInv ==
  ASSUME IInv, NEW w \in Workers, Hit(w)
  PROVE  IInv'
<1> USE DEF Hit
<1> DEFINE home == slotOf[w]
           n == slot[home].no
<1>0. CredTypeBase /\ CredTypeOK /\ home \in Slots
  BY PlacesAssumption DEF IInv, CredTypeOK
<1>1. /\ pc' \in [Workers -> Places]
      /\ pc'[w] = "use"
      /\ \A v \in Workers : v # w => pc'[v] = pc[v]
  BY <1>0, Moved DEF Places
<1>2. /\ n \in Creds
      /\ used' \in [Workers -> Creds]
      /\ used'[w] = n
      /\ \A v \in Workers : v # w => used'[v] = used[v]
  BY <1>0 DEF CredTypeBase
<1>3. CredTypeBase'
  BY <1>0, <1>1, <1>2 DEF CredTypeBase, proxyVars
<1>4. Cardinality(InVk') \in 0..VkCap
  <2>1. InVk' \subseteq InVk
    BY <1>1 DEF InVk, AtVk
  <2>2. QED
    BY <2>1, <1>0, NobodyEnters
<1>5. FetchOnlyWhenNeeded'
  <2>1. \A v \in Workers : pc'[v] \in AtVk => pc[v] \in AtVk
    BY <1>1 DEF AtVk
  <2>2. \A v \in Workers : Valid(v)' = Valid(v)
    BY DEF Valid
  <2>3. QED
    BY <2>1, <2>2, NobodyFetches DEF IInv
<1>6. InOneSlot'
  BY <1>0, <1>2 DEF IInv, InOneSlot
<1>7. OwnLinkOnly'
  <2>1. \A v \in Workers : used[v] = n /\ n # 0 =>
          slotOf[v] = home /\ linkOf[v] = linkOf[w]
    BY <1>0 DEF IInv, OwnLinkOnly, Valid
  <2>2. \A s \in Slots : slot[s].no = n /\ n # 0 =>
          s = home /\ slot[s].link = linkOf[w]
    BY <1>0 DEF IInv, InOneSlot, Valid
  <2>3. QED
    BY <1>2, <2>1, <2>2 DEF IInv, OwnLinkOnly
<1>8. QED
  BY <1>3, <1>4, <1>5, <1>6, <1>7 DEF IInv, CredTypeOK

(* FetchOk: a number nobody has, into the slot whose mutex the worker      *)
(* holds alone.                                                            *)
LEMMA FetchOkInv ==
  ASSUME IInv, NEW w \in Workers, FetchOk(w)
  PROVE  IInv'
<1> DEFINE home == slotOf[w]
<1>a. /\ pc[w] = "fetch"
      /\ Goto(w, "use")
      /\ UNCHANGED <<proxyVars, recent>>
  BY DEF FetchOk
<1>b. PICK n \in Unknown :
        /\ slot' = [slot EXCEPT ![home] =
                      [no |-> n, link |-> linkOf[w], fresh |-> TRUE]]
        /\ used' = [used EXCEPT ![w] = n]
        /\ bad' = bad \ {n}
  BY DEF FetchOk
<1>0. CredTypeBase /\ CredTypeOK /\ home \in Slots /\ linkOf[w] \in Links
  BY PlacesAssumption DEF IInv, CredTypeOK
<1>n. /\ n \in Creds /\ n # 0
      /\ \A v \in Workers : used[v] # n
      /\ \A s \in Slots : slot[s].no # n
  BY DEF Unknown, Known
<1>1. /\ pc' \in [Workers -> Places]
      /\ pc'[w] = "use"
      /\ \A v \in Workers : v # w => pc'[v] = pc[v]
  BY <1>0, <1>a, Moved DEF Places
<1>2. /\ used' \in [Workers -> Creds]
      /\ used'[w] = n
      /\ \A v \in Workers : v # w => used'[v] = used[v]
  BY <1>0, <1>b, <1>n DEF CredTypeBase
<1>3. /\ slot' \in [Slots -> [no : Creds, link : Links, fresh : BOOLEAN]]
      /\ slot'[home].no = n
      /\ slot'[home].link = linkOf[w]
      /\ \A s \in Slots : s # home => slot'[s] = slot[s]
  <2>1. [no |-> n, link |-> linkOf[w], fresh |-> TRUE]
          \in [no : Creds, link : Links, fresh : BOOLEAN]
    BY <1>0, <1>n
  <2>2. QED
    BY <2>1, <1>0, <1>b DEF CredTypeBase
<1>4. CredTypeBase'
  BY <1>0, <1>a, <1>b, <1>1, <1>2, <1>3 DEF CredTypeBase, proxyVars
<1>5. Cardinality(InVk') \in 0..VkCap
  <2>1. InVk' \subseteq InVk
    BY <1>1, <1>a DEF InVk, AtVk
  <2>2. QED
    BY <2>1, <1>0, NobodyEnters
<1>6. FetchOnlyWhenNeeded'
  <2>1. \A v \in Workers : pc'[v] \in AtVk => v # w /\ pc[v] \in AtVk
    BY <1>1 DEF AtVk
  <2>2. ASSUME NEW v \in Workers, pc'[v] \in AtVk, Valid(v)'
        PROVE  Valid(v)
    <3>1. Fetching(home) = {w}
      BY <1>a DEF IInv, FetchOnlyWhenNeeded, AtVk
    <3>2. slotOf[v] # home /\ slotOf[v] \in Slots
      BY <2>1, <2>2, <3>1, PlacesAssumption DEF Fetching
    <3>3. QED
      BY <2>2, <3>2, <1>3 DEF Valid
  <2>3. QED
    BY <2>1, <2>2, NobodyFetches DEF IInv
<1>7. InOneSlot'
  BY <1>n, <1>3 DEF IInv, InOneSlot
<1>8. OwnLinkOnly'
  <2> SUFFICES ASSUME NEW v \in Workers, used'[v] # 0
               PROVE  /\ \A s \in Slots : slot'[s].no = used'[v] =>
                           s = slotOf[v] /\ slot'[s].link = linkOf[v]
                      /\ \A u \in Workers : used'[u] = used'[v] =>
                           slotOf[u] = slotOf[v] /\ linkOf[u] = linkOf[v]
    BY DEF OwnLinkOnly
  <2>1. CASE v = w
    BY <1>n, <2>1, <1>2, <1>3
  <2>2. CASE v # w
    BY <1>n, <2>2, <1>2, <1>3 DEF IInv, OwnLinkOnly
  <2>3. QED
    BY <2>1, <2>2
<1>9. QED
  BY <1>4, <1>5, <1>6, <1>7, <1>8 DEF IInv, CredTypeOK

(* Expire: like the end of the TTL, and the worker goes on.                *)
LEMMA ExpireInv ==
  ASSUME IInv, NEW w \in Workers, Expire(w)
  PROVE  IInv'
<1> USE DEF Expire
<1>0. CredTypeBase /\ CredTypeOK
  BY DEF IInv, CredTypeOK
<1>1. /\ pc' \in [Workers -> Places]
      /\ pc'[w] = "idle"
      /\ \A v \in Workers : v # w => pc'[v] = pc[v]
  BY <1>0, Moved DEF Places
<1>2. /\ slot' \in [Slots -> [no : Creds, link : Links, fresh : BOOLEAN]]
      /\ \A s \in Slots : slot'[s] \in {slot[s], Empty}
  BY <1>0, PlacesAssumption, EmptyType DEF CredTypeBase
<1>3. CredTypeBase'
  BY <1>0, <1>1, <1>2 DEF CredTypeBase, proxyVars
<1>4. Cardinality(InVk') \in 0..VkCap
  <2>1. InVk' \subseteq InVk
    BY <1>1 DEF InVk, AtVk
  <2>2. QED
    BY <2>1, <1>0, NobodyEnters
<1>5. FetchOnlyWhenNeeded'
  <2>1. \A v \in Workers : pc'[v] \in AtVk => pc[v] \in AtVk
    BY <1>1 DEF AtVk
  <2>2. \A v \in Workers : Valid(v)' => Valid(v)
    BY <1>2, PlacesAssumption, EmptyType DEF Valid
  <2>3. QED
    BY <2>1, <2>2, NobodyFetches DEF IInv
<1>6. InOneSlot' /\ OwnLinkOnly'
  BY <1>2, NothingHanded, EmptyType
<1>7. QED
  BY <1>3, <1>4, <1>5, <1>6 DEF IInv, CredTypeOK

(* The steps of a worker that only move it.                                *)
LEMMA WalkInv ==
  ASSUME IInv, NEW w \in Workers,
         \/ Exit(w) \/ Miss(w) \/ MissCancelled(w) \/ NeedCaptcha(w)
         \/ AskCaptcha(w) \/ Solve(w) \/ FetchFails(w) \/ SessionEnds(w)
         \/ Rejected(w) \/ RefreshSkipped(w) \/ Refresh(w)
  PROVE  IInv'
<1>0. recent \in SUBSET Slots
  BY DEF IInv, CredTypeOK, CredTypeBase
<1>1. CASE Exit(w)
  BY <1>0, <1>1, Walk DEF Exit, Places, Vk, AtVk
<1>2. CASE Miss(w)
  BY <1>0, <1>2, Walk DEF Miss, Places, Vk, AtVk
<1>3. CASE MissCancelled(w)
  BY <1>0, <1>3, Walk DEF MissCancelled, Places, Vk, AtVk
<1>4. CASE NeedCaptcha(w)
  BY <1>0, <1>4, Walk DEF NeedCaptcha, Places, Vk, AtVk
<1>5. CASE AskCaptcha(w)
  BY <1>0, <1>5, Walk DEF AskCaptcha, Places, Vk, AtVk
<1>6. CASE Solve(w)
  BY <1>0, <1>6, Walk DEF Solve, Places, Vk, AtVk
<1>7. CASE FetchFails(w)
  BY <1>0, <1>7, Walk DEF FetchFails, Again, Places, Vk, AtVk
<1>8. CASE SessionEnds(w)
  BY <1>0, <1>8, Walk DEF SessionEnds, Again, Places, Vk, AtVk
<1>9. CASE Rejected(w)
  BY <1>0, <1>9, Walk DEF Rejected, Places, Vk, AtVk
<1>10. CASE RefreshSkipped(w)
  BY <1>0, <1>10, Walk DEF RefreshSkipped, Places, Vk, AtVk
<1>11. CASE Refresh(w)
  <2>1. recent' \in SUBSET Slots
    BY <1>0, <1>11, PlacesAssumption DEF Refresh
  <2>2. QED
    BY <1>11, <2>1, Walk DEF Refresh, Places, Vk, AtVk
<1>12. QED
  BY <1>1, <1>2, <1>3, <1>4, <1>5, <1>6, <1>7, <1>8, <1>9, <1>10, <1>11

(* The host, the clock and the servers.                                    *)
LEMMA BesideInv ==
  ASSUME IInv,
         \/ StopProxy \/ StartProxy
         \/ \E s \in Slots : Age(s) \/ ThrottlePasses(s)
         \/ \E c \in Creds : Spoil(c)
  PROVE  IInv'
<1>0. CredTypeBase
  BY DEF IInv, CredTypeOK
<1>1. CASE StopProxy
  BY <1>0, <1>1, Beside DEF StopProxy, CredTypeBase
<1>2. CASE StartProxy
  <2>1. now' \in 1..MaxProxy
    BY <1>0, <1>2, BoundsAssumption DEF StartProxy, CredTypeBase
  <2>2. QED
    BY <1>0, <1>2, <2>1, Beside DEF StartProxy, CredTypeBase
<1>3. ASSUME NEW s \in Slots, Age(s) PROVE IInv'
  <2>1. /\ slot' \in [Slots -> [no : Creds, link : Links, fresh : BOOLEAN]]
        /\ \A t \in Slots : slot'[t] \in {slot[t], Empty}
    BY <1>0, <1>3, EmptyType DEF Age, CredTypeBase
  <2>2. QED
    BY <1>0, <1>3, <2>1, Beside DEF Age, CredTypeBase, proxyVars
<1>4. ASSUME NEW s \in Slots, ThrottlePasses(s) PROVE IInv'
  BY <1>0, <1>4, Beside DEF ThrottlePasses, CredTypeBase, proxyVars
<1>5. ASSUME NEW c \in Creds, Spoil(c) PROVE IInv'
  BY <1>0, <1>5, Beside DEF Spoil, CredTypeBase, proxyVars
<1>6. QED
  BY <1>1, <1>2, <1>3, <1>4, <1>5

(* Every step keeps the invariant.                                         *)
LEMMA StepInv == IInv /\ [Next]_vars => IInv'
<1> SUFFICES ASSUME IInv, [Next]_vars PROVE IInv'
  OBVIOUS
<1>1. CASE UNCHANGED vars
  BY <1>1, Beside DEF vars, proxyVars, IInv, CredTypeOK, CredTypeBase
<1>2. ASSUME NEW w \in Workers, WorkerStep(w) \/ Enter(w) \/ Solve(w)
      PROVE  IInv'
  BY <1>2, EnterInv, HitInv, FetchOkInv, ExpireInv, WalkInv DEF WorkerStep, Locked
<1>3. CASE \/ StopProxy \/ StartProxy
           \/ \E s \in Slots : Age(s) \/ ThrottlePasses(s)
           \/ \E c \in Creds : Spoil(c)
  BY <1>3, BesideInv
<1>4. QED
  BY <1>1, <1>2, <1>3 DEF Next

LEMMA Invariant == Spec => []IInv
  BY InitInv, StepInv, PTL DEF Spec

-----------------------------------------------------------------------------
(* The variables keep their types, and never are more than two workers (in *)
(* general VkCap) past vkSemaphore.                                        *)
THEOREM TypeCorrect == Spec => []CredTypeOK
<1>1. IInv => CredTypeOK
  BY DEF IInv
<1>2. QED
  BY <1>1, Invariant, PTL

(* getCredsCached: one fetch for a slot at a time, and none for a slot     *)
(* that has a credential to offer.                                         *)
THEOREM SingleFlight == Spec => []FetchOnlyWhenNeeded
<1>1. IInv => FetchOnlyWhenNeeded
  BY DEF IInv
<1>2. QED
  BY <1>1, Invariant, PTL

(* getCredsCached: nobody gets the credential of another link or group,    *)
(* whatever the proxies left behind in the slots.                          *)
THEOREM CredentialOfOwnLink == Spec => []OwnLinkOnly
<1>1. IInv => OwnLinkOnly
  BY DEF IInv
<1>2. QED
  BY <1>1, Invariant, PTL
===============================================================================
