--------------------------- MODULE ProxyLifeProofs ---------------------------
(***************************************************************************)
(* Proofs about ProxyLife, for any number of proxies.                      *)
(***************************************************************************)
EXTENDS ProxyLife, TLAPS

IInv ==
  /\ LifeTypeOK
  /\ EveryProxyCanBeStopped
  /\ WaitsOnlyForTheCancelled
  /\ Published

USE MaxProxyAssumption DEF Proxies, Returned

LEMMA InitIInv == LifeInit => IInv
<1> SUFFICES ASSUME LifeInit
             PROVE  IInv
  OBVIOUS
<1> USE DEF LifeInit
<1>1. LifeTypeOK
  <2>1. 0 \in 0..MaxProxy
    OBVIOUS
  <2>2. mine \in [cancel : 0..MaxProxy, done : 0..MaxProxy]
    BY <2>1
  <2>3. /\ start \in [Proxies -> {"none"}]
        /\ groups \in [Proxies -> {"none"}]
    OBVIOUS
  <2>4. QED
    BY <2>1, <2>2, <2>3 DEF LifeTypeOK
<1>2. EveryProxyCanBeStopped
  BY DEF EveryProxyCanBeStopped, Alive
<1>3. WaitsOnlyForTheCancelled /\ Published
  BY DEF WaitsOnlyForTheCancelled, Published
<1>4. QED
  BY <1>1, <1>2, <1>3 DEF IInv

(* What StartProxy's own steps have in common: from inside StartProxy the  *)
(* proxy moves on inside it, or fails, and cancels nothing but itself.     *)
Moves(k) ==
  /\ \E from \in {"listen", "cert", "prefetch", "cascade", "publish", "select"},
        to \in {"cert", "prefetch", "cascade", "publish", "select", "failed",
                "ready"} : Advance(k, from, to)
  /\ dead' \in {dead, dead \cup {k}}
  /\ listening' \in {listening, listening \cup {k}}
  /\ groups' \in {groups, [groups EXCEPT ![k] = "running"]}
  /\ currentDone' \in {currentDone, k}
  /\ UNCHANGED <<hostVars, current>>

LEMMA StartMoves ==
  ASSUME NEW k \in Proxies, StartStep(k)
  PROVE  Refuse(k) \/ Register(k) \/ Moves(k)
<1>1. CASE Listen(k)
  BY <1>1 DEF Listen, Moves, Advance, globals
<1>2. CASE MakeCert(k)
  BY <1>2 DEF MakeCert, Moves, Advance, globals
<1>3. CASE PrefetchFails(k)
  BY <1>3 DEF PrefetchFails, Moves, Advance, globals
<1>4. CASE StartGroups(k)
  BY <1>4 DEF StartGroups, Moves, Advance, globals
<1>5. CASE AllStarted(k)
  BY <1>5 DEF AllStarted, Moves, Advance, globals
<1>6. CASE Publish(k)
  BY <1>6 DEF Publish, Moves, Advance, globals
<1>7. CASE Ready(k)
  BY <1>7 DEF Ready, Moves, Advance, globals
<1>8. CASE StartCancelled(k)
  BY <1>8 DEF StartCancelled, Moves, Advance, globals
<1>9. CASE StartTimeout(k)
  BY <1>9 DEF StartTimeout, Moves, Advance, globals
<1>10. QED
  BY <1>1, <1>2, <1>3, <1>4, <1>5, <1>6, <1>7, <1>8, <1>9 DEF StartStep

LEMMA MovesIInv ==
  ASSUME IInv, NEW k \in Proxies, Moves(k)
  PROVE  IInv'
<1> USE DEF Moves, Advance, hostVars
<1>1. LifeTypeOK'
  BY DEF IInv, LifeTypeOK
<1>2. /\ \A j \in Proxies : Registered(j) <=> Registered(j)'
      /\ \A j \in Proxies : Alive(j)' => Alive(j)
      /\ dead \subseteq dead'
      /\ Registered(k)
  BY DEF IInv, LifeTypeOK, Registered, Alive
<1>3. EveryProxyCanBeStopped'
  BY <1>2 DEF IInv, EveryProxyCanBeStopped
<1>4. WaitsOnlyForTheCancelled'
  BY <1>2 DEF IInv, WaitsOnlyForTheCancelled
<1>5. Published'
  <2>1. \A j \in Proxies : j > count => start'[j] = "none"
    BY DEF IInv, LifeTypeOK, Published
  <2>2. \A j \in {current', currentDone', mine'.cancel, mine'.done} \ {0} :
          Registered(j)'
    BY <1>2 DEF IInv, LifeTypeOK, Published
  <2>3. QED
    BY <1>2, <2>1, <2>2 DEF IInv, Published
<1>6. QED
  BY <1>1, <1>3, <1>4, <1>5 DEF IInv

LEMMA RegisterIInv ==
  ASSUME IInv, NEW k \in Proxies, Register(k)
  PROVE  IInv'
<1> USE DEF Register, Advance, hostVars
<1>1. LifeTypeOK'
  BY DEF IInv, LifeTypeOK
<1>2. /\ \A j \in Proxies : Registered(j) => Registered(j)'
      /\ \A j \in Proxies : Alive(j)' => Alive(j) \/ j = k
      /\ dead \subseteq dead'
      /\ Registered(k)'
  BY DEF IInv, LifeTypeOK, Registered, Alive
<1>3. EveryProxyCanBeStopped'
  <2> SUFFICES ASSUME NEW j \in Proxies, Alive(j)', j # k
               PROVE  host = "cancel" /\ j = mine.cancel
    BY DEF EveryProxyCanBeStopped
  <2>1. j # current
    BY DEF Alive
  <2>2. QED
    BY <1>2, <2>1 DEF IInv, EveryProxyCanBeStopped
<1>4. WaitsOnlyForTheCancelled'
  BY <1>2 DEF IInv, WaitsOnlyForTheCancelled
<1>5. Published'
  <2>1. \A j \in Proxies : j > count => start'[j] = "none"
    BY DEF IInv, LifeTypeOK, Published
  <2>2. \A j \in {current', currentDone', mine'.cancel, mine'.done} \ {0} :
          Registered(j)'
    BY <1>2 DEF IInv, LifeTypeOK, Published
  <2>3. QED
    BY <1>2, <2>1, <2>2 DEF IInv, Published
<1>6. QED
  BY <1>1, <1>3, <1>4, <1>5 DEF IInv

(* StopProxy takes both globals.  If the done channel is not that of the   *)
(* proxy it cancels, its owner is registered and not current, hence dead.  *)
LEMMA SwapIInv ==
  ASSUME IInv, StopSwap
  PROVE  IInv'
<1> USE DEF StopSwap
<1>1. LifeTypeOK'
  BY DEF IInv, LifeTypeOK
<1>2. UNCHANGED <<start, dead, count>>
  OBVIOUS
<1>3. EveryProxyCanBeStopped'
  <2> SUFFICES ASSUME NEW j \in Proxies, Alive(j)
               PROVE  host' = "cancel" /\ j = mine'.cancel
    BY <1>2 DEF EveryProxyCanBeStopped, Alive
  <2>1. j = current
    BY DEF IInv, EveryProxyCanBeStopped
  <2>2. QED
    BY <2>1
<1>4. WaitsOnlyForTheCancelled'
  BY DEF WaitsOnlyForTheCancelled
<1>5. Published'
  <2>1. \A j \in {current', currentDone', mine'.cancel, mine'.done} \ {0} :
          Registered(j)'
    BY <1>2 DEF IInv, Published, Registered
  <2>2. ASSUME mine'.done # 0, mine'.done # mine'.cancel
        PROVE  mine'.done \in dead'
    <3>1. Registered(currentDone)
      BY <2>2 DEF IInv, Published
    <3>2. ~Alive(currentDone)
      BY <2>2, <3>1 DEF IInv, EveryProxyCanBeStopped, Registered
    <3>3. QED
      BY <3>1, <3>2 DEF Alive, Registered
  <2>3. QED
    BY <1>2, <2>1, <2>2 DEF IInv, Published
<1>6. QED
  BY <1>1, <1>3, <1>4, <1>5 DEF IInv

LEMMA StepIInv == IInv /\ [LifeNext]_lifeVars => IInv'
<1> SUFFICES ASSUME IInv, [LifeNext]_lifeVars
             PROVE  IInv'
  OBVIOUS
<1>1. CASE Launch
  <2>1. /\ count + 1 \in Proxies
        /\ start[count + 1] = "none"
    BY <1>1 DEF IInv, LifeTypeOK, Published, Launch
  <2>2. LifeTypeOK'
    <3>1. /\ count' \in 0..MaxProxy
          /\ host' = "up"
          /\ UNCHANGED <<mine, dead, current, currentDone, groups, listening>>
      BY <1>1, <2>1 DEF IInv, LifeTypeOK, Launch, globals
    <3>2. /\ start' = [start EXCEPT ![count + 1] = "begin"]
          /\ start \in [Proxies -> {"none", "begin", "listen", "cert", "prefetch",
                                 "cascade", "publish", "select"} \cup Returned]
      BY <1>1 DEF IInv, LifeTypeOK, Launch
    <3>3. start' \in [Proxies -> {"none", "begin", "listen", "cert", "prefetch",
                              "cascade", "publish", "select"} \cup Returned]
      BY <3>2
    <3>4. QED
      BY <3>1, <3>3 DEF IInv, LifeTypeOK
  <2>3. /\ \A j \in Proxies : Registered(j) => Registered(j)'
        /\ \A j \in Proxies : Alive(j)' => Alive(j)
    BY <1>1, <2>1 DEF IInv, LifeTypeOK, Registered, Alive, Launch
  <2>4. EveryProxyCanBeStopped'
    BY <1>1, <2>3 DEF IInv, EveryProxyCanBeStopped, Launch, globals
  <2>5. WaitsOnlyForTheCancelled'
    BY <1>1 DEF WaitsOnlyForTheCancelled, Launch
  <2>6. Published'
    <3>1. \A j \in Proxies : j > count' => start'[j] = "none"
      BY <1>1, <2>1 DEF IInv, LifeTypeOK, Published, Launch
    <3>2. \A j \in {current', currentDone', mine'.cancel, mine'.done} \ {0} :
            Registered(j)'
      BY <1>1, <2>3 DEF IInv, LifeTypeOK, Published, Registered, Launch, globals
    <3>3. QED
      BY <1>1, <3>1, <3>2 DEF Published, Launch
  <2>7. QED
    BY <2>2, <2>4, <2>5, <2>6 DEF IInv
<1>2. CASE StopSwap
  BY <1>2, SwapIInv
<1>3. CASE StopCancel
  <2>1. LifeTypeOK'
    <3>1. mine.cancel \in Proxies
      BY <1>3 DEF IInv, Published, Registered, StopCancel
    <3>2. QED
      BY <1>3, <3>1 DEF IInv, LifeTypeOK, StopCancel, globals
  <2>2. EveryProxyCanBeStopped'
    BY <1>3 DEF IInv, EveryProxyCanBeStopped, Alive, StopCancel, globals
  <2>3. WaitsOnlyForTheCancelled'
    BY <1>3 DEF IInv, WaitsOnlyForTheCancelled, Published, StopCancel
  <2>4. Published'
    BY <1>3 DEF IInv, Published, Registered, StopCancel, globals
  <2>5. QED
    BY <2>1, <2>2, <2>3, <2>4 DEF IInv
<1>4. CASE StopDone \/ StopTimeout
  <2> USE <1>4 DEF StopDone, StopTimeout, globals
  <2>1. LifeTypeOK'
    BY DEF IInv, LifeTypeOK
  <2>2. EveryProxyCanBeStopped'
    BY DEF IInv, EveryProxyCanBeStopped, Alive
  <2>3. WaitsOnlyForTheCancelled'
    BY DEF WaitsOnlyForTheCancelled
  <2>4. Published'
    BY DEF IInv, Published, Registered
  <2>5. QED
    BY <2>1, <2>2, <2>3, <2>4 DEF IInv
<1>5. ASSUME NEW k \in Proxies, StartStep(k)
      PROVE  IInv'
  <2>1. CASE Refuse(k)
    <3> USE <2>1 DEF Refuse, Advance, hostVars, globals
    <3>1. LifeTypeOK'
      BY DEF IInv, LifeTypeOK
    <3>2. EveryProxyCanBeStopped'
      BY DEF IInv, LifeTypeOK, EveryProxyCanBeStopped, Alive
    <3>3. WaitsOnlyForTheCancelled'
      BY DEF IInv, WaitsOnlyForTheCancelled
    <3>4. Published'
      BY DEF IInv, LifeTypeOK, Published, Registered
    <3>5. QED
      BY <3>1, <3>2, <3>3, <3>4 DEF IInv
  <2>2. CASE Register(k)
    BY <2>2, RegisterIInv
  <2>3. CASE Moves(k)
    BY <2>3, MovesIInv
  <2>4. QED
    BY <1>5, <2>1, <2>2, <2>3, StartMoves
<1>6. ASSUME NEW k \in Proxies, CloseListener(k) \/ Drain(k)
      PROVE  IInv'
  <2> USE <1>6 DEF CloseListener, Drain, hostVars, globals
  <2>1. LifeTypeOK'
    BY DEF IInv, LifeTypeOK
  <2>2. EveryProxyCanBeStopped'
    BY DEF IInv, EveryProxyCanBeStopped, Alive
  <2>3. WaitsOnlyForTheCancelled'
    BY DEF IInv, WaitsOnlyForTheCancelled
  <2>4. Published'
    BY DEF IInv, Published, Registered
  <2>5. QED
    BY <2>1, <2>2, <2>3, <2>4 DEF IInv
<1>7. CASE UNCHANGED lifeVars
  BY <1>7 DEF lifeVars, hostVars, globals, IInv, LifeTypeOK, EveryProxyCanBeStopped,
              Alive, WaitsOnlyForTheCancelled, Published, Registered
<1>8. QED
  BY <1>1, <1>2, <1>3, <1>4, <1>5, <1>6, <1>7 DEF LifeNext

LEMMA Inductive == LifeSpec => []IInv
  BY InitIInv, StepIInv, PTL DEF LifeSpec

(* The variables of StartProxy and StopProxy keep their types; among other *)
(* things no nil function is ever called.                                  *)
THEOREM TypeCorrect == LifeSpec => []LifeTypeOK
<1>1. IInv => LifeTypeOK
  BY DEF IInv
<1>2. QED
  BY <1>1, Inductive, PTL

(* A proxy that runs can be cancelled by whoever comes next, however       *)
(* StartProxy, StopProxy and their successors interleave.                  *)
THEOREM NoProxyLost == LifeSpec => []EveryProxyCanBeStopped
<1>1. IInv => EveryProxyCanBeStopped
  BY DEF IInv
<1>2. QED
  BY <1>1, Inductive, PTL

(* StopProxy waits for no proxy but a cancelled one, also when an older    *)
(* StartProxy has published its done channel over the current one.         *)
THEOREM WaitIsForTheDying == LifeSpec => []WaitsOnlyForTheCancelled
<1>1. IInv => WaitsOnlyForTheCancelled
  BY DEF IInv
<1>2. QED
  BY <1>1, Inductive, PTL
==============================================================================
