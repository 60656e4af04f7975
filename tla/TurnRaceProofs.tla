---------------------------- MODULE TurnRaceProofs ----------------------------
(***************************************************************************)
(* Proofs about TurnRace, for any number of streams, calls and servers and *)
(* any capacity of allocSemaphore.                                         *)
(***************************************************************************)
EXTENDS TurnRace, FiniteSetTheorems, TLAPS

(* The types of the variables, without the bound of the semaphore.         *)
Types ==
  /\ cancelled \in BOOLEAN
  /\ worker \in [Streams -> {"ready", "busy", "exited"}]
  /\ main \in [Calls -> {"idle", "race", "session", "over"}]
  /\ list \in [Calls -> SUBSET Servers]
  /\ cand \in [Calls -> [Servers -> CandStates]]
  /\ once \in [Calls -> BOOLEAN]
  /\ reaper \in [Calls -> BOOLEAN]

(* The inductive invariant.                                                *)
IInv ==
  /\ TypeOK
  /\ EveryAllocationHasOwner
  /\ OneWinner
  /\ FailoverAfterFailure
  /\ NeverWaitsForNobody
  /\ OneCallAtATime
  /\ Settled

-----------------------------------------------------------------------------
(* What moving one candidate does to cand.                                 *)
LEMMA CandMove ==
  ASSUME Types, NEW c \in Calls, NEW a \in Servers, NEW to \in CandStates,
         Move(c, a, to)
  PROVE  /\ cand' \in [Calls -> [Servers -> CandStates]]
         /\ cand'[c][a] = to
         /\ \A b \in Servers : b # a => cand'[c][b] = cand[c][b]
         /\ \A d \in Calls : d # c => cand'[d] = cand[d]
  BY DEF Types, Move

(* The same for all candidates of one call.                                *)
LEMMA CandRow ==
  ASSUME Types, NEW c \in Calls, NEW f \in [Servers -> CandStates],
         cand' = [cand EXCEPT ![c] = f]
  PROVE  /\ cand' \in [Calls -> [Servers -> CandStates]]
         /\ \A b \in Servers : cand'[c][b] = f[b]
         /\ \A d \in Calls : d # c => cand'[d] = cand[d]
  BY DEF Types

(* Every actor of a step is a call with a stream among Streams.            *)
LEMMA StreamOf == \A c \in Calls : c[1] \in Streams
  BY DEF Calls

(* The end of a call, as runWithCreds returns to its worker.               *)
LEMMA ReturnStep ==
  ASSUME Types, NEW c \in Calls, Return(c)
  PROVE  /\ main' \in [Calls -> {"idle", "race", "session", "over"}]
         /\ worker' \in [Streams -> {"ready", "busy", "exited"}]
         /\ main'[c] = "over"
         /\ \A d \in Calls : d # c => main'[d] = main[d]
         /\ \A s \in Streams : s # c[1] => worker'[s] = worker[s]
  BY StreamOf DEF Types, Return

(* The invariant holds in the initial states.                              *)
LEMMA InitInv == RaceInit => IInv
<1> SUFFICES ASSUME RaceInit PROVE IInv
  OBVIOUS
<1>1. Types
  BY DEF RaceInit, Types, CandStates, Working
<1>2. Cardinality(Allocating) \in 0..AllocCap
  <2>1. Allocating = {}
    BY DEF RaceInit, Allocating, Calls
  <2>2. QED
    BY <2>1, FS_EmptySet, AllocCapAssumption
<1>3. TypeOK
  BY <1>1, <1>2 DEF TypeOK, Types
<1>4. QED
  BY <1>3 DEF RaceInit, IInv, EveryAllocationHasOwner, OneWinner, Active,
              FailoverAfterFailure, NeverWaitsForNobody, OneCallAtATime, Settled

-----------------------------------------------------------------------------
(* allocSemaphore: a step that lets nobody in keeps the bound, and Enter,  *)
(* which lets one in, looks at it first.                                   *)
LEMMA SemaphoreFinite == IsFiniteSet(Allocating)
<1>1. IsFiniteSet(Calls \X Servers)
  BY FiniteAssumption, FS_Product DEF Calls
<1>2. QED
  BY <1>1, FS_Subset DEF Allocating

LEMMA NobodyEnters ==
  ASSUME TypeOK, Allocating' \subseteq Allocating
  PROVE  Cardinality(Allocating') \in 0..AllocCap
<1>1. /\ Cardinality(Allocating') \in Nat
      /\ Cardinality(Allocating') <= Cardinality(Allocating)
  BY SemaphoreFinite, FS_Subset, FS_CardinalityType
<1>2. QED
  BY <1>1, AllocCapAssumption DEF TypeOK

(* The calls of one stream stay one at a time when no call begins.         *)
LEMMA OneCallKept ==
  ASSUME OneCallAtATime, NEW c \in Calls,
         \A d \in Calls : Active(d)' => Active(d),
         \A d \in Calls : Active(d)' => worker'[d[1]] = worker[d[1]]
  PROVE  OneCallAtATime'
  BY DEF OneCallAtATime

(* A step of one candidate that neither wins nor enters, and takes nothing *)
(* from the call: Dial, AbortWait, Allocate, CloseSurplus.                 *)
LEMMA SideStep ==
  ASSUME IInv, NEW c \in Calls, NEW a \in Servers,
         NEW to \in {"sem", "err", "got", "closed"}, Move(c, a, to),
         cand[c][a] \in {"dial", "sem", "alloc", "lost"},
         (to = "closed") = (cand[c][a] = "lost"),
         UNCHANGED <<cancelled, worker, main, list, once, reaper>>
  PROVE  IInv'
<1> USE DEF IInv
<1>0. Types
  BY DEF TypeOK, Types
<1>1. /\ cand' \in [Calls -> [Servers -> CandStates]]
      /\ cand'[c][a] = to
      /\ \A b \in Servers : b # a => cand'[c][b] = cand[c][b]
      /\ \A d \in Calls : d # c => cand'[d] = cand[d]
  BY <1>0, CandMove DEF CandStates, Working
<1>2. TypeOK'
  <2>1. Allocating' \subseteq Allocating
    BY <1>1 DEF Allocating
  <2>2. QED
    BY <1>1, <2>1, NobodyEnters DEF TypeOK
<1>3. EveryAllocationHasOwner'
  BY <1>1 DEF EveryAllocationHasOwner
<1>4. OneWinner'
  BY <1>1 DEF OneWinner
<1>5. FailoverAfterFailure'
  BY <1>1 DEF FailoverAfterFailure
<1>6. NeverWaitsForNobody'
  <2> SUFFICES ASSUME NEW d \in Calls, main[d] = "race"
               PROVE  \E b \in Servers : cand'[d][b] \in Working \cup {"err", "won"}
    BY DEF NeverWaitsForNobody
  <2>1. CASE d # c
    BY <2>1, <1>1 DEF NeverWaitsForNobody
  <2>2. CASE d = c /\ to # "closed"
    BY <2>2, <1>1 DEF Working
  <2>3. CASE d = c /\ to = "closed"
    BY <2>3, <1>1 DEF Settled
  <2>4. QED
    BY <2>1, <2>2, <2>3
<1>7. OneCallAtATime'
  BY OneCallKept DEF Active
<1>8. Settled'
  BY <1>1 DEF Settled
<1>9. QED
  BY <1>2, <1>3, <1>4, <1>5, <1>6, <1>7, <1>8

(* Enter, the step that looks at the semaphore.                            *)
LEMMA EnterInv ==
  ASSUME IInv, NEW c \in Calls, NEW a \in Servers, Enter(c, a)
  PROVE  IInv'
<1> USE DEF IInv, Enter
<1>0. Types
  BY DEF TypeOK, Types
<1>1. /\ cand' \in [Calls -> [Servers -> CandStates]]
      /\ cand'[c][a] = "alloc"
      /\ \A b \in Servers : b # a => cand'[c][b] = cand[c][b]
      /\ \A d \in Calls : d # c => cand'[d] = cand[d]
  BY <1>0, CandMove DEF CandStates, Working
<1>2. TypeOK'
  <2>1. Allocating' = Allocating \cup {<<c, a>>}
    BY <1>1 DEF Allocating
  <2>2. <<c, a>> \notin Allocating
    BY DEF Allocating
  <2>3. Cardinality(Allocating') = Cardinality(Allocating) + 1
    BY <2>1, <2>2, SemaphoreFinite, FS_AddElement
  <2>4. Cardinality(Allocating') \in 0..AllocCap
    BY <2>3, AllocCapAssumption DEF TypeOK
  <2>5. QED
    BY <1>1, <2>4 DEF TypeOK
<1>3. EveryAllocationHasOwner'
  BY <1>1 DEF EveryAllocationHasOwner
<1>4. OneWinner'
  BY <1>1 DEF OneWinner
<1>5. FailoverAfterFailure'
  BY <1>1 DEF FailoverAfterFailure
<1>6. NeverWaitsForNobody'
  BY <1>1 DEF NeverWaitsForNobody, Working
<1>7. OneCallAtATime'
  BY OneCallKept DEF Active
<1>8. Settled'
  BY <1>1 DEF Settled
<1>9. QED
  BY <1>2, <1>3, <1>4, <1>5, <1>6, <1>7, <1>8

(* once.Do: the first candidate wins, for a call that still receives or    *)
(* has a reaper; any other one has a winner before it.                     *)
LEMMA ClaimInv ==
  ASSUME IInv, NEW c \in Calls, NEW a \in Servers, Claim(c, a)
  PROVE  IInv'
<1> USE DEF IInv, Claim
<1>0. Types
  BY DEF TypeOK, Types
<1>a. (IF once[c] THEN "lost" ELSE "won") \in CandStates
  BY DEF CandStates, Working
<1>1. /\ cand' \in [Calls -> [Servers -> CandStates]]
      /\ cand'[c][a] = IF once[c] THEN "lost" ELSE "won"
      /\ \A b \in Servers : b # a => cand'[c][b] = cand[c][b]
      /\ \A d \in Calls : d # c => cand'[d] = cand[d]
  BY <1>0, <1>a, CandMove
<1>b. /\ once' \in [Calls -> BOOLEAN]
      /\ once'[c]
      /\ \A d \in Calls : d # c => once'[d] = once[d]
  BY DEF TypeOK
<1>2. TypeOK'
  <2>1. Allocating' \subseteq Allocating
    BY <1>1 DEF Allocating
  <2>2. QED
    BY <1>1, <1>b, <2>1, NobodyEnters DEF TypeOK
<1>3. EveryAllocationHasOwner'
  <2>1. ASSUME ~once[c] PROVE main[c] = "race" \/ reaper[c]
    <3>1. main[c] \in {"idle", "race", "session", "over"}
      BY DEF TypeOK
    <3>2. main[c] # "idle"
      BY DEF Settled
    <3>3. main[c] # "session"
      BY <2>1 DEF Settled
    <3>4. main[c] = "over" => reaper[c]
      BY <2>1 DEF Settled
    <3>5. QED
      BY <3>1, <3>2, <3>3, <3>4
  <2>2. QED
    BY <1>1, <2>1 DEF EveryAllocationHasOwner
<1>4. OneWinner'
  BY <1>1 DEF OneWinner, Settled
<1>5. FailoverAfterFailure'
  BY <1>1 DEF FailoverAfterFailure
<1>6. NeverWaitsForNobody'
  BY <1>1 DEF NeverWaitsForNobody, Working
<1>7. OneCallAtATime'
  BY OneCallKept DEF Active
<1>8. Settled'
  <2>1. /\ main[c] # "idle"
        /\ main[c] = "session" => \E b \in Servers : cand'[c][b] = "held"
    BY <1>1 DEF Settled
  <2>2. main[c] = "race" => \E b \in Servers : cand'[c][b] = "won"
    <3>1. CASE once[c]
      BY <3>1, <1>1 DEF Settled
    <3>2. CASE ~once[c]
      BY <3>2, <1>1
    <3>3. QED
      BY <3>1, <3>2
  <2>3. \A b \in Servers : cand'[c][b] # "off" => b \in list[c]
    BY <1>1 DEF Settled
  <2>4. QED
    BY <1>1, <1>b, <2>1, <2>2, <2>3 DEF Settled
<1>9. QED
  BY <1>2, <1>3, <1>4, <1>5, <1>6, <1>7, <1>8

(* The winner leaves winCh for runSession.                                 *)
LEMMA TakeWinnerInv ==
  ASSUME IInv, NEW c \in Calls, NEW a \in Servers, TakeWinner(c, a)
  PROVE  IInv'
<1> USE DEF IInv, TakeWinner
<1>0. Types
  BY DEF TypeOK, Types
<1>1. /\ cand' \in [Calls -> [Servers -> CandStates]]
      /\ cand'[c][a] = "held"
      /\ \A b \in Servers : b # a => cand'[c][b] = cand[c][b]
      /\ \A d \in Calls : d # c => cand'[d] = cand[d]
  BY <1>0, CandMove DEF CandStates, Working
<1>a. /\ main' \in [Calls -> {"idle", "race", "session", "over"}]
      /\ main'[c] = "session"
      /\ \A d \in Calls : d # c => main'[d] = main[d]
  BY DEF TypeOK
<1>2. TypeOK'
  <2>1. Allocating' \subseteq Allocating
    BY <1>1 DEF Allocating
  <2>2. QED
    BY <1>1, <1>a, <2>1, NobodyEnters DEF TypeOK
<1>3. EveryAllocationHasOwner'
  <2>1. \A b \in Servers : b # a => cand[c][b] \notin {"won", "held"}
    BY DEF OneWinner
  <2>2. QED
    BY <1>1, <1>a, <2>1 DEF EveryAllocationHasOwner
<1>4. OneWinner'
  BY <1>1 DEF OneWinner
<1>5. FailoverAfterFailure'
  BY <1>1 DEF FailoverAfterFailure
<1>6. NeverWaitsForNobody'
  BY <1>1, <1>a DEF NeverWaitsForNobody
<1>7. OneCallAtATime'
  BY <1>a, OneCallKept DEF Active
<1>8. Settled'
  BY <1>1, <1>a DEF Settled
<1>9. QED
  BY <1>2, <1>3, <1>4, <1>5, <1>6, <1>7, <1>8

(* The first error: every server of the list is dialed.                    *)
LEMMA FanOutInv ==
  ASSUME IInv, NEW c \in Calls, NEW a \in Servers, FanOut(c, a)
  PROVE  IInv'
<1> USE DEF IInv, FanOut
<1> DEFINE f == [x \in Servers |->
                   CASE x = a -> "seen"
                     [] x # a /\ x \in list[c] /\ cand[c][x] = "off" -> "dial"
                     [] OTHER -> cand[c][x]]
<1>0. Types
  BY DEF TypeOK, Types
<1>a. f \in [Servers -> CandStates]
  BY <1>0 DEF Types, CandStates, Working
<1>1. /\ cand' \in [Calls -> [Servers -> CandStates]]
      /\ \A b \in Servers : cand'[c][b] = f[b]
      /\ \A d \in Calls : d # c => cand'[d] = cand[d]
  <2> HIDE DEF f
  <2>1. cand' = [cand EXCEPT ![c] = f]
    BY DEF f
  <2>2. QED
    BY <1>0, <1>a, <2>1, CandRow
<1>b. /\ cand'[c][a] = "seen"
      /\ \A b \in Servers : b # a /\ cand[c][b] # "off" => cand'[c][b] = cand[c][b]
      /\ \A b \in Servers : b # a /\ cand[c][b] = "off" =>
           cand'[c][b] = IF b \in list[c] THEN "dial" ELSE "off"
  BY <1>1
<1> HIDE DEF f
<1>2. TypeOK'
  <2>1. Allocating' \subseteq Allocating
    BY <1>1, <1>b DEF Allocating
  <2>2. QED
    BY <1>1, <2>1, NobodyEnters DEF TypeOK
<1>3. EveryAllocationHasOwner'
  BY <1>1, <1>b DEF EveryAllocationHasOwner
<1>4. OneWinner'
  BY <1>1, <1>b DEF OneWinner
<1>5. FailoverAfterFailure'
  BY <1>1, <1>b DEF FailoverAfterFailure
<1>6. NeverWaitsForNobody'
  <2>1. PICK b \in Servers : b \in list[c] /\ cand[c][b] = "off"
    BY <1>0 DEF Fanned, Types
  <2>2. cand'[c][b] = "dial"
    BY <1>b, <2>1
  <2>3. QED
    BY <1>1, <2>2 DEF NeverWaitsForNobody, Working
<1>7. OneCallAtATime'
  BY OneCallKept DEF Active
<1>8. Settled'
  BY <1>1, <1>b DEF Settled
<1>9. QED
  BY <1>2, <1>3, <1>4, <1>5, <1>6, <1>7, <1>8

(* An error that is not the last one.                                      *)
LEMMA TakeErrorInv ==
  ASSUME IInv, NEW c \in Calls, NEW a \in Servers, TakeError(c, a)
  PROVE  IInv'
<1> USE DEF IInv, TakeError
<1>0. Types
  BY DEF TypeOK, Types
<1>1. /\ cand' \in [Calls -> [Servers -> CandStates]]
      /\ cand'[c][a] = "seen"
      /\ \A b \in Servers : b # a => cand'[c][b] = cand[c][b]
      /\ \A d \in Calls : d # c => cand'[d] = cand[d]
  BY <1>0, CandMove DEF CandStates, Working
<1>2. TypeOK'
  <2>1. Allocating' \subseteq Allocating
    BY <1>1 DEF Allocating
  <2>2. QED
    BY <1>1, <2>1, NobodyEnters DEF TypeOK
<1>3. EveryAllocationHasOwner'
  BY <1>1 DEF EveryAllocationHasOwner
<1>4. OneWinner'
  BY <1>1 DEF OneWinner
<1>5. FailoverAfterFailure'
  BY <1>1 DEF FailoverAfterFailure
<1>6. NeverWaitsForNobody'
  <2>1. PICK x \in Servers : x \in list[c] /\ x # a /\ cand[c][x] # "seen"
    BY <1>0 DEF Others, Types
  <2>2. cand[c][x] \in Working \cup {"err", "won", "held", "closed"}
    BY <1>0, <2>1 DEF Fanned, Types, CandStates
  <2>3. cand[c][x] # "held"
    BY DEF EveryAllocationHasOwner
  <2>4. cand[c][x] = "closed" => \E b \in Servers : cand[c][b] = "won"
    BY DEF Settled
  <2>5. \E b \in Servers : cand'[c][b] \in Working \cup {"err", "won"}
    BY <1>1, <2>1, <2>2, <2>3, <2>4
  <2>6. QED
    BY <1>1, <2>5 DEF NeverWaitsForNobody
<1>7. OneCallAtATime'
  BY OneCallKept DEF Active
<1>8. Settled'
  BY <1>1 DEF Settled
<1>9. QED
  BY <1>2, <1>3, <1>4, <1>5, <1>6, <1>7, <1>8

(* A call that returns was the only one its worker waited for.             *)
LEMMA ReturnOneCall ==
  ASSUME IInv, NEW c \in Calls, Active(c), Return(c)
  PROVE  OneCallAtATime'
<1>0. Types
  BY DEF IInv, TypeOK, Types
<1>1. \A d \in Calls : Active(d)' => Active(d) /\ d # c
  BY <1>0, ReturnStep DEF Active
<1>2. \A d \in Calls : Active(d)' => d[1] # c[1]
  BY <1>1 DEF IInv, OneCallAtATime
<1>3. \A d \in Calls : Active(d)' => worker'[d[1]] = worker[d[1]]
  BY <1>0, <1>2, ReturnStep, StreamOf
<1>4. QED
  BY <1>1, <1>3, OneCallKept DEF IInv

(* The last error: nobody is left, so nothing is left behind.              *)
LEMMA AllFailedInv ==
  ASSUME IInv, NEW c \in Calls, NEW a \in Servers, AllFailed(c, a)
  PROVE  IInv'
<1> USE DEF IInv, AllFailed
<1>0. Types
  BY DEF TypeOK, Types
<1>1. /\ cand' \in [Calls -> [Servers -> CandStates]]
      /\ cand'[c][a] = "seen"
      /\ \A b \in Servers : b # a => cand'[c][b] = cand[c][b]
      /\ \A d \in Calls : d # c => cand'[d] = cand[d]
  BY <1>0, CandMove DEF CandStates, Working
<1>a. /\ main' \in [Calls -> {"idle", "race", "session", "over"}]
      /\ worker' \in [Streams -> {"ready", "busy", "exited"}]
      /\ main'[c] = "over"
      /\ \A d \in Calls : d # c => main'[d] = main[d]
  BY <1>0, ReturnStep
<1>b. \A b \in Servers : cand'[c][b] \in {"off", "seen"}
  BY <1>1 DEF Others, Settled
<1>2. TypeOK'
  <2>1. Allocating' \subseteq Allocating
    BY <1>1 DEF Allocating
  <2>2. QED
    BY <1>1, <1>a, <2>1, NobodyEnters DEF TypeOK
<1>3. EveryAllocationHasOwner'
  BY <1>1, <1>a, <1>b DEF EveryAllocationHasOwner
<1>4. OneWinner'
  BY <1>1 DEF OneWinner
<1>5. FailoverAfterFailure'
  BY <1>1 DEF FailoverAfterFailure
<1>6. NeverWaitsForNobody'
  BY <1>1, <1>a DEF NeverWaitsForNobody
<1>7. OneCallAtATime'
  BY ReturnOneCall DEF Active
<1>8. Settled'
  <2>1. \A b \in Servers : cand'[c][b] # "off" => b \in list[c]
    BY <1>1 DEF Settled
  <2>2. UNCHANGED <<list, once, reaper>>
    OBVIOUS
  <2>3. Settled
    OBVIOUS
  <2> HIDE DEF IInv, AllFailed
  <2>4. QED
    BY <1>1, <1>a, <1>b, <2>1, <2>2, <2>3 DEF Settled
<1>9. QED
  BY <1>2, <1>3, <1>4, <1>5, <1>6, <1>7, <1>8

(* The cancelled call leaves its reaper behind.                            *)
LEMMA AbandonInv ==
  ASSUME IInv, NEW c \in Calls, Abandon(c)
  PROVE  IInv'
<1> USE DEF IInv, Abandon
<1>0. Types
  BY DEF TypeOK, Types
<1>a. /\ main' \in [Calls -> {"idle", "race", "session", "over"}]
      /\ worker' \in [Streams -> {"ready", "busy", "exited"}]
      /\ main'[c] = "over"
      /\ \A d \in Calls : d # c => main'[d] = main[d]
  BY <1>0, ReturnStep
<1>b. /\ reaper' \in [Calls -> BOOLEAN]
      /\ reaper'[c]
      /\ \A d \in Calls : d # c => reaper'[d] = reaper[d]
  BY DEF TypeOK
<1>2. TypeOK'
  <2>1. Allocating' \subseteq Allocating
    BY DEF Allocating
  <2>2. QED
    BY <1>a, <1>b, <2>1, NobodyEnters DEF TypeOK
<1>3. EveryAllocationHasOwner'
  BY <1>a, <1>b DEF EveryAllocationHasOwner
<1>4. OneWinner'
  BY DEF OneWinner
<1>5. FailoverAfterFailure'
  BY DEF FailoverAfterFailure
<1>6. NeverWaitsForNobody'
  BY <1>a DEF NeverWaitsForNobody
<1>7. OneCallAtATime'
  BY ReturnOneCall DEF Active
<1>8. Settled'
  BY <1>a, <1>b DEF Settled
<1>9. QED
  BY <1>2, <1>3, <1>4, <1>5, <1>6, <1>7, <1>8

(* The end of a session releases the allocation it ran on.                 *)
LEMMA SessionEndsInv ==
  ASSUME IInv, NEW c \in Calls, NEW a \in Servers, SessionEnds(c, a)
  PROVE  IInv'
<1> USE DEF IInv, SessionEnds
<1>0. Types
  BY DEF TypeOK, Types
<1>1. /\ cand' \in [Calls -> [Servers -> CandStates]]
      /\ cand'[c][a] = "closed"
      /\ \A b \in Servers : b # a => cand'[c][b] = cand[c][b]
      /\ \A d \in Calls : d # c => cand'[d] = cand[d]
  BY <1>0, CandMove DEF CandStates, Working
<1>a. /\ main' \in [Calls -> {"idle", "race", "session", "over"}]
      /\ worker' \in [Streams -> {"ready", "busy", "exited"}]
      /\ main'[c] = "over"
      /\ \A d \in Calls : d # c => main'[d] = main[d]
  BY <1>0, ReturnStep
<1>b. \A b \in Servers : b # a => cand[c][b] \notin {"won", "held"}
  BY DEF OneWinner
<1>2. TypeOK'
  <2>1. Allocating' \subseteq Allocating
    BY <1>1 DEF Allocating
  <2>2. QED
    BY <1>1, <1>a, <2>1, NobodyEnters DEF TypeOK
<1>3. EveryAllocationHasOwner'
  BY <1>1, <1>a, <1>b DEF EveryAllocationHasOwner
<1>4. OneWinner'
  BY <1>1 DEF OneWinner
<1>5. FailoverAfterFailure'
  BY <1>1 DEF FailoverAfterFailure
<1>6. NeverWaitsForNobody'
  BY <1>1, <1>a DEF NeverWaitsForNobody
<1>7. OneCallAtATime'
  BY ReturnOneCall DEF Active
<1>8. Settled'
  <2>1. once[c]
    BY DEF Settled
  <2>2. \A b \in Servers : cand'[c][b] # "off" => b \in list[c]
    BY <1>1 DEF Settled
  <2>3. UNCHANGED <<list, once, reaper>> /\ Settled
    OBVIOUS
  <2> HIDE DEF IInv, SessionEnds
  <2>4. QED
    BY <1>1, <1>a, <2>1, <2>2, <2>3 DEF Settled
<1>9. QED
  BY <1>2, <1>3, <1>4, <1>5, <1>6, <1>7, <1>8

(* The reaper waits for every candidate, so that no winner comes after it. *)
LEMMA ReapInv ==
  ASSUME IInv, NEW c \in Calls, Reap(c)
  PROVE  IInv'
<1> USE DEF IInv, Reap
<1> DEFINE f == [a \in Servers |-> IF cand[c][a] = "won" THEN "closed"
                                                        ELSE cand[c][a]]
<1>0. Types
  BY DEF TypeOK, Types
<1>a. f \in [Servers -> CandStates]
  BY <1>0 DEF Types, CandStates, Working
<1>1. /\ cand' \in [Calls -> [Servers -> CandStates]]
      /\ \A b \in Servers : cand'[c][b] = f[b]
      /\ \A d \in Calls : d # c => cand'[d] = cand[d]
  <2> HIDE DEF f
  <2>1. cand' = [cand EXCEPT ![c] = f]
    BY DEF f
  <2>2. QED
    BY <1>0, <1>a, <2>1, CandRow
<1>b. \A b \in Servers : cand'[c][b] = IF cand[c][b] = "won" THEN "closed"
                                                              ELSE cand[c][b]
  BY <1>1
<1> HIDE DEF f
<1>c. /\ reaper' \in [Calls -> BOOLEAN]
      /\ ~reaper'[c]
      /\ \A d \in Calls : d # c => reaper'[d] = reaper[d]
  BY DEF TypeOK
<1>d. main[c] = "over"
  BY DEF Settled
<1>2. TypeOK'
  <2>1. Allocating' \subseteq Allocating
    BY <1>1, <1>b DEF Allocating
  <2>2. QED
    BY <1>1, <1>c, <2>1, NobodyEnters DEF TypeOK
<1>3. EveryAllocationHasOwner'
  BY <1>1, <1>b, <1>c, <1>d DEF EveryAllocationHasOwner
<1>4. OneWinner'
  BY <1>1, <1>b DEF OneWinner
<1>5. FailoverAfterFailure'
  BY <1>1, <1>b DEF FailoverAfterFailure
<1>6. NeverWaitsForNobody'
  BY <1>1, <1>d DEF NeverWaitsForNobody
<1>7. OneCallAtATime'
  BY OneCallKept DEF Active
<1>8. Settled'
  <2>1. ~once[c] => \A b \in Servers : cand'[c][b] \in {"off", "err", "seen"}
    BY <1>1, <1>b DEF Settled, TypeOK, CandStates
  <2>2. \A b \in Servers :
          /\ cand'[c][b] \in {"won", "held", "lost", "closed"} => once[c]
          /\ cand'[c][b] # "off" => b \in list[c]
    BY <1>b DEF Settled
  <2>3. QED
    BY <1>1, <1>c, <1>d, <2>1, <2>2 DEF Settled
<1>9. QED
  BY <1>2, <1>3, <1>4, <1>5, <1>6, <1>7, <1>8

(* A new call starts with nobody at work from the one before.              *)
LEMMA BeginInv ==
  ASSUME IInv, NEW c \in Calls, Begin(c)
  PROVE  IInv'
<1>0. Types
  BY DEF IInv, TypeOK, Types
<1>a. PICK L \in SUBSET Servers, e \in Servers :
        /\ e \in L
        /\ list' = [list EXCEPT ![c] = L]
        /\ cand' = [cand EXCEPT ![c] =
                      [a \in Servers |-> IF a = e THEN "dial" ELSE "off"]]
  BY DEF Begin
<1> DEFINE f == [a \in Servers |-> IF a = e THEN "dial" ELSE "off"]
<1>b. f \in [Servers -> CandStates]
  BY DEF CandStates, Working
<1>1. /\ cand' \in [Calls -> [Servers -> CandStates]]
      /\ \A b \in Servers : cand'[c][b] = f[b]
      /\ \A d \in Calls : d # c => cand'[d] = cand[d]
  <2> HIDE DEF f
  <2>1. cand' = [cand EXCEPT ![c] = f]
    BY <1>a DEF f
  <2>2. QED
    BY <1>0, <1>b, <2>1, CandRow
<1>2. /\ cand'[c][e] = "dial"
      /\ \A b \in Servers : b # e => cand'[c][b] = "off"
  BY <1>1
<1> HIDE DEF f
<1>3. /\ list' \in [Calls -> SUBSET Servers]
      /\ e \in list'[c]
      /\ \A d \in Calls : d # c => list'[d] = list[d]
  BY <1>0, <1>a DEF Types
<1>4. /\ main' \in [Calls -> {"idle", "race", "session", "over"}]
      /\ main'[c] = "race"
      /\ \A d \in Calls : d # c => main'[d] = main[d]
  BY <1>0 DEF Types, Begin
<1>5. /\ worker[c[1]] = "ready"
      /\ worker' \in [Streams -> {"ready", "busy", "exited"}]
      /\ worker'[c[1]] = "busy"
      /\ \A s \in Streams : s # c[1] => worker'[s] = worker[s]
  BY <1>0, StreamOf DEF Types, Begin
<1>6. /\ once' \in [Calls -> BOOLEAN]
      /\ ~once'[c]
      /\ \A d \in Calls : d # c => once'[d] = once[d]
  BY <1>0 DEF Types, Begin
<1>7. UNCHANGED <<cancelled, reaper>> /\ ~reaper[c]
  BY DEF Begin, Quiet
<1>8. TypeOK'
  <2>1. Allocating' \subseteq Allocating
    BY <1>1, <1>2 DEF Allocating
  <2>2. QED
    BY <1>1, <1>3, <1>4, <1>5, <1>6, <1>7, <2>1, NobodyEnters DEF TypeOK, IInv
<1>9. EveryAllocationHasOwner'
  BY <1>1, <1>2, <1>4, <1>7 DEF EveryAllocationHasOwner, IInv
<1>10. OneWinner'
  BY <1>1, <1>2 DEF OneWinner, IInv
<1>11. FailoverAfterFailure'
  BY <1>1, <1>2 DEF FailoverAfterFailure, IInv
<1>12. NeverWaitsForNobody'
  BY <1>1, <1>2, <1>4 DEF NeverWaitsForNobody, Working, IInv
<1>13. OneCallAtATime'
  <2>1. \A d \in Calls : Active(d)' => d = c \/ Active(d)
    BY <1>4 DEF Active
  <2>2. \A d \in Calls : Active(d) => d[1] # c[1]
    BY <1>5 DEF IInv, OneCallAtATime
  <2>3. QED
    BY <1>5, <2>1, <2>2, StreamOf DEF IInv, OneCallAtATime
<1>14. Settled'
  <2>1. \A b \in Servers : /\ cand'[c][b] \in {"dial", "off"}
                           /\ cand'[c][b] # "off" => b \in list'[c]
    BY <1>2, <1>3
  <2>2. ~reaper'[c] /\ Settled /\ reaper' = reaper
    BY <1>7 DEF IInv
  <2> SUFFICES ASSUME NEW d \in Calls
               PROVE  /\ main'[d] = "idle" => \A b \in Servers : cand'[d][b] = "off"
                      /\ main'[d] = "session" =>
                           \E b \in Servers : cand'[d][b] = "held"
                      /\ main'[d] = "race" /\ once'[d] =>
                           \E b \in Servers : cand'[d][b] = "won"
                      /\ main'[d] = "over" /\ ~reaper'[d] /\ ~once'[d] =>
                           \A b \in Servers : cand'[d][b] \in {"off", "err", "seen"}
                      /\ \A b \in Servers :
                           /\ cand'[d][b] \in {"won", "held", "lost", "closed"}
                                => once'[d]
                           /\ cand'[d][b] # "off" => b \in list'[d]
                      /\ reaper'[d] => main'[d] = "over"
    BY DEF Settled
  <2>3. CASE d = c
    BY <2>1, <2>2, <2>3, <1>4, <1>6
  <2>4. CASE d # c
    BY <2>2, <2>4, <1>1, <1>3, <1>4, <1>6 DEF Settled
  <2>5. QED
    BY <2>3, <2>4
<1>15. QED
  BY <1>8, <1>9, <1>10, <1>11, <1>12, <1>13, <1>14 DEF IInv

(* The worker that leaves waits for no call.                               *)
LEMMA WorkerExitsInv ==
  ASSUME IInv, NEW s \in Streams, WorkerExits(s)
  PROVE  IInv'
<1> USE DEF IInv, WorkerExits
<1>1. Allocating' = Allocating
  BY DEF Allocating
<1>2. TypeOK'
  BY <1>1 DEF TypeOK
<1>3. OneCallAtATime'
  <2>1. \A d \in Calls : Active(d)' = Active(d)
    BY DEF Active
  <2>2. \A d \in Calls : Active(d) => worker'[d[1]] = "busy"
    BY StreamOf DEF OneCallAtATime, TypeOK
  <2>3. QED
    BY <2>1, <2>2 DEF OneCallAtATime
<1>4. QED
  BY <1>2, <1>3 DEF EveryAllocationHasOwner, OneWinner, FailoverAfterFailure,
                    NeverWaitsForNobody, Settled

(* The cancellation and steps that change nothing.                         *)
LEMMA CancelInv ==
  ASSUME IInv, Cancel \/ UNCHANGED raceVars
  PROVE  IInv'
<1>1. /\ UNCHANGED <<worker, main, list, cand, once, reaper>>
      /\ cancelled' = TRUE \/ cancelled' = cancelled
  BY DEF Cancel, raceVars
<1>2. Allocating' = Allocating
  BY <1>1 DEF Allocating
<1>3. TypeOK'
  BY <1>1, <1>2 DEF IInv, TypeOK
<1>4. QED
  BY <1>1, <1>3 DEF IInv, EveryAllocationHasOwner, OneWinner, Active,
        FailoverAfterFailure, NeverWaitsForNobody, OneCallAtATime, Settled

-----------------------------------------------------------------------------
(* Every step keeps the invariant.                                         *)
LEMMA StepInv == IInv /\ [RaceNext]_raceVars => IInv'
<1> SUFFICES ASSUME IInv, [RaceNext]_raceVars PROVE IInv'
  OBVIOUS
<1>1. CASE Cancel \/ UNCHANGED raceVars
  BY <1>1, CancelInv
<1>2. ASSUME NEW s \in Streams, WorkerExits(s) PROVE IInv'
  BY <1>2, WorkerExitsInv
<1>3. ASSUME NEW c \in Calls, Begin(c) \/ Abandon(c) \/ Reap(c) PROVE IInv'
  BY <1>3, BeginInv, AbandonInv, ReapInv
<1>4. ASSUME NEW c \in Calls, NEW a \in Servers,
             \/ TakeWinner(c, a) \/ FanOut(c, a) \/ TakeError(c, a)
             \/ AllFailed(c, a) \/ Enter(c, a) \/ SessionEnds(c, a)
      PROVE  IInv'
  BY <1>4, TakeWinnerInv, FanOutInv, TakeErrorInv, AllFailedInv, EnterInv,
     SessionEndsInv
<1>5. ASSUME NEW c \in Calls, NEW a \in Servers, CandStep(c, a) PROVE IInv'
  <2>1. CASE Dial(c, a)
    BY <2>1, SideStep DEF Dial
  <2>2. CASE AbortWait(c, a)
    BY <2>2, SideStep DEF AbortWait
  <2>3. CASE Allocate(c, a)
    BY <2>3, SideStep DEF Allocate
  <2>4. CASE CloseSurplus(c, a)
    BY <2>4, SideStep DEF CloseSurplus
  <2>5. CASE Claim(c, a)
    BY <2>5, ClaimInv
  <2>6. QED
    BY <1>5, <2>1, <2>2, <2>3, <2>4, <2>5 DEF CandStep
<1>6. QED
  BY <1>1, <1>2, <1>3, <1>4, <1>5 DEF RaceNext, CallStep

LEMMA Invariance == RaceSpec => []IInv
  BY InitInv, StepInv, PTL DEF RaceSpec

-----------------------------------------------------------------------------
(* Every variable keeps its type, and allocSemaphore its capacity.         *)
THEOREM TypeCorrect == RaceSpec => []TypeOK
<1>1. IInv => TypeOK
  BY DEF IInv
<1>2. QED
  BY <1>1, Invariance, PTL

(* No TURN allocation is left without somebody to release it, however the  *)
(* cancellation falls among the candidates (the reapRace of runWithCreds). *)
THEOREM NothingLeaks == RaceSpec => []EveryAllocationHasOwner
<1>1. IInv => EveryAllocationHasOwner
  BY DEF IInv
<1>2. QED
  BY <1>1, Invariance, PTL

(* One attempt has one winner: once.Do sends once to winCh.                *)
THEOREM WinnerUnique == RaceSpec => []OneWinner
<1>1. IInv => OneWinner
  BY DEF IInv
<1>2. QED
  BY <1>1, Invariance, PTL

(* Other servers are dialed only when the assigned one has failed.         *)
THEOREM NoLatencyRace == RaceSpec => []FailoverAfterFailure
<1>1. IInv => FailoverAfterFailure
  BY DEF IInv
<1>2. QED
  BY <1>1, Invariance, PTL

(* The select of runWithCreds always has something to wait for: counting   *)
(* errors against launched candidates never leaves it behind.              *)
THEOREM NoLostCall == RaceSpec => []NeverWaitsForNobody
<1>1. IInv => NeverWaitsForNobody
  BY DEF IInv
<1>2. QED
  BY <1>1, Invariance, PTL

-----------------------------------------------------------------------------
(* The refinement: what a step on call c does to the lease.  Serving(c) is *)
(* the value of LeaseOn at c.                                              *)
Serving(c) == {a \in Servers : cand[c][a] = "held"}

LEMMA At ==
  ASSUME NEW c \in Calls
  PROVE  LeasePhase[c] = Phase(c) /\ LeaseOpen[c] = Holding(c) /\ LeaseOn[c] = Serving(c)
  BY DEF LeasePhase, LeaseOpen, LeaseOn, Serving

LEMMA PhaseTo ==
  ASSUME NEW c \in Calls, NEW p, Phase(c)' = p,
         \A d \in Calls : d # c => main'[d] = main[d]
  PROVE  LeasePhase' = [LeasePhase EXCEPT ![c] = p]
<1>1. \A d \in Calls : Phase(d)' = IF d = c THEN p ELSE Phase(d)
  BY DEF Phase
<1>2. QED
  BY <1>1 DEF LeasePhase

LEMMA OpenTo ==
  ASSUME NEW c \in Calls, NEW S, Holding(c)' = S,
         \A d \in Calls : d # c => cand'[d] = cand[d]
  PROVE  LeaseOpen' = [LeaseOpen EXCEPT ![c] = S]
<1>1. \A d \in Calls : Holding(d)' = IF d = c THEN S ELSE Holding(d)
  BY DEF Holding
<1>2. QED
  BY <1>1 DEF LeaseOpen

LEMMA OnTo ==
  ASSUME NEW c \in Calls, NEW S, Serving(c)' = S,
         \A d \in Calls : d # c => cand'[d] = cand[d]
  PROVE  LeaseOn' = [LeaseOn EXCEPT ![c] = S]
<1>1. \A d \in Calls : Serving(d)' = IF d = c THEN S ELSE Serving(d)
  BY DEF Serving
<1>2. QED
  BY <1>1 DEF LeaseOn, Serving

LEMMA PhaseSame == main' = main => LeasePhase' = LeasePhase
  BY DEF LeasePhase, Phase

LEMMA OpenSame ==
  (\A c \in Calls : Holding(c)' = Holding(c)) => LeaseOpen' = LeaseOpen
  BY DEF LeaseOpen

LEMMA OnSame ==
  (\A c \in Calls : Serving(c)' = Serving(c)) => LeaseOn' = LeaseOn
  BY DEF LeaseOn, Serving

(* A call begins with no allocation of the one before.                     *)
LEMMA BeginTries ==
  ASSUME IInv, NEW c \in Calls, Begin(c)
  PROVE  Lease!Try(c)
<1>0. Types
  BY DEF IInv, TypeOK, Types
<1>a. PICK L \in SUBSET Servers, e \in Servers :
        cand' = [cand EXCEPT ![c] =
                   [a \in Servers |-> IF a = e THEN "dial" ELSE "off"]]
  BY DEF Begin
<1>1. /\ \A b \in Servers : cand'[c][b] \in {"dial", "off"}
      /\ \A d \in Calls : d # c => cand'[d] = cand[d]
  BY <1>0, <1>a DEF Types
<1>2. /\ Holding(c) = {}
      /\ \A d \in Calls : Holding(d)' = Holding(d)
      /\ \A d \in Calls : Serving(d)' = Serving(d)
  <2>1. \A b \in Servers : cand[c][b] \in {"off", "err", "seen", "closed"}
    BY DEF Begin, Quiet
  <2>2. QED
    BY <1>1, <2>1 DEF Holding, Serving
<1>3. main[c] \in {"idle", "over"}
  <2>1. worker[c[1]] # "busy"
    BY DEF Begin
  <2>2. ~Active(c)
    BY <2>1 DEF IInv, OneCallAtATime
  <2>3. QED
    BY <1>0, <2>2 DEF Active, Types
<1>4. Phase(c) \in {"idle", "over"}
  BY <1>3 DEF Phase
<1>5. /\ Phase(c)' = "trying"
      /\ \A d \in Calls : d # c => main'[d] = main[d]
  BY <1>0 DEF Types, Begin, Phase
<1>6. LeasePhase' = [LeasePhase EXCEPT ![c] = "trying"]
  BY <1>5, PhaseTo
<1>7. UNCHANGED <<LeaseOpen, LeaseOn, cancelled>>
  BY <1>2, OpenSame, OnSame DEF Begin
<1>8. QED
  BY <1>2, <1>4, <1>6, <1>7, At DEF Lease!Try

(* Steps of a candidate before it has an allocation, or with the one it    *)
(* keeps, are no steps of the lease.                                       *)
LEMMA CandStutters ==
  ASSUME IInv, NEW c \in Calls, NEW a \in Servers, NEW to \in CandStates,
         Move(c, a, to), UNCHANGED <<cancelled, main>>,
         to # "held", cand[c][a] # "held",
         (to \in {"got", "won", "lost"}) = (cand[c][a] \in {"got", "won", "lost"})
  PROVE  UNCHANGED Lease!leaseVars
<1>0. Types
  BY DEF IInv, TypeOK, Types
<1>1. /\ cand'[c][a] = to
      /\ \A b \in Servers : b # a => cand'[c][b] = cand[c][b]
      /\ \A d \in Calls : d # c => cand'[d] = cand[d]
  BY <1>0, CandMove
<1>2. \A d \in Calls : Holding(d)' = Holding(d) /\ Serving(d)' = Serving(d)
  BY <1>1 DEF Holding, Serving
<1>3. QED
  BY <1>2, PhaseSame, OpenSame, OnSame DEF Lease!leaseVars

(* Allocate succeeds.                                                      *)
LEMMA AllocateAcquires ==
  ASSUME IInv, NEW c \in Calls, NEW a \in Servers, Allocate(c, a)
  PROVE  [Lease!LeaseNext]_Lease!leaseVars
<1>0. Types
  BY DEF IInv, TypeOK, Types
<1>1. PICK to \in {"got", "err"} : Move(c, a, to)
  BY DEF Allocate
<1>2. CASE to = "err"
  <2>1. UNCHANGED Lease!leaseVars
    BY <1>1, <1>2, CandStutters DEF Allocate, CandStates, Working
  <2>2. QED
    BY <2>1
<1>3. CASE to = "got"
  <2>1. /\ cand'[c][a] = "got"
        /\ \A b \in Servers : b # a => cand'[c][b] = cand[c][b]
        /\ \A d \in Calls : d # c => cand'[d] = cand[d]
    BY <1>0, <1>1, <1>3, CandMove DEF CandStates, Working
  <2>2. /\ Holding(c)' = Holding(c) \cup {a}
        /\ \A d \in Calls : Serving(d)' = Serving(d)
    BY <2>1 DEF Holding, Serving, Allocate
  <2>3. /\ LeaseOpen' = [LeaseOpen EXCEPT ![c] = Holding(c) \cup {a}]
        /\ UNCHANGED <<LeasePhase, LeaseOn, cancelled>>
    BY <2>1, <2>2, OpenTo, OnSame, PhaseSame DEF Allocate
  <2>4. Phase(c) # "idle"
    BY <1>0 DEF Phase, Allocate, IInv, Settled, Types
  <2>5. Lease!Acquire(c, a)
    BY <2>3, <2>4, At DEF Lease!Acquire
  <2>6. QED
    BY <2>5 DEF Lease!LeaseNext
<1>4. QED
  BY <1>1, <1>2, <1>3

(* A candidate that came too late releases what it has.                    *)
LEMMA SurplusReleases ==
  ASSUME IInv, NEW c \in Calls, NEW a \in Servers, CloseSurplus(c, a)
  PROVE  Lease!Release(c, a)
<1>0. Types
  BY DEF IInv, TypeOK, Types
<1>1. /\ cand'[c][a] = "closed"
      /\ \A b \in Servers : b # a => cand'[c][b] = cand[c][b]
      /\ \A d \in Calls : d # c => cand'[d] = cand[d]
  BY <1>0, CandMove DEF CandStates, Working, CloseSurplus
<1>2. /\ Holding(c)' = Holding(c) \ {a}
      /\ a \in Holding(c) \ Serving(c)
      /\ \A d \in Calls : Serving(d)' = Serving(d)
  BY <1>1 DEF Holding, Serving, CloseSurplus
<1>3. /\ LeaseOpen' = [LeaseOpen EXCEPT ![c] = Holding(c) \ {a}]
      /\ UNCHANGED <<LeasePhase, LeaseOn, cancelled>>
  BY <1>1, <1>2, OpenTo, OnSame, PhaseSame DEF CloseSurplus
<1>4. QED
  BY <1>2, <1>3, At DEF Lease!Release

(* The session starts on the allocation of the winner.                     *)
LEMMA WinnerServes ==
  ASSUME IInv, NEW c \in Calls, NEW a \in Servers, TakeWinner(c, a)
  PROVE  Lease!Serve(c, a)
<1>0. Types
  BY DEF IInv, TypeOK, Types
<1>1. /\ cand'[c][a] = "held"
      /\ \A b \in Servers : b # a => cand'[c][b] = cand[c][b]
      /\ \A d \in Calls : d # c => cand'[d] = cand[d]
  BY <1>0, CandMove DEF CandStates, Working, TakeWinner
<1>2. \A b \in Servers : cand[c][b] # "held"
  BY DEF IInv, EveryAllocationHasOwner, TakeWinner
<1>3. /\ Serving(c)' = {a}
      /\ a \in Holding(c)
      /\ \A d \in Calls : Holding(d)' = Holding(d)
  BY <1>1, <1>2 DEF Holding, Serving, TakeWinner
<1>4. /\ Phase(c) = "trying" /\ Phase(c)' = "serving"
      /\ \A d \in Calls : d # c => main'[d] = main[d]
  BY <1>0 DEF Types, Phase, TakeWinner
<1>5. /\ LeaseOn' = [LeaseOn EXCEPT ![c] = {a}]
      /\ LeasePhase' = [LeasePhase EXCEPT ![c] = "serving"]
      /\ UNCHANGED <<LeaseOpen, cancelled>>
  BY <1>1, <1>3, <1>4, OnTo, PhaseTo, OpenSame DEF TakeWinner
<1>6. QED
  BY <1>3, <1>4, <1>5, At DEF Lease!Serve

(* Errors change nothing of the lease.                                     *)
LEMMA FanOutStutters ==
  ASSUME IInv, NEW c \in Calls, NEW a \in Servers, FanOut(c, a)
  PROVE  UNCHANGED Lease!leaseVars
<1>0. Types
  BY DEF IInv, TypeOK, Types
<1>1. /\ \A b \in Servers : \/ cand'[c][b] = cand[c][b]
                            \/ /\ cand'[c][b] \in {"dial", "seen"}
                               /\ cand[c][b] \in {"off", "err"}
      /\ \A d \in Calls : d # c => cand'[d] = cand[d]
  BY <1>0 DEF Types, FanOut
<1>2. \A d \in Calls : Holding(d)' = Holding(d) /\ Serving(d)' = Serving(d)
  BY <1>1 DEF Holding, Serving
<1>3. QED
  BY <1>2, PhaseSame, OpenSame, OnSame DEF Lease!leaseVars, FanOut

(* A call that failed everywhere has nothing in hand.                      *)
LEMMA AllFailedGivesUp ==
  ASSUME IInv, NEW c \in Calls, NEW a \in Servers, AllFailed(c, a)
  PROVE  Lease!GiveUp(c)
<1>0. Types
  BY DEF IInv, TypeOK, Types
<1>1. /\ cand'[c][a] = "seen"
      /\ \A b \in Servers : b # a => cand'[c][b] = cand[c][b]
      /\ \A d \in Calls : d # c => cand'[d] = cand[d]
  BY <1>0, CandMove DEF CandStates, Working, AllFailed
<1>2. \A b \in Servers : cand[c][b] \in {"off", "seen", "err"}
  BY DEF AllFailed, Others, IInv, Settled
<1>3. /\ Holding(c) = {}
      /\ \A d \in Calls : Holding(d)' = Holding(d) /\ Serving(d)' = Serving(d)
  BY <1>1, <1>2 DEF Holding, Serving, AllFailed
<1>4. /\ Phase(c) = "trying" /\ Phase(c)' = "over"
      /\ \A d \in Calls : d # c => main'[d] = main[d]
  BY <1>0, ReturnStep DEF Types, Phase, AllFailed
<1>5. /\ LeasePhase' = [LeasePhase EXCEPT ![c] = "over"]
      /\ UNCHANGED <<LeaseOpen, LeaseOn, cancelled>>
  BY <1>3, <1>4, PhaseTo, OpenSame, OnSame DEF AllFailed
<1>6. QED
  BY <1>3, <1>4, <1>5, At DEF Lease!GiveUp

(* A cancelled call may leave an allocation to its reaper.                 *)
LEMMA AbandonGivesUp ==
  ASSUME IInv, NEW c \in Calls, Abandon(c)
  PROVE  Lease!GiveUp(c)
<1>0. Types
  BY DEF IInv, TypeOK, Types
<1>1. /\ Phase(c) = "trying" /\ Phase(c)' = "over"
      /\ \A d \in Calls : d # c => main'[d] = main[d]
  BY <1>0, ReturnStep DEF Types, Phase, Abandon
<1>2. \A d \in Calls : Holding(d)' = Holding(d) /\ Serving(d)' = Serving(d)
  BY DEF Holding, Serving, Abandon
<1>3. /\ LeasePhase' = [LeasePhase EXCEPT ![c] = "over"]
      /\ UNCHANGED <<LeaseOpen, LeaseOn, cancelled>>
  BY <1>1, <1>2, PhaseTo, OpenSame, OnSame DEF Abandon
<1>4. QED
  BY <1>1, <1>3, At DEF Lease!GiveUp, Abandon

(* The end of a session releases its allocation and no other.              *)
LEMMA SessionEndsLease ==
  ASSUME IInv, NEW c \in Calls, NEW a \in Servers, SessionEnds(c, a)
  PROVE  Lease!EndSession(c)
<1>0. Types
  BY DEF IInv, TypeOK, Types
<1>1. /\ cand'[c][a] = "closed"
      /\ \A b \in Servers : b # a => cand'[c][b] = cand[c][b]
      /\ \A d \in Calls : d # c => cand'[d] = cand[d]
  BY <1>0, CandMove DEF CandStates, Working, SessionEnds
<1>2. \A b \in Servers : b # a => cand[c][b] # "held"
  BY DEF IInv, OneWinner, SessionEnds
<1>3. /\ Serving(c) = {a} /\ Serving(c)' = {}
      /\ Holding(c)' = Holding(c) \ Serving(c)
  BY <1>1, <1>2 DEF Holding, Serving, SessionEnds
<1>4. /\ Phase(c) = "serving" /\ Phase(c)' = "over"
      /\ \A d \in Calls : d # c => main'[d] = main[d]
  BY <1>0, ReturnStep DEF Types, Phase, SessionEnds
<1>5. /\ LeasePhase' = [LeasePhase EXCEPT ![c] = "over"]
      /\ LeaseOpen' = [LeaseOpen EXCEPT ![c] = Holding(c) \ Serving(c)]
      /\ LeaseOn' = [LeaseOn EXCEPT ![c] = {}]
  BY <1>1, <1>3, <1>4, PhaseTo, OpenTo, OnTo
<1>6. QED
  BY <1>4, <1>5, At DEF Lease!EndSession, SessionEnds

(* The reaper releases the one winner there can be.                        *)
LEMMA ReapReleases ==
  ASSUME IInv, NEW c \in Calls, Reap(c)
  PROVE  [\E a \in Servers : Lease!Release(c, a)]_Lease!leaseVars
<1>0. Types
  BY DEF IInv, TypeOK, Types
<1>1. /\ \A b \in Servers : cand'[c][b] = IF cand[c][b] = "won" THEN "closed"
                                                                ELSE cand[c][b]
      /\ \A d \in Calls : d # c => cand'[d] = cand[d]
  BY <1>0 DEF Types, Reap
<1>2. \A d \in Calls : Serving(d)' = Serving(d)
  BY <1>1 DEF Serving
<1>3. UNCHANGED <<LeasePhase, LeaseOn, cancelled>>
  BY <1>2, PhaseSame, OnSame DEF Reap
<1>4. CASE \A a \in Servers : cand[c][a] # "won"
  <2>1. \A d \in Calls : Holding(d)' = Holding(d)
    BY <1>1, <1>4 DEF Holding
  <2>2. QED
    BY <1>3, <2>1, OpenSame DEF Lease!leaseVars
<1>5. ASSUME NEW a \in Servers, cand[c][a] = "won"
      PROVE  Lease!Release(c, a)
  <2>1. \A b \in Servers : b # a => cand[c][b] # "won"
    BY <1>5 DEF IInv, OneWinner
  <2>2. /\ Holding(c)' = Holding(c) \ {a}
        /\ a \in Holding(c) \ Serving(c)
    BY <1>1, <1>5, <2>1 DEF Holding, Serving
  <2>3. LeaseOpen' = [LeaseOpen EXCEPT ![c] = Holding(c) \ {a}]
    BY <1>1, <2>2, OpenTo
  <2>4. QED
    BY <1>3, <2>2, <2>3, At DEF Lease!Release
<1>6. QED
  BY <1>4, <1>5

LEMMA InitLease == RaceInit => Lease!LeaseInit
<1> SUFFICES ASSUME RaceInit PROVE Lease!LeaseInit
  OBVIOUS
<1>1. \A c \in Calls : Phase(c) = "idle" /\ Holding(c) = {} /\ Serving(c) = {}
  BY DEF RaceInit, Phase, Holding, Serving
<1>2. QED
  BY <1>1 DEF RaceInit, Lease!LeaseInit, LeasePhase, LeaseOpen, LeaseOn, Serving

LEMMA StepLease == IInv /\ [RaceNext]_raceVars => [Lease!LeaseNext]_Lease!leaseVars
<1> SUFFICES ASSUME IInv, [RaceNext]_raceVars
             PROVE  [Lease!LeaseNext]_Lease!leaseVars
  OBVIOUS
<1>1. CASE Cancel
  <2>1. \A d \in Calls : Holding(d)' = Holding(d) /\ Serving(d)' = Serving(d)
    BY <1>1 DEF Cancel, Holding, Serving
  <2>2. Lease!CancelAll
    BY <1>1, <2>1, PhaseSame, OpenSame, OnSame DEF Cancel, Lease!CancelAll
  <2>3. QED
    BY <2>2 DEF Lease!LeaseNext
<1>2. ASSUME UNCHANGED raceVars \/ \E s \in Streams : WorkerExits(s)
      PROVE  UNCHANGED Lease!leaseVars
  <2>1. UNCHANGED <<cancelled, main, cand>>
    BY <1>2 DEF raceVars, WorkerExits
  <2>2. \A d \in Calls : Holding(d)' = Holding(d) /\ Serving(d)' = Serving(d)
    BY <2>1 DEF Holding, Serving
  <2>3. QED
    BY <2>1, <2>2, PhaseSame, OpenSame, OnSame DEF Lease!leaseVars
<1>3. ASSUME NEW c \in Calls, Begin(c) \/ Abandon(c)
      PROVE  Lease!LeaseNext
  BY <1>3, BeginTries, AbandonGivesUp DEF Lease!LeaseNext
<1>4. ASSUME NEW c \in Calls, Reap(c)
      PROVE  [Lease!LeaseNext]_Lease!leaseVars
  BY <1>4, ReapReleases DEF Lease!LeaseNext
<1>5. ASSUME NEW c \in Calls, NEW a \in Servers,
             \/ TakeWinner(c, a) \/ AllFailed(c, a) \/ SessionEnds(c, a)
             \/ CloseSurplus(c, a)
      PROVE  Lease!LeaseNext
  BY <1>5, WinnerServes, AllFailedGivesUp, SessionEndsLease, SurplusReleases
  DEF Lease!LeaseNext
<1>6. ASSUME NEW c \in Calls, NEW a \in Servers,
             \/ Dial(c, a) \/ Enter(c, a) \/ AbortWait(c, a) \/ TakeError(c, a)
             \/ Claim(c, a) \/ FanOut(c, a)
      PROVE  UNCHANGED Lease!leaseVars
  <2>1. CASE Dial(c, a)
    BY <2>1, CandStutters DEF Dial, CandStates, Working
  <2>2. CASE Enter(c, a)
    BY <2>2, CandStutters DEF Enter, CandStates, Working
  <2>3. CASE AbortWait(c, a)
    BY <2>3, CandStutters DEF AbortWait, CandStates, Working
  <2>4. CASE TakeError(c, a)
    BY <2>4, CandStutters DEF TakeError, CandStates, Working
  <2>5. CASE Claim(c, a)
    BY <2>5, CandStutters DEF Claim, CandStates, Working
  <2>6. CASE FanOut(c, a)
    BY <2>6, FanOutStutters
  <2>7. QED
    BY <1>6, <2>1, <2>2, <2>3, <2>4, <2>5, <2>6
<1>7. QED
  BY <1>1, <1>2, <1>3, <1>4, <1>5, <1>6, AllocateAcquires
  DEF RaceNext, CallStep, CandStep

(* runWithCreds, with its race, its late winners and its reaper, is a      *)
(* lease: one session on one allocation, given up only with nothing in     *)
(* hand or when cancelled, and not made anew before all is released.       *)
THEOREM Refinement == RaceSpec => ImplementsLease
<1>1. RaceSpec => Lease!LeaseInit /\ [][Lease!LeaseNext]_Lease!leaseVars
  BY InitLease, Invariance, StepLease, PTL DEF RaceSpec
<1>2. QED
  BY <1>1 DEF ImplementsLease, Lease!LeaseSpec
==============================================================================
