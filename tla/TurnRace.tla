------------------------------- MODULE TurnRace -------------------------------
(***************************************************************************)
(* One attempt of a stream to get a TURN session: runWithCreds,            *)
(* dialAndAllocate, runSession and reapRace                                *)
(* (pkg/proxy/stream_run_with_creds.go), called again and again by the     *)
(* stream's worker (runWorker in pkg/proxy/worker_group.go).               *)
(*                                                                         *)
(* The main goroutine of a call waits for a winner, an error or the        *)
(* cancellation.  Each server it dials has a goroutine of its own, a       *)
(* candidate, which outlives the call when the call returns early.  All    *)
(* candidates of all streams share allocSemaphore.                         *)
(***************************************************************************)
EXTENDS Naturals, FiniteSets

CONSTANTS
  Streams,
  Gens,      \* calls of one stream that can have goroutines at a time
  Servers,
  AllocCap   \* capacity of allocSemaphore

ASSUME AllocCapAssumption == AllocCap \in Nat \ {0}
ASSUME FiniteAssumption ==
  IsFiniteSet(Streams) /\ IsFiniteSet(Gens) /\ IsFiniteSet(Servers)

Calls == Streams \X Gens

VARIABLES
  cancelled, \* the context of the proxy
  worker,    \* [Streams -> "ready" | "busy" | "exited"]
  main,      \* [Calls -> "idle" | "race" | "session" | "over"]
  list,      \* [Calls -> servers the call was given]
  cand,      \* [Calls -> [Servers -> where the candidate stands]]
  once,      \* [Calls -> sync.Once has been done]
  reaper     \* [Calls -> a reapRace goroutine runs]

raceVars == <<cancelled, worker, main, list, cand, once, reaper>>

(* off: not launched; err: its error is in errCh; seen: the error has been *)
(* received; won: its session is in winCh; held: the session runs; lost:   *)
(* the surplus is about to be closed; closed: released.                    *)
Working == {"dial", "sem", "alloc", "got", "lost"}
CandStates == Working \cup {"off", "err", "seen", "won", "held", "closed"}

(* Mutant: an Allocate that fails keeps its place in the semaphore.        *)
AllocatingLeaks ==
  {p \in Calls \X Servers : cand[p[1]][p[2]] \in {"alloc", "err", "seen"}}

(* The candidates in allocSemaphore.                                       *)
Allocating == {p \in Calls \X Servers : cand[p[1]][p[2]] = "alloc"}

TypeOK ==
  /\ cancelled \in BOOLEAN
  /\ worker \in [Streams -> {"ready", "busy", "exited"}]
  /\ main \in [Calls -> {"idle", "race", "session", "over"}]
  /\ list \in [Calls -> SUBSET Servers]
  /\ cand \in [Calls -> [Servers -> CandStates]]
  /\ once \in [Calls -> BOOLEAN]
  /\ reaper \in [Calls -> BOOLEAN]
  /\ Cardinality(Allocating) \in 0..AllocCap

RaceInit ==
  /\ cancelled = FALSE
  /\ worker = [s \in Streams |-> "ready"]
  /\ main = [c \in Calls |-> "idle"]
  /\ list = [c \in Calls |-> {}]
  /\ cand = [c \in Calls |-> [a \in Servers |-> "off"]]
  /\ once = [c \in Calls |-> FALSE]
  /\ reaper = [c \in Calls |-> FALSE]

(* Candidates that hold an allocation on their server.                     *)
Holding(c) == {a \in Servers : cand[c][a] \in {"got", "won", "held", "lost"}}

(* cancelRace has been called, by the winner, by the return of the call or *)
(* by the cancellation of everything.                                      *)
RaceCancelled(c) == once[c] \/ main[c] = "over" \/ cancelled

Quiet(c) ==
  /\ ~reaper[c]
  /\ \A a \in Servers : cand[c][a] \in {"off", "err", "seen", "closed"}

Move(c, a, to) == cand' = [cand EXCEPT ![c][a] = to]

-----------------------------------------------------------------------------
(* Mutant: all servers are dialed at once.                                 *)
BeginAll(c) ==
  /\ worker[c[1]] = "ready"
  /\ Quiet(c)
  /\ \E L \in SUBSET Servers, f \in Servers :
       /\ f \in L
       /\ list' = [list EXCEPT ![c] = L]
       /\ cand' = [cand EXCEPT ![c] =
                     [a \in Servers |-> IF a \in L THEN "dial" ELSE "off"]]
  /\ worker' = [worker EXCEPT ![c[1]] = "busy"]
  /\ main' = [main EXCEPT ![c] = "race"]
  /\ once' = [once EXCEPT ![c] = FALSE]
  /\ UNCHANGED <<cancelled, reaper>>

(* The worker has credentials and calls runWithCreds with the list of      *)
(* their servers, its own first.  It may do so although the context has    *)
(* been cancelled: the select before the fetch takes either channel.       *)
Begin(c) ==
  /\ worker[c[1]] = "ready"
  /\ Quiet(c)
  /\ \E L \in SUBSET Servers, f \in Servers :
       /\ f \in L
       /\ list' = [list EXCEPT ![c] = L]
       /\ cand' = [cand EXCEPT ![c] =
                     [a \in Servers |-> IF a = f THEN "dial" ELSE "off"]]
  /\ worker' = [worker EXCEPT ![c[1]] = "busy"]
  /\ main' = [main EXCEPT ![c] = "race"]
  /\ once' = [once EXCEPT ![c] = FALSE]
  /\ UNCHANGED <<cancelled, reaper>>

(* runWorker looks at the context when the call has returned.              *)
Return(c) ==
  /\ main' = [main EXCEPT ![c] = "over"]
  /\ worker' = [worker EXCEPT ![c[1]] = IF cancelled THEN "exited" ELSE "ready"]

(* Before a call, every wait of the worker ends with the context.          *)
WorkerExits(s) ==
  /\ worker[s] = "ready"
  /\ cancelled
  /\ worker' = [worker EXCEPT ![s] = "exited"]
  /\ UNCHANGED <<cancelled, main, list, cand, once, reaper>>

Cancel ==
  /\ ~cancelled
  /\ cancelled' = TRUE
  /\ UNCHANGED <<worker, main, list, cand, once, reaper>>

-----------------------------------------------------------------------------
(* dialAndAllocate.  Dial, NewClient and Listen succeed or fail; the wait  *)
(* for the semaphore ends with the race; Allocate itself cannot be         *)
(* cancelled and ends by its own retransmission limit.                     *)
Dial(c, a) ==
  /\ cand[c][a] = "dial"
  /\ \E to \in {"sem", "err"} : Move(c, a, to)
  /\ UNCHANGED <<cancelled, worker, main, list, once, reaper>>

(* Mutant: Allocate without the semaphore.                                 *)
EnterFreely(c, a) ==
  /\ cand[c][a] = "sem"
  /\ Move(c, a, "alloc")
  /\ UNCHANGED <<cancelled, worker, main, list, once, reaper>>

Enter(c, a) ==
  /\ cand[c][a] = "sem"
  /\ Cardinality(Allocating) < AllocCap
  /\ Move(c, a, "alloc")
  /\ UNCHANGED <<cancelled, worker, main, list, once, reaper>>

AbortWait(c, a) ==
  /\ cand[c][a] = "sem"
  /\ RaceCancelled(c)
  /\ Move(c, a, "err")
  /\ UNCHANGED <<cancelled, worker, main, list, once, reaper>>

Allocate(c, a) ==
  /\ cand[c][a] = "alloc"
  /\ \E to \in {"got", "err"} : Move(c, a, to)
  /\ UNCHANGED <<cancelled, worker, main, list, once, reaper>>

(* once.Do: the first to come sends itself to winCh, the others release    *)
(* what they have.                                                         *)
Claim(c, a) ==
  /\ cand[c][a] = "got"
  /\ Move(c, a, IF once[c] THEN "lost" ELSE "won")
  /\ once' = [once EXCEPT ![c] = TRUE]
  /\ UNCHANGED <<cancelled, worker, main, list, reaper>>

CloseSurplus(c, a) ==
  /\ cand[c][a] = "lost"
  /\ Move(c, a, "closed")
  /\ UNCHANGED <<cancelled, worker, main, list, once, reaper>>

CandStep(c, a) ==
  \/ Dial(c, a) \/ AbortWait(c, a) \/ Allocate(c, a) \/ Claim(c, a)
  \/ CloseSurplus(c, a)

-----------------------------------------------------------------------------
(* The select of runWithCreds.  A winner: runSession.                      *)
TakeWinner(c, a) ==
  /\ main[c] = "race"
  /\ cand[c][a] = "won"
  /\ Move(c, a, "held")
  /\ main' = [main EXCEPT ![c] = "session"]
  /\ UNCHANGED <<cancelled, worker, list, once, reaper>>

(* Mutant: fannedOut is FALSE at first whatever the length of the list.     *)
FannedOnce(c) == \E a \in list[c] : cand[c][a] = "seen"

(* fannedOut: every server of the list has been launched.                  *)
Fanned(c) == \A a \in list[c] : cand[c][a] # "off"

(* An error of the assigned server: the others are dialed.                 *)
FanOut(c, a) ==
  /\ main[c] = "race"
  /\ cand[c][a] = "err"
  /\ ~Fanned(c)
  /\ cand' = [cand EXCEPT ![c] =
                [x \in Servers |->
                   CASE x = a -> "seen"
                     [] x # a /\ x \in list[c] /\ cand[c][x] = "off" -> "dial"
                     [] OTHER -> cand[c][x]]]
  /\ UNCHANGED <<cancelled, worker, main, list, once, reaper>>

(* One of several errors, and the last one.                                *)
Others(c, a) == list[c] \ {a}

TakeError(c, a) ==
  /\ main[c] = "race"
  /\ cand[c][a] = "err"
  /\ Fanned(c)
  /\ \E x \in Others(c, a) : cand[c][x] # "seen"
  /\ Move(c, a, "seen")
  /\ UNCHANGED <<cancelled, worker, main, list, once, reaper>>

(* Mutant: the first error after the fan-out ends the call.                *)
AllFailedEarly(c, a) ==
  /\ main[c] = "race"
  /\ cand[c][a] = "err"
  /\ Fanned(c)
  /\ Move(c, a, "seen")
  /\ Return(c)
  /\ UNCHANGED <<cancelled, list, once, reaper>>

AllFailed(c, a) ==
  /\ main[c] = "race"
  /\ cand[c][a] = "err"
  /\ Fanned(c)
  /\ \A x \in Others(c, a) : cand[c][x] = "seen"
  /\ Move(c, a, "seen")
  /\ Return(c)
  /\ UNCHANGED <<cancelled, list, once, reaper>>

(* Mutant: a cancelled call just returns.                                  *)
AbandonAlone(c) ==
  /\ main[c] = "race"
  /\ cancelled
  /\ Return(c)
  /\ UNCHANGED <<cancelled, list, cand, once, reaper>>

(* The cancellation, with a reaper for a winner that may still come.       *)
Abandon(c) ==
  /\ main[c] = "race"
  /\ cancelled
  /\ Return(c)
  /\ reaper' = [reaper EXCEPT ![c] = TRUE]
  /\ UNCHANGED <<cancelled, list, cand, once>>

(* The session ends: its connection closes, the blackhole watch closes it, *)
(* or the context does.  Its deferred calls release the allocation.        *)
SessionEnds(c, a) ==
  /\ main[c] = "session"
  /\ cand[c][a] = "held"
  /\ Move(c, a, "closed")
  /\ Return(c)
  /\ UNCHANGED <<cancelled, list, once, reaper>>

(* Mutant: winCh is drained without waiting for the candidates.            *)
ReapNow(c) ==
  /\ reaper[c]
  /\ cand' = [cand EXCEPT ![c] =
                [a \in Servers |-> IF cand[c][a] = "won" THEN "closed"
                                                         ELSE cand[c][a]]]
  /\ reaper' = [reaper EXCEPT ![c] = FALSE]
  /\ UNCHANGED <<cancelled, worker, main, list, once>>

(* reapRace waits for every candidate and drains winCh.                    *)
Reap(c) ==
  /\ reaper[c]
  /\ \A a \in Servers : cand[c][a] \notin Working
  /\ cand' = [cand EXCEPT ![c] =
                [a \in Servers |-> IF cand[c][a] = "won" THEN "closed"
                                                         ELSE cand[c][a]]]
  /\ reaper' = [reaper EXCEPT ![c] = FALSE]
  /\ UNCHANGED <<cancelled, worker, main, list, once>>

CallStep(c) ==
  \/ Abandon(c) \/ Reap(c)
  \/ \E a \in Servers :
       \/ TakeWinner(c, a) \/ FanOut(c, a) \/ TakeError(c, a) \/ AllFailed(c, a)
       \/ CandStep(c, a)

RaceNext ==
  \/ Cancel
  \/ \E s \in Streams : WorkerExits(s)
  \/ \E c \in Calls :
       \/ Begin(c) \/ CallStep(c)
       \/ \E a \in Servers : Enter(c, a) \/ SessionEnds(c, a)

RaceSpec == RaceInit /\ [][RaceNext]_raceVars

(* The runtime runs every goroutine that can go on: no order is assumed in *)
(* which the candidates get into allocSemaphore.  A session ends for sure  *)
(* only when it is cancelled.                                              *)
RaceFairness ==
  /\ \A s \in Streams : WF_raceVars(WorkerExits(s))
  /\ \A c \in Calls :
       /\ WF_raceVars(Abandon(c)) /\ WF_raceVars(Reap(c))
       /\ WF_raceVars(\E a \in Servers : \/ TakeWinner(c, a) \/ FanOut(c, a)
                                         \/ TakeError(c, a) \/ AllFailed(c, a))
       /\ WF_raceVars(\E a \in Servers : CandStep(c, a))
       /\ WF_raceVars(\E a \in Servers : Enter(c, a))
       /\ WF_raceVars(cancelled /\ \E a \in Servers : SessionEnds(c, a))

-----------------------------------------------------------------------------
(* Whatever allocation a call has got has somebody who will release it: a  *)
(* winner that waits in winCh has a call that still receives or a reaper,  *)
(* and the one a session runs on has the session.                          *)
EveryAllocationHasOwner ==
  \A c \in Calls, a \in Servers :
    /\ cand[c][a] = "won" => main[c] = "race" \/ reaper[c]
    /\ cand[c][a] = "held" => main[c] = "session"

(* At most one candidate of a call ever wins: the send inside once.Do      *)
(* finds winCh empty and no second session comes of one attempt.           *)
OneWinner ==
  \A c \in Calls, a, b \in Servers :
    {cand[c][a], cand[c][b]} \subseteq {"won", "held"} => a = b

(* The servers of other streams are left alone until the stream's own has  *)
(* failed (worker_group.go:87-90, stream_run_with_creds.go:30-36).         *)
FailoverAfterFailure ==
  \A c \in Calls, a, b \in Servers :
    /\ a # b
    /\ "off" \notin {cand[c][a], cand[c][b]}
    => \E x \in Servers : cand[c][x] = "seen"

(* A call that waits has something to wait for: errCount reaches           *)
(* launchedCount exactly when no candidate is left.                        *)
NeverWaitsForNobody ==
  \A c \in Calls : main[c] = "race" =>
    \E a \in Servers : cand[c][a] \in Working \cup {"err", "won"}

(* What the invariants above rest on.  A stream has one call at a time     *)
(* that its worker waits for; once.Do has been done when, and only when,   *)
(* somebody won; only servers of the list are dialed; a call that has not  *)
(* begun has no candidates; a running session has its allocation; a call   *)
(* that is over without winner or reaper has nobody left at work.          *)
Active(c) == main[c] \in {"race", "session"}

OneCallAtATime ==
  \A c \in Calls : Active(c) =>
    /\ worker[c[1]] = "busy"
    /\ \A d \in Calls : Active(d) /\ d[1] = c[1] => d = c

Settled ==
  \A c \in Calls :
    /\ main[c] = "idle" => \A a \in Servers : cand[c][a] = "off"
    /\ main[c] = "session" => \E a \in Servers : cand[c][a] = "held"
    /\ main[c] = "race" /\ once[c] => \E a \in Servers : cand[c][a] = "won"
    /\ main[c] = "over" /\ ~reaper[c] /\ ~once[c] =>
         \A a \in Servers : cand[c][a] \in {"off", "err", "seen"}
    /\ \A a \in Servers :
         /\ cand[c][a] \in {"won", "held", "lost", "closed"} => once[c]
         /\ cand[c][a] # "off" => a \in list[c]
    /\ reaper[c] => main[c] = "over"

(* An attempt implements the lease TurnLease describes.                    *)
Phase(c) ==
  CASE main[c] = "idle"    -> "idle"
    [] main[c] = "race"    -> "trying"
    [] main[c] = "session" -> "serving"
    [] OTHER               -> "over"

LeasePhase == [c \in Calls |-> Phase(c)]
LeaseOpen == [c \in Calls |-> Holding(c)]
LeaseOn == [c \in Calls |-> {a \in Servers : cand[c][a] = "held"}]

Lease == INSTANCE TurnLease
           WITH phase <- LeasePhase, open <- LeaseOpen, on <- LeaseOn

ImplementsLease == Lease!LeaseSpec

(* Whatever is allocated is released once everything is cancelled, and     *)
(* every attempt comes to its end.                                         *)
AllReleasedAtLast == <>[](cancelled => \A c \in Calls : Holding(c) = {})

EveryAttemptEnds == \A c \in Calls : []<>(main[c] # "race")
==============================================================================
