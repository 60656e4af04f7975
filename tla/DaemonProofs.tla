----------------------------- MODULE DaemonProofs -----------------------------
(***************************************************************************)
(* Proofs about Daemon, for any number of handlers, sessions,              *)
(* configurations and captchas.                                            *)
(***************************************************************************)
EXTENDS Daemon, TLAPS

USE DEF Missing, Blank, Configs, NoToken, Torn, Tokens, Sessions, Routes,
        Resources, Connecting, CleaningUp, Waiting

(* The number of the next session is a session number.                     *)
LEMMA NextSessType == sess \in 0..MaxSess => NextSess \in Sessions
  BY MaxSessAssumption DEF NextSess

(* A record of an operation stays well formed when one field moves.        *)
LEMMA HandlerField ==
  ASSUME NEW r \in HandlerType
  PROVE  /\ \A p \in {"create", "write", "state", "stateSave", "stateFill",
                     "trigger"} :
              [r EXCEPT !.pc = p] \in HandlerType
         /\ \A b \in BOOLEAN : [r EXCEPT !.here = b] \in HandlerType
         /\ r.ver \in 0..MaxVer
         /\ Idle \in HandlerType
  BY MaxVerAssumption DEF HandlerType, Idle

(* A running operation leaves the files and the channel well formed.       *)
LEMMA HandlerStepType ==
  ASSUME StoreTypeOK, NEW h \in Handlers, HandlerStep(h)
  PROVE  StoreTypeOK'
<1> USE MaxVerAssumption DEF StoreTypeOK
<1>a. /\ handler[h] \in HandlerType
      /\ Idle \in HandlerType
      /\ \A x \in Handlers : [handler[x] EXCEPT !.here = FALSE] \in HandlerType
      /\ \A p \in {"create", "write", "state", "stateSave", "stateFill",
                  "trigger"} :
           [handler[h] EXCEPT !.pc = p] \in HandlerType
  BY HandlerField
<1>b. handler[h].ver \in 0..MaxVer
  BY <1>a, HandlerField
<1>1. CASE SaveRename(h)
  BY <1>1, <1>a DEF SaveRename
<1>2. CASE SaveCreate(h)
  <2>1. [[handler[h] EXCEPT !.pc = "write"] EXCEPT !.here = TRUE] \in HandlerType
    BY <1>a, HandlerField
  <2>2. handler' = [handler EXCEPT ![h] =
                      [[handler[h] EXCEPT !.pc = "write"] EXCEPT !.here = TRUE]]
    BY <1>2, <1>a DEF SaveCreate
  <2>3. QED
    BY <1>2, <2>1, <2>2 DEF SaveCreate
<1>3. CASE SaveWrite(h)
  <2>1. PICK p \in {"state", "trigger"} :
          handler' = [handler EXCEPT ![h] = [handler[h] EXCEPT !.pc = p]]
    BY <1>3 DEF SaveWrite
  <2>2. config' \in Configs
    BY <1>3, <1>b DEF SaveWrite
  <2>3. QED
    BY <1>3, <1>a, <2>1, <2>2 DEF SaveWrite
<1>4. CASE SaveFails(h)
  BY <1>4, <1>a DEF SaveFails
<1>5. CASE ImportLoadState(h)
  BY <1>5, <1>a DEF ImportLoadState
<1>6. CASE ImportTruncateState(h)
  BY <1>6, <1>a DEF ImportTruncateState
<1>7. CASE ImportSaveState(h)
  <2>1. token' \in Tokens \cup {Torn}
    BY <1>7, <1>b DEF ImportSaveState, FillState
  <2>2. QED
    BY <1>7, <1>a, <2>1 DEF ImportSaveState
<1>8. CASE ImportSaveStateFails(h)
  BY <1>8, <1>a DEF ImportSaveStateFails
<1>9. CASE TriggerReconnect(h)
  BY <1>9, <1>a DEF TriggerReconnect
<1>10. QED
  BY <1>1, <1>2, <1>3, <1>4, <1>5, <1>6, <1>7, <1>8, <1>9 DEF HandlerStep

(* The same for an operation that begins.                                  *)
LEMMA HandlerBeginType ==
  ASSUME StoreTypeOK, NEW h \in Handlers, HandlerBegin(h)
  PROVE  StoreTypeOK'
<1> USE MaxVerAssumption DEF StoreTypeOK, HandlerType
<1>1. ASSUME NEW keeps \in BOOLEAN, Begin(h, keeps)
      PROVE  StoreTypeOK'
  <2>1. serial' \in 0..MaxVer /\ serial' = serial + 1
    BY <1>1 DEF Begin
  <2>2. [Idle EXCEPT !.pc = "save", !.ver = serial + 1, !.keeps = keeps]
          \in HandlerType
    BY <2>1 DEF Idle
  <2>3. QED
    BY <1>1, <2>1, <2>2 DEF Begin
<1>2. QED
  BY <1>1 DEF HandlerBegin, ReloadFetch, ImportFetch, ConfPaste

LEMMA StoreUnchanged == StoreTypeOK /\ UNCHANGED storeVars => StoreTypeOK'
  BY DEF StoreTypeOK, storeVars

(* The variables the loop, the proxy and the signals use, when the files   *)
(* and the handlers do not change.                                         *)
LEMMA MainStepType ==
  ASSUME DaemonTypeOK, SessionStage, MainStep
  PROVE  DaemonTypeOK'
  <1> USE MaxVerAssumption, MaxSessAssumption, LeavableAssumption,
     StoreUnchanged,
        NextSessType
<1> USE DEF DaemonTypeOK, loopVars, proxyVars, router
<1>1. CASE LoadNothing
  BY <1>1 DEF LoadNothing
<1>2. CASE LoadConfig
  <2>1. StoreTypeOK'
    BY <1>2 DEF LoadConfig, StoreTypeOK
  <2>2. NextSess \in Sessions /\ used' \in Configs
    BY <1>2 DEF LoadConfig, StoreTypeOK
  <2>3. QED
    BY <1>2, <2>1, <2>2 DEF LoadConfig
<1>3. CASE LoadState
  <2>1. stateTok' \in Tokens
    BY <1>3 DEF LoadState, TokenRead, StoreTypeOK
  <2>2. QED
    BY <1>3, <2>1 DEF LoadState
<1>4. CASE PrepareFails
  BY <1>4 DEF PrepareFails, MayLeave
<1>5. CASE Prepare
  <2>1. procs' \in SUBSET Sessions
    BY <1>5 DEF Prepare, SessionStage
  <2>2. QED
    BY <1>5, <2>1 DEF Prepare, Gain
<1>6. CASE WaitReadyResult
  BY <1>6 DEF WaitReadyResult, CleanUp, UnchangedButMain
<1>7. CASE WaitReadyPending
  BY <1>7 DEF WaitReadyPending, ShowCaptcha
<1>8. CASE WaitReadyNotified
  BY <1>8 DEF WaitReadyNotified, ShowCaptcha
<1>9. CASE WaitReadyFails
  BY <1>9 DEF WaitReadyFails, CleanUp, UnchangedButMain
<1>10. CASE Bypass
  BY <1>10 DEF Bypass, Gain, MayTakeOver
<1>11. CASE Up
  BY <1>11 DEF Up, Gain, MayTakeOver
<1>12. CASE UpFails
  BY <1>12 DEF UpFails, MayLeave, CleanUp
<1>13. CASE Commit
  BY <1>13 DEF Commit, StoreTypeOK
<1>14. CASE SaveState
  <2>1. /\ token' \in Tokens \cup {Torn}
        /\ imported' \in Tokens \cup {Torn}
    BY <1>14 DEF SaveState, FillState, StoreTypeOK
  <2>2. QED
    BY <1>14, <2>1 DEF SaveState, StoreTypeOK
<1>15. CASE BackendDown
  BY <1>15 DEF BackendDown, Drop, MayLeave
<1>16. CASE Cleanup
  BY <1>16 DEF Cleanup, Drop, MayLeave
<1>17. CASE TunnelStop
  <2>1. main' \in {"load", "retry", "stopped"} /\ after' = "load"
    BY <1>17 DEF TunnelStop
  <2>2. holds' \in [Sessions -> SUBSET Resources]
    BY <1>17 DEF TunnelStop, Drop
  <2>3. stateTok' \in Tokens
    BY <1>17 DEF TunnelStop
  <2>4. UNCHANGED <<storeVars, sig, sess, used, left, proxyVars, page, watch>>
    BY <1>17 DEF TunnelStop
  <2>5. QED
    BY <2>1, <2>2, <2>3, <2>4
<1>18. CASE TakeHup
  BY <1>18 DEF TakeHup, Again, CleanUp
<1>19. CASE RetryTimer
  BY <1>19 DEF RetryTimer
<1>20. QED
    BY <1>1, <1>2, <1>3, <1>4, <1>5, <1>6, <1>7, <1>8, <1>9, <1>10, <1>11,
     <1>12, <1>13, <1>14, <1>15, <1>16, <1>17, <1>18, <1>19
     DEF MainStep

(* The same for everything that is not a step of the loop by itself.       *)
LEMMA OtherStepType ==
  ASSUME DaemonTypeOK, SessionStage, Next, ~MainStep
  PROVE  DaemonTypeOK'
<1> USE MaxVerAssumption, MaxSessAssumption, StoreUnchanged
<1> USE DEF DaemonTypeOK, loopVars, proxyVars, router
<1>1. CASE TakeStop
  BY <1>1 DEF TakeStop, CleanUp
<1>2. CASE TakeReconnect
  BY <1>2 DEF TakeReconnect, Again, CleanUp, StoreTypeOK
<1>3. CASE Solve
  BY <1>3 DEF Solve
<1>4. CASE AskReturns
  <2>1. answered' \in BOOLEAN
    BY <1>4, Zenon DEF AskReturns
  <2>2. QED
    BY <1>4, <2>1 DEF AskReturns
<1>5. ASSUME NEW s \in Sessions, PrefetchEnds(s) PROVE DaemonTypeOK'
  BY <1>5 DEF PrefetchEnds
<1>6. ASSUME NEW s \in Sessions, GroupsStart(s) PROVE DaemonTypeOK'
  BY <1>6 DEF GroupsStart
<1>7. ASSUME NEW s \in Sessions, Unwind(s) PROVE DaemonTypeOK'
  BY <1>7 DEF Unwind
<1>8. ASSUME NEW s \in Sessions, AskCaptcha(s) PROVE DaemonTypeOK'
  <2>1. answered' \in BOOLEAN /\ notify' \in BOOLEAN
    BY <1>8, Zenon DEF AskCaptcha
  <2>2. asks' \in 0..MaxAsks /\ asker' \in 0..MaxSess
    BY <1>8, MaxAsksAssumption DEF AskCaptcha
  <2>3. QED
    BY <1>8, <2>1, <2>2 DEF AskCaptcha
<1>9. ASSUME NEW s \in Sessions, WatchdogReconnects(s) PROVE DaemonTypeOK'
  BY <1>9 DEF WatchdogReconnects, AskReconnect, StoreTypeOK
<1>10. CASE WatchdogFires
  BY <1>10 DEF WatchdogFires, SessionStage
<1>11. ASSUME NEW x \in Signals, Signal(x) PROVE DaemonTypeOK'
  BY <1>11, SignalsAssumption DEF Signal
<1>12. CASE AskReconnect /\ Others
  BY <1>12 DEF AskReconnect, Others, StoreTypeOK
<1>13. ASSUME NEW h \in Handlers, HandlerBegin(h) \/ HandlerStep(h), Others
       PROVE  DaemonTypeOK'
  <2>1. StoreTypeOK'
    BY <1>13, HandlerBeginType, HandlerStepType
  <2>2. QED
    BY <1>13, <2>1 DEF Others
<1>14. QED
  BY <1>1, <1>2, <1>3, <1>4, <1>5, <1>6, <1>7, <1>8, <1>9, <1>10, <1>11,
     <1>12, <1>13 DEF Next, ProxyStep

-----------------------------------------------------------------------------
(* What the session has up, and at which stage.  Only the loop's own steps *)
(* and the end of a StartProxy move these variables.                       *)
LEMMA SessionStep ==
  ASSUME DaemonTypeOK, SessionStage, OneSessionUp, Next
  PROVE  SessionStage' /\ OneSessionUp'
<1> USE MaxSessAssumption, NextSessType
<1> USE DEF DaemonTypeOK, SessionStage, OneSessionUp, loopVars, proxyVars, router
<1>1. CASE UNCHANGED <<main, sess, holds, boot>>
  BY <1>1
<1>2. CASE LoadNothing
  BY <1>2 DEF LoadNothing
<1>3. CASE LoadConfig
  BY <1>3 DEF LoadConfig
<1>4. CASE LoadState
  BY <1>4 DEF LoadState
<1>5. CASE PrepareFails
  BY <1>5 DEF PrepareFails
<1>6. CASE Prepare
  BY <1>6 DEF Prepare, Gain
<1>7. CASE WaitReadyResult
  BY <1>7 DEF WaitReadyResult, Finished, CleanUp, UnchangedButMain
<1>8. CASE WaitReadyPending \/ WaitReadyNotified
  BY <1>8 DEF WaitReadyPending, WaitReadyNotified, ShowCaptcha
<1>9. CASE WaitReadyFails
  BY <1>9 DEF WaitReadyFails, CleanUp, UnchangedButMain
<1>10. CASE Bypass
  BY <1>10 DEF Bypass, Gain
<1>11. CASE Up
  BY <1>11 DEF Up, Gain
<1>12. CASE UpFails
  BY <1>12 DEF UpFails, CleanUp
<1>13. CASE Commit
  BY <1>13 DEF Commit
<1>14. CASE SaveState
  BY <1>14 DEF SaveState
<1>15. CASE BackendDown
  BY <1>15 DEF BackendDown, Drop
<1>16. CASE Cleanup
  BY <1>16 DEF Cleanup, Drop
<1>17. CASE TunnelStop
  BY <1>17 DEF TunnelStop, Drop
<1>18. CASE TakeHup
  BY <1>18 DEF TakeHup, Again, CleanUp
<1>19. CASE RetryTimer
  BY <1>19 DEF RetryTimer
<1>20. CASE TakeStop
  BY <1>20 DEF TakeStop, CleanUp
<1>21. CASE TakeReconnect
  BY <1>21 DEF TakeReconnect, Again, CleanUp
<1>22. CASE Solve
  BY <1>22 DEF Solve
<1>23. ASSUME NEW s \in Sessions, PrefetchEnds(s) \/ GroupsStart(s)
       PROVE  SessionStage' /\ OneSessionUp'
  BY <1>23 DEF PrefetchEnds, GroupsStart
<1>24. ASSUME NEW s \in Sessions,
              Unwind(s) \/ AskCaptcha(s) \/ WatchdogReconnects(s)
       PROVE  UNCHANGED <<main, sess, holds, boot>>
  BY <1>24 DEF Unwind, AskCaptcha, WatchdogReconnects
<1>25. CASE AskReturns \/ WatchdogFires \/ (\E x \in Signals : Signal(x))
  BY <1>1, <1>25 DEF AskReturns, WatchdogFires, Signal
<1>26. CASE Others
  BY <1>1, <1>26 DEF Others
<1>27. QED
    BY <1>1, <1>2, <1>3, <1>4, <1>5, <1>6, <1>7, <1>8, <1>9, <1>10, <1>11,
     <1>12, <1>13, <1>14, <1>15, <1>16, <1>17, <1>18, <1>19, <1>20, <1>21,
     <1>22, <1>23, <1>24, <1>25, <1>26 DEF Next, MainStep, ProxyStep

-----------------------------------------------------------------------------
(* A step of a writer keeps its promise: before config.conf holds a new    *)
(* configuration the writer is on its way to the reconnect, and it leaves  *)
(* that way only with the reconnect sent or the import given up.           *)
LEMMA WriterStep ==
  ASSUME DaemonTypeOK, SavedConfigIsAnnounced, Others,
         NEW h \in Handlers, HandlerBegin(h) \/ HandlerStep(h)
  PROVE  SavedConfigIsAnnounced'
<1> USE DEF SavedConfigIsAnnounced, Announcing, DaemonTypeOK, StoreTypeOK
<1>a. /\ UNCHANGED <<main, after, used>>
      /\ handler \in [Handlers -> HandlerType]
  BY DEF Others, loopVars
<1>1. CASE SaveRename(h)
  BY <1>1, <1>a DEF SaveRename
<1>2. CASE SaveCreate(h)
  BY <1>2, <1>a DEF SaveCreate
<1>3. CASE SaveWrite(h)
  <2>1. handler'[h].pc \in {"state", "trigger"}
    BY <1>3, <1>a DEF SaveWrite, HandlerType
  <2>2. QED
    BY <2>1
<1>4. CASE SaveFails(h)
  <2>1. \A x \in Handlers : Announcing(x) => Announcing(x)'
    BY <1>4, <1>a DEF SaveFails, HandlerType
  <2>2. UNCHANGED <<config, reconnect, orphan>>
    BY <1>4 DEF SaveFails
  <2>3. QED
    BY <1>a, <2>1, <2>2
<1>5. CASE ImportLoadState(h) \/ ImportTruncateState(h) \/ ImportSaveState(h)
  <2>1. handler'[h].pc \in {"stateSave", "stateFill", "trigger"}
    BY <1>5, <1>a DEF ImportLoadState, ImportTruncateState, ImportSaveState,
       HandlerType
  <2>2. QED
    BY <2>1
<1>6. CASE ImportSaveStateFails(h)
  BY <1>6 DEF ImportSaveStateFails
<1>7. CASE TriggerReconnect(h)
  BY <1>7 DEF TriggerReconnect
<1>8. ASSUME NEW keeps \in BOOLEAN, Begin(h, keeps)
      PROVE  SavedConfigIsAnnounced'
  <2>1. \A x \in Handlers : Announcing(x) => Announcing(x)'
    BY <1>8, <1>a DEF Begin, HandlerType
  <2>2. UNCHANGED <<config, reconnect, orphan>>
    BY <1>8 DEF Begin
  <2>3. QED
    BY <1>a, <2>1, <2>2
<1>9. CASE HandlerBegin(h)
  BY <1>8, <1>9 DEF HandlerBegin, ReloadFetch, ImportFetch, ConfPaste
<1>10. QED
  BY <1>1, <1>2, <1>3, <1>4, <1>5, <1>6, <1>7, <1>9 DEF HandlerStep

LEMMA SavedConfigStep ==
  ASSUME DaemonTypeOK, SavedConfigIsAnnounced, Next
  PROVE  SavedConfigIsAnnounced'
<1> USE DEF storeVars, loopVars, proxyVars, router
<1>1. CASE UNCHANGED <<config, reconnect, handler, orphan, main, after, used>>
  BY <1>1 DEF SavedConfigIsAnnounced, Announcing
<1>2. CASE main' \in {"load", "stopped"}
  BY <1>2 DEF SavedConfigIsAnnounced
<1>3. CASE config = Missing /\ UNCHANGED config
  BY <1>3 DEF SavedConfigIsAnnounced
<1>4. CASE used' = config /\ UNCHANGED config
  BY <1>4 DEF SavedConfigIsAnnounced
<1>5. ASSUME main \in Connecting \cup Waiting,
             UNCHANGED <<config, reconnect, handler, orphan, used>>
      PROVE  SavedConfigIsAnnounced'
  BY <1>5 DEF SavedConfigIsAnnounced, Announcing
<1>6. CASE reconnect'
  BY <1>6 DEF SavedConfigIsAnnounced
<1>7. CASE LoadNothing \/ LoadConfig
  BY <1>3, <1>4, <1>7 DEF LoadNothing, LoadConfig
<1>8. CASE LoadState \/ PrepareFails \/ Prepare \/ WaitReadyResult
             \/ WaitReadyPending \/ WaitReadyNotified \/ WaitReadyFails \/ Solve
  BY <1>5, <1>8 DEF LoadState, PrepareFails, Prepare, WaitReadyResult,
     WaitReadyPending, WaitReadyNotified, WaitReadyFails, Solve, ShowCaptcha,
     CleanUp, UnchangedButMain
<1>9. CASE Bypass \/ Up \/ UpFails \/ Commit \/ SaveState
  BY <1>5, <1>9 DEF Bypass, Up, UpFails, Commit, SaveState, CleanUp
<1>10. CASE BackendDown \/ Cleanup
  <2>1. /\ main \in CleaningUp /\ main' \in CleaningUp
        /\ UNCHANGED <<config, reconnect, handler, orphan, after, used>>
    BY <1>10 DEF BackendDown, Cleanup
  <2>2. QED
    BY <2>1 DEF SavedConfigIsAnnounced, Announcing
<1>11. CASE TunnelStop
  <2>1. /\ main \in CleaningUp /\ main' = after
        /\ UNCHANGED <<config, reconnect, handler, orphan, used>>
    BY <1>11 DEF TunnelStop
  <2>2. after \in {"load", "retry", "stopped"}
    BY DEF DaemonTypeOK
  <2>3. QED
    BY <2>1, <2>2 DEF SavedConfigIsAnnounced, Announcing
<1>12. CASE TakeHup \/ RetryTimer \/ TakeStop \/ TakeReconnect
  <2>1. \/ main' \in {"load", "stopped"}
        \/ main' = "down" /\ after' \in {"load", "stopped"}
    BY <1>12 DEF TakeHup, RetryTimer, TakeStop, TakeReconnect, Again, CleanUp
  <2>2. QED
    BY <2>1 DEF SavedConfigIsAnnounced
<1>13. ASSUME NEW s \in Sessions, ProxyStep(s) \/ AskCaptcha(s)
       PROVE  SavedConfigIsAnnounced'
  BY <1>1, <1>13 DEF ProxyStep, PrefetchEnds, GroupsStart, Unwind, AskCaptcha
<1>14. CASE AskReturns \/ WatchdogFires \/ (\E x \in Signals : Signal(x))
  BY <1>1, <1>14 DEF AskReturns, WatchdogFires, Signal
<1>15. CASE AskReconnect
  <2>1. reconnect'
    BY <1>15, Zenon DEF AskReconnect
  <2>2. QED
    BY <1>6, <2>1
<1>16. ASSUME NEW h \in Handlers, (HandlerBegin(h) \/ HandlerStep(h)) /\ Others
       PROVE  SavedConfigIsAnnounced'
  BY <1>16, WriterStep
<1>17. ASSUME NEW s \in Sessions, WatchdogReconnects(s)
       PROVE  SavedConfigIsAnnounced'
  BY <1>15, <1>17 DEF WatchdogReconnects
<1>18. QED
  BY <1>7, <1>8, <1>9, <1>10, <1>11, <1>12, <1>13, <1>14, <1>15, <1>16, <1>17
     DEF Next, MainStep

-----------------------------------------------------------------------------
(* The inductive invariant.                                                *)
IInv == DaemonTypeOK /\ SessionStage /\ OneSessionUp /\ SavedConfigIsAnnounced

LEMMA InitInv == Init => IInv
<1> SUFFICES ASSUME Init PROVE IInv
  OBVIOUS
<1> USE MaxVerAssumption, MaxSessAssumption, MaxAsksAssumption DEF Init
<1>1. StoreTypeOK
  <2>1. reconnect \in BOOLEAN /\ orphan \in BOOLEAN
    BY Zenon DEF StoreInit
  <2>2. Idle \in HandlerType
    BY DEF Idle, HandlerType
  <2>3. handler \in [Handlers -> HandlerType]
    BY <2>2 DEF StoreInit
  <2>4. /\ config \in Configs /\ token \in Tokens
        /\ serial \in 0..MaxVer /\ imported \in Tokens
    BY DEF StoreInit
  <2>5. QED
    BY <2>1, <2>3, <2>4 DEF StoreTypeOK
<1>2. DaemonTypeOK
  <2>1. notify \in BOOLEAN /\ answered \in BOOLEAN
    BY Zenon
  <2>2. /\ sess \in 0..MaxSess /\ used \in Configs /\ stateTok \in Tokens
        /\ asker \in 0..MaxSess /\ asks \in 0..MaxAsks /\ page \in 0..MaxSess
    OBVIOUS
  <2>3. /\ holds \in [Sessions -> SUBSET Resources]
        /\ boot \in [Sessions -> {"none", "prefetch", "groups", "ok", "failed"}]
        /\ procs \in SUBSET Sessions /\ watch \in SUBSET Sessions
        /\ left \in SUBSET {"wg", "routes"}
    OBVIOUS
  <2>4. /\ main \in Connecting \cup CleaningUp \cup Waiting \cup {"load", "stopped"}
        /\ sig \in {"none", "hup", "stop"}
        /\ after \in {"load", "retry", "stopped"}
    OBVIOUS
  <2>5. QED
    BY <1>1, <2>1, <2>2, <2>3, <2>4 DEF DaemonTypeOK
<1>3. SessionStage /\ OneSessionUp /\ SavedConfigIsAnnounced
  BY DEF SessionStage, OneSessionUp, SavedConfigIsAnnounced
<1>4. QED
  BY <1>2, <1>3 DEF IInv

LEMMA StepInv == IInv /\ [Next]_vars => IInv'
<1> SUFFICES ASSUME IInv, [Next]_vars PROVE IInv'
  OBVIOUS
<1>1. CASE Next
  BY <1>1, MainStepType, OtherStepType, SessionStep, SavedConfigStep DEF IInv
<1>2. CASE UNCHANGED vars
  <2>1. UNCHANGED <<storeVars, loopVars, sig, proxyVars, main, router, page,
                    watch>>
    BY <1>2 DEF vars
  <2>2. DaemonTypeOK'
    BY <2>1, StoreUnchanged DEF IInv, DaemonTypeOK, loopVars, proxyVars, router
  <2>3. SessionStage' /\ OneSessionUp'
    BY <2>1 DEF IInv, SessionStage, OneSessionUp, loopVars, proxyVars, router
  <2>4. SavedConfigIsAnnounced'
    BY <2>1 DEF IInv, SavedConfigIsAnnounced, Announcing, storeVars, loopVars
  <2>5. QED
    BY <2>2, <2>3, <2>4 DEF IInv
<1>3. QED
  BY <1>1, <1>2

LEMMA Invariance == Spec => []IInv
  BY InitInv, StepInv, PTL DEF Spec

(* Every variable keeps its type: in particular the numbers of sessions,   *)
(* configurations and captchas stay within their bounds.                   *)
THEOREM TypeCorrect == Spec => []DaemonTypeOK
<1>1. IInv => DaemonTypeOK
  BY DEF IInv
<1>2. QED
  BY <1>1, Invariance, PTL

(* Reload and import (main.go:328-380): a saved configuration is never     *)
(* forgotten, whatever the interleaving of the writers with the loop.      *)
THEOREM ConfigNotForgotten == Spec => []SavedConfigIsAnnounced
<1>1. IInv => SavedConfigIsAnnounced
  BY DEF IInv
<1>2. QED
  BY <1>1, Invariance, PTL

(* Connect and Disconnect (core/manager.go:59-220): every way out of a     *)
(* session undoes the calls it has made, whatever the router then keeps.   *)
THEOREM OneSession == Spec => []OneSessionUp
<1>1. IInv => OneSessionUp
  BY DEF IInv
<1>2. QED
  BY <1>1, Invariance, PTL

(* Connect (core/manager.go:88-159): the WireGuard of a session is up only *)
(* over its ready proxy and inside the bypass, and the proxy sends nothing *)
(* before Prepare, also when WireGuard has stayed up from before.          *)
THEOREM BypassFirst == Spec => []TunnelInsideBypass
<1>1. IInv => TunnelInsideBypass
  <2> SUFFICES ASSUME IInv, NEW s \in Sessions
               PROVE  /\ "wg" \in holds[s] =>
                           /\ {"prep", "bypass", "proxy"} \subseteq holds[s]
                           /\ boot[s] = "ok"
                      /\ Live(s) /\ main # "stop" => "prep" \in holds[s]
    BY DEF TunnelInsideBypass
  <2>1. holds[s] # {} => s = sess /\ main \notin {"load", "loadState", "idle",
                                      "retry", "prepare", "stopped"}
    BY DEF IInv, OneSessionUp
  <2>2. CASE "wg" \in holds[s]
    BY <2>1, <2>2 DEF IInv, SessionStage
  <2>3. CASE Live(s) /\ main # "stop"
    <3>1. s = sess
      BY <2>1, <2>3 DEF Live
    <3>2. main \in {"waitReady", "captcha", "bypass", "up", "commit",
                   "saveState", "connected", "down", "downRoutes"}
      BY <2>1, <2>3 DEF Live, IInv, DaemonTypeOK
    <3>3. QED
      BY <3>1, <3>2 DEF IInv, SessionStage
  <2>4. QED
    BY <2>2, <2>3, <2>1 DEF IInv, SessionStage, Live
<1>2. QED
  BY <1>1, Invariance, PTL
==============================================================================
