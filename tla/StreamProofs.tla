----------------------------- MODULE StreamProofs -----------------------------
(***************************************************************************)
(* Proofs about Stream, for every transport, queue, counter and set of     *)
(* SSRCs.                                                                  *)
(***************************************************************************)
EXTENDS Stream, TLAPS

(* Which loops a stage of the session can have: those of the pipe are      *)
(* DTLS's, and the others start after the session header.                  *)
LoopsOfStage ==
  /\ stage \in {"off", "left"} => alive = {}
  /\ stage \in {"shake", "burst"} => alive \subseteq Pipes
  /\ alive \cap Pipes # {} => kind = "dtls"

(* Between sessions nothing is reported, and DTLS has its connection.      *)
AtRest ==
  /\ stage = "off" => firstErr = None /\ ~sCancelled
  /\ stage \notin {"off", "left"} /\ kind = "dtls" => conn # "none"

(* Why a session is being closed.  The reader ends with a report only, and *)
(* what is closed or cancelled was so after a first report, the stop, a    *)
(* blackhole or the server's end of the connection; an error of the closing*)
(* comes after that.                                                       *)
Blamed ==
  /\ stage \in {"settle", "serve"} /\ "rx" \notin alive => firstErr # None
  /\ stage \notin {"off", "left"} /\ (sCancelled \/ ~relay \/ conn = "closed")
     => stopped \/ deadCh \/ firstErr # None \/ conn = "hungup"
  /\ firstErr = "closed" => stopped \/ deadCh \/ conn = "hungup"
  /\ RootCauseReported

(* The pairs of the present SSRC that are claimed lie below its counter.   *)
Below ==
  /\ \A p \in spent : p[1] = word[1] => p[2] < word[2]
  /\ NonceUnique

(* The inductive invariant.                                                *)
IInv == StreamTypeOK /\ LoopsOfStage /\ AtRest /\ Blamed /\ Below
-----------------------------------------------------------------------------
(* wrapTxState.                                                            *)

NonceTypes ==
  /\ word \in Words /\ held \in [Senders -> Words \cup {None}]
  /\ spent \subseteq Words /\ reused \in BOOLEAN

LEMMA SuccessorIsWord ==
  ASSUME NEW w \in Words, NEW v \in Successor(w)
  PROVE  v \in Words /\ (v[1] = w[1] => v[2] = w[2] + 1)
<1>1. /\ w[1] \in Ssrcs /\ w[2] \in 0..CounterMod-1
      /\ CounterMod \in Nat \ {0}
  BY StreamAssumption DEF Words
<1>2. CASE w[2] + 1 < CounterMod
  BY <1>1, <1>2 DEF Successor, Words
<1>3. CASE ~(w[2] + 1 < CounterMod)
  <2>1. PICK s \in Ssrcs \ {w[1]} : v = <<s, 0>>
    BY <1>3 DEF Successor
  <2>2. 0 \in 0..CounterMod-1
    BY <1>1
  <2>3. QED
    BY <2>1, <2>2 DEF Words
<1>4. QED
  BY <1>2, <1>3

(* Whether the counter goes on or ends, what goes into a header is below   *)
(* it and what was claimed before is another SSRC's or smaller.            *)
LEMMA SpendIsNew ==
  ASSUME NonceTypes, Below, Spend(word)
  PROVE  Below' /\ word' \in Words /\ spent' \subseteq Words
                /\ reused' \in BOOLEAN
<1>1. /\ word' \in Words
      /\ word'[1] = word[1] => word'[2] = word[2] + 1
  BY SuccessorIsWord DEF NonceTypes, Spend
<1>2. spent' \subseteq spent \cup {word}
  BY DEF Spend
<1>3. word \notin spent
  <2>1. word[2] \in Nat
    BY StreamAssumption DEF NonceTypes, Words
  <2>2. QED
    BY <2>1 DEF Below
<1>4. ~reused'
  BY <1>3 DEF Spend, Below, NonceUnique
<1>5. ASSUME NEW p \in spent', p[1] = word'[1]
      PROVE  p[2] < word'[2]
  <2>1. word'[1] = word[1]
    BY <1>5 DEF Spend
  <2>2. word'[2] = word[2] + 1
    BY <1>1, <2>1
  <2>3. p \in Words
    BY <1>2, <1>5 DEF NonceTypes
  <2>4. p[2] \in Nat /\ word[2] \in Nat
    BY <2>3, StreamAssumption DEF NonceTypes, Words
  <2>5. CASE p = word
    BY <2>2, <2>4, <2>5
  <2>6. CASE p \in spent
    <3>1. p[2] < word[2]
      BY <1>5, <2>1, <2>6 DEF Below
    <3>2. QED
      BY <2>2, <2>4, <3>1
  <2>7. QED
    BY <1>2, <1>5, <2>5, <2>6
<1>6. spent' \subseteq Words
  BY <1>2 DEF NonceTypes
<1>7. reused' \in BOOLEAN
  BY DEF Spend
<1>8. QED
  BY <1>1, <1>4, <1>5, <1>6, <1>7 DEF Below, NonceUnique

LEMMA WrapIsNew ==
  ASSUME NonceTypes, Below, NEW l \in Senders, Wrap(l)
  PROVE  NonceTypes' /\ Below'
<1>1. CASE ClaimPair(l)
  <2>1. Below' /\ word' \in Words /\ spent' \subseteq Words /\ reused' \in BOOLEAN
    BY <1>1, SpendIsNew DEF ClaimPair
  <2>2. held' \in [Senders -> Words \cup {None}]
    BY <1>1 DEF ClaimPair, NonceTypes
  <2>3. QED
    BY <2>1, <2>2 DEF NonceTypes
<1>2. CASE UNCHANGED nonces
  BY <1>2 DEF nonces, NonceTypes, Below, NonceUnique
<1>3. QED
  BY <1>1, <1>2 DEF Wrap

(* Steps that claim nothing.                                               *)
LEMMA NothingSpent ==
  ASSUME NonceTypes, Below, held' \in [Senders -> Words \cup {None}],
         UNCHANGED <<word, spent, reused>>
  PROVE  NonceTypes' /\ Below'
  BY DEF NonceTypes, Below, NonceUnique
LEMMA NonceStep ==
  ASSUME NonceTypes, Below, [StreamNext]_streamVars
  PROVE  NonceTypes' /\ Below'
<1>1. ASSUME UNCHANGED nonces
      PROVE  NonceTypes' /\ Below'
  BY <1>1, NothingSpent DEF nonces, NonceTypes
<1>2. ASSUME NEW l \in Senders, held' = [held EXCEPT ![l] = None],
             UNCHANGED <<word, spent, reused>>
      PROVE  NonceTypes' /\ Below'
  BY <1>2, NothingSpent DEF NonceTypes
<1>3. CASE BeginSession \/ Close \/ Recycle \/ Dispatch \/ TxTake \/ RxFails
  BY <1>1, <1>3 DEF BeginSession, Close, Recycle, Dispatch, TxTake, RxFails, nonces
<1>4. CASE Shaken \/ Leaves \/ TxStops \/ PrxFails \/ Note \/ HangUp \/ Stop
  BY <1>1, <1>4 DEF Shaken, Leaves, Settle, Returns, Over, TxStops, PrxFails,
                    Note, Mark, HangUp, Stop, nonces
<1>L. CASE LateSends \/ LateEnds
  <2>1. CASE LateSends
    BY <2>1, SpendIsNew DEF LateSends, NonceTypes
  <2>2. CASE LateEnds
    BY <1>1, <2>2 DEF LateEnds
  <2>3. QED
    BY <1>L, <2>1, <2>2
<1>5. CASE TxSend \/ KaSends \/ PtxSends
  BY <1>5, WrapIsNew DEF TxSend, KaSends, PtxSends, Senders
<1>6. CASE HelloFails \/ KaEnds \/ PtxEnds
  BY <1>2, <1>6 DEF HelloFails, KaEnds, PtxEnds, Senders
<1>7. CASE Greeted
  <2>1. CASE UNCHANGED nonces
    BY <1>1, <2>1
  <2>2. CASE Spend(word) /\ UNCHANGED held
    BY <2>2, SpendIsNew DEF NonceTypes
  <2>3. QED
    BY <1>7, <2>1, <2>2 DEF Greeted
<1>8. ASSUME NEW l \in Senders, Load(l) \/ CasFails(l)
      PROVE  NonceTypes' /\ Below'
  <2>1. CASE Load(l)
    BY <2>1, NothingSpent DEF Load, NonceTypes
  <2>2. CASE CasFails(l)
    BY <1>2, <2>2 DEF CasFails
  <2>3. QED
    BY <1>8, <2>1, <2>2
<1>9. CASE UNCHANGED streamVars
  BY <1>1, <1>9 DEF streamVars
<1>10. QED
  BY <1>3, <1>4, <1>5, <1>6, <1>7, <1>8, <1>9, <1>L DEF StreamNext, Hello, Tx

-----------------------------------------------------------------------------
(* The session.                                                            *)

SessionTypes ==
  /\ kind \in Kinds /\ wrapped \in BOOLEAN /\ stopped \in BOOLEAN
  /\ stage \in {"off", "shake", "burst", "settle", "serve", "left"}
  /\ alive \subseteq Loops \cup Pipes /\ late \in BOOLEAN
  /\ sCancelled \in BOOLEAN /\ relay \in BOOLEAN
  /\ conn \in {"none", "open", "hungup", "closed"}
  /\ firstErr \in Errors \cup {None} /\ result \in Errors \cup {None}
  /\ ready \in BOOLEAN /\ (ready => stage \in {"serve", "left"})
  /\ marks \in [bind : 0..1, perm : 0..1] /\ deadCh \in BOOLEAN
  /\ queued \in 0..QueueCap /\ carries \in BOOLEAN
  /\ carries => "tx" \in alive

SInv == SessionTypes /\ LoopsOfStage /\ AtRest /\ Blamed
(* A loop that fails reports, and what the closing did to it is reported   *)
(* only after the cause.                                                   *)
LEMMA FailKeeps ==
  ASSUME SInv, NEW l \in alive, NEW e \in {"cause", "closed"},
         Fail(l, e), LoopFrame, queued' = queued,
         carries' \in {FALSE, carries}, l = "tx" => ~carries',
         e = "closed" => stopped \/ deadCh \/ conn = "hungup" \/ firstErr # None
  PROVE  SInv'
<1> USE DEF Fail, LoopFrame, watch
<1>1. firstErr' # None /\ firstErr' \in Errors
  BY NilIsNoError DEF Errors, SInv, SessionTypes
<1>2. stage \notin {"off", "left"}
  BY DEF SInv, LoopsOfStage
<1>3. SessionTypes'
  <2>1. carries' \in BOOLEAN
    BY DEF SInv, SessionTypes
  <2>2. carries' => "tx" \in alive'
    BY DEF SInv, SessionTypes
  <2>3. QED
    BY <1>1, <2>1, <2>2 DEF SInv, SessionTypes
<1>4. LoopsOfStage' /\ AtRest'
  BY <1>2 DEF SInv, LoopsOfStage, AtRest
<1>5. Blamed'
  BY <1>1, <1>2 DEF SInv, Blamed, RootCauseReported
<1>6. QED
  BY <1>3, <1>4, <1>5 DEF SInv

(* One that ends without a report is not the reader, and the session was   *)
(* being closed or its DTLS connection is not open any more.               *)
LEMMA QuitKeeps ==
  ASSUME SInv, NEW l \in alive \ {"rx"}, Quit(l), LoopFrame,
         UNCHANGED <<queued, carries>>, l = "tx" => ~carries,
         Done \/ (kind = "dtls" /\ conn # "open")
  PROVE  SInv'
<1> USE DEF Quit, LoopFrame, watch
<1>1. stage \notin {"off", "left"}
  BY DEF SInv, LoopsOfStage
<1>2. SessionTypes'
  BY DEF SInv, SessionTypes
<1>3. LoopsOfStage' /\ AtRest'
  BY <1>1 DEF SInv, LoopsOfStage, AtRest
<1>4. Done => stopped \/ deadCh \/ firstErr # None \/ conn = "hungup"
  BY <1>1 DEF SInv, Blamed, Done
<1>5. kind = "dtls" /\ conn # "open" =>
        stopped \/ deadCh \/ firstErr # None \/ conn = "hungup"
  BY <1>1 DEF SInv, Blamed, AtRest, SessionTypes
<1>6. Blamed'
  BY <1>1, <1>4, <1>5 DEF SInv, Blamed, RootCauseReported
<1>7. QED
  BY <1>2, <1>3, <1>6 DEF SInv

(* A step of a loop, or of the dispatcher, that leaves the session alone.  *)
LEMMA SessionStays ==
  ASSUME SInv, UNCHANGED <<kind, wrapped, stopped, session, watch>>,
         queued' \in 0..QueueCap, carries' \in BOOLEAN,
         carries' => "tx" \in alive
  PROVE  SInv'
<1> USE DEF session, watch
<1>1. SessionTypes'
  BY DEF SInv, SessionTypes
<1>2. LoopsOfStage' /\ AtRest' /\ Blamed'
  BY DEF SInv, LoopsOfStage, AtRest, Blamed, RootCauseReported
<1>3. QED
  BY <1>1, <1>2 DEF SInv

LEMMA LoopStep ==
  ASSUME SInv,
         \/ Dispatch \/ TxTake \/ Tx \/ RxFails \/ KaSends \/ KaEnds
         \/ PtxSends \/ PtxEnds \/ PrxFails \/ LateSends \/ LateEnds
         \/ \E l \in Senders : Load(l) \/ CasFails(l)
  PROVE  SInv'
<1>1. CASE Dispatch
  <2>1. queued' \in 0..QueueCap
    BY <1>1, StreamAssumption DEF Dispatch, SInv, SessionTypes
  <2>2. QED
    BY <1>1, <2>1, SessionStays DEF Dispatch, SInv, SessionTypes
<1>2. CASE TxTake
  <2>1. queued' \in 0..QueueCap
    BY <1>2, StreamAssumption DEF TxTake, SInv, SessionTypes
  <2>2. QED
    BY <1>2, <2>1, SessionStays DEF TxTake
<1>3. CASE TxSend
  <2>1. "tx" \in alive
    BY <1>3 DEF TxSend, SInv, SessionTypes
  <2>2. CASE UNCHANGED <<alive, sCancelled, firstErr>>
    BY <1>3, <2>2, SessionStays DEF TxSend, LoopFrame, session, watch, SInv, SessionTypes
  <2>3. CASE Fail("tx", Why(TxBroken))
    <3>1. Why(TxBroken) \in {"cause", "closed"}
      BY DEF Why
    <3>2. Why(TxBroken) = "closed" =>
            stopped \/ deadCh \/ conn = "hungup" \/ firstErr # None
      BY <2>1 DEF Why, TxBroken, SInv, SessionTypes, LoopsOfStage, AtRest, Blamed
    <3>3. QED
      BY <1>3, <2>1, <2>3, <3>1, <3>2, FailKeeps DEF TxSend
  <2>4. QED
    BY <1>3, <2>2, <2>3 DEF TxSend
<1>4. CASE TxStops
  BY <1>4, QuitKeeps DEF TxStops
<1>5. CASE RxFails
  <2>1. Why(RxBroken) \in {"cause", "closed"}
    BY DEF Why
  <2>2. Why(RxBroken) = "closed" =>
          stopped \/ deadCh \/ conn = "hungup" \/ firstErr # None
    <3>1. kind \in {"wireguard", "dtls", "srtp"}
      BY StreamAssumption DEF SInv, SessionTypes
    <3>2. QED
      BY <1>5, <3>1 DEF RxFails, Why, RxBroken, SInv, SessionTypes,
                            LoopsOfStage, AtRest, Blamed
  <2>3. QED
    BY <1>5, <2>1, <2>2, FailKeeps DEF RxFails, SInv, SessionTypes
<1>6. CASE KaSends
  BY <1>6, SessionStays DEF KaSends, SInv, SessionTypes
<1>7. CASE KaEnds
  <2>1. CASE Fail("ka", "cause")
    BY <1>7, <2>1, FailKeeps DEF KaEnds, SInv, SessionTypes
  <2>2. CASE Done /\ Quit("ka")
    BY <1>7, <2>2, QuitKeeps DEF KaEnds
  <2>3. QED
    BY <1>7, <2>1, <2>2 DEF KaEnds
<1>8. CASE PtxSends
  <2>1. ~relay => stopped \/ deadCh \/ conn = "hungup" \/ firstErr # None
    BY <1>8 DEF PtxSends, SInv, LoopsOfStage, Blamed
  <2>2. CASE UNCHANGED <<alive, sCancelled, firstErr>>
    BY <1>8, <2>2, SessionStays DEF PtxSends, LoopFrame, session, watch, SInv, SessionTypes
  <2>3. CASE Fail("ptx", IF relay THEN "cause" ELSE "closed")
    BY <1>8, <2>1, <2>3, FailKeeps DEF PtxSends, SInv, SessionTypes
  <2>4. QED
    BY <1>8, <2>2, <2>3 DEF PtxSends
<1>9. CASE PtxEnds
  BY <1>9, QuitKeeps DEF PtxEnds, SInv, SessionTypes, LoopsOfStage, Pipes
<1>10. CASE PrxFails
  <2>1. kind = "dtls" /\ stage \notin {"off", "left"}
    BY <1>10 DEF PrxFails, SInv, LoopsOfStage, Pipes
  <2>2. ~relay \/ conn # "open" =>
          stopped \/ deadCh \/ conn = "hungup" \/ firstErr # None
    BY <2>1 DEF SInv, Blamed, AtRest, SessionTypes
  <2>3. QED
    BY <1>10, <2>2, FailKeeps DEF PrxFails, SInv, SessionTypes
<1>L. CASE LateSends \/ LateEnds
  <2>1. CASE LateSends
    BY <2>1, SessionStays DEF LateSends, SInv, SessionTypes
  <2>2. CASE LateEnds
    <3>1. /\ UNCHANGED <<kind, wrapped, stopped, stage, alive, sCancelled, relay, conn,
                          firstErr, result, ready, marks, deadCh, queued, carries>>
          /\ late' = FALSE
      BY <2>2 DEF LateEnds, watch
    <3>2. SessionTypes'
      <4>1. late' \in BOOLEAN
        BY <3>1
      <4>2. QED
        BY <3>1, <4>1 DEF SInv, SessionTypes
    <3>3. LoopsOfStage' /\ AtRest' /\ Blamed'
      BY <3>1 DEF SInv, LoopsOfStage, AtRest, Blamed, RootCauseReported
    <3>4. QED
      BY <3>2, <3>3 DEF SInv
  <2>3. QED
    BY <1>L, <2>1, <2>2
<1>11. ASSUME NEW l \in Senders, Load(l) \/ CasFails(l)
       PROVE  SInv'
  BY <1>11, SessionStays DEF Load, CasFails, SInv, SessionTypes
<1>12. QED
  BY <1>1, <1>2, <1>3, <1>4, <1>5, <1>6, <1>7, <1>8, <1>9, <1>10, <1>11, <1>L DEF Tx
LEMMA SessionStep ==
  ASSUME SInv, BeginSession \/ Hello \/ Leaves \/ Close \/ Recycle \/ Note \/ HangUp \/ Stop
  PROVE  SInv'
<1> USE DEF SessionFrame, WorldFrame, watch
<1>0. alive = {} => ~carries
  BY DEF SInv, SessionTypes
<1>1. CASE BeginSession
  <2> USE <1>1 DEF BeginSession
  <2>1. SessionTypes'
    <3>1. marks' \in [bind : 0..1, perm : 0..1]
      BY DEF SInv, SessionTypes
    <3>2. alive' \subseteq Loops \cup Pipes /\ ~carries'
      BY <1>0 DEF SInv, LoopsOfStage
    <3>3. ~ready
      BY DEF SInv, SessionTypes
    <3>4. /\ stage' \in {"off", "shake", "burst", "settle", "serve", "left"}
          /\ conn' \in {"none", "open", "hungup", "closed"}
      OBVIOUS
    <3>5. QED
      BY <3>1, <3>2, <3>3, <3>4 DEF SInv, SessionTypes
  <2>2. LoopsOfStage' /\ AtRest' /\ Blamed'
    BY NilIsNoError DEF SInv, LoopsOfStage, AtRest, Blamed, RootCauseReported, Pipes, Errors
  <2>3. QED
    BY <2>1, <2>2 DEF SInv
<1>2. CASE Shaken
  BY <1>2 DEF Shaken, SInv, SessionTypes, LoopsOfStage, AtRest, Blamed, RootCauseReported
<1>3. CASE Greeted
  <2> USE <1>3 DEF Greeted
  <2>1. SessionTypes'
    BY DEF SInv, SessionTypes
  <2>2. LoopsOfStage' /\ AtRest'
    BY DEF SInv, LoopsOfStage, AtRest, Loops, Pipes
  <2>3. "rx" \in alive'
    BY DEF Loops
  <2>4. Blamed'
    BY <2>3 DEF SInv, Blamed, RootCauseReported
  <2>5. QED
    BY <2>1, <2>2, <2>4 DEF SInv
<1>4. CASE HelloFails
  <2> USE <1>4 DEF HelloFails
  <2>1. ~carries
    BY DEF SInv, SessionTypes, LoopsOfStage, Pipes
  <2>2. SessionTypes'
    BY <2>1 DEF SInv, SessionTypes, Errors
  <2>3. LoopsOfStage' /\ AtRest'
    BY DEF LoopsOfStage, AtRest
  <2>4. Blamed'
    BY NilIsNoError DEF SInv, Blamed, RootCauseReported, Errors
  <2>5. QED
    BY <2>2, <2>3, <2>4 DEF SInv
<1>5. CASE Settle
  BY <1>5 DEF Settle, SInv, SessionTypes, LoopsOfStage, AtRest, Blamed, RootCauseReported
<1>6. CASE Returns
  <2> USE <1>6 DEF Returns
  <2>1. firstErr # None
    BY DEF SInv, Blamed
  <2>2. SessionTypes'
    BY DEF SInv, SessionTypes
  <2>3. LoopsOfStage' /\ AtRest' /\ Blamed'
    BY <2>1 DEF SInv, LoopsOfStage, AtRest, Blamed, RootCauseReported
  <2>4. QED
    BY <2>2, <2>3 DEF SInv
<1>7. CASE Over
  <2> USE <1>7 DEF Over, SessionLocalsGone
  <2>1. SessionTypes'
    <3>1. NoMarks \in [bind : 0..1, perm : 0..1]
      BY DEF NoMarks
    <3>2. /\ result' \in Errors \cup {None} /\ alive = {}
          /\ UNCHANGED <<kind, wrapped, stopped, alive, late, queued, carries>>
      BY DEF SInv, SessionTypes, Errors, LoopsOfStage
    <3>3. /\ ~ready' /\ stage' = "off" /\ firstErr' = None
          /\ marks' = NoMarks /\ conn' = "none"
      OBVIOUS
    <3>4. /\ ready' \in BOOLEAN /\ relay' \in BOOLEAN
          /\ sCancelled' \in BOOLEAN /\ deadCh' \in BOOLEAN
      OBVIOUS
    <3>5. QED
      BY <3>1, <3>2, <3>3, <3>4 DEF SInv, SessionTypes
  <2>2. LoopsOfStage' /\ AtRest' /\ Blamed'
    BY NilIsNoError DEF SInv, LoopsOfStage, AtRest, Blamed, RootCauseReported, Errors
  <2>3. QED
    BY <2>1, <2>2 DEF SInv
<1>8. CASE Close
  <2>1. SessionTypes' /\ LoopsOfStage'
    <3>1. /\ relay' = FALSE
          /\ conn' = IF conn = "open" THEN "closed" ELSE conn
          /\ UNCHANGED <<kind, wrapped, stopped, stage, alive, late, sCancelled,
                         firstErr, result, ready, marks, deadCh, queued, carries>>
      BY <1>8 DEF Close
    <3>2. relay' \in BOOLEAN /\ conn' \in {"none", "open", "hungup", "closed"}
      BY <3>1 DEF SInv, SessionTypes
    <3>3. QED
      BY <3>1, <3>2 DEF SInv, SessionTypes, LoopsOfStage
  <2>a. AtRest'
    BY <1>8 DEF Close, SInv, AtRest
  <2>2. Blamed'
    BY <1>8 DEF Close, Done, SInv, SessionTypes, Blamed, RootCauseReported
  <2>3. QED
    BY <2>1, <2>a, <2>2 DEF SInv
<1>9. CASE Recycle
  <2>1. SessionTypes' /\ LoopsOfStage' /\ AtRest'
    <3>1. relay' \in BOOLEAN
      BY <1>9 DEF Recycle
    <3>2. UNCHANGED <<kind, wrapped, stopped, stage, alive, late, sCancelled, conn,
                      firstErr, result, ready, marks, deadCh, queued, carries>>
      BY <1>9 DEF Recycle
    <3>3. QED
      BY <3>1, <3>2 DEF SInv, SessionTypes, LoopsOfStage, AtRest
  <2>2. Blamed'
    BY <1>9 DEF Recycle, SInv, Blamed, RootCauseReported
  <2>3. QED
    BY <2>1, <2>2 DEF SInv
<1>10. CASE Note
  <2>1. PICK f \in [bind : 0..1, perm : 0..1], d \in BOOLEAN : Mark(f, d)
    <3> USE DEF SInv, SessionTypes
    <3>1. /\ [marks EXCEPT !.bind = 0] \in [bind : 0..1, perm : 0..1]
          /\ [marks EXCEPT !.perm = 0] \in [bind : 0..1, perm : 0..1]
          /\ [marks EXCEPT !.bind = 1] \in [bind : 0..1, perm : 0..1]
          /\ [marks EXCEPT !.perm = 1] \in [bind : 0..1, perm : 0..1]
      OBVIOUS
    <3>2. QED
      BY <1>10, <3>1 DEF Note
  <2>2. SessionTypes' /\ LoopsOfStage' /\ AtRest'
    BY <2>1 DEF Mark, NoMarks, session, SInv, SessionTypes, LoopsOfStage, AtRest
  <2>3. ~deadCh
    BY <2>1 DEF Mark
  <2>4. Blamed'
    BY <2>1, <2>3 DEF Mark, session, SInv, Blamed, RootCauseReported
  <2>5. QED
    BY <2>2, <2>4 DEF SInv
<1>11. CASE HangUp
  BY <1>11 DEF HangUp, SInv, SessionTypes, LoopsOfStage, AtRest, Blamed, RootCauseReported
<1>12. CASE Stop
  BY <1>12 DEF Stop, session, SInv, SessionTypes, LoopsOfStage, AtRest, Blamed, RootCauseReported
<1>13. QED
  BY <1>1, <1>2, <1>3, <1>4, <1>5, <1>6, <1>7, <1>8, <1>9, <1>10, <1>11, <1>12
     DEF Hello, Leaves

-----------------------------------------------------------------------------
(* The theorems.                                                           *)

LEMMA Parts == IInv <=> SInv /\ NonceTypes /\ Below
  BY DEF IInv, SInv, StreamTypeOK, SessionTypes, NonceTypes

LEMMA InitInv == StreamInit => IInv
<1> SUFFICES ASSUME StreamInit PROVE IInv
  OBVIOUS
<1> USE DEF StreamInit
<1>1. SessionTypes
  <2>1. marks \in [bind : 0..1, perm : 0..1] /\ queued \in 0..QueueCap
    BY StreamAssumption DEF NoMarks
  <2>2. QED
    BY <2>1 DEF SessionTypes
<1>2. LoopsOfStage /\ AtRest /\ Blamed
  BY NilIsNoError DEF LoopsOfStage, AtRest, Blamed, RootCauseReported, Errors
<1>3. NonceTypes
  <2>1. PICK s \in Ssrcs : word = <<s, 0>>
    OBVIOUS
  <2>2. 0 \in 0..CounterMod-1
    BY StreamAssumption
  <2>3. word \in Words
    BY <2>1, <2>2 DEF Words
  <2>4. QED
    BY <2>3 DEF NonceTypes
<1>4. Below
  BY DEF Below, NonceUnique
<1>5. QED
  BY <1>1, <1>2, <1>3, <1>4, Parts DEF SInv

LEMMA StepInv == IInv /\ [StreamNext]_streamVars => IInv'
<1> SUFFICES ASSUME IInv, [StreamNext]_streamVars PROVE IInv'
  OBVIOUS
<1>1. SInv /\ NonceTypes /\ Below
  BY Parts
<1>2. NonceTypes' /\ Below'
  BY <1>1, NonceStep
<1>3. SInv'
  <2>1. CASE UNCHANGED streamVars
    BY <1>1, <2>1, SessionStays DEF streamVars, SInv, SessionTypes
  <2>2. CASE BeginSession \/ Hello \/ Leaves \/ Close \/ Recycle \/ Note \/ HangUp \/ Stop
    BY <1>1, <2>2, SessionStep
  <2>3. CASE \/ Dispatch \/ TxTake \/ Tx \/ RxFails \/ KaSends \/ KaEnds
             \/ PtxSends \/ PtxEnds \/ PrxFails \/ LateSends \/ LateEnds
             \/ \E l \in Senders : Load(l) \/ CasFails(l)
    BY <1>1, <2>3, LoopStep
  <2>4. QED
    BY <2>1, <2>2, <2>3 DEF StreamNext
<1>4. QED
  BY <1>2, <1>3 DEF IInv, SInv, StreamTypeOK, SessionTypes, NonceTypes

LEMMA Invariant == StreamSpec => []IInv
  BY InitInv, StepInv, PTL DEF StreamSpec

(* The variables of a session keep their types; the dispatcher sees a      *)
(* stream ready only in a session that is served, and a packet taken from  *)
(* the queue is with a TX loop that lives.                                 *)
THEOREM StreamTypeCorrect == StreamSpec => []StreamTypeOK
<1>1. IInv => StreamTypeOK
  BY DEF IInv
<1>2. QED
  BY <1>1, Invariant, PTL

(* No session of any transport returns nil, and as long as the server does *)
(* not end the DTLS connection one that was served returns the cause and   *)
(* not the echo of its own closing, in whatever order the loops, the       *)
(* closing, the blackhole watch and the stop come.                         *)
THEOREM CauseReported == StreamSpec => []RootCauseReported
<1>1. IInv => RootCauseReported
  BY DEF IInv, Blamed
<1>2. QED
  BY <1>1, Invariant, PTL

(* The lock-free senders of a stream never claim a pair of SSRC and counter*)
(* twice, whatever the modulus of the counter, also when the pipe of a     *)
(* failed handshake still sends.                                           *)
THEOREM PairsAreUnique == StreamSpec => []NonceUnique
<1>1. IInv => NonceUnique
  BY DEF IInv, Below
<1>2. QED
  BY <1>1, Invariant, PTL
===============================================================================
