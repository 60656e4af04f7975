-------------------------------- MODULE Stream --------------------------------
(***************************************************************************)
(* One stream from the winner of its race to the end of its session        *)
(* (runSession with runNoDTLS, runDTLS and runSRTP, turn-client.go): the   *)
(* loops that share a relay, the first error, the closing that unblocks    *)
(* the others, the blackhole watch on pion's log (turn_permwatch.go), the  *)
(* queue the dispatcher fills (init_groups.go) and the SSRC and counter    *)
(* that the senders of a wrapped stream draw from (wrap.go).               *)
(*                                                                         *)
(* What a packet says is left out; time is, too: a timeout and the verdict *)
(* of the dead-stream detector may come at any moment.                     *)
(***************************************************************************)
EXTENDS Naturals, FiniteSets

CONSTANTS
  Kinds,        \* PeerType: "wireguard", "dtls" or "srtp"
  QueueCap,     \* capacity of stream.in, 512
  CounterMod,   \* wrapCounterMod, 4000000
  Ssrcs,        \* SSRCs that randU32 can draw
  None

ASSUME StreamAssumption ==
  /\ Kinds \subseteq {"wireguard", "dtls", "srtp"}
  /\ QueueCap \in Nat \ {0} /\ CounterMod \in Nat \ {0}
  /\ Cardinality(Ssrcs) > 1

VARIABLES
  kind, wrapped,   \* PeerType, and whether there is a wrapKey
  stopped,         \* the proxy's context is cancelled
  stage,           \* runSession
  alive,           \* loops of the session that run
  late,            \* the pipe loop of a session that has returned still runs
  sCancelled,      \* sCtx is cancelled
  relay,           \* relayConn is open
  conn,            \* dtlsConn or srtpConn with its pipe
  firstErr,        \* the channel
  result,          \* what runSession returns, None is nil
  ready,           \* stream.ready
  marks, deadCh,   \* permWatch: failures in a row; deadCh is closed
  queued, carries, \* len(stream.in); the TX loop holds a packet
  word,            \* wrapTxState.state: SSRC and counter
  held,            \* the word a sender has loaded, before its CAS
  spent, reused    \* ghosts: pairs claimed; one was claimed again

session == <<stage, alive, late, sCancelled, relay, conn, firstErr, result, ready>>
watch == <<marks, deadCh>>
nonces == <<word, held, spent, reused>>
streamVars == <<kind, wrapped, stopped, session, watch, queued, carries, nonces>>

Loops == {"tx", "rx", "ka"}
Pipes == {"ptx", "prx"}
Senders == {"tx", "ka", "ptx"}
Words == Ssrcs \X (0..CounterMod-1)
\* "cause": what has really failed; "closed": a loop met what another closed.
Errors == {"cause", "closed", "hello", "blackhole"}

ASSUME NilIsNoError == None \notin Errors

NoMarks == [bind |-> 0, perm |-> 0]

\* The types; the dispatcher sees the stream ready only in a session that has
\* shaken hands, and a packet taken from the queue is with a living TX loop.
StreamTypeOK ==
  /\ kind \in Kinds /\ wrapped \in BOOLEAN /\ stopped \in BOOLEAN
  /\ stage \in {"off", "shake", "burst", "settle", "serve", "left"}
  /\ alive \subseteq Loops \cup Pipes /\ late \in BOOLEAN
  /\ sCancelled \in BOOLEAN /\ relay \in BOOLEAN
  /\ conn \in {"none", "open", "hungup", "closed"}
  /\ firstErr \in Errors \cup {None} /\ result \in Errors \cup {None}
  /\ ready \in BOOLEAN /\ (ready => stage \in {"serve", "left"})
  /\ marks \in [bind : 0..1, perm : 0..1] /\ deadCh \in BOOLEAN
  /\ queued \in 0..QueueCap /\ carries \in BOOLEAN
  /\ carries => "tx" \in alive
  /\ word \in Words /\ held \in [Senders -> Words \cup {None}]
  /\ spent \subseteq Words /\ reused \in BOOLEAN

StreamInit ==
  /\ kind \in Kinds /\ wrapped \in BOOLEAN /\ (kind = "srtp" => ~wrapped)
  /\ stopped = FALSE /\ stage = "off" /\ alive = {} /\ late = FALSE
  /\ sCancelled = FALSE /\ relay = FALSE /\ conn = "none"
  /\ firstErr = None /\ result = None /\ ready = FALSE
  /\ marks = NoMarks /\ deadCh = FALSE
  /\ queued = 0 /\ carries = FALSE
  /\ word \in {<<s, 0>> : s \in Ssrcs}
  /\ held = [l \in Senders |-> None] /\ spent = {} /\ reused = FALSE

Done == stopped \/ sCancelled

-----------------------------------------------------------------------------
(* wrapTxState.next: a sender loads the word and claims it with a CAS.     *)

\* At its end a new SSRC is drawn (that it is new is randU32's luck, 2^-32).
Successor(w) ==
  IF w[2] + 1 < CounterMod THEN {<<w[1], w[2] + 1>>}
  ELSE {<<s, 0>> : s \in Ssrcs \ {w[1]}}

\* A sender that wraps: over SRTP and DTLS the TX and the keepalive loop write
\* to the connection, and wrapping is the pipe's.
Wraps(l) ==
  wrapped /\ (kind = "wireguard" <=> l # "ptx")

Load(l) ==
  /\ Wraps(l) /\ held[l] = None
  /\ l \in alive
  /\ l = "tx" => carries
  /\ held' = [held EXCEPT ![l] = word]
  /\ UNCHANGED <<kind, wrapped, stopped, session, watch, queued, carries,
                 word, spent, reused>>

CasFails(l) ==
  /\ held[l] # None /\ held[l] # word
  /\ held' = [held EXCEPT ![l] = None]
  /\ UNCHANGED <<kind, wrapped, stopped, session, watch, queued, carries,
                 word, spent, reused>>

\* The pair w goes into a header.  The pairs of an SSRC that is drawn again
\* are those of another domain.
Spend(w) ==
  /\ word' \in Successor(w)
  /\ spent' = {p \in spent \cup {w} : word'[1] = word[1] \/ p[1] # word'[1]}
  /\ reused' = (reused \/ w \in spent)

\* Mutant: a plain store instead of the CAS.
StoreClaims(l) ==
  /\ held[l] # None
  /\ Spend(held[l])
  /\ held' = [held EXCEPT ![l] = None]
\* The CAS of l succeeds.
ClaimPair(l) ==
  /\ held[l] # None /\ held[l] = word
  /\ Spend(word)
  /\ held' = [held EXCEPT ![l] = None]

Wrap(l) == IF Wraps(l) THEN ClaimPair(l) ELSE UNCHANGED nonces

-----------------------------------------------------------------------------
(* The loops.  reportErr and the deferred sCancel of a loop that fails are *)
(* one step: the first report is the one that runXXX returns.              *)

\* Mutant: the loop cancels the others and reports nothing.
QuitFor(l, e) ==
  /\ alive' = alive \ {l} /\ sCancelled' = TRUE
  /\ UNCHANGED firstErr
Fail(l, e) ==
  /\ alive' = alive \ {l} /\ sCancelled' = TRUE
  /\ firstErr' = IF firstErr = None THEN e ELSE firstErr

\* A loop that returns without a report.
Quit(l) ==
  /\ alive' = alive \ {l} /\ sCancelled' = TRUE
  /\ UNCHANGED firstErr

\* What ends the reads and the writes of a transport.  Over SRTP the demux that
\* reads the relay ends without a word, and only srtpConn.Close ends a Read.
RxBroken == CASE kind = "wireguard" -> ~relay
              [] kind = "dtls" -> conn # "open"
              [] kind = "srtp" -> conn = "closed"
TxBroken == IF kind = "dtls" THEN conn # "open" ELSE ~relay
Why(broken) == IF broken /\ conn # "hungup" THEN "closed" ELSE "cause"

LoopFrame == UNCHANGED <<kind, wrapped, stopped, stage, late, relay, conn, result,
                         ready, watch>>

\* The dispatcher reads a packet from WireGuard: it goes to this stream only if
\* ready and if there is room, else to a sibling or nowhere.
Dispatch ==
  /\ ready /\ queued < QueueCap
  /\ queued' = queued + 1
  /\ UNCHANGED <<kind, wrapped, stopped, session, watch, carries, nonces>>

TxTake ==
  /\ "tx" \in alive /\ ~carries /\ queued > 0
  /\ queued' = queued - 1 /\ carries' = TRUE
  /\ UNCHANGED <<kind, wrapped, stopped, session, watch, nonces>>

\* The packet goes back to packetPool before the error is looked at.
TxSend ==
  /\ carries /\ carries' = FALSE
  /\ Wrap("tx")
  /\ \/ ~TxBroken /\ UNCHANGED <<alive, sCancelled, firstErr>>
     \/ Fail("tx", Why(TxBroken))
  /\ LoopFrame /\ UNCHANGED queued

TxStops ==
  /\ "tx" \in alive /\ ~carries /\ Done
  /\ Quit("tx")
  /\ LoopFrame /\ UNCHANGED <<queued, carries, nonces>>

\* The read fails, or the write to WireGuard's socket.
RxFails ==
  /\ "rx" \in alive
  /\ Fail("rx", Why(RxBroken))
  /\ LoopFrame /\ UNCHANGED <<queued, carries, nonces>>

\* The keepalive loop sends (a failed write is tried again later), finds the
\* stream dead or sees the end.
KaSends ==
  /\ "ka" \in alive /\ wrapped /\ Wrap("ka")
  /\ UNCHANGED <<kind, wrapped, stopped, session, watch, queued, carries>>
  /\ kind = "wireguard"

KaEnds ==
  /\ "ka" \in alive
  /\ \/ Fail("ka", "cause")
     \/ Done /\ Quit("ka")
  /\ held' = [held EXCEPT !["ka"] = None]
  /\ LoopFrame /\ UNCHANGED <<queued, carries, word, spent, reused>>

\* The pipe to the relay: its end is nobody's error.
PtxSends ==
  /\ "ptx" \in alive /\ Wrap("ptx")
  /\ \/ relay /\ UNCHANGED <<alive, sCancelled, firstErr>>
     \/ Fail("ptx", IF relay THEN "cause" ELSE "closed")
  /\ LoopFrame /\ UNCHANGED <<queued, carries>>

PtxEnds ==
  /\ "ptx" \in alive /\ conn # "open"
  /\ Quit("ptx")
  /\ held' = [held EXCEPT !["ptx"] = None]
  /\ LoopFrame /\ UNCHANGED <<queued, carries, word, spent, reused>>

\* The relay fails, or the pipe.
PrxFails ==
  /\ "prx" \in alive
  /\ Fail("prx", IF relay /\ conn = "open" THEN "cause" ELSE "closed")
  /\ LoopFrame /\ UNCHANGED <<queued, carries, nonces>>

\* What a loop left behind by a failed handshake still sends, and its end: the
\* deferred calls have closed what it reads, and nobody waits for it.  Its loads
\* are left out: a CAS that succeeds claims the word as it is.
LateSends ==
  /\ late /\ wrapped
  /\ Spend(word)
  /\ UNCHANGED <<kind, wrapped, stopped, session, watch, queued, carries, held>>

LateEnds ==
  /\ late /\ late' = FALSE
  /\ UNCHANGED <<kind, wrapped, stopped, stage, alive, sCancelled, relay, conn,
                 firstErr, result, ready, watch, queued, carries, nonces>>

-----------------------------------------------------------------------------
(* The session.                                                            *)

WorldFrame == UNCHANGED <<kind, wrapped, stopped, queued, carries>>
SessionFrame == WorldFrame /\ UNCHANGED late

\* A race is won; over DTLS the two loops of the pipe start.
BeginSession ==
  /\ stage = "off" /\ ~stopped
  /\ stage' = IF kind = "wireguard" THEN "burst" ELSE "shake"
  /\ alive' = IF kind = "dtls" THEN Pipes ELSE {}
  /\ conn' = IF kind = "wireguard" THEN "none" ELSE "open"
  /\ relay' = TRUE /\ result' = None
  /\ UNCHANGED <<sCancelled, firstErr, ready, watch, nonces>> /\ SessionFrame

Shaken ==
  /\ stage = "shake" /\ relay /\ conn = "open" /\ ~Done
  /\ stage' = "burst"
  /\ UNCHANGED <<alive, sCancelled, relay, conn, firstErr, result, ready,
                 watch, nonces>> /\ SessionFrame

\* The session header is out.  Over WireGuard the loops start and the stream
\* is ready a little later, whatever they meet meanwhile.
Greeted ==
  /\ stage = "burst" /\ ~TxBroken
  /\ alive' = alive \cup Loops
  /\ IF kind = "wireguard"
     THEN /\ stage' = "settle" /\ UNCHANGED ready
          /\ IF wrapped THEN Spend(word) /\ UNCHANGED held ELSE UNCHANGED nonces
     ELSE /\ stage' = "serve" /\ ready' = TRUE /\ UNCHANGED nonces
  /\ UNCHANGED <<sCancelled, relay, conn, firstErr, result, watch>>
  /\ SessionFrame

\* Handshake or header fails: runXXX returns and its deferred calls close what
\* the loops of the pipe read, but runDTLS does not wait for them.  (Bound: one
\* such loop at a time.  The loop that reads the relay shares nothing with the
\* next session.)
HelloFails ==
  /\ stage \in {"shake", "burst"}
  /\ stage' = "left" /\ result' = "hello"
  /\ alive' = {}
  /\ IF "ptx" \in alive THEN ~late /\ late' = TRUE ELSE UNCHANGED late
  /\ held' = [held EXCEPT !["ptx"] = None]
  /\ sCancelled' = TRUE
  /\ conn' = IF conn = "open" THEN "closed" ELSE conn
  /\ UNCHANGED <<relay, firstErr, ready, watch, word, spent, reused>> /\ WorldFrame

Settle ==
  /\ stage = "settle" /\ stage' = "serve" /\ ready' = TRUE
  /\ UNCHANGED <<alive, sCancelled, relay, conn, firstErr, result, watch,
                 nonces>> /\ SessionFrame

Returns ==
  /\ stage = "serve" /\ alive = {}
  /\ stage' = "left" /\ result' = firstErr
  /\ sCancelled' = TRUE
  /\ conn' = IF conn = "open" THEN "closed" ELSE conn
  /\ UNCHANGED <<alive, relay, firstErr, ready, watch, nonces>> /\ SessionFrame

\* The relay is closed, and what else the session had is its own.
SessionLocalsGone ==
  /\ relay' = FALSE /\ conn' = "none" /\ sCancelled' = FALSE /\ firstErr' = None
  /\ marks' = NoMarks /\ deadCh' = FALSE

\* Mutant: the stream stays ready.
OverStillReady ==
  /\ stage = "left" /\ stage' = "off"
  /\ result' = IF deadCh THEN "blackhole" ELSE result
  /\ SessionLocalsGone
  /\ UNCHANGED <<alive, ready, nonces>> /\ SessionFrame
\* runSession restates the error of a blackhole and closes the relay.
Over ==
  /\ stage = "left" /\ stage' = "off"
  /\ result' = IF deadCh THEN "blackhole" ELSE result
  /\ ready' = FALSE /\ SessionLocalsGone
  /\ UNCHANGED <<alive, nonces>> /\ SessionFrame

\* Mutant: only the connection is closed.
CloseConnOnly ==
  /\ Done /\ stage \notin {"off", "left"}
  /\ conn = "open" /\ conn' = "closed"
  /\ UNCHANGED <<stage, alive, sCancelled, relay, firstErr, result, ready,
                 watch, nonces>> /\ SessionFrame
\* context.AfterFunc(sCtx); over WireGuard it is set up after the burst.
Close ==
  /\ Done /\ stage \notin {"off", "left"} /\ (kind = "wireguard" => stage # "burst")
  /\ relay \/ conn = "open"
  /\ relay' = FALSE
  /\ conn' = IF conn = "open" THEN "closed" ELSE conn
  /\ UNCHANGED <<stage, alive, sCancelled, firstErr, result, ready, watch,
                 nonces>> /\ SessionFrame

-----------------------------------------------------------------------------
(* permWatch: pion logs and goes on; the watch turns the log into a signal.*)

\* (Once it has fired nobody looks at the counters.)
Mark(f, d) ==
  /\ stage # "off" /\ relay /\ ~deadCh
  /\ deadCh' = d /\ marks' = IF d THEN NoMarks ELSE f
  /\ UNCHANGED <<kind, wrapped, stopped, session, queued, carries, nonces>>

\* A failed binding or permission counts, the second in a row is fatal; one
\* failed refresh of the allocation is, and so is its closing.
Note ==
  \/ Mark([marks EXCEPT !.bind = 0], FALSE)
  \/ Mark([marks EXCEPT !.perm = 0], FALSE)
  \/ Mark([marks EXCEPT !.bind = 1], marks.bind = 1)
  \/ Mark([marks EXCEPT !.perm = 1], marks.perm = 1)
  \/ Mark(marks, TRUE)

\* The watcher of runSession.
Recycle ==
  /\ deadCh /\ stage # "off" /\ relay
  /\ relay' = FALSE
  /\ UNCHANGED <<kind, wrapped, stopped, stage, alive, late, sCancelled, conn,
                 firstErr, result, ready, watch, queued, carries, nonces>>

\* The server ends the DTLS connection, which closes its end of the pipe.  Over
\* SRTP nobody reads that record.
HangUp ==
  /\ kind = "dtls" /\ conn = "open" /\ stage \notin {"off", "left"}
  /\ conn' = "hungup"
  /\ UNCHANGED <<kind, wrapped, stopped, stage, alive, late, sCancelled, relay,
                 firstErr, result, ready, watch, queued, carries, nonces>>

Stop ==
  /\ ~stopped /\ stopped' = TRUE
  /\ UNCHANGED <<kind, wrapped, session, watch, queued, carries, nonces>>

-----------------------------------------------------------------------------
Hello == Shaken \/ Greeted \/ HelloFails
Leaves == Settle \/ Returns \/ Over
Tx == TxSend \/ TxStops

StreamNext ==
  \/ BeginSession \/ Hello \/ Leaves \/ Close \/ Recycle
  \/ Dispatch \/ TxTake \/ Tx \/ RxFails \/ KaSends \/ KaEnds
  \/ PtxSends \/ PtxEnds \/ PrxFails \/ LateSends \/ LateEnds
  \/ \E l \in Senders : Load(l) \/ CasFails(l)
  \/ Note \/ HangUp \/ Stop

StreamSpec == StreamInit /\ [][StreamNext]_streamVars

(* The runtime runs every goroutine that can go on; a read that its closed *)
(* relay or connection fails ends, and a handshake has a deadline.         *)
StreamFairness ==
  /\ WF_streamVars(Hello) /\ WF_streamVars(Leaves)
  /\ WF_streamVars(Close) /\ WF_streamVars(Recycle)
  /\ \A l \in Senders : WF_streamVars(Load(l) \/ CasFails(l))
  /\ WF_streamVars(TxTake) /\ WF_streamVars(Tx)
  /\ WF_streamVars(RxBroken /\ RxFails)
  /\ WF_streamVars(Done /\ KaEnds) /\ WF_streamVars(PtxEnds)
  /\ WF_streamVars(~relay /\ PrxFails) /\ WF_streamVars(LateEnds)

(* Nothing comes over a closed relay, so that 90 seconds later the dead-   *)
(* stream detector fires.  Only SRTP needs it.                             *)
DetectorFires == WF_streamVars(kind = "srtp" /\ ~relay /\ KaEnds)

FairStreamSpec == StreamSpec /\ StreamFairness /\ DetectorFires

-----------------------------------------------------------------------------
(* Properties.                                                             *)

(* Safety.  A session never returns nil, which the worker would take for a *)
(* clean close, and one that was served returns what failed first and not  *)
(* what the closing did to the other loops (turn-client.go:463-469), as    *)
(* long as the server does not end the DTLS connection.                    *)
RootCauseReported ==
  stage = "left" =>
    /\ result # None
    /\ result = "closed" => stopped \/ deadCh \/ conn = "hungup"

(* Safety, as turn-client.go:463-469 has it (firstErr captures the root    *)
(* cause when a goroutine fails): also when the server ends the connection.*)
HangUpReported ==
  stage = "left" /\ result = "closed" => stopped \/ deadCh

(* Safety.  No two packets carry the same SSRC and counter, whether the TX *)
(* and the keepalive loop or the pipes of two sessions send them, over the *)
(* end of the counter and over sessions.                                   *)
NonceUnique == ~reused

(* Liveness.  A failure of any loop, a blackhole or the stop ends all      *)
(* loops of the session and the session itself, however far it has come,   *)
(* and takes the stream from the dispatcher.  Over SRTP a blackhole does so*)
(* only when the dead-stream detector fires.                               *)
SessionUnwinds == []<>(stage = "off" \/ ~(Done \/ deadCh))
===============================================================================
