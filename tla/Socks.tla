-------------------------------- MODULE Socks --------------------------------
(***************************************************************************)
(* The SOCKS5 server of the OpenWrt backend (owrt/socks.go): Serve accepts *)
(* connections and starts a handler for each, a handler dials through the  *)
(* tunnel and relays, or opens a UDP association with a relay loop and one *)
(* reader per outgoing connection; Close, called by Backend.Down, stops    *)
(* the listener, closes what conns holds and waits for closeWG.  Manager   *)
(* stops the tunnel only after Down has returned.                          *)
(*                                                                         *)
(* A section under SocksServer.mu or udpAssoc.mu is one step.  Octets are  *)
(* left out: a request is one of Requests, a datagram is its target.       *)
(***************************************************************************)
EXTENDS Naturals, FiniteSets

CONSTANTS
  Clients,  \* connections that reach the listener
  Targets,  \* targets of UDP datagrams
  MaxOut,   \* outgoing UDP connections of an association at a time
  Nobody    \* no connection

ASSUME SocksAssumption ==
  MaxOut \in Nat \ {0} /\ Targets # {} /\ Nobody \notin Clients

VARIABLES
  serve,    \* Serve: "accept", "track", "add" (before closeWG.Add), "ended"
  held,     \* the connection between Accept and Add
  closer,   \* Backend.Down: "idle", "waiting" in closeWG.Wait, "returned"
  closed,   \* SocksServer.closed
  conns,    \* SocksServer.conns
  closeWG,  \* the counter of SocksServer.closeWG
  tunnel,   \* the netstack behind dial is up
  sock,     \* accepted connections not closed by the server
  gone,     \* clients that have hung up
  phase,    \* where the handler of a connection is
  blocked,  \* relays with one copy in remote.Write, the other in remote.Read
  loop,     \* udpAssoc.relayLoop: "none", "read", "dial", "ended"
  target,   \* the target relayLoop dials
  sess,     \* udpAssoc.sessions: the connection to a target, 0 for none
  out       \* outgoing connections: "none", "open", "shut" (closed under
            \* readBack, which has yet to return)

tcpVars == <<serve, held, closer, closed, conns, closeWG, tunnel, sock, gone, phase,
             blocked>>
udpVars == <<loop, target, sess, out>>
flowVars == <<blocked, udpVars>>
socksVars == <<tcpVars, udpVars>>

Requests == {"connect", "udp", "other"}
Running == {"handshake", "dial", "relay", "assoc"}
Phases == {"none", "accepted", "done"} \cup Running
Outs == 1..MaxOut
NoSessions == [t \in Targets |-> 0]
Handlers == {c \in Clients : phase[c] \in Running}

\* The types, and the counter: it counts the handlers that run.
SocksTypeOK ==
  /\ serve \in {"accept", "track", "add", "ended"}
  /\ held \in Clients \cup {Nobody}
  /\ closer \in {"idle", "waiting", "returned"}
  /\ closeWG \in Nat /\ closeWG = Cardinality(Handlers)
  /\ closed \in BOOLEAN /\ tunnel \in BOOLEAN
  /\ conns \subseteq Clients /\ sock \subseteq Clients /\ gone \subseteq Clients
  /\ phase \in [Clients -> Phases] /\ blocked \subseteq Clients
  /\ loop \in [Clients -> {"none", "read", "dial", "ended"}]
  /\ target \in [Clients -> Targets]
  /\ sess \in [Clients -> [Targets -> 0..MaxOut]]
  /\ out \in [Clients -> [Outs -> {"none", "open", "shut"}]]

SocksInit ==
  /\ serve = "accept" /\ held = Nobody /\ closer = "idle" /\ closed = FALSE
  /\ conns = {} /\ closeWG = 0 /\ tunnel = TRUE /\ sock = {} /\ gone = {}
  /\ blocked = {}
  /\ phase = [c \in Clients |-> "none"]
  /\ loop = [c \in Clients |-> "none"]
  /\ target = [c \in Clients |-> CHOOSE t \in Targets : TRUE]
  /\ sess = [c \in Clients |-> NoSessions]
  /\ out = [c \in Clients |-> [k \in Outs |-> "none"]]

-----------------------------------------------------------------------------
(* Serve.                                                                  *)

\* Mutant: Close forgets the listener.
CloseKeepsListening == FALSE
\* The listener is closed under the same mutex as closed is set.
Deaf == closed

Accept(c) ==
  /\ serve = "accept" /\ ~Deaf /\ phase[c] = "none"
  /\ serve' = "track" /\ held' = c
  /\ sock' = sock \cup {c}
  /\ phase' = [phase EXCEPT ![c] = "accepted"]
  /\ UNCHANGED <<closer, closed, conns, closeWG, tunnel, gone, flowVars>>

\* Any error of Accept ends the loop, with the server open or closed.
AcceptFails ==
  /\ serve = "accept"
  /\ serve' = "ended"
  /\ UNCHANGED <<held, closer, closed, conns, closeWG, tunnel, sock, gone, phase, flowVars>>

\* track does not look at closed.
Track ==
  /\ serve = "track"
  /\ serve' = "add"
  /\ conns' = conns \cup {held}
  /\ UNCHANGED <<held, closer, closed, closeWG, tunnel, sock, gone, phase, flowVars>>

\* Mutant: Serve starts the handler without closeWG.Add.
SpawnUncounted ==
  /\ serve = "add"
  /\ serve' = "accept" /\ held' = Nobody
  /\ phase' = [phase EXCEPT ![held] = "handshake"]
  /\ UNCHANGED <<closer, closed, conns, closeWG, tunnel, sock, gone, flowVars>>
Spawn ==
  /\ serve = "add"
  /\ serve' = "accept" /\ held' = Nobody /\ closeWG' = closeWG + 1
  /\ phase' = [phase EXCEPT ![held] = "handshake"]
  /\ UNCHANGED <<closer, closed, conns, tunnel, sock, gone, flowVars>>

-----------------------------------------------------------------------------
(* A handler.  Done(c) is its deferred part: Close, untrack, closeWG.Done. *)

Done(c) ==
  /\ sock' = sock \ {c}
  /\ conns' = conns \ {c}
  /\ closeWG' = closeWG - 1
  /\ phase' = [phase EXCEPT ![c] = "done"]
  /\ blocked' = blocked \ {c}

Goto(c, p) ==
  /\ phase' = [phase EXCEPT ![c] = p]
  /\ UNCHANGED <<conns, closeWG, sock, blocked>>

HandlerKeeps == UNCHANGED <<serve, held, closer, closed, tunnel, gone>>

\* The greeting and the request are read within 30 s; bad ones, ones that do
\* not come and unknown commands end the connection.
Request(c) ==
  /\ phase[c] = "handshake"
  /\ \/ Done(c) /\ UNCHANGED loop
     \/ /\ c \in sock
        /\ \E cmd \in Requests :
             \/ cmd = "connect" /\ Goto(c, "dial") /\ UNCHANGED loop
             \/ /\ cmd = "udp" /\ Goto(c, "assoc")
                /\ loop' = [loop EXCEPT ![c] = "read"]
             \/ cmd = "other" /\ Done(c) /\ UNCHANGED loop
  /\ HandlerKeeps /\ UNCHANGED <<target, sess, out>>

\* dial has 30 s of its own, which Close does not cancel; a reply that cannot
\* be written closes both sides.
Dialed(c) ==
  /\ phase[c] = "dial"
  /\ \/ tunnel /\ c \in sock /\ Goto(c, "relay")
     \/ Done(c)
  /\ HandlerKeeps /\ UNCHANGED udpVars

\* Mutant: relay waits for the client's direction only.
RelayOverClient(c) == c \in gone /\ c \notin blocked
\* relay copies both ways until one copy returns, and then closes both sides. A
\* client that is closed ends neither a write to the remote nor a read from it.
RelayOver(c) == ~tunnel \/ (c \notin blocked /\ (c \notin sock \/ c \in gone))

RelayEnds(c) ==
  /\ phase[c] = "relay" /\ RelayOver(c)
  /\ Done(c)
  /\ HandlerKeeps /\ UNCHANGED udpVars

\* The far side takes nothing and sends nothing, for a while or for good.
RemoteStalls(c) ==
  /\ phase[c] = "relay" /\ c \in sock /\ c \notin gone
  /\ blocked' = blocked \cup {c}
  /\ HandlerKeeps /\ UNCHANGED <<conns, closeWG, sock, phase, udpVars>>

RemoteTakes(c) ==
  /\ c \in blocked
  /\ blocked' = blocked \ {c}
  /\ HandlerKeeps /\ UNCHANGED <<conns, closeWG, sock, phase, udpVars>>

RemoteHangsUp(c) ==
  /\ phase[c] = "relay"
  /\ Done(c)
  /\ HandlerKeeps /\ UNCHANGED udpVars

HangsUp(c) ==
  /\ phase[c] \in Running /\ c \notin gone
  /\ gone' = gone \cup {c}
  /\ UNCHANGED <<serve, held, closer, closed, conns, closeWG, tunnel, sock, phase, flowVars>>

-----------------------------------------------------------------------------
(* UDP ASSOCIATE: handleUDPAssociate, udpAssoc and its goroutines.  The    *)
(* association is open (not a.closed) while its handler is in "assoc".     *)

AssocEnds(c) ==
  /\ phase[c] = "assoc" /\ (c \notin sock \/ c \in gone)
  /\ out' = [out EXCEPT ![c] = [k \in Outs |->
                                 IF \E t \in Targets : sess[c][t] = k
                                 THEN "shut" ELSE @[k]]]
  /\ sess' = [sess EXCEPT ![c] = NoSessions]
  /\ Done(c)
  /\ HandlerKeeps /\ UNCHANGED <<loop, target>>

\* A datagram to a target without a session is dialed outside the mutex.
Datagram(c, t) ==
  /\ loop[c] = "read" /\ phase[c] = "assoc" /\ sess[c][t] = 0
  /\ loop' = [loop EXCEPT ![c] = "dial"]
  /\ target' = [target EXCEPT ![c] = t]
  /\ UNCHANGED <<tcpVars, sess, out>>

UdpDialFails(c) ==
  /\ loop[c] = "dial"
  /\ loop' = [loop EXCEPT ![c] = "read"]
  /\ UNCHANGED <<tcpVars, target, sess, out>>

\* Mutant: session stores the connection without looking at closed again.
StoreAnyway(c) == TRUE
\* The dialed connection is stored, unless the association is closed by now
\* or has got a session to the target: then it is closed again.
Storable(c) == phase[c] = "assoc" /\ sess[c][target[c]] = 0

UdpDialed(c, k) ==
  /\ loop[c] = "dial" /\ tunnel /\ out[c][k] = "none"
  /\ loop' = [loop EXCEPT ![c] = "read"]
  /\ \/ /\ Storable(c)
        /\ sess' = [sess EXCEPT ![c][target[c]] = k]
        /\ out' = [out EXCEPT ![c][k] = "open"]
     \/ ~Storable(c) /\ UNCHANGED <<sess, out>>
  /\ UNCHANGED <<tcpVars, target>>

LoopEnds(c) ==
  /\ loop[c] = "read" /\ phase[c] = "done"
  /\ loop' = [loop EXCEPT ![c] = "ended"]
  /\ UNCHANGED <<tcpVars, target, sess, out>>

\* removeSession deletes the entry if it is this connection's.
WithoutOut(c, k) ==
  [t \in Targets |-> IF sess[c][t] = k THEN 0 ELSE sess[c][t]]

\* readBack returns when its connection is closed, after 60 s without an
\* answer, or with an error of the tunnel.
ReadBackEnds(c, k) ==
  /\ out[c][k] # "none"
  /\ sess' = [sess EXCEPT ![c] = WithoutOut(c, k)]
  /\ out' = [out EXCEPT ![c][k] = "none"]
  /\ UNCHANGED <<tcpVars, loop, target>>

-----------------------------------------------------------------------------
(* Close, and what Manager.Disconnect does after it.                       *)

Close ==
  /\ closer = "idle" /\ ~closed
  /\ closer' = "waiting" /\ closed' = TRUE
  /\ sock' = sock \ conns
  /\ UNCHANGED <<serve, held, conns, closeWG, tunnel, gone, phase, flowVars>>

CloseReturns ==
  /\ closer = "waiting" /\ closeWG = 0
  /\ closer' = "returned"
  /\ UNCHANGED <<serve, held, closed, conns, closeWG, tunnel, sock, gone, phase, flowVars>>

TunnelStops ==
  /\ closer = "returned" /\ tunnel
  /\ tunnel' = FALSE
  /\ UNCHANGED <<serve, held, closer, closed, conns, closeWG, sock, gone, phase, flowVars>>

ServeStep == Track \/ Spawn \/ (closed /\ AcceptFails)
HandlerStep(c) == Request(c) \/ Dialed(c) \/ RelayEnds(c) \/ AssocEnds(c)
LoopStep(c) ==
  \/ LoopEnds(c) \/ UdpDialFails(c) \/ \E k \in Outs : UdpDialed(c, k)
DownStep == CloseReturns \/ TunnelStops

SocksNext ==
  \/ \E c \in Clients : Accept(c)
  \/ AcceptFails \/ Track \/ Spawn
  \/ \E c \in Clients : HandlerStep(c) \/ HangsUp(c)
  \/ \E c \in Clients : RemoteStalls(c) \/ RemoteTakes(c) \/ RemoteHangsUp(c)
  \/ \E c \in Clients : LoopStep(c)
  \/ \E c \in Clients, t \in Targets : Datagram(c, t)
  \/ \E c \in Clients, k \in Outs : ReadBackEnds(c, k)
  \/ Close \/ DownStep

(* Goroutines run on: Serve, the handlers (reads and dials have deadlines, *)
(* a closed connection ends its relay), the relay loops, and the Down that *)
(* waits.  Clients and servers owe nothing: a remote may stall for ever.   *)
SocksFairness ==
  /\ WF_socksVars(ServeStep)
  /\ \A c \in Clients : WF_socksVars(HandlerStep(c)) /\ WF_socksVars(LoopStep(c))
  /\ WF_socksVars(DownStep)

-----------------------------------------------------------------------------
(* Properties.                                                             *)

(* Safety.  A connection that Close does not close is the one Serve held   *)
(* at that moment, or the one it had just accepted: never more than one    *)
(* client outlives Close.                                                  *)
CloseMissesAtMostOne == closed => Cardinality(sock) <= 1

(* Safety.  What an association has dialed through the tunnel is closed    *)
(* when it ends, also a connection whose dial was under way at that moment;*)
(* while it lasts no target stays bound to a connection that is gone.      *)
AssociationsAccounted ==
  \A c \in Clients :
    /\ phase[c] # "assoc" => \A k \in Outs : out[c][k] # "open"
    /\ \A t \in Targets : sess[c][t] # 0 => out[c][sess[c][t]] = "open"

(* Liveness.  A handler whose connection Close has closed ends, from every *)
(* stage, though Close cancels neither its dial nor its reads by a context;*)
(* the only one that may not is a relay whose remote neither takes data nor*)
(* sends any, for ever: closing the client wakes none of its two copies.   *)
ClosedHandlersEnd ==
  \A c \in Clients :
    [](closed /\ phase[c] \in Running /\ c \notin sock
         => <>(phase[c] = "done" \/ [](c \in blocked)))

(* Liveness, as owrt/socks.go:91 has it (Close stops accepting and closes  *)
(* all active connections): Backend.Down, and with it Disconnect and the   *)
(* main loop of the daemon, gets its Close back.                           *)
CloseGetsThrough == (closer = "waiting") ~> (closer = "returned")
==============================================================================
