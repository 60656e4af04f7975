---------------------------- MODULE BackendsProofs ----------------------------
(***************************************************************************)
(* Proofs about the backends: for any number of clients, targets and       *)
(* outgoing connections of the SOCKS server, any subnets and gateways of   *)
(* the OpenWrt router, any addresses, uplinks and connections of NDM, and  *)
(* any number of callers of CheckNetworkChange.                            *)
(***************************************************************************)
EXTENDS Backends, QueueFacts, FiniteSetTheorems

-----------------------------------------------------------------------------
(* The inductive invariants of the three.                                  *)

(* Serve: what it holds has no handler yet, and is in conns once tracked.  *)
ServeHolds ==
  /\ serve \in {"accept", "ended"} => held = Nobody
  /\ serve \in {"track", "add"} => held \in Clients /\ phase[held] = "accepted"
  /\ serve = "add" => held \in conns

(* Until Close every open connection is one that Close would find in conns *)
(* or the one Serve holds; after it, none is left but that one.            *)
CloseFinds ==
  /\ ~closed => sock \subseteq conns \cup {held}
  /\ closed => \A c, d \in sock : c = d

(* Outgoing connections and sessions of an association go together.        *)
SessionsMatch ==
  \A c \in Clients :
    /\ \A t \in Targets : sess[c][t] # 0 => phase[c] = "assoc" /\ out[c][sess[c][t]] = "open"
    /\ \A k \in Outs : out[c][k] = "open" => \E t \in Targets : sess[c][t] = k

SocksInv ==
  SocksTypeOK /\ IsFiniteSet(Handlers) /\ ServeHolds /\ CloseFinds /\ SessionsMatch

(* A rule of ours is either left behind or one that Teardown will delete,  *)
(* never both; what Up has not come to is not among the latter, nor the    *)
(* rule that ruleReplace is at.                                            *)
RulesTracked ==
  /\ \A r \in Rules : r \in rules <=> r \in left \/ In(rm, r)
  /\ \A r \in left : ~In(rm, r)
  /\ Once(rm)
  /\ \A r \in todo : ~In(rm, r)
  /\ pc = "from" => ~In(rm, NoLan)
  /\ gap # NoRule => ~In(rm, gap)
  /\ gap = Mark => pc = "mark"
  /\ gap \in Rules \ {Mark} => pc = "from"
  /\ pc \in {"down", "attach", "config", "route", "mark", "failed"} => rm = <<>>

(* From its RuleAdd until Down the mark rule stands; until Up comes to the  *)
(* LAN a rule of everything is one that was left; there is a table only    *)
(* from its route on.                                                      *)
MarkFirst ==
  /\ pc \in {"from", "nat", "up"} => Mark \in rules
  /\ pc \in {"down", "attach", "config", "route"} => ~table
TunnelFirst == pc \in Stages \ {"down", "attach", "failed"} => tun

GatewayInv == GatewayTypeOK /\ RulesTracked /\ MarkFirst /\ TunnelFirst

(* A session has a WAN until it is over, and routes only then; from        *)
(* ChooseWgIface to ProvisionWg the choice stays the remembered connection *)
(* if that is ours.                                                        *)
SessionKeeps ==
  /\ stage # "idle" => wan # None
  /\ stage = "idle" => bypass = {}
  /\ stage = "provision" =>
       /\ chosen # None
       /\ remembered # None /\ Ours(remembered) => chosen = remembered

KeenInv == KeenTypeOK /\ RoutesAccountedFor /\ SessionKeeps

IInv == bridge \in Bridges /\ SocksInv /\ GatewayInv /\ KeenInv
-----------------------------------------------------------------------------
(* The SOCKS server: Serve, the handlers and Close.                        *)

TcpTypes ==
  /\ serve \in {"accept", "track", "add", "ended"}
  /\ held \in Clients \cup {Nobody}
  /\ closer \in {"idle", "waiting", "returned"}
  /\ closed \in BOOLEAN /\ tunnel \in BOOLEAN
  /\ conns \subseteq Clients /\ sock \subseteq Clients /\ gone \subseteq Clients
  /\ phase \in [Clients -> Phases] /\ blocked \subseteq Clients

Counted ==
  closeWG \in Nat /\ closeWG = Cardinality(Handlers) /\ IsFiniteSet(Handlers)

TcpInv == TcpTypes /\ Counted /\ ServeHolds /\ CloseFinds

(* closeWG.Done: the handler that ends was counted.                        *)
LEMMA OneLess ==
  ASSUME TcpInv, NEW c \in Clients, phase[c] \in Running,
         phase' = [phase EXCEPT ![c] = "done"], closeWG' = closeWG - 1
  PROVE  Counted'
<1>1. Handlers' = Handlers \ {c}
  BY DEF Handlers, TcpInv, TcpTypes, Running
<1>2. c \in Handlers
  BY DEF Handlers
<1>3. /\ IsFiniteSet(Handlers \ {c})
      /\ Cardinality(Handlers \ {c}) = Cardinality(Handlers) - 1
  BY <1>2, FS_RemoveElement DEF TcpInv, Counted
<1>4. Cardinality(Handlers \ {c}) \in Nat
  BY <1>3, FS_CardinalityType
<1>5. QED
  BY <1>1, <1>3, <1>4 DEF TcpInv, Counted

LEMMA DoneKeeps ==
  ASSUME TcpInv, NEW c \in Clients, phase[c] \in Running, Done(c), HandlerKeeps
  PROVE  TcpInv'
<1> USE DEF Done, HandlerKeeps
<1>1. Counted'
  BY OneLess
<1>2. /\ phase' \in [Clients -> Phases] /\ phase'[c] = "done"
      /\ \A d \in Clients \ {c} : phase'[d] = phase[d]
  BY DEF TcpInv, TcpTypes, Phases
<1>3. TcpTypes'
  BY <1>2 DEF TcpInv, TcpTypes
<1>4. serve \in {"track", "add"} => held # c
  BY DEF TcpInv, ServeHolds, Running
<1>5. ServeHolds'
  BY <1>2, <1>4 DEF TcpInv, ServeHolds
<1>6. CloseFinds'
  BY DEF TcpInv, CloseFinds
<1>7. QED
  BY <1>1, <1>3, <1>5, <1>6 DEF TcpInv

(* A handler that goes on.                                                 *)
LEMMA GotoKeeps ==
  ASSUME TcpInv, NEW c \in Clients, phase[c] \in Running, NEW p \in Running,
         Goto(c, p), HandlerKeeps
  PROVE  TcpInv'
<1> USE DEF Goto, HandlerKeeps
<1>1. /\ phase' \in [Clients -> Phases] /\ phase'[c] = p
      /\ \A d \in Clients \ {c} : phase'[d] = phase[d]
  BY DEF TcpInv, TcpTypes, Phases
<1>2. Handlers' = Handlers
  BY <1>1 DEF Handlers
<1>3. TcpTypes' /\ Counted'
  BY <1>1, <1>2 DEF TcpInv, TcpTypes, Counted
<1>4. ServeHolds'
  BY <1>1 DEF TcpInv, ServeHolds, Running
<1>5. CloseFinds'
  BY DEF TcpInv, CloseFinds
<1>6. QED
  BY <1>3, <1>4, <1>5 DEF TcpInv

(* A step that moves no handler.                                           *)
LEMMA HandlersStay ==
  ASSUME TcpInv, UNCHANGED <<phase, closeWG>>
  PROVE  Counted'
  BY DEF TcpInv, Counted, Handlers

LEMMA ServeKeeps ==
  ASSUME TcpInv, (\E c \in Clients : Accept(c)) \/ AcceptFails \/ Track \/ Spawn
  PROVE  TcpInv'
<1> USE DEF flowVars
<1>1. ASSUME NEW c \in Clients, Accept(c)
      PROVE  TcpInv'
  <2> USE <1>1 DEF Accept
  <2>1. /\ phase' \in [Clients -> Phases] /\ phase'[c] = "accepted"
        /\ \A d \in Clients \ {c} : phase'[d] = phase[d]
    BY DEF TcpInv, TcpTypes, Phases
  <2>2. Handlers' = Handlers
    BY <2>1 DEF Handlers, Running
  <2>3. TcpTypes' /\ Counted'
    BY <2>1, <2>2 DEF TcpInv, TcpTypes, Counted
  <2>4. ServeHolds'
    BY <2>1 DEF ServeHolds
  <2>5. ~closed /\ sock \subseteq conns
    BY SocksAssumption DEF Deaf, TcpInv, TcpTypes, CloseFinds, ServeHolds
  <2>6. CloseFinds'
    BY <2>5 DEF CloseFinds
  <2>7. QED
    BY <2>3, <2>4, <2>6 DEF TcpInv
<1>2. CASE AcceptFails
  BY <1>2, HandlersStay DEF AcceptFails, TcpInv, TcpTypes, ServeHolds, CloseFinds
<1>3. CASE Track
  <2> USE <1>3 DEF Track
  <2>1. held \in Clients /\ phase[held] = "accepted"
    BY DEF TcpInv, ServeHolds
  <2>2. TcpTypes' /\ Counted'
    BY <2>1, HandlersStay DEF TcpInv, TcpTypes
  <2>3. ServeHolds' /\ CloseFinds'
    BY <2>1 DEF TcpInv, ServeHolds, CloseFinds
  <2>4. QED
    BY <2>2, <2>3 DEF TcpInv
<1>4. CASE Spawn
  <2> USE <1>4 DEF Spawn
  <2>1. held \in Clients /\ phase[held] = "accepted" /\ held \in conns
    BY DEF TcpInv, ServeHolds
  <2>2. /\ phase' \in [Clients -> Phases] /\ phase'[held] = "handshake"
        /\ \A d \in Clients \ {held} : phase'[d] = phase[d]
    BY <2>1 DEF TcpInv, TcpTypes, Phases, Running
  <2>3. Handlers' = Handlers \cup {held} /\ held \notin Handlers
    BY <2>1, <2>2 DEF Handlers, Running
  <2>4. Counted'
    <3>1. /\ IsFiniteSet(Handlers \cup {held})
          /\ Cardinality(Handlers \cup {held}) = Cardinality(Handlers) + 1
      BY <2>3, FS_AddElement DEF TcpInv, Counted
    <3>2. QED
      BY <2>3, <3>1 DEF TcpInv, Counted
  <2>5. TcpTypes' /\ ServeHolds'
    BY <2>2 DEF TcpInv, TcpTypes, ServeHolds
  <2>6. CloseFinds'
    BY <2>1 DEF TcpInv, CloseFinds
  <2>7. QED
    BY <2>4, <2>5, <2>6 DEF TcpInv
<1>5. QED
  BY <1>1, <1>2, <1>3, <1>4

LEMMA TcpStep ==
  ASSUME TcpInv, [SocksNext]_socksVars
  PROVE  TcpInv'
<1> USE DEF flowVars
<1>1. ASSUME UNCHANGED tcpVars
      PROVE  TcpInv'
  BY <1>1 DEF tcpVars, TcpInv, TcpTypes, Counted, Handlers, ServeHolds, CloseFinds
<1>2. CASE (\E c \in Clients : Accept(c)) \/ AcceptFails \/ Track \/ Spawn
  BY <1>2, ServeKeeps
<1>3. ASSUME NEW c \in Clients, HandlerStep(c) \/ RemoteHangsUp(c)
      PROVE  TcpInv'
  <2>1. CASE Request(c)
    BY <2>1, DoneKeeps, GotoKeeps DEF Request, Running
  <2>2. CASE Dialed(c)
    BY <2>2, DoneKeeps, GotoKeeps DEF Dialed, Running
  <2>3. CASE RelayEnds(c) \/ RemoteHangsUp(c) \/ AssocEnds(c)
    BY <2>3, DoneKeeps DEF RelayEnds, RemoteHangsUp, AssocEnds, Running
  <2>4. QED
    BY <1>3, <2>1, <2>2, <2>3 DEF HandlerStep
<1>4. ASSUME NEW c \in Clients, HangsUp(c) \/ RemoteStalls(c) \/ RemoteTakes(c)
      PROVE  TcpInv'
  BY <1>4, HandlersStay DEF HangsUp, RemoteStalls, RemoteTakes, HandlerKeeps,
                            TcpInv, TcpTypes, ServeHolds, CloseFinds
<1>5. ASSUME NEW c \in Clients, LoopStep(c) \/ \E t \in Targets : Datagram(c, t)
      PROVE  TcpInv'
  BY <1>1, <1>5 DEF LoopStep, LoopEnds, UdpDialFails, UdpDialed, Datagram
<1>6. ASSUME NEW c \in Clients, NEW k \in Outs, ReadBackEnds(c, k)
      PROVE  TcpInv'
  BY <1>1, <1>6 DEF ReadBackEnds
<1>7. CASE Close
  <2> USE <1>7 DEF Close
  <2>1. TcpTypes' /\ Counted' /\ ServeHolds'
    BY HandlersStay DEF TcpInv, TcpTypes, ServeHolds
  <2>2. sock' \subseteq {held}
    BY DEF TcpInv, CloseFinds
  <2>3. CloseFinds'
    BY <2>2 DEF CloseFinds
  <2>4. QED
    BY <2>1, <2>3 DEF TcpInv
<1>8. CASE DownStep
  <2> USE <1>8 DEF DownStep, CloseReturns, TunnelStops
  <2>1. Counted'
    BY HandlersStay
  <2>2. TcpTypes' /\ ServeHolds'
    BY DEF TcpInv, TcpTypes, ServeHolds
  <2>3. CloseFinds'
    BY DEF TcpInv, CloseFinds
  <2>4. QED
    BY <2>1, <2>2, <2>3 DEF TcpInv
<1>9. CASE UNCHANGED socksVars
  BY <1>1, <1>9 DEF socksVars
<1>10. QED
  BY <1>2, <1>3, <1>4, <1>5, <1>6, <1>7, <1>8, <1>9 DEF SocksNext
-----------------------------------------------------------------------------
(* The SOCKS server: UDP associations.                                     *)

UdpTypes ==
  /\ loop \in [Clients -> {"none", "read", "dial", "ended"}]
  /\ target \in [Clients -> Targets]
  /\ sess \in [Clients -> [Targets -> 0..MaxOut]]
  /\ out \in [Clients -> [Outs -> {"none", "open", "shut"}]]

UdpInv == UdpTypes /\ SessionsMatch

(* A step that neither opens nor closes anything under an association.     *)
LEMMA NothingDialed ==
  ASSUME UdpInv, UNCHANGED <<sess, out>>,
         loop' \in [Clients -> {"none", "read", "dial", "ended"}],
         target' \in [Clients -> Targets],
         \A c \in Clients : phase[c] = "assoc" => phase'[c] = "assoc"
  PROVE  UdpInv'
<1>1. UdpTypes'
  BY DEF UdpInv, UdpTypes
<1>2. SessionsMatch'
  BY DEF UdpInv, SessionsMatch
<1>3. QED
  BY <1>1, <1>2 DEF UdpInv

(* What one association changes is no other's business.                    *)
LEMMA OneAssociation ==
  ASSUME UdpInv, UdpTypes', NEW c \in Clients,
         \A d \in Clients \ {c} :
           sess'[d] = sess[d] /\ out'[d] = out[d] /\ phase'[d] = phase[d],
         \A t \in Targets : sess'[c][t] # 0 =>
           phase'[c] = "assoc" /\ out'[c][sess'[c][t]] = "open",
         \A k \in Outs : out'[c][k] = "open" => \E t \in Targets : sess'[c][t] = k
  PROVE  UdpInv'
<1>1. SessionsMatch'
  <2> SUFFICES ASSUME NEW d \in Clients
               PROVE  /\ \A t \in Targets : sess'[d][t] # 0 =>
                           phase'[d] = "assoc" /\ out'[d][sess'[d][t]] = "open"
                      /\ \A k \in Outs : out'[d][k] = "open" =>
                           \E t \in Targets : sess'[d][t] = k
    BY DEF SessionsMatch
  <2>1. CASE d = c
    BY <2>1
  <2>2. CASE d # c
    BY <2>2 DEF UdpInv, SessionsMatch
  <2>3. QED
    BY <2>1, <2>2
<1>2. QED
  BY <1>1 DEF UdpInv

(* The end of an association closes every connection that has a session,   *)
(* which are all that are open.                                            *)
LEMMA AssocEndsKeeps ==
  ASSUME TcpTypes, UdpInv, NEW c \in Clients, AssocEnds(c)
  PROVE  UdpInv'
<1> USE DEF AssocEnds, Done
<1> DEFINE Shut == [k \in Outs |-> IF \E t \in Targets : sess[c][t] = k
                                   THEN "shut" ELSE out[c][k]]
<1>1. out' = [out EXCEPT ![c] = Shut]
  OBVIOUS
<1>2. Shut \in [Outs -> {"none", "open", "shut"}]
  BY DEF UdpInv, UdpTypes
<1>3. out' \in [Clients -> [Outs -> {"none", "open", "shut"}]]
      /\ out'[c] = Shut /\ \A d \in Clients \ {c} : out'[d] = out[d]
  BY <1>1, <1>2 DEF UdpInv, UdpTypes
<1>4. NoSessions \in [Targets -> 0..MaxOut]
  BY SocksAssumption DEF NoSessions
<1>5. sess' \in [Clients -> [Targets -> 0..MaxOut]]
      /\ sess'[c] = NoSessions /\ \A d \in Clients \ {c} : sess'[d] = sess[d]
  BY <1>4 DEF UdpInv, UdpTypes
<1>6. UdpTypes'
  BY <1>3, <1>5 DEF UdpInv, UdpTypes
<1>7. \A d \in Clients \ {c} : phase'[d] = phase[d]
  BY DEF TcpTypes
<1>8. \A k \in Outs : out'[c][k] # "open"
  BY <1>3 DEF UdpInv, SessionsMatch
<1>9. \A t \in Targets : sess'[c][t] = 0
  BY <1>5 DEF NoSessions
<1>10. QED
  BY <1>3, <1>5, <1>6, <1>7, <1>8, <1>9, OneAssociation

LEMMA UdpDialedKeeps ==
  ASSUME TcpTypes, UdpInv, NEW c \in Clients, NEW k \in Outs, UdpDialed(c, k)
  PROVE  UdpInv'
<1> USE DEF UdpDialed, tcpVars
<1>0. loop' \in [Clients -> {"none", "read", "dial", "ended"}]
      /\ target' \in [Clients -> Targets] /\ target[c] \in Targets
  BY DEF UdpInv, UdpTypes
<1>1. CASE ~Storable(c)
  <2>1. UNCHANGED <<sess, out>> /\ UNCHANGED phase
    BY <1>1
  <2>2. QED
    BY <1>0, <2>1, NothingDialed
<1>2. CASE /\ Storable(c)
           /\ sess' = [sess EXCEPT ![c][target[c]] = k]
           /\ out' = [out EXCEPT ![c][k] = "open"]
  <2>1. /\ sess[c] \in [Targets -> 0..MaxOut] /\ k \in 0..MaxOut
        /\ out[c] \in [Outs -> {"none", "open", "shut"}]
    BY SocksAssumption DEF UdpInv, UdpTypes, Outs
  <2>2. /\ sess' = [sess EXCEPT ![c] = [sess[c] EXCEPT ![target[c]] = k]]
        /\ out' = [out EXCEPT ![c] = [out[c] EXCEPT ![k] = "open"]]
    BY <1>2
  <2>3. /\ sess'[c] = [sess[c] EXCEPT ![target[c]] = k]
        /\ out'[c] = [out[c] EXCEPT ![k] = "open"]
        /\ \A d \in Clients \ {c} : sess'[d] = sess[d] /\ out'[d] = out[d]
    BY <2>2 DEF UdpInv, UdpTypes
  <2>4. UdpTypes'
    BY <1>0, <2>1, <2>2 DEF UdpInv, UdpTypes
  <2>5. /\ sess'[c][target[c]] = k /\ out'[c][k] = "open"
        /\ \A t \in Targets \ {target[c]} : sess'[c][t] = sess[c][t]
        /\ \A j \in Outs \ {k} : out'[c][j] = out[c][j]
    BY <1>0, <2>1, <2>3
  <2>6. phase[c] = "assoc" /\ sess[c][target[c]] = 0 /\ out[c][k] = "none"
    BY <1>2 DEF Storable
  <2>7. ASSUME NEW t \in Targets, sess'[c][t] # 0
        PROVE  phase'[c] = "assoc" /\ out'[c][sess'[c][t]] = "open"
    <3>1. CASE t = target[c]
      BY <2>5, <2>6, <3>1
    <3>2. CASE t # target[c]
      <4>1. sess'[c][t] = sess[c][t] /\ out[c][sess[c][t]] = "open"
        BY <2>5, <2>7, <3>2 DEF UdpInv, SessionsMatch
      <4>2. sess[c][t] \in Outs
        BY <2>1, <2>7, <4>1, SocksAssumption DEF Outs
      <4>3. QED
        BY <2>5, <2>6, <4>1, <4>2
    <3>3. QED
      BY <3>1, <3>2
  <2>8. ASSUME NEW j \in Outs, out'[c][j] = "open"
        PROVE  \E t \in Targets : sess'[c][t] = j
    <3>1. CASE j = k
      BY <1>0, <2>5, <3>1
    <3>2. CASE j # k
      <4>1. PICK t \in Targets : sess[c][t] = j
        BY <2>5, <2>8, <3>2 DEF UdpInv, SessionsMatch
      <4>2. t # target[c]
        BY <2>6, <4>1, SocksAssumption DEF Outs
      <4>3. QED
        BY <2>5, <4>1, <4>2
    <3>3. QED
      BY <3>1, <3>2
  <2>9. QED
    BY <2>3, <2>4, <2>7, <2>8, OneAssociation
<1>3. QED
  BY <1>1, <1>2
LEMMA ReadBackKeeps ==
  ASSUME UdpInv, NEW c \in Clients, NEW k \in Outs, ReadBackEnds(c, k)
  PROVE  UdpInv'
<1> USE DEF ReadBackEnds, tcpVars
<1>1. WithoutOut(c, k) \in [Targets -> 0..MaxOut]
  BY SocksAssumption DEF WithoutOut, UdpInv, UdpTypes
<1>2. /\ sess' \in [Clients -> [Targets -> 0..MaxOut]]
      /\ sess'[c] = WithoutOut(c, k)
      /\ \A d \in Clients \ {c} : sess'[d] = sess[d]
  BY <1>1 DEF UdpInv, UdpTypes
<1>3. /\ out[c] \in [Outs -> {"none", "open", "shut"}]
      /\ out' = [out EXCEPT ![c] = [out[c] EXCEPT ![k] = "none"]]
  BY DEF UdpInv, UdpTypes
<1>4. /\ out' \in [Clients -> [Outs -> {"none", "open", "shut"}]]
      /\ out'[c] = [out[c] EXCEPT ![k] = "none"]
      /\ \A d \in Clients \ {c} : out'[d] = out[d]
  BY <1>3 DEF UdpInv, UdpTypes
<1>5. UdpTypes'
  BY <1>2, <1>4 DEF UdpInv, UdpTypes
<1>6. out'[c][k] = "none" /\ \A j \in Outs \ {k} : out'[c][j] = out[c][j]
  BY <1>3, <1>4
<1>7. ASSUME NEW t \in Targets, sess'[c][t] # 0
      PROVE  phase'[c] = "assoc" /\ out'[c][sess'[c][t]] = "open"
  <2>1. sess'[c][t] = sess[c][t] /\ sess[c][t] # k
    BY <1>2, <1>7 DEF WithoutOut
  <2>2. sess[c][t] \in Outs
    BY <1>7, <2>1, SocksAssumption DEF UdpInv, UdpTypes, Outs
  <2>3. QED
    BY <1>6, <1>7, <2>1, <2>2 DEF UdpInv, SessionsMatch
<1>8. ASSUME NEW j \in Outs, out'[c][j] = "open"
      PROVE  \E t \in Targets : sess'[c][t] = j
  <2>1. j # k /\ out[c][j] = "open"
    BY <1>6, <1>8
  <2>2. PICK t \in Targets : sess[c][t] = j
    BY <2>1 DEF UdpInv, SessionsMatch
  <2>3. sess'[c][t] = j
    BY <1>2, <2>1, <2>2 DEF WithoutOut
  <2>4. QED
    BY <2>3
<1>9. QED
  BY <1>2, <1>4, <1>5, <1>7, <1>8, OneAssociation

LEMMA UdpStep ==
  ASSUME TcpInv, UdpInv, [SocksNext]_socksVars
  PROVE  UdpInv'
<1>0. TcpTypes /\ UdpTypes
  BY DEF TcpInv, UdpInv
<1>1. ASSUME UNCHANGED udpVars,
             \A c \in Clients : phase[c] = "assoc" => phase'[c] = "assoc"
      PROVE  UdpInv'
  BY <1>0, <1>1, NothingDialed DEF udpVars, UdpTypes
<1>2. ASSUME NEW c \in Clients, phase[c] # "assoc", UNCHANGED <<target, sess, out>>,
             loop' \in {loop, [loop EXCEPT ![c] = "read"]},
             phase' \in {[phase EXCEPT ![c] = p] : p \in Phases}
      PROVE  UdpInv'
  <2>1. loop' \in [Clients -> {"none", "read", "dial", "ended"}]
    BY <1>0, <1>2 DEF UdpTypes
  <2>2. \A d \in Clients : phase[d] = "assoc" => phase'[d] = "assoc"
    BY <1>0, <1>2 DEF TcpTypes
  <2>3. QED
    BY <1>0, <1>2, <2>1, <2>2, NothingDialed DEF UdpTypes
<1>3. CASE \/ AcceptFails \/ Track \/ Close \/ DownStep
           \/ \E c \in Clients : HangsUp(c) \/ RemoteStalls(c) \/ RemoteTakes(c)
  <2> USE DEF flowVars
  <2>1. CASE \/ AcceptFails \/ Track \/ Close \/ DownStep
             \/ \E c \in Clients : HangsUp(c)
    BY <1>1, <2>1 DEF AcceptFails, Track, Close, DownStep, CloseReturns, TunnelStops,
                      HangsUp
  <2>2. CASE \E c \in Clients : RemoteStalls(c) \/ RemoteTakes(c)
    BY <1>1, <2>2 DEF RemoteStalls, RemoteTakes
  <2>3. QED
    BY <1>3, <2>1, <2>2
<1>4. CASE Spawn \/ \E c \in Clients : Accept(c)
  <2>1. CASE Spawn
    <3>1. held \in Clients /\ phase[held] = "accepted"
      BY <2>1 DEF Spawn, TcpInv, ServeHolds
    <3>2. QED
      BY <1>2, <2>1, <3>1 DEF Spawn, flowVars, udpVars, Phases, Running
  <2>2. ASSUME NEW c \in Clients, Accept(c)
        PROVE  UdpInv'
    BY <1>2, <2>2 DEF Accept, flowVars, udpVars, Phases
  <2>3. QED
    BY <1>4, <2>1, <2>2
<1>5. ASSUME NEW c \in Clients, HandlerStep(c) \/ RemoteHangsUp(c)
      PROVE  UdpInv'
  <2> USE DEF Done, Goto, Phases, Running, udpVars
  <2>1. CASE Request(c)
    <3>1. phase[c] # "assoc" /\ UNCHANGED <<target, sess, out>>
      BY <2>1 DEF Request
    <3>2. loop' \in {loop, [loop EXCEPT ![c] = "read"]}
      BY <2>1 DEF Request
    <3>3. phase' \in {[phase EXCEPT ![c] = p] : p \in Phases}
      BY <2>1 DEF Request
    <3>4. QED
      BY <1>2, <3>1, <3>2, <3>3
  <2>2. CASE Dialed(c)
    BY <1>2, <2>2 DEF Dialed
  <2>3. CASE RelayEnds(c) \/ RemoteHangsUp(c)
    BY <1>2, <2>3 DEF RelayEnds, RemoteHangsUp
  <2>4. CASE AssocEnds(c)
    BY <1>0, <2>4, AssocEndsKeeps
  <2>5. QED
    BY <1>5, <2>1, <2>2, <2>3, <2>4 DEF HandlerStep
<1>6. ASSUME NEW c \in Clients, LoopStep(c) \/ \E t \in Targets : Datagram(c, t)
      PROVE  UdpInv'
  <2>1. CASE \E k \in Outs : UdpDialed(c, k)
    BY <1>0, <2>1, UdpDialedKeeps
  <2>2. CASE LoopEnds(c) \/ UdpDialFails(c)
    <3>1. /\ loop' \in [Clients -> {"none", "read", "dial", "ended"}]
          /\ UNCHANGED <<target, sess, out, phase>>
      BY <1>0, <2>2 DEF LoopEnds, UdpDialFails, tcpVars, UdpTypes
    <3>2. QED
      BY <1>0, <3>1, NothingDialed DEF UdpTypes
  <2>3. ASSUME NEW t \in Targets, Datagram(c, t)
        PROVE  UdpInv'
    <3>1. /\ loop' \in [Clients -> {"none", "read", "dial", "ended"}]
          /\ target' \in [Clients -> Targets]
          /\ UNCHANGED <<sess, out, phase>>
      BY <1>0, <2>3 DEF Datagram, tcpVars, UdpTypes
    <3>2. QED
      BY <3>1, NothingDialed
  <2>4. QED
    BY <1>6, <2>1, <2>2, <2>3 DEF LoopStep
<1>7. ASSUME NEW c \in Clients, NEW k \in Outs, ReadBackEnds(c, k)
      PROVE  UdpInv'
  BY <1>7, ReadBackKeeps
<1>8. CASE UNCHANGED socksVars
  BY <1>1, <1>8 DEF socksVars, tcpVars
<1>9. QED
  BY <1>3, <1>4, <1>5, <1>6, <1>7, <1>8 DEF SocksNext

LEMMA SocksParts == SocksInv <=> TcpInv /\ UdpInv
  BY DEF SocksInv, SocksTypeOK, TcpInv, TcpTypes, Counted, UdpInv, UdpTypes

LEMMA SocksStep ==
  ASSUME SocksInv, [SocksNext]_socksVars
  PROVE  SocksInv'
<1>1. TcpInv' /\ UdpInv'
  BY SocksParts, TcpStep, UdpStep
<1>2. QED
  BY <1>1 DEF SocksInv, SocksTypeOK, TcpInv, TcpTypes, Counted, UdpInv, UdpTypes

LEMMA SocksInitially ==
  ASSUME SocksInit
  PROVE  SocksInv
<1> USE DEF SocksInit
<1>1. Handlers = {}
  BY DEF Handlers, Running
<1>2. TcpTypes /\ Counted
  BY <1>1, FS_EmptySet DEF TcpTypes, Counted, Phases
<1>3. ServeHolds /\ CloseFinds
  BY DEF ServeHolds, CloseFinds
<1>4. UdpTypes
  <2>1. (CHOOSE t \in Targets : TRUE) \in Targets
    BY SocksAssumption
  <2>2. NoSessions \in [Targets -> 0..MaxOut]
    BY SocksAssumption DEF NoSessions
  <2>3. QED
    BY <2>1, <2>2 DEF UdpTypes
<1>5. SessionsMatch
  BY DEF SessionsMatch, NoSessions
<1>6. QED
  BY <1>2, <1>3, <1>4, <1>5, SocksParts DEF TcpInv, UdpInv
-----------------------------------------------------------------------------
(* The gateway: rules that come and go.                                    *)

LEMMA RuleNames == Mark \in Rules /\ NoLan \in Rules /\ Mark # NoLan
                   /\ Subnets \subseteq Rules \ {Mark, NoLan} /\ NoRule \notin Rules
  BY GatewayAssumption DEF Rules, Mark, NoLan, NoRule

RulesInv ==
  /\ rules \subseteq Rules /\ left \subseteq rules /\ todo \subseteq Subnets
  /\ rm \in Seq(Rules) /\ gap \in Rules \cup {NoRule}
  /\ RulesTracked

(* ruleReplace deletes what was left of the rule, if it can.               *)
LEMMA DuplicateDeleted ==
  ASSUME RulesInv, NEW r \in Rules, RuleDel(r)
  PROVE  RulesInv'
<1> USE DEF RuleDel
<1>1. rm = <<>> \/ pc = "from"
  BY DEF Due, RulesInv, RulesTracked
<1>2. ~In(rm, r)
  BY <1>1, EmptyQueue DEF Due, RulesInv, RulesTracked
<1>3. rules' \subseteq Rules /\ left' \subseteq rules'
  BY DEF RulesInv
<1>4. /\ gap' = r /\ pc' = pc /\ r # NoRule
      /\ r = Mark => pc = "mark"
      /\ r # Mark => pc = "from"
  BY RuleNames DEF Due, RulesInv
<1>5. RulesTracked'
  BY <1>2, <1>4 DEF RulesInv, RulesTracked
<1>6. QED
  BY <1>3, <1>4, <1>5 DEF RulesInv

(* It adds the rule, of which Teardown did not know.                       *)
LEMMA RuleAdded ==
  ASSUME RulesInv, gap \in Rules, Added, gap' = NoRule, left' = left,
         todo' \subseteq todo \ {gap}, pc' \in {"from", "nat"},
         pc' = "from" => gap # NoLan /\ ~In(rm, NoLan)
  PROVE  RulesInv'
<1>0. ~In(rm, gap) /\ gap \notin left
  BY RuleNames DEF RulesInv, RulesTracked, Added
<1>1. /\ rm' \in Seq(Rules) /\ Once(rm')
      /\ \A q : In(rm', q) <=> In(rm, q) \/ q = gap
  BY <1>0, JoinsBack DEF RulesInv, RulesTracked, Added
<1>2. rules' \subseteq Rules /\ left' \subseteq rules' /\ todo' \subseteq Subnets
  BY DEF RulesInv, Added
<1>3. RulesTracked'
  BY <1>0, <1>1, RuleNames DEF RulesInv, RulesTracked, Added
<1>4. QED
  BY <1>1, <1>2, <1>3 DEF RulesInv

(* It has not added the rule, be the old one deleted or not.               *)
LEMMA RuleNotAdded ==
  ASSUME RulesInv, NotAdded, gap' = NoRule, left' = left,
         todo' \subseteq todo, pc' \in {"from", "nat", "undo"},
         pc' = "from" => ~In(rm, NoLan)
  PROVE  RulesInv'
<1>1. rules' \subseteq Rules /\ left' \subseteq rules' /\ todo' \subseteq Subnets
  BY DEF RulesInv, NotAdded
<1>2. RulesTracked'
  BY RuleNames DEF RulesInv, RulesTracked, NotAdded
<1>3. QED
  BY <1>1, <1>2 DEF RulesInv, NotAdded

(* Teardown deletes the rule at the front, or forgets it.                  *)
LEMMA RuleDeleted ==
  ASSUME RulesInv, DeleteRule
  PROVE  RulesInv'
<1> USE DEF DeleteRule, Tearing
<1>1. /\ rm' \in Seq(Rules) /\ Once(rm') /\ Head(rm) \in Rules
      /\ In(rm, Head(rm)) /\ ~In(rm', Head(rm))
      /\ \A q : In(rm, q) <=> q = Head(rm) \/ In(rm', q)
  BY LeavesFront DEF RulesInv, RulesTracked
<1>2. Head(rm) \in rules /\ Head(rm) \notin left /\ gap = NoRule
  BY <1>1 DEF RulesInv, RulesTracked
<1>3. rules' \subseteq Rules /\ left' \subseteq rules' /\ todo' \subseteq Subnets
  BY <1>2 DEF RulesInv
<1>4. RulesTracked'
  BY <1>1, <1>2, RuleNames DEF RulesInv, RulesTracked
<1>5. QED
  BY <1>1, <1>3, <1>4 DEF RulesInv

(* A step that neither adds nor deletes a rule.                            *)
LEMMA RulesStay ==
  ASSUME RulesInv, UNCHANGED <<rules, left, rm>>, gap' \in {gap, NoRule},
         gap' # NoRule => pc' = pc,
         todo' \subseteq Subnets, \A r \in todo' : ~In(rm, r),
         pc' = "from" => ~In(rm, NoLan),
         pc' \in {"down", "attach", "config", "route", "mark", "failed"} => rm = <<>>
  PROVE  RulesInv'
<1>1. gap' = Mark => pc' = "mark"
  BY RuleNames DEF RulesInv, RulesTracked
<1>2. gap' \in Rules \ {Mark} => pc' = "from"
  BY RuleNames DEF RulesInv, RulesTracked
<1>3. QED
  BY <1>1, <1>2 DEF RulesInv, RulesTracked

LEMMA RulesStep ==
  ASSUME RulesInv, [GatewayNext]_gatewayVars
  PROVE  RulesInv'
<1> USE DEF kernel, gwVars, upVars
<1>0. gap # NoRule => pc \in {"mark", "from"}
  BY DEF RulesInv, RulesTracked
<1>1. CASE Prepare \/ Attach \/ Configure \/ NatAndCommit \/ Disconnect \/ DeleteRoute
  BY <1>0, <1>1, RulesStay DEF Prepare, Attach, Configure, NatAndCommit, Disconnect,
                         DeleteRoute, Tearing, RulesInv, RulesTracked
<1>2. CASE RouteTable
  <2>1. rm = <<>>
    BY <1>2 DEF RouteTable, RulesInv, RulesTracked
  <2>2. QED
    BY <1>0, <1>2, <2>1, RulesStay, EmptyQueue DEF RouteTable, RulesInv
<1>3. CASE MarkRule
  <2>1. gap = Mark /\ pc = "mark" /\ rm = <<>>
    BY <1>3 DEF MarkRule, RulesInv, RulesTracked
  <2>2. todo' \subseteq todo \ {Mark}
    BY <1>3, RuleNames DEF MarkRule, RulesInv
  <2>3. QED
    BY <1>3, <2>1, <2>2, EmptyQueue, RuleNames, RuleAdded, RuleNotAdded DEF MarkRule
<1>4. CASE FromAll
  <2>1. gap = NoLan /\ NoLan \in Rules
    BY <1>4, RuleNames DEF FromAll
  <2>2. todo' \subseteq todo \ {gap}
    BY <1>4, <2>1, RuleNames DEF FromAll, RulesInv
  <2>3. QED
    BY <1>4, <2>1, <2>2, RuleAdded, RuleNotAdded DEF FromAll
<1>5. CASE FromSubnet
  <2>1. gap \in Rules \ {Mark, NoLan} /\ pc = "from" /\ ~In(rm, NoLan)
    BY <1>5, RuleNames DEF FromSubnet, RulesInv, RulesTracked
  <2>2. todo' = todo \ {gap} /\ pc' \in {"from", "nat"}
    BY <1>5 DEF FromSubnet
  <2>3. QED
    BY <1>5, <2>1, <2>2, RuleAdded, RuleNotAdded DEF FromSubnet
<1>12. ASSUME NEW r \in Rules, RuleDel(r)
       PROVE  RulesInv'
  BY <1>12, DuplicateDeleted
<1>6. CASE DeleteRule
  BY <1>6, RuleDeleted
<1>7. CASE TunnelStop
  <2>1. rm = <<>>
    BY <1>7 DEF TunnelStop, RulesInv, RulesTracked
  <2>2. QED
    BY <1>0, <1>7, <2>1, RulesStay DEF TunnelStop
<1>8. CASE Crash
  <2>1. /\ rm' = <<>> /\ todo' = {} /\ left' = rules /\ rules' = rules /\ pc' = "down"
        /\ gap' = NoRule
    BY <1>8 DEF Crash
  <2>2. QED
    BY <2>1, EmptyQueue, RuleNames DEF RulesInv, RulesTracked
<1>9. CASE GatewayMoves \/ \E k \in Checkers : Look(k) \/ Announce(k)
  BY <1>9, RulesStay DEF GatewayMoves, Look, Announce, RulesInv, RulesTracked
<1>10. CASE UNCHANGED gatewayVars
  BY <1>10, RulesStay DEF gatewayVars, RulesInv, RulesTracked
<1>11. QED
  BY <1>1, <1>2, <1>3, <1>4, <1>5, <1>6, <1>7, <1>8, <1>9, <1>10, <1>12
     DEF GatewayNext, Setup, TakeDown
GatewayRest ==
  /\ pc \in Stages
  /\ table \in BOOLEAN /\ tun \in BOOLEAN /\ nat \in BOOLEAN /\ natOn \in BOOLEAN
  /\ gw \in Gateways \cup {NoGateway} /\ prevGW \in Gateways \cup {NoGateway}
  /\ seen \in [Checkers -> Gateways \cup {NoGateway}]
  /\ table => tun
  /\ MarkFirst /\ TunnelFirst

LEMMA GatewayParts == GatewayInv <=> RulesInv /\ GatewayRest
  BY DEF GatewayInv, GatewayTypeOK, RulesInv, GatewayRest

(* Up goes on: the TUN is there before its table, and the mark rule before *)
(* the rules of the LAN, which are all different from it.                  *)
LEMMA UpKeeps ==
  ASSUME RulesInv, GatewayRest, Setup
  PROVE  GatewayRest'
<1> USE DEF GatewayRest, MarkFirst, TunnelFirst, Stages, UpStages, kernel, upVars, gwVars
<1>1. CASE Prepare \/ Attach \/ Configure
  <2>1. CASE Prepare
    BY <2>1 DEF Prepare
  <2>2. CASE Attach
    BY <2>2 DEF Attach
  <2>3. CASE Configure
    BY <2>3 DEF Configure
  <2>4. QED
    BY <1>1, <2>1, <2>2, <2>3
<1>2. CASE RouteTable
  BY <1>2 DEF RouteTable
<1>0. /\ gap = Mark => pc = "mark"
      /\ gap \in {NoLan} \cup todo => pc = "from"
  BY RuleNames DEF RulesInv, RulesTracked
<1>3. CASE MarkRule
  <2>1. pc = "mark" /\ pc' \in {"from", "undo"} /\ (pc' = "from" => Mark \in rules')
    BY <1>0, <1>3 DEF MarkRule, Added
  <2>2. QED
    BY <1>3, <2>1 DEF MarkRule
<1>4. CASE FromAll
  <2>1. pc = "from" /\ pc' \in {"nat", "undo"} /\ rules \subseteq rules'
    BY <1>0, <1>4 DEF FromAll, Added, NotAdded
  <2>2. QED
    BY <1>4, <2>1 DEF FromAll
<1>5. CASE FromSubnet
  <2>1. pc = "from" /\ pc' \in {"nat", "from"} /\ rules \subseteq rules'
    BY <1>0, <1>5 DEF FromSubnet, Added, NotAdded
  <2>2. QED
    BY <1>5, <2>1 DEF FromSubnet
<1>8. ASSUME NEW r \in Rules, RuleDel(r)
      PROVE  GatewayRest'
  <2>1. pc = "from" => r # Mark
    BY <1>8, RuleNames DEF RuleDel, Due, RulesInv
  <2>2. pc' \in {"from", "nat", "up"} => Mark \in rules'
    BY <1>8, <2>1 DEF RuleDel, Due
  <2>3. QED
    BY <1>8, <2>2 DEF RuleDel, Due
<1>6. CASE NatAndCommit
  <2>1. nat' \in BOOLEAN /\ natOn' \in BOOLEAN
    BY <1>6 DEF NatAndCommit, EnableNAT
  <2>2. QED
    BY <1>6, <2>1 DEF NatAndCommit
<1>7. QED
  BY <1>1, <1>2, <1>3, <1>4, <1>5, <1>6, <1>8 DEF Setup

LEMMA GatewayRestStep ==
  ASSUME RulesInv, GatewayRest, [GatewayNext]_gatewayVars
  PROVE  GatewayRest'
<1> USE DEF GatewayRest, MarkFirst, TunnelFirst, Stages, UpStages, kernel, upVars, gwVars
<1>1. CASE Setup
  BY <1>1, UpKeeps
<1>2. CASE Disconnect \/ DeleteRule
  BY <1>2 DEF Disconnect, DeleteRule, Tearing
<1>3. CASE DeleteRoute
  BY <1>3 DEF DeleteRoute
<1>4. CASE TunnelStop \/ Crash
  BY <1>4 DEF TunnelStop, Crash
<1>5. CASE GatewayMoves
  BY <1>5 DEF GatewayMoves
<1>6. ASSUME NEW k \in Checkers, Look(k) \/ Announce(k)
      PROVE  GatewayRest'
  <2>1. /\ seen' \in [Checkers -> Gateways \cup {NoGateway}]
        /\ prevGW' \in Gateways \cup {NoGateway}
    BY <1>6 DEF Look, Announce, Latest
  <2>2. UNCHANGED <<pc, rules, table, tun, nat, natOn, gw>>
    BY <1>6 DEF Look, Announce
  <2>3. QED
    BY <2>1, <2>2
<1>7. CASE UNCHANGED gatewayVars
  BY <1>7 DEF gatewayVars
<1>8. QED
  BY <1>1, <1>2, <1>3, <1>4, <1>5, <1>6, <1>7 DEF GatewayNext, TakeDown

LEMMA GatewayStep ==
  ASSUME GatewayInv, [GatewayNext]_gatewayVars
  PROVE  GatewayInv'
<1>1. RulesInv' /\ GatewayRest'
  BY GatewayParts, RulesStep, GatewayRestStep
<1>2. QED
  BY <1>1 DEF GatewayInv, GatewayTypeOK, RulesInv, GatewayRest

LEMMA GatewayInitially ==
  ASSUME GatewayInit
  PROVE  GatewayInv
<1>1. RulesInv
  BY EmptyQueue, RuleNames DEF GatewayInit, RulesInv, RulesTracked
<1>2. GatewayRest
  BY DEF GatewayInit, GatewayRest, MarkFirst, TunnelFirst, Stages
<1>3. QED
  BY <1>1, <1>2, GatewayParts

-----------------------------------------------------------------------------
(* Keenetic: the routes past the tunnel.                                   *)

KeenTypes ==
  /\ gateway \in Ifaces \cup {None}
  /\ wg \in [Wgs -> [owner : Owners, up : BOOLEAN]]
  /\ stage \in {"idle", "prepared", "choose", "provision", "up", "undo"}
  /\ chosen \in Wgs \cup {None} /\ remembered \in Wgs \cup {None}
  /\ up \in BOOLEAN
  /\ saw \in [Checkers -> Ifaces \cup {None}]
  /\ up => chosen # None

RoutesInv ==
  /\ routes \subseteq Ips \X Ifaces /\ stuck \subseteq Ips \X Ifaces
  /\ wan \in Ifaces \cup {None} /\ bypass \subseteq Ips
  /\ bypass # {} => wan # None
  /\ RoutesAccountedFor

(* Routes of a manager are added through the WAN it has.                   *)
LEMMA RoutesAdded ==
  ASSUME RoutesInv, NEW i \in Ifaces, NEW S \in SUBSET Ips, NEW failed,
         NEW anyway \in SUBSET Ips,
         wan = i \/ bypass = {}, wan' = i, AddBypassRoutes(S, i, failed, anyway)
  PROVE  RoutesInv'
<1> DEFINE new == (S \ bypass) \ failed
<1>1. /\ bypass' = bypass \cup new /\ routes' = routes \cup Via(new \cup anyway, i)
      /\ stuck' = (stuck \ Via(new, i)) \cup Via(anyway, i)
  BY DEF AddBypassRoutes
<1>2. new \subseteq Ips /\ i # None
  BY KeenAssumption DEF Ifaces
<1> HIDE DEF new
<1>3. routes' \subseteq Ips \X Ifaces /\ stuck' \subseteq Ips \X Ifaces
  BY <1>1, <1>2 DEF RoutesInv, Via
<1>4. routes' \subseteq Via(bypass', wan') \cup stuck'
  BY <1>1, <1>2 DEF RoutesInv, RoutesAccountedFor, Via
<1>5. QED
  BY <1>1, <1>2, <1>3, <1>4 DEF RoutesInv, RoutesAccountedFor

(* Down forgets every route; what could not be removed is left.            *)
LEMMA RoutesRemoved ==
  ASSUME RoutesInv, NEW kept \in SUBSET bypass, Cleanup(kept), wan' = None
  PROVE  RoutesInv' /\ bypass' = {}
<1>1. bypass # {} => wan \in Ifaces
  BY DEF RoutesInv
<1>2. routes' \subseteq Ips \X Ifaces /\ stuck' \subseteq Ips \X Ifaces
  BY <1>1 DEF RoutesInv, Cleanup, Via
<1>3. routes' \subseteq stuck'
  BY DEF RoutesInv, RoutesAccountedFor, Cleanup, Via
<1>4. QED
  BY <1>2, <1>3 DEF RoutesInv, RoutesAccountedFor, Cleanup

(* A new WAN: the routes go over, but for those that could not.            *)
LEMMA RoutesMoved ==
  ASSUME RoutesInv, NEW i \in Ifaces, NEW kept \in SUBSET bypass,
         NEW failed \in SUBSET bypass, NEW anyway \in SUBSET failed,
         RefreshWAN(i, kept, failed, anyway)
  PROVE  RoutesInv' /\ bypass' \subseteq bypass
<1> USE DEF RefreshWAN
<1>1. bypass # {} => wan \in Ifaces
  BY DEF RoutesInv
<1>2. i # None
  BY KeenAssumption DEF Ifaces
<1>3. routes' \subseteq Ips \X Ifaces /\ stuck' \subseteq Ips \X Ifaces
  BY <1>1 DEF RoutesInv, Via
<1>4. routes' \subseteq Via(bypass', wan') \cup stuck'
  BY DEF RoutesInv, RoutesAccountedFor, Via
<1>5. QED
  BY <1>2, <1>3, <1>4 DEF RoutesInv, RoutesAccountedFor

(* The daemon dies with its routes in NDM.                                 *)
LEMMA RoutesLeft ==
  ASSUME RoutesInv, KeenCrash
  PROVE  RoutesInv'
<1>1. bypass # {} => wan \in Ifaces
  BY DEF RoutesInv
<1>2. stuck' = stuck \cup Via(bypass, wan) /\ routes' = routes
      /\ wan' = None /\ bypass' = {}
  BY DEF KeenCrash, ndm
<1>3. routes' \subseteq Ips \X Ifaces /\ stuck' \subseteq Ips \X Ifaces
  BY <1>1, <1>2 DEF RoutesInv, Via
<1>4. routes' \subseteq stuck'
  BY <1>2 DEF RoutesInv, RoutesAccountedFor
<1>5. QED
  BY <1>2, <1>3, <1>4 DEF RoutesInv, RoutesAccountedFor
(* What the user makes and deletes is not ours.                            *)
LEMMA ConnectionTypes ==
  ASSUME NEW c \in {Free, [owner |-> "user", up |-> TRUE]}
  PROVE  c \in [owner : Owners, up : BOOLEAN]
         /\ c.owner # "daemon"
<1>1. CASE c = Free
  BY <1>1 DEF Free, Owners
<1>2. CASE c = [owner |-> "user", up |-> TRUE]
  BY <1>2 DEF Owners
<1>3. QED
  BY <1>1, <1>2

LEMMA KeenParts == KeenInv <=> KeenTypes /\ RoutesInv /\ SessionKeeps
  BY DEF KeenInv, KeenTypeOK, KeenTypes, RoutesInv

LEMMA WanIsInterface ==
  ASSUME KeenTypes
  PROVE  WANInterface \subseteq Ifaces /\ None \notin Ifaces
  BY KeenAssumption DEF KeenTypes, WANInterface, Global, Ifaces

(* A step that leaves the RouteManager and the choice alone, and makes no  *)
(* connection ours.                                                        *)
LEMMA ManagerStays ==
  ASSUME KeenTypes', RoutesInv, SessionKeeps,
         UNCHANGED <<routes, wan, bypass, stuck, stage, chosen, remembered>>,
         \A n \in Wgs : Ours(n)' => Ours(n)
  PROVE  RoutesInv' /\ SessionKeeps'
<1>1. RoutesInv'
  BY DEF RoutesInv, RoutesAccountedFor
<1>2. SessionKeeps'
  <2>1. remembered' # None /\ Ours(remembered)' => Ours(remembered)
    BY DEF KeenTypes
  <2>2. QED
    BY <2>1 DEF SessionKeeps
<1>3. QED
  BY <1>1, <1>2

(* The session.                                                            *)
LEMMA KeenSession ==
  ASSUME KeenTypes, RoutesInv, SessionKeeps,
         FindWAN \/ Bypass \/ Choose \/ Provision \/ Remember \/ Down \/ KeenCrash
  PROVE  KeenTypes' /\ RoutesInv' /\ SessionKeeps'
<1> USE DEF ndm
<1>1. CASE FindWAN
  <2>1. PICK i \in WANInterface, turn \in SUBSET Ips :
          \E failed \in SUBSET turn : \E anyway \in SUBSET failed :
             wan' = i /\ AddBypassRoutes(turn, i, failed, anyway)
    BY <1>1 DEF FindWAN
  <2>2. i \in Ifaces /\ i # None
    BY <2>1, WanIsInterface
  <2>3. bypass = {}
    BY <1>1 DEF FindWAN, SessionKeeps
  <2>4. RoutesInv'
    BY <2>1, <2>2, <2>3, RoutesAdded
  <2>5. KeenTypes'
    BY <1>1 DEF FindWAN, KeenTypes
  <2>6. SessionKeeps'
    BY <1>1, <2>1, <2>2 DEF FindWAN, SessionKeeps
  <2>7. QED
    BY <2>4, <2>5, <2>6
<1>2. CASE Bypass
  <2>1. PICK S \in SUBSET Ips :
          \E failed \in SUBSET (S \ bypass) : \E anyway \in SUBSET failed :
             AddBypassRoutes(S, wan, failed, anyway)
    BY <1>2 DEF Bypass
  <2>2. wan \in Ifaces /\ wan' = wan
    BY <1>2 DEF Bypass, SessionKeeps, RoutesInv
  <2>3. RoutesInv'
    BY <2>1, <2>2, RoutesAdded
  <2>4. KeenTypes'
    BY <1>2 DEF Bypass, KeenTypes
  <2>5. SessionKeeps'
    BY <1>2 DEF Bypass, SessionKeeps
  <2>6. QED
    BY <2>3, <2>4, <2>5
<1>3. CASE Choose
  <2>1. chosen' \in Wgs
    BY <1>3, KeenAssumption DEF Choose, ChooseWgIface, KeenTypes
  <2>2. chosen' # None
    BY <2>1, KeenAssumption
  <2>3. remembered # None /\ Ours(remembered) => chosen' = remembered
    BY <1>3 DEF Choose, ChooseWgIface
  <2>4. KeenTypes'
    BY <1>3, <2>1, <2>2 DEF Choose, KeenTypes
  <2>5. RoutesInv' /\ SessionKeeps'
    BY <1>3, <2>2, <2>3 DEF Choose, SessionKeeps, RoutesInv, RoutesAccountedFor, Ours
  <2>6. QED
    BY <2>4, <2>5
<1>4. CASE Provision
  <2>1. chosen \in Wgs /\ chosen # None
    BY <1>4 DEF Provision, SessionKeeps, KeenTypes
  <2>2. wg' \in [Wgs -> [owner : Owners, up : BOOLEAN]]
    <3>1. ASSUME NEW b \in BOOLEAN, NEW o \in Owners,
                 wg' = [wg EXCEPT ![chosen] = [owner |-> o, up |-> b]]
          PROVE  wg' \in [Wgs -> [owner : Owners, up : BOOLEAN]]
      BY <3>1 DEF KeenTypes
    <3>2. \/ UNCHANGED wg
          \/ \E c \in Partial(chosen) \cup {[owner |-> "daemon", up |-> TRUE]} :
               wg' = [wg EXCEPT ![chosen] = c]
      BY <1>4 DEF Provision
    <3>3. \A c \in Partial(chosen) \cup {[owner |-> "daemon", up |-> TRUE]} :
            \E b \in BOOLEAN, o \in Owners : c = [owner |-> o, up |-> b]
      BY DEF Partial, Owners
    <3>4. QED
      BY <3>1, <3>2, <3>3 DEF KeenTypes
  <2>3. KeenTypes'
    <3>1. /\ up' \in BOOLEAN
          /\ up' => chosen # None
          /\ stage' \in {"up", "undo"}
      BY <1>4, <2>1 DEF Provision, KeenTypes
    <3>2. UNCHANGED <<gateway, chosen, remembered, saw>>
      BY <1>4 DEF Provision
    <3>3. QED
      BY <2>2, <3>1, <3>2 DEF KeenTypes
  <2>4. RoutesInv' /\ SessionKeeps'
    BY <1>4 DEF Provision, SessionKeeps, RoutesInv, RoutesAccountedFor
  <2>5. QED
    BY <2>3, <2>4
<1>5. CASE Remember
  BY <1>5 DEF Remember, KeenTypes, SessionKeeps, RoutesInv, RoutesAccountedFor
<1>6. CASE Down
  <2>1. PICK kept \in SUBSET bypass : Cleanup(kept)
    BY <1>6 DEF Down
  <2>2. RoutesInv' /\ bypass' = {}
    BY <1>6, <2>1, RoutesRemoved DEF Down
  <2>3. wg' \in [Wgs -> [owner : Owners, up : BOOLEAN]]
    BY <1>6 DEF Down, KeenTypes
  <2>4. KeenTypes'
    BY <1>6, <2>3 DEF Down, KeenTypes
  <2>5. SessionKeeps'
    BY <1>6, <2>2 DEF Down, SessionKeeps
  <2>6. QED
    BY <2>2, <2>4, <2>5
<1>7. CASE KeenCrash
  <2>1. RoutesInv'
    BY <1>7, RoutesLeft
  <2>2. KeenTypes' /\ SessionKeeps'
    BY <1>7 DEF KeenCrash, KeenTypes, SessionKeeps
  <2>3. QED
    BY <2>1, <2>2
<1>8. QED
  BY <1>1, <1>2, <1>3, <1>4, <1>5, <1>6, <1>7

(* Checkers, uplinks and the user.                                         *)
LEMMA KeenAround ==
  ASSUME KeenTypes, RoutesInv, SessionKeeps,
         \/ \E k \in Checkers : LookAtWAN(k) \/ Apply(k)
         \/ Reroutes
         \/ \E n \in Wgs : UserCreates(n) \/ UserDeletes(n)
  PROVE  KeenTypes' /\ RoutesInv' /\ SessionKeeps'
<1> USE DEF ndm, backend
<1>1. ASSUME NEW k \in Checkers, LookAtWAN(k)
      PROVE  KeenTypes' /\ RoutesInv' /\ SessionKeeps'
  <2>1. PICK i \in Ifaces : saw' = [saw EXCEPT ![k] = i]
    BY <1>1, WanIsInterface DEF LookAtWAN
  <2>2. KeenTypes'
    BY <1>1, <2>1 DEF LookAtWAN, KeenTypes
  <2>3. QED
    BY <1>1, <2>2, ManagerStays DEF LookAtWAN, Ours
<1>2. ASSUME NEW k \in Checkers, Apply(k)
      PROVE  KeenTypes' /\ RoutesInv' /\ SessionKeeps'
  <2>1. KeenTypes'
    BY <1>2 DEF Apply, KeenTypes
  <2>2. CASE UNCHANGED <<routes, wan, bypass, stuck>>
    BY <1>2, <2>1, <2>2, ManagerStays DEF Apply, Ours
  <2>3. ASSUME NEW i \in {saw[k]} \ {wan}, NEW kept \in SUBSET bypass,
               NEW failed \in SUBSET bypass, NEW anyway \in SUBSET failed,
               RefreshWAN(i, kept, failed, anyway)
        PROVE  RoutesInv' /\ SessionKeeps'
    <3>1. i \in Ifaces /\ i # None
      BY <1>2 DEF Apply, KeenTypes
    <3>2. RoutesInv' /\ bypass' \subseteq bypass /\ wan' = i
      BY <2>3, <3>1, RoutesMoved DEF RefreshWAN
    <3>3. SessionKeeps'
      BY <1>2, <3>1, <3>2 DEF Apply, SessionKeeps, Ours
    <3>4. QED
      BY <3>2, <3>3
  <2>4. QED
    BY <1>2, <2>1, <2>2, <2>3 DEF Apply
<1>4. CASE Reroutes
  <2>1. gateway' \in Ifaces \cup {None}
    BY <1>4 DEF Reroutes, Global, Ifaces
  <2>2. KeenTypes'
    BY <1>4, <2>1 DEF Reroutes, KeenTypes
  <2>3. QED
    BY <1>4, <2>2, ManagerStays DEF Reroutes, Ours
<1>5. ASSUME NEW n \in Wgs, UserCreates(n) \/ UserDeletes(n)
      PROVE  KeenTypes' /\ RoutesInv' /\ SessionKeeps'
  <2>1. PICK c \in {Free, [owner |-> "user", up |-> TRUE]} :
          wg' = [wg EXCEPT ![n] = c]
    BY <1>5 DEF UserCreates, UserDeletes
  <2>2. /\ c \in [owner : Owners, up : BOOLEAN]
        /\ c.owner # "daemon"
    BY ConnectionTypes
  <2>3. wg' \in [Wgs -> [owner : Owners, up : BOOLEAN]]
    BY <2>1, <2>2 DEF KeenTypes
  <2>4. KeenTypes'
    BY <1>5, <2>3 DEF UserCreates, UserDeletes, KeenTypes
  <2>5. \A m \in Wgs : Ours(m)' => Ours(m)
    BY <2>1, <2>2 DEF KeenTypes, Ours
  <2>6. QED
    BY <1>5, <2>4, <2>5, ManagerStays DEF UserCreates, UserDeletes
<1>6. QED
  BY <1>1, <1>2, <1>4, <1>5

LEMMA KeenStep ==
  ASSUME KeenInv, [KeenNext]_keenVars
  PROVE  KeenInv'
<1>1. KeenTypes /\ RoutesInv /\ SessionKeeps
  BY KeenParts
<1>2. CASE UNCHANGED keenVars
  BY <1>2 DEF keenVars, ndm, backend, KeenInv, KeenTypeOK, RoutesAccountedFor,
              SessionKeeps, Ours
<1>3. CASE KeenNext
  <2>1. KeenTypes' /\ RoutesInv' /\ SessionKeeps'
    BY <1>1, <1>3, KeenSession, KeenAround DEF KeenNext
  <2>2. QED
    BY <2>1 DEF KeenInv, KeenTypeOK, KeenTypes, RoutesInv
<1>4. QED
  BY <1>2, <1>3

LEMMA KeenInitially ==
  ASSUME KeenInit
  PROVE  KeenInv
<1>1. KeenTypes
  <2>1. wg \in [Wgs -> [owner : Owners, up : BOOLEAN]]
    BY ConnectionTypes DEF KeenInit
  <2>2. saw \in [Checkers -> Ifaces \cup {None}]
    BY DEF KeenInit
  <2>3. QED
    BY <2>1, <2>2 DEF KeenInit, KeenTypes
<1>2. RoutesInv /\ SessionKeeps
  BY DEF KeenInit, RoutesInv, RoutesAccountedFor, SessionKeeps
<1>3. QED
  BY <1>1, <1>2, KeenParts
-----------------------------------------------------------------------------
(* The backend of a build: one of the three moves, the others stay.        *)

LEMMA InitInv == BackendsInit => IInv
  BY SocksInitially, GatewayInitially, KeenInitially DEF BackendsInit, IInv

LEMMA StepInv == IInv /\ [BackendsNext]_backendsVars => IInv'
<1> SUFFICES ASSUME IInv, [BackendsNext]_backendsVars PROVE IInv'
  OBVIOUS
<1>1. /\ bridge' = bridge
      /\ [SocksNext]_socksVars /\ [GatewayNext]_gatewayVars /\ [KeenNext]_keenVars
  BY DEF BackendsNext, backendsVars
<1>2. SocksInv' /\ GatewayInv' /\ KeenInv'
  BY <1>1, SocksStep, GatewayStep, KeenStep DEF IInv
<1>3. QED
  BY <1>1, <1>2 DEF IInv

LEMMA Invariant == BackendsSpec => []IInv
  BY InitInv, StepInv, PTL DEF BackendsSpec

(* The types of the three backends; closeWG counts exactly the handlers    *)
(* that run, with any number of clients, so that it is never negative.     *)
THEOREM BackendsTypeCorrect == BackendsSpec => []BackendsTypeOK
<1>1. IInv => BackendsTypeOK
  BY DEF IInv, BackendsTypeOK, SocksInv, GatewayInv, KeenInv
<1>2. QED
  BY <1>1, Invariant, PTL

(* However many clients come, hang up and are served while Down closes the *)
(* server: at most the one between Accept and track stays open.            *)
THEOREM CloseMissesOne == BackendsSpec => []CloseMissesAtMostOne
<1>1. IInv => CloseMissesAtMostOne
  <2> SUFFICES ASSUME IInv, closed PROVE Cardinality(sock) <= 1
    BY DEF CloseMissesAtMostOne
  <2>1. CASE sock = {}
    BY <2>1, FS_EmptySet
  <2>2. CASE sock # {}
    <3>1. PICK c \in sock : TRUE
      BY <2>2
    <3>2. \A d \in sock : d = c
      BY DEF IInv, SocksInv, CloseFinds
    <3>3. sock = {c}
      BY <3>2
    <3>4. Cardinality({c}) = 1
      BY FS_Singleton
    <3>5. QED
      BY <3>3, <3>4
  <2>3. QED
    BY <2>1, <2>2
<1>2. QED
  BY <1>1, Invariant, PTL

(* Whatever targets, dials, readers and ends of associations race, no      *)
(* outgoing connection outlives its association, and none that is gone     *)
(* stays the session of a target.                                          *)
THEOREM NoOutLeaks == BackendsSpec => []AssociationsAccounted
<1>1. IInv => AssociationsAccounted
  <2> SUFFICES ASSUME IInv, NEW c \in Clients
               PROVE  /\ phase[c] # "assoc" => \A k \in Outs : out[c][k] # "open"
                      /\ \A t \in Targets : sess[c][t] # 0 => out[c][sess[c][t]] = "open"
    BY DEF AssociationsAccounted
  <2>1. /\ \A t \in Targets : sess[c][t] # 0 =>
              phase[c] = "assoc" /\ out[c][sess[c][t]] = "open"
        /\ \A k \in Outs : out[c][k] = "open" => \E t \in Targets : sess[c][t] = k
    BY DEF IInv, SocksInv, SessionsMatch
  <2>2. \A k \in Outs : k # 0
    BY SocksAssumption DEF Outs
  <2>3. QED
    BY <2>1, <2>2
<1>2. QED
  BY <1>1, Invariant, PTL

(* With any subnets, whatever fails and whatever rules of an earlier life  *)
(* are in the kernel: everything goes into the tunnel while the proxy is   *)
(* not kept out only in Down, and at a rule left behind before Up adds the *)
(* mark.                                                                   *)
THEOREM ProxyStaysOutside == BackendsSpec => []ProxyOutsideTunnel
<1>1. IInv => ProxyOutsideTunnel
  <2> SUFFICES ASSUME IInv, table, NoLan \in rules, Mark \notin rules,
                      pc \notin {"teardown", "undo", "failed"}
               PROVE  pc = "mark" /\ NoLan \in left
    BY DEF ProxyOutsideTunnel
  <2>1. pc = "mark"
    BY DEF IInv, GatewayInv, GatewayTypeOK, MarkFirst, Stages, UpStages
  <2>2. NoLan \in Rules /\ rm = <<>>
    BY <2>1, RuleNames DEF IInv, GatewayInv, RulesTracked
  <2>3. QED
    BY <2>1, <2>2, EmptyQueue DEF IInv, GatewayInv, RulesTracked
<1>2. QED
  BY <1>1, Invariant, PTL

(* After any number of sessions, that failed wherever, the kernel has only *)
(* rules that could not be deleted or were left by a crash.                *)
THEOREM RulesAccounted == BackendsSpec => []NoRuleForgotten
<1>1. IInv => NoRuleForgotten
  <2> SUFFICES ASSUME IInv, pc = "down" PROVE rules = left
    BY DEF NoRuleForgotten
  <2>1. rm = <<>> /\ \A r \in Rules : r \in rules <=> r \in left \/ In(rm, r)
    BY DEF IInv, GatewayInv, RulesTracked
  <2>2. rules \subseteq Rules /\ left \subseteq rules
    BY DEF IInv, GatewayInv, GatewayTypeOK
  <2>3. QED
    BY <2>1, <2>2, EmptyQueue
<1>2. QED
  BY <1>1, Invariant, PTL

(* Whichever of poller, hook and Down takes the mutex first, with any      *)
(* addresses and uplinks and any calls that fail.                          *)
THEOREM RoutesAccounted == BackendsSpec => []RoutesAccountedFor
<1>1. IInv => RoutesAccountedFor
  BY DEF IInv, KeenInv
<1>2. QED
  BY <1>1, Invariant, PTL

(* Only ProvisionWg makes a connection ours, and it makes the remembered   *)
(* one as long as that is ours: whatever the user makes and deletes between*)
(* ChooseWgIface and ProvisionWg.                                          *)
THEOREM OneConnection == BackendsSpec => NoSecondConnection
<1>1. IInv /\ [BackendsNext]_backendsVars =>
        [\A n \in Wgs : Ours(n)' /\ ~Ours(n) =>
           remembered = None \/ ~Ours(remembered)]_keenVars
  <2> SUFFICES ASSUME IInv, KeenNext, NEW n \in Wgs, Ours(n)', ~Ours(n),
                      remembered # None, Ours(remembered)
               PROVE  FALSE
    BY DEF BackendsNext, backendsVars
  <2>1. wg \in [Wgs -> [owner : Owners, up : BOOLEAN]]
    BY DEF IInv, KeenInv, KeenTypeOK
  <2>2. CASE Provision
    <3>1. chosen = remembered
      BY <2>2 DEF Provision, IInv, KeenInv, SessionKeeps
    <3>2. wg'[n] = wg[n]
      BY <2>1, <2>2, <3>1 DEF Provision, Ours
    <3>3. QED
      BY <3>2 DEF Ours
  <2>3. CASE Down
    BY <2>1, <2>3 DEF Down, Ours
  <2>4. ASSUME NEW m \in Wgs, UserCreates(m) \/ UserDeletes(m)
        PROVE  FALSE
    BY <2>1, <2>4 DEF UserCreates, UserDeletes, Ours, Free
  <2>5. CASE UNCHANGED wg
    BY <2>5 DEF Ours
  <2>6. QED
    BY <2>2, <2>3, <2>4, <2>5
       DEF KeenNext, FindWAN, Bypass, Choose, Remember, KeenCrash, LookAtWAN, Apply,
           Reroutes, ndm
<1>2. QED
  BY <1>1, Invariant, PTL DEF BackendsSpec, NoSecondConnection
===============================================================================
