------------------------------- MODULE Gateway -------------------------------
(***************************************************************************)
(* The gateway mode of the OpenWrt backend (owrt/backend.go, routing.go,   *)
(* firewall.go, ifconfig.go): one session after another attaches the TUN,  *)
(* routes it in a table of its own, adds the rule that keeps marked sockets*)
(* of the proxy on the WAN and the rules that send the LAN into the tunnel,*)
(* masquerades, and takes it all down again.  Rules and the nft table are  *)
(* the kernel's and survive the process; the TUN and its route do not.     *)
(***************************************************************************)
EXTENDS Backend, Naturals, Sequences, FiniteSets

CONSTANTS
  Subnets,   \* subnets the LAN device may have
  Gateways   \* gateways of the physical default route

NoGateway == "none"
NoLan == "all"      \* the rule without a source, for a LAN not found
Mark == "mark"
NoRule == "no rule"
Rules == {Mark, NoLan} \cup Subnets

ASSUME GatewayAssumption ==
  {Mark, NoLan, NoRule} \cap Subnets = {} /\ NoGateway \notin Gateways

VARIABLES
  pc,       \* the session: where Connect, Up or Down is
  rules,    \* kernel: our rules
  table,    \* kernel: the table has its default route into the TUN
  tun,      \* kernel: the TUN device
  nat,      \* kernel: the nft table
  gap,      \* the rule ruleReplace is at, between its RuleDel and its RuleAdd
  rm,       \* RouteManager.rules, in the order they were added
  todo,     \* subnets Up has not come to
  natOn,    \* Backend.natOn
  left,     \* ghost: rules a crash or a failed RuleDel has left behind
  gw,       \* kernel: gateway of the main table
  prevGW,   \* Backend.prevGW
  seen      \* the gateway a checker has read and not yet stored

kernel == <<rules, table, tun, nat>>
gwVars == <<gw, prevGW, seen>>
upVars == <<gap, rm, todo, natOn>>
gatewayVars == <<pc, kernel, upVars, left, gwVars>>

UpStages == {"attach", "config", "route", "mark", "from", "nat"}
Stages == UpStages \cup {"down", "up", "teardown", "undo", "failed"}

GatewayTypeOK ==
  /\ pc \in Stages
  /\ rules \subseteq Rules /\ left \subseteq rules /\ todo \subseteq Subnets
  /\ table \in BOOLEAN /\ tun \in BOOLEAN /\ nat \in BOOLEAN /\ natOn \in BOOLEAN
  /\ rm \in Seq(Rules) /\ gap \in Rules \cup {NoRule}
  /\ gw \in Gateways \cup {NoGateway} /\ prevGW \in Gateways \cup {NoGateway}
  /\ seen \in [Checkers -> Gateways \cup {NoGateway}]
  /\ table => tun

GatewayInit ==
  /\ pc = "down" /\ rules = {} /\ table = FALSE /\ tun = FALSE /\ nat = FALSE
  /\ gap = NoRule /\ rm = <<>> /\ todo = {} /\ natOn = FALSE /\ left = {}
  /\ gw \in Gateways /\ prevGW = NoGateway
  /\ seen = [k \in Checkers |-> NoGateway]

-----------------------------------------------------------------------------
(* Up.  A step that fails leads to "failed", where Connect's cleanup calls *)
(* Down, which knows of nothing yet, and stops the tunnel.                 *)

\* Prepare marks the sockets of the proxy; the proxy gets ready.
Prepare ==
  /\ pc = "down"
  /\ pc' = "attach"
  /\ UNCHANGED <<kernel, upVars, left, gwVars>>

Attach ==
  /\ pc = "attach"
  /\ \/ pc' = "config" /\ tun' = TRUE
     \/ pc' = "failed" /\ UNCHANGED tun
  /\ UNCHANGED <<rules, table, nat, upVars, left, gwVars>>

\* ConfigureInterface: MTU and bad addresses are warnings, the rest errors.
Configure ==
  /\ pc = "config"
  /\ pc' \in {"route", "failed"}
  /\ UNCHANGED <<kernel, upVars, left, gwVars>>

\* SetupGateway, with the subnets ResolveLanSubnets finds.
RouteTable ==
  /\ pc = "route"
  /\ \/ pc' = "mark" /\ table' = TRUE /\ todo' \in SUBSET Subnets
     \/ pc' = "failed" /\ UNCHANGED <<table, todo>>
  /\ UNCHANGED <<rules, tun, nat, gap, rm, natOn, left, gwVars>>

\* The rule Up is at: the mark first, then one for each subnet of the LAN; a LAN
\* without subnets gets the rule for everything.
Due(r) ==
  \/ pc = "mark" /\ r = Mark
  \/ pc = "from" /\ IF todo = {} THEN r = NoLan ELSE r \in todo

\* ruleReplace deletes a duplicate, and ignores whether it could, ...
RuleDel(r) ==
  /\ Due(r) /\ gap = NoRule
  /\ gap' = r
  /\ rules' \in {rules, rules \ {r}} /\ left' = left \cap rules'
  /\ UNCHANGED <<pc, table, tun, nat, rm, todo, natOn, gwVars>>

\* ... and adds the rule, which fails if the duplicate still stands.
Added == gap \notin rules /\ rules' = rules \cup {gap} /\ rm' = Append(rm, gap)
NotAdded == UNCHANGED <<rules, rm>>

\* Mutant: a mark rule that cannot be added is only warned about.
MarkWarn ==
  /\ gap = Mark
  /\ Added \/ NotAdded
  /\ gap' = NoRule /\ pc' = "from"
  /\ UNCHANGED <<table, tun, nat, todo, natOn, left, gwVars>>
MarkRule ==
  /\ gap = Mark
  /\ \/ Added /\ pc' = "from"
     \/ NotAdded /\ pc' = "undo"
  /\ gap' = NoRule
  /\ UNCHANGED <<table, tun, nat, todo, natOn, left, gwVars>>

\* Mutant: SetupGateway returns its error without Teardown.
FromAllFailsDirty ==
  /\ gap = NoLan
  /\ \/ Added /\ pc' = "nat"
     \/ NotAdded /\ pc' = "failed"
  /\ gap' = NoRule
  /\ UNCHANGED <<table, tun, nat, todo, natOn, left, gwVars>>
\* Without the rule for everything Up fails.
FromAll ==
  /\ gap = NoLan
  /\ \/ Added /\ pc' = "nat"
     \/ NotAdded /\ pc' = "undo"
  /\ gap' = NoRule
  /\ UNCHANGED <<table, tun, nat, todo, natOn, left, gwVars>>

\* Without that of a subnet it goes on.
FromSubnet ==
  /\ gap \in todo
  /\ Added \/ NotAdded
  /\ gap' = NoRule /\ todo' = todo \ {gap}
  /\ pc' = IF todo = {gap} THEN "nat" ELSE "from"
  /\ UNCHANGED <<table, tun, nat, natOn, left, gwVars>>

\* EnableNAT replaces the nft table; without nft it reports success and leaves
\* what there is.  An error is a warning.  With the setting off nothing is done.
EnableNAT ==
  \/ natOn' = TRUE /\ nat' \in {TRUE, nat}
  \/ natOn' = FALSE /\ nat' \in {FALSE, nat}

\* Then Up keeps the gateway of that moment, if there is one, and commits.
NatAndCommit ==
  /\ pc = "nat" /\ pc' = "up"
  /\ EnableNAT
  /\ prevGW' = gw
  /\ UNCHANGED <<rules, table, tun, gap, rm, todo, left, gw, seen>>

-----------------------------------------------------------------------------
(* Down.                                                                   *)

Tearing == pc \in {"teardown", "undo"} /\ rm # <<>>

Disconnect ==
  /\ pc = "up" /\ pc' = "teardown"
  /\ UNCHANGED <<kernel, upVars, left, gwVars>>

\* Teardown deletes rule by rule, the mark first; one that cannot be deleted is
\* forgotten.
DeleteRule ==
  /\ Tearing
  /\ \/ rules' = rules \ {Head(rm)} /\ UNCHANGED left
     \/ rules' = rules /\ left' = left \cup {Head(rm)}
  /\ rm' = Tail(rm)
  /\ UNCHANGED <<pc, table, tun, nat, gap, todo, natOn, gwVars>>

DeleteRoute ==
  /\ pc \in {"teardown", "undo"} /\ ~Tearing
  /\ table' \in {FALSE, table}
  /\ nat' \in (IF natOn THEN {FALSE, nat} ELSE {nat}) /\ natOn' = FALSE
  /\ pc' = "failed"
  /\ UNCHANGED <<rules, tun, gap, rm, todo, left, gwVars>>

\* The tunnel is stopped after Down: the TUN goes, and its route with it.  The
\* next session has a Backend of its own.
TunnelStop ==
  /\ pc = "failed" /\ pc' = "down"
  /\ tun' = FALSE /\ table' = FALSE /\ rm' = <<>> /\ todo' = {}
  /\ prevGW' = NoGateway /\ seen' = [k \in Checkers |-> NoGateway]
  /\ UNCHANGED <<rules, nat, gap, natOn, left, gw>>

\* The process dies and is started again.
Crash ==
  /\ pc # "down" /\ pc' = "down"
  /\ tun' = FALSE /\ table' = FALSE /\ gap' = NoRule
  /\ rm' = <<>> /\ todo' = {} /\ natOn' = FALSE
  /\ left' = rules
  /\ prevGW' = NoGateway /\ seen' = [k \in Checkers |-> NoGateway]
  /\ UNCHANGED <<rules, nat, gw>>

-----------------------------------------------------------------------------
(* NetworkChanged: reads prevGW and the main table, and stores the gateway *)
(* it has read in a second step.                                           *)

GatewayMoves ==
  /\ gw' \in (Gateways \cup {NoGateway}) \ {gw}
  /\ UNCHANGED <<pc, kernel, upVars, left, prevGW, seen>>

Look(k) ==
  /\ pc = "up" /\ seen[k] = NoGateway
  /\ prevGW # NoGateway /\ gw \notin {NoGateway, prevGW}
  /\ seen' = [seen EXCEPT ![k] = gw]
  /\ UNCHANGED <<pc, kernel, upVars, left, gw, prevGW>>

\* Mutant: the gateway of Up is kept for ever.
Keep(k) == prevGW
Latest(k) == seen[k]

Announce(k) ==
  /\ seen[k] # NoGateway
  /\ prevGW' = Latest(k)
  /\ seen' = [seen EXCEPT ![k] = NoGateway]
  /\ UNCHANGED <<pc, kernel, upVars, left, gw>>

Setup ==
  \/ Prepare \/ Attach \/ Configure \/ RouteTable
  \/ (\E r \in Rules : RuleDel(r)) \/ MarkRule \/ FromAll \/ FromSubnet
  \/ NatAndCommit
TakeDown == DeleteRule \/ DeleteRoute \/ TunnelStop

GatewayNext ==
  \/ Setup \/ Disconnect \/ TakeDown \/ Crash \/ GatewayMoves
  \/ \E k \in Checkers : Look(k) \/ Announce(k)

GatewayFairness ==
  /\ WF_gatewayVars(TakeDown)
  /\ \A k \in Checkers : WF_gatewayVars(Look(k) \/ Announce(k))

-----------------------------------------------------------------------------
(* Properties.                                                             *)

(* Safety.  While the table and the rule that sends everything into it     *)
(* stand, the rule that keeps the proxy's own sockets out stands too, from *)
(* the moment Up has added it until Down, whatever fails and whatever an   *)
(* earlier life has left.  Not so while Down deletes the mark before the   *)
(* rest, nor while a rule for everything that was left behind waits for Up *)
(* to come to the mark: those are the only windows.                        *)
ProxyOutsideTunnel ==
  table /\ NoLan \in rules /\ Mark \notin rules =>
    \/ pc \in {"teardown", "undo", "failed"}
    \/ pc = "mark" /\ NoLan \in left

(* Safety.  Between sessions the kernel has no rule of ours but those that *)
(* could not be deleted or that a crash left: no path of Up or Down, failed*)
(* half way or not, loses one.                                             *)
NoRuleForgotten == pc = "down" => rules = left

(* Liveness.  A gateway that stays is in the end the one the checkers      *)
(* compare with, though two of them read and store without a common lock.  *)
GatewayFollowed ==
  \A g \in Gateways :
    <>[](pc = "up" /\ gw = g /\ prevGW # NoGateway) => <>[](prevGW = g)
==============================================================================
