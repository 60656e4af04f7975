-------------------------------- MODULE Backends -------------------------------
(***************************************************************************)
(* The backends a build can have: on OpenWrt (owrt/backend.go) Settings.Mode *)
(* decides whether Up starts the SOCKS server over a netstack or routes the*)
(* LAN through a TUN; on Keenetic NDM does the routing.                    *)
(***************************************************************************)
EXTENDS Socks, Gateway, Keen

VARIABLE bridge  \* the platform and Settings.Mode

backendsVars == <<bridge, socksVars, gatewayVars, keenVars>>
Bridges == {"socks", "gateway", "ndm"}

BackendsTypeOK ==
  bridge \in Bridges /\ SocksTypeOK /\ GatewayTypeOK /\ KeenTypeOK

\* What the platform does not use stays as it is.
BackendsInit ==
  /\ bridge \in Bridges
  /\ SocksInit /\ GatewayInit /\ KeenInit
  /\ bridge # "gateway" => gw = CHOOSE g \in Gateways : TRUE
  /\ bridge # "ndm" => \A n \in Wgs : wg[n] = Free

BackendsNext ==
  \/ bridge = "socks" /\ SocksNext /\ UNCHANGED <<bridge, gatewayVars, keenVars>>
  \/ bridge = "gateway" /\ GatewayNext /\ UNCHANGED <<bridge, socksVars, keenVars>>
  \/ bridge = "ndm" /\ KeenNext /\ UNCHANGED <<bridge, socksVars, gatewayVars>>

BackendsSpec ==
  /\ BackendsInit /\ [][BackendsNext]_backendsVars
  /\ SocksFairness /\ GatewayFairness /\ KeenFairness
================================================================================
