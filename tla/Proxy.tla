--------------------------------- MODULE Proxy ---------------------------------
(***************************************************************************)
(* pkg/proxy but for its credential cache (CredCache) and its sessions     *)
(* (Stream): the start and stop of the proxy, the race of a stream for a   *)
(* TURN server, and the requests to VK.  What the modules keep of the three*)
(* is disjoint, so a behaviour is one of one part, and the others rest.    *)
(***************************************************************************)
EXTENDS ProxyLife, TurnRace, VkClient

VARIABLE part  \* whose behaviour it is

proxyVars == <<part, lifeVars, raceVars, vkVars>>

ProxyInit ==
  /\ part \in {"life", "race", "vk"}
  /\ LifeInit /\ RaceInit /\ VkInit

ProxyNext ==
  \/ part = "life" /\ LifeNext /\ UNCHANGED <<part, raceVars, vkVars>>
  \/ part = "race" /\ RaceNext /\ UNCHANGED <<part, lifeVars, vkVars>>
  \/ part = "vk" /\ VkNext /\ UNCHANGED <<part, lifeVars, raceVars>>

\* What rests is in its initial state, where fairness asks nothing of it.
ProxySpec ==
  /\ ProxyInit /\ [][ProxyNext]_proxyVars
  /\ LifeFairness /\ RaceFairness /\ VkFairness
================================================================================
