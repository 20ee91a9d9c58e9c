-------------------------------- MODULE Hosting --------------------------------
(* What the runtime core hosts: the core with its registry, the platform that
   its services make agents from, and an agent's life in a service.  They run in
   threads or processes of their own and share no state: a behaviour is one of
   one part, the others resting in their initial states.                      *)
EXTENDS Agents, Platform, Core

CoreRests == CoreInit /\ UNCHANGED coreVars
PlatformRests == PlatformInit /\ UNCHANGED platformVars
AgentRests == AgentInit /\ UNCHANGED agentVars

HostInit == AgentInit /\ PlatformInit /\ CoreInit

HostNext ==
  \/ PlatformRests /\ CoreRests /\ AgentNext
  \/ CoreRests /\ AgentRests /\ PlatformNext
  \/ PlatformRests /\ AgentRests /\ CoreNext

HostSpec == HostInit /\ [][HostNext]_<<agentVars, platformVars, coreVars>> /\ AgentFairness
===============================================================================
