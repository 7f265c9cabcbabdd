------------------------------ MODULE Endpoints ------------------------------
(***************************************************************************)
(* What concerns one agent at a time: the server's registry of agents, the *)
(* agent's own update, and live response sessions on it.  The three share  *)
(* no state (registry and sessions are parts of the server's AppState, the *)
(* update runs in another process), so a behaviour takes the steps of one. *)
(***************************************************************************)
EXTENDS Agents, AgentUpdate, LiveResponse

VARIABLE part   \* the part whose steps are taken

endpointsVars == <<part, agentsVars, updateVars, liveVars>>

EndpointsInit ==
  part \in {"registry", "update", "live"} /\ AgentsInit /\ UpdateInit /\ LiveInit

EndpointsNext ==
  \/ part = "registry" /\ AgentsNext /\ UNCHANGED <<part, updateVars, liveVars>>
  \/ part = "update" /\ UpdateNext /\ UNCHANGED <<part, agentsVars, liveVars>>
  \/ part = "live" /\ LiveNext /\ UNCHANGED <<part, agentsVars, updateVars>>

EndpointsSpec == EndpointsInit /\ [][EndpointsNext]_endpointsVars

\* Every variable of the three parts has its type.
EndpointsTypeOK == AgentsTypeOK /\ UpdateTypeOK /\ LiveTypeOK
=============================================================================
