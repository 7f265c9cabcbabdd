---------------------------- MODULE MCEndpoints ------------------------------
(* TLC instance of Endpoints. *)
EXTENDS Endpoints, TLC

\* Version 2 is published last, for agents that do not take version 3.
BackPort == <<1, 3, 2>>

\* The agents that are enrolled are alike; the old one is not.
Alike == Permutations(AgentId \ Old)
=============================================================================
