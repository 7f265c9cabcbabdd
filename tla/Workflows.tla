------------------------------ MODULE Workflows ------------------------------
(***************************************************************************)
(* The two engines that wait for people: escalations and playbooks.  Both  *)
(* sit behind the AppState lock and share no state, so what one does never *)
(* depends on the other, and a behaviour calls one of them.                *)
(***************************************************************************)
EXTENDS Escalation, Playbook

VARIABLE calls   \* the engine that is called

workflowsVars == <<calls, escalationVars, playbookVars>>

WorkflowsInit == calls \in {"escalation", "playbook"} /\ EscalationInit /\ PlaybookInit

WorkflowsNext ==
  \/ calls = "escalation" /\ EscalationNext /\ UNCHANGED <<calls, playbookVars>>
  \/ calls = "playbook" /\ PlaybookNext /\ UNCHANGED <<calls, escalationVars>>

WorkflowsSpec ==
  /\ WorkflowsInit /\ [][WorkflowsNext]_workflowsVars
  /\ calls = "escalation" => Polled
  /\ calls = "playbook" => Approving

\* Every variable of both engines has its type.
WorkflowsTypeOK == EscalationTypeOK /\ PlaybookTypeOK
=============================================================================
