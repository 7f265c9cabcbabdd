------------------------------- MODULE Records -------------------------------
(***************************************************************************)
(* What the server keeps for its operators: the audit log, the event       *)
(* stream, change reviews and console sessions.  All sit behind the        *)
(* AppState lock and share no state, so a behaviour calls one of them.     *)
(***************************************************************************)
EXTENDS AuditChain, EventBus, ChangeReview, Sessions

VARIABLE store   \* the one that is called

recordsVars == <<store, auditVars, busVars, reviewVars, sessionVars>>

RecordsInit ==
  /\ store \in {"audit", "bus", "reviews", "sessions"}
  /\ AuditInit /\ BusInit /\ ReviewInit /\ SessionInit

RecordsNext ==
  \/ store = "audit" /\ AuditNext /\ UNCHANGED <<store, busVars, reviewVars, sessionVars>>
  \/ store = "bus" /\ BusNext /\ UNCHANGED <<store, auditVars, reviewVars, sessionVars>>
  \/ store = "reviews" /\ ReviewNext /\ UNCHANGED <<store, auditVars, busVars, sessionVars>>
  \/ store = "sessions" /\ SessionNext /\ UNCHANGED <<store, auditVars, busVars, reviewVars>>

RecordsSpec == RecordsInit /\ [][RecordsNext]_recordsVars
=============================================================================
