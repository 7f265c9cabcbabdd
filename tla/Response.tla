------------------------------- MODULE Response -------------------------------
(***************************************************************************)
(* Response orchestration: ResponseOrchestrator (src/response.rs) as the   *)
(* API endpoints of src/server.rs and the first-run proof of               *)
(* src/server_support_helpers.rs call it.                                  *)
(*                                                                         *)
(* Each caller holds the AppState lock from its first call to its last, so *)
(* a handler is one atomic step.  A refused call (unknown id, request not  *)
(* pending, own request, second approval) changes nothing and is a guard.  *)
(* Request ids come from a process-wide counter and are never reused: the  *)
(* id of a request is its position in requests.                            *)
(*                                                                         *)
(* Of an action only the kind is kept, of a target only the hostname.      *)
(* Severity, reason, comments, blast radius and the texts derived from     *)
(* them steer nothing and are left out.                                    *)
(***************************************************************************)
EXTENDS Naturals, Sequences, FiniteSets, Ascending

CONSTANTS
  Action,         \* kinds of response action in use
  Host,           \* hostnames
  Actor,          \* authenticated actors
  DemoHost,       \* target of the first-run proof
  DemoApprover,   \* "first-run-proof-approver"
  DemoReviewer,   \* "first-run-proof-reviewer"
  Sla,            \* approval_sla_secs, in clock ticks
  MaxRequests,    \* bound: requests submitted
  MaxTime         \* bound: the clock stops

ActionKind == {"alert", "isolate", "throttle", "kill_process", "quarantine_file",
               "block_ip", "disable_account", "rollback_config", "custom"}

ASSUME ActionAssumption == Action \subseteq ActionKind
ASSUME DemoAssumption == DemoHost \in Host /\ DemoApprover # DemoReviewer
ASSUME BoundAssumption == Sla \in Nat /\ MaxRequests \in Nat /\ MaxTime \in Nat

VARIABLES
  requests,         \* requests, in the order of submission
  protectedAssets,  \* hostnames in protected_assets
  auditLedger,      \* audit_ledger: status and approvals of a request as they were,
                    \* and the result of the execution the entry is about, if any
  approvalLog,      \* entries of the server's ApprovalLog
  now,              \* the clock
  effects           \* history: calls of the enforcement engines, in order

vars == <<requests, protectedAssets, auditLedger, approvalLog, now, effects>>

-----------------------------------------------------------------------------
Approver == Actor \cup {DemoApprover, DemoReviewer}
Tier == {"auto", "single", "dual", "break_glass"}
Status == {"pending", "approved", "denied", "expired", "executed",
           "dry_run_completed", "failed"}
Decision == {"approve", "deny"}
ApprovalRecord == [approver : Approver, decision : Decision]
Request == [action : ActionKind, host : Host, by : Actor, dryRun : BOOLEAN,
            protected : BOOLEAN, tier : Tier, status : Status, approvals : Seq(ApprovalRecord), at : Nat]

\* Mutant: disabling an account is treated like blocking an address.
LaxTier(action, protected) ==
  CASE action = "alert" -> "auto"
    [] action = "throttle" -> IF protected THEN "single" ELSE "auto"
    [] action \in {"kill_process", "quarantine_file", "custom"} ->
         IF protected THEN "dual" ELSE "single"
    [] action \in {"isolate", "block_ip", "disable_account"} ->
         IF protected THEN "break_glass" ELSE "single"
    [] action = "rollback_config" -> "single"

\* determine_tier
DetermineTier(action, protected) ==
  CASE action = "alert" -> "auto"
    [] action = "throttle" -> IF protected THEN "single" ELSE "auto"
    [] action \in {"kill_process", "quarantine_file", "custom"} ->
         IF protected THEN "dual" ELSE "single"
    [] action \in {"isolate", "block_ip"} ->
         IF protected THEN "break_glass" ELSE "single"
    [] action = "disable_account" ->
         IF protected THEN "break_glass" ELSE "dual"
    [] action = "rollback_config" -> "single"

TierNow(action, host) == DetermineTier(action, host \in protectedAssets)

\* Whether enforce_action can report success: a signal may fail; isolation,
\* throttling and quarantine are noted down in the engines' tables, which
\* always succeeds; the last four kinds have no backend.
Outcomes(action) ==
  CASE action \in {"alert", "isolate", "throttle", "quarantine_file"} -> {TRUE}
    [] action = "kill_process" -> BOOLEAN
    [] OTHER -> {FALSE}

\* approve's required_approvals
RequiredApprovals(tier) == IF tier = "dual" THEN 2 ELSE 1

ApproveCount(records) == Cardinality({k \in DOMAIN records : records[k].decision = "approve"})
Enforced(status) == status \in {"executed", "failed"}
StatusAfter(ok) == IF ok THEN "executed" ELSE "failed"

Audit(id, r, execution) ==
  [id |-> id, status |-> r.status, approvals |-> r.approvals, execution |-> execution]
Execution(ok) == IF ok THEN "ok" ELSE "failed"

-----------------------------------------------------------------------------
\* ResponseOrchestrator::new
Init ==
  /\ requests = << >>
  /\ protectedAssets = {}
  /\ auditLedger = << >>
  /\ approvalLog = << >>
  /\ now = 0
  /\ effects = << >>

\* A request as the endpoint builds it and submit completes it.
NewRequest(action, host, by, dryRun) ==
  [action |-> action, host |-> host, by |-> by, dryRun |-> dryRun,
   protected |-> host \in protectedAssets, tier |-> TierNow(action, host),
   status |-> "pending", approvals |-> << >>, at |-> now]

\* register_protected_asset
RegisterProtectedAsset(host) ==
  /\ protectedAssets' = protectedAssets \cup {host}
  /\ UNCHANGED <<requests, auditLedger, approvalLog, now, effects>>

\* submit refuses a break-glass action unless it is a dry run.
SubmitAllowed(r) == r.tier # "break_glass" \/ r.dryRun

\* The auto tier of submit: enforced at once.
SubmitEnforced(r) ==
  /\ r.tier = "auto" /\ ~r.dryRun
  /\ \E ok \in Outcomes(r.action) :
       LET done == [r EXCEPT !.status = StatusAfter(ok)]
           id == Len(requests) + 1
       IN /\ requests' = Append(requests, done)
          /\ auditLedger' = Append(auditLedger, Audit(id, done, Execution(ok)))
          /\ effects' = Append(effects, [id |-> id, ok |-> ok])

\* The rest of submit: simulated, or queued for approval.
SubmitQueued(r) ==
  /\ r.tier # "auto" \/ r.dryRun
  /\ SubmitAllowed(r)
  /\ LET kept == [r EXCEPT !.status = IF r.tier = "auto" THEN "dry_run_completed"
                                                         ELSE "pending"]
     IN /\ requests' = Append(requests, kept)
        /\ auditLedger' = Append(auditLedger, Audit(Len(requests) + 1, kept, "none"))
  /\ UNCHANGED effects

\* POST /api/response/request; a hunt's response actions submit the same way.
Submit(action, host, by, dryRun) ==
  LET r == NewRequest(action, host, by, dryRun)
  IN /\ Len(requests) < MaxRequests
     /\ SubmitEnforced(r) \/ SubmitQueued(r)
     /\ UNCHANGED <<protectedAssets, approvalLog, now>>

\* Mutant: the requester counts as an approver.
MayApproveOwn(r, who) == \A k \in 1..Len(r.approvals) : r.approvals[k].approver # who

\* approve's tests of an Approve decision: not one's own request, not twice.
MayApprove(r, who) ==
  /\ who # r.by
  /\ \A k \in 1..Len(r.approvals) : r.approvals[k].approver # who

\* approve with an Approve decision by who.
ApprovedRequest(r, who) ==
  LET given == Append(r.approvals, [approver |-> who, decision |-> "approve"])
  IN [r EXCEPT !.approvals = given,
               !.status = IF ApproveCount(given) < RequiredApprovals(r.tier) THEN @
                          ELSE IF r.dryRun THEN "dry_run_completed" ELSE "approved"]

\* approve with a Deny decision, which anyone may give, the requester too.
DeniedRequest(r, who) ==
  [r EXCEPT !.status = "denied",
            !.approvals = Append(@, [approver |-> who, decision |-> "deny"])]

\* POST /api/response/approve: the orchestrator's approve, then the entry in
\* the server's approval log.
Decide(id, who, decision) ==
  LET r == requests[id]
      after == IF decision = "deny" THEN DeniedRequest(r, who) ELSE ApprovedRequest(r, who)
  IN /\ r.status = "pending"
     /\ decision = "deny" \/ MayApprove(r, who)
     /\ requests' = [requests EXCEPT ![id] = after]
     /\ auditLedger' = Append(auditLedger, Audit(id, after, "none"))
     /\ approvalLog' = Append(approvalLog, [id |-> id, approver |-> who, decision |-> decision])
     /\ UNCHANGED <<protectedAssets, now, effects>>

\* first_run_operator_proof: a dry-run isolation of the demo host, approved in
\* the same handler under a name that is not the requester's.  The approval
\* log is not written.
FirstRunProof(by) ==
  LET r == NewRequest("isolate", DemoHost, by, TRUE)
      id == Len(requests) + 1
      who == IF by = DemoApprover THEN DemoReviewer ELSE DemoApprover
      after == ApprovedRequest(r, who)
  IN /\ Len(requests) < MaxRequests
     /\ requests' = Append(requests, after)
     /\ auditLedger' = auditLedger \o <<Audit(id, r, "none"), Audit(id, after, "none")>>
     /\ UNCHANGED <<protectedAssets, approvalLog, now, effects>>

\* The pending requests that expire_stale(now) finds past the SLA.
Expirable ==
  {i \in DOMAIN requests : requests[i].status = "pending" /\ now - requests[i].at >= Sla}

Settled(S, status) ==
  [i \in DOMAIN requests |->
     IF i \in S THEN [requests[i] EXCEPT !.status = status[i]] ELSE requests[i]]

\* expire_stale(now).  No code of the server calls it.
ExpireStale ==
  LET ids == InOrder(Expirable)
      after == Settled(Expirable, [i \in Expirable |-> "expired"])
  IN /\ Expirable # {}
     /\ requests' = after
     /\ auditLedger' = auditLedger \o [k \in 1..Len(ids) |-> Audit(ids[k], after[ids[k]], "none")]
     /\ UNCHANGED <<protectedAssets, approvalLog, now, effects>>

\* Mutant: a request that was tried and failed is tried again.
RetriableIn(S) == {i \in S : requests[i].status \in {"approved", "failed"} /\ ~requests[i].dryRun}

\* The requests of S that execute_approved_matching enforces.
ExecutableIn(S) == {i \in S : requests[i].status = "approved" /\ ~requests[i].dryRun}

\* Mutant: the request is cloned for the ledger before its status is set.
ExecutionAuditBefore(id, after, ok) == Audit(id, requests[id], Execution(ok))

\* The ledger entry of an execution, written after the loop.
ExecutionAudit(id, after, ok) == Audit(id, after[id], Execution(ok))

\* POST /api/response/execute for the requests of S: all of them, or one id.
ExecuteApproved(S) ==
  LET E == ExecutableIn(S)
      ids == InOrder(E)
  IN /\ E # {}
     /\ \E ok \in [E -> BOOLEAN] :
          LET after == Settled(E, [i \in E |-> StatusAfter(ok[i])])
          IN /\ \A i \in E : ok[i] \in Outcomes(requests[i].action)
             /\ requests' = after
             /\ effects' = effects \o
                  [k \in 1..Len(ids) |-> [id |-> ids[k], ok |-> ok[ids[k]]]]
             /\ auditLedger' = auditLedger \o
                  [k \in 1..Len(ids) |-> ExecutionAudit(ids[k], after, ok[ids[k]])]
     /\ UNCHANGED <<protectedAssets, approvalLog, now>>

Tick ==
  /\ now < MaxTime
  /\ now' = now + 1
  /\ UNCHANGED <<requests, protectedAssets, auditLedger, approvalLog, effects>>

Next ==
  \/ \E h \in Host : RegisterProtectedAsset(h)
  \/ \E a \in Action, h \in Host, p \in Actor, d \in BOOLEAN : Submit(a, h, p, d)
  \/ \E i \in DOMAIN requests, p \in Actor, d \in Decision : Decide(i, p, d)
  \/ \E p \in Actor : FirstRunProof(p)
  \/ ExpireStale
  \/ ExecuteApproved(DOMAIN requests)
  \/ \E i \in DOMAIN requests : ExecuteApproved({i})
  \/ Tick

Spec == Init /\ [][Next]_vars

-----------------------------------------------------------------------------
(* Properties *)

\* The people other than the requester whose approval r holds.
Independent(r) ==
  {r.approvals[k].approver : k \in {k \in DOMAIN r.approvals : r.approvals[k].decision = "approve"}}
    \ {r.by}

TwoApproved(r) == \E p, q \in Independent(r) : p # q

DeniedBySomeone(r) == \E k \in DOMAIN r.approvals : r.approvals[k].decision = "deny"

Authorized(r) ==
  /\ ~r.dryRun
  /\ r.tier # "break_glass"
  /\ ~DeniedBySomeone(r)
  /\ r.tier = "single" => Independent(r) # {}
  /\ r.tier = "dual" => TwoApproved(r)

\* ApprovalInv for one request: approvals of different people, none of them
\* the requester's; no denial behind a request that is still alive; nothing
\* waits for approval that needs none or cannot be had that way; and what is
\* approved or was enforced is authorized.
ApprovalsSound(r) ==
  /\ \A k \in DOMAIN r.approvals :
        r.approvals[k].decision = "approve" =>
           /\ r.approvals[k].approver # r.by
           /\ \A m \in DOMAIN r.approvals :
                 r.approvals[m].decision = "approve" /\ m # k =>
                    r.approvals[m].approver # r.approvals[k].approver
  /\ r.status = "pending" =>
        /\ ~DeniedBySomeone(r)
        /\ r.tier # "auto"
        /\ r.tier = "break_glass" => r.dryRun
  /\ r.status \in {"approved", "executed", "failed"} => Authorized(r)

\* Whatever order submissions, decisions, expiries and executions come in, an
\* action that is cleared for the enforcement engines, or was handed to them,
\* had the approvals of its tier from as many different people, none of them
\* the requester, was denied by nobody, and was neither a dry run nor a
\* break-glass action; and a request that waits carries nothing that could
\* count as such later.  The checks of submit and approve leave this behind at
\* every stage of its life, where a Deny skips the duplicate and requester
\* tests.
ApprovalInv == \A i \in DOMAIN requests : ApprovalsSound(requests[i])

\* What the tiers are for: an action that was enforced had somebody else's
\* approval if it does more than alert or throttle, or if its target was
\* protected and it does more than alert; two people's if it disables an
\* account, or kills, quarantines or runs a custom action on a protected
\* asset; and a protected asset is never cut off.
ImpactControlled ==
  \A i \in DOMAIN requests :
     LET r == requests[i]
     IN Enforced(r.status) =>
          /\ r.action \notin {"alert", "throttle"} => Independent(r) # {}
          /\ r.protected /\ r.action # "alert" => Independent(r) # {}
          /\ r.action = "disable_account" => TwoApproved(r)
          /\ r.protected /\ r.action \in {"kill_process", "quarantine_file", "custom"} =>
                TwoApproved(r)
          /\ r.protected => r.action \notin {"isolate", "block_ip", "disable_account"}

LastEntryOf(i) ==
  auditLedger[CHOOSE k \in DOMAIN auditLedger :
                /\ auditLedger[k].id = i
                /\ \A m \in DOMAIN auditLedger : auditLedger[m].id = i => m <= k]

\* The ledger is the whole story: its executions are the calls of the engines
\* with their results, in order, and the last entry of a request has the
\* status and the approvals the request has, when handlers have ended: a
\* handler writes its entries under the lock it changes requests under.
LedgerTells ==
  /\ LET executions == InOrder({k \in DOMAIN auditLedger : auditLedger[k].execution # "none"})
     IN /\ Len(executions) = Len(effects)
        /\ \A k \in DOMAIN effects :
              /\ auditLedger[executions[k]].id = effects[k].id
              /\ auditLedger[executions[k]].execution = Execution(effects[k].ok)
  /\ \A i \in DOMAIN requests :
        /\ \E k \in DOMAIN auditLedger : auditLedger[k].id = i
        /\ LastEntryOf(i).status = requests[i].status
        /\ LastEntryOf(i).approvals = requests[i].approvals

=============================================================================
