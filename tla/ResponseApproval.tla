-------------------------- MODULE ResponseApproval ---------------------------
(***************************************************************************)
(* Response implements Approval.  A dry run is a rehearsal; a request's    *)
(* backers are the approvers on it, and its tries the calls of the engines *)
(* made for it.                                                            *)
(***************************************************************************)
EXTENDS Response

Need(tier) == CASE tier = "auto" -> 0 [] tier = "single" -> 1 [] OTHER -> 2

State(r) ==
  IF r.dryRun THEN "closed"
  ELSE CASE r.status = "pending" -> "open"
         [] r.status = "approved" -> "cleared"
         [] r.status \in {"executed", "failed"} -> "tried"
         [] OTHER -> "closed"

ItemOf(i) ==
  LET r == requests[i]
  IN [by |-> r.by,
      need |-> IF r.dryRun THEN 0 ELSE Need(r.tier),
      backers |-> IF r.dryRun THEN {}
                  ELSE {r.approvals[k].approver :
                          k \in {k \in DOMAIN r.approvals : r.approvals[k].decision = "approve"}},
      state |-> State(r),
      tries |-> Cardinality({k \in DOMAIN effects : effects[k].id = i})]

Promise == INSTANCE Approval
             WITH People <- Actor, items <- [i \in DOMAIN requests |-> ItemOf(i)]

\* The orchestrator, with its tiers, dry runs, ledger, expiry and executions
\* by id and in bulk, does nothing that Approval does not allow: every step of
\* every handler is a step of it or changes none of what it speaks of.
ImplementsApproval == Promise!Spec
=============================================================================
