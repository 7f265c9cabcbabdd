------------------------------ MODULE ResponseProofs --------------------------
(***************************************************************************)
(* Theorems about the response orchestrator, for any actors, hosts, action *)
(* kinds and number of requests: what reached the enforcement engines was  *)
(* authorized, and by whom; the audit ledger is the whole story; and       *)
(* Response implements Approval, every step of every handler being a step  *)
(* of Approval or changing none of what it speaks of.                      *)
(***************************************************************************)
EXTENDS ResponseApproval, AscendingProofs, SequenceTheorems

\* The types the argument needs.
RequestsOK ==
  /\ requests \in Seq(Request)
  /\ protectedAssets \subseteq Host
  /\ now \in Nat

\* A set with as many as two members has two different ones.
LEMMA TwoMembers ==
  ASSUME NEW S, IsFiniteSet(S), Cardinality(S) >= 2
  PROVE  \E x, y \in S : x # y
<1>1. Cardinality(S) # 0 /\ Cardinality(S) # 1
  BY FS_CardinalityType
<1>2. S # {}
  BY <1>1, FS_EmptySet
<1>3. PICK x \in S : TRUE
  BY <1>2
<1>4. S # {x}
  BY <1>1, FS_Singleton
<1> QED
  BY <1>3, <1>4

\* determine_tier yields a tier for every kind of action.
LEMMA TierType ==
  ASSUME NEW a \in ActionKind, NEW p \in BOOLEAN
  PROVE  DetermineTier(a, p) \in Tier
BY DEF DetermineTier, ActionKind, Tier

\* The indexes of the Approve records are finitely many, so their count is a
\* number.
LEMMA CountType ==
  ASSUME NEW s \in Seq(ApprovalRecord)
  PROVE  LET K == {k \in DOMAIN s : s[k].decision = "approve"}
         IN IsFiniteSet(K) /\ ApproveCount(s) = Cardinality(K) /\ Cardinality(K) \in Nat
<1> DEFINE K == {k \in DOMAIN s : s[k].decision = "approve"}
<1>1. IsFiniteSet(1..Len(s))
  BY FS_Interval
<1>2. K \subseteq 1..Len(s)
  OBVIOUS
<1>3. IsFiniteSet(K)
  BY <1>1, <1>2, FS_Subset
<1> QED
  BY <1>3, FS_CardinalityType DEF ApproveCount

\* An Approve decision that passes approve's tests leaves a sound request
\* sound, whether it completes the approvals of the tier or not.
LEMMA ApprovalKeepsSound ==
  ASSUME NEW r \in Request, NEW who \in Approver, now \in Nat,
         r.status = "pending", ApprovalsSound(r), MayApprove(r, who)
  PROVE  /\ ApprovedRequest(r, who) \in Request
         /\ ApprovalsSound(ApprovedRequest(r, who))
<1> DEFINE rec == [approver |-> who, decision |-> "approve"]
           given == Append(r.approvals, rec)
           K == {k \in DOMAIN given : given[k].decision = "approve"}
           q == ApprovedRequest(r, who)
<1>1. rec \in ApprovalRecord /\ r.approvals \in Seq(ApprovalRecord) /\ given \in Seq(ApprovalRecord)
  BY DEF ApprovalRecord, Decision, Request
<1>2. /\ q \in Request
      /\ q.approvals = given /\ q.by = r.by /\ q.dryRun = r.dryRun /\ q.tier = r.tier
      /\ q.status \in {"pending", "approved", "dry_run_completed"}
      /\ q.status = "approved" =>
            ~r.dryRun /\ ~(ApproveCount(given) < RequiredApprovals(r.tier))
  BY <1>1 DEF ApprovedRequest, Request, Status
<1>3. /\ DOMAIN given = 1..(Len(r.approvals) + 1)
      /\ DOMAIN r.approvals = 1..Len(r.approvals)
      /\ \A k \in 1..Len(r.approvals) : given[k] = r.approvals[k]
      /\ given[Len(r.approvals) + 1] = rec
      /\ Len(r.approvals) \in Nat
  BY <1>1
<1>4. \A k \in 1..Len(r.approvals) :
        /\ r.approvals[k].approver # who
        /\ r.approvals[k].decision = "approve"
  <2> TAKE k \in 1..Len(r.approvals)
  <2>1. r.approvals[k].approver # who
    BY DEF MayApprove
  <2>2. r.approvals[k] \in ApprovalRecord
    BY <1>1, <1>3
  <2>3. r.approvals[k].decision # "deny"
    BY <1>3 DEF ApprovalsSound, DeniedBySomeone
  <2> QED
    BY <2>1, <2>2, <2>3 DEF ApprovalRecord, Decision
<1>5. \A k \in DOMAIN given :
        /\ given[k].decision = "approve"
        /\ given[k].approver # r.by
        /\ \A m \in DOMAIN given : m # k => given[m].approver # given[k].approver
  <2> TAKE k \in DOMAIN given
  <2>1. CASE k = Len(r.approvals) + 1
    <3>1. given[k] = rec /\ who # r.by
      BY <2>1, <1>3 DEF MayApprove
    <3>2. ASSUME NEW m \in DOMAIN given, m # k PROVE given[m].approver # who
      <4>1. m \in 1..Len(r.approvals)
        BY <3>2, <2>1, <1>3
      <4> QED
        BY <4>1, <1>3, <1>4
    <3> QED
      BY <3>1, <3>2
  <2>2. CASE k \in 1..Len(r.approvals)
    <3>1. given[k] = r.approvals[k] /\ r.approvals[k].decision = "approve"
      BY <2>2, <1>3, <1>4
    <3>2. r.approvals[k].approver # r.by
      BY <3>1, <2>2, <1>3 DEF ApprovalsSound
    <3>3. ASSUME NEW m \in DOMAIN given, m # k
          PROVE  given[m].approver # r.approvals[k].approver
      <4>1. CASE m = Len(r.approvals) + 1
        BY <4>1, <2>2, <1>3, <1>4
      <4>2. CASE m \in 1..Len(r.approvals)
        BY <4>2, <3>1, <3>3, <2>2, <1>3, <1>4 DEF ApprovalsSound
      <4> QED
        BY <4>1, <4>2, <3>3, <1>3
    <3> QED
      BY <3>1, <3>2, <3>3
  <2> QED
    BY <2>1, <2>2, <1>3
<1>6. ~DeniedBySomeone(q)
  BY <1>2, <1>5 DEF DeniedBySomeone
<1>7. IsFiniteSet(K) /\ ApproveCount(given) = Cardinality(K) /\ Cardinality(K) \in Nat
  BY <1>1, CountType
<1> HIDE DEF given, K, q
<1>8. \A k \in K : given[k].approver \in Independent(q)
  BY <1>2, <1>5 DEF Independent, K
<1>9. ASSUME q.status = "approved" PROVE Authorized(q)
  <2>1. ~q.dryRun /\ q.tier # "break_glass"
    BY <1>9, <1>2 DEF ApprovalsSound
  <2>2. ASSUME q.tier = "single" PROVE Independent(q) # {}
    <3>1. ~(Cardinality(K) < 1)
      BY <2>2, <1>9, <1>2, <1>7 DEF RequiredApprovals
    <3>2. K # {}
      BY <3>1, <1>7, FS_EmptySet
    <3> QED
      BY <3>2, <1>8
  <2>3. ASSUME q.tier = "dual" PROVE TwoApproved(q)
    <3>1. Cardinality(K) >= 2
      BY <2>3, <1>9, <1>2, <1>7 DEF RequiredApprovals
    <3>2. PICK k, m \in K : k # m
      BY <3>1, <1>7, TwoMembers
    <3>3. given[k].approver # given[m].approver
      BY <3>2, <1>5 DEF K
    <3> QED
      BY <3>3, <1>8 DEF TwoApproved
  <2> QED
    BY <2>1, <2>2, <2>3, <1>6 DEF Authorized
<1>10. q.status = "pending" => q.tier # "auto" /\ (q.tier = "break_glass" => q.dryRun)
  BY <1>2 DEF ApprovalsSound
<1>11. ApprovalsSound(q)
  BY <1>2, <1>5, <1>6, <1>9, <1>10 DEF ApprovalsSound
<1> QED
  BY <1>2, <1>11 DEF q

\* A Deny decision closes a request and claims nothing for it.
LEMMA DenialKeepsSound ==
  ASSUME NEW r \in Request, NEW who \in Approver, now \in Nat,
         r.status = "pending", ApprovalsSound(r)
  PROVE  /\ DeniedRequest(r, who) \in Request
         /\ ApprovalsSound(DeniedRequest(r, who))
<1> DEFINE rec == [approver |-> who, decision |-> "deny"]
           given == Append(r.approvals, rec)
           q == DeniedRequest(r, who)
<1>1. rec \in ApprovalRecord /\ r.approvals \in Seq(ApprovalRecord) /\ given \in Seq(ApprovalRecord)
  BY DEF ApprovalRecord, Decision, Request
<1>2. q \in Request /\ q.approvals = given /\ q.by = r.by /\ q.status = "denied"
  BY <1>1 DEF DeniedRequest, Request, Status
<1>3. \A k \in DOMAIN given :
        given[k].decision = "approve" => k \in DOMAIN r.approvals /\ given[k] = r.approvals[k]
  BY <1>1
<1> HIDE DEF given, q
<1>4. ApprovalsSound(q)
  BY <1>2, <1>3 DEF ApprovalsSound
<1> QED
  BY <1>2, <1>4 DEF q

\* What submit starts from: a pending request without approvals.
LEMMA NewRequestType ==
  ASSUME RequestsOK, NEW a \in ActionKind, NEW h \in Host, NEW p \in Actor, NEW d \in BOOLEAN
  PROVE  LET r == NewRequest(a, h, p, d)
         IN /\ r \in Request
            /\ r.approvals = << >> /\ r.status = "pending" /\ r.dryRun = d /\ r.action = a
            /\ r.tier = DetermineTier(a, h \in protectedAssets)
<1>1. TierNow(a, h) \in Tier
  <2> DEFINE prot == h \in protectedAssets
  <2>1. prot \in BOOLEAN
    OBVIOUS
  <2>2. TierNow(a, h) = DetermineTier(a, prot)
    BY DEF TierNow
  <2> HIDE DEF prot
  <2> QED
    BY <2>1, <2>2, TierType
<1>2. << >> \in Seq(ApprovalRecord)
  OBVIOUS
<1> QED
  BY <1>1, <1>2 DEF NewRequest, Request, Status, RequestsOK, TierNow

\* A request that was never decided on is sound if it is not kept waiting
\* against its tier, and may only have been enforced in the auto tier.
LEMMA UndecidedSound ==
  ASSUME NEW r \in Request, r.approvals = << >>,
         r.status = "pending" => r.tier # "auto" /\ (r.tier = "break_glass" => r.dryRun),
         r.status \in {"approved", "executed", "failed"} => r.tier = "auto" /\ ~r.dryRun
  PROVE  ApprovalsSound(r)
BY DEF ApprovalsSound, DeniedBySomeone, Authorized

\* Adding a sound request, or replacing one by a sound one, keeps all sound.
LEMMA AppendSound ==
  ASSUME RequestsOK, ApprovalInv, NEW q \in Request, ApprovalsSound(q),
         requests' = Append(requests, q)
  PROVE  requests' \in Seq(Request) /\ ApprovalInv'
<1>1. requests \in Seq(Request)
  BY DEF RequestsOK
<1>2. requests' \in Seq(Request) /\ Len(requests') = Len(requests) + 1
  BY <1>1
<1>3. ASSUME NEW i \in DOMAIN requests' PROVE ApprovalsSound(requests'[i])
  <2>1. CASE i = Len(requests) + 1
    BY <2>1, <1>1
  <2>2. CASE i \in DOMAIN requests
    <3>1. requests'[i] = requests[i]
      BY <2>2, <1>1
    <3> QED
      BY <3>1, <2>2 DEF ApprovalInv
  <2> QED
    BY <2>1, <2>2, <1>1, <1>2, <1>3
<1> QED
  BY <1>2, <1>3 DEF ApprovalInv

\* A step that replaces the statuses of some requests keeps the others.
LEMMA SettledSound ==
  ASSUME RequestsOK, ApprovalInv, NEW S, NEW status,
         \A i \in DOMAIN requests \cap S :
            LET q == [requests[i] EXCEPT !.status = status[i]]
            IN q \in Request /\ ApprovalsSound(q),
         requests' = Settled(S, status)
  PROVE  requests' \in Seq(Request) /\ ApprovalInv'
<1>1. requests \in Seq(Request)
  BY DEF RequestsOK
<1>2. DOMAIN requests' = DOMAIN requests
  BY DEF Settled
<1>3. ASSUME NEW i \in DOMAIN requests
      PROVE  requests'[i] \in Request /\ ApprovalsSound(requests'[i])
  <2>1. CASE i \in S
    BY <2>1, <1>3 DEF Settled
  <2>2. CASE i \notin S
    BY <2>2, <1>1, <1>3 DEF Settled, ApprovalInv
  <2> QED
    BY <2>1, <2>2
<1>4. requests' \in Seq(Request)
  <2>1. DOMAIN requests = 1..Len(requests) /\ Len(requests) \in Nat
    BY <1>1
  <2>2. requests' \in [1..Len(requests) -> Request]
    BY <2>1, <1>2, <1>3 DEF Settled
  <2> QED
    BY <2>1, <2>2
<1> QED
  BY <1>2, <1>3, <1>4 DEF ApprovalInv

\* Every operation of the orchestrator preserves the invariant.
LEMMA ApprovalStep ==
  ASSUME RequestsOK, ApprovalInv, [Next]_vars
  PROVE  RequestsOK' /\ ApprovalInv'
<1>1. requests \in Seq(Request) /\ protectedAssets \subseteq Host /\ now \in Nat
  BY DEF RequestsOK
<1>2. ASSUME NEW h \in Host, RegisterProtectedAsset(h) PROVE RequestsOK' /\ ApprovalInv'
  BY <1>1, <1>2 DEF RegisterProtectedAsset, RequestsOK, ApprovalInv
<1>3. ASSUME NEW a \in Action, NEW h \in Host, NEW p \in Actor, NEW d \in BOOLEAN,
             Submit(a, h, p, d)
      PROVE  RequestsOK' /\ ApprovalInv'
  <2> DEFINE r == NewRequest(a, h, p, d)
  <2>1. r \in Request /\ r.approvals = << >> /\ r.status = "pending"
    BY NewRequestType, ActionAssumption
  <2>2. UNCHANGED <<protectedAssets, now>>
    BY <1>3 DEF Submit
  <2> HIDE DEF r
  <2>3. CASE SubmitEnforced(r)
    <3>1. PICK ok \in Outcomes(r.action) :
            requests' = Append(requests, [r EXCEPT !.status = StatusAfter(ok)])
      BY <2>3 DEF SubmitEnforced
    <3> DEFINE q == [r EXCEPT !.status = StatusAfter(ok)]
    <3>2. /\ q \in Request /\ q.approvals = << >> /\ q.status \in {"executed", "failed"}
          /\ q.tier = "auto" /\ ~q.dryRun
      BY <2>1, <2>3 DEF SubmitEnforced, Request, Status, StatusAfter
    <3> HIDE DEF q
    <3>3. ApprovalsSound(q)
      BY <3>2, UndecidedSound
    <3> QED
      BY <3>1, <3>2, <3>3, <2>2, <1>1, AppendSound DEF RequestsOK, q
  <2>4. CASE SubmitQueued(r)
    <3> DEFINE q == [r EXCEPT !.status = IF r.tier = "auto" THEN "dry_run_completed"
                                                            ELSE "pending"]
    <3>1. requests' = Append(requests, q)
      BY <2>4 DEF SubmitQueued
    <3>2. /\ q \in Request /\ q.approvals = << >> /\ q.tier = r.tier /\ q.dryRun = r.dryRun
          /\ q.status = IF r.tier = "auto" THEN "dry_run_completed" ELSE "pending"
      BY <2>1 DEF Request, Status
    <3>3. r.tier # "break_glass" \/ r.dryRun
      BY <2>4 DEF SubmitQueued, SubmitAllowed
    <3> HIDE DEF q
    <3>4. ApprovalsSound(q)
      BY <3>2, <3>3, UndecidedSound
    <3> QED
      BY <3>1, <3>2, <3>4, <2>2, <1>1, AppendSound DEF RequestsOK
  <2> QED
    BY <1>3, <2>3, <2>4 DEF Submit, r
<1>4. ASSUME NEW i \in DOMAIN requests, NEW p \in Actor, NEW d \in Decision, Decide(i, p, d)
      PROVE  RequestsOK' /\ ApprovalInv'
  <2> DEFINE r == requests[i]
             q == IF d = "deny" THEN DeniedRequest(r, p) ELSE ApprovedRequest(r, p)
  <2>1. /\ r.status = "pending" /\ requests' = [requests EXCEPT ![i] = q]
        /\ d = "deny" \/ MayApprove(r, p)
        /\ UNCHANGED <<protectedAssets, now>>
    BY <1>4 DEF Decide
  <2>2. r \in Request /\ ApprovalsSound(r) /\ p \in Approver
    BY <1>1 DEF ApprovalInv, Approver
  <2>3. q \in Request /\ ApprovalsSound(q)
    BY <2>1, <2>2, <1>1, ApprovalKeepsSound, DenialKeepsSound
  <2> HIDE DEF q
  <2>4. requests' \in Seq(Request) /\ DOMAIN requests' = DOMAIN requests
    BY <2>1, <2>3, <1>1
  <2>5. \A j \in DOMAIN requests : requests'[j] = IF j = i THEN q ELSE requests[j]
    BY <2>1, <1>1
  <2> QED
    BY <2>1, <2>3, <2>4, <2>5, <1>1 DEF RequestsOK, ApprovalInv
<1>5. ASSUME NEW p \in Actor, FirstRunProof(p) PROVE RequestsOK' /\ ApprovalInv'
  <2> DEFINE r == NewRequest("isolate", DemoHost, p, TRUE)
             who == IF p = DemoApprover THEN DemoReviewer ELSE DemoApprover
  <2>1. /\ r \in Request /\ r.approvals = << >> /\ r.status = "pending" /\ r.dryRun = TRUE
        /\ r.tier = DetermineTier("isolate", DemoHost \in protectedAssets)
        /\ r.by = p
    <3>1. "isolate" \in ActionKind /\ DemoHost \in Host /\ TRUE \in BOOLEAN
      BY DemoAssumption DEF ActionKind
    <3>2. r.by = p
      BY DEF NewRequest
    <3> QED
      BY <3>1, <3>2, NewRequestType
  <2>2. r.tier # "auto"
    BY <2>1 DEF DetermineTier
  <2>3. who \in Approver /\ who # p
    BY DemoAssumption DEF Approver
  <2>4. /\ requests' = Append(requests, ApprovedRequest(r, who))
        /\ UNCHANGED <<protectedAssets, now>>
    BY <1>5 DEF FirstRunProof
  <2> HIDE DEF r, who
  <2>5. ApprovalsSound(r)
    BY <2>1, <2>2, UndecidedSound
  <2>6. MayApprove(r, who)
    BY <2>1, <2>3 DEF MayApprove
  <2>7. ApprovedRequest(r, who) \in Request /\ ApprovalsSound(ApprovedRequest(r, who))
    BY <2>1, <2>3, <2>5, <2>6, <1>1, ApprovalKeepsSound
  <2> QED
    BY <2>4, <2>7, <1>1, AppendSound DEF RequestsOK
<1>6. ASSUME ExpireStale PROVE RequestsOK' /\ ApprovalInv'
  <2> DEFINE status == [i \in Expirable |-> "expired"]
  <2>1. requests' = Settled(Expirable, status) /\ UNCHANGED <<protectedAssets, now>>
    BY <1>6 DEF ExpireStale
  <2>2. ASSUME NEW i \in DOMAIN requests, i \in Expirable
        PROVE  LET q == [requests[i] EXCEPT !.status = status[i]]
               IN q \in Request /\ ApprovalsSound(q)
    <3> DEFINE q == [requests[i] EXCEPT !.status = status[i]]
    <3>1. requests[i] \in Request /\ ApprovalsSound(requests[i])
      BY <1>1 DEF ApprovalInv
    <3>2. q \in Request /\ q.status = "expired" /\ q.by = requests[i].by
             /\ q.approvals = requests[i].approvals
      BY <3>1, <2>2 DEF Request, Status
    <3> HIDE DEF q
    <3>3. ApprovalsSound(q)
      BY <3>1, <3>2 DEF ApprovalsSound
    <3> QED
      BY <3>2, <3>3 DEF q
  <2> HIDE DEF status
  <2> QED
    BY <2>1, <2>2, <1>1, SettledSound DEF RequestsOK
<1>7. ASSUME NEW S \in SUBSET DOMAIN requests, ExecuteApproved(S) PROVE RequestsOK' /\ ApprovalInv'
  <2> DEFINE E == ExecutableIn(S)
  <2>1. PICK ok \in [E -> BOOLEAN] : requests' = Settled(E, [i \in E |-> StatusAfter(ok[i])])
    BY <1>7 DEF ExecuteApproved
  <2> DEFINE status == [i \in E |-> StatusAfter(ok[i])]
  <2>2. UNCHANGED <<protectedAssets, now>>
    BY <1>7 DEF ExecuteApproved
  <2>3. ASSUME NEW i \in DOMAIN requests, i \in E
        PROVE  LET q == [requests[i] EXCEPT !.status = status[i]]
               IN q \in Request /\ ApprovalsSound(q)
    <3> DEFINE q == [requests[i] EXCEPT !.status = status[i]]
    <3>1. requests[i] \in Request /\ ApprovalsSound(requests[i]) /\ requests[i].status = "approved"
      BY <1>1, <2>3 DEF ApprovalInv, ExecutableIn
    <3>2. status[i] \in {"executed", "failed"}
      BY <2>3 DEF StatusAfter
    <3> HIDE DEF status
    <3>3. /\ q \in Request /\ q.status = status[i] /\ q.by = requests[i].by
          /\ q.tier = requests[i].tier /\ q.dryRun = requests[i].dryRun
          /\ q.approvals = requests[i].approvals
      BY <3>1, <3>2 DEF Request, Status
    <3> HIDE DEF q
    <3>4. Authorized(q)
      BY <3>1, <3>3 DEF ApprovalsSound, Authorized, DeniedBySomeone, Independent, TwoApproved
    <3>5. ApprovalsSound(q)
      BY <3>1, <3>2, <3>3, <3>4 DEF ApprovalsSound
    <3> QED
      BY <3>3, <3>5 DEF q
  <2>4. requests' = Settled(E, status)
    BY <2>1
  <2> HIDE DEF E, status
  <2> QED
    BY <2>2, <2>3, <2>4, <1>1, SettledSound DEF RequestsOK
<1>8. ASSUME Tick PROVE RequestsOK' /\ ApprovalInv'
  BY <1>1, <1>8 DEF Tick, RequestsOK, ApprovalInv
<1>9. ASSUME UNCHANGED vars PROVE RequestsOK' /\ ApprovalInv'
  BY <1>1, <1>9 DEF vars, RequestsOK, ApprovalInv
<1> QED
  BY <1>2, <1>3, <1>4, <1>5, <1>6, <1>7, <1>8, <1>9 DEF Next

\* The checks of submit and approve establish, and every operation keeps,
\* ApprovalInv: no action is ever carried out, or cleared to be, without the
\* approvals of its tier from different people other than the requester, after a
\* denial, as a dry run, or past the break-glass barrier of submit; for any
\* actors, hosts, SLA and number of requests.
THEOREM ApprovalsInvariant == Spec => []ApprovalInv
<1>1. Init => RequestsOK /\ ApprovalInv
  BY DEF Init, RequestsOK, ApprovalInv
<1>2. RequestsOK /\ ApprovalInv /\ [Next]_vars => (RequestsOK /\ ApprovalInv)'
  BY ApprovalStep
<1> QED
  BY <1>1, <1>2, PTL DEF Spec

-----------------------------------------------------------------------------
(* What the tiers are for. *)

\* The tier of a request is the one of its action and of the protection its
\* target had at submission.
TiersKept ==
  \A i \in DOMAIN requests :
     requests[i].tier = DetermineTier(requests[i].action, requests[i].protected)

\* What no decision, expiry or execution changes in a request.
SameAsk(q, r) ==
  /\ q.action = r.action /\ q.host = r.host /\ q.by = r.by /\ q.dryRun = r.dryRun
  /\ q.protected = r.protected /\ q.tier = r.tier /\ q.at = r.at

\* A decision on a request changes its status and its approvals only.
LEMMA DecisionKeepsAsk ==
  ASSUME NEW r \in Request, NEW who
  PROVE  SameAsk(ApprovedRequest(r, who), r) /\ SameAsk(DeniedRequest(r, who), r)
BY DEF SameAsk, ApprovedRequest, DeniedRequest, Request

\* So does a change of some statuses.
LEMMA SettledKeepsAsk ==
  ASSUME RequestsOK, NEW S, NEW status, NEW i \in DOMAIN requests
  PROVE  DOMAIN Settled(S, status) = DOMAIN requests /\ SameAsk(Settled(S, status)[i], requests[i])
<1>1. requests[i] \in Request
  BY DEF RequestsOK
<1>2. DOMAIN Settled(S, status) = DOMAIN requests
  BY DEF Settled
<1>3. Settled(S, status)[i] =
        IF i \in S THEN [requests[i] EXCEPT !.status = status[i]] ELSE requests[i]
  BY DEF Settled
<1> QED
  BY <1>1, <1>2, <1>3 DEF SameAsk, Request

\* Appending a request with the right tier, and changing requests without
\* changing what they ask for, keep TiersKept.
LEMMA TiersAppend ==
  ASSUME RequestsOK, TiersKept, NEW q, requests' = Append(requests, q),
         q.tier = DetermineTier(q.action, q.protected)
  PROVE  TiersKept'
<1>1. requests \in Seq(Request)
  BY DEF RequestsOK
<1>2. DOMAIN requests' = DOMAIN requests \cup {Len(requests) + 1}
  BY <1>1
<1>3. requests'[Len(requests) + 1] = q /\ \A i \in DOMAIN requests : requests'[i] = requests[i]
  BY <1>1
<1> QED
  BY <1>2, <1>3 DEF TiersKept

LEMMA TiersSame ==
  ASSUME TiersKept, DOMAIN requests' = DOMAIN requests,
         \A i \in DOMAIN requests : SameAsk(requests'[i], requests[i])
  PROVE  TiersKept'
BY DEF TiersKept, SameAsk

\* The request submit builds has the tier of what it asks for.
LEMMA NewRequestTier ==
  ASSUME RequestsOK, NEW a \in ActionKind, NEW h \in Host, NEW p \in Actor, NEW d \in BOOLEAN
  PROVE  LET r == NewRequest(a, h, p, d) IN r.tier = DetermineTier(r.action, r.protected)
BY DEF NewRequest, TierNow

\* No operation changes the tier of a request, or what it was computed from.
LEMMA TiersStep ==
  ASSUME RequestsOK, TiersKept, [Next]_vars
  PROVE  TiersKept'
<1>1. requests \in Seq(Request)
  BY DEF RequestsOK
<1>2. ASSUME NEW a \in Action, NEW h \in Host, NEW p \in Actor, NEW d \in BOOLEAN,
             Submit(a, h, p, d)
      PROVE  TiersKept'
  <2> DEFINE r == NewRequest(a, h, p, d)
  <2>1. r \in Request /\ r.tier = DetermineTier(r.action, r.protected)
    BY NewRequestType, NewRequestTier, ActionAssumption
  <2> HIDE DEF r
  <2>2. PICK status : requests' = Append(requests, [r EXCEPT !.status = status])
    BY <1>2 DEF Submit, SubmitEnforced, SubmitQueued, r
  <2> DEFINE q == [r EXCEPT !.status = status]
  <2>3. q.tier = r.tier /\ q.action = r.action /\ q.protected = r.protected
    BY <2>1 DEF Request
  <2> QED
    BY <2>1, <2>2, <2>3, TiersAppend
<1>3. ASSUME NEW i \in DOMAIN requests, NEW p \in Actor, NEW d \in Decision, Decide(i, p, d)
      PROVE  TiersKept'
  <2> DEFINE q == IF d = "deny" THEN DeniedRequest(requests[i], p)
                                ELSE ApprovedRequest(requests[i], p)
  <2>1. requests' = [requests EXCEPT ![i] = q]
    BY <1>3 DEF Decide
  <2>2. \A j \in DOMAIN requests : requests[j] \in Request /\ SameAsk(requests[j], requests[j])
    BY <1>1 DEF SameAsk
  <2>3. SameAsk(q, requests[i])
    BY <2>2, DecisionKeepsAsk
  <2> HIDE DEF q
  <2>4. \A j \in DOMAIN requests : requests'[j] = IF j = i THEN q ELSE requests[j]
    BY <2>1
  <2>5. \A j \in DOMAIN requests : SameAsk(requests'[j], requests[j])
    BY <2>2, <2>3, <2>4
  <2> QED
    BY <2>1, <2>5, TiersSame
<1>4. ASSUME NEW p \in Actor, FirstRunProof(p) PROVE TiersKept'
  <2> DEFINE r == NewRequest("isolate", DemoHost, p, TRUE)
             who == IF p = DemoApprover THEN DemoReviewer ELSE DemoApprover
  <2>1. "isolate" \in ActionKind /\ DemoHost \in Host /\ TRUE \in BOOLEAN
    BY DemoAssumption DEF ActionKind
  <2>2. r \in Request /\ r.tier = DetermineTier(r.action, r.protected)
    BY <2>1, NewRequestType, NewRequestTier
  <2>3. requests' = Append(requests, ApprovedRequest(r, who))
    BY <1>4 DEF FirstRunProof
  <2> HIDE DEF r, who
  <2>4. SameAsk(ApprovedRequest(r, who), r)
    BY <2>2, DecisionKeepsAsk
  <2> QED
    BY <2>2, <2>3, <2>4, TiersAppend DEF SameAsk
<1>5. ASSUME NEW S, NEW status, requests' = Settled(S, status) PROVE TiersKept'
  <2>1. DOMAIN requests' = DOMAIN requests
    BY <1>5 DEF Settled
  <2>2. \A i \in DOMAIN requests : SameAsk(requests'[i], requests[i])
    BY <1>5, SettledKeepsAsk
  <2> QED
    BY <2>1, <2>2, TiersSame
<1>6. ASSUME ExpireStale PROVE TiersKept'
  BY <1>5, <1>6 DEF ExpireStale
<1>7. ASSUME NEW S, ExecuteApproved(S) PROVE TiersKept'
  BY <1>5, <1>7 DEF ExecuteApproved
<1>8. ASSUME UNCHANGED requests PROVE TiersKept'
  BY <1>8 DEF TiersKept
<1> QED
  BY <1>2, <1>3, <1>4, <1>6, <1>7, <1>8 DEF Next, vars, RegisterProtectedAsset, Tick

\* Two people's approval is somebody's.
LEMMA TwoIsSome ==
  ASSUME NEW r, TwoApproved(r)
  PROVE  Independent(r) # {}
BY DEF TwoApproved

\* Whatever was enforced had, for its impact, enough people behind it: one
\* other than the requester for anything but alerts and throttling and for
\* anything that touches a protected asset, two for the worst; and no
\* protected asset is cut off.
THEOREM ImpactNeedsPeople == Spec => []ImpactControlled
<1>1. RequestsOK /\ TiersKept /\ ApprovalInv => ImpactControlled
  <2> SUFFICES ASSUME RequestsOK, TiersKept, ApprovalInv,
                      NEW i \in DOMAIN requests, Enforced(requests[i].status)
               PROVE  LET r == requests[i]
                      IN /\ r.action \notin {"alert", "throttle"} => Independent(r) # {}
                         /\ r.protected /\ r.action # "alert" => Independent(r) # {}
                         /\ r.action = "disable_account" => TwoApproved(r)
                         /\ r.protected /\ r.action \in {"kill_process", "quarantine_file", "custom"} =>
                               TwoApproved(r)
                         /\ r.protected => r.action \notin {"isolate", "block_ip", "disable_account"}
    BY DEF ImpactControlled
  <2> DEFINE r == requests[i]
  <2>1. r.action \in ActionKind /\ r.protected \in BOOLEAN
    <3>1. r \in Request
      BY DEF RequestsOK
    <3> HIDE DEF r
    <3> QED
      BY <3>1 DEF Request
  <2>2. r.tier = DetermineTier(r.action, r.protected)
    BY DEF TiersKept
  <2>3. Authorized(r)
    BY DEF ApprovalInv, ApprovalsSound, Enforced
  <2> HIDE DEF r
  <2>4. /\ r.tier # "break_glass"
        /\ r.tier = "single" => Independent(r) # {}
        /\ r.tier = "dual" => TwoApproved(r) /\ Independent(r) # {}
    BY <2>3, TwoIsSome DEF Authorized
  <2> QED
    BY <2>1, <2>2, <2>4 DEF DetermineTier, ActionKind, r
<1>2. Init => RequestsOK /\ TiersKept
  BY DEF Init, RequestsOK, TiersKept
<1>3. Init => ApprovalInv
  BY DEF Init, ApprovalInv
<1>4. RequestsOK /\ ApprovalInv /\ TiersKept /\ [Next]_vars => (RequestsOK /\ ApprovalInv /\ TiersKept)'
  BY ApprovalStep, TiersStep
<1> QED
  BY <1>1, <1>2, <1>3, <1>4, PTL DEF Spec

-----------------------------------------------------------------------------
(* The audit ledger. *)

Effect == [id : Nat, ok : BOOLEAN]
LedgerEntry == [id : Nat, status : Status, approvals : Seq(ApprovalRecord),
                execution : {"none", "ok", "failed"}]

\* Entry k of ledger l is the last one about request i, which is r.
TellsOf(l, k, i, r) ==
  /\ l[k].id = i /\ l[k].status = r.status /\ l[k].approvals = r.approvals
  /\ \A m \in DOMAIN l : l[m].id = i => m <= k

\* The entries e lists are the ledger's executions, and tell the calls of the
\* engines one by one.
Paired(e) ==
  /\ e \in [1..Len(effects) -> DOMAIN auditLedger]
  /\ \A j, k \in 1..Len(effects) : j < k => e[j] < e[k]
  /\ \A j \in 1..Len(effects) :
        /\ auditLedger[e[j]].id = effects[j].id
        /\ auditLedger[e[j]].execution = Execution(effects[j].ok)
  /\ \A k \in DOMAIN auditLedger :
        auditLedger[k].execution # "none" => \E j \in 1..Len(effects) : e[j] = k

\* LedgerTells, with the executions listed by some e.
LedgerInv ==
  /\ auditLedger \in Seq(LedgerEntry) /\ effects \in Seq(Effect)
  /\ \E e : Paired(e)
  /\ \A i \in DOMAIN requests :
        \E k \in DOMAIN auditLedger : TellsOf(auditLedger, k, i, requests[i])

\* The positions of two sequences in their concatenation.
LEMMA Concatenated ==
  ASSUME NEW S, NEW s \in Seq(S), NEW t \in Seq(S)
  PROVE  /\ s \o t \in Seq(S) /\ Len(s \o t) = Len(s) + Len(t)
         /\ DOMAIN (s \o t) = 1..(Len(s) + Len(t))
         /\ \A k \in DOMAIN s : k \in DOMAIN (s \o t) /\ (s \o t)[k] = s[k]
         /\ \A j \in DOMAIN t : /\ Len(s) + j \in DOMAIN (s \o t) \ DOMAIN s
                                /\ (s \o t)[Len(s) + j] = t[j]
         /\ \A k \in DOMAIN (s \o t) : k \in DOMAIN s \/ \E j \in DOMAIN t : k = Len(s) + j
<1>1. Len(s) \in Nat /\ Len(t) \in Nat /\ DOMAIN s = 1..Len(s) /\ DOMAIN t = 1..Len(t)
  OBVIOUS
<1>2. s \o t \in Seq(S) /\ Len(s \o t) = Len(s) + Len(t)
  OBVIOUS
<1>3. DOMAIN (s \o t) = 1..(Len(s) + Len(t))
  BY <1>2
<1>4. \A k \in DOMAIN s : k \in DOMAIN (s \o t) /\ (s \o t)[k] = s[k]
  BY <1>1, <1>3
<1>5. ASSUME NEW j \in DOMAIN t
      PROVE  Len(s) + j \in DOMAIN (s \o t) \ DOMAIN s /\ (s \o t)[Len(s) + j] = t[j]
  BY <1>1, <1>3
<1>6. ASSUME NEW k \in DOMAIN (s \o t), k \notin DOMAIN s
      PROVE  \E j \in DOMAIN t : k = Len(s) + j
  <2>1. k - Len(s) \in DOMAIN t /\ k = Len(s) + (k - Len(s))
    BY <1>1, <1>3, <1>6
  <2> QED
    BY <2>1
<1> QED
  BY <1>2, <1>3, <1>4, <1>5, <1>6

\* The ledger grows by X and the calls of the engines by Y.  Either nothing was
\* enforced, or X tells Y; and what happened to a request is told last in X.
LedgerGrowth(X, Y) ==
  /\ X \in Seq(LedgerEntry) /\ Y \in Seq(Effect)
  /\ auditLedger' = auditLedger \o X /\ effects' = effects \o Y
  /\ \/ Len(Y) = 0 /\ \A k \in DOMAIN X : X[k].execution = "none"
     \/ Len(X) = Len(Y) /\ \A k \in DOMAIN X :
           X[k].id = Y[k].id /\ X[k].execution = Execution(Y[k].ok)
  /\ \A i \in DOMAIN requests' :
        \/ \E k \in DOMAIN X : TellsOf(X, k, i, requests'[i])
        \/ /\ i \in DOMAIN requests
           /\ requests'[i].status = requests[i].status
           /\ requests'[i].approvals = requests[i].approvals
           /\ \A k \in DOMAIN X : X[k].id # i

\* The pairing goes on.
LEMMA PairedOn ==
  ASSUME auditLedger \in Seq(LedgerEntry), effects \in Seq(Effect), NEW e, Paired(e),
         NEW X, NEW Y, LedgerGrowth(X, Y)
  PROVE  \E d : Paired(d)'
<1> DEFINE l == auditLedger
           n == Len(effects)
           E == effects
<1>1. X \in Seq(LedgerEntry) /\ Y \in Seq(Effect) /\ l' = l \o X /\ E' = E \o Y
  BY DEF LedgerGrowth
<1>2. /\ n \in Nat /\ Len(l) \in Nat /\ Len(X) \in Nat /\ Len(Y) \in Nat
      /\ DOMAIN l = 1..Len(l) /\ DOMAIN X = 1..Len(X) /\ DOMAIN Y = 1..Len(Y) /\ DOMAIN E = 1..n
  BY <1>1
<1>3. /\ DOMAIN l' = 1..(Len(l) + Len(X))
      /\ \A k \in DOMAIN l : k \in DOMAIN l' /\ l'[k] = l[k]
      /\ \A j \in DOMAIN X : Len(l) + j \in DOMAIN l' \ DOMAIN l /\ l'[Len(l) + j] = X[j]
      /\ \A k \in DOMAIN l' : k \in DOMAIN l \/ \E j \in DOMAIN X : k = Len(l) + j
  BY <1>1, Concatenated
<1>4. /\ Len(E') = n + Len(Y)
      /\ \A k \in DOMAIN E : E'[k] = E[k]
      /\ \A j \in DOMAIN Y : n + j \in DOMAIN E' \ DOMAIN E /\ E'[n + j] = Y[j]
  BY <1>1, Concatenated
<1>5. /\ e \in [1..n -> DOMAIN l]
      /\ \A j, k \in 1..n : j < k => e[j] < e[k]
      /\ \A j \in 1..n : l[e[j]].id = E[j].id /\ l[e[j]].execution = Execution(E[j].ok)
      /\ \A k \in DOMAIN l : l[k].execution # "none" => \E j \in 1..n : e[j] = k
  BY DEF Paired
<1>6. CASE Len(Y) = 0 /\ \A k \in DOMAIN X : X[k].execution = "none"
  <2>1. Len(E') = n
    BY <1>2, <1>4, <1>6
  <2>2. e \in [1..n -> DOMAIN l']
    BY <1>3, <1>5
  <2>3. \A j \in 1..n : l'[e[j]].id = E'[j].id /\ l'[e[j]].execution = Execution(E'[j].ok)
    BY <1>2, <1>3, <1>4, <1>5
  <2>4. \A k \in DOMAIN l' : l'[k].execution # "none" => \E j \in 1..n : e[j] = k
    BY <1>3, <1>5, <1>6
  <2> QED
    BY <1>5, <2>1, <2>2, <2>3, <2>4 DEF Paired
<1>7. CASE Len(X) = Len(Y) /\ \A k \in DOMAIN X :
             X[k].id = Y[k].id /\ X[k].execution = Execution(Y[k].ok)
  <2> DEFINE m == Len(Y)
             d == [j \in 1..(n + m) |-> IF j <= n THEN e[j] ELSE Len(l) + (j - n)]
  <2>1. \A j \in 1..n : j \in 1..(n + m) /\ d[j] = e[j] /\ e[j] \in DOMAIN l
    BY <1>2, <1>5
  <2>2. \A j \in DOMAIN Y : n + j \in 1..(n + m) /\ d[n + j] = Len(l) + j
    BY <1>2
  <2>3. \A j \in 1..(n + m) : j \in 1..n \/ \E i \in DOMAIN Y : j = n + i
    <3> SUFFICES ASSUME NEW j \in 1..(n + m), j \notin 1..n PROVE \E i \in DOMAIN Y : j = n + i
      OBVIOUS
    <3>1. j - n \in DOMAIN Y /\ j = n + (j - n)
      BY <1>2
    <3> QED
      BY <3>1
  <2>4. DOMAIN d = 1..(n + m) /\ d = [j \in 1..(n + m) |-> d[j]]
    OBVIOUS
  <2> HIDE DEF d, m
  <2>5. d \in [1..(n + m) -> DOMAIN l']
    <3>1. \A j \in 1..(n + m) : d[j] \in DOMAIN l'
      BY <1>2, <1>3, <1>7, <2>1, <2>2, <2>3
    <3> QED
      BY <2>4, <3>1
  <2>6. \A j, k \in 1..(n + m) : j < k => d[j] < d[k]
    <3> SUFFICES ASSUME NEW j \in 1..(n + m), NEW k \in 1..(n + m), j < k PROVE d[j] < d[k]
      OBVIOUS
    <3>1. CASE k \in 1..n
      <4>1. j \in 1..n
        BY <1>2, <3>1 DEF m
      <4> QED
        BY <1>5, <2>1, <3>1, <4>1
    <3>2. ASSUME NEW i \in DOMAIN Y, k = n + i PROVE d[j] < d[k]
      <4>1. d[k] = Len(l) + i /\ i \in Nat /\ i >= 1
        BY <1>2, <2>2, <3>2
      <4>2. CASE j \in 1..n
        <5>1. d[j] \in 1..Len(l)
          BY <1>2, <2>1, <4>2
        <5> QED
          BY <1>2, <4>1, <5>1
      <4>3. ASSUME NEW g \in DOMAIN Y, j = n + g PROVE d[j] < d[k]
        <5>1. d[j] = Len(l) + g /\ g < i
          BY <1>2, <2>2, <3>2, <4>3
        <5> QED
          BY <1>2, <4>1, <5>1
      <4> QED
        BY <2>3, <4>2, <4>3
    <3> QED
      BY <2>3, <3>1, <3>2
  <2>7. \A j \in 1..(n + m) : l'[d[j]].id = E'[j].id /\ l'[d[j]].execution = Execution(E'[j].ok)
    <3>1. \A j \in 1..n : l'[d[j]].id = E'[j].id /\ l'[d[j]].execution = Execution(E'[j].ok)
      BY <1>2, <1>3, <1>4, <1>5, <2>1
    <3>2. \A j \in DOMAIN Y : /\ l'[d[n + j]].id = E'[n + j].id
                              /\ l'[d[n + j]].execution = Execution(E'[n + j].ok)
      BY <1>2, <1>3, <1>4, <1>7, <2>2
    <3> QED
      BY <2>3, <3>1, <3>2
  <2>8. \A k \in DOMAIN l' : l'[k].execution # "none" => \E j \in 1..(n + m) : d[j] = k
    <3>1. \A k \in DOMAIN l : l'[k].execution # "none" => \E j \in 1..(n + m) : d[j] = k
      BY <1>3, <1>5, <2>1
    <3>2. \A i \in DOMAIN X : \E j \in 1..(n + m) : d[j] = Len(l) + i
      BY <1>2, <1>7, <2>2
    <3> QED
      BY <1>3, <3>1, <3>2
  <2>9. Len(E') = n + m
    BY <1>4 DEF m
  <2> QED
    BY <2>5, <2>6, <2>7, <2>8, <2>9 DEF Paired
<1> QED
  BY <1>6, <1>7 DEF LedgerGrowth

\* The last entry of every request goes on telling it.
LEMMA ToldOn ==
  ASSUME LedgerInv, NEW X, NEW Y, LedgerGrowth(X, Y)
  PROVE  LedgerInv'
<1> DEFINE l == auditLedger
<1>1. /\ X \in Seq(LedgerEntry) /\ Y \in Seq(Effect)
      /\ l' = l \o X /\ effects' = effects \o Y
      /\ l \in Seq(LedgerEntry) /\ effects \in Seq(Effect)
  BY DEF LedgerGrowth, LedgerInv
<1>2. l' \in Seq(LedgerEntry) /\ effects' \in Seq(Effect)
  BY <1>1
<1>3. \E e : Paired(e)'
  BY <1>1, PairedOn DEF LedgerInv
<1>4. /\ \A k \in DOMAIN l : k \in DOMAIN l' /\ l'[k] = l[k]
      /\ \A j \in DOMAIN X : Len(l) + j \in DOMAIN l' \ DOMAIN l /\ l'[Len(l) + j] = X[j]
      /\ \A k \in DOMAIN l' : k \in DOMAIN l \/ \E j \in DOMAIN X : k = Len(l) + j
  BY <1>1, Concatenated
<1>5. Len(l) \in Nat /\ DOMAIN l = 1..Len(l) /\ DOMAIN X = 1..Len(X) /\ Len(X) \in Nat
  BY <1>1
<1>6. ASSUME NEW i \in DOMAIN requests'
      PROVE  \E k \in DOMAIN l' : TellsOf(l', k, i, requests'[i])
  <2>1. CASE \E k \in DOMAIN X : TellsOf(X, k, i, requests'[i])
    <3>1. PICK k \in DOMAIN X : TellsOf(X, k, i, requests'[i])
      BY <2>1
    <3>2. \A m \in DOMAIN l' : l'[m].id = i => m <= Len(l) + k
      <4>1. \A m \in DOMAIN l : m <= Len(l) + k
        BY <1>5
      <4>2. \A j \in DOMAIN X : l'[Len(l) + j].id = i => Len(l) + j <= Len(l) + k
        BY <1>4, <1>5, <3>1 DEF TellsOf
      <4> QED
        BY <1>4, <4>1, <4>2
    <3>3. TellsOf(l', Len(l) + k, i, requests'[i])
      BY <1>4, <3>1, <3>2 DEF TellsOf
    <3> QED
      BY <1>4, <3>3
  <2>2. CASE /\ i \in DOMAIN requests
             /\ requests'[i].status = requests[i].status
             /\ requests'[i].approvals = requests[i].approvals
             /\ \A k \in DOMAIN X : X[k].id # i
    <3>1. PICK k \in DOMAIN l : TellsOf(l, k, i, requests[i])
      BY <2>2 DEF LedgerInv
    <3>2. TellsOf(l', k, i, requests'[i])
      BY <1>4, <2>2, <3>1 DEF TellsOf
    <3> QED
      BY <1>4, <3>2
  <2> QED
    BY <1>6, <2>1, <2>2 DEF LedgerGrowth
<1> QED
  BY <1>2, <1>3, <1>6 DEF LedgerInv

\* A step without a trace in the ledger.
LEMMA LedgerQuiet ==
  ASSUME LedgerInv, UNCHANGED <<requests, auditLedger, effects>>
  PROVE  LedgerInv'
<1>1. PICK e : Paired(e)
  BY DEF LedgerInv
<1>2. Paired(e)'
  BY <1>1 DEF Paired
<1>3. \A i \in DOMAIN requests' :
         \E k \in DOMAIN auditLedger' : TellsOf(auditLedger, k, i, requests[i])'
  BY DEF LedgerInv, TellsOf
<1> QED
  BY <1>2, <1>3 DEF LedgerInv

\* The entry Audit writes about a request.
LEMMA AuditType ==
  ASSUME NEW id \in Nat, NEW r \in Request, NEW x \in {"none", "ok", "failed"}
  PROVE  /\ Audit(id, r, x) \in LedgerEntry /\ Audit(id, r, x).id = id
         /\ Audit(id, r, x).status = r.status /\ Audit(id, r, x).approvals = r.approvals
         /\ Audit(id, r, x).execution = x
BY DEF Audit, LedgerEntry, Request

\* One entry about one request, which is added or changed.
LEMMA OneTold ==
  ASSUME LedgerInv, NEW i \in Nat, NEW r \in Request, NEW x \in {"none", "ok", "failed"},
         auditLedger' = Append(auditLedger, Audit(i, r, x)),
         i \in DOMAIN requests' => requests'[i] = r,
         \A j \in DOMAIN requests' : j # i => j \in DOMAIN requests /\ requests'[j] = requests[j],
         \/ x = "none" /\ UNCHANGED effects
         \/ \E ok \in BOOLEAN :
               x = Execution(ok) /\ effects' = Append(effects, [id |-> i, ok |-> ok])
  PROVE  LedgerInv'
<1> DEFINE a == Audit(i, r, x)
           X == <<a>>
<1>1. /\ a \in LedgerEntry /\ a.id = i /\ a.status = r.status /\ a.approvals = r.approvals
      /\ a.execution = x
  BY AuditType
<1>2. auditLedger \in Seq(LedgerEntry) /\ effects \in Seq(Effect)
  BY DEF LedgerInv
<1>3. auditLedger' = Append(auditLedger, a)
  OBVIOUS
<1> HIDE DEF a
<1>4. /\ X \in Seq(LedgerEntry) /\ Len(X) = 1 /\ DOMAIN X = {1} /\ X[1] = a
      /\ auditLedger' = auditLedger \o X
  BY <1>1, <1>2, <1>3
<1> HIDE DEF X
<1>5. \A j \in DOMAIN requests' :
         \/ \E k \in DOMAIN X : TellsOf(X, k, j, requests'[j])
         \/ /\ j \in DOMAIN requests
            /\ requests'[j].status = requests[j].status
            /\ requests'[j].approvals = requests[j].approvals
            /\ \A k \in DOMAIN X : X[k].id # j
  <2> SUFFICES ASSUME NEW j \in DOMAIN requests'
               PROVE  \/ TellsOf(X, 1, j, requests'[j])
                      \/ /\ j \in DOMAIN requests
                         /\ requests'[j].status = requests[j].status
                         /\ requests'[j].approvals = requests[j].approvals
                         /\ \A k \in DOMAIN X : X[k].id # j
    BY <1>4
  <2>1. CASE j = i
    BY <1>1, <1>4, <2>1 DEF TellsOf
  <2>2. CASE j # i
    BY <1>1, <1>4, <2>2
  <2> QED
    BY <2>1, <2>2
<1>6. CASE x = "none" /\ UNCHANGED effects
  <2>1. << >> \in Seq(Effect) /\ Len(<< >>) = 0 /\ effects' = effects \o << >>
    BY <1>2, <1>6
  <2>2. \A k \in DOMAIN X : X[k].execution = "none"
    BY <1>1, <1>4, <1>6
  <2>3. LedgerGrowth(X, << >>)
    BY <1>4, <1>5, <2>1, <2>2 DEF LedgerGrowth
  <2> QED
    BY <2>3, ToldOn
<1>7. ASSUME NEW ok \in BOOLEAN, x = Execution(ok),
             effects' = Append(effects, [id |-> i, ok |-> ok])
      PROVE  LedgerInv'
  <2> DEFINE e == [id |-> i, ok |-> ok]
             Y == <<e>>
  <2>1. e \in Effect /\ e.id = i /\ e.ok = ok /\ effects' = Append(effects, e)
    BY <1>7 DEF Effect
  <2> HIDE DEF e
  <2>2. Y \in Seq(Effect) /\ Len(Y) = 1 /\ Y[1] = e /\ effects' = effects \o Y
    BY <1>2, <2>1
  <2> HIDE DEF Y
  <2>3. \A k \in DOMAIN X : X[k].id = Y[k].id /\ X[k].execution = Execution(Y[k].ok)
    BY <1>1, <1>4, <1>7, <2>1, <2>2
  <2>4. LedgerGrowth(X, Y)
    BY <1>4, <1>5, <2>2, <2>3 DEF LedgerGrowth
  <2> QED
    BY <2>4, ToldOn
<1> QED
  BY <1>6, <1>7

\* An entry about each of the requests a step changes, in their order.
LEMMA ManyTold ==
  ASSUME RequestsOK, RequestsOK', LedgerInv, NEW E \in SUBSET DOMAIN requests,
         NEW status, requests' = Settled(E, status),
         NEW x \in [E -> {"none", "ok", "failed"}],
         auditLedger' = auditLedger \o
            [k \in 1..Len(InOrder(E)) |-> Audit(InOrder(E)[k], requests'[InOrder(E)[k]], x[InOrder(E)[k]])],
         \/ UNCHANGED effects /\ \A i \in E : x[i] = "none"
         \/ \E ok \in [E -> BOOLEAN] :
               /\ \A i \in E : x[i] = Execution(ok[i])
               /\ effects' = effects \o
                     [k \in 1..Len(InOrder(E)) |-> [id |-> InOrder(E)[k], ok |-> ok[InOrder(E)[k]]]]
  PROVE  LedgerInv'
<1> DEFINE ids == InOrder(E)
           n == Len(ids)
           X == [k \in 1..n |-> Audit(ids[k], requests'[ids[k]], x[ids[k]])]
<1>1. /\ requests \in Seq(Request) /\ requests' \in Seq(Request)
      /\ DOMAIN requests' = DOMAIN requests
      /\ \A i \in DOMAIN requests : i \notin E => requests'[i] = requests[i]
  BY DEF RequestsOK, Settled
<1>2. E \in SUBSET Nat /\ IsFiniteSet(E)
  <2>1. DOMAIN requests = 1..Len(requests) /\ Len(requests) \in Nat
    BY <1>1
  <2>2. IsFiniteSet(1..Len(requests))
    BY <2>1, FS_Interval
  <2> QED
    BY <2>1, <2>2, FS_Subset
<1>3. /\ n \in Nat /\ ids \in [1..n -> E]
      /\ \A j, k \in 1..n : ids[j] = ids[k] => j = k
      /\ \A i \in E : \E k \in 1..n : ids[k] = i
  <2>1. Cardinality(E) \in Nat /\ ids \in [1..Cardinality(E) -> E]
    BY <1>2, InOrderFacts
  <2>2. n = Cardinality(E)
    BY <2>1
  <2> QED
    BY <1>2, <2>1, <2>2, InOrderFacts
<1>4. /\ auditLedger' = auditLedger \o X
      /\ \/ UNCHANGED effects /\ \A i \in E : x[i] = "none"
         \/ \E ok \in [E -> BOOLEAN] :
               /\ \A i \in E : x[i] = Execution(ok[i])
               /\ effects' = effects \o [k \in 1..n |-> [id |-> ids[k], ok |-> ok[ids[k]]]]
  OBVIOUS
<1>5. auditLedger \in Seq(LedgerEntry) /\ effects \in Seq(Effect)
  BY DEF LedgerInv
<1> HIDE DEF ids, n
<1>6. \A k \in 1..n : ids[k] \in E /\ ids[k] \in Nat /\ requests'[ids[k]] \in Request
                      /\ x[ids[k]] \in {"none", "ok", "failed"}
  BY <1>1, <1>2, <1>3
<1>7. /\ DOMAIN X = 1..n
      /\ \A k \in 1..n : /\ X[k] \in LedgerEntry /\ X[k].id = ids[k]
                         /\ X[k].status = requests'[ids[k]].status
                         /\ X[k].approvals = requests'[ids[k]].approvals
                         /\ X[k].execution = x[ids[k]]
  <2> SUFFICES ASSUME NEW k \in 1..n
               PROVE  /\ X[k] \in LedgerEntry /\ X[k].id = ids[k]
                      /\ X[k].status = requests'[ids[k]].status
                      /\ X[k].approvals = requests'[ids[k]].approvals
                      /\ X[k].execution = x[ids[k]]
    OBVIOUS
  <2>1. X[k] = Audit(ids[k], requests'[ids[k]], x[ids[k]])
    OBVIOUS
  <2> HIDE DEF X
  <2> QED
    BY <1>6, <2>1, AuditType
<1>8. X \in Seq(LedgerEntry) /\ Len(X) = n
  <2>1. X \in [1..n -> LedgerEntry]
    BY <1>7
  <2> QED
    BY <1>3, <2>1
<1> HIDE DEF X
<1>9. \A j \in DOMAIN requests' :
         \/ \E k \in DOMAIN X : TellsOf(X, k, j, requests'[j])
         \/ /\ j \in DOMAIN requests
            /\ requests'[j].status = requests[j].status
            /\ requests'[j].approvals = requests[j].approvals
            /\ \A k \in DOMAIN X : X[k].id # j
  <2> SUFFICES ASSUME NEW j \in DOMAIN requests'
               PROVE  \/ \E k \in DOMAIN X : TellsOf(X, k, j, requests'[j])
                      \/ /\ j \in DOMAIN requests
                         /\ requests'[j].status = requests[j].status
                         /\ requests'[j].approvals = requests[j].approvals
                         /\ \A k \in DOMAIN X : X[k].id # j
    OBVIOUS
  <2>1. CASE j \in E
    <3>1. PICK k \in 1..n : ids[k] = j
      BY <1>3, <2>1
    <3>2. \A m \in 1..n : X[m].id = j => m = k
      BY <1>3, <1>7, <3>1
    <3>3. k <= k
      BY <1>3
    <3>4. TellsOf(X, k, j, requests'[j])
      BY <1>7, <3>1, <3>2, <3>3 DEF TellsOf
    <3> QED
      BY <1>7, <3>4
  <2>2. CASE j \notin E
    <3>1. \A k \in DOMAIN X : X[k].id # j
      BY <1>6, <1>7, <2>2
    <3>2. j \in DOMAIN requests /\ requests'[j] = requests[j]
      BY <1>1, <2>2
    <3> QED
      BY <3>1, <3>2
  <2> QED
    BY <2>1, <2>2
<1>10. CASE UNCHANGED effects /\ \A i \in E : x[i] = "none"
  <2>1. << >> \in Seq(Effect) /\ Len(<< >>) = 0 /\ effects' = effects \o << >>
    BY <1>5, <1>10
  <2>2. \A k \in DOMAIN X : X[k].execution = "none"
    BY <1>6, <1>7, <1>10
  <2>3. LedgerGrowth(X, << >>)
    BY <1>4, <1>8, <1>9, <2>1, <2>2 DEF LedgerGrowth
  <2> QED
    BY <2>3, ToldOn
<1>11. ASSUME NEW ok \in [E -> BOOLEAN], \A i \in E : x[i] = Execution(ok[i]),
              effects' = effects \o [k \in 1..n |-> [id |-> ids[k], ok |-> ok[ids[k]]]]
       PROVE  LedgerInv'
  <2> DEFINE Y == [k \in 1..n |-> [id |-> ids[k], ok |-> ok[ids[k]]]]
  <2>1. \A k \in 1..n : Y[k] \in Effect /\ Y[k].id = ids[k] /\ Y[k].ok = ok[ids[k]]
    BY <1>6 DEF Effect
  <2>2. effects' = effects \o Y
    BY <1>11
  <2>3. Y \in Seq(Effect) /\ Len(Y) = n
    <3>1. Y \in [1..n -> Effect]
      BY <2>1
    <3> QED
      BY <1>3, <3>1
  <2> HIDE DEF Y
  <2>4. \A k \in DOMAIN X : X[k].id = Y[k].id /\ X[k].execution = Execution(Y[k].ok)
    BY <1>6, <1>7, <1>11, <2>1
  <2>5. LedgerGrowth(X, Y)
    BY <1>4, <1>8, <1>9, <2>2, <2>3, <2>4 DEF LedgerGrowth
  <2> QED
    BY <2>5, ToldOn
<1> QED
  BY <1>4, <1>10, <1>11

\* The listing of some positions of requests has those positions only.
LEMMA PositionsIn ==
  ASSUME requests \in Seq(Request), NEW E \in SUBSET DOMAIN requests
  PROVE  \A k \in 1..Len(InOrder(E)) : InOrder(E)[k] \in E
<1>1. DOMAIN requests = 1..Len(requests) /\ Len(requests) \in Nat
  OBVIOUS
<1>2. E \in SUBSET Nat /\ IsFiniteSet(E)
  <2>1. IsFiniteSet(1..Len(requests))
    BY <1>1, FS_Interval
  <2> QED
    BY <1>1, <2>1, FS_Subset
<1>3. Cardinality(E) \in Nat /\ InOrder(E) \in [1..Cardinality(E) -> E]
  BY <1>2, InOrderFacts
<1> QED
  BY <1>3

\* What Execution says is one of the words of the ledger.
LEMMA ExecutionWord == \A ok \in BOOLEAN : Execution(ok) \in {"ok", "failed"}
BY DEF Execution

\* Every operation tells in the ledger what it did.
LEMMA LedgerStep ==
  ASSUME RequestsOK, ApprovalInv, LedgerInv, [Next]_vars
  PROVE  LedgerInv'
<1>1. requests \in Seq(Request) /\ protectedAssets \subseteq Host /\ now \in Nat
  BY DEF RequestsOK
<1>2. RequestsOK'
  BY ApprovalStep
<1>3. /\ Len(requests) \in Nat /\ DOMAIN requests = 1..Len(requests)
      /\ Len(requests) + 1 \in Nat /\ Len(requests) + 1 \notin DOMAIN requests
  BY <1>1
<1>4. ASSUME NEW q, requests' = Append(requests, q)
      PROVE  /\ requests'[Len(requests) + 1] = q
             /\ \A j \in DOMAIN requests' : j # Len(requests) + 1 =>
                   j \in DOMAIN requests /\ requests'[j] = requests[j]
  BY <1>1, <1>3, <1>4
<1>5. ASSUME NEW a \in Action, NEW h \in Host, NEW p \in Actor, NEW d \in BOOLEAN,
             Submit(a, h, p, d)
      PROVE  LedgerInv'
  <2> DEFINE r == NewRequest(a, h, p, d)
             n == Len(requests) + 1
  <2>1. r \in Request
    BY NewRequestType, ActionAssumption
  <2> HIDE DEF r
  <2>2. CASE SubmitEnforced(r)
    <3>1. PICK ok \in Outcomes(r.action) :
             /\ requests' = Append(requests, [r EXCEPT !.status = StatusAfter(ok)])
             /\ auditLedger' = Append(auditLedger,
                   Audit(n, [r EXCEPT !.status = StatusAfter(ok)], Execution(ok)))
             /\ effects' = Append(effects, [id |-> n, ok |-> ok])
      BY <2>2 DEF SubmitEnforced
    <3> DEFINE q == [r EXCEPT !.status = StatusAfter(ok)]
    <3>2. ok \in BOOLEAN
      BY <3>1 DEF Outcomes
    <3>3. q \in Request
      BY <2>1 DEF Request, Status, StatusAfter
    <3>4. Execution(ok) \in {"none", "ok", "failed"}
      BY <3>2, ExecutionWord
    <3>5. requests' = Append(requests, q) /\ auditLedger' = Append(auditLedger, Audit(n, q, Execution(ok)))
      BY <3>1
    <3> HIDE DEF q
    <3>6. /\ n \in Nat
          /\ n \in DOMAIN requests' => requests'[n] = q
          /\ \A j \in DOMAIN requests' : j # n => j \in DOMAIN requests /\ requests'[j] = requests[j]
      BY <1>3, <1>4, <3>5
    <3>7. \E w \in BOOLEAN :
             Execution(ok) = Execution(w) /\ effects' = Append(effects, [id |-> n, ok |-> w])
      BY <3>1, <3>2
    <3> DEFINE x == Execution(ok)
    <3>8. /\ x \in {"none", "ok", "failed"} /\ auditLedger' = Append(auditLedger, Audit(n, q, x))
          /\ \E w \in BOOLEAN : x = Execution(w) /\ effects' = Append(effects, [id |-> n, ok |-> w])
      BY <3>4, <3>5, <3>7
    <3> HIDE DEF n, x
    <3> QED
      BY <3>3, <3>6, <3>8, OneTold
  <2>3. CASE SubmitQueued(r)
    <3> DEFINE q == [r EXCEPT !.status = IF r.tier = "auto" THEN "dry_run_completed"
                                                            ELSE "pending"]
    <3>1. /\ requests' = Append(requests, q) /\ auditLedger' = Append(auditLedger, Audit(n, q, "none"))
          /\ UNCHANGED effects
      BY <2>3 DEF SubmitQueued
    <3>2. q \in Request
      BY <2>1 DEF Request, Status
    <3> HIDE DEF q
    <3>3. /\ n \in Nat
          /\ n \in DOMAIN requests' => requests'[n] = q
          /\ \A j \in DOMAIN requests' : j # n => j \in DOMAIN requests /\ requests'[j] = requests[j]
      BY <1>3, <1>4, <3>1
    <3> HIDE DEF n
    <3> QED
      BY <3>1, <3>2, <3>3, OneTold
  <2> QED
    BY <1>5, <2>2, <2>3 DEF Submit, r
<1>6. ASSUME NEW i \in DOMAIN requests, NEW p \in Actor, NEW d \in Decision, Decide(i, p, d)
      PROVE  LedgerInv'
  <2> DEFINE r == requests[i]
             q == IF d = "deny" THEN DeniedRequest(r, p) ELSE ApprovedRequest(r, p)
  <2>1. /\ r.status = "pending" /\ requests' = [requests EXCEPT ![i] = q]
        /\ d = "deny" \/ MayApprove(r, p)
        /\ auditLedger' = Append(auditLedger, Audit(i, q, "none")) /\ UNCHANGED effects
    BY <1>6 DEF Decide
  <2>2. r \in Request /\ ApprovalsSound(r) /\ p \in Approver
    BY <1>1 DEF ApprovalInv, Approver
  <2>3. q \in Request
    BY <1>1, <2>1, <2>2, ApprovalKeepsSound, DenialKeepsSound
  <2> HIDE DEF q
  <2>4. /\ i \in Nat /\ DOMAIN requests' = DOMAIN requests
        /\ \A j \in DOMAIN requests : requests'[j] = IF j = i THEN q ELSE requests[j]
    BY <1>3, <2>1
  <2> QED
    BY <2>1, <2>3, <2>4, OneTold
<1>7. ASSUME NEW p \in Actor, FirstRunProof(p) PROVE LedgerInv'
  <2> DEFINE r == NewRequest("isolate", DemoHost, p, TRUE)
             who == IF p = DemoApprover THEN DemoReviewer ELSE DemoApprover
             q == ApprovedRequest(r, who)
             n == Len(requests) + 1
             a == Audit(n, r, "none")
             b == Audit(n, q, "none")
             X == <<a, b>>
  <2>1. /\ r \in Request /\ r.approvals = << >> /\ r.status = "pending"
        /\ r.tier = DetermineTier("isolate", DemoHost \in protectedAssets) /\ r.by = p
    <3>1. "isolate" \in ActionKind /\ DemoHost \in Host /\ TRUE \in BOOLEAN
      BY DemoAssumption DEF ActionKind
    <3>2. r.by = p
      BY DEF NewRequest
    <3> QED
      BY <3>1, <3>2, NewRequestType
  <2>2. who \in Approver /\ who # p
    BY DemoAssumption DEF Approver
  <2>3. /\ requests' = Append(requests, q) /\ auditLedger' = auditLedger \o X /\ UNCHANGED effects
    BY <1>7 DEF FirstRunProof
  <2> HIDE DEF r, who
  <2>4. ApprovalsSound(r) /\ MayApprove(r, who)
    <3>1. r.tier # "auto"
      BY <2>1 DEF DetermineTier
    <3>2. r.dryRun
      BY DEF NewRequest, r
    <3> QED
      BY <2>1, <2>2, <3>1, <3>2, UndecidedSound DEF MayApprove
  <2>5. q \in Request
    BY <1>1, <2>1, <2>2, <2>4, ApprovalKeepsSound
  <2> HIDE DEF q
  <2>6. n \in Nat
    BY <1>3
  <2>7. /\ a \in LedgerEntry /\ a.id = n /\ a.execution = "none"
        /\ b \in LedgerEntry /\ b.id = n /\ b.execution = "none"
        /\ b.status = q.status /\ b.approvals = q.approvals
    BY <2>1, <2>5, <2>6, AuditType
  <2>8. /\ requests'[n] = q
        /\ \A j \in DOMAIN requests' : j # n => j \in DOMAIN requests /\ requests'[j] = requests[j]
    BY <1>4, <2>3
  <2> HIDE DEF n, a, b
  <2>9. X \in Seq(LedgerEntry) /\ DOMAIN X = {1, 2} /\ X[1] = a /\ X[2] = b
    BY <2>7
  <2> HIDE DEF X
  <2>10. \A j \in DOMAIN requests' :
           \/ \E k \in DOMAIN X : TellsOf(X, k, j, requests'[j])
           \/ /\ j \in DOMAIN requests
              /\ requests'[j].status = requests[j].status
              /\ requests'[j].approvals = requests[j].approvals
              /\ \A k \in DOMAIN X : X[k].id # j
    <3> SUFFICES ASSUME NEW j \in DOMAIN requests'
                 PROVE  \/ TellsOf(X, 2, j, requests'[j])
                        \/ /\ j \in DOMAIN requests
                           /\ requests'[j].status = requests[j].status
                           /\ requests'[j].approvals = requests[j].approvals
                           /\ \A k \in DOMAIN X : X[k].id # j
      BY <2>9
    <3>1. CASE j = n
      BY <2>7, <2>8, <2>9, <3>1 DEF TellsOf
    <3>2. CASE j # n
      BY <2>7, <2>8, <2>9, <3>2
    <3> QED
      BY <3>1, <3>2
  <2>11. << >> \in Seq(Effect) /\ Len(<< >>) = 0 /\ effects' = effects \o << >>
    BY <2>3 DEF LedgerInv
  <2>12. \A k \in DOMAIN X : X[k].execution = "none"
    BY <2>7, <2>9
  <2>13. LedgerGrowth(X, << >>)
    BY <2>3, <2>9, <2>10, <2>11, <2>12 DEF LedgerGrowth
  <2> QED
    BY <2>13, ToldOn
<1>8. ASSUME ExpireStale PROVE LedgerInv'
  <2> DEFINE E == Expirable
             status == [i \in E |-> "expired"]
             x == [i \in E |-> "none"]
  <2>1. /\ requests' = Settled(E, status) /\ UNCHANGED effects
        /\ auditLedger' = auditLedger \o
              [k \in 1..Len(InOrder(E)) |-> Audit(InOrder(E)[k], requests'[InOrder(E)[k]], "none")]
    BY <1>8 DEF ExpireStale
  <2>2. E \in SUBSET DOMAIN requests
    BY DEF Expirable
  <2>3. x \in [E -> {"none", "ok", "failed"}] /\ \A i \in E : x[i] = "none"
    OBVIOUS
  <2>4. auditLedger' = auditLedger \o
          [k \in 1..Len(InOrder(E)) |-> Audit(InOrder(E)[k], requests'[InOrder(E)[k]], x[InOrder(E)[k]])]
    <3>1. \A k \in 1..Len(InOrder(E)) : InOrder(E)[k] \in E
      BY <1>1, <2>2, PositionsIn
    <3>2. \A k \in 1..Len(InOrder(E)) : x[InOrder(E)[k]] = "none"
      BY <2>3, <3>1
    <3> HIDE DEF x, E
    <3>3. [k \in 1..Len(InOrder(E)) |-> Audit(InOrder(E)[k], requests'[InOrder(E)[k]], "none")]
        = [k \in 1..Len(InOrder(E)) |->
             Audit(InOrder(E)[k], requests'[InOrder(E)[k]], x[InOrder(E)[k]])]
      BY <3>2
    <3> QED
      BY <2>1, <3>3
  <2> HIDE DEF x, E, status
  <2> QED
    BY <1>2, <2>1, <2>2, <2>3, <2>4, ManyTold
<1>9. ASSUME NEW S \in SUBSET DOMAIN requests, ExecuteApproved(S) PROVE LedgerInv'
  <2> DEFINE E == ExecutableIn(S)
             ids == InOrder(E)
  <2>1. PICK ok \in [E -> BOOLEAN] :
          /\ requests' = Settled(E, [i \in E |-> StatusAfter(ok[i])])
          /\ effects' = effects \o [k \in 1..Len(ids) |-> [id |-> ids[k], ok |-> ok[ids[k]]]]
          /\ auditLedger' = auditLedger \o
                [k \in 1..Len(ids) |->
                   ExecutionAudit(ids[k], Settled(E, [i \in E |-> StatusAfter(ok[i])]), ok[ids[k]])]
    BY <1>9 DEF ExecuteApproved
  <2> DEFINE status == [i \in E |-> StatusAfter(ok[i])]
             x == [i \in E |-> Execution(ok[i])]
  <2>2. E \in SUBSET DOMAIN requests
    BY DEF ExecutableIn
  <2>3. x \in [E -> {"none", "ok", "failed"}] /\ \A i \in E : x[i] = Execution(ok[i])
    <3>1. \A i \in E : Execution(ok[i]) \in {"none", "ok", "failed"}
      BY ExecutionWord
    <3> QED
      BY <3>1
  <2>4. requests' = Settled(E, status)
    BY <2>1
  <2>5. auditLedger' = auditLedger \o
          [k \in 1..Len(ids) |-> Audit(ids[k], requests'[ids[k]], x[ids[k]])]
    <3>1. \A k \in 1..Len(ids) : ids[k] \in E
      BY <1>1, <2>2, PositionsIn
    <3>2. \A k \in 1..Len(ids) : x[ids[k]] = Execution(ok[ids[k]])
      BY <2>3, <3>1
    <3>3. auditLedger' = auditLedger \o
             [k \in 1..Len(ids) |-> Audit(ids[k], requests'[ids[k]], Execution(ok[ids[k]]))]
      BY <2>1 DEF ExecutionAudit
    <3> HIDE DEF x, ids
    <3>4. [k \in 1..Len(ids) |-> Audit(ids[k], requests'[ids[k]], Execution(ok[ids[k]]))]
        = [k \in 1..Len(ids) |-> Audit(ids[k], requests'[ids[k]], x[ids[k]])]
      BY <3>2
    <3> QED
      BY <3>3, <3>4
  <2>6. effects' = effects \o
           [k \in 1..Len(InOrder(E)) |-> [id |-> InOrder(E)[k], ok |-> ok[InOrder(E)[k]]]]
    BY <2>1
  <2>7. auditLedger' = auditLedger \o
          [k \in 1..Len(InOrder(E)) |-> Audit(InOrder(E)[k], requests'[InOrder(E)[k]], x[InOrder(E)[k]])]
    BY <2>5
  <2> HIDE DEF x, E, status, ids
  <2> QED
    BY <1>2, <2>1, <2>2, <2>3, <2>4, <2>6, <2>7, ManyTold
<1>10. ASSUME UNCHANGED <<requests, auditLedger, effects>> PROVE LedgerInv'
  BY <1>10, LedgerQuiet
<1> QED
  BY <1>5, <1>6, <1>7, <1>8, <1>9, <1>10 DEF Next, vars, RegisterProtectedAsset, Tick

\* The pairing lists the executions as the property does.
LEMMA PairedListed ==
  ASSUME auditLedger \in Seq(LedgerEntry), effects \in Seq(Effect), NEW e, Paired(e)
  PROVE  LET S == {k \in DOMAIN auditLedger : auditLedger[k].execution # "none"}
         IN InOrder(S) = e /\ Len(InOrder(S)) = Len(effects)
<1> DEFINE S == {k \in DOMAIN auditLedger : auditLedger[k].execution # "none"}
           n == Len(effects)
<1>1. S \in SUBSET Nat /\ n \in Nat /\ \A j \in 1..n : j \in DOMAIN effects
  OBVIOUS
<1>2. \A j \in 1..n : e[j] \in S
  <2> SUFFICES ASSUME NEW j \in 1..n PROVE e[j] \in S
    OBVIOUS
  <2>1. e[j] \in DOMAIN auditLedger /\ auditLedger[e[j]].execution = Execution(effects[j].ok)
    BY DEF Paired
  <2> QED
    BY <2>1 DEF Execution
<1>3. e \in [1..n -> S]
  <2>1. e = [j \in 1..n |-> e[j]]
    BY DEF Paired
  <2> QED
    BY <1>2, <2>1
<1>4. \A x \in S : \E j \in 1..n : e[j] = x
  BY DEF Paired
<1>5. \A i, j \in 1..n : i < j => e[i] < e[j]
  BY DEF Paired
<1> HIDE DEF S, n
<1>6. InOrder(S) = e
  BY <1>1, <1>3, <1>4, <1>5, ListedOnce
<1>7. Len(e) = n
  BY <1>1, <1>3
<1> QED
  BY <1>6, <1>7 DEF S, n

\* The ledger is the whole story: the executions it tells are the calls of the
\* engines, in order and with their results, and its last entry about a
\* request has the status and the approvals the request has, however many
\* requests one call expires or executes.
THEOREM LedgerIsTheStory == Spec => []LedgerTells
<1>1. Init => RequestsOK /\ ApprovalInv /\ LedgerInv
  <2> SUFFICES ASSUME Init PROVE RequestsOK /\ ApprovalInv /\ LedgerInv
    OBVIOUS
  <2>1. RequestsOK /\ ApprovalInv
    BY DEF Init, RequestsOK, ApprovalInv
  <2>2. auditLedger = << >> /\ effects = << >> /\ requests = << >>
    BY DEF Init
  <2>3. Paired(<< >>)
    BY <2>2 DEF Paired
  <2> QED
    BY <2>1, <2>2, <2>3 DEF LedgerInv
<1>2. RequestsOK /\ ApprovalInv /\ LedgerInv /\ [Next]_vars
        => (RequestsOK /\ ApprovalInv /\ LedgerInv)'
  BY ApprovalStep, LedgerStep
<1>3. LedgerInv => LedgerTells
  <2> SUFFICES ASSUME LedgerInv PROVE LedgerTells
    OBVIOUS
  <2> DEFINE S == {k \in DOMAIN auditLedger : auditLedger[k].execution # "none"}
  <2>1. PICK e : Paired(e)
    BY DEF LedgerInv
  <2>2. InOrder(S) = e /\ Len(InOrder(S)) = Len(effects)
    BY <2>1, PairedListed DEF LedgerInv
  <2>3. DOMAIN effects = 1..Len(effects)
    BY DEF LedgerInv
  <2>4. \A k \in DOMAIN effects : /\ auditLedger[e[k]].id = effects[k].id
                                  /\ auditLedger[e[k]].execution = Execution(effects[k].ok)
    BY <2>1, <2>3 DEF Paired
  <2>5. ASSUME NEW i \in DOMAIN requests
        PROVE  /\ \E k \in DOMAIN auditLedger : auditLedger[k].id = i
               /\ LastEntryOf(i).status = requests[i].status
               /\ LastEntryOf(i).approvals = requests[i].approvals
    <3>1. PICK k \in DOMAIN auditLedger : TellsOf(auditLedger, k, i, requests[i])
      BY DEF LedgerInv
    <3>2. DOMAIN auditLedger \subseteq Nat
      BY DEF LedgerInv
    <3> DEFINE Last(m) == /\ auditLedger[m].id = i
                          /\ \A o \in DOMAIN auditLedger : auditLedger[o].id = i => o <= m
    <3>3. Last(k) /\ \A m \in DOMAIN auditLedger : Last(m) => m = k
      BY <3>1, <3>2 DEF TellsOf
    <3>4. LastEntryOf(i) = auditLedger[k]
      BY <3>3 DEF LastEntryOf
    <3> QED
      BY <3>1, <3>4 DEF TellsOf
  <2> HIDE DEF S
  <2> QED
    BY <2>2, <2>4, <2>5 DEF LedgerTells, S
<1> QED
  BY <1>1, <1>2, <1>3, PTL DEF Spec

-----------------------------------------------------------------------------
(* Response implements Approval.  The mapping counts the calls of the engines
   made for a request.  An invariant of its own, EffectsOnce, says that this
   count is one when the request was enforced and zero otherwise, so that what
   a request is mapped to depends on the request alone. *)

\* The engines were called once for every request that was enforced, and for
\* no other.
EffectsOnce ==
  /\ effects \in Seq(Effect)
  /\ \A k \in DOMAIN effects :
        effects[k].id \in DOMAIN requests /\ Enforced(requests[effects[k].id].status)
  /\ \A k, m \in DOMAIN effects : effects[k].id = effects[m].id => k = m
  /\ \A i \in DOMAIN requests :
        Enforced(requests[i].status) => \E k \in DOMAIN effects : effects[k].id = i

-----------------------------------------------------------------------------
(* The calls of the engines. *)

\* A step that enforces nothing leaves the calls and the requests in accord.
LEMMA EffectsQuiet ==
  ASSUME EffectsOnce, UNCHANGED effects, DOMAIN requests \subseteq DOMAIN requests',
         \A i \in DOMAIN requests : Enforced(requests'[i].status) <=> Enforced(requests[i].status),
         \A i \in DOMAIN requests' \ DOMAIN requests : ~Enforced(requests'[i].status)
  PROVE  EffectsOnce'
BY DEF EffectsOnce

\* A request that is added without being enforced.
LEMMA EffectsAppend ==
  ASSUME RequestsOK, EffectsOnce, UNCHANGED effects, NEW q, requests' = Append(requests, q),
         ~Enforced(q.status)
  PROVE  EffectsOnce'
<1>1. requests \in Seq(Request)
  BY DEF RequestsOK
<1>2. DOMAIN requests' = DOMAIN requests \cup {Len(requests) + 1}
  BY <1>1
<1>3. requests'[Len(requests) + 1] = q /\ \A i \in DOMAIN requests : requests'[i] = requests[i]
  BY <1>1
<1> QED
  BY <1>2, <1>3, EffectsQuiet

\* The auto tier of submit: the request and the call are added together.
LEMMA EffectsSubmit ==
  ASSUME RequestsOK, EffectsOnce, NEW q, Enforced(q.status), NEW ok \in BOOLEAN,
         requests' = Append(requests, q),
         effects' = Append(effects, [id |-> Len(requests) + 1, ok |-> ok])
  PROVE  EffectsOnce'
<1> DEFINE n == Len(requests) + 1
           m == Len(effects) + 1
<1>1. requests \in Seq(Request) /\ effects \in Seq(Effect)
  BY DEF RequestsOK, EffectsOnce
<1>2. /\ n \in Nat /\ n \notin DOMAIN requests
      /\ DOMAIN requests' = DOMAIN requests \cup {n}
      /\ requests'[n] = q /\ \A i \in DOMAIN requests : requests'[i] = requests[i]
  BY <1>1
<1>3. [id |-> n, ok |-> ok] \in Effect
  BY <1>2 DEF Effect
<1> HIDE DEF n
<1>4. /\ effects' \in Seq(Effect)
      /\ m \notin DOMAIN effects
      /\ DOMAIN effects' = DOMAIN effects \cup {m}
      /\ effects'[m].id = n /\ \A k \in DOMAIN effects : effects'[k] = effects[k]
  BY <1>1, <1>3 DEF n
<1> HIDE DEF m
<1>5. \A k \in DOMAIN effects' :
        effects'[k].id \in DOMAIN requests' /\ Enforced(requests'[effects'[k].id].status)
  BY <1>2, <1>4 DEF EffectsOnce
<1>6. \A k, l \in DOMAIN effects' : effects'[k].id = effects'[l].id => k = l
  BY <1>2, <1>4 DEF EffectsOnce
<1>7. \A i \in DOMAIN requests' :
        Enforced(requests'[i].status) => \E k \in DOMAIN effects' : effects'[k].id = i
  BY <1>2, <1>4 DEF EffectsOnce
<1> QED
  BY <1>4, <1>5, <1>6, <1>7 DEF EffectsOnce

\* The calls an execution adds: one for each of the requests it enforces.
LEMMA EffectsExecute ==
  ASSUME RequestsOK, EffectsOnce, NEW E \in SUBSET DOMAIN requests, NEW ok \in [E -> BOOLEAN],
         \A i \in E : ~Enforced(requests[i].status),
         requests' = Settled(E, [i \in E |-> StatusAfter(ok[i])]),
         effects' = effects \o
            [k \in 1..Len(InOrder(E)) |-> [id |-> InOrder(E)[k], ok |-> ok[InOrder(E)[k]]]]
  PROVE  EffectsOnce'
<1> DEFINE ids == InOrder(E)
           c == Cardinality(E)
           n == Len(effects)
           new == [k \in 1..c |-> [id |-> ids[k], ok |-> ok[ids[k]]]]
<1>1. requests \in Seq(Request) /\ effects \in Seq(Effect) /\ n \in Nat
  BY DEF RequestsOK, EffectsOnce
<1>2. E \in SUBSET Nat /\ IsFiniteSet(E)
  <2>1. DOMAIN requests = 1..Len(requests) /\ Len(requests) \in Nat
    BY <1>1
  <2>2. IsFiniteSet(1..Len(requests))
    BY <2>1, FS_Interval
  <2> QED
    BY <2>1, <2>2, FS_Subset
<1>3. /\ c \in Nat /\ ids \in [1..c -> E]
      /\ \A i, j \in 1..c : ids[i] = ids[j] => i = j
      /\ \A x \in E : \E i \in 1..c : ids[i] = x
  BY <1>2, InOrderFacts
<1> HIDE DEF ids, c
<1>4. Len(ids) = c
  BY <1>3
<1>5. new \in Seq(Effect) /\ DOMAIN new = 1..c
  <2>1. \A k \in 1..c : new[k] \in Effect
    BY <1>2, <1>3 DEF Effect
  <2>2. new \in [1..c -> Effect]
    BY <2>1
  <2> QED
    BY <2>2, <1>3
<1>6. effects' = effects \o new
  BY <1>4 DEF ids
<1>7. \A k \in 1..c : new[k].id = ids[k]
  OBVIOUS
<1> HIDE DEF new
<1>8. /\ effects' \in Seq(Effect)
      /\ \A k \in DOMAIN effects : k \in DOMAIN effects' /\ effects'[k] = effects[k]
      /\ \A j \in 1..c : n + j \in DOMAIN effects' \ DOMAIN effects /\ effects'[n + j].id = ids[j]
      /\ \A k \in DOMAIN effects' : k \in DOMAIN effects \/ \E j \in 1..c : k = n + j
  <2> DEFINE cat == effects \o new
  <2>1. /\ cat \in Seq(Effect)
        /\ \A k \in DOMAIN effects : k \in DOMAIN cat /\ cat[k] = effects[k]
        /\ \A j \in DOMAIN new : n + j \in DOMAIN cat \ DOMAIN effects /\ cat[n + j] = new[j]
        /\ \A k \in DOMAIN cat : k \in DOMAIN effects \/ \E j \in DOMAIN new : k = n + j
    BY <1>1, <1>5, Concatenated
  <2>2. effects' = cat
    BY <1>6
  <2> HIDE DEF cat, n
  <2> QED
    BY <2>1, <2>2, <1>5, <1>7
<1> HIDE DEF n
<1>9. DOMAIN requests' = DOMAIN requests
  BY DEF Settled
<1>10. ASSUME NEW i \in E PROVE Enforced(requests'[i].status)
  <2>1. requests[i] \in Request
    BY <1>1
  <2>2. requests'[i] = [requests[i] EXCEPT !.status = StatusAfter(ok[i])]
    BY DEF Settled
  <2>3. requests'[i].status = StatusAfter(ok[i])
    BY <2>1, <2>2 DEF Request
  <2> QED
    BY <2>3 DEF StatusAfter, Enforced
<1>11. \A i \in DOMAIN requests \ E : requests'[i] = requests[i]
  BY DEF Settled
<1>12. \A k \in DOMAIN effects : effects'[k].id \in DOMAIN requests \ E
  BY <1>8 DEF EffectsOnce
<1>4a. \A j \in 1..c : effects'[n + j].id \in E
  BY <1>3, <1>8
<1>14. ASSUME NEW k \in DOMAIN effects'
       PROVE  effects'[k].id \in DOMAIN requests' /\ Enforced(requests'[effects'[k].id].status)
  <2>1. CASE k \in DOMAIN effects
    <3>1. Enforced(requests[effects[k].id].status) /\ effects'[k] = effects[k]
      BY <2>1, <1>8 DEF EffectsOnce
    <3> QED
      BY <2>1, <3>1, <1>9, <1>11, <1>12
  <2>2. CASE \E j \in 1..c : k = n + j
    BY <2>2, <1>9, <1>10, <1>4a
  <2> QED
    BY <2>1, <2>2, <1>8
<1>15. ASSUME NEW k \in DOMAIN effects', NEW m \in DOMAIN effects', effects'[k].id = effects'[m].id
       PROVE  k = m
  <2>1. CASE k \in DOMAIN effects /\ m \in DOMAIN effects
    BY <2>1, <1>15, <1>8 DEF EffectsOnce
  <2>2. ASSUME NEW j \in 1..c, k = n + j, NEW l \in 1..c, m = n + l PROVE k = m
    <3>1. ids[j] = ids[l]
      BY <2>2, <1>15, <1>8
    <3> QED
      BY <2>2, <3>1, <1>3
  <2> QED
    BY <2>1, <2>2, <1>8, <1>12, <1>4a, <1>15
<1>16. ASSUME NEW i \in DOMAIN requests', Enforced(requests'[i].status)
       PROVE  \E k \in DOMAIN effects' : effects'[k].id = i
  <2>1. CASE i \in E
    <3>1. PICK j \in 1..c : ids[j] = i
      BY <2>1, <1>3
    <3>2. n + j \in DOMAIN effects' /\ effects'[n + j].id = i
      BY <3>1, <1>8
    <3> QED
      BY <3>2
  <2>2. CASE i \notin E
    <3>1. i \in DOMAIN requests /\ Enforced(requests[i].status)
      BY <2>2, <1>9, <1>11, <1>16
    <3>2. PICK k \in DOMAIN effects : effects[k].id = i
      BY <3>1 DEF EffectsOnce
    <3>3. k \in DOMAIN effects' /\ effects'[k].id = i
      BY <3>2, <1>8
    <3> QED
      BY <3>3
  <2> QED
    BY <2>1, <2>2
<1> QED
  BY <1>8, <1>14, <1>15, <1>16 DEF EffectsOnce

\* A decision enforces nothing.
LEMMA DecisionQuiet ==
  ASSUME NEW r \in Request, r.status = "pending", NEW who
  PROVE  ~Enforced(r.status) /\ ~Enforced(ApprovedRequest(r, who).status)
            /\ ~Enforced(DeniedRequest(r, who).status)
BY DEF Request, Enforced, ApprovedRequest, DeniedRequest

\* Every operation keeps EffectsOnce.
LEMMA EffectsStep ==
  ASSUME RequestsOK, EffectsOnce, [Next]_vars
  PROVE  EffectsOnce'
<1>1. requests \in Seq(Request)
  BY DEF RequestsOK
<1>2. ASSUME NEW a \in Action, NEW h \in Host, NEW p \in Actor, NEW d \in BOOLEAN,
             Submit(a, h, p, d)
      PROVE  EffectsOnce'
  <2> DEFINE r == NewRequest(a, h, p, d)
  <2>1. r \in Request /\ r.status = "pending" /\ r.action = a
    BY NewRequestType, ActionAssumption
  <2> HIDE DEF r
  <2>2. CASE SubmitEnforced(r)
    <3>1. PICK ok \in Outcomes(r.action) :
            /\ requests' = Append(requests, [r EXCEPT !.status = StatusAfter(ok)])
            /\ effects' = Append(effects, [id |-> Len(requests) + 1, ok |-> ok])
      BY <2>2 DEF SubmitEnforced
    <3> DEFINE q == [r EXCEPT !.status = StatusAfter(ok)]
    <3>2. ok \in BOOLEAN
      BY <2>1 DEF Outcomes
    <3>3. q.status = StatusAfter(ok)
      BY <2>1 DEF Request
    <3>4. Enforced(q.status)
      BY <3>3 DEF StatusAfter, Enforced
    <3> HIDE DEF q
    <3>5. requests' = Append(requests, q)
      BY <3>1 DEF q
    <3> QED
      BY <3>1, <3>2, <3>4, <3>5, EffectsSubmit
  <2>3. CASE SubmitQueued(r)
    <3> DEFINE q == [r EXCEPT !.status = IF r.tier = "auto" THEN "dry_run_completed"
                                                            ELSE "pending"]
    <3>1. requests' = Append(requests, q) /\ UNCHANGED effects
      BY <2>3 DEF SubmitQueued
    <3>2. ~Enforced(q.status)
      BY <2>1 DEF Request, Enforced
    <3> HIDE DEF q
    <3> QED
      BY <3>1, <3>2, EffectsAppend
  <2> QED
    BY <1>2, <2>2, <2>3 DEF Submit, r
<1>3. ASSUME NEW i \in DOMAIN requests, NEW p \in Actor, NEW d \in Decision, Decide(i, p, d)
      PROVE  EffectsOnce'
  <2> DEFINE q == IF d = "deny" THEN DeniedRequest(requests[i], p)
                                ELSE ApprovedRequest(requests[i], p)
  <2>1. requests' = [requests EXCEPT ![i] = q] /\ UNCHANGED effects /\ requests[i].status = "pending"
    BY <1>3 DEF Decide
  <2>2. ~Enforced(requests[i].status) /\ ~Enforced(q.status)
    BY <2>1, <1>1, DecisionQuiet
  <2> HIDE DEF q
  <2>3. DOMAIN requests' = DOMAIN requests
          /\ \A j \in DOMAIN requests : requests'[j] = IF j = i THEN q ELSE requests[j]
    BY <2>1
  <2> QED
    BY <2>1, <2>2, <2>3, EffectsQuiet
<1>4. ASSUME NEW p \in Actor, FirstRunProof(p) PROVE EffectsOnce'
  <2> DEFINE r == NewRequest("isolate", DemoHost, p, TRUE)
             who == IF p = DemoApprover THEN DemoReviewer ELSE DemoApprover
  <2>1. "isolate" \in ActionKind /\ DemoHost \in Host /\ TRUE \in BOOLEAN
    BY DemoAssumption DEF ActionKind
  <2>2. r \in Request /\ r.status = "pending"
    BY <2>1, NewRequestType
  <2>3. requests' = Append(requests, ApprovedRequest(r, who)) /\ UNCHANGED effects
    BY <1>4 DEF FirstRunProof
  <2> HIDE DEF r, who
  <2> QED
    BY <2>2, <2>3, DecisionQuiet, EffectsAppend
<1>5. ASSUME ExpireStale PROVE EffectsOnce'
  <2> DEFINE status == [i \in Expirable |-> "expired"]
  <2>1. requests' = Settled(Expirable, status) /\ UNCHANGED effects
    BY <1>5 DEF ExpireStale
  <2>2. DOMAIN requests' = DOMAIN requests
    BY <2>1 DEF Settled
  <2>3. ASSUME NEW i \in DOMAIN requests
        PROVE  Enforced(requests'[i].status) <=> Enforced(requests[i].status)
    <3>1. requests[i] \in Request
      BY <1>1
    <3>2. CASE i \in Expirable
      <4>1. requests[i].status = "pending"
        BY <3>2 DEF Expirable
      <4>2. requests'[i] = [requests[i] EXCEPT !.status = "expired"]
        BY <2>1, <3>2 DEF Settled
      <4>3. requests'[i].status = "expired"
        BY <3>1, <4>2 DEF Request
      <4> QED
        BY <4>1, <4>3 DEF Enforced
    <3>3. CASE i \notin Expirable
      BY <2>1, <3>3 DEF Settled
    <3> QED
      BY <3>2, <3>3
  <2> QED
    BY <2>1, <2>2, <2>3, EffectsQuiet
<1>6. ASSUME NEW S \in SUBSET DOMAIN requests, ExecuteApproved(S) PROVE EffectsOnce'
  <2> DEFINE E == ExecutableIn(S)
  <2>1. PICK ok \in [E -> BOOLEAN] :
          /\ requests' = Settled(E, [i \in E |-> StatusAfter(ok[i])])
          /\ effects' = effects \o
               [k \in 1..Len(InOrder(E)) |-> [id |-> InOrder(E)[k], ok |-> ok[InOrder(E)[k]]]]
    BY <1>6 DEF ExecuteApproved
  <2>2. E \in SUBSET DOMAIN requests /\ \A i \in E : ~Enforced(requests[i].status)
    BY DEF ExecutableIn, Enforced
  <2> HIDE DEF E
  <2> QED
    BY <2>1, <2>2, EffectsExecute
<1>7. ASSUME UNCHANGED <<requests, effects>> PROVE EffectsOnce'
  BY <1>7, EffectsQuiet
<1> QED
  BY <1>2, <1>3, <1>4, <1>5, <1>6, <1>7 DEF Next, vars, RegisterProtectedAsset, Tick

-----------------------------------------------------------------------------
(* What a request is mapped to. *)

\* The list of items that Promise is instantiated with.
Mapping == [i \in DOMAIN requests |-> ItemOf(i)]

Backers(r) ==
  {r.approvals[k].approver : k \in {k \in DOMAIN r.approvals : r.approvals[k].decision = "approve"}}

\* An item as a function of the request alone.
Abstract(r) ==
  [by |-> r.by,
   need |-> IF r.dryRun THEN 0 ELSE Need(r.tier),
   backers |-> IF r.dryRun THEN {} ELSE Backers(r),
   state |-> State(r),
   tries |-> IF Enforced(r.status) THEN 1 ELSE 0]

Mapped(reqs) == [i \in DOMAIN reqs |-> Abstract(reqs[i])]

\* With one call for each enforced request the two agree.
LEMMA MappingIsMapped == RequestsOK /\ EffectsOnce => Mapping = Mapped(requests)
<1> SUFFICES ASSUME RequestsOK, EffectsOnce, NEW i \in DOMAIN requests
             PROVE  ItemOf(i) = Abstract(requests[i])
  BY DEF Mapping, Mapped
<1> DEFINE T == {k \in DOMAIN effects : effects[k].id = i}
<1>1. Cardinality(T) = IF Enforced(requests[i].status) THEN 1 ELSE 0
  <2>1. CASE Enforced(requests[i].status)
    <3>1. PICK k \in DOMAIN effects : effects[k].id = i
      BY <2>1 DEF EffectsOnce
    <3>2. T = {k}
      BY <3>1 DEF EffectsOnce
    <3> QED
      BY <2>1, <3>2, FS_Singleton
  <2>2. CASE ~Enforced(requests[i].status)
    <3>1. T = {}
      BY <2>2 DEF EffectsOnce
    <3> QED
      BY <2>2, <3>1, FS_EmptySet
  <2> QED
    BY <2>1, <2>2
<1> QED
  BY <1>1 DEF ItemOf, Abstract, Backers

\* The same of the next state.
LEMMA MappingIsMappedNext == (RequestsOK /\ EffectsOnce)' => Mapping' = Mapped(requests')
<1>1. (RequestsOK /\ EffectsOnce => Mapping = Mapped(requests))'
  BY MappingIsMapped, PTL
<1> QED
  BY <1>1

\* A dry run is a rehearsal from first to last.
LEMMA DryRunItem ==
  ASSUME NEW r \in Request, ApprovalsSound(r), r.dryRun
  PROVE  Abstract(r) = [by |-> r.by, need |-> 0, backers |-> {}, state |-> "closed", tries |-> 0]
<1>1. ~Enforced(r.status)
  BY DEF ApprovalsSound, Authorized, Enforced
<1> QED
  BY <1>1 DEF Abstract, State

\* A list of items grows when a request is added.
LEMMA MappedAppend ==
  ASSUME NEW reqs \in Seq(Request), NEW q
  PROVE  Mapped(Append(reqs, q)) = Append(Mapped(reqs), Abstract(q))
<1> DEFINE n == Len(reqs)
           A == {Abstract(reqs[i]) : i \in 1..n} \cup {Abstract(q)}
<1>1. n \in Nat /\ DOMAIN reqs = 1..n /\ DOMAIN Append(reqs, q) = 1..(n + 1)
  OBVIOUS
<1>2. \A i \in 1..(n + 1) : Append(reqs, q)[i] = IF i = n + 1 THEN q ELSE reqs[i]
  BY <1>1
<1>3. Mapped(reqs) \in [1..n -> A] /\ \A i \in 1..n : Mapped(reqs)[i] = Abstract(reqs[i])
  BY <1>1 DEF Mapped
<1> HIDE DEF n, A
<1>4. Mapped(reqs) \in Seq(A) /\ Len(Mapped(reqs)) = n
  BY <1>1, <1>3
<1>5. Abstract(q) \in A
  BY DEF A
<1>6. /\ Append(Mapped(reqs), Abstract(q)) \in [1..(n + 1) -> A]
      /\ \A i \in 1..(n + 1) : Append(Mapped(reqs), Abstract(q))[i] =
           IF i = n + 1 THEN Abstract(q) ELSE Mapped(reqs)[i]
  <2> DEFINE s == Mapped(reqs)
             x == Abstract(q)
  <2>1. s \in Seq(A) /\ Len(s) = n /\ x \in A
    BY <1>4, <1>5
  <2> HIDE DEF s, x
  <2>2. /\ Append(s, x) \in Seq(A) /\ Len(Append(s, x)) = n + 1
        /\ \A i \in 1..n : Append(s, x)[i] = s[i]
        /\ Append(s, x)[n + 1] = x
    BY <2>1, AppendProperties
  <2>3. \A i \in 1..(n + 1) : i = n + 1 \/ i \in 1..n
    BY <1>1
  <2>4. Append(s, x) \in [1..(n + 1) -> A]
    <3> DEFINE e == Append(s, x)
    <3>1. e \in Seq(A) /\ Len(e) = n + 1
      BY <2>2
    <3> HIDE DEF e
    <3>2. e \in [1..(n + 1) -> A]
      BY <3>1
    <3> QED
      BY <3>2 DEF e
  <2>5. \A i \in 1..(n + 1) : Append(s, x)[i] = IF i = n + 1 THEN x ELSE s[i]
    BY <2>2, <2>3
  <2> QED
    BY <2>4, <2>5 DEF s, x
<1>7. /\ Mapped(Append(reqs, q)) = [i \in 1..(n + 1) |-> Abstract(Append(reqs, q)[i])]
  BY <1>1 DEF Mapped
<1>8. \A i \in 1..(n + 1) : Append(Mapped(reqs), Abstract(q))[i] = Abstract(Append(reqs, q)[i])
  <2> TAKE i \in 1..(n + 1)
  <2>1. CASE i = n + 1
    BY <2>1, <1>2, <1>6
  <2>2. CASE i # n + 1
    <3>1. i \in 1..n
      BY <2>2, <1>1
    <3> QED
      BY <2>2, <3>1, <1>2, <1>3, <1>6
  <2> QED
    BY <2>1, <2>2
<1> QED
  BY <1>6, <1>7, <1>8

-----------------------------------------------------------------------------
(* The steps of Approval. *)

ASK(by, need) ==
  [by |-> by, need |-> need, backers |-> {}, state |-> IF need = 0 THEN "tried" ELSE "open",
   tries |-> IF need = 0 THEN 1 ELSE 0]
REHEARSAL(by) == [by |-> by, need |-> 0, backers |-> {}, state |-> "closed", tries |-> 0]

\* Adding an item is asking or rehearsing.
LEMMA AskStep ==
  ASSUME NEW by \in Actor, NEW need \in 0..2, Mapping' = Append(Mapping, ASK(by, need))
  PROVE  Promise!Next
BY DEF Promise!Next, Promise!Ask, Mapping, ASK

LEMMA RehearseStep ==
  ASSUME NEW by \in Actor, Mapping' = Append(Mapping, REHEARSAL(by))
  PROVE  Promise!Next
BY DEF Promise!Next, Promise!Rehearse, Mapping, REHEARSAL

\* Approval counts as Response does.
LEMMA SameCount == \A B : Promise!Cardinality(B) = Cardinality(B)
BY DEF Promise!Cardinality, Cardinality

\* The state of an item that needs so many and that B back.
StateWith(B, need) == IF Cardinality(B) < need THEN "open" ELSE "cleared"

\* One that was backed, closed or carried out is one of the mapped requests
\* that was changed.
LEMMA BackStep ==
  ASSUME NEW i \in DOMAIN requests, NEW p \in Actor, NEW by, NEW need, NEW A, NEW B,
         B = A \cup {p}, p # by, p \notin A,
         Mapping[i] = [by |-> by, need |-> need, backers |-> A, state |-> "open", tries |-> 0],
         Mapping' = [Mapping EXCEPT ![i] =
           [by |-> by, need |-> need, backers |-> B, state |-> StateWith(B, need), tries |-> 0]]
  PROVE  Promise!Next
<1>1. i \in DOMAIN Mapping
  BY DEF Mapping
<1>2. ASSUME NEW m, m = Mapping[i]
      PROVE  [m EXCEPT !.backers = B, !.state = StateWith(B, need)] =
               [by |-> by, need |-> need, backers |-> B, state |-> StateWith(B, need), tries |-> 0]
  <2> DEFINE st == StateWith(B, need)
  <2> HIDE DEF st
  <2>1. ASSUME NEW c, c = [m EXCEPT !.backers = B]
        PROVE  /\ c = [by |-> by, need |-> need, backers |-> B, state |-> "open", tries |-> 0]
               /\ [m EXCEPT !.backers = B, !.state = st] = [c EXCEPT !.state = st]
    <3>1. [m EXCEPT !.backers = B, !.state = st] = [c EXCEPT !.state = st]
      BY <2>1, Zenon
    <3>2. c = [by |-> by, need |-> need, backers |-> B, state |-> "open", tries |-> 0]
      BY <2>1, <1>2
    <3> QED
      BY <3>1, <3>2, Zenon
  <2>2. ASSUME NEW c, c = [by |-> by, need |-> need, backers |-> B, state |-> "open", tries |-> 0]
        PROVE  [c EXCEPT !.state = st] =
                 [by |-> by, need |-> need, backers |-> B, state |-> st, tries |-> 0]
    BY <2>2
  <2> QED
    BY <2>1, <2>2, Zenon DEF st
<1>3. Mapping' = [Mapping EXCEPT ![i].backers = B, ![i].state = StateWith(B, need)]
  BY <1>1, <1>2
<1>4. Mapping[i].state = "open" /\ Mapping[i].by = by /\ Mapping[i].backers = A
        /\ Mapping[i].need = need
  OBVIOUS
<1> QED
  BY <1>3, <1>4, SameCount DEF Promise!Next, Promise!Back, Mapping, StateWith

LEMMA CloseStep ==
  ASSUME NEW S \in SUBSET DOMAIN requests, \A i \in S : Mapping[i].state = "open",
         Mapping' = [i \in DOMAIN Mapping |->
           IF i \in S THEN [Mapping[i] EXCEPT !.state = "closed"] ELSE Mapping[i]]
  PROVE  Promise!Next
BY DEF Promise!Next, Promise!Close, Mapping

\* An item that was carried out.
Tried(m) == [by |-> m.by, need |-> m.need, backers |-> m.backers, state |-> "tried", tries |-> 1]

LEMMA CarryOutStep ==
  ASSUME NEW S \in SUBSET DOMAIN requests,
         \A i \in S : Mapping[i] = [by |-> Mapping[i].by, need |-> Mapping[i].need,
                                    backers |-> Mapping[i].backers, state |-> "cleared",
                                    tries |-> 0],
         Mapping' = [i \in DOMAIN Mapping |-> IF i \in S THEN Tried(Mapping[i]) ELSE Mapping[i]]
  PROVE  Promise!Next
<1>1. ASSUME NEW m, m = [by |-> m.by, need |-> m.need, backers |-> m.backers,
                         state |-> "cleared", tries |-> 0]
      PROVE  [m EXCEPT !.state = "tried", !.tries = 1] = Tried(m)
  <2> DEFINE by == m.by
             need == m.need
             A == m.backers
  <2> HIDE DEF by, need, A
  <2>1. m = [by |-> by, need |-> need, backers |-> A, state |-> "cleared", tries |-> 0]
    BY <1>1 DEF by, need, A
  <2>2. ASSUME NEW c, c = [m EXCEPT !.state = "tried"]
        PROVE  /\ c = [by |-> by, need |-> need, backers |-> A, state |-> "tried", tries |-> 0]
               /\ [m EXCEPT !.state = "tried", !.tries = 1] = [c EXCEPT !.tries = 1]
    <3>1. [m EXCEPT !.state = "tried", !.tries = 1] = [c EXCEPT !.tries = 1]
      BY <2>2, Zenon
    <3>2. c = [by |-> by, need |-> need, backers |-> A, state |-> "tried", tries |-> 0]
      BY <2>2, <2>1
    <3> QED
      BY <3>1, <3>2, Zenon
  <2>3. ASSUME NEW c, c = [by |-> by, need |-> need, backers |-> A, state |-> "tried", tries |-> 0]
        PROVE  [c EXCEPT !.tries = 1] =
                 [by |-> by, need |-> need, backers |-> A, state |-> "tried", tries |-> 1]
    BY <2>3
  <2> QED
    BY <2>2, <2>3, Zenon DEF Tried, by, need, A
<1>2. \A i \in S : [Mapping[i] EXCEPT !.state = "tried", !.tries = 1] = Tried(Mapping[i])
  <2> TAKE i \in S
  <2> DEFINE m == Mapping[i]
  <2>1. m = [by |-> m.by, need |-> m.need, backers |-> m.backers, state |-> "cleared", tries |-> 0]
    OBVIOUS
  <2> HIDE DEF m
  <2>2. [m EXCEPT !.state = "tried", !.tries = 1] = Tried(m)
    BY <2>1, <1>1
  <2> QED
    BY <2>2, Zenon DEF m
<1>3. Mapping' = [i \in DOMAIN Mapping |->
        IF i \in S THEN [Mapping[i] EXCEPT !.state = "tried", !.tries = 1] ELSE Mapping[i]]
  BY <1>2, Zenon
<1>4. ASSUME NEW m, m = [by |-> m.by, need |-> m.need, backers |-> m.backers,
                         state |-> "cleared", tries |-> 0]
      PROVE  m.state = "cleared"
  <2> DEFINE by == m.by
             need == m.need
             A == m.backers
  <2> HIDE DEF by, need, A
  <2>1. m = [by |-> by, need |-> need, backers |-> A, state |-> "cleared", tries |-> 0]
    BY <1>4 DEF by, need, A
  <2> QED
    BY <2>1
<1>5. \A i \in S : Mapping[i].state = "cleared"
  <2> TAKE i \in S
  <2> DEFINE m == Mapping[i]
  <2>1. m = [by |-> m.by, need |-> m.need, backers |-> m.backers, state |-> "cleared", tries |-> 0]
    OBVIOUS
  <2> HIDE DEF m
  <2>2. m.state = "cleared"
    BY <2>1, <1>4
  <2> QED
    BY <2>2, Zenon DEF m
<1> QED
  BY <1>3, <1>5 DEF Promise!Next, Promise!CarryOut, Mapping

-----------------------------------------------------------------------------
(* What the operations of the orchestrator do to the item of a request. *)

\* A pending request that is no dry run is open, and needs one or two.
LEMMA PendingItem ==
  ASSUME NEW r \in Request, ApprovalsSound(r), r.status = "pending", ~r.dryRun
  PROVE  /\ Abstract(r).state = "open" /\ Abstract(r).tries = 0
         /\ Abstract(r).need = RequiredApprovals(r.tier)
         /\ Abstract(r).by = r.by /\ Abstract(r).backers = Backers(r)
<1>1. r.tier \in {"single", "dual"}
  BY DEF ApprovalsSound, Request, Tier
<1>2. Need(r.tier) = RequiredApprovals(r.tier)
  BY <1>1 DEF Need, RequiredApprovals
<1>3. State(r) = "open" /\ ~Enforced(r.status)
  BY DEF State, Enforced
<1> QED
  BY <1>2, <1>3 DEF Abstract

\* A denial closes it.
LEMMA DeniedItem ==
  ASSUME NEW r \in Request, ApprovalsSound(r), r.status = "pending", ~r.dryRun, NEW who \in Approver
  PROVE  Abstract(DeniedRequest(r, who)) = [Abstract(r) EXCEPT !.state = "closed"]
<1> DEFINE rec == [approver |-> who, decision |-> "deny"]
           given == Append(r.approvals, rec)
           q == DeniedRequest(r, who)
<1>1. /\ q.approvals = given /\ q.by = r.by /\ q.dryRun = r.dryRun /\ q.tier = r.tier
      /\ q.status = "denied"
  BY DEF DeniedRequest, Request
<1>2. /\ DOMAIN given = DOMAIN r.approvals \cup {Len(r.approvals) + 1}
      /\ given[Len(r.approvals) + 1].decision = "deny"
      /\ \A k \in DOMAIN r.approvals : given[k] = r.approvals[k]
  BY DEF Request
<1> HIDE DEF q, given
<1>3. Backers(q) = Backers(r)
  BY <1>1, <1>2 DEF Backers
<1>4. Abstract(q) = [by |-> r.by, need |-> Need(r.tier), backers |-> Backers(r),
                     state |-> "closed", tries |-> 0]
  BY <1>1, <1>3 DEF Abstract, State, Enforced
<1>5. Abstract(r) = [by |-> r.by, need |-> Need(r.tier), backers |-> Backers(r),
                     state |-> "open", tries |-> 0]
  BY DEF Abstract, State, Enforced
<1> QED
  BY <1>4, <1>5 DEF q

\* So many records, so many people: the approvals of a sound request are of
\* different approvers.
LEMMA BackersCounted ==
  ASSUME NEW r \in Request, ApprovalsSound(r)
  PROVE  Cardinality(Backers(r)) = ApproveCount(r.approvals)
<1> DEFINE K == {k \in DOMAIN r.approvals : r.approvals[k].decision = "approve"}
           f == [k \in K |-> r.approvals[k].approver]
<1>1. IsFiniteSet(K) /\ ApproveCount(r.approvals) = Cardinality(K)
  <2>1. r.approvals \in Seq(ApprovalRecord)
    BY DEF Request
  <2> QED
    BY <2>1, CountType
<1>2. f \in [K -> Backers(r)] /\ \A k \in K : f[k] = r.approvals[k].approver
  BY DEF Backers
<1>3. \A k, m \in K : f[k] = f[m] => k = m
  BY <1>2 DEF ApprovalsSound
<1>4. \A b \in Backers(r) : \E k \in K : f[k] = b
  BY <1>2 DEF Backers
<1> HIDE DEF f, K
<1>5. f \in Bijection(K, Backers(r))
  BY <1>2, <1>3, <1>4, Fun_IsBij
<1>6. ExistsBijection(K, Backers(r))
  BY <1>5, Fun_ExistsBij
<1> QED
  BY <1>1, <1>6, FS_Bijection

\* An approval adds its approver, and clears the item when it was the last
\* one needed.
LEMMA ApprovedItem ==
  ASSUME NEW r \in Request, ApprovalsSound(r), r.status = "pending", ~r.dryRun,
         NEW who \in Approver, MayApprove(r, who), now \in Nat
  PROVE  LET B == Backers(r) \cup {who}
         IN /\ who # r.by /\ who \notin Backers(r)
            /\ Abstract(r) = [by |-> r.by, need |-> Need(r.tier), backers |-> Backers(r),
                              state |-> "open", tries |-> 0]
            /\ Abstract(ApprovedRequest(r, who)) =
                 [by |-> r.by, need |-> Need(r.tier), backers |-> B,
                  state |-> StateWith(B, Need(r.tier)), tries |-> 0]
<1> DEFINE rec == [approver |-> who, decision |-> "approve"]
           given == Append(r.approvals, rec)
           B == Backers(r) \cup {who}
           q == ApprovedRequest(r, who)
<1>1. q \in Request /\ ApprovalsSound(q)
  BY ApprovalKeepsSound
<1>2. /\ q.approvals = given /\ q.by = r.by /\ q.dryRun = r.dryRun /\ q.tier = r.tier
      /\ q.status = IF ApproveCount(given) < RequiredApprovals(r.tier) THEN "pending" ELSE "approved"
  BY DEF ApprovedRequest, Request
<1>3. /\ DOMAIN given = DOMAIN r.approvals \cup {Len(r.approvals) + 1}
      /\ given[Len(r.approvals) + 1] = rec
      /\ \A k \in DOMAIN r.approvals : given[k] = r.approvals[k]
  BY DEF Request
<1>4. who # r.by /\ who \notin Backers(r)
  <2>1. r.approvals \in Seq(ApprovalRecord)
    BY DEF Request
  <2> QED
    BY <2>1 DEF MayApprove, Backers
<1> HIDE DEF q, given
<1>5. Backers(q) = B
  BY <1>2, <1>3 DEF Backers
<1>6. ApproveCount(given) = Cardinality(B)
  BY <1>1, <1>2, <1>5, BackersCounted
<1>7. Need(r.tier) = RequiredApprovals(r.tier)
  BY DEF ApprovalsSound, Request, Tier, Need, RequiredApprovals
<1> HIDE DEF B
<1>8. Abstract(q) = [by |-> r.by, need |-> Need(r.tier), backers |-> B,
                     state |-> StateWith(B, Need(r.tier)), tries |-> 0]
  <2>1. CASE ApproveCount(given) < RequiredApprovals(r.tier)
    <3>1. q.status = "pending" /\ State(q) = "open"
      BY <2>1, <1>2 DEF State
    <3> QED
      BY <2>1, <3>1, <1>2, <1>5, <1>6, <1>7 DEF Abstract, Enforced, StateWith
  <2>2. CASE ~(ApproveCount(given) < RequiredApprovals(r.tier))
    <3>1. q.status = "approved" /\ State(q) = "cleared"
      BY <2>2, <1>2 DEF State
    <3> QED
      BY <2>2, <3>1, <1>2, <1>5, <1>6, <1>7 DEF Abstract, Enforced, StateWith
  <2> QED
    BY <2>1, <2>2
<1>9. Abstract(r) = [by |-> r.by, need |-> Need(r.tier), backers |-> Backers(r),
                     state |-> "open", tries |-> 0]
  BY DEF Abstract, State, Enforced
<1> QED
  BY <1>4, <1>8, <1>9 DEF B, q

\* Expiry closes it too.
LEMMA ExpiredItem ==
  ASSUME NEW r \in Request, r.status = "pending", ~r.dryRun
  PROVE  Abstract([r EXCEPT !.status = "expired"]) = [Abstract(r) EXCEPT !.state = "closed"]
<1> DEFINE q == [r EXCEPT !.status = "expired"]
<1>1. /\ q.approvals = r.approvals /\ q.by = r.by /\ q.dryRun = r.dryRun /\ q.tier = r.tier
      /\ q.status = "expired"
  BY DEF Request
<1> HIDE DEF q
<1>2. Abstract(q) = [by |-> r.by, need |-> Need(r.tier), backers |-> Backers(r),
                     state |-> "closed", tries |-> 0]
  BY <1>1 DEF Abstract, State, Enforced, Backers
<1>3. Abstract(r) = [by |-> r.by, need |-> Need(r.tier), backers |-> Backers(r),
                     state |-> "open", tries |-> 0]
  BY DEF Abstract, State, Enforced
<1> QED
  BY <1>2, <1>3 DEF q

\* An execution carries it out, whatever the engine answers.
LEMMA ExecutedItem ==
  ASSUME NEW r \in Request, r.status = "approved", ~r.dryRun, NEW ok
  PROVE  /\ Abstract(r) = [by |-> r.by, need |-> Need(r.tier), backers |-> Backers(r),
                           state |-> "cleared", tries |-> 0]
         /\ Abstract([r EXCEPT !.status = StatusAfter(ok)]) = Tried(Abstract(r))
<1> DEFINE q == [r EXCEPT !.status = StatusAfter(ok)]
<1>1. /\ q.approvals = r.approvals /\ q.by = r.by /\ q.dryRun = r.dryRun /\ q.tier = r.tier
      /\ q.status = StatusAfter(ok)
  BY DEF Request
<1> HIDE DEF q
<1>2. q.status \in {"executed", "failed"}
  BY <1>1 DEF StatusAfter
<1>3. Abstract(q) = [by |-> r.by, need |-> Need(r.tier), backers |-> Backers(r),
                     state |-> "tried", tries |-> 1]
  BY <1>1, <1>2 DEF Abstract, State, Enforced, Backers
<1>4. Abstract(r) = [by |-> r.by, need |-> Need(r.tier), backers |-> Backers(r),
                     state |-> "cleared", tries |-> 0]
  BY DEF Abstract, State, Enforced
<1> QED
  BY <1>3, <1>4 DEF q, Tried

\* Items change where requests do.
LEMMA MappedUpdate ==
  ASSUME NEW i \in DOMAIN requests, NEW q
  PROVE  Mapped([requests EXCEPT ![i] = q]) = [Mapped(requests) EXCEPT ![i] = Abstract(q)]
BY DEF Mapped

-----------------------------------------------------------------------------
(* The refinement. *)

\* Every step of every handler is a step of Approval, or leaves the items as
\* they are.
LEMMA RefinementStep ==
  ASSUME RequestsOK, ApprovalInv, EffectsOnce, [Next]_vars
  PROVE  Promise!Next \/ UNCHANGED Mapping
<1>1. /\ requests \in Seq(Request) /\ now \in Nat
      /\ \A i \in DOMAIN requests : requests[i] \in Request /\ ApprovalsSound(requests[i])
  BY DEF RequestsOK, ApprovalInv
<1>2. Mapping = Mapped(requests) /\ Mapping' = Mapped(requests')
  <2>1. (RequestsOK /\ EffectsOnce)'
    BY ApprovalStep, EffectsStep
  <2> QED
    BY <2>1, MappingIsMapped, MappingIsMappedNext
<1>3. ASSUME UNCHANGED requests PROVE UNCHANGED Mapping
  BY <1>2, <1>3
<1>4. ASSUME NEW q, requests' = Append(requests, q)
      PROVE  Mapping' = Append(Mapping, Abstract(q))
  BY <1>1, <1>2, <1>4, MappedAppend
<1>4a. ASSUME NEW S, NEW status, requests' = Settled(S, status)
       PROVE  Mapping' = [i \in DOMAIN requests |->
                IF i \in S THEN Abstract([requests[i] EXCEPT !.status = status[i]])
                           ELSE Abstract(requests[i])]
  <2>1. Mapping' = Mapped(Settled(S, status))
    BY <1>2, <1>4a
  <2> QED
    BY <2>1 DEF Mapped, Settled
<1>5. ASSUME NEW a \in Action, NEW h \in Host, NEW p \in Actor, NEW d \in BOOLEAN,
             Submit(a, h, p, d)
      PROVE  Promise!Next
  <2> DEFINE r == NewRequest(a, h, p, d)
  <2>1. r \in Request /\ r.status = "pending" /\ r.approvals = << >> /\ r.by = p /\ r.dryRun = d
    <3>1. r.by = p /\ r.dryRun = d
      BY DEF NewRequest
    <3> QED
      BY <3>1, <1>1, NewRequestType, ActionAssumption
  <2>2. SubmitEnforced(r) \/ SubmitQueued(r)
    BY <1>5 DEF Submit
  <2> HIDE DEF r
  <2>3. CASE SubmitEnforced(r)
    <3>1. PICK ok \in Outcomes(r.action) :
            requests' = Append(requests, [r EXCEPT !.status = StatusAfter(ok)])
      BY <2>3 DEF SubmitEnforced
    <3>2. r.tier = "auto" /\ ~r.dryRun
      BY <2>3 DEF SubmitEnforced
    <3> DEFINE q == [r EXCEPT !.status = StatusAfter(ok)]
    <3>3. /\ q.by = p /\ q.dryRun = r.dryRun /\ q.tier = "auto" /\ q.approvals = << >>
          /\ q.status = StatusAfter(ok)
      BY <2>1, <3>2 DEF Request
    <3> HIDE DEF q
    <3>4. q.status \in {"executed", "failed"}
      BY <3>3 DEF StatusAfter
    <3>5. Backers(q) = {} /\ Need(q.tier) = 0
      BY <3>3 DEF Backers, Need
    <3>6. Abstract(q) = ASK(p, 0)
      BY <3>2, <3>3, <3>4, <3>5 DEF Abstract, ASK, State, Enforced
    <3>7. Mapping' = Append(Mapping, ASK(p, 0))
      BY <3>1, <3>6, <1>4 DEF q
    <3> QED
      BY <3>7, AskStep
  <2>4. CASE SubmitQueued(r)
    <3> DEFINE q == [r EXCEPT !.status = IF r.tier = "auto" THEN "dry_run_completed"
                                                            ELSE "pending"]
    <3>1. requests' = Append(requests, q)
      BY <2>4 DEF SubmitQueued
    <3>2. r.tier # "auto" \/ r.dryRun
      BY <2>4 DEF SubmitQueued
    <3>3. r.tier # "break_glass" \/ r.dryRun
      BY <2>4 DEF SubmitQueued, SubmitAllowed
    <3>4. /\ q.by = p /\ q.dryRun = r.dryRun /\ q.tier = r.tier /\ q.approvals = << >>
          /\ q.status = IF r.tier = "auto" THEN "dry_run_completed" ELSE "pending"
      BY <2>1 DEF Request
    <3> HIDE DEF q
    <3>5. Mapping' = Append(Mapping, Abstract(q))
      BY <3>1, <1>4
    <3>6. CASE r.dryRun
      <4>1. q.status \in {"dry_run_completed", "pending"}
        BY <3>4
      <4>2. Abstract(q) = REHEARSAL(p)
        BY <4>1, <3>4, <3>6 DEF Abstract, REHEARSAL, State, Enforced
      <4> QED
        BY <4>2, <3>5, RehearseStep
    <3>7. CASE ~r.dryRun
      <4>1. r.tier \in {"single", "dual"} /\ q.status = "pending"
        BY <2>1, <3>2, <3>3, <3>4, <3>7 DEF Request, Tier
      <4>2. Need(q.tier) \in 1..2
        BY <4>1, <3>4 DEF Need
      <4>3. Backers(q) = {}
        BY <3>4 DEF Backers
      <4>4. Abstract(q) = ASK(p, Need(q.tier))
        <5>1. State(q) = "open" /\ ~Enforced(q.status)
          BY <4>1, <3>4, <3>7 DEF State, Enforced
        <5>2. Abstract(q) = [by |-> p, need |-> Need(q.tier), backers |-> {},
                             state |-> "open", tries |-> 0]
          BY <5>1, <4>3, <3>4, <3>7 DEF Abstract
        <5>3. Need(q.tier) # 0
          BY <4>2
        <5> QED
          BY <5>2, <5>3 DEF ASK
      <4> QED
        BY <4>2, <4>4, <3>5, AskStep
    <3> QED
      BY <3>6, <3>7
  <2> QED
    BY <2>2, <2>3, <2>4
<1>6. ASSUME NEW i \in DOMAIN requests, NEW p \in Actor, NEW d \in Decision, Decide(i, p, d)
      PROVE  Promise!Next \/ UNCHANGED Mapping
  <2> DEFINE r == requests[i]
             q == IF d = "deny" THEN DeniedRequest(r, p) ELSE ApprovedRequest(r, p)
  <2>1. /\ r.status = "pending" /\ requests' = [requests EXCEPT ![i] = q]
        /\ d = "deny" \/ MayApprove(r, p)
    BY <1>6 DEF Decide
  <2>2. r \in Request /\ ApprovalsSound(r) /\ p \in Approver
    BY <1>1 DEF Approver
  <2>3. q \in Request /\ ApprovalsSound(q)
    BY <2>1, <2>2, <1>1, ApprovalKeepsSound, DenialKeepsSound
  <2>4. Mapping[i] = Abstract(r)
    BY <1>2 DEF Mapped
  <2>5. SameAsk(q, r)
    BY <2>2, DecisionKeepsAsk
  <2> HIDE DEF q
  <2>6. Mapping' = [Mapping EXCEPT ![i] = Abstract(q)]
    BY <2>1, <1>2, MappedUpdate
  <2> HIDE DEF r
  <2>7. CASE r.dryRun
    <3>1. Abstract(q) = Abstract(r)
      BY <2>2, <2>3, <2>5, <2>7, DryRunItem DEF SameAsk
    <3> QED
      BY <3>1, <2>4, <2>6, <1>2 DEF Mapped
  <2>8. CASE ~r.dryRun /\ d = "deny"
    <3>1. Abstract(q) = [Abstract(r) EXCEPT !.state = "closed"]
      BY <2>1, <2>2, <2>8, DeniedItem DEF q
    <3>2. Abstract(r).state = "open"
      BY <2>1, <2>2, <2>8, PendingItem
    <3>3. Mapping' = [j \in DOMAIN Mapping |->
            IF j \in {i} THEN [Mapping[j] EXCEPT !.state = "closed"] ELSE Mapping[j]]
      BY <3>1, <2>4, <2>6, Zenon
    <3> QED
      BY <3>2, <3>3, <2>4, CloseStep
  <2>9. CASE ~r.dryRun /\ d # "deny"
    <3> DEFINE B == Backers(r) \cup {p}
    <3>1. /\ p # r.by /\ p \notin Backers(r)
          /\ Abstract(r) = [by |-> r.by, need |-> Need(r.tier), backers |-> Backers(r),
                            state |-> "open", tries |-> 0]
          /\ Abstract(q) = [by |-> r.by, need |-> Need(r.tier), backers |-> B,
                            state |-> StateWith(B, Need(r.tier)), tries |-> 0]
      BY <2>1, <2>2, <2>9, <1>1, ApprovedItem DEF q
    <3> QED
      BY <3>1, <2>4, <2>6, BackStep
  <2> QED
    BY <2>7, <2>8, <2>9
<1>7. ASSUME NEW p \in Actor, FirstRunProof(p) PROVE Promise!Next
  <2> DEFINE r == NewRequest("isolate", DemoHost, p, TRUE)
             who == IF p = DemoApprover THEN DemoReviewer ELSE DemoApprover
             q == ApprovedRequest(r, who)
  <2>1. "isolate" \in ActionKind /\ DemoHost \in Host /\ TRUE \in BOOLEAN
    BY DemoAssumption DEF ActionKind
  <2>2. r \in Request /\ r.status = "pending" /\ r.by = p /\ r.dryRun
    <3>1. r.by = p /\ r.dryRun
      BY DEF NewRequest
    <3> QED
      BY <3>1, <2>1, <1>1, NewRequestType
  <2>3. requests' = Append(requests, q)
    BY <1>7 DEF FirstRunProof
  <2> HIDE DEF r, who
  <2>4. SameAsk(q, r) /\ ~Enforced(q.status)
    BY <2>2, DecisionKeepsAsk, DecisionQuiet
  <2> HIDE DEF q
  <2>5. Abstract(q) = REHEARSAL(p)
    BY <2>2, <2>4 DEF Abstract, REHEARSAL, State, SameAsk
  <2>6. Mapping' = Append(Mapping, Abstract(q))
    BY <2>3, <1>4
  <2> QED
    BY <2>5, <2>6, RehearseStep
<1>8. ASSUME ExpireStale PROVE Promise!Next
  <2> DEFINE S == {i \in Expirable : ~requests[i].dryRun}
             status == [i \in Expirable |-> "expired"]
             after(i) == [requests[i] EXCEPT !.status = "expired"]
  <2>1. requests' = Settled(Expirable, status)
    BY <1>8 DEF ExpireStale
  <2>2. Mapping' = [i \in DOMAIN requests |->
          IF i \in Expirable THEN Abstract([requests[i] EXCEPT !.status = status[i]])
                             ELSE Abstract(requests[i])]
    BY <2>1, <1>4a, Zenon
  <2>3. ASSUME NEW i \in DOMAIN requests, i \in Expirable
        PROVE  Abstract([requests[i] EXCEPT !.status = status[i]]) =
                 IF i \in S THEN [Abstract(requests[i]) EXCEPT !.state = "closed"]
                            ELSE Abstract(requests[i])
    <3> DEFINE r == requests[i]
               q == [r EXCEPT !.status = "expired"]
    <3>1. r \in Request /\ ApprovalsSound(r) /\ r.status = "pending" /\ status[i] = "expired"
      BY <2>3, <1>1 DEF Expirable
    <3>2. i \in S <=> ~r.dryRun
      BY <2>3
    <3> HIDE DEF r, S
    <3>3. CASE ~r.dryRun
      <4>1. Abstract(q) = [Abstract(r) EXCEPT !.state = "closed"]
        BY <3>1, <3>3, ExpiredItem
      <4> QED
        BY <4>1, <3>1, <3>2, <3>3, Zenon DEF r
    <3>4. CASE r.dryRun
      <4>1. /\ q.approvals = r.approvals /\ q.by = r.by /\ q.dryRun = r.dryRun /\ q.tier = r.tier
            /\ q.status = "expired"
        BY <3>1 DEF Request
      <4> HIDE DEF q
      <4>2. Abstract(q) = [by |-> r.by, need |-> 0, backers |-> {}, state |-> "closed", tries |-> 0]
        BY <4>1, <3>4 DEF Abstract, State, Enforced
      <4>3. Abstract(q) = Abstract(r)
        BY <4>2, <3>1, <3>4, DryRunItem
      <4> QED
        BY <4>3, <3>1, <3>2, <3>4, Zenon DEF r, q
    <3> QED
      BY <3>3, <3>4
  <2>4. S \in SUBSET DOMAIN requests /\ S \subseteq Expirable
    BY DEF Expirable
  <2>5. \A i \in S : Mapping[i].state = "open"
    <3> TAKE i \in S
    <3>1. /\ requests[i] \in Request /\ ApprovalsSound(requests[i])
          /\ requests[i].status = "pending" /\ ~requests[i].dryRun
      BY <1>1 DEF Expirable
    <3>2. Abstract(requests[i]).state = "open"
      BY <3>1, PendingItem
    <3> QED
      BY <3>2, <1>2, <2>4 DEF Mapped
  <2>6. /\ DOMAIN Mapping = DOMAIN requests
        /\ \A i \in DOMAIN requests : Mapping[i] = Abstract(requests[i])
    BY <1>2 DEF Mapped
  <2> HIDE DEF S, status
  <2>7. Mapping' = [i \in DOMAIN Mapping |->
          IF i \in S THEN [Mapping[i] EXCEPT !.state = "closed"] ELSE Mapping[i]]
    BY <2>2, <2>3, <2>4, <2>6, Zenon
  <2> QED
    BY <2>4, <2>5, <2>7, CloseStep
<1>9. ASSUME NEW S \in SUBSET DOMAIN requests, ExecuteApproved(S) PROVE Promise!Next
  <2> DEFINE E == ExecutableIn(S)
  <2>1. PICK ok \in [E -> BOOLEAN] : requests' = Settled(E, [i \in E |-> StatusAfter(ok[i])])
    BY <1>9 DEF ExecuteApproved
  <2> DEFINE status == [i \in E |-> StatusAfter(ok[i])]
  <2>1a. requests' = Settled(E, status)
    BY <2>1
  <2> HIDE DEF E, status
  <2>2. Mapping' = [i \in DOMAIN requests |->
          IF i \in E THEN Abstract([requests[i] EXCEPT !.status = status[i]])
                     ELSE Abstract(requests[i])]
    <3>1. Mapping' = Mapped(Settled(E, status))
      BY <2>1a, <1>2
    <3> QED
      BY <3>1 DEF Mapped, Settled
  <2>3. ASSUME NEW i \in E
        PROVE  /\ Abstract([requests[i] EXCEPT !.status = status[i]]) = Tried(Abstract(requests[i]))
               /\ Abstract(requests[i]) =
                    [by |-> requests[i].by, need |-> Need(requests[i].tier),
                     backers |-> Backers(requests[i]), state |-> "cleared", tries |-> 0]
    <3>1. requests[i] \in Request /\ requests[i].status = "approved" /\ ~requests[i].dryRun
      BY <1>1 DEF E, ExecutableIn
    <3>2. status[i] = StatusAfter(ok[i])
      BY DEF status
    <3> DEFINE r == requests[i]
               a == ok[i]
    <3> HIDE DEF r, a
    <3>3. r \in Request /\ r.status = "approved" /\ ~r.dryRun
      BY <3>1 DEF r
    <3>4. /\ Abstract([r EXCEPT !.status = StatusAfter(a)]) = Tried(Abstract(r))
          /\ Abstract(r) = [by |-> r.by, need |-> Need(r.tier), backers |-> Backers(r),
                            state |-> "cleared", tries |-> 0]
      <4>1. \A v : Abstract([r EXCEPT !.status = StatusAfter(v)]) = Tried(Abstract(r))
        BY <3>3, ExecutedItem, Zenon
      <4>2. Abstract(r) = [by |-> r.by, need |-> Need(r.tier), backers |-> Backers(r),
                            state |-> "cleared", tries |-> 0]
        BY <3>3, ExecutedItem, Zenon
      <4> QED
        BY <4>1, <4>2, Zenon
    <3> QED
      BY <3>2, <3>4, Zenon DEF r, a
  <2>4. E \in SUBSET DOMAIN requests
    BY DEF E, ExecutableIn
  <2>5. /\ DOMAIN Mapping = DOMAIN requests
        /\ \A i \in DOMAIN requests : Mapping[i] = Abstract(requests[i])
    BY <1>2 DEF Mapped
  <2>6. Mapping' = [i \in DOMAIN Mapping |-> IF i \in E THEN Tried(Mapping[i]) ELSE Mapping[i]]
    BY <2>2, <2>3, <2>4, <2>5, Zenon
  <2>7. ASSUME NEW i \in E
        PROVE  Mapping[i] = [by |-> Mapping[i].by, need |-> Mapping[i].need,
                             backers |-> Mapping[i].backers, state |-> "cleared", tries |-> 0]
    <3> DEFINE m == Mapping[i]
               r == requests[i]
    <3>1. m = [by |-> r.by, need |-> Need(r.tier), backers |-> Backers(r),
               state |-> "cleared", tries |-> 0]
      BY <2>3, <2>4, <2>5
    <3> HIDE DEF m, r
    <3>2. m = [by |-> m.by, need |-> m.need, backers |-> m.backers, state |-> "cleared", tries |-> 0]
      BY <3>1
    <3> QED
      BY <3>2, Zenon DEF m
  <2> QED
    BY <2>4, <2>6, <2>7, CarryOutStep
<1>10. ASSUME NEW h \in Host, RegisterProtectedAsset(h) PROVE UNCHANGED Mapping
  BY <1>10, <1>3 DEF RegisterProtectedAsset
<1>11. CASE Tick
  BY <1>11, <1>3 DEF Tick
<1>12. CASE UNCHANGED vars
  BY <1>12, <1>3 DEF vars
<1> QED
  BY <1>5, <1>6, <1>7, <1>8, <1>9, <1>10, <1>11, <1>12 DEF Next

\* The engines are called once for a request that was enforced, whatever is
\* decided, expired or executed again, and for no other.
THEOREM OneCallPerRequest == Spec => []EffectsOnce
<1>1. Init => RequestsOK /\ EffectsOnce
  BY DEF Init, RequestsOK, EffectsOnce
<1>2. Init => ApprovalInv
  BY DEF Init, ApprovalInv
<1>3. RequestsOK /\ ApprovalInv /\ EffectsOnce /\ [Next]_vars
        => (RequestsOK /\ ApprovalInv /\ EffectsOnce)'
  BY ApprovalStep, EffectsStep
<1> QED
  BY <1>1, <1>2, <1>3, PTL DEF Spec

\* The orchestrator implements Approval: for any actors, hosts, action kinds,
\* SLA and number of requests it does nothing that Approval does not allow.
THEOREM OrchestratorImplementsApproval == Spec => ImplementsApproval
<1>1. Init => RequestsOK /\ ApprovalInv /\ EffectsOnce
  BY DEF Init, RequestsOK, ApprovalInv, EffectsOnce
<1>2. Init => Promise!Init
  BY DEF Init, Promise!Init
<1>3. RequestsOK /\ ApprovalInv /\ EffectsOnce /\ [Next]_vars
        => (RequestsOK /\ ApprovalInv /\ EffectsOnce)'
  BY ApprovalStep, EffectsStep
<1>4. RequestsOK /\ ApprovalInv /\ EffectsOnce /\ [Next]_vars
        => [Promise!Next]_([i \in DOMAIN requests |-> ItemOf(i)])
  BY RefinementStep DEF Mapping
<1> QED
  BY <1>1, <1>2, <1>3, <1>4, PTL DEF Spec, ImplementsApproval, Promise!Spec
=============================================================================
