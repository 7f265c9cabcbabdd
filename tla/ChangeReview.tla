---------------------------- MODULE ChangeReview -----------------------------
(***************************************************************************)
(* Remediation change reviews (src/remediation.rs): recording, approving   *)
(* and rolling back, each a load of the whole list from the storage, a     *)
(* change and a save, under the AppState lock.                             *)
(*                                                                         *)
(* The list is kept sorted by the time of recording, so an updated review  *)
(* stays where it was and a recorded one is the last.  A digest is what    *)
(* was digested: the chain is the signatures in order, a signature is who  *)
(* signed what.  Title, risk, evidence and comments are left out;          *)
(* required_approvers is what risk and payload make of it.                 *)
(***************************************************************************)
EXTENDS Integers, Sequences, FiniteSets, Ascending

CONSTANTS
  Id, Actor,
  Required,       \* values of required_approvers
  MaxReviews,     \* MAX_REMEDIATION_CHANGE_REVIEWS
  AllowLive,      \* remediation.allow_live_rollback
  MaxSigned,      \* bound: signatures given
  MaxRecorded,    \* bound: reviews recorded
  MaxRuns         \* bound: rollbacks

ASSUME ChangeReviewAssumption ==
  /\ Required \subseteq 1..5 /\ MaxReviews \in Nat \ {0}
  /\ AllowLive \in BOOLEAN
  /\ MaxSigned \in Nat /\ MaxRecorded \in Nat /\ MaxRuns \in Nat

VARIABLES
  reviews,    \* the stored list
  signed,     \* signatures given so far
  recorded,   \* the clock of recordings
  runs        \* history: rollbacks carried out, each with its review as it was

reviewVars == <<reviews, signed, recorded, runs>>

ReviewInit == reviews = <<>> /\ signed = 0 /\ recorded = 0 /\ runs = <<>>

-----------------------------------------------------------------------------
Approvers(r) == {r.approvals[k].who : k \in {k \in DOMAIN r.approvals : r.approvals[k].decision = "approve"}}
Denied(r) == \E k \in DOMAIN r.approvals : r.approvals[k].decision = "deny"

\* build_remediation_rollback_proof
Proof(r) == [chain |-> r.approvals, status |-> "ready"]

\* The elements of s at positions S, in their order: a retain.
Retained(s, S) == LET ids == InOrder(S) IN [k \in 1..Cardinality(S) |-> s[ids[k]]]

\* The approvals a new decision of who leaves standing.
Others(r, who) ==
  Retained(r.approvals, {k \in DOMAIN r.approvals : r.approvals[k].who # who})

\* apply_remediation_review_approval
Decided(r, who, decision) ==
  LET a == Append(Others(r, who), [who |-> who, decision |-> decision])
      count == Cardinality({k \in DOMAIN a : a[k].decision = "approve"})
      status == IF \E k \in DOMAIN a : a[k].decision = "deny" THEN "denied"
                ELSE IF count >= r.required THEN "approved" ELSE "pending_review"
      s == [r EXCEPT !.approvals = a, !.status = status]
  IN IF status = "approved" /\ r.proof = <<>>
       THEN [s EXCEPT !.proof = <<Proof(s)>>, !.recovery = "ready"]
       ELSE s

\* normalize_remediation_change_reviews
Normalized(list) ==
  IF Len(list) > MaxReviews THEN SubSeq(list, Len(list) - MaxReviews + 1, Len(list)) ELSE list

\* save_remediation_change_reviews; a refused save leaves the list stored before.
SaveReviews(list) == reviews' = Normalized(list) \/ UNCHANGED reviews

\* approval_status of a new review, as the payload has it
GivenStatus == {"pending_review", "approved"}

\* given is history.
NewReview(id, required, status) ==
  [id |-> id, at |-> recorded + 1, required |-> required, status |-> status,
   given |-> status, recovery |-> "not_started", approvals |-> <<>>, proof |-> <<>>]

\* upsert_remediation_change_review's list before the push.
ReviewsWithout(id) == Retained(reviews, {i \in DOMAIN reviews : reviews[i].id # id})

\* record_remediation_change_review: takes the place of a review with its id;
\* the payload may bring a decision of the one who records.
RecordReview(id, by, required, status, decision) ==
  LET r == NewReview(id, required, status)
  IN /\ recorded < MaxRecorded /\ recorded' = recorded + 1
     /\ IF decision = "none"
          THEN SaveReviews(Append(ReviewsWithout(id), r)) /\ UNCHANGED signed
          ELSE /\ signed < MaxSigned /\ signed' = signed + 1
               /\ SaveReviews(Append(ReviewsWithout(id), Decided(r, by, decision)))
     /\ UNCHANGED runs

\* approve_remediation_change_review
Approve(i, who, decision) ==
  /\ signed < MaxSigned /\ signed' = signed + 1
  /\ SaveReviews([reviews EXCEPT ![i] = Decided(reviews[i], who, decision)])
  /\ UNCHANGED <<recorded, runs>>

\* Mutant: a review with a rollback proof was approved.
MayRollBackProven(r, live) == (live => AllowLive) /\ r.proof # <<>>

\* What execute_and_record_review_rollback asks for; a live rollback must also
\* name the host, which the caller gets right or is refused.
MayRollBack(r, live) == (live => AllowLive) /\ r.status = "approved"

\* execute_and_record_review_rollback: the rollback first, then the record.
RollBack(i, live) ==
  LET r == reviews[i]
      proof == IF r.proof = <<>> THEN Proof(r) ELSE r.proof[1]
  IN /\ Len(runs) < MaxRuns
     /\ MayRollBack(r, live)
     /\ \E ok \in IF live THEN BOOLEAN ELSE {TRUE} :   \* commands may fail
          LET said == CASE ~live -> "verified" [] live /\ ok -> "executed" [] OTHER -> "failed"
              done == CASE ~live -> "dry_run_verified" [] live /\ ok -> "executed"
                        [] OTHER -> "execution_failed"
          IN /\ SaveReviews([reviews EXCEPT ![i].proof = <<[proof EXCEPT !.status = done]>>,
                                     ![i].recovery = said])
             /\ runs' = Append(runs, [live |-> live, review |-> r])
     /\ UNCHANGED <<signed, recorded>>

ReviewNext ==
  \/ \E id \in Id, p \in Actor, n \in Required, s \in GivenStatus, d \in {"none", "approve", "deny"} :
        RecordReview(id, p, n, s, d)
  \/ \E i \in DOMAIN reviews, p \in Actor, d \in {"approve", "deny"} : Approve(i, p, d)
  \/ \E i \in DOMAIN reviews, live \in BOOLEAN : RollBack(i, live)

ReviewSpec == ReviewInit /\ [][ReviewNext]_reviewVars

-----------------------------------------------------------------------------
(* Properties *)

\* The approvals a review needs are there, each from somebody else, and
\* nobody's last word on it is a denial.
Backed(r) == Cardinality(Approvers(r)) >= r.required /\ ~Denied(r)

\* A review that was recorded as approved already, and that nobody has signed.
GivenApproved(r) == r.given = "approved" /\ r.approvals = <<>>

\* Whatever is decided, changed of mind, recorded again or rolled back, a
\* review that is approved has the approvals it requires of as many people,
\* and so had every review whose rollback was run: a denial stops it even
\* where an earlier approval left a rollback proof.  The way out is a review
\* recorded as approved, until the first signature takes that status from it.
RunsBacked ==
  /\ \A i \in DOMAIN reviews :
        reviews[i].status = "approved" => Backed(reviews[i]) \/ GivenApproved(reviews[i])
  /\ \A k \in DOMAIN runs : Backed(runs[k].review) \/ GivenApproved(runs[k].review)
=============================================================================
