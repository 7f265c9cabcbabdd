----------------------------- MODULE Escalation ------------------------------
(***************************************************************************)
(* Escalations of unacknowledged alerts (EscalationEngine,                 *)
(* src/escalation.rs) under one policy that operators may replace or       *)
(* remove while escalations run.  Contacts and channels of a level are one *)
(* notification; times are ages, and a call is served with a clock it read *)
(* up to MaxWait before it got the AppState lock.  The route takes levels  *)
(* with any numbers in any order.  On-call schedules only answer queries   *)
(* and are left out.                                                       *)
(***************************************************************************)
EXTENDS Integers, Sequences, SequencesExt, FiniteSets

CONSTANTS
  Policies,   \* the level lists a policy may have: sequences of [level, sla]
  MaxWait,    \* longest wait for the AppState lock
  AgeCap,     \* bound: an age past which every deadline has passed, for the
              \* latest reader too
  MaxEsc,     \* bound: escalations started
  MaxTold     \* bound: notifications an escalation keeps, more than a policy
              \* has levels

ASSUME EscalationAssumption ==
  /\ Policies \subseteq Seq([level : Nat, sla : Nat])
  /\ MaxWait \in Nat /\ MaxEsc \in Nat
  /\ MaxTold \in Nat /\ \A p \in Policies : Len(p) < MaxTold
  /\ AgeCap \in Nat /\ AgeCap >= MaxWait
  /\ \A p \in Policies : \A i \in DOMAIN p : AgeCap >= MaxWait + p[i].sla

VARIABLES
  policy,   \* <<levels>>, or <<>> when there is none
  policyEnabled,
  active    \* the escalations, in the order they were started

escalationVars == <<policy, policyEnabled, active>>

Levels == {1} \cup UNION {{p[i].level : i \in DOMAIN p} : p \in Policies}
Status == {"Active", "Acknowledged", "Resolved", "Expired"}
Escalated == [level : Levels, status : Status, age : 0..AgeCap, notified : Seq(Levels)]

EscalationInit ==
  /\ policy \in {<<p>> : p \in Policies}
  /\ policyEnabled = TRUE
  /\ active = <<>>

-----------------------------------------------------------------------------
\* add_policy: a policy of that id is replaced.
AddPolicy(p, on) ==
  /\ policy' = <<p>> /\ policyEnabled' = on
  /\ UNCHANGED active

\* remove_policy; no route of the server calls it.
RemovePolicy ==
  /\ policy # <<>>
  /\ policy' = <<>>
  /\ UNCHANGED <<policyEnabled, active>>

\* Mutant: levels are counted from 0.
StartEscalationAtZero(late) ==
  /\ Len(active) < MaxEsc
  /\ policy # <<>> /\ policyEnabled /\ policy[1] # <<>>
  /\ active' = Append(active, [level |-> 0, status |-> "Active", age |-> late,
                               notified |-> <<policy[1][1].level>>])
  /\ UNCHANGED <<policy, policyEnabled>>

\* start_escalation: the first level is notified, the current level is 1.
StartEscalation(late) ==
  /\ Len(active) < MaxEsc
  /\ policy # <<>> /\ policyEnabled /\ policy[1] # <<>>
  /\ active' = Append(active, [level |-> 1, status |-> "Active", age |-> late,
                               notified |-> <<policy[1][1].level>>])
  /\ UNCHANGED <<policy, policyEnabled>>

\* acknowledge
Acknowledge(e) ==
  /\ active[e].status = "Active"
  /\ active' = [active EXCEPT ![e].status = "Acknowledged"]
  /\ UNCHANGED <<policy, policyEnabled>>

\* resolve
Resolve(e) ==
  /\ active' = [active EXCEPT ![e].status = "Resolved"]
  /\ UNCHANGED <<policy, policyEnabled>>

\* Escalations check_sla passes over.
Skipped(x) == x.status # "Active" \/ policy = <<>> \/ policy[1] = <<>>

\* Mutant: the last level counts as already notified.
NextLevelsButLast(i) == {i + 1} \ {Len(policy[1])}

\* The level after level i, if there is one.
NextLevels(i) == {i + 1} \cap DOMAIN policy[1]

\* Mutant: last_escalated_at is the time of the last check.
WaitsAnew(x, late) == [x EXCEPT !.age = late]

\* The deadline of the current level has not passed.
Waits(x, late) == x

\* The notification of level l is added to those sent.
Told(sent, l) == IF Len(sent) < MaxTold THEN Append(sent, l) ELSE sent

\* What check_sla makes of one escalation: Expired when its level is not in the
\* policy (any more) or the last one's deadline has passed.
Checked(x, late) ==
  LET levels == policy[1]
      here == {i \in DOMAIN levels : levels[i].level = x.level}
      i == CHOOSE m \in here : \A n \in here : m <= n
      elapsed == IF x.age > late THEN x.age - late ELSE 0
      Climbed(j) == [x EXCEPT !.level = levels[j].level, !.age = late,
                              !.notified = Told(@, levels[j].level)]
  IN IF Skipped(x) THEN x
     ELSE IF here = {} THEN [x EXCEPT !.status = "Expired"]
     ELSE IF elapsed < levels[i].sla THEN Waits(x, late)
     ELSE IF NextLevels(i) = {} THEN [x EXCEPT !.status = "Expired"]
     ELSE Climbed(CHOOSE j \in NextLevels(i) : TRUE)

\* check_sla
CheckSla(late) ==
  /\ active' = [e \in DOMAIN active |-> Checked(active[e], late)]
  /\ UNCHANGED <<policy, policyEnabled>>

TimePasses ==
  /\ active' = [e \in DOMAIN active |-> [active[e] EXCEPT !.age = IF @ < AgeCap THEN @ + 1 ELSE @]]
  /\ UNCHANGED <<policy, policyEnabled>>

Wait == 0..MaxWait

EscalationNext ==
  \/ \E p \in Policies, on \in BOOLEAN : AddPolicy(p, on)
  \/ RemovePolicy
  \/ \E late \in Wait : StartEscalation(late)
  \/ \E e \in DOMAIN active : Acknowledge(e)
  \/ \E e \in DOMAIN active : Resolve(e)
  \/ \E late \in Wait : CheckSla(late)
  \/ TimePasses

EscalationSpec == EscalationInit /\ [][EscalationNext]_escalationVars

\* Time passes, and somebody keeps calling the check-sla route: nothing in the
\* server calls check_sla by itself.
Polled == WF_escalationVars(TimePasses) /\ WF_escalationVars(\E late \in Wait : CheckSla(late))

-----------------------------------------------------------------------------
(* Properties *)

\* Every variable has its type.
EscalationTypeOK ==
  /\ policy \in {<<p>> : p \in Policies} \cup {<<>>}
  /\ policyEnabled \in BOOLEAN
  /\ active \in Seq(Escalated) /\ Len(active) <= MaxEsc

\* An escalation that has followed the policy so far and expires has notified
\* every level of it, in order: nobody is skipped because checks come late or
\* together, or because the policy was replaced by one that goes on
\* differently.  This is so of policies whose first level is numbered 1, the
\* level start_escalation takes for the current one; in any other the first
\* check lets the escalation expire.
ExpiredAllNotified ==
  [][\A e \in DOMAIN active :
        active[e].status = "Active" /\ active'[e].status = "Expired" =>
           LET numbers == [i \in DOMAIN policy[1] |-> policy[1][i].level]
           IN numbers[1] = 1 /\ IsPrefix(active[e].notified, numbers)
                 => active[e].notified = numbers]_escalationVars

Waiting(e) == e \in DOMAIN active /\ active[e].status = "Active"

\* The numbers of the levels grow along the list, which the code takes for
\* granted and no route asks for.
Ascends(p) == \A i, j \in DOMAIN p : i < j => p[i].level < p[j].level

\* A policy that leads an escalation to an end.
Leads == policy # <<>> /\ policy[1] # <<>> /\ Ascends(policy[1])

\* An escalation nobody acknowledges comes to its end, however often its
\* policy is replaced, unless the policy, or all its levels, are taken away
\* or its level numbers do not ascend, if only for a time.  check_sla finds the
\* current level by its number, so of two levels of the same number the first
\* is reached again and again.
EveryEscalationEnds ==
  \A e \in 1..MaxEsc : Waiting(e) ~> (~Waiting(e) \/ ~Leads)
=============================================================================
