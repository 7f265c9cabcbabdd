---------------------------- MODULE RecordsProofs ----------------------------
(***************************************************************************)
(* Theorems about what the server keeps for its operators: console         *)
(* sessions, change reviews, the event stream, the audit log, playbook     *)
(* executions and escalations.  They share no state, and each has a        *)
(* specification and an inductive invariant of its own.                    *)
(***************************************************************************)
EXTENDS Workflows, Records, AscendingProofs, SequenceTheorems, TLAPS

-----------------------------------------------------------------------------
(* Sessions: any tokens, any lifetimes, a clock without end. *)

\* What memory or the database holds was issued as it is held and not ended;
\* out is the tokens whose logout was saved.
Genuine(f, given, out) ==
  \A t \in DOMAIN f : t \in DOMAIN given /\ f[t] = given[t] /\ t \notin out

\* It holds every session that lives at n and was not ended.
Complete(f, given, ended, n) ==
  \A t \in DOMAIN given : n < given[t] /\ t \notin ended => t \in DOMAIN f /\ f[t] = given[t]

Ended == loggedOut \ unsaved

SessionsInv ==
  /\ now \in Nat /\ \A t \in DOMAIN issued : issued[t] \in Nat
  /\ loggedOut \subseteq DOMAIN issued
  /\ ~row => DOMAIN disk = {}
  /\ Genuine(sessions, issued, Ended) /\ Genuine(disk, issued, Ended)
  /\ \A t \in accepted : t \in DOMAIN issued /\ now < issued[t] /\ t \notin Ended
  /\ ~lapsed => Complete(sessions, issued, loggedOut, now) /\ Complete(disk, issued, loggedOut, now)

\* A map without one token.
LEMMA WithoutFacts ==
  ASSUME NEW f, NEW t
  PROVE  /\ DOMAIN Without(f, t) = DOMAIN f \ {t}
         /\ \A u \in DOMAIN f \ {t} : Without(f, t)[u] = f[u]
BY DEF Without, Restrict

\* What is left of a map that is read back.
LEMMA FreshFacts ==
  ASSUME NEW f
  PROVE  /\ DOMAIN Fresh(f) = {t \in DOMAIN f : now < f[t]}
         /\ \A t \in DOMAIN Fresh(f) : Fresh(f)[t] = f[t]
BY DEF Fresh, Restrict, Alive

LEMMA WithoutKeeps ==
  ASSUME NEW f, NEW t, NEW given, NEW out, Genuine(f, given, out)
  PROVE  Genuine(Without(f, t), given, out)
<1> DEFINE g == Without(f, t)
<1>1. DOMAIN g = DOMAIN f \ {t} /\ \A u \in DOMAIN f \ {t} : g[u] = f[u]
  BY WithoutFacts
<1> HIDE DEF g
<1>2. Genuine(g, given, out)
  BY <1>1 DEF Genuine
<1> QED BY <1>2 DEF g

LEMMA FreshKeeps ==
  ASSUME NEW f, NEW given, NEW out, Genuine(f, given, out)
  PROVE  Genuine(Fresh(f), given, out)
BY FreshFacts DEF Genuine

\* A session that lives is not dropped with those that expired.
LEMMA FreshComplete ==
  ASSUME NEW f, NEW given, NEW ended, Complete(f, given, ended, now)
  PROVE  Complete(Fresh(f), given, ended, now)
BY FreshFacts DEF Complete

\* A session that expired, or that is ended, may go.
LEMMA WithoutComplete ==
  ASSUME NEW f, NEW t, NEW given, NEW ended, NEW n, Complete(f, given, ended, n),
         t \in DOMAIN given => t \in ended \/ ~(n < given[t])
  PROVE  Complete(Without(f, t), given, ended, n)
<1>1. /\ DOMAIN Without(f, t) = DOMAIN f \ {t}
      /\ \A u \in DOMAIN f \ {t} : Without(f, t)[u] = f[u]
  BY WithoutFacts
<1> QED BY <1>1 DEF Complete

LEMMA SessionsStart == SessionInit => SessionsInv
BY DEF SessionInit, SessionsInv, Nobody, Genuine, Complete, Ended

LEMMA SessionsStep == SessionsInv /\ [SessionNext]_sessionVars => SessionsInv'
<1> SUFFICES ASSUME SessionsInv, [SessionNext]_sessionVars PROVE SessionsInv'
  OBVIOUS
<1>0. /\ now \in Nat /\ \A t \in DOMAIN issued : issued[t] \in Nat
      /\ loggedOut \subseteq DOMAIN issued
      /\ ~row => DOMAIN disk = {}
      /\ Genuine(sessions, issued, Ended) /\ Genuine(disk, issued, Ended)
      /\ \A t \in accepted : t \in DOMAIN issued /\ now < issued[t] /\ t \notin Ended
      /\ ~lapsed => Complete(sessions, issued, loggedOut, now)
                    /\ Complete(disk, issued, loggedOut, now)
  BY DEF SessionsInv
\* An operation that issues and ends no session: what is left to show.
<1>k. ASSUME UNCHANGED <<now, issued, loggedOut, unsaved>>,
             ~row' => DOMAIN disk' = {},
             Genuine(sessions', issued, Ended), Genuine(disk', issued, Ended),
             \A t \in accepted' : t \in DOMAIN issued /\ now < issued[t] /\ t \notin Ended,
             ~lapsed' => Complete(sessions', issued, loggedOut, now)
                         /\ Complete(disk', issued, loggedOut, now)
      PROVE  SessionsInv'
  BY <1>0, <1>k DEF SessionsInv, Ended
<1>1. ASSUME NEW t \in Token, NEW ttl \in Ttl, NEW ok \in BOOLEAN, CreateSession(t, ttl, ok)
      PROVE  SessionsInv'
  <2> DEFINE e == now + ttl
  <2>0. /\ t \notin DOMAIN issued
        /\ issued' = With(issued, t, e) /\ sessions' = With(sessions, t, e)
        /\ disk' = (IF ok THEN sessions' ELSE disk) /\ row' = (row \/ ok)
        /\ lapsed' = (lapsed \/ ~ok)
        /\ UNCHANGED <<now, loggedOut, unsaved, accepted>>
    BY <1>1 DEF CreateSession, Save
  <2>1. e \in Nat
    BY <1>0, SessionsAssumption
  <2> HIDE DEF e
  <2>i. /\ DOMAIN With(issued, t, e) = DOMAIN issued \cup {t} /\ With(issued, t, e)[t] = e
        /\ \A u \in DOMAIN issued : u # t => With(issued, t, e)[u] = issued[u]
    BY DEF With
  <2>2. /\ DOMAIN issued' = DOMAIN issued \cup {t} /\ issued'[t] = e
        /\ \A u \in DOMAIN issued : issued'[u] = issued[u]
    BY <2>0, <2>i
  <2>s. /\ DOMAIN With(sessions, t, e) = DOMAIN sessions \cup {t} /\ With(sessions, t, e)[t] = e
        /\ \A u \in DOMAIN sessions : u # t => With(sessions, t, e)[u] = sessions[u]
    BY DEF With
  <2>3. /\ DOMAIN sessions' = DOMAIN sessions \cup {t} /\ sessions'[t] = e
        /\ \A u \in DOMAIN sessions : u # t => sessions'[u] = sessions[u]
    BY <2>0, <2>s
  <2>4. t \notin loggedOut
    BY <1>0, <2>0
  <2>5. Genuine(sessions', issued', Ended)
    BY <1>0, <2>2, <2>3, <2>4 DEF Genuine, Ended
  <2>6. Genuine(disk, issued', Ended)
    BY <1>0, <2>2 DEF Genuine
  <2>7. Genuine(disk', issued', Ended)
    BY <2>0, <2>5, <2>6
  <2>8. ~row' => DOMAIN disk' = {}
    BY <1>0, <2>0
  <2>9. ~lapsed' => Complete(sessions', issued', loggedOut, now)
    BY <1>0, <2>0, <2>2, <2>3 DEF Complete
  <2>10. ~lapsed' => Complete(disk', issued', loggedOut, now)
    BY <2>0, <2>9
  <2>11. \A u \in DOMAIN issued' : issued'[u] \in Nat
    BY <1>0, <2>1, <2>2
  <2>12. \A u \in accepted' : u \in DOMAIN issued' /\ now' < issued'[u] /\ u \notin Ended
    BY <1>0, <2>0, <2>2
  <2>13. Ended' = Ended /\ loggedOut' = loggedOut /\ now' = now
    BY <2>0 DEF Ended
  <2> QED BY <1>0, <2>2, <2>5, <2>7, <2>8, <2>9, <2>10, <2>11, <2>12, <2>13 DEF SessionsInv
<1>2. ASSUME NEW t \in Token, AuthenticateKnown(t) PROVE SessionsInv'
  <2>1. /\ t \in DOMAIN sessions /\ now < sessions[t] /\ accepted' = accepted \cup {t}
        /\ UNCHANGED <<sessions, disk, row, now, issued, loggedOut, unsaved, lapsed>>
    BY <1>2 DEF AuthenticateKnown, Alive
  <2>2. t \in DOMAIN issued /\ now < issued[t] /\ t \notin Ended
    BY <1>0, <2>1 DEF Genuine
  <2> QED BY <1>0, <1>k, <2>1, <2>2
<1>3. ASSUME NEW t \in Token, NEW ok \in BOOLEAN, NEW read \in BOOLEAN,
             AuthenticateReloaded(t, ok, read)
      PROVE  SessionsInv'
  <2> DEFINE map == Without(sessions, t)
  <2>0. /\ t \in DOMAIN sessions => ~(now < sessions[t])
        /\ IF t \in DOMAIN sessions
             THEN disk' = (IF ok THEN map ELSE disk) /\ row' = (row \/ ok)
             ELSE UNCHANGED <<disk, row>>
        /\ sessions' = IF read /\ row' THEN Fresh(disk') ELSE map
        /\ lapsed' = (lapsed \/ ~ok \/ ~read)
        /\ accepted' = IF t \in DOMAIN sessions' /\ now < sessions'[t]
                         THEN accepted \cup {t} ELSE accepted
        /\ UNCHANGED <<now, issued, loggedOut, unsaved>>
    BY <1>3 DEF AuthenticateReloaded, Save, Reloaded, Alive
  <2>1. Genuine(map, issued, Ended)
    BY <1>0, WithoutKeeps
  <2>2. Complete(sessions, issued, loggedOut, now) => Complete(map, issued, loggedOut, now)
    <3>1. CASE t \in DOMAIN sessions
      <4>1. t \in DOMAIN issued /\ ~(now < issued[t])
        BY <1>0, <2>0, <3>1 DEF Genuine
      <4> QED BY <4>1, WithoutComplete
    <3>2. CASE t \notin DOMAIN sessions
      <4>1. DOMAIN map = DOMAIN sessions /\ \A u \in DOMAIN sessions : map[u] = sessions[u]
        BY <3>2, WithoutFacts
      <4> QED BY <4>1 DEF Complete
    <3> QED BY <3>1, <3>2
  <2> HIDE DEF map
  <2>3. Genuine(disk', issued, Ended)
    BY <1>0, <2>0, <2>1
  <2>4. Genuine(sessions', issued, Ended)
    BY <2>0, <2>1, <2>3, FreshKeeps
  <2>5. ~lapsed' => Complete(disk', issued, loggedOut, now)
    BY <1>0, <2>0, <2>2
  <2>6. ~lapsed' => Complete(sessions', issued, loggedOut, now)
    BY <1>0, <2>0, <2>2, <2>5, FreshComplete
  <2>7. ~row' => DOMAIN disk' = {}
    BY <1>0, <2>0
  <2>8. \A u \in accepted' : u \in DOMAIN issued /\ now < issued[u] /\ u \notin Ended
    BY <1>0, <2>0, <2>4 DEF Genuine
  <2> QED BY <1>k, <2>0, <2>3, <2>4, <2>5, <2>6, <2>7, <2>8
<1>4. ASSUME NEW t \in Token, NEW ok \in BOOLEAN, NEW read \in BOOLEAN, Logout(t, ok, read)
      PROVE  SessionsInv'
  <2> DEFINE map == IF t \in DOMAIN sessions THEN sessions
                    ELSE IF read /\ row THEN Fresh(disk) ELSE sessions
             rest == Without(map, t)
  <2>0. /\ sessions' = rest
        /\ IF t \in DOMAIN map
             THEN /\ disk' = (IF ok THEN rest ELSE disk) /\ row' = (row \/ ok)
                  /\ loggedOut' = loggedOut \cup {t}
                  /\ unsaved' = IF ok THEN unsaved ELSE unsaved \cup {t}
             ELSE UNCHANGED <<disk, row, loggedOut, unsaved>>
        /\ lapsed' = (lapsed \/ ~ok \/ ~read) /\ accepted' = {}
        /\ UNCHANGED <<now, issued>>
    BY <1>4 DEF Logout, Save, Reloaded
  <2>1. Genuine(map, issued, Ended)
    BY <1>0, FreshKeeps
  <2>2. ~lapsed => Complete(map, issued, loggedOut, now)
    BY <1>0, FreshComplete
  <2>3. /\ DOMAIN rest = DOMAIN map \ {t}
        /\ \A u \in DOMAIN rest : rest[u] = map[u]
    BY WithoutFacts
  <2> HIDE DEF map, rest
  <2>4. CASE t \in DOMAIN map
    <3>1. t \in DOMAIN issued
      BY <2>1, <2>4 DEF Genuine
    <3>2. Ended' = IF ok THEN Ended \cup ({t} \ unsaved) ELSE Ended \ {t}
      BY <2>0, <2>4 DEF Ended
    <3>3. Genuine(rest, issued, Ended')
      BY <2>1, <2>3, <3>2 DEF Genuine
    <3>4. Genuine(disk', issued, Ended')
      BY <1>0, <2>0, <2>4, <3>2, <3>3 DEF Genuine
    <3>5. ~lapsed' => Complete(rest, issued, loggedOut', now)
      BY <2>0, <2>2, <2>3, <2>4 DEF Complete
    <3>6. ~lapsed' => Complete(disk', issued, loggedOut', now)
      BY <2>0, <2>4, <3>5
    <3>7. ~row' => DOMAIN disk' = {}
      BY <1>0, <2>0, <2>4
    <3>8. loggedOut' \subseteq DOMAIN issued
      BY <1>0, <2>0, <2>4, <3>1
    <3> QED BY <1>0, <2>0, <3>3, <3>4, <3>5, <3>6, <3>7, <3>8 DEF SessionsInv
  <2>5. CASE t \notin DOMAIN map
    <3>1. Genuine(rest, issued, Ended)
      BY <2>1, <2>3 DEF Genuine
    <3>2. ~lapsed => Complete(rest, issued, loggedOut, now)
      BY <2>2, <2>3, <2>5 DEF Complete
    <3> QED BY <1>0, <1>k, <2>0, <2>5, <3>1, <3>2
  <2> QED BY <2>4, <2>5
<1>5. ASSUME NEW ok \in BOOLEAN, CleanupExpired(ok) PROVE SessionsInv'
  <2>0. /\ sessions' = Fresh(sessions)
        /\ disk' = (IF ok THEN sessions' ELSE disk) /\ row' = (row \/ ok)
        /\ lapsed' = (lapsed \/ ~ok)
        /\ UNCHANGED <<now, issued, loggedOut, unsaved, accepted>>
    BY <1>5 DEF CleanupExpired, Save
  <2>1. Genuine(sessions', issued, Ended)
    BY <1>0, <2>0, FreshKeeps
  <2>2. ~lapsed' => Complete(sessions', issued, loggedOut, now)
    BY <1>0, <2>0, FreshComplete
  <2> QED BY <1>0, <1>k, <2>0, <2>1, <2>2
<1>6. ASSUME NEW read \in BOOLEAN, Start(read) PROVE SessionsInv'
  <2>0. /\ sessions' = IF read /\ row THEN Fresh(disk) ELSE Nobody
        /\ lapsed' = (lapsed \/ ~read)
        /\ UNCHANGED <<disk, row, now, issued, loggedOut, unsaved, accepted>>
    BY <1>6 DEF Start, Reloaded
  <2>1. DOMAIN Nobody = {}
    BY DEF Nobody
  <2>2. Genuine(sessions', issued, Ended)
    <3>1. Genuine(Nobody, issued, Ended)
      BY <2>1 DEF Genuine
    <3> QED BY <1>0, <2>0, <3>1, FreshKeeps
  <2>3. ~lapsed' => Complete(sessions', issued, loggedOut, now)
    <3>1. CASE row
      BY <1>0, <2>0, <3>1, FreshComplete
    <3>2. CASE ~row
      <4>1. ~lapsed' => \A t \in DOMAIN issued : ~(now < issued[t] /\ t \notin loggedOut)
        BY <1>0, <2>0, <3>2 DEF Complete
      <4> QED BY <4>1 DEF Complete
    <3> QED BY <3>1, <3>2
  <2> QED BY <1>0, <1>k, <2>0, <2>2, <2>3
<1>7. CASE Tick
  <2>0. /\ now' = now + 1 /\ accepted' = {}
        /\ UNCHANGED <<sessions, disk, row, issued, loggedOut, unsaved, lapsed>>
    BY <1>7 DEF Tick
  <2>1. \A t \in DOMAIN issued : now' < issued[t] => now < issued[t]
    BY <1>0, <2>0
  <2>2. ~lapsed => Complete(sessions, issued, loggedOut, now')
                   /\ Complete(disk, issued, loggedOut, now')
    BY <1>0, <2>1 DEF Complete
  <2> QED BY <1>0, <2>0, <2>2 DEF SessionsInv, Ended
<1>8. CASE UNCHANGED sessionVars
  BY <1>0, <1>8, <1>k DEF sessionVars
<1> QED BY <1>1, <1>2, <1>3, <1>4, <1>5, <1>6, <1>7, <1>8 DEF SessionNext

\* A request is let in by a session that lives and was not ended, and as long
\* as no save and no load fails no session that lives is forgotten, for any
\* tokens and lifetimes and any mix of reloads and restarts.
THEOREM SessionsAreHonoured == SessionSpec => []SessionsHonoured
<1>1. SessionsInv => SessionsHonoured
  BY DEF SessionsInv, SessionsHonoured, Complete, Ended
<1> QED BY <1>1, SessionsStart, SessionsStep, PTL DEF SessionSpec
-----------------------------------------------------------------------------
(* Change reviews: any actors, any number of reviews, signatures and runs. *)

Signature == [who : Actor, decision : {"approve", "deny"}]
ReviewStatus == GivenStatus \cup {"denied"}
Recovery == {"not_started", "ready", "verified", "executed", "failed"}
RollbackProof ==
  [chain : Seq(Signature), status : {"ready", "dry_run_verified", "executed", "execution_failed"}]
Review ==
  [id : Id, at : Nat, required : Nat, status : ReviewStatus, given : GivenStatus,
   recovery : Recovery, approvals : Seq(Signature), proof : Seq(RollbackProof)]

\* Nobody has signed twice.
SignedOnce(a) == \A k, m \in DOMAIN a : a[k].who = a[m].who => k = m

\* A review that, if it is approved, is so by right.
SoundReview ==
  {r \in Review : /\ SignedOnce(r.approvals)
                  /\ r.status = "approved" => Backed(r) \/ GivenApproved(r)}

ReviewInv ==
  /\ reviews \in Seq(SoundReview) /\ recorded \in Nat
  /\ runs \in Seq([live : BOOLEAN, review : {r \in SoundReview : r.status = "approved"}])

\* What a retain leaves of a vector.
LEMMA RetainedFacts ==
  ASSUME NEW X, NEW s \in Seq(X), NEW S \in SUBSET (DOMAIN s)
  PROVE  /\ Retained(s, S) \in Seq(X)
         /\ \A k \in DOMAIN Retained(s, S) : \E i \in S : Retained(s, S)[k] = s[i]
         /\ \E at \in [DOMAIN Retained(s, S) -> S] :
               /\ \A k \in DOMAIN Retained(s, S) : Retained(s, S)[k] = s[at[k]]
               /\ \A k, m \in DOMAIN Retained(s, S) : at[k] = at[m] => k = m
<1> DEFINE n == Cardinality(S)
           ids == InOrder(S)
           q == Retained(s, S)
<1>1. S \in SUBSET Nat /\ IsFiniteSet(S)
  <2>1. S \subseteq 1..Len(s) /\ Len(s) \in Nat
    OBVIOUS
  <2>2. IsFiniteSet(1..Len(s))
    BY <2>1, FS_Interval
  <2> QED BY <2>1, <2>2, FS_Subset
<1>2. n \in Nat /\ ids \in [1..n -> S] /\ \A k, m \in 1..n : ids[k] = ids[m] => k = m
  BY <1>1, InOrderFacts
<1>3. q = [k \in 1..n |-> s[ids[k]]]
  BY DEF Retained
<1> HIDE DEF n, ids, q
<1>4. DOMAIN q = 1..n /\ \A k \in 1..n : q[k] = s[ids[k]] /\ ids[k] \in S
  BY <1>2, <1>3
<1>5. \A i \in S : s[i] \in X
  OBVIOUS
<1>6. q \in [1..n -> X]
  BY <1>2, <1>3, <1>4, <1>5
<1>7. q \in Seq(X)
  BY <1>2, <1>6
<1>8. ids \in [DOMAIN q -> S] /\ \A k \in DOMAIN q : q[k] = s[ids[k]]
  BY <1>2, <1>4
<1>9. \A k, m \in DOMAIN q : ids[k] = ids[m] => k = m
  BY <1>2, <1>4
<1> QED BY <1>4, <1>7, <1>8, <1>9 DEF q

\* Where everybody signed once, signatures and signers are as many.
LEMMA SignersCounted ==
  ASSUME NEW r, r.approvals \in Seq(Signature), SignedOnce(r.approvals)
  PROVE  LET S == {k \in DOMAIN r.approvals : r.approvals[k].decision = "approve"}
         IN Cardinality(S) \in Nat /\ Cardinality(Approvers(r)) = Cardinality(S)
<1> DEFINE a == r.approvals
           S == {k \in DOMAIN a : a[k].decision = "approve"}
           f == [k \in S |-> a[k].who]
<1>1. IsFiniteSet(S)
  <2>1. S \subseteq 1..Len(a) /\ Len(a) \in Nat
    OBVIOUS
  <2>2. IsFiniteSet(1..Len(a))
    BY <2>1, FS_Interval
  <2> QED BY <2>1, <2>2, FS_Subset
<1>2. f \in Bijection(S, Approvers(r))
  <2>1. f \in [S -> Approvers(r)]
    BY DEF Approvers
  <2>2. \A k, m \in S : f[k] = f[m] => k = m
    BY DEF SignedOnce
  <2>3. \A p \in Approvers(r) : \E k \in S : f[k] = p
    BY DEF Approvers
  <2> HIDE DEF f, S
  <2> QED BY <2>1, <2>2, <2>3, Fun_IsBij
<1>3. Cardinality(S) \in Nat
  BY <1>1, FS_CardinalityType
<1>4. Cardinality(Approvers(r)) = Cardinality(S)
  BY <1>1, <1>2, FS_Bijection DEF ExistsBijection
<1> QED BY <1>3, <1>4

\* What a signature makes of a review.
LEMMA DecidedSound ==
  ASSUME NEW r \in SoundReview, NEW who \in Actor, NEW decision \in {"approve", "deny"}
  PROVE  Decided(r, who, decision) \in SoundReview
<1> DEFINE old == Others(r, who)
           new == [who |-> who, decision |-> decision]
           a == Append(old, new)
           count == Cardinality({k \in DOMAIN a : a[k].decision = "approve"})
           status == IF \E k \in DOMAIN a : a[k].decision = "deny" THEN "denied"
                     ELSE IF count >= r.required THEN "approved" ELSE "pending_review"
           s == [r EXCEPT !.approvals = a, !.status = status]
           q == Decided(r, who, decision)
<1>1. r \in Review /\ r.approvals \in Seq(Signature) /\ SignedOnce(r.approvals)
  BY DEF SoundReview, Review
<1>2. new \in Signature /\ new.who = who
  BY DEF Signature
<1>3. /\ old \in Seq(Signature)
      /\ \A k \in DOMAIN old : old[k].who # who
      /\ SignedOnce(old)
  <2> DEFINE b == r.approvals
             S == {k \in DOMAIN b : b[k].who # who}
  <2>1. old = Retained(b, S) /\ S \in SUBSET (DOMAIN b) /\ b \in Seq(Signature)
    BY <1>1 DEF Others
  <2>2. \A k \in S : b[k].who # who
    OBVIOUS
  <2>3. SignedOnce(b)
    BY <1>1
  <2> HIDE DEF old, b, S
  <2>4. /\ Retained(b, S) \in Seq(Signature)
        /\ \A k \in DOMAIN Retained(b, S) : \E i \in S : Retained(b, S)[k] = b[i]
        /\ \E at \in [DOMAIN Retained(b, S) -> S] :
              /\ \A k \in DOMAIN Retained(b, S) : Retained(b, S)[k] = b[at[k]]
              /\ \A k, m \in DOMAIN Retained(b, S) : at[k] = at[m] => k = m
    BY <2>1, RetainedFacts
  <2>5. PICK at \in [DOMAIN old -> S] :
               /\ \A k \in DOMAIN old : old[k] = b[at[k]]
               /\ \A k, m \in DOMAIN old : at[k] = at[m] => k = m
    BY <2>1, <2>4
  <2>6. SignedOnce(old)
    BY <2>1, <2>3, <2>5 DEF SignedOnce
  <2> QED BY <2>1, <2>2, <2>4, <2>6
<1> HIDE DEF old, new
<1>4. /\ a \in Seq(Signature) /\ DOMAIN a = 1..(Len(old) + 1)
      /\ a[Len(old) + 1] = new /\ \A k \in 1..Len(old) : a[k] = old[k]
      /\ DOMAIN old = 1..Len(old) /\ Len(old) \in Nat
  BY <1>2, <1>3
<1> HIDE DEF a
<1>5. SignedOnce(a)
  <2> SUFFICES ASSUME NEW k \in DOMAIN a, NEW m \in DOMAIN a, a[k].who = a[m].who PROVE k = m
    BY DEF SignedOnce
  <2> DEFINE n == Len(old)
  <2>1. n \in Nat /\ DOMAIN a = 1..(n + 1) /\ DOMAIN old = 1..n
    BY <1>4
  <2>2. a[n + 1].who = who /\ \A j \in 1..n : a[j] = old[j] /\ a[j].who # who
    BY <1>2, <1>3, <1>4
  <2>3. \A i, j \in 1..n : old[i].who = old[j].who => i = j
    BY <1>3, <2>1 DEF SignedOnce
  <2> HIDE DEF n
  <2>4. CASE k = n + 1 \/ m = n + 1
    BY <2>1, <2>2, <2>4
  <2>5. CASE k \in 1..n /\ m \in 1..n
    BY <2>2, <2>3, <2>5
  <2> QED BY <2>1, <2>4, <2>5
<1>6. status \in ReviewStatus
  BY DEF ReviewStatus, GivenStatus
<1>7. status = "approved" =>
         ~(\E k \in DOMAIN a : a[k].decision = "deny") /\ count >= r.required
  OBVIOUS
<1> HIDE DEF status
<1>8. s \in Review /\ s.approvals = a /\ s.status = status /\ s.required = r.required
      /\ s.given = r.given /\ s.proof = r.proof
  BY <1>1, <1>4, <1>6 DEF Review
<1>9. q = IF status = "approved" /\ r.proof = <<>>
            THEN [s EXCEPT !.proof = <<Proof(s)>>, !.recovery = "ready"] ELSE s
  BY DEF Decided, status, a, old, new
<1> HIDE DEF s, q, count
<1>10. q \in Review /\ q.approvals = a /\ q.status = status /\ q.required = r.required
  <2>1. Proof(s) \in RollbackProof
    <3>1. Proof(s) = [chain |-> a, status |-> "ready"]
      BY <1>8 DEF Proof
    <3> QED BY <1>4, <3>1 DEF RollbackProof
  <2> DEFINE p == <<Proof(s)>>
  <2>2. p \in Seq(RollbackProof)
    BY <2>1
  <2>3. q = [s EXCEPT !.proof = p, !.recovery = "ready"] \/ q = s
    BY <1>9
  <2> HIDE DEF p
  <2>4. CASE q = [s EXCEPT !.proof = p, !.recovery = "ready"]
    <3>1. "ready" \in Recovery
      BY DEF Recovery
    <3> QED BY <1>8, <2>2, <2>4, <3>1 DEF Review
  <2>5. CASE q = s
    BY <1>8, <2>5
  <2> QED BY <2>3, <2>4, <2>5
<1>11. status = "approved" => Backed(q)
  <2> SUFFICES ASSUME status = "approved" PROVE Backed(q)
    OBVIOUS
  <2>1. Cardinality(Approvers(q)) = count
    BY <1>4, <1>5, <1>10, SignersCounted DEF count
  <2>2. count >= q.required /\ ~Denied(q)
    BY <1>7, <1>10 DEF Denied
  <2> QED BY <2>1, <2>2 DEF Backed
<1> QED BY <1>5, <1>10, <1>11 DEF SoundReview, q
\* The list after a save has sound reviews if the one to be saved has.
LEMMA SavedSound ==
  ASSUME reviews \in Seq(SoundReview), NEW list \in Seq(SoundReview), SaveReviews(list)
  PROVE  reviews' \in Seq(SoundReview)
<1>1. Normalized(list) \in Seq(SoundReview)
  <2> DEFINE m == Len(list) - MaxReviews + 1
             n == Len(list)
  <2>1. m \in Int /\ n \in Nat /\ (n > MaxReviews => m \in 1..n)
    BY ChangeReviewAssumption
  <2>a. \A i \in 1..n : list[i] \in SoundReview
    OBVIOUS
  <2>2. CASE n > MaxReviews
    <3>0. Normalized(list) = SubSeq(list, m, n)
      BY <2>2 DEF Normalized
    <3> HIDE DEF m, n
    <3>1. \A i \in m..n : list[i] \in SoundReview
      BY <2>1, <2>2, <2>a
    <3>2. SubSeq(list, m, n) \in Seq(SoundReview)
      BY <2>1, <2>2, <3>1, SubSeqProperties
    <3> QED BY <3>0, <3>2
  <2>3. CASE ~(n > MaxReviews)
    BY <2>3 DEF Normalized
  <2> QED BY <2>2, <2>3
<1> QED BY <1>1 DEF SaveReviews

LEMMA ReviewsStart == ReviewInit => ReviewInv
BY DEF ReviewInit, ReviewInv

LEMMA ReviewsStep == ReviewInv /\ [ReviewNext]_reviewVars => ReviewInv'
<1> SUFFICES ASSUME ReviewInv, [ReviewNext]_reviewVars PROVE ReviewInv'
  OBVIOUS
<1> DEFINE Run == [live : BOOLEAN, review : {r \in SoundReview : r.status = "approved"}]
<1>0. reviews \in Seq(SoundReview) /\ recorded \in Nat /\ runs \in Seq(Run)
  BY DEF ReviewInv
<1>e. \A i \in DOMAIN reviews : reviews[i] \in SoundReview
  BY <1>0
<1>1. ASSUME NEW id \in Id, NEW by \in Actor, NEW required \in Required,
             NEW given \in GivenStatus, NEW decision \in {"none", "approve", "deny"},
             RecordReview(id, by, required, given, decision)
      PROVE  ReviewInv'
  <2> DEFINE r == NewReview(id, required, given)
             rest == ReviewsWithout(id)
  <2>0. /\ recorded' = recorded + 1 /\ UNCHANGED runs
        /\ IF decision = "none" THEN SaveReviews(Append(rest, r))
           ELSE SaveReviews(Append(rest, Decided(r, by, decision)))
    BY <1>1 DEF RecordReview
  <2>1. r \in SoundReview
    <3>1. r = [id |-> id, at |-> recorded + 1, required |-> required, status |-> given,
               given |-> given, recovery |-> "not_started", approvals |-> <<>>, proof |-> <<>>]
      BY DEF NewReview
    <3>2. required \in Nat /\ recorded + 1 \in Nat /\ given \in ReviewStatus
      BY <1>0, ChangeReviewAssumption DEF ReviewStatus
    <3>3. "not_started" \in Recovery /\ <<>> \in Seq(Signature) /\ <<>> \in Seq(RollbackProof)
      BY DEF Recovery
    <3>4. r \in Review
      BY <3>1, <3>2, <3>3 DEF Review
    <3>5. SignedOnce(r.approvals) /\ r.status = "approved" => GivenApproved(r)
      BY <3>1 DEF GivenApproved
    <3>6. SignedOnce(r.approvals)
      BY <3>1 DEF SignedOnce
    <3> QED BY <3>4, <3>5, <3>6 DEF SoundReview
  <2>2. rest \in Seq(SoundReview)
    <3> DEFINE S == {i \in DOMAIN reviews : reviews[i].id # id}
    <3>1. S \in SUBSET (DOMAIN reviews) /\ rest = Retained(reviews, S)
      BY DEF ReviewsWithout
    <3> HIDE DEF S, rest
    <3> QED BY <1>0, <3>1, RetainedFacts
  <2> HIDE DEF r, rest
  <2>3. decision # "none" => Decided(r, by, decision) \in SoundReview
    BY <2>1, DecidedSound
  <2>5. reviews' \in Seq(SoundReview)
    <3>1. CASE decision = "none"
      <4>1. Append(rest, r) \in Seq(SoundReview) /\ SaveReviews(Append(rest, r))
        BY <2>0, <2>1, <2>2, <3>1
      <4> QED BY <1>0, <4>1, SavedSound
    <3>2. CASE decision # "none"
      <4> DEFINE q == Decided(r, by, decision)
      <4>1. Append(rest, q) \in Seq(SoundReview) /\ SaveReviews(Append(rest, q))
        BY <2>0, <2>2, <2>3, <3>2
      <4> HIDE DEF q
      <4> QED BY <1>0, <4>1, SavedSound
    <3> QED BY <3>1, <3>2
  <2> QED BY <1>0, <2>0, <2>5 DEF ReviewInv
<1>2. ASSUME NEW i \in DOMAIN reviews, NEW who \in Actor, NEW decision \in {"approve", "deny"},
             Approve(i, who, decision)
      PROVE  ReviewInv'
  <2> DEFINE q == Decided(reviews[i], who, decision)
  <2>0. SaveReviews([reviews EXCEPT ![i] = q]) /\ UNCHANGED <<recorded, runs>>
    BY <1>2 DEF Approve
  <2>1. q \in SoundReview
    BY <1>e, DecidedSound
  <2> HIDE DEF q
  <2>2. [reviews EXCEPT ![i] = q] \in Seq(SoundReview)
    BY <1>0, <2>1
  <2>3. reviews' \in Seq(SoundReview)
    BY <1>0, <2>0, <2>2, SavedSound
  <2> QED BY <1>0, <2>0, <2>3 DEF ReviewInv
<1>3. ASSUME NEW i \in DOMAIN reviews, NEW live \in BOOLEAN, RollBack(i, live)
      PROVE  ReviewInv'
  <2> DEFINE r == reviews[i]
             old == IF r.proof = <<>> THEN Proof(r) ELSE r.proof[1]
  <2>1. PICK ok \in BOOLEAN :
          LET told == CASE ~live -> "verified" [] live /\ ok -> "executed" [] OTHER -> "failed"
              done == CASE ~live -> "dry_run_verified" [] live /\ ok -> "executed"
                        [] OTHER -> "execution_failed"
          IN SaveReviews([reviews EXCEPT ![i].proof = <<[old EXCEPT !.status = done]>>,
                                         ![i].recovery = told])
    BY <1>3 DEF RollBack
  <2>2. /\ r.status = "approved" /\ runs' = Append(runs, [live |-> live, review |-> r])
        /\ UNCHANGED recorded
    BY <1>3 DEF RollBack, MayRollBack
  <2> DEFINE told == CASE ~live -> "verified" [] live /\ ok -> "executed" [] OTHER -> "failed"
             done == CASE ~live -> "dry_run_verified" [] live /\ ok -> "executed"
                       [] OTHER -> "execution_failed"
             p == <<[old EXCEPT !.status = done]>>
             x == [r EXCEPT !.proof = p, !.recovery = told]
  <2>3. r \in SoundReview /\ r \in Review
    BY <1>e DEF SoundReview
  <2>4. told \in Recovery /\ done \in {"ready", "dry_run_verified", "executed", "execution_failed"}
    BY DEF Recovery
  <2>5. old \in RollbackProof
    <3>1. r.approvals \in Seq(Signature) /\ r.proof \in Seq(RollbackProof)
      BY <2>3 DEF Review
    <3>2. Proof(r) \in RollbackProof
      BY <3>1 DEF Proof, RollbackProof
    <3>3. r.proof # <<>> => r.proof[1] \in RollbackProof
      BY <3>1
    <3> QED BY <3>2, <3>3
  <2>6. [reviews EXCEPT ![i].proof = p, ![i].recovery = told] = [reviews EXCEPT ![i] = x]
    BY <1>0
  <2> HIDE DEF old, told, done
  <2>7. p \in Seq(RollbackProof)
    <3>1. [old EXCEPT !.status = done] \in RollbackProof
      BY <2>4, <2>5 DEF RollbackProof
    <3> QED BY <3>1
  <2> HIDE DEF p, r
  <2>8. x \in Review /\ x.approvals = r.approvals /\ x.status = r.status
        /\ x.required = r.required /\ x.given = r.given
    BY <2>3, <2>4, <2>7 DEF Review
  <2>9. x \in SoundReview
    <3> HIDE DEF x
    <3>1. SignedOnce(r.approvals) /\ (r.status = "approved" => Backed(r) \/ GivenApproved(r))
      BY <2>3 DEF SoundReview
    <3>2. Backed(r) => Backed(x)
      BY <2>8 DEF Backed, Approvers, Denied
    <3>3. GivenApproved(r) => GivenApproved(x)
      BY <2>8 DEF GivenApproved
    <3> QED BY <2>8, <3>1, <3>2, <3>3 DEF SoundReview
  <2>10. SaveReviews([reviews EXCEPT ![i] = x])
    BY <2>1, <2>6 DEF told, done, p, old
  <2> HIDE DEF x
  <2>11. [reviews EXCEPT ![i] = x] \in Seq(SoundReview)
    BY <1>0, <2>9
  <2>12. reviews' \in Seq(SoundReview)
    BY <1>0, <2>10, <2>11, SavedSound
  <2>13. [live |-> live, review |-> r] \in Run
    BY <2>2, <2>3
  <2>14. runs' \in Seq(Run)
    BY <1>0, <2>2, <2>13
  <2> QED BY <1>0, <2>2, <2>12, <2>14 DEF ReviewInv
<1>4. CASE UNCHANGED reviewVars
  BY <1>0, <1>4 DEF ReviewInv, reviewVars
<1> QED BY <1>1, <1>2, <1>3, <1>4 DEF ReviewNext

\* An approved review, and every review whose rollback was run, has the
\* approvals it requires from as many people and no standing denial, or was
\* recorded as approved and never signed; for any actors, any requirements and
\* any interleaving of decisions, recordings and refused saves.
THEOREM ApprovalsBackRuns == ReviewSpec => []RunsBacked
<1>1. ReviewInv => RunsBacked
  <2> SUFFICES ASSUME ReviewInv PROVE RunsBacked
    OBVIOUS
  <2>1. \A i \in DOMAIN reviews : reviews[i] \in SoundReview
    <3>1. reviews \in Seq(SoundReview)
      BY DEF ReviewInv
    <3> QED BY <3>1
  <2>2. \A k \in DOMAIN runs : runs[k].review \in SoundReview /\ runs[k].review.status = "approved"
    <3> DEFINE Run == [live : BOOLEAN, review : {r \in SoundReview : r.status = "approved"}]
    <3>1. runs \in Seq(Run)
      BY DEF ReviewInv
    <3>2. \A x \in Run : x.review \in SoundReview /\ x.review.status = "approved"
      OBVIOUS
    <3> HIDE DEF Run
    <3> QED BY <3>1, <3>2
  <2> QED BY <2>1, <2>2 DEF RunsBacked, SoundReview
<1> QED BY <1>1, ReviewsStart, ReviewsStep, PTL DEF ReviewSpec
-----------------------------------------------------------------------------
(* The event bus: any channels, any buffer, any number of subscribers. *)

Distinct(q) == \A k, m \in DOMAIN q : q[k] = q[m] => k = m

Sub == [channels : SUBSET Channel, queue : Seq(Nat), since : Nat, taken : SUBSET Nat]

\* What waits for subscriber s is for it, is new to it, and fits.
SoundSub(s, pub) ==
  /\ s \in Sub /\ s.since <= Len(pub)
  /\ \A n \in s.taken : n <= Len(pub)
  /\ Len(s.queue) <= MaxBuffer /\ Distinct(s.queue)
  /\ \A n \in Range(s.queue) :
        n \in (s.since + 1)..Len(pub) /\ Listens(s, pub[n]) /\ n \notin s.taken

\* What s was to get of pub and neither got nor has waiting.
LostOf(s, pub) ==
  {n \in (s.since + 1)..Len(pub) : Listens(s, pub[n])} \ (Range(s.queue) \cup s.taken)

\* The losses of several, each with who lost it.
Losses(f, pub, ids) == UNION {{id} \X LostOf(f[id], pub) : id \in ids}

\* What the ring let go.
Gone == {n \in 1..sequence : n \notin Range(events)}

BusInv ==
  /\ published \in Seq(Channel) /\ nextId \in Nat \ {0} /\ dropped \in Nat /\ missed \in Nat
  /\ events \in Seq(Nat) /\ Len(events) <= MaxBuffer /\ Distinct(events)
  /\ Range(events) \subseteq 1..sequence
  /\ DOMAIN subs \subseteq 1..(nextId - 1) /\ connections \subseteq DOMAIN subs
  /\ \A id \in DOMAIN subs : SoundSub(subs[id], published)
  /\ dropped = missed + Cardinality(Losses(subs, published, DOMAIN subs)) + Cardinality(Gone)

\* A buffer takes a number it does not hold: if it is too full then, the
\* oldest one goes and no other.
LEMMA BufferTakes ==
  ASSUME NEW q \in Seq(Nat), Distinct(q), Len(q) <= MaxBuffer, NEW n \in Nat, n \notin Range(q)
  PROVE  LET p == Append(q, n)
             r == Newest(p)
         IN /\ Len(p) = Len(q) + 1 /\ p[1] \in Range(q) \cup {n}
            /\ r \in Seq(Nat) /\ Len(r) <= MaxBuffer /\ Distinct(r)
            /\ Len(p) > MaxBuffer => Range(r) = (Range(q) \cup {n}) \ {p[1]}
            /\ ~(Len(p) > MaxBuffer) => Range(r) = Range(q) \cup {n}
<1> DEFINE p == Append(q, n)
           r == Newest(p)
           m == Len(q)
<1>1. m \in Nat /\ MaxBuffer \in Nat /\ m <= MaxBuffer /\ DOMAIN q = 1..m
  BY EventBusAssumption
<1>2. /\ p \in Seq(Nat) /\ Len(p) = m + 1 /\ DOMAIN p = 1..(m + 1)
      /\ p[m + 1] = n /\ \A k \in 1..m : p[k] = q[k]
  OBVIOUS
<1> HIDE DEF p, m
<1>3. Range(p) = Range(q) \cup {n}
  BY <1>1, <1>2 DEF Range
<1>4. Distinct(p)
  <2> SUFFICES ASSUME NEW j \in 1..(m + 1), NEW k \in 1..(m + 1), p[j] = p[k] PROVE j = k
    BY <1>2 DEF Distinct
  <2>1. \A i \in 1..m : p[i] # n
    BY <1>1, <1>2 DEF Range
  <2>2. CASE j = m + 1 \/ k = m + 1
    BY <1>1, <1>2, <2>1, <2>2
  <2>3. CASE j \in 1..m /\ k \in 1..m
    BY <1>1, <1>2, <2>3 DEF Distinct
  <2> QED BY <1>1, <2>2, <2>3
<1>5. p[1] \in Range(q) \cup {n}
  <2>1. 1 \in DOMAIN p
    BY <1>1, <1>2
  <2>2. p[1] \in Range(p)
    BY <2>1 DEF Range
  <2> QED BY <1>3, <2>2
<1>6. CASE m + 1 > MaxBuffer
  <2>1. m = MaxBuffer
    BY <1>1, <1>6
  <2>2. r = SubSeq(p, 2, m + 1)
    BY <1>1, <1>2, <1>6, <2>1 DEF Newest
  <2>3. \A i \in 2..(m + 1) : p[i] \in Nat
    BY <1>1, <1>2
  <2>4. /\ r \in Seq(Nat) /\ Len(r) = m /\ \A i \in 1..m : r[i] = p[i + 1]
    <3> DEFINE hi == m + 1
    <3>1. hi \in Int /\ (\A i \in 2..hi : p[i] \in Nat) /\ hi - 2 + 1 = m
          /\ (~(2 <= hi) => m = 0) /\ r = SubSeq(p, 2, hi)
      BY <1>1, <2>2, <2>3
    <3> HIDE DEF hi
    <3>2. /\ SubSeq(p, 2, hi) \in Seq(Nat)
          /\ Len(SubSeq(p, 2, hi)) = IF 2 <= hi THEN hi - 2 + 1 ELSE 0
          /\ \A i \in 1..(hi - 2 + 1) : SubSeq(p, 2, hi)[i] = p[2 + i - 1]
      BY <3>1, SubSeqProperties
    <3> HIDE DEF r
    <3>3. r \in Seq(Nat) /\ Len(r) = m /\ \A i \in 1..m : r[i] = p[2 + i - 1]
      BY <1>1, <3>1, <3>2
    <3>4. \A i \in 1..m : 2 + i - 1 = i + 1
      BY <1>1
    <3> QED BY <3>3, <3>4
  <2> HIDE DEF r
  <2>5. DOMAIN r = 1..m
    BY <1>1, <2>4
  <2>6. \A i \in 1..m : i + 1 \in 1..(m + 1) /\ i + 1 # 1
    BY <1>1
  <2>a. \A i, j \in 1..(m + 1) : p[i] = p[j] => i = j
    BY <1>2, <1>4 DEF Distinct
  <2>7. Distinct(r)
    <3> SUFFICES ASSUME NEW i \in 1..m, NEW j \in 1..m, r[i] = r[j] PROVE i = j
      BY <2>5 DEF Distinct
    <3>1. p[i + 1] = p[j + 1]
      BY <2>4
    <3>2. i + 1 = j + 1
      BY <2>6, <2>a, <3>1
    <3> QED BY <3>2
  <2>8. Range(r) = Range(p) \ {p[1]}
    <3>1. ASSUME NEW x \in Range(r) PROVE x \in Range(p) /\ x # p[1]
      <4>1. PICK i \in 1..m : x = r[i]
        BY <2>5 DEF Range
      <4>2. x = p[i + 1] /\ i + 1 \in 1..(m + 1) /\ i + 1 # 1 /\ 1 \in 1..(m + 1)
        BY <1>1, <2>4, <2>6, <4>1
      <4> QED BY <1>2, <2>a, <4>2 DEF Range
    <3>2. ASSUME NEW x \in Range(p), x # p[1] PROVE x \in Range(r)
      <4>1. PICK k \in 1..(m + 1) : x = p[k]
        BY <1>2 DEF Range
      <4>2. k - 1 \in 1..m /\ (k - 1) + 1 = k
        BY <1>1, <3>2, <4>1
      <4>3. r[k - 1] = x
        BY <2>4, <4>1, <4>2
      <4> QED BY <2>5, <4>2, <4>3 DEF Range
    <3> QED BY <3>1, <3>2
  <2>9. Len(r) <= MaxBuffer
    BY <1>1, <2>1, <2>4
  <2> QED BY <1>2, <1>3, <1>5, <1>6, <2>4, <2>7, <2>8, <2>9 DEF p, r, m
<1>7. CASE ~(m + 1 > MaxBuffer)
  <2>1. r = p
    BY <1>2, <1>7 DEF Newest
  <2>2. Len(p) <= MaxBuffer
    BY <1>1, <1>2, <1>7
  <2> QED BY <1>2, <1>3, <1>4, <1>5, <1>7, <2>1, <2>2 DEF p, r, m
<1> QED BY <1>6, <1>7

\* A subscriber that listens gets event n, and loses the event its queue lets
\* go, if it lets one go.
LEMMA SubPushed ==
  ASSUME NEW pub \in Seq(Channel), NEW type \in Channel, NEW s, SoundSub(s, pub),
         Listens(s, type), NEW t,
         t = [channels |-> s.channels, queue |-> Newest(Append(s.queue, Len(pub) + 1)),
              since |-> s.since, taken |-> s.taken]
  PROVE  LET p == Append(s.queue, Len(pub) + 1)
         IN /\ SoundSub(t, Append(pub, type))
            /\ Len(p) > MaxBuffer => /\ LostOf(t, Append(pub, type)) = LostOf(s, pub) \cup {p[1]}
                                     /\ p[1] \notin LostOf(s, pub)
            /\ ~(Len(p) > MaxBuffer) => LostOf(t, Append(pub, type)) = LostOf(s, pub)
<1> DEFINE N == Len(pub)
           n == N + 1
           p == Append(s.queue, n)
           r == Newest(p)
           new == Append(pub, type)
<1>1. /\ s.channels \in SUBSET Channel /\ s.queue \in Seq(Nat) /\ s.since \in Nat
      /\ s.taken \in SUBSET Nat /\ s.since <= N /\ N \in Nat
      /\ \A x \in s.taken : x <= N
      /\ Len(s.queue) <= MaxBuffer /\ Distinct(s.queue)
      /\ \A x \in Range(s.queue) :
            x \in (s.since + 1)..N /\ Listens(s, pub[x]) /\ x \notin s.taken
  BY DEF SoundSub, Sub
<1>2. Len(new) = n /\ new[n] = type /\ \A x \in 1..N : new[x] = pub[x]
  OBVIOUS
<1>3. n \notin Range(s.queue) /\ n \notin s.taken /\ n \in Nat
  BY <1>1
<1>4. /\ p[1] \in Range(s.queue) \cup {n}
      /\ r \in Seq(Nat) /\ Len(r) <= MaxBuffer /\ Distinct(r)
      /\ Len(p) > MaxBuffer => Range(r) = (Range(s.queue) \cup {n}) \ {p[1]}
      /\ ~(Len(p) > MaxBuffer) => Range(r) = Range(s.queue) \cup {n}
  BY <1>1, <1>3, BufferTakes
<1>5. t.channels = s.channels /\ t.queue = r /\ t.since = s.since /\ t.taken = s.taken
  OBVIOUS
<1>6. t \in Sub
  BY <1>1, <1>4 DEF Sub
<1>7. \A c : Listens(t, c) <=> Listens(s, c)
  BY <1>5 DEF Listens
<1>8. \A x \in Range(r) : x \in Range(s.queue) \cup {n}
  BY <1>4
<1> HIDE DEF new, p, r, N
<1>9. \A x \in Range(s.queue) \cup {n} :
         x \in (s.since + 1)..n /\ Listens(t, new[x]) /\ x \notin s.taken
  <2>1. ASSUME NEW x \in Range(s.queue)
        PROVE  x \in (s.since + 1)..n /\ Listens(t, new[x]) /\ x \notin s.taken
    <3>1. x \in (s.since + 1)..N /\ Listens(s, pub[x]) /\ x \notin s.taken
      BY <1>1
    <3>2. x \in 1..N /\ x \in (s.since + 1)..n
      BY <1>1, <3>1
    <3> QED BY <1>2, <1>7, <3>1, <3>2
  <2>2. n \in (s.since + 1)..n /\ Listens(t, new[n]) /\ n \notin s.taken
    BY <1>1, <1>2, <1>3, <1>7
  <2> QED BY <2>1, <2>2
<1>10. SoundSub(t, new)
  <2>1. \A x \in s.taken : x <= n
    BY <1>1
  <2>2. s.since <= n
    BY <1>1
  <2> QED BY <1>2, <1>4, <1>5, <1>6, <1>8, <1>9, <2>1, <2>2 DEF SoundSub
\* What it was to get is what it was to get before, and n.
<1>11. {x \in (s.since + 1)..n : Listens(t, new[x])}
         = {x \in (s.since + 1)..N : Listens(s, pub[x])} \cup {n}
  <2>1. \A x : x \in (s.since + 1)..n <=> x \in (s.since + 1)..N \/ x = n
    BY <1>1
  <2>2. \A x \in (s.since + 1)..N : x \in 1..N
    BY <1>1
  <2> QED BY <1>2, <1>7, <1>9, <2>1, <2>2
<1>12. p[1] \notin LostOf(s, pub) /\ (Len(p) > MaxBuffer => LostOf(t, new) = LostOf(s, pub) \cup {p[1]})
       /\ (~(Len(p) > MaxBuffer) => LostOf(t, new) = LostOf(s, pub))
  <2> DEFINE D == {x \in (s.since + 1)..N : Listens(s, pub[x])}
  <2>1. Range(s.queue) \subseteq D /\ n \notin D
    BY <1>1 DEF N
  <2>2. LostOf(s, pub) = D \ (Range(s.queue) \cup s.taken)
    BY DEF LostOf, N
  <2>3. LostOf(t, new) = (D \cup {n}) \ (Range(r) \cup s.taken)
    BY <1>2, <1>5, <1>11 DEF LostOf
  <2>4. \A x \in Range(s.queue) \cup {n} : x \notin s.taken
    BY <1>9
  <2> HIDE DEF D
  <2>5. p[1] \notin LostOf(s, pub)
    BY <1>4, <2>1, <2>2
  <2>6. Len(p) > MaxBuffer => LostOf(t, new) = LostOf(s, pub) \cup {p[1]}
    BY <1>3, <1>4, <2>1, <2>2, <2>3, <2>4
  <2>7. ~(Len(p) > MaxBuffer) => LostOf(t, new) = LostOf(s, pub)
    BY <1>3, <1>4, <2>1, <2>2, <2>3, <2>4
  <2> QED BY <2>5, <2>6, <2>7
<1> QED BY <1>10, <1>12 DEF new, p, N

\* A subscriber that does not listen loses nothing.
LEMMA SubPassed ==
  ASSUME NEW pub \in Seq(Channel), NEW type \in Channel, NEW s, SoundSub(s, pub), ~Listens(s, type)
  PROVE  /\ SoundSub(s, Append(pub, type))
         /\ LostOf(s, Append(pub, type)) = LostOf(s, pub)
<1> DEFINE N == Len(pub)
           new == Append(pub, type)
<1>1. s \in Sub /\ s.since \in Nat /\ N \in Nat /\ s.since <= N /\ s.taken \in SUBSET Nat
  BY DEF SoundSub, Sub
<1>2. Len(new) = N + 1 /\ new[N + 1] = type /\ \A x \in 1..N : new[x] = pub[x]
  OBVIOUS
<1>3. \A n \in (s.since + 1)..N : n \in 1..N /\ n \in (s.since + 1)..(N + 1)
  BY <1>1
<1> HIDE DEF new
<1>4. SoundSub(s, new)
  <2>1. /\ \A n \in s.taken : n <= N
        /\ Len(s.queue) <= MaxBuffer /\ Distinct(s.queue)
        /\ \A n \in Range(s.queue) :
              n \in (s.since + 1)..N /\ Listens(s, pub[n]) /\ n \notin s.taken
    BY DEF SoundSub
  <2>2. \A n \in s.taken : n <= N + 1
    BY <1>1, <2>1
  <2>3. s.since <= N + 1
    BY <1>1
  <2> HIDE DEF N
  <2>4. \A n \in Range(s.queue) :
           n \in (s.since + 1)..(N + 1) /\ Listens(s, new[n]) /\ n \notin s.taken
    BY <1>2, <1>3, <2>1
  <2> QED BY <1>1, <1>2, <2>1, <2>2, <2>3, <2>4 DEF SoundSub
<1>5. {x \in (s.since + 1)..(N + 1) : Listens(s, new[x])}
        = {x \in (s.since + 1)..N : Listens(s, pub[x])}
  <2>1. \A x : x \in (s.since + 1)..(N + 1) <=> x \in (s.since + 1)..N \/ x = N + 1
    BY <1>1
  <2> HIDE DEF N
  <2> QED BY <1>2, <1>3, <2>1
<1>6. LostOf(s, new) = LostOf(s, pub)
  BY <1>2, <1>5 DEF LostOf
<1> QED BY <1>4, <1>6 DEF new
\* The members of two sets without a common one.
LEMMA CountedApart ==
  ASSUME NEW S, NEW T, IsFiniteSet(S), IsFiniteSet(T), S \cap T = {}
  PROVE  Cardinality(S \cup T) = Cardinality(S) + Cardinality(T)
<1>1. Cardinality(S \cup T) = Cardinality(S) + Cardinality(T) - Cardinality(S \cap T)
  BY FS_Union
<1>2. Cardinality(S \cap T) = 0
  BY FS_EmptySet
<1>3. Cardinality(S) \in Nat /\ Cardinality(T) \in Nat
  BY FS_CardinalityType
<1> QED BY <1>1, <1>2, <1>3

\* The losses of several, pair by pair.
LEMMA LossesIn ==
  ASSUME NEW f, NEW pub, NEW ids, NEW p
  PROVE  p \in Losses(f, pub, ids) <=> \E id \in ids : \E n \in LostOf(f[id], pub) : p = <<id, n>>
BY DEF Losses

LEMMA LossesFinite ==
  ASSUME NEW f, NEW pub \in Seq(Channel), NEW ids, IsFiniteSet(ids),
         \A id \in ids : f[id].since \in Nat
  PROVE  IsFiniteSet(Losses(f, pub, ids)) /\ Cardinality(Losses(f, pub, ids)) \in Nat
<1> DEFINE N == Len(pub)
<1>1. IsFiniteSet(1..N)
  <2>1. N \in Nat
    OBVIOUS
  <2> QED BY <2>1, FS_Interval
<1>2. IsFiniteSet(ids \X (1..N))
  BY <1>1, FS_Product
<1>3. Losses(f, pub, ids) \subseteq ids \X (1..N)
  <2> SUFFICES ASSUME NEW id \in ids, NEW n \in LostOf(f[id], pub) PROVE n \in 1..N
    BY LossesIn
  <2>1. n \in (f[id].since + 1)..N /\ f[id].since \in Nat
    BY DEF LostOf
  <2> QED BY <2>1
<1>4. IsFiniteSet(Losses(f, pub, ids))
  BY <1>2, <1>3, FS_Subset
<1> QED BY <1>4, FS_CardinalityType

\* Two groups without a common member lose what they lose together.
LEMMA LossesSplit ==
  ASSUME NEW f, NEW pub \in Seq(Channel), NEW A, NEW B, IsFiniteSet(A), IsFiniteSet(B),
         A \cap B = {}, \A id \in A \cup B : f[id].since \in Nat
  PROVE  Cardinality(Losses(f, pub, A \cup B))
           = Cardinality(Losses(f, pub, A)) + Cardinality(Losses(f, pub, B))
<1>1. /\ IsFiniteSet(Losses(f, pub, A)) /\ Cardinality(Losses(f, pub, A)) \in Nat
      /\ IsFiniteSet(Losses(f, pub, B)) /\ Cardinality(Losses(f, pub, B)) \in Nat
  BY LossesFinite
<1>2. Losses(f, pub, A \cup B) = Losses(f, pub, A) \cup Losses(f, pub, B)
  BY DEF Losses
<1>3. Losses(f, pub, A) \cap Losses(f, pub, B) = {}
  BY LossesIn
<1> DEFINE U == Losses(f, pub, A)
           V == Losses(f, pub, B)
<1>4. IsFiniteSet(U) /\ IsFiniteSet(V) /\ U \cap V = {}
  BY <1>1, <1>3
<1> HIDE DEF U, V
<1>5. Cardinality(U \cup V) = Cardinality(U) + Cardinality(V)
  BY <1>4, CountedApart
<1> QED BY <1>2, <1>5 DEF U, V

LEMMA LossesSame ==
  ASSUME NEW f, NEW g, NEW pub, NEW new, NEW ids,
         \A id \in ids : LostOf(g[id], new) = LostOf(f[id], pub)
  PROVE  Losses(g, new, ids) = Losses(f, pub, ids)
BY DEF Losses

\* From f to g, everybody in evicted loses one event more, and nobody else of ids
\* loses any.
OneMoreEach(f, pub, g, new, ids, evicted) ==
  /\ \A id \in ids : f[id].since \in Nat
  /\ \A id \in ids \ evicted : LostOf(g[id], new) = LostOf(f[id], pub)
  /\ \A id \in evicted : \E x : /\ LostOf(g[id], new) = LostOf(f[id], pub) \cup {x}
                               /\ x \notin LostOf(f[id], pub)

LEMMA LossesGrow ==
  ASSUME NEW f, NEW pub \in Seq(Channel), NEW g, NEW new, NEW ids, IsFiniteSet(ids),
         NEW evicted \in SUBSET ids, OneMoreEach(f, pub, g, new, ids, evicted)
  PROVE  Cardinality(Losses(g, new, ids)) = Cardinality(Losses(f, pub, ids)) + Cardinality(evicted)
<1> DEFINE e == [id \in evicted |->
                   CHOOSE x : /\ LostOf(g[id], new) = LostOf(f[id], pub) \cup {x}
                              /\ x \notin LostOf(f[id], pub)]
<1>0. \A id \in evicted : /\ LostOf(g[id], new) = LostOf(f[id], pub) \cup {e[id]}
                          /\ e[id] \notin LostOf(f[id], pub)
  BY DEF OneMoreEach
<1>a. \A id \in ids : f[id].since \in Nat
  BY DEF OneMoreEach
<1>b. \A id \in ids \ evicted : LostOf(g[id], new) = LostOf(f[id], pub)
  BY DEF OneMoreEach
<1> HIDE DEF e
<1> DEFINE L == Losses(f, pub, ids)
           E == {<<id, e[id]>> : id \in evicted}
           h == [id \in evicted |-> <<id, e[id]>>]
<1>1. IsFiniteSet(L) /\ Cardinality(L) \in Nat
  BY <1>a, LossesFinite
<1>2. IsFiniteSet(evicted) /\ Cardinality(evicted) \in Nat
  BY FS_Subset, FS_CardinalityType
<1>3. h \in Bijection(evicted, E)
  <2>1. h \in [evicted -> E] /\ \A a, b \in evicted : h[a] = h[b] => a = b
    OBVIOUS
  <2>2. \A p \in E : \E a \in evicted : h[a] = p
    OBVIOUS
  <2> HIDE DEF h, E
  <2> QED BY <2>1, <2>2, Fun_IsBij
<1>4. IsFiniteSet(E) /\ Cardinality(E) = Cardinality(evicted)
  <2> HIDE DEF h, E
  <2> QED BY <1>2, <1>3, FS_Bijection DEF ExistsBijection
<1>5. L \cap E = {}
  <2> SUFFICES ASSUME NEW id \in evicted, <<id, e[id]>> \in L PROVE FALSE
    OBVIOUS
  <2>1. PICK a \in ids : \E n \in LostOf(f[a], pub) : <<id, e[id]>> = <<a, n>>
    BY LossesIn
  <2>2. e[id] \in LostOf(f[id], pub)
    BY <2>1
  <2> QED BY <1>0, <2>2
<1>6. Losses(g, new, ids) = L \cup E
  <2>1. ASSUME NEW p \in Losses(g, new, ids) PROVE p \in L \cup E
    <3>1. PICK id \in ids : \E n \in LostOf(g[id], new) : p = <<id, n>>
      BY LossesIn
    <3>2. PICK n \in LostOf(g[id], new) : p = <<id, n>>
      BY <3>1
    <3>3. n \in LostOf(f[id], pub) \/ (id \in evicted /\ n = e[id])
      BY <1>0, <1>b, <3>2
    <3>4. n \in LostOf(f[id], pub) => p \in L
      BY <3>2, LossesIn
    <3> QED BY <3>2, <3>3, <3>4
  <2>2. ASSUME NEW p \in L PROVE p \in Losses(g, new, ids)
    <3>1. PICK id \in ids : \E n \in LostOf(f[id], pub) : p = <<id, n>>
      BY LossesIn
    <3>2. LostOf(f[id], pub) \subseteq LostOf(g[id], new)
      BY <1>0, <1>b
    <3>3. \E n \in LostOf(g[id], new) : p = <<id, n>>
      BY <3>1, <3>2
    <3> QED BY <3>3, LossesIn
  <2>3. ASSUME NEW id \in evicted PROVE <<id, e[id]>> \in Losses(g, new, ids)
    <3>1. e[id] \in LostOf(g[id], new) /\ id \in ids
      BY <1>0
    <3> QED BY <3>1, LossesIn
  <2> QED BY <2>1, <2>2, <2>3
<1> HIDE DEF L, E
<1>7. Cardinality(L \cup E) = Cardinality(L) + Cardinality(E)
  BY <1>1, <1>4, <1>5, CountedApart
<1> QED BY <1>4, <1>6, <1>7 DEF L

LEMMA BusStarts == BusInit => BusInv
<1> SUFFICES ASSUME BusInit PROVE BusInv
  OBVIOUS
<1>1. Losses(subs, published, DOMAIN subs) = {} /\ Gone = {}
  BY DEF BusInit, Losses, Gone, sequence
<1>2. Cardinality({}) = 0
  BY FS_EmptySet
<1>3. /\ DOMAIN subs = {} /\ Range(events) = {} /\ Distinct(events) /\ Len(events) = 0
      /\ events \in Seq(Nat) /\ published \in Seq(Channel)
  BY DEF BusInit, Range, Distinct
<1>4. dropped = 0 /\ missed = 0 /\ nextId = 1 /\ connections = {} /\ MaxBuffer \in Nat
  BY EventBusAssumption DEF BusInit
<1>5. dropped = missed + Cardinality(Losses(subs, published, DOMAIN subs)) + Cardinality(Gone)
  BY <1>1, <1>2, <1>4
<1> QED BY <1>3, <1>4, <1>5 DEF BusInv

\* What the ring lets go when it takes one event more.
LEMMA RingTakes ==
  ASSUME BusInv, NEW type \in Channel, published' = Append(published, type),
         events' = Newest(Append(events, sequence + 1))
  PROVE  /\ events' \in Seq(Nat) /\ Len(events') <= MaxBuffer /\ Distinct(events')
         /\ Range(events') \subseteq 1..sequence'
         /\ IsFiniteSet(Gone) /\ Cardinality(Gone) \in Nat
         /\ Cardinality(Gone') = Cardinality(Gone) + (IF Len(events) + 1 > MaxBuffer THEN 1 ELSE 0)
<1> DEFINE N == sequence
           n == N + 1
           p == Append(events, n)
<1>1. /\ published \in Seq(Channel) /\ events \in Seq(Nat) /\ Len(events) <= MaxBuffer
      /\ Distinct(events) /\ Range(events) \subseteq 1..N
  BY DEF BusInv
<1>2. N \in Nat /\ sequence' = n /\ n \notin 1..N /\ n \in Nat /\ 1..n = (1..N) \cup {n}
  BY <1>1 DEF sequence
<1>3. Gone = (1..N) \ Range(events) /\ Gone' = (1..n) \ Range(events')
  BY <1>2 DEF Gone
<1>4. IsFiniteSet(Gone) /\ Cardinality(Gone) \in Nat
  <2>1. IsFiniteSet(1..N)
    BY <1>2, FS_Interval
  <2> QED BY <1>3, <2>1, FS_Subset, FS_CardinalityType
<1> HIDE DEF N
<1>5. n \notin Range(events)
  BY <1>1, <1>2
<1> HIDE DEF n
<1>6. /\ Len(p) = Len(events) + 1 /\ p[1] \in Range(events) \cup {n}
      /\ Newest(p) \in Seq(Nat) /\ Len(Newest(p)) <= MaxBuffer /\ Distinct(Newest(p))
      /\ Len(p) > MaxBuffer => Range(Newest(p)) = (Range(events) \cup {n}) \ {p[1]}
      /\ ~(Len(p) > MaxBuffer) => Range(Newest(p)) = Range(events) \cup {n}
  BY <1>1, <1>2, <1>5, BufferTakes
<1>7. events' = Newest(p)
  BY DEF n, N
<1> HIDE DEF p
<1>8. Range(events') \subseteq 1..n
  BY <1>1, <1>2, <1>6, <1>7
<1>9. CASE Len(p) > MaxBuffer
  <2>1. Gone' = Gone \cup {p[1]} /\ p[1] \notin Gone
    BY <1>1, <1>2, <1>3, <1>6, <1>7, <1>9
  <2>2. Cardinality(Gone \cup {p[1]}) = Cardinality(Gone) + 1
    BY <1>4, <2>1, FS_AddElement
  <2> QED BY <1>2, <1>4, <1>6, <1>7, <1>8, <1>9, <2>1, <2>2
<1>10. CASE ~(Len(p) > MaxBuffer)
  <2>1. Gone' = Gone
    BY <1>1, <1>2, <1>3, <1>6, <1>7, <1>10
  <2> QED BY <1>2, <1>4, <1>6, <1>7, <1>8, <1>10, <2>1
<1> QED BY <1>9, <1>10

\* What publish does to the subscribers.
LEMMA SubsTake ==
  ASSUME BusInv, NEW type \in Channel, Publish(type)
  PROVE  LET pushed == [id \in {x \in DOMAIN subs : Listens(subs[x], type)} |->
                          Append(subs[id].queue, sequence + 1)]
             evicted == {id \in DOMAIN pushed : Len(pushed[id]) > MaxBuffer}
         IN /\ DOMAIN subs' = DOMAIN subs
            /\ \A id \in DOMAIN subs : SoundSub(subs'[id], published')
            /\ Cardinality(evicted) \in Nat
            /\ Cardinality(Losses(subs', published', DOMAIN subs))
                 = Cardinality(Losses(subs, published, DOMAIN subs)) + Cardinality(evicted)
<1> DEFINE ids == DOMAIN subs
           n == Len(published) + 1
           new == Append(published, type)
           pushed == [id \in {x \in ids : Listens(subs[x], type)} |-> Append(subs[id].queue, n)]
           evicted == {id \in DOMAIN pushed : Len(pushed[id]) > MaxBuffer}
           e == [id \in evicted |-> pushed[id][1]]
<1>1. /\ published \in Seq(Channel) /\ ids \subseteq 1..(nextId - 1) /\ nextId \in Nat \ {0}
      /\ \A id \in ids : SoundSub(subs[id], published)
  BY DEF BusInv
<1>2. /\ published' = new
      /\ subs' = [id \in ids |-> IF id \in DOMAIN pushed
                                   THEN [subs[id] EXCEPT !.queue = Newest(pushed[id])]
                                   ELSE subs[id]]
  BY DEF Publish, sequence
<1>3. IsFiniteSet(ids)
  <2>1. IsFiniteSet(1..(nextId - 1))
    BY <1>1, FS_Interval
  <2> QED BY <1>1, <2>1, FS_Subset
<1>4. \A id \in ids : subs[id] \in Sub /\ subs[id].since \in Nat
  BY <1>1 DEF SoundSub, Sub
<1>5. DOMAIN pushed = {x \in ids : Listens(subs[x], type)}
      /\ \A id \in DOMAIN pushed : pushed[id] = Append(subs[id].queue, n)
  OBVIOUS
<1>6. evicted \in SUBSET ids
  BY <1>5
<1>7. \A id \in evicted : e[id] = pushed[id][1]
  OBVIOUS
<1>8. \A id \in evicted : id \in DOMAIN pushed /\ Len(pushed[id]) > MaxBuffer
  OBVIOUS
<1>9. \A id \in DOMAIN pushed : id \notin evicted => ~(Len(pushed[id]) > MaxBuffer)
  OBVIOUS
<1> HIDE DEF pushed, evicted, e
<1>10. ASSUME NEW id \in ids, id \in DOMAIN pushed
       PROVE  /\ SoundSub(subs'[id], new)
              /\ id \in evicted => /\ LostOf(subs'[id], new) = LostOf(subs[id], published) \cup {e[id]}
                                   /\ e[id] \notin LostOf(subs[id], published)
              /\ id \notin evicted => LostOf(subs'[id], new) = LostOf(subs[id], published)
  <2> DEFINE s == subs[id]
             p == Append(s.queue, n)
             t == subs'[id]
  <2>1. Listens(s, type) /\ pushed[id] = p /\ SoundSub(s, published) /\ s \in Sub
    BY <1>1, <1>4, <1>5, <1>10
  <2>2. t = [s EXCEPT !.queue = Newest(p)]
    BY <1>2, <1>10, <2>1
  <2> HIDE DEF s, t
  <2>3. t = [channels |-> s.channels, queue |-> Newest(Append(s.queue, Len(published) + 1)),
             since |-> s.since, taken |-> s.taken]
    BY <2>1, <2>2 DEF Sub
  <2>4. /\ SoundSub(t, Append(published, type))
        /\ Len(p) > MaxBuffer => /\ LostOf(t, Append(published, type)) = LostOf(s, published) \cup {p[1]}
                                 /\ p[1] \notin LostOf(s, published)
        /\ ~(Len(p) > MaxBuffer) => LostOf(t, Append(published, type)) = LostOf(s, published)
    BY <1>1, <2>1, <2>3, SubPushed
  <2> HIDE DEF p, n, new
  <2>5. id \in evicted => Len(p) > MaxBuffer /\ e[id] = p[1]
    BY <1>7, <1>8, <2>1
  <2>6. id \notin evicted => ~(Len(p) > MaxBuffer)
    BY <1>9, <1>10, <2>1
  <2> QED BY <2>4, <2>5, <2>6 DEF s, t, new
<1>11. ASSUME NEW id \in ids, id \notin DOMAIN pushed
       PROVE  /\ SoundSub(subs'[id], new) /\ id \notin evicted
              /\ LostOf(subs'[id], new) = LostOf(subs[id], published)
  <2>1. ~Listens(subs[id], type) /\ subs'[id] = subs[id] /\ SoundSub(subs[id], published)
    BY <1>1, <1>2, <1>5, <1>11
  <2>2. id \notin evicted
    BY <1>8, <1>11
  <2> QED BY <1>1, <2>1, <2>2, SubPassed
<1>12. \A id \in ids : SoundSub(subs'[id], new)
  BY <1>10, <1>11
<1>13. /\ \A id \in ids \ evicted : LostOf(subs'[id], new) = LostOf(subs[id], published)
       /\ \A id \in evicted : /\ LostOf(subs'[id], new) = LostOf(subs[id], published) \cup {e[id]}
                              /\ e[id] \notin LostOf(subs[id], published)
  BY <1>6, <1>8, <1>10, <1>11
<1> HIDE DEF new, n, ids
<1>14. Cardinality(Losses(subs', new, ids))
         = Cardinality(Losses(subs, published, ids)) + Cardinality(evicted)
  <2>1. published \in Seq(Channel) /\ IsFiniteSet(ids) /\ evicted \in SUBSET ids
    BY <1>1, <1>3, <1>6
  <2>2. OneMoreEach(subs, published, subs', new, ids, evicted)
    BY <1>4, <1>13 DEF OneMoreEach
  <2> QED BY <2>1, <2>2, LossesGrow
<1>15. Cardinality(evicted) \in Nat
  BY <1>3, <1>6, FS_Subset, FS_CardinalityType
<1>16. DOMAIN subs' = ids
  BY <1>2
<1> QED BY <1>2, <1>12, <1>14, <1>15, <1>16 DEF ids, new, n, pushed, evicted, sequence

\* What BusInv says of the subscribers, as the steps need it.
LEMMA SubsFinite ==
  ASSUME BusInv
  PROVE  /\ published \in Seq(Channel) /\ sequence \in Nat /\ IsFiniteSet(DOMAIN subs)
         /\ \A id \in DOMAIN subs : SoundSub(subs[id], published) /\ subs[id] \in Sub
                                    /\ subs[id].since \in Nat
<1>1. published \in Seq(Channel) /\ DOMAIN subs \subseteq 1..(nextId - 1) /\ nextId \in Nat
  BY DEF BusInv
<1>2. IsFiniteSet(1..(nextId - 1))
  <2> DEFINE hi == nextId - 1
  <2>1. hi \in Int
    BY <1>1
  <2> HIDE DEF hi
  <2>2. IsFiniteSet(1..hi)
    BY <2>1, FS_Interval
  <2> QED BY <2>2 DEF hi
<1>3. IsFiniteSet(DOMAIN subs)
  BY <1>1, <1>2, FS_Subset
<1>4. \A id \in DOMAIN subs : SoundSub(subs[id], published)
  BY DEF BusInv
<1>5. \A id \in DOMAIN subs : subs[id] \in Sub /\ subs[id].since \in Nat
  BY <1>4 DEF SoundSub, Sub
<1> QED BY <1>1, <1>3, <1>4, <1>5 DEF sequence

\* publish: every event let go is counted once.
LEMMA PublishCounts ==
  ASSUME BusInv, NEW type \in Channel, Publish(type)
  PROVE  BusInv'
<1> DEFINE pushed == [id \in {x \in DOMAIN subs : Listens(subs[x], type)} |->
                        Append(subs[id].queue, sequence + 1)]
           evicted == {id \in DOMAIN pushed : Len(pushed[id]) > MaxBuffer}
           ring == IF Len(events) + 1 > MaxBuffer THEN 1 ELSE 0
<1>1. /\ published' = Append(published, type) /\ events' = Newest(Append(events, sequence + 1))
      /\ nextId' = nextId /\ connections' = connections /\ missed' = missed
      /\ dropped' = dropped + (ring + Cardinality(evicted))
  BY DEF Publish, Evictions
<1>2. /\ DOMAIN subs' = DOMAIN subs
      /\ \A id \in DOMAIN subs : SoundSub(subs'[id], published')
      /\ Cardinality(evicted) \in Nat
      /\ Cardinality(Losses(subs', published', DOMAIN subs))
           = Cardinality(Losses(subs, published, DOMAIN subs)) + Cardinality(evicted)
  BY SubsTake
<1>3. /\ events' \in Seq(Nat) /\ Len(events') <= MaxBuffer /\ Distinct(events')
      /\ Range(events') \subseteq 1..sequence'
      /\ Cardinality(Gone) \in Nat /\ Cardinality(Gone') = Cardinality(Gone) + ring
  BY <1>1, RingTakes
<1>4. /\ published \in Seq(Channel) /\ nextId \in Nat \ {0} /\ dropped \in Nat /\ missed \in Nat
      /\ DOMAIN subs \subseteq 1..(nextId - 1) /\ connections \subseteq DOMAIN subs
      /\ dropped = missed + Cardinality(Losses(subs, published, DOMAIN subs)) + Cardinality(Gone)
  BY DEF BusInv
<1>5. Cardinality(Losses(subs, published, DOMAIN subs)) \in Nat
  BY SubsFinite, LossesFinite
<1>6. published' \in Seq(Channel)
  BY <1>1, <1>4
<1>7. ring \in Nat
  OBVIOUS
<1> HIDE DEF ring, evicted
<1> DEFINE lost == Cardinality(Losses(subs, published, DOMAIN subs))
           lostNow == Cardinality(Losses(subs', published', DOMAIN subs))
           gone == Cardinality(Gone)
           cut == Cardinality(evicted)
<1>8. dropped' \in Nat /\ dropped' = missed' + lostNow + Cardinality(Gone')
  <2>1. lost \in Nat /\ gone \in Nat /\ cut \in Nat /\ lostNow = lost + cut
        /\ Cardinality(Gone') = gone + ring /\ dropped = missed + lost + gone
        /\ dropped' = dropped + (ring + cut)
    BY <1>1, <1>2, <1>3, <1>4, <1>5
  <2> HIDE DEF lost, lostNow, gone, cut
  <2> QED BY <1>1, <1>4, <1>7, <2>1
<1>9. Cardinality(Losses(subs', published', DOMAIN subs')) = lostNow
  BY <1>2
<1> HIDE DEF lostNow
<1> QED BY <1>1, <1>2, <1>3, <1>4, <1>6, <1>8, <1>9 DEF BusInv

\* A new subscriber has lost nothing.
LEMMA SubscribeCounts ==
  ASSUME BusInv, NEW channels \in SUBSET Channel, Subscribe(channels),
         connections' \subseteq connections \cup {nextId}
  PROVE  BusInv'
<1> DEFINE s == [channels |-> channels, queue |-> <<>>, since |-> sequence, taken |-> {}]
           ids == DOMAIN subs
<1>1. /\ nextId' = nextId + 1 /\ DOMAIN subs' = ids \cup {nextId} /\ subs'[nextId] = s
      /\ events' = events /\ dropped' = dropped /\ published' = published /\ missed' = missed
      /\ \A id \in ids : id # nextId => subs'[id] = subs[id]
  BY DEF Subscribe
<1>2. /\ published \in Seq(Channel) /\ nextId \in Nat \ {0} /\ dropped \in Nat /\ missed \in Nat
      /\ events \in Seq(Nat) /\ Len(events) <= MaxBuffer /\ Distinct(events)
      /\ Range(events) \subseteq 1..sequence
      /\ ids \subseteq 1..(nextId - 1) /\ connections \subseteq ids
      /\ dropped = missed + Cardinality(Losses(subs, published, ids)) + Cardinality(Gone)
  BY DEF BusInv
<1>3. sequence \in Nat /\ IsFiniteSet(ids)
      /\ \A id \in ids : SoundSub(subs[id], published) /\ subs[id].since \in Nat
  BY SubsFinite
<1>4. nextId \notin ids /\ \A id \in ids : subs'[id] = subs[id]
  BY <1>1, <1>2
<1>5. s \in Sub
  <2>1. <<>> \in Seq(Nat) /\ {} \in SUBSET Nat
    OBVIOUS
  <2> QED BY <1>3, <2>1 DEF Sub
<1>6. SoundSub(s, published) /\ LostOf(s, published) = {}
  <2>1. s.queue = <<>> /\ s.since = Len(published) /\ s.taken = {}
    BY DEF sequence
  <2>2. Range(s.queue) = {} /\ Len(s.queue) = 0 /\ Distinct(s.queue)
    BY <2>1 DEF Range, Distinct
  <2>3. Len(published) \in Nat /\ MaxBuffer \in Nat
    BY <1>2, EventBusAssumption
  <2>4. (s.since + 1)..Len(published) = {}
    BY <2>1, <2>3
  <2> HIDE DEF s
  <2> QED BY <1>5, <2>1, <2>2, <2>3, <2>4 DEF SoundSub, LostOf
<1> HIDE DEF s, ids
<1>7. Losses(subs', published, ids \cup {nextId}) = Losses(subs, published, ids)
  <2>1. ASSUME NEW p
        PROVE  p \in Losses(subs', published, ids \cup {nextId}) <=> p \in Losses(subs, published, ids)
    <3>1. p \in Losses(subs', published, ids \cup {nextId})
            <=> \E id \in ids \cup {nextId} : \E n \in LostOf(subs'[id], published) : p = <<id, n>>
      BY LossesIn
    <3>2. p \in Losses(subs, published, ids)
            <=> \E id \in ids : \E n \in LostOf(subs[id], published) : p = <<id, n>>
      BY LossesIn
    <3> QED BY <1>1, <1>4, <1>6, <3>1, <3>2
  <2> QED BY <2>1
<1>8. Gone' = Gone /\ sequence' = sequence
  BY <1>1 DEF Gone, sequence
<1>9. \A id \in DOMAIN subs' : SoundSub(subs'[id], published')
  BY <1>1, <1>3, <1>4, <1>6
<1>10. DOMAIN subs' \subseteq 1..(nextId' - 1) /\ connections' \subseteq DOMAIN subs'
       /\ nextId' \in Nat \ {0}
  BY <1>1, <1>2
<1>11. dropped' = missed' + Cardinality(Losses(subs', published', DOMAIN subs')) + Cardinality(Gone')
  BY <1>1, <1>2, <1>7, <1>8
<1> QED BY <1>1, <1>2, <1>8, <1>9, <1>10, <1>11 DEF BusInv

\* Who leaves takes its losses into missed.
LEMMA LeaveCounts ==
  ASSUME BusInv, NEW gone \in SUBSET DOMAIN subs, Leave(gone), connections' = connections \ gone
  PROVE  BusInv'
<1> DEFINE ids == DOMAIN subs
           rest == ids \ gone
<1>1. /\ DOMAIN subs' = rest /\ \A id \in rest : subs'[id] = subs[id]
      /\ events' = events /\ dropped' = dropped /\ published' = published /\ nextId' = nextId
  BY DEF Leave
<1>2. missed' = missed + Cardinality(Losses(subs, published, gone))
  BY DEF Leave, LostBy, Lost, Losses, LostOf, sequence
<1>3. /\ published \in Seq(Channel) /\ nextId \in Nat \ {0} /\ dropped \in Nat /\ missed \in Nat
      /\ events \in Seq(Nat) /\ Len(events) <= MaxBuffer /\ Distinct(events)
      /\ Range(events) \subseteq 1..sequence
      /\ ids \subseteq 1..(nextId - 1) /\ connections \subseteq ids
      /\ dropped = missed + Cardinality(Losses(subs, published, ids)) + Cardinality(Gone)
  BY DEF BusInv
<1>4. IsFiniteSet(ids) /\ \A id \in ids : SoundSub(subs[id], published) /\ subs[id].since \in Nat
  BY SubsFinite
<1>5. IsFiniteSet(rest) /\ IsFiniteSet(gone) /\ rest \cap gone = {} /\ rest \cup gone = ids
  BY <1>4, FS_Subset
<1> HIDE DEF rest, ids
<1>6. Cardinality(Losses(subs, published, rest \cup gone))
        = Cardinality(Losses(subs, published, rest)) + Cardinality(Losses(subs, published, gone))
  <2>1. \A id \in rest \cup gone : subs[id].since \in Nat
    BY <1>4, <1>5
  <2> QED BY <1>3, <1>5, <2>1, LossesSplit
<1>7. Losses(subs', published, rest) = Losses(subs, published, rest)
  BY <1>1, LossesSame
<1>8. Gone' = Gone /\ sequence' = sequence
  BY <1>1 DEF Gone, sequence
<1>9. /\ Cardinality(Losses(subs, published, rest)) \in Nat
      /\ Cardinality(Losses(subs, published, gone)) \in Nat
      /\ Cardinality(Gone) \in Nat
  <2>1. (\A id \in rest : subs[id].since \in Nat) /\ \A id \in gone : subs[id].since \in Nat
    BY <1>4, <1>5
  <2>2. IsFiniteSet(1..sequence)
    <3>1. sequence \in Nat
      BY SubsFinite
    <3> QED BY <3>1, FS_Interval
  <2>3. IsFiniteSet(Gone)
    BY <2>2, FS_Subset DEF Gone
  <2>4. Cardinality(Losses(subs, published, rest)) \in Nat
    BY <1>3, <1>5, <2>1, LossesFinite
  <2>5. Cardinality(Losses(subs, published, gone)) \in Nat
    BY <1>3, <1>5, <2>1, LossesFinite
  <2> QED BY <2>3, <2>4, <2>5, FS_CardinalityType
<1>10. missed' \in Nat
       /\ dropped' = missed' + Cardinality(Losses(subs', published', DOMAIN subs')) + Cardinality(Gone')
  <2> DEFINE a == Cardinality(Losses(subs, published, rest))
             b == Cardinality(Losses(subs, published, gone))
             c == Cardinality(Gone)
  <2>1. Cardinality(Losses(subs', published', DOMAIN subs')) = a /\ Cardinality(Gone') = c
    BY <1>1, <1>7, <1>8
  <2>2. dropped = missed + (a + b) + c /\ missed' = missed + b /\ a \in Nat /\ b \in Nat /\ c \in Nat
    BY <1>2, <1>3, <1>5, <1>6, <1>9
  <2>3. dropped' = dropped /\ missed \in Nat
    BY <1>1, <1>3
  <2> HIDE DEF a, b, c
  <2>4. missed' \in Nat /\ dropped' = missed' + a + c
    BY <2>2, <2>3
  <2> QED BY <2>1, <2>4
<1>11. \A id \in DOMAIN subs' : SoundSub(subs'[id], published')
  BY <1>1, <1>4, <1>5
<1>12. DOMAIN subs' \subseteq 1..(nextId' - 1) /\ connections' \subseteq DOMAIN subs'
  BY <1>1, <1>3, <1>5
<1> QED BY <1>1, <1>3, <1>8, <1>10, <1>11, <1>12 DEF BusInv

\* drain takes what waits; the subscriber has lost what it had lost.
LEMMA DrainCounts ==
  ASSUME BusInv, NEW id \in DOMAIN subs, Drain(id)
  PROVE  BusInv'
<1> DEFINE s == subs[id]
           t == subs'[id]
           ids == DOMAIN subs
<1>1. /\ events' = events /\ dropped' = dropped /\ nextId' = nextId
      /\ connections' = connections /\ published' = published /\ missed' = missed
      /\ DOMAIN subs' = ids /\ \A x \in ids : x # id => subs'[x] = subs[x]
  BY DEF Drain
<1>2. /\ published \in Seq(Channel)
      /\ \A x \in ids : SoundSub(subs[x], published)
      /\ s \in Sub
  BY SubsFinite
<1>3. t = [[s EXCEPT !.taken = @ \cup Range(s.queue)] EXCEPT !.queue = <<>>]
  BY DEF Drain
<1>4. SoundSub(s, published)
  BY <1>2
<1> HIDE DEF s, t
<1>5. t = [channels |-> s.channels, queue |-> <<>>, since |-> s.since,
           taken |-> s.taken \cup Range(s.queue)]
  BY <1>2, <1>3 DEF Sub
<1>6. /\ s.channels \in SUBSET Channel /\ s.queue \in Seq(Nat) /\ s.since \in Nat
      /\ s.taken \in SUBSET Nat /\ s.since <= Len(published)
      /\ (\A n \in s.taken : n <= Len(published))
      /\ \A n \in Range(s.queue) : n \in (s.since + 1)..Len(published)
  BY <1>2, <1>4 DEF SoundSub, Sub
<1>7. t.channels = s.channels /\ t.queue = <<>> /\ t.since = s.since
      /\ t.taken = s.taken \cup Range(s.queue)
  BY <1>5
<1>8. Len(published) \in Nat /\ MaxBuffer \in Nat
  BY <1>2, EventBusAssumption
<1>9. Range(t.queue) = {} /\ Len(t.queue) = 0 /\ Distinct(t.queue)
  BY <1>7 DEF Range, Distinct
<1>10. \A n \in Range(s.queue) : n \in Nat /\ n <= Len(published)
  BY <1>6, <1>8
<1>11. t \in Sub
  <2>1. s.taken \cup Range(s.queue) \in SUBSET Nat /\ <<>> \in Seq(Nat)
    BY <1>6, <1>10
  <2> QED BY <1>5, <1>6, <2>1 DEF Sub
<1>12. SoundSub(t, published)
  BY <1>6, <1>7, <1>8, <1>9, <1>10, <1>11 DEF SoundSub
<1>13. LostOf(t, published) = LostOf(s, published)
  <2>1. \A c : Listens(t, c) <=> Listens(s, c)
    BY <1>7 DEF Listens
  <2> QED BY <1>7, <1>9, <2>1 DEF LostOf
<1>14. \A x \in ids : SoundSub(subs'[x], published')
                      /\ LostOf(subs'[x], published') = LostOf(subs[x], published)
  BY <1>1, <1>2, <1>12, <1>13 DEF s, t
<1> HIDE DEF ids
<1>15. Losses(subs', published', ids) = Losses(subs, published, ids)
  BY <1>14, LossesSame
<1>16. Gone' = Gone /\ sequence' = sequence
  BY <1>1 DEF Gone, sequence
<1> QED BY <1>1, <1>14, <1>15, <1>16 DEF BusInv, ids

LEMMA BusSteps == BusInv /\ [BusNext]_busVars => BusInv'
<1> SUFFICES ASSUME BusInv, [BusNext]_busVars PROVE BusInv'
  OBVIOUS
<1>1. CASE \E type \in Channel : Publish(type)
  BY <1>1, PublishCounts
<1>2. CASE \E channels \in SUBSET Channel : Listen(channels)
  <2>1. PICK channels \in SUBSET Channel : Listen(channels)
    BY <1>2
  <2>2. Subscribe(channels) /\ connections' \subseteq connections \cup {nextId}
    BY <2>1 DEF Listen
  <2> QED BY <2>2, SubscribeCounts
<1>3. CASE Connect
  <2>1. Subscribe({}) /\ connections' \subseteq connections \cup {nextId} /\ {} \in SUBSET Channel
    BY <1>3 DEF Connect
  <2> QED BY <2>1, SubscribeCounts
<1>4. CASE \E id \in DOMAIN subs : Disconnect(id)
  <2>1. PICK id \in DOMAIN subs : Disconnect(id)
    BY <1>4
  <2>2. {id} \in SUBSET DOMAIN subs /\ Leave({id}) /\ connections' = connections \ {id}
    BY <2>1 DEF Disconnect
  <2> QED BY <2>2, LeaveCounts
<1>5. CASE \E last \in connections : SweepIdle(last)
  <2>1. PICK last \in connections : SweepIdle(last)
    BY <1>5
  <2> DEFINE idle == {id \in connections : id <= last}
  <2>2. connections \subseteq DOMAIN subs
    BY DEF BusInv
  <2>3. idle \in SUBSET DOMAIN subs /\ Leave(idle) /\ connections' = connections \ idle
    BY <2>1, <2>2 DEF SweepIdle
  <2> HIDE DEF idle
  <2> QED BY <2>3, LeaveCounts
<1>6. CASE \E id \in DOMAIN subs : Drain(id)
  BY <1>6, DrainCounts
<1>7. CASE UNCHANGED busVars
  <2>1. /\ events' = events /\ dropped' = dropped /\ nextId' = nextId /\ subs' = subs
        /\ connections' = connections /\ published' = published /\ missed' = missed
    BY <1>7 DEF busVars
  <2>2. Gone' = Gone /\ sequence' = sequence
    BY <2>1 DEF Gone, sequence
  <2> QED BY <2>1, <2>2 DEF BusInv
<1> QED BY <1>1, <1>2, <1>3, <1>4, <1>5, <1>6, <1>7 DEF BusNext

\* No event leaves a subscriber's queue or the ring without being counted in
\* dropped_events, and nothing else is counted there.
THEOREM DropsAreCounted == BusSpec => []DropsCounted
<1>1. BusInv => DropsCounted
  BY DEF BusInv, DropsCounted, LostBy, Lost, Losses, LostOf, Gone, sequence
<1> QED BY <1>1, BusStarts, BusSteps, PTL DEF BusSpec

-----------------------------------------------------------------------------
(* The audit log: any contents, any intervals, records without bound, and  *)
(* records overwritten by anything.                                        *)

\* f gives the hash of everything recorded up to the n-th record of s.
Hashes(f, s) == f = [n \in 0..Len(s) |-> IF n = 0 THEN Genesis ELSE Hash(f[n - 1], s[n].content)]

\* The chain of s exists and is the only one.
IsChain(f, s) == Hashes(f, s) /\ \A g : Hashes(g, s) => g = f

\* The records of s were written one after the other along the chain f.
OnChain(f, s) == \A n \in 1..Len(s) : s[n].hash = f[n] /\ s[n].prev = f[n - 1]

\* The checkpoints are on the chain f of s, of which off records are gone.
Anchored(f, off, points, s) ==
  \A k \in DOMAIN points : \E n \in DOMAIN s :
     /\ points[k].hash = f[n]
     /\ off = 0 => n = points[k].after

\* What is written, and where the log goes on from, is a chain; of what the
\* records held look like nothing is said.
ChainKept ==
  \E f : /\ IsChain(f, said) /\ OnChain(f, said) /\ previous = f[Len(said)]
         /\ Anchored(f, Len(said) - Len(records), checkpoints, said)

AuditInv ==
  /\ \E S : said \in Seq(S) /\ records \in Seq(S) /\ checkpoints \in Seq(S)
  /\ Len(records) <= Len(said)
  /\ ~misled => ChainKept

\* The chain of one record more.
LEMMA ChainGrows ==
  ASSUME NEW S, NEW s \in Seq(S), NEW w \in S, NEW f, IsChain(f, s)
  PROVE  LET L == Len(s)
             h == [n \in 0..(L + 1) |-> IF n <= L THEN f[n] ELSE Hash(f[L], w.content)]
         IN IsChain(h, Append(s, w))
<1> DEFINE L == Len(s)
           t == Append(s, w)
           h == [n \in 0..(L + 1) |-> IF n <= L THEN f[n] ELSE Hash(f[L], w.content)]
<1>1. L \in Nat /\ Len(t) = L + 1 /\ t[L + 1] = w /\ \A n \in 1..L : t[n] = s[n]
  OBVIOUS
<1>2. f = [n \in 0..L |-> IF n = 0 THEN Genesis ELSE Hash(f[n - 1], s[n].content)]
  BY DEF IsChain, Hashes
<1>3. \A g : Hashes(g, s) => g = f
  BY DEF IsChain
<1>4. f[0] = Genesis /\ \A n \in 1..L : f[n] = Hash(f[n - 1], s[n].content)
  <2>1. 0 \in 0..L /\ \A n \in 1..L : n \in 0..L /\ n # 0
    BY <1>1
  <2> QED BY <1>2, <2>1
<1>5. /\ h[0] = f[0] /\ h[L + 1] = Hash(f[L], w.content) /\ h[L] = f[L]
      /\ \A n \in 1..L : h[n] = f[n] /\ h[n - 1] = f[n - 1]
  <2>1. 0 \in 0..(L + 1) /\ 0 <= L /\ L + 1 \in 0..(L + 1) /\ ~(L + 1 <= L) /\ L \in 0..(L + 1) /\ L <= L
    BY <1>1
  <2>2. \A n \in 1..L : n \in 0..(L + 1) /\ n <= L /\ n - 1 \in 0..(L + 1) /\ n - 1 <= L
    BY <1>1
  <2> HIDE DEF L
  <2> QED BY <2>1, <2>2
<1> HIDE DEF t, L
<1>6. Hashes(h, t)
  <2> DEFINE u == [n \in 0..(L + 1) |-> IF n = 0 THEN Genesis ELSE Hash(h[n - 1], t[n].content)]
  <2>1. ASSUME NEW n \in 0..(L + 1) PROVE h[n] = u[n]
    <3>1. CASE n = 0
      BY <1>4, <1>5, <3>1
    <3>2. CASE n = L + 1
      <4>1. n - 1 = L /\ n # 0
        BY <1>1, <3>2
      <4> HIDE DEF h
      <4>2. u[n] = Hash(h[L], w.content)
        BY <1>1, <3>2, <4>1
      <4> QED BY <1>5, <3>2, <4>2
    <3>3. CASE n \in 1..L
      <4>1. n # 0
        BY <1>1, <3>3
      <4> HIDE DEF h
      <4>2. u[n] = Hash(h[n - 1], t[n].content)
        BY <4>1
      <4> QED BY <1>1, <1>4, <1>5, <3>3, <4>2
    <3> QED BY <1>1, <3>1, <3>2, <3>3
  <2>2. h = u
    BY <2>1
  <2> HIDE DEF h
  <2> QED BY <1>1, <2>2 DEF Hashes
<1>7. ASSUME NEW g, Hashes(g, t) PROVE g = h
  <2>1. g = [n \in 0..(L + 1) |-> IF n = 0 THEN Genesis ELSE Hash(g[n - 1], t[n].content)]
    BY <1>1, <1>7 DEF Hashes
  <2>2. /\ DOMAIN g = 0..(L + 1) /\ g[0] = Genesis /\ g[L + 1] = Hash(g[L], w.content)
        /\ \A n \in 1..L : g[n] = Hash(g[n - 1], s[n].content)
    <3>1. 0 \in 0..(L + 1) /\ L + 1 \in 0..(L + 1) /\ L + 1 # 0 /\ (L + 1) - 1 = L
      BY <1>1
    <3>2. \A n \in 1..L : n \in 0..(L + 1) /\ n # 0
      BY <1>1
    <3>3. g[L + 1] = Hash(g[(L + 1) - 1], t[L + 1].content)
      BY <2>1, <3>1
    <3>4. \A n \in 1..L : g[n] = Hash(g[n - 1], t[n].content)
      BY <2>1, <3>2
    <3>5. g[0] = Genesis /\ DOMAIN g = 0..(L + 1)
      BY <2>1, <3>1
    <3> QED BY <1>1, <3>1, <3>3, <3>4, <3>5
  <2> DEFINE r == [n \in 0..L |-> g[n]]
             v == [n \in 0..L |-> IF n = 0 THEN Genesis ELSE Hash(r[n - 1], s[n].content)]
  <2>3. r = v
    <3>1. ASSUME NEW n \in 0..L PROVE r[n] = v[n]
      <4>1. CASE n = 0
        BY <2>2, <4>1
      <4>2. CASE n \in 1..L
        <5>1. n - 1 \in 0..L /\ n # 0
          BY <1>1, <4>2
        <5>2. r[n - 1] = g[n - 1]
          BY <5>1
        <5> QED BY <2>2, <4>2, <5>1, <5>2
      <4> QED BY <1>1, <4>1, <4>2
    <3> QED BY <3>1
  <2>4. r = f
    <3> HIDE DEF r
    <3>1. Hashes(r, s)
      BY <2>3 DEF Hashes, L
    <3> QED BY <1>3, <3>1
  <2>5. ASSUME NEW n \in 0..(L + 1) PROVE g[n] = h[n]
    <3>1. CASE n \in 0..L
      <4>1. n <= L
        BY <1>1, <3>1
      <4> QED BY <2>4, <3>1, <4>1
    <3>2. CASE n = L + 1
      <4>1. L \in 0..L
        BY <1>1
      <4>2. g[L] = f[L]
        BY <2>4, <4>1
      <4> QED BY <1>5, <2>2, <3>2, <4>2
    <3> QED BY <1>1, <3>1, <3>2
  <2>6. g = [n \in 0..(L + 1) |-> g[n]]
    BY <2>1
  <2> QED BY <2>5, <2>6
<1> QED BY <1>6, <1>7 DEF IsChain, t, L

LEMMA AuditStarts == AuditInit => AuditInv
<1> SUFFICES ASSUME AuditInit PROVE AuditInv
  OBVIOUS
<1>1. records = <<>> /\ previous = Genesis /\ checkpoints = <<>> /\ said = <<>>
  BY DEF AuditInit
<1> DEFINE f == [n \in 0..0 |-> Genesis]
<1>2. /\ Len(said) = 0 /\ Len(records) = 0 /\ DOMAIN checkpoints = {} /\ 1..Len(said) = {}
      /\ said \in Seq({}) /\ records \in Seq({}) /\ checkpoints \in Seq({})
  BY <1>1
<1>3. IsChain(f, said)
  <2>1. 0..0 = {0}
    OBVIOUS
  <2>2. f = [n \in 0..0 |-> IF n = 0 THEN Genesis ELSE Hash(f[n - 1], said[n].content)]
    BY <2>1
  <2>3. ASSUME NEW g,
               g = [n \in 0..0 |-> IF n = 0 THEN Genesis ELSE Hash(g[n - 1], said[n].content)]
        PROVE  g = f
    <3>1. [n \in 0..0 |-> IF n = 0 THEN Genesis ELSE Hash(g[n - 1], said[n].content)] = f
      BY <2>1
    <3> QED BY <2>3, <3>1
  <2> HIDE DEF f
  <2> QED BY <1>2, <2>2, <2>3 DEF IsChain, Hashes
<1>4. f[0] = Genesis
  OBVIOUS
<1> HIDE DEF f
<1>5. ChainKept
  BY <1>1, <1>2, <1>3, <1>4 DEF ChainKept, OnChain, Anchored
<1> QED BY <1>2, <1>5 DEF AuditInv

\* The chain at its start and at each record.
LEMMA ChainLinks ==
  ASSUME NEW f, NEW s, NEW S, s \in Seq(S), IsChain(f, s)
  PROVE  f[0] = Genesis /\ \A n \in 1..Len(s) : f[n] = Hash(f[n - 1], s[n].content)
<1>1. f = [n \in 0..Len(s) |-> IF n = 0 THEN Genesis ELSE Hash(f[n - 1], s[n].content)]
  BY DEF IsChain, Hashes
<1>2. 0 \in 0..Len(s) /\ \A n \in 1..Len(s) : n \in 0..Len(s) /\ n # 0
  OBVIOUS
<1> QED BY <1>1, <1>2

\* record extends the chain by what it says.
LEMMA RecordChains ==
  ASSUME AuditInv, NEW c \in Content, RecordAudit(c)
  PROVE  AuditInv'
<1> DEFINE L == Len(said)
           R == Len(records)
           w == Entry(c, previous, Link(c))
           t == Append(said, w)
           point == [after |-> R + 1, hash |-> Link(c)]
<1>1. PICK S0 : said \in Seq(S0) /\ records \in Seq(S0) /\ checkpoints \in Seq(S0)
  BY DEF AuditInv
<1> DEFINE S == S0 \cup {w, point}
<1>2. said \in Seq(S) /\ records \in Seq(S) /\ checkpoints \in Seq(S) /\ w \in S /\ point \in S
  <2>1. S0 \subseteq S
    OBVIOUS
  <2> HIDE DEF S
  <2>2. \A q \in Seq(S0) : q \in Seq(S)
    BY <2>1, SeqMonotonic
  <2> QED BY <1>1, <2>2 DEF S
<1>3. /\ said' = t /\ records' = Append(records, w) /\ previous' = Link(c)
      /\ checkpoints' \in {checkpoints, Append(checkpoints, point)} /\ misled' = misled
  BY DEF RecordAudit, Checkpoint
<1>4. w.content = c /\ w.hash = Link(c) /\ w.prev = previous /\ point.hash = Link(c) /\ point.after = R + 1
  BY DEF Entry
<1> HIDE DEF S, w, point
<1>5. /\ L \in Nat /\ R \in Nat /\ R <= L
      /\ t \in Seq(S) /\ Len(t) = L + 1 /\ t[L + 1] = w /\ \A n \in 1..L : t[n] = said[n]
      /\ DOMAIN said = 1..L /\ DOMAIN t = 1..(L + 1)
  BY <1>2 DEF AuditInv
<1>6. records' \in Seq(S) /\ Len(records') = R + 1 /\ checkpoints' \in Seq(S)
  <2>1. records' \in Seq(S) /\ Len(records') = R + 1
    BY <1>2, <1>3
  <2>2. Append(checkpoints, point) \in Seq(S)
    BY <1>2
  <2>3. checkpoints' \in Seq(S)
    BY <1>2, <1>3, <2>2
  <2> QED BY <2>1, <2>3
<1>7. ASSUME ~misled PROVE ChainKept'
  <2>1. PICK f : /\ IsChain(f, said) /\ OnChain(f, said) /\ previous = f[L]
                 /\ Anchored(f, L - R, checkpoints, said)
    BY <1>7 DEF AuditInv, ChainKept
  <2> DEFINE h == [n \in 0..(L + 1) |-> IF n <= L THEN f[n] ELSE Hash(f[L], w.content)]
  <2>2. IsChain(h, t)
    BY <1>2, <2>1, ChainGrows
  <2>3. /\ \A n \in 0..L : h[n] = f[n]
        /\ h[L + 1] = Link(c)
    <3>1. \A n \in 0..L : n \in 0..(L + 1) /\ n <= L
      BY <1>5
    <3>2. L + 1 \in 0..(L + 1) /\ ~(L + 1 <= L)
      BY <1>5
    <3>3. Link(c) = Hash(f[L], w.content)
      BY <1>4, <2>1 DEF Link
    <3> HIDE DEF L
    <3> QED BY <3>1, <3>2, <3>3
  <2> HIDE DEF h, t, L, R
  <2>4. OnChain(h, t)
    <3> SUFFICES ASSUME NEW n \in 1..(L + 1) PROVE t[n].hash = h[n] /\ t[n].prev = h[n - 1]
      BY <1>5 DEF OnChain
    <3>1. CASE n \in 1..L
      <4>1. n \in 0..L /\ n - 1 \in 0..L
        BY <1>5, <3>1
      <4>2. said[n].hash = f[n] /\ said[n].prev = f[n - 1]
        BY <2>1, <3>1 DEF OnChain, L
      <4> QED BY <1>5, <2>3, <3>1, <4>1, <4>2
    <3>2. CASE n = L + 1
      <4>1. n - 1 = L /\ L \in 0..L
        BY <1>5, <3>2
      <4> QED BY <1>4, <1>5, <2>1, <2>3, <3>2, <4>1
    <3> QED BY <1>5, <3>1, <3>2
  <2>5. (L + 1) - (R + 1) = L - R
    BY <1>5
  <2>6. \A k \in DOMAIN checkpoints : \E n \in DOMAIN t :
           /\ checkpoints[k].hash = h[n]
           /\ L - R = 0 => n = checkpoints[k].after
    <3> SUFFICES ASSUME NEW k \in DOMAIN checkpoints
                 PROVE  \E n \in DOMAIN t : /\ checkpoints[k].hash = h[n]
                                            /\ L - R = 0 => n = checkpoints[k].after
      OBVIOUS
    <3>1. PICK n \in 1..L : /\ checkpoints[k].hash = f[n]
                            /\ L - R = 0 => n = checkpoints[k].after
      BY <1>5, <2>1 DEF Anchored
    <3>2. n \in 1..(L + 1) /\ n \in 0..L
      BY <1>5
    <3> QED BY <1>5, <2>3, <3>1, <3>2
  <2>7. Anchored(h, L - R, checkpoints', t)
    <3>1. CASE checkpoints' = checkpoints
      BY <2>6, <3>1 DEF Anchored
    <3>2. CASE checkpoints' = Append(checkpoints, point)
      <4> DEFINE q == checkpoints'
                 K == Len(checkpoints)
      <4>1. /\ q[K + 1] = point /\ \A k \in 1..K : q[k] = checkpoints[k]
            /\ DOMAIN q = 1..(K + 1) /\ DOMAIN checkpoints = 1..K /\ K \in Nat
        BY <1>2, <3>2
      <4> HIDE DEF q, K
      <4>2. ASSUME NEW k \in DOMAIN q
            PROVE  \E n \in DOMAIN t : q[k].hash = h[n] /\ (L - R = 0 => n = q[k].after)
        <5>1. CASE k \in 1..K
          BY <2>6, <4>1, <5>1
        <5>2. CASE k = K + 1
          <6>1. L + 1 \in DOMAIN t /\ (L - R = 0 => L + 1 = R + 1)
            BY <1>5
          <6> QED BY <1>4, <2>3, <4>1, <5>2, <6>1
        <5> QED BY <4>1, <5>1, <5>2
      <4> QED BY <4>2 DEF Anchored, q
    <3> QED BY <1>3, <3>1, <3>2
  <2>8. Len(said') - Len(records') = L - R /\ previous' = h[Len(said')]
    BY <1>3, <1>5, <1>6, <2>3, <2>5 DEF t
  <2> QED BY <1>3, <2>2, <2>4, <2>7, <2>8 DEF ChainKept
<1>8. Len(records') <= Len(said') /\ said' \in Seq(S)
  BY <1>3, <1>5, <1>6
<1> QED BY <1>3, <1>6, <1>7, <1>8 DEF AuditInv

\* apply_retention leaves the chain alone, unless the hash it goes on from was
\* rewritten.
LEMMA RetentionChains ==
  ASSUME AuditInv, ApplyRetention
  PROVE  AuditInv'
<1> DEFINE L == Len(said)
           R == Len(records)
           lo == R - Retain + 1
           kept == SubSeq(records, lo, R)
           first == Entry(kept[1].content, Genesis, kept[1].hash)
<1>1. PICK S0 : said \in Seq(S0) /\ records \in Seq(S0) /\ checkpoints \in Seq(S0)
  BY DEF AuditInv
<1>2. /\ said' = said /\ checkpoints' = checkpoints
      /\ R > Retain /\ records' = [kept EXCEPT ![1] = first] /\ previous' = kept[Retain].hash
      /\ misled' = (misled \/ kept[Retain].hash # previous)
  BY DEF ApplyRetention
<1>3. R \in Nat /\ L \in Nat /\ R <= L /\ Retain \in Nat \ {0}
  BY <1>1, AuditChainAssumption DEF AuditInv
<1> DEFINE S == S0 \cup {first}
<1>4. S0 \subseteq S /\ first \in S
  OBVIOUS
<1> HIDE DEF S, first
<1>5. /\ \A q \in Seq(S0) : q \in Seq(S)
  BY <1>4, SeqMonotonic
<1>6. lo \in 1..R /\ lo \in Int /\ R \in Int /\ R - lo + 1 = Retain /\ lo <= R
  BY <1>2, <1>3
<1> HIDE DEF lo
<1>7. kept \in Seq(S0) /\ Len(kept) = Retain
  <2>1. \A i \in lo..R : records[i] \in S0
    <3>1. \A i \in 1..R : records[i] \in S0
      BY <1>1
    <3>2. \A i \in lo..R : i \in 1..R
      BY <1>6
    <3> QED BY <3>1, <3>2
  <2> HIDE DEF R
  <2> QED BY <1>6, <2>1, SubSeqProperties
<1> HIDE DEF kept
<1>8. records' \in Seq(S) /\ Len(records') = Retain
  <2>1. kept \in Seq(S) /\ 1 \in 1..Len(kept)
    BY <1>3, <1>5, <1>7
  <2> QED BY <1>2, <1>4, <1>7, <2>1
<1>9. ASSUME ~misled' PROVE ChainKept'
  <2>1. ~misled /\ previous' = previous
    BY <1>2, <1>9
  <2>2. PICK f : /\ IsChain(f, said) /\ OnChain(f, said) /\ previous = f[L]
                 /\ Anchored(f, L - R, checkpoints, said)
    BY <2>1 DEF AuditInv, ChainKept
  <2>3. L - Retain # 0 /\ Len(records') = Retain
    BY <1>2, <1>3, <1>8
  <2>4. Anchored(f, L - Retain, checkpoints, said)
    <3> HIDE DEF L, R
    <3> QED BY <2>2, <2>3 DEF Anchored
  <2> QED BY <1>2, <2>1, <2>2, <2>3, <2>4 DEF ChainKept
<1>10. Len(records') <= Len(said')
  BY <1>2, <1>3, <1>8
<1> QED BY <1>1, <1>2, <1>5, <1>8, <1>9, <1>10 DEF AuditInv

\* A record that is overwritten, by whatever it is, leaves what was written.
LEMMA RewriteChains ==
  ASSUME AuditInv, NEW i \in DOMAIN records, NEW e, Rewrite(i, e)
  PROVE  AuditInv'
<1>1. PICK S0 : said \in Seq(S0) /\ records \in Seq(S0) /\ checkpoints \in Seq(S0)
  BY DEF AuditInv
<1>2. /\ records' = [records EXCEPT ![i] = e] /\ said' = said /\ previous' = previous
      /\ checkpoints' = checkpoints /\ misled' = misled
  BY DEF Rewrite
<1> DEFINE S == S0 \cup {e}
<1>3. S0 \subseteq S /\ e \in S
  OBVIOUS
<1> HIDE DEF S
<1>4. \A q \in Seq(S0) : q \in Seq(S)
  BY <1>3, SeqMonotonic
<1>5. records' \in Seq(S) /\ Len(records') = Len(records)
  BY <1>1, <1>2, <1>3, <1>4
<1>6. said' \in Seq(S) /\ checkpoints' \in Seq(S)
  BY <1>1, <1>2, <1>4
<1>7. ~misled' => ChainKept'
  BY <1>2, <1>5 DEF AuditInv, ChainKept
<1>8. Len(records') <= Len(said')
  BY <1>2, <1>5 DEF AuditInv
<1> QED BY <1>5, <1>6, <1>7, <1>8 DEF AuditInv

LEMMA AuditSteps == AuditInv /\ [AuditNext]_auditVars => AuditInv'
<1> SUFFICES ASSUME AuditInv, [AuditNext]_auditVars PROVE AuditInv'
  OBVIOUS
<1>1. CASE \E c \in Content : RecordAudit(c)
  BY <1>1, RecordChains
<1>2. CASE ApplyRetention
  BY <1>2, RetentionChains
<1>3. CASE \E i \in DOMAIN records : \E e \in Forged(i) : Rewrite(i, e)
  BY <1>3, RewriteChains
<1>4. CASE UNCHANGED auditVars
  BY <1>4 DEF auditVars, AuditInv, ChainKept
<1> QED BY <1>1, <1>2, <1>3, <1>4 DEF AuditNext

\* Where every link holds behind the first record and the last record has the
\* hash of the chain, every record has: a first one from the end that has not
\* would break the link behind it.
LEMMA HashesFollow ==
  ASSUME AuditInv, NEW f, IsChain(f, said), OnChain(f, said), previous = f[Len(said)],
         TipStands, \A i \in 2..Len(records) : LinkHolds(i),
         NEW off, off = Len(said) - Len(records)
  PROVE  \A i \in 1..Len(records) : records[i].hash = f[off + i]
<1> DEFINE L == Len(said)
           R == Len(records)
           bad == {j \in Nat : j < R /\ records[R - j].hash # f[off + (R - j)]}
<1>1. PICK S : said \in Seq(S) /\ records \in Seq(S)
  BY DEF AuditInv
<1>2. L \in Nat /\ R \in Nat /\ off \in Nat /\ off + R = L
  BY <1>1 DEF AuditInv
<1>3. records[R].hash = f[L]
  BY DEF TipStands
<1>4. \A n \in 1..L : f[n] = Hash(f[n - 1], said[n].content)
  BY <1>1, ChainLinks
<1> HIDE DEF L, R
<1>5. bad = {}
  <2> SUFFICES ASSUME bad # {} PROVE FALSE
    OBVIOUS
  <2>1. bad \in SUBSET Nat
    OBVIOUS
  <2>2. PICK j \in bad : \A k \in bad : j <= k
    <3> HIDE DEF bad
    <3> QED BY <2>1, LeastNatural
  <2>3. j \in Nat /\ j < R /\ records[R - j].hash # f[off + (R - j)]
    BY <2>2
  <2>4. j # 0
    <3>1. R - 0 = R /\ off + R = L
      BY <1>2
    <3> QED BY <1>3, <2>3, <3>1
  <2> DEFINE i == R - (j - 1)
  <2>5. j - 1 \in Nat /\ j - 1 < R /\ ~(j <= j - 1)
    BY <1>2, <2>3, <2>4
  <2>6. records[i].hash = f[off + i]
    BY <2>2, <2>5
  <2>7. i \in 2..R /\ off + i \in 1..L /\ i - 1 = R - j /\ off + i - 1 = off + (R - j)
    BY <1>2, <2>3, <2>4
  <2> HIDE DEF i, bad
  <2>8. LinkHolds(i)
    BY <2>7 DEF R
  <2>9. records[i].prev = records[i - 1].hash /\ records[i].hash = Hash(records[i].prev, records[i].content)
    BY <2>7, <2>8 DEF LinkHolds
  <2>10. Hash(records[i].prev, records[i].content) = Hash(f[off + i - 1], said[off + i].content)
    <3>1. \A n \in 1..L : n = off + i => f[n] = Hash(f[n - 1], said[n].content)
      BY <1>4
    <3>2. f[off + i] = Hash(f[off + i - 1], said[off + i].content)
      BY <2>7, <3>1
    <3> QED BY <2>6, <2>9, <3>2
  <2>11. records[i].prev = f[off + i - 1]
    BY <2>10 DEF Hash
  <2> QED BY <2>3, <2>7, <2>9, <2>11
<1>6. ASSUME NEW i \in 1..R PROVE records[i].hash = f[off + i]
  <2>1. R - i \in Nat /\ R - i < R /\ R - (R - i) = i
    BY <1>2, <1>6
  <2> QED BY <1>5, <2>1
<1> QED BY <1>6 DEF R

\* The chain tells which stored records were changed, as far as TamperEvident
\* says.
LEMMA ChainTells == AuditInv => TamperEvident
<1> SUFFICES ASSUME AuditInv, ~misled PROVE TamperEvident
  BY DEF TamperEvident
<1> DEFINE L == Len(said)
           R == Len(records)
           off == L - R
<1>1. PICK f : /\ IsChain(f, said) /\ OnChain(f, said) /\ previous = f[L]
               /\ Anchored(f, off, checkpoints, said)
  BY DEF AuditInv, ChainKept
<1>2. PICK S : said \in Seq(S) /\ records \in Seq(S)
  BY DEF AuditInv
<1>3. /\ L \in Nat /\ R \in Nat /\ off \in Nat /\ off + R = L /\ DOMAIN records = 1..R
      /\ (~Trimmed <=> off = 0)
  BY <1>2 DEF AuditInv, Trimmed
<1>4. f[0] = Genesis /\ \A n \in 1..L : f[n] = Hash(f[n - 1], said[n].content)
  BY <1>1, <1>2, ChainLinks
<1>5. Chain = f
  <2> DEFINE chain == CHOOSE g : g = [n \in 0..Len(said) |->
                                   IF n = 0 THEN Genesis ELSE Hash(g[n - 1], said[n].content)]
  <2>1. Chain = chain
    BY DEF Chain
  <2>2. f = [n \in 0..Len(said) |-> IF n = 0 THEN Genesis ELSE Hash(f[n - 1], said[n].content)]
    BY <1>1 DEF IsChain, Hashes
  <2>3. chain = [n \in 0..Len(said) |->
                   IF n = 0 THEN Genesis ELSE Hash(chain[n - 1], said[n].content)]
    BY <2>2
  <2> HIDE DEF chain
  <2>4. Hashes(chain, said)
    BY <2>3 DEF Hashes
  <2> QED BY <1>1, <2>1, <2>4 DEF IsChain
<1>6. \A n \in 1..L : said[n].hash = f[n] /\ said[n].prev = f[n - 1]
  BY <1>1 DEF OnChain
<1> HIDE DEF L, R, off
<1>7. ASSUME NEW i \in 1..R
      PROVE  /\ Written(i) = said[off + i] /\ off + i \in 1..L
             /\ Written(i).hash = f[off + i] /\ Written(i).prev = f[off + i - 1]
             /\ f[off + i] = Hash(f[off + i - 1], Written(i).content)
  <2>1. off + i \in 1..L
    BY <1>3
  <2>2. Written(i) = said[off + i]
    BY DEF Written, L, R, off
  <2>3. PICK n \in 1..L : n = off + i
    BY <2>1
  <2>4. Written(i).hash = f[n] /\ Written(i).prev = f[n - 1] /\ f[n] = Hash(f[n - 1], Written(i).content)
    BY <1>4, <1>6, <2>2, <2>3
  <2> QED BY <1>3, <2>1, <2>2, <2>3, <2>4
\* A record is untouched where its hash and the one before are as written.
<1>8. ASSUME NEW i \in 1..R, LinkHolds(i), records[i].hash = Written(i).hash,
             IF i = 1 THEN off = 0 ELSE records[i - 1].hash = Written(i - 1).hash
      PROVE  Untouched(i)
  <2>1. Hash(records[i].prev, records[i].content) = Hash(f[off + i - 1], Written(i).content)
    BY <1>7, <1>8 DEF LinkHolds
  <2>2. records[i].prev = f[off + i - 1] /\ records[i].content = Written(i).content
    BY <2>1 DEF Hash
  <2>3. i = 1 => f[off + i - 1] = Genesis
    BY <1>3, <1>4, <1>8
  <2> QED BY <1>7, <1>8, <2>2, <2>3 DEF Untouched
<1>9. ASSUME NEW i \in 1..R, Untouched(i),
             IF i = 1 THEN off = 0 ELSE records[i - 1].hash = Written(i - 1).hash
      PROVE  LinkHolds(i)
  <2>1. /\ records[i].content = Written(i).content /\ records[i].hash = Written(i).hash
        /\ records[i].prev = IF i = 1 THEN Genesis ELSE Written(i).prev
    BY <1>9 DEF Untouched
  <2>2. CASE i = 1
    <3>1. f[off + i - 1] = Genesis
      BY <1>3, <1>4, <1>9, <2>2
    <3> QED BY <1>7, <2>1, <2>2, <3>1 DEF LinkHolds
  <2>3. CASE i # 1
    <3>1. i - 1 \in 1..R /\ off + (i - 1) = off + i - 1
      BY <1>3, <2>3
    <3>2. Written(i - 1).hash = f[off + (i - 1)]
      BY <1>7, <3>1
    <3>3. records[i].prev = records[i - 1].hash
      BY <1>7, <1>9, <2>1, <2>3, <3>1, <3>2
    <3> QED BY <1>7, <2>1, <2>3, <3>3 DEF LinkHolds
  <2> QED BY <2>2, <2>3
<1>10. ASSUME TipStands PROVE 1 \in 1..R /\ \A i \in 2..R : i \in 1..R /\ i # 1 /\ i - 1 \in 1..R
  <2>1. R # 0
    BY <1>2, <1>10 DEF TipStands, R
  <2> QED BY <1>3, <2>1
<1>11. ASSUME TipStands, \A i \in 2..R : LinkHolds(i)
       PROVE  \A i \in 1..R : records[i].hash = Written(i).hash
  <2>1. \A i \in 1..R : records[i].hash = f[off + i]
    BY <1>1, <1>11, HashesFollow DEF L, R, off
  <2> QED BY <1>7, <2>1
<1>12. ASSUME TipStands, records[1].hash = Written(1).hash, \A i \in 2..R : Untouched(i)
       PROVE  \A i \in 1..R : records[i].hash = Written(i).hash
  <2> SUFFICES ASSUME NEW i \in 1..R PROVE records[i].hash = Written(i).hash
    OBVIOUS
  <2>1. i = 1 \/ i \in 2..R
    BY <1>3
  <2> QED BY <1>12, <2>1 DEF Untouched
<1>13. TipStands => ((\A i \in 2..Len(records) : LinkHolds(i))
                       <=> /\ records[1].hash = Written(1).hash
                           /\ \A i \in 2..Len(records) : Untouched(i))
  <2>1. ASSUME TipStands, \A i \in 2..R : LinkHolds(i)
        PROVE  records[1].hash = Written(1).hash /\ \A i \in 2..R : Untouched(i)
    BY <1>8, <1>10, <1>11, <2>1
  <2>2. ASSUME TipStands, records[1].hash = Written(1).hash, \A i \in 2..R : Untouched(i)
        PROVE  \A i \in 2..R : LinkHolds(i)
    BY <1>9, <1>10, <1>12, <2>2
  <2> QED BY <2>1, <2>2 DEF R
<1>14. TipStands /\ ~Trimmed => (Verifies <=> \A i \in DOMAIN records : Untouched(i))
  <2>1. ASSUME TipStands, off = 0, \A i \in 1..R : LinkHolds(i)
        PROVE  \A i \in 1..R : Untouched(i)
    <3>1. \A i \in 1..R : records[i].hash = Written(i).hash
      BY <1>10, <1>11, <2>1
    <3>2. ASSUME NEW i \in 1..R, i # 1 PROVE i - 1 \in 1..R
      BY <1>3, <3>2
    <3> QED BY <1>8, <2>1, <3>1, <3>2
  <2>2. ASSUME off = 0, \A i \in 1..R : Untouched(i)
        PROVE  \A i \in 1..R : LinkHolds(i)
    <3>1. \A i \in 1..R : records[i].hash = Written(i).hash
      BY <2>2 DEF Untouched
    <3>2. ASSUME NEW i \in 1..R, i # 1 PROVE i - 1 \in 1..R
      BY <1>3, <3>2
    <3> QED BY <1>9, <2>2, <3>1, <3>2
  <2> QED BY <1>3, <2>1, <2>2 DEF Verifies
<1>15. \A k \in DOMAIN checkpoints : \E n \in DOMAIN said :
          /\ checkpoints[k].hash = Chain[n]
          /\ ~Trimmed => n = checkpoints[k].after
  BY <1>1, <1>3, <1>5 DEF Anchored
<1> QED BY <1>13, <1>14, <1>15 DEF TamperEvident

\* Whatever is recorded, trimmed and overwritten, the links tell the changes
\* behind the first record as long as the last one has the hash the log goes on
\* from, and a checkpoint anchors what was recorded.
THEOREM TamperingShows == AuditSpec => []TamperEvident
BY AuditStarts, AuditSteps, ChainTells, PTL DEF AuditSpec

-----------------------------------------------------------------------------
(* Playbook executions: any definitions with the same gates, any number of *)
(* executions, registrations and approvals.                                *)

Step == [id : StepId, kind : {"work", "gate"}]

\* x waits at a gate behind gates that are approved.
WaitsAtGate(x, ap) ==
  x.status = "AwaitingApproval" =>
     \E b \in Books : \E i \in DOMAIN b :
        b[i].kind = "gate" /\ b[i].id = x.pending /\ GatesBefore(b, i) \subseteq ap

RanSteps == SUBSET (StepId \X SUBSET StepId)

\* Every execution waits at a gate, and ran its steps, behind approved ones.
RunsSound ==
  \A e \in 1..Len(execs) :
     /\ WaitsAtGate(execs[e], approved[e])
     /\ \A r \in ran[e] : r[2] \subseteq approved[e]

PlaybookInv ==
  /\ book \in Books /\ bookEnabled \in BOOLEAN
  /\ execs \in Seq(Execution) /\ Len(execs) <= MaxExec
  /\ ran \in Seq(RanSteps) /\ Len(ran) = Len(execs)
  /\ approved \in Seq(SUBSET StepId) /\ Len(approved) = Len(execs)
  /\ SameGates => RunsSound

\* A run halts at the first gate from where it starts, or past the end.
LEMMA RunHalts ==
  ASSUME book \in Seq(Step), NEW from \in 1..(Len(book) + 1)
  PROVE  LET g == Halts(from)
         IN /\ g \in from..(Len(book) + 1)
            /\ g <= Len(book) => book[g].kind = "gate"
            /\ \A i \in from..(g - 1) : book[i].kind # "gate"
<1> DEFINE N == Len(book)
           gates == {i \in from..N : book[i].kind = "gate"}
           g == Halts(from)
<1>1. N \in Nat /\ from \in Nat /\ from <= N + 1 /\ 1 <= from
  OBVIOUS
<1>2. gates \in SUBSET Nat /\ \A i \in gates : i \in from..N /\ book[i].kind = "gate"
  BY <1>1
<1>3. \A i \in from..N : i \notin gates => book[i].kind # "gate"
  OBVIOUS
<1>4. g = IF gates = {} THEN N + 1 ELSE CHOOSE i \in gates : \A h \in gates : i <= h
  BY DEF Halts
<1> HIDE DEF gates, g, N
<1>5. CASE gates = {}
  <2>1. g = N + 1
    BY <1>4, <1>5
  <2>2. \A i \in from..(g - 1) : i \in from..N
    BY <1>1, <2>1
  <2>3. g \in from..(N + 1) /\ ~(g <= N)
    BY <1>1, <2>1
  <2> QED BY <1>3, <1>5, <2>2, <2>3 DEF g, N
<1>6. CASE gates # {}
  <2>1. \E i \in gates : \A h \in gates : i <= h
    BY <1>2, <1>6, LeastNatural
  <2>2. g \in gates /\ \A h \in gates : g <= h
    BY <1>4, <1>6, <2>1
  <2>a. g \in from..N /\ book[g].kind = "gate"
    BY <1>2, <2>2
  <2>b. g \in from..(N + 1)
    BY <1>1, <2>a
  <2>3. g \in from..N /\ g \in from..(N + 1) /\ book[g].kind = "gate"
    BY <2>a, <2>b
  <2>4. \A i \in from..(g - 1) : i \in from..N /\ ~(g <= i)
    BY <1>1, <2>3
  <2>5. \A i \in from..(g - 1) : book[i].kind # "gate"
    BY <1>3, <2>2, <2>4
  <2> QED BY <2>3, <2>5 DEF g, N
<1> QED BY <1>5, <1>6

\* What a run from step number from carries out, and the gate it halts at, have
\* the gates before them that were before from.
LEMMA RunKeepsGates ==
  ASSUME book \in Seq(Step), NEW from \in 1..(Len(book) + 1)
  PROVE  /\ \A r \in RanFrom(from) : r[2] = GatesBefore(book, from)
         /\ GatesBefore(book, Halts(from)) = GatesBefore(book, from)
<1> DEFINE g == Halts(from)
<1>1. g \in from..(Len(book) + 1) /\ \A i \in from..(g - 1) : book[i].kind # "gate"
  BY RunHalts
<1>2. from \in Nat /\ Len(book) \in Nat /\ 1 <= from
  OBVIOUS
<1>3. ASSUME NEW i \in from..g PROVE GatesBefore(book, i) = GatesBefore(book, from)
  <2>1. \A k \in 1..(i - 1) : k \in 1..(from - 1) \/ k \in from..(g - 1)
    BY <1>1, <1>2
  <2>2. \A k \in 1..(from - 1) : k \in 1..(i - 1)
    BY <1>1, <1>2
  <2> HIDE DEF g
  <2>3. {k \in 1..(i - 1) : book[k].kind = "gate"} = {k \in 1..(from - 1) : book[k].kind = "gate"}
    BY <1>1, <2>1, <2>2
  <2> QED BY <2>3 DEF GatesBefore
<1>4. g \in from..g /\ \A i \in from..(g - 1) : i \in from..g
  BY <1>1, <1>2
<1> HIDE DEF g
<1>5. GatesBefore(book, g) = GatesBefore(book, from)
  BY <1>3, <1>4
<1>6. \A r \in RanFrom(from) : \E i \in from..(g - 1) : r = <<book[i].id, GatesBefore(book, i)>>
  BY DEF RanFrom, g
<1>7. \A r \in RanFrom(from) : r[2] = GatesBefore(book, from)
  <2> SUFFICES ASSUME NEW r \in RanFrom(from) PROVE r[2] = GatesBefore(book, from)
    OBVIOUS
  <2>1. PICK i \in from..(g - 1) : r = <<book[i].id, GatesBefore(book, i)>>
    BY <1>6
  <2> QED BY <1>3, <1>4, <2>1
<1> QED BY <1>5, <1>7 DEF g

LEMMA StepsHaveIds ==
  ASSUME NEW b \in Seq(Step)
  PROVE  \A i \in DOMAIN b : b[i].id \in StepId
<1>1. \A i \in DOMAIN b : b[i] \in Step
  OBVIOUS
<1>2. \A t \in Step : t.id \in StepId
  BY DEF Step
<1> QED BY <1>1, <1>2

LEMMA ContinuedSound ==
  ASSUME book \in Books, NEW from \in 1..(Len(book) + 1), NEW x \in Execution,
         NEW ap, GatesBefore(book, from) \subseteq ap
  PROVE  /\ Continued(x, from) \in Execution
         /\ WaitsAtGate(Continued(x, from), ap)
         /\ \A r \in RanFrom(from) : r[2] \subseteq ap
         /\ RanFrom(from) \in RanSteps
<1> DEFINE g == Halts(from)
           over == g > Len(book)
           gate == IF over THEN NoStep ELSE book[g].id
           status == IF over THEN "Succeeded" ELSE "AwaitingApproval"
           results == [s \in StepId |->
                         IF x.results[s] = "none" THEN "none"
                         ELSE IF s = gate THEN "AwaitingApproval"
                         ELSE IF s \in RunUpTo(from) THEN "Succeeded" ELSE x.results[s]]
           y == Continued(x, from)
<1>1. book \in Seq(Step)
  BY PlaybookAssumption DEF Step
<1>2. /\ g \in from..(Len(book) + 1)
      /\ g <= Len(book) => book[g].kind = "gate"
      /\ GatesBefore(book, g) \subseteq ap
      /\ \A r \in RanFrom(from) : r[2] \subseteq ap
  BY <1>1, RunHalts, RunKeepsGates
<1>3. y = [[[x EXCEPT !.status = status] EXCEPT !.pending = gate] EXCEPT !.results = results]
  BY DEF Continued
<1>4. x.results \in [StepId -> StepStatus]
  BY DEF Execution
<1>5. results \in [StepId -> StepStatus]
  BY <1>4 DEF StepStatus
<1>6. ~over => g \in DOMAIN book /\ book[g].kind = "gate"
  BY <1>1, <1>2
<1>7. gate \in StepId \cup {NoStep}
  <2>1. \A i \in DOMAIN book : book[i].id \in StepId
    BY <1>1, StepsHaveIds
  <2> HIDE DEF g
  <2> QED BY <1>6, <2>1
<1>8. status \in {"Running", "AwaitingApproval", "Succeeded"}
  OBVIOUS
<1>9. (status = "AwaitingApproval" <=> ~over) /\ (~over => gate = book[g].id)
  OBVIOUS
<1> HIDE DEF results, gate, status, over, y
<1>10. y \in Execution /\ y.status = status /\ y.pending = gate
  BY <1>3, <1>5, <1>7, <1>8 DEF Execution
<1>12. RanFrom(from) \in RanSteps
  <2> SUFFICES ASSUME NEW i \in from..(g - 1)
               PROVE  book[i].id \in StepId /\ GatesBefore(book, i) \subseteq StepId
    BY DEF RanFrom, RanSteps
  <2>1. \A k \in DOMAIN book : book[k].id \in StepId
    BY <1>1, StepsHaveIds
  <2>2. Len(book) \in Nat /\ DOMAIN book = 1..Len(book)
    BY <1>1
  <2>3. g \in from..(Len(book) + 1)
    BY <1>2
  <2> HIDE DEF g
  <2>4. i \in DOMAIN book /\ \A k \in 1..(i - 1) : k \in DOMAIN book
    BY <2>2, <2>3
  <2> QED BY <2>1, <2>4 DEF GatesBefore
<1> HIDE DEF g
<1>11. WaitsAtGate(y, ap)
  <2> SUFFICES ASSUME y.status = "AwaitingApproval"
               PROVE  \E b \in Books : \E i \in DOMAIN b :
                         b[i].kind = "gate" /\ b[i].id = y.pending /\ GatesBefore(b, i) \subseteq ap
    BY DEF WaitsAtGate
  <2>1. g \in DOMAIN book /\ book[g].kind = "gate" /\ book[g].id = y.pending
    BY <1>6, <1>9, <1>10
  <2> QED BY <1>2, <2>1
<1> QED BY <1>2, <1>10, <1>11, <1>12 DEF y

LEMMA StartedSound ==
  ASSUME book \in Books
  PROVE  Started \in Execution /\ Started.status = "Running"
<1>1. [s \in StepId |-> IF s \in Ids(book) THEN "Pending" ELSE "none"] \in [StepId -> StepStatus]
  BY DEF StepStatus
<1> QED BY <1>1 DEF Started, Execution

\* The invariant is about each execution by itself: one more,
LEMMA ExecutionAdded ==
  ASSUME PlaybookInv, NEW x \in Execution, NEW r \in RanSteps, Len(execs) < MaxExec,
         execs' = Append(execs, x), ran' = Append(ran, r), approved' = Append(approved, {}),
         book' = book, bookEnabled' = bookEnabled,
         WaitsAtGate(x, {}), \A p \in r : p[2] \subseteq {}
  PROVE  PlaybookInv'
<1> DEFINE n == Len(execs)
<1>1. /\ book \in Books /\ bookEnabled \in BOOLEAN
      /\ execs \in Seq(Execution) /\ n <= MaxExec
      /\ ran \in Seq(RanSteps) /\ Len(ran) = n
      /\ approved \in Seq(SUBSET StepId) /\ Len(approved) = n
  BY DEF PlaybookInv
<1>2. n \in Nat /\ MaxExec \in Nat /\ {} \in SUBSET StepId
  BY <1>1, PlaybookAssumption
<1>3. /\ execs' \in Seq(Execution) /\ Len(execs') = n + 1 /\ execs'[n + 1] = x
      /\ \A e \in 1..n : execs'[e] = execs[e]
  BY <1>1
<1>4. /\ ran' \in Seq(RanSteps) /\ Len(ran') = n + 1 /\ ran'[n + 1] = r
      /\ \A e \in 1..n : ran'[e] = ran[e]
  BY <1>1
<1>5. /\ approved' \in Seq(SUBSET StepId) /\ Len(approved') = n + 1 /\ approved'[n + 1] = {}
      /\ \A e \in 1..n : approved'[e] = approved[e]
  BY <1>1, <1>2
<1>6. n + 1 <= MaxExec
  BY <1>2
<1>0. SameGates => \A e \in 1..n : /\ WaitsAtGate(execs[e], approved[e])
                                   /\ \A p \in ran[e] : p[2] \subseteq approved[e]
  BY DEF PlaybookInv, RunsSound
<1> HIDE DEF n
<1>7. ASSUME SameGates, NEW e \in 1..(n + 1)
      PROVE  /\ WaitsAtGate(execs'[e], approved'[e])
             /\ \A p \in ran'[e] : p[2] \subseteq approved'[e]
  <2>1. CASE e = n + 1
    BY <1>3, <1>4, <1>5, <2>1
  <2>2. CASE e \in 1..n
    BY <1>0, <1>3, <1>4, <1>5, <1>7, <2>2
  <2>3. e = n + 1 \/ e \in 1..n
    BY <1>2
  <2> QED BY <2>1, <2>2, <2>3
<1>8. SameGates => RunsSound'
  BY <1>3, <1>7 DEF WaitsAtGate, RunsSound
<1> QED BY <1>1, <1>3, <1>4, <1>5, <1>6, <1>8 DEF PlaybookInv, SameGates

\* or one that goes on.
Sets(q, p, e, x) == p = [q EXCEPT ![e] = x]

LEMMA ExecutionChanged ==
  ASSUME PlaybookInv, NEW e \in 1..Len(execs), NEW x \in Execution, NEW r \in RanSteps,
         NEW g \in StepId,
         Sets(execs, execs', e, x), Sets(ran, ran', e, ran[e] \cup r),
         Sets(approved, approved', e, approved[e] \cup {g}),
         book' = book, bookEnabled' = bookEnabled,
         SameGates => /\ WaitsAtGate(x, approved[e] \cup {g})
                      /\ \A p \in r : p[2] \subseteq approved[e] \cup {g}
  PROVE  PlaybookInv'
<1> DEFINE n == Len(execs)
           ap == approved[e] \cup {g}
           rs == ran[e] \cup r
<1>1. /\ book \in Books /\ bookEnabled \in BOOLEAN
      /\ execs \in Seq(Execution) /\ n <= MaxExec
      /\ ran \in Seq(RanSteps) /\ Len(ran) = n
      /\ approved \in Seq(SUBSET StepId) /\ Len(approved) = n
  BY DEF PlaybookInv
<1>0. SameGates => \A k \in 1..n : /\ WaitsAtGate(execs[k], approved[k])
                                   /\ \A p \in ran[k] : p[2] \subseteq approved[k]
  BY DEF PlaybookInv, RunsSound
<1>2. ap \in SUBSET StepId /\ rs \in RanSteps
  <2>1. approved[e] \in SUBSET StepId /\ ran[e] \in RanSteps
    BY <1>1
  <2> QED BY <2>1 DEF RanSteps
<1>3. SameGates => WaitsAtGate(x, ap) /\ \A p \in rs : p[2] \subseteq ap
  BY <1>0
<1> HIDE DEF ap, rs
<1>4. /\ execs' \in Seq(Execution) /\ Len(execs') = n /\ execs'[e] = x
      /\ \A k \in 1..n : k # e => execs'[k] = execs[k]
  BY <1>1 DEF Sets
<1>5. /\ ran' \in Seq(RanSteps) /\ Len(ran') = n /\ ran'[e] = rs
      /\ \A k \in 1..n : k # e => ran'[k] = ran[k]
  BY <1>1, <1>2 DEF rs, Sets
<1>6. /\ approved' \in Seq(SUBSET StepId) /\ Len(approved') = n /\ approved'[e] = ap
      /\ \A k \in 1..n : k # e => approved'[k] = approved[k]
  BY <1>1, <1>2 DEF ap, Sets
<1>7. ASSUME SameGates, NEW k \in 1..n
      PROVE  /\ WaitsAtGate(execs'[k], approved'[k])
             /\ \A p \in ran'[k] : p[2] \subseteq approved'[k]
  <2>1. CASE k = e
    BY <1>3, <1>4, <1>5, <1>6, <1>7, <2>1
  <2>2. CASE k # e
    BY <1>0, <1>4, <1>5, <1>6, <1>7, <2>2
  <2> QED BY <2>1, <2>2
<1>8. SameGates => RunsSound'
  BY <1>4, <1>7 DEF WaitsAtGate, RunsSound
<1> QED BY <1>1, <1>4, <1>5, <1>6, <1>8 DEF PlaybookInv, SameGates

\* resume_execution goes on behind the gate that is approved.
LEMMA ResumeSound ==
  ASSUME PlaybookInv, NEW e \in 1..Len(execs), ResumeExecution(e)
  PROVE  PlaybookInv'
<1> DEFINE pend == execs[e].pending
           at == {i \in DOMAIN book : book[i].id = pend}
           from == ResumeIndex(e)
           ap == approved[e] \cup {pend}
           marked == [s \in StepId |-> IF s = pend
                                         THEN IF execs[e].results[s] = "none" THEN "none" ELSE "Succeeded"
                                         ELSE execs[e].results[s]]
           x == [execs[e] EXCEPT !.results = marked]
<1>1. /\ book \in Books /\ execs \in Seq(Execution)
      /\ SameGates => WaitsAtGate(execs[e], approved[e])
      /\ execs[e] \in Execution
  BY DEF PlaybookInv, RunsSound
<1>a. book \in Seq(Step)
  BY <1>1, PlaybookAssumption DEF Step
<1>2. book \in Seq(Step) /\ Len(book) \in Nat /\ DOMAIN book = 1..Len(book)
  BY <1>a
<1>3. /\ execs[e].status = "AwaitingApproval" /\ pend \in Ids(book)
      /\ ran' = [ran EXCEPT ![e] = ran[e] \cup RanFrom(from)]
      /\ approved' = [approved EXCEPT ![e] = ap]
      /\ book' = book /\ bookEnabled' = bookEnabled
  BY DEF ResumeExecution, GateStands
<1>4. pend \in StepId /\ at # {} /\ at \in SUBSET Nat
  <2>1. PICK i \in DOMAIN book : pend = book[i].id
    BY <1>3 DEF Ids
  <2>2. book[i].id \in StepId
    BY <1>2, StepsHaveIds
  <2> QED BY <1>2, <2>1, <2>2
<1>5. PICK i \in DOMAIN book : /\ from = i + 1 /\ book[i].id = pend
  <2> DEFINE first(i) == book[i].id = pend /\ \A j \in 1..(i - 1) : book[j].id # pend
  <2>1. PICK i \in at : \A k \in at : i <= k
    BY <1>4, LeastNatural
  <2>2. i \in DOMAIN book /\ first(i)
    BY <1>2, <2>1
  <2>3. from = 1 + CHOOSE k \in DOMAIN book : first(k)
    BY DEF ResumeIndex
  <2> DEFINE c == CHOOSE k \in DOMAIN book : first(k)
  <2>4. c \in DOMAIN book /\ first(c)
    BY <2>2
  <2>5. from = 1 + c
    BY <2>3
  <2> HIDE DEF c, from
  <2>6. from = c + 1
    BY <1>2, <2>4, <2>5
  <2> QED BY <2>4, <2>6 DEF from
<1>6. from \in 1..(Len(book) + 1)
  BY <1>2, <1>5
<1>7. ASSUME SameGates
      PROVE  book[i].kind = "gate" /\ GatesBefore(book, i) \subseteq approved[e]
  <2>1. PICK b \in Books : \E k \in DOMAIN b :
           b[k].kind = "gate" /\ b[k].id = pend /\ GatesBefore(b, k) \subseteq approved[e]
    BY <1>1, <1>3, <1>7 DEF WaitsAtGate
  <2>2. PICK k \in DOMAIN b :
           b[k].kind = "gate" /\ b[k].id = pend /\ GatesBefore(b, k) \subseteq approved[e]
    BY <2>1
  <2> QED BY <1>1, <1>5, <1>7, <2>1, <2>2 DEF SameGates
<1> HIDE DEF pend, from, at, marked, x
<1>8. SameGates => GatesBefore(book, from) \subseteq ap
  <2>1. \A k \in 1..(from - 1) : k \in 1..(i - 1) \/ k = i
    BY <1>2, <1>5
  <2> QED BY <1>5, <1>7, <2>1 DEF GatesBefore
<1>9. x \in Execution
  <2>1. execs[e].results \in [StepId -> StepStatus]
    BY <1>1 DEF Execution
  <2>2. marked \in [StepId -> StepStatus]
    BY <2>1 DEF marked, StepStatus
  <2> DEFINE y == execs[e]
  <2>3. y \in Execution /\ x = [y EXCEPT !.results = marked]
    BY <1>1 DEF x
  <2> HIDE DEF y
  <2> QED BY <2>2, <2>3 DEF Execution
<1>10. execs' = [execs EXCEPT ![e] = Continued(x, from)]
  <2>1. execs' = [execs EXCEPT ![e] =
                    Continued([execs[e] EXCEPT !.results[pend] = IF @ = "none" THEN @ ELSE "Succeeded"],
                              from)]
    BY DEF ResumeExecution, pend, from
  <2>2. [execs[e] EXCEPT !.results[pend] = IF @ = "none" THEN @ ELSE "Succeeded"] = x
    <3> DEFINE old == execs[e].results
               set == [old EXCEPT ![pend] = IF @ = "none" THEN @ ELSE "Succeeded"]
    <3>1. old \in [StepId -> StepStatus]
      BY <1>1 DEF Execution
    <3>2. marked = [s \in StepId |-> IF s = pend
                                       THEN IF old[s] = "none" THEN "none" ELSE "Succeeded"
                                       ELSE old[s]]
      BY DEF marked
    <3>3. [execs[e] EXCEPT !.results[pend] = IF @ = "none" THEN @ ELSE "Succeeded"]
            = [execs[e] EXCEPT !.results = set]
      OBVIOUS
    <3> HIDE DEF old
    <3>4. set = marked
      BY <1>4, <3>1, <3>2
    <3> QED BY <3>3, <3>4 DEF x
  <2> QED BY <2>1, <2>2
<1>11. /\ Continued(x, from) \in Execution
       /\ RanFrom(from) \in RanSteps
       /\ SameGates => /\ WaitsAtGate(Continued(x, from), ap)
                       /\ \A r \in RanFrom(from) : r[2] \subseteq ap
  <2> DEFINE before == GatesBefore(book, from)
  <2>1. before \subseteq before
    OBVIOUS
  <2> QED BY <1>1, <1>6, <1>8, <1>9, <2>1, ContinuedSound
<1> HIDE DEF ap
<1> DEFINE y == Continued(x, from)
           r == RanFrom(from)
<1> HIDE DEF y, r
<1>12. Sets(execs, execs', e, y) /\ Sets(ran, ran', e, ran[e] \cup r)
       /\ Sets(approved, approved', e, approved[e] \cup {pend})
  BY <1>3, <1>10 DEF y, r, ap, Sets
<1>13. /\ y \in Execution /\ r \in RanSteps
       /\ SameGates => /\ WaitsAtGate(y, approved[e] \cup {pend})
                       /\ \A p \in r : p[2] \subseteq approved[e] \cup {pend}
  BY <1>11 DEF y, r, ap
<1> QED BY <1>3, <1>4, <1>12, <1>13, ExecutionChanged

LEMMA PlaybookSteps == PlaybookInv /\ [PlaybookNext]_playbookVars => PlaybookInv'
<1> SUFFICES ASSUME PlaybookInv, [PlaybookNext]_playbookVars PROVE PlaybookInv'
  OBVIOUS
<1>1. CASE \E b \in Books, on \in BOOLEAN : Register(b, on)
  BY <1>1 DEF Register, PlaybookInv, RunsSound, WaitsAtGate, SameGates
<1>2. CASE Execute
  <2>1. Started \in Execution /\ WaitsAtGate(Started, {})
    BY StartedSound DEF PlaybookInv, WaitsAtGate
  <2>2. {} \in RanSteps /\ \A p \in {} : p[2] \subseteq {}
    BY DEF RanSteps
  <2>3. /\ Len(execs) < MaxExec /\ execs' = Append(execs, Started)
        /\ ran' = Append(ran, {}) /\ approved' = Append(approved, {})
        /\ book' = book /\ bookEnabled' = bookEnabled
    BY <1>2 DEF Execute
  <2> QED BY <2>1, <2>2, <2>3, ExecutionAdded
<1>3. CASE RunPlaybook
  <2> DEFINE x == Continued(Started, 1)
             r == RanFrom(1)
  <2>1. book \in Books /\ book \in Seq(Step)
    BY PlaybookAssumption DEF PlaybookInv, Step
  <2>2. 1 \in 1..(Len(book) + 1)
    <3>1. Len(book) \in Nat
      BY <2>1
    <3> QED BY <3>1
  <2>3. GatesBefore(book, 1) \subseteq {}
    BY DEF GatesBefore
  <2>4. Started \in Execution
    BY <2>1, StartedSound
  <2>5. x \in Execution /\ WaitsAtGate(x, {}) /\ r \in RanSteps /\ \A p \in r : p[2] \subseteq {}
    BY <2>1, <2>2, <2>3, <2>4, ContinuedSound
  <2>6. /\ Len(execs) < MaxExec /\ execs' = Append(execs, x)
        /\ ran' = Append(ran, r) /\ approved' = Append(approved, {})
        /\ book' = book /\ bookEnabled' = bookEnabled
    BY <1>3 DEF RunPlaybook
  <2> HIDE DEF x, r
  <2> QED BY <2>5, <2>6, ExecutionAdded
<1>4. CASE \E e \in DOMAIN execs : ResumeExecution(e)
  <2>1. DOMAIN execs = 1..Len(execs)
    BY DEF PlaybookInv
  <2> QED BY <1>4, <2>1, ResumeSound
<1>5. CASE UNCHANGED playbookVars
  BY <1>5 DEF playbookVars, PlaybookInv, RunsSound, WaitsAtGate, SameGates
<1> QED BY <1>1, <1>2, <1>3, <1>4, <1>5 DEF PlaybookNext

LEMMA PlaybookStarts == PlaybookInit => PlaybookInv
<1> SUFFICES ASSUME PlaybookInit PROVE PlaybookInv
  OBVIOUS
<1>1. /\ Len(execs) = 0 /\ Len(ran) = 0 /\ Len(approved) = 0 /\ 1..0 = {}
      /\ execs \in Seq(Execution) /\ ran \in Seq(RanSteps) /\ approved \in Seq(SUBSET StepId)
  BY DEF PlaybookInit
<1>2. MaxExec \in Nat /\ 0 <= MaxExec
  BY PlaybookAssumption
<1> QED BY <1>1, <1>2 DEF PlaybookInit, PlaybookInv, RunsSound

\* Executions keep their form whatever definition they are gone on with, one
\* that does not have their steps, or has them in another order, included.
THEOREM PlaybookTypesHold == PlaybookSpec => []PlaybookTypeOK
<1>1. PlaybookInv => PlaybookTypeOK
  BY DEF PlaybookInv, PlaybookTypeOK
<1> QED BY <1>1, PlaybookStarts, PlaybookSteps, PTL DEF PlaybookSpec

\* A playbook that keeps its gates runs no step before the gates in front of it
\* were approved, however often it is registered anew while executions wait.
THEOREM GatesHold == SameGates => (PlaybookSpec => []GatesApproved)
<1> SUFFICES ASSUME SameGates PROVE PlaybookSpec => []GatesApproved
  OBVIOUS
<1>1. PlaybookInv => GatesApproved
  <2>1. PlaybookInv => DOMAIN execs = 1..Len(execs)
    BY DEF PlaybookInv
  <2> QED BY <2>1 DEF PlaybookInv, RunsSound, GatesApproved
<1> QED BY <1>1, PlaybookStarts, PlaybookSteps, PTL DEF PlaybookSpec

-----------------------------------------------------------------------------
(* Escalations: any policies, replaced at any time, any number of          *)
(* escalations, checks as late as they come.                               *)

Rung == [level : Nat, sla : Nat]
\* The level that was notified last is the current one, unless it was the
\* first, which start_escalation takes to be number 1, or no more are kept.
FollowsOn(x) ==
  /\ Len(x.notified) >= 1
  /\ Len(x.notified) = 1 => x.level = 1
  /\ Len(x.notified) # 1 /\ Len(x.notified) < MaxTold => x.notified[Len(x.notified)] = x.level

EscalationInv ==
  /\ policy \in {<<p>> : p \in Policies} \cup {<<>>}
  /\ policyEnabled \in BOOLEAN
  /\ active \in Seq(Escalated) /\ Len(active) <= MaxEsc
  /\ \A e \in 1..Len(active) : FollowsOn(active[e])

\* Levels are numbers.
LEMMA LevelsAreNumbers == Levels \in SUBSET Nat
<1>1. ASSUME NEW p \in Policies, NEW i \in DOMAIN p PROVE p[i].level \in Nat
  <2>1. p \in Seq(Rung)
    BY EscalationAssumption DEF Rung
  <2>2. p[i] \in Rung
    BY <2>1
  <2> QED BY <2>2 DEF Rung
<1> QED BY <1>1 DEF Levels

\* The levels in force are a policy's.
LEMMA LevelsAre ==
  ASSUME policy \in {<<p>> : p \in Policies} \cup {<<>>}, policy # <<>>
  PROVE  /\ policy[1] \in Seq(Rung) /\ Len(policy[1]) \in Nat
         /\ \A i \in 1..Len(policy[1]) : /\ policy[1][i].level \in Nat
                                         /\ policy[1][i].level \in Levels
<1>1. PICK p \in Policies : policy = <<p>>
  OBVIOUS
<1>2. p \in Seq(Rung)
  BY EscalationAssumption DEF Rung
<1>3. \A i \in 1..Len(p) : p[i] \in Rung
  BY <1>2
<1>4. \A t \in Rung : t.level \in Nat
  BY DEF Rung
<1>5. policy[1] = p
  BY <1>1
<1>6. \A i \in 1..Len(p) : p[i].level \in Levels
  <2>1. 1..Len(p) = DOMAIN p
    BY <1>2
  <2> QED BY <2>1 DEF Levels
<1> QED BY <1>2, <1>3, <1>4, <1>5, <1>6

\* check_sla leaves an escalation, lets it climb, or lets it expire, and then
\* its level is the policy's last one or none of its levels.
LEMMA CheckedCases ==
  ASSUME policy \in {<<p>> : p \in Policies} \cup {<<>>}, NEW x, NEW late
  PROVE  \/ Checked(x, late) = x
         \/ /\ policy # <<>> /\ Checked(x, late) = [x EXCEPT !.status = "Expired"]
            /\ \A k \in 1..Len(policy[1]) : policy[1][k].level = x.level => k = Len(policy[1])
         \/ /\ policy # <<>>
            /\ \E j \in 1..Len(policy[1]) :
                 Checked(x, late) = [x EXCEPT !.level = policy[1][j].level, !.age = late,
                                              !.notified = Told(@, policy[1][j].level)]
<1> DEFINE levels == policy[1]
           N == Len(levels)
           here == {i \in DOMAIN levels : levels[i].level = x.level}
           i == CHOOSE m \in here : \A n \in here : m <= n
           elapsed == IF x.age > late THEN x.age - late ELSE 0
           Climbed(j) == [x EXCEPT !.level = levels[j].level, !.age = late,
                                   !.notified = Told(@, levels[j].level)]
           c == CHOOSE j \in NextLevels(i) : TRUE
<1>1. Checked(x, late) = IF Skipped(x) THEN x
                         ELSE IF here = {} THEN [x EXCEPT !.status = "Expired"]
                         ELSE IF elapsed < levels[i].sla THEN x
                         ELSE IF NextLevels(i) = {} THEN [x EXCEPT !.status = "Expired"]
                         ELSE Climbed(c)
  BY DEF Checked, Waits
<1>2. CASE Skipped(x)
  BY <1>1, <1>2
<1>3. CASE ~Skipped(x)
  <2>1. policy # <<>>
    BY <1>3 DEF Skipped
  <2>2. levels \in Seq(Rung) /\ N \in Nat /\ DOMAIN levels = 1..N
    <3>1. levels \in Seq(Rung)
      BY <2>1, LevelsAre
    <3> QED BY <3>1
  <2>3. here \in SUBSET Nat /\ \A k \in 1..N : k \in here <=> levels[k].level = x.level
    BY <2>2
  <2>4. NextLevels(i) = {i + 1} \cap (1..N)
    BY <2>2 DEF NextLevels
  <2> HIDE DEF N, levels, elapsed, Climbed
  <2>5. CASE here = {}
    <3>1. Checked(x, late) = [x EXCEPT !.status = "Expired"]
      BY <1>1, <1>3, <2>5
    <3>2. \A k \in 1..N : levels[k].level = x.level => k = N
      BY <2>3, <2>5
    <3> QED BY <2>1, <3>1, <3>2 DEF N, levels
  <2>6. CASE here # {}
    <3>1. \E m \in here : \A n \in here : m <= n
      BY <2>3, <2>6, LeastNatural
    <3>2. i \in here /\ \A n \in here : i <= n
      BY <3>1
    <3>3. here \subseteq 1..N
      BY <2>2
    <3> HIDE DEF here, i, c
    <3>4. CASE elapsed < levels[i].sla
      BY <1>1, <1>3, <2>6, <3>4
    <3>5. CASE ~(elapsed < levels[i].sla) /\ NextLevels(i) = {}
      <4>1. Checked(x, late) = [x EXCEPT !.status = "Expired"]
        BY <1>1, <1>3, <2>6, <3>5
      <4>2. i \in 1..N /\ i + 1 \notin 1..N
        BY <2>4, <3>2, <3>3, <3>5
      <4>3. i = N
        BY <2>2, <4>2
      <4>4. \A k \in 1..N : levels[k].level = x.level => k = N
        BY <2>2, <2>3, <3>2, <4>3
      <4> QED BY <2>1, <4>1, <4>4 DEF N, levels
    <3>6. CASE ~(elapsed < levels[i].sla) /\ NextLevels(i) # {}
      <4>1. Checked(x, late) = Climbed(c)
        BY <1>1, <1>3, <2>6, <3>6
      <4>2. c \in 1..N
        BY <2>4, <3>6 DEF c
      <4> QED BY <2>1, <4>1, <4>2 DEF N, levels, Climbed
    <3> QED BY <3>4, <3>5, <3>6
  <2> QED BY <2>5, <2>6
<1> QED BY <1>2, <1>3

LEMMA CheckedSound ==
  ASSUME policy \in {<<p>> : p \in Policies} \cup {<<>>},
         NEW x \in Escalated, FollowsOn(x), NEW late \in Wait
  PROVE  Checked(x, late) \in Escalated /\ FollowsOn(Checked(x, late))
<1>1. CASE Checked(x, late) = x
  BY <1>1
<1>2. CASE Checked(x, late) = [x EXCEPT !.status = "Expired"]
  BY <1>2 DEF Escalated, FollowsOn, Status
<1>3. ASSUME policy # <<>>, NEW j \in 1..Len(policy[1]),
             Checked(x, late) = [x EXCEPT !.level = policy[1][j].level, !.age = late,
                                          !.notified = Told(@, policy[1][j].level)]
      PROVE  Checked(x, late) \in Escalated /\ FollowsOn(Checked(x, late))
  <2> DEFINE n == policy[1][j].level
             q == Told(x.notified, n)
             y == Checked(x, late)
  <2>1. n \in Levels
    BY <1>3, LevelsAre
  <2>0. late \in 0..AgeCap
    BY EscalationAssumption DEF Wait
  <2>2. y = [x EXCEPT !.level = n, !.age = late, !.notified = q]
    BY <1>3
  <2> HIDE DEF n, y
  <2>3. x.notified \in Seq(Levels) /\ Len(x.notified) \in Nat /\ Len(x.notified) >= 1
    BY DEF Escalated, FollowsOn
  <2>4. /\ q \in Seq(Levels) /\ Len(q) \in Nat /\ Len(q) >= 1
        /\ Len(q) < MaxTold => Len(q) # 1 /\ q[Len(q)] = n
        /\ Len(q) = 1 => MaxTold <= 1
    <3>0. MaxTold \in Nat
      BY EscalationAssumption
    <3>1. CASE Len(x.notified) < MaxTold
      <4>1. q = Append(x.notified, n)
        BY <3>1 DEF Told
      <4> QED BY <2>1, <2>3, <4>1
    <3>2. CASE ~(Len(x.notified) < MaxTold)
      <4>1. q = x.notified
        BY <3>2 DEF Told
      <4>2. Len(x.notified) >= MaxTold
        BY <2>3, <3>0, <3>2
      <4> HIDE DEF q, n
      <4>3. q \in Seq(Levels) /\ Len(q) \in Nat /\ Len(q) >= 1 /\ Len(q) >= MaxTold
        BY <2>3, <4>1, <4>2
      <4>4. ~(Len(q) < MaxTold)
        BY <3>0, <4>3
      <4>5. Len(q) = 1 => MaxTold <= 1
        BY <3>0, <4>3
      <4> QED BY ONLY <4>3, <4>4, <4>5
    <3> QED BY <3>1, <3>2
  <2>4a. MaxTold \in Nat /\ MaxTold > 1
    <3>1. PICK p \in Policies : policy = <<p>>
      BY <1>3
    <3>2. p \in Seq(Rung) /\ Len(p) < MaxTold /\ MaxTold \in Nat
      BY EscalationAssumption DEF Rung
    <3>3. policy[1] = p
      BY <3>1
    <3>4. Len(p) \in Nat /\ j \in 1..Len(p)
      BY <1>3, <3>2, <3>3
    <3> QED BY <3>2, <3>4
  <2> HIDE DEF q
  <2>5. y \in Escalated /\ y.level = n /\ y.notified = q
    BY <2>0, <2>1, <2>2, <2>4 DEF Escalated
  <2>6. Len(q) >= 1 /\ Len(q) # 1
    BY <2>4, <2>4a
  <2>7. FollowsOn(y)
    BY <2>4, <2>5, <2>6 DEF FollowsOn
  <2> QED BY <2>5, <2>7 DEF y
<1> QED BY <1>1, <1>2, <1>3, CheckedCases

\* A step that makes sound escalations of sound ones.
LEMMA EscalationsKept ==
  ASSUME EscalationInv, policy' \in {<<p>> : p \in Policies} \cup {<<>>},
         policyEnabled' = policyEnabled,
         DOMAIN active' = DOMAIN active, active' = [e \in DOMAIN active' |-> active'[e]],
         \A e \in 1..Len(active) : active'[e] \in Escalated /\ FollowsOn(active'[e])
  PROVE  EscalationInv'
<1>1. /\ active \in Seq(Escalated) /\ DOMAIN active = 1..Len(active) /\ Len(active) \in Nat
      /\ policyEnabled \in BOOLEAN /\ Len(active) <= MaxEsc
  BY DEF EscalationInv
<1> DEFINE n == Len(active)
<1>2. active' \in [1..n -> Escalated]
  BY <1>1
<1>3. active' \in Seq(Escalated) /\ Len(active') = n
  BY <1>1, <1>2, SeqDef
<1>4. \A e \in 1..Len(active') : FollowsOn(active[e])'
  BY <1>3 DEF FollowsOn
<1> QED BY <1>1, <1>3, <1>4 DEF EscalationInv

LEMMA EscalationSteps == EscalationInv /\ [EscalationNext]_escalationVars => EscalationInv'
<1> SUFFICES ASSUME EscalationInv, [EscalationNext]_escalationVars PROVE EscalationInv'
  OBVIOUS
<1> DEFINE n == Len(active)
<1>1. /\ policy \in {<<p>> : p \in Policies} \cup {<<>>}
      /\ policyEnabled \in BOOLEAN
      /\ active \in Seq(Escalated) /\ n <= MaxEsc
      /\ \A e \in 1..n : FollowsOn(active[e])
  BY DEF EscalationInv
<1>2. n \in Nat /\ DOMAIN active = 1..n /\ \A e \in 1..n : active[e] \in Escalated
  BY <1>1
<1>3. Wait \subseteq Nat /\ Wait \subseteq 0..AgeCap /\ MaxEsc \in Nat /\ AgeCap \in Nat
  BY EscalationAssumption DEF Wait
<1>4. CASE \E p \in Policies, on \in BOOLEAN : AddPolicy(p, on)
  <2>1. active' = active /\ policy' \in {<<p>> : p \in Policies} /\ policyEnabled' \in BOOLEAN
    BY <1>4 DEF AddPolicy
  <2> QED BY <1>1, <2>1 DEF EscalationInv, FollowsOn
<1>5. CASE RemovePolicy
  <2>1. active' = active /\ policy' = <<>> /\ policyEnabled' = policyEnabled
    BY <1>5 DEF RemovePolicy
  <2> QED BY <1>1, <2>1 DEF EscalationInv, FollowsOn
<1>6. CASE \E late \in Wait : StartEscalation(late)
  <2>1. PICK late \in Wait : StartEscalation(late)
    BY <1>6
  <2> DEFINE told == <<policy[1][1].level>>
             x == [level |-> 1, status |-> "Active", age |-> late, notified |-> told]
  <2>2. /\ policy' = policy /\ policyEnabled' = policyEnabled /\ n < MaxEsc
        /\ policy # <<>> /\ policy[1] # <<>> /\ active' = Append(active, x)
    BY <2>1 DEF StartEscalation
  <2>3. policy[1][1].level \in Levels
    <3>1. policy[1] \in Seq(Rung) /\ \A i \in 1..Len(policy[1]) : policy[1][i].level \in Levels
      BY <1>1, <2>2, LevelsAre
    <3>2. 1 \in 1..Len(policy[1])
      BY <2>2, <3>1
    <3> QED BY <3>1, <3>2
  <2>4. told \in Seq(Levels) /\ Len(told) = 1
    BY <2>3
  <2>5. late \in 0..AgeCap /\ 1 \in Levels
    BY <1>3 DEF Levels
  <2> HIDE DEF told
  <2>6. x \in Escalated /\ x.level = 1 /\ x.notified = told
    BY <2>4, <2>5 DEF Escalated, Status
  <2> HIDE DEF x
  <2>7. FollowsOn(x)
    <3>1. Len(x.notified) = 1 /\ x.level = 1
      BY <2>4, <2>6
    <3> QED BY <3>1 DEF FollowsOn
  <2>8. /\ active' \in Seq(Escalated) /\ Len(active') = n + 1 /\ active'[n + 1] = x
        /\ \A e \in 1..n : active'[e] = active[e]
    BY <1>1, <2>2, <2>6
  <2>9. ASSUME NEW e \in 1..(n + 1) PROVE FollowsOn(active'[e])
    <3>1. e = n + 1 \/ e \in 1..n
      BY <1>2
    <3> QED BY <1>1, <2>7, <2>8, <3>1
  <2>10. \A e \in 1..Len(active') : FollowsOn(active[e])'
    BY <2>8, <2>9 DEF FollowsOn
  <2>11. n + 1 <= MaxEsc
    BY <1>2, <1>3, <2>2
  <2> QED BY <1>1, <2>2, <2>8, <2>10, <2>11 DEF EscalationInv
<1>7. ASSUME NEW e \in DOMAIN active, NEW s \in Status,
             active' = [active EXCEPT ![e].status = s], policy' = policy,
             policyEnabled' = policyEnabled
      PROVE  EscalationInv'
  <2> DEFINE x == active[e]
             y == [x EXCEPT !.status = s]
  <2>1. x \in Escalated /\ FollowsOn(x)
    BY <1>1, <1>2
  <2>2. active' = [active EXCEPT ![e] = y]
    BY <1>7
  <2> HIDE DEF x
  <2>3. y \in Escalated /\ y.level = x.level /\ y.notified = x.notified
    BY <2>1 DEF Escalated
  <2>4. FollowsOn(y)
    BY <2>1, <2>3 DEF FollowsOn
  <2> HIDE DEF y, n
  <2>5. /\ DOMAIN active' = 1..n /\ active' = [k \in DOMAIN active' |-> active'[k]]
        /\ \A k \in 1..n : active'[k] = IF k = e THEN y ELSE active[k]
    BY <1>2, <2>2
  <2>6. \A k \in 1..n : active'[k] \in Escalated /\ FollowsOn(active'[k])
    BY <1>1, <1>2, <2>3, <2>4, <2>5
  <2> QED BY <1>1, <1>2, <1>7, <2>5, <2>6, EscalationsKept DEF n
<1>8. CASE \E e \in DOMAIN active : Acknowledge(e)
  <2>1. PICK e \in DOMAIN active : Acknowledge(e)
    BY <1>8
  <2>2. active' = [active EXCEPT ![e].status = "Acknowledged"] /\ policy' = policy
        /\ policyEnabled' = policyEnabled /\ "Acknowledged" \in Status
    BY <2>1 DEF Acknowledge, Status
  <2> QED BY <1>7, <2>2
<1>9. CASE \E e \in DOMAIN active : Resolve(e)
  <2>1. PICK e \in DOMAIN active : Resolve(e)
    BY <1>9
  <2>2. active' = [active EXCEPT ![e].status = "Resolved"] /\ policy' = policy
        /\ policyEnabled' = policyEnabled /\ "Resolved" \in Status
    BY <2>1 DEF Resolve, Status
  <2> QED BY <1>7, <2>2
<1>10. CASE \E late \in Wait : CheckSla(late)
  <2>1. PICK late \in Wait : CheckSla(late)
    BY <1>10
  <2>2. active' = [e \in DOMAIN active |-> Checked(active[e], late)]
        /\ policy' = policy /\ policyEnabled' = policyEnabled
    BY <2>1 DEF CheckSla
  <2>4. \A e \in 1..n : Checked(active[e], late) \in Escalated /\ FollowsOn(Checked(active[e], late))
    BY <1>1, <1>2, CheckedSound
  <2> HIDE DEF n
  <2>5. /\ DOMAIN active' = 1..n /\ active' = [k \in DOMAIN active' |-> active'[k]]
        /\ \A k \in 1..n : active'[k] = Checked(active[k], late)
    BY <1>2, <2>2
  <2>6. \A k \in 1..n : active'[k] \in Escalated /\ FollowsOn(active'[k])
    BY <2>4, <2>5
  <2> QED BY <1>1, <1>2, <2>2, <2>5, <2>6, EscalationsKept DEF n
<1>11. CASE TimePasses
  <2> DEFINE older(a) == IF a < AgeCap THEN a + 1 ELSE a
             z(x) == [x EXCEPT !.age = older(x.age)]
  <2>1. active' = [e \in DOMAIN active |-> z(active[e])]
        /\ policy' = policy /\ policyEnabled' = policyEnabled
    BY <1>11 DEF TimePasses
  <2>2. ASSUME NEW x \in Escalated, FollowsOn(x) PROVE z(x) \in Escalated /\ FollowsOn(z(x))
    <3> DEFINE a == older(x.age)
    <3>1. x.age \in 0..AgeCap
      BY DEF Escalated
    <3>2. a \in 0..AgeCap
      BY <1>3, <3>1
    <3> HIDE DEF older
    <3>3. z(x) = [x EXCEPT !.age = a]
      OBVIOUS
    <3> HIDE DEF a, z
    <3>4. z(x) \in Escalated /\ z(x).level = x.level /\ z(x).notified = x.notified
      BY <3>2, <3>3 DEF Escalated
    <3> QED BY <2>2, <3>4 DEF FollowsOn
  <2> HIDE DEF n, z
  <2>5. /\ DOMAIN active' = 1..n /\ active' = [k \in DOMAIN active' |-> active'[k]]
        /\ \A k \in 1..n : active'[k] = z(active[k])
    BY <1>2, <2>1
  <2>6. \A k \in 1..n : active'[k] \in Escalated /\ FollowsOn(active'[k])
    BY <1>1, <1>2, <2>2, <2>5
  <2> QED BY <1>1, <1>2, <2>1, <2>5, <2>6, EscalationsKept DEF n
<1>12. CASE UNCHANGED escalationVars
  BY <1>1, <1>12 DEF escalationVars, EscalationInv, FollowsOn
<1> QED BY <1>4, <1>5, <1>6, <1>8, <1>9, <1>10, <1>11, <1>12 DEF EscalationNext

\* Only check_sla lets an active escalation expire.
LEMMA CheckExpires ==
  ASSUME EscalationInv, [EscalationNext]_escalationVars, NEW e \in DOMAIN active,
         active[e].status = "Active", active'[e].status = "Expired"
  PROVE  \E late \in Wait : active'[e] = Checked(active[e], late)
<1> DEFINE n == Len(active)
<1>1. active \in Seq(Escalated) /\ n \in Nat /\ DOMAIN active = 1..n /\ active[e] \in Escalated
  BY DEF EscalationInv
<1>2. active'[e].status # active[e].status /\ active' # active
  OBVIOUS
<1>3. CASE \E late \in Wait : StartEscalation(late)
  <2>1. \E x : active' = Append(active, x)
    BY <1>3 DEF StartEscalation
  <2>2. active'[e] = active[e]
    BY <1>1, <2>1
  <2> QED BY <1>2, <2>2
<1>4. ASSUME NEW k \in DOMAIN active, NEW s \in {"Acknowledged", "Resolved"},
             active' = [active EXCEPT ![k].status = s]
      PROVE  FALSE
  <2>1. CASE k = e
    <3> DEFINE y == [active[k] EXCEPT !.status = s]
    <3>1. y.status = s
      BY <1>1, <2>1 DEF Escalated
    <3>2. active' = [active EXCEPT ![k] = y]
      BY <1>4
    <3> HIDE DEF y
    <3>3. active'[e] = y
      BY <2>1, <3>2
    <3> QED BY <1>4, <3>1, <3>3
  <2>2. CASE k # e
    BY <1>2, <1>4, <2>2
  <2> QED BY <2>1, <2>2
<1>5. CASE \E late \in Wait : CheckSla(late)
  BY <1>5 DEF CheckSla
<1>6. CASE TimePasses
  <2> DEFINE older == IF active[e].age < AgeCap THEN active[e].age + 1 ELSE active[e].age
  <2>1. active'[e] = [active[e] EXCEPT !.age = older]
    BY <1>6 DEF TimePasses
  <2> HIDE DEF older
  <2>2. active'[e].status = active[e].status
    BY <1>1, <2>1 DEF Escalated
  <2> QED BY <1>2, <2>2
<1> QED BY <1>2, <1>3, <1>4, <1>5, <1>6
        DEF EscalationNext, escalationVars, AddPolicy, RemovePolicy, Acknowledge, Resolve

\* An escalation that has followed the policy and now expires is at its end.
LEMMA AllTold ==
  ASSUME EscalationInv, NEW x \in Escalated, FollowsOn(x), NEW late,
         x.status = "Active", Checked(x, late).status = "Expired",
         NEW numbers, numbers = [i \in DOMAIN policy[1] |-> policy[1][i].level],
         numbers[1] = 1, IsPrefix(x.notified, numbers)
  PROVE  x.notified = numbers
<1> DEFINE N == Len(policy[1])
           told == x.notified
           K == Len(told)
<1>1. policy \in {<<p>> : p \in Policies} \cup {<<>>}
  BY DEF EscalationInv
<1>2. policy # <<>> /\ \A k \in 1..N : policy[1][k].level = x.level => k = N
  <2>1. ASSUME NEW j \in 1..N,
               Checked(x, late) = [x EXCEPT !.level = policy[1][j].level, !.age = late,
                                            !.notified = Told(@, policy[1][j].level)]
        PROVE  FALSE
    <3> DEFINE l == policy[1][j].level
               q == Told(x.notified, l)
    <3>1. Checked(x, late) = [x EXCEPT !.level = l, !.age = late, !.notified = q]
      BY <2>1
    <3> HIDE DEF l, q
    <3> QED BY <3>1 DEF Escalated
  <2>2. Checked(x, late) # x
    OBVIOUS
  <2> QED BY <1>1, <2>1, <2>2, CheckedCases
<1>3. /\ policy[1] \in Seq(Rung) /\ N \in Nat /\ DOMAIN policy[1] = 1..N
      /\ \A i \in 1..N : policy[1][i].level \in Nat
  <2>1. /\ policy[1] \in Seq(Rung) /\ N \in Nat
        /\ \A i \in 1..N : policy[1][i].level \in Nat
    BY <1>1, <1>2, LevelsAre
  <2> QED BY <2>1
<1>4. \A i \in 1..N : numbers[i] = policy[1][i].level
  BY <1>3
<1>5. numbers \in Seq(Nat) /\ Len(numbers) = N
  <2>1. numbers \in [1..N -> Nat]
    BY <1>3
  <2> QED BY <1>3, <2>1, SeqDef
<1>6. told \in Seq(Nat) /\ K \in Nat /\ K >= 1
  <2>1. told \in Seq(Levels) /\ K >= 1
    BY DEF Escalated, FollowsOn
  <2>2. Levels \in SUBSET Nat
    BY LevelsAreNumbers
  <2> HIDE DEF told
  <2>3. K \in Nat /\ DOMAIN told = 1..K /\ told = [i \in 1..K |-> told[i]]
    BY <2>1
  <2>4. \A i \in 1..K : told[i] \in Levels
    BY <2>1
  <2> HIDE DEF K
  <2>5. told \in [1..K -> Nat]
    BY <2>2, <2>3, <2>4
  <2>6. told \in Seq(Nat)
    BY <2>3, <2>5, SeqDef
  <2> QED BY <2>1, <2>3, <2>6 DEF K
<1>7. K <= N /\ SubSeq(told, 1, K) = SubSeq(numbers, 1, K)
  BY <1>5 DEF IsPrefix
<1> HIDE DEF N, K, told
<1>8. ASSUME NEW i \in 1..K PROVE told[i] = numbers[i]
  <2>1. \A j \in 1..K : told[j] \in Nat
    BY <1>6 DEF K
  <2>2. \A j \in 1..K : numbers[j] \in Nat
    BY <1>3, <1>4, <1>6, <1>7
  <2>3. SubSeq(told, 1, K)[i] = told[1 + i - 1]
    BY <1>6, <2>1, SubSeqProperties
  <2>4. SubSeq(numbers, 1, K)[i] = numbers[1 + i - 1]
    BY <1>6, <2>2, SubSeqProperties
  <2>5. 1 + i - 1 = i
    BY <1>6
  <2> QED BY <1>7, <2>3, <2>4, <2>5
<1>9. numbers[K] = x.level
  <2>1. CASE K = 1
    BY <2>1 DEF FollowsOn, K, told
  <2>2. CASE K # 1
    <3>0. K < MaxTold
      <4>1. PICK p \in Policies : policy = <<p>>
        BY <1>1, <1>2
      <4>2. Len(policy[1]) < MaxTold /\ MaxTold \in Nat
        BY <4>1, EscalationAssumption
      <4>3. N < MaxTold
        BY <4>2 DEF N
      <4> QED BY <1>3, <1>6, <1>7, <4>2, <4>3
    <3>1. told[K] = x.level
      BY <2>2, <3>0 DEF FollowsOn, K, told
    <3>2. K \in 1..K
      BY <1>6
    <3> QED BY <1>8, <3>1, <3>2
  <2> QED BY <2>1, <2>2
<1>10. K = N
  <2>1. K \in 1..N
    BY <1>3, <1>6, <1>7
  <2> QED BY <1>2, <1>4, <1>9, <2>1
<1>11. Len(told) = Len(numbers) /\ \A i \in 1..Len(told) : told[i] = numbers[i]
  BY <1>5, <1>8, <1>10 DEF K
<1> QED BY <1>5, <1>6, <1>11, SeqEqual DEF told

LEMMA EscalationStarts == EscalationInit => EscalationInv
<1> SUFFICES ASSUME EscalationInit PROVE EscalationInv
  OBVIOUS
<1>1. Len(active) = 0 /\ 1..0 = {} /\ active \in Seq(Escalated)
  BY DEF EscalationInit
<1>2. MaxEsc \in Nat
  BY EscalationAssumption
<1> QED BY <1>1, <1>2 DEF EscalationInit, EscalationInv

\* An escalation is only ever at a level of some policy, and has notified only
\* such levels, although its policy is replaced while it runs.
THEOREM EscalationTypesHold == EscalationSpec => []EscalationTypeOK
<1>1. EscalationInv => EscalationTypeOK
  BY DEF EscalationInv, EscalationTypeOK
<1> QED BY <1>1, EscalationStarts, EscalationSteps, PTL DEF EscalationSpec

\* Whoever follows a policy to its end has been told every level of it: checks
\* that come late or together skip nobody, nor does replacing the policy.
THEOREM ExpiredTellsAll == EscalationSpec => ExpiredAllNotified
<1> DEFINE Ends(e) ==
             active[e].status = "Active" /\ active'[e].status = "Expired" =>
                LET numbers == [i \in DOMAIN policy[1] |-> policy[1][i].level]
                IN numbers[1] = 1 /\ IsPrefix(active[e].notified, numbers)
                      => active[e].notified = numbers
<1>3. ASSUME EscalationInv, [EscalationNext]_escalationVars
      PROVE  \A e \in DOMAIN active : Ends(e)
  <2> SUFFICES ASSUME NEW e \in DOMAIN active,
                      active[e].status = "Active", active'[e].status = "Expired",
                      NEW numbers, numbers = [i \in DOMAIN policy[1] |-> policy[1][i].level],
                      numbers[1] = 1, IsPrefix(active[e].notified, numbers)
               PROVE  active[e].notified = numbers
    OBVIOUS
  <2>1. PICK late \in Wait : active'[e] = Checked(active[e], late)
    BY <1>3, CheckExpires
  <2>2. active[e] \in Escalated /\ FollowsOn(active[e])
    BY <1>3 DEF EscalationInv
  <2>3. Checked(active[e], late).status = "Expired"
    BY <2>1
  <2> DEFINE x == active[e]
  <2> HIDE DEF x
  <2> QED BY <1>3, <2>2, <2>3, AllTold
<1>4. EscalationInv /\ [EscalationNext]_escalationVars
        => [\A e \in DOMAIN active : Ends(e)]_escalationVars
  BY <1>3
<1> QED BY <1>4, EscalationStarts, EscalationSteps, PTL DEF EscalationSpec, ExpiredAllNotified

-----------------------------------------------------------------------------
(* The compositions that the runs check. *)

\* A behaviour of a composition is a behaviour of each part, so that the
\* theorems about the parts are theorems about what the runs check.
THEOREM RecordsAreParts ==
  RecordsSpec => AuditSpec /\ BusSpec /\ ReviewSpec /\ SessionSpec
<1>1. RecordsInit => AuditInit /\ BusInit /\ ReviewInit /\ SessionInit
  BY DEF RecordsInit
<1>2. [RecordsNext]_recordsVars =>
         /\ [AuditNext]_auditVars /\ [BusNext]_busVars
         /\ [ReviewNext]_reviewVars /\ [SessionNext]_sessionVars
  BY DEF RecordsNext, recordsVars
<1> QED BY <1>1, <1>2, PTL DEF RecordsSpec, AuditSpec, BusSpec, ReviewSpec, SessionSpec

\* The same of the engines that wait for people.
THEOREM WorkflowsAreParts == WorkflowsSpec => EscalationSpec /\ PlaybookSpec
<1>1. WorkflowsInit => EscalationInit /\ PlaybookInit
  BY DEF WorkflowsInit
<1>2. [WorkflowsNext]_workflowsVars =>
         [EscalationNext]_escalationVars /\ [PlaybookNext]_playbookVars
  BY DEF WorkflowsNext, workflowsVars
<1> QED BY <1>1, <1>2, PTL DEF WorkflowsSpec, EscalationSpec, PlaybookSpec

\* In every state of that composition both engines have their types.
THEOREM WorkflowTypesHold == WorkflowsSpec => []WorkflowsTypeOK
<1>1. EscalationTypeOK /\ PlaybookTypeOK => WorkflowsTypeOK
  BY DEF WorkflowsTypeOK
<1> QED BY <1>1, WorkflowsAreParts, EscalationTypesHold, PlaybookTypesHold, PTL
=============================================================================
