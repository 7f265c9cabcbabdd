---------------------------- MODULE RolloutProofs ----------------------------
(***************************************************************************)
(* Theorems about Rollout, for any agents, versions, soak times and limits *)
(* of failures.                                                            *)
(*                                                                         *)
(* A heartbeat follows its agent's deployment up, takes deployments back   *)
(* and makes one promotion after the other, each on what the one before    *)
(* left.  Whatever their order, an agent ends with what it had or with the *)
(* deployment of one of the promotions (Outcome).                          *)
(***************************************************************************)
EXTENDS Rollout, AscendingProofs

\* What an agent reports.
Report == {"none", "failed", "mismatch", "applying", "restart_pending"}

\* A deployment that waits has no age; one that is applied is no older than the
\* time t it has been applied without a break.
Soaks(d, t) ==
  /\ d.status = "assigned" => d.done = Never
  /\ d.status = "applied" => d.done <= t

RolloutInv ==
  /\ TypeOK
  /\ \A a \in Agent : upd[a] \in Report
  /\ \A a \in Agent : Soaks(dep[a], applied[a])

AnyDep == Deployment \cup {NoDep}
Age == {Never} \cup 0..SoakCap

\* A deployment whose status and age are changed, and nothing else.
Moved(d, e, s, t) == e = [d EXCEPT !.status = s, !.done = t]

-----------------------------------------------------------------------------
(* Deployments and ages *)

LEMMA AgeFacts ==
  /\ SoakCap \in Nat /\ Never \in Age /\ 0 \in Age
  /\ CanarySoak \in Nat \ {0} /\ Ring1Soak \in Nat \ {0}
  /\ \A t \in Age : t \in Int /\ Older(t) \in Age /\ (t = Never => Older(t) = Never)
  /\ \A t, u \in Age : t <= u => Older(t) <= Older(u)
<1>1. SoakCap \in Nat /\ CanarySoak \in Nat \ {0} /\ Ring1Soak \in Nat \ {0}
  BY RolloutAssumption DEF SoakCap
<1>2. Never = -1
  BY DEF Never
<1>3. \A t \in Age : t \in Int /\ Older(t) \in Age /\ (t = Never => Older(t) = Never)
  BY <1>1, <1>2 DEF Age, Older
<1>4. ASSUME NEW t \in Age, NEW u \in Age, t <= u PROVE Older(t) <= Older(u)
  BY <1>1, <1>2, <1>4 DEF Age, Older
<1> QED BY <1>1, <1>2, <1>3, <1>4 DEF Age

LEMMA DepFacts ==
  ASSUME NEW d \in AnyDep
  PROVE  /\ d.version \in {0} \cup Version /\ d.done \in Age /\ d.downgrade \in BOOLEAN
         /\ d.status \in Status \cup {"none"}
         /\ d.status # "none" => d \in Deployment
         /\ d \in Deployment => d # NoDep /\ d.version \in Version /\ d.group \in Group
         /\ d \notin Deployment => d = NoDep
         /\ d.version # 0 => d \in Deployment
<1>1. CASE d = NoDep
  <2>1. NoDep.version = 0 /\ NoDep.done = Never /\ NoDep.downgrade = FALSE /\ NoDep.status = "none"
    BY DEF NoDep
  <2>2. NoDep \notin Deployment
    BY <2>1 DEF Deployment, Status
  <2> QED BY <1>1, <2>1, <2>2, AgeFacts
<1>2. CASE d \in Deployment
  <2>1. /\ d.version \in Version /\ d.group \in Group /\ d.status \in Status
        /\ d.downgrade \in BOOLEAN /\ d.done \in Age
    BY <1>2 DEF Deployment, Age
  <2>2. d # NoDep
    <3>1. NoDep.status = "none"
      BY DEF NoDep
    <3> QED BY <2>1, <3>1 DEF Status
  <2> QED BY <1>2, <2>1, <2>2
<1> QED BY <1>1, <1>2 DEF AnyDep

LEMMA MovedFacts ==
  ASSUME NEW d \in Deployment, NEW s \in Status, NEW t \in Age, NEW e, Moved(d, e, s, t)
  PROVE  /\ e \in Deployment
         /\ e.version = d.version /\ e.group = d.group /\ e.downgrade = d.downgrade
         /\ e.status = s /\ e.done = t
BY DEF Moved, Deployment, Age

LEMMA AssignedFacts ==
  ASSUME NEW v \in Version, NEW g \in Group, NEW down \in BOOLEAN
  PROVE  /\ Assigned(v, g, down) \in Deployment
         /\ Assigned(v, g, down).version = v /\ Assigned(v, g, down).group = g
         /\ Assigned(v, g, down).status = "assigned"
         /\ Assigned(v, g, down).downgrade = down /\ Assigned(v, g, down).done = Never
BY DEF Assigned, Deployment, Status

\* Older deployments stay what they are.
LEMMA OlderFacts ==
  ASSUME NEW d \in AnyDep
  PROVE  /\ [d EXCEPT !.done = Older(@)] \in AnyDep
         /\ [d EXCEPT !.done = Older(@)].version = d.version
         /\ [d EXCEPT !.done = Older(@)].group = d.group
         /\ [d EXCEPT !.done = Older(@)].status = d.status
         /\ [d EXCEPT !.done = Older(@)].downgrade = d.downgrade
         /\ [d EXCEPT !.done = Older(@)].done = Older(d.done)
         /\ d.done = Never => [d EXCEPT !.done = Older(@)] = d
<1> DEFINE t == Older(d.done)
           e == [d EXCEPT !.done = Older(@)]
<1>1. e = [d EXCEPT !.done = t]
  OBVIOUS
<1>2. t \in Age /\ (d.done = Never => t = d.done)
  BY DepFacts, AgeFacts
<1> HIDE DEF t, e
<1>3. CASE d = NoDep
  <2>1. t = Never
    BY <1>2, <1>3 DEF NoDep
  <2>2. d \in [version : {0}, group : {"none"}, status : {"none"},
                downgrade : {FALSE}, done : {Never}] /\ t = d.done
    BY <1>3, <2>1 DEF NoDep
  <2>3. e = d
    BY <1>1, <2>2
  <2> QED BY <1>3, <2>1, <2>3 DEF AnyDep, NoDep, e, t
<1>4. CASE d \in Deployment
  <2>1. /\ e \in Deployment /\ e.version = d.version /\ e.group = d.group
        /\ e.status = d.status /\ e.downgrade = d.downgrade /\ e.done = t
    BY <1>1, <1>2, <1>4 DEF Deployment, Age
  <2>2. t = d.done => e = d
    BY <1>1, <1>4 DEF Deployment
  <2> QED BY <1>2, <2>1, <2>2 DEF AnyDep, e, t
<1> QED BY <1>3, <1>4 DEF AnyDep

-----------------------------------------------------------------------------
(* The heartbeat, part by part *)

\* A deployment becomes applied only with the version its agent runs.
LEMMA FollowedFacts ==
  ASSUME dep \in [Agent -> AnyDep], \A b \in Agent : upd[b] \in Report, NEW a \in Agent
  PROVE  /\ FollowedUp(a) \in AnyDep /\ FollowedUp(a).version = dep[a].version
         /\ FollowedUp(a).status = "applied" =>
              FollowedUp(a) = dep[a] \/ (running[a] = FollowedUp(a).version /\ FollowedUp(a).done = 0)
         /\ FollowedUp(a).status = "assigned" => FollowedUp(a) = dep[a]
<1> DEFINE d == dep[a]
           t == IF upd[a] = "restart_pending" THEN 0 ELSE d.done
           s == IF upd[a] = "none" THEN d
                ELSE [d EXCEPT !.status = upd[a],
                               !.done = IF upd[a] = "restart_pending" THEN 0 ELSE @]
           x == FollowedUp(a)
           y == [s EXCEPT !.status = "applied", !.done = 0]
<1>1. x = IF d = NoDep THEN d ELSE IF d.version = running[a] THEN y ELSE s
  BY DEF FollowedUp
<1>2. d \in AnyDep
  OBVIOUS
<1>3. t \in Age
  BY <1>2, DepFacts, AgeFacts
<1>4. upd[a] # "none" => Moved(d, s, upd[a], t) /\ upd[a] \in Status
  BY DEF Moved, Report, Status
<1>5. Moved(s, y, "applied", 0) /\ "applied" \in Status /\ 0 \in Age
  BY AgeFacts DEF Moved, Status
<1> HIDE DEF d, t, s, x, y
<1>6. CASE d = NoDep
  BY <1>1, <1>2, <1>6 DEF d, x, NoDep
<1>7. CASE d \in Deployment
  <2>1. d # NoDep
    BY <1>2, <1>7, DepFacts
  <2>2. s \in Deployment /\ s.version = d.version /\ (s = d \/ (upd[a] # "none" /\ s.status = upd[a]))
    BY <1>3, <1>4, <1>7, MovedFacts DEF s
  <2>3. y \in Deployment /\ y.version = d.version /\ y.status = "applied" /\ y.done = 0
    BY <1>5, <2>2, MovedFacts
  <2>4. CASE d.version = running[a]
    BY <1>1, <2>1, <2>3, <2>4 DEF d, x, AnyDep
  <2>5. CASE d.version # running[a]
    <3>1. x = s
      BY <1>1, <2>1, <2>5
    <3>2. s.status \in {"applied", "assigned"} => s = d
      BY <2>2 DEF Report
    <3> QED BY <2>2, <3>1, <3>2 DEF d, x, AnyDep
  <2> QED BY <2>4, <2>5
<1> QED BY <1>2, <1>6, <1>7 DEF AnyDep

LEMMA TakenBackFacts ==
  ASSUME NEW D \in [Agent -> AnyDep]
  PROVE  /\ TakenBack(D) \in [Agent -> AnyDep]
         /\ \A b \in Agent :
              /\ TakenBack(D)[b] = D[b] \/ TakenBack(D)[b].status = "rollback_pending"
              /\ TakenBack(D)[b].version = D[b].version
<1> DEFINE T == TakenBack(D)
<1>1. ASSUME NEW b \in Agent
      PROVE  /\ T[b] \in AnyDep /\ T[b].version = D[b].version
             /\ T[b] = D[b] \/ T[b].status = "rollback_pending"
  <2> DEFINE d == D[b]
  <2>1. T[b] = d \/ (d.status = "failed" /\ T[b] = [d EXCEPT !.status = "rollback_pending"])
    BY DEF TakenBack, Failed
  <2>2. d \in AnyDep
    OBVIOUS
  <2> HIDE DEF T, d
  <2>3. CASE d.status = "failed" /\ T[b] = [d EXCEPT !.status = "rollback_pending"]
    <3>1. d \in Deployment
      BY <2>2, <2>3, DepFacts
    <3>2. T[b] \in Deployment /\ T[b].version = d.version /\ T[b].status = "rollback_pending"
      BY <2>3, <3>1 DEF Deployment, Status
    <3> QED BY <3>2 DEF AnyDep, d
  <2> QED BY <2>1, <2>2, <2>3 DEF d
<1>2. T \in [Agent -> AnyDep]
  <2>1. DOMAIN T = Agent /\ T = [b \in Agent |-> T[b]]
    BY DEF TakenBack
  <2> HIDE DEF T
  <2> QED BY <1>1, <2>1
<1> QED BY <1>1, <1>2

Rings == {"ring-1", "ring-2"}

\* The version an agent is known to run once the agent heard has reported its own.
Current(b, heard) == IF b = heard THEN running[b] ELSE known[b]

\* A version v may follow on w at an agent that runs c, unless it is unsigned.
Follows(v, w, c) == v >= c /\ (Signed => UpdateCounter(v) > UpdateCounter(w))

\* The counters of versions.
LEMMA CounterFacts ==
  ASSUME TypeOK
  PROVE  /\ \A v : UpdateCounter(v) \in 0..MaxVersion
         /\ Signed => \A v \in Version : UpdateCounter(v) = place[v]
         /\ \A v : UpdateCounter(v) > 0 => v \in Version
BY RolloutAssumption DEF TypeOK, UpdateCounter

LEMMA PromotedFacts ==
  ASSUME NEW D \in [Agent -> AnyDep], NEW p \in Version \X Rings, NEW heard
  PROVE  /\ Promoted(D, p, heard) \in [Agent -> AnyDep]
         /\ \A b \in Agent :
              \/ Promoted(D, p, heard)[b] = D[b]
              \/ /\ Promoted(D, p, heard)[b] = Assigned(p[1], p[2], FALSE)
                 /\ Follows(p[1], D[b].version, Current(b, heard))
<1> DEFINE F == Promoted(D, p, heard)
           n == Assigned(p[1], p[2], FALSE)
<1>1. n \in AnyDep
  BY AssignedFacts DEF Rings, Group, AnyDep
<1>2. DOMAIN F = Agent /\ F = [b \in Agent |-> F[b]]
  BY DEF Promoted
<1>3. \A b \in Agent :
        \/ F[b] = D[b]
        \/ F[b] = n /\ Trusted(p[1], Current(b, heard), UpdateCounter(D[b].version), FALSE)
  BY DEF Promoted, Current
<1> HIDE DEF F, n
<1>4. \A b \in Agent : F[b] \in AnyDep
  BY <1>1, <1>3
<1>5. \A c, w : Trusted(p[1], c, UpdateCounter(w), FALSE) => Follows(p[1], w, c)
  BY DEF Trusted, Follows
<1>6. \A b \in Agent : F[b] = D[b] \/ (F[b] = n /\ Follows(p[1], D[b].version, Current(b, heard)))
  BY <1>3, <1>5
<1> QED BY <1>2, <1>4, <1>6 DEF F, n

\* What the promotions P make of the deployments T.
Outcome(T, P, F, heard) ==
  /\ F \in [Agent -> AnyDep]
  /\ \A b \in Agent :
       \/ F[b] = T[b]
       \/ /\ \E p \in P : F[b] = Assigned(p[1], p[2], FALSE)
          /\ Follows(F[b].version, T[b].version, Current(b, heard))

LEMMA OneMorePromotion ==
  ASSUME TypeOK, NEW T \in [Agent -> AnyDep], NEW P \in SUBSET (Version \X Rings), NEW p \in P,
         NEW heard, NEW F, Outcome(T, P, F, heard)
  PROVE  Outcome(T, P, Promoted(F, p, heard), heard)
<1> DEFINE G == Promoted(F, p, heard)
<1>1. F \in [Agent -> AnyDep]
  BY DEF Outcome
<1>2. /\ G \in [Agent -> AnyDep]
      /\ \A b \in Agent :
           \/ G[b] = F[b]
           \/ /\ G[b] = Assigned(p[1], p[2], FALSE)
              /\ Follows(p[1], F[b].version, Current(b, heard))
  BY <1>1, PromotedFacts
<1> HIDE DEF G
<1>3. ASSUME NEW b \in Agent
      PROVE  \/ G[b] = T[b]
             \/ /\ \E q \in P : G[b] = Assigned(q[1], q[2], FALSE)
                /\ Follows(G[b].version, T[b].version, Current(b, heard))
  <2>1. F[b] = T[b] \/ Follows(F[b].version, T[b].version, Current(b, heard))
    BY DEF Outcome
  <2>2. CASE G[b] = F[b]
    BY <2>2 DEF Outcome
  <2>3. CASE /\ G[b] = Assigned(p[1], p[2], FALSE)
             /\ Follows(p[1], F[b].version, Current(b, heard))
    <3> DEFINE u == UpdateCounter(p[1])
               v == UpdateCounter(F[b].version)
               w == UpdateCounter(T[b].version)
    <3>1. u \in Int /\ v \in Int /\ w \in Int
      BY CounterFacts, RolloutAssumption
    <3>2. p[1] >= Current(b, heard) /\ (Signed => u > v) /\ (F[b] = T[b] \/ (Signed => v > w))
      BY <2>1, <2>3 DEF Follows
    <3>3. F[b] = T[b] => v = w
      OBVIOUS
    <3>4. Signed => u > w
      <4> HIDE DEF u, v, w
      <4> QED BY <3>1, <3>2, <3>3
    <3>5. G[b].version = p[1]
      BY <2>3 DEF Assigned
    <3>6. Follows(G[b].version, T[b].version, Current(b, heard))
      BY <3>2, <3>4, <3>5 DEF Follows
    <3> QED BY <2>3, <3>6
  <2> QED BY <1>2, <2>2, <2>3
<1> QED BY <1>2, <1>3 DEF Outcome, G

\* The deployments after the first i promotions of order, for every i <= n.
Chains(E, D, order, heard, n) ==
  E = [i \in 0..n |-> IF i = 0 THEN D ELSE Promoted(E[i - 1], order[i], heard)]

LEMMA ChainExists ==
  ASSUME NEW D, NEW order, NEW heard, NEW n \in Nat
  PROVE  \E E : Chains(E, D, order, heard, n)
<1> DEFINE Bad == {m \in Nat : ~ \E E : Chains(E, D, order, heard, m)}
<1>1. SUFFICES ASSUME Bad # {} PROVE FALSE
  OBVIOUS
<1>2. PICK m \in Bad : \A k \in Bad : m <= k
  BY <1>1, LeastNatural
<1>3. m \in Nat
  OBVIOUS
<1>4. CASE m = 0
  <2> DEFINE E == [i \in 0..0 |-> D]
  <2>1. Chains(E, D, order, heard, 0)
    BY DEF Chains
  <2> QED BY <1>4, <2>1
<1>5. CASE m # 0
  <2>1. m - 1 \in Nat /\ m - 1 \notin Bad
    BY <1>2, <1>3, <1>5
  <2>2. PICK E : Chains(E, D, order, heard, m - 1)
    BY <2>1
  <2> DEFINE Step(f, i) == IF i = 0 THEN D ELSE Promoted(f[i - 1], order[i], heard)
             F == [i \in 0..m |-> IF i = m THEN Step(E, m) ELSE E[i]]
  <2>3. \A i \in 0..(m - 1) : E[i] = Step(E, i)
    BY <2>2 DEF Chains
  <2>4. ASSUME NEW i \in 0..m PROVE F[i] = Step(F, i)
    <3>1. i = 0 \/ F[i - 1] = E[i - 1]
      <4>1. i = 0 \/ (i - 1 \in 0..m /\ i - 1 # m)
        BY <1>3
      <4> QED BY <4>1
    <3>2. Step(F, i) = Step(E, i)
      BY <3>1
    <3>3. i = m \/ i \in 0..(m - 1)
      BY <1>3
    <3>4. F[i] = Step(E, i)
      BY <2>3, <3>3
    <3> QED BY <3>2, <3>4
  <2>5. Chains(F, D, order, heard, m)
    BY <2>4 DEF Chains
  <2> QED BY <2>5
<1> QED BY <1>4, <1>5

\* Whatever the order, the promotions have an outcome.
LEMMA AllPromotedFacts ==
  ASSUME TypeOK, NEW T \in [Agent -> AnyDep], NEW P \in SUBSET (Version \X Rings),
         NEW order \in SetToSeqs(P), NEW heard
  PROVE  Outcome(T, P, AllPromoted(T, order, heard), heard)
<1> DEFINE n == Cardinality(P)
<1>1. n \in Nat
  <2>1. IsFiniteSet(Version) /\ IsFiniteSet(Rings)
    <3>1. MaxVersion \in Int /\ 1 \in Int
      BY RolloutAssumption
    <3>2. IsFiniteSet({"ring-1"}) /\ IsFiniteSet({"ring-2"})
      BY FS_Singleton
    <3>3. IsFiniteSet({"ring-1"} \cup {"ring-2"})
      BY <3>2, FS_Union
    <3>4. {"ring-1"} \cup {"ring-2"} = Rings
      BY DEF Rings
    <3> QED BY <3>1, <3>3, <3>4, FS_Interval DEF Version
  <2>2. IsFiniteSet(Version \X Rings)
    BY <2>1, FS_Product
  <2>3. IsFiniteSet(P)
    BY <2>2, FS_Subset
  <2> QED BY <2>3, FS_CardinalityType
<1>2. order \in [1..n -> P] /\ Len(order) = n
  <2>1. order \in [1..n -> P]
    BY DEF SetToSeqs
  <2> HIDE DEF n
  <2>2. order \in Seq(P) /\ Len(order) = n
    BY <1>1, <2>1
  <2> QED BY <2>1, <2>2
<1> HIDE DEF n
<1> DEFINE E == CHOOSE f : Chains(f, T, order, heard, n)
<1>3. Chains(E, T, order, heard, n)
  BY <1>1, ChainExists
<1>4. AllPromoted(T, order, heard) = E[n]
  BY <1>2 DEF AllPromoted, Chains
<1> HIDE DEF E
<1>5. E[0] = T
  BY <1>1, <1>3 DEF Chains
<1>6. ASSUME NEW i \in 1..n PROVE E[i] = Promoted(E[i - 1], order[i], heard)
  BY <1>1, <1>3 DEF Chains
<1> DEFINE Bad == {i \in 0..n : ~ Outcome(T, P, E[i], heard)}
<1>7. Bad = {}
  <2> SUFFICES ASSUME Bad # {} PROVE FALSE
    OBVIOUS
  <2>1. PICK i \in Bad : \A k \in Bad : i <= k
    <3>1. Bad \in SUBSET Nat
      BY <1>1
    <3> HIDE DEF Bad
    <3> QED BY <3>1, LeastNatural
  <2>2. i \in 0..n /\ ~ Outcome(T, P, E[i], heard)
    OBVIOUS
  <2>3. CASE i = 0
    <3>1. Outcome(T, P, T, heard)
      BY DEF Outcome
    <3> QED BY <1>5, <2>2, <2>3, <3>1
  <2>4. CASE i # 0
    <3>1. i \in 1..n /\ i - 1 \in 0..n /\ ~ (i <= i - 1)
      BY <1>1, <2>2, <2>4
    <3>2. Outcome(T, P, E[i - 1], heard)
      BY <2>1, <3>1
    <3>3. order[i] \in P
      BY <1>2, <3>1
    <3> DEFINE F == E[i - 1]
               p == order[i]
    <3>4. Outcome(T, P, F, heard) /\ p \in P /\ E[i] = Promoted(F, p, heard)
      BY <1>6, <3>1, <3>2, <3>3
    <3> HIDE DEF F, p
    <3>5. Outcome(T, P, Promoted(F, p, heard), heard)
      BY <3>4, OneMorePromotion
    <3> QED BY <2>2, <3>4, <3>5
  <2> QED BY <2>3, <2>4
<1> QED BY <1>1, <1>4, <1>7

\* A promotion follows on a deployment that soaked for its ring's time.
LEMMA PromotionFacts ==
  ASSUME NEW D \in [Agent -> AnyDep], NEW p \in Promotions(D)
  PROVE  /\ p \in Version \X Rings
         /\ \E b \in Agent :
              /\ D[b].status = "applied" /\ D[b].version = p[1]
              /\ \/ p[2] = "ring-1" /\ D[b].group = "canary" /\ D[b].done >= CanarySoak
                 \/ p[2] = "ring-2" /\ D[b].group = "ring-1" /\ D[b].done >= Ring1Soak
<1>1. PICK b \in Agent :
        /\ D[b].status = "applied"
        /\ \/ p = <<D[b].version, "ring-1">> /\ D[b].group = "canary" /\ D[b].done >= CanarySoak
           \/ p = <<D[b].version, "ring-2">> /\ D[b].group = "ring-1" /\ D[b].done >= Ring1Soak
  BY DEF Promotions
<1>2. D[b] \in AnyDep
  OBVIOUS
<1>3. D[b].version \in Version
  BY <1>1, <1>2, DepFacts
<1> QED BY <1>1, <1>3 DEF Rings

\* What a heartbeat leaves of the deployments D it has followed up.
Left(D) ==
  /\ dep' \in [Agent -> AnyDep]
  /\ \A b \in Agent :
       /\ \/ dep'[b] = D[b] \/ dep'[b].status = "rollback_pending"
          \/ \E p \in Promotions(D) : dep'[b] = Assigned(p[1], p[2], FALSE)
       /\ dep'[b].version = dep[b].version \/ Follows(dep'[b].version, dep[b].version, known'[b])

Followed(a) == [dep EXCEPT ![a] = FollowedUp(a)]

LEMMA HeartbeatFacts ==
  ASSUME RolloutInv, NEW a \in Agent, Heartbeat(a)
  PROVE  /\ Followed(a) \in [Agent -> AnyDep]
         /\ Followed(a)[a] = FollowedUp(a)
         /\ \A b \in Agent : b # a => Followed(a)[b] = dep[b]
         /\ Left(Followed(a))
<1> DEFINE D == Followed(a)
           T == TakenBack(D)
           P == Promotions(D)
<1>1. dep \in [Agent -> AnyDep] /\ \A b \in Agent : upd[b] \in Report
  BY DEF RolloutInv, TypeOK, AnyDep
<1>2. FollowedUp(a) \in AnyDep /\ FollowedUp(a).version = dep[a].version
  BY <1>1, FollowedFacts
<1>3. /\ D \in [Agent -> AnyDep] /\ D[a] = FollowedUp(a)
      /\ \A b \in Agent : b # a => D[b] = dep[b]
  BY <1>1, <1>2 DEF Followed
<1>4. PICK order \in SetToSeqs(P) : dep' = AllPromoted(T, order, a)
  BY DEF Heartbeat, Followed
<1> HIDE DEF D
<1>5. /\ T \in [Agent -> AnyDep]
      /\ \A b \in Agent : /\ T[b] = D[b] \/ T[b].status = "rollback_pending"
                          /\ T[b].version = D[b].version
  BY <1>3, TakenBackFacts
<1>6. P \in SUBSET (Version \X Rings)
  BY <1>3, PromotionFacts
<1> HIDE DEF T
<1>7. Outcome(T, P, dep', a)
  <2> HIDE DEF P
  <2>1. TypeOK
    BY DEF RolloutInv
  <2> QED BY <1>4, <1>5, <1>6, <2>1, AllPromotedFacts
<1>8. \A b \in Agent : D[b].version = dep[b].version
  BY <1>2, <1>3
<1>a. \A b \in Agent : Current(b, a) = known'[b]
  BY DEF Heartbeat, Current, RolloutInv, TypeOK
<1>b. ASSUME NEW b \in Agent
      PROVE  dep'[b].version = dep[b].version \/ Follows(dep'[b].version, dep[b].version, known'[b])
  <2>1. T[b].version = dep[b].version
    BY <1>5, <1>8
  <2>2. dep'[b] = T[b] \/ Follows(dep'[b].version, T[b].version, Current(b, a))
    BY <1>7 DEF Outcome
  <2> QED BY <1>a, <2>1, <2>2
<1>9. Left(D)
  BY <1>5, <1>7, <1>b DEF Left, Outcome
<1> QED BY <1>3, <1>9 DEF D

-----------------------------------------------------------------------------
(* The invariant, action by action *)

Times == [Agent -> Age]

\* The history of a heartbeat: what is applied in the end goes on counting.
LEMMA HeartbeatTimes ==
  ASSUME RolloutInv, NEW a \in Agent, Heartbeat(a)
  PROVE  /\ applied' \in Times
         /\ \A b \in Agent : dep'[b].status = "applied" =>
              applied[b] <= applied'[b] /\ 0 <= applied'[b]
<1>1. applied \in Times
  BY DEF RolloutInv, TypeOK, Times, Age
<1>2. applied' = [b \in Agent |-> IF dep'[b].status # "applied" THEN Never
                                 ELSE IF applied[b] = Never THEN 0 ELSE applied[b]]
  BY Zenon DEF Heartbeat
<1>3. ASSUME NEW b \in Agent
      PROVE  /\ applied'[b] \in Age
             /\ dep'[b].status = "applied" => applied[b] <= applied'[b] /\ 0 <= applied'[b]
  <2> DEFINE t == applied[b]
             u == applied'[b]
             on == dep'[b].status = "applied"
  <2>1. t \in Age /\ u = IF ~ on THEN Never ELSE IF t = Never THEN 0 ELSE t
    BY <1>1, <1>2 DEF Times
  <2> HIDE DEF t, u, on
  <2>2. u \in Age /\ (on => t <= u /\ 0 <= u)
    BY <2>1, AgeFacts DEF Age, Never
  <2> QED BY <2>2 DEF t, u, on
<1>4. applied' \in Times
  BY <1>2, <1>3 DEF Times
<1> QED BY <1>3, <1>4

LEMMA HeartbeatKeeps ==
  ASSUME RolloutInv, NEW a \in Agent, Heartbeat(a)
  PROVE  RolloutInv'
<1> DEFINE x == FollowedUp(a)
           D == Followed(a)
<1>1. /\ dep \in [Agent -> AnyDep] /\ applied \in Times
      /\ \A b \in Agent : upd[b] \in Report /\ Soaks(dep[b], applied[b])
  BY DEF RolloutInv, TypeOK, AnyDep, Times, Age
<1>2. x \in AnyDep
  BY <1>1, FollowedFacts
<1>3. /\ D \in [Agent -> AnyDep] /\ D[a] = x /\ \A b \in Agent : b # a => D[b] = dep[b]
      /\ Left(D)
  BY HeartbeatFacts
<1>4. applied' \in Times /\ \A b \in Agent : dep'[b].status = "applied" =>
                             applied[b] <= applied'[b] /\ 0 <= applied'[b]
  BY HeartbeatTimes
<1>5. x = dep[a] \/ (x.status # "assigned" /\ (x.status = "applied" => x.done = 0))
  BY <1>1, FollowedFacts
<1> HIDE DEF x, D
<1>6. ASSUME NEW b \in Agent PROVE Soaks(dep'[b], applied'[b])
  <2>1. D[b] = dep[b] \/ (D[b].status # "assigned" /\ (D[b].status = "applied" => D[b].done = 0))
    BY <1>3, <1>5
  <2>2. CASE dep'[b] = dep[b]
    <3> DEFINE d == dep[b].done
               t == applied[b]
               u == applied'[b]
    <3>1. d \in Age /\ t \in Age /\ u \in Age
      <4>1. dep[b] \in AnyDep
        BY <1>1
      <4> QED BY <1>1, <1>4, <4>1, DepFacts DEF Times
    <3>2. Soaks(dep[b], t) /\ (dep'[b].status = "applied" => t <= u)
      BY <1>1, <1>4
    <3> HIDE DEF t, u
    <3>3. dep[b].status = "applied" => d <= t /\ t <= u
      BY <2>2, <3>2 DEF Soaks
    <3>4. dep[b].status = "applied" => d <= u
      <4> HIDE DEF d
      <4> QED BY <3>1, <3>3, AgeFacts
    <3>5. dep[b].status = "assigned" => dep[b].done = Never
      BY <3>2 DEF Soaks
    <3> QED BY <2>2, <3>4, <3>5 DEF Soaks, u
  <2>3. CASE dep'[b].status # "assigned" /\ (dep'[b].status = "applied" => dep'[b].done = 0)
    BY <1>4, <2>3 DEF Soaks
  <2>4. CASE \E p \in Promotions(D) : dep'[b] = Assigned(p[1], p[2], FALSE)
    BY <2>4 DEF Soaks, Assigned
  <2>5. dep'[b] = D[b] \/ dep'[b].status = "rollback_pending"
          \/ \E p \in Promotions(D) : dep'[b] = Assigned(p[1], p[2], FALSE)
    BY <1>3 DEF Left
  <2> QED BY <2>1, <2>2, <2>3, <2>4, <2>5
<1>7. dep' \in [Agent -> AnyDep]
  BY <1>3 DEF Left
<1>8. /\ known' = [known EXCEPT ![a] = running[a]] /\ online' = online \cup {a}
      /\ told' = [told EXCEPT ![a] = IF x.version # running[a] THEN x.version ELSE 0]
      /\ failedAt' = IF x.status = "failed" THEN failedAt \cup {<<a, x.version>>} ELSE failedAt
      /\ UNCHANGED <<place, running, installed, upd, job, counter, ops, restarts>>
  BY <1>3, Zenon DEF Heartbeat, Followed, x, D
<1>9. x.version \in {0} \cup Version /\ (x.status = "failed" => x.version \in Version)
  BY <1>2, DepFacts
<1>10. TypeOK'
  <2>1. /\ known' \in [Agent -> Version] /\ online' \subseteq Agent
        /\ told' \in [Agent -> {0} \cup Version] /\ failedAt' \subseteq Agent \X Version
    BY <1>8, <1>9 DEF RolloutInv, TypeOK
  <2> QED BY <1>4, <1>7, <1>8, <2>1 DEF RolloutInv, TypeOK, AnyDep, Times, Age
<1>11. \A b \in Agent : (upd[b] \in Report)'
  BY <1>1, <1>8
<1> QED BY <1>6, <1>10, <1>11 DEF RolloutInv, Soaks

\* A request of an operator changes one deployment.
LEMMA RequestKeeps ==
  ASSUME RolloutInv, NEW a \in Agent, NEW x \in AnyDep, Soaks(x, Never),
         dep' = [dep EXCEPT ![a] = x], applied' = [applied EXCEPT ![a] = Never],
         ops < MaxOps, ops' = ops + 1,
         UNCHANGED <<place, known, online, agentVars, restarts, failedAt>>
  PROVE  RolloutInv'
<1>1. ops' \in 0..MaxOps
  BY RolloutAssumption DEF RolloutInv, TypeOK
<1>2. dep' \in [Agent -> AnyDep]
  BY DEF RolloutInv, TypeOK, AnyDep
<1>3. /\ place' = place
      /\ known' = known /\ online' = online /\ running' = running /\ installed' = installed
      /\ upd' = upd /\ job' = job /\ counter' = counter /\ told' = told
      /\ restarts' = restarts /\ failedAt' = failedAt
  BY DEF agentVars
<1>4. applied \in Times /\ applied' \in Times
  BY AgeFacts DEF RolloutInv, TypeOK, Times, Age
<1>5. TypeOK'
  BY <1>1, <1>2, <1>3, <1>4 DEF RolloutInv, TypeOK, AnyDep, Times, Age
<1>6. ASSUME NEW b \in Agent PROVE Soaks(dep'[b], applied'[b])
  <2>1. dep \in [Agent -> AnyDep] /\ Soaks(dep[b], applied[b])
    BY DEF RolloutInv, TypeOK, AnyDep
  <2>2. \/ dep'[b] = x /\ applied'[b] = Never
        \/ dep'[b] = dep[b] /\ applied'[b] = applied[b]
    BY <1>4, <2>1 DEF Times
  <2> QED BY <2>1, <2>2
<1> QED BY <1>3, <1>5, <1>6 DEF RolloutInv

\* The deployment a cancellation makes.
LEMMA CancelFacts ==
  ASSUME RolloutInv, NEW a \in Agent, Cancel(a)
  PROVE  \E x \in Deployment :
           /\ dep' = [dep EXCEPT ![a] = x]
           /\ x.version = dep[a].version /\ x.status = "cancelled"
<1> DEFINE d == dep[a]
           x == [d EXCEPT !.status = "cancelled", !.done = 0]
<1>1. dep \in [Agent -> AnyDep]
  BY DEF RolloutInv, TypeOK, AnyDep
<1>2. dep' = [dep EXCEPT ![a] = x]
  BY <1>1 DEF Cancel
<1>3. d \in Deployment
  <2>1. d \in AnyDep /\ d.status # "none"
    BY <1>1 DEF Cancel
  <2> HIDE DEF d
  <2> QED BY <2>1, DepFacts
<1>4. Moved(d, x, "cancelled", 0) /\ "cancelled" \in Status /\ 0 \in Age
  BY AgeFacts DEF Moved, Status
<1> HIDE DEF x, d
<1>5. x \in Deployment /\ x.version = d.version /\ x.status = "cancelled"
  BY <1>3, <1>4, MovedFacts
<1> QED BY <1>2, <1>5 DEF d

\* What an agent does by itself leaves the server as it is.
LEMMA AgentKeeps ==
  ASSUME RolloutInv, UNCHANGED <<place, serverVars, ops, histVars>>, restarts' \in 0..MaxRestart,
         running' \in [Agent -> Version], installed' \in [Agent -> Version],
         counter' \in [Agent -> 0..MaxVersion], told' \in [Agent -> {0} \cup Version],
         job' \in [Agent -> Job \cup {NoJob}], upd' \in [Agent -> Report]
  PROVE  RolloutInv'
<1>1. /\ place' = place
      /\ known' = known /\ online' = online /\ dep' = dep /\ ops' = ops
      /\ failedAt' = failedAt /\ applied' = applied
  BY DEF serverVars, histVars
<1>2. \A b \in Agent : (upd[b] \in Report)' /\ upd'[b] \in {"none"} \cup Status
  BY DEF Report, Status
<1>3. TypeOK'
  <2>1. upd' \in [Agent -> {"none"} \cup Status]
    BY <1>2
  <2> QED BY <1>1, <2>1 DEF RolloutInv, TypeOK
<1> QED BY <1>1, <1>2, <1>3 DEF RolloutInv, Soaks

LEMMA TickKeeps == RolloutInv /\ Tick => RolloutInv'
<1> SUFFICES ASSUME RolloutInv, Tick PROVE RolloutInv'
  OBVIOUS
<1>1. dep \in [Agent -> AnyDep] /\ applied \in Times /\ \A b \in Agent : Soaks(dep[b], applied[b])
  BY DEF RolloutInv, TypeOK, AnyDep, Times, Age
<1>2. /\ dep' = [b \in Agent |-> [dep[b] EXCEPT !.done = Older(@)]]
      /\ applied' = [b \in Agent |-> Older(applied[b])]
      /\ place' = place
      /\ known' = known /\ online' = online /\ running' = running /\ installed' = installed
      /\ upd' = upd /\ job' = job /\ counter' = counter /\ told' = told
      /\ restarts' = restarts /\ failedAt' = failedAt /\ ops' = ops
  BY DEF Tick, agentVars
<1>3. ASSUME NEW b \in Agent
      PROVE  /\ dep'[b] \in AnyDep /\ dep'[b].version = dep[b].version
             /\ dep'[b].group = dep[b].group /\ dep'[b].status = dep[b].status
             /\ dep'[b].done = Older(dep[b].done)
  <2>1. dep[b] \in AnyDep /\ dep'[b] = [dep[b] EXCEPT !.done = Older(@)]
    BY <1>1, <1>2
  <2> QED BY <2>1, OlderFacts
<1>4. \A b \in Agent : applied[b] \in Age /\ applied'[b] = Older(applied[b])
  BY <1>1, <1>2 DEF Times
<1>5. applied' \in Times
  <2>1. \A b \in Agent : Older(applied[b]) \in Age
    BY <1>4, AgeFacts
  <2> QED BY <1>2, <2>1 DEF Times
<1>6. ASSUME NEW b \in Agent PROVE Soaks(dep'[b], applied'[b])
  <2>1. dep[b] \in AnyDep /\ Soaks(dep[b], applied[b])
    BY <1>1
  <2>2. dep[b].done \in Age
    BY <2>1, DepFacts
  <2>3. dep'[b].status = "assigned" => dep'[b].done = Never
    BY <1>3, <2>1, <2>2, AgeFacts DEF Soaks
  <2>4. dep'[b].status = "applied" => dep[b].done <= applied[b]
    BY <1>3, <2>1 DEF Soaks
  <2>5. dep'[b].status = "applied" => Older(dep[b].done) <= Older(applied[b])
    BY <1>4, <2>2, <2>4, AgeFacts
  <2> QED BY <1>3, <1>4, <2>3, <2>5 DEF Soaks
<1>7. dep' \in [Agent -> AnyDep]
  <2> DEFINE z(b) == [dep[b] EXCEPT !.done = Older(@)]
  <2>1. dep' = [b \in Agent |-> z(b)]
    BY <1>2
  <2> HIDE DEF z
  <2> QED BY <1>3, <2>1
<1>8. TypeOK'
  BY <1>2, <1>5, <1>7 DEF RolloutInv, TypeOK, AnyDep, Times, Age
<1> QED BY <1>2, <1>6, <1>8 DEF RolloutInv, Soaks

LEMMA OfferFacts ==
  ASSUME RolloutInv, NEW a \in Agent
  PROVE  Offer(a).version \in {0} \cup Version /\ Offer(a).downgrade \in BOOLEAN
<1> DEFINE newer == {v \in Published : v > running[a]}
           m == Max(newer)
<1>1. dep[a] \in AnyDep
  BY DEF RolloutInv, TypeOK, AnyDep
<1>2. dep[a].version \in {0} \cup Version /\ dep[a].downgrade \in BOOLEAN
  BY <1>1, DepFacts
<1>3. newer # {} => m \in Version
  <2>1. newer \subseteq Version
    BY DEF Published
  <2>2. newer \in SUBSET Nat /\ MaxVersion \in Nat /\ \A k \in newer : k <= MaxVersion
    BY <2>1, RolloutAssumption DEF Version
  <2> HIDE DEF newer
  <2> SUFFICES ASSUME newer # {} PROVE m \in newer
    BY <2>1
  <2>3. \E i \in newer : \A k \in newer : i >= k
    BY <2>2, GreatestNatural
  <2> QED BY <2>3 DEF Max
<1> DEFINE o == Offer(a)
           r(v, down) == [version |-> v, downgrade |-> down]
<1>4. \A v, down : r(v, down).version = v /\ r(v, down).downgrade = down
  OBVIOUS
<1>5. \/ o = r(dep[a].version, dep[a].downgrade)
      \/ newer # {} /\ o = r(m, FALSE)
      \/ o = r(0, FALSE)
  BY Zenon DEF Offer
<1> HIDE DEF newer, m, o, r
<1>6. o.version \in {0} \cup Version /\ o.downgrade \in BOOLEAN
  <2>1. FALSE \in BOOLEAN /\ 0 \in {0} \cup Version
    OBVIOUS
  <2>2. CASE o = r(dep[a].version, dep[a].downgrade)
    BY <1>2, <1>4, <2>2, Zenon
  <2>3. CASE newer # {} /\ o = r(m, FALSE)
    <3>1. m \in {0} \cup Version
      BY <1>3, <2>3
    <3> QED BY <1>4, <2>1, <2>3, <3>1, Zenon
  <2>4. CASE o = r(0, FALSE)
    BY <1>4, <2>1, <2>4, Zenon
  <2> QED BY <1>5, <2>2, <2>3, <2>4
<1> QED BY <1>6 DEF o

\* A release takes the next place.
LEMMA PublishKeeps ==
  ASSUME RolloutInv, NEW v \in Version, Publish(v)
  PROVE  RolloutInv'
<1>1. place \in [Version -> 0..MaxVersion] /\ place[v] = 0
  BY DEF RolloutInv, TypeOK, Publish
<1>2. IsFiniteSet(Version) /\ Cardinality(Version) = MaxVersion
  BY FS_Interval, RolloutAssumption DEF Version
<1>3. /\ Published \cup {v} \subseteq Version /\ v \notin Published
  BY <1>1 DEF Published
<1>4. IsFiniteSet(Published) /\ Cardinality(Published) \in Nat
  BY <1>2, <1>3, FS_Subset, FS_CardinalityType
<1>5. Cardinality(Published \cup {v}) = Cardinality(Published) + 1
  BY <1>3, <1>4, FS_AddElement
<1>6. Cardinality(Published \cup {v}) <= Cardinality(Version)
  BY <1>2, <1>3, FS_Subset
<1> DEFINE n == Cardinality(Published) + 1
<1>7. n \in 0..MaxVersion
  BY <1>2, <1>4, <1>5, <1>6, RolloutAssumption
<1>8. place' = [place EXCEPT ![v] = n]
  BY DEF Publish
<1> HIDE DEF n
<1>9. place' \in [Version -> 0..MaxVersion]
  BY <1>1, <1>7, <1>8
<1>10. /\ known' = known /\ online' = online /\ dep' = dep /\ running' = running
       /\ installed' = installed /\ upd' = upd /\ job' = job /\ counter' = counter
       /\ told' = told /\ ops' = ops /\ restarts' = restarts
       /\ failedAt' = failedAt /\ applied' = applied
  BY DEF Publish, serverVars, agentVars, histVars
<1>11. TypeOK'
  BY <1>9, <1>10 DEF RolloutInv, TypeOK
<1> QED BY <1>10, <1>11 DEF RolloutInv, Soaks

LEMMA RolloutSteps == RolloutInv /\ [Next]_vars => RolloutInv'
<1> SUFFICES ASSUME RolloutInv, [Next]_vars PROVE RolloutInv'
  OBVIOUS
<1>1. ASSUME NEW a \in Agent, NEW v \in Version, NEW g \in Group, NEW down \in BOOLEAN,
             ops < MaxOps, ops' = ops + 1, dep' = [dep EXCEPT ![a] = Assigned(v, g, down)],
             applied' = [applied EXCEPT ![a] = Never],
             UNCHANGED <<place, known, online, agentVars, restarts, failedAt>>
      PROVE  RolloutInv'
  <2> DEFINE x == Assigned(v, g, down)
  <2>1. x \in AnyDep /\ Soaks(x, Never)
    BY AssignedFacts DEF AnyDep, Soaks
  <2> HIDE DEF x
  <2>2. dep' = [dep EXCEPT ![a] = x]
    BY <1>1 DEF x
  <2> QED BY <1>1, <2>1, <2>2, RequestKeeps
<1>2. CASE \E a \in Agent, v \in Version, g \in Ask, down \in BOOLEAN : Deploy(a, v, g, down)
  <2>1. PICK a \in Agent, v \in Version, g \in Ask, down \in BOOLEAN : Deploy(a, v, g, down)
    BY <1>2
  <2>2. g \in Group
    BY RolloutAssumption DEF Group
  <2> QED BY <1>1, <2>1, <2>2 DEF Deploy
<1>3. CASE \E a \in Agent, v \in Version : Rollback(a, v)
  <2>1. PICK a \in Agent, v \in Version : Rollback(a, v)
    BY <1>3
  <2>2. "direct" \in Group /\ TRUE \in BOOLEAN
    BY DEF Group
  <2> QED BY <1>1, <2>1, <2>2 DEF Rollback
<1>4. CASE \E a \in Agent : Cancel(a)
  <2>1. PICK a \in Agent : Cancel(a)
    BY <1>4
  <2>2. PICK x \in Deployment : dep' = [dep EXCEPT ![a] = x] /\ x.status = "cancelled"
    BY <2>1, CancelFacts
  <2>3. x \in AnyDep /\ Soaks(x, Never)
    BY <2>2 DEF AnyDep, Soaks
  <2>4. /\ ops < MaxOps /\ ops' = ops + 1 /\ applied' = [applied EXCEPT ![a] = Never]
        /\ UNCHANGED <<place, known, online, agentVars, restarts, failedAt>>
    BY <2>1 DEF Cancel
  <2> QED BY <2>2, <2>3, <2>4, RequestKeeps
<1>5. CASE \E a \in Agent : Heartbeat(a)
  BY <1>5, HeartbeatKeeps
<1>6. CASE \E a \in Agent : GoesStale(a)
  BY <1>6 DEF GoesStale, agentVars, histVars, RolloutInv, TypeOK, Soaks
<1>7. CASE Tick
  BY <1>7, TickKeeps
<1>8. /\ running \in [Agent -> Version] /\ installed \in [Agent -> Version]
      /\ counter \in [Agent -> 0..MaxVersion] /\ told \in [Agent -> {0} \cup Version]
      /\ job \in [Agent -> Job \cup {NoJob}] /\ upd \in [Agent -> Report]
      /\ restarts \in 0..MaxRestart
  <2>1. upd = [a \in Agent |-> upd[a]] /\ \A a \in Agent : upd[a] \in Report
    BY DEF RolloutInv, TypeOK
  <2>2. upd \in [Agent -> Report]
    BY <2>1
  <2> QED BY <2>2 DEF RolloutInv, TypeOK
<1>9. {"none", "failed", "mismatch", "applying", "restart_pending"} = Report
  BY DEF Report
<1>10. CASE \E a \in Agent, t \in {"heartbeat", "periodic"} : StartUpdate(a, t)
  <2>1. PICK a \in Agent, t \in {"heartbeat", "periodic"} : StartUpdate(a, t)
    BY <1>10
  <2> DEFINE j == [version |-> Offer(a).version, downgrade |-> Offer(a).downgrade, thread |-> t]
  <2>2. Offer(a).version \in {0} \cup Version /\ Offer(a).downgrade \in BOOLEAN
    BY OfferFacts
  <2>3. Offer(a).version # 0 => j \in Job
    BY <2>2 DEF Job
  <2>4. /\ told' = [told EXCEPT ![a] = 0]
        /\ job' = job \/ (Offer(a).version # 0 /\ job' = [job EXCEPT ![a] = j])
        /\ \E r \in Report : upd' = [upd EXCEPT ![a] = r]
    <3>1. told' = [told EXCEPT ![a] = 0]
      BY <2>1 DEF StartUpdate
    <3> DEFINE U(r) == upd' = [upd EXCEPT ![a] = r]
               W == job' = [job EXCEPT ![a] = j]
    <3>2. \/ U("failed") /\ job' = job
          \/ U("mismatch") /\ job' = job
          \/ U("applying") /\ Offer(a).version # 0 /\ W
      BY <2>1 DEF StartUpdate
    <3> HIDE DEF U, W
    <3>3. \E r \in Report : U(r)
      <4>1. "failed" \in Report /\ "mismatch" \in Report /\ "applying" \in Report
        BY DEF Report
      <4> QED BY <3>2, <4>1
    <3>4. job' = job \/ (Offer(a).version # 0 /\ W)
      BY <3>2
    <3>5. \E r \in Report : upd' = [upd EXCEPT ![a] = r]
      BY <3>3, Zenon DEF U
    <3> QED BY <3>1, <3>4, <3>5, Zenon DEF W
  <2>5. UNCHANGED <<place, serverVars, running, installed, counter, ops, restarts, histVars>>
    BY <2>1 DEF StartUpdate
  <2> HIDE DEF j
  <2>6. told' \in [Agent -> {0} \cup Version] /\ upd' \in [Agent -> Report]
    BY <1>8, <2>4
  <2>7. job' \in [Agent -> Job \cup {NoJob}]
    BY <1>8, <2>3, <2>4
  <2> QED BY <1>8, <2>5, <2>6, <2>7, AgentKeeps
<1>11. ASSUME NEW a \in Agent, job[a] # NoJob PROVE job[a] \in Job /\ job[a].version \in Version
  BY <1>8, <1>11 DEF Job
<1>12. CASE \E a \in Agent : FinishUpdate(a)
  <2>1. PICK a \in Agent : FinishUpdate(a)
    BY <1>12
  <2> DEFINE v == job[a].version
             c == IF Signed THEN UpdateCounter(v) ELSE counter[a]
  <2>2. v \in Version
    BY <1>11, <2>1 DEF FinishUpdate
  <2>3. c \in 0..MaxVersion
    <3>1. UpdateCounter(v) \in 0..MaxVersion
      BY CounterFacts DEF RolloutInv
    <3> QED BY <1>8, <3>1
  <2>4. /\ installed' = [installed EXCEPT ![a] = v] /\ counter' = [counter EXCEPT ![a] = c]
        /\ upd' = [upd EXCEPT ![a] = "restart_pending"] /\ job' = [job EXCEPT ![a] = NoJob]
        /\ UNCHANGED <<place, serverVars, running, told, ops, restarts, histVars>>
    BY <2>1 DEF FinishUpdate
  <2> HIDE DEF v, c
  <2>5. /\ installed' \in [Agent -> Version] /\ counter' \in [Agent -> 0..MaxVersion]
        /\ upd' \in [Agent -> Report] /\ job' \in [Agent -> Job \cup {NoJob}]
    BY <1>8, <1>9, <2>2, <2>3, <2>4
  <2> QED BY <1>8, <2>4, <2>5, AgentKeeps
<1>13. CASE \E a \in Agent : FailUpdate(a)
  <2>1. PICK a \in Agent : FailUpdate(a)
    BY <1>13
  <2>2. upd' \in [Agent -> Report] /\ job' \in [Agent -> Job \cup {NoJob}]
    BY <1>8, <1>9, <2>1 DEF FailUpdate
  <2>3. UNCHANGED <<place, serverVars, running, installed, counter, told, ops, restarts, histVars>>
    BY <2>1 DEF FailUpdate
  <2> QED BY <1>8, <2>2, <2>3, AgentKeeps
<1>14. CASE \E a \in Agent : Restart(a)
  <2>1. PICK a \in Agent : Restart(a)
    BY <1>14
  <2>2. /\ running' \in [Agent -> Version] /\ counter' \in [Agent -> 0..MaxVersion]
        /\ told' \in [Agent -> {0} \cup Version]
        /\ upd' \in [Agent -> Report] /\ job' \in [Agent -> Job \cup {NoJob}]
    <3>1. 0 \in 0..MaxVersion
      BY RolloutAssumption
    <3> QED BY <1>8, <1>9, <2>1, <3>1 DEF Restart
  <2>3. restarts' \in 0..MaxRestart
    BY <1>8, <2>1, RolloutAssumption DEF Restart
  <2>4. UNCHANGED <<place, serverVars, installed, ops, histVars>>
    BY <2>1 DEF Restart
  <2> QED BY <1>8, <2>2, <2>3, <2>4, AgentKeeps
<1>16. CASE \E v \in Version : Publish(v)
  BY <1>16, PublishKeeps
<1>15. CASE UNCHANGED vars
  BY <1>15 DEF vars, serverVars, agentVars, histVars, RolloutInv, TypeOK, Soaks
<1> QED BY <1>2, <1>3, <1>4, <1>5, <1>6, <1>7, <1>10, <1>12, <1>13, <1>14, <1>15, <1>16 DEF Next

LEMMA RolloutStarts == Init => RolloutInv
<1> SUFFICES ASSUME Init PROVE RolloutInv
  OBVIOUS
<1>1. 1 \in Version /\ 0 \in 0..MaxVersion /\ 0 \in 0..MaxOps /\ 0 \in 0..MaxRestart /\ Never \in Age
  BY RolloutAssumption, AgeFacts DEF Version
<1>2. NoDep.status = "none"
  BY DEF NoDep
<1>3. applied \in Times
  BY <1>1 DEF Init, Times
<1>4. TypeOK
  BY <1>1, <1>3 DEF Init, TypeOK, Times, Age
<1>5. \A a \in Agent : upd[a] \in Report /\ Soaks(dep[a], applied[a])
  BY <1>2 DEF Init, Report, Soaks
<1> QED BY <1>4, <1>5 DEF RolloutInv

-----------------------------------------------------------------------------
(* What a step may do to a deployment *)

\* A deployment changes by a request of an operator, which sets its version
\* back only if that is allowed, by a heartbeat, or with time.
LEMMA DepChanges ==
  ASSUME RolloutInv, [Next]_vars, NEW b \in Agent, dep'[b] # dep[b]
  PROVE  \/ /\ ops' # ops /\ dep'[b].status # "applied"
            /\ dep'[b].downgrade \/ dep'[b].version >= dep[b].version
         \/ \E a \in Agent : Heartbeat(a)
         \/ Tick
<1>1. dep \in [Agent -> AnyDep] /\ ops \in Nat
  BY RolloutAssumption DEF RolloutInv, TypeOK, AnyDep
<1>2. dep' # dep
  OBVIOUS
<1>3. dep[b].version \in {0} \cup Version
  BY <1>1, DepFacts
<1>4. CASE \E a \in Agent, v \in Version, g \in Ask, down \in BOOLEAN : Deploy(a, v, g, down)
  <2>1. PICK a \in Agent, v \in Version, g \in Ask, down \in BOOLEAN : Deploy(a, v, g, down)
    BY <1>4
  <2> DEFINE x == Assigned(v, g, down)
  <2>2. /\ dep' = [dep EXCEPT ![a] = x] /\ ops' = ops + 1
        /\ down \/ v >= dep[a].version
    BY <2>1 DEF Deploy
  <2>3. x.status = "assigned" /\ x.version = v /\ x.downgrade = down
    BY DEF Assigned
  <2> HIDE DEF x
  <2>4. b = a /\ dep'[b] = x
    BY <1>1, <2>2
  <2> QED BY <1>1, <2>2, <2>3, <2>4
<1>5. CASE \E a \in Agent, v \in Version : Rollback(a, v)
  <2>1. PICK a \in Agent, v \in Version : Rollback(a, v)
    BY <1>5
  <2> DEFINE x == Assigned(v, "direct", TRUE)
  <2>2. dep' = [dep EXCEPT ![a] = x] /\ ops' = ops + 1
    BY <2>1 DEF Rollback
  <2>3. x.status = "assigned" /\ x.downgrade = TRUE
    BY DEF Assigned
  <2> HIDE DEF x
  <2>4. b = a /\ dep'[b] = x
    BY <1>1, <2>2
  <2> QED BY <1>1, <2>2, <2>3, <2>4
<1>6. CASE \E a \in Agent : Cancel(a)
  <2>1. PICK a \in Agent : Cancel(a)
    BY <1>6
  <2>2. PICK x \in Deployment : /\ dep' = [dep EXCEPT ![a] = x]
                                /\ x.version = dep[a].version /\ x.status = "cancelled"
    BY <2>1, CancelFacts
  <2>3. ops' = ops + 1
    BY <2>1 DEF Cancel
  <2>4. b = a /\ dep'[b] = x
    BY <1>1, <2>2
  <2>5. dep'[b].version >= dep[b].version
    BY <1>3, <2>2, <2>4 DEF Version
  <2> QED BY <1>1, <2>2, <2>3, <2>4, <2>5
<1> QED BY <1>2, <1>4, <1>5, <1>6
        DEF Next, vars, serverVars, GoesStale, StartUpdate, FinishUpdate, FailUpdate, Restart, Publish

\* Time changes no deployment that waits.
LEMMA TickFacts ==
  ASSUME RolloutInv, Tick, NEW b \in Agent
  PROVE  /\ dep'[b] = [dep[b] EXCEPT !.done = Older(@)]
         /\ dep'[b].status = dep[b].status /\ dep'[b].version = dep[b].version
         /\ dep[b].status = "assigned" => dep'[b] = dep[b]
<1>1. dep[b] \in AnyDep /\ Soaks(dep[b], applied[b])
  BY DEF RolloutInv, TypeOK, AnyDep
<1>2. dep'[b] = [dep[b] EXCEPT !.done = Older(@)]
  BY DEF Tick
<1> QED BY <1>1, <1>2, OlderFacts DEF Soaks

\* The variables have their types, whatever operators ask for, agents report
\* and rings promote.
THEOREM RolloutTypesHold == Spec => []TypeOK
<1>1. Init => RolloutInv
  BY RolloutStarts
<1>2. RolloutInv /\ [Next]_vars => RolloutInv'
  BY RolloutSteps
<1>3. RolloutInv => TypeOK
  BY DEF RolloutInv
<1> QED BY <1>1, <1>2, <1>3, PTL DEF Spec

\* A deployment becomes applied only while its agent runs its version: by
\* neither a report, nor a promotion, nor the passing of time.
THEOREM AppliedIsRunning == Spec => AppliedRuns
<1> DEFINE Sound(b) ==
             dep'[b].status = "applied" /\ dep'[b] # dep[b] =>
                \/ running[b] = dep'[b].version
                \/ dep[b].status = "applied" /\ dep'[b] = [dep[b] EXCEPT !.done = Older(@)]
<1>1. ASSUME RolloutInv, [Next]_vars PROVE \A b \in Agent : Sound(b)
  <2> SUFFICES ASSUME NEW b \in Agent, dep'[b].status = "applied", dep'[b] # dep[b]
               PROVE  \/ running[b] = dep'[b].version
                      \/ dep[b].status = "applied" /\ dep'[b] = [dep[b] EXCEPT !.done = Older(@)]
    OBVIOUS
  <2>1. CASE \E a \in Agent : Heartbeat(a)
    <3>1. PICK a \in Agent : Heartbeat(a)
      BY <2>1
    <3> DEFINE D == Followed(a)
    <3>2. D[a] = FollowedUp(a) /\ (b # a => D[b] = dep[b]) /\ Left(D)
      BY <1>1, <3>1, HeartbeatFacts
    <3> HIDE DEF D
    <3>3. dep'[b] = D[b]
      BY <3>2 DEF Left, Assigned
    <3>4. b = a /\ dep'[b] = FollowedUp(a)
      BY <3>2, <3>3
    <3>5. running[a] = FollowedUp(a).version
      <4>1. dep \in [Agent -> AnyDep] /\ \A c \in Agent : upd[c] \in Report
        BY <1>1 DEF RolloutInv, TypeOK, AnyDep
      <4> QED BY <3>4, <4>1, FollowedFacts
    <3> QED BY <3>4, <3>5
  <2>2. CASE Tick
    BY <1>1, <2>2, TickFacts
  <2> QED BY <1>1, <2>1, <2>2, DepChanges
<1>2. RolloutInv /\ [Next]_vars => [\A a \in Agent : Sound(a)]_vars
  BY <1>1
<1> QED BY <1>2, RolloutStarts, RolloutSteps, PTL DEF Spec, AppliedRuns

\* A ring is promoted only after its version soaked in the ring before.
THEOREM PromotionsSoak == Spec => PromotedSoaked
<1> DEFINE Soaked(x) ==
             \/ x.group = "ring-1" /\ SoakedIn(x.version, "canary", CanarySoak)
             \/ x.group = "ring-2" /\ SoakedIn(x.version, "ring-1", Ring1Soak)
<1>1. ASSUME RolloutInv, [Next]_vars
      PROVE  \A b \in Agent :
               dep'[b] # dep[b] /\ ops' = ops /\ dep'[b].status = "assigned" => Soaked(dep'[b])
  <2> SUFFICES ASSUME NEW b \in Agent,
                      dep'[b] # dep[b], ops' = ops, dep'[b].status = "assigned"
               PROVE  Soaked(dep'[b])
    OBVIOUS
  <2>1. ~ Tick
    BY <1>1, TickFacts
  <2>2. PICK a \in Agent : Heartbeat(a)
    BY <1>1, <2>1, DepChanges
  <2> DEFINE D == Followed(a)
  <2>3. /\ D \in [Agent -> AnyDep] /\ D[a] = FollowedUp(a) /\ Left(D)
        /\ \A c \in Agent : c # a => D[c] = dep[c]
    BY <1>1, <2>2, HeartbeatFacts
  <2>4. /\ dep \in [Agent -> AnyDep] /\ applied \in Times
        /\ \A c \in Agent : upd[c] \in Report /\ Soaks(dep[c], applied[c])
    BY <1>1 DEF RolloutInv, TypeOK, AnyDep, Times, Age
  <2>5. /\ FollowedUp(a).status = "assigned" => FollowedUp(a) = dep[a]
        /\ FollowedUp(a).status = "applied" => FollowedUp(a) = dep[a] \/ FollowedUp(a).done = 0
    BY <2>4, FollowedFacts
  <2> HIDE DEF D
  <2>6. dep'[b] # D[b]
    BY <2>3, <2>5
  <2>7. PICK p \in Promotions(D) : dep'[b] = Assigned(p[1], p[2], FALSE)
    BY <2>3, <2>6 DEF Left
  <2>8. PICK c \in Agent :
          /\ D[c].status = "applied" /\ D[c].version = p[1]
          /\ \/ p[2] = "ring-1" /\ D[c].group = "canary" /\ D[c].done >= CanarySoak
             \/ p[2] = "ring-2" /\ D[c].group = "ring-1" /\ D[c].done >= Ring1Soak
    BY <2>3, PromotionFacts
  <2>9. D[c] = dep[c]
    <3>1. D[c].done # 0
      BY <2>8, AgeFacts
    <3> QED BY <2>3, <2>5, <2>8, <3>1
  <2> DEFINE t == applied[c]
             d == dep[c].done
  <2>10. d \in Age /\ t \in Age
    <3>1. dep[c] \in AnyDep
      BY <2>4
    <3> QED BY <2>4, <3>1, DepFacts DEF Times
  <2>11. d <= t
    BY <2>4, <2>8, <2>9 DEF Soaks
  <2>12. dep'[b].version = p[1] /\ dep'[b].group = p[2]
    BY <2>7 DEF Assigned
  <2>13. \/ p[2] = "ring-1" /\ dep[c].group = "canary" /\ d >= CanarySoak
         \/ p[2] = "ring-2" /\ dep[c].group = "ring-1" /\ d >= Ring1Soak
    BY <2>8, <2>9
  <2> HIDE DEF t, d
  <2>14. (d >= CanarySoak => t >= CanarySoak) /\ (d >= Ring1Soak => t >= Ring1Soak)
    BY <2>10, <2>11, AgeFacts
  <2> QED BY <2>8, <2>9, <2>12, <2>13, <2>14 DEF t, SoakedIn
<1>2. RolloutInv /\ [Next]_vars =>
        [\A a \in Agent :
           dep'[a] # dep[a] /\ ops' = ops /\ dep'[a].status = "assigned" => Soaked(dep'[a])]_vars
  BY <1>1
<1> QED BY <1>2, RolloutStarts, RolloutSteps, PTL DEF Spec, PromotedSoaked

\* No assignment of a signed release is undone unless a downgrade was allowed or
\* the lower version was published later, in whatever order versions are
\* published and a heartbeat makes its promotions.
THEOREM AssignmentsStand == Signed => (Spec => AssignedNotRolledBack)
<1> SUFFICES ASSUME Signed PROVE Spec => AssignedNotRolledBack
  OBVIOUS
<1> DEFINE Stands(b) ==
             dep'[b].version < dep[b].version /\ ~dep'[b].downgrade =>
                /\ place[dep'[b].version] > place[dep[b].version]
                /\ dep'[b].version >= known'[b]
<1>1. ASSUME RolloutInv, [Next]_vars, NEW b \in Agent PROVE Stands(b)
  <2> SUFFICES ASSUME dep'[b].version < dep[b].version, ~dep'[b].downgrade
               PROVE  /\ place[dep'[b].version] > place[dep[b].version]
                      /\ dep'[b].version >= known'[b]
    OBVIOUS
  <2>1. dep[b] \in AnyDep /\ TypeOK
    BY <1>1 DEF RolloutInv, TypeOK, AnyDep
  <2>2. dep[b].version \in {0} \cup Version /\ dep[b].version \in Int
    BY <2>1, DepFacts DEF Version
  <2>3. dep'[b] \in AnyDep
    BY <1>1, RolloutSteps DEF RolloutInv, TypeOK, AnyDep
  <2>4. dep'[b].version \in {0} \cup Version /\ dep'[b].version \in Int
    BY <2>3, DepFacts DEF Version
  <2>5. dep'[b].version # dep[b].version /\ ~ (dep'[b].version >= dep[b].version)
    BY <2>2, <2>4
  <2>6. ~ Tick
    BY <1>1, <2>5, TickFacts
  <2>7. PICK a \in Agent : Heartbeat(a)
    BY <1>1, <2>5, <2>6, DepChanges
  <2>8. Follows(dep'[b].version, dep[b].version, known'[b])
    BY <1>1, <2>5, <2>7, HeartbeatFacts DEF Left
  <2> DEFINE u == UpdateCounter(dep'[b].version)
             w == UpdateCounter(dep[b].version)
  <2>9. u \in 0..MaxVersion /\ w \in 0..MaxVersion /\ u > w /\ dep'[b].version >= known'[b]
    BY <2>1, <2>8, CounterFacts DEF Follows
  <2>10. dep[b].version \in Version
    BY <2>2, <2>4 DEF Version
  <2>11. dep'[b].version \in Version
    <3>1. u > 0
      <4> HIDE DEF u, w
      <4> QED BY <2>9, RolloutAssumption
    <3> QED BY <2>1, <3>1, CounterFacts
  <2>12. u = place[dep'[b].version] /\ w = place[dep[b].version]
    BY <2>1, <2>10, <2>11, CounterFacts
  <2> QED BY <2>9, <2>12
<1>2. RolloutInv /\ [Next]_vars => [\A a \in Agent : Stands(a)]_vars
  BY <1>1
<1> QED BY <1>2, RolloutStarts, RolloutSteps, PTL DEF Spec, AssignedNotRolledBack
=============================================================================
