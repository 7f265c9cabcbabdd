------------------------- MODULE ClusterCommitProofs -------------------------
(***************************************************************************)
(* What a node of Cluster has committed stays on a majority, for every set *)
(* of nodes, every batch size and every bound, as long as none of the      *)
(* three hazards of the code is met; and commit indexes do not go back in  *)
(* ClusterLife.                                                            *)
(*                                                                         *)
(* The invariant speaks of a ledger: for every term that had a leader, the *)
(* log it was elected with, the log it has written so far and the nodes    *)
(* whose votes elected it, and which nodes acknowledged how much of that   *)
(* log in its term.  No variable of Cluster holds a ledger; the invariant  *)
(* says that there is one, and each step shows the ledger after it.        *)
(***************************************************************************)
EXTENDS ClusterProofs

-----------------------------------------------------------------------------
(* Ledgers. *)

Ledger ==
  [full : [Nat -> Seq(Entry)],        \* what the leader of a term has in its log
   base : [Nat -> Seq(Entry)],        \* what it was elected with
   voters : [Nat -> SUBSET Node],     \* who elected it
   acks : SUBSET (Node \X Nat \X Nat),\* node, term, position it acknowledged
   terms : SUBSET Nat]                \* the terms that had a leader

\* Two logs have the same first i entries.
Same(a, b, i) == i <= Len(a) /\ i <= Len(b) /\ \A k \in 1..i : a[k] = b[k]

\* Every entry of a log comes from the leader of its term, with all before it.
Backed(l, h) ==
  \A i \in 1..Len(l) : l[i].term \in h.terms /\ Same(l, h.full[l[i].term], i)

\* The positions the leader of term t wrote itself.
Own(t, h) == (Len(h.base[t]) + 1)..Len(h.full[t])

\* A leader after term t and before term u was elected without entry i of t.
Lost(t, i, u, h) ==
  \E v \in h.terms : t < v /\ v < u /\ ~Same(h.base[v], h.full[t], i)

\* Log l has what node q acknowledged before term u, or a leader lost it.
AcksKept(q, l, u, h) ==
  \A t \in h.terms : \A i \in Own(t, h) :
     <<q, t, i>> \in h.acks /\ t < u => Same(l, h.full[t], i) \/ Lost(t, i, u, h)

Majority(Q) == 2 * Cardinality(Q) > Cardinality(Node)

\* A majority acknowledged entry i of the leader of term t in that term.
Chosen(t, i, h) ==
  /\ t \in h.terms /\ i \in Own(t, h)
  /\ \E Q \in SUBSET Node : Majority(Q) /\ \A p \in Q : <<p, t, i>> \in h.acks

\* The first c entries of l were chosen in a term up to u.
Settled(l, c, u, h) ==
  \/ c = 0
  \/ \E t \in h.terms : \E i \in Nat :
        t <= u /\ Chosen(t, i, h) /\ c <= i /\ Same(l, h.full[t], c)

\* What the leader of term t was elected with and has written.
Tenure(t, h) ==
  /\ Begins(h.base[t], h.full[t])
  /\ Backed(h.full[t], h)
  /\ \A i \in 1..Len(h.full[t]) :
        IF i <= Len(h.base[t]) THEN h.full[t][i].term < t ELSE h.full[t][i].term = t
  /\ Majority(h.voters[t])
  /\ \A q \in h.voters[t] : AcksKept(q, h.base[t], t, h)

LedgerOK(h) ==
  /\ h \in Ledger
  /\ \A t \in h.terms : Tenure(t, h)
  /\ \A p \in Node : \A t, i \in Nat :
        <<p, t, i>> \in h.acks => t \in h.terms /\ i <= Len(h.full[t])

\* The fields of a ledger.
LEMMA LedgerType ==
  ASSUME NEW h \in Ledger, NEW t \in Nat
  PROVE  /\ h.full[t] \in Seq(Entry) /\ Len(h.full[t]) \in Nat
         /\ h.base[t] \in Seq(Entry) /\ Len(h.base[t]) \in Nat
         /\ h.voters[t] \in SUBSET Node
         /\ h.terms \in SUBSET Nat
         /\ h.acks \in SUBSET (Node \X Nat \X Nat)
<1>1. /\ h.full \in [Nat -> Seq(Entry)] /\ h.base \in [Nat -> Seq(Entry)]
      /\ h.voters \in [Nat -> SUBSET Node] /\ h.acks \in SUBSET (Node \X Nat \X Nat)
      /\ h.terms \in SUBSET Nat
  BY DEF Ledger
<1>2. h.full[t] \in Seq(Entry) /\ h.base[t] \in Seq(Entry) /\ h.voters[t] \in SUBSET Node
  BY <1>1
<1>3. Len(h.full[t]) \in Nat /\ Len(h.base[t]) \in Nat
  BY <1>2
<1> QED BY <1>1, <1>2, <1>3

\* Being the same up to a position is an equivalence, and holds before it.
LEMMA SameFacts ==
  ASSUME NEW a \in Seq(Entry), NEW b \in Seq(Entry), NEW c \in Seq(Entry),
         NEW i \in Nat, NEW k \in Nat, k <= i
  PROVE  /\ Same(a, b, i) => Same(b, a, i) /\ Same(a, b, k)
         /\ Same(a, b, i) /\ Same(b, c, i) => Same(a, c, i)
         /\ Same(a, b, i) /\ Same(b, c, k) => Same(a, c, k)
         /\ Begins(a, b) => Same(a, b, Len(a))
         /\ Same(a, b, i) /\ Begins(b, c) => Same(a, c, i)
         /\ i <= Len(a) => Same(a, a, i)
BY DEF Same, Begins

\* Logs with the same term at a position agree up to it when each comes from
\* the leaders of its terms.
LEMMA BackedAgree ==
  ASSUME NEW h \in Ledger, NEW a \in Seq(Entry), NEW b \in Seq(Entry),
         Backed(a, h), Backed(b, h)
  PROVE  /\ Agree(a, b)
         /\ \A i \in 1..Len(a) : i <= Len(b) /\ a[i].term = b[i].term => Same(a, b, i)
<1>1. ASSUME NEW i \in 1..Len(a), i <= Len(b), a[i].term = b[i].term
      PROVE  Same(a, b, i)
  <2> DEFINE t == a[i].term
             f == h.full[t]
  <2>1. t \in Nat /\ i \in 1..Len(b) /\ i \in Nat
    BY <1>1, EntryTerm
  <2>2. f \in Seq(Entry)
    BY <2>1, LedgerType
  <2>3. Same(a, f, i) /\ Same(b, f, i)
    BY <1>1, <2>1 DEF Backed
  <2> HIDE DEF f
  <2> QED BY <2>1, <2>2, <2>3 DEF Same
<1>2. Agree(a, b)
  <2> SUFFICES ASSUME NEW i \in 1..Min2(Len(a), Len(b)), a[i].term = b[i].term
               PROVE  \A k \in 1..i : a[k] = b[k]
    BY DEF Agree
  <2>1. i \in 1..Len(a) /\ i <= Len(b)
    BY DEF Min2
  <2> QED BY <1>1, <2>1 DEF Same
<1> QED BY <1>1, <1>2

\* What begins a backed log is backed.
LEMMA BackedBeginning ==
  ASSUME NEW h \in Ledger, NEW a \in Seq(Entry), NEW b \in Seq(Entry),
         Begins(a, b), Backed(b, h)
  PROVE  Backed(a, h)
<1> SUFFICES ASSUME NEW i \in 1..Len(a)
             PROVE  a[i].term \in h.terms /\ Same(a, h.full[a[i].term], i)
  BY DEF Backed
<1>1. i \in 1..Len(b) /\ a[i] = b[i] /\ i \in Nat
  BY DEF Begins
<1>2. b[i].term \in h.terms /\ Same(b, h.full[b[i].term], i) /\ b[i].term \in Nat
  BY <1>1, EntryTerm DEF Backed
<1>3. h.full[b[i].term] \in Seq(Entry)
  BY <1>2, LedgerType
<1>4. Same(a, b, i)
  BY <1>1 DEF Same, Begins
<1> QED BY <1>1, <1>2, <1>3, <1>4, SameFacts

-----------------------------------------------------------------------------
(* Leader completeness. *)

\* A leader elected after an entry was chosen has it: of the leaders without
\* it, the first one would have the vote of a node that acknowledged it.
LEMMA ChosenHeld ==
  ASSUME NEW h, LedgerOK(h), NEW t, NEW i, Chosen(t, i, h),
         NEW u \in h.terms, t < u
  PROVE  Same(h.base[u], h.full[t], i)
<1>0. h \in Ledger /\ t \in Nat /\ h.terms \in SUBSET Nat /\ t \in h.terms
  BY DEF LedgerOK, Chosen, Ledger
<1> DEFINE Bad == {v \in h.terms : t < v /\ ~Same(h.base[v], h.full[t], i)}
<1>1. SUFFICES ASSUME Bad # {} PROVE FALSE
  BY <1>1
<1>2. Bad \in SUBSET Nat
  BY <1>0
<1>3. PICK v \in Bad : \A w \in Bad : v <= w
  BY <1>1, <1>2, LeastNatural
<1>4. v \in h.terms /\ t < v /\ v \in Nat /\ ~Same(h.base[v], h.full[t], i)
  BY <1>0, <1>3
<1>5. ~Lost(t, i, v, h)
  <2>1. \A w \in h.terms : t < w /\ w < v => w \notin Bad
    BY <1>0, <1>3, <1>4
  <2> QED BY <2>1 DEF Lost
<1> HIDE DEF Bad
<1>6. PICK Q \in SUBSET Node : Majority(Q) /\ \A p \in Q : <<p, t, i>> \in h.acks
  BY DEF Chosen
<1>7. h.voters[v] \in SUBSET Node /\ Majority(h.voters[v])
  BY <1>0, <1>4, LedgerType DEF LedgerOK, Tenure
<1>8. \E q \in Node : q \in Q /\ q \in h.voters[v]
  <2> DEFINE W == h.voters[v]
  <2>1. W \in SUBSET Node /\ Majority(W)
    BY <1>7
  <2> HIDE DEF W
  <2>2. Cardinality(Q) \in Nat /\ Cardinality(W) \in Nat /\ Cardinality(Node) \in Nat
    BY <2>1, NodeAssumption, FS_CardinalityType, FS_Subset
  <2>3. Cardinality(Q) + Cardinality(W) > Cardinality(Node)
    BY <1>6, <2>1, <2>2 DEF Majority
  <2>4. \E q \in Node : q \in Q /\ q \in W
    BY <2>1, <2>3, NodeAssumption, FS_MajoritiesIntersect
  <2> QED BY <2>4 DEF W
<1>9. PICK q \in Node : q \in Q /\ q \in h.voters[v]
  BY <1>8
<1>10. <<q, t, i>> \in h.acks
  BY <1>6, <1>9
<1>11. AcksKept(q, h.base[v], v, h)
  BY <1>4, <1>9 DEF LedgerOK, Tenure
<1>12. i \in Own(t, h)
  BY DEF Chosen
<1>13. Same(h.base[v], h.full[t], i) \/ Lost(t, i, v, h)
  BY <1>0, <1>4, <1>10, <1>11, <1>12 DEF AcksKept
<1> QED BY <1>4, <1>5, <1>13

\* The log of any leader from the term in which an entry was chosen on has it.
LEMMA ChosenInFull ==
  ASSUME NEW h, LedgerOK(h), NEW t, NEW i, Chosen(t, i, h),
         NEW u \in h.terms, t <= u
  PROVE  i \in Nat /\ t \in Nat /\ u \in Nat /\ Same(h.full[u], h.full[t], i)
<1>0. h \in Ledger /\ t \in Nat /\ u \in Nat /\ t \in h.terms
  BY DEF LedgerOK, Chosen, Ledger
<1>1. /\ h.full[t] \in Seq(Entry) /\ Len(h.full[t]) \in Nat /\ Len(h.base[t]) \in Nat
      /\ h.full[u] \in Seq(Entry) /\ h.base[u] \in Seq(Entry)
  BY <1>0, LedgerType
<1>2. i \in Nat /\ i <= Len(h.full[t])
  BY <1>1 DEF Chosen, Own
<1>3. CASE t = u
  <2>1. Same(h.full[t], h.full[t], i)
    BY <1>1, <1>2 DEF Same
  <2> QED BY <1>0, <1>2, <1>3, <2>1
<1>4. CASE t < u
  <2>1. Same(h.base[u], h.full[t], i)
    BY <1>4, ChosenHeld
  <2>2. Begins(h.base[u], h.full[u])
    BY DEF LedgerOK, Tenure
  <2>3. Same(h.full[t], h.full[u], i)
    BY <1>1, <1>2, <2>1, <2>2, SameFacts
  <2> QED BY <1>0, <1>1, <1>2, <2>3, SameFacts
<1> QED BY <1>0, <1>2, <1>3, <1>4

\* What was settled is the same wherever it was settled.
LEMMA SettledSame ==
  ASSUME NEW h, LedgerOK(h), NEW a \in Seq(Entry), NEW b \in Seq(Entry),
         NEW c \in Nat, NEW d \in Nat, d <= c, NEW u \in Nat, NEW v \in Nat,
         Settled(a, c, u, h), Settled(b, d, v, h)
  PROVE  Same(a, b, d)
<1>1. CASE d = 0
  BY <1>1 DEF Same
<1>2. CASE d # 0
  <2>0. h \in Ledger /\ h.terms \in SUBSET Nat
    BY DEF LedgerOK, Ledger
  <2>1. PICK t \in h.terms, i \in Nat : Chosen(t, i, h) /\ c <= i /\ Same(a, h.full[t], c)
    BY <1>2 DEF Settled
  <2>2. PICK s \in h.terms, k \in Nat : Chosen(s, k, h) /\ d <= k /\ Same(b, h.full[s], d)
    BY <1>2 DEF Settled
  <2>3. h.full[t] \in Seq(Entry) /\ h.full[s] \in Seq(Entry) /\ t \in Nat /\ s \in Nat
    BY <2>0, LedgerType
  <2>4. Same(h.full[t], h.full[s], d)
    <3>1. CASE t <= s
      <4>1. Same(h.full[s], h.full[t], i) /\ d <= i
        BY <2>1, <2>3, <3>1, ChosenInFull
      <4> QED BY <2>3, <4>1, SameFacts
    <3>2. CASE s <= t
      <4>1. Same(h.full[t], h.full[s], k) /\ d <= k
        BY <2>2, <2>3, <3>2, ChosenInFull
      <4> QED BY <2>3, <4>1, SameFacts
    <3> QED BY <2>3, <3>1, <3>2
  <2>5. Same(a, h.full[t], d) /\ Same(h.full[s], b, d)
    BY <2>1, <2>2, <2>3, SameFacts
  <2>6. Same(a, h.full[s], d)
    BY <2>3, <2>4, <2>5, SameFacts
  <2> QED BY <2>3, <2>5, <2>6, SameFacts
<1> QED BY <1>1, <1>2

-----------------------------------------------------------------------------
(* Ledgers grow. *)

\* What is in ledger h is in ledger g, where leaders may have written more.
Later(h, g) ==
  /\ h \in Ledger /\ g \in Ledger
  /\ h.terms \subseteq g.terms /\ h.acks \subseteq g.acks
  /\ \A t \in h.terms : /\ g.base[t] = h.base[t] /\ g.voters[t] = h.voters[t]
                        /\ Begins(h.full[t], g.full[t])

\* What agrees with a leader's log goes on to do so.
LEMMA LaterSame ==
  ASSUME NEW h, NEW g, Later(h, g), NEW t \in h.terms,
         NEW l \in Seq(Entry), NEW i \in Nat
  PROVE  /\ t \in Nat /\ t \in g.terms
         /\ Len(h.full[t]) \in Nat /\ Len(h.full[t]) <= Len(g.full[t])
         /\ Same(l, h.full[t], i) => Same(l, g.full[t], i)
         /\ i <= Len(h.full[t]) /\ Same(l, g.full[t], i) => Same(l, h.full[t], i)
<1>1. /\ h \in Ledger /\ g \in Ledger /\ t \in Nat /\ t \in g.terms
      /\ Begins(h.full[t], g.full[t])
  BY DEF Later, Ledger
<1>2. h.full[t] \in Seq(Entry) /\ g.full[t] \in Seq(Entry)
  BY <1>1, LedgerType
<1> DEFINE a == h.full[t]
           b == g.full[t]
<1>3. a \in Seq(Entry) /\ b \in Seq(Entry) /\ Begins(a, b)
  BY <1>1, <1>2
<1> HIDE DEF a, b
<1>4. /\ Len(a) \in Nat /\ Len(a) <= Len(b)
      /\ Same(l, a, i) => Same(l, b, i)
      /\ i <= Len(a) /\ Same(l, b, i) => Same(l, a, i)
  BY <1>3 DEF Begins, Same
<1> QED BY <1>1, <1>4 DEF a, b

\* A backed log stays backed.
LEMMA LaterBacked ==
  ASSUME NEW h, NEW g, Later(h, g), NEW l \in Seq(Entry), Backed(l, h)
  PROVE  Backed(l, g)
<1> SUFFICES ASSUME NEW i \in 1..Len(l)
             PROVE  l[i].term \in g.terms /\ Same(l, g.full[l[i].term], i)
  BY DEF Backed
<1>1. l[i].term \in h.terms /\ Same(l, h.full[l[i].term], i) /\ i \in Nat
  BY DEF Backed
<1> QED BY <1>1, LaterSame

\* What was lost stays lost.
LEMMA LaterLost ==
  ASSUME NEW h, NEW g, Later(h, g), NEW t \in h.terms, NEW i \in Nat,
         i <= Len(h.full[t]), NEW u \in Nat, NEW w \in Nat, u <= w, Lost(t, i, u, h)
  PROVE  Lost(t, i, w, g)
<1>1. PICK v \in h.terms : t < v /\ v < u /\ ~Same(h.base[v], h.full[t], i)
  BY DEF Lost
<1>2. h \in Ledger /\ v \in Nat /\ v \in g.terms /\ g.base[v] = h.base[v]
  BY DEF Later, Ledger
<1>3. h.base[v] \in Seq(Entry)
  BY <1>2, LedgerType
<1>4. ~Same(g.base[v], g.full[t], i)
  BY <1>1, <1>2, <1>3, LaterSame
<1>5. t < v /\ v < w
  BY <1>1, <1>2
<1> QED BY <1>2, <1>4, <1>5 DEF Lost

\* What is kept stays kept while the node acknowledges only what it has.
LEMMA LaterKept ==
  ASSUME NEW h, NEW g, Later(h, g), LedgerOK(h), NEW q \in Node, NEW l \in Seq(Entry),
         NEW u \in Nat, NEW w \in Nat, u <= w, AcksKept(q, l, u, h),
         \A t, i \in Nat : <<q, t, i>> \in g.acks /\ t < w =>
            (<<q, t, i>> \in h.acks /\ t < u) \/ Same(l, g.full[t], i)
  PROVE  AcksKept(q, l, w, g)
<1> SUFFICES ASSUME NEW t \in g.terms, NEW i \in Own(t, g), <<q, t, i>> \in g.acks, t < w
             PROVE  Same(l, g.full[t], i) \/ Lost(t, i, w, g)
  BY DEF AcksKept
<1>0. SUFFICES ASSUME ~Same(l, g.full[t], i) PROVE Same(l, g.full[t], i) \/ Lost(t, i, w, g)
  OBVIOUS
<1>1. g \in Ledger /\ t \in Nat
  BY DEF Later, Ledger
<1>2. Len(g.base[t]) \in Nat /\ Len(g.full[t]) \in Nat
  BY <1>1, LedgerType
<1>3. i \in Nat /\ Len(g.base[t]) + 1 <= i
  BY <1>2 DEF Own
<1>4. <<q, t, i>> \in h.acks /\ t < u
  BY <1>0, <1>1, <1>3
<1>5. t \in h.terms /\ i <= Len(h.full[t])
  BY <1>1, <1>3, <1>4 DEF LedgerOK
<1>6. h \in Ledger /\ g.base[t] = h.base[t]
  BY <1>5 DEF Later
<1>7. i \in Own(t, h)
  <2>1. Len(h.base[t]) \in Nat /\ Len(h.full[t]) \in Nat
    BY <1>1, <1>6, LedgerType
  <2> QED BY <1>3, <1>5, <1>6, <2>1 DEF Own
<1>8. Same(l, h.full[t], i) \/ Lost(t, i, u, h)
  BY <1>4, <1>5, <1>7 DEF AcksKept
<1> QED BY <1>3, <1>5, <1>8, LaterSame, LaterLost

\* What is chosen stays chosen, and what is settled stays settled.
LEMMA LaterSettled ==
  ASSUME NEW h, NEW g, Later(h, g), NEW l \in Seq(Entry), NEW c \in Nat,
         NEW u \in Nat, NEW w \in Nat, u <= w
  PROVE  /\ \A t, i : Chosen(t, i, h) => Chosen(t, i, g)
         /\ Settled(l, c, u, h) => Settled(l, c, w, g)
<1>1. ASSUME NEW t, NEW i, Chosen(t, i, h) PROVE Chosen(t, i, g)
  <2>1. /\ h \in Ledger /\ g \in Ledger /\ t \in h.terms /\ t \in g.terms /\ t \in Nat
        /\ g.base[t] = h.base[t] /\ h.acks \subseteq g.acks
    BY <1>1 DEF Chosen, Later, Ledger
  <2>2. Len(h.full[t]) <= Len(g.full[t])
    BY <2>1, LaterSame
  <2>3. /\ Len(h.full[t]) \in Nat /\ Len(g.full[t]) \in Nat /\ Len(h.base[t]) \in Nat
    BY <2>1, LedgerType
  <2>4. i \in Own(t, g)
    BY <1>1, <2>1, <2>2, <2>3 DEF Chosen, Own
  <2> QED BY <1>1, <2>1, <2>4 DEF Chosen
<1>2. ASSUME Settled(l, c, u, h) PROVE Settled(l, c, w, g)
  <2>1. CASE c = 0
    BY <2>1 DEF Settled
  <2>2. CASE c # 0
    <3>1. PICK t \in h.terms, i \in Nat :
             t <= u /\ Chosen(t, i, h) /\ c <= i /\ Same(l, h.full[t], c)
      BY <1>2, <2>2 DEF Settled
    <3>2. t \in Nat /\ t \in g.terms /\ Same(l, g.full[t], c)
      BY <3>1, LaterSame
    <3>3. Chosen(t, i, g) /\ t <= w
      BY <1>1, <3>1, <3>2
    <3> QED BY <3>1, <3>2, <3>3 DEF Settled
  <2> QED BY <2>1, <2>2
<1> QED BY <1>1, <1>2

\* A ledger in which one leader's log and one node's acknowledgements in that
\* leader's term have grown is sound.
LEMMA LedgerGrows ==
  ASSUME NEW h, NEW g, Later(h, g), LedgerOK(h), NEW d \in Node, NEW t \in Nat,
         g.terms = h.terms \cup {t}, Tenure(t, g),
         \A s \in h.terms : s # t => g.full[s] = h.full[s],
         \A s \in h.terms : d \in h.voters[s] => s <= t,
         \A p \in Node : \A s, i \in Nat : <<p, s, i>> \in g.acks =>
            <<p, s, i>> \in h.acks \/ (p = d /\ s = t /\ i <= Len(g.full[t]))
  PROVE  LedgerOK(g)
<1>1. h \in Ledger /\ g \in Ledger /\ h.terms \in SUBSET Nat
  BY DEF Later, Ledger
<1>2. ASSUME NEW s \in h.terms, s # t PROVE Tenure(s, g)
  <2>0. /\ s \in Nat /\ g.full[s] = h.full[s] /\ g.base[s] = h.base[s]
        /\ g.voters[s] = h.voters[s] /\ Tenure(s, h)
    BY <1>1, <1>2 DEF Later, LedgerOK
  <2>1. h.full[s] \in Seq(Entry) /\ h.base[s] \in Seq(Entry) /\ h.voters[s] \in SUBSET Node
    BY <1>1, <2>0, LedgerType
  <2>2. Backed(g.full[s], g)
    BY <2>0, <2>1, LaterBacked DEF Tenure
  <2>3. ASSUME NEW q \in g.voters[s] PROVE AcksKept(q, g.base[s], s, g)
    <3>1. q \in Node /\ q \in h.voters[s] /\ AcksKept(q, h.base[s], s, h)
      BY <2>0, <2>1, <2>3 DEF Tenure
    <3>2. ASSUME NEW r \in Nat, NEW i \in Nat, <<q, r, i>> \in g.acks, r < s
          PROVE  <<q, r, i>> \in h.acks /\ r < s
      <4>1. ~(q = d /\ r = t)
        BY <2>0, <3>1, <3>2
      <4> QED BY <3>1, <3>2, <4>1
    <3>3. s <= s
      BY <2>0
    <3>4. \A r, i \in Nat : <<q, r, i>> \in g.acks /\ r < s => <<q, r, i>> \in h.acks /\ r < s
      BY <3>2
    <3> QED BY <2>0, <2>1, <3>1, <3>3, <3>4, LaterKept
  <2> QED BY <2>0, <2>2, <2>3 DEF Tenure
<1>3. \A s \in g.terms : Tenure(s, g)
  BY <1>2
<1>4. ASSUME NEW p \in Node, NEW s \in Nat, NEW i \in Nat, <<p, s, i>> \in g.acks
      PROVE  s \in g.terms /\ i <= Len(g.full[s])
  <2>1. CASE <<p, s, i>> \in h.acks
    <3>1. s \in h.terms /\ i <= Len(h.full[s])
      BY <2>1 DEF LedgerOK
    <3>2. Len(h.full[s]) \in Nat /\ Len(g.full[s]) \in Nat
      BY <1>1, LedgerType
    <3>3. Len(h.full[s]) <= Len(g.full[s])
      BY <3>1 DEF Later, Begins
    <3> QED BY <1>1, <3>1, <3>2, <3>3 DEF Later
  <2>2. CASE s = t /\ i <= Len(g.full[t])
    BY <2>2
  <2> QED BY <1>4, <2>1, <2>2
<1> QED BY <1>1, <1>3, <1>4 DEF LedgerOK

\* The ledger in which the leader of term t has written f on top of b with the
\* votes of Q, and node d has acknowledged k positions of that term.
Grown(h, t, b, f, Q, d, k) ==
  [full |-> [h.full EXCEPT ![t] = f],
   base |-> [h.base EXCEPT ![t] = b],
   voters |-> [h.voters EXCEPT ![t] = Q],
   acks |-> h.acks \cup {<<d, t, i>> : i \in 1..k},
   terms |-> h.terms \cup {t}]

\* A record of the fields of a ledger is one.
LEMMA LedgerMade ==
  ASSUME NEW F \in [Nat -> Seq(Entry)], NEW B \in [Nat -> Seq(Entry)],
         NEW V \in [Nat -> SUBSET Node], NEW A \in SUBSET (Node \X Nat \X Nat),
         NEW T \in SUBSET Nat
  PROVE  [full |-> F, base |-> B, voters |-> V, acks |-> A, terms |-> T] \in Ledger
BY DEF Ledger

\* What that ledger g has more than h.
Grew(h, g, t, b, f, Q, d, k) ==
  /\ Later(h, g)
  /\ g.terms = h.terms \cup {t}
  /\ g.base[t] = b /\ g.full[t] = f /\ g.voters[t] = Q
  /\ \A s \in h.terms : s # t => g.full[s] = h.full[s]
  /\ \A p, s, i : <<p, s, i>> \in g.acks <=>
        <<p, s, i>> \in h.acks \/ (p = d /\ s = t /\ i \in 1..k)

\* That ledger has that much more.
LEMMA GrownFacts ==
  ASSUME NEW h \in Ledger, NEW t \in Nat, NEW b \in Seq(Entry), NEW f \in Seq(Entry),
         NEW Q \in SUBSET Node, NEW d \in Node, NEW k \in Nat,
         t \in h.terms => b = h.base[t] /\ Q = h.voters[t] /\ Begins(h.full[t], f)
  PROVE  Grew(h, Grown(h, t, b, f, Q, d, k), t, b, f, Q, d, k)
<1> SUFFICES ASSUME NEW g, g = Grown(h, t, b, f, Q, d, k)
             PROVE  Grew(h, g, t, b, f, Q, d, k)
  OBVIOUS
<1>1. /\ h.full \in [Nat -> Seq(Entry)] /\ h.base \in [Nat -> Seq(Entry)]
      /\ h.voters \in [Nat -> SUBSET Node] /\ h.acks \in SUBSET (Node \X Nat \X Nat)
      /\ h.terms \in SUBSET Nat
  BY DEF Ledger
<1>2. /\ g.full = [h.full EXCEPT ![t] = f]
      /\ g.base = [h.base EXCEPT ![t] = b]
      /\ g.voters = [h.voters EXCEPT ![t] = Q]
      /\ g.acks = h.acks \cup {<<d, t, i>> : i \in 1..k}
      /\ g.terms = h.terms \cup {t}
  BY DEF Grown
<1> DEFINE N == {<<d, t, i>> : i \in 1..k}
<1>3. /\ [h.full EXCEPT ![t] = f] \in [Nat -> Seq(Entry)]
      /\ [h.base EXCEPT ![t] = b] \in [Nat -> Seq(Entry)]
      /\ [h.voters EXCEPT ![t] = Q] \in [Nat -> SUBSET Node]
      /\ h.terms \cup {t} \in SUBSET Nat
  <2> DEFINE F == h.full
             B == h.base
             V == h.voters
  <2>1. F \in [Nat -> Seq(Entry)] /\ B \in [Nat -> Seq(Entry)] /\ V \in [Nat -> SUBSET Node]
    BY <1>1
  <2> HIDE DEF F, B, V
  <2>2. [F EXCEPT ![t] = f] \in [Nat -> Seq(Entry)]
    BY <2>1
  <2>3. [B EXCEPT ![t] = b] \in [Nat -> Seq(Entry)]
    BY <2>1
  <2>4. [V EXCEPT ![t] = Q] \in [Nat -> SUBSET Node]
    BY <2>1
  <2> QED BY <1>1, <2>2, <2>3, <2>4 DEF F, B, V
<1>4. h.acks \cup N \in SUBSET (Node \X Nat \X Nat)
  <2>1. \A i \in 1..k : <<d, t, i>> \in Node \X Nat \X Nat
    OBVIOUS
  <2>2. N \in SUBSET (Node \X Nat \X Nat)
    BY <2>1
  <2> QED BY <1>1, <2>2
<1>5. g \in Ledger
  BY <1>3, <1>4, LedgerMade DEF Grown
<1>6. g.base[t] = b /\ g.full[t] = f /\ g.voters[t] = Q
  BY <1>1, <1>2
<1>7. \A s \in Nat : s # t => /\ g.full[s] = h.full[s] /\ g.base[s] = h.base[s]
                              /\ g.voters[s] = h.voters[s]
  BY <1>1, <1>2
<1>8. \A l \in Seq(Entry) : Begins(l, l)
  BY DEF Begins
<1>9. ASSUME NEW s \in h.terms
      PROVE  g.base[s] = h.base[s] /\ g.voters[s] = h.voters[s] /\ Begins(h.full[s], g.full[s])
  <2>1. CASE s = t
    BY <1>6, <2>1
  <2>2. CASE s # t
    BY <1>1, <1>7, <1>8, <2>2
  <2> QED BY <2>1, <2>2
<1>10. Later(h, g)
  BY <1>2, <1>5, <1>9 DEF Later
<1>11. \A s \in h.terms : s # t => g.full[s] = h.full[s]
  BY <1>1, <1>7
<1>12. ASSUME NEW p, NEW s, NEW i
       PROVE  <<p, s, i>> \in g.acks <=>
                 <<p, s, i>> \in h.acks \/ (p = d /\ s = t /\ i \in 1..k)
  BY <1>2
<1> QED BY <1>2, <1>6, <1>10, <1>11, <1>12 DEF Grew

-----------------------------------------------------------------------------
(* handle_append brings a log nearer to its leader's. *)

\* After an accepted request the log agrees with the leader's as far as the
\* request reaches.
LEMMA FirstReach ==
  ASSUME NEW l \in Seq(Entry), NEW r \in AppendRequest, FormedRequest(r),
         NEW g \in Seq(Entry), SliceOf(r, g), Agree(l, g), AppendOk(l, r)
  PROVE  Same(LogAfter(l, r), g, Reach(r))
<1> DEFINE la == LogAfter(l, r)
           p == r.prevLogIndex
           es == r.entries
           R == Reach(r)
<1>1. /\ p \in Nat /\ es \in Seq(Entry) /\ Len(es) \in Nat /\ la \in Seq(Entry)
      /\ R = p + Len(es)
  BY LogAfterType DEF AppendRequest, Reach
<1>2. /\ p <= Len(l) /\ (p >= 1 => l[p].term = r.prevLogTerm)
      /\ \/ la = l /\ Covers(l, r)
         \/ \E m \in Nat : Replaced(l, r, la, m)
  BY LogAfterFacts
<1>3. /\ R <= Len(g)
      /\ p >= 1 => g[p].term = r.prevLogTerm
      /\ \A i \in (p + 1)..R : es[i - p] = g[i]
  BY DEF SliceOf
<1> HIDE DEF la, p, es, R
<1>4. ASSUME NEW m \in Nat, p <= m, m <= Len(l), m <= R,
             \A i \in (p + 1)..m : l[i].term = es[i - p].term
      PROVE  \A i \in 1..m : l[i] = g[i]
  <2>1. CASE m = 0
    BY <2>1
  <2>2. CASE m # 0
    <3>0. Len(l) \in Nat /\ Len(g) \in Nat
      OBVIOUS
    <3>1. m \in 1..Min2(Len(l), Len(g))
      BY <1>1, <1>3, <1>4, <2>2 DEF Min2
    <3>2. l[m].term = g[m].term
      <4>1. CASE m = p
        BY <1>1, <1>2, <1>3, <2>2, <4>1
      <4>2. CASE m # p
        <5>1. m \in (p + 1)..m /\ m \in (p + 1)..R
          BY <1>1, <1>4, <4>2
        <5> QED BY <1>3, <1>4, <5>1
      <4> QED BY <4>1, <4>2
    <3> QED BY <3>1, <3>2 DEF Agree
  <2> QED BY <2>1, <2>2
<1>5. CASE la = l /\ Covers(l, r)
  <2>1. R <= Len(l) /\ \A i \in (p + 1)..R : l[i].term = es[i - p].term
    BY <1>5 DEF Covers, p, es, R
  <2>2. R \in Nat /\ p <= R /\ R <= R
    BY <1>1
  <2>3. \A i \in 1..R : l[i] = g[i]
    BY <1>4, <2>1, <2>2
  <2> QED BY <1>1, <1>3, <1>5, <2>1, <2>2, <2>3 DEF Same, R, la
<1>6. ASSUME NEW m \in Nat, Replaced(l, r, la, m) PROVE Same(la, g, R)
  <2>1. /\ p <= m /\ m <= Len(l) /\ m < R /\ Len(la) = R
        /\ \A i \in 1..m : la[i] = l[i]
        /\ \A i \in (m + 1)..Len(la) : la[i] = es[i - p]
        /\ \A i \in (p + 1)..m : l[i].term = es[i - p].term
    BY <1>6 DEF Replaced, p, es, R
  <2>0. p <= m /\ m <= Len(l) /\ m <= R /\ \A i \in (p + 1)..m : l[i].term = es[i - p].term
    BY <1>1, <2>1
  <2>2. \A i \in 1..m : l[i] = g[i]
    BY <1>4, <2>0
  <2>3. \A i \in 1..m : la[i] = g[i]
    BY <2>1, <2>2
  <2>4. \A i \in (m + 1)..R : la[i] = g[i]
    BY <1>1, <1>3, <2>1
  <2>5. \A i \in 1..R : i \in 1..m \/ i \in (m + 1)..R
    BY <1>1
  <2> QED BY <1>1, <1>3, <2>1, <2>3, <2>4, <2>5 DEF Same
<1> QED BY <1>2, <1>5, <1>6 DEF la, R

\* A log keeps what it has of the leader's log.
LEMMA LogAfterKeeps ==
  ASSUME NEW l \in Seq(Entry), NEW r \in AppendRequest, FormedRequest(r),
         NEW g \in Seq(Entry), SliceOf(r, g), NEW i \in Nat, Same(l, g, i)
  PROVE  Same(LogAfter(l, r), g, i)
<1> DEFINE la == LogAfter(l, r)
           p == r.prevLogIndex
           es == r.entries
           R == Reach(r)
<1>1. /\ p \in Nat /\ es \in Seq(Entry) /\ Len(es) \in Nat /\ la \in Seq(Entry)
      /\ R = p + Len(es) /\ Len(l) \in Nat /\ Len(g) \in Nat
  BY LogAfterType DEF AppendRequest, Reach
<1>2. /\ R <= Len(g)
      /\ p >= 1 => g[p].term = r.prevLogTerm
      /\ \A k \in (p + 1)..R : es[k - p] = g[k]
  BY DEF SliceOf
<1>3. i <= Len(l) /\ i <= Len(g) /\ \A k \in 1..i : l[k] = g[k]
  BY DEF Same
<1>4. CASE PrevConflict(l, r)
  <2>1. p \in 1..Len(l) /\ l[p].term # r.prevLogTerm /\ la = Truncate(l, p - 1)
    BY <1>4 DEF PrevConflict, LogAfter
  <2> HIDE DEF la, p, es, R
  <2>2. i <= p - 1 /\ p - 1 \in Nat /\ p - 1 <= Len(l)
    BY <1>1, <1>2, <1>3, <2>1
  <2>3. Begins(la, l) /\ Len(la) = p - 1
    BY <2>1, <2>2, TruncateBegins DEF Min2
  <2> QED BY <1>1, <1>3, <2>2, <2>3 DEF Same, Begins, la
<1>5. CASE ~PrevConflict(l, r) /\ ~AppendOk(l, r)
  BY <1>5 DEF LogAfter
<1>6. CASE AppendOk(l, r)
  <2>1. CASE la = l
    BY <2>1
  <2>2. ASSUME NEW m \in Nat, Replaced(l, r, la, m) PROVE Same(la, g, i)
    <3>1. /\ p <= m /\ m <= Len(l) /\ m < R /\ Len(la) = R
          /\ \A k \in 1..m : la[k] = l[k]
          /\ m < Len(l) => l[m + 1].term # es[m + 1 - p].term
      BY <2>2 DEF Replaced
    <3> HIDE DEF la, p, es, R
    <3>2. i <= m
      <4> SUFFICES ASSUME i > m PROVE FALSE
        BY <1>1, <3>1
      <4>1. m + 1 \in 1..i /\ m + 1 \in (p + 1)..R /\ m < Len(l)
        BY <1>1, <1>3, <3>1
      <4>3. l[m + 1] = g[m + 1]
        BY <1>3, <4>1
      <4>4. es[m + 1 - p] = g[m + 1]
        <5> DEFINE k == m + 1
        <5>1. k \in (p + 1)..R /\ k = m + 1 /\ k - p = m + 1 - p
          BY <1>1, <4>1
        <5> HIDE DEF k
        <5>2. es[k - p] = g[k]
          BY <1>2, <5>1
        <5> QED BY <5>1, <5>2
      <4>2. l[m + 1] = g[m + 1] /\ es[m + 1 - p] = g[m + 1]
        BY <4>3, <4>4
      <4> QED BY <3>1, <4>1, <4>2
    <3>3. \A k \in 1..i : la[k] = g[k]
      BY <1>1, <1>3, <3>1, <3>2
    <3>4. i <= Len(la)
      BY <1>1, <3>1, <3>2
    <3> QED BY <1>3, <3>3, <3>4 DEF Same
  <2> QED BY <1>6, <2>1, <2>2, LogAfterFacts
<1> QED BY <1>4, <1>5, <1>6

\* After an accepted request that leaves no foreign tail on the log of its
\* leader, the log begins the leader's.
LEMMA WholeLog ==
  ASSUME NEW l \in Seq(Entry), NEW r \in AppendRequest, FormedRequest(r),
         NEW g \in Seq(Entry), SliceOf(r, g), Agree(l, g), AppendOk(l, r),
         \A i \in (Reach(r) + 1)..Len(LogAfter(l, r)) : i <= Len(g) /\ LogAfter(l, r)[i] = g[i]
  PROVE  Begins(LogAfter(l, r), g)
<1> DEFINE la == LogAfter(l, r)
           R == Reach(r)
<1>1. la \in Seq(Entry) /\ R \in Nat
  BY LogAfterType DEF AppendRequest, Reach
<1>2. Same(la, g, R)
  BY FirstReach
<1>3. \A i \in (R + 1)..Len(la) : i <= Len(g) /\ la[i] = g[i]
  OBVIOUS
<1> HIDE DEF la, R
<1>4. Len(la) \in Nat /\ Len(g) \in Nat
  BY <1>1
<1>5. ASSUME NEW i \in 1..Len(la) PROVE i <= Len(g) /\ la[i] = g[i]
  <2>1. CASE i <= R
    <3>1. i \in 1..R
      BY <1>1, <2>1
    <3> QED BY <1>1, <1>2, <1>4, <3>1 DEF Same
  <2>2. CASE i > R
    <3>1. i \in (R + 1)..Len(la)
      BY <1>1, <1>4, <2>2
    <3> QED BY <1>3, <3>1
  <2> QED BY <1>1, <2>1, <2>2
<1>6. Len(la) <= Len(g)
  <2>1. CASE Len(la) = 0
    BY <1>4, <2>1
  <2>2. CASE Len(la) # 0
    BY <1>4, <1>5, <2>2
  <2> QED BY <2>1, <2>2
<1> QED BY <1>5, <1>6 DEF Begins, la

\* A node that handles a request of term u has kept in its log what it had
\* acknowledged, or the leader of u lost it.
LEMMA TakeKept ==
  ASSUME NEW h, LedgerOK(h), NEW q \in Node, NEW l \in Seq(Entry),
         NEW r \in AppendRequest, FormedRequest(r), NEW w \in Nat, w <= r.term,
         r.term \in h.terms, SliceOf(r, h.full[r.term]), AcksKept(q, l, w + 1, h),
         \A t, i \in Nat : <<q, t, i>> \in h.acks => t <= w
  PROVE  AcksKept(q, LogAfter(l, r), r.term + 1, h)
<1> DEFINE la == LogAfter(l, r)
           u == r.term
<1>1. h \in Ledger /\ u \in Nat /\ u \in h.terms /\ la \in Seq(Entry)
  BY LogAfterType DEF LedgerOK, AppendRequest
<1>2. SliceOf(r, h.full[u]) /\ w <= u /\ r \in AppendRequest /\ FormedRequest(r)
  OBVIOUS
<1> HIDE DEF u
<1> SUFFICES ASSUME NEW t \in h.terms, NEW i \in Own(t, h), <<q, t, i>> \in h.acks, t < u + 1
             PROVE  Same(la, h.full[t], i) \/ Lost(t, i, u + 1, h)
  BY DEF AcksKept, u
<1>3. /\ t \in Nat /\ h.full[t] \in Seq(Entry) /\ h.full[u] \in Seq(Entry)
      /\ h.base[t] \in Seq(Entry) /\ Len(h.base[t]) \in Nat /\ Len(h.full[t]) \in Nat
      /\ h.base[u] \in Seq(Entry)
  BY <1>1, LedgerType DEF Ledger
<1>4. i \in Nat /\ i <= Len(h.full[t])
  BY <1>3 DEF Own
<1>5. t <= w
  BY <1>3, <1>4
<1>6. Same(l, h.full[t], i) \/ Lost(t, i, w + 1, h)
  BY <1>3, <1>5 DEF AcksKept
<1>7. CASE Lost(t, i, w + 1, h)
  <2>1. PICK v \in h.terms : t < v /\ v < w + 1 /\ ~Same(h.base[v], h.full[t], i)
    BY <1>7 DEF Lost
  <2>2. v \in Nat /\ v < u + 1
    BY <1>1, <1>2, <2>1 DEF Ledger
  <2> QED BY <2>1, <2>2 DEF Lost
<1>8. CASE Same(l, h.full[t], i)
  <2>1. CASE t = u
    <3>1. Same(la, h.full[u], i)
      BY <1>2, <1>3, <1>4, <1>8, <2>1, LogAfterKeeps
    <3> QED BY <2>1, <3>1
  <2>2. CASE t # u /\ Same(h.base[u], h.full[t], i)
    <3>1. Begins(h.base[u], h.full[u])
      BY <1>1 DEF LedgerOK, Tenure
    <3>2. Same(h.full[t], h.full[u], i)
      BY <1>3, <1>4, <2>2, <3>1, SameFacts
    <3>3. Same(l, h.full[u], i)
      BY <1>3, <1>4, <1>8, <3>2, SameFacts
    <3>4. Same(la, h.full[u], i)
      BY <1>2, <1>3, <1>4, <3>3, LogAfterKeeps
    <3>5. Same(h.full[u], h.full[t], i)
      BY <1>3, <1>4, <3>2, SameFacts
    <3> HIDE DEF la
    <3> QED BY <1>1, <1>3, <1>4, <3>4, <3>5, SameFacts
  <2>3. CASE t # u /\ ~Same(h.base[u], h.full[t], i)
    <3>1. t < u /\ u < u + 1
      BY <1>1, <1>2, <1>3, <1>5, <2>3
    <3> QED BY <1>1, <2>3, <3>1 DEF Lost
  <2> QED BY <2>1, <2>2, <2>3
<1> QED BY <1>6, <1>7, <1>8

\* What was settled on a log stays settled on the log handle_append leaves.
LEMMA TakeSettled ==
  ASSUME NEW h, LedgerOK(h), NEW l \in Seq(Entry),
         NEW r \in AppendRequest, FormedRequest(r), r.term \in h.terms,
         SliceOf(r, h.full[r.term]), NEW w \in Nat, w <= r.term,
         NEW c \in Nat, Settled(l, c, w, h)
  PROVE  Settled(LogAfter(l, r), c, r.term, h)
<1> DEFINE la == LogAfter(l, r)
           u == r.term
<1>1. CASE c = 0
  BY <1>1 DEF Settled
<1>2. CASE c # 0
  <2>1. PICK t \in h.terms, i \in Nat :
           t <= w /\ Chosen(t, i, h) /\ c <= i /\ Same(l, h.full[t], c)
    BY <1>2 DEF Settled
  <2>2. h \in Ledger /\ h.terms \in SUBSET Nat /\ u \in Nat /\ t \in Nat
    BY DEF LedgerOK, Ledger, AppendRequest
  <2>a. h.full[t] \in Seq(Entry) /\ h.full[u] \in Seq(Entry)
    BY <2>2, LedgerType
  <2>b. t <= u
    BY <2>1, <2>2
  <2>c. la \in Seq(Entry)
    BY LogAfterType
  <2>3. /\ h.full[t] \in Seq(Entry) /\ h.full[u] \in Seq(Entry) /\ t <= u
        /\ la \in Seq(Entry)
    BY <2>a, <2>b, <2>c
  <2>4. Same(h.full[u], h.full[t], i)
    BY <2>1, <2>3, ChosenInFull
  <2>5. Same(h.full[u], h.full[t], c) /\ Same(h.full[t], h.full[u], c)
    BY <2>1, <2>3, <2>4, SameFacts
  <2>6. Same(l, h.full[u], c)
    BY <2>1, <2>3, <2>5, SameFacts
  <2>7. Same(la, h.full[u], c)
    BY <2>3, <2>6, LogAfterKeeps
  <2>8. Same(la, h.full[t], c)
    <3> HIDE DEF la, u
    <3> QED BY <2>3, <2>5, <2>7, SameFacts
  <2> QED BY <2>1, <2>3, <2>8 DEF Settled
<1> QED BY <1>1, <1>2

\* What a request lets its receiver commit is settled on the log it leaves,
\* when the sender has committed as much and the log has no foreign tail on
\* the sender's.
LEMMA TakeCommits ==
  ASSUME NEW h, LedgerOK(h), NEW l \in Seq(Entry), Backed(l, h),
         NEW r \in AppendRequest, FormedRequest(r), r.term \in h.terms,
         SliceOf(r, h.full[r.term]), AppendOk(l, r),
         Settled(h.full[r.term], r.leaderCommit, r.term, h),
         NEW m \in Seq(Entry), NEW c \in Nat, r.leaderCommit <= c,
         NEW w \in Nat, Settled(m, c, w, h),
         \A i \in (Reach(r) + 1)..Len(LogAfter(l, r)) : i <= Len(m) /\ LogAfter(l, r)[i] = m[i]
  PROVE  Settled(LogAfter(l, r), Min2(r.leaderCommit, Len(LogAfter(l, r))), r.term, h)
<1> DEFINE la == LogAfter(l, r)
           u == r.term
           R == Reach(r)
           f == h.full[u]
           e == r.leaderCommit
           d == Min2(e, Len(la))
<1>1. /\ h \in Ledger /\ u \in Nat /\ u \in h.terms /\ la \in Seq(Entry) /\ R \in Nat
      /\ e \in Nat
  <2>1. h \in Ledger
    BY DEF LedgerOK
  <2>2. u \in Nat /\ R \in Nat /\ e \in Nat
    BY DEF AppendRequest, Reach
  <2>3. la \in Seq(Entry)
    BY LogAfterType
  <2> QED BY <2>1, <2>2, <2>3
<1>2. f \in Seq(Entry) /\ Backed(f, h)
  BY <1>1, LedgerType DEF LedgerOK, Tenure
<1>3. Agree(l, f)
  BY <1>1, <1>2, BackedAgree
<1>4. Same(la, f, R)
  BY <1>2, <1>3, FirstReach
<1>5. Settled(f, e, u, h) /\ e <= c
  OBVIOUS
<1>6. \A i \in (R + 1)..Len(la) : i <= Len(m) /\ la[i] = m[i]
  OBVIOUS
<1>7. Same(m, f, e)
  <2> HIDE DEF f, e, u
  <2> QED BY <1>1, <1>2, <1>5, SettledSame
<1>8. Settled(la, d, u, h)
  <2> HIDE DEF la, u, R, f, e
  <2>1. d \in Nat /\ d <= e /\ d <= Len(la) /\ Len(la) \in Nat
    BY <1>1 DEF Min2
  <2>2. ASSUME NEW i \in 1..d PROVE la[i] = f[i]
    <3>1. CASE i <= R
      <4>1. i \in 1..R
        BY <1>1, <2>1, <3>1
      <4> QED BY <1>4, <4>1 DEF Same
    <3>2. CASE i > R
      <4>1. i \in (R + 1)..Len(la) /\ i \in 1..e
        BY <1>1, <2>1, <3>2
      <4> QED BY <1>6, <1>7, <4>1 DEF Same
    <3> QED BY <1>1, <2>1, <3>1, <3>2
  <2>3. Same(la, f, d)
    <3>1. d <= Len(f)
      BY <1>1, <1>2, <1>7, <2>1 DEF Same
    <3> QED BY <2>1, <2>2, <3>1 DEF Same
  <2>4. CASE e = 0
    BY <1>1, <2>1, <2>4 DEF Settled
  <2>5. CASE e # 0
    <3>1. PICK t \in h.terms, i \in Nat :
             t <= u /\ Chosen(t, i, h) /\ e <= i /\ Same(f, h.full[t], e)
      BY <1>5, <2>5 DEF Settled
    <3>2. h.full[t] \in Seq(Entry)
      BY <1>1, LedgerType DEF Ledger
    <3>3. Same(f, h.full[t], d)
      BY <1>1, <1>2, <2>1, <3>1, <3>2, SameFacts
    <3>4. Same(la, h.full[t], d) /\ d <= i
      BY <1>1, <1>2, <2>1, <2>3, <3>1, <3>2, <3>3, SameFacts
    <3> QED BY <3>1, <3>4 DEF Settled
  <2> QED BY <2>4, <2>5
<1> QED BY <1>8

-----------------------------------------------------------------------------
(* Smaller facts of ledgers. *)

\* A ledger is later than itself.
LEMMA LaterSelf ==
  ASSUME NEW h \in Ledger
  PROVE  Later(h, h)
<1>1. ASSUME NEW t \in h.terms PROVE Begins(h.full[t], h.full[t])
  BY DEF Begins
<1> QED BY <1>1 DEF Later

\* A log that goes on after another has what the other had.
LEMMA BeginsKeeps ==
  ASSUME NEW h, h \in Ledger, NEW a \in Seq(Entry), NEW b \in Seq(Entry), Begins(a, b)
  PROVE  /\ \A q, u : AcksKept(q, a, u, h) => AcksKept(q, b, u, h)
         /\ \A c, u \in Nat : Settled(a, c, u, h) => Settled(b, c, u, h)
<1>1. ASSUME NEW t \in h.terms, NEW i \in Nat, Same(a, h.full[t], i)
      PROVE  Same(b, h.full[t], i)
  <2>1. h.full[t] \in Seq(Entry)
    BY LedgerType DEF Ledger
  <2> QED BY <1>1, <2>1 DEF Same, Begins
<1>2. ASSUME NEW q, NEW u, AcksKept(q, a, u, h) PROVE AcksKept(q, b, u, h)
  <2>1. ASSUME NEW t \in h.terms, NEW i \in Own(t, h) PROVE i \in Nat
    <3>1. t \in Nat
      BY DEF Ledger
    <3>2. Len(h.base[t]) \in Nat /\ Len(h.full[t]) \in Nat
      BY <3>1, LedgerType
    <3> QED BY <3>2 DEF Own
  <2> QED BY <1>1, <1>2, <2>1 DEF AcksKept
<1>3. ASSUME NEW c \in Nat, NEW u \in Nat, Settled(a, c, u, h) PROVE Settled(b, c, u, h)
  BY <1>1, <1>3 DEF Settled
<1> QED BY <1>2, <1>3

\* The terms of a well-formed log ascend.
LEMMA FormedAscends ==
  ASSUME NEW l \in Seq(Entry), NEW w \in Nat, FormedLog(l, w),
         NEW i \in 1..Len(l), NEW j \in 1..Len(l), i <= j
  PROVE  l[i].term <= l[j].term
<1> DEFINE Down == {k \in 1..Len(l) : i <= k /\ l[k].term < l[i].term}
<1>1. SUFFICES ASSUME Down # {} PROVE FALSE
  <2>1. j \notin Down /\ l[j].term \in Nat /\ l[i].term \in Nat
    BY <1>1, EntryTerm
  <2> QED BY <2>1
<1>2. Down \in SUBSET Nat
  OBVIOUS
<1>3. PICK k \in Down : \A m \in Down : k <= m
  BY <1>1, <1>2, LeastNatural
<1>4. k \in 1..Len(l) /\ i <= k /\ l[k].term < l[i].term /\ k # i
  BY <1>3, EntryTerm
<1>5. k - 1 \in 1..Len(l) /\ i <= k - 1 /\ k > 1
  BY <1>4
<1>6. l[k - 1].term <= l[k].term
  BY <1>4, <1>5 DEF FormedLog
<1>7. l[k - 1].term \in Nat /\ l[k].term \in Nat /\ l[i].term \in Nat
  BY <1>4, <1>5, EntryTerm
<1>8. k - 1 \in Down
  BY <1>4, <1>5, <1>6, <1>7
<1>9. k <= k - 1
  BY <1>3, <1>8
<1> QED BY <1>4, <1>9

\* The voter that finds a candidate's log as good as its own gives its vote
\* to a log that has what it acknowledged, or that a leader lost it from.
LEMMA VoteKept ==
  ASSUME NEW h, LedgerOK(h), NEW q \in Node, NEW l \in Seq(Entry), NEW c \in Seq(Entry),
         Backed(l, h), Backed(c, h), NEW w \in Nat, NEW u \in Nat, w <= u, u \notin h.terms,
         FormedLog(l, w), FormedLog(c, u),
         AcksKept(q, l, w + 1, h),
         \A t, i \in Nat : <<q, t, i>> \in h.acks => t <= w,
         \/ l = << >>
         \/ LastTerm(c) > LastTerm(l)
         \/ LastTerm(c) = LastTerm(l) /\ LastIndex(c) >= LastIndex(l)
  PROVE  AcksKept(q, c, u, h)
<1> SUFFICES ASSUME NEW t \in h.terms, NEW i \in Own(t, h), <<q, t, i>> \in h.acks, t < u
             PROVE  Same(c, h.full[t], i) \/ Lost(t, i, u, h)
  BY DEF AcksKept
<1>1. h \in Ledger /\ t \in Nat /\ h.terms \in SUBSET Nat
  BY DEF LedgerOK, Ledger
<1>2. /\ h.full[t] \in Seq(Entry) /\ Len(h.full[t]) \in Nat /\ Len(h.base[t]) \in Nat
      /\ Len(l) \in Nat /\ Len(c) \in Nat
  <2>1. /\ h.full[t] \in Seq(Entry) /\ Len(h.full[t]) \in Nat
        /\ Len(h.base[t]) \in Nat
    BY <1>1, LedgerType
  <2>2. Len(l) \in Nat /\ Len(c) \in Nat
    OBVIOUS
  <2> QED BY <2>1, <2>2
<1>3. i \in Nat /\ i >= 1 /\ i <= Len(h.full[t]) /\ i > Len(h.base[t])
  BY <1>2 DEF Own
<1>4. t <= w
  BY <1>1, <1>3
<1>5. Same(l, h.full[t], i) \/ Lost(t, i, w + 1, h)
  BY <1>1, <1>4 DEF AcksKept
<1>6. CASE Lost(t, i, w + 1, h)
  <2>1. PICK v \in h.terms : t < v /\ v < w + 1 /\ ~Same(h.base[v], h.full[t], i)
    BY <1>6 DEF Lost
  <2>2. v \in Nat /\ v < u
    BY <1>1, <2>1
  <2> QED BY <2>1, <2>2 DEF Lost
<1>7. CASE Same(l, h.full[t], i)
  <2>1. i <= Len(l) /\ l # << >> /\ l[i].term = t
    <3>a. \A k \in 1..Len(h.full[t]) :
            IF k <= Len(h.base[t]) THEN h.full[t][k].term < t ELSE h.full[t][k].term = t
      <4>1. Tenure(t, h)
        BY DEF LedgerOK
      <4> QED BY <4>1 DEF Tenure
    <3>b. i \in 1..Len(h.full[t]) /\ ~(i <= Len(h.base[t]))
      BY <1>2, <1>3
    <3>1. h.full[t][i].term = t
      BY <3>a, <3>b
    <3>2. i \in 1..i
      BY <1>3
    <3> QED BY <1>2, <1>3, <1>7, <3>1, <3>2 DEF Same
  <2>2. LastIndex(l) = Len(l) /\ LastTerm(l) = l[Len(l)].term /\ LastTerm(l) \in Nat
    <3>1. Len(l) \in 1..Len(l)
      BY <1>2, <1>3, <2>1
    <3> QED BY <2>1, <3>1, EntryTerm DEF LastIndex, LastTerm, FormedLog
  <2>3. LastTerm(l) >= t
    <3>1. i \in 1..Len(l) /\ Len(l) \in 1..Len(l) /\ i <= Len(l)
      BY <1>2, <1>3, <2>1
    <3>2. l[i].term <= l[Len(l)].term
      BY <3>1, FormedAscends
    <3> QED BY <1>1, <2>1, <2>2, <3>2
  <2>4. c # << >>
    BY <1>1, <1>2, <1>3, <2>1, <2>2, <2>3 DEF LastIndex, LastTerm
  <2> DEFINE k == Len(c)
             s == c[k].term
  <2>5. k \in 1..k /\ k \in Nat /\ s \in Nat
    BY <1>2, <2>4, EntryTerm
  <2>6. LastIndex(c) = k /\ LastTerm(c) = s /\ s <= u
    BY <2>4, <2>5 DEF LastIndex, LastTerm, FormedLog
  <2>7. s \in h.terms /\ Same(c, h.full[s], k) /\ h.full[s] \in Seq(Entry)
    BY <1>1, <2>5, LedgerType DEF Backed
  <2>8. CASE s = LastTerm(l) /\ k >= Len(l)
    <3>1. l[Len(l)].term = s /\ Len(l) \in 1..Len(l) /\ Len(l) <= k
      BY <1>2, <1>3, <2>1, <2>2, <2>8
    <3>2. Same(l, h.full[s], Len(l))
      BY <3>1 DEF Backed
    <3>3. Same(c, l, Len(l))
      <4> HIDE DEF s, k
      <4>1. Same(c, h.full[s], Len(l)) /\ Same(h.full[s], l, Len(l))
        BY <1>2, <2>5, <2>7, <3>1, <3>2, SameFacts
      <4> QED BY <1>2, <2>7, <4>1, SameFacts
    <3>4. Same(c, h.full[t], i)
      BY <1>2, <1>3, <1>7, <2>1, <3>3, SameFacts
    <3> QED BY <3>4
  <2>9. CASE s > LastTerm(l)
    <3>1. t < s /\ s < u
      BY <1>1, <2>2, <2>3, <2>5, <2>6, <2>7, <2>9
    <3>2. CASE ~Same(h.base[s], h.full[t], i)
      BY <2>7, <3>1, <3>2 DEF Lost
    <3>3. CASE Same(h.base[s], h.full[t], i)
      <4> HIDE DEF s, k
      <4>1. h.base[s] \in Seq(Entry) /\ Len(h.base[s]) \in Nat /\ Begins(h.base[s], h.full[s])
        BY <1>1, <2>5, <2>7, LedgerType DEF LedgerOK, Tenure
      <4>2. Same(h.full[t], h.full[s], i) /\ i <= Len(h.base[s])
        <5>1. Same(h.full[t], h.base[s], i)
          BY <1>2, <1>3, <3>3, <4>1, SameFacts
        <5>2. Same(h.full[t], h.full[s], i)
          BY <1>2, <1>3, <2>7, <4>1, <5>1, SameFacts
        <5> QED BY <3>3, <5>2 DEF Same
      <4>3. k > Len(h.base[s])
        <5>1. h.full[s][k].term = s /\ k <= Len(h.full[s])
          BY <2>5, <2>7 DEF Same, s
        <5>2. k \in 1..Len(h.full[s])
          BY <2>5, <2>7, <5>1
        <5>3. k <= Len(h.base[s]) => h.full[s][k].term < s
          BY <2>7, <5>2 DEF LedgerOK, Tenure
        <5> QED BY <2>5, <4>1, <5>1, <5>3
      <4>4. Same(c, h.full[s], i) /\ Same(h.full[s], h.full[t], i)
        <5>1. i <= k
          BY <1>3, <2>5, <4>1, <4>2, <4>3
        <5>2. Same(c, h.full[s], i)
          BY <1>3, <2>5, <2>7, <5>1, SameFacts
        <5>3. Same(h.full[s], h.full[t], i)
          BY <1>2, <1>3, <2>7, <4>2, SameFacts
        <5> QED BY <5>2, <5>3
      <4> QED BY <1>2, <1>3, <2>7, <4>4, SameFacts
    <3> QED BY <3>2, <3>3
  <2> QED BY <2>1, <2>2, <2>6, <2>8, <2>9
<1> QED BY <1>5, <1>6, <1>7

-----------------------------------------------------------------------------
(* The ledger and the state. *)

\* Every leadership in the ledger was held.  Every log comes from leaders, a
\* leader's log is the one of its term, and append requests are slices of it.
LedgerLogs(h) ==
  /\ \A t \in h.terms : \E n \in Node : <<n, t>> \in led
  /\ \A n \in Node : Backed(log[n], h)
  /\ \A n \in Node : role[n] = "leader" => term[n] \in h.terms /\ log[n] = h.full[term[n]]
  /\ \A c \in calls \cup late : c.req.kind = "append" =>
        c.req.term \in h.terms /\ SliceOf(c.req, h.full[c.req.term])

\* Nodes have reached the terms they voted and acknowledged in, and have kept
\* what they acknowledged.
LedgerAcks(h) ==
  /\ \A t \in h.terms : \A q \in h.voters[t] : t <= term[q]
  /\ \A p \in Node : \A t, i \in Nat : <<p, t, i>> \in h.acks => t <= term[p]
  /\ \A p \in Node : AcksKept(p, log[p], term[p] + 1, h)

\* The nodes whose votes in m's round were counted or are on their way.
Counted(m) ==
  ballots[m] \cup {p \in Node : \E a \in replies : /\ a.req.kind = "vote" /\ a.resp.ok
                                                   /\ a.req.from = m /\ a.to = p}

\* Node m may still win its round, in a term that has no leader.
Candidate(m, h) == electing[m] /\ term[m] = round[m].term /\ term[m] \notin h.terms

\* Node q has reached m's term, and m's log has what q acknowledged before.
Elector(q, m, h) == term[m] <= term[q] /\ AcksKept(q, log[m], term[m], h)

\* A candidate asks for votes with the log it has, which has what its voters
\* acknowledged.
LedgerVotes(h) ==
  \A m \in Node : Candidate(m, h) =>
     /\ round[m].lastLogIndex = LastIndex(log[m])
     /\ round[m].lastLogTerm = LastTerm(log[m])
     /\ \A q \in Counted(m) : Elector(q, m, h)

\* What a leader counts as acknowledged was, in its term.
LedgerMatches(h) ==
  /\ \A n \in Node : role[n] = "leader" =>
        /\ \A i \in 1..Len(log[n]) : <<n, term[n], i>> \in h.acks
        /\ \A p \in Peers(n) : \A i \in 1..matchIndex[n][p] : <<p, term[n], i>> \in h.acks
  /\ \A a \in replies : a.req.kind = "append" /\ role[a.req.from] = "leader" /\ a.resp.ok =>
        \A i \in 1..a.resp.match : <<a.to, term[a.req.from], i>> \in h.acks
  /\ \A c \in calls : c.req.kind = "append" /\ role[c.req.from] = "leader" =>
        c.req.term = term[c.req.from]

\* What nodes have committed, and tell others to, is settled.
LedgerCommits(h) ==
  /\ \A n \in Node : Settled(log[n], commitIndex[n], term[n], h)
  /\ \A c \in calls \cup late : c.req.kind = "append" =>
        /\ Settled(h.full[c.req.term], c.req.leaderCommit, c.req.term, h)
        /\ c.req.leaderCommit <= commitIndex[c.req.from]

LedgerState(h) ==
  LedgerLogs(h) /\ LedgerAcks(h) /\ LedgerVotes(h) /\ LedgerMatches(h) /\ LedgerCommits(h)

\* The types the steps need.
LEMMA CommitTypes ==
  ASSUME TypeOK
  PROVE  /\ term \in [Node -> Nat] /\ role \in [Node -> Role] /\ log \in [Node -> Seq(Entry)]
         /\ commitIndex \in [Node -> Nat] /\ matchIndex \in [Node -> [Node -> Nat]]
         /\ ballots \in [Node -> SUBSET Node] /\ round \in [Node -> VoteRequest]
         /\ electing \in [Node -> BOOLEAN]
         /\ \A n \in Node : /\ term[n] \in Nat /\ log[n] \in Seq(Entry) /\ Len(log[n]) \in Nat
                            /\ commitIndex[n] \in Nat
         /\ \A c \in calls \cup late : c.to \in Node /\ c.req.from \in Node /\
               (c.req.kind = "append" => c.req \in AppendRequest /\ c.req.term \in Nat
                                           /\ c.req.leaderCommit \in Nat)
         /\ \A a \in replies : a.req.from \in Node /\ a.to \in Node /\ a.resp.match \in Nat
<1>1. ASSUME NEW c \in calls \cup late
      PROVE  /\ c.to \in Node /\ c.req.from \in Node
             /\ c.req.kind = "append" => /\ c.req \in AppendRequest /\ c.req.term \in Nat
                                         /\ c.req.leaderCommit \in Nat
  <2>1. c.to \in Node /\ c.req \in VoteRequest \cup AppendRequest
    BY DEF TypeOK, Call
  <2>2. CASE c.req \in VoteRequest
    BY <2>1, <2>2 DEF VoteRequest
  <2>3. CASE c.req \in AppendRequest
    BY <2>1, <2>3 DEF AppendRequest
  <2> QED BY <2>1, <2>2, <2>3
<1>2. \A a \in replies : a.req.from \in Node /\ a.to \in Node /\ a.resp.match \in Nat
  BY TrafficType
<1>3. /\ term \in [Node -> Nat] /\ role \in [Node -> Role] /\ log \in [Node -> Seq(Entry)]
      /\ commitIndex \in [Node -> Nat] /\ matchIndex \in [Node -> [Node -> Nat]]
      /\ ballots \in [Node -> SUBSET Node] /\ round \in [Node -> VoteRequest]
      /\ electing \in [Node -> BOOLEAN]
  BY DEF TypeOK
<1>4. \A n \in Node : /\ term[n] \in Nat /\ log[n] \in Seq(Entry) /\ Len(log[n]) \in Nat
                      /\ commitIndex[n] \in Nat
  BY <1>3
<1> QED BY <1>1, <1>2, <1>3, <1>4

-----------------------------------------------------------------------------
(* What a step must do for the ledger after it to fit the state. *)

\* Whoever acknowledges something in the step does so in the term it then has,
\* and has it in its log.
NewAcks(h, g) ==
  \A p \in Node : \A t, i \in Nat : <<p, t, i>> \in g.acks =>
     <<p, t, i>> \in h.acks \/ (t = term'[p] /\ Same(log'[p], g.full[t], i))

\* Logs, leaders and requests still fit when each that changed does.
LEMMA LogsPart ==
  ASSUME NEW h, NEW g, Later(h, g), TypeOK, LedgerLogs(h), led \subseteq led',
         \A t \in g.terms : t \in h.terms \/ \E n \in Node : <<n, t>> \in led',
         \A n \in Node : log'[n] = log[n] \/ Backed(log'[n], g),
         \A n \in Node : role'[n] = "leader" =>
            \/ /\ role[n] = "leader" /\ term'[n] = term[n] /\ log'[n] = log[n]
               /\ g.full[term[n]] = h.full[term[n]]
            \/ term'[n] \in g.terms /\ log'[n] = g.full[term'[n]],
         \A c \in calls' \cup late' : c.req.kind = "append" =>
            \/ c \in calls \cup late
            \/ c.req.term \in g.terms /\ SliceOf(c.req, g.full[c.req.term])
  PROVE  LedgerLogs(g)'
<1>1. h \in Ledger /\ g \in Ledger /\ h.terms \subseteq g.terms
  BY DEF Later
<1>2. ASSUME NEW t \in g.terms PROVE \E n \in Node : <<n, t>> \in led'
  BY DEF LedgerLogs
<1>3. ASSUME NEW n \in Node PROVE Backed(log'[n], g)
  <2>1. log[n] \in Seq(Entry) /\ Backed(log[n], h)
    BY CommitTypes DEF LedgerLogs
  <2>2. Backed(log[n], g)
    BY <2>1, LaterBacked
  <2> QED BY <2>2
<1>4. ASSUME NEW n \in Node, role'[n] = "leader"
      PROVE  term'[n] \in g.terms /\ log'[n] = g.full[term'[n]]
  BY <1>1, <1>4 DEF LedgerLogs
<1>5. ASSUME NEW c \in calls' \cup late', c.req.kind = "append"
      PROVE  c.req.term \in g.terms /\ SliceOf(c.req, g.full[c.req.term])
  <2>1. CASE c \in calls \cup late
    <3> DEFINE t == c.req.term
    <3>1. t \in h.terms /\ SliceOf(c.req, h.full[t]) /\ t \in Nat /\ c.req \in AppendRequest
      BY <1>5, <2>1, CommitTypes DEF LedgerLogs
    <3>2. /\ h.full[t] \in Seq(Entry) /\ g.full[t] \in Seq(Entry) /\ t \in g.terms
          /\ Begins(h.full[t], g.full[t])
      BY <1>1, <3>1, LedgerType DEF Later
    <3> QED BY <3>1, <3>2, SliceOfWhole
  <2> QED BY <1>5, <2>1
<1> QED BY <1>2, <1>3, <1>4, <1>5 DEF LedgerLogs

\* What was acknowledged is kept when each log that changed keeps it.
LEMMA AcksPart ==
  ASSUME NEW h, NEW g, Later(h, g), LedgerOK(h), TypeOK, TypeOK', LedgerAcks(h), NewAcks(h, g),
         \A n \in Node : term[n] <= term'[n],
         \A t \in g.terms : t \in h.terms \/ \A q \in g.voters[t] : t <= term'[q],
         \A n \in Node : log'[n] = log[n] \/ AcksKept(n, log'[n], term'[n] + 1, h)
  PROVE  LedgerAcks(g)'
<1>1. h \in Ledger /\ g \in Ledger /\ h.terms \in SUBSET Nat
  BY DEF Later, Ledger
<1>2. \A n \in Node : term[n] \in Nat /\ term'[n] \in Nat /\ log[n] \in Seq(Entry)
                      /\ log'[n] \in Seq(Entry)
  BY DEF TypeOK
<1>3. ASSUME NEW t \in g.terms, NEW q \in g.voters[t] PROVE t <= term'[q]
  <2>1. CASE t \in h.terms
    <3>1. g.voters[t] = h.voters[t] /\ t \in Nat
      BY <1>1, <2>1 DEF Later
    <3>2. q \in h.voters[t] /\ q \in Node
      BY <1>1, <3>1, LedgerType
    <3>3. t <= term[q]
      BY <2>1, <3>2 DEF LedgerAcks
    <3> QED BY <1>2, <3>1, <3>2, <3>3
  <2> QED BY <2>1
<1>4. ASSUME NEW p \in Node, NEW t \in Nat, NEW i \in Nat, <<p, t, i>> \in g.acks
      PROVE  t <= term'[p]
  <2>1. CASE <<p, t, i>> \in h.acks
    <3>1. t <= term[p]
      BY <2>1 DEF LedgerAcks
    <3> QED BY <1>2, <3>1
  <2>2. CASE t = term'[p]
    BY <1>2, <2>2
  <2> QED BY <1>4, <2>1, <2>2 DEF NewAcks
<1>5. ASSUME NEW p \in Node PROVE AcksKept(p, log'[p], term'[p] + 1, g)
  <2>1. PICK w \in Nat : /\ w <= term'[p] + 1 /\ AcksKept(p, log'[p], w, h)
                         /\ \A t, i \in Nat : <<p, t, i>> \in h.acks => t < w
    <3>1. \A t, i \in Nat : <<p, t, i>> \in h.acks => t <= term[p]
      BY DEF LedgerAcks
    <3>2. \A t, i \in Nat : <<p, t, i>> \in h.acks => t < term[p] + 1 /\ t < term'[p] + 1
      BY <1>2, <3>1
    <3>3. term[p] + 1 \in Nat /\ term'[p] + 1 \in Nat /\ term[p] + 1 <= term'[p] + 1
          /\ term'[p] + 1 <= term'[p] + 1
      BY <1>2
    <3>4. CASE log'[p] = log[p]
      <4>1. AcksKept(p, log'[p], term[p] + 1, h)
        BY <3>4 DEF LedgerAcks
      <4> QED BY <3>2, <3>3, <4>1
    <3>5. CASE AcksKept(p, log'[p], term'[p] + 1, h)
      BY <3>2, <3>3, <3>5
    <3> QED BY <3>4, <3>5
  <2>2. \A t, i \in Nat : <<p, t, i>> \in g.acks /\ t < term'[p] + 1 =>
           (<<p, t, i>> \in h.acks /\ t < w) \/ Same(log'[p], g.full[t], i)
    BY <2>1 DEF NewAcks
  <2>3. term'[p] + 1 \in Nat
    BY <1>2
  <2> QED BY <1>2, <2>1, <2>2, <2>3, LaterKept
<1> QED BY <1>3, <1>4, <1>5 DEF LedgerAcks

\* A node that is still a candidate, as it was, keeps its votes worth what
\* they were; a new vote must be worth as much.
LEMMA VotesPart ==
  ASSUME NEW h, NEW g, Later(h, g), LedgerOK(h), TypeOK, TypeOK', LedgerVotes(h), NewAcks(h, g),
         \A n \in Node : term[n] <= term'[n],
         \A m \in Node : Candidate(m, g)' =>
            \/ /\ Candidate(m, h) /\ round'[m] = round[m] /\ log'[m] = log[m]
               /\ term'[m] = term[m]
               /\ \A q \in Counted(m)' : q \in Counted(m) \/ Elector(q, m, g)'
            \/ /\ round'[m].lastLogIndex = LastIndex(log'[m])
               /\ round'[m].lastLogTerm = LastTerm(log'[m])
               /\ \A q \in Counted(m)' : Elector(q, m, g)'
  PROVE  LedgerVotes(g)'
<1>1. \A n \in Node : term[n] \in Nat /\ term'[n] \in Nat /\ log[n] \in Seq(Entry)
                      /\ log'[n] \in Seq(Entry)
  BY DEF TypeOK
<1>2. ASSUME NEW m \in Node, Candidate(m, h), log'[m] = log[m], term'[m] = term[m],
             NEW q \in Counted(m)
      PROVE  Elector(q, m, g)'
  <2>1. Elector(q, m, h)
    BY <1>2 DEF LedgerVotes
  <2>2. q \in Node
    BY DEF Counted, TypeOK
  <2>3. term[m] <= term'[q] /\ term[m] <= term[m]
    BY <1>1, <2>1, <2>2 DEF Elector
  <2>4. ASSUME NEW t \in Nat, NEW i \in Nat, <<q, t, i>> \in g.acks, t < term[m]
        PROVE  (<<q, t, i>> \in h.acks /\ t < term[m]) \/ Same(log[m], g.full[t], i)
    <3>1. t # term'[q]
      BY <1>1, <2>2, <2>3, <2>4
    <3> QED BY <2>2, <2>4, <3>1 DEF NewAcks
  <2>5. AcksKept(q, log[m], term[m], h) /\ term[m] \in Nat /\ log[m] \in Seq(Entry)
    BY <1>1, <2>1 DEF Elector
  <2>6. \A t, i \in Nat : <<q, t, i>> \in g.acks /\ t < term[m] =>
           (<<q, t, i>> \in h.acks /\ t < term[m]) \/ Same(log[m], g.full[t], i)
    BY <2>4
  <2>7. AcksKept(q, log[m], term[m], g)
    BY <2>2, <2>3, <2>5, <2>6, LaterKept
  <2> QED BY <1>2, <2>3, <2>7 DEF Elector
<1>3. ASSUME NEW m \in Node, Candidate(m, g)'
      PROVE  /\ round'[m].lastLogIndex = LastIndex(log'[m])
             /\ round'[m].lastLogTerm = LastTerm(log'[m])
             /\ \A q \in Counted(m)' : Elector(q, m, g)'
  <2>1. CASE /\ Candidate(m, h) /\ round'[m] = round[m] /\ log'[m] = log[m]
             /\ term'[m] = term[m]
             /\ \A q \in Counted(m)' : q \in Counted(m) \/ Elector(q, m, g)'
    <3>1. \A q \in Counted(m)' : Elector(q, m, g)'
      BY <1>2, <2>1
    <3>2. round[m].lastLogIndex = LastIndex(log[m]) /\ round[m].lastLogTerm = LastTerm(log[m])
      BY <2>1 DEF LedgerVotes
    <3> QED BY <2>1, <3>1, <3>2
  <2> QED BY <1>3, <2>1
<1> QED BY <1>3 DEF LedgerVotes

\* What leaders count still was acknowledged when each new count was.
LEMMA MatchesPart ==
  ASSUME NEW h, NEW g, Later(h, g), TypeOK, TypeOK', LedgerMatches(h),
         \A n \in Node : role'[n] = "leader" =>
            \/ /\ role[n] = "leader" /\ term'[n] = term[n] /\ log'[n] = log[n]
               /\ matchIndex'[n] = matchIndex[n]
            \/ /\ \A i \in 1..Len(log'[n]) : <<n, term'[n], i>> \in g.acks
               /\ \A p \in Peers(n) : \A i \in 1..matchIndex'[n][p] : <<p, term'[n], i>> \in g.acks,
         \A a \in replies' : a.req.kind = "append" /\ role'[a.req.from] = "leader" /\ a.resp.ok =>
            \/ a \in replies /\ role[a.req.from] = "leader" /\ term'[a.req.from] = term[a.req.from]
            \/ \A i \in 1..a.resp.match : <<a.to, term'[a.req.from], i>> \in g.acks,
         \A c \in calls' : c.req.kind = "append" /\ role'[c.req.from] = "leader" =>
            \/ c \in calls /\ role[c.req.from] = "leader" /\ term'[c.req.from] = term[c.req.from]
            \/ c.req.term = term'[c.req.from]
  PROVE  LedgerMatches(g)'
<1>1. h.acks \subseteq g.acks
  BY DEF Later
<1>2. ASSUME NEW n \in Node, role'[n] = "leader"
      PROVE  /\ \A i \in 1..Len(log'[n]) : <<n, term'[n], i>> \in g.acks
             /\ \A p \in Peers(n) : \A i \in 1..matchIndex'[n][p] : <<p, term'[n], i>> \in g.acks
  <2>1. CASE /\ role[n] = "leader" /\ term'[n] = term[n] /\ log'[n] = log[n]
             /\ matchIndex'[n] = matchIndex[n]
    <3>1. /\ \A i \in 1..Len(log[n]) : <<n, term[n], i>> \in h.acks
          /\ \A p \in Peers(n) : \A i \in 1..matchIndex[n][p] : <<p, term[n], i>> \in h.acks
      BY <2>1 DEF LedgerMatches
    <3> QED BY <1>1, <2>1, <3>1
  <2> QED BY <1>2, <2>1
<1>3. ASSUME NEW a \in replies', a.req.kind = "append", role'[a.req.from] = "leader", a.resp.ok
      PROVE  \A i \in 1..a.resp.match : <<a.to, term'[a.req.from], i>> \in g.acks
  <2>1. CASE a \in replies /\ role[a.req.from] = "leader" /\ term'[a.req.from] = term[a.req.from]
    <3>1. \A i \in 1..a.resp.match : <<a.to, term[a.req.from], i>> \in h.acks
      BY <1>3, <2>1 DEF LedgerMatches
    <3> QED BY <1>1, <2>1, <3>1
  <2> QED BY <1>3, <2>1
<1>4. ASSUME NEW c \in calls', c.req.kind = "append", role'[c.req.from] = "leader"
      PROVE  c.req.term = term'[c.req.from]
  BY <1>4 DEF LedgerMatches
<1> QED BY <1>2, <1>3, <1>4 DEF LedgerMatches

\* What is committed is still settled when each new commit is.
LEMMA CommitsPart ==
  ASSUME NEW h, NEW g, Later(h, g), LedgerOK(g), TypeOK, TypeOK', LedgerLogs(h), LedgerCommits(h),
         \A n \in Node : term[n] <= term'[n] /\ commitIndex[n] <= commitIndex'[n],
         \A n \in Node : \/ Begins(log[n], log'[n]) /\ commitIndex'[n] = commitIndex[n]
                         \/ Settled(log'[n], commitIndex'[n], term'[n], g),
         \A c \in calls' \cup late' : c.req.kind = "append" =>
            \/ c \in calls \cup late
            \/ /\ Settled(g.full[c.req.term], c.req.leaderCommit, c.req.term, g)
               /\ c.req.leaderCommit <= commitIndex'[c.req.from]
  PROVE  LedgerCommits(g)'
<1>1. h \in Ledger /\ g \in Ledger /\ h.terms \subseteq g.terms
  BY DEF Later
<1>2. \A n \in Node : /\ term[n] \in Nat /\ term'[n] \in Nat /\ log[n] \in Seq(Entry)
                      /\ log'[n] \in Seq(Entry)
                      /\ commitIndex[n] \in Nat /\ commitIndex'[n] \in Nat
  BY DEF TypeOK
<1>3. ASSUME NEW n \in Node PROVE Settled(log'[n], commitIndex'[n], term'[n], g)
  <2>1. CASE Begins(log[n], log'[n]) /\ commitIndex'[n] = commitIndex[n]
    <3>1. Settled(log[n], commitIndex[n], term[n], h) /\ term[n] <= term'[n]
      BY DEF LedgerCommits
    <3>2. Settled(log[n], commitIndex[n], term'[n], g)
      BY <1>2, <3>1, LaterSettled
    <3>3. Settled(log'[n], commitIndex[n], term'[n], g)
      BY <1>1, <1>2, <2>1, <3>2, BeginsKeeps
    <3> QED BY <2>1, <3>3
  <2> QED BY <2>1
<1>4. ASSUME NEW c \in calls' \cup late', c.req.kind = "append"
      PROVE  /\ Settled(g.full[c.req.term], c.req.leaderCommit, c.req.term, g)
             /\ c.req.leaderCommit <= commitIndex'[c.req.from]
  <2>1. CASE c \in calls \cup late
    <3> DEFINE t == c.req.term
               e == c.req.leaderCommit
    <3>1. t \in Nat /\ e \in Nat /\ c.req.from \in Node /\ t \in h.terms
      BY <1>4, <2>1, CommitTypes DEF LedgerLogs
    <3>2. Settled(h.full[t], e, t, h) /\ e <= commitIndex[c.req.from]
      BY <1>4, <2>1 DEF LedgerCommits
    <3>3. h.full[t] \in Seq(Entry) /\ g.full[t] \in Seq(Entry) /\ Begins(h.full[t], g.full[t])
      BY <1>1, <3>1, LedgerType DEF Later
    <3> HIDE DEF t, e
    <3>4. t <= t
      BY <3>1
    <3>5. Settled(h.full[t], e, t, g)
      BY <3>1, <3>2, <3>3, <3>4, LaterSettled
    <3>6. Settled(g.full[t], e, t, g)
      BY <1>1, <3>1, <3>3, <3>5, BeginsKeeps
    <3>7. e <= commitIndex'[c.req.from]
      BY <1>2, <3>1, <3>2
    <3> QED BY <3>6, <3>7 DEF t, e
  <2> QED BY <1>4, <2>1
<1> QED BY <1>3, <1>4 DEF LedgerCommits

\* In a step that ends no candidacy but by a newer term, and no new leader's
\* term aside, a node that is a candidate after it was the same one before.
LEMMA CandidateKept ==
  ASSUME NEW h, NEW g, Later(h, g), TypeOK, TypeOK', WinsPast,
         NEW m \in Node, Candidate(m, g)', term[m] <= term'[m],
         electing[m], round'[m] = round[m], log'[m] = log[m] \/ term'[m] \in g.terms
  PROVE  Candidate(m, h) /\ log'[m] = log[m] /\ term'[m] = term[m]
<1>1. term[m] \in Nat /\ term'[m] \in Nat /\ h.terms \subseteq g.terms
  BY DEF TypeOK, Later
<1>2. term'[m] = round[m].term /\ term'[m] \notin g.terms
  BY DEF Candidate
<1>3. round[m].term <= term[m]
  BY DEF WinsPast
<1>4. term'[m] = term[m]
  BY <1>1, <1>2, <1>3
<1> QED BY <1>1, <1>2, <1>4 DEF Candidate

\* No round begins and no vote is counted that was not on its way.
VotesStay ==
  \A m \in Node : electing'[m] =>
     electing[m] /\ round'[m] = round[m] /\ Counted(m)' \subseteq Counted(m)

\* Then what candidates know of their voters stays true.
LEMMA VotesStayPart ==
  ASSUME NEW h, NEW g, Later(h, g), LedgerOK(h), TypeOK, TypeOK', WinsPast, LedgerVotes(h),
         NewAcks(h, g), \A n \in Node : term[n] <= term'[n], VotesStay,
         \A m \in Node : log'[m] = log[m] \/ term'[m] \in g.terms
  PROVE  LedgerVotes(g)'
<1>1. ASSUME NEW m \in Node, Candidate(m, g)'
      PROVE  /\ Candidate(m, h) /\ round'[m] = round[m] /\ log'[m] = log[m]
             /\ term'[m] = term[m]
             /\ \A q \in Counted(m)' : q \in Counted(m)
  <2>1. electing'[m]
    BY <1>1 DEF Candidate
  <2>2. electing[m] /\ round'[m] = round[m] /\ Counted(m)' \subseteq Counted(m)
    BY <2>1 DEF VotesStay
  <2>3. Candidate(m, h) /\ log'[m] = log[m] /\ term'[m] = term[m]
    BY <1>1, <2>2, CandidateKept
  <2> QED BY <2>2, <2>3
<1> QED BY <1>1, VotesPart

-----------------------------------------------------------------------------
(* The steps that acknowledge and commit nothing. *)

\* A step that writes and commits nothing, sends and answers no append, and
\* makes no leader.
CalmStep ==
  /\ log' = log /\ commitIndex' = commitIndex /\ led \subseteq led'
  /\ \A n \in Node : /\ term[n] <= term'[n]
                     /\ role'[n] = "leader" => /\ role[n] = "leader" /\ term'[n] = term[n]
                                               /\ matchIndex'[n] = matchIndex[n]
  /\ \A c \in calls' : c.req.kind = "append" => c \in calls
  /\ \A c \in late' : c.req.kind = "append" => c \in calls \cup late
  /\ \A a \in replies' : a.req.kind = "append" => a \in replies

\* What is known of the ledger, votes aside, needs no new ledger then.
LEMMA CalmParts ==
  ASSUME NEW h, LedgerOK(h), TypeOK, TypeOK', CalmStep,
         LedgerLogs(h), LedgerAcks(h), LedgerMatches(h), LedgerCommits(h)
  PROVE  LedgerLogs(h)' /\ LedgerAcks(h)' /\ LedgerMatches(h)' /\ LedgerCommits(h)'
<1>1. Later(h, h) /\ NewAcks(h, h)
  BY LaterSelf DEF NewAcks, LedgerOK
<1>2. \A n \in Node : /\ log'[n] = log[n] /\ commitIndex'[n] = commitIndex[n]
                      /\ commitIndex[n] \in Nat /\ Begins(log[n], log'[n])
                      /\ commitIndex[n] <= commitIndex'[n]
  <2>1. \A n \in Node : log[n] \in Seq(Entry) /\ commitIndex[n] \in Nat
    BY CommitTypes
  <2> QED BY <2>1 DEF CalmStep, Begins
<1>3. \A n \in Node : term[n] <= term'[n]
  BY DEF CalmStep
<1>4. LedgerLogs(h)'
  BY <1>1, <1>2, LogsPart DEF CalmStep
<1>5. LedgerAcks(h)'
  BY <1>1, <1>2, <1>3, AcksPart
<1>6. LedgerMatches(h)'
  <2>1. \A n \in Node : role'[n] = "leader" =>
           /\ role[n] = "leader" /\ term'[n] = term[n] /\ log'[n] = log[n]
           /\ matchIndex'[n] = matchIndex[n]
    BY DEF CalmStep
  <2>2. \A a \in replies' : a.req.kind = "append" /\ role'[a.req.from] = "leader" /\ a.resp.ok =>
           a \in replies /\ role[a.req.from] = "leader" /\ term'[a.req.from] = term[a.req.from]
    BY CommitTypes DEF CalmStep
  <2>3. \A c \in calls' : c.req.kind = "append" /\ role'[c.req.from] = "leader" =>
           c \in calls /\ role[c.req.from] = "leader" /\ term'[c.req.from] = term[c.req.from]
    BY CommitTypes DEF CalmStep
  <2> QED BY <1>1, <2>1, <2>2, <2>3, MatchesPart
<1>7. LedgerCommits(h)'
  <2>1. \A c \in calls' \cup late' : c.req.kind = "append" => c \in calls \cup late
    BY DEF CalmStep
  <2> QED BY <1>1, <1>2, <1>3, <2>1, CommitsPart
<1> QED BY <1>4, <1>5, <1>6, <1>7

\* Nor do the votes, when none is asked for or given.
LEMMA CalmState ==
  ASSUME NEW h, LedgerOK(h), TypeOK, TypeOK', WinsPast, CalmStep, VotesStay, LedgerState(h)
  PROVE  LedgerState(h)'
<1>1. Later(h, h) /\ NewAcks(h, h)
  BY LaterSelf DEF NewAcks, LedgerOK
<1>2. \A n \in Node : term[n] <= term'[n] /\ log'[n] = log[n]
  BY DEF CalmStep
<1>3. LedgerVotes(h)'
  BY <1>1, <1>2, VotesStayPart DEF LedgerState
<1> QED BY <1>3, CalmParts DEF LedgerState

\* handle_vote_request is calm, whoever waits for the answer.
LEMMA VoteCalm ==
  ASSUME TypeOK, NEW d \in Node, NEW r \in VoteRequest, HandleVoteRequest(d, r),
         \A c \in calls' : c.req.kind = "append" => c \in calls,
         \A c \in late' : c.req.kind = "append" => c \in calls \cup late,
         \A a \in replies' : a.req.kind = "append" => a \in replies
  PROVE  CalmStep
<1>1. r.term \in Nat /\ term \in [Node -> Nat] /\ role \in [Node -> Role]
  BY DEF VoteRequest, TypeOK
<1>2. /\ term' = [term EXCEPT ![d] = IF r.term > term[d] THEN r.term ELSE @]
      /\ role' = [role EXCEPT ![d] = IF r.term > term[d] THEN "follower" ELSE @]
      /\ UNCHANGED <<log, led, commitIndex, matchIndex>>
  BY DEF HandleVoteRequest
<1>3. \A n \in Node : /\ term[n] <= term'[n]
                      /\ role'[n] = "leader" => role[n] = "leader" /\ term'[n] = term[n]
  BY <1>1, <1>2
<1> QED BY <1>2, <1>3 DEF CalmStep

\* A node that begins a round asks for votes with its log, and has its own.
LEMMA StartLedger ==
  ASSUME NEW h, LedgerOK(h), TypeOK, TypeOK', WinsPast, LedgerState(h),
         NEW n \in Node, StartElection(n)
  PROVE  LedgerState(h)'
<1>0. /\ term \in [Node -> Nat] /\ role \in [Node -> Role] /\ electing \in [Node -> BOOLEAN]
      /\ round \in [Node -> VoteRequest] /\ ballots \in [Node -> SUBSET Node]
      /\ \A m \in Node : term[m] \in Nat
  BY CommitTypes
<1> DEFINE r == [kind |-> "vote", from |-> n, term |-> term[n] + 1,
                 lastLogIndex |-> LastIndex(log[n]), lastLogTerm |-> LastTerm(log[n])]
<1>1. /\ term' = [term EXCEPT ![n] = term[n] + 1]
      /\ role' = [role EXCEPT ![n] = "candidate"]
      /\ electing' = [electing EXCEPT ![n] = TRUE]
      /\ round' = [round EXCEPT ![n] = r]
      /\ ballots' = [ballots EXCEPT ![n] = {n}]
      /\ UNCHANGED <<log, commitIndex, matchIndex, calls, replies, late, led>>
      /\ \A a \in replies : a.req.from # n
  BY DEF StartElection, netVars, Idle, Waiting
<1>2. r.lastLogIndex = LastIndex(log[n]) /\ r.lastLogTerm = LastTerm(log[n])
  OBVIOUS
<1> HIDE DEF r
<1>3. \A m \in Node : /\ term[m] <= term'[m]
                      /\ role'[m] = "leader" => role[m] = "leader" /\ term'[m] = term[m]
  BY <1>0, <1>1
<1>4. CalmStep
  BY <1>1, <1>3 DEF CalmStep
<1>5. Later(h, h) /\ NewAcks(h, h)
  BY LaterSelf DEF NewAcks, LedgerOK
<1>6. ASSUME NEW m \in Node, m # n, Candidate(m, h)'
      PROVE  /\ Candidate(m, h) /\ round'[m] = round[m] /\ log'[m] = log[m]
             /\ term'[m] = term[m]
             /\ \A q \in Counted(m)' : q \in Counted(m)
  BY <1>0, <1>1, <1>6 DEF Candidate, Counted
<1>7. /\ round'[n].lastLogIndex = LastIndex(log'[n])
      /\ round'[n].lastLogTerm = LastTerm(log'[n])
      /\ \A q \in Counted(n)' : Elector(q, n, h)'
  <2>1. round'[n] = r /\ log'[n] = log[n] /\ term'[n] = term[n] + 1
    BY <1>0, <1>1
  <2>2. Counted(n)' \subseteq {n}
    BY <1>0, <1>1 DEF Counted
  <2>3. AcksKept(n, log[n], term[n] + 1, h)
    BY DEF LedgerState, LedgerAcks
  <2>4. term'[n] <= term'[n]
    BY <1>0, <2>1
  <2>5. Elector(n, n, h)'
    BY <2>1, <2>3, <2>4 DEF Elector
  <2> QED BY <1>2, <2>1, <2>2, <2>5
<1>8. LedgerVotes(h)'
  <2>1. \A m \in Node : Candidate(m, h)' =>
            \/ /\ Candidate(m, h) /\ round'[m] = round[m] /\ log'[m] = log[m]
               /\ term'[m] = term[m]
               /\ \A q \in Counted(m)' : q \in Counted(m) \/ Elector(q, m, h)'
            \/ /\ round'[m].lastLogIndex = LastIndex(log'[m])
               /\ round'[m].lastLogTerm = LastTerm(log'[m])
               /\ \A q \in Counted(m)' : Elector(q, m, h)'
    BY <1>6, <1>7
  <2> QED BY <1>3, <1>5, <2>1, VotesPart DEF LedgerState
<1> QED BY <1>4, <1>8, CalmParts DEF LedgerState

\* A node that grants a vote to a candidate finds its log as good as its own.
LEMMA AnswerVoteLedger ==
  ASSUME NEW h, LedgerOK(h), LogInv, TypeOK', LedgerState(h),
         NEW k \in calls, AnswerVote(k)
  PROVE  LedgerState(h)'
<1> DEFINE d == k.to
           r == k.req
           b == [to |-> d, req |-> r, resp |-> VoteResponse(d, r)]
<1>0. /\ TypeOK /\ WinsPast /\ \A m \in Node : FormedLog(log[m], term[m])
      /\ term \in [Node -> Nat] /\ \A m \in Node : term[m] \in Nat /\ log[m] \in Seq(Entry)
  BY CommitTypes DEF LogInv, VoteInv, LogWellFormed, FormedLog
<1>1. /\ d \in Node /\ r \in VoteRequest /\ r.kind = "vote" /\ HandleVoteRequest(d, r)
      /\ calls' = calls \ {k} /\ replies' = replies \cup {b}
      /\ UNCHANGED <<electing, round, ballots, late>>
  BY <1>0 DEF AnswerVote, TypeOK, Call, AppendRequest, driverVars
<1>2. b.req = r /\ b.to = d /\ b.resp.ok = Granted(d, r) /\ b.req.kind = "vote"
  BY <1>1 DEF VoteResponse
<1>3. electing[r.from] /\ r = round[r.from]
  BY <1>1 DEF LogInv, RoundParts, CallsOfRound
<1>4. r.term \in Nat /\ r.from \in Node
  BY <1>1 DEF VoteRequest
<1> HIDE DEF b, d, r
<1>5. /\ term' = [term EXCEPT ![d] = IF r.term > term[d] THEN r.term ELSE @]
      /\ log' = log
  BY <1>1 DEF HandleVoteRequest
<1>6. \A m \in Node : term[m] <= term'[m] /\ log'[m] = log[m]
  BY <1>0, <1>1, <1>4, <1>5
<1>7. CalmStep
  <2>1. \A a \in replies' : a.req.kind = "append" => a \in replies
    BY <1>1, <1>2
  <2>2. \A c \in calls' : c.req.kind = "append" => c \in calls
    BY <1>1
  <2>3. \A c \in late' : c.req.kind = "append" => c \in calls \cup late
    BY <1>1
  <2> QED BY <1>0, <1>1, <2>1, <2>2, <2>3, VoteCalm
<1>8. Later(h, h) /\ NewAcks(h, h)
  BY LaterSelf DEF NewAcks, LedgerOK
<1>9. ASSUME Candidate(r.from, h), Granted(d, r) PROVE Elector(d, r.from, h)'
  <2> DEFINE m == r.from
  <2>1. term[m] = r.term /\ term[m] \notin h.terms /\ m \in Node
    BY <1>3, <1>4, <1>9 DEF Candidate
  <2>2. r.term >= term[d] /\ CandidateLogOk(d, r)
    BY <1>9 DEF Granted
  <2>3. r.lastLogIndex = LastIndex(log[m]) /\ r.lastLogTerm = LastTerm(log[m])
    BY <1>3, <1>4, <1>9 DEF LedgerState, LedgerVotes
  <2> HIDE DEF m
  <2>4. term[d] <= term[m]
    BY <1>0, <1>1, <1>4, <2>1, <2>2
  <2>5. \/ log[d] = << >>
        \/ LastTerm(log[m]) > LastTerm(log[d])
        \/ LastTerm(log[m]) = LastTerm(log[d]) /\ LastIndex(log[m]) >= LastIndex(log[d])
    BY <2>2, <2>3 DEF CandidateLogOk
  <2>6. Backed(log[d], h) /\ Backed(log[m], h)
    BY <1>1, <2>1 DEF LedgerState, LedgerLogs
  <2>7. AcksKept(d, log[d], term[d] + 1, h)
    BY <1>1 DEF LedgerState, LedgerAcks
  <2>8. \A t, i \in Nat : <<d, t, i>> \in h.acks => t <= term[d]
    BY <1>1 DEF LedgerState, LedgerAcks
  <2>9. /\ log[d] \in Seq(Entry) /\ log[m] \in Seq(Entry) /\ term[d] \in Nat /\ term[m] \in Nat
        /\ FormedLog(log[d], term[d]) /\ FormedLog(log[m], term[m])
    BY <1>0, <1>1, <2>1
  <2>10. AcksKept(d, log[m], term[m], h)
    BY <1>1, <2>1, <2>4, <2>5, <2>6, <2>7, <2>8, <2>9, VoteKept
  <2>11. term'[m] = term[m] /\ term'[m] <= term'[d] /\ log'[m] = log[m]
    <3>1. term'[d] = r.term
      BY <1>0, <1>1, <1>4, <1>5, <2>2
    <3>2. term'[m] = term[m]
      BY <1>0, <1>1, <1>4, <1>5, <2>1, <3>1
    <3> QED BY <1>0, <1>6, <2>1, <3>1, <3>2
  <2>12. Elector(d, m, h)'
    BY <2>10, <2>11 DEF Elector
  <2> QED BY <2>12 DEF m
<1>10. ASSUME NEW m \in Node, Candidate(m, h)'
       PROVE  /\ Candidate(m, h) /\ round'[m] = round[m] /\ log'[m] = log[m]
              /\ term'[m] = term[m]
              /\ \A q \in Counted(m)' : q \in Counted(m) \/ Elector(q, m, h)'
  <2>1. electing[m] /\ round'[m] = round[m]
    BY <1>1, <1>10 DEF Candidate
  <2>2. Candidate(m, h) /\ log'[m] = log[m] /\ term'[m] = term[m]
    BY <1>0, <1>6, <1>8, <1>10, <2>1, CandidateKept
  <2>3. ASSUME NEW q \in Counted(m)', q \notin Counted(m) PROVE Elector(q, m, h)'
    <3>1. q \in Node /\ \E a \in replies' : a.req.kind = "vote" /\ a.resp.ok
                                            /\ a.req.from = m /\ a.to = q
      BY <1>1, <2>3 DEF Counted
    <3>2. PICK a \in replies' : a.req.kind = "vote" /\ a.resp.ok /\ a.req.from = m /\ a.to = q
      BY <3>1
    <3>3. a \notin replies
      BY <2>3, <3>1, <3>2 DEF Counted
    <3>4. a = b
      BY <1>1, <3>3
    <3>5. q = d /\ m = r.from /\ Granted(d, r)
      BY <1>2, <3>2, <3>4
    <3> QED BY <1>9, <2>2, <3>5
  <2> QED BY <2>1, <2>2, <2>3
<1>11. LedgerVotes(h)'
  <2>1. \A m \in Node : Candidate(m, h)' =>
            \/ /\ Candidate(m, h) /\ round'[m] = round[m] /\ log'[m] = log[m]
               /\ term'[m] = term[m]
               /\ \A q \in Counted(m)' : q \in Counted(m) \/ Elector(q, m, h)'
            \/ /\ round'[m].lastLogIndex = LastIndex(log'[m])
               /\ round'[m].lastLogTerm = LastTerm(log'[m])
               /\ \A q \in Counted(m)' : Elector(q, m, h)'
    BY <1>10
  <2> QED BY <1>0, <1>6, <1>8, <2>1, VotesPart DEF LedgerState
<1> QED BY <1>0, <1>7, <1>11, CalmParts DEF LedgerState

-----------------------------------------------------------------------------
(* The steps of leaders. *)

\* A round that is won opens the ledger's page of its term.
LEMMA WinLedger ==
  ASSUME NEW h, LedgerOK(h), LogInv, TypeOK', OneWinnerPerRound', LedgerState(h),
         faults' = {}, NEW n \in Node, WinStep(n)
  PROVE  \E g : LedgerOK(g) /\ LedgerState(g)'
<1> DEFINE u == term[n]
           l == log[n]
           Q == ballots[n]
<1>0. /\ TypeOK /\ WinsPast /\ h \in Ledger
      /\ term \in [Node -> Nat] /\ role \in [Node -> Role]
      /\ matchIndex \in [Node -> [Node -> Nat]] /\ electing \in [Node -> BOOLEAN]
      /\ round \in [Node -> VoteRequest] /\ ballots \in [Node -> SUBSET Node]
      /\ u \in Nat /\ l \in Seq(Entry) /\ Len(l) \in Nat /\ Q \in SUBSET Node
      /\ FormedLog(l, u)
  BY CommitTypes DEF LogInv, VoteInv, LogWellFormed, FormedLog, LedgerOK
<1>1. /\ electing[n] /\ role' = [role EXCEPT ![n] = "leader"]
      /\ UNCHANGED <<term, log, commitIndex, calls, replies, late>>
      /\ won' = won \cup {<<n, round[n].term>>} /\ led' = led \cup {<<n, u>>}
      /\ matchIndex' = [matchIndex EXCEPT ![n] = [p \in Node |-> 0]]
      /\ electing' = [electing EXCEPT ![n] = FALSE]
      /\ round' = [round EXCEPT ![n] = NoRound(n)]
      /\ ballots' = [ballots EXCEPT ![n] = {}]
      /\ \A c \in calls \cup replies : c.req.from # n
  BY DEF WinStep, FinishElection, BecomeLeader, netVars, Waiting
<1>2. u = round[n].term /\ faults = {}
  BY DEF WinStep
<1>3. u \notin h.terms
  <2> SUFFICES ASSUME u \in h.terms PROVE FALSE
    OBVIOUS
  <2>1. PICK m \in Node : <<m, u>> \in led
    BY DEF LedgerState, LedgerLogs
  <2>2. <<m, u>> \in won
    BY <1>2, <2>1 DEF LogInv, LeadParts, LedBySuccess
  <2>3. <<m, u>> \in won' /\ <<n, u>> \in won'
    BY <1>1, <1>2, <2>2
  <2>4. <<m, u>>[2] = <<n, u>>[2] => <<m, u>>[1] = <<n, u>>[1]
    BY <2>3 DEF OneWinnerPerRound
  <2>5. m = n
    BY <2>4
  <2>6. <<n, u>>[2] < round[<<n, u>>[1]].term
    BY <1>1, <2>2, <2>5 DEF LogInv, WinsPast
  <2> QED BY <1>0, <1>2, <2>6
<1>4. Majority(Q)
  <2>1. <<n, round[n].term>> \notin won
    <3> SUFFICES ASSUME <<n, round[n].term>> \in won PROVE FALSE
      OBVIOUS
    <3>1. <<n, round[n].term>>[2] < round[<<n, round[n].term>>[1]].term
      BY <1>0, <1>1 DEF WinsPast
    <3> QED BY <1>0, <1>2, <3>1
  <2>2. won' # won
    BY <1>1, <2>1
  <2>3. Cardinality(Q) >= VoteMajority
    BY <2>2 DEF WinStep, FinishElection
  <2> QED BY <1>0, <2>3, VoteMajorityIsMajority DEF Majority
<1>5. \A q \in Q : Elector(q, n, h)
  BY <1>1, <1>2, <1>3 DEF LedgerState, LedgerVotes, Candidate, Counted
<1> HIDE DEF u, l, Q
<1>6. PICK g : g = Grown(h, u, l, l, Q, n, Len(l))
  OBVIOUS
<1>7. /\ Later(h, g) /\ g.terms = h.terms \cup {u}
      /\ g.base[u] = l /\ g.full[u] = l /\ g.voters[u] = Q
      /\ \A s \in h.terms : s # u => g.full[s] = h.full[s]
      /\ \A p, s, i : <<p, s, i>> \in g.acks <=>
            <<p, s, i>> \in h.acks \/ (p = n /\ s = u /\ i \in 1..Len(l))
  <2>1. h \in Ledger /\ u \in Nat /\ l \in Seq(Entry) /\ Q \in SUBSET Node /\ Len(l) \in Nat
    BY <1>0
  <2>2. u \in h.terms => l = h.base[u] /\ Q = h.voters[u] /\ Begins(h.full[u], l)
    BY <1>3
  <2>3. Grew(h, g, u, l, l, Q, n, Len(l))
    BY <1>6, <2>1, <2>2, GrownFacts
  <2> QED BY <2>3 DEF Grew
<1>8. term[n] = u /\ log[n] = l /\ ballots[n] = Q
  BY DEF u, l, Q
<1>9. Same(l, l, Len(l)) /\ \A i \in 1..Len(l) : Same(l, g.full[u], i)
  BY <1>0, <1>7 DEF Same
<1>10. NewAcks(h, g)
  BY <1>1, <1>7, <1>8, <1>9 DEF NewAcks
<1>11. Backed(l, g)
  BY <1>0, <1>7, <1>8, LaterBacked DEF LedgerState, LedgerLogs
<1>12. Tenure(u, g)
  <2>1. Begins(g.base[u], g.full[u])
    BY <1>7 DEF Begins
  <2>2. ASSUME NEW i \in 1..Len(l) PROVE i <= Len(l) /\ l[i].term < u
    <3>1. l[i].term \in h.terms
      BY <1>8 DEF LedgerState, LedgerLogs, Backed
    <3>2. l[i].term <= u /\ l[i].term \in Nat
      BY <1>0, EntryTerm DEF FormedLog
    <3> QED BY <1>0, <1>3, <3>1, <3>2
  <2>3. ASSUME NEW q \in Q PROVE AcksKept(q, l, u, g)
    <3>1. q \in Node /\ AcksKept(q, l, u, h) /\ u <= u
      BY <1>0, <1>5, <1>8 DEF Elector
    <3>2. \A t, i \in Nat : <<q, t, i>> \in g.acks /\ t < u =>
             (<<q, t, i>> \in h.acks /\ t < u) \/ Same(l, g.full[t], i)
      BY <1>0, <1>7
    <3> QED BY <1>0, <1>7, <3>1, <3>2, LaterKept
  <2>4. \A i \in 1..Len(g.full[u]) :
          IF i <= Len(g.base[u]) THEN g.full[u][i].term < u ELSE g.full[u][i].term = u
    BY <1>7, <2>2
  <2>5. \A q \in g.voters[u] : AcksKept(q, g.base[u], u, g)
    BY <1>7, <2>3
  <2>6. Majority(g.voters[u]) /\ Backed(g.full[u], g)
    BY <1>4, <1>7, <1>11
  <2> QED BY <2>1, <2>4, <2>5, <2>6 DEF Tenure
<1>13. LedgerOK(g)
  <2>1. \A s \in h.terms : n \in h.voters[s] => s <= u
    BY <1>8 DEF LedgerState, LedgerAcks
  <2>2. \A p \in Node : \A s, i \in Nat : <<p, s, i>> \in g.acks =>
            <<p, s, i>> \in h.acks \/ (p = n /\ s = u /\ i <= Len(g.full[u]))
    BY <1>0, <1>7
  <2>3. /\ u \in Nat /\ Later(h, g) /\ g.terms = h.terms \cup {u}
        /\ \A s \in h.terms : s # u => g.full[s] = h.full[s]
    BY <1>0, <1>7
  <2> QED BY <1>12, <2>1, <2>2, <2>3, LedgerGrows
<1>14. \A m \in Node : /\ term[m] <= term'[m] /\ commitIndex[m] <= commitIndex'[m]
                       /\ log'[m] = log[m] /\ commitIndex'[m] = commitIndex[m]
                       /\ Begins(log[m], log'[m])
  BY <1>0, <1>1, CommitTypes DEF Begins
<1>15. \A m \in Node : m # n => role'[m] = role[m] /\ matchIndex'[m] = matchIndex[m]
                                /\ electing'[m] = electing[m] /\ round'[m] = round[m]
                                /\ ballots'[m] = ballots[m]
  BY <1>0, <1>1
<1>16. LedgerLogs(g)'
  <2>1. \A t \in g.terms : t \in h.terms \/ \E m \in Node : <<m, t>> \in led'
    BY <1>1, <1>7, <1>8
  <2>2. ASSUME NEW m \in Node, role'[m] = "leader"
        PROVE  \/ /\ role[m] = "leader" /\ term'[m] = term[m] /\ log'[m] = log[m]
                  /\ g.full[term[m]] = h.full[term[m]]
               \/ term'[m] \in g.terms /\ log'[m] = g.full[term'[m]]
    <3>1. CASE m = n
      BY <1>1, <1>7, <1>8, <3>1
    <3>2. CASE m # n
      <4>1. role[m] = "leader" /\ term[m] \in h.terms
        BY <1>15, <2>2, <3>2 DEF LedgerState, LedgerLogs
      <4> QED BY <1>1, <1>3, <1>7, <4>1
    <3> QED BY <3>1, <3>2
  <2>3. \A c \in calls' \cup late' : c \in calls \cup late
    BY <1>1
  <2>4. led \subseteq led'
    BY <1>1
  <2> QED BY <1>0, <1>7, <1>14, <2>1, <2>2, <2>3, <2>4, LogsPart DEF LedgerState
<1>17. LedgerAcks(g)'
  <2>1. \A t \in g.terms : t \in h.terms \/ \A q \in g.voters[t] : t <= term'[q]
    BY <1>1, <1>5, <1>7, <1>8 DEF Elector
  <2> QED BY <1>0, <1>7, <1>10, <1>14, <2>1, AcksPart DEF LedgerState
<1>18. LedgerVotes(g)'
  <2>1. VotesStay
    <3> SUFFICES ASSUME NEW m \in Node, electing'[m]
                 PROVE  electing[m] /\ round'[m] = round[m] /\ Counted(m)' \subseteq Counted(m)
      BY DEF VotesStay
    <3>1. m # n
      BY <1>0, <1>1
    <3> QED BY <1>1, <1>15, <3>1 DEF Counted
  <2> QED BY <1>0, <1>7, <1>10, <1>14, <2>1, VotesStayPart DEF LedgerState
<1>19. LedgerMatches(g)'
  <2>1. ASSUME NEW m \in Node, role'[m] = "leader"
        PROVE  \/ /\ role[m] = "leader" /\ term'[m] = term[m] /\ log'[m] = log[m]
                  /\ matchIndex'[m] = matchIndex[m]
               \/ /\ \A i \in 1..Len(log'[m]) : <<m, term'[m], i>> \in g.acks
                  /\ \A p \in Peers(m) : \A i \in 1..matchIndex'[m][p] :
                        <<m, term'[m], i>> \in g.acks /\ <<p, term'[m], i>> \in g.acks
    <3>1. CASE m = n
      <4>1. \A p \in Peers(m) : matchIndex'[m][p] = 0
        BY <1>0, <1>1, <3>1 DEF Peers
      <4>2. \A i \in 1..Len(log'[m]) : <<m, term'[m], i>> \in g.acks
        BY <1>1, <1>7, <1>8, <3>1
      <4> QED BY <4>1, <4>2
    <3>2. CASE m # n
      BY <1>1, <1>15, <2>1, <3>2
    <3> QED BY <3>1, <3>2
  <2>2. \A a \in replies' : a.req.kind = "append" /\ role'[a.req.from] = "leader" /\ a.resp.ok =>
           a \in replies /\ role[a.req.from] = "leader" /\ term'[a.req.from] = term[a.req.from]
    BY <1>0, <1>1, <1>15, CommitTypes
  <2>3. \A c \in calls' : c.req.kind = "append" /\ role'[c.req.from] = "leader" =>
           c \in calls /\ role[c.req.from] = "leader" /\ term'[c.req.from] = term[c.req.from]
    BY <1>0, <1>1, <1>15, CommitTypes
  <2> QED BY <1>0, <1>7, <2>1, <2>2, <2>3, MatchesPart DEF LedgerState
<1>20. LedgerCommits(g)'
  <2>1. \A c \in calls' \cup late' : c \in calls \cup late
    BY <1>1
  <2> QED BY <1>0, <1>7, <1>13, <1>14, <2>1, CommitsPart DEF LedgerState
<1> QED BY <1>13, <1>16, <1>17, <1>18, <1>19, <1>20 DEF LedgerState

\* A leader that writes an entry writes it in the ledger and acknowledges it.
LEMMA WriteLedger ==
  ASSUME NEW h, LedgerOK(h), LogInv, TypeOK', LedgerState(h), faults' = {},
         NEW n \in Node, NEW v \in Value, AppendEntry(n, v)
  PROVE  \E g : LedgerOK(g) /\ LedgerState(g)'
<1> DEFINE u == term[n]
           l == log[n]
           e == [index |-> Len(l) + 1, term |-> u, data |-> v]
           f == Append(l, e)
<1>0. /\ TypeOK /\ WinsPast /\ h \in Ledger
      /\ log \in [Node -> Seq(Entry)]
      /\ u \in Nat /\ l \in Seq(Entry) /\ Len(l) \in Nat
  BY CommitTypes DEF LogInv, VoteInv, LedgerOK
<1>1. /\ role[n] = "leader" /\ log' = [log EXCEPT ![n] = f]
      /\ UNCHANGED <<term, role, commitIndex, matchIndex, electing, round, ballots,
                     calls, replies, late, led, faults>>
  BY DEF AppendEntry, driverVars, netVars, histVars
<1>2. /\ e \in Entry /\ e.term = u
      /\ f \in Seq(Entry) /\ Len(f) = Len(l) + 1 /\ f[Len(l) + 1] = e
      /\ \A i \in 1..Len(l) : f[i] = l[i]
  <2>1. e \in Entry /\ e.term = u
    BY <1>0 DEF Entry
  <2> HIDE DEF e
  <2> QED BY <1>0, <2>1, AppendProperties
<1>3. u \in h.terms /\ l = h.full[u]
  BY <1>1 DEF LedgerState, LedgerLogs
<1>4. Tenure(u, h)
  BY <1>3 DEF LedgerOK
<1>5. ASSUME NEW m \in Node, role[m] = "leader", m # n PROVE term[m] # u
  <2>1. <<m, term[m]>> \in led /\ <<n, u>> \in led
    BY <1>1, <1>5 DEF LogInv, LeadParts, LeadersLed
  <2>2. VoteInv /\ RoundParts /\ LeadParts /\ "late_win" \notin faults
    BY <1>1 DEF LogInv
  <2> QED BY <1>0, <1>5, <2>1, <2>2, LeadershipsUnique
<1> HIDE DEF u, l, e, f
<1>6. PICK g : g = Grown(h, u, h.base[u], f, h.voters[u], n, Len(f))
  OBVIOUS
<1>a. Begins(l, f)
  BY <1>0, <1>2 DEF Begins
<1>b. h.base[u] \in Seq(Entry) /\ h.voters[u] \in SUBSET Node /\ Len(h.base[u]) \in Nat
  BY <1>0, LedgerType
<1>7. Grew(h, g, u, h.base[u], f, h.voters[u], n, Len(f))
  <2>1. u \in h.terms =>
           h.base[u] = h.base[u] /\ h.voters[u] = h.voters[u] /\ Begins(h.full[u], f)
    BY <1>3, <1>a
  <2>2. Len(f) \in Nat
    BY <1>0, <1>2
  <2> QED BY <1>0, <1>2, <1>6, <1>b, <2>1, <2>2, GrownFacts
<1>8. /\ Later(h, g) /\ g.terms = h.terms
      /\ g.base[u] = h.base[u] /\ g.full[u] = f /\ g.voters[u] = h.voters[u]
      /\ \A s \in h.terms : s # u => g.full[s] = h.full[s]
      /\ \A p, s, i : <<p, s, i>> \in g.acks <=>
            <<p, s, i>> \in h.acks \/ (p = n /\ s = u /\ i \in 1..Len(f))
  BY <1>3, <1>7 DEF Grew
<1>9. term[n] = u /\ log[n] = l /\ log'[n] = f
  BY <1>0, <1>1 DEF u, l
<1>10. \A i \in 1..Len(f) : Same(f, g.full[u], i)
  BY <1>0, <1>2, <1>8 DEF Same
<1>11. NewAcks(h, g)
  BY <1>1, <1>8, <1>9, <1>10 DEF NewAcks
<1>12. Backed(f, g)
  <2> SUFFICES ASSUME NEW i \in 1..Len(f)
               PROVE  f[i].term \in g.terms /\ Same(f, g.full[f[i].term], i)
    BY DEF Backed
  <2>1. CASE i <= Len(l)
    <3>1. i \in 1..Len(l) /\ f[i] = l[i] /\ i \in Nat
      BY <1>0, <1>2, <2>1
    <3>2. Backed(l, g)
      BY <1>0, <1>8, <1>9, LaterBacked DEF LedgerState, LedgerLogs
    <3>3. l[i].term \in g.terms /\ Same(l, g.full[l[i].term], i) /\ l[i].term \in Nat
      BY <1>0, <3>1, <3>2, EntryTerm DEF Backed
    <3>4. Same(f, l, i)
      BY <1>0, <1>2, <3>1 DEF Same
    <3>5. g.full[l[i].term] \in Seq(Entry)
      BY <1>8, <3>3, LedgerType DEF Later
    <3> QED BY <1>0, <1>2, <3>1, <3>3, <3>4, <3>5, SameFacts
  <2>2. CASE i > Len(l)
    <3>1. i = Len(l) + 1
      BY <1>0, <1>2, <2>2
    <3>2. f[i].term = u
      BY <1>2, <3>1
    <3> QED BY <1>3, <1>8, <1>10, <3>2
  <2> QED BY <1>0, <1>2, <2>1, <2>2
<1>13. Tenure(u, g)
  <2>1. Begins(h.base[u], l) /\ Len(h.base[u]) <= Len(l)
    BY <1>3, <1>4 DEF Tenure, Begins
  <2>2. Begins(g.base[u], g.full[u])
    BY <1>0, <1>2, <1>8, <1>a, <1>b, <2>1, BeginsTransitive
  <2>3. ASSUME NEW i \in 1..Len(f)
        PROVE  IF i <= Len(h.base[u]) THEN f[i].term < u ELSE f[i].term = u
    <3>1. CASE i \in 1..Len(l)
      <4>1. f[i] = l[i]
        BY <1>2, <3>1
      <4>2. IF i <= Len(h.base[u]) THEN l[i].term < u ELSE l[i].term = u
        BY <1>3, <1>4, <3>1 DEF Tenure
      <4> QED BY <4>1, <4>2
    <3>2. CASE i \notin 1..Len(l)
      <4>1. i = Len(l) + 1 /\ ~(i <= Len(h.base[u]))
        BY <1>0, <1>2, <1>b, <2>1, <3>2
      <4> QED BY <1>2, <4>1
    <3> QED BY <3>1, <3>2
  <2>4. ASSUME NEW q \in h.voters[u] PROVE AcksKept(q, h.base[u], u, g)
    <3>1. q \in Node /\ AcksKept(q, h.base[u], u, h) /\ u <= u
      BY <1>0, <1>4, <1>b DEF Tenure
    <3>2. \A t, i \in Nat : <<q, t, i>> \in g.acks /\ t < u =>
             (<<q, t, i>> \in h.acks /\ t < u) \/ Same(h.base[u], g.full[t], i)
      BY <1>0, <1>8
    <3> QED BY <1>0, <1>8, <1>b, <3>1, <3>2, LaterKept
  <2>5. Majority(g.voters[u])
    BY <1>4, <1>8 DEF Tenure
  <2> QED BY <1>8, <1>12, <2>2, <2>3, <2>4, <2>5 DEF Tenure
<1>14. LedgerOK(g)
  <2>1. \A s \in h.terms : n \in h.voters[s] => s <= u
    BY <1>9 DEF LedgerState, LedgerAcks
  <2>2. \A p \in Node : \A s, i \in Nat : <<p, s, i>> \in g.acks =>
            <<p, s, i>> \in h.acks \/ (p = n /\ s = u /\ i <= Len(g.full[u]))
    BY <1>0, <1>2, <1>8
  <2>3. /\ u \in Nat /\ Later(h, g) /\ g.terms = h.terms \cup {u}
        /\ \A s \in h.terms : s # u => g.full[s] = h.full[s]
    BY <1>0, <1>3, <1>8
  <2> QED BY <1>13, <2>1, <2>2, <2>3, LedgerGrows
<1>15. \A m \in Node : /\ term[m] <= term'[m] /\ term'[m] = term[m]
                       /\ commitIndex[m] <= commitIndex'[m] /\ commitIndex'[m] = commitIndex[m]
                       /\ m # n => log'[m] = log[m]
                       /\ Begins(log[m], log'[m])
  <2>1. \A m \in Node : m # n => log'[m] = log[m]
    BY <1>0, <1>1
  <2>2. \A m \in Node : Begins(log[m], log[m])
    BY DEF Begins
  <2>3. \A m \in Node : Begins(log[m], log'[m])
    BY <1>9, <1>a, <2>1, <2>2
  <2> QED BY <1>0, <1>1, <2>1, <2>3, CommitTypes
<1>16. LedgerLogs(g)'
  <2>1. \A m \in Node : log'[m] = log[m] \/ Backed(log'[m], g)
    BY <1>9, <1>12, <1>15
  <2>2. ASSUME NEW m \in Node, role'[m] = "leader"
        PROVE  \/ /\ role[m] = "leader" /\ term'[m] = term[m] /\ log'[m] = log[m]
                  /\ g.full[term[m]] = h.full[term[m]]
               \/ term'[m] \in g.terms /\ log'[m] = g.full[term'[m]]
    <3>1. CASE m = n
      BY <1>1, <1>3, <1>8, <1>9, <3>1
    <3>2. CASE m # n
      <4>1. role[m] = "leader" /\ term[m] \in h.terms /\ term[m] # u
        BY <1>1, <1>5, <2>2, <3>2 DEF LedgerState, LedgerLogs
      <4> QED BY <1>8, <1>15, <3>2, <4>1
    <3> QED BY <3>1, <3>2
  <2>3. \A c \in calls' \cup late' : c \in calls \cup late
    BY <1>1
  <2>4. led \subseteq led' /\ \A t \in g.terms : t \in h.terms
    BY <1>1, <1>8
  <2> QED BY <1>0, <1>8, <2>1, <2>2, <2>3, <2>4, LogsPart DEF LedgerState
<1>17. LedgerAcks(g)'
  <2>1. AcksKept(n, log'[n], term'[n] + 1, h)
    <3>1. AcksKept(n, l, u + 1, h)
      BY <1>9 DEF LedgerState, LedgerAcks
    <3>2. AcksKept(n, f, u + 1, h)
      BY <1>0, <1>2, <1>a, <3>1, BeginsKeeps
    <3> QED BY <1>9, <1>15, <3>2
  <2>2. \A m \in Node : log'[m] = log[m] \/ AcksKept(m, log'[m], term'[m] + 1, h)
    BY <1>15, <2>1
  <2>3. \A t \in g.terms : t \in h.terms
    BY <1>8
  <2> QED BY <1>0, <1>8, <1>11, <1>15, <2>2, <2>3, AcksPart DEF LedgerState
<1>18. LedgerVotes(g)'
  <2>1. VotesStay
    BY <1>1 DEF VotesStay, Counted
  <2>2. \A m \in Node : log'[m] = log[m] \/ term'[m] \in g.terms
    BY <1>3, <1>8, <1>9, <1>15
  <2> QED BY <1>0, <1>8, <1>11, <1>15, <2>1, <2>2, VotesStayPart DEF LedgerState
<1>19. LedgerMatches(g)'
  <2>1. ASSUME NEW m \in Node, role'[m] = "leader"
        PROVE  \/ /\ role[m] = "leader" /\ term'[m] = term[m] /\ log'[m] = log[m]
                  /\ matchIndex'[m] = matchIndex[m]
               \/ /\ \A i \in 1..Len(log'[m]) : <<m, term'[m], i>> \in g.acks
                  /\ \A p \in Peers(m) : \A i \in 1..matchIndex'[m][p] :
                        <<p, term'[m], i>> \in g.acks
    <3>1. CASE m = n
      <4>1. \A i \in 1..Len(log'[m]) : <<m, term'[m], i>> \in g.acks
        BY <1>8, <1>9, <1>15, <3>1
      <4>2. \A p \in Peers(m) : \A i \in 1..matchIndex[m][p] : <<p, term[m], i>> \in h.acks
        BY <1>1, <3>1 DEF LedgerState, LedgerMatches
      <4>3. matchIndex'[m] = matchIndex[m] /\ term'[m] = term[m]
        BY <1>1
      <4>4. \A p \in Peers(m) : \A i \in 1..matchIndex'[m][p] : <<p, term'[m], i>> \in g.acks
        BY <1>8, <4>2, <4>3
      <4> QED BY <4>1, <4>4
    <3>2. CASE m # n
      BY <1>1, <1>15, <2>1, <3>2
    <3> QED BY <3>1, <3>2
  <2>2. \A a \in replies' : a.req.kind = "append" /\ role'[a.req.from] = "leader" /\ a.resp.ok =>
           a \in replies /\ role[a.req.from] = "leader" /\ term'[a.req.from] = term[a.req.from]
    BY <1>1
  <2>3. \A c \in calls' : c.req.kind = "append" /\ role'[c.req.from] = "leader" =>
           c \in calls /\ role[c.req.from] = "leader" /\ term'[c.req.from] = term[c.req.from]
    BY <1>1
  <2> QED BY <1>0, <1>8, <2>1, <2>2, <2>3, MatchesPart DEF LedgerState
<1>20. LedgerCommits(g)'
  <2>1. \A c \in calls' \cup late' : c \in calls \cup late
    BY <1>1
  <2> QED BY <1>0, <1>8, <1>14, <1>15, <2>1, CommitsPart DEF LedgerState
<1> QED BY <1>14, <1>16, <1>17, <1>18, <1>19, <1>20 DEF LedgerState

\* A leader sends a slice of its log, and how much of it it has committed.
LEMMA SendLedger ==
  ASSUME NEW h, LedgerOK(h), LogInv, TypeOK', LedgerState(h),
         NEW n \in Node, NEW p \in Node, SendAppend(n, p)
  PROVE  LedgerState(h)'
<1> DEFINE r == PreparedAppend(n, p)
           k == [to |-> p, req |-> r]
<1>0. TypeOK /\ WinsPast /\ LogWellFormed
  BY DEF LogInv, VoteInv
<1>1. /\ calls' = calls \cup {k} /\ role[n] = "leader" /\ HasPrev(n, p)
      /\ UNCHANGED <<term, role, log, commitIndex, matchIndex, electing, round, ballots,
                     replies, late, led>>
  BY DEF SendAppend, nodeVars, driverVars, histVars
<1>2. /\ r.kind = "append" /\ r.from = n /\ r.term = term[n] /\ r.leaderCommit = commitIndex[n]
      /\ SliceOf(r, log[n]) /\ k.req = r
  BY <1>0, <1>1, PreparedSlice DEF PreparedAppend
<1>3. term[n] \in h.terms /\ log[n] = h.full[term[n]]
  BY <1>1 DEF LedgerState, LedgerLogs
<1>4. Settled(log[n], commitIndex[n], term[n], h)
  BY DEF LedgerState, LedgerCommits
<1> HIDE DEF k, r
<1>5. Later(h, h) /\ NewAcks(h, h)
  BY LaterSelf DEF NewAcks, LedgerOK
<1>6. \A m \in Node : /\ term[m] <= term'[m] /\ commitIndex[m] <= commitIndex'[m]
                      /\ Begins(log[m], log'[m]) /\ commitIndex'[m] = commitIndex[m]
                      /\ log'[m] = log[m]
  BY <1>0, <1>1, CommitTypes DEF Begins
<1>7. LedgerLogs(h)'
  <2>1. \A c \in calls' \cup late' : c.req.kind = "append" =>
            \/ c \in calls \cup late
            \/ c.req.term \in h.terms /\ SliceOf(c.req, h.full[c.req.term])
    BY <1>1, <1>2, <1>3
  <2>2. led \subseteq led' /\ \A m \in Node : role'[m] = "leader" =>
            role[m] = "leader" /\ term'[m] = term[m] /\ log'[m] = log[m]
    BY <1>1
  <2> QED BY <1>0, <1>5, <1>6, <2>1, <2>2, LogsPart DEF LedgerState
<1>8. LedgerAcks(h)'
  BY <1>0, <1>5, <1>6, AcksPart DEF LedgerState
<1>9. LedgerVotes(h)'
  <2>1. VotesStay
    BY <1>1 DEF VotesStay, Counted
  <2> QED BY <1>0, <1>5, <1>6, <2>1, VotesStayPart DEF LedgerState
<1>10. LedgerMatches(h)'
  <2>1. \A m \in Node : role'[m] = "leader" =>
           /\ role[m] = "leader" /\ term'[m] = term[m] /\ log'[m] = log[m]
           /\ matchIndex'[m] = matchIndex[m]
    BY <1>1
  <2>2. \A a \in replies' : a.req.kind = "append" /\ role'[a.req.from] = "leader" /\ a.resp.ok =>
           a \in replies /\ role[a.req.from] = "leader" /\ term'[a.req.from] = term[a.req.from]
    BY <1>1
  <2>3. \A c \in calls' : c.req.kind = "append" /\ role'[c.req.from] = "leader" =>
           \/ c \in calls /\ role[c.req.from] = "leader" /\ term'[c.req.from] = term[c.req.from]
           \/ c.req.term = term'[c.req.from]
    BY <1>1, <1>2
  <2> QED BY <1>0, <1>5, <2>1, <2>2, <2>3, MatchesPart DEF LedgerState
<1>11. LedgerCommits(h)'
  <2>1. \A c \in calls' \cup late' : c.req.kind = "append" =>
            \/ c \in calls \cup late
            \/ /\ Settled(h.full[c.req.term], c.req.leaderCommit, c.req.term, h)
               /\ c.req.leaderCommit <= commitIndex'[c.req.from]
    BY <1>1, <1>2, <1>3, <1>4, <1>6
  <2> QED BY <1>0, <1>5, <1>6, <2>1, CommitsPart DEF LedgerState
<1> QED BY <1>7, <1>8, <1>9, <1>10, <1>11 DEF LedgerState

-----------------------------------------------------------------------------
(* The steps of receivers. *)

\* Without a foreign tail, what an accepted request leaves past its reach is
\* in the sender's log.
LEMMA TailFact ==
  ASSUME TypeOK, NEW d \in Node, NEW r \in AppendRequest, AppendOk(log[d], r),
         ~ForeignTail(d, r)
  PROVE  \A i \in (Reach(r) + 1)..Len(LogAfter(log[d], r)) :
            i <= Len(log[r.from]) /\ LogAfter(log[d], r)[i] = log[r.from][i]
<1> DEFINE la == LogAfter(log[d], r)
<1>1. \A i \in (r.prevLogIndex + Len(r.entries) + 1)..Len(la) :
         ~(i > Len(log[r.from]) \/ log[r.from][i] # la[i])
  BY DEF ForeignTail
<1>2. Reach(r) = r.prevLogIndex + Len(r.entries) /\ Reach(r) \in Nat
  BY DEF Reach, AppendRequest
<1>3. \A i \in (Reach(r) + 1)..Len(la) : ~(i > Len(log[r.from])) /\ log[r.from][i] = la[i]
  BY <1>1, <1>2
<1> HIDE DEF la
<1>4. \A i \in (Reach(r) + 1)..Len(la) : i \in Int
  BY <1>2
<1>5. Len(log[r.from]) \in Nat
  <2>1. r.from \in Node
    BY DEF AppendRequest
  <2> QED BY <2>1, CommitTypes
<1> QED BY <1>3, <1>4, <1>5 DEF la

\* What the log of a node is after a request of its term or a newer one.
LEMMA TakeNode ==
  ASSUME NEW h, LedgerOK(h), TypeOK, RequestsFormed, LedgerState(h),
         NEW k \in calls \cup late, k.req.kind = "append", k.req.term >= term[k.to],
         ~ForeignTail(k.to, k.req)
  PROVE  LET d == k.to
             r == k.req
             la == LogAfter(log[d], r)
             c == IF AppendOk(log[d], r) THEN CommitAfter(d, r) ELSE commitIndex[d]
         IN /\ la \in Seq(Entry) /\ Backed(la, h) /\ AcksKept(d, la, r.term + 1, h)
            /\ c \in Nat /\ commitIndex[d] <= c /\ Settled(la, c, r.term, h)
<1> DEFINE d == k.to
           r == k.req
           l == log[d]
           u == r.term
           la == LogAfter(l, r)
           f == k.req.from
<1>0. /\ d \in Node /\ f \in Node /\ r \in AppendRequest /\ u \in Nat /\ r.leaderCommit \in Nat
      /\ l \in Seq(Entry) /\ term[d] \in Nat /\ commitIndex[d] \in Nat
      /\ log[f] \in Seq(Entry) /\ Len(log[f]) \in Nat
      /\ commitIndex[f] \in Nat /\ term[f] \in Nat /\ h \in Ledger
  BY CommitTypes DEF LedgerOK
<1>1. FormedRequest(r) /\ term[d] <= u
  BY <1>0 DEF RequestsFormed
<1>2. u \in h.terms /\ SliceOf(r, h.full[u])
  BY DEF LedgerState, LedgerLogs
<1>3. Backed(l, h) /\ Settled(l, commitIndex[d], term[d], h) /\ AcksKept(d, l, term[d] + 1, h)
      /\ \A t, i \in Nat : <<d, t, i>> \in h.acks => t <= term[d]
  BY <1>0 DEF LedgerState, LedgerLogs, LedgerCommits, LedgerAcks
<1>4. Settled(h.full[u], r.leaderCommit, u, h) /\ r.leaderCommit <= commitIndex[f]
      /\ Settled(log[f], commitIndex[f], term[f], h)
  BY <1>0 DEF LedgerState, LedgerCommits
<1>5. h.full[u] \in Seq(Entry) /\ Backed(h.full[u], h)
  BY <1>0, <1>2, LedgerType DEF LedgerOK, Tenure
<1>t. AppendOk(l, r) => \A i \in (Reach(r) + 1)..Len(la) : i <= Len(log[f]) /\ la[i] = log[f][i]
  BY <1>0, TailFact
<1>6. la \in Seq(Entry) /\ Len(la) \in Nat
  BY <1>0, LogAfterType
<1>7. Backed(la, h)
  <2>1. Agree(l, h.full[u])
    BY <1>0, <1>3, <1>5, BackedAgree
  <2>2. Begins(l, l)
    BY <1>0 DEF Begins
  <2>3. Begins(la, l) \/ Begins(la, h.full[u])
    BY <1>0, <1>1, <1>2, <1>5, <2>1, <2>2, LogAfterBegins
  <2> QED BY <1>0, <1>3, <1>5, <1>6, <2>3, BackedBeginning
<1>8. AcksKept(d, la, u + 1, h)
  BY <1>0, <1>1, <1>2, <1>3, TakeKept
<1>9. Settled(la, commitIndex[d], u, h)
  BY <1>0, <1>1, <1>2, <1>3, TakeSettled
<1>10. commitIndex[d] <= Len(la)
  BY <1>0, <1>6, <1>9 DEF Settled, Same
<1>11. AppendOk(l, r) => Settled(la, Min2(r.leaderCommit, Len(la)), u, h)
  BY <1>0, <1>1, <1>2, <1>3, <1>4, <1>t, TakeCommits
<1> DEFINE c == IF AppendOk(l, r) THEN CommitAfter(d, r) ELSE commitIndex[d]
<1>12. c = commitIndex[d] \/ (AppendOk(l, r) /\ r.leaderCommit > commitIndex[d]
                               /\ c = Min2(r.leaderCommit, Len(la)))
  BY DEF CommitAfter
<1> HIDE DEF c
<1>13. c \in Nat /\ commitIndex[d] <= c /\ Settled(la, c, u, h)
  BY <1>0, <1>6, <1>9, <1>10, <1>11, <1>12 DEF Min2
<1> QED BY <1>6, <1>7, <1>8, <1>13 DEF c

\* What handle_append does to the state, for the ledger.
TakenBy(k) ==
  /\ TakeStep(k)
  /\ calls' \subseteq calls /\ late' \subseteq late
  /\ \A a \in replies' : a \in replies \/
       (k \in calls /\ a = [to |-> k.to, req |-> k.req, resp |-> AppendResponse(k.to, k.req)])
  /\ UNCHANGED driverVars

\* The nodes after a request was handled.
LEMMA TakenFacts ==
  ASSUME TypeOK, NEW k \in calls \cup late, TakenBy(k), faults' = {}
  PROVE  LET d == k.to
             r == k.req
             c == IF AppendOk(log[d], r) THEN CommitAfter(d, r) ELSE commitIndex[d]
         IN /\ d \in Node /\ r \in AppendRequest /\ r.term \in Nat /\ r.kind = "append"
            /\ faults = {} /\ (r.term >= term[d] => ~ForeignTail(d, r))
            /\ matchIndex' = matchIndex /\ led' = led
            /\ \A m \in Node : m # d \/ r.term < term[d] =>
                  /\ term'[m] = term[m] /\ role'[m] = role[m] /\ log'[m] = log[m]
                  /\ commitIndex'[m] = commitIndex[m]
            /\ r.term >= term[d] =>
                  /\ term'[d] = r.term /\ role'[d] = "follower"
                  /\ log'[d] = LogAfter(log[d], r) /\ commitIndex'[d] = c
<1> DEFINE d == k.to
           r == k.req
           c == IF AppendOk(log[d], r) THEN CommitAfter(d, r) ELSE commitIndex[d]
           la == LogAfter(log[d], r)
<1>1. d \in Node /\ r \in AppendRequest /\ HandleAppend(d, r) /\ r.kind = "append"
  BY DEF TakenBy, TakeStep
<1>2. r.term \in Nat
  BY <1>1 DEF AppendRequest
<1>3. /\ term \in [Node -> Nat] /\ role \in [Node -> Role] /\ log \in [Node -> Seq(Entry)]
      /\ commitIndex \in [Node -> Nat] /\ term[d] \in Nat
  BY <1>1, CommitTypes
<1> HIDE DEF d, r
<1>4. /\ term' = [term EXCEPT ![d] = IF r.term >= term[d] THEN r.term ELSE @]
      /\ role' = [role EXCEPT ![d] = IF r.term >= term[d] THEN "follower" ELSE @]
      /\ log' = [log EXCEPT ![d] = IF r.term >= term[d] THEN la ELSE @]
      /\ commitIndex' = [commitIndex EXCEPT ![d] =
            IF r.term >= term[d] /\ AppendOk(log[d], r) THEN CommitAfter(d, r) ELSE @]
      /\ faults' = IF r.term >= term[d] /\ ForeignTail(d, r) THEN faults \cup {"foreign_tail"}
                                                             ELSE faults
      /\ matchIndex' = matchIndex /\ led' = led
  BY <1>1 DEF HandleAppend
<1> HIDE DEF la
<1>5. faults = {} /\ (r.term >= term[d] => ~ForeignTail(d, r))
  BY <1>4
<1>6. ASSUME r.term >= term[d]
      PROVE  term'[d] = r.term /\ role'[d] = "follower" /\ log'[d] = la /\ commitIndex'[d] = c
  BY <1>1, <1>3, <1>4, <1>6
<1>7. ASSUME NEW m \in Node, m # d \/ r.term < term[d]
      PROVE  /\ term'[m] = term[m] /\ role'[m] = role[m] /\ log'[m] = log[m]
             /\ commitIndex'[m] = commitIndex[m]
  BY <1>1, <1>2, <1>3, <1>4, <1>7
<1> HIDE DEF c
<1> QED BY <1>1, <1>2, <1>4, <1>5, <1>6, <1>7 DEF d, r, c, la

\* The request k.req is from the leader of its term, and is accepted.
Acknowledging(k) ==
  /\ k.req.term >= term[k.to] /\ AppendOk(log[k.to], k.req)
  /\ role[k.req.from] = "leader" /\ term[k.req.from] = k.req.term

\* A ledger in which only the acknowledgement of an accepted request of the
\* term's leader is new fits the state.
LEMMA TakeParts ==
  ASSUME NEW h, NEW g, LedgerOK(h), LogInv, TypeOK', LedgerState(h), faults' = {},
         NEW k \in calls \cup late, TakenBy(k),
         Later(h, g), LedgerOK(g), NewAcks(h, g), g.terms = h.terms,
         \A s \in h.terms : g.full[s] = h.full[s],
         Acknowledging(k) =>
            \A i \in 1..Len(LogAfter(log[k.to], k.req)) : <<k.to, k.req.term, i>> \in g.acks
  PROVE  LedgerState(g)'
<1> DEFINE d == k.to
           r == k.req
           u == r.term
           la == LogAfter(log[d], r)
           c == IF AppendOk(log[d], r) THEN CommitAfter(d, r) ELSE commitIndex[d]
           b == [to |-> d, req |-> r, resp |-> AppendResponse(d, r)]
<1>0. TypeOK /\ WinsPast /\ RequestsFormed
      /\ \A m \in Node : term[m] \in Nat /\ commitIndex[m] \in Nat /\ log[m] \in Seq(Entry)
  BY CommitTypes DEF LogInv, VoteInv
<1>1. /\ d \in Node /\ r \in AppendRequest /\ u \in Nat /\ r.kind = "append"
      /\ faults = {} /\ (u >= term[d] => ~ForeignTail(d, r))
      /\ matchIndex' = matchIndex /\ led' = led
      /\ \A m \in Node : m # d \/ u < term[d] =>
            /\ term'[m] = term[m] /\ role'[m] = role[m] /\ log'[m] = log[m]
            /\ commitIndex'[m] = commitIndex[m]
      /\ u >= term[d] =>
            term'[d] = u /\ role'[d] = "follower" /\ log'[d] = la /\ commitIndex'[d] = c
  BY <1>0, TakenFacts
<1>2. u >= term[d] =>
        /\ la \in Seq(Entry) /\ Backed(la, h) /\ AcksKept(d, la, u + 1, h)
        /\ c \in Nat /\ commitIndex[d] <= c /\ Settled(la, c, u, h)
  BY <1>0, <1>1, TakeNode
<1>3. u \in h.terms /\ r.from \in Node
  BY <1>0, <1>1, CommitTypes DEF LedgerState, LedgerLogs
<1>4. /\ calls' \subseteq calls /\ late' \subseteq late
      /\ \A a \in replies' : a \in replies \/ (k \in calls /\ a = b)
      /\ UNCHANGED <<electing, round, ballots>>
  BY DEF TakenBy, driverVars
<1>5. b.req = r /\ b.to = d /\ b.resp = AppendResponse(d, r)
  OBVIOUS
<1>6. u >= term[d] \/ u < term[d]
  BY <1>0, <1>1
<1>7. k \in calls /\ role[r.from] = "leader" => u = term[r.from]
  BY <1>1 DEF LedgerState, LedgerMatches
<1>8. b.resp.ok => u >= term[d] /\ AppendOk(log[d], r) /\ b.resp.match = Len(la)
  BY <1>6, <1>5 DEF AppendResponse
<1>9. u >= term[d] /\ AppendOk(log[d], r) /\ role[r.from] = "leader" /\ term[r.from] = u =>
        \A i \in 1..Len(la) : <<d, u, i>> \in g.acks
  BY DEF Acknowledging
<1> HIDE DEF d, r, u, la, c, b
<1>10. \A m \in Node : /\ term[m] <= term'[m] /\ commitIndex[m] <= commitIndex'[m]
                       /\ log'[m] = log[m] \/ (m = d /\ u >= term[d])
                       /\ role'[m] = "leader" =>
                            role[m] = "leader" /\ term'[m] = term[m] /\ log'[m] = log[m]
  <2> SUFFICES ASSUME NEW m \in Node
               PROVE  /\ term[m] <= term'[m] /\ commitIndex[m] <= commitIndex'[m]
                      /\ log'[m] = log[m] \/ (m = d /\ u >= term[d])
                      /\ role'[m] = "leader" =>
                           role[m] = "leader" /\ term'[m] = term[m] /\ log'[m] = log[m]
    OBVIOUS
  <2>1. CASE m # d \/ u < term[d]
    <3>1. term'[m] = term[m] /\ role'[m] = role[m] /\ log'[m] = log[m]
          /\ commitIndex'[m] = commitIndex[m]
      BY <1>1, <2>1
    <3> QED BY <1>0, <3>1
  <2>2. CASE m = d /\ u >= term[d]
    <3>1. term'[d] = u /\ role'[d] = "follower" /\ commitIndex'[d] = c /\ commitIndex[d] <= c
      BY <1>1, <1>2, <2>2
    <3> QED BY <2>2, <3>1
  <2> QED BY <1>6, <2>1, <2>2
<1>11. LedgerLogs(g)'
  <2>1. \A m \in Node : log'[m] = log[m] \/ Backed(log'[m], g)
    <3>1. u >= term[d] => Backed(la, g)
      BY <1>2, LaterBacked
    <3> QED BY <1>1, <1>10, <3>1
  <2>2. ASSUME NEW m \in Node, role'[m] = "leader"
        PROVE  /\ role[m] = "leader" /\ term'[m] = term[m] /\ log'[m] = log[m]
               /\ g.full[term[m]] = h.full[term[m]]
    BY <1>10, <2>2 DEF LedgerState, LedgerLogs
  <2>3. \A q \in calls' \cup late' : q \in calls \cup late
    BY <1>4
  <2> QED BY <1>0, <1>1, <2>1, <2>2, <2>3, LogsPart DEF LedgerState
<1>12. LedgerAcks(g)'
  <2>1. \A m \in Node : log'[m] = log[m] \/ AcksKept(m, log'[m], term'[m] + 1, h)
    BY <1>1, <1>2, <1>10
  <2> QED BY <1>0, <1>10, <2>1, AcksPart DEF LedgerState
<1>13. LedgerVotes(g)'
  <2>1. VotesStay
    <3> SUFFICES ASSUME NEW m \in Node PROVE Counted(m)' \subseteq Counted(m)
      BY <1>4 DEF VotesStay
    <3>1. \A a \in replies' : a.req.kind = "vote" => a \in replies
      BY <1>1, <1>4, <1>5
    <3> QED BY <1>4, <3>1 DEF Counted
  <2>2. \A m \in Node : log'[m] = log[m] \/ term'[m] \in g.terms
    BY <1>1, <1>3, <1>10
  <2> QED BY <1>0, <1>10, <2>1, <2>2, VotesStayPart DEF LedgerState
<1>14. LedgerMatches(g)'
  <2>1. \A m \in Node : role'[m] = "leader" =>
           /\ role[m] = "leader" /\ term'[m] = term[m] /\ log'[m] = log[m]
           /\ matchIndex'[m] = matchIndex[m]
    BY <1>1, <1>10
  <2>2. ASSUME NEW a \in replies', a.req.kind = "append", role'[a.req.from] = "leader", a.resp.ok
        PROVE  \/ /\ a \in replies /\ role[a.req.from] = "leader"
                  /\ term'[a.req.from] = term[a.req.from]
               \/ \A i \in 1..a.resp.match : <<a.to, term'[a.req.from], i>> \in g.acks
    <3>1. CASE a \in replies
      BY <1>0, <1>10, <2>2, <3>1, CommitTypes
    <3>2. CASE a = b /\ k \in calls
      <4>1. role[r.from] = "leader" /\ term'[r.from] = term[r.from] /\ term[r.from] = u
        BY <1>3, <1>5, <1>7, <1>10, <2>2, <3>2
      <4>2. u >= term[d] /\ AppendOk(log[d], r) /\ b.resp.match = Len(la)
        BY <1>8, <2>2, <3>2
      <4>3. \A i \in 1..Len(la) : <<d, u, i>> \in g.acks
        BY <1>9, <4>1, <4>2
      <4> QED BY <1>5, <3>2, <4>1, <4>2, <4>3
    <3> QED BY <1>4, <3>1, <3>2
  <2>3. \A q \in calls' : q.req.kind = "append" /\ role'[q.req.from] = "leader" =>
           q \in calls /\ role[q.req.from] = "leader" /\ term'[q.req.from] = term[q.req.from]
    BY <1>0, <1>4, <1>10, CommitTypes
  <2> QED BY <1>0, <2>1, <2>2, <2>3, MatchesPart DEF LedgerState
<1>15. LedgerCommits(g)'
  <2>1. \A m \in Node : \/ Begins(log[m], log'[m]) /\ commitIndex'[m] = commitIndex[m]
                        \/ Settled(log'[m], commitIndex'[m], term'[m], g)
    <3> SUFFICES ASSUME NEW m \in Node
                 PROVE  \/ Begins(log[m], log'[m]) /\ commitIndex'[m] = commitIndex[m]
                        \/ Settled(log'[m], commitIndex'[m], term'[m], g)
      OBVIOUS
    <3>1. CASE m # d \/ u < term[d]
      <4>1. log'[m] = log[m] /\ commitIndex'[m] = commitIndex[m] /\ log[m] \in Seq(Entry)
        BY <1>0, <1>1, <3>1
      <4> QED BY <4>1 DEF Begins
    <3>2. CASE m = d /\ u >= term[d]
      <4>1. Settled(la, c, u, g)
        <5>1. u \in Nat /\ u <= u /\ la \in Seq(Entry) /\ c \in Nat /\ Settled(la, c, u, h)
          BY <1>1, <1>2, <3>2
        <5> QED BY <5>1, LaterSettled
      <4> QED BY <1>1, <3>2, <4>1
    <3> QED BY <1>6, <3>1, <3>2
  <2>2. \A q \in calls' \cup late' : q \in calls \cup late
    BY <1>4
  <2> QED BY <1>0, <1>10, <2>1, <2>2, CommitsPart DEF LedgerState
<1> QED BY <1>11, <1>12, <1>13, <1>14, <1>15 DEF LedgerState

\* A node that accepts a request of the leader of its term acknowledges, in
\* the ledger, all of the log it then has; other requests change no ledger.
LEMMA TakeLedger ==
  ASSUME NEW h, LedgerOK(h), LogInv, TypeOK', LedgerState(h), faults' = {},
         NEW k \in calls \cup late, TakenBy(k)
  PROVE  \E g : LedgerOK(g) /\ LedgerState(g)'
<1>0. Later(h, h) /\ NewAcks(h, h) /\ h \in Ledger
  BY LaterSelf DEF NewAcks, LedgerOK
<1>1. CASE ~Acknowledging(k)
  <2>1. LedgerState(h)'
    BY <1>0, <1>1, TakeParts
  <2> QED BY <2>1
<1>2. CASE Acknowledging(k)
  <2> DEFINE d == k.to
             r == k.req
             u == r.term
             l == log[d]
             la == LogAfter(l, r)
             f == h.full[u]
             B == h.base[u]
             V == h.voters[u]
  <2>0. TypeOK /\ RequestsFormed /\ LedgerLogs(h) /\ LedgerAcks(h)
    BY DEF LogInv, VoteInv, LedgerState
  <2>1. /\ d \in Node /\ r \in AppendRequest /\ u \in Nat /\ r.kind = "append"
        /\ u >= term[d] /\ AppendOk(l, r) /\ ~ForeignTail(d, r)
        /\ role[r.from] = "leader" /\ term[r.from] = u
        /\ log'[d] = la /\ term'[d] = u
    BY <1>2, <2>0, TakenFacts DEF Acknowledging
  <2>2. r.from \in Node /\ l \in Seq(Entry) /\ term[d] \in Nat
    BY <2>0, <2>1, CommitTypes
  <2>3. u \in h.terms /\ SliceOf(r, f) /\ log[r.from] = f /\ Backed(l, h) /\ FormedRequest(r)
    BY <2>0, <2>1, <2>2 DEF LedgerLogs, RequestsFormed
  <2>4. f \in Seq(Entry) /\ B \in Seq(Entry) /\ V \in SUBSET Node /\ Len(f) \in Nat
    BY <1>0, <2>1, LedgerType
  <2>5. Tenure(u, h) /\ Backed(f, h)
    BY <2>3 DEF LedgerOK, Tenure
  <2>6. la \in Seq(Entry) /\ Len(la) \in Nat
    BY <2>1, <2>2, LogAfterType
  <2>7. Begins(la, f)
    <3>1. Agree(l, f)
      BY <1>0, <2>2, <2>3, <2>4, <2>5, BackedAgree
    <3>2. \A i \in (Reach(r) + 1)..Len(la) : i <= Len(f) /\ la[i] = f[i]
      BY <2>0, <2>1, <2>3, TailFact
    <3> QED BY <2>1, <2>2, <2>3, <2>4, <3>1, <3>2, WholeLog
  <2>8. \A s \in h.terms : d \in h.voters[s] => s <= u
    <3> SUFFICES ASSUME NEW s \in h.terms, d \in h.voters[s] PROVE s <= u
      OBVIOUS
    <3>1. s <= term[d]
      BY <2>0, <2>1 DEF LedgerAcks
    <3>2. s \in Nat
      BY <1>0 DEF Ledger
    <3> QED BY <2>1, <2>2, <3>1, <3>2
  <2> HIDE DEF d, r, u, l, la, f, B, V
  <2>9. PICK g : g = Grown(h, u, B, f, V, d, Len(la))
    OBVIOUS
  <2>10. Grew(h, g, u, B, f, V, d, Len(la))
    <3>1. u \in h.terms => B = h.base[u] /\ V = h.voters[u] /\ Begins(h.full[u], f)
      BY DEF B, V, f, Begins
    <3> QED BY <1>0, <2>1, <2>4, <2>6, <2>9, <3>1, GrownFacts
  <2>11. /\ Later(h, g) /\ g.terms = h.terms
         /\ g.base[u] = B /\ g.full[u] = f /\ g.voters[u] = V
         /\ \A s \in h.terms : g.full[s] = h.full[s]
         /\ \A p, s, i : <<p, s, i>> \in g.acks <=>
               <<p, s, i>> \in h.acks \/ (p = d /\ s = u /\ i \in 1..Len(la))
    BY <2>3, <2>10 DEF Grew, f
  <2>12. \A i \in 1..Len(la) : Same(la, f, i) /\ i <= Len(f)
    BY <2>4, <2>6, <2>7 DEF Same, Begins
  <2>13. NewAcks(h, g)
    BY <2>1, <2>11, <2>12 DEF NewAcks
  <2>14. Tenure(u, g)
    <3>1. Backed(f, g)
      BY <2>4, <2>5, <2>11, LaterBacked
    <3>2. ASSUME NEW q \in V PROVE AcksKept(q, B, u, g)
      <4>1. q \in Node /\ AcksKept(q, B, u, h) /\ u <= u
        BY <2>1, <2>4, <2>5, <3>2 DEF Tenure, B, V
      <4>2. \A t, i \in Nat : <<q, t, i>> \in g.acks /\ t < u =>
               (<<q, t, i>> \in h.acks /\ t < u) \/ Same(B, g.full[t], i)
        BY <2>1, <2>11
      <4> QED BY <2>1, <2>4, <2>11, <4>1, <4>2, LaterKept
    <3>3. /\ Begins(B, f) /\ Majority(V)
          /\ \A i \in 1..Len(f) : IF i <= Len(B) THEN f[i].term < u ELSE f[i].term = u
      BY <2>5 DEF Tenure, B, V, f
    <3> QED BY <2>11, <3>1, <3>2, <3>3 DEF Tenure
  <2>15. LedgerOK(g)
    <3>1. \A p \in Node : \A s, i \in Nat : <<p, s, i>> \in g.acks =>
              <<p, s, i>> \in h.acks \/ (p = d /\ s = u /\ i <= Len(g.full[u]))
      BY <2>11, <2>12
    <3>2. /\ u \in Nat /\ Later(h, g) /\ g.terms = h.terms \cup {u}
          /\ \A s \in h.terms : s # u => g.full[s] = h.full[s]
      BY <2>1, <2>3, <2>11
    <3> QED BY <2>1, <2>8, <2>14, <3>1, <3>2, LedgerGrows
  <2>16. \A i \in 1..Len(LogAfter(log[k.to], k.req)) : <<k.to, k.req.term, i>> \in g.acks
    BY <2>11 DEF d, r, u, l, la
  <2>17. LedgerState(g)'
    BY <2>11, <2>13, <2>15, <2>16, TakeParts
  <2> QED BY <2>15, <2>17
<1> QED BY <1>1, <1>2

-----------------------------------------------------------------------------
(* The answers to leaders. *)

\* The index a leader advances to is one it may commit, when there is any.
LEMMA AdvancedIn ==
  ASSUME TypeOK, NEW n \in Node, NEW m, Committable(n, m) # {}
  PROVE  AdvancedCommit(n, m) \in Committable(n, m)
<1>1. commitIndex[n] \in Nat /\ Len(log[n]) \in Nat
  BY DEF TypeOK
<1>2. Committable(n, m) \in SUBSET Nat /\ \A k \in Committable(n, m) : k <= Len(log[n])
  BY <1>1 DEF Committable
<1>3. \E i \in Committable(n, m) : \A k \in Committable(n, m) : i >= k
  BY <1>1, <1>2, GreatestNatural
<1> QED BY <1>3 DEF AdvancedCommit

\* What a majority of match indexes puts on a majority was chosen.
LEMMA CountLedger ==
  ASSUME NEW h, LedgerOK(h), TypeOK, LedgerState(h), NEW n \in Node, role[n] = "leader",
         NEW m \in [Node -> Nat],
         \A p \in Peers(n) : \A i \in 1..m[p] : <<p, term[n], i>> \in h.acks,
         NEW i \in Committable(n, m)
  PROVE  Settled(log[n], i, term[n], h)
<1> DEFINE u == term[n]
           l == log[n]
           P == {p \in Peers(n) : m[p] >= i}
           Q == P \cup {n}
<1>1. /\ u \in Nat /\ l \in Seq(Entry) /\ Len(l) \in Nat /\ commitIndex[n] \in Nat
      /\ h \in Ledger
  BY CommitTypes DEF LedgerOK
<1>2. u \in h.terms /\ l = h.full[u]
  BY DEF LedgerState, LedgerLogs
<1>3. /\ i \in (commitIndex[n] + 1)..Len(l) /\ l[i].term = u
      /\ 1 + Cardinality(P) >= CommitMajority
  BY DEF Committable
<1>4. i \in Nat /\ i \in 1..Len(l)
  BY <1>1, <1>3
<1>5. h.base[u] \in Seq(Entry) /\ Len(h.base[u]) \in Nat /\ Tenure(u, h)
  BY <1>1, <1>2, LedgerType DEF LedgerOK
<1>6. i \in Own(u, h)
  <2>1. i <= Len(h.base[u]) => l[i].term < u
    BY <1>2, <1>4, <1>5 DEF Tenure
  <2>2. ~(i <= Len(h.base[u]))
    BY <1>1, <1>3, <2>1
  <2> QED BY <1>1, <1>2, <1>4, <1>5, <2>2 DEF Own
<1>7. \A p \in Q : <<p, u, i>> \in h.acks
  <2>1. <<n, u, i>> \in h.acks
    BY <1>4 DEF LedgerState, LedgerMatches
  <2>2. ASSUME NEW p \in P PROVE <<p, u, i>> \in h.acks
    <3>1. p \in Peers(n) /\ m[p] >= i /\ m[p] \in Nat
      BY DEF Peers
    <3>2. i \in 1..m[p]
      BY <1>4, <3>1
    <3> QED BY <3>1, <3>2
  <2> QED BY <2>1, <2>2
<1>8. Majority(Q) /\ Q \in SUBSET Node
  <2>1. P \in SUBSET Node /\ n \notin P /\ IsFiniteSet(P)
    <3>1. P \in SUBSET Node /\ n \notin P
      BY DEF Peers
    <3> QED BY <3>1, NodeAssumption, FS_Subset
  <2> HIDE DEF P
  <2>2. Cardinality(Q) = Cardinality(P) + 1
    BY <2>1, FS_AddElement
  <2>3. Cardinality(P) \in Nat /\ Cardinality(Node) \in Nat
    BY <2>1, NodeAssumption, FS_CardinalityType
  <2> QED BY <1>3, <2>1, <2>2, <2>3 DEF Majority, CommitMajority
<1> HIDE DEF Q, P
<1>9. Chosen(u, i, h)
  BY <1>2, <1>6, <1>7, <1>8 DEF Chosen
<1>10. Same(l, h.full[u], i)
  BY <1>1, <1>2, <1>4 DEF Same
<1>11. u <= u /\ i <= i
  BY <1>1, <1>4
<1> HIDE DEF u, l
<1> QED BY <1>2, <1>4, <1>9, <1>10, <1>11 DEF Settled, u, l

\* A leader that counts an acknowledgement commits what was chosen.
LEMMA AckLedger ==
  ASSUME NEW h, LedgerOK(h), LogInv, TypeOK', LedgerState(h), faults' = {},
         NEW a \in replies, RecvAppend(a), TakeAck(a.req.from, a.to, a.resp)
  PROVE  LedgerState(h)'
<1> DEFINE n == a.req.from
           p == a.to
           s == a.resp
           m == Acked(n, p, s)
<1>0. /\ TypeOK /\ WinsPast /\ n \in Node /\ p \in Node /\ s.match \in Nat
      /\ commitIndex \in [Node -> Nat] /\ matchIndex \in [Node -> [Node -> Nat]]
      /\ \A q \in Node : term[q] \in Nat /\ commitIndex[q] \in Nat /\ log[q] \in Seq(Entry)
  BY CommitTypes DEF LogInv, VoteInv
<1>1. /\ matchIndex' = [matchIndex EXCEPT ![n] = m]
      /\ commitIndex' = [commitIndex EXCEPT ![n] = AdvancedCommit(n, m)]
      /\ UNCHANGED <<term, role, log, electing, round, ballots, calls, late, led>>
      /\ replies' = replies \ {a} /\ a.req.kind = "append"
      /\ faults = {} /\ (Committable(n, m) # {} => role[n] = "leader")
  BY DEF RecvAppend, TakeAck, driverVars
<1>2. m \in [Node -> Nat] /\ m = [matchIndex[n] EXCEPT ![p] = IF s.ok THEN s.match ELSE @]
  <2>1. matchIndex[n] \in [Node -> Nat]
    BY <1>0
  <2> QED BY <1>0, <2>1 DEF Acked
<1>3. role[n] = "leader" =>
        \A q \in Peers(n) : \A i \in 1..m[q] : <<q, term[n], i>> \in h.acks
  <2> SUFFICES ASSUME role[n] = "leader", NEW q \in Peers(n), NEW i \in 1..m[q]
               PROVE  <<q, term[n], i>> \in h.acks
    OBVIOUS
  <2>1. q \in Node /\ matchIndex[n] \in [Node -> Nat]
    BY <1>0 DEF Peers
  <2>2. CASE q = p /\ s.ok
    <3>1. m[q] = s.match
      BY <1>2, <2>1, <2>2
    <3>2. \A j \in 1..s.match : <<p, term[n], j>> \in h.acks
      BY <1>1, <2>2 DEF LedgerState, LedgerMatches
    <3> QED BY <2>2, <3>1, <3>2
  <2>3. CASE ~(q = p /\ s.ok)
    <3>1. m[q] = matchIndex[n][q]
      BY <1>2, <2>1, <2>3
    <3>2. \A j \in 1..matchIndex[n][q] : <<q, term[n], j>> \in h.acks
      BY <1>0 DEF LedgerState, LedgerMatches
    <3>3. i \in 1..matchIndex[n][q]
      BY <3>1
    <3> QED BY <3>2, <3>3
  <2> QED BY <2>2, <2>3
<1> HIDE DEF n, p, s, m
<1>4. /\ commitIndex[n] <= AdvancedCommit(n, m)
      /\ AdvancedCommit(n, m) = commitIndex[n]
         \/ Settled(log[n], AdvancedCommit(n, m), term[n], h)
  <2>1. CASE Committable(n, m) = {}
    BY <1>0, <2>1 DEF AdvancedCommit
  <2>2. CASE Committable(n, m) # {}
    <3> DEFINE c == AdvancedCommit(n, m)
    <3>1. role[n] = "leader"
      BY <1>1, <2>2
    <3>2. c \in Committable(n, m)
      BY <1>0, <1>2, <2>2, AdvancedIn
    <3>3. Settled(log[n], c, term[n], h)
      BY <1>0, <1>2, <1>3, <3>1, <3>2, CountLedger
    <3>4. c \in (commitIndex[n] + 1)..Len(log[n])
      BY <3>2 DEF Committable
    <3> HIDE DEF c
    <3>5. commitIndex[n] <= c
      BY <1>0, <3>4
    <3> QED BY <3>3, <3>5 DEF c
  <2> QED BY <2>1, <2>2
<1>5. Later(h, h) /\ NewAcks(h, h)
  BY LaterSelf DEF NewAcks, LedgerOK
<1>6. \A q \in Node : /\ term[q] <= term'[q] /\ commitIndex[q] <= commitIndex'[q]
                      /\ log'[q] = log[q] /\ Begins(log[q], log'[q])
                      /\ \/ commitIndex'[q] = commitIndex[q]
                         \/ Settled(log'[q], commitIndex'[q], term'[q], h)
  <2> SUFFICES ASSUME NEW q \in Node
               PROVE  /\ term[q] <= term'[q] /\ commitIndex[q] <= commitIndex'[q]
                      /\ log'[q] = log[q] /\ Begins(log[q], log'[q])
                      /\ \/ commitIndex'[q] = commitIndex[q]
                         \/ Settled(log'[q], commitIndex'[q], term'[q], h)
    OBVIOUS
  <2>1. term[q] <= term'[q] /\ log'[q] = log[q] /\ term'[q] = term[q]
    BY <1>0, <1>1
  <2>2. Begins(log[q], log'[q])
    BY <1>0, <2>1 DEF Begins
  <2>3. CASE q = n
    <3>1. commitIndex'[q] = AdvancedCommit(n, m)
      BY <1>0, <1>1, <2>3
    <3> QED BY <1>4, <2>1, <2>2, <2>3, <3>1
  <2>4. CASE q # n
    <3>1. commitIndex'[q] = commitIndex[q]
      BY <1>0, <1>1, <2>4
    <3> QED BY <1>0, <2>1, <2>2, <3>1
  <2> QED BY <2>3, <2>4
<1>7. LedgerLogs(h)'
  <2>1. \A c \in calls' \cup late' : c \in calls \cup late
    BY <1>1
  <2>2. led \subseteq led' /\ \A q \in Node : role'[q] = "leader" =>
            role[q] = "leader" /\ term'[q] = term[q] /\ log'[q] = log[q]
    BY <1>1
  <2> QED BY <1>0, <1>5, <1>6, <2>1, <2>2, LogsPart DEF LedgerState
<1>8. LedgerAcks(h)'
  BY <1>0, <1>5, <1>6, AcksPart DEF LedgerState
<1>9. LedgerVotes(h)'
  <2>1. VotesStay
    BY <1>1 DEF VotesStay, Counted
  <2> QED BY <1>0, <1>5, <1>6, <2>1, VotesStayPart DEF LedgerState
<1>10. LedgerMatches(h)'
  <2>1. ASSUME NEW q \in Node, role'[q] = "leader"
        PROVE  \/ /\ role[q] = "leader" /\ term'[q] = term[q] /\ log'[q] = log[q]
                  /\ matchIndex'[q] = matchIndex[q]
               \/ /\ \A i \in 1..Len(log'[q]) : <<q, term'[q], i>> \in h.acks
                  /\ \A o \in Peers(q) : \A i \in 1..matchIndex'[q][o] :
                        <<o, term'[q], i>> \in h.acks
    <3>1. CASE q = n
      <4>1. role[n] = "leader" /\ matchIndex'[n] = m
        BY <1>0, <1>1, <2>1, <3>1
      <4>2. \A i \in 1..Len(log[n]) : <<n, term[n], i>> \in h.acks
        BY <1>0, <4>1 DEF LedgerState, LedgerMatches
      <4> QED BY <1>1, <1>3, <3>1, <4>1, <4>2
    <3>2. CASE q # n
      BY <1>0, <1>1, <2>1, <3>2
    <3> QED BY <3>1, <3>2
  <2>2. \A b \in replies' : b.req.kind = "append" /\ role'[b.req.from] = "leader" /\ b.resp.ok =>
           b \in replies /\ role[b.req.from] = "leader" /\ term'[b.req.from] = term[b.req.from]
    BY <1>1
  <2>3. \A c \in calls' : c.req.kind = "append" /\ role'[c.req.from] = "leader" =>
           c \in calls /\ role[c.req.from] = "leader" /\ term'[c.req.from] = term[c.req.from]
    BY <1>1
  <2> QED BY <1>0, <1>5, <2>1, <2>2, <2>3, MatchesPart DEF LedgerState
<1>11. LedgerCommits(h)'
  <2>1. \A c \in calls' \cup late' : c \in calls \cup late
    BY <1>1
  <2> QED BY <1>0, <1>5, <1>6, <2>1, CommitsPart DEF LedgerState
<1> QED BY <1>7, <1>8, <1>9, <1>10, <1>11 DEF LedgerState

-----------------------------------------------------------------------------
(* The invariant. *)

\* Unless a hazard was met, there is a ledger that fits the state.
CommitInv == LogInv /\ (faults = {} => \E h : LedgerOK(h) /\ LedgerState(h))

\* A hazard met is not forgotten.
LEMMA FaultsStay == [Next]_vars => faults \subseteq faults'
BY DEF Next, vars, nodeVars, driverVars, netVars, histVars, StartElection, SendVote,
   AnswerVote, AnswerLateVote, HandleVoteRequest, RecvVote, FinishElection, AppendEntry,
   SendAppend, AnswerAppend, AnswerLateAppend, HandleAppend, RecvAppend, StepDown, TakeAck,
   CallFails, CallOutlivesCaller

\* A step that changes no node is calm when no append call or answer is new.
LEMMA QuietCalm ==
  ASSUME TypeOK, UNCHANGED <<nodeVars, led>>,
         \A c \in calls' : c.req.kind = "append" => c \in calls,
         \A c \in late' : c.req.kind = "append" => c \in calls \cup late,
         \A a \in replies' : a.req.kind = "append" => a \in replies
  PROVE  CalmStep
<1>1. \A n \in Node : term[n] \in Nat
  BY CommitTypes
<1> QED BY <1>1 DEF CalmStep, nodeVars

\* Votes stay when no round begins, no vote is counted and no answer is new.
LEMMA DriverStays ==
  ASSUME UNCHANGED <<electing, round, ballots>>,
         \A a \in replies' : a.req.kind = "vote" /\ a.resp.ok => a \in replies
  PROVE  VotesStay
BY DEF VotesStay, Counted

\* Every step of the cluster has a ledger after it.
LEMMA NextLedger ==
  ASSUME NEW h, LedgerOK(h), LogInv, LogInv', OneWinnerPerRound', [Next]_vars,
         LedgerState(h), faults = {}, faults' = {}
  PROVE  \E g : LedgerOK(g) /\ LedgerState(g)'
<1>0. TypeOK /\ TypeOK' /\ WinsPast
  BY DEF LogInv, VoteInv
<1>1. ASSUME CalmStep, VotesStay PROVE \E g : LedgerOK(g) /\ LedgerState(g)'
  <2>1. LedgerState(h)'
    BY <1>0, <1>1, CalmState
  <2> QED BY <2>1
<1>2. ASSUME NEW n \in Node, StartElection(n) PROVE \E g : LedgerOK(g) /\ LedgerState(g)'
  BY <1>0, <1>2, StartLedger
<1>3. ASSUME NEW n \in Node, NEW p \in Node, SendVote(n, p) PROVE CalmStep /\ VotesStay
  <2>1. round[n].kind = "vote"
    BY <1>0 DEF TypeOK, VoteRequest
  <2>2. CalmStep
    <3>1. UNCHANGED <<nodeVars, led>> /\ late' = late /\ replies' = replies
      BY <1>3 DEF SendVote, histVars
    <3>2. \A c \in calls' : c.req.kind = "append" => c \in calls
      <4>1. calls' = calls \cup {[to |-> p, req |-> round[n]]}
        BY <1>3 DEF SendVote
      <4>2. [to |-> p, req |-> round[n]].req.kind = "vote"
        BY <2>1
      <4> QED BY <4>1, <4>2
    <3> QED BY <1>0, <3>1, <3>2, QuietCalm
  <2>3. VotesStay
    BY <1>3, DriverStays DEF SendVote
  <2> QED BY <2>2, <2>3
<1>4. ASSUME NEW c \in calls, AnswerVote(c) PROVE \E g : LedgerOK(g) /\ LedgerState(g)'
  BY <1>0, <1>4, AnswerVoteLedger
<1>5. ASSUME NEW c \in late, AnswerLateVote(c) PROVE CalmStep /\ VotesStay
  <2>1. c.to \in Node /\ c.req \in VoteRequest /\ HandleVoteRequest(c.to, c.req)
    BY <1>0, <1>5 DEF AnswerLateVote, TypeOK, Call, AppendRequest
  <2>2. late' \subseteq late /\ calls' = calls /\ replies' = replies /\ UNCHANGED driverVars
    BY <1>5 DEF AnswerLateVote
  <2>3. CalmStep
    BY <1>0, <2>1, <2>2, VoteCalm
  <2>4. VotesStay
    BY <2>2, DriverStays DEF driverVars
  <2> QED BY <2>3, <2>4
<1>6. ASSUME NEW a \in replies, RecvVote(a) PROVE CalmStep /\ VotesStay
  <2> DEFINE n == a.req.from
  <2>1. /\ n \in Node /\ a.to \in Node /\ a.req.kind = "vote"
        /\ ballots \in [Node -> SUBSET Node]
    BY <1>0, <1>6, CommitTypes DEF RecvVote
  <2>2. /\ replies' = replies \ {a} /\ UNCHANGED <<nodeVars, electing, round, calls, late, led>>
        /\ ballots' = [ballots EXCEPT ![n] = IF a.resp.ok THEN @ \cup {a.to} ELSE @]
    BY <1>6 DEF RecvVote, histVars
  <2>3. CalmStep
    BY <1>0, <2>2, QuietCalm
  <2>4. ASSUME NEW m \in Node PROVE Counted(m)' \subseteq Counted(m)
    <3>1. ballots'[m] \subseteq Counted(m)
      <4>1. CASE m = n /\ a.resp.ok
        BY <1>6, <2>1, <2>2, <4>1 DEF Counted
      <4>2. CASE ~(m = n /\ a.resp.ok)
        <5>1. ballots'[m] = ballots[m]
          BY <2>1, <2>2, <4>2
        <5> QED BY <5>1 DEF Counted
      <4> QED BY <4>1, <4>2
    <3>2. \A b \in replies' : b \in replies
      BY <2>2
    <3> QED BY <3>1, <3>2 DEF Counted
  <2>5. VotesStay
    BY <2>2, <2>4 DEF VotesStay
  <2> QED BY <2>3, <2>5
<1>7. ASSUME NEW n \in Node, FinishElection(n) PROVE \E g : LedgerOK(g) /\ LedgerState(g)'
  <2>1. CASE WinStep(n)
    BY <1>0, <2>1, WinLedger
  <2>2. CASE ~WinStep(n)
    <3>1. /\ UNCHANGED <<nodeVars, led, calls, late, replies>>
          /\ electing' = [electing EXCEPT ![n] = FALSE]
          /\ round' = [round EXCEPT ![n] = NoRound(n)]
          /\ ballots' = [ballots EXCEPT ![n] = {}]
      BY <1>7, <2>2 DEF FinishElection, WinStep, netVars
    <3>2. CalmStep
      BY <1>0, <3>1, QuietCalm
    <3>3. ASSUME NEW m \in Node, electing'[m]
          PROVE  electing[m] /\ round'[m] = round[m] /\ Counted(m)' \subseteq Counted(m)
      <4>1. /\ electing \in [Node -> BOOLEAN] /\ round \in [Node -> VoteRequest]
            /\ ballots \in [Node -> SUBSET Node]
        BY <1>0, CommitTypes
      <4>2. m # n /\ electing[m]
        BY <3>1, <3>3, <4>1
      <4>3. round'[m] = round[m] /\ ballots'[m] = ballots[m] /\ replies' = replies
        BY <3>1, <4>1, <4>2
      <4> QED BY <4>2, <4>3 DEF Counted
    <3> QED BY <1>1, <3>2, <3>3 DEF VotesStay
  <2> QED BY <2>1, <2>2
<1>8. ASSUME NEW n \in Node, NEW v \in Value, AppendEntry(n, v)
      PROVE  \E g : LedgerOK(g) /\ LedgerState(g)'
  BY <1>0, <1>8, WriteLedger
<1>9. ASSUME NEW n \in Node, NEW p \in Node, SendAppend(n, p)
      PROVE  \E g : LedgerOK(g) /\ LedgerState(g)'
  BY <1>0, <1>9, SendLedger
<1>10. ASSUME NEW c \in calls \cup late, TakenBy(c)
       PROVE  \E g : LedgerOK(g) /\ LedgerState(g)'
  BY <1>0, <1>10, TakeLedger
<1>11. ASSUME NEW c \in calls, AnswerAppend(c) PROVE TakenBy(c)
  <2>1. c.to \in Node /\ c.req \in AppendRequest
    BY <1>0, <1>11 DEF AnswerAppend, TypeOK, Call, VoteRequest
  <2> QED BY <1>11, <2>1 DEF AnswerAppend, TakenBy, TakeStep
<1>12. ASSUME NEW c \in late, AnswerLateAppend(c) PROVE TakenBy(c)
  <2>1. c.to \in Node /\ c.req \in AppendRequest
    BY <1>0, <1>12 DEF AnswerLateAppend, TypeOK, Call, VoteRequest
  <2> QED BY <1>12, <2>1 DEF AnswerLateAppend, TakenBy, TakeStep
<1>13. ASSUME NEW a \in replies, RecvAppend(a) PROVE \E g : LedgerOK(g) /\ LedgerState(g)'
  <2>1. CASE TakeAck(a.req.from, a.to, a.resp)
    BY <1>0, <1>13, <2>1, AckLedger
  <2>2. CASE StepDown(a.req.from, a.resp)
    <3> DEFINE n == a.req.from
    <3>1. /\ a.resp.term > term[n]
          /\ term' = [term EXCEPT ![n] = a.resp.term]
          /\ role' = [role EXCEPT ![n] = "follower"]
          /\ UNCHANGED <<commitIndex, matchIndex, log, led, calls, late, driverVars>>
          /\ replies' \subseteq replies
      BY <1>13, <2>2 DEF StepDown, RecvAppend
    <3>2. CalmStep
      <4>1. n \in Node /\ term \in [Node -> Nat] /\ role \in [Node -> Role] /\ a.resp.term \in Nat
        <5>1. a.resp \in Response
          BY <1>0, TrafficType
        <5> QED BY <1>0, <5>1, CommitTypes DEF Response
      <4>2. \A m \in Node : /\ term[m] <= term'[m]
                            /\ role'[m] = "leader" => role[m] = "leader" /\ term'[m] = term[m]
        BY <3>1, <4>1
      <4> QED BY <3>1, <4>2 DEF CalmStep
    <3>3. VotesStay
      BY <3>1, DriverStays DEF driverVars
    <3> QED BY <1>1, <3>2, <3>3
  <2> QED BY <1>13, <2>1, <2>2 DEF RecvAppend
<1>14. ASSUME NEW c \in calls \cup replies, CallFails(c) PROVE CalmStep /\ VotesStay
  <2>1. /\ UNCHANGED <<nodeVars, led, late, electing, round, ballots>>
        /\ calls' \subseteq calls /\ replies' \subseteq replies
    BY <1>14 DEF CallFails, driverVars, histVars
  <2> QED BY <1>0, <2>1, QuietCalm, DriverStays
<1>15. ASSUME NEW c \in calls, CallOutlivesCaller(c) PROVE CalmStep /\ VotesStay
  <2>1. /\ UNCHANGED <<nodeVars, led, replies, electing, round, ballots>>
        /\ calls' \subseteq calls /\ late' = late \cup {c}
    BY <1>15 DEF CallOutlivesCaller, driverVars, histVars
  <2> QED BY <1>0, <2>1, QuietCalm, DriverStays
<1>16. CASE UNCHANGED vars
  <2>1. UNCHANGED <<nodeVars, led, calls, late, replies, electing, round, ballots>>
    BY <1>16 DEF vars, driverVars, netVars, histVars
  <2>2. CalmStep
    BY <1>0, <2>1, QuietCalm
  <2>3. VotesStay
    BY <2>1, DriverStays
  <2> QED BY <1>1, <2>2, <2>3
<1>17. CASE Next
  BY <1>1, <1>2, <1>3, <1>4, <1>5, <1>6, <1>7, <1>8, <1>9, <1>10, <1>11, <1>12, <1>13,
     <1>14, <1>15, <1>17 DEF Next
<1> QED BY <1>16, <1>17

\* Every step keeps a ledger that fits, until a hazard is met.
LEMMA NextCommit == CommitInv /\ [Next]_vars => CommitInv'
<1> SUFFICES ASSUME CommitInv, [Next]_vars PROVE CommitInv'
  OBVIOUS
<1>1. LogInv /\ LogInv'
  BY NextLog DEF CommitInv
<1>2. OneWinnerPerRound'
  <2>1. (VoteInv /\ RoundParts => OneWinnerPerRound)'
    BY WinnersUnique, PTL DEF VoteInv, RoundParts
  <2> QED BY <1>1, <2>1 DEF LogInv
<1>3. ASSUME faults' = {} PROVE \E h : LedgerOK(h)' /\ LedgerState(h)'
  <2>1. faults = {}
    BY <1>3, FaultsStay
  <2>2. PICK h : LedgerOK(h) /\ LedgerState(h)
    BY <2>1 DEF CommitInv
  <2>3. \E g : LedgerOK(g) /\ LedgerState(g)'
    BY <1>1, <1>2, <1>3, <2>1, <2>2, NextLedger
  <2>4. PICK g : LedgerOK(g) /\ LedgerState(g)'
    BY <2>3
  <2>5. LedgerOK(g)'
    BY <2>4 DEF LedgerOK, Tenure, AcksKept, Lost, Own, Majority, Backed
  <2> QED BY <2>4, <2>5
<1> QED BY <1>1, <1>3 DEF CommitInv

\* No term had a leader yet.
Unwritten ==
  [full |-> [t \in Nat |-> << >>], base |-> [t \in Nat |-> << >>],
   voters |-> [t \in Nat |-> {}], acks |-> {}, terms |-> {}]

\* The empty ledger fits the initial states.
LEMMA InitLedger == Init => LedgerOK(Unwritten) /\ LedgerState(Unwritten)
<1> SUFFICES ASSUME Init PROVE LedgerOK(Unwritten) /\ LedgerState(Unwritten)
  OBVIOUS
<1>1. Unwritten.terms = {} /\ Unwritten.acks = {}
  BY DEF Unwritten
<1>2. LedgerOK(Unwritten)
  <2>1. Unwritten \in Ledger
    <3>1. << >> \in Seq(Entry)
      OBVIOUS
    <3>2. /\ [t \in Nat |-> << >>] \in [Nat -> Seq(Entry)]
          /\ [t \in Nat |-> {}] \in [Nat -> SUBSET Node]
          /\ {} \in SUBSET (Node \X Nat \X Nat) /\ {} \in SUBSET Nat
      BY <3>1
    <3> QED BY <3>2 DEF Unwritten, Ledger
  <2> QED BY <1>1, <2>1 DEF LedgerOK
<1>3. /\ calls = {} /\ late = {} /\ replies = {}
      /\ \A n \in Node : log[n] = << >> /\ role[n] # "leader" /\ commitIndex[n] = 0
                         /\ ~electing[n]
  BY DEF Init
<1>4. LedgerLogs(Unwritten)
  BY <1>1, <1>3 DEF LedgerLogs, Backed
<1>5. LedgerAcks(Unwritten)
  BY <1>1 DEF LedgerAcks, AcksKept
<1>6. LedgerVotes(Unwritten)
  BY <1>3 DEF LedgerVotes, Candidate
<1>7. LedgerMatches(Unwritten)
  BY <1>3 DEF LedgerMatches
<1>8. LedgerCommits(Unwritten)
  BY <1>3 DEF LedgerCommits, Settled
<1> QED BY <1>2, <1>4, <1>5, <1>6, <1>7, <1>8 DEF LedgerState

\* A node that acknowledged a chosen entry has it, with all before it.
LEMMA ChosenKept ==
  ASSUME NEW h, LedgerOK(h), LedgerState(h), TypeOK, NEW t, NEW k, Chosen(t, k, h),
         NEW p \in Node, <<p, t, k>> \in h.acks
  PROVE  Same(log[p], h.full[t], k)
<1>1. h \in Ledger /\ t \in Nat /\ t \in h.terms /\ k \in Own(t, h)
  BY DEF LedgerOK, Chosen, Ledger
<1>2. k \in Nat /\ term[p] \in Nat
  BY <1>1, CommitTypes, LedgerType DEF Own
<1>3. t < term[p] + 1 /\ AcksKept(p, log[p], term[p] + 1, h)
  <2>1. t <= term[p] /\ AcksKept(p, log[p], term[p] + 1, h)
    BY <1>1, <1>2 DEF LedgerState, LedgerAcks
  <2> QED BY <1>1, <1>2, <2>1
<1>4. Same(log[p], h.full[t], k) \/ Lost(t, k, term[p] + 1, h)
  BY <1>1, <1>3 DEF AcksKept
<1>5. ~Lost(t, k, term[p] + 1, h)
  BY ChosenHeld DEF Lost
<1> QED BY <1>4, <1>5

\* What a node has committed is in its log and on a majority of the logs, and
\* stays there, in every cluster that met no late win, no foreign tail and no
\* count by a node that is not leader: the vote and commit rules of the code
\* lose no committed entry.
THEOREM CommitsKept == Spec => []CommitDurable
<1>1. Init => CommitInv
  BY InitLog, InitLedger DEF CommitInv
<1>2. ASSUME CommitInv, faults = {}, NEW n \in Node, NEW i \in 1..commitIndex[n]
      PROVE  i <= Len(log[n]) /\ OnMajority(log[n][i])
  <2>0. /\ TypeOK /\ LogWellFormed /\ log[n] \in Seq(Entry) /\ commitIndex[n] \in Nat
        /\ Len(log[n]) \in Nat /\ i \in Nat
    BY <1>2, CommitTypes DEF CommitInv, LogInv, VoteInv
  <2>1. PICK h : LedgerOK(h) /\ LedgerState(h)
    BY <1>2 DEF CommitInv
  <2>2. Settled(log[n], commitIndex[n], term[n], h)
    BY <2>1 DEF LedgerState, LedgerCommits
  <2>3. PICK t \in h.terms : \E k \in Nat :
           Chosen(t, k, h) /\ commitIndex[n] <= k /\ Same(log[n], h.full[t], commitIndex[n])
    BY <2>0, <2>2 DEF Settled
  <2>4. PICK k \in Nat :
           Chosen(t, k, h) /\ commitIndex[n] <= k /\ Same(log[n], h.full[t], commitIndex[n])
    BY <2>3
  <2>5. PICK Q \in SUBSET Node : Majority(Q) /\ \A p \in Q : <<p, t, k>> \in h.acks
    BY <2>4 DEF Chosen
  <2>6. i <= Len(log[n]) /\ i <= k /\ log[n][i] = h.full[t][i]
    BY <2>0, <2>4 DEF Same
  <2>7. log[n][i].index = i
    BY <2>0, <2>6 DEF LogWellFormed
  <2>8. Q \subseteq Holders(log[n][i])
    <3> SUFFICES ASSUME NEW p \in Q PROVE p \in Holders(log[n][i])
      OBVIOUS
    <3>1. Same(log[p], h.full[t], k)
      BY <2>0, <2>1, <2>4, <2>5, ChosenKept
    <3>2. i <= Len(log[p]) /\ log[p][i] = h.full[t][i]
      <4>1. Len(log[p]) \in Nat
        BY <2>0, CommitTypes
      <4> QED BY <2>0, <2>6, <3>1, <4>1 DEF Same
    <3> QED BY <2>6, <2>7, <3>2 DEF Holders
  <2>9. Holders(log[n][i]) \in SUBSET Node
    BY DEF Holders
  <2> DEFINE H == Holders(log[n][i])
  <2> HIDE DEF H
  <2>10. Cardinality(Q) <= Cardinality(H) /\ Cardinality(Q) \in Nat
         /\ Cardinality(H) \in Nat /\ Cardinality(Node) \in Nat
    <3>1. Q \subseteq H /\ H \in SUBSET Node
      BY <2>8, <2>9 DEF H
    <3> QED BY <3>1, NodeAssumption, FS_Subset, FS_CardinalityType
  <2>11. 2 * Cardinality(H) > Cardinality(Node)
    BY <2>5, <2>10 DEF Majority
  <2> QED BY <2>6, <2>11 DEF H, OnMajority
<1>3. CommitInv => CommitDurable
  BY <1>2 DEF CommitDurable
<1> QED BY <1>1, <1>3, NextCommit, PTL DEF Spec

-----------------------------------------------------------------------------
(* Commit indexes never go back. *)

\* handle_append lowers no commit index, with a foreign tail or without: what
\* was settled is in the log it leaves.
LEMMA TakeCommitKeeps ==
  ASSUME NEW h, LedgerOK(h), TypeOK, RequestsFormed, LedgerState(h),
         NEW k \in calls \cup late, k.req.kind = "append", k.req.term >= term[k.to],
         AppendOk(log[k.to], k.req)
  PROVE  commitIndex[k.to] <= CommitAfter(k.to, k.req)
<1> DEFINE d == k.to
           r == k.req
           l == log[d]
           la == LogAfter(l, r)
<1>0. /\ d \in Node /\ r \in AppendRequest /\ r.term \in Nat /\ r.leaderCommit \in Nat
      /\ l \in Seq(Entry) /\ term[d] \in Nat /\ commitIndex[d] \in Nat
  BY CommitTypes
<1>1. FormedRequest(r) /\ term[d] <= r.term
  BY <1>0 DEF RequestsFormed
<1>2. r.term \in h.terms /\ SliceOf(r, h.full[r.term])
  BY DEF LedgerState, LedgerLogs
<1>3. Settled(l, commitIndex[d], term[d], h)
  BY <1>0 DEF LedgerState, LedgerCommits
<1>4. la \in Seq(Entry) /\ Len(la) \in Nat
  BY <1>0, LogAfterType
<1>5. Settled(la, commitIndex[d], r.term, h)
  BY <1>0, <1>1, <1>2, <1>3, TakeSettled
<1>6. commitIndex[d] <= Len(la)
  BY <1>0, <1>4, <1>5 DEF Settled, Same
<1>7. \/ CommitAfter(d, r) = commitIndex[d]
      \/ r.leaderCommit > commitIndex[d] /\ CommitAfter(d, r) = Min2(r.leaderCommit, Len(la))
  BY DEF CommitAfter
<1> HIDE DEF d, r, la
<1>8. commitIndex[d] <= CommitAfter(d, r)
  BY <1>0, <1>4, <1>6, <1>7 DEF Min2
<1> QED BY <1>8 DEF d, r

\* try_advance_commit looks above the commit index only.
LEMMA AdvancedKeeps ==
  ASSUME TypeOK, NEW n \in Node, NEW m
  PROVE  commitIndex[n] <= AdvancedCommit(n, m)
<1>0. commitIndex[n] \in Nat /\ Len(log[n]) \in Nat
  BY CommitTypes
<1>1. CASE Committable(n, m) = {}
  BY <1>0, <1>1 DEF AdvancedCommit
<1>2. CASE Committable(n, m) # {}
  <2>1. AdvancedCommit(n, m) \in Committable(n, m)
    BY <1>2, AdvancedIn
  <2>2. \A i \in Committable(n, m) : commitIndex[n] <= i
    BY <1>0 DEF Committable
  <2> QED BY <2>1, <2>2
<1> QED BY <1>1, <1>2

\* No step of the cluster lowers a commit index before a hazard was met.
LEMMA NextCommitKeeps ==
  ASSUME CommitInv, faults = {}, [Next]_vars
  PROVE  \A n \in Node : commitIndex[n] <= commitIndex'[n]
<1>0. TypeOK /\ RequestsFormed
  BY DEF CommitInv, LogInv, VoteInv
<1>1. commitIndex \in [Node -> Nat] /\ \A n \in Node : commitIndex[n] <= commitIndex[n]
  BY <1>0, CommitTypes
<1>2. PICK h : LedgerOK(h) /\ LedgerState(h)
  BY DEF CommitInv
<1>3. ASSUME commitIndex' = commitIndex
      PROVE  \A n \in Node : commitIndex[n] <= commitIndex'[n]
  BY <1>1, <1>3
<1>4. ASSUME NEW d \in Node, NEW x, commitIndex[d] <= x,
             commitIndex' = [commitIndex EXCEPT ![d] = x]
      PROVE  \A n \in Node : commitIndex[n] <= commitIndex'[n]
  BY <1>1, <1>4
<1>5. ASSUME NEW k \in calls \cup late, k.req.kind = "append", HandleAppend(k.to, k.req)
      PROVE  \A n \in Node : commitIndex[n] <= commitIndex'[n]
  <2>1. k.to \in Node /\ k.req \in AppendRequest
    BY <1>0, <1>5, CommitTypes
  <2>2. commitIndex' = [commitIndex EXCEPT ![k.to] =
           IF k.req.term >= term[k.to] /\ AppendOk(log[k.to], k.req)
             THEN CommitAfter(k.to, k.req) ELSE commitIndex[k.to]]
    BY <1>5 DEF HandleAppend
  <2>3. k.req.term >= term[k.to] /\ AppendOk(log[k.to], k.req) =>
           commitIndex[k.to] <= CommitAfter(k.to, k.req)
    BY <1>0, <1>2, <1>5, TakeCommitKeeps
  <2> DEFINE x == IF k.req.term >= term[k.to] /\ AppendOk(log[k.to], k.req)
                    THEN CommitAfter(k.to, k.req) ELSE commitIndex[k.to]
  <2>4. commitIndex[k.to] <= x
    BY <1>1, <2>1, <2>3
  <2>5. commitIndex' = [commitIndex EXCEPT ![k.to] = x]
    BY <2>2
  <2> HIDE DEF x
  <2> QED BY <1>4, <2>1, <2>4, <2>5
<1>6. ASSUME NEW a \in replies, RecvAppend(a)
      PROVE  \A n \in Node : commitIndex[n] <= commitIndex'[n]
  <2> DEFINE n == a.req.from
             m == Acked(n, a.to, a.resp)
  <2>1. n \in Node
    BY <1>0, CommitTypes
  <2>2. \/ commitIndex' = commitIndex
        \/ commitIndex' = [commitIndex EXCEPT ![n] = AdvancedCommit(n, m)]
    BY <1>6 DEF RecvAppend, StepDown, TakeAck
  <2>3. commitIndex[n] <= AdvancedCommit(n, m)
    BY <1>0, <2>1, AdvancedKeeps
  <2> HIDE DEF n, m
  <2> QED BY <1>3, <1>4, <2>1, <2>2, <2>3
<1>7. ASSUME NEW c \in calls, AnswerAppend(c)
      PROVE  \A n \in Node : commitIndex[n] <= commitIndex'[n]
  BY <1>5, <1>7 DEF AnswerAppend
<1>8. ASSUME NEW c \in late, AnswerLateAppend(c)
      PROVE  \A n \in Node : commitIndex[n] <= commitIndex'[n]
  BY <1>5, <1>8 DEF AnswerLateAppend
<1>9. \/ commitIndex' = commitIndex
      \/ \E c \in calls : AnswerAppend(c)
      \/ \E c \in late : AnswerLateAppend(c)
      \/ \E a \in replies : RecvAppend(a)
  BY DEF Next, vars, nodeVars, StartElection, SendVote, AnswerVote, AnswerLateVote,
     HandleVoteRequest, RecvVote, FinishElection, BecomeLeader, AppendEntry, SendAppend,
     CallFails, CallOutlivesCaller
<1> QED BY <1>3, <1>6, <1>7, <1>8, <1>9

\* Nothing in the life of the nodes broke the cluster's invariant yet: none
\* was replaced, and no snapshot cut a log or went ahead of one.
Unbroken == resets = 0 /\ ~cut /\ ~ahead

LifeCommitInv ==
  /\ LifeInv
  /\ resets \in Nat
  /\ Unbroken => CommitInv

\* What the code keeps of a log has an index above the snapshot's.
LEMMA AboveIndexes ==
  ASSUME NEW l \in Seq(Entry), NEW k \in Nat, NEW j \in 1..Len(Above(l, k))
  PROVE  Above(l, k)[j].index > k
<1> DEFINE S == {i \in 1..Len(l) : l[i].index > k}
           s == InOrder(S)
           c == Cardinality(S)
<1>1. S \in SUBSET Nat /\ S \subseteq 1..Len(l) /\ \A i \in S : l[i].index > k
  OBVIOUS
<1>2. IsFiniteSet(S)
  <2>1. IsFiniteSet(1..Len(l))
    BY FS_Interval
  <2> QED BY <1>1, <2>1, FS_Subset
<1> HIDE DEF S
<1>3. c \in Nat /\ s \in [1..c -> S]
  BY <1>1, <1>2, InOrderFacts
<1> HIDE DEF s, c
<1>4. s \in Seq(Nat) /\ Len(s) = c
  <2>1. s \in [1..c -> Nat]
    BY <1>1, <1>3
  <2> QED BY <1>3, <2>1
<1>5. Above(l, k) = [i \in 1..Len(s) |-> l[s[i]]]
  BY DEF Above, S, s
<1>6. Len(Above(l, k)) = c
  <2>1. DOMAIN Above(l, k) = 1..c
    BY <1>4, <1>5
  <2>2. Above(l, k) \in Seq(Entry)
    BY AboveType
  <2>3. DOMAIN Above(l, k) = 1..Len(Above(l, k)) /\ Len(Above(l, k)) \in Nat
    BY <2>2
  <2> QED BY <1>3, <2>1, <2>3
<1>7. j \in 1..c /\ Above(l, k)[j] = l[s[j]] /\ s[j] \in S
  BY <1>3, <1>4, <1>5, <1>6
<1> QED BY <1>1, <1>7

\* A snapshot that is installed cuts the log of the node or goes ahead of it.
LEMMA InstallingBreaks ==
  ASSUME LifeInv, NEW d \in Node, NEW r \in snaps, InstallSnapshot(d, r)
  PROVE  cut' \/ ahead'
<1>0. /\ TypeOK /\ r.last \in Nat \ {0} /\ log \in [Node -> Seq(Entry)]
      /\ log[d] \in Seq(Entry) /\ Len(log[d]) \in Nat /\ commitIndex[d] \in Nat
      /\ commitIndex \in [Node -> Nat]
  BY CommitTypes DEF LifeInv
<1> DEFINE k == r.last
           la == Above(log[d], k)
<1>1. /\ log' = [log EXCEPT ![d] = la]
      /\ commitIndex' = [commitIndex EXCEPT ![d] = IF k > @ THEN k ELSE @]
      /\ cut' = (cut \/ log'[d] # log[d])
      /\ ahead' = (ahead \/ commitIndex'[d] > Len(log'[d]))
  BY DEF InstallSnapshot
<1>2. k \in Nat \ {0} /\ la \in Seq(Entry)
  BY <1>0, AboveType
<1>3. k > 0 => \A j \in 1..Len(la) : la[j].index > k
  BY <1>0, AboveIndexes
<1> HIDE DEF k, la
<1>4. log'[d] = la /\ commitIndex'[d] > 0
  BY <1>0, <1>1, <1>2
<1>5. CASE Len(log[d]) = 0
  <2>1. CASE la = log[d]
    BY <1>1, <1>4, <1>5, <2>1
  <2>2. CASE la # log[d]
    BY <1>1, <1>4, <2>2
  <2> QED BY <2>1, <2>2
<1>6. CASE Len(log[d]) # 0 /\ ~cut
  <2>1. log[d][1].index = 1
    <3>1. LogWellFormed /\ 1 \in 1..Len(log[d])
      BY <1>0, <1>6 DEF LifeInv
    <3> QED BY <3>1 DEF LogWellFormed
  <2>2. la # log[d]
    BY <1>0, <1>2, <1>3, <1>6, <2>1
  <2> QED BY <1>1, <1>4, <2>2
<1>7. CASE cut
  BY <1>1, <1>7
<1> QED BY <1>5, <1>6, <1>7

\* The invariant holds through the life of the nodes.
LEMMA NextLifeCommit == LifeCommitInv /\ [NextLife]_allVars => LifeCommitInv'
<1> SUFFICES ASSUME LifeCommitInv, [NextLife]_allVars PROVE LifeCommitInv'
  OBVIOUS
<1>0. LifeInv /\ LifeInv' /\ resets \in Nat
  BY NextLifeInv DEF LifeCommitInv
<1>1. ASSUME [Next]_vars, UNCHANGED resets, Unbroken' => Unbroken PROVE LifeCommitInv'
  BY <1>0, <1>1, NextCommit DEF LifeCommitInv
<1>2. CASE Living
  BY <1>1, <1>2 DEF Living, lifeVars, Unbroken
<1>3. ASSUME NEW n \in Node, Replace(n) PROVE LifeCommitInv'
  <2>1. resets' = resets + 1
    BY <1>3 DEF Replace
  <2> QED BY <1>0, <2>1 DEF LifeCommitInv, Unbroken
<1>4. ASSUME NEW n \in Node, TakeSnapshot(n) PROVE LifeCommitInv'
  BY <1>1, <1>4 DEF TakeSnapshot, Unbroken
<1>5. ASSUME NEW d \in Node, NEW r \in snaps, InstallSnapshot(d, r) PROVE LifeCommitInv'
  <2>1. ~Unbroken'
    BY <1>0, <1>5, InstallingBreaks DEF Unbroken
  <2>2. resets' = resets
    BY <1>5 DEF InstallSnapshot
  <2> QED BY <1>0, <2>1, <2>2 DEF LifeCommitInv
<1>6. ASSUME NEW n \in Node, CompactLog(n) PROVE LifeCommitInv'
  <2>1. PICK r \in snaps : log' = [log EXCEPT ![n] = Above(log[n], r.last)]
    BY <1>6 DEF CompactLog
  <2>2. /\ cut' = (cut \/ log'[n] # log[n]) /\ ahead' = ahead /\ resets' = resets
        /\ UNCHANGED <<term, role, votedFor, leaderId, commitIndex, nextIndex, matchIndex,
                       driverVars, netVars, histVars>>
    BY <1>6 DEF CompactLog
  <2>3. CASE cut'
    BY <1>0, <2>2, <2>3 DEF LifeCommitInv, Unbroken
  <2>4. CASE ~cut'
    <3>1. ~cut /\ log'[n] = log[n]
      BY <2>2, <2>4
    <3>2. log \in [Node -> Seq(Entry)]
      BY <1>0 DEF LifeInv, TypeOK
    <3>3. log' = log
      BY <2>1, <3>1, <3>2
    <3>4. UNCHANGED vars
      BY <2>2, <3>3 DEF vars, nodeVars
    <3> QED BY <1>1, <2>2, <3>1, <3>4 DEF Unbroken
  <2> QED BY <2>3, <2>4
<1>7. CASE UNCHANGED allVars
  BY <1>1, <1>7 DEF allVars, lifeVars, Unbroken
<1> QED BY <1>2, <1>3, <1>4, <1>5, <1>6, <1>7 DEF NextLife

\* In a cluster of any size that has not replaced a node, cut a log, put a
\* commit index past a log or met one of the three hazards, no step lowers a
\* commit index.
LEMMA LifeCommitKeeps ==
  ASSUME LifeCommitInv, [NextLife]_allVars, Unbroken, faults = {}, resets' = resets,
         NEW n \in Node
  PROVE  ~(commitIndex'[n] < commitIndex[n])
<1>0. CommitInv /\ commitIndex \in [Node -> Nat]
  BY DEF LifeCommitInv, LifeInv, TypeOK
<1>1. CASE Living
  <2>1. commitIndex[n] <= commitIndex'[n]
    BY <1>0, <1>1, NextCommitKeeps DEF Living
  <2>2. commitIndex'[n] \in Nat
    BY <1>0, <1>1, NextType DEF Living, CommitInv, LogInv, VoteInv, TypeOK
  <2> QED BY <1>0, <2>1, <2>2
<1>2. ASSUME NEW m \in Node, Replace(m) PROVE FALSE
  <2>1. resets' = resets + 1 /\ resets \in Nat
    BY <1>2 DEF Replace, LifeCommitInv
  <2> QED BY <2>1
<1>3. ASSUME NEW d \in Node, NEW r \in snaps, InstallSnapshot(d, r)
      PROVE  ~(commitIndex'[n] < commitIndex[n])
  <2>1. r.last \in Nat
    BY DEF LifeCommitInv, LifeInv
  <2> DEFINE k == r.last
  <2>2. k \in Nat /\ commitIndex' = [commitIndex EXCEPT ![d] = IF k > @ THEN k ELSE @]
    BY <1>3, <2>1 DEF InstallSnapshot
  <2> HIDE DEF k
  <2> QED BY <1>0, <2>2
<1>4. CASE commitIndex' = commitIndex
  BY <1>0, <1>4
<1>5. \/ Living
      \/ \E m \in Node : Replace(m)
      \/ \E d \in Node : \E r \in snaps : InstallSnapshot(d, r)
      \/ commitIndex' = commitIndex
  BY DEF NextLife, TakeSnapshot, CompactLog, allVars, vars, nodeVars
<1> QED BY <1>1, <1>2, <1>3, <1>4, <1>5

\* A commit index goes back only as CommitNeverBack allows: what handle_append
\* takes over, what try_advance_commit counts, snapshots and compaction never
\* lower it, and each exception is one the code can meet.
THEOREM CommitsStay == SpecLife => CommitNeverBack
<1>1. InitLife => LifeCommitInv
  <2> SUFFICES ASSUME InitLife PROVE LifeCommitInv
    OBVIOUS
  <2>1. Init /\ snaps = {} /\ resets = 0
    BY DEF InitLife
  <2>2. TypeOK
    BY <2>1, InitType
  <2>3. LogWellFormed /\ RequestsFormed
    BY <2>1 DEF Init, LogWellFormed, RequestsFormed
  <2>4. CommitInv
    BY <2>1, InitLog, InitLedger DEF CommitInv
  <2> QED BY <2>1, <2>2, <2>3, <2>4 DEF LifeInv, LifeCommitInv
<1>2. ASSUME LifeCommitInv, [NextLife]_allVars, NEW n \in Node, commitIndex'[n] < commitIndex[n]
      PROVE  resets' # resets \/ resets > 0 \/ cut \/ ahead \/ faults # {}
  <2>1. resets = 0 \/ resets > 0
    BY <1>2 DEF LifeCommitInv
  <2>2. ~(Unbroken /\ faults = {} /\ resets' = resets)
    BY <1>2, LifeCommitKeeps
  <2> QED BY <2>1, <2>2 DEF Unbroken
<1>3. LifeCommitInv /\ [NextLife]_allVars =>
        [\A n \in Node :
            commitIndex'[n] < commitIndex[n] =>
               resets' # resets \/ resets > 0 \/ cut \/ ahead \/ faults # {}]_allVars
  BY <1>2
<1> QED BY <1>1, <1>3, NextLifeCommit, PTL DEF SpecLife, CommitNeverBack
=============================================================================
