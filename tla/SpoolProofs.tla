----------------------------- MODULE SpoolProofs ------------------------------
(***************************************************************************)
(* Theorems about Spool, for any tenants, keys and limits.                 *)
(*                                                                         *)
(* What a restart restores is what persist wrote, so every invariant of    *)
(* the spool must hold of the image as well: the inductive invariant says  *)
(* the same things of both.  The operations that take entries out all do   *)
(* one thing: some positions go, the others stay in their order.           *)
(***************************************************************************)
EXTENDS Spool, AscendingProofs, SequenceTheorems

Kept == {e \in Entry : e.attempts <= MaxRetries}

\* A queue whose entries have numbers of their own below n, the first tries
\* in order.
QueueSound(q, n) ==
  /\ q \in Seq(Kept)
  /\ \A i, j \in DOMAIN q : q[i].seq = q[j].seq => i = j
  /\ \A i \in DOMAIN q : q[i].seq < n
  /\ \A i, j \in DOMAIN q :
        i < j /\ q[i].attempts = 0 /\ q[j].attempts = 0 => q[i].seq < q[j].seq

\* Entries in the hands of callers that share no number with each other or
\* with those that wait.
HandsSound(h, q, n) ==
  /\ h \subseteq Kept
  /\ \A e, f \in h : e.seq = f.seq => e = f
  /\ \A i \in DOMAIN q, e \in h : q[i].seq # e.seq
  /\ \A e \in h : e.seq < n

\* A queue within its bound, and counters that account for all of it.
CountsSound(len, enqueued, delivered, dropped, back, gone) ==
  /\ len <= MaxEntries + back
  /\ enqueued \in Nat /\ delivered \in Nat /\ dropped \in Nat /\ back \in Nat /\ gone \in Nat
  /\ enqueued + back = delivered + dropped + len + gone

ImageSound ==
  saved # Nothing =>
    /\ saved \in Image
    /\ QueueSound(saved.queue, saved.nextSeq)
    /\ CountsSound(Len(saved.queue), saved.enqueued, saved.delivered, saved.dropped,
                   saved.nacks, saved.erased)

\* The inductive invariant.
SpoolInv ==
  /\ key \in Key /\ nextSeq \in Nat \ {0}
  /\ QueueSound(queue, nextSeq)
  /\ HandsSound(held, queue, nextSeq)
  /\ CountsSound(Len(queue), totalEnqueued, totalDelivered, totalDropped, nacks, erased)
  /\ ImageSound

-----------------------------------------------------------------------------
(* Queues. *)

\* p is q without the entries at positions T, the others in their order.
Leaves(q, p, T) ==
  /\ p \in Seq(Kept)
  /\ \E f \in [DOMAIN p -> DOMAIN q] :
        /\ \A k, l \in DOMAIN p : k < l => f[k] < f[l]
        /\ \A k \in DOMAIN p : p[k] = q[f[k]] /\ f[k] \notin T

\* What g holds beyond h was at positions T of q.
Taken(g, h, q, T) == \A e \in g : e \in h \/ \E i \in T : e = q[i]

\* The entries at positions T go to callers or nowhere, the others stay.
LEMMA TakeOut ==
  ASSUME NEW q, NEW h, NEW n, QueueSound(q, n), HandsSound(h, q, n),
         NEW T, T \subseteq DOMAIN q, NEW p, Leaves(q, p, T), NEW g, Taken(g, h, q, T)
  PROVE  QueueSound(p, n) /\ HandsSound(g, p, n)
<1>1. q \in Seq(Kept) /\ DOMAIN q \subseteq Nat
  BY DEF QueueSound
<1>2. \A i \in DOMAIN q : q[i] \in Kept
  BY <1>1
<1>3. p \in Seq(Kept) /\ DOMAIN p \subseteq Nat
  BY DEF Leaves
<1>4. PICK f \in [DOMAIN p -> DOMAIN q] :
        /\ \A k, l \in DOMAIN p : k < l => f[k] < f[l]
        /\ \A k \in DOMAIN p : p[k] = q[f[k]] /\ f[k] \notin T
  BY DEF Leaves
<1>5. \A k \in DOMAIN p : p[k] = q[f[k]] /\ f[k] \in DOMAIN q
  BY <1>4
<1>6. \A k, l \in DOMAIN p : f[k] = f[l] => k = l
  <2> TAKE k, l \in DOMAIN p
  <2>1. k < l \/ l < k \/ k = l
    BY <1>3
  <2>2. f[k] \in Nat /\ f[l] \in Nat
    BY <1>1
  <2> QED
    BY <2>1, <2>2, <1>4
<1>7. QueueSound(p, n)
  <2>1. \A k, l \in DOMAIN p : p[k].seq = p[l].seq => k = l
    BY <1>5, <1>6 DEF QueueSound
  <2>2. \A k \in DOMAIN p : p[k].seq < n
    BY <1>5 DEF QueueSound
  <2>3. ASSUME NEW k \in DOMAIN p, NEW l \in DOMAIN p, k < l, p[k].attempts = 0, p[l].attempts = 0
        PROVE  p[k].seq < p[l].seq
    <3>1. f[k] \in DOMAIN q /\ f[l] \in DOMAIN q /\ f[k] < f[l] /\ p[k] = q[f[k]] /\ p[l] = q[f[l]]
      BY <2>3, <1>4, <1>5
    <3> QED
      BY <2>3, <3>1 DEF QueueSound
  <2> QED
    BY <1>3, <2>1, <2>2, <2>3 DEF QueueSound
<1>8. HandsSound(g, p, n)
  <2>1. ASSUME NEW e \in g PROVE e \in h \/ \E i \in T : e = q[i]
    BY <2>1 DEF Taken
  <2>2. \A i \in T : i \in DOMAIN q
    OBVIOUS
  <2>3. g \subseteq Kept
    BY <1>2, <2>1 DEF HandsSound
  <2>4. ASSUME NEW e \in g, NEW d \in g, e.seq = d.seq PROVE e = d
    <3>1. CASE e \in h /\ d \in h
      BY <2>4, <3>1 DEF HandsSound
    <3>2. ASSUME NEW i \in T, NEW j \in T, e = q[i], d = q[j] PROVE e = d
      BY <2>4, <3>2, <2>2 DEF QueueSound
    <3>3. ASSUME NEW i \in T, NEW b \in h PROVE q[i].seq # b.seq
      BY <2>2 DEF HandsSound
    <3> QED
      BY <2>1, <2>4, <3>1, <3>2, <3>3
  <2>5. ASSUME NEW k \in DOMAIN p, NEW e \in g PROVE p[k].seq # e.seq
    <3>1. f[k] \in DOMAIN q /\ f[k] \notin T /\ p[k] = q[f[k]]
      BY <1>4
    <3>2. CASE e \in h
      BY <3>1, <3>2 DEF HandsSound
    <3>3. CASE \E i \in T : e = q[i]
      BY <3>1, <3>3, <2>2 DEF QueueSound
    <3> QED
      BY <2>1, <3>2, <3>3
  <2>6. \A e \in g : e.seq < n
    BY <2>1, <2>2 DEF QueueSound, HandsSound
  <2> QED
    BY <2>3, <2>4, <2>5, <2>6 DEF HandsSound
<1> QED
  BY <1>7, <1>8

\* An entry with a number that is neither in the queue nor in anybody's
\* hands, and a try or a number of its own, goes to the end.
LEMMA PutIn ==
  ASSUME NEW q, NEW h, NEW n \in Nat, QueueSound(q, n), HandsSound(h, q, n),
         NEW e \in Kept, e.seq < n, \A i \in DOMAIN q : q[i].seq # e.seq,
         \A d \in h : d.seq # e.seq,
         e.attempts = 0 => \A i \in DOMAIN q : q[i].seq < e.seq
  PROVE  /\ QueueSound(Append(q, e), n) /\ HandsSound(h, Append(q, e), n)
         /\ Len(Append(q, e)) = Len(q) + 1
<1> DEFINE l == Len(q)
           p == Append(q, e)
<1>1. q \in Seq(Kept) /\ DOMAIN q = 1..l /\ l \in Nat
  BY DEF QueueSound
<1>2. /\ p \in Seq(Kept) /\ Len(p) = l + 1 /\ DOMAIN p = 1..(l + 1)
      /\ p[l + 1] = e /\ \A i \in 1..l : p[i] = q[i]
  BY <1>1
<1> HIDE DEF l, p
<1>3. \A i \in DOMAIN p : i = l + 1 \/ i \in DOMAIN q
  BY <1>1, <1>2
<1>4. \A i \in DOMAIN q : i # l + 1 /\ p[i] = q[i]
  BY <1>1, <1>2
<1>5. QueueSound(p, n)
  <2>1. \A i, j \in DOMAIN p : p[i].seq = p[j].seq => i = j
    BY <1>2, <1>3, <1>4 DEF QueueSound
  <2>2. \A i \in DOMAIN p : p[i].seq < n
    BY <1>2, <1>3, <1>4 DEF QueueSound
  <2>3. ASSUME NEW i \in DOMAIN p, NEW j \in DOMAIN p, i < j, p[i].attempts = 0, p[j].attempts = 0
        PROVE  p[i].seq < p[j].seq
    <3>1. i \in DOMAIN q
      BY <2>3, <1>1, <1>2
    <3>2. CASE j \in DOMAIN q
      BY <2>3, <3>1, <3>2, <1>4 DEF QueueSound
    <3>3. CASE j = l + 1
      BY <2>3, <3>1, <3>3, <1>2, <1>4
    <3> QED
      BY <3>2, <3>3, <1>3
  <2> QED
    BY <1>2, <2>1, <2>2, <2>3 DEF QueueSound
<1>6. HandsSound(h, p, n)
  BY <1>2, <1>3, <1>4 DEF HandsSound
<1> QED
  BY <1>2, <1>5, <1>6 DEF p, l

\* A larger next number takes nothing away.
LEMMA NextNumber ==
  ASSUME NEW q, NEW h, NEW n \in Nat, QueueSound(q, n), HandsSound(h, q, n)
  PROVE  QueueSound(q, n + 1) /\ HandsSound(h, q, n + 1)
<1>1. \A i \in DOMAIN q : q[i] \in Kept
  BY DEF QueueSound
<1>2. \A e \in Kept : e.seq \in Nat
  BY DEF Kept, Entry
<1>3. QueueSound(q, n + 1)
  BY <1>1, <1>2 DEF QueueSound
<1>4. HandsSound(h, q, n + 1)
  BY <1>2 DEF HandsSound
<1> QED
  BY <1>3, <1>4

\* Without the first c.
LEMMA SuffixLeaves ==
  ASSUME NEW q \in Seq(Kept), NEW c \in 0..Len(q)
  PROVE  LET p == SubSeq(q, c + 1, Len(q)) IN Leaves(q, p, 1..c) /\ Len(p) = Len(q) - c
<1> DEFINE p == SubSeq(q, c + 1, Len(q))
           m == Len(q) - c
           f == [k \in 1..m |-> k + c]
<1>1. DOMAIN q = 1..Len(q) /\ Len(q) \in Nat /\ c \in Nat
  OBVIOUS
<1>2. m \in Nat /\ f \in [1..m -> DOMAIN q]
  BY <1>1
<1>3. \A k, l \in 1..m : k < l => f[k] < f[l]
  BY <1>1
<1>4. \A k \in 1..m : f[k] \notin 1..c
  BY <1>1
<1>5. p \in Seq(Kept) /\ Len(p) = m /\ \A k \in 1..m : p[k] = q[k + c]
  BY <1>1
<1>6. DOMAIN p = 1..m /\ \A k \in 1..m : p[k] = q[f[k]]
  BY <1>5
<1> HIDE DEF p, m, f
<1>7. Leaves(q, p, 1..c)
  BY <1>2, <1>3, <1>4, <1>5, <1>6 DEF Leaves
<1> QED
  BY <1>5, <1>7 DEF p, m

\* Without the first.
LEMMA TailLeaves ==
  ASSUME NEW q \in Seq(Kept), q # << >>
  PROVE  Leaves(q, Tail(q), {1}) /\ Len(Tail(q)) = Len(q) - 1
<1>1. Len(q) \in Nat \ {0}
  OBVIOUS
<1>2. 1 \in 0..Len(q) /\ 1..1 = {1}
  BY <1>1
<1>3. Tail(q) = SubSeq(q, 1 + 1, Len(q))
  BY <1>1
<1> QED
  BY <1>2, <1>3, SuffixLeaves

\* Without the i-th.
LEMMA OneLeaves ==
  ASSUME NEW q \in Seq(Kept), NEW i \in DOMAIN q
  PROVE  Leaves(q, RemoveAt(q, i), {i}) /\ Len(RemoveAt(q, i)) = Len(q) - 1
<1> DEFINE p == RemoveAt(q, i)
           m == Len(q) - 1
           f == [k \in 1..m |-> IF k < i THEN k ELSE k + 1]
           a == SubSeq(q, 1, i - 1)
           b == SubSeq(q, i + 1, Len(q))
<1>1. DOMAIN q = 1..Len(q) /\ Len(q) \in Nat /\ i \in 1..Len(q)
  OBVIOUS
<1>2. m \in Nat /\ f \in [1..m -> DOMAIN q]
  BY <1>1
<1>3. \A k, l \in 1..m : k < l => f[k] < f[l]
  BY <1>1
<1>4. \A k \in 1..m : f[k] # i
  BY <1>1
<1>5. a \in Seq(Kept) /\ Len(a) = i - 1 /\ \A k \in 1..(i - 1) : a[k] = q[k]
  BY <1>1
<1>6. b \in Seq(Kept) /\ Len(b) = Len(q) - i /\ \A k \in 1..(Len(q) - i) : b[k] = q[k + i]
  BY <1>1
<1>7. p = a \o b
  BY DEF RemoveAt
<1> HIDE DEF a, b, p
<1>8. /\ p \in Seq(Kept) /\ Len(p) = Len(a) + Len(b)
      /\ \A k \in 1..(Len(a) + Len(b)) : p[k] = IF k <= Len(a) THEN a[k] ELSE b[k - Len(a)]
  BY <1>5, <1>6, <1>7, ConcatProperties
<1>9. Len(a) + Len(b) = m
  BY <1>5, <1>6, <1>1
<1>10. ASSUME NEW k \in 1..m PROVE p[k] = q[f[k]]
  <2>1. p[k] = IF k <= i - 1 THEN a[k] ELSE b[k - (i - 1)]
    BY <1>5, <1>8, <1>9
  <2>2. CASE k < i
    BY <2>1, <2>2, <1>1, <1>5
  <2>3. CASE ~(k < i)
    <3>1. k - (i - 1) \in 1..(Len(q) - i) /\ (k - (i - 1)) + i = k + 1
      BY <2>3, <1>1
    <3>2. b[k - (i - 1)] = q[(k - (i - 1)) + i]
      BY <3>1, <1>6
    <3> QED
      BY <2>1, <2>3, <3>1, <3>2, <1>1
  <2> QED
    BY <2>2, <2>3
<1>11. DOMAIN p = 1..m
  BY <1>8, <1>9
<1> HIDE DEF m, f
<1>12. Leaves(q, p, {i})
  BY <1>2, <1>3, <1>4, <1>8, <1>10, <1>11 DEF Leaves
<1> QED
  BY <1>8, <1>9, <1>12 DEF p, m

\* Only those at positions S.
LEMMA EntriesLeave ==
  ASSUME NEW S \in SUBSET DOMAIN queue, queue \in Seq(Kept)
  PROVE  /\ Leaves(queue, EntriesAt(S), DOMAIN queue \ S)
         /\ IsFiniteSet(S) /\ Len(EntriesAt(S)) = Cardinality(S)
         /\ \A i \in S : \E k \in DOMAIN EntriesAt(S) : EntriesAt(S)[k] = queue[i]
<1> DEFINE f == InOrder(S)
           m == Cardinality(S)
           p == EntriesAt(S)
<1>1. DOMAIN queue = 1..Len(queue) /\ Len(queue) \in Nat
  OBVIOUS
<1>2. S \in SUBSET Nat /\ IsFiniteSet(S)
  <2>1. IsFiniteSet(1..Len(queue))
    BY <1>1, FS_Interval
  <2> QED
    BY <2>1, <1>1, FS_Subset
<1>3. /\ m \in Nat /\ f \in [1..m -> S]
      /\ \A k, l \in 1..m : k < l => f[k] < f[l]
      /\ \A i \in S : \E k \in 1..m : f[k] = i
  BY <1>2, InOrderFacts
<1> HIDE DEF m, f
<1>4. Len(f) = m
  BY <1>3
<1>5. p = [k \in 1..m |-> queue[f[k]]]
  BY <1>4 DEF EntriesAt, f
<1> HIDE DEF p
<1>6. \A i \in DOMAIN queue : queue[i] \in Kept
  OBVIOUS
<1>7. p \in [1..m -> Kept] /\ \A k \in 1..m : p[k] = queue[f[k]]
  BY <1>3, <1>5, <1>6
<1>8. p \in Seq(Kept) /\ Len(p) = m /\ DOMAIN p = 1..m
  BY <1>3, <1>7
<1>9. f \in [1..m -> DOMAIN queue] /\ \A k \in 1..m : f[k] \notin DOMAIN queue \ S
  BY <1>3
<1>10. Leaves(queue, p, DOMAIN queue \ S)
  BY <1>3, <1>7, <1>8, <1>9 DEF Leaves
<1>11. \A i \in S : \E k \in DOMAIN p : p[k] = queue[i]
  BY <1>3, <1>7, <1>8
<1> QED
  BY <1>2, <1>8, <1>10, <1>11 DEF p, m

\* So many positions, so many entries.
LEMMA CountAt ==
  ASSUME NEW n, QueueSound(queue, n), NEW S \in SUBSET DOMAIN queue
  PROVE  /\ IsFiniteSet(S) /\ Cardinality(S) \in Nat
         /\ Cardinality({queue[i] : i \in S}) = Cardinality(S)
<1> DEFINE E == {queue[i] : i \in S}
           f == [i \in S |-> queue[i]]
<1>1. IsFiniteSet(S) /\ Cardinality(S) \in Nat
  <2>1. DOMAIN queue = 1..Len(queue) /\ Len(queue) \in Nat
    BY DEF QueueSound
  <2>2. IsFiniteSet(1..Len(queue))
    BY <2>1, FS_Interval
  <2> QED
    BY <2>1, <2>2, FS_Subset, FS_CardinalityType
<1>2. f \in [S -> E] /\ \A i \in S : f[i] = queue[i]
  OBVIOUS
<1>3. \A i, j \in S : f[i] = f[j] => i = j
  BY <1>2 DEF QueueSound
<1>4. \A e \in E : \E i \in S : f[i] = e
  BY <1>2
<1> HIDE DEF f, E
<1>5. ExistsBijection(S, E)
  <2>1. f \in Bijection(S, E)
    BY <1>2, <1>3, <1>4, Fun_IsBij
  <2> QED
    BY <2>1, Fun_ExistsBij
<1> QED
  BY <1>1, <1>5, FS_Bijection DEF E

\* Three kinds of entries make up the queue.
LEMMA ThreeKinds ==
  ASSUME NEW n \in Nat, NEW A, NEW B, NEW C, A \cup B \cup C = 1..n,
         A \cap B = {}, A \cap C = {}, B \cap C = {}
  PROVE  Cardinality(A) + Cardinality(B) + Cardinality(C) = n
<1>1. IsFiniteSet(1..n) /\ Cardinality(1..n) = n
  BY FS_Interval
<1>2. IsFiniteSet(A) /\ IsFiniteSet(B) /\ IsFiniteSet(C)
  BY <1>1, FS_Subset
<1>3. IsFiniteSet(A \cup B) /\ Cardinality(A \cup B) = Cardinality(A) + Cardinality(B) - Cardinality(A \cap B)
  BY <1>2, FS_Union
<1>4. Cardinality((A \cup B) \cup C) =
        Cardinality(A \cup B) + Cardinality(C) - Cardinality((A \cup B) \cap C)
  BY <1>2, <1>3, FS_Union
<1>5. A \cap B = {} /\ (A \cup B) \cap C = {} /\ Cardinality({}) = 0
  BY FS_EmptySet
<1>6. Cardinality(A) \in Nat /\ Cardinality(B) \in Nat /\ Cardinality(C) \in Nat
  BY <1>2, FS_CardinalityType
<1>7. Cardinality((A \cup B) \cup C) = n
  BY <1>1
<1>8. Cardinality(A \cap B) = 0 /\ Cardinality((A \cup B) \cap C) = 0
  BY <1>5
<1> QED
  BY <1>3, <1>4, <1>6, <1>7, <1>8

-----------------------------------------------------------------------------
(* The operations. *)

\* enqueue drops the oldest of a full queue and adds an entry with a number
\* nobody has had.
LEMMA EnqueueStep ==
  ASSUME SpoolInv, NEW t \in Tenant \cup {NoTenant}, Enqueue(t)
  PROVE  SpoolInv'
<1> DEFINE e == [seq |-> nextSeq, attempts |-> 0, tenant |-> t, key |-> key]
           q == IF Full THEN Tail(queue) ELSE queue
<1>1. /\ key \in Key /\ nextSeq \in Nat /\ nextSeq # 0
      /\ QueueSound(queue, nextSeq) /\ HandsSound(held, queue, nextSeq)
      /\ queue \in Seq(Kept) /\ Len(queue) \in Nat
  BY DEF SpoolInv, QueueSound
<1>2. e \in Kept /\ e.seq = nextSeq /\ e.attempts = 0
  BY <1>1, LimitAssumption DEF Kept, Entry
<1>3. QueueSound(q, nextSeq) /\ HandsSound(held, q, nextSeq)
        /\ Len(q) = IF Full THEN Len(queue) - 1 ELSE Len(queue)
  <2>1. CASE Full
    <3>1. Len(queue) > 0
      BY <2>1, <1>1, LimitAssumption DEF Full
    <3>2. queue # << >> /\ 1 \in DOMAIN queue
      BY <3>1, <1>1
    <3>3. Leaves(queue, Tail(queue), {1}) /\ Len(Tail(queue)) = Len(queue) - 1
      BY <3>2, <1>1, TailLeaves
    <3>4. Taken(held, held, queue, {1}) /\ {1} \subseteq DOMAIN queue
      BY <3>2 DEF Taken
    <3>5. QueueSound(Tail(queue), nextSeq) /\ HandsSound(held, Tail(queue), nextSeq)
      BY <3>3, <3>4, <1>1, TakeOut
    <3> QED
      BY <2>1, <3>3, <3>5
  <2> QED
    BY <2>1, <1>1
<1>4. queue' = Append(q, e) /\ nextSeq' = nextSeq + 1
        /\ totalEnqueued' = totalEnqueued + 1
        /\ totalDropped' = totalDropped + (IF Full THEN 1 ELSE 0)
        /\ UNCHANGED <<key, totalDelivered, held, saved, nacks, erased>>
  BY DEF Enqueue
<1> HIDE DEF e, q
<1>5. q \in Seq(Kept) /\ \A i \in DOMAIN q : q[i] \in Kept /\ q[i].seq < nextSeq
  BY <1>3 DEF QueueSound
<1>6. QueueSound(q, nextSeq + 1) /\ HandsSound(held, q, nextSeq + 1)
  BY <1>1, <1>3, NextNumber
<1>7. \A i \in DOMAIN q : q[i].seq # e.seq /\ q[i].seq < e.seq
  <2>1. \A d \in Kept : d.seq \in Nat
    BY DEF Kept, Entry
  <2> QED
    BY <2>1, <1>1, <1>2, <1>5
<1>8. \A d \in held : d.seq # e.seq
  <2>1. \A d \in held : d.seq \in Nat /\ d.seq < nextSeq
    BY <1>1 DEF HandsSound, Kept, Entry
  <2> QED
    BY <2>1, <1>1, <1>2
<1>9. nextSeq + 1 \in Nat /\ e.seq < nextSeq + 1
  BY <1>1, <1>2
<1>10. /\ QueueSound(queue', nextSeq') /\ HandsSound(held', queue', nextSeq')
       /\ Len(queue') = Len(q) + 1
  BY <1>2, <1>4, <1>6, <1>7, <1>8, <1>9, PutIn
<1>11. CountsSound(Len(queue'), totalEnqueued', totalDelivered', totalDropped', nacks', erased')
  <2>1. CountsSound(Len(queue), totalEnqueued, totalDelivered, totalDropped, nacks, erased)
    BY DEF SpoolInv
  <2>2. Len(queue) \in Nat /\ MaxEntries \in Nat \ {0}
    BY <1>1, LimitAssumption
  <2>3. CASE Full
    <3>1. Len(queue) >= MaxEntries /\ Len(q) = Len(queue) - 1
      BY <1>3, <2>2, <2>3 DEF Full
    <3>2. totalDropped' = totalDropped + 1
      BY <1>4, <2>3
    <3>3. Len(queue') = Len(queue)
      BY <1>10, <2>2, <3>1
    <3> QED
      BY <2>1, <2>2, <1>4, <3>2, <3>3 DEF CountsSound
  <2>4. CASE ~Full
    <3>1. Len(queue) < MaxEntries /\ Len(q) = Len(queue)
      BY <1>3, <2>2, <2>4 DEF Full
    <3>2. totalDropped' = totalDropped
      BY <1>4, <2>1, <2>4 DEF CountsSound
    <3>3. Len(queue') = Len(queue) + 1
      BY <1>10, <2>2, <3>1
    <3> QED
      BY <2>1, <2>2, <1>4, <3>1, <3>2, <3>3 DEF CountsSound
  <2> QED
    BY <2>3, <2>4
<1>12. ImageSound'
  BY <1>4 DEF SpoolInv, ImageSound
<1> QED
  BY <1>1, <1>4, <1>10, <1>11, <1>12 DEF SpoolInv

\* What every operation that takes entries out has in common.
LEMMA TakingStep ==
  ASSUME SpoolInv, NEW T, T \subseteq DOMAIN queue, Leaves(queue, queue', T),
         Taken(held', held, queue, T), NEW n \in Nat, NEW m \in Nat,
         Len(queue') = Len(queue) - n - m,
         totalDelivered' = totalDelivered + n, erased' = erased + m,
         UNCHANGED <<key, nextSeq, totalEnqueued, totalDropped, saved, nacks>>
  PROVE  SpoolInv'
<1>1. QueueSound(queue, nextSeq) /\ HandsSound(held, queue, nextSeq) /\ UNCHANGED nextSeq
  BY DEF SpoolInv
<1>2. QueueSound(queue', nextSeq') /\ HandsSound(held', queue', nextSeq')
  BY <1>1, TakeOut
<1>3. Len(queue) \in Nat /\ Len(queue') \in Nat
  BY <1>1, <1>2 DEF QueueSound
<1>4. CountsSound(Len(queue'), totalEnqueued', totalDelivered', totalDropped', nacks', erased')
  <2>1. CountsSound(Len(queue), totalEnqueued, totalDelivered, totalDropped, nacks, erased)
    BY DEF SpoolInv
  <2> QED
    BY <2>1, <1>3, LimitAssumption DEF CountsSound
<1>5. ImageSound'
  BY DEF SpoolInv, ImageSound
<1> QED
  BY <1>2, <1>4, <1>5 DEF SpoolInv

LEMMA DequeueStep ==
  ASSUME SpoolInv, Dequeue
  PROVE  SpoolInv'
<1>1. queue \in Seq(Kept) /\ Len(queue) \in Nat
  BY DEF SpoolInv, QueueSound
<1>2. queue # << >> /\ queue' = Tail(queue) /\ totalDelivered' = totalDelivered + 1
        /\ held' = held \cup Handed(<<Head(queue)>>)
        /\ UNCHANGED <<key, nextSeq, totalEnqueued, totalDropped, saved, nacks, erased>>
  BY DEF Dequeue
<1>3. 1 \in DOMAIN queue /\ Head(queue) = queue[1]
  BY <1>1, <1>2
<1>4. Leaves(queue, queue', {1}) /\ Len(queue') = Len(queue) - 1
  BY <1>1, <1>2, TailLeaves
<1>5. Taken(held', held, queue, {1})
  BY <1>2, <1>3 DEF Taken, Handed, Range
<1>6. erased \in Nat
  BY DEF SpoolInv, CountsSound
<1>7. erased' = erased + 0 /\ Len(queue') = Len(queue) - 1 - 0 /\ {1} \subseteq DOMAIN queue
  BY <1>1, <1>2, <1>3, <1>4, <1>6
<1> QED
  BY <1>2, <1>4, <1>5, <1>7, TakingStep

LEMMA DequeueForTenantStep ==
  ASSUME SpoolInv, NEW t \in Tenant, DequeueForTenant(t)
  PROVE  SpoolInv'
<1>1. queue \in Seq(Kept) /\ Len(queue) \in Nat
  BY DEF SpoolInv, QueueSound
<1>2. PICK i \in DOMAIN queue :
        /\ queue' = RemoveAt(queue, i) /\ totalDelivered' = totalDelivered + 1
        /\ held' = held \cup {queue[i]}
        /\ UNCHANGED <<key, nextSeq, totalEnqueued, totalDropped, saved, nacks, erased>>
  BY DEF DequeueForTenant
<1>3. Leaves(queue, queue', {i}) /\ Len(queue') = Len(queue) - 1
  BY <1>1, <1>2, OneLeaves
<1>4. Taken(held', held, queue, {i})
  BY <1>2 DEF Taken
<1>5. erased \in Nat
  BY DEF SpoolInv, CountsSound
<1>6. erased' = erased + 0 /\ Len(queue') = Len(queue) - 1 - 0 /\ {i} \subseteq DOMAIN queue
  BY <1>1, <1>2, <1>3, <1>5
<1> QED
  BY <1>2, <1>3, <1>4, <1>6, TakingStep

\* What drain_all takes off the queue: up to and with the first entry that
\* does not parse.
LEMMA FirstUnreadable ==
  ASSUME queue \in Seq(Kept)
  PROVE  LET unreadable == {i \in DOMAIN queue : ~Readable(queue[i])}
             n == IF unreadable = {} THEN Len(queue) ELSE Min(unreadable)
         IN n \in 0..Len(queue) /\ \A i \in 1..n : Readable(queue[i]) \/ i \in unreadable
<1> DEFINE unreadable == {i \in DOMAIN queue : ~Readable(queue[i])}
<1>1. DOMAIN queue = 1..Len(queue) /\ Len(queue) \in Nat
  OBVIOUS
<1>2. unreadable \in SUBSET Nat
  BY <1>1
<1>3. CASE unreadable # {}
  <2>1. \E i \in unreadable : \A k \in unreadable : i <= k
    BY <1>2, <1>3, LeastNatural
  <2>2. Min(unreadable) \in unreadable
    <3> HIDE DEF unreadable
    <3> QED
      BY <2>1 DEF Min
  <2>3. Min(unreadable) \in 1..Len(queue)
    BY <1>1, <2>2
  <2> HIDE DEF unreadable
  <2>4. \A i \in 1..Min(unreadable) : i \in DOMAIN queue
    BY <1>1, <2>3
  <2> QED
    BY <1>1, <1>3, <2>3, <2>4 DEF unreadable
<1>4. CASE unreadable = {}
  BY <1>1, <1>4
<1> QED
  BY <1>3, <1>4

LEMMA DrainAllStep ==
  ASSUME SpoolInv, DrainAll
  PROVE  SpoolInv'
<1> DEFINE unreadable == {i \in DOMAIN queue : ~Readable(queue[i])}
           n == IF unreadable = {} THEN Len(queue) ELSE Min(unreadable)
<1>1. queue \in Seq(Kept) /\ Len(queue) \in Nat
  BY DEF SpoolInv, QueueSound
<1>2. n \in 0..Len(queue)
  BY <1>1, FirstUnreadable
<1>3. /\ queue' = SubSeq(queue, n + 1, Len(queue)) /\ totalDelivered' = totalDelivered + n
      /\ held' = held \cup Handed(SubSeq(queue, 1, n))
      /\ UNCHANGED <<key, nextSeq, totalEnqueued, totalDropped, saved, nacks, erased>>
  BY DEF DrainAll
<1> HIDE DEF n
<1>4. Leaves(queue, queue', 1..n) /\ Len(queue') = Len(queue) - n
  BY <1>1, <1>2, <1>3, SuffixLeaves
<1>5. Taken(held', held, queue, 1..n)
  <2> DEFINE s == SubSeq(queue, 1, n)
  <2>1. DOMAIN s = 1..n /\ \A i \in 1..n : s[i] = queue[i]
    BY <1>1, <1>2
  <2> HIDE DEF s
  <2> QED
    BY <1>3, <2>1 DEF Taken, Handed, Range, s
<1>6. erased \in Nat
  BY DEF SpoolInv, CountsSound
<1>7. erased' = erased + 0 /\ Len(queue') = Len(queue) - n - 0 /\ 1..n \subseteq DOMAIN queue /\ n \in Nat
  BY <1>1, <1>2, <1>3, <1>4, <1>6
<1> QED
  BY <1>3, <1>4, <1>5, <1>7, TakingStep

\* drain_for_tenant: the queue is the tenant's entries, the others' and those
\* that do not parse, and the counters account for the first and the last.
LEMMA DrainForTenantStep ==
  ASSUME SpoolInv, NEW t \in Tenant, DrainForTenant(t)
  PROVE  SpoolInv'
<1> DEFINE A == {i \in DOMAIN queue : Of(queue[i], t)}
           B == {i \in DOMAIN queue : Readable(queue[i]) /\ queue[i].tenant # t}
           C == {i \in DOMAIN queue : ~Readable(queue[i])}
           taken == {e \in Range(queue) : Of(e, t)}
           lost == {e \in Range(queue) : ~Readable(e)}
<1>1. /\ queue \in Seq(Kept) /\ Len(queue) \in Nat /\ DOMAIN queue = 1..Len(queue)
      /\ QueueSound(queue, nextSeq)
  BY DEF SpoolInv, QueueSound
<1>2. /\ queue' = EntriesAt(B) /\ totalDelivered' = totalDelivered + Cardinality(taken)
      /\ held' = held \cup taken /\ erased' = erased + Cardinality(lost)
      /\ UNCHANGED <<key, nextSeq, totalEnqueued, totalDropped, saved, nacks>>
  BY DEF DrainForTenant, Remaining
<1>3. taken = {queue[i] : i \in A} /\ lost = {queue[i] : i \in C}
  BY DEF Range
<1>4. Leaves(queue, queue', DOMAIN queue \ B) /\ Len(queue') = Cardinality(B)
  BY <1>1, <1>2, EntriesLeave
<1>5. A \cup B \cup C = 1..Len(queue) /\ A \cap B = {} /\ A \cap C = {} /\ B \cap C = {}
  BY <1>1 DEF Of
<1>6. /\ Cardinality(taken) = Cardinality(A) /\ Cardinality(A) \in Nat
      /\ Cardinality(lost) = Cardinality(C) /\ Cardinality(C) \in Nat
      /\ Cardinality(B) \in Nat
  <2>1. A \in SUBSET DOMAIN queue /\ B \in SUBSET DOMAIN queue /\ C \in SUBSET DOMAIN queue
    OBVIOUS
  <2> HIDE DEF A, B, C, taken, lost
  <2> QED
    BY <2>1, <1>1, <1>3, CountAt
<1>7. Taken(held', held, queue, DOMAIN queue \ B)
  <2>1. A \subseteq DOMAIN queue \ B
    BY DEF Of
  <2> HIDE DEF A, B, C, taken, lost
  <2> QED
    BY <2>1, <1>2, <1>3 DEF Taken
<1>8. DOMAIN queue \ B \subseteq DOMAIN queue
  OBVIOUS
<1> HIDE DEF A, B, C, taken, lost
<1>9. Cardinality(A) + Cardinality(B) + Cardinality(C) = Len(queue)
  BY <1>1, <1>5, ThreeKinds
<1>10. Len(queue') = Len(queue) - Cardinality(A) - Cardinality(C)
  BY <1>1, <1>4, <1>6, <1>9
<1> QED
  BY <1>2, <1>4, <1>6, <1>7, <1>8, <1>10, TakingStep

\* nack puts an entry from a caller's hands back under its number, or counts
\* it as dropped.
LEMMA NackStep ==
  ASSUME SpoolInv, NEW e \in held, Nack(e)
  PROVE  SpoolInv'
<1> DEFINE d == [e EXCEPT !.attempts = @ + 1, !.key = key]
           h == held \ {e}
<1>1. /\ key \in Key /\ nextSeq \in Nat /\ nextSeq # 0
      /\ QueueSound(queue, nextSeq) /\ HandsSound(held, queue, nextSeq)
      /\ Len(queue) \in Nat
      /\ CountsSound(Len(queue), totalEnqueued, totalDelivered, totalDropped, nacks, erased)
  BY DEF SpoolInv, QueueSound
<1>2. e \in Kept /\ e \in Entry
  BY <1>1 DEF HandsSound, Kept
<1>3. /\ held' = h /\ nacks' = nacks + 1 /\ totalDropped' = DroppedAfterNack(e)
      /\ queue' = IF Exhausted(e) THEN queue ELSE Append(queue, d)
      /\ UNCHANGED <<key, nextSeq, totalEnqueued, totalDelivered, saved, erased>>
  BY DEF Nack
<1>4. HandsSound(h, queue, nextSeq)
  BY <1>1 DEF HandsSound
<1>5. CASE Exhausted(e)
  <2>1. /\ QueueSound(queue', nextSeq') /\ HandsSound(held', queue', nextSeq')
        /\ totalDropped' = totalDropped + 1 /\ Len(queue') = Len(queue)
    BY <1>1, <1>3, <1>4, <1>5 DEF DroppedAfterNack
  <2> HIDE DEF d, h
  <2>2. CountsSound(Len(queue'), totalEnqueued', totalDelivered', totalDropped', nacks', erased')
    BY <2>1, <1>1, <1>3, LimitAssumption DEF CountsSound
  <2>3. ImageSound'
    BY <1>3 DEF SpoolInv, ImageSound
  <2> QED
    BY <1>1, <1>3, <2>1, <2>2, <2>3 DEF SpoolInv
<1>6. CASE ~Exhausted(e)
  <2>1. d \in Entry /\ d.attempts = e.attempts + 1 /\ d.seq = e.seq
    <3>1. e \in Entry /\ key \in Key
      BY <1>1, <1>2
    <3>2. ASSUME NEW c, c = [e EXCEPT !.attempts = @ + 1]
          PROVE  d = [c EXCEPT !.key = key]
      BY <3>2, Zenon
    <3>3. ASSUME NEW c, c = [e EXCEPT !.attempts = @ + 1]
          PROVE  c \in Entry /\ c.attempts = e.attempts + 1 /\ c.seq = e.seq
      BY <3>1, <3>3 DEF Entry
    <3>4. ASSUME NEW c \in Entry
          PROVE  LET b == [c EXCEPT !.key = key]
                 IN b \in Entry /\ b.attempts = c.attempts /\ b.seq = c.seq
      BY <3>1, <3>4 DEF Entry
    <3>5. PICK c : c = [e EXCEPT !.attempts = @ + 1]
      OBVIOUS
    <3> HIDE DEF d
    <3> QED
      BY <3>2, <3>3, <3>4, <3>5
  <2>2. d \in Kept /\ d.attempts # 0
    <3>1. e.attempts \in Nat /\ ~(e.attempts + 1 > MaxRetries)
      BY <1>2, <1>6 DEF Exhausted, Entry
    <3> HIDE DEF d
    <3> QED
      BY <2>1, <3>1, LimitAssumption DEF Kept
  <2>3. d.seq < nextSeq /\ \A i \in DOMAIN queue : queue[i].seq # d.seq
    BY <1>1, <2>1 DEF HandsSound
  <2>4. \A c \in h : c.seq # d.seq
    BY <1>1, <2>1 DEF HandsSound
  <2>5. queue' = Append(queue, d) /\ totalDropped' = totalDropped
    BY <1>3, <1>6 DEF DroppedAfterNack
  <2> HIDE DEF d, h
  <2>6. /\ QueueSound(queue', nextSeq') /\ HandsSound(held', queue', nextSeq')
        /\ Len(queue') = Len(queue) + 1
    BY <1>1, <1>3, <1>4, <2>2, <2>3, <2>4, <2>5, PutIn
  <2>7. CountsSound(Len(queue'), totalEnqueued', totalDelivered', totalDropped', nacks', erased')
    <3>1. nacks' = nacks + 1 /\ UNCHANGED <<totalEnqueued, totalDelivered, erased>>
      BY <1>3
    <3> QED
      BY <3>1, <1>1, <2>5, <2>6, LimitAssumption DEF CountsSound
  <2>8. ImageSound'
    BY <1>3 DEF SpoolInv, ImageSound
  <2> QED
    BY <1>1, <1>3, <2>6, <2>7, <2>8 DEF SpoolInv
<1> QED
  BY <1>5, <1>6

\* Settling, persisting and starting again.  What persist writes is sound, so
\* what a restart reads is.
LEMMA OtherSteps ==
  ASSUME SpoolInv,
         \/ \E e \in held : Settle(e)
         \/ Persist
         \/ \E k \in Key : RestartRestored(k) \/ RestartEmpty(k)
         \/ UNCHANGED vars
  PROVE  SpoolInv'
<1>1. /\ key \in Key /\ nextSeq \in Nat \ {0}
      /\ QueueSound(queue, nextSeq) /\ HandsSound(held, queue, nextSeq)
      /\ CountsSound(Len(queue), totalEnqueued, totalDelivered, totalDropped, nacks, erased)
      /\ ImageSound
  BY DEF SpoolInv
<1>2. ASSUME NEW e \in held, Settle(e) PROVE SpoolInv'
  <2>1. held' = held \ {e} /\ UNCHANGED <<queue, key, counters, saved, nacks, erased>>
    BY <1>2 DEF Settle
  <2>2. HandsSound(held', queue, nextSeq)
    BY <1>1, <2>1 DEF HandsSound
  <2> QED
    BY <1>1, <2>1, <2>2 DEF SpoolInv, counters, ImageSound
<1>3. CASE Persist
  <2> DEFINE image == [queue |-> queue, nextSeq |-> nextSeq, enqueued |-> totalEnqueued,
                       delivered |-> totalDelivered, dropped |-> totalDropped,
                       nacks |-> nacks, erased |-> erased]
  <2>1. saved' = image /\ UNCHANGED <<queue, key, counters, held, nacks, erased>>
    BY <1>3 DEF Persist
  <2>2. image \in Image
    <3>1. queue \in Seq(Kept)
      BY <1>1 DEF QueueSound
    <3>2. Kept \subseteq Entry
      BY DEF Kept
    <3>3. queue \in Seq(Entry)
      BY <3>1, <3>2
    <3> QED
      BY <1>1, <3>3 DEF Image, CountsSound
  <2>3. /\ image.queue = queue /\ image.nextSeq = nextSeq /\ image.enqueued = totalEnqueued
        /\ image.delivered = totalDelivered /\ image.dropped = totalDropped
        /\ image.nacks = nacks /\ image.erased = erased
    OBVIOUS
  <2> HIDE DEF image
  <2>4. ImageSound'
    BY <1>1, <2>1, <2>2, <2>3 DEF ImageSound
  <2> QED
    BY <1>1, <2>1, <2>4 DEF SpoolInv, counters
<1>4. ASSUME NEW k \in Key, RestartRestored(k) PROVE SpoolInv'
  <2>1. /\ saved # Nothing /\ key' = k /\ held' = {} /\ queue' = saved.queue
        /\ nextSeq' = saved.nextSeq /\ totalEnqueued' = saved.enqueued
        /\ totalDelivered' = saved.delivered /\ totalDropped' = saved.dropped
        /\ nacks' = saved.nacks /\ erased' = saved.erased /\ UNCHANGED saved
    BY <1>4 DEF RestartRestored, RestoredSeq
  <2>2. /\ saved \in Image /\ QueueSound(saved.queue, saved.nextSeq)
        /\ CountsSound(Len(saved.queue), saved.enqueued, saved.delivered, saved.dropped,
                       saved.nacks, saved.erased)
    BY <1>1, <2>1 DEF ImageSound
  <2>3. saved.nextSeq \in Nat \ {0}
    BY <2>2 DEF Image
  <2>4. HandsSound(held', queue', nextSeq')
    BY <2>1 DEF HandsSound
  <2>5. ImageSound'
    BY <1>1, <2>1 DEF ImageSound
  <2> QED
    BY <2>1, <2>2, <2>3, <2>4, <2>5 DEF SpoolInv
<1>5. ASSUME NEW k \in Key, RestartEmpty(k) PROVE SpoolInv'
  <2>1. /\ key' = k /\ held' = {} /\ queue' = << >> /\ nextSeq' = 1
        /\ totalEnqueued' = 0 /\ totalDelivered' = 0 /\ totalDropped' = 0
        /\ nacks' = 0 /\ erased' = 0 /\ UNCHANGED saved
    BY <1>5 DEF RestartEmpty
  <2>2. QueueSound(<< >>, 1) /\ HandsSound({}, << >>, 1)
    BY DEF QueueSound, HandsSound
  <2>3. CountsSound(Len(<< >>), 0, 0, 0, 0, 0)
    BY LimitAssumption DEF CountsSound
  <2>4. ImageSound'
    BY <1>1, <2>1 DEF ImageSound
  <2> QED
    BY <2>1, <2>2, <2>3, <2>4 DEF SpoolInv
<1>6. CASE UNCHANGED vars
  BY <1>1, <1>6 DEF vars, counters, SpoolInv, ImageSound
<1> QED
  BY <1>2, <1>3, <1>4, <1>5, <1>6

\* Every operation keeps the inductive invariant.
LEMMA SpoolStep == SpoolInv /\ [Next]_vars => SpoolInv'
BY EnqueueStep, DequeueStep, DequeueForTenantStep, DrainAllStep, DrainForTenantStep, NackStep,
   OtherSteps DEF Next

LEMMA SpoolInit == Init => SpoolInv
<1>1. QueueSound(<< >>, 1) /\ HandsSound({}, << >>, 1)
  BY DEF QueueSound, HandsSound
<1>2. CountsSound(Len(<< >>), 0, 0, 0, 0, 0)
  BY LimitAssumption DEF CountsSound
<1> QED
  BY <1>1, <1>2 DEF Init, SpoolInv, ImageSound

\* The spool and the image it was last persisted to are sound at all times.
THEOREM SpoolInvariant == Spec => []SpoolInv
BY SpoolInit, SpoolStep, PTL DEF Spec

-----------------------------------------------------------------------------
(* What follows. *)

\* Types, the limit on tries, and a queue longer than max_entries by no more
\* than what callers handed back, over any number of restarts.
THEOREM SpoolTypes == Spec => []TypeOK
<1>1. SpoolInv => TypeOK
  <2> SUFFICES ASSUME SpoolInv PROVE TypeOK
    OBVIOUS
  <2>1. queue \in Seq({e \in Entry : e.attempts <= MaxRetries})
    BY DEF SpoolInv, QueueSound, Kept
  <2>2. held \subseteq Entry
    BY DEF SpoolInv, HandsSound, Kept
  <2>3. saved \in Image \cup {Nothing}
    BY DEF SpoolInv, ImageSound
  <2> QED
    BY <2>1, <2>2, <2>3 DEF SpoolInv, CountsSound, TypeOK
<1> QED
  BY <1>1, SpoolInvariant, PTL

\* A sequence number is the event's own wherever the event is: across
\* retries, and after a restart from any image persist ever wrote last.
THEOREM NumbersIdentify == Spec => []SeqsIdentify
<1>1. SpoolInv => SeqsIdentify
  <2> SUFFICES ASSUME SpoolInv PROVE SeqsIdentify
    OBVIOUS
  <2>1. QueueSound(queue, nextSeq) /\ HandsSound(held, queue, nextSeq)
    BY DEF SpoolInv
  <2>2. \A e \in Range(queue) \cup held : e.seq < nextSeq
    BY <2>1 DEF QueueSound, HandsSound, Range
  <2> QED
    BY <2>1, <2>2 DEF QueueSound, HandsSound, SeqsIdentify
<1> QED
  BY <1>1, SpoolInvariant, PTL

\* However entries are taken, drained, handed back, dropped or restored, the
\* counters account for every one, those drain_for_tenant erases included.
THEOREM CountersBalance == Spec => []Balanced
<1>1. SpoolInv => Balanced
  BY DEF SpoolInv, CountsSound, Balanced
<1> QED
  BY <1>1, SpoolInvariant, PTL

\* First tries leave in the order they came.
THEOREM FirstTriesKeepOrder == Spec => []FirstTriesInOrder
<1>1. SpoolInv => FirstTriesInOrder
  BY DEF SpoolInv, QueueSound, FirstTriesInOrder
<1> QED
  BY <1>1, SpoolInvariant, PTL

\* The step that ReadableNotLost speaks of.
LosesNothing ==
  \/ \E k \in Key : RestartRestored(k) \/ RestartEmpty(k)
  \/ \A e \in Range(queue) \ Range(queue') :
       e \in held' \/ ~Readable(e) \/ totalDropped' = totalDropped + 1

\* An entry that stays at its place or at another is not lost.
LEMMA StaysInRange ==
  ASSUME NEW q, NEW p, \A i \in DOMAIN q : \E k \in DOMAIN p : p[k] = q[i]
  PROVE  Range(q) \subseteq Range(p)
BY DEF Range

\* Append loses nothing.
LEMMA AppendKeepsRange ==
  ASSUME NEW q \in Seq(Kept), NEW e
  PROVE  Range(q) \subseteq Range(Append(q, e))
<1>1. \A i \in DOMAIN q : i \in DOMAIN Append(q, e) /\ Append(q, e)[i] = q[i]
  OBVIOUS
<1> QED
  BY <1>1, StaysInRange

LEMMA LosesNothingStep == SpoolInv /\ [Next]_vars => [LosesNothing]_vars
<1> SUFFICES ASSUME SpoolInv, Next PROVE LosesNothing
  OBVIOUS
<1>1. queue \in Seq(Kept) /\ Len(queue) \in Nat /\ DOMAIN queue = 1..Len(queue)
  BY DEF SpoolInv, QueueSound
<1>2. ASSUME UNCHANGED queue PROVE LosesNothing
  BY <1>2 DEF LosesNothing
<1>3. ASSUME NEW t \in Tenant \cup {NoTenant}, Enqueue(t) PROVE LosesNothing
  <2> DEFINE e == [seq |-> nextSeq, attempts |-> 0, tenant |-> t, key |-> key]
  <2>1. CASE Full
    <3>1. totalDropped' = totalDropped + 1
      BY <1>3, <2>1 DEF Enqueue
    <3> QED
      BY <3>1 DEF LosesNothing
  <2>2. CASE ~Full
    <3>1. queue' = Append(queue, e)
      BY <1>3, <2>2 DEF Enqueue
    <3> HIDE DEF e
    <3>2. Range(queue) \subseteq Range(queue')
      BY <3>1, <1>1, AppendKeepsRange
    <3> QED
      BY <3>2 DEF LosesNothing
  <2> QED
    BY <2>1, <2>2
<1>4. CASE Dequeue
  <2>1. queue # << >> /\ queue' = Tail(queue) /\ held' = held \cup Handed(<<Head(queue)>>)
    BY <1>4 DEF Dequeue
  <2>2. Head(queue) = queue[1] /\ 1 \in DOMAIN queue
    BY <1>1, <2>1
  <2>3. ASSUME NEW i \in DOMAIN queue, i # 1 PROVE queue[i] \in Range(queue')
    <3>1. i - 1 \in DOMAIN Tail(queue) /\ Tail(queue)[i - 1] = queue[i]
      BY <1>1, <2>1, <2>3
    <3> QED
      BY <3>1, <2>1 DEF Range
  <2>4. Readable(queue[1]) => queue[1] \in held'
    BY <2>1, <2>2 DEF Handed, Range
  <2>5. ASSUME NEW e \in Range(queue) \ Range(queue') PROVE e \in held' \/ ~Readable(e)
    <3>1. PICK i \in DOMAIN queue : e = queue[i]
      BY DEF Range
    <3> QED
      BY <3>1, <2>3, <2>4
  <2> QED
    BY <2>5 DEF LosesNothing
<1>5. ASSUME NEW t \in Tenant, DequeueForTenant(t) PROVE LosesNothing
  <2>1. PICK i \in DOMAIN queue : queue' = RemoveAt(queue, i) /\ held' = held \cup {queue[i]}
    BY <1>5 DEF DequeueForTenant
  <2>2. ASSUME NEW j \in DOMAIN queue, j # i PROVE queue[j] \in Range(queue')
    <3> DEFINE a == SubSeq(queue, 1, i - 1)
               b == SubSeq(queue, i + 1, Len(queue))
    <3>1. a \in Seq(Kept) /\ Len(a) = i - 1 /\ \A k \in 1..(i - 1) : a[k] = queue[k]
      BY <1>1
    <3>2. b \in Seq(Kept) /\ Len(b) = Len(queue) - i /\ \A k \in 1..(Len(queue) - i) : b[k] = queue[k + i]
      BY <1>1
    <3>3. queue' = a \o b
      BY <2>1 DEF RemoveAt
    <3> HIDE DEF a, b
    <3>4. /\ DOMAIN queue' = 1..(Len(a) + Len(b))
          /\ \A k \in DOMAIN a : queue'[k] = a[k]
          /\ \A k \in DOMAIN b : Len(a) + k \in DOMAIN queue' /\ queue'[Len(a) + k] = b[k]
      BY <3>1, <3>2, <3>3
    <3>5. CASE j < i
      <4>1. j \in DOMAIN a /\ j \in DOMAIN queue' /\ queue'[j] = queue[j]
        BY <3>5, <3>1, <3>2, <3>4, <1>1
      <4> QED
        BY <4>1 DEF Range
    <3>6. CASE ~(j < i)
      <4>1. j - i \in 1..(Len(queue) - i) /\ (j - i) + i = j
        BY <3>6, <2>2, <1>1
      <4>2. j - i \in DOMAIN b /\ b[j - i] = queue[j]
        BY <4>1, <3>2
      <4> QED
        BY <4>2, <3>4 DEF Range
    <3> QED
      BY <3>5, <3>6
  <2>3. ASSUME NEW e \in Range(queue) \ Range(queue') PROVE e \in held'
    <3>1. PICK j \in DOMAIN queue : e = queue[j]
      BY DEF Range
    <3> QED
      BY <3>1, <2>1, <2>2
  <2> QED
    BY <2>3 DEF LosesNothing
<1>6. CASE DrainAll
  <2> DEFINE unreadable == {i \in DOMAIN queue : ~Readable(queue[i])}
             n == IF unreadable = {} THEN Len(queue) ELSE Min(unreadable)
             s == SubSeq(queue, 1, n)
  <2>1. n \in 0..Len(queue)
    BY <1>1, FirstUnreadable
  <2>2. queue' = SubSeq(queue, n + 1, Len(queue)) /\ held' = held \cup Handed(s)
    BY <1>6 DEF DrainAll
  <2> HIDE DEF n
  <2>3. DOMAIN s = 1..n /\ \A i \in 1..n : s[i] = queue[i]
    BY <1>1, <2>1
  <2> HIDE DEF s
  <2>4. ASSUME NEW i \in DOMAIN queue, i \in 1..n, Readable(queue[i]) PROVE queue[i] \in held'
    BY <2>2, <2>3, <2>4 DEF Handed, Range
  <2>5. ASSUME NEW i \in DOMAIN queue, i \notin 1..n PROVE queue[i] \in Range(queue')
    <3>1. i - n \in DOMAIN queue' /\ queue'[i - n] = queue[i]
      BY <1>1, <2>1, <2>2, <2>5
    <3> QED
      BY <3>1 DEF Range
  <2>6. ASSUME NEW e \in Range(queue) \ Range(queue') PROVE e \in held' \/ ~Readable(e)
    <3>1. PICK i \in DOMAIN queue : e = queue[i]
      BY DEF Range
    <3> QED
      BY <3>1, <2>4, <2>5
  <2> QED
    BY <2>6 DEF LosesNothing
<1>7. ASSUME NEW t \in Tenant, DrainForTenant(t) PROVE LosesNothing
  <2> DEFINE B == {i \in DOMAIN queue : Readable(queue[i]) /\ queue[i].tenant # t}
  <2>1. queue' = EntriesAt(B) /\ held' = held \cup {e \in Range(queue) : Of(e, t)}
    BY <1>7 DEF DrainForTenant, Remaining
  <2>2. \A i \in B : \E k \in DOMAIN queue' : queue'[k] = queue[i]
    <3>1. B \in SUBSET DOMAIN queue
      OBVIOUS
    <3> HIDE DEF B
    <3> QED
      BY <3>1, <1>1, <2>1, EntriesLeave
  <2>3. ASSUME NEW e \in Range(queue) \ Range(queue'), Readable(e) PROVE e \in held'
    <3>1. PICK i \in DOMAIN queue : e = queue[i]
      BY DEF Range
    <3>2. i \notin B
      BY <3>1, <2>2, <2>3 DEF Range
    <3>3. Of(e, t)
      BY <3>1, <3>2, <2>3 DEF Of
    <3> QED
      BY <3>3, <2>1
  <2> QED
    BY <2>3 DEF LosesNothing
<1>8. ASSUME NEW e \in held, Nack(e) PROVE LosesNothing
  <2> DEFINE d == [e EXCEPT !.attempts = @ + 1, !.key = key]
  <2>1. queue' = queue \/ queue' = Append(queue, d)
    BY <1>8 DEF Nack
  <2> HIDE DEF d
  <2>2. Range(queue) \subseteq Range(queue')
    BY <2>1, <1>1, AppendKeepsRange
  <2> QED
    BY <2>2 DEF LosesNothing
<1>9. ASSUME NEW e \in held, Settle(e) PROVE LosesNothing
  BY <1>9, <1>2 DEF Settle
<1>10. CASE Persist
  BY <1>10, <1>2 DEF Persist
<1>11. ASSUME NEW k \in Key, RestartRestored(k) \/ RestartEmpty(k) PROVE LosesNothing
  BY <1>11 DEF LosesNothing
<1> QED
  BY <1>3, <1>4, <1>5, <1>6, <1>7, <1>8, <1>9, <1>10, <1>11 DEF Next

\* While the process runs no entry that the key reads leaves the queue but
\* into a caller's hands or as a counted drop.
THEOREM NothingReadableLost == Spec => ReadableNotLost
BY SpoolInvariant, LosesNothingStep, PTL DEF Spec, ReadableNotLost, LosesNothing
=============================================================================
