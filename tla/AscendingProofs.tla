--------------------------- MODULE AscendingProofs ---------------------------
(***************************************************************************)
(* Facts about Ascending: extrema of sets of naturals, and that a finite   *)
(* set of them has a listing in ascending order, which names every member  *)
(* once.                                                                   *)
(***************************************************************************)
EXTENDS Ascending, Integers, FiniteSetTheorems, FunctionTheorems, WellFoundedInduction, TLAPS

\* Every non-empty set of naturals has a least element.
LEMMA LeastNatural ==
  ASSUME NEW S \in SUBSET Nat, S # {}
  PROVE  \E i \in S : \A k \in S : i <= k
<1>1. PICK i \in S : \A k \in S : ~ (<<k, i>> \in OpToRel(<, Nat))
  BY NatLessThanWellFounded, WFMin
<1>2. \A k \in S : ~ (k < i)
  BY <1>1 DEF OpToRel
<1> QED
  BY <1>2

\* Every non-empty set of naturals with a bound has a greatest element.
LEMMA GreatestNatural ==
  ASSUME NEW S \in SUBSET Nat, S # {}, NEW b \in Nat, \A k \in S : k <= b
  PROVE  \E i \in S : \A k \in S : i >= k
<1> DEFINE D == {b - k : k \in S}
<1>1. D \in SUBSET Nat /\ D # {}
  OBVIOUS
<1>2. PICK d \in D : \A e \in D : d <= e
  BY <1>1, LeastNatural
<1>3. PICK i \in S : d = b - i
  BY <1>2
<1>4. ASSUME NEW k \in S PROVE i >= k
  <2>1. b - k \in D
    OBVIOUS
  <2>2. d <= b - k
    BY <2>1, <1>2
  <2> QED
    BY <2>2, <1>3
<1> QED
  BY <1>4

\* A set whose least member is taken out can be listed when the rest can.
LEMMA ListingsOfMore ==
  ASSUME NEW S \in SUBSET Nat, IsFiniteSet(S), NEW m \in S, \A k \in S : m <= k,
         Listings(S \ {m}) # {}
  PROVE  Listings(S) # {}
<1> DEFINE n == Cardinality(S)
<1>1. n \in Nat /\ Cardinality(S \ {m}) = n - 1 /\ n - 1 \in Nat
  BY FS_RemoveElement, FS_CardinalityType
<1>2. PICK t \in [1..(n - 1) -> S \ {m}] :
        \A i, j \in 1..(n - 1) : i < j => t[i] < t[j]
  BY <1>1 DEF Listings
<1> HIDE DEF n
<1> DEFINE s == [k \in 1..n |-> IF k = 1 THEN m ELSE t[k - 1]]
<1>3. \A k \in 1..n : k # 1 => k - 1 \in 1..(n - 1) /\ s[k] = t[k - 1] /\ s[k] \in S /\ m < s[k]
  <2> TAKE k \in 1..n
  <2> HAVE k # 1
  <2>1. k - 1 \in 1..(n - 1)
    BY <1>1
  <2>2. t[k - 1] \in S \ {m}
    BY <2>1, <1>2
  <2>3. m < t[k - 1]
    <3>1. t[k - 1] \in Nat /\ m \in Nat /\ m <= t[k - 1] /\ m # t[k - 1]
      BY <2>2
    <3> QED
      BY <3>1
  <2>4. s[k] = t[k - 1]
    OBVIOUS
  <2> QED
    BY <2>1, <2>2, <2>3, <2>4
<1>4. \A k \in 1..n : k = 1 => s[k] = m
  OBVIOUS
<1>5. s \in [1..n -> S]
  BY <1>3, <1>4
<1>6. ASSUME NEW i \in 1..n, NEW j \in 1..n, i < j PROVE s[i] < s[j]
  <2>1. j # 1 /\ j - 1 \in 1..(n - 1) /\ s[j] = t[j - 1] /\ m < s[j]
    BY <1>6, <1>3, <1>1
  <2>2. CASE i = 1
    BY <2>1, <2>2, <1>4
  <2>3. CASE i # 1
    <3>1. i - 1 \in 1..(n - 1) /\ s[i] = t[i - 1] /\ i - 1 < j - 1
      BY <2>3, <1>3, <1>6
    <3> QED
      BY <3>1, <2>1, <1>2
  <2> QED
    BY <2>2, <2>3
<1> QED
  BY <1>5, <1>6 DEF Listings, n

\* Every finite set of naturals can be listed in ascending order: no size is
\* the least one at which it fails.
LEMMA ListingExists ==
  ASSUME NEW S \in SUBSET Nat, IsFiniteSet(S)
  PROVE  Listings(S) # {}
<1> DEFINE Unlisted(n) == {T \in SUBSET Nat : IsFiniteSet(T) /\ Cardinality(T) = n /\ Listings(T) = {}}
           Bad == {n \in Nat : Unlisted(n) # {}}
<1>1. SUFFICES ASSUME Bad # {} PROVE FALSE
  <2>1. Cardinality(S) \in Nat
    BY FS_CardinalityType
  <2> QED
    BY <2>1, <1>1
<1>2. PICK n \in Bad : \A k \in Bad : n <= k
  BY <1>1, LeastNatural
<1>3. PICK T \in SUBSET Nat : IsFiniteSet(T) /\ Cardinality(T) = n /\ Listings(T) = {}
  BY <1>2
<1>4. CASE T = {}
  <2>1. Cardinality(T) = 0
    BY <1>4, FS_EmptySet
  <2>2. [k \in 1..0 |-> 0] \in Listings(T)
    BY <2>1 DEF Listings
  <2> QED
    BY <2>2, <1>3
<1>5. CASE T # {}
  <2>1. PICK m \in T : \A k \in T : m <= k
    BY <1>5, LeastNatural
  <2>2. IsFiniteSet(T \ {m}) /\ Cardinality(T \ {m}) = n - 1 /\ n - 1 \in Nat
    <3>1. IsFiniteSet(T \ {m}) /\ Cardinality(T \ {m}) = Cardinality(T) - 1
      BY <1>3, FS_RemoveElement
    <3>2. Cardinality(T \ {m}) \in Nat
      BY <3>1, FS_CardinalityType
    <3> QED
      BY <3>1, <3>2, <1>3
  <2>3. n - 1 \notin Bad
    BY <1>2, <2>2
  <2>4. T \ {m} \notin Unlisted(n - 1)
    BY <2>2, <2>3
  <2>5. Listings(T \ {m}) # {}
    BY <2>2, <2>4
  <2> QED
    BY <2>1, <2>5, <1>3, ListingsOfMore
<1> QED
  BY <1>4, <1>5

\* InOrder lists every member of a finite set of naturals once, ascending.
LEMMA InOrderFacts ==
  ASSUME NEW S \in SUBSET Nat, IsFiniteSet(S)
  PROVE  LET s == InOrder(S)
             n == Cardinality(S)
         IN /\ n \in Nat
            /\ s \in [1..n -> S]
            /\ \A i, j \in 1..n : i < j => s[i] < s[j]
            /\ \A i, j \in 1..n : s[i] = s[j] => i = j
            /\ \A x \in S : \E i \in 1..n : s[i] = x
<1> DEFINE s == InOrder(S)
           n == Cardinality(S)
<1>1. n \in Nat
  BY FS_CardinalityType
<1>2. s \in Listings(S)
  BY ListingExists DEF InOrder
<1>3. s \in [1..n -> S] /\ \A i, j \in 1..n : i < j => s[i] < s[j]
  BY <1>2 DEF Listings
<1> HIDE DEF s, n
<1>4. ASSUME NEW i \in 1..n, NEW j \in 1..n, s[i] = s[j] PROVE i = j
  <2>1. s[i] \in Nat /\ s[j] \in Nat
    BY <1>3
  <2>2. ~(s[i] < s[j]) /\ ~(s[j] < s[i])
    BY <2>1, <1>4
  <2>3. ~(i < j) /\ ~(j < i)
    BY <2>2, <1>3
  <2> QED
    BY <2>3, <1>1
<1>5. s \in Injection(1..n, S)
  BY <1>3, <1>4, Fun_IsInj
<1>6. IsFiniteSet(1..n) /\ Cardinality(1..n) = n
  BY <1>1, FS_Interval
<1>7. s \in Surjection(1..n, S)
  BY <1>5, <1>6, FS_Injection DEF n
<1>8. \A x \in S : \E i \in 1..n : s[i] = x
  BY <1>7 DEF Surjection
<1> QED
  BY <1>1, <1>3, <1>4, <1>8 DEF s, n

\* Of two ascending listings that begin alike, neither goes on higher than the
\* other when that one lists everything.
LEMMA GoesNoHigher ==
  ASSUME NEW S \in SUBSET Nat, NEW n \in Nat, NEW a \in [1..n -> S], NEW b \in [1..n -> S],
         \A i, j \in 1..n : i < j => a[i] < a[j],
         \A i, j \in 1..n : i < j => b[i] < b[j],
         \A x \in S : \E i \in 1..n : a[i] = x,
         NEW j \in 1..n, \A i \in 1..n : i < j => a[i] = b[i]
  PROVE  a[j] <= b[j]
<1>1. PICK m \in 1..n : a[m] = b[j]
  OBVIOUS
<1>2. a[j] \in Nat /\ a[m] \in Nat /\ b[j] \in Nat /\ b[m] \in Nat
  OBVIOUS
<1>3. CASE m < j
  <2>1. b[m] < b[j] /\ b[m] = b[j]
    BY <1>1, <1>3
  <2> QED
    BY <1>2, <2>1
<1>4. CASE m = j
  BY <1>1, <1>2, <1>4
<1>5. CASE j < m
  <2>1. a[j] < a[m]
    BY <1>5
  <2> QED
    BY <1>1, <1>2, <2>1
<1> QED
  BY <1>3, <1>4, <1>5

\* A set of positions has one listing in ascending order.
LEMMA ListedOnce ==
  ASSUME NEW S \in SUBSET Nat, NEW n \in Nat, NEW e \in [1..n -> S],
         \A i, j \in 1..n : i < j => e[i] < e[j],
         \A x \in S : \E i \in 1..n : e[i] = x
  PROVE  Cardinality(S) = n /\ InOrder(S) = e
<1>1. \A i, j \in 1..n : e[i] = e[j] => i = j
  <2> SUFFICES ASSUME NEW i \in 1..n, NEW j \in 1..n, e[i] = e[j] PROVE i = j
    OBVIOUS
  <2>1. e[i] \in Nat /\ e[j] \in Nat
    OBVIOUS
  <2>2. ~(i < j) /\ ~(j < i)
    BY <2>1
  <2> QED
    BY <2>2
<1>2. e \in Bijection(1..n, S)
  BY <1>1, Fun_IsBij
<1>3. ExistsBijection(1..n, S)
  BY <1>2, Fun_ExistsBij
<1>4. Cardinality(S) = n /\ IsFiniteSet(S)
  BY <1>3, FS_CountingElements, FS_NatBijection
<1> DEFINE s == InOrder(S)
<1>5. /\ s \in [1..n -> S]
      /\ \A i, j \in 1..n : i < j => s[i] < s[j]
      /\ \A x \in S : \E i \in 1..n : s[i] = x
  BY <1>4, InOrderFacts
<1> HIDE DEF s
<1> DEFINE Apart == {j \in 1..n : s[j] # e[j]}
<1>6. Apart = {}
  <2> SUFFICES ASSUME Apart # {} PROVE FALSE
    OBVIOUS
  <2>0. Apart \in SUBSET Nat
    OBVIOUS
  <2>1. PICK j \in Apart : \A i \in Apart : j <= i
    BY <2>0, LeastNatural
  <2>2. j \in 1..n /\ s[j] # e[j] /\ \A i \in 1..n : i < j => s[i] = e[i]
    BY <2>1
  <2>3. s[j] <= e[j]
    BY <1>5, <2>2, GoesNoHigher
  <2>4. e[j] <= s[j]
    BY <1>5, <2>2, GoesNoHigher
  <2>5. s[j] \in Nat /\ e[j] \in Nat
    BY <1>5, <2>2
  <2> QED
    BY <2>2, <2>3, <2>4, <2>5
<1> QED
  BY <1>4, <1>5, <1>6 DEF s
=============================================================================
