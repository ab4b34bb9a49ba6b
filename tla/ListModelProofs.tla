-------------------------- MODULE ListModelProofs ---------------------------
(***************************************************************************)
(* What the operators of ListModel compute, for lists of any length: the   *)
(* lemmas the proofs about the pages with lists rest on. Induction is over *)
(* a set of numbers, which can be given as a value.                        *)
(***************************************************************************)
EXTENDS ListModel, FiniteSetTheorems, SequenceTheorems, TLAPS

-----------------------------------------------------------------------------
(* Induction and recursion.                                                *)

\* A set of numbers with 0 and with the successor of each of its members.
LEMMA SetInduction ==
    ASSUME NEW T \in SUBSET Nat, 0 \in T, \A n \in T : n + 1 \in T
    PROVE  T = Nat
  <1> DEFINE R == OpToRel(<, Nat)
             Missing == Nat \ T
  <1>1. SUFFICES ASSUME Missing # {} PROVE FALSE
    OBVIOUS
  <1>2. Missing \subseteq Nat
    OBVIOUS
  <1>3. IsWellFoundedOn(R, Nat)
    BY NatLessThanWellFounded
  <1>4. PICK x \in Missing : \A y \in Missing : ~ (<<y, x>> \in R)
    <2> HIDE DEF R, Missing
    <2> QED
      BY <1>1, <1>2, <1>3, WFMin
  <1>5. x \in Nat /\ x # 0 /\ x - 1 \in Nat
    OBVIOUS
  <1>6. <<x - 1, x>> \in R
    BY <1>5 DEF OpToRel
  <1>7. x - 1 \in T
    BY <1>4, <1>5, <1>6
  <1> QED
    BY <1>5, <1>7

\* The same, up to a bound.
LEMMA BoundedInduction ==
    ASSUME NEW N \in Nat, NEW T, 0 \in T, \A n \in 0..N - 1 : n \in T => n + 1 \in T
    PROVE  \A n \in 0..N : n \in T
  <1> DEFINE U == {n \in Nat : n <= N => n \in T}
  <1>1. U = Nat
    <2>1. U \in SUBSET Nat /\ 0 \in U
      OBVIOUS
    <2>2. \A n \in U : n + 1 \in U
      OBVIOUS
    <2> HIDE DEF U
    <2> QED
      BY <2>1, <2>2, SetInduction
  <1> QED
    BY <1>1

Follows(f, base, N, step) ==
    f[0] = base /\ \A n \in 1..N : f[n] = step[<<f[n - 1], n>>]

\* Some sequence of values begins with the base and follows the steps.
LEMMA StepsExist ==
    ASSUME NEW S, NEW base \in S, NEW N \in Nat, NEW step \in [S \X (1..N) -> S]
    PROVE  \E f \in [0..N -> S] : Follows(f, base, N, step)
  <1> DEFINE Good(f, m) == f[0] = base /\ \A n \in 1..m : f[n] = step[<<f[n - 1], n>>]
             T == {m \in 0..N : \E f \in [0..m -> S] : Good(f, m)}
  <1>1. 0 \in T
    <2> DEFINE g == [i \in 0..0 |-> base]
    <2>1. g \in [0..0 -> S] /\ Good(g, 0)
      OBVIOUS
    <2> HIDE DEF g, Good
    <2> QED
      BY <2>1
  <1>2. ASSUME NEW m \in 0..N - 1, m \in T PROVE m + 1 \in T
    <2>1. PICK f \in [0..m -> S] : Good(f, m)
      BY <1>2
    <2> DEFINE g == [i \in 0..m + 1 |-> IF i = m + 1 THEN step[<<f[m], m + 1>>] ELSE f[i]]
    <2>2. step[<<f[m], m + 1>>] \in S
      OBVIOUS
    <2>3. g \in [0..m + 1 -> S]
      BY <2>2
    <2>4. g[0] = base
      BY <2>1
    <2>5. ASSUME NEW n \in 1..m + 1 PROVE g[n] = step[<<g[n - 1], n>>]
      <3>1. CASE n = m + 1
        <4>1. g[n] = step[<<f[m], m + 1>>] /\ g[n - 1] = f[m]
          BY <3>1
        <4> HIDE DEF g
        <4> QED
          BY <3>1, <4>1
      <3>2. CASE n # m + 1
        BY <3>2, <2>1
      <3> QED
        BY <3>1, <3>2
    <2>6. Good(g, m + 1)
      BY <2>4, <2>5
    <2> HIDE DEF g, Good
    <2> QED
      BY <2>3, <2>6
  <1>3. N \in T
    <2> HIDE DEF T
    <2> QED
      BY <1>1, <1>2, BoundedInduction
  <1> QED
    BY <1>3 DEF Follows

-----------------------------------------------------------------------------
(* Queues.                                                                 *)

\* What is taken off the front leaves the rest in its order.
LEMMA TailPlaces ==
    ASSUME NEW T, NEW s \in Seq(T), s # <<>>
    PROVE  /\ Head(s) = s[1] /\ 1 \in DOMAIN s
           /\ Tail(s) \in Seq(T)
           /\ \A i \in DOMAIN Tail(s) : i + 1 \in DOMAIN s /\ Tail(s)[i] = s[i + 1]
           /\ \A i \in DOMAIN s : i # 1 => i - 1 \in DOMAIN Tail(s) /\ Tail(s)[i - 1] = s[i]
           /\ DOMAIN s \subseteq Nat
  OBVIOUS

\* What is put at the end leaves the rest in its place.
LEMMA AppendPlaces ==
    ASSUME NEW T, NEW s \in Seq(T), NEW e \in T
    PROVE  /\ Append(s, e) \in Seq(T)
           /\ Len(s) + 1 \in DOMAIN Append(s, e) /\ Append(s, e)[Len(s) + 1] = e
           /\ \A i \in DOMAIN s : i \in DOMAIN Append(s, e) /\ Append(s, e)[i] = s[i]
           /\ \A i \in DOMAIN Append(s, e) : i \in DOMAIN s \/ i = Len(s) + 1
           /\ \A i \in DOMAIN s : i < Len(s) + 1
           /\ DOMAIN s \subseteq Nat /\ Len(s) \in Nat
  OBVIOUS

-----------------------------------------------------------------------------
(* Numbers in their order.                                                 *)

\* A finite set of numbers that is not empty has a largest one.
LEMMA LargestOf ==
    ASSUME NEW S \in SUBSET Int, IsFiniteSet(S), S # {}
    PROVE  \E x \in S : \A y \in S : y <= x
  <1> DEFINE Has(R) == \E x \in R : \A y \in R : y <= x
             U == {n \in Nat : \A R \in SUBSET S : Cardinality(R) = n + 1 => Has(R)}
  <1>1. 0 \in U
    <2>1. ASSUME NEW R \in SUBSET S, Cardinality(R) = 1 PROVE Has(R)
      <3>1. IsFiniteSet(R)
        BY FS_Subset
      <3>2. PICK x : R = {x}
        BY <2>1, <3>1, FS_Singleton
      <3> QED
        BY <3>2
    <2> QED
      BY <2>1
  <1>2. ASSUME NEW n \in U PROVE n + 1 \in U
    <2>1. ASSUME NEW R \in SUBSET S, Cardinality(R) = n + 2 PROVE Has(R)
      <3>1. IsFiniteSet(R)
        BY FS_Subset
      <3>2. R # {}
        BY <2>1, <3>1, FS_EmptySet
      <3>3. PICK z \in R : TRUE
        BY <3>2
      <3>4. Cardinality(R \ {z}) = n + 1
        <4>1. Cardinality(R \ {z}) = Cardinality(R) - 1
          BY <3>1, <3>3, FS_RemoveElement
        <4> QED
          BY <2>1, <4>1
      <3>5. PICK x \in R \ {z} : \A y \in R \ {z} : y <= x
        BY <3>4
      <3>6. CASE z <= x
        BY <3>5, <3>6
      <3>7. CASE ~ (z <= x)
        <4>1. z \in Int /\ x \in Int /\ x <= z
          BY <3>7
        <4>2. \A y \in R : y <= z
          BY <3>5, <4>1
        <4> QED
          BY <4>2
      <3> QED
        BY <3>6, <3>7
    <2>2. (n + 1) + 1 = n + 2 /\ n + 1 \in Nat
      OBVIOUS
    <2> HIDE DEF Has
    <2> QED
      BY <2>1, <2>2
  <1>3. U = Nat
    <2> HIDE DEF U
    <2> QED
      BY <1>1, <1>2, SetInduction DEF U
  <1>4. PICK n \in Nat : Cardinality(S) = n + 1
    <2>1. Cardinality(S) \in Nat /\ Cardinality(S) # 0
      BY FS_CardinalityType, FS_EmptySet
    <2>2. Cardinality(S) - 1 \in Nat /\ Cardinality(S) = (Cardinality(S) - 1) + 1
      BY <2>1
    <2> QED
      BY <2>2
  <1> QED
    BY <1>3, <1>4

\* A finite set of numbers can be put in order.
LEMMA AscendingExists ==
    ASSUME NEW S \in SUBSET Int, IsFiniteSet(S)
    PROVE  \E s \in [1..Cardinality(S) -> S] :
               \A i, j \in DOMAIN s : i < j => s[i] < s[j]
  <1> DEFINE Rises(s) == \A i, j \in DOMAIN s : i < j => s[i] < s[j]
             U == {n \in Nat : \A R \in SUBSET S : Cardinality(R) = n =>
                                   \E s \in [1..n -> R] : Rises(s)}
  <1>1. 0 \in U
    <2>1. ASSUME NEW R \in SUBSET S, Cardinality(R) = 0 PROVE \E s \in [1..0 -> R] : Rises(s)
      <3> DEFINE s == [i \in 1..0 |-> i]
      <3>1. s \in [1..0 -> R] /\ Rises(s)
        OBVIOUS
      <3> HIDE DEF s, Rises
      <3> QED
        BY <3>1
    <2> QED
      BY <2>1
  <1>2. ASSUME NEW n \in U PROVE n + 1 \in U
    <2>1. ASSUME NEW R \in SUBSET S, Cardinality(R) = n + 1
          PROVE  \E s \in [1..n + 1 -> R] : Rises(s)
      <3>1. IsFiniteSet(R) /\ R \in SUBSET Int
        BY FS_Subset
      <3>2. R # {}
        BY <2>1, <3>1, FS_EmptySet
      <3>3. PICK x \in R : \A y \in R : y <= x
        BY <3>1, <3>2, LargestOf
      <3>4. Cardinality(R \ {x}) = n
        <4>1. Cardinality(R \ {x}) = Cardinality(R) - 1
          BY <3>1, <3>3, FS_RemoveElement
        <4> QED
          BY <2>1, <4>1
      <3>5. PICK s \in [1..n -> R \ {x}] : Rises(s)
        <4> HIDE DEF Rises
        <4> QED
          BY <3>4
      <3> DEFINE t == [i \in 1..n + 1 |-> IF i = n + 1 THEN x ELSE s[i]]
      <3>6. t \in [1..n + 1 -> R]
        OBVIOUS
      <3>7. ASSUME NEW i \in 1..n + 1, NEW j \in 1..n + 1, i < j PROVE t[i] < t[j]
        <4>1. i \in 1..n /\ t[i] = s[i] /\ s[i] \in R \ {x} /\ s[i] < x
          <5>1. i \in 1..n
            BY <3>7
          <5>2. s[i] \in R \ {x} /\ x \in Int /\ s[i] \in Int
            BY <5>1, <3>1
          <5> QED
            BY <5>1, <5>2, <3>3
        <4>2. CASE j = n + 1
          BY <4>1, <4>2
        <4>3. CASE j # n + 1
          BY <4>1, <4>3, <3>5, <3>7
        <4> QED
          BY <4>2, <4>3
      <3>8. Rises(t)
        BY <3>6, <3>7
      <3> HIDE DEF t, Rises
      <3> QED
        BY <3>6, <3>8
    <2>2. n + 1 \in Nat
      OBVIOUS
    <2> HIDE DEF Rises
    <2> QED
      BY <2>1, <2>2
  <1>3. U = Nat
    <2> HIDE DEF U
    <2> QED
      BY <1>1, <1>2, SetInduction DEF U
  <1>4. Cardinality(S) \in Nat
    BY FS_CardinalityType
  <1> HIDE DEF Rises
  <1>5. \E s \in [1..Cardinality(S) -> S] : Rises(s)
    BY <1>3, <1>4
  <1> QED
    BY <1>5 DEF Rises

\* Ascending has each number once, from the smallest on.
LEMMA AscendingOrder ==
    ASSUME NEW S \in SUBSET Int, IsFiniteSet(S)
    PROVE  /\ Cardinality(S) \in Nat
           /\ Ascending(S) \in [1..Cardinality(S) -> S]
           /\ \A i, j \in 1..Cardinality(S) : i < j => Ascending(S)[i] < Ascending(S)[j]
           /\ \A x \in S : \E i \in 1..Cardinality(S) : Ascending(S)[i] = x
  <1> DEFINE N == Cardinality(S)
             a == Ascending(S)
  <1>1. N \in Nat
    BY FS_CardinalityType
  <1>2. a \in [1..N -> S] /\ \A i, j \in DOMAIN a : i < j => a[i] < a[j]
    BY AscendingExists DEF Ascending
  <1>3. \A i, j \in 1..N : i < j => a[i] < a[j]
    BY <1>2
  <1>4. \A x \in S : \E i \in 1..N : a[i] = x
    <2> HIDE DEF a
    <2>1. \A i, j \in 1..N : a[i] = a[j] => i = j
      <3> SUFFICES ASSUME NEW i \in 1..N, NEW j \in 1..N, i # j PROVE a[i] # a[j]
        OBVIOUS
      <3>1. i < j \/ j < i
        BY <1>1
      <3>2. a[i] \in Int /\ a[j] \in Int
        BY <1>2
      <3> QED
        BY <3>1, <3>2, <1>3
    <2>2. a \in Injection(1..N, S)
      BY <1>2, <2>1 DEF Injection, IsInjective
    <2>3. IsFiniteSet(1..N) /\ Cardinality(1..N) = N
      BY <1>1, FS_Interval
    <2>4. a \in Surjection(1..N, S)
      BY <2>2, <2>3, FS_Injection
    <2> QED
      BY <2>4 DEF Surjection
  <1> QED
    BY <1>1, <1>2, <1>3, <1>4

Rising(s) == \A i, j \in 1..Len(s) : i < j => s[i] < s[j]

\* Every value of a sequence is one of another.
Within(s, t) == \A i \in 1..Len(s) : \E j \in 1..Len(t) : s[i] = t[j]

\* Where one of two rising sequences with the same numbers goes on, so does
\* the other, with the same number.
LEMMA OrderBegins ==
    ASSUME NEW s \in Seq(Int), NEW t \in Seq(Int),
           Rising(s), Rising(t), Within(s, t), Within(t, s)
    PROVE  \A k \in 1..Len(s) : k \in 1..Len(t) /\ s[k] = t[k]
  <1> DEFINE Same(k) == k \in 1..Len(t) /\ s[k] = t[k]
             U == {n \in Nat : \A k \in 1..n : k <= Len(s) => Same(k)}
  <1>0. /\ Len(s) \in Nat /\ \A i \in 1..Len(s) : s[i] \in Int
        /\ Len(t) \in Nat /\ \A i \in 1..Len(t) : t[i] \in Int
    OBVIOUS
  <1>1. U \in SUBSET Nat /\ 0 \in U
    OBVIOUS
  <1>2. ASSUME NEW n \in U PROVE n + 1 \in U
    <2>0. n \in Nat /\ \A k \in 1..n : k <= Len(s) => Same(k)
      BY <1>2
    <2>1. ASSUME n + 1 <= Len(s) PROVE Same(n + 1)
      <3>1. n + 1 \in 1..Len(s)
        BY <1>0, <2>0, <2>1
      <3>2. PICK j \in 1..Len(t) : s[n + 1] = t[j]
        BY <3>1 DEF Within
      <3>3. ~ (j <= n)
        <4> SUFFICES ASSUME j <= n PROVE FALSE
          OBVIOUS
        <4>1. j \in 1..n /\ j <= Len(s)
          BY <1>0, <2>0, <2>1
        <4>2. s[j] = t[j]
          BY <2>0, <4>1
        <4>3. j \in 1..Len(s) /\ j < n + 1
          BY <1>0, <2>0, <4>1
        <4>4. s[j] < s[n + 1] /\ s[n + 1] \in Int /\ s[j] \in Int
          BY <1>0, <3>1, <4>3 DEF Rising
        <4> QED
          BY <3>2, <4>2, <4>4
      <3>4. n + 1 \in 1..Len(t)
        BY <1>0, <2>0, <3>3
      <3>5. PICK i \in 1..Len(s) : t[n + 1] = s[i]
        BY <3>4 DEF Within
      <3>6. ~ (i <= n)
        <4> SUFFICES ASSUME i <= n PROVE FALSE
          OBVIOUS
        <4>1. i \in 1..n /\ i <= Len(s)
          BY <1>0, <2>0
        <4>2. s[i] = t[i] /\ i \in 1..Len(t) /\ i < n + 1
          BY <2>0, <4>1
        <4>3. t[i] < t[n + 1] /\ t[n + 1] \in Int /\ t[i] \in Int
          BY <1>0, <3>4, <4>2 DEF Rising
        <4> QED
          BY <3>5, <4>2, <4>3
      <3>7. s[n + 1] \in Int /\ s[i] \in Int /\ t[n + 1] \in Int /\ t[j] \in Int
        BY <1>0, <3>1, <3>4
      <3>8. s[n + 1] <= s[i]
        <4>1. n + 1 = i \/ n + 1 < i
          BY <1>0, <2>0, <3>6
        <4> QED
          BY <3>1, <3>7, <4>1 DEF Rising
      <3>9. t[n + 1] <= t[j]
        <4>1. n + 1 = j \/ n + 1 < j
          BY <1>0, <2>0, <3>3
        <4> QED
          BY <3>4, <3>7, <4>1 DEF Rising
      <3> QED
        BY <3>2, <3>4, <3>5, <3>7, <3>8, <3>9
    <2>2. ASSUME NEW k \in 1..n + 1, k <= Len(s) PROVE Same(k)
      <3> HIDE DEF Same
      <3>1. k \in 1..n \/ k = n + 1
        OBVIOUS
      <3> QED
        BY <2>0, <2>1, <2>2, <3>1
    <2> HIDE DEF Same
    <2> QED
      BY <2>0, <2>2
  <1>3. U = Nat
    <2> HIDE DEF U
    <2> QED
      BY <1>1, <1>2, SetInduction
  <1>4. Len(s) \in U
    <2> HIDE DEF U
    <2> QED
      BY <1>0, <1>3
  <1> HIDE DEF Same
  <1>5. \A k \in 1..Len(s) : Same(k)
    BY <1>0, <1>4
  <1> QED
    BY <1>5 DEF Same

\* There is one order of the same numbers.
LEMMA OneOrder ==
    ASSUME NEW s \in Seq(Int), NEW t \in Seq(Int),
           Rising(s), Rising(t), Within(s, t), Within(t, s)
    PROVE  s = t
  <1>1. \A k \in 1..Len(s) : k \in 1..Len(t) /\ s[k] = t[k]
    BY OrderBegins
  <1>2. \A k \in 1..Len(t) : k \in 1..Len(s)
    BY OrderBegins
  <1>3. Len(s) = Len(t)
    <2>1. Len(s) \in Nat /\ Len(t) \in Nat
      OBVIOUS
    <2>2. Len(s) # 0 => Len(s) <= Len(t)
      BY <1>1, <2>1
    <2>3. Len(t) # 0 => Len(t) <= Len(s)
      BY <1>2, <2>1
    <2> QED
      BY <2>1, <2>2, <2>3
  <1> QED
    BY <1>1, <1>3

-----------------------------------------------------------------------------
(* Items at some places.                                                   *)

\* They come in the order of the places.
LEMMA ItemsAtOrder ==
    ASSUME NEW T, NEW items \in Seq(T), NEW P \in SUBSET DOMAIN items
    PROVE  /\ ItemsAt(items, P) \in Seq(T)
           /\ Len(ItemsAt(items, P)) = Cardinality(P) /\ Cardinality(P) \in Nat
           /\ Ascending(P) \in [1..Cardinality(P) -> P]
           /\ \A k \in 1..Cardinality(P) : ItemsAt(items, P)[k] = items[Ascending(P)[k]]
           /\ \A j, k \in 1..Cardinality(P) : j < k => Ascending(P)[j] < Ascending(P)[k]
           /\ \A i \in P : \E k \in 1..Cardinality(P) : Ascending(P)[k] = i
  <1>1. P \in SUBSET Int /\ IsFiniteSet(P)
    <2>1. DOMAIN items = 1..Len(items) /\ Len(items) \in Nat
      OBVIOUS
    <2>2. IsFiniteSet(1..Len(items))
      BY <2>1, FS_Interval
    <2> QED
      BY <2>1, <2>2, FS_Subset
  <1> DEFINE N == Cardinality(P)
             at == Ascending(P)
  <1>2. /\ N \in Nat /\ at \in [1..N -> P]
        /\ \A j, k \in 1..N : j < k => at[j] < at[k]
        /\ \A i \in P : \E k \in 1..N : at[k] = i
    BY <1>1, AscendingOrder
  <1>3. ItemsAt(items, P) = [k \in 1..N |-> items[at[k]]]
    <2>1. ItemsAt(items, P) = [k \in DOMAIN at |-> items[at[k]]]
      BY DEF ItemsAt
    <2>2. DOMAIN at = 1..N
      BY <1>2
    <2> HIDE DEF at, N
    <2> QED
      BY <2>1, <2>2
  <1> HIDE DEF at, N
  <1>4. \A k \in 1..N : items[at[k]] \in T
    <2>1. \A k \in 1..N : at[k] \in DOMAIN items
      BY <1>2
    <2> QED
      BY <2>1
  <1>5. [k \in 1..N |-> items[at[k]]] \in Seq(T) /\ Len([k \in 1..N |-> items[at[k]]]) = N
    BY <1>2, <1>4, IsASeq, LenProperties
  <1> QED
    BY <1>2, <1>3, <1>5 DEF at, N

\* They are those items and no others.
LEMMA ItemsAtSet ==
    ASSUME NEW T, NEW items \in Seq(T), NEW P \in SUBSET DOMAIN items
    PROVE  /\ ItemsAt(items, P) \in Seq(T)
           /\ \A k \in DOMAIN ItemsAt(items, P) : \E i \in P : ItemsAt(items, P)[k] = items[i]
           /\ \A i \in P : \E k \in DOMAIN ItemsAt(items, P) : ItemsAt(items, P)[k] = items[i]
           /\ ToSet(ItemsAt(items, P)) = {items[i] : i \in P}
  <1> DEFINE N == Cardinality(P)
             at == Ascending(P)
             s == ItemsAt(items, P)
  <1>1. /\ s \in Seq(T) /\ Len(s) = N /\ N \in Nat /\ at \in [1..N -> P]
        /\ \A k \in 1..N : s[k] = items[at[k]]
        /\ \A i \in P : \E k \in 1..N : at[k] = i
    BY ItemsAtOrder
  <1> HIDE DEF N, at, s
  <1>2. DOMAIN s = 1..N
    BY <1>1
  <1>3. \A k \in DOMAIN s : \E i \in P : s[k] = items[i]
    BY <1>1, <1>2
  <1>4. \A i \in P : \E k \in DOMAIN s : s[k] = items[i]
    BY <1>1, <1>2
  <1>5. ToSet(s) = {items[i] : i \in P}
    BY <1>3, <1>4 DEF ToSet
  <1> QED
    BY <1>1, <1>3, <1>4, <1>5 DEF s

\* All items, or none, of a list of one.
LEMMA ItemsAtOne ==
    ASSUME NEW x
    PROVE  /\ ItemsAt(<<x>>, {}) = <<>>
           /\ ItemsAt(<<x>>, {1}) = <<x>>
  <1>1. <<x>> \in Seq({x}) /\ DOMAIN <<x>> = {1}
    OBVIOUS
  <1>2. ItemsAt(<<x>>, {}) = <<>>
    <2>1. ItemsAt(<<x>>, {}) \in Seq({x}) /\ Len(ItemsAt(<<x>>, {})) = 0
      BY <1>1, ItemsAtOrder, FS_EmptySet
    <2> QED
      BY <2>1
  <1>3. ItemsAt(<<x>>, {1}) = <<x>>
    <2>1. Cardinality({1}) = 1
      BY FS_Singleton
    <2> DEFINE items == <<x>>
               P == {1}
    <2>2. items \in Seq({x}) /\ P \in SUBSET DOMAIN items /\ Cardinality(P) = 1
      BY <1>1, <2>1
    <2> HIDE DEF items, P
    <2>3. ItemsAt(items, P) \in Seq({x}) /\ Len(ItemsAt(items, P)) = 1
      <3>1. /\ ItemsAt(items, P) \in Seq({x})
            /\ Len(ItemsAt(items, P)) = Cardinality(P)
        BY <2>2, ItemsAtOrder, ZenonT(60)
      <3> QED
        BY <2>2, <3>1
    <2>4. ItemsAt(<<x>>, {1}) \in Seq({x}) /\ Len(ItemsAt(<<x>>, {1})) = 1
      BY <2>3 DEF items, P
    <2> QED
      BY <2>4
  <1> QED
    BY <1>2, <1>3

-----------------------------------------------------------------------------
(* Lists of rows.                                                          *)

DistinctIds(list) == \A i, j \in DOMAIN list : i # j => list[i].id # list[j].id

\* A sequence has its items at the places from 1 on.
LEMMA SeqFacts ==
    ASSUME NEW T, NEW list \in Seq(T)
    PROVE  /\ Len(list) \in Nat /\ DOMAIN list = 1..Len(list)
           /\ \A i \in 1..Len(list) : list[i] \in T
           /\ ToSet(list) \subseteq T
           /\ \A r : r \in ToSet(list) <=> \E i \in 1..Len(list) : list[i] = r
  <1>1. /\ Len(list) \in Nat /\ DOMAIN list = 1..Len(list)
        /\ \A i \in 1..Len(list) : list[i] \in T
    OBVIOUS
  <1>2. ToSet(list) = {list[i] : i \in 1..Len(list)}
    BY <1>1 DEF ToSet
  <1> QED
    BY <1>1, <1>2

\* A finite set as a sequence, each member once.
LEMMA SetToSeqOf ==
    ASSUME NEW S, IsFiniteSet(S)
    PROVE  /\ Cardinality(S) \in Nat
           /\ SetToSeq(S) \in [1..Cardinality(S) -> S]
           /\ \A i, j \in 1..Cardinality(S) : i # j => SetToSeq(S)[i] # SetToSeq(S)[j]
           /\ \A x \in S : \E i \in 1..Cardinality(S) : SetToSeq(S)[i] = x
  <1> DEFINE N == Cardinality(S)
             q == SetToSeq(S)
  <1>1. N \in Nat /\ ExistsBijection(1..N, S)
    BY FS_CardinalityType
  <1>2. \E f \in [1..N -> S] : IsInjective(f)
    BY <1>1 DEF ExistsBijection, Bijection, Injection
  <1>3. q \in [1..N -> S] /\ IsInjective(q)
    BY <1>2 DEF SetToSeq
  <1> HIDE DEF q, N
  <1>4. \A i, j \in 1..N : i # j => q[i] # q[j]
    BY <1>3 DEF IsInjective
  <1>5. q \in Surjection(1..N, S)
    <2>1. IsFiniteSet(1..N) /\ Cardinality(1..N) = N
      BY <1>1, FS_Interval
    <2>2. q \in Injection(1..N, S)
      BY <1>3 DEF Injection
    <2> QED
      BY <2>1, <2>2, FS_Injection DEF N
  <1> QED
    BY <1>1, <1>3, <1>4, <1>5 DEF Surjection, q, N

\* A reset list has the rows of the answer, each as often.
LEMMA ListResetOf ==
    ASSUME NEW T, NEW items \in Seq(T)
    PROVE  /\ ListReset(items) \in Seq(T)
           /\ Len(ListReset(items)) = Len(items)
           /\ \A i \in 1..Len(items) : ListReset(items)[i] = items[Len(items) - i + 1]
           /\ ToSet(ListReset(items)) = ToSet(items)
           /\ DistinctIds(items) => DistinctIds(ListReset(items))
  <1> DEFINE N == Len(items)
             r == [i \in 1..N |-> items[N - i + 1]]
  <1>1. N \in Nat /\ DOMAIN items = 1..N /\ \A i \in 1..N : items[i] \in T
    OBVIOUS
  <1>2. \A i \in 1..N : N - i + 1 \in 1..N /\ N - (N - i + 1) + 1 = i
    BY <1>1
  <1>3. r \in Seq(T) /\ Len(r) = N /\ DOMAIN r = 1..N
    BY <1>1, <1>2
  <1>4. ListReset(items) = r
    BY DEF ListReset, Reverse
  <1>5. \A i \in 1..N : r[i] = items[N - i + 1]
    OBVIOUS
  <1> HIDE DEF r, N
  <1>6. ToSet(r) = ToSet(items)
    <2>1. \A x \in ToSet(items) : x \in ToSet(r)
      <3> TAKE x \in ToSet(items)
      <3>1. PICK i \in 1..N : items[i] = x
        BY <1>1 DEF ToSet
      <3>2. r[N - i + 1] = x /\ N - i + 1 \in 1..N
        BY <1>2, <1>5, <3>1
      <3> QED
        BY <1>3, <3>2 DEF ToSet
    <2>2. \A x \in ToSet(r) : x \in ToSet(items)
      BY <1>1, <1>2, <1>3, <1>5 DEF ToSet
    <2> QED
      BY <2>1, <2>2
  <1>7. ASSUME DistinctIds(items) PROVE DistinctIds(r)
    <2> SUFFICES ASSUME NEW i \in 1..N, NEW j \in 1..N, i # j PROVE r[i].id # r[j].id
      BY <1>3 DEF DistinctIds
    <2>1. N - i + 1 \in 1..N /\ N - j + 1 \in 1..N /\ N - i + 1 # N - j + 1
      BY <1>1, <1>2
    <2>2. items[N - i + 1].id # items[N - j + 1].id
      BY <1>1, <1>7, <2>1 DEF DistinctIds
    <2> QED
      BY <1>5, <2>2
  <1> QED
    BY <1>3, <1>4, <1>5, <1>6, <1>7 DEF N

\* A new row comes last.
LEMMA ListInsertOf ==
    ASSUME NEW T, NEW list \in Seq(T), NEW items \in Seq(T)
    PROVE  /\ ListInsert(list, items) \in Seq(T)
           /\ ToSet(ListInsert(list, items)) = ToSet(list) \cup ToSet(items)
           /\ /\ DistinctIds(list) /\ DistinctIds(items)
              /\ \A r \in ToSet(list), x \in ToSet(items) : r.id # x.id
              => DistinctIds(ListInsert(list, items))
  <1> DEFINE N == Len(list)
             M == Len(items)
             s == list \o items
  <1>1. /\ N \in Nat /\ M \in Nat /\ s \in Seq(T) /\ Len(s) = N + M
        /\ DOMAIN list = 1..N /\ DOMAIN items = 1..M /\ DOMAIN s = 1..N + M
    OBVIOUS
  <1>2. /\ \A i \in 1..N : s[i] = list[i]
        /\ \A i \in 1..M : s[N + i] = items[i]
        /\ \A i \in 1..N + M : i \notin 1..N => i - N \in 1..M /\ s[i] = items[i - N]
    <2>1. \A i \in 1..N + M : s[i] = IF i <= N THEN list[i] ELSE items[i - N]
      OBVIOUS
    <2> HIDE DEF s, N, M
    <2>2. \A i \in 1..N : i \in 1..N + M /\ i <= N
      BY <1>1
    <2>3. \A i \in 1..M : N + i \in 1..N + M /\ ~ (N + i <= N) /\ (N + i) - N = i
      BY <1>1
    <2>4. \A i \in 1..N + M : i \notin 1..N => ~ (i <= N) /\ i - N \in 1..M
      BY <1>1
    <2> QED
      BY <2>1, <2>2, <2>3, <2>4
  <1>3. ListInsert(list, items) = s
    BY DEF ListInsert
  <1> HIDE DEF s, N, M
  <1>4. ToSet(s) = ToSet(list) \cup ToSet(items)
    <2>1. \A x \in ToSet(s) : x \in ToSet(list) \cup ToSet(items)
      BY <1>1, <1>2 DEF ToSet
    <2>2. \A x \in ToSet(list) : x \in ToSet(s)
      <3> TAKE x \in ToSet(list)
      <3>1. PICK i \in 1..N : list[i] = x
        BY <1>1 DEF ToSet
      <3>2. i \in 1..N + M /\ s[i] = x
        BY <1>1, <1>2, <3>1
      <3> QED
        BY <1>1, <3>2 DEF ToSet
    <2>3. \A x \in ToSet(items) : x \in ToSet(s)
      <3> TAKE x \in ToSet(items)
      <3>1. PICK i \in 1..M : items[i] = x
        BY <1>1 DEF ToSet
      <3>2. N + i \in 1..N + M /\ s[N + i] = x
        BY <1>1, <1>2, <3>1
      <3> QED
        BY <1>1, <3>2 DEF ToSet
    <2> QED
      BY <2>1, <2>2, <2>3
  <1>5. ASSUME DistinctIds(list), DistinctIds(items),
               \A r \in ToSet(list), x \in ToSet(items) : r.id # x.id
        PROVE  DistinctIds(s)
    <2> SUFFICES ASSUME NEW i \in 1..N + M, NEW j \in 1..N + M, i # j PROVE s[i].id # s[j].id
      BY <1>1 DEF DistinctIds
    <2>1. CASE i \in 1..N /\ j \in 1..N
      BY <1>1, <1>2, <1>5, <2>1 DEF DistinctIds
    <2>2. CASE i \notin 1..N /\ j \notin 1..N
      <3>1. i - N \in 1..M /\ j - N \in 1..M /\ i - N # j - N
        BY <1>1, <1>2, <2>2
      <3>2. items[i - N].id # items[j - N].id
        BY <1>1, <1>5, <3>1 DEF DistinctIds
      <3> QED
        BY <1>2, <2>2, <3>2
    <2>3. CASE i \in 1..N /\ j \notin 1..N
      <3>1. s[i] \in ToSet(list) /\ s[j] \in ToSet(items)
        BY <1>1, <1>2, <2>3 DEF ToSet
      <3> QED
        BY <1>5, <3>1
    <2>4. CASE i \notin 1..N /\ j \in 1..N
      <3>1. s[j] \in ToSet(list) /\ s[i] \in ToSet(items)
        BY <1>1, <1>2, <2>4 DEF ToSet
      <3> QED
        BY <1>5, <3>1
    <2> QED
      BY <2>1, <2>2, <2>3, <2>4
  <1> QED
    BY <1>1, <1>3, <1>4, <1>5

\* A set of numbers that is not empty has a smallest one.
LEMMA MinOf ==
    ASSUME NEW S \in SUBSET Nat, S # {}
    PROVE  Min(S) \in S /\ \A y \in S : Min(S) <= y
  <1> DEFINE R == OpToRel(<, Nat)
  <1>1. IsWellFoundedOn(R, Nat)
    BY NatLessThanWellFounded
  <1>2. PICK x \in S : \A y \in S : ~ (<<y, x>> \in R)
    <2> HIDE DEF R
    <2> QED
      BY <1>1, WFMin
  <1>3. \A y \in S : x <= y
    <2> TAKE y \in S
    <2>1. x \in Nat /\ y \in Nat /\ ~ (y < x)
      BY <1>2 DEF OpToRel
    <2> QED
      BY <2>1
  <1> QED
    BY <1>3 DEF Min

\* The rows with an id are places of the list; where there are any, the first
\* is meant.
LEMMA RowsOfPlaces ==
    ASSUME NEW T, NEW list \in Seq(T), NEW id
    PROVE  /\ RowsOf(list, id) \in SUBSET Nat
           /\ RowsOf(list, id) = {} <=> \A r \in ToSet(list) : r.id # id
           /\ RowsOf(list, id) # {} =>
                  /\ Min(RowsOf(list, id)) \in 1..Len(list)
                  /\ list[Min(RowsOf(list, id))].id = id
  <1>1. /\ Len(list) \in Nat /\ DOMAIN list = 1..Len(list)
        /\ \A r : r \in ToSet(list) <=> \E i \in 1..Len(list) : list[i] = r
    BY SeqFacts
  <1>2. RowsOf(list, id) = {i \in 1..Len(list) : list[i].id = id}
    BY <1>1 DEF RowsOf
  <1>3. RowsOf(list, id) \in SUBSET Nat
    BY <1>1, <1>2
  <1>4. RowsOf(list, id) = {} <=> \A r \in ToSet(list) : r.id # id
    BY <1>1, <1>2
  <1>5. RowsOf(list, id) # {} => Min(RowsOf(list, id)) \in RowsOf(list, id)
    BY <1>3, MinOf
  <1> QED
    BY <1>2, <1>3, <1>4, <1>5

\* A row is taken out: those behind it move up.
LEMMA RemoveRowPlaces ==
    ASSUME NEW T, NEW list \in Seq(T), NEW item, RowsOf(list, item.id) # {}
    PROVE  LET m == Min(RowsOf(list, item.id))
               s == RemoveRow(list, item)
           IN  /\ s \in Seq(T) /\ Len(s) = Len(list) - 1
               /\ m \in 1..Len(list) /\ list[m].id = item.id
               /\ \A k \in 1..Len(s) : s[k] = list[IF k < m THEN k ELSE k + 1]
  <1> DEFINE m == Min(RowsOf(list, item.id))
             s == RemoveRow(list, item)
             N == Len(list)
  <1>1. m \in 1..N /\ list[m].id = item.id
    BY RowsOfPlaces
  <1>2. s = SubSeq(list, 1, m - 1) \o SubSeq(list, m + 1, N)
    BY DEF RemoveRow, RemoveAt
  <1> HIDE DEF m, s
  <1> DEFINE a == SubSeq(list, 1, m - 1)
             b == SubSeq(list, m + 1, N)
  <1>3. N \in Nat /\ m \in Nat
    BY <1>1
  <1>4. a \in Seq(T) /\ Len(a) = m - 1 /\ \A i \in 1..m - 1 : a[i] = list[i]
    BY <1>1, <1>3
  <1>5. b \in Seq(T) /\ Len(b) = N - m /\ \A i \in 1..N - m : b[i] = list[m + i]
    BY <1>1, <1>3
  <1> HIDE DEF a, b, N
  <1>6. s \in Seq(T) /\ Len(s) = N - 1
    <2>1. s = a \o b
      BY <1>2 DEF a, b, N
    <2>2. s \in Seq(T) /\ Len(s) = Len(a) + Len(b)
      BY <2>1, <1>4, <1>5, ConcatProperties
    <2> QED
      BY <2>2, <1>1, <1>3, <1>4, <1>5
  <1>7. \A k \in 1..Len(s) : s[k] = list[IF k < m THEN k ELSE k + 1]
    <2> TAKE k \in 1..Len(s)
    <2>1. s = a \o b
      BY <1>2 DEF a, b, N
    <2>2. CASE k < m
      <3>1. k \in 1..m - 1
        BY <1>3, <1>6, <2>2
      <3>2. s[k] = a[k]
        BY <2>1, <3>1, <1>3, <1>4, <1>5
      <3> QED
        BY <2>2, <3>1, <3>2, <1>4
    <2>3. CASE ~ (k < m)
      <3>1. k - (m - 1) \in 1..N - m /\ k > m - 1 /\ k \in 1..(m - 1) + (N - m)
        BY <1>1, <1>3, <1>6, <2>3
      <3>2. s[k] = b[k - (m - 1)]
        BY <2>1, <3>1, <1>3, <1>4, <1>5
      <3>3. m + (k - (m - 1)) = k + 1
        BY <1>3
      <3> QED
        BY <2>3, <3>1, <3>2, <3>3, <1>5
    <2> QED
      BY <2>2, <2>3
  <1> QED
    BY <1>1, <1>6, <1>7 DEF m, s, N

\* The row is gone from the list and the others are left.
RowGone(before, item, list) ==
    /\ DistinctIds(list)
    /\ ToSet(list) = {r \in ToSet(before) : r.id # item.id}

\* Where no two rows have an id in common, the row and no other is taken.
LEMMA RemoveRowOf ==
    ASSUME NEW T, NEW list \in Seq(T), NEW item
    PROVE  /\ RemoveRow(list, item) \in Seq(T)
           /\ DistinctIds(list) => RowGone(list, item, RemoveRow(list, item))
  <1>1. CASE RowsOf(list, item.id) = {}
    <2>1. RemoveRow(list, item) = list
      BY <1>1 DEF RemoveRow
    <2>2. \A r \in ToSet(list) : r.id # item.id
      BY <1>1, RowsOfPlaces
    <2>3. ToSet(list) = {r \in ToSet(list) : r.id # item.id}
      BY <2>2
    <2> QED
      BY <2>1, <2>3 DEF RowGone
  <1>2. CASE RowsOf(list, item.id) # {}
    <2> DEFINE m == Min(RowsOf(list, item.id))
               s == RemoveRow(list, item)
               N == Len(list)
               at(k) == IF k < m THEN k ELSE k + 1
    <2>0. /\ s \in Seq(T) /\ Len(s) = N - 1 /\ m \in 1..N /\ list[m].id = item.id
          /\ \A k \in 1..Len(s) : s[k] = list[IF k < m THEN k ELSE k + 1]
      BY <1>2, RemoveRowPlaces, ZenonT(60)
    <2>1. /\ s \in Seq(T) /\ Len(s) = N - 1 /\ m \in 1..N /\ list[m].id = item.id
          /\ \A k \in 1..N - 1 : s[k] = list[at(k)]
      <3> HIDE DEF m, s, N
      <3> QED
        BY <2>0
    <2> HIDE DEF m, s, N
    <2>2. /\ N \in Nat /\ DOMAIN list = 1..N /\ DOMAIN s = 1..N - 1
          /\ \A r : r \in ToSet(list) <=> \E i \in 1..N : list[i] = r
          /\ \A r : r \in ToSet(s) <=> \E i \in 1..N - 1 : s[i] = r
      BY <2>1, SeqFacts DEF N
    <2>3. /\ \A k \in 1..N - 1 : at(k) \in 1..N /\ at(k) # m
          /\ \A j, k \in 1..N - 1 : j # k => at(j) # at(k)
          /\ \A i \in 1..N : i # m => \E k \in 1..N - 1 : at(k) = i
      <3>1. \A k \in 1..N - 1 : at(k) \in 1..N /\ at(k) # m
        BY <2>1, <2>2
      <3>2. \A j, k \in 1..N - 1 : j # k => at(j) # at(k)
        BY <2>1, <2>2
      <3>3. ASSUME NEW i \in 1..N, i # m PROVE \E k \in 1..N - 1 : at(k) = i
        <4>1. CASE i < m
          <5>1. i \in 1..N - 1 /\ at(i) = i
            BY <2>1, <2>2, <4>1
          <5> QED
            BY <5>1
        <4>2. CASE i > m
          <5>1. i - 1 \in 1..N - 1 /\ at(i - 1) = i
            BY <2>1, <2>2, <4>2
          <5> QED
            BY <5>1
        <4> QED
          BY <3>3, <4>1, <4>2, <2>1
      <3> QED
        BY <3>1, <3>2, <3>3
    <2> HIDE DEF at
    <2>4. ASSUME DistinctIds(list)
          PROVE  DistinctIds(s) /\ ToSet(s) = {r \in ToSet(list) : r.id # item.id}
      <3>1. DistinctIds(s)
        <4> SUFFICES ASSUME NEW i \in 1..N - 1, NEW j \in 1..N - 1, i # j
                     PROVE  s[i].id # s[j].id
          BY <2>2 DEF DistinctIds
        <4>1. /\ s[i] = list[at(i)] /\ s[j] = list[at(j)] /\ at(i) # at(j)
              /\ at(i) \in 1..N /\ at(j) \in 1..N
          BY <2>1, <2>3
        <4>2. list[at(i)].id # list[at(j)].id
          BY <2>2, <2>4, <4>1 DEF DistinctIds
        <4> QED
          BY <4>1, <4>2
      <3>2. \A r \in ToSet(s) : r \in ToSet(list) /\ r.id # item.id
        <4> TAKE r \in ToSet(s)
        <4>1. PICK k \in 1..N - 1 : s[k] = r
          BY <2>2
        <4>2. r = list[at(k)] /\ at(k) \in 1..N /\ at(k) # m
          BY <2>1, <2>3, <4>1
        <4> QED
          BY <2>1, <2>2, <2>4, <4>2 DEF DistinctIds
      <3>3. \A r \in ToSet(list) : r.id # item.id => r \in ToSet(s)
        <4> SUFFICES ASSUME NEW r \in ToSet(list), r.id # item.id PROVE r \in ToSet(s)
          OBVIOUS
        <4>1. PICK i \in 1..N : list[i] = r
          BY <2>2
        <4>2. PICK k \in 1..N - 1 : at(k) = i
          BY <2>1, <2>3, <4>1
        <4> QED
          BY <2>1, <2>2, <4>1, <4>2
      <3> QED
        BY <3>1, <3>2, <3>3
    <2>5. DistinctIds(list) => RowGone(list, item, s)
      BY <2>4 DEF RowGone
    <2> QED
      BY <2>1, <2>5 DEF s
  <1> QED
    BY <1>1, <1>2

\* An item is put in: those from its place on move down.
LEMMA InsertAtPlaces ==
    ASSUME NEW T, NEW list \in Seq(T), NEW x \in T, NEW m \in 1..Len(list) + 1
    PROVE  /\ InsertAt(list, m, x) \in Seq(T)
           /\ Len(InsertAt(list, m, x)) = Len(list) + 1
           /\ \A k \in 1..Len(list) : k < m => InsertAt(list, m, x)[k] = list[k]
           /\ InsertAt(list, m, x)[m] = x
           /\ \A k \in 1..Len(list) : ~ (k < m) => InsertAt(list, m, x)[k + 1] = list[k]
  <1> DEFINE N == Len(list)
             a == SubSeq(list, 1, m - 1)
             b == SubSeq(list, m, N)
             c == a \o <<x>>
             s == InsertAt(list, m, x)
  <1>1. N \in Nat /\ m \in Nat /\ m >= 1 /\ m <= N + 1
    OBVIOUS
  <1>2. a \in Seq(T) /\ Len(a) = m - 1 /\ \A i \in 1..m - 1 : a[i] = list[i]
    BY <1>1
  <1>3. b \in Seq(T) /\ Len(b) = N + 1 - m /\ \A i \in 1..N + 1 - m : b[i] = list[m - 1 + i]
    <2>1. \A i \in m..N : list[i] \in T
      BY <1>1
    <2>2. /\ b \in Seq(T) /\ Len(b) = IF m <= N THEN N - m + 1 ELSE 0
          /\ \A i \in 1..N - m + 1 : b[i] = list[m + i - 1]
      BY <1>1, <2>1, SubSeqProperties
    <2>3. (IF m <= N THEN N - m + 1 ELSE 0) = N + 1 - m
      BY <1>1
    <2>4. \A i \in 1..N + 1 - m : i \in 1..N - m + 1 /\ m + i - 1 = m - 1 + i
      BY <1>1
    <2> HIDE DEF b, N
    <2> QED
      BY <2>2, <2>3, <2>4
  <1> HIDE DEF a, b, N
  <1>4. c \in Seq(T) /\ Len(c) = m /\ c[m] = x /\ \A i \in 1..m - 1 : c[i] = list[i]
    <2>1. <<x>> \in Seq(T) /\ Len(<<x>>) = 1
      OBVIOUS
    <2>2. c \in Seq(T) /\ Len(c) = m
      BY <1>1, <1>2, <2>1, ConcatProperties
    <2>3. \A i \in 1..m - 1 : c[i] = a[i]
      BY <1>1, <1>2, <2>1, ConcatProperties
    <2>4. c[m] = x
      BY <1>1, <1>2, <2>1, ConcatProperties
    <2> QED
      BY <1>2, <2>2, <2>3, <2>4
  <1> HIDE DEF c
  <1>5. s = c \o b
    BY DEF InsertAt, a, b, c, N
  <1> HIDE DEF s
  <1>6. s \in Seq(T) /\ Len(s) = N + 1
    <2>1. s \in Seq(T) /\ Len(s) = Len(c) + Len(b)
      BY <1>3, <1>4, <1>5, ConcatProperties
    <2> QED
      BY <2>1, <1>1, <1>3, <1>4
  <1>7. \A i \in 1..N + 1 : s[i] = IF i <= m THEN c[i] ELSE b[i - m]
    <2>1. Len(c) + Len(b) = N + 1
      BY <1>1, <1>3, <1>4
    <2>2. \A i \in 1..Len(c) + Len(b) : s[i] = IF i <= Len(c) THEN c[i] ELSE b[i - Len(c)]
      BY <1>3, <1>4, <1>5, ConcatProperties
    <2> QED
      BY <1>4, <2>1, <2>2
  <1>8. \A k \in 1..N : k < m => s[k] = list[k]
    <2> SUFFICES ASSUME NEW k \in 1..N, k < m PROVE s[k] = list[k]
      OBVIOUS
    <2>1. k \in 1..N + 1 /\ k <= m /\ k \in 1..m - 1
      BY <1>1
    <2> QED
      BY <2>1, <1>4, <1>7
  <1>9. s[m] = x
    BY <1>1, <1>4, <1>7
  <1>10. \A k \in 1..N : ~ (k < m) => s[k + 1] = list[k]
    <2> SUFFICES ASSUME NEW k \in 1..N, ~ (k < m) PROVE s[k + 1] = list[k]
      OBVIOUS
    <2>1. k + 1 \in 1..N + 1 /\ ~ (k + 1 <= m) /\ k + 1 - m \in 1..N + 1 - m
          /\ m - 1 + (k + 1 - m) = k
      BY <1>1
    <2>2. s[k + 1] = b[k + 1 - m]
      BY <2>1, <1>7
    <2> QED
      BY <2>1, <2>2, <1>3
  <1> QED
    BY <1>6, <1>8, <1>9, <1>10 DEF s, N

\* Wherever it is put, the item joins the others.
LEMMA InsertAtSet ==
    ASSUME NEW T, NEW list \in Seq(T), NEW x \in T, NEW m \in 1..Len(list) + 1
    PROVE  /\ ToSet(InsertAt(list, m, x)) = ToSet(list) \cup {x}
           /\ DistinctIds(list) /\ (\A r \in ToSet(list) : r.id # x.id)
                  => DistinctIds(InsertAt(list, m, x))
  <1> DEFINE N == Len(list)
             s == InsertAt(list, m, x)
             to(k) == IF k < m THEN k ELSE k + 1
  <1>1. /\ s \in Seq(T) /\ Len(s) = N + 1 /\ N \in Nat /\ m \in 1..N + 1 /\ s[m] = x
        /\ \A k \in 1..N : s[to(k)] = list[k]
    BY InsertAtPlaces
  <1>2. /\ DOMAIN list = 1..N /\ DOMAIN s = 1..N + 1
        /\ \A r : r \in ToSet(list) <=> \E i \in 1..N : list[i] = r
        /\ \A r : r \in ToSet(s) <=> \E i \in 1..N + 1 : s[i] = r
    BY <1>1, SeqFacts
  <1> HIDE DEF s, N
  <1>3. /\ \A k \in 1..N : to(k) \in 1..N + 1 /\ to(k) # m
        /\ \A i \in 1..N + 1 : i # m => \E k \in 1..N : to(k) = i
    <2>1. \A k \in 1..N : to(k) \in 1..N + 1 /\ to(k) # m
      BY <1>1
    <2>2. ASSUME NEW i \in 1..N + 1, i # m PROVE \E k \in 1..N : to(k) = i
      <3>1. CASE i < m
        <4>1. i \in 1..N /\ to(i) = i
          BY <1>1, <3>1
        <4> QED
          BY <4>1
      <3>2. CASE i > m
        <4>1. i - 1 \in 1..N /\ to(i - 1) = i
          BY <1>1, <3>2
        <4> QED
          BY <4>1
      <3> QED
        BY <1>1, <2>2, <3>1, <3>2
    <2> QED
      BY <2>1, <2>2
  <1> HIDE DEF to
  <1>4. \A r \in ToSet(s) : r \in ToSet(list) \cup {x}
    <2> TAKE r \in ToSet(s)
    <2>1. PICK i \in 1..N + 1 : s[i] = r
      BY <1>2
    <2>2. CASE i = m
      BY <1>1, <2>1, <2>2
    <2>3. CASE i # m
      BY <1>1, <1>2, <1>3, <2>1, <2>3
    <2> QED
      BY <2>2, <2>3
  <1>5. \A r \in ToSet(list) \cup {x} : r \in ToSet(s)
    BY <1>1, <1>2, <1>3
  <1>6. ASSUME DistinctIds(list), \A r \in ToSet(list) : r.id # x.id
        PROVE  DistinctIds(s)
    <2> SUFFICES ASSUME NEW i \in 1..N + 1, NEW j \in 1..N + 1, i # j PROVE s[i].id # s[j].id
      BY <1>2 DEF DistinctIds
    <2>1. CASE i # m /\ j # m
      <3>1. PICK k \in 1..N : to(k) = i
        BY <1>3, <2>1
      <3>2. PICK l \in 1..N : to(l) = j
        BY <1>3, <2>1
      <3>3. s[i] = list[k] /\ s[j] = list[l] /\ k # l
        BY <1>1, <3>1, <3>2
      <3>4. list[k].id # list[l].id
        BY <1>2, <1>6, <3>3 DEF DistinctIds
      <3> QED
        BY <3>3, <3>4
    <2>2. CASE i = m \/ j = m
      <3>1. \A k \in 1..N : list[k].id # x.id
        BY <1>2, <1>6
      <3>2. \A k \in 1..N + 1 : k # m => s[k].id # x.id
        <4> TAKE k \in 1..N + 1
        <4> SUFFICES ASSUME k # m PROVE s[k].id # x.id
          OBVIOUS
        <4>1. PICK l \in 1..N : to(l) = k
          BY <1>3
        <4> QED
          BY <1>1, <3>1, <4>1
      <3> QED
        BY <1>1, <2>2, <3>2
    <2> QED
      BY <2>1, <2>2
  <1> QED
    BY <1>4, <1>5, <1>6 DEF s

\* An updated row has its new contents, whether or not it was there.
LEMMA UpdateRowOf ==
    ASSUME NEW T, NEW list \in Seq(T), NEW item \in T
    PROVE  /\ UpdateRow(list, item) \in Seq(T)
           /\ DistinctIds(list) =>
                  /\ DistinctIds(UpdateRow(list, item))
                  /\ ToSet(UpdateRow(list, item))
                         = {r \in ToSet(list) : r.id # item.id} \cup {item}
  <1> DEFINE N == Len(list)
  <1>0. /\ N \in Nat /\ DOMAIN list = 1..N
        /\ \A i \in 1..N : list[i] \in T
        /\ \A r : r \in ToSet(list) <=> \E i \in 1..N : list[i] = r
    BY SeqFacts
  <1>1. CASE RowsOf(list, item.id) = {}
    <2>1. \A r \in ToSet(list) : r.id # item.id
      BY <1>1, RowsOfPlaces
    <2>2. CASE list = <<>>
      <3>1. UpdateRow(list, item) = <<item>>
        BY <1>1, <2>2 DEF UpdateRow
      <3>2. ToSet(<<item>>) = {item} /\ <<item>> \in Seq(T) /\ DistinctIds(<<item>>)
        BY DEF ToSet, DistinctIds
      <3>3. ToSet(list) = {}
        BY <1>0, <2>2
      <3> QED
        BY <3>1, <3>2, <3>3
    <2>3. CASE list # <<>>
      <3>1. UpdateRow(list, item) = InsertAt(list, N, item)
        BY <1>1, <2>3 DEF UpdateRow
      <3>2. N \in 1..N + 1
        BY <1>0, <2>3
      <3> QED
        BY <2>1, <3>1, <3>2, InsertAtPlaces, InsertAtSet
    <2> QED
      BY <2>2, <2>3
  <1>2. CASE RowsOf(list, item.id) # {}
    <2> DEFINE m == Min(RowsOf(list, item.id))
               s == [list EXCEPT ![m] = item]
    <2>1. m \in 1..N /\ list[m].id = item.id
      BY <1>2, RowsOfPlaces
    <2>2. UpdateRow(list, item) = s
      BY <1>2 DEF UpdateRow, ReplaceAt
    <2> HIDE DEF m
    <2>3. /\ s \in Seq(T) /\ DOMAIN s = 1..N /\ s[m] = item /\ Len(s) = N
          /\ \A i \in 1..N : i # m => s[i] = list[i]
      BY <1>0, <2>1
    <2>4. \A r : r \in ToSet(s) <=> \E i \in 1..N : s[i] = r
      BY <2>3 DEF ToSet
    <2> HIDE DEF s, N
    <2>5. ASSUME DistinctIds(list)
          PROVE  /\ DistinctIds(s)
                 /\ ToSet(s) = {r \in ToSet(list) : r.id # item.id} \cup {item}
      <3>1. \A i \in 1..N : i # m => list[i].id # item.id
        BY <1>0, <2>1, <2>5 DEF DistinctIds
      <3>2. DistinctIds(s)
        BY <1>0, <2>1, <2>3, <2>5, <3>1 DEF DistinctIds
      <3>3. \A r \in ToSet(s) : r = item \/ (r \in ToSet(list) /\ r.id # item.id)
        BY <1>0, <2>3, <2>4, <3>1
      <3>4. \A r \in ToSet(list) : r.id # item.id => r \in ToSet(s)
        BY <1>0, <2>1, <2>3, <2>4
      <3>5. item \in ToSet(s)
        BY <2>1, <2>3, <2>4
      <3> QED
        BY <3>2, <3>3, <3>4, <3>5
    <2> QED
      BY <2>2, <2>3, <2>5
  <1> QED
    BY <1>1, <1>2

-----------------------------------------------------------------------------
(* One item after the other.                                               *)

\* Taking rows out, one after the other, ends after as many steps as there
\* are items.
LEMMA ListRemoveSteps ==
    ASSUME NEW T, NEW list \in Seq(T), NEW items \in Seq(T)
    PROVE  \E f \in [0..Len(items) -> Seq(T)] :
               /\ f[0] = list
               /\ \A n \in 1..Len(items) : f[n] = RemoveRow(f[n - 1], items[n])
               /\ ListRemove(list, items) = f[Len(items)]
  <1> DEFINE N == Len(items)
             step == [a \in Seq(T) \X (1..N) |-> RemoveRow(a[1], items[a[2]])]
             Is(f) == f = [n \in 0..N |-> IF n = 0 THEN list
                                          ELSE RemoveRow(f[n - 1], items[n])]
  <1>1. N \in Nat
    OBVIOUS
  <1>2. step \in [Seq(T) \X (1..N) -> Seq(T)]
    BY RemoveRowOf
  <1>3. PICK f \in [0..N -> Seq(T)] : f[0] = list /\ \A n \in 1..N : f[n] = step[<<f[n - 1], n>>]
    <2> DEFINE S == Seq(T)
    <2>1. list \in S /\ step \in [S \X (1..N) -> S]
      BY <1>2
    <2> HIDE DEF step, N, S
    <2>2. \E f \in [0..N -> S] : Follows(f, list, N, step)
      BY <1>1, <2>1, StepsExist
    <2> QED
      BY <2>2 DEF S, Follows
  <1>4. \A n \in 1..N : f[n - 1] \in Seq(T) /\ f[n] = RemoveRow(f[n - 1], items[n])
    <2> TAKE n \in 1..N
    <2>1. n - 1 \in 0..N
      BY <1>1
    <2>2. f[n - 1] \in Seq(T)
      BY <1>3, <2>1
    <2>3. step[<<f[n - 1], n>>] = RemoveRow(f[n - 1], items[n])
      BY <2>2
    <2> QED
      BY <1>3, <2>2, <2>3
  <1> HIDE DEF step
  <1>5. Is(f)
    BY <1>1, <1>3, <1>4
  <1> DEFINE g == CHOOSE h : Is(h)
  <1>6. Is(g)
    <2> HIDE DEF Is
    <2> QED
      BY <1>5
  <1>7. ListRemove(list, items) = g[N]
    BY Zenon DEF ListRemove, InTurn
  <1> HIDE DEF g
  <1>8. g[0] = list /\ \A n \in 1..N : g[n] = RemoveRow(g[n - 1], items[n])
    BY <1>1, <1>6
  <1>9. \A n \in 0..N : g[n] \in Seq(T)
    <2> DEFINE U == {n \in 0..N : g[n] \in Seq(T)}
    <2>1. 0 \in U
      BY <1>1, <1>8
    <2>2. ASSUME NEW n \in 0..N - 1, n \in U PROVE n + 1 \in U
      <3>1. n + 1 \in 1..N /\ n + 1 - 1 = n /\ n + 1 \in 0..N
        BY <1>1
      <3>2. g[n + 1] = RemoveRow(g[n], items[n + 1]) /\ g[n] \in Seq(T)
        BY <1>8, <2>2, <3>1
      <3>3. \A u \in Seq(T) : \A x : RemoveRow(u, x) \in Seq(T)
        BY RemoveRowOf
      <3>4. g[n + 1] \in Seq(T)
        BY <3>2, <3>3
      <3> QED
        BY <3>1, <3>4
    <2>3. \A n \in 0..N : n \in U
      <3> HIDE DEF U
      <3> QED
        BY <1>1, <2>1, <2>2, BoundedInduction
    <2> QED
      BY <2>3
  <1>10. g \in [0..N -> Seq(T)]
    <2>1. g = [n \in 0..N |-> g[n]]
      BY <1>6
    <2> HIDE DEF Is
    <2> QED
      BY <1>9, <2>1
  <1> QED
    BY <1>7, <1>8, <1>10

\* Where no two rows have an id in common, those of the items are gone and
\* the others are left.
LEMMA ListRemoveOf ==
    ASSUME NEW T, NEW list \in Seq(T), NEW items \in Seq(T)
    PROVE  /\ ListRemove(list, items) \in Seq(T)
           /\ DistinctIds(list) =>
                  /\ DistinctIds(ListRemove(list, items))
                  /\ ToSet(ListRemove(list, items))
                         = {r \in ToSet(list) : \A x \in ToSet(items) : r.id # x.id}
  <1> DEFINE N == Len(items)
  <1>1. PICK f \in [0..N -> Seq(T)] :
            /\ f[0] = list
            /\ \A n \in 1..N : f[n] = RemoveRow(f[n - 1], items[n])
            /\ ListRemove(list, items) = f[N]
    BY ListRemoveSteps
  <1>2. N \in Nat
    OBVIOUS
  <1>3. ASSUME DistinctIds(list)
        PROVE  \A n \in 0..N : /\ DistinctIds(f[n])
                               /\ ToSet(f[n]) = {r \in ToSet(list) : \A k \in 1..n : r.id # items[k].id}
    <2> DEFINE Left(n) == {r \in ToSet(list) : \A k \in 1..n : r.id # items[k].id}
               U == {n \in 0..N : DistinctIds(f[n]) /\ ToSet(f[n]) = Left(n)}
    <2>1. 0 \in U
      <3>1. Left(0) = ToSet(list)
        OBVIOUS
      <3> HIDE DEF Left
      <3> QED
        BY <1>1, <1>2, <1>3, <3>1
    <2>2. ASSUME NEW n \in 0..N - 1, n \in U PROVE n + 1 \in U
      <3>1. n \in 0..N /\ n + 1 \in 1..N /\ n + 1 - 1 = n /\ n + 1 \in 0..N
        BY <1>2
      <3>2. f[n + 1] = RemoveRow(f[n], items[n + 1]) /\ f[n] \in Seq(T)
        BY <1>1, <3>1
      <3>3. DistinctIds(f[n]) /\ ToSet(f[n]) = Left(n)
        BY <2>2
      <3>4. /\ DistinctIds(f[n + 1])
            /\ ToSet(f[n + 1]) = {r \in ToSet(f[n]) : r.id # items[n + 1].id}
        <4>1. RowGone(f[n], items[n + 1], RemoveRow(f[n], items[n + 1]))
          BY <3>2, <3>3, RemoveRowOf
        <4> QED
          BY <3>2, <4>1 DEF RowGone
      <3>5. {r \in Left(n) : r.id # items[n + 1].id} = Left(n + 1)
        <4>1. \A r : (\A k \in 1..n + 1 : r.id # items[k].id)
                       <=> (\A k \in 1..n : r.id # items[k].id) /\ r.id # items[n + 1].id
          <5>1. \A k \in 1..n + 1 : k \in 1..n \/ k = n + 1
            OBVIOUS
          <5>2. n + 1 \in 1..n + 1 /\ \A k \in 1..n : k \in 1..n + 1
            OBVIOUS
          <5> QED
            BY <5>1, <5>2
        <4> QED
          BY <4>1
      <3> HIDE DEF Left
      <3> QED
        BY <3>1, <3>3, <3>4, <3>5
    <2>3. \A n \in 0..N : n \in U
      <3> HIDE DEF U
      <3> QED
        BY <1>2, <2>1, <2>2, BoundedInduction
    <2> QED
      BY <2>3
  <1>4. ListRemove(list, items) \in Seq(T)
    BY <1>1, <1>2
  <1>5. \A r : (\A k \in 1..N : r.id # items[k].id) <=> (\A x \in ToSet(items) : r.id # x.id)
    BY SeqFacts
  <1>6. ASSUME DistinctIds(list)
        PROVE  /\ DistinctIds(ListRemove(list, items))
               /\ ToSet(ListRemove(list, items))
                      = {r \in ToSet(list) : \A x \in ToSet(items) : r.id # x.id}
    <2>1. /\ DistinctIds(f[N])
          /\ ToSet(f[N]) = {r \in ToSet(list) : \A k \in 1..N : r.id # items[k].id}
      <3>1. N \in 0..N
        BY <1>2
      <3> QED
        BY <1>3, <1>6, <3>1
    <2>2. {r \in ToSet(list) : \A k \in 1..N : r.id # items[k].id}
              = {r \in ToSet(list) : \A x \in ToSet(items) : r.id # x.id}
      BY <1>5
    <2> QED
      BY <1>1, <2>1, <2>2
  <1> QED
    BY <1>4, <1>6

\* Without items nothing is done, and one item is one step.
LEMMA ListRemoveOne ==
    ASSUME NEW T, NEW list \in Seq(T), NEW x \in T
    PROVE  ListRemove(list, <<>>) = list /\ ListRemove(list, <<x>>) = RemoveRow(list, x)
  <1>1. ListRemove(list, <<>>) = list
    <2>1. PICK f \in [0..Len(<<>>) -> Seq(T)] :
              f[0] = list /\ ListRemove(list, <<>>) = f[Len(<<>>)]
      BY ListRemoveSteps
    <2> QED
      BY <2>1
  <1>2. ListRemove(list, <<x>>) = RemoveRow(list, x)
    <2> DEFINE items == <<x>>
    <2>1. items \in Seq(T) /\ Len(items) = 1 /\ items[1] = x
      OBVIOUS
    <2> HIDE DEF items
    <2>2. PICK f \in [0..Len(items) -> Seq(T)] :
              /\ f[0] = list
              /\ \A n \in 1..Len(items) : f[n] = RemoveRow(f[n - 1], items[n])
              /\ ListRemove(list, items) = f[Len(items)]
      BY <2>1, ListRemoveSteps
    <2>3. f[1] = RemoveRow(f[0], x)
      BY <2>1, <2>2
    <2> QED
      BY <2>1, <2>2, <2>3 DEF items
  <1> QED
    BY <1>1, <1>2

\* The same of updates.
LEMMA ListUpdateOne ==
    ASSUME NEW T, NEW list \in Seq(T), NEW x \in T
    PROVE  ListUpdate(list, <<>>) = list /\ ListUpdate(list, <<x>>) = UpdateRow(list, x)
  <1> DEFINE Is(f, items) ==
                 f = [n \in 0..Len(items) |-> IF n = 0 THEN list
                                              ELSE UpdateRow(f[n - 1], items[n])]
             after(items) == CHOOSE f : Is(f, items)
  <1>1. \A items : ListUpdate(list, items) = after(items)[Len(items)]
    BY Zenon DEF ListUpdate, InTurn
  <1>2. ListUpdate(list, <<>>) = list
    <2> DEFINE f == [n \in 0..0 |-> list]
    <2>1. Is(f, <<>>)
      OBVIOUS
    <2> HIDE DEF f, Is
    <2>2. Is(after(<<>>), <<>>)
      BY <2>1
    <2> HIDE DEF after
    <2>3. after(<<>>)[0] = list
      BY <2>2 DEF Is
    <2> QED
      BY <1>1, <2>3
  <1>3. ListUpdate(list, <<x>>) = UpdateRow(list, x)
    <2> DEFINE items == <<x>>
               f == [n \in 0..1 |-> IF n = 0 THEN list ELSE UpdateRow(list, x)]
    <2>1. Len(items) = 1 /\ items[1] = x
      OBVIOUS
    <2>2. Is(f, items)
      BY <2>1
    <2> HIDE DEF items, f, Is
    <2>3. Is(after(items), items)
      BY <2>2
    <2> HIDE DEF after
    <2>4. after(items)[0] = list /\ after(items)[1] = UpdateRow(after(items)[0], x)
      BY <2>1, <2>3 DEF Is
    <2> QED
      BY <1>1, <2>1, <2>4 DEF items
  <1> QED
    BY <1>2, <1>3

\* What one row is to a list of rows of which no two have the same id.
OneRow(T, list, x) ==
    /\ (\A r \in ToSet(list) : r.id # x.id) =>
           /\ ListInsert(list, <<x>>) \in Seq(T) /\ DistinctIds(ListInsert(list, <<x>>))
           /\ ToSet(ListInsert(list, <<x>>)) = ToSet(list) \cup {x}
    /\ ListUpdate(list, <<x>>) \in Seq(T) /\ DistinctIds(ListUpdate(list, <<x>>))
    /\ ToSet(ListUpdate(list, <<x>>)) = {r \in ToSet(list) : r.id # x.id} \cup {x}
    /\ ListRemove(list, <<x>>) \in Seq(T) /\ DistinctIds(ListRemove(list, <<x>>))
    /\ ToSet(ListRemove(list, <<x>>)) = {r \in ToSet(list) : r.id # x.id}

\* One row comes in, changes or goes, and the others are left.
LEMMA OneRowChanges ==
    ASSUME NEW T, NEW u \in Seq(T), NEW x \in T, DistinctIds(u)
    PROVE  OneRow(T, u, x)
  <1>1. <<x>> \in Seq(T) /\ ToSet(<<x>>) = {x} /\ DistinctIds(<<x>>)
    BY DEF ToSet, DistinctIds
  <1>2. ASSUME \A r \in ToSet(u) : r.id # x.id
        PROVE  /\ ListInsert(u, <<x>>) \in Seq(T) /\ DistinctIds(ListInsert(u, <<x>>))
               /\ ToSet(ListInsert(u, <<x>>)) = ToSet(u) \cup {x}
    <2>1. \A r \in ToSet(u), y \in ToSet(<<x>>) : r.id # y.id
      BY <1>1, <1>2
    <2>2. /\ ListInsert(u, <<x>>) \in Seq(T)
          /\ ToSet(ListInsert(u, <<x>>)) = ToSet(u) \cup ToSet(<<x>>)
      BY <1>1, ListInsertOf
    <2>3. DistinctIds(ListInsert(u, <<x>>))
      BY <1>1, <2>1, ListInsertOf
    <2> QED
      BY <1>1, <2>2, <2>3
  <1>3. /\ ListUpdate(u, <<x>>) \in Seq(T) /\ DistinctIds(ListUpdate(u, <<x>>))
        /\ ToSet(ListUpdate(u, <<x>>)) = {r \in ToSet(u) : r.id # x.id} \cup {x}
    <2>1. ListUpdate(u, <<x>>) = UpdateRow(u, x)
      BY ListUpdateOne
    <2>2. UpdateRow(u, x) \in Seq(T)
      BY UpdateRowOf
    <2>3. DistinctIds(UpdateRow(u, x)) /\ ToSet(UpdateRow(u, x)) = {r \in ToSet(u) : r.id # x.id} \cup {x}
      BY UpdateRowOf
    <2> QED
      BY <2>1, <2>2, <2>3
  <1>4. /\ ListRemove(u, <<x>>) \in Seq(T) /\ DistinctIds(ListRemove(u, <<x>>))
        /\ ToSet(ListRemove(u, <<x>>)) = {r \in ToSet(u) : r.id # x.id}
    <2>1. ListRemove(u, <<x>>) = RemoveRow(u, x)
      BY ListRemoveOne
    <2>2. RemoveRow(u, x) \in Seq(T) /\ RowGone(u, x, RemoveRow(u, x))
      BY RemoveRowOf
    <2> QED
      BY <2>1, <2>2 DEF RowGone
  <1> QED
    BY <1>2, <1>3, <1>4 DEF OneRow

\* Some of the items of a list with distinct ids have distinct ids.
LEMMA ItemsAtDistinct ==
    ASSUME NEW T, NEW items \in Seq(T), NEW P \in SUBSET DOMAIN items, DistinctIds(items)
    PROVE  DistinctIds(ItemsAt(items, P))
  <1> DEFINE N == Cardinality(P)
             at == Ascending(P)
             s == ItemsAt(items, P)
  <1>1. /\ s \in Seq(T) /\ Len(s) = N /\ N \in Nat /\ at \in [1..N -> P]
        /\ \A k \in 1..N : s[k] = items[at[k]]
        /\ \A j, k \in 1..N : j < k => at[j] < at[k]
    BY ItemsAtOrder
  <1> HIDE DEF N, at, s
  <1>2. DOMAIN items \subseteq Nat /\ DOMAIN s = 1..N
    BY <1>1
  <1>3. \A j, k \in 1..N : j # k => at[j] # at[k]
    BY <1>1, <1>2
  <1>4. \A j, k \in 1..N : j # k => items[at[j]].id # items[at[k]].id
    BY <1>1, <1>3 DEF DistinctIds
  <1> QED
    BY <1>1, <1>2, <1>4 DEF DistinctIds, s
=============================================================================
