------------------------------- MODULE Counting -------------------------------
(***************************************************************************)
(* Facts about numbers, finite sets and sequences that the proofs share:   *)
(* least elements, induction, functions defined by recursion, sums.  The   *)
(* library states induction over an operator, which the provers cannot be  *)
(* given; here it is over a set, from the theorem that < is well founded   *)
(* on the naturals.                                                        *)
(***************************************************************************)
EXTENDS Integers, Sequences, FiniteSets, FiniteSetsExt, Sorting, FiniteSetTheorems,
        WellFoundedInduction, TLAPS

\* A nonempty set of naturals has a least element.
LEMMA LeastNat ==
  ASSUME NEW T, T \subseteq Nat, T # {} PROVE \E x \in T : \A y \in T : x <= y
<1>1. PICK x \in T : \A y \in T : ~(<<y, x>> \in OpToRel(<, Nat))
  BY WFMin, NatLessThanWellFounded
<1>2. \A y \in T : ~(y < x)
  BY <1>1 DEF OpToRel
<1> QED BY <1>2

\* Induction up to n, over a set.
LEMMA UpTo ==
  ASSUME NEW n \in Nat, NEW G, 0 \in G, \A k \in G : k + 1 <= n => k + 1 \in G
  PROVE  n \in G
<1> DEFINE Bad == {k \in 0 .. n : k \notin G}
<1>1. Bad \subseteq Nat
  OBVIOUS
<1>2. ASSUME NEW k \in Bad, \A j \in Bad : k <= j
      PROVE  FALSE
  <2>1. k \in Nat /\ k # 0 /\ k <= n /\ k \notin G
    OBVIOUS
  <2>2. k - 1 \in 0 .. n /\ k - 1 \notin Bad
    BY <1>2, <2>1
  <2>3. k - 1 \in G
    BY <2>2
  <2>4. (k - 1) + 1 <= n => (k - 1) + 1 \in G
    BY <2>3
  <2> QED  BY <2>1, <2>4
<1>3. n \notin Bad
  <2> HIDE DEF Bad
  <2> QED  BY <1>1, <1>2, LeastNat
<1> QED  BY <1>3

\* f carries base through the first k steps.
Iterates(f, k, base, step) == f[0] = base /\ \A i \in 1 .. k : f[i] = step[i][f[i - 1]]

\* The function a recursion over 0 .. n defines exists.
LEMMA IterationExists ==
  ASSUME NEW n \in Nat, NEW V, NEW base \in V, NEW step \in [1 .. n -> [V -> V]]
  PROVE  \E f \in [0 .. n -> V] : Iterates(f, n, base, step)
<1> DEFINE Good(k) == \E f \in [0 .. k -> V] : Iterates(f, k, base, step)
           Bad == {k \in 0 .. n : ~Good(k)}
<1>1. Good(0)
  <2>1. [i \in 0 .. 0 |-> base] \in [0 .. 0 -> V]
    OBVIOUS
  <2>2. [i \in 0 .. 0 |-> base][0] = base
    OBVIOUS
  <2>3. PICK f \in [0 .. 0 -> V] : f[0] = base
    BY <2>1, <2>2
  <2> QED  BY <2>3 DEF Iterates
<1>2. ASSUME NEW k \in 0 .. n, k + 1 <= n, Good(k)
      PROVE  Good(k + 1)
  <2>1. PICK f \in [0 .. k -> V] : Iterates(f, k, base, step)
    BY <1>2
  <2>2. PICK last : last = step[k + 1][f[k]]
    OBVIOUS
  <2>3. last \in V
    <3>1. f[k] \in V /\ step[k + 1] \in [V -> V]
      BY <1>2
    <3> QED  BY <2>2, <3>1
  <2> DEFINE g == [i \in 0 .. k + 1 |-> IF i = k + 1 THEN last ELSE f[i]]
  <2>4. g \in [0 .. k + 1 -> V]
    BY <2>3
  <2>5. Iterates(g, k + 1, base, step)
    <3>1. g[0] = base
      BY <2>1 DEF Iterates
    <3>2. ASSUME NEW i \in 1 .. k + 1 PROVE g[i] = step[i][g[i - 1]]
      <4>1. g[i - 1] = f[i - 1]
        OBVIOUS
      <4>2. CASE i = k + 1
        BY <2>2, <4>1, <4>2
      <4>3. CASE i # k + 1
        BY <2>1, <4>1, <4>3 DEF Iterates
      <4> QED  BY <4>2, <4>3
    <3> QED  BY <3>1, <3>2 DEF Iterates
  <2> HIDE DEF g
  <2> QED  BY <2>4, <2>5
<1> HIDE DEF Good
<1>3. n \in {k \in 0 .. n : Good(k)}
  <2>1. 0 \in {k \in 0 .. n : Good(k)}
    BY <1>1
  <2>2. \A k \in {k \in 0 .. n : Good(k)} : k + 1 <= n => k + 1 \in {k0 \in 0 .. n : Good(k0)}
    BY <1>2
  <2> DEFINE G == {k \in 0 .. n : Good(k)}
  <2> HIDE DEF G
  <2>3. n \in G
    BY <2>1, <2>2, UpTo DEF G
  <2> QED  BY <2>3 DEF G
<1> QED  BY <1>3 DEF Good

-----------------------------------------------------------------------------
(* Division.                                                               *)

LEMMA QuotientBounds ==
  ASSUME NEW x \in Int, NEW d \in Int, d > 0
  PROVE  /\ x \div d \in Int /\ d * (x \div d) <= x /\ x < d * (x \div d) + d
         /\ x >= d => x \div d >= 1
         /\ x % d = x - d * (x \div d)
<1>1. PICK q \in Int : q = x \div d
  OBVIOUS
<1>2. d * q <= x /\ x < d * q + d /\ x % d = x - d * q
  BY <1>1
<1>3. x >= d => q >= 1
  BY <1>2
<1> QED  BY <1>1, <1>2, <1>3

LEMMA QuotientIs ==
  ASSUME NEW x \in Int, NEW d \in Int, NEW q \in Int, d > 0, d * q <= x, x < d * q + d
  PROVE  x \div d = q
  OBVIOUS

-----------------------------------------------------------------------------
(* Sums.                                                                   *)

\* F says the sum of w over every subset of U.
SumsOf(F, U, w) ==
  /\ F \in [SUBSET U -> Int] /\ F[{}] = 0
  /\ \A T \in SUBSET U : \A x \in U \ T : F[T \cup {x}] = F[T] + w[x]

\* Every subset of a finite set has its sum.
LEMMA SumsExist ==
  ASSUME NEW U, IsFiniteSet(U), NEW w, \A x \in U : w[x] \in Int
  PROVE  \E F : SumsOf(F, U, w)
<1> DEFINE G == {k \in Nat : \A T \in SUBSET U : Cardinality(T) = k => \E F : SumsOf(F, T, w)}
<1>1. Cardinality(U) \in Nat
  BY FS_CardinalityType
<1>2. 0 \in G
  <2>1. ASSUME NEW T \in SUBSET U, Cardinality(T) = 0
        PROVE  \E F : SumsOf(F, T, w)
    <3>1. T = {}
      BY <2>1, FS_EmptySet, FS_Subset
    <3>2. PICK F : F = [S \in SUBSET {} |-> 0]
      OBVIOUS
    <3>3. SumsOf(F, {}, w)
      BY <3>2 DEF SumsOf
    <3> QED  BY <3>1, <3>3
  <2> QED  BY <2>1
<1>3. ASSUME NEW k \in G, k + 1 <= Cardinality(U)
      PROVE  k + 1 \in G
  <2>1. ASSUME NEW T \in SUBSET U, Cardinality(T) = k + 1
        PROVE  \E F : SumsOf(F, T, w)
    <3>1. IsFiniteSet(T) /\ k \in Nat
      BY FS_Subset
    <3>2. T # {}
      BY <2>1, <3>1, FS_EmptySet
    <3>3. PICK d \in T : TRUE
      BY <3>2
    <3>4. PICK R : R = T \ {d}
      OBVIOUS
    <3>5. Cardinality(R) = k /\ R \in SUBSET U
      <4>1. Cardinality(T \ {d}) = Cardinality(T) - 1
        BY <3>1, <3>3, FS_RemoveElement
      <4> QED  BY <2>1, <3>1, <3>4, <4>1
    <3>6. PICK F : SumsOf(F, R, w)
      BY <3>5
    <3> DEFINE H == [S \in SUBSET T |-> F[S \ {d}] + IF d \in S THEN w[d] ELSE 0]
    <3>7. \A S \in SUBSET T : S \ {d} \in SUBSET R
      BY <3>4
    <3>8. w[d] \in Int /\ \A S \in SUBSET R : F[S] \in Int
      BY <3>3, <3>6 DEF SumsOf
    <3>9. H \in [SUBSET T -> Int]
      BY <3>7, <3>8
    <3>10. H[{}] = 0
      <4>1. {} \ {d} = {} /\ F[{}] = 0
        BY <3>6 DEF SumsOf
      <4>2. H[{}] = F[{} \ {d}] + 0
        OBVIOUS
      <4> QED  BY <4>1, <4>2
    <3>11. ASSUME NEW S \in SUBSET T, NEW x \in T \ S
           PROVE  H[S \cup {x}] = H[S] + w[x]
      <4>1. S \cup {x} \in SUBSET T
        OBVIOUS
      <4>2. CASE x = d
        <5>1. (S \cup {x}) \ {d} = S /\ S \ {d} = S
          BY <3>11, <4>2
        <5>2. S \in SUBSET R /\ d \notin S /\ d \in S \cup {x}
          BY <3>4, <3>11, <4>2
        <5>3. H[S \cup {x}] = F[S] + w[d]
          BY <4>1, <5>1, <5>2
        <5>4. H[S] = F[S]
          <6>1. H[S] = F[S \ {d}] + 0
            BY <5>2
          <6>2. F[S] \in Int
            BY <3>8, <5>2
          <6> QED  BY <5>1, <6>1, <6>2
        <5> QED  BY <4>2, <5>3, <5>4
      <4>3. CASE x # d
        <5>1. PICK r : r = S \ {d}
          OBVIOUS
        <5>2. (S \cup {x}) \ {d} = r \cup {x}
          BY <4>3, <5>1
        <5>3. r \in SUBSET R /\ x \in R \ r
          BY <3>4, <4>3, <5>1
        <5>4. F[r \cup {x}] = F[r] + w[x] /\ w[x] \in Int /\ F[r] \in Int
          BY <3>6, <5>3 DEF SumsOf
        <5>5. H[S \cup {x}] = F[r \cup {x}] + IF d \in S THEN w[d] ELSE 0
          BY <4>1, <4>3, <5>2
        <5>6. H[S] = F[r] + IF d \in S THEN w[d] ELSE 0
          BY <5>1
        <5> QED  BY <3>8, <5>4, <5>5, <5>6
      <4> QED  BY <4>2, <4>3
    <3> HIDE DEF H
    <3>12. SumsOf(H, T, w)
      BY <3>9, <3>10, <3>11 DEF SumsOf
    <3> QED  BY <3>12
  <2> QED  BY <2>1
<1>4. Cardinality(U) \in G
  <2> HIDE DEF G
  <2> QED  BY <1>1, <1>2, <1>3, UpTo
<1> QED  BY <1>4

\* A sum of the library is one of them.
LEMMA SumIs ==
  ASSUME NEW w, IsFiniteSet(DOMAIN w), \A x \in DOMAIN w : w[x] \in Int,
         NEW F, SumsOf(F, DOMAIN w, w)
  PROVE  SumFunction(w) = F[DOMAIN w]
<1> DEFINE U == DOMAIN w
           X(s) == CHOOSE x \in s : TRUE
           Step(g) == [s \in SUBSET U |-> IF s = {} THEN 0 ELSE w[X(s)] + g[s \ {X(s)}]]
           iter == CHOOSE g : g = Step(g)
<1>1. SumFunction(w) = iter[U]
  BY DEF SumFunction, SumFunctionOnSet, FoldFunctionOnSet, MapThenFoldSet
<1>2. F = Step(F)
  <2>1. F \in [SUBSET U -> Int] /\ F[{}] = 0
    BY DEF SumsOf
  <2>2. ASSUME NEW s \in SUBSET U, s # {}
        PROVE  F[s] = w[X(s)] + F[s \ {X(s)}]
    <3>1. PICK x : x = X(s)
      OBVIOUS
    <3>2. x \in s
      BY <2>2, <3>1
    <3>3. PICK t : t = s \ {x}
      OBVIOUS
    <3>4. t \in SUBSET U /\ x \in U \ t /\ s = t \cup {x}
      BY <3>2, <3>3
    <3>5. F[s] = F[t] + w[x]
      BY <3>4 DEF SumsOf
    <3>6. F[t] \in Int /\ F[s] \in Int
      BY <2>1, <3>4
    <3>7. w[x] \in Int
      BY <3>2
    <3> QED  BY <3>1, <3>3, <3>5, <3>6, <3>7
  <2> HIDE DEF X
  <2> QED  BY <2>1, <2>2
<1>3. iter = Step(iter)
  <2> HIDE DEF Step
  <2> QED  BY <1>2
<1>4. ASSUME NEW g, g = Step(g)
      PROVE  g[U] = F[U]
  <2> DEFINE G == {k \in Nat : \A s \in SUBSET U : Cardinality(s) = k => g[s] = F[s]}
  <2>1. 0 \in G
    <3>1. ASSUME NEW s \in SUBSET U, Cardinality(s) = 0
          PROVE  g[s] = F[s]
      <4>1. s = {}
        BY <3>1, FS_EmptySet, FS_Subset
      <4> QED  BY <1>2, <1>4, <4>1
    <3> QED  BY <3>1
  <2>2. ASSUME NEW k \in G, k + 1 <= Cardinality(U)
        PROVE  k + 1 \in G
    <3>1. ASSUME NEW s \in SUBSET U, Cardinality(s) = k + 1
          PROVE  g[s] = F[s]
      <4>1. IsFiniteSet(s) /\ k \in Nat
        BY FS_Subset
      <4>2. s # {}
        BY <3>1, <4>1, FS_EmptySet
      <4>3. PICK x : x = X(s)
        OBVIOUS
      <4>4. x \in s
        BY <4>2, <4>3
      <4>5. Cardinality(s \ {x}) = Cardinality(s) - 1 /\ s \ {x} \in SUBSET U
        BY <4>1, <4>4, FS_RemoveElement
      <4>6. g[s \ {x}] = F[s \ {x}]
        BY <3>1, <4>1, <4>5
      <4>7. g[s] = w[x] + g[s \ {x}] /\ F[s] = w[x] + F[s \ {x}]
        BY <1>2, <1>4, <4>2, <4>3
      <4> QED  BY <4>6, <4>7
    <3> QED  BY <3>1
  <2>3. Cardinality(U) \in Nat
    BY FS_CardinalityType
  <2>4. Cardinality(U) \in G
    <3> HIDE DEF G
    <3> QED  BY <2>1, <2>2, <2>3, UpTo
  <2> QED  BY <2>4
<1> HIDE DEF iter, Step
<1> QED  BY <1>1, <1>3, <1>4

\* A table of sums is one over every smaller set too.
LEMMA SumOver ==
  ASSUME NEW U, IsFiniteSet(U), NEW w, \A x \in U : w[x] \in Int, NEW F, SumsOf(F, U, w),
         NEW T \in SUBSET U
  PROVE  SumFunction([x \in T |-> w[x]]) = F[T]
<1>1. PICK v : v = [x \in T |-> w[x]]
  OBVIOUS
<1>2. PICK H : H = [S \in SUBSET T |-> F[S]]
  OBVIOUS
<1>3. DOMAIN v = T /\ IsFiniteSet(T) /\ \A x \in T : v[x] \in Int
  BY <1>1, FS_Subset
<1>4. SumsOf(H, T, v)
  <2>1. H \in [SUBSET T -> Int] /\ H[{}] = 0
    BY <1>2 DEF SumsOf
  <2>2. ASSUME NEW S \in SUBSET T, NEW x \in T \ S
        PROVE  H[S \cup {x}] = H[S] + v[x]
    <3>1. S \cup {x} \in SUBSET T /\ S \in SUBSET U /\ x \in U \ S
      OBVIOUS
    <3>2. F[S \cup {x}] = F[S] + w[x]
      BY <3>1 DEF SumsOf
    <3> QED  BY <1>1, <1>2, <3>1, <3>2
  <2> QED  BY <2>1, <2>2 DEF SumsOf
<1>5. SumFunction(v) = H[T]
  BY <1>3, <1>4, SumIs
<1> QED  BY <1>1, <1>2, <1>5

\* u weighs what w does, and k weighs v.
Puts(u, w, D, k, v) ==
  /\ IsFiniteSet(D) /\ DOMAIN w = D /\ \A x \in D : w[x] \in Int
  /\ DOMAIN u = D \cup {k} /\ u[k] = v /\ v \in Int /\ \A j \in D \ {k} : u[j] = w[j]

\* What a sum becomes when one more weight is set, or set anew.
LEMMA SumPut ==
  ASSUME NEW u, NEW w, NEW D, NEW k, NEW v, Puts(u, w, D, k, v)
  PROVE  SumFunction(u) = SumFunction(w) - (IF k \in D THEN w[k] ELSE 0) + v
<1> USE DEF Puts
<1>1. PICK E, R : E = D \cup {k} /\ R = D \ {k}
  OBVIOUS
<1>2. IsFiniteSet(D \cup {k}) /\ IsFiniteSet(D \ {k})
  BY FS_AddElement, FS_RemoveElement
<1>3. IsFiniteSet(E) /\ IsFiniteSet(R) /\ DOMAIN u = E /\ \A x \in E : u[x] \in Int
  BY <1>1, <1>2
<1>4. PICK F : SumsOf(F, D, w)
  BY SumsExist
<1>5. PICK H : SumsOf(H, E, u)
  BY <1>3, SumsExist
<1>6. SumFunction(w) = F[D] /\ SumFunction(u) = H[E]
  BY <1>3, <1>4, <1>5, SumIs
<1>7. H[R] = F[R]
  <2>1. R \in SUBSET D /\ R \in SUBSET E
    BY <1>1
  <2>2. SumFunction([x \in R |-> w[x]]) = F[R]
    BY <1>4, <2>1, SumOver
  <2>3. SumFunction([x \in R |-> u[x]]) = H[R]
    BY <1>3, <1>5, <2>1, SumOver
  <2>4. [x \in R |-> u[x]] = [x \in R |-> w[x]]
    BY <1>1
  <2> QED  BY <2>2, <2>3, <2>4
<1>8. H[E] = H[R] + v
  <2>1. R \in SUBSET E /\ k \in E \ R /\ R \cup {k} = E /\ u[k] = v
    BY <1>1
  <2> QED  BY <1>5, <2>1 DEF SumsOf
<1>9. F[R] \in Int
  BY <1>1, <1>4 DEF SumsOf
<1>10. CASE k \in D
  <2>1. R \in SUBSET D /\ k \in D \ R /\ R \cup {k} = D
    BY <1>1, <1>10
  <2>2. F[D] = F[R] + w[k]
    BY <1>4, <2>1 DEF SumsOf
  <2>3. w[k] \in Int
    BY <1>10
  <2> QED  BY <1>6, <1>7, <1>8, <1>9, <1>10, <2>2, <2>3
<1>11. CASE k \notin D
  <2>1. R = D
    BY <1>1, <1>11
  <2> QED  BY <1>6, <1>7, <1>8, <1>9, <1>11, <2>1
<1> QED  BY <1>10, <1>11

\* One weight alone, and none.
LEMMA SumOfOne ==
  ASSUME NEW k, NEW v \in Int, NEW u, DOMAIN u = {k}, u[k] = v
  PROVE  SumFunction(u) = v
<1>1. IsFiniteSet({k}) /\ DOMAIN u = {k} /\ \A x \in {k} : u[x] \in Int
  BY FS_Singleton
<1>2. PICK F : SumsOf(F, {k}, u)
  BY <1>1, SumsExist
<1>3. SumFunction(u) = F[{k}]
  BY <1>1, <1>2, SumIs
<1>4. F[{} \cup {k}] = F[{}] + v /\ F[{}] = 0 /\ {} \cup {k} = {k}
  BY <1>1, <1>2 DEF SumsOf
<1> QED  BY <1>3, <1>4

LEMMA SumOfNone ==
  ASSUME NEW u, DOMAIN u = {}
  PROVE  SumFunction(u) = 0
<1>1. IsFiniteSet({})
  BY FS_EmptySet
<1>2. PICK F : SumsOf(F, {}, u)
  BY <1>1, SumsExist
<1>3. SumFunction(u) = F[{}]
  BY <1>1, <1>2, SumIs
<1> QED  BY <1>2, <1>3 DEF SumsOf
-----------------------------------------------------------------------------
(* The order of a set. *)

\* before orders the members of S, each pair one way.
Orders(S, before) ==
    /\ IsFiniteSet(S)
    /\ \A x \in S : <<x, x>> \notin before
    /\ \A x, y \in S : x # y => <<x, y>> \in before \/ <<y, x>> \in before
    /\ \A x, y, z \in S : <<x, y>> \in before /\ <<y, z>> \in before => <<x, z>> \in before

\* What sorting S makes: every member once, an earlier one at an earlier place.
InTurn(S, before, f) ==
    /\ f \in [1 .. Cardinality(S) -> S]
    /\ \A i, j \in 1 .. Cardinality(S) : i < j => <<f[i], f[j]>> \in before /\ f[i] # f[j]
    /\ \A x \in S : \E i \in 1 .. Cardinality(S) : f[i] = x

\* A set is sorted by the number of members before each.
LEMMA SortedInTurn ==
  ASSUME NEW S, NEW before, Orders(S, before)
  PROVE  InTurn(S, before, Sorted(S, before))
<1> DEFINE n == Cardinality(S)
           Below(x) == {y \in S : <<y, x>> \in before}
           rank == [x \in S |-> Cardinality(Below(x))]
<1>1. n \in Nat /\ IsFiniteSet(S)
  BY FS_CardinalityType DEF Orders
<1>2. ASSUME NEW x \in S
      PROVE  IsFiniteSet(Below(x)) /\ rank[x] \in 0 .. n - 1
  <2>1. PICK b, c : b = Below(x) /\ c = S \ {x}
    OBVIOUS
  <2>2. Cardinality(S \ {x}) = n - 1 /\ IsFiniteSet(S \ {x})
    BY <1>1, FS_RemoveElement
  <2>3. b \subseteq c
    BY <2>1 DEF Orders
  <2>6. IsFiniteSet(c) /\ Cardinality(c) = n - 1 /\ b \in SUBSET c
    BY <2>1, <2>2, <2>3
  <2>4. IsFiniteSet(b) /\ Cardinality(b) <= n - 1
    BY <2>6, FS_Subset
  <2>5. Cardinality(b) \in Nat
    BY <2>4, FS_CardinalityType
  <2> QED  BY <1>1, <2>1, <2>4, <2>5
<1>3. ASSUME NEW x \in S, NEW y \in S, <<x, y>> \in before
      PROVE  rank[x] < rank[y]
  <2>1. PICK a, b : a = Below(x) /\ b = Below(y)
    OBVIOUS
  <2>2. a \subseteq b /\ x \in b /\ x \notin a
    BY <1>3, <2>1 DEF Orders
  <2>3. IsFiniteSet(a) /\ IsFiniteSet(b)
    BY <1>2, <2>1
  <2>4. Cardinality(a) <= Cardinality(b) /\ (Cardinality(a) = Cardinality(b) => a = b)
    BY <2>2, <2>3, FS_Subset
  <2>5. Cardinality(a) \in Nat /\ Cardinality(b) \in Nat
    BY <2>3, FS_CardinalityType
  <2> QED  BY <2>1, <2>2, <2>4, <2>5
<1>4. \A x, y \in S : rank[x] = rank[y] => x = y
  <2> SUFFICES ASSUME NEW x \in S, NEW y \in S, rank[x] = rank[y], x # y PROVE FALSE
    OBVIOUS
  <2>1. <<x, y>> \in before \/ <<y, x>> \in before
    BY DEF Orders
  <2>2. rank[x] \in Int /\ rank[y] \in Int
    BY <1>1, <1>2
  <2> HIDE DEF rank
  <2> QED  BY <1>3, <2>1, <2>2
<1>5. ASSUME NEW i \in 1 .. n
      PROVE  \E x \in S : rank[x] = i - 1
  <2> HIDE DEF rank
  <2>1. PICK R, T : R = 1 .. n /\ T = {rank[x] + 1 : x \in S}
    OBVIOUS
  <2>2. IsFiniteSet(R) /\ Cardinality(R) = n
    <3>1. IsFiniteSet(1 .. n) /\ Cardinality(1 .. n) = n
      BY <1>1, FS_Interval
    <3> QED  BY <2>1, <3>1
  <2>9. ASSUME NEW x \in S PROVE rank[x] + 1 \in 1 .. n /\ rank[x] \in Int
    <3>1. rank[x] \in 0 .. n - 1
      BY <1>2
    <3> QED  BY <1>1, <3>1
  <2>3. T \subseteq R
    BY <2>1, <2>9
  <2>4. PICK f : f = [x \in S |-> rank[x] + 1]
    OBVIOUS
  <2>5. f \in Bijection(S, T)
    <3>1. f \in Injection(S, T)
      BY <1>4, <2>1, <2>4, <2>9 DEF Injection, IsInjective
    <3>2. f \in Surjection(S, T)
      BY <2>1, <2>4 DEF Surjection
    <3> QED  BY <3>1, <3>2 DEF Bijection
  <2>6. Cardinality(T) = n
    <3>1. ExistsBijection(S, T)
      BY <2>5 DEF ExistsBijection
    <3> QED  BY <1>1, <3>1, FS_Bijection
  <2>7. T = R
    BY <2>2, <2>3, <2>6, FS_Subset
  <2>8. i \in T
    BY <2>1, <2>7
  <2> QED  BY <2>1, <2>8, <2>9
<1>6. PICK s : s = Sorted(S, before)
  OBVIOUS
<1>7. ASSUME NEW i \in 1 .. n
      PROVE  s[i] \in S /\ rank[s[i]] = i - 1
  <2>1. s[i] = CHOOSE x \in S : Cardinality(Below(x)) = i - 1
    BY <1>6 DEF Sorted
  <2>2. \E x \in S : Cardinality(Below(x)) = i - 1
    BY <1>5
  <2> HIDE DEF Below
  <2>3. s[i] \in S /\ Cardinality(Below(s[i])) = i - 1
    BY <2>1, <2>2
  <2> QED  BY <2>3
<1>8. DOMAIN s = 1 .. n /\ s = [i \in 1 .. n |-> s[i]]
  <2> DEFINE F(i) == CHOOSE x \in S : Cardinality(Below(x)) = i - 1
  <2>1. s = [i \in 1 .. n |-> F(i)]
    BY <1>6 DEF Sorted
  <2> HIDE DEF F
  <2> QED  BY <2>1
<1>9. s \in [1 .. n -> S]
  BY <1>7, <1>8
<1> HIDE DEF rank
<1>10. ASSUME NEW i \in 1 .. n, NEW j \in 1 .. n, i < j
       PROVE  <<s[i], s[j]>> \in before /\ s[i] # s[j]
  <2>1. s[i] \in S /\ s[j] \in S /\ rank[s[i]] = i - 1 /\ rank[s[j]] = j - 1
    BY <1>7
  <2>2. s[i] # s[j]
    BY <1>10, <2>1
  <2>3. ~(<<s[j], s[i]>> \in before)
    BY <1>3, <1>10, <2>1
  <2> QED  BY <2>1, <2>2, <2>3 DEF Orders
<1>11. ASSUME NEW x \in S
       PROVE  \E i \in 1 .. n : s[i] = x
  <2>3. rank[x] \in 0 .. n - 1
    BY <1>2
  <2>1. rank[x] + 1 \in 1 .. n /\ (rank[x] + 1) - 1 = rank[x]
    BY <1>1, <2>3
  <2>2. s[rank[x] + 1] \in S /\ rank[s[rank[x] + 1]] = rank[x]
    BY <1>7, <2>1
  <2>4. s[rank[x] + 1] = x
    BY <1>4, <2>2
  <2> QED  BY <2>1, <2>4
<1> QED  BY <1>6, <1>9, <1>10, <1>11 DEF InTurn

\* What putting a set of numbers in order makes.
Climbs(S, f) ==
    /\ Cardinality(S) \in Nat /\ f \in [1 .. Cardinality(S) -> S]
    /\ \A i, j \in 1 .. Cardinality(S) : i < j => f[i] < f[j]
    /\ \A x \in S : \E i \in 1 .. Cardinality(S) : f[i] = x

LEMMA AscendingClimbs ==
  ASSUME NEW S, IsFiniteSet(S), S \subseteq Int
  PROVE  Climbs(S, Ascending(S))
<1>1. PICK before : before = {p \in S \X S : p[1] < p[2]}
  OBVIOUS
<1>2. \A x, y \in S : <<x, y>> \in before <=> x < y
  BY <1>1
<1>3. Orders(S, before)
  BY <1>2 DEF Orders
<1>4. InTurn(S, before, Ascending(S))
  BY <1>1, <1>3, SortedInTurn DEF Ascending
<1>5. Cardinality(S) \in Nat
  BY FS_CardinalityType
<1>6. PICK f : f = Ascending(S)
  OBVIOUS
<1>7. f \in [1 .. Cardinality(S) -> S] /\ \A i, j \in 1 .. Cardinality(S) : i < j => <<f[i], f[j]>> \in before
  BY <1>4, <1>6 DEF InTurn
<1>8. \A x \in S : \E i \in 1 .. Cardinality(S) : f[i] = x
  BY <1>4, <1>6 DEF InTurn
<1>9. \A i, j \in 1 .. Cardinality(S) : i < j => f[i] < f[j]
  BY <1>2, <1>7
<1> QED  BY <1>5, <1>6, <1>7, <1>8, <1>9 DEF Climbs

LEMMA ClimbsLen ==
  ASSUME NEW S, NEW f, Climbs(S, f)
  PROVE  Len(f) = Cardinality(S) /\ DOMAIN f = 1 .. Cardinality(S) /\ f \in Seq(S)
<1>1. PICK n \in Nat : n = Cardinality(S) /\ f \in [1 .. n -> S]
  BY DEF Climbs
<1>2. f \in Seq(S)
  BY ONLY <1>1
<1>3. DOMAIN f = 1 .. n
  BY <1>1
<1>4. Len(f) = n
  BY ONLY <1>1, <1>2, <1>3
<1> QED  BY <1>1, <1>2, <1>3, <1>4

\* A stretch of a function that takes no value twice holds as many values as places.
Stretch(f, a, b) == {f[i] : i \in a .. b}
Apart(n, f) == \A i, j \in 1 .. n : i < j => f[i] # f[j]
LEMMA ApartCount ==
  ASSUME NEW n \in Nat, NEW f, Apart(n, f),
         NEW a \in Int, NEW b \in Int, 1 <= a, b <= n, a <= b + 1,
         NEW T, T = Stretch(f, a, b)
  PROVE  Cardinality(T) = b - a + 1 /\ IsFiniteSet(T)
<1>1. PICK D, g : D = a .. b /\ g = [i \in D |-> f[i]]
  OBVIOUS
<1>2. D \subseteq 1 .. n
  BY <1>1
<1>3. \A i, j \in D : f[i] = f[j] => i = j
  <2> SUFFICES ASSUME NEW i \in D, NEW j \in D, i # j PROVE f[i] # f[j]
    OBVIOUS
  <2>1. i \in 1 .. n /\ j \in 1 .. n
    BY <1>2
  <2>2. i < j \/ j < i
    BY <2>1
  <2> QED  BY <2>1, <2>2 DEF Apart
<1>4. g \in Bijection(D, T)
  <2>1. g \in [D -> T] /\ \A i \in D : g[i] = f[i]
    BY <1>1 DEF Stretch
  <2>2. g \in Injection(D, T)
    BY <1>3, <2>1 DEF Injection, IsInjective
  <2>3. g \in Surjection(D, T)
    BY <1>1, <2>1 DEF Surjection, Stretch
  <2> QED  BY <2>2, <2>3 DEF Bijection
<1>5. ExistsBijection(D, T)
  BY <1>4 DEF ExistsBijection
<1>6. IsFiniteSet(a .. b) /\ Cardinality(a .. b) = IF a > b THEN 0 ELSE b - a + 1
  BY FS_Interval
<1>7. IsFiniteSet(D) /\ Cardinality(D) = b - a + 1
  BY <1>1, <1>6
<1> QED  BY <1>1, <1>5, <1>7, FS_Bijection

LEMMA StretchCount ==
  ASSUME NEW S, S \subseteq Int, NEW f, Climbs(S, f),
         NEW a \in Int, NEW b \in Int, 1 <= a, b <= Cardinality(S), a <= b + 1,
         NEW T, T = Stretch(f, a, b)
  PROVE  Cardinality(T) = b - a + 1 /\ IsFiniteSet(T)
<1>1. PICK n : n = Cardinality(S)
  OBVIOUS
<1>2. n \in Nat /\ f \in [1 .. n -> S] /\ \A i, j \in 1 .. n : i < j => f[i] < f[j]
  BY <1>1 DEF Climbs
<1>3. Apart(n, f)
  <2> SUFFICES ASSUME NEW i \in 1 .. n, NEW j \in 1 .. n, i < j PROVE f[i] # f[j]
    BY DEF Apart
  <2>1. f[i] \in Int /\ f[j] \in Int
    BY <1>2
  <2> QED  BY <1>2, <2>1
<1> QED  BY <1>1, <1>2, <1>3, ApartCount

\* By value, and by place among equals: the order the medians and ranks are taken in.
ByValue(value, data) ==
  {p \in data \X data : \/ value[p[1]] < value[p[2]]
                        \/ value[p[1]] = value[p[2]] /\ p[1] < p[2]}

LEMMA ByValueOrders ==
  ASSUME NEW data, IsFiniteSet(data), data \subseteq Int,
         NEW value, \A i \in data : value[i] \in Int
  PROVE  Orders(data, ByValue(value, data))
<1>1. PICK before : before = ByValue(value, data)
  OBVIOUS
<1>2. \A x, y \in data : <<x, y>> \in before <=> \/ value[x] < value[y]
                                                 \/ value[x] = value[y] /\ x < y
  BY <1>1 DEF ByValue
<1>3. \A x \in data : x \in Int /\ value[x] \in Int
  OBVIOUS
<1>4. \A x \in data : <<x, x>> \notin before
  BY <1>2, <1>3
<1>5. \A x, y \in data : x # y => <<x, y>> \in before \/ <<y, x>> \in before
  BY <1>2, <1>3
<1>6. \A x, y, z \in data : <<x, y>> \in before /\ <<y, z>> \in before => <<x, z>> \in before
  BY <1>2, <1>3
<1> QED  BY <1>1, <1>4, <1>5, <1>6 DEF Orders

-----------------------------------------------------------------------------
(* The middle of a list of values.                                         *)

\* Twice the middle value of the members of f, sorted; of an even number, both middles.
Middle(n, f, v) ==
    IF n % 2 = 1 THEN 2 * v[f[n \div 2 + 1]] ELSE v[f[n \div 2]] + v[f[n \div 2 + 1]]

\* Sorted by value: a later member's is no smaller.
Rises(n, f, v) ==
    /\ \A i \in 1 .. n : v[f[i]] \in Int
    /\ \A i, j \in 1 .. n : i < j => v[f[i]] <= v[f[j]]

LowerHalf(S, v, m) == {x \in S : 2 * v[x] < m}
UpperHalf(S, v, m) == {x \in S : 2 * v[x] > m}

\* No more than half of the members lie below the middle, and no more than half above.
LEMMA MiddleHalves ==
  ASSUME NEW n \in Nat, n >= 1, NEW f, NEW S, \A x \in S : \E i \in 1 .. n : f[i] = x,
         Apart(n, f), NEW v, Rises(n, f, v), NEW m, m = Middle(n, f, v)
  PROVE  /\ m \in Int
         /\ 2 * Cardinality(LowerHalf(S, v, m)) <= n
         /\ 2 * Cardinality(UpperHalf(S, v, m)) <= n
<1>1. PICK h \in Nat : h = n \div 2
  OBVIOUS
<1>2. 2 * h <= n /\ n <= 2 * h + 1 /\ n % 2 = n - 2 * h
  BY <1>1
<1>3. h + 1 \in 1 .. n /\ (n % 2 # 1 => h \in 1 .. n)
  BY <1>2
<1>4. m = IF n % 2 = 1 THEN 2 * v[f[h + 1]] ELSE v[f[h]] + v[f[h + 1]]
  BY <1>1 DEF Middle
<1>5. v[f[h + 1]] \in Int /\ (n % 2 # 1 => v[f[h]] \in Int /\ v[f[h]] <= v[f[h + 1]])
  BY <1>3, <1>2 DEF Rises
<1>6. m \in Int
  BY <1>4, <1>5
<1>7. PICK low, high : low = LowerHalf(S, v, m) /\ high = UpperHalf(S, v, m)
  OBVIOUS
<1>8. low \subseteq Stretch(f, 1, h)
  <2> SUFFICES ASSUME NEW x \in S, 2 * v[x] < m PROVE x \in Stretch(f, 1, h)
    BY <1>7 DEF LowerHalf
  <2>1. PICK i \in 1 .. n : f[i] = x
    OBVIOUS
  <2>2. ASSUME i > h PROVE FALSE
    <3>1. v[x] \in Int /\ v[f[h + 1]] <= v[x]
      BY <1>3, <1>5, <2>1, <2>2 DEF Rises
    <3>2. n % 2 # 1 => v[f[h]] <= v[x]
      BY <1>3, <1>5, <3>1
    <3> QED  BY <1>4, <1>5, <3>1, <3>2
  <2> QED  BY <2>1, <2>2 DEF Stretch
<1>9. high \subseteq Stretch(f, n - h + 1, n)
  <2> SUFFICES ASSUME NEW x \in S, 2 * v[x] > m PROVE x \in Stretch(f, n - h + 1, n)
    BY <1>7 DEF UpperHalf
  <2>1. PICK i \in 1 .. n : f[i] = x
    OBVIOUS
  <2>2. ASSUME i <= n - h PROVE FALSE
    <3>1. v[x] \in Int /\ v[x] <= v[f[h + 1]]
      BY <1>2, <1>3, <1>5, <2>1, <2>2 DEF Rises
    <3>2. n % 2 # 1 => v[x] <= v[f[h]]
      <4>1. n % 2 # 1 => i <= h
        BY <1>2, <2>2
      <4> QED  BY <1>3, <1>5, <2>1, <4>1, <3>1 DEF Rises
    <3> QED  BY <1>4, <1>5, <3>1, <3>2
  <2> QED  BY <2>1, <2>2 DEF Stretch
<1>10. /\ Cardinality(Stretch(f, 1, h)) = h /\ IsFiniteSet(Stretch(f, 1, h))
       /\ Cardinality(Stretch(f, n - h + 1, n)) = h /\ IsFiniteSet(Stretch(f, n - h + 1, n))
  <2>1. /\ h \in Int /\ 1 \in Int /\ 1 <= 1 /\ h <= n /\ 1 <= h + 1 /\ h - 1 + 1 = h
        /\ n - h + 1 \in Int /\ n \in Int /\ 1 <= n - h + 1 /\ n <= n /\ n - h + 1 <= n + 1
        /\ n - (n - h + 1) + 1 = h
    BY <1>2
  <2> QED  BY <2>1, ApartCount
<1>11. /\ Cardinality(low) \in Nat /\ Cardinality(low) <= h
       /\ Cardinality(high) \in Nat /\ Cardinality(high) <= h
  BY <1>8, <1>9, <1>10, FS_Subset, FS_CardinalityType
<1> QED  BY <1>2, <1>6, <1>7, <1>11

=============================================================================
