---------------------------- MODULE SetLemmas -----------------------------
(***************************************************************************)
(* Facts about finite sets, with their proofs.  Orders: a finite set has a *)
(* listing in any strict order of its elements, a set of naturals has a    *)
(* least element and a finite one a greatest, and what the latest H        *)
(* members of a set of years are.  Sums: the function a fold over a finite *)
(* set is defined by exists, does not depend on the order of the elements, *)
(* and differences of neighbours add up to the difference of the ends.     *)
(***************************************************************************)
EXTENDS Integers, FiniteSets, FiniteSetTheorems, FunctionTheorems, TLAPS

\* R is a strict order of the elements of S, none of them apart
Orders(R, S) ==
  /\ \A x \in S : <<x, x>> \notin R
  /\ \A x, y, z \in S : <<x, y>> \in R /\ <<y, z>> \in R => <<x, z>> \in R
  /\ \A x, y \in S : x # y => <<x, y>> \in R \/ <<y, x>> \in R

\* s is the sequence of the elements of S in the order R
Lists(s, S, R) ==
  /\ s \in [1..Cardinality(S) -> S]
  /\ \A m, n \in 1..Cardinality(S) : m < n => <<s[m], s[n]>> \in R
  /\ \A x \in S : \E n \in 1..Cardinality(S) : s[n] = x

\* a finite set has a listing in any order of it
LEMMA Listing ==
  ASSUME NEW S, IsFiniteSet(S), NEW R, Orders(R, S)
  PROVE  \E s : Lists(s, S, R)
<1> DEFINE N == Cardinality(S)
           Below(x) == {y \in S : <<y, x>> \in R}
           rank == [x \in S |-> Cardinality(Below(x)) + 1]
<1>1. N \in Nat /\ IsFiniteSet(1..N) /\ Cardinality(1..N) = N
  BY FS_CardinalityType, FS_Interval
<1>2. ASSUME NEW x \in S
      PROVE  /\ IsFiniteSet(Below(x)) /\ Cardinality(Below(x)) \in Nat
             /\ rank[x] \in 1..N
  <2>1. IsFiniteSet(S \ {x}) /\ Cardinality(S \ {x}) = N - 1
    BY FS_RemoveElement
  <2>2. Below(x) \in SUBSET (S \ {x})
    BY DEF Orders
  <2> HIDE DEF Below
  <2>3. IsFiniteSet(Below(x)) /\ Cardinality(Below(x)) <= N - 1
    BY <2>1, <2>2, FS_Subset
  <2>4. Cardinality(Below(x)) \in Nat
    BY <2>3, FS_CardinalityType
  <2> QED BY <1>1, <2>3, <2>4
<1>3. ASSUME NEW x \in S, NEW y \in S, <<x, y>> \in R PROVE rank[x] < rank[y]
  <2>1. Below(x) \cup {x} \in SUBSET Below(y)
    BY <1>3 DEF Orders
  <2>2. Cardinality(Below(x) \cup {x}) = Cardinality(Below(x)) + 1
    BY <1>2, FS_AddElement DEF Orders
  <2>3. Cardinality(Below(x) \cup {x}) <= Cardinality(Below(y))
    BY <1>2, <2>1, FS_Subset
  <2> QED BY <1>2, <2>2, <2>3
<1>4. rank \in [S -> 1..N]
  BY <1>2
<1> HIDE DEF rank, Below
<1>5. ASSUME NEW x \in S, NEW y \in S, rank[x] = rank[y] PROVE x = y
  <2>1. rank[x] \in Int /\ rank[y] \in Int
    BY <1>4
  <2>2. ~(<<x, y>> \in R) /\ ~(<<y, x>> \in R)
    BY <1>3, <1>5, <2>1
  <2> QED BY <2>2 DEF Orders
<1>6. rank \in Surjection(S, 1..N)
  <2>1. rank \in Injection(S, 1..N)
    BY <1>4, <1>5 DEF Injection, IsInjective
  <2> QED BY <1>1, <2>1, FS_Injection
<1> DEFINE s == [n \in 1..N |-> CHOOSE x \in S : rank[x] = n]
<1>7. \A n \in 1..N : s[n] \in S /\ rank[s[n]] = n
  BY <1>6 DEF Surjection
<1>8. s \in [1..N -> S]
  BY <1>7
<1>9. ASSUME NEW m \in 1..N, NEW n \in 1..N, m < n PROVE <<s[m], s[n]>> \in R
  <2>1. s[m] \in S /\ s[n] \in S /\ rank[s[m]] = m /\ rank[s[n]] = n
    BY <1>7
  <2> HIDE DEF s
  <2>2. ~(<<s[n], s[m]>> \in R)
    BY <1>1, <1>3, <1>9, <2>1
  <2> QED BY <1>1, <1>9, <2>1, <2>2 DEF Orders
<1>10. ASSUME NEW x \in S PROVE \E n \in 1..N : s[n] = x
  <2>1. rank[x] \in 1..N
    BY <1>4
  <2>2. s[rank[x]] = x
    BY <1>5, <1>7, <2>1
  <2> QED BY <2>1, <2>2
<1> HIDE DEF s
<1> QED BY <1>8, <1>9, <1>10 DEF Lists

\* whatever runs through S in its order, as long as S, is its listing
LEMMA Increasing ==
  ASSUME NEW S, IsFiniteSet(S), NEW R, Orders(R, S),
         NEW s \in [1..Cardinality(S) -> S],
         \A m, n \in 1..Cardinality(S) : m < n => <<s[m], s[n]>> \in R
  PROVE  Lists(s, S, R)
<1> DEFINE N == Cardinality(S)
<1>1. N \in Nat /\ IsFiniteSet(1..N) /\ Cardinality(1..N) = N
  BY FS_CardinalityType, FS_Interval
<1>2. ASSUME NEW m \in 1..N, NEW n \in 1..N, s[m] = s[n] PROVE m = n
  <2>1. ~(<<s[m], s[n]>> \in R) /\ ~(<<s[n], s[m]>> \in R)
    BY <1>2 DEF Orders
  <2> QED BY <1>1, <2>1
<1>3. s \in Injection(1..N, S)
  BY <1>2 DEF Injection, IsInjective
<1>4. s \in Surjection(1..N, S)
  BY <1>1, <1>3, FS_Injection
<1> QED BY <1>4 DEF Lists, Surjection

\* every non-empty set of naturals has a least element
LEMMA LeastNatural ==
  ASSUME NEW S, S \subseteq Nat, S # {}
  PROVE  \E x \in S : \A y \in S : x <= y
<1> DEFINE R == OpToRel(<, Nat)
<1>1. IsWellFoundedOn(R, Nat)
  BY NatLessThanWellFounded
<1>2. \A x, y \in Nat : x < y => <<x, y>> \in R
  BY DEF OpToRel
<1> HIDE DEF R
<1>3. PICK x \in S : \A y \in S : ~(<<y, x>> \in R)
  BY <1>1, WFMin
<1>4. ASSUME NEW y \in S PROVE x <= y
  <2>1. x \in Nat /\ y \in Nat
    OBVIOUS
  <2>2. ~(y < x)
    BY <1>2, <1>3, <2>1
  <2> QED BY <2>1, <2>2
<1> QED BY <1>4

\* a non-empty set of naturals with a bound has a greatest element
LEMMA GreatestNatural ==
  ASSUME NEW S, S \subseteq Nat, S # {}, NEW n \in Nat, \A x \in S : x <= n
  PROVE  \E x \in S : \A y \in S : y <= x
<1> DEFINE T == {n - x : x \in S}
<1>1. T \subseteq Nat
  <2>1. ASSUME NEW x \in S PROVE n - x \in Nat
    <3>1. x \in Nat /\ x <= n
      OBVIOUS
    <3> QED BY <3>1
  <2> QED BY <2>1
<1>2. T # {}
  OBVIOUS
<1>3. PICK t \in T : \A u \in T : t <= u
  <2> HIDE DEF T
  <2> QED BY <1>1, <1>2, LeastNatural
<1>4. PICK x \in S : t = n - x
  OBVIOUS
<1>5. ASSUME NEW y \in S PROVE y <= x
  <2>1. n - x <= n - y
    BY <1>3, <1>4
  <2>2. x \in Nat /\ y \in Nat
    OBVIOUS
  <2> QED BY <2>1, <2>2
<1> QED BY <1>5

\* ... and so has a finite one
LEMMA GreatestOfFinite ==
  ASSUME NEW S, S \subseteq Nat, S # {}, IsFiniteSet(S)
  PROVE  \E x \in S : \A y \in S : y <= x
<1> DEFINE R == {p \in S \X S : p[2] < p[1]}
<1>1. PICK s : Lists(s, S, R)
  <2>1. Orders(R, S)
    BY DEF Orders
  <2> HIDE DEF R
  <2> QED BY <2>1, Listing
<1>2. Cardinality(S) \in Nat /\ Cardinality(S) # 0
  BY FS_CardinalityType, FS_EmptySet
<1>3. s[1] \in S
  BY <1>1, <1>2 DEF Lists
<1>4. ASSUME NEW y \in S PROVE y <= s[1]
  <2>1. PICK n \in 1..Cardinality(S) : s[n] = y
    BY <1>1 DEF Lists
  <2>2. CASE n = 1
    BY <1>3, <2>1, <2>2
  <2>3. CASE n # 1
    <3>1. <<s[1], s[n]>> \in R
      BY <1>1, <1>2, <2>3 DEF Lists
    <3>2. y \in Nat /\ s[1] \in Nat
      BY <1>3
    <3> QED BY <2>1, <3>1, <3>2
  <2> QED BY <2>2, <2>3
<1> QED BY <1>3, <1>4

\* The elements of a finite set of naturals that fewer than H others exceed
\* are its latest H, or all of them.
LatestOf(S, H) == {y \in S : Cardinality({z \in S : z > y}) < H}
LEMMA Latest ==
  ASSUME NEW S, S \subseteq Nat, IsFiniteSet(S), NEW H \in Nat, H > 0,
         NEW W, W = LatestOf(S, H)
  PROVE  /\ IsFiniteSet(W) /\ Cardinality(W) <= H
         /\ W = S \/ Cardinality(W) = H
         /\ \A y \in W, z \in S \ W : z < y
<1> DEFINE Later(y) == {z \in S : z > y}
<1> USE DEF LatestOf
<1>1. ASSUME NEW y \in S PROVE Later(y) \in SUBSET S /\ IsFiniteSet(Later(y))
                                /\ Cardinality(Later(y)) \in Nat
  <2>1. Later(y) \in SUBSET S
    OBVIOUS
  <2> HIDE DEF Later
  <2> QED BY <2>1, FS_Subset, FS_CardinalityType
<1>2. W \in SUBSET S /\ IsFiniteSet(W) /\ Cardinality(W) \in Nat
  <2>1. W \in SUBSET S
    OBVIOUS
  <2> QED BY <2>1, FS_Subset, FS_CardinalityType
<1>3. ASSUME NEW y \in W, NEW z \in S \ W PROVE z < y
  <2>1. Cardinality(Later(y)) < H /\ ~(Cardinality(Later(z)) < H) /\ y \in S
    BY <1>3
  <2>2. SUFFICES ASSUME z > y PROVE FALSE
    <3>1. y \in Nat /\ z \in Nat /\ y # z
      BY <2>1
    <3> QED BY <2>2, <3>1
  <2>3. Later(z) \in SUBSET Later(y)
    <3>1. ASSUME NEW x \in S, x > z PROVE x > y
      <4>1. x \in Nat /\ y \in Nat /\ z \in Nat
        BY <2>1
      <4> QED BY <2>2, <3>1, <4>1
    <3> QED BY <3>1
  <2> HIDE DEF Later
  <2>4. Cardinality(Later(z)) <= Cardinality(Later(y))
    BY <1>1, <2>1, <2>3, FS_Subset
  <2> QED BY <1>1, <2>1, <2>4
<1>4. Cardinality(W) <= H
  <2>1. CASE W = {}
    <3>1. Cardinality(W) = 0
      BY <2>1, FS_EmptySet
    <3> QED BY <3>1
  <2>2. CASE W # {}
    <3>1. PICK m \in W : \A y \in W : m <= y
      BY <1>2, <2>2, LeastNatural
    <3>2. W \ {m} \in SUBSET Later(m) /\ Cardinality(Later(m)) < H /\ m \in S
      <4>1. ASSUME NEW y \in W \ {m} PROVE y > m
        <5>1. y \in Nat /\ m \in Nat /\ m <= y /\ y # m
          BY <1>2, <3>1
        <5> QED BY <5>1
      <4> QED BY <4>1, <1>2
    <3> HIDE DEF Later
    <3>3. Cardinality(W \ {m}) <= Cardinality(Later(m))
      BY <1>1, <3>2, FS_Subset
    <3>4. Cardinality(W \ {m}) = Cardinality(W) - 1
      BY <1>2, FS_RemoveElement
    <3> QED BY <1>1, <1>2, <3>2, <3>3, <3>4
  <2> QED BY <2>1, <2>2
<1>5. CASE W # S
  <2> DEFINE n == Cardinality(S)
             R == S \ W
  <2>1. R \subseteq Nat /\ R # {} /\ IsFiniteSet(R)
    BY <1>2, <1>5, FS_Difference
  <2>2. PICK z \in R : \A y \in R : y <= z
    <3>1. PICK r \in R : TRUE
      BY <2>1
    <3> QED BY <2>1, GreatestOfFinite
  <2>3. Later(z) \in SUBSET W /\ ~(Cardinality(Later(z)) < H) /\ z \in S
    <3>1. ASSUME NEW y \in S, y > z PROVE y \in W
      <4>1. y \in Nat /\ z \in Nat
        OBVIOUS
      <4> QED BY <2>2, <3>1, <4>1
    <3> QED BY <3>1
  <2> HIDE DEF Later
  <2>4. Cardinality(Later(z)) <= Cardinality(W)
    BY <1>2, <2>3, FS_Subset
  <2> QED BY <1>1, <1>2, <1>3, <1>4, <2>3, <2>4
<1> QED BY <1>2, <1>3, <1>4, <1>5
-----------------------------------------------------------------------------
(* sums *)

\* the element a fold over s takes first
Some(s) == CHOOSE x \in s : TRUE
\* s without its element x
Without(s, x) == s \ {x}

\* f is the running sum of v over the subsets of S, as MapThenFoldSet has it
Sums(f, v, S) ==
  f = [s \in SUBSET S |-> IF s = {} THEN 0 ELSE v[Some(s)] + f[s \ {Some(s)}]]

\* it is one of the elements
LEMMA SomeOf == ASSUME NEW s, s # {} PROVE Some(s) \in s
BY DEF Some

\* such a function exists, though it is defined by itself
LEMMA SumExists ==
  ASSUME NEW S, IsFiniteSet(S), NEW v
  PROVE  \E f : Sums(f, v, S)
<1> DEFINE Val(f, s) == IF s = {} THEN 0 ELSE v[Some(s)] + f[s \ {Some(s)}]
           Upto(f, n) == \A s \in SUBSET S : Cardinality(s) < n => f[s] = Val(f, s)
           Good(n) == \E f : f = [s \in SUBSET S |-> f[s]] /\ Upto(f, n)
           Bad == {n \in Nat : ~Good(n)}
<1>1. \A s \in SUBSET S : IsFiniteSet(s) /\ Cardinality(s) \in Nat /\ (Cardinality(s) = 0 <=> s = {})
  BY FS_Subset, FS_CardinalityType, FS_EmptySet
<1>2. ASSUME NEW s \in SUBSET S, s # {}
      PROVE  s \ {Some(s)} \in SUBSET S /\ Cardinality(s \ {Some(s)}) = Cardinality(s) - 1
  BY <1>1, <1>2, SomeOf, FS_RemoveElement
<1>3. Good(0)
  <2> DEFINE f == [s \in SUBSET S |-> 0]
  <2>1. f = [s \in SUBSET S |-> f[s]]
    OBVIOUS
  <2>2. Upto(f, 0)
    BY <1>1
  <2> HIDE DEF f
  <2> QED BY <2>1, <2>2
<1>4. ASSUME NEW n \in Nat, Good(n) PROVE Good(n + 1)
  <2>1. PICK f : f = [s \in SUBSET S |-> f[s]] /\ Upto(f, n)
    BY <1>4
  <2> DEFINE g == [s \in SUBSET S |-> IF Cardinality(s) < n THEN f[s] ELSE Val(f, s)]
  <2>2. g = [s \in SUBSET S |-> g[s]]
    OBVIOUS
  <2>3. ASSUME NEW s \in SUBSET S, Cardinality(s) < n + 1 PROVE g[s] = Val(g, s)
    <3>1. g[s] = Val(f, s)
      BY <2>1
    <3>2. s # {} => g[s \ {Some(s)}] = f[s \ {Some(s)}]
      BY <1>1, <1>2, <2>3
    <3> QED BY <3>1, <3>2
  <2>4. Upto(g, n + 1)
    BY <2>3
  <2> HIDE DEF g, Upto
  <2> QED BY <2>2, <2>4
<1>5. \A n \in Nat : Good(n)
  <2> HIDE DEF Good
  <2>1. SUFFICES ASSUME Bad # {} PROVE FALSE
    OBVIOUS
  <2>2. PICK n \in Bad : \A m \in Bad : n <= m
    BY <2>1, LeastNatural
  <2>3. n \in Nat /\ n # 0 /\ ~Good(n)
    BY <1>3
  <2>4. n - 1 \in Nat /\ n - 1 \notin Bad
    BY <2>2, <2>3
  <2>5. Good((n - 1) + 1)
    BY <1>4, <2>4
  <2> QED BY <2>3, <2>5
<1>6. PICK f : f = [s \in SUBSET S |-> f[s]] /\ Upto(f, Cardinality(S) + 1)
  <2>1. S \in SUBSET S
    OBVIOUS
  <2>2. Cardinality(S) + 1 \in Nat
    BY <1>1, <2>1
  <2>3. Good(Cardinality(S) + 1)
    <3> HIDE DEF Good
    <3> QED BY <1>5, <2>2
  <2> QED BY <2>3
<1>7. ASSUME NEW s \in SUBSET S PROVE f[s] = Val(f, s)
  <2>1. Cardinality(s) <= Cardinality(S)
    BY FS_Subset
  <2>2. Cardinality(s) < Cardinality(S) + 1
    BY <1>1, <2>1
  <2> QED BY <1>6, <2>2
<1>8. f = [s \in SUBSET S |-> Val(f, s)]
  BY <1>6, <1>7
<1> QED BY <1>8 DEF Sums

\* what a sum is
Adds(f, v, S) ==
  /\ f[{}] = 0
  /\ \A s \in SUBSET S : f[s] \in Int
  /\ \A s \in SUBSET S : \A x \in s : f[s] = v[x] + f[Without(s, x)]

\* the order in which the elements are added up does not matter
LEMMA SumIs ==
  ASSUME NEW S, IsFiniteSet(S), NEW v, \A x \in S : v[x] \in Int, NEW f, Sums(f, v, S)
  PROVE  Adds(f, v, S)
<1> DEFINE Good(s) == f[s] \in Int /\ \A x \in s : f[s] = v[x] + f[s \ {x}]
           Bad == {n \in Nat : \E s \in SUBSET S : Cardinality(s) = n /\ ~Good(s)}
<1>1. \A s \in SUBSET S : IsFiniteSet(s) /\ Cardinality(s) \in Nat
  BY FS_Subset, FS_CardinalityType
<1>2. \A s \in SUBSET S : f[s] = IF s = {} THEN 0 ELSE v[Some(s)] + f[s \ {Some(s)}]
  BY DEF Sums
<1>3. f[{}] = 0
  BY <1>2
<1>4. ASSUME NEW s \in SUBSET S, NEW x \in s
      PROVE  s \ {x} \in SUBSET S /\ Cardinality(s \ {x}) < Cardinality(s)
  <2>1. Cardinality(s \ {x}) = Cardinality(s) - 1
    BY <1>1, FS_RemoveElement
  <2> QED BY <1>1, <2>1
<1>5. Bad = {}
  <2>1. SUFFICES ASSUME Bad # {} PROVE FALSE
    OBVIOUS
  <2>2. PICK n \in Bad : \A m \in Bad : n <= m
    BY <2>1, LeastNatural
  <2>3. PICK s \in SUBSET S : Cardinality(s) = n /\ ~Good(s)
    OBVIOUS
  <2>4. \A t \in SUBSET S : Cardinality(t) < Cardinality(s) => Good(t)
    BY <1>1, <2>2, <2>3
  <2> HIDE DEF Bad
  <2>5. s # {}
    BY <1>3, <2>3
  <2> DEFINE y == Some(s)
  <2>6. y \in s /\ y \in S
    BY <2>5, SomeOf
  <2>7. f[s] = v[y] + f[s \ {y}]
    BY <1>2, <2>5
  <2> HIDE DEF y
  <2>8. f[s] \in Int
    BY <1>4, <2>4, <2>6, <2>7
  <2>9. ASSUME NEW x \in s PROVE f[s] = v[x] + f[s \ {x}]
    <3>1. CASE x = y
      BY <2>7, <3>1
    <3>2. CASE x # y
      <4> DEFINE t == (s \ {x}) \ {y}
      <4>1. (s \ {y}) \ {x} = t
        OBVIOUS
      <4>2. s \ {x} \in SUBSET S /\ s \ {y} \in SUBSET S /\ y \in s \ {x} /\ x \in s \ {y}
        BY <2>6, <3>2
      <4>3. Good(s \ {x}) /\ Good(s \ {y})
        BY <1>4, <2>4, <2>6
      <4>4. f[s \ {x}] = v[y] + f[t]
        BY <4>2, <4>3
      <4>5. f[s \ {y}] = v[x] + f[t]
        BY <4>1, <4>2, <4>3
      <4>6. t \in SUBSET S /\ f[t] \in Int
        <5>1. Cardinality(t) < Cardinality(s \ {x}) /\ Cardinality(s \ {x}) < Cardinality(s)
              /\ t \in SUBSET S
          BY <1>4, <4>2
        <5>2. Cardinality(t) < Cardinality(s)
          BY <1>1, <4>2, <5>1
        <5> QED BY <2>4, <5>1, <5>2
      <4>7. v[x] \in Int /\ v[y] \in Int
        BY <2>6
      <4> HIDE DEF t, Good
      <4> QED BY <2>7, <4>4, <4>5, <4>6, <4>7
    <3> QED BY <3>1, <3>2
  <2> QED BY <2>3, <2>8, <2>9
<1>6. \A s \in SUBSET S : Good(s)
  <2> HIDE DEF Good
  <2> QED BY <1>1, <1>5
<1> QED BY <1>3, <1>6 DEF Adds, Without

\* differences of neighbours add up to the difference of the ends
LEMMA Telescope ==
  ASSUME NEW N \in Nat, N > 0, NEW S, S = 2..N, NEW v, NEW w, NEW f, Sums(f, v, S),
         \A n \in 1..N : w[n] \in Int, \A n \in S : v[n] = w[n] - w[n - 1]
  PROVE  f[S] = w[N] - w[1]
<1> DEFINE Good(m) == f[2..m] = w[m] - w[1]
           Bad == {m \in Nat : m \in 1..N /\ ~Good(m)}
<1>1. IsFiniteSet(S)
  BY FS_Interval
<1>2. \A n \in S : n \in 1..N /\ n - 1 \in 1..N /\ n \in Nat
  OBVIOUS
<1>3. \A n \in S : v[n] \in Int
  BY <1>2
<1>4. /\ f[{}] = 0
      /\ \A s \in SUBSET S : f[s] \in Int
      /\ \A s \in SUBSET S : \A x \in s : f[s] = v[x] + f[Without(s, x)]
  <2>1. Adds(f, v, S)
    <3> HIDE DEF Good, Bad
    <3> QED BY <1>1, <1>3, SumIs, Zenon
  <2> QED BY <2>1 DEF Adds
<1>5. Good(1)
  <2>1. 2..1 = {}
    OBVIOUS
  <2>2. w[1] \in Int
    OBVIOUS
  <2> QED BY <1>4, <2>1, <2>2
<1>6. ASSUME NEW m \in 1..N, m # 1, Good(m - 1) PROVE Good(m)
  <2>1. m \in Nat /\ m >= 2 /\ m <= N
    BY <1>6
  <2>2. 2..m \in SUBSET S /\ m \in 2..m /\ Without(2..m, m) = 2..(m - 1) /\ m \in S
    BY <2>1 DEF Without
  <2>3. f[2..m] = v[m] + f[2..(m - 1)]
    BY <1>4, <2>2
  <2>4. v[m] = w[m] - w[m - 1] /\ w[m] \in Int /\ w[m - 1] \in Int /\ w[1] \in Int
    BY <1>2, <2>2
  <2> QED BY <1>6, <2>3, <2>4
<1>7. Good(N)
  <2> HIDE DEF Good
  <2>1. SUFFICES ASSUME Bad # {} PROVE FALSE
    OBVIOUS
  <2>2. PICK m \in Bad : \A k \in Bad : m <= k
    BY <2>1, LeastNatural
  <2>3. m \in 1..N /\ m # 1 /\ ~Good(m)
    BY <1>5
  <2>4. m - 1 \in Nat /\ m - 1 \in 1..N /\ ~(m <= m - 1)
    BY <2>3
  <2>5. m - 1 \notin Bad
    BY <2>2, <2>4
  <2> QED BY <1>6, <2>3, <2>4, <2>5
<1> QED BY <1>7
=============================================================================
