----------------------------- MODULE SumLemmas -----------------------------
(***************************************************************************)
(* Sums over finite sets.  MapThenSumSet is defined with a function that   *)
(* is recursive over the subsets of the set; what it computes is shown by  *)
(* least counterexample on the sizes of the subsets: the function exists,  *)
(* is unique, and so the sum of a set is any element's term plus the sum   *)
(* of the rest.  At the end, what the solver does not know of products of  *)
(* numbers that are not literals.                                          *)
(***************************************************************************)
EXTENDS Integers, FiniteSetsExt, FiniteSetTheorems, WellFoundedInduction, TLAPS

Sum(g, S) == MapThenSumSet(LAMBDA x : g[x], S)

Term(g, f, s) == IF s = {} THEN 0
                 ELSE LET x == CHOOSE x \in s : TRUE IN g[x] + f[s \ {x}]
Adds(g, f, S) == f = [s \in SUBSET S |-> Term(g, f, s)]

(* The library's definition of the sum, with its function named. *)
LEMMA SumUnfold ==
    ASSUME NEW g, NEW S
    PROVE  Sum(g, S) = (CHOOSE f : Adds(g, f, S))[S]
BY Zenon DEF Sum, MapThenSumSet, MapThenFoldSet, Adds, Term

(* A non-empty set of naturals has a least element (from the library's WFMin). *)
LEMMA LeastNat ==
    ASSUME NEW T, T \subseteq Nat, T # {}
    PROVE  \E m \in T : \A k \in T : k >= m
<1> DEFINE R == {ss \in Nat \X Nat : ss[1] < ss[2]}
<1>1. IsWellFoundedOn(R, Nat)
  BY NatLessThanWellFounded, Zenon DEF OpToRel
<1>2. PICK m \in T : \A k \in T : ~(<<k, m>> \in R)
  <2> HIDE DEF R
  <2> QED BY <1>1, WFMin
<1>3. \A k \in T : ~(k < m)
  BY <1>2
<1> QED BY <1>3

(* CHOOSE takes an element of a set that has one. *)
LEMMA PickOne == ASSUME NEW s, s # {} PROVE (CHOOSE x \in s : TRUE) \in s
BY Zenon

(* Removing an element makes a finite set smaller by one. *)
LEMMA FewerLeft ==
    ASSUME NEW s, IsFiniteSet(s), NEW x \in s
    PROVE  /\ IsFiniteSet(s \ {x}) /\ Cardinality(s \ {x}) \in Nat
           /\ Cardinality(s) \in Nat /\ Cardinality(s \ {x}) = Cardinality(s) - 1
BY FS_RemoveElement, FS_CardinalityType

(* The recursive function of the sum exists: a least subset without one has one after all. *)
LEMMA AddsExists ==
    ASSUME NEW g, NEW S, IsFiniteSet(S)
    PROVE  \E f : Adds(g, f, S)
<1> DEFINE Upto(f, n) == \A s \in SUBSET S : Cardinality(s) <= n => f[s] = Term(g, f, s)
           Bad == {n \in Nat : \A f : f = [s \in SUBSET S |-> f[s]] => ~Upto(f, n)}
<1>0. \A s \in SUBSET S : IsFiniteSet(s) /\ Cardinality(s) \in Nat /\ (Cardinality(s) = 0 => s = {})
  BY FS_Subset, FS_CardinalityType, FS_EmptySet
<1>1. Bad = {}
  <2> SUFFICES ASSUME Bad # {} PROVE FALSE
    OBVIOUS
  <2>1. PICK m \in Bad : \A k \in Bad : k >= m
    <3> HIDE DEF Bad
    <3>1. Bad \subseteq Nat
      BY DEF Bad
    <3> QED BY <3>1, LeastNat
  <2>2. CASE m = 0
    <3> DEFINE z == [s \in SUBSET S |-> 0]
    <3>1. \A s \in SUBSET S : Cardinality(s) <= 0 => s = {}
      BY <1>0
    <3>2. Upto(z, 0)
      BY <3>1 DEF Term
    <3>3. z = [s \in SUBSET S |-> z[s]]
      OBVIOUS
    <3> HIDE DEF z
    <3> QED BY <2>2, <3>2, <3>3
  <2>3. CASE m # 0
    <3>1. m \in Nat /\ m - 1 \in Nat /\ m - 1 \notin Bad
      <4>1. m \in Nat
        OBVIOUS
      <4> HIDE DEF Bad
      <4> QED BY <2>1, <2>3, <4>1
    <3>2. PICK f : f = [s \in SUBSET S |-> f[s]] /\ Upto(f, m - 1)
      BY <3>1
    <3> DEFINE h == [s \in SUBSET S |-> IF Cardinality(s) = m THEN Term(g, f, s) ELSE f[s]]
    <3>3. ASSUME NEW s \in SUBSET S, Cardinality(s) <= m PROVE h[s] = Term(g, h, s)
      <4>1. CASE s = {}
        <5>1. Cardinality(s) = 0
          BY <4>1, FS_EmptySet
        <5>2. h[s] = f[s] /\ Cardinality(s) <= m - 1
          BY <5>1, <2>3, <3>1
        <5> QED BY <5>2, <3>2, <4>1 DEF Term
      <4>2. CASE s # {}
        <5> DEFINE x == CHOOSE x \in s : TRUE
        <5>1. x \in s
          BY <4>2, PickOne
        <5> HIDE DEF x
        <5>2. /\ Cardinality(s \ {x}) = Cardinality(s) - 1 /\ Cardinality(s) \in Nat
              /\ s \ {x} \in SUBSET S
          BY <5>1, <1>0, FewerLeft
        <5>3. h[s \ {x}] = f[s \ {x}]
          BY <5>2, <3>3, <3>1
        <5>4. Term(g, h, s) = Term(g, f, s)
          BY <5>3, <4>2 DEF Term, x
        <5>5. h[s] = Term(g, f, s)
          <6>1. CASE Cardinality(s) = m
            BY <6>1
          <6>2. CASE Cardinality(s) # m
            <7>1. h[s] = f[s] /\ Cardinality(s) <= m - 1
              BY <6>2, <5>2, <3>1, <3>3
            <7> QED BY <7>1, <3>2
          <6> QED BY <6>1, <6>2
        <5> QED BY <5>4, <5>5
      <4> QED BY <4>1, <4>2
    <3>4. Upto(h, m) /\ h = [s \in SUBSET S |-> h[s]]
      BY <3>3
    <3> HIDE DEF h
    <3> QED BY <3>4
  <2> QED BY <2>2, <2>3
<1>2. PICK f : f = [s \in SUBSET S |-> f[s]] /\ Upto(f, Cardinality(S))
  BY <1>0, <1>1
<1>3. \A s \in SUBSET S : f[s] = Term(g, f, s)
  BY <1>2, FS_Subset
<1> QED BY <1>2, <1>3, Zenon DEF Adds

(* So the sum is the value of a function that satisfies the recursion. *)
LEMMA SumEq ==
    ASSUME NEW g, NEW S, IsFiniteSet(S)
    PROVE  \E f : Adds(g, f, S) /\ Sum(g, S) = f[S]
BY SumUnfold, AddsExists

(* Two such functions agree on the subsets that both are defined on. *)
LEMMA AddsUnique ==
    ASSUME NEW g, NEW S, NEW f, Adds(g, f, S), NEW T, T \subseteq S, NEW h, Adds(g, h, T),
           IsFiniteSet(S)
    PROVE  \A s \in SUBSET T : f[s] = h[s]
<1> DEFINE Bad == {n \in Nat : \E s \in SUBSET T : Cardinality(s) = n /\ f[s] # h[s]}
<1>1. \A s \in SUBSET T : IsFiniteSet(s) /\ Cardinality(s) \in Nat
  BY FS_Subset, FS_CardinalityType
<1>2. Bad = {}
  <2> SUFFICES ASSUME Bad # {} PROVE FALSE
    OBVIOUS
  <2>1. PICK m \in Bad : \A k \in Bad : k >= m
    <3> HIDE DEF Bad
    <3>1. Bad \subseteq Nat
      BY DEF Bad
    <3> QED BY <3>1, LeastNat
  <2>2. PICK s \in SUBSET T : Cardinality(s) = m /\ f[s] # h[s]
    BY <2>1
  <2>3. f[s] = Term(g, f, s) /\ h[s] = Term(g, h, s)
    BY <2>2 DEF Adds
  <2>4. s # {}
    BY <2>2, <2>3 DEF Term
  <2> DEFINE x == CHOOSE x \in s : TRUE
  <2>5. x \in s
    BY <2>4, PickOne
  <2> HIDE DEF x
  <2>6. s \ {x} \in SUBSET T /\ Cardinality(s \ {x}) \in Nat /\ Cardinality(s \ {x}) < m
    BY <2>2, <2>5, <1>1, FewerLeft
  <2>7. f[s \ {x}] = h[s \ {x}]
    BY <2>1, <2>6
  <2> QED BY <2>2, <2>3, <2>4, <2>7 DEF Term, x
<1> QED BY <1>1, <1>2

(* Nothing adds up to 0. *)
LEMMA SumEmpty == ASSUME NEW g PROVE Sum(g, {}) = 0
<1>1. PICK f : Adds(g, f, {}) /\ Sum(g, {}) = f[{}]
  BY SumEq, FS_EmptySet
<1> QED BY <1>1 DEF Adds, Term

(* The sum is some element's term plus the sum of the rest. *)
LEMMA SumStep ==
    ASSUME NEW g, NEW S, IsFiniteSet(S), S # {}
    PROVE  \E x \in S : Sum(g, S) = g[x] + Sum(g, S \ {x})
<1> DEFINE x == CHOOSE x \in S : TRUE
<1>1. x \in S
  BY PickOne
<1>2. PICK f : Adds(g, f, S) /\ Sum(g, S) = f[S]
  BY SumEq
<1>3. f[S] = g[x] + f[S \ {x}]
  <2>1. f[S] = Term(g, f, S)
    BY <1>2 DEF Adds
  <2> QED BY <2>1 DEF Term
<1> HIDE DEF x
<1>4. PICK h : Adds(g, h, S \ {x}) /\ Sum(g, S \ {x}) = h[S \ {x}]
  BY SumEq, FewerLeft, <1>1
<1>5. f[S \ {x}] = h[S \ {x}]
  BY <1>2, <1>4, AddsUnique
<1> QED BY <1>1, <1>2, <1>3, <1>4, <1>5

(* Naturals add up to a natural. *)
LEMMA SumNat ==
    ASSUME NEW g, NEW S, IsFiniteSet(S), \A x \in S : g[x] \in Nat
    PROVE  Sum(g, S) \in Nat
<1> DEFINE Bad == {n \in Nat : \E s \in SUBSET S : Cardinality(s) = n /\ Sum(g, s) \notin Nat}
<1>1. \A s \in SUBSET S : IsFiniteSet(s) /\ Cardinality(s) \in Nat
  BY FS_Subset, FS_CardinalityType
<1>2. Bad = {}
  <2> SUFFICES ASSUME Bad # {} PROVE FALSE
    OBVIOUS
  <2>1. PICK m \in Bad : \A k \in Bad : k >= m
    <3> HIDE DEF Bad
    <3>1. Bad \subseteq Nat
      BY DEF Bad
    <3> QED BY <3>1, LeastNat
  <2>2. PICK s \in SUBSET S : Cardinality(s) = m /\ Sum(g, s) \notin Nat
    BY <2>1
  <2>3. s # {}
    BY <2>2, SumEmpty
  <2>4. PICK x \in s : Sum(g, s) = g[x] + Sum(g, s \ {x})
    BY <1>1, <2>3, SumStep
  <2>5. s \ {x} \in SUBSET S /\ Cardinality(s \ {x}) \in Nat /\ Cardinality(s \ {x}) < m
    BY <2>2, <1>1, FewerLeft
  <2>6. Sum(g, s \ {x}) \in Nat
    BY <2>1, <2>5
  <2>7. g[x] \in Nat
    OBVIOUS
  <2> QED BY <2>2, <2>4, <2>6, <2>7
<1> QED BY <1>1, <1>2

(* The element may be any: the order of addition does not matter. *)
LEMMA SumRemove ==
    ASSUME NEW g, NEW S, IsFiniteSet(S), \A x \in S : g[x] \in Nat
    PROVE  \A x \in S : Sum(g, S) = g[x] + Sum(g, S \ {x})
<1> DEFINE Good(s) == \A x \in s : Sum(g, s) = g[x] + Sum(g, s \ {x})
           Bad == {n \in Nat : \E s \in SUBSET S : Cardinality(s) = n /\ ~Good(s)}
<1>1. \A s \in SUBSET S : IsFiniteSet(s) /\ Cardinality(s) \in Nat
  BY FS_Subset, FS_CardinalityType
<1>2. Bad = {}
  <2> SUFFICES ASSUME Bad # {} PROVE FALSE
    OBVIOUS
  <2>1. PICK m \in Bad : \A k \in Bad : k >= m
    <3> HIDE DEF Bad
    <3>1. Bad \subseteq Nat
      BY DEF Bad
    <3> QED BY <3>1, LeastNat
  <2>2. PICK s \in SUBSET S : Cardinality(s) = m /\ ~Good(s)
    BY <2>1
  <2>3. \A t \in SUBSET S : Cardinality(t) < m => Good(t)
    <3> HIDE DEF Good
    <3> QED BY <2>1, <1>1
  <2>4. PICK x \in s : Sum(g, s) # g[x] + Sum(g, s \ {x})
    BY <2>2
  <2>5. PICK y \in s : Sum(g, s) = g[y] + Sum(g, s \ {y})
    BY <1>1, <2>4, SumStep
  <2>6. x # y
    BY <2>4, <2>5
  <2>7. /\ s \ {x} \in SUBSET S /\ Cardinality(s \ {x}) < m
        /\ s \ {y} \in SUBSET S /\ Cardinality(s \ {y}) < m
    BY <2>2, <1>1, FewerLeft
  <2>8. /\ Sum(g, s \ {x}) = g[y] + Sum(g, (s \ {x}) \ {y})
        /\ Sum(g, s \ {y}) = g[x] + Sum(g, (s \ {y}) \ {x})
    BY <2>3, <2>6, <2>7
  <2>9. (s \ {x}) \ {y} = (s \ {y}) \ {x}
    OBVIOUS
  <2>10. Sum(g, (s \ {x}) \ {y}) \in Nat
    <3>1. IsFiniteSet((s \ {x}) \ {y})
      BY <1>1
    <3> QED BY <3>1, SumNat
  <2>11. g[x] \in Nat /\ g[y] \in Nat
    OBVIOUS
  <2>12. PICK a \in Nat, b \in Nat, z \in Nat :
            a = g[x] /\ b = g[y] /\ z = Sum(g, (s \ {x}) \ {y})
    BY <2>10, <2>11, Zenon
  <2>13. Sum(g, s \ {x}) = b + z /\ Sum(g, s \ {y}) = a + z
    BY <2>8, <2>9, <2>12, Zenon
  <2>14. g[y] + Sum(g, s \ {y}) = g[x] + Sum(g, s \ {x})
    <3>1. b + (a + z) = a + (b + z)
      OBVIOUS
    <3> QED BY <2>12, <2>13, <3>1, Zenon
  <2> QED BY <2>4, <2>5, <2>14, Zenon
<1>3. S \in SUBSET S /\ Cardinality(S) \in Nat
  BY <1>1
<1>4. Good(S)
  <2> HIDE DEF Good
  <2> QED BY <1>2, <1>3
<1> QED BY <1>4

(* The sum over 0 .. k is the last term and the sum over the others. *)
LEMMA SumTop ==
    ASSUME NEW g, NEW k \in Nat, \A x \in 0 .. k : g[x] \in Nat
    PROVE  Sum(g, 0 .. k) = g[k] + Sum(g, 0 .. (k - 1))
<1> DEFINE K == 0 .. k
<1>1. IsFiniteSet(K)
  <2>1. 0 \in Int /\ k \in Int
    OBVIOUS
  <2> QED BY <2>1, FS_Interval, Zenon
<1>2. k \in K /\ K \ {k} = 0 .. (k - 1)
  OBVIOUS
<1>3. \A x \in K : g[x] \in Nat
  OBVIOUS
<1> HIDE DEF K
<1>4. \A x \in K : Sum(g, K) = g[x] + Sum(g, K \ {x})
  BY <1>1, <1>3, SumRemove, ZenonT(30)
<1>5. Sum(g, K) = g[k] + Sum(g, 0 .. (k - 1))
  BY <1>2, <1>4, Zenon
<1> QED BY <1>5 DEF K

(* g gives each of n clients a share of q, and the first r of them one more. *)
Shares(g, q, r, n) ==
    /\ r <= n
    /\ \A c \in 0 .. (n - 1) : g[c] = q + (IF c < r THEN 1 ELSE 0)

(* These shares are n * q + r together. *)
LEMMA SumOfShares ==
    ASSUME NEW g, NEW q \in Nat, NEW r \in Nat, NEW n \in Nat, Shares(g, q, r, n)
    PROVE  Sum(g, 0 .. (n - 1)) = n * q + r
<1>0. r <= n /\ \A c \in 0 .. (n - 1) : g[c] = q + (IF c < r THEN 1 ELSE 0)
  BY DEF Shares
<1> DEFINE Share(k) == k * q + (IF k < r THEN k ELSE r)
           Bad == {k \in Nat : k <= n /\ Sum(g, 0 .. (k - 1)) # Share(k)}
<1>1. Bad = {}
  <2> SUFFICES ASSUME Bad # {} PROVE FALSE
    OBVIOUS
  <2>1. PICK m \in Bad : \A k \in Bad : k >= m
    <3> HIDE DEF Bad
    <3>1. Bad \subseteq Nat
      BY DEF Bad
    <3> QED BY <3>1, LeastNat
  <2>2. m \in Nat /\ m <= n /\ Sum(g, 0 .. (m - 1)) # Share(m)
    BY <2>1
  <2>3. m # 0
    <3>1. 0 .. (0 - 1) = {} /\ Share(0) = 0
      OBVIOUS
    <3> HIDE DEF Share
    <3> QED BY <2>2, <3>1, SumEmpty
  <2>4. PICK k \in Nat : m = k + 1
    BY <2>2, <2>3
  <2>5. Sum(g, 0 .. (k - 1)) = Share(k)
    <3>1. k \notin Bad
      <4> HIDE DEF Bad
      <4> QED BY <2>1, <2>2, <2>4
    <3> HIDE DEF Share
    <3> QED BY <3>1, <2>2, <2>4
  <2>6. Sum(g, 0 .. (m - 1)) = g[k] + Sum(g, 0 .. (k - 1))
    <3> HIDE DEF Bad, Share
    <3>1. ASSUME NEW x \in 0 .. k PROVE g[x] \in Nat
      <4>1. x \in 0 .. (n - 1)
        BY <2>2, <2>4
      <4> QED BY <1>0, <4>1
    <3>2. m - 1 = k
      BY <2>4
    <3> QED BY <3>1, <3>2, SumTop
  <2>7. g[k] = q + (IF k < r THEN 1 ELSE 0)
    BY <1>0, <2>2, <2>4
  <2>8. Share(m) = Share(k) + q + (IF k < r THEN 1 ELSE 0)
    <3>1. (k + 1) * q = k * q + q
      OBVIOUS
    <3> QED BY <3>1, <2>4
  <2>9. Share(k) \in Nat
    OBVIOUS
  <2> HIDE DEF Share
  <2> QED BY <2>2, <2>5, <2>6, <2>7, <2>8, <2>9
<1>2. Sum(g, 0 .. (n - 1)) = Share(n)
  <2> HIDE DEF Share
  <2> QED BY <1>1
<1> QED BY <1>0, <1>2

(* Only the terms of the set's own elements count. *)
LEMMA SumCong ==
    ASSUME NEW g, NEW h, NEW S, IsFiniteSet(S), \A x \in S : g[x] = h[x]
    PROVE  Sum(g, S) = Sum(h, S)
<1>1. PICK f : Adds(g, f, S) /\ Sum(g, S) = f[S]
  BY SumEq
<1>2. ASSUME NEW s \in SUBSET S PROVE Term(g, f, s) = Term(h, f, s)
  <2>1. CASE s = {}
    BY <2>1 DEF Term
  <2>2. CASE s # {}
    <3> DEFINE x == CHOOSE x \in s : TRUE
    <3>1. x \in S
      BY <2>2, PickOne
    <3> HIDE DEF x
    <3>2. g[x] = h[x]
      BY <3>1
    <3> QED BY <2>2, <3>2, Zenon DEF Term, x
  <2> QED BY <2>1, <2>2
<1>3. Adds(h, f, S)
  BY <1>1, <1>2 DEF Adds
<1>4. PICK k : Adds(h, k, S) /\ Sum(h, S) = k[S]
  BY SumEq
<1>5. f[S] = k[S]
  BY <1>3, <1>4, AddsUnique
<1> QED BY <1>1, <1>4, <1>5

(* A sum of zeros. *)
LEMMA SumZero ==
    ASSUME NEW g, NEW S, IsFiniteSet(S), \A x \in S : g[x] = 0
    PROVE  Sum(g, S) = 0
<1> DEFINE Bad == {n \in Nat : \E s \in SUBSET S : Cardinality(s) = n /\ Sum(g, s) # 0}
<1>1. \A s \in SUBSET S : IsFiniteSet(s) /\ Cardinality(s) \in Nat
  BY FS_Subset, FS_CardinalityType
<1>2. Bad = {}
  <2> SUFFICES ASSUME Bad # {} PROVE FALSE
    OBVIOUS
  <2>1. PICK m \in Bad : \A k \in Bad : k >= m
    <3> HIDE DEF Bad
    <3>1. Bad \subseteq Nat
      BY DEF Bad
    <3> QED BY <3>1, LeastNat
  <2>2. PICK s \in SUBSET S : Cardinality(s) = m /\ Sum(g, s) # 0
    BY <2>1
  <2>3. s # {}
    BY <2>2, SumEmpty
  <2>4. PICK x \in s : Sum(g, s) = g[x] + Sum(g, s \ {x})
    BY <1>1, <2>3, SumStep
  <2>5. s \ {x} \in SUBSET S /\ Cardinality(s \ {x}) \in Nat /\ Cardinality(s \ {x}) < m
    BY <2>2, <1>1, FewerLeft
  <2>6. Sum(g, s \ {x}) = 0
    BY <2>1, <2>5
  <2>7. g[x] = 0
    OBVIOUS
  <2> QED BY <2>2, <2>4, <2>6, <2>7
<1> QED BY <1>1, <1>2

(* Changing one term changes the sum by as much. *)
LEMMA SumUpdate ==
    ASSUME NEW g, NEW h, NEW S, IsFiniteSet(S), NEW y \in S,
           \A x \in S : g[x] \in Nat, \A x \in S : h[x] \in Nat,
           \A x \in S \ {y} : g[x] = h[x]
    PROVE  Sum(g, S) + h[y] = Sum(h, S) + g[y]
<1>1. IsFiniteSet(S \ {y})
  BY FewerLeft
<1>2. Sum(g, S) = g[y] + Sum(g, S \ {y})
  BY SumRemove
<1>3. Sum(h, S) = h[y] + Sum(h, S \ {y})
  BY SumRemove
<1>4. Sum(g, S \ {y}) = Sum(h, S \ {y})
  BY <1>1, SumCong, Zenon
<1>5. Sum(g, S \ {y}) \in Nat
  <2>1. \A x \in S \ {y} : g[x] \in Nat
    OBVIOUS
  <2> QED BY <1>1, <2>1, SumNat, Zenon
<1>6. g[y] \in Nat /\ h[y] \in Nat
  OBVIOUS
<1>7. PICK a \in Nat, b \in Nat, z \in Nat : a = g[y] /\ b = h[y] /\ z = Sum(g, S \ {y})
  BY <1>5, <1>6, Zenon
<1>8. Sum(g, S) = a + z /\ Sum(h, S) = b + z
  BY <1>2, <1>3, <1>4, <1>7, Zenon
<1>9. (a + z) + b = (b + z) + a
  OBVIOUS
<1> QED BY <1>7, <1>8, <1>9, Zenon

(* A sum of terms that are at most b. *)
LEMMA SumBound ==
    ASSUME NEW g, NEW S, IsFiniteSet(S), NEW b \in Nat, \A x \in S : g[x] \in 0 .. b
    PROVE  Sum(g, S) <= Cardinality(S) * b
<1> DEFINE Bad == {n \in Nat : \E s \in SUBSET S : Cardinality(s) = n /\ ~(Sum(g, s) <= n * b)}
<1>1. \A s \in SUBSET S : IsFiniteSet(s) /\ Cardinality(s) \in Nat
  BY FS_Subset, FS_CardinalityType
<1>2. Bad = {}
  <2> SUFFICES ASSUME Bad # {} PROVE FALSE
    OBVIOUS
  <2>1. PICK m \in Bad : \A k \in Bad : k >= m
    <3> HIDE DEF Bad
    <3>1. Bad \subseteq Nat
      BY DEF Bad
    <3> QED BY <3>1, LeastNat
  <2>2. PICK s \in SUBSET S : Cardinality(s) = m /\ ~(Sum(g, s) <= m * b)
    BY <2>1
  <2>3. s # {}
    <3> SUFFICES ASSUME s = {} PROVE FALSE
      OBVIOUS
    <3>1. Sum(g, s) = 0
      BY SumEmpty
    <3>2. m = 0
      BY <2>2, FS_EmptySet
    <3> QED BY <2>2, <3>1, <3>2
  <2>4. PICK x \in s : Sum(g, s) = g[x] + Sum(g, s \ {x})
    BY <1>1, <2>3, SumStep
  <2>5. PICK k \in Nat : k = Cardinality(s \ {x}) /\ m = k + 1
    <3>1. Cardinality(s \ {x}) \in Nat /\ Cardinality(s \ {x}) = m - 1 /\ m \in Nat
      BY <2>2, <1>1, FewerLeft
    <3> QED BY <3>1
  <2>6. s \ {x} \in SUBSET S /\ k < m
    BY <2>5
  <2>7. Sum(g, s \ {x}) <= k * b
    <3>1. k \notin Bad
      <4> HIDE DEF Bad
      <4> QED BY <2>1, <2>5, <2>6
    <3> QED BY <3>1, <2>5, <2>6
  <2>8. Sum(g, s \ {x}) \in Nat
    BY <1>1, <2>6, SumNat
  <2>9. g[x] \in Nat /\ g[x] <= b
    OBVIOUS
  <2>10. m * b = k * b + b /\ k * b \in Nat
    BY <2>5
  <2> QED BY <2>2, <2>4, <2>7, <2>8, <2>9, <2>10
<1> QED BY <1>1, <1>2
-----------------------------------------------------------------------------
(* Products, for the provers: their types, signs and the laws that the proofs use. *)

(* A product of naturals is a natural. *)
LEMMA NatTimes == \A x, y \in Nat : x * y \in Nat
OBVIOUS

(* A product of integers is an integer. *)
LEMMA IntTimes == \A x, y \in Int : x * y \in Int
OBVIOUS

(* Products distribute over sums and differences. *)
LEMMA Distribute == \A x, y, z \in Int : (x + y) * z = x * z + y * z /\ (x - y) * z = x * z - y * z
OBVIOUS

(* A larger factor makes a product no smaller. *)
LEMMA TimesMonotone == \A x, y \in Int, z \in Nat : x <= y => x * z <= y * z
OBVIOUS

(* A positive factor keeps the sign. *)
LEMMA TimesSign == \A x \in Int, z \in Nat : z > 0 => (x < 0 <=> x * z < 0)
OBVIOUS

(* Products are associative. *)
LEMMA TimesAssoc == \A x, y, z \in Int : (x * y) * z = x * (y * z)
OBVIOUS

(* Division rounds down by less than the divisor. *)
LEMMA DivisionRounds ==
    ASSUME NEW x \in Nat, NEW y \in Nat, y > 0
    PROVE  x \div y \in Nat /\ (x \div y) * y <= x /\ x < (x \div y) * y + y
OBVIOUS
=============================================================================
