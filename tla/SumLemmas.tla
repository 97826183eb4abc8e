------------------------------- MODULE SumLemmas -------------------------------
(***************************************************************************)
(* Sums of natural numbers over finite sets, for the proofs that count     *)
(* bytes or records.  MapThenSumSet takes the elements in an order of its  *)
(* own, which a proof must not depend on.  The inductions are on sets, by  *)
(* their least element: the provers cannot instantiate an induction rule   *)
(* that has an operator as a parameter.                                    *)
(***************************************************************************)
EXTENDS Naturals, FiniteSetsExt, FiniteSetTheorems, WellFoundedInduction, TLAPS

\* The induction principle in the form the provers can use: a set of numbers.
LEMMA LeastElement ==
  ASSUME NEW T \in SUBSET Nat, T # {}
  PROVE  \E n \in T : \A m \in T : n <= m
<1>1. PICK n \in T : \A m \in T : <<m, n>> \notin OpToRel(<, Nat)
  BY NatLessThanWellFounded, WFMin, Zenon
<1>2. \A m \in T : ~(m < n)
  BY <1>1 DEF OpToRel
<1> QED BY <1>2

\* The sum of b over S, and the order in which it is taken.
Total(b, S) == MapThenSumSet(LAMBDA x : b[x], S)
First(s) == CHOOSE x \in s : TRUE

\* g is a table of the sums of b over the subsets of S.
Table(g, b, S) ==
  /\ g \in [SUBSET S -> Nat]
  /\ \A s \in SUBSET S : g[s] = IF s = {} THEN 0 ELSE b[First(s)] + g[s \ {First(s)}]

LEMMA FirstIn == ASSUME NEW s, s # {} PROVE First(s) \in s
  BY Zenon DEF First

\* A family of subsets of a finite set has a least one: what the inductions
\* over subsets below rest on.
LEMMA SmallestSubset ==
  ASSUME NEW S, IsFiniteSet(S), NEW Q \in SUBSET (SUBSET S), Q # {}
  PROVE  \E s \in Q : \A r \in SUBSET s : r \in Q => r = s
<1> DEFINE T == {Cardinality(s) : s \in Q}
<1>1. \A s \in Q : IsFiniteSet(s) /\ Cardinality(s) \in Nat
  BY FS_Subset, FS_CardinalityType
<1>2. PICK n \in T : \A m \in T : n <= m
  <2>1. T \in SUBSET Nat /\ T # {}
    BY <1>1
  <2> HIDE DEF T
  <2> QED BY <2>1, LeastElement
<1>3. PICK s \in Q : n = Cardinality(s)
  OBVIOUS
<1>4. ASSUME NEW r \in SUBSET s, r \in Q PROVE r = s
  <2>1. Cardinality(r) >= Cardinality(s)
    BY <1>1, <1>2, <1>3, <1>4
  <2>2. Cardinality(r) <= Cardinality(s) /\ (Cardinality(r) = Cardinality(s) => r = s)
    BY <1>1, FS_Subset
  <2> QED BY <1>1, <1>4, <2>1, <2>2
<1> QED BY <1>3, <1>4

\* A table over the subsets with at most n elements gives one for n + 1.
LEMMA TableExists ==
  ASSUME NEW S, IsFiniteSet(S), NEW b \in [S -> Nat]
  PROVE  \E g : Table(g, b, S)
<1> DEFINE step(g) == [s \in SUBSET S |-> IF s = {} THEN 0 ELSE b[First(s)] + g[s \ {First(s)}]]
           Upto(g, n) == /\ g \in [SUBSET S -> Nat]
                         /\ \A s \in SUBSET S : Cardinality(s) <= n => g[s] = step(g)[s]
           T == {n \in Nat : ~ \E g : Upto(g, n)}
<1>1. \A s \in SUBSET S : IsFiniteSet(s) /\ Cardinality(s) \in Nat
  BY FS_Subset, FS_CardinalityType
<1>2. \A s \in SUBSET S : s # {} => /\ First(s) \in S /\ s \ {First(s)} \in SUBSET S
                                    /\ Cardinality(s \ {First(s)}) = Cardinality(s) - 1
                                    /\ Cardinality(s) # 0
  BY <1>1, FirstIn, FS_RemoveElement, FS_EmptySet
<1>3. ASSUME NEW g \in [SUBSET S -> Nat] PROVE step(g) \in [SUBSET S -> Nat]
  <2>1. ASSUME NEW s \in SUBSET S, s # {} PROVE b[First(s)] + g[s \ {First(s)}] \in Nat
    <3>1. b[First(s)] \in Nat
      BY <1>2, <2>1
    <3>2. g[s \ {First(s)}] \in Nat
      BY <1>2, <2>1
    <3> QED BY <3>1, <3>2
  <2> QED BY <2>1
<1>4. ASSUME NEW n \in Nat, NEW g, Upto(g, n) PROVE Upto(step(g), n + 1)
  <2>1. step(g) \in [SUBSET S -> Nat]
    BY <1>3, <1>4
  <2>2. ASSUME NEW s \in SUBSET S, Cardinality(s) <= n + 1, s # {}
        PROVE  step(g)[s \ {First(s)}] = g[s \ {First(s)}]
    <3>1. Cardinality(s \ {First(s)}) <= n
      BY <1>1, <1>2, <2>2
    <3>2. s \ {First(s)} \in SUBSET S
      BY <1>2, <2>2
    <3> HIDE DEF step
    <3> QED BY <1>4, <3>1, <3>2
  <2>3. ASSUME NEW s \in SUBSET S, Cardinality(s) <= n + 1
        PROVE  step(g)[s] = step(step(g))[s]
    BY <2>2, <2>3
  <2> HIDE DEF step
  <2> QED BY <2>1, <2>3
<1>5. \E g : Upto(g, 0)
  <2> DEFINE z == [s \in SUBSET S |-> 0]
  <2>1. ASSUME NEW s \in SUBSET S, Cardinality(s) <= 0 PROVE s = {}
    <3>1. Cardinality(s) \in Nat /\ IsFiniteSet(s)
      BY <1>1
    <3>2. Cardinality(s) = 0
      BY <2>1, <3>1
    <3> QED BY <3>1, <3>2, FS_EmptySet
  <2>2. z \in [SUBSET S -> Nat]
    OBVIOUS
  <2>3. Upto(z, 0)
    BY <2>1, <2>2
  <2> HIDE DEF z, Upto
  <2> QED BY <2>3
<1>6. T = {}
  <2> HIDE DEF Upto
  <2> SUFFICES ASSUME T # {} PROVE FALSE
    OBVIOUS
  <2>1. PICK n \in T : \A m \in T : n <= m
    BY LeastElement
  <2>2. n # 0
    BY <1>5
  <2>3. n - 1 \in Nat /\ n - 1 < n /\ (n - 1) + 1 = n
    BY <2>2
  <2>4. n - 1 \notin T
    BY <2>1, <2>3
  <2>5. PICK g : Upto(g, n - 1)
    BY <2>3, <2>4
  <2>6. Upto(step(g), (n - 1) + 1)
    BY <1>4, <2>3, <2>5
  <2> QED BY <2>1, <2>3, <2>6
<1>7. PICK g : Upto(g, Cardinality(S))
  <2> HIDE DEF Upto
  <2>1. Cardinality(S) \in Nat
    BY <1>1
  <2> QED BY <1>6, <2>1
<1>8. \A s \in SUBSET S : Cardinality(s) <= Cardinality(S)
  BY FS_Subset
<1> QED BY <1>7, <1>8 DEF Table

\* h is a solution of the sum's recursive equation over the subsets of R.
Solves(h, b, R) ==
  h = [s \in SUBSET R |-> IF s = {} THEN 0 ELSE b[First(s)] + h[s \ {First(s)}]]

\* Whatever solves the equation agrees with a table.
LEMMA TableUnique ==
  ASSUME NEW S, IsFiniteSet(S), NEW R \in SUBSET S, NEW b, NEW g, Table(g, b, S),
         NEW h, Solves(h, b, R)
  PROVE  h[R] = g[R]
<1> DEFINE Q == {s \in SUBSET R : h[s] # g[s]}
<1>1. SUFFICES ASSUME Q # {} PROVE FALSE
  OBVIOUS
<1>2. PICK s \in Q : \A r \in SUBSET s : r \in Q => r = s
  <2>1. IsFiniteSet(R) /\ Q \in SUBSET (SUBSET R)
    BY FS_Subset
  <2> HIDE DEF Q
  <2> QED BY <1>1, <2>1, SmallestSubset
<1>3. g[s] = IF s = {} THEN 0 ELSE b[First(s)] + g[s \ {First(s)}]
  BY DEF Table
<1>4. h[s] = IF s = {} THEN 0 ELSE b[First(s)] + h[s \ {First(s)}]
  BY Zenon DEF Solves
<1>5. s # {} => h[s \ {First(s)}] = g[s \ {First(s)}]
  <2> SUFFICES ASSUME s # {} PROVE h[s \ {First(s)}] = g[s \ {First(s)}]
    OBVIOUS
  <2>1. First(s) \in s
    BY FirstIn
  <2>2. s \ {First(s)} \in SUBSET s /\ s \ {First(s)} # s
    BY <2>1
  <2>3. s \ {First(s)} \notin Q
    BY <1>2, <2>2
  <2> QED BY <2>2, <2>3
<1> QED BY <1>3, <1>4, <1>5

\* The sums over the subsets of a finite set are what its table says.
LEMMA TotalTable ==
  ASSUME NEW S, IsFiniteSet(S), NEW b \in [S -> Nat], NEW g, Table(g, b, S),
         NEW R \in SUBSET S
  PROVE  Total(b, R) = g[R]
<1>1. Total(b, R) = (CHOOSE h : Solves(h, b, R))[R]
  BY Zenon DEF Total, MapThenSumSet, MapThenFoldSet, First, Solves
<1>2. \E h : Solves(h, b, R)
  <2> DEFINE k == [s \in SUBSET R |-> g[s]]
  <2>1. ASSUME NEW s \in SUBSET R
        PROVE  k[s] = IF s = {} THEN 0 ELSE b[First(s)] + k[s \ {First(s)}]
    BY FirstIn DEF Table
  <2>2. Solves(k, b, R)
    BY <2>1 DEF Solves
  <2> QED BY <2>2
<1>3. PICK k : k = CHOOSE h : Solves(h, b, R)
  OBVIOUS
<1>4. Solves(k, b, R)
  BY <1>2, <1>3, Zenon
<1>5. k[R] = g[R]
  BY <1>4, TableUnique
<1> QED BY <1>1, <1>3, <1>5, Zenon

LEMMA TotalType ==
  ASSUME NEW S, IsFiniteSet(S), NEW b \in [S -> Nat]
  PROVE  Total(b, {}) = 0 /\ \A R \in SUBSET S : Total(b, R) \in Nat
<1>1. PICK g : Table(g, b, S)
  BY TableExists
<1>2. \A R \in SUBSET S : Total(b, R) = g[R]
  BY <1>1, TotalTable
<1>3. {} \in SUBSET S /\ g[{}] = 0 /\ g \in [SUBSET S -> Nat]
  BY <1>1 DEF Table
<1> QED BY <1>2, <1>3

\* A sum may start with any element.
LEMMA AnyFirst ==
  ASSUME NEW S, IsFiniteSet(S), NEW b \in [S -> Nat], NEW g, Table(g, b, S)
  PROVE  \A s \in SUBSET S : \A x \in s : g[s] = b[x] + g[s \ {x}]
<1> DEFINE Q == {s \in SUBSET S : \E x \in s : g[s] # b[x] + g[s \ {x}]}
<1>1. SUFFICES ASSUME Q # {} PROVE FALSE
  OBVIOUS
<1>2. PICK s \in Q : \A r \in SUBSET s : r \in Q => r = s
  <2> HIDE DEF Q
  <2>1. Q \in SUBSET (SUBSET S)
    BY DEF Q
  <2> QED BY <1>1, <2>1, SmallestSubset
<1>3. PICK x \in s : g[s] # b[x] + g[s \ {x}]
  OBVIOUS
<1> DEFINE y == First(s)
<1>4. y \in s /\ g[s] = b[y] + g[s \ {y}]
  BY FirstIn DEF Table
<1>5. x # y
  BY <1>3, <1>4
<1>6. s \ {x} \notin Q /\ s \ {y} \notin Q
  BY <1>2, <1>4
<1>7. g[s \ {x}] = b[y] + g[s \ {x, y}]
  <2>1. y \in s \ {x} /\ (s \ {x}) \ {y} = s \ {x, y}
    BY <1>4, <1>5
  <2> QED BY <1>6, <2>1
<1>8. g[s \ {y}] = b[x] + g[s \ {x, y}]
  <2>1. x \in s \ {y} /\ (s \ {y}) \ {x} = s \ {x, y}
    BY <1>4, <1>5
  <2> QED BY <1>6, <2>1
<1>9. b[x] \in Nat /\ b[y] \in Nat /\ g[s \ {x, y}] \in Nat
  BY <1>4 DEF Table
<1> HIDE DEF y
<1> QED BY <1>3, <1>4, <1>7, <1>8, <1>9

LEMMA TotalAdd ==
  ASSUME NEW S, IsFiniteSet(S), NEW b \in [S -> Nat], NEW R \in SUBSET S,
         NEW x \in S, x \notin R
  PROVE  Total(b, R \cup {x}) = b[x] + Total(b, R)
<1>1. PICK g : Table(g, b, S)
  BY TableExists
<1>2. R \cup {x} \in SUBSET S /\ x \in R \cup {x} /\ (R \cup {x}) \ {x} = R
  OBVIOUS
<1>3. g[R \cup {x}] = b[x] + g[R]
  BY <1>1, <1>2, AnyFirst
<1>4. Total(b, R \cup {x}) = g[R \cup {x}] /\ Total(b, R) = g[R]
  BY <1>1, <1>2, TotalTable
<1> QED BY <1>3, <1>4

\* Only the values on the set count.
LEMMA TotalSame ==
  ASSUME NEW R, NEW b, NEW d, \A x \in R : b[x] = d[x]
  PROVE  Total(b, R) = Total(d, R)
<1>1. \A s \in SUBSET R : s # {} => b[First(s)] = d[First(s)]
  BY FirstIn
<1>2. ASSUME NEW h
      PROVE  [s \in SUBSET R |-> IF s = {} THEN 0 ELSE b[First(s)] + h[s \ {First(s)}]]
           = [s \in SUBSET R |-> IF s = {} THEN 0 ELSE d[First(s)] + h[s \ {First(s)}]]
  BY <1>1
<1>3. \A h : Solves(h, b, R) <=> Solves(h, d, R)
  BY <1>2 DEF Solves
<1>4. (CHOOSE h : Solves(h, b, R)) = (CHOOSE h : Solves(h, d, R))
  BY <1>3, Zenon
<1>5. /\ Total(b, R) = (CHOOSE h : Solves(h, b, R))[R]
      /\ Total(d, R) = (CHOOSE h : Solves(h, d, R))[R]
  BY Zenon DEF Total, MapThenSumSet, MapThenFoldSet, First, Solves
<1> QED BY <1>4, <1>5, Zenon

\* A sum over fewer elements, none of them larger, is not larger.
LEMMA TotalMonotone ==
  ASSUME NEW S, IsFiniteSet(S), NEW b \in [S -> Nat], NEW d \in [S -> Nat],
         NEW A \in SUBSET S, NEW B \in SUBSET S, A \subseteq B,
         \A x \in A : b[x] <= d[x]
  PROVE  Total(b, A) <= Total(d, B)
<1>1. PICK g : Table(g, b, S)
  BY TableExists
<1>2. PICK h : Table(h, d, S)
  BY TableExists
<1>3. Total(b, A) = g[A] /\ Total(d, B) = h[B]
  BY <1>1, <1>2, TotalTable
<1> DEFINE Q == {s \in SUBSET S : \E r \in SUBSET s : (\A x \in r : b[x] <= d[x]) /\ ~(g[r] <= h[s])}
<1>4. Q = {}
  <2> SUFFICES ASSUME Q # {} PROVE FALSE
    OBVIOUS
  <2>1. PICK s \in Q : \A r \in SUBSET s : r \in Q => r = s
    <3> HIDE DEF Q
    <3>1. Q \in SUBSET (SUBSET S)
      BY DEF Q
    <3> QED BY <3>1, SmallestSubset
  <2>2. PICK r \in SUBSET s : (\A x \in r : b[x] <= d[x]) /\ ~(g[r] <= h[s])
    OBVIOUS
  <2>3. g[{}] = 0 /\ h[{}] = 0
    BY <1>1, <1>2 DEF Table
  <2>4. PICK x \in s : TRUE
    BY <2>2, <2>3
  <2>5. h[s] = d[x] + h[s \ {x}]
    BY <1>2, AnyFirst
  <2>6. s \ {x} \notin Q
    BY <2>1
  <2>7. g[r \ {x}] <= h[s \ {x}]
    BY <2>2, <2>6
  <2>8. d[x] \in Nat /\ h[s \ {x}] \in Nat /\ g[r \ {x}] \in Nat
    BY <1>1, <1>2 DEF Table
  <2>9. CASE x \in r
    <3>1. g[r] = b[x] + g[r \ {x}] /\ b[x] \in Nat /\ b[x] <= d[x]
      BY <1>1, <2>2, <2>9, AnyFirst
    <3> QED BY <2>2, <2>5, <2>7, <2>8, <3>1
  <2>10. CASE x \notin r
    <3>1. r \ {x} = r /\ d[x] \in Nat
      BY <2>10
    <3>2. h[s \ {x}] \in Nat /\ g[r] \in Nat
      BY <2>8, <3>1
    <3>3. g[r] <= h[s \ {x}]
      BY <2>7, <3>1
    <3>4. g[r] <= d[x] + h[s \ {x}]
      BY <3>1, <3>2, <3>3
    <3> QED BY <2>2, <2>5, <3>4
  <2> QED BY <2>9, <2>10
<1> QED BY <1>3, <1>4

\* A sum of equal terms is a product.
LEMMA TotalEqual ==
    ASSUME NEW S, IsFiniteSet(S), NEW b \in [S -> Nat], NEW c \in Nat, \A x \in S : b[x] = c
    PROVE  Total(b, S) = Cardinality(S) * c
<1> DEFINE Q == {s \in SUBSET S : Total(b, s) # Cardinality(s) * c}
<1>1. SUFFICES ASSUME Q # {} PROVE FALSE
  BY Zenon
<1>2. PICK s \in Q : \A r \in SUBSET s : r \in Q => r = s
  <2>1. Q \in SUBSET (SUBSET S)
    OBVIOUS
  <2> HIDE DEF Q
  <2> QED
    BY <1>1, <2>1, SmallestSubset
<1>3. IsFiniteSet(s) /\ Cardinality(s) \in Nat /\ s \in SUBSET S
  BY FS_Subset, FS_CardinalityType
<1>4. s # {}
  <2>1. Total(b, {}) = 0
    BY TotalType
  <2>2. Cardinality({}) = 0 /\ 0 * c = 0
    BY FS_EmptySet
  <2> QED
    BY <2>1, <2>2
<1>5. PICK x : x \in s
  BY <1>4
<1> DEFINE r == s \ {x}
<1>6. /\ r \in SUBSET s /\ r \in SUBSET S /\ x \in S /\ x \notin r /\ r \cup {x} = s /\ r # s
      /\ Cardinality(r) = Cardinality(s) - 1 /\ Cardinality(r) \in Nat
  BY <1>3, <1>5, FS_RemoveElement, FS_Subset, FS_CardinalityType
<1>7. Total(b, r) = Cardinality(r) * c
  BY <1>2, <1>6
<1> HIDE DEF r
<1>8. Total(b, r \cup {x}) = b[x] + Total(b, r)
  BY <1>6, TotalAdd
<1>9. b[x] = c
  BY <1>6
<1>10. Total(b, s) = c + (Cardinality(s) - 1) * c
  BY <1>6, <1>7, <1>8, <1>9
<1>11. c + (Cardinality(s) - 1) * c = Cardinality(s) * c
  BY <1>3
<1> QED
  BY <1>10, <1>11
===============================================================================
