------------------------ MODULE ReactionIndexProofs ------------------------
(* The index of reactions and the sum tree under it, for any sites, members,
   classes and rates, any precision of the numbers and any order of growth,
   installations and batches (kmc/index.py, kmc/sampling.py). *)
EXTENDS ReactionIndex, FiniteSetTheorems, NaturalsInduction, WellFoundedInduction, TLAPS

----------------------------------------------------------------------------
(* Least elements, and functions defined by recursion. *)

LEMMA LeastExists ==
  ASSUME NEW S, S \subseteq Nat, S # {}
  PROVE  \E m \in S : \A k \in S : m <= k
<1> DEFINE R == {ss \in Nat \X Nat : ss[1] < ss[2]}
<1>1. IsWellFoundedOn(R, Nat)
  BY NatLessThanWellFounded DEF OpToRel
<1>2. PICK x \in S : \A y \in S : ~(<<y, x>> \in R)
  <2> HIDE DEF R
  <2> QED BY <1>1, WFMin
<1>3. ASSUME NEW k \in S PROVE x <= k
  <2>1. ~(k < x)
    BY <1>2
  <2> QED BY <2>1
<1> QED BY <1>3

\* H makes a function of another one, and its value at x depends only on the
\* other one's values of lower rank.
Recursive(D, V, H, r) ==
  /\ H \in [[D -> V] -> [D -> V]]
  /\ r \in [D -> Nat]
  /\ [D -> V] # {}
  /\ \A f, g \in [D -> V] : \A x \in D :
       (\A y \in D : r[y] < r[x] => f[y] = g[y]) => H[f][x] = H[g][x]

FixedPoints(D, V, H) == {f \in [D -> V] : f = H[f]}

LEMMA Recursion ==
  ASSUME NEW D, NEW V, NEW H, NEW r, Recursive(D, V, H, r)
  PROVE  FixedPoints(D, V, H) # {}
<1> USE DEF Recursive
<1> DEFINE Upto(n, f) == \A x \in D : r[x] < n => f[x] = H[f][x]
<1>1. \A n \in Nat : \E f \in [D -> V] : Upto(n, f)
  <2>0. PICK z \in [D -> V] : TRUE
    OBVIOUS
  <2> DEFINE Bad == {n \in Nat : ~ \E f \in [D -> V] : Upto(n, f)}
  <2> SUFFICES ASSUME Bad # {} PROVE FALSE
    OBVIOUS
  <2>1. PICK n \in Bad : \A k \in Bad : n <= k
    <3>1. Bad \subseteq Nat
      OBVIOUS
    <3> HIDE DEF Bad
    <3> QED BY <3>1, LeastExists
  <2>2. Upto(0, z)
    OBVIOUS
  <2>3. n # 0
    BY <2>1, <2>2
  <2>4. n - 1 \in Nat /\ n - 1 \notin Bad
    BY <2>1, <2>3
  <2>5. PICK f \in [D -> V] : Upto(n - 1, f)
    BY <2>4
  <2>6. H[f] \in [D -> V]
    OBVIOUS
  <2>7. ASSUME NEW x \in D, r[x] < n PROVE H[f][x] = H[H[f]][x]
    <3>1. \A y \in D : r[y] < r[x] => f[y] = H[f][y]
      BY <2>5, <2>7, <2>3
    <3> QED BY <3>1, <2>6
  <2>8. Upto(n, H[f])
    BY <2>7
  <2> QED BY <2>1, <2>6, <2>8
<1>2. ASSUME NEW n \in Nat, NEW f \in [D -> V], NEW g \in [D -> V], Upto(n, f), Upto(n, g),
             NEW x \in D, r[x] < n
      PROVE  f[x] = g[x]
  <2> DEFINE Apart == {k \in Nat : k < n /\ \E y \in D : r[y] = k /\ f[y] # g[y]}
  <2> SUFFICES ASSUME f[x] # g[x] PROVE FALSE
    OBVIOUS
  <2>0. r[x] \in Apart
    BY <1>2
  <2>1. PICK k \in Apart : \A l \in Apart : k <= l
    <3>1. Apart \subseteq Nat
      OBVIOUS
    <3> HIDE DEF Apart
    <3> QED BY <2>0, <3>1, LeastExists
  <2>2. PICK y \in D : r[y] = k /\ r[y] < n /\ f[y] # g[y]
    BY <2>1
  <2>3. ASSUME NEW w \in D, r[w] < r[y] PROVE f[w] = g[w]
    <3>1. r[w] \in Nat /\ r[w] < n /\ ~(k <= r[w])
      BY <2>1, <2>2, <2>3
    <3>2. r[w] \notin Apart
      BY <2>1, <3>1
    <3> QED BY <3>1, <3>2
  <2>4. H[f][y] = H[g][y]
    BY <2>3
  <2> QED BY <2>2, <2>4, <1>2
<1> DEFINE Part(n) == CHOOSE f \in [D -> V] : Upto(n, f)
           F == [x \in D |-> Part(r[x] + 1)[x]]
<1>3. \A n \in Nat : Part(n) \in [D -> V] /\ Upto(n, Part(n))
  <2> TAKE n \in Nat
  <2>1. \E f \in [D -> V] : Upto(n, f)
    BY <1>1
  <2> HIDE DEF Upto
  <2> QED BY <2>1
<1>4. F \in [D -> V]
  <2> HIDE DEF Part
  <2>1. \A x \in D : Part(r[x] + 1)[x] \in V
    BY <1>3
  <2> QED BY <2>1
<1>5. ASSUME NEW x \in D PROVE F[x] = H[F][x]
  <2> DEFINE f == Part(r[x] + 1)
  <2>1. f \in [D -> V] /\ Upto(r[x] + 1, f)
    <3>1. r[x] + 1 \in Nat
      OBVIOUS
    <3> HIDE DEF Upto, Part
    <3> QED BY <3>1, <1>3
  <2>2. ASSUME NEW y \in D, r[y] < r[x] PROVE F[y] = f[y]
    <3> DEFINE g == Part(r[y] + 1)
    <3>1. g \in [D -> V] /\ Upto(r[y] + 1, g)
      <4>1. r[y] + 1 \in Nat
        OBVIOUS
      <4> HIDE DEF Upto, Part
      <4> QED BY <4>1, <1>3
    <3>2. Upto(r[y] + 1, f)
      BY <2>1, <2>2
    <3>3. F[y] = g[y]
      BY <1>4
    <3>4. r[y] + 1 \in Nat /\ r[y] < r[y] + 1
      OBVIOUS
    <3> HIDE DEF Upto, F, f, g
    <3> QED BY <1>2, <2>1, <3>1, <3>2, <3>3, <3>4
  <2>3. F[x] = f[x]
    BY <1>4
  <2>4. f[x] = H[f][x]
    BY <2>1
  <2> HIDE DEF F, f
  <2>5. H[F][x] = H[f][x]
    BY <2>1, <2>2, <1>4
  <2> QED BY <2>3, <2>4, <2>5
<1>6. F = H[F]
  <2> HIDE DEF F
  <2>1. H[F] \in [D -> V]
    BY <1>4
  <2> QED BY <1>4, <1>5, <2>1
<1> HIDE DEF F
<1> QED BY <1>4, <1>6 DEF FixedPoints

----------------------------------------------------------------------------
(* Arithmetic. *)

LEMMA UnitDef == Unit = [x \in Nat |-> IF x < Exact THEN 1 ELSE 2 * Unit[x \div 2]]
<1> DEFINE H == [f \in [Nat -> Nat] |-> [x \in Nat |-> IF x < Exact THEN 1 ELSE 2 * f[x \div 2]]]
           r == [x \in Nat |-> x]
<1>1. \A x \in Nat : x >= Exact => x \div 2 \in Nat /\ x \div 2 < x
  BY ExactAssumption
<1>2. \A x \in Nat : x \div 2 \in Nat
  OBVIOUS
<1>3. H \in [[Nat -> Nat] -> [Nat -> Nat]] /\ r \in [Nat -> Nat] /\ [x \in Nat |-> 0] \in [Nat -> Nat]
  BY <1>2
<1>4. ASSUME NEW f \in [Nat -> Nat], NEW g \in [Nat -> Nat], NEW x \in Nat,
             \A y \in Nat : r[y] < r[x] => f[y] = g[y]
      PROVE  H[f][x] = H[g][x]
  <2>1. x >= Exact => f[x \div 2] = g[x \div 2]
    BY <1>1, <1>4
  <2> QED BY <2>1, ExactAssumption
<1>5. FixedPoints(Nat, Nat, H) # {}
  <2> HIDE DEF H, r
  <2>1. Recursive(Nat, Nat, H, r)
    BY <1>3, <1>4 DEF Recursive
  <2> QED BY <2>1, Recursion
<1>6. PICK f \in [Nat -> Nat] : f = [x \in Nat |-> IF x < Exact THEN 1 ELSE 2 * f[x \div 2]]
  BY <1>5 DEF FixedPoints
<1> QED BY <1>6 DEF Unit

LEMMA UnitBounds ==
  ASSUME NEW x \in Nat
  PROVE  Unit[x] \in Nat /\ Unit[x] >= 1 /\ (x >= 1 => Unit[x] <= x)
<1> DEFINE Good(n) == Unit[n] \in Nat /\ Unit[n] >= 1 /\ (n >= 1 => Unit[n] <= n)
           Bad == {n \in Nat : ~Good(n)}
<1> SUFFICES ASSUME Bad # {} PROVE FALSE
  OBVIOUS
<1>1. PICK n \in Bad : \A k \in Bad : n <= k
  <2>1. Bad \subseteq Nat
    OBVIOUS
  <2> HIDE DEF Bad
  <2> QED BY <2>1, LeastExists
<1>2. Unit[n] = IF n < Exact THEN 1 ELSE 2 * Unit[n \div 2]
  BY UnitDef
<1>3. CASE n < Exact
  BY <1>1, <1>2, <1>3
<1>4. CASE n >= Exact
  <2>1. n \div 2 \in Nat /\ n \div 2 < n /\ n \div 2 >= 1 /\ 2 * (n \div 2) <= n
    BY <1>4, ExactAssumption
  <2>2. Good(n \div 2)
    BY <1>1, <2>1
  <2>3. Unit[n] = 2 * Unit[n \div 2]
    BY <1>2, <1>4, ExactAssumption
  <2> QED BY <1>1, <2>1, <2>2, <2>3
<1> QED BY <1>1, <1>3, <1>4, ExactAssumption

LEMMA Multiples ==
  ASSUME NEW q \in Nat, NEW u \in Nat, u >= 1
  PROVE  q * u \in Nat /\ (q = 0 => q * u = 0) /\ (q >= 1 => q * u >= 1)
OBVIOUS

LEMMA Quotient ==
  ASSUME NEW x \in Nat, NEW u \in Nat, u >= 1
  PROVE  /\ x \div u \in Nat /\ x % u \in Nat
         /\ u <= x => x \div u >= 1
         /\ x = 0 => x \div u = 0 /\ x % u = 0
OBVIOUS

\* A number is rounded to zero only if it is zero, and small ones are exact.
LEMMA FloatSound ==
  ASSUME NEW x \in Nat
  PROVE  Float(x) \in Nat /\ (Float(x) = 0 <=> x = 0) /\ (x < Exact => Float(x) = x)
<1> DEFINE u == Unit[x]
           q == x \div u
           s == x % u
<1>1. u \in Nat /\ u >= 1 /\ (x >= 1 => u <= x)
  BY UnitBounds
<1>2. q \in Nat /\ s \in Nat /\ (u <= x => q >= 1) /\ (x = 0 => q = 0 /\ s = 0)
  <2> HIDE DEF u
  <2> QED BY <1>1, Quotient
<1>3. Float(x) = IF 2 * s > u \/ (2 * s = u /\ q % 2 = 1) THEN (q + 1) * u ELSE q * u
  BY DEF Float
<1>4. x < Exact => u = 1
  BY UnitDef
<1>5. ASSUME x < Exact PROVE q = x /\ s = 0
  <2>1. u = 1
    BY <1>4, <1>5
  <2> HIDE DEF u
  <2> QED BY <2>1
<1> HIDE DEF u, q, s
<1>6. q * u \in Nat /\ (q + 1) * u \in Nat /\ (q + 1) * u >= 1 /\ (q = 0 => q * u = 0) /\ (q >= 1 => q * u >= 1)
  <2>1. q + 1 \in Nat /\ q + 1 >= 1
    BY <1>2
  <2> QED BY <2>1, <1>1, <1>2, Multiples
<1>7. Float(x) \in Nat
  BY <1>3, <1>6
<1>8. x >= 1 => Float(x) >= 1
  BY <1>1, <1>2, <1>3, <1>6
<1>9. x < Exact => Float(x) = x
  <2> HAVE x < Exact
  <2>1. u = 1 /\ q = x /\ s = 0
    BY <1>4, <1>5
  <2> QED BY <1>3, <2>1
<1>10. x = 0 => Float(x) = 0
  BY <1>9, ExactAssumption
<1> QED BY <1>7, <1>8, <1>9, <1>10

LEMMA BelowSound ==
  ASSUME NEW x \in Nat, x > 0
  PROVE  Below(x) \in 0..(x - 1) /\ (x <= Exact => Below(x) = x - 1)
<1> DEFINE Best(y) == Float(y) = y /\ \A k \in (y + 1)..(x - 1) : Float(k) # k
           Gaps == {n \in Nat : n < x /\ Float(x - 1 - n) = x - 1 - n}
<1>1. x - 1 \in Nat /\ x - 1 - (x - 1) = 0 /\ Float(0) = 0
  BY FloatSound
<1>2. x - 1 \in Gaps
  BY <1>1
<1>3. PICK n \in Gaps : \A k \in Gaps : n <= k
  <2>1. Gaps \subseteq Nat
    OBVIOUS
  <2> HIDE DEF Gaps
  <2> QED BY <2>1, <1>2, LeastExists
<1>4. ASSUME NEW k \in (x - n)..(x - 1) PROVE Float(k) # k
  <2>1. x - 1 - k \in Nat /\ x - 1 - k < n /\ x - 1 - (x - 1 - k) = k /\ x - 1 - k < x
    BY <1>3
  <2>2. x - 1 - k \notin Gaps
    <3>1. n \in Nat /\ ~(n <= x - 1 - k)
      BY <1>3, <2>1
    <3> HIDE DEF Gaps
    <3> QED BY <1>3, <3>1
  <2> QED BY <2>1, <2>2
<1>5. x - 1 - n \in 0..(x - 1) /\ Best(x - 1 - n)
  BY <1>3, <1>4
<1>6. Below(x) \in 0..(x - 1) /\ Best(Below(x))
  BY <1>5 DEF Below
<1>7. ASSUME x <= Exact PROVE Below(x) = x - 1
  <2>1. Float(x - 1) = x - 1
    BY <1>1, <1>7, FloatSound, ExactAssumption
  <2> SUFFICES ASSUME Below(x) # x - 1 PROVE FALSE
    OBVIOUS
  <2>2. x - 1 \in (Below(x) + 1)..(x - 1)
    BY <1>6
  <2> QED BY <1>6, <2>1, <2>2
<1> QED BY <1>6, <1>7

----------------------------------------------------------------------------
(* Capacities. *)

\* Every bounded set of natural numbers has a greatest element.
LEMMA GreatestExists ==
  ASSUME NEW n \in Nat, NEW S, S \subseteq 0..n, S # {}
  PROVE  \E m \in S : \A k \in S : m >= k
<1> DEFINE D == {n - x : x \in S}
<1>1. PICK d \in D : \A e \in D : d <= e
  <2>1. D \subseteq Nat
    OBVIOUS
  <2>2. D # {}
    OBVIOUS
  <2> HIDE DEF D
  <2> QED BY <2>1, <2>2, LeastExists
<1>2. PICK m \in S : d = n - m
  OBVIOUS
<1>3. ASSUME NEW k \in S PROVE m >= k
  <2>1. d <= n - k
    BY <1>1
  <2> QED BY <2>1, <1>2
<1> QED BY <1>3

LEMMA CapacityStep ==
  ASSUME NEW n \in Nat, NEW s \in Nat \ {0}
  PROVE  Capacity(s, n) = IF s >= n THEN s ELSE Capacity(2 * s, n)
<1> DEFINE D == Nat \ {0}
           H == [f \in [D -> D] |-> [k \in D |-> IF k >= n THEN k ELSE f[2 * k]]]
           r == [k \in D |-> IF k >= n THEN 0 ELSE n - k]
           capacity == CHOOSE f : f = [k \in D |-> IF k >= n THEN k ELSE f[2 * k]]
<1>1. \A k \in D : 2 * k \in D /\ (~(k >= n) => r[2 * k] < r[k])
  OBVIOUS
<1>2. H \in [[D -> D] -> [D -> D]] /\ r \in [D -> Nat] /\ [k \in D |-> k] \in [D -> D]
  BY <1>1
<1>3. ASSUME NEW f \in [D -> D], NEW g \in [D -> D], NEW k \in D,
             \A y \in D : r[y] < r[k] => f[y] = g[y]
      PROVE  H[f][k] = H[g][k]
  <2>1. ~(k >= n) => f[2 * k] = g[2 * k]
    BY <1>1, <1>3
  <2> QED BY <2>1
<1>4. FixedPoints(D, D, H) # {}
  <2> HIDE DEF D, H, r
  <2>1. Recursive(D, D, H, r)
    BY <1>2, <1>3 DEF Recursive
  <2> QED BY <2>1, Recursion
<1>5. PICK f \in [D -> D] : f = [k \in D |-> IF k >= n THEN k ELSE f[2 * k]]
  BY <1>4 DEF FixedPoints
<1>6. capacity = [k \in D |-> IF k >= n THEN k ELSE capacity[2 * k]]
  BY <1>5
<1>7. Capacity(s, n) = capacity[s] /\ Capacity(2 * s, n) = capacity[2 * s]
  BY DEF Capacity
<1> HIDE DEF capacity
<1> QED BY <1>6, <1>7

\* The capacity holds the leaves; growing by steps or at once leads to the same.
LEMMA CapacitySound ==
  ASSUME NEW n \in Nat, NEW m \in Nat, n <= m, NEW s \in Nat \ {0}
  PROVE  /\ Capacity(s, n) \in Nat \ {0} /\ Capacity(s, n) >= n
         /\ Capacity(Capacity(s, n), m) = Capacity(s, m)
<1> DEFINE Good(k) == /\ Capacity(k, n) \in Nat \ {0} /\ Capacity(k, n) >= n
                      /\ Capacity(Capacity(k, n), m) = Capacity(k, m)
           Bad == {k \in Nat \ {0} : ~Good(k)}
<1>1. ASSUME NEW k \in Nat \ {0}, k >= n PROVE Good(k)
  BY <1>1, CapacityStep
<1>2. ASSUME NEW k \in Nat \ {0}, k < n, Good(2 * k) PROVE Good(k)
  <2>1. Capacity(k, n) = Capacity(2 * k, n) /\ Capacity(k, m) = Capacity(2 * k, m)
    BY <1>2, CapacityStep
  <2> QED BY <1>2, <2>1
<1> HIDE DEF Good
<1> SUFFICES ASSUME Bad # {} PROVE FALSE
  BY DEF Good
<1>3. Bad \subseteq 0..n
  BY <1>1
<1>4. PICK k \in Bad : \A j \in Bad : k >= j
  <2> HIDE DEF Bad
  <2> QED BY <1>3, GreatestExists
<1>5. k \in Nat \ {0} /\ k < n /\ 2 * k \in Nat \ {0} /\ ~(k >= 2 * k)
  BY <1>1, <1>4
<1>6. 2 * k \notin Bad
  BY <1>4, <1>5
<1> QED BY <1>2, <1>4, <1>5, <1>6

----------------------------------------------------------------------------
(* Trees: positions 1 .. 2 * size - 1, the leaves from size on. *)

Heap(size) == 1..(2 * size - 1)

LEMMA HeapChildren ==
  ASSUME NEW size \in Nat \ {0}, NEW p \in Heap(size), p < size
  PROVE  2 * p \in Heap(size) /\ 2 * p + 1 \in Heap(size) /\ p < 2 * p /\ p < 2 * p + 1
BY DEF Heap

\* Induction from the leaves to the root.
LEMMA HeapInduction ==
  ASSUME NEW size \in Nat \ {0}, NEW G, G \subseteq Heap(size),
         \A p \in Heap(size) : p >= size => p \in G,
         \A p \in Heap(size) : p < size /\ 2 * p \in G /\ 2 * p + 1 \in G => p \in G
  PROVE  G = Heap(size)
<1> DEFINE Bad == Heap(size) \ G
<1> SUFFICES ASSUME Bad # {} PROVE FALSE
  OBVIOUS
<1>1. PICK p \in Bad : \A k \in Bad : p >= k
  <2>1. Bad \subseteq 0..(2 * size - 1) /\ 2 * size - 1 \in Nat
    BY DEF Heap
  <2> HIDE DEF Bad
  <2> QED BY <2>1, GreatestExists
<1>2. p \in Heap(size) /\ p \in Nat /\ p < size
  BY <1>1 DEF Heap
<1>3. 2 * p \notin Bad /\ 2 * p + 1 \notin Bad
  <2>1. ~(p >= 2 * p) /\ ~(p >= 2 * p + 1)
    BY <1>2 DEF Heap
  <2> QED BY <1>1, <2>1
<1> QED BY <1>1, <1>2, <1>3, HeapChildren

HeapRecursive(size, V, H) ==
  /\ H \in [[Heap(size) -> V] -> [Heap(size) -> V]]
  /\ [Heap(size) -> V] # {}
  /\ \A f, g \in [Heap(size) -> V] : \A p \in Heap(size) :
       (p < size => f[2 * p] = g[2 * p] /\ f[2 * p + 1] = g[2 * p + 1]) => H[f][p] = H[g][p]

LEMMA HeapRecursion ==
  ASSUME NEW size \in Nat \ {0}, NEW V, NEW H, HeapRecursive(size, V, H)
  PROVE  FixedPoints(Heap(size), V, H) # {}
<1> DEFINE r == [p \in Heap(size) |-> 2 * size - p]
<1>1. r \in [Heap(size) -> Nat]
  BY DEF Heap
<1>2. ASSUME NEW p \in Heap(size), p < size
      PROVE  r[2 * p] < r[p] /\ r[2 * p + 1] < r[p]
  BY <1>2, HeapChildren DEF Heap
<1> HIDE DEF r
<1>3. ASSUME NEW f \in [Heap(size) -> V], NEW g \in [Heap(size) -> V], NEW p \in Heap(size),
             \A y \in Heap(size) : r[y] < r[p] => f[y] = g[y]
      PROVE  H[f][p] = H[g][p]
  <2>1. p < size => f[2 * p] = g[2 * p] /\ f[2 * p + 1] = g[2 * p + 1]
    BY <1>2, <1>3, HeapChildren
  <2> QED BY <2>1 DEF HeapRecursive
<1>4. Recursive(Heap(size), V, H, r)
  BY <1>1, <1>3 DEF Recursive, HeapRecursive
<1> QED BY <1>4, Recursion

----------------------------------------------------------------------------
(* Sum trees. *)

\* node is the sum tree over the given leaves.
SumTree(node, size, leaf) ==
  node = [p \in Heap(size) |-> IF p >= size THEN leaf[p - size] ELSE Plus(node[2 * p], node[2 * p + 1])]

LEMMA PlusSound ==
  ASSUME NEW a \in Nat, NEW b \in Nat
  PROVE  Plus(a, b) \in Nat /\ (Plus(a, b) = 0 <=> a = 0 /\ b = 0)
BY FloatSound DEF Plus

LEMMA SumTreeUnique ==
  ASSUME NEW size \in Nat \ {0}, NEW leaf, NEW f, NEW g,
         SumTree(f, size, leaf), SumTree(g, size, leaf)
  PROVE  f = g
<1> DEFINE G == {p \in Heap(size) : f[p] = g[p]}
<1>1. \A p \in Heap(size) : p >= size => p \in G
  BY DEF SumTree
<1>2. \A p \in Heap(size) : p < size /\ 2 * p \in G /\ 2 * p + 1 \in G => p \in G
  BY DEF SumTree, Heap
<1>3. G = Heap(size)
  <2>1. G \subseteq Heap(size)
    OBVIOUS
  <2> HIDE DEF G
  <2> QED BY <2>1, <1>1, <1>2, HeapInduction
<1>4. \A p \in Heap(size) : f[p] = g[p]
  BY <1>3
<1>5. f = [p \in Heap(size) |-> f[p]] /\ g = [p \in Heap(size) |-> g[p]]
  BY DEF SumTree
<1> QED BY <1>4, <1>5

LEMMA ReducedSound ==
  ASSUME NEW size \in Nat \ {0}, NEW leaf \in [0..(size - 1) -> Nat]
  PROVE  SumTree(Reduced(size, leaf), size, leaf) /\ Reduced(size, leaf) \in [Heap(size) -> Nat]
<1> DEFINE D == Heap(size)
           H == [f \in [D -> Nat] |->
                   [p \in D |-> IF p >= size THEN leaf[p - size] ELSE Plus(f[2 * p], f[2 * p + 1])]]
<1>1. ASSUME NEW f \in [D -> Nat], NEW p \in D
      PROVE  (IF p >= size THEN leaf[p - size] ELSE Plus(f[2 * p], f[2 * p + 1])) \in Nat
  <2>1. CASE p >= size
    <3>1. p - size \in 0..(size - 1)
      BY <2>1 DEF Heap
    <3> QED BY <2>1, <3>1
  <2>2. CASE p < size
    <3>1. f[2 * p] \in Nat /\ f[2 * p + 1] \in Nat
      BY <2>2, HeapChildren
    <3>2. Plus(f[2 * p], f[2 * p + 1]) \in Nat
      BY <3>1, PlusSound
    <3>3. ~(p >= size)
      BY <2>2 DEF Heap
    <3> QED BY <3>2, <3>3
  <2>3. p >= size \/ p < size
    BY DEF Heap
  <2> QED BY <2>1, <2>2, <2>3
<1>2. H \in [[D -> Nat] -> [D -> Nat]]
  BY <1>1
<1>3. ASSUME NEW f \in [D -> Nat], NEW g \in [D -> Nat], NEW p \in D,
             p < size => f[2 * p] = g[2 * p] /\ f[2 * p + 1] = g[2 * p + 1]
      PROVE  H[f][p] = H[g][p]
  BY <1>3 DEF Heap
<1>4. FixedPoints(D, Nat, H) # {}
  <2>1. [p \in D |-> 0] \in [D -> Nat]
    OBVIOUS
  <2> HIDE DEF H
  <2>2. HeapRecursive(size, Nat, H)
    BY <1>2, <1>3, <2>1 DEF HeapRecursive
  <2> QED BY <2>2, HeapRecursion
<1>5. PICK f \in [D -> Nat] : SumTree(f, size, leaf)
  BY <1>4 DEF FixedPoints, SumTree
<1>6. SumTree(Reduced(size, leaf), size, leaf)
  BY <1>5 DEF SumTree, Reduced, Heap
<1> QED BY <1>5, <1>6, SumTreeUnique

LEMMA SumTreeTyped ==
  ASSUME NEW size \in Nat \ {0}, NEW leaf \in [0..(size - 1) -> Nat], NEW node,
         SumTree(node, size, leaf)
  PROVE  node = Reduced(size, leaf) /\ node \in [Heap(size) -> Nat]
BY ReducedSound, SumTreeUnique

\* A node is touched if a leaf below it is set.
LEMMA TouchedSound ==
  ASSUME NEW t, t.size \in Nat \ {0}, DOMAIN t.node = Heap(t.size), NEW set
  PROVE  LET T == Touched(t, set)
         IN  /\ T \in [Heap(t.size) -> BOOLEAN]
             /\ \A p \in Heap(t.size) : p >= t.size => (T[p] <=> p \in set)
             /\ \A p \in Heap(t.size) : p < t.size => (T[p] <=> T[2 * p] \/ T[2 * p + 1])
<1> DEFINE size == t.size
           D == Heap(size)
           Eq(f) == f = [p \in D |-> IF p >= size THEN p \in set ELSE f[2 * p] \/ f[2 * p + 1]]
           H == [f \in [D -> BOOLEAN] |->
                   [p \in D |-> IF p >= size THEN p \in set ELSE f[2 * p] \/ f[2 * p + 1]]]
<1>1. H \in [[D -> BOOLEAN] -> [D -> BOOLEAN]]
  <2> DEFINE Value(f, p) == IF p >= size THEN p \in set ELSE f[2 * p] \/ f[2 * p + 1]
  <2>1. ASSUME NEW f \in [D -> BOOLEAN], NEW p \in D PROVE Value(f, p) \in BOOLEAN
    <3>1. (p \in set) \in BOOLEAN /\ (f[2 * p] \/ f[2 * p + 1]) \in BOOLEAN
      OBVIOUS
    <3>2. CASE p >= size
      <4>1. Value(f, p) = (p \in set)
        BY <3>2
      <4> QED BY <4>1, <3>1
    <3>3. CASE ~(p >= size)
      <4>1. Value(f, p) = (f[2 * p] \/ f[2 * p + 1])
        BY <3>3
      <4> HIDE DEF Value
      <4> QED BY <4>1, <3>1
    <3> QED BY <3>2, <3>3
  <2>2. H = [f \in [D -> BOOLEAN] |-> [p \in D |-> Value(f, p)]]
    OBVIOUS
  <2> HIDE DEF H, Value
  <2> QED BY <2>1, <2>2
<1>2. ASSUME NEW f \in [D -> BOOLEAN], NEW g \in [D -> BOOLEAN], NEW p \in D,
             p < size => f[2 * p] = g[2 * p] /\ f[2 * p + 1] = g[2 * p + 1]
      PROVE  H[f][p] = H[g][p]
  <2>1. p >= size \/ p < size
    BY DEF Heap
  <2> QED BY <1>2, <2>1
<1>3. FixedPoints(D, BOOLEAN, H) # {}
  <2>1. [p \in D |-> TRUE] \in [D -> BOOLEAN]
    OBVIOUS
  <2> HIDE DEF H
  <2>2. HeapRecursive(size, BOOLEAN, H)
    BY <1>1, <1>2, <2>1 DEF HeapRecursive
  <2> QED BY <2>2, HeapRecursion
<1>4. PICK f \in [D -> BOOLEAN] : Eq(f)
  BY <1>3 DEF FixedPoints
<1>5. Eq(Touched(t, set))
  BY <1>4 DEF Touched
<1>6. Touched(t, set) \in [D -> BOOLEAN]
  <2> DEFINE T == Touched(t, set)
             G == {p \in D : T[p] \in BOOLEAN}
  <2> HIDE DEF T
  <2>1. \A p \in D : p >= size => p \in G
    <3> TAKE p \in D
    <3> HAVE p >= size
    <3>1. T[p] = (p \in set)
      BY <1>5 DEF T
    <3>2. (p \in set) \in BOOLEAN
      OBVIOUS
    <3>3. T[p] \in BOOLEAN
      BY <3>1, <3>2
    <3> QED BY <3>3
  <2>2. \A p \in D : p < size /\ 2 * p \in G /\ 2 * p + 1 \in G => p \in G
    <3> TAKE p \in D
    <3> HAVE p < size /\ 2 * p \in G /\ 2 * p + 1 \in G
    <3>1. ~(p >= size)
      BY DEF Heap
    <3> QED BY <3>1, <1>5 DEF T
  <2>3. G = D
    <3>1. G \subseteq D
      OBVIOUS
    <3> HIDE DEF G
    <3> QED BY <3>1, <2>1, <2>2, HeapInduction
  <2>4. \A p \in D : T[p] \in BOOLEAN
    BY <2>3
  <2>5. T = [p \in D |-> T[p]]
    BY <1>5 DEF T
  <2>6. T \in [D -> BOOLEAN]
    BY <2>4, <2>5
  <2> QED BY <2>6 DEF T
<1>7. \A p \in D : p < size => ~(p >= size)
  BY DEF Heap
<1> QED BY <1>5, <1>6, <1>7

LEMMA UpdatedSound ==
  ASSUME NEW t, t = [n |-> t.n, size |-> t.size, node |-> t.node], t.size \in Nat \ {0},
         NEW leaf \in [0..(t.size - 1) -> Nat], SumTree(t.node, t.size, leaf),
         NEW I, I \subseteq 0..(t.size - 1), NEW rate \in [I -> Nat],
         NEW new \in [0..(t.size - 1) -> Nat],
         \A i \in 0..(t.size - 1) : new[i] = IF i \in I THEN rate[i] ELSE leaf[i]
  PROVE  LET next == Updated(t, rate)
         IN  /\ next = [n |-> t.n, size |-> t.size, node |-> next.node]
             /\ SumTree(next.node, t.size, new)
<1> DEFINE size == t.size
           D == Heap(size)
           old == t.node
           set == {size + i : i \in I}
           T == Touched(t, set)
           Value(f, p) == IF ~T[p] THEN old[p]
                          ELSE IF p >= size THEN Larger(0, rate[p - size])
                          ELSE Plus(f[2 * p], f[2 * p + 1])
           Eq(f) == f = [p \in D |-> Value(f, p)]
           H == [f \in [D -> Nat] |-> [p \in D |-> Value(f, p)]]
           node == CHOOSE f : Eq(f)
<1>1. old \in [D -> Nat] /\ DOMAIN old = D
  BY SumTreeTyped
<1>2. /\ T \in [D -> BOOLEAN]
      /\ \A p \in D : p >= size => (T[p] <=> p \in set)
      /\ \A p \in D : p < size => (T[p] <=> T[2 * p] \/ T[2 * p + 1])
  BY <1>1, TouchedSound
<1> HIDE DEF T
<1>3. ASSUME NEW p \in D, p >= size
      PROVE  /\ p - size \in 0..(size - 1) /\ (p \in set <=> p - size \in I)
             /\ T[p] => p - size \in I /\ rate[p - size] \in Nat /\ Larger(0, rate[p - size]) = rate[p - size]
  <2>1. p - size \in 0..(size - 1)
    BY <1>3 DEF Heap
  <2>2. p \in set <=> p - size \in I
    BY <2>1 DEF Heap
  <2>3. p - size \in I => rate[p - size] \in Nat
    OBVIOUS
  <2> HIDE DEF set
  <2> QED BY <1>2, <1>3, <2>1, <2>2, <2>3 DEF Larger
<1>4. ASSUME NEW f \in [D -> Nat], NEW p \in D PROVE Value(f, p) \in Nat
  <2>1. CASE p >= size
    BY <1>1, <1>3, <2>1
  <2>2. CASE p < size
    <3>1. f[2 * p] \in Nat /\ f[2 * p + 1] \in Nat
      BY <2>2, HeapChildren
    <3>2. Plus(f[2 * p], f[2 * p + 1]) \in Nat
      BY <3>1, PlusSound
    <3>3. ~(p >= size)
      BY <2>2 DEF Heap
    <3> QED BY <1>1, <3>2, <3>3
  <2>3. p >= size \/ p < size
    BY DEF Heap
  <2> QED BY <2>1, <2>2, <2>3
<1>5. ASSUME NEW f \in [D -> Nat], NEW g \in [D -> Nat], NEW p \in D,
             p < size => f[2 * p] = g[2 * p] /\ f[2 * p + 1] = g[2 * p + 1]
      PROVE  H[f][p] = H[g][p]
  <2>1. p >= size \/ p < size
    BY DEF Heap
  <2> QED BY <1>5, <2>1
<1>6. FixedPoints(D, Nat, H) # {}
  <2>1. [p \in D |-> 0] \in [D -> Nat]
    OBVIOUS
  <2>2. H \in [[D -> Nat] -> [D -> Nat]]
    <3> HIDE DEF Value
    <3> QED BY <1>4
  <2> HIDE DEF H
  <2>3. HeapRecursive(size, Nat, H)
    BY <2>1, <2>2, <1>5 DEF HeapRecursive
  <2> QED BY <2>3, HeapRecursion
<1>7. PICK f \in [D -> Nat] : Eq(f)
  BY <1>6 DEF FixedPoints
<1>8. Eq(node)
  <2> HIDE DEF Eq
  <2> QED BY <1>7
<1>9. Updated(t, rate) = [n |-> t.n, size |-> t.size, node |-> node]
  <2>1. Updated(t, rate) = [t EXCEPT !.node = node]
    BY <1>1 DEF Updated, T
  <2> HIDE DEF node
  <2> QED BY <2>1
<1> HIDE DEF node
<1>10. ASSUME NEW p \in D
       PROVE  node[p] = IF p >= size THEN new[p - size] ELSE Plus(node[2 * p], node[2 * p + 1])
  <2>0. node[p] = Value(node, p)
    BY <1>8
  <2>1. CASE p >= size
    <3>1. old[p] = leaf[p - size]
      BY <2>1 DEF SumTree
    <3>2. T[p] <=> p - size \in I
      BY <1>2, <1>3, <2>1
    <3> QED BY <1>3, <2>0, <2>1, <3>1, <3>2
  <2>2. CASE p < size
    <3>1. ~(p >= size) /\ 2 * p \in D /\ 2 * p + 1 \in D
      BY <2>2, HeapChildren DEF Heap
    <3>2. CASE T[p]
      BY <2>0, <3>1, <3>2
    <3>3. CASE ~T[p]
      <4>1. ~T[2 * p] /\ ~T[2 * p + 1]
        BY <1>2, <2>2, <3>3
      <4>2. node[p] = old[p] /\ node[2 * p] = old[2 * p] /\ node[2 * p + 1] = old[2 * p + 1]
        BY <1>8, <3>1, <3>3, <4>1
      <4>3. old[p] = Plus(old[2 * p], old[2 * p + 1])
        BY <3>1 DEF SumTree
      <4> QED BY <3>1, <4>2, <4>3
    <3> QED BY <3>2, <3>3
  <2>3. p >= size \/ p < size
    BY DEF Heap
  <2> QED BY <2>1, <2>2, <2>3
<1>11. node = [p \in D |-> node[p]]
  BY <1>8
<1>12. SumTree(node, size, new)
  BY <1>10, <1>11 DEF SumTree
<1> QED BY <1>9, <1>12

----------------------------------------------------------------------------
(* Operations on a tree that holds given rates. *)

TreeSound(t, rate) ==
  /\ t = [n |-> t.n, size |-> t.size, node |-> t.node]
  /\ t.n \in Nat /\ t.size = Capacity(1, t.n)
  /\ rate \in [0..(t.n - 1) -> Nat]
  /\ SumTree(t.node, t.size, Padded(t.size, t.n, rate))

LEMMA PaddedSound ==
  ASSUME NEW size \in Nat \ {0}, NEW n \in Nat, n <= size, NEW rate \in [0..(n - 1) -> Nat]
  PROVE  /\ Padded(size, n, rate) \in [0..(size - 1) -> Nat]
         /\ Padded(size, n, rate) = [i \in 0..(size - 1) |-> IF i < n THEN rate[i] ELSE 0]
<1>1. \A i \in 0..(size - 1) : i < n => rate[i] \in Nat /\ Larger(0, rate[i]) = rate[i]
  <2> TAKE i \in 0..(size - 1)
  <2> HAVE i < n
  <2>1. rate[i] \in Nat
    OBVIOUS
  <2> QED BY <2>1 DEF Larger
<1> QED BY <1>1 DEF Padded

LEMMA SizeSound ==
  ASSUME NEW t, NEW rate, TreeSound(t, rate)
  PROVE  t.size \in Nat \ {0} /\ t.n <= t.size
BY CapacitySound DEF TreeSound

Replaced(n, rate, I, new, now) ==
  /\ I \subseteq 0..(n - 1) /\ new \in [I -> Nat] /\ now \in [0..(n - 1) -> Nat]
  /\ \A i \in 0..(n - 1) : now[i] = IF i \in I THEN new[i] ELSE rate[i]

LEMMA SetSound ==
  ASSUME NEW t, NEW rate, TreeSound(t, rate), NEW I, NEW new, NEW now, Replaced(t.n, rate, I, new, now)
  PROVE  TreeSound(Updated(t, new), now) /\ Updated(t, new).n = t.n
<1> DEFINE next == Updated(t, new)
           leaf == Padded(t.size, t.n, rate)
           sum == [i \in 0..(t.size - 1) |-> IF i \in I THEN new[i] ELSE leaf[i]]
<1>1. t.size \in Nat \ {0} /\ t.n <= t.size /\ t.n \in Nat /\ rate \in [0..(t.n - 1) -> Nat]
  BY SizeSound DEF TreeSound
<1>2. /\ leaf \in [0..(t.size - 1) -> Nat]
      /\ leaf = [i \in 0..(t.size - 1) |-> IF i < t.n THEN rate[i] ELSE 0]
  BY <1>1, PaddedSound
<1>3. /\ I \subseteq 0..(t.size - 1) /\ new \in [I -> Nat]
      /\ now \in [0..(t.n - 1) -> Nat]
      /\ \A i \in 0..(t.n - 1) : now[i] = IF i \in I THEN new[i] ELSE rate[i]
      /\ \A i \in 0..(t.size - 1) : ~(i < t.n) => i \notin I
  BY <1>1 DEF Replaced
<1>4. next = [n |-> t.n, size |-> t.size, node |-> next.node] /\ SumTree(next.node, t.size, sum)
  <2>1. t = [n |-> t.n, size |-> t.size, node |-> t.node] /\ SumTree(t.node, t.size, leaf)
    BY DEF TreeSound
  <2>2. leaf \in [0..(t.size - 1) -> Nat]
    BY <1>2
  <2> HIDE DEF leaf
  <2>3. sum \in [0..(t.size - 1) -> Nat]
    BY <1>3, <2>2
  <2>4. \A i \in 0..(t.size - 1) : sum[i] = IF i \in I THEN new[i] ELSE leaf[i]
    OBVIOUS
  <2> HIDE DEF sum
  <2> QED BY <1>1, <1>3, <2>1, <2>2, <2>3, <2>4, UpdatedSound
<1>5. Padded(t.size, t.n, now) = sum
  <2>1. Padded(t.size, t.n, now) = [i \in 0..(t.size - 1) |-> IF i < t.n THEN now[i] ELSE 0]
    <3>1. now \in [0..(t.n - 1) -> Nat]
      BY <1>3
    <3> QED BY <1>1, <3>1, PaddedSound
  <2>2. \A i \in 0..(t.size - 1) : (IF i < t.n THEN now[i] ELSE 0) = sum[i]
    BY <1>1, <1>2, <1>3
  <2> QED BY <2>1, <2>2
<1> HIDE DEF next, sum
<1>6. next.n = t.n /\ next.size = t.size
  BY <1>4
<1> QED BY <1>1, <1>3, <1>4, <1>5, <1>6 DEF TreeSound, next

LEMMA BuiltSound ==
  ASSUME NEW t, NEW rate, TreeSound(t, rate), NEW new \in [0..(t.n - 1) -> Nat]
  PROVE  TreeSound(Built(t, new), new) /\ Built(t, new).n = t.n
<1> DEFINE leaf == Padded(t.size, t.n, new)
           next == Built(t, new)
<1>1. t.size \in Nat \ {0} /\ t.n <= t.size /\ t.n \in Nat
  BY SizeSound DEF TreeSound
<1>2. leaf \in [0..(t.size - 1) -> Nat]
  BY <1>1, PaddedSound
<1>3. SumTree(Reduced(t.size, leaf), t.size, leaf)
  <2> HIDE DEF leaf
  <2> QED BY <1>1, <1>2, ReducedSound
<1>4. next = [n |-> t.n, size |-> t.size, node |-> Reduced(t.size, leaf)]
  BY DEF Built, TreeSound
<1> HIDE DEF next, leaf
<1>5. next.n = t.n /\ next.size = t.size /\ next.node = Reduced(t.size, leaf)
  BY <1>4
<1> QED BY <1>1, <1>3, <1>4, <1>5 DEF TreeSound, next, leaf

LEMMA GrownSound ==
  ASSUME NEW t, NEW rate, TreeSound(t, rate), NEW n \in Nat, n >= t.n
  PROVE  /\ TreeSound(Grown(t, n), [i \in 0..(n - 1) |-> IF i < t.n THEN rate[i] ELSE 0])
         /\ Grown(t, n).n = n
<1> DEFINE more == [i \in 0..(n - 1) |-> IF i < t.n THEN rate[i] ELSE 0]
           next == Grown(t, n)
           leaf == Padded(t.size, t.n, rate)
<1>1. t.size \in Nat \ {0} /\ t.n <= t.size /\ t.n \in Nat /\ rate \in [0..(t.n - 1) -> Nat]
  BY SizeSound DEF TreeSound
<1>2. more \in [0..(n - 1) -> Nat]
  BY <1>1
<1>3. Capacity(t.size, n) = Capacity(1, n) /\ Capacity(t.size, n) \in Nat \ {0} /\ Capacity(t.size, n) >= n
  BY <1>1, CapacitySound DEF TreeSound
<1>4. leaf = [i \in 0..(t.size - 1) |-> IF i < t.n THEN rate[i] ELSE 0]
  BY <1>1, PaddedSound
<1>5. CASE n <= t.size
  <2>1. next = [n |-> n, size |-> t.size, node |-> t.node]
    BY <1>5 DEF Grown, TreeSound
  <2>2. t.size = Capacity(1, n)
    BY <1>1, <1>3, <1>5, CapacityStep
  <2>3. Padded(t.size, n, more) = leaf
    <3>1. Padded(t.size, n, more) = [i \in 0..(t.size - 1) |-> IF i < n THEN more[i] ELSE 0]
      <4> HIDE DEF more
      <4> QED BY <1>1, <1>2, <1>5, PaddedSound
    <3>2. \A i \in 0..(t.size - 1) : (IF i < n THEN more[i] ELSE 0) = IF i < t.n THEN rate[i] ELSE 0
      BY <1>1
    <3> HIDE DEF more, leaf
    <3> QED BY <3>1, <3>2, <1>4
  <2>4. SumTree(t.node, t.size, leaf)
    BY DEF TreeSound
  <2> HIDE DEF next, more, leaf
  <2>5. next.n = n /\ next.size = t.size /\ next.node = t.node
    BY <2>1
  <2> QED BY <1>2, <2>1, <2>2, <2>3, <2>4, <2>5 DEF TreeSound, next, more
<1>6. CASE ~(n <= t.size)
  <2> DEFINE size == Capacity(t.size, n)
             full == Padded(size, t.n, Rates(t))
  <2>1. next = [n |-> n, size |-> size, node |-> Reduced(size, full)]
    BY <1>6 DEF Grown
  <2>2. \A i \in 0..(t.n - 1) : Rates(t)[i] = rate[i]
    <3> TAKE i \in 0..(t.n - 1)
    <3>1. t.size + i \in Heap(t.size) /\ t.size + i >= t.size /\ t.size + i - t.size = i
      BY <1>1 DEF Heap
    <3>2. t.node[t.size + i] = leaf[i]
      <4>1. SumTree(t.node, t.size, leaf)
        BY DEF TreeSound
      <4> HIDE DEF leaf
      <4> QED BY <1>1, <3>1, <4>1 DEF SumTree
    <3>3. leaf[i] = rate[i]
      BY <1>1, <1>4
    <3> QED BY <3>2, <3>3 DEF Rates
  <2>3. Rates(t) = rate
    BY <1>1, <2>2 DEF Rates
  <2>4. size \in Nat \ {0} /\ t.n <= size /\ n <= size /\ size = Capacity(1, n)
    BY <1>1, <1>3
  <2> HIDE DEF size
  <2>5. /\ full \in [0..(size - 1) -> Nat]
        /\ full = [i \in 0..(size - 1) |-> IF i < t.n THEN rate[i] ELSE 0]
    <3>1. full = Padded(size, t.n, rate)
      BY <2>3
    <3>2. /\ Padded(size, t.n, rate) \in [0..(size - 1) -> Nat]
          /\ Padded(size, t.n, rate) = [i \in 0..(size - 1) |-> IF i < t.n THEN rate[i] ELSE 0]
      <4>1. size \in Nat \ {0} /\ t.n <= size /\ t.n \in Nat /\ rate \in [0..(t.n - 1) -> Nat]
        BY <1>1, <2>4
      <4> QED BY <4>1, PaddedSound
    <3> HIDE DEF full
    <3> QED BY <3>1, <3>2
  <2>6. Padded(size, n, more) = full
    <3>1. Padded(size, n, more) = [i \in 0..(size - 1) |-> IF i < n THEN more[i] ELSE 0]
      <4> HIDE DEF more
      <4> QED BY <1>2, <2>4, PaddedSound
    <3>2. \A i \in 0..(size - 1) : (IF i < n THEN more[i] ELSE 0) = IF i < t.n THEN rate[i] ELSE 0
      BY <1>1
    <3> HIDE DEF more, full
    <3> QED BY <3>1, <3>2, <2>5
  <2>7. SumTree(Reduced(size, full), size, full)
    <3> HIDE DEF full
    <3> QED BY <2>4, <2>5, ReducedSound
  <2> HIDE DEF next, more, full
  <2>8. next.n = n /\ next.size = size /\ next.node = Reduced(size, full)
    BY <2>1
  <2> QED BY <1>2, <2>1, <2>4, <2>6, <2>7, <2>8 DEF TreeSound, next, more
<1> QED BY <1>1, <1>5, <1>6

\* A sound tree is the one a fresh index would build.
LEMMA Rebuilt ==
  ASSUME NEW t, NEW rate, TreeSound(t, rate)
  PROVE  t = Built([n |-> t.n, size |-> Capacity(1, t.n), node |-> << >>], rate)
<1> DEFINE leaf == Padded(t.size, t.n, rate)
<1>1. t.size \in Nat \ {0} /\ t.n <= t.size /\ t.n \in Nat /\ rate \in [0..(t.n - 1) -> Nat]
  BY SizeSound DEF TreeSound
<1>2. leaf \in [0..(t.size - 1) -> Nat]
  BY <1>1, PaddedSound
<1>3. t.node = Reduced(t.size, leaf)
  <2>1. SumTree(t.node, t.size, leaf)
    BY DEF TreeSound
  <2> HIDE DEF leaf
  <2> QED BY <1>1, <1>2, <2>1, SumTreeTyped
<1>4. Built([n |-> t.n, size |-> Capacity(1, t.n), node |-> << >>], rate)
        = [n |-> t.n, size |-> t.size, node |-> Reduced(t.size, leaf)]
  BY DEF Built, TreeSound
<1> QED BY <1>3, <1>4 DEF TreeSound

----------------------------------------------------------------------------
(* Sampling. *)

LEMMA TargetsSound ==
  ASSUME NEW x \in Nat, NEW a \in Nat
  PROVE  /\ Minus(x, a) \in Nat
         /\ a > 0 => Smaller(x, Below(a)) \in Nat
<1>1. Minus(x, a) \in Nat
  <2>1. CASE x < a
    BY <2>1 DEF Minus
  <2>2. CASE ~(x < a)
    <3>1. x - a \in Nat
      BY <2>2
    <3> QED BY <2>2, <3>1, FloatSound DEF Minus
  <2> QED BY <2>1, <2>2
<1>2. a > 0 => Smaller(x, Below(a)) \in Nat
  BY BelowSound DEF Smaller
<1> QED BY <1>1, <1>2

\* The descent goes to a child and on from there.
LEMMA DescentStep ==
  ASSUME NEW t, t.size \in Nat \ {0}, t.node \in [Heap(t.size) -> Nat],
         NEW p \in Heap(t.size), NEW x \in Nat
  PROVE  /\ p >= t.size => Descent(t, p, x) = p
         /\ p < t.size =>
              LET left == t.node[2 * p]
                  right == t.node[2 * p + 1]
              IN  /\ left > 0 /\ (x < left \/ right <= 0) =>
                       Descent(t, p, x) = Descent(t, 2 * p, Smaller(x, Below(left)))
                  /\ right > 0 /\ ~(left > 0 /\ x < left) =>
                       Descent(t, p, x) = Descent(t, 2 * p + 1, Smaller(Minus(x, left), Below(right)))
<1> DEFINE size == t.size
           D == Heap(size)
           V == [Nat -> Int]
           L(q) == t.node[2 * q]
           R(q) == t.node[2 * q + 1]
           Value(f, q, y) ==
             IF q >= size THEN q
             ELSE IF L(q) > 0 /\ (y < L(q) \/ R(q) <= 0) THEN f[2 * q][Smaller(y, Below(L(q)))]
             ELSE IF R(q) > 0 THEN f[2 * q + 1][Smaller(Minus(y, L(q)), Below(R(q)))]
             ELSE Nowhere
           Eq(f) == f = [q \in D |-> [y \in Nat |-> Value(f, q, y)]]
           H == [f \in [D -> V] |-> [q \in D |-> [y \in Nat |-> Value(f, q, y)]]]
           descent == CHOOSE f : Eq(f)
<1>1. ASSUME NEW q \in D, q < size, NEW y \in Nat
      PROVE  /\ L(q) \in Nat /\ R(q) \in Nat
             /\ L(q) > 0 => Smaller(y, Below(L(q))) \in Nat
             /\ R(q) > 0 => Smaller(Minus(y, L(q)), Below(R(q))) \in Nat
  <2>1. L(q) \in Nat /\ R(q) \in Nat
    BY <1>1, HeapChildren
  <2> HIDE DEF L, R
  <2>2. Minus(y, L(q)) \in Nat
    BY <2>1, TargetsSound
  <2> QED BY <2>1, <2>2, TargetsSound
<1>2. \A q \in D : q \in Nat /\ (q < size \/ q >= size) /\ (q < size => ~(q >= size))
  BY DEF Heap
<1>3. ASSUME NEW f \in [D -> V], NEW q \in D, NEW y \in Nat PROVE Value(f, q, y) \in Int
  <2>1. CASE q >= size
    BY <1>2, <2>1
  <2>2. CASE q < size
    <3>1. f[2 * q] \in V /\ f[2 * q + 1] \in V
      BY <2>2, HeapChildren
    <3> HIDE DEF L, R
    <3>2. L(q) > 0 => f[2 * q][Smaller(y, Below(L(q)))] \in Int
      BY <1>1, <2>2, <3>1
    <3>3. R(q) > 0 => f[2 * q + 1][Smaller(Minus(y, L(q)), Below(R(q)))] \in Int
      BY <1>1, <2>2, <3>1
    <3>4. Nowhere \in Int
      BY DEF Nowhere
    <3> QED BY <1>2, <2>2, <3>2, <3>3, <3>4
  <2> QED BY <1>2, <2>1, <2>2
<1>4. H \in [[D -> V] -> [D -> V]]
  <2> HIDE DEF Value
  <2> QED BY <1>3
<1>5. ASSUME NEW f \in [D -> V], NEW g \in [D -> V], NEW q \in D,
             q < size => f[2 * q] = g[2 * q] /\ f[2 * q + 1] = g[2 * q + 1]
      PROVE  H[f][q] = H[g][q]
  <2>1. \A y \in Nat : Value(f, q, y) = Value(g, q, y)
    <3> HIDE DEF L, R
    <3> QED BY <1>2, <1>5
  <2> HIDE DEF Value
  <2> QED BY <2>1
<1>6. FixedPoints(D, V, H) # {}
  <2>1. [q \in D |-> [y \in Nat |-> 0]] \in [D -> V]
    OBVIOUS
  <2> HIDE DEF H, V
  <2>2. HeapRecursive(size, V, H)
    BY <2>1, <1>4, <1>5 DEF HeapRecursive
  <2> QED BY <2>2, HeapRecursion
<1>7. PICK f \in [D -> V] : Eq(f)
  <2> HIDE DEF Value
  <2> QED BY <1>6 DEF FixedPoints
<1>8. Eq(descent)
  <2> HIDE DEF Eq
  <2> QED BY <1>7
<1>9. \A q, y : Descent(t, q, y) = descent[q][y]
  BY DEF Descent
<1> HIDE DEF descent
<1>10. \A q \in D, y \in Nat : Descent(t, q, y) = Value(descent, q, y)
  <2> HIDE DEF Value
  <2>1. \A q \in D : descent[q] = [y \in Nat |-> Value(descent, q, y)]
    BY <1>8
  <2>2. \A q \in D, y \in Nat : descent[q][y] = Value(descent, q, y)
    BY <2>1
  <2> QED BY <1>9, <2>2
<1>11. p >= size => Descent(t, p, x) = p
  BY <1>10
<1>12. ASSUME p < size PROVE
         /\ L(p) > 0 /\ (x < L(p) \/ R(p) <= 0) =>
              Descent(t, p, x) = Descent(t, 2 * p, Smaller(x, Below(L(p))))
         /\ R(p) > 0 /\ ~(L(p) > 0 /\ x < L(p)) =>
              Descent(t, p, x) = Descent(t, 2 * p + 1, Smaller(Minus(x, L(p)), Below(R(p))))
  <2>1. L(p) \in Nat /\ R(p) \in Nat /\ ~(p >= size)
    BY <1>1, <1>2, <1>12
  <2> HIDE DEF L, R
  <2> QED BY <1>9, <1>10, <2>1
<1> QED BY <1>11, <1>12

\* A node is zero if and only if all leaves below it are, so that a tree
\* without rates has an empty root.
LEMMA RootSound ==
  ASSUME NEW size \in Nat \ {0}, NEW leaf \in [0..(size - 1) -> Nat], NEW node, SumTree(node, size, leaf)
  PROVE  1 \in Heap(size) /\ (node[1] = 0 <=> \A i \in 0..(size - 1) : leaf[i] = 0)
<1>1. node \in [Heap(size) -> Nat] /\ 1 \in Heap(size)
  BY SumTreeTyped DEF Heap
<1>2. ASSUME NEW p \in Heap(size), p < size
      PROVE  node[p] = 0 <=> node[2 * p] = 0 /\ node[2 * p + 1] = 0
  <2>1. node[p] = Plus(node[2 * p], node[2 * p + 1])
    BY <1>2 DEF SumTree, Heap
  <2>2. node[2 * p] \in Nat /\ node[2 * p + 1] \in Nat
    BY <1>1, <1>2, HeapChildren
  <2> QED BY <2>1, <2>2, PlusSound
<1>3. \A i \in 0..(size - 1) : size + i \in Heap(size) /\ node[size + i] = leaf[i]
  BY DEF SumTree, Heap
<1>4. \A p \in Heap(size) : p >= size => p - size \in 0..(size - 1) /\ node[p] = leaf[p - size]
  BY DEF SumTree, Heap
<1>5. ASSUME \A i \in 0..(size - 1) : leaf[i] = 0 PROVE node[1] = 0
  <2> DEFINE G == {p \in Heap(size) : node[p] = 0}
  <2>1. \A p \in Heap(size) : p >= size => p \in G
    BY <1>4, <1>5
  <2>2. \A p \in Heap(size) : p < size /\ 2 * p \in G /\ 2 * p + 1 \in G => p \in G
    BY <1>2
  <2>3. G = Heap(size)
    <3>1. G \subseteq Heap(size)
      OBVIOUS
    <3> HIDE DEF G
    <3> QED BY <3>1, <2>1, <2>2, HeapInduction
  <2> QED BY <1>1, <2>3
<1>6. ASSUME NEW i \in 0..(size - 1), leaf[i] # 0 PROVE node[1] # 0
  <2> DEFINE P == {p \in Heap(size) : node[p] # 0}
  <2>1. PICK p \in P : \A k \in P : p <= k
    <3>1. P \subseteq Nat
      BY DEF Heap
    <3>2. size + i \in P
      BY <1>3, <1>6
    <3> HIDE DEF P
    <3> QED BY <3>1, <3>2, LeastExists
  <2> SUFFICES ASSUME p # 1 PROVE FALSE
    BY <2>1
  <2> DEFINE q == p \div 2
  <2>2. q \in Heap(size) /\ q < size /\ q < p /\ (p = 2 * q \/ p = 2 * q + 1)
    BY <2>1 DEF Heap
  <2>3. node[q] # 0
    BY <1>2, <2>1, <2>2
  <2>4. q \in Nat /\ p \in Nat /\ ~(p <= q)
    BY <2>1, <2>2 DEF Heap
  <2> HIDE DEF q
  <2> QED BY <2>1, <2>2, <2>3, <2>4
<1> QED BY <1>1, <1>5, <1>6

\* A descent from a node that is not empty ends on a leaf that is not.
LEMMA DescentLive ==
  ASSUME NEW t, t.size \in Nat \ {0}, NEW leaf \in [0..(t.size - 1) -> Nat],
         SumTree(t.node, t.size, leaf),
         NEW p \in Heap(t.size), t.node[p] > 0, NEW x \in Nat
  PROVE  LET q == Descent(t, p, x)
         IN  q \in Heap(t.size) /\ q >= t.size /\ t.node[q] > 0
<1> DEFINE size == t.size
           Live(q) == q \in Heap(size) /\ q >= size /\ t.node[q] > 0
           G == {q \in Heap(size) : t.node[q] > 0 => \A y \in Nat : Live(Descent(t, q, y))}
<1>1. t.node \in [Heap(size) -> Nat]
  BY SumTreeTyped
<1> HIDE DEF Live
<1>2. ASSUME NEW q \in Heap(size), q >= size PROVE q \in G
  BY <1>1, <1>2, DescentStep DEF Live
<1>3. ASSUME NEW q \in Heap(size), q < size, 2 * q \in G, 2 * q + 1 \in G PROVE q \in G
  <2> DEFINE L == t.node[2 * q]
             R == t.node[2 * q + 1]
  <2>1. 2 * q \in Heap(size) /\ 2 * q + 1 \in Heap(size) /\ L \in Nat /\ R \in Nat
    BY <1>1, <1>3, HeapChildren
  <2>2. t.node[q] = Plus(L, R)
    <3>1. ~(q >= size)
      BY <1>3 DEF Heap
    <3> QED BY <3>1 DEF SumTree
  <2> SUFFICES ASSUME t.node[q] > 0, NEW y \in Nat PROVE Live(Descent(t, q, y))
    OBVIOUS
  <2>3. L > 0 => \A z \in Nat : Live(Descent(t, 2 * q, z))
    BY <1>3
  <2>4. R > 0 => \A z \in Nat : Live(Descent(t, 2 * q + 1, z))
    BY <1>3
  <2>5. /\ L > 0 /\ (y < L \/ R <= 0) => Descent(t, q, y) = Descent(t, 2 * q, Smaller(y, Below(L)))
        /\ R > 0 /\ ~(L > 0 /\ y < L) =>
             Descent(t, q, y) = Descent(t, 2 * q + 1, Smaller(Minus(y, L), Below(R)))
    BY <1>1, <1>3, DescentStep
  <2> HIDE DEF L, R
  <2>6. L > 0 \/ R > 0
    BY <2>1, <2>2, PlusSound
  <2>7. Minus(y, L) \in Nat
    BY <2>1, TargetsSound
  <2>8. (L > 0 => Smaller(y, Below(L)) \in Nat) /\ (R > 0 => Smaller(Minus(y, L), Below(R)) \in Nat)
    BY <2>1, <2>7, TargetsSound
  <2>9. CASE L > 0 /\ (y < L \/ R <= 0)
    BY <2>3, <2>5, <2>8, <2>9
  <2>10. CASE R > 0 /\ ~(L > 0 /\ y < L)
    BY <2>4, <2>5, <2>8, <2>10
  <2> QED BY <2>1, <2>6, <2>9, <2>10
<1>4. G = Heap(size)
  <2>1. G \subseteq Heap(size)
    OBVIOUS
  <2> HIDE DEF G
  <2> QED BY <2>1, <1>2, <1>3, HeapInduction
<1>5. Live(Descent(t, p, x))
  BY <1>4
<1> QED BY <1>5 DEF Live

\* A draw finds a leaf with a rate if there is one, by the descent alone.
LEMMA SampledSound ==
  ASSUME NEW t, NEW rate, TreeSound(t, rate), NEW product \in Nat
  PROVE  LET i == Sampled(t, product)
         IN  IF \A j \in 0..(t.n - 1) : rate[j] = 0 THEN i = Nowhere
             ELSE /\ i \in 0..(t.n - 1) /\ rate[i] > 0
                  /\ i = Descent(t, 1, Smaller(product, Below(t.node[1]))) - t.size
<1> DEFINE size == t.size
           leaf == Padded(size, t.n, rate)
           target == Smaller(product, Below(t.node[1]))
           q == Descent(t, 1, target)
<1>1. size \in Nat \ {0} /\ t.n <= size /\ t.n \in Nat /\ rate \in [0..(t.n - 1) -> Nat]
  BY SizeSound DEF TreeSound
<1>2. /\ leaf \in [0..(size - 1) -> Nat]
      /\ leaf = [i \in 0..(size - 1) |-> IF i < t.n THEN rate[i] ELSE 0]
  BY <1>1, PaddedSound
<1>3. SumTree(t.node, size, leaf)
  BY DEF TreeSound
<1>4. \A i \in 0..(size - 1) : leaf[i] = IF i < t.n THEN rate[i] ELSE 0
  BY <1>2
<1> HIDE DEF leaf
<1>5. 1 \in Heap(size) /\ (t.node[1] = 0 <=> \A i \in 0..(size - 1) : leaf[i] = 0)
  BY <1>1, <1>2, <1>3, RootSound
<1>6. t.node \in [Heap(size) -> Nat] /\ t.node[1] \in Nat
  <2>1. t.node \in [Heap(size) -> Nat]
    BY <1>1, <1>2, <1>3, SumTreeTyped
  <2> QED BY <1>5, <2>1
<1>7. t.node[1] = 0 <=> \A j \in 0..(t.n - 1) : rate[j] = 0
  BY <1>1, <1>4, <1>5
<1>8. CASE t.node[1] = 0
  BY <1>7, <1>8 DEF Sampled
<1>9. CASE t.node[1] # 0
  <2>1. t.node[1] > 0 /\ ~(t.node[1] <= 0)
    BY <1>6, <1>9
  <2>2. target \in Nat
    BY <1>6, <2>1, TargetsSound
  <2> HIDE DEF target
  <2>3. q \in Heap(size) /\ q >= size /\ t.node[q] > 0
    BY <1>1, <1>2, <1>3, <1>5, <2>1, <2>2, DescentLive
  <2>4. Sampled(t, product) = IF q = Nowhere THEN Nowhere
                              ELSE IF q - size < t.n /\ t.node[q] > 0 THEN q - size
                              ELSE Scan(t, target)
    BY <2>1 DEF Sampled, target
  <2> HIDE DEF q
  <2>5. q - size \in 0..(size - 1) /\ q # Nowhere /\ t.node[q] = leaf[q - size]
    <3>1. q - size \in 0..(size - 1) /\ q # Nowhere
      BY <1>1, <2>3 DEF Heap, Nowhere
    <3>2. t.node[q] = leaf[q - size]
      BY <1>3, <2>3 DEF SumTree
    <3> QED BY <3>1, <3>2
  <2>6. q - size < t.n /\ rate[q - size] > 0 /\ q - size \in 0..(t.n - 1)
    BY <1>1, <1>4, <2>3, <2>5
  <2>7. Sampled(t, product) = q - size
    BY <2>3, <2>4, <2>5, <2>6
  <2>8. ~ \A j \in 0..(t.n - 1) : rate[j] = 0
    BY <1>7, <1>9
  <2> QED BY <2>6, <2>7, <2>8 DEF q, target
<1> QED BY <1>8, <1>9

----------------------------------------------------------------------------
(* Proportions: without rounding, the targets that end on a leaf are an
   interval as long as the leaf's rate. *)

ExactTree(node, size) ==
  /\ node \in [Heap(size) -> Nat] /\ node[1] <= Exact
  /\ \A p \in 1..(size - 1) : node[p] = node[2 * p] + node[2 * p + 1]

\* The sum of the leaves on the left of a node.
Offsets(node, size, left) ==
  /\ left \in [Heap(size) -> Nat] /\ left[1] = 0
  /\ \A p \in 1..(size - 1) : left[2 * p] = left[p] /\ left[2 * p + 1] = left[p] + node[2 * p]

LEMMA Parent ==
  ASSUME NEW size \in Nat \ {0}, NEW p \in Heap(size), p # 1
  PROVE  /\ p \div 2 \in Heap(size) /\ p \div 2 \in 1..(size - 1) /\ p \div 2 < p
         /\ p = 2 * (p \div 2) \/ p = 2 * (p \div 2) + 1
BY DEF Heap

LEMMA OffsetsExist ==
  ASSUME NEW size \in Nat \ {0}, NEW node \in [Heap(size) -> Nat]
  PROVE  \E left : Offsets(node, size, left)
<1> DEFINE D == Heap(size)
           Value(f, p) == IF p = 1 THEN 0
                          ELSE IF p = 2 * (p \div 2) THEN f[p \div 2]
                          ELSE f[p \div 2] + node[2 * (p \div 2)]
           H == [f \in [D -> Nat] |-> [p \in D |-> Value(f, p)]]
           r == [p \in D |-> p]
<1>1. ASSUME NEW f \in [D -> Nat], NEW p \in D PROVE Value(f, p) \in Nat
  <2>1. CASE p = 1
    BY <2>1
  <2>2. CASE p # 1
    <3> DEFINE q == p \div 2
    <3>1. q \in D /\ q < size
      BY <2>2, Parent
    <3>2. 2 * q \in D
      BY <3>1, HeapChildren
    <3> HIDE DEF q
    <3>3. f[q] \in Nat /\ node[2 * q] \in Nat
      BY <3>1, <3>2
    <3> QED BY <2>2, <3>3 DEF q
  <2> QED BY <2>1, <2>2
<1>2. H \in [[D -> Nat] -> [D -> Nat]]
  <2> HIDE DEF Value
  <2> QED BY <1>1
<1>3. r \in [D -> Nat] /\ [p \in D |-> 0] \in [D -> Nat]
  BY DEF Heap
<1>4. ASSUME NEW f \in [D -> Nat], NEW g \in [D -> Nat], NEW p \in D,
             \A y \in D : r[y] < r[p] => f[y] = g[y]
      PROVE  H[f][p] = H[g][p]
  <2>1. p # 1 => f[p \div 2] = g[p \div 2]
    <3> HAVE p # 1
    <3>1. p \div 2 \in D /\ p \div 2 < p
      BY Parent
    <3> QED BY <1>4, <3>1
  <2>2. Value(f, p) = Value(g, p)
    BY <2>1
  <2> HIDE DEF Value
  <2> QED BY <2>2
<1>5. FixedPoints(D, Nat, H) # {}
  <2> HIDE DEF D, H, r
  <2>1. Recursive(D, Nat, H, r)
    BY <1>2, <1>3, <1>4 DEF Recursive
  <2> QED BY <2>1, Recursion
<1>6. PICK f \in [D -> Nat] : f = [p \in D |-> Value(f, p)]
  <2> HIDE DEF Value
  <2> QED BY <1>5 DEF FixedPoints
<1>7. \A p \in D : f[p] = Value(f, p)
  <2> HIDE DEF Value
  <2> QED BY <1>6
<1>8. ASSUME NEW p \in 1..(size - 1)
      PROVE  f[2 * p] = f[p] /\ f[2 * p + 1] = f[p] + node[2 * p]
  <2>1. 2 * p \in D /\ 2 * p + 1 \in D
    BY DEF Heap
  <2>2. (2 * p) \div 2 = p /\ (2 * p + 1) \div 2 = p /\ 2 * p # 1 /\ 2 * p + 1 # 1 /\ 2 * p + 1 # 2 * p
    OBVIOUS
  <2>3. f[2 * p] = Value(f, 2 * p) /\ f[2 * p + 1] = Value(f, 2 * p + 1)
    BY <1>7, <2>1
  <2> QED BY <2>2, <2>3
<1>9. 1 \in D /\ f[1] = 0
  BY <1>7 DEF Heap
<1> QED BY <1>8, <1>9 DEF Offsets

\* No node is above the total.
LEMMA NodesBounded ==
  ASSUME NEW size \in Nat \ {0}, NEW node, ExactTree(node, size)
  PROVE  \A p \in Heap(size) : node[p] <= node[1]
<1> DEFINE Bad == {p \in Heap(size) : ~(node[p] <= node[1])}
<1> SUFFICES ASSUME Bad # {} PROVE FALSE
  OBVIOUS
<1>1. PICK p \in Bad : \A k \in Bad : p <= k
  <2>1. Bad \subseteq Nat
    BY DEF Heap
  <2> HIDE DEF Bad
  <2> QED BY <2>1, LeastExists
<1>2. node \in [Heap(size) -> Nat] /\ 1 \in Heap(size)
  BY DEF ExactTree, Heap
<1>3. p # 1
  BY <1>1, <1>2
<1> DEFINE q == p \div 2
<1>4. q \in Heap(size) /\ q \in 1..(size - 1) /\ q < p /\ (p = 2 * q \/ p = 2 * q + 1)
  BY <1>1, <1>3, Parent
<1> HIDE DEF q
<1>5. node[q] <= node[1]
  <2>1. ~(p <= q)
    BY <1>1, <1>4 DEF Heap
  <2> QED BY <1>1, <1>4, <2>1
<1>6. node[q] = node[2 * q] + node[2 * q + 1]
  BY <1>4 DEF ExactTree
<1>7. node[2 * q] \in Nat /\ node[2 * q + 1] \in Nat /\ node[q] \in Nat /\ node[1] \in Nat
  <2>1. 2 * q \in Heap(size) /\ 2 * q + 1 \in Heap(size)
    BY <1>4, HeapChildren
  <2> QED BY <1>2, <1>4, <2>1
<1>8. node[p] <= node[q]
  BY <1>4, <1>6, <1>7
<1> QED BY <1>1, <1>4, <1>5, <1>7, <1>8

\* Without rounding, the descent compares and subtracts.
LEMMA ExactDescent ==
  ASSUME NEW t, t.size \in Nat \ {0}, ExactTree(t.node, t.size),
         NEW p \in Heap(t.size), p < t.size, NEW x \in Nat, x < t.node[p]
  PROVE  LET L == t.node[2 * p]
         IN  /\ x < L => Descent(t, p, x) = Descent(t, 2 * p, x)
             /\ ~(x < L) => /\ Descent(t, p, x) = Descent(t, 2 * p + 1, x - L)
                            /\ x - L \in Nat /\ x - L < t.node[2 * p + 1]
<1> DEFINE L == t.node[2 * p]
           R == t.node[2 * p + 1]
<1>1. t.node \in [Heap(t.size) -> Nat] /\ t.node[1] <= Exact /\ t.node[1] \in Nat
  <2>1. 1 \in Heap(t.size)
    BY DEF Heap
  <2> QED BY <2>1 DEF ExactTree
<1>2. 2 * p \in Heap(t.size) /\ 2 * p + 1 \in Heap(t.size)
  BY HeapChildren
<1>3. L \in Nat /\ R \in Nat /\ t.node[p] \in Nat /\ t.node[p] <= t.node[1]
  BY <1>1, <1>2, NodesBounded
<1>4. t.node[p] = L + R
  <2>1. p \in 1..(t.size - 1)
    BY DEF Heap
  <2> QED BY <2>1 DEF ExactTree
<1>5. /\ L > 0 /\ (x < L \/ R <= 0) => Descent(t, p, x) = Descent(t, 2 * p, Smaller(x, Below(L)))
      /\ R > 0 /\ ~(L > 0 /\ x < L) =>
           Descent(t, p, x) = Descent(t, 2 * p + 1, Smaller(Minus(x, L), Below(R)))
  BY <1>1, DescentStep
<1> HIDE DEF L, R
<1>6. L <= Exact /\ R <= Exact /\ x < Exact /\ Exact \in Nat
  BY <1>1, <1>3, <1>4, ExactAssumption
<1>7. ASSUME x < L PROVE Descent(t, p, x) = Descent(t, 2 * p, x)
  <2>1. L > 0 /\ Below(L) = L - 1
    BY <1>3, <1>6, <1>7, BelowSound
  <2>2. Smaller(x, Below(L)) = x
    BY <1>3, <1>7, <2>1 DEF Smaller
  <2> QED BY <1>5, <1>7, <2>1, <2>2
<1>8. ASSUME ~(x < L)
      PROVE  Descent(t, p, x) = Descent(t, 2 * p + 1, x - L) /\ x - L \in Nat /\ x - L < R
  <2>1. x - L \in Nat /\ x - L < R /\ x - L < Exact /\ R > 0
    BY <1>3, <1>4, <1>6, <1>8
  <2>2. Minus(x, L) = x - L
    BY <1>8, <2>1, FloatSound DEF Minus
  <2>3. Below(R) = R - 1
    BY <1>3, <1>6, <2>1, BelowSound
  <2>4. Smaller(x - L, R - 1) = x - L
    BY <1>3, <2>1 DEF Smaller
  <2> QED BY <1>5, <1>8, <2>1, <2>2, <2>3, <2>4
<1> QED BY <1>7, <1>8 DEF L, R

\* The target lies in the leaf's interval.
LEMMA DescentWithin ==
  ASSUME NEW t, t.size \in Nat \ {0}, ExactTree(t.node, t.size),
         NEW left, Offsets(t.node, t.size, left),
         NEW p \in Heap(t.size), NEW x \in Nat, x < t.node[p]
  PROVE  LET q == Descent(t, p, x)
         IN  q \in Heap(t.size) /\ left[q] <= left[p] + x /\ left[p] + x < left[q] + t.node[q]
<1> DEFINE size == t.size
           Within(q, at) == q \in Heap(size) /\ left[q] <= at /\ at < left[q] + t.node[q]
           G == {q \in Heap(size) : \A y \in Nat : y < t.node[q] => Within(Descent(t, q, y), left[q] + y)}
<1>1. t.node \in [Heap(size) -> Nat] /\ left \in [Heap(size) -> Nat]
  BY DEF ExactTree, Offsets
<1>2. ASSUME NEW q \in Heap(size), q >= size PROVE q \in G
  <2> SUFFICES ASSUME NEW y \in Nat, y < t.node[q] PROVE Within(Descent(t, q, y), left[q] + y)
    OBVIOUS
  <2>1. Descent(t, q, y) = q
    BY <1>1, <1>2, DescentStep
  <2>2. left[q] \in Nat /\ t.node[q] \in Nat
    BY <1>1
  <2>3. left[q] <= left[q] + y /\ left[q] + y < left[q] + t.node[q]
    BY <2>2
  <2> QED BY <2>1, <2>3
<1> HIDE DEF Within
<1>3. ASSUME NEW q \in Heap(size), q < size, 2 * q \in G, 2 * q + 1 \in G PROVE q \in G
  <2> SUFFICES ASSUME NEW y \in Nat, y < t.node[q] PROVE Within(Descent(t, q, y), left[q] + y)
    OBVIOUS
  <2> DEFINE L == t.node[2 * q]
  <2>1. L \in Nat /\ left[q] \in Nat
    BY <1>1, <1>3, HeapChildren
  <2>2. left[2 * q] = left[q] /\ left[2 * q + 1] = left[q] + L
    <3>1. q \in 1..(size - 1)
      BY <1>3 DEF Heap
    <3> QED BY <3>1 DEF Offsets
  <2>3. /\ y < L => Descent(t, q, y) = Descent(t, 2 * q, y)
        /\ ~(y < L) => /\ Descent(t, q, y) = Descent(t, 2 * q + 1, y - L)
                       /\ y - L \in Nat /\ y - L < t.node[2 * q + 1]
    BY <1>3, ExactDescent
  <2>4. y < L => Within(Descent(t, 2 * q, y), left[2 * q] + y)
    BY <1>3
  <2>5. ~(y < L) => Within(Descent(t, 2 * q + 1, y - L), left[2 * q + 1] + (y - L))
    BY <1>3, <2>3
  <2> HIDE DEF L, G
  <2>6. left[q] + L + (y - L) = left[q] + y
    BY <2>1
  <2> QED BY <2>2, <2>3, <2>4, <2>5, <2>6
<1>4. G = Heap(size)
  <2>1. G \subseteq Heap(size)
    OBVIOUS
  <2> HIDE DEF G
  <2> QED BY <2>1, <1>2, <1>3, HeapInduction
<1>5. Within(Descent(t, p, x), left[p] + x)
  BY <1>4
<1> QED BY <1>5 DEF Within

\* Every target of a node's interval goes through the node.
LEMMA DescentThrough ==
  ASSUME NEW t, t.size \in Nat \ {0}, ExactTree(t.node, t.size),
         NEW left, Offsets(t.node, t.size, left),
         NEW p \in Heap(t.size), NEW x \in Nat, x < t.node[p]
  PROVE  left[p] + x < t.node[1] /\ Descent(t, 1, left[p] + x) = Descent(t, p, x)
<1> DEFINE size == t.size
           Through(q, y) == left[q] + y < t.node[1] /\ Descent(t, 1, left[q] + y) = Descent(t, q, y)
           Bad == {q \in Heap(size) : ~ \A y \in Nat : y < t.node[q] => Through(q, y)}
<1>1. t.node \in [Heap(size) -> Nat] /\ left \in [Heap(size) -> Nat] /\ left[1] = 0
  BY DEF ExactTree, Offsets
<1> SUFFICES ASSUME Bad # {} PROVE FALSE
  OBVIOUS
<1>2. PICK q \in Bad : \A k \in Bad : q <= k
  <2>1. Bad \subseteq Nat
    BY DEF Heap
  <2> HIDE DEF Bad
  <2> QED BY <2>1, LeastExists
<1>3. q # 1
  <2>1. \A y \in Nat : left[1] + y = y
    BY <1>1
  <2> QED BY <1>2, <2>1
<1> DEFINE r == q \div 2
           L == t.node[2 * r]
<1>4. r \in Heap(size) /\ r \in 1..(size - 1) /\ r < size /\ r < q /\ (q = 2 * r \/ q = 2 * r + 1)
  BY <1>2, <1>3, Parent
<1> HIDE DEF r
<1>5. \A y \in Nat : y < t.node[r] => Through(r, y)
  <2>1. ~(q <= r)
    BY <1>2, <1>4 DEF Heap
  <2> HIDE DEF Through
  <2> QED BY <1>2, <1>4, <2>1
<1>6. PICK y \in Nat : y < t.node[q] /\ ~Through(q, y)
  BY <1>2
<1>7. L \in Nat /\ t.node[2 * r + 1] \in Nat /\ left[r] \in Nat
  BY <1>1, <1>4, HeapChildren
<1>8. /\ left[2 * r] = left[r] /\ left[2 * r + 1] = left[r] + L
      /\ t.node[r] = L + t.node[2 * r + 1]
  BY <1>4 DEF Offsets, ExactTree
<1>9. CASE q = 2 * r
  <2>1. y < L /\ y < t.node[r]
    BY <1>6, <1>7, <1>8, <1>9
  <2>2. Descent(t, r, y) = Descent(t, 2 * r, y)
    BY <1>4, <2>1, ExactDescent
  <2>3. Through(r, y)
    BY <1>5, <2>1
  <2> QED BY <1>6, <1>8, <1>9, <2>2, <2>3
<1>10. CASE q = 2 * r + 1
  <2> DEFINE z == L + y
  <2>1. z \in Nat /\ z < t.node[r] /\ ~(z < L) /\ z - L = y /\ left[r] + z = left[q] + y
    BY <1>6, <1>7, <1>8, <1>10
  <2> HIDE DEF z
  <2>2. Descent(t, r, z) = Descent(t, 2 * r + 1, z - L)
    BY <1>4, <2>1, ExactDescent
  <2>3. Through(r, z)
    BY <1>5, <2>1
  <2> QED BY <1>6, <1>10, <2>1, <2>2, <2>3
<1> QED BY <1>4, <1>9, <1>10

\* A leaf is drawn by as many targets as its rate says.
LEMMA ProportionalSound ==
  ASSUME NEW t, NEW rate, TreeSound(t, rate), ExactTree(t.node, t.size), NEW i \in 0..(t.n - 1)
  PROVE  Cardinality({x \in 0..(t.node[1] - 1) : Sampled(t, x) = i}) = rate[i]
<1> DEFINE size == t.size
           q == size + i
           total == t.node[1]
           drawing == {x \in 0..(total - 1) : Sampled(t, x) = i}
<1>1. size \in Nat \ {0} /\ t.n <= size /\ t.n \in Nat /\ rate \in [0..(t.n - 1) -> Nat]
  BY SizeSound DEF TreeSound
<1>2. t.node \in [Heap(size) -> Nat] /\ total <= Exact
  BY DEF ExactTree
<1>3. q \in Heap(size) /\ q >= size /\ 1 \in Heap(size) /\ total \in Nat
  <2>1. q \in Heap(size) /\ q >= size /\ 1 \in Heap(size)
    BY <1>1 DEF Heap
  <2> QED BY <1>2, <2>1
<1>4. t.node[q] = rate[i] /\ rate[i] \in Nat
  <2> DEFINE leaf == Padded(size, t.n, rate)
  <2>1. leaf = [j \in 0..(size - 1) |-> IF j < t.n THEN rate[j] ELSE 0]
    BY <1>1, PaddedSound
  <2>2. SumTree(t.node, size, leaf)
    BY DEF TreeSound
  <2>3. q - size = i /\ i \in 0..(size - 1) /\ i < t.n
    BY <1>1
  <2>4. leaf[i] = rate[i]
    BY <2>1, <2>3
  <2> HIDE DEF leaf, q
  <2>5. t.node[q] = leaf[q - size]
    BY <1>3, <2>2 DEF SumTree
  <2> QED BY <1>1, <2>3, <2>4, <2>5
<1>5. PICK left : Offsets(t.node, size, left)
  BY <1>1, <1>2, OffsetsExist
<1>6. left[q] \in Nat /\ left[1] = 0
  BY <1>3, <1>5 DEF Offsets
<1> HIDE DEF q
<1>7. ASSUME NEW x \in 0..(total - 1)
      PROVE  Sampled(t, x) = i <=> Descent(t, 1, x) = q
  <2>1. Below(total) = total - 1
    BY <1>2, <1>3, BelowSound
  <2>2. Smaller(x, Below(total)) = x
    BY <1>3, <2>1 DEF Smaller
  <2>3. total # 0 /\ x \in Nat
    BY <1>3
  <2>4. ~ \A j \in 0..(t.n - 1) : rate[j] = 0
    <3> DEFINE leaf == Padded(size, t.n, rate)
    <3>1. leaf \in [0..(size - 1) -> Nat] /\ SumTree(t.node, size, leaf)
      BY <1>1, PaddedSound DEF TreeSound
    <3>2. leaf = [j \in 0..(size - 1) |-> IF j < t.n THEN rate[j] ELSE 0]
      BY <1>1, PaddedSound
    <3>3. \A j \in 0..(size - 1) : leaf[j] = IF j < t.n THEN rate[j] ELSE 0
      BY <3>2
    <3> HIDE DEF leaf
    <3>4. ~ \A j \in 0..(size - 1) : leaf[j] = 0
      BY <1>1, <2>3, <3>1, RootSound
    <3> QED BY <1>1, <3>3, <3>4
  <2>5. Sampled(t, x) = Descent(t, 1, Smaller(x, Below(total))) - size
    BY <2>3, <2>4, SampledSound
  <2>6. Sampled(t, x) = Descent(t, 1, x) - size
    BY <2>2, <2>5
  <2>7. Descent(t, 1, x) \in Nat
    <3>1. x < total
      BY <1>3
    <3>2. Descent(t, 1, x) \in Heap(size)
      BY <1>1, <1>3, <1>5, <2>3, <3>1, DescentWithin
    <3> QED BY <3>2 DEF Heap
  <2> QED BY <1>1, <2>6, <2>7 DEF q
<1>8. drawing = left[q]..(left[q] + rate[i] - 1)
  <2>1. ASSUME NEW x \in drawing PROVE x \in left[q]..(left[q] + rate[i] - 1)
    <3>1. x \in 0..(total - 1) /\ x \in Nat /\ x < total /\ left[1] + x = x
      BY <1>3, <1>6
    <3>2. Descent(t, 1, x) = q
      BY <1>7, <3>1
    <3>3. left[q] <= left[1] + x /\ left[1] + x < left[q] + t.node[q]
      BY <1>1, <1>3, <1>5, <3>1, <3>2, DescentWithin
    <3> QED BY <1>4, <1>6, <3>1, <3>3
  <2>2. ASSUME NEW x \in left[q]..(left[q] + rate[i] - 1) PROVE x \in drawing
    <3> DEFINE y == x - left[q]
    <3>1. y \in Nat /\ y < t.node[q] /\ left[q] + y = x /\ x \in Nat
      BY <1>4, <1>6
    <3> HIDE DEF y
    <3>2. left[q] + y < total /\ Descent(t, 1, left[q] + y) = Descent(t, q, y)
      BY <1>1, <1>3, <1>5, <3>1, DescentThrough
    <3>3. Descent(t, q, y) = q
      BY <1>1, <1>2, <1>3, <3>1, DescentStep
    <3>4. x \in 0..(total - 1) /\ Descent(t, 1, x) = q
      BY <1>3, <3>1, <3>2, <3>3
    <3> QED BY <1>7, <3>4
  <2> HIDE DEF drawing
  <2> QED BY <2>1, <2>2
<1>9. Cardinality(left[q]..(left[q] + rate[i] - 1)) = rate[i]
  <2> DEFINE a == left[q]
             b == left[q] + rate[i] - 1
  <2>1. a \in Int /\ b \in Int /\ (a > b <=> rate[i] = 0) /\ b - a + 1 = rate[i]
    BY <1>4, <1>6
  <2> HIDE DEF a, b
  <2>2. Cardinality(a..b) = IF a > b THEN 0 ELSE b - a + 1
    BY <2>1, FS_Interval
  <2>3. Cardinality(a..b) = rate[i]
    BY <2>1, <2>2
  <2> QED BY <2>3 DEF a, b
<1> QED BY <1>8, <1>9

----------------------------------------------------------------------------
(* The inductive invariant. *)

\* The rates of the leaves in use.
Weights == [i \in 0..(tree.n - 1) |-> RateOf(reactions[i])]

LayoutInv ==
  /\ DOMAIN base \subseteq Sites /\ base \in [DOMAIN base -> Nat]
  /\ reactions = [i \in 0..(tree.n - 1) |-> reactions[i]]
  /\ \A s \in DOMAIN base : base[s] + Members[s] <= tree.n
  /\ \A s, r \in DOMAIN base : s # r => SiteLeaves(s) \cap SiteLeaves(r) = {}

\* What is installed at a leaf has been offered by its member.
ReactionsInv ==
  \A i \in DOMAIN reactions :
    \/ reactions[i] = NoReaction
    \/ \E s \in DOMAIN base : \E m \in MembersOf(s) : i = LeafId(s, m) /\ reactions[i] \in Offers(s, m)

IInv == LayoutInv /\ ReactionsInv /\ TreeSound(tree, Weights) /\ NoneSuppressed

LEMMA OfferSound ==
  ASSUME NEW s \in Sites, NEW m \in MembersOf(s), NEW x \in Offers(s, m), NEW suppressed
  PROVE  /\ RateOf(x) \in Nat /\ RateOf(NoReaction) = 0 /\ NoReaction \in Offers(s, m)
         /\ Admissible(x, suppressed) \in Offers(s, m)
         /\ Admissible(Admissible(x, suppressed), suppressed) = Admissible(x, suppressed)
         /\ Admissible(NoReaction, suppressed) = NoReaction
         /\ x # NoReaction => x.site = s /\ x.class = ClassOf[<<s, m>>]
<1>1. x = NoReaction \/ \E q \in ReactionRates : x = [site |-> s, class |-> ClassOf[<<s, m>>], rate |-> q]
  BY DEF Offers
<1>2. x # NoReaction => x.rate \in Nat /\ x.site = s /\ x.class = ClassOf[<<s, m>>]
  BY <1>1, SitesAssumption
<1>3. RateOf(x) \in Nat /\ RateOf(NoReaction) = 0
  BY <1>2 DEF RateOf, Larger
<1>4. NoReaction \in Offers(s, m)
  BY DEF Offers
<1>5. Admissible(x, suppressed) \in {x, NoReaction} /\ Admissible(NoReaction, suppressed) = NoReaction
  BY DEF Admissible
<1>6. Admissible(Admissible(x, suppressed), suppressed) = Admissible(x, suppressed)
  BY DEF Admissible
<1> QED BY <1>2, <1>3, <1>4, <1>5, <1>6

\* Of a member that is indexed, and of a leaf that is in use.
LEMMA LeafSound ==
  ASSUME LayoutInv, tree.n \in Nat, NEW s \in DOMAIN base
  PROVE  /\ s \in Sites /\ base[s] \in Nat /\ Members[s] \in Nat
         /\ SiteLeaves(s) \subseteq 0..(tree.n - 1)
         /\ DOMAIN reactions = 0..(tree.n - 1)
         /\ \A m \in MembersOf(s) : LeafId(s, m) \in SiteLeaves(s)
         /\ \A i \in SiteLeaves(s) : i - base[s] \in MembersOf(s) /\ i = LeafId(s, i - base[s])
<1>1. s \in Sites /\ base[s] \in Nat /\ Members[s] \in Nat /\ base[s] + Members[s] <= tree.n
  BY SitesAssumption DEF LayoutInv
<1>2. \A m \in MembersOf(s) : base[s] + m \in 0..(tree.n - 1) /\ base[s] + m - base[s] = m
  BY <1>1 DEF MembersOf
<1>3. DOMAIN reactions = 0..(tree.n - 1)
  BY DEF LayoutInv
<1>4. \A m \in MembersOf(s) : LeafId(s, m) \in SiteLeaves(s)
  BY DEF SiteLeaves, LeafId
<1>5. ASSUME NEW i \in SiteLeaves(s)
      PROVE  i \in 0..(tree.n - 1) /\ i - base[s] \in MembersOf(s) /\ i = LeafId(s, i - base[s])
  <2>1. PICK m \in MembersOf(s) : i = base[s] + m
    BY DEF SiteLeaves
  <2>2. i \in 0..(tree.n - 1) /\ i - base[s] = m
    BY <1>1, <1>2, <2>1 DEF MembersOf
  <2> QED BY <2>1, <2>2 DEF LeafId
<1>6. SiteLeaves(s) \subseteq 0..(tree.n - 1)
  BY <1>5
<1> QED BY <1>1, <1>3, <1>4, <1>5, <1>6

LEMMA WeightsTyped ==
  ASSUME LayoutInv, ReactionsInv, tree.n \in Nat
  PROVE  Weights \in [0..(tree.n - 1) -> Nat]
<1>1. ASSUME NEW i \in 0..(tree.n - 1) PROVE RateOf(reactions[i]) \in Nat
  <2>1. i \in DOMAIN reactions
    BY DEF LayoutInv
  <2>2. CASE reactions[i] = NoReaction
    BY <2>2 DEF RateOf
  <2>3. CASE \E s \in DOMAIN base : \E m \in MembersOf(s) : i = LeafId(s, m) /\ reactions[i] \in Offers(s, m)
    BY <2>3, LeafSound, OfferSound
  <2> QED BY <2>1, <2>2, <2>3 DEF ReactionsInv
<1> QED BY <1>1 DEF Weights

LEMMA InitInv == Init => IInv
<1> SUFFICES ASSUME Init PROVE IInv
  OBVIOUS
<1>1. base = [s \in {} |-> 0] /\ tree = Empty /\ reactions = [i \in {} |-> NoReaction] /\ composite = {}
  BY DEF Init
<1>2. tree.n = 0 /\ tree.size = 1 /\ tree.node = [p \in {1} |-> 0]
      /\ tree = [n |-> tree.n, size |-> tree.size, node |-> tree.node]
  BY <1>1 DEF Empty
<1>3. LayoutInv
  <2>1. 0..(tree.n - 1) = {}
    BY <1>2
  <2> QED BY <1>1, <2>1 DEF LayoutInv
<1>4. ReactionsInv /\ NoneSuppressed
  BY <1>1 DEF ReactionsInv, NoneSuppressed
<1>5. Weights \in [0..(tree.n - 1) -> Nat]
  BY <1>2, <1>3, <1>4, WeightsTyped
<1>6. tree.size = Capacity(1, tree.n)
  BY <1>2, CapacityStep
<1>7. SumTree(tree.node, tree.size, Padded(tree.size, tree.n, Weights))
  <2>1. Padded(1, 0, Weights) = [i \in 0..0 |-> 0]
    BY DEF Padded
  <2>2. Heap(1) = {1}
    BY DEF Heap
  <2>3. \A p \in {1} : tree.node[p] = [i \in 0..0 |-> 0][p - 1] /\ p >= 1
    BY <1>2
  <2> QED BY <1>2, <2>1, <2>2, <2>3 DEF SumTree
<1>8. TreeSound(tree, Weights)
  BY <1>2, <1>5, <1>6, <1>7 DEF TreeSound
<1> QED BY <1>3, <1>4, <1>8 DEF IInv

----------------------------------------------------------------------------
(* New sites. *)

\* Where the leaves of each new site end.
EndsOf(k, new, n, end) == end = [j \in 0..k |-> IF j = 0 THEN n ELSE end[j - 1] + Members[new[j]]]

LEMMA EndExists ==
  ASSUME NEW k \in Nat, NEW new \in [1..k -> Sites], NEW n \in Nat
  PROVE  \E end : EndsOf(k, new, n, end)
<1> DEFINE D == 0..k
           H == [f \in [D -> Nat] |-> [j \in D |-> IF j = 0 THEN n ELSE f[j - 1] + Members[new[j]]]]
           r == [j \in D |-> j]
<1>1. ASSUME NEW j \in D, j # 0 PROVE j - 1 \in D /\ r[j - 1] < r[j] /\ Members[new[j]] \in Nat
  BY <1>1, SitesAssumption
<1>2. ASSUME NEW f \in [D -> Nat], NEW j \in D
      PROVE  (IF j = 0 THEN n ELSE f[j - 1] + Members[new[j]]) \in Nat
  <2>1. CASE j = 0
    BY <2>1
  <2>2. CASE j # 0
    <3>1. f[j - 1] \in Nat /\ Members[new[j]] \in Nat
      BY <1>1, <2>2
    <3> QED BY <2>2, <3>1
  <2> QED BY <2>1, <2>2
<1>3. H \in [[D -> Nat] -> [D -> Nat]] /\ r \in [D -> Nat] /\ [j \in D |-> 0] \in [D -> Nat]
  <2>1. \A f \in [D -> Nat] :
          [j \in D |-> IF j = 0 THEN n ELSE f[j - 1] + Members[new[j]]] \in [D -> Nat]
    BY <1>2
  <2>2. H \in [[D -> Nat] -> [D -> Nat]]
    <3> HIDE DEF D
    <3> QED BY <2>1
  <2>3. r \in [D -> Nat]
    OBVIOUS
  <2>4. [j \in D |-> 0] \in [D -> Nat]
    OBVIOUS
  <2> HIDE DEF H, r
  <2> QED BY <2>2, <2>3, <2>4
<1>4. ASSUME NEW f \in [D -> Nat], NEW g \in [D -> Nat], NEW j \in D,
             \A y \in D : r[y] < r[j] => f[y] = g[y]
      PROVE  H[f][j] = H[g][j]
  <2>1. j # 0 => f[j - 1] = g[j - 1]
    BY <1>1, <1>4
  <2> QED BY <2>1
<1>5. FixedPoints(D, Nat, H) # {}
  <2> HIDE DEF D, H, r
  <2>1. Recursive(D, Nat, H, r)
    BY <1>3, <1>4 DEF Recursive
  <2> QED BY <2>1, Recursion
<1>6. PICK f \in [D -> Nat] : f = [j \in D |-> IF j = 0 THEN n ELSE f[j - 1] + Members[new[j]]]
  BY <1>5 DEF FixedPoints
<1> QED BY <1>6 DEF EndsOf

LEMMA EndSound ==
  ASSUME NEW k \in Nat, NEW new \in [1..k -> Sites], NEW n \in Nat, NEW end, EndsOf(k, new, n, end)
  PROVE  /\ end[0] = n /\ \A j \in 1..k : end[j] = end[j - 1] + Members[new[j]]
         /\ \A j \in 0..k : end[j] \in Nat /\ \A i \in 0..j : end[i] <= end[j]
<1> DEFINE D == 0..k
<1>1. \A j \in 1..k : Members[new[j]] \in Nat
  BY SitesAssumption
<1>2. end[0] = n /\ \A j \in 1..k : end[j] = end[j - 1] + Members[new[j]]
  <2>1. 0 \in 0..k /\ \A j \in 1..k : j \in 0..k /\ j # 0
    OBVIOUS
  <2> QED BY <2>1 DEF EndsOf
<1> DEFINE Good(j) == end[j] \in Nat /\ \A i \in 0..j : end[i] <= end[j]
           Bad == {j \in D : ~Good(j)}
<1>3. Bad = {}
  <2> SUFFICES ASSUME Bad # {} PROVE FALSE
    OBVIOUS
  <2>1. PICK j \in Bad : \A l \in Bad : j <= l
    <3>1. Bad \subseteq Nat
      OBVIOUS
    <3> HIDE DEF Bad
    <3> QED BY <3>1, LeastExists
  <2>2. j # 0
    <3>1. \A i \in 0..0 : i = 0
      OBVIOUS
    <3>2. Good(0)
      BY <1>2, <3>1
    <3> QED BY <2>1, <3>2
  <2>3. j - 1 \in D /\ ~(j <= j - 1) /\ j \in 1..k
    BY <2>1, <2>2
  <2>4. Good(j - 1)
    BY <2>1, <2>3
  <2>5. end[j] = end[j - 1] + Members[new[j]] /\ Members[new[j]] \in Nat
    BY <1>1, <1>2, <2>3
  <2>6. end[j] \in Nat /\ end[j - 1] <= end[j]
    BY <2>4, <2>5
  <2>7. ASSUME NEW i \in 0..j PROVE end[i] <= end[j]
    <3>1. i = j \/ i \in 0..(j - 1)
      BY <2>3
    <3>2. CASE i \in 0..(j - 1)
      <4>1. end[i] <= end[j - 1] /\ end[i] \in Nat
        <5>1. i \in D /\ ~(j <= i)
          BY <2>3, <3>2
        <5> QED BY <2>1, <2>4, <3>2, <5>1
      <4> QED BY <2>4, <2>6, <4>1
    <3> QED BY <2>6, <3>1, <3>2
  <2> QED BY <2>1, <2>6, <2>7
<1> QED BY <1>2, <1>3

LEMMA ExtendStep ==
  ASSUME IInv, NEW k \in Nat, NEW new \in [1..k -> Sites], ExtendSites(new)
  PROVE  IInv'
<1> DEFINE end == CHOOSE f : f = [j \in 0..k |-> IF j = 0 THEN tree.n ELSE f[j - 1] + Members[new[j]]]
           n == end[k]
           at(s) == CHOOSE j \in DOMAIN new : new[j] = s
<1>1. tree.n \in Nat /\ LayoutInv /\ ReactionsInv /\ NoneSuppressed /\ TreeSound(tree, Weights)
  BY DEF IInv, TreeSound
<1>2. Len(new) = k /\ DOMAIN new = 1..k
  OBVIOUS
<1>3. /\ IsInjective(new) /\ Range(new) \cap DOMAIN base = {}
      /\ base' = [s \in DOMAIN base \cup Range(new) |-> IF s \in DOMAIN base THEN base[s] ELSE end[at(s) - 1]]
      /\ tree' = Grown(tree, n)
      /\ reactions' = [i \in 0..(n - 1) |-> IF i < tree.n THEN reactions[i] ELSE NoReaction]
      /\ composite' = composite
  BY <1>2 DEF ExtendSites
<1>4. /\ end[0] = tree.n /\ \A j \in 1..k : end[j] = end[j - 1] + Members[new[j]]
      /\ \A j \in 0..k : end[j] \in Nat /\ \A i \in 0..j : end[i] <= end[j]
  <2>1. PICK f : EndsOf(k, new, tree.n, f)
    BY <1>1, EndExists
  <2>2. f = [j \in 0..k |-> IF j = 0 THEN tree.n ELSE f[j - 1] + Members[new[j]]]
    BY <2>1 DEF EndsOf
  <2>3. end = [j \in 0..k |-> IF j = 0 THEN tree.n ELSE end[j - 1] + Members[new[j]]]
    BY <2>2
  <2> HIDE DEF end
  <2>4. EndsOf(k, new, tree.n, end)
    BY <2>3 DEF EndsOf
  <2> QED BY <1>1, <2>4, EndSound
<1> HIDE DEF end
<1>5. n \in Nat /\ n >= tree.n
  BY <1>1, <1>4
<1> HIDE DEF n
<1>6. ASSUME NEW s \in Range(new)
      PROVE  /\ s \in Sites /\ s \notin DOMAIN base
             /\ at(s) \in 1..k /\ new[at(s)] = s
             /\ base'[s] = end[at(s) - 1] /\ base'[s] + Members[s] = end[at(s)]
             /\ base'[s] \in Nat /\ tree.n <= base'[s] /\ base'[s] + Members[s] <= n
  <2>1. \E j \in 1..k : new[j] = s
    BY <1>2 DEF Range
  <2>2. at(s) \in 1..k /\ new[at(s)] = s
    BY <1>2, <2>1
  <2>3. s \in Sites /\ s \notin DOMAIN base
    BY <1>3, <2>2
  <2> HIDE DEF at
  <2>4. base'[s] = end[at(s) - 1]
    BY <1>3, <2>3
  <2>5. at(s) - 1 \in 0..k /\ at(s) \in 0..k /\ 0 \in 0..(at(s) - 1)
    BY <2>2
  <2>6. end[at(s)] = end[at(s) - 1] + Members[s] /\ end[at(s) - 1] \in Nat /\ tree.n <= end[at(s) - 1]
    BY <1>4, <2>2, <2>5
  <2>7. end[at(s)] <= n
    BY <1>4, <2>5 DEF n
  <2> QED BY <2>2, <2>3, <2>4, <2>6, <2>7
<1> HIDE DEF at
<1>7. ASSUME NEW s \in DOMAIN base
      PROVE  s \in Sites /\ base'[s] = base[s] /\ base[s] \in Nat /\ Members[s] \in Nat
             /\ base[s] + Members[s] <= tree.n
  BY <1>1, <1>3, LeafSound DEF LayoutInv
<1>8. DOMAIN base' = DOMAIN base \cup Range(new)
  BY <1>3
<1>9. ASSUME NEW s \in DOMAIN base'
      PROVE  /\ s \in Sites /\ base'[s] \in Nat /\ Members[s] \in Nat
             /\ base'[s] + Members[s] <= n
             /\ SiteLeaves(s)' = base'[s]..(base'[s] + Members[s] - 1)
  <2>1. s \in Sites /\ base'[s] \in Nat /\ base'[s] + Members[s] <= n
    BY <1>1, <1>5, <1>6, <1>7, <1>8
  <2>2. Members[s] \in Nat
    BY <2>1, SitesAssumption
  <2>3. \A m \in 0..(Members[s] - 1) : base'[s] + m \in base'[s]..(base'[s] + Members[s] - 1)
    BY <2>1, <2>2
  <2>4. \A i \in base'[s]..(base'[s] + Members[s] - 1) :
          i - base'[s] \in 0..(Members[s] - 1) /\ base'[s] + (i - base'[s]) = i
    BY <2>1, <2>2
  <2>5. SiteLeaves(s)' = {base'[s] + m : m \in 0..(Members[s] - 1)}
    BY DEF SiteLeaves, MembersOf
  <2>6. SiteLeaves(s)' = base'[s]..(base'[s] + Members[s] - 1)
    <3> DEFINE A == base'[s]..(base'[s] + Members[s] - 1)
               B == {base'[s] + m : m \in 0..(Members[s] - 1)}
    <3>1. A \subseteq B
      BY <2>4
    <3>2. B \subseteq A
      BY <2>3
    <3> QED BY <2>5, <3>1, <3>2
  <2> QED BY <2>1, <2>2, <2>6
<1>10. tree'.n = n /\ TreeSound(tree', [i \in 0..(n - 1) |-> IF i < tree.n THEN Weights[i] ELSE 0])
  <2> HIDE DEF Weights
  <2> QED BY <1>1, <1>3, <1>5, GrownSound
<1>11. LayoutInv'
  <2>1. DOMAIN base' \subseteq Sites /\ base' \in [DOMAIN base' -> Nat]
    <3>1. base' = [s \in DOMAIN base' |-> base'[s]]
      BY <1>3
    <3> QED BY <3>1, <1>9
  <2>2. reactions' = [i \in 0..(tree'.n - 1) |-> reactions'[i]]
    BY <1>3, <1>10
  <2>3. \A s \in DOMAIN base' : base'[s] + Members[s] <= tree'.n
    BY <1>9, <1>10
  <2>4. ASSUME NEW s \in DOMAIN base', NEW r \in DOMAIN base', s # r
        PROVE  SiteLeaves(s)' \cap SiteLeaves(r)' = {}
    <3>0. /\ SiteLeaves(s)' = base'[s]..(base'[s] + Members[s] - 1)
          /\ SiteLeaves(r)' = base'[r]..(base'[r] + Members[r] - 1)
          /\ base'[s] \in Nat /\ base'[r] \in Nat /\ Members[s] \in Nat /\ Members[r] \in Nat
      BY <1>9
    <3>5. ASSUME NEW a \in Nat, NEW b \in Nat, NEW c \in Nat, NEW d \in Nat, a + b <= c
          PROVE  (a..(a + b - 1)) \cap (c..(c + d - 1)) = {}
      BY <3>5
    <3>6. base'[s] + Members[s] <= base'[r] \/ base'[r] + Members[r] <= base'[s]
              => SiteLeaves(s)' \cap SiteLeaves(r)' = {}
      BY <3>0, <3>5
    <3>1. CASE s \in DOMAIN base /\ r \in DOMAIN base
      <4>1. SiteLeaves(s)' = SiteLeaves(s) /\ SiteLeaves(r)' = SiteLeaves(r)
        BY <1>7, <3>1 DEF SiteLeaves, MembersOf
      <4> QED BY <1>1, <2>4, <3>1, <4>1 DEF LayoutInv
    <3>2. CASE s \in DOMAIN base /\ r \in Range(new)
      BY <1>1, <1>6, <1>7, <3>0, <3>2, <3>6
    <3>3. CASE s \in Range(new) /\ r \in DOMAIN base
      BY <1>1, <1>6, <1>7, <3>0, <3>3, <3>6
    <3>4. CASE s \in Range(new) /\ r \in Range(new)
      <4> DEFINE i == at(s)
                 j == at(r)
      <4>1. /\ i \in 1..k /\ j \in 1..k /\ i # j
            /\ base'[s] = end[i - 1] /\ base'[s] + Members[s] = end[i]
            /\ base'[r] = end[j - 1] /\ base'[r] + Members[r] = end[j]
        BY <1>6, <2>4, <3>4
      <4> HIDE DEF i, j
      <4>2. (i < j => end[i] <= end[j - 1]) /\ (j < i => end[j] <= end[i - 1])
        BY <1>4, <4>1
      <4>3. /\ end[i] \in Nat /\ end[j] \in Nat /\ end[i - 1] \in Nat /\ end[j - 1] \in Nat
            /\ i < j \/ j < i
        BY <1>4, <4>1
      <4> QED BY <3>0, <3>6, <4>1, <4>2, <4>3
    <3> QED BY <1>8, <3>1, <3>2, <3>3, <3>4
  <2> QED BY <2>1, <2>2, <2>3, <2>4 DEF LayoutInv
<1>12. \A i \in 0..(n - 1) :
         \/ i \in DOMAIN reactions /\ i < tree.n /\ reactions'[i] = reactions[i]
         \/ ~(i < tree.n) /\ reactions'[i] = NoReaction
  <2>1. DOMAIN reactions = 0..(tree.n - 1)
    BY <1>1 DEF LayoutInv
  <2> QED BY <1>1, <1>3, <1>5, <2>1
<1>13. DOMAIN reactions' = 0..(n - 1)
  BY <1>3
<1>14. ReactionsInv'
  <2> SUFFICES ASSUME NEW i \in 0..(n - 1), reactions'[i] # NoReaction
               PROVE  \E s \in DOMAIN base' : \E m \in MembersOf(s) :
                        i = base'[s] + m /\ reactions'[i] \in Offers(s, m)
    BY <1>13 DEF ReactionsInv, MembersOf, Offers, LeafId
  <2>1. i \in DOMAIN reactions /\ reactions'[i] = reactions[i]
    BY <1>12
  <2>2. PICK s \in DOMAIN base :
          \E m \in MembersOf(s) : i = LeafId(s, m) /\ reactions[i] \in Offers(s, m)
    BY <1>1, <2>1 DEF ReactionsInv
  <2>3. s \in DOMAIN base' /\ base'[s] = base[s]
    BY <1>7, <1>8
  <2> QED BY <2>1, <2>2, <2>3 DEF LeafId
<1>15. NoneSuppressed'
  <2>1. Admissible(NoReaction, composite) = NoReaction
    BY DEF Admissible
  <2> QED BY <1>1, <1>3, <1>12, <1>13, <2>1 DEF NoneSuppressed, Admissible
<1>16. TreeSound(tree, Weights)'
  <2> DEFINE grown == [i \in 0..(n - 1) |-> IF i < tree.n THEN Weights[i] ELSE 0]
  <2>1. \A i \in 0..(n - 1) : RateOf(reactions'[i]) = grown[i]
    <3> TAKE i \in 0..(n - 1)
    <3>1. i < tree.n => Weights[i] = RateOf(reactions[i])
      BY <1>1, <1>5 DEF Weights
    <3>2. RateOf(NoReaction) = 0
      BY DEF RateOf
    <3> HIDE DEF Weights
    <3> QED BY <1>12, <3>1, <3>2
  <2>2. Weights' = [i \in 0..(n - 1) |-> RateOf(reactions'[i])]
    BY <1>10 DEF Weights, RateOf, Larger
  <2>3. Weights' = grown
    BY <2>1, <2>2
  <2> HIDE DEF grown
  <2>4. TreeSound(tree', Weights')
    BY <1>10, <2>3 DEF grown
  <2> QED BY <2>4
<1> QED BY <1>11, <1>14, <1>15, <1>16 DEF IInv

----------------------------------------------------------------------------
(* Installations. *)

\* Leaf i belongs to a site in which a class is suppressed.
Concerned(batch, i, suppressed) ==
  \E s \in batch : i \in SiteLeaves(s) /\ Findings(s) \cap suppressed # {}

\* A reaction that becomes suppressed is one of a site in which a class was
\* found composite.
LEMMA SuppressedNow ==
  ASSUME LayoutInv, ReactionsInv, NoneSuppressed, tree.n \in Nat,
         NEW batch \in SUBSET DOMAIN base, NEW found, found \subseteq UNION {Findings(s) : s \in batch},
         NEW i \in DOMAIN reactions, Admissible(reactions[i], composite \cup found) # reactions[i]
  PROVE  /\ Admissible(reactions[i], composite \cup found) = NoReaction
         /\ Concerned(batch, i, composite \cup found)
<1> DEFINE x == reactions[i]
<1>1. /\ x # NoReaction /\ x.site \in DirectSites /\ x.class \in composite \cup found
      /\ Admissible(x, composite \cup found) = NoReaction
  BY DEF Admissible
<1>2. x.class \notin composite
  <2>1. Admissible(x, composite) = x
    BY DEF NoneSuppressed
  <2> HIDE DEF x
  <2> QED BY <1>1, <2>1 DEF Admissible
<1>3. PICK r \in DOMAIN base : \E m \in MembersOf(r) : i = LeafId(r, m) /\ x \in Offers(r, m)
  BY <1>1 DEF ReactionsInv
<1>4. PICK m \in MembersOf(r) : i = LeafId(r, m) /\ x \in Offers(r, m)
  BY <1>3
<1>5. x.site = r /\ x.class = ClassOf[<<r, m>>]
  <2>1. r \in Sites
    BY LeafSound
  <2> HIDE DEF x
  <2> QED BY <1>1, <1>4, <2>1, OfferSound
<1> HIDE DEF x
<1>6. PICK s \in batch : x.class \in Findings(s)
  BY <1>1, <1>2
<1>7. s \in DirectSites /\ \E k \in MembersOf(s) : x.class = ClassOf[<<s, k>>]
  BY <1>6 DEF Findings
<1>8. s = r
  BY <1>1, <1>4, <1>5, <1>7, ClassAssumption DEF MembersOf
<1>9. i \in SiteLeaves(s)
  BY <1>3, <1>4, <1>8, LeafSound
<1> QED BY <1>1, <1>6, <1>9 DEF x, Concerned

\* What an installation leaves to show.
LEMMA InstalledInv ==
  ASSUME IInv, base' = base, tree'.n = tree.n,
         reactions' = [i \in DOMAIN reactions |-> reactions'[i]],
         \A i \in DOMAIN reactions :
            /\ Admissible(reactions'[i], composite') = reactions'[i]
            /\ \/ reactions'[i] \in {NoReaction, reactions[i]}
               \/ \E s \in DOMAIN base : \E m \in MembersOf(s) :
                    i = LeafId(s, m) /\ reactions'[i] \in Offers(s, m),
         NEW rate, TreeSound(tree', rate), \A i \in 0..(tree.n - 1) : rate[i] = RateOf(reactions'[i])
  PROVE  IInv'
<1>1. tree.n \in Nat /\ LayoutInv /\ ReactionsInv
  BY DEF IInv, TreeSound
<1>2. DOMAIN reactions = 0..(tree.n - 1) /\ DOMAIN reactions' = DOMAIN reactions
  BY <1>1 DEF LayoutInv
<1>3. \A s : SiteLeaves(s)' = SiteLeaves(s)
  BY DEF SiteLeaves, MembersOf
<1>4. LayoutInv'
  BY <1>1, <1>2, <1>3 DEF LayoutInv
<1>5. ReactionsInv'
  <2> SUFFICES ASSUME NEW i \in DOMAIN reactions, reactions'[i] # NoReaction
               PROVE  \E s \in DOMAIN base : \E m \in MembersOf(s) :
                        i = LeafId(s, m) /\ reactions'[i] \in Offers(s, m)
    BY <1>2 DEF ReactionsInv, MembersOf, Offers, LeafId
  <2>1. CASE reactions'[i] = reactions[i]
    BY <1>1, <2>1 DEF ReactionsInv
  <2> QED BY <2>1
<1>6. NoneSuppressed'
  BY <1>2 DEF NoneSuppressed, Admissible
<1>7. TreeSound(tree', Weights')
  <2>1. rate = [i \in 0..(tree.n - 1) |-> rate[i]]
    BY DEF TreeSound
  <2>2. Weights' = [i \in 0..(tree.n - 1) |-> RateOf(reactions'[i])]
    BY DEF Weights, RateOf, Larger
  <2>3. Weights' = rate
    BY <2>1, <2>2
  <2> QED BY <2>3
<1> QED BY <1>4, <1>5, <1>6, <1>7 DEF IInv

LEMMA InstallStep ==
  ASSUME IInv, NEW s \in DOMAIN base, NEW m \in MembersOf(s), NEW x \in Offers(s, m),
         NEW found, Install(s, m, x, found)
  PROVE  IInv'
<1> DEFINE suppressed == composite \cup found
           own == Admissible(x, suppressed)
           leaf == LeafId(s, m)
           cleared == Siblings(s, suppressed) \ {leaf}
           installed == [i \in DOMAIN reactions |->
               IF i = leaf THEN own ELSE IF i \in cleared THEN NoReaction ELSE reactions[i]]
           set == cleared \cup {leaf}
           new == [i \in set |-> RateOf(installed[i])]
           rate == [i \in 0..(tree.n - 1) |-> IF i \in set THEN new[i] ELSE Weights[i]]
<1>1. /\ tree.n \in Nat /\ LayoutInv /\ ReactionsInv /\ NoneSuppressed /\ TreeSound(tree, Weights)
  BY DEF IInv, TreeSound
<1>2. /\ found \subseteq Findings(s) /\ composite' = suppressed /\ reactions' = installed
      /\ tree' = Updated(tree, new) /\ base' = base
  BY DEF Install
<1>3. /\ s \in Sites /\ SiteLeaves(s) \subseteq 0..(tree.n - 1)
      /\ DOMAIN reactions = 0..(tree.n - 1) /\ leaf \in SiteLeaves(s)
  BY <1>1, LeafSound
<1>4. /\ RateOf(own) \in Nat /\ RateOf(NoReaction) = 0 /\ own \in Offers(s, m)
      /\ Admissible(own, suppressed) = own /\ Admissible(NoReaction, suppressed) = NoReaction
  <2> HIDE DEF suppressed
  <2>1. own \in Offers(s, m) /\ Admissible(own, suppressed) = own
    BY <1>3, OfferSound
  <2> HIDE DEF own
  <2>2. RateOf(own) \in Nat
    BY <1>3, <2>1, OfferSound
  <2>3. RateOf(NoReaction) = 0 /\ Admissible(NoReaction, suppressed) = NoReaction
    BY DEF RateOf, Admissible
  <2> QED BY <2>1, <2>2, <2>3
<1>5. cleared \subseteq SiteLeaves(s) /\ leaf \notin cleared
  BY DEF Siblings
<1> HIDE DEF own, leaf
<1>6. /\ installed[leaf] = own /\ \A i \in cleared : installed[i] = NoReaction
      /\ \A i \in DOMAIN reactions : i \notin set => installed[i] = reactions[i]
  <2> HIDE DEF cleared
  <2> QED BY <1>3, <1>5
<1>7. \A i \in DOMAIN reactions : i \notin set => Admissible(reactions[i], suppressed) = reactions[i]
  <2> SUFFICES ASSUME NEW i \in DOMAIN reactions, i \notin set,
                      Admissible(reactions[i], suppressed) # reactions[i]
               PROVE  FALSE
    OBVIOUS
  <2>1. /\ Admissible(reactions[i], suppressed) = NoReaction
        /\ \E r \in {s} : i \in SiteLeaves(r) /\ Findings(r) \cap suppressed # {}
    <3>1. found \subseteq UNION {Findings(r) : r \in {s}} /\ {s} \in SUBSET DOMAIN base
      BY <1>2
    <3> DEFINE batch == {s}
    <3>2. \A r \in batch : r = s
      OBVIOUS
    <3>3. batch \in SUBSET DOMAIN base /\ found \subseteq UNION {Findings(r) : r \in batch}
      BY <3>1
    <3> HIDE DEF batch
    <3>4. Admissible(reactions[i], composite \cup found) = NoReaction
      BY <1>1, <3>3, SuppressedNow
    <3>5. Concerned(batch, i, composite \cup found)
      BY <1>1, <3>3, SuppressedNow
    <3> QED BY <3>2, <3>4, <3>5 DEF Concerned
  <2> QED BY <2>1 DEF Siblings
<1> HIDE DEF cleared
<1>8. set \subseteq 0..(tree.n - 1) /\ set \subseteq DOMAIN reactions
  BY <1>3, <1>5
<1>9. new \in [set -> Nat]
  <2>1. \A i \in set : RateOf(installed[i]) \in Nat
    <3> HIDE DEF installed
    <3> QED BY <1>4, <1>6
  <2> QED BY <2>1
<1>10. DOMAIN installed = DOMAIN reactions
  OBVIOUS
<1>11. reactions' = [i \in DOMAIN reactions |-> reactions'[i]]
  BY <1>2
<1> HIDE DEF installed
<1>12. TreeSound(tree', rate) /\ tree'.n = tree.n
  <2>1. Weights \in [0..(tree.n - 1) -> Nat]
    BY <1>1 DEF TreeSound
  <2> HIDE DEF set, new, Weights
  <2>2. rate \in [0..(tree.n - 1) -> Nat]
    BY <1>9, <2>1
  <2>3. \A i \in 0..(tree.n - 1) : rate[i] = IF i \in set THEN new[i] ELSE Weights[i]
    OBVIOUS
  <2> HIDE DEF rate
  <2>4. Replaced(tree.n, Weights, set, new, rate)
    BY <1>8, <1>9, <2>2, <2>3 DEF Replaced
  <2> QED BY <1>1, <1>2, <2>4, SetSound
<1>13. \A i \in 0..(tree.n - 1) : rate[i] = RateOf(reactions'[i])
  <2> HIDE DEF set
  <2>1. \A i \in 0..(tree.n - 1) : i \notin set => RateOf(installed[i]) = Weights[i]
    BY <1>3, <1>6 DEF Weights
  <2> HIDE DEF Weights
  <2> QED BY <1>2, <2>1
<1>14. ASSUME NEW i \in DOMAIN reactions
       PROVE  /\ Admissible(reactions'[i], composite') = reactions'[i]
              /\ \/ reactions'[i] \in {NoReaction, reactions[i]}
                 \/ \E r \in DOMAIN base : \E k \in MembersOf(r) :
                      i = LeafId(r, k) /\ reactions'[i] \in Offers(r, k)
  <2>1. CASE i = leaf
    BY <1>2, <1>4, <1>6, <2>1 DEF leaf
  <2>2. CASE i \in cleared
    BY <1>2, <1>4, <1>6, <2>2
  <2>3. CASE i \notin set
    BY <1>2, <1>6, <1>7, <2>3
  <2> QED BY <2>1, <2>2, <2>3
<1> HIDE DEF rate
<1> QED BY <1>2, <1>11, <1>12, <1>13, <1>14, InstalledInv

LEMMA OfferedSound ==
  ASSUME NEW batch \in SUBSET DOMAIN base, NEW offered \in Offered(batch),
         NEW s \in batch, NEW m \in MembersOf(s)
  PROVE  offered[<<s, m>>] \in Offers(s, m)
<1> DEFINE p == <<s, m>>
<1>1. PICK rate \in [MemberPairs(batch) -> ReactionRates \cup {NoRate}] :
        offered = [q \in MemberPairs(batch) |->
                     IF rate[q] = NoRate THEN NoReaction
                     ELSE [site |-> q[1], class |-> ClassOf[q], rate |-> rate[q]]]
  <2>1. ASSUME NEW common \in [batch -> ReactionRates \cup {NoRate}]
        PROVE  [q \in MemberPairs(batch) |-> common[q[1]]]
                 \in [MemberPairs(batch) -> ReactionRates \cup {NoRate}]
    <3>1. \A q \in MemberPairs(batch) : q[1] \in batch
      BY DEF MemberPairs
    <3> QED BY <3>1
  <2> QED BY <2>1 DEF Offered
<1>2. p \in MemberPairs(batch) /\ p[1] = s
  BY DEF MemberPairs
<1>3. rate[p] \in ReactionRates \cup {NoRate}
  BY <1>2
<1>4. offered[p] = IF rate[p] = NoRate THEN NoReaction
                   ELSE [site |-> s, class |-> ClassOf[p], rate |-> rate[p]]
  <2> HIDE DEF p
  <2> QED BY <1>1, <1>2
<1> QED BY <1>3, <1>4 DEF Offers

LEMMA InstallSitesStep ==
  ASSUME IInv, NEW batch \in SUBSET DOMAIN base, NEW offered \in Offered(batch),
         NEW found, InstallSites(batch, offered, found)
  PROVE  IInv'
<1> DEFINE suppressed == composite \cup found
           leaves == UNION {SiteLeaves(s) : s \in batch}
           at(i) == CHOOSE r \in batch : i \in SiteLeaves(r)
           installed == [i \in DOMAIN reactions |->
               IF i \notin leaves THEN reactions[i]
               ELSE Admissible(offered[<<at(i), i - base[at(i)]>>], suppressed)]
           new == [i \in leaves |-> RateOf(installed[i])]
           rate == [i \in 0..(tree.n - 1) |-> IF i \in leaves THEN new[i] ELSE Weights[i]]
<1>1. /\ tree.n \in Nat /\ LayoutInv /\ ReactionsInv /\ NoneSuppressed /\ TreeSound(tree, Weights)
  BY DEF IInv, TreeSound
<1>2. /\ found \subseteq UNION {Findings(s) : s \in batch}
      /\ composite' = suppressed /\ reactions' = installed /\ base' = base
      /\ tree' = IF Cardinality(leaves) = tree.n THEN Built(tree, new) ELSE Updated(tree, new)
  BY DEF InstallSites
<1>3. leaves \subseteq 0..(tree.n - 1) /\ DOMAIN reactions = 0..(tree.n - 1)
  <2>1. \A s \in batch : SiteLeaves(s) \subseteq 0..(tree.n - 1)
    BY <1>1, LeafSound
  <2> QED BY <1>1, <2>1 DEF LayoutInv
<1>4. ASSUME NEW i \in leaves
      PROVE  \E s \in DOMAIN base : \E m \in MembersOf(s) :
               /\ s \in Sites /\ i = LeafId(s, m)
               /\ installed[i] \in Offers(s, m) /\ RateOf(installed[i]) \in Nat
               /\ Admissible(installed[i], suppressed) = installed[i]
  <2> DEFINE s == at(i)
             m == i - base[s]
             y == offered[<<s, m>>]
  <2>1. s \in batch /\ i \in SiteLeaves(s)
    <3>1. \E r \in batch : i \in SiteLeaves(r)
      OBVIOUS
    <3> QED BY <3>1
  <2>2. installed[i] = Admissible(y, suppressed)
    BY <1>3
  <2> HIDE DEF s, installed
  <2>3. s \in Sites /\ m \in MembersOf(s) /\ i = LeafId(s, m)
    BY <1>1, <2>1, LeafSound
  <2> HIDE DEF m
  <2>4. y \in Offers(s, m)
    BY <2>1, <2>3, OfferedSound
  <2> HIDE DEF y
  <2> HIDE DEF suppressed
  <2>5. installed[i] \in Offers(s, m) /\ Admissible(installed[i], suppressed) = installed[i]
    <3>1. Admissible(y, suppressed) \in Offers(s, m)
      BY <2>3, <2>4, OfferSound
    <3>2. Admissible(Admissible(y, suppressed), suppressed) = Admissible(y, suppressed)
      BY <2>3, <2>4, OfferSound
    <3> QED BY <2>2, <3>1, <3>2
  <2>6. RateOf(installed[i]) \in Nat
    BY <2>3, <2>5, OfferSound
  <2> QED BY <2>1, <2>3, <2>5, <2>6
<1>5. \A i \in DOMAIN reactions : i \notin leaves => installed[i] = reactions[i]
  OBVIOUS
<1>6. DOMAIN installed = DOMAIN reactions /\ installed = [i \in DOMAIN reactions |-> installed[i]]
  OBVIOUS
<1> HIDE DEF installed
<1>7. \A i \in DOMAIN reactions : i \notin leaves => Admissible(reactions[i], suppressed) = reactions[i]
  <2> SUFFICES ASSUME NEW i \in DOMAIN reactions, i \notin leaves,
                      Admissible(reactions[i], composite \cup found) # reactions[i]
               PROVE  FALSE
    OBVIOUS
  <2>1. Concerned(batch, i, composite \cup found)
    <3> HIDE DEF leaves
    <3> QED BY <1>1, <1>2, SuppressedNow
  <2> QED BY <2>1 DEF Concerned
<1> HIDE DEF leaves, at
<1>8. new \in [leaves -> Nat]
  BY <1>4
<1>9. TreeSound(tree', rate) /\ tree'.n = tree.n
  <2>1. CASE Cardinality(leaves) = tree.n
    <3>1. leaves = 0..(tree.n - 1)
      <4>1. IsFiniteSet(0..(tree.n - 1)) /\ Cardinality(0..(tree.n - 1)) = tree.n
        <5> DEFINE last == tree.n - 1
        <5>1. 0 \in Int /\ last \in Int /\ (0 > last <=> tree.n = 0) /\ last - 0 + 1 = tree.n
          BY <1>1
        <5> HIDE DEF last
        <5>2. IsFiniteSet(0..last) /\ Cardinality(0..last) = IF 0 > last THEN 0 ELSE last - 0 + 1
          BY <5>1, FS_Interval
        <5>3. Cardinality(0..last) = tree.n
          BY <5>1, <5>2
        <5> QED BY <5>2, <5>3 DEF last
      <4> QED BY <1>3, <2>1, <4>1, FS_Subset
    <3>2. rate = new
      BY <3>1
    <3>3. tree' = Built(tree, new)
      BY <1>2, <2>1
    <3> HIDE DEF rate, new, Weights
    <3> QED BY <1>1, <1>8, <3>1, <3>2, <3>3, BuiltSound
  <2>2. CASE Cardinality(leaves) # tree.n
    <3>1. tree' = Updated(tree, new)
      BY <1>2, <2>2
    <3>2. Weights \in [0..(tree.n - 1) -> Nat]
      BY <1>1 DEF TreeSound
    <3> HIDE DEF new, Weights
    <3>3. rate \in [0..(tree.n - 1) -> Nat]
      BY <1>8, <3>2
    <3>4. \A i \in 0..(tree.n - 1) : rate[i] = IF i \in leaves THEN new[i] ELSE Weights[i]
      OBVIOUS
    <3> HIDE DEF rate
    <3>5. Replaced(tree.n, Weights, leaves, new, rate)
      BY <1>3, <1>8, <3>3, <3>4 DEF Replaced
    <3> QED BY <1>1, <3>1, <3>5, SetSound
  <2> QED BY <2>1, <2>2
<1>10. \A i \in 0..(tree.n - 1) : rate[i] = RateOf(reactions'[i])
  <2>1. \A i \in 0..(tree.n - 1) : i \notin leaves => RateOf(installed[i]) = Weights[i]
    BY <1>3, <1>5 DEF Weights
  <2> HIDE DEF Weights
  <2> QED BY <1>2, <2>1
<1>11. ASSUME NEW i \in DOMAIN reactions
       PROVE  /\ Admissible(reactions'[i], composite') = reactions'[i]
              /\ \/ reactions'[i] \in {NoReaction, reactions[i]}
                 \/ \E r \in DOMAIN base : \E k \in MembersOf(r) :
                      i = LeafId(r, k) /\ reactions'[i] \in Offers(r, k)
  <2>1. CASE i \in leaves
    BY <1>2, <1>4, <2>1
  <2>2. CASE i \notin leaves
    BY <1>2, <1>5, <1>7, <2>2
  <2> QED BY <2>1, <2>2
<1>12. reactions' = [i \in DOMAIN reactions |-> reactions'[i]]
  BY <1>2, <1>6
<1> HIDE DEF rate
<1> QED BY <1>2, <1>9, <1>10, <1>11, <1>12, InstalledInv
----------------------------------------------------------------------------
(* Theorems. *)

\* One case per action.
LEMMA NextInv == IInv /\ [Next]_vars => IInv'
<1> SUFFICES ASSUME IInv, [Next]_vars PROVE IInv'
  OBVIOUS
<1>1. ASSUME NEW k \in 1..MaxNew, NEW new \in [1..k -> Sites], ExtendSites(new) PROVE IInv'
  BY <1>1, ExtendStep
<1>2. ASSUME NEW s \in DOMAIN base, NEW m \in MembersOf(s), NEW x \in Offers(s, m),
             NEW found \in SUBSET Findings(s), Install(s, m, x, found)
      PROVE  IInv'
  BY <1>2, InstallStep
<1>3. ASSUME NEW batch \in SUBSET DOMAIN base, NEW offered \in Offered(batch), NEW found,
             InstallSites(batch, offered, found)
      PROVE  IInv'
  BY <1>3, InstallSitesStep
<1>4. CASE UNCHANGED vars
  <2>1. base' = base /\ tree' = tree /\ reactions' = reactions /\ composite' = composite
    BY <1>4 DEF vars
  <2>2. LayoutInv' /\ ReactionsInv' /\ NoneSuppressed'
    <3>1. LayoutInv'
      BY <2>1 DEF IInv, LayoutInv, SiteLeaves
    <3>2. ReactionsInv'
      BY <2>1 DEF IInv, ReactionsInv, LeafId, MembersOf, Offers
    <3>3. NoneSuppressed'
      BY <2>1 DEF IInv, NoneSuppressed, Admissible
    <3> QED BY <3>1, <3>2, <3>3
  <2>3. Weights' = Weights
    BY <2>1 DEF Weights
  <2> QED BY <2>1, <2>2, <2>3 DEF IInv
<1> QED BY <1>1, <1>2, <1>3, <1>4 DEF Next

\* Leaves and sites match one to one, a leaf holds what its member has offered,
\* the tree sums up the rates of the leaves, and nothing suppressed is left
\* (extend_sites, install, install_site and install_sites of _ReactionIndex).
THEOREM IndexInvariance == Spec => []IInv
<1> QED BY InitInv, NextInv, PTL DEF Spec

\* The tree that growth, single updates and batches have left is the one a fresh
\* index over the same leaves would build, rounded sums included (update, update_many, build and grow
\* of _RateSegmentTree).
THEOREM AsRebuiltHolds == Spec => []AsRebuilt
<1>1. IInv => AsRebuilt
  BY Rebuilt DEF IInv, AsRebuilt, Fresh, Weights
<1> QED BY <1>1, IndexInvariance, PTL

\* No reaction of a suppressed class is left in a leaf (the siblings that install
\* takes out, and _admissible_reaction).
THEOREM NoneSuppressedHolds == Spec => []NoneSuppressed
<1>1. IInv => NoneSuppressed
  BY DEF IInv
<1> QED BY <1>1, IndexInvariance, PTL

\* The descent ends on a leaf in use with a positive rate if there is one,
\* whatever is drawn and however sums and differences are rounded; the linear
\* scan behind it is never needed (sample of _RateSegmentTree).
THEOREM SampleLiveHolds == Spec => []SampleLive
<1>1. IInv => SampleLive
  <2> SUFFICES ASSUME IInv, NEW product \in {x \in 0..tree.node[1] : Float(x) = x}
               PROVE  LET i == Sampled(tree, product)
                      IN  IF \A j \in DOMAIN reactions : RateOf(reactions[j]) = 0 THEN i = Nowhere
                          ELSE /\ i \in DOMAIN reactions /\ RateOf(reactions[i]) > 0
                               /\ i = Descent(tree, 1, Smaller(product, Below(tree.node[1]))) - tree.size
    BY DEF SampleLive
  <2> DEFINE i == Sampled(tree, product)
             drawn == Descent(tree, 1, Smaller(product, Below(tree.node[1]))) - tree.size
  <2>1. TreeSound(tree, Weights) /\ DOMAIN reactions = 0..(tree.n - 1)
    BY DEF IInv, LayoutInv
  <2>2. \A j \in 0..(tree.n - 1) : Weights[j] = RateOf(reactions[j])
    BY DEF Weights
  <2>3. product \in Nat
    OBVIOUS
  <2> HIDE DEF Weights
  <2>4. IF \A j \in 0..(tree.n - 1) : Weights[j] = 0 THEN i = Nowhere
        ELSE i \in 0..(tree.n - 1) /\ Weights[i] > 0 /\ i = drawn
    BY <2>1, <2>3, SampledSound
  <2> HIDE DEF i, drawn
  <2>5. IF \A j \in DOMAIN reactions : RateOf(reactions[j]) = 0 THEN i = Nowhere
        ELSE i \in DOMAIN reactions /\ RateOf(reactions[i]) > 0 /\ i = drawn
    BY <2>1, <2>2, <2>4
  <2> QED BY <2>5 DEF i, drawn
<1> QED BY <1>1, IndexInvariance, PTL

\* Where nothing is rounded, a leaf is drawn by as many targets as its rate says
\* (the comparisons and subtractions of sample).
THEOREM SampleProportionalHolds == Spec => []SampleProportional
<1>1. IInv => SampleProportional
  <2> SUFFICES ASSUME IInv, tree.node[1] <= Exact,
                      \A p \in 1..(tree.size - 1) : tree.node[p] = tree.node[2 * p] + tree.node[2 * p + 1],
                      NEW i \in DOMAIN reactions
               PROVE  Cardinality({x \in 0..(tree.node[1] - 1) : Sampled(tree, x) = i}) = RateOf(reactions[i])
    BY DEF SampleProportional
  <2>1. TreeSound(tree, Weights) /\ DOMAIN reactions = 0..(tree.n - 1)
    BY DEF IInv, LayoutInv
  <2>2. Weights[i] = RateOf(reactions[i]) /\ i \in 0..(tree.n - 1)
    BY <2>1 DEF Weights
  <2> HIDE DEF Weights
  <2>3. tree.node \in [Heap(tree.size) -> Nat]
    <3> DEFINE leaf == Padded(tree.size, tree.n, Weights)
    <3>1. tree.size \in Nat \ {0} /\ tree.n <= tree.size /\ tree.n \in Nat
          /\ Weights \in [0..(tree.n - 1) -> Nat] /\ SumTree(tree.node, tree.size, leaf)
      BY <2>1, SizeSound DEF TreeSound
    <3>2. leaf \in [0..(tree.size - 1) -> Nat]
      BY <3>1, PaddedSound
    <3> HIDE DEF leaf
    <3> QED BY <3>1, <3>2, SumTreeTyped
  <2>4. ExactTree(tree.node, tree.size)
    BY <2>3 DEF ExactTree
  <2> QED BY <2>1, <2>2, <2>4, ProportionalSound
<1> QED BY <1>1, IndexInvariance, PTL
===========================================================================
