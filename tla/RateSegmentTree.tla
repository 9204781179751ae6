------------------------- MODULE RateSegmentTree -------------------------
(* The sum tree the engine samples its events from, kmc/sampling.py.  A tree
   is a record [n |-> leaves in use, size |-> capacity, a power of two,
   node |-> values of the positions 1 .. 2 * size - 1]: position 1 is the
   root, the children of p are 2p and 2p + 1, leaf i is at size + i.

   The program adds 64-bit floating-point numbers.  Here they are integers
   with a limited number of significant bits: all integers below Exact, a power
   of two, are numbers, from there on they lie 2, 4, 8, ... apart, and never
   closer than 1, as the subnormal numbers do.  Sums and differences are
   rounded to the nearest number, ties to even.  Every rounding effect the
   sampler guards against occurs with two bits: a sum equal to one of its terms,
   a sum above both, a difference that is rounded up to its bound. *)
EXTENDS Integers, FiniteSetsExt

CONSTANT Exact    \* the least integer whose successor is not a number
ASSUME ExactAssumption == Exact \in Nat /\ Exact >= 2

----------------------------------------------------------------------------
(* Arithmetic. *)
Larger(a, b) == IF a < b THEN b ELSE a
Smaller(a, b) == IF a < b THEN a ELSE b

(* The distance of the numbers around x. *)
Unit[x \in Nat] == IF x < Exact THEN 1 ELSE 2 * Unit[x \div 2]

Float(x) ==
    LET u == Unit[x]
        q == x \div u
        r == x % u
    IN  IF 2 * r > u \/ (2 * r = u /\ q % 2 = 1) THEN (q + 1) * u ELSE q * u

(* nextafter(x, 0.0) *)
Below(x) == CHOOSE y \in 0..(x - 1) : Float(y) = y /\ \A z \in (y + 1)..(x - 1) : Float(z) # z

Plus(a, b) == Float(a + b)
Minus(a, b) == IF a < b THEN 0 ELSE Float(a - b)     \* max(0.0, a - b)

----------------------------------------------------------------------------
(* Building and growing. *)
Capacity(size, n) ==
    LET capacity[s \in Nat \ {0}] == IF s >= n THEN s ELSE capacity[2 * s]
    IN  capacity[size]

(* The nodes over given leaves, every inner one reduced from its children. *)
Reduced(size, leaf) ==
    LET node[p \in 1..(2 * size - 1)] ==
          IF p >= size THEN leaf[p - size] ELSE Plus(node[2 * p], node[2 * p + 1])
    IN  node

Padded(size, n, rate) == [i \in 0..(size - 1) |-> IF i < n THEN Larger(0, rate[i]) ELSE 0]

Built(t, rate) == [t EXCEPT !.node = Reduced(t.size, Padded(t.size, t.n, rate))]

Empty == [n |-> 0, size |-> 1, node |-> [p \in {1} |-> 0]]

Rates(t) == [i \in 0..(t.n - 1) |-> t.node[t.size + i]]

GrownKeepingSums(t, n) ==            \* mutant: the sums of the old tree are kept
    LET size == Capacity(t.size, n)
    IN  IF n <= t.size THEN [t EXCEPT !.n = n]
        ELSE [n |-> n, size |-> size, node |-> [p \in 1..(2 * size - 1) |->
                IF p >= size THEN Padded(size, t.n, Rates(t))[p - size]
                ELSE IF p < t.size THEN t.node[p] ELSE 0]]

Grown(t, n) ==
    LET size == Capacity(t.size, n)
    IN  IF n <= t.size THEN [t EXCEPT !.n = n]
        ELSE [n |-> n, size |-> size, node |-> Reduced(size, Padded(size, t.n, Rates(t)))]

(* Setting leaves: only the ancestors of the set leaves are reduced again, all
   other nodes keep the value they have. *)
UpdatedParents(t, rate) ==           \* mutant: the reduction stops at the parents
    LET set == {t.size + i : i \in DOMAIN rate}
        node[p \in DOMAIN t.node] ==
          IF p \in set THEN Larger(0, rate[p - t.size])
          ELSE IF p \in {q \div 2 : q \in set} THEN Plus(node[2 * p], node[2 * p + 1])
          ELSE t.node[p]
    IN  [t EXCEPT !.node = node]

Touched(t, set) ==
    LET touched[p \in DOMAIN t.node] ==
          IF p >= t.size THEN p \in set ELSE touched[2 * p] \/ touched[2 * p + 1]
    IN  touched

Updated(t, rate) ==
    LET touched == Touched(t, {t.size + i : i \in DOMAIN rate})
        node[p \in DOMAIN t.node] ==
          IF ~touched[p] THEN t.node[p]
          ELSE IF p >= t.size THEN Larger(0, rate[p - t.size])
          ELSE Plus(node[2 * p], node[2 * p + 1])
    IN  [t EXCEPT !.node = node]

----------------------------------------------------------------------------
(* Sampling: descent from the root for a target below the total, with the
   target clamped into the subtree it enters. *)
Nowhere == -1

DescentUnclamped(t, p, target) ==    \* used by the mutant below: the target alone decides
    LET descent[q \in DOMAIN t.node] == [x \in Nat |->
          IF q >= t.size THEN q
          ELSE IF x < t.node[2 * q] THEN descent[2 * q][x]
          ELSE descent[2 * q + 1][Minus(x, t.node[2 * q])]]
    IN  descent[p][target]

DescentUpToLeft(t, p, target) ==     \* mutant: a target equal to the left sum goes left
    LET descent[q \in DOMAIN t.node] == [x \in Nat |->
          LET left == t.node[2 * q]
              right == t.node[2 * q + 1]
          IN  IF q >= t.size THEN q
              ELSE IF left > 0 /\ (x <= left \/ right <= 0)
                   THEN descent[2 * q][Smaller(x, Below(left))]
              ELSE IF right > 0
                   THEN descent[2 * q + 1][Smaller(Minus(x, left), Below(right))]
              ELSE Nowhere]
    IN  descent[p][target]

Descent(t, p, target) ==
    LET descent[q \in DOMAIN t.node] == [x \in Nat |->
          LET left == t.node[2 * q]
              right == t.node[2 * q + 1]
          IN  IF q >= t.size THEN q
              ELSE IF left > 0 /\ (x < left \/ right <= 0)
                   THEN descent[2 * q][Smaller(x, Below(left))]
              ELSE IF right > 0
                   THEN descent[2 * q + 1][Smaller(Minus(x, left), Below(right))]
              ELSE Nowhere]
    IN  descent[p][target]

(* The linear scan after a descent that ended on an empty leaf: the first leaf
   whose prefix sum exceeds the target, or the last one with a rate. *)
Scan(t, target) ==
    LET running[k \in 0..t.n] ==
          IF k = 0 THEN 0
          ELSE LET weight == t.node[t.size + k - 1]
               IN  IF weight <= 0 THEN running[k - 1] ELSE Plus(running[k - 1], weight)
        candidates == {i \in 0..(t.n - 1) : t.node[t.size + i] > 0}
        exceeding == {i \in candidates : target < running[i + 1]}
    IN  IF exceeding # {} THEN Min(exceeding)
        ELSE IF candidates # {} THEN Max(candidates)
        ELSE Nowhere

SampledUnclamped(t, product) ==      \* mutant: the product itself is looked for
    IF t.node[1] <= 0 THEN Nowhere ELSE DescentUnclamped(t, 1, product) - t.size

(* sample(u), for the target u * total as the program rounds it: the total
   itself when the product is rounded up. *)
Sampled(t, product) ==
    LET target == Smaller(product, Below(t.node[1]))
        p == Descent(t, 1, target)
        i == p - t.size
    IN  IF t.node[1] <= 0 \/ p = Nowhere THEN Nowhere
        ELSE IF i < t.n /\ t.node[p] > 0 THEN i
        ELSE Scan(t, target)
===========================================================================
