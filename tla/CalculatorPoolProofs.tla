------------------------ MODULE CalculatorPoolProofs ------------------------
(***************************************************************************)
(* Theorems of CalculatorPool for every number of threads, calculators and *)
(* workers and every nesting of with-blocks.                               *)
(***************************************************************************)
EXTENDS CalculatorPool, FiniteSetTheorems, TLAPS

-----------------------------------------------------------------------------
\* Counting.  A column stands for the permits m + 1 .. n of one block.
Column(b, m, n) == {b} \X (m + 1 .. n)

\* A column has as many elements as it says.
LEMMA ColumnSize ==
  ASSUME NEW b, NEW m \in Nat, NEW n \in Nat, m <= n
  PROVE  IsFiniteSet(Column(b, m, n)) /\ Cardinality(Column(b, m, n)) = n - m
<1> DEFINE first == m + 1
<1>1. IsFiniteSet(first .. n) /\ Cardinality(first .. n) = n - m
  <2>1. first \in Int /\ n \in Int /\ first = m + 1
    OBVIOUS
  <2> HIDE DEF first
  <2>2. /\ IsFiniteSet(first .. n)
        /\ Cardinality(first .. n) = IF first > n THEN 0 ELSE n - first + 1
    BY <2>1, FS_Interval
  <2> QED BY <2>1, <2>2
<1>2. IsFiniteSet({b}) /\ Cardinality({b}) = 1
  BY FS_Singleton
<1>3. /\ IsFiniteSet({b} \X (m + 1 .. n))
      /\ Cardinality({b} \X (m + 1 .. n)) = Cardinality({b}) * Cardinality(m + 1 .. n)
  BY <1>1, <1>2, FS_Product
<1> QED BY <1>1, <1>2, <1>3 DEF Column

\* Adding a column to a set that has none of it.
LEMMA Grown ==
  ASSUME NEW S, IsFiniteSet(S), NEW b, NEW m \in Nat, NEW n \in Nat, m <= n,
         S \cap Column(b, m, n) = {}
  PROVE  /\ IsFiniteSet(S \cup Column(b, m, n))
         /\ Cardinality(S \cup Column(b, m, n)) = Cardinality(S) + (n - m)
<1>1. IsFiniteSet(Column(b, m, n)) /\ Cardinality(Column(b, m, n)) = n - m
  BY ColumnSize
<1>2. Cardinality(S \cap Column(b, m, n)) = 0
  BY FS_EmptySet
<1>3. Cardinality(S) \in Nat
  BY FS_CardinalityType
<1>4. /\ IsFiniteSet(S \cup Column(b, m, n))
      /\ Cardinality(S \cup Column(b, m, n))
           = Cardinality(S) + Cardinality(Column(b, m, n)) - Cardinality(S \cap Column(b, m, n))
  BY <1>1, FS_Union
<1> QED BY <1>1, <1>2, <1>3, <1>4

\* Taking a column out of a set that has all of it.
LEMMA Shrunk ==
  ASSUME NEW S, IsFiniteSet(S), NEW b, NEW m \in Nat, NEW n \in Nat, m <= n,
         Column(b, m, n) \subseteq S
  PROVE  /\ IsFiniteSet(S \ Column(b, m, n))
         /\ Cardinality(S \ Column(b, m, n)) = Cardinality(S) - (n - m)
<1> DEFINE R == S \ Column(b, m, n)
<1>1. IsFiniteSet(R)
  BY FS_Subset
<1>2. Cardinality(R) \in Nat
  BY <1>1, FS_CardinalityType
<1>3. R \cap Column(b, m, n) = {} /\ R \cup Column(b, m, n) = S
  OBVIOUS
<1>4. Cardinality(R \cup Column(b, m, n)) = Cardinality(R) + (n - m)
  <2> HIDE DEF R
  <2> QED BY <1>1, <1>3, Grown
<1> QED BY <1>1, <1>2, <1>3, <1>4

-----------------------------------------------------------------------------
\* The blocks of a thread.
BlocksOf(t) == {b \in Blocks : Thread[b] = t}

\* The permits whose calculators are still, or again, in the queue.
Outstanding == {p \in Blocks \X (1 .. MaxWorkers) :
                  state[p[1]] \in Granted /\ Cardinality(taken[p[1]]) < p[2] /\ p[2] <= Need[p[1]]}

Stages ==
  \A b \in Blocks :
    /\ IsFiniteSet(taken[b])
    /\ Cardinality(taken[b]) <= Need[b]
    /\ state[b] = "taking" => Cardinality(taken[b]) < Need[b]
    /\ state[b] \notin Granted => taken[b] = {}
    /\ state[b] # Closed => Need[b] <= MaxWorkers
    /\ state[b] \in {"asleep", "awake", "taking", "putting"} => inner[Thread[b]] = b

\* A thread that waits, or was just woken, holds nothing.
WaitersHoldNothing == \A b \in Blocks : state[b] \in {"asleep", "awake"} => held[Thread[b]] = 0

\* Every calculator that no permit entitles anybody to take is in the queue.
Inventory ==
  Cardinality(idle) = Cardinality(Calculators) - MaxWorkers + available + Cardinality(Outstanding)

\* The inductive invariant.
PoolInv ==
  /\ PoolTypeOK
  /\ ExclusiveUse
  /\ Stages
  /\ PermitsConserved
  /\ NoLostWakeup
  /\ WaitersHoldNothing
  /\ Inventory

-----------------------------------------------------------------------------
\* The sets that are counted are finite.
LEMMA FinitePermits ==
  ASSUME NEW B \in SUBSET Blocks
  PROVE  IsFiniteSet(PermitsOf(B)) /\ Cardinality(PermitsOf(B)) \in Nat
<1>1. IsFiniteSet(B) /\ IsFiniteSet(1 .. MaxWorkers)
  BY PoolAssumption, FS_Subset, FS_Interval
<1>2. IsFiniteSet(B \X (1 .. MaxWorkers))
  BY <1>1, FS_Product
<1>3. PermitsOf(B) \in SUBSET (B \X (1 .. MaxWorkers))
  BY DEF PermitsOf
<1>4. IsFiniteSet(PermitsOf(B))
  BY <1>2, <1>3, FS_Subset
<1> QED BY <1>4, FS_CardinalityType

LEMMA FiniteOutstanding ==
  IsFiniteSet(Outstanding) /\ Cardinality(Outstanding) \in Nat
<1>1. IsFiniteSet(PermitsOf(Blocks))
  BY FinitePermits
<1>2. Outstanding \in SUBSET PermitsOf(Blocks)
  BY DEF Outstanding, PermitsOf
<1>3. IsFiniteSet(Outstanding)
  BY <1>1, <1>2, FS_Subset
<1> QED BY <1>3, FS_CardinalityType

LEMMA FiniteIdle ==
  ASSUME PoolTypeOK
  PROVE  IsFiniteSet(idle) /\ Cardinality(idle) \in Nat
<1>1. IsFiniteSet(idle)
  BY PoolAssumption, FS_Subset DEF PoolTypeOK
<1> QED BY <1>1, FS_CardinalityType

-----------------------------------------------------------------------------
\* What the invariant says of the queue: a block that still has to take a
\* calculator finds one, whoever else is at it.
LEMMA QueueCovers ==
  ASSUME PoolInv
  PROVE  InventoriesAgree
<1> SUFFICES ASSUME NEW b \in Blocks, state[b] = "taking"
             PROVE  Cardinality(taken[b]) < Need[b] /\ idle # {}
  BY DEF InventoriesAgree
<1>1. /\ Cardinality(taken[b]) \in Nat /\ Cardinality(taken[b]) < Need[b]
      /\ Need[b] \in Nat /\ Need[b] <= MaxWorkers
  <2>1. IsFiniteSet(taken[b])
    BY DEF PoolInv, Stages
  <2> QED BY <2>1, FS_CardinalityType, PoolAssumption DEF PoolInv, Stages, Closed
<1>2. <<b, Need[b]>> \in Outstanding
  BY <1>1, PoolAssumption DEF Outstanding, Granted
<1>3. Cardinality(Outstanding) # 0
  BY <1>2, FiniteOutstanding, FS_EmptySet
<1>4. Cardinality(Calculators) \in Nat
  BY PoolAssumption, FS_CardinalityType
<1>5. Cardinality(idle) # 0
  BY <1>3, <1>4, FiniteOutstanding, PoolAssumption DEF PoolInv, Inventory, PoolTypeOK
<1>6. idle # {}
  BY <1>5, FS_EmptySet
<1> QED BY <1>1, <1>6

\* What the invariant says of waiting: the permits a sleeper lacks are held
\* by a thread that does not sleep.
LEMMA WaitersWaitForRunners ==
  ASSUME PoolInv
  PROVE  NoCircularWait
<1> SUFFICES ASSUME NEW b \in Blocks, state[b] = "asleep"
             PROVE  \E k \in Blocks :
                      /\ state[k] \in Granted
                      /\ \A j \in Blocks : Thread[j] = Thread[k] => state[j] # "asleep"
  BY DEF NoCircularWait
<1>1. available < Need[b] /\ Need[b] <= MaxWorkers /\ Need[b] \in Nat /\ available \in Nat
  BY PoolAssumption DEF PoolInv, NoLostWakeup, Stages, PoolTypeOK, Closed
<1>2. Cardinality(PermitsOf(Blocks)) # 0
  BY <1>1, PoolAssumption DEF PoolInv, PermitsConserved
<1>3. PermitsOf(Blocks) # {}
  BY <1>2, FS_EmptySet
<1>4. PICK k \in Blocks, i \in 1 .. MaxWorkers : state[k] \in Granted /\ i <= Need[k]
  BY <1>3 DEF PermitsOf
<1>5. <<k, i>> \in PermitsOf(BlocksOf(Thread[k]))
  BY <1>4 DEF PermitsOf, BlocksOf
<1>6. IsFiniteSet(PermitsOf(BlocksOf(Thread[k])))
  BY FinitePermits DEF BlocksOf
<1>7. Cardinality(PermitsOf(BlocksOf(Thread[k]))) # 0
  BY <1>5, <1>6, FS_EmptySet
<1>8. held[Thread[k]] # 0
  <2>1. Thread[k] \in Threads
    BY PoolAssumption
  <2> QED BY <1>7, <2>1 DEF PoolInv, PermitsConserved, BlocksOf
<1>9. \A j \in Blocks : Thread[j] = Thread[k] => state[j] # "asleep"
  BY <1>8 DEF PoolInv, WaitersHoldNothing
<1> QED BY <1>4, <1>9

-----------------------------------------------------------------------------
\* How the counted sets change.  Granting adds the column of the block to
\* both, and returning the permits takes it away again.
LEMMA Granting ==
  ASSUME NEW b \in Blocks, NEW B \in SUBSET Blocks, Need[b] <= MaxWorkers,
         state \in [Blocks -> States], state[b] \notin Granted, taken[b] = {},
         state' = [state EXCEPT ![b] = "taking"], taken' = taken
  PROVE  /\ PermitsOf(B)' = IF b \in B THEN PermitsOf(B) \cup Column(b, 0, Need[b]) ELSE PermitsOf(B)
         /\ PermitsOf(B) \cap Column(b, 0, Need[b]) = {}
         /\ Outstanding' = Outstanding \cup Column(b, 0, Need[b])
         /\ Outstanding \cap Column(b, 0, Need[b]) = {}
<1> USE PoolAssumption DEF Granted, Column
<1>1. Cardinality(taken[b]) = 0
  BY FS_EmptySet
<1>2. Need[b] \in Nat /\ MaxWorkers \in Nat
  OBVIOUS
<1>3. \A k \in Blocks : state'[k] \in Granted <=> state[k] \in Granted \/ k = b
  OBVIOUS
<1>4. PermitsOf(B)' = IF b \in B THEN PermitsOf(B) \cup Column(b, 0, Need[b]) ELSE PermitsOf(B)
  BY <1>2, <1>3 DEF PermitsOf
<1>5. Outstanding' = Outstanding \cup Column(b, 0, Need[b])
  <2>1. \A k \in Blocks, i \in 1 .. MaxWorkers :
          <<k, i>> \in Outstanding' <=> <<k, i>> \in Outstanding \/ (k = b /\ i <= Need[b])
    BY <1>1, <1>2, <1>3 DEF Outstanding
  <2>2. \A k \in Blocks, i \in 1 .. MaxWorkers :
          <<k, i>> \in Column(b, 0, Need[b]) <=> k = b /\ i <= Need[b]
    BY <1>2
  <2>3. Outstanding' \subseteq Blocks \X (1 .. MaxWorkers) /\ Outstanding \subseteq Blocks \X (1 .. MaxWorkers)
    BY DEF Outstanding
  <2>4. Column(b, 0, Need[b]) \subseteq Blocks \X (1 .. MaxWorkers)
    BY <1>2
  <2> QED BY <2>1, <2>2, <2>3, <2>4
<1> QED BY <1>4, <1>5 DEF PermitsOf, Outstanding

LEMMA Returning ==
  ASSUME NEW b \in Blocks, NEW B \in SUBSET Blocks, Need[b] <= MaxWorkers,
         state \in [Blocks -> States], state[b] \in Granted, taken[b] = {},
         state' = [Woken EXCEPT ![b] = Closed], taken' = taken
  PROVE  /\ PermitsOf(B)' = IF b \in B THEN PermitsOf(B) \ Column(b, 0, Need[b]) ELSE PermitsOf(B)
         /\ b \in B => Column(b, 0, Need[b]) \subseteq PermitsOf(B)
         /\ Outstanding' = Outstanding \ Column(b, 0, Need[b])
         /\ Column(b, 0, Need[b]) \subseteq Outstanding
<1> USE PoolAssumption DEF Granted, Column
<1>1. Cardinality(taken[b]) = 0
  BY FS_EmptySet
<1>2. Need[b] \in Nat /\ MaxWorkers \in Nat
  OBVIOUS
<1>3. \A k \in Blocks : state'[k] \in Granted <=> state[k] \in Granted /\ k # b
  BY DEF Woken, Closed
<1>4. PermitsOf(B)' = IF b \in B THEN PermitsOf(B) \ Column(b, 0, Need[b]) ELSE PermitsOf(B)
  BY <1>2, <1>3 DEF PermitsOf
<1>5. Outstanding' = Outstanding \ Column(b, 0, Need[b])
  BY <1>1, <1>2, <1>3 DEF Outstanding
<1>6. b \in B => Column(b, 0, Need[b]) \subseteq PermitsOf(B)
  BY <1>2 DEF PermitsOf
<1>7. Column(b, 0, Need[b]) \subseteq Outstanding
  <2> SUFFICES ASSUME NEW p \in {b} \X (1 .. Need[b])
               PROVE  p \in Outstanding
    OBVIOUS
  <2>1. p[1] = b /\ p[2] \in 1 .. Need[b] /\ p \in Blocks \X (1 .. MaxWorkers)
    BY <1>2
  <2> QED BY <1>1, <1>2, <2>1 DEF Outstanding
<1> QED BY <1>4, <1>5, <1>6, <1>7

\* The same, counted.
LEMMA GrantingCounts ==
  ASSUME NEW b \in Blocks, NEW B \in SUBSET Blocks, Need[b] <= MaxWorkers,
         state \in [Blocks -> States], state[b] \notin Granted, taken[b] = {},
         state' = [state EXCEPT ![b] = "taking"], taken' = taken
  PROVE  /\ Cardinality(PermitsOf(B)') = IF b \in B THEN Cardinality(PermitsOf(B)) + Need[b]
                                                    ELSE Cardinality(PermitsOf(B))
         /\ Cardinality(Outstanding') = Cardinality(Outstanding) + Need[b]
<1>1. Need[b] \in Nat /\ 0 \in Nat /\ 0 <= Need[b] /\ Need[b] - 0 = Need[b]
  <2>1. Need[b] \in Nat
    BY PoolAssumption
  <2> QED BY <2>1
<1>2. /\ PermitsOf(B)' = IF b \in B THEN PermitsOf(B) \cup Column(b, 0, Need[b]) ELSE PermitsOf(B)
      /\ PermitsOf(B) \cap Column(b, 0, Need[b]) = {}
      /\ Outstanding' = Outstanding \cup Column(b, 0, Need[b])
      /\ Outstanding \cap Column(b, 0, Need[b]) = {}
  BY Granting
<1>3. IsFiniteSet(PermitsOf(B)) /\ IsFiniteSet(Outstanding)
  BY FinitePermits, FiniteOutstanding
<1>4. Cardinality(PermitsOf(B) \cup Column(b, 0, Need[b])) = Cardinality(PermitsOf(B)) + (Need[b] - 0)
  BY <1>1, <1>2, <1>3, Grown
<1>5. Cardinality(Outstanding \cup Column(b, 0, Need[b])) = Cardinality(Outstanding) + (Need[b] - 0)
  BY <1>1, <1>2, <1>3, Grown
<1> QED BY <1>1, <1>2, <1>4, <1>5

LEMMA ReturningCounts ==
  ASSUME NEW b \in Blocks, NEW B \in SUBSET Blocks, Need[b] <= MaxWorkers,
         state \in [Blocks -> States], state[b] \in Granted, taken[b] = {},
         state' = [Woken EXCEPT ![b] = Closed], taken' = taken
  PROVE  /\ Cardinality(PermitsOf(B)') = IF b \in B THEN Cardinality(PermitsOf(B)) - Need[b]
                                                    ELSE Cardinality(PermitsOf(B))
         /\ Cardinality(PermitsOf(B)') \in Nat
         /\ Cardinality(Outstanding') = Cardinality(Outstanding) - Need[b]
<1>1. Need[b] \in Nat /\ 0 \in Nat /\ 0 <= Need[b] /\ Need[b] - 0 = Need[b]
  <2>1. Need[b] \in Nat
    BY PoolAssumption
  <2> QED BY <2>1
<1>2. /\ PermitsOf(B)' = IF b \in B THEN PermitsOf(B) \ Column(b, 0, Need[b]) ELSE PermitsOf(B)
      /\ b \in B => Column(b, 0, Need[b]) \subseteq PermitsOf(B)
      /\ Outstanding' = Outstanding \ Column(b, 0, Need[b])
      /\ Column(b, 0, Need[b]) \subseteq Outstanding
  BY Returning
<1>3. IsFiniteSet(PermitsOf(B)) /\ IsFiniteSet(Outstanding)
  BY FinitePermits, FiniteOutstanding
<1>4. b \in B => IsFiniteSet(PermitsOf(B) \ Column(b, 0, Need[b])) 
                /\ Cardinality(PermitsOf(B) \ Column(b, 0, Need[b])) = Cardinality(PermitsOf(B)) - (Need[b] - 0)
  BY <1>1, <1>2, <1>3, Shrunk
<1>5. Cardinality(Outstanding \ Column(b, 0, Need[b])) = Cardinality(Outstanding) - (Need[b] - 0)
  BY <1>1, <1>2, <1>3, Shrunk
<1>6. Cardinality(PermitsOf(B)') \in Nat
  BY <1>2, <1>3, <1>4, FS_CardinalityType
<1> QED BY <1>1, <1>2, <1>4, <1>5, <1>6

\* While a block is granted its permits do not move, and no other change of
\* state grants or returns any.
LEMMA Keeping ==
  ASSUME NEW B \in SUBSET Blocks, \A k \in Blocks : state'[k] \in Granted <=> state[k] \in Granted
  PROVE  PermitsOf(B)' = PermitsOf(B)
BY DEF PermitsOf

\* Taking a calculator uses up one outstanding permit.
LEMMA Taking ==
  ASSUME NEW b \in Blocks, NEW c, Stages, PoolTypeOK, state[b] = "taking", c \notin taken[b],
         taken' = [taken EXCEPT ![b] = @ \cup {c}],
         state' \in [Blocks -> States],
         \A k \in Blocks : state'[k] \in Granted <=> state[k] \in Granted
  PROVE  /\ Outstanding' = Outstanding \ {<<b, Cardinality(taken[b]) + 1>>}
         /\ <<b, Cardinality(taken[b]) + 1>> \in Outstanding
         /\ IsFiniteSet(taken[b] \cup {c})
         /\ Cardinality(taken[b] \cup {c}) = Cardinality(taken[b]) + 1
<1> USE PoolAssumption
<1>1. IsFiniteSet(taken[b]) /\ Cardinality(taken[b]) \in Nat
  BY FS_CardinalityType DEF Stages
<1>2. IsFiniteSet(taken[b] \cup {c}) /\ Cardinality(taken[b] \cup {c}) = Cardinality(taken[b]) + 1
  BY <1>1, FS_AddElement
<1>3. Cardinality(taken[b]) + 1 <= Need[b] /\ Need[b] <= MaxWorkers /\ Need[b] \in Nat
  BY <1>1 DEF Stages, Closed
<1>4. \A k \in Blocks : taken'[k] = IF k = b THEN taken[b] \cup {c} ELSE taken[k]
  BY DEF PoolTypeOK
<1>5. \A k \in Blocks, i \in 1 .. MaxWorkers :
        <<k, i>> \in Outstanding' <=> <<k, i>> \in Outstanding /\ <<k, i>> # <<b, Cardinality(taken[b]) + 1>>
  <2> SUFFICES ASSUME NEW k \in Blocks, NEW i \in 1 .. MaxWorkers
               PROVE  <<k, i>> \in Outstanding' <=> <<k, i>> \in Outstanding /\ <<k, i>> # <<b, Cardinality(taken[b]) + 1>>
    OBVIOUS
  <2>1. <<k, i>> \in Outstanding <=> state[k] \in Granted /\ Cardinality(taken[k]) < i /\ i <= Need[k]
    BY DEF Outstanding
  <2>2. <<k, i>> \in Outstanding' <=> state[k] \in Granted /\ Cardinality(taken'[k]) < i /\ i <= Need[k]
    BY DEF Outstanding
  <2> QED BY <1>1, <1>2, <1>4, <2>1, <2>2
<1>6. <<b, Cardinality(taken[b]) + 1>> \in Outstanding
  BY <1>1, <1>3 DEF Outstanding, Granted
<1>7. Outstanding' \subseteq Blocks \X (1 .. MaxWorkers) /\ Outstanding \subseteq Blocks \X (1 .. MaxWorkers)
  BY DEF Outstanding
<1>8. Outstanding' = Outstanding \ {<<b, Cardinality(taken[b]) + 1>>}
  BY <1>5, <1>7
<1> QED BY <1>2, <1>6, <1>8

\* Putting one back makes it outstanding again.
LEMMA Putting ==
  ASSUME NEW b \in Blocks, NEW c, Stages, PoolTypeOK, state[b] \in Granted, c \in taken[b],
         taken' = [taken EXCEPT ![b] = @ \ {c}],
         state' \in [Blocks -> States],
         \A k \in Blocks : state'[k] \in Granted <=> state[k] \in Granted
  PROVE  /\ Outstanding' = Outstanding \cup {<<b, Cardinality(taken[b])>>}
         /\ <<b, Cardinality(taken[b])>> \notin Outstanding
         /\ IsFiniteSet(taken[b] \ {c})
         /\ Cardinality(taken[b] \ {c}) = Cardinality(taken[b]) - 1
<1> USE PoolAssumption
<1>1. IsFiniteSet(taken[b]) /\ Cardinality(taken[b]) \in Nat
  BY FS_CardinalityType DEF Stages
<1>2. IsFiniteSet(taken[b] \ {c}) /\ Cardinality(taken[b] \ {c}) = Cardinality(taken[b]) - 1
  BY <1>1, FS_RemoveElement
<1>3. /\ Cardinality(taken[b]) <= Need[b] /\ Need[b] <= MaxWorkers /\ Need[b] \in Nat
      /\ Cardinality(taken[b]) # 0
  BY <1>1, FS_EmptySet DEF Stages, Closed, Granted
<1>4. \A k \in Blocks : taken'[k] = IF k = b THEN taken[b] \ {c} ELSE taken[k]
  BY DEF PoolTypeOK
<1>5. \A k \in Blocks, i \in 1 .. MaxWorkers :
        <<k, i>> \in Outstanding' <=> <<k, i>> \in Outstanding \/ <<k, i>> = <<b, Cardinality(taken[b])>>
  <2> SUFFICES ASSUME NEW k \in Blocks, NEW i \in 1 .. MaxWorkers
               PROVE  <<k, i>> \in Outstanding' <=> <<k, i>> \in Outstanding \/ <<k, i>> = <<b, Cardinality(taken[b])>>
    OBVIOUS
  <2>1. <<k, i>> \in Outstanding <=> state[k] \in Granted /\ Cardinality(taken[k]) < i /\ i <= Need[k]
    BY DEF Outstanding
  <2>2. <<k, i>> \in Outstanding' <=> state[k] \in Granted /\ Cardinality(taken'[k]) < i /\ i <= Need[k]
    BY DEF Outstanding
  <2> QED BY <1>1, <1>2, <1>3, <1>4, <2>1, <2>2
<1>6. <<b, Cardinality(taken[b])>> \notin Outstanding
  BY <1>1 DEF Outstanding
<1>7. /\ Outstanding' \subseteq Blocks \X (1 .. MaxWorkers) /\ Outstanding \subseteq Blocks \X (1 .. MaxWorkers)
      /\ <<b, Cardinality(taken[b])>> \in Blocks \X (1 .. MaxWorkers)
  BY <1>1, <1>3 DEF Outstanding
<1>8. Outstanding' = Outstanding \cup {<<b, Cardinality(taken[b])>>}
  BY <1>5, <1>7
<1> QED BY <1>2, <1>6, <1>8

-----------------------------------------------------------------------------
\* The invariant holds at the start.
LEMMA InitPool == PoolInit => PoolInv
<1> SUFFICES ASSUME PoolInit PROVE PoolInv
  OBVIOUS
<1> USE PoolAssumption DEF PoolInit, Granted, Closed
<1>1. Outstanding = {}
  BY DEF Outstanding
<1>2. \A B \in SUBSET Blocks : PermitsOf(B) = {}
  BY DEF PermitsOf
<1>3. PoolTypeOK
  BY DEF PoolTypeOK, States
<1>4. Stages
  BY FS_EmptySet DEF Stages
<1>5. PermitsConserved
  <2>1. Cardinality(PermitsOf(Blocks)) = 0
    BY <1>2, FS_EmptySet
  <2>2. ASSUME NEW t \in Threads
        PROVE  Cardinality(PermitsOf({b \in Blocks : Thread[b] = t})) = 0
    <3>1. PermitsOf({b \in Blocks : Thread[b] = t}) = {}
      BY <1>2
    <3> QED BY <3>1, FS_EmptySet
  <2> QED BY <2>1, <2>2 DEF PermitsConserved
<1>6. Inventory
  BY <1>1, FS_EmptySet, FS_CardinalityType DEF Inventory
<1> QED BY <1>3, <1>4, <1>5, <1>6 DEF PoolInv, ExclusiveUse, NoLostWakeup, WaitersHoldNothing

-----------------------------------------------------------------------------
\* Every step keeps the invariant.
LEMMA ReserveKeeps ==
  ASSUME NEW b \in Blocks, PoolInv, Reserve(b)
  PROVE  PoolInv'
<1> USE PoolAssumption
<1> DEFINE t == Thread[b]
<1>1. /\ state[b] \in {Closed, "awake"} /\ Need[b] <= MaxWorkers /\ Need[b] \in Nat
      /\ available >= Need[b] /\ available' = available - Need[b]
      /\ held' = [held EXCEPT ![t] = @ + Need[b]]
      /\ state' = [state EXCEPT ![b] = "taking"]
      /\ inner' = [inner EXCEPT ![t] = b]
      /\ idle' = idle /\ taken' = taken
      /\ t \in Threads
  BY DEF Reserve, AtHead
<1>2. PoolTypeOK'
  BY <1>1 DEF PoolInv, PoolTypeOK, States, Granted
<1>3. ExclusiveUse'
  BY <1>1 DEF PoolInv, ExclusiveUse
<1>4. taken[b] = {} /\ state[b] \notin Granted
  BY <1>1 DEF PoolInv, Stages, Granted, Closed
\* The other blocks of the thread are closed or in use: this one is inside them.
<1>5. \A k \in Blocks : k # b /\ Thread[k] = t => state[k] \notin {"asleep", "awake", "taking", "putting"}
  BY DEF PoolInv, Stages, Reserve, AtHead, Closed
<1>6. Stages'
  <2>1. Cardinality(taken[b]) = 0
    BY <1>4, FS_EmptySet
  <2> SUFFICES ASSUME NEW k \in Blocks
               PROVE  Stages!(k)'
    BY DEF Stages
  <2>2. IsFiniteSet(taken[k]) /\ Cardinality(taken[k]) <= Need[k] /\ taken'[k] = taken[k]
    BY <1>1 DEF PoolInv, Stages
  <2>3. CASE k = b
    <3>1. state'[k] = "taking" /\ inner'[Thread[k]] = k /\ 0 < Need[k]
      BY <1>1, <2>3 DEF PoolInv, PoolTypeOK
    <3> QED BY <1>1, <2>1, <2>2, <2>3, <3>1 DEF Granted, Closed
  <2>4. CASE k # b
    <3>1. state'[k] = state[k]
      BY <1>1, <2>4 DEF PoolInv, PoolTypeOK
    <3>2. Thread[k] # t => inner'[Thread[k]] = inner[Thread[k]]
      BY <1>1 DEF PoolInv, PoolTypeOK
    <3> QED BY <1>5, <2>2, <2>4, <3>1, <3>2 DEF PoolInv, Stages
  <2> QED BY <2>3, <2>4
<1>7. PermitsConserved'
  <2>1. Cardinality(PermitsOf(Blocks))' = Cardinality(PermitsOf(Blocks)) + Need[b]
    BY <1>1, <1>4, GrantingCounts DEF PoolInv, PoolTypeOK
  <2>2. ASSUME NEW u \in Threads
        PROVE  held'[u] = Cardinality(PermitsOf({k \in Blocks : Thread[k] = u}))'
    <3> DEFINE B == {k \in Blocks : Thread[k] = u}
    <3>1. B \in SUBSET Blocks /\ (b \in B <=> t = u)
      OBVIOUS
    <3>2. held[u] = Cardinality(PermitsOf(B))
      BY DEF PoolInv, PermitsConserved
    <3> HIDE DEF B
    <3>3. Cardinality(PermitsOf(B))' = IF b \in B THEN Cardinality(PermitsOf(B)) + Need[b]
                                                  ELSE Cardinality(PermitsOf(B))
      BY <1>1, <1>4, <3>1, GrantingCounts DEF PoolInv, PoolTypeOK
    <3>4. held'[u] = Cardinality(PermitsOf(B))'
      BY <1>1, <3>1, <3>2, <3>3 DEF PoolInv, PoolTypeOK
    <3> QED BY <3>4 DEF B
  <2> QED BY <1>1, <2>1, <2>2, FinitePermits DEF PoolInv, PermitsConserved, PoolTypeOK
<1>8. NoLostWakeup'
  BY <1>1 DEF PoolInv, NoLostWakeup, PoolTypeOK
<1>9. WaitersHoldNothing'
  BY <1>1, <1>5 DEF PoolInv, WaitersHoldNothing, PoolTypeOK
<1>10. Inventory'
  <2>1. Cardinality(Outstanding)' = Cardinality(Outstanding) + Need[b]
    BY <1>1, <1>4, GrantingCounts DEF PoolInv, PoolTypeOK
  <2>2. Cardinality(Calculators) \in Nat
    BY FS_CardinalityType
  <2> QED BY <1>1, <2>1, <2>2, FiniteOutstanding DEF PoolInv, Inventory, PoolTypeOK
<1> QED BY <1>2, <1>3, <1>6, <1>7, <1>8, <1>9, <1>10 DEF PoolInv

LEMMA SleepKeeps ==
  ASSUME NEW b \in Blocks, PoolInv, Sleep(b)
  PROVE  PoolInv'
<1> USE PoolAssumption
<1> DEFINE t == Thread[b]
<1>1. /\ state[b] \in {Closed, "awake"} /\ Need[b] <= MaxWorkers /\ Need[b] \in Nat
      /\ available < Need[b] /\ held[t] = 0
      /\ state' = [state EXCEPT ![b] = "asleep"]
      /\ inner' = [inner EXCEPT ![t] = b]
      /\ available' = available /\ held' = held /\ idle' = idle /\ taken' = taken
      /\ t \in Threads
  BY DEF Sleep, AtHead
<1>2. PoolTypeOK'
  BY <1>1 DEF PoolInv, PoolTypeOK, States, Granted
<1>3. ExclusiveUse'
  BY <1>1 DEF PoolInv, ExclusiveUse
<1>4. taken[b] = {}
  BY <1>1 DEF PoolInv, Stages, Granted, Closed
<1>5. \A k \in Blocks : k # b /\ Thread[k] = t => state[k] \notin {"asleep", "awake", "taking", "putting"}
  BY DEF PoolInv, Stages, Sleep, AtHead, Closed
<1>6. Stages'
  <2> SUFFICES ASSUME NEW k \in Blocks
               PROVE  Stages!(k)'
    BY DEF Stages
  <2>1. IsFiniteSet(taken[k]) /\ Cardinality(taken[k]) <= Need[k] /\ taken'[k] = taken[k]
    BY <1>1 DEF PoolInv, Stages
  <2>2. CASE k = b
    <3>1. state'[k] = "asleep" /\ inner'[Thread[k]] = k
      BY <1>1, <2>2 DEF PoolInv, PoolTypeOK
    <3> QED BY <1>1, <1>4, <2>1, <2>2, <3>1 DEF Granted, Closed
  <2>3. CASE k # b
    <3>1. state'[k] = state[k]
      BY <1>1, <2>3 DEF PoolInv, PoolTypeOK
    <3>2. Thread[k] # t => inner'[Thread[k]] = inner[Thread[k]]
      BY <1>1 DEF PoolInv, PoolTypeOK
    <3> QED BY <1>5, <2>1, <2>3, <3>1, <3>2 DEF PoolInv, Stages
  <2> QED BY <2>2, <2>3
<1>7. \A k \in Blocks : state'[k] \in Granted <=> state[k] \in Granted
  BY <1>1 DEF PoolInv, PoolTypeOK, Granted, Closed
<1>8. PermitsConserved'
  BY <1>1, <1>7, Keeping DEF PoolInv, PermitsConserved
<1>9. NoLostWakeup' /\ WaitersHoldNothing'
  BY <1>1 DEF PoolInv, NoLostWakeup, WaitersHoldNothing, PoolTypeOK
<1>10. Outstanding' = Outstanding
  BY <1>1, <1>7 DEF Outstanding
<1> QED BY <1>1, <1>2, <1>3, <1>6, <1>8, <1>9, <1>10 DEF PoolInv, Inventory

LEMMA TakeKeeps ==
  ASSUME NEW b \in Blocks, PoolInv, Take(b)
  PROVE  PoolInv'
<1> USE PoolAssumption
<1>1. PICK c \in idle :
        /\ idle' = idle \ {c}
        /\ taken' = [taken EXCEPT ![b] = @ \cup {c}]
  BY DEF Take
<1>2. /\ state[b] = "taking"
      /\ state' = [state EXCEPT ![b] = IF Cardinality(taken[b]) + 1 = Need[b] THEN "using" ELSE "taking"]
      /\ available' = available /\ held' = held /\ inner' = inner
  BY DEF Take
<1>3. c \notin taken[b] /\ c \in Calculators
  BY DEF PoolInv, ExclusiveUse, PoolTypeOK
<1>4. PoolTypeOK'
  BY <1>1, <1>2, <1>3 DEF PoolInv, PoolTypeOK, States, Granted
<1>5. \A k \in Blocks : state'[k] \in Granted <=> state[k] \in Granted
  BY <1>2 DEF PoolInv, PoolTypeOK, Granted
<1>6. /\ Outstanding' = Outstanding \ {<<b, Cardinality(taken[b]) + 1>>}
      /\ <<b, Cardinality(taken[b]) + 1>> \in Outstanding
      /\ IsFiniteSet(taken[b] \cup {c})
      /\ Cardinality(taken[b] \cup {c}) = Cardinality(taken[b]) + 1
  BY <1>1, <1>2, <1>3, <1>4, <1>5, Taking DEF PoolInv, PoolTypeOK
<1>7. \A k \in Blocks : taken'[k] = IF k = b THEN taken[b] \cup {c} ELSE taken[k]
  BY <1>1 DEF PoolInv, PoolTypeOK
<1>8. ExclusiveUse'
  BY <1>1, <1>7 DEF PoolInv, ExclusiveUse
<1>9. Stages'
  <2>1. Cardinality(taken[b]) \in Nat /\ Cardinality(taken[b]) < Need[b] /\ Need[b] \in Nat
    BY <1>2, FS_CardinalityType DEF PoolInv, Stages
  <2> SUFFICES ASSUME NEW k \in Blocks
               PROVE  Stages!(k)'
    BY DEF Stages
  <2>2. CASE k = b
    <3>1. taken'[k] = taken[b] \cup {c}
      BY <1>7, <2>2
    <3>2. state'[k] = IF Cardinality(taken[b]) + 1 = Need[b] THEN "using" ELSE "taking"
      BY <1>2, <2>2 DEF PoolInv, PoolTypeOK
    <3>3. Need[b] <= MaxWorkers /\ inner[Thread[b]] = b
      BY <1>2 DEF PoolInv, Stages, Closed
    <3> QED BY <1>2, <1>6, <2>1, <2>2, <3>1, <3>2, <3>3 DEF Granted, Closed
  <2>3. CASE k # b
    <3>1. state'[k] = state[k] /\ taken'[k] = taken[k]
      BY <1>2, <1>7, <2>3 DEF PoolInv, PoolTypeOK
    <3> QED BY <1>2, <3>1 DEF PoolInv, Stages
  <2> QED BY <2>2, <2>3
<1>10. PermitsConserved'
  BY <1>2, <1>5, Keeping DEF PoolInv, PermitsConserved
<1>11. NoLostWakeup' /\ WaitersHoldNothing'
  BY <1>2 DEF PoolInv, NoLostWakeup, WaitersHoldNothing, PoolTypeOK
<1>12. Inventory'
  <2>1. Cardinality(idle') = Cardinality(idle) - 1
    BY <1>1, FiniteIdle, FS_RemoveElement DEF PoolInv
  <2>2. Cardinality(Outstanding') = Cardinality(Outstanding) - 1
    <3> DEFINE p == <<b, Cardinality(taken[b]) + 1>>
    <3>1. Outstanding' = Outstanding \ {p} /\ p \in Outstanding
      BY <1>6
    <3> HIDE DEF p
    <3>2. Cardinality(Outstanding \ {p}) = Cardinality(Outstanding) - 1
      BY <3>1, FiniteOutstanding, FS_RemoveElement
    <3> QED BY <3>1, <3>2
  <2>3. Cardinality(Calculators) \in Nat
    BY FS_CardinalityType
  <2> QED BY <1>2, <2>1, <2>2, <2>3, FiniteIdle, FiniteOutstanding DEF PoolInv, Inventory, PoolTypeOK
<1> QED BY <1>4, <1>8, <1>9, <1>10, <1>11, <1>12 DEF PoolInv

LEMMA PutKeeps ==
  ASSUME NEW b \in Blocks, PoolInv, Put(b)
  PROVE  PoolInv'
<1> USE PoolAssumption
<1>1. PICK c \in taken[b] :
        /\ idle' = idle \cup {c}
        /\ taken' = [taken EXCEPT ![b] = @ \ {c}]
  BY DEF Put
<1>2. /\ state[b] \in {"using", "putting"} /\ inner[Thread[b]] = b
      /\ state' = [state EXCEPT ![b] = "putting"]
      /\ available' = available /\ held' = held /\ inner' = inner
  BY DEF Put
<1>3. c \notin idle /\ c \in Calculators
  BY DEF PoolInv, ExclusiveUse, PoolTypeOK
<1>4. PoolTypeOK'
  BY <1>1, <1>2, <1>3 DEF PoolInv, PoolTypeOK, States, Granted
<1>5. \A k \in Blocks : state'[k] \in Granted <=> state[k] \in Granted
  BY <1>2 DEF PoolInv, PoolTypeOK, Granted
<1>6. /\ Outstanding' = Outstanding \cup {<<b, Cardinality(taken[b])>>}
      /\ <<b, Cardinality(taken[b])>> \notin Outstanding
      /\ IsFiniteSet(taken[b] \ {c})
      /\ Cardinality(taken[b] \ {c}) = Cardinality(taken[b]) - 1
  <2>1. state[b] \in Granted
    BY <1>2 DEF Granted
  <2> QED BY <1>1, <1>4, <1>5, <2>1, Putting DEF PoolInv, PoolTypeOK
<1>7. \A k \in Blocks : taken'[k] = IF k = b THEN taken[b] \ {c} ELSE taken[k]
  BY <1>1 DEF PoolInv, PoolTypeOK
<1>8. ExclusiveUse'
  BY <1>1, <1>7 DEF PoolInv, ExclusiveUse
<1>9. Stages'
  <2>1. Cardinality(taken[b]) \in Nat /\ Cardinality(taken[b]) <= Need[b] /\ Need[b] \in Nat
    BY FS_CardinalityType DEF PoolInv, Stages
  <2> SUFFICES ASSUME NEW k \in Blocks
               PROVE  Stages!(k)'
    BY DEF Stages
  <2>2. CASE k = b
    <3>1. taken'[k] = taken[b] \ {c}
      BY <1>7, <2>2
    <3>2. state'[k] = "putting"
      BY <1>2, <2>2 DEF PoolInv, PoolTypeOK
    <3>3. Need[b] <= MaxWorkers
      BY <1>2 DEF PoolInv, Stages, Closed
    <3> QED BY <1>2, <1>6, <2>1, <2>2, <3>1, <3>2, <3>3 DEF Granted, Closed
  <2>3. CASE k # b
    <3>1. state'[k] = state[k] /\ taken'[k] = taken[k]
      BY <1>2, <1>7, <2>3 DEF PoolInv, PoolTypeOK
    <3> QED BY <1>2, <3>1 DEF PoolInv, Stages
  <2> QED BY <2>2, <2>3
<1>10. PermitsConserved'
  BY <1>2, <1>5, Keeping DEF PoolInv, PermitsConserved
<1>11. NoLostWakeup' /\ WaitersHoldNothing'
  BY <1>2 DEF PoolInv, NoLostWakeup, WaitersHoldNothing, PoolTypeOK
<1>12. Inventory'
  <2>1. Cardinality(idle') = Cardinality(idle) + 1
    BY <1>1, <1>3, FiniteIdle, FS_AddElement DEF PoolInv
  <2>2. Cardinality(Outstanding') = Cardinality(Outstanding) + 1
    BY <1>6, FiniteOutstanding, FS_AddElement
  <2>3. Cardinality(Calculators) \in Nat
    BY FS_CardinalityType
  <2> QED BY <1>2, <2>1, <2>2, <2>3, FiniteIdle, FiniteOutstanding DEF PoolInv, Inventory, PoolTypeOK
<1> QED BY <1>4, <1>8, <1>9, <1>10, <1>11, <1>12 DEF PoolInv

LEMMA ReleaseKeeps ==
  ASSUME NEW b \in Blocks, PoolInv, Release(b)
  PROVE  PoolInv'
<1> USE PoolAssumption
<1> DEFINE t == Thread[b]
<1>1. /\ state[b] = "putting" /\ taken[b] = {} /\ Need[b] \in Nat
      /\ available' = available + Need[b]
      /\ held' = [held EXCEPT ![t] = @ - Need[b]]
      /\ state' = [Woken EXCEPT ![b] = Closed]
      /\ inner' = [inner EXCEPT ![t] = Outer[b]]
      /\ idle' = idle /\ taken' = taken
      /\ t \in Threads
  BY DEF Release
<1>2. Need[b] <= MaxWorkers /\ inner[t] = b /\ state[b] \in Granted
  BY <1>1 DEF PoolInv, Stages, Closed, Granted
<1>3. \A k \in Blocks : k # b /\ Thread[k] = t => state[k] \notin {"asleep", "awake", "taking", "putting"}
  BY <1>2 DEF PoolInv, Stages
<1>4. \A k \in Blocks : state'[k] = IF k = b THEN Closed ELSE IF state[k] = "asleep" THEN "awake" ELSE state[k]
  BY <1>1 DEF Woken
<1>5. state' \in [Blocks -> States]
  BY <1>1, <1>4 DEF PoolInv, PoolTypeOK, States, Closed, Granted, Woken
<1>6. PermitsConserved' /\ available' \in 0 .. MaxWorkers /\ held' \in [Threads -> Nat]
  <2>1. Cardinality(PermitsOf(Blocks)') = Cardinality(PermitsOf(Blocks)) - Need[b]
    BY <1>1, <1>2, ReturningCounts DEF PoolInv, PoolTypeOK
  <2>2. Cardinality(PermitsOf(Blocks)') \in Nat
    BY <1>1, <1>2, ReturningCounts DEF PoolInv, PoolTypeOK
  <2>3. ASSUME NEW u \in Threads
        PROVE  held'[u] = Cardinality(PermitsOf({k \in Blocks : Thread[k] = u})') /\ held'[u] \in Nat
    <3> DEFINE B == {k \in Blocks : Thread[k] = u}
    <3>1. B \in SUBSET Blocks /\ (b \in B <=> t = u)
      OBVIOUS
    <3>2. held[u] = Cardinality(PermitsOf(B))
      BY DEF PoolInv, PermitsConserved
    <3> HIDE DEF B
    <3>3. Cardinality(PermitsOf(B)') = IF b \in B THEN Cardinality(PermitsOf(B)) - Need[b]
                                                  ELSE Cardinality(PermitsOf(B))
      BY <1>1, <1>2, <3>1, ReturningCounts DEF PoolInv, PoolTypeOK
    <3>4. Cardinality(PermitsOf(B)') \in Nat
      BY <1>1, <1>2, <3>1, ReturningCounts DEF PoolInv, PoolTypeOK
    <3>5. held'[u] = Cardinality(PermitsOf(B)')
      BY <1>1, <3>1, <3>2, <3>3 DEF PoolInv, PoolTypeOK
    <3> QED BY <3>4, <3>5 DEF B
  <2>4. available' + Cardinality(PermitsOf(Blocks)') = MaxWorkers
    BY <1>1, <2>1, FinitePermits DEF PoolInv, PermitsConserved, PoolTypeOK
  <2>5. available' \in 0 .. MaxWorkers
    BY <1>1, <2>2, <2>4 DEF PoolInv, PoolTypeOK
  <2>6. held' \in [Threads -> Nat]
    BY <1>1, <2>3 DEF PoolInv, PoolTypeOK
  <2> QED BY <2>3, <2>4, <2>5, <2>6 DEF PermitsConserved
<1>7. PoolTypeOK'
  BY <1>1, <1>5, <1>6 DEF PoolInv, PoolTypeOK
<1>8. ExclusiveUse'
  BY <1>1 DEF PoolInv, ExclusiveUse
<1>9. Stages'
  <2> SUFFICES ASSUME NEW k \in Blocks
               PROVE  Stages!(k)'
    BY DEF Stages
  <2>1. IsFiniteSet(taken[k]) /\ Cardinality(taken[k]) <= Need[k] /\ taken'[k] = taken[k]
    BY <1>1 DEF PoolInv, Stages
  <2>2. CASE k = b
    BY <1>1, <1>4, <2>1, <2>2 DEF Granted, Closed
  <2>3. CASE k # b
    <3>1. state'[k] = IF state[k] = "asleep" THEN "awake" ELSE state[k]
      BY <1>4, <2>3
    <3>2. Thread[k] # t => inner'[Thread[k]] = inner[Thread[k]]
      BY <1>1 DEF PoolInv, PoolTypeOK
    <3> QED BY <1>3, <2>1, <2>3, <3>1, <3>2 DEF PoolInv, Stages, Granted, Closed
  <2> QED BY <2>2, <2>3
<1>10. NoLostWakeup'
  BY <1>4 DEF NoLostWakeup, Closed
<1>11. WaitersHoldNothing'
  <2> SUFFICES ASSUME NEW k \in Blocks, state'[k] \in {"asleep", "awake"}
               PROVE  held'[Thread[k]] = 0
    BY DEF WaitersHoldNothing
  <2>1. k # b /\ state[k] \in {"asleep", "awake"}
    BY <1>4 DEF Closed
  <2>2. Thread[k] # t
    BY <1>3, <2>1
  <2> QED BY <1>1, <2>1, <2>2 DEF PoolInv, PoolTypeOK, WaitersHoldNothing
<1>12. Inventory'
  <2>1. Cardinality(Outstanding') = Cardinality(Outstanding) - Need[b]
    BY <1>1, <1>2, ReturningCounts DEF PoolInv, PoolTypeOK
  <2>2. Cardinality(Calculators) \in Nat
    BY FS_CardinalityType
  <2> QED BY <1>1, <2>1, <2>2, FiniteOutstanding DEF PoolInv, Inventory, PoolTypeOK
<1> QED BY <1>6, <1>7, <1>8, <1>9, <1>10, <1>11, <1>12 DEF PoolInv

-----------------------------------------------------------------------------
\* The invariant of the pool: every state the threads can bring it to
\* accounts for every permit and every calculator.
THEOREM PoolInvariance == PoolSpec => []PoolInv
<1>1. PoolInit => PoolInv
  BY InitPool
<1>2. PoolInv /\ [PoolNext]_poolVars => PoolInv'
  <2> SUFFICES ASSUME PoolInv, [PoolNext]_poolVars
               PROVE  PoolInv'
    OBVIOUS
  <2>1. ASSUME NEW b \in Blocks, Reserve(b) PROVE PoolInv'
    BY <2>1, ReserveKeeps
  <2>2. ASSUME NEW b \in Blocks, Sleep(b) PROVE PoolInv'
    BY <2>2, SleepKeeps
  <2>3. ASSUME NEW b \in Blocks, Take(b) PROVE PoolInv'
    BY <2>3, TakeKeeps
  <2>4. ASSUME NEW b \in Blocks, Put(b) PROVE PoolInv'
    BY <2>4, PutKeeps
  <2>5. ASSUME NEW b \in Blocks, Release(b) PROVE PoolInv'
    BY <2>5, ReleaseKeeps
  <2>6. CASE UNCHANGED poolVars
    BY <2>6 DEF poolVars, PoolInv, PoolTypeOK, ExclusiveUse, Stages, PermitsConserved, PermitsOf,
                NoLostWakeup, WaitersHoldNothing, Inventory, Outstanding
  <2> QED BY <2>1, <2>2, <2>3, <2>4, <2>5, <2>6 DEF PoolNext, Advance
<1> QED BY <1>1, <1>2, PTL DEF PoolSpec

\* No calculator is ever used by two blocks at once.
THEOREM ExclusiveUseHolds == PoolSpec => []ExclusiveUse
<1>1. PoolInv => ExclusiveUse
  BY DEF PoolInv
<1> QED BY <1>1, PoolInvariance, PTL

\* "permit and calculator inventories diverged" is never raised.
THEOREM InventoriesNeverDiverge == PoolSpec => []InventoriesAgree
<1> QED BY QueueCovers, PoolInvariance, PTL

\* Permits are neither lost nor invented, so that releasing never raises.
THEOREM PermitsAreConserved == PoolSpec => []PermitsConserved
<1>1. PoolInv => PermitsConserved
  BY DEF PoolInv
<1> QED BY <1>1, PoolInvariance, PTL

\* No thread sleeps through a release that would have satisfied it.
THEOREM NoWakeupIsLost == PoolSpec => []NoLostWakeup
<1>1. PoolInv => NoLostWakeup
  BY DEF PoolInv
<1> QED BY <1>1, PoolInvariance, PTL

\* Threads cannot wait for each other in a circle: whoever waits, waits for a
\* thread that runs.
THEOREM NoCircle == PoolSpec => []NoCircularWait
<1> QED BY WaitersWaitForRunners, PoolInvariance, PTL
=============================================================================
