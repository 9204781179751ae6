--------------------------- MODULE CalculatorPool ---------------------------
(***************************************************************************)
(* The pool of calculators (io/calculators.py) under threads that lease    *)
(* them in nested with-blocks.  A lease is taken in two stages that are    *)
(* not one atomic step: permits are reserved under the condition's lock,   *)
(* then the calculators are taken from a queue without waiting, on the     *)
(* strength of the permits.  It is given back in the opposite order.       *)
(*                                                                         *)
(* A block is one with-statement over acquire or acquire_many in the       *)
(* program of a thread.  Which idle calculator the queue hands out next is *)
(* left open.                                                              *)
(***************************************************************************)
EXTENDS Integers, FiniteSets

CONSTANTS
  Calculators,   \* the instances of the pool
  MaxWorkers,    \* min(len(calculators), max_workers)
  Threads,
  Blocks,        \* the with-blocks of all threads
  Thread,        \* block -> the thread that runs it
  Outer,         \* block -> the block it is nested in, or NoBlock
  Need,          \* block -> calculators requested
  NoBlock

VARIABLES
  available,     \* _available_permits
  held,          \* thread -> its count in _thread_permits
  idle,          \* the calculators in _queue
  taken,         \* block -> the calculators it holds
  state,         \* block -> where it is
  inner          \* thread -> its innermost open block, or NoBlock

poolVars == <<available, held, idle, taken, state, inner>>

ASSUME PoolAssumption ==
  /\ IsFiniteSet(Calculators) /\ IsFiniteSet(Blocks)
  /\ MaxWorkers \in Nat \ {0} /\ MaxWorkers <= Cardinality(Calculators)
  /\ NoBlock \notin Blocks
  /\ Thread \in [Blocks -> Threads]
  /\ Outer \in [Blocks -> Blocks \cup {NoBlock}]
  /\ \A b \in Blocks : Outer[b] # NoBlock => Thread[Outer[b]] = Thread[b] /\ Outer[b] # b
  /\ Need \in [Blocks -> Nat \ {0}]

Closed == "closed"
\* The states in which a block has its permits.
Granted == {"taking", "using", "putting"}
States == {Closed, "asleep", "awake"} \cup Granted

PoolInit ==
  /\ available = MaxWorkers
  /\ held = [t \in Threads |-> 0]
  /\ idle = Calculators
  /\ taken = [b \in Blocks |-> {}]
  /\ state = [b \in Blocks |-> Closed]
  /\ inner = [t \in Threads |-> NoBlock]

\* Control of the thread is at the head of the block, with a request the pool
\* can ever satisfy (acquire_many and _reserve_permits refuse a larger one
\* before they change anything).
AtHead(b) ==
  /\ Need[b] <= MaxWorkers
  /\ \/ /\ state[b] = Closed
        /\ inner[Thread[b]] = Outer[b]
        /\ Outer[b] # NoBlock => state[Outer[b]] = "using"
     \/ state[b] = "awake"

\* _reserve_permits, granted at once or after a wait.
Reserve(b) ==
  /\ AtHead(b)
  /\ available >= Need[b]
  /\ available' = available - Need[b]
  /\ held' = [held EXCEPT ![Thread[b]] = @ + Need[b]]
  /\ state' = [state EXCEPT ![b] = "taking"]
  /\ inner' = [inner EXCEPT ![Thread[b]] = b]
  /\ UNCHANGED <<idle, taken>>

\* Mutant: a nested request waits, too.
SleepNested(b) ==
  /\ AtHead(b)
  /\ available < Need[b]
  /\ state' = [state EXCEPT ![b] = "asleep"]
  /\ inner' = [inner EXCEPT ![Thread[b]] = b]
  /\ UNCHANGED <<available, held, idle, taken>>

\* Condition.wait.  A thread that already holds permits raises instead, out
\* of the block it never entered.
Sleep(b) ==
  /\ AtHead(b)
  /\ available < Need[b]
  /\ held[Thread[b]] = 0
  /\ state' = [state EXCEPT ![b] = "asleep"]
  /\ inner' = [inner EXCEPT ![Thread[b]] = b]
  /\ UNCHANGED <<available, held, idle, taken>>

\* Mutant: the calculator is looked at, and stays in the queue.
TakeLeaving(b) ==
  /\ state[b] = "taking"
  /\ \E c \in idle : taken' = [taken EXCEPT ![b] = @ \cup {c}]
  /\ state' = [state EXCEPT ![b] = IF Cardinality(taken[b]) + 1 = Need[b]
                                   THEN "using" ELSE "taking"]
  /\ UNCHANGED <<available, held, idle, inner>>

\* _take_calculator, once for every calculator requested.  It raises when
\* the queue is empty; that it never is, is InventoriesAgree.
Take(b) ==
  /\ state[b] = "taking"
  /\ \E c \in idle :
       /\ idle' = idle \ {c}
       /\ taken' = [taken EXCEPT ![b] = @ \cup {c}]
  /\ state' = [state EXCEPT ![b] = IF Cardinality(taken[b]) + 1 = Need[b]
                                   THEN "using" ELSE "taking"]
  /\ UNCHANGED <<available, held, inner>>

\* The block ends or raises: its calculators go back, one by one.
Put(b) ==
  /\ state[b] \in {"using", "putting"} /\ inner[Thread[b]] = b
  /\ \E c \in taken[b] :
       /\ idle' = idle \cup {c}
       /\ taken' = [taken EXCEPT ![b] = @ \ {c}]
  /\ state' = [state EXCEPT ![b] = "putting"]
  /\ UNCHANGED <<available, held, inner>>

Woken == [b \in Blocks |-> IF state[b] = "asleep" THEN "awake" ELSE state[b]]

\* Mutant: notify() instead of notify_all().
ReleaseNotifyOne(b) ==
  /\ state[b] = "putting" /\ taken[b] = {}
  /\ available' = available + Need[b]
  /\ held' = [held EXCEPT ![Thread[b]] = @ - Need[b]]
  /\ LET asleep == {k \in Blocks : state[k] = "asleep"}
     IN \E woken \in SUBSET asleep :
          /\ Cardinality(woken) = IF asleep = {} THEN 0 ELSE 1
          /\ state' = [k \in Blocks |-> IF k = b THEN Closed
                                       ELSE IF k \in woken THEN "awake" ELSE state[k]]
  /\ inner' = [inner EXCEPT ![Thread[b]] = Outer[b]]
  /\ UNCHANGED <<idle, taken>>

\* Mutant: the permits come back before the last calculator.
ReleaseEarly(b) ==
  /\ state[b] = "putting" /\ Cardinality(taken[b]) <= 1
  /\ available' = available + Need[b]
  /\ held' = [held EXCEPT ![Thread[b]] = @ - Need[b]]
  /\ state' = [Woken EXCEPT ![b] = Closed]
  /\ inner' = [inner EXCEPT ![Thread[b]] = Outer[b]]
  /\ UNCHANGED <<idle, taken>>

\* Mutant: the thread's own count is not lowered.
ReleaseStillHeld(b) ==
  /\ state[b] = "putting" /\ taken[b] = {}
  /\ available' = available + Need[b]
  /\ state' = [Woken EXCEPT ![b] = Closed]
  /\ inner' = [inner EXCEPT ![Thread[b]] = Outer[b]]
  /\ UNCHANGED <<held, idle, taken>>

\* _release_permits; it raises when the thread holds fewer permits.
Release(b) ==
  /\ state[b] = "putting" /\ taken[b] = {}
  /\ available' = available + Need[b]
  /\ held' = [held EXCEPT ![Thread[b]] = @ - Need[b]]
  /\ state' = [Woken EXCEPT ![b] = Closed]
  /\ inner' = [inner EXCEPT ![Thread[b]] = Outer[b]]
  /\ UNCHANGED <<idle, taken>>

\* The steps of a lease before its end.
Advance(b) == Reserve(b) \/ Sleep(b) \/ Take(b) \/ Put(b)

PoolNext == \E b \in Blocks : Advance(b) \/ Release(b)

PoolSpec == PoolInit /\ [][PoolNext]_poolVars

-----------------------------------------------------------------------------
(***************************************************************************)
(* Properties.                                                             *)
(***************************************************************************)

PoolTypeOK ==
  /\ available \in 0 .. MaxWorkers
  /\ held \in [Threads -> Nat]
  /\ idle \subseteq Calculators
  /\ taken \in [Blocks -> SUBSET Calculators]
  /\ state \in [Blocks -> States]
  /\ inner \in [Threads -> Blocks \cup {NoBlock}]

\* A calculator is never shared: it is in the queue or held by one block.
ExclusiveUse ==
  /\ \A b \in Blocks : taken[b] \cap idle = {}
  /\ \A b, k \in Blocks : b # k => taken[b] \cap taken[k] = {}

\* A block with permits never finds the queue empty ("inventories diverged"),
\* although permits and calculators change hands in separate steps.
InventoriesAgree ==
  \A b \in Blocks : state[b] = "taking" => Cardinality(taken[b]) < Need[b] /\ idle # {}

\* The permits of a thread cover what its open blocks will give back, so that
\* _release_permits never raises and the pool never grows.
PermitsOf(B) == {p \in B \X (1 .. MaxWorkers) : state[p[1]] \in Granted /\ p[2] <= Need[p[1]]}

PermitsConserved ==
  /\ available + Cardinality(PermitsOf(Blocks)) = MaxWorkers
  /\ \A t \in Threads : held[t] = Cardinality(PermitsOf({b \in Blocks : Thread[b] = t}))

\* No wakeup is lost: a thread sleeps only while its request cannot be met.
NoLostWakeup == \A b \in Blocks : state[b] = "asleep" => available < Need[b]

\* Nobody waits for a thread that waits: while a request sleeps, some thread
\* that is neither asleep nor waiting for itself holds permits it will return.
NoCircularWait ==
  (\E b \in Blocks : state[b] = "asleep") =>
     \E k \in Blocks :
       /\ state[k] \in Granted
       /\ \A b \in Blocks : Thread[b] = Thread[k] => state[b] # "asleep"
=============================================================================
