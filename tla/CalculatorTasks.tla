--------------------------- MODULE CalculatorTasks ---------------------------
(***************************************************************************)
(* How the simulation schedules its calculations over the pool.  The main  *)
(* thread sweeps or refreshes a set of sites; it does so itself, or hands  *)
(* the sites to the pool's executor and waits for all of them (gather).    *)
(* Evaluating a site relaxes it under a lease and, with free energies,     *)
(* computes its vibrations under the lock of their cache: with one more    *)
(* lease, or spread over a private executor whose threads lease for        *)
(* themselves.                                                             *)
(*                                                                         *)
(* Every thread runs one unnested lease at a time, so that the blocks of   *)
(* CalculatorPool are the threads.                                         *)
(***************************************************************************)
EXTENDS CalculatorPool

CONSTANTS
  Main, Workers,   \* the caller, and the threads of CalculatorPool.executor
  Helpers,         \* the threads of the executor inside _vibrate_parallel
  Sites,
  CacheOf,         \* site -> the vibration cache of its class
  Displacements,   \* finite differences in one vibration calculation
  Rounds,          \* sweeps and refreshes in a session
  Nobody

VARIABLES
  main,      \* what the main thread does
  round,     \* sweeps and refreshes so far
  queued,    \* the submitted jobs no worker has started
  open,      \* the futures the main thread has not seen done
  todo,      \* the sites the main thread evaluates itself
  context,   \* do the queued jobs enter calculator_batch_context?
  at,        \* thread -> where it is in the evaluation of a site
  site,      \* thread -> the site it evaluates, or Nobody
  batch,     \* thread -> calculator_batch_active()
  owner,     \* cache -> the thread that holds its lock, or Nobody
  spread,    \* displacements no helper has started
  serves,    \* helper -> the thread it works for, or Nobody
  failed,    \* the jobs that raised, and whether a spread calculation did
  freeEnergy \* free_energy_options.enabled, fixed for the session

taskVars == <<main, round, queued, open, todo, context, at, site, batch, owner, spread, serves, failed, freeEnergy>>
vars == <<poolVars, taskVars>>

ASSUME TaskAssumption ==
  /\ Blocks = Threads /\ Threads = {Main} \cup Workers \cup Helpers
  /\ \A t \in Threads : Thread[t] = t /\ Outer[t] = NoBlock /\ Need[t] = 1
  /\ Main \notin Workers \cup Helpers /\ Workers \cap Helpers = {}
  /\ Cardinality(Workers) = MaxWorkers /\ Cardinality(Helpers) = MaxWorkers
  /\ Displacements \in Nat \ {0} /\ Rounds \in Nat
  /\ Nobody \notin Threads \cup Sites

Caches == {CacheOf[s] : s \in Sites}

Init ==
  /\ PoolInit
  /\ main = "between" /\ round = 0
  /\ queued = {} /\ open = {} /\ todo = {} /\ context = FALSE
  /\ at = [t \in Threads |-> "idle"]
  /\ site = [t \in Threads |-> Nobody]
  /\ batch = [t \in Threads |-> FALSE]
  /\ owner = [c \in Caches |-> Nobody]
  /\ spread = 0
  /\ serves = [h \in Helpers |-> Nobody]
  /\ failed = {}
  /\ freeEnergy \in BOOLEAN

-----------------------------------------------------------------------------
\* The main thread.

\* Hand the sites S to the executor, or keep them.
Distribute(S, parallel, inBatch) ==
  /\ main = "between" /\ round < Rounds
  /\ round' = round + 1
  /\ IF parallel /\ Cardinality(Calculators) > 1 /\ Cardinality(S) > 1
     THEN main' = "gather" /\ queued' = S /\ open' = S /\ UNCHANGED todo
     ELSE main' = "serial" /\ todo' = S /\ UNCHANGED <<queued, open>>
  /\ context' = inBatch
  /\ UNCHANGED <<poolVars, at, site, batch, owner, spread, serves, failed, freeEnergy>>

\* compute_all_reactions, compute_all_diffusions and compute_all_bond_reactions,
\* from outside any batch.
Sweep == \E S \in SUBSET Sites : Distribute(S, ~batch[Main], TRUE)

\* Mutant: a refresh always uses the executor.
RefreshParallel == \E S \in SUBSET Sites : Distribute(S, TRUE, FALSE)

\* recompute_affected_sites: the jobs do not enter the batch context.  Those of
\* adsorption sites run in the executor if they cannot spread vibrations, the
\* others never do.
Refresh ==
  \E S \in SUBSET Sites, parallel \in {~freeEnergy, FALSE} : Distribute(S, parallel, FALSE)

\* Mutant: gather raises as soon as one future has failed.
GatherFirst ==
  /\ main = "gather"
  /\ open = {} \/ failed # {}
  /\ main' = IF failed = {} THEN "between" ELSE "shutdown"
  /\ UNCHANGED <<poolVars, round, queued, open, todo, context, at, site, batch, owner, spread, serves, failed, freeEnergy>>

\* wait(futures), then the results or the first exception.
Gather ==
  /\ main = "gather"
  /\ open = {}
  /\ main' = IF failed = {} THEN "between" ELSE "shutdown"
  /\ UNCHANGED <<poolVars, round, queued, open, todo, context, at, site, batch, owner, spread, serves, failed, freeEnergy>>

\* The next site of a serial loop, or its end; an exception ends it at once.
SerialNext ==
  /\ main = "serial" /\ at[Main] = "idle" /\ failed = {} /\ todo # {}
  /\ \E s \in todo :
       /\ todo' = todo \ {s}
       /\ site' = [site EXCEPT ![Main] = s]
  /\ at' = [at EXCEPT ![Main] = "relax"]
  /\ UNCHANGED <<poolVars, main, round, queued, open, context, batch, owner, spread, serves, failed, freeEnergy>>

SerialEnd ==
  /\ main = "serial" /\ at[Main] = "idle"
  /\ failed # {} \/ todo = {}
  /\ main' = IF failed = {} THEN "between" ELSE "shutdown"
  /\ todo' = {}
  /\ UNCHANGED <<poolVars, round, queued, open, context, at, site, batch, owner, spread, serves, failed, freeEnergy>>

\* The session is over.
Finish ==
  /\ main = "between" /\ round = Rounds
  /\ main' = "shutdown"
  /\ UNCHANGED <<poolVars, round, queued, open, todo, context, at, site, batch, owner, spread, serves, failed, freeEnergy>>

\* CalculatorPool.shutdown(wait=True).
Shutdown ==
  /\ main = "shutdown"
  /\ queued = {} /\ \A w \in Workers : at[w] = "idle"
  /\ main' = "ended"
  /\ UNCHANGED <<poolVars, round, queued, open, todo, context, at, site, batch, owner, spread, serves, failed, freeEnergy>>

-----------------------------------------------------------------------------
\* The evaluation of a site.

\* A worker of the executor takes the next job.
Start(w) ==
  /\ at[w] = "idle"
  /\ \E s \in queued :
       /\ queued' = queued \ {s}
       /\ site' = [site EXCEPT ![w] = s]
  /\ at' = [at EXCEPT ![w] = "relax"]
  /\ batch' = [batch EXCEPT ![w] = context]
  /\ UNCHANGED <<poolVars, main, round, open, todo, context, owner, spread, serves, failed, freeEnergy>>

\* The steps of a lease up to its end.
Lease(t) ==
  /\ at[t] \in {"relax", "vibrate", "displace"}
  /\ Advance(t)
  /\ UNCHANGED taskVars

\* The evaluation of the site ends, or an exception leaves it; on the way out
\* the lock of its vibration cache, if the thread holds it, is released.
Leaves(t, raises) ==
  /\ at' = [at EXCEPT ![t] = "idle"]
  /\ site' = [site EXCEPT ![t] = Nobody]
  /\ batch' = [batch EXCEPT ![t] = FALSE]
  /\ open' = open \ {site[t]}
  /\ owner' = [c \in Caches |-> IF owner[c] = t THEN Nobody ELSE owner[c]]
  /\ failed' = (failed \ {"displacement"}) \cup (IF raises THEN {site[t]} ELSE {})
  /\ UNCHANGED <<main, round, queued, todo, context, spread, serves, freeEnergy>>

\* The environment of the site is known, by an earlier evaluation or a cache:
\* nothing is to be calculated.
Known(t) ==
  /\ at[t] = "relax" /\ state[t] = Closed
  /\ Leaves(t, FALSE)
  /\ UNCHANGED poolVars

\* Mutant: a relaxation that raised is tried again, without a limit.
RelaxedAgain(t) ==
  /\ at[t] = "relax"
  /\ Release(t)
  /\ \/ UNCHANGED taskVars
     \/ ~freeEnergy /\ Leaves(t, FALSE)
     \/ /\ freeEnergy
        /\ at' = [at EXCEPT ![t] = "lock"]
        /\ UNCHANGED <<main, round, queued, open, todo, context, site, batch, owner, spread, serves, failed, freeEnergy>>

\* The relaxation is over; with free energies the vibrations follow.
Relaxed(t) ==
  /\ at[t] = "relax"
  /\ Release(t)
  /\ \/ Leaves(t, TRUE)
     \/ ~freeEnergy /\ Leaves(t, FALSE)
     \/ /\ freeEnergy
        /\ at' = [at EXCEPT ![t] = "lock"]
        /\ UNCHANGED <<main, round, queued, open, todo, context, site, batch, owner, spread, serves, failed, freeEnergy>>

\* May the thread spread the displacements over the pool?
Spreads(t) == Cardinality(Calculators) > 1 /\ MaxWorkers > 1 /\ ~batch[t]

\* _vibration_cache_lock.
Lock(t) ==
  /\ at[t] = "lock"
  /\ owner[CacheOf[site[t]]] = Nobody
  /\ owner' = [owner EXCEPT ![CacheOf[site[t]]] = t]
  /\ at' = [at EXCEPT ![t] = IF Spreads(t) THEN "spread" ELSE "vibrate"]
  /\ spread' = IF Spreads(t) THEN Displacements ELSE spread
  /\ UNCHANGED <<poolVars, main, round, queued, open, todo, context, site, batch, serves, failed, freeEnergy>>

\* The serial vibration calculation is over.
Vibrated(t) ==
  /\ at[t] = "vibrate"
  /\ Release(t)
  /\ \E raises \in BOOLEAN : Leaves(t, raises)

\* A thread of the private executor takes a displacement.
Displace(h) ==
  /\ serves[h] = Nobody /\ spread > 0
  /\ \E t \in Threads : at[t] = "spread" /\ serves' = [serves EXCEPT ![h] = t]
  /\ spread' = spread - 1
  /\ at' = [at EXCEPT ![h] = "displace"]
  /\ UNCHANGED <<poolVars, main, round, queued, open, todo, context, site, batch, owner, failed, freeEnergy>>

Displaced(h) ==
  /\ at[h] = "displace"
  /\ Release(h)
  /\ at' = [at EXCEPT ![h] = "idle"]
  /\ serves' = [serves EXCEPT ![h] = Nobody]
  /\ failed' \in {failed, failed \cup {"displacement"}}
  /\ UNCHANGED <<main, round, queued, open, todo, context, site, batch, owner, spread, freeEnergy>>

\* The private executor is left when its last displacement is done, also when
\* an earlier one raised.
Collect(t) ==
  /\ at[t] = "spread" /\ spread = 0
  /\ \A h \in Helpers : serves[h] # t
  /\ Leaves(t, "displacement" \in failed)
  /\ UNCHANGED poolVars

-----------------------------------------------------------------------------
MainStep == Sweep \/ Refresh \/ Gather \/ SerialNext \/ SerialEnd \/ Finish \/ Shutdown

Evaluate(t) == Lease(t) \/ Known(t) \/ Relaxed(t) \/ Lock(t) \/ Vibrated(t) \/ Collect(t)

Ended == main = "ended" /\ UNCHANGED vars

Next ==
  \/ MainStep \/ Evaluate(Main)
  \/ \E w \in Workers : Start(w) \/ Evaluate(w)
  \/ \E h \in Helpers : Displace(h) \/ Lease(h) \/ Displaced(h)
  \/ Ended

Spec == Init /\ [][Next]_vars

\* Every thread goes on while it can: a calculation returns or raises.
FairSpec ==
  /\ Spec
  /\ WF_vars(MainStep) /\ WF_vars(Evaluate(Main))
  /\ \A w \in Workers : WF_vars(Start(w)) /\ WF_vars(Evaluate(w))
  /\ \A h \in Helpers : WF_vars(Displace(h)) /\ WF_vars(Lease(h)) /\ WF_vars(Displaced(h))

-----------------------------------------------------------------------------
(***************************************************************************)
(* Properties.                                                             *)
(***************************************************************************)

\* The two levels of parallelism are never nested: no worker of the executor
\* spreads a vibration calculation over another set of threads, in a sweep
\* (the batch context forbids it) nor in a refresh (which sets no context).
LevelsNeverNested == \A w \in Workers : at[w] # "spread"

\* When the main thread goes on after a batch, with its results or with an
\* exception, nothing is still running behind its back: every other thread is
\* idle, every lock is free and every calculator is back.
NothingRunsOn ==
  main \in {"between", "shutdown", "ended"} =>
    /\ queued = {} /\ \A t \in Threads : at[t] = "idle"
    /\ \A c \in Caches : owner[c] = Nobody
    /\ available = MaxWorkers /\ idle = Calculators

\* A session's calculations come to an end: leases, locks, executors and the
\* gathering of batches do not block each other, whatever raises.
TasksEnd == <>(main = "ended")
=============================================================================
