------------------------ MODULE CalculatorTasksProofs ------------------------
(***************************************************************************)
(* Theorems of CalculatorTasks for every number of sites, workers, rounds  *)
(* and displacements.                                                      *)
(***************************************************************************)
EXTENDS CalculatorTasks, CalculatorPoolProofs

\* The scheduling of the simulation uses the pool as CalculatorPool allows, so
\* that every theorem about the pool holds of it.
THEOREM TasksUseThePool == Spec => PoolSpec
<1>1. Init => PoolInit
  BY DEF Init
<1>2. [Next]_vars => [PoolNext]_poolVars
  <2> SUFFICES ASSUME [Next]_vars
               PROVE  PoolNext \/ UNCHANGED poolVars
    OBVIOUS
  <2>1. ASSUME MainStep PROVE UNCHANGED poolVars
    BY <2>1 DEF MainStep, Sweep, Refresh, Distribute, Gather, SerialNext, SerialEnd, Finish, Shutdown
  <2>2. ASSUME NEW t \in Threads, Evaluate(t) PROVE PoolNext \/ UNCHANGED poolVars
    <3>1. t \in Blocks
      BY TaskAssumption
    <3> QED BY <2>2, <3>1 DEF Evaluate, Lease, Known, Relaxed, Lock, Vibrated, Collect, PoolNext
  <2>3. ASSUME NEW w \in Workers, Start(w) PROVE UNCHANGED poolVars
    BY <2>3 DEF Start
  <2>4. ASSUME NEW h \in Helpers, Displace(h) \/ Lease(h) \/ Displaced(h)
        PROVE  PoolNext \/ UNCHANGED poolVars
    <3>1. h \in Blocks
      BY TaskAssumption
    <3> QED BY <2>4, <3>1 DEF Displace, Lease, Displaced, PoolNext
  <2>5. CASE Ended \/ UNCHANGED vars
    BY <2>5 DEF Ended, vars
  <2>6. Main \in Threads /\ Workers \subseteq Threads
    BY TaskAssumption
  <2> QED BY <2>1, <2>2, <2>3, <2>4, <2>5, <2>6 DEF Next
<1> QED BY <1>1, <1>2, PTL DEF Spec, PoolSpec

\* However the simulation schedules its calculations, no two of them share a
\* calculator.
THEOREM TasksNeverShare == Spec => []ExclusiveUse
<1> QED BY TasksUseThePool, ExclusiveUseHolds, PTL

-----------------------------------------------------------------------------
\* The inductive invariant of the scheduling.  The batch flag of a worker is
\* the context of the jobs at the time it started, so that the argument needs
\* that no job of an earlier batch is left when the context changes: a running
\* job is still open, and no two workers run the same one.
TaskInv ==
  /\ at \in [Threads -> {"idle", "relax", "lock", "vibrate", "spread", "displace"}]
  /\ batch \in [Threads -> BOOLEAN]
  /\ site \in [Threads -> Sites \cup {Nobody}]
  /\ main # "gather" => open = {}
  /\ queued \subseteq open /\ open \subseteq Sites /\ todo \subseteq Sites
  /\ context \in BOOLEAN
  /\ at[Main] # "idle" => main = "serial"
  /\ queued # {} => context \/ ~freeEnergy
  /\ \A w \in Workers : at[w] # "idle" => site[w] \in open \ queued /\ (batch[w] \/ ~freeEnergy)
  /\ \A w, k \in Workers : w # k /\ at[w] # "idle" /\ at[k] # "idle" => site[w] # site[k]
  /\ \A t \in Threads : at[t] \in {"lock", "vibrate", "spread"} => freeEnergy
  /\ LevelsNeverNested

LEMMA InitTasks == Init => TaskInv
<1> SUFFICES ASSUME Init PROVE TaskInv
  OBVIOUS
<1>1. /\ at \in [Threads -> {"idle", "relax", "lock", "vibrate", "spread", "displace"}]
      /\ batch \in [Threads -> BOOLEAN]
      /\ site \in [Threads -> Sites \cup {Nobody}]
      /\ context \in BOOLEAN
  BY DEF Init
<1>2. \A t \in Threads : at[t] = "idle"
  BY DEF Init
<1>3. Main \in Threads /\ Workers \subseteq Threads
  BY TaskAssumption
<1>4. LevelsNeverNested
  BY <1>2, <1>3 DEF LevelsNeverNested
<1> QED BY <1>1, <1>2, <1>3, <1>4 DEF Init, TaskInv

\* The thread that leaves the evaluation of its site.
LEMMA LeavingKeeps ==
  ASSUME TaskInv, NEW t \in {Main} \cup Workers, NEW r \in BOOLEAN, at[t] # "idle", Leaves(t, r)
  PROVE  TaskInv'
<1> USE TaskAssumption DEF Leaves, TaskInv
<1>1. /\ at' \in [Threads -> {"idle", "relax", "lock", "vibrate", "spread", "displace"}]
      /\ batch' \in [Threads -> BOOLEAN]
      /\ site' \in [Threads -> Sites \cup {Nobody}]
      /\ open' \subseteq Sites /\ todo' \subseteq Sites /\ context' \in BOOLEAN
  OBVIOUS
<1>2. site[t] \notin queued /\ (t = Main => open = {})
  OBVIOUS
<1>3. queued' \subseteq open' /\ (main' # "gather" => open' = {})
  BY <1>2
<1>4. \A k \in Threads : k # t => at'[k] = at[k] /\ site'[k] = site[k] /\ batch'[k] = batch[k]
  OBVIOUS
<1>5. at'[t] = "idle"
  OBVIOUS
<1>6. \A w, k \in Workers : w # k /\ at'[w] # "idle" /\ at'[k] # "idle" => site'[w] # site'[k]
  BY <1>4, <1>5
<1>7. \A w \in Workers : at'[w] # "idle" => site'[w] \in open' \ queued' /\ (batch'[w] \/ ~freeEnergy')
  <2> SUFFICES ASSUME NEW w \in Workers, at'[w] # "idle"
               PROVE  site'[w] \in open' \ queued' /\ (batch'[w] \/ ~freeEnergy')
    OBVIOUS
  <2>1. w # t /\ at[w] # "idle" /\ site'[w] = site[w] /\ batch'[w] = batch[w]
    BY <1>4, <1>5
  <2>2. site[w] \in open \ queued /\ (t \in Workers => site[w] # site[t])
    BY <2>1
  <2>3. t \in Workers
    BY <1>2, <2>2
  <2> QED BY <2>1, <2>2, <2>3
<1>8. LevelsNeverNested'
  BY <1>4, <1>5 DEF LevelsNeverNested
<1>9. \A k \in Threads : at'[k] \in {"lock", "vibrate", "spread"} => freeEnergy'
  BY <1>4, <1>5
<1>10. (at'[Main] # "idle" => main' = "serial") /\ (queued' # {} => context' \/ ~freeEnergy')
  BY <1>4, <1>5
<1> QED BY <1>1, <1>3, <1>6, <1>7, <1>8, <1>9, <1>10

\* A new batch finds the executor without work.
LEMMA DistributeKeeps ==
  ASSUME TaskInv, NEW S \in SUBSET Sites, NEW p \in BOOLEAN, NEW c \in BOOLEAN,
         Distribute(S, p, c), p => c \/ ~freeEnergy
  PROVE  TaskInv'
<1> USE TaskAssumption DEF Distribute, TaskInv
<1>1. open = {} /\ queued = {} /\ at[Main] = "idle" /\ \A w \in Workers : at[w] = "idle"
  OBVIOUS
<1>2. at' = at /\ site' = site /\ batch' = batch /\ freeEnergy' = freeEnergy /\ context' = c
  OBVIOUS
<1>3. \/ p /\ main' = "gather" /\ queued' = S /\ open' = S
      \/ main' = "serial" /\ queued' = queued /\ open' = open
  OBVIOUS
<1>4. todo' \subseteq Sites
  OBVIOUS
<1> QED BY <1>1, <1>2, <1>3, <1>4 DEF LevelsNeverNested

LEMMA SerialNextKeeps ==
  ASSUME TaskInv, SerialNext
  PROVE  TaskInv'
<1> USE TaskAssumption DEF SerialNext, TaskInv
<1>1. /\ at' \in [Threads -> {"idle", "relax", "lock", "vibrate", "spread", "displace"}]
      /\ site' \in [Threads -> Sites \cup {Nobody}]
      /\ todo' \subseteq Sites
  OBVIOUS
<1>2. \A k \in Threads : k # Main => at'[k] = at[k] /\ site'[k] = site[k]
  OBVIOUS
<1>3. at'[Main] = "relax" /\ main' = "serial"
  OBVIOUS
<1>4. UNCHANGED <<queued, open, context, batch, freeEnergy>> /\ main = "serial"
  OBVIOUS
<1>5. \A w \in Workers : w # Main /\ w \in Threads
  OBVIOUS
<1> QED BY <1>1, <1>2, <1>3, <1>4, <1>5 DEF LevelsNeverNested

LEMMA MainStepKeeps ==
  ASSUME TaskInv, MainStep
  PROVE  TaskInv'
<1> USE DEF TaskInv
<1>1. CASE Sweep
  BY <1>1, DistributeKeeps, TaskAssumption DEF Sweep
<1>2. CASE Refresh
  <2>1. PICK S \in SUBSET Sites, parallel \in {~freeEnergy, FALSE} : Distribute(S, parallel, FALSE)
    BY <1>2 DEF Refresh
  <2>2. CASE parallel = ~freeEnergy
    BY <2>1, <2>2, DistributeKeeps
  <2>3. CASE parallel = FALSE
    BY <2>1, <2>3, DistributeKeeps
  <2> QED BY <2>1, <2>2, <2>3
<1>3. CASE Gather
  BY <1>3, TaskAssumption DEF Gather, LevelsNeverNested
<1>4. CASE SerialNext
  BY <1>4, SerialNextKeeps
<1>5. CASE SerialEnd
  BY <1>5, TaskAssumption DEF SerialEnd, LevelsNeverNested
<1>6. CASE Finish
  BY <1>6, TaskAssumption DEF Finish, LevelsNeverNested
<1>7. CASE Shutdown
  BY <1>7, TaskAssumption DEF Shutdown, LevelsNeverNested
<1> QED BY <1>1, <1>2, <1>3, <1>4, <1>5, <1>6, <1>7 DEF MainStep

LEMMA StartKeeps ==
  ASSUME TaskInv, NEW w \in Workers, Start(w)
  PROVE  TaskInv'
<1> USE TaskAssumption DEF Start, TaskInv
<1>1. PICK s \in queued : queued' = queued \ {s} /\ site' = [site EXCEPT ![w] = s]
  OBVIOUS
<1>2. s \in Sites /\ s \in open /\ (context \/ ~freeEnergy) /\ w \in Threads /\ w # Main
  OBVIOUS
<1>3. /\ at' \in [Threads -> {"idle", "relax", "lock", "vibrate", "spread", "displace"}]
      /\ site' \in [Threads -> Sites \cup {Nobody}]
      /\ batch' \in [Threads -> BOOLEAN]
  BY <1>1, <1>2
<1>4. \A k \in Threads : k # w => at'[k] = at[k] /\ site'[k] = site[k] /\ batch'[k] = batch[k]
  BY <1>1
<1>5. at'[w] = "relax" /\ site'[w] = s /\ batch'[w] = context
  BY <1>1, <1>2
<1>6. UNCHANGED <<main, open, todo, context, freeEnergy>>
  OBVIOUS
<1>7. \A k \in Workers : at'[k] # "idle" => site'[k] \in open' \ queued' /\ (batch'[k] \/ ~freeEnergy')
  BY <1>1, <1>2, <1>4, <1>5, <1>6
<1>8. \A k \in Workers : k # w /\ at'[k] # "idle" => site'[k] # s
  BY <1>4
<1>9. \A j, k \in Workers : j # k /\ at'[j] # "idle" /\ at'[k] # "idle" => site'[j] # site'[k]
  BY <1>4, <1>5, <1>8
<1>10. queued' \subseteq open' /\ (main' # "gather" => open' = {}) /\ (queued' # {} => context' \/ ~freeEnergy')
  BY <1>1, <1>2, <1>6
<1>11. at'[Main] # "idle" => main' = "serial"
  BY <1>2, <1>4, <1>6
<1>12. \A t \in Threads : at'[t] \in {"lock", "vibrate", "spread"} => freeEnergy'
  BY <1>4, <1>5, <1>6
<1>13. LevelsNeverNested'
  BY <1>4, <1>5 DEF LevelsNeverNested
<1> QED BY <1>3, <1>6, <1>7, <1>9, <1>10, <1>11, <1>12, <1>13

LEMMA EvaluateKeeps ==
  ASSUME TaskInv, NEW t \in {Main} \cup Workers, Evaluate(t)
  PROVE  TaskInv'
<1>1. CASE Lease(t)
  BY <1>1 DEF Lease, taskVars, TaskInv, LevelsNeverNested
<1>2. CASE Relaxed(t)
  <2>1. ASSUME NEW r \in BOOLEAN, Leaves(t, r) PROVE TaskInv'
    BY <1>2, <2>1, LeavingKeeps DEF Relaxed
  <2>2. ASSUME freeEnergy, at' = [at EXCEPT ![t] = "lock"],
               UNCHANGED <<main, round, queued, open, todo, context, site, batch, owner, spread, serves, failed, freeEnergy>>
        PROVE  TaskInv'
    BY <1>2, <2>2, TaskAssumption DEF Relaxed, TaskInv, LevelsNeverNested
  <2> QED BY <1>2, <2>1, <2>2 DEF Relaxed
<1>3. CASE Lock(t)
  BY <1>3, TaskAssumption DEF Lock, Spreads, TaskInv, LevelsNeverNested
<1>4. CASE Vibrated(t)
  BY <1>4, LeavingKeeps DEF Vibrated
<1>5. CASE Collect(t)
  <2>1. ("displacement" \in failed) \in BOOLEAN /\ at[t] # "idle"
    BY <1>5 DEF Collect
  <2> QED BY <1>5, <2>1, LeavingKeeps DEF Collect
<1>6. CASE Known(t)
  BY <1>6, LeavingKeeps DEF Known
<1> QED BY <1>1, <1>2, <1>3, <1>4, <1>5, <1>6 DEF Evaluate

LEMMA HelperKeeps ==
  ASSUME TaskInv, NEW h \in Helpers, Displace(h) \/ Lease(h) \/ Displaced(h)
  PROVE  TaskInv'
<1> USE TaskAssumption DEF TaskInv, LevelsNeverNested
<1>1. CASE Displace(h)
  BY <1>1 DEF Displace
<1>2. CASE Lease(h)
  BY <1>2 DEF Lease, taskVars
<1>3. CASE Displaced(h)
  BY <1>3 DEF Displaced
<1> QED BY <1>1, <1>2, <1>3

\* The inductive invariant of the scheduling holds.
THEOREM TasksInvariance == Spec => []TaskInv
<1>1. Init => TaskInv
  BY InitTasks
<1>2. TaskInv /\ [Next]_vars => TaskInv'
  <2> SUFFICES ASSUME TaskInv, [Next]_vars
               PROVE  TaskInv'
    OBVIOUS
  <2>1. CASE UNCHANGED vars \/ Ended
    BY <2>1 DEF Ended, vars, taskVars, TaskInv, LevelsNeverNested
  <2> QED BY <2>1, MainStepKeeps, StartKeeps, EvaluateKeeps, HelperKeeps DEF Next
<1> QED BY <1>1, <1>2, PTL DEF Spec

\* No worker of the shared executor ever spreads a calculation over threads
\* of its own.
THEOREM NeverNested == Spec => []LevelsNeverNested
<1>1. TaskInv => LevelsNeverNested
  BY DEF TaskInv
<1> QED BY <1>1, TasksInvariance, PTL

-----------------------------------------------------------------------------
(* What keeps a thread from running on: a helper works for a thread that waits
   for it, a lock is held by a thread that computes vibrations, and a lease is
   open only while its thread is in a calculation. *)
Callers == {Main} \cup Workers
Leasing == {"relax", "vibrate", "displace"}

HelpersServe ==
  /\ serves \in [Helpers -> Callers \cup {Nobody}]
  /\ \A h \in Helpers : at[h] \in {"idle", "displace"} /\ (at[h] = "displace" <=> serves[h] # Nobody)
  /\ \A h \in Helpers : serves[h] # Nobody => at[serves[h]] = "spread"

LocksServe ==
  /\ owner \in [Caches -> Callers \cup {Nobody}]
  /\ \A c \in Caches : owner[c] # Nobody => at[owner[c]] \in {"vibrate", "spread"}

LeasesServe == \A t \in Threads : state[t] # Closed => at[t] \in Leasing

RunsInv == HelpersServe /\ LocksServe /\ LeasesServe

LEMMA Parts ==
  /\ Threads = Callers \cup Helpers /\ Callers \cap Helpers = {} /\ Nobody \notin Threads
  /\ Blocks = Threads /\ Main \in Callers /\ Main \notin Workers
  BY TaskAssumption DEF Callers

LEMMA InitRuns == Init => RunsInv
<1> SUFFICES ASSUME Init PROVE RunsInv
  OBVIOUS
<1>1. HelpersServe /\ LocksServe
  BY Parts DEF Init, HelpersServe, LocksServe
<1>2. LeasesServe
  BY Parts DEF Init, PoolInit, LeasesServe
<1> QED BY <1>1, <1>2 DEF RunsInv

\* A step of a lease opens or closes no other one.
LEMMA LeaseAlone ==
  ASSUME PoolTypeOK, NEW t \in Threads, Advance(t) \/ Release(t)
  PROVE  \A k \in Threads \ {t} : state'[k] # Closed => state[k] # Closed
  BY Parts DEF Advance, Reserve, Sleep, Take, Put, Release, Woken, PoolTypeOK, Closed

LEMMA LeaseCloses ==
  ASSUME PoolTypeOK, NEW t \in Threads, Release(t)
  PROVE  state'[t] = Closed
  BY Parts DEF Release, Woken, PoolTypeOK

\* A thread that leaves its evaluation holds nothing any more.
LEMMA LeavingQuiet ==
  ASSUME TaskInv, RunsInv, NEW t \in Callers, NEW raises \in BOOLEAN, Leaves(t, raises),
         \A h \in Helpers : serves[h] # t,
         \A k \in Threads \ {t} : state'[k] # Closed => state[k] # Closed,
         state'[t] = Closed
  PROVE  RunsInv'
<1>1. /\ at' = [at EXCEPT ![t] = "idle"] /\ serves' = serves
      /\ owner' = [c \in Caches |-> IF owner[c] = t THEN Nobody ELSE owner[c]]
  BY DEF Leaves
<1>2. \A k \in Threads \ {t} : at'[k] = at[k]
  BY <1>1
<1>3. HelpersServe'
  BY <1>1, <1>2, Parts DEF RunsInv, HelpersServe
<1>4. LocksServe'
  BY <1>1, <1>2, Parts DEF RunsInv, LocksServe
<1>5. LeasesServe'
  BY <1>1, <1>2 DEF RunsInv, LeasesServe
<1> QED BY <1>3, <1>4, <1>5 DEF RunsInv

LEMMA EvaluateQuiet ==
  ASSUME PoolTypeOK, TaskInv, RunsInv, NEW t \in Callers, Evaluate(t)
  PROVE  RunsInv'
<1>1. t \in Threads /\ at \in [Threads -> {"idle", "relax", "lock", "vibrate", "spread", "displace"}]
  BY Parts DEF TaskInv
<1>2. at[t] # "spread" => \A h \in Helpers : serves[h] # t
  BY Parts DEF RunsInv, HelpersServe
<1>3. CASE Lease(t)
  <2>1. at' = at /\ serves' = serves /\ owner' = owner /\ at[t] \in Leasing
    BY <1>3 DEF Lease, taskVars, Leasing
  <2>2. LeasesServe'
    BY <1>1, <1>3, <2>1, LeaseAlone DEF Lease, RunsInv, LeasesServe
  <2> QED BY <2>1, <2>2 DEF RunsInv, HelpersServe, LocksServe
<1>4. CASE Known(t)
  <2>1. at[t] = "relax" /\ state' = state /\ state[t] = Closed /\ Leaves(t, FALSE)
    BY <1>4 DEF Known, poolVars
  <2> QED BY <1>2, <2>1, LeavingQuiet
<1>5. CASE Relaxed(t)
  <2>1. /\ at[t] = "relax" /\ state'[t] = Closed
        /\ \A k \in Threads \ {t} : state'[k] # Closed => state[k] # Closed
    BY <1>1, <1>5, LeaseAlone, LeaseCloses DEF Relaxed
  <2>2. ASSUME NEW r \in BOOLEAN, Leaves(t, r) PROVE RunsInv'
    BY <1>2, <2>1, <2>2, LeavingQuiet
  <2>3. ASSUME at' = [at EXCEPT ![t] = "lock"], UNCHANGED <<owner, serves>> PROVE RunsInv'
    <3>1. \A k \in Threads \ {t} : at'[k] = at[k]
      BY <2>3
    <3>2. HelpersServe'
      BY <1>2, <2>1, <2>3, <3>1, Parts DEF RunsInv, HelpersServe
    <3>3. LocksServe'
      BY <2>1, <2>3, <3>1, Parts DEF RunsInv, LocksServe
    <3>4. LeasesServe'
      BY <2>1, <3>1 DEF RunsInv, LeasesServe
    <3> QED BY <3>2, <3>3, <3>4 DEF RunsInv
  <2> QED BY <1>5, <2>2, <2>3 DEF Relaxed
<1>6. CASE Lock(t)
  <2>1. /\ at[t] = "lock" /\ state' = state /\ serves' = serves
        /\ owner' = [owner EXCEPT ![CacheOf[site[t]]] = t]
        /\ at' = [at EXCEPT ![t] = IF Spreads(t) THEN "spread" ELSE "vibrate"]
    BY <1>6 DEF Lock, poolVars
  <2>2. at'[t] \in {"vibrate", "spread"} /\ \A k \in Threads \ {t} : at'[k] = at[k]
    BY <1>1, <2>1
  <2>3. HelpersServe'
    BY <1>2, <2>1, <2>2, Parts DEF RunsInv, HelpersServe
  <2>4. LocksServe'
    BY <2>1, <2>2, Parts DEF RunsInv, LocksServe
  <2>5. LeasesServe'
    BY <2>1, <2>2 DEF RunsInv, LeasesServe, Leasing
  <2> QED BY <2>3, <2>4, <2>5 DEF RunsInv
<1>7. CASE Vibrated(t)
  <2>1. /\ at[t] = "vibrate" /\ state'[t] = Closed
        /\ \A k \in Threads \ {t} : state'[k] # Closed => state[k] # Closed
    BY <1>1, <1>7, LeaseAlone, LeaseCloses DEF Vibrated
  <2> QED BY <1>2, <1>7, <2>1, LeavingQuiet DEF Vibrated
<1>8. CASE Collect(t)
  <2>1. at[t] = "spread" /\ state' = state /\ \A h \in Helpers : serves[h] # t
    BY <1>8 DEF Collect, poolVars
  <2>2. state[t] = Closed
    BY <1>1, <2>1 DEF RunsInv, LeasesServe, Leasing
  <2>3. ("displacement" \in failed) \in BOOLEAN
    OBVIOUS
  <2> QED BY <1>8, <2>1, <2>2, <2>3, LeavingQuiet DEF Collect
<1> QED BY <1>3, <1>4, <1>5, <1>6, <1>7, <1>8 DEF Evaluate

LEMMA HelperQuiet ==
  ASSUME PoolTypeOK, TaskInv, RunsInv, NEW h \in Helpers, Displace(h) \/ Lease(h) \/ Displaced(h)
  PROVE  RunsInv'
<1>1. h \in Threads /\ h \notin Callers /\ at \in [Threads -> {"idle", "relax", "lock", "vibrate", "spread", "displace"}]
  BY Parts DEF TaskInv
<1>2. CASE Displace(h)
  <2>1. PICK t \in Threads : at[t] = "spread" /\ serves' = [serves EXCEPT ![h] = t]
    BY <1>2 DEF Displace
  <2>2. /\ at' = [at EXCEPT ![h] = "displace"] /\ owner' = owner /\ state' = state
    BY <1>2 DEF Displace, poolVars
  <2>3. t \in Callers
    BY <2>1, Parts DEF RunsInv, HelpersServe
  <2>4. at'[h] = "displace" /\ \A k \in Threads \ {h} : at'[k] = at[k]
    BY <1>1, <2>2
  <2>5. HelpersServe'
    BY <1>1, <2>1, <2>2, <2>3, <2>4, Parts DEF RunsInv, HelpersServe
  <2>6. LocksServe'
    BY <1>1, <2>2, <2>4, Parts DEF RunsInv, LocksServe
  <2>7. LeasesServe'
    BY <2>2, <2>4 DEF RunsInv, LeasesServe, Leasing
  <2> QED BY <2>5, <2>6, <2>7 DEF RunsInv
<1>3. CASE Lease(h)
  <2>1. at' = at /\ serves' = serves /\ owner' = owner /\ at[h] \in Leasing
    BY <1>3 DEF Lease, taskVars, Leasing
  <2>2. LeasesServe'
    BY <1>1, <1>3, <2>1, LeaseAlone DEF Lease, RunsInv, LeasesServe
  <2> QED BY <2>1, <2>2 DEF RunsInv, HelpersServe, LocksServe
<1>4. CASE Displaced(h)
  <2>1. /\ at[h] = "displace" /\ state'[h] = Closed
        /\ \A k \in Threads \ {h} : state'[k] # Closed => state[k] # Closed
    BY <1>1, <1>4, LeaseAlone, LeaseCloses DEF Displaced
  <2>2. /\ at' = [at EXCEPT ![h] = "idle"] /\ serves' = [serves EXCEPT ![h] = Nobody] /\ owner' = owner
    BY <1>4 DEF Displaced
  <2>3. at'[h] = "idle" /\ \A k \in Threads \ {h} : at'[k] = at[k]
    BY <1>1, <2>2
  <2>4. HelpersServe'
    BY <1>1, <2>2, <2>3, Parts DEF RunsInv, HelpersServe
  <2>5. LocksServe'
    BY <1>1, <2>2, <2>3, Parts DEF RunsInv, LocksServe
  <2>6. LeasesServe'
    BY <2>1, <2>3 DEF RunsInv, LeasesServe
  <2> QED BY <2>4, <2>5, <2>6 DEF RunsInv
<1> QED BY <1>2, <1>3, <1>4

\* A thread begins to evaluate a site, or none does.
LEMMA BeginningQuiet ==
  ASSUME TaskInv, RunsInv, UNCHANGED <<state, serves, owner>>,
         at' = at \/ \E t \in Callers : at[t] = "idle" /\ at' = [at EXCEPT ![t] = "relax"]
  PROVE  RunsInv'
<1>1. CASE at' = at
  BY <1>1 DEF RunsInv, HelpersServe, LocksServe, LeasesServe
<1>2. ASSUME NEW t \in Callers, at[t] = "idle", at' = [at EXCEPT ![t] = "relax"]
      PROVE  RunsInv'
  <2>1. at'[t] = "relax" /\ \A k \in Threads \ {t} : at'[k] = at[k]
    BY <1>2, Parts DEF TaskInv
  <2>2. HelpersServe'
    BY <1>2, <2>1, Parts DEF RunsInv, HelpersServe
  <2>3. LocksServe'
    BY <1>2, <2>1, Parts DEF RunsInv, LocksServe
  <2>4. LeasesServe'
    BY <1>2, <2>1 DEF RunsInv, LeasesServe, Leasing
  <2> QED BY <2>2, <2>3, <2>4 DEF RunsInv
<1> QED BY <1>1, <1>2

\* The threads are quiet between two batches, and the pool is then complete.
LEMMA QuietBetween ==
  ASSUME PoolInv, TaskInv, RunsInv
  PROVE  NothingRunsOn
<1> SUFFICES ASSUME main \in {"between", "shutdown", "ended"}
             PROVE  /\ queued = {} /\ \A t \in Threads : at[t] = "idle"
                    /\ \A c \in Caches : owner[c] = Nobody
                    /\ available = MaxWorkers /\ idle = Calculators
  BY DEF NothingRunsOn
<1>1. open = {} /\ queued = {}
  BY DEF TaskInv
<1>2. \A t \in Callers : at[t] = "idle"
  BY <1>1 DEF TaskInv, Callers
<1>3. \A h \in Helpers : serves[h] = Nobody /\ at[h] = "idle"
  BY <1>2 DEF RunsInv, HelpersServe
<1>4. \A t \in Threads : at[t] = "idle"
  BY <1>2, <1>3, Parts
<1>5. \A c \in Caches : owner[c] = Nobody
  BY <1>2 DEF RunsInv, LocksServe
<1>6. \A b \in Blocks : state[b] \notin Granted
  BY <1>4, Parts DEF RunsInv, LeasesServe, Leasing, Closed, Granted
<1>7. PermitsOf(Blocks) = {} /\ Outstanding = {}
  BY <1>6 DEF PermitsOf, Outstanding
<1>8. Cardinality({}) = 0
  BY FS_EmptySet
<1>9. available = MaxWorkers
  BY <1>7, <1>8, PoolAssumption DEF PoolInv, PermitsConserved, PoolTypeOK
<1>10. idle = Calculators
  <2>1. Cardinality(Calculators) \in Nat
    BY PoolAssumption, FS_CardinalityType
  <2>2. Cardinality(idle) = Cardinality(Calculators)
    BY <1>7, <1>8, <1>9, <2>1, PoolAssumption DEF PoolInv, Inventory
  <2> QED BY <2>2, PoolAssumption, FS_Subset DEF PoolInv, PoolTypeOK
<1> QED BY <1>1, <1>4, <1>5, <1>9, <1>10

\* When the main thread goes on after a batch nothing is running behind its
\* back: every thread is idle, every lock free, every calculator back.
THEOREM NothingRunsOnHolds == Spec => []NothingRunsOn
<1>1. Spec => []PoolInv
  BY TasksUseThePool, PoolInvariance, PTL
<1>2. Spec => []TaskInv
  BY TasksInvariance
<1>3. Init => RunsInv
  BY InitRuns
<1>4. PoolInv /\ TaskInv /\ RunsInv /\ [Next]_vars => RunsInv'
  <2> SUFFICES ASSUME PoolInv, TaskInv, RunsInv, [Next]_vars PROVE RunsInv'
    OBVIOUS
  <2>1. PoolTypeOK
    BY DEF PoolInv
  <2>2. ASSUME NEW w \in Workers, Start(w) PROVE RunsInv'
    BY <2>2, BeginningQuiet DEF Start, poolVars, Callers
  <2>3. CASE MainStep
    BY <2>3, BeginningQuiet
       DEF MainStep, Sweep, Refresh, Distribute, Gather, SerialNext, SerialEnd, Finish, Shutdown, poolVars, Callers
  <2>4. ASSUME NEW t \in Callers, Evaluate(t) PROVE RunsInv'
    BY <2>1, <2>4, EvaluateQuiet
  <2>5. CASE Ended \/ UNCHANGED vars
    BY <2>5, BeginningQuiet DEF Ended, vars, poolVars, taskVars
  <2> QED BY <2>1, <2>2, <2>3, <2>4, <2>5, HelperQuiet DEF Next, Callers
<1>5. PoolInv /\ TaskInv /\ RunsInv => NothingRunsOn
  BY QuietBetween
<1> QED BY <1>1, <1>2, <1>3, <1>4, <1>5, PTL DEF Spec
=============================================================================
