# A TLA+ model of OGKMC

OGKMC (Online Graph Kinetic Monte Carlo) simulates a catalyst surface: a graph of
surface atoms, *placements* (members of adsorption sites) that adsorbates occupy,
and *events* - adsorption, desorption, hops between placements, couplings and
dissociations of bonds. Which events are possible, and at what rate, is not
given beforehand: a machine-learned potential is asked while the simulation
runs, and the network of species and sites grows when an event makes a species
nobody had seen. This directory holds TLA+ modules of its logic, the TLC runs that
check them, and proofs that TLAPS checks.

Paths below are relative to `src/ogkmc/`, modules to this directory.

## 1. The system

| Component | State | Operations | What makes it correct |
|---|---|---|---|
| **Event engine** (`kmc/session.py`, `execute.py`, `recompute.py`, `index.py`, `state.py`, `initialization.py`) | occupancy of the graph nodes, the `occupied_by_clique` index, the reaction index with its rate tree, the clock | initial sweep; per step: sample, execute, recompute the affected members, expand, record | no clique has two occupants; the incremental index is what a full sweep would build; no possible event is missing; events are reversible |
| **Applicability and lateral classes** (`reactions/*.py`) | per site, its lateral classes with energies, `stable`, `direct_event_status`, failure latches | evaluate a member: test the occupancy, find the class of its surroundings, calculate what is missing | an event is offered iff it is possible and its class was accepted; forward and reverse events share a class; a verdict is final |
| **Stability calculations** (`sites/stability/*.py`) | a band with its checkpoint and its counters | relax, build a band, roll back, refine at an intermediate, climb, validate, add thermochemistry | a band that is returned is a valid one; every calculation ends; a direct event that passes through a known intermediate is composite |
| **Calculation cache** (`io/calculation_cache.py`) | record folders, an index over them, shared by runs | look up, write, rebuild | what is found was finished, for the same site and surroundings, and is not taken for more than it is |
| **Network expansion** (`kmc/network.py`, `expansion.py`, `workflow/network.py`) | `bond_registry`: species, expanded species, templates, failures | after a bond event: build species, find hops and bonds, index and evaluate them; retry stages | the network is complete for what was expanded; a retry neither repeats nor loses what was done |
| **Sites** (`sites/adsorbate.py`, `diffusion.py`, `bond.py`) | placements, hops and bonds of the graph, in numbered iso-classes | enumerate, group, prune by stability, prune by surroundings | each stable triple has one representative, and numbers never change |
| **Rate tree** (`kmc/sampling.py`) | sum tree | update, batched update, grow, sample | inner nodes are sums; a sampled leaf has a positive rate |
| **Persistence** (`kmc/outputs.py`, `io/event_log.py`, `io/trajectory.py`, `io/checkpoint.py`, `io/persistence.py`) | event log, trajectory, reaction folders, checkpoint; in memory the history and the statistics | record, finish a step, checkpoint, close, resume | the checkpoint is covered by durable files; a resume gives back exactly the checkpointed history |
| **Run lifecycle** (`workflow/runtime.py`, `simulation.py`, `io/run_manifest.py`, `cli/pipeline.py`) | output directory, run lock, manifest | start, resume, finish, fail | one writer per directory; the manifest tells the truth |
| **Calculator pool** (`io/calculators.py`) | permits, queue of calculators, executor | lease, nested lease, batch, shut down | a calculator has one user; nobody waits forever |
| **Reaction index file** (`io/reaction_index.py`) | journal of definitions and statistics | register, count, sync, compact, rebuild | every durable event has its durable definition |
| **Summaries, analysis, export** | derived files | rebuild | derivable from the log and folders |
| **Species, chemistry, structure, thermochemistry, configuration** | objects built once | pure computation | - |

How they interact: `cli/pipeline.py` takes the run lock and builds the network;
`workflow/simulation.py` creates the output sinks and calls
`KMCSession.run`; the session owns everything from then on and is *one thread of
control*. It calls the reaction functions through `recompute_affected`, these
lease calculators (adsorption batches run in worker threads and are installed
serially afterwards), the expander is called after bond events, and
`KMCOutputManager` is called when an event and all its consequences are complete.
There are no callbacks into the session.

What is hard in it:

* **staleness** - the reaction index is incremental and execution trusts it: a
  hop or a bond event does not test the cliques it lands on (`kmc/execute.py:97`);
* **growth** - placements, hops and bonds become reactive at any time;
* **crash and resume** - four kinds of files, buffered and synced separately, one
  checkpoint that counts them, resumes that reconcile all with it;
* **verdicts** - a calculation may reject a class, fail to converge, or find the
  event composite, and the verdict is trusted by every later evaluation while the
  network it was judged in goes on growing;
* **reuse** - a database of calculations outlives runs, settings and numberings;
* **threads** - only inside the calculator pool; processes meet in the output
  directory and in the database.

The hazards, each at its line and with the properties that would catch it, are in
`PROJECT.json`; the two without a property are described in section 6.

## 2. Modules

| Module | Stands for |
|---|---|
| `SurfaceEvents` | the constant network: placements, cliques, hops, bonds; what an event empties and fills; reach on the surface |
| `LatticeGas` | *abstract*: an occupancy in which any allowed event happens, atomically and with no index |
| `KmcEngine` | *detailed*: one session of the engine |
| `KmcEngineProofs` | the theorems about `KmcEngine` |
| `RateSegmentTree`, `ReactionIndex` | the sum tree over rounded numbers, and the flat index of leaves, installs and suppressed classes on it |
| `ReactionIndexProofs` | the theorems about `ReactionIndex` and its tree |
| `CheckpointedLog` | *abstract*: a history that grows, is made permanent as a whole, and falls back to what is permanent |
| `RunPersistence` | *detailed*: the files of a run across sessions, crashes and resumes |
| `RunPersistenceProofs` | the theorems about `RunPersistence` |
| `ReactionIndexFile` | the journal of reaction definitions, what of it is synced and what a crash leaves |
| `RunLifecycle` | processes and threads over one output directory: lock, identity, stages, manifest, both places that publish a failure; composed with `ReactionIndexFile` |
| `RunLifecycleProofs` | the theorems about `RunLifecycle` and its index file |
| `CalculatorPool` | the pool of calculators under threads with nested leases |
| `CalculatorPoolProofs` | the theorems about `CalculatorPool` |
| `CalculatorTasks` | extends the pool with its users: batches, the executor, vibrations and their locks |
| `CalculatorTasksProofs` | the theorems about `CalculatorTasks` |
| `IntermediatePruning` | when a minimum on a band makes a direct event composite |
| `LateralClasses` | the evaluation of one member: its class, warm starts, verdicts, latches, reclassification |
| `NebBand` | one elastic band: stages, budgets, rollback, stagnation, refinement |
| `CalculationCache` | the database of calculations: records, rows, the three lookups, damage and rebuild |
| `StabilityChecks` | composes the last four: adsorptions, hops and bonds from evaluation to verdict, over several runs |
| `StabilityChecksProofs` | the theorems about `StabilityChecks`, its band and its database |
| `SurfaceSites` | enumeration, grouping, numbering and pruning of placements, hops and bonds on a ring of atoms |
| `NetworkExpansion` | the registry of species and templates, and the stages of an expansion with their retries; uses `SurfaceSites` |
| `NetworkExpansionProofs` | the theorems about the enumerations of `SurfaceSites` and about `NetworkExpansion` |
| `MC...` | the instances TLC checks |

### SurfaceEvents and KmcEngine

*Placements* are the pairs (site, member index) of the code; a *leaf* is an entry
of the reaction index: a placement (adsorption, desorption), a hop (two
placements, two directions) or a bond (A, B and perhaps C; no C means a gas
product). A *clique* is the set of surface atoms a placement binds to; two
placements with an equal clique exclude each other. `Near` is the neighbourhood
relation of `_surface_bfs_shells`.

| Variable | Code |
|---|---|
| `occ` | `occupied` of the placement nodes |
| `bucket` | `G.graph["occupied_by_clique"]` |
| `active`, `leaf` | the leaves of `_ReactionIndex` and what is installed on them |
| `verdict` | per lateral class: not calculated, `stable`, rejected (invalid, or a latched numerical failure), composite |
| `known`, `expanded` | `bond_registry["species"]`, `["expanded_species"]` |
| `event`, `step`, `pc` | the sampled reaction and the place in `_run_step` |

Actions follow `_run_session`: `Initialise`, then per step `Select` (any leaf of
positive rate, or `Stop`), `Execute` (or the "stale reaction"
errors), `Recompute`, for bond events `Expand` or `ExpandNothing`, `Record`;
`Complete` after `n_steps`; `Fail` wherever a calculation may raise.

A lateral class is abstracted to the pair (site, key of the occupied neighbours);
`Key` is a constant, so that the theorems hold for every notion of isomorphic
surroundings.  How a verdict comes about is the subject of `StabilityChecks`, how
templates become sites that of `NetworkExpansion`, which rate is drawn that of
`ReactionIndex`. An evaluation first decides the undecided classes of the leaves it
consults (`Judgements`; any outcome), then installs the offers (`Installed`, with
the removal of composite siblings). What the energies are is left out, and so is
the order of evaluation inside one sweep.

### RunPersistence

A session is reduced to the sequence `run` of reactions it fires; this stands for
graph, clock and random state together, all of which the checkpoint stores.
Every write is an action: the structures and the metadata of a reaction folder,
the event row, the frame, the three parts of a checkpoint
(`SyncTrajectory`, `SyncEvents`, `FlushStatistics` one folder at a time,
`CommitHistory`), its publication, the end. A `Crash` may come between any two
and keeps everything that was synced and an arbitrary prefix of the rest,
possibly with a torn row. A session may also raise: in a calculation
(`FireRaises`: the event happened in memory and is never recorded, but folders of
completed reactions are written), or while writing (`OutputRaises`). `Resume`,
`Quarantine`, `Reopen`, `Reconcile` are the steps of a resume, which may crash
too. A byte offset is modelled by the extent of the frames before it, because the
last frame may be rewritten with another length.

Three settings of a session (steps, the two cadences) and the number of sessions
are chosen once, in `Init`.

### RateSegmentTree and ReactionIndex

Numbers are integers of limited precision, all of them below `Exact` and ever fewer
above, rounded to the nearest, ties
to even, and never closer than 1, as subnormal numbers are: sums lose small
terms, a difference may be rounded up to its bound and a product up to the total.
Those are the effects the code's comments and clamps are about. `Grown`, `Updated`, `Built` and
`Sampled` are the operations of the tree; its loops are recursive functions over the positions
(`Touched` is the set of parents that `update_many` works through). `ReactionIndex` adds sites, installs members and
batches, and takes the reactions of composite classes out. The sites of one growth step come
in the order of their channels (`Channel`: adsorption, diffusion, bond), and a site never before
the sites its events end on (`Ends`); the sites of the next step follow behind all of them.
`ResumedTree` is the index a resumed session builds from the same sites, channel by channel.

### RunLifecycle and ReactionIndexFile

An *actor* is a thread that starts a run, or probes whether one is active
(preflight). Threads of one process share its registry of locked directories and
die together; the file lock is held by an actor. A run goes through identity,
`Begin`, two stages that stand for six, `Step`s, `Close`, `Publish`; it may raise or
be interrupted anywhere, after which its failure is published by
`execute_kmc_stage` (`RecordInner`), by `run_from_config` (`RecordOuter`), or by
neither (`RecordInVain`). A segment of the manifest carries the stage it ended in,
its first, last and last durable step. A step appends one event; a checkpoint makes
the prefix durable and syncs the index file, of which a crash keeps any prefix of
the unsynced rows.

### LateralClasses, NebBand, CalculationCache, StabilityChecks

A site has members and a class for each of its surroundings; `Bare` is the class
without neighbours, `Copy` the throw-away copy of it on which a path is captured. An
evaluation joins the member to its class (`Evaluate...`), may start from a bare
calculation (`Warm...`), calculates the class if it is undecided and not latched
(`Judge...`), and offers the member or not (`Offer...`). A calculation looks the
request up (`LookupHits`, `LookupMisses`, or a rebuild of the index in two steps), relaxes
its structures one by one, drives a band, validates, adds thermochemistry, marks
the class, and writes assets, document and row one after the other. The driver
of a band is modelled whole; the optimizer under it may lead to any band of
`limits.profiles`. A record's key is what the code hashes, exact, portable
(without the numbers of one run) or electronic (without the thermochemistry). Between two
actions of a job the network may grow, another thread may work on another site,
the process may crash, and between runs a record may be damaged or the index lost.

### SurfaceSites and NetworkExpansion

The surface is a ring of `N` atoms with top and bridge positions; the symmetries of
the ring play the part of graph isomorphism, so an iso-class is an orbit. What the
calculator says about placements and pairs is a constant. `NetworkExpansion` starts with
the feed and the leaves of its templates; every bond event (`Fire`) queues what it
produced, and an expansion goes through gas reference, placements, templates, leaves,
hops, bond sites and activation. Each stage succeeds, or raises and is tried again
up to `MaxAttempts` times, or raises for good and ends the run.

### CalculatorPool and CalculatorTasks

The only threads of the program are behind the calculators.

`CalculatorPool` is `io/calculators.py` alone. A *block* is one `with` statement over
`acquire` or `acquire_many`; `Outer` says how the blocks of a thread nest. The
permits (`_available_permits`, `_thread_permits`) and the queue are two inventories:
a block first gets its permits (`Reserve`, perhaps after `Sleep`), then takes its
calculators one by one (`Take`); it puts them back one by one (`Put`) and then
returns the permits and wakes every sleeper (`Release`). Each of these is atomic in
the code (the condition's lock, the queue's lock) and anything may come between
two of them. A nested request that does not fit raises before it changes anything,
so the thread simply does not take the step.

`CalculatorTasks` adds what runs over the pool. The main thread goes through rounds; a round
is a *sweep* (`compute_all_*`: in the executor, every job in
`calculator_batch_context`) or a *refresh* (`recompute_affected_sites`: in the executor
only without free energies and only for adsorption sites, with no context). A thread that
evaluates a site leases a calculator for the relaxation; with free energies it
takes the lock of the class's vibration cache and either leases again or, if it is not
in a batch, spreads the displacements over a private executor (`Helpers`) and waits for
all of them. Any relaxation, vibration or displacement may raise. `Gather` waits for
the whole batch before it raises the first exception; a serial loop stops at once.
One relaxation and one vibration calculation stand for the two (occupied and
unoccupied site) or more of the code, `Known` for a class that needs none.

## 3. Properties and runs

Engine (all invariants of `KmcEngine`):

* `Exclusion` - no clique has two occupants;
* `OccupancyIndexAgrees` - the clique buckets are a scan of the graph;
* `IndexFresh` - between steps the whole index is what a full sweep would give;
* `NoEventOverlooked` - every possible event is on offer in its present class, unless that
  class was rejected or found composite;
* `NeverStale` - `execute_reaction` never raises "stale";
* `Reversible` - after a step the reverse event is offered in the same class;
* `PlacementsIndexed` - whatever is or may become occupied is reactive;
* `ImplementsLatticeGas` - the refinement; `SessionEnds` - the liveness property.

Index: `AsRebuilt` (the tree is, value for value, that of a fresh index over the same
leaves in the same order),
`NoneSuppressed`, `SampleLive` (a draw ends on a leaf of positive rate without the
linear scan), `SampleProportional`; `ResumedSamplesAlike` (a resumed session, whose leaves may be in
another order, draws the same reaction from the same number) is violated (section 6).

Persistence: `CheckpointCovered`, `NeverRefused`, `HistoryFaithful`,
`TrajectoryFaithful` (no frame missing, doubled or out of order),
`FoldersFaithful` (every event's reaction has its folder, and no folder of an
abandoned continuation is taken for known), `StatisticsAgree`,
`ImplementsCheckpointedLog`.

Lifecycle: `OneRun`, `SegmentsClosed`, `SegmentsChain` (segments follow each other
as the checkpoints say), `EventsDefined`.

Stability: `BandSound`, `DatabaseSound`, `OffersSound` (an offer is a calculated,
admissible class with this run's thermochemistry; of the thermochemistry the bare class of a hop or bond
with lateral interactions is exempt), `VerdictsKept`, `ChecksEnd`;
`RatesHaveThermochemistry`, which has no exemption, is violated (section 6).

Network: `NetworkConsistent`, `SitesKept`.

Pool: `ExclusiveUse`, `InventoriesAgree` (a promised calculator is in the
queue), `PermitsConserved`, `NoLostWakeup`, `NoCircularWait`. Tasks:
`LevelsNeverNested` (no thread of one executor opens another), `NothingRunsOn`
(when the caller goes on, all is idle, unlocked and back), `TasksEnd`.

The types of the engine are checked (`TypeOK`) and proved; those of the pool, the
tasks and the lifecycle are part of their inductive invariants.

| Run | Instance and bounds | Question |
|---|---|---|
| `engine_verdicts` | four atoms, five placements, two equivalent hops out of each other's reach, two bonds of which one makes a gas and starts the growth, any verdict, `NSteps` = 3 | freshness, completeness and reversibility with rejected and composite classes and a growing network |
| `engine_growth` | five atoms, three species of which one is known at the start, that compete for cliques; templates that refer to a species they do not produce; a two-clique placement, a bond with spectators in reach; every calculation succeeds; `NSteps` = 4, with fairness | does growth index everything that may become occupied, do exclusion and the refinement hold where geometry is tight, and does a session end? |
| `reaction_index` | three sites of two, two and one members, one or two added at once (`MaxNew`), the members of a site in a batch alike (`Mixed` is false), `Exact` = 4 (two significant bits), rates 1 and 3 | is the incremental tree the rebuilt one, and is a draw always live? |
| `persistence` | two reactions; three sessions of two steps (checkpoints every 2, frames every 3), or two sessions of three steps (both every 2) | every invariant and the refinement under a crash or an error anywhere |
| `run_lifecycle` | two processes, one with two threads; sessions of two steps, checkpoints every 2, two segments, one crash | exclusion, the manifest and the index file under starts, probes, failures, signals and crashes |
| `stability` | seven configurations, see below | verdicts, bands, warm starts, database |
| `network_expansion` | four atoms, ten species, ten templates, three attempts, with and without diffusion | is the network complete and is nothing lost by a failure? |
| `calculator_pool` | two calculators; two threads that nest a lease in a lease, one that asks for both | exclusive use and waiting under all interleavings |
| `calculator_tasks` | two calculators, two workers, two helpers, three sites of which two share a vibration cache, three displacements, two rounds, with fairness | nesting, leaking and termination of the scheduling, with and without free energies, whatever raises |
| `persistence_final_frame` | checkpoints every step, frames every 3 | *violated*: see section 6 |
| `bare_rates` | one hop, evaluated with lateral interactions and free energies | *violated*: see section 6 |
| `resumed_index` | the sites of `reaction_index`, `Exact` = 64 so that nothing is rounded, rate 1 | *violated*: see section 6 |

The configurations of `stability` (`MCStability`): `Hops`, two equivalent hops in two
surroundings while the network grows by an intermediate; `Band`, one band and every
turn it can take (up to three interior images, three forces, three optimizer steps a stage,
two refinements, rollback, stagnation); `HopRecords`, a refinement and a path that come
out of the database; `Adsorptions`, two sites in threads of their own and two runs
that share the database, without and with thermochemistry; `Numbers`, one site whose classes are
numbered anew in every run, with two faults; `GasBond` and `SurfaceBond`, bonds
with a gas and with a surface product over three runs. A fault is a crash, a damaged
record, or an index that is lost or unreadable.

The chemistry of `network_expansion` (`MCNetworkExpansion`) is made of the cases the code
distinguishes: leaves that are known, unstable in the gas or both; a product without
a site; a label without a legal molecule; a species reached by two templates; a template
between two leaves that are expanded in either order; a species of one or two
anchors; placements and pairs that do not survive their relaxation.

Why the bounds are enough: in the engine's instances every kind of leaf, every
direction, every verdict and both forms of growth occur; three steps allow an
event that grows the network, its consequences on a neighbour and one event of
the grown network, four the reverse events and a second stage of growth (the product
adsorbs and breaks into a species nobody had seen on the surface); one species of
`engine_growth` is not fed, so that its adsorption has no rate. The
theorems of section 4 cover all other networks and notions of surroundings. In the persistence instances the
cadences are chosen so that the last step lies on both, on one or on neither;
three sessions allow a crash, a resume that crashes again before its first
checkpoint, and one that must still find everything. In the pool's instance every
request can be refused, granted at once or made to wait, in a nested block too, and two
sleepers with different requests can wait for one release. In the tasks' instance a
third job waits for a worker, two threads want one cache lock, a helper takes a
second displacement, and a first round can fail or leave something behind for a
second. The index of `reaction_index` grows across two powers of two, and two bits are
enough for every kind of rounding the sampler guards against. In `run_lifecycle` a
second segment can follow a completed, a stopped, a failed, an interrupted and a dead one,
and its run can meet a starter and a probe from another thread and another process.
`NSteps`, `MaxSessions`, `StepsPerSession`, `Rounds`, `MaxSegments`, `MaxCrashes` and the
faults of a stability configuration are bounds of the models; `NSteps`,
`StepsPerSession`, `MaxAttempts` and the limits of a band are also settings of the code.
Threads of one process and reactions are interchangeable in `run_lifecycle`
(`SYMMETRY`); nowhere else is symmetry used.

Fairness: `engine_growth` assumes weak fairness of `Next`, i.e. the one
thread of control of a session takes its next step. This presumes that every
calculation returns or raises; optimisers have step limits in the code.
`calculator_tasks` assumes weak fairness of the steps of each thread: a thread that
can go on eventually does. Weak fairness is enough there because at most `MaxWorkers`
threads, each with one unnested lease, compete for `MaxWorkers` permits; nothing is
assumed about who gets a calculator or a lock.
`stability` and `bare_rates` (`FairSpec`) assume weak fairness of the calculation of every
site, again one thread that goes on while its optimizer returns; nothing is assumed of
growth, crashes or the start of evaluations. The other runs assume none, and no
theorem of section 4 uses fairness.

Deadlock is checked in every run but three. `stability` and `bare_rates` stop when the last run
has finished and no fault is left; `network_expansion` stops when an expansion fails
for good, which ends the run (`RunLifecycle` and `RunPersistence` have the restart).
In the others `Terminated`, `Abandoned` and `Ended` are the explicit ends, and a
process of `run_lifecycle` can always probe.

## 4. Proofs

`KmcEngineProofs` proves, for *every* network that meets the named assumptions
(`NetworkAssumption` and `NearAssumption` of `SurfaceEvents`,
`EngineAssumption`, `SiteAssumption`, `StartAssumption`), every feed, every
`Key`, radius, number of steps and all outcomes of the calculations:

| Theorem | States |
|---|---|
| `Invariance` | `Spec => []IInv` |
| `TypeCorrect`, `ExclusionHolds`, `OccupancyIndexHolds`, `IncrementalIsFull`, `NothingOverlooked`, `ExecutionNeverStale`, `ReversibleHolds`, `PlacementsIndexedHolds` | the invariants of the runs |
| `Refinement` | `Spec => ImplementsLatticeGas` |

The argument: none of the properties is inductive. `Exclusion` needs the selected
event to be executable, which needs the index to be fresh when it is sampled, which
needs `Recompute` to refresh enough leaves, which needs the buckets to be exact.
`IInv` is therefore the conjunction of the types, `SurfaceInv` (exclusion,
buckets, placements are indexed), `IndexInv` (the index is fresh when idle, and
fresh except for the affected leaves while an event is under way), `EventInv`
(what is known of the event at each `pc`) and `NeverStale`. The geometric heart is
in the lemmas `OutOfReachMeaning`, `UnaffectedApplicable` and
`UnaffectedSpectators` (a leaf outside the refreshed region has the same
applicability, the same surroundings and hence the same offer before and after the
event) and in `SameClassAfter` (the surroundings of an event do not contain its own
endpoints, so the reverse event has the same class).

`CalculatorPoolProofs` proves all invariants of the pool for any finite pool, any threads
and any nesting of blocks that meets `PoolAssumption`: `ExclusiveUseHolds`,
`InventoriesNeverDiverge`, `PermitsAreConserved`, `NoWakeupIsLost`, `NoCircle`. The
invariant counts: free permits and permits of granted blocks add up to
`MaxWorkers`, a block holds no more calculators than its permits, so that a
block still taking finds at least one calculator in the queue. `NoCircle` follows because a thread
that sleeps holds nothing, while somebody holds what it waits for.

`CalculatorTasksProofs` proves that `CalculatorTasks` uses the pool as allowed
(`TasksUseThePool`, `Spec => PoolSpec`), hence `TasksNeverShare`; and `NeverNested`,
with an invariant that says why the context of a batch can be trusted: a
running job is still open, no two workers run the same one, and so no worker is
left over when the context changes.

`RunLifecycleProofs` proves `OneRunHolds`, `SegmentsClosedHolds` and
`SegmentsChainHolds` for any number of processes, threads, steps, invocations and crashes (`LifecycleInvariance`). `OneRun`
is nearly inductive: whoever is inside, or probes, holds the file lock. The registry
of the process plays no part in it; it turns a refusal into a message. `SegmentsClosed`
is not: that an open last segment has an owner needs the places of the failure path
(`OpenOwned`), that a second publication does not overwrite the stage the run ended in
needs what a closed segment has forgotten (`SegmentSound`), and that the last step is not
before the first needs the gauge and the session (`SessionSound`). `SegmentsChain`
relates the manifest to the checkpoints, which different calls write, and rests on a second
invariant, `ChainInv`: what a run inside the lock knows of the checkpoint it resumes from
and of the ones it has written (`RunSound`), and how each segment is linked to
the step the next one begins at, or would begin at (`Chain`).

`EventsDefinedHolds`, that every durable event has its durable definition, relates two files
that different calls sync. `IndexInv` follows what the writer remembers: while the file is open
its counters are those of the log, its rows on disk and the ones it has not synced together
name every reaction of the log (`WriterSound`), and the log is as long as the run inside the
lock believes. It rests on `ChainInv`, for a resume cuts the log at the checkpoint.

`CalculatorTasksProofs` also proves `NothingRunsOn` (`TasksInvariance`): when a round is over
nobody is in the pool, in a lock or in a private executor. The invariant names for every
helper, lock and lease the job it serves (`RunsInv`): a failing displacement ends its
siblings' work only through `Collect`, which waits for all of them.

`RunPersistenceProofs` proves for any reactions, sessions, steps and cadences that meet
`PersistenceAssumption` (`NoCheckpointAssumption` only says that a missing checkpoint is not one):

| Theorem | States |
|---|---|
| `PersistenceInvariance` | `Spec => []IInv` |
| `NeverRefusedHolds`, `CheckpointCoveredHolds`, `HistoryFaithfulHolds`, `TrajectoryFaithfulHolds`, `FoldersFaithfulHolds`, `StatisticsAgreeHolds` | the invariants of the run |
| `HistoryRefinement` | `Spec => ImplementsCheckpointedLog` |

None of the properties is inductive. Whether a resume is refused depends on what a crash
left of each file, this on what had been synced when the checkpoint was published, and
this on the order of the parts of a checkpoint. `IInv` says what is synced at each `pc`
(`SyncInv`), that the log is the run but for an event on its way (`LogInv`), which frames the
trajectory has and what the unfinished one may be (`FrameInv`), what the checkpoint
describes (`CheckpointInv`), which folders exist and which are known (`FolderInv`), and that
durable statistics never count more than the log (`StatisticsInv`). For the refinement,
the recorded history maps to the run and the durable one to the checkpoint's part of it.

`NetworkExpansionProofs` proves two things. For rings of any size, pools, templates and stable
triples (`SurfaceAssumption`), `EnumerationSound`: a search for bond sites returns
classes of requested templates that are stable, and exactly one for every stable triple.
For any chemistry that meets `NetworkAssumption`, any feed, attempts and failures,
`NetworkConsistentHolds` and `SitesKeptHolds` (`NetworkInvariance`): the reverse indexes agree
with the stores at every stage, between two events the network is complete and active,
and no failed attempt loses or renumbers a site. The invariant says what an expansion
in progress owes: which species it has still to place (`SubjectInv`, `NodesInv`), which
templates the species under expansion may still lack (`TemplatesComplete`, `StageInv`), which placed species
have no hops yet (`SearchInv`), that the bond sites represent every triple of a template that has
been searched (`BondsInv`), and which leaves may still be inactive (`ActiveInv`).

`StabilityChecksProofs` proves, for every configuration that meets `ConfigurationAssumption`, with
any number of sites, threads, runs and faults (`ChecksInvariance`), `BandSoundHolds` (a returned
band is a valid one, within its budgets, whatever the height of its barrier), `DatabaseSoundHolds`, `OffersSoundHolds` (with the
exemption of section 3) and `VerdictsKeptHolds`. `BandInv` is inductive on its own. The others need `SitesInv`, which
says of every class (`ClassInv`), evaluation (`EvaluationInv`) and calculation (`CalculationInv`) how far it
is and what it has established, and `Alone`, that two calculations never work on one class; and
`DatabaseInv`: the index lists no two records of one key and none without a document
(`RowsInv`), where a class that came out of the database has it from (`OriginInv`), which of its three
files a writer has written (`WriterInv`), and that with one thread every record of the run is
listed but the one being written (`Covered`). `OffersSound` and
`VerdictsKept` are about steps; they follow because a calculation changes only a class on
which nothing is decided (`Open`).

`ReactionIndexProofs` proves all four properties of the index, for any sites that meet
`SitesAssumption` and `ClassAssumption` (a lateral class belongs to one site), batches of any size
and kind, and any precision (`ExactAssumption`): `AsRebuiltHolds`, `NoneSuppressedHolds`, `SampleLiveHolds` and
`SampleProportionalHolds`, from `IndexInvariance`. The invariant: the sites divide the leaves among
them (`LayoutInv`), a leaf holds what its member has offered (`ReactionsInv`), the tree sums up the rates
of the leaves (`TreeSound`), and nothing suppressed is left. The library's induction theorems cannot be
used for the recursive functions of the tree; they are derived here from least elements: a
function defined by recursion exists (`Recursion`), what holds at the leaves and passes from
children to parents holds everywhere (`HeapInduction`), and there is one sum tree over given leaves
(`SumTreeUnique`), so that an update that only touches ancestors ends in the tree
a rebuild makes (`UpdatedSound`). `SampleLive` needs of rounding only that a sum is zero exactly if both
terms are and that the number below a positive one is not negative: a subtree is empty exactly if its
node is (`RootSound`), and the descent never enters an empty one (`DescentLive`).
For `SampleProportional`, the targets that pass through a node are an interval, as long as the node's
sum and beginning where the leaves to its left end (`DescentWithin`, `DescentThrough`).

Only model-checked: `SessionEnds`, `TasksEnd` and `ChecksEnd` (liveness is out of TLAPS' reach). That the engine is right with a
refresh radius of zero, without lateral interactions, is only proved: the runs
all have neighbours that interact.

## 5. Not modelled, and why

* Energies, barriers, rates, times, random numbers: floating-point chemistry; the
  engine's control depends on them through verdicts and positive rates only.
  `ReactionIndex` has the rounding of sums, `NebBand` the shape of a profile.
* Real geometry: anchors, conformers, periodic images, the graph of a slab or a
  particle; `SurfaceSites` has a ring, and `KmcEngine` any network.
* Species and bond chemistry over molecules: templates are constants. A produced
  species is always available, an undefined initial leaf ends the run before its
  first step, radicals among the initial leaves are not modelled.
* Of the network: legacy registries and records without a reactant; pruning switches
  other than the defaults; `auto_build_leaf_species` off, which closes the network.
* Of the stability calculations: classes restored from the checkpoint of an
  earlier run (runs of `stability` begin with fresh ones and meet in the database);
  starting a band in its climbing stage, which no caller asks for; the parallel
  evaluation of a band's images.
* Of the database: fingerprints (a record's key is what they hash), the layout of
  the documents, two processes that write at once.
* The construction of calculators; the advisory file lock that extends a
  vibration cache's lock to other processes.
* Legacy checkpoints (before schema 4) and their step-based reconciliation; the
  diagnostics folders of rejected classes; resuming from a copied checkpoint;
  runs with checkpoints disabled, which cannot be resumed.
* Summaries, analysis, export, telemetry, configuration, command line: no state the
  simulation reads back, but for the gauge of the last step in a failed manifest.

## 6. Findings

`persistence_final_frame`: `docs/architecture.md:365` says that a resume "atomically
removes frames beyond the checkpoint step". When the last periodic checkpoint is
at the last step, `KMCOutputManager.close` appends the forced final frame *after*
it and does not checkpoint again; the frame's step equals the checkpoint's, it is
durable, and yet the next resume removes it, because it lies behind the committed
byte offset. The continued trajectory is consistent; it only lacks the state in
which the first session ended.

`resumed_index`: `docs/index.md:60` says that the checkpoint records the state "needed to continue
that same trajectory, including the random-number-generator state", and a comment in
`io/checkpoint.py:253` says when a continuation is "bitwise equivalent to an uninterrupted run".
The order of the leaves is not part of it. Growth appends its sites behind all others
(`kmc/network.py:430`, `kmc/index.py:147`); a resumed session indexes adsorption, diffusion and
bond sites one after the other (`kmc/initialization.py:273`). Once a placement or a hop was found
later than a bond, the same random number may select another reaction after a resume
than without one. Either reaction is drawn with its right probability.

`bare_rates`: `docs/configuration.md:695` says that the bare warm start "supplies
electronic geometry only. The final occupied-surface calculation supplies all
thermochemistry and KMC rates". When nobody is near the event, the class of its surroundings *is*
the bare class: the warm start (`reactions/diffusion.py:618`) marks it stable without
thermochemistry, and the event is offered with it although free energies
were asked for. `OffersSound` leaves exactly this case out.

Observed while modelling, and part of the modelled behaviour, but no run is about it:

* After growth, a saved refinement is rechecked with the member that is being
  evaluated (`reactions/diffusion.py:148`, `reactions/bond.py:164`), not with the one it was calculated
  for. If a class is shared and another member is evaluated first, the new
  signature is stored without a certificate, the right member's recheck is
  then skipped, and a composite event stays on offer. Only the last refinement of a band
  is rechecked at all.
* When a path is captured on a copy of a stable bare class and the event
  turns out composite, only the copy is suppressed.
* A direct event is only suppressed when its replacement hops are registered; whether
  these are stable is not asked.
* `docs/architecture.md:344` says that a NEB that does not converge is left for a later
  retry; the code latches the failure, as `docs/configuration.md:333` says.
* `docs/configuration.md:616` and `:670` and `docs/architecture.md:147` say that a band is not
  refined with a climbing image if one of its raw directional barriers is below 0.1 eV.
  `run_neb` (`sites/stability/neb.py:1384`) begins the climbing stage whatever the barriers
  are, on a band that only goes downhill too; `docs/configuration.md:170`, the repository's
  `README.md:309` and a docstring (`reactions/diffusion.py:1218`) agree with the code. So does
  `NebBand`: a climbing stage in `BandSound` means one that was asked for, and `BandSound`
  does not show what those documents say.
* `docs/architecture.md:84` says that free-energy runs refresh all active members, and `:291` that their
  structures include all occupied adsorbates. The code selects and refreshes locally, as
  `docs/architecture.md:316` says, and so do `Recompute` and `LateralClasses`.
* `docs/reaction-database.md:137` says that an absent or unreadable index is rebuilt.
  With lookups off, an absent index is replaced by one with the new rows only,
  and an unreadable one makes the next write raise, which ends the run (`WriteRaises`).
* A rebuild replaces the index by what it listed when it began
  (`io/calculation_cache.py:2048`): a row written meanwhile by another thread is lost
  until the next rebuild. The folder is not. `DatabaseSound` demands every row
  only where one thread uses the database.
* Preflight takes the run lock to see whether it is free (`workflow/runtime.py:157`), so that a
  run may be refused because of a mere probe.

## 7. Plan

1. `StabilityChecks` with classes restored from a checkpoint, and a refinement from
   it to the verdicts of `KmcEngine`.
2. A restart of `NetworkExpansion` from a checkpointed registry.
