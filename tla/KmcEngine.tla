------------------------------ MODULE KmcEngine ------------------------------
(***************************************************************************)
(* One kinetic Monte Carlo session (KMCSession._run_session): select an    *)
(* event from the reaction index, execute it, recompute every leaf whose   *)
(* surroundings may have changed, grow the network after a bond event,     *)
(* record the event.  The index is incremental, and execution trusts it:   *)
(* a hop or a bond event does not look again at the cliques it lands on.   *)
(*                                                                         *)
(* Energies, barriers and rates are abstracted to the verdict on a lateral *)
(* class (is the event in the rate index at all) and to whether the rate   *)
(* is positive; which positive-rate leaf is drawn is nondeterministic.     *)
(***************************************************************************)
EXTENDS SurfaceEvents

CONSTANTS
  Species,           \* canonical SMILES
  SpeciesOf,         \* placement -> its species
  ProductOf,         \* bond -> the species C of its template
  Fed,               \* species with a positive partial pressure
  SiteOf,            \* leaf -> its iso-class (one site object in the code)
  Key(_, _),         \* leaf, occupied neighbours -> isomorphism key of its environment
  Lateral,           \* settings.lateral_interactions
  FindDiffusion,     \* bond_growth_options.find_diffusion
  MayFail,           \* may a calculation reject a class or find it composite?
  StartOccupancies,  \* the occupancies a run may start or resume from
  StartActive,       \* the leaves indexed at the start
  StartKnown, StartExpanded,
  NSteps,            \* settings.n_steps
  NoEvent

VARIABLES
  occ,       \* the placements whose nodes carry occupied = True
  bucket,    \* G.graph["occupied_by_clique"]
  active,    \* the leaves present in the reaction index
  leaf,      \* leaf -> the reaction installed on it: at most one
  verdict,   \* lateral class -> what the calculations said about it
  known,     \* reg["species"]
  expanded,  \* reg["expanded_species"]
  event,     \* the sampled reaction, from its selection to its record
  step,      \* events recorded
  pc         \* where the session is

surface == <<occ, bucket>>
index == <<active, leaf, verdict>>
registry == <<known, expanded>>
vars == <<occ, bucket, active, leaf, verdict, known, expanded, event, step, pc>>

Sites == {SiteOf[l] : l \in Leaves}

ASSUME EngineAssumption ==
  /\ SpeciesOf \in [Members -> Species]
  /\ ProductOf \in [Bonds -> Species]
  /\ \A h \in Hops : SpeciesOf[EndA[h]] = SpeciesOf[EndB[h]]
  /\ \A b \in Bonds : EndC[b] # NoMember => SpeciesOf[EndC[b]] = ProductOf[b]
  /\ Lateral \in BOOLEAN /\ FindDiffusion \in BOOLEAN /\ MayFail \in BOOLEAN
  /\ NSteps \in Nat

\* A site holds leaves of one channel, of one species or one template.
ASSUME SiteAssumption ==
  /\ SiteOf \in [Leaves -> Sites]
  /\ \A l, k \in Leaves : SiteOf[l] = SiteOf[k] =>
       /\ l \in Members <=> k \in Members
       /\ l \in Hops <=> k \in Hops
       /\ l \in Members => SpeciesOf[l] = SpeciesOf[k]
       /\ l \in Channels => /\ SpeciesOf[EndA[l]] = SpeciesOf[EndA[k]]
                            /\ SpeciesOf[EndB[l]] = SpeciesOf[EndB[k]]
       /\ l \in Bonds => ProductOf[l] = ProductOf[k]

ASSUME StartAssumption ==
  /\ StartOccupancies \subseteq SUBSET (StartActive \cap Members)
  /\ \A o \in StartOccupancies : Exclusive(o)
  /\ StartActive \subseteq Leaves
  /\ \A l \in StartActive : Endpoints(l) \subseteq StartActive
  /\ \A l \in StartActive, k \in Leaves : SiteOf[k] = SiteOf[l] => k \in StartActive
  /\ \A m \in Members : SpeciesOf[m] \in StartKnown <=> m \in StartActive
  /\ StartKnown \subseteq Species /\ StartExpanded \subseteq Species

-----------------------------------------------------------------------------
\* Lateral classes.

\* The surface atoms searched around a seed; settings.max_n_shells is 0
\* when lateral interactions are off.
Around(S) == IF Lateral THEN Within(S) ELSE S

\* Mutant: the leaf's own endpoints count as spectators of themselves.
SpectatorsWithSelf(l, o) ==
  {m \in o : AtomsOf({m}) \cap Within(AtomsOf(Endpoints(l))) # {}}

\* The occupied spectators of a leaf's ego-graph.
Spectators(l, o) ==
  IF Lateral
  THEN {m \in o \ Endpoints(l) : AtomsOf({m}) \cap Within(AtomsOf(Endpoints(l))) # {}}
  ELSE {}

LateralClass(l, o) == <<SiteOf[l], Key(l, Spectators(l, o))>>
Classes == {<<SiteOf[l], Key(l, o)>> : l \in Leaves, o \in SUBSET Members}
\* A class that failed numerically is latched (last_failure_reason) and offers
\* nothing either: it counts as rejected.
Verdicts == {"undecided", "stable", "rejected", "composite"}
Reactions == [dir : AllDirections, class : Classes]

ChannelClass(c) == \E l \in Channels : SiteOf[l] = c[1]

-----------------------------------------------------------------------------
\* Applicability of an event in an occupancy.

\* Is a clique of the placements M claimed by somebody else?
Blocked(M, allowed, b) == \E c \in CliquesOfAll(M) : ~(b[c] \subseteq allowed)

\* Mutant: only adsorption and desorption look at cliques.
WatchedMembersOnly(l, d) == IF l \in Members THEN {l} ELSE {}

\* Mutant: the cliques of the placements that empty are tested.
WatchedSources(l, d) == IF l \in Members THEN {l} ELSE Sources(l, d)

\* Adsorption and desorption look at their own cliques, the others at the
\* cliques they are about to fill.
Watched(l, d) == IF l \in Members THEN {l} ELSE Targets(l, d)

Applicable(l, d, o, b) ==
  /\ Sources(l, d) \subseteq o
  /\ Targets(l, d) \cap o = {}
  /\ l \in Bonds => ~ShareClique(EndA[l], EndB[l])
  /\ ~Blocked(Watched(l, d), Endpoints(l), b)

\* The reaction an evaluation returns for a leaf: none or one.
Offer(l, o, b, v) ==
  {[dir |-> d, class |-> LateralClass(l, o)] :
     d \in {x \in Directions(l) : /\ Applicable(l, x, o, b)
                                  /\ v[LateralClass(l, o)] = "stable"}}

\* Is the rate positive?  An event that consumes a gas, an adsorption or the
\* dissociation of a gas product, has a rate proportional to its pressure.
Live(l, r) ==
  /\ r.dir = "adsorption" => SpeciesOf[l] \in Fed
  /\ r.dir = "dissoc" /\ EndC[l] = NoMember => ProductOf[l] \in Fed

-----------------------------------------------------------------------------
\* Evaluating the leaves R: first the verdicts, then the reactions.

Consulting(R) == {l \in R : \E d \in Directions(l) : Applicable(l, d, occ, bucket)}

\* A new channel class also has its empty-surroundings class calculated
\* first, as a warm start.
Undecided(R) ==
  LET own == {LateralClass(l, occ) : l \in Consulting(R)}
      bare == {LateralClass(l, {}) : l \in {k \in Consulting(R) \cap Channels :
                                  verdict[LateralClass(k, occ)] = "undecided"}}
  IN {c \in own \cup bare : verdict[c] = "undecided"}

\* A stable channel class is checked again for a newly known intermediate
\* once the network has grown.
Reclassifiable(R) ==
  {c \in {LateralClass(l, occ) : l \in Consulting(R) \cap Channels} :
     verdict[c] = "stable" /\ active # StartActive}

Judgements(R) ==
  LET new == Undecided(R)
      Goods == IF MayFail THEN SUBSET new ELSE {new}
      Splits(good) == IF MayFail
                      THEN SUBSET ({c \in new \ good : ChannelClass(c)} \cup Reclassifiable(R))
                      ELSE {{}}
      Outcome(good, split) ==
        [c \in Classes |-> IF c \in split THEN "composite"
                           ELSE IF c \in good THEN "stable"
                           ELSE IF c \in new THEN "rejected"
                           ELSE verdict[c]]
  IN UNION {{Outcome(good, split) : split \in Splits(good)} : good \in Goods}

\* Mutant: sibling leaves of a composite class keep their reactions.
InstalledWithoutSiblings(l, R, v) == IF l \in R THEN Offer(l, occ, bucket, v) ELSE leaf[l]

\* Mutant: a leaf whose evaluation returns nothing keeps its old reaction.
InstalledIfOffered(l, R, v) ==
  IF l \in R /\ Offer(l, occ, bucket, v) # {} THEN Offer(l, occ, bucket, v) ELSE leaf[l]

\* _ReactionIndex.install: replace the leaf; a composite class also takes
\* its reactions off the sibling leaves of the same site.
Installed(l, R, v) ==
  IF l \in R THEN Offer(l, occ, bucket, v)
  ELSE IF \E k \in R : SiteOf[k] = SiteOf[l]
       THEN {r \in leaf[l] : v[r.class] # "composite"}
       ELSE leaf[l]

-----------------------------------------------------------------------------
Init ==
  /\ occ \in StartOccupancies
  /\ bucket = [c \in Cliques |-> {m \in occ : c \in CliquesOf[m]}]
  /\ active = StartActive
  /\ leaf = [l \in Leaves |-> {}]
  /\ verdict = [c \in Classes |-> "undecided"]
  /\ known = StartKnown
  /\ expanded = StartExpanded
  /\ event = NoEvent
  /\ step = 0
  /\ pc = "start"

\* initialise_runtime: sweep every channel, then install every leaf.
Initialise ==
  /\ pc = "start"
  /\ \E v \in Judgements(active) :
       /\ verdict' = v
       /\ leaf' = [l \in Leaves |-> Installed(l, active, v)]
  /\ pc' = "idle"
  /\ UNCHANGED <<surface, active, registry, event, step>>

\* Mutant: one step too many.
SelectOneMore ==
  /\ pc = "idle" /\ step <= NSteps
  /\ \E l \in active : \E r \in leaf[l] :
       /\ Live(l, r)
       /\ event' = [leaf |-> l, dir |-> r.dir, class |-> r.class]
  /\ pc' = "execute"
  /\ UNCHANGED <<surface, index, registry, step>>

\* _run_step up to the sampled reaction.
Select ==
  /\ pc = "idle" /\ step < NSteps
  /\ \E l \in active : \E r \in leaf[l] :
       /\ Live(l, r)
       /\ event' = [leaf |-> l, dir |-> r.dir, class |-> r.class]
  /\ pc' = "execute"
  /\ UNCHANGED <<surface, index, registry, step>>

\* "zero_total_rate".
Stop ==
  /\ pc = "idle" /\ step < NSteps
  /\ \A l \in active : \A r \in leaf[l] : ~Live(l, r)
  /\ pc' = "stopped"
  /\ UNCHANGED <<surface, index, registry, event, step>>

Complete ==
  /\ pc = "idle" /\ step = NSteps
  /\ pc' = "complete"
  /\ UNCHANGED <<surface, index, registry, event, step>>

\* The tests execute_reaction makes before it touches the graph.
Executable(l, d) ==
  /\ Sources(l, d) \subseteq occ
  /\ Targets(l, d) \cap occ = {}
  /\ d = "adsorption" => ~Blocked({l}, {l}, bucket)
  /\ l \in Bonds => ~ShareClique(EndA[l], EndB[l])

\* Mutant: a vacated placement stays in its cliques' buckets.
VacateNothing(b, M) == b

\* _set_member_occupied over the sources, then over the targets.
Vacate(b, M) == [c \in Cliques |-> b[c] \ {m \in M : c \in CliquesOf[m]}]
Fill(b, M) == [c \in Cliques |-> b[c] \cup {m \in M : c \in CliquesOf[m]}]

\* execute_reaction; it raises "stale ... reaction" when the index offered
\* what the surface does not allow.
Execute ==
  /\ pc = "execute"
  /\ LET l == event.leaf
         d == event.dir
     IN IF Executable(l, d)
        THEN /\ occ' = After(l, d, occ)
             /\ bucket' = Fill(Vacate(bucket, Sources(l, d)), Targets(l, d))
             /\ pc' = "recompute"
        ELSE UNCHANGED surface /\ pc' = "stale"
  /\ UNCHANGED <<index, registry, event, step>>

\* Mutant: only the cliques themselves, no lateral shells.
AffectedWithoutShells(l) ==
  {k \in active : AtomsOf(Endpoints(k)) \cap AtomsOf(Endpoints(l)) # {}}

\* The indexed leaves within reach of the cliques the event touched.
Affected(l) ==
  {k \in active : AtomsOf(Endpoints(k)) \cap Around(AtomsOf(Endpoints(l))) # {}}

Recompute ==
  /\ pc = "recompute"
  /\ LET R == Affected(event.leaf)
     IN \E v \in Judgements(R) :
          /\ verdict' = v
          /\ leaf' = [l \in Leaves |-> Installed(l, R, v)]
  /\ pc' = IF event.leaf \in Bonds THEN "expand" ELSE "record"
  /\ UNCHANGED <<surface, active, registry, event, step>>

Produced(l, d) ==
  IF d = "couple" THEN {ProductOf[l]}
  ELSE {SpeciesOf[EndA[l]], SpeciesOf[EndB[l]]}

HopSpecies(h) == SpeciesOf[EndA[h]]
TemplateOf(b) == {SpeciesOf[EndA[b]], SpeciesOf[EndB[b]], ProductOf[b]}

\* Nothing left to discover for the species P.
FullyExpanded(P) ==
  /\ P \subseteq expanded
  /\ FindDiffusion => \A h \in Hops \ active : HopSpecies(h) \notin P \cap known

ExpandNothing ==
  /\ pc = "expand"
  /\ FullyExpanded(Produced(event.leaf, event.dir))
  /\ pc' = "record"
  /\ UNCHANGED <<surface, index, registry, event, step>>

\* Mutant: sites of species other than the produced ones are not activated.
NewMembersOfProducts(P, built) ==
  {m \in Members \ active : SpeciesOf[m] \in P \cap (known \cup built)}

\* The registered sites to activate: newly built, or of a produced species.
NewMembers(P, built) ==
  {m \in Members \ active : SpeciesOf[m] \in built \cup (P \cap known)}

\* The hops diffusion discovery finds for the species S.
NewHops(S) == {h \in Hops \ active : FindDiffusion /\ HopSpecies(h) \in S}

\* The bonds of the templates centred on the species fresh.
NewBonds(fresh, all) ==
  {b \in Bonds \ active : TemplateOf(b) \subseteq all /\ TemplateOf(b) \cap fresh # {}}

\* DynamicNetworkExpander.expand: built are the species whose reactant and
\* sites this expansion constructs, partners the known species its templates
\* also refer to, kept the new bond sites that survive pruning.
Expand ==
  /\ pc = "expand"
  /\ LET P == Produced(event.leaf, event.dir)
         fresh == P \ expanded
     IN /\ ~FullyExpanded(P)
        /\ \E built \in SUBSET (IF fresh = {} THEN {} ELSE Species \ known) :
           \E partners \in SUBSET (IF fresh = {} THEN {} ELSE known) :
             LET all == known \cup built
                 bonds == NewBonds(fresh, all)
             IN \E kept \in SUBSET {SiteOf[b] : b \in bonds} :
                  LET R == NewMembers(P, built)
                           \cup NewHops((P \cap all) \cup built \cup partners)
                           \cup {b \in bonds : SiteOf[b] \in kept}
                  IN \E v \in Judgements(R) :
                       /\ active' = active \cup R
                       /\ verdict' = v
                       /\ leaf' = [l \in Leaves |-> Installed(l, R, v)]
                       /\ known' = all
                       /\ expanded' = expanded \cup P
  /\ pc' = "record"
  /\ UNCHANGED <<surface, event, step>>

\* An evaluation, a growth step or a calculator raises: the session ends.
Fail ==
  /\ pc \in {"start", "recompute", "expand"}
  /\ pc' = "failed"
  /\ UNCHANGED <<surface, index, registry, event, step>>

\* Mutant: the step is not counted.
RecordNotCounted ==
  /\ pc = "record"
  /\ event' = NoEvent
  /\ pc' = "idle"
  /\ UNCHANGED <<surface, index, registry, step>>

\* outputs.record_event and finish_step.
Record ==
  /\ pc = "record"
  /\ step' = step + 1
  /\ event' = NoEvent
  /\ pc' = "idle"
  /\ UNCHANGED <<surface, index, registry>>

Ended == {"complete", "stopped", "failed", "stale"}

Terminated == pc \in Ended /\ UNCHANGED vars

Next ==
  \/ Initialise \/ Select \/ Stop \/ Complete
  \/ Execute \/ Recompute
  \/ ExpandNothing \/ Expand \/ Fail \/ Record
  \/ Terminated

Spec == Init /\ [][Next]_vars

\* A session is one thread of control: it goes on while it can.
FairSpec == Spec /\ WF_vars(Next)

-----------------------------------------------------------------------------
(***************************************************************************)
(* Properties.                                                             *)
(***************************************************************************)

TypeOK ==
  /\ occ \subseteq Members
  /\ bucket \in [Cliques -> SUBSET Members]
  /\ active \subseteq Leaves
  /\ leaf \in [Leaves -> SUBSET Reactions]
  /\ verdict \in [Classes -> Verdicts]
  /\ known \subseteq Species /\ expanded \subseteq Species
  /\ event \in [leaf : Leaves, dir : AllDirections, class : Classes] \cup {NoEvent}
  /\ step \in 0 .. NSteps
  /\ pc \in {"start", "idle", "execute", "recompute", "expand", "record"} \cup Ended

\* Two adsorbates never claim the same exact clique, although execute_reaction
\* tests the cliques of an adsorption only: hops and bond events rely on the
\* freshness of the index.
Exclusion == Exclusive(occ)

\* The reverse index every blocking test reads is the one a scan of the graph
\* would build, after any sequence of hops, couplings and dissociations.
OccupancyIndexAgrees ==
  \A c \in Cliques : bucket[c] = {m \in occ : c \in CliquesOf[m]}

\* Incremental recomputation is equivalent to a sweep of the whole network:
\* between two steps every leaf holds what evaluating it now would return,
\* down to the lateral class of its surroundings, and nothing is installed on
\* a leaf that is not indexed.
IndexFresh ==
  pc = "idle" => \A l \in Leaves :
    leaf[l] = IF l \in active THEN Offer(l, occ, bucket, verdict) ELSE {}

\* No event is missing from the index for want of a calculation or of an
\* installation: every event the occupancy allows on an indexed leaf is on
\* its leaf, in the class of its present surroundings, unless this class was
\* rejected or found composite.
NoEventOverlooked ==
  pc = "idle" => \A l \in active : \A d \in Directions(l) :
    Applicable(l, d, occ, bucket) =>
      LET c == LateralClass(l, occ)
      IN  verdict[c] \in {"rejected", "composite"} \/ [dir |-> d, class |-> c] \in leaf[l]

\* execute_reaction never meets a stale reaction.
NeverStale == pc # "stale"

\* Microscopic reversibility: once the step of an event is complete, the
\* reverse event is in the index with the same lateral class, hence with the
\* energies detailed balance asks for, unless the class was found composite.
Reversible ==
  pc = "record" =>
    \/ verdict[event.class] = "composite"
    \/ [dir |-> Reverse(event.dir), class |-> event.class] \in leaf[event.leaf]

\* Matter on the surface can always move again: an occupied placement is
\* indexed, and so are all the placements an indexed hop or bond can fill.
PlacementsIndexed ==
  /\ occ \subseteq active
  /\ \A l \in active : Endpoints(l) \subseteq active

\* The engine implements the lattice gas.
Gas == INSTANCE LatticeGas
ImplementsLatticeGas == Gas!Spec

\* A session of n_steps steps ends, whatever is sampled and calculated.
SessionEnds == <>(pc \in Ended)
=============================================================================
