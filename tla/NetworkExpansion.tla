-------------------------- MODULE NetworkExpansion --------------------------
(***************************************************************************)
(* The reaction network of a run: discovered before the run for the feed   *)
(* and the leaves of its templates (workflow/network.py), and extended     *)
(* after a bond event for each species the event produced                  *)
(* (kmc/expansion.py, kmc/network.py).  An expansion is a sequence of      *)
(* stages - gas reference, placements, templates, leaves, hops, bond       *)
(* sites, activation - each of which is tried again after a transient      *)
(* failure and ends the run when it fails for good.                        *)
(***************************************************************************)
EXTENDS SurfaceSites, Sequences, Bags, SequencesExt

CONSTANTS
    Feed,            \* reactants of the configuration
    Cleavages,       \* templates <<A, B, C>> with C -> A + B from its bonds
    Combinations,    \* templates <<A, B, C>> with A + B -> C
    GasUnstable,     \* species whose gas relaxation changes their bonds
    Undefined,       \* labels without a legal molecule
    MaxAttempts,     \* _EXPANSION_MAX_ATTEMPTS
    DiffusionChoices \* diffusion.enabled

ASSUME NetworkAssumption ==
    /\ Feed \subseteq Species
    /\ Cleavages \cup Combinations \subseteq Species \X Species \X Species
    /\ IsFiniteSet(Cleavages \cup Combinations)
    /\ "none" \notin Species
    /\ MaxAttempts \in Nat \ {0}
    /\ DiffusionChoices \subseteq BOOLEAN

VARIABLES
    diffusion,   \* diffusion.enabled of this run
    known,       \* reg["species"] with a reactant
    excluded,    \* reg["species"] with None
    placed,      \* reg["adsorbate_sites"]: species -> its iso-classes
    nodes,       \* adsorbate nodes and their reverse index, as a bag
    hops,        \* diffusion store: species -> hop classes
    hopIndex,    \* reverse index of the hops, as a bag
    bonds,       \* bond store; the position of a class is its iso_class
    bondIndex,   \* reverse index of the bond sites, as a bag
    templates,   \* reg["templates"]
    expanded,    \* reg["expanded_species"]
    active,      \* sites in the reaction index, a bag for each kind
    onSurface,   \* species the run has had on the surface
    job          \* the expansion in progress

registry == <<known, excluded, placed, templates, expanded>>
hopStore == <<hops, hopIndex>>
bondStore == <<bonds, bondIndex>>
vars == <<diffusion, registry, nodes, hopStore, bondStore, active, onSurface, job>>

Leaves(placements, hopClasses, bondClasses) ==
    [placements |-> SetToBag(placements), hops |-> SetToBag(hopClasses),
     bonds |-> SetToBag(bondClasses)]

SpeciesOf(t) == {t[1], t[2], t[3]}
SitesPlaced == UNION {placed[s] : s \in DOMAIN placed}
HopsFound(store) == UNION {store[s] : s \in DOMAIN store}

\* What is found for further species is added to what is registered.
Merged(store, more) ==
    [s \in DOMAIN store \cup DOMAIN more |->
        IF s \in DOMAIN store THEN store[s] ELSE more[s]]

(***************************************************************************)
(* Templates.                                                              *)
(***************************************************************************)
\* derive_dissociation_templates for one species.
Dissociations(s) == {t \in Cleavages : t[3] = s}

\* derive_coupling_templates: A + A when both labels are the same.
Couplings(s, z) == {t \in Combinations : {t[1], t[2]} = {s, z}}

\* The templates of a species being expanded that are not registered yet.
DerivedTemplates(s) ==
    (Dissociations(s) \cup UNION {Couplings(s, z) : z \in known}) \ templates

\* derive_configured_bond_templates: the templates of the feed.
TemplatesAmong(ss) ==
    (UNION {Dissociations(s) : s \in ss}) \cup (UNION {Couplings(s, z) : s, z \in ss})
ConfiguredTemplates == TemplatesAmong(Feed)

\* filter_unavailable_templates.
Viable(ts, unavailable) == {t \in ts : SpeciesOf(t) \cap unavailable = {}}

(***************************************************************************)
(* Discovery before the run.  An undefined leaf would end the run here.    *)
(***************************************************************************)
InitialSpecies == Feed \cup UNION {SpeciesOf(t) : t \in ConfiguredTemplates}
InitialKnown == InitialSpecies \ GasUnstable
InitialTemplates == Viable(ConfiguredTemplates, InitialSpecies \cap GasUnstable)
InitialPlaced ==
    [s \in InitialSpecies |-> IF s \in InitialKnown THEN StableSites(s) ELSE {}]
InitialSites == UNION {InitialPlaced[s] : s \in InitialSpecies}
InitialHops ==
    [s \in {x \in InitialSpecies : InitialPlaced[x] # {}} |->
        FindHops(InitialPlaced[s], TRUE)]
InitialBonds == SetToSeq(EnumerateBonds(InitialTemplates, InitialSites))

\* The expansion in progress: the produced species still to expand, what the
\* event produced, the placements registered before it and the bond sites
\* found since; then, for the species being expanded, the species its stage
\* still needs, its templates, the species it could not get, the species whose
\* hops are due, and the failed attempts at the present subject.
None == "none"
Idle ==
    [stage |-> "ready", queue |-> <<>>, produced |-> {}, before |-> {},
     found |-> <<>>, leaves |-> FALSE, need |-> {}, ts |-> {}, lacking |-> {},
     spread |-> {}, subject |-> None, attempt |-> 0]

\* The placements of the feed alone are active at first; every hop and every
\* bond site is.
Init ==
    /\ InitialSpecies \cap Undefined = {}
    /\ diffusion \in DiffusionChoices
    /\ known = InitialKnown
    /\ excluded = InitialSpecies \cap GasUnstable
    /\ placed = InitialPlaced
    /\ nodes = SetToBag(InitialSites)
    /\ hops = IF diffusion THEN InitialHops ELSE <<>>
    /\ hopIndex = SetToBag(HopsFound(hops))
    /\ bonds = InitialBonds
    /\ bondIndex = SetToBag(ToSet(InitialBonds))
    /\ templates = InitialTemplates
    /\ expanded = Feed
    /\ active = Leaves(UNION {InitialPlaced[s] : s \in Feed},
                       HopsFound(hops), ToSet(InitialBonds))
    /\ onSurface = Feed
    /\ job = Idle

(***************************************************************************)
(* A bond event.                                                           *)
(***************************************************************************)
\* _produced_species.
Produced(t, direction) ==
    IF direction = "couple" THEN <<t[3]>> ELSE <<t[1], t[2]>>
Consumed(t, direction) ==
    IF direction = "couple" THEN {t[1], t[2]} ELSE {t[3]}

\* _pending_diffusion_sites.
PendingHops(ss) ==
    IF diffusion
    THEN {s \in ss \cap DOMAIN placed : placed[s] # {} /\ s \notin DOMAIN hops}
    ELSE {}

\* _needs_diffusion.
NeedsDiffusion(ss) ==
    diffusion /\ \/ PendingHops(ss) # {}
                 \/ \E s \in ss \cap DOMAIN hops : \E h \in hops[s] :
                       ~BagIn(h, active.hops)

\* DynamicNetworkExpander.expand up to its shortcut.
Fire(t, direction) ==
    LET produced == ToSet(Produced(t, direction))
        skip == produced \subseteq expanded /\ ~NeedsDiffusion(produced)
    IN /\ job = Idle
       /\ Consumed(t, direction) \subseteq onSurface
       /\ onSurface' = onSurface \cup produced
       /\ job' = IF skip THEN Idle
                 ELSE [Idle EXCEPT !.stage = "expand",
                                   !.queue = Produced(t, direction),
                                   !.produced = produced,
                                   !.before = SitesPlaced]
       /\ UNCHANGED <<diffusion, registry, nodes, hopStore, bondStore, active>>

(***************************************************************************)
(* Stages.  An operation that raises is tried again, until the attempts    *)
(* are spent or the error is one no retry can mend.                        *)
(***************************************************************************)
\* expand_bond_sites_after_event expands the produced species in turn.
Current == Head(job.queue)

\* A species already expanded only has its missing hops looked for.
BeginExpanded ==
    /\ job.stage = "expand" /\ job.queue # <<>> /\ Current \in expanded
    /\ job' = [job EXCEPT !.stage = "hops", !.spread = {Current}]
    /\ UNCHANGED <<diffusion, registry, nodes, hopStore, bondStore, active, onSurface>>

BeginNew ==
    /\ job.stage = "expand" /\ job.queue # <<>> /\ Current \notin expanded
    /\ job' = [job EXCEPT !.stage = "species", !.need = {Current}]
    /\ UNCHANGED <<diffusion, registry, nodes, hopStore, bondStore, active, onSurface>>

\* The present species is done; the queue moves on.
Finished(found) ==
    [Idle EXCEPT !.stage = "expand", !.queue = Tail(job.queue),
                 !.produced = job.produced, !.before = job.before,
                 !.found = job.found \o found]

\* One more failed attempt of _retry_expansion_operation.
Failed(s) ==
    IF job.attempt + 1 < MaxAttempts
    THEN [job EXCEPT !.subject = s, !.attempt = @ + 1]
    ELSE [Idle EXCEPT !.stage = "failed"]

\* CalculatorConfigError and ImportError are not retried.
Raised(s) == {Failed(s), [Idle EXCEPT !.stage = "failed"]}

\* _ensure_species_known works on one species until it is done with it.
Ensuring(s) ==
    /\ job.stage = "species"
    /\ s \in job.need
    /\ job.subject \in {None, s}

Ensured(s) == [job EXCEPT !.need = @ \ {s}, !.subject = None, !.attempt = 0]
Lacked(s) == [Ensured(s) EXCEPT !.lacking = @ \cup {s}]

AlreadyKnown(s) ==
    /\ Ensuring(s) /\ s \in known /\ s \in DOMAIN placed
    /\ job' = Ensured(s)
    /\ UNCHANGED <<diffusion, registry, nodes, hopStore, bondStore, active, onSurface>>

AlreadyExcluded(s) ==
    /\ Ensuring(s) /\ s \in excluded
    /\ job' = Lacked(s)
    /\ UNCHANGED <<diffusion, registry, nodes, hopStore, bondStore, active, onSurface>>

\* build_reactant succeeds: the species is registered before its placements.
BuildReactant(s) ==
    /\ Ensuring(s) /\ s \notin known \cup excluded
    /\ s \notin GasUnstable \cup Undefined
    /\ known' = known \cup {s}
    /\ job' = [job EXCEPT !.subject = s, !.attempt = 0]
    /\ UNCHANGED <<diffusion, excluded, placed, templates, expanded, nodes,
                   hopStore, bondStore, active, onSurface>>

\* A molecule that is illegal, or unstable in the gas, is excluded for good.
RejectSpecies(s) ==
    /\ Ensuring(s) /\ s \notin known \cup excluded
    /\ s \in GasUnstable \cup Undefined
    /\ excluded' = excluded \cup {s}
    /\ placed' = Merged(placed, [x \in {s} |-> {}])
    /\ job' = Lacked(s)
    /\ UNCHANGED <<diffusion, known, templates, expanded, nodes, hopStore,
                   bondStore, active, onSurface>>

BuildRaises(s) ==
    /\ Ensuring(s) /\ s \notin known \cup excluded
    /\ job' \in Raised(s)
    /\ UNCHANGED <<diffusion, registry, nodes, hopStore, bondStore, active, onSurface>>

\* find_adsorbate_sites drops the nodes of the species before it adds its own.
OtherNodes(s) ==
    [c \in {x \in DOMAIN nodes : x.species # s} |-> nodes[c]]
Materialised(s, sites) == OtherNodes(s) (+) SetToBag(sites)

FindPlacements(s) ==
    /\ Ensuring(s) /\ s \in known /\ s \notin DOMAIN placed
    /\ placed' = Merged(placed, [x \in {s} |-> StableSites(s)])
    /\ nodes' = Materialised(s, StableSites(s))
    /\ job' = Ensured(s)
    /\ UNCHANGED <<diffusion, known, excluded, templates, expanded, hopStore,
                   bondStore, active, onSurface>>

\* It raises before or after it has materialised its candidates, with some of
\* the unstable ones already pruned.
PlacementsRaise(s) ==
    /\ Ensuring(s) /\ s \in known /\ s \notin DOMAIN placed
    /\ \E pruned \in SUBSET (CandidateSites(s) \ StableSites(s)) :
          nodes' \in {OtherNodes(s),
                      Materialised(s, CandidateSites(s) \ pruned)}
    /\ job' \in Raised(s)
    /\ UNCHANGED <<diffusion, registry, hopStore, bondStore, active, onSurface>>

\* A produced species is always to be had: the event that produced it came
\* from a bond site, and those are enumerated for available species only.
DeriveTemplates ==
    /\ job.stage = "species" /\ job.need = {} /\ ~job.leaves
    /\ LET ts == DerivedTemplates(Current)
           needed == UNION {SpeciesOf(t) : t \in ts}
       IN job' = [job EXCEPT !.ts = ts, !.need = needed, !.leaves = TRUE,
                             !.spread = {Current} \cup needed]
    /\ UNCHANGED <<diffusion, registry, nodes, hopStore, bondStore, active, onSurface>>

FilterTemplates ==
    /\ job.stage = "species" /\ job.need = {} /\ job.leaves
    /\ job' = [job EXCEPT !.stage = "hops", !.ts = Viable(@, job.lacking)]
    /\ UNCHANGED <<diffusion, registry, nodes, hopStore, bondStore, active, onSurface>>

(***************************************************************************)
(* Hops and bond sites.  The enumerators replace the stores of the graph;  *)
(* the caller merges what they return with what was there, and puts the    *)
(* previous stores back when they raise.                                   *)
(***************************************************************************)
NoHopsDue ==
    /\ job.stage = "hops" /\ PendingHops(job.spread) = {}
    /\ job' = [job EXCEPT !.stage = "bonds"]
    /\ UNCHANGED <<diffusion, registry, nodes, hopStore, bondStore, active, onSurface>>

NewHops == [s \in PendingHops(job.spread) |-> FindHops(placed[s], TRUE)]

FindDiffusion ==
    /\ job.stage = "hops" /\ PendingHops(job.spread) # {}
    /\ hops' = Merged(hops, NewHops)
    /\ hopIndex' = hopIndex (+) SetToBag(HopsFound(NewHops))
    /\ job' = [job EXCEPT !.stage = "bonds", !.subject = None, !.attempt = 0]
    /\ UNCHANGED <<diffusion, registry, nodes, bondStore, active, onSurface>>

HopsAfterFailure == hopStore

DiffusionRaises ==
    /\ job.stage = "hops" /\ PendingHops(job.spread) # {}
    /\ hops' = HopsAfterFailure[1]
    /\ hopIndex' = HopsAfterFailure[2]
    /\ job' \in Raised(Current)
    /\ UNCHANGED <<diffusion, registry, nodes, bondStore, active, onSurface>>

NoNewTemplates ==
    /\ job.stage = "bonds" /\ job.ts = {}
    /\ expanded' = expanded \cup {Current}
    /\ job' = Finished(<<>>)
    /\ UNCHANGED <<diffusion, known, excluded, placed, templates, nodes,
                   hopStore, bondStore, active, onSurface>>

NewBonds == SetToSeq(EnumerateBonds(job.ts, SitesPlaced))

\* The new classes are numbered after the old; the templates and the species
\* are marked last.
FindBondSites ==
    /\ job.stage = "bonds" /\ job.ts # {}
    /\ bonds' = bonds \o NewBonds
    /\ bondIndex' = bondIndex (+) SetToBag(ToSet(NewBonds))
    /\ templates' = templates \cup job.ts
    /\ expanded' = expanded \cup {Current}
    /\ job' = Finished(NewBonds)
    /\ UNCHANGED <<diffusion, known, excluded, placed, nodes, hopStore,
                   active, onSurface>>

\* Plausible slip: what the enumerator has written is left on the graph.
OverwrittenBonds == <<NewBonds, SetToBag(ToSet(NewBonds))>>
BondsAfterFailure == bondStore

BondSitesRaise ==
    /\ job.stage = "bonds" /\ job.ts # {}
    /\ bonds' = BondsAfterFailure[1]
    /\ bondIndex' = BondsAfterFailure[2]
    /\ job' \in Raised(Current)
    /\ UNCHANGED <<diffusion, registry, nodes, hopStore, active, onSurface>>

(***************************************************************************)
(* Activation: rates of the new sites, then leaves in the reaction index.  *)
(***************************************************************************)
Inactive(sites, leaves) == {x \in sites : ~BagIn(x, leaves)}

\* _new_adsorbate_sites: what this expansion registered, and the leaves known
\* before the run which the event produced for the first time.
NewPlacements ==
    {c \in Inactive(SitesPlaced, active.placements) : c \notin job.before \/ c.species \in job.produced}

\* _new_diffusion_sites, and the unseen of the bond sites just found.
NewHopSites == Inactive(HopsFound(hops), active.hops)
NewBondSites == Inactive(ToSet(job.found), active.bonds)

Activate ==
    /\ job.stage = "expand" /\ job.queue = <<>>
    /\ active' = [placements |-> active.placements (+) SetToBag(NewPlacements),
                  hops |-> active.hops (+) SetToBag(NewHopSites),
                  bonds |-> active.bonds (+) SetToBag(NewBondSites)]
    /\ job' = Idle
    /\ UNCHANGED <<diffusion, registry, nodes, hopStore, bondStore, onSurface>>

\* A calculation of a rate that raises ends the run.
ActivationRaises ==
    /\ job.stage = "expand" /\ job.queue = <<>>
    /\ NewPlacements # {} \/ NewHopSites # {} \/ NewBondSites # {}
    /\ job' = [Idle EXCEPT !.stage = "failed"]
    /\ UNCHANGED <<diffusion, registry, nodes, hopStore, bondStore, active, onSurface>>

Ensure(s) ==
    \/ AlreadyKnown(s) \/ AlreadyExcluded(s)
    \/ BuildReactant(s) \/ RejectSpecies(s) \/ BuildRaises(s)
    \/ FindPlacements(s) \/ PlacementsRaise(s)

Next ==
    \/ \E t \in {bonds[i].template : i \in DOMAIN bonds} :
          \E direction \in {"couple", "dissoc"} : Fire(t, direction)
    \/ BeginExpanded \/ BeginNew
    \/ \E s \in Species : Ensure(s)
    \/ DeriveTemplates \/ FilterTemplates
    \/ NoHopsDue \/ FindDiffusion \/ DiffusionRaises
    \/ NoNewTemplates \/ FindBondSites \/ BondSitesRaise
    \/ Activate \/ ActivationRaises

Spec == Init /\ [][Next]_vars

(***************************************************************************)
(* Properties.                                                             *)
(***************************************************************************)
\* Each class of a store is in its reverse index once.
Indexed ==
    /\ hopIndex = SetToBag(HopsFound(hops))
    /\ bondIndex = SetToBag(ToSet(bonds))
    /\ IsInjective(bonds)

\* The nodes on the graph are those of the registered placements, once each,
\* however many attempts it took to find them.
NodesPlaced == nodes = SetToBag(SitesPlaced)

\* Whatever the order in which two species were expanded, the templates
\* between them are registered, but for those that need an excluded species.
TemplatesComplete ==
    Viable(TemplatesAmong(expanded \cap known), excluded) \subseteq templates

\* Each adsorption triple of a registered template with a stable class has
\* exactly one class in the store, a stable one.
TriplesRepresented ==
    \A t \in templates :
        LET stable == StableBonds(FindBonds(t, SitesPlaced))
            kept == {b \in ToSet(bonds) : b.template = t}
        IN /\ kept \subseteq stable
           /\ \A b \in stable :
                 Cardinality({k \in kept : TripleKey(k) = TripleKey(b)}) = 1

HopsSearched ==
    diffusion => \A s \in DOMAIN placed : placed[s] # {} => s \in DOMAIN hops

\* The reaction index holds every hop and every bond site, and the placements
\* of every species but the leaves known from the start and never produced.
Activated ==
    LET waiting == InitialSpecies \ onSurface
    IN active = Leaves(UNION {placed[s] : s \in DOMAIN placed \ waiting},
                       HopsFound(hops), ToSet(bonds))

\* NetworkConsistent: the reverse indexes always agree with the stores, also
\* after a failed attempt, and between two events the network is complete for
\* the species expanded and active for the species seen on the surface
\* (kmc/expansion.py, kmc/network.py).
NetworkConsistent ==
    /\ Indexed
    /\ job = Idle => /\ NodesPlaced
                     /\ TemplatesComplete
                     /\ TriplesRepresented
                     /\ HopsSearched
                     /\ Activated

\* SitesKept: no step, failed attempts included, loses a placement, a hop or
\* a bond site found before, renumbers a bond site, or deactivates a site
\* ("keep the previous usable network intact across retries and failures",
\* kmc/expansion.py).
SitesKept ==
    [][ /\ IsPrefix(bonds, bonds')
        /\ \A s \in DOMAIN hops : s \in DOMAIN hops' /\ hops'[s] = hops[s]
        /\ \A s \in DOMAIN placed : s \in DOMAIN placed' /\ placed'[s] = placed[s]
        /\ \A kind \in DOMAIN active : active[kind] \sqsubseteq active'[kind] ]_vars
=============================================================================
