---------------------------- MODULE SurfaceSites ----------------------------
(***************************************************************************)
(* Enumeration of sites: the placements of a molecule on the surface       *)
(* (sites/adsorbate.py), the hops between two of them (sites/diffusion.py) *)
(* and the A + B <-> C triples of a bond template (sites/bond.py), each    *)
(* merged into iso-classes and pruned.  The surface is a ring of N atoms;  *)
(* an anchor sits on top of an atom (an even position) or on the bridge    *)
(* between two (an odd one).  Two placements have isomorphic surroundings  *)
(* when a symmetry of the ring maps one to the other, so an iso-class is   *)
(* an orbit.  What the calculator says of a geometry is a constant.        *)
(***************************************************************************)
EXTENDS Integers, FiniteSets, FiniteSetsExt

CONSTANTS
    N,                    \* atoms of the surface ring
    Species,              \* canonical labels
    Bonded,               \* species -> the inequivalent sets of bound anchors
    Spacing,              \* species -> distance of neighbouring anchors
    BondTolerance,        \* bond_tolerance, in the same half steps
    MaxHops,              \* max_hops / bond_max_hops
    MaxPairShells,        \* max_pair_shells
    Unstable,             \* placements whose bonds change when they relax
    UnstablePairs         \* pairs of placements that do so side by side

ASSUME SurfaceAssumption ==
    /\ N \in Nat \ {0}
    /\ Bonded \in [Species -> SUBSET SUBSET Nat]
    /\ \A s \in Species : IsFiniteSet(Bonded[s]) /\ \A sub \in Bonded[s] : IsFiniteSet(sub)
    /\ Spacing \in [Species -> Nat]

Positions == 0 .. 2 * N - 1

\* The surface atoms an anchor at position p is bound to.
Clique(p) ==
    IF p % 2 = 0 THEN {p \div 2} ELSE {p \div 2, (p \div 2 + 1) % N}

Apart(p, q, around) == Min({(p - q) % around, (q - p) % around})

HopsApart(A, B) == Min({Apart(a, b, N) : a \in A, b \in B})

\* A placement is a species and the position of each bound anchor.
CliquesOf(p) == {Clique(p.at[i]) : i \in DOMAIN p.at}
CliqueUnion(p) == UNION CliquesOf(p)

\* The bound anchors keep the molecule's own distances, no two share a
\* clique and all of them lie within one connected patch.
Fits(s, at) ==
    /\ \A i, j \in DOMAIN at : i < j =>
          LET gap == Apart(at[i], at[j], 2 * N) - (j - i) * Spacing[s]
          IN /\ Clique(at[i]) # Clique(at[j])
             /\ gap \in -BondTolerance .. BondTolerance
    /\ \A i, j \in DOMAIN at :
          HopsApart(Clique(at[i]), Clique(at[j])) <= MaxPairShells

Placements(s) ==
    UNION {{[species |-> s, at |-> at] :
               at \in {f \in [sub -> Positions] : Fits(s, f)}} :
           sub \in Bonded[s] \ {{}}}

\* The symmetries of the ring: rotations by whole atoms, and reflections.
Symmetries == (0 .. N - 1) \X {1, -1}
Image(p, g) ==
    [p EXCEPT !.at =
        [i \in DOMAIN p.at |-> (g[2] * p.at[i] + 2 * g[1]) % (2 * N)]]

\* The iso-class of a placement.
SiteOf(p) == [species |-> p.species, members |-> {Image(p, g) : g \in Symmetries}]

\* find_adsorbate_sites before pruning: every placement in its iso-class.
CandidateSites(s) == {SiteOf(p) : p \in Placements(s)}

\* prune_unstable_adsorbate_sites: the classes whose relaxed representative
\* keeps the intended bonds.
StableSites(s) == {c \in CandidateSites(s) : c.members \cap Unstable = {}}

(***************************************************************************)
(* Hops: unordered pairs of placements of one species.                     *)
(***************************************************************************)
HopClass(pq) == {{Image(p, g) : p \in pq} : g \in Symmetries}

CandidateHops(sites) ==
    LET members == UNION {c.members : c \in sites}
    IN {HopClass(pq) : pq \in
          {{pair[1], pair[2]} : pair \in
             {x \in members \X members :
                /\ x[1] # x[2]
                /\ HopsApart(CliqueUnion(x[1]), CliqueUnion(x[2])) <= MaxHops}}}

EndSites(hop) == LET pq == CHOOSE pq \in hop : TRUE IN {SiteOf(p) : p \in pq}

HopLength(hop) ==
    LET pq == CHOOSE pq \in hop : TRUE
    IN Max({HopsApart(CliqueUnion(p), CliqueUnion(q)) : p, q \in pq})

\* _prune_one_per_adsorption_pair: the most direct hop of each pair of sites.
OnePerPair(hops) ==
    {CHOOSE h \in same : \A k \in same : HopLength(h) <= HopLength(k) :
        same \in {{k \in hops : EndSites(k) = EndSites(h)} : h \in hops}}

\* find_diffusion_sites for the placements of one species.
FindHops(sites, onePerPair) ==
    IF onePerPair THEN OnePerPair(CandidateHops(sites)) ELSE CandidateHops(sites)

(***************************************************************************)
(* Bond sites: A and B near each other on different cliques, and C near    *)
(* them; a product without placements is taken from the gas.  A template   *)
(* is <<A, B, C>>; A and B are unordered, as in a symmetric template.      *)
(***************************************************************************)
Gas(s) == [species |-> s, at |-> <<>>]

\* The placements of a species on the graph.
OfSpecies(sites, s) == {c \in sites : c.species = s}
MembersOf(sites, s) == UNION {c.members : c \in OfSpecies(sites, s)}

Triples(t, sites) ==
    LET products == MembersOf(sites, t[3])
    IN {m \in {[ab |-> {a, b}, c |-> c] : a \in MembersOf(sites, t[1]),
                                          b \in MembersOf(sites, t[2]),
                                          c \in products \cup {Gas(t[3])}} :
          /\ Cardinality(m.ab) = 2
          /\ (m.c = Gas(t[3])) <=> (products = {})
          /\ \E a \in m.ab : \E b \in m.ab \ {a} :
                /\ HopsApart(CliqueUnion(a), CliqueUnion(b)) <= MaxHops
                /\ CliquesOf(a) \cap CliquesOf(b) = {}
          /\ products # {} =>
                /\ m.c \notin m.ab
                /\ HopsApart(UNION {CliqueUnion(p) : p \in m.ab}, CliqueUnion(m.c))
                      <= MaxHops}

BondClass(t, m) ==
    [template |-> t,
     members |-> {[ab |-> {Image(p, g) : p \in m.ab}, c |-> Image(m.c, g)] :
                     g \in Symmetries}]

\* find_bond_sites for one template, before any pruning.
FindBonds(t, sites) == {BondClass(t, m) : m \in Triples(t, sites)}

Reactants(bond) == (CHOOSE m \in bond.members : TRUE).ab

\* The adsorption triple of a bond class: the sites of A, of B and of C.
TripleKey(bond) ==
    LET m == CHOOSE m \in bond.members : TRUE
    IN <<bond.template, {SiteOf(p) : p \in m.ab}, SiteOf(m.c)>>

\* The size of the surroundings: how far apart the three placements lie.
EgoSize(bond) ==
    LET m == CHOOSE m \in bond.members : TRUE
        all == m.ab \cup (IF m.c.at = <<>> THEN {} ELSE {m.c})
    IN N * Max({HopsApart(CliqueUnion(p), CliqueUnion(q)) : p, q \in m.ab})
       + Cardinality(UNION {CliqueUnion(p) : p \in all})

\* prune_unstable_bond_sites: the first member stands for its class.
StableBonds(bonds) == {b \in bonds : Reactants(b) \notin UnstablePairs}

\* _prune_one_per_adsorption_triple.
OnePerTriple(bonds) ==
    {CHOOSE b \in same : \A k \in same : EgoSize(b) <= EgoSize(k) :
        same \in {{k \in bonds : TripleKey(k) = TripleKey(b)} : b \in bonds}}

\* Plausible slip: the smallest class of a triple is chosen before anything is
\* known of its stability.
SmallestFirst(ts, sites) ==
    StableBonds(OnePerTriple(UNION {FindBonds(t, sites) : t \in ts}))

\* The order of the stages: stability first, so that a stable class is never
\* given up for a smaller unstable one.
EnumerateBonds(ts, sites) ==
    OnePerTriple(StableBonds(UNION {FindBonds(t, sites) : t \in ts}))
=============================================================================
