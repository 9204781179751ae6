-------------------------- MODULE ReactionIndex --------------------------
(* The engine's flat list of reactions and the tree of their rates, kmc/index.py.
   Every member of every site owns a leaf, in the order in which the sites
   were added; a leaf holds a reaction or nothing.  Sites are added while the
   simulation runs, single members are installed after a refresh, whole sites
   after a sweep.  A class that an evaluation finds composite is suppressed:
   its reactions never carry a rate again.

   KmcEngine abstracts this component to a function from leaves to events; here
   are the positions, the batches and the sums. *)
EXTENDS RateSegmentTree, Sequences, SequencesExt

CONSTANTS
    Sites,          \* the sites the network may come to hold
    Members,        \* number of members of a site
    ClassOf,        \* the lateral class of a member of a site, <<site, member>> -> class
    Channel,        \* site -> 1, 2 or 3: adsorption, diffusion, bond
    Ends,           \* site -> the sites its events end on
    DirectSites,    \* sites of direct events, the ones whose classes may be composite
    ReactionRates,  \* rates an applicable reaction may have
    MaxNew,         \* bound: how many sites are added at once
    Mixed           \* bound: whether the members of a site in a batch may offer different rates

ASSUME SitesAssumption ==
    /\ Members \in [Sites -> Nat]
    /\ Channel \in [Sites -> 1..3]
    /\ Ends \in [Sites -> SUBSET Sites]
    /\ DirectSites \subseteq Sites
    /\ ReactionRates \subseteq Nat
    /\ MaxNew \in Nat
    /\ Mixed \in BOOLEAN

(* A lateral class belongs to one site. *)
ASSUME ClassAssumption ==
    \A s, r \in DirectSites : \A m \in 0..(Members[s] - 1), k \in 0..(Members[r] - 1) :
        ClassOf[<<s, m>>] = ClassOf[<<r, k>>] => s = r

NoReaction == [site |-> "none"]

VARIABLES
    base,        \* site added -> its first leaf
    tree,        \* the tree of rates
    reactions,   \* leaf -> the reaction installed there, or NoReaction
    composite    \* classes found composite

vars == <<base, tree, reactions, composite>>

----------------------------------------------------------------------------
MembersOf(s) == 0..(Members[s] - 1)

SiteLeaves(s) == {base[s] + m : m \in MembersOf(s)}

LeafId(s, m) == base[s] + m

(* Reactions of a suppressed class are installed as nothing. *)
Admissible(x, suppressed) ==
    IF x # NoReaction /\ x.site \in DirectSites /\ x.class \in suppressed THEN NoReaction ELSE x

RateOf(x) == IF x = NoReaction THEN 0 ELSE Larger(0, x.rate)

(* What a member may offer: no reaction, or one with any of the rates. *)
Offers(s, m) ==
    {NoReaction} \cup {[site |-> s, class |-> ClassOf[<<s, m>>], rate |-> q] : q \in ReactionRates}

(* The classes an evaluation of a site may find composite. *)
Findings(s) == IF s \in DirectSites THEN {ClassOf[<<s, m>>] : m \in MembersOf(s)} ELSE {}

----------------------------------------------------------------------------
Init ==
    /\ base = [s \in {} |-> 0]
    /\ tree = Empty
    /\ reactions = [i \in {} |-> NoReaction]
    /\ composite = {}

(* extend_sites: new sites with leaves at the end, empty, those of one call
   channel by channel.  A site that is already indexed is refused before
   anything changes.  The callers add a hop or a bond with or after its ends
   (PlacementsIndexed of KmcEngine). *)
ExtendSites(new) ==
    /\ new # << >>
    /\ IsInjective(new)
    /\ \A i, j \in DOMAIN new : i < j => Channel[new[i]] <= Channel[new[j]]
    /\ \A s \in Range(new) : Ends[s] \subseteq DOMAIN base \cup Range(new)
    /\ Range(new) \cap DOMAIN base = {}
    /\ LET end[k \in 0..Len(new)] == IF k = 0 THEN tree.n ELSE end[k - 1] + Members[new[k]]
           n == end[Len(new)]
       IN  /\ base' = [s \in DOMAIN base \cup Range(new) |->
               IF s \in DOMAIN base THEN base[s]
               ELSE end[(CHOOSE k \in DOMAIN new : new[k] = s) - 1]]
           /\ tree' = Grown(tree, n)
           /\ reactions' = [i \in 0..(n - 1) |-> IF i < tree.n THEN reactions[i] ELSE NoReaction]
    /\ UNCHANGED composite

(* install: one member's leaf.  The evaluation before it may have found the
   member's class composite; siblings already installed for a suppressed class
   are then taken out in the same batch. *)
NoSiblings(s, suppressed) == {}      \* mutant: only the member's own leaf is replaced

Siblings(s, suppressed) ==
    IF Findings(s) \cap suppressed = {} THEN {}
    ELSE {i \in SiteLeaves(s) : Admissible(reactions[i], suppressed) = NoReaction}

Install(s, m, x, found) ==
    LET suppressed == composite \cup found
        own == Admissible(x, suppressed)
        leaf == LeafId(s, m)
        cleared == Siblings(s, suppressed) \ {leaf}
        installed == [i \in DOMAIN reactions |->
            IF i = leaf THEN own ELSE IF i \in cleared THEN NoReaction ELSE reactions[i]]
    IN  /\ s \in DOMAIN base
        /\ found \subseteq Findings(s) \cap {ClassOf[<<s, m>>]}
        /\ x \in Offers(s, m)
        /\ composite' = suppressed
        /\ reactions' = installed
        /\ tree' = Updated(tree, [i \in cleared \cup {leaf} |-> RateOf(installed[i])])
        /\ UNCHANGED base

(* install_site, install_sites: every leaf of the given sites is replaced by
   what the sites offer; a batch over all leaves rebuilds the tree. *)
InstallSites(batch, offered, found) ==
    LET suppressed == composite \cup found
        leaves == UNION {SiteLeaves(s) : s \in batch}
        installed == [i \in DOMAIN reactions |->
            IF i \notin leaves THEN reactions[i]
            ELSE LET s == CHOOSE r \in batch : i \in SiteLeaves(r)
                 IN  Admissible(offered[<<s, i - base[s]>>], suppressed)]
        rate == [i \in leaves |-> RateOf(installed[i])]
    IN  /\ batch \subseteq DOMAIN base /\ batch # {}
        /\ found \subseteq UNION {Findings(s) : s \in batch}
        /\ composite' = suppressed
        /\ reactions' = installed
        /\ tree' = IF Cardinality(leaves) = tree.n THEN Built(tree, rate) ELSE Updated(tree, rate)
        /\ UNCHANGED base

(* What the members of a batch of sites may offer.  Leaves of one site that
   differ come from Install if Mixed does not hold. *)
NoRate == -1

MemberPairs(batch) == UNION {{<<s, m>> : m \in MembersOf(s)} : s \in batch}

Offered(batch) ==
    {[p \in MemberPairs(batch) |->
        IF rate[p] = NoRate THEN NoReaction
        ELSE [site |-> p[1], class |-> ClassOf[p], rate |-> rate[p]]] :
     rate \in IF Mixed THEN [MemberPairs(batch) -> ReactionRates \cup {NoRate}]
             ELSE {[p \in MemberPairs(batch) |-> common[p[1]]] : common \in [batch -> ReactionRates \cup {NoRate}]}}

Next ==
    \/ \E new \in UNION {[1..k -> Sites] : k \in 1..MaxNew} : ExtendSites(new)
    \/ \E s \in DOMAIN base : \E m \in MembersOf(s) : \E x \in Offers(s, m) :
         \E found \in SUBSET Findings(s) : Install(s, m, x, found)
    \/ \E batch \in SUBSET DOMAIN base : \E offered \in Offered(batch) :
         \E found \in SUBSET UNION {Findings(s) : s \in batch} : InstallSites(batch, offered, found)

Spec == Init /\ [][Next]_vars

----------------------------------------------------------------------------
(* A resumed session.  A checkpoint keeps the sites of each channel in a list,
   in the order in which they were added; the index of the next session is
   built over the three lists, one after the other. *)
SiteAt(i) == CHOOSE s \in DOMAIN base : i \in SiteLeaves(s)

ResumesBefore(i, j) ==
    \/ Channel[SiteAt(i)] < Channel[SiteAt(j)]
    \/ Channel[SiteAt(i)] = Channel[SiteAt(j)] /\ i < j

(* The leaves in the order of the resumed index, and its tree. *)
ResumedLeaves == SetToSortSeq(DOMAIN reactions, ResumesBefore)

Fresh(rate) == Built([n |-> tree.n, size |-> Capacity(1, tree.n), node |-> << >>], rate)

ResumedTree == Fresh([k \in 0..(tree.n - 1) |-> RateOf(reactions[ResumedLeaves[k + 1]])])

----------------------------------------------------------------------------
(* The tree is, value for value, the one a fresh index over the same leaves in
   the same order would hold, whatever growth, single updates and batches lie
   behind it.  (A resumed session has its leaves in another order:
   ResumedSamplesAlike.) *)
AsRebuilt == tree = Fresh([i \in 0..(tree.n - 1) |-> RateOf(reactions[i])])

(* No reaction of a suppressed class is left in a leaf, siblings of the one
   that was being evaluated when the class turned out composite included. *)
NoneSuppressed == \A i \in DOMAIN reactions : Admissible(reactions[i], composite) = reactions[i]

(* Whatever number is drawn, and however the sums were rounded, the descent
   ends on a leaf in use whose reaction has a positive rate, unless there is
   none.  The engine takes an empty answer for a stopped simulation; the linear
   scan behind the descent is a precaution that is never needed. *)
SampleLive ==
    \A product \in {x \in 0..tree.node[1] : Float(x) = x} :
        LET i == Sampled(tree, product)
        IN  IF \A j \in DOMAIN reactions : RateOf(reactions[j]) = 0 THEN i = Nowhere
            ELSE /\ i \in DOMAIN reactions /\ RateOf(reactions[i]) > 0
                 /\ i = Descent(tree, 1, Smaller(product, Below(tree.node[1]))) - tree.size

(* While no sum is rounded, a leaf is drawn by exactly as many of the evenly
   spaced targets below the total as its rate says. *)
SampleProportional ==
    /\ tree.node[1] <= Exact
    /\ \A p \in 1..(tree.size - 1) : tree.node[p] = tree.node[2 * p] + tree.node[2 * p + 1]
    =>
        \A i \in DOMAIN reactions :
            Cardinality({x \in 0..(tree.node[1] - 1) : Sampled(tree, x) = i}) = RateOf(reactions[i])

(* A session resumed here goes on as this one would have: any number drawn next
   selects the same member.  checkpoint.py:252-255 says so, continuations are
   "equivalent to an uninterrupted run".  It holds until the network grows: new
   sites have their leaves at the end, a resumed index has them behind the
   sites of their own channel. *)
ResumedSamplesAlike ==
    \A product \in {x \in 0..tree.node[1] : Float(x) = x} :
        LET i == Sampled(tree, product)
            k == Sampled(ResumedTree, product)
        IN  IF i = Nowhere THEN k = Nowhere ELSE k # Nowhere /\ ResumedLeaves[k + 1] = i
===========================================================================
