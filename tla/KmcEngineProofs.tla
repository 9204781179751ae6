--------------------------- MODULE KmcEngineProofs ---------------------------
(***************************************************************************)
(* Theorems of KmcEngine for every network, every number of steps and      *)
(* every outcome of the calculations.                                      *)
(***************************************************************************)
EXTENDS KmcEngine, TLAPS

\* The reverse index a scan of the occupancy o would build.
BucketOf(o) == [c \in Cliques |-> {m \in o : c \in CliquesOf[m]}]

-----------------------------------------------------------------------------
\* Every event moves between the endpoints of its leaf, and it and its
\* reverse swap sources and targets.
LEMMA EventShape ==
  ASSUME NEW l \in Leaves, NEW d \in Directions(l)
  PROVE  /\ Endpoints(l) \subseteq Members
         /\ Endpoints(l) # {}
         /\ d \in AllDirections
         /\ Reverse(d) \in Directions(l)
         /\ Sources(l, Reverse(d)) = Targets(l, d)
         /\ Targets(l, Reverse(d)) = Sources(l, d)
<1> USE NetworkAssumption DEF Leaves, Channels
<1>1. CASE l \in Members
  <2>1. d \in {"adsorption", "desorption"}
    BY <1>1 DEF Directions
  <2>2. Endpoints(l) = {l}
    BY <1>1 DEF Endpoints
  <2> QED BY <1>1, <2>1, <2>2 DEF Sources, Targets, Reverse, Opposite, Directions, AllDirections
<1>2. CASE l \in Hops
  <2>1. l \notin Members /\ l \notin Bonds
    BY <1>2
  <2>2. d \in {"a_to_b", "b_to_a"}
    BY <1>2, <2>1 DEF Directions
  <2>3. Endpoints(l) = {EndA[l], EndB[l]}
    BY <1>2, <2>1 DEF Endpoints
  <2>4. EndA[l] \in Members /\ EndB[l] \in Members /\ EndA[l] # EndB[l]
    BY <1>2
  <2>5. Reverse("a_to_b") = "b_to_a" /\ Reverse("b_to_a") = "a_to_b"
    BY DEF Reverse, Opposite
  <2>6. /\ Sources(l, "a_to_b") = {EndA[l]} /\ Sources(l, "b_to_a") = {EndB[l]}
        /\ Targets(l, "a_to_b") = {EndB[l]} /\ Targets(l, "b_to_a") = {EndA[l]}
    BY <2>3, <2>4 DEF Sources, Targets
  <2> QED BY <1>2, <2>1, <2>2, <2>3, <2>4, <2>5, <2>6 DEF Directions, AllDirections
<1>3. CASE l \in Bonds
  <2>1. l \notin Members /\ l \notin Hops
    BY <1>3
  <2>2. d \in {"couple", "dissoc"}
    BY <1>3, <2>1 DEF Directions
  <2>3. Endpoints(l) = {EndA[l], EndB[l]} \cup ({EndC[l]} \ {NoMember})
    BY <1>3, <2>1 DEF Endpoints
  <2>4. /\ EndA[l] \in Members /\ EndB[l] \in Members
        /\ EndC[l] \in Members \cup {NoMember}
        /\ EndC[l] \notin {EndA[l], EndB[l]}
    BY <1>3
  <2>5. Reverse("couple") = "dissoc" /\ Reverse("dissoc") = "couple"
    BY DEF Reverse, Opposite
  <2>6. /\ Sources(l, "couple") = {EndA[l], EndB[l]}
        /\ Sources(l, "dissoc") = {EndC[l]} \ {NoMember}
        /\ Targets(l, "couple") = {EndC[l]} \ {NoMember}
        /\ Targets(l, "dissoc") = {EndA[l], EndB[l]}
    BY <2>3, <2>4 DEF Sources, Targets
  <2> QED BY <1>3, <2>1, <2>2, <2>3, <2>4, <2>5, <2>6 DEF Directions, AllDirections
<1> QED BY <1>1, <1>2, <1>3

\* Sources and targets split the endpoints.
LEMMA SourcesTargets ==
  ASSUME NEW l, NEW d
  PROVE  /\ Sources(l, d) \cup Targets(l, d) = Endpoints(l)
         /\ Sources(l, d) \cap Targets(l, d) = {}
BY DEF Sources, Targets

\* With an agreeing reverse index, being blocked means that some adsorbate
\* other than the allowed ones shares an exact clique.
LEMMA BlockedMeaning ==
  ASSUME NEW o \in SUBSET Members, NEW M \in SUBSET Members, NEW allowed
  PROVE  Blocked(M, allowed, BucketOf(o))
           <=> \E m \in o \ allowed : \E x \in M : ShareClique(m, x)
<1>1. \A c \in CliquesOfAll(M) : BucketOf(o)[c] = {m \in o : c \in CliquesOf[m]}
  BY DEF CliquesOfAll, BucketOf, Cliques
<1>2. Blocked(M, allowed, BucketOf(o))
        <=> \E c \in CliquesOfAll(M) : \E m \in o \ allowed : c \in CliquesOf[m]
  BY <1>1 DEF Blocked
<1> QED BY <1>2 DEF CliquesOfAll, ShareClique

\* _set_member_occupied keeps the reverse index agreeing.
LEMMA BucketAfter ==
  ASSUME NEW o \in SUBSET Members, NEW l, NEW d
  PROVE  Fill(Vacate(BucketOf(o), Sources(l, d)), Targets(l, d))
           = BucketOf(After(l, d, o))
BY DEF Fill, Vacate, BucketOf, After

\* An applicable event never puts two adsorbates on one clique.
LEMMA ApplicableIsExclusive ==
  ASSUME NEW o \in SUBSET Members, Exclusive(o),
         NEW l \in Leaves, NEW d \in Directions(l),
         Applicable(l, d, o, BucketOf(o))
  PROVE  Exclusive(After(l, d, o))
<1> DEFINE S == Sources(l, d)
           T == Targets(l, d)
<1>1. S \cup T = Endpoints(l) /\ Endpoints(l) \subseteq Members /\ S \cap T = {}
  BY EventShape, SourcesTargets
<1>2. T \subseteq Watched(l, d) /\ Watched(l, d) \subseteq Members
  <2>1. CASE l \in Members
    BY <2>1, <1>1 DEF Watched, Endpoints
  <2>2. CASE l \notin Members
    BY <2>2, <1>1 DEF Watched
  <2> QED BY <2>1, <2>2
<1>3. \A x \in T : \A y \in o \ Endpoints(l) : ~ShareClique(y, x)
  BY <1>2, BlockedMeaning DEF Applicable
<1>4. \A x, y \in T : x # y => ~ShareClique(x, y)
  <2>1. CASE l \in Bonds
    <3>1. l \notin Members
      BY <2>1, NetworkAssumption DEF Channels
    <3>2. d \in {"couple", "dissoc"}
      BY <2>1, <3>1, NetworkAssumption DEF Directions, Channels
    <3>3. ~ShareClique(EndA[l], EndB[l])
      BY <2>1 DEF Applicable
    <3>4. T \subseteq {EndA[l], EndB[l]} \/ T \subseteq {EndC[l]}
      BY <2>1, <3>1, <3>2 DEF Targets, Sources, Endpoints
    <3> QED BY <3>3, <3>4 DEF ShareClique
  <2>2. CASE l \in Members
    BY <2>2 DEF Targets, Endpoints
  <2>3. CASE l \in Hops
    <3>1. l \notin Members /\ l \notin Bonds
      BY <2>3, NetworkAssumption DEF Channels
    <3>2. d \in {"a_to_b", "b_to_a"}
      BY <2>3, <3>1 DEF Directions
    <3>3. T \subseteq {EndA[l]} \/ T \subseteq {EndB[l]}
      BY <3>1, <3>2 DEF Targets, Sources, Endpoints
    <3> QED BY <3>3
  <2> QED BY <2>1, <2>2, <2>3 DEF Leaves
<1>5. \A x, y \in o : x # y => ~ShareClique(x, y)
  BY DEF Exclusive
<1>6. \A x, y : ShareClique(x, y) => ShareClique(y, x)
  BY DEF ShareClique
<1>7. SUFFICES ASSUME NEW x \in (o \ S) \cup T, NEW y \in (o \ S) \cup T, x # y
               PROVE  ~ShareClique(x, y)
  BY DEF Exclusive, After
<1> QED BY <1>1, <1>3, <1>4, <1>5, <1>6, <1>7

-----------------------------------------------------------------------------
(***************************************************************************)
(* Locality.  An event changes the occupancy of its own endpoints only, so *)
(* a leaf out of reach of them sees the same neighbours, is blocked by the *)
(* same adsorbates and has the same lateral class.                         *)
(***************************************************************************)
OutOfReach(k, l) == AtomsOf(Endpoints(k)) \cap Around(AtomsOf(Endpoints(l))) = {}

LEMMA OutOfReachMeaning ==
  ASSUME NEW l \in Leaves, NEW k \in Leaves, OutOfReach(k, l),
         NEW m \in Endpoints(l)
  PROVE  /\ m \notin Endpoints(k)
         /\ \A x \in Endpoints(k) : ~ShareClique(m, x)
         /\ Lateral => AtomsOf({m}) \cap Within(AtomsOf(Endpoints(k))) = {}
<1>1. Endpoints(l) \subseteq Members /\ Endpoints(k) \subseteq Members
  <2>1. \A j \in Leaves : \E d : d \in Directions(j)
    BY DEF Directions
  <2> QED BY <2>1, EventShape
<1>2. CliquesOf[m] # {} /\ {} \notin CliquesOf[m] /\ CliquesOf[m] \in SUBSET (SUBSET Surface)
  BY <1>1, NetworkAssumption
<1>3. \A M, x : x \in M => \A c \in CliquesOf[x] : c \subseteq AtomsOf(M)
  BY DEF AtomsOf, CliquesOfAll
<1>4. AtomsOf(Endpoints(l)) \subseteq Surface /\ AtomsOf(Endpoints(k)) \subseteq Surface
  BY <1>1, NetworkAssumption DEF AtomsOf, CliquesOfAll
<1>5. AtomsOf(Endpoints(l)) \subseteq Around(AtomsOf(Endpoints(l)))
  BY <1>4, NearAssumption DEF Around, Within
<1>6. \A x \in Endpoints(k) : ~ShareClique(m, x)
  <2>1. SUFFICES ASSUME NEW x \in Endpoints(k), NEW c \in CliquesOf[m], c \in CliquesOf[x]
                 PROVE  FALSE
    BY DEF ShareClique
  <2>2. PICK a : a \in c
    BY <1>2
  <2>3. a \in AtomsOf(Endpoints(k)) /\ a \in AtomsOf(Endpoints(l))
    BY <1>3, <2>1, <2>2
  <2> QED BY <1>5, <2>3 DEF OutOfReach
<1>7. m \notin Endpoints(k)
  BY <1>2, <1>6 DEF ShareClique
<1>8. ASSUME Lateral
      PROVE  AtomsOf({m}) \cap Within(AtomsOf(Endpoints(k))) = {}
  <2>1. AtomsOf({m}) \subseteq AtomsOf(Endpoints(l))
    BY DEF AtomsOf, CliquesOfAll
  <2>2. Around(AtomsOf(Endpoints(l))) = Within(AtomsOf(Endpoints(l)))
    BY <1>8 DEF Around
  <2>3. SUFFICES ASSUME NEW t \in AtomsOf({m}), NEW s \in AtomsOf(Endpoints(k)),
                        <<s, t>> \in Near
                 PROVE  FALSE
    BY DEF Within
  <2>4. t \in AtomsOf(Endpoints(l)) /\ s \in Surface /\ t \in Surface
    BY <1>4, <2>1
  <2>5. <<t, s>> \in Near
    BY <2>3, <2>4, NearAssumption
  <2>6. s \in Within(AtomsOf(Endpoints(l)))
    BY <2>4, <2>5 DEF Within
  <2> QED BY <2>2, <2>6 DEF OutOfReach
<1> QED BY <1>6, <1>7, <1>8

LEMMA UnaffectedApplicable ==
  ASSUME NEW l \in Leaves, NEW k \in Leaves, OutOfReach(k, l),
         NEW o \in SUBSET Members, NEW p \in SUBSET Members,
         \A m \in Members \ Endpoints(l) : m \in o <=> m \in p,
         NEW d \in Directions(k), Applicable(k, d, o, BucketOf(o))
  PROVE  Applicable(k, d, p, BucketOf(p))
<1>1. Endpoints(k) \subseteq Members /\ Endpoints(k) \cap Endpoints(l) = {}
  BY EventShape, OutOfReachMeaning
<1>2. Sources(k, d) \subseteq Endpoints(k) /\ Targets(k, d) \subseteq Endpoints(k)
  BY SourcesTargets
<1>3. Sources(k, d) \subseteq p
  BY <1>1, <1>2 DEF Applicable
<1>4. Targets(k, d) \cap p = {}
  BY <1>1, <1>2 DEF Applicable
<1>5. Watched(k, d) \subseteq Endpoints(k)
  BY <1>2 DEF Watched, Endpoints
<1>6. Watched(k, d) \subseteq Members
  BY <1>1, <1>5
<1>7. \A m \in o \ Endpoints(k) : \A x \in Watched(k, d) : ~ShareClique(m, x)
  BY <1>6, BlockedMeaning DEF Applicable
<1>8. \A m \in p \ Endpoints(k) : \A x \in Watched(k, d) : ~ShareClique(m, x)
  BY <1>5, <1>7, OutOfReachMeaning
<1>9. ~Blocked(Watched(k, d), Endpoints(k), BucketOf(p))
  BY <1>6, <1>8, BlockedMeaning
<1> QED BY <1>3, <1>4, <1>9 DEF Applicable

LEMMA UnaffectedSpectators ==
  ASSUME NEW l \in Leaves, NEW k \in Leaves, OutOfReach(k, l),
         NEW o \in SUBSET Members, NEW p \in SUBSET Members,
         \A m \in Members \ Endpoints(l) : m \in o <=> m \in p
  PROVE  LateralClass(k, o) = LateralClass(k, p)
<1>1. \A m \in Members : Lateral /\ m \in Endpoints(l) =>
        AtomsOf({m}) \cap Within(AtomsOf(Endpoints(k))) = {}
  BY OutOfReachMeaning
<1>2. Spectators(k, o) = Spectators(k, p)
  BY <1>1 DEF Spectators
<1> QED BY <1>2 DEF LateralClass

LEMMA AfterDiffersAtEndpoints ==
  ASSUME NEW l \in Leaves, NEW d \in Directions(l), NEW o \in SUBSET Members
  PROVE  /\ After(l, d, o) \in SUBSET Members
         /\ \A m \in Members \ Endpoints(l) : m \in o <=> m \in After(l, d, o)
BY EventShape, SourcesTargets DEF After

-----------------------------------------------------------------------------
(***************************************************************************)
(* Reversal.  An event that was applicable is applicable backwards from    *)
(* the occupancy it leaves, in the same lateral class: its own endpoints   *)
(* are no spectators, and its sources were on cliques nobody else claimed. *)
(***************************************************************************)
LEMMA ReverseApplicable ==
  ASSUME NEW o \in SUBSET Members, Exclusive(o),
         NEW l \in Leaves, NEW d \in Directions(l),
         Applicable(l, d, o, BucketOf(o))
  PROVE  Applicable(l, Reverse(d), After(l, d, o), BucketOf(After(l, d, o)))
<1> DEFINE p == After(l, d, o)
           e == Reverse(d)
<1>1. /\ Endpoints(l) \subseteq Members
      /\ Sources(l, e) = Targets(l, d) /\ Targets(l, e) = Sources(l, d)
      /\ Sources(l, d) \cup Targets(l, d) = Endpoints(l)
      /\ Sources(l, d) \cap Targets(l, d) = {}
  BY EventShape, SourcesTargets
<1>2. Sources(l, e) \subseteq p /\ Targets(l, e) \cap p = {}
  BY <1>1 DEF After
<1>3. p \in SUBSET Members /\ p \ Endpoints(l) = o \ Endpoints(l)
  BY <1>1 DEF After
<1>4. Watched(l, e) \subseteq Members
  BY <1>1 DEF Watched
<1>5. \A m \in o \ Endpoints(l) : \A x \in Watched(l, e) : ~ShareClique(m, x)
  <2>1. CASE l \in Members
    <3>1. Watched(l, e) = Watched(l, d) /\ Watched(l, d) \subseteq Members
      BY <2>1 DEF Watched
    <3> QED BY <3>1, BlockedMeaning DEF Applicable
  <2>2. CASE l \notin Members
    <3>1. Watched(l, e) \subseteq o /\ Watched(l, e) \subseteq Endpoints(l)
      BY <1>1, <2>2 DEF Watched, Applicable
    <3> QED BY <3>1 DEF Exclusive
  <2> QED BY <2>1, <2>2
<1>6. ~Blocked(Watched(l, e), Endpoints(l), BucketOf(p))
  BY <1>3, <1>4, <1>5, BlockedMeaning
<1> QED BY <1>2, <1>6 DEF Applicable

LEMMA SameClassAfter ==
  ASSUME NEW o \in SUBSET Members, NEW l \in Leaves, NEW d \in Directions(l)
  PROVE  LateralClass(l, After(l, d, o)) = LateralClass(l, o)
<1>1. Spectators(l, After(l, d, o)) = Spectators(l, o)
  BY SourcesTargets DEF Spectators, After
<1> QED BY <1>1 DEF LateralClass

-----------------------------------------------------------------------------
(***************************************************************************)
(* Evaluation.  Evaluating the leaves R decides the class of every leaf of *)
(* R that consults it, never makes a decided class undecided, and only     *)
(* turns stable classes into composite ones, at the sites of R.            *)
(***************************************************************************)
Consults(l) == \E d \in Directions(l) : Applicable(l, d, occ, bucket)

LEMMA ClassOfLeaf ==
  ASSUME NEW l \in Leaves, NEW o \in SUBSET Members
  PROVE  LateralClass(l, o) \in Classes /\ LateralClass(l, o)[1] = SiteOf[l]
<1>1. Spectators(l, o) \in SUBSET Members
  BY DEF Spectators
<1> QED BY <1>1 DEF LateralClass, Classes

LEMMA Judged ==
  ASSUME TypeOK, NEW R \in SUBSET Leaves, NEW v \in Judgements(R)
  PROVE  /\ v \in [Classes -> Verdicts]
         /\ \A l \in R : Consults(l) => v[LateralClass(l, occ)] # "undecided"
         /\ \A c \in Classes : \/ v[c] = verdict[c]
                               \/ verdict[c] = "undecided"
                               \/ verdict[c] = "stable" /\ v[c] = "composite"
         /\ \A c \in Classes : v[c] # verdict[c] => \E l \in R : SiteOf[l] = c[1]
<1> DEFINE new == Undecided(R)
           Recheck == Reclassifiable(R)
           Outcome(good, split) ==
             [c \in Classes |-> IF c \in split THEN "composite"
                                ELSE IF c \in good THEN "stable"
                                ELSE IF c \in new THEN "rejected"
                                ELSE verdict[c]]
<1>1. PICK good \in SUBSET new, split \in SUBSET (new \cup Recheck) : v = Outcome(good, split)
  <2> DEFINE Goods == IF MayFail THEN SUBSET new ELSE {new}
             Splits(g) == IF MayFail
                          THEN SUBSET ({c \in new \ g : ChannelClass(c)} \cup Recheck)
                          ELSE {{}}
             Of(g) == {Outcome(g, s) : s \in Splits(g)}
  <2>1. Judgements(R) = UNION {Of(g) : g \in Goods}
    BY DEF Judgements
  <2> HIDE DEF Of, Goods, new, Recheck
  <2>2. PICK g \in Goods : v \in Of(g)
    BY <2>1
  <2>3. PICK s \in Splits(g) : v = Outcome(g, s)
    BY <2>2 DEF Of
  <2>4. g \in SUBSET new /\ s \in SUBSET (new \cup Recheck)
    BY <2>2, <2>3 DEF Goods
  <2> QED BY <2>3, <2>4
<1>2. verdict \in [Classes -> Verdicts] /\ occ \in SUBSET Members
  BY DEF TypeOK
<1>3. v = [c \in Classes |-> IF c \in split THEN "composite"
                             ELSE IF c \in good THEN "stable"
                             ELSE IF c \in new THEN "rejected"
                             ELSE verdict[c]]
  BY <1>1
<1>4. \A c \in new : verdict[c] = "undecided" /\ \E l \in R : SiteOf[l] = c[1]
  <2>1. \A l \in R : /\ LateralClass(l, occ)[1] = SiteOf[l]
                     /\ LateralClass(l, {})[1] = SiteOf[l]
    BY <1>2, ClassOfLeaf
  <2> QED BY <2>1 DEF Undecided, Consulting
<1>5. \A c \in Recheck : verdict[c] = "stable" /\ \E l \in R : SiteOf[l] = c[1]
  <2>1. \A l \in R : LateralClass(l, occ)[1] = SiteOf[l]
    BY <1>2, ClassOfLeaf
  <2> QED BY <2>1 DEF Reclassifiable, Consulting
<1>6. v \in [Classes -> Verdicts]
  BY <1>2, <1>3 DEF Verdicts
<1>7. ASSUME NEW l \in R, Consults(l)
      PROVE  v[LateralClass(l, occ)] # "undecided"
  <2>1. LateralClass(l, occ) \in Classes
    BY <1>2, ClassOfLeaf
  <2>2. verdict[LateralClass(l, occ)] = "undecided" => LateralClass(l, occ) \in new
    BY <1>7 DEF Undecided, Consulting, Consults
  <2> QED BY <1>3, <2>1, <2>2
<1> HIDE DEF new, Recheck
<1>8. ASSUME NEW c \in Classes
      PROVE  /\ \/ v[c] = verdict[c]
                \/ verdict[c] = "undecided"
                \/ verdict[c] = "stable" /\ v[c] = "composite"
             /\ v[c] # verdict[c] => \E l \in R : SiteOf[l] = c[1]
  <2>1. CASE c \in new
    BY <2>1, <1>4
  <2>2. CASE c \notin new /\ c \in split
    <3>1. c \in Recheck /\ v[c] = "composite"
      BY <1>3, <2>2
    <3> QED BY <3>1, <1>5
  <2>3. CASE c \notin new /\ c \notin split
    <3>1. v[c] = verdict[c]
      BY <1>3, <2>3
    <3> QED BY <3>1
  <2> QED BY <2>1, <2>2, <2>3
<1> QED BY <1>6, <1>7, <1>8

LEMMA OfferType ==
  ASSUME NEW l \in Leaves, NEW o \in SUBSET Members, NEW b, NEW v
  PROVE  Offer(l, o, b, v) \in SUBSET Reactions
<1>1. LateralClass(l, o) \in Classes
  BY ClassOfLeaf
<1>2. Directions(l) \subseteq AllDirections
  BY EventShape
<1> QED BY <1>1, <1>2 DEF Offer, Reactions

\* A leaf is up to date when it holds what evaluating it now would return,
\* and its class has been decided if it consults one.
Settled(l, v) == Consults(l) => v[LateralClass(l, occ)] # "undecided"
UpToDate(l) == leaf[l] = Offer(l, occ, bucket, verdict) /\ Settled(l, verdict)

\* Installing the leaves R, when every other indexed leaf is up to date,
\* leaves every indexed leaf up to date: a verdict that changes the offer of
\* a leaf outside R has found a class composite, and then install takes the
\* reaction off that sibling.
LEMMA InstalledUpToDate ==
  ASSUME TypeOK, NEW A \in SUBSET Leaves, NEW R \in SUBSET A,
         \A l \in A \ R : UpToDate(l),
         \A l \in Leaves \ A : leaf[l] = {},
         NEW v \in Judgements(R)
  PROVE  /\ \A l \in A : /\ Installed(l, R, v) = Offer(l, occ, bucket, v)
                         /\ Settled(l, v)
         /\ \A l \in Leaves \ A : Installed(l, R, v) = {}
<1>1. occ \in SUBSET Members /\ R \in SUBSET Leaves
  BY DEF TypeOK
<1>2. /\ \A l \in R : Consults(l) => v[LateralClass(l, occ)] # "undecided"
      /\ \A c \in Classes : \/ v[c] = verdict[c]
                            \/ verdict[c] = "undecided"
                            \/ verdict[c] = "stable" /\ v[c] = "composite"
      /\ \A c \in Classes : v[c] # verdict[c] => \E l \in R : SiteOf[l] = c[1]
  BY <1>1, Judged
<1>3. ASSUME NEW l \in Leaves \ A
      PROVE  Installed(l, R, v) = {}
  BY <1>3 DEF Installed
<1>4. ASSUME NEW l \in R
      PROVE  Installed(l, R, v) = Offer(l, occ, bucket, v) /\ Settled(l, v)
  BY <1>2 DEF Installed, Settled
<1>5. ASSUME NEW l \in A \ R
      PROVE  Installed(l, R, v) = Offer(l, occ, bucket, v) /\ Settled(l, v)
  <2> DEFINE c == LateralClass(l, occ)
  <2>1. c \in Classes /\ c[1] = SiteOf[l]
    BY <1>1, ClassOfLeaf
  <2>2. UpToDate(l)
    BY <1>5
  <2> HIDE DEF c
  <2>3. CASE ~Consults(l)
    <3>1. \A w : Offer(l, occ, bucket, w) = {}
      BY <2>3 DEF Offer, Consults
    <3>2. leaf[l] = {}
      BY <2>2, <3>1 DEF UpToDate
    <3>3. Installed(l, R, v) = {}
      BY <1>5, <3>2 DEF Installed
    <3> QED BY <2>3, <3>1, <3>3 DEF Settled
  <2>4. CASE Consults(l)
    <3>1. verdict[c] # "undecided" /\ leaf[l] = Offer(l, occ, bucket, verdict)
      BY <2>2, <2>4 DEF UpToDate, Settled, c
    <3>2. Settled(l, v)
      BY <1>2, <2>1, <3>1 DEF Settled, c
    <3>3. \A w : Offer(l, occ, bucket, w) =
            {[dir |-> d, class |-> c] :
               d \in {x \in Directions(l) : Applicable(l, x, occ, bucket) /\ w[c] = "stable"}}
      BY DEF Offer, c
    <3>4. CASE v[c] = verdict[c]
      <4>1. Offer(l, occ, bucket, v) = leaf[l]
        BY <3>1, <3>3, <3>4
      <4>2. \A r \in leaf[l] : v[r.class] = "stable"
        BY <3>1, <3>3, <3>4
      <4> QED BY <1>5, <3>2, <4>1, <4>2 DEF Installed
    <3>5. CASE v[c] # verdict[c]
      <4>1. verdict[c] = "stable" /\ v[c] = "composite"
        BY <1>2, <2>1, <3>1, <3>5
      <4>2. \E k \in R : SiteOf[k] = SiteOf[l]
        BY <1>2, <2>1, <3>5
      <4>3. \A r \in leaf[l] : v[r.class] = "composite"
        BY <3>1, <3>3, <4>1
      <4>4. Installed(l, R, v) = {}
        BY <1>5, <4>2, <4>3 DEF Installed
      <4>5. Offer(l, occ, bucket, v) = {}
        BY <3>3, <4>1
      <4> QED BY <3>2, <4>4, <4>5
    <3> QED BY <3>4, <3>5
  <2> QED BY <2>3, <2>4
<1> QED BY <1>3, <1>4, <1>5

LEMMA InstalledType ==
  ASSUME TypeOK, NEW l \in Leaves, NEW R, NEW v
  PROVE  Installed(l, R, v) \in SUBSET Reactions
<1>1. occ \in SUBSET Members /\ leaf[l] \in SUBSET Reactions
  BY DEF TypeOK
<1>2. Offer(l, occ, bucket, v) \in SUBSET Reactions
  BY <1>1, OfferType
<1> QED BY <1>1, <1>2 DEF Installed

-----------------------------------------------------------------------------
(***************************************************************************)
(* The inductive invariant.                                                *)
(***************************************************************************)
Busy == {"execute", "recompute", "expand", "record"}

\* The occupancy is exclusive, its reverse index agrees with it, and every
\* placement of a known species is indexed.
SurfaceInv ==
  /\ Exclusive(occ)
  /\ bucket = BucketOf(occ)
  /\ PlacementsIndexed
  /\ \A m \in Members : SpeciesOf[m] \in known <=> m \in active

\* All indexed leaves are up to date, except for those within reach of the
\* event that has just been executed.
IndexInv ==
  /\ \A l \in Leaves \ active : leaf[l] = {}
  /\ pc \in {"idle", "execute", "expand", "record"} => \A l \in active : UpToDate(l)
  /\ pc = "recompute" =>
       \A l \in active : l \notin Affected(event.leaf) => UpToDate(l)

\* The event in progress is applicable until it is executed; from then on
\* its reverse is, in the same lateral class.
EventInv ==
  /\ pc \in Busy =>
       /\ event \in [leaf : Leaves, dir : AllDirections, class : Classes]
       /\ event.leaf \in active
       /\ event.dir \in Directions(event.leaf)
       /\ event.class = LateralClass(event.leaf, occ)
       /\ step < NSteps
  /\ pc = "execute" =>
       /\ Applicable(event.leaf, event.dir, occ, bucket)
       /\ verdict[event.class] = "stable"
  /\ pc = "expand" => event.leaf \in Bonds
  /\ pc \in {"recompute", "expand", "record"} =>
       /\ Applicable(event.leaf, Reverse(event.dir), occ, bucket)
       /\ verdict[event.class] \in {"stable", "composite"}

IInv == TypeOK /\ SurfaceInv /\ IndexInv /\ EventInv /\ NeverStale

-----------------------------------------------------------------------------
\* The invariant holds initially.
LEMMA InitInv == Init => IInv
<1> SUFFICES ASSUME Init PROVE IInv
  OBVIOUS
<1> USE DEF Init
<1>1. occ \in StartOccupancies /\ occ \subseteq StartActive /\ occ \subseteq Members
  BY StartAssumption
<1>2. TypeOK
  BY <1>1, StartAssumption, EngineAssumption DEF TypeOK, Verdicts
<1>3. SurfaceInv
  BY <1>1, StartAssumption DEF SurfaceInv, BucketOf, PlacementsIndexed
<1>4. IndexInv
  BY DEF IndexInv
<1>5. EventInv /\ NeverStale
  BY DEF EventInv, NeverStale, Busy
<1> QED BY <1>2, <1>3, <1>4, <1>5 DEF IInv

\* initialise_runtime leaves every leaf up to date.
LEMMA InitialiseInv == IInv /\ Initialise => IInv'
<1> SUFFICES ASSUME IInv, Initialise PROVE IInv'
  OBVIOUS
<1> USE DEF Initialise, surface, registry
<1>1. PICK v \in Judgements(active) :
        verdict' = v /\ leaf' = [l \in Leaves |-> Installed(l, active, v)]
  OBVIOUS
<1>2. TypeOK /\ active \in SUBSET Leaves /\ \A l \in Leaves \ active : leaf[l] = {}
  BY DEF IInv, TypeOK, IndexInv
<1>3. /\ \A l \in active : /\ Installed(l, active, v) = Offer(l, occ, bucket, v)
                           /\ Settled(l, v)
      /\ \A l \in Leaves \ active : Installed(l, active, v) = {}
  BY <1>2, InstalledUpToDate
<1>4. v \in [Classes -> Verdicts]
  BY <1>2, Judged
<1>5. TypeOK'
  <2>1. leaf' \in [Leaves -> SUBSET Reactions]
    BY <1>1, <1>2, InstalledType
  <2> QED BY <1>1, <1>2, <1>4, <2>1 DEF TypeOK
<1>6. SurfaceInv'
  BY DEF IInv, SurfaceInv, PlacementsIndexed
<1>7. IndexInv'
  BY <1>1, <1>2, <1>3 DEF IndexInv, UpToDate, Settled, Consults
<1>8. EventInv' /\ NeverStale'
  BY DEF EventInv, NeverStale, Busy
<1> QED BY <1>5, <1>6, <1>7, <1>8 DEF IInv

\* An event is selected only from an up-to-date leaf, so it is applicable.
LEMMA SelectInv == IInv /\ Select => IInv'
<1> SUFFICES ASSUME IInv, Select PROVE IInv'
  OBVIOUS
<1> USE DEF Select, surface, index, registry
<1>0. PICK l \in active :
        \E r \in leaf[l] : event' = [leaf |-> l, dir |-> r.dir, class |-> r.class]
  OBVIOUS
<1>1. PICK r \in leaf[l] : event' = [leaf |-> l, dir |-> r.dir, class |-> r.class]
  BY <1>0
<1>2. TypeOK /\ l \in Leaves /\ UpToDate(l) /\ occ \in SUBSET Members
  BY DEF IInv, TypeOK, IndexInv
<1>3. PICK d \in Directions(l) :
        /\ r = [dir |-> d, class |-> LateralClass(l, occ)]
        /\ Applicable(l, d, occ, bucket)
        /\ verdict[LateralClass(l, occ)] = "stable"
  BY <1>2 DEF UpToDate, Offer
<1>4. /\ d \in AllDirections
      /\ LateralClass(l, occ) \in Classes
  BY <1>2, EventShape, ClassOfLeaf
<1>5. event' = [leaf |-> l, dir |-> d, class |-> LateralClass(l, occ)]
  BY <1>1, <1>3
<1>6. TypeOK'
  BY <1>2, <1>4, <1>5 DEF TypeOK
<1>7. SurfaceInv'
  BY DEF IInv, SurfaceInv, PlacementsIndexed
<1>8. IndexInv'
  BY DEF IInv, IndexInv, UpToDate, Settled, Consults
<1>9. step < NSteps /\ step' = step
  OBVIOUS
<1>10. EventInv' /\ NeverStale'
  BY <1>2, <1>3, <1>4, <1>5, <1>9 DEF EventInv, NeverStale, Busy
<1> QED BY <1>6, <1>7, <1>8, <1>10 DEF IInv

\* Steps that only move the control to the end of the session.
LEMMA EndInv == IInv /\ (Stop \/ Complete \/ Fail \/ Terminated) => IInv'
<1> SUFFICES ASSUME IInv, Stop \/ Complete \/ Fail \/ Terminated PROVE IInv'
  OBVIOUS
<1>1. /\ UNCHANGED <<occ, bucket, active, leaf, verdict, known, expanded, event, step>>
      /\ pc' \in Ended \ {"stale"} \/ pc' = pc
  BY DEF Stop, Complete, Fail, Terminated, surface, index, registry, vars, Ended
<1>2. SurfaceInv'
  BY <1>1 DEF IInv, SurfaceInv, PlacementsIndexed
<1>3. TypeOK'
  BY <1>1 DEF IInv, TypeOK
<1>4. IndexInv'
  BY <1>1 DEF IInv, IndexInv, UpToDate, Settled, Consults, Affected, Ended
<1>5. EventInv'
  BY <1>1 DEF IInv, EventInv, Busy, Ended
<1>6. NeverStale'
  BY <1>1 DEF IInv, NeverStale
<1> QED BY <1>2, <1>3, <1>4, <1>5, <1>6 DEF IInv

\* execute_reaction trusts the index, and rightly: it never raises.
LEMMA ApplicableIsExecutable ==
  ASSUME NEW l \in Leaves, NEW d \in Directions(l), Applicable(l, d, occ, bucket)
  PROVE  Executable(l, d)
<1>1. d = "adsorption" => l \in Members
  BY DEF Directions
<1>2. l \in Members => Watched(l, d) = {l} /\ Endpoints(l) = {l}
  BY DEF Watched, Endpoints
<1> QED BY <1>1, <1>2 DEF Executable, Applicable

\* After an event, every leaf out of reach of its endpoints is still up to
\* date, and the reverse event is applicable.
LEMMA ExecuteInv == IInv /\ Execute => IInv'
<1> SUFFICES ASSUME IInv, Execute PROVE IInv'
  OBVIOUS
<1> DEFINE l == event.leaf
           d == event.dir
           p == After(l, d, occ)
<1>1. /\ pc = "execute" /\ pc' = "recompute"
      /\ occ' = p
      /\ bucket' = Fill(Vacate(bucket, Sources(l, d)), Targets(l, d))
      /\ UNCHANGED <<active, leaf, verdict, known, expanded, event, step>>
  <2>1. pc = "execute"
    BY DEF Execute
  <2>2. l \in Leaves /\ d \in Directions(l) /\ Applicable(l, d, occ, bucket)
    BY <2>1 DEF IInv, TypeOK, SurfaceInv, EventInv, Busy
  <2>3. Executable(l, d)
    BY <2>2, ApplicableIsExecutable
  <2> QED BY <2>1, <2>3 DEF Execute, index, registry
<1>2. /\ l \in active /\ l \in Leaves /\ d \in Directions(l) /\ occ \in SUBSET Members
      /\ active \in SUBSET Leaves
      /\ Exclusive(occ) /\ bucket = BucketOf(occ)
      /\ Applicable(l, d, occ, BucketOf(occ))
      /\ event.class = LateralClass(l, occ)
      /\ verdict[event.class] = "stable"
      /\ event \in [leaf : Leaves, dir : AllDirections, class : Classes]
      /\ step < NSteps
  BY <1>1 DEF IInv, TypeOK, SurfaceInv, EventInv, Busy
<1>3. bucket' = BucketOf(p)
  BY <1>1, <1>2, BucketAfter
<1>4. p \in SUBSET Members /\ \A m \in Members \ Endpoints(l) : m \in occ <=> m \in p
  BY <1>2, AfterDiffersAtEndpoints
<1>5. Exclusive(p)
  BY <1>2, ApplicableIsExclusive
<1>6. Applicable(l, Reverse(d), p, BucketOf(p))
  BY <1>2, ReverseApplicable
<1>7. LateralClass(l, p) = LateralClass(l, occ)
  BY <1>2, SameClassAfter
<1> HIDE DEF p
<1>8. SurfaceInv'
  <2>1. PlacementsIndexed
    BY DEF IInv, SurfaceInv
  <2>2. p \subseteq occ \cup Endpoints(l)
    BY SourcesTargets DEF After, p
  <2>3. PlacementsIndexed'
    BY <1>1, <1>2, <2>1, <2>2 DEF PlacementsIndexed
  <2> QED BY <1>1, <1>3, <1>5, <2>3 DEF IInv, SurfaceInv
<1>9. ASSUME NEW k \in active, k \notin Affected(l), UpToDate(k)
      PROVE  leaf[k] = Offer(k, p, BucketOf(p), verdict) /\ Settled(k, verdict)'
  <2>1. k \in Leaves /\ OutOfReach(k, l)
    BY <1>2, <1>9 DEF Affected, OutOfReach
  <2>2. LateralClass(k, occ) = LateralClass(k, p)
    BY <1>2, <1>4, <2>1, UnaffectedSpectators
  <2>3. \A e \in Directions(k) :
          Applicable(k, e, occ, BucketOf(occ)) => Applicable(k, e, p, BucketOf(p))
    BY <1>2, <1>4, <2>1, UnaffectedApplicable
  <2>4. \A e \in Directions(k) :
          Applicable(k, e, p, BucketOf(p)) => Applicable(k, e, occ, BucketOf(occ))
    <3>1. \A m \in Members \ Endpoints(l) : m \in p <=> m \in occ
      BY <1>4
    <3> QED BY <1>2, <1>4, <2>1, <3>1, UnaffectedApplicable
  <2>5. Offer(k, p, BucketOf(p), verdict) = Offer(k, occ, BucketOf(occ), verdict)
    BY <2>2, <2>3, <2>4 DEF Offer
  <2>6. leaf[k] = Offer(k, occ, BucketOf(occ), verdict) /\ Settled(k, verdict)
    BY <1>2, <1>9 DEF UpToDate
  <2>7. Settled(k, verdict)'
    BY <1>1, <1>2, <1>3, <2>2, <2>4, <2>6 DEF Settled, Consults
  <2> QED BY <2>5, <2>6, <2>7
<1>10. IndexInv'
  <2>1. \A k \in active : UpToDate(k)
    BY <1>1 DEF IInv, IndexInv
  <2>2. ASSUME NEW k \in active, k \notin Affected(l) PROVE UpToDate(k)'
    <3>1. leaf[k] = Offer(k, p, BucketOf(p), verdict) /\ Settled(k, verdict)'
      BY <1>9, <2>1, <2>2
    <3> QED BY <1>1, <1>3, <3>1 DEF UpToDate
  <2>3. Affected(event.leaf)' = Affected(event.leaf)
    BY <1>1 DEF Affected
  <2> QED BY <1>1, <2>2, <2>3 DEF IInv, IndexInv
<1>11. TypeOK'
  <2>1. BucketOf(p) \in [Cliques -> SUBSET Members]
    BY <1>4 DEF BucketOf
  <2> QED BY <1>1, <1>3, <1>4, <2>1 DEF IInv, TypeOK
<1>12. EventInv'
  BY <1>1, <1>2, <1>3, <1>6, <1>7 DEF EventInv, Busy
<1>13. NeverStale'
  BY <1>1 DEF NeverStale
<1> QED BY <1>8, <1>10, <1>11, <1>12, <1>13 DEF IInv

\* Recomputing the affected leaves brings every indexed leaf up to date.
LEMMA RecomputeInv == IInv /\ Recompute => IInv'
<1> SUFFICES ASSUME IInv, Recompute PROVE IInv'
  OBVIOUS
<1> DEFINE R == Affected(event.leaf)
<1>1. /\ pc = "recompute" /\ pc' \in {"expand", "record"}
      /\ pc' = "expand" => event.leaf \in Bonds
      /\ UNCHANGED <<occ, bucket, active, known, expanded, event, step>>
  BY DEF Recompute, surface, registry
<1>2. PICK v \in Judgements(R) :
        verdict' = v /\ leaf' = [l \in Leaves |-> Installed(l, R, v)]
  BY DEF Recompute
<1>3. /\ TypeOK /\ active \in SUBSET Leaves
      /\ R \in SUBSET active
      /\ \A l \in active \ R : UpToDate(l)
      /\ \A l \in Leaves \ active : leaf[l] = {}
  BY <1>1 DEF IInv, TypeOK, IndexInv, Affected
<1> HIDE DEF R
<1>4. /\ \A l \in active : /\ Installed(l, R, v) = Offer(l, occ, bucket, v)
                           /\ Settled(l, v)
      /\ \A l \in Leaves \ active : Installed(l, R, v) = {}
  BY <1>3, InstalledUpToDate
<1>5. /\ v \in [Classes -> Verdicts]
      /\ \A c \in Classes : \/ v[c] = verdict[c]
                            \/ verdict[c] = "undecided"
                            \/ verdict[c] = "stable" /\ v[c] = "composite"
  BY <1>3, Judged
<1>6. TypeOK'
  <2>1. leaf' \in [Leaves -> SUBSET Reactions]
    BY <1>2, <1>3, InstalledType
  <2> QED BY <1>1, <1>2, <1>3, <1>5, <2>1 DEF TypeOK
<1>7. SurfaceInv'
  BY <1>1 DEF IInv, SurfaceInv, PlacementsIndexed
<1>8. IndexInv'
  BY <1>1, <1>2, <1>3, <1>4 DEF IndexInv, UpToDate, Settled, Consults
<1>9. EventInv'
  <2>1. event.class \in Classes
    BY <1>1 DEF IInv, EventInv, Busy
  <2> QED BY <1>1, <1>2, <1>5, <2>1 DEF IInv, EventInv, Busy
<1>10. NeverStale'
  BY <1>1 DEF NeverStale
<1> QED BY <1>6, <1>7, <1>8, <1>9, <1>10 DEF IInv

\* Growing the network evaluates the new leaves and indexes, with every new
\* hop or bond, the placements it can fill.
LEMMA ExpandInv == IInv /\ Expand => IInv'
<1> SUFFICES ASSUME IInv, Expand PROVE IInv'
  OBVIOUS
<1> DEFINE P == Produced(event.leaf, event.dir)
           fresh == P \ expanded
<1>1. /\ pc = "expand" /\ pc' = "record"
      /\ UNCHANGED <<occ, bucket, event, step>>
  BY DEF Expand, surface
<1>2. PICK built \in SUBSET (Species \ known), partners \in SUBSET known,
           S \in SUBSET Sites :
        LET all == known \cup built
            R == NewMembers(P, built)
                 \cup NewHops((P \cap all) \cup built \cup partners)
                 \cup {b \in NewBonds(fresh, all) : SiteOf[b] \in S}
        IN \E v \in Judgements(R) :
             /\ active' = active \cup R
             /\ verdict' = v
             /\ leaf' = [l \in Leaves |-> Installed(l, R, v)]
             /\ known' = all
             /\ expanded' = expanded \cup P
  <2> DEFINE Grows(built, partners, S) ==
        LET all == known \cup built
            R == NewMembers(P, built)
                 \cup NewHops((P \cap all) \cup built \cup partners)
                 \cup {b \in NewBonds(fresh, all) : SiteOf[b] \in S}
        IN \E v \in Judgements(R) :
             /\ active' = active \cup R
             /\ verdict' = v
             /\ leaf' = [l \in Leaves |-> Installed(l, R, v)]
             /\ known' = all
             /\ expanded' = expanded \cup P
  <2>0. \A X : SUBSET {SiteOf[b] : b \in NewBonds(fresh, X)} \subseteq SUBSET Sites
    BY DEF NewBonds, Sites, Leaves
  <2>1. \E built \in SUBSET (IF fresh = {} THEN {} ELSE Species \ known) :
        \E partners \in SUBSET (IF fresh = {} THEN {} ELSE known) :
        \E S \in SUBSET {SiteOf[b] : b \in NewBonds(fresh, known \cup built)} :
          Grows(built, partners, S)
    BY DEF Expand
  <2> HIDE DEF Grows
  <2>2. \E built \in SUBSET (Species \ known), partners \in SUBSET known,
           S \in SUBSET Sites :
          Grows(built, partners, S)
    <3>1. PICK built \in SUBSET (IF fresh = {} THEN {} ELSE Species \ known) :
            \E partners \in SUBSET (IF fresh = {} THEN {} ELSE known) :
            \E S \in SUBSET Sites : Grows(built, partners, S)
      BY <2>1, <2>0
    <3>2. PICK partners \in SUBSET (IF fresh = {} THEN {} ELSE known) :
            \E S \in SUBSET Sites : Grows(built, partners, S)
      BY <3>1
    <3>3. built \in SUBSET (Species \ known) /\ partners \in SUBSET known
      OBVIOUS
    <3> QED BY <3>2, <3>3
  <2> QED BY <2>2 DEF Grows
<1> DEFINE all == known \cup built
           R == NewMembers(P, built)
                \cup NewHops((P \cap all) \cup built \cup partners)
                \cup {b \in NewBonds(fresh, all) : SiteOf[b] \in S}
           A == active \cup R
<1>3. PICK v \in Judgements(R) :
        /\ active' = A
        /\ verdict' = v
        /\ leaf' = [l \in Leaves |-> Installed(l, R, v)]
        /\ known' = all
        /\ expanded' = expanded \cup P
  BY <1>2
<1>4. /\ TypeOK /\ active \in SUBSET Leaves /\ event.leaf \in Leaves
      /\ \A l \in active : UpToDate(l)
      /\ \A l \in Leaves \ active : leaf[l] = {}
      /\ \A m \in Members : SpeciesOf[m] \in known <=> m \in active
      /\ PlacementsIndexed
  BY <1>1 DEF IInv, TypeOK, SurfaceInv, IndexInv, EventInv, Busy
<1>5. R \subseteq Leaves
  BY DEF NewMembers, NewHops, NewBonds, Leaves
<1>6. \A m \in Members : SpeciesOf[m] \in all <=> m \in A
  <2>1. \A m \in Members : m \notin Channels
    BY NetworkAssumption
  <2>2. \A m \in Members : m \in A <=> m \in active \/ SpeciesOf[m] \in built \cup (P \cap known)
    BY <2>1 DEF NewMembers, NewHops, NewBonds, Channels
  <2> QED BY <1>4, <2>2
<1>7. \A k \in R : Endpoints(k) \subseteq A
  <2>1. ASSUME NEW k \in NewMembers(P, built) PROVE Endpoints(k) \subseteq A
    BY <2>1 DEF NewMembers, Endpoints
  <2>2. ASSUME NEW k \in NewHops((P \cap all) \cup built \cup partners)
        PROVE  Endpoints(k) \subseteq A
    <3>1. k \in Hops /\ k \notin Members /\ k \notin Bonds /\ k \in Channels
      BY <2>2, NetworkAssumption DEF NewHops, Channels
    <3>2. SpeciesOf[EndA[k]] \in all /\ SpeciesOf[EndB[k]] \in all
      BY <2>2, <3>1, EngineAssumption DEF NewHops, HopSpecies
    <3>3. EndA[k] \in Members /\ EndB[k] \in Members
      BY <3>1, NetworkAssumption
    <3> QED BY <1>6, <3>1, <3>2, <3>3 DEF Endpoints
  <2>3. ASSUME NEW k \in NewBonds(fresh, all) PROVE Endpoints(k) \subseteq A
    <3>1. k \in Bonds /\ k \notin Members /\ k \in Channels
      BY <2>3, NetworkAssumption DEF NewBonds, Channels
    <3>2. SpeciesOf[EndA[k]] \in all /\ SpeciesOf[EndB[k]] \in all /\ ProductOf[k] \in all
      BY <2>3 DEF NewBonds, TemplateOf
    <3>3. /\ EndA[k] \in Members /\ EndB[k] \in Members
          /\ EndC[k] # NoMember => EndC[k] \in Members
      BY <3>1, NetworkAssumption
    <3>4. EndC[k] # NoMember => SpeciesOf[EndC[k]] \in all
      BY <3>1, <3>2, EngineAssumption
    <3> QED BY <1>6, <3>1, <3>2, <3>3, <3>4 DEF Endpoints
  <2> QED BY <2>1, <2>2, <2>3
<1> HIDE DEF R, P, fresh
<1>8. /\ \A l \in A : /\ Installed(l, R, v) = Offer(l, occ, bucket, v)
                      /\ Settled(l, v)
      /\ \A l \in Leaves \ A : Installed(l, R, v) = {}
  <2>1. A \in SUBSET Leaves /\ R \in SUBSET A
    BY <1>4, <1>5
  <2> HIDE DEF A
  <2>2. \A l \in A \ R : UpToDate(l)
    BY <1>4 DEF A
  <2>3. \A l \in Leaves \ A : leaf[l] = {}
    BY <1>4 DEF A
  <2> QED BY <1>4, <2>1, <2>2, <2>3, InstalledUpToDate
<1>9. /\ v \in [Classes -> Verdicts]
      /\ \A c \in Classes : \/ v[c] = verdict[c]
                            \/ verdict[c] = "undecided"
                            \/ verdict[c] = "stable" /\ v[c] = "composite"
  BY <1>4, <1>5, Judged
<1>10. TypeOK'
  <2>1. leaf' \in [Leaves -> SUBSET Reactions]
    BY <1>3, <1>4, InstalledType
  <2>2. P \subseteq Species
    <3>1. event.leaf \in Bonds
      BY <1>1 DEF IInv, EventInv
    <3> QED BY <3>1, NetworkAssumption, EngineAssumption DEF P, Produced, Channels
  <2> QED BY <1>1, <1>3, <1>4, <1>5, <1>9, <2>1, <2>2 DEF TypeOK
<1>11. SurfaceInv'
  <2>1. PlacementsIndexed'
    BY <1>1, <1>3, <1>4, <1>7 DEF PlacementsIndexed
  <2>2. \A m \in Members : SpeciesOf[m] \in known' <=> m \in active'
    BY <1>3, <1>6
  <2> QED BY <1>1, <2>1, <2>2 DEF IInv, SurfaceInv
<1>12. IndexInv'
  <2>1. A \in SUBSET Leaves
    BY <1>4, <1>5
  <2> HIDE DEF A, all
  <2>2. ASSUME NEW l \in A PROVE UpToDate(l)'
    BY <1>1, <1>3, <1>8, <2>1, <2>2 DEF UpToDate, Settled, Consults
  <2>3. ASSUME NEW l \in Leaves \ A PROVE leaf'[l] = {}
    BY <1>3, <1>8, <2>3
  <2> QED BY <1>1, <1>3, <2>1, <2>2, <2>3 DEF IndexInv
<1>13. EventInv'
  <2>1. event.class \in Classes
    BY <1>1 DEF IInv, EventInv, Busy
  <2> QED BY <1>1, <1>3, <1>9, <2>1 DEF IInv, EventInv, Busy
<1>14. NeverStale'
  BY <1>1 DEF NeverStale
<1> QED BY <1>10, <1>11, <1>12, <1>13, <1>14 DEF IInv

LEMMA ExpandNothingInv == IInv /\ ExpandNothing => IInv'
<1> SUFFICES ASSUME IInv, ExpandNothing PROVE IInv'
  OBVIOUS
<1>1. /\ pc = "expand" /\ pc' = "record"
      /\ UNCHANGED <<occ, bucket, active, leaf, verdict, known, expanded, event, step>>
  BY DEF ExpandNothing, surface, index, registry
<1>2. TypeOK' /\ SurfaceInv'
  BY <1>1 DEF IInv, TypeOK, SurfaceInv, PlacementsIndexed
<1>3. IndexInv'
  BY <1>1 DEF IInv, IndexInv, UpToDate, Settled, Consults
<1>4. EventInv' /\ NeverStale'
  BY <1>1 DEF IInv, EventInv, Busy, NeverStale
<1> QED BY <1>2, <1>3, <1>4 DEF IInv

LEMMA RecordInv == IInv /\ Record => IInv'
<1> SUFFICES ASSUME IInv, Record PROVE IInv'
  OBVIOUS
<1>1. /\ pc = "record" /\ pc' = "idle" /\ step' = step + 1 /\ event' = NoEvent
      /\ UNCHANGED <<occ, bucket, active, leaf, verdict, known, expanded>>
  BY DEF Record, surface, index, registry
<1>2. step + 1 \in 0 .. NSteps
  BY <1>1, EngineAssumption DEF IInv, TypeOK, EventInv, Busy
<1>3. TypeOK' /\ SurfaceInv'
  BY <1>1, <1>2 DEF IInv, TypeOK, SurfaceInv, PlacementsIndexed
<1>4. IndexInv'
  BY <1>1 DEF IInv, IndexInv, UpToDate, Settled, Consults
<1>5. EventInv' /\ NeverStale'
  BY <1>1 DEF EventInv, Busy, NeverStale
<1> QED BY <1>3, <1>4, <1>5 DEF IInv

LEMMA StutterInv == IInv /\ UNCHANGED vars => IInv'
<1> SUFFICES ASSUME IInv, UNCHANGED vars PROVE IInv'
  OBVIOUS
<1> USE DEF vars
<1>1. TypeOK' /\ SurfaceInv'
  BY DEF IInv, TypeOK, SurfaceInv, PlacementsIndexed
<1>2. IndexInv'
  BY DEF IInv, IndexInv, UpToDate, Settled, Consults, Affected
<1>3. EventInv' /\ NeverStale'
  BY DEF IInv, EventInv, Busy, NeverStale
<1> QED BY <1>1, <1>2, <1>3 DEF IInv

LEMMA StepInv == IInv /\ [Next]_vars => IInv'
BY InitialiseInv, SelectInv, EndInv, ExecuteInv, RecomputeInv,
   ExpandNothingInv, ExpandInv, RecordInv, StutterInv DEF Next

-----------------------------------------------------------------------------
(***************************************************************************)
(* The theorems.                                                           *)
(***************************************************************************)

\* The inductive invariant holds throughout every session, on every network
\* and whatever the calculations answer.
THEOREM Invariance == Spec => []IInv
BY InitInv, StepInv, PTL DEF Spec

\* The state keeps its type; the number of recorded events never passes
\* n_steps.
THEOREM TypeCorrect == Spec => []TypeOK
<1>1. IInv => TypeOK
  BY DEF IInv
<1> QED BY <1>1, Invariance, PTL

\* No two adsorbates ever claim the same exact clique, although hops and bond
\* events are executed without testing for it.
THEOREM ExclusionHolds == Spec => []Exclusion
<1>1. IInv => Exclusion
  BY DEF IInv, SurfaceInv, Exclusion
<1> QED BY <1>1, Invariance, PTL

\* The clique-occupancy index kept by _set_member_occupied is always the one a
\* scan of the graph would rebuild.
THEOREM OccupancyIndexHolds == Spec => []OccupancyIndexAgrees
<1>1. IInv => OccupancyIndexAgrees
  BY DEF IInv, SurfaceInv, OccupancyIndexAgrees, BucketOf
<1> QED BY <1>1, Invariance, PTL

\* Recomputing the affected leaves alone is equivalent to sweeping the whole
\* network after every event.
THEOREM IncrementalIsFull == Spec => []IndexFresh
<1>1. IInv => IndexFresh
  BY DEF IInv, TypeOK, IndexInv, UpToDate, IndexFresh
<1> QED BY <1>1, Invariance, PTL

\* Every event the occupancy allows on an indexed leaf is installed there, in
\* the class of its present surroundings, unless that class was rejected or
\* found composite.
THEOREM NothingOverlooked == Spec => []NoEventOverlooked
<1>1. IInv => NoEventOverlooked
  <2> SUFFICES ASSUME IInv, pc = "idle", NEW l \in active, NEW d \in Directions(l),
                      Applicable(l, d, occ, bucket),
                      verdict[LateralClass(l, occ)] \notin {"rejected", "composite"}
               PROVE  [dir |-> d, class |-> LateralClass(l, occ)] \in leaf[l]
    BY DEF NoEventOverlooked
  <2>1. TypeOK /\ l \in Leaves /\ occ \in SUBSET Members /\ UpToDate(l)
    BY DEF IInv, TypeOK, IndexInv
  <2>2. LateralClass(l, occ) \in Classes
    BY <2>1, ClassOfLeaf
  <2>3. verdict[LateralClass(l, occ)] # "undecided"
    BY <2>1 DEF UpToDate, Settled, Consults
  <2>4. verdict[LateralClass(l, occ)] = "stable"
    BY <2>1, <2>2, <2>3 DEF TypeOK, Verdicts
  <2> QED BY <2>1, <2>4 DEF UpToDate, Offer
<1> QED BY <1>1, Invariance, PTL

\* execute_reaction never raises "stale reaction".
THEOREM ExecutionNeverStale == Spec => []NeverStale
<1>1. IInv => NeverStale
  BY DEF IInv
<1> QED BY <1>1, Invariance, PTL

\* Once the step of an event is complete, its reverse is in the index with the
\* same lateral class, unless the class was found composite.
THEOREM ReversibleHolds == Spec => []Reversible
<1>1. IInv => Reversible
  <2> SUFFICES ASSUME IInv, pc = "record", verdict[event.class] # "composite"
               PROVE  [dir |-> Reverse(event.dir), class |-> event.class] \in leaf[event.leaf]
    BY DEF Reversible
  <2>1. /\ event.leaf \in Leaves /\ event.dir \in Directions(event.leaf)
        /\ UpToDate(event.leaf)
        /\ event.class = LateralClass(event.leaf, occ)
        /\ Applicable(event.leaf, Reverse(event.dir), occ, bucket)
        /\ verdict[event.class] = "stable"
    BY DEF IInv, TypeOK, IndexInv, EventInv, Busy
  <2>2. Reverse(event.dir) \in Directions(event.leaf)
    BY <2>1, EventShape
  <2> QED BY <2>1, <2>2 DEF UpToDate, Offer
<1> QED BY <1>1, Invariance, PTL

\* An occupied placement is always indexed, and so is every placement an
\* indexed hop or bond can fill, however the network has grown.
THEOREM PlacementsIndexedHolds == Spec => []PlacementsIndexed
<1>1. IInv => PlacementsIndexed
  BY DEF IInv, SurfaceInv
<1> QED BY <1>1, Invariance, PTL

-----------------------------------------------------------------------------
(***************************************************************************)
(* The engine implements the lattice gas.                                  *)
(***************************************************************************)
LEMMA SameNetwork ==
  /\ Gas!Leaves = Leaves
  /\ \A l, d : /\ Gas!Directions(l) = Directions(l)
              /\ Gas!Sources(l, d) = Sources(l, d)
              /\ Gas!Targets(l, d) = Targets(l, d)
  /\ \A l, d, o : Gas!After(l, d, o) = After(l, d, o)
  /\ \A o : Gas!Exclusive(o) <=> Exclusive(o)
<1>1. \A l : Gas!Endpoints(l) = Endpoints(l) /\ Gas!Directions(l) = Directions(l)
  BY DEF Gas!Endpoints, Endpoints, Gas!Directions, Directions
<1>2. \A l, d : /\ Gas!Sources(l, d) = Sources(l, d)
                /\ Gas!Targets(l, d) = Targets(l, d)
  BY <1>1 DEF Gas!Sources, Sources, Gas!Targets, Targets
<1>3. \A l, d, o : Gas!After(l, d, o) = After(l, d, o)
  BY <1>2 DEF Gas!After, After
<1>4. \A o : Gas!Exclusive(o) <=> Exclusive(o)
  BY DEF Gas!Exclusive, Exclusive, Gas!ShareClique, ShareClique
<1>5. Gas!Leaves = Leaves
  BY DEF Gas!Leaves, Leaves
<1> QED BY <1>1, <1>2, <1>3, <1>4, <1>5

\* An execution is an event of the gas; every other step leaves the surface.
LEMMA StepImplements == IInv /\ [Next]_vars => [Gas!Next]_occ
<1> SUFFICES ASSUME IInv, [Next]_vars, occ' # occ PROVE Gas!Next
  OBVIOUS
<1>1. Execute
  BY DEF Next, vars, Initialise, Select, Stop, Complete, Recompute,
         ExpandNothing, Expand, Fail, Record, Terminated, surface
<1> DEFINE l == event.leaf
           d == event.dir
<1>2. /\ l \in Leaves /\ d \in Directions(l) /\ occ \in SUBSET Members
      /\ Exclusive(occ) /\ Applicable(l, d, occ, BucketOf(occ))
      /\ occ' = After(l, d, occ)
  BY <1>1 DEF Execute, surface, IInv, TypeOK, SurfaceInv, EventInv, Busy
<1>3. Exclusive(After(l, d, occ))
  BY <1>2, ApplicableIsExclusive
<1>4. Sources(l, d) \subseteq occ /\ Targets(l, d) \cap occ = {}
  BY <1>2 DEF Applicable
<1>5. Gas!Event(l, d)
  BY <1>2, <1>3, <1>4, SameNetwork DEF Gas!Event
<1> QED BY <1>2, <1>5, SameNetwork DEF Gas!Next

\* Selection, recomputation and growth are invisible on the surface: the
\* engine is a lattice gas with exact-clique exclusion.
THEOREM Refinement == Spec => ImplementsLatticeGas
<1>1. Init => Gas!Init
  BY DEF Init, Gas!Init
<1>2. IInv /\ [Next]_vars => [Gas!Next]_occ
  BY StepImplements
<1> QED BY <1>1, <1>2, Invariance, PTL DEF Spec, ImplementsLatticeGas, Gas!Spec
=============================================================================
