----------------------- MODULE NetworkExpansionProofs -----------------------
(***************************************************************************)
(* Proofs about the expansion of the reaction network.                     *)
(*                                                                         *)
(* NetworkConsistent is not inductive: it says nothing of the network in   *)
(* the middle of an expansion, where a species may be known without its    *)
(* placements, the graph may hold the nodes of a failed search, templates  *)
(* derived for a species are not registered yet and its hops are due.      *)
(* IInv says at every stage what is still missing and where in the job it  *)
(* is accounted for.  What the enumerators return comes first, for every   *)
(* ring, every set of species and every verdict of the calculator: a hop   *)
(* belongs to one species, a bond class to one template, and each triple   *)
(* with a stable class gets exactly one.  The choices among isomorphic or  *)
(* competing classes are CHOOSE expressions over sizes; they mean          *)
(* something because every size is a number and every set of numbers has a *)
(* least one.                                                              *)
(***************************************************************************)
EXTENDS NetworkExpansion, FiniteSetTheorems, SequenceTheorems, TLAPS

---------------------------------------------------------------------------
(* Numbers and finite sets.                                                *)

\* Every set of natural numbers has a least element.
LEMMA LeastExists ==
  ASSUME NEW S, S \subseteq Nat, S # {}
  PROVE  \E m \in S : \A k \in S : m <= k
<1> DEFINE R == {ss \in Nat \X Nat : ss[1] < ss[2]}
<1>1. IsWellFoundedOn(R, Nat)
  BY NatLessThanWellFounded DEF OpToRel
<1>2. PICK x \in S : \A y \in S : ~(<<y, x>> \in R)
  <2> HIDE DEF R
  <2> QED BY <1>1, WFMin
<1>3. ASSUME NEW k \in S PROVE x <= k
  <2>1. ~(k < x)
    BY <1>2
  <2> QED BY <2>1
<1> QED BY <1>3

\* Every bounded set of natural numbers has a greatest element.
LEMMA GreatestExists ==
  ASSUME NEW S, NEW n \in Nat, S \subseteq 0 .. n, S # {}
  PROVE  \E m \in S : \A k \in S : m >= k
<1> DEFINE D == {n - x : x \in S}
<1>1. D \subseteq Nat
  OBVIOUS
<1>2. PICK d \in D : \A e \in D : d <= e
  <2>1. D # {}
    OBVIOUS
  <2> HIDE DEF D
  <2> QED BY <1>1, <2>1, LeastExists
<1>3. PICK m \in S : d = n - m
  OBVIOUS
<1>4. ASSUME NEW k \in S PROVE m >= k
  <2>1. d <= n - k
    BY <1>2
  <2> QED BY <2>1, <1>3
<1> QED BY <1>4

\* The least and the greatest element of a set of numbers, as the model
\* takes them.
LEMMA MinIn ==
  ASSUME NEW S, S \subseteq Nat, S # {}
  PROVE  Min(S) \in S
BY LeastExists DEF Min

LEMMA MaxIn ==
  ASSUME NEW S, NEW n \in Nat, S \subseteq 0 .. n, S # {}
  PROVE  Max(S) \in S
BY GreatestExists DEF Max

\* The image of a finite set under a function is finite.
LEMMA ImageFinite ==
  ASSUME NEW f, IsFiniteSet(DOMAIN f), f = [x \in DOMAIN f |-> f[x]]
  PROVE  IsFiniteSet({f[x] : x \in DOMAIN f})
<1>1. f \in Surjection(DOMAIN f, {f[x] : x \in DOMAIN f})
  BY DEF Surjection
<1> QED BY <1>1, FS_Surjection

\* There are finitely many functions between two finite sets.
LEMMA FunctionsFinite ==
  ASSUME NEW S, NEW T, IsFiniteSet(S), IsFiniteSet(T)
  PROVE  IsFiniteSet([S -> T])
<1> DEFINE graph == [f \in [S -> T] |-> {<<x, f[x]>> : x \in S}]
<1>1. IsFiniteSet(SUBSET (S \X T))
  BY FS_Product, FS_SUBSET
<1>2. graph \in [[S -> T] -> SUBSET (S \X T)]
  OBVIOUS
<1>3. ASSUME NEW f \in [S -> T], NEW g \in [S -> T], graph[f] = graph[g]
      PROVE  f = g
  <2>1. ASSUME NEW x \in S PROVE f[x] = g[x]
    <3>1. <<x, f[x]>> \in graph[g]
      BY <1>3
    <3> QED BY <3>1
  <2> QED BY <2>1
<1>4. graph \in Injection([S -> T], SUBSET (S \X T))
  BY <1>2, <1>3 DEF Injection, IsInjective
<1> QED BY <1>1, <1>4, FS_Injection

---------------------------------------------------------------------------
(* Distances on the ring.                                                  *)

LEMMA RingSize == N \in Nat \ {0} /\ 2 * N \in Nat \ {0} /\ 0 \in Positions
BY SurfaceAssumption DEF Positions

LEMMA ApartInRange ==
  ASSUME NEW p \in Int, NEW q \in Int, NEW around \in Nat \ {0}
  PROVE  Apart(p, q, around) \in 0 .. around
<1> DEFINE a == (p - q) % around
           b == (q - p) % around
<1>1. a \in 0 .. around /\ b \in 0 .. around
  OBVIOUS
<1> HIDE DEF a, b
<1>2. {a, b} \subseteq Nat /\ {a, b} # {}
  BY <1>1
<1>3. Min({a, b}) \in {a, b}
  BY ONLY <1>2, MinIn
<1> QED BY <1>1, <1>3 DEF Apart, a, b

LEMMA HopsApartInRange ==
  ASSUME NEW A, NEW B, A \subseteq Int, B \subseteq Int, A # {}, B # {}
  PROVE  HopsApart(A, B) \in 0 .. N
<1> DEFINE D == {Apart(a, b, N) : a \in A, b \in B}
<1>1. D \subseteq 0 .. N
  <2>1. \A a \in A, b \in B : Apart(a, b, N) \in 0 .. N
    BY ApartInRange, RingSize
  <2> QED BY <2>1
<1>2. D # {}
  <2>1. PICK a \in A, b \in B : TRUE
    OBVIOUS
  <2>2. Apart(a, b, N) \in D
    OBVIOUS
  <2> QED BY <2>2
<1>3. D \subseteq Nat
  BY <1>1, RingSize
<1> HIDE DEF D
<1>4. Min(D) \in D
  BY <1>2, <1>3, MinIn
<1> QED BY <1>1, <1>4 DEF HopsApart, D

LEMMA CliqueAtoms ==
  ASSUME NEW p \in Nat
  PROVE  Clique(p) \subseteq Int /\ Clique(p) # {}
<1>1. p \div 2 \in Int /\ (p \div 2 + 1) % N \in Int
  BY RingSize
<1> QED BY <1>1 DEF Clique

---------------------------------------------------------------------------
(* Placements.                                                             *)

\* Every way of putting a molecule on the ring, whether it fits or not.
Arrangements(s) ==
  {[species |-> s, at |-> at] : at \in UNION {[sub -> Positions] : sub \in Bonded[s] \ {{}}}}

LEMMA ArrangementShape ==
  ASSUME NEW s, NEW p \in Arrangements(s)
  PROVE  /\ p.species = s
         /\ DOMAIN p.at # {}
         /\ p.at \in [DOMAIN p.at -> Positions]
         /\ DOMAIN p.at \in Bonded[s]
         /\ p = [species |-> s, at |-> p.at]
BY DEF Arrangements

LEMMA PlacementsArranged ==
  ASSUME NEW s
  PROVE  Placements(s) \subseteq Arrangements(s)
BY DEF Placements, Arrangements

LEMMA ArrangementsFinite ==
  ASSUME NEW s \in Species
  PROVE  IsFiniteSet(Arrangements(s))
<1> DEFINE subs == Bonded[s] \ {{}}
           fs == [sub \in subs |-> [sub -> Positions]]
           ats == UNION {[sub -> Positions] : sub \in subs}
           make == [at \in ats |-> [species |-> s, at |-> at]]
<1>1. IsFiniteSet(subs) /\ \A sub \in subs : IsFiniteSet(sub)
  BY SurfaceAssumption, FS_Difference
<1>2. IsFiniteSet(Positions)
  BY FS_Interval, RingSize DEF Positions
<1>3. IsFiniteSet({fs[sub] : sub \in DOMAIN fs})
  BY <1>1, ImageFinite
<1>4. {fs[sub] : sub \in DOMAIN fs} = {[sub -> Positions] : sub \in subs}
  OBVIOUS
<1>5. \A T \in {[sub -> Positions] : sub \in subs} : IsFiniteSet(T)
  BY <1>1, <1>2, FunctionsFinite
<1>6. IsFiniteSet(ats)
  BY <1>3, <1>4, <1>5, FS_UNION
<1>7. IsFiniteSet({make[at] : at \in DOMAIN make})
  <2>1. DOMAIN make = ats /\ make = [at \in DOMAIN make |-> make[at]]
    OBVIOUS
  <2> HIDE DEF make
  <2> QED BY <1>6, <2>1, ImageFinite
<1>8. {make[at] : at \in DOMAIN make} = Arrangements(s)
  BY DEF Arrangements
<1> QED BY <1>7, <1>8

LEMMA ArrangementAtoms ==
  ASSUME NEW s, NEW p \in Arrangements(s)
  PROVE  CliqueUnion(p) \subseteq Int /\ CliqueUnion(p) # {}
<1>1. \A i \in DOMAIN p.at : p.at[i] \in Nat
  BY ArrangementShape, RingSize DEF Positions
<1>2. \A i \in DOMAIN p.at : Clique(p.at[i]) \subseteq Int /\ Clique(p.at[i]) # {}
  BY <1>1, CliqueAtoms
<1>3. DOMAIN p.at # {}
  BY ArrangementShape
<1> QED BY <1>2, <1>3 DEF CliqueUnion, CliquesOf

LEMMA CliqueUnionFinite ==
  ASSUME NEW s, NEW p \in Arrangements(s)
  PROVE  IsFiniteSet(CliqueUnion(p))
<1>1. IsFiniteSet(0 .. 2 * N)
  BY RingSize, FS_Interval
<1>2. \A i \in DOMAIN p.at : Clique(p.at[i]) \subseteq 0 .. 2 * N
  <2> SUFFICES ASSUME NEW i \in DOMAIN p.at PROVE Clique(p.at[i]) \subseteq 0 .. 2 * N
    OBVIOUS
  <2>1. p.at[i] \in 0 .. 2 * N - 1
    BY ArrangementShape DEF Positions
  <2> DEFINE q == p.at[i]
  <2> HIDE DEF q
  <2>2. q \in 0 .. 2 * N - 1
    BY <2>1 DEF q
  <2>3. q \div 2 \in 0 .. 2 * N
    BY <2>2, RingSize
  <2>4. (q \div 2 + 1) % N \in 0 .. 2 * N
    BY <2>2, RingSize
  <2>5. Clique(q) \subseteq 0 .. 2 * N
    BY <2>3, <2>4 DEF Clique
  <2> QED BY <2>5 DEF q
<1>3. CliqueUnion(p) \subseteq 0 .. 2 * N
  BY <1>2 DEF CliqueUnion, CliquesOf
<1> QED BY <1>1, <1>3, FS_Subset

\* A symmetry of the ring maps arrangements to arrangements.
LEMMA ImageArranged ==
  ASSUME NEW s, NEW p \in Arrangements(s), NEW g \in Symmetries
  PROVE  Image(p, g) \in Arrangements(s)
<1> DEFINE at == [i \in DOMAIN p.at |-> (g[2] * p.at[i] + 2 * g[1]) % (2 * N)]
<1>1. ASSUME NEW i \in DOMAIN p.at PROVE at[i] \in Positions
  <2>1. p.at[i] \in Int
    BY ArrangementShape, RingSize DEF Positions
  <2>2. g[1] \in Int /\ g[2] \in {1, -1}
    BY RingSize DEF Symmetries
  <2>3. g[2] * p.at[i] + 2 * g[1] \in Int
    BY <2>1, <2>2
  <2>4. \A z \in Int : z % (2 * N) \in Positions
    BY RingSize DEF Positions
  <2> QED BY <2>3, <2>4
<1>2. at \in [DOMAIN p.at -> Positions]
  BY <1>1
<1>3. Image(p, g) = [species |-> s, at |-> at]
  <2>1. p = [species |-> s, at |-> p.at]
    BY ArrangementShape
  <2> QED BY <2>1 DEF Image
<1>4. DOMAIN p.at \in Bonded[s] \ {{}}
  BY ArrangementShape
<1> HIDE DEF at
<1> QED BY <1>2, <1>3, <1>4 DEF Arrangements

LEMMA SomeSymmetry == Symmetries # {} /\ <<0, 1>> \in Symmetries /\ IsFiniteSet(Symmetries)
<1>1. <<0, 1>> \in Symmetries
  BY RingSize DEF Symmetries
<1>2. IsFiniteSet(0 .. N - 1)
  BY RingSize, FS_Interval
<1>3. IsFiniteSet({1, -1})
  <2>1. IsFiniteSet({1}) /\ IsFiniteSet({-1}) /\ {1, -1} = {1} \cup {-1}
    BY FS_Singleton
  <2> QED BY <2>1, FS_Union
<1> QED BY <1>1, <1>2, <1>3, FS_Product DEF Symmetries

---------------------------------------------------------------------------
(* Sites: the iso-classes of placements.                                   *)

LEMMA SiteMembers ==
  ASSUME NEW s, NEW p \in Arrangements(s)
  PROVE  /\ SiteOf(p).species = s
         /\ SiteOf(p).members \subseteq Arrangements(s)
BY ArrangementShape, ImageArranged DEF SiteOf

LEMMA StableSiteShape ==
  ASSUME NEW s, NEW c \in CandidateSites(s)
  PROVE  c.species = s /\ c.members \subseteq Arrangements(s)
BY PlacementsArranged, SiteMembers DEF CandidateSites

LEMMA CandidateSitesFinite ==
  ASSUME NEW s \in Species
  PROVE  IsFiniteSet(CandidateSites(s))
<1> DEFINE make == [p \in Placements(s) |-> SiteOf(p)]
<1>1. IsFiniteSet(Placements(s))
  BY PlacementsArranged, ArrangementsFinite, FS_Subset
<1>2. DOMAIN make = Placements(s) /\ make = [p \in DOMAIN make |-> make[p]]
  OBVIOUS
<1>3. {make[p] : p \in DOMAIN make} = CandidateSites(s)
  BY DEF CandidateSites
<1> HIDE DEF make
<1> QED BY <1>1, <1>2, <1>3, ImageFinite

---------------------------------------------------------------------------
(* Hops.                                                                   *)

\* Both ends of every pair of the class are arrangements of s.
HopOf(h, s) ==
  h # {} /\ \A pq \in h : pq # {} /\ IsFiniteSet(pq) /\ pq \subseteq Arrangements(s)

\* How far the placements of a set are apart.
LEMMA WidthInRange ==
  ASSUME NEW ps, ps # {}, \A p \in ps : \E s : p \in Arrangements(s)
  PROVE  Max({HopsApart(CliqueUnion(p), CliqueUnion(q)) : p, q \in ps}) \in Nat
<1> DEFINE D == {HopsApart(CliqueUnion(p), CliqueUnion(q)) : p, q \in ps}
<1>1. \A p, q \in ps : HopsApart(CliqueUnion(p), CliqueUnion(q)) \in 0 .. N
  BY ArrangementAtoms, HopsApartInRange
<1>2. D \subseteq 0 .. N
  BY <1>1
<1>3. D # {}
  <2>1. PICK p \in ps : TRUE
    OBVIOUS
  <2>2. HopsApart(CliqueUnion(p), CliqueUnion(p)) \in D
    BY <2>1
  <2> HIDE DEF D
  <2> QED BY <2>2
<1> HIDE DEF D
<1>4. Max(D) \in D
  BY <1>2, <1>3, MaxIn, RingSize
<1>5. Max(D) \in 0 .. N
  BY <1>2, <1>4
<1>6. Max(D) \in Nat
  BY <1>5, RingSize
<1> QED BY <1>6 DEF D

LEMMA HopSizes ==
  ASSUME NEW s, NEW h, HopOf(h, s)
  PROVE  HopLength(h) \in Nat
<1> DEFINE pq == CHOOSE x \in h : TRUE
<1>1. pq \in h
  BY DEF HopOf
<1>2. pq # {} /\ pq \subseteq Arrangements(s)
  BY <1>1 DEF HopOf
<1>3. HopLength(h) = Max({HopsApart(CliqueUnion(p), CliqueUnion(q)) : p, q \in pq})
  BY DEF HopLength
<1> HIDE DEF pq
<1>4. \A p \in pq : p \in Arrangements(s)
  BY <1>2
<1> QED BY <1>2, <1>3, <1>4, WidthInRange

LEMMA CandidateHopShape ==
  ASSUME NEW s, NEW sites, \A c \in sites : c.members \subseteq Arrangements(s),
         NEW h \in CandidateHops(sites)
  PROVE  HopOf(h, s)
<1> DEFINE members == UNION {c.members : c \in sites}
<1>1. members \subseteq Arrangements(s)
  OBVIOUS
<1>2. PICK p \in members, q \in members : h = HopClass({p, q})
  BY DEF CandidateHops
<1>3. ASSUME NEW xy \in h
      PROVE  xy # {} /\ IsFiniteSet(xy) /\ xy \subseteq Arrangements(s)
  <2>1. PICK g \in Symmetries : xy = {Image(r, g) : r \in {p, q}}
    BY <1>2, <1>3 DEF HopClass
  <2>2. xy = {Image(p, g)} \cup {Image(q, g)}
    BY <2>1
  <2>3. Image(p, g) \in Arrangements(s) /\ Image(q, g) \in Arrangements(s)
    BY <1>1, <1>2, ImageArranged
  <2>4. IsFiniteSet({Image(p, g)}) /\ IsFiniteSet({Image(q, g)})
    BY FS_Singleton
  <2> QED BY <2>2, <2>3, <2>4, FS_Union
<1>4. h # {}
  <2>1. {Image(r, <<0, 1>>) : r \in {p, q}} \in h
    BY <1>2, SomeSymmetry DEF HopClass
  <2> QED BY <2>1
<1> QED BY <1>3, <1>4 DEF HopOf

\* Pruning keeps some of the candidates.
LEMMA OnePerPairKept ==
  ASSUME NEW candidates, \A h \in candidates : HopLength(h) \in Nat
  PROVE  OnePerPair(candidates) \subseteq candidates
<1> SUFFICES ASSUME NEW x \in OnePerPair(candidates) PROVE x \in candidates
  OBVIOUS
<1>1. PICK h \in candidates :
        LET same == {k \in candidates : EndSites(k) = EndSites(h)}
        IN  x = CHOOSE y \in same : \A k \in same : HopLength(y) <= HopLength(k)
  BY DEF OnePerPair
<1> DEFINE same == {k \in candidates : EndSites(k) = EndSites(h)}
           sizes == {HopLength(k) : k \in same}
<1>2. \E y \in same : \A k \in same : HopLength(y) <= HopLength(k)
  <2>1. sizes \subseteq Nat
    OBVIOUS
  <2>2. HopLength(h) \in sizes
    OBVIOUS
  <2>3. PICK m \in sizes : \A k \in sizes : m <= k
    <3> HIDE DEF sizes
    <3> QED BY <2>1, <2>2, LeastExists
  <2>4. PICK y \in same : m = HopLength(y)
    OBVIOUS
  <2>5. \A k \in same : HopLength(y) <= HopLength(k)
    BY <2>3, <2>4
  <2> QED BY <2>5
<1>3. x = CHOOSE y \in same : \A k \in same : HopLength(y) <= HopLength(k)
  BY <1>1
<1>4. x \in same
  <2> HIDE DEF same
  <2> QED BY <1>2, <1>3
<1> QED BY <1>4

\* The candidates found for the sites of one species are candidates of that species.
LEMMA FoundHops ==
  ASSUME NEW s, NEW sites, \A c \in sites : c.members \subseteq Arrangements(s),
         NEW h \in FindHops(sites, TRUE)
  PROVE  HopOf(h, s)
<1>1. \A k \in CandidateHops(sites) : HopOf(k, s)
  BY CandidateHopShape
<1>2. \A k \in CandidateHops(sites) : HopLength(k) \in Nat
  BY <1>1, HopSizes
<1>3. h \in CandidateHops(sites)
  BY <1>2, OnePerPairKept DEF FindHops
<1> QED BY <1>1, <1>3

\* A hop belongs to one species only.
LEMMA HopsApartBySpecies ==
  ASSUME NEW s, NEW z, NEW h, HopOf(h, s), HopOf(h, z)
  PROVE  s = z
<1>1. PICK pq \in h : pq # {} /\ pq \subseteq Arrangements(s) /\ pq \subseteq Arrangements(z)
  BY DEF HopOf
<1>2. PICK p \in pq : p \in Arrangements(s) /\ p \in Arrangements(z)
  BY <1>1
<1> QED BY <1>2, ArrangementShape

---------------------------------------------------------------------------
(* Bond sites.                                                             *)

\* The reactants of every triple of the class are arrangements.
BondOf(b, t) ==
  /\ b.template = t
  /\ b.members # {}
  /\ \A m \in b.members :
       /\ IsFiniteSet(m.ab) /\ m.ab # {}
       /\ m.ab \subseteq Arrangements(t[1]) \cup Arrangements(t[2])
       /\ m.c.at = <<>> \/ m.c \in Arrangements(t[3])

LEMMA BondSizes ==
  ASSUME NEW t, NEW b, BondOf(b, t)
  PROVE  EgoSize(b) \in Nat
<1> DEFINE m == CHOOSE x \in b.members : TRUE
           all == m.ab \cup (IF m.c.at = <<>> THEN {} ELSE {m.c})
           atoms == UNION {CliqueUnion(p) : p \in all}
           width == Max({HopsApart(CliqueUnion(p), CliqueUnion(q)) : p, q \in m.ab})
<1>1. m \in b.members
  BY DEF BondOf
<1>2. /\ IsFiniteSet(m.ab) /\ m.ab # {}
      /\ \A p \in all : \E s : p \in Arrangements(s)
      /\ IsFiniteSet(all)
  <2>1. IsFiniteSet(m.ab) /\ m.ab # {} /\ \A p \in all : \E s : p \in Arrangements(s)
    BY <1>1 DEF BondOf
  <2>2. IsFiniteSet(IF m.c.at = <<>> THEN {} ELSE {m.c})
    BY FS_EmptySet, FS_Singleton
  <2> QED BY <2>1, <2>2, FS_Union
<1>3. EgoSize(b) = N * width + Cardinality(atoms)
  BY DEF EgoSize
<1>4. width \in Nat
  <2> DEFINE ab == m.ab
  <2>1. ab # {} /\ \A p \in ab : \E s : p \in Arrangements(s)
    BY <1>2
  <2> HIDE DEF ab
  <2>2. Max({HopsApart(CliqueUnion(p), CliqueUnion(q)) : p, q \in ab}) \in Nat
    BY <2>1, WidthInRange
  <2> QED BY <2>2 DEF ab
<1>5. IsFiniteSet(atoms)
  <2>1. IsFiniteSet({CliqueUnion(p) : p \in all})
    <3> DEFINE f == [p \in all |-> CliqueUnion(p)]
    <3> HIDE DEF all
    <3>1. f = [p \in DOMAIN f |-> f[p]] /\ IsFiniteSet(DOMAIN f)
      BY <1>2
    <3>2. {f[p] : p \in DOMAIN f} = {CliqueUnion(p) : p \in all}
      OBVIOUS
    <3> HIDE DEF f
    <3> QED BY <3>1, <3>2, ImageFinite
  <2>2. \A p \in all : IsFiniteSet(CliqueUnion(p))
    BY <1>2, CliqueUnionFinite
  <2> HIDE DEF all
  <2>3. \A T \in {CliqueUnion(p) : p \in all} : IsFiniteSet(T)
    BY <2>2
  <2> QED BY <2>1, <2>3, FS_UNION
<1>6. Cardinality(atoms) \in Nat
  BY <1>5, FS_CardinalityType
<1> HIDE DEF atoms, width
<1> QED BY <1>3, <1>4, <1>6, RingSize

LEMMA BondClassShape ==
  ASSUME NEW t, NEW m, IsFiniteSet(m.ab), m.ab # {},
         m.ab \subseteq Arrangements(t[1]) \cup Arrangements(t[2]),
         m.c = Gas(t[3]) \/ m.c \in Arrangements(t[3])
  PROVE  BondOf(BondClass(t, m), t)
<1> DEFINE image(g) == [ab |-> {Image(p, g) : p \in m.ab}, c |-> Image(m.c, g)]
<1>1. BondClass(t, m) = [template |-> t, members |-> {image(g) : g \in Symmetries}]
  BY DEF BondClass
<1>2. ASSUME NEW g \in Symmetries
      PROVE  /\ IsFiniteSet(image(g).ab) /\ image(g).ab # {}
             /\ image(g).ab \subseteq Arrangements(t[1]) \cup Arrangements(t[2])
             /\ image(g).c.at = <<>> \/ image(g).c \in Arrangements(t[3])
  <2>1. image(g).ab = {Image(p, g) : p \in m.ab} /\ image(g).c = Image(m.c, g)
    OBVIOUS
  <2>2. IsFiniteSet({Image(p, g) : p \in m.ab})
    <3> DEFINE f == [p \in m.ab |-> Image(p, g)]
    <3>1. f = [p \in DOMAIN f |-> f[p]] /\ IsFiniteSet(DOMAIN f)
      OBVIOUS
    <3>2. {f[p] : p \in DOMAIN f} = {Image(p, g) : p \in m.ab}
      OBVIOUS
    <3> HIDE DEF f
    <3> QED BY <3>1, <3>2, ImageFinite
  <2>3. \A p \in m.ab : Image(p, g) \in Arrangements(t[1]) \cup Arrangements(t[2])
    BY ImageArranged
  <2>4. Image(m.c, g).at = <<>> \/ Image(m.c, g) \in Arrangements(t[3])
    <3>1. CASE m.c = Gas(t[3])
      <4>1. DOMAIN m.c.at = {} /\ "at" \in DOMAIN m.c
        BY <3>1 DEF Gas
      <4>2. Image(m.c, g).at = [i \in {} |-> (g[2] * m.c.at[i] + 2 * g[1]) % (2 * N)]
        BY <4>1 DEF Image
      <4>3. [i \in {} |-> (g[2] * m.c.at[i] + 2 * g[1]) % (2 * N)] = <<>>
        OBVIOUS
      <4> QED BY <4>2, <4>3
    <3>2. CASE m.c \in Arrangements(t[3])
      BY <3>2, ImageArranged
    <3> QED BY <3>1, <3>2
  <2>5. m.ab # {} => {Image(p, g) : p \in m.ab} # {}
    OBVIOUS
  <2> QED BY <2>1, <2>2, <2>3, <2>4, <2>5
<1> HIDE DEF image
<1>3. {image(g) : g \in Symmetries} # {}
  BY SomeSymmetry
<1> QED BY <1>1, <1>2, <1>3 DEF BondOf

\* Sites as an enumeration finds them: iso-classes of arrangements, finitely
\* many for each species.
SitesFound(sites) ==
  \A c \in sites : c.species \in Species /\ c \in CandidateSites(c.species)

LEMMA MembersArranged ==
  ASSUME NEW sites, SitesFound(sites), NEW s
  PROVE  MembersOf(sites, s) \subseteq Arrangements(s)
BY StableSiteShape DEF SitesFound, MembersOf, OfSpecies

\* The bond sites of a template depend on the sites of its species only.
LEMMA BondsLocal ==
  ASSUME NEW t, NEW sites, NEW others,
         \A s \in {t[1], t[2], t[3]} : OfSpecies(sites, s) = OfSpecies(others, s)
  PROVE  FindBonds(t, sites) = FindBonds(t, others)
<1>1. /\ MembersOf(sites, t[1]) = MembersOf(others, t[1])
      /\ MembersOf(sites, t[2]) = MembersOf(others, t[2])
      /\ MembersOf(sites, t[3]) = MembersOf(others, t[3])
  BY DEF MembersOf
<1>2. Triples(t, sites) = Triples(t, others)
  BY <1>1 DEF Triples
<1> QED BY <1>2 DEF FindBonds

LEMMA TripleShape ==
  ASSUME NEW t, NEW sites, SitesFound(sites), NEW m \in Triples(t, sites)
  PROVE  /\ IsFiniteSet(m.ab) /\ m.ab # {}
         /\ m.ab \subseteq Arrangements(t[1]) \cup Arrangements(t[2])
         /\ m.c = Gas(t[3]) \/ m.c \in Arrangements(t[3])
<1>1. PICK a \in MembersOf(sites, t[1]), b \in MembersOf(sites, t[2]),
           c \in MembersOf(sites, t[3]) \cup {Gas(t[3])} : m = [ab |-> {a, b}, c |-> c]
  BY DEF Triples
<1>2. m.ab = {a} \cup {b} /\ m.c = c
  BY <1>1
<1>3. IsFiniteSet(m.ab)
  <2>1. IsFiniteSet({a}) /\ IsFiniteSet({b})
    BY FS_Singleton
  <2>2. IsFiniteSet({a} \cup {b})
    BY <2>1, FS_Union
  <2> QED BY <1>2, <2>2
<1> QED BY <1>1, <1>2, <1>3, MembersArranged

LEMMA FoundBondShape ==
  ASSUME NEW t, NEW sites, SitesFound(sites), NEW b \in FindBonds(t, sites)
  PROVE  BondOf(b, t)
<1>1. PICK m \in Triples(t, sites) : b = BondClass(t, m)
  BY DEF FindBonds
<1> QED BY <1>1, TripleShape, BondClassShape

LEMMA FoundBondsFinite ==
  ASSUME NEW t \in Species \X Species \X Species, NEW sites, SitesFound(sites)
  PROVE  IsFiniteSet(FindBonds(t, sites))
<1> DEFINE A == MembersOf(sites, t[1])
           B == MembersOf(sites, t[2])
           C == MembersOf(sites, t[3]) \cup {Gas(t[3])}
           make == [x \in A \X B \X C |-> [ab |-> {x[1], x[2]}, c |-> x[3]]]
           classOf == [m \in Triples(t, sites) |-> BondClass(t, m)]
<1>1. IsFiniteSet(A) /\ IsFiniteSet(B) /\ IsFiniteSet(C)
  <2>1. \A s \in Species : IsFiniteSet(MembersOf(sites, s))
    BY MembersArranged, ArrangementsFinite, FS_Subset
  <2>2. t[1] \in Species /\ t[2] \in Species /\ t[3] \in Species
    OBVIOUS
  <2> QED BY <2>1, <2>2, FS_Singleton, FS_Union
<1>2. IsFiniteSet(A \X B \X C)
  <2>1. IsFiniteSet((A \X B) \X C)
    BY <1>1, FS_Product
  <2> DEFINE flat == [x \in (A \X B) \X C |-> <<x[1][1], x[1][2], x[2]>>]
  <2>2. {flat[x] : x \in DOMAIN flat} = A \X B \X C
    <3>1. \A y \in A \X B \X C : y = flat[<<<<y[1], y[2]>>, y[3]>>]
      OBVIOUS
    <3>2. \A x \in (A \X B) \X C : flat[x] \in A \X B \X C
      OBVIOUS
    <3>3. \A y \in A \X B \X C : <<<<y[1], y[2]>>, y[3]>> \in DOMAIN flat
      OBVIOUS
    <3>4. DOMAIN flat = (A \X B) \X C
      OBVIOUS
    <3>5. \A y \in A \X B \X C : \E x \in (A \X B) \X C : y = flat[x]
      BY <3>1, <3>3, <3>4
    <3> HIDE DEF flat, A, B, C
    <3>6. {flat[x] : x \in DOMAIN flat} \subseteq A \X B \X C
      BY <3>2, <3>4
    <3>7. A \X B \X C \subseteq {flat[x] : x \in DOMAIN flat}
      BY <3>4, <3>5
    <3> QED BY <3>6, <3>7
  <2>3. DOMAIN flat = (A \X B) \X C /\ flat = [x \in DOMAIN flat |-> flat[x]]
    OBVIOUS
  <2> HIDE DEF flat
  <2> QED BY <2>1, <2>2, <2>3, ImageFinite
<1>3. IsFiniteSet({make[x] : x \in DOMAIN make})
  <2>1. DOMAIN make = A \X B \X C /\ make = [x \in DOMAIN make |-> make[x]]
    OBVIOUS
  <2> HIDE DEF make
  <2> QED BY <1>2, <2>1, ImageFinite
<1>4. Triples(t, sites) \subseteq {make[x] : x \in DOMAIN make}
  <2> SUFFICES ASSUME NEW m \in Triples(t, sites) PROVE \E x \in DOMAIN make : m = make[x]
    OBVIOUS
  <2>1. PICK a \in A, b \in B, c \in C : m = [ab |-> {a, b}, c |-> c]
    BY DEF Triples
  <2>2. <<a, b, c>> \in DOMAIN make /\ make[<<a, b, c>>] = m
    BY <2>1
  <2> QED BY <2>2
<1>5. IsFiniteSet(Triples(t, sites))
  BY <1>3, <1>4, FS_Subset
<1>6. DOMAIN classOf = Triples(t, sites) /\ classOf = [m \in DOMAIN classOf |-> classOf[m]]
  OBVIOUS
<1>7. {classOf[m] : m \in DOMAIN classOf} = FindBonds(t, sites)
  BY DEF FindBonds
<1> HIDE DEF classOf
<1> QED BY <1>5, <1>6, <1>7, ImageFinite

\* Pruning keeps exactly one class of every adsorption triple.
LEMMA OnePerTripleKept ==
  ASSUME NEW candidates, \A b \in candidates : EgoSize(b) \in Nat
  PROVE  /\ OnePerTriple(candidates) \subseteq candidates
         /\ \A b \in candidates : \E k \in OnePerTriple(candidates) :
              /\ TripleKey(k) = TripleKey(b)
              /\ \A l \in OnePerTriple(candidates) : TripleKey(l) = TripleKey(b) => l = k
<1> DEFINE same(b) == {k \in candidates : TripleKey(k) = TripleKey(b)}
           leastOf(S) == CHOOSE x \in S : \A k \in S : EgoSize(x) <= EgoSize(k)
           least(b) == leastOf(same(b))
<1>1. OnePerTriple(candidates) = {least(b) : b \in candidates}
  <2>1. OnePerTriple(candidates) = {leastOf(S) : S \in {same(b) : b \in candidates}}
    BY DEF OnePerTriple
  <2> HIDE DEF same, leastOf
  <2> QED BY <2>1
<1>2. ASSUME NEW b \in candidates
      PROVE  least(b) \in candidates /\ TripleKey(least(b)) = TripleKey(b)
  <2> DEFINE sizes == {EgoSize(k) : k \in same(b)}
  <2>1. \E x \in same(b) : \A k \in same(b) : EgoSize(x) <= EgoSize(k)
    <3>1. sizes \subseteq Nat /\ EgoSize(b) \in sizes
      OBVIOUS
    <3>2. PICK m \in sizes : \A k \in sizes : m <= k
      <4> HIDE DEF sizes
      <4> QED BY <3>1, LeastExists
    <3>3. PICK x \in same(b) : m = EgoSize(x)
      OBVIOUS
    <3>4. \A k \in same(b) : EgoSize(x) <= EgoSize(k)
      BY <3>2, <3>3
    <3> QED BY <3>4
  <2>2. least(b) \in same(b)
    <3> HIDE DEF same
    <3> QED BY <2>1
  <2> HIDE DEF least
  <2> QED BY <2>2
<1>3. ASSUME NEW b \in candidates, NEW a \in candidates, TripleKey(a) = TripleKey(b)
      PROVE  least(a) = least(b)
  <2>1. same(a) = same(b)
    BY <1>3
  <2> HIDE DEF same
  <2> QED BY <2>1
<1> HIDE DEF least
<1>4. ASSUME NEW b \in candidates
      PROVE  \E k \in OnePerTriple(candidates) :
                /\ TripleKey(k) = TripleKey(b)
                /\ \A l \in OnePerTriple(candidates) : TripleKey(l) = TripleKey(b) => l = k
  <2>1. least(b) \in OnePerTriple(candidates) /\ TripleKey(least(b)) = TripleKey(b)
    BY <1>1, <1>2
  <2>2. ASSUME NEW l \in OnePerTriple(candidates), TripleKey(l) = TripleKey(b)
        PROVE  l = least(b)
    <3>1. PICK a \in candidates : l = least(a)
      BY <1>1
    <3>2. TripleKey(a) = TripleKey(b)
      BY <1>2, <2>2, <3>1
    <3> QED BY <1>3, <3>1, <3>2
  <2> QED BY <2>1, <2>2
<1> QED BY <1>1, <1>2, <1>4

\* EnumerationSound: find_bond_sites with its two prunings returns finitely many
\* classes, each a stable one of a requested template, and exactly one for every
\* adsorption triple with a stable class (sites/bond.py).
THEOREM EnumerationSound ==
  ASSUME NEW ts, ts \subseteq Species \X Species \X Species, IsFiniteSet(ts),
         NEW sites, SitesFound(sites)
  PROVE  /\ IsFiniteSet(EnumerateBonds(ts, sites))
         /\ \A b \in EnumerateBonds(ts, sites) :
              b.template \in ts /\ b \in StableBonds(FindBonds(b.template, sites))
         /\ \A t \in ts : \A b \in StableBonds(FindBonds(t, sites)) :
              Cardinality({k \in {x \in EnumerateBonds(ts, sites) : x.template = t} :
                             TripleKey(k) = TripleKey(b)}) = 1
<1> DEFINE all == UNION {FindBonds(t, sites) : t \in ts}
           stable == StableBonds(all)
<1>1. \A t \in ts : \A b \in FindBonds(t, sites) : BondOf(b, t)
  BY FoundBondShape
<1>2. \A b \in all : EgoSize(b) \in Nat /\ b.template \in ts /\ b \in FindBonds(b.template, sites)
  BY <1>1, BondSizes DEF BondOf
<1>3. IsFiniteSet(all)
  <2> DEFINE find == [t \in ts |-> FindBonds(t, sites)]
  <2>1. DOMAIN find = ts /\ find = [t \in DOMAIN find |-> find[t]]
    OBVIOUS
  <2>2. {find[t] : t \in DOMAIN find} = {FindBonds(t, sites) : t \in ts}
    OBVIOUS
  <2> HIDE DEF find
  <2>3. IsFiniteSet({FindBonds(t, sites) : t \in ts})
    BY <2>1, <2>2, ImageFinite
  <2>4. \A T \in {FindBonds(t, sites) : t \in ts} : IsFiniteSet(T)
    BY FoundBondsFinite
  <2> QED BY <2>3, <2>4, FS_UNION
<1> DEFINE E == EnumerateBonds(ts, sites)
<1>4. E = OnePerTriple(stable)
  BY DEF EnumerateBonds
<1>5. stable \subseteq all /\ \A b \in stable : Reactants(b) \notin UnstablePairs
  BY DEF StableBonds
<1>6. \A b \in stable : b \in StableBonds(FindBonds(b.template, sites))
  BY <1>2, <1>5 DEF StableBonds
<1>7. \A t \in ts : \A b \in StableBonds(FindBonds(t, sites)) : b \in stable /\ b.template = t
  BY <1>1 DEF StableBonds, BondOf
<1>8. \A b \in stable : EgoSize(b) \in Nat
  BY <1>2, <1>5
<1> HIDE DEF all, stable
<1>9. /\ E \subseteq stable
      /\ \A b \in stable : \E k \in E :
           /\ TripleKey(k) = TripleKey(b)
           /\ \A l \in E : TripleKey(l) = TripleKey(b) => l = k
  BY <1>4, <1>8, OnePerTripleKept
<1>10. \A b, k : TripleKey(k) = TripleKey(b) => k.template = b.template
  BY DEF TripleKey
<1>11. IsFiniteSet(E)
  BY <1>3, <1>5, <1>9, FS_Subset
<1>12. \A b \in E : b.template \in ts /\ b \in StableBonds(FindBonds(b.template, sites))
  BY <1>2, <1>5, <1>6, <1>9
<1>13. ASSUME NEW t \in ts, NEW b \in StableBonds(FindBonds(t, sites))
       PROVE  Cardinality({k \in {x \in E : x.template = t} : TripleKey(k) = TripleKey(b)}) = 1
  <2>1. b \in stable /\ b.template = t
    BY <1>7
  <2>2. PICK k \in E : /\ TripleKey(k) = TripleKey(b)
                       /\ \A l \in E : TripleKey(l) = TripleKey(b) => l = k
    BY <1>9, <2>1
  <2>3. k.template = t
    BY <1>10, <2>1, <2>2
  <2>4. {l \in {x \in E : x.template = t} : TripleKey(l) = TripleKey(b)} = {k}
    BY <2>2, <2>3
  <2> QED BY <2>4, FS_Singleton
<1> QED BY <1>11, <1>12, <1>13

---------------------------------------------------------------------------
(* The expansion.                                                          *)

Stages == {"ready", "expand", "species", "hops", "bonds", "failed"}
Expanding == job.stage \in {"species", "hops", "bonds"}
AllTemplates == Cleavages \cup Combinations

JobShape ==
    job = [stage |-> job.stage, queue |-> job.queue, produced |-> job.produced,
           before |-> job.before, found |-> job.found, leaves |-> job.leaves,
           need |-> job.need, ts |-> job.ts, lacking |-> job.lacking,
           spread |-> job.spread, subject |-> job.subject, attempt |-> job.attempt]

TypeInv ==
    /\ JobShape
    /\ job.stage \in Stages
    /\ job.stage = "ready" => job = Idle
    /\ diffusion \in BOOLEAN
    /\ known \subseteq Species /\ excluded \subseteq Species
    /\ onSurface \subseteq Species
    /\ job.queue \in Seq(Species) /\ ToSet(job.queue) \subseteq job.produced
    /\ job.produced \subseteq onSurface
    /\ Expanding => job.queue # <<>>
    /\ job.found \in Seq(ToSet(job.found))
    /\ bonds \in Seq(ToSet(bonds))
    /\ job.need \subseteq Species
    /\ job.ts \subseteq AllTemplates
    /\ templates \subseteq AllTemplates

\* Species.
SpeciesInv ==
    /\ known \cap excluded = {}
    /\ DOMAIN placed \subseteq known \cup excluded
    /\ excluded \cup InitialSpecies \subseteq DOMAIN placed
    /\ placed = [s \in DOMAIN placed |-> IF s \in known THEN StableSites(s) ELSE {}]
    /\ expanded \subseteq onSurface \cap (known \cup excluded)

\* A species that has been built but not placed is the one being worked on.
SubjectInv ==
    job.stage # "failed" =>
      \A s \in known \ DOMAIN placed :
        job.stage = "species" /\ s = job.subject /\ s \in job.need

NodesInv ==
    job.stage # "failed" =>
      IF known \subseteq DOMAIN placed THEN nodes = SetToBag(SitesPlaced)
      ELSE OtherNodes(job.subject) = SetToBag(SitesPlaced)

HopsInv ==
    /\ hops = [s \in DOMAIN hops |-> FindHops(placed[s], TRUE)]
    /\ DOMAIN hops \subseteq DOMAIN placed
    /\ hopIndex = SetToBag(HopsFound(hops))

BondsInv ==
    /\ IsInjective(bonds)
    /\ bondIndex = SetToBag(ToSet(bonds))
    /\ \A b \in ToSet(bonds) : b.template \in templates
    /\ \A t \in templates : SpeciesOf(t) \subseteq known \cap DOMAIN placed
    /\ TriplesRepresented

\* What the templates of the species being expanded may still lack.
Derivable(s) ==
    Dissociations(s) \cup UNION {Couplings(s, z) : z \in (expanded \cup {s}) \cap known}

StageInv ==
    /\ job.stage = "expand" =>
         /\ job.need = {} /\ job.ts = {} /\ job.lacking = {} /\ job.spread = {}
         /\ ~job.leaves
    /\ job.stage = "species" =>
         /\ Current \notin expanded
         /\ job.lacking \subseteq excluded
         /\ \A s \in (job.spread \cup {Current}) \ job.need :
              s \in job.lacking \/ s \in known \cap DOMAIN placed
         /\ IF job.leaves
            THEN /\ job.spread = {Current} \cup UNION {SpeciesOf(t) : t \in job.ts}
                 /\ job.need \subseteq job.spread
                 /\ Current \in known \cup excluded
                 /\ Current \in known => Derivable(Current) \subseteq templates \cup job.ts
            ELSE job.need \subseteq {Current} /\ job.ts = {} /\ job.spread = {}
    /\ job.stage \in {"hops", "bonds"} =>
         /\ Current \in known \cup excluded
         /\ \A t \in job.ts : SpeciesOf(t) \subseteq known \cap DOMAIN placed
         /\ Current \in known \ expanded =>
               Viable(Derivable(Current), excluded) \subseteq templates \cup job.ts
    /\ job.ts \cap templates = {}

SearchInv ==
    job.stage # "failed" /\ diffusion =>
      \A s \in DOMAIN placed : placed[s] # {} =>
        \/ s \in DOMAIN hops
        \/ job.stage = "species" /\ s \in job.spread \cup {Current}
        \/ job.stage = "hops" /\ s \in job.spread

\* The placements the reaction index has to hold.
Occurring == UNION {placed[s] : s \in DOMAIN placed \ (InitialSpecies \ onSurface)}

ActiveInv ==
    /\ active = Leaves(DOMAIN active.placements, DOMAIN active.hops, DOMAIN active.bonds)
    /\ DOMAIN active.hops \subseteq HopsFound(hops)
    /\ job.stage # "failed" => DOMAIN active.bonds \cup ToSet(job.found) = ToSet(bonds)
    /\ job.stage = "ready" => Activated
    /\ job.stage \notin {"ready", "failed"} =>
         /\ job.before \subseteq SitesPlaced
         /\ \A c \in SitesPlaced \ job.before : c.species \notin InitialSpecies
         /\ DOMAIN active.placements \subseteq Occurring
         /\ \A c \in Occurring \cap job.before :
              c.species \in job.produced \/ c \in DOMAIN active.placements

IInv == /\ TypeInv /\ SpeciesInv /\ SubjectInv /\ NodesInv /\ HopsInv /\ BondsInv
        /\ TemplatesComplete /\ StageInv /\ SearchInv /\ ActiveInv


---------------------------------------------------------------------------
(* Bags that hold their elements once, and sequences without repetition.   *)

LEMMA BagOfUnion ==
  ASSUME NEW S, NEW T, S \cap T = {}
  PROVE  SetToBag(S) (+) SetToBag(T) = SetToBag(S \cup T)
BY DEF SetToBag, (+)

LEMMA BagDomain ==
  ASSUME NEW S
  PROVE  /\ DOMAIN SetToBag(S) = S
         /\ \A x : BagIn(x, SetToBag(S)) <=> x \in S
         /\ \A x \in S : SetToBag(S)[x] = 1
BY DEF SetToBag, BagIn, BagToSet

LEMMA LeavesParts ==
  ASSUME NEW P, NEW H, NEW B
  PROVE  /\ DOMAIN Leaves(P, H, B).placements = P
         /\ DOMAIN Leaves(P, H, B).hops = H
         /\ DOMAIN Leaves(P, H, B).bonds = B
         /\ Leaves(P, H, B).placements = SetToBag(P)
         /\ Leaves(P, H, B).hops = SetToBag(H)
         /\ Leaves(P, H, B).bonds = SetToBag(B)
BY DEF Leaves, SetToBag

\* A finite set, listed: nothing missing, nothing twice.
LEMMA ListOfSet ==
  ASSUME NEW S, IsFiniteSet(S)
  PROVE  /\ SetToSeq(S) \in Seq(S)
         /\ ToSet(SetToSeq(S)) = S
         /\ IsInjective(SetToSeq(S))
<1> DEFINE n == Cardinality(S)
           f == SetToSeq(S)
<1>1. n \in Nat /\ ExistsBijection(1 .. n, S)
  BY FS_CardinalityType
<1>2. PICK g : g \in Bijection(1 .. n, S)
  BY <1>1 DEF ExistsBijection
<1>3. g \in [1 .. n -> S] /\ IsInjective(g)
  BY <1>2 DEF Bijection, Injection
<1>4. f = CHOOSE h \in [1 .. n -> S] : IsInjective(h)
  BY DEF SetToSeq
<1> HIDE DEF n
<1>5. f \in [1 .. n -> S] /\ IsInjective(f)
  <2> HIDE DEF f
  <2> QED BY <1>3, <1>4
<1> HIDE DEF f
<1>6. f \in Injection(1 .. n, S)
  BY <1>5 DEF Injection
<1>7. IsFiniteSet(1 .. n) /\ Cardinality(1 .. n) = n
  BY <1>1, FS_Interval
<1>8. f \in Surjection(1 .. n, S)
  BY <1>6, <1>7, FS_Injection DEF n
<1>9. \A x \in S : \E i \in 1 .. n : f[i] = x
  BY <1>8 DEF Surjection
<1>10. f \in Seq(S)
  BY <1>1, <1>5, SeqDef
<1>11. ToSet(f) = S
  BY <1>5, <1>9 DEF ToSet
<1> QED BY <1>5, <1>10, <1>11 DEF f

\* The elements of a list that was appended to another.
LEMMA ConcatParts ==
  ASSUME NEW a, NEW b, a \in Seq(ToSet(a)), b \in Seq(ToSet(b))
  PROVE  /\ a \o b \in Seq(ToSet(a) \cup ToSet(b))
         /\ Len(a) \in Nat /\ Len(b) \in Nat
         /\ DOMAIN a = 1 .. Len(a) /\ DOMAIN b = 1 .. Len(b)
         /\ DOMAIN (a \o b) = 1 .. Len(a) + Len(b)
         /\ \A i \in 1 .. Len(a) : (a \o b)[i] = a[i]
         /\ \A i \in 1 .. Len(b) : (a \o b)[i + Len(a)] = b[i]
         /\ Len(a \o b) = Len(a) + Len(b)
<1> DEFINE S == ToSet(a) \cup ToSet(b)
<1>1. a \in Seq(S) /\ b \in Seq(S)
  BY SeqMonotonic
<1> HIDE DEF S
<1>2. /\ a \o b \in Seq(S) /\ Len(a \o b) = Len(a) + Len(b)
      /\ \A i \in 1 .. Len(a) + Len(b) :
            (a \o b)[i] = IF i <= Len(a) THEN a[i] ELSE b[i - Len(a)]
  BY <1>1, ConcatProperties
<1>3. /\ Len(a) \in Nat /\ Len(b) \in Nat
      /\ DOMAIN a = 1 .. Len(a) /\ DOMAIN b = 1 .. Len(b)
      /\ DOMAIN (a \o b) = 1 .. Len(a) + Len(b)
  BY <1>1, <1>2, LenProperties
<1>4. \A i \in 1 .. Len(b) : (a \o b)[i + Len(a)] = b[i]
  <2> SUFFICES ASSUME NEW i \in 1 .. Len(b) PROVE (a \o b)[i + Len(a)] = b[i]
    OBVIOUS
  <2>1. i + Len(a) \in 1 .. Len(a) + Len(b) /\ ~(i + Len(a) <= Len(a)) /\ i + Len(a) - Len(a) = i
    BY <1>3
  <2> QED BY <1>2, <2>1
<1> QED BY <1>2, <1>3, <1>4 DEF S

\* Appending a list.
LEMMA ListsJoined ==
  ASSUME NEW a, NEW b, a \in Seq(ToSet(a)), b \in Seq(ToSet(b))
  PROVE  /\ a \o b \in Seq(ToSet(a \o b))
         /\ ToSet(a \o b) = ToSet(a) \cup ToSet(b)
         /\ IsPrefix(a, a \o b)
<1> DEFINE c == a \o b
<1>1. /\ c \in Seq(ToSet(a) \cup ToSet(b))
      /\ Len(a) \in Nat /\ Len(b) \in Nat /\ Len(c) = Len(a) + Len(b)
      /\ DOMAIN a = 1 .. Len(a) /\ DOMAIN b = 1 .. Len(b)
      /\ DOMAIN c = 1 .. Len(a) + Len(b)
      /\ \A i \in 1 .. Len(a) : c[i] = a[i]
      /\ \A i \in 1 .. Len(b) : c[i + Len(a)] = b[i]
  BY ConcatParts
<1> HIDE DEF c
<1>2. ToSet(c) \subseteq ToSet(a) \cup ToSet(b)
  <2> SUFFICES ASSUME NEW i \in DOMAIN c PROVE c[i] \in ToSet(a) \cup ToSet(b)
    BY DEF ToSet
  <2>1. CASE i <= Len(a)
    <3>1. i \in DOMAIN a /\ c[i] = a[i]
      BY <1>1, <2>1
    <3> QED BY <3>1 DEF ToSet
  <2>2. CASE ~(i <= Len(a))
    <3>1. i - Len(a) \in DOMAIN b /\ i = (i - Len(a)) + Len(a)
      BY <1>1, <2>2
    <3>2. c[i] = b[i - Len(a)]
      BY <1>1, <3>1
    <3> QED BY <3>1, <3>2 DEF ToSet
  <2> QED BY <2>1, <2>2
<1>3. ToSet(a) \subseteq ToSet(c)
  <2> SUFFICES ASSUME NEW i \in DOMAIN a PROVE a[i] \in ToSet(c)
    BY DEF ToSet
  <2>1. i \in DOMAIN c /\ c[i] = a[i]
    BY <1>1
  <2> QED BY <2>1 DEF ToSet
<1>4. ToSet(b) \subseteq ToSet(c)
  <2> SUFFICES ASSUME NEW i \in DOMAIN b PROVE b[i] \in ToSet(c)
    BY DEF ToSet
  <2>1. i + Len(a) \in DOMAIN c /\ c[i + Len(a)] = b[i]
    BY <1>1
  <2> QED BY <2>1 DEF ToSet
<1>5. IsPrefix(a, c)
  <2>1. SubSeq(c, 1, Len(a)) = [i \in 1 .. Len(a) |-> c[i]]
    BY <1>1
  <2>2. a = [i \in 1 .. Len(a) |-> a[i]]
    BY <1>1
  <2>3. SubSeq(c, 1, Len(a)) = a
    BY <1>1, <2>1, <2>2
  <2>4. SubSeq(a, 1, Len(a)) = a
    BY SubSeqFull
  <2>5. Len(a) <= Len(c)
    BY <1>1
  <2> QED BY <2>3, <2>4, <2>5 DEF IsPrefix
<1>6. ToSet(c) = ToSet(a) \cup ToSet(b)
  BY <1>2, <1>3, <1>4
<1> QED BY <1>1, <1>5, <1>6 DEF c

\* Nothing is listed twice when the lists have no element in common.
LEMMA ListsJoinedApart ==
  ASSUME NEW a, NEW b, a \in Seq(ToSet(a)), b \in Seq(ToSet(b)),
         IsInjective(a), IsInjective(b), ToSet(a) \cap ToSet(b) = {}
  PROVE  IsInjective(a \o b)
<1> DEFINE c == a \o b
<1>1. /\ Len(a) \in Nat /\ Len(b) \in Nat
      /\ DOMAIN a = 1 .. Len(a) /\ DOMAIN b = 1 .. Len(b)
      /\ DOMAIN c = 1 .. Len(a) + Len(b)
      /\ \A i \in 1 .. Len(a) : c[i] = a[i]
      /\ \A i \in 1 .. Len(b) : c[i + Len(a)] = b[i]
  BY ConcatParts
<1> HIDE DEF c
<1>2. SUFFICES ASSUME NEW i \in DOMAIN c, NEW j \in DOMAIN c, c[i] = c[j]
               PROVE  i = j
  BY DEF IsInjective, c
<1>3. \A k \in DOMAIN c : k <= Len(a) => k \in DOMAIN a /\ c[k] = a[k] /\ c[k] \in ToSet(a)
  BY <1>1 DEF ToSet
<1>4. \A k \in DOMAIN c : ~(k <= Len(a)) =>
        k - Len(a) \in DOMAIN b /\ c[k] = b[k - Len(a)] /\ c[k] \in ToSet(b)
  <2> SUFFICES ASSUME NEW k \in DOMAIN c, ~(k <= Len(a))
               PROVE  k - Len(a) \in DOMAIN b /\ c[k] = b[k - Len(a)] /\ c[k] \in ToSet(b)
    OBVIOUS
  <2>1. k - Len(a) \in DOMAIN b /\ k = (k - Len(a)) + Len(a)
    BY <1>1
  <2>2. c[k] = b[k - Len(a)]
    BY <1>1, <2>1
  <2> QED BY <2>1, <2>2 DEF ToSet
<1>5. CASE i <= Len(a) /\ j <= Len(a)
  BY <1>2, <1>3, <1>5 DEF IsInjective
<1>6. CASE ~(i <= Len(a)) /\ ~(j <= Len(a))
  <2>1. i - Len(a) = j - Len(a)
    BY <1>2, <1>4, <1>6 DEF IsInjective
  <2> QED BY <1>1, <2>1
<1> QED BY <1>2, <1>3, <1>4, <1>5, <1>6

\* The tail of the queue.
LEMMA QueueMoves ==
  ASSUME NEW q \in Seq(Species), q # <<>>
  PROVE  /\ Head(q) \in ToSet(q) /\ Head(q) \in Species
         /\ Tail(q) \in Seq(Species)
         /\ ToSet(Tail(q)) \subseteq ToSet(q)
<1>1. Len(q) \in Nat \ {0} /\ DOMAIN q = 1 .. Len(q) /\ Head(q) = q[1]
  BY LenProperties, EmptySeq
<1>2. Tail(q) \in Seq(Species) /\ Len(Tail(q)) = Len(q) - 1
  BY HeadTailProperties
<1>3. \A i \in 1 .. Len(q) - 1 : Tail(q)[i] = q[i + 1]
  BY HeadTailProperties
<1>4. DOMAIN Tail(q) = 1 .. Len(q) - 1
  BY <1>2, LenProperties
<1> QED BY <1>1, <1>2, <1>3, <1>4 DEF ToSet

---------------------------------------------------------------------------
(* What the invariant says of the sites, and what of it lasts.             *)

InJob == job.stage \notin {"ready", "failed"}

\* Placements are only added.
PlacedGrows ==
    /\ DOMAIN placed \subseteq DOMAIN placed'
    /\ \A s \in DOMAIN placed : placed'[s] = placed[s]

LEMMA StableSiteOfSpecies ==
  ASSUME NEW s, NEW c \in StableSites(s)
  PROVE  c.species = s /\ c \in CandidateSites(s) /\ c.members \subseteq Arrangements(s)
BY StableSiteShape DEF StableSites

\* Placements registered by species, for the present and for the next state.
LEMMA PlacedBySpecies ==
  ASSUME NEW pl, NEW kn,
         pl = [s \in DOMAIN pl |-> IF s \in kn THEN StableSites(s) ELSE {}]
  PROVE  /\ \A s \in DOMAIN pl : \A c \in pl[s] :
              c.species = s /\ s \in kn /\ c \in CandidateSites(s)
         /\ \A c \in UNION {pl[s] : s \in DOMAIN pl} :
              /\ c.species \in DOMAIN pl /\ c \in pl[c.species]
              /\ c.species \in kn /\ c \in CandidateSites(c.species)
         /\ \A s \in DOMAIN pl : OfSpecies(UNION {pl[z] : z \in DOMAIN pl}, s) = pl[s]
<1>1. ASSUME NEW s \in DOMAIN pl, NEW c \in pl[s]
      PROVE  c.species = s /\ s \in kn /\ c \in CandidateSites(s)
  <2>1. pl[s] = IF s \in kn THEN StableSites(s) ELSE {}
    OBVIOUS
  <2> QED BY <1>1, <2>1, StableSiteOfSpecies
<1> DEFINE all == UNION {pl[s] : s \in DOMAIN pl}
<1>2. \A c \in all : \E s \in DOMAIN pl : c \in pl[s]
  OBVIOUS
<1>3. \A s \in DOMAIN pl : pl[s] \subseteq all
  OBVIOUS
<1> HIDE DEF all
<1>4. \A c \in all : /\ c.species \in DOMAIN pl /\ c \in pl[c.species]
                     /\ c.species \in kn /\ c \in CandidateSites(c.species)
  BY <1>1, <1>2
<1>5. \A s \in DOMAIN pl : OfSpecies(all, s) = pl[s]
  BY <1>1, <1>3, <1>4 DEF OfSpecies
<1> QED BY <1>1, <1>4, <1>5 DEF all

LEMMA SitesKnown ==
  ASSUME SpeciesInv, known \subseteq Species
  PROVE  /\ \A s \in DOMAIN placed : \A c \in placed[s] : c.species = s
         /\ \A c \in SitesPlaced :
              c.species \in DOMAIN placed /\ c \in placed[c.species] /\ c.species \in known
         /\ SitesFound(SitesPlaced)
         /\ \A s \in DOMAIN placed : OfSpecies(SitesPlaced, s) = placed[s]
<1>1. placed = [s \in DOMAIN placed |-> IF s \in known THEN StableSites(s) ELSE {}]
  BY DEF SpeciesInv
<1> QED BY <1>1, PlacedBySpecies DEF SitesPlaced, SitesFound

LEMMA SitesKnownNext ==
  ASSUME SpeciesInv', known' \subseteq Species
  PROVE  /\ \A s \in DOMAIN placed' : \A c \in placed'[s] : c.species = s
         /\ \A c \in SitesPlaced' :
              c.species \in DOMAIN placed' /\ c \in placed'[c.species] /\ c.species \in known'
         /\ SitesFound(SitesPlaced')
         /\ \A s \in DOMAIN placed' : OfSpecies(SitesPlaced', s) = placed'[s]
<1>1. placed' = [s \in DOMAIN placed' |-> IF s \in known' THEN StableSites(s) ELSE {}]
  BY DEF SpeciesInv
<1>2. SitesPlaced' = UNION {placed'[s] : s \in DOMAIN placed'}
  BY DEF SitesPlaced
<1> DEFINE pl == placed'
           kn == known'
           all == UNION {pl[s] : s \in DOMAIN pl}
<1>3. pl = [s \in DOMAIN pl |-> IF s \in kn THEN StableSites(s) ELSE {}]
  BY <1>1
<1> HIDE DEF pl, kn
<1>4. /\ \A s \in DOMAIN pl : \A c \in pl[s] : c.species = s
      /\ \A c \in all :
           /\ c.species \in DOMAIN pl /\ c \in pl[c.species]
           /\ c.species \in kn /\ c \in CandidateSites(c.species)
      /\ \A s \in DOMAIN pl : OfSpecies(all, s) = pl[s]
  BY <1>3, PlacedBySpecies
<1>5. kn \subseteq Species
  BY DEF kn
<1>6. SitesFound(all)
  BY <1>4, <1>5 DEF SitesFound
<1>7. SitesPlaced' = all
  BY <1>2 DEF pl
<1> QED BY <1>4, <1>6, <1>7 DEF pl, kn

LEMMA BondsCarried ==
  ASSUME SpeciesInv, known \subseteq Species, BondsInv,
         SpeciesInv', known' \subseteq Species, known \subseteq known', PlacedGrows,
         bonds' = bonds, bondIndex' = bondIndex, templates' = templates
  PROVE  BondsInv'
<1>1. ASSUME NEW t \in templates
      PROVE  FindBonds(t, SitesPlaced') = FindBonds(t, SitesPlaced)
  <2>1. SpeciesOf(t) \subseteq DOMAIN placed
    BY DEF BondsInv
  <2>2. \A s \in DOMAIN placed : OfSpecies(SitesPlaced, s) = placed[s]
    BY SitesKnown
  <2>3. \A s \in DOMAIN placed' : OfSpecies(SitesPlaced', s) = placed'[s]
    BY SitesKnownNext
  <2>4. \A s \in {t[1], t[2], t[3]} : OfSpecies(SitesPlaced', s) = OfSpecies(SitesPlaced, s)
    BY <2>1, <2>2, <2>3 DEF PlacedGrows, SpeciesOf
  <2> QED BY <2>4, BondsLocal
<1>2. TriplesRepresented'
  BY <1>1 DEF BondsInv, TriplesRepresented
<1>3. \A t \in templates : SpeciesOf(t) \subseteq known' \cap DOMAIN placed'
  BY DEF BondsInv, PlacedGrows
<1> QED BY <1>2, <1>3 DEF BondsInv, SpeciesOf

LEMMA HopsCarried ==
  ASSUME HopsInv, PlacedGrows, hops' = hops, hopIndex' = hopIndex
  PROVE  HopsInv'
<1>1. HopsFound(hops) = HopsFound(hops)'
  BY DEF HopsFound
<1> QED BY <1>1 DEF HopsInv, PlacedGrows

\* Steps that only move the expansion on.
LEMMA JobFrame ==
  ASSUME IInv,
         UNCHANGED <<diffusion, registry, hopStore, bondStore, onSurface>>
  PROVE  /\ UNCHANGED <<diffusion, known, excluded, placed, templates, expanded,
                        hops, hopIndex, bonds, bondIndex, onSurface>>
         /\ SitesPlaced' = SitesPlaced
         /\ SpeciesInv' /\ HopsInv' /\ BondsInv' /\ TemplatesComplete'
<1>1. UNCHANGED <<diffusion, known, excluded, placed, templates, expanded,
                  hops, hopIndex, bonds, bondIndex, onSurface>>
  BY DEF registry, hopStore, bondStore
<1>2. SitesPlaced' = SitesPlaced
  BY <1>1 DEF SitesPlaced
<1>3. SpeciesInv'
  BY <1>1 DEF IInv, SpeciesInv
<1>4. PlacedGrows
  BY <1>1 DEF PlacedGrows
<1>5. known \subseteq Species /\ excluded \subseteq Species
  BY DEF IInv, TypeInv
<1>6. HopsInv'
  BY <1>1, <1>4, HopsCarried DEF IInv
<1>7. BondsInv'
  BY <1>1, <1>3, <1>4, <1>5, BondsCarried DEF IInv
<1>8. TemplatesComplete'
  BY <1>1 DEF IInv, TemplatesComplete
<1> QED BY <1>1, <1>2, <1>3, <1>6, <1>7, <1>8

\* The reaction index waits for the end of the expansion.
LEMMA ActiveKept ==
  ASSUME ActiveInv, InJob, InJob', PlacedGrows,
         SpeciesInv, known \subseteq Species, SpeciesInv', known' \subseteq Species,
         \A s \in DOMAIN placed' \ DOMAIN placed : s \notin InitialSpecies,
         UNCHANGED <<active, onSurface>>,
         ToSet(bonds') = DOMAIN active.bonds \cup ToSet(job'.found),
         HopsFound(hops) \subseteq HopsFound(hops'),
         job'.before = job.before, job'.produced = job.produced
  PROVE  ActiveInv'
<1>1. \A c \in SitesPlaced : c.species \in DOMAIN placed /\ c \in placed[c.species]
  BY SitesKnown
<1>2. \A c \in SitesPlaced' : c.species \in DOMAIN placed' /\ c \in placed'[c.species]
  BY SitesKnownNext
<1>3. /\ job.before \subseteq SitesPlaced
      /\ \A c \in SitesPlaced \ job.before : c.species \notin InitialSpecies
      /\ DOMAIN active.placements \subseteq Occurring
      /\ \A c \in Occurring \cap job.before :
           c.species \in job.produced \/ c \in DOMAIN active.placements
  BY DEF ActiveInv, InJob
<1>4. SitesPlaced \subseteq SitesPlaced'
  BY DEF SitesPlaced, PlacedGrows
<1>5. Occurring \subseteq Occurring'
  BY DEF Occurring, PlacedGrows
<1>6. Occurring' \cap job.before \subseteq Occurring
  <2> SUFFICES ASSUME NEW c \in Occurring', c \in job.before PROVE c \in Occurring
    OBVIOUS
  <2>1. c.species \in DOMAIN placed /\ c \in placed[c.species]
    BY <1>1, <1>3
  <2>2. PICK s \in DOMAIN placed' \ (InitialSpecies \ onSurface') : c \in placed'[s]
    BY DEF Occurring
  <2>3. s = c.species
    BY <2>2, SitesKnownNext
  <2> QED BY <2>1, <2>2, <2>3 DEF Occurring
<1>7. \A c \in SitesPlaced' \ job.before : c.species \notin InitialSpecies
  <2> SUFFICES ASSUME NEW c \in SitesPlaced' \ job.before PROVE c.species \notin InitialSpecies
    OBVIOUS
  <2>1. CASE c.species \in DOMAIN placed
    <3>1. c \in SitesPlaced
      BY <1>2, <2>1 DEF PlacedGrows, SitesPlaced
    <3> QED BY <1>3, <3>1
  <2>2. CASE c.species \notin DOMAIN placed
    BY <1>2, <2>2
  <2> QED BY <2>1, <2>2
<1>8. /\ job'.before \subseteq SitesPlaced'
      /\ \A c \in SitesPlaced' \ job'.before : c.species \notin InitialSpecies
      /\ DOMAIN active'.placements \subseteq Occurring'
      /\ \A c \in Occurring' \cap job'.before :
           c.species \in job'.produced \/ c \in DOMAIN active'.placements
  BY <1>3, <1>4, <1>5, <1>6, <1>7
<1>9. /\ active' = Leaves(DOMAIN active'.placements, DOMAIN active'.hops, DOMAIN active'.bonds)
      /\ DOMAIN active'.hops \subseteq HopsFound(hops')
      /\ DOMAIN active'.bonds \cup ToSet(job'.found) = ToSet(bonds')
  BY DEF ActiveInv, InJob
<1> QED BY <1>8, <1>9 DEF ActiveInv, InJob

LEMMA ActiveCarried ==
  ASSUME ActiveInv, InJob, InJob', PlacedGrows,
         SpeciesInv, known \subseteq Species, SpeciesInv', known' \subseteq Species,
         \A s \in DOMAIN placed' \ DOMAIN placed : s \notin InitialSpecies,
         UNCHANGED <<active, onSurface, bonds>>,
         HopsFound(hops) \subseteq HopsFound(hops'),
         job'.before = job.before, job'.produced = job.produced, job'.found = job.found
  PROVE  ActiveInv'
<1>1. ToSet(bonds') = DOMAIN active.bonds \cup ToSet(job'.found)
  BY DEF ActiveInv, InJob
<1> QED BY <1>1, ActiveKept

---------------------------------------------------------------------------
(* Every action keeps the invariant.                                       *)

LEMMA ConfiguredAreTemplates ==
  ASSUME NEW ss
  PROVE  TemplatesAmong(ss) \subseteq AllTemplates
<1>1. \A s : Dissociations(s) \subseteq AllTemplates
  BY DEF Dissociations, AllTemplates
<1>2. \A s, z : Couplings(s, z) \subseteq AllTemplates
  BY DEF Couplings, AllTemplates
<1>3. UNION {Couplings(s, z) : s, z \in ss} \subseteq AllTemplates
  BY <1>2
<1>4. UNION {Dissociations(s) : s \in ss} \subseteq AllTemplates
  BY <1>1
<1> QED BY <1>3, <1>4 DEF TemplatesAmong

\* An expansion that fails for good leaves a network that is indexed.
LEMMA FailsKeeps ==
  ASSUME IInv, job' = [Idle EXCEPT !.stage = "failed"],
         SpeciesInv', HopsInv', BondsInv', TemplatesComplete',
         UNCHANGED <<diffusion, known, excluded, templates, bonds, onSurface, active>>,
         HopsFound(hops) \subseteq HopsFound(hops')
  PROVE  IInv'
<1>1. /\ JobShape' /\ job'.stage = "failed" /\ job'.queue = <<>> /\ job'.produced = {}
      /\ job'.found = <<>> /\ job'.need = {} /\ job'.ts = {}
  BY DEF Idle, JobShape
<1>2. ToSet(job'.queue) = {} /\ ToSet(job'.found) = {}
  BY <1>1 DEF ToSet
<1>3. TypeInv'
  <2>1. <<>> \in Seq(Species) /\ <<>> \in Seq(ToSet(job'.found))
    BY EmptySeq
  <2>2. ~Expanding'
    BY <1>1 DEF Expanding
  <2> QED BY <1>1, <1>2, <2>1, <2>2 DEF IInv, TypeInv, Stages
<1>4. SubjectInv' /\ NodesInv' /\ SearchInv' /\ StageInv'
  BY <1>1 DEF SubjectInv, NodesInv, SearchInv, StageInv
<1>5. ActiveInv'
  BY <1>1 DEF IInv, ActiveInv
<1> QED BY <1>3, <1>4, <1>5 DEF IInv

\* A failed attempt that may be repeated.
LEMMA RetriedKeeps ==
  ASSUME IInv, InJob, NEW z, job' = [job EXCEPT !.subject = z, !.attempt = @ + 1],
         UNCHANGED <<diffusion, registry, hopStore, bondStore, onSurface, active>>,
         SubjectInv', NodesInv'
  PROVE  IInv'
<1>1. /\ UNCHANGED <<diffusion, known, excluded, placed, templates, expanded,
                     hops, hopIndex, bonds, bondIndex, onSurface>>
      /\ SitesPlaced' = SitesPlaced
      /\ SpeciesInv' /\ HopsInv' /\ BondsInv' /\ TemplatesComplete'
  BY JobFrame
<1>2. /\ JobShape' /\ job'.stage = job.stage /\ job'.queue = job.queue
      /\ job'.produced = job.produced /\ job'.before = job.before
      /\ job'.found = job.found /\ job'.leaves = job.leaves /\ job'.need = job.need
      /\ job'.ts = job.ts /\ job'.lacking = job.lacking /\ job'.spread = job.spread
  BY DEF IInv, TypeInv, JobShape
<1>3. TypeInv'
  BY <1>1, <1>2 DEF IInv, TypeInv, InJob, Expanding
<1>4. StageInv'
  BY <1>1, <1>2 DEF IInv, StageInv, Current, Derivable
<1>5. SearchInv'
  BY <1>1, <1>2 DEF IInv, SearchInv, Current
<1>6. ActiveInv'
  <2>1. InJob' /\ PlacedGrows /\ HopsFound(hops) \subseteq HopsFound(hops')
    BY <1>1, <1>2 DEF InJob, PlacedGrows
  <2>2. known \subseteq Species /\ known' \subseteq Species
    BY <1>1 DEF IInv, TypeInv
  <2> QED BY <1>1, <1>2, <2>1, <2>2, ActiveCarried DEF IInv
<1> QED BY <1>1, <1>3, <1>4, <1>5, <1>6 DEF IInv

LEMMA RaisedOutcomes ==
  ASSUME NEW z, job' \in Raised(z)
  PROVE  \/ job' = [job EXCEPT !.subject = z, !.attempt = @ + 1]
         \/ job' = [Idle EXCEPT !.stage = "failed"]
BY DEF Raised, Failed

\* Between two stages of an expansion nothing of the network changes.
LEMMA StageFrame ==
  ASSUME IInv, InJob, InJob',
         UNCHANGED <<diffusion, registry, nodes, hopStore, bondStore, active, onSurface>>,
         job'.before = job.before, job'.produced = job.produced, job'.found = job.found
  PROVE  /\ UNCHANGED <<diffusion, known, excluded, placed, templates, expanded, nodes,
                        hops, hopIndex, bonds, bondIndex, onSurface>>
         /\ SitesPlaced' = SitesPlaced
         /\ SpeciesInv' /\ HopsInv' /\ BondsInv' /\ TemplatesComplete' /\ ActiveInv'
<1>1. /\ UNCHANGED <<diffusion, known, excluded, placed, templates, expanded,
                     hops, hopIndex, bonds, bondIndex, onSurface>>
      /\ SitesPlaced' = SitesPlaced
      /\ SpeciesInv' /\ HopsInv' /\ BondsInv' /\ TemplatesComplete'
  BY JobFrame
<1>2. PlacedGrows /\ HopsFound(hops) \subseteq HopsFound(hops')
  BY <1>1 DEF PlacedGrows
<1>3. known \subseteq Species /\ known' \subseteq Species
  BY <1>1 DEF IInv, TypeInv
<1>4. ActiveInv'
  BY <1>1, <1>2, <1>3, ActiveCarried DEF IInv
<1> QED BY <1>1, <1>4

LEMMA BeginExpandedKeeps ==
  ASSUME IInv, BeginExpanded
  PROVE  IInv'
<1>1. /\ job.stage = "expand" /\ job.queue # <<>> /\ Current \in expanded
      /\ job' = [job EXCEPT !.stage = "hops", !.spread = {Current}]
      /\ UNCHANGED <<diffusion, registry, nodes, hopStore, bondStore, active, onSurface>>
  BY DEF BeginExpanded
<1>2. /\ JobShape' /\ job'.stage = "hops" /\ job'.spread = {Current}
      /\ job'.queue = job.queue
      /\ job'.produced = job.produced /\ job'.before = job.before
      /\ job'.found = job.found /\ job'.leaves = job.leaves /\ job'.need = job.need
      /\ job'.ts = job.ts /\ job'.lacking = job.lacking
  BY <1>1 DEF IInv, TypeInv, JobShape
<1>3. InJob /\ InJob' /\ Current' = Current
  BY <1>1, <1>2 DEF InJob, Current
<1>4. /\ UNCHANGED <<diffusion, known, excluded, placed, templates, expanded, nodes,
                     hops, hopIndex, bonds, bondIndex, onSurface>>
      /\ SitesPlaced' = SitesPlaced
      /\ SpeciesInv' /\ HopsInv' /\ BondsInv' /\ TemplatesComplete' /\ ActiveInv'
  BY <1>1, <1>2, <1>3, StageFrame
<1>5. TypeInv'
  BY <1>1, <1>2, <1>4 DEF IInv, TypeInv, Expanding, Stages
<1>6. SubjectInv' /\ NodesInv'
  BY <1>1, <1>2, <1>4 DEF IInv, SubjectInv, NodesInv
<1>7. StageInv'
  <2>1. job.ts = {} /\ Current \in known \cup excluded
    BY <1>1 DEF IInv, StageInv, SpeciesInv
  <2> QED BY <1>1, <1>2, <1>3, <1>4, <2>1 DEF StageInv
<1>8. SearchInv'
  BY <1>1, <1>2, <1>4 DEF IInv, SearchInv
<1> QED BY <1>4, <1>5, <1>6, <1>7, <1>8 DEF IInv

LEMMA BeginNewKeeps ==
  ASSUME IInv, BeginNew
  PROVE  IInv'
<1>1. /\ job.stage = "expand" /\ job.queue # <<>> /\ Current \notin expanded
      /\ job' = [job EXCEPT !.stage = "species", !.need = {Current}]
      /\ UNCHANGED <<diffusion, registry, nodes, hopStore, bondStore, active, onSurface>>
  BY DEF BeginNew
<1>2. /\ JobShape' /\ job'.stage = "species" /\ job'.spread = job.spread
      /\ job'.queue = job.queue
      /\ job'.produced = job.produced /\ job'.before = job.before
      /\ job'.found = job.found /\ job'.leaves = job.leaves /\ job'.need = {Current}
      /\ job'.ts = job.ts /\ job'.lacking = job.lacking
  BY <1>1 DEF IInv, TypeInv, JobShape
<1>3. InJob /\ InJob' /\ Current' = Current
  BY <1>1, <1>2 DEF InJob, Current
<1>4. /\ UNCHANGED <<diffusion, known, excluded, placed, templates, expanded, nodes,
                     hops, hopIndex, bonds, bondIndex, onSurface>>
      /\ SitesPlaced' = SitesPlaced
      /\ SpeciesInv' /\ HopsInv' /\ BondsInv' /\ TemplatesComplete' /\ ActiveInv'
  BY <1>1, <1>2, <1>3, StageFrame
<1>5. TypeInv'
  <2>1. Current \in Species
    BY <1>1, QueueMoves DEF IInv, TypeInv, Current
  <2> QED BY <1>1, <1>2, <1>4, <2>1 DEF IInv, TypeInv, Expanding, Stages
<1>6. SubjectInv' /\ NodesInv'
  BY <1>1, <1>2, <1>4 DEF IInv, SubjectInv, NodesInv
<1>7. StageInv'
  <2>1. job.ts = {} /\ job.spread = {} /\ job.lacking = {} /\ ~job.leaves
    BY <1>1 DEF IInv, StageInv
  <2> QED BY <1>1, <1>2, <1>3, <1>4, <2>1 DEF StageInv
<1>8. SearchInv'
  BY <1>1, <1>2, <1>4 DEF IInv, SearchInv
<1> QED BY <1>4, <1>5, <1>6, <1>7, <1>8 DEF IInv

---------------------------------------------------------------------------
(* One species at a time.                                                  *)

\* Nothing but the species being worked on is built without being placed.
LEMMA EnsuringSubject ==
  ASSUME IInv, NEW s, Ensuring(s)
  PROVE  /\ s \in Species /\ InJob
         /\ known \subseteq DOMAIN placed \cup {s}
         /\ s \in known \ DOMAIN placed => job.subject = s
<1>1. job.stage = "species" /\ s \in job.need /\ job.subject \in {None, s}
  BY DEF Ensuring
<1>2. s \in Species /\ known \subseteq Species
  BY <1>1 DEF IInv, TypeInv
<1>3. None \notin Species
  BY NetworkAssumption DEF None
<1>4. ASSUME NEW z \in known \ DOMAIN placed
      PROVE  z = s /\ job.subject = s
  <2>1. z = job.subject
    BY <1>1, <1>4 DEF IInv, SubjectInv
  <2> QED BY <1>1, <1>2, <1>3, <2>1
<1> QED BY <1>1, <1>2, <1>4 DEF InJob

LEMMA EnsuredShape ==
  ASSUME IInv, NEW s, job' \in {Ensured(s), Lacked(s)}
  PROVE  /\ JobShape' /\ job'.stage = job.stage /\ job'.queue = job.queue
         /\ job'.produced = job.produced /\ job'.before = job.before
         /\ job'.found = job.found /\ job'.leaves = job.leaves
         /\ job'.need = job.need \ {s} /\ job'.ts = job.ts /\ job'.spread = job.spread
         /\ job' = Ensured(s) => job'.lacking = job.lacking
         /\ job' = Lacked(s) => job'.lacking = job.lacking \cup {s}
         /\ job'.lacking \subseteq job.lacking \cup {s}
<1>1. CASE job' = Ensured(s)
  <2>1. /\ JobShape' /\ job'.stage = job.stage /\ job'.queue = job.queue
        /\ job'.produced = job.produced /\ job'.before = job.before
        /\ job'.found = job.found /\ job'.leaves = job.leaves
        /\ job'.need = job.need \ {s} /\ job'.ts = job.ts /\ job'.spread = job.spread
        /\ job'.lacking = job.lacking
    BY <1>1 DEF IInv, TypeInv, JobShape, Ensured
  <2>2. job' = Lacked(s) => job'.lacking = job.lacking \cup {s}
    BY <2>1 DEF IInv, TypeInv, JobShape, Ensured, Lacked
  <2> QED BY <2>1, <2>2
<1>2. CASE job' = Lacked(s)
  <2>1. /\ JobShape' /\ job'.stage = job.stage /\ job'.queue = job.queue
        /\ job'.produced = job.produced /\ job'.before = job.before
        /\ job'.found = job.found /\ job'.leaves = job.leaves
        /\ job'.need = job.need \ {s} /\ job'.ts = job.ts /\ job'.spread = job.spread
        /\ job'.lacking = job.lacking \cup {s}
    BY <1>2 DEF IInv, TypeInv, JobShape, Ensured, Lacked
  <2>2. job' = Ensured(s) => job'.lacking = job.lacking
    BY DEF IInv, TypeInv, JobShape, Ensured
  <2> QED BY <2>1, <2>2
<1> QED BY <1>1, <1>2

\* What the operations that finish a species have in common.
LEMMA EnsuredKeeps ==
  ASSUME IInv, NEW s, Ensuring(s), job' \in {Ensured(s), Lacked(s)},
         UNCHANGED <<diffusion, known, templates, expanded, hops, hopIndex, bonds,
                     bondIndex, active, onSurface>>,
         excluded \subseteq excluded', excluded' \subseteq Species,
         PlacedGrows, DOMAIN placed' \subseteq DOMAIN placed \cup {s},
         \/ job' = Ensured(s) /\ s \in known \cap DOMAIN placed'
         \/ job' = Lacked(s) /\ s \in excluded',
         SpeciesInv', nodes' = SetToBag(SitesPlaced')
  PROVE  IInv'
<1>1. job.stage = "species" /\ s \in job.need
  BY DEF Ensuring
<1>2. /\ s \in Species /\ InJob /\ known \subseteq DOMAIN placed \cup {s}
  BY EnsuringSubject
<1>3. /\ JobShape' /\ job'.stage = job.stage /\ job'.queue = job.queue
      /\ job'.produced = job.produced /\ job'.before = job.before
      /\ job'.found = job.found /\ job'.leaves = job.leaves
      /\ job'.need = job.need \ {s} /\ job'.ts = job.ts /\ job'.spread = job.spread
      /\ job' = Ensured(s) => job'.lacking = job.lacking
      /\ job' = Lacked(s) => job'.lacking = job.lacking \cup {s}
      /\ job'.lacking \subseteq job.lacking \cup {s}
  BY EnsuredShape
<1>4. InJob' /\ Current' = Current
  BY <1>2, <1>3 DEF InJob, Current
<1>5. TypeInv'
  BY <1>1, <1>3 DEF IInv, TypeInv, Expanding
<1>6. known' \subseteq DOMAIN placed'
  BY <1>2 DEF SpeciesInv, PlacedGrows
<1>7. SubjectInv' /\ NodesInv'
  BY <1>6 DEF SubjectInv, NodesInv
<1>8. known \subseteq Species /\ known' \subseteq Species
  BY DEF IInv, TypeInv
<1>9. HopsInv' /\ BondsInv'
  BY <1>8, HopsCarried, BondsCarried DEF IInv
<1>10. TemplatesComplete'
  BY DEF IInv, TemplatesComplete, Viable
<1>11. StageInv'
  <2>1. /\ Current \notin expanded /\ job.lacking \subseteq excluded
        /\ \A z \in (job.spread \cup {Current}) \ job.need :
              z \in job.lacking \/ z \in known \cap DOMAIN placed
        /\ IF job.leaves
           THEN /\ job.spread = {Current} \cup UNION {SpeciesOf(t) : t \in job.ts}
                /\ job.need \subseteq job.spread
                /\ Current \in known \cup excluded
                /\ Current \in known => Derivable(Current) \subseteq templates \cup job.ts
           ELSE job.need \subseteq {Current} /\ job.ts = {} /\ job.spread = {}
        /\ job.ts \cap templates = {}
    BY <1>1 DEF IInv, StageInv
  <2>2. job'.lacking \subseteq excluded'
    <3>1. CASE job' = Ensured(s)
      BY <1>3, <2>1, <3>1
    <3>2. CASE job' = Lacked(s) /\ s \in excluded'
      BY <1>3, <2>1, <3>2
    <3> QED BY <3>1, <3>2
  <2>3. s \in job'.lacking \/ s \in known' \cap DOMAIN placed'
    BY <1>3
  <2>4. job.lacking \subseteq job'.lacking
    BY <1>3
  <2>5. \A z \in (job'.spread \cup {Current}) \ job'.need :
           z \in job'.lacking \/ z \in known' \cap DOMAIN placed'
    BY <1>3, <2>1, <2>3, <2>4 DEF PlacedGrows
  <2>6. Derivable(Current)' = Derivable(Current)
    BY <1>4 DEF Derivable
  <2> QED BY <1>1, <1>3, <1>4, <2>1, <2>2, <2>5, <2>6 DEF StageInv
<1>12. SearchInv'
  <2> SUFFICES ASSUME diffusion, NEW z \in DOMAIN placed', placed'[z] # {}
               PROVE  z \in DOMAIN hops \/ z \in job.spread \cup {Current}
    BY <1>1, <1>3, <1>4 DEF SearchInv
  <2>1. CASE z \in DOMAIN placed
    BY <1>1, <2>1 DEF IInv, SearchInv, PlacedGrows
  <2>2. CASE z = s
    BY <1>1, <2>2 DEF IInv, StageInv
  <2> QED BY <2>1, <2>2
<1>13. ActiveInv'
  <2>1. \A z \in DOMAIN placed' \ DOMAIN placed : z \notin InitialSpecies
    BY DEF IInv, SpeciesInv
  <2>2. HopsFound(hops) \subseteq HopsFound(hops')
    OBVIOUS
  <2> QED BY <1>2, <1>3, <1>4, <1>8, <2>1, <2>2, ActiveCarried DEF IInv
<1> QED BY <1>5, <1>7, <1>9, <1>10, <1>11, <1>12, <1>13 DEF IInv

LEMMA AlreadyKnownKeeps ==
  ASSUME IInv, NEW s, AlreadyKnown(s)
  PROVE  IInv'
<1>1. /\ Ensuring(s) /\ s \in known /\ s \in DOMAIN placed /\ job' = Ensured(s)
      /\ UNCHANGED <<diffusion, registry, nodes, hopStore, bondStore, active, onSurface>>
  BY DEF AlreadyKnown
<1>2. /\ UNCHANGED <<diffusion, known, excluded, placed, templates, expanded,
                     hops, hopIndex, bonds, bondIndex, onSurface>>
      /\ SitesPlaced' = SitesPlaced /\ SpeciesInv'
  BY <1>1, JobFrame
<1>3. known \subseteq DOMAIN placed \cup {s}
  BY <1>1, EnsuringSubject
<1>4. nodes = SetToBag(SitesPlaced)
  BY <1>1, <1>3 DEF IInv, NodesInv, Ensuring
<1>5. PlacedGrows /\ excluded \subseteq Species
  BY <1>2 DEF PlacedGrows, IInv, TypeInv
<1> QED BY <1>1, <1>2, <1>4, <1>5, EnsuredKeeps

LEMMA AlreadyExcludedKeeps ==
  ASSUME IInv, NEW s, AlreadyExcluded(s)
  PROVE  IInv'
<1>1. /\ Ensuring(s) /\ s \in excluded /\ job' = Lacked(s)
      /\ UNCHANGED <<diffusion, registry, nodes, hopStore, bondStore, active, onSurface>>
  BY DEF AlreadyExcluded
<1>2. /\ UNCHANGED <<diffusion, known, excluded, placed, templates, expanded,
                     hops, hopIndex, bonds, bondIndex, onSurface>>
      /\ SitesPlaced' = SitesPlaced /\ SpeciesInv'
  BY <1>1, JobFrame
<1>3. known \subseteq DOMAIN placed \cup {s} /\ s \notin known
  BY <1>1, EnsuringSubject DEF IInv, SpeciesInv
<1>4. nodes = SetToBag(SitesPlaced)
  BY <1>1, <1>3 DEF IInv, NodesInv, Ensuring
<1>5. PlacedGrows /\ excluded \subseteq Species
  BY <1>2 DEF PlacedGrows, IInv, TypeInv
<1> QED BY <1>1, <1>2, <1>4, <1>5, EnsuredKeeps

\* A species registered under a new name.
LEMMA PlacedExtended ==
  ASSUME NEW pl, NEW s, NEW S, NEW more,
         DOMAIN more = DOMAIN pl \cup {s},
         \A z \in DOMAIN pl : more[z] = pl[z], more[s] = S
  PROVE  UNION {more[z] : z \in DOMAIN more} = (UNION {pl[z] : z \in DOMAIN pl}) \cup S
<1>1. UNION {more[z] : z \in DOMAIN more} \subseteq (UNION {pl[z] : z \in DOMAIN pl}) \cup S
  OBVIOUS
<1>2. UNION {pl[z] : z \in DOMAIN pl} \subseteq UNION {more[z] : z \in DOMAIN more}
  <2> SUFFICES ASSUME NEW z \in DOMAIN pl PROVE \E y \in DOMAIN more : more[y] = pl[z]
    OBVIOUS
  <2> QED OBVIOUS
<1>3. S \subseteq UNION {more[z] : z \in DOMAIN more}
  OBVIOUS
<1> QED BY <1>1, <1>2, <1>3

LEMMA RejectSpeciesKeeps ==
  ASSUME IInv, NEW s, RejectSpecies(s)
  PROVE  IInv'
<1>1. /\ Ensuring(s) /\ s \notin known \cup excluded
      /\ excluded' = excluded \cup {s} /\ placed' = Merged(placed, [x \in {s} |-> {}])
      /\ job' = Lacked(s)
      /\ UNCHANGED <<diffusion, known, templates, expanded, nodes, hops, hopIndex,
                     bonds, bondIndex, active, onSurface>>
  BY DEF RejectSpecies, hopStore, bondStore
<1>2. s \notin DOMAIN placed
  BY <1>1 DEF IInv, SpeciesInv
<1>3. /\ DOMAIN placed' = DOMAIN placed \cup {s}
      /\ \A z \in DOMAIN placed : placed'[z] = placed[z]
      /\ placed' = [z \in DOMAIN placed \cup {s} |-> IF z = s THEN {} ELSE placed[z]]
      /\ SitesPlaced' = SitesPlaced
  <2>1. /\ DOMAIN placed' = DOMAIN placed \cup {s}
        /\ \A z \in DOMAIN placed : placed'[z] = placed[z]
        /\ placed' = [z \in DOMAIN placed \cup {s} |-> IF z = s THEN {} ELSE placed[z]]
        /\ placed'[s] = {}
    BY <1>1, <1>2 DEF Merged
  <2>2. UNION {placed'[z] : z \in DOMAIN placed'}
           = (UNION {placed[z] : z \in DOMAIN placed}) \cup {}
    BY <2>1, PlacedExtended
  <2> QED BY <2>1, <2>2 DEF SitesPlaced
<1>4. SpeciesInv'
  <2>1. placed = [z \in DOMAIN placed |-> IF z \in known THEN StableSites(z) ELSE {}]
    BY DEF IInv, SpeciesInv
  <2>2. placed' = [z \in DOMAIN placed' |-> IF z \in known' THEN StableSites(z) ELSE {}]
    BY <1>1, <1>3, <2>1
  <2>3. known \cap excluded = {} /\ DOMAIN placed \subseteq known \cup excluded
    BY DEF IInv, SpeciesInv
  <2>4. expanded \subseteq onSurface \cap (known \cup excluded)
    BY DEF IInv, SpeciesInv
  <2>5. excluded \cup InitialSpecies \subseteq DOMAIN placed
    BY DEF IInv, SpeciesInv
  <2>6. excluded' \cup InitialSpecies \subseteq DOMAIN placed'
    BY <1>1, <1>3, <2>5
  <2> QED BY <1>1, <1>3, <2>2, <2>3, <2>4, <2>6 DEF SpeciesInv
<1>5. s \in Species /\ known \subseteq DOMAIN placed
  BY <1>1, EnsuringSubject
<1>6. nodes = SetToBag(SitesPlaced)
  BY <1>1, <1>5 DEF IInv, NodesInv, Ensuring
<1>7. excluded' \subseteq Species /\ PlacedGrows
  BY <1>1, <1>3, <1>5 DEF IInv, TypeInv, PlacedGrows
<1> QED BY <1>1, <1>3, <1>4, <1>6, <1>7, EnsuredKeeps

LEMMA FindPlacementsKeeps ==
  ASSUME IInv, NEW s, FindPlacements(s)
  PROVE  IInv'
<1>1. /\ Ensuring(s) /\ s \in known /\ s \notin DOMAIN placed
      /\ placed' = Merged(placed, [x \in {s} |-> StableSites(s)])
      /\ nodes' = Materialised(s, StableSites(s))
      /\ job' = Ensured(s)
      /\ UNCHANGED <<diffusion, known, excluded, templates, expanded, hops, hopIndex,
                     bonds, bondIndex, active, onSurface>>
  BY DEF FindPlacements, hopStore, bondStore
<1>2. /\ DOMAIN placed' = DOMAIN placed \cup {s}
      /\ \A z \in DOMAIN placed : placed'[z] = placed[z]
      /\ placed' = [z \in DOMAIN placed \cup {s} |->
                       IF z = s THEN StableSites(s) ELSE placed[z]]
      /\ SitesPlaced' = SitesPlaced \cup StableSites(s)
  <2>1. /\ DOMAIN placed' = DOMAIN placed \cup {s}
        /\ \A z \in DOMAIN placed : placed'[z] = placed[z]
        /\ placed' = [z \in DOMAIN placed \cup {s} |->
                         IF z = s THEN StableSites(s) ELSE placed[z]]
        /\ placed'[s] = StableSites(s)
    BY <1>1 DEF Merged
  <2>2. UNION {placed'[z] : z \in DOMAIN placed'}
           = (UNION {placed[z] : z \in DOMAIN placed}) \cup StableSites(s)
    BY <2>1, PlacedExtended
  <2> QED BY <2>1, <2>2 DEF SitesPlaced
<1>3. SpeciesInv'
  <2>1. placed = [z \in DOMAIN placed |-> IF z \in known THEN StableSites(z) ELSE {}]
    BY DEF IInv, SpeciesInv
  <2>2. placed' = [z \in DOMAIN placed' |-> IF z \in known' THEN StableSites(z) ELSE {}]
    BY <1>1, <1>2, <2>1
  <2> QED BY <1>1, <1>2, <2>2 DEF IInv, SpeciesInv
<1>4. s \in Species /\ job.subject = s /\ known \subseteq Species
  BY <1>1, EnsuringSubject DEF IInv, TypeInv
<1>5. OtherNodes(s) = SetToBag(SitesPlaced)
  BY <1>1, <1>4 DEF IInv, NodesInv, Ensuring
<1>6. SitesPlaced \cap StableSites(s) = {}
  BY <1>1, <1>4, SitesKnown, StableSiteOfSpecies DEF IInv
<1>7. nodes' = SetToBag(SitesPlaced')
  BY <1>1, <1>2, <1>5, <1>6, BagOfUnion DEF Materialised
<1>8. excluded' \subseteq Species /\ PlacedGrows
  BY <1>1, <1>2 DEF IInv, TypeInv, PlacedGrows
<1> QED BY <1>1, <1>2, <1>3, <1>7, <1>8, EnsuredKeeps

\* A species that is built waits for its placements.
LEMMA BuildReactantKeeps ==
  ASSUME IInv, NEW s, BuildReactant(s)
  PROVE  IInv'
<1>1. /\ Ensuring(s) /\ s \notin known \cup excluded /\ known' = known \cup {s}
      /\ job' = [job EXCEPT !.subject = s, !.attempt = 0]
      /\ UNCHANGED <<diffusion, excluded, placed, templates, expanded, nodes, hops,
                     hopIndex, bonds, bondIndex, active, onSurface>>
  BY DEF BuildReactant, hopStore, bondStore
<1>2. /\ JobShape' /\ job'.stage = job.stage /\ job'.queue = job.queue
      /\ job'.produced = job.produced /\ job'.before = job.before
      /\ job'.found = job.found /\ job'.leaves = job.leaves /\ job'.need = job.need
      /\ job'.ts = job.ts /\ job'.lacking = job.lacking /\ job'.spread = job.spread
      /\ job'.subject = s
  BY <1>1 DEF IInv, TypeInv, JobShape
<1>3. /\ s \in Species /\ InJob /\ known \subseteq DOMAIN placed
      /\ job.stage = "species" /\ s \in job.need
  BY <1>1, EnsuringSubject DEF IInv, SpeciesInv, Ensuring
<1>4. InJob' /\ Current' = Current /\ SitesPlaced' = SitesPlaced /\ PlacedGrows
  BY <1>1, <1>2, <1>3 DEF InJob, Current, SitesPlaced, PlacedGrows
<1>5. s \notin DOMAIN placed /\ s \notin expanded
  BY <1>1 DEF IInv, SpeciesInv
<1>6. TypeInv'
  BY <1>1, <1>2, <1>3 DEF IInv, TypeInv, Expanding
<1>7. SpeciesInv'
  <2>1. placed = [z \in DOMAIN placed |-> IF z \in known THEN StableSites(z) ELSE {}]
    BY DEF IInv, SpeciesInv
  <2>2. placed' = [z \in DOMAIN placed' |-> IF z \in known' THEN StableSites(z) ELSE {}]
    BY <1>1, <1>5, <2>1
  <2> QED BY <1>1, <2>2 DEF IInv, SpeciesInv
<1>8. known \subseteq Species /\ known' \subseteq Species
  BY <1>6 DEF IInv, TypeInv
<1>9. HopsInv' /\ BondsInv'
  BY <1>1, <1>4, <1>7, <1>8, HopsCarried, BondsCarried DEF IInv
<1>10. SubjectInv'
  BY <1>1, <1>2, <1>3 DEF SubjectInv
<1>11. NodesInv'
  <2>1. nodes = SetToBag(SitesPlaced)
    BY <1>3 DEF IInv, NodesInv
  <2>2. \A c \in DOMAIN nodes : c.species # s
    BY <1>5, <1>8, <2>1, SitesKnown, BagDomain DEF IInv
  <2>3. {c \in DOMAIN nodes : c.species # s} = SitesPlaced
    BY <2>1, <2>2, BagDomain
  <2>4. nodes = [c \in SitesPlaced |-> nodes[c]]
    BY <2>1 DEF SetToBag
  <2>5. OtherNodes(s) = SetToBag(SitesPlaced)
    BY <2>1, <2>3, <2>4 DEF OtherNodes
  <2>6. OtherNodes(job.subject)' = OtherNodes(s)
    BY <1>1, <1>2 DEF OtherNodes
  <2>7. ~(known' \subseteq DOMAIN placed')
    BY <1>1, <1>5
  <2> QED BY <1>4, <2>5, <2>6, <2>7 DEF NodesInv
<1>12. TemplatesComplete'
  <2>1. expanded' \cap known' = expanded \cap known
    BY <1>1, <1>5
  <2> QED BY <1>1, <2>1 DEF IInv, TemplatesComplete
<1>13. StageInv'
  <2>1. /\ Current \notin expanded /\ job.lacking \subseteq excluded
        /\ \A z \in (job.spread \cup {Current}) \ job.need :
              z \in job.lacking \/ z \in known \cap DOMAIN placed
        /\ IF job.leaves
           THEN /\ job.spread = {Current} \cup UNION {SpeciesOf(t) : t \in job.ts}
                /\ job.need \subseteq job.spread
                /\ Current \in known \cup excluded
                /\ Current \in known => Derivable(Current) \subseteq templates \cup job.ts
           ELSE job.need \subseteq {Current} /\ job.ts = {} /\ job.spread = {}
        /\ job.ts \cap templates = {}
    BY <1>3 DEF IInv, StageInv
  <2>2. job.leaves => Derivable(Current)' = Derivable(Current) /\ s # Current
    BY <1>1, <1>4, <1>5, <2>1 DEF Derivable
  <2> QED BY <1>1, <1>2, <1>3, <1>4, <2>1, <2>2 DEF StageInv
<1>14. SearchInv'
  BY <1>1, <1>2, <1>3, <1>4 DEF IInv, SearchInv
<1>15. ActiveInv'
  <2>1. HopsFound(hops) \subseteq HopsFound(hops')
    BY <1>1
  <2> QED BY <1>1, <1>2, <1>3, <1>4, <1>7, <1>8, <2>1, ActiveCarried DEF IInv
<1> QED BY <1>6, <1>7, <1>9, <1>10, <1>11, <1>12, <1>13, <1>14, <1>15 DEF IInv

\* A failed operation, retried or not, when it leaves the network alone.
LEMMA RaisesKeeps ==
  ASSUME IInv, InJob, NEW z, job' \in Raised(z),
         known \subseteq DOMAIN placed,
         UNCHANGED <<diffusion, registry, nodes, hopStore, bondStore, active, onSurface>>
  PROVE  IInv'
<1>1. /\ UNCHANGED <<diffusion, known, excluded, placed, templates, expanded,
                     hops, hopIndex, bonds, bondIndex, onSurface>>
      /\ SitesPlaced' = SitesPlaced
      /\ SpeciesInv' /\ HopsInv' /\ BondsInv' /\ TemplatesComplete'
  BY JobFrame
<1>2. CASE job' = [Idle EXCEPT !.stage = "failed"]
  BY <1>1, <1>2, FailsKeeps
<1>3. CASE job' = [job EXCEPT !.subject = z, !.attempt = @ + 1]
  <2>1. known' \subseteq DOMAIN placed'
    BY <1>1
  <2>2. nodes = SetToBag(SitesPlaced)
    BY DEF IInv, NodesInv, InJob
  <2>3. SubjectInv' /\ NodesInv'
    BY <1>1, <2>1, <2>2 DEF SubjectInv, NodesInv
  <2> QED BY <1>1, <1>3, <2>3, RetriedKeeps
<1> QED BY <1>2, <1>3, RaisedOutcomes

LEMMA BuildRaisesKeeps ==
  ASSUME IInv, NEW s, BuildRaises(s)
  PROVE  IInv'
<1>1. /\ Ensuring(s) /\ s \notin known \cup excluded /\ job' \in Raised(s)
      /\ UNCHANGED <<diffusion, registry, nodes, hopStore, bondStore, active, onSurface>>
  BY DEF BuildRaises
<1>2. InJob /\ known \subseteq DOMAIN placed
  BY <1>1, EnsuringSubject
<1> QED BY <1>1, <1>2, RaisesKeeps

\* The nodes a failed search has left are dropped by the next one.
LEMMA NodesDropped ==
  ASSUME NEW s, NEW X \in SUBSET CandidateSites(s), NEW S, OtherNodes(s) = SetToBag(S),
         nodes' \in {OtherNodes(s), Materialised(s, X)}
  PROVE  OtherNodes(s)' = OtherNodes(s)
<1> DEFINE old == OtherNodes(s)
<1>1. DOMAIN old = {c \in DOMAIN nodes : c.species # s} /\ old = [c \in DOMAIN old |-> old[c]]
  BY DEF OtherNodes
<1>2. DOMAIN old = S /\ \A c \in S : old[c] = 1
  BY BagDomain
<1>3. \A c \in X : c.species = s
  BY StableSiteShape
<1>4. OtherNodes(s)' = [c \in {x \in DOMAIN nodes' : x.species # s} |-> nodes'[c]]
  BY DEF OtherNodes
<1>5. CASE nodes' = old
  <2> HIDE DEF old
  <2>1. {x \in DOMAIN nodes' : x.species # s} = DOMAIN old
    BY <1>1, <1>5
  <2> QED BY <1>1, <1>4, <1>5, <2>1 DEF old
<1>6. CASE nodes' = old (+) SetToBag(X)
  <2> HIDE DEF old
  <2> DEFINE new == SetToBag(X)
  <2>1. DOMAIN new = X
    BY BagDomain
  <2> HIDE DEF new
  <2>2. nodes' = [e \in DOMAIN old \cup DOMAIN new |->
                     (IF e \in DOMAIN old THEN old[e] ELSE 0)
                     + (IF e \in DOMAIN new THEN new[e] ELSE 0)]
    BY <1>6 DEF (+), new
  <2>3. {x \in DOMAIN nodes' : x.species # s} = DOMAIN old
    BY <1>1, <1>3, <2>1, <2>2
  <2>4. \A e \in DOMAIN old : nodes'[e] = old[e]
    BY <1>1, <1>2, <1>3, <2>1, <2>2
  <2>5. [c \in DOMAIN old |-> nodes'[c]] = [c \in DOMAIN old |-> old[c]]
    BY <2>4
  <2> QED BY <1>1, <1>4, <2>3, <2>5 DEF old
<1> QED BY <1>5, <1>6 DEF Materialised

LEMMA PlacementsRaiseKeeps ==
  ASSUME IInv, NEW s, PlacementsRaise(s)
  PROVE  IInv'
<1>1. /\ Ensuring(s) /\ s \in known /\ s \notin DOMAIN placed
      /\ job' \in Raised(s)
      /\ UNCHANGED <<diffusion, registry, hopStore, bondStore, active, onSurface>>
  BY DEF PlacementsRaise
<1>2. PICK X \in SUBSET CandidateSites(s) : nodes' \in {OtherNodes(s), Materialised(s, X)}
  <2>1. PICK pruned : nodes' \in {OtherNodes(s), Materialised(s, CandidateSites(s) \ pruned)}
    BY DEF PlacementsRaise
  <2> QED BY <2>1
<1>3. /\ InJob /\ job.subject = s /\ known \subseteq DOMAIN placed \cup {s}
      /\ s \in job.need /\ job.stage = "species"
  BY <1>1, EnsuringSubject DEF Ensuring
<1>4. /\ UNCHANGED <<diffusion, known, excluded, placed, templates, expanded,
                     hops, hopIndex, bonds, bondIndex, onSurface>>
      /\ SitesPlaced' = SitesPlaced
      /\ SpeciesInv' /\ HopsInv' /\ BondsInv' /\ TemplatesComplete'
  BY <1>1, JobFrame
<1>5. CASE job' = [Idle EXCEPT !.stage = "failed"]
  BY <1>1, <1>4, <1>5, FailsKeeps
<1>6. CASE job' = [job EXCEPT !.subject = s, !.attempt = @ + 1]
  <2>1. job'.subject = s /\ job'.stage = job.stage /\ job'.need = job.need
    BY <1>6 DEF IInv, TypeInv, JobShape
  <2>2. SubjectInv'
    BY <1>3, <1>4, <2>1 DEF SubjectInv
  <2>3. OtherNodes(s) = SetToBag(SitesPlaced)
    BY <1>1, <1>3 DEF IInv, NodesInv
  <2>4. OtherNodes(s)' = SetToBag(SitesPlaced)
    BY <1>2, <2>3, NodesDropped
  <2>5. OtherNodes(job.subject)' = OtherNodes(s)'
    BY <2>1 DEF OtherNodes
  <2>6. NodesInv'
    BY <1>1, <1>4, <2>4, <2>5 DEF NodesInv
  <2> QED BY <1>1, <1>3, <1>4, <1>6, <2>2, <2>6, RetriedKeeps
<1> QED BY <1>1, <1>5, <1>6, RaisedOutcomes

---------------------------------------------------------------------------
(* Templates, hops and bond sites.                                         *)

\* Between the operations on a species every species built is placed.
LEMMA AllPlaced ==
  ASSUME IInv, job.stage # "failed", job.stage = "species" => job.need = {}
  PROVE  known \subseteq DOMAIN placed /\ nodes = SetToBag(SitesPlaced)
<1>1. known \subseteq DOMAIN placed
  BY DEF IInv, SubjectInv
<1> QED BY <1>1 DEF IInv, NodesInv

LEMMA DeriveTemplatesKeeps ==
  ASSUME IInv, DeriveTemplates
  PROVE  IInv'
<1> DEFINE ts == DerivedTemplates(Current)
           needed == UNION {SpeciesOf(t) : t \in ts}
<1>1. /\ job.stage = "species" /\ job.need = {} /\ ~job.leaves
      /\ job' = [job EXCEPT !.ts = ts, !.need = needed, !.leaves = TRUE,
                            !.spread = {Current} \cup needed]
      /\ UNCHANGED <<diffusion, registry, nodes, hopStore, bondStore, active, onSurface>>
  BY DEF DeriveTemplates
<1>2. ts \subseteq AllTemplates /\ ts \cap templates = {}
      /\ (Current \in known => Derivable(Current) \subseteq templates \cup ts)
  <2>1. \A s : Dissociations(s) \subseteq AllTemplates
    BY DEF Dissociations, AllTemplates
  <2>2. \A s, z : Couplings(s, z) \subseteq AllTemplates
    BY DEF Couplings, AllTemplates
  <2>3. UNION {Couplings(Current, z) : z \in known} \subseteq AllTemplates
    BY <2>2
  <2>4. ts = (Dissociations(Current) \cup UNION {Couplings(Current, z) : z \in known}) \ templates
    BY DEF DerivedTemplates
  <2>5. Current \in known =>
          UNION {Couplings(Current, z) : z \in (expanded \cup {Current}) \cap known}
            \subseteq UNION {Couplings(Current, z) : z \in known}
    OBVIOUS
  <2> QED BY <2>1, <2>3, <2>4, <2>5 DEF Derivable
<1>3. needed \subseteq Species
  <2>1. \A t \in ts : SpeciesOf(t) \subseteq Species
    BY <1>2, NetworkAssumption DEF AllTemplates, SpeciesOf
  <2> QED BY <2>1
<1> HIDE DEF ts, needed
<1>4. /\ JobShape' /\ job'.stage = "species" /\ job'.queue = job.queue
      /\ job'.produced = job.produced /\ job'.before = job.before
      /\ job'.found = job.found /\ job'.leaves = TRUE /\ job'.need = needed
      /\ job'.ts = ts /\ job'.lacking = job.lacking
      /\ job'.spread = {Current} \cup needed
  BY <1>1 DEF IInv, TypeInv, JobShape
<1>5. InJob /\ InJob' /\ Current' = Current
  BY <1>1, <1>4 DEF InJob, Current
<1>6. /\ UNCHANGED <<diffusion, known, excluded, placed, templates, expanded, nodes,
                     hops, hopIndex, bonds, bondIndex, onSurface>>
      /\ SitesPlaced' = SitesPlaced
      /\ SpeciesInv' /\ HopsInv' /\ BondsInv' /\ TemplatesComplete' /\ ActiveInv'
  BY <1>1, <1>4, <1>5, StageFrame
<1>7. TypeInv'
  BY <1>1, <1>2, <1>3, <1>4, <1>6 DEF IInv, TypeInv, Expanding
<1>8. known \subseteq DOMAIN placed /\ nodes = SetToBag(SitesPlaced)
  BY <1>1, AllPlaced
<1>9. SubjectInv' /\ NodesInv'
  BY <1>6, <1>8 DEF SubjectInv, NodesInv
<1>10. StageInv'
  <2>1. /\ Current \notin expanded /\ job.lacking \subseteq excluded
        /\ Current \in job.lacking \/ Current \in known \cap DOMAIN placed
    BY <1>1 DEF IInv, StageInv
  <2>2. Derivable(Current)' = Derivable(Current)
    BY <1>5, <1>6 DEF Derivable
  <2>3. \A z \in (job'.spread \cup {Current}) \ job'.need :
           z \in job'.lacking \/ z \in known' \cap DOMAIN placed'
    BY <1>4, <1>6, <2>1
  <2>4. needed = UNION {SpeciesOf(t) : t \in ts}
    BY DEF needed
  <2>5. UNION {SpeciesOf(t) : t \in job'.ts} = needed
    BY <1>4, <2>4
  <2> QED BY <1>2, <1>4, <1>5, <1>6, <2>1, <2>2, <2>3, <2>5 DEF StageInv
<1>11. SearchInv'
  <2>1. job.spread = {}
    BY <1>1 DEF IInv, StageInv
  <2> QED BY <1>1, <1>4, <1>5, <1>6, <2>1 DEF IInv, SearchInv
<1> QED BY <1>6, <1>7, <1>9, <1>10, <1>11 DEF IInv

LEMMA FilterTemplatesKeeps ==
  ASSUME IInv, FilterTemplates
  PROVE  IInv'
<1>1. /\ job.stage = "species" /\ job.need = {} /\ job.leaves
      /\ job' = [job EXCEPT !.stage = "hops", !.ts = Viable(@, job.lacking)]
      /\ UNCHANGED <<diffusion, registry, nodes, hopStore, bondStore, active, onSurface>>
  BY DEF FilterTemplates
<1>2. /\ JobShape' /\ job'.stage = "hops" /\ job'.queue = job.queue
      /\ job'.produced = job.produced /\ job'.before = job.before
      /\ job'.found = job.found /\ job'.leaves = job.leaves /\ job'.need = {}
      /\ job'.ts = Viable(job.ts, job.lacking) /\ job'.lacking = job.lacking
      /\ job'.spread = job.spread
  BY <1>1 DEF IInv, TypeInv, JobShape
<1>3. InJob /\ InJob' /\ Current' = Current
  BY <1>1, <1>2 DEF InJob, Current
<1>4. /\ UNCHANGED <<diffusion, known, excluded, placed, templates, expanded, nodes,
                     hops, hopIndex, bonds, bondIndex, onSurface>>
      /\ SitesPlaced' = SitesPlaced
      /\ SpeciesInv' /\ HopsInv' /\ BondsInv' /\ TemplatesComplete' /\ ActiveInv'
  BY <1>1, <1>2, <1>3, StageFrame
<1>5. TypeInv'
  BY <1>1, <1>2, <1>4 DEF IInv, TypeInv, Expanding, Stages, Viable
<1>6. known \subseteq DOMAIN placed /\ nodes = SetToBag(SitesPlaced)
  BY <1>1, AllPlaced
<1>7. SubjectInv' /\ NodesInv'
  BY <1>4, <1>6 DEF SubjectInv, NodesInv
<1>8. /\ job.lacking \subseteq excluded
      /\ \A z \in job.spread : z \in job.lacking \/ z \in known \cap DOMAIN placed
      /\ job.spread = {Current} \cup UNION {SpeciesOf(t) : t \in job.ts}
      /\ Current \in known \cup excluded
      /\ Current \in known => Derivable(Current) \subseteq templates \cup job.ts
      /\ job.ts \cap templates = {}
  BY <1>1 DEF IInv, StageInv
<1>9. StageInv'
  <2>1. \A t \in job'.ts : t \in job.ts /\ SpeciesOf(t) \cap job.lacking = {}
    BY <1>2 DEF Viable
  <2>2. \A t \in job.ts : SpeciesOf(t) \subseteq job.spread
    BY <1>8
  <2>3. \A t \in job'.ts : SpeciesOf(t) \subseteq known \cap DOMAIN placed
    BY <1>8, <2>1, <2>2
  <2>4. Derivable(Current)' = Derivable(Current)
    BY <1>3, <1>4 DEF Derivable
  <2>5. Current \in known \ expanded =>
           Viable(Derivable(Current), excluded) \subseteq templates \cup job'.ts
    BY <1>2, <1>8 DEF Viable
  <2> QED BY <1>2, <1>3, <1>4, <1>8, <2>1, <2>3, <2>4, <2>5 DEF StageInv
<1>10. SearchInv'
  BY <1>1, <1>2, <1>4, <1>8 DEF IInv, SearchInv
<1> QED BY <1>4, <1>5, <1>7, <1>9, <1>10 DEF IInv

LEMMA NoHopsDueKeeps ==
  ASSUME IInv, NoHopsDue
  PROVE  IInv'
<1>1. /\ job.stage = "hops" /\ PendingHops(job.spread) = {}
      /\ job' = [job EXCEPT !.stage = "bonds"]
      /\ UNCHANGED <<diffusion, registry, nodes, hopStore, bondStore, active, onSurface>>
  BY DEF NoHopsDue
<1>2. /\ JobShape' /\ job'.stage = "bonds" /\ job'.queue = job.queue
      /\ job'.produced = job.produced /\ job'.before = job.before
      /\ job'.found = job.found /\ job'.leaves = job.leaves /\ job'.need = job.need
      /\ job'.ts = job.ts /\ job'.lacking = job.lacking
      /\ job'.spread = job.spread
  BY <1>1 DEF IInv, TypeInv, JobShape
<1>3. InJob /\ InJob' /\ Current' = Current
  BY <1>1, <1>2 DEF InJob, Current
<1>4. /\ UNCHANGED <<diffusion, known, excluded, placed, templates, expanded, nodes,
                     hops, hopIndex, bonds, bondIndex, onSurface>>
      /\ SitesPlaced' = SitesPlaced
      /\ SpeciesInv' /\ HopsInv' /\ BondsInv' /\ TemplatesComplete' /\ ActiveInv'
  BY <1>1, <1>2, <1>3, StageFrame
<1>5. TypeInv'
  BY <1>1, <1>2, <1>4 DEF IInv, TypeInv, Expanding, Stages
<1>6. known \subseteq DOMAIN placed /\ nodes = SetToBag(SitesPlaced)
  BY <1>1, AllPlaced
<1>7. SubjectInv' /\ NodesInv'
  BY <1>4, <1>6 DEF SubjectInv, NodesInv
<1>8. StageInv'
  <2>1. Derivable(Current)' = Derivable(Current)
    BY <1>3, <1>4 DEF Derivable
  <2> QED BY <1>1, <1>2, <1>3, <1>4, <2>1 DEF IInv, StageInv
<1>9. SearchInv'
  <2>1. diffusion => \A s \in DOMAIN placed : placed[s] # {} =>
           s \in DOMAIN hops \/ s \in job.spread
    BY <1>1 DEF IInv, SearchInv
  <2> QED BY <1>1, <1>4, <2>1 DEF SearchInv, PendingHops
<1> QED BY <1>4, <1>5, <1>7, <1>8, <1>9 DEF IInv

\* The hops of the species whose hops were due.
LEMMA FindDiffusionKeeps ==
  ASSUME IInv, FindDiffusion
  PROVE  IInv'
<1>1. /\ job.stage = "hops"
      /\ hops' = Merged(hops, NewHops)
      /\ hopIndex' = hopIndex (+) SetToBag(HopsFound(NewHops))
      /\ job' = [job EXCEPT !.stage = "bonds", !.subject = None, !.attempt = 0]
      /\ UNCHANGED <<diffusion, known, excluded, placed, templates, expanded, nodes,
                     bonds, bondIndex, active, onSurface>>
  BY DEF FindDiffusion, registry, bondStore
<1>2. /\ JobShape' /\ job'.stage = "bonds" /\ job'.queue = job.queue
      /\ job'.produced = job.produced /\ job'.before = job.before
      /\ job'.found = job.found /\ job'.leaves = job.leaves /\ job'.need = job.need
      /\ job'.ts = job.ts /\ job'.lacking = job.lacking
      /\ job'.spread = job.spread
  BY <1>1 DEF IInv, TypeInv, JobShape
<1>3. /\ InJob /\ InJob' /\ Current' = Current
      /\ SitesPlaced' = SitesPlaced /\ PlacedGrows
  BY <1>1, <1>2 DEF InJob, Current, SitesPlaced, PlacedGrows
<1>4. TypeInv'
  BY <1>1, <1>2 DEF IInv, TypeInv, Expanding, Stages
<1>5. SpeciesInv'
  BY <1>1 DEF IInv, SpeciesInv
<1>6. known \subseteq Species /\ known' \subseteq Species
  BY <1>4 DEF IInv, TypeInv
<1>7. BondsInv'
  BY <1>1, <1>3, <1>5, <1>6, BondsCarried DEF IInv
<1>8. TemplatesComplete'
  BY <1>1 DEF IInv, TemplatesComplete
<1> DEFINE due == PendingHops(job.spread)
<1>9. due \subseteq DOMAIN placed /\ due \cap DOMAIN hops = {}
  BY DEF PendingHops
<1>10. diffusion => \A s \in job.spread \cap DOMAIN placed : placed[s] # {} =>
         s \in DOMAIN hops \cup due
  BY DEF PendingHops
<1>11. NewHops = [s \in due |-> FindHops(placed[s], TRUE)]
  BY DEF NewHops
<1> HIDE DEF due
<1>12. /\ DOMAIN hops \subseteq DOMAIN placed
       /\ \A s \in DOMAIN hops : hops[s] = FindHops(placed[s], TRUE)
       /\ hopIndex = SetToBag(HopsFound(hops))
  <2>1. hops = [s \in DOMAIN hops |-> FindHops(placed[s], TRUE)]
    BY DEF IInv, HopsInv
  <2>2. \A s \in DOMAIN hops : hops[s] = FindHops(placed[s], TRUE)
    BY <2>1
  <2> QED BY <2>2 DEF IInv, HopsInv
<1>13. /\ DOMAIN hops' = DOMAIN hops \cup due
       /\ hops' = [s \in DOMAIN hops \cup due |-> FindHops(placed[s], TRUE)]
       /\ \A s \in DOMAIN hops : hops'[s] = hops[s]
       /\ \A s \in due : hops'[s] = NewHops[s]
  BY <1>1, <1>9, <1>11, <1>12 DEF Merged
<1>14. HopsFound(hops') = HopsFound(hops) \cup HopsFound(NewHops)
  <2>1. ASSUME NEW s \in DOMAIN hops'
        PROVE  hops'[s] \subseteq HopsFound(hops) \cup HopsFound(NewHops)
    <3>1. CASE s \in DOMAIN hops
      <4>1. hops'[s] = hops[s]
        BY <1>13, <3>1
      <4> QED BY <3>1, <4>1 DEF HopsFound
    <3>2. CASE s \in due
      <4>1. s \in DOMAIN NewHops /\ hops'[s] = NewHops[s]
        BY <1>11, <1>13, <3>2
      <4> QED BY <4>1 DEF HopsFound
    <3> QED BY <1>13, <3>1, <3>2
  <2>2. \A s \in DOMAIN hops : s \in DOMAIN hops' /\ hops'[s] = hops[s]
    BY <1>13
  <2>3. \A s \in DOMAIN NewHops : s \in DOMAIN hops' /\ hops'[s] = NewHops[s]
    BY <1>11, <1>13
  <2>4. HopsFound(hops) \subseteq HopsFound(hops')
    BY <2>2 DEF HopsFound
  <2>5. HopsFound(NewHops) \subseteq HopsFound(hops')
    BY <2>3 DEF HopsFound
  <2>6. HopsFound(hops') \subseteq HopsFound(hops) \cup HopsFound(NewHops)
    BY <2>1 DEF HopsFound
  <2> QED BY <2>4, <2>5, <2>6
<1>15. HopsFound(hops) \cap HopsFound(NewHops) = {}
  <2>1. \A s \in DOMAIN placed : \A c \in placed[s] : c.members \subseteq Arrangements(s)
    <3>1. placed = [s \in DOMAIN placed |-> IF s \in known THEN StableSites(s) ELSE {}]
      BY DEF IInv, SpeciesInv
    <3>2. \A s \in DOMAIN placed : \A c \in placed[s] : c \in CandidateSites(s)
      BY <3>1, PlacedBySpecies
    <3> QED BY <3>2, StableSiteShape
  <2>2. \A s \in DOMAIN placed : \A h \in FindHops(placed[s], TRUE) : HopOf(h, s)
    BY <2>1, FoundHops
  <2>3. \A h \in HopsFound(hops) : \E s \in DOMAIN hops : HopOf(h, s)
    BY <1>12, <2>2 DEF HopsFound
  <2>4. \A h \in HopsFound(NewHops) : \E s \in due : HopOf(h, s)
    BY <1>9, <1>11, <2>2 DEF HopsFound
  <2>5. ASSUME NEW h \in HopsFound(hops), h \in HopsFound(NewHops) PROVE FALSE
    <3>1. PICK s \in DOMAIN hops : HopOf(h, s)
      BY <2>3, <2>5
    <3>2. PICK z \in due : HopOf(h, z)
      BY <2>4, <2>5
    <3>3. s = z
      BY <3>1, <3>2, HopsApartBySpecies
    <3> QED BY <1>9, <3>3
  <2> QED BY <2>5
<1>16. HopsInv'
  <2>1. hopIndex' = SetToBag(HopsFound(hops'))
    BY <1>1, <1>12, <1>14, <1>15, BagOfUnion
  <2>2. HopsFound(hops)' = HopsFound(hops')
    BY DEF HopsFound
  <2>3. hops' = [s \in DOMAIN hops' |-> FindHops(placed'[s], TRUE)]
    BY <1>1, <1>13
  <2> QED BY <1>1, <1>9, <1>12, <1>13, <2>1, <2>2, <2>3 DEF HopsInv
<1>17. known \subseteq DOMAIN placed /\ nodes = SetToBag(SitesPlaced)
  BY <1>1, AllPlaced
<1>18. SubjectInv' /\ NodesInv'
  BY <1>1, <1>3, <1>17 DEF SubjectInv, NodesInv
<1>19. StageInv'
  <2>1. Derivable(Current)' = Derivable(Current)
    BY <1>1, <1>3 DEF Derivable
  <2> QED BY <1>1, <1>2, <1>3, <2>1 DEF IInv, StageInv
<1>20. SearchInv'
  <2>1. diffusion => \A s \in DOMAIN placed : placed[s] # {} =>
           s \in DOMAIN hops \/ s \in job.spread
    BY <1>1 DEF IInv, SearchInv
  <2> QED BY <1>1, <1>10, <1>13, <2>1 DEF SearchInv
<1>21. ActiveInv'
  <2>1. HopsFound(hops) \subseteq HopsFound(hops')
    BY <1>14
  <2> QED BY <1>1, <1>2, <1>3, <1>5, <1>6, <2>1, ActiveCarried DEF IInv
<1> QED BY <1>4, <1>5, <1>7, <1>8, <1>16, <1>18, <1>19, <1>20, <1>21 DEF IInv

LEMMA DiffusionRaisesKeeps ==
  ASSUME IInv, DiffusionRaises
  PROVE  IInv'
<1>1. /\ job.stage = "hops" /\ job' \in Raised(Current)
      /\ UNCHANGED <<diffusion, registry, nodes, hopStore, bondStore, active, onSurface>>
  BY DEF DiffusionRaises, HopsAfterFailure, hopStore
<1>2. InJob /\ known \subseteq DOMAIN placed
  BY <1>1, AllPlaced DEF InJob
<1> QED BY <1>1, <1>2, RaisesKeeps

LEMMA BondSitesRaiseKeeps ==
  ASSUME IInv, BondSitesRaise
  PROVE  IInv'
<1>1. /\ job.stage = "bonds" /\ job' \in Raised(Current)
      /\ UNCHANGED <<diffusion, registry, nodes, hopStore, bondStore, active, onSurface>>
  BY DEF BondSitesRaise, BondsAfterFailure, bondStore
<1>2. InJob /\ known \subseteq DOMAIN placed
  BY <1>1, AllPlaced DEF InJob
<1> QED BY <1>1, <1>2, RaisesKeeps

\* The templates among one species more.
LEMMA AmongGrows ==
  ASSUME NEW s, s \in known
  PROVE  TemplatesAmong((expanded \cup {s}) \cap known)
            = TemplatesAmong(expanded \cap known) \cup Derivable(s)
<1> DEFINE old == expanded \cap known
           new == (expanded \cup {s}) \cap known
<1>1. new = old \cup {s}
  OBVIOUS
<1> HIDE DEF old, new
<1>2. \A x, y : Couplings(x, y) = Couplings(y, x)
  BY DEF Couplings
<1>3. TemplatesAmong(new) \subseteq TemplatesAmong(old) \cup Derivable(s)
  <2> SUFFICES ASSUME NEW t \in TemplatesAmong(new)
               PROVE  t \in TemplatesAmong(old) \cup Derivable(s)
    OBVIOUS
  <2>1. CASE \E x \in new : t \in Dissociations(x)
    BY <1>1, <2>1 DEF TemplatesAmong, Derivable
  <2>2. ASSUME NEW x \in new, NEW y \in new, t \in Couplings(x, y)
        PROVE  t \in TemplatesAmong(old) \cup Derivable(s)
    <3>1. CASE x \in old /\ y \in old
      BY <2>2, <3>1 DEF TemplatesAmong
    <3>2. CASE x = s
      BY <2>2, <3>2 DEF Derivable, new
    <3>3. CASE y = s
      <4>1. t \in Couplings(s, x)
        BY <1>2, <2>2, <3>3
      <4> QED BY <4>1 DEF Derivable, new
    <3> QED BY <1>1, <3>1, <3>2, <3>3
  <2> QED BY <2>1, <2>2 DEF TemplatesAmong
<1>4. TemplatesAmong(old) \subseteq TemplatesAmong(new)
  <2>1. \A x \in old : x \in new
    BY <1>1
  <2> QED BY <2>1 DEF TemplatesAmong
<1>5. Derivable(s) \subseteq TemplatesAmong(new)
  <2>1. s \in new
    BY <1>1
  <2>2. Dissociations(s) \subseteq TemplatesAmong(new)
    BY <2>1 DEF TemplatesAmong
  <2>3. UNION {Couplings(s, z) : z \in new} \subseteq TemplatesAmong(new)
    BY <2>1 DEF TemplatesAmong
  <2> QED BY <2>2, <2>3 DEF Derivable, new
<1> QED BY <1>3, <1>4, <1>5 DEF old, new

\* A species is marked as expanded when its templates are registered.
LEMMA CompletedBySpecies ==
  ASSUME IInv, job.stage = "bonds",
         UNCHANGED <<known, excluded>>, expanded' = expanded \cup {Current},
         templates' = templates \cup job.ts
  PROVE  TemplatesComplete'
<1>1. Viable(TemplatesAmong(expanded \cap known), excluded) \subseteq templates
  BY DEF IInv, TemplatesComplete
<1>2. /\ Current \in known \cup excluded
      /\ Current \in known \ expanded =>
           Viable(Derivable(Current), excluded) \subseteq templates \cup job.ts
  BY DEF IInv, StageInv
<1>3. CASE Current \in known \ expanded
  <2>1. TemplatesAmong((expanded \cup {Current}) \cap known)
           = TemplatesAmong(expanded \cap known) \cup Derivable(Current)
    BY <1>3, AmongGrows
  <2>2. Viable(TemplatesAmong((expanded \cup {Current}) \cap known), excluded)
           \subseteq templates \cup job.ts
    BY <1>1, <1>2, <1>3, <2>1 DEF Viable
  <2> QED BY <2>2 DEF TemplatesComplete
<1>4. CASE Current \notin known \ expanded
  <2>1. (expanded \cup {Current}) \cap known = expanded \cap known
    BY <1>4
  <2> QED BY <1>1, <2>1 DEF TemplatesComplete
<1> QED BY <1>3, <1>4

LEMMA FinishedShape ==
  ASSUME NEW found, job' = Finished(found)
  PROVE  /\ JobShape' /\ job'.stage = "expand" /\ job'.queue = Tail(job.queue)
         /\ job'.produced = job.produced /\ job'.before = job.before
         /\ job'.found = job.found \o found /\ ~job'.leaves /\ job'.need = {}
         /\ job'.ts = {} /\ job'.lacking = {} /\ job'.spread = {}
BY DEF Finished, Idle, JobShape

\* What the two operations that finish a species have in common.
LEMMA FinishedKeeps ==
  ASSUME IInv, job.stage = "bonds", NEW found, job' = Finished(found),
         found \in Seq(ToSet(found)),
         UNCHANGED <<diffusion, known, excluded, placed, nodes, hops, hopIndex,
                     active, onSurface>>,
         expanded' = expanded \cup {Current}, templates' = templates \cup job.ts,
         bonds' \in Seq(ToSet(bonds')), ToSet(bonds') = ToSet(bonds) \cup ToSet(found),
         (SpeciesInv' => BondsInv')
  PROVE  IInv'
<1>1. /\ JobShape' /\ job'.stage = "expand" /\ job'.queue = Tail(job.queue)
      /\ job'.produced = job.produced /\ job'.before = job.before
      /\ job'.found = job.found \o found /\ ~job'.leaves /\ job'.need = {}
      /\ job'.ts = {} /\ job'.lacking = {} /\ job'.spread = {}
  BY FinishedShape
<1>2. /\ InJob /\ InJob' /\ SitesPlaced' = SitesPlaced /\ PlacedGrows
  BY <1>1 DEF InJob, SitesPlaced, PlacedGrows
<1>3. /\ job.queue \in Seq(Species) /\ job.queue # <<>>
      /\ ToSet(job.queue) \subseteq job.produced /\ job.produced \subseteq onSurface
      /\ job.found \in Seq(ToSet(job.found))
      /\ job.ts \subseteq AllTemplates /\ templates \subseteq AllTemplates
  BY DEF IInv, TypeInv, Expanding
<1>4. /\ Current \in job.produced
      /\ Tail(job.queue) \in Seq(Species)
      /\ ToSet(Tail(job.queue)) \subseteq job.produced
  BY <1>3, QueueMoves DEF Current
<1>5. /\ job'.found \in Seq(ToSet(job'.found))
      /\ ToSet(job'.found) = ToSet(job.found) \cup ToSet(found)
  BY <1>1, <1>3, ListsJoined
<1>6. TypeInv'
  BY <1>1, <1>3, <1>4, <1>5 DEF IInv, TypeInv, Expanding, Stages
<1>7. SpeciesInv'
  <2>1. Current \in onSurface /\ Current \in known \cup excluded
    BY <1>3, <1>4 DEF IInv, StageInv
  <2>2. expanded' \subseteq onSurface \cap (known \cup excluded)
    BY <2>1 DEF IInv, SpeciesInv
  <2> QED BY <2>2 DEF IInv, SpeciesInv
<1>8. BondsInv'
  BY <1>7
<1>9. known \subseteq Species /\ known' \subseteq Species
  BY <1>6 DEF IInv, TypeInv
<1>10. HopsInv'
  BY <1>2, HopsCarried DEF IInv
<1>11. TemplatesComplete'
  BY CompletedBySpecies
<1>12. known \subseteq DOMAIN placed /\ nodes = SetToBag(SitesPlaced)
  BY AllPlaced
<1>13. SubjectInv' /\ NodesInv'
  BY <1>2, <1>12 DEF SubjectInv, NodesInv
<1>14. StageInv'
  BY <1>1 DEF StageInv
<1>15. SearchInv'
  BY <1>1 DEF IInv, SearchInv
<1>16. ActiveInv'
  <2>1. ToSet(bonds') = DOMAIN active.bonds \cup ToSet(job'.found)
    BY <1>2, <1>5 DEF IInv, ActiveInv, InJob
  <2>2. HopsFound(hops) \subseteq HopsFound(hops')
    OBVIOUS
  <2> QED BY <1>1, <1>2, <1>7, <1>9, <2>1, <2>2, ActiveKept DEF IInv
<1> QED BY <1>6, <1>7, <1>8, <1>10, <1>11, <1>13, <1>14, <1>15, <1>16 DEF IInv

LEMMA NoNewTemplatesKeeps ==
  ASSUME IInv, NoNewTemplates
  PROVE  IInv'
<1>1. /\ job.stage = "bonds" /\ job.ts = {}
      /\ expanded' = expanded \cup {Current} /\ job' = Finished(<<>>)
      /\ UNCHANGED <<diffusion, known, excluded, placed, templates, nodes,
                     hops, hopIndex, bonds, bondIndex, active, onSurface>>
  BY DEF NoNewTemplates, hopStore, bondStore
<1>2. ToSet(<<>>) = {} /\ <<>> \in Seq(ToSet(<<>>))
  BY EmptySeq DEF ToSet
<1>3. templates' = templates \cup job.ts
  BY <1>1
<1>4. bonds' \in Seq(ToSet(bonds')) /\ ToSet(bonds') = ToSet(bonds) \cup ToSet(<<>>)
  BY <1>1, <1>2 DEF IInv, TypeInv
<1>5. ASSUME SpeciesInv' PROVE BondsInv'
  <2>1. PlacedGrows /\ known \subseteq Species /\ known' \subseteq Species
    BY <1>1 DEF PlacedGrows, IInv, TypeInv
  <2> QED BY <1>1, <1>5, <2>1, BondsCarried DEF IInv
<1> QED BY <1>1, <1>2, <1>3, <1>4, <1>5, FinishedKeeps

\* The bond sites of the new templates are numbered after the old ones.
LEMMA FindBondSitesKeeps ==
  ASSUME IInv, FindBondSites
  PROVE  IInv'
<1> DEFINE new == NewBonds
           fresh == EnumerateBonds(job.ts, SitesPlaced)
<1>1. /\ job.stage = "bonds"
      /\ bonds' = bonds \o new /\ bondIndex' = bondIndex (+) SetToBag(ToSet(new))
      /\ templates' = templates \cup job.ts
      /\ expanded' = expanded \cup {Current} /\ job' = Finished(new)
      /\ UNCHANGED <<diffusion, known, excluded, placed, nodes,
                     hops, hopIndex, active, onSurface>>
  BY DEF FindBondSites, hopStore
<1>2. SitesPlaced' = SitesPlaced /\ SitesFound(SitesPlaced)
  BY <1>1, SitesKnown DEF SitesPlaced, IInv, TypeInv
<1>3. job.ts \subseteq Species \X Species \X Species /\ IsFiniteSet(job.ts)
  BY NetworkAssumption, FS_Subset DEF IInv, TypeInv, AllTemplates
<1>4. /\ IsFiniteSet(fresh)
      /\ \A b \in fresh :
           b.template \in job.ts /\ b \in StableBonds(FindBonds(b.template, SitesPlaced))
      /\ \A t \in job.ts : \A b \in StableBonds(FindBonds(t, SitesPlaced)) :
           Cardinality({k \in {x \in fresh : x.template = t} :
                          TripleKey(k) = TripleKey(b)}) = 1
  BY <1>2, <1>3, EnumerationSound
<1>5. new = SetToSeq(fresh)
  BY DEF NewBonds
<1> HIDE DEF new, fresh
<1>6. new \in Seq(fresh) /\ ToSet(new) = fresh /\ IsInjective(new)
  BY <1>4, <1>5, ListOfSet
<1>7. /\ bonds \in Seq(ToSet(bonds)) /\ IsInjective(bonds)
      /\ bondIndex = SetToBag(ToSet(bonds))
      /\ \A b \in ToSet(bonds) : b.template \in templates
      /\ \A t \in templates : SpeciesOf(t) \subseteq known \cap DOMAIN placed
      /\ TriplesRepresented
  BY DEF IInv, TypeInv, BondsInv
<1>8. job.ts \cap templates = {} /\ \A t \in job.ts : SpeciesOf(t) \subseteq known \cap DOMAIN placed
  BY <1>1 DEF IInv, StageInv
<1>9. ToSet(bonds) \cap ToSet(new) = {}
  BY <1>4, <1>6, <1>7, <1>8
<1>10. bonds' \in Seq(ToSet(bonds')) /\ ToSet(bonds') = ToSet(bonds) \cup ToSet(new)
  BY <1>1, <1>6, <1>7, ListsJoined
<1>11. IsInjective(bonds')
  BY <1>1, <1>6, <1>7, <1>9, ListsJoinedApart
<1>12. bondIndex' = SetToBag(ToSet(bonds'))
  BY <1>1, <1>7, <1>9, <1>10, BagOfUnion
<1>13. TriplesRepresented'
  <2> SUFFICES ASSUME NEW t \in templates \cup job.ts
               PROVE  LET stable == StableBonds(FindBonds(t, SitesPlaced))
                          kept == {b \in ToSet(bonds') : b.template = t}
                      IN /\ kept \subseteq stable
                         /\ \A b \in stable :
                              Cardinality({k \in kept : TripleKey(k) = TripleKey(b)}) = 1
    BY <1>1, <1>2 DEF TriplesRepresented
  <2> DEFINE stable == StableBonds(FindBonds(t, SitesPlaced))
             kept == {b \in ToSet(bonds') : b.template = t}
  <2>1. CASE t \in templates
    <3>1. kept = {b \in ToSet(bonds) : b.template = t}
      BY <1>4, <1>6, <1>8, <1>10, <2>1
    <3> QED BY <1>7, <2>1, <3>1 DEF TriplesRepresented
  <2>2. CASE t \in job.ts
    <3>1. kept = {x \in fresh : x.template = t}
      BY <1>6, <1>7, <1>8, <1>10, <2>2
    <3>2. kept \subseteq stable
      BY <1>4, <3>1
    <3> QED BY <1>4, <2>2, <3>1, <3>2
  <2> QED BY <2>1, <2>2
<1>14. BondsInv'
  <2>1. \A b \in ToSet(bonds') : b.template \in templates'
    BY <1>1, <1>4, <1>6, <1>7, <1>10
  <2>2. \A t \in templates' : SpeciesOf(t) \subseteq known' \cap DOMAIN placed'
    BY <1>1, <1>7, <1>8
  <2> QED BY <1>11, <1>12, <1>13, <2>1, <2>2 DEF BondsInv, SpeciesOf
<1>15. new \in Seq(ToSet(new))
  BY <1>6
<1> QED BY <1>1, <1>10, <1>14, <1>15, FinishedKeeps

---------------------------------------------------------------------------
(* The end of an expansion, and the next event.                            *)

LEMMA ActivateKeeps ==
  ASSUME IInv, Activate
  PROVE  IInv'
<1>1. /\ job.stage = "expand"
      /\ active' = [placements |-> active.placements (+) SetToBag(NewPlacements),
                    hops |-> active.hops (+) SetToBag(NewHopSites),
                    bonds |-> active.bonds (+) SetToBag(NewBondSites)]
      /\ job' = Idle
      /\ UNCHANGED <<diffusion, registry, nodes, hopStore, bondStore, onSurface>>
  BY DEF Activate
<1>2. /\ UNCHANGED <<diffusion, known, excluded, placed, templates, expanded, nodes,
                     hops, hopIndex, bonds, bondIndex, onSurface>>
      /\ SitesPlaced' = SitesPlaced
      /\ SpeciesInv' /\ HopsInv' /\ BondsInv' /\ TemplatesComplete'
  BY <1>1, JobFrame
<1>3. /\ JobShape' /\ job'.stage = "ready" /\ job'.queue = <<>> /\ job'.produced = {}
      /\ job'.found = <<>> /\ job'.need = {} /\ job'.ts = {}
  BY <1>1 DEF Idle, JobShape
<1>4. TypeInv'
  <2>1. /\ <<>> \in Seq(Species) /\ <<>> \in Seq(ToSet(job'.found))
        /\ ToSet(job'.queue) = {}
    BY <1>3, EmptySeq DEF ToSet
  <2>2. ~Expanding'
    BY <1>3 DEF Expanding
  <2> QED BY <1>1, <1>2, <1>3, <2>1, <2>2 DEF IInv, TypeInv, Stages
<1>5. known \subseteq DOMAIN placed /\ nodes = SetToBag(SitesPlaced)
  BY <1>1, AllPlaced
<1>6. SubjectInv' /\ NodesInv'
  BY <1>2, <1>5 DEF SubjectInv, NodesInv
<1>7. StageInv'
  BY <1>3 DEF StageInv
<1>8. SearchInv'
  BY <1>1, <1>2, <1>3 DEF IInv, SearchInv
<1> DEFINE P == DOMAIN active.placements
           H == DOMAIN active.hops
           B == DOMAIN active.bonds
<1>9. /\ active.placements = SetToBag(P) /\ active.hops = SetToBag(H)
      /\ active.bonds = SetToBag(B)
  <2>1. active = Leaves(P, H, B)
    BY DEF IInv, ActiveInv
  <2> HIDE DEF P, H, B
  <2> QED BY <2>1, LeavesParts
<1>10. /\ H \subseteq HopsFound(hops)
       /\ B \cup ToSet(job.found) = ToSet(bonds)
       /\ job.before \subseteq SitesPlaced
       /\ \A c \in SitesPlaced \ job.before : c.species \notin InitialSpecies
       /\ P \subseteq Occurring
       /\ \A c \in Occurring \cap job.before : c.species \in job.produced \/ c \in P
  BY <1>1 DEF IInv, ActiveInv
<1>11. NewPlacements = {c \in SitesPlaced \ P : c \notin job.before \/ c.species \in job.produced}
  <2>1. Inactive(SitesPlaced, active.placements) = SitesPlaced \ P
    BY DEF Inactive, BagIn, BagToSet
  <2> QED BY <2>1 DEF NewPlacements
<1>12. NewHopSites = HopsFound(hops) \ H /\ NewBondSites = ToSet(job.found) \ B
  BY DEF NewHopSites, NewBondSites, Inactive, BagIn, BagToSet
<1>13. P \cup NewPlacements = Occurring
  <2>1. \A c \in SitesPlaced :
          c.species \in DOMAIN placed /\ c \in placed[c.species]
    BY SitesKnown DEF IInv, TypeInv
  <2>2. ASSUME NEW c \in NewPlacements PROVE c \in Occurring
    <3>1. c \in SitesPlaced /\ (c \notin job.before \/ c.species \in job.produced)
      BY <1>11
    <3>2. c.species \notin InitialSpecies \ onSurface
      BY <1>10, <3>1 DEF IInv, TypeInv
    <3> QED BY <2>1, <3>1, <3>2 DEF Occurring
  <2>3. Occurring \subseteq SitesPlaced
    BY DEF Occurring, SitesPlaced
  <2>4. ASSUME NEW c \in Occurring PROVE c \in P \cup NewPlacements
    BY <1>10, <1>11, <2>3
  <2> HIDE DEF P
  <2> QED BY <1>10, <2>2, <2>4
<1>14. H \cup NewHopSites = HopsFound(hops) /\ B \cup NewBondSites = ToSet(bonds)
  BY <1>10, <1>12
<1>15. P \cap NewPlacements = {} /\ H \cap NewHopSites = {} /\ B \cap NewBondSites = {}
  BY <1>11, <1>12
<1> HIDE DEF P, H, B
<1>16. active' = Leaves(Occurring, HopsFound(hops), ToSet(bonds))
  <2>1. /\ active.placements (+) SetToBag(NewPlacements) = SetToBag(Occurring)
        /\ active.hops (+) SetToBag(NewHopSites) = SetToBag(HopsFound(hops))
        /\ active.bonds (+) SetToBag(NewBondSites) = SetToBag(ToSet(bonds))
    BY <1>9, <1>13, <1>14, <1>15, BagOfUnion
  <2> QED BY <1>1, <2>1 DEF Leaves
<1>17. ActiveInv'
  <2>1. Occurring' = Occurring /\ HopsFound(hops') = HopsFound(hops)
    BY <1>2 DEF Occurring
  <2>2. Activated'
    BY <1>2, <1>16 DEF Activated, Occurring
  <2>3. /\ DOMAIN active'.placements = Occurring /\ DOMAIN active'.hops = HopsFound(hops)
        /\ DOMAIN active'.bonds = ToSet(bonds)
    BY <1>16, LeavesParts
  <2>4. ToSet(job'.found) = {}
    BY <1>3 DEF ToSet
  <2>5. active' = Leaves(DOMAIN active'.placements, DOMAIN active'.hops, DOMAIN active'.bonds)
    BY <1>16, <2>3
  <2>6. /\ DOMAIN active'.hops \subseteq HopsFound(hops')
        /\ DOMAIN active'.bonds \cup ToSet(job'.found) = ToSet(bonds')
    BY <1>2, <2>1, <2>3, <2>4
  <2> QED BY <1>3, <2>2, <2>5, <2>6 DEF ActiveInv
<1> QED BY <1>2, <1>4, <1>6, <1>7, <1>8, <1>17 DEF IInv

LEMMA ActivationRaisesKeeps ==
  ASSUME IInv, ActivationRaises
  PROVE  IInv'
<1>1. /\ job' = [Idle EXCEPT !.stage = "failed"]
      /\ UNCHANGED <<diffusion, registry, nodes, hopStore, bondStore, active, onSurface>>
  BY DEF ActivationRaises
<1>2. /\ UNCHANGED <<diffusion, known, excluded, placed, templates, expanded,
                     hops, hopIndex, bonds, bondIndex, onSurface>>
      /\ SpeciesInv' /\ HopsInv' /\ BondsInv' /\ TemplatesComplete'
  BY <1>1, JobFrame
<1> QED BY <1>1, <1>2, FailsKeeps

LEMMA StutterKeeps ==
  ASSUME IInv, UNCHANGED vars
  PROVE  IInv'
<1>1. /\ UNCHANGED <<diffusion, known, excluded, placed, templates, expanded, nodes,
                     hops, hopIndex, bonds, bondIndex, active, onSurface, job>>
      /\ UNCHANGED <<diffusion, registry, hopStore, bondStore, onSurface>>
  BY DEF vars, registry, hopStore, bondStore
<1>2. /\ SitesPlaced' = SitesPlaced
      /\ SpeciesInv' /\ HopsInv' /\ BondsInv' /\ TemplatesComplete'
  BY <1>1, JobFrame
<1>3. TypeInv'
  BY <1>1 DEF IInv, TypeInv, JobShape, Expanding
<1>4. SubjectInv'
  BY <1>1 DEF IInv, SubjectInv
<1>5. NodesInv'
  <2>1. OtherNodes(job.subject)' = OtherNodes(job.subject)
    BY <1>1 DEF OtherNodes
  <2> QED BY <1>1, <1>2, <2>1 DEF IInv, NodesInv
<1>6. StageInv'
  <2>1. Current' = Current
    BY <1>1 DEF Current
  <2>2. Derivable(Current)' = Derivable(Current)
    BY <1>1, <2>1 DEF Derivable
  <2> QED BY <1>1, <2>1, <2>2 DEF IInv, StageInv
<1>7. SearchInv'
  BY <1>1 DEF IInv, SearchInv, Current
<1>8. ActiveInv'
  <2>1. Occurring' = Occurring /\ (Activated' <=> Activated)
    BY <1>1 DEF Occurring, Activated
  <2> QED BY <1>1, <1>2, <2>1 DEF IInv, ActiveInv
<1> QED BY <1>2, <1>3, <1>4, <1>5, <1>6, <1>7, <1>8 DEF IInv

\* A bond event of a registered template.
LEMMA FireKeeps ==
  ASSUME IInv, NEW i \in DOMAIN bonds, NEW direction,
         Fire(bonds[i].template, direction)
  PROVE  IInv'
<1> DEFINE t == bonds[i].template
           q == Produced(t, direction)
           produced == ToSet(q)
<1>1. /\ job = Idle /\ onSurface' = onSurface \cup produced
      /\ \/ produced \subseteq expanded /\ job' = Idle
         \/ job' = [Idle EXCEPT !.stage = "expand", !.queue = q,
                                !.produced = produced, !.before = SitesPlaced]
      /\ UNCHANGED <<diffusion, known, excluded, placed, templates, expanded, nodes,
                     hops, hopIndex, bonds, bondIndex, active>>
  BY DEF Fire, registry, hopStore, bondStore
<1>2. t[1] \in Species /\ t[2] \in Species /\ t[3] \in Species
  <2>1. t \in templates
    BY DEF IInv, BondsInv, ToSet
  <2>2. t \in Species \X Species \X Species
    BY <2>1, NetworkAssumption DEF IInv, TypeInv, AllTemplates
  <2> QED BY <2>2
<1>3. q \in Seq(Species) /\ produced \subseteq Species
  <2>1. q \in Seq(Species)
    BY <1>2 DEF Produced
  <2>2. produced \subseteq Species
    <3> HIDE DEF q
    <3>1. \A k \in DOMAIN q : q[k] \in Species
      BY <2>1
    <3> QED BY <3>1 DEF ToSet
  <2> QED BY <2>1, <2>2
<1> HIDE DEF t, q, produced
<1>4. /\ job.stage = "ready" /\ job.found = <<>> /\ ToSet(<<>>) = {}
      /\ <<>> \in Seq(ToSet(<<>>))
  BY <1>1, EmptySeq DEF Idle, ToSet
<1>5. CASE produced \subseteq expanded /\ job' = Idle
  <2>1. onSurface' = onSurface /\ job' = job
    BY <1>1, <1>5 DEF IInv, SpeciesInv
  <2> QED BY <1>1, <2>1, StutterKeeps DEF vars, registry, hopStore, bondStore
<1>6. CASE job' = [Idle EXCEPT !.stage = "expand", !.queue = q,
                               !.produced = produced, !.before = SitesPlaced]
  <2>1. /\ JobShape' /\ job'.stage = "expand" /\ job'.queue = q
        /\ job'.produced = produced /\ job'.before = SitesPlaced
        /\ job'.found = <<>> /\ ~job'.leaves /\ job'.need = {}
        /\ job'.ts = {} /\ job'.lacking = {} /\ job'.spread = {}
    BY <1>6 DEF Idle, JobShape
  <2>2. TypeInv'
    <3>1. ~Expanding'
      BY <2>1 DEF Expanding
    <3>2. ToSet(q) \subseteq produced
      BY DEF produced
    <3> QED BY <1>1, <1>3, <1>4, <2>1, <3>1, <3>2 DEF IInv, TypeInv, Stages
  <2>3. SpeciesInv'
    BY <1>1 DEF IInv, SpeciesInv
  <2>4. SitesPlaced' = SitesPlaced /\ PlacedGrows
    BY <1>1 DEF SitesPlaced, PlacedGrows
  <2>5. known \subseteq Species /\ known' \subseteq Species
    BY <2>2 DEF IInv, TypeInv
  <2>6. HopsInv' /\ BondsInv'
    BY <1>1, <2>3, <2>4, <2>5, HopsCarried, BondsCarried DEF IInv
  <2>7. TemplatesComplete'
    BY <1>1 DEF IInv, TemplatesComplete
  <2>8. known \subseteq DOMAIN placed /\ nodes = SetToBag(SitesPlaced)
    BY <1>4, AllPlaced
  <2>9. SubjectInv' /\ NodesInv'
    BY <1>1, <2>4, <2>8 DEF SubjectInv, NodesInv
  <2>10. StageInv'
    BY <2>1 DEF StageInv
  <2>11. SearchInv'
    BY <1>1, <1>4 DEF IInv, SearchInv
  <2>12. active = Leaves(Occurring, HopsFound(hops), ToSet(bonds))
    BY <1>4 DEF IInv, ActiveInv, Activated, Occurring
  <2>13. /\ DOMAIN active.placements = Occurring /\ DOMAIN active.hops = HopsFound(hops)
         /\ DOMAIN active.bonds = ToSet(bonds)
    BY <2>12, LeavesParts
  <2>14. Occurring \subseteq Occurring'
    BY <1>1 DEF Occurring
  <2>15. ASSUME NEW c \in Occurring'
         PROVE  c.species \in produced \/ c \in Occurring
    <3>1. PICK s \in DOMAIN placed \ (InitialSpecies \ onSurface') : c \in placed[s]
      BY <1>1 DEF Occurring
    <3>2. c.species = s
      BY <2>5, <3>1, SitesKnown DEF IInv
    <3>3. CASE s \in InitialSpecies \ onSurface
      BY <1>1, <3>1, <3>2, <3>3
    <3>4. CASE s \notin InitialSpecies \ onSurface
      BY <3>1, <3>4 DEF Occurring
    <3> QED BY <3>3, <3>4
  <2>16. ActiveInv'
    <3>1. DOMAIN active'.hops \subseteq HopsFound(hops')
      BY <1>1, <2>13
    <3>2. ToSet(bonds') = DOMAIN active'.bonds \cup ToSet(job'.found)
      BY <1>1, <1>4, <2>1, <2>13
    <3>3. /\ job'.before \subseteq SitesPlaced'
          /\ \A c \in SitesPlaced' \ job'.before : c.species \notin InitialSpecies
          /\ DOMAIN active'.placements \subseteq Occurring'
          /\ \A c \in Occurring' \cap job'.before :
               c.species \in job'.produced \/ c \in DOMAIN active'.placements
      BY <1>1, <2>1, <2>4, <2>13, <2>14, <2>15
    <3>4. active' = Leaves(DOMAIN active'.placements, DOMAIN active'.hops, DOMAIN active'.bonds)
      BY <1>1 DEF IInv, ActiveInv
    <3> QED BY <2>1, <3>1, <3>2, <3>3, <3>4 DEF ActiveInv
  <2> QED BY <2>2, <2>3, <2>6, <2>7, <2>9, <2>10, <2>11, <2>16 DEF IInv
<1> QED BY <1>1, <1>5, <1>6

---------------------------------------------------------------------------
(* The network discovered before the run.                                  *)

LEMMA InitKeeps ==
  ASSUME Init
  PROVE  IInv
<1>1. /\ diffusion \in DiffusionChoices /\ known = InitialKnown
      /\ excluded = InitialSpecies \cap GasUnstable
      /\ placed = InitialPlaced /\ nodes = SetToBag(InitialSites)
      /\ hops = IF diffusion THEN InitialHops ELSE <<>>
      /\ hopIndex = SetToBag(HopsFound(hops))
      /\ bonds = InitialBonds /\ bondIndex = SetToBag(ToSet(InitialBonds))
      /\ templates = InitialTemplates /\ expanded = Feed
      /\ active = Leaves(UNION {InitialPlaced[s] : s \in Feed},
                         HopsFound(hops), ToSet(InitialBonds))
      /\ onSurface = Feed /\ job = Idle
  BY DEF Init
<1>2. /\ JobShape /\ job.stage = "ready" /\ job.queue = <<>> /\ job.produced = {}
      /\ job.found = <<>> /\ job.need = {} /\ job.ts = {}
  BY <1>1 DEF Idle, JobShape
<1>3. Feed \subseteq Species /\ AllTemplates \subseteq Species \X Species \X Species
      /\ IsFiniteSet(AllTemplates) /\ DiffusionChoices \subseteq BOOLEAN
  BY NetworkAssumption DEF AllTemplates
<1>4. ConfiguredTemplates \subseteq AllTemplates
  BY ConfiguredAreTemplates DEF ConfiguredTemplates
<1>5. \A t \in ConfiguredTemplates : SpeciesOf(t) \subseteq Species
  BY <1>3, <1>4 DEF SpeciesOf
<1>6. InitialSpecies \subseteq Species
  BY <1>3, <1>5 DEF InitialSpecies
<1>7. templates \subseteq ConfiguredTemplates
  BY <1>1 DEF InitialTemplates, Viable
<1>8. \A t \in templates : SpeciesOf(t) \subseteq InitialKnown
  <2> SUFFICES ASSUME NEW t \in templates PROVE SpeciesOf(t) \subseteq InitialKnown
    OBVIOUS
  <2>1. SpeciesOf(t) \subseteq InitialSpecies
    BY <1>7 DEF InitialSpecies
  <2>2. SpeciesOf(t) \cap (InitialSpecies \cap GasUnstable) = {}
    BY <1>1 DEF InitialTemplates, Viable
  <2> QED BY <2>1, <2>2 DEF InitialKnown
<1>9. SpeciesInv
  <2>1. DOMAIN placed = InitialSpecies
    BY <1>1 DEF InitialPlaced
  <2>2. placed = [s \in DOMAIN placed |-> IF s \in known THEN StableSites(s) ELSE {}]
    BY <1>1 DEF InitialPlaced
  <2>3. known \cap excluded = {} /\ known \cup excluded = InitialSpecies
    BY <1>1 DEF InitialKnown
  <2>4. Feed \subseteq InitialSpecies
    BY DEF InitialSpecies
  <2> QED BY <1>1, <2>1, <2>2, <2>3, <2>4 DEF SpeciesInv
<1>10. known \subseteq Species /\ excluded \subseteq Species /\ known \subseteq InitialSpecies
  BY <1>1, <1>6 DEF InitialKnown
<1>11. SitesPlaced = InitialSites /\ SitesFound(SitesPlaced) /\ DOMAIN placed = InitialSpecies
  BY <1>1, <1>9, <1>10, SitesKnown DEF SitesPlaced, InitialSites, InitialPlaced
<1>12. templates \subseteq AllTemplates
  BY <1>4, <1>7
<1>13. templates \subseteq Species \X Species \X Species /\ IsFiniteSet(templates)
  BY <1>3, <1>12, FS_Subset
<1> DEFINE fresh == EnumerateBonds(templates, SitesPlaced)
<1>14. /\ IsFiniteSet(fresh)
       /\ \A b \in fresh :
            b.template \in templates /\ b \in StableBonds(FindBonds(b.template, SitesPlaced))
       /\ \A t \in templates : \A b \in StableBonds(FindBonds(t, SitesPlaced)) :
            Cardinality({k \in {x \in fresh : x.template = t} :
                           TripleKey(k) = TripleKey(b)}) = 1
  BY <1>11, <1>13, EnumerationSound
<1>15. bonds = SetToSeq(fresh)
  BY <1>1, <1>11 DEF InitialBonds
<1> HIDE DEF fresh
<1>16. bonds \in Seq(fresh) /\ ToSet(bonds) = fresh /\ IsInjective(bonds)
  BY <1>14, <1>15, ListOfSet
<1>17. TypeInv
  <2>1. /\ <<>> \in Seq(Species) /\ <<>> \in Seq(ToSet(job.found)) /\ ToSet(job.queue) = {}
    BY <1>2, EmptySeq DEF ToSet
  <2>2. ~Expanding
    BY <1>2 DEF Expanding
  <2> QED BY <1>1, <1>2, <1>3, <1>10, <1>12, <1>16, <2>1, <2>2 DEF TypeInv, Stages
<1>18. SubjectInv /\ NodesInv
  BY <1>1, <1>10, <1>11 DEF SubjectInv, NodesInv
<1>19. HopsInv
  <2>1. CASE diffusion
    <3>1. hops = [s \in {x \in InitialSpecies : InitialPlaced[x] # {}} |->
                     FindHops(InitialPlaced[s], TRUE)]
      BY <1>1, <2>1 DEF InitialHops
    <3> QED BY <1>1, <1>11, <3>1 DEF HopsInv
  <2>2. CASE ~diffusion
    <3>1. hops = <<>> /\ DOMAIN hops = {}
      BY <1>1, <2>2
    <3>2. hops = [s \in {} |-> FindHops(placed[s], TRUE)]
      BY <3>1
    <3> QED BY <1>1, <3>1, <3>2 DEF HopsInv
  <2> QED BY <2>1, <2>2
<1>20. BondsInv
  <2>1. TriplesRepresented
    <3>1. \A t \in templates : {b \in ToSet(bonds) : b.template = t} = {x \in fresh : x.template = t}
      BY <1>16
    <3>2. \A t \in templates :
             {b \in ToSet(bonds) : b.template = t} \subseteq StableBonds(FindBonds(t, SitesPlaced))
      BY <1>14, <1>16
    <3> QED BY <1>14, <3>1, <3>2 DEF TriplesRepresented
  <2>2. \A t \in templates : SpeciesOf(t) \subseteq known \cap DOMAIN placed
    BY <1>1, <1>8, <1>10, <1>11
  <2> QED BY <1>1, <1>14, <1>16, <2>1, <2>2 DEF BondsInv
<1>21. TemplatesComplete
  <2>1. TemplatesAmong(expanded \cap known) \subseteq ConfiguredTemplates
    <3>1. \A x \in expanded \cap known : x \in Feed
      BY <1>1
    <3> QED BY <3>1 DEF ConfiguredTemplates, TemplatesAmong
  <2> QED BY <1>1, <2>1 DEF TemplatesComplete, InitialTemplates, Viable
<1>22. StageInv
  BY <1>2 DEF StageInv
<1>23. SearchInv
  BY <1>1 DEF SearchInv, InitialHops, InitialPlaced
<1>24. ActiveInv
  <2>1. Feed \subseteq InitialSpecies
    BY DEF InitialSpecies
  <2>2. DOMAIN placed \ (InitialSpecies \ onSurface) = Feed
    BY <1>1, <1>11, <2>1
  <2>3. UNION {placed[s] : s \in DOMAIN placed \ (InitialSpecies \ onSurface)}
           = UNION {InitialPlaced[s] : s \in Feed}
    BY <1>1, <2>2
  <2>4. active = Leaves(UNION {InitialPlaced[s] : s \in Feed}, HopsFound(hops), ToSet(bonds))
    BY <1>1
  <2>5. Activated
    BY <2>3, <2>4 DEF Activated
  <2>6. /\ DOMAIN active.placements = UNION {InitialPlaced[s] : s \in Feed}
        /\ DOMAIN active.hops = HopsFound(hops) /\ DOMAIN active.bonds = ToSet(bonds)
    BY <2>4, LeavesParts
  <2>7. ToSet(job.found) = {}
    BY <1>2 DEF ToSet
  <2> QED BY <1>2, <2>4, <2>5, <2>6, <2>7 DEF ActiveInv
<1> QED BY <1>9, <1>17, <1>18, <1>19, <1>20, <1>21, <1>22, <1>23, <1>24 DEF IInv

---------------------------------------------------------------------------
(* The theorems.                                                           *)

LEMMA NextKeeps ==
  ASSUME IInv, [Next]_vars
  PROVE  IInv'
<1>1. CASE UNCHANGED vars
  BY <1>1, StutterKeeps
<1>2. ASSUME NEW t \in {bonds[i].template : i \in DOMAIN bonds}, NEW direction, Fire(t, direction)
      PROVE  IInv'
  BY <1>2, FireKeeps
<1>3. ASSUME NEW s \in Species, Ensure(s) PROVE IInv'
  BY <1>3, AlreadyKnownKeeps, AlreadyExcludedKeeps, BuildReactantKeeps, RejectSpeciesKeeps,
     BuildRaisesKeeps, FindPlacementsKeeps, PlacementsRaiseKeeps DEF Ensure
<1> QED BY <1>1, <1>2, <1>3, BeginExpandedKeeps, BeginNewKeeps, DeriveTemplatesKeeps,
           FilterTemplatesKeeps, NoHopsDueKeeps, FindDiffusionKeeps, DiffusionRaisesKeeps,
           NoNewTemplatesKeeps, FindBondSitesKeeps, BondSitesRaiseKeeps, ActivateKeeps,
           ActivationRaisesKeeps
    DEF Next

\* NetworkInvariance: the registry, the stores, their reverse indexes, the
\* reaction index and the expansion in progress agree at every stage of an
\* expansion, a failed attempt included (kmc/expansion.py, kmc/network.py).
THEOREM NetworkInvariance == Spec => []IInv
<1>1. Init => IInv
  BY InitKeeps
<1>2. IInv /\ [Next]_vars => IInv'
  BY NextKeeps
<1> QED BY <1>1, <1>2, PTL DEF Spec

\* NetworkConsistentHolds: the reverse indexes always agree with the stores,
\* and between two events the network is complete for the species expanded and
\* active for the species seen, for every molecule, template and surface ring
\* (kmc/expansion.py, kmc/network.py).
THEOREM NetworkConsistentHolds == Spec => []NetworkConsistent
<1>1. ASSUME IInv PROVE NetworkConsistent
  <2>1. Indexed
    BY <1>1 DEF IInv, HopsInv, BondsInv, Indexed
  <2>2. ASSUME job = Idle
        PROVE  NodesPlaced /\ TemplatesComplete /\ TriplesRepresented
               /\ HopsSearched /\ Activated
    <3>1. job.stage = "ready"
      BY <2>2 DEF Idle
    <3>2. NodesPlaced
      BY <1>1, <3>1, AllPlaced DEF NodesPlaced
    <3>3. HopsSearched
      BY <1>1, <3>1 DEF IInv, SearchInv, HopsSearched
    <3> QED BY <1>1, <3>1, <3>2, <3>3 DEF IInv, BondsInv, ActiveInv
  <2> QED BY <2>1, <2>2 DEF NetworkConsistent
<1> QED BY <1>1, NetworkInvariance, PTL

\* Which operations write to the stores and to the reaction index.
LEMMA Writers ==
  ASSUME [Next]_vars
  PROVE  /\ bonds' = bonds \/ FindBondSites
         /\ hops' = hops \/ FindDiffusion
         /\ placed' = placed \/ \E s \in Species : RejectSpecies(s) \/ FindPlacements(s)
         /\ active' = active \/ Activate
<1>1. CASE UNCHANGED vars
  BY <1>1 DEF vars, registry, hopStore, bondStore
<1>2. ASSUME NEW t, NEW direction, Fire(t, direction)
      PROVE  UNCHANGED <<placed, hops, bonds, active>>
  BY <1>2 DEF Fire, registry, hopStore, bondStore
<1>3. ASSUME NEW s \in Species, Ensure(s)
      PROVE  /\ UNCHANGED <<hops, bonds, active>>
             /\ placed' = placed \/ RejectSpecies(s) \/ FindPlacements(s)
  BY <1>3 DEF Ensure, AlreadyKnown, AlreadyExcluded, BuildReactant, RejectSpecies, BuildRaises,
              FindPlacements, PlacementsRaise, registry, hopStore, bondStore
<1>4. CASE BeginExpanded \/ BeginNew \/ DeriveTemplates \/ FilterTemplates \/ NoHopsDue
  BY <1>4 DEF BeginExpanded, BeginNew, DeriveTemplates, FilterTemplates, NoHopsDue,
              registry, hopStore, bondStore
<1>5. CASE DiffusionRaises \/ NoNewTemplates \/ BondSitesRaise \/ ActivationRaises
  BY <1>5 DEF DiffusionRaises, HopsAfterFailure, NoNewTemplates, BondSitesRaise,
              BondsAfterFailure, ActivationRaises, registry, hopStore, bondStore
<1>6. CASE FindDiffusion \/ FindBondSites \/ Activate
  BY <1>6 DEF FindDiffusion, FindBondSites, Activate, registry, hopStore, bondStore
<1> QED BY <1>1, <1>2, <1>3, <1>4, <1>5, <1>6 DEF Next

\* Leaves are only added to a set of leaves that is held once.
LEMMA LeavesAdded ==
  ASSUME NEW S, NEW B, B = SetToBag(S), NEW X
  PROVE  B \sqsubseteq B /\ B \sqsubseteq (B (+) SetToBag(X))
<1>1. DOMAIN B = S /\ \A e \in S : B[e] = 1
  BY BagDomain
<1> DEFINE new == SetToBag(X)
<1>2. DOMAIN new = X /\ \A e \in X : new[e] = 1
  BY BagDomain
<1> HIDE DEF new
<1>3. B \sqsubseteq B
  BY <1>1 DEF \sqsubseteq
<1> DEFINE sum == B (+) new
<1>4. sum = [e \in DOMAIN B \cup DOMAIN new |->
               (IF e \in DOMAIN B THEN B[e] ELSE 0) + (IF e \in DOMAIN new THEN new[e] ELSE 0)]
  BY DEF (+)
<1> HIDE DEF sum
<1>5. B \sqsubseteq sum
  BY <1>1, <1>2, <1>4 DEF \sqsubseteq
<1> QED BY <1>3, <1>5 DEF sum, new

\* SitesKeptHolds: no step, failed attempts included, loses a placement, a hop
\* or a bond site found before, renumbers a bond site, or deactivates a site
\* (kmc/expansion.py).
THEOREM SitesKeptHolds == Spec => SitesKept
<1>1. ASSUME IInv, [Next]_vars
      PROVE  /\ IsPrefix(bonds, bonds')
             /\ \A s \in DOMAIN hops : s \in DOMAIN hops' /\ hops'[s] = hops[s]
             /\ \A s \in DOMAIN placed : s \in DOMAIN placed' /\ placed'[s] = placed[s]
             /\ \A kind \in DOMAIN active : active[kind] \sqsubseteq active'[kind]
  <2>1. /\ bonds' = bonds \/ FindBondSites
        /\ hops' = hops \/ FindDiffusion
        /\ placed' = placed \/ \E s \in Species : RejectSpecies(s) \/ FindPlacements(s)
        /\ active' = active \/ Activate
    BY <1>1, Writers
  <2>2. \E new : new \in Seq(ToSet(new)) /\ bonds' = bonds \o new
    <3>1. CASE bonds' = bonds
      <4>1. bonds' = bonds \o <<>> /\ <<>> \in Seq(ToSet(<<>>))
        BY <1>1, <3>1, ConcatEmptySeq, EmptySeq DEF IInv, TypeInv
      <4> QED BY <4>1
    <3>2. CASE FindBondSites
      <4>1. bonds' = bonds \o NewBonds
        BY <3>2 DEF FindBondSites
      <4>2. job.ts \subseteq Species \X Species \X Species /\ IsFiniteSet(job.ts)
        BY <1>1, NetworkAssumption, FS_Subset DEF IInv, TypeInv, AllTemplates
      <4>3. SitesFound(SitesPlaced)
        BY <1>1, SitesKnown DEF IInv, TypeInv
      <4>4. IsFiniteSet(EnumerateBonds(job.ts, SitesPlaced))
        BY <4>2, <4>3, EnumerationSound
      <4>5. NewBonds \in Seq(ToSet(NewBonds))
        BY <4>4, ListOfSet DEF NewBonds
      <4> QED BY <4>1, <4>5
    <3> QED BY <2>1, <3>1, <3>2
  <2>3. IsPrefix(bonds, bonds')
    <3>1. PICK new : new \in Seq(ToSet(new)) /\ bonds' = bonds \o new
      BY <2>2
    <3>2. bonds \in Seq(ToSet(bonds))
      BY <1>1 DEF IInv, TypeInv
    <3> QED BY <3>1, <3>2, ListsJoined
  <2>4. \A s \in DOMAIN hops : s \in DOMAIN hops' /\ hops'[s] = hops[s]
    BY <2>1 DEF FindDiffusion, Merged
  <2>5. \A s \in DOMAIN placed : s \in DOMAIN placed' /\ placed'[s] = placed[s]
    BY <2>1 DEF RejectSpecies, FindPlacements, Merged
  <2>6. /\ active.placements = SetToBag(DOMAIN active.placements)
        /\ active.hops = SetToBag(DOMAIN active.hops)
        /\ active.bonds = SetToBag(DOMAIN active.bonds)
        /\ DOMAIN active = {"placements", "hops", "bonds"}
    BY <1>1 DEF IInv, ActiveInv, Leaves
  <2>7. CASE active' = active
    BY <2>3, <2>4, <2>5, <2>6, <2>7, LeavesAdded
  <2>8. CASE Activate
    <3>1. /\ active'.placements = active.placements (+) SetToBag(NewPlacements)
          /\ active'.hops = active.hops (+) SetToBag(NewHopSites)
          /\ active'.bonds = active.bonds (+) SetToBag(NewBondSites)
      BY <2>8 DEF Activate
    <3>2. /\ active.placements \sqsubseteq active'.placements
          /\ active.hops \sqsubseteq active'.hops
          /\ active.bonds \sqsubseteq active'.bonds
      BY <2>6, <3>1, LeavesAdded
    <3> QED BY <2>3, <2>4, <2>5, <2>6, <3>2
  <2> QED BY <2>1, <2>7, <2>8
<1>2. IInv /\ [Next]_vars =>
        [/\ IsPrefix(bonds, bonds')
         /\ \A s \in DOMAIN hops : s \in DOMAIN hops' /\ hops'[s] = hops[s]
         /\ \A s \in DOMAIN placed : s \in DOMAIN placed' /\ placed'[s] = placed[s]
         /\ \A kind \in DOMAIN active : active[kind] \sqsubseteq active'[kind]]_vars
  BY <1>1
<1> QED BY <1>2, NetworkInvariance, PTL DEF Spec, SitesKept
=============================================================================
