---------------------------- MODULE SurfaceEvents ----------------------------
(***************************************************************************)
(* The static surface network of a kinetic Monte Carlo run: placements of  *)
(* adsorbates on cliques of surface atoms, and the elementary events that  *)
(* move matter between placements.  Nothing here changes during a run;     *)
(* LatticeGas and KmcEngine are specifications over this network.          *)
(*                                                                         *)
(* A placement ("member" of an AdsorbateSite in the code) stands for all   *)
(* the graph nodes of one adsorbate: the code sets their "occupied" flags  *)
(* together, so one bit per placement says the same.                       *)
(***************************************************************************)
EXTENDS Naturals, FiniteSets

CONSTANTS
  Surface,     \* surface atoms
  Members,     \* adsorbate placements: one leaf of the adsorption channel each
  Hops,        \* diffusion members: an unordered pair of placements each
  Bonds,       \* bond-reaction members: A + B <-> C
  NoMember,    \* the C placement of a gas-product bond reaction
  CliquesOf,   \* placement -> the exact cliques of surface atoms it bonds to
  EndA, EndB,  \* hop or bond -> its A and its B placement
  EndC,        \* bond -> its C placement, or NoMember
  Near         \* pairs of surface atoms at most lateral_shells hops apart

Leaves == Members \cup Hops \cup Bonds
Channels == Hops \cup Bonds
Cliques == UNION {CliquesOf[m] : m \in Members}

ASSUME NetworkAssumption ==
  /\ CliquesOf \in [Members -> SUBSET (SUBSET Surface)]
  /\ \A m \in Members : CliquesOf[m] # {} /\ {} \notin CliquesOf[m]
  /\ EndA \in [Channels -> Members]
  /\ EndB \in [Channels -> Members]
  /\ \A h \in Channels : EndA[h] # EndB[h]
  /\ NoMember \notin Members
  /\ EndC \in [Bonds -> Members \cup {NoMember}]
  /\ \A b \in Bonds : EndC[b] \notin {EndA[b], EndB[b]}
  /\ Members \cap Channels = {}
  /\ Hops \cap Bonds = {}

ASSUME NearAssumption ==
  /\ Near \subseteq Surface \X Surface
  /\ \A s \in Surface : <<s, s>> \in Near
  /\ \A s, t \in Surface : <<s, t>> \in Near => <<t, s>> \in Near

-----------------------------------------------------------------------------
\* Geometry.

CliquesOfAll(M) == UNION {CliquesOf[m] : m \in M}
AtomsOf(M) == UNION CliquesOfAll(M)

\* _surface_bfs_shells: the atoms within lateral_shells hops of a seed.
Within(S) == {t \in Surface : \E s \in S : <<s, t>> \in Near}

ShareClique(x, y) == CliquesOf[x] \cap CliquesOf[y] # {}

\* No two adsorbates claim the same exact clique.
Exclusive(o) == \A x, y \in o : x # y => ~ShareClique(x, y)

-----------------------------------------------------------------------------
\* Events.  Every event empties its sources and fills its targets.

Endpoints(l) ==
  IF l \in Members THEN {l}
  ELSE {EndA[l], EndB[l]} \cup (IF l \in Bonds THEN {EndC[l]} \ {NoMember} ELSE {})

Directions(l) ==
  IF l \in Members THEN {"adsorption", "desorption"}
  ELSE IF l \in Hops THEN {"a_to_b", "b_to_a"}
  ELSE {"couple", "dissoc"}

AllDirections == {"adsorption", "desorption", "a_to_b", "b_to_a", "couple", "dissoc"}

\* The placements an event finds occupied and empties.
Sources(l, d) ==
  {m \in Endpoints(l) :
     \/ d = "desorption"
     \/ d \in {"a_to_b", "couple"} /\ m = EndA[l]
     \/ d \in {"b_to_a", "couple"} /\ m = EndB[l]
     \/ d = "dissoc" /\ m \notin {EndA[l], EndB[l]}}

\* The placements it finds empty and fills.
Targets(l, d) == Endpoints(l) \ Sources(l, d)

Opposite == [adsorption |-> "desorption", desorption |-> "adsorption",
             a_to_b |-> "b_to_a", b_to_a |-> "a_to_b",
             couple |-> "dissoc", dissoc |-> "couple"]

Reverse(d) == Opposite[d]

\* The occupancy an event leaves behind.
After(l, d, o) == (o \ Sources(l, d)) \cup Targets(l, d)
=============================================================================
