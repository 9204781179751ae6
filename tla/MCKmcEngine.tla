---------------------------- MODULE MCKmcEngine ----------------------------
(***************************************************************************)
(* Two small networks for KmcEngine.                                       *)
(*                                                                         *)
(* Verdicts (V): a row of four atoms; species X on each atom, the product  *)
(* C across the first two, two equivalent hops out of each other's reach   *)
(* and a gas-product bond that starts the network growth.  Calculations    *)
(* may reject a class or find it composite.                                *)
(*                                                                         *)
(* Growth (N): a row of five atoms; the templates of C refer to a third    *)
(* species D that hops and bonds on the third and the fourth atom, where   *)
(* it competes with X and C for cliques.  Hops and the surface bond have   *)
(* spectators in reach.  Every calculation succeeds.                       *)
(***************************************************************************)
EXTENDS KmcEngine

\* _surface_bfs_shells on a row of atoms.
RowNear(n, shells) == {p \in (1..n) \X (1..n) :
                         p[1] - p[2] <= shells /\ p[2] - p[1] <= shells}

\* A lateral class tells an occupied neighbourhood from a bare one.
CrowdKey(l, o) == o # {}

-----------------------------------------------------------------------------
VSurface == 1 .. 4
VMembers == {"x1", "x2", "x3", "x4", "c12"}
VHops == {"h12", "h34"}
VBonds == {"b12", "g23"}
VCliquesOf == [m \in VMembers |->
  CASE m = "x1" -> {{1}} [] m = "x2" -> {{2}} [] m = "x3" -> {{3}} [] m = "x4" -> {{4}}
    [] m = "c12" -> {{1}, {2}}]
VEndA == [l \in VHops \cup VBonds |->
  CASE l \in {"b12", "h12"} -> "x1" [] l = "g23" -> "x2" [] l = "h34" -> "x3"]
VEndB == [l \in VHops \cup VBonds |->
  CASE l \in {"b12", "h12"} -> "x2" [] l = "g23" -> "x3" [] l = "h34" -> "x4"]
VEndC == [b \in VBonds |-> IF b = "b12" THEN "c12" ELSE "none"]
VNear == RowNear(4, 1)
VSpecies == {"X", "C"}
VSpeciesOf == [m \in VMembers |-> IF m = "c12" THEN "C" ELSE "X"]
VProductOf == [b \in VBonds |-> "C"]
VSiteOf == [l \in VMembers \cup VHops \cup VBonds |->
  CASE l \in {"x1", "x2", "x3", "x4"} -> "sX" [] l = "c12" -> "sC"
    [] l \in {"h12", "h34"} -> "sH" [] OTHER -> l]
VStartOccupancies == {{"x2", "x3", "x4"}}
VStartActive == {"x1", "x2", "x3", "x4", "h12", "h34", "g23"}

-----------------------------------------------------------------------------
NSurface == 1 .. 5
NMembers == {"x1", "x2", "x3", "x4", "x5", "d3", "d4", "c34"}
NHops == {"h12", "h23", "j34"}
NBonds == {"g12", "e34"}
NCliquesOf == [m \in NMembers |->
  CASE m = "x1" -> {{1}} [] m = "x2" -> {{2}} [] m \in {"x3", "d3"} -> {{3}}
    [] m \in {"x4", "d4"} -> {{4}} [] m = "x5" -> {{4, 5}} [] m = "c34" -> {{3}, {4}}]
NEndA == [l \in NHops \cup NBonds |->
  CASE l \in {"h12", "g12"} -> "x1" [] l = "h23" -> "x2" [] l = "j34" -> "d3"
    [] l = "e34" -> "x3"]
NEndB == [l \in NHops \cup NBonds |->
  CASE l \in {"h12", "g12"} -> "x2" [] l = "h23" -> "x3" [] OTHER -> "d4"]
NEndC == [b \in NBonds |-> IF b = "e34" THEN "c34" ELSE "none"]
NNear == RowNear(5, 1)
NSpecies == {"X", "C", "D"}
NSpeciesOf == [m \in NMembers |->
  CASE m \in {"d3", "d4"} -> "D" [] m = "c34" -> "C" [] OTHER -> "X"]
NProductOf == [b \in NBonds |-> "C"]
NSiteOf == [l \in NMembers \cup NHops \cup NBonds |->
  CASE l \in {"x1", "x2", "x3", "x4"} -> "sX" [] l \in {"d3", "d4"} -> "sD"
    [] l \in {"h12", "h23"} -> "sH" [] OTHER -> l]
NStartOccupancies == {{"x1", "x2"}}
NStartActive == {"x1", "x2", "x3", "x4", "x5", "h12", "h23", "g12"}
=============================================================================
