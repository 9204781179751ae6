----------------------------- MODULE LatticeGas -----------------------------
(***************************************************************************)
(* What the engine promises about the surface: a lattice gas with exact-   *)
(* clique exclusion.  One event at a time takes effect, it takes exactly   *)
(* its own sources away and puts exactly its own targets down, it finds    *)
(* the sources occupied and the targets empty, and never leaves two        *)
(* adsorbates on one clique.  Rates, lateral classes, the reaction index   *)
(* and network expansion are absent.                                       *)
(***************************************************************************)
EXTENDS SurfaceEvents

CONSTANT StartOccupancies   \* the occupancies a run may start or resume from

VARIABLE occ                \* the occupied placements

Init == occ \in StartOccupancies

Event(l, d) ==
  /\ Sources(l, d) \subseteq occ
  /\ Targets(l, d) \cap occ = {}
  /\ Exclusive(After(l, d, occ))
  /\ occ' = After(l, d, occ)

Next == \E l \in Leaves : \E d \in Directions(l) : Event(l, d)

Spec == Init /\ [][Next]_occ
=============================================================================
