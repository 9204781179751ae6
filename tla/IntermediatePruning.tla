------------------------ MODULE IntermediatePruning ------------------------
(***************************************************************************)
(* When a direct event is composite (sites/stability/                      *)
(* intermediate_pruning.py): a minimum on its band is a placement, or a    *)
(* pair of placements, that the network knows, and the network also has    *)
(* the events that go there and on.                                        *)
(*                                                                         *)
(* A network is [placements, hops, bonds]: a set of placements, a set of   *)
(* unordered pairs of placements of one species, and a set of bond members *)
(* [ab, c] (c is {} for a gas product).  A relaxed minimum is the set of   *)
(* endpoints, each a set of placements, that its atoms and their surface   *)
(* cliques match (_observed_graph and _same_endpoint).                     *)
(***************************************************************************)
EXTENDS Naturals, FiniteSets

(* The registered placements a minimum could be, the ends of the hop aside. *)
Matches(net, ends, minimum) ==
  {p \in net.placements \ ends : {p} \in minimum}

(* Both replacement hops are registered, through one placement only.       *)
DiffusionCertificate(net, ends, minimum) ==
  LET known == Matches(net, ends, minimum)
  IN  /\ Cardinality(known) = 1
      /\ \A p \in known, end \in ends : {p, end} \in net.hops

(* Every changed placement is linked to a replacement of its own.          *)
Linked(net, old, new) ==
  LET gone == old \ new
      come == new \ old
  IN  /\ gone # {}
      /\ Cardinality(gone) = Cardinality(come)
      /\ \E pairing \in [come -> gone] :
           /\ \A p, q \in come : pairing[p] = pairing[q] => p = q
           /\ \A p \in come : {p, pairing[p]} \in net.hops

(* Another member of the template that differs in one side only, has the   *)
(* minimum as that side, and is reached by hops.                           *)
Routes(net, member, minimum) ==
  {other \in net.bonds \ {member} :
     \/ /\ other.ab \in minimum /\ other.ab # member.ab /\ other.c = member.c
        /\ Linked(net, member.ab, other.ab)
     \/ /\ other.c \in minimum /\ other.c # member.c /\ other.ab = member.ab
        /\ Linked(net, member.c, other.c)}

BondCertificate(net, member, minimum) ==
  Cardinality(Routes(net, member, minimum)) = 1

(* What of the network a classification depends on.                        *)
DiffusionSignature(net) == <<net.placements, net.hops>>
BondSignature(net) == <<net.bonds, net.hops>>
=============================================================================
