---------------------------- MODULE MCStability ----------------------------
(***************************************************************************)
(* The situations StabilityChecks is checked in, one at a time.            *)
(***************************************************************************)
EXTENDS StabilityChecks

(* A band that converges at once, or does not.                             *)
Plain == [profiles |-> {<<0, 2, 0>>}, forces |-> {0, 1}, steps |-> 1, stagnation |-> 0,
          refinements |-> 0, guard |-> FALSE, climb |-> TRUE, gaps |-> {2},
          images |-> [fixed |-> 1, least |-> 1, largest |-> 1], prominence |-> 1]

(* Bands of one to three interior images, with or without a minimum beside *)
(* the peak, that may come apart, stagnate and be refined twice.           *)
Detailed == [profiles |-> {<<0, 3, 0>>, <<0, 1, 3, 2, 0>>, <<0, 2, 0, 3, 0>>},
             forces |-> {0, 1, 2}, steps |-> 3, stagnation |-> 2, refinements |-> 2,
             guard |-> TRUE, climb |-> TRUE, gaps |-> {2, 4},
             images |-> [fixed |-> 1, least |-> 1, largest |-> 3], prominence |-> 1]

(* A refinement is possible, but nothing else about the band matters.      *)
Refined == [Detailed EXCEPT !.profiles = {<<0, 3, 0>>, <<0, 2, 0, 3, 0>>}, !.forces = {0},
              !.refinements = 1, !.stagnation = 2, !.guard = FALSE, !.climb = FALSE,
              !.gaps = {2}, !.images = [fixed |-> 3, least |-> 1, largest |-> 3]]

NoNet == [placements |-> {}, hops |-> {}, bonds |-> {}]

(* The hop from p to q, its equivalent from r to t, and an intermediate i  *)
(* of the first whose hops are found later.                                *)
HopNets ==
  <<[placements |-> {"p", "q", "r", "t", "i"}, hops |-> {{"p", "q"}, {"r", "t"}}, bonds |-> {}],
    [placements |-> {"p", "q", "r", "t", "i"},
     hops |-> {{"p", "q"}, {"r", "t"}, {"p", "i"}, {"i", "q"}}, bonds |-> {}]>>

(* Two bonds with one product: the second starts where a hop of the first  *)
(* one's ends leads.                                                       *)
BondOf(ab, c) == [ab |-> ab, c |-> c]
BondNets ==
  <<[placements |-> {"p", "q", "r"}, hops |-> {{"q", "r"}}, bonds |-> {BondOf({"p", "q"}, {"c"})}],
    [placements |-> {"p", "q", "r"}, hops |-> {{"q", "r"}},
     bonds |-> {BondOf({"p", "q"}, {"c"}), BondOf({"p", "r"}, {"c"})}]>>

Run(lookup, thermo, lateral) == [lookup |-> lookup, thermo |-> thermo, lateral |-> lateral]

Base ==
  [kind |-> "diffusion", gas |-> FALSE, precursor |-> FALSE, sites |-> {"s1"}, parallel |-> FALSE,
   members |-> {"m1"}, envs |-> {Bare, "crowded"}, persist |-> FALSE,
   cache |-> FALSE, runs |-> <<Run(FALSE, "T", TRUE)>>, faults |-> 0,
   networks |-> HopNets, ends |-> [m1 |-> {"p", "q"}], found |-> {{}}, limits |-> Plain]

(* Two equivalent hops in two surroundings, while the network grows.       *)
Hops == [Base EXCEPT !.members = {"m1", "m2"},
           !.ends = [m1 |-> {"p", "q"}, m2 |-> {"r", "t"}],
           !.found = {{{{"i"}}}, {{{"p"}}}}, !.limits = Refined]

(* One hop without lateral interactions, and every turn its band can take. *)
Band == [Base EXCEPT !.envs = {Bare}, !.runs = <<Run(FALSE, None, FALSE)>>,
           !.found = {{{{"i"}}}}, !.limits = Detailed]

(* Two adsorption sites in threads of their own; two runs share the        *)
(* database, and a run or a file may suffer once.                          *)
Adsorptions == [Base EXCEPT !.kind = "adsorption", !.sites = {"s1", "s2"}, !.parallel = TRUE,
                  !.envs = {"crowded"}, !.cache = TRUE, !.faults = 1,
                  !.runs = <<Run(FALSE, None, TRUE), Run(TRUE, "T", TRUE)>>]

(* One adsorption site in two surroundings: its classes are numbered anew  *)
(* in every run.  Files and runs may suffer twice.                         *)
Numbers == [Adsorptions EXCEPT !.sites = {"s1"}, !.parallel = FALSE, !.envs = {Bare, "crowded"},
              !.runs = <<Run(TRUE, "T", TRUE), Run(TRUE, "T", TRUE)>>, !.faults = 2]

(* A bond with a gas product: warm starts and the database, over three runs. *)
GasBond == [Base EXCEPT !.kind = "bond", !.gas = TRUE, !.precursor = TRUE, !.cache = TRUE,
              !.networks = <<BondNets[1]>>, !.ends = [m1 |-> BondOf({"p", "q"}, {})],
              !.runs = <<Run(TRUE, None, FALSE), Run(TRUE, None, TRUE), Run(TRUE, "T", TRUE)>>, !.faults = 1]

(* A bond with a surface product: a saved refinement comes out of the      *)
(* database into a network that has grown.                                 *)
SurfaceBond == [Base EXCEPT !.kind = "bond", !.cache = TRUE, !.envs = {Bare},
                  !.persist = TRUE, !.networks = BondNets,
                  !.ends = [m1 |-> BondOf({"p", "q"}, {"c"})],
                  !.runs = <<Run(FALSE, "T", FALSE), Run(TRUE, None, FALSE), Run(FALSE, "T", FALSE)>>, !.faults = 1,
                  !.found = {{{{"p", "r"}}}}, !.limits = Refined]

(* One hop whose refinement and path come out of the database.             *)
HopRecords == [Base EXCEPT !.cache = TRUE, !.persist = TRUE, !.found = {{{{"i"}}}},
                 !.limits = Refined,
                 !.runs = <<Run(TRUE, None, FALSE), Run(TRUE, "T", TRUE)>>]

MCConfigurations == {Hops, Band, HopRecords, Adsorptions, Numbers, GasBond, SurfaceBond}
MCSites == {"s1", "s2"}
OneHop == {[Base EXCEPT !.networks = <<HopNets[1]>>]}
=============================================================================
