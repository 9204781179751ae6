------------------------- MODULE MCNetworkExpansion -------------------------
(***************************************************************************)
(* A feed "a" and "e".  Coupling gives the leaves "b" and "f" and the      *)
(* gas-unstable "u".  Behind them lie "c", of one or two anchors, and "g"; *)
(* "d", which binds to no site and is taken from the gas; an unstable "v"  *)
(* and an illegal "w".  "d" and "g" are reached in more than one way, and  *)
(* b + f is a template between two leaves expanded in either order.        *)
(***************************************************************************)
EXTENDS NetworkExpansion

MCSpecies == {"a", "b", "c", "d", "e", "f", "g", "u", "v", "w"}

MCBonded ==
    [s \in MCSpecies |->
        CASE s \in {"a", "b", "e", "f", "g"} -> {{1}}
          [] s = "c" -> {{1}, {1, 2}}
          [] OTHER -> {}]

MCSpacing == [s \in MCSpecies |-> 2]

MCCleavages == {<<"a", "a", "b">>, <<"a", "b", "c">>, <<"a", "c", "d">>,
                 <<"a", "e", "f">>, <<"b", "e", "g">>}

MCCombinations ==
    {<<"a", "a", "b">>, <<"a", "a", "u">>, <<"a", "b", "c">>, <<"b", "b", "d">>,
     <<"a", "c", "d">>, <<"a", "c", "u">>, <<"b", "c", "v">>, <<"a", "d", "w">>,
     <<"a", "e", "f">>, <<"b", "f", "g">>}

Placed(s, at) == [species |-> s, at |-> at]

\* Single-bonded species stay on top of an atom, a "c" of one bond on a bridge.
MCUnstable ==
    {Placed(s, <<p>>) : s \in {"a", "b", "e", "f", "g"}, p \in {1, 3, 5, 7}}
    \cup {Placed("c", <<p>>) : p \in {0, 2, 4, 6}}

\* "a" on an atom under a bridging "c" loses its bond.
MCUnstablePairs ==
    {{Placed("a", <<p>>), Placed("c", <<q>>)} : p \in {0, 2, 4, 6}, q \in {1, 3, 5, 7}}
    \ {{Placed("a", <<p>>), Placed("c", <<q>>)} :
          <<p, q>> \in {<<0, 3>>, <<0, 5>>, <<2, 5>>, <<2, 7>>,
                        <<4, 7>>, <<4, 1>>, <<6, 1>>, <<6, 3>>}}
=============================================================================
