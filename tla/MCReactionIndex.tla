------------------------- MODULE MCReactionIndex -------------------------
(* Three sites of two, two and one members; the first one is the site of a
   direct event whose two members share a class. *)
EXTENDS ReactionIndex, TLC

CONSTANTS hop, atop, bond

MCSites == {hop, atop, bond}
MCMembers == hop :> 2 @@ atop :> 2 @@ bond :> 1
MCClassOf == <<hop, 0>> :> "h" @@ <<hop, 1>> :> "h" @@ <<atop, 0>> :> "a" @@ <<atop, 1>> :> "a"
             @@ <<bond, 0>> :> "b"
MCChannel == atop :> 1 @@ hop :> 2 @@ bond :> 3
MCEnds == atop :> {} @@ hop :> {atop} @@ bond :> {atop}
MCDirectSites == {hop, bond}
MCReactionRates == {1, 3}
===========================================================================
