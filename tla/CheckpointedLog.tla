--------------------------- MODULE CheckpointedLog ---------------------------
(***************************************************************************)
(* What the persistence of a run promises about its event history: a       *)
(* sequence of numbered reactions that only grows at its end, of which a   *)
(* checkpoint makes the whole of what has happened so far permanent, and   *)
(* which a crash followed by a resume takes back to what the last          *)
(* checkpoint made permanent - never to anything else.                     *)
(***************************************************************************)
EXTENDS Naturals, Sequences

CONSTANT Reactions

VARIABLES
  history,    \* what has happened
  permanent   \* what the last checkpoint holds

Init == history = <<>> /\ permanent = <<>>

Happen ==
  /\ Len(history') = Len(history) + 1
  /\ SubSeq(history', 1, Len(history)) = history
  /\ history'[Len(history')] \in [step : {Len(history')}, reaction : Reactions]
  /\ UNCHANGED permanent
Commit == permanent' = history /\ UNCHANGED history
RollBack == history' = permanent /\ UNCHANGED permanent

Next == Happen \/ Commit \/ RollBack

Spec == Init /\ [][Next]_<<history, permanent>>
=============================================================================
