------------------------------ MODULE NebBand ------------------------------
(***************************************************************************)
(* One nudged elastic band, as run_neb (sites/stability/neb.py) drives it: *)
(* an ordinary stage, then a climbing one, each with its own budget of     *)
(* optimizer steps.  A band whose images move too far apart is rolled back *)
(* to the best band of the stage; a band whose highest peak has minima on  *)
(* its flanks is replaced by a band between those minima, a limited number *)
(* of times.                                                               *)
(*                                                                         *)
(* A band is what the driver reads of it: the energies of its images, the  *)
(* residual force (0 once it is below fmax) and whether adjacent images    *)
(* are close enough.  The optimizer is external: a step leads to any band  *)
(* of as many images.                                                      *)
(***************************************************************************)
EXTENDS Naturals, Sequences, FiniteSets

VARIABLES
  limits,      \* the settings of the band; they do not change within a run
  band,        \* the band as it stands
  best,        \* the band of lowest force seen in this stage, or NoBand
  neb          \* where the driver is, and its counters

bandVars == <<band, best, neb>>

NoBand == [energies |-> <<>>, close |-> FALSE, force |-> 0]

(* Limits: profiles, the energies bands may have; forces; steps, the budget *)
(* of a stage; stagnation, steps without a lower interior energy, 0 when    *)
(* refinement is not configured; refinements; guard, whether image_spacing  *)
(* limits the gaps; climb; gaps, the displacements between two relaxed      *)
(* minima, in units of image_spacing; images, the fixed, the least and the  *)
(* largest number of interior images.                                       *)
Bands == [energies : limits.profiles, close : BOOLEAN, force : limits.forces]

Interior(e) == 2..(Len(e) - 1)

Least(S) == CHOOSE x \in S : \A y \in S : x <= y
Greatest(S) == CHOOSE x \in S : \A y \in S : y <= x

(* The first of the highest interior images.                               *)
Peak(e) == Least({i \in Interior(e) : \A j \in Interior(e) : e[j] <= e[i]})

MinimaOf(e) ==
  {1, Len(e)} \cup {i \in Interior(e) : e[i] + limits.prominence <= e[i - 1]
                                     /\ e[i] + limits.prominence <= e[i + 1]}

LeftOf(e) == Greatest({i \in MinimaOf(e) : i < Peak(e)})
RightOf(e) == Least({i \in MinimaOf(e) : i > Peak(e)})

(* _highest_peak_minimum_bracket found more than the two endpoints.        *)
Bracketed(e) == Len(e) >= 3 /\ (LeftOf(e) # 1 \/ RightOf(e) # Len(e))

(* How many interior images a band over a given displacement has: a fixed  *)
(* number without image_spacing, else the least that keeps a linear band    *)
(* within it, between two bounds.                                           *)
Between(least, largest, n) == Least({largest, Greatest({least, n})})

ImageCount(gap) ==
  IF ~limits.guard THEN limits.images.fixed
  ELSE Between(limits.images.least, limits.images.largest,
               Greatest({2, gap}) - 1)

Lowest(e) == Least({e[i] : i \in Interior(e)})
Above == 1 + Greatest(UNION {{e[i] : i \in 1..Len(e)} : e \in limits.profiles})

NebInit ==
  /\ band = NoBand /\ best = NoBand
  /\ neb = [at |-> "idle", stage |-> "ordinary", left |-> 0, stalled |-> 0,
            lowest |-> 0, refinements |-> 0, mayRefine |-> FALSE]

(* Every start of an optimizer decides again whether it may refine.        *)
MayRefine(n) == limits.stagnation > 0 /\ n < limits.refinements

Staged(stage, refinements) ==
  [at |-> "look", stage |-> stage, left |-> limits.steps, stalled |-> 0,
   lowest |-> Above, refinements |-> refinements,
   mayRefine |-> MayRefine(refinements)]

(* make_neb_band: the band starts from a seed path or an interpolation, and *)
(* the ordinary stage begins.                                               *)
BuildBand(images) ==
  /\ neb.at = "idle"
  /\ band' \in {b \in Bands : Len(b.energies) = images + 2}
  /\ best' = NoBand
  /\ neb' = Staged("ordinary", 0)

(* The optimizer, the calculator or the construction raised, or the band   *)
(* did not converge: not_converged_error.                                  *)
GiveUp == neb' = [neb EXCEPT !.at = "notConverged"] /\ UNCHANGED <<band, best>>

BuildFails == neb.at = "idle" /\ GiveUp

Better(b) == IF limits.guard /\ (best = NoBand \/ b.force < best.force) THEN b ELSE best

(* monitor_band, called before the first step and after every step: the    *)
(* spacing first, then the checkpoint, then the stagnation clock, which    *)
(* runs in ordinary stages only.                                           *)
Look ==
  /\ neb.at = "look"
  /\ UNCHANGED band
  /\ \/ /\ limits.guard /\ ~band.close
        /\ neb' = [neb EXCEPT !.at = "rollback"]
        /\ UNCHANGED best
     \/ /\ ~limits.guard \/ band.close
        /\ best' = Better(band)
        /\ IF ~(neb.mayRefine /\ neb.stage = "ordinary")
           THEN neb' = [neb EXCEPT !.at = "step"]
           ELSE IF Lowest(band.energies) < neb.lowest
           THEN neb' = [neb EXCEPT !.at = "step", !.stalled = 0,
                                   !.lowest = Lowest(band.energies)]
           ELSE IF neb.stalled + 1 < limits.stagnation
           THEN neb' = [neb EXCEPT !.at = "step", !.stalled = neb.stalled + 1]
           ELSE neb' = [neb EXCEPT !.stalled = 0,
                          !.at = IF Bracketed(band.energies) THEN "refine" ELSE "step"]

Step ==
  /\ neb.at = "step"
  /\ \/ /\ band.force = 0
        /\ neb' = [neb EXCEPT !.at = "converged"]
        /\ UNCHANGED <<band, best>>
     \/ /\ band.force > 0 /\ neb.left = 0
        /\ GiveUp
     \/ /\ band.force > 0 /\ neb.left > 0
        /\ band' \in {b \in Bands : Len(b.energies) = Len(band.energies)}
        /\ neb' = [neb EXCEPT !.at = "look", !.left = neb.left - 1]
        /\ UNCHANGED best
     \/ GiveUp

(* The checkpoint is restored; its profile is inspected before the budget, *)
(* and a new optimizer with reduced controls goes on with what is left.    *)
RemainingRestarted == limits.steps
Remaining == neb.left

Rollback ==
  /\ neb.at = "rollback"
  /\ \/ best = NoBand /\ GiveUp
     \/ /\ best # NoBand
        /\ band' = best
        /\ UNCHANGED best
        /\ neb' = [neb EXCEPT !.left = Remaining, !.at =
                     IF neb.mayRefine /\ Bracketed(best.energies) THEN "refine"
                     ELSE IF Remaining = 0 THEN "notConverged" ELSE "look"]

(* A converged stage is inspected once more before the climbing stage, or  *)
(* the result.  Climbing changes the force on the band.                    *)
NextStage ==
  IF neb.stage = "ordinary" /\ limits.climb
  THEN /\ \E force \in limits.forces : band' = [band EXCEPT !.force = force]
       /\ best' = NoBand /\ neb' = Staged("climbing", neb.refinements)
  ELSE neb' = [neb EXCEPT !.at = "band"] /\ UNCHANGED <<band, best>>

InspectedOrdinary == neb.stage = "ordinary" /\ neb.mayRefine /\ Bracketed(band.energies)
Inspected == neb.mayRefine /\ Bracketed(band.energies)

Converged ==
  /\ neb.at = "converged"
  /\ \/ Inspected /\ neb' = [neb EXCEPT !.at = "refine"] /\ UNCHANGED <<band, best>>
     \/ ~Inspected /\ NextStage

(* The two minima next to the peak have been relaxed, apart from each other; *)
(* a band is built between them, over as many images as their distance asks *)
(* for, unless it cannot be built.                                         *)
Refine ==
  /\ neb.at = "refine"
  /\ \/ /\ \E gap \in limits.gaps :
             band' \in {b \in Bands : Len(b.energies) = ImageCount(gap) + 2}
        /\ best' = NoBand
        /\ neb' = Staged("ordinary", neb.refinements + 1)
     \/ GiveUp

(* A minimum does not relax, or the two relax onto each other.             *)
RefineGivesUp == neb.at = "refine" /\ GiveUp

(* The callback finds that a relaxed minimum is a registered intermediate. *)
RefineComposite ==
  /\ neb.at = "refine"
  /\ neb' = [neb EXCEPT !.at = "composite"]
  /\ UNCHANGED <<band, best>>

NebStep == Look \/ Step \/ Rollback \/ Converged

NebEnded == neb.at \in {"band", "notConverged", "composite"}

(* The caller has taken the result.                                        *)
NebReset == band' = NoBand /\ best' = NoBand
            /\ neb' = [neb EXCEPT !.at = "idle", !.stage = "ordinary", !.left = 0,
                         !.stalled = 0, !.lowest = 0, !.refinements = 0,
                         !.mayRefine = FALSE]

---------------------------------------------------------------------------

(* A band is only returned relaxed, within the spacing limit, after the    *)
(* climbing stage if one was asked for, whatever the height of its barrier, *)
(* and with no minimum left beside its highest peak unless the refinements *)
(* are used up; and a climbing stage always has a band to fall back to.    *)
BandSound ==
  /\ neb.at = "band" =>
       /\ band.force = 0
       /\ limits.guard => band.close
       /\ limits.climb => neb.stage = "climbing"
       /\ Bracketed(band.energies) => ~MayRefine(neb.refinements)
  /\ neb.at = "rollback" /\ neb.stage = "climbing" => best # NoBand
  /\ neb.refinements <= limits.refinements
=============================================================================
