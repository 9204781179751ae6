-------------------------- MODULE StabilityChecks --------------------------
(***************************************************************************)
(* The calculation of one lateral class (check_site_stability,             *)
(* check_diffusion_stability, check_bond_site_stability), composed with    *)
(* the evaluations that ask for it, the nudged elastic band and the        *)
(* reaction database, over several runs that share the database.           *)
(*                                                                         *)
(* A calculation tries the database, relaxes its structures, relaxes a     *)
(* band between the ends of a transition, validates the transition state,  *)
(* computes the thermochemistry the run asks for, marks the class stable   *)
(* and writes the result.  Only one transition is calculated at a time, so *)
(* there is one band.                                                      *)
(***************************************************************************)
EXTENDS LateralClasses, CalculationCache, NebBand

CONSTANTS
  Configurations,    \* what is run: see the module that gives it a value
  Sites              \* every site of every configuration

(* Bare and Copy are the classes the code makes itself, and None is what a *)
(* field holds that is not set; only adsorption sites are calculated in    *)
(* threads.                                                                *)
ASSUME ConfigurationAssumption ==
  /\ Bare # Copy
  /\ \A c \in Configurations :
       /\ c.kind \in {"adsorption", "diffusion", "bond"}
       /\ c.parallel \in BOOLEAN /\ (c.parallel => c.kind = "adsorption")
       /\ IsFiniteSet(c.envs) /\ Copy \notin c.envs
       /\ Len(c.runs) \in Nat \ {0}
       /\ Len(c.networks) \in Nat \ {0}
       /\ c.limits.refinements \in Nat

vars == <<settings, limits, network, classes, offers, job, records, index,
          band, best, neb, run>>

Init ==
  /\ settings \in Configurations
  /\ limits = settings.limits
  /\ LateralInit /\ CacheInit /\ NebInit
  /\ run = [number |-> 1, at |-> "running", faults |-> settings.faults]

Target(s) == classes[s][job[s].target]
IsCrowded(s) == job[s].env # Bare /\ job[s].target # Bare /\ job[s].target # Copy
Wanted(s) == job[s].thermo # None

(* The request a class makes of the database.                              *)
Request(s) ==
  [site |-> s, member |-> job[s].member,
   env |-> IF job[s].target = Copy THEN Bare ELSE job[s].target,
   number |-> Target(s).number, seed |-> job[s].seed, thermo |-> job[s].thermo]

To(s, at) == [job EXCEPT ![s].at = at]
Becomes(s, c) == [classes EXCEPT ![s][job[s].target] = c]

---------------------------------------------------------------------------
(* The structures to relax, in order.                                      *)

AdsorptionStructures == <<"occupied", "unoccupied">>
DiffusionStructures == <<"a", "b">>

(* A surface product is built from the atoms matched to those of AB; a gas *)
(* product is the relaxed empty surface and a molecule lifted off it, or a *)
(* precursor relaxed from there.                                           *)
BondStructures ==
  IF settings.gas /\ settings.precursor THEN <<"ab", "empty", "c">> ELSE <<"ab", "c">>

Structures ==
  IF IsAdsorption THEN AdsorptionStructures
  ELSE IF IsDiffusion THEN DiffusionStructures ELSE BondStructures

Warm(s) ==
  /\ WarmDiffusion(s, Structures) \/ WarmBond(s, Structures)
  /\ UNCHANGED <<cacheVars, bandVars, run>>

Live(s) ==
  /\ \/ JudgeAdsorption(s, ThisRun.thermo, Structures)
     \/ JudgeDiffusion(s, ThisRun.thermo, Structures)
     \/ JudgeBond(s, ThisRun.thermo, Structures)
  /\ UNCHANGED <<cacheVars, bandVars, run>>

(* Without a database, or with its lookup off, the structures are relaxed  *)
(* at once.                                                                *)
Start(s) ==
  /\ job[s].at = "start"
  /\ job' = To(s, IF settings.cache /\ ThisRun.lookup THEN "lookup" ELSE "relax")
  /\ UNCHANGED <<network, classes, offers, cacheVars, bandVars, run>>

---------------------------------------------------------------------------
(* The lookup.                                                             *)

(* What a record puts on a class: everything, or the electronic part.      *)
Hydrated(c, id, match) ==
  LET r == records[id]
  IN  [c EXCEPT !.states = Needed, !.stable = "stable", !.from = id,
                !.status = IF IsAdsorption THEN @ ELSE "elementary",
                !.thermo = IF match = "electronic" THEN None ELSE r.thermo,
                !.minima = IF r.minima = {} THEN @ ELSE r.minima,
                !.seen = IF r.seen = None THEN @ ELSE r.seen]

(* After a hit on an adsorption class: complete, or waiting for the        *)
(* thermochemistry the record does not have.                               *)
CompleteAnyway(match, wanted) == TRUE
Complete(match, wanted) == match # "electronic" \/ ~wanted

AdsorptionHit(s, hit) ==
  /\ IsAdsorption
  /\ LET h == Hydrated(Target(s), hit.id, hit.match)
     IN  IF Complete(hit.match, Wanted(s))
         THEN classes' = Becomes(s, h) /\ job' = To(s, "ok")
         ELSE classes' = Becomes(s, [h EXCEPT !.stable = "undecided"]) /\ job' = To(s, "thermo")

(* A transition is compared with the network again when the record was     *)
(* made under another one, and a path to start from is taken or missed.    *)
TransitionHit(s, hit) ==
  LET j == job[s]
      h == Hydrated(Target(s), hit.id, hit.match)
      checked == [h EXCEPT !.seen = SignatureOf(Net)]
      hasPath == records[hit.id].path
      done == [checked EXCEPT !.path = IF j.capture THEN j.member ELSE @]
  IN  IF /\ h.seen # SignatureOf(Net) /\ h.minima # {}
         /\ Composite(Net, j.member, h.minima)
      THEN classes' = Becomes(s, Suppressed(checked)) /\ job' = To(s, "composite")
      ELSE IF j.capture /\ ~hasPath
      THEN /\ classes' = Becomes(s, [checked EXCEPT !.stable = "undecided"])
           /\ job' = To(s, "relax")
      ELSE IF Complete(hit.match, Wanted(s))
      THEN classes' = Becomes(s, done) /\ job' = To(s, "ok")
      ELSE classes' = Becomes(s, [done EXCEPT !.stable = "undecided"]) /\ job' = To(s, "thermo")

DiffusionHit(s, hit) == IsDiffusion /\ TransitionHit(s, hit)
BondHit(s, hit) == IsBond /\ TransitionHit(s, hit)

(* The stored neighbours have moved: the hydration is thrown away.         *)
SpectatorsMoved(s) ==
  /\ Wanted(s) /\ IsCrowded(s)
  /\ classes' = Becomes(s, Fresh(Target(s).number, Target(s).members))
  /\ job' = To(s, "relax")

LookupMisses(s) ==
  /\ job[s].at = "lookup" /\ ~NeedsRebuild
  /\ Found(Request(s)) = Miss
  /\ index' = Opened
  /\ job' = To(s, "relax")
  /\ UNCHANGED <<network, classes, offers, records, bandVars, run>>

LookupHits(s) ==
  /\ job[s].at = "lookup" /\ ~NeedsRebuild
  /\ LET hit == Found(Request(s))
     IN  /\ hit # Miss
         /\ \/ AdsorptionHit(s, hit)
            \/ DiffusionHit(s, hit)
            \/ BondHit(s, hit)
            \/ SpectatorsMoved(s)
  /\ UNCHANGED <<network, offers, cacheVars, bandVars, run>>

(* The documents are listed, and the new index replaces the old one later. *)
RebuildStarts(s) ==
  /\ job[s].at = "lookup" /\ NeedsRebuild
  /\ job' = [job EXCEPT ![s].at = "rebuild", ![s].listing = Documents]
  /\ UNCHANGED <<network, classes, offers, cacheVars, bandVars, run>>

RebuildEnds(s) ==
  /\ job[s].at = "rebuild"
  /\ Rebuild(job[s].listing)
  /\ job' = [job EXCEPT ![s].at = "lookup", ![s].listing = {}]
  /\ UNCHANGED <<network, classes, offers, bandVars, run>>

---------------------------------------------------------------------------
(* The relaxations.                                                        *)

NextIs(s, structure) == job[s].todo # <<>> /\ Head(job[s].todo) = structure

(* A structure that does not converge, comes apart or leaves its site makes *)
(* the event invalid.                                                      *)
Keeps(s) ==
  /\ classes' = Becomes(s, [Target(s) EXCEPT !.states = @ \cup {Head(job[s].todo)}])
  /\ job' = [job EXCEPT ![s].todo = Tail(@)]

ComesApart(s) == job' = To(s, "invalid") /\ UNCHANGED classes

Relaxed(s, structure) ==
  /\ job[s].at = "relax" /\ NextIs(s, structure)
  /\ Keeps(s) \/ ComesApart(s)

RelaxAdsorption(s) == IsAdsorption /\ (Relaxed(s, "occupied") \/ Relaxed(s, "unoccupied"))
RelaxEndpoints(s) == IsDiffusion /\ (Relaxed(s, "a") \/ Relaxed(s, "b"))
RelaxReactants(s) == IsBond /\ Relaxed(s, "ab")
RelaxSurfaceProduct(s) == IsBond /\ ~settings.gas /\ Relaxed(s, "c")
RelaxGasProduct(s) ==
  IsBond /\ settings.gas /\ Relaxed(s, IF settings.precursor THEN "empty" ELSE "c")
RelaxGasPrecursor(s) ==
  IsBond /\ settings.gas /\ settings.precursor /\ Relaxed(s, "c")

Relax(s) ==
  /\ \/ RelaxAdsorption(s) \/ RelaxEndpoints(s) \/ RelaxReactants(s)
     \/ RelaxSurfaceProduct(s) \/ RelaxGasProduct(s) \/ RelaxGasPrecursor(s)
  /\ UNCHANGED <<network, offers, cacheVars, bandVars, run>>

RelaxEnds(s) ==
  /\ job[s].at = "relax" /\ job[s].todo = <<>>
  /\ job' = To(s, IF IsAdsorption THEN "thermo" ELSE "band")
  /\ UNCHANGED <<network, classes, offers, cacheVars, bandVars, run>>

---------------------------------------------------------------------------
(* The band.                                                               *)

BandBuilt(s) ==
  /\ job[s].at = "band"
  /\ \/ \E gap \in limits.gaps : BuildBand(ImageCount(gap))
     \/ BuildFails

DiffusionBand(s) == IsDiffusion /\ BandBuilt(s)
BondBand(s) == IsBond /\ BandBuilt(s)

BandStarts(s) ==
  /\ DiffusionBand(s) \/ BondBand(s)
  /\ UNCHANGED <<lateralVars, cacheVars, run>>

BandMoves(s) ==
  /\ job[s].at = "band"
  /\ NebStep
  /\ UNCHANGED <<lateralVars, cacheVars, run>>

(* The relaxed minima are kept on the class before anything else happens   *)
(* to them (retain_refinement_and_maybe_suppress).                         *)
BandRefines(s) ==
  /\ job[s].at = "band"
  /\ \E minima \in settings.found :
       LET kept == [Target(s) EXCEPT !.minima = minima, !.seen = SignatureOf(Net)]
       IN  IF Composite(Net, job[s].member, minima)
           THEN classes' = Becomes(s, Suppressed(kept)) /\ RefineComposite
           ELSE classes' = Becomes(s, kept) /\ Refine
  /\ UNCHANGED <<network, offers, job, cacheVars, run>>

RefineFails(s) ==
  /\ job[s].at = "band"
  /\ RefineGivesUp
  /\ UNCHANGED <<lateralVars, cacheVars, run>>

(* The transition state, the path and the last refinement are stored       *)
(* before they are validated.                                              *)
BandReturns(s) ==
  /\ job[s].at = "band" /\ NebEnded
  /\ NebReset
  /\ IF neb.at = "band"
     THEN /\ classes' = Becomes(s, [Target(s) EXCEPT
                            !.states = @ \cup {"transition"},
                            !.minima = IF neb.refinements > 0 THEN @ ELSE {},
                            !.path = IF job[s].capture THEN job[s].member ELSE @])
          /\ job' = To(s, "validate")
     ELSE job' = To(s, neb.at) /\ UNCHANGED classes
  /\ UNCHANGED <<network, offers, cacheVars, run>>

(* The transition state holds together and differs from both ends.         *)
Validated(s) ==
  /\ job[s].at = "validate"
  /\ job' = To(s, "thermo") \/ job' = To(s, "invalid")

ValidateDiffusion(s) == IsDiffusion /\ Validated(s)
ValidateBond(s) == IsBond /\ Validated(s)

Validate(s) ==
  /\ ValidateDiffusion(s) \/ ValidateBond(s)
  /\ UNCHANGED <<network, classes, offers, cacheVars, bandVars, run>>

---------------------------------------------------------------------------
(* Thermochemistry, the verdict and the write.                             *)

(* A class is only marked stable once the thermochemistry has succeeded.   *)
Finished(s, status) ==
  /\ job[s].at = "thermo"
  /\ classes' = Becomes(s, [Target(s) EXCEPT !.stable = "stable", !.status = status,
                            !.thermo = IF Wanted(s) THEN job[s].thermo ELSE @])
  /\ job' = To(s, IF settings.cache THEN "assets" ELSE "ok")

ThermoAdsorption(s) == IsAdsorption /\ Finished(s, Target(s).status)
ThermoDiffusion(s) == IsDiffusion /\ Finished(s, "elementary")
ThermoBond(s) == IsBond /\ Finished(s, "elementary")

Thermo(s) ==
  /\ ThermoAdsorption(s) \/ ThermoDiffusion(s) \/ ThermoBond(s)
  /\ UNCHANGED <<network, offers, cacheVars, bandVars, run>>

(* What a record stores besides its request: of a transition the path and  *)
(* the last refinement, with the network it was compared with.             *)
AdsorptionContent(s) == [path |-> FALSE, minima |-> {}, seen |-> None, run |-> run.number]
TransitionContent(s) ==
  [path |-> settings.persist \/ Target(s).path # None,
   minima |-> Target(s).minima, seen |-> Target(s).seen, run |-> run.number]

Assets(s, content) ==
  /\ job[s].at = "assets"
  /\ WriteAssets(Request(s), content)
  /\ job' = [job EXCEPT ![s].at = "document", ![s].id = Len(records) + 1]

WriteAdsorption(s) == IsAdsorption /\ Assets(s, AdsorptionContent(s))
WriteDiffusion(s) == IsDiffusion /\ Assets(s, TransitionContent(s))
WriteBond(s) == IsBond /\ Assets(s, TransitionContent(s))

Write(s) ==
  /\ \/ WriteAdsorption(s) \/ WriteDiffusion(s) \/ WriteBond(s)
     \/ /\ job[s].at = "document"
        /\ WriteDocument(job[s].id)
        /\ job' = To(s, "row")
     \/ /\ job[s].at = "row"
        /\ WriteRow(job[s].id)
        /\ job' = [job EXCEPT ![s].at = "ok", ![s].id = 0]
  /\ UNCHANGED <<network, classes, offers, bandVars, run>>

---------------------------------------------------------------------------
(* Runs.                                                                   *)

Ends ==
  /\ run.at = "running"
  /\ Forget /\ NebReset
  /\ UNCHANGED cacheVars

Finishes ==
  /\ run.number < Len(settings.runs) /\ \A s \in settings.sites : ~Busy(s)
  /\ run' = [run EXCEPT !.at = "between"]
  /\ Ends

(* The process is killed, or a calculation fails in a way nobody handles.  *)
Crashes ==
  /\ run.faults > 0 /\ \E s \in settings.sites : Busy(s)
  /\ run' = [run EXCEPT !.at = "between", !.faults = @ - 1]
  /\ Ends

(* Unlike a lookup, a write does not survive an index SQLite cannot read.  *)
WriteRaises(s) ==
  /\ index.state = "damaged" /\ job[s].at = "row"
  /\ run' = [run EXCEPT !.at = "between"]
  /\ Ends

(* The atoms of a product cannot be matched to those of AB, or a gas product *)
(* cannot be lifted: a ValueError that no evaluation handles.              *)
Unmatched(s, structure) ==
  IsBond /\ job[s].at = "relax" /\ NextIs(s, structure)

MatchingRaises(s) == ~settings.gas /\ Unmatched(s, "c")
LiftingRaises(s) == settings.gas /\ Unmatched(s, IF settings.precursor THEN "empty" ELSE "c")

ConstructionRaises(s) ==
  /\ MatchingRaises(s) \/ LiftingRaises(s)
  /\ run' = [run EXCEPT !.at = "between"]
  /\ Ends

FilesSuffer ==
  /\ run.at = "between" /\ run.faults > 0
  /\ SpoilRecord \/ LoseIndex
  /\ run' = [run EXCEPT !.faults = @ - 1]
  /\ UNCHANGED <<lateralVars, bandVars>>

RunStarts ==
  /\ run.at = "between" /\ run.number < Len(settings.runs)
  /\ run' = [run EXCEPT !.at = "running", !.number = @ + 1]
  /\ UNCHANGED <<lateralVars, cacheVars, bandVars>>

---------------------------------------------------------------------------

Surroundings == IF ThisRun.lateral THEN settings.envs ELSE {Bare}

Evaluate(s) ==
  /\ run.at = "running"
  /\ \E m \in settings.members :
       \/ \E env \in Surroundings :
            \/ EvaluateAdsorption(s, m, env)
            \/ EvaluateDiffusion(s, m, env)
            \/ EvaluateBond(s, m, env)
       \/ NotApplicable(s, m)
  /\ UNCHANGED <<cacheVars, bandVars, run>>

Grow == run.at = "running" /\ NetworkGrows /\ UNCHANGED <<cacheVars, bandVars, run>>

Return(s) ==
  /\ \/ WarmReturns(s) \/ LiveReturns(s)
     \/ OfferAdsorption(s) \/ OfferDiffusion(s) \/ OfferBond(s)
  /\ UNCHANGED <<cacheVars, bandVars, run>>

(* What a started evaluation does until the member is offered or withdrawn. *)
Calculate(s) ==
  \/ Warm(s) \/ Live(s) \/ Start(s)
  \/ LookupMisses(s) \/ LookupHits(s) \/ RebuildStarts(s) \/ RebuildEnds(s)
  \/ Relax(s) \/ ConstructionRaises(s) \/ RelaxEnds(s)
  \/ BandStarts(s) \/ BandMoves(s) \/ BandRefines(s) \/ RefineFails(s) \/ BandReturns(s)
  \/ Validate(s) \/ Thermo(s) \/ Write(s) \/ WriteRaises(s) \/ Return(s)

BetweenRuns == Finishes \/ Crashes \/ FilesSuffer \/ RunStarts

Next ==
  /\ UNCHANGED <<settings, limits>>
  /\ \/ \E s \in settings.sites : Evaluate(s) \/ Calculate(s)
     \/ Grow
     \/ BetweenRuns

CalculateAt(s) == s \in settings.sites /\ Calculate(s) /\ UNCHANGED <<settings, limits>>

Spec == Init /\ [][Next]_vars

(* A calculation that has started goes on: it runs in a thread of its own, *)
(* or in the main one.                                                     *)
FairSpec == Spec /\ \A s \in Sites : WF_vars(CalculateAt(s))

---------------------------------------------------------------------------

Offering(s) == job[s].at = "offer" /\ job'[s].at = "idle" /\ offers'[s][job[s].member] # None

(* What a rate may rely on when its member is offered.                     *)
OfferSound(s) ==
  Offering(s) =>
    LET j == job[s]
        c == classes[s][j.env]
    IN  /\ j.member \in c.members
        /\ c.stable = "stable" /\ ~c.latched /\ Needed \subseteq c.states
        /\ Admissible(c)
        /\ c.minima # {} => c.seen = SignatureOf(Net)
        /\ (IsAdsorption \/ ~ThisRun.lateral \/ j.env # Bare) => c.thermo = ThisRun.thermo

(* A class the engine is offered has every energy a rate needs and a       *)
(* verdict of its own; it is not known to be composite, and its saved      *)
(* refinement has been compared with the network as it is; and it has the  *)
(* thermochemistry of this run, whatever record it came from.  (The bare   *)
(* class of a transition that is evaluated with lateral interactions is    *)
(* calculated by the warm start: RatesHaveThermochemistry.)                *)
OffersSound == [][\A s \in settings.sites : OfferSound(s)]_vars

(* docs/configuration.md: the bare calculation supplies electronic         *)
(* geometry only, the calculation of the actual surroundings supplies all  *)
(* thermochemistry and rates.                                              *)
RatesHaveThermochemistry ==
  [][\A s \in settings.sites :
       Offering(s) => classes[s][job[s].env].thermo = ThisRun.thermo]_vars

(* What a class keeps of its verdict.                                      *)
VerdictKept(c, d) ==
  /\ c.stable = "stable" => d.stable = "stable" \/ ~Admissible(d)
  /\ c.stable = "rejected" => d.stable = "rejected"
  /\ c.latched => d.latched /\ d.stable = "undecided" /\ d.states = c.states
  /\ ~Admissible(c) => d = [c EXCEPT !.members = d.members]

(* Verdicts outlive everything that happens in a run but the discovery     *)
(* that the event is composite: a stable class is not calculated again, a  *)
(* rejected one not reconsidered, a numerical failure not retried.         *)
VerdictsKept ==
  [][run'.at = "running" =>
       \A s \in settings.sites, x \in settings.envs :
         VerdictKept(classes[s][x], classes'[s][x])]_vars

Finishing(id) == \E s \in settings.sites : job[s].id = id

(* Every row points at a finished folder and no two rows share a key; a    *)
(* class that came out of the database is in it as a result for the same   *)
(* site and surroundings; and unless threads share the database, no        *)
(* finished result of a run is without its row while the run lasts.        *)
DatabaseSound ==
  /\ \A id \in index.rows :
       /\ records[id].state # "torn"
       /\ \A other \in index.rows : Key(records[other]) = Key(records[id]) => other = id
  /\ \A s \in settings.sites, x \in ClassNames :
       LET c == classes[s][x]
       IN  c.from # 0 /\ c.stable = "stable" =>
             /\ records[c.from].state = "whole"
             /\ records[c.from].site = s
             /\ records[c.from].env = IF x = Copy THEN Bare ELSE x
  /\ ~settings.parallel /\ run.at = "running" =>
       \A id \in Documents :
         \/ records[id].run # run.number
         \/ Finishing(id)
         \/ \E row \in index.rows : row >= id /\ Key(records[row]) = Key(records[id])

(* Every evaluation ends, however often its band is rolled back or refined *)
(* and whatever its runs find in the database.                             *)
ChecksEnd ==
  \A s \in Sites : s \in settings.sites /\ Busy(s) ~> (s \in settings.sites => ~Busy(s))
=============================================================================
