------------------------ MODULE StabilityChecksProofs ------------------------
(***************************************************************************)
(* Theorems of StabilityChecks for every set of configurations, and any    *)
(* number of sites, runs, crashes and damaged files.                       *)
(***************************************************************************)
EXTENDS StabilityChecks, FiniteSetTheorems, NaturalsInduction, WellFoundedInduction, TLAPS

---------------------------------------------------------------------------
(* The band.                                                               *)

Running == {"look", "step", "rollback", "converged", "refine"}
Stages == {"ordinary", "climbing"}

HasLimits == settings \in Configurations /\ limits = settings.limits

NebFields ==
  neb = [at |-> neb.at, stage |-> neb.stage, left |-> neb.left,
         stalled |-> neb.stalled, lowest |-> neb.lowest,
         refinements |-> neb.refinements, mayRefine |-> neb.mayRefine]

BandTypeInv ==
  /\ HasLimits
  /\ band \in Bands \cup {NoBand}
  /\ best \in Bands \cup {NoBand}
  /\ NebFields
  /\ neb.at \in Running \cup {"idle", "band", "composite", "notConverged"}
  /\ neb.stage \in Stages
  /\ neb.refinements \in Nat
  /\ neb.mayRefine \in BOOLEAN

\* What is known of the band and of the one to fall back to, at every place.
BandInv ==
  /\ BandTypeInv
  /\ neb.at \in Running => band \in Bands
  /\ neb.refinements <= limits.refinements
  /\ neb.at \in Running \cup {"band"} => (neb.mayRefine <=> MayRefine(neb.refinements))
  /\ neb.at = "refine" => neb.mayRefine
  /\ best # NoBand => best.close
  /\ limits.guard /\ neb.at \in {"step", "converged"} => band.close /\ best # NoBand
  /\ limits.guard /\ neb.at = "look" /\ neb.stage = "climbing" /\ best = NoBand => band.close
  /\ neb.at = "rollback" => limits.guard /\ (neb.stage = "climbing" => best # NoBand)
  /\ neb.at = "converged" => band.force = 0
  /\ BandSound

---------------------------------------------------------------------------
(* Types, of a configuration S.                                            *)

Names(S) == S.envs \cup {Bare, Copy}
Seeds(S) == S.members \cup {None}
Minima(S) == S.found \cup {{}}
Thermos(S) == {None} \cup {S.runs[i].thermo : i \in 1 .. Len(S.runs)}
Signatures(S) ==
  {None} \cup {IF S.kind = "diffusion" THEN DiffusionSignature(S.networks[n])
               ELSE BondSignature(S.networks[n]) : n \in 1 .. Len(S.networks)}
Parts == {"occupied", "unoccupied", "a", "b", "ab", "c", "empty", "transition"}

ClassType(S) ==
  [number : Nat, members : SUBSET S.members, status : {"none", "elementary", "composite"},
   stable : {"undecided", "stable", "rejected"}, states : SUBSET Parts,
   thermo : Thermos(S), latched : BOOLEAN, path : Seeds(S), minima : Minima(S),
   seen : Signatures(S), from : Nat]

\* Places of a calculation whose class is as it was before it, ...
Early == {"start", "lookup", "rebuild", "relax", "validate", "thermo",
          "invalid", "notConverged"}
\* ... and all places of a calculation.
Calculating == Early \cup {"band", "composite", "assets", "document", "row", "ok"}
Places == Calculating \cup {"idle", "warm", "judge", "offer"}

JobType(S) ==
  [at : Places, member : Seeds(S), env : Names(S), calc : {"live", "warm"},
   target : Names(S), thermo : Thermos(S), seed : Seeds(S), capture : BOOLEAN,
   todo : Seq(Parts), id : Nat, listing : SUBSET Nat]

RecordType(S) ==
  [site : S.sites, member : Seeds(S), env : Names(S), number : Nat, seed : Seeds(S),
   thermo : Thermos(S), path : BOOLEAN, minima : Minima(S), seen : Signatures(S),
   run : Nat, state : {"torn", "whole", "spoiled"}]

TypeInv ==
  /\ HasLimits
  /\ run = [at |-> run.at, number |-> run.number, faults |-> run.faults]
  /\ run.at \in {"running", "between"} /\ run.number \in 1 .. Len(settings.runs)
  /\ network \in 1 .. Len(settings.networks)
  /\ classes \in [settings.sites -> [Names(settings) -> ClassType(settings)]]
  /\ job \in [settings.sites -> JobType(settings)]
  /\ records \in Seq(RecordType(settings))
  /\ index \in [state : {"absent", "ok", "damaged"}, rows : SUBSET (1 .. Len(records))]

---------------------------------------------------------------------------
(* Classes and evaluations, of a configuration S, a run r, a network whose *)
(* signature is sig, and a band driver that is at place: the classes cs of *)
(* a site and its evaluation j.                                            *)

\* Nothing is decided about the class.
Open(c) == c.stable = "undecided" /\ ~c.latched /\ Admissible(c)

\* The saved refinement has been compared with the network as it is.
Rechecked(sig, c) ==
  Admissible(c) /\ c.stable # "rejected" /\ ~c.latched /\ c.minima # {} => c.seen = sig

\* The classes that supply rates.
Adsorbs(S) == S.kind = "adsorption"
Rated(S, r, x) == x # Copy /\ (Adsorbs(S) \/ ~r.lateral \/ x # Bare)

ClassInv(S, r, x, c) ==
  /\ c.latched => c.stable = "undecided"
  /\ c.number = 0 /\ x # Copy => Open(c)
  /\ c.thermo \in {None, r.thermo}
  /\ c.stable = "stable" /\ Rated(S, r, x) => c.thermo = r.thermo
  /\ Adsorbs(S) => c.minima = {}

EvaluationInv(S, r, sig, cs, j) ==
  /\ j.env # Copy /\ j.member \in cs[j.env].members
  /\ cs[j.env].number # 0
  /\ r.lateral /\ ~Adsorbs(S) => cs[Bare].number # 0
  /\ Rechecked(sig, cs[j.env])
  /\ j.at = "warm" => r.lateral /\ ~Adsorbs(S)

CalculationInv(S, r, place, cs, j) ==
  /\ j.calc = "live" => j.target = j.env /\ j.thermo = r.thermo
  /\ j.calc = "warm" => /\ j.target \in {Bare, Copy} /\ j.thermo = None
                        /\ r.lateral /\ ~Adsorbs(S)
  /\ j.target = Copy => cs[Bare].stable = "stable" /\ Admissible(cs[Bare])
  /\ j.at \in Early => Open(cs[j.target])
  /\ j.at = "band" => /\ ~Adsorbs(S)
                      /\ cs[j.target].stable = "undecided" /\ ~cs[j.target].latched
                      /\ place # "composite" => Admissible(cs[j.target])

SiteInv(S, r, sig, place, cs, j) ==
  /\ \A x \in Names(S) : ClassInv(S, r, x, cs[x])
  /\ j.at # "idle" => EvaluationInv(S, r, sig, cs, j)
  /\ j.at \in Calculating => CalculationInv(S, r, place, cs, j)

\* Threads apart, one site at a time.
Alone(S, jobs) ==
  ~S.parallel => \A s, t \in S.sites : jobs[s].at # "idle" /\ jobs[t].at # "idle" => s = t

SitesInv ==
  /\ \A s \in settings.sites :
       SiteInv(settings, ThisRun, SignatureOf(Net), neb.at, classes[s], job[s])
  /\ Alone(settings, job)
  /\ run.at = "between" => classes = NoClasses /\ job = NoJobs

---------------------------------------------------------------------------
(* The database, of records recs and an index with the given rows.         *)

RowsInv(recs, rows) ==
  \A id \in rows :
    /\ recs[id].state # "torn"
    /\ \A other \in rows : Key(recs[other]) = Key(recs[id]) => other = id

RecordsInv(S, r, recs) ==
  \A id \in 1 .. Len(recs) :
    /\ recs[id].run <= r.number
    /\ r.at = "running" /\ recs[id].run = r.number => recs[id].state # "spoiled"
    /\ Adsorbs(S) => recs[id].minima = {}

\* The records that have a document.
Documented(recs) == {id \in 1 .. Len(recs) : recs[id].state # "torn"}

WriterInv(S, recs, j) ==
  /\ j.id # 0 <=> j.at \in {"document", "row"}
  /\ j.id # 0 => j.id \in 1 .. Len(recs) /\ (~S.parallel => j.id = Len(recs))
  /\ j.at = "row" => recs[j.id].state # "torn"
  /\ j.listing \subseteq 1 .. Len(recs)
  /\ j.at = "rebuild" /\ ~S.parallel => j.listing = Documented(recs)

\* A class that came out of the database.
OriginInv(recs, s, x, c) ==
  c.from # 0 =>
    /\ c.from \in 1 .. Len(recs)
    /\ recs[c.from].state = "whole" /\ recs[c.from].site = s
    /\ recs[c.from].env = IF x = Copy THEN Bare ELSE x

\* No result of this run is without its row but the one being written.
Covered(recs, rows, r, writing, id) ==
  \/ recs[id].run # r.number
  \/ id \in writing
  \/ \E row \in rows : row >= id /\ Key(recs[row]) = Key(recs[id])

Writing(S, jobs) == {jobs[s].id : s \in S.sites}

DatabaseInv ==
  /\ RowsInv(records, index.rows)
  /\ RecordsInv(settings, run, records)
  /\ \A s \in settings.sites : WriterInv(settings, records, job[s])
  /\ \A s \in settings.sites, x \in Names(settings) : OriginInv(records, s, x, classes[s][x])
  /\ ~settings.parallel /\ run.at = "running" =>
       \A id \in Documented(records) :
         Covered(records, index.rows, run, Writing(settings, job), id)

IInv == TypeInv /\ BandInv /\ SitesInv /\ DatabaseInv

---------------------------------------------------------------------------
(* The band: one lemma per step of the driver.                             *)

LEMMA NoBandApart == ~NoBand.close
BY DEF NoBand

LEMMA NebInitial == Init => BandInv
BY ConfigurationAssumption
DEF Init, NebInit, BandInv, BandTypeInv, NebFields, HasLimits, BandSound, Running, Stages, NoBand

\* A new ordinary stage.
LEMMA StagedBand ==
  ASSUME BandInv, UNCHANGED <<settings, limits>>, NEW n \in Nat, n <= limits.refinements,
         band' \in Bands, best' = NoBand, neb' = Staged("ordinary", n)
  PROVE  BandInv'
<1>1. /\ neb'.at = "look" /\ neb'.stage = "ordinary" /\ neb'.refinements = n
      /\ neb'.mayRefine <=> MayRefine(n)
      /\ neb'.mayRefine \in BOOLEAN
      /\ NebFields'
  BY DEF Staged, NebFields, MayRefine
<1>2. BandTypeInv'
  BY <1>1 DEF BandInv, BandTypeInv, HasLimits, Running, Stages, Bands
<1>3. MayRefine(n)' <=> MayRefine(n)
  BY DEF MayRefine
<1>4. band' \in Bands'
  BY DEF Bands
<1> QED BY <1>1, <1>2, <1>3, <1>4 DEF BandInv, BandSound, Running

LEMMA BuildKeepsBand ==
  ASSUME BandInv, UNCHANGED <<settings, limits>>, NEW n, BuildBand(n) \/ BuildFails
  PROVE  BandInv'
<1>1. CASE BuildBand(n)
  <2>1. band' \in Bands /\ best' = NoBand /\ neb' = Staged("ordinary", 0)
    BY <1>1 DEF BuildBand
  <2>2. 0 \in Nat /\ 0 <= limits.refinements
    BY ConfigurationAssumption DEF BandInv, BandTypeInv, HasLimits
  <2> QED BY <2>1, <2>2, StagedBand
<1>2. CASE BuildFails
  <2>1. Bands' = Bands
    BY DEF Bands
  <2> QED
    BY <1>2, <2>1 DEF BuildFails, GiveUp, BandSound, BandInv, BandTypeInv, NebFields,
      HasLimits, Running, Stages, MayRefine
<1> QED BY <1>1, <1>2

LEMMA LookKeepsBand ==
  ASSUME BandInv, UNCHANGED <<settings, limits>>, Look
  PROVE  BandInv'
<1> USE ConfigurationAssumption DEF BandInv, BandTypeInv, NebFields, HasLimits, Running, Stages, MayRefine, BandSound
<1>1. CASE limits.guard /\ ~band.close
  <2>1. neb' = [neb EXCEPT !.at = "rollback"] /\ UNCHANGED <<band, best>>
    BY <1>1 DEF Look
  <2> QED BY <1>1, <2>1 DEF Bands, Look
<1>2. CASE ~limits.guard \/ band.close
  <2>1. best' = Better(band) /\ band' = band /\ neb.at = "look"
    BY <1>2 DEF Look
  <2>2. /\ best' \in Bands \cup {NoBand}
        /\ best' # NoBand => best'.close
        /\ limits.guard => band.close /\ best' # NoBand
    <3>1. band \in Bands
      BY <2>1
    <3>2. CASE limits.guard /\ (best = NoBand \/ band.force < best.force)
      <4>1. best' = band
        BY <2>1, <3>2 DEF Better
      <4> QED BY <1>2, <3>1, <3>2, <4>1, NoBandApart
    <3>3. CASE ~(limits.guard /\ (best = NoBand \/ band.force < best.force))
      <4>1. best' = best
        BY <2>1, <3>3 DEF Better
      <4> QED BY <1>2, <3>3, <4>1
    <3> QED BY <3>2, <3>3
  <2>3. /\ neb' = [neb EXCEPT !.at = neb'.at, !.stalled = neb'.stalled, !.lowest = neb'.lowest]
        /\ neb'.at \in {"step", "refine"}
        /\ neb'.at = "refine" => neb.mayRefine
    BY <1>2 DEF Look
  <2>4. neb'.refinements = neb.refinements /\ neb'.mayRefine = neb.mayRefine /\ neb'.stage = neb.stage
    BY <2>3
  <2> HIDE DEF MayRefine
  <2>5. BandTypeInv'
    BY <2>1, <2>2, <2>3, <2>4 DEF Bands
  <2>6. MayRefine(neb.refinements)' = MayRefine(neb'.refinements)
    BY DEF MayRefine
  <2> QED BY <2>1, <2>2, <2>3, <2>4, <2>5, <2>6 DEF MayRefine, Bands
<1> QED BY <1>1, <1>2

LEMMA StepKeepsBand ==
  ASSUME BandInv, UNCHANGED <<settings, limits>>, Step
  PROVE  BandInv'
<1> USE ConfigurationAssumption DEF BandInv, BandTypeInv, NebFields, HasLimits, Running, Stages, MayRefine, BandSound, Bands
<1>1. CASE band.force = 0 /\ neb' = [neb EXCEPT !.at = "converged"] /\ UNCHANGED <<band, best>>
  BY <1>1 DEF Step
<1>2. CASE GiveUp
  BY <1>2 DEF GiveUp
<1>3. CASE /\ band' \in {b \in Bands : Len(b.energies) = Len(band.energies)}
           /\ neb' = [neb EXCEPT !.at = "look", !.left = neb.left - 1]
           /\ UNCHANGED best
  BY <1>3 DEF Step
<1> QED BY <1>1, <1>2, <1>3 DEF Step

LEMMA RollbackKeepsBand ==
  ASSUME BandInv, UNCHANGED <<settings, limits>>, Rollback
  PROVE  BandInv'
<1> USE ConfigurationAssumption DEF BandInv, BandTypeInv, NebFields, HasLimits, Running, Stages, MayRefine, BandSound
<1>1. CASE GiveUp
  BY <1>1 DEF GiveUp, Bands
<1>2. CASE best # NoBand /\ band' = best /\ UNCHANGED best /\ ~GiveUp
  <2>1. /\ neb' = [neb EXCEPT !.left = neb'.left, !.at = neb'.at]
        /\ neb'.at \in {"refine", "notConverged", "look"}
        /\ neb'.at = "refine" => neb.mayRefine
    BY <1>2 DEF Rollback
  <2> QED BY <1>2, <2>1 DEF Bands, Rollback
<1> QED BY <1>1, <1>2 DEF Rollback

LEMMA ConvergedKeepsBand ==
  ASSUME BandInv, UNCHANGED <<settings, limits>>, Converged
  PROVE  BandInv'
<1> USE ConfigurationAssumption DEF BandInv, BandTypeInv, NebFields, HasLimits, Running, Stages, MayRefine, BandSound
<1>1. CASE Inspected /\ neb' = [neb EXCEPT !.at = "refine"] /\ UNCHANGED <<band, best>>
  BY <1>1 DEF Inspected, Converged, Bands
<1>2. CASE ~Inspected /\ NextStage
  <2>1. CASE neb.stage = "ordinary" /\ limits.climb
    <3>1. PICK force \in limits.forces : band' = [band EXCEPT !.force = force]
      BY <1>2, <2>1 DEF NextStage
    <3>2. best' = NoBand /\ neb' = Staged("climbing", neb.refinements)
      BY <1>2, <2>1 DEF NextStage
    <3> QED BY <3>1, <3>2 DEF Staged, Converged, Bands, NoBand
  <2>2. CASE ~(neb.stage = "ordinary" /\ limits.climb)
    <3>1. neb' = [neb EXCEPT !.at = "band"] /\ UNCHANGED <<band, best>>
      BY <1>2, <2>2 DEF NextStage
    <3>2. Bracketed(band.energies)' = Bracketed(band'.energies)
      BY DEF Bracketed, MinimaOf, LeftOf, RightOf, Least, Greatest, Peak, Interior
    <3> QED BY <1>2, <2>2, <3>1, <3>2 DEF Inspected, Converged, Bands
  <2> QED BY <2>1, <2>2
<1> QED BY <1>1, <1>2 DEF Converged

LEMMA RefineKeepsBand ==
  ASSUME BandInv, UNCHANGED <<settings, limits>>,
         Refine \/ RefineGivesUp \/ RefineComposite
  PROVE  BandInv'
<1> USE ConfigurationAssumption DEF BandInv, BandTypeInv, NebFields, HasLimits, Running, Stages, MayRefine, BandSound
<1>1. CASE neb.at = "refine" /\ GiveUp
  BY <1>1 DEF GiveUp, Bands
<1>2. CASE RefineComposite
  BY <1>2 DEF RefineComposite, Bands
<1>3. CASE Refine /\ ~GiveUp
  <2>1. /\ neb.at = "refine" /\ band' \in Bands /\ best' = NoBand
        /\ neb' = Staged("ordinary", neb.refinements + 1)
    BY <1>3 DEF Refine
  <2>2. neb.refinements + 1 \in Nat /\ neb.refinements + 1 <= limits.refinements
    BY <2>1
  <2> QED BY <2>1, <2>2, StagedBand
<1> QED BY <1>1, <1>2, <1>3 DEF Refine, RefineGivesUp

LEMMA ResetKeepsBand ==
  ASSUME BandInv, UNCHANGED <<settings, limits>>, NebReset
  PROVE  BandInv'
<1>1. /\ neb'.at = "idle" /\ neb'.stage = "ordinary" /\ neb'.refinements = 0
      /\ neb'.mayRefine \in BOOLEAN /\ NebFields'
  BY DEF NebReset, NebFields, BandInv, BandTypeInv
<1>2. band' = NoBand /\ best' = NoBand
  BY DEF NebReset
<1>3. 0 <= limits'.refinements
  BY ConfigurationAssumption DEF BandInv, BandTypeInv, HasLimits
<1>4. BandTypeInv'
  <2>1. HasLimits' /\ neb'.refinements \in Nat
    BY <1>1 DEF BandInv, BandTypeInv, HasLimits
  <2>2. band' \in Bands' \cup {NoBand} /\ best' \in Bands' \cup {NoBand}
    BY <1>2
  <2> QED BY <1>1, <2>1, <2>2 DEF BandTypeInv, Stages
<1>5. neb'.at \notin Running \cup {"band"}
  BY <1>1 DEF Running
<1>6. BandSound'
  BY <1>1, <1>2, <1>3 DEF BandSound
<1> QED BY <1>1, <1>2, <1>3, <1>4, <1>5, <1>6 DEF BandInv

LEMMA IdleKeepsBand ==
  ASSUME BandInv, UNCHANGED <<settings, limits, bandVars>>
  PROVE  BandInv'
<1>1. Bands' = Bands
  BY DEF Bands
<1>2. band' = band /\ best' = best /\ neb' = neb
  BY DEF bandVars
<1>3. Bracketed(band.energies)' = Bracketed(band.energies)
  BY <1>2 DEF Bracketed, MinimaOf, LeftOf, RightOf, Least, Greatest, Peak, Interior
<1> QED
  BY <1>1, <1>2, <1>3
  DEF BandInv, BandTypeInv, NebFields, HasLimits, Running, Stages, MayRefine, BandSound

\* What a step of the system does to the band.
LEMMA NextBand ==
  ASSUME Next
  PROVE  /\ UNCHANGED <<settings, limits>>
         /\ \/ UNCHANGED bandVars
            \/ \E n : BuildBand(n)
            \/ BuildFails
            \/ Look \/ Step \/ Rollback \/ Converged
            \/ Refine \/ RefineGivesUp \/ RefineComposite
            \/ NebReset
<1>1. UNCHANGED <<settings, limits>>
  BY DEF Next
<1>2. CASE \E s \in settings.sites : Evaluate(s)
  BY <1>1, <1>2 DEF Evaluate
<1>3. CASE Grow
  BY <1>1, <1>3 DEF Grow
<1>4. CASE BetweenRuns
  BY <1>1, <1>4 DEF BetweenRuns, Finishes, Crashes, FilesSuffer, RunStarts, Ends
<1>5. ASSUME NEW s \in settings.sites, Calculate(s)
      PROVE  \/ UNCHANGED bandVars
             \/ \E n : BuildBand(n)
             \/ BuildFails
             \/ Look \/ Step \/ Rollback \/ Converged
             \/ Refine \/ RefineGivesUp \/ RefineComposite
             \/ NebReset
  <2>1. CASE Warm(s) \/ Live(s) \/ Start(s)
    BY <2>1 DEF Warm, Live, Start
  <2>2. CASE LookupMisses(s) \/ LookupHits(s) \/ RebuildStarts(s) \/ RebuildEnds(s)
    BY <2>2 DEF LookupMisses, LookupHits, RebuildStarts, RebuildEnds
  <2>3. CASE Relax(s) \/ RelaxEnds(s) \/ Validate(s) \/ Thermo(s) \/ Write(s) \/ Return(s)
    BY <2>3 DEF Relax, RelaxEnds, Validate, Thermo, Write, Return
  <2>4. CASE ConstructionRaises(s) \/ WriteRaises(s)
    BY <2>4 DEF ConstructionRaises, WriteRaises, Ends
  <2>5. CASE BandStarts(s)
    BY <2>5 DEF BandStarts, DiffusionBand, BondBand, BandBuilt
  <2>6. CASE BandMoves(s)
    BY <2>6 DEF BandMoves, NebStep
  <2>7. CASE BandRefines(s)
    BY <2>7 DEF BandRefines
  <2>8. CASE RefineFails(s)
    BY <2>8 DEF RefineFails
  <2>9. CASE BandReturns(s)
    BY <2>9 DEF BandReturns
  <2> QED
    BY <1>5, <2>1, <2>2, <2>3, <2>4, <2>5, <2>6, <2>7, <2>8, <2>9 DEF Calculate
<1> QED BY <1>1, <1>2, <1>3, <1>4, <1>5 DEF Next

LEMMA NextKeepsBand ==
  ASSUME BandInv, [Next]_vars
  PROVE  BandInv'
<1>1. CASE UNCHANGED vars
  BY <1>1, IdleKeepsBand DEF vars, bandVars
<1>2. CASE Next
  <2>1. UNCHANGED <<settings, limits>>
    BY <1>2, NextBand
  <2> QED
    BY <1>2, <2>1, NextBand, IdleKeepsBand, BuildKeepsBand, LookKeepsBand, StepKeepsBand,
       RollbackKeepsBand, ConvergedKeepsBand, RefineKeepsBand, ResetKeepsBand
<1> QED BY <1>1, <1>2

\* A band is only returned relaxed, within the spacing limit, after the
\* climbing stage if one was asked for, and with no minimum left beside its
\* highest peak unless the refinements are used up, whatever the height of
\* its barrier; and a climbing stage always has a band to fall back to
\* (run_neb).
THEOREM BandSoundHolds == Spec => []BandSound
<1>1. Init => BandInv
  BY NebInitial
<1>2. BandInv /\ [Next]_vars => BandInv'
  BY NextKeepsBand
<1>3. BandInv => BandSound
  BY DEF BandInv
<1> QED BY <1>1, <1>2, <1>3, PTL DEF Spec

---------------------------------------------------------------------------
(* Values of the right types.                                              *)

LEMMA NamesOfClasses == ClassNames = Names(settings)
BY DEF ClassNames, Names

LEMMA NetworkValues ==
  ASSUME TypeInv
  PROVE  /\ SignatureOf(Net) \in Signatures(settings)
         /\ ThisRun.thermo \in Thermos(settings)
         /\ None \in Signatures(settings) /\ None \in Thermos(settings)
BY DEF TypeInv, SignatureOf, Net, Signatures, IsDiffusion, ThisRun, Thermos

LEMMA NoneTyped ==
  ASSUME NEW S
  PROVE  /\ None \in Signatures(S) /\ None \in Thermos(S) /\ None \in Seeds(S)
         /\ {} \in Minima(S) /\ Bare \in Names(S) /\ Copy \in Names(S)
BY DEF Signatures, Thermos, Seeds, Minima, Names

LEMMA FreshTyped ==
  ASSUME NEW S, NEW n \in Nat, NEW M \in SUBSET S.members
  PROVE  Fresh(n, M) \in ClassType(S)
BY NoneTyped DEF Fresh, ClassType

LEMMA IdleTyped ==
  ASSUME NEW S
  PROVE  IdleJob \in JobType(S)
<1>1. <<>> \in Seq(Parts) /\ {} \in SUBSET Nat
  OBVIOUS
<1> QED BY <1>1, NoneTyped DEF IdleJob, JobType, Places, Seeds

---------------------------------------------------------------------------
(* One step of one site.                                                   *)

\* A calculation leaves d on its target and goes on at another place.
LEMMA TargetStep ==
  ASSUME NEW S, NEW r, NEW sig, NEW place, NEW after,
         Bare # Copy,
         NEW cs \in [Names(S) -> ClassType(S)], NEW j \in JobType(S),
         SiteInv(S, r, sig, place, cs, j), j.at \in Calculating,
         NEW d \in ClassType(S), NEW k \in JobType(S),
         k.member = j.member, k.env = j.env, k.calc = j.calc, k.target = j.target,
         k.thermo = j.thermo, k.at \in Calculating,
         d.number = cs[j.target].number, cs[j.target].members \subseteq d.members,
         ClassInv(S, r, j.target, d),
         j.target = j.env => Rechecked(sig, d),
         k.at \in Early => Open(d),
         k.at = "band" => /\ ~Adsorbs(S) /\ d.stable = "undecided" /\ ~d.latched
                          /\ after # "composite" => Admissible(d)
  PROVE  /\ [cs EXCEPT ![j.target] = d] \in [Names(S) -> ClassType(S)]
         /\ SiteInv(S, r, sig, after, [cs EXCEPT ![j.target] = d], k)
<1> DEFINE ds == [cs EXCEPT ![j.target] = d]
<1>1. j.target \in Names(S) /\ j.env \in Names(S) /\ Bare \in Names(S)
  BY NoneTyped DEF JobType
<1>2. ds \in [Names(S) -> ClassType(S)]
  BY <1>1
<1>3. /\ ds[j.target] = d
      /\ \A x \in Names(S) : x # j.target => ds[x] = cs[x]
  BY <1>1
<1> HIDE DEF ds
<1>4. ASSUME NEW x \in Names(S) PROVE ClassInv(S, r, x, ds[x])
  <2>1. CASE x = j.target
    BY <2>1, <1>3
  <2>2. CASE x # j.target
    BY <2>2, <1>3 DEF SiteInv
  <2> QED BY <2>1, <2>2
<1>5. EvaluationInv(S, r, sig, cs, j)
  BY DEF SiteInv, Calculating, Early
<1>6. CalculationInv(S, r, place, cs, j)
  BY DEF SiteInv
<1>7. EvaluationInv(S, r, sig, ds, k)
  <2>1. k.at # "warm"
    BY DEF Calculating, Early
  <2>2. ds[k.env].number # 0 /\ k.member \in ds[k.env].members
    BY <1>1, <1>3, <1>5 DEF EvaluationInv
  <2>3. ds[Bare].number = cs[Bare].number
    BY <1>1, <1>3
  <2>4. Rechecked(sig, ds[k.env])
    BY <1>1, <1>3, <1>5 DEF EvaluationInv
  <2> QED BY <1>5, <2>1, <2>2, <2>3, <2>4 DEF EvaluationInv
<1>8. CalculationInv(S, r, after, ds, k)
  <2>1. k.target = Copy => ds[Bare] = cs[Bare]
    BY <1>1, <1>3
  <2> QED BY <1>3, <1>6, <2>1 DEF CalculationInv
<1>9. SiteInv(S, r, sig, after, ds, k)
  BY <1>4, <1>7, <1>8 DEF SiteInv
<1> QED BY <1>2, <1>9 DEF ds

\* The band is at another place: a site that is not at its band does not mind.
LEMMA PlaceStep ==
  ASSUME NEW S, NEW r, NEW sig, NEW place, NEW after, NEW cs, NEW j,
         SiteInv(S, r, sig, place, cs, j),
         j.at = "band" => (after # "composite" => place # "composite")
  PROVE  SiteInv(S, r, sig, after, cs, j)
BY DEF SiteInv, CalculationInv

\* A step of one site within a run keeps what is known of all sites.
LEMMA SiteStep ==
  ASSUME TypeInv, SitesInv, UNCHANGED <<settings, limits, network, run>>,
         NEW s \in settings.sites,
         NEW cs \in [Names(settings) -> ClassType(settings)], NEW k \in JobType(settings),
         classes' = [classes EXCEPT ![s] = cs], job' = [job EXCEPT ![s] = k],
         SiteInv(settings, ThisRun, SignatureOf(Net), neb'.at, cs, k),
         run.at = "running",
         job[s].at = "band" \/ neb' = neb,
         Busy(s) \/ MayStart(s) \/ k.at = "idle"
  PROVE  /\ classes' \in [settings.sites -> [Names(settings) -> ClassType(settings)]]
         /\ job' \in [settings.sites -> JobType(settings)]
         /\ SitesInv'
<1>1. /\ classes' \in [settings.sites -> [Names(settings) -> ClassType(settings)]]
      /\ job' \in [settings.sites -> JobType(settings)]
      /\ classes'[s] = cs /\ job'[s] = k
      /\ \A t \in settings.sites : t # s => classes'[t] = classes[t] /\ job'[t] = job[t]
  BY DEF TypeInv
<1>2. ThisRun' = ThisRun /\ SignatureOf(Net)' = SignatureOf(Net)
  BY DEF ThisRun, SignatureOf, Net, IsDiffusion
<1>3. ASSUME NEW t \in settings.sites
      PROVE  SiteInv(settings, ThisRun, SignatureOf(Net), neb'.at, classes'[t], job'[t])
  <2>1. CASE t = s
    BY <2>1, <1>1
  <2>2. CASE t # s
    <3>1. SiteInv(settings, ThisRun, SignatureOf(Net), neb.at, classes[t], job[t])
      BY DEF SitesInv
    <3>2. job[t].at = "band" => neb' = neb
      <4>1. CASE job[t].at = "band" /\ job[s].at = "band"
        <5>1. ~Adsorbs(settings)
          BY <3>1, <4>1 DEF SiteInv, CalculationInv, Calculating
        <5>2. ~settings.parallel
          BY <5>1, ConfigurationAssumption DEF TypeInv, HasLimits, Adsorbs
        <5> QED BY <4>1, <5>2, <2>2 DEF SitesInv, Alone
      <4> QED BY <4>1
    <3> QED BY <1>1, <2>2, <3>1, <3>2, PlaceStep
  <2> QED BY <2>1, <2>2
<1>4. Alone(settings, job')
  <2>1. SUFFICES ASSUME ~settings.parallel,
                        NEW t \in settings.sites, NEW u \in settings.sites,
                        job'[t].at # "idle", job'[u].at # "idle"
                 PROVE  t = u
    BY DEF Alone
  <2>2. \A v \in settings.sites : v # s /\ job[v].at # "idle" => job[s].at # "idle" \/ k.at = "idle"
    BY <2>1 DEF Busy, MayStart
  <2>3. \A v, w \in settings.sites : job[v].at # "idle" /\ job[w].at # "idle" => v = w
    BY <2>1 DEF SitesInv, Alone
  <2> QED BY <1>1, <2>1, <2>2, <2>3
<1>5. SitesInv'
  BY <1>2, <1>3, <1>4 DEF SitesInv
<1> QED BY <1>1, <1>5

\* ... and all that is known of the database, unless it writes.
LEMMA SiteStepDatabase ==
  ASSUME TypeInv, DatabaseInv, UNCHANGED <<settings, run, records>>, index'.rows = index.rows,
         NEW s \in settings.sites,
         NEW cs \in [Names(settings) -> ClassType(settings)], NEW k \in JobType(settings),
         classes' = [classes EXCEPT ![s] = cs], job' = [job EXCEPT ![s] = k],
         WriterInv(settings, records, k),
         \A x \in Names(settings) : OriginInv(records, s, x, cs[x]),
         k.id = job[s].id \/ job[s].id = 0
  PROVE  DatabaseInv'
<1>1. /\ classes'[s] = cs /\ job'[s] = k
      /\ \A t \in settings.sites : t # s => classes'[t] = classes[t] /\ job'[t] = job[t]
  BY DEF TypeInv
<1>2. RowsInv(records, index'.rows) /\ RecordsInv(settings, run, records)
  BY DEF DatabaseInv
<1>3. \A t \in settings.sites : WriterInv(settings, records, job'[t])
  BY <1>1 DEF DatabaseInv
<1>4. \A t \in settings.sites, x \in Names(settings) : OriginInv(records, t, x, classes'[t][x])
  BY <1>1 DEF DatabaseInv
<1>5. ASSUME ~settings.parallel, run.at = "running", NEW id \in Documented(records)
      PROVE  Covered(records, index'.rows, run, Writing(settings, job'), id)
  <2>1. Covered(records, index.rows, run, Writing(settings, job), id)
    BY <1>5 DEF DatabaseInv
  <2>2. id # 0
    BY DEF Documented
  <2>3. id \in Writing(settings, job) => id \in Writing(settings, job')
    BY <1>1, <2>2 DEF Writing
  <2> QED BY <2>1, <2>3 DEF Covered
<1> QED BY <1>2, <1>3, <1>4, <1>5 DEF DatabaseInv

Known == TypeInv /\ SitesInv /\ DatabaseInv

LEMMA OneSite ==
  ASSUME Known, UNCHANGED <<settings, limits, network, run, records>>,
         index' \in [state : {"absent", "ok", "damaged"}, rows : {index.rows}],
         NEW s \in settings.sites,
         NEW cs \in [Names(settings) -> ClassType(settings)], NEW k \in JobType(settings),
         classes' = [classes EXCEPT ![s] = cs], job' = [job EXCEPT ![s] = k],
         SiteInv(settings, ThisRun, SignatureOf(Net), neb'.at, cs, k),
         run.at = "running",
         job[s].at = "band" \/ neb' = neb,
         Busy(s) \/ MayStart(s) \/ k.at = "idle",
         WriterInv(settings, records, k),
         \A x \in Names(settings) : OriginInv(records, s, x, cs[x]),
         k.id = job[s].id \/ job[s].id = 0
  PROVE  Known'
<1>1. index'.rows = index.rows
  OBVIOUS
<1>2. /\ classes' \in [settings.sites -> [Names(settings) -> ClassType(settings)]]
      /\ job' \in [settings.sites -> JobType(settings)]
      /\ SitesInv'
  BY SiteStep DEF Known
<1>3. DatabaseInv'
  BY <1>1, SiteStepDatabase DEF Known
<1>4. TypeInv'
  BY <1>2 DEF Known, TypeInv, HasLimits
<1> QED BY <1>2, <1>3, <1>4 DEF Known

\* A step of a calculation within the database as it is.
LEMMA OneTarget ==
  ASSUME Known, UNCHANGED <<settings, limits, network, run, records>>,
         index' \in [state : {"absent", "ok", "damaged"}, rows : {index.rows}],
         NEW s \in settings.sites, job[s].at \in Calculating,
         NEW d \in ClassType(settings), NEW k \in JobType(settings),
         classes' = [classes EXCEPT ![s] = [classes[s] EXCEPT ![job[s].target] = d]],
         job' = [job EXCEPT ![s] = k],
         k.member = job[s].member, k.env = job[s].env, k.calc = job[s].calc,
         k.target = job[s].target, k.thermo = job[s].thermo, k.at \in Calculating,
         d.number = Target(s).number, Target(s).members \subseteq d.members,
         ClassInv(settings, ThisRun, job[s].target, d),
         job[s].target = job[s].env => Rechecked(SignatureOf(Net), d),
         k.at \in Early => Open(d),
         k.at = "band" => /\ ~Adsorbs(settings) /\ d.stable = "undecided" /\ ~d.latched
                          /\ neb'.at # "composite" => Admissible(d),
         job[s].at = "band" \/ neb' = neb,
         WriterInv(settings, records, k),
         OriginInv(records, s, job[s].target, d),
         k.id = job[s].id \/ job[s].id = 0
  PROVE  Known'
<1> DEFINE cs == classes[s]
           ds == [cs EXCEPT ![job[s].target] = d]
<1>1. cs \in [Names(settings) -> ClassType(settings)] /\ job[s] \in JobType(settings)
  BY DEF Known, TypeInv
<1>2. SiteInv(settings, ThisRun, SignatureOf(Net), neb.at, cs, job[s])
  BY DEF Known, SitesInv
<1>3. Target(s) = cs[job[s].target] /\ job[s].target \in Names(settings)
  BY <1>1 DEF Target, JobType
<1>4. Bare # Copy
  BY ConfigurationAssumption
<1>5. /\ ds \in [Names(settings) -> ClassType(settings)]
      /\ SiteInv(settings, ThisRun, SignatureOf(Net), neb'.at, ds, k)
  <2> HIDE DEF cs
  <2> QED BY <1>1, <1>2, <1>3, <1>4, TargetStep
<1>6. \A x \in Names(settings) : OriginInv(records, s, x, ds[x])
  <2>1. ds[job[s].target] = d /\ \A x \in Names(settings) : x # job[s].target => ds[x] = cs[x]
    BY <1>1, <1>3
  <2>2. \A x \in Names(settings) : OriginInv(records, s, x, cs[x])
    BY DEF Known, DatabaseInv
  <2> QED BY <2>1, <2>2
<1>7. Busy(s)
  BY DEF Busy, Calculating, Early
<1>8. run.at = "running"
  <2>1. job[s].at # "idle"
    BY DEF Calculating, Early
  <2>2. NoJobs[s].at = "idle"
    BY DEF NoJobs, IdleJob
  <2> QED BY <2>1, <2>2 DEF Known, TypeInv, SitesInv
<1>9. classes' = [classes EXCEPT ![s] = ds]
  OBVIOUS
<1> HIDE DEF ds
<1> QED BY <1>5, <1>6, <1>7, <1>8, <1>9, OneSite

---------------------------------------------------------------------------
(* The steps of a calculation, one lemma each.                             *)

\* What is known of the class that is calculated.
LEMMA AtTarget ==
  ASSUME Known, NEW s \in settings.sites, job[s].at \in Calculating
  PROVE  /\ job[s] \in JobType(settings)
         /\ Target(s) \in ClassType(settings)
         /\ job[s].target \in Names(settings) /\ job[s].env \in Names(settings)
         /\ Target(s) = classes[s][job[s].target]
         /\ ClassInv(settings, ThisRun, job[s].target, Target(s))
         /\ EvaluationInv(settings, ThisRun, SignatureOf(Net), classes[s], job[s])
         /\ CalculationInv(settings, ThisRun, neb.at, classes[s], job[s])
         /\ job[s].target = job[s].env => Rechecked(SignatureOf(Net), Target(s))
         /\ WriterInv(settings, records, job[s])
         /\ OriginInv(records, s, job[s].target, Target(s))
<1>1. job[s] \in JobType(settings) /\ classes[s] \in [Names(settings) -> ClassType(settings)]
  BY DEF Known, TypeInv
<1>2. job[s].target \in Names(settings) /\ job[s].env \in Names(settings)
  BY <1>1 DEF JobType
<1>3. Target(s) = classes[s][job[s].target] /\ Target(s) \in ClassType(settings)
  BY <1>1, <1>2 DEF Target
<1>4. SiteInv(settings, ThisRun, SignatureOf(Net), neb.at, classes[s], job[s])
  BY DEF Known, SitesInv
<1>5. /\ ClassInv(settings, ThisRun, job[s].target, Target(s))
      /\ EvaluationInv(settings, ThisRun, SignatureOf(Net), classes[s], job[s])
      /\ CalculationInv(settings, ThisRun, neb.at, classes[s], job[s])
  BY <1>2, <1>3, <1>4 DEF SiteInv, Calculating, Early
<1>6. WriterInv(settings, records, job[s]) /\ OriginInv(records, s, job[s].target, Target(s))
  BY <1>2, <1>3 DEF Known, DatabaseInv
<1> QED BY <1>1, <1>2, <1>3, <1>5, <1>6 DEF EvaluationInv

\* A step that leaves the classes alone.
LEMMA OneJob ==
  ASSUME Known, UNCHANGED <<settings, limits, network, run, records, classes>>,
         index' \in [state : {"absent", "ok", "damaged"}, rows : {index.rows}],
         NEW s \in settings.sites, job[s].at \in Calculating,
         NEW k \in JobType(settings), job' = [job EXCEPT ![s] = k],
         k.member = job[s].member, k.env = job[s].env, k.calc = job[s].calc,
         k.target = job[s].target, k.thermo = job[s].thermo, k.at \in Calculating,
         k.at \in Early => Open(Target(s)),
         k.at = "band" => /\ ~Adsorbs(settings)
                          /\ Target(s).stable = "undecided" /\ ~Target(s).latched
                          /\ neb'.at # "composite" => Admissible(Target(s)),
         job[s].at = "band" \/ neb' = neb,
         WriterInv(settings, records, k),
         k.id = job[s].id \/ job[s].id = 0
  PROVE  Known'
<1>1. classes \in [settings.sites -> [Names(settings) -> ClassType(settings)]]
  BY DEF Known, TypeInv
<1>2. classes' = [classes EXCEPT ![s] = [classes[s] EXCEPT ![job[s].target] = Target(s)]]
  BY <1>1, AtTarget
<1> QED BY <1>2, AtTarget, OneTarget

\* An index that is not touched.
LEMMA SameIndex ==
  ASSUME Known, UNCHANGED index
  PROVE  index' \in [state : {"absent", "ok", "damaged"}, rows : {index.rows}]
BY DEF Known, TypeInv

\* Only the place of the evaluation changes.
LEMMA OnePlace ==
  ASSUME Known, UNCHANGED <<settings, limits, network, run, records, index, classes>>,
         NEW s \in settings.sites, job[s].at \in Calculating \ {"document", "row"},
         NEW at \in Calculating \ {"document", "row", "rebuild"},
         job' = [job EXCEPT ![s].at = at],
         at \in Early => Open(Target(s)),
         at = "band" => /\ ~Adsorbs(settings)
                        /\ Target(s).stable = "undecided" /\ ~Target(s).latched
                        /\ neb'.at # "composite" => Admissible(Target(s)),
         job[s].at = "band" \/ neb' = neb
  PROVE  Known'
<1> DEFINE k == [job[s] EXCEPT !.at = at]
<1>1. job[s] \in JobType(settings) /\ WriterInv(settings, records, job[s])
  BY AtTarget
<1>2. /\ k \in JobType(settings)
      /\ k.at = at /\ k.member = job[s].member /\ k.env = job[s].env /\ k.calc = job[s].calc
      /\ k.target = job[s].target /\ k.thermo = job[s].thermo
      /\ k.id = job[s].id /\ k.listing = job[s].listing
  BY <1>1 DEF JobType, Places
<1>3. job' = [job EXCEPT ![s] = k]
  OBVIOUS
<1> HIDE DEF k
<1>4. WriterInv(settings, records, k)
  BY <1>1, <1>2 DEF WriterInv
<1> QED BY <1>2, <1>3, <1>4, SameIndex, OneJob

LEMMA StartStep ==
  ASSUME Known, UNCHANGED <<settings, limits>>, NEW s \in settings.sites, Start(s)
  PROVE  Known'
<1> DEFINE at == IF settings.cache /\ ThisRun.lookup THEN "lookup" ELSE "relax"
<1>1. job' = [job EXCEPT ![s].at = at] /\ job[s].at = "start"
  BY DEF Start, To
<1>2. UNCHANGED <<network, run, records, index, classes, neb>>
  BY DEF Start, cacheVars, bandVars
<1>3. job[s].at \in Calculating \ {"document", "row"} /\ job[s].at \in Early
  BY <1>1 DEF Calculating, Early
<1>4. Open(Target(s))
  BY <1>3, AtTarget DEF CalculationInv
<1>5. at \in Calculating \ {"document", "row", "rebuild"} /\ at # "band"
  BY DEF Calculating, Early
<1> HIDE DEF at
<1> QED BY <1>1, <1>2, <1>3, <1>4, <1>5, OnePlace

LEMMA RelaxEndsStep ==
  ASSUME Known, UNCHANGED <<settings, limits>>, NEW s \in settings.sites, RelaxEnds(s)
  PROVE  Known'
<1> DEFINE at == IF IsAdsorption THEN "thermo" ELSE "band"
<1>1. job' = [job EXCEPT ![s].at = at] /\ job[s].at = "relax"
  BY DEF RelaxEnds, To
<1>2. UNCHANGED <<network, run, records, index, classes, neb>>
  BY DEF RelaxEnds, cacheVars, bandVars
<1>3. job[s].at \in Calculating \ {"document", "row"} /\ job[s].at \in Early
  BY <1>1 DEF Calculating, Early
<1>4. Open(Target(s))
  BY <1>3, AtTarget DEF CalculationInv
<1>5. at \in Calculating \ {"document", "row", "rebuild"} /\ (at = "band" => ~Adsorbs(settings))
  BY DEF Calculating, Early, IsAdsorption, Adsorbs
<1> HIDE DEF at
<1> QED BY <1>1, <1>2, <1>3, <1>4, <1>5, OnePlace DEF Open

LEMMA ValidateStep ==
  ASSUME Known, UNCHANGED <<settings, limits>>, NEW s \in settings.sites, Validate(s)
  PROVE  Known'
<1>1. PICK at \in {"thermo", "invalid"} : job' = [job EXCEPT ![s].at = at]
  BY DEF Validate, ValidateDiffusion, ValidateBond, Validated, To
<1>2. job[s].at = "validate" /\ UNCHANGED <<network, run, records, index, classes, neb>>
  BY DEF Validate, ValidateDiffusion, ValidateBond, Validated, cacheVars, bandVars
<1>3. job[s].at \in Calculating \ {"document", "row"} /\ job[s].at \in Early
  BY <1>2 DEF Calculating, Early
<1>4. Open(Target(s))
  BY <1>3, AtTarget DEF CalculationInv
<1>5. at \in Calculating \ {"document", "row", "rebuild"} /\ at # "band"
  BY DEF Calculating, Early
<1> QED BY <1>1, <1>2, <1>3, <1>4, <1>5, OnePlace

LEMMA RebuildStartsStep ==
  ASSUME Known, UNCHANGED <<settings, limits>>, NEW s \in settings.sites, RebuildStarts(s)
  PROVE  Known'
<1> DEFINE k == [job[s] EXCEPT !.at = "rebuild", !.listing = Documents]
<1>1. /\ job[s].at = "lookup"
      /\ job' = [job EXCEPT ![s].at = "rebuild", ![s].listing = Documents]
      /\ UNCHANGED <<network, run, records, index, classes, neb>>
  BY DEF RebuildStarts, cacheVars, bandVars
<1>2. job[s].at \in Calculating /\ job[s].at \in Early
  BY <1>1 DEF Calculating, Early
<1>3. job[s] \in JobType(settings) /\ WriterInv(settings, records, job[s]) /\ Open(Target(s))
  BY <1>2, AtTarget DEF CalculationInv
<1>4. Documents = Documented(records) /\ Documents \subseteq 1 .. Len(records)
  BY DEF Documents, Documented
<1>5. Documents \subseteq Nat
  BY <1>4
<1>6. /\ k \in JobType(settings)
      /\ k.at = "rebuild" /\ k.member = job[s].member /\ k.env = job[s].env
      /\ k.calc = job[s].calc /\ k.target = job[s].target /\ k.thermo = job[s].thermo
      /\ k.id = job[s].id /\ k.listing = Documents
  BY <1>3, <1>5 DEF JobType, Places, Calculating, Early
<1>7. job' = [job EXCEPT ![s] = k]
  BY <1>1 DEF Known, TypeInv
<1> HIDE DEF k
<1>8. WriterInv(settings, records, k)
  BY <1>1, <1>3, <1>4, <1>6 DEF WriterInv
<1>9. k.at \in Calculating /\ k.at # "band"
  BY <1>6 DEF Calculating, Early
<1> QED BY <1>1, <1>2, <1>3, <1>6, <1>7, <1>8, <1>9, SameIndex, OneJob

LEMMA TargetNumbered ==
  ASSUME Known, NEW s \in settings.sites, job[s].at \in Calculating, job[s].target # Copy
  PROVE  Target(s).number # 0
<1>1. /\ job[s] \in JobType(settings)
      /\ EvaluationInv(settings, ThisRun, SignatureOf(Net), classes[s], job[s])
      /\ CalculationInv(settings, ThisRun, neb.at, classes[s], job[s])
      /\ Target(s) = classes[s][job[s].target]
  BY AtTarget
<1>2. job[s].calc \in {"live", "warm"}
  BY <1>1 DEF JobType
<1> QED BY <1>1, <1>2 DEF EvaluationInv, CalculationInv

\* The thermochemistry a calculation asks for.
LEMMA ThermoAsked ==
  ASSUME Known, NEW s \in settings.sites, job[s].at \in Calculating
  PROVE  /\ job[s].thermo \in {None, ThisRun.thermo}
         /\ Rated(settings, ThisRun, job[s].target) => job[s].thermo = ThisRun.thermo
<1>1. /\ job[s] \in JobType(settings)
      /\ CalculationInv(settings, ThisRun, neb.at, classes[s], job[s])
  BY AtTarget
<1>2. job[s].calc \in {"live", "warm"}
  BY <1>1 DEF JobType
<1> QED BY <1>1, <1>2 DEF CalculationInv, Rated

\* The driver moves, and the calculation stays at its band.
LEMMA StaysAtBand ==
  ASSUME Known, UNCHANGED <<settings, limits, lateralVars, cacheVars, run>>,
         NEW s \in settings.sites, job[s].at = "band", neb.at # "composite"
  PROVE  Known'
<1>1. UNCHANGED <<network, run, records, index, classes, job>>
  BY DEF lateralVars, cacheVars
<1>2. job[s].at \in Calculating \ {"document", "row"} /\ "band" \in Calculating \ {"document", "row", "rebuild"}
  BY DEF Calculating, Early
<1>3. CalculationInv(settings, ThisRun, neb.at, classes[s], job[s]) /\ Target(s) = classes[s][job[s].target]
  BY <1>2, AtTarget
<1>4. /\ ~Adsorbs(settings) /\ Target(s).stable = "undecided" /\ ~Target(s).latched
      /\ Admissible(Target(s))
  BY <1>3 DEF CalculationInv
<1>5. job[s] \in JobType(settings) /\ job' = [job EXCEPT ![s].at = "band"]
  <2>1. job \in [settings.sites -> JobType(settings)]
    BY DEF Known, TypeInv
  <2>2. [job[s] EXCEPT !.at = "band"] = job[s]
    BY <2>1 DEF JobType
  <2> QED BY <1>1, <2>1, <2>2
<1>6. "band" \notin Early
  BY DEF Early
<1> QED BY <1>1, <1>2, <1>4, <1>5, <1>6, OnePlace

LEMMA BandStartsStep ==
  ASSUME Known, UNCHANGED <<settings, limits>>, NEW s \in settings.sites,
         BandStarts(s) \/ BandMoves(s) \/ RefineFails(s)
  PROVE  Known'
<1>1. job[s].at = "band" /\ UNCHANGED <<lateralVars, cacheVars, run>>
  BY DEF BandStarts, BandMoves, RefineFails, DiffusionBand, BondBand, BandBuilt
<1>2. neb.at # "composite"
  BY DEF BandStarts, BandMoves, RefineFails, DiffusionBand, BondBand, BandBuilt, BuildBand,
    BuildFails, NebStep, Look, Step, Rollback, Converged, RefineGivesUp
<1> QED BY <1>1, <1>2, StaysAtBand

LEMMA BandRefinesStep ==
  ASSUME Known, BandInv, UNCHANGED <<settings, limits>>,
         NEW s \in settings.sites, BandRefines(s)
  PROVE  Known'
<1>1. PICK minima \in settings.found :
        LET kept == [Target(s) EXCEPT !.minima = minima, !.seen = SignatureOf(Net)]
        IN  IF Composite(Net, job[s].member, minima)
            THEN classes' = Becomes(s, Suppressed(kept)) /\ RefineComposite
            ELSE classes' = Becomes(s, kept) /\ Refine
  BY DEF BandRefines
<1>2. job[s].at = "band" /\ UNCHANGED <<network, run, records, index, job>>
  BY DEF BandRefines, cacheVars
<1>3. neb.at = "refine"
  BY <1>1 DEF RefineComposite, Refine
<1>4. job[s].at \in Calculating
  BY <1>2 DEF Calculating
<1> DEFINE kept == [Target(s) EXCEPT !.minima = minima, !.seen = SignatureOf(Net)]
           d == IF Composite(Net, job[s].member, minima) THEN Suppressed(kept) ELSE kept
<1>5. /\ Target(s) \in ClassType(settings) /\ job[s] \in JobType(settings)
      /\ ClassInv(settings, ThisRun, job[s].target, Target(s))
      /\ CalculationInv(settings, ThisRun, neb.at, classes[s], job[s])
      /\ Target(s) = classes[s][job[s].target]
      /\ WriterInv(settings, records, job[s])
      /\ OriginInv(records, s, job[s].target, Target(s))
  BY <1>4, AtTarget
<1>6. /\ ~Adsorbs(settings) /\ Target(s).stable = "undecided" /\ ~Target(s).latched
      /\ Admissible(Target(s))
  BY <1>2, <1>3, <1>5 DEF CalculationInv
<1>7. minima \in Minima(settings) /\ SignatureOf(Net) \in Signatures(settings)
  BY NetworkValues DEF Minima, Known
<1>8. /\ kept \in ClassType(settings) /\ kept.minima = minima /\ kept.seen = SignatureOf(Net)
      /\ kept.number = Target(s).number /\ kept.members = Target(s).members
      /\ kept.stable = "undecided" /\ kept.latched = FALSE /\ kept.thermo = Target(s).thermo
      /\ kept.from = Target(s).from /\ kept.status = Target(s).status
  BY <1>5, <1>6, <1>7 DEF ClassType
<1> HIDE DEF kept
<1>9. /\ d \in ClassType(settings) /\ d.minima = minima /\ d.seen = SignatureOf(Net)
      /\ d.number = Target(s).number /\ d.members = Target(s).members
      /\ d.stable = "undecided" /\ ~d.latched /\ d.thermo = Target(s).thermo
      /\ d.from = Target(s).from
      /\ Admissible(d) \/ (d.status = "composite" /\ neb'.at = "composite")
  <2>1. CASE Composite(Net, job[s].member, minima)
    <3>1. neb'.at = "composite"
      BY <1>1, <2>1 DEF RefineComposite, BandInv, BandTypeInv, NebFields
    <3> QED BY <1>8, <2>1, <3>1 DEF Suppressed, ClassType
  <2>2. CASE ~Composite(Net, job[s].member, minima)
    BY <1>6, <1>8, <2>2 DEF Admissible
  <2> QED BY <2>1, <2>2
<1>10. classes' = [classes EXCEPT ![s] = [classes[s] EXCEPT ![job[s].target] = d]]
  BY <1>1 DEF Becomes, kept
<1> HIDE DEF d
<1>11. ClassInv(settings, ThisRun, job[s].target, d)
  BY <1>4, <1>5, <1>6, <1>9, TargetNumbered DEF ClassInv
<1>12. Rechecked(SignatureOf(Net), d) /\ OriginInv(records, s, job[s].target, d)
  BY <1>5, <1>9 DEF Rechecked, OriginInv
<1>13. job' = [job EXCEPT ![s] = job[s]]
  BY <1>2 DEF Known, TypeInv
<1>14. job[s].at \notin Early
  BY <1>2 DEF Early
<1> QED
  BY <1>2, <1>4, <1>5, <1>6, <1>9, <1>10, <1>11, <1>12, <1>13, <1>14, SameIndex, OneTarget
  DEF Admissible

LEMMA BandReturnsStep ==
  ASSUME Known, UNCHANGED <<settings, limits>>, NEW s \in settings.sites, BandReturns(s)
  PROVE  Known'
<1>1. job[s].at = "band" /\ NebEnded /\ UNCHANGED <<network, run, records, index>>
  BY DEF BandReturns, cacheVars
<1>2. job[s].at \in Calculating \ {"document", "row"}
  BY <1>1 DEF Calculating
<1>3. /\ Target(s) \in ClassType(settings) /\ job[s] \in JobType(settings)
      /\ ClassInv(settings, ThisRun, job[s].target, Target(s))
      /\ CalculationInv(settings, ThisRun, neb.at, classes[s], job[s])
      /\ Target(s) = classes[s][job[s].target]
      /\ job[s].target = job[s].env => Rechecked(SignatureOf(Net), Target(s))
      /\ WriterInv(settings, records, job[s])
      /\ OriginInv(records, s, job[s].target, Target(s))
  BY <1>2, AtTarget
<1>4. /\ ~Adsorbs(settings) /\ Target(s).stable = "undecided" /\ ~Target(s).latched
      /\ neb.at # "composite" => Admissible(Target(s))
  BY <1>1, <1>3 DEF CalculationInv
<1>5. CASE neb.at = "band"
  <2> DEFINE d == [Target(s) EXCEPT !.states = @ \cup {"transition"},
                     !.minima = IF neb.refinements > 0 THEN @ ELSE {},
                     !.path = IF job[s].capture THEN job[s].member ELSE @]
             k == [job[s] EXCEPT !.at = "validate"]
  <2>1. /\ classes' = [classes EXCEPT ![s] = [classes[s] EXCEPT ![job[s].target] = d]]
        /\ job' = [job EXCEPT ![s] = k]
    BY <1>5 DEF BandReturns, Becomes, To
  <2>2. Target(s).states \cup {"transition"} \in SUBSET Parts
    BY <1>3 DEF ClassType, Parts
  <2>3. job[s].member \in Seeds(settings) /\ {} \in Minima(settings)
    BY <1>3 DEF JobType, Minima
  <2>4. /\ d \in ClassType(settings) /\ (d.minima = {} \/ d.minima = Target(s).minima)
        /\ d.seen = Target(s).seen
        /\ d.number = Target(s).number /\ d.members = Target(s).members
        /\ d.stable = Target(s).stable /\ d.latched = Target(s).latched
        /\ d.thermo = Target(s).thermo
        /\ d.from = Target(s).from /\ d.status = Target(s).status
    BY <1>3, <2>2, <2>3 DEF ClassType
  <2>5. /\ k \in JobType(settings) /\ k.at = "validate"
        /\ k.member = job[s].member /\ k.env = job[s].env /\ k.calc = job[s].calc
        /\ k.target = job[s].target /\ k.thermo = job[s].thermo
        /\ k.id = job[s].id /\ k.listing = job[s].listing
    BY <1>3 DEF JobType, Places, Calculating, Early
  <2> HIDE DEF d, k
  <2>6. Open(d)
    BY <1>4, <1>5, <2>4 DEF Open, Admissible
  <2>7. ClassInv(settings, ThisRun, job[s].target, d)
    BY <1>3, <1>4, <2>4, <2>6 DEF ClassInv
  <2>8. /\ job[s].target = job[s].env => Rechecked(SignatureOf(Net), d)
        /\ OriginInv(records, s, job[s].target, d)
    BY <1>3, <2>4 DEF Rechecked, OriginInv, Admissible
  <2>9. WriterInv(settings, records, k) /\ k.at \in Calculating /\ k.at # "band"
    BY <1>1, <1>3, <2>5 DEF WriterInv, Calculating, Early
  <2> QED
    BY <1>1, <1>2, <2>1, <2>4, <2>5, <2>6, <2>7, <2>8, <2>9, SameIndex, OneTarget
<1>6. CASE neb.at # "band"
  <2>1. neb.at \in {"notConverged", "composite"}
    BY <1>1, <1>6 DEF NebEnded
  <2>2. job' = [job EXCEPT ![s].at = neb.at] /\ classes' = classes
    BY <1>6 DEF BandReturns, To
  <2>3. neb.at \in Early => Open(Target(s))
    BY <1>4, <2>1 DEF Early, Open
  <2>4. neb.at \in Calculating \ {"document", "row", "rebuild"} /\ neb.at # "band"
    BY <2>1 DEF Calculating, Early
  <2> QED BY <1>1, <1>2, <2>2, <2>3, <2>4, OnePlace
<1> QED BY <1>5, <1>6

LEMMA RelaxStep ==
  ASSUME Known, UNCHANGED <<settings, limits>>, NEW s \in settings.sites, Relax(s)
  PROVE  Known'
<1>1. /\ job[s].at = "relax" /\ (Keeps(s) \/ ComesApart(s))
      /\ \E structure \in Parts : NextIs(s, structure)
      /\ UNCHANGED <<network, run, records, index, neb>>
  BY DEF Relax, RelaxAdsorption, RelaxEndpoints, RelaxReactants, RelaxSurfaceProduct,
    RelaxGasProduct, RelaxGasPrecursor, Relaxed, Parts, cacheVars, bandVars
<1>2. job[s].at \in Calculating \ {"document", "row"} /\ job[s].at \in Early
  BY <1>1 DEF Calculating, Early
<1>3. /\ Target(s) \in ClassType(settings) /\ job[s] \in JobType(settings)
      /\ ClassInv(settings, ThisRun, job[s].target, Target(s))
      /\ Open(Target(s))
      /\ Target(s) = classes[s][job[s].target]
      /\ job[s].target = job[s].env => Rechecked(SignatureOf(Net), Target(s))
      /\ WriterInv(settings, records, job[s])
      /\ OriginInv(records, s, job[s].target, Target(s))
  BY <1>2, AtTarget DEF CalculationInv
<1>4. CASE Keeps(s)
  <2> DEFINE d == [Target(s) EXCEPT !.states = @ \cup {Head(job[s].todo)}]
             k == [job[s] EXCEPT !.todo = Tail(@)]
  <2>1. /\ classes' = [classes EXCEPT ![s] = [classes[s] EXCEPT ![job[s].target] = d]]
        /\ job' = [job EXCEPT ![s] = k]
    BY <1>4 DEF Keeps, Becomes
  <2>2. job[s].todo \in Seq(Parts)
    BY <1>3 DEF JobType
  <2>3. Head(job[s].todo) \in Parts /\ Tail(job[s].todo) \in Seq(Parts)
    BY <1>1, <2>2 DEF NextIs
  <2>4. /\ d \in ClassType(settings) /\ d.minima = Target(s).minima /\ d.seen = Target(s).seen
        /\ d.number = Target(s).number /\ d.members = Target(s).members
        /\ d.stable = Target(s).stable /\ d.latched = Target(s).latched
        /\ d.thermo = Target(s).thermo
        /\ d.from = Target(s).from /\ d.status = Target(s).status
    BY <1>3, <2>3 DEF ClassType
  <2>5. /\ k \in JobType(settings) /\ k.at = "relax"
        /\ k.member = job[s].member /\ k.env = job[s].env /\ k.calc = job[s].calc
        /\ k.target = job[s].target /\ k.thermo = job[s].thermo
        /\ k.id = job[s].id /\ k.listing = job[s].listing
    BY <1>1, <1>3, <2>3 DEF JobType
  <2> HIDE DEF d, k
  <2>6. Open(d) /\ ClassInv(settings, ThisRun, job[s].target, d)
    BY <1>3, <2>4 DEF Open, Admissible, ClassInv
  <2>7. /\ job[s].target = job[s].env => Rechecked(SignatureOf(Net), d)
        /\ OriginInv(records, s, job[s].target, d)
    BY <1>3, <2>4 DEF Rechecked, OriginInv, Admissible
  <2>8. WriterInv(settings, records, k) /\ k.at \in Calculating /\ k.at # "band"
    BY <1>1, <1>3, <2>5 DEF WriterInv, Calculating, Early
  <2> QED
    BY <1>1, <1>2, <2>1, <2>4, <2>5, <2>6, <2>7, <2>8, SameIndex, OneTarget
<1>5. CASE ComesApart(s)
  <2>1. job' = [job EXCEPT ![s].at = "invalid"] /\ classes' = classes
    BY <1>5 DEF ComesApart, To
  <2>2. "invalid" \in Calculating \ {"document", "row", "rebuild"}
    BY DEF Calculating, Early
  <2> QED BY <1>1, <1>2, <1>3, <2>1, <2>2, OnePlace
<1> QED BY <1>1, <1>4, <1>5

LEMMA ThermoStep ==
  ASSUME Known, UNCHANGED <<settings, limits>>, NEW s \in settings.sites, Thermo(s)
  PROVE  Known'
<1>1. PICK status \in {"elementary", Target(s).status} : Finished(s, status)
  BY DEF Thermo, ThermoAdsorption, ThermoDiffusion, ThermoBond
<1>2. job[s].at = "thermo" /\ UNCHANGED <<network, run, records, index, neb>>
  BY <1>1 DEF Thermo, Finished, cacheVars, bandVars
<1>3. job[s].at \in Calculating /\ job[s].at \in Early
  BY <1>2 DEF Calculating, Early
<1>4. /\ Target(s) \in ClassType(settings) /\ job[s] \in JobType(settings)
      /\ ClassInv(settings, ThisRun, job[s].target, Target(s))
      /\ Open(Target(s))
      /\ Target(s) = classes[s][job[s].target]
      /\ job[s].target = job[s].env => Rechecked(SignatureOf(Net), Target(s))
      /\ WriterInv(settings, records, job[s])
      /\ OriginInv(records, s, job[s].target, Target(s))
  BY <1>3, AtTarget DEF CalculationInv
<1> DEFINE d == [Target(s) EXCEPT !.stable = "stable", !.status = status,
                   !.thermo = IF Wanted(s) THEN job[s].thermo ELSE @]
           at == IF settings.cache THEN "assets" ELSE "ok"
           k == [job[s] EXCEPT !.at = at]
<1>5. /\ classes' = [classes EXCEPT ![s] = [classes[s] EXCEPT ![job[s].target] = d]]
      /\ job' = [job EXCEPT ![s] = k]
  BY <1>1 DEF Finished, Becomes, To
<1>6. /\ d \in ClassType(settings) /\ d.minima = Target(s).minima /\ d.seen = Target(s).seen
      /\ d.number = Target(s).number /\ d.members = Target(s).members
      /\ d.stable = "stable" /\ d.latched = Target(s).latched
      /\ d.thermo = IF Wanted(s) THEN job[s].thermo ELSE Target(s).thermo
      /\ d.from = Target(s).from /\ Admissible(d)
  <2>1. job[s].thermo \in Thermos(settings)
    BY <1>4 DEF JobType
  <2> QED BY <1>4, <2>1 DEF ClassType, Open, Admissible
<1>7. /\ k \in JobType(settings) /\ k.at \in {"assets", "ok"}
      /\ k.member = job[s].member /\ k.env = job[s].env /\ k.calc = job[s].calc
      /\ k.target = job[s].target /\ k.thermo = job[s].thermo
      /\ k.id = job[s].id /\ k.listing = job[s].listing
  BY <1>4 DEF JobType, Places, Calculating, Early
<1> HIDE DEF d, k
<1>8. /\ d.thermo \in {None, ThisRun.thermo}
      /\ Rated(settings, ThisRun, job[s].target) => d.thermo = ThisRun.thermo
  BY <1>3, <1>4, <1>6, ThermoAsked DEF Wanted, ClassInv
<1>9. ClassInv(settings, ThisRun, job[s].target, d)
  BY <1>3, <1>4, <1>6, <1>8, TargetNumbered DEF ClassInv, Open
<1>10. /\ job[s].target = job[s].env => Rechecked(SignatureOf(Net), d)
       /\ OriginInv(records, s, job[s].target, d)
  BY <1>4, <1>6 DEF Rechecked, OriginInv, Open
<1>11. WriterInv(settings, records, k) /\ k.at \in Calculating /\ k.at # "band" /\ k.at \notin Early
  BY <1>2, <1>4, <1>7 DEF WriterInv, Calculating, Early
<1> QED
  BY <1>2, <1>3, <1>5, <1>6, <1>7, <1>9, <1>10, <1>11, SameIndex, OneTarget

---------------------------------------------------------------------------
(* The newest record of a set, and what a lookup finds.                    *)

\* Every set of natural numbers that is not empty has a least element.
LEMMA LeastExists ==
  ASSUME NEW S, S \subseteq Nat, S # {}
  PROVE  \E m \in S : \A k \in S : m <= k
<1> DEFINE R == {ss \in Nat \X Nat : ss[1] < ss[2]}
<1>1. IsWellFoundedOn(R, Nat)
  BY NatLessThanWellFounded DEF OpToRel
<1>2. PICK x \in S : \A y \in S : ~(<<y, x>> \in R)
  <2> HIDE DEF R
  <2> QED BY <1>1, WFMin
<1>3. ASSUME NEW k \in S PROVE x <= k
  <2>1. ~(k < x)
    BY <1>2
  <2> QED BY <2>1
<1> QED BY <1>3

\* Every bounded set of natural numbers has a greatest element.
LEMMA GreatestExists ==
  ASSUME NEW S, NEW n \in Nat, S \subseteq 0 .. n, S # {}
  PROVE  \E m \in S : \A k \in S : m >= k
<1> DEFINE D == {n - x : x \in S}
<1>1. D \subseteq Nat
  OBVIOUS
<1>2. PICK d \in D : \A e \in D : d <= e
  <2>1. D # {}
    OBVIOUS
  <2> HIDE DEF D
  <2> QED BY <1>1, <2>1, LeastExists
<1>3. PICK m \in S : d = n - m
  OBVIOUS
<1>4. ASSUME NEW k \in S PROVE m >= k
  <2>1. d <= n - k
    BY <1>2
  <2> QED BY <2>1, <1>3
<1> QED BY <1>4

LEMMA NewestIn ==
  ASSUME NEW ids, NEW n \in Nat, ids \subseteq 0 .. n, ids # {}
  PROVE  Newest(ids) \in ids /\ \A id \in ids : id <= Newest(ids)
<1>1. \E m \in ids : \A k \in ids : k <= m
  <2>1. PICK m \in ids : \A k \in ids : m >= k
    BY GreatestExists
  <2>2. \A k \in ids : k <= m
    BY <2>1
  <2> QED BY <2>2
<1> QED BY <1>1 DEF Newest

\* What a lookup finds is a whole record of the same site and surroundings;
\* unless the match is electronic only, its thermochemistry is the one asked
\* for.
LEMMA FoundRecord ==
  ASSUME TypeInv, NEW q, Found(q) # Miss
  PROVE  /\ Found(q).id \in index.rows /\ Found(q).id \in 1 .. Len(records)
         /\ records[Found(q).id] \in RecordType(settings)
         /\ records[Found(q).id].state = "whole"
         /\ records[Found(q).id].site = q.site /\ records[Found(q).id].env = q.env
         /\ Found(q).match # "electronic" => records[Found(q).id].thermo = q.thermo
<1>1. index.rows \subseteq 1 .. Len(records) /\ Len(records) \in Nat
  BY DEF TypeInv
<1>2. ASSUME NEW rows, rows \subseteq index.rows, Usable(rows) # {}
      PROVE  /\ Newest(Usable(rows)) \in rows
             /\ records[Newest(Usable(rows))].state = "whole"
  <2>1. Usable(rows) \subseteq 0 .. Len(records)
    BY <1>1, <1>2 DEF Usable
  <2>2. Newest(Usable(rows)) \in Usable(rows)
    BY <1>1, <1>2, <2>1, NewestIn
  <2> QED BY <2>2 DEF Usable, Verified
<1>3. ExactRows(q) \subseteq index.rows /\ PortableRows(q) \subseteq index.rows
      /\ ElectronicRows(q) \subseteq index.rows
  BY DEF ExactRows, PortableRows, ElectronicRows
<1>4. ASSUME NEW id
      PROVE  /\ id \in ExactRows(q) => /\ records[id].site = q.site /\ records[id].env = q.env
                                       /\ records[id].thermo = q.thermo
             /\ id \in PortableRows(q) => /\ records[id].site = q.site /\ records[id].env = q.env
                                          /\ records[id].thermo = q.thermo
             /\ id \in ElectronicRows(q) => records[id].site = q.site /\ records[id].env = q.env
  BY DEF ExactRows, PortableRows, ElectronicRows, Key, PortableKey, ElectronicKey
<1>5. /\ Found(q).id \in index.rows
      /\ records[Found(q).id].state = "whole"
      /\ records[Found(q).id].site = q.site /\ records[Found(q).id].env = q.env
      /\ Found(q).match # "electronic" => records[Found(q).id].thermo = q.thermo
  <2>1. CASE Usable(ExactRows(q)) # {}
    <3>1. Found(q) = [id |-> Newest(Usable(ExactRows(q))), match |-> "exact"]
      BY <2>1 DEF Found
    <3> QED BY <1>2, <1>3, <1>4, <2>1, <3>1
  <2>2. CASE Usable(ExactRows(q)) = {} /\ Usable(PortableRows(q)) # {}
    <3>1. Found(q) = [id |-> Newest(Usable(PortableRows(q))), match |-> "portable"]
      BY <2>2 DEF Found
    <3> QED BY <1>2, <1>3, <1>4, <2>2, <3>1
  <2>3. CASE /\ Usable(ExactRows(q)) = {} /\ Usable(PortableRows(q)) = {}
             /\ Usable(ElectronicRows(q)) # {}
    <3>1. Found(q) = [id |-> Newest(Usable(ElectronicRows(q))), match |-> "electronic"]
      BY <2>3 DEF Found
    <3> QED BY <1>2, <1>3, <1>4, <2>3, <3>1
  <2>4. CASE /\ Usable(ExactRows(q)) = {} /\ Usable(PortableRows(q)) = {}
             /\ Usable(ElectronicRows(q)) = {}
    BY <2>4 DEF Found
  <2> QED BY <2>1, <2>2, <2>3, <2>4
<1> QED BY <1>1, <1>5 DEF TypeInv

\* What a hit puts on the class.
LEMMA HydratedClass ==
  ASSUME Known, NEW s \in settings.sites, job[s].at = "lookup", Found(Request(s)) # Miss,
         NEW h, h = Hydrated(Target(s), Found(Request(s)).id, Found(Request(s)).match)
  PROVE  /\ h \in ClassType(settings)
         /\ h.number = Target(s).number /\ h.members = Target(s).members
         /\ h.stable = "stable" /\ ~h.latched /\ Admissible(h)
         /\ h.thermo \in {None, ThisRun.thermo}
         /\ Complete(Found(Request(s)).match, Wanted(s)) /\ Rated(settings, ThisRun, job[s].target)
              => h.thermo = ThisRun.thermo
         /\ Adsorbs(settings) => h.minima = {}
         /\ OriginInv(records, s, job[s].target, h)
<1> DEFINE hit == Found(Request(s))
           r == records[hit.id]
<1>1. job[s].at \in Calculating /\ job[s].at \in Early
  BY DEF Calculating, Early
<1>2. /\ Target(s) \in ClassType(settings) /\ job[s] \in JobType(settings)
      /\ ClassInv(settings, ThisRun, job[s].target, Target(s))
      /\ Open(Target(s))
  BY <1>1, AtTarget DEF CalculationInv
<1>3. /\ hit.id \in 1 .. Len(records) /\ r \in RecordType(settings) /\ r.state = "whole"
      /\ r.site = s /\ r.env = IF job[s].target = Copy THEN Bare ELSE job[s].target
      /\ hit.match # "electronic" => r.thermo = job[s].thermo
  BY FoundRecord DEF Known, Request
<1>4. Needed \in SUBSET Parts
  BY DEF Needed, Parts
<1>5. Adsorbs(settings) => r.minima = {}
  BY <1>3 DEF Known, DatabaseInv, RecordsInv
<1>6. hit.id \in Nat /\ r.minima \in Minima(settings) /\ r.seen \in Signatures(settings)
      /\ r.thermo \in Thermos(settings) /\ None \in Thermos(settings)
  BY <1>3, NoneTyped DEF RecordType
<1> DEFINE id == hit.id
           match == hit.match
           status == IF IsAdsorption THEN Target(s).status ELSE "elementary"
           thermo == IF match = "electronic" THEN None ELSE r.thermo
           minima == IF r.minima = {} THEN Target(s).minima ELSE r.minima
           seen == IF r.seen = None THEN Target(s).seen ELSE r.seen
<1>7. h = [Target(s) EXCEPT !.states = Needed, !.stable = "stable", !.from = id,
             !.status = status, !.thermo = thermo, !.minima = minima, !.seen = seen]
  <2>1. /\ [Target(s) EXCEPT !.states = Needed, !.stable = "stable", !.from = id].status
             = Target(s).status
        /\ Target(s).minima = [Target(s) EXCEPT !.states = Needed, !.stable = "stable",
             !.from = id, !.status = status, !.thermo = thermo].minima
        /\ Target(s).seen = [Target(s) EXCEPT !.states = Needed, !.stable = "stable",
             !.from = id, !.status = status, !.thermo = thermo, !.minima = minima].seen
    BY <1>2 DEF ClassType
  <2> QED BY <2>1 DEF Hydrated
<1>8. id = hit.id /\ match = hit.match
  OBVIOUS
<1>9. /\ id \in Nat /\ status \in {"none", "elementary", "composite"}
      /\ thermo \in Thermos(settings) /\ minima \in Minima(settings)
      /\ seen \in Signatures(settings)
  BY <1>2, <1>6 DEF ClassType
<1> HIDE DEF hit, r, id, match, status, thermo, minima, seen
<1>10. /\ h \in ClassType(settings)
       /\ h.number = Target(s).number /\ h.members = Target(s).members
       /\ h.stable = "stable" /\ h.latched = Target(s).latched /\ h.from = id
       /\ h.status \in {Target(s).status, "elementary"}
       /\ h.thermo = IF match = "electronic" THEN None ELSE r.thermo
       /\ h.minima \in {Target(s).minima, r.minima}
  <2>1. /\ h \in ClassType(settings)
        /\ h.number = Target(s).number /\ h.members = Target(s).members
        /\ h.stable = "stable" /\ h.latched = Target(s).latched /\ h.from = id
        /\ h.status = status /\ h.thermo = thermo /\ h.minima = minima
    <3> DEFINE c == Target(s)
    <3>1. c \in ClassType(settings)
      BY <1>2
    <3>2. h = [c EXCEPT !.states = Needed, !.stable = "stable", !.from = id,
                 !.status = status, !.thermo = thermo, !.minima = minima, !.seen = seen]
      BY <1>7
    <3> HIDE DEF c
    <3>3. h = [number |-> c.number, members |-> c.members, status |-> status,
               stable |-> "stable", states |-> Needed, thermo |-> thermo,
               latched |-> c.latched, path |-> c.path, minima |-> minima, seen |-> seen,
               from |-> id]
      BY <3>1, <3>2 DEF ClassType
    <3>4. /\ c.number \in Nat /\ c.members \in SUBSET settings.members
          /\ c.latched \in BOOLEAN /\ c.path \in Seeds(settings)
      BY <3>1 DEF ClassType
    <3>5. h \in ClassType(settings)
      BY <1>4, <1>9, <3>3, <3>4 DEF ClassType
    <3> QED BY <3>3, <3>5 DEF c
  <2> QED BY <2>1 DEF status, thermo, minima
<1>11. h.thermo \in {None, job[s].thermo}
  BY <1>3, <1>8, <1>10
<1>12. Complete(match, Wanted(s)) => h.thermo = job[s].thermo
  BY <1>3, <1>8, <1>10 DEF Complete, Wanted
<1>13. OriginInv(records, s, job[s].target, h)
  BY <1>3, <1>8, <1>10 DEF OriginInv, r
<1>14. Complete(hit.match, Wanted(s)) /\ Rated(settings, ThisRun, job[s].target)
         => h.thermo = ThisRun.thermo
  BY <1>1, <1>8, <1>12, ThermoAsked
<1>15. h.thermo \in {None, ThisRun.thermo}
  BY <1>1, <1>11, ThermoAsked
<1> QED BY <1>2, <1>5, <1>10, <1>13, <1>14, <1>15 DEF ClassInv, Open, Admissible, hit

\* The lookup leaves d on the class.
LEMMA HitStep ==
  ASSUME Known, UNCHANGED <<settings, limits, network, run, records, index, neb>>,
         NEW s \in settings.sites, job[s].at = "lookup",
         NEW d \in ClassType(settings), d.number = Target(s).number,
         d.members = Target(s).members,
         NEW at \in {"ok", "thermo", "relax", "composite"},
         classes' = Becomes(s, d), job' = To(s, at),
         ClassInv(settings, ThisRun, job[s].target, d),
         job[s].target = job[s].env => Rechecked(SignatureOf(Net), d),
         at \in {"thermo", "relax"} => Open(d),
         OriginInv(records, s, job[s].target, d)
  PROVE  Known'
<1> DEFINE k == [job[s] EXCEPT !.at = at]
<1>1. job[s].at \in Calculating
  BY DEF Calculating, Early
<1>2. job[s] \in JobType(settings) /\ WriterInv(settings, records, job[s])
  BY <1>1, AtTarget
<1>3. /\ classes' = [classes EXCEPT ![s] = [classes[s] EXCEPT ![job[s].target] = d]]
      /\ job' = [job EXCEPT ![s] = k]
  BY DEF Becomes, To
<1>4. /\ k \in JobType(settings) /\ k.at = at
      /\ k.member = job[s].member /\ k.env = job[s].env /\ k.calc = job[s].calc
      /\ k.target = job[s].target /\ k.thermo = job[s].thermo
      /\ k.id = job[s].id /\ k.listing = job[s].listing
  BY <1>2 DEF JobType, Places, Calculating, Early
<1> HIDE DEF k
<1>5. /\ WriterInv(settings, records, k)
      /\ k.at \in Calculating /\ k.at # "band"
      /\ k.at \in Early => k.at \in {"thermo", "relax"}
  BY <1>2, <1>4 DEF WriterInv, Calculating, Early
<1> QED BY <1>1, <1>3, <1>4, <1>5, SameIndex, OneTarget

LEMMA AdsorptionHitStep ==
  ASSUME Known, UNCHANGED <<settings, limits, network, run, records, index, neb>>,
         NEW s \in settings.sites, job[s].at = "lookup", Found(Request(s)) # Miss,
         AdsorptionHit(s, Found(Request(s)))
  PROVE  Known'
<1> DEFINE hit == Found(Request(s))
           h == Hydrated(Target(s), hit.id, hit.match)
           u == [h EXCEPT !.stable = "undecided"]
<1>1. job[s].at \in Calculating
  BY DEF Calculating, Early
<1>2. Adsorbs(settings)
  BY DEF AdsorptionHit, IsAdsorption, Adsorbs
<1>3. /\ h \in ClassType(settings)
      /\ h.number = Target(s).number /\ h.members = Target(s).members
      /\ h.stable = "stable" /\ ~h.latched /\ Admissible(h)
      /\ h.thermo \in {None, ThisRun.thermo}
      /\ Complete(hit.match, Wanted(s)) /\ Rated(settings, ThisRun, job[s].target)
           => h.thermo = ThisRun.thermo
      /\ h.minima = {}
      /\ OriginInv(records, s, job[s].target, h)
  BY <1>2, HydratedClass
<1>4. /\ Complete(hit.match, Wanted(s)) => classes' = Becomes(s, h) /\ job' = To(s, "ok")
      /\ ~Complete(hit.match, Wanted(s)) => classes' = Becomes(s, u) /\ job' = To(s, "thermo")
  BY DEF AdsorptionHit
<1> HIDE DEF h, hit
<1>5. /\ u \in ClassType(settings) /\ u.number = h.number /\ u.members = h.members
      /\ u.stable = "undecided" /\ u.latched = h.latched /\ u.status = h.status
      /\ u.thermo = h.thermo /\ u.minima = h.minima /\ u.from = h.from
  BY <1>3 DEF ClassType
<1> HIDE DEF u
<1>6. CASE Complete(hit.match, Wanted(s))
  <2>1. ClassInv(settings, ThisRun, job[s].target, h)
    BY <1>1, <1>3, <1>6, TargetNumbered DEF ClassInv
  <2>2. Rechecked(SignatureOf(Net), h)
    BY <1>3 DEF Rechecked
  <2> QED BY <1>3, <1>4, <1>6, <2>1, <2>2, HitStep
<1>7. CASE ~Complete(hit.match, Wanted(s))
  <2>1. ClassInv(settings, ThisRun, job[s].target, u) /\ Open(u)
    BY <1>3, <1>5 DEF ClassInv, Open, Admissible
  <2>2. Rechecked(SignatureOf(Net), u) /\ OriginInv(records, s, job[s].target, u)
    BY <1>3, <1>5 DEF Rechecked, OriginInv
  <2> QED BY <1>3, <1>4, <1>5, <1>7, <2>1, <2>2, HitStep
<1> QED BY <1>6, <1>7

LEMMA TransitionHitStep ==
  ASSUME Known, UNCHANGED <<settings, limits, network, run, records, index, neb>>,
         NEW s \in settings.sites, job[s].at = "lookup", Found(Request(s)) # Miss,
         ~Adsorbs(settings), TransitionHit(s, Found(Request(s)))
  PROVE  Known'
<1> DEFINE hit == Found(Request(s))
           j == job[s]
           h == Hydrated(Target(s), hit.id, hit.match)
           sig == SignatureOf(Net)
           checked == [h EXCEPT !.seen = sig]
           done == [checked EXCEPT !.path = IF j.capture THEN j.member ELSE @]
           FromHit(c) == /\ c \in ClassType(settings) /\ c.number = h.number
                         /\ c.members = h.members /\ c.latched = h.latched
                         /\ c.thermo = h.thermo /\ c.minima = h.minima /\ c.from = h.from
                         /\ c.seen = sig
<1>1. job[s].at \in Calculating
  BY DEF Calculating, Early
<1>2. /\ h \in ClassType(settings)
      /\ h.number = Target(s).number /\ h.members = Target(s).members
      /\ h.stable = "stable" /\ ~h.latched /\ Admissible(h)
      /\ h.thermo \in {None, ThisRun.thermo}
      /\ Complete(hit.match, Wanted(s)) /\ Rated(settings, ThisRun, j.target)
           => h.thermo = ThisRun.thermo
      /\ OriginInv(records, s, j.target, h)
  BY HydratedClass
<1>3. sig \in Signatures(settings) /\ j \in JobType(settings)
  BY <1>1, NetworkValues, AtTarget DEF Known
<1>4. j.member \in Seeds(settings)
  BY <1>3 DEF JobType
<1>5. \/ classes' = Becomes(s, Suppressed(checked)) /\ job' = To(s, "composite")
      \/ classes' = Becomes(s, [checked EXCEPT !.stable = "undecided"]) /\ job' = To(s, "relax")
      \/ /\ Complete(hit.match, Wanted(s))
         /\ classes' = Becomes(s, done) /\ job' = To(s, "ok")
      \/ classes' = Becomes(s, [done EXCEPT !.stable = "undecided"]) /\ job' = To(s, "thermo")
  BY DEF TransitionHit
<1> HIDE DEF h, hit, j, sig
<1>6. FromHit(checked) /\ checked.stable = "stable" /\ checked.status = h.status
  BY <1>2, <1>3 DEF ClassType
<1>7. FromHit(done) /\ done.stable = "stable" /\ done.status = h.status
  <2> HIDE DEF checked
  <2>1. IF j.capture THEN j.member \in Seeds(settings) ELSE checked.path \in Seeds(settings)
    BY <1>4, <1>6 DEF ClassType
  <2> QED BY <1>6, <2>1 DEF ClassType
<1> HIDE DEF checked, done
<1>8. ASSUME NEW c, FromHit(c)
      PROVE  /\ j.target = j.env => Rechecked(sig, c)
             /\ OriginInv(records, s, j.target, c)
             /\ c.number = Target(s).number /\ c.members = Target(s).members
             /\ c.stable = "undecided" \/ (Complete(hit.match, Wanted(s)) /\ c.stable = "stable")
                  => ClassInv(settings, ThisRun, j.target, c)
             /\ c.stable = "undecided" /\ Admissible(c) => Open(c)
  <2>1. Target(s).number # 0 \/ j.target = Copy
    BY <1>1, TargetNumbered DEF j
  <2> QED BY <1>2, <1>8, <2>1 DEF Rechecked, OriginInv, ClassInv, Open
<1>9. ASSUME NEW c, FromHit(c), c.status = h.status
      PROVE  LET d == [c EXCEPT !.stable = "undecided"]
             IN  FromHit(d) /\ d.stable = "undecided" /\ d.status = h.status
  BY <1>9 DEF ClassType
<1>10. FromHit(Suppressed(checked)) /\ Suppressed(checked).stable = "undecided"
  BY <1>6 DEF Suppressed, ClassType
<1>11. CASE classes' = Becomes(s, Suppressed(checked)) /\ job' = To(s, "composite")
  <2> DEFINE d == Suppressed(checked)
  <2>1. FromHit(d) /\ d.stable = "undecided"
    BY <1>10
  <2> HIDE DEF d
  <2>2. /\ j.target = j.env => Rechecked(sig, d)
        /\ OriginInv(records, s, j.target, d)
        /\ d.number = Target(s).number /\ d.members = Target(s).members
        /\ ClassInv(settings, ThisRun, j.target, d)
    BY <1>8, <2>1
  <2>3. classes' = Becomes(s, d) /\ job' = To(s, "composite") /\ d \in ClassType(settings)
    BY <1>11, <2>1 DEF d
  <2> HIDE DEF FromHit
  <2> QED BY <2>2, <2>3, HitStep DEF j, sig
<1>12. ASSUME NEW c, FromHit(c), c.status = h.status, NEW at \in {"relax", "thermo"},
              classes' = Becomes(s, [c EXCEPT !.stable = "undecided"]), job' = To(s, at)
       PROVE  Known'
  <2> DEFINE d == [c EXCEPT !.stable = "undecided"]
  <2>1. FromHit(d) /\ d.stable = "undecided" /\ d.status = h.status
    BY <1>9, <1>12
  <2> HIDE DEF d
  <2>2. Admissible(d)
    BY <1>2, <2>1 DEF Admissible
  <2>3. /\ j.target = j.env => Rechecked(sig, d)
        /\ OriginInv(records, s, j.target, d)
        /\ d.number = Target(s).number /\ d.members = Target(s).members
        /\ ClassInv(settings, ThisRun, j.target, d) /\ Open(d)
    BY <1>8, <2>1, <2>2
  <2>4. classes' = Becomes(s, d) /\ job' = To(s, at) /\ d \in ClassType(settings)
    BY <1>12, <2>1 DEF d
  <2> HIDE DEF FromHit
  <2> QED BY <2>3, <2>4, HitStep DEF j, sig
<1>13. CASE /\ Complete(hit.match, Wanted(s))
            /\ classes' = Becomes(s, done) /\ job' = To(s, "ok")
  <2>1. /\ j.target = j.env => Rechecked(sig, done)
        /\ OriginInv(records, s, j.target, done)
        /\ done.number = Target(s).number /\ done.members = Target(s).members
        /\ ClassInv(settings, ThisRun, j.target, done)
        /\ done \in ClassType(settings)
    BY <1>7, <1>8, <1>13
  <2> HIDE DEF FromHit
  <2> QED BY <1>13, <2>1, HitStep DEF j, sig
<1> HIDE DEF FromHit
<1> QED BY <1>5, <1>6, <1>7, <1>11, <1>12, <1>13 DEF FromHit

LEMMA LookupHitsStep ==
  ASSUME Known, UNCHANGED <<settings, limits>>, NEW s \in settings.sites, LookupHits(s)
  PROVE  Known'
<1>1. job[s].at = "lookup" /\ UNCHANGED <<network, run, records, index, neb>>
  BY DEF LookupHits, cacheVars, bandVars
<1>2. Found(Request(s)) # Miss
  BY DEF LookupHits
<1>3. CASE AdsorptionHit(s, Found(Request(s)))
  BY <1>1, <1>2, <1>3, AdsorptionHitStep
<1>4. CASE DiffusionHit(s, Found(Request(s))) \/ BondHit(s, Found(Request(s)))
  BY <1>1, <1>2, <1>4, TransitionHitStep DEF DiffusionHit, BondHit, IsDiffusion, IsBond, Adsorbs
<1>5. CASE SpectatorsMoved(s)
  <2> DEFINE d == Fresh(Target(s).number, Target(s).members)
  <2>1. job[s].at \in Calculating
    BY <1>1 DEF Calculating, Early
  <2>2. Target(s) \in ClassType(settings)
    BY <2>1, AtTarget
  <2>3. Target(s).number \in Nat /\ Target(s).members \in SUBSET settings.members
    BY <2>2 DEF ClassType
  <2>4. d \in ClassType(settings)
    BY <2>3, FreshTyped
  <2>5. /\ d.number = Target(s).number /\ d.members = Target(s).members
        /\ d.stable = "undecided" /\ d.latched = FALSE /\ d.status = "none" /\ d.thermo = None
        /\ d.minima = {} /\ d.from = 0
    BY DEF Fresh
  <2>6. classes' = Becomes(s, d) /\ job' = To(s, "relax")
    BY <1>5 DEF SpectatorsMoved
  <2> HIDE DEF d
  <2>7. /\ ClassInv(settings, ThisRun, job[s].target, d) /\ Open(d)
        /\ Rechecked(SignatureOf(Net), d) /\ OriginInv(records, s, job[s].target, d)
    BY <2>5 DEF ClassInv, Open, Admissible, Rechecked, OriginInv
  <2> QED BY <1>1, <2>4, <2>5, <2>6, <2>7, HitStep
<1> QED BY <1>3, <1>4, <1>5 DEF LookupHits

LEMMA LookupMissesStep ==
  ASSUME Known, UNCHANGED <<settings, limits>>, NEW s \in settings.sites, LookupMisses(s)
  PROVE  Known'
<1> DEFINE k == [job[s] EXCEPT !.at = "relax"]
<1>1. /\ job[s].at = "lookup" /\ UNCHANGED <<network, run, records, classes, neb>>
      /\ index' = [index EXCEPT !.state = "ok"]
      /\ job' = [job EXCEPT ![s] = k]
  BY DEF LookupMisses, cacheVars, bandVars, Opened, To
<1>2. job[s].at \in Calculating /\ job[s].at \in Early
  BY <1>1 DEF Calculating, Early
<1>3. job[s] \in JobType(settings) /\ WriterInv(settings, records, job[s]) /\ Open(Target(s))
  BY <1>2, AtTarget DEF CalculationInv
<1>4. /\ k \in JobType(settings) /\ k.at = "relax"
      /\ k.member = job[s].member /\ k.env = job[s].env /\ k.calc = job[s].calc
      /\ k.target = job[s].target /\ k.thermo = job[s].thermo
      /\ k.id = job[s].id /\ k.listing = job[s].listing
  BY <1>3 DEF JobType, Places, Calculating, Early
<1>5. index' \in [state : {"absent", "ok", "damaged"}, rows : {index.rows}]
  BY <1>1 DEF Known, TypeInv
<1> HIDE DEF k
<1>6. WriterInv(settings, records, k) /\ k.at \in Calculating /\ k.at # "band"
  BY <1>1, <1>3, <1>4 DEF WriterInv, Calculating, Early
<1> QED BY <1>1, <1>2, <1>3, <1>4, <1>5, <1>6, OneJob

---------------------------------------------------------------------------
(* Classification.                                                         *)

LEMMA NumberedClass ==
  ASSUME TypeInv, NEW r, NEW cs \in [Names(settings) -> ClassType(settings)],
         NEW x \in Names(settings), ClassInv(settings, r, x, cs[x])
  PROVE  /\ Numbered(cs, x) \in ClassType(settings)
         /\ ClassInv(settings, r, x, Numbered(cs, x))
         /\ Numbered(cs, x).number # 0
         /\ Numbered(cs, x).from \in {0, cs[x].from}
         /\ cs[x].number # 0 => Numbered(cs, x) = cs[x]
<1>1. Cardinality(Made(cs)) \in Nat
  <2>1. IsFiniteSet(settings.envs)
    BY ConfigurationAssumption DEF TypeInv, HasLimits
  <2>2. IsFiniteSet((settings.envs \cup {Bare}) \cup {Copy})
    BY <2>1, FS_AddElement
  <2>3. IsFiniteSet(ClassNames)
    <3>1. ClassNames = (settings.envs \cup {Bare}) \cup {Copy}
      BY DEF ClassNames
    <3> QED BY <2>2, <3>1
  <2>4. Made(cs) \subseteq ClassNames
    BY DEF Made
  <2> QED BY <2>3, <2>4, FS_Subset, FS_CardinalityType
<1>2. CASE cs[x].number # 0
  BY <1>2 DEF Numbered
<1>3. CASE cs[x].number = 0
  <2> DEFINE n == Cardinality(Made(cs)) + 1
  <2>1. Numbered(cs, x) = Fresh(n, {}) /\ n \in Nat /\ n # 0
    BY <1>1, <1>3 DEF Numbered
  <2> HIDE DEF n
  <2>2. Fresh(n, {}) \in ClassType(settings)
    BY <2>1, FreshTyped
  <2> QED BY <1>3, <2>1, <2>2 DEF Fresh, ClassInv
<1> QED BY <1>2, <1>3

LEMMA JoinedClasses ==
  ASSUME TypeInv, NEW r, NEW cs \in [Names(settings) -> ClassType(settings)],
         \A x \in Names(settings) : ClassInv(settings, r, x, cs[x]),
         NEW m \in settings.members, NEW env \in Names(settings), env # Copy
  PROVE  /\ Joined(cs, m, env) \in [Names(settings) -> ClassType(settings)]
         /\ \A x \in Names(settings) :
              /\ ClassInv(settings, r, x, Joined(cs, m, env)[x])
              /\ Joined(cs, m, env)[x].from \in {0, cs[x].from}
              /\ cs[x].number # 0 => Joined(cs, m, env)[x].number # 0
         /\ Joined(cs, m, env)[env].number # 0
         /\ m \in Joined(cs, m, env)[env].members
<1> DEFINE js == Joined(cs, m, env)
<1>1. js = [x \in Names(settings) |->
              IF x = env THEN [Numbered(cs, x) EXCEPT !.members = @ \cup {m}]
              ELSE IF x = Copy THEN cs[x] ELSE [cs[x] EXCEPT !.members = @ \ {m}]]
  BY NamesOfClasses DEF Joined
<1>2. ASSUME NEW x \in Names(settings)
      PROVE  /\ js[x] \in ClassType(settings)
             /\ ClassInv(settings, r, x, js[x])
             /\ js[x].from \in {0, cs[x].from}
             /\ cs[x].number # 0 => js[x].number # 0
             /\ x = env => js[x].number # 0 /\ m \in js[x].members
  <2>1. CASE x = env
    <3> DEFINE n == Numbered(cs, x)
    <3>1. /\ n \in ClassType(settings) /\ ClassInv(settings, r, x, n)
          /\ n.number # 0 /\ n.from \in {0, cs[x].from}
      BY NumberedClass
    <3>2. js[x] = [n EXCEPT !.members = @ \cup {m}]
      BY <1>1, <2>1
    <3> HIDE DEF n, js
    <3>3. n.members \cup {m} \in SUBSET settings.members
      BY <3>1 DEF ClassType
    <3>4. /\ js[x] \in ClassType(settings) /\ js[x].members = n.members \cup {m}
          /\ js[x].number = n.number /\ js[x].from = n.from /\ js[x].stable = n.stable
          /\ js[x].latched = n.latched /\ js[x].status = n.status
          /\ js[x].thermo = n.thermo /\ js[x].minima = n.minima
      BY <3>1, <3>2, <3>3 DEF ClassType
    <3> QED BY <3>1, <3>4 DEF ClassInv, Open, Admissible
  <2>2. CASE x # env /\ x = Copy
    BY <1>1, <2>2
  <2>3. CASE x # env /\ x # Copy
    <3>1. js[x] = [cs[x] EXCEPT !.members = @ \ {m}]
      BY <1>1, <2>3
    <3> HIDE DEF js
    <3>2. cs[x].members \ {m} \in SUBSET settings.members
      BY DEF ClassType
    <3>3. /\ js[x] \in ClassType(settings)
          /\ js[x].number = cs[x].number /\ js[x].from = cs[x].from /\ js[x].stable = cs[x].stable
          /\ js[x].latched = cs[x].latched /\ js[x].status = cs[x].status
          /\ js[x].thermo = cs[x].thermo /\ js[x].minima = cs[x].minima
      BY <3>1, <3>2 DEF ClassType
    <3> QED BY <2>3, <3>3 DEF ClassInv, Open, Admissible
  <2> QED BY <2>1, <2>2, <2>3
<1>3. js \in [Names(settings) -> ClassType(settings)]
  <2>1. js = [x \in Names(settings) |-> js[x]]
    BY <1>1
  <2> HIDE DEF js
  <2> QED BY <1>2, <2>1
<1> QED BY <1>2, <1>3

LEMMA ReclassifiedClass ==
  ASSUME TypeInv, NEW r, NEW x \in Names(settings), NEW c \in ClassType(settings),
         ClassInv(settings, r, x, c), c.number # 0, NEW m
  PROVE  /\ Reclassified(c, m) \in ClassType(settings)
         /\ ClassInv(settings, r, x, Reclassified(c, m))
         /\ Rechecked(SignatureOf(Net), Reclassified(c, m))
         /\ Reclassified(c, m).number = c.number /\ Reclassified(c, m).members = c.members
         /\ Reclassified(c, m).from = c.from
<1> DEFINE sig == SignatureOf(Net)
           d == [c EXCEPT !.seen = sig]
           e == Suppressed(d)
<1>1. sig \in Signatures(settings)
  BY NetworkValues
<1>2. Reclassified(c, m) = IF ~Recheckable(c) THEN c
                           ELSE IF Composite(Net, m, c.minima) THEN e ELSE d
  BY DEF Reclassified
<1> HIDE DEF sig
<1>3. /\ d \in ClassType(settings) /\ d.seen = sig /\ d.number = c.number
      /\ d.members = c.members /\ d.from = c.from /\ d.stable = c.stable
      /\ d.latched = c.latched /\ d.status = c.status
      /\ d.thermo = c.thermo /\ d.minima = c.minima
  BY <1>1 DEF ClassType
<1> HIDE DEF d
<1>4. /\ e \in ClassType(settings) /\ e.seen = sig /\ e.number = c.number
      /\ e.members = c.members /\ e.from = c.from /\ e.stable = "undecided"
      /\ e.latched = c.latched /\ e.thermo = c.thermo /\ e.minima = c.minima
  BY <1>3 DEF ClassType, Suppressed
<1> HIDE DEF e
<1>5. CASE ~Recheckable(c)
  BY <1>2, <1>5 DEF Recheckable, Rechecked, sig
<1>6. CASE Recheckable(c)
  <2>1. ClassInv(settings, r, x, d) /\ ClassInv(settings, r, x, e)
    BY <1>3, <1>4 DEF ClassInv
  <2>2. Rechecked(sig, d) /\ Rechecked(sig, e)
    BY <1>3, <1>4 DEF Rechecked
  <2> QED BY <1>2, <1>3, <1>4, <1>6, <2>1, <2>2 DEF sig
<1> QED BY <1>5, <1>6

\* A new evaluation: its class holds the member, and is rechecked.
LEMMA EvaluationStarts ==
  ASSUME Known, UNCHANGED <<settings, limits, network, run, records, index, neb>>,
         NEW s \in settings.sites, run.at = "running", MayStart(s),
         NEW m \in settings.members, NEW env \in Names(settings), env # Copy,
         NEW cs \in [Names(settings) -> ClassType(settings)], NEW at \in {"judge", "warm"},
         classes' = [classes EXCEPT ![s] = cs],
         job' = [job EXCEPT ![s] = [IdleJob EXCEPT !.at = at, !.member = m, !.env = env]],
         \A x \in Names(settings) : /\ ClassInv(settings, ThisRun, x, cs[x])
                                    /\ cs[x].from \in {0, classes[s][x].from},
         m \in cs[env].members, cs[env].number # 0,
         ThisRun.lateral /\ ~Adsorbs(settings) => cs[Bare].number # 0,
         Rechecked(SignatureOf(Net), cs[env]),
         at = "warm" => ThisRun.lateral /\ ~Adsorbs(settings)
  PROVE  Known'
<1> DEFINE k == [IdleJob EXCEPT !.at = at, !.member = m, !.env = env]
<1>1. /\ k \in JobType(settings) /\ k.at = at /\ k.member = m /\ k.env = env
      /\ k.id = 0 /\ k.listing = {}
  <2>1. IdleJob \in JobType(settings) /\ IdleJob.id = 0 /\ IdleJob.listing = {}
    BY IdleTyped DEF IdleJob
  <2> QED BY <2>1 DEF JobType, Places, Seeds
<1>2. job' = [job EXCEPT ![s] = k]
  OBVIOUS
<1> HIDE DEF k
<1>3. EvaluationInv(settings, ThisRun, SignatureOf(Net), cs, k)
  BY <1>1 DEF EvaluationInv
<1>4. k.at \notin Calculating
  BY <1>1 DEF Calculating, Early
<1>5. SiteInv(settings, ThisRun, SignatureOf(Net), neb'.at, cs, k)
  BY <1>3, <1>4 DEF SiteInv
<1>6. WriterInv(settings, records, k)
  BY <1>1 DEF WriterInv
<1>7. \A x \in Names(settings) : OriginInv(records, s, x, cs[x])
  BY DEF Known, DatabaseInv, OriginInv
<1>8. job[s].id = 0
  <2>1. WriterInv(settings, records, job[s]) /\ job[s].at = "idle"
    BY DEF Known, DatabaseInv, MayStart, Busy
  <2> QED BY <2>1 DEF WriterInv
<1> QED BY <1>1, <1>2, <1>5, <1>6, <1>7, <1>8, SameIndex, OneSite

LEMMA EvaluateAdsorptionStep ==
  ASSUME Known, UNCHANGED <<settings, limits, network, run, records, index, neb>>,
         NEW s \in settings.sites, run.at = "running",
         NEW m \in settings.members, NEW env \in Names(settings), env # Copy,
         EvaluateAdsorption(s, m, env)
  PROVE  Known'
<1> DEFINE cs == Joined(classes[s], m, env)
<1>1. classes[s] \in [Names(settings) -> ClassType(settings)]
  BY DEF Known, TypeInv
<1>2. \A x \in Names(settings) : ClassInv(settings, ThisRun, x, classes[s][x])
  BY DEF Known, SitesInv, SiteInv
<1>3. /\ cs \in [Names(settings) -> ClassType(settings)]
      /\ \A x \in Names(settings) : /\ ClassInv(settings, ThisRun, x, cs[x])
                                    /\ cs[x].from \in {0, classes[s][x].from}
      /\ cs[env].number # 0 /\ m \in cs[env].members
  BY <1>1, <1>2, JoinedClasses DEF Known
<1>4. /\ classes' = [classes EXCEPT ![s] = cs] /\ MayStart(s) /\ Adsorbs(settings)
      /\ job' = [job EXCEPT ![s] = [IdleJob EXCEPT !.at = "judge", !.member = m, !.env = env]]
  BY DEF EvaluateAdsorption, IsAdsorption, Adsorbs
<1> HIDE DEF cs
<1>5. Rechecked(SignatureOf(Net), cs[env])
  BY <1>3, <1>4 DEF ClassInv, Rechecked
<1> QED BY <1>3, <1>4, <1>5, EvaluationStarts

LEMMA EvaluatedStep ==
  ASSUME Known, UNCHANGED <<settings, limits, network, run, records, index, neb>>,
         NEW s \in settings.sites, run.at = "running", ~Adsorbs(settings),
         NEW m \in settings.members, NEW env \in Names(settings), env # Copy,
         Evaluated(s, m, env)
  PROVE  Known'
<1> DEFINE bs == IF ThisRun.lateral THEN WithBare(classes[s]) ELSE classes[s]
           js == Joined(bs, m, env)
           d == Reclassified(js[env], m)
           cs == [js EXCEPT ![env] = d]
           at == IF ThisRun.lateral THEN "warm" ELSE "judge"
<1>1. classes[s] \in [Names(settings) -> ClassType(settings)] /\ TypeInv
  BY DEF Known, TypeInv
<1>2. \A x \in Names(settings) : ClassInv(settings, ThisRun, x, classes[s][x])
  BY DEF Known, SitesInv, SiteInv
<1>3. Bare \in Names(settings)
  BY NoneTyped
<1>4. /\ bs \in [Names(settings) -> ClassType(settings)]
      /\ \A x \in Names(settings) : /\ ClassInv(settings, ThisRun, x, bs[x])
                                    /\ bs[x].from \in {0, classes[s][x].from}
      /\ ThisRun.lateral => bs[Bare].number # 0
  <2>1. CASE ThisRun.lateral
    <3> DEFINE n == Numbered(classes[s], Bare)
    <3>1. /\ n \in ClassType(settings) /\ ClassInv(settings, ThisRun, Bare, n)
          /\ n.number # 0 /\ n.from \in {0, classes[s][Bare].from}
      BY <1>1, <1>2, <1>3, NumberedClass
    <3>2. bs = [classes[s] EXCEPT ![Bare] = n]
      BY <2>1 DEF WithBare
    <3> HIDE DEF n, bs
    <3> QED BY <1>1, <1>2, <1>3, <3>1, <3>2
  <2>2. CASE ~ThisRun.lateral
    BY <1>1, <1>2, <2>2
  <2> QED BY <2>1, <2>2
<1> HIDE DEF bs
<1>5. /\ js \in [Names(settings) -> ClassType(settings)]
      /\ \A x \in Names(settings) : /\ ClassInv(settings, ThisRun, x, js[x])
                                    /\ js[x].from \in {0, bs[x].from}
                                    /\ bs[x].number # 0 => js[x].number # 0
      /\ js[env].number # 0 /\ m \in js[env].members
  BY <1>1, <1>4, JoinedClasses
<1> HIDE DEF js
<1>6. /\ d \in ClassType(settings) /\ ClassInv(settings, ThisRun, env, d)
      /\ Rechecked(SignatureOf(Net), d)
      /\ d.number = js[env].number /\ d.members = js[env].members /\ d.from = js[env].from
  <2> DEFINE c == js[env]
  <2>1. c \in ClassType(settings) /\ ClassInv(settings, ThisRun, env, c) /\ c.number # 0
    BY <1>5
  <2>2. d = Reclassified(c, m)
    OBVIOUS
  <2> HIDE DEF c, d
  <2>3. /\ d \in ClassType(settings) /\ ClassInv(settings, ThisRun, env, d)
        /\ Rechecked(SignatureOf(Net), d)
        /\ d.number = c.number /\ d.members = c.members /\ d.from = c.from
    BY <1>1, <2>1, <2>2, ReclassifiedClass
  <2> QED BY <2>3 DEF c
<1> HIDE DEF d
<1>7. /\ cs \in [Names(settings) -> ClassType(settings)]
      /\ cs[env] = d /\ \A x \in Names(settings) : x # env => cs[x] = js[x]
  BY <1>5, <1>6
<1>8. /\ classes' = [classes EXCEPT ![s] = cs] /\ MayStart(s)
      /\ job' = [job EXCEPT ![s] = [IdleJob EXCEPT !.at = at, !.member = m, !.env = env]]
  BY DEF Evaluated, bs, js, d
<1> HIDE DEF cs
<1>9. /\ \A x \in Names(settings) : /\ ClassInv(settings, ThisRun, x, cs[x])
                                    /\ cs[x].from \in {0, classes[s][x].from}
      /\ m \in cs[env].members /\ cs[env].number # 0
      /\ ThisRun.lateral => cs[Bare].number # 0
      /\ Rechecked(SignatureOf(Net), cs[env])
  BY <1>3, <1>4, <1>5, <1>6, <1>7
<1>10. at \in {"judge", "warm"} /\ (at = "warm" => ThisRun.lateral)
  OBVIOUS
<1> HIDE DEF at
<1> QED BY <1>7, <1>8, <1>9, <1>10, EvaluationStarts

\* Nothing that is known of depends on what is offered.
LEMMA OffersAside ==
  ASSUME Known, UNCHANGED <<settings, limits, network, run, classes, job, records, index, neb>>
  PROVE  Known'
<1>1. ThisRun' = ThisRun /\ SignatureOf(Net)' = SignatureOf(Net)
  BY DEF ThisRun, SignatureOf, Net, IsDiffusion
<1>2. NoClasses' = NoClasses /\ NoJobs' = NoJobs
  BY DEF NoClasses, NoJobs, ClassNames
<1>3. TypeInv'
  BY DEF Known, TypeInv, HasLimits
<1>4. SitesInv'
  BY <1>1, <1>2 DEF Known, SitesInv
<1>5. DatabaseInv'
  BY DEF Known, DatabaseInv
<1> QED BY <1>3, <1>4, <1>5 DEF Known

LEMMA EvaluateStep ==
  ASSUME Known, UNCHANGED <<settings, limits>>, NEW s \in settings.sites, Evaluate(s)
  PROVE  Known'
<1>1. run.at = "running" /\ UNCHANGED <<run, records, index, neb>>
  BY DEF Evaluate, cacheVars, bandVars
<1>2. PICK m \in settings.members :
        \/ \E env \in Surroundings :
             \/ EvaluateAdsorption(s, m, env)
             \/ EvaluateDiffusion(s, m, env)
             \/ EvaluateBond(s, m, env)
        \/ NotApplicable(s, m)
  BY DEF Evaluate
<1>3. CASE NotApplicable(s, m)
  <2>1. UNCHANGED <<network, classes, job>>
    BY <1>3 DEF NotApplicable
  <2> QED BY <1>1, <2>1, OffersAside
<1>4. ASSUME NEW env \in Surroundings,
             \/ EvaluateAdsorption(s, m, env)
             \/ EvaluateDiffusion(s, m, env)
             \/ EvaluateBond(s, m, env)
      PROVE  Known'
  <2>1. env \in Names(settings) /\ env # Copy
    BY ConfigurationAssumption DEF Surroundings, Names, Known, TypeInv, HasLimits
  <2>2. CASE EvaluateAdsorption(s, m, env)
    <3>1. UNCHANGED network
      BY <2>2 DEF EvaluateAdsorption
    <3> QED BY <1>1, <2>1, <2>2, <3>1, EvaluateAdsorptionStep
  <2>3. CASE EvaluateDiffusion(s, m, env) \/ EvaluateBond(s, m, env)
    <3>1. UNCHANGED network /\ Evaluated(s, m, env) /\ ~Adsorbs(settings)
      BY <2>3 DEF EvaluateDiffusion, EvaluateBond, Evaluated, IsDiffusion, IsBond, Adsorbs
    <3> QED BY <1>1, <2>1, <3>1, EvaluatedStep
  <2> QED BY <1>4, <2>2, <2>3
<1> QED BY <1>2, <1>3, <1>4

LEMMA GrowStep ==
  ASSUME Known, UNCHANGED <<settings, limits>>, Grow
  PROVE  Known'
<1>1. /\ UNCHANGED <<run, classes, job, records, index, neb>>
      /\ network' = network + 1 /\ network < Len(settings.networks)
      /\ \A s \in settings.sites : job[s].at = "idle"
      /\ run.at = "running"
  BY DEF Grow, NetworkGrows, Busy, cacheVars, bandVars
<1>2. ThisRun' = ThisRun
  BY <1>1 DEF ThisRun
<1>3. TypeInv'
  <2>1. network' \in 1 .. Len(settings.networks)
    BY <1>1, ConfigurationAssumption DEF Known, TypeInv, HasLimits
  <2> QED BY <1>1, <2>1 DEF Known, TypeInv, HasLimits
<1>4. \A s \in settings.sites :
        SiteInv(settings, ThisRun, SignatureOf(Net)', neb'.at, classes[s], job[s])
  <2>1. "idle" \notin Calculating
    BY DEF Calculating, Early
  <2> QED BY <1>1, <2>1 DEF Known, SitesInv, SiteInv
<1>5. SitesInv'
  BY <1>1, <1>2, <1>4 DEF Known, SitesInv
<1>6. DatabaseInv'
  BY <1>1 DEF Known, DatabaseInv
<1> QED BY <1>3, <1>5, <1>6 DEF Known

---------------------------------------------------------------------------
(* The start and the return of a calculation.                              *)

LEMMA StructuresTyped == Structures \in Seq(Parts)
<1>1. /\ <<"occupied", "unoccupied">> \in Seq(Parts) /\ <<"a", "b">> \in Seq(Parts)
      /\ <<"ab", "c">> \in Seq(Parts) /\ <<"ab", "empty", "c">> \in Seq(Parts)
  BY DEF Parts
<1> QED
  BY <1>1 DEF Structures, AdsorptionStructures, DiffusionStructures, BondStructures

LEMMA StartedTyped ==
  ASSUME TypeInv, NEW s \in settings.sites, NEW calc \in {"live", "warm"},
         NEW target \in Names(settings), NEW thermo \in Thermos(settings),
         NEW seed \in Seeds(settings), NEW todo \in Seq(Parts),
         NEW k, k = Started(s, calc, target, thermo, seed, todo)
  PROVE  /\ k \in JobType(settings)
         /\ k.at = "start" /\ k.calc = calc /\ k.target = target /\ k.thermo = thermo
         /\ k.member = job[s].member /\ k.env = job[s].env
         /\ k.id = 0 /\ k.listing = job[s].listing
<1> DEFINE j == job[s]
           capture == (calc = "warm")
<1>1. j \in JobType(settings)
  BY DEF TypeInv
<1>2. k = [j EXCEPT !.at = "start", !.calc = calc, !.target = target, !.thermo = thermo,
             !.seed = seed, !.capture = capture, !.todo = todo, !.id = 0]
  BY DEF Started
<1>3. capture \in BOOLEAN
  OBVIOUS
<1> HIDE DEF j, capture
<1>4. k = [at |-> "start", member |-> j.member, env |-> j.env, calc |-> calc,
           target |-> target, thermo |-> thermo, seed |-> seed, capture |-> capture,
           todo |-> todo, id |-> 0, listing |-> j.listing]
  BY <1>1, <1>2 DEF JobType
<1>5. /\ j.member \in Seeds(settings) /\ j.env \in Names(settings)
      /\ j.listing \in SUBSET Nat
  BY <1>1 DEF JobType
<1>6. "start" \in Places
  BY DEF Places, Calculating, Early
<1>7. k \in JobType(settings)
  BY <1>3, <1>4, <1>5, <1>6 DEF JobType
<1> QED BY <1>4, <1>7 DEF j

\* What is known of an evaluation that is not calculating.
LEMMA AtEvaluation ==
  ASSUME Known, NEW s \in settings.sites, job[s].at # "idle"
  PROVE  /\ job[s] \in JobType(settings)
         /\ classes[s] \in [Names(settings) -> ClassType(settings)]
         /\ job[s].env \in Names(settings)
         /\ \A x \in Names(settings) : /\ ClassInv(settings, ThisRun, x, classes[s][x])
                                       /\ OriginInv(records, s, x, classes[s][x])
         /\ EvaluationInv(settings, ThisRun, SignatureOf(Net), classes[s], job[s])
         /\ WriterInv(settings, records, job[s])
         /\ run.at = "running" /\ Busy(s)
<1>1. /\ job[s] \in JobType(settings)
      /\ classes[s] \in [Names(settings) -> ClassType(settings)]
  BY DEF Known, TypeInv
<1>2. job[s].env \in Names(settings)
  BY <1>1 DEF JobType
<1>3. SiteInv(settings, ThisRun, SignatureOf(Net), neb.at, classes[s], job[s])
  BY DEF Known, SitesInv
<1>4. run.at = "running"
  <2>1. NoJobs[s].at = "idle"
    BY DEF NoJobs, IdleJob
  <2> QED BY <2>1 DEF Known, TypeInv, SitesInv
<1>5. WriterInv(settings, records, job[s])
  BY DEF Known, DatabaseInv
<1>6. \A x \in Names(settings) : OriginInv(records, s, x, classes[s][x])
  BY DEF Known, DatabaseInv
<1> QED BY <1>1, <1>2, <1>3, <1>4, <1>5, <1>6 DEF SiteInv, Busy

\* A step that leaves the classes alone and is not at a band.
LEMMA OneEvaluation ==
  ASSUME Known, UNCHANGED <<settings, limits, network, run, classes, records, index, neb>>,
         NEW s \in settings.sites, job[s].at \notin {"idle", "document", "row"},
         NEW k \in JobType(settings), job' = [job EXCEPT ![s] = k],
         k.at \notin {"document", "row", "rebuild"}, k.id = 0, k.listing \subseteq job[s].listing,
         k.at # "idle" => EvaluationInv(settings, ThisRun, SignatureOf(Net), classes[s], k),
         k.at \in Calculating => CalculationInv(settings, ThisRun, neb.at, classes[s], k)
  PROVE  Known'
<1>1. /\ classes[s] \in [Names(settings) -> ClassType(settings)]
      /\ \A x \in Names(settings) : /\ ClassInv(settings, ThisRun, x, classes[s][x])
                                    /\ OriginInv(records, s, x, classes[s][x])
      /\ WriterInv(settings, records, job[s])
      /\ run.at = "running" /\ Busy(s)
  BY AtEvaluation
<1>2. SiteInv(settings, ThisRun, SignatureOf(Net), neb'.at, classes[s], k)
  BY <1>1 DEF SiteInv
<1>3. WriterInv(settings, records, k) /\ job[s].id = 0
  BY <1>1 DEF WriterInv
<1>4. classes' = [classes EXCEPT ![s] = classes[s]]
  BY DEF Known, TypeInv
<1> QED BY <1>1, <1>2, <1>3, <1>4, SameIndex, OneSite

LEMMA LiveStep ==
  ASSUME Known, UNCHANGED <<settings, limits>>, NEW s \in settings.sites, Live(s)
  PROVE  Known'
<1> DEFINE j == job[s]
           seed == IF j.env = Bare THEN None ELSE j.seed
           started == Started(s, "live", j.env, ThisRun.thermo, seed, Structures)
           offered == [j EXCEPT !.at = "offer"]
           k == IF MayCalculate(classes[s][j.env]) THEN started ELSE offered
<1>1. Judge(s, ThisRun.thermo, Structures) /\ UNCHANGED <<run, records, index, neb>>
  BY DEF Live, JudgeAdsorption, JudgeDiffusion, JudgeBond, cacheVars, bandVars
<1>2. j.at = "judge" /\ UNCHANGED <<network, classes>> /\ job' = [job EXCEPT ![s] = k]
  BY <1>1 DEF Judge
<1>3. /\ j \in JobType(settings) /\ j.env \in Names(settings)
      /\ EvaluationInv(settings, ThisRun, SignatureOf(Net), classes[s], j)
      /\ WriterInv(settings, records, j)
  BY <1>2, AtEvaluation
<1>4. seed \in Seeds(settings)
  BY <1>3, NoneTyped DEF JobType
<1>5. /\ started \in JobType(settings)
      /\ started.at = "start" /\ started.calc = "live" /\ started.target = j.env
      /\ started.thermo = ThisRun.thermo
      /\ started.member = j.member /\ started.env = j.env
      /\ started.id = 0 /\ started.listing = j.listing
  BY <1>3, <1>4, NetworkValues, StructuresTyped, StartedTyped DEF Known
<1>6. /\ offered \in JobType(settings) /\ offered.at = "offer" /\ offered.member = j.member
      /\ offered.env = j.env /\ offered.id = j.id /\ offered.listing = j.listing
  BY <1>3 DEF JobType, Places
<1>7. j.id = 0
  BY <1>2, <1>3 DEF WriterInv
<1> HIDE DEF started, offered
<1>8. EvaluationInv(settings, ThisRun, SignatureOf(Net), classes[s], k)
  BY <1>3, <1>5, <1>6 DEF EvaluationInv
<1>9. k.at \in Calculating => CalculationInv(settings, ThisRun, neb.at, classes[s], k)
  <2>1. CASE MayCalculate(classes[s][j.env])
    <3>1. Open(classes[s][j.env])
      BY <2>1 DEF MayCalculate, Undecided, Open
    <3>2. j.env # Copy
      BY <1>3 DEF EvaluationInv
    <3> QED BY <1>5, <2>1, <3>1, <3>2 DEF CalculationInv
  <2>2. CASE ~MayCalculate(classes[s][j.env])
    BY <1>6, <2>2 DEF Calculating, Early
  <2> QED BY <2>1, <2>2
<1>10. /\ k \in JobType(settings) /\ k.id = 0 /\ k.listing = j.listing
       /\ k.at \in {"start", "offer"}
  BY <1>5, <1>6, <1>7
<1> HIDE DEF k
<1> QED BY <1>1, <1>2, <1>8, <1>9, <1>10, OneEvaluation

LEMMA WarmStep ==
  ASSUME Known, UNCHANGED <<settings, limits>>, NEW s \in settings.sites, Warm(s)
  PROVE  Known'
<1> DEFINE j == job[s]
           bare == classes[s][Bare]
           seeded == bare.stable = "stable" /\ bare.path = j.member
           target == WarmTarget(bare)
           bareAgain == [bare EXCEPT !.stable = "undecided"]
           d == IF bare.stable = "stable" THEN bareAgain ELSE bare
           capture == Undecided(classes[s][j.env]) /\ ~seeded /\ MayCalculate(d)
           started == Started(s, "warm", target, None, None, Structures)
           seed == IF Undecided(classes[s][j.env]) /\ seeded THEN j.member ELSE None
           judged == [j EXCEPT !.at = "judge", !.seed = seed]
           cs == [classes[s] EXCEPT ![target] = d]
<1>1. WarmStart(s, Structures) /\ UNCHANGED <<run, records, index, neb>>
  BY DEF Warm, WarmDiffusion, WarmBond, cacheVars, bandVars
<1>2. /\ j.at = "warm" /\ UNCHANGED network
      /\ capture => /\ classes' = [classes EXCEPT ![s][target] = d]
                    /\ job' = [job EXCEPT ![s] = started]
      /\ ~capture => /\ classes' = classes
                     /\ job' = [job EXCEPT ![s].at = "judge", ![s].seed = seed]
  BY <1>1 DEF WarmStart
<1>3. /\ j \in JobType(settings) /\ j.env \in Names(settings)
      /\ classes[s] \in [Names(settings) -> ClassType(settings)]
      /\ \A x \in Names(settings) : /\ ClassInv(settings, ThisRun, x, classes[s][x])
                                    /\ OriginInv(records, s, x, classes[s][x])
      /\ EvaluationInv(settings, ThisRun, SignatureOf(Net), classes[s], j)
      /\ WriterInv(settings, records, j) /\ run.at = "running" /\ Busy(s)
  BY <1>2, AtEvaluation
<1>4. j.id = 0 /\ ThisRun.lateral /\ ~Adsorbs(settings) /\ j.env # Copy
  BY <1>2, <1>3 DEF WriterInv, EvaluationInv
<1>5. /\ bare \in ClassType(settings) /\ ClassInv(settings, ThisRun, Bare, bare)
      /\ OriginInv(records, s, Bare, bare)
      /\ Bare \in Names(settings) /\ Copy \in Names(settings) /\ Bare # Copy
  BY <1>3, NoneTyped, ConfigurationAssumption
<1>6. CASE ~capture
  <2>1. seed \in Seeds(settings)
    BY <1>3, NoneTyped DEF JobType
  <2> HIDE DEF seed
  <2>2. /\ judged \in JobType(settings) /\ judged.at = "judge" /\ judged.member = j.member
        /\ judged.env = j.env /\ judged.id = j.id /\ judged.listing = j.listing
    BY <1>3, <2>1 DEF JobType, Places
  <2>3. job' = [job EXCEPT ![s] = judged] /\ classes' = classes
    BY <1>2, <1>6 DEF Known, TypeInv
  <2> HIDE DEF judged
  <2>4. EvaluationInv(settings, ThisRun, SignatureOf(Net), classes[s], judged)
    BY <1>3, <2>2 DEF EvaluationInv
  <2>5. judged.at \notin Calculating
    BY <2>2 DEF Calculating, Early
  <2> QED BY <1>1, <1>2, <1>4, <2>2, <2>3, <2>4, <2>5, OneEvaluation
<1>7. CASE capture
  <2>1. target \in {Bare, Copy} /\ (target = Copy <=> bare.stable = "stable")
    BY <1>5 DEF WarmTarget
  <2>2. /\ d \in ClassType(settings) /\ d.number = bare.number /\ d.members = bare.members
        /\ d.thermo = bare.thermo /\ d.minima = bare.minima /\ d.from = bare.from
        /\ d.latched = bare.latched /\ d.status = bare.status
        /\ bare.stable # "stable" => d = bare
    BY <1>5 DEF ClassType
  <2>3. Open(d)
    BY <1>7 DEF MayCalculate, Undecided, Open
  <2>4. None \in Thermos(settings) /\ None \in Seeds(settings) /\ target \in Names(settings)
    BY <2>1, NoneTyped
  <2>5. /\ started \in JobType(settings)
        /\ started.at = "start" /\ started.calc = "warm" /\ started.target = target
        /\ started.thermo = None /\ started.member = j.member /\ started.env = j.env
        /\ started.id = 0 /\ started.listing = j.listing
    BY <2>4, StructuresTyped, StartedTyped DEF Known
  <2>6. classes' = [classes EXCEPT ![s] = cs] /\ job' = [job EXCEPT ![s] = started]
    BY <1>2, <1>7
  <2> HIDE DEF d, started, target
  <2>7. /\ cs \in [Names(settings) -> ClassType(settings)] /\ cs[target] = d
        /\ \A x \in Names(settings) : x # target => cs[x] = classes[s][x]
    BY <1>3, <2>2, <2>4
  <2>8. cs[j.env] = classes[s][j.env] /\ cs[Bare] = bare
    <3>1. target = Bare => d = bare
      BY <1>5, <2>1, <2>2
    <3> QED BY <1>3, <1>4, <1>5, <2>1, <2>7, <3>1
  <2> HIDE DEF cs
  <2>9. /\ ClassInv(settings, ThisRun, target, d) /\ OriginInv(records, s, target, d)
    <3>1. ClassInv(settings, ThisRun, target, d)
      BY <1>5, <2>1, <2>2, <2>3 DEF ClassInv, Open
    <3>2. OriginInv(records, s, target, d)
      BY <1>5, <2>1, <2>2 DEF OriginInv
    <3> QED BY <3>1, <3>2
  <2>10. \A x \in Names(settings) : /\ ClassInv(settings, ThisRun, x, cs[x])
                                    /\ OriginInv(records, s, x, cs[x])
    BY <1>3, <2>7, <2>9
  <2>11. EvaluationInv(settings, ThisRun, SignatureOf(Net), cs, started)
    BY <1>3, <2>5, <2>8 DEF EvaluationInv
  <2>12. CalculationInv(settings, ThisRun, neb'.at, cs, started)
    <3>1. target = Copy => bare.stable = "stable" /\ Admissible(bare)
      BY <2>1, <2>2, <2>3 DEF Open, Admissible
    <3> QED BY <1>4, <2>1, <2>3, <2>5, <2>7, <2>8, <3>1 DEF CalculationInv
  <2>13. SiteInv(settings, ThisRun, SignatureOf(Net), neb'.at, cs, started)
    BY <2>10, <2>11, <2>12 DEF SiteInv
  <2>14. WriterInv(settings, records, started)
    BY <1>3, <2>5 DEF WriterInv
  <2> QED BY <1>1, <1>2, <1>3, <1>4, <2>5, <2>6, <2>7, <2>10, <2>13, <2>14, SameIndex, OneSite
<1> QED BY <1>6, <1>7

\* A verdict on the class that was calculated.
LEMMA VerdictClass ==
  ASSUME Known, NEW s \in settings.sites, job[s].at \in Outcomes, job[s].target # Copy,
         NEW d, d = Verdict(Target(s), job[s].at)
  PROVE  /\ d \in ClassType(settings) /\ d.number = Target(s).number
         /\ d.members = Target(s).members
         /\ ClassInv(settings, ThisRun, job[s].target, d)
         /\ job[s].target = job[s].env => Rechecked(SignatureOf(Net), d)
         /\ OriginInv(records, s, job[s].target, d)
<1> DEFINE c == Target(s)
           latched == [c EXCEPT !.latched = TRUE]
           rejected == [c EXCEPT !.stable = "rejected"]
<1>1. job[s].at \in Calculating
  BY DEF Outcomes, Calculating, Early
<1>2. /\ c \in ClassType(settings)
      /\ ClassInv(settings, ThisRun, job[s].target, c)
      /\ CalculationInv(settings, ThisRun, neb.at, classes[s], job[s])
      /\ c = classes[s][job[s].target]
      /\ job[s].target = job[s].env => Rechecked(SignatureOf(Net), c)
      /\ OriginInv(records, s, job[s].target, c)
      /\ c.number # 0
  BY <1>1, AtTarget, TargetNumbered
<1>3. job[s].at \in {"notConverged", "invalid"} => Open(c)
  BY <1>2 DEF CalculationInv, Early
<1>4. d = IF job[s].at = "notConverged" THEN latched
          ELSE IF job[s].at = "invalid" THEN rejected ELSE c
  BY DEF Verdict
<1> HIDE DEF c
<1>5. /\ latched \in ClassType(settings) /\ latched.number = c.number
      /\ latched.members = c.members /\ latched.stable = c.stable /\ latched.latched = TRUE
      /\ latched.thermo = c.thermo /\ latched.minima = c.minima /\ latched.from = c.from
  BY <1>2 DEF ClassType
<1>6. /\ rejected \in ClassType(settings) /\ rejected.number = c.number
      /\ rejected.members = c.members /\ rejected.stable = "rejected"
      /\ rejected.latched = c.latched
      /\ rejected.thermo = c.thermo /\ rejected.minima = c.minima /\ rejected.from = c.from
  BY <1>2 DEF ClassType
<1> HIDE DEF latched, rejected
<1>7. CASE job[s].at = "notConverged"
  BY <1>2, <1>3, <1>4, <1>5, <1>7 DEF ClassInv, Rechecked, OriginInv, Open, c
<1>8. CASE job[s].at = "invalid"
  <2>1. d = rejected
    BY <1>4, <1>8
  <2> QED BY <1>2, <1>3, <1>6, <1>8, <2>1 DEF ClassInv, Rechecked, OriginInv, Open, c
<1>9. CASE job[s].at \notin {"notConverged", "invalid"}
  BY <1>2, <1>4, <1>9 DEF c
<1> QED BY <1>7, <1>8, <1>9

LEMMA LiveReturnsStep ==
  ASSUME Known, UNCHANGED <<settings, limits, run, records, index, neb>>,
         NEW s \in settings.sites, LiveReturns(s)
  PROVE  Known'
<1> DEFINE j == job[s]
           d == Verdict(Target(s), j.at)
           cs == [classes[s] EXCEPT ![j.env] = d]
           k == [j EXCEPT !.at = "offer"]
<1>1. j.at \in Outcomes /\ j.calc = "live" /\ UNCHANGED network
  BY DEF LiveReturns
<1>2. j.at \in Calculating /\ j.at \notin {"idle", "document", "row"}
  BY <1>1 DEF Outcomes, Calculating, Early
<1>3. /\ j \in JobType(settings) /\ j.env \in Names(settings)
      /\ classes[s] \in [Names(settings) -> ClassType(settings)]
      /\ \A x \in Names(settings) : /\ ClassInv(settings, ThisRun, x, classes[s][x])
                                    /\ OriginInv(records, s, x, classes[s][x])
      /\ EvaluationInv(settings, ThisRun, SignatureOf(Net), classes[s], j)
      /\ WriterInv(settings, records, j) /\ run.at = "running" /\ Busy(s)
  BY <1>2, AtEvaluation
<1>4. j.target = j.env /\ j.env # Copy /\ Target(s) = classes[s][j.env]
  BY <1>1, <1>2, <1>3, AtTarget DEF CalculationInv, EvaluationInv
<1>5. /\ d \in ClassType(settings) /\ d.number = classes[s][j.env].number
      /\ d.members = classes[s][j.env].members
      /\ ClassInv(settings, ThisRun, j.env, d)
      /\ Rechecked(SignatureOf(Net), d)
      /\ OriginInv(records, s, j.env, d)
  BY <1>1, <1>4, VerdictClass
<1>6. classes' = [classes EXCEPT ![s] = cs] /\ job' = [job EXCEPT ![s] = k]
  BY <1>4 DEF LiveReturns
<1> HIDE DEF d
<1>7. /\ cs \in [Names(settings) -> ClassType(settings)] /\ cs[j.env] = d
      /\ \A x \in Names(settings) : x # j.env => cs[x] = classes[s][x]
  BY <1>3, <1>5
<1>8. /\ k \in JobType(settings) /\ k.at = "offer" /\ k.member = j.member /\ k.env = j.env
      /\ k.id = j.id /\ k.listing = j.listing
  BY <1>3 DEF JobType, Places
<1> HIDE DEF cs, k
<1>9. \A x \in Names(settings) : /\ ClassInv(settings, ThisRun, x, cs[x])
                                 /\ OriginInv(records, s, x, cs[x])
  BY <1>3, <1>5, <1>7
<1>10. EvaluationInv(settings, ThisRun, SignatureOf(Net), cs, k)
  <2>1. Bare \in Names(settings)
    BY NoneTyped
  <2> QED BY <1>3, <1>5, <1>7, <1>8, <2>1 DEF EvaluationInv
<1>11. SiteInv(settings, ThisRun, SignatureOf(Net), neb'.at, cs, k)
  BY <1>8, <1>9, <1>10 DEF SiteInv, Calculating, Early
<1>12. WriterInv(settings, records, k)
  BY <1>1, <1>3, <1>8 DEF WriterInv, Outcomes
<1> QED BY <1>1, <1>3, <1>6, <1>7, <1>8, <1>9, <1>11, <1>12, SameIndex, OneSite

LEMMA WarmReturnsStep ==
  ASSUME Known, UNCHANGED <<settings, limits, run, records, index, neb>>,
         NEW s \in settings.sites, WarmReturns(s)
  PROVE  Known'
<1> DEFINE j == job[s]
           bare == classes[s][Bare]
           captured == classes[s][j.target]
           pathed == [bare EXCEPT !.path = captured.path]
           kept == IF j.target = Copy THEN IF j.at = "ok" THEN pathed ELSE bare
                   ELSE Verdict(captured, j.at)
           empty == Fresh(0, {})
           cs == [[classes[s] EXCEPT ![Bare] = kept] EXCEPT ![Copy] = empty]
           seed == IF j.at = "ok" THEN captured.path ELSE None
           k == [j EXCEPT !.at = "judge", !.seed = seed]
<1>1. j.at \in Outcomes /\ j.calc = "warm" /\ UNCHANGED network
  BY DEF WarmReturns
<1>2. j.at \in Calculating /\ j.at \notin {"idle", "document", "row"}
  BY <1>1 DEF Outcomes, Calculating, Early
<1>3. /\ j \in JobType(settings) /\ j.env \in Names(settings)
      /\ classes[s] \in [Names(settings) -> ClassType(settings)]
      /\ \A x \in Names(settings) : /\ ClassInv(settings, ThisRun, x, classes[s][x])
                                    /\ OriginInv(records, s, x, classes[s][x])
      /\ EvaluationInv(settings, ThisRun, SignatureOf(Net), classes[s], j)
      /\ WriterInv(settings, records, j) /\ run.at = "running" /\ Busy(s)
  BY <1>2, AtEvaluation
<1>4. /\ j.target \in {Bare, Copy} /\ j.env # Copy /\ Target(s) = captured
      /\ captured \in ClassType(settings)
  BY <1>1, <1>2, <1>3, AtTarget DEF CalculationInv, EvaluationInv
<1>5. Bare \in Names(settings) /\ Copy \in Names(settings) /\ Bare # Copy
      /\ None \in Seeds(settings)
  BY NoneTyped, ConfigurationAssumption
<1>6. bare \in ClassType(settings) /\ ClassInv(settings, ThisRun, Bare, bare)
      /\ OriginInv(records, s, Bare, bare)
  BY <1>3, <1>5
<1>7. captured.path \in Seeds(settings)
  BY <1>4 DEF ClassType
<1>8. /\ classes' = [classes EXCEPT ![s] = cs]
      /\ job' = [job EXCEPT ![s] = k]
  <2>1. /\ classes' = [classes EXCEPT ![s][Bare] = kept, ![s][Copy] = empty]
        /\ job' = [job EXCEPT ![s].at = "judge", ![s].seed = seed]
    BY DEF WarmReturns
  <2> QED BY <2>1 DEF Known, TypeInv
<1>9. /\ kept \in ClassType(settings) /\ kept.number = bare.number
      /\ kept.members = bare.members
      /\ ClassInv(settings, ThisRun, Bare, kept)
      /\ j.env = Bare => Rechecked(SignatureOf(Net), kept)
      /\ OriginInv(records, s, Bare, kept)
  <2>0. j.env = Bare => Rechecked(SignatureOf(Net), bare)
    BY <1>3 DEF EvaluationInv
  <2>1. CASE j.target = Copy
    <3>1. /\ pathed \in ClassType(settings) /\ pathed.number = bare.number
          /\ pathed.members = bare.members /\ pathed.stable = bare.stable
          /\ pathed.latched = bare.latched /\ pathed.status = bare.status
          /\ pathed.thermo = bare.thermo /\ pathed.minima = bare.minima
          /\ pathed.seen = bare.seen /\ pathed.from = bare.from
      <4> HIDE DEF bare, captured
      <4> QED BY <1>6, <1>7 DEF ClassType
    <3> HIDE DEF pathed, bare
    <3>2. /\ ClassInv(settings, ThisRun, Bare, pathed)
          /\ j.env = Bare => Rechecked(SignatureOf(Net), pathed)
          /\ OriginInv(records, s, Bare, pathed)
      BY <1>6, <2>0, <3>1 DEF ClassInv, Rechecked, OriginInv, Open, Admissible
    <3> QED BY <1>6, <2>0, <2>1, <3>1, <3>2
  <2>2. CASE j.target = Bare
    <3>1. kept = Verdict(Target(s), j.at) /\ captured = bare
      BY <1>4, <1>5, <2>2
    <3> HIDE DEF kept
    <3>2. /\ kept \in ClassType(settings) /\ kept.number = Target(s).number
          /\ kept.members = Target(s).members
          /\ ClassInv(settings, ThisRun, j.target, kept)
          /\ j.target = j.env => Rechecked(SignatureOf(Net), kept)
          /\ OriginInv(records, s, j.target, kept)
      BY <1>1, <1>5, <2>2, <3>1, VerdictClass
    <3> QED BY <1>4, <2>2, <3>1, <3>2
  <2> QED BY <1>4, <2>1, <2>2
<1>10. /\ empty \in ClassType(settings) /\ ClassInv(settings, ThisRun, Copy, empty)
       /\ OriginInv(records, s, Copy, empty)
  <2>1. empty \in ClassType(settings)
    BY FreshTyped
  <2> QED BY <2>1 DEF Fresh, ClassInv, OriginInv
<1> HIDE DEF kept, empty
<1>11. /\ cs \in [Names(settings) -> ClassType(settings)] /\ cs[Bare] = kept /\ cs[Copy] = empty
       /\ \A x \in Names(settings) : x \notin {Bare, Copy} => cs[x] = classes[s][x]
  BY <1>3, <1>5, <1>9, <1>10
<1>12. seed \in Seeds(settings)
  BY <1>5, <1>7
<1> HIDE DEF cs, seed
<1>13. /\ k \in JobType(settings) /\ k.at = "judge" /\ k.member = j.member /\ k.env = j.env
       /\ k.id = j.id /\ k.listing = j.listing
  BY <1>3, <1>12 DEF JobType, Places
<1> HIDE DEF k
<1>14. \A x \in Names(settings) : /\ ClassInv(settings, ThisRun, x, cs[x])
                                  /\ OriginInv(records, s, x, cs[x])
  BY <1>3, <1>9, <1>10, <1>11
<1>15. EvaluationInv(settings, ThisRun, SignatureOf(Net), cs, k)
  <2>1. cs[Bare].number = classes[s][Bare].number
    BY <1>9, <1>11
  <2>2. cs[j.env].number = classes[s][j.env].number
        /\ cs[j.env].members = classes[s][j.env].members
    BY <1>3, <1>4, <1>9, <1>11
  <2>3. Rechecked(SignatureOf(Net), cs[j.env])
    BY <1>3, <1>4, <1>9, <1>11 DEF EvaluationInv
  <2> QED BY <1>3, <1>13, <2>1, <2>2, <2>3 DEF EvaluationInv
<1>16. SiteInv(settings, ThisRun, SignatureOf(Net), neb'.at, cs, k)
  BY <1>13, <1>14, <1>15 DEF SiteInv, Calculating, Early
<1>17. WriterInv(settings, records, k)
  BY <1>1, <1>3, <1>13 DEF WriterInv, Outcomes
<1> QED BY <1>1, <1>3, <1>8, <1>11, <1>13, <1>14, <1>16, <1>17, SameIndex, OneSite

LEMMA OfferStep ==
  ASSUME Known, UNCHANGED <<settings, limits, run, records, index, neb>>,
         NEW s \in settings.sites, Offer(s)
  PROVE  Known'
<1>1. /\ job[s].at = "offer" /\ UNCHANGED <<network, classes>>
      /\ job' = [job EXCEPT ![s] = IdleJob]
  BY DEF Offer
<1>2. /\ IdleJob \in JobType(settings) /\ IdleJob.at = "idle" /\ IdleJob.id = 0
      /\ IdleJob.listing = {}
  BY IdleTyped DEF IdleJob
<1>3. "idle" \notin Calculating
  BY DEF Calculating, Early
<1> QED BY <1>1, <1>2, <1>3, OneEvaluation

LEMMA ReturnStep ==
  ASSUME Known, UNCHANGED <<settings, limits>>, NEW s \in settings.sites, Return(s)
  PROVE  Known'
<1>1. UNCHANGED <<run, records, index, neb>>
  BY DEF Return, cacheVars, bandVars
<1>2. WarmReturns(s) \/ LiveReturns(s) \/ Offer(s)
  BY DEF Return, OfferAdsorption, OfferDiffusion, OfferBond
<1> QED BY <1>1, <1>2, WarmReturnsStep, LiveReturnsStep, OfferStep

---------------------------------------------------------------------------
(* The steps that write the database.                                      *)

\* One calculation goes on, and all classes stay as they are.
LEMMA JobSites ==
  ASSUME Known, UNCHANGED <<settings, limits, network, run, classes, neb>>,
         NEW s \in settings.sites, job[s].at \in Calculating,
         NEW k \in JobType(settings), job' = [job EXCEPT ![s] = k],
         k.member = job[s].member, k.env = job[s].env, k.calc = job[s].calc,
         k.target = job[s].target, k.thermo = job[s].thermo,
         k.at \in Calculating, k.at # "band",
         k.at \in Early => Open(Target(s))
  PROVE  /\ job' \in [settings.sites -> JobType(settings)]
         /\ SitesInv'
         /\ job'[s] = k /\ \A t \in settings.sites : t # s => job'[t] = job[t]
<1>1. /\ job[s].at # "idle" /\ Busy(s)
      /\ classes[s] \in [Names(settings) -> ClassType(settings)]
      /\ EvaluationInv(settings, ThisRun, SignatureOf(Net), classes[s], job[s])
      /\ \A x \in Names(settings) : ClassInv(settings, ThisRun, x, classes[s][x])
      /\ run.at = "running"
  <2>1. job[s].at # "idle"
    BY DEF Calculating, Early
  <2> QED BY <2>1, AtEvaluation
<1>2. CalculationInv(settings, ThisRun, neb.at, classes[s], job[s])
      /\ Target(s) = classes[s][job[s].target]
  BY AtTarget
<1>3. k.at # "warm"
  BY DEF Calculating, Early
<1>4. EvaluationInv(settings, ThisRun, SignatureOf(Net), classes[s], k)
  BY <1>1, <1>3 DEF EvaluationInv
<1>5. CalculationInv(settings, ThisRun, neb'.at, classes[s], k)
  BY <1>2 DEF CalculationInv
<1>6. SiteInv(settings, ThisRun, SignatureOf(Net), neb'.at, classes[s], k)
  BY <1>1, <1>4, <1>5 DEF SiteInv
<1>7. classes' = [classes EXCEPT ![s] = classes[s]]
  BY DEF Known, TypeInv
<1>8. job' \in [settings.sites -> JobType(settings)] /\ SitesInv'
  <2>1. TypeInv /\ SitesInv
    BY DEF Known
  <2> QED BY <1>1, <1>6, <1>7, <2>1, SiteStep
<1>9. job \in [settings.sites -> JobType(settings)]
  BY DEF Known, TypeInv
<1> QED BY <1>8, <1>9

\* The index is replaced by the newest of each key among the documents listed.
LEMMA RebuildEndsStep ==
  ASSUME Known, UNCHANGED <<settings, limits>>, NEW s \in settings.sites, RebuildEnds(s)
  PROVE  Known'
<1> DEFINE k == [job[s] EXCEPT !.at = "lookup", !.listing = {}]
           listing == job[s].listing
           rows == Rebuilt(listing)
<1>1. /\ job[s].at = "rebuild"
      /\ job' = [job EXCEPT ![s] = k]
      /\ index' = [state |-> "ok", rows |-> rows]
      /\ UNCHANGED <<network, run, records, classes, neb>>
  BY DEF RebuildEnds, Rebuild, bandVars, Known, TypeInv
<1>2. job[s].at \in Calculating /\ job[s].at \in Early
  BY <1>1 DEF Calculating, Early
<1>3. job[s] \in JobType(settings) /\ WriterInv(settings, records, job[s]) /\ Open(Target(s))
  BY <1>2, AtTarget DEF CalculationInv
<1>4. /\ k \in JobType(settings)
      /\ k.at = "lookup" /\ k.member = job[s].member /\ k.env = job[s].env
      /\ k.calc = job[s].calc /\ k.target = job[s].target /\ k.thermo = job[s].thermo
      /\ k.id = job[s].id /\ k.listing = {}
  BY <1>3 DEF JobType, Places, Calculating, Early
<1> HIDE DEF k
<1>5. /\ job' \in [settings.sites -> JobType(settings)] /\ SitesInv'
      /\ job'[s] = k /\ \A t \in settings.sites : t # s => job'[t] = job[t]
  <2>1. k.at \in Calculating /\ k.at # "band"
    BY <1>4 DEF Calculating, Early
  <2> QED BY <1>1, <1>2, <1>3, <1>4, <2>1, JobSites
<1>6. listing \subseteq 1 .. Len(records) /\ Len(records) \in Nat
  BY <1>3 DEF WriterInv, Known, TypeInv
<1>7. rows \subseteq 1 .. Len(records)
  BY <1>6 DEF Rebuilt, Usable
<1>8. RowsInv(records, rows)
  <2>1. ASSUME NEW id \in rows
        PROVE  /\ records[id].state # "torn"
               /\ \A other \in rows : Key(records[other]) = Key(records[id]) => other = id
    <3>1. records[id].state = "whole"
      BY DEF Rebuilt, Usable, Verified
    <3>2. ASSUME NEW other \in rows, Key(records[other]) = Key(records[id])
          PROVE  other = id
      <4>1. other <= id /\ id <= other
        BY <3>2 DEF Rebuilt
      <4>2. id \in Nat /\ other \in Nat
        BY <1>7, <1>6
      <4> QED BY <4>1, <4>2
    <3> QED BY <3>1, <3>2
  <2> QED BY <2>1 DEF RowsInv
<1>9. WriterInv(settings, records, k)
  BY <1>1, <1>3, <1>4 DEF WriterInv
<1>10. ASSUME ~settings.parallel, run.at = "running", NEW id \in Documented(records),
              records[id].run = run.number
       PROVE  \E row \in rows : row >= id /\ Key(records[row]) = Key(records[id])
  <2>1. listing = Documented(records)
    BY <1>1, <1>3, <1>10 DEF WriterInv
  <2>2. id \in 1 .. Len(records) /\ records[id].state # "torn"
    BY DEF Documented
  <2>3. records[id].state # "spoiled"
    BY <1>10, <2>2 DEF Known, DatabaseInv, RecordsInv
  <2>4. records[id].state \in {"torn", "whole", "spoiled"}
    <3>1. records[id] \in RecordType(settings)
      BY <2>2 DEF Known, TypeInv
    <3> QED BY <3>1 DEF RecordType
  <2>5. id \in Usable(listing)
    BY <2>1, <2>2, <2>3, <2>4 DEF Usable, Verified
  <2> DEFINE same == {other \in Usable(listing) : Key(records[other]) = Key(records[id])}
  <2>6. same \subseteq 0 .. Len(records) /\ same # {}
    BY <1>6, <2>5 DEF Usable
  <2>7. Newest(same) \in same /\ \A other \in same : other <= Newest(same)
    <3> HIDE DEF same
    <3> QED BY <1>6, <2>6, NewestIn
  <2>8. Newest(same) \in rows
    BY <2>7 DEF Rebuilt
  <2>9. id \in same /\ Key(records[Newest(same)]) = Key(records[id])
    BY <2>5, <2>7
  <2>10. Newest(same) >= id
    BY <1>6, <2>6, <2>7, <2>9
  <2> QED BY <2>8, <2>9, <2>10
<1> HIDE DEF rows
<1>11. index'.rows = rows /\ index'.state = "ok"
  BY <1>1
<1>12. TypeInv'
  BY <1>1, <1>5, <1>7 DEF Known, TypeInv, HasLimits
<1>13. DatabaseInv'
  <2>1. RecordsInv(settings, run, records)
    BY DEF Known, DatabaseInv
  <2>2. \A t \in settings.sites : WriterInv(settings, records, job'[t])
    BY <1>5, <1>9 DEF Known, DatabaseInv
  <2>3. \A t \in settings.sites, x \in Names(settings) : OriginInv(records, t, x, classes[t][x])
    BY DEF Known, DatabaseInv
  <2>4. ~settings.parallel /\ run.at = "running" =>
          \A id \in Documented(records) :
            Covered(records, rows, run, Writing(settings, job'), id)
    BY <1>10 DEF Covered
  <2> QED BY <1>1, <1>8, <1>11, <2>1, <2>2, <2>3, <2>4 DEF DatabaseInv
<1> QED BY <1>5, <1>12, <1>13 DEF Known

\* Unless threads share the database no other calculation is under way.
LEMMA OthersIdle ==
  ASSUME Known, ~settings.parallel, NEW s \in settings.sites, job[s].at # "idle",
         NEW t \in settings.sites, t # s
  PROVE  job[t].at = "idle" /\ job[t].id = 0
<1>1. job[t].at = "idle"
  BY DEF Known, SitesInv, Alone
<1>2. WriterInv(settings, records, job[t])
  BY DEF Known, DatabaseInv
<1> QED BY <1>1, <1>2 DEF WriterInv

\* The row of a finished document, in place of the one of the same key.
LEMMA RowStep ==
  ASSUME Known, UNCHANGED <<settings, limits, network, run, classes, neb>>,
         NEW s \in settings.sites, job[s].at = "row", WriteRow(job[s].id),
         job' = [job EXCEPT ![s].at = "ok", ![s].id = 0]
  PROVE  Known'
<1> DEFINE id == job[s].id
           k == [job[s] EXCEPT !.at = "ok", !.id = 0]
           rows == Upserted(id)
<1>1. job[s].at \in Calculating
  BY DEF Calculating
<1>2. job[s] \in JobType(settings) /\ WriterInv(settings, records, job[s])
  BY <1>1, AtTarget
<1>3. /\ index' = [state |-> "ok", rows |-> rows] /\ UNCHANGED records
      /\ job' = [job EXCEPT ![s] = k]
  BY DEF WriteRow, Known, TypeInv
<1>4. /\ k \in JobType(settings)
      /\ k.at = "ok" /\ k.member = job[s].member /\ k.env = job[s].env
      /\ k.calc = job[s].calc /\ k.target = job[s].target /\ k.thermo = job[s].thermo
      /\ k.id = 0 /\ k.listing = job[s].listing
  BY <1>2 DEF JobType, Places, Calculating, Early
<1> HIDE DEF k
<1>5. /\ job' \in [settings.sites -> JobType(settings)] /\ SitesInv'
      /\ job'[s] = k /\ \A t \in settings.sites : t # s => job'[t] = job[t]
  <2>1. k.at \in Calculating /\ k.at # "band" /\ k.at \notin Early
    BY <1>4 DEF Calculating, Early
  <2> QED BY <1>1, <1>3, <1>4, <2>1, JobSites
<1>6. /\ id \in 1 .. Len(records) /\ (~settings.parallel => id = Len(records))
      /\ records[id].state # "torn" /\ Len(records) \in Nat
  BY <1>2 DEF WriterInv, Known, TypeInv
<1>7. index.rows \subseteq 1 .. Len(records) /\ RowsInv(records, index.rows)
  BY DEF Known, TypeInv, DatabaseInv
<1>8. rows \subseteq 1 .. Len(records) /\ RowsInv(records, rows)
  BY <1>6, <1>7 DEF Upserted, RowsInv
<1>9. WriterInv(settings, records, k)
  BY <1>2, <1>4 DEF WriterInv
<1>10. ASSUME ~settings.parallel, run.at = "running", NEW old \in Documented(records)
       PROVE  Covered(records, rows, run, Writing(settings, job'), old)
  <2>1. Covered(records, index.rows, run, Writing(settings, job), old)
    BY <1>10 DEF Known, DatabaseInv
  <2>2. old \in 1 .. Len(records) /\ id >= old
    BY <1>6, <1>10 DEF Documented
  <2>3. id \in rows
    BY DEF Upserted
  <2>4. CASE Key(records[old]) = Key(records[id])
    BY <2>2, <2>3, <2>4 DEF Covered
  <2>5. CASE old \in Writing(settings, job)
    <3>1. PICK t \in settings.sites : old = job[t].id
      BY <2>5 DEF Writing
    <3>2. t = s
      BY <2>2, <3>1, <1>10, OthersIdle
    <3> QED BY <2>2, <2>3, <3>1, <3>2 DEF Covered
  <2>6. CASE Key(records[old]) # Key(records[id]) /\ old \notin Writing(settings, job)
    <3>1. ASSUME NEW row \in index.rows, row >= old, Key(records[row]) = Key(records[old])
          PROVE  row \in rows
      BY <2>6, <3>1 DEF Upserted
    <3> QED BY <2>1, <2>6, <3>1 DEF Covered
  <2> QED BY <2>4, <2>5, <2>6
<1> HIDE DEF rows
<1>11. index'.rows = rows /\ index'.state = "ok"
  BY <1>3
<1>12. TypeInv'
  BY <1>3, <1>5, <1>8 DEF Known, TypeInv, HasLimits
<1>13. DatabaseInv'
  <2>1. RecordsInv(settings, run, records)
    BY DEF Known, DatabaseInv
  <2>2. \A t \in settings.sites : WriterInv(settings, records, job'[t])
    BY <1>5, <1>9 DEF Known, DatabaseInv
  <2>3. \A t \in settings.sites, x \in Names(settings) : OriginInv(records, t, x, classes[t][x])
    BY DEF Known, DatabaseInv
  <2> QED BY <1>3, <1>8, <1>10, <1>11, <2>1, <2>2, <2>3 DEF DatabaseInv
<1> QED BY <1>5, <1>12, <1>13 DEF Known

\* The document completes the folder that is being written.
LEMMA DocumentStep ==
  ASSUME Known, UNCHANGED <<settings, limits, network, run, classes, neb>>,
         NEW s \in settings.sites, job[s].at = "document", WriteDocument(job[s].id),
         job' = To(s, "row")
  PROVE  Known'
<1> DEFINE id == job[s].id
           k == [job[s] EXCEPT !.at = "row"]
<1>1. job[s].at \in Calculating
  BY DEF Calculating
<1>2. job[s] \in JobType(settings) /\ WriterInv(settings, records, job[s])
  BY <1>1, AtTarget
<1>3. /\ records' = [records EXCEPT ![id].state = "whole"] /\ UNCHANGED index
      /\ job' = [job EXCEPT ![s] = k]
  BY DEF WriteDocument, To, Known, TypeInv
<1>4. /\ k \in JobType(settings)
      /\ k.at = "row" /\ k.member = job[s].member /\ k.env = job[s].env
      /\ k.calc = job[s].calc /\ k.target = job[s].target /\ k.thermo = job[s].thermo
      /\ k.id = id /\ k.listing = job[s].listing
  BY <1>2 DEF JobType, Places, Calculating, Early
<1> HIDE DEF k
<1>5. /\ job' \in [settings.sites -> JobType(settings)] /\ SitesInv'
      /\ job'[s] = k /\ \A t \in settings.sites : t # s => job'[t] = job[t]
  <2>1. k.at \in Calculating /\ k.at # "band" /\ k.at \notin Early
    BY <1>4 DEF Calculating, Early
  <2> QED BY <1>1, <1>3, <1>4, <2>1, JobSites
<1>6. /\ id \in 1 .. Len(records) /\ (~settings.parallel => id = Len(records))
      /\ Len(records) \in Nat
      /\ records \in Seq(RecordType(settings))
  BY <1>2 DEF WriterInv, Known, TypeInv
<1>7. /\ records' \in Seq(RecordType(settings)) /\ Len(records') = Len(records)
      /\ \A n \in 1 .. Len(records) :
           /\ Key(records'[n]) = Key(records[n])
           /\ records'[n].run = records[n].run /\ records'[n].minima = records[n].minima
           /\ records'[n].site = records[n].site /\ records'[n].env = records[n].env
           /\ records'[n].state = IF n = id THEN "whole" ELSE records[n].state
  <2> DEFINE new == [records[id] EXCEPT !.state = "whole"]
  <2>1. records' = [records EXCEPT ![id] = new]
    BY <1>3
  <2>2. records[id] \in RecordType(settings)
    BY <1>6
  <2>3. /\ new \in RecordType(settings) /\ new.state = "whole"
        /\ new.site = records[id].site /\ new.env = records[id].env
        /\ new.run = records[id].run /\ new.minima = records[id].minima
        /\ new.member = records[id].member /\ new.number = records[id].number
        /\ new.seed = records[id].seed /\ new.thermo = records[id].thermo
    BY <2>2 DEF RecordType
  <2> HIDE DEF new
  <2>4. /\ records' \in Seq(RecordType(settings)) /\ Len(records') = Len(records)
        /\ \A n \in 1 .. Len(records) : records'[n] = IF n = id THEN new ELSE records[n]
    BY <1>6, <2>1, <2>3
  <2> QED BY <2>3, <2>4 DEF Key
<1>8. index.rows \subseteq 1 .. Len(records) /\ RowsInv(records, index.rows)
      /\ RecordsInv(settings, run, records)
  BY DEF Known, TypeInv, DatabaseInv
<1>9. RowsInv(records', index.rows)
  BY <1>7, <1>8 DEF RowsInv
<1>10. RecordsInv(settings, run, records')
  BY <1>7, <1>8 DEF RecordsInv
<1>11. WriterInv(settings, records', k)
  BY <1>2, <1>4, <1>6, <1>7 DEF WriterInv
<1>12. ASSUME NEW t \in settings.sites, t # s
       PROVE  WriterInv(settings, records', job[t])
  <2>1. WriterInv(settings, records, job[t])
    BY DEF Known, DatabaseInv
  <2>2. ~settings.parallel => job[t].at = "idle" /\ job[t].id = 0
    BY <1>12, OthersIdle
  <2> QED BY <1>7, <2>1, <2>2 DEF WriterInv
<1>13. ASSUME NEW t \in settings.sites, NEW x \in Names(settings)
       PROVE  OriginInv(records', t, x, classes[t][x])
  <2>1. OriginInv(records, t, x, classes[t][x])
    BY DEF Known, DatabaseInv
  <2> QED BY <1>7, <2>1 DEF OriginInv
<1>14. ASSUME ~settings.parallel, run.at = "running", NEW old \in Documented(records')
       PROVE  Covered(records', index.rows, run, Writing(settings, job'), old)
  <2>1. old \in 1 .. Len(records) /\ id \in Writing(settings, job')
    BY <1>4, <1>5, <1>7 DEF Documented, Writing
  <2>2. CASE old = id
    BY <2>1, <2>2 DEF Covered
  <2>3. CASE old # id
    <3>1. old \in Documented(records)
      BY <1>7, <1>14, <2>1, <2>3 DEF Documented
    <3>2. Covered(records, index.rows, run, Writing(settings, job), old)
      BY <1>14, <3>1 DEF Known, DatabaseInv
    <3>3. old \in Writing(settings, job) => old \in Writing(settings, job')
      BY <1>4, <1>5, <2>3 DEF Writing
    <3> QED BY <1>7, <1>8, <2>1, <3>2, <3>3 DEF Covered
  <2> QED BY <2>2, <2>3
<1>15. TypeInv'
  BY <1>3, <1>5, <1>7 DEF Known, TypeInv, HasLimits
<1>16. DatabaseInv'
  <2>1. \A t \in settings.sites : WriterInv(settings, records', job'[t])
    BY <1>5, <1>11, <1>12
  <2> QED BY <1>3, <1>9, <1>10, <1>13, <1>14, <2>1 DEF DatabaseInv
<1> QED BY <1>5, <1>15, <1>16 DEF Known

\* A new folder, without its document.
LEMMA AssetsStep ==
  ASSUME Known, UNCHANGED <<settings, limits, network, run, classes, neb>>,
         NEW s \in settings.sites,
         NEW content \in [path : BOOLEAN, minima : Minima(settings),
                          seen : Signatures(settings), run : {run.number}],
         Adsorbs(settings) => content.minima = {},
         Assets(s, content)
  PROVE  Known'
<1> DEFINE id == Len(records) + 1
           k == [job[s] EXCEPT !.at = "document", !.id = id]
           torn == Torn(Request(s), content)
<1>1. job[s].at = "assets" /\ job[s].at \in Calculating
  BY DEF Assets, Calculating
<1>2. /\ job[s] \in JobType(settings) /\ WriterInv(settings, records, job[s])
      /\ Target(s) \in ClassType(settings)
  BY <1>1, AtTarget
<1>3. /\ records' = Append(records, torn) /\ UNCHANGED index
      /\ job' = [job EXCEPT ![s] = k]
  BY DEF Assets, WriteAssets, Known, TypeInv
<1>4. records \in Seq(RecordType(settings)) /\ Len(records) \in Nat /\ id \in Nat
      /\ index.rows \subseteq 1 .. Len(records)
  BY DEF Known, TypeInv
<1>5. /\ k \in JobType(settings)
      /\ k.at = "document" /\ k.member = job[s].member /\ k.env = job[s].env
      /\ k.calc = job[s].calc /\ k.target = job[s].target /\ k.thermo = job[s].thermo
      /\ k.id = id /\ k.listing = job[s].listing
  BY <1>2, <1>4 DEF JobType, Places, Calculating, Early
<1>6. /\ torn \in RecordType(settings)
      /\ torn.state = "torn" /\ torn.run = run.number /\ torn.minima = content.minima
  <2>1. /\ job[s].member \in Seeds(settings) /\ job[s].seed \in Seeds(settings)
        /\ job[s].thermo \in Thermos(settings) /\ job[s].target \in Names(settings)
        /\ Target(s).number \in Nat /\ Bare \in Names(settings)
    BY <1>2, NoneTyped DEF JobType, ClassType
  <2>2. run.number \in Nat
    BY DEF Known, TypeInv
  <2>3. content.path \in BOOLEAN
    OBVIOUS
  <2> QED BY <2>1, <2>2, <2>3 DEF Torn, Request, RecordType
<1> HIDE DEF k, torn
<1>7. /\ job' \in [settings.sites -> JobType(settings)] /\ SitesInv'
      /\ job'[s] = k /\ \A t \in settings.sites : t # s => job'[t] = job[t]
  <2>1. k.at \in Calculating /\ k.at # "band" /\ k.at \notin Early
    BY <1>5 DEF Calculating, Early
  <2> QED BY <1>1, <1>3, <1>5, <2>1, JobSites
<1>8. /\ records' \in Seq(RecordType(settings)) /\ Len(records') = id
      /\ records'[id] = torn
      /\ \A n \in 1 .. Len(records) : records'[n] = records[n]
  BY <1>3, <1>4, <1>6
<1>9. RowsInv(records, index.rows) /\ RecordsInv(settings, run, records)
  BY DEF Known, DatabaseInv
<1>10. RowsInv(records', index.rows)
  BY <1>4, <1>8, <1>9 DEF RowsInv
<1>11. RecordsInv(settings, run, records')
  <2>1. run.number <= run.number
    BY DEF Known, TypeInv
  <2>2. \A n \in 1 .. id : n = id \/ n \in 1 .. Len(records)
    BY <1>4
  <2> QED BY <1>4, <1>6, <1>8, <1>9, <2>1, <2>2 DEF RecordsInv
<1>12. WriterInv(settings, records', k)
  BY <1>2, <1>4, <1>5, <1>8 DEF WriterInv
<1>13. ASSUME NEW t \in settings.sites, t # s
       PROVE  WriterInv(settings, records', job[t])
  <2>1. WriterInv(settings, records, job[t])
    BY DEF Known, DatabaseInv
  <2>2. ~settings.parallel => job[t].at = "idle" /\ job[t].id = 0
    <3>1. job[s].at # "idle"
      BY <1>1
    <3> QED BY <1>13, <3>1, OthersIdle
  <2> QED BY <1>4, <1>8, <2>1, <2>2 DEF WriterInv
<1>14. ASSUME NEW t \in settings.sites, NEW x \in Names(settings)
       PROVE  OriginInv(records', t, x, classes[t][x])
  <2>1. OriginInv(records, t, x, classes[t][x])
    BY DEF Known, DatabaseInv
  <2> QED BY <1>4, <1>8, <2>1 DEF OriginInv
<1>15. ASSUME ~settings.parallel, run.at = "running", NEW old \in Documented(records')
       PROVE  Covered(records', index.rows, run, Writing(settings, job'), old)
  <2>1. old \in 1 .. Len(records) /\ old \in Documented(records)
    BY <1>4, <1>6, <1>8, <1>15 DEF Documented
  <2>2. Covered(records, index.rows, run, Writing(settings, job), old)
    BY <1>15, <2>1 DEF Known, DatabaseInv
  <2>3. old \in Writing(settings, job) => old \in Writing(settings, job')
    <3>1. job[s].id = 0 /\ old # 0
      BY <1>1, <1>2, <2>1 DEF WriterInv
    <3> QED BY <1>7, <3>1 DEF Writing
  <2> QED BY <1>4, <1>8, <2>1, <2>2, <2>3 DEF Covered
<1>16. TypeInv'
  <2>1. index.rows \subseteq 1 .. Len(records')
    BY <1>4, <1>8
  <2>2. index \in [state : {"absent", "ok", "damaged"}, rows : SUBSET (1 .. Len(records'))]
    BY <2>1 DEF Known, TypeInv
  <2> QED BY <1>3, <1>7, <1>8, <2>2 DEF Known, TypeInv, HasLimits
<1>17. DatabaseInv'
  <2>1. \A t \in settings.sites : WriterInv(settings, records', job'[t])
    BY <1>7, <1>12, <1>13
  <2> QED BY <1>3, <1>10, <1>11, <1>14, <1>15, <2>1 DEF DatabaseInv
<1> QED BY <1>7, <1>16, <1>17 DEF Known

LEMMA WriteStep ==
  ASSUME Known, UNCHANGED <<settings, limits>>, NEW s \in settings.sites, Write(s)
  PROVE  Known'
<1>1. UNCHANGED <<network, run, classes, neb>>
  BY DEF Write, bandVars
<1> DEFINE Contents == [path : BOOLEAN, minima : Minima(settings),
                        seen : Signatures(settings), run : {run.number}]
<1>2. CASE WriteAdsorption(s)
  <2>1. AdsorptionContent(s) \in Contents /\ AdsorptionContent(s).minima = {}
    BY NoneTyped DEF AdsorptionContent
  <2>2. Assets(s, AdsorptionContent(s))
    BY <1>2 DEF WriteAdsorption
  <2> QED BY <1>1, <2>1, <2>2, AssetsStep
<1>3. CASE WriteDiffusion(s) \/ WriteBond(s)
  <2>1. Assets(s, TransitionContent(s)) /\ ~Adsorbs(settings)
    BY <1>3 DEF WriteDiffusion, WriteBond, IsDiffusion, IsBond, Adsorbs
  <2>2. job[s].at \in Calculating
    BY <2>1 DEF Assets, Calculating
  <2>3. Target(s).minima \in Minima(settings) /\ Target(s).seen \in Signatures(settings)
    BY <2>2, AtTarget DEF ClassType
  <2>4. (settings.persist \/ Target(s).path # None) \in BOOLEAN
    OBVIOUS
  <2>5. TransitionContent(s) \in Contents
    BY <2>3, <2>4 DEF TransitionContent
  <2> QED BY <1>1, <2>1, <2>5, AssetsStep
<1>4. CASE job[s].at = "document" /\ WriteDocument(job[s].id) /\ job' = To(s, "row")
  BY <1>1, <1>4, DocumentStep
<1>5. CASE /\ job[s].at = "row" /\ WriteRow(job[s].id)
           /\ job' = [job EXCEPT ![s].at = "ok", ![s].id = 0]
  BY <1>1, <1>5, RowStep
<1> QED BY <1>2, <1>3, <1>4, <1>5 DEF Write

---------------------------------------------------------------------------
(* Runs.                                                                   *)

\* What is known of a run that has just begun, or has ended.
LEMMA NothingHeld ==
  /\ NoClasses \in [settings.sites -> [Names(settings) -> ClassType(settings)]]
  /\ NoJobs \in [settings.sites -> JobType(settings)]
  /\ \A r, sig, place : \A s \in settings.sites :
       SiteInv(settings, r, sig, place, NoClasses[s], NoJobs[s])
  /\ Alone(settings, NoJobs)
  /\ \A recs : \A s \in settings.sites :
       /\ WriterInv(settings, recs, NoJobs[s])
       /\ \A x \in Names(settings) : OriginInv(recs, s, x, NoClasses[s][x])
<1>1. Fresh(0, {}) \in ClassType(settings) /\ IdleJob \in JobType(settings)
  BY FreshTyped, IdleTyped
<1>2. /\ NoClasses \in [settings.sites -> [Names(settings) -> ClassType(settings)]]
      /\ NoJobs \in [settings.sites -> JobType(settings)]
      /\ \A s \in settings.sites : /\ NoJobs[s] = IdleJob
                                   /\ \A x \in Names(settings) : NoClasses[s][x] = Fresh(0, {})
  BY <1>1, NamesOfClasses DEF NoClasses, NoJobs
<1>3. /\ Fresh(0, {}).latched = FALSE /\ Fresh(0, {}).stable = "undecided"
      /\ Fresh(0, {}).status = "none" /\ Fresh(0, {}).thermo = None
      /\ Fresh(0, {}).minima = {} /\ Fresh(0, {}).from = 0
  BY DEF Fresh
<1>4. IdleJob.at = "idle" /\ IdleJob.id = 0 /\ IdleJob.listing = {}
  BY DEF IdleJob
<1>5. \A r : \A x : ClassInv(settings, r, x, Fresh(0, {}))
  BY <1>3 DEF ClassInv, Open, Admissible
<1>6. \A r, sig, place : \A s \in settings.sites :
        SiteInv(settings, r, sig, place, NoClasses[s], NoJobs[s])
  BY <1>2, <1>4, <1>5 DEF SiteInv, Calculating, Early
<1>7. Alone(settings, NoJobs)
  BY <1>2, <1>4 DEF Alone
<1>8. \A recs : \A s \in settings.sites :
        /\ WriterInv(settings, recs, NoJobs[s])
        /\ \A x \in Names(settings) : OriginInv(recs, s, x, NoClasses[s][x])
  BY <1>2, <1>3, <1>4 DEF WriterInv, OriginInv
<1> QED BY <1>2, <1>6, <1>7, <1>8

LEMMA EndsStep ==
  ASSUME Known, UNCHANGED <<settings, limits>>, Ends,
         run' = [at |-> "between", number |-> run.number, faults |-> run'.faults]
  PROVE  Known'
<1>1. /\ network' = 1 /\ classes' = NoClasses /\ job' = NoJobs
      /\ UNCHANGED <<records, index>>
  BY DEF Ends, Forget, cacheVars
<1>2. run'.at = "between" /\ run'.number = run.number
  OBVIOUS
<1>3. NoClasses' = NoClasses /\ NoJobs' = NoJobs
  BY DEF NoClasses, NoJobs, ClassNames
<1>4. TypeInv'
  <2>1. 1 \in 1 .. Len(settings.networks)
    BY ConfigurationAssumption DEF Known, TypeInv, HasLimits
  <2> QED BY <1>1, <1>2, <2>1, NothingHeld DEF Known, TypeInv, HasLimits
<1>5. SitesInv'
  BY <1>1, <1>3, NothingHeld DEF SitesInv
<1>6. DatabaseInv'
  <2>1. RecordsInv(settings, run', records)
    BY <1>2 DEF Known, DatabaseInv, RecordsInv
  <2> QED BY <1>1, <1>2, <2>1, NothingHeld DEF Known, DatabaseInv
<1> QED BY <1>4, <1>5, <1>6 DEF Known

LEMMA RunEndsStep ==
  ASSUME Known, UNCHANGED <<settings, limits>>,
         \/ Finishes \/ Crashes
         \/ \E s \in settings.sites : WriteRaises(s) \/ ConstructionRaises(s)
  PROVE  Known'
<1>1. run = [at |-> run.at, number |-> run.number, faults |-> run.faults]
  BY DEF Known, TypeInv
<1>2. Ends /\ (run' = [run EXCEPT !.at = "between"]
               \/ run' = [run EXCEPT !.at = "between", !.faults = @ - 1])
  BY DEF Finishes, Crashes, WriteRaises, ConstructionRaises
<1>3. run' = [at |-> "between", number |-> run.number, faults |-> run'.faults]
  BY <1>1, <1>2
<1> QED BY <1>2, <1>3, EndsStep

\* Files suffer between two runs, when no class refers to them.
LEMMA FilesSufferStep ==
  ASSUME Known, UNCHANGED <<settings, limits>>, FilesSuffer
  PROVE  Known'
<1>1. /\ run.at = "between" /\ run' = [run EXCEPT !.faults = @ - 1]
      /\ UNCHANGED <<network, classes, job, neb>>
  BY DEF FilesSuffer, lateralVars, bandVars
<1>2. /\ run' = [at |-> "between", number |-> run.number, faults |-> run'.faults]
      /\ run'.at = "between" /\ run'.number = run.number
  BY <1>1 DEF Known, TypeInv
<1>3. classes = NoClasses /\ job = NoJobs
  BY <1>1 DEF Known, SitesInv
<1>4. NoClasses' = NoClasses /\ NoJobs' = NoJobs
  BY DEF NoClasses, NoJobs, ClassNames
<1>5. SitesInv'
  BY <1>1, <1>3, <1>4, NothingHeld DEF SitesInv
<1>6. records \in Seq(RecordType(settings)) /\ Len(records) \in Nat
      /\ index.rows \subseteq 1 .. Len(records)
      /\ RowsInv(records, index.rows) /\ RecordsInv(settings, run, records)
  BY DEF Known, TypeInv, DatabaseInv
<1>7. CASE SpoilRecord
  <2>1. PICK id \in 1 .. Len(records) : records' = [records EXCEPT ![id].state = "spoiled"]
    BY <1>7 DEF SpoilRecord
  <2> DEFINE new == [records[id] EXCEPT !.state = "spoiled"]
  <2>2. records' = [records EXCEPT ![id] = new] /\ records[id] \in RecordType(settings)
    BY <1>6, <2>1
  <2>3. /\ new \in RecordType(settings) /\ new.state = "spoiled"
        /\ new.site = records[id].site /\ new.env = records[id].env
        /\ new.run = records[id].run /\ new.minima = records[id].minima
        /\ new.member = records[id].member /\ new.number = records[id].number
        /\ new.seed = records[id].seed /\ new.thermo = records[id].thermo
    BY <2>2 DEF RecordType
  <2> HIDE DEF new
  <2>4. /\ records' \in Seq(RecordType(settings)) /\ Len(records') = Len(records)
        /\ \A n \in 1 .. Len(records) : records'[n] = IF n = id THEN new ELSE records[n]
    BY <1>6, <2>2, <2>3
  <2>5. \A n \in 1 .. Len(records) :
          /\ Key(records'[n]) = Key(records[n])
          /\ records'[n].run = records[n].run /\ records'[n].minima = records[n].minima
          /\ records'[n].state # "torn" \/ records'[n].state = records[n].state
    BY <2>3, <2>4 DEF Key
  <2>6. index' = index
    BY <1>7 DEF SpoilRecord
  <2>7. RowsInv(records', index.rows)
    BY <1>6, <2>5 DEF RowsInv
  <2>8. RecordsInv(settings, run', records')
    BY <1>2, <1>6, <2>4, <2>5 DEF RecordsInv
  <2>9. DatabaseInv'
    BY <1>1, <1>2, <1>3, <2>6, <2>7, <2>8, NothingHeld DEF DatabaseInv
  <2>10. TypeInv'
    BY <1>1, <1>2, <2>4, <2>6 DEF Known, TypeInv, HasLimits
  <2> QED BY <1>5, <2>9, <2>10 DEF Known
<1>8. CASE LoseIndex
  <2>1. /\ records' = records /\ index'.rows = {}
        /\ index' \in [state : {"absent", "ok", "damaged"}, rows : SUBSET (1 .. Len(records))]
    BY <1>8 DEF LoseIndex
  <2>2. RowsInv(records, {}) /\ RecordsInv(settings, run', records)
    BY <1>2, <1>6 DEF RowsInv, RecordsInv
  <2>3. DatabaseInv'
    BY <1>1, <1>2, <1>3, <2>1, <2>2, NothingHeld DEF DatabaseInv
  <2>4. TypeInv'
    BY <1>1, <1>2, <2>1 DEF Known, TypeInv, HasLimits
  <2> QED BY <1>5, <2>3, <2>4 DEF Known
<1> QED BY <1>7, <1>8 DEF FilesSuffer

\* A new run has no results in the database yet.
LEMMA RunStartsStep ==
  ASSUME Known, UNCHANGED <<settings, limits>>, RunStarts
  PROVE  Known'
<1>1. /\ run.at = "between" /\ run.number < Len(settings.runs)
      /\ run' = [run EXCEPT !.at = "running", !.number = @ + 1]
      /\ UNCHANGED <<network, classes, job, neb, records, index>>
  BY DEF RunStarts, lateralVars, bandVars, cacheVars
<1>2. /\ run' = [at |-> "running", number |-> run.number + 1, faults |-> run.faults]
      /\ run'.at = "running" /\ run'.number = run.number + 1
      /\ run'.number \in 1 .. Len(settings.runs)
  <2>1. run = [at |-> run.at, number |-> run.number, faults |-> run.faults]
        /\ run.number \in 1 .. Len(settings.runs) /\ Len(settings.runs) \in Nat
    BY ConfigurationAssumption DEF Known, TypeInv, HasLimits
  <2>2. run' = [at |-> "running", number |-> run.number + 1, faults |-> run.faults]
    BY <1>1, <2>1
  <2>3. run.number + 1 \in 1 .. Len(settings.runs)
    BY <1>1, <2>1
  <2> QED BY <2>2, <2>3
<1>3. classes = NoClasses /\ job = NoJobs
  BY <1>1 DEF Known, SitesInv
<1>4. NoClasses' = NoClasses /\ NoJobs' = NoJobs
  BY DEF NoClasses, NoJobs, ClassNames
<1>5. SitesInv'
  BY <1>1, <1>2, <1>3, NothingHeld DEF SitesInv
<1>6. TypeInv'
  <2>1. /\ (run = [at |-> run.at, number |-> run.number, faults |-> run.faults])'
        /\ run'.at \in {"running", "between"}
    BY <1>2
  <2> QED BY <1>1, <1>2, <2>1 DEF Known, TypeInv, HasLimits
<1>7. \A id \in 1 .. Len(records) :
        /\ records[id].run <= run'.number /\ records[id].run # run'.number
        /\ Adsorbs(settings) => records[id].minima = {}
  <2>1. ASSUME NEW id \in 1 .. Len(records) PROVE records[id].run \in Nat
    <3>1. records[id] \in RecordType(settings)
      BY DEF Known, TypeInv
    <3> QED BY <3>1 DEF RecordType
  <2>2. run.number \in Nat
    BY DEF Known, TypeInv
  <2> QED BY <1>2, <2>1, <2>2 DEF Known, DatabaseInv, RecordsInv
<1>8. DatabaseInv'
  <2>1. RecordsInv(settings, run', records)
    BY <1>7 DEF RecordsInv
  <2>2. \A id \in Documented(records) :
          Covered(records, index.rows, run', Writing(settings, job'), id)
    BY <1>7 DEF Documented, Covered
  <2> QED BY <1>1, <1>3, <2>1, <2>2, NothingHeld DEF Known, DatabaseInv
<1> QED BY <1>5, <1>6, <1>8 DEF Known

---------------------------------------------------------------------------
(* The invariant.                                                          *)

LEMMA InitKnown == Init => Known
<1> SUFFICES ASSUME Init PROVE Known
  OBVIOUS
<1>1. /\ HasLimits /\ network = 1 /\ classes = NoClasses /\ job = NoJobs
      /\ records = <<>> /\ index = [state |-> "absent", rows |-> {}]
      /\ run = [number |-> 1, at |-> "running", faults |-> settings.faults]
  BY DEF Init, LateralInit, CacheInit, HasLimits
<1>2. 1 \in 1 .. Len(settings.networks) /\ 1 \in 1 .. Len(settings.runs)
  BY <1>1, ConfigurationAssumption DEF HasLimits
<1>3. /\ run = [at |-> run.at, number |-> run.number, faults |-> run.faults]
      /\ run.at = "running" /\ run.number = 1
  BY <1>1
<1>4. records \in Seq(RecordType(settings)) /\ Len(records) = 0 /\ index.rows = {}
      /\ index \in [state : {"absent", "ok", "damaged"}, rows : SUBSET (1 .. Len(records))]
  BY <1>1
<1>5. TypeInv
  BY <1>1, <1>2, <1>3, <1>4, NothingHeld DEF TypeInv
<1>6. SitesInv
  BY <1>1, <1>3, NothingHeld DEF SitesInv
<1>7. DatabaseInv
  <2>1. 1 .. Len(records) = {}
    BY <1>4
  <2>2. Documented(records) = {} /\ RecordsInv(settings, run, records)
    BY <2>1 DEF Documented, RecordsInv
  <2>3. RowsInv(records, index.rows)
    BY <1>4 DEF RowsInv
  <2>4. /\ \A s \in settings.sites : WriterInv(settings, records, job[s])
        /\ \A s \in settings.sites, x \in Names(settings) :
             OriginInv(records, s, x, classes[s][x])
    BY <1>1, NothingHeld
  <2> QED BY <2>2, <2>3, <2>4 DEF DatabaseInv
<1> QED BY <1>5, <1>6, <1>7 DEF Known

LEMMA CalculateStep ==
  ASSUME Known, BandInv, UNCHANGED <<settings, limits>>,
         NEW s \in settings.sites, Calculate(s)
  PROVE  Known'
<1>1. CASE Warm(s) \/ Live(s) \/ Start(s)
  BY <1>1, WarmStep, LiveStep, StartStep
<1>2. CASE LookupMisses(s) \/ LookupHits(s) \/ RebuildStarts(s) \/ RebuildEnds(s)
  BY <1>2, LookupMissesStep, LookupHitsStep, RebuildStartsStep, RebuildEndsStep
<1>3. CASE Relax(s) \/ RelaxEnds(s) \/ Validate(s) \/ Thermo(s)
  BY <1>3, RelaxStep, RelaxEndsStep, ValidateStep, ThermoStep
<1>4. CASE BandStarts(s) \/ BandMoves(s) \/ BandRefines(s) \/ RefineFails(s) \/ BandReturns(s)
  BY <1>4, BandStartsStep, BandRefinesStep, BandReturnsStep
<1>5. CASE Write(s) \/ Return(s)
  BY <1>5, WriteStep, ReturnStep
<1>6. CASE ConstructionRaises(s) \/ WriteRaises(s)
  BY <1>6, RunEndsStep
<1> QED BY <1>1, <1>2, <1>3, <1>4, <1>5, <1>6 DEF Calculate

LEMMA NextKeepsKnown ==
  ASSUME Known, BandInv, [Next]_vars
  PROVE  Known'
<1>1. CASE UNCHANGED vars
  BY <1>1, OffersAside DEF vars
<1>2. CASE Next
  <2>1. UNCHANGED <<settings, limits>>
    BY <1>2 DEF Next
  <2>2. CASE \E s \in settings.sites : Evaluate(s)
    BY <2>1, <2>2, EvaluateStep
  <2>3. CASE \E s \in settings.sites : Calculate(s)
    BY <2>1, <2>3, CalculateStep
  <2>4. CASE Grow
    BY <2>1, <2>4, GrowStep
  <2>5. CASE BetweenRuns
    BY <2>1, <2>5, RunEndsStep, FilesSufferStep, RunStartsStep DEF BetweenRuns
  <2> QED BY <1>2, <2>2, <2>3, <2>4, <2>5 DEF Next
<1> QED BY <1>1, <1>2

\* What the classes, the evaluations, the band and the database hold of each
\* other at every moment (check_*_stability, the get_applicable_* functions,
\* run_neb, io/calculation_cache.py); runs are killed and files damaged.
THEOREM ChecksInvariance == Spec => []IInv
<1>1. Init => IInv
  BY NebInitial, InitKnown DEF IInv, Known
<1>2. IInv /\ [Next]_vars => IInv'
  BY NextKeepsBand, NextKeepsKnown DEF IInv, Known
<1> QED BY <1>1, <1>2, PTL DEF Spec

\* Every row of the index points at a finished folder, no two rows share a
\* key, and a class that came out of the database is in it as a result for
\* the same site and surroundings; and unless threads share the database, no
\* finished result of a run is without its row while the run lasts
\* (write_calculation_record, rebuild_calculation_index and the hydration of
\* the classes).
THEOREM DatabaseSoundHolds == Spec => []DatabaseSound
<1>1. IInv => DatabaseSound
  <2> SUFFICES ASSUME IInv PROVE DatabaseSound
    OBVIOUS
  <2>1. \A id \in index.rows :
          /\ records[id].state # "torn"
          /\ \A other \in index.rows : Key(records[other]) = Key(records[id]) => other = id
    BY DEF IInv, DatabaseInv, RowsInv
  <2>2. ASSUME NEW s \in settings.sites, NEW x \in ClassNames, classes[s][x].from # 0
        PROVE  /\ records[classes[s][x].from].state = "whole"
               /\ records[classes[s][x].from].site = s
               /\ records[classes[s][x].from].env = IF x = Copy THEN Bare ELSE x
    BY <2>2, NamesOfClasses DEF IInv, DatabaseInv, OriginInv
  <2>3. ASSUME ~settings.parallel, run.at = "running", NEW id \in Documents
        PROVE  \/ records[id].run # run.number
               \/ Finishing(id)
               \/ \E row \in index.rows : row >= id /\ Key(records[row]) = Key(records[id])
    <3>1. id \in Documented(records)
      BY <2>3 DEF Documents, Documented
    <3>2. Covered(records, index.rows, run, Writing(settings, job), id)
      BY <2>3, <3>1 DEF IInv, DatabaseInv
    <3>3. id \in Writing(settings, job) => Finishing(id)
      BY DEF Writing, Finishing
    <3> QED BY <3>2, <3>3 DEF Covered
  <2> QED BY <2>1, <2>2, <2>3 DEF DatabaseSound
<1> QED BY <1>1, ChecksInvariance, PTL

---------------------------------------------------------------------------
(* What is offered.                                                        *)

OffersInv ==
  offers \in [settings.sites -> [settings.members -> Names(settings) \cup {None}]]

\* The member and the surroundings of an evaluation are those of the site.
LEMMA MemberEvaluated ==
  ASSUME Known, NEW s \in settings.sites, job[s].at # "idle"
  PROVE  job[s].member \in settings.members /\ job[s].env \in Names(settings)
<1>1. /\ classes[s] \in [Names(settings) -> ClassType(settings)]
      /\ job[s].env \in Names(settings)
      /\ EvaluationInv(settings, ThisRun, SignatureOf(Net), classes[s], job[s])
  BY AtEvaluation
<1>2. classes[s][job[s].env].members \subseteq settings.members
  BY <1>1 DEF ClassType
<1> QED BY <1>1, <1>2 DEF EvaluationInv

\* A step of one site leaves the others alone, unless it ends the run.
LEMMA OthersStay ==
  ASSUME TypeInv, NEW t \in settings.sites, Calculate(t) \/ Evaluate(t),
         NEW s \in settings.sites, s # t
  PROVE  (job'[s] = job[s] /\ classes'[s] = classes[s]) \/ Ends
<1> USE DEF TypeInv
<1>1. CASE Evaluate(t)
  BY <1>1 DEF Evaluate, EvaluateAdsorption, EvaluateDiffusion, EvaluateBond, Evaluated, NotApplicable
<1>2. CASE Warm(t)
  BY <1>2 DEF Warm, WarmDiffusion, WarmBond, WarmStart
<1>3. CASE Live(t) \/ Start(t)
  BY <1>3 DEF Live, JudgeAdsorption, JudgeDiffusion, JudgeBond, Judge, Start, To
<1>4. CASE LookupMisses(t) \/ RebuildStarts(t) \/ RebuildEnds(t)
  BY <1>4 DEF LookupMisses, RebuildStarts, RebuildEnds, To
<1>5. CASE LookupHits(t)
  BY <1>5 DEF LookupHits, AdsorptionHit, DiffusionHit, BondHit, TransitionHit, SpectatorsMoved,
    To, Becomes
<1>6. CASE Relax(t)
  BY <1>6 DEF Relax, RelaxAdsorption, RelaxEndpoints, RelaxReactants, RelaxSurfaceProduct,
    RelaxGasProduct, RelaxGasPrecursor, Relaxed, Keeps, ComesApart, To, Becomes
<1>7. CASE RelaxEnds(t) \/ Validate(t)
  BY <1>7 DEF RelaxEnds, Validate, ValidateDiffusion, ValidateBond, Validated, To
<1>8. CASE BandStarts(t) \/ BandMoves(t) \/ RefineFails(t)
  BY <1>8 DEF BandStarts, BandMoves, RefineFails, lateralVars
<1>9. CASE BandRefines(t) \/ BandReturns(t)
  BY <1>9 DEF BandRefines, BandReturns, To, Becomes
<1>10. CASE Thermo(t)
  BY <1>10 DEF Thermo, ThermoAdsorption, ThermoDiffusion, ThermoBond, Finished, To, Becomes
<1>11. CASE Write(t)
  BY <1>11 DEF Write, WriteAdsorption, WriteDiffusion, WriteBond, Assets, To
<1>12. CASE Return(t)
  BY <1>12 DEF Return, WarmReturns, LiveReturns, OfferAdsorption, OfferDiffusion, OfferBond, Offer
<1>13. CASE ConstructionRaises(t) \/ WriteRaises(t)
  BY <1>13 DEF ConstructionRaises, WriteRaises
<1> QED
  BY <1>1, <1>2, <1>3, <1>4, <1>5, <1>6, <1>7, <1>8, <1>9, <1>10, <1>11, <1>12, <1>13
  DEF Calculate

\* All that happens to a result is that it is offered.
LEMMA OfferOnly ==
  ASSUME NEW s \in settings.sites, job[s].at = "offer", Calculate(s)
  PROVE  Offer(s)
<1>1. ~Warm(s) /\ ~Live(s) /\ ~Start(s)
  BY DEF Warm, WarmDiffusion, WarmBond, WarmStart, Live, JudgeAdsorption, JudgeDiffusion,
    JudgeBond, Judge, Start
<1>2. ~LookupMisses(s) /\ ~LookupHits(s) /\ ~RebuildStarts(s) /\ ~RebuildEnds(s)
  BY DEF LookupMisses, LookupHits, RebuildStarts, RebuildEnds
<1>3. ~Relax(s) /\ ~RelaxEnds(s) /\ ~Validate(s) /\ ~Thermo(s)
  BY DEF Relax, RelaxAdsorption, RelaxEndpoints, RelaxReactants, RelaxSurfaceProduct,
    RelaxGasProduct, RelaxGasPrecursor, Relaxed, RelaxEnds, Validate, ValidateDiffusion,
    ValidateBond, Validated, Thermo, ThermoAdsorption, ThermoDiffusion, ThermoBond, Finished
<1>4. ~BandStarts(s) /\ ~BandMoves(s) /\ ~BandRefines(s) /\ ~RefineFails(s) /\ ~BandReturns(s)
  BY DEF BandStarts, DiffusionBand, BondBand, BandBuilt, BandMoves, BandRefines, RefineFails,
    BandReturns
<1>5. ~Write(s) /\ ~WriteRaises(s) /\ ~ConstructionRaises(s)
  BY DEF Write, WriteAdsorption, WriteDiffusion, WriteBond, Assets, WriteRaises,
    ConstructionRaises, MatchingRaises, LiftingRaises, Unmatched
<1>6. ~WarmReturns(s) /\ ~LiveReturns(s)
  BY DEF WarmReturns, LiveReturns, Outcomes
<1>7. Return(s)
  BY <1>1, <1>2, <1>3, <1>4, <1>5 DEF Calculate
<1> QED BY <1>6, <1>7 DEF Return, OfferAdsorption, OfferDiffusion, OfferBond

\* Offers are made and withdrawn one at a time, or all are forgotten.
LEMMA OffersMove ==
  ASSUME Known, Next
  PROVE  \/ UNCHANGED offers
         \/ \E s \in settings.sites : Offer(s)
         \/ \E s \in settings.sites, m \in settings.members : NotApplicable(s, m)
         \/ Ends
<1>1. CASE \E s \in settings.sites : Evaluate(s)
  BY <1>1 DEF Evaluate, EvaluateAdsorption, EvaluateDiffusion, EvaluateBond, Evaluated
<1>2. ASSUME NEW s \in settings.sites, Calculate(s)
      PROVE  UNCHANGED offers \/ Offer(s) \/ Ends
  <2>1. CASE Warm(s) \/ Live(s) \/ Start(s)
    BY <2>1 DEF Warm, WarmDiffusion, WarmBond, WarmStart, Live, JudgeAdsorption,
      JudgeDiffusion, JudgeBond, Judge, Start
  <2>2. CASE LookupMisses(s) \/ LookupHits(s) \/ RebuildStarts(s) \/ RebuildEnds(s)
    BY <2>2 DEF LookupMisses, LookupHits, RebuildStarts, RebuildEnds
  <2>3. CASE Relax(s) \/ RelaxEnds(s) \/ Validate(s) \/ Thermo(s) \/ Write(s)
    BY <2>3 DEF Relax, RelaxEnds, Validate, Thermo, Write
  <2>4. CASE BandStarts(s) \/ BandMoves(s) \/ BandRefines(s) \/ RefineFails(s) \/ BandReturns(s)
    BY <2>4 DEF BandStarts, BandMoves, BandRefines, RefineFails, BandReturns, lateralVars
  <2>5. CASE Return(s)
    BY <2>5 DEF Return, WarmReturns, LiveReturns, OfferAdsorption, OfferDiffusion, OfferBond
  <2>6. CASE ConstructionRaises(s) \/ WriteRaises(s)
    BY <2>6 DEF ConstructionRaises, WriteRaises
  <2> QED BY <1>2, <2>1, <2>2, <2>3, <2>4, <2>5, <2>6 DEF Calculate
<1>3. CASE Grow
  BY <1>3 DEF Grow, NetworkGrows
<1>4. CASE BetweenRuns
  BY <1>4 DEF BetweenRuns, Finishes, Crashes, FilesSuffer, RunStarts, lateralVars
<1> QED BY <1>1, <1>2, <1>3, <1>4 DEF Next

LEMMA NextKeepsOffers ==
  ASSUME Known, OffersInv, [Next]_vars
  PROVE  OffersInv'
<1>1. CASE UNCHANGED vars
  BY <1>1 DEF vars, OffersInv
<1>2. CASE Next
  <2>1. UNCHANGED settings
    BY <1>2 DEF Next
  <2>2. CASE UNCHANGED offers
    BY <2>1, <2>2 DEF OffersInv
  <2>3. ASSUME NEW s \in settings.sites, Offer(s)
        PROVE  OffersInv'
    <3>1. job[s].member \in settings.members /\ job[s].env \in Names(settings)
      <4>1. job[s].at # "idle"
        BY <2>3 DEF Offer
      <4> QED BY <4>1, MemberEvaluated
    <3>2. PICK x \in {job[s].env, None} : offers' = [offers EXCEPT ![s][job[s].member] = x]
      BY <2>3 DEF Offer
    <3> QED BY <2>1, <3>1, <3>2 DEF OffersInv
  <2>4. ASSUME NEW s \in settings.sites, NEW m \in settings.members, NotApplicable(s, m)
        PROVE  OffersInv'
    BY <2>1, <2>4 DEF NotApplicable, OffersInv
  <2>5. CASE Ends
    BY <2>1, <2>5 DEF Ends, Forget, NoOffers, OffersInv
  <2> QED BY <1>2, <2>2, <2>3, <2>4, <2>5, OffersMove
<1> QED BY <1>1, <1>2

LEMMA OffersTyped == Spec => []OffersInv
<1>1. Init => OffersInv
  BY DEF Init, LateralInit, NoOffers, OffersInv
<1>2. IInv /\ OffersInv /\ [Next]_vars => OffersInv'
  BY NextKeepsOffers DEF IInv, Known
<1> QED BY <1>1, <1>2, ChecksInvariance, PTL DEF Spec

\* A member that becomes offered had its result offered to the engine.
LEMMA OffersOnly ==
  ASSUME Known, OffersInv, [Next]_vars, NEW s \in settings.sites, Offering(s)
  PROVE  Offer(s)
<1>1. job[s].at = "offer" /\ job'[s].at = "idle" /\ offers'[s][job[s].member] # None
  BY DEF Offering
<1>2. job[s].member \in settings.members
  BY <1>1, MemberEvaluated
<1>3. ~Ends
  BY <1>1, <1>2 DEF Ends, Forget, NoOffers
<1>4. job'[s] # job[s]
  BY <1>1
<1>5. PICK t \in settings.sites : Evaluate(t) \/ Calculate(t)
  BY <1>3, <1>4
  DEF Next, vars, Grow, NetworkGrows, BetweenRuns, Finishes, Crashes, FilesSuffer, RunStarts,
    lateralVars
<1>6. t = s
  BY <1>3, <1>4, <1>5, OthersStay DEF Known
<1>7. ~Evaluate(s)
  <2>1. job \in [settings.sites -> JobType(settings)] /\ Busy(s)
    BY <1>1 DEF Known, TypeInv, Busy
  <2> QED
    BY <1>4, <2>1 DEF Evaluate, EvaluateAdsorption, EvaluateDiffusion, EvaluateBond, Evaluated,
      NotApplicable, MayStart
<1> QED BY <1>1, <1>5, <1>6, <1>7, OfferOnly

\* A class the engine is offered has every energy a rate needs and a verdict
\* of its own; it is not known to be composite, its saved refinement has been
\* compared with the network as it is.  It has the thermochemistry of this run,
\* except that the bare class of a hop or a bond may lack it in a run with
\* lateral interactions, where a warm start calculates it (the get_applicable_*
\* functions, and the hydration of their classes).
THEOREM OffersSoundHolds == Spec => OffersSound
<1>1. ASSUME IInv, OffersInv, [Next]_vars, NEW s \in settings.sites, Offering(s)
      PROVE  OfferSound(s)
  <2>1. Known
    BY <1>1 DEF IInv, Known
  <2>2. Offer(s) /\ job[s].at = "offer" /\ offers'[s][job[s].member] # None
    BY <1>1, <2>1, OffersOnly DEF Offering
  <2>3. /\ job[s].member \in settings.members
        /\ EvaluationInv(settings, ThisRun, SignatureOf(Net), classes[s], job[s])
        /\ ClassInv(settings, ThisRun, job[s].env, classes[s][job[s].env])
    BY <2>1, <2>2, MemberEvaluated, AtEvaluation
  <2>4. Offerable(classes[s][job[s].env])
    BY <1>1, <2>2, <2>3 DEF Offer, OffersInv
  <2> QED
    BY <2>3, <2>4
    DEF OfferSound, EvaluationInv, ClassInv, Rechecked, Rated, Offerable, IsAdsorption, Adsorbs
<1>2. IInv /\ OffersInv /\ [Next]_vars => [\A s \in settings.sites : OfferSound(s)]_vars
  BY <1>1 DEF OfferSound
<1> QED BY <1>2, ChecksInvariance, OffersTyped, PTL DEF Spec, OffersSound

---------------------------------------------------------------------------
(* Verdicts.                                                               *)

AllKept ==
  \A s \in settings.sites, x \in settings.envs : VerdictKept(classes[s][x], classes'[s][x])

\* Nothing has been decided about the class: any verdict will do.
LEMMA OpenKept ==
  ASSUME NEW c, Open(c), NEW d
  PROVE  VerdictKept(c, d)
BY DEF Open, VerdictKept

LEMMA SameKept ==
  ASSUME NEW S, NEW r, NEW x, NEW c \in ClassType(S), ClassInv(S, r, x, c)
  PROVE  VerdictKept(c, c)
BY DEF ClassType, ClassInv, VerdictKept

LEMMA ClassKnown ==
  ASSUME Known, NEW s \in settings.sites, NEW x \in Names(settings)
  PROVE  /\ classes[s] \in [Names(settings) -> ClassType(settings)]
         /\ classes[s][x] \in ClassType(settings)
         /\ ClassInv(settings, ThisRun, x, classes[s][x])
         /\ VerdictKept(classes[s][x], classes[s][x])
<1>1. classes[s] \in [Names(settings) -> ClassType(settings)]
  BY DEF Known, TypeInv
<1>2. classes[s][x] \in ClassType(settings)
  BY <1>1
<1>3. ClassInv(settings, ThisRun, x, classes[s][x])
  BY DEF Known, SitesInv, SiteInv
<1> QED BY <1>1, <1>2, <1>3, SameKept

LEMMA EnvsNamed ==
  ASSUME HasLimits
  PROVE  settings.envs \subseteq Names(settings) /\ Copy \notin settings.envs
BY ConfigurationAssumption DEF HasLimits, Names

LEMMA ClassesSame ==
  ASSUME Known, UNCHANGED classes
  PROVE  AllKept
BY EnvsNamed, ClassKnown DEF AllKept, Known, TypeInv

\* One site has the classes cs.
LEMMA SiteKept ==
  ASSUME Known, NEW s \in settings.sites, NEW cs,
         classes' = [classes EXCEPT ![s] = cs],
         \A x \in settings.envs : VerdictKept(classes[s][x], cs[x])
  PROVE  AllKept
<1>1. \A t \in settings.sites : classes'[t] = IF t = s THEN cs ELSE classes[t]
  BY DEF Known, TypeInv
<1>2. \A t \in settings.sites, x \in settings.envs : VerdictKept(classes[t][x], classes[t][x])
  BY EnvsNamed, ClassKnown DEF Known, TypeInv
<1> QED BY <1>1, <1>2 DEF AllKept

\* A calculation leaves d on its target.
LEMMA TargetKept ==
  ASSUME Known, NEW s \in settings.sites, job[s].at \in Calculating, NEW d,
         classes' = Becomes(s, d), Open(Target(s)) \/ VerdictKept(Target(s), d)
  PROVE  AllKept
<1> DEFINE cs == [classes[s] EXCEPT ![job[s].target] = d]
<1>1. classes' = [classes EXCEPT ![s] = cs]
  BY DEF Becomes
<1>2. VerdictKept(Target(s), d)
  BY OpenKept
<1>3. job[s].target \in Names(settings) /\ Target(s) = classes[s][job[s].target]
  BY AtTarget
<1>4. ASSUME NEW x \in settings.envs PROVE VerdictKept(classes[s][x], cs[x])
  <2>1. x \in Names(settings)
    BY EnvsNamed DEF Known, TypeInv
  <2>2. /\ classes[s] \in [Names(settings) -> ClassType(settings)]
        /\ VerdictKept(classes[s][x], classes[s][x])
    BY <2>1, ClassKnown
  <2>3. cs[x] = IF x = job[s].target THEN d ELSE classes[s][x]
    BY <2>1, <2>2
  <2> QED BY <1>2, <1>3, <2>2, <2>3
<1> HIDE DEF cs
<1> QED BY <1>1, <1>4, SiteKept

\* A calculation only changes a class nothing has been decided about.
LEMMA CalculationKept ==
  ASSUME Known, BandInv, NEW s \in settings.sites,
         LookupHits(s) \/ Relax(s) \/ BandRefines(s) \/ BandReturns(s) \/ Thermo(s)
  PROVE  AllKept
<1>1. ASSUME job[s].at \in Early, NEW d, classes' = Becomes(s, d)
      PROVE  AllKept
  <2>1. job[s].at \in Calculating
    BY <1>1 DEF Calculating
  <2>2. Open(Target(s))
    BY <1>1, <2>1, AtTarget DEF CalculationInv
  <2> QED BY <1>1, <2>1, <2>2, TargetKept
<1>2. CASE LookupHits(s)
  <2>1. job[s].at \in Early
    BY <1>2 DEF LookupHits, Early
  <2>2. \E d : classes' = Becomes(s, d)
    BY <1>2 DEF LookupHits, AdsorptionHit, DiffusionHit, BondHit, TransitionHit, SpectatorsMoved
  <2> QED BY <1>1, <2>1, <2>2
<1>3. CASE Relax(s)
  <2>1. job[s].at \in Early /\ (Keeps(s) \/ ComesApart(s))
    BY <1>3 DEF Relax, RelaxAdsorption, RelaxEndpoints, RelaxReactants, RelaxSurfaceProduct,
      RelaxGasProduct, RelaxGasPrecursor, Relaxed, Early
  <2> QED BY <1>1, <2>1, ClassesSame DEF Keeps, ComesApart
<1>4. CASE Thermo(s)
  <2>1. job[s].at \in Early /\ \E d : classes' = Becomes(s, d)
    BY <1>4 DEF Thermo, ThermoAdsorption, ThermoDiffusion, ThermoBond, Finished, Early
  <2> QED BY <1>1, <2>1
<1>5. ASSUME job[s].at = "band", neb.at # "composite", NEW d, classes' = Becomes(s, d)
      PROVE  AllKept
  <2>1. job[s].at \in Calculating
    BY <1>5 DEF Calculating
  <2>2. Open(Target(s))
    BY <1>5, <2>1, AtTarget DEF CalculationInv, Open
  <2> QED BY <1>5, <2>1, <2>2, TargetKept
<1>6. CASE BandRefines(s)
  <2>1. job[s].at = "band" /\ neb.at = "refine" /\ \E d : classes' = Becomes(s, d)
    BY <1>6 DEF BandRefines, RefineComposite, Refine
  <2> QED BY <1>5, <2>1
<1>7. CASE BandReturns(s)
  <2>1. CASE neb.at = "band"
    <3>1. job[s].at = "band" /\ \E d : classes' = Becomes(s, d)
      BY <1>7, <2>1 DEF BandReturns
    <3> QED BY <1>5, <2>1, <3>1
  <2>2. CASE neb.at # "band"
    BY <1>7, <2>2, ClassesSame DEF BandReturns
  <2> QED BY <2>1, <2>2
<1> QED BY <1>2, <1>3, <1>4, <1>6, <1>7

\* A failure is only a verdict on a class that had none.
LEMMA FailureKept ==
  ASSUME Known, NEW s \in settings.sites, job[s].at \in Outcomes
  PROVE  VerdictKept(Target(s), Verdict(Target(s), job[s].at))
<1>1. job[s].at \in Calculating
  BY DEF Outcomes, Calculating, Early
<1>2. job[s].at \in {"notConverged", "invalid"} => Open(Target(s))
  BY <1>1, AtTarget DEF CalculationInv, Early
<1>3. Target(s) \in ClassType(settings) /\ ClassInv(settings, ThisRun, job[s].target, Target(s))
  BY <1>1, AtTarget
<1>4. CASE job[s].at \in {"notConverged", "invalid"}
  BY <1>2, <1>4, OpenKept
<1>5. CASE job[s].at \notin {"notConverged", "invalid"}
  <2>1. Verdict(Target(s), job[s].at) = Target(s)
    BY <1>5 DEF Verdict
  <2> QED BY <1>3, <2>1, SameKept
<1> QED BY <1>4, <1>5

LEMMA WarmKept ==
  ASSUME Known, NEW s \in settings.sites, Warm(s)
  PROVE  AllKept
<1> DEFINE bare == classes[s][Bare]
           again == [bare EXCEPT !.stable = "undecided"]
           target == WarmTarget(bare)
           d == IF bare.stable = "stable" THEN again ELSE bare
           cs == [classes[s] EXCEPT ![target] = d]
<1>1. classes' = classes \/ classes' = [classes EXCEPT ![s] = cs]
  BY DEF Warm, WarmDiffusion, WarmBond, WarmStart
<1>2. CASE classes' = [classes EXCEPT ![s] = cs]
  <2>1. ASSUME NEW x \in settings.envs PROVE VerdictKept(classes[s][x], cs[x])
    <3>1. x \in Names(settings) /\ x # Copy
      BY EnvsNamed DEF Known, TypeInv
    <3>2. /\ classes[s] \in [Names(settings) -> ClassType(settings)]
          /\ VerdictKept(classes[s][x], classes[s][x])
      BY <3>1, ClassKnown
    <3>3. target = IF bare.stable = "stable" THEN Copy ELSE Bare
      BY DEF WarmTarget
    <3> HIDE DEF again, target
    <3>4. cs[x] = IF x = target THEN d ELSE classes[s][x]
      BY <3>1, <3>2
    <3>5. cs[x] = classes[s][x]
      BY <3>1, <3>3, <3>4
    <3> QED BY <3>2, <3>5
  <2> HIDE DEF cs
  <2> QED BY <1>2, <2>1, SiteKept
<1> HIDE DEF cs
<1> QED BY <1>1, <1>2, ClassesSame

LEMMA ReturnKept ==
  ASSUME Known, NEW s \in settings.sites, Return(s)
  PROVE  AllKept
<1>1. CASE Offer(s)
  BY <1>1, ClassesSame DEF Offer
<1>2. CASE LiveReturns(s)
  <2> DEFINE d == Verdict(Target(s), job[s].at)
  <2>1. job[s].at \in Outcomes /\ job[s].at \in Calculating /\ job[s].calc = "live"
    BY <1>2 DEF LiveReturns, Outcomes, Calculating, Early
  <2>2. job[s].target = job[s].env /\ Target(s) = classes[s][job[s].target]
    BY <2>1, AtTarget DEF CalculationInv
  <2>3. classes' = Becomes(s, d)
    BY <1>2, <2>2 DEF LiveReturns, Becomes
  <2>4. VerdictKept(Target(s), d)
    BY <2>1, FailureKept
  <2> QED BY <2>1, <2>3, <2>4, TargetKept
<1>3. CASE WarmReturns(s)
  <2> DEFINE j == job[s]
             bare == classes[s][Bare]
             captured == classes[s][j.target]
             pathed == [bare EXCEPT !.path = captured.path]
             kept == IF j.target = Copy THEN IF j.at = "ok" THEN pathed ELSE bare
                     ELSE Verdict(captured, j.at)
             cs == [[classes[s] EXCEPT ![Bare] = kept] EXCEPT ![Copy] = Fresh(0, {})]
  <2>1. j.at \in Outcomes /\ j.at \in Calculating /\ j.calc = "warm"
    BY <1>3 DEF WarmReturns, Outcomes, Calculating, Early
  <2>2. /\ j.target \in {Bare, Copy} /\ Target(s) = captured
        /\ j.target = Copy => bare.stable = "stable" /\ Admissible(bare)
    BY <2>1, AtTarget DEF CalculationInv
  <2>3. /\ Bare \in Names(settings) /\ Copy \in Names(settings) /\ Bare # Copy
    BY NoneTyped, ConfigurationAssumption
  <2>4. /\ classes[s] \in [Names(settings) -> ClassType(settings)]
        /\ bare \in ClassType(settings) /\ ClassInv(settings, ThisRun, Bare, bare)
        /\ VerdictKept(bare, bare)
    BY <2>3, ClassKnown
  <2>5. classes' = [classes EXCEPT ![s] = cs]
    <3>1. classes' = [classes EXCEPT ![s][Bare] = kept, ![s][Copy] = Fresh(0, {})]
      BY <1>3 DEF WarmReturns
    <3> QED BY <3>1 DEF Known, TypeInv
  <2>6. VerdictKept(bare, kept)
    <3>1. CASE j.target = Copy
      <4>1. /\ pathed.stable = bare.stable /\ pathed.latched = bare.latched
            /\ pathed.states = bare.states
        <5> HIDE DEF bare, captured
        <5> QED BY <2>4 DEF ClassType
      <4> HIDE DEF pathed, bare
      <4>2. VerdictKept(bare, pathed)
        BY <2>2, <2>4, <3>1, <4>1 DEF VerdictKept, ClassInv
      <4> QED BY <2>4, <3>1, <4>2
    <3>2. CASE j.target = Bare
      BY <2>1, <2>2, <2>3, <3>2, FailureKept
    <3> QED BY <2>2, <3>1, <3>2
  <2> HIDE DEF kept
  <2>7. ASSUME NEW x \in settings.envs PROVE VerdictKept(classes[s][x], cs[x])
    <3>1. x \in Names(settings) /\ x # Copy
      BY EnvsNamed DEF Known, TypeInv
    <3>2. VerdictKept(classes[s][x], classes[s][x])
      BY <3>1, ClassKnown
    <3>3. cs[x] = IF x = Bare THEN kept ELSE classes[s][x]
      BY <2>3, <2>4, <3>1
    <3> QED BY <2>6, <3>2, <3>3
  <2> HIDE DEF cs
  <2> QED BY <2>5, <2>7, SiteKept
<1> QED BY <1>1, <1>2, <1>3 DEF Return, OfferAdsorption, OfferDiffusion, OfferBond

\* Classification moves members, and makes classes nothing is known about.
LEMMA JoinedKept ==
  ASSUME NEW S, NEW r, NEW cs \in [Names(S) -> ClassType(S)], S = settings,
         \A x \in Names(S) : ClassInv(S, r, x, cs[x]),
         NEW m, NEW env \in Names(S), NEW x \in Names(S), x # Copy, env # Copy,
         NEW d, d = Joined(cs, m, env)[x]
  PROVE  Open(cs[x]) \/ d = [cs[x] EXCEPT !.members = d.members]
<1> DEFINE c == cs[x]
<1>1. c \in ClassType(S) /\ (c.number = 0 => Open(c))
  BY DEF ClassInv
<1>2. x \in ClassNames
  BY NamesOfClasses
<1>3. CASE c.number = 0
  BY <1>1, <1>3
<1>4. CASE c.number # 0
  <2>1. d = [c EXCEPT !.members = @ \cup {m}] \/ d = [c EXCEPT !.members = @ \ {m}]
    BY <1>2, <1>4 DEF Joined, Numbered
  <2> HIDE DEF c
  <2> QED BY <1>1, <2>1 DEF ClassType, c
<1> QED BY <1>3, <1>4

LEMMA MembersKept ==
  ASSUME NEW S, NEW r, NEW x, NEW c \in ClassType(S), ClassInv(S, r, x, c),
         NEW d, d = [c EXCEPT !.members = d.members]
  PROVE  /\ VerdictKept(c, d)
         /\ d.stable = c.stable /\ d.latched = c.latched /\ d.status = c.status
<1>1. /\ d.stable = c.stable /\ d.latched = c.latched /\ d.status = c.status
      /\ d.states = c.states
  BY DEF ClassType
<1> QED BY <1>1 DEF VerdictKept, ClassInv

LEMMA RecheckKept ==
  ASSUME NEW S, NEW r, NEW x, NEW c \in ClassType(S), ClassInv(S, r, x, c),
         NEW e \in ClassType(S), e = [c EXCEPT !.members = e.members], NEW m
  PROVE  VerdictKept(c, Reclassified(e, m))
<1> DEFINE checked == [e EXCEPT !.seen = SignatureOf(Net)]
           suppressed == Suppressed(checked)
<1>1. VerdictKept(c, e) /\ e.stable = c.stable /\ e.latched = c.latched /\ e.status = c.status
  BY MembersKept
<1>2. Reclassified(e, m) = IF ~Recheckable(e) THEN e
                           ELSE IF Composite(Net, m, e.minima) THEN suppressed ELSE checked
  BY DEF Reclassified
<1>3. checked.stable = e.stable /\ suppressed.status = "composite"
  BY DEF ClassType, Suppressed
<1> HIDE DEF checked, suppressed
<1>4. CASE Recheckable(e)
  <2>1. Admissible(c) /\ c.stable # "rejected" /\ ~c.latched
    BY <1>1, <1>4 DEF Recheckable, Admissible
  <2> QED BY <1>1, <1>2, <1>3, <1>4, <2>1 DEF VerdictKept, Admissible
<1> QED BY <1>1, <1>2, <1>4

LEMMA EvaluateKept ==
  ASSUME Known, NEW s \in settings.sites, Evaluate(s)
  PROVE  AllKept
<1>1. PICK m \in settings.members :
        \/ \E env \in Surroundings :
             \/ EvaluateAdsorption(s, m, env)
             \/ EvaluateDiffusion(s, m, env)
             \/ EvaluateBond(s, m, env)
        \/ NotApplicable(s, m)
  BY DEF Evaluate
<1>2. CASE NotApplicable(s, m)
  BY <1>2, ClassesSame DEF NotApplicable
<1>3. ASSUME NEW env \in Surroundings, EvaluateAdsorption(s, m, env) \/ Evaluated(s, m, env)
      PROVE  AllKept
  <2>1. env \in Names(settings) /\ env # Copy /\ Bare \in Names(settings) /\ Bare # Copy
    BY ConfigurationAssumption DEF Surroundings, Names, Known, TypeInv, HasLimits
  <2>2. /\ classes[s] \in [Names(settings) -> ClassType(settings)]
        /\ \A x \in Names(settings) : ClassInv(settings, ThisRun, x, classes[s][x])
        /\ \A x \in settings.envs : x \in Names(settings) /\ x # Copy
    BY ClassKnown, EnvsNamed DEF Known, TypeInv, SitesInv, SiteInv
  <2>3. CASE EvaluateAdsorption(s, m, env)
    <3> DEFINE js == Joined(classes[s], m, env)
    <3>1. classes' = [classes EXCEPT ![s] = js]
      BY <2>3 DEF EvaluateAdsorption
    <3>2. ASSUME NEW x \in settings.envs PROVE VerdictKept(classes[s][x], js[x])
      <4> DEFINE c == classes[s][x]
                 d == js[x]
      <4>1. Open(c) \/ d = [c EXCEPT !.members = d.members]
        BY <2>1, <2>2, JoinedKept
      <4>2. c \in ClassType(settings) /\ ClassInv(settings, ThisRun, x, c)
        BY <2>2
      <4> HIDE DEF c, d
      <4>3. VerdictKept(c, d)
        BY <4>1, <4>2, OpenKept, MembersKept
      <4> QED BY <4>3 DEF c, d
    <3> HIDE DEF js
    <3> QED BY <3>1, <3>2, SiteKept
  <2>4. CASE Evaluated(s, m, env)
    <3> DEFINE bs == IF ThisRun.lateral THEN WithBare(classes[s]) ELSE classes[s]
               js == Joined(bs, m, env)
               cs == [js EXCEPT ![env] = Reclassified(@, m)]
    <3>1. classes' = [classes EXCEPT ![s] = cs]
      BY <2>4 DEF Evaluated
    <3>2. /\ bs \in [Names(settings) -> ClassType(settings)]
          /\ \A x \in Names(settings) : /\ ClassInv(settings, ThisRun, x, bs[x])
                                        /\ Open(classes[s][x]) \/ bs[x] = classes[s][x]
      <4>1. CASE ThisRun.lateral
        <5> DEFINE n == Numbered(classes[s], Bare)
        <5>1. n \in ClassType(settings) /\ ClassInv(settings, ThisRun, Bare, n)
          BY <2>1, <2>2, NumberedClass DEF Known
        <5>2. bs = [classes[s] EXCEPT ![Bare] = n]
          BY <4>1 DEF WithBare
        <5>3. Open(classes[s][Bare]) \/ n = classes[s][Bare]
          BY <2>1, <2>2 DEF Numbered, ClassInv
        <5> HIDE DEF n, bs
        <5> QED BY <2>1, <2>2, <5>1, <5>2, <5>3
      <4>2. CASE ~ThisRun.lateral
        BY <2>2, <4>2
      <4> QED BY <4>1, <4>2
    <3> HIDE DEF bs
    <3>3. /\ js \in [Names(settings) -> ClassType(settings)]
      BY <2>1, <3>2, JoinedClasses DEF Known
    <3>4. ASSUME NEW x \in settings.envs PROVE VerdictKept(classes[s][x], cs[x])
      <4> DEFINE c == classes[s][x]
                 b == bs[x]
                 e == js[x]
      <4>1. /\ c \in ClassType(settings) /\ ClassInv(settings, ThisRun, x, c)
            /\ Open(c) \/ b = c
            /\ e \in ClassType(settings)
        BY <2>2, <3>2, <3>3
      <4>2. Open(b) \/ e = [b EXCEPT !.members = e.members]
        BY <2>1, <2>2, <3>2, JoinedKept
      <4>3. cs[x] = IF x = env THEN Reclassified(e, m) ELSE e
        BY <2>1, <2>2, <3>3
      <4> HIDE DEF c, b, e, cs
      <4>4. CASE Open(c)
        BY <4>4, OpenKept DEF c
      <4>5. CASE ~Open(c)
        <5>1. e = [c EXCEPT !.members = e.members]
          BY <4>1, <4>2, <4>5
        <5>2. VerdictKept(c, e) /\ VerdictKept(c, Reclassified(e, m))
          BY <4>1, <5>1, MembersKept, RecheckKept
        <5> QED BY <4>3, <5>2 DEF c
      <4> QED BY <4>4, <4>5
    <3> HIDE DEF cs
    <3> QED BY <3>1, <3>4, SiteKept
  <2> QED BY <1>3, <2>3, <2>4
<1> QED BY <1>1, <1>2, <1>3 DEF EvaluateDiffusion, EvaluateBond

LEMMA CalculateKept ==
  ASSUME Known, BandInv, NEW s \in settings.sites, Calculate(s), run'.at = "running"
  PROVE  AllKept
<1>1. CASE Live(s) \/ Start(s)
  BY <1>1, ClassesSame DEF Live, JudgeAdsorption, JudgeDiffusion, JudgeBond, Judge, Start
<1>2. CASE LookupMisses(s) \/ RebuildStarts(s) \/ RebuildEnds(s)
  BY <1>2, ClassesSame DEF LookupMisses, RebuildStarts, RebuildEnds
<1>3. CASE RelaxEnds(s) \/ Validate(s) \/ Write(s)
  BY <1>3, ClassesSame DEF RelaxEnds, Validate, Write
<1>4. CASE BandStarts(s) \/ BandMoves(s) \/ RefineFails(s)
  BY <1>4, ClassesSame DEF BandStarts, BandMoves, RefineFails, lateralVars
<1>5. CASE LookupHits(s) \/ Relax(s) \/ BandRefines(s) \/ BandReturns(s) \/ Thermo(s)
  BY <1>5, CalculationKept
<1>6. CASE Warm(s) \/ Return(s)
  BY <1>6, WarmKept, ReturnKept
<1>7. CASE ConstructionRaises(s) \/ WriteRaises(s)
  BY <1>7 DEF ConstructionRaises, WriteRaises, Known, TypeInv
<1> QED BY <1>1, <1>2, <1>3, <1>4, <1>5, <1>6, <1>7 DEF Calculate

\* Verdicts outlive everything that happens in a run but the discovery that
\* the event is composite: a stable class is not calculated again, a rejected
\* one not reconsidered, a numerical failure not retried (the
\* get_applicable_* functions, mark_composite_direct_event).
THEOREM VerdictsKeptHolds == Spec => VerdictsKept
<1>1. ASSUME IInv, Next, run'.at = "running"
      PROVE  AllKept
  <2>1. Known /\ BandInv
    BY <1>1 DEF IInv, Known
  <2>2. CASE \E s \in settings.sites : Evaluate(s)
    BY <2>1, <2>2, EvaluateKept
  <2>3. CASE \E s \in settings.sites : Calculate(s)
    BY <1>1, <2>1, <2>3, CalculateKept
  <2>4. CASE Grow
    BY <2>1, <2>4, ClassesSame DEF Grow, NetworkGrows
  <2>5. CASE BetweenRuns
    BY <1>1, <2>1, <2>5, ClassesSame
    DEF BetweenRuns, Finishes, Crashes, FilesSuffer, RunStarts, lateralVars, Known, TypeInv
  <2> QED BY <1>1, <2>2, <2>3, <2>4, <2>5 DEF Next
<1>2. ASSUME IInv, [Next]_vars
      PROVE  [run'.at = "running" =>
                \A s \in settings.sites, x \in settings.envs :
                  VerdictKept(classes[s][x], classes'[s][x])]_vars
  BY <1>1, <1>2 DEF AllKept
<1>3. IInv /\ [Next]_vars =>
        [run'.at = "running" =>
           \A s \in settings.sites, x \in settings.envs :
             VerdictKept(classes[s][x], classes'[s][x])]_vars
  BY <1>2
<1> QED BY <1>3, ChecksInvariance, PTL DEF Spec, VerdictsKept
=============================================================================
