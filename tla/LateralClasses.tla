--------------------------- MODULE LateralClasses ---------------------------
(***************************************************************************)
(* How one member of a site becomes a reaction with a rate                 *)
(* (get_applicable_*_for_member in reactions/*.py): its surroundings are    *)
(* classified, transition channels first relax the bare surroundings for a *)
(* starting path, the class is calculated unless a verdict is already held, *)
(* and the member is offered to the engine when the class is stable.       *)
(*                                                                         *)
(* An environment stands for an isomorphism class of labelled surroundings; *)
(* Bare is the one without third-party adsorbates.  A calculation itself is *)
(* StabilityChecks.                                                        *)
(***************************************************************************)
EXTENDS Naturals, Sequences, FiniteSets, IntermediatePruning

CONSTANTS
  None,
  Bare,        \* the environment without third-party adsorbates
  Copy         \* the copy of the bare class a path is captured on

VARIABLES
  settings,    \* what is run: see the module that composes this one
  run,         \* the number of the current run, whether it goes on, faults left
  network,     \* how far the network has grown: a position in settings.networks
  classes,     \* the lateral classes of each site
  offers,      \* the class each member was last offered with, or None
  job          \* the evaluation each site is in

lateralVars == <<network, classes, offers, job>>

Net == settings.networks[network]
ThisRun == settings.runs[run.number]
IsAdsorption == settings.kind = "adsorption"
IsDiffusion == settings.kind = "diffusion"
IsBond == settings.kind = "bond"
ClassNames == settings.envs \cup {Bare, Copy}

(* A class that nothing is known about; number 0 is one not made yet.      *)
Fresh(number, members) ==
  [number |-> number, members |-> members, status |-> "none",
   stable |-> "undecided", states |-> {}, thermo |-> None, latched |-> FALSE,
   path |-> None, minima |-> {}, seen |-> None, from |-> 0]

IdleJob ==
  [at |-> "idle", member |-> None, env |-> Bare, calc |-> "live",
   target |-> Bare, thermo |-> None, seed |-> None, capture |-> FALSE,
   todo |-> <<>>, id |-> 0, listing |-> {}]

NoClasses == [s \in settings.sites |-> [x \in ClassNames |-> Fresh(0, {})]]
NoOffers == [s \in settings.sites |-> [m \in settings.members |-> None]]
NoJobs == [s \in settings.sites |-> IdleJob]

LateralInit ==
  /\ network = 1
  /\ classes = NoClasses /\ offers = NoOffers /\ job = NoJobs

Busy(s) == job[s].at # "idle"

(* Adsorption jobs run in threads, one per site of the batch, when there is *)
(* more than one calculator; everything else runs one job at a time.       *)
MayStart(s) == ~Busy(s) /\ (settings.parallel \/ \A other \in settings.sites : ~Busy(other))

(* direct_event_is_admissible                                              *)
Admissible(c) == c.status # "composite"

---------------------------------------------------------------------------
(* Classification.                                                         *)

Made(cs) == {x \in ClassNames \ {Copy} : cs[x].number # 0}
Numbered(cs, x) ==
  IF cs[x].number # 0 THEN cs[x] ELSE Fresh(Cardinality(Made(cs)) + 1, {})

(* The bare class is looked up or made without assigning the member to it. *)
WithBare(cs) == [cs EXCEPT ![Bare] = Numbered(cs, Bare)]

(* The member leaves every other class for the one of its surroundings.    *)
Joined(cs, m, env) ==
  [x \in ClassNames |->
     IF x = env THEN [Numbered(cs, x) EXCEPT !.members = @ \cup {m}]
     ELSE IF x = Copy THEN cs[x] ELSE [cs[x] EXCEPT !.members = @ \ {m}]]

SignatureOf(net) ==
  IF IsDiffusion THEN DiffusionSignature(net) ELSE BondSignature(net)

(* classify_*_intermediate: some relaxed minimum proves the event composite *)
Composite(net, m, minima) ==
  \E minimum \in minima :
    IF IsDiffusion
    THEN DiffusionCertificate(net, settings.ends[m], minimum)
    ELSE BondCertificate(net, settings.ends[m], minimum)

(* mark_composite_direct_event                                             *)
Suppressed(c) == [c EXCEPT !.status = "composite", !.stable = "undecided"]

Recheckable(c) ==
  /\ Admissible(c) /\ c.stable # "rejected" /\ ~c.latched
  /\ c.minima # {} /\ c.seen # SignatureOf(Net)

(* _reclassify_persisted_*_intermediate: the minima of the last refinement *)
(* are compared with a network that has grown since.                       *)
Reclassified(c, m) ==
  IF ~Recheckable(c) THEN c
  ELSE LET checked == [c EXCEPT !.seen = SignatureOf(Net)]
       IN  IF Composite(Net, m, c.minima) THEN Suppressed(checked) ELSE checked

---------------------------------------------------------------------------
(* The evaluation of a member.                                             *)

(* The member is blocked, its ends do not differ, or it has no surface     *)
(* atoms around it: whatever it was offered with is withdrawn.             *)
NotApplicable(s, m) ==
  /\ MayStart(s) /\ offers[s][m] # None
  /\ offers' = [offers EXCEPT ![s][m] = None]
  /\ UNCHANGED <<network, classes, job>>

EvaluateAdsorption(s, m, env) ==
  /\ IsAdsorption /\ MayStart(s)
  /\ classes' = [classes EXCEPT ![s] = Joined(@, m, env)]
  /\ job' = [job EXCEPT ![s] = [IdleJob EXCEPT !.at = "judge", !.member = m, !.env = env]]
  /\ UNCHANGED <<network, offers>>

(* Diffusion and bond members: the bare class first, then the real one,    *)
(* whose saved refinement is rechecked.                                    *)
Evaluated(s, m, env) ==
  /\ MayStart(s)
  /\ LET live == Joined(IF ThisRun.lateral THEN WithBare(classes[s]) ELSE classes[s], m, env)
     IN  classes' = [classes EXCEPT ![s] = [live EXCEPT ![env] = Reclassified(@, m)]]
  /\ job' = [job EXCEPT ![s] =
               [IdleJob EXCEPT !.at = IF ThisRun.lateral THEN "warm" ELSE "judge",
                               !.member = m, !.env = env]]
  /\ UNCHANGED <<network, offers>>

EvaluateDiffusion(s, m, env) == IsDiffusion /\ Evaluated(s, m, env)
EvaluateBond(s, m, env) == IsBond /\ Evaluated(s, m, env)

Undecided(c) == c.stable = "undecided" /\ Admissible(c)
MayCalculate(c) == Undecided(c) /\ ~c.latched

Started(s, calc, target, thermo, seed, todo) ==
  [job[s] EXCEPT !.at = "start", !.calc = calc, !.target = target, !.thermo = thermo,
                 !.seed = seed, !.capture = (calc = "warm"), !.todo = todo, !.id = 0]

(* A bare class that is stable keeps its result: when its path belongs to  *)
(* another member, a path is captured on a copy.                           *)
WarmTargetItself(bare) == Bare
WarmTarget(bare) == IF bare.stable = "stable" THEN Copy ELSE Bare

WarmStart(s, todo) ==
  /\ job[s].at = "warm"
  /\ LET j == job[s]
         bare == classes[s][Bare]
         seeded == bare.stable = "stable" /\ bare.path = j.member
         target == WarmTarget(bare)
         bareAgain == [bare EXCEPT !.stable = "undecided"]
         capture == /\ Undecided(classes[s][j.env]) /\ ~seeded
                    /\ MayCalculate(IF bare.stable = "stable" THEN bareAgain ELSE bare)
     IN  IF capture
         THEN /\ classes' = [classes EXCEPT ![s][target] =
                               IF bare.stable = "stable" THEN bareAgain ELSE bare]
              /\ job' = [job EXCEPT ![s] = Started(s, "warm", target, None, None, todo)]
         ELSE /\ job' = [job EXCEPT ![s].at = "judge",
                           ![s].seed = IF Undecided(classes[s][j.env]) /\ seeded
                                       THEN j.member ELSE None]
              /\ UNCHANGED classes
  /\ UNCHANGED <<network, offers>>

(* The class of the real surroundings is calculated once, with whatever    *)
(* thermochemistry the run asks for.  The bare class starts from no path.  *)
Judge(s, thermo, todo) ==
  /\ job[s].at = "judge"
  /\ LET j == job[s]
     IN  job' = [job EXCEPT ![s] =
                   IF MayCalculate(classes[s][j.env])
                   THEN Started(s, "live", j.env, thermo,
                                IF j.env = Bare THEN None ELSE j.seed, todo)
                   ELSE [j EXCEPT !.at = "offer"]]
  /\ UNCHANGED <<network, classes, offers>>

WarmDiffusion(s, todo) == IsDiffusion /\ WarmStart(s, todo)
WarmBond(s, todo) == IsBond /\ WarmStart(s, todo)

JudgeAdsorption(s, thermo, todo) == IsAdsorption /\ Judge(s, thermo, todo)
JudgeDiffusion(s, thermo, todo) == IsDiffusion /\ Judge(s, thermo, todo)
JudgeBond(s, thermo, todo) == IsBond /\ Judge(s, thermo, todo)

Outcomes == {"ok", "composite", "notConverged", "invalid"}

(* What a failed calculation leaves on the class it was made for.  The copy *)
(* of a stable bare class is thrown away.                                  *)
Verdict(c, result) ==
  IF result = "notConverged" THEN [c EXCEPT !.latched = TRUE]
  ELSE IF result = "invalid" THEN [c EXCEPT !.stable = "rejected"] ELSE c

WarmReturns(s) ==
  /\ job[s].at \in Outcomes /\ job[s].calc = "warm"
  /\ LET j == job[s]
         captured == classes[s][j.target]
         kept == IF j.target = Copy
                 THEN IF j.at = "ok" THEN [classes[s][Bare] EXCEPT !.path = captured.path]
                                     ELSE classes[s][Bare]
                 ELSE Verdict(captured, j.at)
     IN  /\ classes' = [classes EXCEPT ![s][Bare] = kept, ![s][Copy] = Fresh(0, {})]
         /\ job' = [job EXCEPT ![s].at = "judge",
                      ![s].seed = IF j.at = "ok" THEN captured.path ELSE None]
  /\ UNCHANGED <<network, offers>>

LiveReturns(s) ==
  /\ job[s].at \in Outcomes /\ job[s].calc = "live"
  /\ classes' = [classes EXCEPT ![s][job[s].env] = Verdict(@, job[s].at)]
  /\ job' = [job EXCEPT ![s].at = "offer"]
  /\ UNCHANGED <<network, offers>>

(* The structures whose energies a rate needs.                             *)
Needed ==
  IF IsAdsorption THEN {"occupied", "unoccupied"}
  ELSE IF IsDiffusion THEN {"a", "b", "transition"} ELSE {"ab", "c", "transition"}

(* The member is offered with its class, or withdrawn.                     *)
Offerable(c) == c.stable = "stable" /\ Admissible(c) /\ Needed \subseteq c.states

Offer(s) ==
  /\ job[s].at = "offer"
  /\ LET j == job[s]
     IN  offers' = [offers EXCEPT ![s][j.member] =
                      IF Offerable(classes[s][j.env]) THEN j.env ELSE None]
  /\ job' = [job EXCEPT ![s] = IdleJob]
  /\ UNCHANGED <<network, classes>>

OfferAdsorption(s) == IsAdsorption /\ Offer(s)
OfferDiffusion(s) == IsDiffusion /\ Offer(s)
OfferBond(s) == IsBond /\ Offer(s)

(* The network expands between two evaluations.                            *)
NetworkGrows ==
  /\ network < Len(settings.networks) /\ \A s \in settings.sites : ~Busy(s)
  /\ network' = network + 1
  /\ UNCHANGED <<classes, offers, job>>

(* A run ends: a new one starts without classes.                           *)
Forget == network' = 1 /\ classes' = NoClasses /\ offers' = NoOffers /\ job' = NoJobs
=============================================================================
