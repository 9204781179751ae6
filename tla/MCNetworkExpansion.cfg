SPECIFICATION Spec
CONSTANTS
    N = 4
    Species <- MCSpecies
    Bonded <- MCBonded
    Spacing <- MCSpacing
    BondTolerance = 0
    MaxHops = 1
    MaxPairShells = 1
    Unstable <- MCUnstable
    UnstablePairs <- MCUnstablePairs
    Feed = {"a", "e"}
    Cleavages <- MCCleavages
    Combinations <- MCCombinations
    GasUnstable = {"u", "v"}
    Undefined = {"w"}
    MaxAttempts = 3
    DiffusionChoices = {TRUE, FALSE}
INVARIANTS
    NetworkConsistent
PROPERTIES
    SitesKept
CHECK_DEADLOCK FALSE
