SPECIFICATION SetupSpec
CONSTANTS
    r1 = r1
    r2 = r2
    r3 = r3
    Runs = {r1, r2, r3}
    HasElf = {r1, r3}
    Airdrop = 2
    DeployCost = 3
    Target <- MCTarget
    NoEnv = NoEnv
    Partial = Partial
INVARIANTS
    SetupIInv
    EnvNamesDeployed
PROPERTIES
    SetupEnds
CHECK_DEADLOCK FALSE
