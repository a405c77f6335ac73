SPECIFICATION Spec
CONSTANTS
    s1 = s1
    s2 = s2
    Stakers <- MCStakers
    Roots <- MCRoots
    Amounts <- MCAmounts
    Shares <- MCShares
    InitialShares <- MCInitialShares
    Caps <- MCCaps
    Powers <- MCPowers
    MaxIntakes = 2
    MaxEpochs = 2
    MaxTime = 5
    MaxAdminOps = 1
    EpochDuration = 1
    ClaimWindow = 2
    MinTotalForBurn = 10
    DistributionWindow = 1
    SweepGrace = 1
    TransferFeeBps = 10
    MaxFailures = 1
INVARIANTS
    StakerVaultShortOnlyByFees
    ServedLeavesFit
PROPERTY ElapsedEpochCloses
CHECK_DEADLOCK FALSE
