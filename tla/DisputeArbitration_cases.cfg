\* One case through both rounds, two arbitrators who register, leave, change their
\* stake and are slashed meanwhile, a pool that shrinks and grows.
SPECIFICATION SeatedSpec
CONSTANTS
    a1 = a1  a2 = a2  client = client  operator = operator
    Arbitrators = {a1, a2}
    Parties = {client, operator}
    PartyChoices <- MCPartyChoices
    MaxCases = 1
    ROUND1_SIZE = 1
    ROUND2_SIZE = 2
    ROUND2_WINDOW_SECS = 0
    MAX_POOL_SIZE = 2
    Params <- MCParamChoices
    InitParams <- MCParams
    StakeClaims = {0, 1}
    LockClaims = {0, 1}
    PoolChoices <- MCPools
    PauseChoices = {TRUE}
    MaxSlashes = 2
    MaxTime = 4
INVARIANTS
    VerdictHasMajority
    VotesFromBench
    AppealHasGround
    TallyMatchesVotes
PROPERTY
    ImplementsOutcome
    BarsHold
    CasesClose
