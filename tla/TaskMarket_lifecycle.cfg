SPECIFICATION Spec
CONSTANTS
    a1 = a1
    a2 = a2
    o1 = o1
    o2 = o2
    cl = cl
    fc = fc
    sp = sp
    c1 = c1
    Tasks = {t1}
    Agents = {a1, a2}
    Operators = {o1, o2}
    OperatorOf <- MCOperatorOf
    KeyRank <- MCKeyRank
    Client = cl
    FeeCollector = fc
    SolrepPool = sp
    SlashTargets = {o1, fc}
    Capabilities = {c1}
    MinStake = 5
    MIN_DEADLINE_SECS = 1
    CANCEL_GRACE_SECS = 1
    EXPIRE_GRACE_SECS = 1
    DISPUTE_TIMEOUT_SECS = 1
    AgentStates <- UpOrDown
    Attested = {o1}
    Amounts = {10, 400}
    BidAmounts = {}
    BondBps = {}
    WindowSecs = {}
    DeadlineSecs <- DeadlinesAroundBounds
    MAX_DEADLINE_SECS = 3
    InitMarkets <- FreshMarket
    FeeChoices <- FeesUpAndOver
    WindowChoices = {0, 2}
    PauseChoices = {TRUE, FALSE}
    MintChoices = {TRUE, FALSE}
    HookPointers = {"allowlist"}
    HookChoices = {TRUE, FALSE}
    MAX_BIDDERS_PER_TASK = 2
    InitialFunds = 400
    MaxTime = 6
    MaxCreateTime = 1
    MaxRounds = 0
INVARIANTS
    EscrowBacked
PROPERTIES
    ImplementsEscrow
