SPECIFICATION FairSpec
CONSTANTS
    a1 = a1
    a2 = a2
    o1 = o1
    o2 = o2
    cl = cl
    fc = fc
    sp = sp
    c1 = c1
    Tasks = {t1}
    Agents = {a1, a2}
    Operators = {o1, o2}
    OperatorOf <- MCOperatorOf
    KeyRank <- MCKeyRank
    Client = cl
    FeeCollector = fc
    SolrepPool = sp
    SlashTargets = {o1, fc}
    Capabilities = {c1}
    MinStake = 5
    MIN_DEADLINE_SECS = 1
    CANCEL_GRACE_SECS = 1
    EXPIRE_GRACE_SECS = 1
    DISPUTE_TIMEOUT_SECS = 1
    AgentStates <- OneStake
    Attested = {o1}
    Amounts = {10, 400}
    BidAmounts = {5, 10}
    BondBps = {50}
    WindowSecs <- WindowsAroundBounds
    DeadlineSecs = {4}
    MAX_DEADLINE_SECS = 4
    InitMarkets <- FixedMarket
    FeeChoices = {}
    WindowChoices = {}
    PauseChoices = {}
    MintChoices = {}
    HookPointers = {}
    HookChoices = {}
    MAX_BIDDERS_PER_TASK = 2
    InitialFunds = 400
    MaxTime = 7
    MaxCreateTime = 0
    MaxRounds = 2
INVARIANTS
    EscrowBacked
    WorkerIsPayee
    ReopenTakesFreeAward
    BondsCovered
    BestBidWins
    HonestBidderWhole
PROPERTIES
    EscrowDrains
    ImplementsEscrow
