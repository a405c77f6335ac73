SPECIFICATION Spec
CONSTANTS
    op = op  cl = cl  usdc = usdc  saep = saep
    Treasuries = {t1, t2}
    Operators = {op}
    OperatorOf <- MCOperatorOf
    Clients = {cl}
    Mints = {usdc, saep}
    Streams = {s1}
    Limits <- MCLimits
    Amounts = {1}
    GiftAmounts = {2}
    Rates = {1}
    Durations = {2}
    FeeBps <- MCFeeBps
    Feeds <- MCFeeds
    PriceUnit = 100
    InitGlobals <- MCGlobals
    PauseChoices = {TRUE, FALSE}
    DailyChoices = {1}
    DurationChoices = {1}
    MintChoices <- MCSaep
    TargetChoices <- MCTargets
    HookChoices <- MCHooks
    DenyChoices = {FALSE}
    SECS_PER_DAY = 1
    MAX_ALLOWED_MINTS = 2
    InitialFunds <- MCFunds
    MaxGifts = 1
    MaxBonus = 0
    StartTime = 3
    MaxTime = 5
SYMMETRY MCSymmetry
CONSTRAINT FewChanges
INVARIANTS
    EscrowShortOnlyByFee
    NothingLeftBehind
    LimitsHold
