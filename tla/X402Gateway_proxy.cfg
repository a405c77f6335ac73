SPECIFICATION Spec
CONSTANTS
    Demands <- MCDemands
    Budget = 3
    Max402Retries = 2
    MaxFailures = 1
INVARIANTS
    PaidOnlyAfterService
    FullEscrowOnlyUnseen
PROPERTY RequestAnswered
CHECK_DEADLOCK FALSE
