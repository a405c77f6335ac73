SPECIFICATION Spec
CONSTANTS
    task = task
    api = api
    clash = clash
    stream = stream
    Malformed = Malformed
    Rows <- MCRows
    ApiEvents <- MCApiEvents
    TypeOf <- MCTypeOf
    IdOf <- MCIdOf
    Types <- MCTypes
    MaxRequests = 1
    Interest <- MCInterest
    MaxDeliveries = 3
    BatchSize = 2
    MaxAttempts = 2
    MaxFailures = 1
INVARIANT EverySubscriberServed
CHECK_DEADLOCK FALSE
