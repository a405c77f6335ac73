SPECIFICATION Spec
CONSTANTS
    s1 = s1
    task = task
    inbox = inbox
    Rest = Rest
    Sockets <- MCSockets
    Topics <- MCTopics
    TaskTopics <- MCTaskTopics
    MaySubscribe <- MCMaySubscribe
    Items <- MCItems
    Workers = 1
    QueueCap = 1
    MaxRetries = 2
    MAX_QUEUE = 1
    ReadCount = 2
    RingCap = 1
    MaxEntries <- MCEntries
    Publishers <- MCPublishers
    MaxFailures = 1
INVARIANTS PerTopicOrder DeliveredIsDispatchedOrPending
PROPERTIES StreamsDrained AnchorSettles
CHECK_DEADLOCK FALSE
