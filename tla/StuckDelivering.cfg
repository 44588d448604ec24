SPECIFICATION FairSpec
CONSTANTS
    e1 = e1
    e2 = e2
    b1 = b1
    b2 = b2
    w1 = w1
    w2 = w2
    None = None
    Events = {e1}
    Businesses = {b1}
    EventOwner <- E1OwnedByB1
    Workers = {w1}
    MaxAttempts = 2
    BackoffSteps = 1
    ClaimBatchSize = 1
    MaxRedeliveries = 0
    MaxFaults = 1
PROPERTIES
    FailedTryIsFollowed
CHECK_DEADLOCK FALSE
