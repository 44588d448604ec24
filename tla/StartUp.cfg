SPECIFICATION FairSpec
CONSTANTS
    Servers = {s1, s2, s3}
    N = 4
    Creates = {1, 2}
    Needs <- RepositoryNeeds
    MaxCrashes = 1
INVARIANTS
    TypeOK
    RecordedIsApplied
    ServesFullSchema
    AppliedInOrder
PROPERTIES
    SomeServerComesUp
    FreshStartComesUp
CHECK_DEADLOCK FALSE
