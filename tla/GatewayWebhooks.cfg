SPECIFICATION OneKeyFairSpec
CONSTANTS
    r1 = r1
    r2 = r2
    r3 = r3
    b1 = b1
    b2 = b2
    i1 = i1
    i2 = i2
    k1 = k1
    k2 = k2
    None = None
    Requests = {r1, r2}
    Businesses = {b1, b2}
    Invoices = {i1, i2}
    Keys = {k1}
    Tokens = {"tok_success", "tok_card_declined", "tok_network_error"}
    Owner <- AllOwnedByB1
    MaxWebhookTries = 2
    NotifyDeclines = TRUE
    ReadFaults = FALSE
    MaxPSPRestarts = 0
INVARIANTS
    TypeOK
    IInv
    TenantIsolation
    OneAttemptPerKey
    PaidIffSucceeded
    AnswerMatchesRecord
    ProcessedMeansSettled
    SucceededHasEvent
PROPERTIES
    EveryRequestAnswered
    ChargeIsRecorded
CHECK_DEADLOCK FALSE
