SPECIFICATION NotificationSpec
CONSTANTS
    None = None
    Invoices = {i1}
    Events = {e1, e2}
    Businesses = {b1}
    EventOwner <- OneOwner
    Workers = {w1, w2}
    MaxAttempts = 2
    BackoffSteps = 1
    ClaimBatchSize = 1
    MaxRedeliveries = 1
    MaxFaults = 1
INVARIANTS
    TypeOK
    OneSuccessPerInvoice
    ClaimedOnce
    DeliveryBudget
    DeliveredMeansAccepted
    FailedMeansBudgetSpent
    NotifyInv
PROPERTIES
    SettledStaysSettled
    EventSettles
    PaymentIsAnnounced
CHECK_DEADLOCK FALSE
