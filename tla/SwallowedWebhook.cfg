SPECIFICATION Spec
CONSTANTS
    r1 = r1
    r2 = r2
    r3 = r3
    b1 = b1
    b2 = b2
    i1 = i1
    i2 = i2
    k1 = k1
    k2 = k2
    None = None
    Requests = {r1}
    Businesses = {b1}
    Invoices = {i1}
    Keys = {k1}
    Tokens = {"tok_timeout"}
    Owner <- AllOwnedByB1
    MaxWebhookTries = 1
    NotifyDeclines = FALSE
    ReadFaults = TRUE
    MaxPSPRestarts = 0
INVARIANTS
    ProcessedMeansSettled
CHECK_DEADLOCK FALSE
