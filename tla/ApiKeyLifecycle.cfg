SPECIFICATION Spec
CONSTANTS
    None = None
    Calls = {c1, c2, c3}
    BusinessIds = {b1, b2}
SYMMETRY CallsAndBusinesses
INVARIANTS
    TypeOK
    ImmediateRevocation
    KeysStayInTenant
    RotationKeepsAKey
    BootstrapOnlyWhenLockedOut
CHECK_DEADLOCK FALSE
